--------------------------- MODULE MCWindowLimiter ---------------------------
(* A limiter with three nested windows: the widest holds four of the        *)
(* narrowest, and one request cost (4) is larger than the narrowest budget. *)
EXTENDS WindowLimiter

MCLimits == {[window |-> 2, budget |-> 3],
             [window |-> 4, budget |-> 5],
             [window |-> 8, budget |-> 8]}
MCCosts == {1, 2, 4}
MCLatencies == {0, 1}
MCPauses == {1, 3, 6}
==============================================================================
