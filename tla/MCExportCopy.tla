---------------------------- MODULE MCExportCopy ----------------------------
(* A staging view and a mart of it that name a customer, a view over the     *)
(* mart, a table of failed rows no model declares, a mart that names nobody. *)
EXTENDS ExportCopy

MCViews == [x \in {"segment"} |-> "orders"]
MCIdentified == {"stg_orders", "orders", "segment", "audit"}
MCShipped == {"stg_orders", "orders", "segment", "co2"}
MCCopiers ==
    {[who |-> "release", trouble |-> t] : t \in Troubles} \cup
    {[who |-> "live", trouble |-> t] :
        t \in {"none", "no lakehouse", "no warehouse", "already rewritten"}}
=============================================================================
