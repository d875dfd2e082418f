----------------------------- MODULE AgentProofs -----------------------------
(***************************************************************************)
(* One question to the analyst, for any tools, any requests beside it, any *)
(* number of rounds and of builds.                                         *)
(***************************************************************************)
EXTENDS Agent, TLAPS, FiniteSetTheorems, SequenceTheorems, NaturalsInduction, WellFoundedInduction

-----------------------------------------------------------------------------
(* Numbers. *)

\* A nonempty set of naturals has a least.
LEMMA LeastOf ==
  ASSUME NEW S \in SUBSET Nat, S # {}
  PROVE  \E m \in S : \A x \in S : m <= x
<1>1. IsWellFoundedOn(OpToRel(<, Nat), Nat)
  BY NatLessThanWellFounded
<1>2. PICK m \in S : \A y \in S : ~(<<y, m>> \in OpToRel(<, Nat))
  BY <1>1, WFMin
<1>3. \A y \in S : ~(y < m)
  BY <1>2 DEF OpToRel
<1> QED
  BY <1>3

\* The places of a sequence that are the last of some kind.
LEMMA LastOf ==
  ASSUME NEW n \in Nat, NEW S \in SUBSET (1 .. n), S # {}
  PROVE  Max(S) \in S /\ \A x \in S : x <= Max(S)
<1> DEFINE T == {n - x : x \in S}
<1>1. T \in SUBSET Nat /\ T # {}
  <2>1. \A x \in S : n - x \in Nat
    OBVIOUS
  <2> QED
    BY <2>1
<1>2. PICK m \in T : \A y \in T : m <= y
  BY <1>1, LeastOf
<1>3. PICK k \in S : m = n - k
  OBVIOUS
<1>4. \A x \in S : n - k <= n - x
  BY <1>2, <1>3
<1>5. \A x \in S : k >= x
  <2> TAKE x \in S
  <2>1. n - k <= n - x /\ k \in 1 .. n /\ x \in 1 .. n
    BY <1>4
  <2> QED
    BY <2>1
<1> QED
  BY <1>3, <1>5 DEF Max

\* The place of a number in a set of them, from below.
Place(V, v) == Cardinality({w \in V : w <= v})

LEMMA PlacesRise ==
  ASSUME NEW n \in Nat, NEW V \in SUBSET (1 .. n), IsFiniteSet(V), NEW u \in V, NEW v \in V
  PROVE  /\ Place(V, u) \in 1 .. Cardinality(V)
         /\ u < v <=> Place(V, u) < Place(V, v)
<1>1. \A x : /\ IsFiniteSet({w \in V : w <= x}) /\ Place(V, x) \in Nat /\ Place(V, x) <= Cardinality(V)
  BY FS_Subset, FS_CardinalityType DEF Place
<1>2. \A x \in V : x \in {w \in V : w <= x}
  OBVIOUS
<1>3. Place(V, u) # 0
  BY <1>1, <1>2, FS_EmptySet DEF Place
<1>4. ASSUME NEW x \in V, NEW y \in V, x <= y PROVE Place(V, x) <= Place(V, y)
  <2>1. {w \in V : w <= x} \subseteq {w \in V : w <= y}
    <3>1. x \in Int /\ y \in Int /\ \A w \in V : w \in Int
      OBVIOUS
    <3>2. \A w \in V : w <= x => w <= y
      BY <1>4, <3>1
    <3> QED
      BY <3>2
  <2> QED
    BY <1>1, <2>1, FS_Subset DEF Place
<1>5. ASSUME u < v PROVE Place(V, u) # Place(V, v)
  <2>0. u \in Int /\ v \in Int /\ \A w \in V : w \in Int
    OBVIOUS
  <2>1. {w \in V : w <= u} \subseteq {w \in V : w <= v}
    <3>1. \A w \in V : w <= u => w <= v
      BY <1>5, <2>0
    <3> QED
      BY <3>1
  <2>2. v \notin {w \in V : w <= u} /\ v \in {w \in V : w <= v}
    BY <1>5, <2>0
  <2> QED
    BY <1>1, <2>1, <2>2, FS_Subset DEF Place
<1>6. /\ Cardinality(V) \in Nat /\ Place(V, u) \in Nat /\ Place(V, v) \in Nat
      /\ Place(V, u) <= Cardinality(V)
  BY <1>1, FS_CardinalityType
<1>7. Place(V, u) \in 1 .. Cardinality(V)
  BY <1>3, <1>6
<1>8. u \in Int /\ v \in Int
  OBVIOUS
<1>9. CASE u < v
  <2>1. Place(V, u) <= Place(V, v)
    <3>1. u <= v
      BY <1>8, <1>9
    <3> QED
      BY <1>4, <3>1
  <2> QED
    BY <1>5, <1>6, <1>7, <1>9, <2>1
<1>10. CASE v <= u
  <2>1. Place(V, v) <= Place(V, u)
    BY <1>4, <1>10
  <2> QED
    BY <1>6, <1>7, <1>8, <1>10, <2>1
<1> QED
  BY <1>7, <1>8, <1>9, <1>10

\* The places leave no gap.
LEMMA PlacesAreDense ==
  ASSUME NEW top \in Nat, NEW V \in SUBSET (1 .. top), IsFiniteSet(V)
  PROVE  {Place(V, v) : v \in V} = 1 .. Cardinality(V)
<1>1. \A v \in V : Place(V, v) \in 1 .. Cardinality(V)
  BY PlacesRise
<1>2. ASSUME NEW n \in 1 .. Cardinality(V) PROVE \E v \in V : Place(V, v) = n
  <2> DEFINE B == {k \in {Place(V, v) : v \in V} : k >= n}
  <2>1. Cardinality(V) \in Nat
    BY FS_CardinalityType
  <2>2. V # {}
    BY <2>1, FS_EmptySet
  <2>3. Max(V) \in V /\ \A x \in V : x <= Max(V)
    BY <2>2, LastOf
  <2>4. {w \in V : w <= Max(V)} = V
    BY <2>3
  <2>5. Place(V, Max(V)) = Cardinality(V)
    BY <2>4 DEF Place
  <2>6. B \in SUBSET Nat /\ B # {}
    <3>1. \A v \in V : Place(V, v) \in Nat
      BY <1>1, <2>1
    <3>2. Place(V, Max(V)) >= n /\ Place(V, Max(V)) \in {Place(V, v) : v \in V}
      BY <2>1, <2>3, <2>5
    <3> QED
      BY <3>1, <3>2
  <2>7. PICK k \in B : \A x \in B : k <= x
    BY <2>6, LeastOf
  <2>8. PICK v \in V : Place(V, v) = k
    OBVIOUS
  <2>9. CASE k = n
    BY <2>8, <2>9
  <2>10. CASE k # n
    <3> DEFINE W == {w \in V : w <= v} \ {v}
    <3>1. IsFiniteSet({w \in V : w <= v}) /\ v \in {w \in V : w <= v}
      BY FS_Subset
    <3>2. IsFiniteSet(W) /\ Cardinality(W) = k - 1
      BY <2>8, <3>1, FS_RemoveElement DEF Place
    <3>3. k \in Nat /\ k > n /\ n >= 1 /\ k - 1 >= n
      BY <2>6, <2>10
    <3>4. W # {} /\ W \in SUBSET (1 .. top)
      <4>1. Cardinality(W) # 0
        BY <3>2, <3>3
      <4> QED
        BY <4>1, FS_EmptySet
    <3>5. PICK m \in W : \A x \in W : x <= m
      BY <3>2, <3>4, LastOf
    <3>6. {w \in V : w <= m} = W
      <4>1. v \in Int /\ m \in V /\ m <= v /\ m # v /\ \A w \in V : w \in Int
        BY <3>5
      <4>2. \A w \in V : w <= m => w <= v /\ w # v
        BY <4>1
      <4> QED
        BY <3>5, <4>2
    <3>7. m \in V /\ Place(V, m) = k - 1
      BY <3>2, <3>6 DEF Place
    <3>8. k - 1 \in B
      BY <3>3, <3>5, <3>7
    <3> QED
      BY <2>7, <3>3, <3>8
  <2> QED
    BY <2>9, <2>10
<1> QED
  BY <1>1, <1>2

\* What a sequence holds at some of its places.
LEMMA AtPlacesHolds ==
  ASSUME NEW s, NEW n \in Nat, DOMAIN s = 1 .. n, NEW S \in SUBSET DOMAIN s
  PROVE  /\ ToSet(AtPlaces(s, S)) = {s[i] : i \in S}
         /\ (\A i \in S, j \in S : s[i] = s[j] => i = j) => IsInjective(AtPlaces(s, S))
<1> DEFINE At(k) == CHOOSE i \in S : Place(S, i) = k
           places == 1 .. Cardinality(S)
           t == [k \in places |-> s[At(k)]]
<1>1. IsFiniteSet(S)
  <2>1. 1 \in Int /\ n \in Int /\ S \in SUBSET (1 .. n)
    OBVIOUS
  <2> QED
    BY <2>1, FS_Interval, FS_Subset
<1>2. {Place(S, v) : v \in S} = places
  BY <1>1, PlacesAreDense
<1>3. \A k \in places : At(k) \in S /\ Place(S, At(k)) = k
  BY <1>2
<1>4. \A u \in S, v \in S : Place(S, u) = Place(S, v) => u = v
  <2> TAKE u \in S, v \in S
  <2>1. /\ Place(S, u) \in places /\ Place(S, v) \in places /\ u \in 1 .. n /\ v \in 1 .. n
        /\ u < v <=> Place(S, u) < Place(S, v)
        /\ v < u <=> Place(S, v) < Place(S, u)
    BY <1>1, PlacesRise
  <2>2. Cardinality(S) \in Nat
    BY <1>1, FS_CardinalityType
  <2> QED
    BY <2>1, <2>2
<1>5. \A u \in S : Place(S, u) \in places /\ At(Place(S, u)) = u
  BY <1>2, <1>3, <1>4
<1>6. AtPlaces(s, S) = t
  BY DEF AtPlaces, Place
<1> HIDE DEF At, places
<1>7. DOMAIN t = places /\ \A k \in places : t[k] = s[At(k)]
  OBVIOUS
<1> HIDE DEF t
<1>8. ToSet(t) = {s[i] : i \in S}
  <2>1. \A k \in places : \E i \in S : t[k] = s[i]
    BY <1>3, <1>7
  <2>2. \A i \in S : \E k \in places : t[k] = s[i]
    BY <1>5, <1>7
  <2> QED
    BY <1>7, <2>1, <2>2 DEF ToSet
<1>9. ASSUME \A i \in S, j \in S : s[i] = s[j] => i = j PROVE IsInjective(t)
  BY <1>3, <1>7, <1>9 DEF IsInjective
<1> QED
  BY <1>6, <1>8, <1>9

\* The elements of a sequence that are not among some, each at its first place.
LEMMA FirstPlaces ==
  ASSUME NEW s, NEW n \in Nat, DOMAIN s = 1 .. n, NEW known
  PROVE  LET S == {i \in DOMAIN s : s[i] \notin known /\ \A j \in 1 .. i - 1 : s[j] # s[i]}
         IN  /\ \A i \in S, j \in S : s[i] = s[j] => i = j
             /\ {s[i] : i \in S} = ToSet(s) \ known
<1> DEFINE S == {i \in DOMAIN s : s[i] \notin known /\ \A j \in 1 .. i - 1 : s[j] # s[i]}
<1>1. ASSUME NEW i \in S, NEW j \in S, s[i] = s[j] PROVE i = j
  <2>1. i \in 1 .. n /\ j \in 1 .. n
    OBVIOUS
  <2>2. CASE i < j
    BY <1>1, <2>1, <2>2
  <2>3. CASE j < i
    BY <1>1, <2>1, <2>3
  <2> QED
    BY <2>1, <2>2, <2>3
<1>2. ASSUME NEW i \in DOMAIN s, s[i] \notin known PROVE \E j \in S : s[j] = s[i]
  <2> DEFINE Same == {j \in DOMAIN s : s[j] = s[i]}
  <2>1. Same \in SUBSET Nat /\ Same # {}
    OBVIOUS
  <2>2. PICK m \in Same : \A j \in Same : m <= j
    BY <2>1, LeastOf
  <2>3. m \in 1 .. n
    OBVIOUS
  <2>4. \A j \in 1 .. m - 1 : s[j] # s[m]
    <3> TAKE j \in 1 .. m - 1
    <3>1. j \in 1 .. n /\ ~(m <= j)
      BY <2>3
    <3> QED
      BY <2>2, <3>1
  <2>5. m \in S /\ s[m] = s[i]
    BY <1>2, <2>4
  <2> QED
    BY <2>5
<1>3. {s[i] : i \in S} = ToSet(s) \ known
  <2>1. \A i \in S : i \in DOMAIN s /\ s[i] \notin known
    OBVIOUS
  <2> HIDE DEF S
  <2> QED
    BY <1>2, <2>1 DEF ToSet
<1> QED
  BY <1>1, <1>3

-----------------------------------------------------------------------------
(* Types. *)

Ids == Seq({"call", "given"} \cup Nat)

Opening == {r \in Requests : ~Unopened(r)}

AnyResult == {Results[c][e][call] : c \in DOMAIN Editions, e \in DOMAIN Editions, call \in Opening}
             \cup {Refusal, Described, Locked}

Messages == [role : {"assistant"}, ids : Seq(Ids)] \cup [role : {"tool"}, id : Ids, result : AnyResult]

LoopTypes(l) ==
  /\ l = [pc |-> l.pc, round |-> l.round, question |-> l.question, ids |-> l.ids, messages |-> l.messages,
          pending |-> l.pending, running |-> l.running, outputs |-> l.outputs, notes |-> l.notes,
          calls |-> l.calls, answer |-> l.answer]
  /\ l.pc \in {"idle", "model", "calls", "answered", "none", "lost"}
  /\ l.round \in 0 .. MaxRounds /\ l.question \in Questions \cup {Null} /\ l.ids \in BOOLEAN
  /\ l.messages \in Seq(Messages) /\ l.pending \in Seq(Asked) /\ l.calls \in Seq(Asked)
  /\ l.running \in [id : Ids, call : Asked] \cup {Null}
  /\ l.outputs \in Seq({r.figures : r \in AnyResult}) /\ l.notes \in Seq({r.note : r \in AnyResult})
  /\ l.pc # "calls" => l.pending = <<>> /\ l.running = Null
  /\ l.pc = "idle" => l.round = 0
  /\ l.pc \in {"model", "calls"} => l.round # 0

CallTypes ==
  /\ wh \in [edition : DOMAIN Editions, building : BOOLEAN, builds : 0 .. MaxBuilds]
  /\ wh.building => wh.builds < MaxBuilds
  /\ readers \subseteq Callers
  /\ at \in [Callers -> {NoCall} \cup [pc : {"opened"}, call : Opening, bounds : {Null}]
                                 \cup [pc : {"bounds"}, call : Opening, bounds : DOMAIN Editions]]
  /\ server \in [request : Requests \cup {Null}, reply : AnyResult \cup {Null}]
  /\ server.request = Null \/ server.reply = Null
  /\ at["loop"] # NoCall => loop.running # Null

\* The messages the model said, and the last of them: the one the calls are from.
Spoken(ms) == {k \in DOMAIN ms : ms[k].role = "assistant"}

Saying(ms) == Max(Spoken(ms))

Said(l) ==
  l.pc = "calls" =>
    /\ Spoken(l.messages) # {}
    /\ Len(l.pending) <= Len(l.messages[Saying(l.messages)].ids)

TypeInv == LoopTypes(loop) /\ Said(loop) /\ CallTypes

\* A result of the warehouse is one of the tools'.
LEMMA ResultTypes ==
  ASSUME NEW c \in DOMAIN Editions, NEW e \in DOMAIN Editions, NEW call \in Opening
  PROVE  Results[c][e][call] \in AnyResult
BY DEF AnyResult

LEMMA TypeInit == Init => TypeInv
<1> SUFFICES ASSUME Init PROVE TypeInv
  OBVIOUS
<1>1. LoopTypes(loop)
  BY AgentAssumption DEF Init, NotAsked, LoopTypes
<1>2. CallTypes
  BY AgentAssumption DEF Init, NoCall, CallTypes, Callers
<1>3. Said(loop)
  BY DEF Init, NotAsked, Said
<1> QED
  BY <1>1, <1>2, <1>3 DEF TypeInv

\* The last message the model said is the last of those.
LEMMA SayingIsLast ==
  ASSUME NEW ms \in Seq(Messages), Spoken(ms) # {}
  PROVE  /\ Saying(ms) \in DOMAIN ms /\ ms[Saying(ms)].role = "assistant"
         /\ ms[Saying(ms)].ids \in Seq(Ids)
         /\ \A k \in Spoken(ms) : k <= Saying(ms)
<1>1. Len(ms) \in Nat /\ Spoken(ms) \in SUBSET (1 .. Len(ms))
  BY DEF Spoken
<1>2. Saying(ms) \in Spoken(ms) /\ \A k \in Spoken(ms) : k <= Saying(ms)
  BY <1>1, LastOf DEF Saying
<1>3. Saying(ms) \in DOMAIN ms /\ ms[Saying(ms)].role = "assistant"
  BY <1>2 DEF Spoken
<1>4. ms[Saying(ms)] \in Messages
  BY <1>3
<1>5. ms[Saying(ms)].ids \in Seq(Ids)
  BY <1>3, <1>4 DEF Messages
<1> QED
  BY <1>2, <1>3, <1>5

\* What the model says next is then the last.
LEMMA NextIsLast ==
  ASSUME NEW ms \in Seq(Messages), NEW m \in Messages, m.role = "assistant"
  PROVE  /\ Spoken(Append(ms, m)) = Spoken(ms) \cup {Len(ms) + 1}
         /\ Saying(Append(ms, m)) = Len(ms) + 1
<1> DEFINE n == Len(ms) + 1
           k == Append(ms, m)
<1>1. /\ n \in Nat /\ n >= 1 /\ k \in Seq(Messages) /\ DOMAIN k = 1 .. n /\ k[n] = m
      /\ DOMAIN ms = 1 .. n - 1 /\ \A i \in DOMAIN ms : k[i] = ms[i]
  OBVIOUS
<1> HIDE DEF n, k
<1>2. Spoken(k) = Spoken(ms) \cup {n}
  BY <1>1 DEF Spoken
<1>3. Saying(k) \in Spoken(k) /\ n <= Saying(k) /\ Saying(k) \in 1 .. n
  BY <1>1, <1>2, SayingIsLast DEF Spoken
<1> QED
  BY <1>1, <1>2, <1>3 DEF n, k

\* A result is not said by the model.
LEMMA ResultKeepsSaying ==
  ASSUME NEW ms \in Seq(Messages), NEW m \in Messages, m.role = "tool"
  PROVE  Spoken(Append(ms, m)) = Spoken(ms) /\ Saying(Append(ms, m)) = Saying(ms)
<1> DEFINE n == Len(ms) + 1
           k == Append(ms, m)
<1>1. /\ n \in Nat /\ n >= 1 /\ k \in Seq(Messages) /\ DOMAIN k = 1 .. n /\ k[n] = m
      /\ DOMAIN ms = 1 .. n - 1 /\ \A i \in DOMAIN ms : k[i] = ms[i]
  OBVIOUS
<1> HIDE DEF n, k
<1>2. Spoken(k) = Spoken(ms)
  BY <1>1 DEF Spoken
<1> QED
  BY <1>2 DEF Saying, k

\* Another element at a place of a sequence.
LEMMA OneChanged ==
  ASSUME NEW S, NEW s \in Seq(S), NEW i \in DOMAIN s, NEW e \in S, NEW t, t = [s EXCEPT ![i] = e]
  PROVE  /\ t \in Seq(S) /\ DOMAIN t = DOMAIN s /\ t[i] = e
         /\ \A j \in DOMAIN s \ {i} : t[j] = s[j]
OBVIOUS

\* A history with an id written into it.
WithId(ms, k, i, id) == [ms EXCEPT ![k].ids[i] = id]

\* Nor does an id written into it.
LEMMA IdTypes ==
  ASSUME NEW ms \in Seq(Messages), NEW k \in DOMAIN ms, ms[k].role = "assistant",
         NEW i \in DOMAIN ms[k].ids, NEW id \in Ids
  PROVE  /\ WithId(ms, k, i, id) \in Seq(Messages) /\ DOMAIN WithId(ms, k, i, id) = DOMAIN ms
         /\ \A j \in DOMAIN ms \ {k} : WithId(ms, k, i, id)[j] = ms[j]
         /\ WithId(ms, k, i, id)[k].role = "assistant" /\ WithId(ms, k, i, id)[k].ids = [ms[k].ids EXCEPT ![i] = id]
         /\ Spoken(WithId(ms, k, i, id)) = Spoken(ms) /\ Saying(WithId(ms, k, i, id)) = Saying(ms)
<1> DEFINE new == WithId(ms, k, i, id)
<1>1. PICK l \in Seq(Ids) : ms[k] = [role |-> "assistant", ids |-> l]
  <2>1. ms[k] \in [role : {"assistant"}, ids : Seq(Ids)]
    BY DEF Messages
  <2> QED
    BY <2>1
<1>2. PICK x \in Seq(Ids) : x = [l EXCEPT ![i] = id]
  <2>1. i \in DOMAIN l
    BY <1>1
  <2> QED
    BY <2>1, OneChanged
<1>3. new = [ms EXCEPT ![k] = [ms[k] EXCEPT !.ids = x]]
  <2>1. ms[k].ids = l
    BY <1>1
  <2>2. new = [ms EXCEPT ![k] = [ms[k] EXCEPT !.ids = [ms[k].ids EXCEPT ![i] = id]]]
    BY DEF WithId
  <2>3. [ms[k].ids EXCEPT ![i] = id] = x
    BY <1>2, <2>1
  <2> QED
    BY <2>2, <2>3
<1>4. [ms[k] EXCEPT !.ids = x] = [role |-> "assistant", ids |-> x]
  <2>1. [[role |-> "assistant", ids |-> l] EXCEPT !.ids = x] = [role |-> "assistant", ids |-> x]
    OBVIOUS
  <2> QED
    BY <1>1, <2>1
<1>5. /\ new \in Seq(Messages) /\ DOMAIN new = DOMAIN ms
      /\ \A j \in DOMAIN ms \ {k} : new[j] = ms[j]
      /\ new[k] = [role |-> "assistant", ids |-> x]
  <2>1. PICK m \in Messages : m = [role |-> "assistant", ids |-> x]
    BY DEF Messages
  <2>2. new = [ms EXCEPT ![k] = m]
    BY <1>3, <1>4, <2>1
  <2>3. /\ new \in Seq(Messages) /\ DOMAIN new = DOMAIN ms /\ new[k] = m
        /\ \A j \in DOMAIN ms \ {k} : new[j] = ms[j]
    BY <2>2, OneChanged
  <2> QED
    BY <2>1, <2>3
<1>6. new[k].role = "assistant" /\ new[k].ids = [ms[k].ids EXCEPT ![i] = id]
  BY <1>1, <1>2, <1>5
<1>7. Spoken(new) = Spoken(ms)
  BY <1>5, <1>6 DEF Spoken
<1> QED
  BY <1>5, <1>6, <1>7 DEF Saying

\* Results are found by one of the two callers for a call they were making.
LEMMA ReplyTypes ==
  ASSUME TypeInv, NEW a \in Callers, NEW result \in AnyResult, Reply(a, result),
         a = "loop" => loop.running # Null
  PROVE  /\ LoopTypes(loop') /\ Said(loop')
         /\ server' \in [request : Requests \cup {Null}, reply : AnyResult \cup {Null}]
         /\ server'.request = Null \/ server'.reply = Null
<1>1. CASE a = "server"
  <2>1. server' = [request |-> Null, reply |-> result] /\ loop' = loop
    BY <1>1 DEF Reply
  <2> QED
    BY <2>1 DEF TypeInv, CallTypes
<1>2. CASE a = "loop"
  <2> DEFINE m == [role |-> "tool", id |-> loop.running.id, result |-> result]
  <2>1. /\ loop' = [loop EXCEPT !.running = Null, !.outputs = Append(@, result.figures),
                        !.notes = AddNote(@, result.note), !.messages = Append(@, m)]
        /\ server' = server
    BY <1>2 DEF Reply
  <2>2. /\ loop.running \in [id : Ids, call : Asked] /\ loop.pc = "calls" /\ LoopTypes(loop)
        /\ loop.messages \in Seq(Messages)
    BY <1>2 DEF TypeInv, LoopTypes
  <2>3. m \in Messages /\ m.role = "tool"
    BY <2>2 DEF Messages
  <2>4. /\ Append(loop.messages, m) \in Seq(Messages)
        /\ Append(loop.outputs, result.figures) \in Seq({r.figures : r \in AnyResult})
        /\ AddNote(loop.notes, result.note) \in Seq({r.note : r \in AnyResult})
    BY <2>2, <2>3 DEF LoopTypes, AddNote
  <2> HIDE DEF m
  <2>5. LoopTypes(loop')
    BY <2>1, <2>2, <2>4 DEF LoopTypes
  <2>6. Said(loop')
    <3>1. loop'.messages = Append(loop.messages, m) /\ loop'.pending = loop.pending
      BY <2>1, <2>2 DEF LoopTypes
    <3>2. Spoken(loop'.messages) = Spoken(loop.messages) /\ Saying(loop'.messages) = Saying(loop.messages)
      BY <2>2, <2>3, <3>1, ResultKeepsSaying
    <3>3. Spoken(loop.messages) # {} /\ Len(loop.pending) <= Len(loop.messages[Saying(loop.messages)].ids)
      BY <2>2 DEF TypeInv, Said
    <3>4. Saying(loop.messages) \in DOMAIN loop.messages
      BY <2>2, <3>3, SayingIsLast
    <3>5. loop'.messages[Saying(loop.messages)] = loop.messages[Saying(loop.messages)]
      BY <2>2, <2>3, <3>1, <3>4
    <3> QED
      BY <3>1, <3>2, <3>3, <3>5 DEF Said
  <2> QED
    BY <2>1, <2>5, <2>6 DEF TypeInv, CallTypes
<1> QED
  BY <1>1, <1>2 DEF Callers

\* A call wanted is one of the requests, and of the loop's only when it runs one.
LEMMA WantedTypes ==
  ASSUME TypeInv, NEW a \in Callers, Wanted(a) # Null
  PROVE  /\ Wanted(a) \in Requests /\ at[a] = NoCall
         /\ a = "loop" => loop.running # Null
         /\ ~Unopened(Wanted(a)) => Wanted(a) \in Opening
<1>1. CASE a = "server"
  BY <1>1 DEF Wanted, TypeInv, CallTypes, Opening
<1>2. CASE a = "loop"
  <2>1. loop.running # Null /\ loop.running \in [id : Ids, call : Asked] /\ Wanted(a) = loop.running.call
    BY <1>2 DEF Wanted, TypeInv, LoopTypes
  <2>2. Wanted(a) \in Asked
    BY <2>1
  <2> QED
    BY <2>1, <2>2, AgentAssumption DEF Wanted, Opening
<1> QED
  BY <1>1, <1>2 DEF Callers

\* A tool's step leaves the loop alone or replies with one of the tools' results.
LEMMA ToolReplies ==
  ASSUME TypeInv, NEW a \in Callers, CallTool(a)
  PROVE  \/ UNCHANGED loop
         \/ (a = "loop" => loop.running # Null) /\ \E result \in AnyResult : Reply(a, result)
<1>1. CASE ReplyUnopened(a) \/ ReplyLocked(a)
  <2>1. Wanted(a) # Null /\ (Reply(a, Refusal) \/ Reply(a, Described) \/ Reply(a, Locked))
    BY <1>1 DEF ReplyUnopened, ReplyLocked
  <2>2. Refusal \in AnyResult /\ Described \in AnyResult /\ Locked \in AnyResult
    BY DEF AnyResult
  <2> QED
    BY <2>1, <2>2, WantedTypes
<1>2. CASE Connect(a) \/ ReadBounds(a)
  BY <1>2 DEF Connect, ReadBounds
<1>3. CASE ReadRows(a)
  <2> DEFINE result == Results[at[a].bounds][wh.edition][at[a].call]
  <2>1. at[a].pc = "bounds" /\ Reply(a, result)
    BY <1>3 DEF ReadRows
  <2>2. at[a] \in [pc : {"bounds"}, call : Opening, bounds : DOMAIN Editions] /\ at[a] # NoCall
    BY <2>1 DEF TypeInv, CallTypes, NoCall
  <2>3. result \in AnyResult
    BY <2>2, ResultTypes DEF TypeInv, CallTypes
  <2>4. a = "loop" => loop.running # Null
    BY <2>2 DEF TypeInv, CallTypes
  <2> HIDE DEF result
  <2> QED
    BY <2>1, <2>3, <2>4
<1> QED
  BY <1>1, <1>2, <1>3 DEF CallTool

LEMMA CallToolTypes ==
  ASSUME TypeInv, NEW a \in Callers, CallTool(a)
  PROVE  TypeInv'
<1>0. LoopTypes(loop) /\ Said(loop) /\ CallTypes
  BY DEF TypeInv
<1>1. CASE ReplyUnopened(a)
  <2>1. Reply(a, Refusal) \/ Reply(a, Described)
    BY <1>1 DEF ReplyUnopened
  <2>2. Refusal \in AnyResult /\ Described \in AnyResult
    BY DEF AnyResult
  <2>3. Wanted(a) # Null /\ UNCHANGED <<wh, readers, at>>
    BY <1>1 DEF ReplyUnopened
  <2>4. /\ LoopTypes(loop') /\ Said(loop')
        /\ server' \in [request : Requests \cup {Null}, reply : AnyResult \cup {Null}]
        /\ server'.request = Null \/ server'.reply = Null
    BY <2>1, <2>2, <2>3, ReplyTypes, WantedTypes
  <2>5. at["loop"] # NoCall => loop'.running # Null
    <3>1. at[a] = NoCall
      BY <2>3, WantedTypes
    <3>2. a = "loop" \/ loop' = loop
      BY <2>1 DEF Reply, Callers
    <3> QED
      BY <1>0, <3>1, <3>2 DEF CallTypes
  <2> QED
    BY <1>0, <2>3, <2>4, <2>5 DEF TypeInv, CallTypes
<1>2. CASE ReplyLocked(a)
  <2>2. Locked \in AnyResult
    BY DEF AnyResult
  <2>3. Wanted(a) # Null /\ Reply(a, Locked) /\ UNCHANGED <<wh, readers, at>>
    BY <1>2 DEF ReplyLocked
  <2>4. /\ LoopTypes(loop') /\ Said(loop')
        /\ server' \in [request : Requests \cup {Null}, reply : AnyResult \cup {Null}]
        /\ server'.request = Null \/ server'.reply = Null
    BY <2>2, <2>3, ReplyTypes, WantedTypes
  <2>5. at["loop"] # NoCall => loop'.running # Null
    <3>1. at[a] = NoCall
      BY <2>3, WantedTypes
    <3>2. a = "loop" \/ loop' = loop
      BY <2>3 DEF Reply, Callers
    <3> QED
      BY <1>0, <3>1, <3>2 DEF CallTypes
  <2> QED
    BY <1>0, <2>3, <2>4, <2>5 DEF TypeInv, CallTypes
<1>3. CASE Connect(a)
  <2>1. /\ Wanted(a) # Null /\ ~Unopened(Wanted(a)) /\ UNCHANGED <<wh, loop, server>>
        /\ at' = [at EXCEPT ![a] = [NoCall EXCEPT !.pc = "opened", !.call = Wanted(a)]]
        /\ readers' \subseteq readers \cup Callers
    BY <1>3 DEF Connect
  <2>2. Wanted(a) \in Opening /\ (a = "loop" => loop.running # Null)
    BY <2>1, WantedTypes
  <2>3. [NoCall EXCEPT !.pc = "opened", !.call = Wanted(a)] \in [pc : {"opened"}, call : Opening, bounds : {Null}]
    BY <2>2 DEF NoCall
  <2> QED
    BY <1>0, <2>1, <2>2, <2>3 DEF TypeInv, CallTypes
<1>4. CASE ReadBounds(a)
  <2>1. /\ at[a].pc = "opened" /\ UNCHANGED <<wh, readers, loop, server>>
        /\ at' = [at EXCEPT ![a].pc = "bounds", ![a].bounds = wh.edition]
    BY <1>4 DEF ReadBounds
  <2>2. at[a] \in [pc : {"opened"}, call : Opening, bounds : {Null}] /\ at[a] # NoCall
    BY <1>0, <2>1 DEF CallTypes, NoCall
  <2>3. at'[a] \in [pc : {"bounds"}, call : Opening, bounds : DOMAIN Editions]
    BY <1>0, <2>1, <2>2 DEF CallTypes
  <2>4. /\ DOMAIN at' = Callers /\ at' = [b \in Callers |-> at'[b]]
        /\ \A b \in Callers \ {a} : at'[b] = at[b]
    BY <1>0, <2>1 DEF CallTypes
  <2>5. at' \in [Callers -> {NoCall} \cup [pc : {"opened"}, call : Opening, bounds : {Null}]
                                    \cup [pc : {"bounds"}, call : Opening, bounds : DOMAIN Editions]]
    BY <1>0, <2>3, <2>4 DEF CallTypes
  <2>6. at'["loop"] # NoCall => loop.running # Null
    BY <1>0, <2>2, <2>4 DEF CallTypes, Callers
  <2> QED
    BY <1>0, <2>1, <2>5, <2>6 DEF TypeInv, CallTypes
<1>5. CASE ReadRows(a)
  <2> DEFINE result == Results[at[a].bounds][wh.edition][at[a].call]
  <2>1. /\ at[a].pc = "bounds" /\ Reply(a, result) /\ wh' = wh
        /\ at' = [at EXCEPT ![a] = NoCall] /\ readers' \subseteq readers
    BY <1>5 DEF ReadRows, Closed
  <2>2. at[a] \in [pc : {"bounds"}, call : Opening, bounds : DOMAIN Editions] /\ at[a] # NoCall
    BY <1>0, <2>1 DEF CallTypes, NoCall
  <2>3. result \in AnyResult
    BY <1>0, <2>2, ResultTypes DEF CallTypes
  <2>4. a = "loop" => loop.running # Null
    BY <1>0, <2>2 DEF CallTypes
  <2> HIDE DEF result
  <2>5. /\ LoopTypes(loop') /\ Said(loop')
        /\ server' \in [request : Requests \cup {Null}, reply : AnyResult \cup {Null}]
        /\ server'.request = Null \/ server'.reply = Null
    BY <2>1, <2>3, <2>4, ReplyTypes
  <2>6. at'["loop"] # NoCall => loop'.running # Null
    <3>1. a = "loop" \/ loop' = loop
      BY <2>1 DEF Reply, Callers
    <3> QED
      BY <1>0, <2>1, <3>1 DEF CallTypes, Callers
  <2> QED
    BY <1>0, <2>1, <2>5, <2>6 DEF TypeInv, CallTypes
<1> QED
  BY <1>1, <1>2, <1>3, <1>4, <1>5 DEF CallTool

\* The model's replies, and the loop around them.
LEMMA LoopStepTypes ==
  ASSUME TypeInv, \/ \E q \in Questions, ids \in BOOLEAN : Ask(q, ids)
                  \/ Model \/ TakeCall \/ NextRound
  PROVE  TypeInv'
<1>0. LoopTypes(loop) /\ Said(loop) /\ CallTypes /\ MaxRounds \in Nat \ {0}
  BY AgentAssumption DEF TypeInv
<1>1. UNCHANGED <<wh, readers, at, server>>
  BY DEF Ask, Model, ModelCalls, ModelAnswers, ModelFails, TakeCall, NextRound
<1>2. CASE \E q \in Questions, ids \in BOOLEAN : Ask(q, ids)
  <2>1. PICK q \in Questions, ids \in BOOLEAN : Ask(q, ids)
    BY <1>2
  <2>2. loop' = [pc |-> "model", round |-> 1, question |-> q, ids |-> ids, messages |-> <<>>, pending |-> <<>>,
                 running |-> Null, outputs |-> <<>>, notes |-> <<>>, calls |-> <<>>, answer |-> Null]
    BY <2>1 DEF Ask, NotAsked
  <2>4. LoopTypes(loop')
    BY <1>0, <2>2 DEF LoopTypes
  <2>3. Said(loop') /\ loop.running = Null
    BY <1>0, <2>1 DEF Ask, NotAsked, Said, LoopTypes
  <2> QED
    BY <1>0, <1>1, <2>3, <2>4 DEF TypeInv, CallTypes
<1>3. ASSUME loop.pc = "model", NEW calls \in Seq(Asked), ModelCalls(calls) PROVE TypeInv'
  <2> DEFINE m == [role |-> "assistant",
                   ids |-> [i \in DOMAIN calls |-> IF loop.ids THEN <<"given", Len(loop.messages), i>> ELSE <<>>]]
  <2>1. loop' = [loop EXCEPT !.pc = "calls", !.pending = calls, !.messages = Append(@, m)]
    BY <1>3 DEF ModelCalls
  <2>2. m.ids \in Seq(Ids) /\ Len(m.ids) = Len(calls)
    <3>1. Len(loop.messages) \in Nat /\ Len(calls) \in Nat /\ DOMAIN calls = 1 .. Len(calls)
      BY <1>0 DEF LoopTypes
    <3>2. \A i \in DOMAIN calls : <<"given", Len(loop.messages), i>> \in Ids /\ <<>> \in Ids
      BY <3>1 DEF Ids
    <3> QED
      BY <3>1, <3>2
  <2>3. m \in Messages /\ m.role = "assistant"
    BY <2>2 DEF Messages
  <2> HIDE DEF m
  <2>4. Append(loop.messages, m) \in Seq(Messages)
    BY <1>0, <2>3 DEF LoopTypes
  <2>5. LoopTypes(loop')
    BY <1>0, <1>3, <2>1, <2>4 DEF LoopTypes
  <2>6. /\ loop'.messages = Append(loop.messages, m) /\ loop'.pending = calls
        /\ Spoken(loop'.messages) # {} /\ Saying(loop'.messages) = Len(loop.messages) + 1
    <3>1. loop'.messages = Append(loop.messages, m) /\ loop'.pending = calls
      BY <1>0, <2>1 DEF LoopTypes
    <3> QED
      BY <1>0, <2>3, <3>1, NextIsLast DEF LoopTypes
  <2>7. loop'.messages[Len(loop.messages) + 1] = m
    BY <1>0, <2>3, <2>6 DEF LoopTypes
  <2>8. Said(loop')
    BY <2>2, <2>6, <2>7 DEF Said
  <2>9. loop.running = Null
    BY <1>0, <1>3 DEF LoopTypes
  <2> QED
    BY <1>0, <1>1, <2>5, <2>8, <2>9 DEF TypeInv, CallTypes
<1>4. ASSUME loop.pc = "model", NEW text, ModelAnswers(text) PROVE TypeInv'
  <2> DEFINE m == [role |-> "assistant", ids |-> <<>>]
  <2>1. m \in Messages
    BY DEF Messages
  <2>3. PICK x : loop' = [loop EXCEPT !.pc = "answered", !.messages = Append(@, m), !.answer = x]
    BY <1>4 DEF ModelAnswers
  <2> HIDE DEF m
  <2>4. Append(loop.messages, m) \in Seq(Messages) /\ loop.pc = "model"
    BY <1>0, <1>4, <2>1 DEF LoopTypes
  <2>2. /\ loop'.pc = "answered" /\ loop.running = Null
        /\ LoopTypes(loop')
    BY <1>0, <2>3, <2>4 DEF LoopTypes
  <2> QED
    BY <1>0, <1>1, <2>2 DEF TypeInv, CallTypes, Said
<1>5. CASE loop.pc = "model" /\ ModelFails
  <2>1. /\ loop'.pc = "lost" /\ loop.running = Null
        /\ LoopTypes(loop')
    BY <1>0, <1>5 DEF ModelFails, LoopTypes
  <2> QED
    BY <1>0, <1>1, <2>1 DEF TypeInv, CallTypes, Said
<1>6. CASE TakeCall
  <2> DEFINE said == Saying(loop.messages)
             ids == loop.messages[said].ids
             i == Len(ids) - Len(loop.pending) + 1
             calls == Append(loop.calls, Head(loop.pending))
             id == IF ids[i] = <<>> THEN MadeUpId(calls, i) ELSE ids[i]
             told == [loop EXCEPT !.pending = Tail(@), !.calls = calls]
  <2>1. /\ loop.pc = "calls" /\ loop.pending # <<>> /\ loop.running = Null
        /\ loop' = IF PassedOver(loop.round) THEN told
                  ELSE [told EXCEPT !.running = [id |-> id, call |-> Head(loop.pending)],
                                    !.messages[said].ids[i] = id]
    BY <1>6 DEF TakeCall, Saying, Spoken
  <2>2. /\ said \in DOMAIN loop.messages /\ loop.messages[said].role = "assistant" /\ ids \in Seq(Ids)
        /\ Len(loop.pending) <= Len(ids) /\ Spoken(loop.messages) # {} /\ loop.messages \in Seq(Messages)
    BY <1>0, <2>1, SayingIsLast DEF Said, LoopTypes
  <2>3. /\ loop.pending \in Seq(Asked) /\ Len(loop.pending) >= 1 /\ Head(loop.pending) \in Asked
        /\ Tail(loop.pending) \in Seq(Asked) /\ Len(Tail(loop.pending)) = Len(loop.pending) - 1
        /\ calls \in Seq(Asked) /\ Len(calls) = Len(loop.calls) + 1
    BY <1>0, <2>1 DEF LoopTypes
  <2> HIDE DEF said, ids, i, calls, id
  <2>4. i \in DOMAIN ids
    <3>1. Len(ids) \in Nat /\ DOMAIN ids = 1 .. Len(ids)
      BY <2>2
    <3>2. Len(loop.pending) \in Nat /\ Len(loop.pending) >= 1 /\ Len(loop.pending) <= Len(ids)
      BY <2>2, <2>3
    <3> QED
      BY <3>1, <3>2 DEF i
  <2>5. id \in Ids
    <3>1. ids[i] \in Ids
      BY <2>2, <2>4
    <3>2. Len(calls) \in Nat
      BY <2>3
    <3>3. MadeUpId(calls, i) \in Ids
      BY <3>2 DEF MadeUpId, Ids
    <3> QED
      BY <3>1, <3>3 DEF id
  <2>6. LoopTypes(told) /\ told.messages = loop.messages /\ told.pc = "calls" /\ told.pending = Tail(loop.pending)
        /\ told.running = Null
    <3>1. PICK p \in Seq(Asked), c \in Seq(Asked) : p = Tail(loop.pending) /\ c = calls
      BY <2>3
    <3>2. told = [loop EXCEPT !.pending = p, !.calls = c]
      BY <3>1
    <3> HIDE DEF told
    <3>3. LoopTypes(told)
      BY <1>0, <2>1, <3>2 DEF LoopTypes
    <3>4. told.messages = loop.messages /\ told.pc = "calls" /\ told.pending = p /\ told.running = Null
      BY <1>0, <2>1, <3>2 DEF LoopTypes
    <3> QED
      BY <3>1, <3>3, <3>4
  <2>7. CASE PassedOver(loop.round)
    <3>1. loop' = told
      BY <2>1, <2>7
    <3>2. Said(told)
      BY <2>2, <2>3, <2>6 DEF Said, said, ids
    <3> QED
      BY <1>0, <1>1, <2>1, <2>6, <3>1, <3>2 DEF TypeInv, CallTypes
  <2>8. CASE ~PassedOver(loop.round)
    <3> DEFINE run == [id |-> id, call |-> Head(loop.pending)]
               ms == WithId(loop.messages, said, i, id)
    <3>1. run \in [id : Ids, call : Asked] /\ run # Null
      BY <2>3, <2>5, AgentAssumption DEF Ids
    <3>2. /\ ms \in Seq(Messages) /\ DOMAIN ms = DOMAIN loop.messages
          /\ ms[said].ids = [ids EXCEPT ![i] = id]
          /\ Spoken(ms) = Spoken(loop.messages) /\ Saying(ms) = said
      BY <2>2, <2>4, <2>5, IdTypes DEF said, ids
    <3>3. loop' = [told EXCEPT !.running = run, !.messages = ms]
      BY <2>1, <2>6, <2>8 DEF WithId
    <3> HIDE DEF run, ms, told
    <3>4. /\ LoopTypes(loop') /\ loop'.messages = ms /\ loop'.pending = Tail(loop.pending)
          /\ loop'.running = run
      BY <2>6, <3>1, <3>2, <3>3 DEF LoopTypes
    <3>5. Said(loop')
      BY <2>2, <2>3, <2>4, <3>2, <3>4 DEF Said
    <3> QED
      BY <1>0, <1>1, <3>1, <3>4, <3>5 DEF TypeInv, CallTypes
  <2> QED
    BY <2>7, <2>8
<1>7. CASE NextRound
  <2>1. /\ loop.pc = "calls" /\ loop.pending = <<>> /\ loop.running = Null
        /\ loop' = IF LastRound(loop.round) THEN [loop EXCEPT !.pc = "none"]
                   ELSE [loop EXCEPT !.pc = "model", !.round = @ + 1]
    BY <1>7 DEF NextRound
  <2>2. LoopTypes(loop') /\ loop'.pc \in {"none", "model"}
    <3>1. CASE LastRound(loop.round)
      <4>1. loop' = [loop EXCEPT !.pc = "none"]
        BY <2>1, <3>1
      <4> QED
        BY <1>0, <2>1, <4>1 DEF LoopTypes
    <3>2. CASE ~LastRound(loop.round)
      <4>1. PICK n \in 1 .. MaxRounds : n = loop.round + 1
        BY <1>0, <2>1, <3>2 DEF LoopTypes, LastRound
      <4>2. loop' = [loop EXCEPT !.pc = "model", !.round = n]
        BY <2>1, <3>2, <4>1
      <4>3. n \in 0 .. MaxRounds /\ n # 0
        BY <1>0
      <4> QED
        BY <1>0, <2>1, <4>2, <4>3 DEF LoopTypes
    <3> QED
      BY <3>1, <3>2
  <2> QED
    BY <1>0, <1>1, <2>1, <2>2 DEF TypeInv, CallTypes, Said
<1>8. CASE Model
  <2>1. ASSUME NEW n \in 1 .. MaxCalls - Len(loop.calls), NEW calls \in [1 .. n -> Asked] PROVE calls \in Seq(Asked)
    OBVIOUS
  <2> QED
    BY <1>3, <1>4, <1>5, <1>8, <2>1 DEF Model
<1> QED
  BY <1>2, <1>6, <1>7, <1>8

LEMMA TypeStep == TypeInv /\ [Next]_vars => TypeInv'
<1> SUFFICES ASSUME TypeInv, [Next]_vars PROVE TypeInv'
  OBVIOUS
<1>0. LoopTypes(loop) /\ Said(loop) /\ CallTypes
  BY DEF TypeInv
<1>1. CASE \/ \E q \in Questions, ids \in BOOLEAN : Ask(q, ids)
           \/ Model \/ TakeCall \/ NextRound
  BY <1>1, LoopStepTypes
<1>2. ASSUME NEW a \in Callers, CallTool(a) PROVE TypeInv'
  BY <1>2, CallToolTypes
<1>3. ASSUME NEW call \in Requested, Serve(call) PROVE TypeInv'
  <2>1. call \in Requests /\ server = [request |-> Null, reply |-> Null]
    BY <1>3, AgentAssumption DEF Requested
  <2> QED
    BY <1>0, <1>3, <2>1 DEF Serve, TypeInv, CallTypes
<1>4. CASE Deliver
  BY <1>0, <1>4 DEF Deliver, TypeInv, CallTypes
<1>5. CASE BuildStarts
  BY <1>0, <1>5 DEF BuildStarts, TypeInv, CallTypes
<1>6. CASE BuildEnds
  <2>1. wh.builds + 1 \in 0 .. MaxBuilds
    BY <1>0, <1>6, AgentAssumption DEF BuildEnds, CallTypes
  <2> QED
    BY <1>0, <1>6, <2>1 DEF BuildEnds, TypeInv, CallTypes
<1>7. CASE UNCHANGED vars
  BY <1>0, <1>7 DEF vars, TypeInv, CallTypes
<1> QED
  BY <1>1, <1>2, <1>3, <1>4, <1>5, <1>6, <1>7 DEF Next, LoopStep, Callers

LEMMA TypeInvImpliesTypeOK == TypeInv => TypeOK
<1> SUFFICES ASSUME TypeInv PROVE TypeOK
  OBVIOUS
<1>0. LoopTypes(loop) /\ Said(loop) /\ CallTypes
  BY DEF TypeInv
<1>1. ASSUME NEW a \in Callers
      PROVE  /\ at[a].pc \in {"idle", "opened", "bounds"} /\ (at[a].pc = "idle") = (at[a].call = Null)
             /\ at[a].bounds \in DOMAIN Editions \cup {Null}
  <2>1. \A r \in Opening : r # Null
    BY AgentAssumption DEF Opening
  <2>2. at[a] = NoCall => at[a].pc = "idle" /\ at[a].call = Null /\ at[a].bounds = Null
    BY DEF NoCall
  <2>3. at[a] # NoCall => at[a].pc \in {"opened", "bounds"} /\ at[a].call \in Opening
                          /\ at[a].bounds \in DOMAIN Editions \cup {Null}
    BY <1>0 DEF CallTypes
  <2> QED
    BY <2>1, <2>2, <2>3
<1>2. ToSet(loop.pending) \cup ToSet(loop.calls) \subseteq Asked
  BY <1>0 DEF LoopTypes, ToSet
<1> QED
  BY <1>0, <1>1, <1>2 DEF TypeOK, LoopTypes, CallTypes

\* Every caller's call, the loop's locals and the server's reply keep their types.
THEOREM TypesHold == Spec => []TypeInv
<1>1. TypeInv /\ [Next]_vars => TypeInv'
  BY TypeStep
<1> QED
  BY TypeInit, <1>1, PTL DEF Spec

-----------------------------------------------------------------------------
(* The warehouse a call reads. *)

ReadInv ==
  /\ readers = {a \in Callers : at[a].pc # "idle"}
  /\ readers # {} => ~wh.building
  /\ \A a \in Callers : at[a].pc = "bounds" => at[a].bounds = wh.edition

LEMMA ReadStep == TypeInv /\ ReadInv /\ [Next]_vars => ReadInv'
<1> SUFFICES ASSUME TypeInv, ReadInv, [Next]_vars PROVE ReadInv'
  OBVIOUS
<1>0. DOMAIN at = Callers /\ CallTypes
  BY DEF TypeInv, CallTypes
<1>1. CASE UNCHANGED <<wh, readers, at>>
  BY <1>1 DEF ReadInv
<1>2. ASSUME NEW a \in Callers, Connect(a) PROVE ReadInv'
  <2>1. /\ ~wh.building /\ readers' = readers \cup {a} /\ wh' = wh
        /\ \A b \in Callers : IF b = a THEN at'[b].pc = "opened" ELSE at'[b] = at[b]
    BY <1>0, <1>2 DEF Connect, NoCall
  <2> QED
    BY <2>1 DEF ReadInv
<1>3. ASSUME NEW a \in Callers, ReadBounds(a) PROVE ReadInv'
  <2>1. at[a].pc = "opened" /\ readers' = readers /\ wh' = wh
    BY <1>3 DEF ReadBounds
  <2>2. at[a] \in [pc : {"opened"}, call : Opening, bounds : {Null}]
    BY <1>0, <2>1 DEF CallTypes, NoCall
  <2>3. \A b \in Callers : IF b = a THEN at'[b].pc = "bounds" /\ at'[b].bounds = wh.edition ELSE at'[b] = at[b]
    BY <1>0, <1>3, <2>2 DEF ReadBounds
  <2> QED
    BY <2>1, <2>3 DEF ReadInv
<1>4. ASSUME NEW a \in Callers, ReadRows(a) PROVE ReadInv'
  <2>1. /\ readers' = readers \ {a} /\ wh' = wh
        /\ \A b \in Callers : IF b = a THEN at'[b].pc = "idle" ELSE at'[b] = at[b]
    BY <1>0, <1>4 DEF ReadRows, Closed, NoCall
  <2> QED
    BY <2>1 DEF ReadInv
<1>5. CASE BuildStarts
  BY <1>5 DEF BuildStarts, ReadInv
<1>6. CASE BuildEnds
  BY <1>6 DEF BuildEnds, ReadInv
<1>7. CASE UNCHANGED vars
  BY <1>1, <1>7 DEF vars
<1>8. ASSUME NEW a \in Callers, CallTool(a) PROVE ReadInv'
  <2>1. CASE ReplyUnopened(a) \/ ReplyLocked(a)
    BY <1>1, <2>1 DEF ReplyUnopened, ReplyLocked
  <2> QED
    BY <1>2, <1>3, <1>4, <1>8, <2>1 DEF CallTool
<1>9. CASE (\E q \in Questions, ids \in BOOLEAN : Ask(q, ids)) \/ Model \/ TakeCall \/ NextRound
           \/ (\E call \in Requested : Serve(call)) \/ Deliver
  BY <1>1, <1>9 DEF Ask, Model, ModelCalls, ModelAnswers, ModelFails, TakeCall, NextRound, Serve, Deliver
<1> QED
  BY <1>5, <1>6, <1>7, <1>8, <1>9 DEF Next, LoopStep, Callers

\* Whatever builds replace the file and whoever else calls: a call's dates and its rows are
\* of one build, and its connection is closed once it has them (tools.read_only).
THEOREM OneBuildIsRead == Spec => []OneWarehousePerCall
<1>1. Init => ReadInv
  BY DEF Init, ReadInv, NoCall
<1>2. ReadInv => OneWarehousePerCall
  BY DEF ReadInv, OneWarehousePerCall, ConnectionsCloseWithTheirCall, ToolReadsOneWarehouse
<1>3. TypeInv /\ ReadInv /\ [Next]_vars => ReadInv'
  BY ReadStep
<1> QED
  BY <1>1, <1>2, <1>3, TypesHold, PTL DEF Spec

-----------------------------------------------------------------------------
(* The history of a question. *)

\* A history with one more message.
Longer(ms, m) == Append(ms, m)

\* The id a call has in the history.
Id(ms, c) == ms[c[1]].ids[c[2]]

\* Whether the server names its calls, or the loop does.
Naming == {"given", "made up"}

\* The ids of a history of which some calls are taken and some of these answered: given
\* with their place, or made up with the number of the call, in turn.
Paired(ms, ids, n, taken, done) ==
  /\ taken \subseteq Made(ms) /\ done \subseteq taken
  /\ \A c \in taken, d \in taken : Id(ms, c) = Id(ms, d) => c = d
  /\ \A c \in taken : IF ids = "given" THEN Id(ms, c) = <<"given", c[1] - 1, c[2]>>
                      ELSE \E k \in 1 .. n : Id(ms, c) = <<"call", k>>
  /\ \A c \in Made(ms) \ taken : Id(ms, c) = IF ids = "given" THEN <<"given", c[1] - 1, c[2]>> ELSE <<>>
  /\ \A k \in Replied(ms), m \in Replied(ms) : ms[k].id = ms[m].id => k = m
  /\ \A c \in done : \E k \in Replied(ms) : ms[k].id = Id(ms, c)
  /\ \A k \in Replied(ms) : \E c \in done : ms[k].id = Id(ms, c)

\* Where the calls of a history are.
LEMMA MadeIs ==
  ASSUME NEW ms \in Seq(Messages)
  PROVE  /\ \A c \in Made(ms) : /\ c = <<c[1], c[2]>> /\ c[1] \in DOMAIN ms /\ ms[c[1]].role = "assistant"
                                /\ c[2] \in DOMAIN ms[c[1]].ids
         /\ \A k \in DOMAIN ms : ms[k].role = "assistant" => \A i \in DOMAIN ms[k].ids : <<k, i>> \in Made(ms)
BY DEF Made

LEMMA MadeOnAppend ==
  ASSUME NEW ms \in Seq(Messages), NEW m \in Messages
  PROVE  /\ DOMAIN Longer(ms, m) = DOMAIN ms \cup {Len(ms) + 1} /\ Len(ms) + 1 \notin DOMAIN ms /\ Longer(ms, m)[Len(ms) + 1] = m
         /\ \A k \in DOMAIN ms : Longer(ms, m)[k] = ms[k]
         /\ \A c \in Made(ms) : Id(Longer(ms, m), c) = Id(ms, c)
         /\ m.role = "tool" => /\ Made(Longer(ms, m)) = Made(ms)
                               /\ Replied(Longer(ms, m)) = Replied(ms) \cup {Len(ms) + 1}
         /\ m.role = "assistant" => /\ Made(Longer(ms, m)) = Made(ms) \cup {<<Len(ms) + 1, i>> : i \in DOMAIN m.ids}
                                    /\ Replied(Longer(ms, m)) = Replied(ms)
<1> DEFINE new == Longer(ms, m)
<1>1. /\ DOMAIN new = DOMAIN ms \cup {Len(ms) + 1} /\ Len(ms) + 1 \notin DOMAIN ms /\ new[Len(ms) + 1] = m
      /\ \A k \in DOMAIN ms : new[k] = ms[k]
  BY DEF Longer
<1>2. \A c \in Made(ms) : Id(new, c) = Id(ms, c)
  BY <1>1, MadeIs DEF Id
<1>3. ASSUME m.role = "tool"
      PROVE  Made(new) = Made(ms) /\ Replied(new) = Replied(ms) \cup {Len(ms) + 1}
  BY <1>1, <1>3 DEF Made, Replied
<1>4. ASSUME m.role = "assistant"
      PROVE  Made(new) = Made(ms) \cup {<<Len(ms) + 1, i>> : i \in DOMAIN m.ids} /\ Replied(new) = Replied(ms)
  BY <1>1, <1>4 DEF Made, Replied
<1> QED
  BY <1>1, <1>2, <1>3, <1>4

\* The model makes its next calls.
LEMMA CallsPair ==
  ASSUME NEW ms \in Seq(Messages), NEW ids \in Naming, NEW n \in Nat, Paired(ms, ids, n, Made(ms), Made(ms)),
         NEW m \in Messages, m.role = "assistant",
         \A i \in DOMAIN m.ids : m.ids[i] = IF ids = "given" THEN <<"given", Len(ms), i>> ELSE <<>>
  PROVE  Paired(Longer(ms, m), ids, n, Made(ms), Made(ms))
<1> DEFINE new == Longer(ms, m)
<1>1. /\ DOMAIN new = DOMAIN ms \cup {Len(ms) + 1} /\ Len(ms) + 1 \notin DOMAIN ms /\ new[Len(ms) + 1] = m
      /\ \A k \in DOMAIN ms : new[k] = ms[k]
      /\ \A c \in Made(ms) : Id(new, c) = Id(ms, c)
      /\ Made(new) = Made(ms) \cup {<<Len(ms) + 1, i>> : i \in DOMAIN m.ids}
      /\ Replied(new) = Replied(ms)
  BY MadeOnAppend
<1>2. \A k \in Replied(ms) : new[k] = ms[k]
  BY <1>1 DEF Replied
<1>3. \A c \in Made(new) \ Made(ms) : Id(new, c) = IF ids = "given" THEN <<"given", c[1] - 1, c[2]>> ELSE <<>>
  <2> TAKE c \in Made(new) \ Made(ms)
  <2>1. PICK i \in DOMAIN m.ids : c = <<Len(ms) + 1, i>>
    BY <1>1
  <2>2. Id(new, c) = m.ids[i] /\ c[1] - 1 = Len(ms) /\ c[2] = i
    BY <1>1, <2>1 DEF Id
  <2> QED
    BY <2>2
<1>4. \A c \in Made(ms), d \in Made(ms) : Id(new, c) = Id(new, d) => c = d
  BY <1>1 DEF Paired
<1>5. \A c \in Made(ms) : IF ids = "given" THEN Id(new, c) = <<"given", c[1] - 1, c[2]>>
                          ELSE \E k \in 1 .. n : Id(new, c) = <<"call", k>>
  BY <1>1 DEF Paired
<1>6. \A k \in Replied(new), j \in Replied(new) : new[k].id = new[j].id => k = j
  BY <1>1, <1>2 DEF Paired
<1>7. /\ \A c \in Made(ms) : \E k \in Replied(new) : new[k].id = Id(new, c)
      /\ \A k \in Replied(new) : \E c \in Made(ms) : new[k].id = Id(new, c)
  BY <1>1, <1>2 DEF Paired
<1> QED
  BY <1>1, <1>3, <1>4, <1>5, <1>6, <1>7 DEF Paired

\* The loop takes the next call.
LEMMA TakingPairs ==
  ASSUME NEW ms \in Seq(Messages), NEW ids \in Naming, NEW n \in Nat, NEW taken, Paired(ms, ids, n, taken, taken),
         NEW k \in DOMAIN ms, ms[k].role = "assistant", NEW i \in DOMAIN ms[k].ids, <<k, i>> \notin taken,
         NEW id \in Ids,
         ms[k].ids[i] = <<>> => id = <<"call", n + 1>>, ms[k].ids[i] # <<>> => id = ms[k].ids[i]
  PROVE  /\ Made(WithId(ms, k, i, id)) = Made(ms) /\ Id(WithId(ms, k, i, id), <<k, i>>) = id
         /\ Paired(WithId(ms, k, i, id), ids, n + 1, taken \cup {<<k, i>>}, taken)
<1> DEFINE new == WithId(ms, k, i, id)
<1>1. /\ new \in Seq(Messages) /\ DOMAIN new = DOMAIN ms
      /\ \A j \in DOMAIN ms \ {k} : new[j] = ms[j]
      /\ new[k].role = "assistant" /\ new[k].ids = [ms[k].ids EXCEPT ![i] = id]
  BY IdTypes
<1>2. DOMAIN new[k].ids = DOMAIN ms[k].ids
  BY <1>1
<1>3. Made(new) = Made(ms) /\ Replied(new) = Replied(ms) /\ k \notin Replied(ms)
  <2>1. \A j \in DOMAIN ms : new[j].role = ms[j].role /\ (ms[j].role = "assistant" => DOMAIN new[j].ids = DOMAIN ms[j].ids)
    BY <1>1, <1>2
  <2>2. {j \in DOMAIN new : new[j].role = "assistant"} = {j \in DOMAIN ms : ms[j].role = "assistant"}
    BY <1>1, <2>1
  <2>3. Made(new) = Made(ms)
    BY <2>1, <2>2 DEF Made
  <2>4. Replied(new) = Replied(ms) /\ k \notin Replied(ms)
    BY <1>1, <2>1 DEF Replied
  <2> QED
    BY <2>3, <2>4
<1>4. /\ Id(new, <<k, i>>) = id
      /\ \A c \in Made(ms) : c # <<k, i>> => Id(new, c) = Id(ms, c)
  BY <1>1, <1>2, MadeIs DEF Id
<1>5. \A j \in Replied(ms) : new[j] = ms[j]
  BY <1>1, <1>3 DEF Replied
<1>6. <<k, i>> \in Made(ms) /\ Id(ms, <<k, i>>) = ms[k].ids[i]
  BY MadeIs DEF Id
<1>7. ms[k].ids[i] = IF ids = "given" THEN <<"given", k - 1, i>> ELSE <<>>
  BY <1>6 DEF Paired
<1>8. id = IF ids = "given" THEN <<"given", k - 1, i>> ELSE <<"call", n + 1>>
  BY <1>7
<1>9. \A c \in taken : Id(new, c) = Id(ms, c)
  BY <1>4 DEF Paired
<1>10. \A c \in taken : Id(ms, c) # id
  <2> TAKE c \in taken
  <2>1. c = <<c[1], c[2]>> /\ c # <<k, i>> /\ c[1] \in Nat /\ k \in Nat
    BY MadeIs DEF Paired
  <2>2. CASE ids = "given"
    <3>1. Id(ms, c) = <<"given", c[1] - 1, c[2]>>
      BY <2>2 DEF Paired
    <3>2. id = <<"given", k - 1, i>>
      BY <1>8, <2>2
    <3>3. Id(ms, c) = id => c[1] = k /\ c[2] = i
      BY <2>1, <3>1, <3>2
    <3> QED
      BY <2>1, <3>3
  <2>3. CASE ids # "given"
    <3>1. PICK j \in 1 .. n : Id(ms, c) = <<"call", j>>
      BY <2>3 DEF Paired
    <3>2. id = <<"call", n + 1>> /\ j # n + 1
      BY <1>8, <2>3
    <3> QED
      BY <3>1, <3>2
  <2> QED
    BY <2>2, <2>3
<1>11. \A c \in taken \cup {<<k, i>>}, d \in taken \cup {<<k, i>>} : Id(new, c) = Id(new, d) => c = d
  BY <1>4, <1>9, <1>10 DEF Paired
<1>12. \A c \in taken \cup {<<k, i>>} : IF ids = "given" THEN Id(new, c) = <<"given", c[1] - 1, c[2]>>
                                        ELSE \E j \in 1 .. n + 1 : Id(new, c) = <<"call", j>>
  <2>1. CASE ids = "given"
    <3>1. \A c \in taken : Id(new, c) = <<"given", c[1] - 1, c[2]>>
      BY <1>9, <2>1 DEF Paired
    <3>2. Id(new, <<k, i>>) = <<"given", k - 1, i>>
      BY <1>4, <1>8, <2>1
    <3> QED
      BY <2>1, <3>1, <3>2
  <2>2. CASE ids # "given"
    <3>1. \A c \in taken : \E j \in 1 .. n : Id(new, c) = <<"call", j>>
      BY <1>9, <2>2 DEF Paired
    <3>2. Id(new, <<k, i>>) = <<"call", n + 1>> /\ n + 1 \in 1 .. n + 1 /\ \A j \in 1 .. n : j \in 1 .. n + 1
      BY <1>4, <1>8, <2>2
    <3> QED
      BY <2>2, <3>1, <3>2
  <2> QED
    BY <2>1, <2>2
<1>13. \A c \in Made(ms) \ (taken \cup {<<k, i>>}) :
          Id(new, c) = IF ids = "given" THEN <<"given", c[1] - 1, c[2]>> ELSE <<>>
  BY <1>4 DEF Paired
<1>14. \A j \in Replied(new), m \in Replied(new) : new[j].id = new[m].id => j = m
  BY <1>3, <1>5 DEF Paired
<1>15. /\ \A c \in taken : \E j \in Replied(new) : new[j].id = Id(new, c)
       /\ \A j \in Replied(new) : \E c \in taken : new[j].id = Id(new, c)
  <2>1. /\ \A c \in taken : \E j \in Replied(ms) : ms[j].id = Id(ms, c)
        /\ \A j \in Replied(ms) : \E c \in taken : ms[j].id = Id(ms, c)
    BY DEF Paired
  <2> QED
    BY <1>3, <1>5, <1>9, <2>1
<1>16. taken \cup {<<k, i>>} \subseteq Made(new)
  BY <1>3, <1>6 DEF Paired
<1> QED
  BY <1>3, <1>4, <1>11, <1>12, <1>13, <1>14, <1>15, <1>16 DEF Paired

\* Its result arrives.
LEMMA ReplyPairs ==
  ASSUME NEW ms \in Seq(Messages), NEW ids \in Naming, NEW n \in Nat, NEW taken, NEW c \in taken,
         Paired(ms, ids, n, taken, taken \ {c}),
         NEW m \in Messages, m.role = "tool", m.id = Id(ms, c)
  PROVE  Made(Longer(ms, m)) = Made(ms) /\ Paired(Longer(ms, m), ids, n, taken, taken)
<1> DEFINE z == Len(ms) + 1
           new == Longer(ms, m)
<1>1. /\ DOMAIN new = DOMAIN ms \cup {z} /\ z \notin DOMAIN ms /\ new[z] = m
      /\ \A k \in DOMAIN ms : new[k] = ms[k]
      /\ \A d \in Made(ms) : Id(new, d) = Id(ms, d)
      /\ Made(new) = Made(ms) /\ Replied(new) = Replied(ms) \cup {z}
  BY MadeOnAppend
<1> HIDE DEF z
<1>2. \A k \in Replied(ms) : new[k] = ms[k]
  BY <1>1 DEF Replied
<1>3. \A d \in taken : Id(new, d) = Id(ms, d)
  BY <1>1 DEF Paired
<1>4. \A k \in Replied(ms) : ms[k].id # m.id
  <2> TAKE k \in Replied(ms)
  <2>1. PICK d \in taken \ {c} : ms[k].id = Id(ms, d)
    BY DEF Paired
  <2> QED
    BY <2>1 DEF Paired
<1>5. \A k \in Replied(new), j \in Replied(new) : new[k].id = new[j].id => k = j
  BY <1>1, <1>2, <1>4 DEF Paired
<1>6. /\ \A d \in taken : \E k \in Replied(new) : new[k].id = Id(new, d)
      /\ \A k \in Replied(new) : \E d \in taken : new[k].id = Id(new, d)
  <2>1. ASSUME NEW d \in taken PROVE \E k \in Replied(new) : new[k].id = Id(new, d)
    <3>1. CASE d = c
      BY <1>1, <1>3, <3>1
    <3>2. CASE d # c
      <4>1. PICK k \in Replied(ms) : ms[k].id = Id(ms, d)
        BY <3>2 DEF Paired
      <4> QED
        BY <1>1, <1>2, <1>3, <4>1
    <3> QED
      BY <3>1, <3>2
  <2>2. ASSUME NEW k \in Replied(new) PROVE \E d \in taken : new[k].id = Id(new, d)
    <3>1. CASE k = z
      BY <1>1, <1>3, <3>1
    <3>2. CASE k # z
      <4>1. PICK d \in taken : ms[k].id = Id(ms, d)
        BY <1>1, <3>2 DEF Paired
      <4> QED
        BY <1>1, <1>2, <1>3, <3>2, <4>1
    <3> QED
      BY <3>1, <3>2
  <2> QED
    BY <2>1, <2>2
<1>7. \A d \in taken, e \in taken : Id(new, d) = Id(new, e) => d = e
  BY <1>3 DEF Paired
<1>8. \A d \in taken : IF ids = "given" THEN Id(new, d) = <<"given", d[1] - 1, d[2]>>
                       ELSE \E k \in 1 .. n : Id(new, d) = <<"call", k>>
  BY <1>3 DEF Paired
<1>9. \A d \in Made(new) \ taken : Id(new, d) = IF ids = "given" THEN <<"given", d[1] - 1, d[2]>> ELSE <<>>
  BY <1>1 DEF Paired
<1>10. taken \subseteq Made(new)
  BY <1>1 DEF Paired
<1> QED
  BY <1>1, <1>5, <1>6, <1>7, <1>8, <1>9, <1>10 DEF Paired

\* The calls of a history, counted.
LEMMA CallsAreCounted ==
  ASSUME NEW ms \in Seq(Messages), IsFiniteSet(Made(ms)), NEW m \in Messages, m.role = "assistant"
  PROVE  /\ IsFiniteSet(Made(Longer(ms, m)))
         /\ Cardinality(Made(Longer(ms, m))) = Cardinality(Made(ms)) + Len(m.ids)
<1> DEFINE z == Len(ms) + 1
           New == {<<z, i>> : i \in DOMAIN m.ids}
           f == [i \in DOMAIN m.ids |-> <<z, i>>]
<1>1. m.ids \in Seq(Ids)
  BY DEF Messages
<1>2. PICK n \in Nat : n = Len(m.ids) /\ DOMAIN m.ids = 1 .. n
  BY <1>1
<1>3. IsFiniteSet(DOMAIN m.ids) /\ Cardinality(DOMAIN m.ids) = n
  <2>1. 1 \in Int /\ n \in Int /\ (1 > n => n = 0)
    OBVIOUS
  <2>2. IsFiniteSet(1 .. n) /\ Cardinality(1 .. n) = n
    BY <2>1, FS_Interval
  <2> QED
    BY <1>2, <2>2
<1>4. f \in Surjection(DOMAIN m.ids, New) /\ f \in Injection(DOMAIN m.ids, New)
  BY DEF Surjection, Injection, IsInjective
<1>5. IsFiniteSet(New) /\ Cardinality(New) = n
  BY <1>3, <1>4, FS_Surjection
<1>6. Made(Longer(ms, m)) = Made(ms) \cup New /\ z \notin DOMAIN ms
  BY MadeOnAppend
<1>7. Made(ms) \cap New = {}
  <2> SUFFICES ASSUME NEW c \in Made(ms), c \in New PROVE FALSE
    OBVIOUS
  <2>1. PICK i \in DOMAIN m.ids : c = <<z, i>>
    OBVIOUS
  <2>2. c[1] \in DOMAIN ms
    BY MadeIs
  <2> QED
    BY <1>6, <2>1, <2>2
<1> HIDE DEF New
<1>8. /\ IsFiniteSet(Made(ms) \cup New)
      /\ Cardinality(Made(ms) \cup New) = Cardinality(Made(ms)) + Cardinality(New) - Cardinality(Made(ms) \cap New)
  BY <1>5, FS_Union
<1>9. Cardinality(Made(ms)) \in Nat /\ Cardinality(Made(ms) \cap New) = 0
  BY <1>7, FS_CardinalityType, FS_EmptySet
<1> QED
  BY <1>2, <1>5, <1>6, <1>8, <1>9

LEMMA NothingMade == Made(<<>>) = {} /\ Replied(<<>>) = {} /\ IsFiniteSet(Made(<<>>)) /\ Cardinality(Made(<<>>)) = 0
<1>1. Made(<<>>) = {} /\ Replied(<<>>) = {}
  BY DEF Made, Replied
<1> QED
  BY <1>1, FS_EmptySet

-----------------------------------------------------------------------------
(* Every call has its one reply. *)

\* The calls of a message from one place on.
Beyond(k, i, z) == {<<k, j>> : j \in i .. z}

LEMMA BeyondNext ==
  ASSUME NEW k, NEW z \in Nat, NEW i \in 1 .. z
  PROVE  Beyond(k, i, z) = Beyond(k, i + 1, z) \cup {<<k, i>>} /\ <<k, i>> \notin Beyond(k, i + 1, z)
<1>1. /\ \A j \in i .. z : j = i \/ j \in i + 1 .. z
      /\ i \in i .. z /\ i \notin i + 1 .. z /\ \A j \in i + 1 .. z : j \in i .. z
  OBVIOUS
<1> QED
  BY <1>1 DEF Beyond

NamingOf(l) == IF l.ids THEN "given" ELSE "made up"

\* Where the loop is in the reply it runs the calls of, and the calls it has yet to take.
Reached(l) == Len(l.messages[Saying(l.messages)].ids) - Len(l.pending)

Upcoming(l) == Beyond(Saying(l.messages), Reached(l) + 1, Len(l.messages[Saying(l.messages)].ids))

Taken(l) == Made(l.messages) \ Upcoming(l)

AtWork(l) == l.pc = "calls" /\ l.round # MaxRounds

HistoryInv(l) ==
  /\ IsFiniteSet(Made(l.messages)) /\ Cardinality(Made(l.messages)) = Len(l.calls) + Len(l.pending)
  /\ l.pc = "model" => Paired(l.messages, NamingOf(l), Len(l.calls), Made(l.messages), Made(l.messages))
  /\ AtWork(l) /\ l.running = Null => Paired(l.messages, NamingOf(l), Len(l.calls), Taken(l), Taken(l))
  /\ AtWork(l) /\ l.running # Null =>
       /\ <<Saying(l.messages), Reached(l)>> \in Taken(l)
       /\ l.running.id = Id(l.messages, <<Saying(l.messages), Reached(l)>>)
       /\ Paired(l.messages, NamingOf(l), Len(l.calls), Taken(l),
                 Taken(l) \ {<<Saying(l.messages), Reached(l)>>})
  /\ l.pc = "calls" /\ l.round = MaxRounds => l.running = Null
  /\ l.pc \in {"answered", "none"} \/ (l.pc = "calls" /\ l.round = MaxRounds) =>
       l.messages # <<>> /\ Last(l.messages).role = "assistant"

LEMMA HistoryInit == Init => HistoryInv(loop)
BY NothingMade DEF Init, NotAsked, HistoryInv, AtWork

LEMMA AskHistory ==
  ASSUME TypeInv, NEW q \in Questions, NEW ids \in BOOLEAN, Ask(q, ids)
  PROVE  HistoryInv(loop')
<1>1. /\ loop'.pc = "model" /\ loop'.messages = <<>> /\ loop'.calls = <<>> /\ loop'.pending = <<>>
      /\ loop'.running = Null
  BY DEF Ask, NotAsked
<1>2. Paired(<<>>, NamingOf(loop'), 0, {}, {})
  BY NothingMade DEF Paired
<1>3. Len(<<>>) = 0
  OBVIOUS
<1>4. Paired(loop'.messages, NamingOf(loop'), Len(loop'.calls), Made(loop'.messages), Made(loop'.messages))
  BY <1>1, <1>2, <1>3, NothingMade
<1>5. IsFiniteSet(Made(loop'.messages)) /\ Cardinality(Made(loop'.messages)) = Len(loop'.calls) + Len(loop'.pending)
  BY <1>1, <1>3, NothingMade
<1> QED
  BY <1>1, <1>4, <1>5 DEF HistoryInv, AtWork

LEMMA CallsHistory ==
  ASSUME TypeInv, TypeInv', HistoryInv(loop), loop.pc = "model", NEW calls \in Seq(Asked), ModelCalls(calls)
  PROVE  HistoryInv(loop')
<1> DEFINE ms == loop.messages
           m == [role |-> "assistant",
                 ids |-> [i \in DOMAIN calls |-> IF loop.ids THEN <<"given", Len(ms), i>> ELSE <<>>]]
<1>1. LoopTypes(loop) /\ ms \in Seq(Messages) /\ loop.calls \in Seq(Asked) /\ loop.pending = <<>>
  BY DEF TypeInv, LoopTypes
<1>2. m.ids \in Seq(Ids) /\ Len(m.ids) = Len(calls) /\ DOMAIN m.ids = DOMAIN calls
  <2>1. Len(ms) \in Nat /\ Len(calls) \in Nat /\ DOMAIN calls = 1 .. Len(calls)
    BY <1>1
  <2>2. \A i \in DOMAIN calls : <<"given", Len(ms), i>> \in Ids /\ <<>> \in Ids
    BY <2>1 DEF Ids
  <2> QED
    BY <2>1, <2>2
<1>3. m \in Messages /\ m.role = "assistant"
  BY <1>2 DEF Messages
<1>4. \A i \in DOMAIN m.ids : m.ids[i] = IF NamingOf(loop) = "given" THEN <<"given", Len(ms), i>> ELSE <<>>
  BY DEF NamingOf
<1>5. /\ loop'.pc = "calls" /\ loop'.pending = calls /\ loop'.messages = Longer(ms, m) /\ loop'.ids = loop.ids
      /\ loop'.calls = loop.calls /\ loop'.running = loop.running /\ loop'.round = loop.round
  BY <1>1 DEF ModelCalls, Longer, LoopTypes
<1>6. loop.running = Null /\ Longer(ms, m) \in Seq(Messages)
  BY <1>1, <1>3 DEF LoopTypes, Longer
<1> HIDE DEF ms, m
<1>7. Saying(Longer(ms, m)) = Len(ms) + 1
  BY <1>1, <1>3, NextIsLast DEF Longer
<1>8. /\ Longer(ms, m)[Len(ms) + 1] = m /\ Len(ms) + 1 \notin DOMAIN ms
      /\ Made(Longer(ms, m)) = Made(ms) \cup {<<Len(ms) + 1, i>> : i \in DOMAIN m.ids}
  BY <1>1, <1>3, MadeOnAppend
<1>9. Len(m.ids) \in Nat /\ DOMAIN m.ids = 1 .. Len(m.ids) /\ Reached(loop') = 0
  BY <1>2, <1>5, <1>7, <1>8 DEF Reached
<1>10. Upcoming(loop') = {<<Len(ms) + 1, i>> : i \in DOMAIN m.ids}
  BY <1>5, <1>7, <1>8, <1>9 DEF Upcoming, Beyond
<1>11. Taken(loop') = Made(ms)
  <2>1. \A c \in Made(ms) : c \notin Upcoming(loop')
    BY <1>1, <1>8, <1>10, MadeIs
  <2> QED
    BY <1>5, <1>8, <1>10, <2>1 DEF Taken
<1>12. Paired(ms, NamingOf(loop), Len(loop.calls), Made(ms), Made(ms))
  BY DEF HistoryInv, ms
<1>13. Paired(Longer(ms, m), NamingOf(loop), Len(loop.calls), Made(ms), Made(ms))
  <2>1. NamingOf(loop) \in Naming /\ Len(loop.calls) \in Nat
    BY <1>1 DEF NamingOf, Naming
  <2> QED
    BY <1>1, <1>3, <1>4, <1>12, <2>1, CallsPair
<1>14. NamingOf(loop') = NamingOf(loop)
  BY <1>5 DEF NamingOf
<1>15. /\ IsFiniteSet(Made(Longer(ms, m)))
       /\ Cardinality(Made(Longer(ms, m))) = Len(loop.calls) + Len(calls)
  <2>1. IsFiniteSet(Made(ms)) /\ Cardinality(Made(ms)) = Len(loop.calls)
    BY <1>1 DEF HistoryInv, ms
  <2> QED
    BY <1>1, <1>2, <1>3, <2>1, CallsAreCounted
<1>16. Longer(ms, m) # <<>> /\ Last(Longer(ms, m)).role = "assistant"
  <2>1. Longer(ms, m) # <<>> /\ Len(Longer(ms, m)) = Len(ms) + 1
    BY <1>1, <1>3 DEF Longer
  <2> QED
    BY <1>3, <1>8, <2>1 DEF Last
<1> QED
  BY <1>5, <1>6, <1>11, <1>13, <1>14, <1>15, <1>16 DEF HistoryInv, AtWork

LEMMA AnswerHistory ==
  ASSUME TypeInv, HistoryInv(loop), loop.pc = "model", NEW text, ModelAnswers(text)
  PROVE  HistoryInv(loop')
<1> DEFINE ms == loop.messages
           m == [role |-> "assistant", ids |-> <<>>]
<1>1. LoopTypes(loop) /\ ms \in Seq(Messages) /\ loop.calls \in Seq(Asked) /\ loop.pending = <<>> /\ loop.running = Null
  BY DEF TypeInv, LoopTypes
<1>2. m \in Messages /\ m.role = "assistant" /\ Len(m.ids) = 0
  BY DEF Messages
<1>3. /\ loop'.pc = "answered" /\ loop'.pending = <<>> /\ loop'.messages = Longer(ms, m)
      /\ loop'.calls = loop.calls /\ loop'.running = Null
  BY <1>1 DEF ModelAnswers, Longer, LoopTypes
<1> HIDE DEF ms, m
<1>4. IsFiniteSet(Made(ms)) /\ Cardinality(Made(ms)) = Len(loop.calls) /\ Len(loop.calls) \in Nat
  BY <1>1 DEF HistoryInv, ms
<1>5. IsFiniteSet(Made(Longer(ms, m))) /\ Cardinality(Made(Longer(ms, m))) = Len(loop.calls)
  BY <1>1, <1>2, <1>4, CallsAreCounted
<1>6. Longer(ms, m) # <<>> /\ Last(Longer(ms, m)).role = "assistant"
  BY <1>1, <1>2 DEF Longer, Last
<1>7. Len(loop'.calls) + Len(loop'.pending) = Len(loop.calls)
  BY <1>3, <1>4
<1> QED
  BY <1>3, <1>5, <1>6, <1>7 DEF HistoryInv, AtWork

LEMMA Remaining ==
  ASSUME NEW z \in Nat, NEW p \in Nat, NEW a, a = z, NEW b, b = p + 1
  PROVE  a - b + 1 = z - p /\ (b <= a => p + 1 <= z)
OBVIOUS

\* One call more is taken: the i-th of the z calls of the k-th message.
IsNext(ms, naming, n, k, z, i, id) ==
  /\ ms \in Seq(Messages) /\ naming \in Naming /\ n \in Nat
  /\ k \in DOMAIN ms /\ ms[k].role = "assistant" /\ z \in Nat /\ DOMAIN ms[k].ids = 1 .. z /\ i \in 1 .. z
  /\ Paired(ms, naming, n, Made(ms) \ Beyond(k, i, z), Made(ms) \ Beyond(k, i, z))
  /\ id \in Ids /\ (ms[k].ids[i] = <<>> => id = <<"call", n + 1>>) /\ (ms[k].ids[i] # <<>> => id = ms[k].ids[i])

LEMMA TakingNext ==
  ASSUME NEW ms, NEW naming, NEW n, NEW k, NEW z, NEW i, NEW id, IsNext(ms, naming, n, k, z, i, id)
  PROVE  /\ Made(WithId(ms, k, i, id)) = Made(ms) /\ Id(WithId(ms, k, i, id), <<k, i>>) = id
         /\ <<k, i>> \in Made(ms) \ Beyond(k, i + 1, z)
         /\ Paired(WithId(ms, k, i, id), naming, n + 1, Made(ms) \ Beyond(k, i + 1, z),
                   (Made(ms) \ Beyond(k, i + 1, z)) \ {<<k, i>>})
         /\ Saying(WithId(ms, k, i, id)) = Saying(ms) /\ Len(WithId(ms, k, i, id)[k].ids) = z
<1>3. /\ ms \in Seq(Messages) /\ naming \in Naming /\ n \in Nat
      /\ k \in DOMAIN ms /\ ms[k].role = "assistant" /\ z \in Nat /\ DOMAIN ms[k].ids = 1 .. z /\ i \in 1 .. z
      /\ id \in Ids /\ (ms[k].ids[i] = <<>> => id = <<"call", n + 1>>) /\ (ms[k].ids[i] # <<>> => id = ms[k].ids[i])
  BY DEF IsNext
<1>1. ms[k] \in Messages
  BY <1>3
<1>2. ms[k].ids \in Seq(Ids)
  BY <1>1, <1>3 DEF Messages
<1>4. i \in DOMAIN ms[k].ids
  BY <1>3
<1>5. <<k, i>> \in Made(ms)
  BY <1>3, <1>4, MadeIs
<1>6. Beyond(k, i, z) = Beyond(k, i + 1, z) \cup {<<k, i>>} /\ <<k, i>> \notin Beyond(k, i + 1, z)
  BY <1>3, BeyondNext
<1> DEFINE before == Made(ms) \ Beyond(k, i, z)
           after == Made(ms) \ Beyond(k, i + 1, z)
           new == WithId(ms, k, i, id)
<1>8. after = before \cup {<<k, i>>}
  BY <1>5, <1>6
<1>9. <<k, i>> \notin before
  BY <1>6
<1>10. after \ {<<k, i>>} = before
  BY <1>8, <1>9
<1>15. Paired(ms, naming, n, before, before)
  BY DEF IsNext
<1> HIDE DEF before, after
<1>11. /\ Made(new) = Made(ms) /\ Id(new, <<k, i>>) = id
       /\ Paired(new, naming, n + 1, before \cup {<<k, i>>}, before)
  BY <1>3, <1>4, <1>9, <1>15, TakingPairs
<1>12. Saying(new) = Saying(ms) /\ new[k].ids = [ms[k].ids EXCEPT ![i] = id]
  BY <1>3, <1>4, IdTypes
<1>13. new[k].ids \in Seq(Ids) /\ DOMAIN new[k].ids = 1 .. z
  BY <1>2, <1>3, <1>4, <1>12, OneChanged
<1>14. Len(new[k].ids) = z
  BY <1>3, <1>13
<1>16. <<k, i>> \in after
  BY <1>8
<1>17. Paired(new, naming, n + 1, after, after \ {<<k, i>>})
  BY <1>8, <1>10, <1>11
<1> QED
  BY <1>11, <1>12, <1>14, <1>16, <1>17 DEF after

\* What TakeCall does, for a call that is passed over and for one that runs.
Takes(ms, k, z, p, i, id, n) ==
  /\ ms \in Seq(Messages) /\ z \in Nat /\ p \in Nat /\ id \in Ids /\ n \in Nat
  /\ ms = loop.messages /\ k = Saying(ms) /\ Spoken(ms) # {} /\ z = Len(ms[k].ids) /\ p + 1 <= z /\ i = z - p
  /\ loop.pc = "calls" /\ loop.running = Null /\ Len(loop.pending) = p + 1 /\ Len(loop'.pending) = p
  /\ n = Len(loop.calls) /\ Len(loop'.calls) = n + 1
  /\ ms[k].ids[i] = <<>> => id = <<"call", n + 1>>
  /\ ms[k].ids[i] # <<>> => id = ms[k].ids[i]
  /\ loop'.pc = "calls" /\ loop'.ids = loop.ids /\ loop'.round = loop.round
  /\ loop.round = MaxRounds => loop'.messages = ms /\ loop'.running = Null
  /\ loop.round # MaxRounds => /\ loop'.messages = WithId(ms, k, i, id)
                               /\ \E call \in Asked : loop'.running = [id |-> id, call |-> call]

LEMMA TakingIs ==
  ASSUME TypeInv, TakeCall
  PROVE  \E ms, k, z, p, i, id, n : Takes(ms, k, z, p, i, id, n)
<1> DEFINE ms == loop.messages
           said == Saying(ms)
           ids == ms[said].ids
           i == Len(ids) - Len(loop.pending) + 1
           calls == Append(loop.calls, Head(loop.pending))
           id == IF ids[i] = <<>> THEN MadeUpId(calls, i) ELSE ids[i]
           told == [loop EXCEPT !.pending = Tail(@), !.calls = calls]
<1>1. /\ loop.pc = "calls" /\ loop.pending # <<>> /\ loop.running = Null
      /\ loop' = IF PassedOver(loop.round) THEN told
                ELSE [told EXCEPT !.running = [id |-> id, call |-> Head(loop.pending)],
                                  !.messages[said].ids[i] = id]
  BY DEF TakeCall, Saying, Spoken
<1>2. LoopTypes(loop) /\ ms \in Seq(Messages) /\ loop.calls \in Seq(Asked) /\ loop.pending \in Seq(Asked)
  BY DEF TypeInv, LoopTypes
<1>3. /\ Spoken(ms) # {} /\ ids \in Seq(Ids) /\ Len(loop.pending) <= Len(ids)
  BY <1>1, <1>2, SayingIsLast DEF TypeInv, Said
<1>4. /\ loop'.pc = "calls" /\ loop'.pending = Tail(loop.pending) /\ loop'.calls = calls /\ loop'.ids = loop.ids
      /\ loop'.round = loop.round
      /\ PassedOver(loop.round) => loop'.messages = ms /\ loop'.running = Null
      /\ ~PassedOver(loop.round) => /\ loop'.messages = WithId(ms, said, i, id)
                                    /\ loop'.running = [id |-> id, call |-> Head(loop.pending)]
  BY <1>1, <1>2 DEF LoopTypes, WithId
<1>5. PICK p \in Nat : p + 1 = Len(loop.pending) /\ p = Len(Tail(loop.pending))
  BY <1>1, <1>2
<1>6. PICK n \in Nat : n = Len(loop.calls) /\ Len(calls) = n + 1
  BY <1>1, <1>2
<1>7. PICK z \in Nat : z = Len(ids) /\ DOMAIN ids = 1 .. z
  BY <1>3
<1>8. Head(loop.pending) \in Asked
  BY <1>1, <1>2
<1>9. i = z - p /\ p + 1 <= z
  <2>1. PICK a, b : a = Len(ids) /\ b = Len(loop.pending)
    OBVIOUS
  <2>2. a = z /\ b = p + 1 /\ b <= a
    BY <1>3, <1>5, <1>7, <2>1
  <2>3. a - b + 1 = z - p /\ p + 1 <= z
    BY <2>2, Remaining
  <2> QED
    BY <2>1, <2>3
<1>10. i \in DOMAIN ids
  <2>1. z - p \in 1 .. z
    BY <1>9
  <2> QED
    BY <1>7, <1>9, <2>1
<1>11. ids[i] \in Ids
  <2>1. PICK s \in Seq(Ids) : \E j \in DOMAIN s : s = ids /\ j = i
    BY <1>3, <1>10
  <2>2. \A j \in DOMAIN s : s[j] \in Ids
    OBVIOUS
  <2> QED
    BY <2>1, <2>2
<1>12. MadeUpId(calls, i) = <<"call", n + 1>> /\ <<"call", n + 1>> \in Ids
  BY <1>6 DEF MadeUpId, Ids
<1>13. id \in Ids /\ (ids[i] = <<>> => id = <<"call", n + 1>>) /\ (ids[i] # <<>> => id = ids[i])
  BY <1>11, <1>12
<1>14. /\ Len(loop'.pending) = p /\ Len(loop'.calls) = n + 1
  BY <1>4, <1>5, <1>6
<1>15. PICK x \in Ids : x = id
  BY <1>13
<1>16. PICK j : j = i
  OBVIOUS
<1>17. /\ loop.round = MaxRounds => loop'.messages = ms /\ loop'.running = Null
       /\ loop.round # MaxRounds => /\ loop'.messages = WithId(ms, said, j, x)
                                    /\ \E call \in Asked : loop'.running = [id |-> x, call |-> call]
  BY <1>4, <1>8, <1>15, <1>16 DEF PassedOver
<1>18. (ids[j] = <<>> => x = <<"call", n + 1>>) /\ (ids[j] # <<>> => x = ids[j])
  BY <1>13, <1>15, <1>16
<1>19. j = z - p /\ p + 1 <= z
  BY <1>9, <1>16
<1>20. loop'.pc = "calls" /\ loop'.ids = loop.ids /\ loop'.round = loop.round
  BY <1>4
<1>21. /\ loop.pc = "calls" /\ loop.running = Null /\ Len(loop.pending) = p + 1 /\ Len(loop'.pending) = p
       /\ n = Len(loop.calls) /\ Len(loop'.calls) = n + 1 /\ Len(ids) = z /\ Spoken(ms) # {}
  BY <1>1, <1>3, <1>5, <1>6, <1>7, <1>14
<1>22. PICK hs \in Seq(Messages) : hs = ms
  BY <1>2
<1>23. PICK k : k = said
  OBVIOUS
<1> HIDE DEF ms, said, ids, i, id, told, calls
<1>24. ids = hs[k].ids /\ hs = loop.messages /\ k = Saying(hs)
  BY <1>22, <1>23 DEF ids, ms, said
<1>25. /\ loop.round = MaxRounds => loop'.messages = hs /\ loop'.running = Null
       /\ loop.round # MaxRounds => /\ loop'.messages = WithId(hs, k, j, x)
                                    /\ \E call \in Asked : loop'.running = [id |-> x, call |-> call]
  BY <1>17, <1>22, <1>23
<1>26. (hs[k].ids[j] = <<>> => x = <<"call", n + 1>>) /\ (hs[k].ids[j] # <<>> => x = hs[k].ids[j])
  BY <1>18, <1>24
<1>27. Spoken(hs) # {} /\ z = Len(hs[k].ids)
  BY <1>21, <1>22, <1>24
<1> QED
  <2>1. Takes(hs, k, z, p, j, x, n)
    BY <1>19, <1>20, <1>21, <1>24, <1>25, <1>26, <1>27 DEF Takes
  <2> QED
    BY <2>1

LEMMA TakingHistory ==
  ASSUME TypeInv, HistoryInv(loop), TakeCall
  PROVE  HistoryInv(loop')
<1>0. PICK ms, k, z, p, i, id, n : Takes(ms, k, z, p, i, id, n)
  BY TakingIs
<1>1. /\ ms = loop.messages /\ k = Saying(ms) /\ Spoken(ms) # {} /\ z = Len(ms[k].ids) /\ p + 1 <= z /\ i = z - p
      /\ loop.pc = "calls" /\ loop.running = Null /\ Len(loop.pending) = p + 1 /\ Len(loop'.pending) = p
      /\ n = Len(loop.calls) /\ Len(loop'.calls) = n + 1
      /\ ms[k].ids[i] = <<>> => id = <<"call", n + 1>>
      /\ ms[k].ids[i] # <<>> => id = ms[k].ids[i]
      /\ loop'.pc = "calls" /\ loop'.ids = loop.ids /\ loop'.round = loop.round
      /\ loop.round = MaxRounds => loop'.messages = ms /\ loop'.running = Null
      /\ loop.round # MaxRounds => /\ loop'.messages = WithId(ms, k, i, id)
                                   /\ \E call \in Asked : loop'.running = [id |-> id, call |-> call]
      /\ ms \in Seq(Messages) /\ z \in Nat /\ p \in Nat /\ id \in Ids /\ n \in Nat
  BY <1>0 DEF Takes
<1>2. IsFiniteSet(Made(ms)) /\ Cardinality(Made(ms)) = n + (p + 1)
  BY <1>1 DEF HistoryInv
<1>3. Cardinality(Made(ms)) = (n + 1) + p
  <2>1. n \in Nat /\ p \in Nat
    BY <1>1
  <2> QED
    BY <1>2, <2>1
<1>4. CASE loop.round = MaxRounds
  <2>1. loop'.messages = ms /\ loop'.running = Null
    BY <1>1, <1>4
  <2>2. ms # <<>> /\ Last(ms).role = "assistant"
    BY <1>1, <1>4 DEF HistoryInv
  <2>3. Cardinality(Made(loop'.messages)) = Len(loop'.calls) + Len(loop'.pending)
    BY <1>1, <1>3, <2>1
  <2>4. IsFiniteSet(Made(loop'.messages))
    BY <1>2, <2>1
  <2>5. loop'.pc = "calls" /\ loop'.round = MaxRounds /\ ~AtWork(loop')
    BY <1>1, <1>4 DEF AtWork
  <2> QED
    BY <2>1, <2>2, <2>3, <2>4, <2>5 DEF HistoryInv
<1>5. CASE loop.round # MaxRounds
  <2>1. PICK before : before = Made(ms) \ Beyond(k, i, z)
    OBVIOUS
  <2>2. PICK after : after = Made(ms) \ Beyond(k, i + 1, z)
    OBVIOUS
  <2>3. PICK new : new = WithId(ms, k, i, id) /\ new = loop'.messages
    BY <1>1, <1>5
  <2>4. Reached(loop) + 1 = i
    BY <1>1 DEF Reached
  <2>5. Taken(loop) = before
    BY <1>1, <2>1, <2>4 DEF Taken, Upcoming
  <2>6. PICK naming \in Naming : naming = NamingOf(loop) /\ naming = NamingOf(loop')
    BY <1>1 DEF NamingOf, Naming
  <2>7. Paired(ms, naming, n, before, before)
    BY <1>1, <1>5, <2>5, <2>6 DEF HistoryInv, AtWork
  <2>8. /\ Made(new) = Made(ms) /\ Id(new, <<k, i>>) = id
        /\ <<k, i>> \in after
        /\ Paired(new, naming, n + 1, after, after \ {<<k, i>>})
        /\ Saying(new) = k /\ Len(new[k].ids) = z
    <3>0. ms \in Seq(Messages) /\ naming \in Naming /\ n \in Nat /\ z \in Nat /\ id \in Ids
      BY <1>1, <2>6
    <3>1. k \in DOMAIN ms /\ ms[k].role = "assistant" /\ ms[k].ids \in Seq(Ids)
      BY <1>1, SayingIsLast
    <3>2. DOMAIN ms[k].ids = 1 .. z
      BY <1>1, <3>1
    <3>3. i \in 1 .. z
      BY <1>1
    <3>4. Paired(ms, naming, n, Made(ms) \ Beyond(k, i, z), Made(ms) \ Beyond(k, i, z))
      BY <2>1, <2>7
    <3>5. /\ ms[k].ids[i] = <<>> => id = <<"call", n + 1>>
          /\ ms[k].ids[i] # <<>> => id = ms[k].ids[i]
      BY <1>1
    <3>6. /\ Made(WithId(ms, k, i, id)) = Made(ms) /\ Id(WithId(ms, k, i, id), <<k, i>>) = id
          /\ <<k, i>> \in Made(ms) \ Beyond(k, i + 1, z)
          /\ Paired(WithId(ms, k, i, id), naming, n + 1, Made(ms) \ Beyond(k, i + 1, z),
                   (Made(ms) \ Beyond(k, i + 1, z)) \ {<<k, i>>})
          /\ Saying(WithId(ms, k, i, id)) = Saying(ms) /\ Len(WithId(ms, k, i, id)[k].ids) = z
      <4>1. IsNext(ms, naming, n, k, z, i, id)
        BY <3>0, <3>1, <3>2, <3>3, <3>4, <3>5 DEF IsNext
      <4> QED
        BY <4>1, TakingNext
    <3> QED
      BY <1>1, <2>2, <2>3, <3>6
  <2>9. Reached(loop') = i
    BY <1>1, <2>3, <2>8 DEF Reached
  <2>10. Taken(loop') = after
    BY <2>2, <2>3, <2>8, <2>9 DEF Taken, Upcoming
  <2>11. Saying(loop'.messages) = k
    BY <2>3, <2>8
  <2>12. loop'.running # Null /\ loop'.running.id = id
    <3>1. PICK call \in Asked : loop'.running = [id |-> id, call |-> call]
      BY <1>1, <1>5
    <3>2. [id |-> id, call |-> call] \in [id : Ids, call : Requests]
      BY <1>1, AgentAssumption
    <3> QED
      BY <3>1, <3>2, AgentAssumption DEF Ids
  <2>13. IsFiniteSet(Made(loop'.messages)) /\ Cardinality(Made(loop'.messages)) = Len(loop'.calls) + Len(loop'.pending)
    BY <1>1, <1>2, <1>3, <2>3, <2>8
  <2>14. /\ <<Saying(loop'.messages), Reached(loop')>> \in Taken(loop')
         /\ loop'.running.id = Id(loop'.messages, <<Saying(loop'.messages), Reached(loop')>>)
    BY <2>3, <2>8, <2>9, <2>10, <2>11, <2>12
  <2>15. Paired(loop'.messages, NamingOf(loop'), Len(loop'.calls), Taken(loop'),
                Taken(loop') \ {<<Saying(loop'.messages), Reached(loop')>>})
    BY <1>1, <2>3, <2>6, <2>8, <2>9, <2>10, <2>11
  <2>16. loop'.pc = "calls" /\ loop'.round # MaxRounds
    BY <1>1, <1>5
  <2> QED
    BY <2>12, <2>13, <2>14, <2>15, <2>16 DEF HistoryInv, AtWork
<1> QED
  BY <1>4, <1>5

LEMMA RoundHistory ==
  ASSUME TypeInv, HistoryInv(loop), NextRound
  PROVE  HistoryInv(loop')
<1>1. LoopTypes(loop) /\ Said(loop) /\ loop.pc = "calls" /\ loop.pending = <<>> /\ loop.running = Null
  BY DEF TypeInv, NextRound
<1>2. /\ loop'.messages = loop.messages /\ loop'.pending = <<>> /\ loop'.calls = loop.calls /\ loop'.ids = loop.ids
      /\ loop'.running = Null
      /\ loop'.pc = IF loop.round = MaxRounds THEN "none" ELSE "model"
  BY <1>1 DEF NextRound, LastRound, LoopTypes
<1>3. Upcoming(loop) = {}
  <2>1. Len(loop.messages[Saying(loop.messages)].ids) \in Nat
    BY <1>1, SayingIsLast DEF Said, LoopTypes
  <2>2. Len(loop.pending) = 0
    BY <1>1
  <2>3. Reached(loop) = Len(loop.messages[Saying(loop.messages)].ids)
    BY <2>1, <2>2 DEF Reached
  <2> QED
    BY <2>1, <2>3 DEF Upcoming, Beyond
<1>4. Taken(loop) = Made(loop.messages) /\ NamingOf(loop') = NamingOf(loop)
  BY <1>2, <1>3 DEF Taken, NamingOf
<1> QED
  BY <1>1, <1>2, <1>4 DEF HistoryInv, AtWork

LEMMA ReplyHistory ==
  ASSUME TypeInv, HistoryInv(loop), NEW a \in Callers, NEW result \in AnyResult, Reply(a, result),
         a = "loop" => loop.running # Null
  PROVE  HistoryInv(loop')
<1>1. CASE a = "server"
  BY <1>1 DEF Reply
<1>2. CASE a = "loop"
  <2> DEFINE ms == loop.messages
             m == [role |-> "tool", id |-> loop.running.id, result |-> result]
             c == <<Saying(ms), Reached(loop)>>
  <2>1. LoopTypes(loop) /\ ms \in Seq(Messages) /\ loop.pc = "calls" /\ loop.running \in [id : Ids, call : Asked]
        /\ Len(loop.calls) \in Nat /\ Said(loop)
    BY <1>2 DEF TypeInv, LoopTypes
  <2>2. /\ loop'.pc = "calls" /\ loop'.messages = Longer(ms, m) /\ loop'.pending = loop.pending
        /\ loop'.calls = loop.calls /\ loop'.ids = loop.ids /\ loop'.running = Null /\ loop'.round = loop.round
    BY <1>2, <2>1 DEF Reply, LoopTypes, Longer
  <2>3. m \in Messages /\ m.role = "tool" /\ m.id = loop.running.id
    BY <2>1 DEF Messages
  <2>4. /\ AtWork(loop) /\ c \in Taken(loop) /\ m.id = Id(ms, c)
        /\ Paired(ms, NamingOf(loop), Len(loop.calls), Taken(loop), Taken(loop) \ {c})
    BY <1>2, <2>1, <2>3 DEF HistoryInv, AtWork
  <2> HIDE DEF ms, m, c
  <2>5. NamingOf(loop) \in Naming /\ NamingOf(loop') = NamingOf(loop)
    BY <2>2 DEF NamingOf, Naming
  <2>6. Made(Longer(ms, m)) = Made(ms) /\ Paired(Longer(ms, m), NamingOf(loop), Len(loop.calls), Taken(loop), Taken(loop))
    BY <2>1, <2>3, <2>4, <2>5, ReplyPairs
  <2>7. /\ Saying(Longer(ms, m)) = Saying(ms)
        /\ Longer(ms, m)[Saying(ms)] = ms[Saying(ms)]
    <3>1. Saying(ms) \in DOMAIN ms
      BY <2>1, SayingIsLast DEF Said, ms
    <3> QED
      BY <2>1, <2>3, <3>1, ResultKeepsSaying DEF Longer
  <2>8. Taken(loop') = Taken(loop)
    BY <2>2, <2>6, <2>7 DEF Taken, Upcoming, Reached, ms
  <2>9. IsFiniteSet(Made(ms)) /\ Cardinality(Made(ms)) = Len(loop.calls) + Len(loop.pending)
    BY DEF HistoryInv, ms
  <2> QED
    BY <2>2, <2>4, <2>5, <2>6, <2>8, <2>9 DEF HistoryInv, AtWork
<1> QED
  BY <1>1, <1>2 DEF Callers

LEMMA HistoryStep == TypeInv /\ HistoryInv(loop) /\ [Next]_vars => HistoryInv(loop')
<1> SUFFICES ASSUME TypeInv, HistoryInv(loop), [Next]_vars PROVE HistoryInv(loop')
  OBVIOUS
<1>0. TypeInv'
  BY TypeStep
<1>1. CASE UNCHANGED loop
  BY <1>1
<1>2. ASSUME NEW q \in Questions, NEW ids \in BOOLEAN, Ask(q, ids) PROVE HistoryInv(loop')
  BY <1>2, AskHistory
<1>3. CASE Model
  <2>1. ASSUME NEW n \in 1 .. MaxCalls - Len(loop.calls), NEW calls \in [1 .. n -> Asked], ModelCalls(calls)
        PROVE  HistoryInv(loop')
    <3>1. calls \in Seq(Asked)
      OBVIOUS
    <3> QED
      BY <1>0, <1>3, <2>1, <3>1, CallsHistory DEF Model
  <2>2. ASSUME NEW text, ModelAnswers(text) PROVE HistoryInv(loop')
    BY <1>3, <2>2, AnswerHistory DEF Model
  <2>3. CASE ModelFails
    <3>1. LoopTypes(loop) /\ loop.pc = "model"
      BY <1>3 DEF Model, TypeInv
    <3>2. /\ loop'.pc = "lost" /\ loop'.messages = loop.messages /\ loop'.calls = loop.calls
          /\ loop'.pending = loop.pending
      BY <2>3, <3>1 DEF ModelFails, LoopTypes
    <3> QED
      BY <3>2 DEF HistoryInv, AtWork
  <2> QED
    BY <1>3, <2>1, <2>2, <2>3 DEF Model
<1>4. CASE TakeCall
  BY <1>4, TakingHistory
<1>5. CASE NextRound
  BY <1>5, RoundHistory
<1>6. ASSUME NEW a \in Callers, CallTool(a) PROVE HistoryInv(loop')
  BY <1>1, <1>6, ToolReplies, ReplyHistory
<1>7. CASE (\E call \in Requested : Serve(call)) \/ Deliver \/ BuildStarts \/ BuildEnds \/ UNCHANGED vars
  BY <1>1, <1>7 DEF Serve, Deliver, BuildStarts, BuildEnds, vars
<1> QED
  BY <1>2, <1>3, <1>4, <1>5, <1>6, <1>7 DEF Next, LoopStep, Callers

\* A history of which every call is answered pairs its calls with its results.
LEMMA PairedReplies ==
  ASSUME NEW ms, NEW ids, NEW n, Paired(ms, ids, n, Made(ms), Made(ms))
  PROVE  /\ \A c, d \in Made(ms) : Id(ms, c) = Id(ms, d) => c = d
         /\ \A k, m \in Replied(ms) : ms[k].id = ms[m].id => k = m
         /\ {Id(ms, c) : c \in Made(ms)} = {ms[k].id : k \in Replied(ms)}
<1>1. /\ \A c \in Made(ms) : \E k \in Replied(ms) : ms[k].id = Id(ms, c)
      /\ \A k \in Replied(ms) : \E c \in Made(ms) : ms[k].id = Id(ms, c)
  BY DEF Paired
<1>2. {Id(ms, c) : c \in Made(ms)} = {ms[k].id : k \in Replied(ms)}
  BY <1>1
<1> QED
  BY <1>2 DEF Paired

LEMMA HistoryIsWhole == TypeInv /\ HistoryInv(loop) => ConversationIsWhole
<1> SUFFICES ASSUME TypeInv, HistoryInv(loop) PROVE ConversationIsWhole
  OBVIOUS
<1>1. RepliesPairWithCalls
  <2> SUFFICES ASSUME loop.pc = "model" PROVE RepliesPairWithCalls
    BY DEF RepliesPairWithCalls
  <2>1. Paired(loop.messages, NamingOf(loop), Len(loop.calls), Made(loop.messages), Made(loop.messages))
    BY DEF HistoryInv
  <2> QED
    BY <2>1, PairedReplies DEF RepliesPairWithCalls, Id
<1>2. EveryResultIsRead
  <2> SUFFICES ASSUME loop.pc \in {"answered", "none"} PROVE EveryResultIsRead
    BY DEF EveryResultIsRead
  <2>1. loop.pending = <<>> /\ Len(loop.calls) \in Nat
    BY DEF TypeInv, LoopTypes
  <2>2. Len(loop.pending) = 0
    BY <2>1
  <2>3. Len(loop.calls) = Cardinality(Made(loop.messages))
    BY <2>1, <2>2 DEF HistoryInv
  <2> QED
    BY <2>3 DEF EveryResultIsRead, HistoryInv
<1> QED
  BY <1>1, <1>2, TypeInvImpliesTypeOK DEF ConversationIsWhole

\* Whatever the model calls and however its server names the calls, with builds and another
\* client in between: each call has its one reply before the model is asked again, no tool
\* runs for nobody, and every call made is told (loop.ask).
THEOREM EveryCallIsAnswered == Spec => []ConversationIsWhole
<1>1. Init => HistoryInv(loop)
  BY HistoryInit
<1>2. TypeInv /\ HistoryInv(loop) /\ [Next]_vars => HistoryInv(loop)'
  BY HistoryStep
<1>3. TypeInv /\ HistoryInv(loop) => ConversationIsWhole
  BY HistoryIsWhole
<1> QED
  BY <1>1, <1>2, <1>3, TypesHold, PTL DEF Spec

-----------------------------------------------------------------------------
(* What an answer carries. *)

\* The notes and the figures kept are those of the results in the history.
Told(ms, notes, outputs) ==
  /\ IsInjective(notes)
  /\ ToSet(notes) = {ms[k].result.note : k \in Replied(ms)} \ {Null}
  /\ ToSet(outputs) = {ms[k].result.figures : k \in Replied(ms)}

\* A text a model may answer with, given the notes it saw.
IsText(text, notes) == (\E n \in Nat : DOMAIN text.figures = 1 .. n) /\ text.quotes \subseteq ToSet(notes)

BackedInv(l) ==
  /\ Told(l.messages, l.notes, l.outputs)
  /\ l.pc = "answered" => \E text : /\ IsText(text, l.notes)
                                    /\ l.answer = [text |-> text, notes |-> NotesToAppend(l.notes, text),
                                                   unverified |-> Unverified(text.figures, Known(l.question, l.outputs))]

\* A message that is no result changes none of it.
LEMMA ToldKept ==
  ASSUME NEW ms, NEW notes, NEW outputs, Told(ms, notes, outputs), NEW new,
         Replied(new) = Replied(ms), \A k \in Replied(ms) : new[k] = ms[k]
  PROVE  Told(new, notes, outputs)
<1>1. /\ {new[k].result.note : k \in Replied(new)} = {ms[k].result.note : k \in Replied(ms)}
      /\ {new[k].result.figures : k \in Replied(new)} = {ms[k].result.figures : k \in Replied(ms)}
  OBVIOUS
<1> QED
  BY <1>1 DEF Told

LEMMA SaidKeepsTold ==
  ASSUME NEW ms \in Seq(Messages), NEW notes, NEW outputs, Told(ms, notes, outputs),
         NEW m \in Messages, m.role = "assistant"
  PROVE  Told(Longer(ms, m), notes, outputs)
<1>1. Replied(Longer(ms, m)) = Replied(ms) /\ \A k \in DOMAIN ms : Longer(ms, m)[k] = ms[k]
  BY MadeOnAppend
<1>2. \A k \in Replied(ms) : Longer(ms, m)[k] = ms[k]
  BY <1>1 DEF Replied
<1> QED
  BY <1>1, <1>2, ToldKept

\* One element more.
LEMMA OneMore ==
  ASSUME NEW S, NEW s \in Seq(S), NEW e \in S
  PROVE  /\ ToSet(Append(s, e)) = ToSet(s) \cup {e}
         /\ IsInjective(s) /\ e \notin ToSet(s) => IsInjective(Append(s, e))
<1> DEFINE n == Len(s) + 1
           t == Append(s, e)
<1>1. DOMAIN t = DOMAIN s \cup {n} /\ t[n] = e /\ n \notin DOMAIN s /\ \A i \in DOMAIN s : t[i] = s[i]
  OBVIOUS
<1> HIDE DEF n, t
<1>2. ToSet(t) = ToSet(s) \cup {e}
  BY <1>1 DEF ToSet
<1>3. ASSUME IsInjective(s), e \notin ToSet(s) PROVE IsInjective(t)
  <2>1. \A i \in DOMAIN s : s[i] # e
    BY <1>3 DEF ToSet
  <2> QED
    BY <1>1, <1>3, <2>1 DEF IsInjective
<1> QED
  BY <1>2, <1>3 DEF t

LEMMA ReplyIsTold ==
  ASSUME NEW ms \in Seq(Messages), NEW notes \in Seq({r.note : r \in AnyResult}),
         NEW outputs \in Seq({r.figures : r \in AnyResult}), Told(ms, notes, outputs),
         NEW m \in Messages, m.role = "tool", NEW result \in AnyResult, m.result = result
  PROVE  Told(Longer(ms, m), AddNote(notes, result.note), Append(outputs, result.figures))
<1> DEFINE z == Len(ms) + 1
           new == Longer(ms, m)
           note == result.note
<1>1. Replied(new) = Replied(ms) \cup {z} /\ new[z] = m /\ \A k \in DOMAIN ms : new[k] = ms[k]
  BY MadeOnAppend
<1>2. \A k \in Replied(ms) : new[k] = ms[k]
  BY <1>1 DEF Replied
<1> HIDE DEF z, new
<1>3. {new[k].result.note : k \in Replied(new)} = {ms[k].result.note : k \in Replied(ms)} \cup {note}
  BY <1>1, <1>2
<1>4. {new[k].result.figures : k \in Replied(new)} = {ms[k].result.figures : k \in Replied(ms)} \cup {result.figures}
  BY <1>1, <1>2
<1>5. ToSet(Append(outputs, result.figures)) = ToSet(outputs) \cup {result.figures}
  BY OneMore
<1>6. ToSet(AddNote(notes, note)) = ToSet(notes) \cup ({note} \ {Null}) /\ IsInjective(AddNote(notes, note))
  <2>1. CASE note = Null \/ note \in ToSet(notes)
    BY <2>1 DEF AddNote, Told
  <2>2. CASE note # Null /\ note \notin ToSet(notes)
    <3>1. ToSet(Append(notes, note)) = ToSet(notes) \cup {note} /\ IsInjective(Append(notes, note))
      BY <2>2, OneMore DEF Told
    <3> QED
      BY <2>2, <3>1 DEF AddNote
  <2> QED
    BY <2>1, <2>2
<1> QED
  BY <1>3, <1>4, <1>5, <1>6 DEF Told, new

LEMMA NothingTold == Told(<<>>, <<>>, <<>>)
<1>1. ToSet(<<>>) = {} /\ IsInjective(<<>>)
  BY DEF ToSet, IsInjective
<1> QED
  BY <1>1, NothingMade DEF Told

LEMMA BackedInit == Init => BackedInv(loop)
<1> SUFFICES ASSUME Init PROVE BackedInv(loop)
  OBVIOUS
<1>1. loop.pc = "idle" /\ loop.messages = <<>> /\ loop.notes = <<>> /\ loop.outputs = <<>>
  BY DEF Init, NotAsked
<1> QED
  BY <1>1, NothingTold DEF BackedInv

\* Taking a call leaves the results as they were.
LEMMA TakingKeepsResults ==
  ASSUME TypeInv, TakeCall
  PROVE  /\ loop'.pc = "calls" /\ loop'.notes = loop.notes /\ loop'.outputs = loop.outputs
         /\ Replied(loop'.messages) = Replied(loop.messages)
         /\ \A k \in Replied(loop.messages) : loop'.messages[k] = loop.messages[k]
<1>1. PICK ms, k, z, p, i, id, n : Takes(ms, k, z, p, i, id, n)
  BY TakingIs
<1>2. /\ ms \in Seq(Messages) /\ z \in Nat /\ p \in Nat /\ id \in Ids
      /\ ms = loop.messages /\ k = Saying(ms) /\ Spoken(ms) # {} /\ z = Len(ms[k].ids) /\ p + 1 <= z /\ i = z - p
      /\ loop'.pc = "calls" /\ (loop'.messages = ms \/ loop'.messages = WithId(ms, k, i, id))
  BY <1>1 DEF Takes
<1>3. loop'.notes = loop.notes /\ loop'.outputs = loop.outputs
  BY DEF TakeCall, TypeInv, LoopTypes
<1>4. k \in DOMAIN ms /\ ms[k].role = "assistant" /\ ms[k].ids \in Seq(Ids)
  BY <1>2, SayingIsLast
<1>5. i \in DOMAIN ms[k].ids
  <2>1. DOMAIN ms[k].ids = 1 .. z
    BY <1>2, <1>4
  <2>2. i \in 1 .. z
    BY <1>2
  <2> QED
    BY <2>1, <2>2
<1>6. PICK new : new = WithId(ms, k, i, id)
  OBVIOUS
<1>7. /\ DOMAIN new = DOMAIN ms /\ \A j \in DOMAIN ms \ {k} : new[j] = ms[j]
      /\ new[k].role = "assistant"
  <2>1. ms \in Seq(Messages) /\ id \in Ids
    BY <1>2
  <2>2. /\ WithId(ms, k, i, id) \in Seq(Messages) /\ DOMAIN WithId(ms, k, i, id) = DOMAIN ms
        /\ \A j \in DOMAIN ms \ {k} : WithId(ms, k, i, id)[j] = ms[j]
        /\ WithId(ms, k, i, id)[k].role = "assistant" /\ WithId(ms, k, i, id)[k].ids = [ms[k].ids EXCEPT ![i] = id]
        /\ Spoken(WithId(ms, k, i, id)) = Spoken(ms) /\ Saying(WithId(ms, k, i, id)) = Saying(ms)
    BY <1>4, <1>5, <2>1, IdTypes
  <2> QED
    BY <1>6, <2>2
<1>8. Replied(new) = Replied(ms) /\ \A j \in Replied(ms) : new[j] = ms[j]
  BY <1>4, <1>7 DEF Replied
<1> QED
  BY <1>2, <1>3, <1>6, <1>8

LEMMA BackedStep == TypeInv /\ BackedInv(loop) /\ [Next]_vars => BackedInv(loop')
<1> SUFFICES ASSUME TypeInv, BackedInv(loop), [Next]_vars PROVE BackedInv(loop')
  OBVIOUS
<1>0. /\ LoopTypes(loop) /\ loop.messages \in Seq(Messages) /\ loop.notes \in Seq({r.note : r \in AnyResult})
      /\ loop.outputs \in Seq({r.figures : r \in AnyResult}) /\ Told(loop.messages, loop.notes, loop.outputs)
  BY DEF TypeInv, LoopTypes, BackedInv
<1>1. CASE UNCHANGED loop
  BY <1>1
<1>2. ASSUME NEW q \in Questions, NEW ids \in BOOLEAN, Ask(q, ids) PROVE BackedInv(loop')
  <2>1. loop'.pc = "model" /\ loop'.messages = <<>> /\ loop'.notes = <<>> /\ loop'.outputs = <<>>
    BY <1>2 DEF Ask, NotAsked
  <2> QED
    BY <2>1, NothingTold DEF BackedInv
<1>3. CASE Model
  <2>1. ASSUME NEW n \in 1 .. MaxCalls - Len(loop.calls), NEW calls \in [1 .. n -> Asked], ModelCalls(calls)
        PROVE  BackedInv(loop')
    <3> DEFINE m == [role |-> "assistant",
                     ids |-> [i \in DOMAIN calls |-> IF loop.ids THEN <<"given", Len(loop.messages), i>> ELSE <<>>]]
    <3>1. /\ loop'.pc = "calls" /\ loop'.messages = Longer(loop.messages, m)
          /\ loop'.notes = loop.notes /\ loop'.outputs = loop.outputs
      BY <1>0, <2>1 DEF ModelCalls, Longer, LoopTypes
    <3>2. m \in Messages /\ m.role = "assistant"
      <4>1. Len(loop.messages) \in Nat /\ n \in Nat /\ DOMAIN calls = 1 .. n
        BY <1>0
      <4>2. \A i \in 1 .. n : <<"given", Len(loop.messages), i>> \in Ids /\ <<>> \in Ids
        BY <4>1 DEF Ids
      <4>3. m.ids \in Seq(Ids)
        BY <4>1, <4>2
      <4> QED
        BY <4>3 DEF Messages
    <3> HIDE DEF m
    <3>3. Told(Longer(loop.messages, m), loop.notes, loop.outputs)
      BY <1>0, <3>2, SaidKeepsTold
    <3> QED
      BY <3>1, <3>3 DEF BackedInv
  <2>2. ASSUME NEW text \in Texts, ModelAnswers(text) PROVE BackedInv(loop')
    <3> DEFINE m == [role |-> "assistant", ids |-> <<>>]
               answer == [text |-> text, notes |-> NotesToAppend(loop.notes, text),
                          unverified |-> Unverified(text.figures, Known(loop.question, loop.outputs))]
    <3>1. /\ loop'.messages = Longer(loop.messages, m) /\ loop'.notes = loop.notes /\ loop'.outputs = loop.outputs
          /\ loop'.question = loop.question /\ loop'.answer = answer
      BY <1>0, <2>2 DEF ModelAnswers, Longer, LoopTypes
    <3>2. m \in Messages /\ m.role = "assistant"
      BY DEF Messages
    <3>3. IsText(text, loop.notes)
      <4>1. text.quotes \subseteq ToSet(loop.notes)
        BY DEF Texts
      <4>2. text.figures = <<>> \/ \E f : text.figures = <<Invented, f, Invented>>
        BY DEF Texts
      <4>3. \A f : DOMAIN <<Invented, f, Invented>> = 1 .. 3
        OBVIOUS
      <4>4. DOMAIN <<>> = 1 .. 0
        OBVIOUS
      <4>5. DOMAIN text.figures = 1 .. 3 \/ DOMAIN text.figures = 1 .. 0
        BY <4>2, <4>3, <4>4
      <4>6. 3 \in Nat /\ 0 \in Nat
        OBVIOUS
      <4> QED
        BY <4>1, <4>5, <4>6 DEF IsText
    <3> HIDE DEF m
    <3>4. Told(Longer(loop.messages, m), loop.notes, loop.outputs)
      BY <1>0, <3>2, SaidKeepsTold
    <3> QED
      BY <3>1, <3>3, <3>4 DEF BackedInv
  <2>3. CASE ModelFails
    <3>1. /\ loop'.pc = "lost" /\ loop'.messages = loop.messages /\ loop'.notes = loop.notes
          /\ loop'.outputs = loop.outputs
      BY <1>0, <2>3 DEF ModelFails, LoopTypes
    <3> QED
      BY <1>0, <3>1 DEF BackedInv
  <2> QED
    BY <1>3, <2>1, <2>2, <2>3 DEF Model
<1>4. CASE TakeCall
  <2>1. /\ loop'.pc = "calls" /\ loop'.notes = loop.notes /\ loop'.outputs = loop.outputs
        /\ Replied(loop'.messages) = Replied(loop.messages)
        /\ \A k \in Replied(loop.messages) : loop'.messages[k] = loop.messages[k]
    BY <1>4, TakingKeepsResults
  <2>2. Told(loop'.messages, loop.notes, loop.outputs)
    BY <1>0, <2>1, ToldKept
  <2> QED
    BY <2>1, <2>2 DEF BackedInv
<1>5. CASE NextRound
  <2>1. /\ loop'.pc # "answered" /\ loop'.messages = loop.messages /\ loop'.notes = loop.notes
        /\ loop'.outputs = loop.outputs
    BY <1>0, <1>5 DEF NextRound, LoopTypes
  <2> QED
    BY <1>0, <2>1 DEF BackedInv
<1>6. ASSUME NEW a \in Callers, NEW result \in AnyResult, Reply(a, result), a = "loop" => loop.running # Null
      PROVE  BackedInv(loop')
  <2>1. CASE a = "server"
    BY <1>1, <1>6, <2>1 DEF Reply
  <2>2. CASE a = "loop"
    <3> DEFINE m == [role |-> "tool", id |-> loop.running.id, result |-> result]
    <3>1. loop.pc = "calls" /\ loop.running \in [id : Ids, call : Asked]
      BY <1>0, <1>6, <2>2 DEF LoopTypes
    <3>2. /\ loop'.pc = "calls" /\ loop'.messages = Longer(loop.messages, m)
          /\ loop'.notes = AddNote(loop.notes, result.note) /\ loop'.outputs = Append(loop.outputs, result.figures)
      BY <1>0, <1>6, <2>2, <3>1 DEF Reply, LoopTypes, Longer
    <3>3. m \in Messages /\ m.role = "tool" /\ m.result = result
      BY <3>1 DEF Messages
    <3> HIDE DEF m
    <3>4. Told(Longer(loop.messages, m), AddNote(loop.notes, result.note), Append(loop.outputs, result.figures))
      BY <1>0, <3>3, ReplyIsTold
    <3> QED
      BY <3>2, <3>4 DEF BackedInv
  <2> QED
    BY <2>1, <2>2 DEF Callers
<1>7. ASSUME NEW a \in Callers, CallTool(a) PROVE BackedInv(loop')
  BY <1>1, <1>6, <1>7, ToolReplies
<1>8. CASE (\E call \in Requested : Serve(call)) \/ Deliver \/ BuildStarts \/ BuildEnds \/ UNCHANGED vars
  BY <1>1, <1>8 DEF Serve, Deliver, BuildStarts, BuildEnds, vars
<1> QED
  BY <1>2, <1>3, <1>4, <1>5, <1>7, <1>8 DEF Next, LoopStep, Callers

\* What the results say, read off the messages of the history.
LEMMA ResultsTold ==
  ASSUME NEW ms
  PROVE  LET told == {m \in ToSet(ms) : m.role = "tool"}
         IN  /\ {r.note : r \in {m.result : m \in told}} = {ms[k].result.note : k \in Replied(ms)}
             /\ UNION {m.result.figures : m \in told} = UNION {ms[k].result.figures : k \in Replied(ms)}
<1> DEFINE told == {m \in ToSet(ms) : m.role = "tool"}
<1>1. /\ \A m \in told : \E k \in Replied(ms) : m = ms[k]
      /\ \A k \in Replied(ms) : ms[k] \in told
  BY DEF ToSet, Replied
<1> HIDE DEF told
<1>2. {r.note : r \in {m.result : m \in told}} = {ms[k].result.note : k \in Replied(ms)}
  <2>1. \A r \in {m.result : m \in told} : \E k \in Replied(ms) : r.note = ms[k].result.note
    BY <1>1
  <2>2. \A k \in Replied(ms) : \E r \in {m.result : m \in told} : r.note = ms[k].result.note
    BY <1>1
  <2> QED
    BY <2>1, <2>2
<1>3. {m.result.figures : m \in told} = {ms[k].result.figures : k \in Replied(ms)}
  BY <1>1
<1> QED
  BY <1>2, <1>3 DEF told

LEMMA BackedIsSound == TypeInv /\ BackedInv(loop) => AnswerIsBacked
<1> SUFFICES ASSUME TypeInv, BackedInv(loop), loop.pc = "answered" PROVE AnswerIsBacked
  BY DEF AnswerIsBacked, AnswerCarriesEachNoteOnce, FlaggedExactly
<1> DEFINE ms == loop.messages
           notes == loop.notes
           outputs == loop.outputs
           told == {m \in ToSet(ms) : m.role = "tool"}
<1>1. PICK text : /\ IsText(text, notes)
                  /\ loop.answer = [text |-> text, notes |-> NotesToAppend(notes, text),
                                    unverified |-> Unverified(text.figures, Known(loop.question, outputs))]
  BY DEF BackedInv
<1>2. /\ loop.answer.text = text /\ loop.answer.notes = NotesToAppend(notes, text)
      /\ loop.answer.unverified = Unverified(text.figures, Known(loop.question, outputs))
  BY <1>1
<1>3. Told(ms, notes, outputs)
  BY DEF BackedInv
<1>4. PICK n \in Nat : DOMAIN notes = 1 .. n
  BY DEF TypeInv, LoopTypes
<1>5. PICK f \in Nat : DOMAIN text.figures = 1 .. f
  BY <1>1 DEF IsText
<1>6. text.quotes \subseteq ToSet(notes)
  BY <1>1 DEF IsText
<1>7. /\ {r.note : r \in {m.result : m \in told}} = {ms[k].result.note : k \in Replied(ms)}
      /\ UNION {m.result.figures : m \in told} = UNION {ms[k].result.figures : k \in Replied(ms)}
  BY ResultsTold
<1> HIDE DEF ms, notes, outputs, told
<1>8. AnswerCarriesEachNoteOnce
  <2> DEFINE S == {i \in DOMAIN notes : notes[i] \notin text.quotes}
  <2>1. /\ ToSet(AtPlaces(notes, S)) = {notes[i] : i \in S}
        /\ (\A i \in S, j \in S : notes[i] = notes[j] => i = j) => IsInjective(AtPlaces(notes, S))
    BY <1>4, AtPlacesHolds
  <2>2. \A i \in S, j \in S : notes[i] = notes[j] => i = j
    BY <1>3 DEF Told, IsInjective
  <2>3. {notes[i] : i \in S} = ToSet(notes) \ text.quotes
    BY DEF ToSet
  <2>4. NotesToAppend(notes, text) = AtPlaces(notes, S)
    BY DEF NotesToAppend
  <2> HIDE DEF S
  <2>5. IsInjective(NotesToAppend(notes, text)) /\ ToSet(NotesToAppend(notes, text)) = ToSet(notes) \ text.quotes
    BY <2>1, <2>2, <2>3, <2>4
  <2>6. ToSet(notes) = {r.note : r \in {m.result : m \in told}} \ {Null}
    BY <1>3, <1>7 DEF Told
  <2> QED
    BY <1>2, <1>6, <2>5, <2>6 DEF AnswerCarriesEachNoteOnce, told, ms
<1>9. FlaggedExactly
  <2> DEFINE s == text.figures
             known == Known(loop.question, outputs)
             S == {i \in DOMAIN s : s[i] \notin known /\ \A j \in 1 .. i - 1 : s[j] # s[i]}
  <2>1. /\ \A i \in S, j \in S : s[i] = s[j] => i = j
        /\ {s[i] : i \in S} = ToSet(s) \ known
    BY <1>5, FirstPlaces
  <2>2. /\ ToSet(AtPlaces(s, S)) = {s[i] : i \in S}
        /\ (\A i \in S, j \in S : s[i] = s[j] => i = j) => IsInjective(AtPlaces(s, S))
    BY <1>5, AtPlacesHolds
  <2>3. Unverified(s, known) = AtPlaces(s, S)
    BY DEF Unverified
  <2>4. known = loop.question \cup UNION {m.result.figures : m \in told}
    BY <1>3, <1>7 DEF Known, Told
  <2> HIDE DEF S, known
  <2>5. IsInjective(Unverified(s, known)) /\ ToSet(Unverified(s, known)) = ToSet(s) \ known
    BY <2>1, <2>2, <2>3
  <2>6. loop.answer.unverified = Unverified(s, known)
    BY <1>2 DEF known
  <2> QED
    BY <1>2, <2>4, <2>5, <2>6 DEF FlaggedExactly, told, ms
<1> QED
  BY <1>8, <1>9 DEF AnswerIsBacked

\* Whatever the tools return and the model writes: an answer carries every note of its
\* results once, and is flagged for exactly the figures that neither a result nor the
\* question holds (loop.ask's notes, unverified).
THEOREM EveryAnswerIsBacked == Spec => []AnswerIsBacked
<1>1. Init => BackedInv(loop)
  BY BackedInit
<1>2. TypeInv /\ BackedInv(loop) /\ [Next]_vars => BackedInv(loop)'
  BY BackedStep
<1>3. TypeInv /\ BackedInv(loop) => AnswerIsBacked
  BY BackedIsSound
<1> QED
  BY <1>1, <1>2, <1>3, TypesHold, PTL DEF Spec

=============================================================================
