-------------------------- MODULE AssetRefreshProofs --------------------------
(***************************************************************************)
(* Refreshing the warehouse and the site, for any landed data, any number  *)
(* of processes and any jobs and recipes started.                          *)
(***************************************************************************)
EXTENDS AssetRefresh, TLAPS, FiniteSetTheorems, SequenceTheorems, NaturalsInduction, WellFoundedInduction

-----------------------------------------------------------------------------
(* Types. *)

Kinds == {"idle", "queued", "command", "recipe"}

StepLists == {Jobs[j] : j \in DOMAIN Jobs} \cup {Recipes[r] : r \in DOMAIN Recipes} \cup {<<>>}

StepNames == UNION {ToSet(l) : l \in StepLists}

Processes == [kind : Kinds, steps : StepLists, left : SUBSET StepNames, at : StepNames \cup {""},
              lost : SUBSET StepNames, alone : BOOLEAN, denied : BOOLEAN, inv : Nat]

Outcomes == {"success", "skipped", "pass", "fail", "warn"}

Reported == {"mart", "dim"} \cup DOMAIN Tests

Commands == [command : {"build", "killed", "test"}, results : UNION {[S -> Outcomes] : S \in SUBSET Reported}]

Batches == [inv : Nat, rows : Commands]

Made(sources) == [inv : Nat, data : DOMAIN sources]

RankedOf == {[of |-> i, data |-> l, rows |-> Ranks[l]] : i \in Nat, l \in DOMAIN Loads}

ScoredOf == {[of |-> i, data |-> b, rows |-> Scores[b]] : i \in Nat, b \in DOMAIN Books}

\* The warehouse's tables, but for the status, which is only replaced.
Tables ==
  /\ wh = [mart |-> wh.mart, dim |-> wh.dim, co2 |-> wh.co2, rfm |-> wh.rfm,
           audit |-> wh.audit, status |-> wh.status, history |-> wh.history]
  /\ wh.mart \in Made(Loads) \cup {Null} /\ wh.dim \in Made(Books) \cup {Null}
  /\ wh.co2 \in RankedOf \cup {Null} /\ wh.rfm \in ScoredOf \cup {Null}
  /\ wh.audit \in [DOMAIN Tests -> BOOLEAN \cup {Null}]
  /\ wh.history \in Seq(Batches)

FirstLeft(r, s) ==
  \E n \in DOMAIN r.steps :
      s = r.steps[n] /\ s \in r.left /\ \A m \in 1 .. n - 1 : r.steps[m] \notin r.left

\* A process is idle, or at the first of the steps it has left, or between two.
ProcOK(r) ==
  /\ r \in Processes
  /\ r.kind = "idle" => r = Idle
  /\ r.at # "" => FirstLeft(r, r.at)
  /\ r.lost \cap r.left = {}

TypeInv ==
  /\ proc \in [Procs -> Processes] /\ \A p \in Procs : ProcOK(proc[p])
  /\ queue \in Seq({Jobs[j] : j \in DOMAIN Jobs})
  /\ raw \in [wdi : 0 .. Len(Loads), book : 0 .. Len(Books)]
  /\ ran \in Seq(Commands) /\ artifact \in 0 .. Len(ran)
  /\ code \subseteq DOMAIN Tests /\ manifest \subseteq DOMAIN Tests /\ submits \in Nat /\ shells \in Nat
  /\ Tables

LEMMA SourcesAreListed ==
  /\ Len(Loads) \in Nat /\ DOMAIN Loads = 1 .. Len(Loads)
  /\ Len(Books) \in Nat /\ DOMAIN Books = 1 .. Len(Books)
BY RefreshAssumption, LenProperties

LEMMA TestsAre ==
  /\ DOMAIN Tests = {"not_null", "equal_rowcount", "latest_vintage"}
  /\ \A t \in DOMAIN Tests : Tests[t].of \in {"mart", "dim"} /\ t \notin {"mart", "dim"}
BY DEF Tests

LEMMA IdleIsTyped == ProcOK(Idle)
<1>1. <<>> \in StepLists /\ Idle.steps = <<>> /\ Idle.at = "" /\ Idle.lost = {} /\ Idle.left = {}
  BY DEF StepLists, Idle
<1>2. Idle \in Processes
  BY <1>1 DEF Idle, Processes, Kinds
<1> QED
  BY <1>1, <1>2 DEF ProcOK

LEMMA NextIsFirst == \A p, s : IsNext(p, s) <=> FirstLeft(proc[p], s)
BY DEF IsNext, FirstLeft

\* One process changes.
LEMMA OneProcess ==
  ASSUME proc \in [Procs -> Processes], \A p \in Procs : ProcOK(proc[p]),
         NEW p \in Procs, NEW r, ProcOK(r), proc' = [proc EXCEPT ![p] = r]
  PROVE  proc' \in [Procs -> Processes] /\ \A q \in Procs : ProcOK(proc'[q])
<1>1. r \in Processes
  BY DEF ProcOK
<1>2. proc' \in [Procs -> Processes]
  BY <1>1
<1>3. \A q \in Procs : proc'[q] = IF q = p THEN r ELSE proc[q]
  OBVIOUS
<1> QED
  BY <1>2, <1>3

\* What ends with a step: it, and what is dropped with it.
Ends(r, s, q) ==
  /\ ProcOK(q) /\ q.at = "" /\ s \notin q.left /\ q.left \subseteq r.left /\ r.lost \subseteq q.lost
  /\ q.kind = r.kind /\ q.steps = r.steps /\ q.alone = r.alone /\ q.denied = r.denied /\ q.inv = r.inv

LEMMA AfterIs ==
  ASSUME NEW r, ProcOK(r), r.kind # "idle", NEW s \in r.left, NEW ok \in BOOLEAN
  PROVE  Ends(r, s, After(r, s, ok))
<1> DEFINE lost == IF ok THEN {} ELSE IF r.kind = "recipe" THEN r.left ELSE {s} \cup {t \in r.left : s \in Before[t]}
           q == After(r, s, ok)
<1>1. q = [r EXCEPT !.at = "", !.lost = @ \cup lost, !.left = @ \ ({s} \cup lost)]
  BY DEF After
<1>2. lost \subseteq r.left
  OBVIOUS
<1>3. r \in Processes /\ r.lost \cap r.left = {}
  BY DEF ProcOK
<1> HIDE DEF lost, q
<1>4. /\ q.at = "" /\ q.lost = r.lost \cup lost /\ q.left = r.left \ ({s} \cup lost) /\ q.kind = r.kind
      /\ q.steps = r.steps /\ q.alone = r.alone /\ q.denied = r.denied /\ q.inv = r.inv
  BY <1>1, <1>3 DEF Processes
<1>5. q \in Processes
  BY <1>1, <1>2, <1>3 DEF Processes
<1>6. ProcOK(q)
  BY <1>2, <1>3, <1>4, <1>5 DEF ProcOK
<1>7. Ends(r, s, q)
  BY <1>4, <1>6 DEF Ends
<1> QED
  BY <1>7 DEF q

LEMMA DoneIsTyped ==
  ASSUME TypeInv, NEW p \in Active, proc[p].at # "", NEW ok \in BOOLEAN, Done(p, ok)
  PROVE  proc' \in [Procs -> Processes] /\ \A q \in Procs : ProcOK(proc'[q])
<1>1. p \in Procs /\ ProcOK(proc[p]) /\ proc[p].kind # "idle"
  BY DEF TypeInv, Active
<1>2. proc[p].at \in proc[p].left
  BY <1>1 DEF ProcOK, FirstLeft
<1>3. ProcOK(After(proc[p], proc[p].at, ok))
  BY <1>1, <1>2, AfterIs DEF Ends
<1> QED
  BY <1>1, <1>3, OneProcess DEF Done, TypeInv

\* A process that starts has all of its steps left.
Fresh(kind, steps, first) ==
  [kind |-> kind, steps |-> steps, left |-> ToSet(steps), at |-> "", lost |-> {},
   alone |-> first, denied |-> FALSE, inv |-> 0]

LEMMA FreshIsTyped ==
  ASSUME NEW kind \in Kinds, kind # "idle", NEW steps \in StepLists, NEW first \in BOOLEAN, NEW r,
         r = Fresh(kind, steps, first)
  PROVE  /\ ProcOK(r) /\ r.kind = kind /\ r.steps = steps /\ r.left = ToSet(steps) /\ r.at = ""
         /\ r.lost = {} /\ r.alone = first /\ ~r.denied /\ r.inv = 0
<1>2. ToSet(steps) \subseteq StepNames
  BY DEF StepNames
<1>3. /\ r.kind = kind /\ r.steps = steps /\ r.left = ToSet(steps) /\ r.at = ""
      /\ r.lost = {} /\ r.alone = first /\ r.denied = FALSE /\ r.inv = 0
  BY DEF Fresh
<1>4. r \in Processes
  BY <1>2 DEF Processes, Fresh
<1>5. ProcOK(r)
  BY <1>3, <1>4 DEF ProcOK
<1> QED
  BY <1>3, <1>5

LEMMA StartedIsTyped ==
  ASSUME TypeInv, NEW p \in Procs, NEW kind \in Kinds, kind # "idle", NEW steps \in StepLists,
         proc' = Started(p, kind, steps)
  PROVE  proc' \in [Procs -> Processes] /\ \A q \in Procs : ProcOK(proc'[q])
<1>1. DOMAIN proc' = Procs
  BY DEF Started
<1>2. ASSUME NEW q \in Procs PROVE ProcOK(proc'[q])
  <2>1. CASE q = p
    <3>1. PICK first \in BOOLEAN : first = (Active = {})
      OBVIOUS
    <3>2. proc'[q] = [Idle EXCEPT !.kind = kind, !.steps = steps, !.left = ToSet(steps), !.alone = first]
      BY <2>1, <3>1 DEF Started
    <3>3. proc'[q] = Fresh(kind, steps, first)
      BY <3>2 DEF Idle, Fresh
    <3>4. ProcOK(Fresh(kind, steps, first))
      BY FreshIsTyped
    <3> QED
      BY <3>3, <3>4
  <2>2. CASE q # p /\ proc[q].kind = "idle"
    BY <2>2 DEF Started, TypeInv
  <2>3. CASE q # p /\ proc[q].kind # "idle"
    <3>1. proc'[q] = [proc[q] EXCEPT !.alone = FALSE]
      BY <2>3 DEF Started
    <3>2. ProcOK(proc[q])
      BY DEF TypeInv
    <3> QED
      BY <2>3, <3>1, <3>2 DEF ProcOK, Processes, FirstLeft
  <2> QED
    BY <2>1, <2>2, <2>3
<1>3. proc' = [q \in Procs |-> proc'[q]]
  BY DEF Started
<1> QED
  BY <1>2, <1>3 DEF ProcOK

LEMMA TypeInit == Init => TypeInv
<1> SUFFICES ASSUME Init PROVE TypeInv
  OBVIOUS
<1>1. proc \in [Procs -> Processes] /\ \A p \in Procs : ProcOK(proc[p])
  <2>1. Idle \in Processes /\ ProcOK(Idle)
    BY IdleIsTyped DEF ProcOK
  <2> QED
    BY <2>1 DEF Init
<1>2. raw \in [wdi : 0 .. Len(Loads), book : 0 .. Len(Books)]
  <2>1. 1 \in 0 .. Len(Books) /\ 0 \in 0 .. Len(Loads) /\ 0 \in 0 .. Len(Books)
    BY RefreshAssumption, SourcesAreListed
  <2> QED
    BY <2>1 DEF Init
<1>3. Tables
  <2>1. wh = Nothing
    BY DEF Init
  <2>2. /\ wh.mart = Null /\ wh.dim = Null /\ wh.co2 = Null /\ wh.rfm = Null /\ wh.history = <<>>
        /\ wh.audit = [t \in DOMAIN Tests |-> Null] /\ wh.status = Null
    BY <2>1 DEF Nothing
  <2>3. wh = [mart |-> wh.mart, dim |-> wh.dim, co2 |-> wh.co2, rfm |-> wh.rfm,
              audit |-> wh.audit, status |-> wh.status, history |-> wh.history]
    BY <2>1, <2>2 DEF Nothing
  <2> QED
    BY <2>2, <2>3 DEF Tables
<1> QED
  BY <1>1, <1>2, <1>3 DEF Init, TypeInv

-----------------------------------------------------------------------------
(* Each action keeps the types. *)

LEMMA SubmitKeepsTypes ==
  ASSUME TypeInv, Submit
  PROVE  TypeInv'
<1>1. Submitted \subseteq DOMAIN Jobs
  BY RefreshAssumption DEF Jobs
<1>2. queue' \in Seq({Jobs[j] : j \in DOMAIN Jobs})
  BY <1>1 DEF Submit, TypeInv
<1> QED
  BY <1>2 DEF Submit, TypeInv, Tables

LEMMA DequeueKeepsTypes ==
  ASSUME TypeInv, NEW p \in Procs, Dequeue(p)
  PROVE  TypeInv'
<1>1. Head(queue) \in {Jobs[j] : j \in DOMAIN Jobs} /\ queue' \in Seq({Jobs[j] : j \in DOMAIN Jobs})
  BY DEF Dequeue, TypeInv
<1>2. Head(queue) \in StepLists
  BY <1>1 DEF StepLists
<1>3. proc' \in [Procs -> Processes] /\ \A q \in Procs : ProcOK(proc'[q])
  BY <1>2, StartedIsTyped DEF Dequeue, Kinds
<1> QED
  BY <1>1, <1>3 DEF Dequeue, TypeInv, Tables

LEMMA TypeKeepsTypes ==
  ASSUME TypeInv, NEW p \in Procs, Type(p)
  PROVE  TypeInv'
<1>1. PICK kind \in {"command", "recipe"}, steps \in StepLists : proc' = Started(p, kind, steps)
  BY DEF Type, StepLists
<1>2. proc' \in [Procs -> Processes] /\ \A q \in Procs : ProcOK(proc'[q])
  BY <1>1, StartedIsTyped DEF Kinds
<1> QED
  BY <1>2 DEF Type, TypeInv, Tables

LEMMA DeployKeepsTypes ==
  ASSUME TypeInv, Deploy
  PROVE  TypeInv'
BY DEF Deploy, TypeInv, Tables

\* The steps that only move their process on.
LEMMA StepEnds ==
  ASSUME TypeInv, NEW p \in Active, proc[p].at # "", NEW ok \in BOOLEAN, Done(p, ok),
         UNCHANGED <<queue, wh, artifact, ran, code, submits, shells>>, manifest' \in {manifest, code},
         raw' \in [wdi : 0 .. Len(Loads), book : 0 .. Len(Books)]
  PROVE  TypeInv'
<1>1. proc' \in [Procs -> Processes] /\ \A q \in Procs : ProcOK(proc'[q])
  BY DoneIsTyped
<1> QED
  BY <1>1 DEF TypeInv, Tables

LEMMA BeginKeepsTypes ==
  ASSUME TypeInv, NEW p \in Procs, Begin(p)
  PROVE  TypeInv'
<1>1. PICK s \in proc[p].left :
        /\ IsNext(p, s)
        /\ proc' = [proc EXCEPT ![p] = IF Busy(p, s) THEN [After(@, s, FALSE) EXCEPT !.denied = TRUE]
                                      ELSE [@ EXCEPT !.at = s]]
  BY DEF Begin
<1>2. ProcOK(proc[p]) /\ proc[p].kind # "idle" /\ proc \in [Procs -> Processes] /\ \A q \in Procs : ProcOK(proc[q])
  BY DEF TypeInv, Begin, Active
<1>3. proc[p] \in Processes /\ s \in StepNames /\ FirstLeft(proc[p], s)
  BY <1>1, <1>2, NextIsFirst DEF ProcOK, Processes
<1>4. proc' \in [Procs -> Processes] /\ \A q \in Procs : ProcOK(proc'[q])
  <2>1. CASE Busy(p, s)
    <3>1. ProcOK(After(proc[p], s, FALSE)) /\ After(proc[p], s, FALSE).kind = proc[p].kind
      BY <1>1, <1>2, AfterIs DEF Ends
    <3>2. ProcOK([After(proc[p], s, FALSE) EXCEPT !.denied = TRUE])
      BY <3>1, <1>2 DEF ProcOK, Processes, FirstLeft
    <3> QED
      BY <1>1, <1>2, <2>1, <3>2, OneProcess
  <2>2. CASE ~Busy(p, s)
    <3>1. ProcOK([proc[p] EXCEPT !.at = s])
      BY <1>2, <1>3 DEF ProcOK, Processes, FirstLeft
    <3> QED
      BY <1>1, <1>2, <2>2, <3>1, OneProcess
  <2> QED
    BY <2>1, <2>2
<1> QED
  BY <1>4 DEF Begin, TypeInv, Tables

LEMMA StepFailsKeepsTypes ==
  ASSUME TypeInv, NEW p \in Procs, StepFails(p)
  PROVE  TypeInv'
BY StepEnds DEF StepFails, TypeInv

LEMMA LoadKeepsTypes ==
  ASSUME TypeInv, NEW p \in Procs, Load(p)
  PROVE  TypeInv'
<1>1. raw' \in [wdi : 0 .. Len(Loads), book : 0 .. Len(Books)]
  BY SourcesAreListed DEF Load, TypeInv
<1>2. p \in Active /\ proc[p].at # "" /\ Done(p, TRUE)
  BY DEF Load, At
<1> QED
  BY <1>1, <1>2, StepEnds DEF Load

LEMMA JudgeKeepsTypes ==
  ASSUME TypeInv, NEW p \in Procs, Judge(p)
  PROVE  TypeInv'
<1>1. "" \notin DOMAIN Checks
  BY DEF Checks
<1>2. PICK ok \in BOOLEAN : ok = (Passes(proc[p].at) \/ proc[p].at \notin Blocking)
  OBVIOUS
<1> QED
  BY <1>1, <1>2, StepEnds DEF Judge, TypeInv

LEMMA CannotDeriveKeepsTypes ==
  ASSUME TypeInv, NEW p \in Procs, CannotDerive(p)
  PROVE  TypeInv'
BY StepEnds DEF CannotDerive, At, TypeInv

LEMMA SiteStepsKeepTypes ==
  ASSUME TypeInv, NEW p \in Procs, SourcesStep(p) \/ Render(p) \/ DbtDocs(p) \/ PublishTo(p)
  PROVE  TypeInv'
<1>1. PICK ok \in BOOLEAN : Done(p, ok)
  BY DEF SourcesStep, Render, DbtDocs, PublishTo
<1>2. p \in Active /\ proc[p].at # "" /\ UNCHANGED <<queue, raw, wh, artifact, ran, code, manifest, submits, shells>>
  BY DEF SourcesStep, Render, DbtDocs, PublishTo, At, OfItsOwn
<1> QED
  BY <1>1, <1>2, StepEnds DEF TypeInv

LEMMA FinishKeepsTypes ==
  ASSUME TypeInv, NEW p \in Procs, Finish(p)
  PROVE  TypeInv'
<1>1. proc' \in [Procs -> Processes] /\ \A q \in Procs : ProcOK(proc'[q])
  BY IdleIsTyped, OneProcess DEF Finish, TypeInv
<1> QED
  BY <1>1 DEF Finish, TypeInv, Tables

LEMMA DeriveKeepsTypes ==
  ASSUME TypeInv, NEW p \in Procs, Derive(p)
  PROVE  TypeInv'
<1>1. p \in Active /\ proc[p].at # "" /\ Done(p, TRUE)
  BY DEF Derive, At
<1>2. proc' \in [Procs -> Processes] /\ \A q \in Procs : ProcOK(proc'[q])
  BY <1>1, DoneIsTyped
<1>3. Tables'
  <2>1. Tables
    BY DEF TypeInv
  <2>2. CASE HasMart /\ wh' = [wh EXCEPT !.co2 = [of |-> wh.mart.inv, data |-> wh.mart.data, rows |-> Ranks[wh.mart.data]]]
    <3>1. wh.mart.inv \in Nat /\ wh.mart.data \in DOMAIN Loads
      BY <2>1, <2>2 DEF Tables, HasMart, Made
    <3>2. [of |-> wh.mart.inv, data |-> wh.mart.data, rows |-> Ranks[wh.mart.data]] \in RankedOf
      BY <3>1 DEF RankedOf
    <3> QED
      BY <2>1, <2>2, <3>2 DEF Tables
  <2>3. CASE HasCustomers /\ wh' = [wh EXCEPT !.rfm = [of |-> wh.dim.inv, data |-> wh.dim.data, rows |-> Scores[wh.dim.data]]]
    <3>1. wh.dim.inv \in Nat /\ wh.dim.data \in DOMAIN Books
      BY <2>1, <2>3 DEF Tables, HasCustomers, Made
    <3>2. [of |-> wh.dim.inv, data |-> wh.dim.data, rows |-> Scores[wh.dim.data]] \in ScoredOf
      BY <3>1 DEF ScoredOf
    <3> QED
      BY <2>1, <2>3, <3>2 DEF Tables
  <2> QED
    BY <2>2, <2>3 DEF Derive
<1> QED
  BY <1>2, <1>3 DEF Derive, TypeInv

LEMMA UnitTestKeepsTypes ==
  ASSUME TypeInv, NEW p \in Procs, DbtUnitTest(p)
  PROVE  TypeInv'
<1>1. proc' \in [Procs -> Processes] /\ \A q \in Procs : ProcOK(proc'[q])
  BY DoneIsTyped DEF DbtUnitTest, At
<1>2. [command |-> "test", results |-> <<>>] \in Commands
  <2>1. <<>> \in [{} -> Outcomes]
    OBVIOUS
  <2> QED
    BY <2>1 DEF Commands
<1>3. ran' \in Seq(Commands) /\ artifact' \in 0 .. Len(ran')
  BY <1>2 DEF DbtUnitTest, TypeInv
<1> QED
  BY <1>1, <1>3 DEF DbtUnitTest, TypeInv, Tables

\* What a dbt build that ends has done: the models it built, the tests it failed.
BuildDid(p, built, failing, ok) ==
  /\ \A m \in built : Source[m] # 0
  /\ wh'.mart = (IF "mart" \in built THEN [inv |-> Len(ran) + 1, data |-> raw.wdi] ELSE wh.mart)
  /\ wh'.dim = (IF "dim" \in built THEN [inv |-> Len(ran) + 1, data |-> raw.book] ELSE wh.dim)
  /\ wh'.audit = Audited(TestsOf(built), failing)
  /\ wh'.co2 = wh.co2 /\ wh'.rfm = wh.rfm /\ wh'.status = wh.status /\ wh'.history = wh.history
  /\ wh' = [mart |-> wh'.mart, dim |-> wh'.dim, co2 |-> wh'.co2, rfm |-> wh'.rfm,
             audit |-> wh'.audit, status |-> wh'.status, history |-> wh'.history]
  /\ ran' = Append(ran, [command |-> "build", results |-> Results(built, TestsOf(built), failing)])
  /\ artifact' = Len(ran) + 1
  /\ proc' = [proc EXCEPT ![p] = [After(proc[p], "dbt_models", ok) EXCEPT !.inv = Len(ran) + 1]]
  /\ ok => built = {"mart", "dim"}

LEMMA BuildIs ==
  ASSUME TypeInv, NEW p \in Procs, DbtModels(p)
  PROVE  /\ \E built \in SUBSET {"mart", "dim"}, failing \in SUBSET code, ok \in BOOLEAN :
              BuildDid(p, built, failing, ok)
         /\ p \in Active /\ proc[p].at = "dbt_models" /\ manifest' = code
         /\ UNCHANGED <<queue, raw, cached, code, site, submits, shells>>
<1> DEFINE builtOf(broken) == {m \in {"mart", "dim"} \ broken : Source[m] # 0}
           resultsOf(built, failing) == Results(built, TestsOf(built), failing)
           okOf(built, results) == Cardinality(built) = 2 /\ \A t \in TestsOf(built) : results[t] # "fail"
           tableOf(built, m) == IF m \in built THEN [inv |-> Len(ran) + 1, data |-> Source[m]] ELSE wh[m]
<1>1. PICK broken \in SUBSET {"mart", "dim"}, failing \in SUBSET code :
        /\ wh' = [wh EXCEPT !.mart = tableOf(builtOf(broken), "mart"), !.dim = tableOf(builtOf(broken), "dim"),
                     !.audit = Audited(TestsOf(builtOf(broken)), failing)]
        /\ ran' = Append(ran, [command |-> "build", results |-> resultsOf(builtOf(broken), failing)])
        /\ artifact' = Len(ran) + 1
        /\ proc' = [proc EXCEPT ![p] =
                     [After(@, "dbt_models", okOf(builtOf(broken), resultsOf(builtOf(broken), failing)))
                         EXCEPT !.inv = Len(ran) + 1]]
  BY DEF DbtModels
<1> DEFINE built == builtOf(broken)
<1>2. built \in SUBSET {"mart", "dim"} /\ \A m \in built : Source[m] # 0
  OBVIOUS
<1>3. PICK ok \in BOOLEAN : ok = okOf(built, resultsOf(built, failing))
  OBVIOUS
<1>4. ok => built = {"mart", "dim"}
  <2> SUFFICES ASSUME ok PROVE built = {"mart", "dim"}
    OBVIOUS
  <2>1. Cardinality(built) = 2
    BY <1>3
  <2>2. Cardinality({"mart", "dim"}) = 2 /\ IsFiniteSet({"mart", "dim"})
    <3>1. {"mart", "dim"} = {"mart"} \cup {"dim"} /\ "dim" \notin {"mart"}
      OBVIOUS
    <3>2. IsFiniteSet({"mart"}) /\ Cardinality({"mart"}) = 1
      BY FS_Singleton
    <3> QED
      BY <3>1, <3>2, FS_AddElement
  <2> HIDE DEF built
  <2> QED
    BY <1>2, <2>1, <2>2, FS_Subset
<1>6. /\ wh'.mart = (IF "mart" \in built THEN [inv |-> Len(ran) + 1, data |-> raw.wdi] ELSE wh.mart)
      /\ wh'.dim = (IF "dim" \in built THEN [inv |-> Len(ran) + 1, data |-> raw.book] ELSE wh.dim)
      /\ wh'.audit = Audited(TestsOf(built), failing)
      /\ wh'.co2 = wh.co2 /\ wh'.rfm = wh.rfm /\ wh'.status = wh.status /\ wh'.history = wh.history
      /\ wh' = [mart |-> wh'.mart, dim |-> wh'.dim, co2 |-> wh'.co2, rfm |-> wh'.rfm,
             audit |-> wh'.audit, status |-> wh'.status, history |-> wh'.history]
  <2>1. Source["mart"] = raw.wdi /\ Source["dim"] = raw.book
    BY DEF Source
  <2>2. Tables
    BY DEF TypeInv
  <2>4. PICK mart, dim, audit : /\ wh' = [wh EXCEPT !.mart = mart, !.dim = dim, !.audit = audit]
           /\ mart = tableOf(built, "mart") /\ dim = tableOf(built, "dim")
           /\ audit = Audited(TestsOf(built), failing)
    BY <1>1
  <2> HIDE DEF built
  <2>5. /\ wh'.mart = mart /\ wh'.dim = dim /\ wh'.audit = audit
        /\ wh'.co2 = wh.co2 /\ wh'.rfm = wh.rfm /\ wh'.status = wh.status /\ wh'.history = wh.history
        /\ wh' = [mart |-> wh'.mart, dim |-> wh'.dim, co2 |-> wh'.co2, rfm |-> wh'.rfm,
                  audit |-> wh'.audit, status |-> wh'.status, history |-> wh'.history]
    BY <2>2, <2>4 DEF Tables
  <2> QED
    BY <2>1, <2>4, <2>5
<1>7. proc' = [proc EXCEPT ![p] = [After(proc[p], "dbt_models", ok) EXCEPT !.inv = Len(ran) + 1]]
  BY <1>1, <1>3 DEF TypeInv
<1>8. BuildDid(p, built, failing, ok)
  BY <1>1, <1>2, <1>4, <1>6, <1>7 DEF BuildDid
<1> QED
  BY <1>2, <1>8 DEF DbtModels, At

\* The audit tables and what dbt says of a build's nodes keep their types.
LEMMA TestsRan ==
  ASSUME TypeInv, NEW built \in SUBSET {"mart", "dim"}, NEW tested \in SUBSET code, NEW failing,
         NEW command \in {"build", "killed"}
  PROVE  /\ Audited(tested, failing) \in [DOMAIN Tests -> BOOLEAN \cup {Null}]
         /\ Results(built, tested, failing) \in [{"mart", "dim"} \cup code -> Outcomes]
         /\ [command |-> command, results |-> Results(built, tested, failing)] \in Commands
         /\ TestsOf(built) \in SUBSET code
<1>1. code \subseteq DOMAIN Tests /\ wh.audit \in [DOMAIN Tests -> BOOLEAN \cup {Null}]
  BY DEF TypeInv, Tables
<1>2. Audited(tested, failing) \in [DOMAIN Tests -> BOOLEAN \cup {Null}]
  BY <1>1 DEF Audited
<1>3. Results(built, tested, failing) \in [{"mart", "dim"} \cup code -> Outcomes]
  BY DEF Results, Verdict, Outcomes
<1>4. [command |-> command, results |-> Results(built, tested, failing)] \in Commands
  BY <1>1, <1>3 DEF Commands, Reported
<1> QED
  BY <1>2, <1>3, <1>4 DEF TestsOf

LEMMA BuildIsTyped ==
  ASSUME NEW r, ProcOK(r), r.kind # "idle", NEW inv \in Nat
  PROVE  ProcOK([r EXCEPT !.inv = inv])
BY DEF ProcOK, Processes, FirstLeft

LEMMA DbtModelsKeepsTypes ==
  ASSUME TypeInv, NEW p \in Procs, DbtModels(p)
  PROVE  TypeInv'
<1>1. PICK built \in SUBSET {"mart", "dim"}, failing \in SUBSET code, ok \in BOOLEAN :
        BuildDid(p, built, failing, ok)
  BY BuildIs
<1>2. /\ p \in Active /\ proc[p].at = "dbt_models" /\ manifest' = code
      /\ UNCHANGED <<queue, raw, cached, code, site, submits, shells>>
  BY BuildIs
<1>3. Len(ran) + 1 \in Nat /\ ran \in Seq(Commands) /\ code \subseteq DOMAIN Tests
  BY DEF TypeInv
<1>4. proc' \in [Procs -> Processes] /\ \A q \in Procs : ProcOK(proc'[q])
  <2>1. proc \in [Procs -> Processes] /\ (\A q \in Procs : ProcOK(proc[q])) /\ proc[p].kind # "idle"
    BY <1>2 DEF TypeInv, Active
  <2>2. "dbt_models" \in proc[p].left
    BY <1>2, <2>1 DEF ProcOK, FirstLeft
  <2>3. ProcOK(After(proc[p], "dbt_models", ok)) /\ After(proc[p], "dbt_models", ok).kind = proc[p].kind
    <3>1. PICK r, s : r = proc[p] /\ s = "dbt_models"
      OBVIOUS
    <3>2. ProcOK(r) /\ r.kind # "idle" /\ s \in r.left
      BY <2>1, <2>2, <3>1
    <3>3. Ends(r, s, After(r, s, ok))
      BY <3>2, AfterIs
    <3> QED
      BY <3>1, <3>3 DEF Ends
  <2>4. ProcOK([After(proc[p], "dbt_models", ok) EXCEPT !.inv = Len(ran) + 1])
    BY <1>3, <2>1, <2>3, BuildIsTyped
  <2> QED
    BY <1>1, <2>1, <2>4, OneProcess DEF BuildDid
<1>6. /\ [command |-> "build", results |-> Results(built, TestsOf(built), failing)] \in Commands
      /\ Audited(TestsOf(built), failing) \in [DOMAIN Tests -> BOOLEAN \cup {Null}]
  <2>1. TestsOf(built) \in SUBSET code
    BY DEF TestsOf
  <2> QED
    BY <2>1, TestsRan
<1>7. ran' \in Seq(Commands) /\ artifact' \in 0 .. Len(ran')
  BY <1>1, <1>3, <1>6 DEF BuildDid
<1>8. Tables'
  <2>1. Tables
    BY DEF TypeInv
  <2>2. wh'.mart \in Made(Loads) \cup {Null}
    <3>1. "mart" \in built => raw.wdi \in DOMAIN Loads
      BY <1>1, SourcesAreListed DEF BuildDid, Source, TypeInv
    <3> QED
      BY <1>1, <1>3, <2>1, <3>1 DEF BuildDid, Tables, Made
  <2>3. wh'.dim \in Made(Books) \cup {Null}
    <3>1. "dim" \in built => raw.book \in DOMAIN Books
      BY <1>1, SourcesAreListed DEF BuildDid, Source, TypeInv
    <3> QED
      BY <1>1, <1>3, <2>1, <3>1 DEF BuildDid, Tables, Made
  <2>4. wh'.audit \in [DOMAIN Tests -> BOOLEAN \cup {Null}]
    BY <1>1, <1>6 DEF BuildDid
  <2> QED
    BY <1>1, <2>1, <2>2, <2>3, <2>4 DEF BuildDid, Tables
<1> QED
  BY <1>2, <1>3, <1>4, <1>7, <1>8 DEF TypeInv

\* What a dbt build that is stopped has done: the models it replaced, the tests it ran.
DiedAt(built, tested, failing) ==
  /\ wh'.audit = Audited(tested, failing)
  /\ ran' = Append(ran, [command |-> "killed", results |-> Results(built, tested, failing)])

LEMMA DbtDiesIs ==
  ASSUME TypeInv, NEW p \in Procs, DbtDies(p)
  PROVE  /\ Tables' /\ p \in Active /\ proc[p].at = "dbt_models" /\ Done(p, FALSE)
         /\ wh'.co2 = wh.co2 /\ wh'.rfm = wh.rfm /\ wh'.history = wh.history /\ wh'.status = wh.status
         /\ \E built \in SUBSET {"mart", "dim"} : \E tested \in SUBSET TestsOf(built), failing \in SUBSET code :
              DiedAt(built, tested, failing)
         /\ ran' \in Seq(Commands) /\ Len(ran') = Len(ran) + 1 /\ manifest' = code
         /\ UNCHANGED <<queue, raw, cached, artifact, code, site, submits, shells>>
<1>1. PICK built \in SUBSET {m \in {"mart", "dim"} : Source[m] # 0} :
      \E tested \in SUBSET TestsOf(built), failing \in SUBSET code :
         /\ wh' = [m \in DOMAIN wh |-> IF m \in built THEN [inv |-> 0, data |-> Source[m]]
                                       ELSE IF m = "audit" THEN Audited(tested, failing) ELSE wh[m]]
         /\ ran' = Append(ran, [command |-> "killed", results |-> Results(built, tested, failing)])
  BY DEF DbtDies, TestsOf
<1> PICK tested \in SUBSET TestsOf(built), failing \in SUBSET code :
         /\ wh' = [m \in DOMAIN wh |-> IF m \in built THEN [inv |-> 0, data |-> Source[m]]
                                       ELSE IF m = "audit" THEN Audited(tested, failing) ELSE wh[m]]
         /\ ran' = Append(ran, [command |-> "killed", results |-> Results(built, tested, failing)])
  BY <1>1
<1>2. Tables /\ Source["mart"] = raw.wdi /\ Source["dim"] = raw.book /\ ran \in Seq(Commands)
  BY DEF TypeInv, Source
<1>3. DOMAIN wh = {"mart", "dim", "co2", "rfm", "audit", "status", "history"}
  BY <1>2 DEF Tables
<1>4. /\ wh'.mart = IF "mart" \in built THEN [inv |-> 0, data |-> raw.wdi] ELSE wh.mart
      /\ wh'.dim = IF "dim" \in built THEN [inv |-> 0, data |-> raw.book] ELSE wh.dim
  BY <1>2, <1>3
<1>5. /\ wh'.co2 = wh.co2 /\ wh'.rfm = wh.rfm /\ wh'.history = wh.history /\ wh'.status = wh.status
      /\ wh'.audit = Audited(tested, failing)
  BY <1>3
<1>6. wh' = [mart |-> wh'.mart, dim |-> wh'.dim, co2 |-> wh'.co2, rfm |-> wh'.rfm,
             audit |-> wh'.audit, status |-> wh'.status, history |-> wh'.history]
  BY <1>3
<1>7. "mart" \in built => raw.wdi \in DOMAIN Loads
  BY <1>2, SourcesAreListed DEF TypeInv
<1>8. "dim" \in built => raw.book \in DOMAIN Books
  BY <1>2, SourcesAreListed DEF TypeInv
<1>10. /\ [command |-> "killed", results |-> Results(built, tested, failing)] \in Commands
       /\ Audited(tested, failing) \in [DOMAIN Tests -> BOOLEAN \cup {Null}]
  <2>1. tested \in SUBSET code
    BY DEF TestsOf
  <2> QED
    BY <2>1, TestsRan
<1>9. Tables'
  <2>1. wh'.mart \in Made(Loads) \cup {Null}
    BY <1>2, <1>4, <1>7 DEF Tables, Made
  <2>2. wh'.dim \in Made(Books) \cup {Null}
    BY <1>2, <1>4, <1>8 DEF Tables, Made
  <2> QED
    BY <1>2, <1>5, <1>6, <1>10, <2>1, <2>2 DEF Tables
<1>11. ran' \in Seq(Commands) /\ Len(ran') = Len(ran) + 1
  BY <1>2, <1>10
<1>12. DiedAt(built, tested, failing)
  BY <1>5 DEF DiedAt
<1>13. built \in SUBSET {"mart", "dim"}
  OBVIOUS
<1>14. \E b \in SUBSET {"mart", "dim"} : \E t \in SUBSET TestsOf(b), f \in SUBSET code : DiedAt(b, t, f)
  <2> HIDE DEF DiedAt, TestsOf
  <2> QED
    BY <1>12, <1>13
<1>15. /\ p \in Active /\ proc[p].at = "dbt_models" /\ Done(p, FALSE) /\ manifest' = code
       /\ UNCHANGED <<queue, raw, cached, artifact, code, site, submits, shells>>
  BY DEF DbtDies, At
<1> QED
  BY <1>5, <1>9, <1>11, <1>14, <1>15

LEMMA DbtDiesKeepsTypes ==
  ASSUME TypeInv, NEW p \in Procs, DbtDies(p)
  PROVE  TypeInv'
<1>1. proc' \in [Procs -> Processes] /\ \A q \in Procs : ProcOK(proc'[q])
  BY DbtDiesIs, DoneIsTyped
<1>2. artifact' \in 0 .. Len(ran')
  <2>1. artifact' = artifact /\ Len(ran') = Len(ran) + 1
    BY DbtDiesIs
  <2>2. artifact \in 0 .. Len(ran) /\ Len(ran) \in Nat
    BY DEF TypeInv
  <2> QED
    BY <2>1, <2>2
<1> QED
  BY <1>1, <1>2, DbtDiesIs DEF TypeInv

\* What pipeline_status leaves as it was, and the batch it may add.
LEMMA StatusIs ==
  ASSUME TypeInv, NEW p \in Procs, PipelineStatus(p)
  PROVE  /\ p \in Active /\ proc[p].at = "pipeline_status" /\ HasSources
         /\ \E ok \in BOOLEAN : Done(p, ok) /\ wh'.history = IF ok THEN AppendFrame(wh.history, artifact) ELSE wh.history
         /\ wh'.mart = wh.mart /\ wh'.dim = wh.dim /\ wh'.co2 = wh.co2 /\ wh'.rfm = wh.rfm /\ wh'.audit = wh.audit
         /\ wh'.status.tests = BuildTests(wh.audit)
         /\ wh' = [mart |-> wh'.mart, dim |-> wh'.dim, co2 |-> wh'.co2, rfm |-> wh'.rfm,
                   audit |-> wh'.audit, status |-> wh'.status, history |-> wh'.history]
         /\ UNCHANGED <<queue, raw, cached, artifact, ran, code, manifest, site, submits, shells>>
<1>1. PICK ok, status, history :
        /\ ok \in BOOLEAN /\ wh' = [wh EXCEPT !.status = status, !.history = history]
        /\ status = [sources |-> raw, tests |-> BuildTests(wh.audit),
                      tables |-> {t \in {"mart", "dim", "co2", "rfm"} : wh[t] # Null}]
        /\ history = IF ok THEN AppendFrame(wh.history, artifact) ELSE wh.history
        /\ Done(p, ok)
  BY DEF PipelineStatus
<1>2. Tables
  BY DEF TypeInv
<1>3. /\ wh'.mart = wh.mart /\ wh'.dim = wh.dim /\ wh'.co2 = wh.co2 /\ wh'.rfm = wh.rfm /\ wh'.audit = wh.audit
      /\ wh'.status = status /\ wh'.history = history
      /\ wh' = [mart |-> wh'.mart, dim |-> wh'.dim, co2 |-> wh'.co2, rfm |-> wh'.rfm,
                audit |-> wh'.audit, status |-> wh'.status, history |-> wh'.history]
  BY <1>1, <1>2 DEF Tables
<1>4. status.tests = BuildTests(wh.audit)
  BY <1>1
<1> QED
  BY <1>1, <1>3, <1>4 DEF PipelineStatus, At

LEMMA AppendFrameIs ==
  ASSUME NEW history \in Seq(Batches), ran \in Seq(Commands), NEW inv \in 0 .. Len(ran)
  PROVE  \/ AppendFrame(history, inv) = history
         \/ /\ inv \in 1 .. Len(ran) /\ inv \notin Recorded(history) /\ ran[inv] \in Commands
            /\ AppendFrame(history, inv) = Append(history, [inv |-> inv, rows |-> ran[inv]])
BY DEF AppendFrame

LEMMA PipelineStatusKeepsTypes ==
  ASSUME TypeInv, NEW p \in Procs, PipelineStatus(p)
  PROVE  TypeInv'
<1>1. PICK ok \in BOOLEAN : Done(p, ok) /\ wh'.history = IF ok THEN AppendFrame(wh.history, artifact) ELSE wh.history
  BY StatusIs
<1>2. /\ p \in Active /\ proc[p].at = "pipeline_status"
      /\ wh'.mart = wh.mart /\ wh'.dim = wh.dim /\ wh'.co2 = wh.co2 /\ wh'.rfm = wh.rfm /\ wh'.audit = wh.audit
      /\ wh' = [mart |-> wh'.mart, dim |-> wh'.dim, co2 |-> wh'.co2, rfm |-> wh'.rfm,
                audit |-> wh'.audit, status |-> wh'.status, history |-> wh'.history]
      /\ UNCHANGED <<queue, raw, cached, artifact, ran, code, manifest, site, submits, shells>>
  BY StatusIs
<1>3. proc' \in [Procs -> Processes] /\ \A q \in Procs : ProcOK(proc'[q])
  BY <1>1, <1>2, DoneIsTyped
<1>4. wh'.history \in Seq(Batches)
  <2>1. wh.history \in Seq(Batches) /\ ran \in Seq(Commands) /\ artifact \in 0 .. Len(ran)
    BY DEF TypeInv, Tables
  <2>2. AppendFrame(wh.history, artifact) \in Seq(Batches)
    <3> DEFINE batch == [inv |-> artifact, rows |-> ran[artifact]]
    <3>1. AppendFrame(wh.history, artifact) = wh.history
            \/ (batch \in Batches /\ AppendFrame(wh.history, artifact) = Append(wh.history, batch))
      BY <2>1 DEF AppendFrame, Batches
    <3> HIDE DEF batch
    <3>2. ASSUME batch \in Batches PROVE Append(wh.history, batch) \in Seq(Batches)
      BY <2>1, <3>2
    <3> QED
      BY <2>1, <3>1, <3>2
  <2> QED
    BY <1>1, <2>1, <2>2
<1>5. Tables'
  BY <1>2, <1>4 DEF TypeInv, Tables
<1> QED
  BY <1>2, <1>3, <1>5 DEF TypeInv

LEMMA TypeStep ==
  ASSUME TypeInv, [Next]_vars
  PROVE  TypeInv'
<1>1. CASE UNCHANGED vars
  BY <1>1 DEF vars, TypeInv, Tables
<1>2. CASE Submit
  BY <1>2, SubmitKeepsTypes
<1>3. CASE Deploy
  BY <1>3, DeployKeepsTypes
<1>4. ASSUME NEW p \in Procs, Dequeue(p) PROVE TypeInv'
  BY <1>4, DequeueKeepsTypes
<1>5. ASSUME NEW p \in Procs, Type(p) PROVE TypeInv'
  BY <1>5, TypeKeepsTypes
<1>6. ASSUME NEW p \in Procs, Advance(p) PROVE TypeInv'
  BY <1>6, BeginKeepsTypes, StepFailsKeepsTypes, LoadKeepsTypes, DbtModelsKeepsTypes, DbtDiesKeepsTypes,
     UnitTestKeepsTypes, DeriveKeepsTypes, CannotDeriveKeepsTypes, PipelineStatusKeepsTypes, JudgeKeepsTypes,
     SiteStepsKeepTypes, FinishKeepsTypes DEF Advance
<1> QED
  BY <1>1, <1>2, <1>3, <1>4, <1>5, <1>6 DEF Next, Run

LEMMA TypesHold == Spec => []TypeInv
<1> QED
  BY TypeInit, TypeStep, PTL DEF Spec

LEMMA TypeInvImpliesTypeOK == TypeInv => TypeOK
<1> SUFFICES ASSUME TypeInv PROVE TypeOK
  OBVIOUS
<1>1. ASSUME NEW p \in Procs
      PROVE  /\ proc[p].kind \in {"idle", "queued", "command", "recipe"}
             /\ proc[p].at # "" => IsNext(p, proc[p].at)
             /\ proc[p].lost \cap proc[p].left = {}
  BY NextIsFirst DEF TypeInv, ProcOK, Processes, Kinds
<1>2. \A i \in DOMAIN queue : queue[i] \in {Jobs[j] : j \in DOMAIN Jobs}
  BY DEF TypeInv
<1>3. \A i \in DOMAIN ran : ran[i].command \in {"build", "killed", "test"}
  <2>1. \A c \in Commands : c.command \in {"build", "killed", "test"}
    BY DEF Commands
  <2> QED
    BY <2>1 DEF TypeInv
<1> QED
  BY <1>1, <1>2, <1>3 DEF TypeInv, TypeOK

-----------------------------------------------------------------------------
(* One run from the queue at a time. *)

\* Until something is typed in a shell there is at most one process at work, a queued
\* run that no other has been beside.
OneAtATime ==
  shells = 0 => /\ \A p \in Active : proc[p].kind = "queued" /\ ~proc[p].denied
                /\ \A p, q \in Active : p = q

\* What each step does to the process that takes it, and to the others.
Stays(p) ==
  /\ shells' = shells
  /\ \A q \in Procs \ {p} : proc'[q] = proc[q]
  /\ proc'[p].kind = "idle" \/ (p \in Active /\ proc'[p].kind = proc[p].kind /\ proc'[p].denied = proc[p].denied)

LEMMA DoneStays ==
  ASSUME TypeInv, NEW p \in Active, proc[p].at # "", NEW ok \in BOOLEAN, Done(p, ok), shells' = shells
  PROVE  Stays(p)
<1>1. p \in Procs /\ ProcOK(proc[p]) /\ proc[p].kind # "idle" /\ proc \in [Procs -> Processes]
  BY DEF TypeInv, Active
<1>2. proc[p].at \in proc[p].left
  BY <1>1 DEF ProcOK, FirstLeft
<1>3. Ends(proc[p], proc[p].at, After(proc[p], proc[p].at, ok))
  BY <1>1, <1>2, AfterIs
<1>4. proc'[p] = After(proc[p], proc[p].at, ok) /\ \A q \in Procs \ {p} : proc'[q] = proc[q]
  BY <1>1 DEF Done
<1> QED
  BY <1>3, <1>4 DEF Stays, Ends

\* Every step of a process but its first and the one that opens its files ends one.
LEMMA AdvanceStays ==
  ASSUME TypeInv, NEW p \in Procs, Advance(p), ~Begin(p)
  PROVE  Stays(p)
<1>1. CASE Finish(p)
  BY <1>1 DEF Finish, Stays, Idle, TypeInv
<1>2. CASE DbtModels(p)
  <2>1. PICK built \in SUBSET {"mart", "dim"}, failing \in SUBSET code, ok \in BOOLEAN :
          BuildDid(p, built, failing, ok)
    BY <1>2, BuildIs
  <2>2. p \in Active /\ proc[p].at = "dbt_models" /\ shells' = shells
    BY <1>2, BuildIs
  <2>3. ProcOK(proc[p]) /\ proc[p].kind # "idle" /\ proc \in [Procs -> Processes] /\ proc[p].at \in proc[p].left
    BY <2>2 DEF TypeInv, Active, ProcOK, FirstLeft
  <2>4. Ends(proc[p], proc[p].at, After(proc[p], proc[p].at, ok))
    BY <2>3, AfterIs
  <2>5. /\ proc'[p] = [After(proc[p], proc[p].at, ok) EXCEPT !.inv = Len(ran) + 1]
        /\ \A q \in Procs \ {p} : proc'[q] = proc[q]
    BY <2>1, <2>2, <2>3 DEF BuildDid
  <2>6. /\ proc'[p].kind = After(proc[p], proc[p].at, ok).kind
        /\ proc'[p].denied = After(proc[p], proc[p].at, ok).denied
    BY <2>4, <2>5 DEF Ends, ProcOK, Processes
  <2> QED
    BY <2>2, <2>4, <2>5, <2>6 DEF Stays, Ends
<1>3. CASE ~Finish(p) /\ ~DbtModels(p)
  <2>1. "" \notin DOMAIN Checks
    BY DEF Checks
  <2>2. p \in Active /\ proc[p].at # "" /\ shells' = shells
    BY <1>3, <2>1 DEF Advance, StepFails, Load, DbtDies, DbtUnitTest, Derive, CannotDerive, PipelineStatus, Judge,
       SourcesStep, Render, DbtDocs, PublishTo, At
  <2>3. PICK ok \in BOOLEAN : Done(p, ok)
    <3>1. CASE Judge(p)
      <4>1. PICK ok \in BOOLEAN : ok = (Passes(proc[p].at) \/ proc[p].at \notin Blocking)
        OBVIOUS
      <4> QED
        BY <3>1, <4>1 DEF Judge
    <3>2. CASE ~Judge(p)
      BY <1>3, <3>2 DEF Advance, StepFails, Load, DbtDies, DbtUnitTest, Derive, CannotDerive, PipelineStatus,
         SourcesStep, Render, DbtDocs, PublishTo
    <3> QED
      BY <3>1, <3>2
  <2> QED
    BY <2>2, <2>3, DoneStays
<1> QED
  BY <1>1, <1>2, <1>3

LEMMA OneAtATimeInit == Init => OneAtATime
<1>1. Idle.kind = "idle"
  BY DEF Idle
<1>2. Init => Active = {}
  BY <1>1 DEF Init, Active
<1> QED
  BY <1>2 DEF OneAtATime

LEMMA OneAtATimeStep ==
  ASSUME TypeInv, OneAtATime, [Next]_vars
  PROVE  OneAtATime'
<1>1. CASE UNCHANGED vars \/ Submit \/ Deploy
  BY <1>1 DEF vars, Submit, Deploy, OneAtATime, Active
<1>2. ASSUME NEW p \in Procs, Dequeue(p) PROVE OneAtATime'
  <2>1. CASE shells # 0
    BY <1>2, <2>1 DEF Dequeue, OneAtATime
  <2>2. CASE shells = 0
    <3>1. Active = {}
      BY <1>2, <2>2 DEF Dequeue, MayDequeue, OneAtATime
    <3>2. PICK first \in BOOLEAN : first = (Active = {})
      OBVIOUS
    <3>3. /\ proc'[p] = [Idle EXCEPT !.kind = "queued", !.steps = Head(queue), !.left = ToSet(Head(queue)), !.alone = first]
          /\ \A q \in Procs \ {p} : proc'[q] = proc[q]
      BY <1>2, <3>1, <3>2 DEF Dequeue, Started, Active
    <3>4. proc'[p].kind = "queued" /\ ~proc'[p].denied
      <4>1. PICK steps, left : proc'[p] = [Idle EXCEPT !.kind = "queued", !.steps = steps, !.left = left, !.alone = first]
        BY <3>3
      <4> QED
        BY <4>1 DEF Idle
    <3>5. Active' = {p}
      <4>1. \A q \in Procs : proc'[q].kind # "idle" <=> q = p
        BY <3>1, <3>3, <3>4 DEF Active
      <4> QED
        BY <4>1 DEF Active
    <3> QED
      BY <3>4, <3>5 DEF OneAtATime
  <2> QED
    BY <2>1, <2>2
<1>3. ASSUME NEW p \in Procs, Type(p) PROVE OneAtATime'
  BY <1>3 DEF Type, OneAtATime, TypeInv
<1>4. ASSUME NEW p \in Procs, Begin(p) PROVE OneAtATime'
  <2>1. CASE shells # 0
    BY <1>4, <2>1 DEF Begin, OneAtATime
  <2>2. CASE shells = 0
    <3>1. Active \ {p} = {} /\ p \in Active
      BY <1>4, <2>2 DEF Begin, OneAtATime
    <3>2. PICK s \in proc[p].left : proc' = [proc EXCEPT ![p] = [@ EXCEPT !.at = s]]
      BY <1>4, <3>1 DEF Begin, Busy
    <3>3. proc[p] \in Processes /\ proc \in [Procs -> Processes]
      BY DEF TypeInv
    <3>4. proc'[p].kind = proc[p].kind /\ proc'[p].denied = proc[p].denied /\ \A q \in Procs \ {p} : proc'[q] = proc[q]
      BY <3>2, <3>3 DEF Processes
    <3> QED
      BY <1>4, <2>2, <3>1, <3>4 DEF OneAtATime, Active, Begin
  <2> QED
    BY <2>1, <2>2
<1>5. ASSUME NEW p \in Procs, Advance(p), ~Begin(p) PROVE OneAtATime'
  <2>1. Stays(p)
    BY <1>5, AdvanceStays
  <2> QED
    BY <2>1 DEF Stays, OneAtATime, Active
<1> QED
  BY <1>1, <1>2, <1>3, <1>4, <1>5 DEF Next, Run

LEMMA OneAtATimeKeepsApart ==
  ASSUME TypeInv, OneAtATime
  PROVE  RunsKeepApart
<1>1. OnlyAShellContends
  <2> SUFFICES ASSUME NEW p \in Procs, proc[p].kind = "queued", proc[p].denied, ~(shells > 0)
               PROVE  FALSE
    BY DEF OnlyAShellContends
  <2>1. shells = 0
    BY DEF TypeInv
  <2>2. p \in Active
    BY DEF Active
  <2> QED
    BY <2>1, <2>2 DEF OneAtATime
<1> QED
  BY <1>1, TypeInvImpliesTypeOK DEF RunsKeepApart

\* The processes run the graph's steps, each at the first it has left, and a run from
\* the queue is refused a file only by what a shell started (definitions.py, dagster.yaml).
THEOREM QueuedRunsKeepApart == Spec => []RunsKeepApart
<1>1. TypeInv /\ OneAtATime /\ [Next]_vars => OneAtATime'
  BY OneAtATimeStep
<1> QED
  BY <1>1, TypesHold, OneAtATimeInit, OneAtATimeKeepsApart, PTL DEF Spec

-----------------------------------------------------------------------------
(* The run history and the test table. *)

\* A test a run of dbt build came to.
Judged(t, i) == ran[i].command # "test" /\ t \in DOMAIN ran[i].results /\ ran[i].results[t] # "skipped"

Latest(t, i) == i \in DOMAIN ran /\ Judged(t, i) /\ \A j \in DOMAIN ran : Judged(t, j) => j <= i

\* An audit table holds what the latest run of its test found.
AuditsAreTheLatest ==
  \A t \in DOMAIN Tests : wh.audit[t] # Null =>
     \E i \in DOMAIN ran : Latest(t, i) /\ ran[i].results[t] = Verdict(t, FailingRows(t, wh.audit[t]))

HistoryIsOfRuns == \A i \in DOMAIN wh.history : wh.history[i].inv \in 1 .. Len(ran)

\* Once a process has built, dbt's manifest lists the tests of the code until it ends.
BuiltFromTheCode == \A p \in Active : proc[p].inv # 0 => manifest = code

StatusInv == HistoryIsOfRuns /\ HistoryIsABatchPerCommand /\ AuditsAreTheLatest /\ BuiltFromTheCode

LEMMA StatusInit ==
  ASSUME Init
  PROVE  StatusInv
<1>1. wh.history = <<>> /\ wh.audit = [t \in DOMAIN Tests |-> Null]
  BY DEF Init, Nothing
<1>2. DOMAIN wh.history = {}
  BY <1>1
<1>3. BuiltFromTheCode
  BY DEF Init, BuiltFromTheCode
<1> QED
  BY <1>1, <1>2, <1>3 DEF StatusInv, HistoryIsOfRuns, HistoryIsABatchPerCommand, AuditsAreTheLatest

\* What the steps that are no dbt build and no pipeline_status do to what they tell of.
LEMMA OthersKeepTheRecord ==
  ASSUME TypeInv, [Next]_vars, \A p \in Procs : ~DbtModels(p) /\ ~DbtDies(p) /\ ~PipelineStatus(p)
  PROVE  /\ wh'.status = wh.status /\ wh'.history = wh.history /\ wh'.audit = wh.audit
         /\ ran' = ran \/ ran' = Append(ran, [command |-> "test", results |-> <<>>])
<1>1. CASE UNCHANGED vars \/ Submit \/ Deploy
  BY <1>1 DEF vars, Submit, Deploy
<1>2. ASSUME NEW p \in Procs, Dequeue(p) \/ Type(p)
      PROVE  UNCHANGED <<wh, ran>>
  BY <1>2 DEF Dequeue, Type
<1>3. ASSUME NEW p \in Procs, Advance(p)
      PROVE  /\ wh'.status = wh.status /\ wh'.history = wh.history /\ wh'.audit = wh.audit
             /\ ran' = ran \/ ran' = Append(ran, [command |-> "test", results |-> <<>>])
  <2>1. CASE Derive(p)
    BY <2>1 DEF Derive, TypeInv, Tables
  <2>3. CASE DbtUnitTest(p)
    BY <2>3 DEF DbtUnitTest
  <2>4. CASE ~Derive(p) /\ ~DbtUnitTest(p)
    BY <1>3, <2>4 DEF Advance, Begin, StepFails, Load, CannotDerive, Judge, SourcesStep, Render, DbtDocs, PublishTo,
       Finish, OfItsOwn
  <2> QED
    BY <2>1, <2>3, <2>4
<1> QED
  BY <1>1, <1>2, <1>3 DEF Next, Run

\* What dbt reports of another command leaves the earlier verdicts the latest.
LEMMA LatestStays ==
  ASSUME ran \in Seq(Commands), NEW c \in Commands, ran' = Append(ran, c), NEW t, NEW i, Latest(t, i),
         ~(c.command # "test" /\ t \in DOMAIN c.results /\ c.results[t] # "skipped")
  PROVE  Latest(t, i)' /\ ran'[i] = ran[i]
<1>1. Len(ran') = Len(ran) + 1 /\ ran'[Len(ran) + 1] = c /\ \A j \in 1 .. Len(ran) : ran'[j] = ran[j]
  OBVIOUS
<1>2. DOMAIN ran' = 1 .. Len(ran) + 1 /\ DOMAIN ran = 1 .. Len(ran) /\ Len(ran) \in Nat
  BY <1>1
<1> QED
  BY <1>1, <1>2 DEF Latest, Judged

LEMMA HistoryStays ==
  ASSUME TypeInv, StatusInv, NEW c \in Commands, ran' = Append(ran, c) \/ ran' = ran, wh'.history = wh.history
  PROVE  HistoryIsOfRuns' /\ HistoryIsABatchPerCommand'
<1>1. ran \in Seq(Commands)
  BY DEF TypeInv
<1>2. Len(ran) \in Nat /\ Len(ran') >= Len(ran) /\ Len(ran') \in Nat /\ \A j \in 1 .. Len(ran) : ran'[j] = ran[j]
  BY <1>1
<1> QED
  BY <1>2 DEF StatusInv, HistoryIsOfRuns, HistoryIsABatchPerCommand

\* A build that ran some of its tests leaves each of their audit tables what it found.
LEMMA BuildKeepsTheAudits ==
  ASSUME TypeInv, AuditsAreTheLatest, NEW built \in SUBSET {"mart", "dim"}, NEW tested \in SUBSET code,
         NEW failing \in SUBSET code, NEW c \in Commands, c.command # "test",
         c.results = Results(built, tested, failing), ran' = Append(ran, c), wh'.audit = Audited(tested, failing)
  PROVE  AuditsAreTheLatest'
<1>1. ran \in Seq(Commands) /\ Len(ran) \in Nat /\ DOMAIN ran = 1 .. Len(ran) /\ code \subseteq DOMAIN Tests
  BY DEF TypeInv
<1>2. DOMAIN c.results = {"mart", "dim"} \cup code
  BY DEF Results
<1>3. ASSUME NEW t \in DOMAIN Tests, wh'.audit[t] # Null
      PROVE  \E i \in DOMAIN ran' : Latest(t, i)' /\ ran'[i].results[t] = Verdict(t, FailingRows(t, wh'.audit[t]))
  <2>1. CASE t \in tested
    <3>1. PICK m, fails : m = Len(ran) + 1 /\ fails = wh'.audit[t]
      OBVIOUS
    <3>2. fails \in BOOLEAN /\ (fails <=> t \in failing)
      <4>1. wh'.audit[t] = (t \in failing)
        BY <2>1 DEF Audited
      <4>2. CASE t \in failing
        <5>1. fails = TRUE
          BY <3>1, <4>1, <4>2
        <5> QED
          BY <4>2, <5>1
      <4>3. CASE t \notin failing
        <5>1. (t \in failing) = FALSE
          BY <4>3
        <5>2. wh'.audit[t] = FALSE
          BY <2>1, <5>1 DEF Audited
        <5> QED
          BY <3>1, <4>3, <5>2
      <4> QED
        BY <4>2, <4>3
    <3>3. ran'[m] = c /\ m \in DOMAIN ran' /\ \A j \in DOMAIN ran' : j <= m
      BY <1>1, <3>1
    <3>4. t \notin built
      BY TestsAre
    <3>5. c.results[t] = Verdict(t, IF t \in failing THEN 1 ELSE 0) /\ t \in DOMAIN c.results
      BY <2>1, <3>4 DEF Results
    <3>6. FailingRows(t, fails) = IF t \in failing THEN 1 ELSE 0
      BY <3>2 DEF FailingRows, Rows
    <3>7. Verdict(t, IF t \in failing THEN 1 ELSE 0) # "skipped"
      BY DEF Verdict
    <3>8. Latest(t, m)'
      BY <3>3, <3>5, <3>7 DEF Latest, Judged
    <3>9. c.results[t] = Verdict(t, FailingRows(t, fails))
      BY <3>5, <3>6
    <3> QED
      BY <3>1, <3>3, <3>8, <3>9
  <2>2. CASE t \notin tested
    <3>1. wh'.audit[t] = wh.audit[t]
      BY <2>2 DEF Audited
    <3>2. PICK i \in DOMAIN ran : Latest(t, i) /\ ran[i].results[t] = Verdict(t, FailingRows(t, wh.audit[t]))
      BY <1>3, <3>1 DEF StatusInv, AuditsAreTheLatest
    <3>3. t \in DOMAIN c.results => c.results[t] = "skipped"
      BY <2>2, TestsAre DEF Results
    <3>4. Latest(t, i)' /\ ran'[i] = ran[i]
      BY <1>1, <3>2, <3>3, LatestStays
    <3> QED
      BY <3>1, <3>2, <3>4 DEF Latest
  <2> QED
    BY <2>1, <2>2
<1> QED
  BY <1>3 DEF AuditsAreTheLatest

LEMMA ManifestFollows ==
  ASSUME TypeInv, BuiltFromTheCode, [Next]_vars
  PROVE  BuiltFromTheCode'
<1>1. CASE UNCHANGED vars \/ Submit
  BY <1>1 DEF vars, Submit, BuiltFromTheCode, Active
<1>2. CASE Deploy
  BY <1>2 DEF Deploy, BuiltFromTheCode, Active
<1>3. ASSUME NEW p \in Procs, Dequeue(p) \/ Type(p)
      PROVE  BuiltFromTheCode'
  <2>1. manifest' \in {manifest, code} /\ code' = code
    BY <1>3 DEF Dequeue, Type
  <2>2. PICK kind, steps : proc' = Started(p, kind, steps)
    BY <1>3 DEF Dequeue, Type
  <2>3. ASSUME NEW q \in Procs, proc'[q].kind # "idle", proc'[q].inv # 0 PROVE q \in Active /\ proc[q].inv # 0
    BY <2>2, <2>3 DEF Started, Idle, Active, TypeInv, Processes
  <2> QED
    BY <2>1, <2>3 DEF BuiltFromTheCode, Active
<1>4. ASSUME NEW p \in Procs, Advance(p)
      PROVE  BuiltFromTheCode'
  <2>1. CASE DbtModels(p) \/ DbtDies(p) \/ DbtUnitTest(p)
    <3>1. manifest' = code /\ code' = code
      BY <2>1, BuildIs, DbtDiesIs DEF DbtUnitTest
    <3> QED
      BY <3>1 DEF BuiltFromTheCode
  <2>2. CASE ~(DbtModels(p) \/ DbtDies(p) \/ DbtUnitTest(p))
    <3>1. manifest' \in {manifest, code} /\ code' = code
      BY <1>4, <2>2 DEF Advance, Begin, StepFails, Load, Derive, CannotDerive, PipelineStatus, Judge, SourcesStep,
         Render, DbtDocs, PublishTo, Finish
    <3>2. ASSUME NEW q \in Active' PROVE q \in Active /\ (proc'[q].inv # 0 => proc[q].inv # 0)
      <4>1. CASE Begin(p)
        <5>1. PICK s \in proc[p].left :
                proc' = [proc EXCEPT ![p] = IF Busy(p, s) THEN [After(@, s, FALSE) EXCEPT !.denied = TRUE]
                                            ELSE [@ EXCEPT !.at = s]]
          BY <4>1 DEF Begin
        <5>2. p \in Active /\ ProcOK(proc[p]) /\ proc[p].kind # "idle" /\ proc \in [Procs -> Processes]
          BY <4>1 DEF Begin, Active, TypeInv
        <5>3. Ends(proc[p], s, After(proc[p], s, FALSE))
          BY <5>2, AfterIs
        <5>4. proc'[p].inv = proc[p].inv
          BY <5>1, <5>2, <5>3 DEF Ends, ProcOK, Processes
        <5>5. \A r \in Procs \ {p} : proc'[r] = proc[r]
          BY <5>1, <5>2
        <5> QED
          BY <5>2, <5>4, <5>5 DEF Active
      <4>2. CASE Finish(p)
        BY <4>2 DEF Finish, Active, Idle, TypeInv
      <4>3. CASE ~Begin(p) /\ ~Finish(p)
        <5>1. PICK ok \in BOOLEAN : Done(p, ok)
          BY <1>4, <2>2, <4>3 DEF Advance, StepFails, Load, Derive, CannotDerive, PipelineStatus, Judge, SourcesStep,
             Render, DbtDocs, PublishTo
        <5>2. p \in Active /\ proc[p].at # "" /\ ProcOK(proc[p]) /\ proc \in [Procs -> Processes]
          <6>1. "" \notin DOMAIN Checks
            BY DEF Checks
          <6> QED
            BY <1>4, <2>2, <4>3, <6>1 DEF Advance, StepFails, Load, Derive, CannotDerive, PipelineStatus, Judge,
               SourcesStep, Render, DbtDocs, PublishTo, At, TypeInv
        <5>3. proc[p].at \in proc[p].left /\ proc[p].kind # "idle"
          BY <5>2 DEF ProcOK, FirstLeft, Active
        <5>4. Ends(proc[p], proc[p].at, After(proc[p], proc[p].at, ok))
          BY <5>2, <5>3, AfterIs
        <5>5. proc'[p] = After(proc[p], proc[p].at, ok) /\ \A r \in Procs \ {p} : proc'[r] = proc[r]
          BY <5>1, <5>2 DEF Done
        <5> QED
          BY <5>2, <5>4, <5>5 DEF Ends, Active
      <4> QED
        BY <4>1, <4>2, <4>3
    <3> QED
      BY <3>1, <3>2 DEF BuiltFromTheCode
  <2> QED
    BY <2>1, <2>2
<1> QED
  BY <1>1, <1>2, <1>3, <1>4 DEF Next, Run

LEMMA StatusStep ==
  ASSUME TypeInv, StatusInv, [Next]_vars
  PROVE  StatusInv'
<1>1. ran \in Seq(Commands) /\ Len(ran) \in Nat /\ DOMAIN ran = 1 .. Len(ran)
  BY DEF TypeInv
<1>5. BuiltFromTheCode'
  BY ManifestFollows DEF StatusInv
<1>2. CASE \A p \in Procs : ~DbtModels(p) /\ ~DbtDies(p) /\ ~PipelineStatus(p)
  <2>1. PICK c : c = [command |-> "test", results |-> <<>>]
    OBVIOUS
  <2>2. c \in Commands /\ c.command = "test"
    <3>1. <<>> \in [{} -> Outcomes]
      OBVIOUS
    <3> QED
      BY <2>1, <3>1 DEF Commands
  <2>3. wh'.history = wh.history /\ wh'.audit = wh.audit /\ (ran' = ran \/ ran' = Append(ran, c))
    BY <1>2, <2>1, OthersKeepTheRecord
  <2>4. HistoryIsOfRuns' /\ HistoryIsABatchPerCommand'
    BY <2>2, <2>3, HistoryStays
  <2>5. ASSUME NEW t \in DOMAIN Tests, NEW i \in DOMAIN ran, Latest(t, i)
        PROVE  Latest(t, i)' /\ ran'[i] = ran[i]
    BY <1>1, <2>2, <2>3, <2>5, LatestStays DEF Latest, Judged
  <2>6. AuditsAreTheLatest'
    BY <2>3, <2>5 DEF StatusInv, AuditsAreTheLatest, Latest
  <2> QED
    BY <1>5, <2>4, <2>6 DEF StatusInv
<1>3. ASSUME NEW p \in Procs, DbtModels(p) \/ DbtDies(p) PROVE StatusInv'
  <2>1. PICK built \in SUBSET {"mart", "dim"}, tested \in SUBSET code, failing \in SUBSET code,
             command \in {"build", "killed"} :
          /\ ran' = Append(ran, [command |-> command, results |-> Results(built, tested, failing)])
          /\ wh'.audit = Audited(tested, failing) /\ wh'.history = wh.history
    <3>1. CASE DbtModels(p)
      <4>1. PICK built \in SUBSET {"mart", "dim"}, failing \in SUBSET code, ok \in BOOLEAN :
              BuildDid(p, built, failing, ok)
        BY <3>1, BuildIs
      <4>2. TestsOf(built) \in SUBSET code
        BY DEF TestsOf
      <4> QED
        BY <4>1, <4>2 DEF BuildDid
    <3>2. CASE DbtDies(p)
      <4>1. PICK built \in SUBSET {"mart", "dim"} : \E tested \in SUBSET TestsOf(built), failing \in SUBSET code :
              DiedAt(built, tested, failing)
        BY <3>2, DbtDiesIs
      <4>2. TestsOf(built) \in SUBSET code
        BY DEF TestsOf
      <4>3. wh'.history = wh.history
        BY <3>2, DbtDiesIs
      <4> QED
        BY <4>1, <4>2, <4>3 DEF DiedAt
    <3> QED
      BY <1>3, <3>1, <3>2
  <2>2. PICK c : c = [command |-> command, results |-> Results(built, tested, failing)]
    OBVIOUS
  <2>3. c \in Commands /\ c.command # "test" /\ c.results = Results(built, tested, failing)
    BY <2>2, TestsRan
  <2>4. HistoryIsOfRuns' /\ HistoryIsABatchPerCommand'
    BY <2>1, <2>2, <2>3, HistoryStays
  <2>5. AuditsAreTheLatest'
    BY <2>1, <2>2, <2>3, BuildKeepsTheAudits DEF StatusInv
  <2> QED
    BY <1>5, <2>4, <2>5 DEF StatusInv
<1>4. ASSUME NEW p \in Procs, PipelineStatus(p) PROVE StatusInv'
  <2>1. PICK ok \in BOOLEAN : wh'.history = IF ok THEN AppendFrame(wh.history, artifact) ELSE wh.history
    BY <1>4, StatusIs
  <2>2. wh'.audit = wh.audit /\ ran' = ran
    BY <1>4, StatusIs
  <2>3. wh.history \in Seq(Batches) /\ artifact \in 0 .. Len(ran)
    BY DEF TypeInv, Tables
  <2>4. HistoryIsOfRuns' /\ HistoryIsABatchPerCommand'
    <3>1. CASE wh'.history = wh.history
      BY <2>2, <3>1 DEF StatusInv, HistoryIsOfRuns, HistoryIsABatchPerCommand
    <3>2. CASE wh'.history # wh.history
      <4>1. PICK b : b = [inv |-> artifact, rows |-> ran[artifact]]
        OBVIOUS
      <4>2. /\ artifact \in 1 .. Len(ran) /\ artifact \notin Recorded(wh.history)
            /\ wh'.history = Append(wh.history, b)
        <5>1. wh'.history = AppendFrame(wh.history, artifact)
          BY <2>1, <3>2
        <5>2. AppendFrame(wh.history, artifact) =
                IF artifact = 0 \/ artifact \in Recorded(wh.history) THEN wh.history ELSE Append(wh.history, b)
          BY <4>1 DEF AppendFrame
        <5>3. artifact # 0 /\ artifact \notin Recorded(wh.history)
          BY <3>2, <5>1, <5>2
        <5> QED
          BY <1>1, <2>3, <5>1, <5>2, <5>3
      <4>3. b.inv = artifact /\ b.rows = ran[artifact]
        BY <4>1
      <4>4. /\ Len(wh'.history) = Len(wh.history) + 1 /\ wh'.history[Len(wh.history) + 1] = b
            /\ \A j \in 1 .. Len(wh.history) : wh'.history[j] = wh.history[j]
            /\ DOMAIN wh'.history = 1 .. Len(wh.history) + 1 /\ DOMAIN wh.history = 1 .. Len(wh.history)
            /\ Len(wh.history) \in Nat
        <5>1. PICK h, k : h = wh.history /\ k = wh'.history
          OBVIOUS
        <5>2. h \in Seq(Batches) /\ b \in Batches
          BY <1>1, <2>3, <4>1, <4>2, <5>1 DEF Batches, TypeInv
        <5>3. k = Append(h, b)
          BY <4>2, <5>1
        <5> QED
          BY <5>1, <5>2, <5>3
      <4>5. \A j \in 1 .. Len(wh.history) : wh.history[j].inv # artifact
        BY <4>2, <4>4 DEF Recorded
      <4> QED
        BY <2>2, <4>2, <4>3, <4>4, <4>5 DEF StatusInv, HistoryIsOfRuns, HistoryIsABatchPerCommand
    <3> QED
      BY <3>1, <3>2
  <2>5. AuditsAreTheLatest'
    BY <2>2 DEF StatusInv, AuditsAreTheLatest, Latest, Judged
  <2> QED
    BY <1>5, <2>4, <2>5 DEF StatusInv
<1> QED
  BY <1>2, <1>3, <1>4

LEMMA GrowsByOne ==
  ASSUME NEW S, NEW h \in Seq(S), NEW b \in S, NEW k, k = h \/ k = Append(h, b)
  PROVE  IsPrefix(h, k)
<1>1. k \in Seq(S) /\ Len(h) \in Nat /\ Len(k) \in Nat /\ Len(h) <= Len(k) /\ \A i \in 1 .. Len(h) : k[i] = h[i]
  OBVIOUS
<1>2. SubSeq(h, 1, Len(h)) = [i \in 1 .. Len(h) |-> h[i]]
  BY <1>1
<1>3. SubSeq(k, 1, Len(h)) = [i \in 1 .. Len(h) |-> k[i]]
  BY <1>1
<1>4. [i \in 1 .. Len(h) |-> h[i]] = [i \in 1 .. Len(h) |-> k[i]]
  BY <1>1
<1> QED
  BY <1>1, <1>2, <1>3, <1>4 DEF IsPrefix

LEMMA HistoryGrows ==
  ASSUME TypeInv, [Next]_vars
  PROVE  HistoryOnlyGrows
<1>1. wh.history \in Seq(Batches) /\ ran \in Seq(Commands) /\ artifact \in 0 .. Len(ran)
  BY DEF TypeInv, Tables
<1>2. CASE \A p \in Procs : ~DbtModels(p) /\ ~DbtDies(p) /\ ~PipelineStatus(p)
  <2>1. wh'.history = wh.history
    BY <1>2, OthersKeepTheRecord
  <2>2. IsPrefix(wh.history, wh.history)
    BY <1>1 DEF IsPrefix
  <2> QED
    BY <2>1, <2>2 DEF HistoryOnlyGrows
<1>3. ASSUME NEW p \in Procs, DbtModels(p) \/ DbtDies(p) PROVE HistoryOnlyGrows
  <2>1. wh'.history = wh.history
    BY <1>3, BuildIs, DbtDiesIs DEF BuildDid
  <2>2. IsPrefix(wh.history, wh.history)
    BY <1>1 DEF IsPrefix
  <2> QED
    BY <2>1, <2>2 DEF HistoryOnlyGrows
<1>4. ASSUME NEW p \in Procs, PipelineStatus(p) PROVE HistoryOnlyGrows
  <2>1. PICK ok \in BOOLEAN : wh'.history = IF ok THEN AppendFrame(wh.history, artifact) ELSE wh.history
    BY <1>4, StatusIs
  <2>2. PICK h, k : h = wh.history /\ k = wh'.history
    OBVIOUS
  <2>3. CASE k = h
    <3>1. IsPrefix(h, k)
      BY <1>1, <2>2, <2>3 DEF IsPrefix
    <3> QED
      BY <2>2, <3>1 DEF HistoryOnlyGrows
  <2>4. CASE k # h
    <3>1. PICK b : b = [inv |-> artifact, rows |-> ran[artifact]]
      OBVIOUS
    <3>2. artifact # 0 /\ k = Append(h, b)
      BY <2>1, <2>2, <2>4, <3>1 DEF AppendFrame
    <3>3. b \in Batches
      BY <1>1, <3>1, <3>2 DEF Batches
    <3>4. h \in Seq(Batches)
      BY <1>1, <2>2
    <3>5. IsPrefix(h, k)
      BY <3>2, <3>3, <3>4, GrowsByOne
    <3> QED
      BY <2>2, <3>5 DEF HistoryOnlyGrows
  <2> QED
    BY <2>3, <2>4
<1> QED
  BY <1>2, <1>3, <1>4

LEMMA StatusTells ==
  ASSUME TypeInv, StatusInv, [Next]_vars
  PROVE  StatusTellsTheVerdicts
<1> SUFFICES ASSUME wh'.status # wh.status PROVE StatusTellsTheVerdicts
  BY DEF StatusTellsTheVerdicts
<1>1. PICK p \in Procs : PipelineStatus(p)
  <2>1. \A p \in Procs : ~DbtModels(p) /\ ~DbtDies(p)
    BY BuildIs, DbtDiesIs DEF BuildDid
  <2> QED
    BY <2>1, OthersKeepTheRecord
<1>2. wh'.status.tests = [u \in {u \in manifest : wh.audit[u] # Null} |-> Verdict(u, FailingRows(u, wh.audit[u]))]
  BY <1>1, StatusIs DEF BuildTests
<1>3. ASSUME NEW t \in DOMAIN wh'.status.tests PROVE wh'.status.tests[t] = LastVerdict(t)
  <2>3. t \in manifest /\ wh.audit[t] # Null /\ wh'.status.tests[t] = Verdict(t, FailingRows(t, wh.audit[t]))
    BY <1>2
  <2>4. t \in DOMAIN Tests
    BY <2>3 DEF TypeInv
  <2>5. PICK i \in DOMAIN ran : Latest(t, i) /\ ran[i].results[t] = Verdict(t, FailingRows(t, wh.audit[t]))
    BY <2>3, <2>4 DEF StatusInv, AuditsAreTheLatest
  <2> DEFINE runs == {j \in DOMAIN ran : Judged(t, j)}
  <2>6. i \in runs /\ runs \subseteq Nat /\ \A j \in runs : i >= j
    <3>1. DOMAIN ran \subseteq Nat
      BY DEF TypeInv
    <3> QED
      BY <2>5, <3>1 DEF Latest
  <2>7. Max(runs) = i
    <3> HIDE DEF runs
    <3> QED
      BY <2>6 DEF Max
  <2>8. LastVerdict(t) = ran[Max(runs)].results[t]
    BY DEF LastVerdict, Judged
  <2> QED
    BY <2>3, <2>5, <2>7, <2>8
<1>4. ASSUME NEW q \in Active, proc[q].inv # 0 PROVE DOMAIN wh'.status.tests \subseteq code
  BY <1>2, <1>4 DEF StatusInv, BuiltFromTheCode
<1> QED
  BY <1>3, <1>4 DEF StatusTellsTheVerdicts

\* The history keeps each dbt command's results once and for good, and the test table
\* says of each test what dbt found when it last ran it, in a build that ended or was
\* stopped, and after its own job's build lists only tests the code still has
\* (db.append_frame, observability.build_tests).
THEOREM HistoryTellsTheTruth == Spec => StatusIsTrue
<1>1. TypeInv /\ StatusInv /\ [Next]_vars => StatusInv'
  BY StatusStep
<1>2. Init => StatusInv
  BY StatusInit
<1>3. TypeInv /\ StatusInv /\ StatusInv' /\ [Next]_vars
        => [HistoryIsABatchPerCommand' /\ HistoryOnlyGrows /\ StatusTellsTheVerdicts]_vars
  <2> SUFFICES ASSUME TypeInv, StatusInv, StatusInv', [Next]_vars
               PROVE  HistoryIsABatchPerCommand' /\ HistoryOnlyGrows /\ StatusTellsTheVerdicts
    OBVIOUS
  <2>1. HistoryIsABatchPerCommand'
    BY DEF StatusInv
  <2> QED
    BY <2>1, HistoryGrows, StatusTells
<1> QED
  BY <1>1, <1>2, <1>3, TypesHold, PTL DEF Spec, StatusIsTrue

-----------------------------------------------------------------------------
(* Finite sets of numbers. *)

\* A nonempty set of naturals has a least.
LEMMA LeastOf ==
  ASSUME NEW S \in SUBSET Nat, S # {}
  PROVE  \E m \in S : \A x \in S : m <= x
<1>1. IsWellFoundedOn(OpToRel(<, Nat), Nat)
  BY NatLessThanWellFounded
<1>2. PICK m \in S : \A y \in S : ~(<<y, m>> \in OpToRel(<, Nat))
  BY <1>1, WFMin
<1>3. \A y \in S : ~(y < m)
  BY <1>2 DEF OpToRel
<1> QED
  BY <1>3

\* The sizes of sets of integers of which none is the greatest.
Boundless == {n \in Nat : \E S \in SUBSET Int : IsFiniteSet(S) /\ S # {} /\ Cardinality(S) = n
                                                /\ \A x \in S : \E y \in S : y > x}

\* A finite set of integers has a greatest.
LEMMA GreatestOf ==
  ASSUME NEW S \in SUBSET Int, IsFiniteSet(S), S # {}
  PROVE  Max(S) \in S /\ \A x \in S : x <= Max(S)
<1>1. Boundless = {}
  <2> SUFFICES ASSUME Boundless # {} PROVE FALSE
    OBVIOUS
  <2>1. PICK n \in Boundless : \A m \in Boundless : n <= m
    BY LeastOf DEF Boundless
  <2>2. PICK T \in SUBSET Int : IsFiniteSet(T) /\ T # {} /\ Cardinality(T) = n
                                /\ \A x \in T : \E y \in T : y > x
    BY DEF Boundless
  <2>3. PICK t \in T : TRUE
    BY <2>2
  <2> DEFINE U == T \ {t}
  <2>4. IsFiniteSet(U) /\ Cardinality(U) = n - 1 /\ n \in Nat /\ n # 0
    BY <2>2, FS_RemoveElement, FS_EmptySet, FS_CardinalityType
  <2>5. U # {}
    BY <2>2
  <2>6. n - 1 \in Nat /\ n - 1 < n
    BY <2>4
  <2>7. n - 1 \notin Boundless
    <3>1. n - 1 \in Boundless => n <= n - 1
      BY <2>1
    <3> QED
      BY <2>4, <3>1
  <2>8. PICK m \in U : \A y \in U : ~(y > m)
    BY <2>4, <2>5, <2>6, <2>7 DEF Boundless
  <2>9. m \in Int /\ t \in Int /\ T = U \cup {t}
    BY <2>3
  <2>10. PICK y \in T : y > m
    BY <2>2, <2>8
  <2>11. \A z \in T : ~(z > t)
    BY <2>8, <2>9, <2>10
  <2> QED
    BY <2>2, <2>3, <2>11
<1>2. Cardinality(S) \in Nat
  BY FS_CardinalityType
<1>3. PICK m \in S : \A y \in S : ~(y > m)
  BY <1>1, <1>2 DEF Boundless
<1>4. \A y \in S : m >= y
  BY <1>3
<1> QED
  BY <1>3, <1>4 DEF Max

\* And a least, opposite the greatest of the opposite numbers.
LEMMA SmallestOf ==
  ASSUME NEW S \in SUBSET Int, IsFiniteSet(S), S # {}
  PROVE  Min(S) \in S /\ \A x \in S : Min(S) <= x
<1> DEFINE T == {0 - x : x \in S}
           f == [x \in S |-> 0 - x]
<1>1. f \in Surjection(S, T)
  BY DEF Surjection
<1>2. IsFiniteSet(T)
  BY <1>1, FS_Surjection
<1>3. T \in SUBSET Int /\ T # {}
  OBVIOUS
<1>4. Max(T) \in T /\ \A x \in T : x <= Max(T)
  BY <1>2, <1>3, GreatestOf
<1>5. PICK m \in S : Max(T) = 0 - m
  BY <1>4
<1>6. \A x \in S : m <= x
  BY <1>4, <1>5
<1> QED
  BY <1>6 DEF Min

\* The place of a number in a set of them, from below.
Place(V, v) == Cardinality({w \in V : w <= v})

LEMMA PlacesRise ==
  ASSUME NEW V \in SUBSET Int, IsFiniteSet(V), NEW u \in V, NEW v \in V
  PROVE  /\ Place(V, u) \in 1 .. Cardinality(V)
         /\ u < v <=> Place(V, u) < Place(V, v)
<1>1. \A x : /\ IsFiniteSet({w \in V : w <= x}) /\ Place(V, x) \in Nat /\ Place(V, x) <= Cardinality(V)
  BY FS_Subset, FS_CardinalityType DEF Place
<1>2. \A x \in V : x \in {w \in V : w <= x}
  OBVIOUS
<1>3. Place(V, u) # 0
  BY <1>1, <1>2, FS_EmptySet DEF Place
<1>4. ASSUME NEW x \in V, NEW y \in V, x <= y PROVE Place(V, x) <= Place(V, y)
  <2>1. {w \in V : w <= x} \subseteq {w \in V : w <= y}
    <3>1. x \in Int /\ y \in Int /\ \A w \in V : w \in Int
      OBVIOUS
    <3>2. \A w \in V : w <= x => w <= y
      BY <1>4, <3>1
    <3> QED
      BY <3>2
  <2> QED
    BY <1>1, <2>1, FS_Subset DEF Place
<1>5. ASSUME u < v PROVE Place(V, u) # Place(V, v)
  <2>0. u \in Int /\ v \in Int /\ \A w \in V : w \in Int
    OBVIOUS
  <2>1. {w \in V : w <= u} \subseteq {w \in V : w <= v}
    <3>1. \A w \in V : w <= u => w <= v
      BY <1>5, <2>0
    <3> QED
      BY <3>1
  <2>2. v \notin {w \in V : w <= u} /\ v \in {w \in V : w <= v}
    BY <1>5, <2>0
  <2> QED
    BY <1>1, <2>1, <2>2, FS_Subset DEF Place
<1>6. /\ Cardinality(V) \in Nat /\ Place(V, u) \in Nat /\ Place(V, v) \in Nat
      /\ Place(V, u) <= Cardinality(V)
  BY <1>1, FS_CardinalityType
<1>7. Place(V, u) \in 1 .. Cardinality(V)
  BY <1>3, <1>6
<1>8. u \in Int /\ v \in Int
  OBVIOUS
<1>9. CASE u < v
  <2>1. Place(V, u) <= Place(V, v)
    <3>1. u <= v
      BY <1>8, <1>9
    <3> QED
      BY <1>4, <3>1
  <2> QED
    BY <1>5, <1>6, <1>7, <1>9, <2>1
<1>10. CASE v <= u
  <2>1. Place(V, v) <= Place(V, u)
    BY <1>4, <1>10
  <2> QED
    BY <1>6, <1>7, <1>8, <1>10, <2>1
<1> QED
  BY <1>7, <1>8, <1>9, <1>10

\* The places leave no gap.
LEMMA PlacesAreDense ==
  ASSUME NEW V \in SUBSET Int, IsFiniteSet(V)
  PROVE  {Place(V, v) : v \in V} = 1 .. Cardinality(V)
<1>1. \A v \in V : Place(V, v) \in 1 .. Cardinality(V)
  BY PlacesRise
<1>2. ASSUME NEW n \in 1 .. Cardinality(V) PROVE \E v \in V : Place(V, v) = n
  <2> DEFINE B == {k \in {Place(V, v) : v \in V} : k >= n}
  <2>1. Cardinality(V) \in Nat
    BY FS_CardinalityType
  <2>2. V # {}
    BY <2>1, FS_EmptySet
  <2>3. Max(V) \in V /\ \A x \in V : x <= Max(V)
    BY <2>2, GreatestOf
  <2>4. {w \in V : w <= Max(V)} = V
    BY <2>3
  <2>5. Place(V, Max(V)) = Cardinality(V)
    BY <2>4 DEF Place
  <2>6. B \in SUBSET Nat /\ B # {}
    <3>1. \A v \in V : Place(V, v) \in Nat
      BY <1>1, <2>1
    <3>2. Place(V, Max(V)) >= n /\ Place(V, Max(V)) \in {Place(V, v) : v \in V}
      BY <2>1, <2>3, <2>5
    <3> QED
      BY <3>1, <3>2
  <2>7. PICK k \in B : \A x \in B : k <= x
    BY <2>6, LeastOf
  <2>8. PICK v \in V : Place(V, v) = k
    OBVIOUS
  <2>9. CASE k = n
    BY <2>8, <2>9
  <2>10. CASE k # n
    <3> DEFINE W == {w \in V : w <= v} \ {v}
    <3>1. IsFiniteSet({w \in V : w <= v}) /\ v \in {w \in V : w <= v}
      BY FS_Subset
    <3>2. IsFiniteSet(W) /\ Cardinality(W) = k - 1
      BY <2>8, <3>1, FS_RemoveElement DEF Place
    <3>3. k \in Nat /\ k > n /\ n >= 1 /\ k - 1 >= n
      BY <2>6, <2>10
    <3>4. W # {} /\ W \in SUBSET Int
      <4>1. Cardinality(W) # 0
        BY <3>2, <3>3
      <4> QED
        BY <4>1, FS_EmptySet
    <3>5. PICK m \in W : \A x \in W : x <= m
      BY <3>2, <3>4, GreatestOf
    <3>6. {w \in V : w <= m} = W
      <4>1. v \in Int /\ m \in V /\ m <= v /\ m # v /\ \A w \in V : w \in Int
        BY <3>5
      <4>2. \A w \in V : w <= m => w <= v /\ w # v
        BY <4>1
      <4> QED
        BY <3>5, <4>2
    <3>7. m \in V /\ Place(V, m) = k - 1
      BY <3>2, <3>6 DEF Place
    <3>8. k - 1 \in B
      BY <3>3, <3>5, <3>7
    <3> QED
      BY <2>7, <3>3, <3>8
  <2> QED
    BY <2>9, <2>10
<1> QED
  BY <1>1, <1>2

-----------------------------------------------------------------------------
(* Ratios of whole numbers. *)

LEMMA TimesKeepsOrder ==
  ASSUME NEW a \in Int, NEW b \in Int, NEW k \in Nat \ {0}
  PROVE  a < b <=> a * k < b * k
OBVIOUS

LEMMA QuotientOfProduct ==
  ASSUME NEW g \in Nat \ {0}, NEW q \in Int
  PROVE  (g * q) \div g = q
OBVIOUS

LEMMA DivisorOf ==
  ASSUME NEW g \in Nat \ {0}, NEW k \in Nat \ {0}, k % g = 0
  PROVE  \E i \in Nat \ {0} : k = g * i
<1>1. k = g * (k \div g) + (k % g) /\ k \div g \in Nat
  OBVIOUS
<1>2. k = g * (k \div g)
  BY <1>1
<1>3. k \div g # 0
  BY <1>2
<1> QED
  BY <1>1, <1>2, <1>3

\* Scaled by a number both divide, two ratios are in the order of the fractions.
LEMMA RatioOrder ==
  ASSUME NEW a \in Int, NEW b \in Int, NEW g \in Nat \ {0}, NEW h \in Nat \ {0},
         NEW k \in Nat \ {0}, k % g = 0, k % h = 0
  PROVE  /\ (a * k) \div g \in Int /\ (b * k) \div h \in Int
         /\ (a * h < b * g) <=> (a * k) \div g < (b * k) \div h
<1>1. PICK i \in Nat \ {0} : k = g * i
  BY DivisorOf
<1>2. PICK j \in Nat \ {0} : k = h * j
  BY DivisorOf
<1>3. a * k = g * (a * i) /\ b * k = h * (b * j) /\ a * i \in Int /\ b * j \in Int
  BY <1>1, <1>2
<1>4. (a * k) \div g = a * i /\ (b * k) \div h = b * j
  BY <1>3, QuotientOfProduct
<1>5. PICK m \in Nat \ {0} : m = i * j
  OBVIOUS
<1>6. (a * h) * m = (a * i) * k /\ (b * g) * m = (b * j) * k
  BY <1>1, <1>2, <1>5
<1>7. a * h < b * g <=> (a * h) * m < (b * g) * m
  BY TimesKeepsOrder
<1>8. a * i < b * j <=> (a * i) * k < (b * j) * k
  BY TimesKeepsOrder, <1>3
<1> QED
  BY <1>3, <1>4, <1>6, <1>7, <1>8

-----------------------------------------------------------------------------
(* The intensity ranks. *)

LEMMA RowsAreWhole ==
  ASSUME NEW l \in DOMAIN Loads
  PROVE  LET rows == Loads[l].rows
         IN /\ IsFiniteSet(DOMAIN rows)
            /\ \A c \in Measured(rows) : /\ rows[c].co2 \in Int /\ rows[c].gdp \in Nat \ {0}
                                        /\ KgPerMt % rows[c].gdp = 0
<1> DEFINE rows == Loads[l].rows
<1>1. Loads[l] \in ToSet(Loads)
  BY DEF ToSet
<1>2. IsFiniteSet(DOMAIN rows)
  BY <1>1, RefreshAssumption
<1>3. \A c \in DOMAIN rows : rows[c].co2 \in Int \cup {Null} /\ rows[c].gdp \in Nat
                              /\ (rows[c].gdp = 0 \/ KgPerMt % rows[c].gdp = 0)
  BY <1>1, RefreshAssumption
<1> QED
  BY <1>2, <1>3 DEF Measured

\* An image of a finite set of countries under their ratios.
LEMMA RatiosAreFinite ==
  ASSUME NEW S, IsFiniteSet(S), NEW rows
  PROVE  IsFiniteSet({Ratio(rows[d]) : d \in S})
<1> DEFINE f == [d \in S |-> Ratio(rows[d])]
           T == {Ratio(rows[d]) : d \in S}
<1>1. f \in Surjection(S, T)
  BY DEF Surjection
<1> QED
  BY <1>1, FS_Surjection

RanksExact(rows, rank) ==
  \A c \in DOMAIN rank :
    LET peers == {d \in DOMAIN rank : rows[d].group = rows[c].group}
    IN /\ {rank[d] : d \in peers} = 1 .. Max({rank[d] : d \in peers})
       /\ \A d \in peers : (rows[c].co2 * rows[d].gdp < rows[d].co2 * rows[c].gdp) <=> rank[c] < rank[d]

LEMMA RanksAreExact ==
  ASSUME NEW l \in DOMAIN Loads
  PROVE  RanksExact(Loads[l].rows, Ranks[l])
<1> DEFINE rows == Loads[l].rows
           rank == Ranks[l]
<1>1. rank = Ranked(rows)
  BY DEF Ranks
<1>2. /\ IsFiniteSet(DOMAIN rows)
      /\ \A c \in Measured(rows) : rows[c].co2 \in Int /\ rows[c].gdp \in Nat \ {0} /\ KgPerMt % rows[c].gdp = 0
  BY RowsAreWhole
<1>3. KgPerMt \in Nat \ {0}
  BY RefreshAssumption
<1> HIDE DEF rows, rank
<1>4. DOMAIN rank = Measured(rows)
  BY <1>1 DEF Ranked
<1>5. ASSUME NEW c \in Measured(rows)
      PROVE  LET peers == {d \in DOMAIN rank : rows[d].group = rows[c].group}
             IN /\ {rank[d] : d \in peers} = 1 .. Max({rank[d] : d \in peers})
                /\ \A d \in peers : (rows[c].co2 * rows[d].gdp < rows[d].co2 * rows[c].gdp) <=> rank[c] < rank[d]
  <2> DEFINE peers == Cohort(rows, c)
             V == {Ratio(rows[d]) : d \in peers}
  <2>1. peers = {d \in DOMAIN rank : rows[d].group = rows[c].group}
    BY <1>4 DEF Cohort
  <2>2. peers \subseteq Measured(rows) /\ c \in peers
    BY DEF Cohort
  <2>3. IsFiniteSet(peers)
    BY <1>2, <2>2, FS_Subset DEF Measured
  <2>4. IsFiniteSet(V)
    BY <2>3, RatiosAreFinite
  <2>5. \A d \in Measured(rows) : Ratio(rows[d]) \in Int
    BY <1>2, <1>3, RatioOrder DEF Ratio
  <2>6. V \in SUBSET Int
    BY <2>2, <2>5
  <2>7. ASSUME NEW d \in peers PROVE rank[d] = Place(V, Ratio(rows[d])) /\ Ratio(rows[d]) \in V
    <3>1. Cohort(rows, d) = peers
      BY DEF Cohort
    <3>2. {Ratio(rows[e]) : e \in {e \in peers : Ratio(rows[e]) <= Ratio(rows[d])}}
            = {w \in V : w <= Ratio(rows[d])}
      OBVIOUS
    <3>3. rank[d] = Cardinality({Ratio(rows[e]) : e \in {e \in Cohort(rows, d) : Ratio(rows[e]) <= Ratio(rows[d])}})
      BY <1>1, <2>2 DEF Ranked
    <3> QED
      BY <3>1, <3>2, <3>3 DEF Place
  <2>8. {rank[d] : d \in peers} = {Place(V, v) : v \in V}
    <3>1. \A d \in peers : rank[d] = Place(V, Ratio(rows[d])) /\ Ratio(rows[d]) \in V
      BY <2>7
    <3>2. \A v \in V : \E d \in peers : v = Ratio(rows[d])
      OBVIOUS
    <3> HIDE DEF V
    <3> QED
      BY <3>1, <3>2
  <2> HIDE DEF V, peers
  <2>9. {rank[d] : d \in peers} = 1 .. Cardinality(V)
    BY <2>4, <2>6, <2>8, PlacesAreDense
  <2>10. Cardinality(V) \in Nat /\ V # {}
    BY <2>2, <2>4, <2>7, FS_CardinalityType
  <2>11. Cardinality(V) >= 1
    BY <2>4, <2>10, FS_EmptySet
  <2>12. Max(1 .. Cardinality(V)) = Cardinality(V)
    BY <2>10, <2>11 DEF Max
  <2>13. ASSUME NEW d \in peers
         PROVE  (rows[c].co2 * rows[d].gdp < rows[d].co2 * rows[c].gdp) <=> rank[c] < rank[d]
    <3>1. rank[c] = Place(V, Ratio(rows[c])) /\ rank[d] = Place(V, Ratio(rows[d]))
      BY <2>2, <2>7
    <3>2. Ratio(rows[c]) < Ratio(rows[d]) <=> Place(V, Ratio(rows[c])) < Place(V, Ratio(rows[d]))
      BY <2>2, <2>4, <2>6, <2>7, PlacesRise
    <3>3. d \in Measured(rows)
      BY <2>2
    <3>4. (rows[c].co2 * rows[d].gdp < rows[d].co2 * rows[c].gdp) <=> Ratio(rows[c]) < Ratio(rows[d])
      BY <1>2, <1>3, <3>3, RatioOrder DEF Ratio
    <3> QED
      BY <3>1, <3>2, <3>4
  <2> QED
    BY <2>1, <2>9, <2>12, <2>13
<1>6. RanksExact(rows, rank)
  BY <1>4, <1>5 DEF RanksExact
<1> QED
  BY <1>6 DEF rows, rank

-----------------------------------------------------------------------------
(* The quintiles, and the scores made of them. *)

IsColumn(column) ==
  IsFiniteSet(DOMAIN column) /\ \A c \in DOMAIN column : column[c] \in Int \cup {Null}

\* The values of a column are finitely many integers.
LEMMA ValuesAreFinite ==
  ASSUME NEW column, NEW S \in SUBSET DOMAIN column, IsFiniteSet(DOMAIN column), \A c \in S : column[c] \in Int
  PROVE  IsFiniteSet({column[c] : c \in S}) /\ {column[c] : c \in S} \in SUBSET Int
<1> DEFINE f == [c \in S |-> column[c]]
           T == {column[c] : c \in S}
<1>1. f \in Surjection(S, T)
  BY DEF Surjection
<1>2. IsFiniteSet(S)
  BY FS_Subset
<1> QED
  BY <1>1, <1>2, FS_Surjection

LEMMA NthIsWhole ==
  ASSUME NEW column, IsColumn(column), NEW n \in 1 .. Cardinality(Present(column))
  PROVE  Nth(column, n) \in Int
<1> DEFINE P == Present(column)
           below(c) == {d \in P : column[d] <= column[c]}
           S == {c \in P : Cardinality(below(c)) >= n}
           V == {column[c] : c \in P}
<1>1. IsFiniteSet(P) /\ P \in SUBSET DOMAIN column /\ \A c \in P : column[c] \in Int
  BY FS_Subset DEF IsColumn, Present
<1>2. Cardinality(P) \in Nat /\ P # {}
  BY <1>1, FS_CardinalityType, FS_EmptySet
<1>3. IsFiniteSet(V) /\ V \in SUBSET Int
  BY <1>1, ValuesAreFinite DEF IsColumn
<1>4. V # {}
  BY <1>2
<1>5. PICK c \in P : \A d \in P : column[d] <= column[c]
  <2>1. Max(V) \in V /\ \A x \in V : x <= Max(V)
    BY <1>3, <1>4, GreatestOf
  <2>2. PICK c \in P : column[c] = Max(V)
    BY <2>1
  <2> QED
    BY <2>1, <2>2
<1>6. below(c) = P
  BY <1>5
<1>7. c \in S
  BY <1>2, <1>5, <1>6
<1> DEFINE W == {column[d] : d \in S}
<1>8. IsFiniteSet(W) /\ W \in SUBSET Int
  BY <1>1, ValuesAreFinite DEF IsColumn
<1>9. W # {}
  BY <1>7
<1>10. Min(W) \in W
  BY <1>8, <1>9, SmallestOf
<1>11. Nth(column, n) = Min(W)
  BY DEF Nth
<1> HIDE DEF W
<1> QED
  BY <1>8, <1>10, <1>11

LEMMA QuantileIsWhole ==
  ASSUME NEW column, IsColumn(column), Present(column) # {}, NEW k \in 1 .. 4
  PROVE  Quantile(column, k) \in Int
<1> DEFINE n == Cardinality(Present(column))
           at == k * (n - 1)
<1>1. n \in Nat /\ n >= 1
  <2>1. IsFiniteSet(Present(column))
    BY FS_Subset DEF IsColumn, Present
  <2> QED
    BY <2>1, FS_CardinalityType, FS_EmptySet
<1> HIDE DEF n
<1>2. at \in Nat /\ at <= 4 * (n - 1)
  BY <1>1
<1> HIDE DEF at
<1>3. /\ at % 5 \in 0 .. 4 /\ (at \div 5) + 1 \in 1 .. n
      /\ at % 5 # 0 => (at \div 5) + 2 \in 1 .. n
  BY <1>1, <1>2
<1>4. Nth(column, (at \div 5) + 1) \in Int
  BY <1>3, NthIsWhole DEF n
<1>5. at % 5 # 0 => Nth(column, (at \div 5) + 2) \in Int
  BY <1>3, NthIsWhole DEF n
<1>6. Quantile(column, k) = IF at % 5 = 0 THEN 5 * Nth(column, (at \div 5) + 1)
       ELSE ((5 - (at % 5)) * Nth(column, (at \div 5) + 1)) + ((at % 5) * Nth(column, (at \div 5) + 2))
  BY DEF Quantile, at, n
<1> QED
  BY <1>3, <1>4, <1>5, <1>6

\* A quintile is one of five, and follows the value.
LEMMA QuintilesRise ==
  ASSUME NEW column, IsColumn(column), NEW c \in DOMAIN column, NEW d \in DOMAIN column,
         column[c] # Null, column[d] # Null
  PROVE  /\ Quintiles(column)[c] \in 1 .. 5 /\ Quintiles(column)[d] \in 1 .. 5
         /\ column[c] <= column[d] => Quintiles(column)[c] <= Quintiles(column)[d]
<1> DEFINE above(x) == {k \in 1 .. 4 : 5 * x > Quantile(column, k)}
<1>1. column[c] \in Int /\ column[d] \in Int
  BY DEF IsColumn
<1>2. \A k \in 1 .. 4 : Quantile(column, k) \in Int
  BY QuantileIsWhole DEF Present
<1>3. \A e \in {c, d} : Quintiles(column)[e] = 1 + Cardinality(above(column[e]))
  <2>1. \A e \in {c, d} : {k \in 1 .. 4 : 5 * column[e] > [j \in 1 .. 4 |-> Quantile(column, j)][k]} = above(column[e])
    OBVIOUS
  <2> QED
    BY <2>1 DEF Quintiles
<1>4. \A x : IsFiniteSet(above(x)) /\ Cardinality(above(x)) \in 0 .. 4
  <2>1. IsFiniteSet(1 .. 4) /\ Cardinality(1 .. 4) = 4
    <3>1. PICK m, n \in Int : m = 1 /\ n = 4
      OBVIOUS
    <3>2. IsFiniteSet(m .. n) /\ Cardinality(m .. n) = IF m > n THEN 0 ELSE n - m + 1
      BY FS_Interval
    <3> QED
      BY <3>1, <3>2
  <2>2. \A x : above(x) \in SUBSET (1 .. 4)
    OBVIOUS
  <2>3. \A x : IsFiniteSet(above(x)) /\ Cardinality(above(x)) <= 4
    BY <2>1, <2>2, FS_Subset
  <2> HIDE DEF above
  <2> QED
    BY <2>3, FS_CardinalityType
<1>5. column[c] <= column[d] => above(column[c]) \subseteq above(column[d])
  BY <1>1, <1>2
<1>6. column[c] <= column[d] => Cardinality(above(column[c])) <= Cardinality(above(column[d]))
  BY <1>4, <1>5, FS_Subset
<1> HIDE DEF above
<1>7. Cardinality(above(column[c])) \in 0 .. 4 /\ Cardinality(above(column[d])) \in 0 .. 4
  BY <1>4
<1> QED
  BY <1>3, <1>6, <1>7

ScoresExact(book, score) ==
  \A c, d \in DOMAIN score :
    /\ book[c].orders <= book[d].orders => score[c].f <= score[d].f
    /\ book[c].last <= book[d].last => score[c].r <= score[d].r
    /\ (Null \notin {book[c].net, book[d].net} /\ book[c].net <= book[d].net) => score[c].m <= score[d].m

LEMMA ScoresAreExact ==
  ASSUME NEW b \in DOMAIN Books
  PROVE  ScoresExact(Books[b], Scores[b])
<1> DEFINE book == Books[b]
           score == Scores[b]
<1>1. /\ IsFiniteSet(DOMAIN book) /\ Null \notin Int
      /\ \A c \in DOMAIN book : book[c].last \in Int /\ book[c].orders \in Int /\ book[c].net \in Int \cup {Null}
  BY RefreshAssumption DEF ToSet
<1>2. score = IF book = <<>> THEN <<>> ELSE Scored(book)
  BY DEF Scores
<1> HIDE DEF book, score
<1>3. CASE book = <<>>
  <2>1. DOMAIN score = {}
    BY <1>2, <1>3
  <2>2. ScoresExact(book, score)
    BY <2>1 DEF ScoresExact
  <2> QED
    BY <2>2 DEF book, score
<1>4. CASE book # <<>>
  <2> DEFINE recency == RecencyDays(book)
             orders == [c \in DOMAIN book |-> book[c].orders]
             net == [c \in DOMAIN book |-> book[c].net]
  <2>1. \A c \in DOMAIN book : /\ score[c].r = 6 - Quintiles(recency)[c] /\ score[c].f = Quintiles(orders)[c]
                               /\ score[c].m = Quintiles(net)[c]
    BY <1>2, <1>4 DEF Scored
  <2>2. DOMAIN score = DOMAIN book
    BY <1>2, <1>4 DEF Scored
  <2>3. IsColumn(orders) /\ IsColumn(net)
    BY <1>1 DEF IsColumn
  <2> SUFFICES ASSUME NEW c \in DOMAIN book, NEW d \in DOMAIN book
               PROVE  /\ book[c].orders <= book[d].orders => score[c].f <= score[d].f
                      /\ book[c].last <= book[d].last => score[c].r <= score[d].r
                      /\ (Null \notin {book[c].net, book[d].net} /\ book[c].net <= book[d].net)
                           => score[c].m <= score[d].m
    BY <2>2 DEF ScoresExact, book, score
  <2>4. book[c].orders <= book[d].orders => score[c].f <= score[d].f
    <3>1. orders[c] = book[c].orders /\ orders[d] = book[d].orders /\ orders[c] # Null /\ orders[d] # Null
          /\ c \in DOMAIN orders /\ d \in DOMAIN orders
      BY <1>1
    <3> HIDE DEF orders
    <3> QED
      BY <2>1, <2>3, <3>1, QuintilesRise
  <2>5. (Null \notin {book[c].net, book[d].net} /\ book[c].net <= book[d].net) => score[c].m <= score[d].m
    <3>1. net[c] = book[c].net /\ net[d] = book[d].net /\ c \in DOMAIN net /\ d \in DOMAIN net
      OBVIOUS
    <3> HIDE DEF net
    <3> QED
      BY <2>1, <2>3, <3>1, QuintilesRise
  <2>6. book[c].last <= book[d].last => score[c].r <= score[d].r
    <3> DEFINE days == {book[e].last : e \in DOMAIN book}
    <3>1. IsFiniteSet(days) /\ days \in SUBSET Int /\ days # {}
      <4> DEFINE column == [e \in DOMAIN book |-> book[e].last]
      <4>1. days = {column[e] : e \in DOMAIN book} /\ DOMAIN column = DOMAIN book
            /\ \A e \in DOMAIN book : column[e] \in Int
        BY <1>1
      <4> HIDE DEF days, column
      <4>2. IsFiniteSet(days) /\ days \in SUBSET Int
        BY <1>1, <4>1, ValuesAreFinite
      <4> QED
        BY <4>2 DEF days
    <3>2. Max(days) \in Int
      BY <3>1, GreatestOf
    <3>3. recency = [e \in DOMAIN book |-> Max(days) - book[e].last]
      BY DEF RecencyDays
    <3> HIDE DEF days, recency
    <3>4. IsColumn(recency) /\ c \in DOMAIN recency /\ d \in DOMAIN recency
      BY <1>1, <3>2, <3>3 DEF IsColumn
    <3>5. recency[c] # Null /\ recency[d] # Null /\ (book[c].last <= book[d].last => recency[d] <= recency[c])
      BY <1>1, <3>2, <3>3
    <3>6. /\ Quintiles(recency)[c] \in 1 .. 5 /\ Quintiles(recency)[d] \in 1 .. 5
          /\ recency[d] <= recency[c] => Quintiles(recency)[d] <= Quintiles(recency)[c]
      BY <3>4, <3>5, QuintilesRise
    <3>7. PICK x, y : x = Quintiles(recency)[c] /\ y = Quintiles(recency)[d]
      OBVIOUS
    <3>8. score[c].r = 6 - x /\ score[d].r = 6 - y
      BY <2>1, <3>7
    <3>9. x \in 1 .. 5 /\ y \in 1 .. 5 /\ (book[c].last <= book[d].last => y <= x)
      BY <3>5, <3>6, <3>7
    <3> QED
      BY <3>8, <3>9
  <2> QED
    BY <2>4, <2>5, <2>6
<1> QED
  BY <1>3, <1>4

LEMMA TablesAreExact ==
  ASSUME Tables
  PROVE  DerivedAreExact
<1>1. ASSUME wh.co2 # Null PROVE RanksExact(Loads[wh.co2.data].rows, wh.co2.rows)
  <2>1. PICK i \in Nat, l \in DOMAIN Loads : wh.co2 = [of |-> i, data |-> l, rows |-> Ranks[l]]
    BY <1>1 DEF Tables, RankedOf
  <2>2. wh.co2.data = l /\ wh.co2.rows = Ranks[l]
    BY <2>1
  <2> QED
    BY <2>2, RanksAreExact
<1>2. ASSUME wh.rfm # Null PROVE ScoresExact(Books[wh.rfm.data], wh.rfm.rows)
  <2>1. PICK i \in Nat, b \in DOMAIN Books : wh.rfm = [of |-> i, data |-> b, rows |-> Scores[b]]
    BY <1>2 DEF Tables, ScoredOf
  <2>2. wh.rfm.data = b /\ wh.rfm.rows = Scores[b]
    BY <2>1
  <2> QED
    BY <2>2, ScoresAreExact
<1> QED
  BY <1>1, <1>2 DEF DerivedAreExact, RanksExact, ScoresExact

\* For any countries and customers, the ranks start at one and leave no gap, in the order
\* of the ratios, and the scores follow the values (co2_intensity.py, retail_rfm.py).
THEOREM DerivedTablesAreExact == Spec => []DerivedAreExact
<1>1. TypeInv => DerivedAreExact
  BY TablesAreExact DEF TypeInv
<1> QED
  BY <1>1, TypesHold, PTL

-----------------------------------------------------------------------------
(* The order of the steps: every job is a stretch of one line of them. *)

Turn == [ingest_retail |-> 0,
         ingest_public_indicators |-> 1, ingest_by_year |-> 2, wdi_indicators_all_present |-> 3,
         weather_revisions_are_derivable |-> 4, snapshot_expiry |-> 5,
         dbt_models |-> 6, mart_covers_recent_years |-> 7, fx_rates_reach_the_present |-> 8,
         co2_intensity |-> 9, co2_intensity_rank_is_dense |-> 10,
         retail_rfm |-> 11, rfm_scores_do_not_split_ties |-> 12,
         pipeline_status |-> 13, run_history_records_this_build |-> 14,
         sources |-> 15, evidence_build |-> 16, dbt_docs |-> 17, publish_to |-> 18, site_pages_all_rendered |-> 19]

Stretch(list, k, n) ==
  list \in Seq(DOMAIN Turn) /\ Len(list) = n /\ \A i \in 1 .. n : Turn[list[i]] = i + k

LEMMA TurnsAre ==
  /\ DOMAIN Turn = {"ingest_retail",
         "ingest_public_indicators", "ingest_by_year", "wdi_indicators_all_present",
         "weather_revisions_are_derivable", "snapshot_expiry",
         "dbt_models", "mart_covers_recent_years", "fx_rates_reach_the_present",
         "co2_intensity", "co2_intensity_rank_is_dense",
         "retail_rfm", "rfm_scores_do_not_split_ties",
         "pipeline_status", "run_history_records_this_build",
         "sources", "evidence_build", "dbt_docs", "publish_to", "site_pages_all_rendered"}
  /\ Turn["ingest_retail"] = 0
  /\ Turn["ingest_public_indicators"] = 1 /\ Turn["ingest_by_year"] = 2 /\ Turn["wdi_indicators_all_present"] = 3
  /\ Turn["weather_revisions_are_derivable"] = 4 /\ Turn["snapshot_expiry"] = 5
  /\ Turn["dbt_models"] = 6 /\ Turn["mart_covers_recent_years"] = 7 /\ Turn["fx_rates_reach_the_present"] = 8
  /\ Turn["co2_intensity"] = 9 /\ Turn["co2_intensity_rank_is_dense"] = 10
  /\ Turn["retail_rfm"] = 11 /\ Turn["rfm_scores_do_not_split_ties"] = 12
  /\ Turn["pipeline_status"] = 13 /\ Turn["run_history_records_this_build"] = 14
  /\ Turn["sources"] = 15 /\ Turn["evidence_build"] = 16 /\ Turn["dbt_docs"] = 17 /\ Turn["publish_to"] = 18
  /\ Turn["site_pages_all_rendered"] = 19
BY DEF Turn

\* No two steps have a turn.
LEMMA TurnsDiffer ==
  /\ \A s \in DOMAIN Turn : Turn[s] \in 0 .. 19
  /\ \A s, t \in DOMAIN Turn : Turn[s] = Turn[t] => s = t
BY TurnsAre

LEMMA StretchesJoin ==
  ASSUME NEW a, NEW b, NEW k \in Int, NEW m \in Nat, NEW n \in Nat, Stretch(a, k, m), Stretch(b, k + m, n)
  PROVE  Stretch(a \o b, k, m + n)
<1>1. PICK S, c : S = DOMAIN Turn /\ c = a \o b
  OBVIOUS
<1>2. a \in Seq(S) /\ b \in Seq(S) /\ Len(a) = m /\ Len(b) = n
  BY <1>1 DEF Stretch
<1>3. c \in Seq(S) /\ Len(c) = m + n
  BY <1>1, <1>2, ConcatProperties
<1>4. \A i \in 1 .. m + n : c[i] = IF i <= m THEN a[i] ELSE b[i - m]
  BY <1>1, <1>2, ConcatProperties
<1>5. ASSUME NEW i \in 1 .. m + n PROVE Turn[c[i]] = i + k
  <2>1. CASE i <= m
    BY <1>4, <2>1 DEF Stretch
  <2>2. CASE ~(i <= m)
    <3>1. i - m \in 1 .. n /\ (i - m) + (k + m) = i + k
      BY <2>2
    <3>2. Turn[b[i - m]] = (i - m) + (k + m)
      BY <3>1 DEF Stretch
    <3> QED
      BY <1>4, <2>2, <3>1, <3>2
  <2> QED
    BY <2>1, <2>2
<1> QED
  BY <1>1, <1>3, <1>5 DEF Stretch

\* What a stretch holds.
LEMMA StretchHolds ==
  ASSUME NEW list, NEW k \in Int, NEW n \in Nat, Stretch(list, k, n), NEW t
  PROVE  /\ t \in ToSet(list) => t \in DOMAIN Turn /\ Turn[t] \in k + 1 .. k + n
         /\ t \in DOMAIN Turn /\ Turn[t] \in k + 1 .. k + n => t \in ToSet(list)
<1>1. ToSet(list) = {list[i] : i \in 1 .. n} /\ \A i \in 1 .. n : list[i] \in DOMAIN Turn /\ Turn[list[i]] = i + k
  BY DEF Stretch, ToSet
<1>2. ASSUME t \in ToSet(list) PROVE t \in DOMAIN Turn /\ Turn[t] \in k + 1 .. k + n
  <2>1. PICK i \in 1 .. n : t = list[i]
    BY <1>1, <1>2
  <2> QED
    BY <1>1, <2>1
<1>3. ASSUME t \in DOMAIN Turn, Turn[t] \in k + 1 .. k + n PROVE t \in ToSet(list)
  <2>1. Turn[t] - k \in 1 .. n /\ (Turn[t] - k) + k = Turn[t]
    BY <1>3, TurnsDiffer
  <2>2. list[Turn[t] - k] = t
    BY <1>1, <1>3, <2>1, TurnsDiffer
  <2> QED
    BY <1>1, <2>1, <2>2
<1> QED
  BY <1>2, <1>3

LEMMA ListsAreStretches ==
  /\ Stretch(Ingest, 0, 5) /\ Stretch(Model, 5, 9) /\ Stretch(Site, 14, 5) /\ Stretch(SiteSteps, 14, 4)
<1>1. PICK S : S = DOMAIN Turn
  OBVIOUS
<1>2. 1 .. 5 = {1, 2, 3, 4, 5} /\ 1 .. 9 = {1, 2, 3, 4, 5, 6, 7, 8, 9} /\ 1 .. 4 = {1, 2, 3, 4} /\ 1 .. 1 = {1}
  OBVIOUS
<1>3. Ingest \in Seq(S) /\ Len(Ingest) = 5 /\ \A i \in {1, 2, 3, 4, 5} : Turn[Ingest[i]] = i + 0
  BY <1>1, TurnsAre DEF Ingest
<1>4. Model \in Seq(S) /\ Len(Model) = 9 /\ \A i \in {1, 2, 3, 4, 5, 6, 7, 8, 9} : Turn[Model[i]] = i + 5
  BY <1>1, TurnsAre DEF Model
<1>5. SiteSteps \in Seq(S) /\ Len(SiteSteps) = 4 /\ \A i \in {1, 2, 3, 4} : Turn[SiteSteps[i]] = i + 14
  BY <1>1, TurnsAre DEF SiteSteps
<1>6. PICK last : last = <<"site_pages_all_rendered">>
  OBVIOUS
<1>7. last \in Seq(S) /\ Len(last) = 1 /\ \A i \in {1} : Turn[last[i]] = i + 18
  BY <1>1, <1>6, TurnsAre
<1>8. Stretch(Ingest, 0, 5) /\ Stretch(Model, 5, 9) /\ Stretch(SiteSteps, 14, 4) /\ Stretch(last, 18, 1)
  BY <1>1, <1>2, <1>3, <1>4, <1>5, <1>7 DEF Stretch
<1>9. Stretch(SiteSteps \o last, 14, 5)
  <2>1. 14 \in Int /\ 4 \in Nat /\ 1 \in Nat /\ 14 + 4 = 18 /\ 4 + 1 = 5
    OBVIOUS
  <2>2. Stretch(last, 14 + 4, 1)
    BY <1>8, <2>1
  <2>3. Stretch(SiteSteps \o last, 14, 4 + 1)
    BY <1>8, <2>1, <2>2, StretchesJoin
  <2> QED
    BY <2>1, <2>3
<1>10. Site = SiteSteps \o last
  BY <1>6 DEF Site
<1> QED
  BY <1>8, <1>9, <1>10

LEMMA JobsAreStretches ==
  /\ DOMAIN Jobs = {"load_retail", "full_refresh", "publish_site", "publish_site_from_raw"}
  /\ Stretch(Jobs["load_retail"], 0 - 1, 1) /\ Stretch(Jobs["full_refresh"], 0, 14)
  /\ Stretch(Jobs["publish_site"], 0, 19) /\ Stretch(Jobs["publish_site_from_raw"], 5, 14)
<1>1. PICK S : S = DOMAIN Turn
  OBVIOUS
<1>2. /\ DOMAIN Jobs = {"load_retail", "full_refresh", "publish_site", "publish_site_from_raw"}
      /\ Jobs["load_retail"] = <<"ingest_retail">> /\ Jobs["full_refresh"] = Ingest \o Model
      /\ Jobs["publish_site"] = Ingest \o Model \o Site /\ Jobs["publish_site_from_raw"] = Model \o Site
  BY DEF Jobs
<1>3. Stretch(<<"ingest_retail">>, 0 - 1, 1)
  <2>1. PICK first : first = <<"ingest_retail">>
    OBVIOUS
  <2>2. first \in Seq(S) /\ Len(first) = 1 /\ \A i \in {1} : Turn[first[i]] = i + (0 - 1)
    BY <1>1, <2>1, TurnsAre
  <2>3. 1 .. 1 = {1}
    OBVIOUS
  <2> QED
    BY <1>1, <2>1, <2>2, <2>3 DEF Stretch
<1>4. 0 + 5 = 5 /\ 5 + 9 = 14 /\ 0 + 14 = 14 /\ 14 + 5 = 19 /\ 9 + 5 = 14
  OBVIOUS
<1>5. /\ Stretch(Ingest, 0, 5) /\ Stretch(Model, 0 + 5, 9) /\ Stretch(Model, 5, 9)
      /\ Stretch(Site, 0 + 14, 5) /\ Stretch(Site, 5 + 9, 5)
  BY <1>4, ListsAreStretches
<1>6. Stretch(Ingest \o Model, 0, 5 + 9)
  BY <1>5, StretchesJoin
<1>7. Stretch(Ingest \o Model, 0, 14)
  BY <1>4, <1>6
<1>8. Stretch((Ingest \o Model) \o Site, 0, 14 + 5)
  BY <1>5, <1>7, StretchesJoin
<1>9. Stretch(Model \o Site, 5, 9 + 5)
  BY <1>5, StretchesJoin
<1> QED
  BY <1>2, <1>3, <1>4, <1>7, <1>8, <1>9

-----------------------------------------------------------------------------
(* What is upstream of a step. *)

Held(s) == Upstream(s) \cap Steps

\* A set that holds what each of its steps waits for.
Closed(C) == \A c \in C : Held(c) \subseteq C

Beyond == [s \in Steps |-> {u \in Steps : \A C \in SUBSET Steps : Closed(C) /\ Held(s) \subseteq C => u \in C}]

LEMMA BeyondIs ==
  Beyond = [s \in Steps |-> UNION {{u} \cup Beyond[u] : u \in Upstream(s) \cap Steps}]
<1>1. ASSUME NEW s \in Steps PROVE Held(s) \subseteq Beyond[s] /\ Beyond[s] \subseteq Steps /\ Closed(Beyond[s])
  BY DEF Beyond, Closed, Held
<1>2. ASSUME NEW s \in Steps PROVE Beyond[s] = UNION {{u} \cup Beyond[u] : u \in Held(s)}
  <2> DEFINE D == UNION {{u} \cup Beyond[u] : u \in Held(s)}
  <2>1. \A x : x \in D <=> \E u \in Held(s) : x = u \/ x \in Beyond[u]
    OBVIOUS
  <2> HIDE DEF D
  <2>2. Held(s) \subseteq Steps
    BY DEF Held
  <2>3. D \subseteq Beyond[s]
    <3> SUFFICES ASSUME NEW x \in D PROVE x \in Beyond[s]
      OBVIOUS
    <3>1. PICK u \in Held(s) : x = u \/ x \in Beyond[u]
      BY <2>1
    <3>2. u \in Beyond[s] /\ u \in Steps
      BY <1>1, <2>2
    <3>3. x \in Steps
      BY <1>1, <3>1, <3>2
    <3>4. ASSUME NEW C \in SUBSET Steps, Closed(C), Held(s) \subseteq C PROVE x \in C
      <4>1. u \in C /\ Held(u) \subseteq C
        BY <3>4 DEF Closed
      <4> QED
        BY <3>1, <3>2, <3>4, <4>1 DEF Beyond
    <3> QED
      BY <3>3, <3>4 DEF Beyond
  <2>4. D \in SUBSET Steps
    BY <1>1, <2>1, <2>2
  <2>5. Closed(D)
    <3> SUFFICES ASSUME NEW x \in D, NEW y \in Held(x) PROVE y \in D
      BY DEF Closed
    <3>1. PICK u \in Held(s) : x = u \/ x \in Beyond[u]
      BY <2>1
    <3>2. u \in Steps
      BY <2>2
    <3>3. y \in Beyond[u]
      BY <1>1, <3>1, <3>2 DEF Closed
    <3> QED
      BY <2>1, <3>3
  <2>6. Held(s) \subseteq D
    BY <2>1
  <2>7. Beyond[s] \subseteq D
    BY <2>4, <2>5, <2>6 DEF Beyond
  <2>8. Beyond[s] = D
    BY <2>3, <2>7
  <2> QED
    BY <2>8 DEF D
<1> QED
  BY <1>2 DEF Beyond, Held

LEMMA AboveIs ==
  Above = [s \in Steps |-> UNION {{u} \cup Above[u] : u \in Upstream(s) \cap Steps}]
<1> DEFINE fits(f) == f = [s \in Steps |-> UNION {{u} \cup f[u] : u \in Upstream(s) \cap Steps}]
<1>1. \E f : fits(f)
  BY BeyondIs
<1>2. Above = CHOOSE f : fits(f)
  BY DEF Above
<1> HIDE DEF fits
<1>3. fits(Above)
  BY <1>1, <1>2
<1> QED
  BY <1>3 DEF fits

\* What a step waits for is before it, with all that is before that.
LEMMA BeforeRises ==
  ASSUME NEW s \in Steps, NEW u \in Upstream(s), u \in Steps
  PROVE  u \in Before[s] /\ Before[u] \subseteq Before[s]
<1>1. Above[s] = UNION {{v} \cup Above[v] : v \in Upstream(s) \cap Steps}
  BY AboveIs
<1>2. {u} \cup Above[u] \subseteq Above[s]
  BY <1>1
<1> QED
  BY <1>2 DEF Before

\* The steps from a load of the indicators to the site that serves them.
Path == {"ingest_by_year", "wdi_indicators_all_present", "dbt_models", "co2_intensity", "co2_intensity_rank_is_dense",
         "retail_rfm", "pipeline_status", "sources", "evidence_build", "dbt_docs", "publish_to"}

LEMMA SiteDepsAre ==
  /\ Deps("evidence_build") = {"sources"} /\ Deps("dbt_docs") = {"evidence_build"} /\ Deps("publish_to") = {"dbt_docs"}
<1>1. /\ SiteSteps[1] = "sources" /\ SiteSteps[2] = "evidence_build"
      /\ SiteSteps[3] = "dbt_docs" /\ SiteSteps[4] = "publish_to"
  BY DEF SiteSteps
<1>2. {SiteSteps[i] : i \in 2 .. 4} = {"evidence_build", "dbt_docs", "publish_to"}
  <2>1. 2 .. 4 = {2, 3, 4}
    OBVIOUS
  <2> QED
    BY <1>1, <2>1
<1>3. /\ {i \in 1 .. 3 : SiteSteps[i + 1] = "evidence_build"} = {1}
      /\ {i \in 1 .. 3 : SiteSteps[i + 1] = "dbt_docs"} = {2}
      /\ {i \in 1 .. 3 : SiteSteps[i + 1] = "publish_to"} = {3}
  BY <1>1
<1>4. /\ Deps("evidence_build") = {SiteSteps[i] : i \in {1}} /\ Deps("dbt_docs") = {SiteSteps[i] : i \in {2}}
      /\ Deps("publish_to") = {SiteSteps[i] : i \in {3}}
  BY <1>2, <1>3 DEF Deps
<1> QED
  BY <1>1, <1>4

LEMMA UpstreamOnThePath ==
  /\ "ingest_by_year" \in Upstream("wdi_indicators_all_present")
  /\ "wdi_indicators_all_present" \in Upstream("dbt_models") /\ "dbt_models" \in Upstream("sources")
  /\ "co2_intensity" \in Upstream("sources") /\ "co2_intensity_rank_is_dense" \in Upstream("sources")
  /\ "retail_rfm" \in Upstream("sources") /\ "pipeline_status" \in Upstream("sources")
  /\ "sources" \in Upstream("evidence_build") /\ "evidence_build" \in Upstream("dbt_docs")
  /\ "dbt_docs" \in Upstream("publish_to")
<1>1. DOMAIN Checks = {"wdi_indicators_all_present", "weather_revisions_are_derivable", "mart_covers_recent_years",
        "fx_rates_reach_the_present", "co2_intensity_rank_is_dense", "rfm_scores_do_not_split_ties",
        "run_history_records_this_build", "site_pages_all_rendered"}
  BY DEF Checks
<1>2. Checks["wdi_indicators_all_present"] = "ingest_by_year" /\ Checks["co2_intensity_rank_is_dense"] = "co2_intensity"
  BY DEF Checks
<1>3. \A s : Upstream(s) = IF s \in DOMAIN Checks THEN {Checks[s]}
                         ELSE Deps(s) \cup {c \in Blocking : Checks[c] \in Deps(s)}
  BY DEF Upstream
<1>4. "wdi_indicators_all_present" \in Blocking /\ "co2_intensity_rank_is_dense" \in Blocking
  BY DEF Blocking
<1>5. {SiteSteps[i] : i \in 2 .. 4} = {"evidence_build", "dbt_docs", "publish_to"}
  <2>1. 2 .. 4 = {2, 3, 4}
    OBVIOUS
  <2> QED
    BY <2>1 DEF SiteSteps
<1>6. /\ Deps("dbt_models") = {"ingest_public_indicators", "ingest_by_year", "ingest_retail"}
      /\ Deps("sources") = {"dbt_models", "co2_intensity", "retail_rfm", "pipeline_status"}
  BY <1>5 DEF Deps, SiteDeps
<1> QED
  BY <1>1, <1>2, <1>3, <1>4, <1>6, SiteDepsAre

LEMMA StepsAreTurns == DOMAIN Turn \subseteq Steps
<1> SUFFICES ASSUME NEW s \in DOMAIN Turn PROVE s \in Steps
  OBVIOUS
<1>1. Turn[s] \in 0 .. 19
  BY TurnsDiffer
<1>2. CASE Turn[s] = 0
  <2>1. s \in ToSet(Jobs["load_retail"])
    BY <1>2, JobsAreStretches, StretchHolds
  <2> QED
    BY <2>1, JobsAreStretches DEF Steps
<1>3. CASE Turn[s] \in 0 + 1 .. 0 + 19
  <2>1. s \in ToSet(Jobs["publish_site"])
    BY <1>3, JobsAreStretches, StretchHolds
  <2> QED
    BY <2>1, JobsAreStretches DEF Steps
<1> QED
  BY <1>1, <1>2, <1>3

LEMMA PathIsBefore ==
  /\ Path \subseteq DOMAIN Turn
  /\ \A c \in Path \ {"publish_to"} : c \in Before["publish_to"]
  /\ \A c \in Path : Before[c] \subseteq Before["publish_to"]
<1>1. Path \subseteq DOMAIN Turn
  BY TurnsAre DEF Path
<1>2. \A c \in Path : c \in Steps
  BY <1>1, StepsAreTurns
<1>3. \A s, u \in Path : u \in Upstream(s) => u \in Before[s] /\ Before[u] \subseteq Before[s]
  BY <1>2, BeforeRises
<1>4. "dbt_docs" \in Before["publish_to"] /\ Before["dbt_docs"] \subseteq Before["publish_to"]
  BY <1>3, UpstreamOnThePath DEF Path
<1>5. "evidence_build" \in Before["publish_to"] /\ Before["evidence_build"] \subseteq Before["publish_to"]
  BY <1>3, <1>4, UpstreamOnThePath DEF Path
<1>6. "sources" \in Before["publish_to"] /\ Before["sources"] \subseteq Before["publish_to"]
  BY <1>3, <1>5, UpstreamOnThePath DEF Path
<1>7. \A c \in {"dbt_models", "co2_intensity", "co2_intensity_rank_is_dense", "retail_rfm", "pipeline_status"} :
        c \in Before["publish_to"] /\ Before[c] \subseteq Before["publish_to"]
  BY <1>3, <1>6, UpstreamOnThePath DEF Path
<1>8. /\ "wdi_indicators_all_present" \in Before["publish_to"]
      /\ Before["wdi_indicators_all_present"] \subseteq Before["publish_to"]
  BY <1>3, <1>7, UpstreamOnThePath DEF Path
<1>9. "ingest_by_year" \in Before["publish_to"] /\ Before["ingest_by_year"] \subseteq Before["publish_to"]
  BY <1>3, <1>8, UpstreamOnThePath DEF Path
<1> QED
  BY <1>1, <1>4, <1>5, <1>6, <1>7, <1>8, <1>9 DEF Path

-----------------------------------------------------------------------------
(* What a process has left. *)

ListOf(r) ==
  /\ r.kind = "recipe" => \E c \in DOMAIN Recipes : r.steps = Recipes[c]
  /\ r.kind # "recipe" => \E j \in DOMAIN Jobs : r.steps = Jobs[j]
  /\ r.left \subseteq ToSet(r.steps)

\* While the site is still to be published, nothing on the path to it is lost, and what
\* follows a step that is left is left too.
PathIsLeft(r) ==
  "publish_to" \in r.left =>
    /\ "wdi_indicators_all_present" \notin r.lost
    /\ \A t, u \in Path : t \in r.left /\ Turn[t] <= Turn[u] => u \in r.left

\* A load that is to come is judged after it, or never.
LoadIsJudged(r) == "ingest_by_year" \in r.left => "wdi_indicators_all_present" \in r.left \cup r.lost

Planned(r) == r.kind # "idle" => ListOf(r) /\ PathIsLeft(r) /\ LoadIsJudged(r)

\* The recipes that are no stretch have nothing of the site, and none loads.
LEMMA RecipesAre ==
  ASSUME NEW c \in DOMAIN Recipes
  PROVE  /\ "publish_to" \in ToSet(Recipes[c]) => Recipes[c] = SiteSteps
         /\ "ingest_by_year" \notin ToSet(Recipes[c])
<1>1. ToSet(<<"dbt_models">>) = {"dbt_models"} /\ ToSet(<<"dbt_unit_test">>) = {"dbt_unit_test"}
      /\ ToSet(<<"pipeline_status">>) = {"pipeline_status"}
  BY DEF ToSet
<1>2. ToSet(<<"co2_intensity", "retail_rfm">>) = {"co2_intensity", "retail_rfm"}
  <2>1. PICK list : list = <<"co2_intensity", "retail_rfm">>
    OBVIOUS
  <2>2. DOMAIN list = {1, 2} /\ list[1] = "co2_intensity" /\ list[2] = "retail_rfm"
    BY <2>1
  <2>3. ToSet(list) = {"co2_intensity", "retail_rfm"}
    BY <2>2 DEF ToSet
  <2> QED
    BY <2>1, <2>3
<1>3. "ingest_by_year" \notin ToSet(SiteSteps)
  <2>1. 14 \in Int /\ 4 \in Nat /\ Stretch(SiteSteps, 14, 4)
    BY ListsAreStretches
  <2>2. ~(Turn["ingest_by_year"] \in 14 + 1 .. 14 + 4)
    BY TurnsAre
  <2> QED
    BY <2>1, <2>2, StretchHolds
<1>4. Recipes[c] \in {<<"dbt_models">>, <<"dbt_unit_test">>, <<"co2_intensity", "retail_rfm">>, <<"pipeline_status">>, SiteSteps}
  BY DEF Recipes
<1> QED
  BY <1>1, <1>2, <1>3, <1>4

LEMMA ListIsAStretch ==
  ASSUME NEW r, ListOf(r), r.kind # "recipe" \/ "publish_to" \in r.left
  PROVE  \E k \in Int, n \in Nat : Stretch(r.steps, k, n)
<1>1. CASE r.kind # "recipe"
  <2>1. PICK j \in DOMAIN Jobs : r.steps = Jobs[j]
    BY <1>1 DEF ListOf
  <2>2. 0 - 1 \in Int /\ 0 \in Int /\ 5 \in Int /\ 1 \in Nat /\ 14 \in Nat /\ 19 \in Nat
    OBVIOUS
  <2> QED
    BY <2>1, <2>2, JobsAreStretches
<1>2. CASE r.kind = "recipe" /\ "publish_to" \in r.left
  <2>1. r.steps = SiteSteps
    BY <1>2, RecipesAre DEF ListOf
  <2>2. 14 \in Int /\ 4 \in Nat
    OBVIOUS
  <2> QED
    BY <2>1, <2>2, ListsAreStretches
<1> QED
  BY <1>1, <1>2

\* The first step left has the least turn of them.
LEMMA FirstHasTheLeastTurn ==
  ASSUME NEW r, NEW k \in Int, NEW n \in Nat, Stretch(r.steps, k, n), r.left \subseteq ToSet(r.steps),
         NEW s, FirstLeft(r, s)
  PROVE  /\ s \in DOMAIN Turn /\ s \in r.left /\ r.left \subseteq DOMAIN Turn
         /\ \A t \in r.left : Turn[s] <= Turn[t]
<1>1. PICK i \in DOMAIN r.steps : s = r.steps[i] /\ s \in r.left /\ \A m \in 1 .. i - 1 : r.steps[m] \notin r.left
  BY DEF FirstLeft
<1>2. DOMAIN r.steps = 1 .. n /\ \A m \in 1 .. n : r.steps[m] \in DOMAIN Turn /\ Turn[r.steps[m]] = m + k
  BY DEF Stretch
<1>3. ASSUME NEW t \in r.left PROVE t \in DOMAIN Turn /\ Turn[s] <= Turn[t]
  <2>1. PICK m \in 1 .. n : t = r.steps[m]
    BY <1>2 DEF ToSet
  <2>2. ~(m \in 1 .. i - 1)
    BY <1>1, <1>3, <2>1
  <2>3. i <= m
    BY <1>1, <1>2, <2>2
  <2> QED
    BY <1>1, <1>2, <2>1, <2>3
<1> QED
  BY <1>1, <1>3

LEMMA FreshIsPlanned ==
  ASSUME NEW r, r.kind # "idle", r.left = ToSet(r.steps), r.lost = {}, ListOf(r)
  PROVE  Planned(r)
<1>1. PathIsLeft(r)
  <2> SUFFICES ASSUME "publish_to" \in r.left, NEW t \in Path, NEW u \in Path, t \in r.left, Turn[t] <= Turn[u]
               PROVE  u \in r.left
    BY DEF PathIsLeft
  <2>1. PICK k \in Int, n \in Nat : Stretch(r.steps, k, n)
    BY ListIsAStretch
  <2>2. /\ t \in DOMAIN Turn /\ u \in DOMAIN Turn /\ "publish_to" \in DOMAIN Turn
        /\ Turn[t] \in Int /\ Turn[u] \in Int /\ Turn["publish_to"] = 18 /\ Turn[u] <= 18
    BY PathIsBefore, TurnsDiffer, TurnsAre DEF Path
  <2>3. Turn[t] \in k + 1 .. k + n /\ Turn["publish_to"] \in k + 1 .. k + n
    BY <2>1, StretchHolds
  <2>4. Turn[u] \in k + 1 .. k + n
    BY <2>2, <2>3
  <2> QED
    BY <2>1, <2>2, <2>4, StretchHolds
<1>2. LoadIsJudged(r)
  <2> SUFFICES ASSUME "ingest_by_year" \in ToSet(r.steps) PROVE "wdi_indicators_all_present" \in ToSet(r.steps)
    BY DEF LoadIsJudged
  <2>1. PICK j \in DOMAIN Jobs : r.steps = Jobs[j]
    BY RecipesAre DEF ListOf
  <2>2. "ingest_by_year" \in DOMAIN Turn /\ "wdi_indicators_all_present" \in DOMAIN Turn
        /\ Turn["ingest_by_year"] = 2 /\ Turn["wdi_indicators_all_present"] = 3
    BY TurnsAre
  <2>3. PICK k \in {0 - 1, 0, 5}, n \in {1, 14, 19} : Stretch(r.steps, k, n) /\ k + n # 2
    BY <2>1, JobsAreStretches
  <2>4. 2 \in k + 1 .. k + n
    BY <2>2, <2>3, StretchHolds
  <2>5. 3 \in k + 1 .. k + n
    BY <2>3, <2>4
  <2> QED
    BY <2>2, <2>3, <2>5, StretchHolds
<1> QED
  BY <1>1, <1>2 DEF Planned

\* What a step that ends takes from what is left, and what a failure does.
Moves(r, s, ok, q) ==
  /\ q.kind = r.kind /\ q.steps = r.steps /\ q.alone = r.alone
  /\ ok => q.left = r.left \ {s} /\ q.lost = r.lost
  /\ ~ok => /\ q.left \subseteq r.left /\ s \notin q.left /\ q.left \cup q.lost = r.left \cup r.lost
            /\ r.kind = "recipe" => q.left = {}
            /\ "publish_to" \in q.left => /\ s \notin Path /\ \A t \in Path : t \in q.left <=> t \in r.left
                                          /\ \A t \in Path : t \in q.lost => t \in r.lost

LEMMA AfterMoves ==
  ASSUME NEW r, ProcOK(r), r.kind # "idle", NEW s \in r.left, NEW ok \in BOOLEAN
  PROVE  Moves(r, s, ok, After(r, s, ok))
<1> DEFINE lost == IF ok THEN {} ELSE IF r.kind = "recipe" THEN r.left ELSE {s} \cup {t \in r.left : s \in Before[t]}
           q == After(r, s, ok)
<1>1. q = [r EXCEPT !.at = "", !.lost = @ \cup lost, !.left = @ \ ({s} \cup lost)]
  BY DEF After
<1>2. lost \subseteq r.left /\ (~ok => s \in lost) /\ (ok => lost = {}) /\ (~ok /\ r.kind = "recipe" => lost = r.left)
  OBVIOUS
<1>3. ~ok /\ r.kind # "recipe" => \A t : t \in lost <=> t = s \/ (t \in r.left /\ s \in Before[t])
  OBVIOUS
<1>4. r \in Processes
  BY DEF ProcOK
<1> HIDE DEF lost, q
<1>5. /\ q.lost = r.lost \cup lost /\ q.left = r.left \ ({s} \cup lost) /\ q.kind = r.kind /\ q.steps = r.steps
      /\ q.alone = r.alone
  BY <1>1, <1>4 DEF Processes
<1>6. ASSUME ~ok, "publish_to" \in q.left
      PROVE  s \notin Path /\ \A t \in Path : t \notin lost
  <2>1. r.kind # "recipe" /\ "publish_to" \in r.left /\ "publish_to" \notin lost /\ s # "publish_to"
    BY <1>2, <1>5, <1>6
  <2>2. s \notin Before["publish_to"]
    BY <1>3, <1>6, <2>1
  <2>3. s \notin Path
    BY <2>1, <2>2, PathIsBefore
  <2>4. ASSUME NEW t \in Path, t \in lost PROVE FALSE
    <3>1. t = s \/ s \in Before[t]
      BY <1>3, <1>6, <2>1, <2>4
    <3> QED
      BY <2>2, <2>3, <3>1, PathIsBefore
  <2> QED
    BY <2>3, <2>4
<1>7. Moves(r, s, ok, q)
  BY <1>2, <1>5, <1>6 DEF Moves
<1> QED
  BY <1>7 DEF q

LEMMA MoveIsPlanned ==
  ASSUME NEW r, r.kind # "idle", Planned(r), NEW s, FirstLeft(r, s), NEW ok \in BOOLEAN, NEW q, Moves(r, s, ok, q)
  PROVE  Planned(q)
<1>1. ListOf(r) /\ PathIsLeft(r) /\ LoadIsJudged(r) /\ q.kind = r.kind /\ q.steps = r.steps /\ q.left \subseteq r.left
  BY DEF Planned, Moves
<1>2. ListOf(q)
  BY <1>1 DEF ListOf
<1>3. PathIsLeft(q)
  <2> SUFFICES ASSUME "publish_to" \in q.left
               PROVE  /\ "wdi_indicators_all_present" \notin q.lost
                      /\ \A t, u \in Path : t \in q.left /\ Turn[t] <= Turn[u] => u \in q.left
    BY DEF PathIsLeft
  <2>1. /\ "publish_to" \in r.left /\ "wdi_indicators_all_present" \notin r.lost
        /\ \A t, u \in Path : t \in r.left /\ Turn[t] <= Turn[u] => u \in r.left
    BY <1>1 DEF PathIsLeft
  <2>2. CASE ~ok
    BY <2>1, <2>2 DEF Moves, Path
  <2>3. CASE ok
    <3>1. q.left = r.left \ {s} /\ q.lost = r.lost
      BY <2>3 DEF Moves
    <3>2. PICK k \in Int, n \in Nat : Stretch(r.steps, k, n)
      BY <1>1, <2>1, ListIsAStretch
    <3>3. s \in DOMAIN Turn /\ r.left \subseteq DOMAIN Turn /\ \A t \in r.left : Turn[s] <= Turn[t]
      BY <1>1, <3>2, FirstHasTheLeastTurn DEF ListOf
    <3>4. ASSUME NEW t \in Path, NEW u \in Path, t \in q.left, Turn[t] <= Turn[u] PROVE u \in q.left
      <4>1. t \in r.left /\ t # s /\ u \in r.left
        BY <2>1, <3>1, <3>4
      <4>2. Turn[s] <= Turn[t] /\ Turn[s] # Turn[t] /\ Turn[s] \in Int /\ Turn[t] \in Int /\ Turn[u] \in Int
        BY <3>3, <4>1, TurnsDiffer
      <4> QED
        BY <3>1, <3>4, <4>1, <4>2
    <3> QED
      BY <2>1, <3>1, <3>4
  <2> QED
    BY <2>2, <2>3
<1>4. LoadIsJudged(q)
  <2> SUFFICES ASSUME "ingest_by_year" \in q.left PROVE "wdi_indicators_all_present" \in q.left \cup q.lost
    BY DEF LoadIsJudged
  <2>1. "ingest_by_year" \in r.left /\ "wdi_indicators_all_present" \in r.left \cup r.lost
    BY <1>1 DEF LoadIsJudged
  <2>2. CASE ~ok
    BY <2>1, <2>2 DEF Moves
  <2>3. CASE ok
    <3>1. r.kind # "recipe"
      BY <1>1, <2>1, RecipesAre DEF ListOf
    <3>2. PICK k \in Int, n \in Nat : Stretch(r.steps, k, n)
      BY <1>1, <3>1, ListIsAStretch
    <3>3. Turn[s] <= Turn["ingest_by_year"]
      BY <1>1, <2>1, <3>2, FirstHasTheLeastTurn DEF ListOf
    <3>4. s # "wdi_indicators_all_present"
      BY <3>3, TurnsAre
    <3> QED
      BY <2>1, <2>3, <3>4 DEF Moves
  <2> QED
    BY <2>2, <2>3
<1> QED
  BY <1>2, <1>3, <1>4 DEF Planned

-----------------------------------------------------------------------------
(* What each step of a process does. *)

SiteShape ==
  /\ site = [parquet |-> site.parquet, build |-> site.build, served |-> site.served]
  /\ site.build = [of |-> site.build.of, whole |-> site.build.whole, docs |-> site.build.docs]

Extract(w) == [mart |-> w.mart, dim |-> w.dim, co2 |-> w.co2, rfm |-> w.rfm]

\* What a step that succeeds has made, and what it leaves as it was.
DidWell(s, q) ==
  /\ s = "ingest_by_year" => UNCHANGED <<wh, artifact, site>>
  /\ s = "wdi_indicators_all_present" => AllPresent /\ UNCHANGED <<raw, wh, artifact, site>>
  /\ s = "dbt_models" =>
       /\ q.inv # 0 /\ artifact' = q.inv /\ wh'.mart.inv = q.inv /\ wh'.mart.data = raw.wdi /\ raw.wdi # 0 /\ wh'.dim.inv = q.inv
       /\ UNCHANGED <<raw, site>>
  /\ s = "co2_intensity" =>
       /\ wh'.co2.of = wh.mart.inv /\ wh'.mart = wh.mart /\ wh'.dim = wh.dim /\ UNCHANGED <<raw, artifact, site>>
  /\ s = "co2_intensity_rank_is_dense" => DOMAIN wh.co2.rows # {} /\ UNCHANGED <<raw, wh, artifact, site>>
  /\ s = "retail_rfm" =>
       /\ wh'.rfm.of = wh.dim.inv /\ wh'.mart = wh.mart /\ wh'.dim = wh.dim /\ wh'.co2 = wh.co2
       /\ UNCHANGED <<raw, artifact, site>>
  /\ s = "pipeline_status" =>
       /\ artifact # 0 => artifact \in Recorded(wh'.history)
       /\ Extract(wh') = Extract(wh) /\ UNCHANGED <<raw, artifact, site>>
  /\ s = "sources" =>
       /\ site'.parquet = Extract(wh) /\ site'.build.of = {} /\ UNCHANGED <<raw, wh, artifact>>
  /\ s = "evidence_build" =>
       /\ site'.parquet = site.parquet /\ site'.build.of = site.build.of \cup {site.parquet}
       /\ UNCHANGED <<raw, wh, artifact>>
  /\ s = "dbt_docs" =>
       /\ site'.parquet = site.parquet /\ site'.build.of = site.build.of /\ site'.build.docs
       /\ UNCHANGED <<raw, wh, artifact>>

Did(r, s, ok, q) ==
  /\ FirstLeft(r, s) /\ Moves(r, s, ok, q)
  /\ s # "dbt_models" => q.inv = r.inv
  /\ s # "ingest_by_year" => raw'.wdi = raw.wdi
  /\ s \notin {"sources", "dbt_docs"} => site'.build.docs = site.build.docs
  /\ s \in DOMAIN Turn \ Path => UNCHANGED <<wh, artifact, site>>
  /\ ok => DidWell(s, q)

\* A process, its step, and the process after it.
StepDid(p) == \E ok \in BOOLEAN : Did(proc[p], proc[p].at, ok, proc'[p])

LEMMA DoneMoves ==
  ASSUME TypeInv, NEW p \in Active, NEW s, proc[p].at = s, s # "", NEW ok \in BOOLEAN, Done(p, ok)
  PROVE  FirstLeft(proc[p], s) /\ Moves(proc[p], s, ok, proc'[p]) /\ proc'[p].inv = proc[p].inv
<1>1. p \in Procs /\ ProcOK(proc[p]) /\ proc[p].kind # "idle" /\ proc \in [Procs -> Processes]
  BY DEF TypeInv, Active
<1>2. FirstLeft(proc[p], s) /\ s \in proc[p].left
  BY <1>1 DEF ProcOK, FirstLeft
<1>3. proc'[p] = After(proc[p], s, ok)
  BY <1>1 DEF Done
<1>4. Moves(proc[p], s, ok, After(proc[p], s, ok)) /\ Ends(proc[p], s, After(proc[p], s, ok))
  BY <1>1, <1>2, AfterMoves, AfterIs
<1> QED
  BY <1>2, <1>3, <1>4 DEF Ends

LEMMA StepFailsDid ==
  ASSUME TypeInv, NEW p \in Procs, StepFails(p) \/ CannotDerive(p)
  PROVE  StepDid(p)
<1>1. p \in Active /\ proc[p].at # "" /\ Done(p, FALSE) /\ UNCHANGED <<raw, wh, artifact, site>>
  BY DEF StepFails, CannotDerive, At
<1>2. Did(proc[p], proc[p].at, FALSE, proc'[p])
  BY <1>1, DoneMoves DEF Did
<1> QED
  BY <1>2 DEF StepDid

LEMMA LoadDid ==
  ASSUME TypeInv, NEW p \in Procs, Load(p)
  PROVE  StepDid(p)
<1>1. p \in Active /\ proc[p].at # "" /\ Done(p, TRUE) /\ UNCHANGED <<wh, artifact, site>>
  BY DEF Load, At
<1>2. proc[p].at \in {"ingest_retail", "ingest_by_year", "ingest_public_indicators", "snapshot_expiry"}
  BY DEF Load, At
<1>3. proc[p].at # "ingest_by_year" => raw'.wdi = raw.wdi
  BY DEF Load, At, TypeInv
<1>4. DidWell(proc[p].at, proc'[p])
  BY <1>1, <1>2 DEF DidWell
<1>5. Did(proc[p], proc[p].at, TRUE, proc'[p])
  BY <1>1, <1>2, <1>3, <1>4, DoneMoves DEF Did
<1> QED
  BY <1>5 DEF StepDid

LEMMA UnitTestDid ==
  ASSUME TypeInv, NEW p \in Procs, DbtUnitTest(p)
  PROVE  StepDid(p)
<1>1. p \in Active /\ proc[p].at = "dbt_unit_test" /\ Done(p, TRUE) /\ UNCHANGED <<raw, wh, site>>
  BY DEF DbtUnitTest, At
<1>2. "dbt_unit_test" \notin DOMAIN Turn
  BY TurnsAre
<1>3. DidWell(proc[p].at, proc'[p])
  BY <1>1 DEF DidWell
<1>4. Did(proc[p], proc[p].at, TRUE, proc'[p])
  BY <1>1, <1>2, <1>3, DoneMoves DEF Did
<1> QED
  BY <1>4 DEF StepDid

LEMMA DbtDiesDid ==
  ASSUME TypeInv, NEW p \in Procs, DbtDies(p)
  PROVE  StepDid(p)
<1>1. p \in Active /\ proc[p].at = "dbt_models" /\ Done(p, FALSE) /\ UNCHANGED <<raw, artifact, site>>
  BY DbtDiesIs
<1>2. "dbt_models" \in Path
  BY DEF Path
<1>3. Did(proc[p], proc[p].at, FALSE, proc'[p])
  BY <1>1, <1>2, DoneMoves DEF Did
<1> QED
  BY <1>3 DEF StepDid

LEMMA DbtModelsDid ==
  ASSUME TypeInv, NEW p \in Procs, DbtModels(p)
  PROVE  StepDid(p)
<1>1. p \in Active /\ proc[p].at = "dbt_models" /\ UNCHANGED <<raw, site>>
  BY BuildIs
<1>2. PICK built \in SUBSET {"mart", "dim"}, failing \in SUBSET code, ok \in BOOLEAN :
        BuildDid(p, built, failing, ok)
  BY BuildIs
<1>3. p \in Procs /\ ProcOK(proc[p]) /\ proc[p].kind # "idle" /\ proc \in [Procs -> Processes]
  BY <1>1 DEF TypeInv, Active
<1>4. PICK r, s, q, n : r = proc[p] /\ s = "dbt_models" /\ q = After(proc[p], "dbt_models", ok) /\ n = Len(ran) + 1
  OBVIOUS
<1>5. FirstLeft(r, s) /\ s \in r.left
  BY <1>1, <1>3, <1>4 DEF ProcOK, FirstLeft
<1>6. Moves(r, s, ok, q) /\ ProcOK(q)
  <2>1. Moves(r, s, ok, After(r, s, ok)) /\ Ends(r, s, After(r, s, ok))
    BY <1>3, <1>4, <1>5, AfterMoves, AfterIs
  <2> QED
    BY <1>4, <2>1 DEF Ends
<1>7. proc'[p] = [q EXCEPT !.inv = n]
  BY <1>2, <1>3, <1>4 DEF BuildDid
<1>8. /\ proc'[p].kind = q.kind /\ proc'[p].steps = q.steps /\ proc'[p].left = q.left /\ proc'[p].lost = q.lost
      /\ proc'[p].alone = q.alone /\ proc'[p].inv = n
  BY <1>6, <1>7 DEF ProcOK, Processes
<1>9. Moves(r, s, ok, proc'[p])
  BY <1>6, <1>8 DEF Moves
<1>10. n # 0
  BY <1>4 DEF TypeInv
<1>11. ok => DidWell(s, proc'[p])
  <2> SUFFICES ASSUME ok PROVE DidWell(s, proc'[p])
    OBVIOUS
  <2>1. artifact' = n /\ wh'.mart = [inv |-> n, data |-> raw.wdi] /\ wh'.dim = [inv |-> n, data |-> raw.book]
    BY <1>2, <1>4 DEF BuildDid
  <2>2. wh'.mart.inv = n /\ wh'.mart.data = raw.wdi /\ wh'.dim.inv = n
    BY <2>1
  <2>3. raw.wdi # 0
    BY <1>2 DEF BuildDid, Source
  <2> QED
    BY <1>1, <1>4, <1>8, <1>10, <2>1, <2>2, <2>3 DEF DidWell
<1>12. Did(r, s, ok, proc'[p])
  BY <1>1, <1>4, <1>5, <1>9, <1>11 DEF Did, Path
<1> QED
  BY <1>1, <1>4, <1>12 DEF StepDid

LEMMA DeriveDid ==
  ASSUME TypeInv, NEW p \in Procs, Derive(p)
  PROVE  StepDid(p)
<1>1. /\ p \in Active /\ proc[p].at \in {"co2_intensity", "retail_rfm"} /\ Done(p, TRUE)
      /\ UNCHANGED <<raw, artifact, site>>
  BY DEF Derive, At
<1>2. Tables
  BY DEF TypeInv
<1>3. CASE proc[p].at = "co2_intensity"
  <2>1. PICK made : wh' = [wh EXCEPT !.co2 = made] /\ made.of = wh.mart.inv
    <3>1. PICK made : made = [of |-> wh.mart.inv, data |-> wh.mart.data, rows |-> Ranks[wh.mart.data]]
      OBVIOUS
    <3>2. wh' = [wh EXCEPT !.co2 = made]
      BY <1>3, <3>1 DEF Derive, At
    <3>3. made.of = wh.mart.inv
      BY <3>1
    <3> QED
      BY <3>2, <3>3
  <2>2. wh'.co2.of = wh.mart.inv /\ wh'.mart = wh.mart /\ wh'.dim = wh.dim
    BY <1>2, <2>1 DEF Tables
  <2> QED
    BY <1>1, <1>3, <2>2, DoneMoves DEF StepDid, Did, DidWell, Path
<1>4. CASE proc[p].at = "retail_rfm"
  <2>1. PICK made : wh' = [wh EXCEPT !.rfm = made] /\ made.of = wh.dim.inv
    <3>1. PICK made : made = [of |-> wh.dim.inv, data |-> wh.dim.data, rows |-> Scores[wh.dim.data]]
      OBVIOUS
    <3>2. wh' = [wh EXCEPT !.rfm = made]
      BY <1>4, <3>1 DEF Derive, At
    <3>3. made.of = wh.dim.inv
      BY <3>1
    <3> QED
      BY <3>2, <3>3
  <2>2. wh'.rfm.of = wh.dim.inv /\ wh'.mart = wh.mart /\ wh'.dim = wh.dim /\ wh'.co2 = wh.co2
    BY <1>2, <2>1 DEF Tables
  <2> QED
    BY <1>1, <1>4, <2>2, DoneMoves DEF StepDid, Did, DidWell, Path
<1> QED
  BY <1>1, <1>3, <1>4

LEMMA PipelineStatusDid ==
  ASSUME TypeInv, NEW p \in Procs, PipelineStatus(p)
  PROVE  StepDid(p)
<1>1. /\ p \in Active /\ proc[p].at = "pipeline_status" /\ UNCHANGED <<raw, artifact, site>>
      /\ wh'.mart = wh.mart /\ wh'.dim = wh.dim /\ wh'.co2 = wh.co2 /\ wh'.rfm = wh.rfm
  BY StatusIs
<1>2. PICK ok \in BOOLEAN : Done(p, ok) /\ wh'.history = IF ok THEN AppendFrame(wh.history, artifact) ELSE wh.history
  BY StatusIs
<1>3. ok /\ artifact # 0 => artifact \in Recorded(wh'.history)
  <2> SUFFICES ASSUME ok, artifact # 0, artifact \notin Recorded(wh.history) PROVE artifact \in Recorded(wh'.history)
    BY <1>2 DEF AppendFrame
  <2>1. PICK h, b : h = wh.history /\ b = [inv |-> artifact, rows |-> ran[artifact]]
    OBVIOUS
  <2>2. wh'.history = Append(h, b) /\ h \in Seq(Batches)
    BY <1>2, <2>1 DEF AppendFrame, TypeInv, Tables
  <2>3. Len(h) + 1 \in DOMAIN wh'.history /\ wh'.history[Len(h) + 1] = b
    BY <2>2
  <2>4. b.inv = artifact
    BY <2>1
  <2> QED
    BY <2>3, <2>4 DEF Recorded
<1>4. Extract(wh') = Extract(wh)
  BY <1>1 DEF Extract
<1>5. ok => DidWell("pipeline_status", proc'[p])
  BY <1>1, <1>3, <1>4 DEF DidWell
<1>6. Did(proc[p], proc[p].at, ok, proc'[p])
  BY <1>1, <1>2, <1>5, DoneMoves DEF Did, Path
<1> QED
  BY <1>6 DEF StepDid

LEMMA JudgeDid ==
  ASSUME TypeInv, NEW p \in Procs, Judge(p)
  PROVE  StepDid(p)
<1>1. p \in Active /\ proc[p].at \in DOMAIN Checks /\ UNCHANGED <<raw, wh, artifact, site>>
  BY DEF Judge
<1>2. PICK ok \in BOOLEAN : ok = (Passes(proc[p].at) \/ proc[p].at \notin Blocking)
  OBVIOUS
<1>3. Done(p, ok)
  BY <1>2 DEF Judge
<1>4. DOMAIN Checks = {"wdi_indicators_all_present", "weather_revisions_are_derivable", "mart_covers_recent_years",
        "fx_rates_reach_the_present", "co2_intensity_rank_is_dense", "rfm_scores_do_not_split_ties",
        "run_history_records_this_build", "site_pages_all_rendered"}
  BY DEF Checks
<1>5. ok => DidWell(proc[p].at, proc'[p])
  <2> SUFFICES ASSUME ok PROVE DidWell(proc[p].at, proc'[p])
    OBVIOUS
  <2>1. proc[p].at = "wdi_indicators_all_present" => AllPresent
    BY <1>2 DEF Passes, Blocking
  <2>2. proc[p].at = "co2_intensity_rank_is_dense" => DOMAIN wh.co2.rows # {}
    BY <1>2 DEF Passes, Blocking, RankIsDense
  <2> QED
    BY <1>1, <1>4, <2>1, <2>2 DEF DidWell
<1>6. proc[p].at # ""
  BY <1>1, <1>4
<1>7. Did(proc[p], proc[p].at, ok, proc'[p])
  BY <1>1, <1>3, <1>5, <1>6, DoneMoves DEF Did
<1> QED
  BY <1>7 DEF StepDid

LEMMA SiteStepsDid ==
  ASSUME TypeInv, SiteShape, NEW p \in Procs, SourcesStep(p) \/ Render(p) \/ DbtDocs(p) \/ PublishTo(p)
  PROVE  StepDid(p) /\ SiteShape'
<1>1. CASE SourcesStep(p)
  <2>1. PICK ok, parquet :
          /\ ok \in BOOLEAN /\ Done(p, ok) /\ site' = [site EXCEPT !.build = NoBuild, !.parquet = parquet] /\ (ok => parquet = Extract(wh))
    BY <1>1 DEF SourcesStep, Emptied, Extract
  <2>2. p \in Active /\ proc[p].at = "sources" /\ UNCHANGED <<raw, wh, artifact>>
    BY <1>1 DEF SourcesStep, At
  <2>3. PICK build : build = NoBuild
    OBVIOUS
  <2>4. build = [of |-> build.of, whole |-> build.whole, docs |-> build.docs] /\ build.of = {}
    BY <2>3 DEF NoBuild
  <2>5. SiteShape' /\ site'.parquet = parquet /\ site'.build.of = {}
    BY <2>1, <2>3, <2>4 DEF SiteShape
  <2>6. ok => DidWell("sources", proc'[p])
    BY <2>1, <2>2, <2>5 DEF DidWell
  <2>7. Did(proc[p], proc[p].at, ok, proc'[p])
    BY <2>1, <2>2, <2>6, DoneMoves DEF Did, Path
  <2> QED
    BY <2>1, <2>5, <2>7 DEF StepDid
<1>2. CASE Render(p)
  <2>1. PICK whole, ok \in BOOLEAN :
          /\ site' = [site EXCEPT !.build.of = site.build.of \cup {site.parquet}, !.build.whole = whole /\ ok]
          /\ Done(p, ok)
    BY <1>2, Zenon DEF Render
  <2>2. p \in Active /\ proc[p].at = "evidence_build" /\ UNCHANGED <<raw, wh, artifact>>
    BY <1>2 DEF Render, At
  <2>3. PICK build : build = site'.build
    OBVIOUS
  <2>4. /\ build = [of |-> build.of, whole |-> build.whole, docs |-> build.docs]
        /\ build.of = site.build.of \cup {site.parquet} /\ build.docs = site.build.docs
    BY <2>1, <2>3 DEF SiteShape
  <2>5. site' = [site EXCEPT !.build = build]
    BY <2>1, <2>3 DEF SiteShape
  <2>6. SiteShape' /\ site'.parquet = site.parquet /\ site'.build = build
    BY <2>4, <2>5 DEF SiteShape
  <2>7. ok => DidWell("evidence_build", proc'[p])
    BY <2>1, <2>2, <2>4, <2>6 DEF DidWell
  <2>8. Did(proc[p], proc[p].at, ok, proc'[p])
    BY <2>1, <2>2, <2>4, <2>6, <2>7, DoneMoves DEF Did, Path
  <2> QED
    BY <2>1, <2>6, <2>8 DEF StepDid
<1>3. CASE DbtDocs(p)
  <2>1. site' = [site EXCEPT !.build.docs = TRUE] /\ Done(p, TRUE)
    BY <1>3 DEF DbtDocs
  <2>2. p \in Active /\ proc[p].at = "dbt_docs" /\ UNCHANGED <<raw, wh, artifact>>
    BY <1>3 DEF DbtDocs, At, OfItsOwn
  <2>3. PICK build : build = [site.build EXCEPT !.docs = TRUE]
    OBVIOUS
  <2>4. /\ build = [of |-> build.of, whole |-> build.whole, docs |-> build.docs]
        /\ build.of = site.build.of /\ build.docs
    BY <2>3 DEF SiteShape
  <2>5. SiteShape' /\ site'.parquet = site.parquet /\ site'.build = build
    BY <2>1, <2>3, <2>4 DEF SiteShape
  <2>6. DidWell("dbt_docs", proc'[p])
    BY <2>2, <2>4, <2>5 DEF DidWell
  <2>7. Did(proc[p], proc[p].at, TRUE, proc'[p])
    BY <2>1, <2>2, <2>6, DoneMoves DEF Did, Path
  <2> QED
    BY <2>1, <2>5, <2>7 DEF StepDid
<1>4. CASE PublishTo(p)
  <2>1. PICK ok, served : ok \in BOOLEAN /\ Done(p, ok) /\ (site' = site \/ site' = [site EXCEPT !.served = served])
    BY <1>4 DEF PublishTo
  <2>2. p \in Active /\ proc[p].at = "publish_to" /\ UNCHANGED <<raw, wh, artifact>>
    BY <1>4 DEF PublishTo, At
  <2>3. SiteShape' /\ site'.build = site.build
    BY <2>1 DEF SiteShape
  <2>4. DidWell("publish_to", proc'[p])
    BY DEF DidWell
  <2>5. Did(proc[p], proc[p].at, ok, proc'[p])
    BY <2>1, <2>2, <2>3, <2>4, DoneMoves DEF Did, Path
  <2> QED
    BY <2>1, <2>3, <2>5 DEF StepDid
<1> QED
  BY <1>1, <1>2, <1>3, <1>4

\* Every step of a process but its first, the one that opens its files and its last.
LEMMA AdvanceDid ==
  ASSUME TypeInv, SiteShape, NEW p \in Procs, Advance(p), ~Begin(p), ~Finish(p)
  PROVE  StepDid(p) /\ SiteShape'
<1>1. ASSUME site' = site PROVE SiteShape'
  BY <1>1 DEF SiteShape
<1>2. CASE SourcesStep(p) \/ Render(p) \/ DbtDocs(p) \/ PublishTo(p)
  BY <1>2, SiteStepsDid
<1>3. CASE StepFails(p) \/ Load(p) \/ DbtModels(p) \/ DbtDies(p) \/ DbtUnitTest(p) \/ Derive(p) \/ CannotDerive(p)
           \/ PipelineStatus(p) \/ Judge(p)
  <2>1. site' = site
    BY <1>3 DEF StepFails, Load, DbtModels, DbtDies, DbtUnitTest, Derive, CannotDerive, PipelineStatus, Judge
  <2> QED
    BY <1>1, <1>3, <2>1, StepFailsDid, LoadDid, DbtModelsDid, DbtDiesDid, UnitTestDid, DeriveDid, PipelineStatusDid, JudgeDid
<1> QED
  BY <1>2, <1>3 DEF Advance

-----------------------------------------------------------------------------
(* What a run that no other ran beside has made. *)

\* The indicators a job loads are judged, unless its check is to come or lost.
LoadWasJudged(r) ==
  (r.kind # "recipe" /\ "wdi_indicators_all_present" \in ToSet(r.steps) \ (r.left \cup r.lost)) => AllPresent

Documented(r) == "publish_to" \in r.left /\ "dbt_docs" \notin r.left => site.build.docs

MadeSoFar(r) ==
  ("publish_to" \in r.left /\ r.kind # "recipe") =>
    /\ "dbt_models" \notin r.left =>
         r.inv # 0 /\ artifact = r.inv /\ wh.mart.inv = r.inv /\ wh.mart.data = raw.wdi /\ raw.wdi # 0 /\ wh.dim.inv = r.inv
    /\ "co2_intensity" \notin r.left => wh.co2.of = r.inv
    /\ "co2_intensity_rank_is_dense" \notin r.left => DOMAIN wh.co2.rows # {}
    /\ "retail_rfm" \notin r.left => wh.rfm.of = r.inv
    /\ "pipeline_status" \notin r.left => r.inv \in Recorded(wh.history)
    /\ "sources" \notin r.left => site.parquet = Extract(wh)
    /\ "sources" \notin r.left /\ "evidence_build" \in r.left => site.build.of = {}
    /\ "evidence_build" \notin r.left => site.build.of = {site.parquet}

\* At a step, those before it on the path are done, and those after it are left.
LEMMA OnThePath ==
  ASSUME NEW r, r.kind # "idle", Planned(r), "publish_to" \in r.left, NEW s, FirstLeft(r, s)
  PROVE  /\ s \in DOMAIN Turn
         /\ \A t \in Path : Turn[t] < Turn[s] => t \notin r.left
         /\ s \in Path => \A t \in Path : Turn[s] <= Turn[t] => t \in r.left
<1>1. ListOf(r) /\ PathIsLeft(r)
  BY DEF Planned
<1>2. PICK k \in Int, n \in Nat : Stretch(r.steps, k, n)
  BY <1>1, ListIsAStretch
<1>3. s \in DOMAIN Turn /\ s \in r.left /\ \A t \in r.left : Turn[s] <= Turn[t]
  BY <1>1, <1>2, FirstHasTheLeastTurn DEF ListOf
<1>4. \A t \in Path : t \in DOMAIN Turn /\ Turn[t] \in Int
  BY PathIsBefore, TurnsDiffer
<1>5. Turn[s] \in Int
  BY <1>3, TurnsDiffer
<1>6. \A t \in Path : Turn[t] < Turn[s] => t \notin r.left
  BY <1>3, <1>4, <1>5
<1> QED
  BY <1>1, <1>3, <1>6 DEF PathIsLeft

LEMMA LoadWasJudgedStep ==
  ASSUME NEW r, r.kind # "idle", Planned(r), LoadWasJudged(r), NEW s, NEW ok \in BOOLEAN, NEW q, Did(r, s, ok, q)
  PROVE  LoadWasJudged(q)'
<1> SUFFICES ASSUME q.kind # "recipe", "wdi_indicators_all_present" \in ToSet(q.steps) \ (q.left \cup q.lost)
             PROVE  AllPresent'
  BY DEF LoadWasJudged
<1>1. FirstLeft(r, s) /\ Moves(r, s, ok, q) /\ (s # "ingest_by_year" => raw'.wdi = raw.wdi) /\ (ok => DidWell(s, q))
  BY DEF Did
<1>2. r.kind # "recipe" /\ "wdi_indicators_all_present" \in ToSet(r.steps) /\ s \in r.left
  BY <1>1 DEF Moves, FirstLeft
<1>3. CASE "wdi_indicators_all_present" \in r.left \cup r.lost
  <2>1. ok /\ s = "wdi_indicators_all_present"
    BY <1>1, <1>3 DEF Moves
  <2>2. AllPresent /\ raw' = raw
    BY <1>1, <2>1 DEF DidWell
  <2> QED
    BY <2>2 DEF AllPresent
<1>4. CASE "wdi_indicators_all_present" \notin r.left \cup r.lost
  <2>1. AllPresent
    BY <1>2, <1>4 DEF LoadWasJudged
  <2>2. s # "ingest_by_year"
    BY <1>2, <1>4 DEF Planned, LoadIsJudged
  <2> QED
    BY <1>1, <2>1, <2>2 DEF AllPresent
<1> QED
  BY <1>3, <1>4

LEMMA DocumentedStep ==
  ASSUME NEW r, r.kind # "idle", Planned(r), Documented(r), NEW s, NEW ok \in BOOLEAN, NEW q, Did(r, s, ok, q)
  PROVE  Documented(q)'
<1> SUFFICES ASSUME "publish_to" \in q.left, "dbt_docs" \notin q.left
             PROVE  site'.build.docs
  BY DEF Documented
<1>1. /\ FirstLeft(r, s) /\ Moves(r, s, ok, q) /\ (s \notin {"sources", "dbt_docs"} => site'.build.docs = site.build.docs)
      /\ (ok => DidWell(s, q))
  BY DEF Did
<1>2. "publish_to" \in r.left
  BY <1>1 DEF Moves
<1>3. CASE ok /\ s = "dbt_docs"
  BY <1>1, <1>3 DEF DidWell
<1>4. CASE ~(ok /\ s = "dbt_docs")
  <2>1. "dbt_docs" \notin r.left /\ s # "dbt_docs"
    BY <1>1, <1>4 DEF Moves, Path, FirstLeft
  <2>2. s # "sources"
    <3>1. "dbt_docs" \in Path /\ "sources" \in Path /\ Turn["sources"] <= Turn["dbt_docs"]
      BY TurnsAre DEF Path
    <3> QED
      BY <1>1, <1>2, <2>1, <3>1, OnThePath
  <2> QED
    BY <1>1, <1>2, <2>1, <2>2 DEF Documented
<1> QED
  BY <1>3, <1>4

LEMMA MadeStep ==
  ASSUME NEW r, r.kind # "idle", Planned(r), MadeSoFar(r), NEW s, NEW ok \in BOOLEAN, NEW q, Did(r, s, ok, q)
  PROVE  MadeSoFar(q)'
<1> SUFFICES ASSUME "publish_to" \in q.left, q.kind # "recipe"
             PROVE  MadeSoFar(q)'
  BY DEF MadeSoFar
<1>1. FirstLeft(r, s) /\ Moves(r, s, ok, q)
  BY DEF Did
<1>2. "publish_to" \in r.left /\ r.kind # "recipe"
  BY <1>1 DEF Moves
<1>3. /\ s \in DOMAIN Turn /\ \A t \in Path : Turn[t] < Turn[s] => t \notin r.left
      /\ s \in Path => \A t \in Path : Turn[s] <= Turn[t] => t \in r.left
  BY <1>1, <1>2, OnThePath
<1>4. CASE s \notin Path
  <2>1. \A t \in Path : t \in q.left <=> t \in r.left
    BY <1>1, <1>4 DEF Moves
  <2>2. UNCHANGED <<wh, artifact, site>> /\ raw'.wdi = raw.wdi /\ q.inv = r.inv
    BY <1>3, <1>4 DEF Did, Path
  <2> QED
    BY <1>2, <2>1, <2>2 DEF MadeSoFar, Path, Recorded
<1>5. CASE s \in Path
  <2>1. ok /\ q.left = r.left \ {s} /\ DidWell(s, q)
    BY <1>1, <1>5 DEF Moves, Did
  <2>2. s # "publish_to"
    BY <2>1
  <2>3. s # "ingest_by_year" => raw'.wdi = raw.wdi
    BY DEF Did
  <2>4. s # "dbt_models" => q.inv = r.inv
    BY DEF Did
  <2>5. \A t \in Path : t \in q.left <=> Turn[s] < Turn[t]
    <3>1. \A t \in Path : t \in DOMAIN Turn /\ Turn[t] \in Int
      BY PathIsBefore, TurnsDiffer
    <3>2. \A t \in Path : Turn[t] = Turn[s] => t = s
      BY <1>5, <3>1, TurnsDiffer
    <3> QED
      BY <1>3, <1>5, <2>1, <3>1, <3>2
  <2>6. CASE s \in {"ingest_by_year", "wdi_indicators_all_present"}
    <3>1. /\ "dbt_models" \in q.left /\ "co2_intensity" \in q.left /\ "co2_intensity_rank_is_dense" \in q.left
          /\ "retail_rfm" \in q.left /\ "pipeline_status" \in q.left /\ "sources" \in q.left /\ "evidence_build" \in q.left
      BY <2>5, <2>6, TurnsAre DEF Path
    <3> QED
      BY <3>1 DEF MadeSoFar
  <2>7. CASE s = "dbt_models"
    <3>1. /\ "co2_intensity" \in q.left /\ "co2_intensity_rank_is_dense" \in q.left
          /\ "retail_rfm" \in q.left /\ "pipeline_status" \in q.left /\ "sources" \in q.left /\ "evidence_build" \in q.left
      BY <2>5, <2>7, TurnsAre DEF Path
    <3>2. q.inv # 0 /\ artifact' = q.inv /\ wh'.mart.inv = q.inv /\ wh'.mart.data = raw'.wdi /\ raw'.wdi # 0 /\ wh'.dim.inv = q.inv
      BY <2>1, <2>7 DEF DidWell
    <3> QED
      BY <3>1, <3>2 DEF MadeSoFar
  <2>8. CASE s = "co2_intensity"
    <3>1. /\ "co2_intensity_rank_is_dense" \in q.left /\ "retail_rfm" \in q.left /\ "pipeline_status" \in q.left
          /\ "sources" \in q.left /\ "evidence_build" \in q.left
      BY <2>5, <2>8, TurnsAre DEF Path
    <3>2. "dbt_models" \notin r.left
      BY <1>3, <2>8, TurnsAre DEF Path
    <3>3. r.inv # 0 /\ artifact = r.inv /\ wh.mart.inv = r.inv /\ wh.mart.data = raw.wdi /\ raw.wdi # 0 /\ wh.dim.inv = r.inv
      BY <1>2, <3>2 DEF MadeSoFar
    <3>4. /\ wh'.co2.of = wh.mart.inv /\ wh'.mart = wh.mart /\ wh'.dim = wh.dim /\ raw' = raw /\ artifact' = artifact
      BY <2>1, <2>8 DEF DidWell
    <3> QED
      BY <2>4, <2>8, <3>1, <3>3, <3>4 DEF MadeSoFar
  <2>9. CASE s = "co2_intensity_rank_is_dense"
    <3>1. /\ "retail_rfm" \in q.left /\ "pipeline_status" \in q.left /\ "sources" \in q.left /\ "evidence_build" \in q.left
      BY <2>5, <2>9, TurnsAre DEF Path
    <3>2. "dbt_models" \notin r.left /\ "co2_intensity" \notin r.left
      BY <1>3, <2>9, TurnsAre DEF Path
    <3>3. /\ r.inv # 0 /\ artifact = r.inv /\ wh.mart.inv = r.inv /\ wh.mart.data = raw.wdi /\ raw.wdi # 0 /\ wh.dim.inv = r.inv
          /\ wh.co2.of = r.inv
      BY <1>2, <3>2 DEF MadeSoFar
    <3>4. DOMAIN wh.co2.rows # {} /\ raw' = raw /\ wh' = wh /\ artifact' = artifact
      BY <2>1, <2>9 DEF DidWell
    <3> QED
      BY <2>4, <2>9, <3>1, <3>3, <3>4 DEF MadeSoFar
  <2>10. CASE s = "retail_rfm"
    <3>1. /\ "pipeline_status" \in q.left /\ "sources" \in q.left /\ "evidence_build" \in q.left
      BY <2>5, <2>10, TurnsAre DEF Path
    <3>2. "dbt_models" \notin r.left /\ "co2_intensity" \notin r.left /\ "co2_intensity_rank_is_dense" \notin r.left
      BY <1>3, <2>10, TurnsAre DEF Path
    <3>3. /\ r.inv # 0 /\ artifact = r.inv /\ wh.mart.inv = r.inv /\ wh.mart.data = raw.wdi /\ raw.wdi # 0 /\ wh.dim.inv = r.inv
          /\ wh.co2.of = r.inv /\ DOMAIN wh.co2.rows # {}
      BY <1>2, <3>2 DEF MadeSoFar
    <3>4. /\ wh'.rfm.of = wh.dim.inv /\ wh'.mart = wh.mart /\ wh'.dim = wh.dim /\ wh'.co2 = wh.co2
          /\ raw' = raw /\ artifact' = artifact
      BY <2>1, <2>10 DEF DidWell
    <3> QED
      BY <2>4, <2>10, <3>1, <3>3, <3>4 DEF MadeSoFar
  <2>11. CASE s = "pipeline_status"
    <3>1. /\ "sources" \in q.left /\ "evidence_build" \in q.left
      BY <2>5, <2>11, TurnsAre DEF Path
    <3>2. /\ "dbt_models" \notin r.left /\ "co2_intensity" \notin r.left /\ "co2_intensity_rank_is_dense" \notin r.left
          /\ "retail_rfm" \notin r.left
      BY <1>3, <2>11, TurnsAre DEF Path
    <3>3. /\ r.inv # 0 /\ artifact = r.inv /\ wh.mart.inv = r.inv /\ wh.mart.data = raw.wdi /\ raw.wdi # 0 /\ wh.dim.inv = r.inv
          /\ wh.co2.of = r.inv /\ DOMAIN wh.co2.rows # {} /\ wh.rfm.of = r.inv
      BY <1>2, <3>2 DEF MadeSoFar
    <3>4. /\ artifact # 0 => artifact \in Recorded(wh'.history)
          /\ Extract(wh') = Extract(wh) /\ raw' = raw /\ artifact' = artifact
      BY <2>1, <2>11 DEF DidWell
    <3>5. wh'.mart = wh.mart /\ wh'.dim = wh.dim /\ wh'.co2 = wh.co2 /\ wh'.rfm = wh.rfm
      BY <3>4 DEF Extract
    <3>6. r.inv \in Recorded(wh'.history)
      BY <3>3, <3>4
    <3> QED
      BY <2>4, <2>11, <3>1, <3>3, <3>4, <3>5, <3>6 DEF MadeSoFar
  <2>12. CASE s \in {"sources", "evidence_build", "dbt_docs"}
    <3>1. /\ "dbt_models" \notin r.left /\ "co2_intensity" \notin r.left /\ "co2_intensity_rank_is_dense" \notin r.left
          /\ "retail_rfm" \notin r.left /\ "pipeline_status" \notin r.left
      BY <1>3, <2>12, TurnsAre DEF Path
    <3>2. /\ r.inv # 0 /\ artifact = r.inv /\ wh.mart.inv = r.inv /\ wh.mart.data = raw.wdi /\ raw.wdi # 0 /\ wh.dim.inv = r.inv
          /\ wh.co2.of = r.inv /\ DOMAIN wh.co2.rows # {} /\ wh.rfm.of = r.inv /\ r.inv \in Recorded(wh.history)
      BY <1>2, <3>1 DEF MadeSoFar
    <3>3. raw' = raw /\ wh' = wh /\ artifact' = artifact /\ q.inv = r.inv
      BY <2>1, <2>4, <2>12 DEF DidWell
    <3>4. CASE s = "sources"
      <4>1. "evidence_build" \in q.left
        BY <2>5, <3>4, TurnsAre DEF Path
      <4>2. site'.parquet = Extract(wh) /\ site'.build.of = {}
        BY <2>1, <3>4 DEF DidWell
      <4> QED
        BY <3>2, <3>3, <4>1, <4>2 DEF MadeSoFar
    <3>5. CASE s = "evidence_build"
      <4>1. "evidence_build" \notin q.left /\ "sources" \notin r.left /\ "evidence_build" \in r.left
        BY <1>3, <2>5, <3>5, TurnsAre DEF Path
      <4>2. site.parquet = Extract(wh) /\ site.build.of = {}
        BY <1>2, <4>1 DEF MadeSoFar
      <4>3. site'.parquet = site.parquet /\ site'.build.of = site.build.of \cup {site.parquet}
        BY <2>1, <3>5 DEF DidWell
      <4> QED
        BY <3>2, <3>3, <4>1, <4>2, <4>3 DEF MadeSoFar
    <3>6. CASE s = "dbt_docs"
      <4>1. "evidence_build" \notin q.left /\ "sources" \notin r.left /\ "evidence_build" \notin r.left
        BY <1>3, <2>5, <3>6, TurnsAre DEF Path
      <4>2. site.parquet = Extract(wh) /\ site.build.of = {site.parquet}
        BY <1>2, <4>1 DEF MadeSoFar
      <4>3. site'.parquet = site.parquet /\ site'.build.of = site.build.of
        BY <2>1, <3>6 DEF DidWell
      <4> QED
        BY <3>2, <3>3, <4>1, <4>2, <4>3 DEF MadeSoFar
    <3> QED
      BY <2>12, <3>4, <3>5, <3>6
  <2> QED
    BY <1>5, <2>2, <2>6, <2>7, <2>8, <2>9, <2>10, <2>11, <2>12 DEF Path
<1> QED
  BY <1>4, <1>5

Told(r) == LoadWasJudged(r) /\ Documented(r) /\ MadeSoFar(r)

OnlyAlone(p) == Active = {p} /\ Told(proc[p])

ServedInv ==
  /\ \A p \in Procs : Planned(proc[p])
  /\ \A p \in Active : proc[p].alone => OnlyAlone(p)
  /\ queue \in Seq({Jobs[j] : j \in Submitted})
  /\ cached.wdi # 0 => ~Loads[cached.wdi].missing
  /\ SiteShape

\* A list that is started holds all that comes before its publication, and judges what it
\* loads.
LEMMA ListsAreWhole ==
  ASSUME NEW r, ListOf(r), r.kind # "recipe"
  PROVE  /\ "publish_to" \in ToSet(r.steps) =>
              {"dbt_models", "co2_intensity", "co2_intensity_rank_is_dense", "retail_rfm", "pipeline_status",
               "sources", "evidence_build", "dbt_docs"} \subseteq ToSet(r.steps)
         /\ "ingest_by_year" \in ToSet(r.steps) => "wdi_indicators_all_present" \in ToSet(r.steps)
<1>1. PICK j \in DOMAIN Jobs : r.steps = Jobs[j]
  BY DEF ListOf
<1>2. PICK k \in {0 - 1, 0, 5}, n \in {1, 14, 19} :
        /\ Stretch(r.steps, k, n)
        /\ (k = 0 - 1 /\ n = 1) \/ (k = 0 /\ n = 14) \/ (k = 0 /\ n = 19) \/ (k = 5 /\ n = 14)
        /\ k = 5 => r.steps = Jobs["publish_site_from_raw"]
  BY <1>1, JobsAreStretches
<1>3. k \in Int /\ n \in Nat
  OBVIOUS
<1>4. /\ \A t \in ToSet(r.steps) : Turn[t] \in k + 1 .. k + n
      /\ \A t \in DOMAIN Turn : Turn[t] \in k + 1 .. k + n => t \in ToSet(r.steps)
  BY <1>2, <1>3, StretchHolds
<1>5. "publish_to" \in ToSet(r.steps) => \A t \in DOMAIN Turn : Turn[t] \in 6 .. 18 => t \in ToSet(r.steps)
  <2> SUFFICES ASSUME "publish_to" \in ToSet(r.steps), NEW t \in DOMAIN Turn, Turn[t] \in 6 .. 18
               PROVE  Turn[t] \in k + 1 .. k + n
    BY <1>4
  <2>1. 18 \in k + 1 .. k + n
    BY <1>4, TurnsAre
  <2> QED
    BY <1>2, <2>1
<1>6. "ingest_by_year" \in ToSet(r.steps) => "wdi_indicators_all_present" \in ToSet(r.steps)
  <2> SUFFICES ASSUME "ingest_by_year" \in ToSet(r.steps)
               PROVE  Turn["wdi_indicators_all_present"] \in k + 1 .. k + n
    BY <1>4, TurnsAre
  <2>1. 2 \in k + 1 .. k + n
    BY <1>4, TurnsAre
  <2>2. 3 \in k + 1 .. k + n
    BY <1>2, <2>1
  <2> QED
    BY <2>2, TurnsAre
<1> QED
  BY <1>5, <1>6, TurnsAre

LEMMA FreshIsTold ==
  ASSUME NEW r, r.kind # "idle", r.left = ToSet(r.steps), r.lost = {}, ListOf(r)
  PROVE  Told(r)
<1>1. LoadWasJudged(r)
  BY DEF LoadWasJudged
<1>2. "publish_to" \in r.left => "dbt_docs" \in r.left
  <2>1. CASE r.kind # "recipe"
    <3>1. PICK steps : steps = ToSet(r.steps)
      OBVIOUS
    <3>2. "publish_to" \in steps => "dbt_docs" \in steps
      BY <2>1, <3>1, ListsAreWhole
    <3> QED
      BY <3>1, <3>2
  <2>2. CASE r.kind = "recipe"
    <3>1. PICK k \in Int, n \in Nat : k = 14 /\ n = 4 /\ Stretch(SiteSteps, k, n)
      BY ListsAreStretches
    <3>2. PICK t, list : t = "dbt_docs" /\ list = SiteSteps
      OBVIOUS
    <3>3. t \in DOMAIN Turn /\ Turn[t] \in k + 1 .. k + n /\ Stretch(list, k, n)
      BY <3>1, <3>2, TurnsAre
    <3>4. t \in ToSet(list)
      BY <3>3, StretchHolds
    <3> QED
      BY <2>2, <3>2, <3>4, RecipesAre DEF ListOf
  <2> QED
    BY <2>1, <2>2
<1>3. Documented(r)
  BY <1>2 DEF Documented
<1>4. MadeSoFar(r)
  BY ListsAreWhole DEF MadeSoFar
<1> QED
  BY <1>1, <1>3, <1>4 DEF Told

\* What a process tells of depends on these only.
LEMMA ToldStays ==
  ASSUME NEW r, NEW q, Told(r), q.kind = r.kind, q.steps = r.steps, q.left = r.left, q.lost = r.lost, q.inv = r.inv,
         UNCHANGED <<raw, wh, artifact, site>>
  PROVE  Told(q)'
BY DEF Told, LoadWasJudged, AllPresent, Documented, MadeSoFar, Recorded

LEMMA ToldStep ==
  ASSUME NEW r, r.kind # "idle", Planned(r), Told(r), NEW s, NEW ok \in BOOLEAN, NEW q, Did(r, s, ok, q)
  PROVE  Told(q)'
<1>1. LoadWasJudged(r) /\ Documented(r) /\ MadeSoFar(r)
  BY DEF Told
<1>2. LoadWasJudged(q)'
  BY <1>1, LoadWasJudgedStep
<1>3. Documented(q)'
  BY <1>1, DocumentedStep
<1>4. MadeSoFar(q)'
  BY <1>1, MadeStep
<1> QED
  BY <1>2, <1>3, <1>4 DEF Told

LEMMA StartKeepsServed ==
  ASSUME TypeInv, ServedInv, NEW p \in Procs, proc[p] = Idle, NEW kind \in Kinds, kind # "idle", NEW steps \in StepLists,
         proc' = Started(p, kind, steps), UNCHANGED <<raw, cached, wh, artifact, site>>,
         kind = "recipe" => \E c \in DOMAIN Recipes : steps = Recipes[c],
         kind # "recipe" => \E j \in DOMAIN Jobs : steps = Jobs[j]
  PROVE  /\ \A q \in Procs : Planned(proc'[q])
         /\ \A q \in Active' : proc'[q].alone => OnlyAlone(q)'
<1>1. PICK first \in BOOLEAN : first = (Active = {})
  OBVIOUS
<1>2. PICK r : r = Fresh(kind, steps, first)
  OBVIOUS
<1>3. /\ r.kind = kind /\ r.steps = steps /\ r.left = ToSet(steps) /\ r.lost = {} /\ r.alone = first
  BY <1>2 DEF Fresh
<1>4. proc'[p] = r
  <2>1. proc'[p] = [Idle EXCEPT !.kind = kind, !.steps = steps, !.left = ToSet(steps), !.alone = first]
    BY <1>1 DEF Started
  <2> QED
    BY <1>2, <2>1 DEF Idle, Fresh
<1>5. ListOf(r)
  BY <1>3 DEF ListOf
<1>6. Planned(r) /\ Told(r)
  BY <1>3, <1>5, FreshIsPlanned, FreshIsTold
<1>7. ASSUME NEW q \in Procs, q # p
      PROVE  /\ proc[q].kind = "idle" => proc'[q] = proc[q]
             /\ proc[q].kind # "idle" => proc'[q] = [proc[q] EXCEPT !.alone = FALSE]
  BY <1>7 DEF Started
<1>8. ASSUME NEW q \in Procs, q # p
      PROVE  /\ proc'[q].kind = proc[q].kind /\ proc'[q].steps = proc[q].steps /\ proc'[q].left = proc[q].left
             /\ proc'[q].lost = proc[q].lost /\ (proc[q].kind # "idle" => ~proc'[q].alone)
  <2>1. PICK x, y : x = proc[q] /\ y = proc'[q]
    OBVIOUS
  <2>2. x \in Processes
    BY <2>1 DEF TypeInv
  <2>3. x.kind # "idle" => y = [x EXCEPT !.alone = FALSE]
    BY <1>7, <1>8, <2>1
  <2>4. x.kind = "idle" => y = x
    BY <1>7, <1>8, <2>1
  <2>5. /\ y.kind = x.kind /\ y.steps = x.steps /\ y.left = x.left /\ y.lost = x.lost
        /\ x.kind # "idle" => y.alone = FALSE
    BY <2>2, <2>3, <2>4 DEF Processes
  <2> QED
    BY <2>1, <2>5
<1>9. ASSUME NEW q \in Procs PROVE Planned(proc'[q])
  <2>1. CASE q = p
    BY <1>4, <1>6, <2>1
  <2>2. CASE q # p
    <3>1. Planned(proc[q])
      BY DEF ServedInv
    <3> QED
      BY <1>8, <2>2, <3>1 DEF Planned, ListOf, PathIsLeft, LoadIsJudged
  <2> QED
    BY <2>1, <2>2
<1>10. ASSUME NEW q \in Active', proc'[q].alone PROVE OnlyAlone(q)'
  <2>1. q = p
    BY <1>8, <1>10 DEF Active
  <2>2. Active = {}
    BY <1>1, <1>3, <1>4, <1>10, <2>1
  <2>3. Active' = {p}
    <3>1. \A u \in Procs : proc'[u].kind # "idle" <=> u = p
      BY <1>3, <1>4, <1>8, <2>2 DEF Active
    <3> QED
      BY <3>1 DEF Active
  <2>4. Told(r)'
    BY <1>6, ToldStays
  <2> QED
    BY <1>4, <2>1, <2>3, <2>4 DEF OnlyAlone, Told, LoadWasJudged, AllPresent, Documented, MadeSoFar
<1> QED
  BY <1>9, <1>10

LEMMA BeginKeepsServed ==
  ASSUME TypeInv, ServedInv, NEW p \in Procs, Begin(p)
  PROVE  ServedInv'
<1>1. PICK s \in proc[p].left :
        /\ IsNext(p, s)
        /\ proc' = [proc EXCEPT ![p] = IF Busy(p, s) THEN [After(@, s, FALSE) EXCEPT !.denied = TRUE]
                                      ELSE [@ EXCEPT !.at = s]]
  BY DEF Begin
<1>2. /\ p \in Active /\ proc[p].kind # "idle" /\ ProcOK(proc[p]) /\ proc \in [Procs -> Processes] /\ Planned(proc[p])
      /\ UNCHANGED <<queue, raw, cached, wh, artifact, site>>
  BY DEF TypeInv, Begin, Active, ServedInv
<1>3. FirstLeft(proc[p], s) /\ proc[p] \in Processes
  BY <1>1, <1>2, NextIsFirst DEF ProcOK
<1>4. \A q \in Procs \ {p} : proc'[q] = proc[q]
  BY <1>1, <1>2
<1>5. CASE Busy(p, s)
  <2>1. PICK r, q : r = proc[p] /\ q = After(proc[p], s, FALSE)
    OBVIOUS
  <2>2. Moves(r, s, FALSE, q) /\ ProcOK(q)
    BY <1>1, <1>2, <2>1, AfterMoves, AfterIs DEF Ends
  <2>3. Planned(q)
    BY <1>2, <1>3, <2>1, <2>2, MoveIsPlanned
  <2>4. proc'[p] = [q EXCEPT !.denied = TRUE]
    BY <1>1, <1>2, <1>5, <2>1
  <2>5. /\ proc'[p].kind = q.kind /\ proc'[p].steps = q.steps /\ proc'[p].left = q.left /\ proc'[p].lost = q.lost
        /\ proc'[p].alone = proc[p].alone /\ q.kind = proc[p].kind
    BY <2>1, <2>2, <2>4 DEF ProcOK, Processes, Moves
  <2>6. \A u \in Procs : Planned(proc'[u])
    BY <1>4, <2>3, <2>5 DEF ServedInv, Planned, ListOf, PathIsLeft, LoadIsJudged
  <2>7. ASSUME NEW u \in Active', proc'[u].alone PROVE FALSE
    <3>1. u \in Active /\ proc[u].alone
      BY <1>2, <1>4, <2>5, <2>7 DEF Active
    <3>2. Active = {u} /\ u = p
      BY <1>2, <3>1 DEF ServedInv, OnlyAlone
    <3> QED
      BY <1>5, <3>2 DEF Busy
  <2> QED
    BY <1>2, <2>6, <2>7 DEF ServedInv, SiteShape
<1>6. CASE ~Busy(p, s)
  <2>1. proc'[p] = [proc[p] EXCEPT !.at = s]
    BY <1>1, <1>2, <1>6
  <2>2. \A u \in Procs : /\ proc'[u].kind = proc[u].kind /\ proc'[u].steps = proc[u].steps /\ proc'[u].left = proc[u].left
                         /\ proc'[u].lost = proc[u].lost /\ proc'[u].alone = proc[u].alone /\ proc'[u].inv = proc[u].inv
    <3>1. /\ proc'[p].kind = proc[p].kind /\ proc'[p].steps = proc[p].steps /\ proc'[p].left = proc[p].left
          /\ proc'[p].lost = proc[p].lost /\ proc'[p].alone = proc[p].alone /\ proc'[p].inv = proc[p].inv
      BY <1>3, <2>1 DEF Processes
    <3> QED
      BY <1>4, <3>1
  <2>3. Active' = Active
    BY <2>2 DEF Active
  <2>4. \A u \in Procs : Planned(proc'[u])
    BY <2>2 DEF ServedInv, Planned, ListOf, PathIsLeft, LoadIsJudged
  <2>5. ASSUME NEW u \in Active', proc'[u].alone PROVE OnlyAlone(u)'
    <3>1. u \in Active /\ u \in Procs /\ Active = {u} /\ Told(proc[u])
      BY <2>2, <2>3, <2>5 DEF ServedInv, OnlyAlone, Active
    <3>2. PICK r, q : r = proc[u] /\ q = proc'[u]
      OBVIOUS
    <3>3. Told(q)'
      BY <1>2, <2>2, <3>1, <3>2, ToldStays
    <3> QED
      BY <2>3, <3>1, <3>2, <3>3 DEF OnlyAlone, Told, LoadWasJudged, AllPresent, Documented, MadeSoFar
  <2> QED
    BY <1>2, <2>4, <2>5 DEF ServedInv, SiteShape
<1> QED
  BY <1>5, <1>6

LEMMA FinishKeepsServed ==
  ASSUME TypeInv, ServedInv, NEW p \in Procs, Finish(p)
  PROVE  ServedInv'
<1>1. /\ p \in Active /\ proc[p].left = {} /\ proc \in [Procs -> Processes] /\ Planned(proc[p]) /\ proc[p].kind # "idle"
      /\ UNCHANGED <<queue, raw, wh, artifact, site>>
  BY DEF TypeInv, Finish, Over, Active, ServedInv
<1>2. proc'[p].kind = "idle" /\ \A q \in Procs \ {p} : proc'[q] = proc[q]
  BY <1>1 DEF Finish, Idle
<1>3. \A q \in Procs : Planned(proc'[q])
  BY <1>2 DEF ServedInv, Planned
<1>4. ASSUME NEW q \in Active', proc'[q].alone PROVE FALSE
  <2>1. q # p
    BY <1>2, <1>4 DEF Active
  <2>2. q \in Active /\ proc[q].alone
    BY <1>2, <1>4, <2>1 DEF Active
  <2>3. Active = {q}
    BY <2>2 DEF ServedInv, OnlyAlone
  <2> QED
    BY <1>1, <2>1, <2>3
<1>5. cached'.wdi # 0 => ~Loads[cached'.wdi].missing
  <2>1. CASE ~Caches(p)
    BY <2>1 DEF Finish, ServedInv
  <2>2. CASE Caches(p)
    <3>1. PICK r : r = proc[p]
      OBVIOUS
    <3>2. r.lost = {} /\ r.left = {} /\ "ingest_by_year" \in ToSet(r.steps) /\ ListOf(r) /\ Told(r)
      BY <1>1, <2>2, <3>1 DEF Caches, ServedInv, OnlyAlone, Planned
    <3>3. r.kind # "recipe"
      BY <3>2, RecipesAre DEF ListOf
    <3>4. "wdi_indicators_all_present" \in ToSet(r.steps)
      BY <3>2, <3>3, ListsAreWhole
    <3>5. AllPresent
      BY <3>2, <3>3, <3>4 DEF Told, LoadWasJudged
    <3> QED
      BY <2>2, <3>5 DEF Finish, AllPresent
  <2> QED
    BY <2>1, <2>2
<1> QED
  BY <1>1, <1>3, <1>4, <1>5 DEF ServedInv, SiteShape

LEMMA AdvanceKeepsServed ==
  ASSUME TypeInv, ServedInv, NEW p \in Procs, Advance(p), ~Begin(p), ~Finish(p)
  PROVE  ServedInv'
<1>1. StepDid(p) /\ SiteShape'
  BY AdvanceDid DEF ServedInv
<1>2. PICK r, s, q : r = proc[p] /\ s = proc[p].at /\ q = proc'[p]
  OBVIOUS
<1>3. PICK ok \in BOOLEAN : Did(r, s, ok, q)
  BY <1>1, <1>2 DEF StepDid
<1>4. UNCHANGED <<queue, cached>>
  BY DEF Advance, StepFails, Load, DbtModels, DbtDies, DbtUnitTest, Derive, CannotDerive, PipelineStatus, Judge,
     SourcesStep, Render, DbtDocs, PublishTo
<1>5. \A u \in Procs \ {p} : proc'[u] = proc[u]
  BY AdvanceStays DEF Stays
<1>6. p \in Active
  BY DEF Advance, StepFails, Load, DbtModels, DbtDies, DbtUnitTest, Derive, CannotDerive, PipelineStatus, Judge,
     SourcesStep, Render, DbtDocs, PublishTo, At
<1>7. r.kind # "idle" /\ Planned(r) /\ FirstLeft(r, s) /\ Moves(r, s, ok, q)
  BY <1>2, <1>3, <1>6 DEF Active, ServedInv, Did
<1>8. q.kind = r.kind /\ q.alone = r.alone
  BY <1>7 DEF Moves
<1>9. Active' = Active
  BY <1>2, <1>5, <1>6, <1>8 DEF Active
<1>10. Planned(q)
  BY <1>7, MoveIsPlanned
<1>11. \A u \in Procs : Planned(proc'[u])
  BY <1>2, <1>5, <1>10 DEF ServedInv
<1>12. ASSUME NEW u \in Active', proc'[u].alone PROVE OnlyAlone(u)'
  <2>1. u \in Active /\ proc[u].alone
    BY <1>2, <1>5, <1>8, <1>9, <1>12 DEF Active
  <2>2. Active = {u} /\ u = p /\ Told(r)
    BY <1>2, <1>6, <2>1 DEF ServedInv, OnlyAlone
  <2>3. Told(q)'
    BY <1>3, <1>7, <2>2, ToldStep
  <2> QED
    BY <1>2, <1>9, <2>2, <2>3 DEF OnlyAlone, Told, LoadWasJudged, AllPresent, Documented, MadeSoFar
<1> QED
  BY <1>1, <1>4, <1>11, <1>12 DEF ServedInv

LEMMA ServedStep ==
  ASSUME TypeInv, ServedInv, [Next]_vars
  PROVE  ServedInv'
<1>1. ASSUME UNCHANGED <<proc, raw, cached, wh, artifact, site>>, queue' \in Seq({Jobs[j] : j \in Submitted})
      PROVE  ServedInv'
  <2>1. Active' = Active
    BY <1>1 DEF Active
  <2> QED
    BY <1>1, <2>1 DEF ServedInv, SiteShape, OnlyAlone, Told, LoadWasJudged, AllPresent, Documented, MadeSoFar, Recorded
<1>2. CASE UNCHANGED vars \/ Deploy
  BY <1>1, <1>2 DEF vars, Deploy, ServedInv
<1>3. CASE Submit
  <2>1. Submitted \subseteq DOMAIN Jobs
    BY RefreshAssumption, JobsAreStretches
  <2>2. PICK job \in Submitted : queue' = Append(queue, Jobs[job])
    BY <1>3 DEF Submit
  <2>3. PICK S : S = {Jobs[j] : j \in Submitted}
    OBVIOUS
  <2>4. Jobs[job] \in S /\ queue \in Seq(S)
    BY <2>3 DEF ServedInv
  <2>5. queue' \in Seq(S)
    BY <2>2, <2>4
  <2> QED
    BY <1>1, <1>3, <2>3, <2>5 DEF Submit
<1>4. ASSUME NEW p \in Procs, Dequeue(p) PROVE ServedInv'
  <2>1. PICK S : S = {Jobs[j] : j \in Submitted}
    OBVIOUS
  <2>2. queue \in Seq(S) /\ queue # <<>>
    BY <1>4, <2>1 DEF ServedInv, Dequeue
  <2>3. Head(queue) \in S /\ Tail(queue) \in Seq(S)
    BY <2>2
  <2>4. PICK j \in Submitted : Head(queue) = Jobs[j]
    BY <2>1, <2>3
  <2>5. j \in DOMAIN Jobs
    BY RefreshAssumption, JobsAreStretches
  <2>7. Jobs[j] \in StepLists
    BY <2>5 DEF StepLists
  <2>8. PICK kind \in Kinds, steps \in StepLists :
          kind = "queued" /\ steps = Jobs[j] /\ proc' = Started(p, kind, steps)
    BY <1>4, <2>4, <2>7 DEF Dequeue, Kinds
  <2>9. /\ \A q \in Procs : Planned(proc'[q])
        /\ \A q \in Active' : proc'[q].alone => OnlyAlone(q)'
    BY <1>4, <2>5, <2>8, StartKeepsServed DEF Dequeue, Free
  <2> QED
    BY <1>4, <2>1, <2>3, <2>9 DEF Dequeue, ServedInv, SiteShape
<1>5. ASSUME NEW p \in Procs, Type(p) PROVE ServedInv'
  <2>1. PICK kind \in Kinds, steps \in StepLists :
          /\ kind \in {"command", "recipe"} /\ proc' = Started(p, kind, steps)
          /\ kind = "recipe" => \E c \in DOMAIN Recipes : steps = Recipes[c]
          /\ kind # "recipe" => \E j \in DOMAIN Jobs : steps = Jobs[j]
    BY <1>5 DEF Type, StepLists, Kinds
  <2>3. /\ \A q \in Procs : Planned(proc'[q])
        /\ \A q \in Active' : proc'[q].alone => OnlyAlone(q)'
    BY <1>5, <2>1, StartKeepsServed DEF Type, Free
  <2> QED
    BY <1>5, <2>3 DEF Type, ServedInv, SiteShape
<1>6. ASSUME NEW p \in Procs, Advance(p) PROVE ServedInv'
  BY <1>6, BeginKeepsServed, FinishKeepsServed, AdvanceKeepsServed
<1> QED
  BY <1>2, <1>3, <1>4, <1>5, <1>6 DEF Next, Run

LEMMA ServedInit == Init => ServedInv
<1> SUFFICES ASSUME Init PROVE ServedInv
  OBVIOUS
<1>1. Idle.kind = "idle"
  BY DEF Idle
<1>2. Active = {} /\ \A p \in Procs : Planned(proc[p])
  BY <1>1 DEF Init, Active, Planned
<1>3. cached.wdi = 0
  BY DEF Init
<1>4. SiteShape
  <2>1. PICK build, parquet : build = NoBuild /\ parquet = Null
    OBVIOUS
  <2>2. build = [of |-> build.of, whole |-> build.whole, docs |-> build.docs]
    BY <2>1 DEF NoBuild
  <2>3. site = [parquet |-> parquet, build |-> build, served |-> build]
    BY <2>1 DEF Init
  <2> QED
    BY <2>2, <2>3 DEF SiteShape
<1>5. queue = <<>>
  BY DEF Init
<1> QED
  BY <1>2, <1>3, <1>4, <1>5 DEF ServedInv

LEMMA WhatIsServedWasMade ==
  ASSUME TypeInv, ServedInv
  PROVE  WhatIsPublishedWasJudged
<1> SUFFICES ASSUME NEW p \in Active, proc[p].kind # "recipe", proc[p].alone, proc[p].at = "publish_to"
             PROVE  /\ site.build.docs /\ Cardinality(site.build.of) = 1
                    /\ \A e \in site.build.of :
                         /\ {e.mart.inv, e.dim.inv, e.co2.of, e.rfm.of} = {proc[p].inv}
                         /\ proc[p].inv \in Recorded(wh.history) /\ DOMAIN e.co2.rows # {}
                         /\ ("wdi_indicators_all_present" \in ToSet(proc[p].steps) \/ raw = cached)
                              => ~Loads[e.mart.data].missing
  BY DEF WhatIsPublishedWasJudged
<1>1. PICK r : r = proc[p]
  OBVIOUS
<1>2. r.kind # "idle" /\ Planned(r) /\ Told(r) /\ FirstLeft(r, "publish_to") /\ r.kind # "recipe"
  BY <1>1 DEF Active, TypeInv, ProcOK, ServedInv, OnlyAlone
<1>3. "publish_to" \in r.left
  BY <1>2 DEF FirstLeft
<1>4. \A t \in Path : Turn[t] < Turn["publish_to"] => t \notin r.left
  BY <1>2, <1>3, OnThePath
<1>5. /\ "wdi_indicators_all_present" \notin r.left /\ "dbt_models" \notin r.left /\ "co2_intensity" \notin r.left
      /\ "co2_intensity_rank_is_dense" \notin r.left /\ "retail_rfm" \notin r.left /\ "pipeline_status" \notin r.left
      /\ "sources" \notin r.left /\ "evidence_build" \notin r.left /\ "dbt_docs" \notin r.left
  BY <1>4, TurnsAre DEF Path
<1>6. site.build.docs
  BY <1>2, <1>3, <1>5 DEF Told, Documented
<1>8. /\ wh.mart.inv = r.inv /\ wh.mart.data = raw.wdi /\ raw.wdi # 0 /\ wh.dim.inv = r.inv /\ wh.co2.of = r.inv
      /\ DOMAIN wh.co2.rows # {} /\ wh.rfm.of = r.inv /\ r.inv \in Recorded(wh.history)
      /\ site.build.of = {Extract(wh)}
  BY <1>2, <1>3, <1>5 DEF Told, MadeSoFar
<1>7. ASSUME "wdi_indicators_all_present" \in ToSet(r.steps) \/ raw = cached PROVE ~Loads[raw.wdi].missing
  <2>1. CASE "wdi_indicators_all_present" \in ToSet(r.steps)
    <3>1. "wdi_indicators_all_present" \notin r.lost
      BY <1>2, <1>3 DEF Planned, PathIsLeft
    <3> QED
      BY <1>2, <1>5, <2>1, <3>1 DEF Told, LoadWasJudged, AllPresent
  <2>2. CASE raw = cached
    BY <1>8, <2>2 DEF ServedInv
  <2> QED
    BY <1>7, <2>1, <2>2
<1>9. Cardinality(site.build.of) = 1
  BY <1>8, FS_Singleton
<1>10. ASSUME NEW e \in site.build.of
       PROVE  /\ {e.mart.inv, e.dim.inv, e.co2.of, e.rfm.of} = {r.inv} /\ DOMAIN e.co2.rows # {}
              /\ ("wdi_indicators_all_present" \in ToSet(r.steps) \/ raw = cached) => ~Loads[e.mart.data].missing
  <2>1. e = [mart |-> wh.mart, dim |-> wh.dim, co2 |-> wh.co2, rfm |-> wh.rfm]
    BY <1>8 DEF Extract
  <2>2. e.mart = wh.mart /\ e.dim = wh.dim /\ e.co2 = wh.co2 /\ e.rfm = wh.rfm
    BY <2>1
  <2> QED
    BY <1>7, <1>8, <2>2
<1> QED
  BY <1>1, <1>6, <1>8, <1>9, <1>10

LEMMA OnlyADocumentedBuildIsServed ==
  ASSUME TypeInv, ServedInv, [Next]_vars
  PROVE  ServedOutlivesAFailedBuild
<1> SUFFICES ASSUME site'.served # site.served
             PROVE  \E p \in Active : proc[p].at = "publish_to" /\ (proc[p].alone => site.build.docs)
  BY DEF ServedOutlivesAFailedBuild
<1>1. PICK p \in Procs : PublishTo(p)
  <2> SUFFICES ASSUME \A p \in Procs : ~PublishTo(p) PROVE site'.served = site.served
    OBVIOUS
  <2>1. CASE UNCHANGED vars \/ Submit \/ Deploy
    BY <2>1 DEF vars, Submit, Deploy
  <2>2. ASSUME NEW p \in Procs, Dequeue(p) \/ Type(p) PROVE site' = site
    BY <2>2 DEF Dequeue, Type
  <2>3. ASSUME NEW p \in Procs, Advance(p) PROVE site'.served = site.served
    <3>1. SiteShape
      BY DEF ServedInv
    <3>2. CASE SourcesStep(p) \/ Render(p) \/ DbtDocs(p)
      BY <3>1, <3>2 DEF SourcesStep, Render, DbtDocs, SiteShape
    <3>3. CASE ~(SourcesStep(p) \/ Render(p) \/ DbtDocs(p))
      BY <2>3, <3>3 DEF Advance, Begin, StepFails, Load, DbtModels, DbtDies, DbtUnitTest, Derive, CannotDerive,
         PipelineStatus, Judge, Finish
    <3> QED
      BY <3>2, <3>3
  <2> QED
    BY <2>1, <2>2, <2>3 DEF Next, Run
<1>2. p \in Active /\ proc[p].at = "publish_to"
  BY <1>1 DEF PublishTo, At
<1>3. ASSUME proc[p].alone PROVE site.build.docs
  <2>1. PICK r : r = proc[p]
    OBVIOUS
  <2>2. r.kind # "idle" /\ Planned(r) /\ Told(r) /\ FirstLeft(r, "publish_to")
    BY <1>2, <1>3, <2>1 DEF Active, TypeInv, ProcOK, ServedInv, OnlyAlone
  <2>3. "publish_to" \in r.left
    BY <2>2 DEF FirstLeft
  <2>4. "dbt_docs" \notin r.left
    BY <2>2, <2>3, OnThePath, TurnsAre DEF Path
  <2> QED
    BY <2>2, <2>3, <2>4 DEF Told, Documented
<1> QED
  BY <1>2, <1>3

\* For any jobs and recipes started and any failures, what a job that ran alone serves is
\* one documented extract of the tables its own build made, recorded in the history, with
\* no indicator missing when the job loaded them itself or built from the landing zone
\* live.yml cached, and nothing but a publication replaces what is served
\* (definitions.py, build_report.run).
THEOREM WhatIsServedWasJudged == Spec => ServedWasJudged
<1>1. TypeInv /\ ServedInv /\ [Next]_vars => ServedInv'
  BY ServedStep
<1>2. TypeInv /\ ServedInv => WhatIsPublishedWasJudged
  BY WhatIsServedWasMade
<1>3. TypeInv /\ ServedInv /\ WhatIsPublishedWasJudged' /\ [Next]_vars
        => [WhatIsPublishedWasJudged' /\ ServedOutlivesAFailedBuild]_vars
  BY OnlyADocumentedBuildIsServed
<1> QED
  BY <1>1, <1>2, <1>3, TypesHold, ServedInit, PTL DEF Spec, ServedWasJudged

=============================================================================
