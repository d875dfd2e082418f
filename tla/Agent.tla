-------------------------------- MODULE Agent --------------------------------
(***************************************************************************)
(* The analyst (agent/loop.py, tools.py, mcp_server.py): a question, a     *)
(* model that answers with tool calls or with text, the tools that open    *)
(* the warehouse for one call each, an MCP server beside the loop that     *)
(* runs the same tools, and builds that write the file in between.         *)
(***************************************************************************)
EXTENDS AgentTools

CONSTANTS
    MaxRounds,      \* MAX_ROUNDS
    Requests,       \* bound: the calls made of the MCP server, as [name, args]
    Asked,          \* bound: the calls the loop's model makes
    Beside,         \* bound: the requests made of the server while the loop runs
    MaxCalls,       \* bound: the calls a question leads to
    MaxBuilds,      \* bound: the builds
    Questions,      \* bound: the figures a question may hold
    Invented        \* a figure no tool prints

ASSUME AgentAssumption ==
    /\ MaxRounds \in Nat \ {0} /\ {MaxCalls, MaxBuilds} \subseteq Nat
    /\ Asked \cup Beside \subseteq Requests /\ 1 \in DOMAIN Editions
    /\ Null \notin Requests \cup [id : Seq({"call", "given"} \cup Nat), call : Requests]

VARIABLES
    wh,         \* the warehouse: its edition, whether a build holds it, the builds so far
    readers,    \* the open read-only connections, by who opened them
    at,         \* each caller's tool call: where it is, the call, the edition its bounds are of
    loop,       \* ask's locals
    server      \* the MCP server's request and its last reply

vars == <<wh, readers, at, loop, server>>

Callers == {"loop", "server"}

NoCall == [pc |-> "idle", call |-> Null, bounds |-> Null]

NotAsked == [pc |-> "idle", round |-> 0, question |-> Null, ids |-> FALSE, messages |-> <<>>, pending |-> <<>>,
             running |-> Null, outputs |-> <<>>, notes |-> <<>>, calls |-> <<>>, answer |-> Null]

Init ==
    /\ wh = [edition |-> 1, building |-> FALSE, builds |-> 0]
    /\ readers = {}
    /\ at = [a \in Callers |-> NoCall]
    /\ loop = NotAsked
    /\ server = [request |-> Null, reply |-> Null]

\* What every call returns, by the edition its bounds and its rows were read from.
Results ==
    [c \in DOMAIN Editions |-> [e \in DOMAIN Editions |->
        [call \in {r \in Requests : ~Unopened(r)} |-> ResultOf(c, e, call)]]]

Locked == [text |-> "locked", note |-> Null, figures |-> {}, detail |-> Null]

-----------------------------------------------------------------------------
\* main: a question is asked, over a warehouse that exists, of a server that gives its
\* calls ids, or leaves them out.
Ask(q, ids) ==
    /\ loop.pc = "idle" /\ server = [request |-> Null, reply |-> Null]
    /\ loop' = [NotAsked EXCEPT !.pc = "model", !.round = 1, !.question = q, !.ids = ids]
    /\ UNCHANGED <<wh, readers, at, server>>

\* The model calls tools.
ModelCalls(calls) ==
    /\ loop' = [loop EXCEPT !.pc = "calls", !.pending = calls,
                   !.messages = Append(@, [role |-> "assistant",
                        ids |-> [i \in DOMAIN calls |-> IF loop.ids THEN <<"given", Len(loop.messages), i>> ELSE <<>>]])]
    /\ UNCHANGED <<wh, readers, at, server>>

\* Fault: the known figures are those of the last result.
KnownFromTheLast(question, outputs) == question \cup (IF outputs = <<>> THEN {} ELSE Last(outputs))

Known(question, outputs) == question \cup UNION ToSet(outputs)

\* What a sequence holds at some of its places, in order.
AtPlaces(s, S) == [k \in 1 .. Cardinality(S) |-> s[CHOOSE i \in S : Cardinality({j \in S : j <= i}) = k]]

\* unverified: the figures in none of the sources, in order, once each.
Unverified(figures, known) ==
    AtPlaces(figures, {i \in DOMAIN figures : /\ figures[i] \notin known
                                             /\ \A j \in 1 .. i - 1 : figures[j] # figures[i]})

\* Fault: the notes the text quotes are appended too.
AllNotes(notes, text) == notes

NotesToAppend(notes, text) == AtPlaces(notes, {i \in DOMAIN notes : notes[i] \notin text.quotes})

\* The model answers: the figures and the notes its text holds.
ModelAnswers(text) ==
    /\ loop' = [loop EXCEPT !.pc = "answered",
                   !.messages = Append(@, [role |-> "assistant", ids |-> <<>>]),
                   !.answer = [text |-> text, notes |-> NotesToAppend(loop.notes, text),
                               unverified |-> Unverified(text.figures, Known(loop.question, loop.outputs))]]
    /\ UNCHANGED <<wh, readers, at, server>>

\* openai_chat raises: no connection, no reply in time, or a reply that holds no message.
ModelFails ==
    /\ loop' = [loop EXCEPT !.pc = "lost"]
    /\ UNCHANGED <<wh, readers, at, server>>

-----------------------------------------------------------------------------
\* Fault: the last round's calls run like any other.
NeverPassedOver(round) == FALSE

\* No round is left to read a result in.
PassedOver(round) == round = MaxRounds

\* Fault: numbered within the reply.
MadeUpInReply(calls, position) == <<"call", position>>

MadeUpId(calls, position) == <<"call", Len(calls)>>

\* The loop takes the next call of the reply, tells it, and writes its id into the history.
TakeCall ==
    /\ loop.pc = "calls" /\ loop.pending # <<>> /\ loop.running = Null
    /\ LET said == Max({k \in DOMAIN loop.messages : loop.messages[k].role = "assistant"})
           ids == loop.messages[said].ids
           i == Len(ids) - Len(loop.pending) + 1
           calls == Append(loop.calls, Head(loop.pending))
           id == IF ids[i] = <<>> THEN MadeUpId(calls, i) ELSE ids[i]
           told == [loop EXCEPT !.pending = Tail(@), !.calls = calls]
       IN loop' = IF PassedOver(loop.round) THEN told
                  ELSE [told EXCEPT !.running = [id |-> id, call |-> Head(loop.pending)],
                                    !.messages[said].ids[i] = id]
    /\ UNCHANGED <<wh, readers, at, server>>

\* Fault: one round more than the limit.
PastTheLimit(round) == round > MaxRounds

LastRound(round) == round = MaxRounds

\* The reply's calls are done: the next round, or NoAnswer.
NextRound ==
    /\ loop.pc = "calls" /\ loop.pending = <<>> /\ loop.running = Null
    /\ loop' = IF LastRound(loop.round) THEN [loop EXCEPT !.pc = "none"]
               ELSE [loop EXCEPT !.pc = "model", !.round = @ + 1]
    /\ UNCHANGED <<wh, readers, at, server>>

\* The MCP server is sent a request; it runs one at a time.
Serve(call) ==
    /\ server' = [server EXCEPT !.request = call]
    /\ UNCHANGED <<wh, readers, at, loop>>

\* Its client takes the reply.
Deliver ==
    /\ server.reply # Null
    /\ server' = [server EXCEPT !.reply = Null]
    /\ UNCHANGED <<wh, readers, at, loop>>

\* bound: a question is asked while no client waits, and Beside is requested meanwhile.
Requested ==
    IF server # [request |-> Null, reply |-> Null] THEN {} ELSE IF loop.pc = "idle" THEN Requests ELSE Beside

-----------------------------------------------------------------------------
\* call_tool, by the loop or by the server.
Wanted(a) ==
    IF at[a] # NoCall THEN Null
    ELSE IF a = "server" THEN server.request
    ELSE IF loop.running = Null THEN Null ELSE loop.running.call

\* Fault: a note two calls return is kept twice.
NoteAgain(notes, note) == IF note = Null THEN notes ELSE Append(notes, note)

AddNote(notes, note) == IF note = Null \/ note \in ToSet(notes) THEN notes ELSE Append(notes, note)

Reply(a, result) ==
    IF a = "server"
    THEN server' = [request |-> Null, reply |-> result] /\ UNCHANGED loop
    ELSE /\ loop' = [loop EXCEPT !.running = Null, !.outputs = Append(@, result.figures),
                        !.notes = AddNote(@, result.note),
                        !.messages = Append(@, [role |-> "tool", id |-> loop.running.id, result |-> result])]
         /\ UNCHANGED server

\* Refused, or answered from the manifests, before the warehouse is opened.
ReplyUnopened(a) ==
    /\ Wanted(a) # Null /\ Unopened(Wanted(a))
    /\ Reply(a, IF RefusedUnopened(Wanted(a)) THEN Refusal ELSE Described)
    /\ UNCHANGED <<wh, readers, at>>

\* Fault: the lock is polled until the build ends.
PollTheLock(a) ==
    /\ Wanted(a) # Null /\ ~Unopened(Wanted(a)) /\ wh.building
    /\ UNCHANGED vars

\* A build holds the file: the model is told to try again.
ReplyLocked(a) ==
    /\ Wanted(a) # Null /\ ~Unopened(Wanted(a)) /\ wh.building
    /\ Reply(a, Locked)
    /\ UNCHANGED <<wh, readers, at>>

Connect(a) ==
    /\ Wanted(a) # Null /\ ~Unopened(Wanted(a)) /\ ~wh.building
    /\ readers' = readers \cup {a}
    /\ at' = [at EXCEPT ![a] = [NoCall EXCEPT !.pc = "opened", !.call = Wanted(a)]]
    /\ UNCHANGED <<wh, loop, server>>

\* Fault: each query opens the warehouse for itself.
ReadBoundsAlone(a) ==
    /\ at[a].pc = "opened" /\ ~wh.building
    /\ at' = [at EXCEPT ![a].pc = "bounds", ![a].bounds = wh.edition]
    /\ readers' = readers \ {a}
    /\ UNCHANGED <<wh, loop, server>>

\* The first query: the fact's first and last dates.
ReadBounds(a) ==
    /\ at[a].pc = "opened"
    /\ at' = [at EXCEPT ![a].pc = "bounds", ![a].bounds = wh.edition]
    /\ UNCHANGED <<wh, readers, loop, server>>

\* Fault: a refusal leaves the connection open.
LeftOpen(a, result) == IF result.text = "error" THEN readers ELSE readers \ {a}

Closed(a, result) == readers \ {a}

\* The queries of the rows, and the end of the `with`.
ReadRows(a) ==
    /\ at[a].pc = "bounds"
    /\ LET result == Results[at[a].bounds][wh.edition][at[a].call]
       IN Reply(a, result) /\ readers' = Closed(a, result)
    /\ at' = [at EXCEPT ![a] = NoCall]
    /\ UNCHANGED wh

\* Another process writes the file: DuckDB lets it in once nothing reads.
BuildStarts ==
    /\ ~wh.building /\ readers = {} /\ wh.builds < MaxBuilds
    /\ wh' = [wh EXCEPT !.building = TRUE]
    /\ UNCHANGED <<readers, at, loop, server>>

BuildEnds ==
    /\ wh.building
    /\ \E e \in DOMAIN Editions : wh' = [edition |-> e, building |-> FALSE, builds |-> wh.builds + 1]
    /\ UNCHANGED <<readers, at, loop, server>>

-----------------------------------------------------------------------------
\* bound: the texts a model answers with, over what it was told.
Texts ==
    LET figures == loop.question \cup {Invented}
                   \cup {CHOOSE f \in loop.outputs[i] : TRUE : i \in {i \in DOMAIN loop.outputs : loop.outputs[i] # {}}}
    IN [figures : {<<>>} \cup {<<Invented, f, Invented>> : f \in figures},
        quotes : SUBSET ToSet(loop.notes)]

Model ==
    /\ loop.pc = "model"
    /\ \/ \E n \in 1 .. MaxCalls - Len(loop.calls) : \E calls \in [1 .. n -> Asked] : ModelCalls(calls)
       \/ \E text \in Texts : ModelAnswers(text)
       \/ ModelFails

CallTool(a) == ReplyUnopened(a) \/ ReplyLocked(a) \/ Connect(a) \/ ReadBounds(a) \/ ReadRows(a)

LoopStep == Model \/ TakeCall \/ NextRound \/ CallTool("loop")

Next ==
    \/ \E q \in Questions, ids \in BOOLEAN : Ask(q, ids)
    \/ LoopStep
    \/ \E call \in Requested : Serve(call)
    \/ Deliver
    \/ CallTool("server")
    \/ BuildStarts
    \/ BuildEnds

\* A chat has a time limit, a tool call waits for nothing: the loop keeps going.
Spec == Init /\ [][Next]_vars /\ WF_vars(LoopStep)

-----------------------------------------------------------------------------
\* What each variable holds; a round never exceeds MAX_ROUNDS (loop.py, tools.py).
TypeOK ==
    /\ wh \in [edition : DOMAIN Editions, building : BOOLEAN, builds : 0 .. MaxBuilds]
    /\ readers \subseteq Callers
    /\ \A a \in Callers : /\ at[a].pc \in {"idle", "opened", "bounds"} /\ (at[a].pc = "idle") = (at[a].call = Null)
                          /\ at[a].bounds \in DOMAIN Editions \cup {Null}
    /\ loop.pc \in {"idle", "model", "calls", "answered", "none", "lost"}
    /\ loop.round \in 0 .. MaxRounds /\ loop.question \in Questions \cup {Null}
    /\ ToSet(loop.pending) \cup ToSet(loop.calls) \subseteq Asked
    /\ server.request = Null \/ server.reply = Null

\* Where the history holds a call, as its message and its place in it, and where a result.
Made(messages) ==
    UNION {{<<k, i>> : i \in DOMAIN messages[k].ids} : k \in {k \in DOMAIN messages : messages[k].role = "assistant"}}

Replied(messages) == {k \in DOMAIN messages : messages[k].role = "tool"}

\* Whenever the model is asked to go on, every call it has made is answered by exactly
\* one result under that call's own id, whether or not its server gave ids (ask).
RepliesPairWithCalls ==
    loop.pc = "model" =>
        LET Id(c) == loop.messages[c[1]].ids[c[2]]
            made == Made(loop.messages)
            replied == Replied(loop.messages)
        IN /\ \A c, d \in made : Id(c) = Id(d) => c = d
           /\ \A k, m \in replied : loop.messages[k].id = loop.messages[m].id => k = m
           /\ {Id(c) : c \in made} = {loop.messages[k].id : k \in replied}

\* An answer carries each note of its calls once, in its own text or after it (ask's notes).
AnswerCarriesEachNoteOnce ==
    loop.pc = "answered" =>
        LET appended == ToSet(loop.answer.notes)
        IN /\ IsInjective(loop.answer.notes) /\ appended \cap loop.answer.text.quotes = {}
           /\ appended \cup loop.answer.text.quotes
                = {r.note : r \in {m.result : m \in {m \in ToSet(loop.messages) : m.role = "tool"}}} \ {Null}

\* The figures an answer is flagged for are those that no result sent to the model, and
\* not the question either, holds: each once, however often the answer says it (unverified).
FlaggedExactly ==
    loop.pc = "answered" =>
        LET told == {m \in ToSet(loop.messages) : m.role = "tool"}
            sent == loop.question \cup UNION {m.result.figures : m \in told}
        IN /\ ToSet(loop.answer.unverified) = ToSet(loop.answer.text.figures) \ sent
           /\ IsInjective(loop.answer.unverified)

\* No tool runs whose result nobody reads, and every call the model made is told, those
\* of the last round too (ask's `continue`, on_call).
EveryResultIsRead ==
    loop.pc \in {"answered", "none"} =>
        /\ Last(loop.messages).role = "assistant"
        /\ Len(loop.calls) = Cardinality(Made(loop.messages))

\* A connection is open only while its call runs: never while the model writes, which
\* would hold a build off for minutes (loop.py main's comment, read_only).
ConnectionsCloseWithTheirCall == readers = {a \in Callers : at[a].pc # "idle"}

\* The dates a tool compares by and the rows it adds up are of one build (tools' `with`).
ToolReadsOneWarehouse == \A a \in Callers : at[a].pc = "bounds" => at[a].bounds = wh.edition /\ ~wh.building

\* The results just sent.
Replies ==
    ({server.reply} \ {Null})
    \cup {m.result : m \in {m \in (IF loop.messages = <<>> THEN {} ELSE {Last(loop.messages)}) : m.role = "tool"}}

\* A bridge's bars sum to its change exactly; its unindented lines sum to the change as
\* printed, and a group's bars to its subtotal, to half a step for each line, since each
\* is rounded alone; its years are compared over exactly the days the data covers in
\* both, where a leap day has no namesake (explain_change, render, common_window).
BridgeIsWhole ==
    \A r \in {r \in Replies : r.text = "bridge"} :
        LET d == r.detail
            Held(y) == {MonthDay(x) : x \in {x \in Days(y) : x \in d.coverage[1] .. d.coverage[2]}}
            Compared(y) == {MonthDay(x) : x \in {x \in Days(y) :
                                x \in DateIn(y, d.window[1]) .. DateIn(y, d.window[2])}}
            named == UNION {{MonthDay(x) : x \in Days(y)} : y \in d.years}
            unnamed == {x \in named : \E y \in d.years : x \notin {MonthDay(z) : z \in Days(y)}}
            unindented == (DOMAIN d.bars \ UNION Range(Members)) \cup DOMAIN Members
            AddUp(parts, whole, column, step) ==
                LET gap == Minus(SumOf([k \in parts |-> d.lines[k][column]]), d.lines[whole][column])
                    bound == (Cardinality(parts) + 1) * step * gap[2]
                IN 2 * gap[1] \in -bound .. bound
        IN /\ SumOf(d.bars) = d.change
           /\ \A column \in {<<"money", MoneyStep>>, <<"points", PointStep>>} :
                 /\ AddUp(unindented, "change", column[1], column[2])
                 /\ \A g \in DOMAIN Members : AddUp(Members[g], g, column[1], column[2])
           /\ \A y \in d.years : Compared(y) \subseteq Held(y)
           /\ \A x \in named \ unnamed : (\A y \in d.years : x \in Held(y)) <=> (\E y \in d.years : x \in Compared(y))

\* A table names as partly covered exactly the periods with an uncovered day, and its
\* "all" counts each customer once: flagged when two rows share one (query_metric).
TablesAreHonest ==
    \A r \in {r \in Replies : r.text = "table"} :
        LET d == r.detail
            cov == Coverage(d.edition)
            Bought(group) == {Editions[d.edition].lines[i].customer :
                                 i \in {i \in group : Editions[d.edition].lines[i].item = "sale"}} \ {Null}
        IN /\ d.partial = {p \in d.periods : \E y \in YearOf(p[1]) .. YearOf(p[2]) :
                              \E x \in Days(y) : x \in p[1] .. p[2] /\ x \notin cov[1] .. cov[2]}
           /\ "customers" \in DOMAIN d.totals =>
                 /\ d.totals["customers"] = Cardinality(UNION {Bought(group) : group \in d.groups})
                 /\ d.over # {} <=> \E g, h \in d.groups : g # h /\ Bought(g) \cap Bought(h) # {}

\* The gap a scenario states is the difference of the costs in its table, every listed
\* cost lies between its cheapest and its dearest, and every country asked for is there,
\* priced or named as unlisted (scenario.render).
ScenarioReadsAsPrinted ==
    \A r \in {r \in Replies : r.text = "scenario"} :
        LET d == r.detail
            Cost(name, k) == d.costs[CHOOSE i \in DOMAIN d.rows : d.rows[i].name = name][k]
            Named == {d.rows[i].name : i \in DOMAIN d.rows} \ {"cheapest", "median", "dearest", "fallback"}
        IN /\ \A k \in DOMAIN d.gaps :
                 /\ d.gaps[k] = Cost("dearest", k) - Cost("cheapest", k)
                 /\ \A name \in Named \cup {"median"} : Cost(name, k) \in Cost("cheapest", k) .. Cost("dearest", k)
           /\ Named \cup ToSet(d.unlisted) = ToSet(d.asked) /\ Named \cap ToSet(d.unlisted) = {}

\* A question ends: an answer, none within MAX_ROUNDS, or a server that gave none (ask).
LoopEnds == loop.pc = "model" ~> loop.pc \in {"answered", "none", "lost"}

\* The messages are a conversation the next request is accepted with: each call has its
\* one reply, and no result comes when nobody is left to read it (loop.ask).
ConversationIsWhole == TypeOK /\ RepliesPairWithCalls /\ EveryResultIsRead

\* An answer goes out with every note its results carried, once, and is flagged for
\* exactly the figures no result held (loop.ask, unverified).
AnswerIsBacked == AnswerCarriesEachNoteOnce /\ FlaggedExactly

\* A call reads one build of the warehouse and holds it no longer than it runs
\* (tools.read_only).
OneWarehousePerCall == ConnectionsCloseWithTheirCall /\ ToolReadsOneWarehouse

\* The figures of every result agree with each other and with the lines they were computed
\* from: those of a scenario and a table as printed, those of a bridge to the rounding of
\* its lines (bridge.py, metrics.py, scenario.py).
FiguresAgree == BridgeIsWhole /\ TablesAreHonest /\ ScenarioReadsAsPrinted
=============================================================================
