----------------------------- MODULE AsyncQuery -----------------------------
(***************************************************************************)
(* The asynchronous query service (internal/services/async_query_service): *)
(* a map of query entries, one goroutine per submitted query or tool, the  *)
(* clients that poll and cancel, the cleanup loop that forgets old entries *)
(* and the container that starts and stops the service.                    *)
(*                                                                         *)
(* One action is one critical section: a.mu guards the map, entry.mu one   *)
(* entry.  A caller that looked an entry up keeps the pointer after a.mu   *)
(* is released, so the entry may be cancelled, completed or forgotten      *)
(* before the caller locks it.                                             *)
(*                                                                         *)
(* Definitions under "Wrong:" are variants with a plausible bug.  They are *)
(* not part of the specification; each shows which property catches it.    *)
(***************************************************************************)
EXTENDS Naturals, FiniteSets

CONSTANTS
    Queries,      \* the query ids that can be submitted (uuid.NewString)
    ToolQueries,  \* those submitted by SubmitTool, the others by Submit
    Clients,      \* concurrent callers of GetStatus, GetResult and Cancel
    TTL,          \* a.ttl, in ticks of the clock
    MaxStarts     \* bound: how often Start launches a cleanup loop

ASSUME AsyncAssumption ==
    /\ ToolQueries \subseteq Queries
    /\ TTL \in Nat \ {0}
    /\ MaxStarts \in Nat

VARIABLES
    queries,         \* a.queries: the ids the service knows
    entry,           \* the fields of every entry
    ctxDone,         \* has the context of this query been cancelled?
    job,             \* where the goroutine of this query stands
    age,             \* now - createdAt, counted up to TTL + 1
    loop,            \* the cleanup goroutines, one per Start
    cleanupCancel,   \* a.cleanupCancel: the loop it cancels, 0 for nil
    cleanupRunning,  \* a.cleanupRunning
    sweeper,         \* the loop that is inside cleanupExpired, 0 if none
    expired,         \* the entries it has yet to cancel and delete
    stopTodo,        \* the entries a running Stop has yet to cancel
    call,            \* the entry each client looked up and is about to lock
    accepted,        \* history: queries whose cancellation was accepted
    told             \* history: the outcomes clients were told, per query

entryVars == <<entry, ctxDone, job>>
loopVars  == <<loop, cleanupCancel, cleanupRunning, sweeper, expired>>
vars      == <<queries, entryVars, age, loopVars, stopTodo, call, accepted, told>>

Ended    == {"succeeded", "failed", "cancelled"}
Status   == {"none", "pending", "running"} \union Ended
Entry    == [status : Status, result : {"nil", "rows"}, errMessage : {"empty", "text"}]
JobState == {"none", "spawned", "executing", "ok", "err", "done"}
Loops    == 1 .. MaxStarts
Idle     == [op |-> "idle"]
Calls    == {Idle} \union [op : {"status", "result", "cancel"}, query : Queries]

TypeOK ==
    /\ queries \subseteq Queries
    /\ entry \in [Queries -> Entry]
    /\ ctxDone \in [Queries -> BOOLEAN]
    /\ job \in [Queries -> JobState]
    /\ age \in [Queries -> 0 .. TTL + 1]
    /\ loop \in [Loops -> {"unborn", "live", "cancelled", "exited"}]
    /\ cleanupCancel \in 0 .. MaxStarts
    /\ cleanupRunning \in BOOLEAN
    /\ sweeper \in 0 .. MaxStarts
    /\ expired \subseteq Queries
    /\ stopTodo \subseteq Queries
    /\ call \in [Clients -> Calls]
    /\ accepted \subseteq Queries
    /\ told \in [Queries -> SUBSET Ended]

Init ==
    /\ queries = {}
    /\ entry = [q \in Queries |-> [status |-> "none", result |-> "nil", errMessage |-> "empty"]]
    /\ ctxDone = [q \in Queries |-> FALSE]
    /\ job = [q \in Queries |-> "none"]
    /\ age = [q \in Queries |-> 0]
    /\ loop = [g \in Loops |-> "unborn"]
    /\ cleanupCancel = 0
    /\ cleanupRunning = FALSE
    /\ sweeper = 0
    /\ expired = {}
    /\ stopTodo = {}
    /\ call = [c \in Clients |-> Idle]
    /\ accepted = {}
    /\ told = [q \in Queries |-> {}]

-----------------------------------------------------------------------------
(* Submitting.  The map's lock is free unless a sweep holds it.            *)

MapUnlocked == sweeper = 0

Enter(q) ==
    /\ MapUnlocked
    /\ job[q] = "none"
    /\ queries' = queries \union {q}
    /\ entry' = [entry EXCEPT ![q].status = "pending"]
    /\ job' = [job EXCEPT ![q] = "spawned"]
    /\ UNCHANGED <<ctxDone, age, loopVars, stopTodo, call, accepted, told>>

\* Submit inserts a pending entry and spawns runQuery; it never looks at
\* cleanupRunning, so it also accepts queries after Stop.
Submit(q) == q \notin ToolQueries /\ Enter(q)

\* SubmitTool does the same for a tool that GetTool found; an unknown tool is
\* an error before anything is stored.
SubmitTool(q) == q \in ToolQueries /\ Enter(q)

-----------------------------------------------------------------------------
(* The goroutine of a query.                                               *)

\* The first critical section: running, whatever the status was.
Begin(q) ==
    /\ job[q] = "spawned"
    /\ job' = [job EXCEPT ![q] = "executing"]
    /\ entry' = [entry EXCEPT ![q].status = "running"]
    /\ UNCHANGED <<queries, ctxDone, age, loopVars, stopTodo, call, accepted, told>>

\* QueryService.Execute or ExecuteTemplate returns.  A cancelled context does
\* not decide the outcome: the answer may have been on its way already.
Return(q) ==
    /\ job[q] = "executing"
    /\ \E r \in {"ok", "err"} : job' = [job EXCEPT ![q] = r]
    /\ UNCHANGED <<queries, entry, ctxDone, age, loopVars, stopTodo, call, accepted, told>>

\* Wrong: the context is not asked, asked after the error, or a status of the
\* documentation is recorded.
RecordIgnoresContext(q) ==
    IF job[q] = "err" THEN [entry[q] EXCEPT !.status = "failed", !.errMessage = "text"]
                      ELSE [entry[q] EXCEPT !.status = "succeeded", !.result = "rows"]

RecordErrorFirst(q) ==
    IF job[q] = "err" THEN [entry[q] EXCEPT !.status = "failed", !.errMessage = "text"]
    ELSE IF ctxDone[q] THEN [entry[q] EXCEPT !.status = "cancelled"]
                       ELSE [entry[q] EXCEPT !.status = "succeeded", !.result = "rows"]

RecordDocumented(q) ==
    IF ctxDone[q]          THEN [entry[q] EXCEPT !.status = "cancelled"]
    ELSE IF job[q] = "err" THEN [entry[q] EXCEPT !.status = "failed", !.errMessage = "text"]
                           ELSE [entry[q] EXCEPT !.status = "completed", !.result = "rows"]

\* The second critical section asks the context first, then the error.
Record(q) ==
    IF ctxDone[q]          THEN [entry[q] EXCEPT !.status = "cancelled"]
    ELSE IF job[q] = "err" THEN [entry[q] EXCEPT !.status = "failed", !.errMessage = "text"]
                           ELSE [entry[q] EXCEPT !.status = "succeeded", !.result = "rows"]

\* Wrong: a cancelled goroutine returns without recording anything.
FinishSkipsCancelled(q) ==
    /\ job[q] \in {"ok", "err"}
    /\ entry' = IF ctxDone[q] THEN entry ELSE [entry EXCEPT ![q] = Record(q)]
    /\ job' = [job EXCEPT ![q] = "done"]
    /\ UNCHANGED <<queries, ctxDone, age, loopVars, stopTodo, call, accepted, told>>

Finish(q) ==
    /\ job[q] \in {"ok", "err"}
    /\ entry' = [entry EXCEPT ![q] = Record(q)]
    /\ job' = [job EXCEPT ![q] = "done"]
    /\ UNCHANGED <<queries, ctxDone, age, loopVars, stopTodo, call, accepted, told>>

RunQuery(q) == q \notin ToolQueries /\ (Begin(q) \/ Return(q) \/ Finish(q))
RunTool(q)  == q \in ToolQueries /\ (Begin(q) \/ Return(q) \/ Finish(q))

-----------------------------------------------------------------------------
(* Clients: look the entry up under a.mu, then work on it under entry.mu.  *)

\* An unknown id is answered "query not found" and leaves no trace.
Lookup(c, op, q) ==
    /\ MapUnlocked
    /\ call[c] = Idle
    /\ q \in queries
    /\ call' = [call EXCEPT ![c] = [op |-> op, query |-> q]]
    /\ UNCHANGED <<queries, entryVars, age, loopVars, stopTodo, accepted, told>>

Answer(c, op) ==
    /\ call[c] # Idle
    /\ call[c].op = op
    /\ LET q == call[c].query
       IN  told' = [told EXCEPT ![q] = @ \union ({entry[q].status} \intersect Ended)]
    /\ call' = [call EXCEPT ![c] = Idle]
    /\ UNCHANGED <<queries, entryVars, age, loopVars, stopTodo, accepted>>

GetStatus(c) == Answer(c, "status")

\* GetResult also names the status: in the answer of an ended query, in the
\* "query not completed yet" error otherwise.
GetResult(c) == Answer(c, "result")

\* Wrong: Cancel does not look at the status it finds.
CancellableAlways(q) == TRUE

Cancellable(q) == entry[q].status \in {"pending", "running"}

Cancel(c) ==
    /\ call[c] # Idle
    /\ call[c].op = "cancel"
    /\ LET q == call[c].query
       IN  IF Cancellable(q)
           THEN /\ ctxDone' = [ctxDone EXCEPT ![q] = TRUE]
                /\ entry' = [entry EXCEPT ![q].status = "cancelled"]
                /\ accepted' = accepted \union {q}
           ELSE UNCHANGED <<ctxDone, entry, accepted>>
    /\ call' = [call EXCEPT ![c] = Idle]
    /\ UNCHANGED <<queries, job, age, loopVars, stopTodo, told>>

-----------------------------------------------------------------------------
(* The cleanup loop and the owner of the service.                          *)

\* The clock: every known entry grows older.
Tick ==
    /\ \E q \in queries : age[q] <= TTL
    /\ age' = [q \in Queries |->
                  IF q \in queries /\ age[q] <= TTL THEN age[q] + 1 ELSE age[q]]
    /\ UNCHANGED <<queries, entryVars, loopVars, stopTodo, call, accepted, told>>

IsExpired(q) == age[q] > TTL

\* Wrong: a second Start is not turned away.
StartAgain ==
    /\ MapUnlocked
    /\ stopTodo = {}
    /\ \E g \in Loops :
         /\ loop[g] = "unborn"
         /\ loop' = [loop EXCEPT ![g] = "live"]
         /\ cleanupCancel' = g
    /\ cleanupRunning' = TRUE
    /\ UNCHANGED <<queries, entryVars, age, sweeper, expired, stopTodo, call, accepted, told>>

\* Container.Start and Container.Stop are called by one goroutine, in turn.
Start ==
    /\ MapUnlocked
    /\ stopTodo = {}
    /\ ~cleanupRunning
    /\ \E g \in Loops :
         /\ loop[g] = "unborn"
         /\ loop' = [loop EXCEPT ![g] = "live"]
         /\ cleanupCancel' = g
    /\ cleanupRunning' = TRUE
    /\ UNCHANGED <<queries, entryVars, age, sweeper, expired, stopTodo, call, accepted, told>>

\* A cancelled loop whose ticker has fired too may sweep once more: select
\* chooses either.
BeginSweep(g) ==
    /\ MapUnlocked
    /\ loop[g] \in {"live", "cancelled"}
    /\ \E q \in queries : IsExpired(q)
    /\ expired' = {q \in queries : IsExpired(q)}
    /\ sweeper' = g
    /\ UNCHANGED <<queries, entryVars, age, loop, cleanupCancel, cleanupRunning,
                   stopTodo, call, accepted, told>>

\* Wrong: the sweep deletes without cancelling, or cancels without deleting.
ForgetOnly(q) ==
    /\ q \in expired
    /\ queries' = queries \ {q}
    /\ expired' = expired \ {q}
    /\ sweeper' = IF expired' = {} THEN 0 ELSE sweeper
    /\ UNCHANGED <<entryVars, age, loop, cleanupCancel, cleanupRunning,
                   stopTodo, call, accepted, told>>

ForgetKeeps(q) ==
    /\ q \in expired
    /\ ctxDone' = [ctxDone EXCEPT ![q] = TRUE]
    /\ expired' = expired \ {q}
    /\ sweeper' = IF expired' = {} THEN 0 ELSE sweeper
    /\ UNCHANGED <<queries, entry, job, age, loop, cleanupCancel, cleanupRunning,
                   stopTodo, call, accepted, told>>

\* One entry of the sweep: cancel it and forget it.  a.mu is released with the
\* last one.
Forget(q) ==
    /\ q \in expired
    /\ ctxDone' = [ctxDone EXCEPT ![q] = TRUE]
    /\ queries' = queries \ {q}
    /\ expired' = expired \ {q}
    /\ sweeper' = IF expired' = {} THEN 0 ELSE sweeper
    /\ UNCHANGED <<entry, job, age, loop, cleanupCancel, cleanupRunning,
                   stopTodo, call, accepted, told>>

LoopExit(g) ==
    /\ loop[g] = "cancelled"
    /\ sweeper # g
    /\ loop' = [loop EXCEPT ![g] = "exited"]
    /\ UNCHANGED <<queries, entryVars, age, cleanupCancel, cleanupRunning, sweeper,
                   expired, stopTodo, call, accepted, told>>

\* Stop cancels the loop and copies the map under a.mu ...
Stop ==
    /\ MapUnlocked
    /\ stopTodo = {}
    /\ loop' = [g \in Loops |-> IF g = cleanupCancel THEN "cancelled" ELSE loop[g]]
    /\ cleanupCancel' = 0
    /\ cleanupRunning' = FALSE
    /\ stopTodo' = queries
    /\ UNCHANGED <<queries, entryVars, age, sweeper, expired, call, accepted, told>>

\* Wrong: only the entries that are running are cancelled.
StopRunningEntry(q) ==
    /\ q \in stopTodo
    /\ ctxDone' = [ctxDone EXCEPT ![q] = @ \/ entry[q].status = "running"]
    /\ stopTodo' = stopTodo \ {q}
    /\ UNCHANGED <<queries, entry, job, age, loopVars, call, accepted, told>>

\* ... and cancels the copied entries one by one, under entry.mu alone.
StopEntry(q) ==
    /\ q \in stopTodo
    /\ ctxDone' = [ctxDone EXCEPT ![q] = TRUE]
    /\ stopTodo' = stopTodo \ {q}
    /\ UNCHANGED <<queries, entry, job, age, loopVars, call, accepted, told>>

-----------------------------------------------------------------------------
Next ==
    \/ \E q \in Queries : \/ Submit(q) \/ SubmitTool(q)
                          \/ RunQuery(q) \/ RunTool(q)
                          \/ Forget(q) \/ StopEntry(q)
    \/ \E c \in Clients : \/ \E q \in Queries, op \in {"status", "result", "cancel"} :
                                Lookup(c, op, q)
                          \/ GetStatus(c) \/ GetResult(c) \/ Cancel(c)
    \/ \E g \in Loops : BeginSweep(g) \/ LoopExit(g)
    \/ Tick \/ Start \/ Stop

Spec == Init /\ [][Next]_vars

(***************************************************************************)
(* Fairness.  The Go scheduler runs every goroutine, the clock advances,   *)
(* the ticker of a live loop fires, and a Stop that began goes on.  Of the *)
(* databases only one thing is assumed: a statement whose context is       *)
(* cancelled returns.  Nothing makes a client, Start or Stop happen.       *)
(***************************************************************************)
ReturnCancelled(q) == ctxDone[q] /\ Return(q)

Fairness ==
    /\ \A q \in Queries : /\ WF_vars(Begin(q))
                          /\ WF_vars(ReturnCancelled(q))
                          /\ WF_vars(Finish(q))
                          /\ WF_vars(Forget(q))
                          /\ WF_vars(StopEntry(q))
    /\ \A g \in Loops : WF_vars(loop[g] = "live" /\ BeginSweep(g))
    /\ WF_vars(Tick)

FairSpec == Spec /\ Fairness

-----------------------------------------------------------------------------
(* Safety.                                                                 *)

\* GetResult dereferences entry.result exactly when the status is succeeded,
\* so a result must be there then, and no other status may carry one; only a
\* failed entry carries an error message.
ResultIffSucceeded ==
    \A q \in Queries : /\ entry[q].result = "rows" <=> entry[q].status = "succeeded"
                       /\ entry[q].errMessage = "text" <=> entry[q].status = "failed"

\* An accepted Cancel wins every race with the goroutine: whenever it comes,
\* before the query starts, while it executes or after its answer arrived and
\* before it is recorded, the query never ends succeeded or failed.
CancelWins == \A q \in accepted : entry[q].status \notin {"succeeded", "failed"}

\* What a client was told is never revoked: a reported success or failure
\* stays, and a reported cancellation is not followed by a success or a
\* failure.  The pointer held between the two locks must not break this.
ReportedOutcomeHolds ==
    \A q \in Queries :
        /\ \A s \in told[q] \ {"cancelled"} : entry[q].status = s
        /\ "cancelled" \in told[q] => entry[q].status \in {"cancelled", "running"}

\* The service forgets a query only past its TTL, and never one whose context
\* still lives: nobody could stop such a goroutine any more.
ForgottenIsHarmless ==
    \A q \in Queries : (job[q] # "none" /\ q \notin queries) => (age[q] > TTL /\ ctxDone[q])

\* However Start and Stop alternate, the one loop that is not cancelled is the
\* one cleanupCancel can cancel; none leaks.
OneCleanupLoop ==
    /\ cleanupRunning <=> cleanupCancel # 0
    /\ {g \in Loops : loop[g] = "live"} = {cleanupCancel} \ {0}

(* Liveness.                                                               *)

\* A statement the database never answers is ended by its age: the sweep
\* cancels it, unless the loop is stopped meanwhile.
ExpiryEndsRunaways ==
    \A q \in Queries : (job[q] = "executing") ~> (job[q] = "done" \/ ~cleanupRunning)

\* Every entry a Stop found in the map comes to an end.
StopEndsQueries == \A q \in Queries : (q \in stopTodo) ~> (job[q] = "done")

\* The map does not grow for ever: an entry is forgotten while the loop runs.
EntriesAreForgotten == \A q \in Queries : (q \in queries) ~> (q \notin queries \/ ~cleanupRunning)

-----------------------------------------------------------------------------
(* Refinement: the service implements the life cycle it promises.          *)

Life(q) ==
    CASE job[q] = "none" -> "none"
      [] job[q] = "done" -> entry[q].status
      [] OTHER           -> IF ctxDone[q] THEN "doomed" ELSE "open"

Lifecycle == INSTANCE QueryLifecycle WITH life <- [q \in Queries |-> Life(q)], known <- queries

\* Every step of the service is a step of the life cycle or leaves it alone.
ImplementsLifecycle == Lifecycle!Spec

\* And doomed queries do end cancelled.
ImplementsFairLifecycle == Lifecycle!FairSpec
=============================================================================
