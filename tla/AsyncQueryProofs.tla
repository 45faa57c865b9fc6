-------------------------- MODULE AsyncQueryProofs --------------------------
(***************************************************************************)
(* Theorems about AsyncQuery, for any number of queries, clients and       *)
(* restarts of the cleanup loop and for any TTL.                           *)
(***************************************************************************)
EXTENDS AsyncQuery, TLAPS

LEMMA Constants == TTL \in Nat \ {0} /\ MaxStarts \in Nat
  BY AsyncAssumption DEF AsyncAssumption

USE Constants

\* Most critical sections change no more of an entry than its status.
LEMMA SetStatusTyped ==
    ASSUME entry \in [Queries -> Entry], NEW q \in Queries, NEW s \in Status
    PROVE  [entry EXCEPT ![q].status = s] \in [Queries -> Entry]
BY DEF Entry

-----------------------------------------------------------------------------
LEMMA InitTyped == Init => TypeOK
<1>1. Init => cleanupRunning \in BOOLEAN
  BY DEF Init
<1> QED
  BY <1>1 DEF Init, TypeOK, Entry, Status, JobState, Calls, Idle, Ended

LEMMA NextTyped == TypeOK /\ [Next]_vars => TypeOK'
<1> SUFFICES ASSUME TypeOK, [Next]_vars
             PROVE  TypeOK'
  OBVIOUS
<1> USE DEF TypeOK
<1>1. ASSUME NEW q \in Queries, Submit(q) \/ SubmitTool(q) PROVE TypeOK'
  <2>1. Enter(q)
    BY <1>1 DEF Submit, SubmitTool
  <2>2. entry' \in [Queries -> Entry]
    BY <2>1, SetStatusTyped DEF Enter, Status
  <2> QED
    BY <2>1, <2>2 DEF Enter, loopVars, JobState
<1>2. ASSUME NEW q \in Queries, RunQuery(q) \/ RunTool(q) PROVE TypeOK'
  <2>1. CASE Begin(q)
    BY <2>1 DEF Begin, loopVars, Entry, Status, JobState
  <2>2. CASE Return(q)
    BY <2>2 DEF Return, loopVars, JobState
  <2>3. CASE Finish(q)
    <3>1. PICK e \in Entry : e = entry[q]
      OBVIOUS
    <3>2. /\ [e EXCEPT !.status = "cancelled"] \in Entry
          /\ [e EXCEPT !.status = "failed", !.errMessage = "text"] \in Entry
          /\ [e EXCEPT !.status = "succeeded", !.result = "rows"] \in Entry
      BY DEF Entry, Status, Ended
    <3>3. Record(q) \in Entry
      BY <3>1, <3>2 DEF Record
    <3> QED
      BY <2>3, <3>3 DEF Finish, loopVars, JobState
  <2> QED
    BY <1>2, <2>1, <2>2, <2>3 DEF RunQuery, RunTool
<1>3. ASSUME NEW q \in Queries, Forget(q) PROVE TypeOK'
  BY <1>3 DEF Forget
<1>4. ASSUME NEW q \in Queries, StopEntry(q) PROVE TypeOK'
  BY <1>4 DEF StopEntry, loopVars
<1>5. ASSUME NEW c \in Clients, NEW q \in Queries,
             NEW op \in {"status", "result", "cancel"}, Lookup(c, op, q)
      PROVE  TypeOK'
  BY <1>5 DEF Lookup, entryVars, loopVars, Calls
<1>6. ASSUME NEW c \in Clients, GetStatus(c) \/ GetResult(c) PROVE TypeOK'
  <2>1. PICK op : Answer(c, op)
    BY <1>6 DEF GetStatus, GetResult
  <2>2. call[c].query \in Queries
    BY <2>1 DEF Answer, Calls, Idle
  <2> QED
    BY <2>1, <2>2 DEF Answer, entryVars, loopVars, Calls
<1>7. ASSUME NEW c \in Clients, Cancel(c) PROVE TypeOK'
  <2>1. call[c].query \in Queries
    BY <1>7 DEF Cancel, Calls, Idle
  <2>2. entry' \in [Queries -> Entry]
    <3>1. [entry EXCEPT ![call[c].query].status = "cancelled"] \in [Queries -> Entry]
      BY <2>1, SetStatusTyped DEF Status, Ended
    <3> QED
      BY <1>7, <3>1 DEF Cancel
  <2>3. ctxDone' \in [Queries -> BOOLEAN]
    BY <1>7, <2>1 DEF Cancel
  <2> QED
    BY <1>7, <2>1, <2>2, <2>3 DEF Cancel, loopVars, Calls
<1>8. ASSUME NEW g \in Loops, BeginSweep(g) PROVE TypeOK'
  BY <1>8 DEF BeginSweep, entryVars, Loops
<1>9. ASSUME NEW g \in Loops, LoopExit(g) PROVE TypeOK'
  BY <1>9 DEF LoopExit, entryVars
<1>10. CASE Tick
  BY <1>10 DEF Tick, entryVars, loopVars
<1>11. CASE Start
  BY <1>11 DEF Start, entryVars, Loops
<1>12. CASE Stop
  <2>1. cleanupRunning' \in BOOLEAN
    BY <1>12 DEF Stop
  <2> QED
    BY <1>12, <2>1 DEF Stop, entryVars, Loops
<1>13. CASE UNCHANGED vars
  BY <1>13 DEF vars, entryVars, loopVars
<1> QED
  BY <1>1, <1>2, <1>3, <1>4, <1>5, <1>6, <1>7, <1>8, <1>9, <1>10, <1>11, <1>12, <1>13
  DEF Next

\* Every variable keeps its type.
THEOREM TypeCorrect == Spec => []TypeOK
BY InitTyped, NextTyped, PTL DEF Spec

-----------------------------------------------------------------------------
(***************************************************************************)
(* The inductive invariant.  The safety properties are about what clients  *)
(* see (status, told, accepted); they hold because of how the goroutine's  *)
(* position and its context constrain the status.                          *)
(***************************************************************************)

JobMatchesStatus ==
    \A q \in Queries :
        /\ job[q] = "none" <=> entry[q].status = "none"
        /\ job[q] = "done" => entry[q].status \in Ended
        /\ entry[q].status \in {"succeeded", "failed"} => job[q] = "done"
        /\ entry[q].status = "cancelled" => ctxDone[q]
        /\ job[q] = "none" => ~ctxDone[q]

KnownAreSubmitted == \A q \in queries \union stopTodo : job[q] # "none"

AcceptedIsCancelled ==
    \A q \in accepted : ctxDone[q] /\ entry[q].status \in {"running", "cancelled"}

ToldIsBacked ==
    \A q \in Queries :
        /\ \A s \in told[q] \ {"cancelled"} : entry[q].status = s
        /\ "cancelled" \in told[q] => ctxDone[q] /\ entry[q].status \in {"running", "cancelled"}

SweepIsDue == \A q \in expired : q \in queries /\ IsExpired(q)

Inv ==
    /\ TypeOK
    /\ JobMatchesStatus
    /\ KnownAreSubmitted
    /\ ResultIffSucceeded
    /\ AcceptedIsCancelled
    /\ ToldIsBacked
    /\ SweepIsDue
    /\ ForgottenIsHarmless

LEMMA InvInit == Init => Inv
<1> SUFFICES ASSUME Init PROVE Inv
  OBVIOUS
<1>1. TypeOK
  BY InitTyped
<1>2. \A q \in Queries : entry[q].status = "none" /\ entry[q].result = "nil" /\ entry[q].errMessage = "empty"
  BY DEF Init
<1> QED
  BY <1>1, <1>2 DEF Init, Inv, JobMatchesStatus, KnownAreSubmitted, ResultIffSucceeded,
     AcceptedIsCancelled, ToldIsBacked, SweepIsDue, ForgottenIsHarmless, Ended

LEMMA InvNext == Inv /\ [Next]_vars => Inv'
<1> SUFFICES ASSUME Inv, [Next]_vars
             PROVE  Inv'
  OBVIOUS
<1>0. TypeOK /\ TypeOK'
  BY NextTyped DEF Inv
<1> USE <1>0 DEF Inv, JobMatchesStatus, KnownAreSubmitted, ResultIffSucceeded,
     AcceptedIsCancelled, ToldIsBacked, SweepIsDue, ForgottenIsHarmless
<1>1. ASSUME NEW q \in Queries, Submit(q) \/ SubmitTool(q) PROVE Inv'
  <2>1. Enter(q)
    BY <1>1 DEF Submit, SubmitTool
  <2>2. entry[q].status = "none" /\ told[q] = {} /\ q \notin accepted
    BY <2>1 DEF Enter, TypeOK, Ended
  <2>3. JobMatchesStatus' /\ KnownAreSubmitted' /\ ResultIffSucceeded'
    BY <2>1, <2>2 DEF Enter, loopVars, TypeOK, Entry, Ended
  <2>4. AcceptedIsCancelled' /\ ToldIsBacked'
    BY <2>1, <2>2 DEF Enter, TypeOK, Entry
  <2>5. SweepIsDue' /\ ForgottenIsHarmless'
    BY <2>1 DEF Enter, loopVars, TypeOK, IsExpired
  <2> QED
    BY <2>3, <2>4, <2>5
<1>2. ASSUME NEW q \in Queries, Begin(q) PROVE Inv'
  BY <1>2 DEF Begin, loopVars, TypeOK, Entry, Ended, IsExpired
<1>3. ASSUME NEW q \in Queries, Return(q) PROVE Inv'
  BY <1>3 DEF Return, loopVars, TypeOK, Entry, Ended, IsExpired
<1>4. ASSUME NEW q \in Queries, Finish(q) PROVE Inv'
  BY <1>4 DEF Finish, Record, loopVars, TypeOK, Entry, Ended, IsExpired
<1>5. ASSUME NEW q \in Queries, Forget(q) PROVE Inv'
  BY <1>5 DEF Forget, TypeOK, Entry, Ended, IsExpired
<1>6. ASSUME NEW q \in Queries, StopEntry(q) PROVE Inv'
  BY <1>6 DEF StopEntry, loopVars, TypeOK, Entry, Ended, IsExpired
<1>7. ASSUME NEW c \in Clients, NEW q \in Queries,
             NEW op \in {"status", "result", "cancel"}, Lookup(c, op, q)
      PROVE  Inv'
  BY <1>7 DEF Lookup, entryVars, loopVars, TypeOK, Ended, IsExpired
<1>8. ASSUME NEW c \in Clients, GetStatus(c) \/ GetResult(c) PROVE Inv'
  BY <1>8 DEF GetStatus, GetResult, Answer, entryVars, loopVars, TypeOK, Calls, Idle, Ended, IsExpired
<1>9. ASSUME NEW c \in Clients, Cancel(c) PROVE Inv'
  <2> DEFINE q == call[c].query
  <2>1. q \in Queries
    BY <1>9 DEF Cancel, TypeOK, Calls, Idle
  <2>2. CASE Cancellable(q)
    <3>1. /\ entry' = [entry EXCEPT ![q].status = "cancelled"]
          /\ ctxDone' = [ctxDone EXCEPT ![q] = TRUE]
          /\ accepted' = accepted \union {q}
          /\ UNCHANGED <<queries, job, age, expired, stopTodo, told>>
      BY <1>9, <2>2 DEF Cancel, loopVars
    <3>2. told[q] \subseteq {"cancelled"} /\ job[q] \notin {"none", "done"}
      <4> HIDE DEF q
      <4>1. entry[q].status \in {"pending", "running"}
        BY <2>2 DEF Cancellable
      <4>2. told[q] \subseteq Ended
        BY <2>1 DEF TypeOK
      <4> QED
        BY <2>1, <4>1, <4>2 DEF Ended
    <3> HIDE DEF q
    <3>3. JobMatchesStatus' /\ KnownAreSubmitted' /\ ResultIffSucceeded'
      BY <2>1, <2>2, <3>1, <3>2 DEF Cancellable, TypeOK, Entry, Ended
    <3>4. AcceptedIsCancelled' /\ ToldIsBacked'
      BY <2>1, <3>1, <3>2 DEF TypeOK, Entry
    <3>5. SweepIsDue' /\ ForgottenIsHarmless'
      BY <2>1, <3>1 DEF TypeOK, IsExpired
    <3> QED
      BY <3>3, <3>4, <3>5
  <2>3. CASE ~Cancellable(q)
    BY <1>9, <2>3 DEF Cancel, loopVars, IsExpired
  <2> QED
    BY <2>2, <2>3
<1>10. ASSUME NEW g \in Loops, BeginSweep(g) PROVE Inv'
  BY <1>10 DEF BeginSweep, entryVars, TypeOK, Ended, IsExpired
<1>11. ASSUME NEW g \in Loops, LoopExit(g) PROVE Inv'
  BY <1>11 DEF LoopExit, entryVars, TypeOK, Ended, IsExpired
<1>12. CASE Tick
  BY <1>12 DEF Tick, entryVars, loopVars, TypeOK, Ended, IsExpired
<1>13. CASE Start
  BY <1>13 DEF Start, entryVars, TypeOK, Ended, IsExpired
<1>14. CASE Stop
  BY <1>14 DEF Stop, entryVars, TypeOK, Ended, IsExpired
<1>15. CASE UNCHANGED vars
  BY <1>15 DEF vars, entryVars, loopVars, IsExpired
<1> QED
  BY <1>1, <1>2, <1>3, <1>4, <1>5, <1>6, <1>7, <1>8, <1>9, <1>10, <1>11, <1>12, <1>13,
     <1>14, <1>15 DEF Next, RunQuery, RunTool

LEMMA Invariance == Spec => []Inv
BY InvInit, InvNext, PTL DEF Spec

-----------------------------------------------------------------------------
\* GetResult never dereferences a missing result: a succeeded entry has one,
\* and no entry of another status does.
THEOREM ResultSafe == Spec => []ResultIffSucceeded
<1>1. Inv => ResultIffSucceeded
  BY DEF Inv
<1> QED
  BY <1>1, Invariance, PTL

\* An accepted cancellation wins every race against the goroutine.
THEOREM CancelWinsRaces == Spec => []CancelWins
<1>1. Inv => CancelWins
  BY DEF Inv, AcceptedIsCancelled, CancelWins
<1> QED
  BY <1>1, Invariance, PTL

\* No outcome a client was told is revoked.
THEOREM ReportsHold == Spec => []ReportedOutcomeHolds
<1>1. Inv => ReportedOutcomeHolds
  BY DEF Inv, ToldIsBacked, ReportedOutcomeHolds
<1> QED
  BY <1>1, Invariance, PTL

\* A query the service forgot is past its TTL and its context is cancelled.
THEOREM ForgottenSafe == Spec => []ForgottenIsHarmless
<1>1. Inv => ForgottenIsHarmless
  BY DEF Inv
<1> QED
  BY <1>1, Invariance, PTL

\* Of the cleanup loops, at most the one that cleanupCancel cancels is live.
THEOREM LoopSafe == Spec => []OneCleanupLoop
<1>1. Init => OneCleanupLoop
  BY DEF Init, OneCleanupLoop
<1>2. TypeOK /\ OneCleanupLoop /\ [Next]_vars => OneCleanupLoop'
  <2> SUFFICES ASSUME TypeOK, OneCleanupLoop, [Next]_vars
               PROVE  OneCleanupLoop'
    OBVIOUS
  <2> USE DEF OneCleanupLoop
  <2>1. CASE Start
    BY <2>1 DEF Start, TypeOK, Loops
  <2>2. CASE Stop
    BY <2>2 DEF Stop, TypeOK, Loops
  <2>3. ASSUME NEW g \in Loops, LoopExit(g) PROVE OneCleanupLoop'
    BY <2>3 DEF LoopExit, TypeOK
  <2>4. ASSUME UNCHANGED <<loop, cleanupCancel, cleanupRunning>> PROVE OneCleanupLoop'
    BY <2>4
  <2> QED
    BY <2>1, <2>2, <2>3, <2>4
    DEF Next, vars, entryVars, loopVars, Submit, SubmitTool, Enter, RunQuery, RunTool, Begin,
        Return, Finish, Forget, StopEntry, Lookup, GetStatus, GetResult, Answer, Cancel,
        BeginSweep, Tick
<1> QED
  BY <1>1, <1>2, TypeCorrect, PTL DEF Spec

-----------------------------------------------------------------------------
\* The abstract variable life, seen through the refinement mapping.
Lives == [q \in Queries |-> Life(q)]

LEMMA LivesUpdate ==
    ASSUME NEW q \in Queries, NEW v, Life(q)' = v,
           \A r \in Queries \ {q} : Life(r)' = Life(r)
    PROVE  Lives' = [Lives EXCEPT ![q] = v]
BY DEF Lives

LEMMA LivesStutter ==
    ASSUME \A r \in Queries : Life(r)' = Life(r), UNCHANGED queries
    PROVE  UNCHANGED Lifecycle!vars
BY DEF Lifecycle!vars

\* The service implements the life cycle it promises: each of its steps opens,
\* decides, dooms, concludes or drops one query, or changes nothing of it.
THEOREM Refinement == Spec => ImplementsLifecycle
<1>1. Init => Lifecycle!Init
  BY DEF Init, Lifecycle!Init, Life
<1>2. Inv /\ [Next]_vars => [Lifecycle!Next]_(Lifecycle!vars)
  <2> SUFFICES ASSUME Inv, [Next]_vars
               PROVE  Lifecycle!Next \/ UNCHANGED Lifecycle!vars
    OBVIOUS
  <2> USE DEF Inv, JobMatchesStatus
  <2>1. ASSUME NEW q \in Queries, Enter(q) PROVE Lifecycle!Open(q)
    <3>1. Life(q) = "none" /\ Life(q)' = "open"
      BY <2>1 DEF Enter, Life, TypeOK
    <3>2. \A r \in Queries \ {q} : Life(r)' = Life(r)
      BY <2>1 DEF Enter, Life, TypeOK
    <3>3. Lives' = [Lives EXCEPT ![q] = "open"]
      BY <3>1, <3>2, LivesUpdate
    <3> QED
      BY <2>1, <3>1, <3>3 DEF Enter, Lives, Lifecycle!Open
  <2>2. ASSUME NEW q \in Queries, Begin(q) \/ Return(q) PROVE UNCHANGED Lifecycle!vars
    <3>1. \A r \in Queries : Life(r)' = Life(r)
      BY <2>2 DEF Begin, Return, Life, TypeOK
    <3> QED
      BY <2>2, <3>1, LivesStutter DEF Begin, Return
  <2>3. ASSUME NEW q \in Queries, Finish(q)
        PROVE  Lifecycle!Decide(q) \/ Lifecycle!Conclude(q)
    <3>1. \A r \in Queries \ {q} : Life(r)' = Life(r)
      BY <2>3 DEF Finish, Life, TypeOK
    <3>2. CASE ctxDone[q]
      <4>1. Life(q) = "doomed" /\ Life(q)' = "cancelled"
        BY <2>3, <3>2 DEF Finish, Record, Life, TypeOK, Entry
      <4>2. Lives' = [Lives EXCEPT ![q] = "cancelled"]
        BY <3>1, <4>1, LivesUpdate
      <4> QED
        BY <2>3, <4>1, <4>2 DEF Finish, Lives, Lifecycle!Conclude
    <3>3. CASE ~ctxDone[q]
      <4>1. Life(q) = "open" /\ Life(q)' \in {"succeeded", "failed"}
        BY <2>3, <3>3 DEF Finish, Record, Life, TypeOK, Entry
      <4>2. Lives' = [Lives EXCEPT ![q] = Life(q)']
        BY <3>1, LivesUpdate
      <4> QED
        BY <2>3, <4>1, <4>2 DEF Finish, Lives, Lifecycle!Decide
    <3> QED
      BY <3>2, <3>3
  <2>4. ASSUME NEW q \in Queries, Forget(q) PROVE Lifecycle!Drop(q)
    <3>1. q \in queries /\ job[q] # "none"
      BY <2>4 DEF Forget, SweepIsDue, KnownAreSubmitted
    <3>2. \A r \in Queries \ {q} : Life(r)' = Life(r)
      BY <2>4 DEF Forget, Life, TypeOK
    <3>3. Life(q)' = IF Life(q) = "open" THEN "doomed" ELSE Life(q)
      BY <2>4, <3>1 DEF Forget, Life, TypeOK, Ended
    <3>4. Lives' = [Lives EXCEPT ![q] = Life(q)']
      BY <3>2, LivesUpdate
    <3>5. Lives' = IF Lives[q] = "open" THEN [Lives EXCEPT ![q] = "doomed"] ELSE Lives
      BY <3>3, <3>4 DEF Lives
    <3> QED
      BY <2>4, <3>1, <3>5 DEF Forget, Lives, Lifecycle!Drop
  <2>5. ASSUME NEW q \in Queries, job[q] # "none", ctxDone' = [ctxDone EXCEPT ![q] = TRUE],
               UNCHANGED <<queries, job>>,
               \A r \in Queries : job[r] = "done" => entry'[r] = entry[r]
        PROVE  Lifecycle!Doom(q) \/ UNCHANGED Lifecycle!vars
    <3>1. \A r \in Queries \ {q} : Life(r)' = Life(r)
      BY <2>5 DEF Life, TypeOK
    <3>2. CASE Life(q) = "open"
      <4>1. Life(q)' = "doomed"
        BY <2>5, <3>2 DEF Life, TypeOK, Ended
      <4>2. Lives' = [Lives EXCEPT ![q] = "doomed"]
        BY <3>1, <4>1, LivesUpdate
      <4> QED
        BY <2>5, <3>2, <4>2 DEF Lives, Lifecycle!Doom
    <3>3. CASE Life(q) # "open"
      <4>1. Life(q)' = Life(q)
        BY <2>5, <3>3 DEF Life, TypeOK
      <4> QED
        BY <2>5, <3>1, <4>1, LivesStutter
    <3> QED
      BY <3>2, <3>3
  <2>6. ASSUME NEW q \in Queries, StopEntry(q)
        PROVE  Lifecycle!Doom(q) \/ UNCHANGED Lifecycle!vars
    BY <2>5, <2>6 DEF StopEntry, KnownAreSubmitted
  <2>7. ASSUME NEW c \in Clients, Cancel(c) PROVE Lifecycle!Next \/ UNCHANGED Lifecycle!vars
    <3> DEFINE q == call[c].query
    <3>1. q \in Queries
      BY <2>7 DEF Cancel, TypeOK, Calls, Idle
    <3>2. CASE Cancellable(q)
      <4>1. /\ ctxDone' = [ctxDone EXCEPT ![q] = TRUE]
            /\ entry' = [entry EXCEPT ![q].status = "cancelled"]
            /\ UNCHANGED <<queries, job>>
        BY <2>7, <3>2 DEF Cancel
      <4>2. entry[q].status \in {"pending", "running"}
        BY <3>2 DEF Cancellable
      <4> HIDE DEF q
      <4>3. job[q] \notin {"none", "done"}
        BY <3>1, <4>2 DEF Ended
      <4>4. \A r \in Queries : job[r] = "done" => entry'[r] = entry[r]
        BY <4>1, <4>3 DEF TypeOK
      <4> QED
        BY <2>5, <3>1, <4>1, <4>3, <4>4 DEF Lifecycle!Next
    <3>3. CASE ~Cancellable(q)
      <4>1. UNCHANGED <<queries, entry, ctxDone, job>>
        BY <2>7, <3>3 DEF Cancel
      <4> QED
        BY <4>1, LivesStutter DEF Life
    <3> QED
      BY <3>2, <3>3
  <2>8. ASSUME UNCHANGED <<queries, entry, ctxDone, job>> PROVE UNCHANGED Lifecycle!vars
    BY <2>8, LivesStutter DEF Life
  <2>9. CASE \E q \in Queries : \/ Submit(q) \/ SubmitTool(q) \/ RunQuery(q) \/ RunTool(q)
                               \/ Forget(q) \/ StopEntry(q)
    BY <2>1, <2>2, <2>3, <2>4, <2>6, <2>9
    DEF Submit, SubmitTool, RunQuery, RunTool, Lifecycle!Next
  <2>10. CASE ~ \E q \in Queries : \/ Submit(q) \/ SubmitTool(q) \/ RunQuery(q) \/ RunTool(q)
                                  \/ Forget(q) \/ StopEntry(q)
    BY <2>7, <2>8, <2>10
    DEF Next, vars, entryVars, Lookup, GetStatus, GetResult, Answer, BeginSweep, LoopExit,
        Tick, Start, Stop
  <2> QED
    BY <2>9, <2>10
<1> QED
  BY <1>1, <1>2, Invariance, PTL DEF Spec, ImplementsLifecycle, Lifecycle!Spec
=============================================================================
