--------------------------- MODULE QueryLifecycle ---------------------------
(***************************************************************************)
(* What the asynchronous query service promises of a query, without        *)
(* goroutines, contexts or locks: it is open until it is either decided    *)
(* (succeeded or failed) or doomed (cancelled by a client, by a stop of    *)
(* the service or by its age); a decided query never changes again, and a  *)
(* doomed one ends cancelled and in no other way.  The service may drop a  *)
(* query from its memory, but not leave it running unattended.             *)
(***************************************************************************)
CONSTANT Queries

VARIABLES life, known

vars == <<life, known>>

Lives == {"none", "open", "doomed", "succeeded", "failed", "cancelled"}

TypeOK == life \in [Queries -> Lives] /\ known \subseteq Queries

Init == life = [q \in Queries |-> "none"] /\ known = {}

Open(q) ==
    /\ life[q] = "none"
    /\ life' = [life EXCEPT ![q] = "open"]
    /\ known' = known \union {q}

Decide(q) ==
    /\ life[q] = "open"
    /\ \E outcome \in {"succeeded", "failed"} : life' = [life EXCEPT ![q] = outcome]
    /\ UNCHANGED known

Doom(q) ==
    /\ life[q] = "open"
    /\ life' = [life EXCEPT ![q] = "doomed"]
    /\ UNCHANGED known

Conclude(q) ==
    /\ life[q] = "doomed"
    /\ life' = [life EXCEPT ![q] = "cancelled"]
    /\ UNCHANGED known

Drop(q) ==
    /\ q \in known
    /\ known' = known \ {q}
    /\ life' = IF life[q] = "open" THEN [life EXCEPT ![q] = "doomed"] ELSE life

Next == \E q \in Queries : Open(q) \/ Decide(q) \/ Doom(q) \/ Conclude(q) \/ Drop(q)

Spec == Init /\ [][Next]_vars

\* A doomed query does not linger.
FairSpec == Spec /\ \A q \in Queries : WF_vars(Conclude(q))
=============================================================================
