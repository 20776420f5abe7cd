------------------------------- MODULE Outward ------------------------------
(***************************************************************************)
(* What leaves the system other than mail: events to Airtable, published   *)
(* programmes to Accelevents.  An invocation of the Worker, by the queue   *)
(* or by the cron, empties the one outbox and then the other (index.ts).   *)
(***************************************************************************)
EXTENDS Projection, Publication

CONSTANT Menu   \* what may be asked for, and by how many invocations drained

Kind == {"create", "update", "edit", "publish", "save", "verify"}
ASSUME MenuAssumption ==
  \A m \in Menu : m.kind \in [Request -> Kind \union {None}] /\ m.crew \subseteq Drain

vars == <<given, outbox, step, pc, work, past, faults, projectionVars, publicationVars>>

\* The event may have been created, announced and, with keys, projected.
Init ==
  /\ OutboxInit /\ ProjectionInit /\ PublicationInit
  /\ \E m \in Menu : kind = m.kind /\ crew = m.crew
  /\ author \in {c \in Request : kind[c] = "create"} \union {None}
  /\ version = IF author = None THEN 0 ELSE 1
  /\ step = [c \in Request |-> IF c = author THEN "done" ELSE "begin"]
  /\ outbox = [c \in Request |-> IF c = author
                 THEN [NewRow("airtable", 1) EXCEPT !.done = configured] ELSE None]
  /\ base = IF author # None /\ configured THEN 1 ELSE 0
  /\ link = IF base = 0 THEN None ELSE 1

Leave(d) == (MarkProcessed(d) \/ MarkError(d)) /\ Forget(d) /\ UNCHANGED projectionVars

Drained(d) ==
  \/ AirtableStep(d) /\ UNCHANGED publicationVars
  \/ AcceleventsStep(d) /\ UNCHANGED projectionVars
  \/ Leave(d)

Expires(c) == LeaseExpires(c) /\ UNCHANGED <<projectionVars, publicationVars>>

Next ==
  \/ \E d \in Drain : \/ Drained(d)
                      \/ Die(d) /\ Forget(d) /\ UNCHANGED projectionVars
  \/ \E c \in Request : \/ EventCommand(c) /\ UNCHANGED publicationVars
                        \/ PublicationCommand(c) /\ UNCHANGED projectionVars
                        \/ Abandon(c) /\ UNCHANGED <<projectionVars, publicationVars>>
                        \/ Expires(c)

Spec == Init /\ [][Next]_vars

\* The cron starts drains and the runtime keeps them running; deadlines pass.
DeadLease(c) == Expires(c) /\ row[outbox[c].holder] # c
Fairness ==
  /\ \A d \in Drain : WF_vars(Drained(d))
  /\ WF_vars(\E c \in Request : DeadLease(c))

FairSpec == Spec /\ Fairness

-----------------------------------------------------------------------------
(* With keys, every row is processed in the end, by the drain that claimed *)
(* it or by the one that takes it over when that one has died.             *)
Unprocessed == \E c \in Request : outbox[c] # None /\ ~outbox[c].done
EveryRowProcessed == (configured /\ Unprocessed) ~> ~Unprocessed
=============================================================================
