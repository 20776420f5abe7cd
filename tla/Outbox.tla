------------------------------- MODULE Outbox -------------------------------
(***************************************************************************)
(* The part of the table outbox_events that the Airtable and the           *)
(* Accelevents drains share: modules/airtable/store.ts and                 *)
(* modules/accelevents/store.ts hold the same statements.  A row is leased *)
(* to a drain, which never looks at the lease again; its processed_at and  *)
(* its error are written by id, whoever holds the lease by then.           *)
(*                                                                         *)
(* One invocation of the Worker (queue or cron) empties one topic after    *)
(* the other.  Every call of the database or of a service is a step.       *)
(***************************************************************************)
EXTENDS Integers, Sequences, FiniteSets

CONSTANTS Request,      \* HTTP requests; a row has the name of its request
          Drain,        \* invocations that may run at once
          None,         \* SQL NULL
          MaxMishaps    \* bound: invocations and requests that die, calls of a
                        \* service that fail, leases that run out too early

Topic == {"airtable", "verify", "project"}
OutboxRow == [topic : Topic, version : Nat, done : BOOLEAN,
              holder : Drain \union {None}, live : BOOLEAN]

ASSUME RequestAssumption == IsFiniteSet(Request)
ASSUME BoundsAssumption == MaxMishaps \in Nat
ASSUME NoneAssumption == None \notin Request \union Drain \union Nat \union OutboxRow

VARIABLES
  configured,   \* the keys of the services are set
  outbox,       \* row of each request, or None
  kind,         \* what a request asks for, None if it is never made
  crew,         \* the invocations there are
  step,         \* the next call of a request
  pc,           \* the next call of a drain
  batch,        \* rows it has listed and not tried yet
  row,          \* row it works on, or None
  target,       \* the service's id it works with, or None
  \* history
  met,          \* two drains were at rows of one topic
  deaths, faults, overruns

given  == <<configured, kind, crew>>
work   == <<batch, row, target>>
past   == <<met, deaths, overruns>>

NewRow(t, v) == [topic |-> t, version |-> v, done |-> FALSE,
                 holder |-> None, live |-> FALSE]

\* isActiveOutboxClaim
Slip_EverClaimed(c) == outbox[c].holder # None
Leased(c) == outbox[c].holder # None /\ outbox[c].live

RowsOf(t) == {c \in Request : outbox[c] # None /\ outbox[c].topic = t}

\* listUnprocessedOutboxByTopic
Slip_Unprocessed(t) == {c \in RowsOf(t) : ~outbox[c].done}
Listed(t) == {c \in RowsOf(t) : ~outbox[c].done /\ ~Leased(c)}

-----------------------------------------------------------------------------
OutboxInit ==
  /\ configured \in BOOLEAN
  /\ pc     = [d \in Drain |-> "idle"]
  /\ batch  = [d \in Drain |-> {}]
  /\ row    = [d \in Drain |-> None]
  /\ target = [d \in Drain |-> None]
  /\ met = FALSE /\ deaths = 0 /\ faults = 0 /\ overruns = 0

Goto(d, l) == pc' = [pc EXCEPT ![d] = l]
Turn(c, l) == step' = [step EXCEPT ![c] = l]
Aim(d, r) == target' = [target EXCEPT ![d] = r]

\* A listing adds to the batch.
ListRows(d, t) == batch' = [batch EXCEPT ![d] = @ \union Listed(t)]

\* The compare-and-set of claimOutboxForProcessing; a row that is done or
\* leased is passed over.
Claim(d, c, l) ==
  /\ batch' = [batch EXCEPT ![d] = @ \ {c}]
  /\ IF outbox[c].done \/ Leased(c)
     THEN UNCHANGED <<outbox, row, met, pc>>
     ELSE /\ outbox' = [outbox EXCEPT ![c].holder = d, ![c].live = TRUE]
          /\ row' = [row EXCEPT ![d] = c]
          /\ met' = (met \/ \E e \in Drain : /\ row[e] # None
                                             /\ outbox[row[e]].topic = outbox[c].topic)
          /\ Goto(d, l)
  /\ UNCHANGED <<given, step, target, deaths, faults, overruns>>

\* The loop over rows that a row belongs to
Loop(d) == IF outbox[row[d]].topic = "airtable" THEN "airtable" ELSE "accelevents"

LeaveRow(d) ==
  /\ row' = [row EXCEPT ![d] = None]
  /\ target' = [target EXCEPT ![d] = None]
  /\ Goto(d, Loop(d))
  /\ UNCHANGED <<given, step, batch, past, faults>>

\* markOutboxProcessed
MarkProcessed(d) ==
  /\ pc[d] = "retire"
  /\ outbox' = [outbox EXCEPT ![row[d]].done = TRUE, ![row[d]].holder = None,
                              ![row[d]].live = FALSE]
  /\ LeaveRow(d)

\* markOutboxError: the error takes the place of the claim, anybody's.
MarkError(d) ==
  /\ pc[d] = "fail"
  /\ outbox' = [outbox EXCEPT ![row[d]].holder = None, ![row[d]].live = FALSE]
  /\ LeaveRow(d)

-----------------------------------------------------------------------------
(* Failures: a service refuses, an isolate dies, a lease runs out. *)

Possible == deaths + faults + overruns < MaxMishaps

\* A call of a service goes wrong.
Fault == Possible /\ faults' = faults + 1

Die(d) ==
  /\ pc[d] # "idle" /\ Possible
  /\ deaths' = deaths + 1
  /\ Goto(d, "idle")
  /\ batch' = [batch EXCEPT ![d] = {}]
  /\ row' = [row EXCEPT ![d] = None]
  /\ target' = [target EXCEPT ![d] = None]
  /\ UNCHANGED <<given, outbox, step, met, faults, overruns>>

Abandon(c) ==
  /\ step[c] \notin {"begin", "done", "gone"} /\ Possible
  /\ deaths' = deaths + 1
  /\ Turn(c, "gone")
  /\ UNCHANGED <<given, outbox, pc, work, met, faults, overruns>>

LeaseExpires(c) ==
  /\ outbox[c] # None /\ Leased(c)
  /\ IF row[outbox[c].holder] = c
     THEN Possible /\ overruns' = overruns + 1
     ELSE UNCHANGED overruns
  /\ outbox' = [outbox EXCEPT ![c].live = FALSE]
  /\ UNCHANGED <<given, step, pc, work, met, deaths, faults>>
=============================================================================
