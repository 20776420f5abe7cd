---------------------------- MODULE CommsOutbox ----------------------------
(***************************************************************************)
(* The drain of the comms.send outbox (workers/emailConsumer.ts) over the  *)
(* D1 tables outbox_events, message_jobs, message_recipients and           *)
(* delivery_events (modules/comms/store.ts).                               *)
(*                                                                         *)
(* The Worker runs processCommsOutbox from the queue handler and from a    *)
(* cron, so several drains run at once.  Each D1 statement and each call   *)
(* of the provider is one step; everything a drain keeps between two of    *)
(* them is a local that may be stale when it is used.  A row is leased to  *)
(* one drain for OUTBOX_CLAIM_LEASE_MS, and a drain never looks at its own *)
(* lease again: time is the action LeaseExpires, which may come while the  *)
(* holder is dead or while it is merely slow (an overrun).                 *)
(***************************************************************************)
EXTENDS Integers, Sequences, FiniteSets

CONSTANTS Drain,        \* concurrent invocations of processCommsOutbox
          Row,          \* outbox rows of topic comms.send; a row is its job's
          Recipient,    \* message_recipients rows
          Audience,     \* the recipients of each row's job
          Unreadable,   \* rows with a bad payload, or whose job is gone
          None,         \* SQL NULL
          MaxCrashes,   \* bound: invocations that die part way
          MaxOverruns   \* bound: leases that run out under a live drain

ASSUME AudienceAssumption == Audience \in [Row -> SUBSET Recipient]
ASSUME DisjointAssumption ==
  \A o, p \in Row : o # p => Audience[o] \intersect Audience[p] = {}
ASSUME UnreadableAssumption == /\ Unreadable \subseteq Row
                               /\ \A o \in Unreadable : Audience[o] = {}
ASSUME NoneAssumption == None \notin Drain \union Row \union Recipient
ASSUME BoundsAssumption == MaxCrashes \in Nat /\ MaxOverruns \in Nat

VARIABLES
  \* outbox_events
  processed,    \* processed_at is set
  claim,        \* drain whose token is in last_error, or None
  live,         \* claimedUntil of that claim is in the future
  \* message_jobs
  jobStatus,
  jobVersion,
  \* message_recipients and delivery_events
  rcptStatus,
  events,       \* outcomes recorded for a recipient, oldest first
  \* locals of one drain
  pc,           \* the call it makes next
  batch,        \* rows listed and not yet tried
  row,          \* row it works on, or None
  version,      \* job version it has read
  seen,         \* recipient statuses it has read
  left,         \* recipients of pendingRecipients still ahead
  rcpt,         \* recipient of the current iteration, or None
  outcome,      \* what the provider answered
  anyFailed,
  \* history
  sends,        \* calls of provider.send for a recipient
  crashes, overruns,
  late          \* drains whose lease ran out while they worked

outboxVars == <<processed, claim, live>>
jobVars    == <<jobStatus, jobVersion>>
rcptVars   == <<rcptStatus, events>>
localVars  == <<pc, batch, row, version, seen, left, rcpt, outcome, anyFailed>>
histVars   == <<sends, crashes, overruns, late>>
vars == <<processed, claim, live, jobStatus, jobVersion, rcptStatus, events,
          pc, batch, row, version, seen, left, rcpt, outcome, anyFailed,
          sends, crashes, overruns, late>>

\* The adapters' "sandbox" and "sent" are one outcome here: both are ok.
Outcome    == {"sent", "failed"}
RcptStatus == {"queued", "sending"} \union Outcome
JobStatus  == {"queued"} \union Outcome
Label == {"idle", "next", "job", "recipients", "deliveries", "loop", "send",
          "record", "status", "recheck", "settle", "update", "mark", "release"}

-----------------------------------------------------------------------------
(* Tests on rows and recipients.  An operator named Slip_... is not used by *)
(* the specification: it is a plausible mistake in the one after it. *)

\* isActiveOutboxClaim
Slip_ActiveForever(o) == claim[o] # None
Active(o) == claim[o] # None /\ live[o]

\* the WHERE clause of claimOutboxForProcessing, and of the listing
Slip_ClaimableWhileLeased(o) == ~processed[o]
Claimable(o) == ~processed[o] /\ ~Active(o)

Delivered(r) == events[r] # <<>>

\* some delivery_events row of a job says "failed"
SomeFailed(o) == \E r \in Audience[o] :
                    \E i \in DOMAIN events[r] : events[r][i] = "failed"

AllDelivered(o) == \A r \in Audience[o] : Delivered(r)

\* pendingRecipients: those without a delivery, whatever their status
Slip_PendingEveryone(o) == Audience[o]
Slip_PendingUnclaimed(o) == {r \in Audience[o] : rcptStatus[r] = "queued"}
Pending(o) == {r \in Audience[o] : ~Delivered(r)}

\* recipient status after result.ok
FinalStatus(res) == res

\* the delivery_events row of an answer
Slip_RecordedIfSent(log, res) == IF res = "sent" THEN Append(log, res) ELSE log
Recorded(log, res) == Append(log, res)

\* anyFailed before the first send: what earlier drains recorded
Slip_FailureForgotten(o) == FALSE
KnownFailure(o) == SomeFailed(o)

\* allRecipientsDone
Slip_DoneUnchecked(o) == TRUE
Complete(o) == AllDelivered(o)

-----------------------------------------------------------------------------
Init ==
  /\ processed  = [o \in Row |-> FALSE]
  /\ claim      = [o \in Row |-> None]
  /\ live       = [o \in Row |-> FALSE]
  /\ jobStatus  = [o \in Row |-> "queued"]
  /\ jobVersion = [o \in Row |-> 1]
  /\ rcptStatus = [r \in Recipient |-> "queued"]
  /\ events     = [r \in Recipient |-> <<>>]
  /\ pc         = [d \in Drain |-> "idle"]
  /\ batch      = [d \in Drain |-> {}]
  /\ row        = [d \in Drain |-> None]
  /\ version    = [d \in Drain |-> 0]
  /\ seen       = [d \in Drain |-> [r \in Recipient |-> "queued"]]
  /\ left       = [d \in Drain |-> {}]
  /\ rcpt       = [d \in Drain |-> None]
  /\ outcome    = [d \in Drain |-> "sent"]
  /\ anyFailed  = [d \in Drain |-> FALSE]
  /\ sends      = [r \in Recipient |-> 0]
  /\ crashes = 0 /\ overruns = 0 /\ late = {}

Goto(d, l) == pc' = [pc EXCEPT ![d] = l]

\* A drain is done with its row; the locals of the iteration go out of scope.
LeaveRow(d, l) ==
  /\ Goto(d, l)
  /\ row'       = [row EXCEPT ![d] = None]
  /\ version'   = [version EXCEPT ![d] = 0]
  /\ seen'      = [seen EXCEPT ![d] = [r \in Recipient |-> "queued"]]
  /\ left'      = [left EXCEPT ![d] = {}]
  /\ rcpt'      = [rcpt EXCEPT ![d] = None]
  /\ outcome'   = [outcome EXCEPT ![d] = "sent"]
  /\ anyFailed' = [anyFailed EXCEPT ![d] = FALSE]
  /\ late'      = late \ {d}

-----------------------------------------------------------------------------
(* Taking a row *)

\* listUnprocessedOutboxByTopic.  A listing that finds nothing ends the
\* invocation at once and is left out.
List(d) ==
  LET found == {o \in Row : Claimable(o)} IN
  /\ pc[d] = "idle"
  /\ found # {}
  /\ batch' = [batch EXCEPT ![d] = found]
  /\ Goto(d, "next")
  /\ UNCHANGED <<outboxVars, jobVars, rcptVars, histVars, row, version, seen,
                 left, rcpt, outcome, anyFailed>>

\* claimOutboxForProcessing: one compare-and-set against the row as it is
\* now, however old the listing.
Claim(d, o) ==
  /\ pc[d] = "next"
  /\ o \in batch[d]
  /\ Claimable(o)
  /\ batch' = [batch EXCEPT ![d] = @ \ {o}]
  /\ claim' = [claim EXCEPT ![o] = d]
  /\ live'  = [live EXCEPT ![o] = TRUE]
  /\ row'   = [row EXCEPT ![d] = o]
  /\ Goto(d, "job")
  /\ UNCHANGED <<processed, jobVars, rcptVars, histVars, version, seen, left,
                 rcpt, outcome, anyFailed>>

SkipRow(d, o) ==
  /\ pc[d] = "next"
  /\ o \in batch[d]
  /\ ~Claimable(o)
  /\ batch' = [batch EXCEPT ![d] = @ \ {o}]
  /\ UNCHANGED <<outboxVars, jobVars, rcptVars, histVars, pc, row, version,
                 seen, left, rcpt, outcome, anyFailed>>

Return(d) ==
  /\ pc[d] = "next"
  /\ batch[d] = {}
  /\ Goto(d, "idle")
  /\ UNCHANGED <<outboxVars, jobVars, rcptVars, histVars, batch, row, version,
                 seen, left, rcpt, outcome, anyFailed>>

\* markOutboxProcessed: no condition but the row's id, so it also retires a
\* row that another drain has claimed since.
RetireRow(o) ==
  /\ processed' = [processed EXCEPT ![o] = TRUE]
  /\ claim'     = [claim EXCEPT ![o] = None]
  /\ live'      = [live EXCEPT ![o] = FALSE]

\* invalid_payload_json, missing_job_or_event, job_not_found
RetireUnreadable(d) ==
  /\ pc[d] = "job"
  /\ row[d] \in Unreadable
  /\ RetireRow(row[d])
  /\ LeaveRow(d, "next")
  /\ UNCHANGED <<jobVars, rcptVars, batch, sends, crashes, overruns>>

-----------------------------------------------------------------------------
(* Reading the job: three queries, three moments *)

ReadJob(d) ==
  /\ pc[d] = "job"
  /\ row[d] \notin Unreadable
  /\ version' = [version EXCEPT ![d] = jobVersion[row[d]]]
  /\ Goto(d, "recipients")
  /\ UNCHANGED <<outboxVars, jobVars, rcptVars, histVars, batch, row, seen,
                 left, rcpt, outcome, anyFailed>>

ReadRecipients(d) ==
  /\ pc[d] = "recipients"
  /\ seen' = [seen EXCEPT ![d] =
                [r \in Recipient |-> IF r \in Audience[row[d]]
                                     THEN rcptStatus[r] ELSE "queued"]]
  /\ Goto(d, "deliveries")
  /\ UNCHANGED <<outboxVars, jobVars, rcptVars, histVars, batch, row, version,
                 left, rcpt, outcome, anyFailed>>

\* An empty audience is settled with the version read first; a job whose
\* recipients all have an outcome is only rechecked; the others are sent.
ReadDeliveries(d) ==
  LET o == row[d] IN
  /\ pc[d] = "deliveries"
  /\ left' = [left EXCEPT ![d] = Pending(o)]
  /\ anyFailed' = [anyFailed EXCEPT ![d] = KnownFailure(o)]
  /\ Goto(d, IF Audience[o] = {} THEN "update"
             ELSE IF Pending(o) = {} THEN "recheck" ELSE "loop")
  /\ UNCHANGED <<outboxVars, jobVars, rcptVars, histVars, batch, row, version,
                 seen, rcpt, outcome>>

-----------------------------------------------------------------------------
(* Sending to the pending recipients *)

Take(d, r) ==
  /\ pc[d] = "loop"
  /\ r \in left[d]
  /\ left' = [left EXCEPT ![d] = @ \ {r}]
  /\ UNCHANGED <<outboxVars, jobVars, events, histVars, batch, row, version,
                 seen, outcome, anyFailed>>

\* claimRecipientForSend wins
ClaimRecipient(d, r) ==
  /\ seen[d][r] = "queued"
  /\ rcptStatus[r] = "queued"
  /\ Take(d, r)
  /\ rcptStatus' = [rcptStatus EXCEPT ![r] = "sending"]
  /\ rcpt' = [rcpt EXCEPT ![d] = r]
  /\ Goto(d, "send")

\* "sending" with no delivery is taken for a drain that died: no claim
ResumeRecipient(d, r) ==
  /\ seen[d][r] = "sending"
  /\ Take(d, r)
  /\ rcpt' = [rcpt EXCEPT ![d] = r]
  /\ Goto(d, "send")
  /\ UNCHANGED rcptStatus

\* claimRecipientForSend loses, or the status read was already final
PassOver(d, r) ==
  /\ seen[d][r] # "sending"
  /\ seen[d][r] = "queued" => rcptStatus[r] # "queued"
  /\ Take(d, r)
  /\ UNCHANGED <<rcptStatus, rcpt, pc>>

\* provider.send: the message leaves, whatever becomes of the drain
Send(d) ==
  /\ pc[d] = "send"
  /\ sends' = [sends EXCEPT ![rcpt[d]] = @ + 1]
  /\ \E res \in Outcome : outcome' = [outcome EXCEPT ![d] = res]
  /\ Goto(d, "record")
  /\ UNCHANGED <<outboxVars, jobVars, rcptVars, batch, row, version, seen,
                 left, rcpt, anyFailed, crashes, overruns, late>>

\* insertDeliveryEvent
RecordDelivery(d) ==
  /\ pc[d] = "record"
  /\ events' = [events EXCEPT ![rcpt[d]] = Recorded(@, outcome[d])]
  /\ Goto(d, "status")
  /\ UNCHANGED <<outboxVars, jobVars, rcptStatus, histVars, batch, row,
                 version, seen, left, rcpt, outcome, anyFailed>>

\* updateRecipientStatus
SetStatus(d) ==
  /\ pc[d] = "status"
  /\ rcptStatus' = [rcptStatus EXCEPT ![rcpt[d]] = FinalStatus(outcome[d])]
  /\ anyFailed' = [anyFailed EXCEPT ![d] = @ \/ outcome[d] = "failed"]
  /\ rcpt' = [rcpt EXCEPT ![d] = None]
  /\ Goto(d, "loop")
  /\ UNCHANGED <<outboxVars, jobVars, events, histVars, batch, row, version,
                 seen, left, outcome>>

-----------------------------------------------------------------------------
(* Settling the row *)

\* The deliveries are listed again: only a complete set settles the job.
Review(d) ==
  /\ pc[d] = "loop"
  /\ left[d] = {}
  /\ Goto(d, IF Complete(row[d]) THEN "settle" ELSE "release")
  /\ UNCHANGED <<outboxVars, jobVars, rcptVars, histVars, batch, row, version,
                 seen, left, rcpt, outcome, anyFailed>>

\* releaseOutboxClaim: only the claim that carries this drain's token
Release(d) ==
  LET o == row[d] IN
  /\ pc[d] = "release"
  /\ IF claim[o] = d
     THEN /\ claim' = [claim EXCEPT ![o] = None]
          /\ live'  = [live EXCEPT ![o] = FALSE]
     ELSE UNCHANGED <<claim, live>>
  /\ LeaveRow(d, "next")
  /\ UNCHANGED <<processed, jobVars, rcptVars, batch, sends, crashes, overruns>>

\* findJobById again.  After a recheck a final job is left as it is; after
\* sending, it is overwritten whatever its status.
ReadLatest(d) ==
  /\ pc[d] \in {"recheck", "settle"}
  /\ version' = [version EXCEPT ![d] = jobVersion[row[d]]]
  /\ Goto(d, IF pc[d] = "recheck" /\ jobStatus[row[d]] \in Outcome
             THEN "mark" ELSE "update")
  /\ UNCHANGED <<outboxVars, jobVars, rcptVars, histVars, batch, row, seen,
                 left, rcpt, outcome, anyFailed>>

\* updateJob: compare-and-set on the version; a lost race is ignored
UpdateJob(d) ==
  LET o == row[d] IN
  /\ pc[d] = "update"
  /\ IF jobVersion[o] = version[d]
     THEN /\ jobVersion' = [jobVersion EXCEPT ![o] = @ + 1]
          /\ jobStatus'  = [jobStatus EXCEPT ![o] =
                              IF anyFailed[d] THEN "failed" ELSE "sent"]
     ELSE UNCHANGED jobVars
  /\ Goto(d, "mark")
  /\ UNCHANGED <<outboxVars, rcptVars, histVars, batch, row, version, seen,
                 left, rcpt, outcome, anyFailed>>

MarkProcessed(d) ==
  /\ pc[d] = "mark"
  /\ RetireRow(row[d])
  /\ LeaveRow(d, "next")
  /\ UNCHANGED <<jobVars, rcptVars, batch, sends, crashes, overruns>>

-----------------------------------------------------------------------------
(* The environment *)

\* The isolate dies, or a call throws: the invocation ends where it is.
Crash(d) ==
  /\ pc[d] # "idle"
  /\ crashes < MaxCrashes
  /\ crashes' = crashes + 1
  /\ batch' = [batch EXCEPT ![d] = {}]
  /\ LeaveRow(d, "idle")
  /\ UNCHANGED <<outboxVars, jobVars, rcptVars, sends, overruns>>

Abandoned(o) == row[claim[o]] # o

\* claimedUntil passes.
ExpireAbandoned(o) ==
  /\ Active(o)
  /\ Abandoned(o)
  /\ live' = [live EXCEPT ![o] = FALSE]
  /\ UNCHANGED <<processed, claim, jobVars, rcptVars, localVars, histVars>>

ExpireOverrun(o) ==
  /\ Active(o)
  /\ ~Abandoned(o)
  /\ overruns < MaxOverruns
  /\ overruns' = overruns + 1
  /\ late' = late \union {claim[o]}
  /\ live' = [live EXCEPT ![o] = FALSE]
  /\ UNCHANGED <<processed, claim, jobVars, rcptVars, localVars, sends, crashes>>

-----------------------------------------------------------------------------
WorkOnRow(d) ==
  \/ RetireUnreadable(d)
  \/ ReadJob(d)
  \/ ReadRecipients(d)
  \/ ReadDeliveries(d)
  \/ \E r \in Recipient :
        ClaimRecipient(d, r) \/ ResumeRecipient(d, r) \/ PassOver(d, r)
  \/ Send(d)
  \/ RecordDelivery(d)
  \/ SetStatus(d)
  \/ Review(d)
  \/ Release(d)
  \/ ReadLatest(d)
  \/ UpdateJob(d)
  \/ MarkProcessed(d)

Step(d) ==
  \/ List(d)
  \/ \E o \in Row : Claim(d, o) \/ SkipRow(d, o)
  \/ Return(d)
  \/ WorkOnRow(d)

Next ==
  \/ \E d \in Drain : Step(d) \/ Crash(d)
  \/ \E o \in Row : ExpireAbandoned(o) \/ ExpireOverrun(o)

\* Once nothing is left to drain the system rests.
Spec == Init /\ [][Next]_vars

\* The cron fires every minute and the runtime keeps running what it has
\* started; time passes.  No drain is forced to crash or to overrun.
Fairness == /\ \A d \in Drain : WF_vars(Step(d))
            /\ \A o \in Row : WF_vars(ExpireAbandoned(o))

FairSpec == Spec /\ Fairness

-----------------------------------------------------------------------------
(* Properties *)

TypeOK ==
  /\ processed  \in [Row -> BOOLEAN]
  /\ claim      \in [Row -> Drain \union {None}]
  /\ live       \in [Row -> BOOLEAN]
  /\ jobStatus  \in [Row -> JobStatus]
  /\ jobVersion \in [Row -> Nat]
  /\ rcptStatus \in [Recipient -> RcptStatus]
  /\ events     \in [Recipient -> Seq(Outcome)]
  /\ pc         \in [Drain -> Label]
  /\ batch      \in [Drain -> SUBSET Row]
  /\ row        \in [Drain -> Row \union {None}]
  /\ version    \in [Drain -> Nat]
  /\ seen       \in [Drain -> [Recipient -> RcptStatus]]
  /\ left       \in [Drain -> SUBSET Recipient]
  /\ rcpt       \in [Drain -> Recipient \union {None}]
  /\ outcome    \in [Drain -> Outcome]
  /\ anyFailed  \in [Drain -> BOOLEAN]
  /\ sends      \in [Recipient -> Nat]
  /\ crashes    \in Nat
  /\ overruns   \in Nat
  /\ late       \subseteq Drain

\* "The outbox row is marked processed only once every recipient has a
\* terminal delivery record": no interleaving of drains, crash or late drain
\* retires a row with a recipient still to be sent to.
RetiredMeansDelivered ==
  \A o \in Row : processed[o] => AllDelivered(o)

\* A drain whose lease has not run out under it has its row to itself: two
\* drains meet on a row only if one of them is late.
LeaseExclusive ==
  \A c, d \in Drain : (c # d /\ row[c] = row[d] /\ row[c] # None)
                         => c \in late \/ d \in late

\* Copies are paid for: a recipient gets a second message only for a drain
\* that died or overran its lease, one copy each, and has a second recorded
\* outcome only for an overrun.
CopiesPaidFor ==
  \A r \in Recipient : /\ sends[r] <= 1 + crashes + overruns
                       /\ Len(events[r]) <= 1 + overruns

\* The consumer never sends to a recipient whose status is final but that
\* has no delivery row ("inconsistent; do not re-send").  Such a recipient
\* would keep its row from ever being retired, so there must be none.
NoStrandedRecipient ==
  \A r \in Recipient : rcptStatus[r] \in Outcome => Delivered(r)

\* As long as leases outlive drains, a settled job tells the truth: every
\* recipient has an outcome, and the job failed iff one of them did.
HonestVerdict ==
  overruns = 0 => \A o \in Row : jobStatus[o] \in Outcome =>
     /\ AllDelivered(o)
     /\ jobStatus[o] = "failed" <=> SomeFailed(o)

\* As long as leases outlive drains, the verdict on a job is given once: a
\* drain that finds a job settled by one that died leaves it alone.
VerdictIsFinal ==
  [][overruns = 0 => \A o \in Row : jobStatus[o] \in Outcome =>
                                   jobStatus'[o] = jobStatus[o]]_vars

\* Every enqueued row is retired in the end, through crashes and overruns:
\* the rows a dead drain held become claimable, the recipients it had
\* claimed are resumed.
EveryRowRetired == \A o \in Row : <>processed[o]

\* The drain implements the promise of Delivery.
Promise == INSTANCE Delivery WITH
             delivered <- {r \in Recipient : Delivered(r)},
             retired   <- {o \in Row : processed[o]}
PromiseKept == Promise!Spec
=============================================================================
