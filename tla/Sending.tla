------------------------------- MODULE Sending -------------------------------
(***************************************************************************)
(* What the organisers send (modules/comms): a previewed mailing, under an *)
(* idempotency key, and the calendar invite of a placement.  Sending only  *)
(* enqueues; CommsOutbox takes over from the row of the outbox.            *)
(*                                                                         *)
(* sendComms reads several times and then writes once: the transition of   *)
(* the job, its recipients, the row of the outbox, the key and the audit   *)
(* row are one batch, the inserts of which look for the stamp that the     *)
(* update of this very attempt has left in the job.                        *)
(***************************************************************************)
EXTENDS Integers, FiniteSets

CONSTANTS Sender,     \* requests
          Preview,    \* message_jobs that are previewed
          Key,        \* idempotency keys of clients
          Placement,
          Missing     \* no row

ASSUME MissingAssumption ==
  /\ Missing \notin Key \union Nat \union [preview : Preview, key : Key]
  /\ Missing \notin {"sent", "replayed", "issued"}

VARIABLES
  job,     \* message_jobs: version, and idempotency_key when queued
  keys,    \* idempotency_keys: the request hashed, or Missing
  posted,  \* requests whose recipients and outbox row are there
  invite,  \* calendar_invites: SEQUENCE, which goes with version, or Missing
  wish,    \* what a request was sent with
  phase,   \* its next call
  held,    \* version or SEQUENCE it has read, the SEQUENCE of an invite issued
  reply    \* what it answers

sendVars == <<job, keys, posted, invite, wish, phase, held, reply>>

Wish == [preview : Preview, key : Key]
Replies == {"sent", "replayed", "conflict", "invalid", "error", "issued"}

SendInit ==
  /\ job    = [p \in Preview |-> [version |-> 1, key |-> Missing]]
  /\ keys   = [k \in Key |-> Missing]
  /\ posted = {}
  /\ invite = [q \in Placement |-> Missing]
  /\ wish   = [s \in Sender |-> Missing]
  /\ phase  \in [Sender -> {"begin", "never"}]
  /\ held   = [s \in Sender |-> Missing]
  /\ reply  = [s \in Sender |-> Missing]

Phase(s, l) == phase' = [phase EXCEPT ![s] = l]
Return(s, a) == Phase(s, "done") /\ reply' = [reply EXCEPT ![s] = a]

-----------------------------------------------------------------------------
(* sendComms *)

Queued(p) == job[p].key # Missing
UnderKey(k) == {p \in Preview : job[p].key = k}

\* findIdempotencyKey, at once; a stored key answers for the request it hashes.
Send(s, w) ==
  /\ phase[s] = "begin"
  /\ wish' = [wish EXCEPT ![s] = w]
  /\ IF keys[w.key] = Missing THEN Phase(s, "job") /\ UNCHANGED reply
     ELSE Return(s, IF keys[w.key] = w THEN "replayed" ELSE "conflict")
  /\ UNCHANGED <<job, keys, posted, invite, held>>

\* findJobByIdempotencyKey: a job that has the key now and had not a moment
\* ago has its row in idempotency_keys as well, and the insert fails.
FindByKey(s) ==
  /\ phase[s] = "job"
  /\ IF UnderKey(wish[s].key) = {} THEN Phase(s, "preview") /\ UNCHANGED reply
                                   ELSE Return(s, "error")
  /\ UNCHANGED <<job, keys, posted, invite, wish, held>>

FindPreview(s) ==
  /\ phase[s] = "preview"
  /\ IF Queued(wish[s].preview)
     THEN Return(s, "invalid") /\ UNCHANGED held
     ELSE /\ held' = [held EXCEPT ![s] = job[wish[s].preview].version]
          /\ Phase(s, "batch")
          /\ UNCHANGED reply
  /\ UNCHANGED <<job, keys, posted, invite, wish>>

Updates(s) == job[wish[s].preview].version = held[s]

\* What the inserts look for
Slip_ByVersion(s) == job[wish[s].preview].version \in {held[s], held[s] + 1}
StampThere(s) == job[wish[s].preview].version = held[s]

\* Both the job's key and idempotency_keys.key are unique.
Aborts(s) == \/ Updates(s) /\ UnderKey(wish[s].key) # {}
             \/ StampThere(s) /\ keys[wish[s].key] # Missing

\* enqueueSendAtomic
CommitSend(s) ==
  LET w == wish[s] IN
  /\ phase[s] = "batch"
  /\ job' = IF Updates(s) /\ ~Aborts(s)
            THEN [job EXCEPT ![w.preview] = [version |-> held[s] + 1, key |-> w.key]] ELSE job
  /\ keys' = IF StampThere(s) /\ ~Aborts(s) THEN [keys EXCEPT ![w.key] = w] ELSE keys
  /\ posted' = IF StampThere(s) /\ ~Aborts(s) THEN posted \union {s} ELSE posted
  /\ IF Updates(s) /\ ~Aborts(s) THEN Return(s, "sent")
                                 ELSE Phase(s, "again") /\ UNCHANGED reply
  /\ UNCHANGED <<invite, wish, held>>

\* reconcileEnqueueBatchError and what follows a batch that changed nothing
ReadAgain(s) ==
  /\ phase[s] = "again"
  /\ Return(s, IF keys[wish[s].key] = wish[s] THEN "replayed" ELSE "conflict")
  /\ UNCHANGED <<job, keys, posted, invite, wish, held>>

-----------------------------------------------------------------------------
(* icsForPlacementCommand: an insert under a unique index, or a              *)
(* compare-and-set                                                           *)

ReadInvite(s, q) ==
  /\ phase[s] = "begin"
  /\ wish' = [wish EXCEPT ![s] = q]
  /\ held' = [held EXCEPT ![s] = invite[q]]
  /\ Phase(s, "invite")
  /\ UNCHANGED <<job, keys, posted, invite, reply>>

Slip_Whatever(s) == TRUE
Unchanged(s) == invite[wish[s]] = held[s]

WriteInvite(s) ==
  LET n == IF held[s] = Missing THEN 0 ELSE held[s] + 1 IN
  /\ phase[s] = "invite"
  /\ IF Unchanged(s)
     THEN /\ invite' = [invite EXCEPT ![wish[s]] = n]
          /\ held' = [held EXCEPT ![s] = n]
          /\ Return(s, "issued")
     ELSE /\ Return(s, IF held[s] = Missing THEN "error" ELSE "conflict")
          /\ UNCHANGED <<invite, held>>
  /\ UNCHANGED <<job, keys, posted, wish>>

-----------------------------------------------------------------------------
SendStep(s) ==
  \/ \E w \in Wish : Send(s, w)
  \/ FindByKey(s) \/ FindPreview(s) \/ CommitSend(s) \/ ReadAgain(s)
  \/ WriteInvite(s)
  \/ \E q \in Placement : ReadInvite(s, q)

SendSpec == SendInit /\ [][\E s \in Sender : SendStep(s)]_sendVars

-----------------------------------------------------------------------------
(* "same idempotencyKey returns same job id" (J04): under one key at most  *)
(* one mailing goes out, and of one preview; a preview goes out at most    *)
(* once, whatever keys it is sent under; and who is told that his mailing  *)
(* is on its way, now or before, is told so of the preview he has named.   *)
SentOnce ==
  /\ \A s, t \in posted :
       wish[s].key = wish[t].key \/ wish[s].preview = wish[t].preview => s = t
  /\ \A s \in Sender : reply[s] \in {"sent", "replayed"} =>
       \E t \in posted : wish[t] = wish[s] /\ Queued(wish[t].preview)

(* Two invites for one placement never carry the same SEQUENCE, by which   *)
(* calendars know the newer one (J10).                                     *)
InvitesOrdered ==
  \A s, t \in Sender :
    /\ s # t /\ wish[s] = wish[t]
    /\ reply[s] = "issued" /\ reply[t] = "issued"
    => held[s] # held[t] /\ held[s] <= invite[wish[s]]
=============================================================================
