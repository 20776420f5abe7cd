----------------------------- MODULE Projection -----------------------------
(***************************************************************************)
(* An event, its announcements in the outbox, and the drain that copies    *)
(* them to Airtable (modules/events, modules/airtable,                     *)
(* workers/airtableConsumer.ts).  An update of the event is a              *)
(* compare-and-set on its version in one batch with its announcement.  The *)
(* drain sends each announcement to the record found by the internal id,   *)
(* and remembers that record in projection_records.  The fields that are   *)
(* copied are left out.                                                    *)
(***************************************************************************)
EXTENDS Outbox

VARIABLES
  version,    \* of the row of the event, 0 before there is one
  author,     \* request whose fields the row has, or None
  expected,   \* expectedVersion of a request
  base,       \* number of records of the Airtable base that name the event
  link,       \* the record its row of projection_records names, or None
  linked      \* the find of upsertProjection has found that row

projectionVars == <<version, author, expected, base, link, linked>>

ProjectionInit ==
  /\ expected = [c \in Request |-> 0]
  /\ linked = [d \in Drain |-> FALSE]

-----------------------------------------------------------------------------
(* Commands *)

\* createEvent: one batch.
Create(c) ==
  /\ kind[c] = "create" /\ step[c] = "begin" /\ version = 0
  /\ version' = 1
  /\ author' = c
  /\ outbox' = [outbox EXCEPT ![c] = NewRow("airtable", 1)]
  /\ Turn(c, "done")
  /\ UNCHANGED <<given, pc, work, past, faults, expected, base, link, linked>>

\* updateEvent, for a version its client may have seen
ReadEvent(c, v) ==
  /\ kind[c] = "update" /\ step[c] = "begin" /\ v \in 1..version
  /\ IF v = version
     THEN expected' = [expected EXCEPT ![c] = v] /\ Turn(c, "commit")
     ELSE UNCHANGED expected /\ Turn(c, "done")
  /\ UNCHANGED <<given, outbox, pc, work, past, faults, version, author, base,
                 link, linked>>

\* The rows of the batch are inserted where this attempt's own stamp is seen.
Slip_ByVersion(c) == version \in {expected[c], expected[c] + 1}
StampSeen(c) == version = expected[c]

CommitUpdate(c) ==
  /\ kind[c] = "update" /\ step[c] = "commit"
  /\ IF version = expected[c]
     THEN version' = version + 1 /\ author' = c
     ELSE UNCHANGED <<version, author>>
  /\ outbox' = IF StampSeen(c)
               THEN [outbox EXCEPT ![c] = NewRow("airtable", expected[c] + 1)]
               ELSE outbox
  /\ Turn(c, "done")
  /\ expected' = [expected EXCEPT ![c] = 0]
  /\ UNCHANGED <<given, pc, work, past, faults, base, link, linked>>

-----------------------------------------------------------------------------
(* The drain *)

\* An invocation starts (one that finds no row at all is left out); without
\* keys it leaves the announcements alone.
ListAnnouncements(d) ==
  /\ d \in crew /\ pc[d] = "idle" /\ \E t \in Topic : Listed(t) # {}
  /\ IF configured THEN ListRows(d, "airtable") ELSE UNCHANGED batch
  /\ Goto(d, "airtable")
  /\ UNCHANGED <<given, outbox, step, row, target, past, faults, projectionVars>>

ClaimAnnouncement(d, c) ==
  /\ pc[d] = "airtable" /\ c \in batch[d]
  /\ Claim(d, c, "find")
  /\ UNCHANGED projectionVars

\* What a step of the drain that works on a row leaves alone
Working(d, l) ==
  /\ pc[d] = l
  /\ UNCHANGED <<given, outbox, step, batch, row, past, version, author, expected>>

FindProjection(d) ==
  /\ Working(d, "find")
  /\ IF link = None THEN Goto(d, "look") /\ UNCHANGED target
                    ELSE Goto(d, "patch") /\ Aim(d, link)
  /\ UNCHANGED <<faults, base, link, linked>>

\* findByInternalId: any one record that has the id
Slip_Unseen == {}
Found == 1..base

LookUp(d) ==
  /\ Working(d, "look")
  /\ \/ Found = {} /\ Goto(d, "post") /\ UNCHANGED <<faults, target>>
     \/ \E r \in Found : Aim(d, r) /\ Goto(d, "patch") /\ UNCHANGED faults
     \/ Fault /\ Goto(d, "fail") /\ UNCHANGED target
  /\ UNCHANGED <<base, link, linked>>

\* A call that changes the base may do so and its answer be lost.
Answered(d, newBase, r) ==
  \/ base' = newBase /\ Aim(d, r) /\ Goto(d, "relink") /\ UNCHANGED faults
  \/ Fault /\ Goto(d, "fail") /\ base' \in {base, newBase} /\ UNCHANGED target

Post(d) ==
  /\ Working(d, "post")
  /\ Answered(d, base + 1, base + 1)
  /\ UNCHANGED <<link, linked>>

Patch(d) ==
  /\ Working(d, "patch")
  /\ Answered(d, base, target[d])
  /\ UNCHANGED <<link, linked>>

\* upsertProjection: find, then update that row or insert under the unique
\* index; the insert of the second drain fails.
FindLink(d) ==
  /\ Working(d, "relink")
  /\ linked' = [linked EXCEPT ![d] = link # None]
  /\ Goto(d, "write")
  /\ UNCHANGED <<target, faults, base, link>>

WriteLink(d) ==
  /\ Working(d, "write")
  /\ IF linked[d] \/ link = None
     THEN /\ link' = target[d]
          /\ Goto(d, "retire")
     ELSE Goto(d, "fail") /\ UNCHANGED link
  /\ linked' = [linked EXCEPT ![d] = FALSE]
  /\ UNCHANGED <<target, faults, base>>

AirtableStep(d) ==
  \/ ListAnnouncements(d) \/ FindProjection(d) \/ LookUp(d) \/ Post(d) \/ Patch(d)
  \/ FindLink(d) \/ WriteLink(d)
  \/ \E c \in Request : ClaimAnnouncement(d, c)

EventCommand(c) == Create(c) \/ CommitUpdate(c) \/ \E v \in 1..Cardinality(Request) : ReadEvent(c, v)

-----------------------------------------------------------------------------
(* Each version of the event is announced once, by the request that made   *)
(* it, and the last one by the request whose fields the row has: the loser *)
(* of a race announces nothing (updateEventUnit).                          *)
EachVersionAnnounced ==
  /\ {outbox[c].version : c \in RowsOf("airtable")} = 1..version
  /\ \A b, c \in RowsOf("airtable") : outbox[b].version = outbox[c].version => b = c
  /\ version > 0 => author \in RowsOf("airtable") /\ outbox[author].version = version

(* Lost answers and deaths between the creation of a record and its link   *)
(* make no second record: that takes two drains at once.                   *)
OneRecordPerEvent == base > 1 => met
=============================================================================
