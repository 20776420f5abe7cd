------------------------- MODULE CommsOutboxProofs -------------------------
(***************************************************************************)
(* Proofs about CommsOutbox, for any number of drains, rows, recipients,   *)
(* crashes and overruns.                                                   *)
(***************************************************************************)
EXTENDS CommsOutbox, FiniteSetTheorems, TLAPS

(* The inductive invariant, part by part. *)

\* A drain works on a row exactly between its claim and its leaving it.
WorkingOnRow ==
  \A d \in Drain : pc[d] \in {"idle", "next"} <=> row[d] = None

\* A recipient is bound while a message to it is under way.
BoundRecipient ==
  \A d \in Drain : pc[d] \in {"send", "record", "status"} => rcpt[d] \in Recipient

\* A drain that is not late holds the live claim of its row, unless a late
\* drain has retired the row under it.
HoldsLease ==
  \A d \in Drain : (row[d] # None /\ d \notin late)
     => \/ processed[row[d]]
        \/ claim[row[d]] = d /\ live[row[d]]

\* A job is settled, and a row marked, only after every delivery was seen.
SettledAfterDelivery ==
  \A d \in Drain : pc[d] \in {"settle", "recheck", "update", "mark"}
                      => AllDelivered(row[d])

\* The recipient's row turns final after the delivery row is written.
StatusAfterRecord ==
  \A d \in Drain : pc[d] = "status" => Delivered(rcpt[d])

-----------------------------------------------------------------------------
(* Every step is a step of some drain or a lease that runs out: the shape of *)
(* every case analysis below.                                                *)

Shape == /\ TypeOK
         /\ WorkingOnRow
         /\ BoundRecipient

LEMMA ShapeInit == Init => Shape
BY NoneAssumption DEF Init, Shape, TypeOK, WorkingOnRow, BoundRecipient,
     JobStatus, RcptStatus, Outcome, Label

\* Types, and the locals a drain has bound at each call, survive every step.
LEMMA ShapeStep == Shape /\ [Next]_vars => Shape'
<1> SUFFICES ASSUME Shape, [Next]_vars PROVE Shape'
  OBVIOUS
<1> USE NoneAssumption, AudienceAssumption
<1> USE DEF Shape, TypeOK, WorkingOnRow, BoundRecipient, Outcome, RcptStatus,
            JobStatus, Label, Goto, LeaveRow, outboxVars, jobVars, rcptVars,
            histVars, localVars
<1>1. CASE UNCHANGED vars
  BY <1>1 DEF vars
<1>2. ASSUME NEW d \in Drain, List(d) PROVE Shape'
  BY <1>2 DEF List
<1>3. ASSUME NEW d \in Drain, NEW o \in Row, Claim(d, o) PROVE Shape'
  BY <1>3 DEF Claim
<1>4. ASSUME NEW d \in Drain, NEW o \in Row, SkipRow(d, o) PROVE Shape'
  BY <1>4 DEF SkipRow
<1>5. ASSUME NEW d \in Drain, Return(d) PROVE Shape'
  BY <1>5 DEF Return
<1>6. ASSUME NEW d \in Drain, RetireUnreadable(d) PROVE Shape'
  BY <1>6 DEF RetireUnreadable, RetireRow
<1>7. ASSUME NEW d \in Drain, ReadJob(d) PROVE Shape'
  BY <1>7 DEF ReadJob
<1>8. ASSUME NEW d \in Drain, ReadRecipients(d) PROVE Shape'
  BY <1>8 DEF ReadRecipients
<1>9. ASSUME NEW d \in Drain, ReadDeliveries(d) PROVE Shape'
  BY <1>9 DEF ReadDeliveries, Pending, KnownFailure, SomeFailed
<1>10. ASSUME NEW d \in Drain, NEW r \in Recipient, ClaimRecipient(d, r)
       PROVE Shape'
  BY <1>10 DEF ClaimRecipient, Take
<1>11. ASSUME NEW d \in Drain, NEW r \in Recipient, ResumeRecipient(d, r)
       PROVE Shape'
  BY <1>11 DEF ResumeRecipient, Take
<1>12. ASSUME NEW d \in Drain, NEW r \in Recipient, PassOver(d, r) PROVE Shape'
  BY <1>12 DEF PassOver, Take
<1>13. ASSUME NEW d \in Drain, Send(d) PROVE Shape'
  BY <1>13 DEF Send
<1>14. ASSUME NEW d \in Drain, RecordDelivery(d) PROVE Shape'
  BY <1>14 DEF RecordDelivery, Recorded
<1>15. ASSUME NEW d \in Drain, SetStatus(d) PROVE Shape'
  BY <1>15 DEF SetStatus, FinalStatus
<1>16. ASSUME NEW d \in Drain, Review(d) PROVE Shape'
  BY <1>16 DEF Review
<1>17. ASSUME NEW d \in Drain, Release(d) PROVE Shape'
  <2>1. claim' \in [Row -> Drain \union {None}] /\ live' \in [Row -> BOOLEAN]
    <3>1. CASE claim[row[d]] = d
      <4>1. /\ claim' = [claim EXCEPT ![row[d]] = None]
            /\ live' = [live EXCEPT ![row[d]] = FALSE]
        BY <1>17, <3>1, Zenon DEF Release
      <4>2. claim' \in [Row -> Drain \union {None}]
        BY <4>1
      <4>3. live' \in [Row -> BOOLEAN]
        BY <4>1
      <4> QED
        BY <4>2, <4>3
    <3>2. CASE claim[row[d]] # d
      BY <1>17, <3>2 DEF Release
    <3> QED
      BY <3>1, <3>2
  <2>2. /\ LeaveRow(d, "next")
        /\ UNCHANGED <<processed, jobVars, rcptVars, batch, sends, crashes, overruns>>
    BY <1>17 DEF Release
  <2> QED
    BY <2>1, <2>2, SMTT(20)
<1>18. ASSUME NEW d \in Drain, ReadLatest(d) PROVE Shape'
  BY <1>18 DEF ReadLatest
<1>19. ASSUME NEW d \in Drain, UpdateJob(d) PROVE Shape'
  <2> DEFINE verdict == IF anyFailed[d] THEN "failed" ELSE "sent"
  <2>1. verdict \in JobStatus
    BY Zenon DEF JobStatus, Outcome
  <2>2. /\ pc[d] = "update"
        /\ pc' = [pc EXCEPT ![d] = "mark"]
        /\ UNCHANGED <<outboxVars, rcptVars, histVars, batch, row, version,
                       seen, left, rcpt, outcome, anyFailed>>
    BY <1>19, Zenon DEF UpdateJob
  <2>3. row[d] \in Row
    BY <2>2
  <2>4. jobStatus' \in [Row -> JobStatus] /\ jobVersion' \in [Row -> Nat]
    <3> HIDE DEF verdict, JobStatus
    <3>1. CASE jobVersion[row[d]] = version[d]
      <4>1. jobStatus' = [jobStatus EXCEPT ![row[d]] = verdict]
        BY <1>19, <3>1, Zenon DEF UpdateJob, verdict
      <4>2. jobVersion' = [jobVersion EXCEPT ![row[d]] = jobVersion[row[d]] + 1]
        BY <1>19, <3>1, Zenon DEF UpdateJob
      <4> QED
        BY <2>1, <2>2, <2>3, <4>1, <4>2 DEF TypeOK
    <3>2. CASE jobVersion[row[d]] # version[d]
      BY <1>19, <3>2 DEF UpdateJob
    <3> QED
      BY <3>1, <3>2
  <2> QED
    BY <2>2, <2>4
<1>20. ASSUME NEW d \in Drain, MarkProcessed(d) PROVE Shape'
  BY <1>20 DEF MarkProcessed, RetireRow
<1>21. ASSUME NEW d \in Drain, Crash(d) PROVE Shape'
  BY <1>21 DEF Crash
<1>22. ASSUME NEW o \in Row, ExpireAbandoned(o) PROVE Shape'
  BY <1>22 DEF ExpireAbandoned
<1>23. ASSUME NEW o \in Row, ExpireOverrun(o) PROVE Shape'
  BY <1>23 DEF ExpireOverrun, Active
<1> QED
  BY <1>1, <1>2, <1>3, <1>4, <1>5, <1>6, <1>7, <1>8, <1>9, <1>10, <1>11,
     <1>12, <1>13, <1>14, <1>15, <1>16, <1>17, <1>18, <1>19, <1>20, <1>21,
     <1>22, <1>23 DEF Next, Step, WorkOnRow

\* Every variable keeps its type.
THEOREM TypeCorrect == Spec => []TypeOK
<1>1. Spec => []Shape
  BY ShapeInit, ShapeStep, PTL DEF Spec
<1> QED
  BY <1>1, PTL DEF Shape

-----------------------------------------------------------------------------
(* Leases *)

LeaseInv == HoldsLease /\ LeaseExclusive

\* Only a claim puts a drain on a row, and it succeeds only while nobody
\* holds a live lease and the row is not retired; a release needs the token.
LEMMA LeaseStep == Shape /\ LeaseInv /\ [Next]_vars => LeaseInv'
<1> SUFFICES ASSUME Shape, LeaseInv, [Next]_vars PROVE LeaseInv'
  OBVIOUS
<1> USE NoneAssumption
<1> USE DEF Shape, TypeOK, WorkingOnRow, LeaseInv, HoldsLease, LeaseExclusive,
            Goto, LeaveRow, outboxVars, jobVars, rcptVars, histVars, localVars
<1>1. CASE UNCHANGED vars
  BY <1>1 DEF vars
<1>2. ASSUME NEW d \in Drain, List(d)
       PROVE LeaseInv'
  BY <1>2 DEF List
<1>3. ASSUME NEW d \in Drain, NEW o \in Row, Claim(d, o)
       PROVE LeaseInv'
  BY <1>3 DEF Claim, Claimable, Active
<1>4. ASSUME NEW d \in Drain, NEW o \in Row, SkipRow(d, o)
       PROVE LeaseInv'
  BY <1>4 DEF SkipRow
<1>5. ASSUME NEW d \in Drain, Return(d)
       PROVE LeaseInv'
  BY <1>5 DEF Return
<1>6. ASSUME NEW d \in Drain, RetireUnreadable(d)
       PROVE LeaseInv'
  BY <1>6 DEF RetireUnreadable, RetireRow
<1>7. ASSUME NEW d \in Drain, ReadJob(d)
       PROVE LeaseInv'
  BY <1>7 DEF ReadJob
<1>8. ASSUME NEW d \in Drain, ReadRecipients(d)
       PROVE LeaseInv'
  BY <1>8 DEF ReadRecipients
<1>9. ASSUME NEW d \in Drain, ReadDeliveries(d)
       PROVE LeaseInv'
  BY <1>9 DEF ReadDeliveries
<1>10. ASSUME NEW d \in Drain, NEW r \in Recipient, ClaimRecipient(d, r)
       PROVE LeaseInv'
  BY <1>10 DEF ClaimRecipient, Take
<1>11. ASSUME NEW d \in Drain, NEW r \in Recipient, ResumeRecipient(d, r)
       PROVE LeaseInv'
  BY <1>11 DEF ResumeRecipient, Take
<1>12. ASSUME NEW d \in Drain, NEW r \in Recipient, PassOver(d, r)
       PROVE LeaseInv'
  BY <1>12 DEF PassOver, Take
<1>13. ASSUME NEW d \in Drain, Send(d)
       PROVE LeaseInv'
  BY <1>13 DEF Send
<1>14. ASSUME NEW d \in Drain, RecordDelivery(d)
       PROVE LeaseInv'
  BY <1>14 DEF RecordDelivery
<1>15. ASSUME NEW d \in Drain, SetStatus(d)
       PROVE LeaseInv'
  BY <1>15 DEF SetStatus
<1>16. ASSUME NEW d \in Drain, Review(d)
       PROVE LeaseInv'
  BY <1>16 DEF Review
<1>17. ASSUME NEW d \in Drain, Release(d)
       PROVE LeaseInv'
  BY <1>17 DEF Release
<1>18. ASSUME NEW d \in Drain, ReadLatest(d)
       PROVE LeaseInv'
  BY <1>18 DEF ReadLatest
<1>19. ASSUME NEW d \in Drain, UpdateJob(d)
       PROVE LeaseInv'
  BY <1>19 DEF UpdateJob
<1>20. ASSUME NEW d \in Drain, MarkProcessed(d)
       PROVE LeaseInv'
  BY <1>20 DEF MarkProcessed, RetireRow
<1>21. ASSUME NEW d \in Drain, Crash(d)
       PROVE LeaseInv'
  BY <1>21 DEF Crash
<1>22. ASSUME NEW o \in Row, ExpireAbandoned(o)
       PROVE LeaseInv'
  BY <1>22 DEF ExpireAbandoned, Abandoned, Active
<1>23. ASSUME NEW o \in Row, ExpireOverrun(o)
       PROVE LeaseInv'
  BY <1>23 DEF ExpireOverrun, Abandoned, Active
<1> QED
  BY <1>1, <1>2, <1>3, <1>4, <1>5, <1>6, <1>7, <1>8, <1>9, <1>10, <1>11,
     <1>12, <1>13, <1>14, <1>15, <1>16, <1>17, <1>18, <1>19, <1>20, <1>21,
     <1>22, <1>23 DEF Next, Step, WorkOnRow

-----------------------------------------------------------------------------
(* Deliveries *)

DeliveryInv == /\ SettledAfterDelivery
               /\ StatusAfterRecord
               /\ RetiredMeansDelivered
               /\ NoStrandedRecipient

\* What is delivered stays delivered.
LEMMA DeliveredGrows ==
  Shape /\ [Next]_vars => \A r \in Recipient : Delivered(r) => Delivered(r)'
<1> SUFFICES ASSUME Shape, [Next]_vars, NEW x \in Recipient, Delivered(x)
             PROVE Delivered(x)'
  OBVIOUS
<1> USE DEF Shape, TypeOK, BoundRecipient, Delivered, LeaveRow, rcptVars
<1>1. CASE UNCHANGED events
  BY <1>1
<1>2. ASSUME NEW d \in Drain, RecordDelivery(d) PROVE Delivered(x)'
  <2>1. events' = [events EXCEPT ![rcpt[d]] = Append(@, outcome[d])]
    BY <1>2, Zenon DEF RecordDelivery, Recorded
  <2>2. rcpt[d] \in Recipient /\ outcome[d] \in Outcome
    BY <1>2 DEF RecordDelivery
  <2>3. CASE x = rcpt[d]
    BY <2>1, <2>2, <2>3
  <2>4. CASE x # rcpt[d]
    BY <2>1, <2>2, <2>4
  <2> QED
    BY <2>3, <2>4
<1>3. UNCHANGED events \/ \E d \in Drain : RecordDelivery(d)
  BY DEF Next, Step, WorkOnRow, vars, List, Claim, SkipRow, Return,
     RetireUnreadable, ReadJob, ReadRecipients, ReadDeliveries, ClaimRecipient,
     ResumeRecipient, PassOver, Take, Send, SetStatus, Review, Release,
     ReadLatest, UpdateJob, MarkProcessed, Crash, ExpireAbandoned,
     ExpireOverrun
<1> QED
  BY <1>1, <1>2, <1>3

\* A step that only reads, or writes other tables, keeps every part; the
\* interesting steps are the record, the status, the review and the mark.
LEMMA DeliveryStep == Shape /\ DeliveryInv /\ [Next]_vars => DeliveryInv'
<1> SUFFICES ASSUME Shape, DeliveryInv, [Next]_vars PROVE DeliveryInv'
  OBVIOUS
<1>0. /\ \A r \in Recipient : Delivered(r) => Delivered(r)'
      /\ \A o \in Row : AllDelivered(o) => AllDelivered(o)'
  BY DeliveredGrows, AudienceAssumption DEF AllDelivered
<1> USE <1>0, NoneAssumption, AudienceAssumption
<1> USE DEF Shape, TypeOK, WorkingOnRow, BoundRecipient, DeliveryInv,
            SettledAfterDelivery, StatusAfterRecord, RetiredMeansDelivered,
            NoStrandedRecipient, Goto, LeaveRow, outboxVars, jobVars, rcptVars,
            histVars, localVars
<1>1. CASE UNCHANGED vars
  BY <1>1 DEF vars
<1>2. ASSUME NEW d \in Drain, List(d)
       PROVE DeliveryInv'
  BY <1>2 DEF List
<1>3. ASSUME NEW d \in Drain, NEW o \in Row, Claim(d, o)
       PROVE DeliveryInv'
  BY <1>3 DEF Claim, Claimable, Active
<1>4. ASSUME NEW d \in Drain, NEW o \in Row, SkipRow(d, o)
       PROVE DeliveryInv'
  BY <1>4 DEF SkipRow
<1>5. ASSUME NEW d \in Drain, Return(d)
       PROVE DeliveryInv'
  BY <1>5 DEF Return
<1>6. ASSUME NEW d \in Drain, RetireUnreadable(d)
       PROVE DeliveryInv'
  <2>1. AllDelivered(row[d])
    BY <1>6, UnreadableAssumption DEF RetireUnreadable, AllDelivered
  <2> QED
    BY <1>6, <2>1 DEF RetireUnreadable, RetireRow
<1>7. ASSUME NEW d \in Drain, ReadJob(d)
       PROVE DeliveryInv'
  BY <1>7 DEF ReadJob
<1>8. ASSUME NEW d \in Drain, ReadRecipients(d)
       PROVE DeliveryInv'
  BY <1>8 DEF ReadRecipients
<1>9. ASSUME NEW d \in Drain, ReadDeliveries(d)
       PROVE DeliveryInv'
  BY <1>9 DEF ReadDeliveries, Pending, AllDelivered
<1>10. ASSUME NEW d \in Drain, NEW r \in Recipient, ClaimRecipient(d, r)
       PROVE DeliveryInv'
  BY <1>10 DEF ClaimRecipient, Take, Outcome
<1>11. ASSUME NEW d \in Drain, NEW r \in Recipient, ResumeRecipient(d, r)
       PROVE DeliveryInv'
  BY <1>11 DEF ResumeRecipient, Take
<1>12. ASSUME NEW d \in Drain, NEW r \in Recipient, PassOver(d, r)
       PROVE DeliveryInv'
  BY <1>12 DEF PassOver, Take
<1>13. ASSUME NEW d \in Drain, Send(d)
       PROVE DeliveryInv'
  BY <1>13 DEF Send
<1>14. ASSUME NEW d \in Drain, RecordDelivery(d)
       PROVE DeliveryInv'
  <2>1. /\ pc[d] = "record"
        /\ events' = [events EXCEPT ![rcpt[d]] = Append(@, outcome[d])]
        /\ pc' = [pc EXCEPT ![d] = "status"]
        /\ UNCHANGED <<outboxVars, rcptStatus, row, rcpt>>
    BY <1>14, Zenon DEF RecordDelivery, Recorded
  <2>2. rcpt[d] \in Recipient /\ outcome[d] \in Outcome
    BY <2>1
  <2>3. Delivered(rcpt[d])'
    BY <2>1, <2>2 DEF Delivered
  <2>4. StatusAfterRecord'
    <3> SUFFICES ASSUME NEW e \in Drain, pc'[e] = "status"
                 PROVE Delivered(rcpt[e])'
      OBVIOUS
    <3>1. CASE e = d
      BY <2>3, <3>1
    <3>2. CASE e # d
      <4>1. rcpt[e] \in Recipient /\ Delivered(rcpt[e])
        BY <2>1, <3>2
      <4>2. events'[rcpt[e]] # <<>>
        BY <4>1, <1>0 DEF Delivered
      <4> QED
        BY <4>2, <2>1 DEF Delivered
    <3> QED
      BY <3>1, <3>2
  <2>5. SettledAfterDelivery' /\ RetiredMeansDelivered' /\ NoStrandedRecipient'
    BY <2>1
  <2> QED
    BY <2>4, <2>5
<1>15. ASSUME NEW d \in Drain, SetStatus(d)
       PROVE DeliveryInv'
  BY <1>15 DEF SetStatus, FinalStatus, Outcome
<1>16. ASSUME NEW d \in Drain, Review(d)
       PROVE DeliveryInv'
  BY <1>16 DEF Review, Complete
<1>17. ASSUME NEW d \in Drain, Release(d)
       PROVE DeliveryInv'
  BY <1>17 DEF Release
<1>18. ASSUME NEW d \in Drain, ReadLatest(d)
       PROVE DeliveryInv'
  BY <1>18 DEF ReadLatest
<1>19. ASSUME NEW d \in Drain, UpdateJob(d)
       PROVE DeliveryInv'
  BY <1>19 DEF UpdateJob
<1>20. ASSUME NEW d \in Drain, MarkProcessed(d)
       PROVE DeliveryInv'
  BY <1>20 DEF MarkProcessed, RetireRow
<1>21. ASSUME NEW d \in Drain, Crash(d)
       PROVE DeliveryInv'
  BY <1>21 DEF Crash
<1>22. ASSUME NEW o \in Row, ExpireAbandoned(o)
       PROVE DeliveryInv'
  BY <1>22 DEF ExpireAbandoned, Abandoned, Active
<1>23. ASSUME NEW o \in Row, ExpireOverrun(o)
       PROVE DeliveryInv'
  BY <1>23 DEF ExpireOverrun, Abandoned, Active
<1> QED
  BY <1>1, <1>2, <1>3, <1>4, <1>5, <1>6, <1>7, <1>8, <1>9, <1>10, <1>11,
     <1>12, <1>13, <1>14, <1>15, <1>16, <1>17, <1>18, <1>19, <1>20, <1>21,
     <1>22, <1>23 DEF Next, Step, WorkOnRow

-----------------------------------------------------------------------------
(* Copies.  A drain may send to a recipient as long as it has not passed   *)
(* him; it has to be paid for by the one tenure a row has anyway, or by a  *)
(* crash or an overrun.  Drains that are late are counted one by one: each *)
(* has cost an overrun.  Of those that are not late a row has one, and it  *)
(* got the row from one that crashed, overran or posted nothing.           *)

\* What a drain has left is of its row, and its recipient is behind it.
Bound ==
  \A d \in Drain :
    /\ row[d] = None => left[d] = {}
    /\ row[d] # None => left[d] \subseteq Audience[row[d]]
    /\ pc[d] # "loop" /\ pc[d] \notin {"send", "record", "status"} => left[d] = {}
    /\ pc[d] \in {"send", "record", "status"}
         => rcpt[d] \in Audience[row[d]] /\ rcpt[d] \notin left[d]

LEMMA BoundStep == Shape /\ Bound /\ [Next]_vars => Bound'
<1> SUFFICES ASSUME Shape, Bound, [Next]_vars PROVE Bound'
  OBVIOUS
<1> USE NoneAssumption, AudienceAssumption
<1> USE DEF Shape, TypeOK, WorkingOnRow, BoundRecipient, Bound, Goto, LeaveRow,
            outboxVars, jobVars, rcptVars, histVars, localVars
<1>1. CASE UNCHANGED vars
  BY <1>1 DEF vars
<1>2. ASSUME NEW d \in Drain, List(d) PROVE Bound'
  BY <1>2 DEF List
<1>3. ASSUME NEW d \in Drain, NEW o \in Row, Claim(d, o) PROVE Bound'
  BY <1>3 DEF Claim
<1>4. ASSUME NEW d \in Drain, NEW o \in Row, SkipRow(d, o) PROVE Bound'
  BY <1>4 DEF SkipRow
<1>5. ASSUME NEW d \in Drain, Return(d) PROVE Bound'
  BY <1>5 DEF Return
<1>6. ASSUME NEW d \in Drain, RetireUnreadable(d) PROVE Bound'
  BY <1>6 DEF RetireUnreadable, RetireRow
<1>7. ASSUME NEW d \in Drain, ReadJob(d) PROVE Bound'
  BY <1>7 DEF ReadJob
<1>8. ASSUME NEW d \in Drain, ReadRecipients(d) PROVE Bound'
  BY <1>8 DEF ReadRecipients
<1>9. ASSUME NEW d \in Drain, ReadDeliveries(d) PROVE Bound'
  BY <1>9 DEF ReadDeliveries, Pending
<1>10. ASSUME NEW d \in Drain, NEW x \in Recipient, ClaimRecipient(d, x) PROVE Bound'
  BY <1>10 DEF ClaimRecipient, Take
<1>11. ASSUME NEW d \in Drain, NEW x \in Recipient, ResumeRecipient(d, x) PROVE Bound'
  BY <1>11 DEF ResumeRecipient, Take
<1>12. ASSUME NEW d \in Drain, NEW x \in Recipient, PassOver(d, x) PROVE Bound'
  BY <1>12 DEF PassOver, Take
<1>13. ASSUME NEW d \in Drain, Send(d) PROVE Bound'
  BY <1>13 DEF Send
<1>14. ASSUME NEW d \in Drain, RecordDelivery(d) PROVE Bound'
  BY <1>14 DEF RecordDelivery
<1>15. ASSUME NEW d \in Drain, SetStatus(d) PROVE Bound'
  BY <1>15 DEF SetStatus
<1>16. ASSUME NEW d \in Drain, Review(d) PROVE Bound'
  BY <1>16 DEF Review
<1>17. ASSUME NEW d \in Drain, Release(d) PROVE Bound'
  BY <1>17 DEF Release
<1>18. ASSUME NEW d \in Drain, ReadLatest(d) PROVE Bound'
  BY <1>18 DEF ReadLatest
<1>19. ASSUME NEW d \in Drain, UpdateJob(d) PROVE Bound'
  BY <1>19 DEF UpdateJob
<1>20. ASSUME NEW d \in Drain, MarkProcessed(d) PROVE Bound'
  BY <1>20 DEF MarkProcessed, RetireRow
<1>21. ASSUME NEW d \in Drain, Crash(d) PROVE Bound'
  BY <1>21 DEF Crash
<1>22. ASSUME NEW o \in Row, ExpireAbandoned(o) PROVE Bound'
  BY <1>22 DEF ExpireAbandoned
<1>23. ASSUME NEW o \in Row, ExpireOverrun(o) PROVE Bound'
  BY <1>23 DEF ExpireOverrun
<1> QED
  BY <1>1, <1>2, <1>3, <1>4, <1>5, <1>6, <1>7, <1>8, <1>9, <1>10, <1>11, <1>12, <1>13,
     <1>14, <1>15, <1>16, <1>17, <1>18, <1>19, <1>20, <1>21, <1>22, <1>23 DEF Next, Step,
     WorkOnRow

MaySend(d, r) ==
  /\ row[d] # None /\ r \in Audience[row[d]]
  /\ \/ pc[d] \in {"job", "recipients", "deliveries"} /\ ~Delivered(r)
     \/ r \in left[d]
     \/ pc[d] = "send" /\ rcpt[d] = r

\* The message has left and its outcome is not recorded yet.
Posting(d, r) == pc[d] = "record" /\ rcpt[d] = r

MayRecord(d, r) == MaySend(d, r) \/ Posting(d, r)

Claims(d) == \E o \in Row : Claim(d, o)

\* Whom a drain may send to only grows fewer, but for a claim.
LEMMA Owing ==
  ASSUME Shape, Bound, [Next]_vars, NEW e \in Drain, NEW r \in Recipient, ~Claims(e)
  PROVE  /\ MaySend(e, r)' => MaySend(e, r)
         /\ MayRecord(e, r)' => MayRecord(e, r)
<1> DEFINE Less == /\ MaySend(e, r)' => MaySend(e, r)
                   /\ MayRecord(e, r)' => MayRecord(e, r)
<1>0. Delivered(r) => Delivered(r)'
  BY DeliveredGrows
<1> USE <1>0, NoneAssumption, AudienceAssumption
<1> USE DEF Shape, TypeOK, WorkingOnRow, BoundRecipient, Bound, MaySend, MayRecord, Posting,
            Goto, LeaveRow, outboxVars, jobVars, rcptVars, histVars, localVars
<1>1. CASE UNCHANGED vars
  BY <1>1 DEF vars
<1>2. ASSUME NEW d \in Drain, List(d) PROVE Less
  BY <1>2 DEF List
<1>3. ASSUME NEW d \in Drain, NEW o \in Row, Claim(d, o) PROVE Less
  BY <1>3 DEF Claim, Claims
<1>4. ASSUME NEW d \in Drain, NEW o \in Row, SkipRow(d, o) PROVE Less
  BY <1>4 DEF SkipRow
<1>5. ASSUME NEW d \in Drain, Return(d) PROVE Less
  BY <1>5 DEF Return
<1>6. ASSUME NEW d \in Drain, RetireUnreadable(d) PROVE Less
  BY <1>6 DEF RetireUnreadable, RetireRow
<1>7. ASSUME NEW d \in Drain, ReadJob(d) PROVE Less
  BY <1>7 DEF ReadJob
<1>8. ASSUME NEW d \in Drain, ReadRecipients(d) PROVE Less
  BY <1>8 DEF ReadRecipients
<1>9. ASSUME NEW d \in Drain, ReadDeliveries(d) PROVE Less
  BY <1>9 DEF ReadDeliveries, Pending
<1>10. ASSUME NEW d \in Drain, NEW x \in Recipient, ClaimRecipient(d, x) PROVE Less
  BY <1>10 DEF ClaimRecipient, Take
<1>11. ASSUME NEW d \in Drain, NEW x \in Recipient, ResumeRecipient(d, x) PROVE Less
  BY <1>11 DEF ResumeRecipient, Take
<1>12. ASSUME NEW d \in Drain, NEW x \in Recipient, PassOver(d, x) PROVE Less
  BY <1>12 DEF PassOver, Take
<1>13. ASSUME NEW d \in Drain, Send(d) PROVE Less
  BY <1>13 DEF Send
<1>14. ASSUME NEW d \in Drain, RecordDelivery(d) PROVE Less
  BY <1>14 DEF RecordDelivery
<1>15. ASSUME NEW d \in Drain, SetStatus(d) PROVE Less
  BY <1>15 DEF SetStatus
<1>16. ASSUME NEW d \in Drain, Review(d) PROVE Less
  BY <1>16 DEF Review
<1>17. ASSUME NEW d \in Drain, Release(d) PROVE Less
  BY <1>17 DEF Release
<1>18. ASSUME NEW d \in Drain, ReadLatest(d) PROVE Less
  BY <1>18 DEF ReadLatest
<1>19. ASSUME NEW d \in Drain, UpdateJob(d) PROVE Less
  BY <1>19 DEF UpdateJob
<1>20. ASSUME NEW d \in Drain, MarkProcessed(d) PROVE Less
  BY <1>20 DEF MarkProcessed, RetireRow
<1>21. ASSUME NEW d \in Drain, Crash(d) PROVE Less
  BY <1>21 DEF Crash
<1>22. ASSUME NEW o \in Row, ExpireAbandoned(o) PROVE Less
  BY <1>22 DEF ExpireAbandoned
<1>23. ASSUME NEW o \in Row, ExpireOverrun(o) PROVE Less
  BY <1>23 DEF ExpireOverrun
<1> QED
  BY <1>1, <1>2, <1>3, <1>4, <1>5, <1>6, <1>7, <1>8, <1>9, <1>10, <1>11, <1>12, <1>13,
     <1>14, <1>15, <1>16, <1>17, <1>18, <1>19, <1>20, <1>21, <1>22, <1>23 DEF Next, Step,
     WorkOnRow

LateSenders(r)   == {d \in late : MaySend(d, r)}
LateRecorders(r) == {d \in late : MayRecord(d, r)}

\* Somebody who is not late may send, or a row may be claimed for it.
SendOpen(r) == \/ \E d \in Drain \ late : MaySend(d, r)
               \/ ~Delivered(r) /\ \A d \in Drain \ late : ~Posting(d, r)

RecordOpen(r) == ~Delivered(r) \/ \E d \in Drain \ late : MayRecord(d, r)

PaidFor(n, owed, open, paid) ==
  /\ n + Cardinality(owed) <= 1 + paid
  /\ open => n + Cardinality(owed) <= paid

CopyInv ==
  /\ IsFiniteSet(late)
  /\ \A d \in late : row[d] # None
  /\ \A r \in Recipient :
       /\ PaidFor(sends[r], LateSenders(r), SendOpen(r), crashes + overruns)
       /\ PaidFor(Len(events[r]), LateRecorders(r), RecordOpen(r), overruns)

\* Fewer that owe, and no more openings: nothing new has to be paid.
LEMMA PaidStill ==
  ASSUME NEW n \in Nat, NEW paid \in Nat, NEW owed, NEW open,
         NEW paid2 \in Nat, NEW owed2, NEW open2,
         PaidFor(n, owed, open, paid), IsFiniteSet(owed), owed2 \subseteq owed,
         paid <= paid2, open2 => open \/ paid < paid2
  PROVE  PaidFor(n, owed2, open2, paid2)
<1>1. /\ Cardinality(owed2) <= Cardinality(owed)
      /\ Cardinality(owed2) \in Nat /\ Cardinality(owed) \in Nat
  BY FS_Subset, FS_CardinalityType
<1> QED
  BY <1>1 DEF PaidFor

\* One more message, by the one that is not late ...
LEMMA PaidByTenure ==
  ASSUME NEW n \in Nat, NEW paid \in Nat, NEW owed, NEW open, NEW owed2, NEW open2,
         PaidFor(n, owed, open, paid), IsFiniteSet(owed), owed2 \subseteq owed,
         open, ~open2
  PROVE  PaidFor(n + 1, owed2, open2, paid)
<1>1. /\ Cardinality(owed2) <= Cardinality(owed)
      /\ Cardinality(owed2) \in Nat /\ Cardinality(owed) \in Nat
  BY FS_Subset, FS_CardinalityType
<1> QED
  BY <1>1 DEF PaidFor

\* ... or by one of those that are.
LEMMA PaidByLate ==
  ASSUME NEW n \in Nat, NEW paid \in Nat, NEW owed, NEW open, NEW owed2, NEW open2,
         PaidFor(n, owed, open, paid), IsFiniteSet(owed),
         NEW d \in owed, owed2 \subseteq owed \ {d}, open2 => open
  PROVE  PaidFor(n + 1, owed2, open2, paid)
<1>1. /\ IsFiniteSet(owed \ {d}) /\ Cardinality(owed \ {d}) = Cardinality(owed) - 1
      /\ Cardinality(owed) \in Nat
  BY FS_RemoveElement, FS_CardinalityType
<1>2. Cardinality(owed2) <= Cardinality(owed \ {d}) /\ Cardinality(owed2) \in Nat
  BY <1>1, FS_Subset, FS_CardinalityType
<1> QED
  BY <1>1, <1>2 DEF PaidFor

\* A lease that runs out pays for the drain that is late from now on.
LEMMA PaidByOverrun ==
  ASSUME NEW n \in Nat, NEW paid \in Nat, NEW owed, NEW open, NEW owed2, NEW open2, NEW d,
         PaidFor(n, owed, open, paid), IsFiniteSet(owed),
         owed2 \subseteq owed \union {d}, d \in owed2 => open \/ d \in owed
  PROVE  PaidFor(n, owed2, open2, paid + 1)
<1>0. Cardinality(owed) \in Nat
  BY FS_CardinalityType
<1>1. CASE owed2 \subseteq owed
  <2>1. Cardinality(owed2) <= Cardinality(owed) /\ Cardinality(owed2) \in Nat
    BY <1>1, FS_Subset, FS_CardinalityType
  <2> QED
    BY <1>0, <2>1 DEF PaidFor
<1>2. CASE d \in owed2 /\ d \notin owed
  <2>1. IsFiniteSet(owed \union {d}) /\ Cardinality(owed \union {d}) = Cardinality(owed) + 1
    BY <1>2, FS_AddElement
  <2>2. Cardinality(owed2) <= Cardinality(owed \union {d}) /\ Cardinality(owed2) \in Nat
    BY <2>1, FS_Subset, FS_CardinalityType
  <2> QED
    BY <1>0, <1>2, <2>1, <2>2 DEF PaidFor
<1> QED
  BY <1>1, <1>2

\* A step makes a drain late only by running out its lease, and takes it off
\* its row when it is late no more.
LEMMA LateChanges ==
  ASSUME Shape, CopyInv, [Next]_vars
  PROVE  /\ (~\E o \in Row : ExpireOverrun(o)) => late' \subseteq late /\ overruns' = overruns
         /\ \A d \in late' : row'[d] # None
         /\ \A d \in Drain : d \in late /\ d \notin late' => row'[d] = None
         /\ \A d \in Drain : Claims(d) => d \notin late
         /\ \A d \in Drain, r \in Recipient :
              Posting(d, r) => Posting(d, r)' \/ RecordDelivery(d) \/ Crash(d)
<1> DEFINE Goal ==
      /\ (~\E o \in Row : ExpireOverrun(o)) => late' \subseteq late /\ overruns' = overruns
      /\ \A d \in late' : row'[d] # None
      /\ \A d \in Drain : d \in late /\ d \notin late' => row'[d] = None
      /\ \A d \in Drain, r \in Recipient :
           Posting(d, r) => Posting(d, r)' \/ RecordDelivery(d) \/ Crash(d)
<1>0. \A d \in Drain : Claims(d) => d \notin late
  BY DEF Claims, Claim, CopyInv, Shape, WorkingOnRow
<1> USE NoneAssumption
<1> USE DEF Shape, TypeOK, CopyInv, Posting, Goto, LeaveRow, outboxVars, jobVars, rcptVars,
            histVars, localVars
<1>1. CASE UNCHANGED vars
  BY <1>0, <1>1 DEF vars
<1>2. ASSUME NEW d \in Drain, List(d) PROVE Goal
  BY <1>2 DEF List
<1>3. ASSUME NEW d \in Drain, NEW o \in Row, Claim(d, o) PROVE Goal
  BY <1>3 DEF Claim
<1>4. ASSUME NEW d \in Drain, NEW o \in Row, SkipRow(d, o) PROVE Goal
  BY <1>4 DEF SkipRow
<1>5. ASSUME NEW d \in Drain, Return(d) PROVE Goal
  BY <1>5 DEF Return
<1>6. ASSUME NEW d \in Drain, RetireUnreadable(d) PROVE Goal
  BY <1>6 DEF RetireUnreadable
<1>7. ASSUME NEW d \in Drain, ReadJob(d) PROVE Goal
  BY <1>7 DEF ReadJob
<1>8. ASSUME NEW d \in Drain, ReadRecipients(d) PROVE Goal
  BY <1>8 DEF ReadRecipients
<1>9. ASSUME NEW d \in Drain, ReadDeliveries(d) PROVE Goal
  BY <1>9 DEF ReadDeliveries
<1>10. ASSUME NEW d \in Drain, NEW x \in Recipient, ClaimRecipient(d, x) PROVE Goal
  BY <1>10 DEF ClaimRecipient, Take
<1>11. ASSUME NEW d \in Drain, NEW x \in Recipient, ResumeRecipient(d, x) PROVE Goal
  BY <1>11 DEF ResumeRecipient, Take
<1>12. ASSUME NEW d \in Drain, NEW x \in Recipient, PassOver(d, x) PROVE Goal
  BY <1>12 DEF PassOver, Take
<1>13. ASSUME NEW d \in Drain, Send(d) PROVE Goal
  BY <1>13 DEF Send
<1>14. ASSUME NEW d \in Drain, RecordDelivery(d) PROVE Goal
  BY <1>14 DEF RecordDelivery
<1>15. ASSUME NEW d \in Drain, SetStatus(d) PROVE Goal
  BY <1>15 DEF SetStatus
<1>16. ASSUME NEW d \in Drain, Review(d) PROVE Goal
  BY <1>16 DEF Review
<1>17. ASSUME NEW d \in Drain, Release(d) PROVE Goal
  BY <1>17 DEF Release
<1>18. ASSUME NEW d \in Drain, ReadLatest(d) PROVE Goal
  BY <1>18 DEF ReadLatest
<1>19. ASSUME NEW d \in Drain, UpdateJob(d) PROVE Goal
  BY <1>19 DEF UpdateJob
<1>20. ASSUME NEW d \in Drain, MarkProcessed(d) PROVE Goal
  BY <1>20 DEF MarkProcessed
<1>21. ASSUME NEW d \in Drain, Crash(d) PROVE Goal
  BY <1>21 DEF Crash
<1>22. ASSUME NEW o \in Row, ExpireAbandoned(o) PROVE Goal
  BY <1>22 DEF ExpireAbandoned
<1>23. ASSUME NEW o \in Row, ExpireOverrun(o) PROVE Goal
  BY <1>23 DEF ExpireOverrun, Abandoned, Active
<1> QED
  BY <1>0, <1>1, <1>2, <1>3, <1>4, <1>5, <1>6, <1>7, <1>8, <1>9, <1>10, <1>11, <1>12,
     <1>13, <1>14, <1>15, <1>16, <1>17, <1>18, <1>19, <1>20, <1>21, <1>22, <1>23 DEF Next,
     Step, WorkOnRow

\* The row of a drain that may record for a recipient is his.
LEMMA RecorderRow ==
  ASSUME Shape, Bound, NEW d \in Drain, NEW r \in Recipient, MayRecord(d, r)
  PROVE  row[d] \in Row /\ r \in Audience[row[d]]
BY DEF MayRecord, MaySend, Posting, Shape, TypeOK, WorkingOnRow, Bound

\* Of the drains that are not late at most one may record for a recipient.
LEMMA OneRecorder ==
  ASSUME Shape, LeaseInv, Bound, NEW r \in Recipient,
         NEW d \in Drain \ late, MayRecord(d, r), NEW e \in Drain \ late, MayRecord(e, r)
  PROVE  d = e
<1>1. row[d] \in Row /\ r \in Audience[row[d]] /\ row[e] \in Row /\ r \in Audience[row[e]]
  BY RecorderRow
<1>2. row[d] = row[e] /\ row[d] # None
  BY <1>1, DisjointAssumption, NoneAssumption
<1> QED
  BY <1>2 DEF LeaseInv, LeaseExclusive

\* Nobody claims a row while one that is not late posts to its recipients.
LEMMA ClaimOpens ==
  ASSUME Shape, LeaseInv, Bound, NEW e \in Drain, Claims(e), NEW r \in Recipient,
         MayRecord(e, r)'
  PROVE  ~Delivered(r) /\ \A d \in Drain \ late : ~Posting(d, r)
<1>1. PICK o \in Row : Claim(e, o)
  BY DEF Claims
<1>2. /\ row'[e] = o /\ pc'[e] = "job" /\ left'[e] = {} /\ UNCHANGED events
      /\ Claimable(o)
  BY <1>1 DEF Claim, Shape, TypeOK, WorkingOnRow, Bound, Goto, rcptVars
<1>3. r \in Audience[o] /\ ~Delivered(r)
  BY <1>2 DEF MayRecord, MaySend, Posting, Delivered
<1>4. ASSUME NEW d \in Drain, d \notin late, Posting(d, r) PROVE FALSE
  <2>1. row[d] \in Row /\ r \in Audience[row[d]]
    BY <1>4, RecorderRow DEF MayRecord
  <2>2. row[d] = o
    BY <2>1, <1>3, DisjointAssumption
  <2> QED
    BY <1>4, <2>1, <2>2, <1>2, NoneAssumption DEF LeaseInv, HoldsLease, Claimable, Active
<1> QED
  BY <1>3, <1>4

\* What is owed, and what is open, only by a crash or an overrun becomes more.
LEMMA OpenStep ==
  ASSUME Shape, LeaseInv, Bound, CopyInv, [Next]_vars, NEW r \in Recipient,
         ~\E o \in Row : ExpireOverrun(o)
  PROVE  /\ LateSenders(r)' \subseteq LateSenders(r)
         /\ LateRecorders(r)' \subseteq LateRecorders(r)
         /\ SendOpen(r)' => SendOpen(r) \/ \E d \in Drain : Crash(d)
         /\ RecordOpen(r)' => RecordOpen(r)
<1>0. /\ late' \subseteq late /\ late \subseteq Drain
      /\ \A d \in Drain : d \in late /\ d \notin late' => row'[d] = None
      /\ \A d \in Drain : Claims(d) => d \notin late
      /\ \A d \in Drain : Posting(d, r) => Posting(d, r)' \/ RecordDelivery(d) \/ Crash(d)
      /\ \A d \in Drain : d \notin late => d \notin late'
  BY LateChanges DEF Shape, TypeOK
<1>1. Delivered(r) => Delivered(r)'
  BY DeliveredGrows
<1>2. \A d \in Drain : ~Claims(d) => /\ MaySend(d, r)' => MaySend(d, r)
                                     /\ MayRecord(d, r)' => MayRecord(d, r)
  BY Owing
<1>3. LateSenders(r)' \subseteq LateSenders(r) /\ LateRecorders(r)' \subseteq LateRecorders(r)
  BY <1>0, <1>2 DEF LateSenders, LateRecorders
<1>4. ASSUME NEW e \in Drain, MayRecord(e, r)', e \notin late' PROVE e \notin late
  <2>1. row'[e] # None
    BY <1>4, ShapeStep DEF MayRecord, MaySend, Posting, Shape, WorkingOnRow
  <2> QED
    BY <1>0, <1>4, <2>1
<1>5. ASSUME NEW e \in Drain, MaySend(e, r)', e \notin late' PROVE SendOpen(r)
  <2>1. MayRecord(e, r)'
    BY <1>5 DEF MayRecord
  <2>2. CASE Claims(e)
    BY <2>1, <2>2, ClaimOpens DEF SendOpen
  <2>3. CASE ~Claims(e)
    BY <2>1, <2>3, <1>2, <1>4, <1>5 DEF SendOpen
  <2> QED
    BY <2>2, <2>3
<1>6. ASSUME NEW e \in Drain, MayRecord(e, r)', e \notin late' PROVE RecordOpen(r)
  <2>1. CASE Claims(e)
    BY <1>6, <2>1, ClaimOpens DEF RecordOpen
  <2>2. CASE ~Claims(e)
    BY <2>2, <1>2, <1>4, <1>6 DEF RecordOpen
  <2> QED
    BY <2>1, <2>2
<1>7. ASSUME NEW d \in Drain, RecordDelivery(d), Posting(d, r) PROVE Delivered(r)'
  BY <1>7 DEF RecordDelivery, Recorded, Posting, Delivered, Shape, TypeOK
<1>8. ASSUME ~Delivered(r)', \A d \in Drain \ late' : ~Posting(d, r)'
      PROVE  SendOpen(r) \/ \E d \in Drain : Crash(d)
  BY <1>8, <1>0, <1>1, <1>7 DEF SendOpen
<1>9. SendOpen(r)' => SendOpen(r) \/ \E d \in Drain : Crash(d)
  BY <1>5, <1>8 DEF SendOpen
<1>10. RecordOpen(r)' => RecordOpen(r)
  BY <1>1, <1>6 DEF RecordOpen
<1> QED
  BY <1>3, <1>9, <1>10

\* A message is sent, an outcome recorded or a crash counted by one step.
LEMMA OneAtATime ==
  ASSUME Shape, [Next]_vars
  PROVE  /\ \A r \in Recipient : sends'[r] = sends[r] \/ \E d \in Drain : Send(d) /\ rcpt[d] = r
         /\ \A r \in Recipient :
              events'[r] = events[r] \/ \E d \in Drain : RecordDelivery(d) /\ rcpt[d] = r
         /\ crashes' = crashes \/ crashes' = crashes + 1
         /\ \A d \in Drain : Crash(d) => crashes' = crashes + 1
<1>1. UNCHANGED sends \/ \E d \in Drain : Send(d)
  BY DEF Next, Step, WorkOnRow, vars, List, Claim, SkipRow, Return, RetireUnreadable, ReadJob,
     ReadRecipients, ReadDeliveries, ClaimRecipient, ResumeRecipient, PassOver, Take,
     RecordDelivery, SetStatus, Review, Release, ReadLatest, UpdateJob, MarkProcessed, Crash,
     ExpireAbandoned, ExpireOverrun, histVars
<1>2. UNCHANGED events \/ \E d \in Drain : RecordDelivery(d)
  BY DEF Next, Step, WorkOnRow, vars, List, Claim, SkipRow, Return, RetireUnreadable, ReadJob,
     ReadRecipients, ReadDeliveries, ClaimRecipient, ResumeRecipient, PassOver, Take, Send,
     SetStatus, Review, Release, ReadLatest, UpdateJob, MarkProcessed, Crash,
     ExpireAbandoned, ExpireOverrun, rcptVars
<1>3. UNCHANGED crashes \/ \E d \in Drain : Crash(d)
  BY DEF Next, Step, WorkOnRow, vars, List, Claim, SkipRow, Return, RetireUnreadable, ReadJob,
     ReadRecipients, ReadDeliveries, ClaimRecipient, ResumeRecipient, PassOver, Take, Send,
     RecordDelivery, SetStatus, Review, Release, ReadLatest, UpdateJob, MarkProcessed,
     ExpireAbandoned, ExpireOverrun, histVars
<1>4. ASSUME NEW d \in Drain, Send(d)
      PROVE  \A r \in Recipient : sends'[r] = sends[r] \/ rcpt[d] = r
  BY <1>4 DEF Send, Shape, TypeOK
<1>5. ASSUME NEW d \in Drain, RecordDelivery(d)
      PROVE  \A r \in Recipient : events'[r] = events[r] \/ rcpt[d] = r
  BY <1>5 DEF RecordDelivery, Shape, TypeOK
<1>6. \A d \in Drain : Crash(d) => crashes' = crashes + 1
  BY DEF Crash
<1> QED
  BY <1>1, <1>2, <1>3, <1>4, <1>5, <1>6

LEMMA SendEffect ==
  ASSUME Shape, Bound, NEW d \in Drain, Send(d), NEW r \in Recipient, rcpt[d] = r
  PROVE  /\ sends'[r] = sends[r] + 1 /\ crashes' + overruns' = crashes + overruns
         /\ pc'[d] = "record" /\ late' = late
         /\ MaySend(d, r) /\ Posting(d, r)' /\ ~MaySend(d, r)'
         /\ ~\E x \in Drain : Claims(x) \/ Crash(x)
<1>1. /\ sends'[r] = sends[r] + 1 /\ crashes' = crashes /\ overruns' = overruns
      /\ pc[d] = "send" /\ pc' = [pc EXCEPT ![d] = "record"] /\ late' = late
      /\ UNCHANGED <<row, left, rcpt, events>>
  BY DEF Send, Goto, rcptVars, Shape, TypeOK
<1>2. MaySend(d, r) /\ Posting(d, r)' /\ ~MaySend(d, r)' /\ pc'[d] = "record"
  BY <1>1 DEF MaySend, Posting, Bound, Shape, TypeOK, WorkingOnRow
<1>3. ~\E x \in Drain : Crash(x)
  BY <1>1 DEF Crash, Shape, TypeOK
<1>4. ~\E x \in Drain : Claims(x)
  BY <1>1 DEF Claims, Claim, histVars, Shape, TypeOK
<1> QED
  BY <1>1, <1>2, <1>3, <1>4

LEMMA RecordEffect ==
  ASSUME Shape, Bound, NEW d \in Drain, RecordDelivery(d), NEW r \in Recipient, rcpt[d] = r
  PROVE  /\ Len(events'[r]) = Len(events[r]) + 1 /\ late' = late
         /\ MayRecord(d, r) /\ ~MayRecord(d, r)' /\ Delivered(r)'
         /\ ~\E x \in Drain : Claims(x)
<1>1. /\ events' = [events EXCEPT ![r] = Append(events[r], outcome[d])]
      /\ pc[d] = "record" /\ pc' = [pc EXCEPT ![d] = "status"]
      /\ UNCHANGED <<row, left, rcpt, late>>
  BY DEF RecordDelivery, Recorded, Goto, histVars
<1>2. events[r] \in Seq(Outcome) /\ outcome[d] \in Outcome
  BY DEF Shape, TypeOK
<1>3. /\ events'[r] = Append(events[r], outcome[d])
      /\ Len(events'[r]) = Len(events[r]) + 1 /\ events'[r] # <<>> /\ Len(events[r]) \in Nat
  BY <1>1, <1>2 DEF Shape, TypeOK
<1>4. MayRecord(d, r) /\ ~MayRecord(d, r)'
  BY <1>1 DEF MayRecord, MaySend, Posting, Bound, Shape, TypeOK, WorkingOnRow
<1>5. ~\E x \in Drain : Claims(x)
  BY <1>3 DEF Claims, Claim, rcptVars
<1> QED
  BY <1>1, <1>3, <1>4, <1>5 DEF Delivered

LEMMA CopyStep == Shape /\ LeaseInv /\ Bound /\ CopyInv /\ [Next]_vars => CopyInv'
<1> SUFFICES ASSUME Shape, LeaseInv, Bound, CopyInv, [Next]_vars PROVE CopyInv'
  OBVIOUS
<1>0. Shape'
  BY ShapeStep
<1>1. ASSUME NEW r \in Recipient
      PROVE  /\ sends[r] \in Nat /\ Len(events[r]) \in Nat /\ overruns \in Nat
             /\ crashes + overruns \in Nat
             /\ IsFiniteSet(LateSenders(r)) /\ IsFiniteSet(LateRecorders(r))
             /\ PaidFor(sends[r], LateSenders(r), SendOpen(r), crashes + overruns)
             /\ PaidFor(Len(events[r]), LateRecorders(r), RecordOpen(r), overruns)
  <2>1. LateSenders(r) \subseteq late /\ LateRecorders(r) \subseteq late
    BY DEF LateSenders, LateRecorders
  <2>2. sends[r] \in Nat /\ events[r] \in Seq(Outcome) /\ overruns \in Nat /\ crashes \in Nat
    BY DEF Shape, TypeOK
  <2>3. IsFiniteSet(LateSenders(r)) /\ IsFiniteSet(LateRecorders(r))
    BY <2>1, FS_Subset DEF CopyInv
  <2> QED
    BY <2>2, <2>3 DEF CopyInv
\* A lease runs out under its holder.
<1>2. ASSUME NEW o \in Row, ExpireOverrun(o) PROVE CopyInv'
  <2> DEFINE d == claim[o]
  <2>1. /\ d \in Drain /\ row[d] = o /\ late' = late \union {d}
        /\ overruns' = overruns + 1 /\ UNCHANGED <<sends, events, crashes, row>>
    BY <1>2, NoneAssumption
       DEF ExpireOverrun, Active, Abandoned, Shape, TypeOK, rcptVars, localVars
  <2>2. IsFiniteSet(late') /\ \A x \in late' : row'[x] # None
    BY <2>1, LateChanges, FS_AddElement DEF CopyInv
  <2>3. ASSUME NEW r \in Recipient, NEW x \in Drain
        PROVE  MaySend(x, r)' = MaySend(x, r) /\ MayRecord(x, r)' = MayRecord(x, r)
    BY <1>2 DEF ExpireOverrun, rcptVars, localVars, MayRecord, MaySend, Posting, Delivered
  <2>4. ASSUME NEW r \in Recipient
        PROVE  /\ PaidFor(sends[r], LateSenders(r), SendOpen(r), crashes + overruns)'
               /\ PaidFor(Len(events[r]), LateRecorders(r), RecordOpen(r), overruns)'
    <3>1. /\ LateSenders(r)' \subseteq LateSenders(r) \union {d}
          /\ LateRecorders(r)' \subseteq LateRecorders(r) \union {d}
          /\ d \in LateSenders(r)' => SendOpen(r) \/ d \in LateSenders(r)
          /\ d \in LateRecorders(r)' => RecordOpen(r) \/ d \in LateRecorders(r)
      BY <2>1, <2>3 DEF LateSenders, LateRecorders, SendOpen, RecordOpen, Shape, TypeOK
    <3>2. PaidFor(sends[r], LateSenders(r)', SendOpen(r)', crashes + overruns + 1)
      BY <1>1, <3>1, PaidByOverrun
    <3>3. PaidFor(Len(events[r]), LateRecorders(r)', RecordOpen(r)', overruns + 1)
      BY <1>1, <3>1, PaidByOverrun
    <3>4. crashes' + overruns' = crashes + overruns + 1 /\ overruns' = overruns + 1
      BY <2>1 DEF Shape, TypeOK
    <3> QED
      BY <2>1, <3>2, <3>3, <3>4
  <2> QED
    BY <2>2, <2>4 DEF CopyInv
\* None does.
<1>3. ASSUME ~\E o \in Row : ExpireOverrun(o) PROVE CopyInv'
  <2>1. /\ late' \subseteq late /\ overruns' = overruns
        /\ \A r \in Recipient :
             /\ LateSenders(r)' \subseteq LateSenders(r)
             /\ LateRecorders(r)' \subseteq LateRecorders(r)
             /\ SendOpen(r)' => SendOpen(r) \/ \E d \in Drain : Crash(d)
             /\ RecordOpen(r)' => RecordOpen(r)
    BY <1>3, LateChanges, OpenStep
  <2>2. IsFiniteSet(late') /\ \A x \in late' : row'[x] # None
    BY <2>1, FS_Subset, LateChanges DEF CopyInv
  <2>3. /\ crashes \in Nat /\ overruns \in Nat
        /\ crashes' = crashes \/ crashes' = crashes + 1
        /\ (\E d \in Drain : Crash(d)) => crashes' = crashes + 1
    BY <1>0, OneAtATime DEF Shape, TypeOK
  <2>4. ASSUME NEW r \in Recipient
        PROVE  PaidFor(sends[r], LateSenders(r), SendOpen(r), crashes + overruns)'
    <3>1. CASE sends'[r] = sends[r]
      <4>1. /\ crashes' + overruns' \in Nat
            /\ crashes + overruns <= crashes' + overruns'
            /\ (\E d \in Drain : Crash(d)) => crashes + overruns < crashes' + overruns'
        BY <2>1, <2>3
      <4>2. SendOpen(r)' => SendOpen(r) \/ crashes + overruns < crashes' + overruns'
        BY <2>1, <4>1, Zenon
      <4> QED
        BY <1>1, <2>1, <3>1, <4>1, <4>2, PaidStill
    <3>2. ASSUME NEW d \in Drain, Send(d), rcpt[d] = r
          PROVE  PaidFor(sends[r], LateSenders(r), SendOpen(r), crashes + overruns)'
      <4>1. /\ sends'[r] = sends[r] + 1 /\ crashes' + overruns' = crashes + overruns
            /\ pc'[d] = "record" /\ late' = late
            /\ MaySend(d, r) /\ Posting(d, r)' /\ ~MaySend(d, r)'
            /\ ~\E x \in Drain : Claims(x) \/ Crash(x)
        BY <3>2, SendEffect
      <4>2. SendOpen(r)' => SendOpen(r)
        BY <2>1, <4>1
      <4>3. CASE d \in late
        <5>1. d \in LateSenders(r) /\ LateSenders(r)' \subseteq LateSenders(r) \ {d}
          BY <4>1, <4>3, <2>1 DEF LateSenders
        <5> QED
          BY <1>1, <4>1, <4>2, <5>1, PaidByLate
      <4>4. CASE d \notin late
        <5>1. SendOpen(r)
          BY <4>1, <4>4 DEF SendOpen
        <5>2. ASSUME NEW e \in Drain, e \notin late, MaySend(e, r)' PROVE FALSE
          <6>1. MaySend(e, r)
            BY <4>1, <5>2, Owing
          <6>2. e = d
            BY <6>1, <4>1, <4>4, <5>2, OneRecorder DEF MayRecord
          <6> QED
            BY <6>2, <4>1, <5>2
        <5>3. ~SendOpen(r)'
          BY <4>1, <4>4, <5>2 DEF SendOpen
        <5> QED
          BY <1>1, <2>1, <4>1, <5>1, <5>3, PaidByTenure
      <4> QED
        BY <4>3, <4>4
    <3> QED
      BY <3>1, <3>2, OneAtATime
  <2>5. ASSUME NEW r \in Recipient
        PROVE  PaidFor(Len(events[r]), LateRecorders(r), RecordOpen(r), overruns)'
    <3>1. CASE events'[r] = events[r]
      BY <1>1, <2>1, <3>1, PaidStill
    <3>2. ASSUME NEW d \in Drain, RecordDelivery(d), rcpt[d] = r
          PROVE  PaidFor(Len(events[r]), LateRecorders(r), RecordOpen(r), overruns)'
      <4>1. /\ Len(events'[r]) = Len(events[r]) + 1 /\ late' = late
            /\ MayRecord(d, r) /\ ~MayRecord(d, r)' /\ Delivered(r)'
            /\ ~\E x \in Drain : Claims(x)
        BY <3>2, RecordEffect
      <4>2. CASE d \in late
        <5>1. d \in LateRecorders(r) /\ LateRecorders(r)' \subseteq LateRecorders(r) \ {d}
          BY <4>1, <4>2, <2>1 DEF LateRecorders
        <5> QED
          BY <1>1, <2>1, <4>1, <5>1, PaidByLate
      <4>3. CASE d \notin late
        <5>1. RecordOpen(r)
          BY <4>1, <4>3 DEF RecordOpen
        <5>2. ASSUME NEW e \in Drain, e \notin late, MayRecord(e, r)' PROVE FALSE
          <6>1. MayRecord(e, r)
            BY <4>1, <5>2, Owing
          <6>2. e = d
            BY <6>1, <4>1, <4>3, <5>2, OneRecorder
          <6> QED
            BY <6>2, <4>1, <5>2
        <5>3. ~RecordOpen(r)'
          BY <4>1, <5>2 DEF RecordOpen
        <5> QED
          BY <1>1, <2>1, <4>1, <5>1, <5>3, PaidByTenure
      <4> QED
        BY <4>2, <4>3
    <3> QED
      BY <3>1, <3>2, OneAtATime
  <2> QED
    BY <2>2, <2>4, <2>5 DEF CopyInv
<1> QED
  BY <1>2, <1>3

-----------------------------------------------------------------------------
(* Verdicts.  As long as leases outlive drains a row has one drain, which   *)
(* has counted every failure there is and records nobody twice, so that     *)
(* what it writes on the job is what its deliveries say.                    *)

\* What a drain will say of its job
Tally(d) == anyFailed[d] \/ (pc[d] = "status" /\ outcome[d] = "failed")

Tallied(d) ==
  pc[d] \in {"loop", "send", "record", "status", "settle", "recheck", "update", "release"}
    => (Tally(d) <=> SomeFailed(row[d]))

NotTwice(d) == /\ \A r \in left[d] : ~Delivered(r)
               /\ pc[d] \in {"send", "record"} => ~Delivered(rcpt[d])

Verdict(o) == jobStatus[o] \in Outcome => /\ AllDelivered(o)
                                          /\ jobStatus[o] = "failed" <=> SomeFailed(o)

HonestInv == overruns = 0 => /\ late = {}
                             /\ \A d \in Drain : Tallied(d) /\ NotTwice(d)
                             /\ \A o \in Row : Verdict(o)

\* No step takes a verdict back.
Final == overruns = 0 => \A o \in Row : jobStatus[o] \in Outcome => jobStatus'[o] = jobStatus[o]

LEMMA OverrunsGrow ==
  ASSUME Shape, [Next]_vars
  PROVE  UNCHANGED <<late, overruns>> \/ overruns' = overruns + 1
         \/ (late' \subseteq late /\ overruns' = overruns)
<1>1. CASE \E o \in Row : ExpireOverrun(o)
  BY <1>1 DEF ExpireOverrun
<1>2. CASE ~\E o \in Row : ExpireOverrun(o)
  BY <1>2 DEF Next, Step, WorkOnRow, vars, List, Claim, SkipRow, Return, RetireUnreadable,
     ReadJob, ReadRecipients, ReadDeliveries, ClaimRecipient, ResumeRecipient, PassOver, Take,
     Send, RecordDelivery, SetStatus, Review, Release, ReadLatest, UpdateJob, MarkProcessed,
     Crash, ExpireAbandoned, histVars, LeaveRow
<1> QED
  BY <1>1, <1>2

LEMMA BoundRow ==
  ASSUME Shape, Bound, NEW d \in Drain, pc[d] \in {"send", "record", "status"}
  PROVE  /\ row[d] \in Row /\ rcpt[d] \in Audience[row[d]] /\ rcpt[d] \in Recipient
         /\ rcpt[d] \notin left[d]
<1>1. row[d] \in Row
  BY DEF Shape, TypeOK, WorkingOnRow
<1>2. rcpt[d] \in Recipient
  BY DEF Shape, BoundRecipient
<1>3. rcpt[d] \in Audience[row[d]] /\ rcpt[d] \notin left[d]
  BY DEF Bound
<1> QED
  BY <1>1, <1>2, <1>3

\* What becomes of the failures known when an outcome is recorded
LEMMA RecordFailures ==
  ASSUME Shape, Bound, NEW d \in Drain, RecordDelivery(d), NEW o \in Row
  PROVE  /\ o = row[d] => (SomeFailed(o)' <=> SomeFailed(o) \/ outcome[d] = "failed")
         /\ o # row[d] => (SomeFailed(o)' <=> SomeFailed(o))
<1> DEFINE r == rcpt[d]
<1>1. /\ events' = [events EXCEPT ![r] = Append(events[r], outcome[d])]
      /\ pc[d] = "record"
  BY DEF RecordDelivery, Recorded
<1>2. /\ r \in Audience[row[d]] /\ row[d] \in Row /\ r \in Recipient
      /\ events \in [Recipient -> Seq(Outcome)] /\ outcome[d] \in Outcome
      /\ \A p \in Row : Audience[p] \subseteq Recipient
  BY <1>1, BoundRow, AudienceAssumption DEF Shape, TypeOK
<1>3. /\ events'[r] = Append(events[r], outcome[d])
      /\ \A x \in Recipient : x # r => events'[x] = events[x]
  BY <1>1, <1>2
<1> DEFINE n == Len(events[r])
           Bad(x) == \E i \in DOMAIN events[x] : events[x][i] = "failed"
           Worse(x) == \E i \in DOMAIN events'[x] : events'[x][i] = "failed"
<1>4. Worse(r) <=> Bad(r) \/ outcome[d] = "failed"
  <2>1. /\ n \in Nat /\ DOMAIN events[r] = 1 .. n /\ DOMAIN events'[r] = 1 .. (n + 1)
        /\ events'[r][n + 1] = outcome[d]
        /\ \A i \in 1 .. n : events'[r][i] = events[r][i]
    BY <1>2, <1>3
  <2>2. ASSUME NEW k \in 1 .. n, events[r][k] = "failed" PROVE Worse(r)
    <3>1. k \in 1 .. (n + 1)
      BY <2>1, <2>2
    <3>2. events'[r][k] = "failed"
      BY <2>1, <2>2
    <3> QED
      BY <2>1, <3>1, <3>2
  <2>3. outcome[d] = "failed" => Worse(r)
    BY <2>1
  <2>4. ASSUME NEW k \in 1 .. (n + 1), events'[r][k] = "failed", outcome[d] # "failed"
        PROVE  Bad(r)
    <3>1. k \in 1 .. n
      BY <2>1, <2>4
    <3> QED
      BY <3>1, <2>1, <2>4
  <2> QED
    BY <2>1, <2>2, <2>3, <2>4
<1>5. \A x \in Recipient : x # r => (Worse(x) <=> Bad(x))
  BY <1>3
<1>6. SomeFailed(o) <=> \E x \in Audience[o] : Bad(x)
  BY DEF SomeFailed
<1>7. SomeFailed(o)' <=> \E x \in Audience[o] : Worse(x)
  BY DEF SomeFailed
<1> HIDE DEF Bad, Worse
<1>8. CASE o = row[d]
  <2>1. ASSUME NEW x \in Audience[o], Worse(x) PROVE SomeFailed(o) \/ outcome[d] = "failed"
    BY <2>1, <1>2, <1>4, <1>5, <1>6
  <2>2. ASSUME NEW x \in Audience[o], Bad(x) PROVE SomeFailed(o)'
    BY <2>2, <1>2, <1>4, <1>5, <1>7
  <2>3. outcome[d] = "failed" => SomeFailed(o)'
    BY <1>2, <1>4, <1>7, <1>8
  <2> QED
    BY <1>6, <1>7, <1>8, <2>1, <2>2, <2>3
<1>9. CASE o # row[d]
  <2>1. r \notin Audience[o]
    BY <1>2, <1>9, DisjointAssumption
  <2> QED
    BY <1>2, <1>5, <1>6, <1>7, <1>9, <2>1
<1> QED
  BY <1>8, <1>9

\* An outcome is recorded for a job without a verdict.
LEMMA HonestRecord ==
  ASSUME Shape, LeaseInv, Bound, HonestInv, NEW d \in Drain, RecordDelivery(d), overruns = 0
  PROVE  HonestInv' /\ Final
<1>1. /\ pc[d] = "record" /\ pc' = [pc EXCEPT ![d] = "status"]
      /\ UNCHANGED <<jobStatus, row, left, rcpt, outcome, anyFailed, late, overruns>>
      /\ events' = [events EXCEPT ![rcpt[d]] = Append(events[rcpt[d]], outcome[d])]
  BY DEF RecordDelivery, Recorded, Goto, jobVars, histVars
<1>2. /\ late = {} /\ \A e \in Drain : Tallied(e) /\ NotTwice(e)
      /\ \A o \in Row : Verdict(o)
  BY DEF HonestInv
<1>3. /\ rcpt[d] \in Audience[row[d]] /\ row[d] \in Row /\ rcpt[d] \in Recipient
      /\ rcpt[d] \notin left[d] /\ outcome[d] \in Outcome
  BY <1>1, BoundRow DEF Shape, TypeOK
<1>4. \A x \in Recipient : x # rcpt[d] => (Delivered(x)' <=> Delivered(x))
  BY <1>1, <1>3 DEF Delivered, Shape, TypeOK
<1>5. \A x \in Recipient : Delivered(x) => Delivered(x)'
  BY <1>1, <1>3, <1>4 DEF Delivered, Shape, TypeOK
<1>6. ~AllDelivered(row[d])
  BY <1>1, <1>2, <1>3 DEF NotTwice, AllDelivered
<1>7. ASSUME NEW o \in Row PROVE Verdict(o)'
  <2>1. CASE o = row[d]
    BY <2>1, <1>1, <1>2, <1>6 DEF Verdict
  <2>2. CASE o # row[d]
    <3>1. AllDelivered(o) => AllDelivered(o)'
      BY <1>5, AudienceAssumption DEF AllDelivered
    <3> QED
      BY <2>2, <3>1, <1>1, <1>2, RecordFailures DEF Verdict
  <2> QED
    BY <2>1, <2>2
<1>8. ASSUME NEW e \in Drain, e # d PROVE Tallied(e)' /\ NotTwice(e)'
  <2>1. row[e] # None => row[e] # row[d]
    BY <1>2, <1>8 DEF LeaseInv, LeaseExclusive
  <2>2. pc'[e] = pc[e]
    BY <1>1, <1>8 DEF Shape, TypeOK
  <2>3. Tallied(e)'
    <3>1. CASE row[e] = None
      BY <2>2, <3>1 DEF Tallied, Shape, WorkingOnRow
    <3>2. CASE row[e] # None
      <4>1. row[e] \in Row /\ (SomeFailed(row[e])' <=> SomeFailed(row[e]))
        <5>1. row[e] \in Row
          BY <3>2 DEF Shape, TypeOK
        <5>2. \A p \in Row : p # row[d] => (SomeFailed(p)' <=> SomeFailed(p))
          BY RecordFailures
        <5>3. row'[e] = row[e]
          BY <1>1
        <5> QED
          BY <5>1, <5>2, <5>3, <2>1, <3>2 DEF SomeFailed
      <4> QED
        BY <4>1, <2>2, <1>1, <1>2 DEF Tallied, Tally
    <3> QED
      BY <3>1, <3>2
  <2>4. NotTwice(e)'
    <3>1. \A r \in left[e] : r \in Audience[row[e]] /\ row[e] \in Row
      BY DEF Bound, Shape, TypeOK
    <3>2. pc[e] \in {"send", "record"} => rcpt[e] \in Audience[row[e]] /\ row[e] \in Row
      BY BoundRow
    <3>3. \A p \in Row : \A r \in Audience[p] :
             p # row[d] => r \in Recipient /\ (Delivered(r)' <=> Delivered(r))
      BY <1>3, <1>4, AudienceAssumption, DisjointAssumption
    <3>4. \A r \in left[e] : ~Delivered(r)'
      BY <3>1, <3>3, <2>1, <1>2, NoneAssumption DEF NotTwice
    <3>5. pc[e] \in {"send", "record"} => ~Delivered(rcpt[e])'
      <4>1. pc[e] \in {"send", "record"} => rcpt[e] \in Recipient /\ rcpt[e] # rcpt[d]
        BY <3>2, <2>1, <1>3, NoneAssumption, AudienceAssumption, DisjointAssumption
      <4>2. pc[e] \in {"send", "record"} => ~Delivered(rcpt[e])
        BY <1>2 DEF NotTwice
      <4> QED
        BY <4>1, <4>2, <1>1, <1>3 DEF Delivered, Shape, TypeOK
    <3> QED
      BY <3>4, <3>5, <2>2, <1>1 DEF NotTwice
  <2> QED
    BY <2>3, <2>4
<1>9. Tallied(d)' /\ NotTwice(d)'
  <2>1. pc'[d] = "status"
    BY <1>1 DEF Shape, TypeOK
  <2>2. Tallied(d)'
    <3>1. anyFailed[d] <=> SomeFailed(row[d])
      BY <1>1, <1>2 DEF Tallied, Tally
    <3>2. SomeFailed(row[d])' <=> SomeFailed(row[d]) \/ outcome[d] = "failed"
      <4>1. \A p \in Row : p = row[d] => (SomeFailed(p)' <=> SomeFailed(p) \/ outcome[d] = "failed")
        BY RecordFailures
      <4>2. row'[d] = row[d]
        BY <1>1
      <4> QED
        BY <1>3, <4>1, <4>2 DEF SomeFailed
    <3> QED
      BY <2>1, <3>1, <3>2, <1>1 DEF Tallied, Tally
  <2>3. \A r \in left[d] : r \in Recipient /\ r # rcpt[d] /\ ~Delivered(r)
    BY <1>2, <1>3 DEF NotTwice, Shape, TypeOK
  <2> QED
    BY <2>1, <2>2, <2>3, <1>1, <1>4 DEF NotTwice
<1> QED
  BY <1>1, <1>2, <1>7, <1>8, <1>9 DEF HonestInv, Final


\* What a step that records no outcome leaves true of a drain it leaves alone
LEMMA HonestBystander ==
  ASSUME Shape, Bound, NEW e \in Drain, Tallied(e), NotTwice(e), UNCHANGED events,
         UNCHANGED <<pc[e], row[e], left[e], rcpt[e], outcome[e], anyFailed[e]>>
  PROVE  Tallied(e)' /\ NotTwice(e)'
BY DEF Tallied, Tally, NotTwice, SomeFailed, Delivered

\* A drain's own step: it counts the failures when it lists the deliveries,
\* and the answer it has recorded when it sets the recipient's status.
LEMMA HonestOwn ==
  ASSUME Shape, Bound, NEW d \in Drain, Tallied(d), NotTwice(d), UNCHANGED events,
         (Step(d) /\ ~RecordDelivery(d)) \/ Crash(d)
  PROVE  Tallied(d)' /\ NotTwice(d)'
<1> USE DEF Tallied, Tally, NotTwice, Goto
<1>0. /\ pc[d] \in Label /\ row[d] \in Row \union {None} /\ left[d] \subseteq Recipient
      /\ DOMAIN pc = Drain /\ DOMAIN row = Drain /\ DOMAIN left = Drain /\ DOMAIN rcpt = Drain
      /\ DOMAIN outcome = Drain /\ DOMAIN anyFailed = Drain
      /\ outcome[d] \in Outcome /\ anyFailed[d] \in BOOLEAN
      /\ pc[d] \notin {"idle", "next"} => row[d] \in Row
  BY DEF Shape, TypeOK, WorkingOnRow
<1>20. /\ \A r \in Recipient : Delivered(r)' <=> Delivered(r)
       /\ UNCHANGED row /\ row[d] \in Row => (SomeFailed(row[d])' <=> SomeFailed(row[d]))
  BY DEF Delivered, SomeFailed
<1>1. ASSUME List(d) PROVE Tallied(d)' /\ NotTwice(d)'
  BY <1>1, <1>0, <1>20 DEF List
<1>2. ASSUME NEW o \in Row, Claim(d, o) PROVE Tallied(d)' /\ NotTwice(d)'
  BY <1>2, <1>0, <1>20 DEF Claim
<1>3. ASSUME NEW o \in Row, SkipRow(d, o) PROVE Tallied(d)' /\ NotTwice(d)'
  BY <1>3, <1>0, <1>20 DEF SkipRow
<1>4. ASSUME Return(d) PROVE Tallied(d)' /\ NotTwice(d)'
  BY <1>4, <1>0, <1>20 DEF Return
<1>5. ASSUME RetireUnreadable(d) PROVE Tallied(d)' /\ NotTwice(d)'
  BY <1>5, <1>0, <1>20 DEF RetireUnreadable, RetireRow, LeaveRow
<1>6. ASSUME ReadJob(d) PROVE Tallied(d)' /\ NotTwice(d)'
  BY <1>6, <1>0, <1>20 DEF ReadJob
<1>7. ASSUME ReadRecipients(d) PROVE Tallied(d)' /\ NotTwice(d)'
  BY <1>7, <1>0, <1>20 DEF ReadRecipients
<1>8. ASSUME ReadDeliveries(d) PROVE Tallied(d)' /\ NotTwice(d)'
  <2>1. /\ pc[d] = "deliveries" /\ pc'[d] \in {"update", "recheck", "loop"}
        /\ left'[d] = Pending(row[d]) /\ UNCHANGED row
        /\ anyFailed'[d] <=> SomeFailed(row[d])
    BY <1>8, <1>0 DEF ReadDeliveries, KnownFailure
  <2>2. \A r \in left'[d] : r \in Recipient /\ ~Delivered(r)
    BY <2>1, <1>0, AudienceAssumption DEF Pending
  <2> QED
    BY <2>1, <2>2, <1>0, <1>20
<1>9. ASSUME NEW x \in Recipient, ClaimRecipient(d, x) PROVE Tallied(d)' /\ NotTwice(d)'
  <2>1. /\ pc[d] = "loop" /\ pc'[d] = "send" /\ x \in left[d]
        /\ left'[d] \subseteq left[d] /\ rcpt'[d] = x /\ UNCHANGED <<row, anyFailed, outcome>>
    BY <1>9, <1>0 DEF ClaimRecipient, Take
  <2> QED
    BY <2>1, <1>0, <1>20
<1>10. ASSUME NEW x \in Recipient, ResumeRecipient(d, x) PROVE Tallied(d)' /\ NotTwice(d)'
  <2>1. /\ pc[d] = "loop" /\ pc'[d] = "send" /\ x \in left[d]
        /\ left'[d] \subseteq left[d] /\ rcpt'[d] = x /\ UNCHANGED <<row, anyFailed, outcome>>
    BY <1>10, <1>0 DEF ResumeRecipient, Take
  <2> QED
    BY <2>1, <1>0, <1>20
<1>11. ASSUME NEW x \in Recipient, PassOver(d, x) PROVE Tallied(d)' /\ NotTwice(d)'
  <2>1. /\ pc[d] = "loop" /\ UNCHANGED pc
        /\ left'[d] \subseteq left[d] /\ UNCHANGED <<row, anyFailed, outcome, rcpt>>
    BY <1>11, <1>0 DEF PassOver, Take
  <2> QED
    BY <2>1, <1>0, <1>20
<1>12. ASSUME Send(d) PROVE Tallied(d)' /\ NotTwice(d)'
  <2>1. pc[d] = "send" /\ pc'[d] = "record" /\ UNCHANGED <<row, anyFailed, left, rcpt>>
    BY <1>12, <1>0 DEF Send
  <2>2. rcpt[d] \in Recipient
    BY <2>1, BoundRow
  <2> QED
    BY <2>1, <2>2, <1>0, <1>20
<1>13. ASSUME SetStatus(d) PROVE Tallied(d)' /\ NotTwice(d)'
  <2>1. /\ pc[d] = "status" /\ pc'[d] = "loop" /\ UNCHANGED <<row, left>>
        /\ anyFailed'[d] <=> anyFailed[d] \/ outcome[d] = "failed"
    BY <1>13, <1>0 DEF SetStatus
  <2> QED
    BY <2>1, <1>0, <1>20
<1>14. ASSUME Review(d) PROVE Tallied(d)' /\ NotTwice(d)'
  <2>1. /\ pc[d] = "loop" /\ pc'[d] \in {"settle", "release"}
        /\ UNCHANGED <<row, left, anyFailed, outcome>>
    BY <1>14, <1>0 DEF Review
  <2> QED
    BY <2>1, <1>0, <1>20
<1>15. ASSUME Release(d) PROVE Tallied(d)' /\ NotTwice(d)'
  BY <1>15, <1>0, <1>20 DEF Release, LeaveRow
<1>16. ASSUME ReadLatest(d) PROVE Tallied(d)' /\ NotTwice(d)'
  <2>1. /\ pc[d] \in {"recheck", "settle"} /\ pc'[d] \in {"mark", "update"}
        /\ UNCHANGED <<row, left, anyFailed, outcome>>
    BY <1>16, <1>0 DEF ReadLatest
  <2> QED
    BY <2>1, <1>0, <1>20
<1>17. ASSUME MarkProcessed(d) PROVE Tallied(d)' /\ NotTwice(d)'
  BY <1>17, <1>0, <1>20 DEF MarkProcessed, RetireRow, LeaveRow
<1>18. ASSUME Crash(d) PROVE Tallied(d)' /\ NotTwice(d)'
  BY <1>18, <1>0, <1>20 DEF Crash, LeaveRow
<1>19. ASSUME UpdateJob(d) PROVE Tallied(d)' /\ NotTwice(d)'
  <2>1. /\ pc'[d] = "mark" /\ UNCHANGED left
    BY <1>19, <1>0 DEF UpdateJob
  <2> QED
    BY <2>1, <1>0, <1>20
<1> QED
  BY <1>1, <1>2, <1>3, <1>4, <1>5, <1>6, <1>7, <1>8, <1>9, <1>10, <1>11, <1>12, <1>13,
     <1>14, <1>15, <1>16, <1>17, <1>18, <1>19 DEF Step, WorkOnRow

\* A drain's locals are its own: no other drain's step changes them.
LEMMA LocalsAreOwn ==
  ASSUME Shape, [Next]_vars, NEW e \in Drain, ~Step(e), ~Crash(e)
  PROVE  UNCHANGED <<pc[e], row[e], left[e], rcpt[e], outcome[e], anyFailed[e]>>
<1> DEFINE Same == UNCHANGED <<pc[e], row[e], left[e], rcpt[e], outcome[e], anyFailed[e]>>
<1>1. /\ pc \in [Drain -> Label] /\ row \in [Drain -> Row \union {None}]
      /\ left \in [Drain -> SUBSET Recipient] /\ rcpt \in [Drain -> Recipient \union {None}]
      /\ outcome \in [Drain -> Outcome] /\ anyFailed \in [Drain -> BOOLEAN]
  BY DEF Shape, TypeOK
<1>2. ASSUME NEW d \in Drain, d # e, Step(d) PROVE Same
  <2>1. CASE \E o \in Row : Claim(d, o) \/ SkipRow(d, o)
    BY <1>1, <1>2, <2>1 DEF Claim, SkipRow, Goto
  <2>2. CASE List(d) \/ Return(d)
    BY <1>1, <1>2, <2>2 DEF List, Return, Goto
  <2>3. CASE RetireUnreadable(d) \/ Release(d) \/ MarkProcessed(d)
    BY <1>1, <1>2, <2>3 DEF RetireUnreadable, Release, MarkProcessed, LeaveRow, Goto
  <2>4. CASE ReadJob(d) \/ ReadRecipients(d) \/ ReadDeliveries(d)
    BY <1>1, <1>2, <2>4 DEF ReadJob, ReadRecipients, ReadDeliveries, Goto
  <2>5. CASE \E r \in Recipient :
                ClaimRecipient(d, r) \/ ResumeRecipient(d, r) \/ PassOver(d, r)
    BY <1>1, <1>2, <2>5 DEF ClaimRecipient, ResumeRecipient, PassOver, Take, Goto
  <2>6. CASE Send(d)
    BY <1>1, <1>2, <2>6 DEF Send, Goto
  <2>7. CASE RecordDelivery(d) \/ SetStatus(d)
    BY <1>1, <1>2, <2>7 DEF RecordDelivery, SetStatus, Goto
  <2>8. CASE Review(d) \/ ReadLatest(d) \/ UpdateJob(d)
    BY <1>1, <1>2, <2>8 DEF Review, ReadLatest, UpdateJob, Goto
  <2> QED
    BY <1>2, <2>1, <2>2, <2>3, <2>4, <2>5, <2>6, <2>7, <2>8 DEF Step, WorkOnRow
<1>3. ASSUME NEW d \in Drain, d # e, Crash(d) PROVE Same
  BY <1>1, <1>3 DEF Crash, LeaveRow, Goto
<1>4. CASE \E o \in Row : ExpireAbandoned(o) \/ ExpireOverrun(o)
  BY <1>4 DEF ExpireAbandoned, ExpireOverrun, localVars
<1>5. CASE UNCHANGED vars
  BY <1>5 DEF vars
<1> QED
  BY <1>2, <1>3, <1>4, <1>5 DEF Next

\* A verdict is written by UpdateJob alone, and it is what the deliveries say.
LEMMA HonestWrite ==
  ASSUME Shape, DeliveryInv, HonestInv, [Next]_vars, overruns = 0, NEW o \in Row
  PROVE  \/ jobStatus'[o] = jobStatus[o]
         \/ /\ AllDelivered(o)
            /\ jobStatus'[o] = (IF SomeFailed(o) THEN "failed" ELSE "sent")
<1>1. CASE ~\E d \in Drain : UpdateJob(d)
  BY <1>1 DEF Next, Step, WorkOnRow, vars, List, Claim, SkipRow, Return, RetireUnreadable,
     ReadJob, ReadRecipients, ReadDeliveries, ClaimRecipient, ResumeRecipient, PassOver, Take,
     Send, RecordDelivery, SetStatus, Review, Release, ReadLatest, MarkProcessed, Crash,
     ExpireAbandoned, ExpireOverrun, jobVars
<1>2. ASSUME NEW d \in Drain, UpdateJob(d), jobStatus'[o] # jobStatus[o]
      PROVE  /\ AllDelivered(o)
             /\ jobStatus'[o] = (IF SomeFailed(o) THEN "failed" ELSE "sent")
  <2>1. /\ pc[d] = "update" /\ row[d] = o
        /\ jobStatus'[o] = (IF anyFailed[d] THEN "failed" ELSE "sent")
    BY <1>2 DEF UpdateJob, jobVars, Shape, TypeOK
  <2>2. AllDelivered(o)
    BY <2>1 DEF DeliveryInv, SettledAfterDelivery
  <2>3. anyFailed[d] <=> SomeFailed(o)
    BY <2>1 DEF HonestInv, Tallied, Tally
  <2> QED
    BY <2>1, <2>2, <2>3
<1> QED
  BY <1>1, <1>2

\* The verdicts are kept honest by every step.
LEMMA HonestStep ==
  Shape /\ LeaseInv /\ DeliveryInv /\ Bound /\ HonestInv /\ [Next]_vars => HonestInv' /\ Final
<1> SUFFICES ASSUME Shape, LeaseInv, DeliveryInv, Bound, HonestInv, [Next]_vars
             PROVE  HonestInv' /\ Final
  OBVIOUS
<1>1. overruns \in Nat /\ (overruns' = 0 => overruns = 0)
  BY OverrunsGrow DEF Shape, TypeOK
<1>2. CASE \E d \in Drain : RecordDelivery(d)
  BY <1>1, <1>2, HonestRecord DEF HonestInv, Final
<1>3. CASE ~(\E d \in Drain : RecordDelivery(d)) /\ overruns = 0
  <2>1. UNCHANGED events
    BY <1>3 DEF Next, Step, WorkOnRow, vars, List, Claim, SkipRow, Return, RetireUnreadable,
       ReadJob, ReadRecipients, ReadDeliveries, ClaimRecipient, ResumeRecipient, PassOver, Take,
       Send, SetStatus, Review, Release, ReadLatest, UpdateJob, MarkProcessed,
       Crash, ExpireAbandoned, ExpireOverrun, rcptVars
  <2>2. /\ late = {} /\ \A e \in Drain : Tallied(e) /\ NotTwice(e)
        /\ \A p \in Row : Verdict(p)
    BY <1>3 DEF HonestInv
  <2>3. overruns' = 0 => late' = {}
    BY <1>1, <1>3, <2>2, OverrunsGrow
  <2>4. ASSUME NEW e \in Drain PROVE Tallied(e)' /\ NotTwice(e)'
    <3>1. CASE Step(e) \/ Crash(e)
      BY <1>3, <2>1, <2>2, <3>1, HonestOwn
    <3>2. CASE ~Step(e) /\ ~Crash(e)
      BY <2>1, <2>2, <3>2, LocalsAreOwn, HonestBystander
    <3> QED
      BY <3>1, <3>2
  <2>5. ASSUME NEW p \in Row
        PROVE  Verdict(p)' /\ (jobStatus[p] \in Outcome => jobStatus'[p] = jobStatus[p])
    <3>1. (AllDelivered(p)' <=> AllDelivered(p)) /\ (SomeFailed(p)' <=> SomeFailed(p))
      BY <2>1 DEF AllDelivered, SomeFailed, Delivered
    <3>2. Verdict(p)
      BY <2>2
    <3>3. CASE jobStatus'[p] = jobStatus[p]
      BY <3>1, <3>2, <3>3 DEF Verdict
    <3>4. CASE jobStatus'[p] # jobStatus[p]
      <4>1. AllDelivered(p) /\ jobStatus'[p] = (IF SomeFailed(p) THEN "failed" ELSE "sent")
        BY <1>3, <3>4, HonestWrite
      <4> QED
        BY <3>1, <3>2, <4>1 DEF Verdict, Outcome
    <3> QED
      BY <3>3, <3>4
  <2> QED
    BY <2>2, <2>3, <2>4, <2>5 DEF HonestInv, Final
<1> QED
  BY <1>1, <1>2, <1>3 DEF HonestInv, Final

-----------------------------------------------------------------------------
(* The invariants together *)

IInv == /\ Shape /\ LeaseInv /\ DeliveryInv
        /\ Bound /\ CopyInv /\ HonestInv

LEMMA InvInit == Init => IInv
<1> SUFFICES ASSUME Init PROVE IInv
  OBVIOUS
<1>1. Shape
  BY ShapeInit
<1>2. LeaseInv
  BY NoneAssumption DEF Init, LeaseInv, HoldsLease, LeaseExclusive
<1>3. DeliveryInv
  BY DEF Init, DeliveryInv, SettledAfterDelivery, StatusAfterRecord,
         RetiredMeansDelivered, NoStrandedRecipient, Outcome
<1>4. Bound
  BY DEF Init, Bound
<1>5. CopyInv
  <2>1. /\ late = {} /\ IsFiniteSet({}) /\ Cardinality({}) = 0
        /\ crashes = 0 /\ overruns = 0
    BY FS_EmptySet DEF Init
  <2>2. ASSUME NEW r \in Recipient
        PROVE  /\ PaidFor(sends[r], LateSenders(r), SendOpen(r), crashes + overruns)
               /\ PaidFor(Len(events[r]), LateRecorders(r), RecordOpen(r), overruns)
    <3>1. sends[r] = 0 /\ Len(events[r]) = 0
      BY DEF Init
    <3>2. Cardinality(LateSenders(r)) = 0 /\ Cardinality(LateRecorders(r)) = 0
      BY <2>1 DEF LateSenders, LateRecorders
    <3>3. PaidFor(sends[r], LateSenders(r), SendOpen(r), crashes + overruns)
      BY <2>1, <3>1, <3>2 DEF PaidFor
    <3>4. PaidFor(Len(events[r]), LateRecorders(r), RecordOpen(r), overruns)
      BY <2>1, <3>1, <3>2 DEF PaidFor
    <3> QED
      BY <3>3, <3>4
  <2> QED
    BY <2>1, <2>2 DEF CopyInv
<1>6. HonestInv
  BY DEF Init, HonestInv, Tallied, NotTwice, Verdict, Outcome
<1> QED
  BY <1>1, <1>2, <1>3, <1>4, <1>5, <1>6 DEF IInv

LEMMA Inductive == Spec => []IInv
<1>1. IInv /\ [Next]_vars => IInv'
  BY ShapeStep, LeaseStep, DeliveryStep, BoundStep, CopyStep, HonestStep DEF IInv
<1> QED
  BY <1>1, InvInit, PTL DEF Spec

\* Two drains meet on a row only if one of them has outlived its lease.
THEOREM Exclusive == Spec => []LeaseExclusive
BY Inductive, PTL DEF IInv, LeaseInv

\* No row is retired while a recipient of its job has no delivery row.
THEOREM Retired == Spec => []RetiredMeansDelivered
BY Inductive, PTL DEF IInv, DeliveryInv

\* No recipient has a final status without a delivery row.
THEOREM NoneStranded == Spec => []NoStrandedRecipient
BY Inductive, PTL DEF IInv, DeliveryInv

\* Every copy of a message beyond the first is paid for by a crash or an
\* overrun of its own, every outcome beyond the first by an overrun.
THEOREM CopiesPaid == Spec => []CopiesPaidFor
<1>1. IInv => CopiesPaidFor
  <2> SUFFICES ASSUME Shape, CopyInv, NEW r \in Recipient
               PROVE  /\ sends[r] <= 1 + crashes + overruns
                      /\ Len(events[r]) <= 1 + overruns
    BY DEF IInv, CopiesPaidFor
  <2>1. /\ IsFiniteSet(LateSenders(r)) /\ IsFiniteSet(LateRecorders(r))
    BY FS_Subset DEF CopyInv, LateSenders, LateRecorders
  <2>2. Cardinality(LateSenders(r)) \in Nat /\ Cardinality(LateRecorders(r)) \in Nat
    BY <2>1, FS_CardinalityType
  <2>3. /\ sends[r] \in Nat /\ crashes \in Nat /\ overruns \in Nat
        /\ Len(events[r]) \in Nat
    BY DEF Shape, TypeOK
  <2>4. /\ sends[r] + Cardinality(LateSenders(r)) <= 1 + (crashes + overruns)
        /\ Len(events[r]) + Cardinality(LateRecorders(r)) <= 1 + overruns
    BY DEF CopyInv, PaidFor
  <2> QED
    BY <2>2, <2>3, <2>4
<1> QED
  BY <1>1, Inductive, PTL

\* While no lease runs out under a live drain, a settled job says what its
\* deliveries say, and has one for every recipient.
THEOREM Honest == Spec => []HonestVerdict
<1>1. IInv => HonestVerdict
  BY DEF IInv, HonestInv, Verdict, HonestVerdict
<1> QED
  BY <1>1, Inductive, PTL

\* While no lease runs out under a live drain, a verdict is given once.
THEOREM GivenOnce == Spec => VerdictIsFinal
<1>1. IInv /\ [Next]_vars => [Final]_vars
  BY HonestStep DEF IInv
<1> QED
  BY <1>1, Inductive, PTL DEF Spec, VerdictIsFinal, Final

-----------------------------------------------------------------------------
(* The drain implements Delivery: a step either records an outcome, or       *)
(* retires one row, or changes neither table in Delivery's eyes.             *)

LEMMA PromiseInit == Init => Promise!Init
BY DEF Init, Promise!Init, Delivered

LEMMA PromiseStep ==
  Shape /\ DeliveryInv /\ [Next]_vars => [Promise!Next]_(Promise!vars)
<1> SUFFICES ASSUME Shape, DeliveryInv, [Next]_vars
             PROVE [Promise!Next]_(Promise!vars)
  OBVIOUS
<1>1. CASE UNCHANGED <<events, processed>>
  BY <1>1 DEF Promise!vars, Delivered
<1>2. ASSUME NEW d \in Drain, RecordDelivery(d) PROVE Promise!Next
  <2>1. /\ events' = [events EXCEPT ![rcpt[d]] = Append(@, outcome[d])]
        /\ UNCHANGED processed
    BY <1>2, Zenon DEF RecordDelivery, Recorded, outboxVars
  <2>2. /\ rcpt[d] \in Recipient /\ outcome[d] \in Outcome
        /\ events \in [Recipient -> Seq(Outcome)]
    BY <1>2 DEF RecordDelivery, Shape, TypeOK, BoundRecipient
  <2>3. \A r \in Recipient : Delivered(r)' <=> Delivered(r) \/ r = rcpt[d]
    BY <2>1, <2>2 DEF Delivered
  <2>4. Promise!Record(rcpt[d])
    BY <2>1, <2>2, <2>3 DEF Promise!Record
  <2> QED
    BY <2>2, <2>4 DEF Promise!Next
<1>3. ASSUME NEW d \in Drain, NEW o \in Row, RetireRow(o), AllDelivered(o),
             UNCHANGED events
      PROVE Promise!Next
  <2>1. processed' = [processed EXCEPT ![o] = TRUE]
    BY <1>3 DEF RetireRow
  <2>2. {p \in Row : processed'[p]} = {p \in Row : processed[p]} \union {o}
    BY <2>1 DEF Shape, TypeOK
  <2>3. Audience[o] \subseteq {r \in Recipient : Delivered(r)}
    BY <1>3, AudienceAssumption DEF AllDelivered
  <2>4. {r \in Recipient : Delivered(r)}' = {r \in Recipient : Delivered(r)}
    BY <1>3 DEF Delivered
  <2>5. Promise!Retire(o)
    BY <2>2, <2>3, <2>4 DEF Promise!Retire
  <2> QED
    BY <2>5 DEF Promise!Next
<1>4. ASSUME NEW d \in Drain, RetireUnreadable(d) PROVE Promise!Next
  <2>1. row[d] \in Row /\ AllDelivered(row[d])
    BY <1>4, UnreadableAssumption DEF RetireUnreadable, AllDelivered
  <2>2. RetireRow(row[d]) /\ UNCHANGED events
    BY <1>4 DEF RetireUnreadable, rcptVars
  <2> QED
    BY <1>3, <2>1, <2>2
<1>5. ASSUME NEW d \in Drain, MarkProcessed(d) PROVE Promise!Next
  <2>1. row[d] \in Row /\ AllDelivered(row[d])
    BY <1>5 DEF MarkProcessed, Shape, TypeOK, WorkingOnRow, DeliveryInv,
                SettledAfterDelivery
  <2>2. RetireRow(row[d]) /\ UNCHANGED events
    BY <1>5 DEF MarkProcessed, rcptVars
  <2> QED
    BY <1>3, <2>1, <2>2
<1>6. \/ UNCHANGED <<events, processed>>
      \/ \E d \in Drain : \/ RecordDelivery(d)
                          \/ RetireUnreadable(d)
                          \/ MarkProcessed(d)
  BY DEF Next, Step, WorkOnRow, vars, outboxVars, rcptVars, List, Claim,
     SkipRow, Return, ReadJob, ReadRecipients, ReadDeliveries, ClaimRecipient,
     ResumeRecipient, PassOver, Take, Send, SetStatus, Review, Release,
     ReadLatest, UpdateJob, Crash, ExpireAbandoned, ExpireOverrun
<1> QED
  BY <1>1, <1>2, <1>4, <1>5, <1>6

\* Whatever crashes, overruns or overlaps, the drain keeps the promise.
THEOREM KeepsPromise == Spec => PromiseKept
<1>1. IInv /\ [Next]_vars => [Promise!Next]_(Promise!vars)
  BY PromiseStep DEF IInv
<1> QED
  BY <1>1, Inductive, PromiseInit, PTL DEF Spec, PromiseKept, Promise!Spec
=============================================================================
