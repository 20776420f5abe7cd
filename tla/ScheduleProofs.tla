--------------------------- MODULE ScheduleProofs ---------------------------
(***************************************************************************)
(* Proofs about Schedule, for any number of requests, sessions, rooms,     *)
(* speakers and decisions.                                                 *)
(***************************************************************************)
EXTENDS Schedule, TLAPS

Before == {"existing", "speakers", "room", "crew"}

(* The inductive invariant, part by part. *)

\* What a request has read by each program point.
BoundLocals ==
  \A c \in Call :
     /\ pc[c] \in Before => /\ session[c] \in Session /\ room[c] \in Room
                            /\ slot[c] \in Slot /\ op[c] \in {"place", "move"}
     /\ pc[c] \in Before \union {"delete", "readback", "audit"}
          => target[c] \in Call
     /\ pc[c] = "delete" => op[c] = "unschedule"
     /\ pc[c] # "start" /\ op[c] = "place" => target[c] = c /\ expected[c] = 0
     /\ pc[c] # "start" /\ op[c] # "place" => expected[c] # 0

\* A request commits at most once, and a placement exists only by the commit
\* of the place request that names it.
CommittedOnce ==
  \A c \in Call :
     /\ pc[c] \in Before \union {"start", "delete"} => ~committed[c]
     /\ placement[c] # None => committed[c] /\ op[c] = "place"

\* Reservations of different placements never overlap.
NoClash ==
  \A p, q \in Call : p # q =>
     /\ \A a \in roomRes[p], b \in roomRes[q] :
           a.room = b.room => ~Overlap(a.slot, b.slot)
     /\ \A a \in speakerRes[p], b \in speakerRes[q] :
           a.speaker = b.speaker => ~Overlap(a.slot, b.slot)

OnePlacementPerSession ==
  \A p, q \in Placed : placement[p].session = placement[q].session => p = q

Shape    == TypeOK /\ BoundLocals /\ CommittedOnce
TableInv == ReservationsMatchPlacement /\ NoClash /\ OnePlacementPerSession

-----------------------------------------------------------------------------
LEMMA OverlapSymmetric ==
  \A a, b \in Slot : Overlap(a, b) <=> Overlap(b, a)
BY SlotAssumption DEF Overlap

LEMMA ShapeInit == Init => Shape
BY NoneAssumption, LineupAssumption, MaxAssumption
   DEF Init, Shape, TypeOK, BoundLocals, CommittedOnce, Before

\* After a batch the request is past its locals, and only its own entries
\* have changed.
AfterFacts(c, changed, next) ==
  /\ committed' \in [Call -> BOOLEAN]
  /\ committed'[c] = changed
  /\ \A d \in Call \ {c} : committed'[d] = committed[d] /\ pc'[d] = pc[d]
  /\ \A d \in Call \ {c} : session'[d] = session[d] /\ crew'[d] = crew[d]
  /\ pc'[c] \in {next, "done"}
  /\ UNCHANGED <<status, linked, decided, touched, deciding, op, target, expected,
                 audited>>
  /\ BoundLocals'
  /\ (/\ placement' \in [Call -> Row \union {None}]
      /\ roomRes' \in [Call -> SUBSET RoomRes]
      /\ speakerRes' \in [Call -> SUBSET SpeakerRes]) => TypeOK'

LEMMA AfterBatch ==
  ASSUME Shape, NEW c \in Call, NEW changed \in BOOLEAN,
         NEW next \in {"readback", "audit"}, After(c, changed, next),
         pc[c] \in Before \union {"delete"}
  PROVE  AfterFacts(c, changed, next)
<1> USE NoneAssumption
<1> USE DEF Shape, Before, Goto, Forget, Reply, decisionVars, requestVars
<1>1. committed' = [committed EXCEPT ![c] = changed]
  BY Zenon DEF After
<1>2. /\ committed' \in [Call -> BOOLEAN]
      /\ committed'[c] = changed
      /\ \A d \in Call \ {c} : committed'[d] = committed[d]
  BY <1>1 DEF TypeOK
<1>3. UNCHANGED <<status, linked, decided, touched, deciding, op, target, expected,
                  audited>>
  BY DEF After
<1>4. \/ Goto(c, next) /\ Forget(c) /\ UNCHANGED answer
      \/ Reply(c, "refused")
  BY Zenon DEF After
<1>5. /\ pc' \in [Call -> {"start", "existing", "speakers", "room", "crew",
                          "readback", "audit", "delete", "done"}]
      /\ pc'[c] \in {next, "done"}
      /\ \A d \in Call \ {c} : pc'[d] = pc[d]
  BY <1>4 DEF TypeOK
<1>6. /\ session' = [session EXCEPT ![c] = None]
      /\ room' = [room EXCEPT ![c] = None]
      /\ slot' = [slot EXCEPT ![c] = None]
      /\ crew' = [crew EXCEPT ![c] = {}]
      /\ ahead' = [ahead EXCEPT ![c] = {}]
  BY <1>4
<1>7. answer' \in [Call -> {None, "ok", "refused", "error"}]
  BY <1>4 DEF TypeOK
<1>8. BoundLocals'
  BY <1>3, <1>5, <1>6 DEF BoundLocals, TypeOK
<1>9. /\ session' \in [Call -> Session \union {None}]
      /\ room' \in [Call -> Room \union {None}]
      /\ slot' \in [Call -> Slot \union {None}]
      /\ crew' \in [Call -> SUBSET Speaker]
      /\ ahead' \in [Call -> SUBSET Speaker]
  BY <1>6 DEF TypeOK
<1> QED
  <2>1. \A d \in Call \ {c} : session'[d] = session[d] /\ crew'[d] = crew[d]
    BY <1>6 DEF TypeOK
  <2> QED
    BY <1>2, <1>3, <1>5, <1>7, <1>8, <1>9, <2>1 DEF AfterFacts, TypeOK

\* The reservations a batch writes are those of its placement.
LEMMA ReserveTypes ==
  ASSUME Shape, NEW c \in Call, pc[c] = "crew", Reserve(c)
  PROVE  /\ roomRes' \in [Call -> SUBSET RoomRes]
         /\ speakerRes' \in [Call -> SUBSET SpeakerRes]
BY DEF Reserve, Shape, TypeOK, BoundLocals, Before, RoomRes, SpeakerRes

LEMMA ShapeStep == Shape /\ [Next]_vars => Shape'
<1> SUFFICES ASSUME Shape, [Next]_vars PROVE Shape'
  OBVIOUS
<1> USE NoneAssumption, LineupAssumption, MaxAssumption, SlotAssumption
<1> USE DEF Shape, TypeOK, BoundLocals, CommittedOnce, Before, Goto, Forget,
            Reply, Request, tableVars, decisionVars, requestVars, localVars,
            doneVars, callVars
<1>1. CASE UNCHANGED vars
  BY <1>1 DEF vars
<1>2. ASSUME NEW c \in Call, NEW s \in Session, NEW r \in Room, NEW t \in Slot,
             PlaceStart(c, s, r, t)
      PROVE Shape'
  BY <1>2 DEF PlaceStart
<1>3. ASSUME NEW c \in Call, FindExisting(c) PROVE Shape'
  <2>1. CASE Reply(c, "refused")
    BY <1>3, <2>1 DEF FindExisting
  <2>2. CASE Goto(c, "speakers") /\ UNCHANGED localVars
    BY <1>3, <2>2 DEF FindExisting
  <2> QED
    BY <1>3, <2>1, <2>2 DEF FindExisting
<1>4. ASSUME NEW c \in Call, NEW p \in Call, NEW v \in 1..MaxVersion,
             NEW r \in Room, NEW t \in Slot, MoveStart(c, p, v, r, t)
      PROVE Shape'
  BY <1>4 DEF MoveStart, Row
<1>5. ASSUME NEW c \in Call, ReadSpeakers(c) PROVE Shape'
  BY <1>5 DEF ReadSpeakers
<1>6. ASSUME NEW c \in Call, CheckRoom(c) PROVE Shape'
  <2>1. CASE Reply(c, "refused")
    BY <1>6, <2>1 DEF CheckRoom
  <2>2. CASE Goto(c, "crew") /\ UNCHANGED localVars
    BY <1>6, <2>2 DEF CheckRoom
  <2> QED
    BY <1>6, <2>1, <2>2 DEF CheckRoom
<1>7. ASSUME NEW c \in Call, NEW s \in Speaker, CheckSpeaker(c, s)
      PROVE Shape'
  <2>1. CASE Reply(c, "refused")
    BY <1>7, <2>1 DEF CheckSpeaker
  <2>2. CASE /\ ahead' = [ahead EXCEPT ![c] = @ \ {s}]
             /\ UNCHANGED <<pc, session, room, slot, crew, answer>>
    <3>1. ahead' \in [Call -> SUBSET Speaker]
      BY <2>2
    <3> QED
      BY <1>7, <2>2, <3>1 DEF CheckSpeaker
  <2> QED
    BY <1>7, <2>1, <2>2, Zenon DEF CheckSpeaker
<1>8. ASSUME NEW c \in Call, Insert(c) PROVE Shape'
  <2> DEFINE fits == /\ \A p \in Placed : placement[p].session # session[c]
                     /\ BatchFits(c)
  <2> HIDE DEF fits
  <2>1. /\ pc[c] = "crew" /\ op[c] = "place" /\ target[c] = c
        /\ session[c] \in Session /\ room[c] \in Room /\ slot[c] \in Slot
    BY <1>8 DEF Insert
  <2>2. After(c, fits, "readback") /\ fits \in BOOLEAN
    BY <1>8, Zenon DEF Insert, fits
  <2>5. AfterFacts(c, fits, "readback")
    BY <2>1, <2>2, AfterBatch
  <2>3. CASE fits
    <3> DEFINE row == BuildRow(c, session[c], 1)
    <3>1. row \in Row
      BY <2>1 DEF Row, BuildRow
    <3>2. placement' = [placement EXCEPT ![c] = row] /\ Reserve(c)
      BY <1>8, <2>3, Zenon DEF Insert, fits
    <3> HIDE DEF row
    <3>3. TypeOK' /\ BoundLocals'
      BY <2>1, <2>5, <3>1, <3>2, ReserveTypes DEF AfterFacts
    <3>5. committed'[c] = TRUE
      BY <2>3, <2>5, Zenon DEF AfterFacts
    <3>4. CommittedOnce'
      <4> HIDE DEF fits
      <4>1. /\ \A d \in Call \ {c} : committed'[d] = committed[d] /\ pc'[d] = pc[d]
            /\ \A d \in Call \ {c} : placement'[d] = placement[d]
            /\ pc'[c] \in {"readback", "done"}
            /\ UNCHANGED op
        BY <2>5, <3>2 DEF AfterFacts
      <4> QED
        BY <2>1, <3>5, <4>1
    <3> QED
      BY <3>3, <3>4
  <2>4. CASE ~fits
    <3>1. UNCHANGED tableVars
      BY <1>8, <2>4, Zenon DEF Insert, fits
    <3> QED
      BY <2>1, <2>5, <3>1 DEF AfterFacts
  <2> QED
    BY <2>3, <2>4
<1>9. ASSUME NEW c \in Call, Update(c) PROVE Shape'
  <2> DEFINE wins == CasHolds(c) /\ BatchFits(c)
             p    == target[c]
  <2> HIDE DEF wins
  <2>1. /\ pc[c] = "crew" /\ p \in Call
        /\ session[c] \in Session /\ room[c] \in Room /\ slot[c] \in Slot
    BY <1>9 DEF Update
  <2>2. After(c, wins, "readback") /\ wins \in BOOLEAN
    BY <1>9, Zenon DEF Update, wins
  <2>5. AfterFacts(c, wins, "readback")
    BY <2>1, <2>2, AfterBatch
  <2>3. CASE wins
    <3>1. placement[p] \in Row /\ placement[p].version = expected[c]
      BY <2>1, <2>3 DEF wins, CasHolds
    <3> DEFINE row == BuildRow(c, placement[p].session, expected[c] + 1)
    <3>2. placement' = [placement EXCEPT ![p] = row] /\ Reserve(c)
      BY <1>9, <2>3, Zenon DEF Update, wins, Gate
    <3>4. row \in Row
      BY <2>1, <3>1 DEF Row, BuildRow
    <3> HIDE DEF row
    <3>5. TypeOK' /\ BoundLocals'
      BY <2>1, <2>5, <3>2, <3>4, ReserveTypes DEF AfterFacts
    <3>7. committed'[c] = TRUE
      BY <2>3, <2>5, Zenon DEF AfterFacts
    <3>6. CommittedOnce'
      <4>1. /\ \A d \in Call \ {c} : committed'[d] = committed[d] /\ pc'[d] = pc[d]
            /\ \A d \in Call \ {p} : placement'[d] = placement[d]
            /\ pc'[c] \in {"readback", "done"}
            /\ UNCHANGED op
        BY <2>5, <3>2 DEF AfterFacts
      <4>2. committed[p] /\ op[p] = "place" /\ p # c
        BY <1>9, <2>1, <3>1, NoneAssumption DEF Row, Update
      <4> QED
        BY <2>1, <3>7, <4>1, <4>2
    <3> QED
      BY <3>5, <3>6
  <2>4. CASE ~wins
    <3>1. UNCHANGED tableVars
      BY <1>9, <2>4, Zenon DEF Update, wins, Gate
    <3> QED
      BY <2>1, <2>5, <3>1 DEF AfterFacts
  <2> QED
    BY <2>3, <2>4
<1>10. ASSUME NEW c \in Call, ReadBack(c) PROVE Shape'
  <2>1. CASE Goto(c, "audit") /\ UNCHANGED localVars
    BY <1>10, <2>1 DEF ReadBack
  <2>2. ASSUME NEW a \in {"error", "refused"}, Reply(c, a) PROVE Shape'
    BY <1>10, <2>2 DEF ReadBack
  <2> QED
    BY <1>10, <2>1, <2>2, Zenon DEF ReadBack
<1>11. ASSUME NEW c \in Call, Audit(c) PROVE Shape'
  BY <1>11 DEF Audit
<1>12. ASSUME NEW c \in Call, NEW p \in Call, NEW v \in 1..MaxVersion,
              UnscheduleStart(c, p, v)
       PROVE Shape'
  BY <1>12 DEF UnscheduleStart
<1>13. ASSUME NEW c \in Call, Delete(c) PROVE Shape'
  <2> DEFINE wins == CasHolds(c)
  <2> HIDE DEF wins
  <2>1. pc[c] = "delete" /\ target[c] \in Call
    BY <1>13 DEF Delete
  <2>2. After(c, wins, "audit") /\ wins \in BOOLEAN
    BY <1>13, Zenon DEF Delete, wins, CasHolds
  <2>5. AfterFacts(c, wins, "audit")
    BY <2>1, <2>2, AfterBatch
  <2>3. CASE wins
    <3>1. /\ placement' = [placement EXCEPT ![target[c]] = None]
          /\ roomRes' = [roomRes EXCEPT ![target[c]] = {}]
          /\ speakerRes' = [speakerRes EXCEPT ![target[c]] = {}]
      BY <1>13, <2>3, Zenon DEF Delete, wins
    <3> QED
      BY <2>1, <2>5, <3>1 DEF AfterFacts
  <2>4. CASE ~wins
    <3>1. UNCHANGED tableVars
      BY <1>13, <2>4, Zenon DEF Delete, wins
    <3> QED
      BY <2>1, <2>5, <3>1 DEF AfterFacts
  <2> QED
    BY <2>3, <2>4
<1>14. ASSUME NEW s \in Session, Reactivate(s) PROVE Shape'
  BY <1>14 DEF Reactivate, Decide
<1>15. ASSUME NEW s \in Session, NEW p \in Speaker, LinkSpeaker(s, p)
       PROVE Shape'
  BY <1>15 DEF LinkSpeaker
<1>16. ASSUME NEW s \in Session, UnlinkSpeakers(s) PROVE Shape'
  BY <1>16 DEF UnlinkSpeakers, Decide
<1>17. ASSUME NEW s \in Session, CancelSession(s) PROVE Shape'
  BY <1>17 DEF CancelSession
<1> QED
  BY <1>1, <1>2, <1>3, <1>4, <1>5, <1>6, <1>7, <1>8, <1>9, <1>10, <1>11,
     <1>12, <1>13, <1>14, <1>15, <1>16, <1>17 DEF Next, Command, Decision

\* Every variable keeps its type.
THEOREM TypeCorrect == Spec => []TypeOK
<1>1. Spec => []Shape
  BY ShapeInit, ShapeStep, PTL DEF Spec
<1> QED
  BY <1>1, PTL DEF Shape
-----------------------------------------------------------------------------
(* The tables: only the three batches change them. *)

\* A batch that passes its NOT EXISTS conditions makes no overlap, whatever
\* the advisory checks saw.
LEMMA ReserveNoClash ==
  ASSUME Shape, NoClash, NEW c \in Call, pc[c] = "crew",
         BatchFits(c), Reserve(c)
  PROVE  NoClash'
<1> DEFINE p == target[c]
<1>1. p \in Call /\ slot[c] \in Slot
  BY DEF Shape, BoundLocals, Before
<1>2. \A q \in Call \ {p} : roomRes'[q] = roomRes[q] /\ speakerRes'[q] = speakerRes[q]
  BY <1>1 DEF Reserve, Shape, TypeOK
<1>3. /\ roomRes'[p] = {[room |-> room[c], slot |-> slot[c]]}
      /\ speakerRes'[p] = {[speaker |-> s, slot |-> slot[c]] : s \in crew[c]}
  BY <1>1 DEF Reserve, Shape, TypeOK
<1>4. \A q \in Call : /\ \A b \in roomRes[q] : b.slot \in Slot
                     /\ \A b \in speakerRes[q] : b.slot \in Slot
  BY DEF Shape, TypeOK, RoomRes, SpeakerRes
<1>5. \A q \in Call \ {p} : \A a \in roomRes'[p], b \in roomRes[q] :
         a.room = b.room => ~Overlap(a.slot, b.slot) /\ ~Overlap(b.slot, a.slot)
  BY <1>1, <1>3, <1>4, OverlapSymmetric DEF BatchFits, RoomTaken
<1>6. \A q \in Call \ {p} : \A a \in speakerRes'[p], b \in speakerRes[q] :
         a.speaker = b.speaker
           => ~Overlap(a.slot, b.slot) /\ ~Overlap(b.slot, a.slot)
  BY <1>1, <1>3, <1>4, OverlapSymmetric DEF BatchFits, SpeakerTaken
<1> QED
  <2> SUFFICES ASSUME NEW q1 \in Call, NEW q2 \in Call, q1 # q2
               PROVE  /\ \A a \in roomRes'[q1], b \in roomRes'[q2] :
                            a.room = b.room => ~Overlap(a.slot, b.slot)
                      /\ \A a \in speakerRes'[q1], b \in speakerRes'[q2] :
                            a.speaker = b.speaker => ~Overlap(a.slot, b.slot)
    BY DEF NoClash, Overlap
  <2> HIDE DEF p
  <2>1. CASE q1 = p
    BY <1>2, <1>5, <1>6, <2>1
  <2>2. CASE q2 = p
    BY <1>2, <1>5, <1>6, <2>2
  <2>3. CASE q1 # p /\ q2 # p
    BY <1>2, <2>3 DEF NoClash
  <2> QED
    BY <2>1, <2>2, <2>3

\* A placed row and its new reservations agree.
LEMMA ReserveMatches ==
  ASSUME Shape, ReservationsMatchPlacement, NEW c \in Call, pc[c] = "crew",
         NEW s \in Session, NEW v \in Nat, Reserve(c),
         placement' = [placement EXCEPT ![target[c]] = BuildRow(c, s, v)]
  PROVE  ReservationsMatchPlacement'
<1> DEFINE p == target[c]
<1>1. p \in Call
  BY DEF Shape, BoundLocals, Before
<1>2. \A q \in Call \ {p} : /\ roomRes'[q] = roomRes[q]
                           /\ speakerRes'[q] = speakerRes[q]
                           /\ placement'[q] = placement[q]
  BY <1>1 DEF Reserve, Shape, TypeOK
<1>3. /\ roomRes'[p] = {[room |-> room[c], slot |-> slot[c]]}
      /\ speakerRes'[p] = {[speaker |-> x, slot |-> slot[c]] : x \in crew[c]}
      /\ placement'[p] = BuildRow(c, s, v)
  BY <1>1 DEF Reserve, Shape, TypeOK
<1>4. BuildRow(c, s, v) # None
  BY NoneAssumption DEF BuildRow, Shape, TypeOK, BoundLocals, Before
<1> QED
  BY <1>2, <1>3, <1>4 DEF ReservationsMatchPlacement, BuildRow

\* What each batch does to the tables.
LEMMA InsertEffect ==
  ASSUME Shape, NEW c \in Call, Insert(c)
  PROVE  \/ UNCHANGED tableVars /\ ~committed'[c]
         \/ /\ pc[c] = "crew" /\ target[c] = c /\ placement[c] = None
            /\ session[c] \in Session
            /\ \A p \in Placed : placement[p].session # session[c]
            /\ BatchFits(c)
            /\ placement' = [placement EXCEPT ![c] = BuildRow(c, session[c], 1)]
            /\ Reserve(c)
<1>1. /\ pc[c] = "crew" /\ target[c] = c /\ placement[c] = None
      /\ session[c] \in Session
  BY DEF Insert, Shape, BoundLocals, CommittedOnce, Before
<1> DEFINE changed == /\ \A p \in Placed : placement[p].session # session[c]
                     /\ BatchFits(c)
<1> HIDE DEF changed
<1>3. changed \in BOOLEAN /\ After(c, changed, "readback")
  BY Zenon DEF Insert, changed
<1>4. committed'[c] = changed
  BY <1>1, <1>3, AfterBatch DEF AfterFacts, Before
<1>5. CASE changed
  BY <1>1, <1>5, Zenon DEF Insert, changed
<1>6. CASE ~changed
  <2>1. UNCHANGED tableVars
    BY <1>6, Zenon DEF Insert, changed
  <2> QED
    BY <1>4, <1>6, <2>1, Zenon
<1> QED
  BY <1>5, <1>6

LEMMA UpdateEffect ==
  ASSUME Shape, NEW c \in Call, Update(c)
  PROVE  \/ UNCHANGED tableVars /\ ~committed'[c]
         \/ /\ pc[c] = "crew" /\ target[c] \in Call
            /\ placement[target[c]] \in Row
            /\ placement[target[c]].version = expected[c]
            /\ BatchFits(c)
            /\ placement' = [placement EXCEPT ![target[c]] =
                   BuildRow(c, placement[target[c]].session, expected[c] + 1)]
            /\ Reserve(c)
<1>1. pc[c] = "crew" /\ target[c] \in Call
  BY DEF Update, Shape, BoundLocals, Before
<1>2. CasHolds(c) => /\ placement[target[c]] \in Row
                     /\ placement[target[c]].version = expected[c]
  BY <1>1 DEF CasHolds, Shape, TypeOK
<1> DEFINE changed == CasHolds(c) /\ BatchFits(c)
<1> HIDE DEF changed
<1>3. changed \in BOOLEAN /\ After(c, changed, "readback")
  BY Zenon DEF Update, changed
<1>4. committed'[c] = changed
  BY <1>1, <1>3, AfterBatch DEF AfterFacts, Before
<1>5. CASE changed
  BY <1>1, <1>2, <1>5, Zenon DEF Update, changed, Gate
<1>6. CASE ~changed
  <2>1. UNCHANGED tableVars
    BY <1>6, Zenon DEF Update, changed, Gate
  <2> QED
    BY <1>4, <1>6, <2>1, Zenon
<1> QED
  BY <1>5, <1>6

LEMMA DeleteEffect ==
  ASSUME Shape, NEW c \in Call, Delete(c)
  PROVE  \/ UNCHANGED tableVars /\ ~committed'[c]
         \/ /\ target[c] \in Call
            /\ placement[target[c]] \in Row
            /\ placement[target[c]].version = expected[c]
            /\ placement' = [placement EXCEPT ![target[c]] = None]
            /\ roomRes' = [roomRes EXCEPT ![target[c]] = {}]
            /\ speakerRes' = [speakerRes EXCEPT ![target[c]] = {}]
<1>1. target[c] \in Call
  BY DEF Delete, Shape, BoundLocals, Before
<1>2. CasHolds(c) => /\ placement[target[c]] \in Row
                     /\ placement[target[c]].version = expected[c]
  BY <1>1 DEF CasHolds, Shape, TypeOK
<1> DEFINE changed == CasHolds(c)
<1> HIDE DEF changed
<1>3. changed \in BOOLEAN /\ After(c, changed, "audit")
  BY Zenon DEF Delete, changed, CasHolds
<1>4. committed'[c] = changed
  BY <1>1, <1>3, AfterBatch DEF AfterFacts, Before, Delete
<1>5. CASE changed
  BY <1>1, <1>2, <1>5, Zenon DEF Delete, changed
<1>6. CASE ~changed
  <2>1. UNCHANGED tableVars
    BY <1>6, Zenon DEF Delete, changed
  <2> QED
    BY <1>4, <1>6, <2>1, Zenon
<1> QED
  BY <1>5, <1>6

LEMMA OnlyBatches ==
  ASSUME [Next]_vars
  PROVE  \/ UNCHANGED tableVars
         \/ \E c \in Call : Insert(c) \/ Update(c) \/ Delete(c)
BY DEF Next, Command, Decision, vars, callVars, PlaceStart, FindExisting,
   MoveStart, ReadSpeakers, CheckRoom, CheckSpeaker, ReadBack, Audit,
   UnscheduleStart, Reactivate, LinkSpeaker, UnlinkSpeakers, CancelSession

LEMMA TablesInit == Init => TableInv
BY DEF Init, TableInv, ReservationsMatchPlacement, NoClash,
       OnePlacementPerSession, Placed

LEMMA TablesStep == Shape /\ TableInv /\ [Next]_vars => TableInv'
<1> SUFFICES ASSUME Shape, TableInv, [Next]_vars PROVE TableInv'
  OBVIOUS
<1> USE DEF TableInv
<1>1. CASE UNCHANGED tableVars
  BY <1>1 DEF tableVars, ReservationsMatchPlacement, NoClash, Overlap,
              OnePlacementPerSession, Placed
<1>2. ASSUME NEW c \in Call, Insert(c), ~UNCHANGED tableVars PROVE TableInv'
  <2>1. /\ pc[c] = "crew" /\ target[c] = c /\ placement[c] = None
        /\ session[c] \in Session
        /\ \A p \in Placed : placement[p].session # session[c]
        /\ BatchFits(c)
        /\ placement' = [placement EXCEPT ![c] = BuildRow(c, session[c], 1)]
        /\ Reserve(c)
    BY <1>2, InsertEffect
  <2>2. ReservationsMatchPlacement' /\ NoClash'
    BY <2>1, ReserveMatches, ReserveNoClash
  <2>3. OnePlacementPerSession'
    BY <2>1 DEF OnePlacementPerSession, Placed, BuildRow, Shape, TypeOK
  <2> QED
    BY <2>2, <2>3
<1>3. ASSUME NEW c \in Call, Update(c), ~UNCHANGED tableVars PROVE TableInv'
  <2> DEFINE p == target[c]
  <2>1. /\ pc[c] = "crew" /\ p \in Call /\ placement[p] \in Row
        /\ BatchFits(c)
        /\ placement' = [placement EXCEPT ![p] =
               BuildRow(c, placement[p].session, expected[c] + 1)]
        /\ Reserve(c)
    BY <1>3, UpdateEffect
  <2>2. placement[p].session \in Session /\ expected[c] + 1 \in Nat
    BY <2>1 DEF Row, Shape, TypeOK
  <2>3. ReservationsMatchPlacement' /\ NoClash'
    BY <2>1, <2>2, ReserveMatches, ReserveNoClash
  <2>4. placement[p] # None
    BY <2>1, NoneAssumption DEF Row
  <2>5. OnePlacementPerSession'
    BY <2>1, <2>4 DEF OnePlacementPerSession, Placed, BuildRow, Shape, TypeOK
  <2> QED
    BY <2>3, <2>5
<1>4. ASSUME NEW c \in Call, Delete(c), ~UNCHANGED tableVars PROVE TableInv'
  <2>1. /\ target[c] \in Call
        /\ placement' = [placement EXCEPT ![target[c]] = None]
        /\ roomRes' = [roomRes EXCEPT ![target[c]] = {}]
        /\ speakerRes' = [speakerRes EXCEPT ![target[c]] = {}]
    BY <1>4, DeleteEffect
  <2>2. ReservationsMatchPlacement'
    BY <2>1 DEF ReservationsMatchPlacement, Shape, TypeOK
  <2>3. NoClash'
    BY <2>1 DEF NoClash, Overlap, Shape, TypeOK
  <2>4. OnePlacementPerSession'
    BY <2>1 DEF OnePlacementPerSession, Placed, Shape, TypeOK
  <2> QED
    BY <2>2, <2>3, <2>4
<1> QED
  BY <1>1, <1>2, <1>3, <1>4, OnlyBatches

LEMMA Inductive == Spec => [](Shape /\ TableInv)
BY ShapeInit, ShapeStep, TablesInit, TablesStep, PTL DEF Spec

\* A placement and its reservations always agree.
THEOREM Matching == Spec => []ReservationsMatchPlacement
BY Inductive, PTL DEF TableInv

\* No two placements of one room overlap.
THEOREM RoomsSafe == Spec => []RoomNeverDoubleBooked
<1>1. TableInv => RoomNeverDoubleBooked
  <2> SUFFICES ASSUME TableInv, NEW p \in Placed, NEW q \in Placed, p # q,
                      placement[p].room = placement[q].room
               PROVE  ~Overlap(placement[p].slot, placement[q].slot)
    BY DEF RoomNeverDoubleBooked
  <2>1. /\ [room |-> placement[p].room, slot |-> placement[p].slot] \in roomRes[p]
        /\ [room |-> placement[q].room, slot |-> placement[q].slot] \in roomRes[q]
    BY DEF TableInv, ReservationsMatchPlacement, Placed
  <2>2. \A a \in roomRes[p], b \in roomRes[q] :
           a.room = b.room => ~Overlap(a.slot, b.slot)
    BY DEF TableInv, NoClash, Placed
  <2> QED
    BY <2>1, <2>2
<1> QED
  BY <1>1, Inductive, PTL
-----------------------------------------------------------------------------
(* One winner: a request that has changed a placement has left its version   *)
(* behind for good.                                                          *)

\* The version a request named is gone once the request has committed.
VersionSpent ==
  \A c \in Call : committed[c] =>
     /\ target[c] \in Call
     /\ op[c] = "place" => target[c] = c /\ expected[c] = 0
     /\ op[c] # "place" => expected[c] # 0 /\ committed[target[c]]
     /\ placement[target[c]] # None
          => placement[target[c]].version > expected[c]

\* Whoever names a placement found it placed.
TargetPlaced ==
  \A c \in Call : op[c] \in {"move", "unschedule"} =>
     /\ target[c] \in Call
     /\ committed[target[c]] /\ op[target[c]] = "place"

WinnerInv == VersionSpent /\ TargetPlaced /\ OneWinnerPerVersion

LEMMA WinnerInit == Init => WinnerInv
BY NoneAssumption DEF Init, WinnerInv, VersionSpent, TargetPlaced,
   OneWinnerPerVersion

\* A batch belongs to one request, which has not committed before.
LEMMA BatchOwner ==
  ASSUME Shape, NEW c \in Call, Insert(c) \/ Update(c) \/ Delete(c)
  PROVE  /\ UNCHANGED <<op, target, expected>>
         /\ pc[c] # "start" /\ target[c] \in Call /\ ~committed[c]
         /\ committed' \in [Call -> BOOLEAN]
         /\ \A d \in Call \ {c} : committed'[d] = committed[d]
         /\ pc'[c] \notin Before
         /\ \A d \in Call \ {c} : /\ pc'[d] = pc[d]
                                /\ session'[d] = session[d]
                                /\ crew'[d] = crew[d]
<1>1. pc[c] \in Before \union {"delete"}
  BY DEF Insert, Update, Delete, Before
<1>2. \E changed \in BOOLEAN, next \in {"readback", "audit"} :
         After(c, changed, next)
  <2>1. Insert(c) => After(c, (\A p \in Placed : placement[p].session # session[c])
                               /\ BatchFits(c), "readback")
    BY Zenon DEF Insert
  <2>2. Update(c) => After(c, CasHolds(c) /\ BatchFits(c), "readback")
    BY Zenon DEF Update
  <2>3. Delete(c) => After(c, CasHolds(c), "audit") /\ CasHolds(c) \in BOOLEAN
    BY Zenon DEF Delete, CasHolds
  <2> QED
    BY <2>1, <2>2, <2>3, Zenon
<1>3. PICK changed \in BOOLEAN, next \in {"readback", "audit"} :
         After(c, changed, next)
  BY <1>2
<1>4. AfterFacts(c, changed, next)
  BY <1>1, <1>3, AfterBatch
<1> QED
  BY <1>1, <1>4 DEF AfterFacts, Shape, BoundLocals, CommittedOnce, Before

\* A request that starts names a placement it has just found.
LEMMA RequestOwner ==
  ASSUME Shape, [Next]_vars,
         ~UNCHANGED <<op, target, expected>>
  PROVE  /\ UNCHANGED <<placement, committed>>
         /\ \E c \in Call :
              /\ pc[c] = "start"
              /\ \A d \in Call \ {c} : /\ op'[d] = op[d]
                                     /\ target'[d] = target[d]
                                     /\ expected'[d] = expected[d]
              /\ op'[c] # "place" => /\ target'[c] \in Call
                                    /\ placement[target'[c]] # None
<1> USE DEF tableVars, decisionVars, requestVars, doneVars, Request
<1>1. \/ \E c \in Call, s \in Session, r \in Room, t \in Slot :
             PlaceStart(c, s, r, t)
      \/ \E c \in Call, p \in Call, v \in 1..MaxVersion, r \in Room, t \in Slot :
             MoveStart(c, p, v, r, t)
      \/ \E c \in Call, p \in Call, v \in 1..MaxVersion :
             UnscheduleStart(c, p, v)
  BY DEF Next, Command, Decision, vars, callVars, FindExisting, ReadSpeakers,
     CheckRoom, CheckSpeaker, Insert, Update, After, ReadBack, Audit, Delete,
     Reactivate, LinkSpeaker, UnlinkSpeakers, CancelSession
<1>2. ASSUME NEW c \in Call, NEW s \in Session, NEW r \in Room, NEW t \in Slot,
             PlaceStart(c, s, r, t)
      PROVE  /\ UNCHANGED <<placement, committed>>
             /\ pc[c] = "start"
             /\ \A d \in Call \ {c} : /\ op'[d] = op[d]
                                    /\ target'[d] = target[d]
                                    /\ expected'[d] = expected[d]
             /\ op'[c] = "place"
  BY <1>2 DEF PlaceStart, Shape, TypeOK
<1>3. ASSUME NEW c \in Call, NEW p \in Call, NEW v \in 1..MaxVersion,
             NEW r \in Room, NEW t \in Slot, MoveStart(c, p, v, r, t)
      PROVE  /\ UNCHANGED <<placement, committed>>
             /\ pc[c] = "start"
             /\ \A d \in Call \ {c} : /\ op'[d] = op[d]
                                    /\ target'[d] = target[d]
                                    /\ expected'[d] = expected[d]
             /\ target'[c] = p /\ placement[p] # None
  BY <1>3 DEF MoveStart, Shape, TypeOK
<1>4. ASSUME NEW c \in Call, NEW p \in Call, NEW v \in 1..MaxVersion,
             UnscheduleStart(c, p, v)
      PROVE  /\ UNCHANGED <<placement, committed>>
             /\ pc[c] = "start"
             /\ \A d \in Call \ {c} : /\ op'[d] = op[d]
                                    /\ target'[d] = target[d]
                                    /\ expected'[d] = expected[d]
             /\ target'[c] = p /\ placement[p] # None
  BY <1>4 DEF UnscheduleStart, Shape, TypeOK
<1> QED
  BY <1>1, <1>2, <1>3, <1>4

LEMMA WinnerStep == Shape /\ WinnerInv /\ [Next]_vars => WinnerInv'
<1> SUFFICES ASSUME Shape, WinnerInv, [Next]_vars PROVE WinnerInv'
  OBVIOUS
<1> USE DEF WinnerInv, VersionSpent, TargetPlaced, OneWinnerPerVersion
<1>1. CASE ~UNCHANGED <<op, target, expected>>
  <2>1. UNCHANGED <<placement, committed>>
    BY <1>1, RequestOwner
  <2>2. PICK c \in Call :
          /\ pc[c] = "start"
          /\ \A d \in Call \ {c} : /\ op'[d] = op[d]
                                 /\ target'[d] = target[d]
                                 /\ expected'[d] = expected[d]
          /\ op'[c] # "place" => /\ target'[c] \in Call
                                /\ placement[target'[c]] # None
    BY <1>1, RequestOwner
  <2>3. ~committed[c]
    BY <2>2 DEF Shape, CommittedOnce
  <2>4. \A p \in Call : placement[p] # None
                         => committed[p] /\ op'[p] = "place"
    BY <2>2, <2>3 DEF Shape, CommittedOnce
  <2>5. \A d \in Call : committed[d]
           => op'[d] = op[d] /\ target'[d] = target[d] /\ expected'[d] = expected[d]
    BY <2>2, <2>3
  <2>6. TargetPlaced'
    BY <2>1, <2>2, <2>4, <2>5
  <2>7. VersionSpent' /\ OneWinnerPerVersion'
    BY <2>1, <2>5
  <2> QED
    BY <2>6, <2>7
<1>2. CASE UNCHANGED <<placement, committed, op, target, expected>>
  BY <1>2
<1>3. ASSUME NEW c \in Call, Insert(c) PROVE WinnerInv'
  <2>1. /\ UNCHANGED <<op, target, expected>>
        /\ target[c] \in Call /\ ~committed[c]
        /\ committed' \in [Call -> BOOLEAN]
        /\ \A d \in Call \ {c} : committed'[d] = committed[d]
        /\ op[c] = "place" /\ target[c] = c /\ expected[c] = 0
    BY <1>3, BatchOwner DEF Insert, Shape, BoundLocals
  <2>2. CASE UNCHANGED tableVars /\ ~committed'[c]
    BY <2>1, <2>2 DEF tableVars
  <2>3. CASE placement' = [placement EXCEPT ![c] = BuildRow(c, session[c], 1)]
    <3>1. /\ \A d \in Call \ {c} : placement'[d] = placement[d]
          /\ placement'[c].version > 0
      BY <2>3 DEF BuildRow, Shape, TypeOK
    <3>2. \A d \in Call \ {c} : committed[d] => target[d] # c
      BY <2>1
    <3>3. VersionSpent' /\ OneWinnerPerVersion'
      BY <2>1, <3>1, <3>2
    <3>4. TargetPlaced'
      BY <2>1
    <3> QED
      BY <3>3, <3>4
  <2> QED
    BY <1>3, <2>2, <2>3, InsertEffect
<1>4. ASSUME NEW c \in Call, Update(c) PROVE WinnerInv'
  <2> DEFINE p == target[c]
  <2>1. /\ UNCHANGED <<op, target, expected>>
        /\ p \in Call /\ ~committed[c]
        /\ committed' \in [Call -> BOOLEAN]
        /\ \A d \in Call \ {c} : committed'[d] = committed[d]
        /\ op[c] = "move" /\ expected[c] # 0
    BY <1>4, BatchOwner DEF Update, Shape, BoundLocals
  <2>2. CASE UNCHANGED tableVars /\ ~committed'[c]
    BY <2>1, <2>2 DEF tableVars
  <2>3. CASE /\ placement[p] \in Row
             /\ placement[p].version = expected[c]
             /\ placement' = [placement EXCEPT ![p] =
                    BuildRow(c, placement[p].session, expected[c] + 1)]
    <3>1. /\ \A d \in Call \ {p} : placement'[d] = placement[d]
          /\ placement'[p].version = expected[c] + 1
          /\ placement[p] # None
      BY <2>1, <2>3, NoneAssumption DEF BuildRow, Row, Shape, TypeOK
    <3>2. \A d \in Call : expected[d] \in Nat
      BY DEF Shape, TypeOK
    <3>3. \A d \in Call \ {c} : committed[d] /\ target[d] = p
                                => expected[d] < expected[c]
      BY <2>1, <2>3, <3>1, <3>2
    <3>4. committed[p] /\ p # c
      BY <2>1, <3>1 DEF Shape, CommittedOnce
    <3>5. VersionSpent'
      <4>1. \A d \in Call : committed'[d] => committed[d] \/ d = c
        BY <2>1
      <4>2. \A d \in Call : committed[d] => committed'[d]
        BY <2>1
      <4> QED
        BY <2>1, <3>1, <3>2, <3>3, <3>4, <4>1, <4>2
    <3>6. OneWinnerPerVersion'
      BY <2>1, <3>2, <3>3
    <3>7. TargetPlaced'
      BY <2>1
    <3> QED
      BY <3>5, <3>6, <3>7
  <2> QED
    BY <1>4, <2>2, <2>3, UpdateEffect
<1>5. ASSUME NEW c \in Call, Delete(c) PROVE WinnerInv'
  <2> DEFINE p == target[c]
  <2>1. /\ UNCHANGED <<op, target, expected>>
        /\ p \in Call /\ ~committed[c]
        /\ committed' \in [Call -> BOOLEAN]
        /\ \A d \in Call \ {c} : committed'[d] = committed[d]
        /\ op[c] = "unschedule" /\ expected[c] # 0
    BY <1>5, BatchOwner DEF Delete, Shape, BoundLocals
  <2>2. CASE UNCHANGED tableVars /\ ~committed'[c]
    BY <2>1, <2>2 DEF tableVars
  <2>3. CASE /\ placement[p] \in Row
             /\ placement[p].version = expected[c]
             /\ placement' = [placement EXCEPT ![p] = None]
    <3>1. /\ \A d \in Call \ {p} : placement'[d] = placement[d]
          /\ placement'[p] = None
          /\ placement[p] # None
      BY <2>1, <2>3, NoneAssumption DEF Row, Shape, TypeOK
    <3>2. \A d \in Call : expected[d] \in Nat
      BY DEF Shape, TypeOK
    <3>3. \A d \in Call \ {c} : committed[d] /\ target[d] = p
                                => expected[d] < expected[c]
      BY <2>1, <2>3, <3>1, <3>2
    <3>4. committed[p] /\ p # c
      BY <2>1, <3>1 DEF Shape, CommittedOnce
    <3>5. VersionSpent'
      <4>1. \A d \in Call : committed'[d] => committed[d] \/ d = c
        BY <2>1
      <4>2. \A d \in Call : committed[d] => committed'[d]
        BY <2>1
      <4> QED
        BY <2>1, <3>1, <3>4, <4>1, <4>2
    <3>6. OneWinnerPerVersion'
      BY <2>1, <3>2, <3>3
    <3>7. TargetPlaced'
      BY <2>1
    <3> QED
      BY <3>5, <3>6, <3>7
  <2> QED
    BY <1>5, <2>2, <2>3, DeleteEffect
<1>6. CASE /\ UNCHANGED <<op, target, expected>>
           /\ ~UNCHANGED <<placement, committed>>
  <2>1. \E c \in Call : Insert(c) \/ Update(c) \/ Delete(c)
    BY <1>6 DEF Next, Command, Decision, vars, tableVars, callVars, doneVars,
       PlaceStart, FindExisting, MoveStart, ReadSpeakers, CheckRoom,
       CheckSpeaker, ReadBack, Audit, UnscheduleStart, Reactivate,
       LinkSpeaker, UnlinkSpeakers, CancelSession
  <2> QED
    BY <2>1, <1>3, <1>4, <1>5
<1> QED
  BY <1>1, <1>2, <1>6

\* Requests that name the same version of a placement: one wins at most.
THEOREM OneWinner == Spec => []OneWinnerPerVersion
<1>1. Spec => []WinnerInv
  BY Inductive, WinnerInit, WinnerStep, PTL DEF Spec
<1> QED
  BY <1>1, PTL DEF WinnerInv
-----------------------------------------------------------------------------
(* The tables implement Calendar: every batch that changes them books,       *)
(* rebooks or cancels one placement.                                         *)

Bookings == [p \in Call |-> IF placement[p] = None THEN None ELSE Booked(p)]

BookingsTyped ==
  \A p \in Placed : Booked(p) \in Promise!Booking /\ Booked(p) # None

BookingsApart ==
  \A p, q \in Placed : p # q => ~Promise!Clash(Booked(p), Booked(q))

LEMMA TypedBookings == Shape => BookingsTyped
<1> SUFFICES ASSUME Shape, NEW p \in Placed
             PROVE  Booked(p) \in Promise!Booking /\ Booked(p) # None
  BY DEF BookingsTyped
<1>1. placement[p] \in Row
  BY DEF Placed, Shape, TypeOK
<1>2. Crew(p) \subseteq Speaker
  BY DEF Placed, Crew, Shape, TypeOK, SpeakerRes
<1> HIDE DEF Crew
<1>3. Booked(p) \in Promise!Booking
  BY <1>1, <1>2 DEF Booked, Row, Promise!Booking
<1> QED
  BY <1>3, NoneAssumption DEF Promise!Booking

LEMMA ApartBookings == Shape /\ TableInv => BookingsApart
<1> SUFFICES ASSUME Shape, TableInv, NEW p \in Placed, NEW q \in Placed,
                    p # q, Overlap(placement[p].slot, placement[q].slot)
             PROVE  /\ placement[p].room # placement[q].room
                    /\ Crew(p) \intersect Crew(q) = {}
  BY DEF BookingsApart, Promise!Clash, Promise!Overlap, Overlap, Booked
<1>1. p \in Call /\ q \in Call
  BY DEF Placed
<1>2. /\ [room |-> placement[p].room, slot |-> placement[p].slot] \in roomRes[p]
      /\ [room |-> placement[q].room, slot |-> placement[q].slot] \in roomRes[q]
  BY DEF TableInv, ReservationsMatchPlacement, Placed
<1>3. \A a \in roomRes[p], b \in roomRes[q] :
         a.room = b.room => ~Overlap(a.slot, b.slot)
  BY <1>1 DEF TableInv, NoClash
<1>4. placement[p].room # placement[q].room
  BY <1>2, <1>3
<1>5. ASSUME NEW a \in speakerRes[p], NEW b \in speakerRes[q],
             a.speaker = b.speaker
      PROVE  FALSE
  <2>1. a.slot = placement[p].slot /\ b.slot = placement[q].slot
    BY DEF TableInv, ReservationsMatchPlacement, Placed
  <2>2. ~Overlap(a.slot, b.slot)
    BY <1>1, <1>5 DEF TableInv, NoClash
  <2> QED
    BY <2>1, <2>2
<1> QED
  BY <1>4, <1>5 DEF Crew

\* A batch that leaves the other placements alone is a change of one booking.
LEMMA OneChange ==
  ASSUME BookingsTyped', BookingsApart', BookingsTyped, NEW p \in Call,
         \A q \in Call \ {p} : /\ placement'[q] = placement[q]
                              /\ speakerRes'[q] = speakerRes[q]
  PROVE  Promise!Change(p)
<1>1. \A q \in Call \ {p} : Bookings'[q] = Bookings[q]
  BY DEF Bookings, Booked, Crew
<1>2. Bookings' \in Promise!Table
  BY DEF Bookings, Promise!Table, BookingsTyped, Placed
<1>3. ASSUME Bookings'[p] # None, NEW q \in Call \ {p}, Bookings[q] # None
      PROVE  ~Promise!Clash(Bookings'[p], Bookings[q])
  <2>1. placement'[p] # None /\ placement'[q] # None
    BY <1>3 DEF Bookings
  <2>2. ~Promise!Clash(Booked(p), Booked(q))'
    BY <2>1 DEF BookingsApart, Placed
  <2>3. Bookings'[p] = Booked(p)' /\ Bookings[q] = Booked(q)'
    BY <1>1, <1>3, <2>1 DEF Bookings
  <2> QED
    BY <2>2, <2>3 DEF Promise!Clash, Promise!Overlap
<1> QED
  BY <1>1, <1>2, <1>3 DEF Promise!Change, Promise!Placed, Bookings

LEMMA CalendarInit == Init => Promise!Init
BY DEF Init, Promise!Init

LEMMA CalendarStep ==
  /\ Shape /\ TableInv /\ BookingsTyped
  /\ (BookingsTyped /\ BookingsApart)'
  /\ [Next]_vars
  => [Promise!Next]_Bookings
<1> SUFFICES ASSUME Shape, TableInv, BookingsTyped, BookingsTyped',
                    BookingsApart', [Next]_vars
             PROVE  [Promise!Next]_Bookings
  OBVIOUS
<1>1. CASE UNCHANGED tableVars
  BY <1>1 DEF tableVars, Bookings, Booked, Crew
<1>2. ASSUME NEW c \in Call, Insert(c), ~UNCHANGED tableVars
      PROVE  Promise!Next
  <2>1. /\ pc[c] = "crew" /\ target[c] = c /\ placement[c] = None
        /\ \A p \in Placed : placement[p].session # session[c]
        /\ placement' = [placement EXCEPT ![c] = BuildRow(c, session[c], 1)]
        /\ Reserve(c)
    BY <1>2, InsertEffect
  <2>2. /\ \A q \in Call \ {c} : /\ placement'[q] = placement[q]
                               /\ speakerRes'[q] = speakerRes[q]
        /\ placement'[c] = BuildRow(c, session[c], 1)
    BY <2>1 DEF Reserve, Shape, TypeOK
  <2>3. placement'[c] # None
    BY <2>1, <2>2, NoneAssumption
       DEF BuildRow, Shape, TypeOK, BoundLocals, Before
  <2>4. Promise!Change(c)
    BY <2>2, OneChange
  <2>5. Bookings[c] = None /\ Bookings'[c] = Booked(c)'
    BY <2>1, <2>3 DEF Bookings
  <2>6. Booked(c)'.version = 1 /\ Booked(c)'.session = session[c]
    BY <2>2 DEF Booked, BuildRow
  <2>7. Bookings'[c] # None
    BY <2>3, <2>5 DEF BookingsTyped, Placed
  <2>8. \A q \in Call : Bookings[q] # None => Bookings[q].session # session[c]
    BY <2>1 DEF Bookings, Booked, Placed
  <2> QED
    BY <2>4, <2>5, <2>6, <2>7, <2>8
       DEF Promise!Next, Promise!Book, Promise!Placed, Bookings
<1>3. ASSUME NEW c \in Call, Update(c), ~UNCHANGED tableVars
      PROVE  Promise!Next
  <2> PICK p \in Call : p = target[c]
    BY <1>3, BatchOwner
  <2>1. /\ pc[c] = "crew" /\ placement[p] \in Row
        /\ placement[p].version = expected[c]
        /\ placement' = [placement EXCEPT ![p] =
               BuildRow(c, placement[p].session, expected[c] + 1)]
        /\ Reserve(c)
    BY <1>3, UpdateEffect
  <2>2. /\ \A q \in Call \ {p} : /\ placement'[q] = placement[q]
                               /\ speakerRes'[q] = speakerRes[q]
        /\ placement'[p] = BuildRow(c, placement[p].session, expected[c] + 1)
    BY <2>1 DEF Reserve, Shape, TypeOK
  <2>3. placement'[p] # None /\ placement[p] # None
    <3>1. placement'[p] \in Row
      BY <2>1, <2>2 DEF BuildRow, Row, Shape, TypeOK, BoundLocals, Before
    <3> QED
      BY <2>1, <3>1, NoneAssumption DEF Row
  <2>4. Promise!Change(p)
    BY <2>1, <2>2, OneChange
  <2>5. Bookings[p] = Booked(p) /\ Bookings'[p] = Booked(p)'
    BY <2>1, <2>3 DEF Bookings
  <2>6. /\ Booked(p)'.version = Booked(p).version + 1
        /\ Booked(p)'.session = Booked(p).session
    BY <2>1, <2>2 DEF Booked, BuildRow
  <2>7. Bookings[p] # None /\ Bookings'[p] # None
    BY <2>1, <2>3, <2>5 DEF BookingsTyped, Placed
  <2> QED
    BY <2>4, <2>5, <2>6, <2>7 DEF Promise!Next, Promise!Rebook, Bookings
<1>4. ASSUME NEW c \in Call, Delete(c), ~UNCHANGED tableVars
      PROVE  Promise!Next
  <2> PICK p \in Call : p = target[c]
    BY <1>4, BatchOwner
  <2>1. /\ placement[p] \in Row
        /\ placement' = [placement EXCEPT ![p] = None]
        /\ speakerRes' = [speakerRes EXCEPT ![p] = {}]
    BY <1>4, DeleteEffect
  <2>2. /\ \A q \in Call \ {p} : /\ placement'[q] = placement[q]
                               /\ speakerRes'[q] = speakerRes[q]
        /\ placement'[p] = None /\ placement[p] # None
    BY <2>1, NoneAssumption DEF Row, Shape, TypeOK
  <2>3. Promise!Change(p)
    BY <2>1, <2>2, OneChange
  <2>4. Bookings[p] # None /\ Bookings'[p] = None
    BY <2>1, <2>2 DEF Bookings, BookingsTyped, Placed
  <2> QED
    BY <2>3, <2>4 DEF Promise!Next, Promise!Cancel, Bookings
<1> QED
  BY <1>1, <1>2, <1>3, <1>4, OnlyBatches

\* Whatever interleaves, the schedule changes as Calendar says.
THEOREM KeepsCalendar == Spec => CalendarKept
<1>1. Shape /\ TableInv => BookingsTyped /\ BookingsApart
  BY TypedBookings, ApartBookings
<1>2. Spec => []((Shape /\ TableInv) /\ (BookingsTyped /\ BookingsApart))
  BY <1>1, Inductive, PTL
<1>3. [Promise!Next]_Bookings
        <=> [Promise!Next]_[p \in Call |-> IF placement[p] = None
                                          THEN None ELSE Booked(p)]
  BY DEF Bookings
<1> QED
  BY <1>2, <1>3, CalendarInit, CalendarStep, PTL
     DEF Spec, CalendarKept, Promise!Spec
-----------------------------------------------------------------------------
(* The lineup of a session stands still until somebody decides on it, so its *)
(* placement reserves all of its speakers, and none is double-booked.        *)

LineupFrozen == \A s \in Session \ touched :
                   linked[s] = Lineup[s] /\ deciding[s] \notin {"link", "unlink"}

\* The speakers a request has read are those of its session.
CrewRead ==
  \A c \in Call : pc[c] \in {"room", "crew"} /\ session[c] \notin touched
                   => crew[c] = Lineup[session[c]]

\* A move knows the session of its placement.
SameSession ==
  \A c \in Call : /\ pc[c] \in Before /\ op[c] = "move"
                 /\ placement[target[c]] # None
                 => placement[target[c]].session = session[c]

CrewReserved ==
  \A p \in Untouched : Crew(p) = Lineup[placement[p].session]

FrozenInv == LineupFrozen /\ CrewRead /\ SameSession /\ CrewReserved

LEMMA FrozenInit == Init => FrozenInv
BY NoneAssumption DEF Init, FrozenInv, LineupFrozen, CrewRead, SameSession,
   CrewReserved, Untouched, Placed, Before

\* What a batch has reserved is what the request has read.
LEMMA ReservedCrew ==
  ASSUME Shape, FrozenInv, NEW c \in Call, pc[c] = "crew", Reserve(c),
         NEW p \in Call, target[c] = p,
         NEW v \in Nat, NEW s \in Session, s = session[c],
         placement' = [placement EXCEPT ![p] = BuildRow(c, s, v)],
         UNCHANGED touched
  PROVE  CrewReserved'
<1>1. /\ speakerRes'[p] = {[speaker |-> x, slot |-> slot[c]] : x \in crew[c]}
      /\ placement'[p] = BuildRow(c, s, v)
      /\ \A q \in Call \ {p} : /\ speakerRes'[q] = speakerRes[q]
                             /\ placement'[q] = placement[q]
  BY DEF Reserve, Shape, TypeOK
<1>2. Crew(p)' = crew[c]
  <2>1. \A x : x \in crew[c] => [speaker |-> x, slot |-> slot[c]] \in speakerRes'[p]
    BY <1>1
  <2>2. \A res \in speakerRes'[p] : res.speaker \in crew[c]
    BY <1>1
  <2>3. ASSUME NEW x \in crew[c] PROVE x \in Crew(p)'
    <3>1. [speaker |-> x, slot |-> slot[c]].speaker = x
      OBVIOUS
    <3> QED
      BY <2>1, <3>1 DEF Crew
  <2>4. ASSUME NEW x \in Crew(p)' PROVE x \in crew[c]
    BY <2>2 DEF Crew
  <2> QED
    BY <2>3, <2>4
<1>3. /\ placement'[p].session = s
      /\ s \notin touched => crew[c] = Lineup[s]
  BY <1>1 DEF FrozenInv, CrewRead, BuildRow
<1>4. \A q \in Call \ {p} : Crew(q)' = Crew(q)
  BY <1>1 DEF Crew
<1> QED
  BY <1>1, <1>2, <1>3, <1>4 DEF CrewReserved, Untouched, Placed, FrozenInv

LEMMA FrozenStep ==
  ASSUME Shape, WinnerInv, FrozenInv, [Next]_vars
  PROVE  FrozenInv'
<1> USE NoneAssumption, LineupAssumption
<1> USE DEF FrozenInv, tableVars, decisionVars, requestVars, localVars,
            doneVars, callVars, Goto, Reply, Forget, Request
<1> USE DEF CrewRead, SameSession, Before, Shape, TypeOK, BoundLocals
<1>1. ASSUME NEW c \in Call, Command(c) PROVE UNCHANGED decisionVars
  BY <1>1 DEF Command, PlaceStart, FindExisting, MoveStart, ReadSpeakers,
     CheckRoom, CheckSpeaker, Insert, Update, After, ReadBack, Audit,
     UnscheduleStart, Delete
<1>2. CASE UNCHANGED vars
  BY <1>2 DEF vars, LineupFrozen, CrewReserved, Untouched, Placed, Crew
<1>3. ASSUME NEW s \in Session, Decision(s) PROVE FrozenInv'
  <2>1. touched \subseteq touched' /\ UNCHANGED <<tableVars, callVars>>
    BY <1>3 DEF Decision, Reactivate, LinkSpeaker, UnlinkSpeakers,
       CancelSession, Decide
  <2>2. /\ s \in touched'
        /\ \A x \in Session \ {s} : /\ linked'[x] = linked[x]
                                   /\ deciding'[x] = deciding[x]
    BY <1>3 DEF Decision, Reactivate, LinkSpeaker, UnlinkSpeakers,
       CancelSession, Decide, LineupFrozen
  <2>3. LineupFrozen'
    BY <2>1, <2>2 DEF LineupFrozen
  <2>4. CrewReserved'
    BY <2>1 DEF CrewReserved, Untouched, Placed, Crew
  <2> QED
    BY <2>1, <2>3, <2>4
<1> DEFINE Rest == CrewRead' /\ SameSession' /\ CrewReserved'
<1>4. ASSUME NEW c \in Call, UNCHANGED <<tableVars, touched>> PROVE CrewReserved'
  BY <1>4 DEF CrewReserved, Untouched, Placed, Crew
<1>5. ASSUME NEW c \in Call, NEW s \in Session, NEW r \in Room, NEW t \in Slot,
             PlaceStart(c, s, r, t)
      PROVE  Rest
  BY <1>4, <1>5 DEF PlaceStart
<1>6. ASSUME NEW c \in Call, FindExisting(c) PROVE Rest
  BY <1>4, <1>6 DEF FindExisting
<1>7. ASSUME NEW c \in Call, NEW p \in Call, NEW v \in 1..MaxVersion,
             NEW r \in Room, NEW t \in Slot, MoveStart(c, p, v, r, t)
      PROVE  Rest
  BY <1>4, <1>7 DEF MoveStart
<1>8. ASSUME NEW c \in Call, ReadSpeakers(c) PROVE Rest
  BY <1>4, <1>8 DEF ReadSpeakers, LineupFrozen
<1>9. ASSUME NEW c \in Call, CheckRoom(c) PROVE Rest
  BY <1>4, <1>9 DEF CheckRoom
<1>10. ASSUME NEW c \in Call, NEW s \in Speaker, CheckSpeaker(c, s) PROVE Rest
  BY <1>4, <1>10 DEF CheckSpeaker
<1>11. ASSUME NEW c \in Call, ReadBack(c) PROVE Rest
  BY <1>4, <1>11 DEF ReadBack
<1>12. ASSUME NEW c \in Call, Audit(c) PROVE Rest
  BY <1>4, <1>12 DEF Audit
<1>13. ASSUME NEW c \in Call, NEW p \in Call, NEW v \in 1..MaxVersion,
              UnscheduleStart(c, p, v)
       PROVE  Rest
  BY <1>4, <1>13 DEF UnscheduleStart
<1>14. ASSUME NEW c \in Call, Insert(c) \/ Update(c) \/ Delete(c),
              CrewReserved',
              \A p \in Call : placement'[p] # None
                 => \/ ~committed[p]
                    \/ /\ placement[p] # None
                       /\ placement'[p].session = placement[p].session
       PROVE  Rest
  <2>1. /\ pc'[c] \notin Before
        /\ \A d \in Call \ {c} : /\ pc'[d] = pc[d]
                               /\ session'[d] = session[d]
                               /\ crew'[d] = crew[d]
        /\ UNCHANGED <<op, target>>
    BY <1>14, BatchOwner
  <2>3. UNCHANGED decisionVars
    BY <1>1, <1>14 DEF Command
  <2>2. \A d \in Call : op[d] = "move" => target[d] \in Call /\ committed[target[d]]
    BY DEF WinnerInv, TargetPlaced
  <2> QED
    BY <1>14, <2>1, <2>2, <2>3
<1>15. ASSUME NEW c \in Call, Insert(c) PROVE Rest
  <2>3. UNCHANGED decisionVars
    BY <1>1, <1>15 DEF Command
  <2>1. CASE UNCHANGED tableVars
    BY <1>4, <1>14, <1>15, <2>1, <2>3
  <2>2. CASE ~UNCHANGED tableVars
    <3>1. /\ pc[c] = "crew" /\ target[c] = c /\ session[c] \in Session
          /\ placement' = [placement EXCEPT ![c] = BuildRow(c, session[c], 1)]
          /\ Reserve(c)
      BY <1>15, <2>2, InsertEffect
    <3>2. CrewReserved'
      BY <2>3, <3>1, ReservedCrew
    <3>3. ~committed[c]
      BY <1>15, BatchOwner
    <3>4. \A p \in Call \ {c} : placement'[p] = placement[p]
      BY <3>1
    <3> QED
      BY <1>14, <1>15, <3>2, <3>3, <3>4
  <2> QED
    BY <2>1, <2>2
<1>16. ASSUME NEW c \in Call, Update(c) PROVE Rest
  <2>3. UNCHANGED decisionVars
    BY <1>1, <1>16 DEF Command
  <2>1. CASE UNCHANGED tableVars
    BY <1>4, <1>14, <1>16, <2>1, <2>3
  <2>2. CASE ~UNCHANGED tableVars
    <3> PICK p \in Call : p = target[c]
      BY <1>16, BatchOwner
    <3>1. /\ pc[c] = "crew" /\ placement[p] \in Row
          /\ placement' = [placement EXCEPT ![p] =
                 BuildRow(c, placement[p].session, expected[c] + 1)]
          /\ Reserve(c)
      BY <1>16, <2>2, UpdateEffect
    <3>2. placement[p] # None
      BY <3>1 DEF Row
    <3>3. placement[p].session = session[c] /\ op[c] = "move"
      BY <1>16, <3>1, <3>2 DEF Update
    <3>4. session[c] \in Session /\ expected[c] + 1 \in Nat
      BY <3>1
    <3>5. CrewReserved'
      BY <2>3, <3>1, <3>3, <3>4, ReservedCrew
    <3>6. /\ \A q \in Call \ {p} : placement'[q] = placement[q]
          /\ placement'[p].session = placement[p].session
      BY <3>1 DEF BuildRow
    <3>7. \A q \in Call : placement'[q] # None
             => placement[q] # None /\ placement'[q].session = placement[q].session
      BY <3>2, <3>6
    <3> QED
      BY <1>14, <1>16, <3>5, <3>7
  <2> QED
    BY <2>1, <2>2
<1>17. ASSUME NEW c \in Call, Delete(c) PROVE Rest
  <2>3. UNCHANGED decisionVars
    BY <1>1, <1>17 DEF Command
  <2>1. CASE UNCHANGED tableVars
    BY <1>4, <1>14, <1>17, <2>1, <2>3
  <2>2. CASE ~UNCHANGED tableVars
    <3>1. /\ target[c] \in Call
          /\ placement' = [placement EXCEPT ![target[c]] = None]
          /\ speakerRes' = [speakerRes EXCEPT ![target[c]] = {}]
      BY <1>17, <2>2, DeleteEffect
    <3>2. CrewReserved'
      <4>1. \A q \in Call : placement'[q] # None
               => /\ placement'[q] = placement[q]
                  /\ speakerRes'[q] = speakerRes[q]
        BY <3>1
      <4>2. ASSUME NEW q \in Call, placement'[q] # None,
                   placement'[q].session \notin touched
            PROVE  Crew(q)' = Lineup[placement'[q].session]
        BY <4>1, <4>2 DEF CrewReserved, Untouched, Placed, Crew
      <4> QED
        BY <2>3, <4>2 DEF CrewReserved, Untouched, Placed
    <3>3. \A p \in Call : placement'[p] # None => placement'[p] = placement[p]
      BY <3>1
    <3> QED
      BY <1>14, <1>17, <3>2, <3>3
  <2> QED
    BY <2>1, <2>2
<1>18. ASSUME NEW c \in Call, Command(c) PROVE FrozenInv'
  <2>1. LineupFrozen'
    BY <1>1, <1>18 DEF LineupFrozen
  <2>2. Rest
    BY <1>5, <1>6, <1>7, <1>8, <1>9, <1>10, <1>11, <1>12, <1>13, <1>15, <1>16,
       <1>17, <1>18 DEF Command
  <2> QED
    BY <2>1, <2>2
<1> QED
  BY <1>2, <1>3, <1>18 DEF Next

\* No speaker linked to two placed sessions is double-booked as long as
\* nobody has decided on these sessions.
THEOREM SpeakersSafe == Spec => []SpeakerNeverDoubleBooked
<1>1. Shape /\ TableInv /\ FrozenInv => SpeakerNeverDoubleBooked
  <2> SUFFICES ASSUME Shape, TableInv, FrozenInv,
                      NEW p \in Untouched, NEW q \in Untouched, p # q,
                      NEW x \in linked[placement[p].session],
                      x \in linked[placement[q].session]
               PROVE  ~Overlap(placement[p].slot, placement[q].slot)
    BY DEF SpeakerNeverDoubleBooked, Share
  <2>1. x \in Crew(p) /\ x \in Crew(q)
    BY DEF FrozenInv, LineupFrozen, CrewReserved, Untouched, Placed, Shape, TypeOK, Row
  <2>2. PICK a \in speakerRes[p] : a.speaker = x
    BY <2>1 DEF Crew
  <2>3. PICK b \in speakerRes[q] : b.speaker = x
    BY <2>1 DEF Crew
  <2>4. a.slot = placement[p].slot /\ b.slot = placement[q].slot
    BY DEF TableInv, ReservationsMatchPlacement, Untouched, Placed
  <2>5. ~Overlap(a.slot, b.slot)
    BY <2>2, <2>3 DEF TableInv, NoClash, Untouched, Placed
  <2> QED
    BY <2>4, <2>5
<1>2. Shape /\ WinnerInv /\ FrozenInv /\ [Next]_vars => FrozenInv'
  BY FrozenStep
<1>3. Spec => [](Shape /\ TableInv /\ WinnerInv /\ FrozenInv)
  BY <1>2, Inductive, WinnerInit, WinnerStep, FrozenInit, PTL DEF Spec
<1> QED
  BY <1>1, <1>3, PTL
=============================================================================
