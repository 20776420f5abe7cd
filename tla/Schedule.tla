------------------------------ MODULE Schedule ------------------------------
(***************************************************************************)
(* Placing, moving and unscheduling sessions (modules/schedule): commands  *)
(* that read, check and then write one D1 batch, any number of them at     *)
(* once.  The checks before the batch are advice, stale by the time it     *)
(* runs; the batch repeats them as NOT EXISTS conditions and aborts as a   *)
(* whole when a reservation is missing.                                    *)
(*                                                                         *)
(* The speakers of a session come from another module: Decision.Record     *)
(* confirms a session and links its speakers one statement at a time, or   *)
(* unlinks them and cancels it, and neither looks at the schedule.         *)
(*                                                                         *)
(* A call of place is identified with the fresh id of its placement.       *)
(***************************************************************************)
EXTENDS Integers, FiniteSets

CONSTANTS Call,          \* requests; a place request names its placement
          Session, Room, Speaker,
          Slot,          \* records [from, to] of instants
          OpenSlot,      \* slots inside the event's agenda window
          Lineup,        \* the speakers a decision links to each session
          None,
          MaxDecisions,  \* bound: decisions recorded
          MaxVersion     \* bound: versions a client may name

ASSUME SlotAssumption == /\ Slot \subseteq [from : Int, to : Int]
                         /\ \A t \in Slot : t.from < t.to
                         /\ OpenSlot \subseteq Slot
ASSUME LineupAssumption == Lineup \in [Session -> SUBSET Speaker]
ASSUME NoneAssumption ==
  /\ None \notin {"place", "move", "unschedule", "link", "unlink"}
  /\ None \notin Call \union Session \union Room
  /\ None \notin Slot
  /\ None \notin [session : Session, room : Room, slot : Slot, version : Nat]
  /\ None \notin [session : Session, room : Room, slot : Slot, version : Nat,
                  crew : SUBSET Speaker]
ASSUME MaxAssumption == MaxDecisions \in Nat /\ MaxVersion \in Nat

VARIABLES
  \* schedule_placements, room_ and speaker_block_reservations
  placement,     \* the row of each placement, or None
  roomRes,       \* room reservations held by each placement
  speakerRes,    \* speaker reservations held by each placement
  \* program_sessions and session_speakers
  status,
  linked,
  decided,       \* decisions recorded so far
  touched,       \* sessions they were recorded on
  deciding,      \* what the decision under way does: None, "link", "unlink"
  \* one command
  pc, op,
  target,        \* its placement
  expected,      \* expectedVersion of the request
  session, room, slot,
  crew,          \* speakers read
  ahead,         \* speakers still to be checked
  committed,     \* whether its batch changed the tables
  audited,       \* audit_events: the calls that have written their row
  answer         \* "ok", "refused" with 4xx, "error" with 500

tableVars    == <<placement, roomRes, speakerRes>>
decisionVars == <<status, linked, decided, touched, deciding>>
requestVars  == <<op, target, expected>>
localVars    == <<session, room, slot, crew, ahead, answer>>
doneVars     == <<committed, audited>>
callVars     == <<pc, requestVars, localVars, doneVars>>
vars         == <<tableVars, decisionVars, callVars>>

Row == [session : Session, room : Room, slot : Slot, version : Nat]

-----------------------------------------------------------------------------
(* Queries.  An operator named Slip_... is not used by the specification: it *)
(* is a plausible mistake in the one after it.                               *)

\* intervalsOverlap: half-open, so one block may start when another ends
Slip_OverlapStartsInside(a, b) == a.from <= b.from /\ b.from < a.to
Overlap(a, b) == a.from < b.to /\ a.to > b.from

Placed == {p \in Call : placement[p] # None}

\* another placement's reservation of the room overlaps
RoomTaken(r, t, self) ==
  \E p \in Call \ {self} : \E res \in roomRes[p] :
     res.room = r /\ Overlap(t, res.slot)

\* forgets to leave out the placement being moved, and asks for nothing else
Slip_SpeakerTakenBySelf(s, t, self) ==
  \E res \in speakerRes[self] : res.speaker = s /\ Overlap(t, res.slot)
SpeakerTaken(s, t, self) ==
  \E p \in Call \ {self} : \E res \in speakerRes[p] :
     res.speaker = s /\ Overlap(t, res.slot)

\* WHERE id = ... AND version = expectedVersion
Slip_CasById(c) == placement[target[c]] # None
CasHolds(c) == /\ placement[target[c]] # None
               /\ placement[target[c]].version = expected[c]

\* The gate of the deletes and inserts of a move.  Without the stamp of the
\* transition, version = nextVersion also lets through a call that lost to a
\* move to the same version.
Slip_GateByVersion(c) ==
  placement[target[c]] # None
  /\ placement[target[c]].version \in {expected[c], expected[c] + 1}
Gate(c) == CasHolds(c)

-----------------------------------------------------------------------------
Init ==
  /\ placement  = [p \in Call |-> None]
  /\ roomRes    = [p \in Call |-> {}]
  /\ speakerRes = [p \in Call |-> {}]
  /\ status     = [s \in Session |-> "confirmed"]
  /\ linked     = Lineup
  /\ decided    = 0
  /\ touched    = {}
  /\ deciding   = [s \in Session |-> None]
  /\ pc         = [c \in Call |-> "start"]
  /\ op         = [c \in Call |-> None]
  /\ target     = [c \in Call |-> None]
  /\ expected   = [c \in Call |-> 0]
  /\ session    = [c \in Call |-> None]
  /\ room       = [c \in Call |-> None]
  /\ slot       = [c \in Call |-> None]
  /\ crew       = [c \in Call |-> {}]
  /\ ahead      = [c \in Call |-> {}]
  /\ committed  = [c \in Call |-> FALSE]
  /\ audited    = {}
  /\ answer     = [c \in Call |-> None]

Goto(c, l) == pc' = [pc EXCEPT ![c] = l]

\* Locals that are not used any more.
Forget(c) ==
  /\ session' = [session EXCEPT ![c] = None]
  /\ room' = [room EXCEPT ![c] = None]
  /\ slot' = [slot EXCEPT ![c] = None]
  /\ crew' = [crew EXCEPT ![c] = {}]
  /\ ahead' = [ahead EXCEPT ![c] = {}]

Reply(c, a) ==
  /\ Goto(c, "done")
  /\ answer' = [answer EXCEPT ![c] = a]
  /\ Forget(c)

Request(c, o, p, v, s, r, t) ==
  /\ op' = [op EXCEPT ![c] = o]
  /\ target' = [target EXCEPT ![c] = p]
  /\ expected' = [expected EXCEPT ![c] = v]
  /\ session' = [session EXCEPT ![c] = s]
  /\ room' = [room EXCEPT ![c] = r]
  /\ slot' = [slot EXCEPT ![c] = t]

-----------------------------------------------------------------------------
(* Schedule.Place *)

\* The session is read, then the room and the agenda window, which do not
\* change.  A refusal here leaves no trace and is left out.
PlaceStart(c, s, r, t) ==
  /\ pc[c] = "start"
  /\ status[s] = "confirmed"
  /\ t \in OpenSlot
  /\ Request(c, "place", c, 0, s, r, t)
  /\ Goto(c, "existing")
  /\ UNCHANGED <<tableVars, decisionVars, crew, ahead, doneVars, answer>>

FindExisting(c) ==
  /\ pc[c] = "existing"
  /\ IF \E p \in Placed : placement[p].session = session[c]
     THEN Reply(c, "refused")
     ELSE /\ Goto(c, "speakers")
          /\ UNCHANGED localVars
  /\ UNCHANGED <<tableVars, decisionVars, requestVars, doneVars>>

-----------------------------------------------------------------------------
(* Schedule.Move *)

MoveStart(c, p, v, r, t) ==
  /\ pc[c] = "start"
  /\ placement[p] # None /\ placement[p].version = v
  /\ t \in OpenSlot
  /\ Request(c, "move", p, v, placement[p].session, r, t)
  /\ Goto(c, "speakers")
  /\ UNCHANGED <<tableVars, decisionVars, crew, ahead, doneVars, answer>>

-----------------------------------------------------------------------------
(* Reads and advisory checks shared by place and move *)

\* listSessionSpeakers: whatever is linked at this moment
ReadSpeakers(c) ==
  /\ pc[c] = "speakers"
  /\ crew' = [crew EXCEPT ![c] = linked[session[c]]]
  /\ ahead' = [ahead EXCEPT ![c] = linked[session[c]]]
  /\ Goto(c, "room")
  /\ UNCHANGED <<tableVars, decisionVars, requestVars, doneVars, session, room,
                 slot, answer>>

\* detectConflicts, room query; any conflict ends in 409
CheckRoom(c) ==
  /\ pc[c] = "room"
  /\ IF RoomTaken(room[c], slot[c], target[c])
     THEN Reply(c, "refused")
     ELSE /\ Goto(c, "crew")
          /\ UNCHANGED localVars
  /\ UNCHANGED <<tableVars, decisionVars, requestVars, doneVars>>

\* detectConflicts, one query per speaker
CheckSpeaker(c, s) ==
  /\ pc[c] = "crew"
  /\ s \in ahead[c]
  /\ IF SpeakerTaken(s, slot[c], target[c])
     THEN Reply(c, "refused")
     ELSE /\ ahead' = [ahead EXCEPT ![c] = @ \ {s}]
          /\ UNCHANGED <<pc, session, room, slot, crew, answer>>
  /\ UNCHANGED <<tableVars, decisionVars, requestVars, doneVars>>

\* trusts the checks made before the batch
Slip_TrustAdvice(c) == TRUE

\* Every insert of the batch finds its NOT EXISTS true, so the integrity
\* guard counts one room reservation and one per speaker.
BatchFits(c) ==
  /\ ~RoomTaken(room[c], slot[c], target[c])
  /\ \A s \in crew[c] : ~SpeakerTaken(s, slot[c], target[c])

\* buildBundle: the row and the reservations that go with it
BuildRow(c, s, v) ==
  [session |-> s, room |-> room[c], slot |-> slot[c], version |-> v]

Reserve(c) ==
  /\ roomRes' = [roomRes EXCEPT ![target[c]] =
                   {[room |-> room[c], slot |-> slot[c]]}]
  /\ speakerRes' = [speakerRes EXCEPT ![target[c]] =
                      {[speaker |-> s, slot |-> slot[c]] : s \in crew[c]}]

\* What the batch reports decides what the command does next; after a batch
\* without effect it only reads again, to word its 409.
After(c, changed, next) ==
  /\ committed' = [committed EXCEPT ![c] = changed]
  /\ IF changed THEN Goto(c, next) /\ Forget(c) /\ UNCHANGED answer
                ELSE Reply(c, "refused")
  /\ UNCHANGED <<decisionVars, requestVars, audited>>

\* insertPlacementBundle: unique session, no overlap, or nothing at all
Insert(c) ==
  LET fits == (\A p \in Placed : placement[p].session # session[c])
              /\ BatchFits(c)
  IN /\ pc[c] = "crew" /\ ahead[c] = {} /\ op[c] = "place"
     /\ IF fits
        THEN /\ placement' = [placement EXCEPT ![c] =
                                BuildRow(c, session[c], 1)]
             /\ Reserve(c)
        ELSE UNCHANGED tableVars
     /\ After(c, fits, "readback")

\* updatePlacementBundle: the row changes only if the version still holds,
\* the reservations only behind the gate; an overlap rolls all of it back.
Update(c) ==
  LET p == target[c] IN
  /\ pc[c] = "crew" /\ ahead[c] = {} /\ op[c] = "move"
  /\ IF Gate(c) /\ BatchFits(c)
     THEN /\ placement' = IF CasHolds(c)
                          THEN [placement EXCEPT ![p] =
                                 BuildRow(c, @.session, expected[c] + 1)]
                          ELSE placement
          /\ Reserve(c)
     ELSE UNCHANGED tableVars
  /\ After(c, CasHolds(c) /\ BatchFits(c), "readback")

\* The row is read again after the batch.  By then somebody may have
\* unscheduled it: place fails on the missing row, move takes it for a lost
\* race and answers 409 VERSION.
ReadBack(c) ==
  /\ pc[c] = "readback"
  /\ IF placement[target[c]] # None
     THEN Goto(c, "audit") /\ UNCHANGED localVars
     ELSE Reply(c, IF op[c] = "place" THEN "error" ELSE "refused")
  /\ UNCHANGED <<tableVars, decisionVars, requestVars, doneVars>>

\* A request that dies before this step takes no further step.
Audit(c) ==
  /\ pc[c] = "audit"
  /\ audited' = audited \union {c}
  /\ Reply(c, "ok")
  /\ UNCHANGED <<tableVars, decisionVars, requestVars, committed>>

-----------------------------------------------------------------------------
(* Schedule.Unschedule *)

UnscheduleStart(c, p, v) ==
  /\ pc[c] = "start"
  /\ placement[p] # None /\ placement[p].version = v
  /\ Request(c, "unschedule", p, v, None, None, None)
  /\ Goto(c, "delete")
  /\ UNCHANGED <<tableVars, decisionVars, crew, ahead, doneVars, answer>>

\* deletePlacementBundle: three deletes behind the same version
Delete(c) ==
  LET p == target[c] IN
  /\ pc[c] = "delete"
  /\ IF CasHolds(c)
     THEN /\ placement' = [placement EXCEPT ![p] = None]
          /\ roomRes' = [roomRes EXCEPT ![p] = {}]
          /\ speakerRes' = [speakerRes EXCEPT ![p] = {}]
     ELSE UNCHANGED tableVars
  /\ After(c, CasHolds(c), "audit")

-----------------------------------------------------------------------------
(* Decision.Record, as far as it touches sessions: materializeAccept and     *)
(* dematerializeAccept.  One decision on a session at a time.                *)

Decide(s, what) ==
  /\ deciding[s] = None
  /\ decided < MaxDecisions
  /\ decided' = decided + 1
  /\ touched' = touched \union {s}
  /\ deciding' = [deciding EXCEPT ![s] = what]

Reactivate(s) ==
  /\ status[s] = "cancelled"
  /\ Decide(s, IF Lineup[s] = {} THEN None ELSE "link")
  /\ status' = [status EXCEPT ![s] = "confirmed"]
  /\ UNCHANGED <<tableVars, callVars, linked>>

LinkSpeaker(s, p) ==
  /\ deciding[s] = "link"
  /\ p \in Lineup[s] \ linked[s]
  /\ linked' = [linked EXCEPT ![s] = @ \union {p}]
  /\ deciding' = [deciding EXCEPT ![s] =
                    IF Lineup[s] \ linked[s] = {p} THEN None ELSE "link"]
  /\ UNCHANGED <<tableVars, callVars, status, decided, touched>>

UnlinkSpeakers(s) ==
  /\ status[s] = "confirmed"
  /\ Decide(s, "unlink")
  /\ linked' = [linked EXCEPT ![s] = {}]
  /\ UNCHANGED <<tableVars, callVars, status>>

CancelSession(s) ==
  /\ deciding[s] = "unlink"
  /\ status' = [status EXCEPT ![s] = "cancelled"]
  /\ deciding' = [deciding EXCEPT ![s] = None]
  /\ UNCHANGED <<tableVars, callVars, linked, decided, touched>>

-----------------------------------------------------------------------------
Command(c) ==
  \/ \E s \in Session, r \in Room, t \in Slot : PlaceStart(c, s, r, t)
  \/ FindExisting(c)
  \/ \E p \in Call, v \in 1..MaxVersion, r \in Room, t \in Slot :
        MoveStart(c, p, v, r, t)
  \/ ReadSpeakers(c)
  \/ CheckRoom(c)
  \/ \E s \in Speaker : CheckSpeaker(c, s)
  \/ Insert(c)
  \/ Update(c)
  \/ ReadBack(c)
  \/ Audit(c)
  \/ \E p \in Call, v \in 1..MaxVersion : UnscheduleStart(c, p, v)
  \/ Delete(c)

Decision(s) ==
  \/ Reactivate(s)
  \/ \E p \in Speaker : LinkSpeaker(s, p)
  \/ UnlinkSpeakers(s)
  \/ CancelSession(s)

Next == \/ \E c \in Call : Command(c)
        \/ \E s \in Session : Decision(s)

Spec == Init /\ [][Next]_vars

-----------------------------------------------------------------------------
(* What must hold *)

RoomRes    == [room : Room, slot : Slot]
SpeakerRes == [speaker : Speaker, slot : Slot]

TypeOK ==
  /\ placement \in [Call -> Row \union {None}]
  /\ roomRes \in [Call -> SUBSET RoomRes]
  /\ speakerRes \in [Call -> SUBSET SpeakerRes]
  /\ status \in [Session -> {"confirmed", "cancelled"}]
  /\ linked \in [Session -> SUBSET Speaker]
  /\ decided \in 0..MaxDecisions
  /\ touched \subseteq Session
  /\ deciding \in [Session -> {None, "link", "unlink"}]
  /\ pc \in [Call -> {"start", "existing", "speakers", "room", "crew",
                      "readback", "audit", "delete", "done"}]
  /\ op \in [Call -> {None, "place", "move", "unschedule"}]
  /\ target \in [Call -> Call \union {None}]
  /\ expected \in [Call -> Nat]
  /\ session \in [Call -> Session \union {None}]
  /\ room \in [Call -> Room \union {None}]
  /\ slot \in [Call -> Slot \union {None}]
  /\ crew \in [Call -> SUBSET Speaker]
  /\ ahead \in [Call -> SUBSET Speaker]
  /\ committed \in [Call -> BOOLEAN]
  /\ audited \subseteq Call
  /\ answer \in [Call -> {None, "ok", "refused", "error"}]

Crew(p) == {res.speaker : res \in speakerRes[p]}

\* A placement and its reservations are written by different statements of a
\* batch, some of them skipped when the version is lost: the tables still
\* agree, one room and the crew for a placed session, nothing otherwise.
ReservationsMatchPlacement ==
  \A p \in Call :
     IF placement[p] = None
     THEN roomRes[p] = {} /\ speakerRes[p] = {}
     ELSE /\ roomRes[p] = {[room |-> placement[p].room,
                            slot |-> placement[p].slot]}
          /\ \A res \in speakerRes[p] : res.slot = placement[p].slot

\* No interleaving of commands puts two sessions into one room at a time.
RoomNeverDoubleBooked ==
  \A p, q \in Placed :
     p # q /\ placement[p].room = placement[q].room
       => ~Overlap(placement[p].slot, placement[q].slot)

\* The same of the speakers linked to the sessions, as long as nobody has
\* decided on these: a request checks and reserves the speakers it has read
\* several statements earlier.
Untouched == {p \in Placed : placement[p].session \notin touched}
Share(p, q) ==
  linked[placement[p].session] \intersect linked[placement[q].session] # {}

SpeakerNeverDoubleBooked ==
  \A p, q \in Untouched :
     p # q /\ Share(p, q) => ~Overlap(placement[p].slot, placement[q].slot)

\* "Silent double book" is a failure mode of docs/sections/6.1-schedule-
\* conflicts.md that detection and reservations are to prevent, decisions or
\* not.
NoSilentDoubleBook ==
  \A p, q \in Placed :
     p # q /\ Share(p, q) => ~Overlap(placement[p].slot, placement[q].slot)

\* Of the requests that name one version of a placement, at most one changes
\* it: the others lose, wherever they were when it did.
OneWinnerPerVersion ==
  \A c, d \in Call :
     (/\ committed[c] /\ committed[d]
      /\ target[c] = target[d] /\ expected[c] = expected[d])
     => c = d

\* The tables, reservations included, change as Calendar says: one booking
\* by one version, never into a clash of rooms or of reserved speakers.
Booked(p) == [session |-> placement[p].session, room |-> placement[p].room,
              slot |-> placement[p].slot, version |-> placement[p].version,
              crew |-> Crew(p)]
Promise == INSTANCE Calendar
             WITH Placement <- Call, Free <- None,
                  bookings <- [p \in Call |-> IF placement[p] = None
                                             THEN None ELSE Booked(p)]
CalendarKept == Promise!Spec
=============================================================================
