------------------------------ MODULE Calendar ------------------------------
(***************************************************************************)
(* What the schedule promises: a table of bookings in which no room and no *)
(* booked speaker is in two places at once, changed one booking at a time. *)
(* A change of a booking raises its version by one.  The abstract          *)
(* specification that Schedule implements; its next-state relation         *)
(* constrains the new table rather than computing it.                      *)
(***************************************************************************)
EXTENDS Integers

CONSTANTS Placement, Session, Room, Speaker, Slot, Free

VARIABLE bookings    \* the booking of each placement, or Free

Overlap(a, b) == a.from < b.to /\ a.to > b.from

Booking == [session : Session, room : Room, slot : Slot, version : Nat,
            crew : SUBSET Speaker]

Table == [Placement -> Booking \union {Free}]

Placed == {p \in Placement : bookings[p] # Free}

\* a and b cannot both stand
Clash(a, b) == /\ Overlap(a.slot, b.slot)
               /\ a.room = b.room \/ a.crew \intersect b.crew # {}

Init == bookings = [p \in Placement |-> Free]

\* only p changes, and what p becomes clashes with nothing else
Change(p) == /\ bookings' \in Table
             /\ \A q \in Placement \ {p} : bookings'[q] = bookings[q]
             /\ bookings'[p] # Free =>
                  \A q \in Placed \ {p} : ~Clash(bookings'[p], bookings[q])

Book(p) == /\ bookings[p] = Free
           /\ bookings'[p] # Free
           /\ bookings'[p].version = 1
           /\ \A q \in Placed : bookings[q].session # bookings'[p].session
           /\ Change(p)

Rebook(p) == /\ bookings[p] # Free
             /\ bookings'[p] # Free
             /\ bookings'[p].session = bookings[p].session
             /\ bookings'[p].version = bookings[p].version + 1
             /\ Change(p)

Cancel(p) == /\ bookings[p] # Free
             /\ bookings'[p] = Free
             /\ Change(p)

Next == \E p \in Placement : Book(p) \/ Rebook(p) \/ Cancel(p)

Spec == Init /\ [][Next]_bookings
=============================================================================
