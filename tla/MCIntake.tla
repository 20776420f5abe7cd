------------------------------ MODULE MCIntake ------------------------------
(* Small instances of Intake. *)
EXTENDS Intake, TLC

CONSTANTS c1, c2, c3, u1, ea, eb, e0, e1, e2, s1, s2, s3, f, g, p1, p2, k1, k2, q

OneEmail == [c \in Call |-> ea]
ByA == [x \in Unguarded |-> ea]
\* The second visitor brings somebody along.
Casts == [c \in Call |-> IF c = c2 THEN {ea, eb} ELSE {ea}]

Visitors(C) == desk = [c \in Call |-> IF c \in C THEN "visit" ELSE "never"]
Senders(S) == phase = [s \in Sender |-> IF s \in S THEN "begin" ELSE "never"]
Less == {[fields |-> {f}, rules |-> {f}]}
NoneBefore == \A x \in Unguarded : status[x] = None
Known == people = Email
Confirm(on) == notify = [c \in Call |-> on]

\* Version e0, if it is there, asks f and routes by it; the draft asks g as
\* well and routes by that.
Editors(a, b, c) ==
  /\ order  = (e0 :> a @@ e1 :> b @@ e2 :> c)
  /\ draft  = [fields |-> {f, g}, rules |-> {g}]
  /\ asked  = [e \in Editor |-> IF order[e] = "past" THEN {f} ELSE {}]
  /\ routed = asked

\* Who comes: three visitors of a form that stays as it is, to an event that has
\* its confirmations switched off, ...
Crowd == /\ Visitors({c1, c2, c3}) /\ Senders({})
         /\ Editors("past", "none", "none")
         /\ template = TRUE
         /\ IntakeInit /\ NoneBefore /\ Known /\ Confirm(FALSE)

\* ... or two who are new unless they were here before the cap, and no template
\* yet, ...
Late == /\ Visitors({c1, c2}) /\ Senders({})
        /\ Editors("past", "none", "none")
        /\ template = FALSE
        /\ IntakeInit /\ Confirm(TRUE)
        /\ people = IF NoneBefore THEN {} ELSE {ea}

\* ... or a visitor and two editors, before or after the first publication, ...
Editing == /\ Visitors({c1}) /\ Senders({})
           /\ \E a \in {"past", "none"}, b \in {"publish", "update"} : Editors(a, "publish", b)
           /\ template = TRUE
           /\ IntakeInit /\ NoneBefore /\ Known /\ Confirm(TRUE)

\* ... or mailings and invites alone.
Mailing == /\ Visitors({}) /\ Senders(Sender)
           /\ Editors("past", "none", "none")
           /\ template = TRUE
           /\ IntakeInit /\ NoneBefore /\ Known /\ Confirm(TRUE)

MCInit == Crowd \/ Late \/ Editing \/ Mailing
MCLive == MCInit /\ [][IntakeNext]_intakeVars /\ \A c \in Call : WF_intakeVars(Handle(c))
=============================================================================
