------------------------------ MODULE Delivery ------------------------------
(***************************************************************************)
(* What the outbox drain of Comms promises to whoever enqueued a message:  *)
(* outcomes are recorded one recipient at a time and never taken back, and *)
(* an outbox row is retired only when every recipient of its job has one.  *)
(* The module says nothing of drains, leases, crashes or copies; it is the *)
(* abstract specification that CommsOutbox implements.                     *)
(***************************************************************************)
CONSTANTS Row,         \* outbox rows of topic comms.send, one per job
          Recipient,   \* message_recipients rows
          Audience     \* the recipients of each row's job

VARIABLES delivered,   \* recipients with a delivery_events row
          retired      \* outbox rows with processed_at set

vars == <<delivered, retired>>

Init == /\ delivered = {}
        /\ retired = {}

Record(r) == /\ delivered' = delivered \union {r}
             /\ UNCHANGED retired

Retire(o) == /\ Audience[o] \subseteq delivered
             /\ retired' = retired \union {o}
             /\ UNCHANGED delivered

Next == \/ \E r \in Recipient : Record(r)
        \/ \E o \in Row : Retire(o)

Spec == Init /\ [][Next]_vars
=============================================================================
