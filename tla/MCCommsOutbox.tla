--------------------------- MODULE MCCommsOutbox ---------------------------
(* Small instances of CommsOutbox for TLC. *)
EXTENDS CommsOutbox, TLC

CONSTANTS d1, d2,      \* drains
          o1, o2, o3,  \* outbox rows
          r1, r2       \* recipients

\* one job with two recipients, and a row that names no job
OneJob == (o1 :> {r1, r2} @@ o3 :> {})

\* a job with a recipient and one without any
EmptyJob == (o1 :> {r1} @@ o2 :> {})

Drains     == {d1, d2}
Recipients == {r1, r2}

\* Drains are interchangeable, and so are the recipients of the one job.
Symmetry == Permutations(Drains) \union Permutations(Recipients)
=============================================================================
