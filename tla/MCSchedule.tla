----------------------------- MODULE MCSchedule -----------------------------
(* Small instances of Schedule for TLC. *)
EXTENDS Schedule, TLC

CONSTANTS c1, c2, c3,   \* requests
          s1, s2,       \* sessions
          ra, rb,       \* rooms
          pa            \* a speaker

At(a, b) == [from |-> a, to |-> b]

\* two slots that overlap
TwoSlots == {At(0, 2), At(1, 3)}

\* the sessions share their speaker
OneShared == (s1 :> {pa} @@ s2 :> {pa})

\* Rooms are interchangeable, and so are requests.
Symmetry == Permutations({ra, rb}) \union Permutations(Call)
=============================================================================
