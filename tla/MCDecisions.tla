---------------------------- MODULE MCDecisions ----------------------------
(* Small instances of Decisions for TLC. *)
EXTENDS Decisions, TLC

CONSTANTS c1, c2, c3, c4,  \* requests
          s1, s2,          \* submissions
          pa,              \* a speaker
          r1, r2,          \* reasons
          t1               \* a task template

\* every submission is by the same speaker
OneSpeaker == [s \in Submission |-> {pa}]

CallSymmetry == Permutations(Call)
=============================================================================
