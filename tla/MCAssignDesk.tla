---------------------------- MODULE MCAssignDesk ----------------------------
(* Three submissions and two evaluators, asked for whole or in part. *)
EXTENDS AssignDesk

Ways == {<<"all_to_all", 1>>, <<"round_robin", 1>>, <<"round_robin", 2>>}
Questions ==
  {[mode |-> w[1], reviewers |-> w[2], existing |-> x, cap |-> n,
    eligible |-> ss, evaluators |-> vs] :
     w \in Ways, x \in Existing, n \in 1..3,
     ss \in {1..3, {2, 3}}, vs \in {1..2, {1}}}
=============================================================================
