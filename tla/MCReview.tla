------------------------------ MODULE MCReview ------------------------------
(* Small instances of Review. *)
EXTENDS Review, TLC

CONSTANTS c1, c2, c3, k1, k2

Ask(m, x, v) == [mode |-> m, existing |-> x, reviewers |-> 1, cap |-> 1,
                 eligible |-> Submission, evaluators |-> v]
Questions == {Ask("all_to_all", "preserve", Person),
              Ask("round_robin", "preserve", {2}), Ask("round_robin", "replace", {1})}

\* Two requests from one list and one from another
Mix(two, one) == [c \in Call |-> IF c = c3 THEN one ELSE two]

Mixes == {Mix({"signin", "invite", "provision"}, {"redeem"}),
          Mix({"redeem"}, {"signin"}),
          Mix({"score", "abstain"}, {"bulk", "rubric"}),
          Mix({"role", "invite", "provision", "assign", "bulk", "rubric"}, {})}

Alike == Permutations({c1, c2})

Setup(r1, r2, list, st) ==
  /\ role = (1 :> r1) @@ (2 :> r2)
  /\ users = {u \in Person : role[u] # None}
  /\ allowlist = list
  /\ \A p \in Slot : IF row[p] = None THEN p[2] = 1 \/ st = None
                                      ELSE p[2] = 2 /\ row[p].status = st

Start ==
  /\ rubric = {k1}
  /\ \/ Setup(None, None, {}, None)
     \/ Setup(None, None, {1}, None)
     \/ Setup("admin", None, {1}, None)
     \/ Setup("admin", "evaluator", {}, "pending")
     \/ Setup("admin", "evaluator", {}, "scored")
     \/ Setup("admin", "admin", {}, "pending")

SmallInit == Init /\ Start
SmallSpec == SmallInit /\ [][Next]_vars
=============================================================================
