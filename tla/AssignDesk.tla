----------------------------- MODULE AssignDesk -----------------------------
(***************************************************************************)
(* A round under assignment (modules/eval): administrators assign one by   *)
(* one or by plan, again and again, while evaluators review.  A plan is    *)
(* computed and committed in one step here: whatever comes in between      *)
(* makes the preview stale, which Review has in detail.                    *)
(***************************************************************************)
EXTENDS AssignPlan

CONSTANTS Submission, Evaluator,  \* numbers, in the order of their ids
          Question                \* what may be asked for

ASSUME NumbersAssumption ==
  /\ Submission \subseteq Nat \ {0} /\ IsFiniteSet(Submission)
  /\ Evaluator \subseteq Nat \ {0} /\ IsFiniteSet(Evaluator)
ASSUME QuestionAssumption == Question \subseteq Asked(Submission, Evaluator)

VARIABLE estate   \* status of each pair of the round that is assigned

Pair == Submission \X Evaluator

Init == estate = <<>>

\* The estate after additions and removals
Changed(e, add, remove) ==
  [p \in (DOMAIN e \ remove) \union add |-> IF p \in add THEN "pending" ELSE e[p]]

\* assignEvaluators knows no cap; a pair that is there stays as it is.
Assign(s, vs) == estate' = Changed(estate, ({s} \X vs) \ DOMAIN estate, {})

\* bulkAssignEvaluators
Applied(e, q) == Changed(e, Plan(e, q).add, Plan(e, q).remove)
BulkAssign(q) == estate' = Applied(estate, q)

\* scoreAssignment, abstainAssignment: also once more, either way
Evaluate(p, verdict) ==
  /\ p \in DOMAIN estate
  /\ estate' = [estate EXCEPT ![p] = verdict]

Next ==
  \/ \E s \in Submission : \E vs \in SUBSET Evaluator : Assign(s, vs)
  \/ \E q \in Question : BulkAssign(q)
  \/ \E p \in Pair, verdict \in {"scored", "abstained"} : Evaluate(p, verdict)

Spec == Init /\ [][Next]_estate

-----------------------------------------------------------------------------
\* A plan that has been carried out leaves nothing to do: asking again
\* changes nothing, and reports the same submissions short.
Settles(e, q) == Plan(Applied(e, q), q) = [add |-> {}, short |-> Plan(e, q).short, remove |-> {}]

(* Whatever has been assigned and reviewed, and by whom, every plan        *)
(* respects reviews and caps, misses nothing that could be assigned, is    *)
(* even from nothing, and settles (bulkAssignEvaluators).  A replacement   *)
(* need not respect the cap: it counts pending assignments it keeps only   *)
(* when it comes to their submission.                                      *)
PlanSound ==
  \A q \in Question :
    /\ Proper(estate, q) /\ Thorough(estate, q)
    /\ q.existing = "preserve" => WithinCap(estate, q)
    /\ Even(estate, q) /\ Settles(estate, q)
=============================================================================
