----------------------------- MODULE AssignPlan -----------------------------
(***************************************************************************)
(* The plan of a bulk assignment (bulkAssignEvaluators of modules/eval), a *)
(* pure function of what it has read.  Submissions and evaluators are      *)
(* positive numbers, as the code goes through both in the order of their   *)
(* ids.                                                                    *)
(*                                                                         *)
(* An estate is a function from the pairs <<submission, evaluator>> of the *)
(* round that have an assignment to its status.  A question q asks for     *)
(*   mode        "all_to_all" or "round_robin"                             *)
(*   existing    "preserve" or "replace"                                   *)
(*   reviewers   reviewersPerSubmission                                    *)
(*   cap         maxPerEvaluator; a question without one is like one whose  *)
(*               cap nobody reaches                                        *)
(*   eligible    the submissions that match and may be reviewed            *)
(*   evaluators  the evaluators selected                                   *)
(***************************************************************************)
EXTENDS Integers, FiniteSetsExt

Mode == {"all_to_all", "round_robin"}
Existing == {"preserve", "replace"}

\* The questions about these submissions and evaluators; there is somebody.
Asked(submissions, evaluators) ==
  [mode : Mode, existing : Existing, reviewers : Nat \ {0}, cap : Nat \ {0},
   eligible : SUBSET submissions, evaluators : (SUBSET evaluators) \ {{}}]

\* The counter of an evaluator before planning: a pending assignment that a
\* replacement may remove is counted when it turns out to be kept.
Slip_CountsNothing(e, q, v) == 0
LoadBefore(e, q, v) ==
  Cardinality({p \in DOMAIN e : /\ p[2] = v
                                /\ q.existing = "preserve" \/ e[p] # "pending"})

Kept(e, q, s) == {v \in q.evaluators : <<s, v>> \in DOMAIN e}

\* Kept pendings of one submission
Recount(e, q, s, load) ==
  [v \in q.evaluators |->
     load[v] + IF v \in Kept(e, q, s) /\ q.existing = "replace"
                  /\ e[<<s, v>>] = "pending" THEN 1 ELSE 0]

Charge(load, vs) == [v \in DOMAIN load |-> load[v] + IF v \in vs THEN 1 ELSE 0]

-----------------------------------------------------------------------------
(* A plan in the making: additions, capacity failures, counters, and the   *)
(* evaluator whose turn it was last (the cursor is behind him).            *)

\* Everybody reviews s who is not at the cap.
AllToAll(e, q, plan, s) ==
  LET load == Recount(e, q, s, plan.load)
      free == {v \in q.evaluators \ Kept(e, q, s) : load[v] < q.cap} IN
  [plan EXCEPT !.add = @ \union ({s} \X free),
               !.short = IF free \union Kept(e, q, s) = q.evaluators THEN @ ELSE @ \union {s},
               !.load = Charge(load, free)]

Slip_FromTheFirst(vs, last) == CHOOSE v \in vs : \A w \in vs : v <= w
InTurn(vs, last) ==
  LET later == {v \in vs : v > last} IN
  CHOOSE v \in (IF later = {} THEN vs ELSE later) :
    \A w \in (IF later = {} THEN vs ELSE later) : v <= w

\* One more reviewer for s, if he is wanted and there is one.
PickOne(q, plan, s) ==
  LET able == {v \in q.evaluators \ plan.chosen : plan.load[v] < q.cap} IN
  IF Cardinality(plan.chosen) >= q.reviewers \/ able = {} THEN plan
  ELSE LET v == InTurn(able, plan.last) IN
       [plan EXCEPT !.add = @ \union {<<s, v>>},
                    !.chosen = @ \union {v},
                    !.load = Charge(@, {v}),
                    !.last = v]

\* The loop goes round at most as often as there are reviewers to find.
RoundRobin(e, q, plan, s) ==
  LET round[n \in Nat] ==
        IF n = 0 THEN [plan EXCEPT !.load = Recount(e, q, s, @), !.chosen = Kept(e, q, s)]
                 ELSE PickOne(q, round[n - 1], s)
      end == round[q.reviewers] IN
  [end EXCEPT !.short = IF Cardinality(end.chosen) < q.reviewers
                        THEN @ \union {s} ELSE @]

Visit(e, q, plan, s) == IF q.mode = "all_to_all" THEN AllToAll(e, q, plan, s)
                                                  ELSE RoundRobin(e, q, plan, s)

\* One submission after the other, in the order of their numbers
Planned(e, q) ==
  LET visited[n \in Nat] ==
        IF n = 0 THEN [add |-> {}, short |-> {}, chosen |-> {}, last |-> 0,
                       load |-> [v \in q.evaluators |-> LoadBefore(e, q, v)]]
        ELSE IF n \in q.eligible THEN Visit(e, q, visited[n - 1], n) ELSE visited[n - 1] IN
  visited[Max(q.eligible \union {0})]

\* A replacement removes every pending assignment of the round that the plan
\* does not make again, also those the question does not match.
Slip_RemovesReviewed(e, q) ==
  IF q.existing = "preserve" THEN {}
  ELSE {p \in DOMAIN e : p \notin q.eligible \X q.evaluators}
Removed(e, q) ==
  IF q.existing = "preserve" THEN {}
  ELSE {p \in DOMAIN e : e[p] = "pending" /\ p \notin q.eligible \X q.evaluators}

Plan(e, q) == LET p == Planned(e, q) IN
  [add |-> p.add, short |-> p.short, remove |-> Removed(e, q)]

-----------------------------------------------------------------------------
(* What a plan must be, said without the order it is made in *)

After(e, q) == (DOMAIN e \ Plan(e, q).remove) \union Plan(e, q).add
LoadOf(ps, v) == Cardinality({p \in ps : p[2] = v})
ReviewersOf(ps, s) == {p[2] : p \in {x \in ps : x[1] = s}}

\* No reviewed assignment is touched, nothing is added twice or outside the
\* question.
Proper(e, q) ==
  LET p == Plan(e, q) IN
  /\ p.add \subseteq (q.eligible \X q.evaluators) \ DOMAIN e
  /\ p.remove \subseteq {x \in DOMAIN e : e[x] = "pending"}

\* An evaluator gets something to review only up to the cap.
WithinCap(e, q) ==
  \A v \in q.evaluators : LoadOf(Plan(e, q).add, v) > 0 => LoadOf(After(e, q), v) <= q.cap

\* A submission is reported short exactly if it is, and then everybody who
\* could review it has as much as he may have.
Thorough(e, q) ==
  LET p == Plan(e, q)
      want == IF q.mode = "all_to_all" THEN Cardinality(q.evaluators) ELSE q.reviewers
      got(s) == Cardinality(ReviewersOf(DOMAIN e \union p.add, s) \intersect q.evaluators) IN
  /\ p.short = {s \in q.eligible : got(s) < want}
  /\ \A s \in p.short : \A v \in q.evaluators \ ReviewersOf(After(e, q), s) :
       LoadOf(After(e, q), v) >= q.cap
  /\ q.mode = "round_robin" =>
       \A s \in q.eligible : ReviewersOf(p.add, s) # {} => got(s) <= want

\* From nothing, the work is spread evenly.
Even(e, q) ==
  DOMAIN e = {} =>
    \A v, w \in q.evaluators :
      LoadOf(Plan(e, q).add, v) <= LoadOf(Plan(e, q).add, w) + 1
=============================================================================
