------------------------------- MODULE Review -------------------------------
(***************************************************************************)
(* The review of submissions (modules/eval over eval_rounds, eval_criteria,*)
(* eval_assignments, scores and idempotency_keys), in one round of one     *)
(* event, together with the requests of Accounts: who may be assigned and  *)
(* who may score depends on roles, and a role may only be taken away while *)
(* nothing is assigned.                                                    *)
(*                                                                         *)
(* An assignment is one row per submission and evaluator (unique index);   *)
(* its id is the request that inserted it, so that a row removed and made  *)
(* again is another row.  Scores hang on the id of the row.                *)
(***************************************************************************)
EXTENDS Accounts, AssignPlan

CONSTANTS Submission, Criterion,
          Question   \* what a bulk assignment may ask for

Row == [by : Call \union {None}, status : {"pending", "scored", "abstained"}, at : Nat]

\* A plan takes submissions and evaluators in the order of their ids, so they
\* are numbers.
ASSUME NumbersAssumption ==
  /\ Submission \subseteq Nat \ {0} /\ IsFiniteSet(Submission)
  /\ Person \subseteq Nat \ {0} /\ IsFiniteSet(Person)
ASSUME QuestionAssumption == Question \subseteq Asked(Submission, Person)
ASSUME RowAssumption == None \notin Row

VARIABLES
  round,     \* eval_rounds: closed, and version for updated_at
  rubric,    \* eval_criteria of the round
  row,       \* eval_assignments: [by, status, at], or None
  scores,    \* <<submission, evaluator, by, criterion>>
  keys,      \* eval.bulk-assign:<previewId>: <<the estate hashed, by>>
  held,      \* what a request carries from one call to the next
  writers    \* history: requests that have written to a row or its scores, since
             \* one that had the row to itself last cleared it

reviewTables == <<round, rubric, row, scores, keys>>
vars == <<users, role, link, sessions, mailed, req, pc, purpose, seen, fresh, answer,
          allowlist, met, deaths, demoter, overwritten,
          round, rubric, row, scores, keys, held, writers>>

Slot == Submission \X Person

\* What a review request leaves alone of the accounts, and the other way round
AccountsRest == UNCHANGED <<tables, locals, req, others>>
Carry(c, h) == held' = [held EXCEPT ![c] = h]

StatusOf(rs) == [p \in {x \in Slot : rs[x] # None} |-> rs[p].status]

ScoresOf(p, by) == {s \in scores : s[1] = p[1] /\ s[2] = p[2] /\ s[3] = by}

BeginReview(c, r, first, h) ==
  /\ Begin(c, r, first)
  /\ Carry(c, h)
  /\ UNCHANGED <<reviewTables, writers>>

\* requireRole: an administrator
BeginAsAdmin(c, r, first, h) == AdminExists /\ BeginReview(c, r, first, h)

-----------------------------------------------------------------------------
(* upsertRubric: the criteria kept are named by their ids, new ones get      *)
(* theirs; the round's deadline is set with them.  They are sent as a list,  *)
(* which fits if it names each of them once, none of another round, and is   *)
(* short enough for one INSERT of D1 (100 parameters, 6 to a criterion).     *)

Unheard == Criterion \ (rubric \union UNION {req[c].keep : c \in
              {d \in Call : pc[d] # "idle" /\ req[d].op = "rubric"}})

UpsertRubric(c) ==
  /\ Listed(c, "rubric")
  /\ \E old \in SUBSET rubric, new \in SUBSET Unheard, closes, fits \in BOOLEAN :
       /\ old \union new # {}
       /\ BeginAsAdmin(c, [op |-> "rubric", keep |-> old \union new, named |-> old,
                           closed |-> closes, fits |-> fits], "round", None)

UpdateRound(c) ==
  /\ pc[c] = "round"
  /\ round' = [closed |-> req[c].closed, version |-> round.version + 1]
  /\ Goto(c, "criteria")
  /\ UNCHANGED <<rubric, row, scores, keys, held, writers, answer>> /\ AccountsRest

ReadCriteria(c) ==
  /\ pc[c] = "criteria"
  /\ Carry(c, rubric)
  /\ Goto(c, "count")
  /\ UNCHANGED <<reviewTables, writers, answer>> /\ AccountsRest

\* countScoresForRound.  The list of what would be removed holds the request
\* back only if fewer ids are named than there are.
CountScores(c) ==
  /\ pc[c] = "count"
  /\ IF /\ \E s \in scores : row[<<s[1], s[2]>>] # None /\ row[<<s[1], s[2]>>].by = s[3]
        /\ ~ held[c] \subseteq req[c].named
        /\ Cardinality(req[c].named) < Cardinality(held[c])
     THEN Reply(c, "conflict") ELSE Goto(c, "drop") /\ UNCHANGED answer
  /\ Carry(c, None)
  /\ UNCHANGED <<reviewTables, writers>> /\ AccountsRest

\* replaceCriteria is a delete and an insert under the primary key, which fails
\* on what does not fit as well as on what another request has put there.
DropCriteria(c) ==
  /\ pc[c] = "drop"
  /\ rubric' = {}
  /\ Goto(c, "put")
  /\ UNCHANGED <<round, row, scores, keys, held, writers, answer>> /\ AccountsRest

PutCriteria(c) ==
  /\ pc[c] = "put"
  /\ IF ~req[c].fits \/ rubric \intersect req[c].keep # {}
     THEN Reply(c, "error") /\ UNCHANGED rubric
     ELSE Reply(c, "ok") /\ rubric' = rubric \union req[c].keep
  /\ UNCHANGED <<round, row, scores, keys, held, writers>> /\ AccountsRest

-----------------------------------------------------------------------------
(* scoreAssignment and abstainAssignment, by the evaluator of a row that was *)
(* in his queue; he scores the criteria he saw, in a list: it fits if it has *)
(* each of them once and is short enough for one INSERT (5 parameters each). *)

Evaluate(c) ==
  \E p \in Slot, op \in {"score", "abstain"}, fits \in BOOLEAN :
    /\ Listed(c, op) /\ row[p] # None
    /\ op = "abstain" => fits
    /\ BeginReview(c, [op |-> op, on |-> p, by |-> row[p].by, given |-> rubric, fits |-> fits],
                   "row", None)

Mine(c) == LET r == row[req[c].on] IN r # None /\ r.by = req[c].by

FindAssignment(c) ==
  /\ pc[c] = "row"
  /\ IF Mine(c) THEN /\ Carry(c, row[req[c].on].status)
                     /\ Goto(c, "access")
                     /\ UNCHANGED answer
                ELSE Reply(c, "missing") /\ UNCHANGED held
  /\ UNCHANGED <<reviewTables, writers>> /\ AccountsRest

Admissible(c) == role[req[c].on[2]] \in MayReview

\* The round and the membership, read one after the other and used apart
CheckAccess(c) ==
  /\ pc[c] = "access"
  /\ IF ~Admissible(c) THEN Reply(c, "forbidden")
     ELSE IF round.closed THEN Reply(c, "closed")
     ELSE IF req[c].op = "abstain" /\ held[c] = "abstained" THEN Reply(c, "conflict")
     ELSE Goto(c, IF req[c].op = "score" THEN "rubric" ELSE "clear") /\ UNCHANGED answer
  /\ Carry(c, None)
  /\ UNCHANGED <<reviewTables, writers>> /\ AccountsRest

\* Every criterion must have its score and every score its criterion: two for
\* one criterion pass.
MatchRubric(c) ==
  /\ pc[c] = "rubric"
  /\ IF rubric # {} /\ req[c].given = rubric
     THEN Goto(c, "clear") /\ UNCHANGED answer
     ELSE Reply(c, "invalid")
  /\ UNCHANGED <<reviewTables, held, writers>> /\ AccountsRest

Wrote(c, p) == writers' = [writers EXCEPT ![p] = @ \union {c}]

\* Who clears a row that is there leaves nothing of what was written before him,
\* except by those that run together with him.
Afresh(c, p) ==
  writers' = [writers EXCEPT ![p] = {d \in @ : Mine(c) => {c, d} \in met} \union {c}]

\* replaceScores: a delete, then an insert unless there is nothing to insert
Slip_KeepsScores(c) == {}
Cleared(c) == ScoresOf(req[c].on, req[c].by)

ClearScores(c) ==
  /\ pc[c] = "clear"
  /\ scores' = scores \ Cleared(c)
  /\ Afresh(c, req[c].on)
  /\ Goto(c, IF req[c].op = "score" THEN "enter" ELSE "mark")
  /\ UNCHANGED <<round, rubric, row, keys, held, answer>> /\ AccountsRest

\* The scores have a unique key: two for one criterion, or those of another
\* request, fail the INSERT, and what was cleared stays so.  Without a row they
\* belong to nothing.
EnterScores(c) ==
  LET new == {<<req[c].on[1], req[c].on[2], req[c].by, k>> : k \in req[c].given} IN
  /\ pc[c] = "enter"
  /\ IF ~req[c].fits \/ new \intersect scores # {} THEN Reply(c, "error") /\ UNCHANGED scores
     ELSE scores' = scores \union new /\ Goto(c, "mark") /\ UNCHANGED answer
  /\ Wrote(c, req[c].on)
  /\ UNCHANGED <<round, rubric, row, keys, held>> /\ AccountsRest

\* updateAssignment looks, then writes by id; a row that goes in between is
\* not missed.
MarkAssignment(c) ==
  /\ pc[c] = "mark"
  /\ IF Mine(c)
     THEN /\ row' = [row EXCEPT ![req[c].on] =
                       [by     |-> @.by,
                        status |-> IF req[c].op = "score" THEN "scored" ELSE "abstained",
                        at     |-> @.at + 1]]
          /\ Wrote(c, req[c].on)
          /\ Reply(c, "ok")
     ELSE (\E a \in {"missing", "ok"} : Reply(c, a)) /\ UNCHANGED <<row, writers>>
  /\ UNCHANGED <<round, rubric, scores, keys, held>> /\ AccountsRest

-----------------------------------------------------------------------------
(* assignEvaluators: the users one after the other *)

Assign(c) ==
  /\ Listed(c, "assign")
  /\ \E s \in Submission, us \in (SUBSET Person) \ {{}} :
       BeginAsAdmin(c, [op |-> "assign", sub |-> s], "reviewer", [left |-> us, now |-> None])

NextReviewer(c) ==
  /\ pc[c] = "reviewer"
  /\ \/ /\ held[c].left = {}
        /\ Reply(c, "ok")
        /\ Carry(c, None)
     \/ \E u \in held[c].left :
          /\ IF role[u] \in MayReview THEN Goto(c, "pair") /\ UNCHANGED answer
                                      ELSE Reply(c, "invalid")
          /\ Carry(c, IF role[u] \in MayReview THEN [left |-> held[c].left \ {u}, now |-> u]
                                               ELSE None)
  /\ UNCHANGED <<reviewTables, writers>> /\ AccountsRest

FindPair(c) ==
  /\ pc[c] = "pair"
  /\ Goto(c, IF row[<<req[c].sub, held[c].now>>] = None THEN "place" ELSE "reviewer")
  /\ UNCHANGED <<reviewTables, held, writers, answer>> /\ AccountsRest

NewRow(c) == [by |-> c, status |-> "pending", at |-> 0]

InsertAssignment(c) ==
  LET p == <<req[c].sub, held[c].now>> IN
  /\ pc[c] = "place"
  /\ IF row[p] = None
     THEN /\ row' = [row EXCEPT ![p] = NewRow(c)]
          /\ writers' = [writers EXCEPT ![p] = {}]
          /\ Goto(c, "reviewer")
          /\ UNCHANGED <<answer, held>>
     ELSE Reply(c, "error") /\ Carry(c, None) /\ UNCHANGED <<row, writers>>
  /\ UNCHANGED <<round, rubric, scores, keys>> /\ AccountsRest

-----------------------------------------------------------------------------
(* bulkAssignEvaluators: a preview hands out the estate it has seen, hashed; *)
(* the commit reads again and compares.                                      *)

Roles(q) == [v \in q.evaluators |-> role[v]]
Estate(q) == [version |-> round.version, roles |-> Roles(q), rows |-> row, question |-> q]

\* With a preview made now, or once more with the one of an earlier request
BulkAssign(c) ==
  /\ Listed(c, "bulk")
  /\ \E t \in {Estate(q) : q \in Question}
               \union {req[d].token : d \in {x \in Call : pc[x] # "idle" /\ req[x].op = "bulk"}} :
       BeginAsAdmin(c, [op |-> "bulk", token |-> t], "header", None)

ReadRound(c) ==
  /\ pc[c] = "header"
  /\ Carry(c, round)
  /\ Goto(c, "key")
  /\ UNCHANGED <<reviewTables, writers, answer>> /\ AccountsRest

Taken(t) == \E k \in keys : k[1] = t

\* findIdempotencyKey: what was committed is answered again.
FindKey(c) ==
  /\ pc[c] = "key"
  /\ IF Taken(req[c].token) THEN Reply(c, "replayed") /\ Carry(c, None)
     ELSE IF held[c].closed THEN Reply(c, "closed") /\ Carry(c, None)
     ELSE Goto(c, "members") /\ UNCHANGED <<answer, held>>
  /\ UNCHANGED <<reviewTables, writers>> /\ AccountsRest

ReadMembers(c) ==
  /\ pc[c] = "members"
  /\ Carry(c, [version |-> held[c].version, roles |-> Roles(req[c].token.question)])
  /\ Goto(c, "estate")
  /\ UNCHANGED <<reviewTables, writers, answer>> /\ AccountsRest

\* listAssignmentsForRound completes the estate, and the token is compared.
SameEstate(c) == /\ held[c].version = req[c].token.version
                 /\ held[c].roles = req[c].token.roles
                 /\ row = req[c].token.rows

CompareEstate(c) ==
  /\ pc[c] = "estate"
  /\ IF ~SameEstate(c) THEN Reply(c, "stale")
     ELSE IF \E v \in req[c].token.question.evaluators : held[c].roles[v] \notin MayReview
     THEN Reply(c, "invalid")
     ELSE Goto(c, "commit") /\ UNCHANGED answer
  /\ Carry(c, None)
  /\ UNCHANGED <<reviewTables, writers>> /\ AccountsRest

PlanOf(c) == Plan(StatusOf(req[c].token.rows), req[c].token.question)

\* the ids the plan removes
Doomed(c) == {p \in PlanOf(c).remove : row[p] # None /\ row[p].by = req[c].token.rows[p].by}

Slip_Whatever(c, p) == p \in Doomed(c)
Deletable(c, p) == p \in Doomed(c) /\ row[p].status = "pending"

Slip_NoKey(c) == FALSE
Duplicate(c) == Taken(req[c].token)

\* commitBulkAssignAtomic: the key first, so that a second commit of a preview
\* stops there; then, by id, the scores of what is to go, and the rows that
\* are still pending; then the additions, under the unique index.
Commit(c) ==
  LET add  == PlanOf(c).add
      gone == {p \in PlanOf(c).remove : Deletable(c, p)}
      torn == {p \in PlanOf(c).remove : ScoresOf(p, req[c].token.rows[p].by) # {}} IN
  /\ pc[c] = "commit"
  /\ \/ /\ Duplicate(c)
        /\ Reply(c, "replayed")
        /\ UNCHANGED <<row, scores, keys, writers>>
     \/ /\ ~Duplicate(c) /\ \E p \in add : row[p] # None
        /\ Reply(c, "error")
        /\ UNCHANGED <<row, scores, keys, writers>>
     \/ /\ ~Duplicate(c) /\ \A p \in add : row[p] = None
        /\ row' = [p \in Slot |-> IF p \in add THEN NewRow(c)
                                  ELSE IF p \in gone THEN None ELSE row[p]]
        /\ scores' = scores \ UNION {ScoresOf(p, req[c].token.rows[p].by) : p \in torn}
        /\ keys' = keys \union {<<req[c].token, c>>}
        /\ writers' = [p \in Slot |-> IF p \in add \union gone THEN {}
                                      ELSE IF p \in torn THEN writers[p] \union {c}
                                      ELSE writers[p]]
        /\ Reply(c, "ok")
  /\ UNCHANGED <<round, rubric, held>> /\ AccountsRest

-----------------------------------------------------------------------------
(* The guard of setMemberRole, which reads the assignments *)

Slip_Unguarded(u) == FALSE
HasPending(u) == \E s \in Submission : row[<<s, u>>] # None /\ row[<<s, u>>].status = "pending"

GuardDemotion(c) ==
  /\ pc[c] = "guard"
  /\ IF HasPending(Subject(c)) THEN Reply(c, "conflict") ELSE Goto(c, "update") /\ UNCHANGED answer
  /\ UNCHANGED <<reviewTables, held, writers>> /\ AccountsRest

-----------------------------------------------------------------------------
ReviewStep(c) ==
  \/ UpdateRound(c) \/ ReadCriteria(c) \/ CountScores(c) \/ DropCriteria(c) \/ PutCriteria(c)
  \/ FindAssignment(c) \/ CheckAccess(c) \/ MatchRubric(c)
  \/ ClearScores(c) \/ EnterScores(c) \/ MarkAssignment(c)
  \/ NextReviewer(c) \/ FindPair(c) \/ InsertAssignment(c)
  \/ ReadRound(c) \/ FindKey(c) \/ ReadMembers(c) \/ CompareEstate(c) \/ Commit(c)
  \/ GuardDemotion(c)

ReviewBegin(c) == UpsertRubric(c) \/ Evaluate(c) \/ Assign(c) \/ BulkAssign(c)

\* A round in use: somebody has been assigned, one has perhaps been scored.
Init ==
  /\ AccountInit
  /\ round  = [closed |-> FALSE, version |-> 0]
  /\ rubric \in (SUBSET Criterion) \ {{}}
  /\ \E st \in [Slot -> {None, "pending", "scored"}] :
       /\ \A p \in Slot : st[p] # None => role[p[2]] \in MayReview
       /\ row = [p \in Slot |-> IF st[p] = None THEN None
                                ELSE [by |-> None, status |-> st[p], at |-> 0]]
       /\ scores = {<<p[1], p[2], None, k>> : p \in {x \in Slot : st[x] = "scored"}, k \in rubric}
  /\ keys    = {}
  /\ held    = [c \in Call |-> None]
  /\ writers = [p \in Slot |-> {}]

Next ==
  \/ \E c \in Call : \/ ReviewBegin(c) \/ ReviewStep(c)
                     \/ /\ AccountBegin(c) \/ AccountStep(c) \/ Die(c)
                        /\ UNCHANGED <<reviewTables, held, writers>>
  \/ \E d \in Call : Expire(d) /\ UNCHANGED <<reviewTables, held, writers>>

Spec == Init /\ [][Next]_vars

-----------------------------------------------------------------------------
(* What must hold *)

\* An orphan is a pending review of somebody who may not give it.  The guard of
\* setMemberRole lets one arise only if the assignment and what made him a
\* speaker were in progress together.
OrphanOnlyByRace ==
  \A p \in Slot :
    row[p] # None /\ row[p].status = "pending" /\ role[p[2]] \notin MayReview
      => {row[p].by, demoter[p[2]]} \in met

Undisturbed(cs) == /\ \A c \in cs : pc[c] = "done" /\ answer[c] \notin {"lost", "error"}
                   /\ \A c, d \in cs : {c, d} \notin met

\* "Abstaining discards any partial scores so aggregates stay honest"
\* (commands.ts:671): a row is scored exactly if it has scores, as long as no
\* two requests that wrote to them ran together, none died and none was answered
\* with an error after its DELETE.  What one of those leaves, the next request
\* that has the row to itself and is answered ok puts right: only the writers
\* since are asked about.
HonestReview ==
  \A p \in Slot :
    row[p] # None /\ Undisturbed(writers[p])
      => (row[p].status = "scored" <=> ScoresOf(p, row[p].by) # {})

\* "scored/abstained never removed": no step takes away a row that has been
\* reviewed or makes it pending again.
ReviewedStays ==
  [][\A p \in Slot :
       row[p] # None /\ row[p].status # "pending"
         => row'[p] # None /\ row'[p].by = row[p].by /\ row'[p].status # "pending"]_row

\* "concurrent duplicate commits apply exactly once"
\* (KMS-competition/initiative/contracts/COMMANDS.md:54)
CommittedOnce == \A k, l \in keys : k[1] = l[1] => k[2] = l[2]
=============================================================================
