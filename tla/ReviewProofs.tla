----------------------------- MODULE ReviewProofs -----------------------------
(***************************************************************************)
(* Proofs about Review and the accounts it is composed with, for any       *)
(* number of requests, people, submissions and criteria, any list and any  *)
(* deaths: a preview is committed once, nothing reviewed is taken away, an *)
(* administrator remains, a link opens one session, the newest link works, *)
(* a review that was not disturbed is honest, and one that nobody may give *)
(* takes a race.                                                           *)
(*                                                                         *)
(* Of the plan of a bulk assignment two facts are needed: only pending     *)
(* rows are planned to go, and only evaluators asked about are added.  The *)
(* second one is proved of the plans of AssignDesk, which are the same.    *)
(***************************************************************************)
EXTENDS Review, FiniteSetTheorems, TLAPS

\* The plans of a bulk assignment, with their theorems
Desk == INSTANCE AssignDeskProofs WITH Evaluator <- Person, estate <- row

\* The step a request of the accounts makes
AccountMove(c) == AccountBegin(c) \/ AccountStep(c) \/ Die(c)

LEMMA NextCases ==
  ASSUME Next
  PROVE  \/ \E c \in Call : \/ ReviewBegin(c) \/ ReviewStep(c)
                            \/ AccountMove(c) /\ UNCHANGED <<reviewTables, held, writers>>
         \/ \E d \in Call : Expire(d) /\ UNCHANGED <<reviewTables, held, writers>>
BY DEF Next, AccountMove

-----------------------------------------------------------------------------
(* Committed previews *)

\* Keys are added by a commit, when there is none of its preview.
LEMMA KeyStep ==
  ASSUME [Next]_vars, CommittedOnce PROVE CommittedOnce'
<1>1. CASE keys' = keys
  BY <1>1 DEF CommittedOnce
<1>2. ASSUME NEW c \in Call, Commit(c) PROVE CommittedOnce'
  <2>1. CASE keys' = keys
    BY <2>1 DEF CommittedOnce
  <2>2. CASE ~Taken(req[c].token) /\ keys' = keys \union {<<req[c].token, c>>}
    BY <2>2 DEF CommittedOnce, Taken
  <2> QED
    BY <1>2, <2>1, <2>2 DEF Commit, Duplicate
<1>3. ASSUME NEW c \in Call, ReviewBegin(c) PROVE keys' = keys
  BY <1>3 DEF ReviewBegin, UpsertRubric, Evaluate, Assign, BulkAssign, BeginAsAdmin, BeginReview,
              reviewTables
<1>4. ASSUME NEW c \in Call, ReviewStep(c), ~Commit(c) PROVE keys' = keys
  BY <1>4 DEF ReviewStep, UpdateRound, ReadCriteria, CountScores, DropCriteria, PutCriteria,
              FindAssignment, CheckAccess, MatchRubric, ClearScores, EnterScores, MarkAssignment,
              NextReviewer, FindPair, InsertAssignment, ReadRound, FindKey, ReadMembers,
              CompareEstate, GuardDemotion, reviewTables
<1>5. CASE UNCHANGED vars
  BY <1>5, <1>1 DEF vars
<1> QED
  BY <1>1, <1>2, <1>3, <1>4, <1>5, NextCases DEF reviewTables

(* A preview is committed by one request, however many commit it at once.   *)
THEOREM CommitOnce == Spec => []CommittedOnce
<1>1. Init => CommittedOnce
  BY DEF Init, CommittedOnce
<1> QED
  BY <1>1, KeyStep, PTL DEF Spec

-----------------------------------------------------------------------------
(* Reviewed assignments *)

RowTypes == row \in [Slot -> Row \union {None}]

\* What ReviewedStays says of a step
Stays ==
  \A p \in Slot :
    row[p] # None /\ row[p].status # "pending"
      => row'[p] # None /\ row'[p].by = row[p].by /\ row'[p].status # "pending"

\* The three that write rows: a review is entered, ...
LEMMA MarkStep ==
  ASSUME RowTypes, NEW c \in Call, MarkAssignment(c)
  PROVE  RowTypes' /\ Stays
<1>1. CASE row' = row
  BY <1>1 DEF RowTypes, Stays
<1>2. CASE /\ Mine(c)
           /\ row' = [row EXCEPT ![req[c].on] =
                        [by     |-> @.by,
                         status |-> IF req[c].op = "score" THEN "scored" ELSE "abstained",
                         at     |-> @.at + 1]]
  <2> DEFINE p == req[c].on
             st == IF req[c].op = "score" THEN "scored" ELSE "abstained"
  <2>1. CASE p \notin Slot
    <3>1. row' = row
      BY <2>1, <1>2 DEF RowTypes
    <3> QED
      BY <3>1, <1>1
  <2>2. CASE p \in Slot
    <3>1. row[p] \in Row
      BY <2>2, <1>2 DEF RowTypes, Mine
    <3> DEFINE new == [by |-> row[p].by, status |-> st, at |-> row[p].at + 1]
    <3>2. row' = [row EXCEPT ![p] = new]
      BY <1>2
    <3>3. new \in Row /\ new.by = row[p].by /\ new.status # "pending"
      BY <3>1 DEF Row
    <3> HIDE DEF new
    <3>4. row'[p] = new /\ \A q \in Slot : q # p => row'[q] = row[q]
      BY <3>2, <2>2 DEF RowTypes, new
    <3>5. RowTypes'
      BY <3>2, <3>3 DEF RowTypes, new
    <3>6. Stays
      BY <3>3, <3>4, RowAssumption DEF Stays
    <3> QED
      BY <3>5, <3>6
  <2> QED
    BY <2>1, <2>2
<1> QED
  BY <1>1, <1>2 DEF MarkAssignment

\* ... somebody is assigned where nobody was, ...
LEMMA AssignStep ==
  ASSUME RowTypes, NEW c \in Call, InsertAssignment(c)
  PROVE  RowTypes' /\ Stays
<1>1. NewRow(c) \in Row
  BY DEF NewRow, Row
<1> QED
  BY <1>1 DEF InsertAssignment, RowTypes, Stays

\* ... or a plan is carried out.
LEMMA CommitStep ==
  ASSUME RowTypes, NEW c \in Call, Commit(c)
  PROVE  RowTypes' /\ Stays
<1>1. CASE row' = row
  BY <1>1 DEF RowTypes, Stays
<1>2. ASSUME NEW add, NEW gone,
             \A p \in add : row[p] = None,
             \A p \in gone : Deletable(c, p),
             row' = [p \in Slot |-> IF p \in add THEN NewRow(c)
                                    ELSE IF p \in gone THEN None ELSE row[p]]
      PROVE  RowTypes' /\ Stays
  <2>1. NewRow(c) \in Row
    BY DEF NewRow, Row
  <2>2. RowTypes'
    BY <1>2, <2>1 DEF RowTypes
  <2>3. ASSUME NEW p \in Slot, row[p] # None, row[p].status # "pending"
        PROVE  row'[p] = row[p]
    BY <1>2, <2>3 DEF Deletable
  <2> QED
    BY <2>2, <2>3 DEF Stays
<1> QED
  BY <1>1, <1>2 DEF Commit

LEMMA RowStep ==
  ASSUME RowTypes, [Next]_vars PROVE RowTypes' /\ Stays
<1>1. CASE row' = row
  BY <1>1 DEF RowTypes, Stays
<1>2. ASSUME NEW c \in Call, ReviewBegin(c) PROVE row' = row
  BY <1>2 DEF ReviewBegin, UpsertRubric, Evaluate, Assign, BulkAssign, BeginAsAdmin, BeginReview,
              reviewTables
<1>3. ASSUME NEW c \in Call, ReviewStep(c), ~Commit(c), ~InsertAssignment(c), ~MarkAssignment(c)
      PROVE  row' = row
  BY <1>3 DEF ReviewStep, UpdateRound, ReadCriteria, CountScores, DropCriteria, PutCriteria,
              FindAssignment, CheckAccess, MatchRubric, ClearScores, EnterScores,
              NextReviewer, FindPair, ReadRound, FindKey, ReadMembers,
              CompareEstate, GuardDemotion, reviewTables
<1>4. CASE UNCHANGED vars
  BY <1>4, <1>1 DEF vars
<1> QED
  BY <1>1, <1>2, <1>3, <1>4, MarkStep, AssignStep, CommitStep, NextCases DEF reviewTables

(* No step takes a reviewed assignment away, gives it to another row or     *)
(* makes it pending, whatever is planned, committed and scored at once.     *)
THEOREM ReviewsStay == Spec => ReviewedStays
<1>1. Init => RowTypes
  BY DEF Init, RowTypes, Row
<1>2. RowTypes /\ [Next]_vars => RowTypes'
  BY RowStep
<1>3. RowTypes /\ [Next]_vars => [Stays]_row
  BY RowStep
<1>4. Spec => [][Stays]_row
  BY <1>1, <1>2, <1>3, PTL DEF Spec
<1> QED
  BY <1>4 DEF Stays, ReviewedStays

-----------------------------------------------------------------------------
(* Administrators *)

\* What AdminRemains says of a step
Remains == AdminExists /\ ~overwritten' => AdminExists'

\* The three that write memberships: an upsert, which replaces one only by
\* overwriting it, ...
LEMMA UpsertStep ==
  ASSUME DOMAIN role = Person, NEW c \in Call, Upsert(c)
  PROVE  DOMAIN role' = Person /\ Remains
<1>1. CASE role' = role
  BY <1>1 DEF Remains, AdminExists
<1>2. CASE /\ seen[c] # None \/ role[Subject(c)] = None
           /\ role' = [role EXCEPT ![Subject(c)] = Granted(c)]
           /\ overwritten' = (overwritten \/ seen[c] # None)
  <2>1. ASSUME AdminExists, ~overwritten' PROVE AdminExists'
    <3>1. role[Subject(c)] = None
      BY <1>2, <2>1
    <3>2. PICK u \in Person : role[u] = "admin"
      BY <2>1 DEF AdminExists
    <3>3. u # Subject(c)
      BY <3>1, <3>2, NoneAssumption
    <3>4. role'[u] = "admin"
      BY <1>2, <3>2, <3>3
    <3> QED
      BY <3>4 DEF AdminExists
  <2> QED
    BY <1>2, <2>1 DEF Remains
<1> QED
  BY <1>1, <1>2 DEF Upsert

\* ... an invitation, which takes none, ...
LEMMA InviteStep ==
  ASSUME DOMAIN role = Person, NEW c \in Call, EnsureMember(c)
  PROVE  DOMAIN role' = Person /\ Remains
<1>1. CASE role' = role
  BY <1>1 DEF Remains, AdminExists
<1>2. CASE /\ role[Subject(c)] = None
           /\ role' = [role EXCEPT ![Subject(c)] = req[c].want]
  <2>1. ASSUME NEW u \in Person, role[u] = "admin" PROVE role'[u] = "admin"
    BY <1>2, <2>1, NoneAssumption
  <2> QED
    BY <1>2, <2>1 DEF Remains, AdminExists
<1> QED
  BY <1>1, <1>2 DEF EnsureMember

\* ... or a change, which looks for another administrator.
LEMMA ChangeStep ==
  ASSUME DOMAIN role = Person, NEW c \in Call, UpdateRole(c)
  PROVE  DOMAIN role' = Person /\ Remains
<1>1. CASE role' = role
  BY <1>1 DEF Remains, AdminExists
<1>2. CASE /\ MayChange(c)
           /\ role' = [role EXCEPT ![Subject(c)] = req[c].want]
  <2>1. ASSUME AdminExists PROVE \E u \in Person : u # Subject(c) /\ role[u] = "admin"
    BY <1>2, <2>1 DEF MayChange, AdminExists
  <2>2. \A u \in Person : u # Subject(c) => role'[u] = role[u]
    BY <1>2
  <2> QED
    BY <1>2, <2>1, <2>2 DEF Remains, AdminExists
<1> QED
  BY <1>1, <1>2 DEF UpdateRole

LEMMA RoleStep ==
  ASSUME DOMAIN role = Person, [Next]_vars
  PROVE  DOMAIN role' = Person /\ Remains
<1>1. CASE role' = role
  BY <1>1 DEF Remains, AdminExists
<1>2. ASSUME NEW c \in Call, ReviewBegin(c) PROVE role' = role
  BY <1>2 DEF ReviewBegin, UpsertRubric, Evaluate, Assign, BulkAssign, BeginAsAdmin, BeginReview,
              Begin, tables
<1>3. ASSUME NEW c \in Call, ReviewStep(c) PROVE role' = role
  BY <1>3 DEF ReviewStep, UpdateRound, ReadCriteria, CountScores, DropCriteria, PutCriteria,
              FindAssignment, CheckAccess, MatchRubric, ClearScores, EnterScores, MarkAssignment,
              NextReviewer, FindPair, InsertAssignment, ReadRound, FindKey, ReadMembers,
              CompareEstate, Commit, GuardDemotion, AccountsRest, tables
<1>4. ASSUME NEW c \in Call, AccountMove(c), ~Upsert(c), ~EnsureMember(c), ~UpdateRole(c)
      PROVE  role' = role
  BY <1>4 DEF AccountMove, AccountBegin, AccountStep, AskForLink, Provision, Invite, ChangeRole,
              Redeem, Begin, FindUser, CheckMember, CheckFounder, CreateUser, ResolvePurpose,
              InsertLink, Supersede, Regrant, Mail, ReadForUpsert, EnsureUser, RereadMember,
              LookupMember, LookupLink, Consume, InsertSession, Die, tables
<1>5. ASSUME NEW d \in Call, Expire(d) PROVE role' = role
  BY <1>5 DEF Expire
<1>6. CASE UNCHANGED vars
  BY <1>6, <1>1 DEF vars
<1> QED
  BY <1>1, <1>2, <1>3, <1>4, <1>5, <1>6, UpsertStep, InviteStep, ChangeStep, NextCases

(* However many roles are changed at once, an administrator is left, until  *)
(* a provisioning overwrites a membership it has not seen.                  *)
THEOREM AdminStays == Spec => AdminRemains
<1>1. Init => DOMAIN role = Person
  BY DEF Init, AccountInit
<1>2. (DOMAIN role = Person) /\ [Next]_vars => (DOMAIN role = Person)'
  BY RoleStep
<1>3. (DOMAIN role = Person) /\ [Next]_vars => [Remains]_<<role, overwritten>>
  BY RoleStep
<1>4. Spec => [][Remains]_<<role, overwritten>>
  BY <1>1, <1>2, <1>3, PTL DEF Spec
<1> QED
  BY <1>4 DEF Remains, AdminRemains

-----------------------------------------------------------------------------
(* Links and sessions *)

\* Where a request is that has issued a link and not yet answered; only a
\* founder's goes on to write a membership.
Issuing(c) == \/ pc[c] \in {"supersede", "regrant", "mail"}
              \/ pc[c] \in {"read", "write"} /\ req[c].op = "signin"

Redeeming(c) == \/ pc[c] \in {"consume", "session"}
                \/ pc[c] = "lookup" /\ req[c].op = "redeem"

\* Who has consumed a link and has a session or is about to
Holds(c) == pc[c] = "session" \/ c \in sessions

LinkInv ==
  /\ DOMAIN link = Call /\ DOMAIN pc = Call /\ DOMAIN req = Call
  /\ mailed \subseteq {c \in Call : link[c] # None}
  /\ sessions \subseteq {c \in Call : pc[c] = "done"}
  /\ \A c \in Call : /\ Issuing(c) => link[c] # None
                     /\ link[c] # None => Issuing(c) \/ pc[c] = "done"
                     /\ pc[c] = "regrant" => req[c].op = "signin"
                     /\ Redeeming(c) => req[c].via \in mailed
                     /\ Holds(c) => req[c].via \in Call /\ link[req[c].via] = "used"
  /\ \A c, d \in Call : Holds(c) /\ Holds(d) /\ req[c].via = req[d].via => c = d

\* A request goes on, and nothing becomes of links and sessions.
LEMMA Onward ==
  ASSUME LinkInv, NEW c \in Call, UNCHANGED <<link, sessions>>,
         mailed' \in {mailed, mailed \union {c}}, mailed' # mailed => link[c] # None,
         DOMAIN pc' = Call, DOMAIN req' = Call,
         \A d \in Call : d # c => pc'[d] = pc[d] /\ req'[d] = req[d],
         pc[c] # "done", pc'[c] # "session",
         Issuing(c)' => link[c] # None,
         link[c] # None => Issuing(c)' \/ pc'[c] = "done",
         pc'[c] = "regrant" => req'[c].op = "signin",
         Redeeming(c)' => req'[c].via \in mailed
  PROVE  LinkInv'
<1>1. c \notin sessions
  BY DEF LinkInv
<1>2. \A d \in Call : Holds(d)' => Holds(d) /\ d # c
  BY <1>1 DEF Holds
<1>3. \A d \in Call : d # c => Issuing(d)' = Issuing(d) /\ Redeeming(d)' = Redeeming(d)
  BY DEF Issuing, Redeeming
<1> QED
  BY <1>1, <1>2, <1>3 DEF LinkInv

\* Requests that come in; nobody has a link before.
LEMMA BeginSteps ==
  ASSUME LinkInv, NEW c \in Call, ReviewBegin(c) \/ AccountBegin(c)
  PROVE  LinkInv'
<1>1. /\ pc[c] = "idle" /\ link[c] = None
      /\ UNCHANGED <<link, sessions, mailed>>
  BY DEF LinkInv, Issuing, ReviewBegin, AccountBegin, UpsertRubric, Evaluate, Assign, BulkAssign,
         AskForLink, Provision, Invite, ChangeRole, Redeem, Listed, BeginAsAdmin, BeginReview,
         Begin, tables
<1>2. ASSUME NEW r, NEW first, Begin(c, r, first)
      PROVE  /\ DOMAIN pc' = Call /\ DOMAIN req' = Call
             /\ \A d \in Call : d # c => pc'[d] = pc[d] /\ req'[d] = req[d]
             /\ pc'[c] = first /\ req'[c] = r
  BY <1>2 DEF Begin, Goto, LinkInv
<1>3. \E r, first : /\ Begin(c, r, first)
                    /\ \/ first \in {"round", "row", "reviewer", "header", "find", "member",
                                     "create", "account"}
                       \/ first = "lookup" /\ (r.op # "redeem" \/ r.via \in mailed)
  <2>1. CASE ReviewBegin(c)
    BY <2>1 DEF ReviewBegin, UpsertRubric, Evaluate, Assign, BulkAssign, BeginAsAdmin, BeginReview
  <2>2. CASE AskForLink(c) \/ Provision(c) \/ Invite(c)
    BY <2>2 DEF AskForLink, Provision, Invite
  <2>3. CASE ChangeRole(c)
    <3>1. PICK u \in Person, w \in Role :
             Begin(c, [op |-> "role", who |-> u, want |-> w], "lookup")
      BY <2>3 DEF ChangeRole
    <3>2. [op |-> "role", who |-> u, want |-> w].op # "redeem"
      OBVIOUS
    <3> QED
      BY <3>1, <3>2
  <2>4. CASE Redeem(c)
    <3>1. PICK l \in mailed : Begin(c, [op |-> "redeem", via |-> l], "lookup")
      BY <2>4 DEF Redeem
    <3>2. [op |-> "redeem", via |-> l].via \in mailed
      OBVIOUS
    <3> QED
      BY <3>1, <3>2
  <2> QED
    BY <2>1, <2>2, <2>3, <2>4 DEF AccountBegin
<1>4. /\ pc'[c] \notin {"session", "regrant"} /\ ~Issuing(c)'
      /\ Redeeming(c)' => req'[c].via \in mailed
  BY <1>2, <1>3 DEF LinkInv, Redeeming, Issuing
<1> QED
  BY <1>1, <1>2, <1>3, <1>4, Onward

\* The steps of a review have nothing to do with links.
LEMMA ReviewSteps ==
  ASSUME LinkInv, NEW c \in Call, ReviewStep(c)
  PROVE  LinkInv'
<1>1. /\ pc[c] \in {"round", "criteria", "count", "drop", "put", "row", "access", "rubric",
                    "clear", "enter", "mark", "reviewer", "pair", "place", "header", "key",
                    "members", "estate", "commit", "guard"}
      /\ UNCHANGED <<link, sessions, mailed, req>>
  BY DEF ReviewStep, UpdateRound, ReadCriteria, CountScores, DropCriteria, PutCriteria,
         FindAssignment, CheckAccess, MatchRubric, ClearScores, EnterScores, MarkAssignment,
         NextReviewer, FindPair, InsertAssignment, ReadRound, FindKey, ReadMembers,
         CompareEstate, Commit, GuardDemotion, AccountsRest, tables
<1>2. \E l \in {"criteria", "count", "drop", "put", "access", "rubric", "clear", "enter", "mark",
                "pair", "place", "reviewer", "key", "members", "estate", "commit", "update",
                "done"} : pc' = [pc EXCEPT ![c] = l]
  <2>1. CASE UpdateRound(c) \/ ReadCriteria(c) \/ CountScores(c) \/ DropCriteria(c) \/ PutCriteria(c)
    BY <2>1 DEF UpdateRound, ReadCriteria, CountScores, DropCriteria, PutCriteria, Goto, Reply
  <2>2. CASE FindAssignment(c) \/ CheckAccess(c) \/ MatchRubric(c) \/ ClearScores(c)
    BY <2>2 DEF FindAssignment, CheckAccess, MatchRubric, ClearScores, Goto, Reply
  <2>3. CASE EnterScores(c) \/ MarkAssignment(c) \/ NextReviewer(c) \/ FindPair(c)
    BY <2>3 DEF EnterScores, MarkAssignment, NextReviewer, FindPair, Goto, Reply
  <2>4. CASE InsertAssignment(c) \/ ReadRound(c) \/ FindKey(c) \/ ReadMembers(c)
    BY <2>4 DEF InsertAssignment, ReadRound, FindKey, ReadMembers, Goto, Reply
  <2>5. CASE CompareEstate(c) \/ Commit(c) \/ GuardDemotion(c)
    BY <2>5 DEF CompareEstate, Commit, GuardDemotion, Goto, Reply
  <2> QED
    BY <2>1, <2>2, <2>3, <2>4, <2>5 DEF ReviewStep
<1>3. link[c] = None
  BY <1>1 DEF LinkInv, Issuing
<1>4. /\ DOMAIN pc' = Call /\ \A d \in Call : d # c => pc'[d] = pc[d]
      /\ pc'[c] \notin {"session", "regrant"} /\ ~Redeeming(c)' /\ ~Issuing(c)'
  BY <1>2 DEF LinkInv, Redeeming, Issuing
<1> QED
  BY <1>1, <1>3, <1>4, Onward DEF LinkInv

\* The same of the steps that look, grant and mail
LEMMA GrantSteps ==
  ASSUME LinkInv, NEW c \in Call, AccountStep(c) \/ Die(c),
         ~InsertLink(c), ~Supersede(c), ~Consume(c), ~InsertSession(c)
  PROVE  LinkInv'
<1>1. /\ UNCHANGED <<link, sessions, req>> /\ mailed' \in {mailed, mailed \union {c}}
      /\ mailed' # mailed => pc[c] = "mail"
      /\ pc[c] # "done"
  BY DEF AccountStep, FindUser, CheckMember, CheckFounder, CreateUser, ResolvePurpose, Regrant,
         Mail, ReadForUpsert, Upsert, EnsureUser, EnsureMember, RereadMember, LookupMember,
         UpdateRole, LookupLink, Die, Running, tables
<1>2. /\ DOMAIN pc' = Call /\ \A d \in Call : d # c => pc'[d] = pc[d]
      /\ pc'[c] \notin {"session", "lookup", "regrant"}
      /\ Issuing(c) => Issuing(c)' \/ pc'[c] = "done"
      /\ Issuing(c)' => Issuing(c)
      /\ pc'[c] = "consume" => Redeeming(c)
  <2> USE DEF LinkInv
  <2>1. CASE FindUser(c) \/ CheckMember(c) \/ CheckFounder(c) \/ CreateUser(c) \/ ResolvePurpose(c)
    BY <2>1 DEF FindUser, CheckMember, CheckFounder, CreateUser, ResolvePurpose, Goto, Reply, Issuing
  <2>2. CASE Regrant(c)
    BY <2>2 DEF Regrant, Goto, Issuing
  <2>3. CASE Mail(c) \/ ReadForUpsert(c) \/ EnsureUser(c) \/ EnsureMember(c) \/ RereadMember(c)
    BY <2>3 DEF Mail, ReadForUpsert, EnsureUser, EnsureMember, RereadMember, Goto, Reply, Issuing
  <2>4. CASE Upsert(c)
    BY <2>4 DEF Upsert, AfterGrant, Goto, Reply, Issuing
  <2>5. CASE LookupMember(c) \/ UpdateRole(c) \/ LookupLink(c) \/ Die(c)
    BY <2>5 DEF LookupMember, UpdateRole, LookupLink, Die, Goto, Reply, Issuing, Redeeming
  <2> QED
    BY <2>1, <2>2, <2>3, <2>4, <2>5 DEF AccountStep
<1>3. /\ link[c] # None => Issuing(c)' \/ pc'[c] = "done"
      /\ Issuing(c)' => link[c] # None
      /\ mailed' # mailed => link[c] # None
      /\ Redeeming(c)' => req'[c].via \in mailed
  <2>1. mailed' # mailed => Issuing(c)
    BY <1>1 DEF Issuing
  <2> QED
    BY <1>1, <1>2, <2>1 DEF LinkInv, Redeeming
<1> QED
  BY <1>1, <1>2, <1>3, Onward DEF LinkInv

\* A new link is nobody's yet; those invalidated or expired with it stay used.
LEMMA LinkSteps ==
  ASSUME LinkInv, NEW c \in Call, InsertLink(c) \/ Supersede(c) \/ Expire(c)
  PROVE  LinkInv'
<1>1. UNCHANGED <<sessions, mailed, req>>
  BY DEF InsertLink, Supersede, Expire
<1>2. /\ DOMAIN pc' = Call /\ \A d \in Call : d # c => pc'[d] = pc[d]
      /\ \A d \in Call : pc[d] \in {"done", "session"} \/ pc'[d] \in {"done", "session"}
                            => pc'[d] = pc[d]
      /\ \A d \in Call : Redeeming(d)' = Redeeming(d)
  BY DEF InsertLink, Supersede, Expire, Goto, LinkInv, Redeeming
<1>3. /\ DOMAIN link' = Call
      /\ \A d \in Call : link[d] = "used" => link'[d] = "used"
      /\ \A d \in Call : link'[d] # None => d = c \/ link[d] # None
      /\ \A d \in Call : link[d] # None => link'[d] # None
  <2>1. CASE InsertLink(c)
    <3>1. link[c] = None /\ link' = [link EXCEPT ![c] = "live"]
      BY <2>1 DEF InsertLink, LinkInv, Issuing
    <3> QED
      BY <3>1, NoneAssumption DEF LinkInv
  <2>2. CASE Supersede(c)
    BY <2>2, NoneAssumption DEF Supersede, OthersOf, SamePurpose
  <2>3. CASE Expire(c)
    BY <2>3, NoneAssumption DEF Expire, LinkInv
  <2> QED
    BY <2>1, <2>2, <2>3
<1>4. /\ link'[c] # None => Issuing(c)' \/ pc'[c] = "done"
      /\ Issuing(c)' => link'[c] # None
      /\ pc'[c] = "regrant" => req'[c].op = "signin"
  <2>1. CASE InsertLink(c)
    BY <2>1, <1>1, NoneAssumption DEF InsertLink, Goto, LinkInv, Issuing
  <2>2. CASE Supersede(c)
    <3>1. link[c] # None /\ pc[c] = "supersede"
      BY <2>2 DEF Supersede, LinkInv, Issuing
    <3>2. /\ pc'[c] \in {"regrant", "mail"}
          /\ pc'[c] = "regrant" => req[c].op = "signin"
      BY <2>2 DEF Supersede, Goto, LinkInv
    <3> QED
      BY <3>1, <3>2, <1>1, <1>3 DEF Issuing
  <2>3. CASE Expire(c)
    <3>1. link[c] # None /\ pc' = pc
      BY <2>3, NoneAssumption DEF Expire
    <3> QED
      BY <3>1, <1>1, <1>3 DEF LinkInv, Issuing
  <2> QED
    BY <2>1, <2>2, <2>3
<1>5. \A d \in Call : d # c => Issuing(d)' = Issuing(d)
  BY <1>1, <1>2 DEF Issuing
<1>6. \A d \in Call : Holds(d)' = Holds(d)
  BY <1>1, <1>2 DEF Holds
<1>7. sessions' \subseteq {d \in Call : pc'[d] = "done"}
  BY <1>1, <1>2 DEF LinkInv
<1> QED
  BY <1>1, <1>2, <1>3, <1>4, <1>5, <1>6, <1>7 DEF LinkInv

\* Who consumes a link finds it unused, so nobody holds it.
LEMMA ConsumeStep ==
  ASSUME LinkInv, NEW c \in Call, Consume(c)
  PROVE  LinkInv'
<1> DEFINE l == req[c].via
<1>1. /\ pc[c] = "consume" /\ l \in Call /\ link[l] # None /\ link[c] = None
      /\ UNCHANGED <<sessions, mailed, req>>
  <2>1. pc[c] = "consume" /\ UNCHANGED <<sessions, mailed, req>>
    BY DEF Consume
  <2>2. l \in mailed /\ ~Issuing(c)
    <3>1. Redeeming(c) /\ ~Issuing(c)
      BY <2>1 DEF Redeeming, Issuing
    <3> QED
      BY <3>1 DEF LinkInv
  <2>3. link[c] = None
    BY <2>1, <2>2 DEF LinkInv
  <2>4. l \in Call /\ link[l] # None
    BY <2>2 DEF LinkInv
  <2> QED
    BY <2>1, <2>3, <2>4
<1>2. CASE /\ ~Unused(l) /\ link' = link /\ pc' = [pc EXCEPT ![c] = "done"]
  <2>1. /\ DOMAIN pc' = Call /\ \A d \in Call : d # c => pc'[d] = pc[d]
        /\ pc'[c] = "done"
    BY <1>2 DEF LinkInv
  <2>2. ~Redeeming(c)' /\ ~Issuing(c)'
    BY <2>1 DEF Redeeming, Issuing
  <2> QED
    BY <1>1, <1>2, <2>1, <2>2, Onward DEF LinkInv
<1>3. CASE /\ Unused(l) /\ link' = [link EXCEPT ![l] = "used"]
           /\ pc' = [pc EXCEPT ![c] = "session"]
  <2>1. /\ DOMAIN link' = Call /\ link'[l] = "used"
        /\ \A d \in Call : d # l => link'[d] = link[d]
    BY <1>1, <1>3 DEF LinkInv
  <2>2. /\ DOMAIN pc' = Call /\ pc'[c] = "session"
        /\ \A d \in Call : d # c => pc'[d] = pc[d]
    BY <1>3 DEF LinkInv
  <2>3. \A d \in Call : Holds(d) => req[d].via # l /\ d # c
    BY <1>1, <1>3 DEF LinkInv, Holds, Unused
  <2>4. Holds(c)' /\ \A d \in Call : d # c => Holds(d)' = Holds(d)
    BY <1>1, <2>2 DEF Holds
  <2>5. \A d \in Call : /\ Issuing(d)' => link'[d] # None
                        /\ link'[d] # None => Issuing(d)' \/ pc'[d] = "done"
                        /\ pc'[d] = "regrant" => req'[d].op = "signin"
    BY <1>1, <2>1, <2>2, NoneAssumption DEF LinkInv, Issuing
  <2>6. \A d \in Call : Redeeming(d)' => req'[d].via \in mailed'
    BY <1>1, <2>2 DEF LinkInv, Redeeming
  <2>7. sessions' \subseteq {d \in Call : pc'[d] = "done"}
    BY <1>1, <2>2 DEF LinkInv
  <2>8. \A d \in Call : Holds(d)' => req'[d].via \in Call /\ link'[req'[d].via] = "used"
    BY <1>1, <2>1, <2>3, <2>4 DEF LinkInv
  <2>9. \A d, e \in Call : Holds(d)' /\ Holds(e)' /\ req'[d].via = req'[e].via => d = e
    BY <1>1, <2>3, <2>4 DEF LinkInv
  <2>10. mailed' \subseteq {d \in Call : link'[d] # None}
    BY <1>1, <2>1, NoneAssumption DEF LinkInv
  <2> QED
    BY <1>1, <2>1, <2>2, <2>5, <2>6, <2>7, <2>8, <2>9, <2>10 DEF LinkInv
<1> QED
  BY <1>2, <1>3 DEF Consume, Goto, Reply

\* Its session is inserted.
LEMMA SessionStep ==
  ASSUME LinkInv, NEW c \in Call, InsertSession(c)
  PROVE  LinkInv'
<1>1. /\ pc[c] = "session" /\ sessions' = sessions \union {c}
      /\ pc' = [pc EXCEPT ![c] = "done"]
      /\ UNCHANGED <<link, mailed, req>>
  BY DEF InsertSession, Reply, Goto
<1>2. /\ DOMAIN pc' = Call /\ pc'[c] = "done"
      /\ \A d \in Call : d # c => pc'[d] = pc[d]
  BY <1>1 DEF LinkInv
<1>3. \A d \in Call : Holds(d)' = Holds(d)
  BY <1>1, <1>2 DEF Holds
<1>4. /\ \A d \in Call : Issuing(d)' = Issuing(d)
      /\ \A d \in Call : Redeeming(d)' => Redeeming(d)
  BY <1>1, <1>2 DEF Issuing, Redeeming
<1>5. sessions' \subseteq {d \in Call : pc'[d] = "done"}
  BY <1>1, <1>2 DEF LinkInv
<1>6. \A d \in Call : /\ link[d] # None => Issuing(d) \/ pc'[d] = "done"
                      /\ pc'[d] = "regrant" => req[d].op = "signin"
  BY <1>1, <1>2 DEF LinkInv
<1> QED
  BY <1>1, <1>2, <1>3, <1>4, <1>5, <1>6 DEF LinkInv

LEMMA LinkStep ==
  ASSUME LinkInv, [Next]_vars PROVE LinkInv'
<1>1. ASSUME NEW c \in Call, AccountMove(c) PROVE LinkInv'
  BY <1>1, BeginSteps, GrantSteps, LinkSteps, ConsumeStep, SessionStep DEF AccountMove
<1>2. CASE UNCHANGED vars
  BY <1>2 DEF vars, LinkInv, Issuing, Redeeming, Holds
<1> QED
  BY <1>1, <1>2, BeginSteps, ReviewSteps, LinkSteps, NextCases

(* A link opens at most one session, however many redeem it at once,        *)
(* whatever expires, is superseded or dies meanwhile.                       *)
THEOREM OneSession == Spec => []OneSessionPerLink
<1>1. Init => LinkInv
  BY DEF Init, AccountInit, LinkInv, Issuing, Redeeming, Holds
<1>2. LinkInv => OneSessionPerLink
  BY DEF LinkInv, Holds, OneSessionPerLink
<1> QED
  BY <1>1, <1>2, LinkStep, PTL DEF Spec

-----------------------------------------------------------------------------
(* Requests, one at a time *)

Domains == /\ DOMAIN pc = Call /\ DOMAIN req = Call /\ DOMAIN held = Call
           /\ DOMAIN answer = Call /\ DOMAIN purpose = Call

\* The three kinds of moves of a request
Begins(c) == \/ ReviewBegin(c)
             \/ AccountBegin(c) /\ UNCHANGED <<reviewTables, held, writers>>
SignsIn(c) == (AccountStep(c) \/ Die(c)) /\ UNCHANGED <<reviewTables, held, writers>>

Apart(c) == \A d \in Call : d # c => /\ pc'[d] = pc[d] /\ req'[d] = req[d]
                                     /\ held'[d] = held[d] /\ answer'[d] = answer[d]
                                     /\ purpose'[d] = purpose[d]

FirstCall == {"round", "row", "reviewer", "header", "find", "member", "create", "account",
              "lookup"}

\* What a request that comes in does: it has met those that are running.
ComesIn(c) == /\ pc[c] = "idle" /\ pc'[c] \in FirstCall
              /\ met' = met \union {{c, d} : d \in {x \in Call : Running(x)}}
              /\ UNCHANGED <<tables, answer, purpose, row, scores, keys, writers, demoter>>

\* What one that goes on leaves alone
GoesOn(c) == Running(c) /\ pc'[c] # "idle" /\ UNCHANGED <<req, met>>

LEMMA BeginMoves ==
  ASSUME Domains, NEW c \in Call, Begins(c)
  PROVE  Domains' /\ Apart(c) /\ ComesIn(c)
<1>1. /\ pc[c] = "idle" /\ UNCHANGED <<row, scores, keys, writers>>
      /\ \E r : \E first \in FirstCall : Begin(c, r, first)
      /\ held' = held \/ \E h : held' = [held EXCEPT ![c] = h]
  <2> USE DEF FirstCall
  <2>1. CASE UpsertRubric(c) \/ Evaluate(c)
    BY <2>1 DEF UpsertRubric, Evaluate, BeginAsAdmin, BeginReview, Listed, Carry, reviewTables
  <2>2. CASE Assign(c) \/ BulkAssign(c)
    BY <2>2 DEF Assign, BulkAssign, BeginAsAdmin, BeginReview, Listed, Carry, reviewTables
  <2>3. CASE AccountBegin(c) /\ UNCHANGED <<reviewTables, held, writers>>
    BY <2>3 DEF AccountBegin, AskForLink, Provision, Invite, ChangeRole, Redeem, Listed,
                reviewTables
  <2> QED
    BY <2>1, <2>2, <2>3 DEF Begins, ReviewBegin
<1>2. PICK r : \E first \in FirstCall : Begin(c, r, first)
  BY <1>1
<1>3. PICK first \in FirstCall : Begin(c, r, first)
  BY <1>2
<1>4. /\ pc' = [pc EXCEPT ![c] = first] /\ req' = [req EXCEPT ![c] = r]
      /\ met' = met \union {{c, d} : d \in {x \in Call : Running(x)}}
      /\ UNCHANGED <<tables, locals, answer, demoter>>
  BY <1>3 DEF Begin, Goto
<1> QED
  BY <1>1, <1>4 DEF Domains, Apart, ComesIn, locals

\* Where the calls of a review request lead
AfterReview == {"criteria", "count", "drop", "put", "access", "rubric", "clear", "enter", "mark",
                "pair", "place", "reviewer", "key", "members", "estate", "commit", "update",
                "done"}

LEMMA ReviewMoves ==
  ASSUME Domains, NEW c \in Call, ReviewStep(c)
  PROVE  /\ Domains' /\ Apart(c) /\ GoesOn(c) /\ pc'[c] \in AfterReview
         /\ UNCHANGED <<tables, purpose, demoter>>
<1>1. Running(c) /\ UNCHANGED <<tables, locals, req, others>>
  BY DEF ReviewStep, UpdateRound, ReadCriteria, CountScores, DropCriteria, PutCriteria,
         FindAssignment, CheckAccess, MatchRubric, ClearScores, EnterScores, MarkAssignment,
         NextReviewer, FindPair, InsertAssignment, ReadRound, FindKey, ReadMembers,
         CompareEstate, Commit, GuardDemotion, AccountsRest, Running
<1>2. /\ \E l \in AfterReview : pc' = [pc EXCEPT ![c] = l]
      /\ held' = held \/ \E h : held' = [held EXCEPT ![c] = h]
      /\ answer' = answer \/ \E a : answer' = [answer EXCEPT ![c] = a]
  <2> USE DEF Goto, Reply, Carry, AfterReview
  <2>1. CASE UpdateRound(c) \/ ReadCriteria(c) \/ CountScores(c) \/ DropCriteria(c) \/ PutCriteria(c)
    BY <2>1 DEF UpdateRound, ReadCriteria, CountScores, DropCriteria, PutCriteria, reviewTables
  <2>2. CASE FindAssignment(c) \/ CheckAccess(c) \/ MatchRubric(c) \/ ClearScores(c)
    BY <2>2 DEF FindAssignment, CheckAccess, MatchRubric, ClearScores
  <2>3. CASE EnterScores(c) \/ MarkAssignment(c) \/ FindPair(c)
    BY <2>3 DEF EnterScores, MarkAssignment, FindPair
  <2>4. CASE NextReviewer(c)
    BY <2>4 DEF NextReviewer
  <2>5. CASE InsertAssignment(c) \/ ReadRound(c) \/ FindKey(c) \/ ReadMembers(c)
    BY <2>5 DEF InsertAssignment, ReadRound, FindKey, ReadMembers
  <2>6. CASE CompareEstate(c) \/ Commit(c) \/ GuardDemotion(c)
    BY <2>6 DEF CompareEstate, Commit, GuardDemotion
  <2> QED
    BY <2>1, <2>2, <2>3, <2>4, <2>5, <2>6 DEF ReviewStep
<1> QED
  BY <1>1, <1>2 DEF Domains, Apart, GoesOn, locals, others, AfterReview

LEMMA AccountMoves ==
  ASSUME Domains, NEW c \in Call, SignsIn(c)
  PROVE  Domains' /\ Apart(c) /\ GoesOn(c)
<1>1. Running(c) /\ UNCHANGED <<req, met>>
  BY DEF SignsIn, AccountStep, FindUser, CheckMember, CheckFounder, CreateUser, ResolvePurpose,
         InsertLink, Supersede, Regrant, Mail, ReadForUpsert, Upsert, EnsureUser, EnsureMember, RereadMember,
         LookupMember, UpdateRole, LookupLink, Consume, InsertSession, Die, Running, others
<1>2. /\ \E l : l # "idle" /\ pc' = [pc EXCEPT ![c] = l]
      /\ purpose' = purpose \/ \E u : purpose' = [purpose EXCEPT ![c] = u]
      /\ answer' = answer \/ \E a : answer' = [answer EXCEPT ![c] = a]
  <2> USE DEF Goto, Reply, locals
  <2>1. CASE FindUser(c) \/ CheckMember(c) \/ CheckFounder(c)
    BY <2>1 DEF FindUser, CheckMember, CheckFounder
  <2>2. CASE CreateUser(c) \/ ResolvePurpose(c) \/ InsertLink(c)
    BY <2>2 DEF CreateUser, ResolvePurpose, InsertLink
  <2>3. CASE Supersede(c) \/ Regrant(c) \/ Mail(c) \/ ReadForUpsert(c)
    BY <2>3 DEF Supersede, Regrant, Mail, ReadForUpsert
  <2>4. CASE Upsert(c) \/ EnsureUser(c) \/ EnsureMember(c)
    BY <2>4 DEF Upsert, AfterGrant, EnsureUser, EnsureMember
  <2>5. CASE RereadMember(c) \/ LookupMember(c) \/ UpdateRole(c)
    BY <2>5 DEF RereadMember, LookupMember, UpdateRole
  <2>6. CASE LookupLink(c) \/ Consume(c) \/ InsertSession(c) \/ Die(c)
    BY <2>6 DEF LookupLink, Consume, InsertSession, Die
  <2> QED
    BY <2>1, <2>2, <2>3, <2>4, <2>5, <2>6 DEF SignsIn, AccountStep
<1> QED
  BY <1>1, <1>2 DEF Domains, Apart, GoesOn, SignsIn

\* Every step is a move, the end of a link's time, or nothing.
LEMMA Moves ==
  ASSUME Domains, [Next]_vars
  PROVE  /\ Domains'
         /\ \/ \E c \in Call : Begins(c) /\ Apart(c) /\ ComesIn(c)
            \/ \E c \in Call : ReviewStep(c) /\ Apart(c) /\ GoesOn(c)
            \/ \E c \in Call : SignsIn(c) /\ Apart(c) /\ GoesOn(c)
            \/ \E d \in Call : Expire(d) /\ UNCHANGED <<reviewTables, held, writers>>
            \/ UNCHANGED vars
<1>1. ASSUME NEW d \in Call, Expire(d), UNCHANGED <<reviewTables, held, writers>> PROVE Domains'
  BY <1>1 DEF Expire, Domains, locals
<1>2. CASE UNCHANGED vars
  BY <1>2 DEF vars, Domains
<1>3. \/ \E c \in Call : Begins(c) \/ ReviewStep(c) \/ SignsIn(c)
      \/ \E d \in Call : Expire(d) /\ UNCHANGED <<reviewTables, held, writers>>
      \/ UNCHANGED vars
  BY NextCases DEF Begins, SignsIn, AccountMove
<1> QED
  BY <1>1, <1>2, <1>3, BeginMoves, ReviewMoves, AccountMoves

\* Who is in progress together has met, and who has met is not forgotten.
Overlap == \A c, d \in Call : c # d /\ Running(c) /\ Running(d) => {c, d} \in met

LEMMA MetStep ==
  ASSUME Domains, Overlap, [Next]_vars
  PROVE  /\ Overlap' /\ met \subseteq met'
         /\ \A c, d \in Call : {c, d} \in met' /\ {c, d} \notin met => pc[c] = "idle" \/ pc[d] = "idle"
<1>1. CASE UNCHANGED <<pc, met>>
  BY <1>1 DEF Overlap, Running
<1>2. ASSUME NEW c \in Call, Apart(c), GoesOn(c) PROVE Overlap' /\ met' = met
  BY <1>2 DEF Apart, GoesOn, Overlap, Running
<1>3. ASSUME NEW c \in Call, Apart(c), ComesIn(c)
      PROVE  /\ Overlap' /\ met \subseteq met'
             /\ \A x, y \in Call : {x, y} \in met' /\ {x, y} \notin met => x = c \/ y = c
  <2>1. ASSUME NEW x \in Call, NEW y \in Call, x # y, Running(x)', Running(y)'
        PROVE  {x, y} \in met'
    BY <1>3, <2>1 DEF Apart, ComesIn, Overlap, Running, FirstCall
  <2> QED
    BY <1>3, <2>1 DEF ComesIn, Overlap
<1> QED
  BY <1>1, <1>2, <1>3, Moves DEF Expire, ComesIn, others, vars

-----------------------------------------------------------------------------
(* The last link *)

\* A grant on the way to the mail is of the purpose its link has.
PurposeOf(c) ==
  /\ pc[c] \in {"consume", "session"} => req[c].op = "redeem"
  /\ pc[c] \in {"insert", "supersede"} /\ req[c].op = "signin" /\ req[c].want = "admin"
       => purpose[c] = "admin"
  /\ pc[c] \in {"regrant", "read", "write"} /\ req[c].op = "signin" => purpose[c] = "admin"

PurposeInv == \A c \in Call : PurposeOf(c)

LEMMA PurposeStep ==
  ASSUME Domains, PurposeInv, [Next]_vars PROVE PurposeInv'
<1> USE DEF PurposeOf
<1>1. CASE UNCHANGED <<pc, req, purpose>>
  BY <1>1 DEF PurposeInv
<1>2. ASSUME NEW c \in Call, Apart(c), PurposeOf(c)' PROVE PurposeInv'
  BY <1>2 DEF PurposeInv, Apart
<1>3. ASSUME NEW c \in Call, ComesIn(c) PROVE PurposeOf(c)'
  BY <1>3 DEF ComesIn, FirstCall
<1>4. ASSUME NEW c \in Call, ReviewStep(c) PROVE PurposeOf(c)'
  BY <1>4, ReviewMoves DEF AfterReview
<1>5. ASSUME NEW c \in Call, AccountStep(c) \/ Die(c) PROVE PurposeOf(c)'
  <2> USE DEF Domains, PurposeInv, Goto, Reply, locals
  <2>1. CASE FindUser(c) \/ CheckMember(c) \/ CheckFounder(c)
    BY <2>1 DEF FindUser, CheckMember, CheckFounder
  <2>2. CASE CreateUser(c) \/ InsertLink(c)
    BY <2>2 DEF CreateUser, InsertLink
  <2>3. CASE ResolvePurpose(c)
    BY <2>3, NoneAssumption DEF ResolvePurpose
  <2>4. CASE Supersede(c) \/ Regrant(c) \/ Mail(c) \/ ReadForUpsert(c)
    BY <2>4 DEF Supersede, Regrant, Mail, ReadForUpsert
  <2>5. CASE Upsert(c)
    BY <2>5 DEF Upsert, AfterGrant, Granted
  <2>6. CASE EnsureUser(c) \/ EnsureMember(c)
    BY <2>6 DEF EnsureUser, EnsureMember
  <2>7. CASE RereadMember(c) \/ LookupMember(c) \/ UpdateRole(c)
    BY <2>7 DEF RereadMember, LookupMember, UpdateRole
  <2>8. CASE LookupLink(c) \/ Consume(c) \/ InsertSession(c) \/ Die(c)
    BY <2>8 DEF LookupLink, Consume, InsertSession, Die
  <2> QED
    BY <1>5, <2>1, <2>2, <2>3, <2>4, <2>5, <2>6, <2>7, <2>8 DEF AccountStep
<1> HIDE DEF PurposeOf
<1> QED
  <2>1. \/ \E c \in Call : Apart(c) /\ PurposeOf(c)'
        \/ UNCHANGED <<pc, req, purpose>>
    BY <1>3, <1>4, <1>5, Moves DEF Expire, vars, locals, SignsIn
  <2> QED
    BY <2>1, <1>1, <1>2

\* Settled, but for what is still in progress
Serial(cs) ==
  /\ \A c \in cs : pc[c] = "done" => answer[c] # "lost"
  /\ \A c, d \in cs : {c, d} \notin met
  /\ \A d \in Call : pc[d] # "idle" /\ req[d].op = "redeem" => req[d].via \notin cs

\* Of links issued one after the other the last one works, from when it is put
\* and until the next one is.
LastOf(cs) ==
  Serial(cs) =>
    /\ \A c \in cs : pc[c] = "supersede" => Unused(c)
    /\ cs # {} /\ (\A c \in cs : pc[c] # "supersede")
         => \E c \in cs : Unused(c) /\ \A d \in cs : Unused(d) => d = c

LastInv == \A u \in Person, p \in Role, h \in BOOLEAN : LastOf(Issuers(u, p, h))

\* Nothing puts a series in order again.
LEMMA SerialBefore ==
  ASSUME Domains, Overlap, [Next]_vars, NEW cs, cs \subseteq Call,
         \A c \in cs : pc[c] # "idle", Serial(cs)'
  PROVE  Serial(cs)
<1>1. \A d \in Call : /\ pc[d] # "idle" => pc'[d] # "idle" /\ req'[d] = req[d]
                      /\ pc[d] = "done" => pc'[d] = "done" /\ answer'[d] = answer[d]
  BY Moves DEF Apart, ComesIn, GoesOn, Running, Expire, vars, FirstCall
<1> QED
  BY <1>1, MetStep DEF Serial

\* Links are put, superseded and consumed by these three, and by no other call.
LEMMA LinkKept ==
  ASSUME NEW c \in Call, SignsIn(c), ~InsertLink(c), ~Supersede(c), ~Consume(c)
  PROVE  link' = link
BY DEF SignsIn, AccountStep, FindUser, CheckMember, CheckFounder, CreateUser, ResolvePurpose,
   Regrant, Mail, ReadForUpsert, Upsert, EnsureUser, EnsureMember, RereadMember, LookupMember,
   UpdateRole, LookupLink, InsertSession, Die, tables

\* Who belongs to a series
LEMMA IssuersKept ==
  ASSUME Domains, LinkInv, PurposeInv, [Next]_vars,
         ~\E c \in Call : SignsIn(c) /\ InsertLink(c),
         NEW u \in Person, NEW p \in Role, NEW h \in BOOLEAN
  PROVE  /\ Issuers(u, p, h)' = Issuers(u, p, h)
         /\ \A c \in Issuers(u, p, h) : c \in Call /\ pc[c] # "idle" /\ link[c] # None
<1>1. \A c \in Call : link'[c] # None <=> link[c] # None
  <2>1. ASSUME NEW c \in Call, Supersede(c) PROVE \A d \in Call : link'[d] # None <=> link[d] # None
    BY <2>1, NoneAssumption DEF Supersede, OthersOf, SamePurpose
  <2>2. ASSUME NEW c \in Call, Consume(c) PROVE \A d \in Call : link'[d] # None <=> link[d] # None
    <3>1. link[req[c].via] # None
      BY <2>2 DEF Consume, LinkInv, Redeeming
    <3> QED
      BY <2>2, <3>1, NoneAssumption DEF Consume, LinkInv
  <2>3. ASSUME NEW c \in Call, Expire(c) PROVE \A d \in Call : link'[d] # None <=> link[d] # None
    BY <2>3, NoneAssumption DEF Expire, LinkInv
  <2>4. ASSUME NEW c \in Call, SignsIn(c), ~Supersede(c), ~Consume(c) PROVE link' = link
    BY <2>4, LinkKept
  <2>5. ASSUME NEW c \in Call, ReviewStep(c) PROVE link' = link
    BY <2>5, ReviewMoves DEF tables
  <2> QED
    BY <2>1, <2>2, <2>3, <2>4, <2>5, Moves DEF ComesIn, tables, vars
<1>2. ASSUME NEW c \in Call, link[c] # None PROVE req'[c] = req[c] /\ purpose'[c] = purpose[c]
  <2>1. pc[c] # "idle"
    BY <1>2 DEF LinkInv, Issuing
  <2>2. req'[c] = req[c]
    BY <2>1, Moves DEF Apart, ComesIn, GoesOn, Running, Expire, vars
  <2>3. ASSUME SignsIn(c) PROVE purpose'[c] = purpose[c]
    <3>1. CASE Upsert(c)
      <4>1. pc[c] = "write" /\ req[c].op = "signin"
        BY <3>1, <1>2 DEF Upsert, LinkInv, Issuing
      <4> QED
        BY <3>1, <4>1 DEF Upsert, Granted, PurposeInv, PurposeOf, Domains
    <3>2. ~(ResolvePurpose(c) \/ EnsureMember(c) \/ RereadMember(c))
      BY <1>2 DEF ResolvePurpose, EnsureMember, RereadMember, LinkInv, Issuing
    <3>3. CASE ~Upsert(c)
      BY <2>3, <3>2, <3>3 DEF SignsIn, AccountStep, FindUser, CheckMember, CheckFounder,
         CreateUser, InsertLink, Supersede, Regrant, Mail, ReadForUpsert, EnsureUser,
         LookupMember, UpdateRole, LookupLink, Consume, InsertSession, Die, locals
    <3> QED
      BY <3>1, <3>3
  <2>4. ASSUME ReviewStep(c) PROVE purpose' = purpose
    BY <2>4, ReviewMoves
  <2> QED
    BY <2>2, <2>3, <2>4, Moves DEF Apart, ComesIn, Expire, locals, vars
<1>3. ASSUME NEW c \in Call, link[c] # None
      PROVE  Subject(c)' = Subject(c) /\ Bound(c)' = Bound(c) /\ pc[c] # "idle"
  BY <1>2, <1>3 DEF Subject, Bound, LinkInv, Issuing
<1> QED
  BY <1>1, <1>2, <1>3 DEF Issuers

LEMMA LastInsert ==
  ASSUME Domains, Overlap, LinkInv, LastInv, NEW c \in Call, InsertLink(c), Apart(c), GoesOn(c),
         [Next]_vars, NEW u \in Person, NEW p \in Role, NEW h \in BOOLEAN
  PROVE  LastOf(Issuers(u, p, h))'
<1> DEFINE cs == Issuers(u, p, h)
<1>1. /\ pc[c] = "insert" /\ pc'[c] = "supersede" /\ link' = [link EXCEPT ![c] = "live"]
      /\ UNCHANGED <<req, purpose, met>> /\ DOMAIN link = Call
  BY DEF InsertLink, Goto, Domains, locals, GoesOn, LinkInv
<1>2. link[c] = None
  BY <1>1 DEF LinkInv, Issuing
<1>3. CASE c \in cs'
  <2>1. SUFFICES ASSUME Serial(cs)' PROVE LastOf(cs)'
    BY DEF LastOf
  <2>2. ASSUME NEW d \in cs', d # c PROVE pc'[d] # "supersede"
    <3>1. d \in Call /\ {c, d} \notin met
      BY <2>1, <2>2, <1>1, <1>3 DEF Serial, Issuers
    <3> QED
      BY <3>1, <2>2, <1>1 DEF Overlap, Running, Apart
  <2>3. Unused(c)' /\ pc'[c] = "supersede"
    BY <1>1 DEF Unused
  <2> QED
    BY <1>3, <2>2, <2>3 DEF LastOf
<1>4. CASE c \notin cs'
  <2>1. cs' = cs
    BY <1>1, <1>2, <1>4 DEF Issuers, Subject, Bound
  <2>2. \A d \in cs : d \in Call /\ d # c /\ pc[d] # "idle"
    BY <1>2 DEF Issuers, LinkInv, Issuing
  <2>3. \A d \in cs : (Unused(d)' <=> Unused(d)) /\ pc'[d] = pc[d]
    BY <2>2, <1>1 DEF Unused, Apart
  <2>4. LastOf(cs)
    BY DEF LastInv
  <2>5. \A d \in cs : d \in Call /\ pc[d] # "idle" /\ link'[d] = link[d] /\ pc'[d] = pc[d]
    BY <2>2, <1>1 DEF Apart
  <2>6. Serial(cs)' => Serial(cs)
    <3> HIDE DEF cs
    <3>1. cs \subseteq Call
      BY <2>2
    <3> QED
      BY <3>1, <2>1, <2>2, SerialBefore
  <2> QED
    BY <2>1, <2>3, <2>4, <2>6 DEF LastOf
<1> QED
  BY <1>3, <1>4

LEMMA LastSupersede ==
  ASSUME Domains, Overlap, LastInv, NEW c \in Call, Supersede(c), Apart(c), GoesOn(c),
         [Next]_vars, NEW u \in Person, NEW p \in Role, NEW h \in BOOLEAN,
         Issuers(u, p, h)' = Issuers(u, p, h),
         \A d \in Issuers(u, p, h) : d \in Call /\ pc[d] # "idle" /\ link[d] # None
  PROVE  LastOf(Issuers(u, p, h))'
<1> DEFINE cs == Issuers(u, p, h)
<1>1. /\ pc[c] = "supersede" /\ pc'[c] # "supersede" /\ UNCHANGED met
      /\ link' = [d \in Call |-> IF d \in OthersOf(c) THEN "used" ELSE link[d]]
  BY DEF Supersede, Goto, Domains, GoesOn
<1>2. LastOf(cs)
  BY DEF LastInv
<1>3. CASE c \in cs
  <2>1. SUFFICES ASSUME Serial(cs)' PROVE LastOf(cs)'
    BY DEF LastOf
  <2>2. Serial(cs)
    <3> HIDE DEF cs
    <3> QED
      BY <2>1, SerialBefore DEF cs
  <2>3. ASSUME NEW d \in cs, d # c PROVE pc'[d] # "supersede" /\ ~Unused(d)'
    <3>1. d \in Call /\ {c, d} \notin met
      BY <2>2, <2>3, <1>3 DEF Serial
    <3>2. pc'[d] # "supersede"
      BY <3>1, <2>3, <1>1 DEF Overlap, Running, Apart
    <3>3. d \in OthersOf(c)
      BY <2>3, <1>3, <3>1 DEF OthersOf, SamePurpose, Issuers
    <3> QED
      BY <3>1, <3>2, <3>3, <1>1 DEF Unused
  <2>4. Unused(c) /\ c \notin OthersOf(c)
    BY <1>1, <1>2, <1>3, <2>2 DEF LastOf, OthersOf
  <2>5. Unused(c)'
    BY <2>4, <1>1 DEF Unused
  <2> QED
    BY <1>1, <1>3, <2>3, <2>5 DEF LastOf
<1>4. CASE c \notin cs
  <2>1. ASSUME NEW d \in cs PROVE link'[d] = link[d] /\ pc'[d] = pc[d]
    <3>1. d \notin OthersOf(c)
      BY <1>4, <2>1 DEF OthersOf, SamePurpose, Issuers
    <3> QED
      BY <2>1, <3>1, <1>1, <1>4 DEF Apart
  <2>2. Serial(cs)' => Serial(cs)
    <3> HIDE DEF cs
    <3> QED
      BY SerialBefore DEF cs
  <2> QED
    BY <1>2, <2>1, <2>2 DEF LastOf, Unused
<1> QED
  BY <1>3, <1>4

LEMMA LastStep ==
  ASSUME Domains, Overlap, LinkInv, PurposeInv, LastInv, [Next]_vars
  PROVE  LastInv'
<1> SUFFICES ASSUME NEW u \in Person, NEW p \in Role, NEW h \in BOOLEAN
             PROVE  LastOf(Issuers(u, p, h))'
  BY DEF LastInv
<1>1. ASSUME NEW c \in Call, SignsIn(c), InsertLink(c) PROVE LastOf(Issuers(u, p, h))'
  BY <1>1, AccountMoves, LastInsert
<1>2. CASE ~\E c \in Call : SignsIn(c) /\ InsertLink(c)
  <2> DEFINE cs == Issuers(u, p, h)
  <2>1. cs' = cs /\ \A d \in cs : d \in Call /\ pc[d] # "idle" /\ link[d] # None
    BY <1>2, IssuersKept
  <2>2. ASSUME NEW c \in Call, SignsIn(c), Supersede(c) PROVE LastOf(cs)'
    BY <2>1, <2>2, AccountMoves, LastSupersede
  <2>3. CASE ~\E c \in Call : SignsIn(c) /\ Supersede(c)
    <3>1. LastOf(cs)
      BY DEF LastInv
    <3> HIDE DEF cs
    <3>2. ASSUME Serial(cs)', NEW d \in cs PROVE Unused(d)' <=> Unused(d)
      <4>1. ASSUME NEW c \in Call, Consume(c), Apart(c), GoesOn(c) PROVE link'[d] = link[d]
        <5>1. pc'[c] # "idle" /\ req'[c].op = "redeem"
          BY <4>1 DEF Consume, GoesOn, PurposeInv, PurposeOf
        <5>2. req'[c].via # d
          BY <3>2, <5>1, <2>1 DEF Serial
        <5> QED
          BY <4>1, <5>2, <2>1 DEF Consume, GoesOn, LinkInv
      <4>2. ASSUME NEW c \in Call, Expire(c) PROVE Unused(d)' <=> Unused(d)
        BY <4>2, <2>1, <3>2 DEF Expire, Unused, LinkInv
      <4>3. ASSUME NEW c \in Call, SignsIn(c), ~Consume(c) PROVE link' = link
        BY <4>3, <1>2, <2>3, LinkKept
      <4>4. ASSUME NEW c \in Call, ReviewStep(c) PROVE link' = link
        BY <4>4, ReviewMoves DEF tables
      <4> QED
        BY <4>1, <4>2, <4>3, <4>4, Moves DEF Unused, ComesIn, tables, vars
    <3>3. ASSUME Serial(cs)', NEW d \in cs PROVE pc'[d] = "supersede" <=> pc[d] = "supersede"
      <4>1. ASSUME SignsIn(d), Apart(d), GoesOn(d) PROVE pc'[d] = "supersede" <=> pc[d] = "supersede"
        <5>1. CASE Die(d)
          <6>1. pc'[d] = "done" /\ answer'[d] = "lost"
            BY <5>1, <2>1 DEF Die, Reply, Goto, Domains
          <6> QED
            BY <3>3, <6>1, <2>1 DEF Serial
        <5>2. CASE ~Die(d)
          <6>0. d \in Call
            BY <2>1, <3>3
          <6> USE <6>0 DEF Domains, Goto, Reply
          <6>1. CASE FindUser(d) \/ CheckMember(d) \/ CheckFounder(d) \/ CreateUser(d)
            BY <6>1 DEF FindUser, CheckMember, CheckFounder, CreateUser
          <6>2. CASE ResolvePurpose(d) \/ Regrant(d) \/ Mail(d) \/ ReadForUpsert(d)
            BY <6>2 DEF ResolvePurpose, Regrant, Mail, ReadForUpsert
          <6>3. CASE Upsert(d) \/ EnsureUser(d) \/ EnsureMember(d) \/ RereadMember(d)
            BY <6>3 DEF Upsert, AfterGrant, EnsureUser, EnsureMember, RereadMember
          <6>4. CASE LookupMember(d) \/ UpdateRole(d) \/ LookupLink(d) \/ Consume(d)
            BY <6>4 DEF LookupMember, UpdateRole, LookupLink, Consume
          <6>5. CASE InsertSession(d)
            BY <6>5 DEF InsertSession
          <6> QED
            BY <1>2, <2>1, <2>3, <4>1, <5>2, <6>1, <6>2, <6>3, <6>4, <6>5
               DEF SignsIn, AccountStep
        <5> QED
          BY <5>1, <5>2
      <4>2. ASSUME ReviewStep(d) PROVE pc[d] # "supersede" /\ pc'[d] # "supersede"
        <5>1. pc[d] # "supersede"
          BY <4>2 DEF ReviewStep, UpdateRound, ReadCriteria, CountScores, DropCriteria,
             PutCriteria, FindAssignment, CheckAccess, MatchRubric, ClearScores, EnterScores,
             MarkAssignment, NextReviewer, FindPair, InsertAssignment, ReadRound, FindKey,
             ReadMembers, CompareEstate, Commit, GuardDemotion
        <5> QED
          BY <4>2, <5>1, <2>1, ReviewMoves DEF AfterReview
      <4> QED
        BY <4>1, <4>2, <2>1, Moves DEF Apart, ComesIn, Expire, vars
    <3>4. Serial(cs)' => Serial(cs)
      BY <2>1, SerialBefore
    <3>5. LastOf(cs)'
      BY <2>1, <3>1, <3>2, <3>3, <3>4 DEF LastOf
    <3> QED
      BY <3>5 DEF cs
  <2> QED
    BY <2>2, <2>3
<1> QED
  BY <1>1, <1>2

SeriesInv == LinkInv /\ Domains /\ Overlap /\ PurposeInv /\ LastInv

LEMMA SeriesStart == Init => SeriesInv
<1> SUFFICES ASSUME Init PROVE SeriesInv
  OBVIOUS
<1>1. /\ pc = [c \in Call |-> "idle"] /\ link = [c \in Call |-> None]
      /\ req = [c \in Call |-> None] /\ answer = [c \in Call |-> None]
      /\ purpose = [c \in Call |-> None] /\ held = [c \in Call |-> None]
      /\ mailed = {} /\ sessions = {}
  BY DEF Init, AccountInit
<1>2. LinkInv
  BY <1>1 DEF LinkInv, Issuing, Redeeming, Holds
<1>3. Domains /\ Overlap /\ PurposeInv
  BY <1>1 DEF Domains, Overlap, Running, PurposeInv, PurposeOf
<1>4. LastInv
  BY <1>1 DEF LastInv, LastOf, Issuers
<1> QED
  BY <1>2, <1>3, <1>4 DEF SeriesInv

(* Of the links issued to somebody for one purpose, of which none has been  *)
(* redeemed, exactly one works, for any number of requests: when none of    *)
(* those that issued them died and no two were in progress together.        *)
THEOREM NewestLink == Spec => []LastLinkWorks
<1>1. SeriesInv /\ [Next]_vars => SeriesInv'
  <2>1. Domains /\ [Next]_vars => Domains'
    BY Moves
  <2> QED
    BY <2>1, LinkStep, MetStep, PurposeStep, LastStep DEF SeriesInv
<1>2. SeriesInv => LastLinkWorks
  <2> SUFFICES ASSUME LastInv, NEW u \in Person, NEW p \in Role, NEW h \in BOOLEAN,
                      Issuers(u, p, h) # {}, Settled(Issuers(u, p, h))
               PROVE  Cardinality({c \in Issuers(u, p, h) : Unused(c)}) = 1
    BY DEF LastLinkWorks, SeriesInv
  <2> DEFINE cs == Issuers(u, p, h)
  <2>1. LastOf(cs)
    BY DEF LastInv
  <2> HIDE DEF cs
  <2>2. Serial(cs) /\ cs # {} /\ \A c \in cs : pc[c] # "supersede"
    BY DEF Serial, Settled, cs
  <2>3. PICK c \in cs : Unused(c) /\ \A d \in cs : Unused(d) => d = c
    BY <2>1, <2>2 DEF LastOf
  <2>4. {d \in cs : Unused(d)} = {c}
    BY <2>3
  <2> QED
    BY <2>4, FS_Singleton DEF cs
<1> QED
  BY <1>1, <1>2, SeriesStart, PTL DEF Spec

-----------------------------------------------------------------------------
(* Names of rows.  A row is named by the request that inserted it, and a     *)
(* request inserts one row of a slot at most: a name that has been used for  *)
(* a slot is used for good, and no other row of it is given that name.       *)

Used(c, p) ==
  \/ c = None
  \/ c \in Call /\ pc[c] = "done"
  \/ /\ c \in Call /\ pc[c] \in {"reviewer", "pair", "place"}
     /\ p[1] = req[c].sub /\ p[2] \notin held[c].left
     /\ pc[c] # "reviewer" => p[2] # held[c].now

\* What a request at each of its calls is
Kind(c) ==
  /\ pc[c] \in {"row", "access", "clear", "mark"} => req[c].op \in {"score", "abstain"}
  /\ pc[c] \in {"rubric", "enter"} => req[c].op = "score"
  /\ pc[c] \in {"header", "key", "members", "estate", "commit"} => req[c].op = "bulk"
  /\ pc[c] \in {"clear", "enter"} /\ req[c].op = "score" => req[c].given # {}
  /\ pc[c] \in {"pair", "place"} => held[c].now \notin held[c].left

\* A request speaks of rows there are or have been.
NamesRows(rs) == /\ rs \in [Slot -> Row \union {None}]
                 /\ \A p \in Slot : rs[p] # None => Used(rs[p].by, p)

Knows(c) ==
  pc[c] # "idle" =>
    /\ req[c].op \in {"score", "abstain"} => req[c].on \in Slot /\ Used(req[c].by, req[c].on)
    /\ req[c].op = "bulk" => NamesRows(req[c].token.rows)

NamesInv ==
  /\ Domains
  /\ \A c \in Call : Kind(c) /\ Knows(c)
  /\ NamesRows(row)
  /\ \A s \in scores : <<s[1], s[2]>> \in Slot /\ Used(s[3], <<s[1], s[2]>>)

ReviewCalls == {"row", "access", "rubric", "clear", "enter", "mark", "reviewer", "pair", "place",
                "header", "key", "members", "estate", "commit"}

\* The requests of the accounts stay apart from those of the review.
LEMMA SignsApart ==
  ASSUME Domains, NEW c \in Call, SignsIn(c)
  PROVE  pc'[c] \notin ReviewCalls /\ (pc[c] \in ReviewCalls => pc'[c] = "done")
<1> USE DEF Domains, Goto, Reply, ReviewCalls
<1>1. CASE FindUser(c) \/ CheckMember(c) \/ CheckFounder(c) \/ CreateUser(c)
  BY <1>1 DEF FindUser, CheckMember, CheckFounder, CreateUser
<1>2. CASE ResolvePurpose(c) \/ InsertLink(c) \/ Supersede(c) \/ Regrant(c) \/ Mail(c)
  BY <1>2 DEF ResolvePurpose, InsertLink, Supersede, Regrant, Mail
<1>3. CASE ReadForUpsert(c) \/ Upsert(c) \/ EnsureUser(c) \/ EnsureMember(c) \/ RereadMember(c)
  BY <1>3 DEF ReadForUpsert, Upsert, AfterGrant, EnsureUser, EnsureMember, RereadMember
<1>4. CASE LookupMember(c) \/ UpdateRole(c) \/ LookupLink(c) \/ Consume(c) \/ InsertSession(c)
  BY <1>4 DEF LookupMember, UpdateRole, LookupLink, Consume, InsertSession
<1>5. CASE Die(c)
  BY <1>5 DEF Die
<1> QED
  BY <1>1, <1>2, <1>3, <1>4, <1>5 DEF SignsIn, AccountStep

LEMMA SignsDie ==
  ASSUME Domains, NEW c \in Call, SignsIn(c), pc[c] \in ReviewCalls
  PROVE  pc'[c] = "done" /\ answer'[c] = "lost"
<1>1. Die(c)
  BY DEF SignsIn, ReviewCalls, AccountStep, FindUser, CheckMember, CheckFounder, CreateUser,
         ResolvePurpose, InsertLink, Supersede, Regrant, Mail, ReadForUpsert, Upsert, EnsureUser,
         EnsureMember, RereadMember, LookupMember, UpdateRole, LookupLink, Consume, InsertSession
<1> QED
  BY <1>1 DEF Die, Reply, Goto, Domains

LEMMA UsedStep ==
  ASSUME Domains, [Next]_vars, NEW n, NEW p, Used(n, p)
  PROVE  Used(n, p)'
<1>1. CASE n = None
  BY <1>1 DEF Used
<1>2. CASE n \in Call /\ UNCHANGED <<pc[n], req[n], held[n]>>
  BY <1>2 DEF Used
<1>3. ASSUME n \in Call, SignsIn(n), GoesOn(n) PROVE Used(n, p)'
  <2>1. n # None /\ pc[n] \in ReviewCalls
    BY <1>3, NoneAssumption DEF Used, GoesOn, Running, ReviewCalls
  <2> QED
    BY <1>3, <2>1, SignsApart DEF Used
<1>4. ASSUME n \in Call, ReviewStep(n), GoesOn(n) PROVE Used(n, p)'
  <2>1. /\ pc[n] \in {"reviewer", "pair", "place"} /\ UNCHANGED req
        /\ p[1] = req[n].sub /\ p[2] \notin held[n].left
        /\ pc[n] # "reviewer" => p[2] # held[n].now
    BY <1>4, NoneAssumption DEF Used, GoesOn, Running
  <2>2. NextReviewer(n) \/ FindPair(n) \/ InsertAssignment(n)
    BY <1>4, <2>1 DEF ReviewStep, UpdateRound, ReadCriteria, CountScores, DropCriteria,
       PutCriteria, FindAssignment, CheckAccess, MatchRubric, ClearScores, EnterScores,
       MarkAssignment, ReadRound, FindKey, ReadMembers, CompareEstate, Commit, GuardDemotion
  <2> USE DEF Goto, Reply, Carry, Domains
  <2>3. CASE NextReviewer(n)
    BY <1>4, <2>1, <2>3 DEF NextReviewer, Used
  <2>4. CASE FindPair(n)
    BY <1>4, <2>1, <2>4 DEF FindPair, Used
  <2>5. CASE InsertAssignment(n)
    BY <1>4, <2>1, <2>5 DEF InsertAssignment, Used
  <2> QED
    BY <2>2, <2>3, <2>4, <2>5
<1>5. n = None \/ (n \in Call /\ pc[n] # "idle")
  BY DEF Used
<1> QED
  BY <1>1, <1>2, <1>3, <1>4, <1>5, Moves DEF Apart, ComesIn, Expire, vars, locals

\* With what a request comes in
LEMMA Opens ==
  ASSUME Domains, NEW c \in Call, Begins(c)
  PROVE  \/ /\ pc'[c] = "row" /\ req'[c].op \in {"score", "abstain"}
            /\ req'[c].on \in Slot /\ row[req'[c].on] # None /\ req'[c].by = row[req'[c].on].by
         \/ /\ pc'[c] = "header" /\ req'[c].op = "bulk"
            /\ \/ req'[c].token.rows = row /\ req'[c].token.question \in Question
               \/ \E x \in Call : /\ pc[x] # "idle" /\ req[x].op = "bulk"
                                  /\ req'[c].token = req[x].token
         \/ /\ \/ pc'[c] = "reviewer" /\ held'[c].left \subseteq Person
               \/ pc'[c] \notin ReviewCalls
            /\ req'[c].op \notin {"score", "abstain", "bulk"}
            /\ req'[c].op \in {"invite", "role"} => req'[c].want \in Role
<1>1. ASSUME NEW r, NEW first, Begin(c, r, first) PROVE pc'[c] = first /\ req'[c] = r
  BY <1>1 DEF Begin, Goto, Domains
<1>2. CASE UpsertRubric(c)
  <2>1. PICK r : r.op = "rubric" /\ Begin(c, r, "round")
    <3>1. PICK old, new, closes, fits :
            Begin(c, [op |-> "rubric", keep |-> old \union new, named |-> old,
                      closed |-> closes, fits |-> fits], "round")
      BY <1>2 DEF UpsertRubric, BeginAsAdmin, BeginReview
    <3> DEFINE r == [op |-> "rubric", keep |-> old \union new, named |-> old,
                     closed |-> closes, fits |-> fits]
    <3>2. r.op = "rubric"
      OBVIOUS
    <3> HIDE DEF r
    <3> QED
      BY <3>1, <3>2 DEF r
  <2> QED
    BY <1>1, <2>1 DEF ReviewCalls
<1>3. CASE Evaluate(c)
  <2>1. PICK p \in Slot, op \in {"score", "abstain"}, fits \in BOOLEAN :
          /\ row[p] # None
          /\ Begin(c, [op |-> op, on |-> p, by |-> row[p].by, given |-> rubric,
                       fits |-> fits], "row")
    BY <1>3 DEF Evaluate, BeginReview
  <2> QED
    BY <1>1, <2>1
<1>4. CASE Assign(c)
  <2>1. PICK s \in Submission, us \in SUBSET Person :
          /\ Begin(c, [op |-> "assign", sub |-> s], "reviewer")
          /\ held' = [held EXCEPT ![c] = [left |-> us, now |-> None]]
    BY <1>4 DEF Assign, BeginAsAdmin, BeginReview, Carry
  <2>2. held'[c].left \subseteq Person
    BY <2>1 DEF Domains
  <2> QED
    BY <1>1, <2>1, <2>2
<1>5. CASE BulkAssign(c)
  <2>1. PICK t \in {Estate(q) : q \in Question}
               \union {req[d].token : d \in {x \in Call : pc[x] # "idle" /\ req[x].op = "bulk"}} :
               Begin(c, [op |-> "bulk", token |-> t], "header")
    BY <1>5 DEF BulkAssign, BeginAsAdmin, BeginReview
  <2>2. \/ t.rows = row /\ t.question \in Question
        \/ \E x \in Call : pc[x] # "idle" /\ req[x].op = "bulk" /\ t = req[x].token
    BY <2>1 DEF Estate
  <2>3. pc'[c] = "header" /\ req'[c] = [op |-> "bulk", token |-> t]
    BY <1>1, <2>1
  <2> QED
    BY <2>2, <2>3
<1>6. CASE AccountBegin(c)
  <2>1. CASE AskForLink(c)
    <3>1. PICK u, p, h : Begin(c, [op |-> "signin", who |-> u, want |-> p, here |-> h], "find")
      BY <2>1 DEF AskForLink
    <3> QED
      BY <1>1, <3>1 DEF ReviewCalls
  <2>2. CASE Provision(c)
    <3>1. PICK u : Begin(c, [op |-> "provision", who |-> u], IF u \in users THEN "member" ELSE "create")
      BY <2>2 DEF Provision
    <3> QED
      BY <1>1, <3>1 DEF ReviewCalls
  <2>3. CASE Invite(c)
    <3>1. PICK u \in Person, r \in Role : Begin(c, [op |-> "invite", who |-> u, want |-> r], "account")
      BY <2>3 DEF Invite
    <3> QED
      BY <1>1, <3>1 DEF ReviewCalls
  <2>4. CASE ChangeRole(c)
    <3>1. PICK u \in Person, r \in Role : Begin(c, [op |-> "role", who |-> u, want |-> r], "lookup")
      BY <2>4 DEF ChangeRole
    <3> QED
      BY <1>1, <3>1 DEF ReviewCalls
  <2>5. CASE Redeem(c)
    <3>1. PICK d : Begin(c, [op |-> "redeem", via |-> d], "lookup")
      BY <2>5 DEF Redeem
    <3> QED
      BY <1>1, <3>1 DEF ReviewCalls
  <2> QED
    BY <1>6, <2>1, <2>2, <2>3, <2>4, <2>5 DEF AccountBegin
<1> QED
  BY <1>2, <1>3, <1>4, <1>5, <1>6 DEF Begins, ReviewBegin

LEMMA KindStep ==
  ASSUME Domains, \A c \in Call : Kind(c), [Next]_vars, NEW d \in Call
  PROVE  Kind(d)'
<1>1. CASE UNCHANGED <<pc[d], req[d], held[d]>>
  BY <1>1 DEF Kind
<1>2. ASSUME Begins(d) PROVE Kind(d)'
  <2>1. \/ pc'[d] = "row" /\ req'[d].op \in {"score", "abstain"}
        \/ pc'[d] = "header" /\ req'[d].op = "bulk"
        \/ pc'[d] = "reviewer"
        \/ pc'[d] \notin ReviewCalls
    BY <1>2, Opens
  <2> QED
    BY <2>1 DEF Kind, ReviewCalls
<1>3. ASSUME SignsIn(d) PROVE Kind(d)'
  BY <1>3, SignsApart DEF ReviewCalls, Kind
<1>4. ASSUME ReviewStep(d) PROVE Kind(d)'
  <2>0. UNCHANGED req /\ Kind(d)
    BY <1>4, ReviewMoves DEF GoesOn
  <2> USE DEF Goto, Reply, Carry, Domains, Kind
  <2>1. CASE UpdateRound(d) \/ ReadCriteria(d) \/ CountScores(d) \/ DropCriteria(d) \/ PutCriteria(d)
    BY <2>0, <2>1 DEF UpdateRound, ReadCriteria, CountScores, DropCriteria, PutCriteria, reviewTables
  <2>2. CASE FindAssignment(d) \/ CheckAccess(d)
    BY <2>0, <2>2 DEF FindAssignment, CheckAccess
  <2>3. CASE MatchRubric(d) \/ ClearScores(d)
    BY <2>0, <2>3 DEF MatchRubric, ClearScores
  <2>4. CASE EnterScores(d) \/ MarkAssignment(d) \/ FindPair(d)
    BY <2>0, <2>4 DEF EnterScores, MarkAssignment, FindPair
  <2>5. CASE NextReviewer(d)
    BY <2>0, <2>5 DEF NextReviewer
  <2>6. CASE InsertAssignment(d) \/ ReadRound(d) \/ FindKey(d) \/ ReadMembers(d)
    BY <2>0, <2>6 DEF InsertAssignment, ReadRound, FindKey, ReadMembers
  <2>7. CASE CompareEstate(d) \/ Commit(d) \/ GuardDemotion(d)
    BY <2>0, <2>7 DEF CompareEstate, Commit, GuardDemotion
  <2> QED
    BY <1>4, <2>1, <2>2, <2>3, <2>4, <2>5, <2>6, <2>7 DEF ReviewStep
<1> QED
  BY <1>1, <1>2, <1>3, <1>4, Moves DEF Apart, Expire, vars, locals

\* Where a request is about to put a row
Puts(c, p) == \/ pc[c] = "place" /\ p = <<req[c].sub, held[c].now>>
              \/ pc[c] = "commit" /\ p \in PlanOf(c).add

\* Rows are kept with their names, or are made with a name not used before.
LEMMA RowsMade ==
  ASSUME NamesInv, [Next]_vars, NEW p \in Slot, row'[p] # None
  PROVE  \/ row[p] # None /\ row'[p].by = row[p].by
         \/ \E c \in Call : /\ row'[p] = NewRow(c) /\ ~Used(c, p) /\ Used(c, p)'
                           /\ Puts(c, p) /\ UNCHANGED <<role, demoter>>
<1>1. CASE row' = row
  BY <1>1
<1>2. ASSUME NEW c \in Call, MarkAssignment(c) PROVE row[p] # None /\ row'[p].by = row[p].by
  <2>1. CASE p # req[c].on \/ row' = row
    BY <1>2, <2>1 DEF MarkAssignment, NamesInv, NamesRows
  <2>2. CASE p = req[c].on /\ row' # row
    BY <1>2, <2>2 DEF MarkAssignment, Mine, NamesInv, NamesRows
  <2> QED
    BY <2>1, <2>2
<1>3. ASSUME NEW c \in Call, InsertAssignment(c), Apart(c), GoesOn(c), row'[p] # row[p]
      PROVE  row'[p] = NewRow(c) /\ ~Used(c, p) /\ Used(c, p)' /\ Puts(c, p)
  <2>1. /\ pc[c] = "place" /\ pc'[c] = "reviewer" /\ UNCHANGED <<req, held>>
        /\ p = <<req[c].sub, held[c].now>> /\ row'[p] = NewRow(c)
    BY <1>3 DEF InsertAssignment, Goto, NamesInv, NamesRows, Domains, GoesOn
  <2>2. held[c].now \notin held[c].left
    BY <2>1 DEF NamesInv, Kind
  <2> QED
    BY <2>1, <2>2, NoneAssumption DEF Used, Puts
<1>4. ASSUME NEW c \in Call, Commit(c), row'[p] # row[p], row'[p] # None
      PROVE  row'[p] = NewRow(c) /\ ~Used(c, p) /\ Used(c, p)' /\ Puts(c, p)
  <2>1. /\ pc[c] = "commit" /\ pc'[c] = "done" /\ row'[p] = NewRow(c)
        /\ p \in PlanOf(c).add
    BY <1>4 DEF Commit, Reply, Goto, NamesInv, Domains
  <2> QED
    BY <2>1, NoneAssumption DEF Used, Puts
<1>5. ASSUME NEW c \in Call, ReviewStep(c), ~Commit(c), ~InsertAssignment(c), ~MarkAssignment(c)
      PROVE  row' = row
  BY <1>5 DEF ReviewStep, UpdateRound, ReadCriteria, CountScores, DropCriteria, PutCriteria,
              FindAssignment, CheckAccess, MatchRubric, ClearScores, EnterScores,
              NextReviewer, FindPair, ReadRound, FindKey, ReadMembers,
              CompareEstate, GuardDemotion, reviewTables
<1>6. row' = row \/ \E c \in Call : ReviewStep(c) /\ Apart(c) /\ GoesOn(c)
  BY Moves DEF NamesInv, ComesIn, SignsIn, reviewTables, vars
<1>7. CASE row'[p] = row[p]
  BY <1>7
<1>8. CASE row'[p] # row[p]
  <2>1. PICK c \in Call : ReviewStep(c) /\ Apart(c) /\ GoesOn(c)
    BY <1>6, <1>8
  <2>2. Commit(c) \/ InsertAssignment(c) \/ MarkAssignment(c)
    BY <2>1, <1>5, <1>8
  <2>3. UNCHANGED <<role, demoter>>
    BY <2>1, ReviewMoves DEF NamesInv, tables
  <2> QED
    BY <2>1, <2>2, <2>3, <1>2, <1>3, <1>4, <1>8
<1> QED
  BY <1>7, <1>8

\* Scores are only entered, with the name of a row.
LEMMA ScoresMade ==
  ASSUME Domains, [Next]_vars, NEW s \in scores', s \notin scores
  PROVE  \E c \in Call : /\ EnterScores(c)
                         /\ \E k : s = <<req[c].on[1], req[c].on[2], req[c].by, k>>
<1>1. ASSUME NEW c \in Call, EnterScores(c)
      PROVE  \E k : s = <<req[c].on[1], req[c].on[2], req[c].by, k>>
  BY <1>1 DEF EnterScores
<1>2. ASSUME NEW c \in Call, ReviewStep(c), ~EnterScores(c) PROVE FALSE
  <2>1. scores' \subseteq scores
    BY <1>2 DEF ReviewStep, UpdateRound, ReadCriteria, CountScores, DropCriteria, PutCriteria,
                FindAssignment, CheckAccess, MatchRubric, ClearScores, MarkAssignment,
                NextReviewer, FindPair, InsertAssignment, ReadRound, FindKey, ReadMembers,
                CompareEstate, Commit, GuardDemotion, reviewTables
  <2> QED
    BY <2>1
<1>3. \E c \in Call : ReviewStep(c)
  BY Moves DEF ComesIn, SignsIn, reviewTables, vars
<1> QED
  BY <1>1, <1>2, <1>3

LEMMA NamesStep ==
  ASSUME NamesInv, [Next]_vars PROVE NamesInv'
<1>1. Domains /\ Domains' /\ \A c \in Call : Kind(c)'
  BY Moves, KindStep DEF NamesInv
<1>2. \A n, p : Used(n, p) => Used(n, p)'
  BY <1>1, UsedStep
<1>3. ASSUME NEW d \in Call PROVE Knows(d)'
  <2>1. CASE UNCHANGED req /\ pc[d] # "idle"
    BY <1>1, <2>1, UsedStep DEF Knows, NamesInv, NamesRows
  <2>2. CASE UNCHANGED <<req[d], pc[d]>>
    BY <1>1, <2>2, UsedStep DEF Knows, NamesInv, NamesRows
  <2>3. ASSUME Begins(d) PROVE Knows(d)'
    <3>1. CASE /\ pc'[d] = "row" /\ req'[d].op \in {"score", "abstain"}
               /\ req'[d].on \in Slot /\ row[req'[d].on] # None
               /\ req'[d].by = row[req'[d].on].by
      <4>1. Used(row[req'[d].on].by, req'[d].on)
        BY <3>1 DEF NamesInv, NamesRows
      <4>2. PICK n, p : n = req'[d].by /\ p = req'[d].on
        OBVIOUS
      <4>3. Used(n, p)'
        BY <3>1, <4>1, <4>2, <1>2
      <4> QED
        BY <3>1, <4>2, <4>3 DEF Knows
    <3>2. CASE pc'[d] = "header" /\ req'[d].op = "bulk" /\ req'[d].token.rows = row
      BY <3>2, <1>1, UsedStep DEF Knows, NamesInv, NamesRows
    <3>3. CASE /\ pc'[d] = "header" /\ req'[d].op = "bulk"
               /\ \E x \in Call : /\ pc[x] # "idle" /\ req[x].op = "bulk"
                                  /\ req'[d].token = req[x].token
      BY <3>3, <1>1, UsedStep DEF Knows, NamesInv, NamesRows
    <3>4. CASE req'[d].op \notin {"score", "abstain", "bulk"}
      BY <3>4 DEF Knows
    <3> QED
      BY <1>1, <2>3, <3>1, <3>2, <3>3, <3>4, Opens
  <2> QED
    BY <1>1, <2>1, <2>2, <2>3, Moves DEF Apart, ComesIn, GoesOn, Running, Expire, vars
<1>4. NamesRows(row)'
  <2>1. row' \in [Slot -> Row \union {None}]
    BY RowStep DEF NamesInv, NamesRows, RowTypes
  <2>2. ASSUME NEW p \in Slot, row'[p] # None PROVE Used(row[p].by, p)'
    <3>1. CASE row[p] # None /\ row'[p].by = row[p].by
      <4>1. PICK n : n = row[p].by
        OBVIOUS
      <4>2. Used(n, p)'
        BY <3>1, <4>1, <1>2 DEF NamesInv, NamesRows
      <4> QED
        BY <3>1, <4>1, <4>2
    <3>2. CASE \E c \in Call : row'[p] = NewRow(c) /\ Used(c, p)'
      BY <3>2 DEF NewRow, Used
    <3> QED
      BY <2>2, <3>1, <3>2, RowsMade
  <2> QED
    BY <2>1, <2>2 DEF NamesRows
<1>5. ASSUME NEW s \in scores' PROVE <<s[1], s[2]>> \in Slot /\ Used(s[3], <<s[1], s[2]>>)'
  <2>1. CASE s \in scores
    BY <2>1, <1>1, UsedStep DEF NamesInv
  <2>2. CASE s \notin scores
    <3>1. PICK c \in Call : EnterScores(c) /\ \E k : s = <<req[c].on[1], req[c].on[2], req[c].by, k>>
      BY <1>1, <2>2, ScoresMade
    <3>2. pc[c] = "enter" /\ req[c].op = "score"
      BY <3>1 DEF EnterScores, NamesInv, Kind
    <3>3. req[c].on \in Slot /\ Used(req[c].by, req[c].on)
      BY <3>2 DEF NamesInv, Knows
    <3>4. <<s[1], s[2]>> = req[c].on /\ s[3] = req[c].by
      BY <3>1, <3>3 DEF Slot
    <3> QED
      BY <1>1, <3>3, <3>4, UsedStep
  <2> QED
    BY <2>1, <2>2
<1> QED
  BY <1>1, <1>3, <1>4, <1>5 DEF NamesInv

-----------------------------------------------------------------------------
(* Who writes to a row *)

WroteInv ==
  /\ writers \in [Slot -> SUBSET Call]
  /\ \A p \in Slot : \A c \in writers[p] :
       pc[c] \in {"enter", "mark", "done"} /\ (pc[c] # "done" => req[c].on = p)
  /\ \A c \in Call : pc[c] \in {"enter", "mark"} /\ Mine(c) => c \in writers[req[c].on]

\* Whose row is no longer pending when it is to be torn out has been written to
\* by a request the committing one has met.
SpokenFor(c) ==
  pc[c] = "commit" =>
    \A p \in Slot :
      LET old == req[c].token.rows[p] IN
      old # None /\ old.status = "pending" /\ row[p] # None /\ row[p].by = old.by
        => row[p].status = "pending" \/ \E d \in writers[p] : {c, d} \in met

WritesReview(c) == ClearScores(c) \/ EnterScores(c) \/ MarkAssignment(c)

\* What a step makes of the writers of a slot
LEMMA WritersKept ==
  ASSUME Domains, [Next]_vars,
         ~\E c \in Call : /\ ReviewStep(c)
                          /\ WritesReview(c) \/ Commit(c) \/ InsertAssignment(c)
  PROVE  UNCHANGED <<row, scores, writers>>
<1>1. ASSUME NEW c \in Call, ReviewStep(c) PROVE UNCHANGED <<row, scores, writers>>
  BY <1>1 DEF WritesReview, ReviewStep, UpdateRound, ReadCriteria, CountScores, DropCriteria,
              PutCriteria, FindAssignment, CheckAccess, MatchRubric, NextReviewer, FindPair, ReadRound, FindKey,
              ReadMembers, CompareEstate, GuardDemotion, reviewTables
<1> QED
  BY <1>1, Moves DEF ComesIn, SignsIn, reviewTables, vars

LEMMA WritersMade ==
  ASSUME NamesInv, WroteInv, [Next]_vars
  PROVE  /\ writers' \in [Slot -> SUBSET Call]
         /\ \A p \in Slot : \A c \in writers'[p] :
              \/ c \in writers[p]
              \/ c \in Call /\ ReviewStep(c) /\ WritesReview(c) /\ req[c].on = p
              \/ c \in Call /\ ReviewStep(c) /\ Commit(c)
<1>1. CASE UNCHANGED writers
  BY <1>1 DEF WroteInv
<1>2. ASSUME NEW c \in Call, WritesReview(c), ~UNCHANGED writers
      PROVE  /\ writers' \in [Slot -> SUBSET Call]
             /\ \A p \in Slot : \A d \in writers'[p] :
                  d \in writers[p] \/ (d = c /\ req[c].on = p)
  <2>1. CASE writers' = [writers EXCEPT ![req[c].on] = @ \union {c}]
    BY <2>1 DEF WroteInv
  <2>2. CASE writers' = [writers EXCEPT ![req[c].on] =
                           {d \in @ : Mine(c) => {c, d} \in met} \union {c}]
    BY <2>2 DEF WroteInv
  <2> QED
    BY <1>2, <2>1, <2>2 DEF WritesReview, ClearScores, EnterScores, MarkAssignment, Wrote, Afresh
<1>3. ASSUME NEW c \in Call, Commit(c), ~UNCHANGED writers
      PROVE  /\ writers' \in [Slot -> SUBSET Call]
             /\ \A p \in Slot : writers'[p] \subseteq writers[p] \union {c}
  <2> DEFINE add  == PlanOf(c).add
             gone == {p \in PlanOf(c).remove : Deletable(c, p)}
             torn == {p \in PlanOf(c).remove : ScoresOf(p, req[c].token.rows[p].by) # {}}
  <2>1. writers' = [p \in Slot |-> IF p \in add \union gone THEN {}
                                   ELSE IF p \in torn THEN writers[p] \union {c}
                                   ELSE writers[p]]
    BY <1>3 DEF Commit
  <2> HIDE DEF add, gone, torn
  <2> QED
    BY <2>1 DEF WroteInv
<1>4. ASSUME NEW c \in Call, InsertAssignment(c)
      PROVE  /\ writers' \in [Slot -> SUBSET Call]
             /\ \A p \in Slot : writers'[p] \subseteq writers[p]
  BY <1>4 DEF InsertAssignment, WroteInv
<1>5. Domains
  BY DEF NamesInv
<1>6. ASSUME NEW c \in Call, ReviewStep(c), WritesReview(c) \/ Commit(c) \/ InsertAssignment(c)
      PROVE  /\ writers' \in [Slot -> SUBSET Call]
             /\ \A p \in Slot : \A d \in writers'[p] :
                  \/ d \in writers[p]
                  \/ d \in Call /\ ReviewStep(d) /\ WritesReview(d) /\ req[d].on = p
                  \/ d \in Call /\ ReviewStep(d) /\ Commit(d)
  <2>1. CASE WritesReview(c) /\ ~UNCHANGED writers
    BY <1>2, <1>6, <2>1 DEF WroteInv
  <2>2. CASE Commit(c) /\ ~UNCHANGED writers
    BY <1>3, <1>6, <2>2
  <2>3. CASE InsertAssignment(c)
    BY <1>4, <2>3
  <2> QED
    BY <1>1, <1>6, <2>1, <2>2, <2>3
<1> QED
  BY <1>1, <1>5, <1>6, WritersKept

\* Only pending rows are planned to go.
LEMMA PlannedToGo ==
  ASSUME NEW c, NEW p \in PlanOf(c).remove
  PROVE  p \in Slot /\ req[c].token.rows[p] # None /\ req[c].token.rows[p].status = "pending"
<1> DEFINE e == StatusOf(req[c].token.rows)
<1>1. p \in DOMAIN e /\ e[p] = "pending"
  BY DEF PlanOf, Plan, Removed
<1> QED
  BY <1>1 DEF StatusOf

\* What a commit makes of one slot
LEMMA CommitOn ==
  ASSUME NamesInv, WroteInv, NEW c \in Call, Commit(c), NEW p \in Slot
  PROVE  LET old == req[c].token.rows[p] IN
         \/ row'[p] = row[p] /\ writers'[p] = writers[p] /\ \A n : ScoresOf(p, n)' = ScoresOf(p, n)
         \/ row'[p] = None
         \/ row'[p] = NewRow(c) /\ writers'[p] = {}
         \/ /\ row'[p] = row[p] /\ writers'[p] = writers[p] \union {c}
            /\ old # None /\ old.status = "pending"
            /\ row[p] # None /\ row[p].by = old.by => row[p].status # "pending"
            /\ \A n : n # old.by => ScoresOf(p, n)' = ScoresOf(p, n)
<1> DEFINE add  == PlanOf(c).add
           gone == {q \in PlanOf(c).remove : Deletable(c, q)}
           torn == {q \in PlanOf(c).remove : ScoresOf(q, req[c].token.rows[q].by) # {}}
<1>1. CASE UNCHANGED <<row, scores, writers>>
  BY <1>1 DEF ScoresOf
<1>2. CASE /\ row' = [q \in Slot |-> IF q \in add THEN NewRow(c)
                                     ELSE IF q \in gone THEN None ELSE row[q]]
           /\ writers' = [q \in Slot |-> IF q \in add \union gone THEN {}
                                         ELSE IF q \in torn THEN writers[q] \union {c}
                                         ELSE writers[q]]
           /\ scores' = scores \ UNION {ScoresOf(q, req[c].token.rows[q].by) : q \in torn}
  <2>1. \A q \in torn : q \in Slot /\ req[c].token.rows[q] # None
                        /\ req[c].token.rows[q].status = "pending"
    BY PlannedToGo
  <2>2. ASSUME NEW n, p \in torn => n # req[c].token.rows[p].by
        PROVE  ScoresOf(p, n)' = ScoresOf(p, n)
    <3>1. ASSUME NEW s \in ScoresOf(p, n), NEW q \in torn, s \in ScoresOf(q, req[c].token.rows[q].by)
          PROVE  FALSE
      <4>1. q = p
        BY <2>1, <3>1 DEF ScoresOf, Slot
      <4> QED
        BY <2>2, <3>1, <4>1 DEF ScoresOf
    <3> QED
      BY <1>2, <3>1 DEF ScoresOf
  <2>3. CASE p \in add
    BY <1>2, <2>3
  <2>4. CASE p \notin add /\ p \in gone
    BY <1>2, <2>4
  <2>5. CASE p \notin add /\ p \notin gone /\ p \notin torn
    BY <1>2, <2>2, <2>5
  <2>6. CASE p \notin add /\ p \notin gone /\ p \in torn
    <3>1. row'[p] = row[p] /\ writers'[p] = writers[p] \union {c}
      BY <1>2, <2>6
    <3>2. row[p] # None /\ row[p].by = req[c].token.rows[p].by => row[p].status # "pending"
      BY <2>6 DEF Deletable, Doomed
    <3> QED
      BY <2>1, <2>2, <2>6, <3>1, <3>2
  <2> QED
    BY <2>3, <2>4, <2>5, <2>6
<1> QED
  BY <1>1, <1>2 DEF Commit

\* Writers are only forgotten for one that writes now and has not met them.
Recalled(p) ==
  \A d \in writers[p] : \/ d \in writers'[p]
                        \/ \E e \in Call : Running(e) /\ e \in writers'[p] /\ {e, d} \notin met

LEMMA ClearRecalls ==
  ASSUME WroteInv, NEW c \in Call, ClearScores(c), NEW p \in Slot PROVE Recalled(p)
<1>1. pc[c] = "clear" /\ Afresh(c, req[c].on)
  BY DEF ClearScores
<1>2. CASE p = req[c].on
  <2>1. writers'[p] = {d \in writers[p] : Mine(c) => {c, d} \in met} \union {c}
    BY <1>1, <1>2 DEF Afresh, WroteInv
  <2>2. Running(c)
    BY <1>1 DEF Running
  <2> QED
    BY <2>1, <2>2 DEF Recalled
<1>3. CASE p # req[c].on
  BY <1>1, <1>3 DEF Afresh, WroteInv, Recalled
<1> QED
  BY <1>2, <1>3

\* A row is kept, perhaps marked, with its writers, or gone, or a new one.
LEMMA Fate ==
  ASSUME NamesInv, WroteInv, [Next]_vars, NEW p \in Slot, row'[p] # None
  PROVE  \/ /\ row[p] # None /\ row'[p].by = row[p].by /\ Recalled(p)
            /\ row'[p] # row[p] => \E d \in Call : pc[d] = "mark" /\ d \in writers'[p]
         \/ \E c \in Call : row'[p] = NewRow(c) /\ ~Used(c, p) /\ writers'[p] = {}
<1>0. Domains
  BY DEF NamesInv
<1>1. ASSUME writers[p] \subseteq writers'[p] PROVE Recalled(p)
  BY <1>1 DEF Recalled
<1>2. ASSUME NEW c \in Call, ClearScores(c) \/ EnterScores(c)
      PROVE  row' = row /\ Recalled(p)
  <2>1. CASE ClearScores(c)
    BY <2>1, ClearRecalls DEF ClearScores
  <2>2. CASE EnterScores(c)
    BY <1>1, <2>2 DEF EnterScores, Wrote, WroteInv
  <2> QED
    BY <1>2, <2>1, <2>2
<1>3. ASSUME NEW c \in Call, MarkAssignment(c)
      PROVE  /\ row[p] # None /\ row'[p].by = row[p].by /\ writers[p] \subseteq writers'[p]
             /\ row'[p] # row[p] => c \in writers'[p] /\ pc[c] = "mark"
  <2>1. CASE UNCHANGED <<row, writers>>
    BY <2>1
  <2>2. CASE /\ Mine(c) /\ Wrote(c, req[c].on)
             /\ row' = [row EXCEPT ![req[c].on] =
                       [by     |-> @.by,
                        status |-> IF req[c].op = "score" THEN "scored" ELSE "abstained",
                        at     |-> @.at + 1]]
    <3>1. writers[p] \subseteq writers'[p] /\ (p = req[c].on => c \in writers'[p])
      BY <2>2 DEF Wrote, WroteInv
    <3>2. /\ p # req[c].on => row'[p] = row[p]
          /\ p = req[c].on => row[p] # None /\ row'[p].by = row[p].by
      BY <2>2 DEF Mine, NamesInv, NamesRows
    <3>3. pc[c] = "mark"
      BY <1>3 DEF MarkAssignment
    <3> QED
      BY <3>1, <3>2, <3>3
  <2> QED
    BY <1>3, <2>1, <2>2 DEF MarkAssignment
<1>4. ASSUME NEW c \in Call, InsertAssignment(c), row'[p] # row[p]
      PROVE  writers'[p] = {}
  BY <1>4 DEF InsertAssignment, NamesInv, NamesRows, WroteInv
<1>5. ASSUME NEW c \in Call, InsertAssignment(c), row'[p] = row[p]
      PROVE  writers'[p] = writers[p]
  BY <1>5 DEF InsertAssignment, NamesInv, NamesRows, WroteInv
<1>6. ASSUME NEW c \in Call, Commit(c), row'[p] # None
      PROVE  \/ row'[p] = row[p] /\ writers[p] \subseteq writers'[p]
             \/ row'[p] = NewRow(c) /\ writers'[p] = {} /\ ~Used(c, p)
  <2>1. ~Used(c, p)
    BY <1>6, NoneAssumption DEF Commit, Used
  <2> QED
    BY <1>6, <2>1, CommitOn
<1>7. \/ row[p] # None /\ row'[p].by = row[p].by
      \/ \E c \in Call : row'[p] = NewRow(c) /\ ~Used(c, p)
  BY RowsMade
<1>8. ASSUME NEW c \in Call, row'[p] = NewRow(c), ~Used(c, p), row[p] # None
      PROVE  row'[p].by # row[p].by
  BY <1>8 DEF NewRow, NamesInv, NamesRows
<1>9. ASSUME NEW c \in Call, InsertAssignment(c) \/ Commit(c), row[p] # None, row'[p].by = row[p].by
      PROVE  row'[p] = row[p]
  <2>1. NewRow(c) \in Row /\ NewRow(c).by = c
    BY DEF NewRow, Row
  <2>2. CASE InsertAssignment(c)
    BY <1>9, <2>2 DEF InsertAssignment, NamesInv, NamesRows
  <2>3. CASE Commit(c)
    BY <1>9, <2>3 DEF Commit
  <2> QED
    BY <1>9, <2>2, <2>3
<1>10. CASE UNCHANGED <<row, writers>> \/ \E c \in Call : WritesReview(c)
  BY <1>1, <1>2, <1>3, <1>10 DEF WritesReview
<1>11. ASSUME NEW c \in Call, InsertAssignment(c) \/ Commit(c)
       PROVE  \/ row[p] # None /\ row'[p] = row[p] /\ writers[p] \subseteq writers'[p]
              \/ \E d \in Call : row'[p] = NewRow(d) /\ ~Used(d, p) /\ writers'[p] = {}
  <2>1. CASE InsertAssignment(c)
    BY <1>4, <1>5, <1>7, <1>9, <2>1
  <2>2. CASE Commit(c)
    BY <1>6, <1>7, <2>2
  <2> QED
    BY <1>11, <2>1, <2>2
<1> QED
  BY <1>0, <1>1, <1>10, <1>11, WritersKept

LEMMA WroteStep ==
  ASSUME NamesInv, Overlap, WroteInv, [Next]_vars PROVE WroteInv'
<1>0. Domains
  BY DEF NamesInv
<1>1. ASSUME NEW p \in Slot, NEW c \in writers'[p]
      PROVE  pc'[c] \in {"enter", "mark", "done"} /\ (pc'[c] # "done" => req'[c].on = p)
  <2>1. CASE c \in writers[p]
    <3>0. /\ c \in Call /\ pc[c] \in {"enter", "mark", "done"}
          /\ pc[c] # "done" => req[c].on = p
      BY <2>1 DEF WroteInv
    <3>1. CASE UNCHANGED <<pc[c], req[c]>>
      BY <3>0, <3>1
    <3>2. ASSUME ReviewStep(c), GoesOn(c)
          PROVE  pc'[c] \in {"mark", "done"} /\ req'[c].on = p
      <4>1. EnterScores(c) \/ MarkAssignment(c)
        BY <3>0, <3>2 DEF GoesOn, Running, ReviewStep, UpdateRound, ReadCriteria, CountScores,
           DropCriteria, PutCriteria, FindAssignment, CheckAccess, MatchRubric, ClearScores,
           NextReviewer, FindPair, InsertAssignment, ReadRound, FindKey, ReadMembers,
           CompareEstate, Commit, GuardDemotion
      <4>2. pc'[c] \in {"mark", "done"}
        BY <4>1, <3>0, <1>0 DEF EnterScores, MarkAssignment, Goto, Reply, Domains
      <4> QED
        BY <3>0, <3>2, <4>2 DEF GoesOn, Running
    <3>3. ASSUME SignsIn(c), GoesOn(c) PROVE pc'[c] = "done"
      BY <3>0, <3>3, <1>0, SignsApart DEF GoesOn, Running, ReviewCalls
    <3> QED
      BY <3>0, <3>1, <3>2, <3>3, <1>0, Moves DEF Apart, ComesIn, Expire, vars
  <2>2. CASE c \in Call /\ ReviewStep(c) /\ WritesReview(c) /\ req[c].on = p
    <3>1. pc'[c] \in {"enter", "mark", "done"}
      BY <2>2, <1>0 DEF WritesReview, ClearScores, EnterScores, MarkAssignment, Goto, Reply, Domains
    <3> QED
      BY <2>2, <3>1, <1>0, ReviewMoves DEF GoesOn
  <2>3. CASE c \in Call /\ Commit(c)
    BY <2>3, <1>0 DEF Commit, Reply, Goto, Domains
  <2> QED
    BY <1>1, <2>1, <2>2, <2>3, WritersMade
<1>2. ASSUME NEW c \in Call, pc'[c] \in {"enter", "mark"}, Mine(c)'
      PROVE  c \in writers'[req'[c].on]
  <2>1. CASE pc[c] \in {"enter", "mark"} /\ UNCHANGED req[c]
    <3> DEFINE p == req[c].on
    <3>1. p \in Slot /\ Used(req[c].by, p)
      BY <2>1 DEF NamesInv, Kind, Knows
    <3>2. row'[p] # None /\ row'[p].by = req[c].by
      BY <1>2, <2>1 DEF Mine
    <3>3. ~\E d \in Call : row'[p] = NewRow(d) /\ ~Used(d, p)
      <4>1. \A d : NewRow(d).by = d
        BY DEF NewRow
      <4> QED
        BY <3>1, <3>2, <4>1
    <3>4. row[p] # None /\ row'[p].by = row[p].by /\ Recalled(p)
      BY <3>1, <3>2, <3>3, Fate
    <3>5. c \in writers[p] /\ Running(c)
      BY <2>1, <3>2, <3>4 DEF Mine, WroteInv, Running
    <3> QED
      BY <2>1, <3>4, <3>5 DEF Recalled, Overlap
  <2>2. CASE pc[c] \notin {"enter", "mark"} \/ req'[c] # req[c]
    <3>1. ReviewStep(c) /\ GoesOn(c)
      BY <1>0, <1>2, <2>2, Moves, SignsApart
         DEF Apart, ComesIn, GoesOn, FirstCall, ReviewCalls, Expire, vars
    <3>2. ClearScores(c)
      <4> USE <3>1, <1>0, <1>2, <2>2 DEF GoesOn, Goto, Reply, Domains
      <4>1. ~(UpdateRound(c) \/ ReadCriteria(c) \/ CountScores(c) \/ DropCriteria(c) \/ PutCriteria(c))
        BY DEF UpdateRound, ReadCriteria, CountScores, DropCriteria, PutCriteria
      <4>2. ~(\/ FindAssignment(c) \/ CheckAccess(c) \/ MatchRubric(c)
             \/ EnterScores(c) \/ MarkAssignment(c))
        BY DEF FindAssignment, CheckAccess, MatchRubric, EnterScores, MarkAssignment
      <4>3. ~NextReviewer(c) /\ ~FindPair(c) /\ ~InsertAssignment(c) /\ ~ReadRound(c) /\ ~FindKey(c)
        BY DEF NextReviewer, FindPair, InsertAssignment, ReadRound, FindKey
      <4>4. ~ReadMembers(c) /\ ~CompareEstate(c) /\ ~Commit(c) /\ ~GuardDemotion(c)
        BY DEF ReadMembers, CompareEstate, Commit, GuardDemotion
      <4> QED
        BY <4>1, <4>2, <4>3, <4>4 DEF ReviewStep
    <3>3. req[c].on \in Slot
      BY <3>2 DEF ClearScores, NamesInv, Kind, Knows
    <3> QED
      BY <3>1, <3>2, <3>3 DEF ClearScores, Afresh, WroteInv, GoesOn
  <2> QED
    BY <1>2, <2>1, <2>2
<1> QED
  BY <1>1, <1>2, WritersMade DEF WroteInv

LEMMA SpokenStep ==
  ASSUME NamesInv, WroteInv, Overlap, \A c \in Call : SpokenFor(c), [Next]_vars, NEW c \in Call
  PROVE  SpokenFor(c)'
<1>0. Domains
  BY DEF NamesInv
<1>1. CASE pc[c] = "commit" /\ UNCHANGED req[c]
  <2> SUFFICES ASSUME pc'[c] = "commit", NEW p \in Slot,
                      req[c].token.rows[p] # None, req[c].token.rows[p].status = "pending",
                      row'[p] # None, row'[p].by = req[c].token.rows[p].by,
                      row'[p].status # "pending"
               PROVE  \E d \in writers'[p] : {c, d} \in met'
    BY <1>1 DEF SpokenFor
  <2>1. Used(row'[p].by, p)
    BY <1>1 DEF NamesInv, Kind, Knows, NamesRows
  <2>2. ~\E d \in Call : row'[p] = NewRow(d) /\ ~Used(d, p)
    <3>1. \A d : NewRow(d).by = d
      BY DEF NewRow
    <3> QED
      BY <2>1, <3>1
  <2>3. /\ row[p] # None /\ row'[p].by = row[p].by /\ Recalled(p)
        /\ row'[p] # row[p] => \E d \in Call : pc[d] = "mark" /\ d \in writers'[p]
    BY <2>2, Fate
  <2>4. met \subseteq met'
    BY <1>0, MetStep
  <2>5. CASE row'[p] = row[p]
    <3>1. PICK d \in writers[p] : {c, d} \in met
      BY <1>1, <2>5 DEF SpokenFor
    <3>2. \A e \in Call : Running(e) => e = c \/ {c, e} \in met
      BY <1>1 DEF Overlap, Running
    <3> QED
      BY <2>3, <2>4, <3>1, <3>2 DEF Recalled
  <2>6. CASE row'[p] # row[p]
    BY <1>1, <2>3, <2>4, <2>6 DEF Overlap, Running
  <2> QED
    BY <2>5, <2>6
<1>2. CASE pc[c] # "commit" \/ req'[c] # req[c]
  <2> SUFFICES ASSUME pc'[c] = "commit" PROVE SpokenFor(c)'
    BY DEF SpokenFor
  <2>1. ReviewStep(c) /\ GoesOn(c)
    BY <1>0, <1>2, Moves, SignsApart DEF Apart, ComesIn, GoesOn, FirstCall, ReviewCalls, Expire, vars
  <2>2. CompareEstate(c)
    <3> USE <2>1, <1>0, <1>2 DEF GoesOn, Goto, Reply, Domains
    <3>1. ~(UpdateRound(c) \/ ReadCriteria(c) \/ CountScores(c) \/ DropCriteria(c) \/ PutCriteria(c))
      BY DEF UpdateRound, ReadCriteria, CountScores, DropCriteria, PutCriteria
    <3>2. ~(\/ FindAssignment(c) \/ CheckAccess(c) \/ MatchRubric(c)
           \/ EnterScores(c) \/ MarkAssignment(c))
      BY DEF FindAssignment, CheckAccess, MatchRubric, EnterScores, MarkAssignment
    <3>3. ~NextReviewer(c) /\ ~FindPair(c) /\ ~InsertAssignment(c) /\ ~ReadRound(c) /\ ~FindKey(c)
      BY DEF NextReviewer, FindPair, InsertAssignment, ReadRound, FindKey
    <3>4. ~ReadMembers(c) /\ ~ClearScores(c) /\ ~Commit(c) /\ ~GuardDemotion(c)
      BY DEF ReadMembers, ClearScores, Commit, GuardDemotion
    <3> QED
      BY <3>1, <3>2, <3>3, <3>4 DEF ReviewStep
  <2>3. row = req[c].token.rows /\ row' = row /\ req' = req
    BY <1>0, <2>1, <2>2 DEF CompareEstate, SameEstate, Reply, Goto, Domains, reviewTables, GoesOn
  <2> QED
    BY <2>3 DEF SpokenFor
<1> QED
  BY <1>1, <1>2

-----------------------------------------------------------------------------
(* Honest reviews *)

Consistent(p) == row[p].status = "scored" <=> ScoresOf(p, row[p].by) # {}

\* Undisturbed, but for what is still in progress
Clean(cs) == /\ \A c \in cs : pc[c] = "done" => answer[c] \notin {"lost", "error"}
             /\ \A c, d \in cs : {c, d} \notin met

\* While a request writes to its own row the scores are where it has got to;
\* one whose row has gone meanwhile does nothing to the row there is.
Between(c, p) ==
  IF Mine(c) THEN ScoresOf(p, row[p].by) # {} <=> pc[c] = "mark" /\ req[c].op = "score"
             ELSE Consistent(p)

Sound(p) ==
  row[p] # None /\ Clean(writers[p]) =>
    /\ (\A c \in writers[p] : pc[c] = "done") => Consistent(p)
    /\ \A c \in writers[p] : pc[c] # "done" => Between(c, p)

LEMMA CleanBefore ==
  ASSUME Domains, Overlap, WroteInv, [Next]_vars, NEW p \in Slot,
         writers[p] \subseteq writers'[p], Clean(writers[p])'
  PROVE  Clean(writers[p])
<1>1. \A d \in Call : pc[d] = "done" => pc'[d] = "done" /\ answer'[d] = answer[d]
  BY Moves DEF Apart, ComesIn, GoesOn, Running, Expire, vars, FirstCall
<1>2. met \subseteq met'
  BY MetStep
<1>3. writers[p] \subseteq Call
  BY DEF WroteInv
<1> QED
  BY <1>1, <1>2, <1>3 DEF Clean

\* One request writes at a time.
LEMMA Alone ==
  ASSUME Domains, Overlap, WroteInv, [Next]_vars, NEW p \in Slot, NEW c \in Call, Running(c),
         c \in writers'[p], writers[p] \subseteq writers'[p], Clean(writers[p])'
  PROVE  \A d \in writers[p] : d # c => pc[d] = "done"
<1> SUFFICES ASSUME NEW d \in writers[p], d # c, pc[d] # "done" PROVE FALSE
  OBVIOUS
<1>1. d \in Call /\ Running(d)
  BY DEF WroteInv, Running
<1>2. {c, d} \in met'
  BY <1>1, MetStep DEF Overlap
<1> QED
  BY <1>2 DEF Clean

LEMMA SoundKept ==
  ASSUME Domains, Overlap, WroteInv, [Next]_vars, NEW p \in Slot, Sound(p),
         row'[p] = row[p], writers'[p] = writers[p], \A n : ScoresOf(p, n)' = ScoresOf(p, n),
         \A d \in writers[p] : pc'[d] = pc[d] /\ req'[d] = req[d]
  PROVE  Sound(p)'
<1> SUFFICES ASSUME row[p] # None, Clean(writers[p])'
             PROVE  /\ (\A c \in writers[p] : pc[c] = "done") => Consistent(p)'
                    /\ \A c \in writers[p] : pc[c] # "done" => Between(c, p)'
  BY DEF Sound
<1>1. Clean(writers[p])
  BY CleanBefore
<1>2. Consistent(p)' <=> Consistent(p)
  <2>1. PICK n : n = row[p].by
    OBVIOUS
  <2>2. ScoresOf(p, n)' = ScoresOf(p, n)
    OBVIOUS
  <2> QED
    BY <2>1, <2>2 DEF Consistent, ScoresOf
<1>3. ASSUME NEW c \in writers[p], pc[c] # "done" PROVE Between(c, p)' <=> Between(c, p)
  <2>1. req[c].on = p
    BY <1>3 DEF WroteInv
  <2>2. Mine(c)' <=> Mine(c)
    BY <1>3, <2>1 DEF Mine
  <2>3. PICK n : n = row[p].by
    OBVIOUS
  <2>4. ScoresOf(p, n)' = ScoresOf(p, n)
    OBVIOUS
  <2> QED
    BY <1>2, <1>3, <2>2, <2>3, <2>4 DEF Between, ScoresOf
<1> QED
  BY <1>1, <1>2, <1>3 DEF Sound

\* The three that write for a reviewer leave other slots alone.
LEMMA SoundElsewhere ==
  ASSUME NamesInv, Overlap, WroteInv, [Next]_vars, NEW p \in Slot, Sound(p),
         NEW c \in Call, ReviewStep(c), WritesReview(c), req[c].on # p
  PROVE  Sound(p)'
<1>0. Domains /\ Apart(c) /\ GoesOn(c)
  BY ReviewMoves DEF NamesInv
<1>1. req[c].on \in Slot /\ pc[c] \in {"clear", "enter", "mark"}
  BY DEF WritesReview, ClearScores, EnterScores, MarkAssignment, NamesInv, Kind, Knows
<1>2. c \notin writers[p]
  BY <1>1 DEF WroteInv
<1>3. row'[p] = row[p]
  BY DEF WritesReview, ClearScores, EnterScores, MarkAssignment, NamesInv, NamesRows
<1>4. writers'[p] = writers[p]
  BY DEF WritesReview, ClearScores, EnterScores, MarkAssignment, Wrote, Afresh, WroteInv
<1>5. ASSUME NEW n PROVE ScoresOf(p, n)' = ScoresOf(p, n)
  <2>1. p[1] # req[c].on[1] \/ p[2] # req[c].on[2]
    BY <1>1 DEF Slot
  <2>2. CASE ClearScores(c)
    BY <2>1, <2>2 DEF ClearScores, Cleared, ScoresOf
  <2>3. CASE EnterScores(c)
    BY <2>1, <2>3 DEF EnterScores, ScoresOf
  <2>4. CASE MarkAssignment(c)
    BY <2>4 DEF MarkAssignment, ScoresOf
  <2> QED
    BY <2>2, <2>3, <2>4 DEF WritesReview
<1>6. \A d \in writers[p] : pc'[d] = pc[d] /\ req'[d] = req[d]
  BY <1>0, <1>2 DEF Apart, WroteInv
<1> QED
  BY <1>0, <1>3, <1>4, <1>5, <1>6, SoundKept

\* What a request that writes to the row knows of it, and what it has to leave
LEMMA SoundOne ==
  ASSUME NamesInv, Overlap, WroteInv, [Next]_vars, NEW p \in Slot, Sound(p),
         NEW c \in Call, ReviewStep(c), c \in writers'[p], writers[p] \subseteq writers'[p],
         writers'[p] \subseteq writers[p] \union {c},
         row'[p] # None, Clean(writers[p])'
  PROVE  /\ c \notin writers[p] /\ row[p] # None => Consistent(p)
         /\ c \in writers[p] /\ row[p] # None => Between(c, p)
         /\ pc'[c] = "done" /\ Consistent(p)' => Sound(p)'
         /\ pc'[c] # "done" /\ Between(c, p)' => Sound(p)'
<1>0. Domains /\ Apart(c) /\ GoesOn(c)
  BY ReviewMoves DEF NamesInv
<1>1. Clean(writers[p]) /\ \A d \in writers[p] : d # c => pc[d] = "done"
  BY <1>0, CleanBefore, Alone DEF GoesOn
<1>2. \A d \in writers'[p] : d # c => pc'[d] = "done"
  BY <1>0, <1>1 DEF Apart, WroteInv
<1>3. Running(c)
  BY <1>0 DEF GoesOn
<1> QED
  BY <1>1, <1>2, <1>3 DEF Sound, Running

\* A review is cleared, ...
LEMMA ClearSound ==
  ASSUME NamesInv, Overlap, WroteInv, [Next]_vars, NEW p \in Slot, Sound(p),
         NEW c \in Call, ReviewStep(c), ClearScores(c), req[c].on = p
  PROVE  Sound(p)'
<1> SUFFICES ASSUME row'[p] # None, Clean(writers[p])' PROVE Sound(p)'
  BY DEF Sound
<1>1. /\ pc[c] = "clear" /\ row' = row /\ scores' = scores \ ScoresOf(p, req[c].by)
      /\ writers'[p] = {d \in writers[p] : Mine(c) => {c, d} \in met} \union {c} /\ req' = req
      /\ pc'[c] = IF req[c].op = "score" THEN "enter" ELSE "mark"
  BY ReviewMoves DEF ClearScores, Cleared, Afresh, WroteInv, NamesInv, Domains, Goto, GoesOn
<1>2. CASE Mine(c)
  <2>1. writers'[p] = {c}
    <3>1. met \subseteq met'
      BY MetStep DEF NamesInv
    <3> QED
      BY <1>1, <1>2, <3>1 DEF Clean
  <2>2. ScoresOf(p, row[p].by)' = {} /\ Mine(c)'
    BY <1>1, <1>2 DEF ScoresOf, Mine
  <2>3. pc'[c] # "done" /\ ~(pc'[c] = "mark" /\ req'[c].op = "score")
    BY <1>1
  <2>4. Between(c, p)'
    BY <2>2, <2>3 DEF Between
  <2> QED
    BY <2>1, <2>3, <2>4 DEF Sound
<1>3. CASE ~Mine(c)
  <2>1. writers'[p] = writers[p] \union {c} /\ c \notin writers[p]
    BY <1>1, <1>3 DEF WroteInv
  <2>2. Consistent(p)
    BY <1>1, <2>1, SoundOne
  <2>3. row[p].by # req[c].by /\ ~Mine(c)'
    BY <1>1, <1>3 DEF Mine
  <2>4. ScoresOf(p, row[p].by)' = ScoresOf(p, row[p].by)
    BY <1>1, <2>3 DEF ScoresOf
  <2>5. Consistent(p)'
    BY <1>1, <2>2, <2>4 DEF Consistent
  <2>6. Between(c, p)'
    BY <2>3, <2>5 DEF Between
  <2> QED
    BY <1>1, <2>1, <2>6, SoundOne
<1> QED
  BY <1>2, <1>3

\* ... entered, ...
LEMMA EnterSound ==
  ASSUME NamesInv, Overlap, WroteInv, [Next]_vars, NEW p \in Slot, Sound(p),
         NEW c \in Call, ReviewStep(c), EnterScores(c), req[c].on = p
  PROVE  Sound(p)'
<1> SUFFICES ASSUME row'[p] # None, Clean(writers[p])' PROVE Sound(p)'
  BY DEF Sound
<1> DEFINE new == {<<p[1], p[2], req[c].by, k>> : k \in req[c].given}
<1>1. /\ pc[c] = "enter" /\ row' = row /\ req' = req
      /\ writers'[p] = writers[p] \union {c}
  BY ReviewMoves DEF EnterScores, Wrote, WroteInv, GoesOn, NamesInv
<1>2. /\ new \subseteq ScoresOf(p, req[c].by) \union new
      /\ \/ pc'[c] = "done" /\ answer'[c] = "error"
         \/ new \intersect scores = {} /\ scores' = scores \union new /\ pc'[c] = "mark"
  BY DEF EnterScores, NamesInv, Domains, Goto, Reply
<1>3. req[c].op = "score" /\ req[c].given # {}
  BY <1>1 DEF NamesInv, Kind
<1>4. Mine(c) => c \in writers[p] /\ (ScoresOf(p, row[p].by) = {})
  <2>1. Mine(c) => c \in writers[p]
    BY <1>1 DEF WroteInv
  <2>2. c \in writers[p] => Between(c, p)
    BY <1>1, SoundOne
  <2> QED
    BY <1>1, <2>1, <2>2 DEF Between
<1>5. ~Mine(c) => Consistent(p)
  BY <1>1, SoundOne DEF Between
<1>6. Mine(c)' <=> Mine(c)
  BY <1>1 DEF Mine
<1>7. ~Mine(c) => row[p].by # req[c].by
  BY <1>1 DEF Mine
<1>8. CASE pc'[c] = "done" /\ answer'[c] = "error"
  BY <1>1, <1>8 DEF Clean
<1>9. CASE scores' = scores \union new /\ pc'[c] = "mark"
  <2>1. CASE Mine(c)
    <3>1. PICK k : k \in req[c].given
      BY <1>3
    <3>2. <<p[1], p[2], req[c].by, k>> \in scores'
      BY <1>9, <3>1
    <3>3. ScoresOf(p, row[p].by)' # {}
      BY <1>1, <2>1, <3>2 DEF ScoresOf, Mine
    <3> QED
      BY <1>1, <1>3, <1>6, <1>9, <2>1, <3>3, SoundOne DEF Between
  <2>2. CASE ~Mine(c)
    <3>1. ScoresOf(p, row[p].by)' = ScoresOf(p, row[p].by)
      BY <1>1, <1>7, <1>9, <2>2 DEF ScoresOf
    <3>2. Consistent(p)'
      BY <1>1, <1>5, <2>2, <3>1 DEF Consistent
    <3>3. Between(c, p)'
      BY <1>6, <2>2, <3>2 DEF Between
    <3> QED
      BY <1>1, <1>9, <3>3, SoundOne
  <2> QED
    BY <2>1, <2>2
<1> QED
  BY <1>2, <1>8, <1>9

\* ... and marked.
LEMMA MarkSound ==
  ASSUME NamesInv, Overlap, WroteInv, [Next]_vars, NEW p \in Slot, Sound(p),
         NEW c \in Call, ReviewStep(c), MarkAssignment(c), req[c].on = p
  PROVE  Sound(p)'
<1> SUFFICES ASSUME row'[p] # None, Clean(writers[p])' PROVE Sound(p)'
  BY DEF Sound
<1>1. /\ pc[c] = "mark" /\ req' = req /\ scores' = scores /\ pc'[c] = "done"
      /\ Domains /\ Apart(c) /\ GoesOn(c)
  BY ReviewMoves DEF MarkAssignment, Reply, Goto, NamesInv, Domains, GoesOn
<1>2. CASE Mine(c) /\ Wrote(c, p)
           /\ row' = [row EXCEPT ![p] =
                     [by     |-> @.by,
                      status |-> IF req[c].op = "score" THEN "scored" ELSE "abstained",
                      at     |-> @.at + 1]]
  <2>1. writers'[p] = writers[p] \union {c} /\ c \in writers[p] /\ row[p] # None
    BY <1>1, <1>2 DEF Wrote, WroteInv, Mine
  <2>2. Between(c, p)
    BY <2>1, SoundOne
  <2>3. ScoresOf(p, row[p].by) # {} <=> req[c].op = "score"
    BY <1>1, <1>2, <2>2 DEF Between
  <2>4. row'[p].by = row[p].by /\ (row'[p].status = "scored" <=> req[c].op = "score")
    BY <1>2 DEF NamesInv, NamesRows
  <2>5. ScoresOf(p, row[p].by)' = ScoresOf(p, row[p].by)
    BY <1>1, <2>4 DEF ScoresOf
  <2>6. Consistent(p)'
    BY <2>3, <2>4, <2>5 DEF Consistent
  <2> QED
    BY <1>1, <2>1, <2>6, SoundOne
<1>3. CASE ~Mine(c) /\ UNCHANGED <<row, writers>>
  <2>1. CASE c \in writers[p]
    <3>1. Between(c, p)
      BY <1>3, <2>1, SoundOne
    <3>2. Consistent(p)'
      BY <1>1, <1>3, <3>1 DEF Between, Consistent, ScoresOf
    <3> QED
      BY <1>1, <1>3, <2>1, <3>2, SoundOne
  <2>2. CASE c \notin writers[p]
    <3>1. \A d \in writers[p] : pc'[d] = pc[d] /\ req'[d] = req[d]
      BY <1>1, <2>2 DEF Apart, WroteInv
    <3>2. \A n : ScoresOf(p, n)' = ScoresOf(p, n)
      BY <1>1 DEF ScoresOf
    <3> QED
      BY <1>1, <1>3, <3>1, <3>2, SoundKept
  <2> QED
    BY <2>1, <2>2
<1> QED
  BY <1>2, <1>3 DEF MarkAssignment

\* A new row has no scores: nobody has used its name.
LEMMA NewSound ==
  ASSUME NamesInv, [Next]_vars, NEW p \in Slot, NEW c \in Call,
         row'[p] = NewRow(c), ~Used(c, p), writers'[p] = {}, scores' \subseteq scores
  PROVE  Sound(p)'
<1>1. row'[p].by = c /\ row'[p].status = "pending"
  BY DEF NewRow
<1>2. ASSUME NEW s \in scores', s[1] = p[1], s[2] = p[2], s[3] = c PROVE FALSE
  <2>1. Used(s[3], <<s[1], s[2]>>)
    BY <1>2 DEF NamesInv
  <2>2. <<s[1], s[2]>> = p
    BY <1>2 DEF Slot
  <2> QED
    BY <1>2, <2>1, <2>2
<1>3. Consistent(p)'
  BY <1>1, <1>2 DEF Consistent, ScoresOf
<1> QED
  BY <1>3 DEF Sound

LEMMA CommitSound ==
  ASSUME NamesInv, Overlap, WroteInv, \A d \in Call : SpokenFor(d), [Next]_vars,
         NEW p \in Slot, Sound(p), NEW c \in Call, ReviewStep(c), Commit(c)
  PROVE  Sound(p)'
<1> DEFINE old == req[c].token.rows[p]
<1>1. /\ pc[c] = "commit" /\ pc'[c] = "done" /\ scores' \subseteq scores /\ ~Used(c, p)
      /\ Domains /\ Apart(c) /\ GoesOn(c) /\ c \notin writers[p]
  BY ReviewMoves, NoneAssumption DEF Commit, Reply, Goto, Used, NamesInv, WroteInv, Domains
<1>2. CASE row'[p] = row[p] /\ writers'[p] = writers[p] /\ \A n : ScoresOf(p, n)' = ScoresOf(p, n)
  <2>1. \A d \in writers[p] : pc'[d] = pc[d] /\ req'[d] = req[d]
    BY <1>1 DEF Apart, WroteInv
  <2> QED
    BY <1>1, <1>2, <2>1, SoundKept
<1>3. CASE row'[p] = None
  BY <1>3 DEF Sound
<1>4. CASE row'[p] = NewRow(c) /\ writers'[p] = {}
  BY <1>1, <1>4, NewSound
<1>5. CASE /\ row'[p] = row[p] /\ writers'[p] = writers[p] \union {c}
           /\ old # None /\ old.status = "pending"
           /\ row[p] # None /\ row[p].by = old.by => row[p].status # "pending"
           /\ \A n : n # old.by => ScoresOf(p, n)' = ScoresOf(p, n)
  <2> SUFFICES ASSUME row'[p] # None, Clean(writers[p])' PROVE Sound(p)'
    BY DEF Sound
  <2>1. row[p].by # old.by
    <3> SUFFICES ASSUME row[p].by = old.by PROVE FALSE
      OBVIOUS
    <3>1. PICK d \in writers[p] : {c, d} \in met
      BY <1>1, <1>5 DEF SpokenFor
    <3>2. met \subseteq met' /\ d \in writers'[p] /\ c \in writers'[p]
      BY <1>1, <1>5, MetStep
    <3> QED
      BY <3>1, <3>2 DEF Clean
  <2>2. Consistent(p)
    BY <1>1, <1>5, SoundOne
  <2>3. ScoresOf(p, row[p].by)' = ScoresOf(p, row[p].by)
    <3>1. PICK n : n = row[p].by
      OBVIOUS
    <3>2. ScoresOf(p, n)' = ScoresOf(p, n)
      BY <1>5, <2>1, <3>1
    <3> QED
      BY <1>5, <3>1, <3>2 DEF ScoresOf
  <2>4. Consistent(p)'
    BY <1>5, <2>2, <2>3 DEF Consistent
  <2> QED
    BY <1>1, <1>5, <2>4, SoundOne
<1> QED
  BY <1>2, <1>3, <1>4, <1>5, CommitOn

LEMMA SoundStep ==
  ASSUME NamesInv, Overlap, WroteInv, \A d \in Call : SpokenFor(d), [Next]_vars,
         NEW p \in Slot, Sound(p)
  PROVE  Sound(p)'
<1>0. Domains
  BY DEF NamesInv
<1>1. ASSUME NEW c \in Call, ReviewStep(c), WritesReview(c) PROVE Sound(p)'
  BY <1>1, ClearSound, EnterSound, MarkSound, SoundElsewhere DEF WritesReview
<1>2. ASSUME NEW c \in Call, ReviewStep(c), Commit(c) PROVE Sound(p)'
  BY <1>2, CommitSound
<1>3. ASSUME NEW c \in Call, ReviewStep(c), InsertAssignment(c) PROVE Sound(p)'
  <2>1. /\ pc[c] = "place" /\ Apart(c) /\ scores' = scores
    BY <1>0, <1>3, ReviewMoves DEF InsertAssignment
  <2>2. c \notin writers[p]
    BY <2>1 DEF WroteInv
  <2>3. CASE row'[p] = row[p] /\ writers'[p] = writers[p]
    <3>1. \A d \in writers[p] : pc'[d] = pc[d] /\ req'[d] = req[d]
      BY <2>1, <2>2 DEF Apart, WroteInv
    <3>2. \A n : ScoresOf(p, n)' = ScoresOf(p, n)
      BY <2>1 DEF ScoresOf
    <3> QED
      BY <1>0, <2>3, <3>1, <3>2, SoundKept
  <2>4. CASE ~(row'[p] = row[p] /\ writers'[p] = writers[p])
    <3>1. row'[p] = NewRow(c) /\ writers'[p] = {} /\ p = <<req[c].sub, held[c].now>>
      BY <1>3, <2>4 DEF InsertAssignment, NamesInv, NamesRows, WroteInv
    <3>2. ~Used(c, p)
      BY <2>1, <3>1, NoneAssumption DEF Used
    <3> QED
      BY <2>1, <3>1, <3>2, NewSound
  <2> QED
    BY <2>3, <2>4
<1>4. CASE ~\E c \in Call : ReviewStep(c) /\ (WritesReview(c) \/ Commit(c) \/ InsertAssignment(c))
  <2>1. UNCHANGED <<row, scores, writers>>
    BY <1>0, <1>4, WritersKept
  <2>2. \A n : ScoresOf(p, n)' = ScoresOf(p, n)
    BY <2>1 DEF ScoresOf
  <2>3. ASSUME NEW c \in Call, Apart(c), c \notin writers[p]
        PROVE  \A d \in writers[p] : pc'[d] = pc[d] /\ req'[d] = req[d]
    BY <2>3 DEF Apart, WroteInv
  <2>4. ASSUME NEW c \in Call, ReviewStep(c), Apart(c), GoesOn(c) PROVE c \notin writers[p]
    BY <1>4, <2>4 DEF WroteInv, GoesOn, Running, WritesReview, ReviewStep, UpdateRound, ReadCriteria,
       CountScores, DropCriteria, PutCriteria, FindAssignment, CheckAccess, MatchRubric,
       NextReviewer, FindPair, ReadRound, FindKey, ReadMembers, CompareEstate, GuardDemotion
  <2>5. ASSUME NEW c \in Call, SignsIn(c), Apart(c), GoesOn(c), c \in writers[p] PROVE Sound(p)'
    <3>1. pc[c] \in ReviewCalls
      BY <2>5 DEF WroteInv, GoesOn, Running, ReviewCalls
    <3>2. pc'[c] = "done" /\ answer'[c] = "lost"
      BY <1>0, <2>5, <3>1, SignsDie
    <3>3. ~Clean(writers[p])'
      BY <2>1, <2>5, <3>2 DEF Clean
    <3> QED
      BY <3>3 DEF Sound
  <2>6. \/ \A d \in writers[p] : pc'[d] = pc[d] /\ req'[d] = req[d]
        \/ Sound(p)'
    <3>1. ASSUME NEW c \in Call, Apart(c), ComesIn(c) PROVE c \notin writers[p]
      BY <3>1 DEF WroteInv, ComesIn
    <3>2. ASSUME NEW c \in Call, SignsIn(c), Apart(c), GoesOn(c)
          PROVE  c \notin writers[p] \/ Sound(p)'
      BY <2>5, <3>2
    <3> QED
      BY <1>0, <2>3, <2>4, <3>1, <3>2, Moves DEF Expire, vars
  <2> QED
    BY <1>0, <2>1, <2>2, <2>6, SoundKept
<1> QED
  BY <1>1, <1>2, <1>3, <1>4

HonestInv == /\ NamesInv /\ Overlap /\ WroteInv
             /\ \A c \in Call : SpokenFor(c)
             /\ \A p \in Slot : Sound(p)

LEMMA HonestStart == Init => HonestInv
<1> SUFFICES ASSUME Init PROVE HonestInv
  OBVIOUS
<1>1. /\ pc = [c \in Call |-> "idle"] /\ req = [c \in Call |-> None]
      /\ answer = [c \in Call |-> None] /\ purpose = [c \in Call |-> None]
      /\ held = [c \in Call |-> None] /\ writers = [p \in Slot |-> {}]
  BY DEF Init, AccountInit
<1> DEFINE ks == rubric
<1>2. PICK st \in [Slot -> {None, "pending", "scored"}] :
        /\ ks # {}
        /\ row = [p \in Slot |-> IF st[p] = None THEN None
                                 ELSE [by |-> None, status |-> st[p], at |-> 0]]
        /\ scores = {<<p[1], p[2], None, k>> : p \in {x \in Slot : st[x] = "scored"}, k \in ks}
  BY DEF Init
<1>3. Domains /\ Overlap /\ \A c \in Call : Kind(c) /\ Knows(c) /\ SpokenFor(c)
  BY <1>1 DEF Domains, Overlap, Running, Kind, Knows, SpokenFor
<1>4. ASSUME NEW p \in Slot
      PROVE  /\ row[p] \in Row \union {None}
             /\ row[p] # None => row[p].by = None
             /\ row[p] # None => (row[p].status = "scored" <=> st[p] = "scored")
  <2>1. row[p] = IF st[p] = None THEN None ELSE [by |-> None, status |-> st[p], at |-> 0]
    BY <1>2
  <2>2. st[p] # None => [by |-> None, status |-> st[p], at |-> 0] \in Row
    BY <1>2 DEF Row
  <2> QED
    BY <1>2, <2>1, <2>2, RowAssumption
<1>5. NamesRows(row)
  BY <1>2, <1>4 DEF NamesRows, Used
<1>6. ASSUME NEW s \in scores PROVE <<s[1], s[2]>> \in Slot /\ s[3] = None
  BY <1>2 DEF Slot
<1>7. NamesInv
  BY <1>3, <1>5, <1>6 DEF NamesInv, Used
<1>8. WroteInv
  BY <1>1 DEF WroteInv
<1>9. ASSUME NEW p \in Slot, row[p] # None PROVE Consistent(p)
  <2>1. ASSUME st[p] = "scored" PROVE ScoresOf(p, None) # {}
    <3>1. PICK k : k \in ks
      BY <1>2
    <3>2. <<p[1], p[2], None, k>> \in scores
      BY <1>2, <2>1, <3>1
    <3> QED
      BY <3>2 DEF ScoresOf
  <2>2. ASSUME NEW s \in ScoresOf(p, None) PROVE st[p] = "scored"
    <3>1. PICK q \in Slot, k \in ks : st[q] = "scored" /\ s = <<q[1], q[2], None, k>>
      BY <1>2, <2>2 DEF ScoresOf
    <3>2. q = p
      BY <2>2, <3>1 DEF ScoresOf, Slot
    <3> QED
      BY <3>1, <3>2
  <2> QED
    BY <1>4, <1>9, <2>1, <2>2 DEF Consistent
<1>10. \A p \in Slot : Sound(p)
  BY <1>1, <1>9 DEF Sound
<1> QED
  BY <1>3, <1>7, <1>8, <1>10 DEF HonestInv

(* A row is scored exactly if it has scores when, of those that wrote since *)
(* one that had it to itself cleared it, no two ran together, none died and *)
(* none was answered with an error: for any number of reviewers, rubrics,   *)
(* lists of scores that fit or do not, demands to assign and previews       *)
(* committed, whatever is planned.                                          *)
THEOREM Honesty == Spec => []HonestReview
<1>1. HonestInv /\ [Next]_vars => HonestInv'
  <2> SUFFICES ASSUME HonestInv, [Next]_vars PROVE HonestInv'
    OBVIOUS
  <2> USE DEF HonestInv
  <2>1. NamesInv' /\ WroteInv'
    BY NamesStep, WroteStep
  <2>2. Overlap'
    BY MetStep DEF NamesInv
  <2>3. \A c \in Call : SpokenFor(c)'
    BY SpokenStep
  <2>4. \A p \in Slot : Sound(p)'
    BY SoundStep
  <2> QED
    BY <2>1, <2>2, <2>3, <2>4
<1>2. HonestInv => HonestReview
  <2>1. ASSUME NEW p \in Slot, Sound(p), row[p] # None, Undisturbed(writers[p])
        PROVE  row[p].status = "scored" <=> ScoresOf(p, row[p].by) # {}
    BY <2>1 DEF Sound, Undisturbed, Clean, Consistent
  <2> QED
    BY <2>1 DEF HonestInv, HonestReview
<1> QED
  BY HonestStart, <1>1, <1>2, PTL DEF Spec

-----------------------------------------------------------------------------
(* Orphans.  Whoever is assigned has been a member who may review when he    *)
(* was looked at.  He has been made a speaker since by a request in progress *)
(* with the one that assigns him, or else by one that found none of his      *)
(* reviews pending; and those assigned after it looked are by requests it    *)
(* has met.                                                                  *)

\* What requests have come in with, as far as it matters here
Errand(c) ==
  /\ pc[c] = "regrant" => req[c].op = "signin"
  /\ pc[c] \in {"guard", "update"} => req[c].op = "role"
  /\ pc[c] # "idle" /\ req[c].op \in {"invite", "role"} => req[c].want \in Role
  /\ pc[c] # "idle" /\ req[c].op = "bulk" => req[c].token.question \in Question

\* u may review, or whoever made him a speaker has met c.
Fit(c, u) == role[u] # None /\ (role[u] \in MayReview \/ {c, demoter[u]} \in met)

\* Those a request is about to assign
Vetted(c) ==
  /\ pc[c] \in {"reviewer", "pair", "place"} => held[c].left \subseteq Person
  /\ pc[c] \in {"pair", "place"} => held[c].now \in Person /\ Fit(c, held[c].now)
  /\ pc[c] = "estate" => \A v \in req[c].token.question.evaluators :
                            held[c].roles[v] \in MayReview => Fit(c, v)
  /\ pc[c] = "commit" => \A v \in req[c].token.question.evaluators : Fit(c, v)

\* Whom a request is about to make a speaker is assigned by those it has met.
Sworn(c) ==
  /\ pc[c] \in {"read", "write"} /\ req[c].op # "signin" =>
       \A p \in Slot : p[2] = Subject(c) /\ row[p] # None => {row[p].by, c} \in met
  /\ pc[c] = "update" /\ req[c].want = "speaker" =>
       \A p \in Slot : p[2] = Subject(c) /\ row[p] # None /\ row[p].status = "pending"
                         => {row[p].by, c} \in met

\* Who has been assigned is a member.
Employed == \A p \in Slot : row[p] # None => role[p[2]] # None

OrphanInv ==
  /\ NamesInv /\ Overlap
  /\ DOMAIN role = Person /\ DOMAIN demoter = Person
  /\ Employed /\ OrphanOnlyByRace
  /\ \A c \in Call : Errand(c) /\ Vetted(c) /\ Sworn(c)

\* Where the calls of the accounts lead that bear on this
LEMMA SignsTo ==
  ASSUME Domains, NEW c \in Call, SignsIn(c)
  PROVE  /\ pc'[c] = "regrant" => req[c].op = "signin"
         /\ pc'[c] \in {"guard", "update"} => req[c].op = "role"
         /\ pc'[c] = "update" => req[c].want # "speaker"
         /\ pc'[c] = "read" => pc[c] = "regrant" \/ role[Subject(c)] = None
         /\ pc'[c] = "write" => pc[c] = "read"
<1> USE DEF Domains, Goto, Reply
<1>1. CASE FindUser(c) \/ CheckMember(c) \/ CheckFounder(c) \/ CreateUser(c)
  BY <1>1 DEF FindUser, CheckMember, CheckFounder, CreateUser
<1>2. CASE ResolvePurpose(c) \/ InsertLink(c) \/ Supersede(c) \/ Regrant(c) \/ Mail(c)
  BY <1>2 DEF ResolvePurpose, InsertLink, Supersede, Regrant, Mail
<1>3. CASE ReadForUpsert(c) \/ Upsert(c) \/ EnsureUser(c) \/ EnsureMember(c) \/ RereadMember(c)
  BY <1>3 DEF ReadForUpsert, Upsert, AfterGrant, EnsureUser, EnsureMember, RereadMember
<1>4. CASE LookupMember(c) \/ UpdateRole(c) \/ LookupLink(c) \/ Consume(c) \/ InsertSession(c)
  BY <1>4 DEF LookupMember, UpdateRole, LookupLink, Consume, InsertSession
<1>5. CASE Die(c)
  BY <1>5 DEF Die
<1> QED
  BY <1>1, <1>2, <1>3, <1>4, <1>5 DEF SignsIn, AccountStep

\* A review request only gets to an update by the guard.
LEMMA Guarded ==
  ASSUME Domains, NEW c \in Call, ReviewStep(c), pc'[c] = "update"
  PROVE  GuardDemotion(c) /\ pc[c] = "guard" /\ ~HasPending(Subject(c)) /\ row' = row
<1> USE DEF Domains, Goto, Reply
<1>1. GuardDemotion(c)
  BY DEF ReviewStep, UpdateRound, ReadCriteria, CountScores, DropCriteria, PutCriteria,
         FindAssignment, CheckAccess, MatchRubric, ClearScores, EnterScores, MarkAssignment,
         NextReviewer, FindPair, InsertAssignment, ReadRound, FindKey, ReadMembers,
         CompareEstate, Commit
<1> QED
  BY <1>1 DEF GuardDemotion, reviewTables

LEMMA ErrandStep ==
  ASSUME Domains, \A c \in Call : Errand(c), [Next]_vars, NEW d \in Call
  PROVE  Errand(d)'
<1>1. CASE UNCHANGED <<pc[d], req[d]>>
  BY <1>1 DEF Errand
<1>2. ASSUME Begins(d), ComesIn(d) PROVE Errand(d)'
  <2>1. pc'[d] \notin {"regrant", "guard", "update"}
    BY <1>2 DEF ComesIn, FirstCall
  <2>2. req'[d].op \in {"invite", "role"} => req'[d].want \in Role
    BY <1>2, Opens
  <2>3. ASSUME req'[d].op = "bulk" PROVE req'[d].token.question \in Question
    <3>1. \/ req'[d].token.question \in Question
          \/ \E x \in Call : pc[x] # "idle" /\ req[x].op = "bulk" /\ req'[d].token = req[x].token
      BY <1>2, <2>3, Opens
    <3> QED
      BY <3>1 DEF Errand
  <2> QED
    BY <2>1, <2>2, <2>3 DEF Errand
<1>3. ASSUME SignsIn(d), GoesOn(d) PROVE Errand(d)'
  BY <1>3, SignsTo DEF Errand, GoesOn, Running
<1>4. ASSUME ReviewStep(d), GoesOn(d) PROVE Errand(d)'
  <2>1. pc'[d] \notin {"regrant", "guard"}
    BY <1>4, ReviewMoves DEF AfterReview
  <2>2. pc'[d] = "update" => pc[d] = "guard"
    BY <1>4, Guarded
  <2> QED
    BY <1>4, <2>1, <2>2 DEF Errand, GoesOn, Running
<1> QED
  BY <1>1, <1>2, <1>3, <1>4, Moves DEF Apart, Expire, vars, locals

\* Who makes u a speaker
Demotes(c, u) ==
  /\ Subject(c) = u
  /\ \/ pc[c] = "member" /\ role[u] = None
     \/ pc[c] = "write" /\ req[c].op # "signin"
     \/ pc[c] = "update" /\ req[c].want = "speaker"

\* What a step does to the role of u
Fated(u) ==
  \/ UNCHANGED <<role[u], demoter[u]>>
  \/ role'[u] \in MayReview
  \/ \E c \in Call : /\ Demotes(c, u) /\ role'[u] = "speaker" /\ demoter'[u] = c
                     /\ UNCHANGED <<row, met>>

LEMMA RoleMade ==
  ASSUME Domains, DOMAIN role = Person, DOMAIN demoter = Person,
         \A c \in Call : Errand(c), [Next]_vars
  PROVE  /\ DOMAIN role' = Person /\ DOMAIN demoter' = Person
         /\ \A u \in Person : Fated(u)
<1> DEFINE Goal == /\ DOMAIN role' = Person /\ DOMAIN demoter' = Person
                   /\ \A u \in Person : Fated(u)
<1>1. CASE UNCHANGED <<role, demoter>>
  BY <1>1 DEF Fated
<1>2. ASSUME NEW c \in Call, SignsIn(c), GoesOn(c),
             Upsert(c) \/ EnsureMember(c) \/ UpdateRole(c)
      PROVE  Goal
  <2>1. UNCHANGED <<row, met>>
    BY <1>2 DEF SignsIn, reviewTables, GoesOn
  <2>2. CASE UNCHANGED <<role, demoter>>
    BY <2>2, <1>1
  <2>3. CASE Upsert(c) /\ ~UNCHANGED <<role, demoter>>
    <3>1. /\ pc[c] = "write"
          /\ role' = [role EXCEPT ![Subject(c)] = Granted(c)]
          /\ demoter' = IF Granted(c) = "speaker" THEN [demoter EXCEPT ![Subject(c)] = c]
                                                  ELSE demoter
      BY <2>3 DEF Upsert
    <3> QED
      BY <2>1, <3>1 DEF Granted, Fated, Demotes, MayReview
  <2>4. CASE EnsureMember(c) /\ ~UNCHANGED <<role, demoter>>
    <3>1. /\ pc[c] = "member" /\ role[Subject(c)] = None /\ req[c].op = "invite"
          /\ role' = [role EXCEPT ![Subject(c)] = req[c].want]
          /\ demoter' = IF req[c].want = "speaker" THEN [demoter EXCEPT ![Subject(c)] = c]
                                                   ELSE demoter
      BY <2>4 DEF EnsureMember
    <3>2. req[c].want \in Role
      BY <3>1 DEF Errand
    <3> QED
      BY <2>1, <3>1, <3>2 DEF Role, Fated, Demotes, MayReview
  <2>5. CASE UpdateRole(c) /\ ~UNCHANGED <<role, demoter>>
    <3>1. /\ pc[c] = "update"
          /\ role' = [role EXCEPT ![Subject(c)] = req[c].want]
          /\ demoter' = IF req[c].want = "speaker" THEN [demoter EXCEPT ![Subject(c)] = c]
                                                   ELSE demoter
      BY <2>5 DEF UpdateRole
    <3>2. req[c].want \in Role
      BY <3>1 DEF Errand
    <3> QED
      BY <2>1, <3>1, <3>2 DEF Role, Fated, Demotes, MayReview
  <2> QED
    BY <1>2, <2>2, <2>3, <2>4, <2>5
<1>3. ASSUME NEW c \in Call, SignsIn(c), ~Upsert(c), ~EnsureMember(c), ~UpdateRole(c)
      PROVE  UNCHANGED <<role, demoter>>
  BY <1>3 DEF SignsIn, AccountStep, FindUser, CheckMember, CheckFounder, CreateUser,
              ResolvePurpose, InsertLink, Supersede, Regrant, Mail, ReadForUpsert, EnsureUser,
              RereadMember, LookupMember, LookupLink, Consume, InsertSession, Die, tables, others
<1>4. ASSUME NEW c \in Call, ReviewStep(c) PROVE UNCHANGED <<role, demoter>>
  BY <1>4, ReviewMoves DEF tables
<1> QED
  BY <1>1, <1>2, <1>3, <1>4, Moves DEF ComesIn, Expire, tables, others, vars

LEMMA FitStep ==
  ASSUME OrphanInv, [Next]_vars, NEW c \in Call, pc[c] \in ReviewCalls,
         NEW u \in Person, Fit(c, u)
  PROVE  Fit(c, u)'
<1>1. met \subseteq met'
  BY MetStep DEF OrphanInv, NamesInv
<1>2. Fated(u)
  BY RoleMade DEF OrphanInv, NamesInv
<1>3. ASSUME NEW d \in Call, Demotes(d, u) PROVE {c, d} \in met
  <2>1. c # d /\ Running(c) /\ Running(d)
    BY <1>3 DEF Demotes, ReviewCalls, Running
  <2> QED
    BY <2>1 DEF OrphanInv, Overlap
<1>4. None \notin MayReview /\ None # "speaker"
  BY NoneAssumption DEF MayReview
<1> QED
  BY <1>1, <1>2, <1>3, <1>4 DEF Fated, Fit

\* The plans of the desk are those made here.
LEMMA SamePlan == \A e, q : Plan(e, q) = Desk!Plan(e, q)
BY DEF Plan, Planned, Removed, Visit, AllToAll, RoundRobin, PickOne, InTurn, Charge, Recount,
       Kept, LoadBefore, Cardinality, Max, IsFiniteSet,
       Desk!Plan, Desk!Planned, Desk!Removed, Desk!Visit, Desk!AllToAll, Desk!RoundRobin,
       Desk!PickOne, Desk!InTurn, Desk!Charge, Desk!Recount, Desk!Kept, Desk!LoadBefore,
       Desk!Cardinality, Desk!Max, Desk!IsFiniteSet

\* A plan adds only evaluators it was asked about.
LEMMA PlanAsked ==
  ASSUME NEW rs, NEW q \in Question, NEW p \in Plan(StatusOf(rs), q).add
  PROVE  p[2] \in q.evaluators
<1> DEFINE e == StatusOf(rs)
<1>1. IsFiniteSet(Slot) /\ Slot \subseteq Nat \X Nat
  BY NumbersAssumption, FS_Product DEF Slot
<1>2. DOMAIN e \subseteq Slot
  BY DEF StatusOf
<1>3. q \in Asked(Submission, Person)
  BY QuestionAssumption
<1>4. Desk!Sane(e, q)
  <2>1. /\ q.eligible \in SUBSET Submission /\ q.evaluators \in SUBSET Person
        /\ q \in Asked(Nat \ {0}, Nat \ {0})
    BY <1>3, NumbersAssumption DEF Asked
  <2>2. /\ IsFiniteSet(q.eligible) /\ IsFiniteSet(q.evaluators) /\ IsFiniteSet(DOMAIN e)
    BY <1>1, <1>2, <2>1, NumbersAssumption, FS_Subset
  <2> HIDE DEF e
  <2> QED
    BY <1>1, <1>2, <2>1, <2>2 DEF Desk!Sane, Desk!Asked, Asked, Desk!Mode, Mode,
       Desk!Existing, Existing, Desk!IsFiniteSet, IsFiniteSet
<1>5. Desk!Proper(e, q)
  <2>1. /\ Submission \subseteq Nat \ {0} /\ Desk!IsFiniteSet(Submission)
        /\ Person \subseteq Nat \ {0} /\ Desk!IsFiniteSet(Person)
    BY NumbersAssumption DEF IsFiniteSet, Desk!IsFiniteSet
  <2>2. Question \subseteq Desk!Asked(Submission, Person)
    BY QuestionAssumption DEF Asked, Mode, Existing, Desk!Asked, Desk!Mode, Desk!Existing
  <2> HIDE DEF e
  <2> QED
    BY <1>4, <2>1, <2>2, Desk!ProperPlan
<1> QED
  BY <1>5, SamePlan DEF Desk!Proper

\* Who puts a row has looked at its evaluator.
LEMMA PutsFit ==
  ASSUME OrphanInv, NEW c \in Call, NEW p \in Slot, Puts(c, p)
  PROVE  Fit(c, p[2]) /\ pc[c] \in {"place", "commit"}
<1>1. Vetted(c) /\ Errand(c) /\ Kind(c)
  BY DEF OrphanInv, NamesInv
<1>2. CASE pc[c] = "place" /\ p = <<req[c].sub, held[c].now>>
  BY <1>1, <1>2 DEF Vetted
<1>3. CASE pc[c] = "commit" /\ p \in PlanOf(c).add
  <2>1. req[c].token.question \in Question
    BY <1>1, <1>3 DEF Kind, Errand
  <2>2. p[2] \in req[c].token.question.evaluators
    BY <1>3, <2>1, PlanAsked DEF PlanOf
  <2> QED
    BY <1>1, <1>3, <2>2 DEF Vetted
<1> QED
  BY <1>2, <1>3 DEF Puts

LEMMA VettedStep ==
  ASSUME OrphanInv, [Next]_vars, NEW d \in Call
  PROVE  Vetted(d)'
<1>1. Domains /\ Kind(d) /\ Vetted(d) /\ Errand(d)
  BY DEF OrphanInv, NamesInv
<1>2. \A u \in Person : pc[d] \in ReviewCalls /\ Fit(d, u) => Fit(d, u)'
  BY FitStep
<1>3. pc[d] = "estate" \/ pc[d] = "commit" \/ pc[d] = "members" =>
        req[d].token.question.evaluators \subseteq Person
  <2>1. \A q \in Question : q.evaluators \subseteq Person
    BY QuestionAssumption DEF Asked
  <2> QED
    BY <1>1, <2>1 DEF Kind, Errand
<1>4. CASE UNCHANGED <<pc[d], req[d], held[d]>>
  BY <1>1, <1>2, <1>3, <1>4 DEF Vetted, ReviewCalls
<1>5. ASSUME Begins(d) PROVE Vetted(d)'
  <2>1. \/ pc'[d] = "reviewer" /\ held'[d].left \subseteq Person
        \/ pc'[d] \in {"row", "header"}
        \/ pc'[d] \notin ReviewCalls
    BY <1>1, <1>5, Opens
  <2> QED
    BY <2>1 DEF Vetted, ReviewCalls
<1>6. ASSUME SignsIn(d) PROVE Vetted(d)'
  BY <1>1, <1>6, SignsApart DEF ReviewCalls, Vetted
<1>7. ASSUME ReviewStep(d) PROVE Vetted(d)'
  <2>0. UNCHANGED <<req, role, demoter, met>>
    BY <1>1, <1>7, ReviewMoves DEF GoesOn, tables
  <2> USE DEF Goto, Reply, Carry, Domains
  <2>1. CASE pc'[d] \notin {"reviewer", "pair", "place", "estate", "commit"}
    BY <2>1 DEF Vetted
  <2>2. CASE NextReviewer(d)
    <3>1. CASE pc'[d] = "done"
      BY <3>1 DEF Vetted
    <3>2. CASE pc'[d] # "done"
      <4>1. PICK u \in held[d].left :
              /\ role[u] \in MayReview /\ pc'[d] = "pair"
              /\ held'[d] = [left |-> held[d].left \ {u}, now |-> u]
        BY <1>1, <2>2, <3>2 DEF NextReviewer
      <4>2. u \in Person /\ Fit(d, u) /\ held[d].left \subseteq Person
        BY <1>1, <2>2, <4>1, NoneAssumption DEF NextReviewer, Vetted, Fit, MayReview
      <4>3. Fit(d, u)'
        BY <2>0, <4>2 DEF Fit
      <4> QED
        BY <4>1, <4>2, <4>3 DEF Vetted
    <3> QED
      BY <3>1, <3>2
  <2>3. CASE FindPair(d)
    <3>1. /\ pc[d] = "pair" /\ pc'[d] \in {"place", "reviewer"} /\ held' = held
      BY <1>1, <2>3 DEF FindPair
    <3>2. held[d].left \subseteq Person /\ held[d].now \in Person /\ Fit(d, held[d].now)
      BY <1>1, <3>1 DEF Vetted
    <3> QED
      BY <2>0, <3>1, <3>2 DEF Vetted, Fit
  <2>4. CASE InsertAssignment(d)
    <3>1. /\ pc[d] = "place"
          /\ \/ pc' = [pc EXCEPT ![d] = "reviewer"] /\ held' = held
             \/ pc' = [pc EXCEPT ![d] = "done"]
      BY <2>4 DEF InsertAssignment
    <3>2. pc'[d] = "done" \/ (pc'[d] = "reviewer" /\ held' = held)
      BY <1>1, <3>1
    <3> QED
      BY <1>1, <3>1, <3>2 DEF Vetted
  <2>5. CASE ReadMembers(d)
    <3>1. /\ pc'[d] = "estate" /\ pc[d] = "members"
          /\ held'[d].roles = Roles(req[d].token.question)
      BY <1>1, <2>5 DEF ReadMembers
    <3>2. \A v \in req[d].token.question.evaluators :
             held'[d].roles[v] = role[v] /\ (role[v] \in MayReview => Fit(d, v))
      BY <3>1, NoneAssumption DEF Roles, Fit, MayReview
    <3> QED
      BY <2>0, <3>1, <3>2 DEF Vetted, Fit
  <2>6. CASE CompareEstate(d)
    <3>1. CASE pc'[d] = "done"
      BY <3>1 DEF Vetted
    <3>2. CASE pc'[d] # "done"
      <4>1. /\ pc'[d] = "commit" /\ pc[d] = "estate"
            /\ \A v \in req[d].token.question.evaluators : held[d].roles[v] \in MayReview
        BY <1>1, <2>6, <3>2 DEF CompareEstate
      <4>2. \A v \in req[d].token.question.evaluators : Fit(d, v)
        BY <1>1, <4>1 DEF Vetted
      <4> QED
        BY <2>0, <4>1, <4>2 DEF Vetted, Fit
    <3> QED
      BY <3>1, <3>2
  <2>7. CASE UpdateRound(d) \/ ReadCriteria(d) \/ CountScores(d) \/ DropCriteria(d) \/ PutCriteria(d)
    BY <1>1, <2>1, <2>7 DEF UpdateRound, ReadCriteria, CountScores, DropCriteria, PutCriteria
  <2>8. CASE FindAssignment(d) \/ CheckAccess(d) \/ MatchRubric(d) \/ ClearScores(d) \/ EnterScores(d)
    BY <1>1, <2>1, <2>8 DEF FindAssignment, CheckAccess, MatchRubric, ClearScores, EnterScores
  <2>9. CASE MarkAssignment(d) \/ ReadRound(d) \/ FindKey(d) \/ Commit(d) \/ GuardDemotion(d)
    BY <1>1, <2>1, <2>9 DEF MarkAssignment, ReadRound, FindKey, Commit, GuardDemotion
  <2> QED
    BY <1>7, <2>2, <2>3, <2>4, <2>5, <2>6, <2>7, <2>8, <2>9 DEF ReviewStep
<1> QED
  BY <1>1, <1>4, <1>5, <1>6, <1>7, Moves DEF Apart, Expire, vars, locals

\* What becomes of the row of a slot: it is new, or has been there before.
LEMMA RowsThere ==
  ASSUME OrphanInv, [Next]_vars, NEW p \in Slot, row'[p] # None
  PROVE  \/ /\ row[p] # None /\ row'[p].by = row[p].by
            /\ row'[p].status = "pending" => row[p].status = "pending"
         \/ \E c \in Call : /\ row'[p].by = c /\ Fit(c, p[2]) /\ pc[c] \in {"place", "commit"}
                            /\ UNCHANGED <<role, demoter>>
<1>1. NamesInv /\ RowTypes
  BY DEF OrphanInv, NamesInv, NamesRows, RowTypes
<1>2. CASE row[p] # None /\ row'[p].by = row[p].by
  BY <1>1, <1>2, RowStep DEF Stays
<1>3. ASSUME NEW c \in Call, row'[p] = NewRow(c), Puts(c, p), UNCHANGED <<role, demoter>>
      PROVE  row'[p].by = c /\ Fit(c, p[2]) /\ pc[c] \in {"place", "commit"}
  BY <1>3, PutsFit DEF NewRow
<1> QED
  BY <1>1, <1>2, <1>3, RowsMade

LEMMA EmployedStep ==
  ASSUME OrphanInv, [Next]_vars PROVE Employed'
<1> SUFFICES ASSUME NEW p \in Slot, row'[p] # None PROVE role'[p[2]] # None
  BY DEF Employed
<1>1. role[p[2]] # None
  BY RowsThere DEF OrphanInv, Employed, Fit
<1>2. p[2] \in Person
  BY DEF Slot
<1>3. Fated(p[2])
  BY <1>2, RoleMade DEF OrphanInv, NamesInv
<1> QED
  BY <1>1, <1>3, NoneAssumption DEF Fated, MayReview

LEMMA SwornStep ==
  ASSUME OrphanInv, [Next]_vars, NEW d \in Call
  PROVE  Sworn(d)'
<1>1. Domains /\ Sworn(d) /\ Overlap
  BY DEF OrphanInv, NamesInv
<1>2. met \subseteq met'
  BY <1>1, MetStep
\* Rows that come while d is at work are of those it has met.
<1>3. ASSUME pc[d] \in {"read", "write", "update"}, NEW p \in Slot, row'[p] # None
      PROVE  \/ {row'[p].by, d} \in met
             \/ /\ row[p] # None /\ row'[p].by = row[p].by
                /\ row'[p].status = "pending" => row[p].status = "pending"
  <2>1. ASSUME NEW c \in Call, pc[c] \in {"place", "commit"} PROVE {c, d} \in met
    <3>1. c # d /\ Running(c) /\ Running(d)
      BY <1>3, <2>1 DEF Running
    <3> QED
      BY <1>1, <3>1 DEF Overlap
  <2> QED
    BY <1>3, <2>1, RowsThere
<1>4. CASE UNCHANGED <<pc[d], req[d]>>
  BY <1>1, <1>2, <1>3, <1>4 DEF Sworn, Subject
<1>5. ASSUME Begins(d), ComesIn(d) PROVE Sworn(d)'
  BY <1>5 DEF ComesIn, FirstCall, Sworn
<1>6. ASSUME SignsIn(d), GoesOn(d) PROVE Sworn(d)'
  <2>1. UNCHANGED <<row, req, met>>
    BY <1>6 DEF SignsIn, GoesOn, reviewTables
  <2>2. ASSUME pc'[d] = "read", req[d].op # "signin",
               NEW p \in Slot, p[2] = Subject(d), row[p] # None
        PROVE  FALSE
    <3>1. role[Subject(d)] = None
      BY <1>1, <1>6, <2>2, SignsTo DEF OrphanInv, Errand
    <3> QED
      BY <2>2, <3>1 DEF OrphanInv, Employed
  <2>3. pc'[d] = "write" => pc[d] = "read"
    BY <1>1, <1>6, SignsTo
  <2>4. pc'[d] = "update" => req[d].want # "speaker"
    BY <1>1, <1>6, SignsTo
  <2> QED
    BY <1>1, <2>1, <2>2, <2>3, <2>4 DEF Sworn, Subject
<1>7. ASSUME ReviewStep(d), GoesOn(d) PROVE Sworn(d)'
  <2>1. pc'[d] \notin {"read", "write"} /\ UNCHANGED req
    BY <1>1, <1>7, ReviewMoves DEF AfterReview, GoesOn
  <2>2. ASSUME pc'[d] = "update", NEW p \in Slot, p[2] = Subject(d),
               row'[p] # None, row'[p].status = "pending"
        PROVE  FALSE
    <3>1. ~HasPending(Subject(d)) /\ row' = row
      BY <1>1, <1>7, <2>2, Guarded
    <3>2. p[1] \in Submission /\ p = <<p[1], Subject(d)>>
      BY <2>2 DEF Slot
    <3> QED
      BY <2>2, <3>1, <3>2 DEF HasPending
  <2> QED
    BY <2>1, <2>2 DEF Sworn, Subject
<1> QED
  BY <1>1, <1>4, <1>5, <1>6, <1>7, Moves DEF Apart, Expire, vars, locals

LEMMA OrphanStep ==
  ASSUME OrphanInv, [Next]_vars PROVE OrphanOnlyByRace'
<1> SUFFICES ASSUME NEW p \in Slot, row'[p] # None, row'[p].status = "pending",
                    role'[p[2]] \notin MayReview
             PROVE  {row'[p].by, demoter'[p[2]]} \in met'
  BY DEF OrphanOnlyByRace
<1> DEFINE u == p[2]
<1>1. u \in Person
  BY DEF Slot
<1>2. Fated(u)
  BY <1>1, RoleMade DEF OrphanInv, NamesInv
<1>3. met \subseteq met'
  BY MetStep DEF OrphanInv, NamesInv
<1>4. CASE /\ row[p] # None /\ row'[p].by = row[p].by /\ row[p].status = "pending"
  <2>1. CASE UNCHANGED <<role[u], demoter[u]>>
    BY <1>3, <1>4, <2>1 DEF OrphanInv, OrphanOnlyByRace
  <2>2. ASSUME NEW c \in Call, Demotes(c, u), demoter'[u] = c PROVE {row[p].by, c} \in met
    <3>1. role[u] # None
      BY <1>4 DEF OrphanInv, Employed
    <3>2. Sworn(c)
      BY DEF OrphanInv
    <3> QED
      BY <1>4, <2>2, <3>1, <3>2 DEF Demotes, Sworn
  <2> QED
    BY <1>2, <1>3, <1>4, <2>1, <2>2 DEF Fated
<1>5. ASSUME NEW c \in Call, row'[p].by = c, Fit(c, u), UNCHANGED <<role, demoter>>
      PROVE  {c, demoter'[u]} \in met'
  BY <1>3, <1>5 DEF Fit
<1> QED
  BY <1>4, <1>5, RowsThere

(* A review pending of somebody who may not give it is always the doing of  *)
(* two requests in progress together: the one that assigned it and the one  *)
(* that made him a speaker, by a change of role or by a provisioning        *)
(* (setMemberRole; commitBulkAssignAtomic), whatever else is going on.      *)
THEOREM OrphansNeedARace == Spec => []OrphanOnlyByRace
<1>1. Init => OrphanInv
  <2> SUFFICES ASSUME Init PROVE OrphanInv
    OBVIOUS
  <2>1. NamesInv
    BY HonestStart DEF HonestInv
  <2>2. pc = [c \in Call |-> "idle"]
    BY DEF Init, AccountInit
  <2>3. Overlap /\ \A c \in Call : Errand(c) /\ Vetted(c) /\ Sworn(c)
    BY <2>2 DEF Overlap, Running, Errand, Vetted, Sworn
  <2>4. DOMAIN role = Person /\ DOMAIN demoter = Person
    BY DEF Init, AccountInit
  <2>5. \A p \in Slot : row[p] # None => role[p[2]] \in MayReview
    <3>1. PICK st \in [Slot -> {None, "pending", "scored"}] :
            /\ \A p \in Slot : st[p] # None => role[p[2]] \in MayReview
            /\ row = [p \in Slot |-> IF st[p] = None THEN None
                                     ELSE [by |-> None, status |-> st[p], at |-> 0]]
      BY DEF Init
    <3> QED
      BY <3>1
  <2>6. Employed /\ OrphanOnlyByRace
    BY <2>5, NoneAssumption DEF Employed, OrphanOnlyByRace, MayReview
  <2> QED
    BY <2>1, <2>3, <2>4, <2>6 DEF OrphanInv
<1>2. OrphanInv /\ [Next]_vars => OrphanInv'
  <2> SUFFICES ASSUME OrphanInv, [Next]_vars PROVE OrphanInv'
    OBVIOUS
  <2>1. NamesInv' /\ Overlap'
    BY NamesStep, MetStep DEF OrphanInv, NamesInv
  <2>2. DOMAIN role' = Person /\ DOMAIN demoter' = Person
    BY RoleMade DEF OrphanInv, NamesInv
  <2>3. \A c \in Call : Errand(c)' /\ Vetted(c)' /\ Sworn(c)'
    BY ErrandStep, VettedStep, SwornStep DEF OrphanInv, NamesInv
  <2> QED
    BY <2>1, <2>2, <2>3, EmployedStep, OrphanStep DEF OrphanInv
<1>3. OrphanInv => OrphanOnlyByRace
  BY DEF OrphanInv
<1> QED
  BY <1>1, <1>2, <1>3, PTL DEF Spec
=============================================================================
