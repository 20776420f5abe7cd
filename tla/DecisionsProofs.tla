--------------------------- MODULE DecisionsProofs ---------------------------
(***************************************************************************)
(* Proofs about Decisions, for any set of submissions, speakers and task   *)
(* templates and any finite set of requests, however many run at a time    *)
(* and however many of them die:                                           *)
(*                                                                         *)
(*   InOrder           the tables keep their references, and a request     *)
(*                     knows at each of its labels what the code has read; *)
(*   AddsUp            among acceptances alone, every one that answered ok *)
(*                     is in effect;                                       *)
(*   MeansApplied      the newest decision on a submission, had it the     *)
(*                     system to itself and answered ok, is applied and    *)
(*                     stays so until the next one, and a rejection has    *)
(*                     freed the speakers it took off the session;         *)
(*   OneAfterTheOther  after requests that never overlapped, nobody holds  *)
(*                     a place in the program without a session,           *)
(*   StageKept         and nobody on a session lacks one.                  *)
(*                                                                         *)
(* The properties speak of finished requests, so each needs to know what a *)
(* request has done at every label on its way.  Progress says it of one    *)
(* that nobody works against: because it had the system to itself, or      *)
(* because all are acceptances and these only add.  SoloNoted and          *)
(* SoloTaken add what only the former can rely on.  Of finished requests,  *)
(* Succession says that whoever still works on the submission makes its    *)
(* newest request share the system, and Spares that a request that takes   *)
(* away has not aimed at a speaker the newest one seated.  Tidy accounts   *)
(* for every speaker while one request is under way: he is on a stage, or  *)
(* holds nothing, or that request is about to see to him.  Spent, last,    *)
(* says so of those that a rejection took off its session.                 *)
(***************************************************************************)
EXTENDS Decisions, FiniteSetTheorems, TLAPS

-----------------------------------------------------------------------------
(* Types and the order of the steps *)

\* What the tables and the histories hold
SubmissionRow == [status : {"submitted", "accepted", "rejected", "waitlist"}, version : Nat]
PartRow  == [status : {"accepted", "withdrawn"}, version : Nat]
TaskRow  == [status : {"pending", "completed", "cancelled"}, version : Nat]
Verdict  == [value : Decision, reason : Reason]
Entry    == [value : Decision, reason : Reason, at : Nat]
Asked    == [submission : Submission, decision : Decision, reason : Reason,
             expected : Expected]
Added    == [submission : {None}, speakers : SUBSET Speaker]

\* Where a request is
Opening   == {"decision", "claim"}
Seating   == {"session", "create", "reactivate"}
Casting   == {"speakers", "participation", "linked", "link"}
Tasking   == {"tasks", "task"}
Clearing  == {"free", "onstage", "cancelling", "withdraw"}
Leaving   == {"lookup", "crew", "unlink", "cancel"} \union Clearing
Recording == {"ensure", "upsert", "insert", "update", "audit"}
Labels    == {"start", "done"} \union Opening \union Seating \union Casting
               \union Tasking \union Leaving \union Recording

\* The type invariant: the tables, the locals of the requests, the histories
TablesOK ==
  /\ submission \in [Submission -> SubmissionRow]
  /\ decision \in [Submission -> Verdict \union {None}]
  /\ session \in [Session -> {None, "confirmed", "cancelled"}]
  /\ links \in [Session -> SUBSET Speaker]
  /\ part \in [Speaker -> PartRow \union {None}]
  /\ task \in [Task -> TaskRow \union {None}]
  /\ audit \in [Submission -> Entry \union {None}]

CallsOK ==
  /\ pc \in [Call -> Labels]
  /\ seen \in [Call -> SubmissionRow \union {None}]
  /\ old \in [Call -> Verdict \union {None}]
  /\ todo \in [Call -> SUBSET (Speaker \union Task)]
  /\ who \in [Call -> Speaker \union Task \union {None}]
  /\ row \in [Call -> PartRow \union TaskRow \union {None, "confirmed", "cancelled"}]
  /\ listed \in [Call -> SUBSET (Session \union [task : Task, row : TaskRow])]
  /\ answer \in [Call -> {None, "ok", "conflict", "error", "lost"}]

HistoryOK ==
  /\ request \in [Call -> Asked \union Added \union {None}]
  /\ at \in [Call -> Nat]
  /\ solo \in [Call -> BOOLEAN]
  /\ latest \in [Submission -> Call \union {None}]
  /\ freed \in [Submission -> SUBSET Speaker]
  /\ crashes \in Nat /\ portal \in Nat

TypeOK == TablesOK /\ CallsOK /\ HistoryOK

\* Speaker p has a participation row.
Known(p) == part[p] # None

\* the tables agree
Rooted ==
  /\ \A x \in Session : session[x] = None => links[x] = {}
  /\ \A x \in Session : \A p \in links[x] : Known(p)
  /\ \A s \in Submission : links[s] \subseteq Author[s]

\* What a request knows where it is
Place(c) ==
  /\ pc[c] = "start" <=> request[c] = None
  /\ answer[c] # None => pc[c] = "done"
  /\ pc[c] \in {"start", "decision"} => at[c] = 0
  /\ pc[c] \in Opening => seen[c] # None
  /\ pc[c] # "start" /\ Direct(c) =>
       pc[c] \in {"speakers", "participation", "link", "tasks", "task", "done"}
  /\ pc[c] \in Seating \union Casting \union Tasking /\ ~Direct(c) => Value(c) = "accept"
  /\ pc[c] \in Leaving => Value(c) # "accept"
  /\ pc[c] \in Seating \union Casting \union Tasking \union Leaving \union Recording 
        /\ ~Direct(c) => seen[c] # None

\* what it works on is in the tables and belongs to what it was asked,
Aim(c) ==
  /\ pc[c] \in Casting \union Tasking => session[SessionOf(c)] # None
  /\ pc[c] \in Casting => todo[c] \subseteq Crew(c)
  /\ pc[c] \in Tasking => todo[c] \subseteq Template \X Crew(c)
  /\ pc[c] \in {"crew", "unlink"} => row[c] \in {"confirmed", "cancelled"}
  /\ pc[c] \in {"unlink", "cancel"} \union Clearing => todo[c] \subseteq {p \in Speaker : Known(p)}
  /\ pc[c] \in {"participation", "linked", "link", "task", "onstage", "cancelling", "withdraw"}
       => who[c] \in todo[c]

\* and a row it has read is that of the speaker or task it works on.
Reads(c) ==
  /\ pc[c] = "participation" =>
       row[c] \in PartRow \union {None} /\ (row[c] # None => Known(who[c]))
  /\ pc[c] \in {"linked", "link"} => Known(who[c])
  /\ pc[c] = "task" =>
       row[c] \in TaskRow \union {None} /\ (row[c] # None => task[who[c]] # None)
  /\ pc[c] = "onstage" => listed[c] \subseteq Session
  /\ pc[c] = "cancelling" => listed[c] \subseteq [task : Template \X {who[c]}, row : TaskRow]
  /\ pc[c] = "withdraw" => row[c] \in PartRow

\* The inductive invariant on which the others build
Order == TypeOK /\ Rooted /\ \A c \in Call : Place(c) /\ Aim(c) /\ Reads(c)

\* Of the locals, only those of c change.
Own(c) ==
  /\ pc' = [pc EXCEPT ![c] = pc'[c]]
  /\ seen' = [seen EXCEPT ![c] = seen'[c]]
  /\ old' = [old EXCEPT ![c] = old'[c]]
  /\ todo' = [todo EXCEPT ![c] = todo'[c]]
  /\ who' = [who EXCEPT ![c] = who'[c]]
  /\ row' = [row EXCEPT ![c] = row'[c]]
  /\ listed' = [listed EXCEPT ![c] = listed'[c]]
  /\ answer' = [answer EXCEPT ![c] = answer'[c]]

\* Its new locals have their types.
Fit(c) ==
  /\ pc[c] \in Labels
  /\ seen[c] \in SubmissionRow \union {None}
  /\ old[c] \in Verdict \union {None}
  /\ todo[c] \subseteq Speaker \union Task
  /\ who[c] \in Speaker \union Task \union {None}
  /\ row[c] \in PartRow \union TaskRow \union {None, "confirmed", "cancelled"}
  /\ listed[c] \subseteq Session \union [task : Task, row : TaskRow]
  /\ answer[c] \in {None, "ok", "conflict", "error", "lost"}

\* Together they keep the types of all.
LEMMA OwnOK ==
  ASSUME CallsOK, NEW c \in Call, Own(c), Fit(c)' PROVE CallsOK'
<1>1. pc' \in [Call -> Labels] BY DEF CallsOK, Own, Fit
<1>2. seen' \in [Call -> SubmissionRow \union {None}] BY DEF CallsOK, Own, Fit
<1>3. old' \in [Call -> Verdict \union {None}] BY DEF CallsOK, Own, Fit
<1>4. todo' \in [Call -> SUBSET (Speaker \union Task)] BY DEF CallsOK, Own, Fit
<1>5. who' \in [Call -> Speaker \union Task \union {None}] BY DEF CallsOK, Own, Fit
<1>6. row' \in [Call -> PartRow \union TaskRow \union {None, "confirmed", "cancelled"}]
  BY DEF CallsOK, Own, Fit
<1>7. listed' \in [Call -> SUBSET (Session \union [task : Task, row : TaskRow])]
  BY DEF CallsOK, Own, Fit
<1>8. answer' \in [Call -> {None, "ok", "conflict", "error", "lost"}] BY DEF CallsOK, Own, Fit
<1> QED BY <1>1, <1>2, <1>3, <1>4, <1>5, <1>6, <1>7, <1>8 DEF CallsOK

\* From here on the labels are read as the sets they are.
USE DEF Opening, Seating, Casting, Tasking, Clearing, Leaving, Recording

\* Nothing of request d has changed.
Still(d) ==
  /\ pc'[d] = pc[d] /\ seen'[d] = seen[d] /\ old'[d] = old[d]
  /\ todo'[d] = todo[d] /\ who'[d] = who[d] /\ row'[d] = row[d]
  /\ listed'[d] = listed[d] /\ answer'[d] = answer[d]
  /\ request'[d] = request[d] /\ at'[d] = at[d]

LEMMA OwnStill ==
  ASSUME CallsOK, NEW c \in Call, Own(c), NEW d \in Call, d # c,
         request'[d] = request[d], at'[d] = at[d]
  PROVE  Still(d)
BY DEF CallsOK, Own, Still

LEMMA AllFit == ASSUME CallsOK, NEW c \in Call PROVE Fit(c)
BY DEF CallsOK, Fit

\* The ways in which the steps set the locals of their request
LEMMA OwnSame ==
  ASSUME CallsOK, NEW c \in Call
  PROVE  /\ pc = [pc EXCEPT ![c] = pc[c]]
         /\ seen = [seen EXCEPT ![c] = seen[c]]
         /\ old = [old EXCEPT ![c] = old[c]]
         /\ todo = [todo EXCEPT ![c] = todo[c]]
         /\ who = [who EXCEPT ![c] = who[c]]
         /\ row = [row EXCEPT ![c] = row[c]]
         /\ listed = [listed EXCEPT ![c] = listed[c]]
         /\ answer = [answer EXCEPT ![c] = answer[c]]
BY DEF CallsOK

LEMMA Jump ==
  ASSUME CallsOK, NEW c \in Call, NEW l, Goto(c, l), UNCHANGED localVars
  PROVE  Own(c) /\ pc'[c] = l
BY OwnSame DEF CallsOK, Goto, Own, localVars

LEMMA Looped ==
  ASSUME CallsOK, NEW c \in Call, NEW l, NEW set, Loop(c, l, set),
         UNCHANGED <<seen, old, who, row, listed, answer>>
  PROVE  Own(c) /\ pc'[c] = l /\ todo'[c] = set
BY OwnSame DEF CallsOK, Goto, Loop, Own

LEMMA RowRead ==
  ASSUME CallsOK, NEW c \in Call, NEW l, NEW w, NEW r, Read(c, l, w, r)
  PROVE  Own(c) /\ pc'[c] = l /\ who'[c] = w /\ row'[c] = r
BY OwnSame DEF CallsOK, Goto, Read, Own

LEMMA Replied ==
  ASSUME CallsOK, NEW c \in Call, NEW a, Reply(c, a)
  PROVE  /\ Own(c) /\ pc'[c] = "done" /\ answer'[c] = a /\ seen'[c] = None /\ old'[c] = None
         /\ todo'[c] = {} /\ who'[c] = None /\ row'[c] = None /\ listed'[c] = {}
BY OwnSame DEF CallsOK, Goto, Reply, Own

\* Rows are never deleted.
Keeps ==
  /\ \A x \in Session : session[x] # None => session'[x] # None
  /\ \A p \in Speaker : Known(p) => part'[p] # None
  /\ \A t \in Task : task[t] # None => task'[t] # None

\* What the invariant says of one request
At(c) == Place(c) /\ Aim(c) /\ Reads(c)

\* What is shown of every step of a request
Sound(c) == /\ TypeOK' /\ Rooted' /\ Keeps
            /\ \A d \in Call \ {c} : Still(d)
            /\ At(c)'

\* Facts about the data
LEMMA StatusIs ==
  /\ StatusOf["accept"] = "accepted" /\ StatusOf["reject"] = "rejected"
  /\ StatusOf["waitlist"] = "waitlist"
<1>1. StatusOf["accept"] = "accepted"
  BY DEF StatusOf
<1>2. StatusOf["reject"] = "rejected"
  BY DEF StatusOf
<1>3. StatusOf["waitlist"] = "waitlist"
  BY DEF StatusOf
<1> QED
  BY <1>1, <1>2, <1>3

LEMMA NoneIsNoRow ==
  None \notin SubmissionRow \union PartRow \union TaskRow
<1>1. None \notin SubmissionRow
  BY NoneAssumption DEF SubmissionRow
<1>2. None \notin PartRow
  BY NoneAssumption DEF PartRow
<1>3. None \notin TaskRow
  BY NoneAssumption DEF TaskRow
<1> QED
  BY <1>1, <1>2, <1>3

\* Steps that leave the tables alone, or the histories
LEMMA Quiet ==
  ASSUME TablesOK, Rooted, UNCHANGED tables
  PROVE  TablesOK' /\ Rooted' /\ Keeps
BY DEF tables, TablesOK, Rooted, Keeps, Known

LEMMA QuietHistory ==
  ASSUME HistoryOK, UNCHANGED <<startVars, boundVars, at>>
  PROVE  HistoryOK' /\ \A d \in Call : request'[d] = request[d] /\ at'[d] = at[d]
BY DEF HistoryOK, startVars, boundVars

\* What a step shows of its own request is enough.
LEMMA Closed ==
  ASSUME Order, NEW c \in Call, TablesOK', Rooted', Keeps, HistoryOK',
         \A d \in Call \ {c} : request'[d] = request[d] /\ at'[d] = at[d],
         Own(c), Fit(c)', Place(c)', Aim(c)', Reads(c)'
  PROVE  Sound(c)
<1>1. CallsOK'
  BY OwnOK DEF Order, TypeOK
<1>2. \A d \in Call \ {c} : Still(d)
  BY OwnStill DEF Order, TypeOK
<1> QED
  BY <1>1, <1>2 DEF Sound, TypeOK, At

\* What was asked, and of whom
LEMMA Requests ==
  ASSUME HistoryOK, NEW c \in Call, request[c] # None
  PROVE  /\ Direct(c) => request[c] \in Added
         /\ ~Direct(c) => /\ request[c] \in Asked /\ Sub(c) \in Submission
                          /\ Value(c) \in Decision /\ Why(c) \in Reason
<1>1. request[c] \in Asked \/ request[c] \in Added
  BY DEF HistoryOK
<1>2. CASE request[c] \in Asked
  BY <1>2, NoneAssumption DEF Direct, Asked, Sub, Value, Why
<1>3. CASE request[c] \in Added
  BY <1>3 DEF Direct, Added
<1> QED
  BY <1>1, <1>2, <1>3

LEMMA Crews ==
  ASSUME HistoryOK, NEW c \in Call, request[c] # None
  PROVE  Crew(c) \subseteq Speaker /\ SessionOf(c) \in Session
<1>1. CASE Direct(c)
  BY <1>1, Requests DEF Added, Crew, SessionOf, Session
<1>2. CASE ~Direct(c)
  BY <1>2, Requests, AuthorAssumption DEF Crew, SessionOf, Session
<1> QED
  BY <1>1, <1>2

\* a request that has ended
LEMMA Parted ==
  ASSUME Order, NEW c \in Call, NEW a \in {"ok", "conflict", "error", "lost"}, Reply(c, a),
         request'[c] = request[c], pc[c] # "start"
  PROVE  Own(c) /\ Fit(c)' /\ Place(c)' /\ Aim(c)' /\ Reads(c)'
<1>1. /\ Own(c) /\ pc'[c] = "done" /\ answer'[c] = a /\ seen'[c] = None /\ old'[c] = None
      /\ todo'[c] = {} /\ who'[c] = None /\ row'[c] = None /\ listed'[c] = {}
  BY Replied DEF Order, TypeOK
<1>2. Fit(c)'
  BY <1>1 DEF Fit, Labels
<1>3. Place(c)'
  BY <1>1 DEF Place, Order
<1>4. Aim(c)' /\ Reads(c)'
  BY <1>1 DEF Aim, Reads
<1> QED
  BY <1>1, <1>2, <1>3, <1>4

\* Every step of a request, in the order of the module
LEMMA FindSessionSound ==
  ASSUME Order, NEW c \in Call, FindSession(c) PROVE Sound(c)
<1> USE DEF Order, TypeOK
<1>1. TablesOK' /\ Rooted' /\ Keeps
  BY Quiet DEF FindSession
<1>2. HistoryOK' /\ \A d \in Call : request'[d] = request[d] /\ at'[d] = at[d]
  BY QuietHistory DEF FindSession
<1>3. Fit(c) /\ Place(c) /\ pc[c] = "session"
  BY AllFit DEF FindSession
<1>4. ~Direct(c) /\ Crew(c) \subseteq Speaker /\ request[c] # None
  BY <1>3, Crews DEF Place
<1>5. CASE /\ Loop(c, "speakers", Crew(c)) /\ session[Sub(c)] = "confirmed"
           /\ UNCHANGED <<seen, old, who, row, listed, answer>>
  <2>1. Own(c) /\ pc'[c] = "speakers" /\ todo'[c] = Crew(c)
    BY <1>5, Looped
  <2>2. Fit(c)'
    BY <2>1, <1>3, <1>4, <1>5 DEF Fit, Labels
  <2>3. Place(c)'
    BY <2>1, <1>2, <1>3, <1>5 DEF Place, Direct, Value
  <2>4. Aim(c)'
    BY <2>1, <1>2, <1>4, <1>5, NoneAssumption
    DEF FindSession, Aim, Crew, SessionOf, Direct, Sub, tables
  <2>5. Reads(c)'
    BY <2>1 DEF Reads
  <2> QED
    BY <2>1, <2>2, <2>3, <2>4, <2>5, <1>1, <1>2, Closed
<1>6. ASSUME NEW l \in {"create", "reactivate"}, Goto(c, l), UNCHANGED localVars
      PROVE  Sound(c)
  <2>1. Own(c) /\ pc'[c] = l
    BY <1>6, Jump
  <2>2. Fit(c)'
    BY <2>1, <1>3, <1>6 DEF Fit, localVars, Labels
  <2>3. Place(c)'
    BY <2>1, <1>2, <1>3, <1>6 DEF localVars, Place, Direct, Value
  <2>4. Aim(c)' /\ Reads(c)'
    BY <2>1 DEF Aim, Reads
  <2> QED
    BY <2>1, <2>2, <2>3, <2>4, <1>1, <1>2, Closed
<1>7. session[Sub(c)] \in {None, "cancelled", "confirmed"}
  BY <1>4, Requests DEF TablesOK, Session
<1> QED
  BY <1>5, <1>6, <1>7, NoneAssumption DEF FindSession, localVars

LEMMA RecordSound ==
  ASSUME Order, NEW c \in Call, NEW s \in Submission, NEW d \in Decision, NEW r \in Reason,
         NEW v \in Expected, Record(c, s, d, r, v)
  PROVE  Sound(c)
<1> USE DEF Order, TypeOK
<1>1. TablesOK' /\ Rooted' /\ Keeps
  BY Quiet DEF Record
<1> DEFINE ask == [submission |-> s, decision |-> d, reason |-> r, expected |-> v]
<1>2. ask \in Asked /\ ask # None /\ s # None
  BY NoneAssumption DEF Asked
<1>3. /\ request' = [request EXCEPT ![c] = ask] /\ at' = at
      /\ UNCHANGED <<crashes, portal>> /\ freed' = [z \in Submission |-> {}]
  BY DEF Record, Begin
<1>4. request'[c] = ask /\ \A e \in Call \ {c} : request'[e] = request[e]
  BY <1>3 DEF HistoryOK
<1>5. HistoryOK'
  <2>1. request' \in [Call -> Asked \union Added \union {None}]
    BY <1>2, <1>3 DEF HistoryOK
  <2>2. solo' \in [Call -> BOOLEAN]
    BY DEF Record, Begin, HistoryOK
  <2>3. latest' \in [Submission -> Call \union {None}]
    BY DEF Record, HistoryOK
  <2> QED
    BY <2>1, <2>2, <2>3, <1>3 DEF HistoryOK
<1>6. Fit(c) /\ Place(c) /\ pc[c] = "start"
  BY AllFit DEF Record, Begin
<1>7. Own(c) /\ pc'[c] = "decision" /\ seen'[c] = submission[s]
  BY OwnSame DEF Record, Goto, Own, CallsOK
<1>8. submission[s] \in SubmissionRow /\ submission[s] # None
  BY NoneIsNoRow DEF TablesOK
<1>9. Fit(c)'
  BY <1>6, <1>7, <1>8 DEF Fit, Record, Labels
<1>10. Place(c)'
  BY <1>2, <1>3, <1>4, <1>6, <1>7, <1>8 DEF Place, Record, Direct
<1>11. Aim(c)' /\ Reads(c)'
  BY <1>7 DEF Aim, Reads
<1> QED
  BY <1>1, <1>3, <1>4, <1>5, <1>7, <1>9, <1>10, <1>11, Closed

LEMMA CreateDirectSound ==
  ASSUME Order, NEW c \in Call, NEW crew \in SUBSET Speaker, CreateDirect(c, crew)
  PROVE  Sound(c)
<1> USE DEF Order, TypeOK
<1> DEFINE ask == [submission |-> None, speakers |-> crew]
<1>1. ask \in Added /\ ask # None /\ ask.submission = None /\ ask.speakers = crew
  BY NoneAssumption DEF Added
<1>2. /\ request' = [request EXCEPT ![c] = ask] /\ at' = at
      /\ UNCHANGED <<crashes, portal>> /\ freed' = [s \in Submission |-> {}]
      /\ session' = [session EXCEPT ![c] = "confirmed"]
      /\ UNCHANGED <<submission, decision, links, part, task, audit, latest>>
  BY DEF CreateDirect, Begin
<1> HIDE DEF ask
<1>3. request'[c] = ask /\ \A e \in Call \ {c} : request'[e] = request[e]
  BY <1>2 DEF HistoryOK
<1>4. HistoryOK'
  <2>1. request' \in [Call -> Asked \union Added \union {None}]
    BY <1>1, <1>2 DEF HistoryOK
  <2>2. solo' \in [Call -> BOOLEAN]
    BY DEF CreateDirect, Begin, HistoryOK
  <2> QED
    BY <2>1, <2>2, <1>2 DEF HistoryOK
<1>5. /\ session' \in [Session -> {None, "confirmed", "cancelled"}] /\ Keeps
      /\ session'[c] = "confirmed" /\ c \in Session
      /\ \A x \in Session : session'[x] = None => session[x] = None
  BY <1>2, NoneAssumption DEF TablesOK, Keeps, Session, Known
<1>6. TablesOK' /\ Rooted'
  BY <1>2, <1>5 DEF TablesOK, Rooted, Known
<1>7. Fit(c) /\ Place(c) /\ pc[c] = "start"
  BY AllFit DEF CreateDirect, Begin
<1>8. Own(c) /\ pc'[c] = "speakers" /\ todo'[c] = crew
  BY Looped DEF CreateDirect
<1>9. Fit(c)'
  BY <1>7, <1>8 DEF Fit, CreateDirect, Labels
<1>10. Place(c)'
  BY <1>1, <1>2, <1>3, <1>7, <1>8 DEF Place, CreateDirect, Direct
<1>11. Aim(c)' /\ Reads(c)'
  BY <1>1, <1>3, <1>5, <1>8, NoneAssumption DEF Aim, Reads, Crew, SessionOf, Direct
<1> QED
  BY <1>2, <1>3, <1>4, <1>5, <1>6, <1>8, <1>9, <1>10, <1>11, Closed

LEMMA ReadDecisionSound ==
  ASSUME Order, NEW c \in Call, ReadDecision(c) PROVE Sound(c)
<1> USE DEF Order, TypeOK
<1>1. TablesOK' /\ Rooted' /\ Keeps
  BY Quiet DEF ReadDecision
<1>2. at'[c] \in Nat /\ at' = [at EXCEPT ![c] = at'[c]]
  <2>1. IsFiniteSet({d \in Call : at[d] > 0})
    BY CallAssumption, FS_Subset
  <2>2. Cardinality({d \in Call : at[d] > 0}) \in Nat
    BY <2>1, FS_CardinalityType
  <2> QED
    BY <2>2 DEF ReadDecision, HistoryOK
<1>3. request' = request /\ UNCHANGED <<startVars, boundVars>>
  BY DEF ReadDecision, startVars
<1>4. HistoryOK' /\ \A d \in Call \ {c} : at'[d] = at[d]
  BY <1>2, <1>3 DEF HistoryOK, startVars, boundVars
<1>5. Fit(c) /\ Place(c) /\ pc[c] = "decision"
  BY AllFit DEF ReadDecision
<1>6. CASE Reply(c, "conflict")
  BY <1>1, <1>3, <1>4, <1>5, <1>6, Parted, Closed
<1>7. ~Direct(c) /\ request[c] # None
  BY <1>5 DEF Place
<1>8. ASSUME NEW l \in {"claim", "session", "lookup"}, Goto(c, l),
             l = "session" => Value(c) = "accept", l = "lookup" => Value(c) # "accept",
             old' = [old EXCEPT ![c] = decision[Sub(c)]],
             UNCHANGED <<seen, todo, who, row, listed, answer>>
      PROVE  Sound(c)
  <2>1. Own(c) /\ pc'[c] = l /\ old'[c] = decision[Sub(c)]
    BY <1>8, OwnSame DEF Goto, Own, CallsOK
  <2>2. decision[Sub(c)] \in Verdict \union {None}
    BY <1>7, Requests DEF TablesOK
  <2>3. Fit(c)'
    BY <2>1, <2>2, <1>5, <1>8 DEF Fit, Labels
  <2>4. Place(c)'
    BY <2>1, <1>3, <1>5, <1>8 DEF Place, Direct, Value
  <2>5. Aim(c)' /\ Reads(c)'
    BY <2>1 DEF Aim, Reads
  <2> QED
    BY <2>1, <2>3, <2>4, <2>5, <1>1, <1>3, <1>4, Closed
<1>9. CASE /\ old' = [old EXCEPT ![c] = decision[Sub(c)]]
           /\ Goto(c, IF NeedsClaim(c, decision[Sub(c)]) THEN "claim"
                      ELSE Work(c, decision[Sub(c)]))
           /\ UNCHANGED <<seen, todo, who, row, listed, answer>>
  BY <1>8, <1>9 DEF Work
<1> QED
  BY <1>6, <1>9 DEF ReadDecision

LEMMA ClaimSound ==
  ASSUME Order, NEW c \in Call, Claim(c) PROVE Sound(c)
<1> USE DEF Order, TypeOK
<1>2. HistoryOK' /\ \A d \in Call : request'[d] = request[d] /\ at'[d] = at[d]
  BY QuietHistory DEF Claim
<1>3. Fit(c) /\ Place(c) /\ pc[c] = "claim"
  BY AllFit DEF Claim
<1>4. ~Direct(c) /\ request[c] # None
  BY <1>3 DEF Place
<1>5. CASE Reply(c, "conflict") /\ UNCHANGED submission
  <2>1. TablesOK' /\ Rooted' /\ Keeps
    BY <1>5, Quiet DEF Claim, tables
  <2> QED
    BY <2>1, <1>2, <1>3, <1>5, Parted, Closed
<1>6. CASE /\ submission' = [submission EXCEPT ![Sub(c)] =
                 [status |-> StatusOf[Value(c)], version |-> seen[c].version + 1]]
           /\ Goto(c, Work(c, old[c]))
           /\ UNCHANGED localVars
  <2>1. seen[c] \in SubmissionRow
    BY <1>3, <1>4 DEF Place, Fit
  <2>2. StatusOf[Value(c)] \in {"accepted", "rejected", "waitlist"}
    BY <1>4, Requests, DecisionAssumption, StatusIs
  <2>3. [status |-> StatusOf[Value(c)], version |-> seen[c].version + 1] \in SubmissionRow
    BY <2>1, <2>2 DEF SubmissionRow
  <2>4. submission' \in [Submission -> SubmissionRow]
    BY <2>3, <1>6 DEF TablesOK
  <2>5. TablesOK' /\ Rooted' /\ Keeps
    BY <2>4 DEF Claim, TablesOK, Rooted, Keeps, Known
  <2>6. Own(c) /\ pc'[c] = Work(c, old[c])
    BY <1>6, Jump
  <2>7. Fit(c)'
    BY <2>6, <1>3, <1>6 DEF Fit, localVars, Labels, Work
  <2>8. Place(c)'
    BY <2>6, <1>2, <1>3, <1>6 DEF localVars, Place, Direct, Value, Work
  <2>9. Aim(c)' /\ Reads(c)'
    BY <2>6 DEF Aim, Reads, Work
  <2> QED
    BY <2>5, <2>6, <2>7, <2>8, <2>9, <1>2, Closed
<1> QED
  BY <1>5, <1>6 DEF Claim

LEMMA ConfirmSessionSound ==
  ASSUME Order, NEW c \in Call, ConfirmSession(c) PROVE Sound(c)
<1> USE DEF Order, TypeOK
<1>1. HistoryOK' /\ \A d \in Call : request'[d] = request[d] /\ at'[d] = at[d]
  BY QuietHistory DEF ConfirmSession
<1>2. Fit(c) /\ Place(c) /\ pc[c] \in {"create", "reactivate"}
  BY AllFit DEF ConfirmSession
<1>3. /\ ~Direct(c) /\ Crew(c) \subseteq Speaker /\ request[c] # None
      /\ SessionOf(c) = Sub(c) /\ Sub(c) \in Session
  BY <1>2, Crews DEF Place, SessionOf
<1>4. /\ session' \in [Session -> {None, "confirmed", "cancelled"}] /\ session'[Sub(c)] # None
      /\ \A x \in Session : session[x] # None => session'[x] # None
  BY <1>3, NoneAssumption DEF ConfirmSession, TablesOK
<1>5. TablesOK' /\ Rooted' /\ Keeps
  BY <1>4 DEF ConfirmSession, TablesOK, Rooted, Keeps, Known
<1>6. Own(c) /\ pc'[c] = "speakers" /\ todo'[c] = Crew(c)
  BY Looped DEF ConfirmSession
<1>7. Fit(c)'
  BY <1>2, <1>3, <1>6 DEF Fit, ConfirmSession, Labels
<1>8. Place(c)'
  BY <1>1, <1>2, <1>6 DEF Place, Direct, Value, ConfirmSession
<1>9. Aim(c)' /\ Reads(c)'
  BY <1>1, <1>3, <1>4, <1>6 DEF Aim, Reads, Crew, SessionOf, Direct, Sub
<1> QED
  BY <1>1, <1>5, <1>6, <1>7, <1>8, <1>9, Closed

LEMMA FindParticipationSound ==
  ASSUME Order, NEW c \in Call, NEW p \in Speaker, FindParticipation(c, p) PROVE Sound(c)
<1> USE DEF Order, TypeOK
<1>1. TablesOK' /\ Rooted' /\ Keeps
  BY Quiet DEF FindParticipation, Read
<1>2. HistoryOK' /\ \A d \in Call : request'[d] = request[d] /\ at'[d] = at[d]
  BY QuietHistory DEF FindParticipation, Read
<1>3. Fit(c) /\ Place(c) /\ Aim(c) /\ pc[c] = "speakers" /\ p \in todo[c]
  BY AllFit DEF FindParticipation
<1>4. /\ Own(c) /\ pc'[c] = "participation" /\ who'[c] = p /\ row'[c] = part[p]
      /\ UNCHANGED <<tables, seen, old, todo, listed, answer>>
  BY RowRead DEF FindParticipation, Read
<1>5. part[p] \in PartRow \union {None}
  BY DEF TablesOK
<1>6. Fit(c)'
  BY <1>3, <1>4, <1>5 DEF Fit, Labels
<1>7. Place(c)'
  BY <1>2, <1>3, <1>4 DEF Place, Direct, Value
<1>8. Aim(c)'
  BY <1>2, <1>3, <1>4 DEF Aim, Crew, SessionOf, Direct, Sub, tables
<1>9. Reads(c)'
  BY <1>4, <1>5 DEF Reads, Known, tables
<1> QED
  BY <1>1, <1>2, <1>4, <1>6, <1>7, <1>8, <1>9, Closed

LEMMA WriteParticipationSound ==
  ASSUME Order, NEW c \in Call, WriteParticipation(c) PROVE Sound(c)
<1> USE DEF Order, TypeOK
<1> DEFINE p == who[c]
<1>1. HistoryOK' /\ \A d \in Call : request'[d] = request[d] /\ at'[d] = at[d]
  BY QuietHistory DEF WriteParticipation
<1>2. Fit(c) /\ Place(c) /\ Aim(c) /\ Reads(c) /\ pc[c] = "participation"
  BY AllFit DEF WriteParticipation
<1>3. request[c] # None /\ Crew(c) \subseteq Speaker
  BY <1>2, Crews DEF Place
<1>4. p \in todo[c] /\ todo[c] \subseteq Crew(c) /\ p \in Speaker
  BY <1>2, <1>3 DEF Aim
<1>5. UNCHANGED <<submission, decision, session, links, task, audit>>
  BY DEF WriteParticipation
<1>6. CASE Reply(c, "error") /\ UNCHANGED part
  <2>1. TablesOK' /\ Rooted' /\ Keeps
    BY <1>5, <1>6, Quiet DEF tables
  <2> QED
    BY <2>1, <1>1, <1>2, <1>6, Parted, Closed
<1>7. CASE /\ ~(row[c] = None /\ part[p] # None)
           /\ part' = CASE row[c] = None -> [part EXCEPT ![p] = Fresh("accepted")]
                        [] row[c] # None /\ ~Direct(c) /\ row[c].status # "accepted"
                             -> Patch(part, p, row[c], "accepted")
                        [] OTHER -> part
           /\ Goto(c, IF Direct(c) THEN "link" ELSE "linked")
           /\ UNCHANGED localVars
  <2>1. /\ part' \in [Speaker -> PartRow \union {None}]
        /\ \A q \in Speaker : Known(q) => part'[q] # None
        /\ part'[p] # None
    <3>1. CASE row[c] = None /\ part' = [part EXCEPT ![p] = Fresh("accepted")]
      <4>1. Fresh("accepted") \in PartRow
        BY DEF Fresh, PartRow
      <4> QED
        BY <3>1, <4>1, <1>4, NoneIsNoRow DEF TablesOK, Known
    <3>2. CASE row[c] # None /\ part' = Patch(part, p, row[c], "accepted")
      <4>1. row[c] \in PartRow /\ part[p] # None
        BY <3>2, <1>2 DEF Reads, Known
      <4>2. [status |-> "accepted", version |-> row[c].version + 1] \in PartRow
        BY <4>1 DEF PartRow
      <4> QED
        BY <3>2, <4>1, <4>2, <1>4, NoneIsNoRow DEF Patch, TablesOK, Known
    <3>3. CASE row[c] # None /\ part' = part
      BY <3>3, <1>2 DEF TablesOK, Known, Reads
    <3> QED
      BY <1>7, <3>1, <3>2, <3>3
  <2>2. TablesOK' /\ Rooted' /\ Keeps
    BY <2>1, <1>5 DEF TablesOK, Rooted, Keeps, Known
  <2>3. Own(c) /\ pc'[c] = IF Direct(c) THEN "link" ELSE "linked"
    BY <1>7, Jump
  <2>4. Fit(c)'
    BY <2>3, <1>2, <1>7 DEF Fit, localVars, Labels
  <2>5. Place(c)'
    BY <2>3, <1>1, <1>2, <1>7 DEF localVars, Place, Direct, Value
  <2>6. Aim(c)'
    BY <2>3, <1>1, <1>2, <1>5, <1>7 DEF localVars, Aim, Crew, SessionOf, Direct, Sub
  <2>7. Reads(c)'
    BY <2>1, <2>3, <1>7 DEF localVars, Reads, Known
  <2> QED
    BY <2>2, <2>3, <2>4, <2>5, <2>6, <2>7, <1>1, Closed
<1> QED
  BY <1>6, <1>7 DEF WriteParticipation

LEMMA FindLinkSound ==
  ASSUME Order, NEW c \in Call, FindLink(c) PROVE Sound(c)
<1> USE DEF Order, TypeOK
<1>1. TablesOK' /\ Rooted' /\ Keeps /\ UNCHANGED tables
  BY Quiet DEF FindLink
<1>2. HistoryOK' /\ \A d \in Call : request'[d] = request[d] /\ at'[d] = at[d]
  BY QuietHistory DEF FindLink
<1>3. Fit(c) /\ Place(c) /\ Aim(c) /\ Reads(c) /\ pc[c] = "linked"
  BY AllFit DEF FindLink
<1>4. CASE /\ Loop(c, "speakers", todo[c] \ {who[c]})
           /\ UNCHANGED <<seen, old, who, row, listed, answer>>
  <2>1. Own(c) /\ pc'[c] = "speakers" /\ todo'[c] = todo[c] \ {who[c]}
    BY <1>4, Looped
  <2>2. Fit(c)'
    BY <2>1, <1>3, <1>4 DEF Fit, Labels
  <2>3. Place(c)'
    BY <2>1, <1>2, <1>3, <1>4 DEF Place, Direct, Value
  <2>4. Aim(c)' /\ Reads(c)'
    BY <2>1, <1>1, <1>2, <1>3, <1>4 DEF Aim, Reads, Crew, SessionOf, Direct, Sub, tables
  <2> QED
    BY <2>1, <2>2, <2>3, <2>4, <1>1, <1>2, Closed
<1>5. CASE Goto(c, "link") /\ UNCHANGED localVars
  <2>1. Own(c) /\ pc'[c] = "link"
    BY <1>5, Jump
  <2>2. Fit(c)'
    BY <2>1, <1>3, <1>5 DEF Fit, localVars, Labels
  <2>3. Place(c)'
    BY <2>1, <1>2, <1>3, <1>5 DEF localVars, Place, Direct, Value
  <2>4. Aim(c)'
    BY <2>1, <1>1, <1>2, <1>3, <1>5 DEF localVars, Aim, Crew, SessionOf, Direct, Sub, tables
  <2>5. Reads(c)'
    BY <2>1, <1>1, <1>3, <1>5 DEF localVars, Reads, Known, tables
  <2> QED
    BY <2>1, <2>2, <2>3, <2>4, <2>5, <1>1, <1>2, Closed
<1> QED
  BY <1>4, <1>5 DEF FindLink, localVars

LEMMA InsertLinkSound ==
  ASSUME Order, NEW c \in Call, InsertLink(c) PROVE Sound(c)
<1> USE DEF Order, TypeOK
<1> DEFINE x == SessionOf(c)
<1>1. HistoryOK' /\ \A d \in Call : request'[d] = request[d] /\ at'[d] = at[d]
  BY QuietHistory DEF InsertLink
<1>2. Fit(c) /\ Place(c) /\ Aim(c) /\ Reads(c) /\ pc[c] = "link"
  BY AllFit DEF InsertLink
<1>3. request[c] # None /\ Crew(c) \subseteq Speaker /\ x \in Session
  BY <1>2, Crews DEF Place
<1>4. /\ who[c] \in todo[c] /\ todo[c] \subseteq Crew(c) /\ who[c] \in Speaker
      /\ Known(who[c]) /\ session[x] # None
  BY <1>2, <1>3 DEF Aim, Reads
<1>5. UNCHANGED <<submission, decision, session, part, task, audit>>
  BY DEF InsertLink
<1>6. CASE Reply(c, "error") /\ UNCHANGED links
  <2>1. TablesOK' /\ Rooted' /\ Keeps
    BY <1>5, <1>6, Quiet DEF tables
  <2> QED
    BY <2>1, <1>1, <1>2, <1>6, Parted, Closed
<1>7. CASE /\ links' = [links EXCEPT ![x] = @ \union {who[c]}]
           /\ Loop(c, "speakers", todo[c] \ {who[c]})
           /\ UNCHANGED <<seen, old, who, row, listed, answer>>
  <2>1. links' \in [Session -> SUBSET Speaker]
    BY <1>3, <1>4, <1>7 DEF TablesOK
  <2>2. TablesOK' /\ Keeps
    BY <2>1, <1>5 DEF TablesOK, Keeps, Known
  <2>3. links'[x] = links[x] \union {who[c]} /\ \A y \in Session : y # x => links'[y] = links[y]
    BY <1>3, <1>7 DEF TablesOK
  <2>4. x \in Submission => who[c] \in Author[x]
    BY <1>4, CallAssumption DEF SessionOf, Crew
  <2>5. Rooted'
    <3>1. \A y \in Session : session'[y] = None => links'[y] = {}
      BY <2>3, <1>4, <1>5 DEF Rooted
    <3>2. \A y \in Session : \A q \in links'[y] : Known(q)'
      BY <2>3, <1>4, <1>5 DEF Rooted, Known
    <3>3. \A s \in Submission : links'[s] \subseteq Author[s]
      BY <2>3, <2>4 DEF Rooted, Session
    <3> QED
      BY <3>1, <3>2, <3>3 DEF Rooted
  <2>6. Own(c) /\ pc'[c] = "speakers" /\ todo'[c] = todo[c] \ {who[c]}
    BY <1>7, Looped
  <2>7. Fit(c)'
    BY <2>6, <1>2, <1>7 DEF Fit, Labels
  <2>8. Place(c)'
    BY <2>6, <1>1, <1>2, <1>7 DEF Place, Direct, Value
  <2>9. Aim(c)' /\ Reads(c)'
    BY <2>6, <1>1, <1>2, <1>5, <1>7 DEF Aim, Reads, Crew, SessionOf, Direct, Sub
  <2> QED
    BY <2>2, <2>5, <2>6, <2>7, <2>8, <2>9, <1>1, Closed
<1> QED
  BY <1>6, <1>7 DEF InsertLink

LEMMA StartTasksSound ==
  ASSUME Order, NEW c \in Call, StartTasks(c) PROVE Sound(c)
<1> USE DEF Order, TypeOK
<1>1. TablesOK' /\ Rooted' /\ Keeps /\ UNCHANGED tables
  BY Quiet DEF StartTasks
<1>2. HistoryOK' /\ \A d \in Call : request'[d] = request[d] /\ at'[d] = at[d]
  BY QuietHistory DEF StartTasks
<1>3. Fit(c) /\ Place(c) /\ Aim(c) /\ pc[c] = "speakers"
  BY AllFit DEF StartTasks
<1>4. request[c] # None /\ Crew(c) \subseteq Speaker
  BY <1>3, Crews DEF Place
<1>5. /\ Own(c) /\ pc'[c] = "tasks" /\ todo'[c] = Template \X Crew(c)
      /\ UNCHANGED <<seen, old, who, row, listed, answer>>
  BY Looped DEF StartTasks
<1>6. Fit(c)'
  BY <1>3, <1>4, <1>5 DEF Fit, Labels, Task
<1>7. Place(c)'
  BY <1>2, <1>3, <1>5 DEF Place, Direct, Value
<1>8. Aim(c)' /\ Reads(c)'
  BY <1>1, <1>2, <1>3, <1>5 DEF Aim, Reads, Crew, SessionOf, Direct, Sub, tables
<1> QED
  BY <1>1, <1>2, <1>5, <1>6, <1>7, <1>8, Closed

LEMMA FindTaskSound ==
  ASSUME Order, NEW c \in Call, NEW t \in Task, FindTask(c, t) PROVE Sound(c)
<1> USE DEF Order, TypeOK
<1>1. TablesOK' /\ Rooted' /\ Keeps
  BY Quiet DEF FindTask, Read
<1>2. HistoryOK' /\ \A d \in Call : request'[d] = request[d] /\ at'[d] = at[d]
  BY QuietHistory DEF FindTask, Read
<1>3. Fit(c) /\ Place(c) /\ Aim(c) /\ pc[c] = "tasks" /\ t \in todo[c]
  BY AllFit DEF FindTask
<1>4. /\ Own(c) /\ pc'[c] = "task" /\ who'[c] = t /\ row'[c] = task[t]
      /\ UNCHANGED <<tables, seen, old, todo, listed, answer>>
  BY RowRead DEF FindTask, Read
<1>5. task[t] \in TaskRow \union {None}
  BY DEF TablesOK
<1>6. Fit(c)'
  BY <1>3, <1>4, <1>5 DEF Fit, Labels
<1>7. Place(c)'
  BY <1>2, <1>3, <1>4 DEF Place, Direct, Value
<1>8. Aim(c)'
  BY <1>2, <1>3, <1>4 DEF Aim, Crew, SessionOf, Direct, Sub, tables
<1>9. Reads(c)'
  BY <1>4, <1>5 DEF Reads, tables
<1> QED
  BY <1>1, <1>2, <1>4, <1>6, <1>7, <1>8, <1>9, Closed

LEMMA WriteTaskSound ==
  ASSUME Order, NEW c \in Call, WriteTask(c) PROVE Sound(c)
<1> USE DEF Order, TypeOK
<1> DEFINE t == who[c]
<1>1. HistoryOK' /\ \A d \in Call : request'[d] = request[d] /\ at'[d] = at[d]
  BY QuietHistory DEF WriteTask
<1>2. Fit(c) /\ Place(c) /\ Aim(c) /\ Reads(c) /\ pc[c] = "task"
  BY AllFit DEF WriteTask
<1>3. request[c] # None /\ Crew(c) \subseteq Speaker
  BY <1>2, Crews DEF Place
<1>4. t \in todo[c] /\ todo[c] \subseteq Template \X Crew(c) /\ t \in Task
  BY <1>2, <1>3 DEF Aim, Task
<1>5. UNCHANGED <<submission, decision, session, links, part, audit>>
  BY DEF WriteTask
<1>6. CASE Reply(c, "error") /\ UNCHANGED task
  <2>1. TablesOK' /\ Rooted' /\ Keeps
    BY <1>5, <1>6, Quiet DEF tables
  <2> QED
    BY <2>1, <1>1, <1>2, <1>6, Parted, Closed
<1>7. CASE /\ task' = CASE row[c] = None -> [task EXCEPT ![t] = Fresh("pending")]
                        [] row[c] # None /\ Revives(c)
                             -> Patch(task, t, row[c], "pending")
                        [] OTHER -> task
           /\ Loop(c, "tasks", todo[c] \ {t})
           /\ UNCHANGED <<seen, old, who, row, listed, answer>>
  <2>1. /\ task' \in [Task -> TaskRow \union {None}]
        /\ \A q \in Task : task[q] # None => task'[q] # None
    <3>1. CASE row[c] = None /\ task' = [task EXCEPT ![t] = Fresh("pending")]
      <4>1. Fresh("pending") \in TaskRow
        BY DEF Fresh, TaskRow
      <4> QED
        BY <3>1, <4>1, <1>4, NoneIsNoRow DEF TablesOK
    <3>2. CASE row[c] # None /\ task' = Patch(task, t, row[c], "pending")
      <4>1. row[c] \in TaskRow
        BY <3>2, <1>2 DEF Reads
      <4>2. [status |-> "pending", version |-> row[c].version + 1] \in TaskRow
        BY <4>1 DEF TaskRow
      <4> QED
        BY <3>2, <4>2, <1>4, NoneIsNoRow DEF Patch, TablesOK
    <3>3. CASE task' = task
      BY <3>3 DEF TablesOK
    <3> QED
      BY <1>7, <3>1, <3>2, <3>3
  <2>2. TablesOK' /\ Rooted' /\ Keeps
    BY <2>1, <1>5 DEF TablesOK, Rooted, Keeps, Known
  <2>3. Own(c) /\ pc'[c] = "tasks" /\ todo'[c] = todo[c] \ {t}
    BY <1>7, Looped
  <2>4. Fit(c)'
    BY <2>3, <1>2, <1>7 DEF Fit, Labels
  <2>5. Place(c)'
    BY <2>3, <1>1, <1>2, <1>7 DEF Place, Direct, Value
  <2>6. Aim(c)' /\ Reads(c)'
    BY <2>3, <1>1, <1>2, <1>5, <1>7 DEF Aim, Reads, Crew, SessionOf, Direct, Sub
  <2> QED
    BY <2>2, <2>3, <2>4, <2>5, <2>6, <1>1, Closed
<1> QED
  BY <1>6, <1>7 DEF WriteTask

\* to one of the labels where only the decision and the audit trail are left
LEMMA RecordingNext ==
  ASSUME Order, NEW c \in Call, NEW l \in Recording, Goto(c, l), UNCHANGED localVars,
         pc[c] # "start", pc[c] \notin Opening, pc[c] # "done", ~Direct(c),
         UNCHANGED <<startVars, boundVars, at>>
  PROVE  Own(c) /\ Fit(c)' /\ Place(c)' /\ Aim(c)' /\ Reads(c)'
<1>1. Own(c) /\ pc'[c] = l /\ Fit(c) /\ Place(c)
  BY Jump, AllFit DEF Order, TypeOK
<1>2. Fit(c)'
  BY <1>1 DEF Fit, localVars, Labels
<1>3. seen[c] # None
  BY <1>1 DEF Place, Fit, Labels
<1>4. Place(c)'
  BY <1>1, <1>3 DEF localVars, startVars, Place, Direct, Value
<1>5. Aim(c)' /\ Reads(c)'
  BY <1>1 DEF Aim, Reads
<1> QED
  BY <1>1, <1>2, <1>4, <1>5

LEMMA EndTasksSound ==
  ASSUME Order, NEW c \in Call, EndTasks(c) PROVE Sound(c)
<1> USE DEF Order, TypeOK
<1>1. TablesOK' /\ Rooted' /\ Keeps
  BY Quiet DEF EndTasks
<1>2. HistoryOK' /\ \A d \in Call : request'[d] = request[d] /\ at'[d] = at[d]
  BY QuietHistory DEF EndTasks
<1>3. CASE Reply(c, "ok")
  BY <1>1, <1>2, <1>3, Parted, Closed DEF EndTasks
<1>4. CASE ~Direct(c) /\ Goto(c, Finish(c)) /\ UNCHANGED localVars
  BY <1>1, <1>2, <1>4, RecordingNext, Closed DEF EndTasks, Finish
<1> QED
  BY <1>3, <1>4 DEF EndTasks

LEMMA LookupSound ==
  ASSUME Order, NEW c \in Call, Lookup(c) PROVE Sound(c)
<1> USE DEF Order, TypeOK
<1>1. TablesOK' /\ Rooted' /\ Keeps /\ UNCHANGED tables
  BY Quiet DEF Lookup
<1>2. HistoryOK' /\ \A d \in Call : request'[d] = request[d] /\ at'[d] = at[d]
  BY QuietHistory DEF Lookup
<1>3. Fit(c) /\ Place(c) /\ pc[c] = "lookup"
  BY AllFit DEF Lookup
<1>4. ~Direct(c) /\ request[c] # None /\ SessionOf(c) = Sub(c) /\ Sub(c) \in Session
  BY <1>3, Crews DEF Place, SessionOf
<1>5. CASE Goto(c, Finish(c)) /\ UNCHANGED localVars
  BY <1>1, <1>2, <1>3, <1>4, <1>5, RecordingNext, Closed DEF Lookup, Finish
<1>6. CASE /\ session[Sub(c)] # None
           /\ Goto(c, "crew") /\ row' = [row EXCEPT ![c] = session[Sub(c)]]
           /\ UNCHANGED <<seen, old, todo, who, listed, answer>>
  <2>1. Own(c) /\ pc'[c] = "crew" /\ row'[c] = session[Sub(c)]
    BY <1>6, OwnSame DEF Goto, Own, CallsOK
  <2>2. session[Sub(c)] \in {"confirmed", "cancelled"}
    BY <1>4, <1>6 DEF TablesOK
  <2>3. Fit(c)'
    BY <2>1, <2>2, <1>3, <1>6 DEF Fit, Labels
  <2>4. Place(c)'
    BY <2>1, <1>2, <1>3, <1>6 DEF Place, Direct, Value
  <2>5. Aim(c)' /\ Reads(c)'
    BY <2>1, <2>2 DEF Aim, Reads
  <2> QED
    BY <2>1, <2>3, <2>4, <2>5, <1>1, <1>2, Closed
<1> QED
  BY <1>5, <1>6 DEF Lookup, localVars

\* what it is about to take off the session
LEMMA Freeing ==
  ASSUME Order, NEW c \in Call, ListLinked(c)
  PROVE  /\ HistoryOK' /\ UNCHANGED <<startVars, at>>
         /\ ~Direct(c) /\ Sub(c) \in Submission
         /\ freed'[Sub(c)] = links[Sub(c)]
         /\ \A s \in Submission : s # Sub(c) => freed'[s] = freed[s]
<1>1. HistoryOK /\ TablesOK /\ Place(c) /\ pc[c] = "crew"
  BY DEF Order, TypeOK, ListLinked
<1>2. ~Direct(c) /\ request[c] # None
  BY <1>1 DEF Place
<1>3. Sub(c) \in Submission /\ Sub(c) \in Session
  BY <1>1, <1>2, Requests DEF Session
<1>4. /\ freed' = [freed EXCEPT ![Sub(c)] = links[Sub(c)]]
      /\ UNCHANGED <<startVars, crashes, portal, at>>
  BY DEF ListLinked
<1>5. links[Sub(c)] \subseteq Speaker
  BY <1>1, <1>3 DEF TablesOK
<1> QED
  BY <1>1, <1>2, <1>3, <1>4, <1>5 DEF HistoryOK, startVars

LEMMA ListLinkedSound ==
  ASSUME Order, NEW c \in Call, ListLinked(c) PROVE Sound(c)
<1> USE DEF Order, TypeOK
<1>1. TablesOK' /\ Rooted' /\ Keeps /\ UNCHANGED tables
  BY Quiet DEF ListLinked
<1>2. HistoryOK' /\ \A d \in Call : request'[d] = request[d] /\ at'[d] = at[d]
  BY Freeing DEF startVars
<1>3. Fit(c) /\ Place(c) /\ Aim(c) /\ pc[c] = "crew"
  BY AllFit DEF ListLinked
<1>4. ~Direct(c) /\ request[c] # None /\ SessionOf(c) = Sub(c) /\ Sub(c) \in Session
  BY <1>3, Crews DEF Place, SessionOf
<1>5. /\ Own(c) /\ pc'[c] = "unlink" /\ todo'[c] = links[Sub(c)]
      /\ UNCHANGED <<seen, old, who, row, listed, answer>>
  BY Looped DEF ListLinked
<1>6. links[Sub(c)] \subseteq {p \in Speaker : Known(p)}
  BY <1>4 DEF Rooted, TablesOK
<1>7. Fit(c)'
  BY <1>3, <1>5, <1>6 DEF Fit, Labels
<1>8. Place(c)'
  BY <1>2, <1>3, <1>5 DEF Place, Direct, Value
<1>9. Aim(c)' /\ Reads(c)'
  BY <1>1, <1>3, <1>5, <1>6 DEF Aim, Reads, Known, tables
<1> QED
  BY <1>1, <1>2, <1>5, <1>7, <1>8, <1>9, Closed

LEMMA UnlinkSound ==
  ASSUME Order, NEW c \in Call, Unlink(c) PROVE Sound(c)
<1> USE DEF Order, TypeOK
<1>1. TablesOK' /\ Rooted' /\ Keeps /\ UNCHANGED part
  <2>1. UNCHANGED <<submission, decision, session, part, task, audit>>
    BY DEF Unlink
  <2>2. /\ links' \in [Session -> SUBSET Speaker]
        /\ \A x \in Session : links'[x] \subseteq links[x]
    BY DEF Unlink, TablesOK
  <2>3. TablesOK' /\ Keeps
    BY <2>1, <2>2 DEF TablesOK, Keeps, Known
  <2>4. Rooted'
    BY <2>1, <2>2 DEF Rooted, Known, Session
  <2> QED
    BY <2>1, <2>3, <2>4
<1>2. HistoryOK' /\ \A d \in Call : request'[d] = request[d] /\ at'[d] = at[d]
  BY QuietHistory DEF Unlink
<1>3. Fit(c) /\ Place(c) /\ Aim(c) /\ pc[c] = "unlink"
  BY AllFit DEF Unlink
<1>4. /\ Own(c) /\ pc'[c] = IF row[c] = "cancelled" THEN "free" ELSE "cancel"
      /\ UNCHANGED localVars
  BY Jump DEF Unlink
<1>5. Fit(c)'
  BY <1>3, <1>4 DEF Fit, Labels, localVars
<1>6. Place(c)'
  BY <1>2, <1>3, <1>4 DEF Place, Direct, Value, localVars
<1>7. Aim(c)' /\ Reads(c)'
  BY <1>1, <1>3, <1>4 DEF Aim, Reads, Known, localVars
<1> QED
  BY <1>1, <1>2, <1>4, <1>5, <1>6, <1>7, Closed

LEMMA CancelSound ==
  ASSUME Order, NEW c \in Call, Cancel(c) PROVE Sound(c)
<1> USE DEF Order, TypeOK
<1>1. TablesOK' /\ Rooted' /\ Keeps /\ UNCHANGED part
  <2>1. UNCHANGED <<submission, decision, links, part, task, audit>>
    BY DEF Cancel
  <2>2. /\ session' \in [Session -> {None, "confirmed", "cancelled"}]
        /\ \A x \in Session : session[x] # None => session'[x] # None
    BY NoneAssumption DEF Cancel, TablesOK
  <2> QED
    BY <2>1, <2>2 DEF TablesOK, Keeps, Known, Rooted
<1>2. HistoryOK' /\ \A d \in Call : request'[d] = request[d] /\ at'[d] = at[d]
  BY QuietHistory DEF Cancel
<1>3. Fit(c) /\ Place(c) /\ Aim(c) /\ pc[c] = "cancel"
  BY AllFit DEF Cancel
<1>4. Own(c) /\ pc'[c] = "free" /\ UNCHANGED localVars
  BY Jump DEF Cancel
<1>5. Fit(c)'
  BY <1>3, <1>4 DEF Fit, Labels, localVars
<1>6. Place(c)'
  BY <1>2, <1>3, <1>4 DEF Place, Direct, Value, localVars
<1>7. Aim(c)' /\ Reads(c)'
  BY <1>1, <1>3, <1>4 DEF Aim, Reads, Known, localVars
<1> QED
  BY <1>1, <1>2, <1>4, <1>5, <1>6, <1>7, Closed

LEMMA ListSessionsSound ==
  ASSUME Order, NEW c \in Call, NEW p \in Speaker, ListSessions(c, p) PROVE Sound(c)
<1> USE DEF Order, TypeOK
<1>1. TablesOK' /\ Rooted' /\ Keeps /\ UNCHANGED tables
  BY Quiet DEF ListSessions
<1>2. HistoryOK' /\ \A d \in Call : request'[d] = request[d] /\ at'[d] = at[d]
  BY QuietHistory DEF ListSessions
<1>3. Fit(c) /\ Place(c) /\ Aim(c) /\ pc[c] = "free" /\ p \in todo[c]
  BY AllFit DEF ListSessions
<1>4. /\ Own(c) /\ pc'[c] = "onstage" /\ who'[c] = p /\ listed'[c] = OtherSessions(c)
      /\ UNCHANGED <<seen, old, todo, row, answer>>
  BY OwnSame DEF ListSessions, Goto, Own, CallsOK
<1>5. OtherSessions(c) \subseteq Session
  BY DEF OtherSessions
<1>6. Fit(c)'
  BY <1>3, <1>4, <1>5 DEF Fit, Labels
<1>7. Place(c)'
  BY <1>2, <1>3, <1>4 DEF Place, Direct, Value
<1>8. Aim(c)' /\ Reads(c)'
  BY <1>1, <1>3, <1>4, <1>5 DEF Aim, Reads, Known, tables
<1> QED
  BY <1>1, <1>2, <1>4, <1>6, <1>7, <1>8, Closed

LEMMA LookForLinkSound ==
  ASSUME Order, NEW c \in Call, NEW x \in Session, LookForLink(c, x) PROVE Sound(c)
<1> USE DEF Order, TypeOK
<1>1. TablesOK' /\ Rooted' /\ Keeps /\ UNCHANGED tables
  BY Quiet DEF LookForLink
<1>2. HistoryOK' /\ \A d \in Call : request'[d] = request[d] /\ at'[d] = at[d]
  BY QuietHistory DEF LookForLink
<1>3. Fit(c) /\ Place(c) /\ Aim(c) /\ Reads(c) /\ pc[c] = "onstage"
  BY AllFit DEF LookForLink
<1>4. UNCHANGED <<seen, old, who, row, answer>>
  BY DEF LookForLink
<1>5. CASE Loop(c, "free", todo[c] \ {who[c]}) /\ listed' = [listed EXCEPT ![c] = {}]
  <2>1. Own(c) /\ pc'[c] = "free" /\ todo'[c] = todo[c] \ {who[c]} /\ listed'[c] = {}
    BY <1>4, <1>5, OwnSame DEF Loop, Goto, Own, CallsOK
  <2>2. Fit(c)'
    BY <2>1, <1>3, <1>4 DEF Fit, Labels
  <2>3. Place(c)'
    BY <2>1, <1>2, <1>3, <1>4 DEF Place, Direct, Value
  <2>4. Aim(c)' /\ Reads(c)'
    BY <2>1, <1>1, <1>3 DEF Aim, Reads, Known, tables
  <2> QED
    BY <2>1, <2>2, <2>3, <2>4, <1>1, <1>2, Closed
<1>6. CASE listed' = [listed EXCEPT ![c] = @ \ {x}] /\ UNCHANGED <<pc, todo>>
  <2>1. Own(c) /\ pc'[c] = "onstage" /\ listed'[c] = listed[c] \ {x}
    BY <1>3, <1>4, <1>6, OwnSame DEF Own, CallsOK
  <2>2. Fit(c)'
    BY <2>1, <1>3, <1>4, <1>6 DEF Fit, Labels
  <2>3. Place(c)'
    BY <2>1, <1>2, <1>3, <1>4 DEF Place, Direct, Value
  <2>4. Aim(c)' /\ Reads(c)'
    BY <2>1, <1>1, <1>3, <1>4, <1>6 DEF Aim, Reads, Known, tables
  <2> QED
    BY <2>1, <2>2, <2>3, <2>4, <1>1, <1>2, Closed
<1> QED
  BY <1>5, <1>6 DEF LookForLink

LEMMA ListTasksSound ==
  ASSUME Order, NEW c \in Call, ListTasks(c) PROVE Sound(c)
<1> USE DEF Order, TypeOK
<1>1. TablesOK' /\ Rooted' /\ Keeps /\ UNCHANGED tables
  BY Quiet DEF ListTasks
<1>2. HistoryOK' /\ \A d \in Call : request'[d] = request[d] /\ at'[d] = at[d]
  BY QuietHistory DEF ListTasks
<1>3. Fit(c) /\ Place(c) /\ Aim(c) /\ pc[c] = "onstage"
  BY AllFit DEF ListTasks
<1>4. who[c] \in Speaker
  BY <1>3 DEF Aim
<1> DEFINE found == {[task |-> t, row |-> task[t]] : t \in {t \in Template \X {who[c]} : Live(t)}}
<1>5. found \subseteq [task : Template \X {who[c]}, row : TaskRow]
  <2>1. ASSUME NEW t \in Template \X {who[c]}, Live(t)
        PROVE  [task |-> t, row |-> task[t]] \in [task : Template \X {who[c]}, row : TaskRow]
    <3>1. t \in Task
      BY <1>4 DEF Task
    <3>2. task[t] \in TaskRow
      BY <2>1, <3>1 DEF TablesOK, Live
    <3> QED
      BY <3>2
  <2> QED
    BY <2>1
<1>6. [task : Template \X {who[c]}, row : TaskRow] \subseteq [task : Task, row : TaskRow]
  BY <1>4 DEF Task
<1>7. /\ Own(c) /\ pc'[c] = "cancelling" /\ listed'[c] = found
      /\ UNCHANGED <<seen, old, todo, who, row, answer>>
  BY OwnSame DEF ListTasks, Goto, Own, CallsOK
<1> HIDE DEF found
<1>8. Fit(c)'
  BY <1>3, <1>5, <1>6, <1>7 DEF Fit, Labels
<1>9. Place(c)'
  BY <1>2, <1>3, <1>7 DEF Place, Direct, Value
<1>10. Aim(c)' /\ Reads(c)'
  BY <1>1, <1>3, <1>5, <1>7 DEF Aim, Reads, Known, tables
<1> QED
  BY <1>1, <1>2, <1>7, <1>8, <1>9, <1>10, Closed

LEMMA CancelTaskSound ==
  ASSUME Order, NEW c \in Call, NEW l \in listed[c], CancelTask(c, l) PROVE Sound(c)
<1> USE DEF Order, TypeOK
<1>1. Fit(c) /\ Place(c) /\ Aim(c) /\ Reads(c) /\ pc[c] = "cancelling"
  BY AllFit DEF CancelTask
<1>2. HistoryOK' /\ \A d \in Call : request'[d] = request[d] /\ at'[d] = at[d]
  BY QuietHistory DEF CancelTask
<1>3. who[c] \in Speaker
  BY <1>1 DEF Aim
<1>4. l.task \in Task /\ l.row \in TaskRow
  <2>1. l \in [task : Template \X {who[c]}, row : TaskRow]
    BY <1>1 DEF Reads
  <2> QED
    BY <2>1, <1>3 DEF Task
<1>5. /\ task' \in [Task -> TaskRow \union {None}]
      /\ \A q \in Task : task[q] # None => task'[q] # None
  <2>1. [status |-> "cancelled", version |-> l.row.version + 1] \in TaskRow
    BY <1>4 DEF TaskRow
  <2> QED
    BY <2>1, <1>4, NoneIsNoRow DEF CancelTask, Patch, TablesOK
<1>6. TablesOK' /\ Rooted' /\ Keeps /\ UNCHANGED part
  BY <1>5 DEF CancelTask, TablesOK, Rooted, Keeps, Known
<1>7. /\ Own(c) /\ pc'[c] = "cancelling" /\ listed'[c] = listed[c] \ {l}
      /\ UNCHANGED <<seen, old, todo, who, row, answer>>
  BY <1>1, OwnSame DEF CancelTask, Own, CallsOK
<1>8. Fit(c)'
  BY <1>1, <1>7 DEF Fit, Labels
<1>9. Place(c)'
  BY <1>1, <1>2, <1>7 DEF Place, Direct, Value
<1>10. Aim(c)' /\ Reads(c)'
  BY <1>1, <1>6, <1>7 DEF Aim, Reads, Known
<1> QED
  BY <1>2, <1>6, <1>7, <1>8, <1>9, <1>10, Closed

LEMMA FindLeavingSound ==
  ASSUME Order, NEW c \in Call, FindLeaving(c) PROVE Sound(c)
<1> USE DEF Order, TypeOK
<1>1. TablesOK' /\ Rooted' /\ Keeps /\ UNCHANGED tables
  BY Quiet DEF FindLeaving, Read
<1>2. HistoryOK' /\ \A d \in Call : request'[d] = request[d] /\ at'[d] = at[d]
  BY QuietHistory DEF FindLeaving, Read
<1>3. Fit(c) /\ Place(c) /\ Aim(c) /\ pc[c] = "cancelling"
  BY AllFit DEF FindLeaving
<1>4. who[c] \in Speaker /\ Known(who[c]) /\ part[who[c]] \in PartRow
  BY <1>3 DEF Aim, TablesOK, Known
<1>5. /\ Own(c) /\ pc'[c] = "withdraw" /\ who'[c] = who[c] /\ row'[c] = part[who[c]]
      /\ UNCHANGED <<seen, old, todo, listed, answer>>
  <2>1. Read(c, "withdraw", who[c], part[who[c]])
    BY DEF FindLeaving
  <2>2. Own(c) /\ pc'[c] = "withdraw" /\ who'[c] = who[c] /\ row'[c] = part[who[c]]
    BY <2>1, RowRead
  <2> QED
    BY <2>1, <2>2 DEF Read
<1>6. Fit(c)'
  BY <1>3, <1>4, <1>5 DEF Fit, Labels
<1>7. Place(c)'
  BY <1>2, <1>3, <1>5 DEF Place, Direct, Value
<1>8. Aim(c)' /\ Reads(c)'
  BY <1>1, <1>3, <1>4, <1>5 DEF Aim, Reads, Known, tables
<1> QED
  BY <1>1, <1>2, <1>5, <1>6, <1>7, <1>8, Closed

LEMMA WithdrawSound ==
  ASSUME Order, NEW c \in Call, Withdraw(c) PROVE Sound(c)
<1> USE DEF Order, TypeOK
<1>1. Fit(c) /\ Place(c) /\ Aim(c) /\ Reads(c) /\ pc[c] = "withdraw"
  BY AllFit DEF Withdraw
<1>2. HistoryOK' /\ \A d \in Call : request'[d] = request[d] /\ at'[d] = at[d]
  BY QuietHistory DEF Withdraw
<1>3. who[c] \in Speaker /\ row[c] \in PartRow
  BY <1>1 DEF Aim, Reads
<1>4. /\ part' \in [Speaker -> PartRow \union {None}]
      /\ \A q \in Speaker : Known(q) => part'[q] # None
  <2>1. [status |-> "withdrawn", version |-> row[c].version + 1] \in PartRow
    BY <1>3 DEF PartRow
  <2> QED
    BY <2>1, <1>3, NoneIsNoRow DEF Withdraw, Patch, TablesOK, Known
<1>5. TablesOK' /\ Rooted' /\ Keeps
  BY <1>4 DEF Withdraw, TablesOK, Rooted, Keeps, Known
<1>6. /\ Own(c) /\ pc'[c] = "free" /\ todo'[c] = todo[c] \ {who[c]}
      /\ UNCHANGED <<seen, old, who, row, listed, answer>>
  BY Looped DEF Withdraw
<1>7. Fit(c)'
  BY <1>1, <1>6 DEF Fit, Labels
<1>8. Place(c)'
  BY <1>1, <1>2, <1>6 DEF Place, Direct, Value
<1>9. Aim(c)' /\ Reads(c)'
  BY <1>1, <1>4, <1>6 DEF Aim, Reads, Known
<1> QED
  BY <1>2, <1>5, <1>6, <1>7, <1>8, <1>9, Closed

LEMMA EndFreeSound ==
  ASSUME Order, NEW c \in Call, EndFree(c) PROVE Sound(c)
<1> USE DEF Order, TypeOK
<1>1. TablesOK' /\ Rooted' /\ Keeps /\ UNCHANGED tables
  BY Quiet DEF EndFree
<1>2. HistoryOK' /\ \A d \in Call : request'[d] = request[d] /\ at'[d] = at[d]
  BY QuietHistory DEF EndFree
<1>3. ~Direct(c)
  BY DEF EndFree, Place
<1> QED
  BY <1>1, <1>2, <1>3, RecordingNext, Closed DEF EndFree, Finish

LEMMA UpsertSound ==
  ASSUME Order, NEW c \in Call, Upsert(c) PROVE Sound(c)
<1> USE DEF Order, TypeOK
<1>1. TablesOK' /\ Rooted' /\ Keeps /\ UNCHANGED tables
  BY Quiet DEF Upsert
<1>2. HistoryOK' /\ \A d \in Call : request'[d] = request[d] /\ at'[d] = at[d]
  BY QuietHistory DEF Upsert
<1>3. ~Direct(c)
  BY DEF Upsert, Place
<1> QED
  BY <1>1, <1>2, <1>3, RecordingNext, Closed DEF Upsert

LEMMA WriteDecisionSound ==
  ASSUME Order, NEW c \in Call, WriteDecision(c) PROVE Sound(c)
<1> USE DEF Order, TypeOK
<1>2. HistoryOK' /\ \A d \in Call : request'[d] = request[d] /\ at'[d] = at[d]
  BY QuietHistory DEF WriteDecision
<1>3. ~Direct(c) /\ request[c] # None /\ pc[c] \in {"insert", "update"}
  BY DEF WriteDecision, Place
<1>4. UNCHANGED <<submission, session, links, part, task, audit, startVars, boundVars, at>>
  BY DEF WriteDecision
<1>5. request'[c] = request[c] /\ \A d \in Call \ {c} : request'[d] = request[d] /\ at'[d] = at[d]
  BY <1>4 DEF startVars
<1>6. CASE Reply(c, "error") /\ UNCHANGED decision
  <2>1. TablesOK' /\ Rooted' /\ Keeps
    BY <1>4, <1>6, Quiet DEF tables
  <2> QED
    BY <2>1, <1>2, <1>3, <1>5, <1>6, Parted, Closed
<1>7. CASE /\ decision' = [decision EXCEPT ![Sub(c)] = [value |-> Value(c), reason |-> Why(c)]]
           /\ Goto(c, "audit") /\ UNCHANGED localVars
  <2>1. [value |-> Value(c), reason |-> Why(c)] \in Verdict
    BY <1>3, Requests DEF Verdict
  <2>2. decision' \in [Submission -> Verdict \union {None}]
    BY <2>1, <1>7 DEF TablesOK
  <2>3. TablesOK' /\ Rooted' /\ Keeps
    BY <2>2, <1>4 DEF TablesOK, Rooted, Keeps, Known
  <2> QED
    BY <2>3, <1>2, <1>3, <1>4, <1>5, <1>7, RecordingNext, Closed
<1> QED
  BY <1>6, <1>7 DEF WriteDecision

LEMMA EnsureAuditSound ==
  ASSUME Order, NEW c \in Call, EnsureAudit(c) PROVE Sound(c)
<1> USE DEF Order, TypeOK
<1>1. TablesOK' /\ Rooted' /\ Keeps /\ UNCHANGED tables
  BY Quiet DEF EnsureAudit
<1>2. HistoryOK' /\ \A d \in Call : request'[d] = request[d] /\ at'[d] = at[d]
  BY QuietHistory DEF EnsureAudit
<1>3. ~Direct(c) /\ pc[c] = "ensure"
  BY DEF EnsureAudit, Place
<1>4. CASE Reply(c, "ok")
  BY <1>1, <1>2, <1>3, <1>4, Parted, Closed
<1>5. CASE Goto(c, "audit") /\ UNCHANGED localVars
  BY <1>1, <1>2, <1>3, <1>5, RecordingNext, Closed DEF EnsureAudit
<1> QED
  BY <1>4, <1>5 DEF EnsureAudit

LEMMA InsertAuditSound ==
  ASSUME Order, NEW c \in Call, InsertAudit(c) PROVE Sound(c)
<1> USE DEF Order, TypeOK
<1>2. HistoryOK' /\ \A d \in Call : request'[d] = request[d] /\ at'[d] = at[d]
  BY QuietHistory DEF InsertAudit
<1>3. ~Direct(c) /\ request[c] # None /\ pc[c] = "audit"
  BY DEF InsertAudit, Place
<1>4. [value |-> Value(c), reason |-> Why(c), at |-> at[c]] \in Entry
  BY <1>3, Requests DEF Entry, HistoryOK
<1>5. audit' \in [Submission -> Entry \union {None}]
  BY <1>4 DEF InsertAudit, TablesOK
<1>6. TablesOK' /\ Rooted' /\ Keeps
  BY <1>5 DEF InsertAudit, TablesOK, Rooted, Keeps, Known
<1> QED
  BY <1>2, <1>3, <1>6, Parted, Closed DEF InsertAudit

LEMMA DieSound ==
  ASSUME Order, NEW c \in Call, Die(c) PROVE Sound(c)
<1> USE DEF Order, TypeOK
<1>1. TablesOK' /\ Rooted' /\ Keeps
  BY Quiet DEF Die
<1>2. HistoryOK' /\ \A d \in Call : request'[d] = request[d] /\ at'[d] = at[d]
  BY DEF Die, HistoryOK, startVars
<1> QED
  BY <1>1, <1>2, Parted, Closed DEF Die, Underway

\* Others are where they were.
LEMMA StillAt ==
  ASSUME Order, Keeps, NEW d \in Call, Still(d), At(d)  PROVE At(d)'
<1>1. Place(d)'
  BY DEF At, Place, Still, Direct, Value
<1>2. Aim(d)'
  <2>1. Crew(d)' = Crew(d) /\ SessionOf(d)' = SessionOf(d)
    BY DEF Still, Crew, SessionOf, Direct, Sub
  <2>2. pc[d] \in Casting \union Tasking => SessionOf(d) \in Session
    BY Crews DEF Order, TypeOK, At, Place
  <2> QED
    BY <2>1, <2>2 DEF At, Aim, Still, Keeps, Known
<1>3. Reads(d)'
  <2>1. pc[d] \in {"participation", "linked", "link"} => who[d] \in Speaker
    BY Crews DEF Order, TypeOK, At, Aim, Place
  <2>2. pc[d] = "task" => who[d] \in Task
    BY Crews DEF Order, TypeOK, At, Aim, Place, Task
  <2> QED
    BY <2>1, <2>2 DEF At, Reads, Still, Keeps, Known
<1> QED
  BY <1>1, <1>2, <1>3 DEF At

\* Hence the invariant.
LEMMA SoundOrder ==
  ASSUME Order, NEW c \in Call, Sound(c) PROVE Order'
BY StillAt DEF Order, Sound, At

LEMMA PortalSound ==
  ASSUME Order, \/ \E t \in Task : CompleteTask(t)
                \/ \E p \in Speaker : UpdateProfile(p)
  PROVE  Order' /\ Keeps /\ \A d \in Call : Still(d)
<1> USE DEF Order, TypeOK
<1>1. UNCHANGED <<submission, decision, session, links, audit, pc, localVars, request, latest,
                  freed, crashes, at>>
  BY DEF CompleteTask, UpdateProfile, Interfere
<1>2. \A d \in Call : Still(d)
  BY <1>1 DEF Still, localVars
<1>3. CallsOK' /\ HistoryOK'
  <2>1. solo' \in [Call -> BOOLEAN] /\ portal' \in Nat
    <3>1. Interfere
      BY DEF CompleteTask, UpdateProfile
    <3>2. solo' \in [Call -> BOOLEAN]
      BY <3>1 DEF Interfere, HistoryOK
    <3>3. portal' \in Nat
      BY <3>1 DEF Interfere, HistoryOK
    <3> QED
      BY <3>2, <3>3
  <2> QED
    BY <1>1, <2>1 DEF CallsOK, HistoryOK, localVars
<1>4. TablesOK' /\ Rooted' /\ Keeps
  <2>1. ASSUME NEW t \in Task, CompleteTask(t)
        PROVE  /\ task' \in [Task -> TaskRow \union {None}] /\ part' = part
               /\ \A q \in Task : task[q] # None => task'[q] # None
    <3>1. task[t] \in TaskRow
      BY <2>1 DEF CompleteTask, TablesOK
    <3>2. [status |-> "completed", version |-> task[t].version + 1] \in TaskRow
      BY <3>1 DEF TaskRow
    <3> QED
      BY <2>1, <3>2, NoneIsNoRow DEF CompleteTask, Patch, TablesOK
  <2>2. ASSUME NEW p \in Speaker, UpdateProfile(p)
        PROVE  /\ part' \in [Speaker -> PartRow \union {None}] /\ task' = task
               /\ \A q \in Speaker : Known(q) => part'[q] # None
    <3>1. part[p] \in PartRow
      BY <2>2 DEF UpdateProfile, TablesOK
    <3>2. [status |-> part[p].status, version |-> part[p].version + 1] \in PartRow
      BY <3>1 DEF PartRow
    <3> QED
      BY <2>2, <3>2, NoneIsNoRow DEF UpdateProfile, Patch, TablesOK, Known
  <2> QED
    BY <2>1, <2>2, <1>1 DEF TablesOK, Rooted, Keeps, Known
<1>5. \A d \in Call : At(d)'
  BY <1>2, <1>4, StillAt DEF At
<1> QED
  BY <1>2, <1>3, <1>4, <1>5 DEF At

LEMMA CommandSound ==
  ASSUME Order, NEW c \in Call, Command(c) PROVE Sound(c)
BY RecordSound, CreateDirectSound, ReadDecisionSound, ClaimSound, FindSessionSound,
   ConfirmSessionSound, FindParticipationSound, ListSessionsSound, WriteParticipationSound,
   FindLinkSound, InsertLinkSound, StartTasksSound, WriteTaskSound, EndTasksSound,
   FindTaskSound, LookupSound, ListLinkedSound, UnlinkSound, CancelSound, LookForLinkSound,
   ListTasksSound, FindLeavingSound, WithdrawSound, EndFreeSound, CancelTaskSound,
   UpsertSound, WriteDecisionSound, EnsureAuditSound, InsertAuditSound, DieSound
DEF Command

LEMMA OrderInit == ASSUME Init PROVE Order
<1>1. TablesOK
  <2>1. [status |-> "submitted", version |-> 1] \in SubmissionRow
    BY DEF SubmissionRow
  <2> QED
    BY <2>1 DEF Init, TablesOK
<1>2. CallsOK /\ HistoryOK
  BY DEF Init, CallsOK, HistoryOK, Labels
<1>3. Rooted
  BY DEF Init, Rooted, Session
<1>4. ASSUME NEW c \in Call PROVE Place(c) /\ Aim(c) /\ Reads(c)
  BY NoneAssumption DEF Init, Place, Aim, Reads
<1> QED
  BY <1>1, <1>2, <1>3, <1>4 DEF Order, TypeOK

LEMMA OrderStep ==
  ASSUME Order, [Next]_vars PROVE Order'
<1>1. ASSUME NEW c \in Call, Command(c) PROVE Order'
  BY <1>1, CommandSound, SoundOrder
<1>2. CASE UNCHANGED vars
  <2>1. Keeps /\ TablesOK' /\ Rooted'
    BY <1>2, Quiet DEF vars, Order, TypeOK
  <2>2. \A d \in Call : Still(d)
    BY <1>2 DEF Still, vars, localVars, startVars
  <2>3. CallsOK' /\ HistoryOK'
    BY <1>2 DEF vars, localVars, startVars, boundVars, CallsOK, HistoryOK, Order, TypeOK
  <2> QED
    BY <2>1, <2>2, <2>3, StillAt DEF Order, TypeOK, At
<1> QED
  BY <1>1, <1>2, PortalSound DEF Next

(* The tables keep their references: a session has speakers only after it *)
(* exists, each of them with a participation row and, on the session of a  *)
(* submission, its author; and at each label a request has read what the   *)
(* code has read there, of the speaker or task it works on.                *)
THEOREM InOrder == Spec => []Order
<1>1. Order /\ [Next]_vars => Order'
  BY OrderStep
<1> QED
  BY <1>1, OrderInit, PTL DEF Spec

-----------------------------------------------------------------------------
(* What a request has achieved *)

\* Every decision so far is an acceptance.
AllAccept == \A d \in Call : request[d] # None => Direct(d) \/ Value(d) = "accept"

\* A request that had the system to itself so far has it now.
Alone == \A c \in Underway : solo[c] => Underway = {c}

\* Speaker p takes part.
Here(p) == Known(p) /\ part[p].status = "accepted"

\* where all accept, nothing is taken away
OnwardTables ==
  /\ \A s \in Submission : decision[s] # None => decision[s].value = "accept"
  /\ \A x \in Session : session[x] # "cancelled"
  /\ \A p \in Speaker : Known(p) => Here(p)
  /\ \A t \in Task : task[t] # None => Live(t)

\* and no request has read of anything taken away.
OnwardRow(c) ==
  /\ pc[c] = "participation" /\ row[c] # None => row[c].status = "accepted"
  /\ pc[c] = "task" /\ row[c] # None => row[c].status # "cancelled"

OnwardOnly == OnwardTables /\ \A c \in Call : OnwardRow(c)

\* The decision of request c, in the words of the tables
Accepts(c) == Value(c) = "accept"
Fits(c)    == submission[Sub(c)].status = StatusOf[Value(c)]
Told(c)    == [value |-> Value(c), reason |-> Why(c)]

\* Progress of a request that is alone, or among acceptances
Fitted(c) == IF pc[c] \in Opening THEN AtTarget(c) => Fits(c) ELSE Fits(c)

\* the session is confirmed before the speakers are seated, and those it is done with are;
Cast(c) ==
  Accepts(c) =>
  /\ pc[c] \in Casting \union Tasking \union Recording => session[Sub(c)] = "confirmed"
  /\ pc[c] \in Casting =>
       \A p \in Author[Sub(c)] \ todo[c] : p \in links[Sub(c)] /\ Here(p)
  /\ pc[c] = "participation" /\ row[c] # None =>
       IF row[c].status = "accepted" THEN Here(who[c]) ELSE row[c] = part[who[c]]
  /\ pc[c] \in {"linked", "link"} => Here(who[c])
  /\ pc[c] \in Tasking \union Recording =>
       \A p \in Author[Sub(c)] : p \in links[Sub(c)] /\ Here(p)

\* the tasks come after the speakers, and those it is done with are there;
Tasked(c) ==
  Accepts(c) =>
  /\ pc[c] \in Tasking => \A t \in (Template \X Author[Sub(c)]) \ todo[c] : Live(t)
  /\ pc[c] = "task" /\ row[c] # None =>
       IF row[c].status = "cancelled" THEN row[c] = task[who[c]] ELSE Live(who[c])
  /\ pc[c] \in Recording => \A t \in Template \X Author[Sub(c)] : Live(t)

\* an older decision it has read is still there.
Noted(c) ==
  /\ pc[c] # "decision" /\ old[c] # None => decision[Sub(c)] # None
  /\ pc[c] \in {"ensure", "audit"} => decision[Sub(c)] # None

Progress(c) == Fitted(c) /\ Cast(c) /\ Tasked(c) /\ Noted(c)

\* and of one that is alone
SoloNoted(c) ==
  /\ pc[c] \in Opening => seen[c] = submission[Sub(c)]
  /\ pc[c] = "create" => session[Sub(c)] = None
  /\ pc[c] \notin {"decision", "audit"} => old[c] = decision[Sub(c)]
  /\ pc[c] \in {"ensure", "audit"} => decision[Sub(c)] = Told(c)
  /\ pc[c] # "decision" /\ audit[Sub(c)] # None => audit[Sub(c)].at <= at[c]

\* What a rejection took away is gone.
SoloTaken(c) ==
  ~Accepts(c) =>
  /\ pc[c] \in {"crew", "unlink"} => row[c] = session[Sub(c)]
  /\ pc[c] \in {"cancel"} \union Clearing \union Recording => links[Sub(c)] = {}
  /\ pc[c] \in Clearing \union Recording => session[Sub(c)] # "confirmed"

\* What is known of every request under way
Advanced(c) == pc[c] \notin {"start", "done"} /\ ~Direct(c) =>
  /\ solo[c] \/ AllAccept => Progress(c)
  /\ solo[c] => SoloNoted(c) /\ SoloTaken(c)

\* Audit rows carry the time of a request that has read the clock.
Now == Cardinality({d \in Call : at[d] > 0})
Clock == /\ \A d \in Call : at[d] <= Now
         /\ \A s \in Submission : audit[s] # None => audit[s].at <= Now

\* Steps that take nothing away
Grows ==
  /\ \A s \in Submission :
        submission[s].status = "accepted" => submission'[s].status = "accepted"
  /\ \A x \in Session : links[x] \subseteq links'[x]
  /\ \A s \in Submission : decision[s] # None => decision'[s] # None

\* What a step may assume, and what is shown of it
Ready(c) == Order /\ Clock /\ (AllAccept => OnwardOnly) /\ Advanced(c)

Forward(c) == /\ AllAccept' => OnwardTables' /\ OnwardRow(c)' /\ Grows
              /\ Advanced(c)'

\* Steps that change no table
LEMMA QuietOnward ==
  ASSUME OnwardTables, UNCHANGED tables
  PROVE  OnwardTables' /\ Grows
BY DEF OnwardTables, tables, Grows, Here, Known, Live

\* The step leaves alone what was asked, and who is alone.
LEMMA SameAsked ==
  ASSUME Order, NEW c \in Call, UNCHANGED startVars
  PROVE  /\ AllAccept' = AllAccept /\ solo' = solo /\ Direct(c)' = Direct(c)
         /\ Sub(c)' = Sub(c) /\ Value(c)' = Value(c) /\ Why(c)' = Why(c)
         /\ Crew(c)' = Crew(c) /\ SessionOf(c)' = SessionOf(c)
BY DEF AllAccept, startVars, Direct, Sub, Value, Why, Crew, SessionOf

\* Among acceptances nobody leaves.
LEMMA NoLeaving ==
  ASSUME Order, AllAccept, NEW c \in Call, pc[c] \in Leaving PROVE FALSE
BY DEF AllAccept, Order, Place

\* What a decision is about
LEMMA Sees ==
  ASSUME Order, NEW c \in Call, pc[c] # "start", ~Direct(c)
  PROVE  /\ Sub(c) \in Submission /\ Sub(c) \in Session /\ SessionOf(c) = Sub(c)
         /\ Crew(c) = Author[Sub(c)] /\ Author[Sub(c)] \subseteq Speaker
         /\ Value(c) \in Decision /\ Why(c) \in Reason
<1>1. request[c] # None
  BY DEF Order, Place
<1> QED
  BY <1>1, Requests, AuthorAssumption DEF Order, TypeOK, Session, SessionOf, Crew

\* The end of a request needs no more.
LEMMA EndsForward ==
  ASSUME Order, NEW c \in Call, NEW a, Reply(c, a)
  PROVE  Advanced(c)' /\ OnwardRow(c)'
BY Replied DEF Advanced, OnwardRow, Order, TypeOK

\* The steps of a request, one by one: each achieves what the next label promises.
LEMMA RecordForward ==
  ASSUME NEW c \in Call, Ready(c), NEW s \in Submission, NEW d \in Decision,
         NEW r \in Reason, NEW v \in Expected, Record(c, s, d, r, v), AllAccept' => AllAccept
  PROVE  Forward(c)
<1>1. UNCHANGED tables
  BY DEF Record
<1>2. AllAccept' => OnwardTables' /\ Grows
  BY <1>1, QuietOnward DEF Ready, OnwardOnly
<1>3. pc'[c] = "decision" /\ seen'[c] = submission[s] /\ request'[c].submission = s
  BY DEF Record, Begin, Goto, Ready, Order, TypeOK, CallsOK, HistoryOK
<1>4. Advanced(c)'
  <2>1. seen'[c] = submission'[Sub(c)']
    BY <1>1, <1>3 DEF Sub, tables
  <2>2. Fitted(c)'
    BY <2>1, <1>3 DEF Fitted, AtTarget, Fits
  <2>3. Cast(c)' /\ Tasked(c)' /\ Noted(c)'
    BY <1>3 DEF Cast, Tasked, Noted
  <2>4. SoloNoted(c)' /\ SoloTaken(c)'
    BY <2>1, <1>3 DEF SoloNoted, SoloTaken
  <2> QED
    BY <2>2, <2>3, <2>4 DEF Advanced, Progress
<1>5. OnwardRow(c)'
  BY <1>3 DEF OnwardRow
<1> QED
  BY <1>2, <1>4, <1>5 DEF Forward

LEMMA CreateDirectForward ==
  ASSUME NEW c \in Call, Ready(c), NEW crew \in SUBSET Speaker, CreateDirect(c, crew),
         AllAccept' => AllAccept
  PROVE  Forward(c)
<1>1. /\ session' = [session EXCEPT ![c] = "confirmed"]
      /\ UNCHANGED <<submission, decision, links, part, task, audit>>
      /\ pc'[c] = "speakers" /\ request'[c].submission = None
  BY DEF CreateDirect, Begin, Loop, Goto, Ready, Order, TypeOK, CallsOK, HistoryOK
<1>2. ASSUME AllAccept' PROVE OnwardTables' /\ Grows
  <2>1. OnwardTables
    BY <1>2 DEF Ready, OnwardOnly
  <2> QED
    BY <2>1, <1>1 DEF OnwardTables, Grows, Here, Known, Live, Ready, Order, TypeOK, TablesOK
<1>3. Advanced(c)' /\ OnwardRow(c)'
  BY <1>1 DEF Advanced, Direct, OnwardRow
<1> QED
  BY <1>2, <1>3 DEF Forward

LEMMA ReadDecisionForward ==
  ASSUME NEW c \in Call, Ready(c), ReadDecision(c) PROVE Forward(c)
<1> USE DEF Ready
<1>1. UNCHANGED tables /\ UNCHANGED startVars /\ pc[c] = "decision"
  BY DEF ReadDecision
<1>2. AllAccept' => OnwardTables' /\ Grows
  BY <1>1, QuietOnward, SameAsked DEF OnwardOnly
<1>3. CASE Reply(c, "conflict")
  BY <1>2, <1>3, EndsForward DEF Forward
<1>4. CASE /\ old' = [old EXCEPT ![c] = decision[Sub(c)]]
           /\ Goto(c, IF NeedsClaim(c, decision[Sub(c)]) THEN "claim"
                      ELSE Work(c, decision[Sub(c)]))
           /\ UNCHANGED <<seen, todo, who, row, listed, answer>>
  <2>1. /\ pc'[c] \in {"claim", "session", "lookup"} /\ old'[c] = decision[Sub(c)]
        /\ pc'[c] \in {"session", "lookup"} => AtTarget(c)
    BY <1>4 DEF Goto, Work, NeedsClaim, Order, TypeOK, CallsOK
  <2>2. OnwardRow(c)'
    BY <2>1 DEF OnwardRow
  <2>3. ASSUME ~Direct(c)' PROVE Advanced(c)'
    <3>1. ~Direct(c) /\ Sub(c) \in Submission
      BY <2>3, <1>1, SameAsked, Sees
    <3>2. ASSUME solo[c] \/ AllAccept PROVE Progress(c)'
      <4>1. AtTarget(c) => Fits(c)
        BY <3>1, <3>2, <1>1 DEF Advanced, Progress, Fitted
      <4>2. AtTarget(c)' = AtTarget(c) /\ Fits(c)' = Fits(c)
        BY <1>1, <1>4, SameAsked DEF AtTarget, Fits, tables
      <4>3. Fitted(c)'
        BY <4>1, <4>2, <2>1 DEF Fitted
      <4>4. Cast(c)' /\ Tasked(c)'
        BY <2>1 DEF Cast, Tasked
      <4>5. Noted(c)'
        BY <1>1, <2>1, SameAsked DEF Noted, tables
      <4> QED
        BY <4>3, <4>4, <4>5 DEF Progress
    <3>3. ASSUME solo[c] PROVE SoloNoted(c)' /\ SoloTaken(c)'
      <4>1. seen[c] = submission[Sub(c)]
        BY <3>1, <3>3, <1>1 DEF Advanced, SoloNoted
      <4>2. audit[Sub(c)] # None => audit[Sub(c)].at <= at'[c]
        <5>1. at'[c] = 1 + Now
          BY DEF ReadDecision, Now, Order, TypeOK, HistoryOK
        <5>2. audit[Sub(c)] # None => audit[Sub(c)].at <= Now /\ audit[Sub(c)].at \in Nat
          BY <3>1 DEF Clock, Order, TypeOK, TablesOK, Entry
        <5>3. Now \in Nat
          BY CallAssumption, FS_Subset, FS_CardinalityType DEF Now
        <5> QED
          BY <5>1, <5>2, <5>3
      <4>3. SoloNoted(c)'
        BY <4>1, <4>2, <2>1, <1>1, <1>4, SameAsked DEF SoloNoted, tables
      <4>4. SoloTaken(c)'
        BY <2>1 DEF SoloTaken
      <4> QED
        BY <4>3, <4>4
    <3> QED
      BY <3>2, <3>3, <1>1, SameAsked DEF Advanced
  <2> QED
    BY <2>2, <2>3, <1>2 DEF Forward, Advanced
<1> QED
  BY <1>3, <1>4 DEF ReadDecision

LEMMA ClaimForward ==
  ASSUME NEW c \in Call, Ready(c), Claim(c) PROVE Forward(c)
<1> USE DEF Ready
<1>1. /\ UNCHANGED <<decision, session, links, part, task, audit, startVars, at>>
      /\ pc[c] = "claim"
  BY DEF Claim
<1>2. ~Direct(c)
  BY <1>1 DEF Order, Place
<1>3. Sub(c) \in Submission /\ Value(c) \in Decision
  BY <1>1, <1>2, Sees
<1>4. CASE Reply(c, "conflict") /\ UNCHANGED submission
  <2>1. AllAccept' => OnwardTables' /\ Grows
    BY <1>1, <1>4, QuietOnward, SameAsked DEF OnwardOnly, tables
  <2> QED
    BY <2>1, <1>4, EndsForward DEF Forward
<1>5. CASE /\ submission' = [submission EXCEPT ![Sub(c)] =
                 [status |-> StatusOf[Value(c)], version |-> seen[c].version + 1]]
           /\ Goto(c, Work(c, old[c]))
           /\ UNCHANGED localVars
  <2>1. pc'[c] \in {"session", "lookup"}
    BY <1>5 DEF Goto, Work, Order, TypeOK, CallsOK
  <2>2. submission'[Sub(c)].status = StatusOf[Value(c)]
    BY <1>3, <1>5 DEF Order, TypeOK, TablesOK
  <2>3. OnwardRow(c)'
    BY <2>1 DEF OnwardRow
  <2>4. ASSUME AllAccept' PROVE OnwardTables' /\ Grows
    <3>1. AllAccept /\ Value(c) = "accept" /\ OnwardTables
      BY <2>4, <1>1, <1>2, SameAsked DEF AllAccept, Order, Place, OnwardOnly
    <3>2. OnwardTables'
      BY <3>1, <1>1 DEF OnwardTables, Here, Known, Live
    <3>3. submission'[Sub(c)].status = "accepted"
      BY <3>1, <2>2, StatusIs
    <3>4. \A s \in Submission : s # Sub(c) => submission'[s] = submission[s]
      BY <1>3, <1>5 DEF Order, TypeOK, TablesOK
    <3> QED
      BY <3>2, <3>3, <3>4, <1>1 DEF Grows
  <2>5. ASSUME solo[c] \/ AllAccept PROVE Progress(c)'
    <3>1. Fitted(c)'
      BY <2>1, <2>2, <1>1, SameAsked DEF Fitted, Fits
    <3>2. Cast(c)' /\ Tasked(c)'
      BY <2>1 DEF Cast, Tasked
    <3>3. Noted(c)
      BY <2>5, <1>1, <1>2 DEF Advanced, Progress
    <3>4. Noted(c)'
      BY <3>3, <2>1, <1>1, <1>5, SameAsked DEF Noted, localVars
    <3> QED
      BY <3>1, <3>2, <3>4 DEF Progress
  <2>6. ASSUME solo[c] PROVE SoloNoted(c)' /\ SoloTaken(c)'
    <3>1. SoloNoted(c)
      BY <2>6, <1>1, <1>2 DEF Advanced
    <3>2. SoloNoted(c)'
      BY <3>1, <2>1, <1>1, <1>5, SameAsked DEF SoloNoted, localVars
    <3> QED
      BY <3>2, <2>1 DEF SoloTaken
  <2>7. Advanced(c)'
    BY <2>5, <2>6, <1>1, SameAsked DEF Advanced
  <2> QED
    BY <2>3, <2>4, <2>7 DEF Forward
<1> QED
  BY <1>4, <1>5 DEF Claim

\* Steps that only move on
LEMMA QuietForward ==
  ASSUME NEW c \in Call, Ready(c), UNCHANGED <<tables, startVars>>,
         AllAccept => OnwardRow(c)',
         ~Direct(c) /\ (solo[c] \/ AllAccept) => Progress(c)',
         ~Direct(c) /\ solo[c] => SoloNoted(c)' /\ SoloTaken(c)'
  PROVE  Forward(c)
<1>1. AllAccept' => OnwardTables' /\ Grows
  BY QuietOnward, SameAsked DEF Ready, OnwardOnly
<1>2. Advanced(c)'
  BY SameAsked DEF Ready, Advanced
<1> QED
  BY <1>1, <1>2, SameAsked DEF Forward, Ready

\* what Advanced says of a request that is no direct one
LEMMA Underways ==
  ASSUME NEW c \in Call, Ready(c), pc[c] \notin {"start", "done"}, ~Direct(c)
  PROVE  /\ solo[c] \/ AllAccept => Fitted(c) /\ Cast(c) /\ Tasked(c) /\ Noted(c)
         /\ solo[c] => SoloNoted(c) /\ SoloTaken(c)
BY DEF Ready, Advanced, Progress

\* Terms that depend on the tables and the request alone.
LEMMA SameView ==
  ASSUME Order, NEW c \in Call, UNCHANGED <<tables, startVars>>
  PROVE  /\ Fits(c)' = Fits(c) /\ Accepts(c)' = Accepts(c) /\ Told(c)' = Told(c)
         /\ \A p \in Speaker : Here(p)' = Here(p)
         /\ \A t \in Task : Live(t)' = Live(t)
BY SameAsked DEF Fits, Accepts, Told, Here, Known, Live, tables

LEMMA FindSessionForward ==
  ASSUME NEW c \in Call, Ready(c), FindSession(c) PROVE Forward(c)
<1>1. UNCHANGED <<tables, startVars>> /\ UNCHANGED <<seen, old, at>> /\ pc[c] = "session"
  BY DEF FindSession
<1>2. ~Direct(c) /\ Value(c) = "accept" /\ Order
  BY <1>1 DEF Order, Place, Ready
<1>3. \/ pc'[c] = "create" /\ session[Sub(c)] = None
      \/ pc'[c] = "reactivate"
      \/ pc'[c] = "speakers" /\ session[Sub(c)] = "confirmed" /\ todo'[c] = Crew(c)
  <2>1. session[Sub(c)] \in {None, "cancelled", "confirmed"}
    BY <1>1, <1>2, Sees DEF Order, TypeOK, TablesOK
  <2> QED
    BY <2>1, <1>2, NoneAssumption DEF FindSession, Loop, Goto, Order, TypeOK, CallsOK
<1>4. OnwardRow(c)'
  BY <1>3 DEF OnwardRow
<1>5. ASSUME solo[c] \/ AllAccept PROVE Progress(c)'
  <2>1. Fits(c) /\ Noted(c)
    BY <1>1, <1>2, <1>5, Underways DEF Fitted
  <2>2. Fitted(c)'
    BY <2>1, <1>1, <1>2, <1>3, SameView DEF Fitted
  <2>3. Cast(c)'
    BY <1>1, <1>2, <1>3, SameAsked, Sees DEF Cast, tables
  <2>4. Tasked(c)'
    BY <1>3 DEF Tasked
  <2>5. Noted(c)'
    BY <2>1, <1>1, <1>2, <1>3, SameAsked DEF Noted, tables
  <2> QED
    BY <2>2, <2>3, <2>4, <2>5 DEF Progress
<1>6. ASSUME solo[c] PROVE SoloNoted(c)' /\ SoloTaken(c)'
  <2>1. SoloNoted(c)
    BY <1>1, <1>2, <1>6, Underways
  <2>2. SoloNoted(c)'
    BY <2>1, <1>1, <1>2, <1>3, SameAsked DEF SoloNoted, tables
  <2> QED
    BY <2>2, <1>3 DEF SoloTaken
<1> QED
  BY <1>1, <1>4, <1>5, <1>6, QuietForward

LEMMA ConfirmSessionForward ==
  ASSUME NEW c \in Call, Ready(c), ConfirmSession(c) PROVE Forward(c)
<1>1. /\ UNCHANGED <<submission, decision, links, part, task, audit, startVars, seen, old, at>>
      /\ pc[c] \in {"create", "reactivate"}
  BY DEF ConfirmSession
<1>2. ~Direct(c) /\ Value(c) = "accept" /\ Order
  BY <1>1 DEF Order, Place, Ready
<1>3. /\ Sub(c) \in Session /\ Crew(c) = Author[Sub(c)]
      /\ pc'[c] = "speakers" /\ todo'[c] = Crew(c)
  BY <1>1, <1>2, Sees DEF ConfirmSession, Loop, Goto, Order, TypeOK, CallsOK
<1>4. \/ session' = session /\ session[Sub(c)] # None
      \/ session' = [session EXCEPT ![Sub(c)] = "confirmed"]
  BY DEF ConfirmSession
<1>5. ASSUME solo[c] \/ AllAccept PROVE session'[Sub(c)] = "confirmed"
  <2>1. CASE AllAccept
    BY <2>1, <1>3, <1>4 DEF Ready, OnwardOnly, OnwardTables, Order, TypeOK, TablesOK
  <2>2. CASE solo[c]
    <3>1. pc[c] = "create" => session[Sub(c)] = None
      BY <2>2, <1>1, <1>2, Underways DEF SoloNoted
    <3> QED
      BY <3>1, <1>2, <1>3 DEF ConfirmSession, Order, TypeOK, TablesOK
  <2> QED
    BY <1>5, <2>1, <2>2
<1>6. ASSUME AllAccept' PROVE OnwardTables' /\ Grows
  <2>1. OnwardTables
    BY <1>1, <1>2, <1>6, SameAsked DEF Ready, OnwardOnly
  <2>2. \A x \in Session : session'[x] # "cancelled"
    BY <2>1, <1>2, <1>3, <1>4 DEF OnwardTables, Order, TypeOK, TablesOK
  <2> QED
    BY <2>1, <2>2, <1>1 DEF OnwardTables, Grows, Here, Known, Live
<1>7. OnwardRow(c)'
  BY <1>3 DEF OnwardRow
<1>8. ASSUME solo[c] \/ AllAccept PROVE Progress(c)'
  <2>1. Fits(c) /\ Noted(c)
    BY <1>1, <1>2, <1>8, Underways DEF Fitted
  <2>2. Fitted(c)'
    BY <2>1, <1>1, <1>2, <1>3, SameAsked DEF Fitted, Fits
  <2>3. Cast(c)'
    BY <1>1, <1>2, <1>3, <1>5, <1>8, SameAsked DEF Cast
  <2>4. Tasked(c)'
    BY <1>3 DEF Tasked
  <2>5. Noted(c)'
    BY <2>1, <1>1, <1>2, <1>3, SameAsked DEF Noted
  <2> QED
    BY <2>2, <2>3, <2>4, <2>5 DEF Progress
<1>9. ASSUME solo[c] PROVE SoloNoted(c)' /\ SoloTaken(c)'
  <2>1. SoloNoted(c)
    BY <1>1, <1>2, <1>9, Underways
  <2>2. SoloNoted(c)'
    BY <2>1, <1>1, <1>2, <1>3, SameAsked DEF SoloNoted
  <2> QED
    BY <2>2, <1>3 DEF SoloTaken
<1>10. Advanced(c)'
  BY <1>1, <1>2, <1>8, <1>9, SameAsked DEF Advanced
<1> QED
  BY <1>6, <1>7, <1>10 DEF Forward

\* The three steps of an acceptance that read: SoloNoted goes on.
LEMMA SoloOn ==
  ASSUME NEW c \in Call, Ready(c), solo[c], ~Direct(c),
         pc[c] \in Seating \union Casting \union Tasking \union Leaving,
         pc'[c] \in Casting \union Tasking \union Leaving,
         UNCHANGED <<decision, audit, startVars, old, at>>
  PROVE  SoloNoted(c)'
<1>1. SoloNoted(c)
  BY Underways
<1> QED
  BY <1>1, SameAsked DEF SoloNoted, Ready

LEMMA NotedOn ==
  ASSUME NEW c \in Call, Ready(c), solo[c] \/ AllAccept, ~Direct(c),
         pc[c] \in Seating \union Casting \union Tasking \union Leaving,
         pc'[c] \in Casting \union Tasking \union Leaving,
         UNCHANGED <<submission, decision, startVars, old>>
  PROVE  Fitted(c)' /\ Noted(c)'
<1>1. Fits(c) /\ Noted(c)
  BY Underways DEF Fitted
<1> QED
  BY <1>1, SameAsked DEF Fitted, Fits, Noted, Ready

LEMMA FindParticipationForward ==
  ASSUME NEW c \in Call, Ready(c), NEW p \in Speaker, FindParticipation(c, p)
  PROVE  Forward(c)
<1>1. /\ UNCHANGED <<tables, startVars>> /\ UNCHANGED <<old, at, todo>>
      /\ UNCHANGED <<submission, decision, audit>>
      /\ pc[c] = "speakers" /\ pc'[c] = "participation" /\ who'[c] = p /\ row'[c] = part[p]
  <2>1. Read(c, "participation", p, part[p]) /\ CallsOK /\ pc[c] = "speakers"
    BY DEF FindParticipation, Ready, Order, TypeOK
  <2>2. pc'[c] = "participation" /\ who'[c] = p /\ row'[c] = part[p]
    BY <2>1, RowRead
  <2> QED
    BY <2>1, <2>2 DEF Read, tables
<1>2. Order /\ (part[p] # None => part[p] \in PartRow)
  BY DEF Ready, Order, TypeOK, TablesOK
<1>3. AllAccept => OnwardRow(c)'
  BY <1>1 DEF Ready, OnwardOnly, OnwardTables, OnwardRow, Here, Known
<1>4. ASSUME ~Direct(c), solo[c] \/ AllAccept PROVE Progress(c)'
  <2>1. Fitted(c)' /\ Noted(c)'
    BY <1>1, <1>4, NotedOn
  <2>2. Cast(c) /\ Accepts(c)
    BY <1>1, <1>2, <1>4, Underways DEF Order, Place, Accepts
  <2>3. Cast(c)'
    <3>1. session'[Sub(c)'] = "confirmed"
      BY <2>2, <1>1, <1>2, SameAsked DEF Cast, tables
    <3>2. \A q \in Author[Sub(c)] \ todo[c] : q \in links[Sub(c)] /\ Here(q)
      BY <2>2, <1>1 DEF Cast
    <3>3. \A q \in Author[Sub(c)'] \ todo'[c] : q \in links'[Sub(c)'] /\ Here(q)'
      BY <3>2, <1>1, <1>2, SameAsked DEF Here, Known, tables
    <3>4. row'[c] # None =>
             IF row'[c].status = "accepted" THEN Here(who[c])' ELSE row'[c] = part'[who'[c]]
      BY <1>1 DEF Here, Known, tables
    <3> QED
      BY <3>1, <3>3, <3>4, <1>1 DEF Cast
  <2>4. Tasked(c)'
    BY <1>1 DEF Tasked
  <2> QED
    BY <2>1, <2>3, <2>4 DEF Progress
<1>5. ASSUME ~Direct(c), solo[c] PROVE SoloNoted(c)' /\ SoloTaken(c)'
  BY <1>1, <1>5, SoloOn DEF SoloTaken
<1> QED
  BY <1>1, <1>3, <1>4, <1>5, QuietForward

LEMMA WriteParticipationForward ==
  ASSUME NEW c \in Call, Ready(c), WriteParticipation(c) PROVE Forward(c)
<1>1. /\ UNCHANGED <<submission, decision, session, links, task, audit, startVars, at>>
      /\ pc[c] = "participation" /\ Order
  BY DEF WriteParticipation, Ready
<1>p. PICK p \in Speaker : p = who[c]
  BY <1>1, Crews DEF Order, TypeOK, Place, Aim
<1>2. /\ (row[c] # None => row[c] \in PartRow /\ part[p] # None)
      /\ part \in [Speaker -> PartRow \union {None}]
  BY <1>1, <1>p DEF Order, TypeOK, TablesOK, Reads, Known
<1>3. CASE Reply(c, "error") /\ UNCHANGED part
  <2>1. AllAccept' => OnwardTables' /\ Grows
    BY <1>1, <1>3, QuietOnward, SameAsked DEF OnwardOnly, tables, Ready
  <2> QED
    BY <2>1, <1>1, <1>3, EndsForward DEF Forward
<1>4. CASE /\ ~(row[c] = None /\ part[p] # None)
           /\ part' = CASE row[c] = None -> [part EXCEPT ![p] = Fresh("accepted")]
                        [] row[c] # None /\ ~Direct(c) /\ row[c].status # "accepted"
                             -> Patch(part, p, row[c], "accepted")
                        [] OTHER -> part
           /\ Goto(c, IF Direct(c) THEN "link" ELSE "linked")
           /\ UNCHANGED localVars
  <2>1. pc'[c] = IF Direct(c) THEN "link" ELSE "linked"
    BY <1>1, <1>4 DEF Goto, Order, TypeOK, CallsOK
  <2>2. /\ \A q \in Speaker : part'[q] = part[q] \/ Here(q)'
        /\ row[c] = None => Here(p)'
        /\ ~Direct(c) /\ row[c] # None /\ row[c].status # "accepted" /\ row[c] = part[p]
             => Here(p)'
    <3>1. CASE row[c] = None /\ part' = [part EXCEPT ![p] = Fresh("accepted")]
      <4>1. Fresh("accepted") # None /\ Fresh("accepted").status = "accepted"
        <5>1. Fresh("accepted") \in PartRow
          BY DEF Fresh, PartRow
        <5> QED
          BY <5>1, NoneIsNoRow DEF Fresh
      <4> QED
        BY <3>1, <4>1, <1>2 DEF Here, Known
    <3>2. CASE ~Direct(c) /\ row[c] # None /\ part' = Patch(part, p, row[c], "accepted")
      <4> DEFINE new == [status |-> "accepted", version |-> row[c].version + 1]
      <4>1. new # None /\ new.status = "accepted"
        <5>1. new \in PartRow
          BY <3>2, <1>2 DEF PartRow
        <5> QED
          BY <5>1, NoneIsNoRow
      <4>2. \/ part' = [part EXCEPT ![p] = new]
            \/ part' = part /\ row[c] # part[p]
        BY <3>2, <1>2 DEF Patch
      <4> HIDE DEF new
      <4> QED
        BY <3>2, <4>1, <4>2, <1>2 DEF Here, Known
    <3>3. CASE /\ row[c] # None /\ part' = part
               /\ ~(row[c] # None /\ ~Direct(c) /\ row[c].status # "accepted")
      BY <3>3
    <3> QED
      BY <1>4, <3>1, <3>2, <3>3
  <2>3. \A q \in Speaker : Here(q) => Here(q)'
    BY <2>2 DEF Here, Known
  <2>4. ASSUME AllAccept' PROVE OnwardTables' /\ Grows
    <3>1. OnwardTables
      BY <2>4, <1>1, SameAsked DEF Ready, OnwardOnly
    <3>2. \A q \in Speaker : Known(q)' => Here(q)'
      BY <3>1, <2>2 DEF OnwardTables, Here, Known
    <3> QED
      BY <3>1, <3>2, <1>1 DEF OnwardTables, Grows, Live
  <2>5. OnwardRow(c)'
    BY <2>1 DEF OnwardRow
  <2>6. ASSUME ~Direct(c), solo[c] \/ AllAccept PROVE Progress(c)'
    <3>1. Fitted(c)' /\ Noted(c)'
      BY <1>1, <1>4, <2>1, <2>6, NotedOn DEF localVars
    <3>2. Cast(c) /\ Accepts(c) /\ Author[Sub(c)] \subseteq Speaker
      BY <1>1, <2>6, Underways, Sees DEF Order, Place, Accepts
    <3>3. Here(p)'
      BY <3>2, <2>2, <2>3, <2>6, <1>1, <1>2, <1>p DEF Cast
    <3>4. Cast(c)'
      <4>1. session'[Sub(c)'] = "confirmed"
        BY <3>2, <1>1, SameAsked DEF Cast
      <4>2. \A q \in Author[Sub(c)'] \ todo'[c] : q \in links'[Sub(c)'] /\ Here(q)'
        BY <3>2, <2>3, <1>1, <1>4, SameAsked DEF Cast, localVars
      <4> QED
        BY <4>1, <4>2, <3>3, <2>1, <2>6, <1>4, <1>p DEF Cast, localVars
    <3>5. Tasked(c)'
      BY <2>1 DEF Tasked
    <3> QED
      BY <3>1, <3>4, <3>5 DEF Progress
  <2>7. ASSUME ~Direct(c), solo[c] PROVE SoloNoted(c)' /\ SoloTaken(c)'
    BY <1>1, <1>4, <2>1, <2>7, SoloOn DEF SoloTaken, localVars
  <2>8. Advanced(c)'
    BY <1>1, <2>6, <2>7, SameAsked DEF Advanced
  <2> QED
    BY <2>4, <2>5, <2>8 DEF Forward
<1> QED
  BY <1>p, <1>3, <1>4 DEF WriteParticipation

LEMMA FindLinkForward ==
  ASSUME NEW c \in Call, Ready(c), FindLink(c) PROVE Forward(c)
<1>1. /\ UNCHANGED <<tables, startVars>> /\ UNCHANGED <<old, at, who, row>>
      /\ UNCHANGED <<submission, decision, audit>>
      /\ pc[c] = "linked" /\ Order
  BY DEF FindLink, tables, Ready
<1>2. \/ /\ pc'[c] = "speakers" /\ todo'[c] = todo[c] \ {who[c]} /\ who[c] \in links[Sub(c)]
      \/ pc'[c] = "link" /\ todo' = todo
  BY <1>1 DEF FindLink, Loop, Goto, Order, TypeOK, CallsOK
<1>3. OnwardRow(c)'
  BY <1>2 DEF OnwardRow
<1>4. ASSUME ~Direct(c), solo[c] \/ AllAccept PROVE Progress(c)'
  <2>1. Fitted(c)' /\ Noted(c)'
    BY <1>1, <1>2, <1>4, NotedOn
  <2>2. Cast(c) /\ Accepts(c)
    BY <1>1, <1>4, Underways DEF Order, Place, Accepts
  <2>3. Cast(c)'
    <3>1. session'[Sub(c)'] = "confirmed"
      BY <2>2, <1>1, SameAsked DEF Cast, tables
    <3>2. \A q \in Author[Sub(c)] \ todo'[c] : q \in links[Sub(c)] /\ Here(q)
      BY <2>2, <1>1, <1>2 DEF Cast
    <3>3. \A q \in Author[Sub(c)'] \ todo'[c] : q \in links'[Sub(c)'] /\ Here(q)'
      BY <3>2, <1>1, SameAsked DEF Here, Known, tables
    <3>4. Here(who[c])'
      BY <2>2, <1>1 DEF Cast, Here, Known, tables
    <3> QED
      BY <3>1, <3>3, <3>4, <1>2 DEF Cast
  <2>4. Tasked(c)'
    BY <1>2 DEF Tasked
  <2> QED
    BY <2>1, <2>3, <2>4 DEF Progress
<1>5. ASSUME ~Direct(c), solo[c] PROVE SoloNoted(c)' /\ SoloTaken(c)'
  BY <1>1, <1>2, <1>5, SoloOn DEF SoloTaken
<1> QED
  BY <1>1, <1>3, <1>4, <1>5, QuietForward

LEMMA InsertLinkForward ==
  ASSUME NEW c \in Call, Ready(c), InsertLink(c) PROVE Forward(c)
<1> DEFINE x == SessionOf(c)
<1>1. /\ UNCHANGED <<submission, decision, session, part, task, audit, startVars, at>>
      /\ pc[c] = "link" /\ Order
  BY DEF InsertLink, Ready
<1>2. x \in Session
  BY <1>1, Crews DEF Order, TypeOK, Place
<1>3. CASE Reply(c, "error") /\ UNCHANGED links
  <2>1. AllAccept' => OnwardTables' /\ Grows
    BY <1>1, <1>3, QuietOnward, SameAsked DEF OnwardOnly, tables, Ready
  <2> QED
    BY <2>1, <1>1, <1>3, EndsForward DEF Forward
<1>4. CASE /\ links' = [links EXCEPT ![x] = @ \union {who[c]}]
           /\ Loop(c, "speakers", todo[c] \ {who[c]})
           /\ UNCHANGED <<seen, old, who, row, listed, answer>>
  <2>1. pc'[c] = "speakers" /\ todo'[c] = todo[c] \ {who[c]}
    BY <1>1, <1>4 DEF Loop, Goto, Order, TypeOK, CallsOK
  <2>2. who[c] \in links'[x] /\ \A y \in Session : links[y] \subseteq links'[y]
    BY <1>1, <1>2, <1>4 DEF Order, TypeOK, TablesOK
  <2>3. ASSUME AllAccept' PROVE OnwardTables' /\ Grows
    <3>1. OnwardTables
      BY <2>3, <1>1, SameAsked DEF Ready, OnwardOnly
    <3> QED
      BY <3>1, <2>2, <1>1 DEF OnwardTables, Grows, Live, Here, Known
  <2>4. OnwardRow(c)'
    BY <2>1 DEF OnwardRow
  <2>5. ASSUME ~Direct(c), solo[c] \/ AllAccept PROVE Progress(c)'
    <3>1. Fitted(c)' /\ Noted(c)'
      BY <1>1, <1>4, <2>1, <2>5, NotedOn
    <3>2. Cast(c) /\ Accepts(c) /\ SessionOf(c) = Sub(c) /\ Sub(c) \in Session
      BY <1>1, <2>5, Underways, Sees DEF Order, Place, Accepts
    <3>3. Cast(c)'
      <4>1. session'[Sub(c)'] = "confirmed"
        BY <3>2, <1>1, SameAsked DEF Cast
      <4>2. \A q \in Author[Sub(c)] \ todo'[c] : q \in links'[Sub(c)] /\ Here(q)
        BY <3>2, <2>1, <2>2, <1>1 DEF Cast
      <4>3. \A q \in Author[Sub(c)'] \ todo'[c] : q \in links'[Sub(c)'] /\ Here(q)'
        BY <4>2, <1>1, SameAsked DEF Here, Known
      <4> QED
        BY <4>1, <4>3, <2>1 DEF Cast
    <3>4. Tasked(c)'
      BY <2>1 DEF Tasked
    <3> QED
      BY <3>1, <3>3, <3>4 DEF Progress
  <2>6. ASSUME ~Direct(c), solo[c] PROVE SoloNoted(c)' /\ SoloTaken(c)'
    BY <1>1, <1>4, <2>1, <2>6, SoloOn DEF SoloTaken
  <2>7. Advanced(c)'
    BY <1>1, <2>5, <2>6, SameAsked DEF Advanced
  <2> QED
    BY <2>3, <2>4, <2>7 DEF Forward
<1> QED
  BY <1>3, <1>4 DEF InsertLink

LEMMA StartTasksForward ==
  ASSUME NEW c \in Call, Ready(c), StartTasks(c) PROVE Forward(c)
<1>1. /\ UNCHANGED <<tables, startVars>> /\ UNCHANGED <<old, at>>
      /\ UNCHANGED <<submission, decision, audit>>
      /\ pc[c] = "speakers" /\ todo[c] = {} /\ Order
  BY DEF StartTasks, tables, Ready
<1>2. pc'[c] = "tasks" /\ todo'[c] = Template \X Crew(c)
  BY <1>1 DEF StartTasks, Loop, Goto, Order, TypeOK, CallsOK
<1>3. OnwardRow(c)'
  BY <1>2 DEF OnwardRow
<1>4. ASSUME ~Direct(c), solo[c] \/ AllAccept PROVE Progress(c)'
  <2>1. Fitted(c)' /\ Noted(c)'
    BY <1>1, <1>2, <1>4, NotedOn
  <2>2. Cast(c) /\ Accepts(c) /\ Crew(c) = Author[Sub(c)]
    BY <1>1, <1>4, Underways, Sees DEF Order, Place, Accepts
  <2>3. Cast(c)'
    <3>1. session'[Sub(c)'] = "confirmed"
      BY <2>2, <1>1, SameAsked DEF Cast, tables
    <3>2. \A q \in Author[Sub(c)] : q \in links[Sub(c)] /\ Here(q)
      BY <2>2, <1>1 DEF Cast
    <3>3. \A q \in Author[Sub(c)'] : q \in links'[Sub(c)'] /\ Here(q)'
      BY <3>2, <1>1, SameAsked DEF Here, Known, tables
    <3> QED
      BY <3>1, <3>3, <1>2 DEF Cast
  <2>4. Tasked(c)'
    BY <1>1, <1>2, <2>2, SameAsked DEF Tasked
  <2> QED
    BY <2>1, <2>3, <2>4 DEF Progress
<1>5. ASSUME ~Direct(c), solo[c] PROVE SoloNoted(c)' /\ SoloTaken(c)'
  BY <1>1, <1>2, <1>5, SoloOn DEF SoloTaken
<1> QED
  BY <1>1, <1>3, <1>4, <1>5, QuietForward

\* The speakers of an acceptance are all there when its tasks are written.
LEMMA CastOn ==
  ASSUME NEW c \in Call, Ready(c), solo[c] \/ AllAccept, ~Direct(c), pc[c] \in Tasking,
         pc'[c] \in Tasking \union Recording, UNCHANGED <<session, links, part, startVars>>
  PROVE  Cast(c)'
<1>1. Cast(c) /\ Accepts(c)
  BY Underways DEF Order, Place, Accepts, Ready
<1>2. session'[Sub(c)'] = "confirmed"
  BY <1>1, SameAsked DEF Cast, Ready
<1>3. \A q \in Author[Sub(c)] : q \in links[Sub(c)] /\ Here(q)
  BY <1>1 DEF Cast
<1>4. \A q \in Author[Sub(c)'] : q \in links'[Sub(c)'] /\ Here(q)'
  BY <1>3, SameAsked DEF Here, Known, Ready
<1> QED
  BY <1>2, <1>4 DEF Cast

LEMMA FindTaskForward ==
  ASSUME NEW c \in Call, Ready(c), NEW t \in Task, FindTask(c, t) PROVE Forward(c)
<1>1. /\ UNCHANGED <<tables, startVars>> /\ UNCHANGED <<old, at, todo>>
      /\ UNCHANGED <<submission, decision, audit, session, links, part, task>>
      /\ pc[c] = "tasks" /\ pc'[c] = "task" /\ who'[c] = t /\ row'[c] = task[t]
  <2>1. Read(c, "task", t, task[t]) /\ CallsOK /\ pc[c] = "tasks"
    BY DEF FindTask, Ready, Order, TypeOK
  <2>2. pc'[c] = "task" /\ who'[c] = t /\ row'[c] = task[t]
    BY <2>1, RowRead
  <2> QED
    BY <2>1, <2>2 DEF Read, tables
<1>2. AllAccept => OnwardRow(c)'
  BY <1>1 DEF Ready, OnwardOnly, OnwardTables, OnwardRow, Live
<1>3. ASSUME ~Direct(c), solo[c] \/ AllAccept PROVE Progress(c)'
  <2>1. Fitted(c)' /\ Noted(c)'
    BY <1>1, <1>3, NotedOn
  <2>2. Tasked(c) /\ Accepts(c) /\ Cast(c)'
    BY <1>1, <1>3, Underways, CastOn DEF Order, Place, Accepts, Ready
  <2>3. Tasked(c)'
    <3>1. \A q \in (Template \X Author[Sub(c)]) \ todo[c] : Live(q)
      BY <2>2, <1>1 DEF Tasked
    <3>2. \A q \in (Template \X Author[Sub(c)']) \ todo'[c] : Live(q)'
      BY <3>1, <1>1, SameAsked DEF Live, Ready
    <3>3. row'[c] # None =>
            IF row'[c].status = "cancelled" THEN row'[c] = task'[who'[c]] ELSE Live(who[c])'
      BY <1>1 DEF Live
    <3> QED
      BY <3>2, <3>3, <1>1 DEF Tasked
  <2> QED
    BY <2>1, <2>2, <2>3 DEF Progress
<1>4. ASSUME ~Direct(c), solo[c] PROVE SoloNoted(c)' /\ SoloTaken(c)'
  BY <1>1, <1>4, SoloOn DEF SoloTaken
<1> QED
  BY <1>1, <1>2, <1>3, <1>4, QuietForward

LEMMA WriteTaskForward ==
  ASSUME NEW c \in Call, Ready(c), WriteTask(c) PROVE Forward(c)
<1>1. /\ UNCHANGED <<submission, decision, session, links, part, audit, startVars, at>>
      /\ pc[c] = "task" /\ Order
  BY DEF WriteTask, Ready
<1>t. PICK t \in Task : t = who[c]
  BY <1>1, Crews DEF Order, TypeOK, Place, Aim, Task
<1>2. /\ (row[c] # None => row[c] \in TaskRow /\ task[t] # None)
      /\ task \in [Task -> TaskRow \union {None}]
  BY <1>1, <1>t DEF Order, TypeOK, TablesOK, Reads
<1>3. CASE Reply(c, "error") /\ UNCHANGED task
  <2>1. AllAccept' => OnwardTables' /\ Grows
    BY <1>1, <1>3, QuietOnward, SameAsked DEF OnwardOnly, tables, Ready
  <2> QED
    BY <2>1, <1>1, <1>3, EndsForward DEF Forward
<1>4. CASE /\ task' = CASE row[c] = None -> [task EXCEPT ![t] = Fresh("pending")]
                        [] row[c] # None /\ Revives(c)
                             -> Patch(task, t, row[c], "pending")
                        [] OTHER -> task
           /\ Loop(c, "tasks", todo[c] \ {t})
           /\ UNCHANGED <<seen, old, who, row, listed, answer>>
  <2>1. pc'[c] = "tasks" /\ todo'[c] = todo[c] \ {t}
    BY <1>1, <1>4 DEF Loop, Goto, Order, TypeOK, CallsOK
  <2>2. /\ \A q \in Task : task'[q] = task[q] \/ Live(q)'
        /\ row[c] = None => Live(t)'
        /\ Revives(c) /\ row[c] # None /\ row[c] = task[t] => Live(t)'
    <3>1. CASE row[c] = None /\ task' = [task EXCEPT ![t] = Fresh("pending")]
      <4>1. Fresh("pending") # None /\ Fresh("pending").status = "pending"
        <5>1. Fresh("pending") \in TaskRow
          BY DEF Fresh, TaskRow
        <5> QED
          BY <5>1, NoneIsNoRow DEF Fresh
      <4> QED
        BY <3>1, <4>1, <1>2 DEF Live
    <3>2. CASE row[c] # None /\ task' = Patch(task, t, row[c], "pending")
      <4> DEFINE new == [status |-> "pending", version |-> row[c].version + 1]
      <4>1. new # None /\ new.status = "pending"
        <5>1. new \in TaskRow
          BY <3>2, <1>2 DEF TaskRow
        <5> QED
          BY <5>1, NoneIsNoRow
      <4>2. \/ task' = [task EXCEPT ![t] = new]
            \/ task' = task /\ row[c] # task[t]
        BY <3>2, <1>2 DEF Patch
      <4> HIDE DEF new
      <4> QED
        BY <3>2, <4>1, <4>2, <1>2 DEF Live
    <3>3. CASE row[c] # None /\ task' = task /\ ~Revives(c)
      BY <3>3
    <3> QED
      BY <1>4, <3>1, <3>2, <3>3
  <2>3. \A q \in Task : Live(q) => Live(q)'
    BY <2>2 DEF Live
  <2>4. ASSUME AllAccept' PROVE OnwardTables' /\ Grows
    <3>1. OnwardTables
      BY <2>4, <1>1, SameAsked DEF Ready, OnwardOnly
    <3>2. \A q \in Task : task'[q] # None => Live(q)'
      BY <3>1, <2>2 DEF OnwardTables, Live
    <3> QED
      BY <3>1, <3>2, <1>1 DEF OnwardTables, Grows, Here, Known
  <2>5. OnwardRow(c)'
    BY <2>1 DEF OnwardRow
  <2>6. ASSUME ~Direct(c), solo[c] \/ AllAccept PROVE Progress(c)'
    <3>1. Fitted(c)' /\ Noted(c)'
      BY <1>1, <1>4, <2>1, <2>6, NotedOn
    <3>2. Tasked(c) /\ Accepts(c) /\ Cast(c)' /\ Author[Sub(c)] \subseteq Speaker
      BY <1>1, <2>1, <2>6, Underways, Sees, CastOn DEF Order, Place, Accepts
    <3>3. Live(t)'
      <4>1. row[c] # None /\ ~Revives(c) => Live(t)
        BY <3>2, <2>6, <1>1, <1>t DEF Tasked, Revives
      <4>2. row[c] # None /\ Revives(c) => row[c] = task[t]
        BY <3>2, <1>1, <1>t DEF Tasked, Revives
      <4> QED
        BY <4>1, <4>2, <2>2, <2>3
    <3>4. Tasked(c)'
      <4>1. \A q \in (Template \X Author[Sub(c)]) \ todo[c] : Live(q)
        BY <3>2, <1>1 DEF Tasked
      <4>2. Template \X Author[Sub(c)] \subseteq Task
        BY <3>2 DEF Task
      <4>3. \A q \in (Template \X Author[Sub(c)]) \ todo'[c] : Live(q)'
        BY <4>1, <4>2, <3>3, <2>1, <2>3
      <4> QED
        BY <4>3, <2>1, <1>1, SameAsked DEF Tasked
    <3> QED
      BY <3>1, <3>2, <3>4 DEF Progress
  <2>7. ASSUME ~Direct(c), solo[c] PROVE SoloNoted(c)' /\ SoloTaken(c)'
    BY <1>1, <1>4, <2>1, <2>7, SoloOn DEF SoloTaken
  <2>8. Advanced(c)'
    BY <1>1, <2>6, <2>7, SameAsked DEF Advanced
  <2> QED
    BY <2>4, <2>5, <2>8 DEF Forward
<1> QED
  BY <1>t, <1>3, <1>4 DEF WriteTask

\* The program matches: what Finish needs to know.
LEMMA FinishOn ==
  ASSUME NEW c \in Call, Ready(c), solo[c] \/ AllAccept, ~Direct(c),
         pc[c] \in Tasking \union Leaving, pc'[c] = Finish(c),
         UNCHANGED <<submission, decision, audit, startVars, old, at>>
  PROVE  Fitted(c)' /\ Noted(c)' /\ (solo[c] => SoloNoted(c)')
<1>1. Fits(c) /\ Noted(c) /\ (solo[c] => SoloNoted(c)) /\ Sub(c) \in Submission
  BY Underways, Sees DEF Fitted, Ready
<1>2. pc'[c] \in {"ensure", "upsert"} /\ (pc'[c] = "ensure" => Idempotent(c, old[c]))
  BY DEF Finish
<1>3. Idempotent(c, old[c]) =>
         old[c] # None /\ old[c].value = Value(c) /\ old[c].reason = Why(c)
  BY DEF Idempotent, SameDecision, SameReason
<1>4. Fitted(c)' /\ Noted(c)'
  BY <1>1, <1>2, <1>3, SameAsked DEF Fitted, Fits, Noted, Ready
<1>5. ASSUME solo[c] PROVE SoloNoted(c)'
  <2>1. old[c] = decision[Sub(c)] /\ (audit[Sub(c)] # None => audit[Sub(c)].at <= at[c])
    BY <1>1, <1>5 DEF SoloNoted
  <2>2. pc'[c] = "ensure" => decision[Sub(c)] = Told(c)
    <3>1. decision[Sub(c)] # None => decision[Sub(c)] \in Verdict
      BY <1>1 DEF Ready, Order, TypeOK, TablesOK
    <3> QED
      BY <3>1, <2>1, <1>2, <1>3 DEF Verdict, Told
  <2> QED
    BY <2>1, <2>2, <1>2, SameAsked DEF SoloNoted, Told, Ready
<1> QED
  BY <1>4, <1>5

LEMMA EndTasksForward ==
  ASSUME NEW c \in Call, Ready(c), EndTasks(c) PROVE Forward(c)
<1>1. /\ UNCHANGED <<tables, startVars>> /\ UNCHANGED at
      /\ UNCHANGED <<submission, decision, audit, session, links, part, task>>
      /\ pc[c] = "tasks" /\ todo[c] = {} /\ Order
  BY DEF EndTasks, tables, Ready
<1>2. CASE Reply(c, "ok")
  <2>1. AllAccept' => OnwardTables' /\ Grows
    BY <1>1, QuietOnward, SameAsked DEF OnwardOnly, Ready
  <2> QED
    BY <2>1, <1>1, <1>2, EndsForward DEF Forward
<1>3. CASE ~Direct(c) /\ Goto(c, Finish(c)) /\ UNCHANGED localVars
  <2>1. pc'[c] = Finish(c) /\ Finish(c) \in {"ensure", "upsert"}
    BY <1>1, <1>3 DEF Goto, Finish, Order, TypeOK, CallsOK
  <2>2. OnwardRow(c)'
    BY <2>1 DEF OnwardRow
  <2>3. ASSUME solo[c] \/ AllAccept
        PROVE  Progress(c)' /\ (solo[c] => SoloNoted(c)' /\ SoloTaken(c)')
    <3>1. Fitted(c)' /\ Noted(c)' /\ (solo[c] => SoloNoted(c)')
      BY <1>1, <1>3, <2>1, <2>3, FinishOn DEF localVars
    <3>2. Tasked(c) /\ Accepts(c) /\ Cast(c)'
      BY <1>1, <1>3, <2>1, <2>3, Underways, CastOn DEF Order, Place, Accepts
    <3>3. Tasked(c)'
      <4>1. \A q \in Template \X Author[Sub(c)] : Live(q)
        BY <3>2, <1>1 DEF Tasked
      <4>2. \A q \in Template \X Author[Sub(c)'] : Live(q)'
        BY <4>1, <1>1, SameAsked DEF Live
      <4> QED
        BY <4>2, <2>1 DEF Tasked
    <3>4. SoloTaken(c)'
      BY <3>2, <1>1, SameAsked DEF SoloTaken, Accepts
    <3> QED
      BY <3>1, <3>2, <3>3, <3>4 DEF Progress
  <2> QED
    BY <2>2, <2>3, <1>1, QuietForward
<1> QED
  BY <1>2, <1>3 DEF EndTasks

\* A request that takes away is not among acceptances.
LEMMA LeavingForward ==
  ASSUME NEW c \in Call, Ready(c), pc[c] \in Leaving, UNCHANGED startVars,
         solo[c] => Progress(c)' /\ SoloNoted(c)' /\ SoloTaken(c)'
  PROVE  Forward(c)
<1>1. ~AllAccept /\ ~AllAccept'
  BY NoLeaving, SameAsked DEF Ready
<1> QED
  BY <1>1, SameAsked DEF Forward, Advanced, Ready

LEMMA TakesOn ==
  ASSUME NEW c \in Call, Ready(c), pc[c] \in Leaving, pc'[c] \in Leaving, solo[c],
         UNCHANGED <<submission, decision, audit, startVars, old, at>>
  PROVE  Progress(c)' /\ SoloNoted(c)'
<1>1. ~Direct(c) /\ ~Accepts(c)
  BY DEF Ready, Order, Place, Accepts
<1>2. Fitted(c)' /\ Noted(c)' /\ SoloNoted(c)'
  BY <1>1, NotedOn, SoloOn
<1>3. Cast(c)' /\ Tasked(c)'
  BY <1>1, SameAsked DEF Cast, Tasked, Accepts, Ready
<1> QED
  BY <1>2, <1>3 DEF Progress

\* The end of the taking away, whichever way it came to it
LEMMA TakenOn ==
  ASSUME NEW c \in Call, Ready(c), pc[c] \in Leaving, solo[c], pc'[c] = Finish(c),
         links[Sub(c)] = {}, session[Sub(c)] # "confirmed",
         UNCHANGED <<tables, startVars>>, UNCHANGED <<old, at>>
  PROVE  Progress(c)' /\ SoloNoted(c)' /\ SoloTaken(c)'
<1>1. ~Direct(c) /\ ~Accepts(c) /\ Order
  BY DEF Ready, Order, Place, Accepts
<1>2. Fitted(c)' /\ Noted(c)' /\ SoloNoted(c)'
  BY <1>1, FinishOn DEF tables
<1>3. Cast(c)' /\ Tasked(c)'
  BY <1>1, SameAsked DEF Cast, Tasked, Accepts
<1>4. SoloTaken(c)'
  BY <1>1, SameAsked DEF SoloTaken, tables, Finish
<1> QED
  BY <1>2, <1>3, <1>4 DEF Progress

LEMMA LookupForward ==
  ASSUME NEW c \in Call, Ready(c), Lookup(c) PROVE Forward(c)
<1>1. /\ UNCHANGED <<tables, startVars>> /\ UNCHANGED <<old, at>>
      /\ UNCHANGED <<submission, decision, audit>>
      /\ pc[c] = "lookup" /\ Order
  BY DEF Lookup, tables, Ready
<1>2. Sub(c) \in Session /\ ~Direct(c)
  BY <1>1, Sees DEF Order, Place
<1>3. ASSUME solo[c] PROVE Progress(c)' /\ SoloNoted(c)' /\ SoloTaken(c)'
  <2>1. CASE session[Sub(c)] = None /\ Goto(c, Finish(c))
    <3>1. pc'[c] = Finish(c)
      BY <2>1, <1>1 DEF Goto, Order, TypeOK, CallsOK
    <3>2. links[Sub(c)] = {} /\ session[Sub(c)] # "confirmed"
      BY <2>1, <1>1, <1>2, NoneAssumption DEF Order, Rooted
    <3> QED
      BY <3>1, <3>2, <1>1, <1>3, TakenOn
  <2>2. CASE Goto(c, "crew") /\ row' = [row EXCEPT ![c] = session[Sub(c)]]
    <3>1. pc'[c] = "crew" /\ row'[c] = session[Sub(c)]
      BY <2>2, <1>1 DEF Goto, Order, TypeOK, CallsOK
    <3>2. Progress(c)' /\ SoloNoted(c)'
      BY <3>1, <1>1, <1>3, TakesOn
    <3>3. SoloTaken(c)'
      BY <3>1, <1>1, SameAsked DEF SoloTaken, tables
    <3> QED
      BY <3>2, <3>3
  <2> QED
    BY <2>1, <2>2 DEF Lookup
<1> QED
  BY <1>1, <1>3, LeavingForward

LEMMA ListLinkedForward ==
  ASSUME NEW c \in Call, Ready(c), ListLinked(c) PROVE Forward(c)
<1>1. /\ UNCHANGED <<tables, startVars>> /\ UNCHANGED <<old, at, row>>
      /\ UNCHANGED <<submission, decision, audit>>
      /\ pc[c] = "crew" /\ Order
  BY DEF ListLinked, tables, Ready
<1>2. pc'[c] = "unlink" /\ ~Direct(c)
  BY <1>1 DEF ListLinked, Loop, Goto, Order, TypeOK, CallsOK, Place
<1>3. ASSUME solo[c] PROVE Progress(c)' /\ SoloNoted(c)' /\ SoloTaken(c)'
  <2>1. SoloTaken(c)
    BY <1>1, <1>2, <1>3, Underways
  <2>2. SoloTaken(c)'
    BY <2>1, <1>1, <1>2, SameAsked DEF SoloTaken, Accepts, tables
  <2> QED
    BY <2>2, <1>1, <1>2, <1>3, TakesOn
<1> QED
  BY <1>1, <1>3, LeavingForward

LEMMA UnlinkForward ==
  ASSUME NEW c \in Call, Ready(c), Unlink(c) PROVE Forward(c)
<1>1. /\ UNCHANGED <<submission, decision, session, audit, startVars>> /\ UNCHANGED <<old, at>>
      /\ pc[c] = "unlink" /\ Order
  BY DEF Unlink, localVars, Ready
<1>2. /\ pc'[c] = IF row[c] = "cancelled" THEN "free" ELSE "cancel"
      /\ ~Direct(c) /\ Sub(c) \in Session /\ links'[Sub(c)] = {}
  BY <1>1, Sees DEF Unlink, Goto, Order, TypeOK, CallsOK, TablesOK, Place
<1>3. ASSUME solo[c] PROVE Progress(c)' /\ SoloNoted(c)' /\ SoloTaken(c)'
  <2>1. SoloTaken(c)
    BY <1>1, <1>2, <1>3, Underways
  <2>2. SoloTaken(c)'
    BY <2>1, <1>1, <1>2, SameAsked DEF SoloTaken, Accepts
  <2> QED
    BY <2>2, <1>1, <1>2, <1>3, TakesOn
<1> QED
  BY <1>1, <1>3, LeavingForward

LEMMA CancelForward ==
  ASSUME NEW c \in Call, Ready(c), Cancel(c) PROVE Forward(c)
<1>1. /\ UNCHANGED <<submission, decision, links, audit, startVars>> /\ UNCHANGED <<old, at>>
      /\ pc[c] = "cancel" /\ Order
  BY DEF Cancel, localVars, Ready
<1>2. /\ pc'[c] = "free" /\ ~Direct(c) /\ Sub(c) \in Session
      /\ session'[Sub(c)] = "cancelled"
  BY <1>1, Sees DEF Cancel, Goto, Order, TypeOK, CallsOK, TablesOK, Place
<1>3. ASSUME solo[c] PROVE Progress(c)' /\ SoloNoted(c)' /\ SoloTaken(c)'
  <2>1. SoloTaken(c)
    BY <1>1, <1>2, <1>3, Underways
  <2>2. SoloTaken(c)'
    BY <2>1, <1>1, <1>2, SameAsked DEF SoloTaken, Accepts
  <2> QED
    BY <2>2, <1>1, <1>2, <1>3, TakesOn
<1> QED
  BY <1>1, <1>3, LeavingForward

\* Speakers are set free, or kept: the rest stays as it is.
LEMMA ClearingForward ==
  ASSUME NEW c \in Call, Ready(c), pc[c] \in Clearing, pc'[c] \in Clearing,
         UNCHANGED <<submission, decision, session, links, audit, startVars, old, at>>
  PROVE  Forward(c)
<1>1. ~Direct(c) /\ Order
  BY DEF Ready, Order, Place
<1>2. ASSUME solo[c] PROVE Progress(c)' /\ SoloNoted(c)' /\ SoloTaken(c)'
  <2>1. SoloTaken(c)
    BY <1>1, <1>2, Underways
  <2>2. SoloTaken(c)'
    BY <2>1, <1>1, SameAsked DEF SoloTaken, Accepts
  <2> QED
    BY <2>2, <1>1, <1>2, TakesOn
<1> QED
  BY <1>2, LeavingForward

LEMMA ClearForward ==
  ASSUME NEW c \in Call, Ready(c),
         \/ \E p \in Speaker : ListSessions(c, p)
         \/ \E x \in Session : LookForLink(c, x)
         \/ ListTasks(c) \/ \E l \in listed[c] : CancelTask(c, l)
         \/ FindLeaving(c) \/ Withdraw(c)
  PROVE  Forward(c)
<1>1. CallsOK
  BY DEF Ready, Order, TypeOK
<1>2. ASSUME NEW p \in Speaker, ListSessions(c, p) PROVE Forward(c)
  BY <1>1, <1>2, ClearingForward DEF ListSessions, Goto, CallsOK, tables
<1>3. ASSUME NEW x \in Session, LookForLink(c, x) PROVE Forward(c)
  <2>1. pc[c] \in Clearing /\ pc'[c] \in Clearing
    BY <1>1, <1>3 DEF LookForLink, Loop, Goto, CallsOK
  <2> QED
    BY <2>1, <1>3, ClearingForward DEF LookForLink, tables
<1>4. CASE ListTasks(c)
  BY <1>1, <1>4, ClearingForward DEF ListTasks, Goto, CallsOK, tables
<1>5. ASSUME NEW l \in listed[c], CancelTask(c, l) PROVE Forward(c)
  BY <1>1, <1>5, ClearingForward DEF CancelTask
<1>6. CASE FindLeaving(c)
  BY <1>1, <1>6, ClearingForward DEF FindLeaving, Read, Goto, CallsOK, tables
<1>7. CASE Withdraw(c)
  BY <1>1, <1>7, ClearingForward DEF Withdraw, Loop, Goto, CallsOK
<1> QED
  BY <1>2, <1>3, <1>4, <1>5, <1>6, <1>7

LEMMA EndFreeForward ==
  ASSUME NEW c \in Call, Ready(c), EndFree(c) PROVE Forward(c)
<1>1. /\ UNCHANGED <<tables, startVars>> /\ UNCHANGED <<old, at>>
      /\ pc[c] = "free" /\ pc'[c] = Finish(c) /\ Order
  BY DEF EndFree, Goto, localVars, Ready, Order, TypeOK, CallsOK
<1>2. ~Direct(c) /\ ~Accepts(c)
  BY <1>1 DEF Order, Place, Accepts
<1>3. ASSUME solo[c] PROVE Progress(c)' /\ SoloNoted(c)' /\ SoloTaken(c)'
  <2>1. links[Sub(c)] = {} /\ session[Sub(c)] # "confirmed"
    BY <1>1, <1>2, <1>3, Underways DEF SoloTaken
  <2> QED
    BY <2>1, <1>1, <1>3, TakenOn
<1> QED
  BY <1>1, <1>3, LeavingForward

\* From one step of the recording to the next
LEMMA RecordingOn ==
  ASSUME NEW c \in Call, Ready(c), ~Direct(c), pc[c] \in Recording \ {"audit"}, pc'[c] \in Recording,
         UNCHANGED <<submission, session, links, part, task, audit, startVars, old, at>>,
         \/ decision' = decision /\ (pc'[c] = "audit" => pc[c] = "ensure") /\ pc'[c] # "ensure"
         \/ /\ decision' = [decision EXCEPT ![Sub(c)] = Told(c)]
            /\ pc'[c] = "audit"
  PROVE  Forward(c)
<1>1. Order /\ Sub(c) \in Submission /\ Value(c) \in Decision /\ Why(c) \in Reason
  BY Sees DEF Ready
<1>2. Told(c) # None
  <2>1. Told(c) \in Verdict
    BY <1>1 DEF Told, Verdict
  <2> QED
    BY <2>1, NoneAssumption DEF Verdict
<1>3. /\ \A s \in Submission : s # Sub(c) => decision'[s] = decision[s]
      /\ decision'[Sub(c)] = decision[Sub(c)] \/ decision'[Sub(c)] = Told(c)
      /\ pc'[c] = "audit" => decision'[Sub(c)] = Told(c) \/
            (decision'[Sub(c)] = decision[Sub(c)] /\ pc[c] = "ensure")
      /\ pc'[c] # "audit" => decision'[Sub(c)] = decision[Sub(c)]
  BY <1>1 DEF Order, TypeOK, TablesOK
<1>4. ASSUME AllAccept' PROVE OnwardTables' /\ Grows
  <2>1. OnwardTables /\ AllAccept
    BY <1>4, <1>1, SameAsked DEF Ready, OnwardOnly
  <2>2. Told(c).value = "accept"
    BY <2>1, <1>1 DEF AllAccept, Order, Place, Told
  <2> QED
    BY <2>1, <2>2, <1>2, <1>3 DEF OnwardTables, Grows, Here, Known, Live
<1>5. OnwardRow(c)'
  BY DEF OnwardRow
<1>6. ASSUME solo[c] \/ AllAccept PROVE Progress(c)'
  <2>1. Fitted(c) /\ Cast(c) /\ Tasked(c) /\ Noted(c)
    BY <1>6, Underways
  <2>2. Fitted(c)'
    BY <2>1, <1>1, SameAsked DEF Fitted, Fits
  <2>3. Cast(c)'
    <3>1. CASE Accepts(c)
      <4>1. session'[Sub(c)'] = "confirmed"
        BY <3>1, <2>1, <1>1, SameAsked DEF Cast
      <4>2. \A q \in Author[Sub(c)] : q \in links[Sub(c)] /\ Here(q)
        BY <3>1, <2>1 DEF Cast
      <4>3. \A q \in Author[Sub(c)'] : q \in links'[Sub(c)'] /\ Here(q)'
        BY <4>2, <1>1, SameAsked DEF Here, Known
      <4> QED
        BY <4>1, <4>3 DEF Cast
    <3> QED
      BY <3>1, <1>1, SameAsked DEF Cast, Accepts
  <2>4. Tasked(c)'
    <3>1. CASE Accepts(c)
      <4>1. \A q \in Template \X Author[Sub(c)] : Live(q)
        BY <3>1, <2>1 DEF Tasked
      <4>2. \A q \in Template \X Author[Sub(c)'] : Live(q)'
        BY <4>1, <1>1, SameAsked DEF Live
      <4> QED
        BY <4>2 DEF Tasked
    <3> QED
      BY <3>1, <1>1, SameAsked DEF Tasked, Accepts
  <2>5. Noted(c)'
    BY <2>1, <1>1, <1>2, <1>3, SameAsked DEF Noted
  <2> QED
    BY <2>2, <2>3, <2>4, <2>5 DEF Progress
<1>7. ASSUME solo[c] PROVE SoloNoted(c)' /\ SoloTaken(c)'
  <2>1. SoloNoted(c) /\ SoloTaken(c)
    BY <1>7, Underways
  <2>2. Told(c)' = Told(c)
    BY <1>1, SameAsked DEF Told
  <2>3. SoloNoted(c)'
    BY <2>1, <2>2, <1>1, <1>3, SameAsked DEF SoloNoted
  <2>4. SoloTaken(c)'
    BY <2>1, <1>1, SameAsked DEF SoloTaken, Accepts
  <2> QED
    BY <2>3, <2>4
<1>8. Advanced(c)'
  BY <1>1, <1>6, <1>7, SameAsked DEF Advanced
<1> QED
  BY <1>4, <1>5, <1>8 DEF Forward

LEMMA RecordingForward ==
  ASSUME NEW c \in Call, Ready(c),
         Upsert(c) \/ WriteDecision(c) \/ EnsureAudit(c) \/ InsertAudit(c) \/ Die(c)
  PROVE  Forward(c)
<1>1. Order /\ CallsOK
  BY DEF Ready, Order, TypeOK
<1>2. CASE Upsert(c)
  <2>1. pc[c] = "upsert" /\ pc'[c] \in {"insert", "update"} /\ ~Direct(c)
    BY <1>1, <1>2 DEF Upsert, Goto, CallsOK, Order, Place
  <2> QED
    BY <2>1, <1>2, RecordingOn DEF Upsert, tables, localVars
<1>3. ASSUME NEW a, Reply(c, a), UNCHANGED <<tables, startVars>> PROVE Forward(c)
  <2>1. AllAccept' => OnwardTables' /\ Grows
    BY <1>1, <1>3, QuietOnward, SameAsked DEF OnwardOnly, Ready
  <2> QED
    BY <2>1, <1>1, <1>3, EndsForward DEF Forward
<1>4. CASE WriteDecision(c)
  <2>1. CASE Reply(c, "error") /\ UNCHANGED decision
    BY <2>1, <1>3, <1>4 DEF WriteDecision, tables
  <2>2. CASE /\ decision' = [decision EXCEPT ![Sub(c)] = [value |-> Value(c), reason |-> Why(c)]]
             /\ Goto(c, "audit") /\ UNCHANGED localVars
    <3>1. pc[c] \in {"insert", "update"} /\ pc'[c] = "audit" /\ ~Direct(c)
      BY <2>2, <1>1, <1>4 DEF WriteDecision, Goto, CallsOK, Order, Place
    <3> QED
      BY <3>1, <2>2, <1>4, RecordingOn DEF WriteDecision, localVars, Told
  <2> QED
    BY <2>1, <2>2, <1>4 DEF WriteDecision
<1>5. CASE EnsureAudit(c)
  <2>1. CASE Reply(c, "ok")
    BY <2>1, <1>3, <1>5 DEF EnsureAudit
  <2>2. CASE Goto(c, "audit") /\ UNCHANGED localVars
    <3>1. pc[c] = "ensure" /\ pc'[c] = "audit" /\ ~Direct(c)
      BY <2>2, <1>1, <1>5 DEF EnsureAudit, Goto, CallsOK, Order, Place
    <3> QED
      BY <3>1, <2>2, <1>5, RecordingOn DEF EnsureAudit, tables, localVars
  <2> QED
    BY <2>1, <2>2, <1>5 DEF EnsureAudit
<1>6. CASE InsertAudit(c)
  <2>1. /\ UNCHANGED <<submission, decision, session, links, part, task, startVars>>
        /\ Reply(c, "ok")
    BY <1>6 DEF InsertAudit
  <2>2. AllAccept' => OnwardTables' /\ Grows
    BY <2>1, <1>1, SameAsked DEF OnwardOnly, Ready, OnwardTables, Grows, Here, Known, Live
  <2> QED
    BY <2>1, <2>2, <1>1, EndsForward DEF Forward
<1>7. CASE Die(c)
  BY <1>3, <1>7 DEF Die
<1> QED
  BY <1>2, <1>4, <1>5, <1>6, <1>7

-----------------------------------------------------------------------------
(* What has been achieved so far *)

\* A request begins, or one under way goes on.
LEMMA CommandKinds ==
  ASSUME Order, NEW c \in Call, Command(c)
  PROVE  \/ /\ \E r : Begin(c, r)
            /\ UNCHANGED audit
         \/ c \in Underway /\ UNCHANGED startVars
<1>1. ASSUME NEW s \in Submission, NEW d \in Decision, NEW r \in Reason, NEW v \in Expected,
             Record(c, s, d, r, v)
      PROVE  (\E q : Begin(c, q)) /\ UNCHANGED audit
  BY <1>1 DEF Record, tables
<1>2. ASSUME NEW crew \in SUBSET Speaker, CreateDirect(c, crew)
      PROVE  (\E q : Begin(c, q)) /\ UNCHANGED audit
  BY <1>2 DEF CreateDirect
<1>3. ASSUME ReadDecision(c) \/ Claim(c) \/ FindSession(c) \/ ConfirmSession(c)
             \/ WriteParticipation(c) \/ FindLink(c) \/ InsertLink(c)
             \/ StartTasks(c) \/ WriteTask(c) \/ EndTasks(c)
      PROVE  c \in Underway /\ UNCHANGED startVars
  BY <1>3 DEF ReadDecision, Claim, FindSession, ConfirmSession, WriteParticipation, FindLink,
              InsertLink, StartTasks, WriteTask, EndTasks, Underway
<1>4. ASSUME NEW p \in Speaker, FindParticipation(c, p) \/ ListSessions(c, p)
      PROVE  c \in Underway /\ UNCHANGED startVars
  BY <1>4 DEF FindParticipation, ListSessions, Read, Underway
<1>5. ASSUME NEW t \in Task, FindTask(c, t) PROVE c \in Underway /\ UNCHANGED startVars
  BY <1>5 DEF FindTask, Read, Underway
<1>6. ASSUME NEW x \in Session, LookForLink(c, x) PROVE c \in Underway /\ UNCHANGED startVars
  BY <1>6 DEF LookForLink, Underway
<1>7. ASSUME NEW l \in listed[c], CancelTask(c, l) PROVE c \in Underway /\ UNCHANGED startVars
  BY <1>7 DEF CancelTask, Underway
<1>8. ASSUME Lookup(c) \/ ListLinked(c) \/ Unlink(c) \/ Cancel(c) \/ ListTasks(c)
             \/ FindLeaving(c) \/ Withdraw(c) \/ EndFree(c) \/ Upsert(c) \/ WriteDecision(c)
             \/ EnsureAudit(c) \/ InsertAudit(c) \/ Die(c)
      PROVE  c \in Underway /\ UNCHANGED startVars
  BY <1>8 DEF Lookup, ListLinked, Unlink, Cancel, ListTasks, FindLeaving, Read, Withdraw, EndFree,
              Upsert, WriteDecision, EnsureAudit, InsertAudit, Die, Underway
<1> QED
  BY <1>1, <1>2, <1>3, <1>4, <1>5, <1>6, <1>7, <1>8 DEF Command

\* A request under way was asked before the step,
LEMMA AskedBefore ==
  ASSUME Order, NEW c \in Call, Command(c), AllAccept' PROVE AllAccept
<1>1. \A d \in Call \ {c} : Still(d)
  BY CommandSound DEF Sound
<1>2. request[c] = None \/ request'[c] = request[c]
  BY CommandKinds DEF Begin, startVars, Order, Place
<1> QED
  BY <1>1, <1>2 DEF AllAccept, Still, Direct, Value

\* so the steps together:
LEMMA CommandForward ==
  ASSUME NEW c \in Call, Ready(c), Command(c) PROVE Forward(c)
<1>1. AllAccept' => AllAccept
  BY AskedBefore DEF Ready
<1>2. ASSUME NEW s \in Submission, NEW d \in Decision, NEW r \in Reason, NEW v \in Expected,
             Record(c, s, d, r, v)
      PROVE  Forward(c)
  BY <1>1, <1>2, RecordForward
<1>3. ASSUME NEW crew \in SUBSET Speaker, CreateDirect(c, crew) PROVE Forward(c)
  BY <1>1, <1>3, CreateDirectForward
<1> QED
  BY <1>2, <1>3, ReadDecisionForward, ClaimForward, FindSessionForward, ConfirmSessionForward,
     FindParticipationForward, WriteParticipationForward, FindLinkForward, InsertLinkForward,
     StartTasksForward, FindTaskForward, WriteTaskForward, EndTasksForward, LookupForward,
     ListLinkedForward, UnlinkForward, CancelForward, ClearForward, EndFreeForward,
     RecordingForward
  DEF Command

\* A request that is alone stays alone until another begins.
LEMMA AloneStep ==
  ASSUME Order, Alone, NEW c \in Call, Command(c) PROVE Alone'
<1>1. \A d \in Call \ {c} : pc'[d] = pc[d]
  BY CommandSound DEF Sound, Still
<1>2. ASSUME NEW r, Begin(c, r) PROVE Alone'
  BY <1>1, <1>2 DEF Alone, Begin, Underway
<1>3. CASE c \in Underway /\ solo' = solo
  BY <1>1, <1>3 DEF Alone, Underway
<1> QED
  BY <1>2, <1>3, CommandKinds DEF startVars

\* Among acceptances what the others have achieved remains.
LEMMA Remains ==
  ASSUME Order, Order', NEW d \in Call, Still(d), AllAccept, AllAccept', OnwardOnly,
         OnwardTables', Grows, Keeps, pc[d] \notin {"start", "done"}, ~Direct(d), Progress(d)
  PROVE  Progress(d)'
<1>1. /\ Direct(d)' = Direct(d) /\ Sub(d)' = Sub(d) /\ Value(d)' = Value(d) /\ Why(d)' = Why(d)
      /\ AtTarget(d)' = AtTarget(d)
  BY DEF Still, Direct, Sub, Value, Why, AtTarget
<1>2. /\ Value(d) = "accept" /\ Sub(d) \in Submission /\ Sub(d) \in Session
      /\ Author[Sub(d)] \subseteq Speaker
  BY Sees DEF AllAccept, Order, Place
<1>3. Fits(d) => Fits(d)'
  BY <1>1, <1>2, StatusIs DEF Fits, Grows
<1>4. session[Sub(d)] = "confirmed" => session'[Sub(d)] = "confirmed"
  BY <1>2, NoneAssumption DEF Keeps, OnwardTables, Order, TypeOK, TablesOK
<1>5. \A p \in Speaker : Here(p) => Here(p)'
  BY DEF Keeps, OnwardTables, Here, Known
<1>6. \A t \in Task : Live(t) => Live(t)'
  BY DEF Keeps, OnwardTables, Live
<1>7. OnwardRow(d)
  BY DEF OnwardOnly
<1>8. Fitted(d)'
  BY <1>1, <1>3 DEF Progress, Fitted, Still
<1>9. Noted(d)'
  BY <1>1, <1>2 DEF Progress, Noted, Still, Grows
<1>10. pc[d] \in {"participation", "linked", "link"} => who[d] \in Speaker
  BY Crews DEF Order, TypeOK, Place, Aim
<1>11. pc[d] = "task" => who[d] \in Task
  BY Crews DEF Order, TypeOK, Place, Aim, Task
<1>12. Cast(d)'
  <2>1. Cast(d) /\ Accepts(d)
    BY <1>2 DEF Progress, Accepts
  <2>2. pc[d] \in Casting \union Tasking \union Recording => session'[Sub(d)] = "confirmed"
    BY <2>1, <1>4 DEF Cast
  <2>3. pc[d] \in Casting =>
           \A p \in Author[Sub(d)] \ todo[d] : p \in links'[Sub(d)] /\ Here(p)'
    BY <2>1, <1>2, <1>5 DEF Cast, Grows
  <2>4. pc[d] = "participation" /\ row[d] # None =>
           row[d].status = "accepted" /\ Here(who[d])'
    BY <2>1, <1>5, <1>7, <1>10 DEF Cast, OnwardRow, Still, Here, Known
  <2>5. pc[d] \in {"linked", "link"} => Here(who[d])'
    BY <2>1, <1>5, <1>10 DEF Cast, Still, Here, Known
  <2>6. pc[d] \in Tasking \union Recording =>
           \A p \in Author[Sub(d)] : p \in links'[Sub(d)] /\ Here(p)'
    BY <2>1, <1>2, <1>5 DEF Cast, Grows
  <2> QED
    BY <2>2, <2>3, <2>4, <2>5, <2>6, <1>1 DEF Cast, Still
<1>13. Tasked(d)'
  <2>1. Tasked(d) /\ Accepts(d)
    BY <1>2 DEF Progress, Accepts
  <2>2. Template \X Author[Sub(d)] \subseteq Task
    BY <1>2 DEF Task
  <2>3. pc[d] \in Tasking => \A t \in (Template \X Author[Sub(d)]) \ todo[d] : Live(t)'
    BY <2>1, <2>2, <1>6 DEF Tasked
  <2>4. pc[d] = "task" /\ row[d] # None => row[d].status # "cancelled" /\ Live(who[d])'
    BY <2>1, <1>6, <1>7, <1>11 DEF Tasked, OnwardRow, Still, Live
  <2>5. pc[d] \in Recording => \A t \in Template \X Author[Sub(d)] : Live(t)'
    BY <2>1, <2>2, <1>6 DEF Tasked
  <2> QED
    BY <2>3, <2>4, <2>5, <1>1 DEF Tasked, Still
<1> QED
  BY <1>8, <1>9, <1>12, <1>13 DEF Progress

\* The inductive invariant behind AcceptancesAddUp
Achieved == /\ Order /\ Clock /\ Alone
            /\ AllAccept => OnwardOnly
            /\ \A c \in Call : Advanced(c)

\* The clock only goes on.
LEMMA NowGrows ==
  ASSUME Order, NEW c \in Call, ReadDecision(c)
  PROVE  Now \in Nat /\ at'[c] = Now + 1 /\ Now' = Now + 1
<1>1. at' = [at EXCEPT ![c] = 1 + Now] /\ at[c] = 0 /\ at \in [Call -> Nat]
  <2>1. at' = [at EXCEPT ![c] = 1 + Now]
    BY DEF ReadDecision, Now
  <2>2. pc[c] = "decision"
    BY DEF ReadDecision
  <2> QED
    BY <2>1, <2>2 DEF Order, Place, TypeOK, HistoryOK
<1> DEFINE Timed == {d \in Call : at[d] > 0}
<1>2. IsFiniteSet(Timed) /\ Now \in Nat
  BY CallAssumption, FS_Subset, FS_CardinalityType DEF Now
<1>3. c \notin Timed
  BY <1>1
<1>4. {d \in Call : at'[d] > 0} = Timed \union {c}
  BY <1>1, <1>2
<1>5. Cardinality(Timed \union {c}) = Cardinality(Timed) + 1
  BY <1>2, <1>3, FS_AddElement
<1> QED
  BY <1>1, <1>2, <1>4, <1>5 DEF Now

\* Only ReadDecision reads the clock, and only InsertAudit writes the trail.
LEMMA Clockless ==
  ASSUME Order, NEW c \in Call, Command(c)
  PROVE  (ReadDecision(c) \/ UNCHANGED at) /\ (InsertAudit(c) \/ UNCHANGED audit)
<1>1. ASSUME NEW s \in Submission, NEW d \in Decision, NEW r \in Reason, NEW v \in Expected,
             Record(c, s, d, r, v)
      PROVE  UNCHANGED <<at, audit>>
  BY <1>1 DEF Record, Begin, tables
<1>2. ASSUME NEW crew \in SUBSET Speaker, CreateDirect(c, crew)
      PROVE  UNCHANGED <<at, audit>>
  BY <1>2 DEF CreateDirect, Begin
<1>3. ASSUME Claim(c) \/ FindSession(c) \/ ConfirmSession(c)
             \/ WriteParticipation(c) \/ FindLink(c) \/ InsertLink(c)
             \/ StartTasks(c) \/ WriteTask(c) \/ EndTasks(c)
      PROVE  UNCHANGED <<at, audit>>
  BY <1>3 DEF Claim, FindSession, ConfirmSession, WriteParticipation, FindLink,
              InsertLink, StartTasks, WriteTask, EndTasks, tables
<1>4. ASSUME NEW p \in Speaker, FindParticipation(c, p) \/ ListSessions(c, p)
      PROVE  UNCHANGED <<at, audit>>
  BY <1>4 DEF FindParticipation, ListSessions, Read, tables
<1>5. ASSUME NEW t \in Task, FindTask(c, t) PROVE UNCHANGED <<at, audit>>
  BY <1>5 DEF FindTask, Read, tables
<1>6. ASSUME NEW x \in Session, LookForLink(c, x) PROVE UNCHANGED <<at, audit>>
  BY <1>6 DEF LookForLink, tables
<1>7. ASSUME NEW l \in listed[c], CancelTask(c, l) PROVE UNCHANGED <<at, audit>>
  BY <1>7 DEF CancelTask
<1>8. ASSUME Lookup(c) \/ ListLinked(c) \/ Unlink(c) \/ Cancel(c) \/ ListTasks(c)
             \/ FindLeaving(c) \/ Withdraw(c) \/ EndFree(c) \/ Upsert(c) \/ WriteDecision(c)
             \/ EnsureAudit(c) \/ Die(c)
      PROVE  UNCHANGED <<at, audit>>
  BY <1>8 DEF Lookup, ListLinked, Unlink, Cancel, ListTasks, FindLeaving, Read, Withdraw, EndFree,
              Upsert, WriteDecision, EnsureAudit, Die, tables
<1>9. CASE ReadDecision(c)
  BY <1>9 DEF ReadDecision, tables
<1>10. CASE InsertAudit(c)
  BY <1>10 DEF InsertAudit
<1> QED
  BY <1>1, <1>2, <1>3, <1>4, <1>5, <1>6, <1>7, <1>8, <1>9, <1>10 DEF Command

LEMMA ClockStep ==
  ASSUME Order, Clock, NEW c \in Call, Command(c) PROVE Clock'
<1>1. Now \in Nat /\ at \in [Call -> Nat] /\ audit \in [Submission -> Entry \union {None}]
  BY CallAssumption, FS_Subset, FS_CardinalityType DEF Now, Order, TypeOK, HistoryOK, TablesOK
<1>2. CASE ReadDecision(c)
  <2>1. at'[c] = Now + 1 /\ Now' = Now + 1 /\ \A d \in Call \ {c} : at'[d] = at[d]
    BY <1>2, NowGrows DEF ReadDecision, Order, TypeOK, HistoryOK
  <2>2. UNCHANGED audit
    BY <1>2 DEF ReadDecision, tables
  <2>3. \A d \in Call : at'[d] <= Now'
    BY <2>1, <1>1 DEF Clock
  <2>4. ASSUME NEW s \in Submission, audit'[s] # None PROVE audit'[s].at <= Now'
    <3>1. audit[s].at \in Nat /\ audit[s].at <= Now
      BY <2>2, <2>4, <1>1 DEF Clock, Entry
    <3> QED
      BY <3>1, <2>1, <2>2, <1>1
  <2> QED
    BY <2>3, <2>4 DEF Clock
<1>3. CASE InsertAudit(c)
  <2>1. at' = at /\ Now' = Now
    BY <1>3 DEF InsertAudit, Now
  <2>2. ASSUME NEW s \in Submission, audit'[s] # None PROVE audit'[s].at <= Now'
    <3>1. audit'[s] = audit[s] \/ audit'[s] = [value |-> Value(c), reason |-> Why(c), at |-> at[c]]
      BY <1>1, <1>3 DEF InsertAudit
    <3> QED
      BY <3>1, <2>1, <2>2 DEF Clock
  <2> QED
    BY <2>1, <2>2 DEF Clock
<1>4. CASE UNCHANGED <<at, audit>>
  BY <1>4 DEF Clock, Now
<1> QED
  BY <1>2, <1>3, <1>4, Clockless

\* It holds after every step: of a request,
LEMMA AchievedCommand ==
  ASSUME Achieved, NEW c \in Call, Command(c) PROVE Achieved'
<1>1. Order' /\ Clock' /\ Alone' /\ Sound(c) /\ (AllAccept' => AllAccept)
  BY CommandSound, SoundOrder, ClockStep, AloneStep, AskedBefore DEF Achieved
<1>2. Forward(c)
  BY CommandForward DEF Achieved, Ready
<1>3. ASSUME AllAccept' PROVE OnwardOnly'
  <2>1. \A d \in Call \ {c} : OnwardRow(d)'
    BY <1>1, <1>3 DEF Achieved, OnwardOnly, OnwardRow, Sound, Still
  <2> QED
    BY <2>1, <1>2, <1>3 DEF Forward, OnwardOnly
<1>4. ASSUME NEW d \in Call \ {c} PROVE Advanced(d)'
  <2>1. Still(d) /\ Keeps /\ Order
    BY <1>1 DEF Sound, Achieved
  <2>2. CASE pc[d] \notin {"start", "done"} /\ ~Direct(d)
    <3>1. d \in Underway
      BY <2>2 DEF Underway
    <3>2. ~solo'[d]
      <4>1. ASSUME NEW r, Begin(c, r) PROVE ~solo'[d]
        BY <3>1, <4>1 DEF Begin
      <4>2. CASE c \in Underway /\ UNCHANGED startVars
        BY <3>1, <4>2 DEF Achieved, Alone, startVars
      <4> QED
        BY <4>1, <4>2, <2>1, CommandKinds
    <3>3. ASSUME AllAccept' PROVE Progress(d)'
      <4>1. AllAccept /\ OnwardOnly /\ OnwardTables' /\ Grows
        BY <3>3, <1>1, <1>2 DEF Achieved, Forward
      <4>2. Progress(d)
        BY <4>1, <2>2 DEF Achieved, Advanced
      <4> QED
        BY <4>1, <4>2, <2>1, <2>2, <3>3, <1>1, Remains
    <3> QED
      BY <3>2, <3>3 DEF Advanced
  <2>3. pc'[d] = pc[d] /\ Direct(d)' = Direct(d)
    BY <2>1 DEF Still, Direct
  <2> QED
    BY <2>2, <2>3 DEF Advanced
<1> QED
  BY <1>1, <1>2, <1>3, <1>4 DEF Achieved, Forward

\* of the portal,
LEMMA PortalKeeps ==
  ASSUME Order, \/ \E t \in Task : CompleteTask(t)
                \/ \E p \in Speaker : UpdateProfile(p)
  PROVE  /\ \A p \in Speaker : Here(p) => Here(p)'
         /\ \A p \in Speaker : Known(p)' => Known(p)
         /\ \A t \in Task : Live(t) => Live(t)'
         /\ \A t \in Task : task'[t] # None => task[t] # None
         /\ \A t \in Task : task[t] # None /\ ~Live(t)' => ~Live(t)
         /\ \A t \in Task : Live(t)' => Live(t)
         /\ \A p \in Speaker : Known(p) => part'[p].status = part[p].status
<1>1. ASSUME NEW t \in Task, CompleteTask(t)
      PROVE  /\ part' = part
             /\ \A q \in Task : task'[q] = task[q] \/ (Live(q)' /\ Live(q))
  <2> DEFINE new == [status |-> "completed", version |-> task[t].version + 1]
  <2>1. task[t] \in TaskRow /\ task[t] # None /\ task[t].status = "pending"
    BY <1>1 DEF CompleteTask, Order, TypeOK, TablesOK
  <2>2. new \in TaskRow
    BY <2>1 DEF TaskRow
  <2>3. new # None /\ new.status = "completed" /\ task' = [task EXCEPT ![t] = new]
    BY <1>1, <2>1, <2>2, NoneIsNoRow DEF CompleteTask, Patch
  <2> HIDE DEF new
  <2> QED
    BY <1>1, <2>1, <2>3 DEF CompleteTask, Live, Order, TypeOK, TablesOK
<1>2. ASSUME NEW p \in Speaker, UpdateProfile(p)
      PROVE  /\ task' = task
             /\ \A q \in Speaker : part'[q] = part[q] \/
                   (Known(q) /\ Known(q)' /\ part'[q].status = part[q].status)
  <2> DEFINE new == [status |-> part[p].status, version |-> part[p].version + 1]
  <2>1. part[p] \in PartRow /\ part[p] # None
    BY <1>2 DEF UpdateProfile, Order, TypeOK, TablesOK
  <2>2. new \in PartRow
    BY <2>1 DEF PartRow
  <2>3. new # None /\ new.status = part[p].status /\ part' = [part EXCEPT ![p] = new]
    BY <1>2, <2>1, <2>2, NoneIsNoRow DEF UpdateProfile, Patch
  <2> HIDE DEF new
  <2> QED
    BY <1>2, <2>1, <2>3 DEF UpdateProfile, Known, Order, TypeOK, TablesOK
<1>3. CASE \E t \in Task : CompleteTask(t)
  BY <1>1, <1>3 DEF Here, Known, Live
<1>4. CASE \E p \in Speaker : UpdateProfile(p)
  BY <1>2, <1>4 DEF Here, Known, Live
<1> QED
  BY <1>3, <1>4

\* A speaker's write changes a version, or completes a task.
LEMMA AchievedPortal ==
  ASSUME Achieved, \/ \E t \in Task : CompleteTask(t)
                   \/ \E p \in Speaker : UpdateProfile(p)
  PROVE  Achieved'
<1>1. Order /\ Order' /\ Keeps /\ \A d \in Call : Still(d)
  BY PortalSound DEF Achieved
<1>2. /\ UNCHANGED <<submission, decision, session, links, audit, pc, request, at>>
      /\ solo' = [c \in Call |-> solo[c] /\ c \notin Underway]
  BY DEF CompleteTask, UpdateProfile, Interfere
<1>3. Clock' /\ AllAccept' = AllAccept /\ Underway' = Underway
  BY <1>2 DEF Achieved, Clock, Now, AllAccept, Direct, Value, Underway
<1>4. Alone'
  <2>1. ASSUME NEW c \in Underway PROVE ~solo'[c]
    BY <2>1, <1>2 DEF Underway
  <2> QED
    BY <2>1, <1>3 DEF Alone
<1>5. (\A p \in Speaker : Here(p) => Here(p)') /\ (\A t \in Task : Live(t) => Live(t)')
      /\ (\A p \in Speaker : Known(p)' => Known(p)) /\ (\A t \in Task : task'[t] # None => task[t] # None)
      /\ \A t \in Task : task[t] # None /\ ~Live(t)' => ~Live(t)
  BY <1>1, PortalKeeps
<1>6. ASSUME AllAccept PROVE OnwardOnly' /\ Grows
  <2>1. OnwardOnly
    BY <1>6 DEF Achieved
  <2>2. OnwardTables' /\ Grows
    BY <2>1, <1>2, <1>5 DEF OnwardOnly, OnwardTables, Grows
  <2>3. \A d \in Call : OnwardRow(d)'
    BY <2>1, <1>1 DEF OnwardOnly, OnwardRow, Still
  <2> QED
    BY <2>2, <2>3 DEF OnwardOnly
<1>7. ASSUME NEW d \in Call PROVE Advanced(d)'
  <2>1. CASE pc[d] \notin {"start", "done"} /\ ~Direct(d)
    <3>1. ~solo'[d]
      BY <2>1, <1>2 DEF Underway
    <3>2. ASSUME AllAccept PROVE Progress(d)'
      <4>1. Progress(d) /\ OnwardOnly
        BY <2>1, <3>2 DEF Achieved, Advanced
      <4>2. OnwardTables' /\ Grows
        BY <3>2, <1>6 DEF OnwardOnly
      <4> QED
        BY <4>1, <4>2, <2>1, <3>2, <1>1, <1>3, Remains
    <3> QED
      BY <3>1, <3>2, <1>3 DEF Advanced
  <2>2. pc'[d] = pc[d] /\ Direct(d)' = Direct(d)
    BY <1>1 DEF Still, Direct
  <2> QED
    BY <2>1, <2>2 DEF Advanced
<1> QED
  BY <1>1, <1>3, <1>4, <1>6, <1>7 DEF Achieved

\* at first, and when nothing happens.
LEMMA AchievedInit == ASSUME Init PROVE Achieved
<1>1. {d \in Call : at[d] > 0} = {}
  BY DEF Init
<1>2. Clock
  <2>1. Now = 0
    BY <1>1, FS_EmptySet DEF Now
  <2> QED
    BY <2>1 DEF Init, Clock
<1>3. Underway = {} /\ Alone
  BY DEF Init, Underway, Alone
<1>4. AllAccept => OnwardOnly
  BY NoneAssumption DEF Init, OnwardOnly, OnwardTables, OnwardRow, Known
<1> QED
  BY <1>2, <1>3, <1>4, OrderInit DEF Achieved, Advanced, Init

LEMMA AchievedStutter == ASSUME Achieved, UNCHANGED vars PROVE Achieved'
<1> USE DEF vars, tables, localVars, startVars, boundVars
<1>1. Order'
  BY OrderStep DEF Achieved
<1>2. Clock' /\ Alone' /\ AllAccept' = AllAccept
  BY DEF Achieved, Clock, Now, Alone, Underway, AllAccept, Direct, Value
<1>3. AllAccept => OnwardOnly'
  BY DEF Achieved, OnwardOnly, OnwardTables, OnwardRow, Here, Known, Live
<1>4. ASSUME NEW c \in Call PROVE Advanced(c)'
  <2>1. /\ Direct(c)' = Direct(c) /\ Sub(c)' = Sub(c) /\ Value(c)' = Value(c) /\ Why(c)' = Why(c)
        /\ Fits(c)' = Fits(c) /\ AtTarget(c)' = AtTarget(c) /\ Accepts(c)' = Accepts(c)
        /\ Told(c)' = Told(c) /\ Progress(c)' = Progress(c)
        /\ SoloNoted(c)' = SoloNoted(c) /\ SoloTaken(c)' = SoloTaken(c)
    BY DEF Direct, Sub, Value, Why, Fits, AtTarget, Accepts, Told, Progress, Fitted, Cast, Tasked,
           Noted, SoloNoted, SoloTaken, Here, Known, Live
  <2> QED
    BY <2>1, <1>2 DEF Achieved, Advanced
<1> QED
  BY <1>1, <1>2, <1>3, <1>4 DEF Achieved

LEMMA AchievedStep == ASSUME Achieved, [Next]_vars PROVE Achieved'
BY AchievedCommand, AchievedPortal, AchievedStutter DEF Next

-----------------------------------------------------------------------------
(* Acceptances add up *)

\* A request that answers ok has just looked at, or written, the audit trail.
LEMMA OkAnswers ==
  ASSUME Order, NEW c \in Call, Command(c), Answered(c)'
  PROVE  /\ c \in Underway /\ UNCHANGED startVars /\ ~Direct(c) /\ pc'[c] = "done"
         /\ \/ pc[c] = "ensure" /\ Audited(c) /\ UNCHANGED tables
            \/ InsertAudit(c)
<1> USE DEF Order, TypeOK
<1>1. pc[c] # "done" /\ answer[c] # "ok"
  BY CommandKinds, NoneAssumption DEF Begin, Underway, Place
<1>2. answer'[c] = "ok" /\ ~Direct(c)'
  BY DEF Answered
<1>3. ASSUME NEW a, Reply(c, a) PROVE answer'[c] = a /\ pc'[c] = "done"
  BY <1>3, Replied
<1>4. ASSUME UNCHANGED answer PROVE FALSE
  BY <1>1, <1>2, <1>4
<1>5. ASSUME NEW s \in Submission, NEW d \in Decision, NEW r \in Reason, NEW v \in Expected,
             Record(c, s, d, r, v)
      PROVE  FALSE
  BY <1>4, <1>5 DEF Record
<1>6. ASSUME NEW crew \in SUBSET Speaker, CreateDirect(c, crew) PROVE FALSE
  BY <1>4, <1>6 DEF CreateDirect
<1>7. ~ReadDecision(c)
  BY <1>2, <1>3, <1>4 DEF ReadDecision
<1>8. ~Claim(c) /\ ~WriteParticipation(c) /\ ~InsertLink(c) /\ ~WriteTask(c) /\ ~WriteDecision(c)
  BY <1>2, <1>3, <1>4 DEF Claim, WriteParticipation, InsertLink, WriteTask, WriteDecision, localVars
<1>9. ~FindSession(c) /\ ~ConfirmSession(c) /\ ~FindLink(c) /\ ~StartTasks(c) /\ ~Lookup(c)
      /\ ~ListLinked(c) /\ ~Unlink(c) /\ ~Cancel(c) /\ ~ListTasks(c)
  BY <1>4 DEF FindSession, ConfirmSession, FindLink, StartTasks, Lookup, ListLinked, Unlink, Cancel,
              ListTasks, localVars
<1>10. ~FindLeaving(c) /\ ~Withdraw(c) /\ ~EndFree(c) /\ ~Upsert(c)
  BY <1>4 DEF FindLeaving, Read, Withdraw, EndFree, Upsert, localVars
<1>11. ASSUME NEW p \in Speaker, FindParticipation(c, p) \/ ListSessions(c, p) PROVE FALSE
  BY <1>4, <1>11 DEF FindParticipation, ListSessions, Read
<1>12. ASSUME NEW t \in Task, FindTask(c, t) PROVE FALSE
  BY <1>4, <1>12 DEF FindTask, Read
<1>13. ASSUME NEW x \in Session, LookForLink(c, x) PROVE FALSE
  BY <1>4, <1>13 DEF LookForLink
<1>14. ASSUME NEW l \in listed[c], CancelTask(c, l) PROVE FALSE
  BY <1>4, <1>14 DEF CancelTask
<1>15. ~Die(c)
  BY <1>2, <1>3 DEF Die
<1>16. ~EndTasks(c)
  <2>1. ASSUME EndTasks(c) PROVE Direct(c)'
    BY <2>1, <1>4, SameAsked DEF EndTasks, localVars
  <2> QED
    BY <2>1, <1>2
<1>17. EnsureAudit(c) \/ InsertAudit(c)
  BY <1>5, <1>6, <1>7, <1>8, <1>9, <1>10, <1>11, <1>12, <1>13, <1>14, <1>15, <1>16 DEF Command
<1>18. UNCHANGED startVars /\ c \in Underway
  BY <1>17 DEF EnsureAudit, InsertAudit, Underway
<1>19. ~Direct(c)
  BY <1>2, <1>18, SameAsked
<1>20. CASE EnsureAudit(c)
  BY <1>3, <1>4, <1>18, <1>19, <1>20 DEF EnsureAudit, localVars
<1>21. CASE InsertAudit(c)
  BY <1>3, <1>18, <1>19, <1>21 DEF InsertAudit
<1> QED
  BY <1>17, <1>20, <1>21

\* What an acceptance finds done when it answers
LEMMA AcceptedNow ==
  ASSUME Achieved, NEW c \in Call, Command(c), Answered(c)', solo[c] \/ AllAccept, Accepts(c)
  PROVE  Accepted(c)'
<1>1. /\ c \in Underway /\ UNCHANGED startVars /\ ~Direct(c)
      /\ UNCHANGED <<submission, decision, session, links, part, task>>
      /\ pc[c] \in {"ensure", "audit"}
  BY OkAnswers DEF Achieved, InsertAudit, tables
<1>2. /\ Fitted(c) /\ Cast(c) /\ Tasked(c) /\ Noted(c) /\ Order
      /\ solo[c] => SoloNoted(c)
  BY <1>1 DEF Achieved, Advanced, Progress, Underway
<1>3. /\ Sub(c) \in Submission /\ Sub(c) \in Session
  BY <1>1, <1>2, Sees
<1>4. submission[Sub(c)].status = "accepted"
  BY <1>1, <1>2, StatusIs DEF Fitted, Fits, Accepts
<1>5. decision[Sub(c)] # None
  BY <1>1, <1>2 DEF Noted
<1>6. decision[Sub(c)].value = "accept"
  <2>1. CASE AllAccept
    BY <2>1, <1>3, <1>5 DEF Achieved, OnwardOnly, OnwardTables
  <2>2. CASE solo[c]
    BY <2>2, <1>1, <1>2 DEF SoloNoted, Told, Accepts
  <2> QED
    BY <2>1, <2>2
<1>7. session[Sub(c)] = "confirmed"
  BY <1>1, <1>2 DEF Cast
<1>8. \A p \in Author[Sub(c)] : p \in links[Sub(c)] /\ Here(p)
  BY <1>1, <1>2 DEF Cast
<1>9. links[Sub(c)] = Author[Sub(c)]
  BY <1>2, <1>3, <1>8 DEF Order, Rooted
<1>10. \A t \in Template \X Author[Sub(c)] : Live(t)
  BY <1>1, <1>2 DEF Tasked
<1>11. \A p \in Author[Sub(c)] : Stands(p)
  <2>1. ASSUME NEW p \in Author[Sub(c)], NEW t \in Template \X {p} PROVE Live(t)
    BY <1>10
  <2> QED
    BY <2>1, <1>8 DEF Stands, Here, Known
<1>12. Accepted(c)
  BY <1>4, <1>5, <1>6, <1>7, <1>9, <1>11 DEF Accepted
<1> QED
  BY <1>1, <1>2, <1>12, SameAsked DEF Accepted, Stands, Live

\* Among acceptances it stays that way.
LEMMA AcceptedOn ==
  ASSUME Order, Order', NEW d \in Call, Still(d), AllAccept, OnwardTables', Grows, Keeps,
         Answered(d), Accepted(d)
  PROVE  Answered(d)' /\ Accepted(d)'
<1>1. answer[d] # None
  BY NoneAssumption DEF Answered
<1>2. Sub(d) \in Submission /\ Sub(d) \in Session /\ Author[Sub(d)] \subseteq Speaker
  BY <1>1, Sees DEF Answered, Order, Place
<1>3. Answered(d)' /\ Sub(d)' = Sub(d)
  BY DEF Answered, Still, Direct, Sub
<1>4. submission'[Sub(d)].status = "accepted"
  BY <1>2 DEF Accepted, Grows
<1>5. decision'[Sub(d)] # None /\ decision'[Sub(d)].value = "accept"
  BY <1>2 DEF Accepted, Grows, OnwardTables
<1>6. session'[Sub(d)] = "confirmed"
  BY <1>2, NoneAssumption DEF Accepted, Keeps, OnwardTables, Order, TypeOK, TablesOK
<1>7. links'[Sub(d)] = Author[Sub(d)]
  BY <1>2 DEF Accepted, Grows, Order, Rooted
<1>8. ASSUME NEW p \in Author[Sub(d)] PROVE Stands(p)'
  <2>1. Stands(p) /\ p \in Speaker
    BY <1>2 DEF Accepted
  <2>2. Here(p)'
    BY <2>1 DEF Stands, Keeps, OnwardTables, Here, Known
  <2>3. \A t \in Template \X {p} : t \in Task /\ task[t] # None
    BY <2>1 DEF Stands, Live, Task
  <2>4. \A t \in Template \X {p} : Live(t)'
    BY <2>3 DEF Keeps, OnwardTables
  <2> QED
    BY <2>2, <2>4 DEF Stands, Here, Known
<1> QED
  BY <1>3, <1>4, <1>5, <1>6, <1>7, <1>8 DEF Accepted

\* AcceptancesAddUp in these words
LEMMA AddUp == AcceptancesAddUp <=> (AllAccept => \A c \in Call : Answered(c) => Accepted(c))
BY DEF AcceptancesAddUp, AllAccept

\* The portal adds, too.
LEMMA PortalGrows ==
  ASSUME Order, \/ \E t \in Task : CompleteTask(t)
                \/ \E p \in Speaker : UpdateProfile(p)
  PROVE  Grows /\ AllAccept' = AllAccept /\ latest' = latest /\ Underway' = Underway
<1>1. UNCHANGED <<submission, decision, links, request, latest, pc>>
  BY DEF CompleteTask, UpdateProfile, Interfere
<1> QED
  BY <1>1 DEF Grows, AllAccept, Direct, Value, Underway

\* An acceptance in effect stays in effect, and one that answers now is.
LEMMA AddUpStep ==
  ASSUME Achieved, AcceptancesAddUp, [Next]_vars PROVE AcceptancesAddUp'
<1>1. Achieved' /\ Order /\ Order'
  BY AchievedStep DEF Achieved
<1>2. ASSUME AllAccept' PROVE AllAccept /\ Grows /\ Keeps
  <2>1. ASSUME NEW c \in Call, Command(c) PROVE AllAccept /\ Grows /\ Keeps
    BY <1>1, <1>2, <2>1, AskedBefore, CommandForward, CommandSound
    DEF Forward, Sound, Achieved, Ready
  <2>2. CASE UNCHANGED vars
    BY <1>2, <2>2 DEF vars, tables, startVars, AllAccept, Direct, Value, Grows, Keeps, Known
  <2> QED
    BY <1>1, <1>2, <2>1, <2>2, PortalSound, PortalGrows DEF Next
<1>3. ASSUME AllAccept', NEW d \in Call, Answered(d)' PROVE Accepted(d)'
  <2>1. OnwardTables' /\ AllAccept /\ Grows /\ Keeps
    BY <1>1, <1>2, <1>3 DEF Achieved, OnwardOnly
  <2>2. CASE Still(d)
    <3>1. Answered(d)
      BY <1>3, <2>2 DEF Answered, Still, Direct
    <3>2. Accepted(d)
      BY <3>1, <2>1, AddUp
    <3> QED
      BY <3>1, <3>2, <2>1, <2>2, <1>1, AcceptedOn
  <2>3. ASSUME NEW c \in Call, Command(c) PROVE Accepted(d)'
    <3>1. CASE c = d
      <4>1. c \in Underway /\ ~Direct(c)
        BY <3>1, <2>3, <1>1, <1>3, OkAnswers
      <4>2. Accepts(c)
        BY <4>1, <2>1, <1>1 DEF AllAccept, Accepts, Order, Place, Underway
      <4> QED
        BY <3>1, <4>2, <2>1, <2>3, <1>3, AcceptedNow
    <3>2. CASE c # d
      BY <3>2, <2>2, <2>3, <1>1, CommandSound DEF Sound
    <3> QED
      BY <3>1, <3>2
  <2>4. CASE UNCHANGED vars
    BY <2>2, <2>4 DEF vars, localVars, startVars, Still
  <2> QED
    BY <1>1, <2>2, <2>3, <2>4, PortalSound DEF Next
<1>4. AllAccept' => \A d \in Call : Answered(d)' => Accepted(d)'
  BY <1>3
<1>5. AcceptancesAddUp' <=> (AllAccept' => \A d \in Call : Answered(d)' => Accepted(d)')
  BY DEF AcceptancesAddUp, AllAccept
<1> QED
  BY <1>4, <1>5

(* As long as every decision is an acceptance, every one that answered ok *)
(* is in effect (commands.ts materializeAccept), however many ran at the   *)
(* same time on the same submissions, speakers and tasks, whichever of     *)
(* them died, and whatever the speakers did in the portal.                 *)
THEOREM AddsUp == Spec => []AcceptancesAddUp
<1>1. Init => Achieved /\ AcceptancesAddUp
  BY AchievedInit, NoneAssumption DEF Init, AcceptancesAddUp, Answered
<1>2. Achieved /\ AcceptancesAddUp /\ [Next]_vars => Achieved' /\ AcceptancesAddUp'
  BY AchievedStep, AddUpStep
<1> QED
  BY <1>1, <1>2, PTL DEF Spec

-----------------------------------------------------------------------------
(* The newest request on a submission *)

\* The newest request on a submission is one on it, and was not alone if another on it
\* is still under way.
Newest(s) == latest[s] # None =>
               request[latest[s]] # None /\ ~Direct(latest[s]) /\ Sub(latest[s]) = s
Follows(d) == \/ Direct(d)
              \/ latest[Sub(d)] = d
              \/ latest[Sub(d)] \in Call /\ ~solo[latest[Sub(d)]]
Succession == /\ \A s \in Submission : Newest(s)
              /\ \A d \in Underway : Follows(d)

\* A request begins.
Opens(c) ==
  /\ pc[c] = "start" /\ request[c] = None /\ request'[c] # None
  /\ pc'[c] \in {"decision", "speakers"}
  /\ \A d \in Call : solo'[d] = IF d = c THEN Underway = {} ELSE solo[d] /\ d \notin Underway
  /\ \/ Direct(c)' /\ UNCHANGED latest
     \/ ~Direct(c)' /\ Sub(c)' \in Submission /\ latest' = [latest EXCEPT ![Sub(c)'] = c]
  /\ UNCHANGED <<submission, decision, links, part, task, audit>>
  /\ \A s \in Submission : session'[s] = session[s]

\* A step begins a request or belongs to one under way.
LEMMA OpensOrGoesOn ==
  ASSUME Order, NEW c \in Call, Command(c)
  PROVE  Opens(c) \/ (c \in Underway /\ UNCHANGED startVars)
<1> USE DEF Order, TypeOK
<1>1. CallsOK /\ HistoryOK /\ TablesOK
  OBVIOUS
<1>2. ASSUME NEW r, Begin(c, r), r # None
      PROVE  /\ pc[c] = "start" /\ request[c] = None /\ request'[c] = r
             /\ \A d \in Call : solo'[d] = IF d = c THEN Underway = {}
                                                   ELSE solo[d] /\ d \notin Underway
  <2>1. pc[c] = "start" /\ request' = [request EXCEPT ![c] = r]
        /\ solo' = [d \in Call |-> IF d = c THEN Underway = {} ELSE solo[d] /\ d \notin Underway]
    BY <1>2 DEF Begin
  <2> QED
    BY <2>1, <1>1 DEF Place, HistoryOK
<1>3. ASSUME NEW s \in Submission, NEW d \in Decision, NEW r \in Reason, NEW v \in Expected,
             Record(c, s, d, r, v)
      PROVE  Opens(c)
  <2> DEFINE ask == [submission |-> s, decision |-> d, reason |-> r, expected |-> v]
  <2>1. ask \in Asked /\ ask # None /\ s # None /\ ask.submission = s
    BY NoneAssumption DEF Asked
  <2>2. Begin(c, ask) /\ UNCHANGED tables /\ latest' = [latest EXCEPT ![s] = c]
        /\ Goto(c, "decision")
    BY <1>3 DEF Record
  <2> HIDE DEF ask
  <2>3. pc'[c] = "decision"
    BY <2>2, <1>1 DEF Goto, CallsOK
  <2>4. /\ pc[c] = "start" /\ request[c] = None /\ request'[c] = ask
        /\ \A e \in Call : solo'[e] = IF e = c THEN Underway = {}
                                              ELSE solo[e] /\ e \notin Underway
    BY <2>1, <2>2, <1>2
  <2>5. ~Direct(c)' /\ Sub(c)' = s
    BY <2>1, <2>4 DEF Direct, Sub
  <2> QED
    BY <2>1, <2>2, <2>3, <2>4, <2>5 DEF Opens, tables
<1>4. ASSUME NEW crew \in SUBSET Speaker, CreateDirect(c, crew) PROVE Opens(c)
  <2> DEFINE ask == [submission |-> None, speakers |-> crew]
  <2>1. ask \in Added /\ ask # None /\ ask.submission = None
    BY NoneAssumption DEF Added
  <2>2. /\ Begin(c, ask) /\ UNCHANGED <<submission, decision, links, part, task, audit, latest>>
        /\ session' = [session EXCEPT ![c] = "confirmed"]
    BY <1>4 DEF CreateDirect
  <2> HIDE DEF ask
  <2>3. pc'[c] = "speakers"
    BY <1>4, <1>1, Looped DEF CreateDirect
  <2>4. /\ pc[c] = "start" /\ request[c] = None /\ request'[c] = ask
        /\ \A e \in Call : solo'[e] = IF e = c THEN Underway = {}
                                              ELSE solo[e] /\ e \notin Underway
    BY <2>1, <2>2, <1>2
  <2>5. Direct(c)'
    BY <2>1, <2>4 DEF Direct
  <2>6. \A s \in Submission : session'[s] = session[s]
    BY <2>2, <1>1, CallAssumption DEF TablesOK, Session
  <2> QED
    BY <2>1, <2>2, <2>3, <2>4, <2>5, <2>6 DEF Opens
<1>5. (\E r : Begin(c, r)) \/ (c \in Underway /\ UNCHANGED startVars)
  BY CommandKinds
<1>6. ASSUME NEW r, Begin(c, r) PROVE Opens(c)
  <2>1. pc[c] = "start"
    BY <1>6 DEF Begin
  <2>2. ASSUME NEW p \in Speaker, FindParticipation(c, p) \/ ListSessions(c, p) PROVE FALSE
    BY <2>1, <2>2 DEF FindParticipation, ListSessions
  <2>3. ASSUME NEW t \in Task, FindTask(c, t) PROVE FALSE
    BY <2>1, <2>3 DEF FindTask
  <2>4. ASSUME NEW x \in Session, LookForLink(c, x) PROVE FALSE
    BY <2>1, <2>4 DEF LookForLink
  <2>5. ASSUME NEW l \in listed[c], CancelTask(c, l) PROVE FALSE
    BY <2>1, <2>5 DEF CancelTask
  <2>6. ASSUME ReadDecision(c) \/ Claim(c) \/ FindSession(c) \/ ConfirmSession(c)
               \/ WriteParticipation(c) \/ FindLink(c) \/ InsertLink(c)
               \/ StartTasks(c) \/ WriteTask(c) \/ EndTasks(c)
        PROVE  FALSE
    BY <2>1, <2>6 DEF ReadDecision, Claim, FindSession, ConfirmSession, WriteParticipation, FindLink,
                      InsertLink, StartTasks, WriteTask, EndTasks
  <2>7. ASSUME Lookup(c) \/ ListLinked(c) \/ Unlink(c) \/ Cancel(c) \/ ListTasks(c)
               \/ FindLeaving(c) \/ Withdraw(c) \/ EndFree(c) \/ Upsert(c) \/ WriteDecision(c)
               \/ EnsureAudit(c) \/ InsertAudit(c) \/ Die(c)
        PROVE  FALSE
    BY <2>1, <2>7 DEF Lookup, ListLinked, Unlink, Cancel, ListTasks, FindLeaving, Withdraw, EndFree,
                      Upsert, WriteDecision, EnsureAudit, InsertAudit, Die, Underway
  <2> QED
    BY <1>3, <1>4, <2>2, <2>3, <2>4, <2>5, <2>6, <2>7 DEF Command
<1> QED
  BY <1>5, <1>6

\* Succession is an invariant.
LEMMA SuccessionInit == ASSUME Init PROVE Succession
BY DEF Init, Succession, Newest, Underway

LEMMA SuccessionStep ==
  ASSUME Order, Succession, NEW c \in Call, Command(c) PROVE Succession'
<1>1. \A d \in Call \ {c} : request'[d] = request[d] /\ pc'[d] = pc[d]
  BY CommandSound DEF Sound, Still
<1>2. latest \in [Submission -> Call \union {None}]
  BY DEF Order, TypeOK, HistoryOK
<1>3. CASE c \in Underway /\ UNCHANGED startVars
  <2>1. \A d \in Call : d \in Underway' => d \in Underway
    BY <1>1, <1>3 DEF Underway
  <2>2. \A s \in Submission : Newest(s)'
    BY <1>3 DEF Succession, Newest, startVars, Direct, Sub
  <2>3. ASSUME NEW d \in Underway' PROVE Follows(d)'
    <3>1. Follows(d)
      BY <2>1 DEF Succession, Underway
    <3> QED
      BY <3>1, <1>3 DEF Follows, startVars, Direct, Sub
  <2> QED
    BY <2>2, <2>3 DEF Succession
<1>4. CASE Opens(c)
  <2>1. ASSUME NEW s \in Submission PROVE Newest(s)'
    <3> PICK e : e = latest'[s]
      OBVIOUS
    <3>1. \/ e = latest[s]
          \/ e = c /\ ~Direct(c)' /\ Sub(c)' = s
      BY <1>2, <1>4 DEF Opens
    <3>2. CASE e = latest[s] /\ e # None
      <4>1. e \in Call \ {c} /\ request[e] # None /\ ~Direct(e) /\ Sub(e) = s
        BY <3>2, <1>2, <1>4 DEF Succession, Newest, Opens
      <4> QED
        BY <4>1, <1>1 DEF Newest, Direct, Sub
    <3>3. CASE e = c /\ ~Direct(c)' /\ Sub(c)' = s
      BY <3>3, <1>4 DEF Opens, Newest, Direct, Sub
    <3> QED
      BY <3>1, <3>2, <3>3 DEF Newest
  <2>2. ASSUME NEW d \in Call \ {c}, d \in Underway' PROVE Follows(d)'
    <3>1. d \in Underway /\ Direct(d)' = Direct(d) /\ Sub(d)' = Sub(d)
      BY <2>2, <1>1 DEF Underway, Direct, Sub
    <3>2. Follows(d)
      BY <3>1 DEF Succession
    <3>3. CASE ~Direct(d)
      <4>1. Sub(d) \in Submission
        BY <3>1, <3>3, Sees DEF Underway
      <4>2. latest'[Sub(d)] = latest[Sub(d)] \/ latest'[Sub(d)] = c
        BY <4>1, <1>2, <1>4 DEF Opens
      <4>3. \A e \in Call : ~solo[e] \/ e = c => ~solo'[e]
        BY <3>1, <1>4 DEF Opens
      <4> QED
        BY <4>2, <4>3, <3>1, <3>2 DEF Follows
    <3> QED
      BY <3>1, <3>3 DEF Follows
  <2>3. Follows(c)'
    BY <1>2, <1>4 DEF Opens, Follows
  <2> QED
    BY <2>1, <2>2, <2>3 DEF Succession, Underway
<1> QED
  BY <1>3, <1>4, OpensOrGoesOn

LEMMA SuccessionPortal ==
  ASSUME Order, Succession, \/ \E t \in Task : CompleteTask(t)
                            \/ \E p \in Speaker : UpdateProfile(p)
  PROVE  Succession'
<1>1. UNCHANGED <<request, latest, pc>> /\ solo' = [c \in Call |-> solo[c] /\ c \notin Underway]
  BY DEF CompleteTask, UpdateProfile, Interfere
<1>2. (\A s \in Submission : Newest(s)') /\ Underway' = Underway
  BY <1>1 DEF Succession, Newest, Direct, Sub, Underway
<1>3. ASSUME NEW d \in Underway PROVE Follows(d)'
  <2>1. Follows(d)
    BY DEF Succession
  <2> QED
    BY <2>1, <1>1 DEF Follows, Direct, Sub
<1> QED
  BY <1>2, <1>3 DEF Succession

-----------------------------------------------------------------------------
(* What a settled decision has applied *)

\* the newest request on s had the system to itself and has answered ok
Settled(s) == latest[s] # None /\ Answered(latest[s]) /\ solo[latest[s]]

\* what AnsweredMeansApplied says of it
Applied(s) ==
  LET c == latest[s] IN
  /\ submission[s].status = StatusOf[Value(c)]
  /\ decision[s] = Told(c)
  /\ audit[s] # None /\ audit[s].value = Value(c) /\ audit[s].reason = Why(c)
  /\ IF Accepts(c) THEN Accepted(c) ELSE session[s] # "confirmed" /\ links[s] = {}

\* Request d, which takes away, does not reach a speaker of s.
Spares(d, s) ==
  /\ pc[d] = "onstage" /\ who[d] \in Author[s] => s \in listed[d]
  /\ pc[d] \in {"cancelling", "withdraw"} => who[d] \notin Author[s]

Safe(s) == Settled(s) => /\ Applied(s)
                         /\ Accepts(latest[s]) => \A d \in Underway : Spares(d, s)

\* A request writes no submission but its own.
Beside(c, s) == pc[c] = "start" \/ Direct(c) \/ Sub(c) # s

\* and the step leaves everything about s as it was.
AsWas(s) == /\ submission'[s] = submission[s] /\ decision'[s] = decision[s]
            /\ session'[s] = session[s] /\ links'[s] = links[s] /\ audit'[s] = audit[s]

LEMMA Elsewhere ==
  ASSUME Order, NEW c \in Call, Command(c), NEW s \in Submission, Beside(c, s)
  PROVE  AsWas(s)
<1>1. TablesOK /\ Place(c) /\ s \in Session
  BY DEF Order, TypeOK, Session
<1>2. CASE Opens(c)
  BY <1>2 DEF Opens, AsWas
<1>3. CASE c \in Underway
  <2>1. Direct(c) \/ Sub(c) # s
    BY <1>3 DEF Underway, Beside
  <2>2. SessionOf(c) # s
    BY <2>1, CallAssumption DEF SessionOf
  <2>3. CASE UNCHANGED tables
    BY <2>3 DEF tables, AsWas
  <2>4. pc[c] \notin {"start", "done"}
    BY <1>3 DEF Underway
  <2>5. Direct(c) => pc[c] \in {"speakers", "participation", "link", "tasks", "task"}
    BY <2>4, <1>1 DEF Place
  <2>6. ASSUME NEW z \in Submission, NEW d \in Decision, NEW r \in Reason, NEW v \in Expected,
               Record(c, z, d, r, v)
        PROVE  AsWas(s)
    BY <2>3, <2>6 DEF Record
  <2>7. ASSUME NEW crew \in SUBSET Speaker, CreateDirect(c, crew) PROVE AsWas(s)
    BY <2>4, <2>7 DEF CreateDirect, Begin
  <2>8. CASE Claim(c)
    BY <2>1, <2>5, <2>8, <1>1 DEF Claim, AsWas, TablesOK
  <2>9. CASE ConfirmSession(c) \/ Cancel(c) \/ Unlink(c)
    BY <2>1, <2>5, <2>9, <1>1 DEF ConfirmSession, Cancel, Unlink, AsWas, TablesOK
  <2>10. CASE InsertLink(c)
    BY <2>2, <2>10, <1>1 DEF InsertLink, AsWas, TablesOK
  <2>11. CASE WriteDecision(c) \/ InsertAudit(c)
    BY <2>1, <2>5, <2>11, <1>1 DEF WriteDecision, InsertAudit, AsWas, TablesOK
  <2>12. CASE WriteParticipation(c) \/ WriteTask(c) \/ Withdraw(c)
    BY <2>12 DEF WriteParticipation, WriteTask, Withdraw, AsWas
  <2>13. ASSUME NEW l \in listed[c], CancelTask(c, l) PROVE AsWas(s)
    BY <2>13 DEF CancelTask, AsWas
  <2>14. CASE ReadDecision(c) \/ FindSession(c) \/ FindLink(c) \/ StartTasks(c) \/ EndTasks(c)
              \/ Lookup(c) \/ ListLinked(c) \/ ListTasks(c) \/ FindLeaving(c) \/ EndFree(c)
              \/ Upsert(c) \/ EnsureAudit(c) \/ Die(c)
    BY <2>3, <2>14 DEF ReadDecision, FindSession, FindLink, StartTasks, EndTasks, Lookup, ListLinked,
                       ListTasks, FindLeaving, Read, EndFree, Upsert, EnsureAudit, Die
  <2>15. ASSUME NEW p \in Speaker, FindParticipation(c, p) \/ ListSessions(c, p) PROVE AsWas(s)
    BY <2>3, <2>15 DEF FindParticipation, ListSessions, Read
  <2>16. ASSUME NEW t \in Task, FindTask(c, t) PROVE AsWas(s)
    BY <2>3, <2>16 DEF FindTask, Read
  <2>17. ASSUME NEW x \in Session, LookForLink(c, x) PROVE AsWas(s)
    BY <2>3, <2>17 DEF LookForLink
  <2> QED
    BY <2>6, <2>7, <2>8, <2>9, <2>10, <2>11, <2>12, <2>13, <2>14, <2>15, <2>16, <2>17 DEF Command
<1> QED
  BY <1>2, <1>3, OpensOrGoesOn

\* Only a request that withdraws p, or cancels a task of p, takes them away.
Holds(c) ==
  /\ \A p \in Speaker : Here(p) => Here(p)' \/ (pc[c] = "withdraw" /\ who[c] = p)
  /\ \A t \in Task : Live(t) => Live(t)' \/ (pc[c] = "cancelling" /\ t[2] = who[c])

LEMMA QuietHolds == ASSUME NEW c \in Call, UNCHANGED <<part, task>> PROVE Holds(c)
BY DEF Holds, Here, Known, Live

\* and that is all that is taken away.
LEMMA Kept ==
  ASSUME Order, NEW c \in Call, Command(c) PROVE Holds(c)
<1>1. TablesOK /\ Fit(c) /\ Place(c) /\ Aim(c) /\ Reads(c)
  BY AllFit DEF Order, TypeOK
<1>2. CASE UNCHANGED tables
  BY <1>2, QuietHolds DEF tables
<1>3. CASE Opens(c)
  BY <1>3, QuietHolds DEF Opens
<1>4. CASE WriteParticipation(c)
  <2> PICK p : p = who[c]
    OBVIOUS
  <2>1. /\ task' = task
        /\ \/ part' = part
           \/ row[c] = None /\ part[p] = None /\ part' = [part EXCEPT ![p] = Fresh("accepted")]
           \/ row[c] # None /\ part' = Patch(part, p, row[c], "accepted")
    BY <1>4 DEF WriteParticipation
  <2>2. Fresh("accepted").status = "accepted" /\ Fresh("accepted") \in PartRow
    BY DEF Fresh, PartRow
  <2>3. CASE row[c] = None /\ part' = [part EXCEPT ![p] = Fresh("accepted")]
    BY <2>1, <2>2, <2>3, <1>1, NoneIsNoRow DEF Holds, Here, Known, Live, TablesOK
  <2>4. CASE row[c] # None /\ part' = Patch(part, p, row[c], "accepted")
    <3>1. row[c] \in PartRow
      BY <2>4, <1>1, <1>4 DEF Reads, WriteParticipation
    <3> DEFINE new == [status |-> "accepted", version |-> row[c].version + 1]
    <3>2. new \in PartRow /\ new.status = "accepted"
      BY <3>1 DEF PartRow
    <3>3. part' = part \/ part' = [part EXCEPT ![p] = new]
      BY <2>4 DEF Patch
    <3> HIDE DEF new
    <3>4. task' = task
      BY <2>1
    <3> QED
      BY <3>2, <3>3, <3>4, <1>1, NoneIsNoRow, QuietHolds DEF Holds, Here, Known, Live, TablesOK
  <2> QED
    BY <2>1, <2>3, <2>4, QuietHolds
<1>5. CASE WriteTask(c)
  <2> PICK t : t = who[c]
    OBVIOUS
  <2>1. /\ part' = part
        /\ \/ task' = task
           \/ row[c] = None /\ task[t] = None /\ task' = [task EXCEPT ![t] = Fresh("pending")]
           \/ row[c] # None /\ task' = Patch(task, t, row[c], "pending")
    BY <1>5 DEF WriteTask
  <2>2. Fresh("pending").status = "pending" /\ Fresh("pending") \in TaskRow
    BY DEF Fresh, TaskRow
  <2>3. CASE row[c] = None /\ task' = [task EXCEPT ![t] = Fresh("pending")]
    BY <2>1, <2>2, <2>3, <1>1, NoneIsNoRow DEF Holds, Here, Known, Live, TablesOK
  <2>4. CASE row[c] # None /\ task' = Patch(task, t, row[c], "pending")
    <3>1. row[c] \in TaskRow
      BY <2>4, <1>1, <1>5 DEF Reads, WriteTask
    <3> DEFINE new == [status |-> "pending", version |-> row[c].version + 1]
    <3>2. new \in TaskRow /\ new.status = "pending"
      BY <3>1 DEF TaskRow
    <3>3. task' = task \/ task' = [task EXCEPT ![t] = new]
      BY <2>4 DEF Patch
    <3> HIDE DEF new
    <3>4. part' = part
      BY <2>1
    <3> QED
      BY <3>2, <3>3, <3>4, <1>1, NoneIsNoRow, QuietHolds DEF Holds, Here, Known, Live, TablesOK
  <2> QED
    BY <2>1, <2>3, <2>4, QuietHolds
<1>6. CASE Withdraw(c)
  <2> PICK p : p = who[c]
    OBVIOUS
  <2>1. pc[c] = "withdraw" /\ task' = task /\ \A q \in Speaker : q # p => part'[q] = part[q]
    BY <1>1, <1>6 DEF Withdraw, Patch, TablesOK
  <2> QED
    BY <2>1 DEF Holds, Here, Known, Live
<1>7. ASSUME NEW l \in listed[c], CancelTask(c, l) PROVE Holds(c)
  <2>1. pc[c] = "cancelling" /\ part' = part
    BY <1>7 DEF CancelTask
  <2>2. l.task[2] = who[c]
    BY <2>1, <1>1 DEF Reads
  <2>3. \A q \in Task : q # l.task => task'[q] = task[q]
    BY <1>1, <1>7 DEF CancelTask, Patch, TablesOK
  <2> QED
    BY <2>1, <2>2, <2>3 DEF Holds, Here, Known, Live
<1>8. CASE Claim(c) \/ ConfirmSession(c) \/ Cancel(c) \/ Unlink(c) \/ InsertLink(c)
           \/ WriteDecision(c) \/ InsertAudit(c)
  BY <1>8, QuietHolds DEF Claim, ConfirmSession, Cancel, Unlink, InsertLink, WriteDecision, InsertAudit
<1>9. CASE ReadDecision(c) \/ FindSession(c) \/ FindLink(c) \/ StartTasks(c) \/ EndTasks(c)
            \/ Lookup(c) \/ ListLinked(c) \/ ListTasks(c) \/ FindLeaving(c) \/ EndFree(c)
            \/ Upsert(c) \/ EnsureAudit(c) \/ Die(c)
  BY <1>2, <1>9 DEF ReadDecision, FindSession, FindLink, StartTasks, EndTasks, Lookup, ListLinked,
                    ListTasks, FindLeaving, Read, EndFree, Upsert, EnsureAudit, Die
<1>10. ASSUME NEW p \in Speaker, FindParticipation(c, p) \/ ListSessions(c, p) PROVE Holds(c)
  BY <1>2, <1>10 DEF FindParticipation, ListSessions, Read
<1>11. ASSUME NEW t \in Task, FindTask(c, t) PROVE Holds(c)
  BY <1>2, <1>11 DEF FindTask, Read
<1>12. ASSUME NEW x \in Session, LookForLink(c, x) PROVE Holds(c)
  BY <1>2, <1>12 DEF LookForLink
<1>13. ASSUME NEW z \in Submission, NEW d \in Decision, NEW r \in Reason, NEW v \in Expected,
               Record(c, z, d, r, v)
       PROVE  Holds(c)
  BY <1>2, <1>13 DEF Record
<1>14. ASSUME NEW crew \in SUBSET Speaker, CreateDirect(c, crew) PROVE Holds(c)
  BY <1>14, QuietHolds DEF CreateDirect
<1> QED
  BY <1>4, <1>5, <1>6, <1>7, <1>8, <1>9, <1>10, <1>11, <1>12, <1>13, <1>14 DEF Command

\* Request c comes to take a speaker's participation away only after it has looked at s.
LEMMA SparesOn ==
  ASSUME Order, NEW c \in Call, Command(c), NEW s \in Submission, Beside(c, s),
         session[s] = "confirmed", links[s] = Author[s], c \in Underway => Spares(c, s)
  PROVE  Spares(c, s)'
<1>1. CallsOK /\ Place(c) /\ Fit(c)
  BY AllFit DEF Order, TypeOK
<1>2. ASSUME pc'[c] \notin {"onstage", "cancelling", "withdraw"} PROVE Spares(c, s)'
  BY <1>2 DEF Spares
<1>3. CASE Opens(c)
  BY <1>2, <1>3 DEF Opens
<1>4. \/ pc[c] \in Leaving /\ pc[c] # "start" /\ c \in Underway /\ Spares(c, s) /\ Sub(c) # s
      \/ pc[c] \notin Leaving
  BY <1>1 DEF Underway, Beside, Place
<1>5. ASSUME NEW p \in Speaker, ListSessions(c, p) PROVE Spares(c, s)'
  <2>1. s \in OtherSessions(c)
    BY <1>4, <1>5 DEF OtherSessions, ListSessions, Session
  <2>2. pc'[c] = "onstage" /\ listed'[c] = OtherSessions(c)
    BY <1>1, <1>5 DEF ListSessions, Goto, CallsOK
  <2> QED
    BY <2>1, <2>2 DEF Spares
<1>6. ASSUME NEW x \in Session, LookForLink(c, x) PROVE Spares(c, s)'
  <2>1. pc[c] = "onstage" /\ Spares(c, s) /\ who' = who
    BY <1>4, <1>6 DEF LookForLink
  <2>2. CASE who[c] \in links[x]
    <3>1. pc'[c] = "free"
      BY <2>2, <1>1, <1>6 DEF LookForLink, Loop, Goto, CallsOK
    <3> QED
      BY <3>1, <1>2
  <2>3. CASE who[c] \notin links[x]
    <3>1. pc' = pc /\ listed'[c] = listed[c] \ {x}
      BY <2>3, <1>1, <1>6 DEF LookForLink, CallsOK
    <3> QED
      BY <2>1, <2>3, <3>1 DEF Spares
  <2> QED
    BY <2>2, <2>3
<1>7. CASE ListTasks(c)
  <2>1. pc[c] = "onstage" /\ listed[c] = {} /\ Spares(c, s) /\ who' = who
    BY <1>4, <1>7 DEF ListTasks
  <2>2. pc'[c] = "cancelling"
    BY <1>1, <1>7 DEF ListTasks, Goto, CallsOK
  <2> QED
    BY <2>1, <2>2 DEF Spares
<1>8. ASSUME NEW l \in listed[c], CancelTask(c, l) PROVE Spares(c, s)'
  BY <1>4, <1>8 DEF CancelTask, Spares
<1>9. CASE FindLeaving(c)
  <2>1. pc[c] = "cancelling" /\ Spares(c, s) /\ pc'[c] = "withdraw" /\ who'[c] = who[c]
    BY <1>1, <1>4, <1>9, RowRead DEF FindLeaving
  <2> QED
    BY <2>1 DEF Spares
<1>10. ASSUME NEW l, Goto(c, l), l \notin {"onstage", "cancelling", "withdraw"}
       PROVE  Spares(c, s)'
  BY <1>2, <1>10, <1>1 DEF Goto, CallsOK
<1>11. ASSUME NEW a, Reply(c, a) PROVE Spares(c, s)'
  BY <1>10, <1>11 DEF Reply
<1>12. Work(c, decision[Sub(c)]) \in {"session", "lookup"} /\ Work(c, old[c]) \in {"session", "lookup"}
       /\ Finish(c) \in {"ensure", "upsert"}
  BY DEF Work, Finish
<1>13. CASE Withdraw(c)
  BY <1>10, <1>13 DEF Withdraw, Loop
<1>14. CASE ReadDecision(c) \/ Claim(c)
  BY <1>10, <1>11, <1>12, <1>14 DEF ReadDecision, Claim
<1>15. CASE ConfirmSession(c) \/ WriteParticipation(c) \/ FindLink(c) \/ InsertLink(c)
  BY <1>10, <1>11, <1>15 DEF ConfirmSession, WriteParticipation, FindLink, InsertLink, Loop
<1>23. CASE FindSession(c)
  <2>1. pc[c] = "session" /\ ~Direct(c)
    BY <1>1, <1>23 DEF FindSession, Place
  <2>2. session[Sub(c)] \in {None, "confirmed", "cancelled"}
    BY <2>1, Sees DEF Order, TypeOK, TablesOK
  <2> QED
    BY <2>2, <1>10, <1>23, NoneAssumption DEF FindSession, Loop
<1>16. CASE StartTasks(c) \/ WriteTask(c) \/ EndTasks(c)
  BY <1>10, <1>11, <1>12, <1>16 DEF StartTasks, WriteTask, EndTasks, Loop
<1>17. CASE Lookup(c) \/ ListLinked(c) \/ Unlink(c) \/ Cancel(c) \/ EndFree(c)
  BY <1>10, <1>12, <1>17 DEF Lookup, ListLinked, Unlink, Cancel, EndFree, Loop
<1>18. CASE Upsert(c) \/ WriteDecision(c) \/ EnsureAudit(c) \/ InsertAudit(c) \/ Die(c)
  BY <1>10, <1>11, <1>18 DEF Upsert, WriteDecision, EnsureAudit, InsertAudit, Die
<1>19. ASSUME NEW p \in Speaker, FindParticipation(c, p) PROVE Spares(c, s)'
  BY <1>10, <1>19 DEF FindParticipation, Read
<1>20. ASSUME NEW t \in Task, FindTask(c, t) PROVE Spares(c, s)'
  BY <1>10, <1>20 DEF FindTask, Read
<1>21. ASSUME NEW z \in Submission, NEW d \in Decision, NEW r \in Reason, NEW v \in Expected,
              Record(c, z, d, r, v)
       PROVE  Spares(c, s)'
  BY <1>10, <1>21 DEF Record
<1>22. ASSUME NEW crew \in SUBSET Speaker, CreateDirect(c, crew) PROVE Spares(c, s)'
  BY <1>10, <1>22 DEF CreateDirect, Loop
<1> QED
  BY <1>5, <1>6, <1>7, <1>8, <1>9, <1>13, <1>14, <1>15, <1>16, <1>17, <1>18, <1>19, <1>20, <1>21,
     <1>22, <1>23
  DEF Command

-----------------------------------------------------------------------------
(* An answer means that all is applied *)

\* The inductive invariant behind AnsweredMeansApplied
AllSettled == Achieved /\ Succession /\ \A s \in Submission : Safe(s)

\* The request that answers is the newest on s.
LEMMA SettledNow ==
  ASSUME AllSettled, NEW c \in Call, Command(c), NEW s \in Submission,
         latest'[s] = c, c # None, Answered(c)', solo'[c]
  PROVE  Applied(s)' /\ Underway' = {}
<1> USE DEF Order, TypeOK
<1>1. /\ c \in Underway /\ UNCHANGED startVars /\ ~Direct(c) /\ pc'[c] = "done"
      /\ Order /\ Achieved
      /\ \/ pc[c] = "ensure" /\ Audited(c) /\ UNCHANGED tables
         \/ InsertAudit(c)
  BY OkAnswers DEF AllSettled, Achieved
<1>2. solo[c] /\ latest[s] = c /\ pc[c] \in {"ensure", "audit"}
  BY <1>1 DEF startVars, InsertAudit
<1>3. Sub(c) = s
  <2>1. Newest(s)
    BY <1>1 DEF AllSettled, Succession
  <2> QED
    BY <2>1, <1>2 DEF Newest
<1>4. Progress(c) /\ SoloNoted(c) /\ SoloTaken(c)
  BY <1>1, <1>2 DEF Achieved, Advanced
<1>5. Underway' = {}
  <2>1. Underway = {c}
    BY <1>1, <1>2 DEF Achieved, Alone
  <2>2. \A d \in Call \ {c} : pc'[d] = pc[d]
    BY <1>1, CommandSound DEF Sound, Still
  <2> QED
    BY <2>1, <2>2, <1>1 DEF Underway
<1>6. Value(c) \in Decision /\ Why(c) \in Reason
  BY <1>1, <1>2, Sees
<1>7. audit'[s] # None /\ audit'[s].value = Value(c) /\ audit'[s].reason = Why(c)
  <2>1. CASE Audited(c) /\ UNCHANGED tables
    BY <2>1, <1>3 DEF Audited, tables
  <2>2. CASE InsertAudit(c)
    <3> DEFINE new == [value |-> Value(c), reason |-> Why(c), at |-> at[c]]
    <3>1. at[c] \in Nat
      BY <1>1 DEF HistoryOK
    <3>2. new \in Entry /\ new # None
      BY <3>1, <1>6, NoneAssumption DEF Entry
    <3>3. new.value = Value(c) /\ new.reason = Why(c)
      OBVIOUS
    <3>4. ~(audit[s] # None /\ audit[s].at > at[c])
      <4>1. audit[s] # None => audit[s].at \in Nat /\ audit[s].at <= at[c]
        BY <1>1, <1>2, <1>3, <1>4 DEF SoloNoted, TablesOK, Entry
      <4> QED
        BY <4>1, <3>1
    <3>5. audit' = [audit EXCEPT ![s] = new]
      BY <3>4, <2>2, <1>3 DEF InsertAudit
    <3> HIDE DEF new
    <3> QED
      BY <3>2, <3>3, <3>5, <1>1 DEF TablesOK
  <2> QED
    BY <2>1, <2>2, <1>1
<1>8. /\ UNCHANGED <<submission, decision, session, links>>
      /\ Value(c)' = Value(c) /\ Why(c)' = Why(c)
  BY <1>1, SameAsked DEF tables, InsertAudit
<1>9. submission[s].status = StatusOf[Value(c)] /\ decision[s] = Told(c)
  BY <1>2, <1>3, <1>4 DEF Progress, Fitted, Fits, SoloNoted
<1>10. Accepts(c) => Accepted(c)'
  BY <1>1, <1>2, AcceptedNow
<1>11. ~Accepts(c) => session[s] # "confirmed" /\ links[s] = {}
  BY <1>2, <1>3, <1>4 DEF SoloTaken
<1> QED
  BY <1>5, <1>7, <1>8, <1>9, <1>10, <1>11 DEF Applied, Told, Accepts

\* What was applied remains, whatever request goes on beside it.
LEMMA AppliedOn ==
  ASSUME AllSettled, NEW c \in Call, Command(c), NEW s \in Submission, NEW e \in Call \ {c},
         latest[s] = e, latest'[s] = e, Settled(s)
  PROVE  Safe(s)'
<1>1. Order /\ Applied(s) /\ Newest(s)
  BY DEF AllSettled, Safe, Achieved, Succession
<1>2. e # None /\ Answered(e) /\ solo[e]
  BY DEF Settled
<1>3. Still(e) /\ ~Direct(e) /\ Sub(e) = s
  BY <1>1, <1>2, CommandSound DEF Sound, Newest
<1>4. Value(e)' = Value(e) /\ Why(e)' = Why(e) /\ Sub(e)' = s /\ ~Direct(e)'
  BY <1>3 DEF Still, Direct, Sub, Value, Why
<1>5. Beside(c, s)
  <2>1. CASE c \in Underway
    BY <2>1, <1>2 DEF AllSettled, Succession, Follows, Beside
  <2>2. CASE Opens(c)
    BY <2>2 DEF Opens, Beside
  <2> QED
    BY <2>1, <2>2, <1>1, OpensOrGoesOn
<1>6. AsWas(s)
  BY <1>1, <1>5, Elsewhere
<1>7. ASSUME Accepts(e) PROVE Accepted(e)' /\ \A d \in Underway' : Spares(d, s)'
  <2>1. Accepted(e) /\ \A d \in Underway : Spares(d, s)
    BY <1>7 DEF AllSettled, Safe, Applied
  <2>2. session[s] = "confirmed" /\ links[s] = Author[s] /\ Author[s] \subseteq Speaker
    BY <2>1, <1>3, AuthorAssumption DEF Accepted
  <2>3. Spares(c, s)'
    BY <2>1, <2>2, <1>1, <1>5, SparesOn
  <2>4. ASSUME NEW d \in Underway', d # c PROVE Spares(d, s)'
    <3>1. d \in Call /\ Still(d)
      BY <2>4, <1>1, CommandSound DEF Sound, Underway
    <3>2. d \in Underway
      BY <2>4, <3>1 DEF Underway, Still
    <3>3. Spares(d, s)
      BY <3>2, <2>1
    <3> QED
      BY <3>1, <3>3 DEF Spares, Still
  <2>5. Holds(c)
    BY <1>1, Kept
  <2>6. pc[c] \in {"cancelling", "withdraw"} => who[c] \notin Author[s]
    BY <2>1 DEF Spares, Underway
  <2>7. ASSUME NEW p \in Author[s] PROVE Stands(p)'
    <3>1. Stands(p) /\ p \in Speaker
      BY <2>1, <2>2, <1>3 DEF Accepted
    <3>2. Here(p)'
      BY <3>1, <2>5, <2>6 DEF Stands, Holds, Here, Known
    <3>3. ASSUME NEW t \in Template \X {p} PROVE Live(t)'
      <4>1. Live(t) /\ t \in Task /\ t[2] = p
        BY <3>1 DEF Stands, Task
      <4> QED
        BY <4>1, <2>5, <2>6 DEF Holds
    <3> QED
      BY <3>2, <3>3 DEF Stands, Here, Known
  <2>8. Accepted(e)'
    BY <2>1, <2>7, <1>3, <1>4, <1>6 DEF Accepted, AsWas
  <2> QED
    BY <2>3, <2>4, <2>8
<1>8. Applied(s)'
  BY <1>1, <1>4, <1>6, <1>7 DEF Applied, AsWas, Told, Accepts
<1>9. Accepts(e)' => Accepts(e)
  BY <1>4 DEF Accepts
<1> QED
  BY <1>7, <1>8, <1>9 DEF Safe

\* It holds after every step.
LEMMA SettledCommand ==
  ASSUME AllSettled, NEW c \in Call, Command(c) PROVE AllSettled'
<1>1. Order /\ Achieved' /\ Succession' /\ Sound(c)
  BY AchievedCommand, SuccessionStep, CommandSound DEF AllSettled, Achieved
<1>2. ASSUME NEW s \in Submission, Settled(s)' PROVE Safe(s)'
  <2> PICK e : e = latest'[s]
    OBVIOUS
  <2>1. e # None /\ Answered(e)' /\ solo'[e]
    BY <1>2 DEF Settled
  <2>2. latest' \in [Submission -> Call \union {None}]
        /\ latest \in [Submission -> Call \union {None}]
    BY <1>1 DEF Sound, Order, TypeOK, HistoryOK
  <2>3. e \in Call
    BY <2>1, <2>2
  <2>4. CASE e = c
    <3>1. Applied(s)' /\ Underway' = {}
      BY <2>1, <2>4, SettledNow
    <3> QED
      BY <3>1 DEF Safe
  <2>5. CASE e # c
    <3>1. Still(e) /\ latest[s] = e
      BY <2>2, <2>5, <2>3, <1>1, OpensOrGoesOn DEF Sound, Opens, startVars
    <3>2. solo[e]
      BY <2>1, <2>3, <2>5, <1>1, OpensOrGoesOn DEF Opens, startVars
    <3>3. Settled(s)
      BY <3>1, <3>2, <2>1 DEF Settled, Answered, Still, Direct
    <3> QED
      BY <3>1, <3>3, <2>3, <2>5, AppliedOn
  <2> QED
    BY <2>4, <2>5
<1>3. \A s \in Submission : Safe(s)'
  BY <1>2 DEF Safe
<1> QED
  BY <1>1, <1>3 DEF AllSettled

LEMMA SettledPortal ==
  ASSUME AllSettled, \/ \E t \in Task : CompleteTask(t)
                     \/ \E p \in Speaker : UpdateProfile(p)
  PROVE  AllSettled'
<1>1. Achieved' /\ Order /\ Succession' /\ \A d \in Call : Still(d)
  BY AchievedPortal, SuccessionPortal, PortalSound DEF AllSettled, Achieved
<1>2. /\ UNCHANGED <<submission, decision, session, links, audit, pc, request, latest>>
      /\ UNCHANGED <<who, listed, answer>>
      /\ solo' = [c \in Call |-> solo[c] /\ c \notin Underway]
  BY DEF CompleteTask, UpdateProfile, Interfere, localVars
<1>3. (\A p \in Speaker : Here(p) => Here(p)') /\ (\A t \in Task : Live(t) => Live(t)')
  BY <1>1, PortalKeeps
<1>4. ASSUME NEW s \in Submission, Settled(s)' PROVE Safe(s)'
  <2> PICK e : e = latest[s]
    OBVIOUS
  <2>1. latest'[s] = e /\ e \in Call
    BY <1>1, <1>2, <1>4 DEF Settled, Order, TypeOK, HistoryOK
  <2>2. Settled(s)
    BY <2>1, <1>2, <1>4 DEF Settled, Answered, Direct
  <2>3. Applied(s) /\ (Accepts(e) => \A d \in Underway : Spares(d, s))
    BY <2>2 DEF AllSettled, Safe
  <2>4. Sub(e) = s
    BY <2>2, <1>1 DEF AllSettled, Succession, Newest, Settled
  <2>5. Author[s] \subseteq Speaker
    BY AuthorAssumption
  <2>6. ASSUME NEW p \in Author[s], Stands(p) PROVE Stands(p)'
    <3>1. Here(p)'
      BY <2>5, <2>6, <1>3 DEF Stands, Here, Known
    <3>2. ASSUME NEW t \in Template \X {p} PROVE Live(t)'
      BY <2>5, <2>6, <1>3 DEF Stands, Task
    <3> QED
      BY <3>1, <3>2 DEF Stands, Here, Known
  <2>7. Accepted(e) => Accepted(e)'
    BY <2>4, <2>6, <1>2 DEF Accepted, Sub
  <2>8. Applied(s)'
    BY <2>3, <2>7, <1>2 DEF Applied, Told, Accepts, Value, Why
  <2>9. \A d \in Call : Spares(d, s)' = Spares(d, s)
    BY <1>2 DEF Spares
  <2>10. Accepts(e)' = Accepts(e) /\ Underway' = Underway
    BY <1>2 DEF Accepts, Value, Underway
  <2> QED
    BY <2>1, <2>3, <2>8, <2>9, <2>10 DEF Safe, Underway
<1>5. \A s \in Submission : Safe(s)'
  BY <1>4 DEF Safe
<1> QED
  BY <1>1, <1>5 DEF AllSettled

LEMMA SettledStutter == ASSUME AllSettled, UNCHANGED vars PROVE AllSettled'
<1> USE DEF vars, tables, localVars, startVars, boundVars
<1>1. Achieved' /\ Underway' = Underway
  BY AchievedStutter DEF AllSettled, Underway
<1>2. Succession'
  BY <1>1 DEF AllSettled, Succession, Newest, Follows, Direct, Sub
<1>3. \A s \in Submission : Settled(s)' = Settled(s) /\ Applied(s)' = Applied(s)
  BY DEF Settled, Applied, Answered, Accepted, Accepts, Told, Stands, Live, Direct, Sub, Value, Why
<1>4. \A s \in Submission, d \in Call : Spares(d, s)' = Spares(d, s)
  BY DEF Spares
<1>5. \A s \in Submission : Accepts(latest[s])' = Accepts(latest[s])
  BY DEF Accepts, Value
<1>6. \A s \in Submission : Safe(s)'
  BY <1>1, <1>3, <1>4, <1>5 DEF AllSettled, Safe, Underway
<1> QED
  BY <1>1, <1>2, <1>6 DEF AllSettled

-----------------------------------------------------------------------------
(* A program with nobody left over *)

\* Every request so far had the system to itself, and none has died.
Calm == Serial /\ crashes = 0

\* the speakers request c is about to seat, or to look at
Pending(c) == IF pc[c] \in Casting \union Tasking THEN Crew(c)
              ELSE IF pc[c] \in {"unlink", "cancel"} \union Clearing THEN todo[c] ELSE {}

\* Request c is seating the speakers of s.
Making(c, s) == pc[c] \in Casting \union Tasking /\ ~Direct(c) /\ Sub(c) = s

\* What request c knows of the speaker it is freeing is so.
Facing(c) ==
  /\ pc[c] = "onstage" =>
       /\ \A x \in listed[c] : session[x] = "confirmed"
       /\ \A x \in Session : session[x] = "confirmed" /\ who[c] \in links[x] => x \in listed[c]
  /\ pc[c] \in {"cancelling", "withdraw"} => ~OnStage(who[c])
  /\ pc[c] = "cancelling" =>
       \A t \in Template \X {who[c]} : Live(t) => [task |-> t, row |-> task[t]] \in listed[c]
  /\ pc[c] = "withdraw" => /\ row[c] = part[who[c]]
                           /\ \A t \in Template \X {who[c]} : ~Live(t)

\* What request c has read is what is there.
Exact(c) ==
  /\ pc[c] = "participation" => row[c] = part[who[c]]
  /\ pc[c] = "task" => row[c] = task[who[c]]
  /\ pc[c] = "link" => who[c] \notin links[SessionOf(c)]
  /\ Direct(c) => /\ session[c] = "confirmed"
                  /\ pc[c] \in Casting => links[c] = Crew(c) \ todo[c]
                  /\ pc[c] \in Tasking => links[c] = Crew(c)
  /\ pc[c] = "unlink" => todo[c] = links[Sub(c)]
  /\ Facing(c)

\* Request c is under way.
Busy(c) == c \in Underway

\* With c the only request that may be under way: a speaker is on a stage, or holds
\* nothing, or c is about to see to it; and so for the sessions of the submissions.
PeopleTidy(c) == \A p \in Speaker : OnStage(p) \/ Gone(p) \/ (Busy(c) /\ p \in Pending(c))
StagesTidy(c) == \A s \in Submission : Standing(s) \/ (Busy(c) /\ Making(c, s))
Tidied(c) == PeopleTidy(c) /\ StagesTidy(c) /\ (Busy(c) => Exact(c))

\* The inductive invariant behind NobodyLeftBehind and AuthorsStand
Tidy == Calm => /\ \A p \in Speaker : OnStage(p) \/ Gone(p) \/ \E c \in Underway : p \in Pending(c)
                /\ \A s \in Submission : Standing(s) \/ \E c \in Underway : Making(c, s)
                /\ \A c \in Underway : Exact(c)
\* The direct session of a request that has not begun has no speakers.
Blank == \A c \in Call : pc[c] = "start" => links[c] = {}

\* What the steps of the request under way may assume
InCourse(c) == /\ Order /\ Busy(c) /\ Tidied(c)
               /\ ~Direct(c) => Progress(c) /\ SoloNoted(c) /\ SoloTaken(c)

\* The labels at which it neither seats anybody nor takes anybody away
Outside == Opening \union Seating \union {"lookup", "crew"} \union Recording

\* Who is on a stage, who holds nothing, which session stands, is read off the tables.
LEMMA SameStage ==
  ASSUME UNCHANGED <<session, links>> PROVE \A p \in Speaker : OnStage(p)' = OnStage(p)
BY DEF OnStage

LEMMA SameGone ==
  ASSUME UNCHANGED <<part, task>> PROVE \A p \in Speaker : Gone(p)' = Gone(p)
BY DEF Gone, Known, Live

LEMMA StandingOn ==
  ASSUME Order, NEW c \in Call, Holds(c), NEW s \in Submission, Standing(s),
         session'[s] = session[s], links'[s] = links[s],
         pc[c] \in {"cancelling", "withdraw"} => ~OnStage(who[c])
  PROVE  Standing(s)'
<1>1. s \in Session /\ links[s] \subseteq Speaker
  BY DEF Order, TypeOK, TablesOK, Session
<1>2. ASSUME session[s] = "confirmed", NEW p \in links[s] PROVE Stands(p)'
  <2>1. Stands(p) /\ OnStage(p) /\ p \in Speaker
    BY <1>1, <1>2 DEF Standing, OnStage
  <2>2. ~(pc[c] \in {"cancelling", "withdraw"} /\ who[c] = p)
    BY <2>1
  <2>3. Here(p)'
    BY <2>1, <2>2 DEF Stands, Holds, Here, Known
  <2>4. ASSUME NEW t \in Template \X {p} PROVE Live(t)'
    <3>1. Live(t) /\ t \in Task /\ t[2] = p
      BY <2>1 DEF Stands, Task
    <3> QED
      BY <3>1, <2>2 DEF Holds
  <2> QED
    BY <2>3, <2>4 DEF Stands, Here, Known
<1> QED
  BY <1>2 DEF Standing

\* Steps that touch neither the program nor its people
LEMMA QuietPeople ==
  ASSUME NEW c \in Call, PeopleTidy(c), UNCHANGED <<session, links, part, task>>,
         \A p \in Speaker : Busy(c) /\ p \in Pending(c) => \/ Busy(c)' /\ p \in Pending(c)'
                                                         \/ OnStage(p) \/ Gone(p)
  PROVE  PeopleTidy(c)'
BY SameStage, SameGone DEF PeopleTidy

LEMMA QuietStages ==
  ASSUME NEW c \in Call, StagesTidy(c), UNCHANGED <<session, links, part, task>>,
         \A s \in Submission : Busy(c) /\ Making(c, s) => \/ Busy(c)' /\ Making(c, s)'
                                                        \/ Standing(s)
  PROVE  StagesTidy(c)'
<1>1. \A s \in Submission : Standing(s)' = Standing(s)
  BY DEF Standing, Stands, Live
<1> QED
  BY <1>1 DEF StagesTidy

\* Steps between those labels change nothing about the speakers.
LEMMA OutsideTidy ==
  ASSUME NEW c \in Call, InCourse(c), UNCHANGED <<session, links, part, task, startVars>>, ~Direct(c),
         pc[c] \in Outside, pc'[c] \in Outside \union {"speakers", "done"}
  PROVE  Tidied(c)'
<1>1. Pending(c) = {} /\ \A s \in Submission : ~Making(c, s)
  BY DEF Pending, Making, Outside
<1>2. PeopleTidy(c)' /\ StagesTidy(c)'
  BY <1>1, QuietPeople, QuietStages DEF InCourse, Tidied
<1>3. Exact(c)'
  BY SameAsked DEF Exact, Facing, Outside, InCourse
<1> QED
  BY <1>2, <1>3 DEF Tidied

LEMMA OutsideSteps ==
  ASSUME NEW c \in Call, InCourse(c),
         \/ ReadDecision(c) \/ Claim(c) \/ FindSession(c) \/ Lookup(c) \/ Upsert(c)
         \/ WriteDecision(c) \/ EnsureAudit(c) \/ InsertAudit(c)
  PROVE  Tidied(c)'
<1>1. Order /\ CallsOK /\ Place(c) /\ Work(c, decision[Sub(c)]) \in {"session", "lookup"}
      /\ Work(c, old[c]) \in {"session", "lookup"} /\ Finish(c) \in {"ensure", "upsert"}
  BY DEF InCourse, Order, TypeOK, Work, Finish
<1>2. pc[c] \in Outside
  BY DEF ReadDecision, Claim, FindSession, Lookup, Upsert, WriteDecision, EnsureAudit, InsertAudit,
         Outside
<1>3. ~Direct(c)
  BY <1>1, <1>2 DEF Place, Outside
<1>4. UNCHANGED <<session, links, part, task, startVars>>
  BY DEF ReadDecision, Claim, FindSession, Lookup, Upsert, WriteDecision, EnsureAudit, InsertAudit,
         tables
<1>5. ASSUME NEW l, Goto(c, l) PROVE pc'[c] = l
  BY <1>1, <1>5 DEF Goto, CallsOK
<1>6. ASSUME NEW a, Reply(c, a) PROVE pc'[c] = "done"
  BY <1>5, <1>6 DEF Reply
<1>7. CASE FindSession(c)
  <2>1. session[Sub(c)] \in {None, "confirmed", "cancelled"}
    BY <1>1, <1>2, <1>3, Sees DEF Order, TypeOK, TablesOK, Outside
  <2>2. pc'[c] \in {"create", "reactivate", "speakers"}
    BY <2>1, <1>5, <1>7, NoneAssumption DEF FindSession, Loop
  <2> QED
    BY <2>2, <1>2, <1>3, <1>4, OutsideTidy DEF Outside
<1>8. CASE ReadDecision(c) \/ Claim(c) \/ Lookup(c)
  <2>1. pc'[c] \in {"claim", "session", "lookup", "done", "ensure", "upsert", "crew"}
    BY <1>1, <1>5, <1>6, <1>8 DEF ReadDecision, Claim, Lookup
  <2> QED
    BY <2>1, <1>2, <1>3, <1>4, OutsideTidy DEF Outside
<1>9. CASE Upsert(c) \/ WriteDecision(c) \/ EnsureAudit(c) \/ InsertAudit(c)
  <2>1. pc'[c] \in {"insert", "update", "audit", "done"}
    BY <1>5, <1>6, <1>9 DEF Upsert, WriteDecision, EnsureAudit, InsertAudit
  <2> QED
    BY <2>1, <1>2, <1>3, <1>4, OutsideTidy DEF Outside
<1> QED
  BY <1>7, <1>8, <1>9

-----------------------------------------------------------------------------
(* The steps that seat *)

\* A request that seats its speakers goes on to seat them.
LEMMA CastingTidy ==
  ASSUME NEW c \in Call, InCourse(c), UNCHANGED <<session, links, part, task, startVars>>,
         pc[c] \in Casting \union Tasking, pc'[c] \in Casting \union Tasking, Exact(c)'
  PROVE  Tidied(c)'
<1>1. Crew(c)' = Crew(c) /\ Direct(c)' = Direct(c) /\ Sub(c)' = Sub(c) /\ Busy(c)' /\ Busy(c)
  BY SameAsked DEF InCourse, Busy, Underway
<1>2. Pending(c)' = Pending(c)
  BY <1>1 DEF Pending
<1>3. \A s \in Submission : Making(c, s) => Making(c, s)'
  BY <1>1 DEF Making
<1>4. PeopleTidy(c)' /\ StagesTidy(c)'
  BY <1>1, <1>2, <1>3, QuietPeople, QuietStages DEF InCourse, Tidied
<1> QED
  BY <1>4 DEF Tidied

LEMMA CastingSteps ==
  ASSUME NEW c \in Call, InCourse(c),
         \/ \E p \in Speaker : FindParticipation(c, p)
         \/ \E t \in Task : FindTask(c, t)
         \/ FindLink(c) \/ StartTasks(c)
  PROVE  Tidied(c)'
<1>1. Order /\ CallsOK /\ Place(c) /\ Aim(c) /\ Exact(c) /\ TablesOK
  BY DEF InCourse, Order, TypeOK, Tidied
<1>2. UNCHANGED <<session, links, part, task, startVars>>
  BY DEF FindParticipation, FindTask, FindLink, StartTasks, Read, tables
<1>3. /\ Crew(c)' = Crew(c) /\ Direct(c)' = Direct(c) /\ Sub(c)' = Sub(c)
      /\ SessionOf(c)' = SessionOf(c)
  BY <1>1, <1>2, SameAsked
<1>4. ASSUME NEW p \in Speaker, FindParticipation(c, p) PROVE Tidied(c)'
  <2>1. pc[c] = "speakers" /\ pc'[c] = "participation" /\ who'[c] = p /\ row'[c] = part[p]
        /\ todo' = todo
    BY <1>1, <1>4, RowRead DEF FindParticipation, Read
  <2>2. Exact(c)'
    BY <2>1, <1>1, <1>2, <1>3 DEF Exact, Facing
  <2> QED
    BY <2>1, <2>2, <1>2, CastingTidy
<1>5. ASSUME NEW t \in Task, FindTask(c, t) PROVE Tidied(c)'
  <2>1. pc[c] = "tasks" /\ pc'[c] = "task" /\ who'[c] = t /\ row'[c] = task[t]
        /\ todo' = todo
    BY <1>1, <1>5, RowRead DEF FindTask, Read
  <2>2. Exact(c)'
    BY <2>1, <1>1, <1>2, <1>3 DEF Exact, Facing
  <2> QED
    BY <2>1, <2>2, <1>2, CastingTidy
<1>6. CASE FindLink(c)
  <2>1. pc[c] = "linked" /\ ~Direct(c) /\ SessionOf(c) = Sub(c)
    BY <1>1, <1>6, Sees DEF FindLink, Place
  <2>2. CASE who[c] \in links[Sub(c)]
    <3>1. pc'[c] = "speakers"
      BY <2>2, <1>1, <1>6, Looped DEF FindLink
    <3>2. Exact(c)'
      BY <3>1, <2>1, <1>3 DEF Exact, Facing
    <3> QED
      BY <3>1, <3>2, <2>1, <1>2, CastingTidy
  <2>3. CASE who[c] \notin links[Sub(c)]
    <3>1. pc'[c] = "link" /\ who'[c] = who[c]
      BY <2>3, <1>1, <1>6 DEF FindLink, Goto, CallsOK
    <3>2. Exact(c)'
      BY <3>1, <2>1, <2>3, <1>2, <1>3 DEF Exact, Facing
    <3> QED
      BY <3>1, <3>2, <2>1, <1>2, CastingTidy
  <2> QED
    BY <2>2, <2>3
<1>7. CASE StartTasks(c)
  <2>1. pc[c] = "speakers" /\ todo[c] = {} /\ pc'[c] = "tasks"
    BY <1>1, <1>7, Looped DEF StartTasks
  <2>2. Exact(c)'
    BY <2>1, <1>1, <1>2, <1>3 DEF Exact, Facing
  <2> QED
    BY <2>1, <2>2, <1>2, CastingTidy
<1> QED
  BY <1>4, <1>5, <1>6, <1>7

\* Those that write: the session,
LEMMA ConfirmTidy ==
  ASSUME NEW c \in Call, InCourse(c), ConfirmSession(c) PROVE Tidied(c)'
<1>1. Order /\ CallsOK /\ TablesOK /\ Place(c)
  BY DEF InCourse, Order, TypeOK
<1>2. pc[c] \in {"create", "reactivate"} /\ ~Direct(c) /\ pc'[c] = "speakers"
      /\ UNCHANGED <<startVars, links, part, task>>
  BY <1>1, Looped DEF ConfirmSession, Place
<1>3. Sub(c) \in Session /\ SoloNoted(c) /\ Tidied(c)
  BY <1>1, <1>2, Sees DEF InCourse
<1>4. session' = [session EXCEPT ![Sub(c)] = "confirmed"]
  BY <1>2, <1>3 DEF SoloNoted, ConfirmSession
<1>5. session'[Sub(c)] = "confirmed" /\ \A x \in Session : x # Sub(c) => session'[x] = session[x]
  BY <1>1, <1>3, <1>4 DEF TablesOK
<1>6. /\ Crew(c)' = Crew(c) /\ Direct(c)' = Direct(c) /\ Sub(c)' = Sub(c)
  BY <1>1, <1>2, SameAsked
<1>7. Busy(c)' /\ Pending(c) = {} /\ \A s \in Submission : ~Making(c, s)
  BY <1>2 DEF Busy, Underway, Pending, Making
<1>8. \A p \in Speaker : OnStage(p) => OnStage(p)'
  BY <1>2, <1>5 DEF OnStage
<1>9. PeopleTidy(c)'
  BY <1>2, <1>3, <1>7, <1>8, SameGone DEF Tidied, PeopleTidy
<1>10. StagesTidy(c)'
  <2>1. ASSUME NEW s \in Submission, s # Sub(c) PROVE Standing(s)'
    <3>1. session'[s] = session[s]
      BY <2>1, <1>5 DEF Session
    <3> QED
      BY <3>1, <1>2, <1>3, <1>7 DEF Tidied, StagesTidy, Standing, Stands, Live
  <2>2. Making(c, Sub(c))'
    BY <1>2, <1>6 DEF Making
  <2> QED
    BY <2>1, <2>2, <1>7, <1>6 DEF StagesTidy, Making
<1>11. Exact(c)'
  BY <1>2, <1>6 DEF Exact, Facing
<1> QED
  BY <1>9, <1>10, <1>11 DEF Tidied

\* the participation,
LEMMA ParticipationTidy ==
  ASSUME NEW c \in Call, InCourse(c), WriteParticipation(c) PROVE Tidied(c)'
<1>1. Order /\ CallsOK /\ TablesOK /\ Place(c) /\ Aim(c) /\ Exact(c) /\ Tidied(c) /\ Busy(c)
  BY DEF InCourse, Order, TypeOK, Tidied
<1> PICK p : p = who[c]
  OBVIOUS
<1>2. pc[c] = "participation" /\ p \in todo[c] /\ todo[c] \subseteq Crew(c) /\ row[c] = part[p]
  BY <1>1 DEF WriteParticipation, Aim, Exact, Facing
<1>3. /\ pc'[c] = (IF Direct(c) THEN "link" ELSE "linked") /\ UNCHANGED localVars
      /\ UNCHANGED <<session, links, task, startVars>>
  BY <1>1, <1>2, Jump DEF WriteParticipation
<1>4. /\ Crew(c)' = Crew(c) /\ Direct(c)' = Direct(c) /\ Sub(c)' = Sub(c)
      /\ SessionOf(c)' = SessionOf(c)
  BY <1>1, <1>3, SameAsked
<1>5. Holds(c)
  BY <1>1, Kept DEF Command
<1>6. \A q \in Speaker : q # p => part'[q] = part[q]
  BY <1>1 DEF WriteParticipation, Patch, TablesOK
<1>7. Pending(c)' = Crew(c) /\ Pending(c) = Crew(c) /\ Busy(c)'
  BY <1>2, <1>3, <1>4 DEF Pending, Busy, Underway
<1>8. PeopleTidy(c)'
  <2>1. ASSUME NEW q \in Speaker, q # p, Gone(q) PROVE Gone(q)'
    BY <2>1, <1>3, <1>6 DEF Gone, Known, Live
  <2> QED
    BY <2>1, <1>1, <1>2, <1>3, <1>7, SameStage DEF Tidied, PeopleTidy
<1>9. StagesTidy(c)'
  <2>1. ASSUME NEW s \in Submission, Standing(s) PROVE Standing(s)'
    BY <2>1, <1>1, <1>2, <1>3, <1>5, StandingOn
  <2>2. ASSUME NEW s \in Submission, Making(c, s) PROVE Making(c, s)'
    BY <2>2, <1>3, <1>4 DEF Making
  <2> QED
    BY <2>1, <2>2, <1>1, <1>7 DEF Tidied, StagesTidy
<1>10. Exact(c)'
  <2>1. CASE ~Direct(c)
    BY <2>1, <1>3, <1>4 DEF Exact, Facing
  <2>2. CASE Direct(c)
    <3>1. session[c] = "confirmed" /\ links[c] = Crew(c) \ todo[c] /\ SessionOf(c) = c
      BY <2>2, <1>1, <1>2 DEF Exact, Facing, SessionOf
    <3>2. pc'[c] = "link" /\ who'[c] = p /\ todo'[c] = todo[c]
      BY <2>2, <1>3 DEF localVars
    <3> QED
      BY <3>1, <3>2, <1>2, <1>3, <1>4 DEF Exact, Facing
  <2> QED
    BY <2>1, <2>2
<1> QED
  BY <1>8, <1>9, <1>10 DEF Tidied

\* the link,
LEMMA LinkTidy ==
  ASSUME NEW c \in Call, InCourse(c), InsertLink(c) PROVE Tidied(c)'
<1>1. Order /\ CallsOK /\ TablesOK /\ Place(c) /\ Aim(c) /\ Exact(c) /\ Tidied(c) /\ Busy(c)
      /\ HistoryOK
  BY DEF InCourse, Order, TypeOK, Tidied
<1> PICK p : p = who[c]
  OBVIOUS
<1> PICK z : z = SessionOf(c)
  OBVIOUS
<1>2. pc[c] = "link" /\ p \in todo[c] /\ todo[c] \subseteq Crew(c) /\ p \notin links[z]
  BY <1>1 DEF InsertLink, Aim, Exact, Facing
<1>3. /\ pc'[c] = "speakers" /\ todo'[c] = todo[c] \ {p}
      /\ UNCHANGED <<session, part, task, startVars>>
      /\ links' = [links EXCEPT ![z] = @ \union {p}]
  BY <1>1, <1>2, Looped DEF InsertLink
<1>4. z \in Session
  <2>1. request[c] # None
    BY <1>1, <1>2 DEF Place
  <2> QED
    BY <2>1, <1>1, Crews
<1>5. links'[z] = links[z] \union {p} /\ \A x \in Session : x # z => links'[x] = links[x]
  BY <1>1, <1>3, <1>4 DEF TablesOK
<1>6. /\ Crew(c)' = Crew(c) /\ Direct(c)' = Direct(c) /\ Sub(c)' = Sub(c)
      /\ SessionOf(c)' = SessionOf(c)
  BY <1>1, <1>3, SameAsked
<1>7. Pending(c)' = Crew(c) /\ Pending(c) = Crew(c) /\ Busy(c)'
  BY <1>2, <1>3, <1>6 DEF Pending, Busy, Underway
<1>8. PeopleTidy(c)'
  <2>1. \A q \in Speaker : OnStage(q) => OnStage(q)'
    BY <1>3, <1>5 DEF OnStage
  <2> QED
    BY <2>1, <1>1, <1>3, <1>7, SameGone DEF Tidied, PeopleTidy
<1>9. StagesTidy(c)'
  <2>1. ASSUME NEW s \in Submission, s # z, Standing(s) PROVE Standing(s)'
    <3>1. links'[s] = links[s]
      BY <2>1, <1>5 DEF Session
    <3> QED
      BY <3>1, <2>1, <1>3 DEF Standing, Stands, Live
  <2>2. ASSUME NEW s \in Submission, Making(c, s) PROVE Making(c, s)'
    BY <2>2, <1>3, <1>6 DEF Making
  <2>3. ASSUME NEW s \in Submission, s = z PROVE Making(c, s)
    BY <2>3, <1>2, CallAssumption DEF Making, SessionOf
  <2> QED
    BY <2>1, <2>2, <2>3, <1>1, <1>7 DEF Tidied, StagesTidy
<1>10. Exact(c)'
  <2>1. CASE ~Direct(c)
    BY <2>1, <1>3, <1>6 DEF Exact, Facing
  <2>2. CASE Direct(c)
    <3>1. session[c] = "confirmed" /\ links[c] = Crew(c) \ todo[c] /\ z = c
      BY <2>2, <1>1, <1>2 DEF Exact, Facing, SessionOf
    <3>2. links'[c] = Crew(c) \ todo'[c]
      BY <3>1, <1>2, <1>3, <1>5
    <3> QED
      BY <3>1, <3>2, <1>3, <1>6 DEF Exact, Facing
  <2> QED
    BY <2>1, <2>2
<1> QED
  BY <1>8, <1>9, <1>10 DEF Tidied

\* the task,
LEMMA TaskTidy ==
  ASSUME NEW c \in Call, InCourse(c), WriteTask(c) PROVE Tidied(c)'
<1>1. Order /\ CallsOK /\ TablesOK /\ Place(c) /\ Aim(c) /\ Exact(c) /\ Tidied(c) /\ Busy(c)
  BY DEF InCourse, Order, TypeOK, Tidied
<1> PICK t : t = who[c]
  OBVIOUS
<1>2. pc[c] = "task" /\ t \in todo[c] /\ todo[c] \subseteq Template \X Crew(c) /\ row[c] = task[t]
  BY <1>1 DEF WriteTask, Aim, Exact, Facing
<1>3. /\ pc'[c] = "tasks" /\ UNCHANGED <<session, links, part, startVars>>
  BY <1>1, <1>2, Looped DEF WriteTask
<1>4. /\ Crew(c)' = Crew(c) /\ Direct(c)' = Direct(c) /\ Sub(c)' = Sub(c)
  BY <1>1, <1>3, SameAsked
<1>5. Holds(c)
  BY <1>1, Kept DEF Command
<1>6. \A q \in Task : q # t => task'[q] = task[q]
  BY <1>1 DEF WriteTask, Patch, TablesOK
<1>7. Pending(c)' = Crew(c) /\ Pending(c) = Crew(c) /\ Busy(c)'
  BY <1>2, <1>3, <1>4 DEF Pending, Busy, Underway
<1>8. PeopleTidy(c)'
  <2>1. ASSUME NEW q \in Speaker, q \notin Crew(c), Gone(q) PROVE Gone(q)'
    <3>1. \A u \in Template \X {q} : u # t /\ u \in Task
      BY <2>1, <1>2 DEF Task
    <3> QED
      BY <3>1, <2>1, <1>3, <1>6 DEF Gone, Known, Live
  <2> QED
    BY <2>1, <1>1, <1>2, <1>3, <1>7, SameStage DEF Tidied, PeopleTidy
<1>9. StagesTidy(c)'
  <2>1. ASSUME NEW s \in Submission, Standing(s) PROVE Standing(s)'
    BY <2>1, <1>1, <1>2, <1>3, <1>5, StandingOn
  <2>2. ASSUME NEW s \in Submission, Making(c, s) PROVE Making(c, s)'
    BY <2>2, <1>3, <1>4 DEF Making
  <2> QED
    BY <2>1, <2>2, <1>1, <1>7 DEF Tidied, StagesTidy
<1>10. Exact(c)'
  BY <1>1, <1>2, <1>3, <1>4 DEF Exact, Facing
<1> QED
  BY <1>8, <1>9, <1>10 DEF Tidied

\* and the last one, after which all stand.
LEMMA EndTasksTidy ==
  ASSUME NEW c \in Call, InCourse(c), EndTasks(c) PROVE Tidied(c)'
<1>1. Order /\ CallsOK /\ TablesOK /\ Place(c) /\ Aim(c) /\ Exact(c) /\ Tidied(c) /\ Busy(c)
  BY DEF InCourse, Order, TypeOK, Tidied
<1>2. pc[c] = "tasks" /\ todo[c] = {} /\ UNCHANGED <<session, links, part, task, startVars>>
  BY DEF EndTasks, tables
<1>3. Finish(c) \in {"ensure", "upsert"}
  BY DEF Finish
<1>4. Pending(c) = Crew(c)
  BY <1>2 DEF Pending
<1>5. CASE Direct(c)
  <2>1. pc'[c] = "done"
    BY <1>1, <1>5, Replied DEF EndTasks
  <2>2. ~Busy(c)'
    BY <2>1 DEF Busy, Underway
  <2>3. \A p \in Pending(c) : OnStage(p)
    BY <1>1, <1>2, <1>4, <1>5 DEF Exact, Facing, OnStage, Session
  <2>4. \A s \in Submission : ~Making(c, s)
    BY <1>5 DEF Making
  <2>5. PeopleTidy(c)' /\ StagesTidy(c)'
    BY <2>3, <2>4, <1>1, <1>2, QuietPeople, QuietStages DEF Tidied
  <2> QED
    BY <2>2, <2>5 DEF Tidied
<1>6. CASE ~Direct(c)
  <2>1. pc'[c] = Finish(c)
    BY <1>1, <1>6, Jump DEF EndTasks
  <2>2. Cast(c) /\ Tasked(c) /\ Accepts(c)
    BY <1>1, <1>2, <1>6 DEF InCourse, Progress, Place, Accepts
  <2>3. Sub(c) \in Session /\ Crew(c) = Author[Sub(c)] /\ links[Sub(c)] \subseteq Author[Sub(c)]
    BY <1>1, <1>2, <1>6, Sees DEF Order, Rooted
  <2>4. /\ session[Sub(c)] = "confirmed"
        /\ \A p \in Author[Sub(c)] : p \in links[Sub(c)] /\ Here(p)
    BY <2>2, <1>2 DEF Cast
  <2>5. \A t \in Template \X Author[Sub(c)] : Live(t)
    BY <2>2, <1>2 DEF Tasked
  <2>6. \A p \in Pending(c) : OnStage(p)
    BY <2>3, <2>4, <1>4 DEF OnStage
  <2>7. Standing(Sub(c))
    <3>1. ASSUME NEW p \in links[Sub(c)] PROVE Stands(p)
      <4>1. \A t \in Template \X {p} : Live(t)
        BY <3>1, <2>3, <2>5
      <4> QED
        BY <4>1, <3>1, <2>3, <2>4 DEF Stands, Here, Known
    <3> QED
      BY <3>1 DEF Standing
  <2>8. \A s \in Submission : Making(c, s) => Standing(s)
    BY <2>7 DEF Making
  <2>9. PeopleTidy(c)' /\ StagesTidy(c)'
    BY <2>6, <2>8, <1>1, <1>2, QuietPeople, QuietStages DEF Tidied
  <2>10. Exact(c)'
    BY <2>1, <1>1, <1>2, <1>3, <1>6, SameAsked DEF Exact, Facing
  <2> QED
    BY <2>9, <2>10 DEF Tidied
<1> QED
  BY <1>5, <1>6

-----------------------------------------------------------------------------
(* The steps that take away *)

\* From session to session, and on to the speaker's tasks and participation, a request that is
\* freeing a speaker knows what is so.  Whom it passes over is on a stage.
LEMMA FreeingSteps ==
  ASSUME Order, NEW c \in Call, Facing(c), pc[c] \in Clearing => links[Sub(c)] = {},
         \/ ListLinked(c) \/ \E p \in Speaker : ListSessions(c, p)
         \/ \E x \in Session : LookForLink(c, x)
         \/ ListTasks(c) \/ FindLeaving(c)
  PROVE  /\ ~Direct(c) /\ ~Accepts(c) /\ UNCHANGED <<session, links, part, task, startVars>>
         /\ \/ pc[c] = "crew" /\ pc'[c] = "unlink" /\ todo'[c] = links[Sub(c)]
            \/ /\ pc[c] \in Clearing /\ pc'[c] \in Clearing /\ freed' = freed
               /\ \A p \in todo[c] : p \in todo'[c] \/ OnStage(p)
         /\ Facing(c)'
<1>1. CallsOK /\ Place(c) /\ Aim(c) /\ Reads(c) /\ TablesOK
  BY DEF Order, TypeOK
<1>2. UNCHANGED <<session, links, part, task, startVars>>
  BY DEF ListLinked, ListSessions, LookForLink, ListTasks, FindLeaving, Read, tables
<1>3. pc[c] \in {"crew"} \union Clearing
  BY DEF ListLinked, ListSessions, LookForLink, ListTasks, FindLeaving
<1>4. ~Direct(c) /\ ~Accepts(c)
  BY <1>1, <1>3 DEF Place, Accepts
<1> DEFINE Goal == /\ \/ pc[c] = "crew" /\ pc'[c] = "unlink" /\ todo'[c] = links[Sub(c)]
                      \/ /\ pc[c] \in Clearing /\ pc'[c] \in Clearing /\ freed' = freed
                         /\ \A p \in todo[c] : p \in todo'[c] \/ OnStage(p)
                   /\ Facing(c)'
<1>7. CASE ListLinked(c)
  <2>1. pc[c] = "crew" /\ pc'[c] = "unlink" /\ todo'[c] = links[Sub(c)]
    BY <1>1, <1>7, Looped DEF ListLinked
  <2> QED
    BY <2>1, <1>2, <1>4 DEF Facing
<1>8. ASSUME NEW p \in Speaker, ListSessions(c, p) PROVE Goal
  <2>1. /\ pc[c] = "free" /\ pc'[c] = "onstage" /\ who'[c] = p /\ listed'[c] = OtherSessions(c)
        /\ todo' = todo /\ freed' = freed
    BY <1>1, <1>8 DEF ListSessions, Goto, CallsOK, boundVars
  <2>2. \A x \in OtherSessions(c) : session'[x] = "confirmed"
    BY <1>2 DEF OtherSessions
  <2>3. ASSUME NEW x \in Session, session'[x] = "confirmed", p \in links'[x]
        PROVE  x \in OtherSessions(c)
    BY <2>1, <2>3, <1>2 DEF OtherSessions
  <2>4. Facing(c)'
    BY <2>1, <2>2, <2>3 DEF Facing
  <2> QED
    BY <2>1, <2>4 DEF Clearing
<1>9. ASSUME NEW x \in Session, LookForLink(c, x) PROVE Goal
  <2>1. pc[c] = "onstage" /\ x \in listed[c] /\ who' = who /\ freed' = freed
    BY <1>9 DEF LookForLink, boundVars
  <2>2. CASE who[c] \in links[x]
    <3>1. pc'[c] = "free" /\ todo'[c] = todo[c] \ {who[c]}
      BY <2>2, <1>1, <1>9 DEF LookForLink, Loop, Goto, CallsOK
    <3>2. OnStage(who[c])
      BY <2>1, <2>2 DEF Facing, OnStage
    <3>3. Facing(c)'
      BY <3>1 DEF Facing
    <3> QED
      BY <3>1, <3>2, <3>3, <2>1
  <2>3. CASE who[c] \notin links[x]
    <3>1. pc'[c] = "onstage" /\ listed'[c] = listed[c] \ {x} /\ todo' = todo /\ who'[c] = who[c]
      BY <2>1, <2>3, <1>1, <1>9 DEF LookForLink, CallsOK
    <3>2. \A y \in listed'[c] : session'[y] = "confirmed"
      BY <3>1, <2>1, <1>2 DEF Facing
    <3>3. \A y \in Session : session'[y] = "confirmed" /\ who'[c] \in links'[y] => y \in listed'[c]
      BY <3>1, <2>1, <2>3, <1>2 DEF Facing
    <3>4. Facing(c)'
      BY <3>1, <3>2, <3>3 DEF Facing
    <3> QED
      BY <3>1, <3>4, <2>1
  <2> QED
    BY <2>2, <2>3
<1>10. CASE ListTasks(c)
  <2> DEFINE found == {[task |-> t, row |-> task[t]] : t \in {t \in Template \X {who[c]} : Live(t)}}
  <2>1. /\ pc[c] = "onstage" /\ listed[c] = {} /\ pc'[c] = "cancelling" /\ listed'[c] = found
        /\ who'[c] = who[c] /\ todo' = todo /\ freed' = freed
    BY <1>1, <1>10 DEF ListTasks, Goto, CallsOK, boundVars
  <2>2. ~OnStage(who[c])
    BY <2>1 DEF Facing, OnStage
  <2>3. \A t \in Template \X {who[c]} : Live(t) => [task |-> t, row |-> task[t]] \in found
    OBVIOUS
  <2> HIDE DEF found
  <2>5. Facing(c)'
    <3> PICK p : p = who[c]
      OBVIOUS
    <3>1. who'[c] = p /\ ~OnStage(p)'
      BY <2>1, <2>2, <1>2 DEF OnStage
    <3>2. \A t \in Template \X {p} : Live(t)' => [task |-> t, row |-> task'[t]] \in listed'[c]
      BY <2>1, <2>3, <1>2 DEF Live
    <3> QED
      BY <3>1, <3>2, <2>1 DEF Facing
  <2> QED
    BY <2>1, <2>5, <1>2, <1>4 DEF Clearing
<1>11. CASE FindLeaving(c)
  <2> PICK p : p = who[c]
    OBVIOUS
  <2>1. /\ pc[c] = "cancelling" /\ listed[c] = {} /\ pc'[c] = "withdraw" /\ who'[c] = p
        /\ row'[c] = part[p] /\ todo' = todo /\ freed' = freed
    <3>1. Read(c, "withdraw", p, part[p]) /\ pc[c] = "cancelling" /\ listed[c] = {}
      BY <1>11 DEF FindLeaving
    <3>2. pc'[c] = "withdraw" /\ who'[c] = p /\ row'[c] = part[p]
      BY <3>1, <1>1, RowRead
    <3> QED
      BY <3>1, <3>2 DEF Read, boundVars
  <2>2. ~OnStage(p) /\ \A t \in Template \X {p} : ~Live(t)
    BY <2>1 DEF Facing
  <2>3. ~OnStage(p)' /\ (\A t \in Template \X {p} : ~Live(t)') /\ row'[c] = part'[p]
    BY <2>1, <2>2, <1>2 DEF OnStage, Live
  <2>4. Facing(c)'
    BY <2>1, <2>3 DEF Facing
  <2> QED
    BY <2>1, <2>4, <1>2, <1>4 DEF Clearing
<1> QED
  BY <1>2, <1>4, <1>7, <1>8, <1>9, <1>10, <1>11

\* A task is cancelled,
LEMMA FreeingTask ==
  ASSUME Order, NEW c \in Call, Facing(c), NEW l \in listed[c], CancelTask(c, l)
  PROVE  /\ UNCHANGED <<session, links, part, startVars, freed, pc, todo, who>>
         /\ pc[c] = "cancelling" /\ \A p \in Speaker : Gone(p) => Gone(p)'
         /\ Facing(c)'
<1>1. CallsOK /\ Aim(c) /\ Reads(c) /\ TablesOK
  BY DEF Order, TypeOK
<1> PICK p : p = who[c]
  OBVIOUS
<1>2. /\ pc[c] = "cancelling"
      /\ UNCHANGED <<session, links, part, startVars, freed, pc, todo, who>>
      /\ listed'[c] = listed[c] \ {l} /\ task' = Patch(task, l.task, l.row, "cancelled")
  BY <1>1 DEF CancelTask, CallsOK, boundVars
<1>3. p \in Speaker /\ l.task \in Template \X {p} /\ l.task \in Task /\ l.row \in TaskRow
  BY <1>1, <1>2 DEF Aim, Reads, Task
<1>4. \A t \in Task : t # l.task => task'[t] = task[t]
  BY <1>1, <1>2 DEF Patch, TablesOK
<1>5. \/ task'[l.task].status = "cancelled"
      \/ task'[l.task] = task[l.task] /\ (task[l.task] = None \/ task[l.task].version # l.row.version)
  BY <1>1, <1>2, <1>3 DEF Patch, TablesOK
<1>6. \A t \in Task : Live(t)' => Live(t) /\ task'[t] = task[t]
  BY <1>4, <1>5 DEF Live
<1>7. ASSUME NEW q \in Speaker, Gone(q) PROVE Gone(q)'
  <2>1. \A t \in Template \X {q} : t \in Task
    BY DEF Task
  <2> QED
    BY <2>1, <1>2, <1>6, <1>7 DEF Gone
<1>8. ~OnStage(p)'
  BY <1>2 DEF Facing, OnStage
<1>9. ASSUME NEW t \in Template \X {p}, Live(t)'
      PROVE  [task |-> t, row |-> task'[t]] \in listed[c] \ {l}
  <2>1. task'[t] = task[t] /\ Live(t)
    BY <1>3, <1>6, <1>9 DEF Task
  <2>2. [task |-> t, row |-> task[t]] \in listed[c]
    BY <2>1, <1>2 DEF Facing
  <2>3. [task |-> t, row |-> task[t]] # l
    BY <2>1, <1>5, <1>9 DEF Live
  <2> QED
    BY <2>1, <2>2, <2>3
<1> QED
  BY <1>2, <1>7, <1>8, <1>9 DEF Facing

\* and the participation is withdrawn.
LEMMA FreeingSpeaker ==
  ASSUME Order, NEW c \in Call, Facing(c), Withdraw(c)
  PROVE  /\ pc[c] = "withdraw" /\ pc'[c] = "free" /\ todo'[c] = todo[c] \ {who[c]}
         /\ UNCHANGED <<session, links, task, startVars, freed>> /\ ~OnStage(who[c])
         /\ \A p \in Speaker : p = who[c] \/ Gone(p) => Gone(p)'
<1>1. CallsOK /\ Aim(c) /\ Reads(c) /\ TablesOK
  BY DEF Order, TypeOK
<1> PICK p : p = who[c]
  OBVIOUS
<1>2. /\ pc[c] = "withdraw" /\ pc'[c] = "free" /\ todo'[c] = todo[c] \ {p}
      /\ UNCHANGED <<session, links, task, startVars, freed>>
  BY <1>1, Looped DEF Withdraw, boundVars
<1>3. p \in Speaker /\ row[c] = part[p] /\ row[c] \in PartRow /\ part[p] # None
      /\ ~OnStage(p) /\ \A t \in Template \X {p} : ~Live(t)
  BY <1>1, <1>2 DEF Aim, Reads, Facing, Known
<1>4. \A q \in Speaker : q # p => part'[q] = part[q]
  BY <1>1, <1>2 DEF Withdraw, Patch, TablesOK
<1>5. part'[p].status = "withdrawn"
  <2> DEFINE new == [status |-> "withdrawn", version |-> row[c].version + 1]
  <2>1. new.status = "withdrawn"
    OBVIOUS
  <2>2. row[c].status # "withdrawn" => part' = [part EXCEPT ![p] = new]
    BY <1>3 DEF Withdraw, Patch
  <2>3. row[c].status = "withdrawn" => part' = part
    BY DEF Withdraw
  <2> HIDE DEF new
  <2> QED
    BY <2>1, <2>2, <2>3, <1>1, <1>3 DEF TablesOK
<1>6. Gone(p)'
  BY <1>2, <1>3, <1>5 DEF Gone, Live
<1>7. ASSUME NEW q \in Speaker, q # p, Gone(q) PROVE Gone(q)'
  BY <1>7, <1>2, <1>4 DEF Gone, Live
<1> QED
  BY <1>2, <1>3, <1>6, <1>7

\* A request that takes away goes on to do so.
LEMMA TakingTidy ==
  ASSUME NEW c \in Call, InCourse(c), UNCHANGED <<session, links, part, task, startVars>>,
         pc[c] \in Leaving, pc'[c] \in {"unlink", "cancel"} \union Clearing,
         \A p \in Pending(c) : p \in todo'[c] \/ OnStage(p) \/ Gone(p),
         Exact(c)'
  PROVE  Tidied(c)'
<1>1. Busy(c)' /\ Pending(c)' = todo'[c] /\ \A s \in Submission : ~Making(c, s)
  BY DEF InCourse, Busy, Underway, Pending, Making
<1>2. PeopleTidy(c)' /\ StagesTidy(c)'
  BY <1>1, QuietPeople, QuietStages DEF InCourse, Tidied
<1> QED
  BY <1>2 DEF Tidied

LEMMA TakingSteps ==
  ASSUME NEW c \in Call, InCourse(c),
         \/ ListLinked(c) \/ \E p \in Speaker : ListSessions(c, p)
         \/ \E x \in Session : LookForLink(c, x)
         \/ ListTasks(c) \/ FindLeaving(c)
  PROVE  Tidied(c)'
<1>1. Order /\ Place(c) /\ Facing(c) /\ pc[c] \in {"crew"} \union Clearing
  BY DEF InCourse, Order, Tidied, Exact, ListLinked, ListSessions, LookForLink, ListTasks, FindLeaving
<1>2. ~Direct(c) /\ ~Accepts(c) /\ SoloTaken(c)
  BY <1>1 DEF Place, InCourse, Accepts
<1>3. /\ UNCHANGED <<session, links, part, task, startVars>>
      /\ \/ pc[c] = "crew" /\ pc'[c] = "unlink" /\ todo'[c] = links[Sub(c)]
         \/ /\ pc[c] \in Clearing /\ pc'[c] \in Clearing
            /\ \A p \in todo[c] : p \in todo'[c] \/ OnStage(p)
      /\ Facing(c)'
  BY <1>1, <1>2, FreeingSteps DEF SoloTaken
<1>4. Direct(c)' = Direct(c) /\ Sub(c)' = Sub(c)
  BY <1>1, <1>3, SameAsked
<1>5. Exact(c)'
  BY <1>2, <1>3, <1>4 DEF Exact
<1>6. \A p \in Pending(c) : p \in todo'[c] \/ OnStage(p)
  BY <1>3 DEF Pending
<1> QED
  BY <1>3, <1>5, <1>6, TakingTidy

\* Those that write: the link goes,
LEMMA UnlinkTidy ==
  ASSUME NEW c \in Call, InCourse(c), Unlink(c) \/ Cancel(c) PROVE Tidied(c)'
<1>1. Order /\ CallsOK /\ Place(c) /\ Exact(c) /\ TablesOK /\ Tidied(c)
  BY DEF InCourse, Order, TypeOK, Tidied
<1>2. /\ pc[c] \in {"unlink", "cancel"} /\ pc'[c] \in {"cancel", "free"}
      /\ UNCHANGED <<part, task, startVars>> /\ UNCHANGED localVars
  BY <1>1 DEF Unlink, Cancel, Goto, CallsOK
<1>3. ~Direct(c) /\ ~Accepts(c) /\ SoloTaken(c) /\ Sub(c) \in Session
  BY <1>1, <1>2, Sees DEF Place, InCourse, Accepts
<1>4. Direct(c)' = Direct(c) /\ Sub(c)' = Sub(c)
  BY <1>1, <1>2, SameAsked
<1>5. /\ Busy(c)' /\ Pending(c) = todo[c] /\ Pending(c)' = todo[c]
      /\ \A s \in Submission : ~Making(c, s)
  BY <1>2 DEF Busy, Underway, Pending, Making, localVars
<1>6. /\ links'[Sub(c)] = {}
      /\ \A x \in Session : x # Sub(c) => session'[x] = session[x] /\ links'[x] = links[x]
      /\ \A p \in links[Sub(c)] : p \in todo[c]
  <2>1. CASE Unlink(c)
    BY <2>1, <1>1, <1>3 DEF Unlink, TablesOK, Exact, Facing
  <2>2. CASE Cancel(c)
    BY <2>2, <1>1, <1>3 DEF Cancel, TablesOK, SoloTaken
  <2> QED
    BY <2>1, <2>2
<1>7. PeopleTidy(c)'
  <2>1. ASSUME NEW p \in Speaker, OnStage(p) PROVE OnStage(p)' \/ p \in todo[c]
    BY <2>1, <1>6 DEF OnStage
  <2> QED
    BY <2>1, <1>1, <1>2, <1>5, SameGone DEF Tidied, PeopleTidy
<1>8. StagesTidy(c)'
  <2>1. ASSUME NEW s \in Submission PROVE Standing(s)'
    <3>1. CASE s = Sub(c)
      BY <3>1, <1>6 DEF Standing
    <3>2. CASE s # Sub(c)
      <4>1. Standing(s)
        BY <1>1, <1>5 DEF Tidied, StagesTidy
      <4> QED
        BY <4>1, <3>2, <1>2, <1>6 DEF Standing, Stands, Live, Session
    <3> QED
      BY <3>1, <3>2
  <2> QED
    BY <2>1 DEF StagesTidy
<1>9. Exact(c)'
  BY <1>2, <1>3, <1>4 DEF Exact, Facing
<1> QED
  BY <1>7, <1>8, <1>9 DEF Tidied

\* the tasks of who is on no stage any more,
LEMMA CancelTaskTidy ==
  ASSUME NEW c \in Call, InCourse(c), NEW l \in listed[c], CancelTask(c, l) PROVE Tidied(c)'
<1>1. Order /\ Place(c) /\ Aim(c) /\ Exact(c) /\ Facing(c) /\ Tidied(c)
  BY DEF InCourse, Order, Tidied, Exact
<1>2. /\ pc[c] = "cancelling" /\ UNCHANGED <<session, links, part, startVars, pc, todo, who>>
      /\ Facing(c)' /\ \A p \in Speaker : Gone(p) => Gone(p)'
  BY <1>1, FreeingTask
<1>3. ~Direct(c) /\ Direct(c)' = Direct(c)
  BY <1>1, <1>2, SameAsked DEF Place
<1>4. /\ Busy(c)' /\ Pending(c)' = Pending(c) /\ \A s \in Submission : ~Making(c, s)
  BY <1>2 DEF InCourse, Busy, Underway, Pending, Making
<1>5. Holds(c) /\ ~OnStage(who[c])
  BY <1>1, <1>2, Kept DEF Command, Facing
<1>6. PeopleTidy(c)'
  BY <1>1, <1>2, <1>4, SameStage DEF Tidied, PeopleTidy
<1>7. StagesTidy(c)'
  <2>1. ASSUME NEW s \in Submission PROVE Standing(s)'
    BY <1>1, <1>2, <1>4, <1>5, StandingOn DEF Tidied, StagesTidy
  <2> QED
    BY <2>1 DEF StagesTidy
<1>8. Exact(c)'
  BY <1>2, <1>3 DEF Exact
<1> QED
  BY <1>6, <1>7, <1>8 DEF Tidied

\* his participation,
LEMMA WithdrawTidy ==
  ASSUME NEW c \in Call, InCourse(c), Withdraw(c) PROVE Tidied(c)'
<1>1. Order /\ Place(c) /\ Facing(c) /\ Tidied(c)
  BY DEF InCourse, Order, Tidied, Exact
<1>2. /\ pc[c] = "withdraw" /\ pc'[c] = "free" /\ todo'[c] = todo[c] \ {who[c]}
      /\ UNCHANGED <<session, links, task, startVars>> /\ ~OnStage(who[c])
      /\ \A p \in Speaker : p = who[c] \/ Gone(p) => Gone(p)'
  BY <1>1, FreeingSpeaker
<1>3. ~Direct(c) /\ Direct(c)' = Direct(c)
  BY <1>1, <1>2, SameAsked DEF Place
<1>4. /\ Busy(c)' /\ Pending(c) = todo[c] /\ Pending(c)' = todo[c] \ {who[c]}
      /\ \A s \in Submission : ~Making(c, s)
  BY <1>2 DEF InCourse, Busy, Underway, Pending, Making
<1>5. Holds(c)
  BY <1>1, Kept DEF Command
<1>6. PeopleTidy(c)'
  BY <1>1, <1>2, <1>4, SameStage DEF Tidied, PeopleTidy
<1>7. StagesTidy(c)'
  <2>1. ASSUME NEW s \in Submission PROVE Standing(s)'
    BY <1>1, <1>2, <1>4, <1>5, StandingOn DEF Tidied, StagesTidy
  <2> QED
    BY <2>1 DEF StagesTidy
<1>8. Exact(c)'
  BY <1>2, <1>3 DEF Exact, Facing
<1> QED
  BY <1>6, <1>7, <1>8 DEF Tidied

\* and the next one, until nobody is left.
LEMMA EndFreeTidy ==
  ASSUME NEW c \in Call, InCourse(c), EndFree(c) PROVE Tidied(c)'
<1>1. Order /\ CallsOK /\ Place(c) /\ Tidied(c)
  BY DEF InCourse, Order, TypeOK, Tidied
<1>2. /\ pc[c] = "free" /\ todo[c] = {} /\ pc'[c] \in {"ensure", "upsert"}
      /\ UNCHANGED <<session, links, part, task, startVars>>
  BY <1>1 DEF EndFree, Goto, CallsOK, Finish, tables
<1>3. Pending(c) = {} /\ \A s \in Submission : ~Making(c, s)
  BY <1>2 DEF Pending, Making
<1>4. PeopleTidy(c)' /\ StagesTidy(c)'
  BY <1>1, <1>2, <1>3, QuietPeople, QuietStages DEF Tidied
<1>5. Exact(c)'
  BY <1>1, <1>2, SameAsked DEF Exact, Facing, Place
<1> QED
  BY <1>4, <1>5 DEF Tidied

-----------------------------------------------------------------------------
(* One request after the other *)

\* A request begins.
LEMMA RecordTidy ==
  ASSUME Order, NEW c \in Call, Tidied(c), NEW s \in Submission, NEW d \in Decision,
         NEW r \in Reason, NEW v \in Expected, Record(c, s, d, r, v)
  PROVE  Tidied(c)'
<1>1. CallsOK /\ HistoryOK
  BY DEF Order, TypeOK
<1>2. pc[c] = "start" /\ pc'[c] = "decision" /\ UNCHANGED <<session, links, part, task>>
  BY <1>1 DEF Record, Begin, Goto, CallsOK, tables
<1>3. ~Busy(c)
  BY <1>2 DEF Busy, Underway
<1>4. PeopleTidy(c)' /\ StagesTidy(c)'
  BY <1>2, <1>3, QuietPeople, QuietStages DEF Tidied
<1>5. ~Direct(c)'
  <2> DEFINE ask == [submission |-> s, decision |-> d, reason |-> r, expected |-> v]
  <2>1. ask.submission # None /\ request'[c] = ask
    BY <1>1, NoneAssumption DEF Record, Begin, HistoryOK
  <2> QED
    BY <2>1 DEF Direct
<1>6. Exact(c)'
  BY <1>2, <1>5 DEF Exact, Facing
<1> QED
  BY <1>4, <1>6 DEF Tidied

LEMMA CreateDirectTidy ==
  ASSUME Order, NEW c \in Call, Tidied(c), Blank, NEW crew \in SUBSET Speaker,
         CreateDirect(c, crew)
  PROVE  Tidied(c)'
<1>1. CallsOK /\ HistoryOK /\ TablesOK
  BY DEF Order, TypeOK
<1>2. /\ pc[c] = "start" /\ pc'[c] = "speakers" /\ todo'[c] = crew
      /\ UNCHANGED <<links, part, task>> /\ session' = [session EXCEPT ![c] = "confirmed"]
  BY <1>1, Looped DEF CreateDirect, Begin
<1>3. ~Busy(c) /\ links[c] = {} /\ c \in Session
  BY <1>2 DEF Busy, Underway, Blank, Session
<1>4. session'[c] = "confirmed" /\ \A x \in Session : x # c => session'[x] = session[x]
  BY <1>1, <1>2, <1>3 DEF TablesOK
<1>5. Direct(c)' /\ Crew(c)' = crew
  <2> DEFINE ask == [submission |-> None, speakers |-> crew]
  <2>1. ask.submission = None /\ ask.speakers = crew /\ request'[c] = ask
    BY <1>1 DEF CreateDirect, Begin, HistoryOK
  <2> HIDE DEF ask
  <2> QED
    BY <2>1 DEF Direct, Crew
<1>6. PeopleTidy(c)'
  <2>1. \A p \in Speaker : OnStage(p) => OnStage(p)'
    BY <1>2, <1>4 DEF OnStage
  <2> QED
    BY <2>1, <1>2, <1>3, SameGone DEF Tidied, PeopleTidy
<1>7. StagesTidy(c)'
  <2>1. ASSUME NEW s \in Submission PROVE Standing(s)'
    <3>1. Standing(s)
      BY <1>3 DEF Tidied, StagesTidy
    <3>2. session'[s] = session[s]
      BY <1>4, CallAssumption DEF Session
    <3> QED
      BY <3>1, <3>2, <1>2 DEF Standing, Stands, Live
  <2> QED
    BY <2>1 DEF StagesTidy
<1>8. Exact(c)'
  BY <1>2, <1>3, <1>4, <1>5 DEF Exact, Facing
<1> QED
  BY <1>6, <1>7, <1>8 DEF Tidied

\* Few steps write a link, one kills, none is the portal.
LEMMA LinkOrDeath ==
  ASSUME Order, NEW c \in Call, Command(c)
  PROVE  (InsertLink(c) \/ Unlink(c) \/ UNCHANGED links) /\ (Die(c) \/ UNCHANGED crashes)
         /\ UNCHANGED portal
<1>1. ASSUME NEW s \in Submission, NEW d \in Decision, NEW r \in Reason, NEW v \in Expected,
             Record(c, s, d, r, v)
      PROVE  UNCHANGED <<links, crashes, portal>>
  BY <1>1 DEF Record, Begin, tables, boundVars
<1>2. ASSUME NEW crew \in SUBSET Speaker, CreateDirect(c, crew)
      PROVE  UNCHANGED <<links, crashes, portal>>
  BY <1>2 DEF CreateDirect, Begin, boundVars
<1>3. ASSUME ReadDecision(c) \/ Claim(c) \/ FindSession(c) \/ ConfirmSession(c)
             \/ WriteParticipation(c) \/ FindLink(c) \/ StartTasks(c) \/ WriteTask(c) \/ EndTasks(c)
      PROVE  UNCHANGED <<links, crashes, portal>>
  BY <1>3 DEF ReadDecision, Claim, FindSession, ConfirmSession, WriteParticipation, FindLink,
              StartTasks, WriteTask, EndTasks, tables, boundVars
<1>4. ASSUME NEW p \in Speaker, FindParticipation(c, p) \/ ListSessions(c, p)
      PROVE  UNCHANGED <<links, crashes, portal>>
  BY <1>4 DEF FindParticipation, ListSessions, Read, tables, boundVars
<1>5. ASSUME NEW t \in Task, FindTask(c, t) PROVE UNCHANGED <<links, crashes, portal>>
  BY <1>5 DEF FindTask, Read, tables, boundVars
<1>6. ASSUME NEW x \in Session, LookForLink(c, x) PROVE UNCHANGED <<links, crashes, portal>>
  BY <1>6 DEF LookForLink, tables, boundVars
<1>7. ASSUME NEW l \in listed[c], CancelTask(c, l) PROVE UNCHANGED <<links, crashes, portal>>
  BY <1>7 DEF CancelTask, boundVars
<1>11. CASE ListLinked(c)
  BY <1>11 DEF ListLinked, tables
<1>8. ASSUME Lookup(c) \/ Cancel(c) \/ ListTasks(c) \/ FindLeaving(c) \/ Withdraw(c)
             \/ EndFree(c) \/ Upsert(c) \/ WriteDecision(c) \/ EnsureAudit(c) \/ InsertAudit(c)
      PROVE  UNCHANGED <<links, crashes, portal>>
  BY <1>8 DEF Lookup, Cancel, ListTasks, FindLeaving, Read, Withdraw, EndFree,
              Upsert, WriteDecision, EnsureAudit, InsertAudit, tables, boundVars
<1>9. CASE InsertLink(c) \/ Unlink(c)
  BY <1>9 DEF InsertLink, Unlink, boundVars
<1>10. CASE Die(c)
  BY <1>10 DEF Die, tables
<1> QED
  BY <1>1, <1>2, <1>3, <1>4, <1>5, <1>6, <1>7, <1>8, <1>9, <1>10, <1>11 DEF Command

\* Blank is an invariant.
LEMMA BlankStep ==
  ASSUME Order, Blank, NEW c \in Call, Command(c) PROVE Blank'
<1>1. Sound(c) /\ TablesOK /\ Place(c)
  BY CommandSound DEF Order, TypeOK
<1>2. pc'[c] # "start"
  <2>1. CASE Opens(c)
    BY <2>1 DEF Opens
  <2>2. CASE c \in Underway /\ UNCHANGED startVars
    <3>1. request[c] # None /\ request' = request /\ Place(c)'
      BY <2>2, <1>1 DEF Underway, Place, startVars, Sound, At
    <3> QED
      BY <3>1 DEF Place
  <2> QED
    BY <2>1, <2>2, OpensOrGoesOn
<1>3. ASSUME NEW d \in Call, d # c PROVE links'[d] = links[d]
  <2>1. CASE InsertLink(c)
    <3>1. pc[c] = "link" /\ d \in Session
      BY <2>1 DEF InsertLink, Session
    <3>2. SessionOf(c) # d
      <4>1. CASE Direct(c)
        BY <4>1, <1>3 DEF SessionOf
      <4>2. CASE ~Direct(c)
        BY <4>2, <3>1, Sees, CallAssumption
      <4> QED
        BY <4>1, <4>2
    <3> QED
      BY <2>1, <3>1, <3>2, <1>1 DEF InsertLink, TablesOK
  <2>2. CASE Unlink(c)
    <3>1. pc[c] = "unlink" /\ ~Direct(c) /\ d \in Session
      BY <2>2, <1>1 DEF Unlink, Place, Session
    <3>2. Sub(c) # d
      BY <3>1, Sees, CallAssumption
    <3> QED
      BY <2>2, <3>1, <3>2, <1>1 DEF Unlink, TablesOK
  <2> QED
    BY <2>1, <2>2, LinkOrDeath
<1> QED
  BY <1>1, <1>2, <1>3 DEF Blank, Sound, Still

\* Calm now, calm before, with one request under way at most:
LEMMA CalmBefore ==
  ASSUME Achieved, NEW c \in Call, Command(c), Calm'
  PROVE  /\ Calm /\ ~Die(c) /\ Underway' \subseteq {c}
         /\ Underway = {} \/ Underway = {c}
         /\ Opens(c) => Underway = {}
         /\ ~Opens(c) => Underway = {c} /\ UNCHANGED startVars
<1>1. Order /\ Alone /\ crashes \in Nat /\ \A d \in Call \ {c} : Still(d)
  BY CommandSound DEF Achieved, Order, TypeOK, HistoryOK, Sound
<1>2. ~Die(c) /\ crashes = 0
  <2>1. Die(c) => crashes' = crashes + 1
    BY DEF Die
  <2>2. crashes + 1 # 0
    BY <1>1
  <2> QED
    BY <2>1, <2>2, LinkOrDeath, <1>1 DEF Calm
<1>3. CASE Opens(c)
  <2>1. solo'[c]
    BY <1>3 DEF Opens, Calm, Serial
  <2>2. Underway = {}
    BY <2>1, <1>3 DEF Opens
  <2>3. Serial
    <3>1. ASSUME NEW d \in Call, request[d] # None PROVE solo[d]
      <4>1. d # c /\ request'[d] = request[d]
        BY <3>1, <1>1, <1>3 DEF Opens, Still
      <4> QED
        BY <4>1, <3>1, <1>3 DEF Opens, Calm, Serial
    <3> QED
      BY <3>1 DEF Serial
  <2> QED
    BY <2>2, <2>3, <1>1, <1>2, <1>3 DEF Calm, Underway, Still
<1>4. CASE c \in Underway /\ UNCHANGED startVars
  <2>1. Serial /\ request[c] # None
    BY <1>1, <1>4 DEF Calm, Serial, startVars, Order, Place, Underway
  <2>2. Underway = {c}
    BY <2>1, <1>1, <1>4 DEF Alone, Serial, Underway
  <2>3. ~Opens(c)
    BY <1>4 DEF Opens, Underway
  <2> QED
    BY <2>1, <2>2, <2>3, <1>1, <1>2, <1>4 DEF Calm, Underway, Still
<1> QED
  BY <1>1, <1>3, <1>4, OpensOrGoesOn

\* with one request at most under way
LEMMA Narrow ==
  ASSUME Calm, NEW c \in Call, Underway = {} \/ Underway = {c}
  PROVE  Tidy <=> Tidied(c)
<1>1. CASE Underway = {}
  BY <1>1 DEF Tidy, Tidied, PeopleTidy, StagesTidy, Busy
<1>2. CASE Underway = {c}
  BY <1>2 DEF Tidy, Tidied, PeopleTidy, StagesTidy, Busy
<1> QED
  BY <1>1, <1>2

\* so Tidy holds after every step.
LEMMA TidyCommand ==
  ASSUME Achieved, Tidy, Blank, NEW c \in Call, Command(c) PROVE Tidy'
<1>1. ASSUME Calm' PROVE Tidied(c)'
  <2>1. Order /\ Calm /\ ~Die(c) /\ Tidied(c)
    BY <1>1, CalmBefore, Narrow DEF Achieved
  <2>2. CASE Opens(c)
    <3>1. pc[c] = "start"
      BY <2>2 DEF Opens
    <3>2. (\E s \in Submission, d \in Decision, r \in Reason, v \in Expected : Record(c, s, d, r, v))
          \/ \E crew \in SUBSET Speaker : CreateDirect(c, crew)
      <4>1. ASSUME NEW p \in Speaker, FindParticipation(c, p) \/ ListSessions(c, p) PROVE FALSE
        BY <3>1, <4>1 DEF FindParticipation, ListSessions
      <4>2. ASSUME NEW t \in Task, FindTask(c, t) PROVE FALSE
        BY <3>1, <4>2 DEF FindTask
      <4>3. ASSUME NEW x \in Session, LookForLink(c, x) PROVE FALSE
        BY <3>1, <4>3 DEF LookForLink
      <4>4. ASSUME NEW l \in listed[c], CancelTask(c, l) PROVE FALSE
        BY <3>1, <4>4 DEF CancelTask
      <4>5. ASSUME ReadDecision(c) \/ Claim(c) \/ FindSession(c) \/ ConfirmSession(c)
                   \/ WriteParticipation(c) \/ FindLink(c) \/ InsertLink(c)
                   \/ StartTasks(c) \/ WriteTask(c) \/ EndTasks(c)
            PROVE  FALSE
        BY <3>1, <4>5 DEF ReadDecision, Claim, FindSession, ConfirmSession, WriteParticipation,
                          FindLink, InsertLink, StartTasks, WriteTask, EndTasks
      <4>6. ASSUME Lookup(c) \/ ListLinked(c) \/ Unlink(c) \/ Cancel(c) \/ ListTasks(c)
                   \/ FindLeaving(c) \/ Withdraw(c) \/ EndFree(c) \/ Upsert(c) \/ WriteDecision(c)
                   \/ EnsureAudit(c) \/ InsertAudit(c)
            PROVE  FALSE
        BY <3>1, <4>6 DEF Lookup, ListLinked, Unlink, Cancel, ListTasks, FindLeaving, Withdraw,
                          EndFree, Upsert, WriteDecision, EnsureAudit, InsertAudit
      <4> QED
        BY <2>1, <4>1, <4>2, <4>3, <4>4, <4>5, <4>6 DEF Command
    <3> QED
      BY <3>2, <2>1, RecordTidy, CreateDirectTidy
  <2>3. CASE ~Opens(c)
    <3>1. c \in Underway /\ Place(c) /\ pc[c] \notin {"start", "done"}
      BY <2>1, <2>3, <1>1, CalmBefore DEF Underway, Order
    <3>2. solo[c]
      BY <3>1, <2>1 DEF Calm, Serial, Place
    <3>3. InCourse(c)
      BY <3>1, <3>2, <2>1 DEF InCourse, Busy, Achieved, Advanced
    <3>4. ASSUME NEW r, Begin(c, r) PROVE FALSE
      BY <3>1, <3>4 DEF Begin
    <3>5. ASSUME NEW s \in Submission, NEW d \in Decision, NEW r \in Reason, NEW v \in Expected,
                 Record(c, s, d, r, v)
          PROVE  FALSE
      BY <3>4, <3>5 DEF Record
    <3>6. ASSUME NEW crew \in SUBSET Speaker, CreateDirect(c, crew) PROVE FALSE
      BY <3>4, <3>6 DEF CreateDirect
    <3> QED
      BY <2>1, <3>3, <3>5, <3>6, OutsideSteps, CastingSteps, ConfirmTidy, ParticipationTidy, LinkTidy,
         TaskTidy, EndTasksTidy, TakingSteps, UnlinkTidy, CancelTaskTidy, WithdrawTidy, EndFreeTidy
      DEF Command
  <2> QED
    BY <2>2, <2>3
<1>2. ASSUME Calm' PROVE (Underway = {} \/ Underway = {c})'
  BY <1>2, CalmBefore
<1>3. ASSUME Calm' PROVE Tidy'
  <2>1. CASE Underway' = {}
    BY <2>1, <1>1, <1>3 DEF Tidy, Tidied, PeopleTidy, StagesTidy, Busy
  <2>2. CASE Underway' = {c}
    BY <2>2, <1>1, <1>3 DEF Tidy, Tidied, PeopleTidy, StagesTidy, Busy
  <2> QED
    BY <2>1, <2>2, <1>2, <1>3
<1> QED
  BY <1>3 DEF Tidy

LEMMA TidyPortal ==
  ASSUME Achieved, Tidy, Blank, \/ \E t \in Task : CompleteTask(t)
                                \/ \E p \in Speaker : UpdateProfile(p)
  PROVE  Tidy' /\ Blank'
<1>1. /\ UNCHANGED <<session, links, pc, request, crashes>>
      /\ solo' = [c \in Call |-> solo[c] /\ c \notin Underway]
  BY DEF CompleteTask, UpdateProfile, Interfere
<1>2. Order
  BY DEF Achieved
<1>3. /\ \A p \in Speaker : Here(p) => Here(p)'
      /\ \A p \in Speaker : Known(p)' => Known(p)
      /\ \A t \in Task : Live(t) => Live(t)'
      /\ \A t \in Task : Live(t)' => Live(t)
      /\ \A p \in Speaker : Known(p) => part'[p].status = part[p].status
  BY <1>2, PortalKeeps
<1>4. ASSUME Calm' PROVE Calm /\ Underway' = {} /\ Underway = {}
  <2>1. ASSUME NEW d \in Call, request[d] # None PROVE solo[d] /\ d \notin Underway
    BY <2>1, <1>1, <1>4 DEF Calm, Serial
  <2>2. \A d \in Underway : request[d] # None
    BY <1>2 DEF Order, Place, Underway
  <2>3. Underway = {}
    BY <2>1, <2>2 DEF Underway
  <2> QED
    BY <2>1, <2>3, <1>1, <1>4 DEF Calm, Serial, Underway
<1>5. ASSUME Calm' PROVE Tidy'
  <2>1. (\A p \in Speaker : OnStage(p) \/ Gone(p)) /\ \A s \in Submission : Standing(s)
    BY <1>4, <1>5 DEF Tidy
  <2>2. ASSUME NEW p \in Speaker, Gone(p) PROVE Gone(p)'
    <3>1. \A t \in Template \X {p} : t \in Task
      BY DEF Task
    <3> QED
      BY <3>1, <2>2, <1>3 DEF Gone, Known
  <2>3. ASSUME NEW s \in Submission PROVE Standing(s)'
    <3>1. ASSUME NEW p \in links[s], session[s] = "confirmed" PROVE Stands(p)'
      <4>1. Stands(p) /\ p \in Speaker
        BY <3>1, <2>1, <1>2 DEF Standing, Order, TypeOK, TablesOK, Session
      <4>2. \A t \in Template \X {p} : t \in Task
        BY <4>1 DEF Task
      <4>3. Here(p)'
        BY <4>1, <1>3 DEF Stands, Here, Known
      <4>4. \A t \in Template \X {p} : Live(t)'
        BY <4>1, <4>2, <1>3 DEF Stands
      <4> QED
        BY <4>3, <4>4 DEF Stands, Here, Known
    <3> QED
      BY <3>1, <1>1 DEF Standing
  <2> QED
    BY <2>1, <2>2, <2>3, <1>1, <1>4, <1>5, SameStage DEF Tidy
<1> QED
  BY <1>1, <1>5 DEF Tidy, Blank

LEMMA TidyStutter == ASSUME Tidy, Blank, UNCHANGED vars PROVE Tidy' /\ Blank'
<1> USE DEF vars, tables, localVars, startVars, boundVars
<1>1. /\ Calm' = Calm /\ Underway' = Underway
      /\ \A p \in Speaker : OnStage(p)' = OnStage(p) /\ Gone(p)' = Gone(p)
      /\ \A s \in Submission : Standing(s)' = Standing(s)
  BY SameStage, SameGone DEF Calm, Serial, Underway, Standing, Stands, Live
<1>2. \A c \in Call : /\ Pending(c)' = Pending(c) /\ Exact(c)' = Exact(c)
                      /\ \A s \in Submission : Making(c, s)' = Making(c, s)
  BY DEF Pending, Crew, Exact, Facing, Making, Direct, Sub, SessionOf, OnStage, Live
<1> QED
  BY <1>1, <1>2 DEF Tidy, Blank, Underway

LEMMA TidyInit == ASSUME Init PROVE Tidy /\ Blank
BY DEF Init, Tidy, Blank, Gone, Known, Live, Task, Standing, Session, Underway

\* At rest, it says what the properties say.
LEMMA TidyMeans ==
  ASSUME Tidy PROVE NobodyLeftBehind /\ AuthorsStand
<1>1. ASSUME Undisturbed PROVE /\ \A p \in Speaker : OnStage(p) \/ Gone(p)
                               /\ \A s \in Submission : Standing(s)
  BY <1>1 DEF Undisturbed, AtRest, Tidy, Calm
<1> QED
  BY <1>1 DEF NobodyLeftBehind, AuthorsStand

(* Where requests have not overlapped each other or the portal, and none  *)
(* has died, at rest nobody keeps a participation or a task without a      *)
(* confirmed session (dematerializeAccept),                                *)
THEOREM OneAfterTheOther == Spec => []NobodyLeftBehind
<1>1. Init => Achieved /\ Tidy /\ Blank
  BY AchievedInit, TidyInit
<1>2. Achieved /\ Tidy /\ Blank /\ [Next]_vars => Achieved' /\ Tidy' /\ Blank'
  BY AchievedStep, TidyCommand, BlankStep, TidyPortal, TidyStutter DEF Next, Achieved
<1>3. Tidy => NobodyLeftBehind
  BY TidyMeans
<1> QED
  BY <1>1, <1>2, <1>3, PTL DEF Spec

(* and nobody on the confirmed session of a submission has lost them to    *)
(* the decision about another (commands.ts:430).                           *)
THEOREM StageKept == Spec => []AuthorsStand
<1>1. Init => Achieved /\ Tidy /\ Blank
  BY AchievedInit, TidyInit
<1>2. Achieved /\ Tidy /\ Blank /\ [Next]_vars => Achieved' /\ Tidy' /\ Blank'
  BY AchievedStep, TidyCommand, BlankStep, TidyPortal, TidyStutter DEF Next, Achieved
<1>3. Tidy => AuthorsStand
  BY TidyMeans
<1> QED
  BY <1>1, <1>2, <1>3, PTL DEF Spec

-----------------------------------------------------------------------------
(* Whom a rejection frees *)

\* Speaker p is on a stage, or holds nothing.
Cleared(p) == OnStage(p) \/ Gone(p)

\* Where a request may be that has taken speakers off its session
Behind == {"unlink", "cancel"} \union Clearing \union Recording \union {"done"}

\* Those that request c took off and is done with are cleared.
Spent(c) ==
  /\ pc[c] \in {"unlink", "cancel"} => freed[Sub(c)] \subseteq todo[c]
  /\ pc[c] \in Clearing => \A p \in freed[Sub(c)] \ todo[c] : Cleared(p)
  /\ pc[c] \in Recording \/ answer[c] = "ok" => \A p \in freed[Sub(c)] : Cleared(p)
  /\ Facing(c)

\* As long as no other request begins, and if none was under way
Freed(s) ==
  LET c == latest[s] IN
  freed[s] # {} /\ c # None /\ solo[c] => Underway \subseteq {c} /\ pc[c] \in Behind /\ Spent(c)

\* The inductive invariant behind AnsweredMeansApplied
Released == AllSettled /\ \A s \in Submission : Freed(s)

\* The steps of a request that has taken speakers off:
LEMMA BehindSteps ==
  ASSUME NEW c \in Call, Command(c), c \in Underway, pc[c] \in Behind
  PROVE  \/ Unlink(c) \/ Cancel(c)
         \/ (\E p \in Speaker : ListSessions(c, p)) \/ (\E x \in Session : LookForLink(c, x))
         \/ ListTasks(c) \/ FindLeaving(c)
         \/ (\E l \in listed[c] : CancelTask(c, l)) \/ Withdraw(c)
         \/ EndFree(c) \/ Upsert(c) \/ WriteDecision(c) \/ EnsureAudit(c) \/ InsertAudit(c) \/ Die(c)
<1> USE DEF Behind, Clearing, Recording, Underway
<1>1. ASSUME NEW s \in Submission, NEW d \in Decision, NEW r \in Reason, NEW v \in Expected,
             Record(c, s, d, r, v)
      PROVE  FALSE
  BY <1>1 DEF Record, Begin
<1>2. ASSUME NEW crew \in SUBSET Speaker, CreateDirect(c, crew) PROVE FALSE
  BY <1>2 DEF CreateDirect, Begin
<1>3. ASSUME NEW p \in Speaker, FindParticipation(c, p) PROVE FALSE
  BY <1>3 DEF FindParticipation
<1>4. ASSUME NEW t \in Task, FindTask(c, t) PROVE FALSE
  BY <1>4 DEF FindTask
<1>5. ~ReadDecision(c) /\ ~Claim(c) /\ ~FindSession(c) /\ ~ConfirmSession(c)
      /\ ~WriteParticipation(c) /\ ~FindLink(c) /\ ~InsertLink(c)
  BY DEF ReadDecision, Claim, FindSession, ConfirmSession, WriteParticipation, FindLink, InsertLink
<1>6. ~StartTasks(c) /\ ~WriteTask(c) /\ ~EndTasks(c) /\ ~Lookup(c) /\ ~ListLinked(c)
  BY DEF StartTasks, WriteTask, EndTasks, Lookup, ListLinked
<1> QED
  BY <1>1, <1>2, <1>3, <1>4, <1>5, <1>6 DEF Command

\* Those that touch no speaker
LEMMA QuietSpent ==
  ASSUME NEW c \in Call, Order, c \in Underway, Spent(c), pc[c] \in {"free"} \union Recording,
         pc[c] = "free" => todo[c] = {},
         UNCHANGED <<session, links, part, task, startVars, freed>>, ~Direct(c),
         pc'[c] \in Recording \/ pc'[c] = "done",
         pc'[c] \in Recording => answer'[c] = answer[c]
  PROVE  Spent(c)'
<1>1. Sub(c)' = Sub(c)
  BY SameAsked
<1>2. \A p \in Speaker : Cleared(p)' = Cleared(p)
  BY SameStage, SameGone DEF Cleared
<1>3. freed[Sub(c)] \subseteq Speaker
  BY Sees DEF Order, TypeOK, HistoryOK, Place, Underway
<1>4. \A p \in freed[Sub(c)] : Cleared(p)
  BY DEF Spent, Clearing
<1> QED
  BY <1>1, <1>2, <1>3, <1>4 DEF Spent, Facing, Clearing, Recording

\* Its own steps keep Spent,
LEMMA SpentOn ==
  ASSUME NEW c \in Call, Order, Command(c), c \in Underway, pc[c] \in Behind, ~Direct(c),
         Spent(c), SoloTaken(c)
  PROVE  pc'[c] \in Behind /\ Spent(c)' /\ freed' = freed
<1>1. CallsOK /\ Place(c) /\ Aim(c) /\ pc[c] # "done" /\ Sub(c) \in Submission /\ answer[c] = None
  BY Sees DEF Order, TypeOK, Underway, Place
<1>2. freed[Sub(c)] \subseteq Speaker
  BY <1>1 DEF Order, TypeOK, HistoryOK
<1>3. ~Accepts(c)  \/ pc[c] \in Recording
  BY <1>1 DEF Place, Behind, Leaving, Accepts
<1>4. CASE Unlink(c) \/ Cancel(c)
  <2>1. /\ pc[c] \in {"unlink", "cancel"} /\ pc'[c] \in {"cancel", "free"} /\ todo' = todo
        /\ UNCHANGED <<startVars, freed>> /\ answer' = answer
    BY <1>1, <1>4 DEF Unlink, Cancel, Goto, CallsOK, localVars, boundVars
  <2>2. Sub(c)' = Sub(c)
    BY <2>1, SameAsked
  <2> QED
    BY <2>1, <2>2, <1>1, NoneAssumption DEF Spent, Facing, Behind, Clearing, Recording
<1>5. CASE \/ \E p \in Speaker : ListSessions(c, p)
           \/ \E x \in Session : LookForLink(c, x)
           \/ ListTasks(c) \/ FindLeaving(c)
  <2>1. pc[c] \in Clearing
    BY <1>5 DEF ListSessions, LookForLink, ListTasks, FindLeaving, Clearing
  <2>2. links[Sub(c)] = {} /\ Facing(c)
    BY <2>1, <1>3 DEF SoloTaken, Clearing, Recording, Spent
  <2>3. /\ UNCHANGED <<session, links, part, task, startVars>>
        /\ pc'[c] \in Clearing /\ freed' = freed
        /\ \A p \in todo[c] : p \in todo'[c] \/ OnStage(p)
        /\ Facing(c)'
    BY <2>1, <2>2, <1>5, FreeingSteps DEF Clearing
  <2>4. answer' = answer
    BY <1>5 DEF ListSessions, LookForLink, ListTasks, FindLeaving, Read
  <2>5. Sub(c)' = Sub(c)
    BY <2>3, SameAsked
  <2>6. ASSUME NEW p \in freed[Sub(c)], p \notin todo'[c] PROVE Cleared(p)'
    <3>1. Cleared(p)
      BY <2>1, <2>3, <2>6 DEF Spent, Cleared
    <3> QED
      BY <3>1, <2>3, <1>2, SameStage, SameGone DEF Cleared
  <2> QED
    BY <2>3, <2>4, <2>5, <2>6, <1>1, NoneAssumption DEF Spent, Behind, Clearing, Recording
<1>6. ASSUME NEW l \in listed[c], CancelTask(c, l)
      PROVE  pc'[c] \in Behind /\ Spent(c)' /\ freed' = freed
  <2>1. /\ UNCHANGED <<session, links, part, startVars, freed, pc, todo, who>>
        /\ pc[c] = "cancelling" /\ (\A p \in Speaker : Gone(p) => Gone(p)') /\ Facing(c)'
    BY <1>6, FreeingTask DEF Spent
  <2>2. answer' = answer /\ Sub(c)' = Sub(c)
    BY <2>1, <1>6, SameAsked DEF CancelTask
  <2>3. ASSUME NEW p \in freed[Sub(c)], p \notin todo[c] PROVE Cleared(p)'
    BY <2>1, <2>3, <1>2, SameStage DEF Spent, Cleared, Clearing
  <2> QED
    BY <2>1, <2>2, <2>3, <1>1, NoneAssumption DEF Spent, Behind, Clearing, Recording
<1>7. CASE Withdraw(c)
  <2>1. /\ pc[c] = "withdraw" /\ pc'[c] = "free" /\ todo'[c] = todo[c] \ {who[c]}
        /\ UNCHANGED <<session, links, task, startVars, freed>>
        /\ \A p \in Speaker : p = who[c] \/ Gone(p) => Gone(p)'
    BY <1>7, FreeingSpeaker DEF Spent
  <2>2. answer' = answer /\ Sub(c)' = Sub(c)
    BY <2>1, <1>7, SameAsked DEF Withdraw
  <2>3. ASSUME NEW p \in freed[Sub(c)], p \notin todo'[c] PROVE Cleared(p)'
    BY <2>1, <2>3, <1>2, SameStage DEF Spent, Cleared, Clearing
  <2> QED
    BY <2>1, <2>2, <2>3, <1>1, NoneAssumption DEF Spent, Facing, Behind, Clearing, Recording
<1>8. CASE EndFree(c)
  <2>1. /\ pc[c] = "free" /\ todo[c] = {} /\ pc'[c] \in Recording /\ answer' = answer
        /\ UNCHANGED <<session, links, part, task, startVars, freed>>
    BY <1>1, <1>8 DEF EndFree, Goto, CallsOK, Finish, tables, localVars, boundVars, Recording
  <2> QED
    BY <2>1, QuietSpent DEF Behind
<1>9. CASE Upsert(c) \/ WriteDecision(c) \/ EnsureAudit(c) \/ InsertAudit(c)
  <2>1. /\ pc[c] \in Recording
        /\ UNCHANGED <<session, links, part, task, startVars, freed>>
    BY <1>9 DEF Upsert, WriteDecision, EnsureAudit, InsertAudit, Recording, tables, boundVars
  <2>2. \/ pc'[c] \in Recording /\ answer'[c] = answer[c]
        \/ pc'[c] = "done"
    BY <1>1, <1>9, Replied
    DEF Upsert, WriteDecision, EnsureAudit, InsertAudit, Recording, Goto, CallsOK, localVars
  <2> QED
    BY <2>1, <2>2, QuietSpent DEF Behind, Recording
<1>10. CASE Die(c)
  <2>1. pc'[c] = "done" /\ answer'[c] = "lost" /\ freed' = freed
    BY <1>1, <1>10, Replied DEF Die
  <2> QED
    BY <2>1 DEF Spent, Facing, Behind, Clearing, Recording
<1> QED
  BY <1>4, <1>5, <1>6, <1>7, <1>8, <1>9, <1>10, BehindSteps

\* the others do not touch the history,
LEMMA FreedAlone ==
  ASSUME Order, NEW c \in Call, Command(c), c \in Underway, ~ListLinked(c) PROVE freed' = freed
<1>1. pc[c] # "start"
  BY DEF Underway
<1>2. ASSUME NEW s \in Submission, NEW d \in Decision, NEW r \in Reason, NEW v \in Expected,
             Record(c, s, d, r, v)
      PROVE  FALSE
  BY <1>1, <1>2 DEF Record, Begin
<1>3. ASSUME NEW crew \in SUBSET Speaker, CreateDirect(c, crew) PROVE FALSE
  BY <1>1, <1>3 DEF CreateDirect, Begin
<1>4. ASSUME ReadDecision(c) \/ Claim(c) \/ FindSession(c) \/ ConfirmSession(c)
             \/ WriteParticipation(c) \/ FindLink(c) \/ StartTasks(c) \/ WriteTask(c) \/ EndTasks(c)
      PROVE  freed' = freed
  BY <1>4 DEF ReadDecision, Claim, FindSession, ConfirmSession, WriteParticipation, FindLink,
              StartTasks, WriteTask, EndTasks, boundVars
<1>5. ASSUME NEW p \in Speaker, FindParticipation(c, p) \/ ListSessions(c, p) PROVE freed' = freed
  BY <1>5 DEF FindParticipation, ListSessions, Read, boundVars
<1>6. ASSUME NEW t \in Task, FindTask(c, t) PROVE freed' = freed
  BY <1>6 DEF FindTask, Read, boundVars
<1>7. ASSUME NEW x \in Session, LookForLink(c, x) PROVE freed' = freed
  BY <1>7 DEF LookForLink, boundVars
<1>8. ASSUME NEW l \in listed[c], CancelTask(c, l) PROVE freed' = freed
  BY <1>8 DEF CancelTask, boundVars
<1>9. ASSUME InsertLink(c) \/ Unlink(c) \/ Lookup(c) \/ Cancel(c) \/ ListTasks(c) \/ FindLeaving(c)
             \/ Withdraw(c) \/ EndFree(c) \/ Upsert(c) \/ WriteDecision(c) \/ EnsureAudit(c)
             \/ InsertAudit(c) \/ Die(c)
      PROVE  freed' = freed
  BY <1>9 DEF InsertLink, Unlink, Lookup, Cancel, ListTasks, FindLeaving, Read, Withdraw, EndFree,
              Upsert, WriteDecision, EnsureAudit, InsertAudit, Die, boundVars
<1> QED
  BY <1>2, <1>3, <1>4, <1>5, <1>6, <1>7, <1>8, <1>9 DEF Command

\* so they and its beginning are all there is to it.
LEMMA FreedCommand ==
  ASSUME Released, NEW c \in Call, Command(c), NEW s \in Submission PROVE Freed(s)'
<1>1. Achieved /\ Succession /\ Order /\ Alone /\ Order'
  BY AchievedCommand DEF Released, AllSettled, Achieved
<1>2. CASE Opens(c)
  <2>1. ASSUME NEW r, Begin(c, r) PROVE freed'[s] = {}
    BY <2>1 DEF Begin
  <2>2. c \notin Underway
    BY <1>2 DEF Opens, Underway
  <2> QED
    BY <2>1, <2>2, <1>1, CommandKinds DEF Freed
<1>3. CASE c \in Underway /\ UNCHANGED startVars
  <2> PICK e : e = latest[s]
    OBVIOUS
  <2>1. latest'[s] = e /\ solo' = solo /\ \A d \in Call \ {c} : Still(d)
    BY <1>1, <1>3, CommandSound DEF startVars, Sound
  <2>2. Underway' \subseteq Underway
    BY <2>1, <1>3 DEF Underway, Still
  <2>3. e \in Call \union {None}
    BY <1>1 DEF Order, TypeOK, HistoryOK
  <2>4. CASE ListLinked(c) /\ Sub(c) = s
    <3>1. ~Direct(c) /\ freed'[s] = links[s] /\ links' = links
      BY <2>4, <1>1, Freeing DEF ListLinked, tables
    <3>2. Follows(c)
      BY <1>1, <1>3 DEF Succession
    <3>3. e # None /\ solo[e] => e = c
      BY <3>1, <3>2, <2>4 DEF Follows
    <3>4. ASSUME e # None, solo[e] PROVE Underway \subseteq {e} /\ pc'[e] \in Behind /\ Spent(e)'
      <4>1. Underway = {c} /\ e = c
        BY <3>3, <3>4, <1>1, <1>3 DEF Alone
      <4>2. pc'[c] = "unlink" /\ todo'[c] = links[s] /\ Sub(c)' = s
        BY <2>4, <1>1, <1>3, Looped, SameAsked DEF ListLinked, Order, TypeOK
      <4>3. answer'[c] # "ok"
        BY <4>2, <1>1, NoneAssumption DEF Order, Place
      <4> QED
        BY <4>1, <4>2, <4>3, <3>1 DEF Spent, Facing, Behind, Clearing, Recording
    <3> QED
      BY <3>4, <2>1, <2>2 DEF Freed
  <2>5. CASE ~(ListLinked(c) /\ Sub(c) = s)
    <3>1. freed'[s] = freed[s]
      BY <2>5, <1>1, <1>3, Freeing, FreedAlone
    <3>2. CASE freed[s] = {} \/ e = None \/ ~solo[e]
      BY <3>1, <3>2, <2>1 DEF Freed, Released
    <3>3. CASE freed[s] # {} /\ e \in Call /\ e # None /\ solo[e]
      <4>1. Underway \subseteq {e} /\ pc[e] \in Behind /\ Spent(e)
        BY <3>3 DEF Released, Freed
      <4>2. e = c /\ ~Direct(c) /\ Sub(c) = s
        BY <4>1, <3>3, <1>1, <1>3 DEF Succession, Newest
      <4>3. SoloTaken(c)
        BY <4>2, <3>3, <1>1, <1>3 DEF Achieved, Advanced, Underway
      <4>4. pc'[c] \in Behind /\ Spent(c)'
        BY <4>1, <4>2, <4>3, <1>1, <1>3, SpentOn
      <4> QED
        BY <4>1, <4>2, <4>4, <3>3, <2>1, <2>2 DEF Freed
    <3> QED
      BY <3>2, <3>3, <2>3
  <2> QED
    BY <2>4, <2>5
<1> QED
  BY <1>1, <1>2, <1>3, OpensOrGoesOn

\* A speaker in the portal makes nobody hold a place again.
LEMMA FreedPortal ==
  ASSUME Released, NEW s \in Submission, \/ \E t \in Task : CompleteTask(t)
                                         \/ \E p \in Speaker : UpdateProfile(p)
  PROVE  Freed(s)'
<1>1. /\ UNCHANGED <<session, links, pc, request, latest, freed, todo, answer>>
      /\ solo' = [c \in Call |-> solo[c] /\ c \notin Underway] /\ Underway' = Underway
  BY DEF CompleteTask, UpdateProfile, Interfere, localVars, Underway
<1>2. Order /\ Achieved
  BY DEF Released, AllSettled, Achieved
<1>3. /\ \A p \in Speaker : Known(p)' => Known(p)
      /\ \A t \in Task : Live(t)' => Live(t)
      /\ \A p \in Speaker : Known(p) => part'[p].status = part[p].status
  BY <1>2, PortalKeeps
<1>4. ASSUME NEW p \in Speaker, Cleared(p) PROVE Cleared(p)'
  <2>1. \A t \in Template \X {p} : t \in Task
    BY DEF Task
  <2> QED
    BY <2>1, <1>1, <1>3, <1>4, SameStage DEF Cleared, Gone, Known
<1> PICK e : e = latest[s]
  OBVIOUS
<1>5. CASE freed[s] # {} /\ solo'[e] /\ e \in Call /\ e # None
  <2>1. Underway \subseteq {e} /\ pc[e] \in Behind /\ Spent(e) /\ e \notin Underway
    BY <1>1, <1>5 DEF Released, Freed
  <2>2. pc[e] \in {"start", "done"}
    BY <2>1, <1>5 DEF Underway
  <2>3. Sub(e) = s /\ Sub(e)' = s
    BY <1>1, <1>5 DEF Released, AllSettled, Succession, Newest, Sub
  <2>4. freed[s] \subseteq Speaker
    BY <1>2 DEF Order, TypeOK, HistoryOK
  <2> QED
    BY <2>1, <2>2, <2>3, <2>4, <1>1, <1>4, <1>5 DEF Freed, Spent, Facing, Clearing, Recording
<1>6. e \in Call \union {None}
  BY <1>2 DEF Order, TypeOK, HistoryOK
<1> QED
  BY <1>1, <1>5, <1>6 DEF Freed

LEMMA FreedStutter ==
  ASSUME Released, UNCHANGED vars, NEW s \in Submission PROVE Freed(s)'
<1> USE DEF vars, tables, localVars, startVars, boundVars
<1>1. \A p : Cleared(p)' = Cleared(p)
  BY DEF Cleared, OnStage, Gone, Live
<1>2. \A c : Sub(c)' = Sub(c) /\ Facing(c)' = Facing(c)
  BY DEF Sub, Facing, OnStage, Live
<1>3. \A c : Spent(c)' = Spent(c)
  BY <1>1, <1>2 DEF Spent
<1> QED
  BY <1>3 DEF Released, Freed, Underway

\* It says what the property says.
LEMMA ReleasedMeansApplied == ASSUME Released PROVE AnsweredMeansApplied
<1>1. ASSUME NEW s \in Submission, Settled(s), ~Accepts(latest[s])
      PROVE  \A p \in freed[s] : OnStage(p) \/ Gone(p)
  <2> PICK e : e = latest[s]
    OBVIOUS
  <2>1. e # None /\ answer[e] = "ok" /\ solo[e]
    BY <1>1 DEF Settled, Answered
  <2>2. Sub(e) = s
    BY <2>1 DEF Released, AllSettled, Succession, Newest
  <2> QED
    BY <2>1, <2>2 DEF Released, Freed, Spent, Cleared
<1>2. ASSUME NEW s \in Submission, Settled(s) PROVE Applied(s)
  BY <1>2 DEF Released, AllSettled, Safe
<1> QED
  BY <1>1, <1>2 DEF Settled, Applied, AnsweredMeansApplied, Accepts, Told, Refused

(* The answer ok of the newest request on a submission that had the       *)
(* system to itself means that status, decision, audit entry and programme *)
(* are those it asked for, from then on until the next request on the      *)
(* submission, whatever is decided about others of the same speakers; and  *)
(* that those a rejection took off the session are on another one, or      *)
(* withdrawn with their tasks cancelled, until the next request at all.    *)
THEOREM MeansApplied == Spec => []AnsweredMeansApplied
<1>1. Init => Released
  BY AchievedInit, SuccessionInit DEF Init, AllSettled, Safe, Settled, Released, Freed
<1>2. Released /\ [Next]_vars => Released'
  BY SettledCommand, SettledPortal, SettledStutter, FreedCommand, FreedPortal, FreedStutter
  DEF Next, Released
<1>3. Released => AnsweredMeansApplied
  BY ReleasedMeansApplied
<1> QED
  BY <1>1, <1>2, <1>3, PTL DEF Spec
=============================================================================
