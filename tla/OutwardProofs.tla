--------------------------- MODULE OutwardProofs ----------------------------
(***************************************************************************)
(* What TLAPS proves about Outward, for any number of requests, of         *)
(* invocations and of mishaps: that each version of an event is announced  *)
(* once, that only two drains at once can make it a second record, what it *)
(* takes for an item of a programme to get a second one, and that no       *)
(* publication and no saving of the connection is lost on the way.         *)
(***************************************************************************)
EXTENDS Outward, FiniteSetTheorems, SequenceTheorems, TLAPS

Announcements == RowsOf("airtable")
Jobs == RowsOf("verify") \union RowsOf("project")

Types ==
  /\ configured \in BOOLEAN
  /\ step     = [c \in Request |-> step[c]]
  /\ outbox   \in [Request -> OutboxRow \union {None}]
  /\ pc       = [d \in Drain |-> pc[d]]
  /\ batch    \in [Drain -> SUBSET Request]
  /\ row      \in [Drain -> Request \union {None}]
  /\ version  \in Nat
  /\ author   \in Request \union {None}
  /\ expected \in [Request -> Nat]
  /\ base     \in Nat

\* A row changes, and stays the announcement or the job it is.
SameRows ==
  /\ outbox' \in [Request -> OutboxRow \union {None}]
  /\ \A c \in Request : /\ outbox'[c] = None <=> outbox[c] = None
                        /\ outbox[c] # None => /\ outbox'[c].topic = outbox[c].topic
                                               /\ outbox'[c].version = outbox[c].version

LEMMA SameSets ==
  ASSUME SameRows
  PROVE  \A t : RowsOf(t)' = RowsOf(t)
BY DEF SameRows, RowsOf

LEMMA NoChange ==
  ASSUME Types, UNCHANGED outbox
  PROVE  SameRows
BY DEF Types, SameRows

LEMMA RowChange ==
  ASSUME Types, NEW c \in Request, outbox[c] # None,
         NEW r \in OutboxRow, r.topic = outbox[c].topic, r.version = outbox[c].version,
         outbox' = [outbox EXCEPT ![c] = r]
  PROVE  SameRows
BY NoneAssumption DEF Types, SameRows

\* What the drains do to the rows
LEMMA ClaimRows ==
  ASSUME Types, NEW d \in Drain, NEW c \in Request, NEW l, outbox[c] # None, Claim(d, c, l)
  PROVE  SameRows
<1>1. outbox[c] \in OutboxRow
  BY DEF Types
<1>2. CASE UNCHANGED outbox
  BY <1>2, NoChange
<1>3. CASE outbox' = [outbox EXCEPT ![c].holder = d, ![c].live = TRUE]
  <2> DEFINE r == [outbox[c] EXCEPT !.holder = d, !.live = TRUE]
  <2>1. r \in OutboxRow /\ r.topic = outbox[c].topic /\ r.version = outbox[c].version
    BY <1>1 DEF OutboxRow
  <2>2. outbox' = [outbox EXCEPT ![c] = r]
    BY <1>3 DEF Types
  <2> QED
    BY <2>1, <2>2, RowChange
<1> QED
  BY <1>2, <1>3 DEF Claim

LEMMA LeaveRows ==
  ASSUME Types, NEW d \in Drain, row[d] # None, outbox[row[d]] # None,
         MarkProcessed(d) \/ MarkError(d)
  PROVE  SameRows
<1> DEFINE c == row[d]
<1>1. c \in Request /\ outbox[c] \in OutboxRow
  BY DEF Types
<1>2. CASE MarkProcessed(d)
  <2> DEFINE r == [outbox[c] EXCEPT !.done = TRUE, !.holder = None, !.live = FALSE]
  <2>1. r \in OutboxRow /\ r.topic = outbox[c].topic /\ r.version = outbox[c].version
    BY <1>1 DEF OutboxRow
  <2>2. outbox' = [outbox EXCEPT ![c] = r]
    BY <1>1, <1>2 DEF Types, MarkProcessed
  <2> QED
    BY <1>1, <2>1, <2>2, RowChange
<1>3. CASE MarkError(d)
  <2> DEFINE r == [outbox[c] EXCEPT !.holder = None, !.live = FALSE]
  <2>1. r \in OutboxRow /\ r.topic = outbox[c].topic /\ r.version = outbox[c].version
    BY <1>1 DEF OutboxRow
  <2>2. outbox' = [outbox EXCEPT ![c] = r]
    BY <1>1, <1>3 DEF Types, MarkError
  <2> QED
    BY <1>1, <2>1, <2>2, RowChange
<1> QED
  BY <1>2, <1>3

LEMMA ExpiryRows ==
  ASSUME Types, NEW c \in Request, LeaseExpires(c)
  PROVE  SameRows
<1>1. outbox[c] # None /\ outbox[c] \in OutboxRow
  BY DEF Types, LeaseExpires
<1> DEFINE r == [outbox[c] EXCEPT !.live = FALSE]
<1>2. r \in OutboxRow /\ r.topic = outbox[c].topic /\ r.version = outbox[c].version
  BY <1>1 DEF OutboxRow
<1>3. outbox' = [outbox EXCEPT ![c] = r]
  BY DEF Types, LeaseExpires
<1> QED
  BY <1>1, <1>2, <1>3, RowChange

-----------------------------------------------------------------------------
(* The invariant: where a drain is says what it holds and what it has left  *)
(* to do, a request has a row only when it is over, and of the drains that  *)
(* have not met one at most is at an announcement.                          *)

AirtableWork == {"find", "look", "post", "patch", "relink", "write"}
AcceleventsWork == {"connection", "report", "site", "load", "items", "search", "adopt",
                    "remember", "update", "make", "again", "hide"}
Ends == {"retire", "fail"}

At(d, S) == row[d] \in S /\ batch[d] \subseteq S
Place(d) ==
  \/ pc[d] = "idle" /\ row[d] = None /\ batch[d] = {}
  \/ pc[d] = "airtable" /\ row[d] = None /\ batch[d] \subseteq Announcements
  \/ pc[d] \in {"projects", "accelevents"} /\ row[d] = None /\ batch[d] \subseteq Jobs
  \/ pc[d] \in AirtableWork \union Ends /\ At(d, Announcements)
  \/ pc[d] \in AcceleventsWork \union Ends /\ At(d, Jobs)

Places == \A d \in Drain : Place(d)
Finished == \A c \in Request : outbox[c] # None => step[c] = "done"
Apart == ~met => \A d, e \in Drain :
                   row[d] \in Announcements /\ row[e] \in Announcements => d = e
FirstPost == ~met => \A d \in Drain : pc[d] = "post" => base = 0
IInv == /\ Types /\ Places /\ Finished /\ EachVersionAnnounced
        /\ Apart /\ FirstPost /\ OneRecordPerEvent

LEMMA RowsExist ==
  ASSUME Types
  PROVE  /\ Announcements \subseteq Request /\ Jobs \subseteq Request
         /\ \A c \in Announcements : outbox[c] # None /\ outbox[c].topic = "airtable"
         /\ \A c \in Jobs : outbox[c] # None /\ outbox[c].topic # "airtable"
         /\ \A c \in Request : outbox[c] # None => c \in Announcements \union Jobs
BY DEF Types, Announcements, Jobs, RowsOf, OutboxRow, Topic

\* What is announced depends on the rows alone.
LEMMA AnnouncedSame ==
  ASSUME Types, EachVersionAnnounced, SameRows, UNCHANGED <<version, author>>
  PROVE  EachVersionAnnounced'
<1>1. RowsOf("airtable")' = RowsOf("airtable")
  BY SameSets
<1>2. \A c \in RowsOf("airtable") : outbox'[c].version = outbox[c].version
  BY DEF SameRows, RowsOf
<1>3. {outbox'[c].version : c \in RowsOf("airtable")'} = {outbox[c].version : c \in RowsOf("airtable")}
  BY <1>1, <1>2
<1> QED
  BY <1>1, <1>2, <1>3 DEF EachVersionAnnounced

LEMMA SetsSame ==
  ASSUME SameRows
  PROVE  Announcements' = Announcements /\ Jobs' = Jobs
BY SameSets DEF Announcements, Jobs

\* A step of one drain: the others stay where they are.
LEMMA DrainStep ==
  ASSUME IInv, Types', SameRows, NEW d \in Drain,
         UNCHANGED <<step, version, author>>,
         \A e \in Drain \ {d} : UNCHANGED <<pc[e], batch[e], row[e]>>,
         Place(d)', Apart', FirstPost', OneRecordPerEvent'
  PROVE  IInv'
<1>1. EachVersionAnnounced'
  BY AnnouncedSame DEF IInv
<1>2. Finished'
  BY DEF IInv, Finished, SameRows
<1>3. Places'
  <2> SUFFICES ASSUME NEW e \in Drain PROVE Place(e)'
    BY DEF Places
  <2>1. CASE e = d
    BY <2>1
  <2>2. CASE e # d
    BY <2>2, SetsSame DEF IInv, Places, Place, At
  <2> QED
    BY <2>1, <2>2
<1> QED
  BY <1>1, <1>2, <1>3 DEF IInv

\* While nobody takes a row and no record is made, the drains stay apart.
LEMMA StayApart ==
  ASSUME IInv, SameRows, UNCHANGED <<met, base>>, NEW d \in Drain,
         \A e \in Drain \ {d} : UNCHANGED <<pc[e], row[e]>>,
         row'[d] \in {row[d], None}, pc'[d] # "post"
  PROVE  Apart' /\ FirstPost' /\ OneRecordPerEvent'
<1>1. Apart'
  <2> SUFFICES ASSUME ~met', NEW e \in Drain, NEW f \in Drain,
                      row'[e] \in Announcements, row'[f] \in Announcements
               PROVE  e = f
    BY SetsSame DEF Apart
  <2>1. None \notin Announcements
    BY RowsExist, NoneAssumption DEF IInv
  <2>2. row[e] \in Announcements /\ row[f] \in Announcements
    BY <2>1
  <2> QED
    BY <2>2 DEF IInv, Apart
<1>2. FirstPost'
  BY DEF IInv, FirstPost
<1>3. OneRecordPerEvent'
  BY DEF IInv, OneRecordPerEvent
<1> QED
  BY <1>1, <1>2, <1>3

\* A drain that works on a row goes on to the next call.
LEMMA JobGoesOn ==
  ASSUME IInv, NEW d \in Drain, NEW l \in AcceleventsWork \union {"retire"},
         pc[d] \in AcceleventsWork, pc' = [pc EXCEPT ![d] = l],
         UNCHANGED <<configured, outbox, step, batch, row, met, projectionVars>>
  PROVE  IInv'
<1>1. Types /\ SameRows /\ UNCHANGED <<version, author, expected, base>>
  BY NoChange DEF IInv, projectionVars
<1>2. pc'[d] = l /\ \A e \in Drain \ {d} : pc'[e] = pc[e]
  BY <1>1 DEF Types
<1>3. Types'
  BY <1>1, <1>2 DEF Types
<1>4. Place(d)'
  <2>1. At(d, Jobs)
    BY DEF IInv, Places, Place, AcceleventsWork, AirtableWork, Ends
  <2>2. At(d, Jobs)'
    BY <2>1, <1>1, SetsSame DEF At
  <2> QED
    BY <2>2, <1>2 DEF Place, Ends
<1>5. Apart' /\ FirstPost' /\ OneRecordPerEvent'
  BY <1>1, <1>2, StayApart DEF AcceleventsWork
<1> QED
  BY <1>1, <1>2, <1>3, <1>4, <1>5, DrainStep

LEMMA AnnouncementGoesOn ==
  ASSUME IInv, NEW d \in Drain, NEW l \in AirtableWork \union Ends,
         pc[d] \in AirtableWork, pc' = [pc EXCEPT ![d] = l], base' \in Nat,
         UNCHANGED <<configured, outbox, step, batch, row, met, version, author, expected>>,
         FirstPost', OneRecordPerEvent'
  PROVE  IInv'
<1>1. Types /\ SameRows
  BY NoChange DEF IInv
<1>2. pc'[d] = l /\ \A e \in Drain \ {d} : pc'[e] = pc[e]
  BY <1>1 DEF Types
<1>3. Types'
  BY <1>1, <1>2 DEF Types
<1>4. Place(d)'
  <2>1. At(d, Announcements)
    BY DEF IInv, Places, Place, AcceleventsWork, AirtableWork, Ends
  <2>2. At(d, Announcements)'
    BY <2>1, <1>1, SetsSame DEF At
  <2> QED
    BY <2>2, <1>2 DEF Place
<1>5. Apart'
  BY <1>1, SetsSame DEF IInv, Apart
<1> QED
  BY <1>1, <1>2, <1>3, <1>4, <1>5, DrainStep

-----------------------------------------------------------------------------
(* One lemma for each kind of step *)

LEMMA JobWork ==
  ASSUME IInv, NEW d \in Drain, UNCHANGED projectionVars,
         \/ ReadConnection(d) \/ Report(d) \/ ReadSite(d) \/ LoadSnapshot(d) \/ Search(d)
         \/ Remember(d) \/ Update(d) \/ Make(d) \/ SearchAgain(d) \/ ListGone(d)
         \/ EndProject(d) \/ (\E i \in Item : Identify(d, i))
         \/ (\E r \in DOMAIN remote : Hide(d, r))
  PROVE  IInv'
<1> USE JobGoesOn DEF Busy, Projecting, Goto, NextItem, given, past, AcceleventsWork
<1>1. CASE ReadConnection(d)
  BY <1>1 DEF ReadConnection
<1>2. CASE Report(d)
  BY <1>2 DEF Report
<1>3. CASE ReadSite(d)
  BY <1>3 DEF ReadSite
<1>4. CASE LoadSnapshot(d)
  BY <1>4 DEF LoadSnapshot
<1>5. CASE Search(d)
  BY <1>5 DEF Search
<1>6. CASE Update(d)
  BY <1>6 DEF Update
<1>7. CASE Make(d)
  BY <1>7 DEF Make
<1>8. CASE SearchAgain(d)
  BY <1>8 DEF SearchAgain
<1>9. CASE ListGone(d)
  BY <1>9 DEF ListGone
<1>10. CASE EndProject(d)
  BY <1>10 DEF EndProject
<1>11. CASE Remember(d)
  <2>1. pc[d] = "adopt" \/ pc[d] = "remember"
    BY <1>11 DEF Remember
  <2> QED
    BY <1>11, <2>1 DEF Remember
<1>12. ASSUME NEW i \in Item, Identify(d, i) PROVE IInv'
  <2>1. pc' = [pc EXCEPT ![d] = "search"] \/ pc' = [pc EXCEPT ![d] = "update"]
    BY <1>12, Zenon DEF Identify
  <2> QED
    BY <1>12, <2>1 DEF Identify
<1>13. ASSUME NEW r \in DOMAIN remote, Hide(d, r) PROVE IInv'
  <2>1. pc' = [pc EXCEPT ![d] = "hide"]
    BY <1>13 DEF Hide, IInv, Types
  <2> QED
    BY <1>13, <2>1 DEF Hide
<1> QED
  BY <1>1, <1>2, <1>3, <1>4, <1>5, <1>6, <1>7, <1>8, <1>9, <1>10, <1>11, <1>12, <1>13

\* Only a drain that has met another makes a second record.
LEMMA PostAlone ==
  ASSUME IInv, NEW d \in Drain, pc[d] = "post", ~met
  PROVE  base = 0 /\ \A e \in Drain \ {d} : pc[e] \notin AirtableWork
<1>1. base = 0
  BY DEF IInv, FirstPost
<1>2. ASSUME NEW e \in Drain \ {d}, pc[e] \in AirtableWork PROVE FALSE
  <2>1. row[d] \in Announcements /\ row[e] \in Announcements
    BY <1>2 DEF IInv, Places, Place, At, AirtableWork, AcceleventsWork, Ends
  <2> QED
    BY <2>1, <1>2 DEF IInv, Apart
<1> QED
  BY <1>1, <1>2

LEMMA AnnouncementWork ==
  ASSUME IInv, NEW d \in Drain,
         \/ FindProjection(d) \/ LookUp(d) \/ Post(d) \/ Patch(d) \/ FindLink(d) \/ WriteLink(d)
  PROVE  IInv'
<1> USE DEF Working, Goto, given, past
<1>1. Types
  BY DEF IInv
<1>2. ASSUME NEW l \in (AirtableWork \union Ends) \ {"post"}, pc[d] \in AirtableWork,
             pc' = [pc EXCEPT ![d] = l], base' = base,
             UNCHANGED <<configured, outbox, step, batch, row, met, version, author, expected>>
      PROVE  IInv'
  <2>1. FirstPost' /\ OneRecordPerEvent' /\ base' \in Nat
    BY <1>1, <1>2 DEF IInv, Types, FirstPost, OneRecordPerEvent
  <2> QED
    BY <1>2, <2>1, AnnouncementGoesOn
<1> USE DEF AirtableWork, Ends
<1>3. CASE FindProjection(d)
  BY <1>2, <1>3 DEF FindProjection
<1>4. CASE LookUp(d)
  <2>1. CASE Found = {} /\ pc' = [pc EXCEPT ![d] = "post"]
    <3>1. base = 0 /\ base' = 0
      BY <1>1, <1>4, <2>1 DEF LookUp, Found, Types
    <3>2. FirstPost' /\ OneRecordPerEvent'
      BY <3>1 DEF FirstPost, OneRecordPerEvent
    <3>3. /\ pc[d] \in AirtableWork /\ "post" \in AirtableWork \union Ends /\ base' \in Nat
          /\ UNCHANGED <<configured, outbox, step, batch, row, met, version, author, expected>>
      BY <1>4, <3>1 DEF LookUp
    <3> QED
      BY <2>1, <3>2, <3>3, AnnouncementGoesOn
  <2>2. CASE pc' = [pc EXCEPT ![d] = "patch"] \/ pc' = [pc EXCEPT ![d] = "fail"]
    BY <1>2, <1>4, <2>2 DEF LookUp
  <2> QED
    BY <1>4, <2>1, <2>2 DEF LookUp
<1>5. CASE Post(d)
  <2>1. base' \in {base, base + 1} /\ base' \in Nat
    BY <1>1, <1>5 DEF Post, Answered, Types
  <2>2. \E l \in {"relink", "fail"} : pc' = [pc EXCEPT ![d] = l]
    BY <1>5 DEF Post, Answered
  <2>3. pc[d] = "post" /\ met' = met
    BY <1>5 DEF Post
  <2>4. FirstPost'
    <3> SUFFICES ASSUME ~met, NEW e \in Drain, pc'[e] = "post" PROVE FALSE
      BY <2>3 DEF FirstPost
    <3>1. e # d
      BY <1>1, <2>2 DEF Types
    <3>2. pc[e] = "post"
      BY <1>1, <2>2, <3>1 DEF Types
    <3> QED
      BY <2>3, <3>1, <3>2, PostAlone
  <2>5. OneRecordPerEvent'
    BY <1>1, <2>1, <2>3, PostAlone DEF IInv, OneRecordPerEvent, Types
  <2> QED
    BY <1>5, <2>1, <2>2, <2>3, <2>4, <2>5, AnnouncementGoesOn DEF Post
<1>6. CASE Patch(d)
  <2>1. base' = base /\ \E l \in {"relink", "fail"} : pc' = [pc EXCEPT ![d] = l]
    BY <1>6 DEF Patch, Answered
  <2> QED
    BY <1>2, <1>6, <2>1 DEF Patch
<1>7. CASE FindLink(d)
  BY <1>2, <1>7 DEF FindLink
<1>8. CASE WriteLink(d)
  BY <1>2, <1>8 DEF WriteLink
<1> QED
  BY <1>3, <1>4, <1>5, <1>6, <1>7, <1>8

\* A drain that is between rows takes up or drops a batch.
LEMMA BatchChanges ==
  ASSUME IInv, NEW d \in Drain, NEW l, NEW B \in SUBSET Request,
         row'[d] = None, pc' = [pc EXCEPT ![d] = l], batch' = [batch EXCEPT ![d] = B],
         row' = row \/ row' = [row EXCEPT ![d] = None],
         UNCHANGED <<configured, outbox, step, met, version, author, expected, base>>,
         \/ l = "idle" /\ B = {}
         \/ l = "airtable" /\ B \subseteq Announcements
         \/ l \in {"projects", "accelevents"} /\ B \subseteq Jobs
  PROVE  IInv'
<1>1. Types /\ SameRows
  BY NoChange DEF IInv
<1>2. /\ pc'[d] = l /\ batch'[d] = B
      /\ \A e \in Drain \ {d} : UNCHANGED <<pc[e], batch[e], row[e]>>
  BY <1>1 DEF Types
<1>3. Types'
  BY <1>1, <1>2 DEF Types
<1>4. Place(d)'
  BY <1>1, <1>2, SetsSame DEF Place
<1>5. Apart' /\ FirstPost' /\ OneRecordPerEvent'
  BY <1>1, <1>2, StayApart
<1> QED
  BY <1>1, <1>2, <1>3, <1>4, <1>5, DrainStep

LEMMA Listing ==
  ASSUME IInv, NEW d \in Drain, UNCHANGED projectionVars,
         ListAnnouncements(d) \/ ListVerifies(d) \/ ListProjects(d) \/ Rest(d)
  PROVE  IInv'
<1> USE DEF Goto, given, past, projectionVars
<1>1. /\ Types /\ Place(d) /\ batch[d] \subseteq Request
      /\ UNCHANGED <<configured, outbox, step, met, row>>
  BY DEF IInv, Types, Places, ListAnnouncements, ListVerifies, ListProjects, Rest, Idle
<1>2. Listed("airtable") \subseteq Announcements
  BY DEF Listed, Announcements, RowsOf
<1>3. Listed("verify") \subseteq Jobs /\ Listed("project") \subseteq Jobs
  BY DEF Listed, Jobs, RowsOf
<1>4. Announcements \subseteq Request /\ Jobs \subseteq Request
  BY <1>1, RowsExist
<1> USE DEF Place, At, AirtableWork, AcceleventsWork, Ends
<1>5. CASE ListAnnouncements(d)
  <2>1. pc[d] = "idle" /\ batch[d] = {} /\ row[d] = None
    BY <1>1, <1>5 DEF ListAnnouncements
  <2>2. \E B \in SUBSET Announcements : batch' = [batch EXCEPT ![d] = B]
    <3>1. CASE configured
      BY <1>2, <1>5, <2>1, <3>1 DEF ListAnnouncements, ListRows
    <3>2. CASE ~configured
      <4>1. batch' = [batch EXCEPT ![d] = {}]
        BY <1>1, <1>5, <2>1, <3>2 DEF ListAnnouncements, Types
      <4> QED
        BY <4>1
    <3> QED
      BY <3>1, <3>2
  <2> QED
    BY <1>1, <1>4, <1>5, <2>1, <2>2, BatchChanges DEF ListAnnouncements
<1>6. CASE ListVerifies(d)
  <2>1. batch[d] = {} /\ row[d] = None
    BY <1>1, <1>6 DEF ListVerifies, Idle
  <2>2. batch' = [batch EXCEPT ![d] = Listed("verify")]
    BY <1>6, <2>1 DEF ListVerifies, ListRows
  <2> QED
    BY <1>1, <1>3, <1>4, <1>6, <2>1, <2>2, BatchChanges DEF ListVerifies
<1>7. CASE ListProjects(d)
  <2>1. batch[d] \subseteq Jobs /\ row[d] = None
    BY <1>1, <1>7 DEF ListProjects
  <2>2. batch' = [batch EXCEPT ![d] = batch[d] \union Listed("project")]
    BY <1>7 DEF ListProjects, ListRows
  <2> QED
    BY <1>1, <1>3, <1>4, <1>7, <2>1, <2>2, BatchChanges DEF ListProjects
<1>8. CASE Rest(d)
  <2>1. batch[d] = {} /\ row[d] = None
    BY <1>1, <1>8 DEF Rest, Idle
  <2>2. batch' = [batch EXCEPT ![d] = {}]
    BY <1>1, <1>8, <2>1 DEF Rest, Types
  <2> QED
    BY <1>1, <1>8, <2>1, <2>2, BatchChanges DEF Rest, Idle
<1> QED
  BY <1>5, <1>6, <1>7, <1>8

LEMMA Dying ==
  ASSUME IInv, NEW d \in Drain, UNCHANGED projectionVars, Die(d)
  PROVE  IInv'
<1>1. /\ row' = [row EXCEPT ![d] = None] /\ batch' = [batch EXCEPT ![d] = {}]
      /\ pc' = [pc EXCEPT ![d] = "idle"]
      /\ UNCHANGED <<configured, outbox, step, met, version, author, expected, base>>
  BY DEF Die, Goto, given, projectionVars
<1>2. row'[d] = None
  BY <1>1 DEF IInv, Types
<1>3. {} \in SUBSET Request
  OBVIOUS
<1> QED
  BY <1>1, <1>2, <1>3, BatchChanges

\* A row that is passed over leaves the batch and nothing else.
LEMMA PassedOver ==
  ASSUME IInv, NEW d \in Drain, NEW c \in batch[d], NEW l, UNCHANGED projectionVars,
         Claim(d, c, l), UNCHANGED <<outbox, row, met, pc>>,
         row[d] = None,
         \/ pc[d] = "airtable" /\ batch[d] \subseteq Announcements
         \/ pc[d] = "accelevents" /\ batch[d] \subseteq Jobs
  PROVE  IInv'
<1> DEFINE B == batch[d] \ {c}
<1>1. B \in SUBSET Request /\ row'[d] = None
  BY DEF IInv, Types
<1>2. pc' = [pc EXCEPT ![d] = pc[d]] /\ batch' = [batch EXCEPT ![d] = B]
  BY DEF IInv, Types, Claim
<1>3. UNCHANGED <<configured, outbox, step, met, version, author, expected, base>>
  BY DEF Claim, given, projectionVars
<1>4. \/ pc[d] = "airtable" /\ B \subseteq Announcements
      \/ pc[d] \in {"projects", "accelevents"} /\ B \subseteq Jobs
  OBVIOUS
<1> HIDE DEF B
<1> QED
  BY <1>1, <1>2, <1>3, <1>4, BatchChanges

\* A claim that finds another drain at a row of its topic is a meeting.
LEMMA Claiming ==
  ASSUME IInv, NEW d \in Drain, UNCHANGED projectionVars,
         \E c \in Request : ClaimAnnouncement(d, c) \/ ClaimJob(d, c)
  PROVE  IInv'
<1>1. PICK c \in Request : ClaimAnnouncement(d, c) \/ ClaimJob(d, c)
  OBVIOUS
<1>2. Types /\ UNCHANGED <<version, author, expected, base>>
  BY DEF IInv, projectionVars
<1> DEFINE Rows == IF pc[d] = "airtable" THEN Announcements ELSE Jobs
<1>3. /\ c \in batch[d] /\ batch[d] \subseteq Rows /\ row[d] = None
      /\ pc[d] \in {"airtable", "accelevents"}
      /\ pc[d] = "airtable" <=> ClaimAnnouncement(d, c)
  BY <1>1 DEF IInv, Places, Place, ClaimAnnouncement, ClaimJob, AirtableWork,
              AcceleventsWork, Ends
<1>4. PICK l \in {"find", "connection", "site", "fail"} :
         Claim(d, c, l) /\ (pc[d] = "airtable" => l = "find") /\ (pc[d] # "airtable" => l # "find")
  <2>1. CASE ClaimAnnouncement(d, c)
    BY <1>3, <2>1 DEF ClaimAnnouncement
  <2>2. CASE ~ClaimAnnouncement(d, c)
    BY <1>1, <1>3, <2>2 DEF ClaimJob
  <2> QED
    BY <2>1, <2>2
<1>5. outbox[c] # None /\ c \in Rows
  BY <1>2, <1>3, RowsExist
<1>6. CASE UNCHANGED <<outbox, row, met, pc>>
  BY <1>3, <1>4, <1>6, PassedOver
<1>7. CASE ~UNCHANGED <<outbox, row, met, pc>>
  <2>1. /\ row' = [row EXCEPT ![d] = c] /\ pc' = [pc EXCEPT ![d] = l]
        /\ batch' = [batch EXCEPT ![d] = @ \ {c}]
        /\ met' = (met \/ \E e \in Drain : /\ row[e] # None
                                           /\ outbox[row[e]].topic = outbox[c].topic)
        /\ UNCHANGED <<configured, step>>
    BY <1>4, <1>7 DEF Claim, Goto, given
  <2>2. SameRows
    BY <1>2, <1>4, <1>5, ClaimRows
  <2>3. /\ row'[d] = c /\ pc'[d] = l /\ batch'[d] = batch[d] \ {c}
        /\ \A e \in Drain \ {d} : UNCHANGED <<pc[e], batch[e], row[e]>>
    BY <1>2, <2>1 DEF Types
  <2>4. Types'
    <3>1. outbox' \in [Request -> OutboxRow \union {None}]
      BY <2>2 DEF SameRows
    <3> QED
      BY <1>2, <2>1, <3>1 DEF Types
  <2>5. Place(d)'
    BY <1>3, <1>4, <1>5, <2>2, <2>3, SetsSame
       DEF Place, At, AirtableWork, AcceleventsWork, Ends
  <2>6. met => met'
    BY <2>1
  <2>7. Apart'
    <3> SUFFICES ASSUME ~met', NEW e \in Drain, NEW f \in Drain,
                        row'[e] \in Announcements, row'[f] \in Announcements
                 PROVE  e = f
      BY <2>2, SetsSame DEF Apart
    <3>1. \A g \in Drain : row[g] \in Announcements => outbox[row[g]].topic = "airtable"
                                                       /\ row[g] # None
      BY <1>2, RowsExist, NoneAssumption
    <3>2. CASE e # d /\ f # d
      BY <2>3, <2>6, <3>2 DEF IInv, Apart
    <3>3. CASE e = d \/ f = d
      <4>1. outbox[c].topic = "airtable"
        BY <1>2, <2>3, <3>3, RowsExist
      <4>2. \A g \in Drain \ {d} : row'[g] \notin Announcements
        BY <2>1, <2>3, <3>1, <4>1
      <4> QED
        BY <3>3, <4>2
    <3> QED
      BY <3>2, <3>3
  <2>8. FirstPost'
    BY <1>2, <1>4, <2>3, <2>6 DEF IInv, FirstPost
  <2>9. OneRecordPerEvent'
    BY <1>2, <2>6 DEF IInv, OneRecordPerEvent
  <2> QED
    BY <1>2, <2>1, <2>2, <2>3, <2>4, <2>5, <2>7, <2>8, <2>9, DrainStep
<1> QED
  BY <1>6, <1>7

LEMMA Leaving ==
  ASSUME IInv, NEW d \in Drain, Leave(d)
  PROVE  IInv'
<1>1. /\ Types /\ Place(d)
      /\ UNCHANGED <<configured, step, batch, met, version, author, expected, base>>
      /\ row' = [row EXCEPT ![d] = None] /\ pc' = [pc EXCEPT ![d] = Loop(d)]
      /\ pc[d] \in Ends /\ (MarkProcessed(d) \/ MarkError(d))
  BY DEF IInv, Places, Leave, MarkProcessed, MarkError, LeaveRow, Goto, given, past,
         projectionVars, Ends
<1>2. /\ row[d] \in Announcements \union Jobs
      /\ \/ Loop(d) = "airtable" /\ batch[d] \subseteq Announcements
         \/ Loop(d) = "accelevents" /\ batch[d] \subseteq Jobs
  BY <1>1, RowsExist DEF Place, At, Loop, Ends, AirtableWork, AcceleventsWork
<1>3. row[d] # None /\ outbox[row[d]] # None
  BY <1>1, <1>2, RowsExist, NoneAssumption
<1>4. SameRows
  BY <1>1, <1>3, LeaveRows
<1>5. /\ row'[d] = None /\ pc'[d] = Loop(d)
      /\ \A e \in Drain \ {d} : UNCHANGED <<pc[e], batch[e], row[e]>>
  BY <1>1 DEF Types
<1>6. Types'
  <2>1. outbox' \in [Request -> OutboxRow \union {None}]
    BY <1>4 DEF SameRows
  <2> QED
    BY <1>1, <2>1 DEF Types
<1>7. Place(d)'
  BY <1>1, <1>2, <1>4, <1>5, SetsSame DEF Place
<1>8. Apart' /\ FirstPost' /\ OneRecordPerEvent'
  BY <1>1, <1>2, <1>4, <1>5, StayApart
<1> QED
  BY <1>1, <1>4, <1>5, <1>6, <1>7, <1>8, DrainStep

LEMMA Expiring ==
  ASSUME IInv, NEW c \in Request, Expires(c)
  PROVE  IInv'
<1>1. Types /\ SameRows /\ LeaseExpires(c)
  BY ExpiryRows DEF IInv, Expires
<1>2. UNCHANGED <<configured, step, pc, batch, row, met, version, author, expected, base>>
  BY DEF Expires, LeaseExpires, given, work, projectionVars
<1>3. Types'
  BY <1>1, <1>2 DEF Types, SameRows
<1>4. EachVersionAnnounced'
  BY <1>1, <1>2, AnnouncedSame DEF IInv
<1>5. Places' /\ Apart'
  BY <1>1, <1>2, SetsSame DEF IInv, Places, Place, At, Apart
<1>6. Finished' /\ FirstPost' /\ OneRecordPerEvent'
  BY <1>1, <1>2 DEF IInv, Finished, SameRows, FirstPost, OneRecordPerEvent
<1> QED
  BY <1>3, <1>4, <1>5, <1>6 DEF IInv

-----------------------------------------------------------------------------
(* Requests *)

\* A request that is not over has no row; it may end with one.
RowAdded(c) ==
  \/ UNCHANGED outbox
  \/ /\ step'[c] = "done"
     /\ \E t \in Topic, v \in Nat : outbox' = [outbox EXCEPT ![c] = NewRow(t, v)]

LEMMA NewRows ==
  ASSUME NEW t \in Topic, NEW v \in Nat
  PROVE  /\ NewRow(t, v) \in OutboxRow /\ NewRow(t, v) # None
         /\ NewRow(t, v).topic = t /\ NewRow(t, v).version = v
<1>1. NewRow(t, v) \in OutboxRow /\ NewRow(t, v).topic = t /\ NewRow(t, v).version = v
  BY DEF NewRow, OutboxRow
<1> QED
  BY <1>1, NoneAssumption

LEMMA NoRowYet ==
  ASSUME IInv, NEW c \in Request, step[c] # "done"
  PROVE  outbox[c] = None /\ c \notin Announcements \union Jobs
BY RowsExist DEF IInv, Finished

LEMMA RequestStep ==
  ASSUME IInv, NEW c \in Request, step[c] # "done", RowAdded(c),
         NEW l, step' = [step EXCEPT ![c] = l],
         UNCHANGED <<configured, pc, batch, row, met, base>>,
         version' \in Nat, author' \in Request \union {None}, expected' \in [Request -> Nat],
         EachVersionAnnounced'
  PROVE  IInv'
<1>1. Types /\ outbox[c] = None /\ c \notin Announcements \union Jobs
  BY NoRowYet DEF IInv
<1>2. /\ outbox' \in [Request -> OutboxRow \union {None}]
      /\ \A b \in Request \ {c} : outbox'[b] = outbox[b]
      /\ outbox'[c] = None \/ step'[c] = "done"
  <2>1. CASE UNCHANGED outbox
    BY <1>1, <2>1 DEF Types
  <2>2. CASE ~UNCHANGED outbox
    <3>1. PICK t \in Topic, v \in Nat : outbox' = [outbox EXCEPT ![c] = NewRow(t, v)]
      BY <2>2 DEF RowAdded
    <3> QED
      BY <1>1, <2>2, <3>1, NewRows DEF Types, RowAdded
  <2> QED
    BY <2>1, <2>2
<1>3. Types'
  BY <1>1, <1>2 DEF Types
<1>4. /\ Announcements \subseteq Announcements' /\ Jobs \subseteq Jobs'
      /\ \A b \in Announcements' : b \in Announcements \/ b = c
  BY <1>1, <1>2 DEF Announcements, Jobs, RowsOf
<1>5. Places'
  BY <1>4 DEF IInv, Places, Place, At
<1>6. Finished'
  <2> SUFFICES ASSUME NEW b \in Request, outbox'[b] # None PROVE step'[b] = "done"
    BY DEF Finished
  <2>1. CASE b = c
    BY <1>2, <2>1
  <2>2. CASE b # c
    BY <1>1, <1>2, <2>2 DEF IInv, Finished, Types
  <2> QED
    BY <2>1, <2>2
<1>7. Apart'
  <2>1. \A d \in Drain : row[d] # c \/ c = None
    BY <1>1, RowsExist, NoneAssumption DEF IInv, Places, Place, At, Types
  <2>2. \A d \in Drain : row[d] \in Announcements' => row[d] \in Announcements
    BY <1>4, <2>1, NoneAssumption
  <2> QED
    BY <2>2 DEF IInv, Apart
<1>8. FirstPost' /\ OneRecordPerEvent'
  BY DEF IInv, FirstPost, OneRecordPerEvent
<1> QED
  BY <1>3, <1>5, <1>6, <1>7, <1>8 DEF IInv

\* A row that is no announcement leaves the announcements as they are.
LEMMA NothingAnnounced ==
  ASSUME IInv, NEW c \in Request, step[c] # "done", UNCHANGED <<version, author>>,
         \/ UNCHANGED outbox
         \/ \E t \in Topic \ {"airtable"} : outbox' = [outbox EXCEPT ![c] = NewRow(t, 0)]
  PROVE  EachVersionAnnounced'
<1>1. Types /\ outbox[c] = None
  BY NoRowYet DEF IInv
<1>2. /\ RowsOf("airtable")' = RowsOf("airtable")
      /\ \A b \in RowsOf("airtable") : outbox'[b] = outbox[b]
  <2>1. CASE UNCHANGED outbox
    BY <2>1 DEF RowsOf
  <2>2. CASE ~UNCHANGED outbox
    <3>1. PICK t \in Topic \ {"airtable"} : outbox' = [outbox EXCEPT ![c] = NewRow(t, 0)]
      BY <2>2
    <3>2. outbox'[c] = NewRow(t, 0) /\ \A b \in Request \ {c} : outbox'[b] = outbox[b]
      BY <1>1, <3>1 DEF Types
    <3> QED
      BY <1>1, <3>2, NewRows DEF RowsOf
  <2> QED
    BY <2>1, <2>2
<1>3. {outbox'[b].version : b \in RowsOf("airtable")'} = {outbox[b].version : b \in RowsOf("airtable")}
  BY <1>2
<1> QED
  BY <1>2, <1>3 DEF IInv, EachVersionAnnounced

\* The next version is announced with the update that makes it.
LEMMA NextAnnounced ==
  ASSUME IInv, NEW c \in Request, step[c] # "done", version' = version + 1, author' = c,
         outbox' = [outbox EXCEPT ![c] = NewRow("airtable", version + 1)]
  PROVE  EachVersionAnnounced'
<1> DEFINE R == RowsOf("airtable")
<1>1. Types /\ outbox[c] = None /\ c \notin R /\ R \subseteq Request
  BY NoRowYet DEF IInv, RowsOf
<1>2. version \in Nat /\ version + 1 \in Nat /\ "airtable" \in Topic
  BY <1>1 DEF Types, Topic
<1>3. /\ outbox'[c].version = version + 1 /\ outbox'[c].topic = "airtable" /\ outbox'[c] # None
      /\ \A b \in Request \ {c} : outbox'[b] = outbox[b]
  BY <1>1, <1>2, NewRows DEF Types
<1>4. R' = R \union {c}
  BY <1>1, <1>3 DEF RowsOf
<1>5. /\ {outbox[b].version : b \in R} = 1..version
      /\ \A b, e \in R : outbox[b].version = outbox[e].version => b = e
  BY DEF IInv, EachVersionAnnounced
<1>6. \A b \in R : outbox'[b].version = outbox[b].version /\ outbox[b].version \in 1..version
  BY <1>1, <1>3, <1>5
<1>7. {outbox'[b].version : b \in R'} = 1..(version + 1)
  <2>1. \A v \in 1..version : \E b \in R : outbox'[b].version = v
    BY <1>5, <1>6
  <2>2. 1..(version + 1) = 1..version \union {version + 1}
    BY <1>2
  <2> QED
    BY <1>3, <1>4, <1>6, <2>1, <2>2
<1>8. \A b, e \in R' : outbox'[b].version = outbox'[e].version => b = e
  <2>1. \A b \in R : outbox'[b].version # outbox'[c].version
    BY <1>2, <1>3, <1>6
  <2> QED
    BY <1>4, <1>5, <1>6, <2>1
<1> HIDE DEF R
<1>9. author' \in R' /\ outbox'[author'].version = version'
  BY <1>3, <1>4
<1> QED
  BY <1>7, <1>8, <1>9 DEF EachVersionAnnounced, R

LEMMA Commands ==
  ASSUME IInv, NEW c \in Request, EventCommand(c)
  PROVE  IInv'
<1>1. Types /\ step[c] # "done" /\ "airtable" \in Topic
  BY DEF IInv, EventCommand, Create, CommitUpdate, ReadEvent, Topic
<1>2. CASE Create(c)
  <2>1. /\ outbox' = [outbox EXCEPT ![c] = NewRow("airtable", version + 1)]
        /\ version' = version + 1 /\ author' = c /\ step' = [step EXCEPT ![c] = "done"]
        /\ UNCHANGED <<configured, pc, batch, row, met, base, expected>>
    BY <1>2 DEF Create, Turn, given, work, past
  <2>2. EachVersionAnnounced'
    BY <1>1, <2>1, NextAnnounced
  <2>3. step'[c] = "done" /\ version + 1 \in Nat /\ expected \in [Request -> Nat]
    BY <1>1, <2>1 DEF Types
  <2> QED
    BY <1>1, <2>1, <2>2, <2>3, RequestStep DEF RowAdded
<1>3. CASE \E v \in 1..Cardinality(Request) : ReadEvent(c, v)
  <2>1. PICK v : ReadEvent(c, v)
    BY <1>3
  <2>2. /\ \E l \in {"commit", "done"} : step' = [step EXCEPT ![c] = l]
        /\ expected' = expected \/ expected' = [expected EXCEPT ![c] = v]
        /\ v \in 1..version
        /\ UNCHANGED <<configured, outbox, pc, batch, row, met, version, author, base>>
    BY <2>1 DEF ReadEvent, Turn, given, work, past
  <2>3. expected' \in [Request -> Nat] /\ version \in Nat /\ author \in Request \union {None}
    BY <1>1, <2>2 DEF Types
  <2>4. EachVersionAnnounced'
    BY <1>1, <2>2, NothingAnnounced
  <2> QED
    BY <1>1, <2>2, <2>3, <2>4, RequestStep DEF RowAdded
<1>4. CASE CommitUpdate(c)
  <2>1. /\ expected' = [expected EXCEPT ![c] = 0] /\ step' = [step EXCEPT ![c] = "done"]
        /\ UNCHANGED <<configured, pc, batch, row, met, base>>
    BY <1>4 DEF CommitUpdate, Turn, given, work, past
  <2>2. expected' \in [Request -> Nat] /\ version \in Nat /\ version + 1 \in Nat
        /\ author \in Request \union {None} /\ step'[c] = "done"
    BY <1>1, <2>1 DEF Types
  <2>3. CASE version = expected[c]
    <3>1. /\ outbox' = [outbox EXCEPT ![c] = NewRow("airtable", version + 1)]
          /\ version' = version + 1 /\ author' = c
      BY <1>4, <2>3 DEF CommitUpdate, StampSeen
    <3>2. EachVersionAnnounced'
      BY <1>1, <3>1, NextAnnounced
    <3>3. RowAdded(c)
      BY <1>1, <2>2, <3>1 DEF RowAdded
    <3> QED
      BY <1>1, <2>1, <2>2, <3>1, <3>2, <3>3, RequestStep
  <2>4. CASE version # expected[c]
    <3>1. UNCHANGED <<outbox, version, author>>
      BY <1>4, <2>4 DEF CommitUpdate, StampSeen
    <3>2. EachVersionAnnounced'
      BY <1>1, <3>1, NothingAnnounced
    <3> QED
      BY <1>1, <2>1, <2>2, <3>1, <3>2, RequestStep DEF RowAdded
  <2> QED
    BY <2>3, <2>4
<1> QED
  BY <1>2, <1>3, <1>4 DEF EventCommand

\* What concerns programmes and connections announces nothing.
LEMMA OtherCommands ==
  ASSUME IInv, NEW c \in Request, UNCHANGED projectionVars,
         PublicationCommand(c) \/ Abandon(c)
  PROVE  IInv'
<1> USE DEF Serving, given, work, past, Turn
<1>1. Types /\ UNCHANGED <<version, author, expected, base>>
  BY DEF IInv, projectionVars
<1>2. /\ step[c] # "done"
      /\ UNCHANGED <<configured, pc, batch, row, met>>
  BY DEF PublicationCommand, Compose, ReadPrevious, ComparePrevious, StoreProgramme,
         CheckReady, Enlist, AddRow, PutConnection, Edit, QueueVerify, Save, Abandon
<1>3. \E l : Turn(c, l)
  <2> HIDE DEF Turn
  <2>1. ASSUME NEW i, NEW f, Edit(c, i, f) PROVE \E l : Turn(c, l)
    BY <2>1 DEF Edit
  <2>2. ASSUME NEW o, NEW b, Save(c, b, o) PROVE \E l : Turn(c, l)
    BY <2>2 DEF Save
  <2>3. ASSUME NEW o, QueueVerify(c, o) PROVE \E l : Turn(c, l)
    BY <2>3 DEF QueueVerify
  <2>4. Compose(c) \/ ReadPrevious(c) \/ ComparePrevious(c) => \E l : Turn(c, l)
    BY DEF Compose, ReadPrevious, ComparePrevious
  <2>5. StoreProgramme(c) \/ CheckReady(c) => \E l : Turn(c, l)
    BY DEF StoreProgramme, CheckReady
  <2>6. Enlist(c) \/ AddRow(c) \/ PutConnection(c) \/ Abandon(c) => \E l : Turn(c, l)
    BY DEF Enlist, AddRow, PutConnection, Abandon
  <2> QED
    BY <2>1, <2>2, <2>3, <2>4, <2>5, <2>6 DEF PublicationCommand
<1>4. UNCHANGED outbox \/ AddRow(c)
  BY DEF PublicationCommand, Compose, ReadPrevious, ComparePrevious, StoreProgramme,
         CheckReady, Enlist, AddRow, PutConnection, Edit, QueueVerify, Save, Abandon
<1>5. RowAdded(c) /\ EachVersionAnnounced'
  <2>1. CASE UNCHANGED outbox
    BY <1>1, <1>2, <2>1, NothingAnnounced DEF RowAdded
  <2>2. CASE AddRow(c)
    <3>1. TopicOf(c) \in Topic \ {"airtable"} /\ TopicOf(c) \in Topic
      BY DEF TopicOf, Topic
    <3>2. outbox' = [outbox EXCEPT ![c] = NewRow(TopicOf(c), 0)]
          /\ step' = [step EXCEPT ![c] = "done"]
      BY <2>2 DEF AddRow
    <3>3. step'[c] = "done"
      BY <1>1, <3>2 DEF Types
    <3>4. EachVersionAnnounced'
      BY <1>1, <1>2, <3>1, <3>2, NothingAnnounced
    <3> QED
      BY <3>1, <3>2, <3>3, <3>4 DEF RowAdded
  <2> QED
    BY <1>4, <2>1, <2>2
<1> QED
  BY <1>1, <1>2, <1>3, <1>5, RequestStep DEF Types

-----------------------------------------------------------------------------
(* The invariant and what follows from it *)

LEMMA Start ==
  ASSUME Init
  PROVE  IInv
<1> USE DEF Init, OutboxInit, ProjectionInit
<1>1. author \in Request \union {None} /\ None \notin Request
  BY NoneAssumption
<1>2. \A c \in Request : /\ outbox[c] = None \/ c = author
                         /\ c = author => /\ outbox[c].topic = "airtable"
                                          /\ outbox[c].version = 1
                                          /\ outbox[c] \in OutboxRow
                                          /\ step[c] = "done"
  BY DEF NewRow, OutboxRow, Topic
<1>3. Types
  <2>1. outbox \in [Request -> OutboxRow \union {None}]
    BY <1>2
  <2> QED
    BY <1>1, <2>1 DEF Types
<1>4. EachVersionAnnounced
  <2>1. CASE author = None
    <3>1. RowsOf("airtable") = {} /\ version = 0
      BY <1>1, <1>2, <2>1 DEF RowsOf
    <3> QED
      BY <3>1 DEF EachVersionAnnounced
  <2>2. CASE author # None
    <3>1. RowsOf("airtable") = {author} /\ version = 1 /\ outbox[author].version = 1
      BY <1>1, <1>2, <2>2, NoneAssumption DEF RowsOf
    <3> QED
      BY <3>1 DEF EachVersionAnnounced
  <2> QED
    BY <2>1, <2>2
<1>5. Places /\ FirstPost
  BY DEF Places, Place, FirstPost
<1>6. Finished
  BY <1>2 DEF Finished
<1>7. Apart
  BY <1>1, <1>3, RowsExist DEF Apart
<1>8. OneRecordPerEvent
  BY DEF OneRecordPerEvent
<1> QED
  BY <1>3, <1>4, <1>5, <1>6, <1>7, <1>8 DEF IInv

LEMMA Stuttering ==
  ASSUME IInv, UNCHANGED vars
  PROVE  IInv'
BY DEF vars, given, work, past, projectionVars, IInv, Types, Places, Place, At, Announcements,
       Jobs, RowsOf, Finished, EachVersionAnnounced, Apart, FirstPost, OneRecordPerEvent

LEMMA Inductive ==
  ASSUME IInv, [Next]_vars
  PROVE  IInv'
<1>1. ASSUME NEW d \in Drain, Drained(d) PROVE IInv'
  <2>1. CASE AirtableStep(d)
    <3>1. ASSUME ListAnnouncements(d) \/ \E c \in Request : ClaimAnnouncement(d, c)
          PROVE  IInv'
      BY <3>1, Claiming, Listing DEF ListAnnouncements, ClaimAnnouncement
    <3> QED
      BY <2>1, <3>1, AnnouncementWork DEF AirtableStep
  <2>2. CASE AcceleventsStep(d) /\ UNCHANGED projectionVars
    BY <2>2, JobWork, Claiming, Listing DEF AcceleventsStep
  <2>3. CASE Leave(d)
    BY <2>3, Leaving
  <2> QED
    BY <1>1, <2>1, <2>2, <2>3 DEF Drained
<1>2. ASSUME NEW d \in Drain, Die(d), UNCHANGED projectionVars PROVE IInv'
  BY <1>2, Dying
<1>3. ASSUME NEW c \in Request, EventCommand(c) PROVE IInv'
  BY <1>3, Commands
<1>4. ASSUME NEW c \in Request, UNCHANGED projectionVars,
             PublicationCommand(c) \/ Abandon(c)
      PROVE  IInv'
  BY <1>4, OtherCommands
<1>5. ASSUME NEW c \in Request, Expires(c) PROVE IInv'
  BY <1>5, Expiring
<1> QED
  BY <1>1, <1>2, <1>3, <1>4, <1>5, Stuttering DEF Next

THEOREM Invariance == Spec => []IInv
BY Start, Inductive, PTL DEF Spec

(* updateEventUnit: whatever updates cross, each version of the event is    *)
(* announced once, by the request that made it.                            *)
THEOREM VersionsAnnounced == Spec => []EachVersionAnnounced
<1>1. IInv => EachVersionAnnounced
  BY DEF IInv
<1> QED
  BY <1>1, Invariance, PTL

(* processAirtableOutbox: a death, a lost answer or a refusal at any call  *)
(* makes no second record of an event, unless two drains met at its rows.  *)
THEOREM RecordsAlone == Spec => []OneRecordPerEvent
<1>1. IInv => OneRecordPerEvent
  BY DEF IInv
<1> QED
  BY <1>1, Invariance, PTL

-----------------------------------------------------------------------------
(* Publication: types, and what one step of a projection changes. *)

Projects == RowsOf("project")
ProjectWork == {"site", "load", "items", "search", "adopt", "remember", "update", "make",
                "again", "hide"}
AtItem == {"search", "adopt", "remember", "update", "make", "again"}

Snapshot == [Item -> Face]
Record   == [item : Item, face : Face, shown : BOOLEAN, url : Url]

TablesOK ==
  /\ source \in Snapshot
  /\ programme # None => programme.snapshot \in Snapshot
  /\ conn \in Connection \union {None}
  /\ ident = [x \in Generation \X Item |-> ident[x]]
  /\ remote \in Seq(Record)
LocalsOK ==
  /\ draft \in [Request -> Snapshot]
  /\ prior = [c \in Request |-> prior[c]]
  /\ site \in [Drain -> Connection \union {None}]
  /\ snap \in [Drain -> Snapshot]
  /\ left = [d \in Drain |-> left[d]]
  /\ item = [d \in Drain |-> item[d]]
WorkOK == target = [d \in Drain |-> target[d]] /\ deaths \in Nat /\ faults \in Nat
PubTypes == TablesOK /\ LocalsOK /\ WorkOK

Still(e) == UNCHANGED <<pc[e], row[e], target[e], site[e], snap[e], left[e], item[e]>>
Only(d) == \A e \in Drain \ {d} : Still(e)

\* A step of a projection: the records that were made stay of their items
\* and in their events.
Inside(d) ==
  /\ UNCHANGED <<configured, kind, outbox, step, row, met, deaths, overruns, source, programme,
                 conn, draft, prior, edited, crossed>>
  /\ Only(d)
  /\ faults' \in {faults, faults + 1}
Grown ==
  /\ DOMAIN remote \subseteq DOMAIN remote'
  /\ \A r \in DOMAIN remote : remote'[r].item = remote[r].item /\ remote'[r].url = remote[r].url

LEMMA LocalChange ==
  ASSUME NEW f, f = [d \in Drain |-> f[d]], NEW d \in Drain, NEW v
  PROVE  /\ [f EXCEPT ![d] = v] = [e \in Drain |-> [f EXCEPT ![d] = v][e]]
         /\ [f EXCEPT ![d] = v][d] = v
         /\ \A e \in Drain \ {d} : [f EXCEPT ![d] = v][e] = f[e]
OBVIOUS

LEMMA IdentifyDoes ==
  ASSUME IInv, PubTypes, NEW d \in Drain, NEW i \in Item, Identify(d, i)
  PROVE  /\ Inside(d) /\ PubTypes'
         /\ UNCHANGED <<site, snap, ident, remote, blind, unsure, faults>>
         /\ pc[d] = "items" /\ i \in left[d] /\ (i \in Session => left[d] \subseteq Session)
         /\ left'[d] = left[d] \ {i} /\ item'[d] = i
         /\ IF ident[<<site[d].generation, i>>] = None
            THEN pc'[d] = "search"
            ELSE pc'[d] = "update" /\ target'[d] = ident[<<site[d].generation, i>>]
<1> USE DEF Projecting, Busy, given, past, Goto, Aim
<1>1. Types
  BY DEF IInv
<1>2. \A e \in Drain \ {d} : pc'[e] = pc[e] /\ target'[e] = target[e] /\ left'[e] = left[e] /\ item'[e] = item[e]
  BY <1>1 DEF Identify, PubTypes, LocalsOK, WorkOK, Types
<1>3. Inside(d)
  BY <1>2 DEF Identify, Inside, Only, Still
<1>4. PubTypes'
  BY DEF Identify, PubTypes, LocalsOK, WorkOK, TablesOK
<1> QED
  BY <1>1, <1>3, <1>4 DEF Identify, PubTypes, LocalsOK, WorkOK, Types

LEMMA RecordsHave ==
  ASSUME PubTypes
  PROVE  /\ DOMAIN remote = 1..Len(remote) /\ Len(remote) \in Nat
         /\ \A r \in DOMAIN remote : remote[r] \in Record
         /\ remote = [r \in DOMAIN remote |-> remote[r]]
BY DEF PubTypes, TablesOK

\* What of the types a step of a projection disturbs
LEMMA InsideTypes ==
  ASSUME PubTypes, NEW d \in Drain, Inside(d),
         \E x, v : ident' = [ident EXCEPT ![x] = v] \/ UNCHANGED ident,
         remote' \in Seq(Record),
         site' \in [Drain -> Connection \union {None}], snap' \in [Drain -> Snapshot],
         left' = [e \in Drain |-> left'[e]], item' = [e \in Drain |-> item'[e]],
         target' = [e \in Drain |-> target'[e]]
  PROVE  PubTypes'
<1>1. ident' = [x \in Generation \X Item |-> ident'[x]]
  BY DEF PubTypes, TablesOK, Generation
<1>2. TablesOK'
  BY <1>1 DEF PubTypes, TablesOK, Inside, Snapshot, Face, Connection, Record
<1>3. LocalsOK'
  BY DEF PubTypes, LocalsOK, Inside, Snapshot
<1>4. WorkOK'
  BY DEF PubTypes, WorkOK, Inside
<1> QED
  BY <1>2, <1>3, <1>4 DEF PubTypes

\* A listing has finitely many matches.
LEMMA MatchesCounted ==
  ASSUME PubTypes, NEW d \in Drain
  PROVE  /\ Matches(d) \subseteq DOMAIN remote /\ IsFiniteSet(Matches(d))
         /\ Cardinality(Matches(d)) \in Nat
<1>1. Matches(d) \subseteq 1..Len(remote)
  BY RecordsHave DEF Matches
<1>2. IsFiniteSet(1..Len(remote))
  <2>1. Len(remote) \in Int /\ 1 \in Int
    BY RecordsHave
  <2> QED
    BY <2>1, FS_Interval
<1> QED
  BY <1>1, <1>2, RecordsHave, FS_Subset, FS_CardinalityType

LEMMA SearchDoes ==
  ASSUME IInv, PubTypes, NEW d \in Drain, Search(d)
  PROVE  /\ Inside(d) /\ PubTypes'
         /\ UNCHANGED <<site, snap, left, item, ident, remote>> /\ pc[d] = "search"
         /\ \/ /\ UNCHANGED <<faults, blind>>
               /\ \/ Cardinality(Matches(d)) = 0 /\ pc'[d] = "make"
                  \/ Cardinality(Matches(d)) = 1 /\ pc'[d] = "adopt" /\ target'[d] \in Matches(d)
                  \/ Cardinality(Matches(d)) > 1 /\ pc'[d] = "items"
               /\ unsure' = IF Cardinality(Matches(d)) > 1 THEN unsure \union {item[d]}
                                                           ELSE unsure \ {item[d]}
            \/ faults' = faults + 1 /\ blind' = TRUE /\ pc'[d] = "make" /\ UNCHANGED unsure
            \/ faults' = faults + 1 /\ blind' = blind /\ pc'[d] = "items" /\ UNCHANGED unsure
<1> USE DEF Projecting, Busy, given, past, Goto, Aim, NextItem, Fault
<1> DEFINE M == Matches(d)
<1> HIDE DEF M
<1>1. Types /\ pc[d] = "search" /\ UNCHANGED <<site, snap, left, item, ident, remote>>
  BY DEF IInv, Search
<1>a. Cardinality(M) \in Nat
  BY MatchesCounted DEF M
<1>2. /\ \E l : pc' = [pc EXCEPT ![d] = l]
      /\ \E r : target' = [target EXCEPT ![d] = r] \/ UNCHANGED target
      /\ \/ /\ UNCHANGED <<faults, blind>>
            /\ \/ Cardinality(M) = 0 /\ pc'[d] = "make"
               \/ Cardinality(M) = 1 /\ pc'[d] = "adopt" /\ target'[d] \in M
               \/ Cardinality(M) > 1 /\ pc'[d] = "items"
            /\ unsure' = IF Cardinality(M) > 1 THEN unsure \union {item[d]}
                                               ELSE unsure \ {item[d]}
         \/ faults' = faults + 1 /\ blind' = TRUE /\ pc'[d] = "make" /\ UNCHANGED unsure
         \/ faults' = faults + 1 /\ blind' = blind /\ pc'[d] = "items" /\ UNCHANGED unsure
  <2>1. CASE UNCHANGED <<faults, blind>> /\ Cardinality(M) = 0
    BY <1>1, <2>1 DEF Search, Types, M
  <2>2. CASE ~(UNCHANGED <<faults, blind>> /\ Cardinality(M) = 0)
    BY <1>1, <1>a, <2>2 DEF Search, Types, PubTypes, WorkOK, M
  <2> QED
    BY <2>1, <2>2
<1>3. \A e \in Drain \ {d} : pc'[e] = pc[e] /\ target'[e] = target[e]
  BY <1>1, <1>2 DEF PubTypes, WorkOK, Types
<1>4. Inside(d)
  BY <1>2, <1>3 DEF Search, Inside, Only, Still
<1>5. PubTypes'
  BY <1>1, <1>2, <1>4, InsideTypes DEF PubTypes, LocalsOK, WorkOK, TablesOK
<1> QED
  BY <1>1, <1>2, <1>4, <1>5 DEF M

LEMMA RememberDoes ==
  ASSUME IInv, PubTypes, NEW d \in Drain, Remember(d)
  PROVE  /\ Inside(d) /\ PubTypes'
         /\ UNCHANGED <<site, snap, left, item, remote, blind, unsure, faults>>
         /\ ident' = [ident EXCEPT ![Here(d)] = target[d]]
         /\ \/ pc[d] = "adopt" /\ pc'[d] = "update" /\ target'[d] = target[d]
            \/ pc[d] = "remember" /\ pc'[d] = "items"
<1> USE DEF Projecting, Busy, given, past, Goto, Aim, NextItem
<1>1. /\ Types /\ UNCHANGED <<site, snap, left, item, remote, blind, unsure, faults>>
      /\ ident' = [ident EXCEPT ![Here(d)] = target[d]]
  BY DEF IInv, Remember
<1>2. /\ \E l : pc' = [pc EXCEPT ![d] = l]
      /\ \E r : target' = [target EXCEPT ![d] = r] \/ UNCHANGED target
      /\ \/ pc[d] = "adopt" /\ pc'[d] = "update" /\ target'[d] = target[d]
         \/ pc[d] = "remember" /\ pc'[d] = "items"
  BY <1>1 DEF Remember, Types, PubTypes, WorkOK
<1>3. \A e \in Drain \ {d} : pc'[e] = pc[e] /\ target'[e] = target[e]
  BY <1>1, <1>2 DEF PubTypes, WorkOK, Types
<1>4. Inside(d)
  BY <1>1, <1>3 DEF Remember, Inside, Only, Still
<1>5. PubTypes'
  BY <1>1, <1>2, <1>4, InsideTypes DEF PubTypes, LocalsOK, WorkOK, TablesOK
<1> QED
  BY <1>1, <1>2, <1>4, <1>5

\* What a PUT changes of record r, if the record is of the event at all
Written(d, r, new) ==
  /\ DOMAIN remote' = DOMAIN remote
  /\ \A q \in DOMAIN remote \ {r} : remote'[q] = remote[q]
  /\ \/ remote'[r] = remote[r] /\ (remote[r].url # site[d].url \/ faults' # faults)
     \/ remote'[r] = new       /\ remote[r].url = site[d].url
  /\ faults' \in {faults, faults + 1}

LEMMA ShownChange ==
  ASSUME NEW x \in Record, NEW s
  PROVE  [x EXCEPT !.shown = s] = [item |-> x.item, face |-> x.face, shown |-> s, url |-> x.url]
BY DEF Record

LEMMA FaceChange ==
  ASSUME NEW x \in Record, NEW f \in Face
  PROVE  [x EXCEPT !.face = f, !.shown = TRUE] =
           [item |-> x.item, face |-> f, shown |-> TRUE, url |-> x.url]
<1> DEFINE y == [x EXCEPT !.face = f]
<1>1. y \in Record /\ y.item = x.item /\ y.face = f /\ y.url = x.url
  BY DEF Record
<1> HIDE DEF y
<1>2. [y EXCEPT !.shown = TRUE] = [item |-> y.item, face |-> y.face, shown |-> TRUE, url |-> y.url]
  BY <1>1, ShownChange
<1>3. [y EXCEPT !.shown = TRUE] = [item |-> x.item, face |-> f, shown |-> TRUE, url |-> x.url]
  BY <1>1, <1>2
<1> QED
  BY <1>3, Zenon DEF y

LEMMA PutDoes ==
  ASSUME PubTypes, NEW d \in Drain, NEW r \in DOMAIN remote, NEW new \in Record, Put(d, r, new),
         new.item = remote[r].item, new.url = remote[r].url
  PROVE  Written(d, r, new) /\ Grown /\ remote' \in Seq(Record)
<1> DEFINE after == IF remote[r].url = site[d].url THEN [remote EXCEPT ![r] = new] ELSE remote
<1>1. remote' \in {remote, after} /\ faults' \in {faults, faults + 1}
      /\ (UNCHANGED faults => remote' = after)
  BY DEF Put, Fault, PubTypes, WorkOK
<1>2. [remote EXCEPT ![r] = new] \in Seq(Record) /\ remote \in Seq(Record)
  BY DEF PubTypes, TablesOK
<1>3. Written(d, r, new)
  BY <1>1, RecordsHave DEF Written
<1> QED
  BY <1>1, <1>2, <1>3 DEF Written, Grown

LEMMA UpdateDoes ==
  ASSUME IInv, PubTypes, NEW d \in Drain, Update(d), target[d] \in DOMAIN remote, item[d] \in Item
  PROVE  /\ Inside(d) /\ PubTypes' /\ Grown
         /\ UNCHANGED <<site, snap, left, item, ident, blind, unsure>>
         /\ pc[d] = "update" /\ pc'[d] = "items"
         /\ Written(d, target[d], [item |-> remote[target[d]].item, face |-> snap[d][item[d]],
                                   shown |-> TRUE, url |-> remote[target[d]].url])
<1> USE DEF Projecting, Busy, given, past, Goto, Aim, NextItem
<1> DEFINE t == target[d]
           new == [item |-> remote[t].item, face |-> snap[d][item[d]],
                   shown |-> TRUE, url |-> remote[t].url]
<1>1. /\ Types /\ UNCHANGED <<site, snap, left, item, ident, blind, unsure>>
      /\ pc' = [pc EXCEPT ![d] = "items"] /\ target' = [target EXCEPT ![d] = None]
      /\ pc[d] = "update"
  BY DEF IInv, Update
<1>2. remote[t] \in Record /\ snap[d][item[d]] \in Face
  BY RecordsHave DEF PubTypes, LocalsOK, Snapshot
<1>3. new = [remote[t] EXCEPT !.face = snap[d][item[d]], !.shown = TRUE]
  BY <1>2, FaceChange, Zenon
<1>4. new \in Record /\ new.item = remote[t].item /\ new.url = remote[t].url
  BY <1>2 DEF Record
<1>5. Put(d, t, new)
  BY <1>3 DEF Update
<1> HIDE DEF new
<1>6. Written(d, t, new) /\ Grown /\ remote' \in Seq(Record)
  BY <1>4, <1>5, PutDoes
<1>7. /\ pc'[d] = "items" /\ \A e \in Drain \ {d} : pc'[e] = pc[e] /\ target'[e] = target[e]
      /\ target' = [e \in Drain |-> target'[e]]
  BY <1>1 DEF PubTypes, WorkOK, Types
<1>8. Inside(d)
  BY <1>1, <1>6, <1>7 DEF Update, Inside, Only, Still, Written
<1>9. PubTypes'
  BY <1>1, <1>6, <1>7, <1>8, InsideTypes DEF PubTypes, LocalsOK, TablesOK
<1> QED
  BY <1>1, <1>6, <1>7, <1>8, <1>9 DEF new

LEMMA HideDoes ==
  ASSUME IInv, PubTypes, NEW d \in Drain, NEW r \in DOMAIN remote, Hide(d, r)
  PROVE  /\ Inside(d) /\ PubTypes' /\ Grown
         /\ UNCHANGED <<pc, target, site, snap, item, ident, blind, unsure>>
         /\ pc[d] = "hide" /\ r \in left[d] /\ left'[d] = left[d] \ {r}
         /\ Written(d, r, [item |-> remote[r].item, face |-> remote[r].face,
                           shown |-> FALSE, url |-> remote[r].url])
<1> USE DEF Projecting, Busy, given, past
<1> DEFINE new == [item |-> remote[r].item, face |-> remote[r].face,
                   shown |-> FALSE, url |-> remote[r].url]
<1>1. /\ Types /\ UNCHANGED <<pc, target, site, snap, item, ident, blind, unsure>>
      /\ left' = [left EXCEPT ![d] = left[d] \ {r}] /\ pc[d] = "hide" /\ r \in left[d]
  BY DEF IInv, Hide, PubTypes, LocalsOK
<1>2. remote[r] \in Record
  BY RecordsHave
<1>3. new = [remote[r] EXCEPT !.shown = FALSE]
  BY <1>2, ShownChange, Zenon
<1>4. new \in Record /\ new.item = remote[r].item /\ new.url = remote[r].url
  BY <1>2 DEF Record
<1>5. Put(d, r, new)
  BY <1>3 DEF Hide
<1> HIDE DEF new
<1>6. Written(d, r, new) /\ Grown /\ remote' \in Seq(Record)
  BY <1>4, <1>5, PutDoes
<1>7. /\ left'[d] = left[d] \ {r} /\ \A e \in Drain \ {d} : left'[e] = left[e]
      /\ left' = [e \in Drain |-> left'[e]]
  BY <1>1 DEF PubTypes, LocalsOK
<1>8. Inside(d)
  BY <1>1, <1>6, <1>7 DEF Hide, Inside, Only, Still, Written
<1>9. PubTypes'
  BY <1>1, <1>6, <1>7, <1>8, InsideTypes DEF PubTypes, LocalsOK, TablesOK, WorkOK
<1> QED
  BY <1>1, <1>6, <1>7, <1>8, <1>9 DEF new

\* What a POST adds
Added(r) == /\ remote' = Append(remote, r)
            /\ DOMAIN remote' = 1..(Len(remote) + 1) /\ DOMAIN remote = 1..Len(remote)
            /\ remote'[Len(remote) + 1] = r
            /\ \A q \in DOMAIN remote : remote'[q] = remote[q]

LEMMA AppendDoes ==
  ASSUME PubTypes, NEW r \in Record, remote' = Append(remote, r)
  PROVE  Added(r) /\ Grown /\ remote' \in Seq(Record) /\ Len(remote') = Len(remote) + 1
<1>1. remote \in Seq(Record)
  BY DEF PubTypes, TablesOK
<1>2. /\ Append(remote, r) \in Seq(Record) /\ Len(Append(remote, r)) = Len(remote) + 1
      /\ Append(remote, r)[Len(remote) + 1] = r
      /\ \A q \in 1..Len(remote) : Append(remote, r)[q] = remote[q]
  BY <1>1, AppendProperties
<1>3. DOMAIN remote = 1..Len(remote) /\ DOMAIN remote' = 1..(Len(remote) + 1) /\ Len(remote) \in Nat
  BY <1>1, <1>2
<1>4. Added(r)
  BY <1>2, <1>3 DEF Added
<1> QED
  BY <1>2, <1>3, <1>4 DEF Added, Grown

LEMMA MakeDoes ==
  ASSUME IInv, PubTypes, NEW d \in Drain, Make(d), item[d] \in Item, site[d] # None
  PROVE  /\ Inside(d) /\ PubTypes' /\ Grown
         /\ UNCHANGED <<site, snap, left, item, ident, blind, unsure>> /\ pc[d] = "make"
         /\ \/ pc'[d] = "again" /\ item[d] \in Speaker /\ UNCHANGED <<remote, faults>>
            \/ /\ pc'[d] = "remember" /\ target'[d] = Len(remote) + 1 /\ UNCHANGED faults
               /\ Added([item |-> item[d], face |-> snap[d][item[d]], shown |-> TRUE,
                         url |-> site[d].url])
            \/ /\ pc'[d] = "items" /\ faults' = faults + 1
               /\ \/ UNCHANGED remote
                  \/ Added([item |-> item[d], face |-> snap[d][item[d]], shown |-> TRUE,
                            url |-> site[d].url])
<1> USE DEF Projecting, Busy, given, past, Goto, Aim, NextItem, Fault
<1> DEFINE r == [item |-> item[d], face |-> snap[d][item[d]], shown |-> TRUE, url |-> site[d].url]
           made == Append(remote, r)
<1>1. Types /\ UNCHANGED <<site, snap, left, item, ident, blind, unsure>> /\ pc[d] = "make"
  BY DEF IInv, Make
<1>2. r \in Record
  BY DEF PubTypes, LocalsOK, Snapshot, Record, Connection
<1> HIDE DEF r
<1>3. remote' = made => Added(r) /\ Grown /\ remote' \in Seq(Record)
  BY <1>2, AppendDoes
<1>4. Len(made) = Len(remote) + 1
  BY <1>2, AppendProperties DEF PubTypes, TablesOK
<1> DEFINE Refused == item[d] \in Speaker /\ Matches(d) # {}
<1>5. \/ /\ Refused /\ pc' = [pc EXCEPT ![d] = "again"] /\ UNCHANGED <<target, faults, remote>>
      \/ /\ remote' = made /\ target' = [target EXCEPT ![d] = Len(made)]
         /\ pc' = [pc EXCEPT ![d] = "remember"] /\ UNCHANGED faults
      \/ /\ faults' = faults + 1 /\ remote' \in {remote, made}
         /\ pc' = [pc EXCEPT ![d] = "items"] /\ target' = [target EXCEPT ![d] = None]
  BY DEF Make, r
<1> HIDE DEF Refused, made
<1>6. /\ \E l : pc' = [pc EXCEPT ![d] = l]
      /\ \E q : target' = [target EXCEPT ![d] = q] \/ UNCHANGED target
      /\ remote' \in {remote, made} /\ faults' \in {faults, faults + 1}
  BY <1>5
<1>7. Grown /\ remote' \in Seq(Record)
  BY <1>3, <1>6 DEF Grown, PubTypes, TablesOK
<1>8. /\ \A e \in Drain \ {d} : pc'[e] = pc[e] /\ target'[e] = target[e]
      /\ target' = [e \in Drain |-> target'[e]]
  BY <1>1, <1>6 DEF PubTypes, WorkOK, Types
<1>9. Inside(d)
  BY <1>1, <1>6, <1>8 DEF Make, Inside, Only, Still
<1>10. PubTypes'
  BY <1>1, <1>7, <1>8, <1>9, InsideTypes DEF PubTypes, LocalsOK, TablesOK
<1>11. \/ pc'[d] = "again" /\ item[d] \in Speaker /\ UNCHANGED <<remote, faults>>
       \/ pc'[d] = "remember" /\ target'[d] = Len(remote) + 1 /\ UNCHANGED faults /\ Added(r)
       \/ pc'[d] = "items" /\ faults' = faults + 1 /\ (UNCHANGED remote \/ Added(r))
  BY <1>1, <1>3, <1>4, <1>5 DEF PubTypes, WorkOK, Types, Refused
<1> QED
  BY <1>1, <1>7, <1>9, <1>10, <1>11 DEF r

LEMMA SearchAgainDoes ==
  ASSUME IInv, PubTypes, NEW d \in Drain, SearchAgain(d)
  PROVE  /\ Inside(d) /\ PubTypes'
         /\ UNCHANGED <<site, snap, left, item, ident, remote, blind, unsure>> /\ pc[d] = "again"
         /\ \/ pc'[d] = "remember" /\ target'[d] \in Matches(d) /\ UNCHANGED faults
            \/ pc'[d] = "items" /\ UNCHANGED faults /\ Cardinality(Matches(d)) # 1
            \/ pc'[d] = "items" /\ faults' = faults + 1
<1> USE DEF Projecting, Busy, given, past, Goto, Aim, NextItem, Fault
<1> DEFINE M == Matches(d)
<1> HIDE DEF M
<1>1. Types /\ pc[d] = "again" /\ UNCHANGED <<site, snap, left, item, ident, remote, blind, unsure>>
  BY DEF IInv, SearchAgain
<1>2. /\ \E l : pc' = [pc EXCEPT ![d] = l]
      /\ \E r : target' = [target EXCEPT ![d] = r]
      /\ \/ pc'[d] = "remember" /\ target'[d] \in M /\ UNCHANGED faults
         \/ pc'[d] = "items" /\ UNCHANGED faults /\ Cardinality(M) # 1
         \/ pc'[d] = "items" /\ faults' = faults + 1
  BY <1>1 DEF SearchAgain, Types, PubTypes, WorkOK, M
<1>3. \A e \in Drain \ {d} : pc'[e] = pc[e] /\ target'[e] = target[e]
  BY <1>1, <1>2 DEF PubTypes, WorkOK, Types
<1>4. Inside(d)
  BY <1>1, <1>2, <1>3 DEF SearchAgain, Inside, Only, Still
<1>5. PubTypes'
  BY <1>1, <1>2, <1>4, InsideTypes DEF PubTypes, LocalsOK, WorkOK, TablesOK
<1> QED
  BY <1>1, <1>2, <1>4, <1>5 DEF M

LEMMA ListGoneDoes ==
  ASSUME IInv, PubTypes, NEW d \in Drain, ListGone(d)
  PROVE  /\ Inside(d) /\ PubTypes'
         /\ UNCHANGED <<site, snap, target, ident, remote, blind, unsure, faults>>
         /\ pc[d] = "items" /\ pc'[d] = "hide" /\ left[d] = {}
         /\ left'[d] = {ident[<<site[d].generation, i>>] :
                           i \in {j \in Session : snap[d][j] = None}} \ {None}
<1> USE DEF Projecting, Busy, given, past, Goto
<1> DEFINE L == {ident[<<site[d].generation, i>>] :
                   i \in {j \in Session : snap[d][j] = None}} \ {None}
<1>1. /\ Types /\ pc[d] = "items" /\ left[d] = {}
      /\ UNCHANGED <<site, snap, target, ident, remote, blind, unsure, faults>>
      /\ pc' = [pc EXCEPT ![d] = "hide"]
      /\ left' = [left EXCEPT ![d] = L] /\ item' = [item EXCEPT ![d] = None]
  BY DEF IInv, ListGone
<1> HIDE DEF L
<1>2. \A e \in Drain \ {d} : pc'[e] = pc[e] /\ left'[e] = left[e] /\ item'[e] = item[e]
  BY <1>1 DEF PubTypes, LocalsOK, Types
<1>3. pc'[d] = "hide" /\ left'[d] = L
  BY <1>1 DEF PubTypes, LocalsOK, Types
<1>4. Inside(d)
  BY <1>1, <1>2 DEF ListGone, Inside, Only, Still
<1>5. PubTypes'
  BY <1>1, <1>4, InsideTypes DEF PubTypes, LocalsOK, WorkOK, TablesOK
<1> QED
  BY <1>1, <1>3, <1>4, <1>5 DEF L

LEMMA EndProjectDoes ==
  ASSUME IInv, PubTypes, NEW d \in Drain, EndProject(d)
  PROVE  /\ Inside(d) /\ PubTypes'
         /\ UNCHANGED <<site, snap, target, left, item, ident, remote, blind, unsure, faults>>
         /\ pc[d] = "hide" /\ pc'[d] = "retire" /\ left[d] = {}
<1> USE DEF Projecting, Busy, given, past, Goto
<1>1. /\ Types /\ pc[d] = "hide" /\ left[d] = {}
      /\ UNCHANGED <<site, snap, target, left, item, ident, remote, blind, unsure, faults>>
      /\ pc' = [pc EXCEPT ![d] = "retire"]
  BY DEF IInv, EndProject
<1>2. pc'[d] = "retire" /\ \A e \in Drain \ {d} : pc'[e] = pc[e]
  BY <1>1 DEF Types
<1>3. Inside(d)
  BY <1>1, <1>2 DEF EndProject, Inside, Only, Still
<1>4. PubTypes'
  BY <1>1, <1>3, InsideTypes DEF PubTypes, LocalsOK, WorkOK, TablesOK
<1> QED
  BY <1>1, <1>2, <1>3, <1>4

LEMMA ReadDoes ==
  ASSUME IInv, PubTypes, NEW d \in Drain, ReadSite(d) \/ ReadConnection(d)
  PROVE  /\ Inside(d) /\ PubTypes'
         /\ UNCHANGED <<snap, target, left, item, ident, remote, blind, unsure, faults>>
         /\ site'[d] = conn
         /\ IF ReadSite(d)
            THEN pc[d] = "site" /\ pc'[d] = IF Ready(conn) THEN "load" ELSE "retire"
            ELSE pc[d] = "connection" /\ pc'[d] = IF conn = None THEN "retire" ELSE "report"
<1> USE DEF Busy, given, past, Goto
<1>1. /\ Types
      /\ UNCHANGED <<snap, target, left, item, ident, remote, blind, unsure, faults>>
      /\ site' = [site EXCEPT ![d] = conn]
      /\ \E l : pc' = [pc EXCEPT ![d] = l]
  BY DEF IInv, ReadSite, ReadConnection
<1>2. site'[d] = conn /\ \A e \in Drain \ {d} : pc'[e] = pc[e] /\ site'[e] = site[e]
  BY <1>1 DEF Types, PubTypes, LocalsOK
<1>3. Inside(d)
  BY <1>1, <1>2 DEF ReadSite, ReadConnection, Inside, Only, Still
<1>4. PubTypes'
  BY <1>1, <1>3, InsideTypes DEF PubTypes, LocalsOK, WorkOK, TablesOK
<1>5. IF ReadSite(d)
      THEN pc[d] = "site" /\ pc'[d] = IF Ready(conn) THEN "load" ELSE "retire"
      ELSE pc[d] = "connection" /\ pc'[d] = IF conn = None THEN "retire" ELSE "report"
  BY <1>1 DEF ReadSite, ReadConnection, Types
<1> QED
  BY <1>1, <1>2, <1>3, <1>4, <1>5

LEMMA LoadSnapshotDoes ==
  ASSUME IInv, PubTypes, NEW d \in Drain, LoadSnapshot(d)
  PROVE  /\ Inside(d) /\ PubTypes'
         /\ UNCHANGED <<site, target, item, ident, remote, blind, unsure, faults>> /\ pc[d] = "load"
         /\ IF programme = None
            THEN pc'[d] = "retire" /\ UNCHANGED <<snap, left>>
            ELSE /\ pc'[d] = "items" /\ left'[d] = {i \in Item : snap'[d][i] # None}
                 /\ \A i \in Item : snap'[d][i] = IF i \in Speaker THEN source[i]
                                                    ELSE programme.snapshot[i]
<1> USE DEF Busy, given, past, Goto
<1> DEFINE s == [i \in Item |-> IF i \in Speaker THEN source[i] ELSE programme.snapshot[i]]
<1>1. /\ Types /\ pc[d] = "load"
      /\ UNCHANGED <<site, target, item, ident, remote, blind, unsure, faults>>
      /\ \/ /\ programme = None /\ pc' = [pc EXCEPT ![d] = "retire"] /\ UNCHANGED <<snap, left>>
         \/ /\ programme # None /\ pc' = [pc EXCEPT ![d] = "items"]
            /\ snap' = [snap EXCEPT ![d] = s]
            /\ left' = [left EXCEPT ![d] = {i \in Item : s[i] # None}]
  BY DEF IInv, LoadSnapshot
<1>2. programme # None => s \in Snapshot
  BY DEF PubTypes, TablesOK, Snapshot
<1>3. \A i \in Item : s[i] = IF i \in Speaker THEN source[i] ELSE programme.snapshot[i]
  OBVIOUS
<1> HIDE DEF s
<1>4. /\ \A e \in Drain \ {d} : pc'[e] = pc[e] /\ snap'[e] = snap[e] /\ left'[e] = left[e]
      /\ snap' \in [Drain -> Snapshot] /\ left' = [e \in Drain |-> left'[e]]
  BY <1>1, <1>2 DEF Types, PubTypes, LocalsOK
<1>5. IF programme = None
      THEN pc'[d] = "retire" /\ UNCHANGED <<snap, left>>
      ELSE /\ pc'[d] = "items" /\ snap'[d] = s
           /\ left'[d] = {i \in Item : s[i] # None}
  BY <1>1 DEF Types, PubTypes, LocalsOK
<1>6. Inside(d)
  BY <1>1, <1>4 DEF LoadSnapshot, Inside, Only, Still
<1>7. PubTypes'
  BY <1>1, <1>4, <1>6, InsideTypes DEF PubTypes, LocalsOK, WorkOK, TablesOK
<1> QED
  BY <1>1, <1>3, <1>5, <1>6, <1>7

-----------------------------------------------------------------------------
(* What the steps of a drain that projects nothing change *)

\* A step of a drain that projects nothing: it begins no projection but by
\* claiming its row.
Outside(d) ==
  /\ Only(d) /\ SameRows
  /\ UNCHANGED <<configured, kind, step, source, programme, conn, ident, remote, draft, prior,
                 edited, crossed, blind, unsure>>
  /\ site'[d] \in {site[d], None}
  /\ \/ pc'[d] \notin ProjectWork \union {"report"}
     \/ pc'[d] = "site" /\ row'[d] \in Projects
  /\ pc'[d] = "fail" /\ row'[d] \in Projects => ~configured

LEMMA ProjectsAre ==
  ASSUME Types
  PROVE  /\ Projects \subseteq Jobs /\ Projects \cap Announcements = {} /\ None \notin Projects
         /\ Projects \subseteq Request
BY RowsExist, NoneAssumption DEF Projects, Jobs, Announcements, RowsOf

\* Types change with the drains' own variables at most.
LEMMA OutsideTypes ==
  ASSUME PubTypes, UNCHANGED <<tables, draft, prior>>,
         target' = [e \in Drain |-> target'[e]],
         deaths' \in Nat, faults' \in Nat,
         \/ UNCHANGED <<site, snap, left, item>>
         \/ \E d \in Drain : Forget(d)
  PROVE  PubTypes'
<1>1. TablesOK'
  BY DEF PubTypes, TablesOK, tables, Snapshot, Face, Connection, Record, Generation
<1>2. LocalsOK'
  <2>1. CASE UNCHANGED <<site, snap, left, item>>
    BY <2>1 DEF PubTypes, LocalsOK, Snapshot
  <2>2. ASSUME NEW d \in Drain, Forget(d) PROVE LocalsOK'
    <3>1. NoSnapshot \in Snapshot
      BY DEF NoSnapshot, Snapshot, Face
    <3>2. snap' \in [Drain -> Snapshot] /\ site' \in [Drain -> Connection \union {None}]
      BY <2>2, <3>1 DEF PubTypes, LocalsOK, Forget
    <3> QED
      BY <2>2, <3>2 DEF PubTypes, LocalsOK, Forget, Snapshot
  <2> QED
    BY <2>1, <2>2
<1>3. WorkOK'
  BY DEF WorkOK
<1> QED
  BY <1>1, <1>2, <1>3 DEF PubTypes

LEMMA ListingDoes ==
  ASSUME IInv, PubTypes, NEW d \in Drain, UNCHANGED <<projectionVars, publicationVars>>,
         ListAnnouncements(d) \/ ListVerifies(d) \/ ListProjects(d) \/ Rest(d)
  PROVE  /\ Outside(d) /\ PubTypes'
         /\ UNCHANGED <<outbox, row, met, deaths, faults, overruns>>
         /\ row[d] = None
<1> USE DEF Goto, given, past, publicationVars, locals, tables, marks
<1>1. /\ Types /\ Place(d) /\ UNCHANGED <<configured, kind, outbox, step, row, target, met, deaths, faults, overruns>>
      /\ pc[d] \in {"idle", "airtable", "projects", "accelevents"}
      /\ \E l \in {"idle", "airtable", "projects", "accelevents"} : pc' = [pc EXCEPT ![d] = l]
  BY DEF IInv, Places, ListAnnouncements, ListVerifies, ListProjects, Rest, Idle
<1>2. /\ row[d] = None /\ pc'[d] \in {"idle", "airtable", "projects", "accelevents"}
      /\ \A e \in Drain \ {d} : pc'[e] = pc[e]
  BY <1>1 DEF Types, Place, AirtableWork, AcceleventsWork, Ends
<1>3. SameRows
  BY <1>1, NoChange
<1>4. Outside(d)
  BY <1>1, <1>2, <1>3 DEF Outside, Only, Still, ProjectWork
<1>5. PubTypes'
  BY <1>1, OutsideTypes DEF PubTypes, WorkOK
<1> QED
  BY <1>1, <1>2, <1>4, <1>5

\* A claim takes a row, or passes it over.
LEMMA ClaimDoes ==
  ASSUME IInv, PubTypes, NEW d \in Drain, NEW c \in Request, UNCHANGED publicationVars,
         ClaimAnnouncement(d, c) \/ ClaimJob(d, c)
  PROVE  /\ Outside(d) /\ PubTypes' /\ row[d] = None /\ c \in batch[d] /\ outbox[c] # None
         /\ UNCHANGED <<deaths, faults, overruns>>
         /\ \/ UNCHANGED <<outbox, pc, row, met>>
            \/ /\ row'[d] = c /\ ~outbox[c].done /\ ~Leased(c)
               /\ outbox' = [outbox EXCEPT ![c].holder = d, ![c].live = TRUE]
               /\ met' = (met \/ \E e \in Drain : /\ row[e] # None
                                                  /\ outbox[row[e]].topic = outbox[c].topic)
               /\ c \in Projects => pc'[d] = IF configured THEN "site" ELSE "fail"
<1> USE DEF Goto, given, past, publicationVars, locals, tables, marks
<1>1. /\ Types /\ Place(d) /\ c \in batch[d] /\ pc[d] \in {"airtable", "accelevents"}
      /\ pc[d] = "airtable" <=> ClaimAnnouncement(d, c)
  BY DEF IInv, Places, ClaimAnnouncement, ClaimJob
<1>2. /\ row[d] = None
      /\ pc[d] = "airtable" => c \in Announcements
      /\ pc[d] = "accelevents" => c \in Jobs
  BY <1>1 DEF Place, AirtableWork, AcceleventsWork, Ends
<1>3. outbox[c] # None /\ outbox[c] \in OutboxRow /\ c \in Request
      /\ (pc[d] = "airtable" => c \notin Projects)
      /\ (pc[d] = "accelevents" /\ outbox[c].topic # "verify" => c \in Projects)
  BY <1>1, <1>2, RowsExist, ProjectsAre, NoneAssumption DEF Types, Jobs, RowsOf, Projects
<1>4. PICK l \in {"find", "connection", "site", "fail"} :
         /\ Claim(d, c, l)
         /\ l = "site" => c \in Projects /\ configured
         /\ l = "fail" => c \in Projects /\ ~configured
         /\ c \in Projects => l \in {"site", "fail"}
  <2>1. CASE pc[d] = "airtable"
    BY <1>1, <1>3, <2>1 DEF ClaimAnnouncement
  <2>2. CASE pc[d] # "airtable"
    <3>1. Claim(d, c, IF outbox[c].topic = "verify" THEN "connection"
                      ELSE IF configured THEN "site" ELSE "fail")
      BY <1>1, <2>2 DEF ClaimJob
    <3>2. outbox[c].topic = "verify" => c \notin Projects
      BY DEF Projects, RowsOf
    <3> QED
      BY <1>1, <1>3, <2>2, <3>1, <3>2
  <2> QED
    BY <2>1, <2>2
<1>5. SameRows
  BY <1>1, <1>3, <1>4, ClaimRows
<1>6. UNCHANGED <<configured, kind, step, target, deaths, faults, overruns>>
  BY <1>4 DEF Claim
<1>7. PubTypes'
  BY <1>6, OutsideTypes DEF PubTypes, WorkOK
<1>8. CASE UNCHANGED <<outbox, row, met, pc>>
  <2>1. Outside(d)
    BY <1>1, <1>5, <1>6, <1>8, <1>2, ProjectsAre DEF Outside, Only, Still, ProjectWork
  <2> QED
    BY <1>1, <1>2, <1>3, <1>6, <1>7, <1>8, <2>1
<1>9. CASE ~UNCHANGED <<outbox, row, met, pc>>
  <2>1. /\ ~outbox[c].done /\ ~Leased(c)
        /\ row' = [row EXCEPT ![d] = c] /\ pc' = [pc EXCEPT ![d] = l]
        /\ outbox' = [outbox EXCEPT ![c].holder = d, ![c].live = TRUE]
        /\ met' = (met \/ \E e \in Drain : /\ row[e] # None
                                           /\ outbox[row[e]].topic = outbox[c].topic)
    BY <1>4, <1>9 DEF Claim
  <2>2. /\ row'[d] = c /\ pc'[d] = l
        /\ \A e \in Drain \ {d} : pc'[e] = pc[e] /\ row'[e] = row[e]
    BY <1>1, <2>1 DEF Types
  <2>3. Outside(d)
    BY <1>4, <1>5, <1>6, <2>2 DEF Outside, Only, Still, ProjectWork
  <2> QED
    BY <1>1, <1>2, <1>3, <1>4, <1>6, <1>7, <2>1, <2>2, <2>3
<1> QED
  BY <1>8, <1>9

LEMMA AnnouncingDoes ==
  ASSUME IInv, PubTypes, NEW d \in Drain, UNCHANGED publicationVars,
         \/ FindProjection(d) \/ LookUp(d) \/ Post(d) \/ Patch(d) \/ FindLink(d) \/ WriteLink(d)
  PROVE  /\ Outside(d) /\ PubTypes' /\ row[d] \in Announcements /\ row[d] \notin Projects
         /\ UNCHANGED <<outbox, row, met, deaths, overruns>>
         /\ faults' \in {faults, faults + 1}
<1> USE DEF Working, Goto, Aim, Answered, Fault, given, past, publicationVars, locals, tables, marks
<1>1. /\ Types /\ Place(d) /\ UNCHANGED <<configured, kind, outbox, step, row, met, deaths, overruns>>
      /\ pc[d] \in AirtableWork
  BY DEF IInv, Places, FindProjection, LookUp, Post, Patch, FindLink, WriteLink, AirtableWork
<1>2. row[d] \in Announcements /\ row[d] \notin Projects
  BY <1>1, ProjectsAre DEF Place, At, AirtableWork, AcceleventsWork, Ends
<1>3. \E l \in AirtableWork \union Ends : pc' = [pc EXCEPT ![d] = l]
  <2> USE DEF AirtableWork, Ends
  <2>1. CASE FindProjection(d) \/ LookUp(d) \/ FindLink(d)
    BY <2>1 DEF FindProjection, LookUp, FindLink
  <2>2. CASE Post(d) \/ Patch(d) \/ WriteLink(d)
    BY <2>2 DEF Post, Patch, WriteLink
  <2> QED
    BY <2>1, <2>2
<1>4. \/ UNCHANGED target
      \/ \E r : target' = [target EXCEPT ![d] = r]
  <2>1. CASE FindProjection(d) \/ LookUp(d) \/ FindLink(d)
    BY <2>1 DEF FindProjection, LookUp, FindLink
  <2>2. CASE Post(d) \/ Patch(d) \/ WriteLink(d)
    BY <2>2 DEF Post, Patch, WriteLink
  <2> QED
    BY <2>1, <2>2
<1>5. faults' \in {faults, faults + 1}
  <2>1. CASE FindProjection(d) \/ LookUp(d) \/ FindLink(d)
    BY <2>1 DEF FindProjection, LookUp, FindLink
  <2>2. CASE Post(d) \/ Patch(d) \/ WriteLink(d)
    BY <2>2 DEF Post, Patch, WriteLink
  <2> QED
    BY <2>1, <2>2
<1>6. /\ pc'[d] \in AirtableWork \union Ends
      /\ \A e \in Drain \ {d} : pc'[e] = pc[e] /\ target'[e] = target[e]
      /\ target' = [e \in Drain |-> target'[e]]
  BY <1>1, <1>3, <1>4 DEF Types, PubTypes, WorkOK
<1>7. SameRows
  BY <1>1, NoChange
<1>8. Outside(d)
  BY <1>1, <1>2, <1>6, <1>7 DEF Outside, Only, Still, ProjectWork, AirtableWork, Ends
<1>9. PubTypes'
  BY <1>1, <1>5, <1>6, OutsideTypes DEF PubTypes, WorkOK
<1> QED
  BY <1>1, <1>2, <1>5, <1>8, <1>9

LEMMA LeaveDoes ==
  ASSUME IInv, PubTypes, NEW d \in Drain, Leave(d)
  PROVE  /\ Outside(d) /\ PubTypes' /\ row'[d] = None /\ row[d] \in Request /\ outbox[row[d]] # None
         /\ pc'[d] \in {"airtable", "accelevents"} /\ site'[d] = None
         /\ UNCHANGED <<met, deaths, faults, overruns>>
         /\ \A c \in Request \ {row[d]} : outbox'[c] = outbox[c]
         /\ \/ pc[d] = "retire" /\ outbox'[row[d]].done
            \/ /\ pc[d] = "fail" /\ outbox'[row[d]].done = outbox[row[d]].done
               /\ outbox'[row[d]].holder = None
<1> USE DEF given, past, tables, marks, Goto
<1>1. /\ Types /\ Place(d) /\ pc[d] \in Ends /\ (MarkProcessed(d) \/ MarkError(d)) /\ Forget(d)
      /\ UNCHANGED <<configured, kind, step, met, deaths, faults, overruns>>
      /\ row' = [row EXCEPT ![d] = None] /\ target' = [target EXCEPT ![d] = None]
      /\ pc' = [pc EXCEPT ![d] = Loop(d)]
  BY DEF IInv, Places, Leave, MarkProcessed, MarkError, LeaveRow, Ends
<1>2. row[d] \in Announcements \union Jobs
  BY <1>1 DEF Place, At, Ends, AirtableWork, AcceleventsWork
<1>3. row[d] # None /\ outbox[row[d]] # None /\ row[d] \in Request /\ outbox[row[d]] \in OutboxRow
  BY <1>1, <1>2, RowsExist, NoneAssumption DEF Types
<1>4. SameRows
  BY <1>1, <1>3, LeaveRows
<1>5. /\ UNCHANGED <<source, programme, conn, ident, remote, draft, prior, edited, crossed, blind, unsure>>
      /\ site' = [site EXCEPT ![d] = None] /\ snap' = [snap EXCEPT ![d] = NoSnapshot]
      /\ left' = [left EXCEPT ![d] = {}] /\ item' = [item EXCEPT ![d] = None]
  BY <1>1 DEF Forget
<1>6. /\ row'[d] = None /\ pc'[d] \in {"airtable", "accelevents"} /\ site'[d] = None
      /\ \A e \in Drain \ {d} : Still(e)
      /\ target' = [e \in Drain |-> target'[e]]
  BY <1>1, <1>5 DEF Types, PubTypes, LocalsOK, WorkOK, Still, Loop
<1>7. Outside(d)
  BY <1>1, <1>4, <1>5, <1>6, ProjectsAre DEF Outside, Only, ProjectWork
<1>8. PubTypes'
  BY <1>1, <1>5, <1>6, OutsideTypes DEF PubTypes, WorkOK
<1>9. /\ \A c \in Request \ {row[d]} : outbox'[c] = outbox[c]
      /\ \/ pc[d] = "retire" /\ outbox'[row[d]].done
         \/ /\ pc[d] = "fail" /\ outbox'[row[d]].done = outbox[row[d]].done
            /\ outbox'[row[d]].holder = None
  BY <1>1, <1>3 DEF Types, MarkProcessed, MarkError, OutboxRow
<1> QED
  BY <1>1, <1>3, <1>6, <1>7, <1>8, <1>9

LEMMA DieDoes ==
  ASSUME IInv, PubTypes, NEW d \in Drain, Die(d), Forget(d)
  PROVE  /\ Outside(d) /\ PubTypes' /\ row'[d] = None /\ pc'[d] = "idle" /\ site'[d] = None
         /\ UNCHANGED <<outbox, met, faults, overruns>> /\ deaths' = deaths + 1
<1> USE DEF given, tables, marks, Goto
<1>1. /\ Types /\ UNCHANGED <<configured, kind, step, outbox, met, faults, overruns>>
      /\ row' = [row EXCEPT ![d] = None] /\ target' = [target EXCEPT ![d] = None]
      /\ pc' = [pc EXCEPT ![d] = "idle"] /\ deaths' = deaths + 1
  BY DEF IInv, Die
<1>2. SameRows
  BY <1>1, NoChange
<1>3. /\ UNCHANGED <<source, programme, conn, ident, remote, draft, prior, edited, crossed, blind, unsure>>
      /\ site' = [site EXCEPT ![d] = None] /\ snap' = [snap EXCEPT ![d] = NoSnapshot]
      /\ left' = [left EXCEPT ![d] = {}] /\ item' = [item EXCEPT ![d] = None]
  BY <1>1 DEF Forget
<1>4. /\ row'[d] = None /\ pc'[d] = "idle" /\ site'[d] = None
      /\ \A e \in Drain \ {d} : Still(e)
      /\ target' = [e \in Drain |-> target'[e]]
  BY <1>1, <1>3 DEF Types, PubTypes, LocalsOK, WorkOK, Still
<1>5. Outside(d)
  BY <1>1, <1>2, <1>3, <1>4 DEF Outside, Only, ProjectWork
<1>6. PubTypes'
  BY <1>1, <1>3, <1>4, OutsideTypes DEF PubTypes, WorkOK
<1> QED
  BY <1>1, <1>4, <1>5, <1>6

-----------------------------------------------------------------------------
(* What the steps of requests change, and what ends a verification *)

\* A step of a request: the drains stay where they are.
Served(c) ==
  /\ UNCHANGED <<configured, kind, pc, row, target, site, snap, left, item, ident, remote,
                 blind, unsure, met, faults, overruns>>
  /\ step[c] # "done" /\ step'[c] # "begin"
  /\ \A b \in Request \ {c} : UNCHANGED <<step[b], draft[b], prior[b]>>
Tables(c) == UNCHANGED <<source, programme, conn, edited, crossed>>

LEMMA ServingDoes ==
  ASSUME IInv, PubTypes, NEW c \in Request, NEW k, NEW l, Serving(c, k, l), l # "done",
         NEW t, t # "begin", Turn(c, t),
         \/ UNCHANGED draft
         \/ \E s \in Snapshot : draft' = [draft EXCEPT ![c] = s],
         \/ UNCHANGED prior
         \/ \E v : prior' = [prior EXCEPT ![c] = v],
         source' \in Snapshot, programme' # None => programme'.snapshot \in Snapshot,
         conn' \in Connection \union {None}
  PROVE  Served(c) /\ PubTypes' /\ step'[c] = t /\ kind[c] = k /\ step[c] = l /\ UNCHANGED deaths
<1> USE DEF given, past, work, Turn
<1>1. /\ Types /\ UNCHANGED <<configured, kind, pc, row, target, site, snap, left, item, ident,
                              remote, blind, unsure, met, deaths, faults, overruns>>
      /\ step' = [step EXCEPT ![c] = t] /\ kind[c] = k /\ step[c] = l
  BY DEF IInv, Serving
<1>2. /\ step'[c] = t
      /\ \A b \in Request \ {c} : UNCHANGED <<step[b], draft[b], prior[b]>>
  BY <1>1 DEF Types, PubTypes, LocalsOK
<1>3. TablesOK'
  BY <1>1 DEF PubTypes, TablesOK, Generation, Snapshot, Face, Connection, Record
<1>4. LocalsOK'
  BY <1>1 DEF PubTypes, LocalsOK, Snapshot
<1>5. WorkOK'
  BY <1>1 DEF PubTypes, WorkOK
<1> QED
  BY <1>1, <1>2, <1>3, <1>4, <1>5 DEF Served, PubTypes

LEMMA ReturnDoes ==
  ASSUME PubTypes, NEW c \in Request, Return(c)
  PROVE  /\ \E s \in Snapshot : draft' = [draft EXCEPT ![c] = s]
         /\ \E v : prior' = [prior EXCEPT ![c] = v]
BY DEF Return, NoSnapshot, Snapshot, Face

LEMMA TablesTyped ==
  ASSUME PubTypes
  PROVE  /\ source \in Snapshot /\ (programme # None => programme.snapshot \in Snapshot)
         /\ conn \in Connection \union {None}
         /\ \A c \in Request : draft[c] \in Snapshot
BY DEF PubTypes, TablesOK, LocalsOK

LEMMA EditDoes ==
  ASSUME IInv, PubTypes, NEW c \in Request, NEW i \in Item, NEW f \in FaceOf[i] \union {None},
         Edit(c, i, f)
  PROVE  /\ Served(c) /\ PubTypes' /\ UNCHANGED <<outbox, deaths, programme, conn, draft, prior, crossed>>
         /\ edited' = TRUE /\ step[c] = "begin" /\ step'[c] = "done"
<1>1. f \in Face
  BY DEF Face
<1>2. source' \in Snapshot
  BY <1>1 DEF Edit, PubTypes, TablesOK, Snapshot
<1>3. /\ Serving(c, "edit", "begin") /\ Turn(c, "done") /\ edited' = TRUE
      /\ UNCHANGED <<outbox, programme, conn, draft, prior, crossed>>
  BY DEF Edit
<1> QED
  BY <1>2, <1>3, ServingDoes, TablesTyped

LEMMA ComposeDoes ==
  ASSUME IInv, PubTypes, NEW c \in Request, Compose(c)
  PROVE  /\ Served(c) /\ PubTypes' /\ Tables(c) /\ UNCHANGED <<outbox, deaths, prior>>
         /\ kind[c] = "publish" /\ step[c] = "begin" /\ step'[c] = "previous"
         /\ draft'[c] = source
<1>1. /\ Serving(c, "publish", "begin") /\ Turn(c, "previous")
      /\ draft' = [draft EXCEPT ![c] = source]
      /\ UNCHANGED <<outbox, programme, conn, prior, crossed>>
  BY DEF Compose
<1>2. UNCHANGED <<source, edited>>
  BY <1>1 DEF Serving
<1>3. Served(c) /\ PubTypes' /\ step'[c] = "previous" /\ kind[c] = "publish" /\ step[c] = "begin"
      /\ UNCHANGED deaths
  BY <1>1, <1>2, ServingDoes, TablesTyped
<1>4. draft'[c] = source
  BY <1>1 DEF PubTypes, LocalsOK
<1> QED
  BY <1>1, <1>2, <1>3, <1>4 DEF Tables

LEMMA ReadPreviousDoes ==
  ASSUME IInv, PubTypes, NEW c \in Request, ReadPrevious(c)
  PROVE  /\ Served(c) /\ PubTypes' /\ Tables(c) /\ UNCHANGED <<outbox, deaths, draft>>
         /\ kind[c] = "publish" /\ step[c] = "previous" /\ step'[c] = "compare"
<1>1. /\ Serving(c, "publish", "previous") /\ Turn(c, "compare")
      /\ \E v : prior' = [prior EXCEPT ![c] = v]
      /\ UNCHANGED <<outbox, programme, conn, draft, crossed>>
  BY DEF ReadPrevious
<1>2. UNCHANGED <<source, edited>>
  BY <1>1 DEF Serving
<1>3. Served(c) /\ PubTypes' /\ step'[c] = "compare" /\ kind[c] = "publish" /\ step[c] = "previous"
      /\ UNCHANGED deaths
  BY <1>1, <1>2, ServingDoes, TablesTyped
<1> QED
  BY <1>1, <1>2, <1>3 DEF Tables

LEMMA ComparePreviousDoes ==
  ASSUME IInv, PubTypes, NEW c \in Request, ComparePrevious(c)
  PROVE  /\ Served(c) /\ PubTypes' /\ Tables(c) /\ UNCHANGED <<outbox, deaths>>
         /\ kind[c] = "publish" /\ step[c] = "compare"
         /\ \/ step'[c] = "done"
            \/ step'[c] \in {"insert", "replace"} /\ UNCHANGED <<draft, prior>>
<1>1. /\ Serving(c, "publish", "compare")
      /\ \/ Turn(c, "done") /\ Return(c)
         \/ (Turn(c, "insert") \/ Turn(c, "replace")) /\ UNCHANGED <<draft, prior>>
      /\ UNCHANGED <<outbox, programme, conn, crossed>>
  BY DEF ComparePrevious
<1>2. UNCHANGED <<source, edited>>
  BY <1>1 DEF Serving
<1>3. CASE Turn(c, "done") /\ Return(c)
  <2>1. Served(c) /\ PubTypes' /\ step'[c] = "done" /\ kind[c] = "publish" /\ step[c] = "compare"
        /\ UNCHANGED deaths
    BY <1>1, <1>2, <1>3, ServingDoes, TablesTyped, ReturnDoes
  <2> QED
    BY <1>1, <1>2, <2>1 DEF Tables
<1>4. CASE (Turn(c, "insert") \/ Turn(c, "replace")) /\ UNCHANGED <<draft, prior>>
  <2>1. Served(c) /\ PubTypes' /\ step'[c] \in {"insert", "replace"} /\ kind[c] = "publish"
        /\ step[c] = "compare" /\ UNCHANGED deaths
    BY <1>1, <1>2, <1>4, ServingDoes, TablesTyped
  <2> QED
    BY <1>1, <1>2, <1>4, <2>1 DEF Tables
<1> QED
  BY <1>1, <1>3, <1>4

LEMMA StoreProgrammeDoes ==
  ASSUME IInv, PubTypes, NEW c \in Request, StoreProgramme(c)
  PROVE  /\ Served(c) /\ PubTypes' /\ UNCHANGED <<outbox, deaths, source, conn, edited, crossed>>
         /\ kind[c] = "publish" /\ step[c] \in {"insert", "replace"}
         /\ \/ step'[c] = "done" /\ UNCHANGED programme
            \/ step'[c] = "ready" /\ programme'.snapshot = draft[c]
<1>1. PICK l \in {"insert", "replace"} : Serving(c, "publish", l)
  BY DEF StoreProgramme
<1>2. /\ Return(c) /\ UNCHANGED <<outbox, conn, crossed>>
      /\ \/ Turn(c, "done") /\ UNCHANGED programme
         \/ Turn(c, "ready") /\ programme' = [version |-> prior[c] + 1, snapshot |-> draft[c]]
  BY DEF StoreProgramme
<1>3. UNCHANGED <<source, edited>>
  BY <1>1 DEF Serving
<1>4. CASE Turn(c, "done") /\ UNCHANGED programme
  <2>1. Served(c) /\ PubTypes' /\ step'[c] = "done" /\ kind[c] = "publish" /\ step[c] = l
        /\ UNCHANGED deaths
    BY <1>1, <1>2, <1>3, <1>4, ServingDoes, TablesTyped, ReturnDoes
  <2> QED
    BY <1>2, <1>3, <1>4, <2>1
<1>5. CASE Turn(c, "ready") /\ programme' = [version |-> prior[c] + 1, snapshot |-> draft[c]]
  <2>1. programme'.snapshot = draft[c]
    BY <1>5
  <2>2. Served(c) /\ PubTypes' /\ step'[c] = "ready" /\ kind[c] = "publish" /\ step[c] = l
        /\ UNCHANGED deaths
    BY <1>1, <1>2, <1>3, <1>5, <2>1, ServingDoes, TablesTyped, ReturnDoes
  <2> QED
    BY <1>2, <1>3, <2>1, <2>2
<1> QED
  BY <1>2, <1>4, <1>5

LEMMA CheckReadyDoes ==
  ASSUME IInv, PubTypes, NEW c \in Request, CheckReady(c)
  PROVE  /\ Served(c) /\ PubTypes' /\ Tables(c) /\ UNCHANGED <<outbox, deaths, draft, prior>>
         /\ kind[c] = "publish" /\ step[c] = "ready"
         /\ step'[c] = IF Ready(conn) /\ configured THEN "enlist" ELSE "done"
<1> DEFINE t == IF Ready(conn) /\ configured THEN "enlist" ELSE "done"
<1>1. /\ Serving(c, "publish", "ready") /\ Turn(c, t)
      /\ UNCHANGED <<outbox, programme, conn, draft, prior, crossed>>
  BY DEF CheckReady
<1>2. UNCHANGED <<source, edited>>
  BY <1>1 DEF Serving
<1>3. t # "begin"
  OBVIOUS
<1> HIDE DEF t
<1>4. Served(c) /\ PubTypes' /\ step'[c] = t /\ kind[c] = "publish" /\ step[c] = "ready"
      /\ UNCHANGED deaths
  BY <1>1, <1>2, <1>3, ServingDoes, TablesTyped
<1> QED
  BY <1>1, <1>2, <1>4 DEF Tables, t

LEMMA EnlistDoes ==
  ASSUME IInv, PubTypes, NEW c \in Request, Enlist(c), kind[c] # "edit"
  PROVE  /\ Served(c) /\ PubTypes' /\ Tables(c) /\ UNCHANGED <<outbox, deaths, draft, prior>>
         /\ step[c] = "enlist"
         /\ step'[c] = IF Waiting(TopicOf(c)) = {} THEN "add" ELSE "done"
<1> DEFINE t == IF Waiting(TopicOf(c)) = {} THEN "add" ELSE "done"
<1>1. /\ Serving(c, kind[c], "enlist") /\ Turn(c, t)
      /\ UNCHANGED <<outbox, programme, conn, draft, prior, crossed>>
  BY DEF Enlist
<1>2. UNCHANGED <<source, edited>>
  BY <1>1 DEF Serving
<1>3. t # "begin"
  OBVIOUS
<1> HIDE DEF t
<1>4. Served(c) /\ PubTypes' /\ step'[c] = t /\ step[c] = "enlist" /\ UNCHANGED deaths
  BY <1>1, <1>2, <1>3, ServingDoes, TablesTyped
<1> QED
  BY <1>1, <1>2, <1>4 DEF Tables, t

LEMMA AddRowDoes ==
  ASSUME IInv, PubTypes, NEW c \in Request, AddRow(c), kind[c] # "edit"
  PROVE  /\ Served(c) /\ PubTypes' /\ Tables(c) /\ UNCHANGED <<deaths, draft, prior>>
         /\ step[c] = "add" /\ step'[c] = "done"
         /\ outbox' = [outbox EXCEPT ![c] = NewRow(TopicOf(c), 0)]
<1>1. /\ Serving(c, kind[c], "add") /\ Turn(c, "done")
      /\ outbox' = [outbox EXCEPT ![c] = NewRow(TopicOf(c), 0)]
      /\ UNCHANGED <<programme, conn, draft, prior, crossed>>
  BY DEF AddRow
<1>2. UNCHANGED <<source, edited>>
  BY <1>1 DEF Serving
<1>3. Served(c) /\ PubTypes' /\ step'[c] = "done" /\ step[c] = "add" /\ UNCHANGED deaths
  BY <1>1, <1>2, ServingDoes, TablesTyped
<1> QED
  BY <1>1, <1>2, <1>3 DEF Tables

\* A connection written over another is the same generation of the same
\* event, or a later one.
Follows(m, n) == m # None => /\ m.generation <= n.generation
                             /\ m.generation = n.generation => m.url = n.url

LEMMA SavedFollows ==
  ASSUME NEW n \in Connection \union {None}, NEW b \in [enabled : BOOLEAN, url : Url]
  PROVE  /\ Saved(n, b) \in Connection /\ Follows(n, Saved(n, b))
         /\ IF n = None THEN Saved(n, b).generation = 1
            ELSE Saved(n, b).generation \in {n.generation, n.generation + 1}
         /\ Saved(n, b).enabled = b.enabled /\ Saved(n, b).url = b.url
<1> DEFINE g == NextGeneration(n, b)
           v == IF n = None THEN 1 ELSE n.version + 1
<1>1. n # None => n.generation \in Nat /\ n.version \in Nat
  BY DEF Connection
<1>2. /\ g \in Nat /\ v \in Nat
      /\ IF n = None THEN g = 1 ELSE g \in {n.generation, n.generation + 1}
      /\ n # None => n.generation <= g /\ (n.generation = g => n.url = b.url)
  BY <1>1 DEF NextGeneration
<1> HIDE DEF g, v
<1>3. Saved(n, b) = [enabled |-> b.enabled, url |-> b.url, generation |-> g, version |-> v]
  BY DEF Saved, g, v
<1> QED
  BY <1>2, <1>3 DEF Follows, Connection

LEMMA SaveDoes ==
  ASSUME IInv, PubTypes, NEW c \in Request, NEW b \in [enabled : BOOLEAN, url : Url],
         NEW outdated \in BOOLEAN, Save(c, b, outdated)
  PROVE  /\ Served(c) /\ PubTypes' /\ Tables(c) /\ UNCHANGED <<outbox, deaths, draft>>
         /\ kind[c] = "save" /\ step[c] = "begin"
         /\ \/ step'[c] = "done" /\ UNCHANGED prior
            \/ /\ step'[c] = "put"
               /\ prior'[c].seen = conn /\ prior'[c].next = Saved(conn, b)
<1>1. /\ Serving(c, "save", "begin") /\ UNCHANGED <<outbox, programme, conn, draft, crossed>>
      /\ \/ Turn(c, "done") /\ UNCHANGED prior
         \/ Turn(c, "put") /\ prior' = [prior EXCEPT ![c] = [seen |-> conn, next |-> Saved(conn, b)]]
  BY DEF Save
<1>2. UNCHANGED <<source, edited>>
  BY <1>1 DEF Serving
<1>3. CASE Turn(c, "done") /\ UNCHANGED prior
  <2>1. Served(c) /\ PubTypes' /\ step'[c] = "done" /\ kind[c] = "save" /\ step[c] = "begin"
        /\ UNCHANGED deaths
    BY <1>1, <1>2, <1>3, ServingDoes, TablesTyped
  <2> QED
    BY <1>1, <1>2, <1>3, <2>1 DEF Tables
<1>4. CASE Turn(c, "put") /\ prior' = [prior EXCEPT ![c] = [seen |-> conn, next |-> Saved(conn, b)]]
  <2>1. Served(c) /\ PubTypes' /\ step'[c] = "put" /\ kind[c] = "save" /\ step[c] = "begin"
        /\ UNCHANGED deaths
    BY <1>1, <1>2, <1>4, ServingDoes, TablesTyped
  <2>2. prior'[c] = [seen |-> conn, next |-> Saved(conn, b)]
    BY <1>4 DEF PubTypes, LocalsOK
  <2> QED
    BY <1>1, <1>2, <2>1, <2>2 DEF Tables
<1> QED
  BY <1>1, <1>3, <1>4

LEMMA QueueVerifyDoes ==
  ASSUME IInv, PubTypes, NEW c \in Request, NEW outdated \in BOOLEAN, QueueVerify(c, outdated)
  PROVE  /\ Served(c) /\ PubTypes' /\ Tables(c) /\ UNCHANGED <<outbox, deaths, draft>>
         /\ kind[c] = "verify" /\ step[c] = "begin"
         /\ \/ step'[c] = "done" /\ UNCHANGED prior
            \/ /\ step'[c] = "put" /\ conn # None
               /\ prior'[c].seen = conn /\ prior'[c].next = [conn EXCEPT !.version = @ + 1]
<1> DEFINE p == [seen |-> conn, next |-> [conn EXCEPT !.version = @ + 1]]
<1>1. /\ Serving(c, "verify", "begin") /\ UNCHANGED <<outbox, programme, conn, draft, crossed>>
      /\ \/ Turn(c, "done") /\ UNCHANGED prior
         \/ Turn(c, "put") /\ conn # None /\ prior' = [prior EXCEPT ![c] = p]
  BY DEF QueueVerify
<1>2. UNCHANGED <<source, edited>>
  BY <1>1 DEF Serving
<1>3. p.seen = conn /\ p.next = [conn EXCEPT !.version = @ + 1]
  OBVIOUS
<1> HIDE DEF p
<1>4. CASE Turn(c, "done") /\ UNCHANGED prior
  <2>1. Served(c) /\ PubTypes' /\ step'[c] = "done" /\ kind[c] = "verify" /\ step[c] = "begin"
        /\ UNCHANGED deaths
    BY <1>1, <1>2, <1>4, ServingDoes, TablesTyped
  <2> QED
    BY <1>1, <1>2, <1>4, <2>1 DEF Tables
<1>5. CASE Turn(c, "put") /\ conn # None /\ prior' = [prior EXCEPT ![c] = p]
  <2>1. Served(c) /\ PubTypes' /\ step'[c] = "put" /\ kind[c] = "verify" /\ step[c] = "begin"
        /\ UNCHANGED deaths
    BY <1>1, <1>2, <1>5, ServingDoes, TablesTyped
  <2>2. prior'[c] = p
    BY <1>5 DEF PubTypes, LocalsOK
  <2> QED
    BY <1>1, <1>2, <1>3, <1>5, <2>1, <2>2 DEF Tables
<1> QED
  BY <1>1, <1>4, <1>5

LEMMA PutConnectionDoes ==
  ASSUME IInv, PubTypes, NEW c \in Request, PutConnection(c), kind[c] # "edit",
         prior[c].next \in Connection
  PROVE  /\ Served(c) /\ PubTypes'
         /\ UNCHANGED <<outbox, deaths, source, programme, edited>>
         /\ step[c] = "put"
         /\ step'[c] = IF kind[c] = "verify" \/ (conn'.enabled /\ configured)
                       THEN "enlist" ELSE "done"
         /\ conn' = prior[c].next /\ crossed' = (crossed \/ conn # prior[c].seen)
<1> DEFINE t == IF kind[c] = "verify" \/ (prior[c].next.enabled /\ configured)
                THEN "enlist" ELSE "done"
<1>1. /\ Serving(c, kind[c], "put") /\ Turn(c, t) /\ Return(c)
      /\ conn' = prior[c].next /\ crossed' = (crossed \/ conn # prior[c].seen)
      /\ UNCHANGED <<outbox, programme>>
  BY DEF PutConnection
<1>2. UNCHANGED <<source, edited>>
  BY <1>1 DEF Serving
<1>3. t # "begin" /\ conn' \in Connection \union {None}
  BY <1>1
<1>4. t = IF kind[c] = "verify" \/ (conn'.enabled /\ configured) THEN "enlist" ELSE "done"
  BY <1>1
<1> HIDE DEF t
<1>5. Served(c) /\ PubTypes' /\ step'[c] = t /\ step[c] = "put" /\ UNCHANGED deaths
  BY <1>1, <1>2, <1>3, ServingDoes, TablesTyped, ReturnDoes
<1> QED
  BY <1>1, <1>2, <1>4, <1>5

LEMMA EventCommandDoes ==
  ASSUME IInv, PubTypes, NEW c \in Request, EventCommand(c), UNCHANGED publicationVars
  PROVE  /\ Served(c) /\ PubTypes' /\ Tables(c) /\ UNCHANGED <<deaths, draft, prior>>
         /\ kind[c] \in {"create", "update"} /\ step'[c] \in {"commit", "done"}
<1> USE DEF given, work, past, publicationVars, tables, locals, marks, Turn
<1>1. /\ Types /\ kind[c] \in {"create", "update"} /\ step[c] # "done"
      /\ UNCHANGED <<configured, kind, pc, row, target, met, deaths, faults, overruns>>
      /\ \E l \in {"commit", "done"} : step' = [step EXCEPT ![c] = l]
  BY DEF IInv, EventCommand, Create, ReadEvent, CommitUpdate
<1>2. /\ step'[c] \in {"commit", "done"}
      /\ \A b \in Request \ {c} : step'[b] = step[b]
  BY <1>1 DEF Types
<1>3. PubTypes'
  BY <1>1, OutsideTypes DEF PubTypes, WorkOK
<1> QED
  BY <1>1, <1>2, <1>3 DEF Served, Tables

LEMMA AbandonDoes ==
  ASSUME IInv, PubTypes, NEW c \in Request, Abandon(c), UNCHANGED publicationVars
  PROVE  /\ Served(c) /\ PubTypes' /\ Tables(c) /\ UNCHANGED <<outbox, draft, prior>>
         /\ deaths' = deaths + 1 /\ step'[c] = "gone" /\ step[c] \notin {"begin", "done", "gone"}
<1> USE DEF given, work, past, publicationVars, tables, locals, marks, Turn
<1>1. /\ Types /\ step[c] \notin {"begin", "done", "gone"} /\ deaths' = deaths + 1
      /\ UNCHANGED <<configured, kind, pc, row, target, met, faults, overruns, outbox>>
      /\ step' = [step EXCEPT ![c] = "gone"]
  BY DEF IInv, Abandon
<1>2. step'[c] = "gone" /\ \A b \in Request \ {c} : step'[b] = step[b]
  BY <1>1 DEF Types
<1>3. PubTypes'
  BY <1>1, OutsideTypes DEF PubTypes, WorkOK
<1> QED
  BY <1>1, <1>2, <1>3 DEF Served, Tables

LEMMA ExpiresDoes ==
  ASSUME IInv, PubTypes, NEW c \in Request, Expires(c)
  PROVE  /\ PubTypes' /\ SameRows
         /\ UNCHANGED <<configured, kind, step, pc, row, target, met, deaths, faults,
                        publicationVars>>
         /\ \A b \in Request \ {c} : outbox'[b] = outbox[b]
         /\ outbox[c] # None /\ outbox'[c].done = outbox[c].done
         /\ outbox'[c].holder = outbox[c].holder /\ ~outbox'[c].live
         /\ IF row[outbox[c].holder] = c THEN overruns' = overruns + 1 ELSE overruns' = overruns
<1> USE DEF given, work, publicationVars, tables, locals, marks
<1>1. /\ Types /\ UNCHANGED <<configured, kind, step, pc, row, target, met, deaths, faults,
                              publicationVars>>
      /\ outbox[c] # None /\ outbox' = [outbox EXCEPT ![c].live = FALSE]
      /\ IF row[outbox[c].holder] = c THEN overruns' = overruns + 1 ELSE overruns' = overruns
  BY DEF IInv, Expires, LeaseExpires
<1>2. SameRows
  BY <1>1, ExpiryRows DEF Expires
<1>3. PubTypes'
  BY <1>1, OutsideTypes DEF PubTypes, WorkOK
<1>4. /\ \A b \in Request \ {c} : outbox'[b] = outbox[b]
      /\ outbox'[c].done = outbox[c].done
      /\ outbox'[c].holder = outbox[c].holder /\ ~outbox'[c].live
  BY <1>1 DEF Types, OutboxRow
<1> QED
  BY <1>1, <1>2, <1>3, <1>4

LEMMA ReportDoes ==
  ASSUME IInv, PubTypes, NEW d \in Drain, Report(d), site[d] # None
  PROVE  /\ PubTypes' /\ Only(d) /\ SameRows
         /\ UNCHANGED <<configured, kind, step, outbox, row, target, met, deaths, faults, overruns,
                        source, programme, ident, remote, draft, prior, site, snap, left, item,
                        edited, blind, unsure>>
         /\ conn' = [site[d] EXCEPT !.version = @ + 1] /\ crossed' = (crossed \/ conn # site[d])
         /\ pc[d] = "report" /\ pc'[d] = "retire"
<1> USE DEF given, past, Busy, Goto
<1>1. /\ Types /\ pc[d] = "report" /\ pc' = [pc EXCEPT ![d] = "retire"]
      /\ UNCHANGED <<configured, kind, step, outbox, row, target, met, deaths, faults, overruns,
                     source, programme, ident, remote, draft, prior, site, snap, left, item,
                     edited, blind, unsure>>
      /\ conn' = [site[d] EXCEPT !.version = @ + 1] /\ crossed' = (crossed \/ conn # site[d])
  BY DEF IInv, Report
<1>2. pc'[d] = "retire" /\ \A e \in Drain \ {d} : pc'[e] = pc[e]
  BY <1>1 DEF Types
<1>3. conn' \in Connection
  BY <1>1 DEF PubTypes, LocalsOK, Connection
<1>4. TablesOK'
  BY <1>1, <1>3 DEF PubTypes, TablesOK, Generation, Snapshot, Face, Connection, Record
<1>5. LocalsOK' /\ WorkOK'
  BY <1>1 DEF PubTypes, LocalsOK, WorkOK, Snapshot
<1> QED
  BY <1>1, <1>2, <1>4, <1>5, NoChange DEF PubTypes, Only, Still

-----------------------------------------------------------------------------
(* What requests and drains hold: a request that will write the connection, *)
(* one that follows the one it has read; an identity, a record of its kind; *)
(* a drain, by the call it is at, the site, items and record it works with. *)

Asks(c) ==
  /\ step[c] \in {"put", "enlist", "add"} => kind[c] \in {"publish", "save", "verify"}
  /\ step[c] = "put" =>
       /\ kind[c] # "publish" /\ prior[c].next \in Connection
       /\ prior[c].seen \in Connection \union {None} /\ Follows(prior[c].seen, prior[c].next)
       /\ kind[c] = "verify" => prior[c].seen # None /\ prior[c].next.enabled = prior[c].seen.enabled
                                /\ prior[c].next.generation = prior[c].seen.generation

\* A generation is a saving of the connection.
Saves == {c \in Request : kind[c] = "save" /\ step[c] # "begin"}
Bound == Cardinality(Saves) + 1
Within(n) == n # None => n.generation \in 1..Bound
Bounded ==
  /\ Within(conn) /\ \A d \in Drain : Within(site[d])
  /\ \A c \in Request : step[c] = "put" => Within(prior[c].next)

Identified == \A x \in Generation \X Item : ident[x] # None =>
                 ident[x] \in DOMAIN remote /\ Kindred(remote[ident[x]].item, x[2])

AtWork(d) ==
  /\ pc[d] \in ProjectWork => row[d] \in Projects
  /\ pc[d] = "fail" /\ row[d] \in Projects => ~configured
  /\ pc[d] \in (ProjectWork \ {"site"}) \union {"report"} => site[d] # None
Holds(d) ==
  /\ pc[d] \in AtItem \union {"items"} => \A i \in left[d] : i \in Item /\ snap[d][i] # None
  /\ pc[d] \in AtItem => item[d] \in Item \ left[d] /\ snap[d][item[d]] # None
  /\ pc[d] \in {"adopt", "remember", "update"} =>
       target[d] \in DOMAIN remote /\ Kindred(remote[target[d]].item, item[d])
  /\ pc[d] \in {"adopt", "remember"} => remote[target[d]].url = site[d].url
  /\ pc[d] = "hide" => \A r \in left[d] : r \in DOMAIN remote /\ remote[r].item \notin Speaker

Struct == /\ PubTypes /\ Bounded /\ Identified
          /\ \A c \in Request : Asks(c)
          /\ \A d \in Drain : AtWork(d) /\ Holds(d)

LEMMA BoundIs ==
  Bound \in 1..(Cardinality(Request) + 1) /\ Cardinality(Request) \in Nat
<1>1. Saves \subseteq Request /\ IsFiniteSet(Request)
  BY RequestAssumption DEF Saves
<1>2. /\ IsFiniteSet(Saves) /\ Cardinality(Saves) \in Nat /\ Cardinality(Request) \in Nat
      /\ Cardinality(Saves) <= Cardinality(Request)
  BY <1>1, FS_Subset, FS_CardinalityType
<1> QED
  BY <1>2 DEF Bound

LEMMA BoundGrows ==
  ASSUME \/ UNCHANGED <<kind, step>>
         \/ \E c \in Request : Served(c)
  PROVE  /\ Bound' \in Nat /\ Bound <= Bound'
         /\ \A n : Within(n) /\ n # None => n.generation \in 1..Bound'
<1>1. Saves \subseteq Saves' /\ Saves' \subseteq Request
  BY DEF Saves, Served
<1>2. /\ IsFiniteSet(Saves') /\ Cardinality(Saves) \in Nat /\ Cardinality(Saves') \in Nat
      /\ Cardinality(Saves) <= Cardinality(Saves')
  BY <1>1, RequestAssumption, FS_Subset, FS_CardinalityType
<1>3. Bound' \in Nat /\ Bound \in Nat /\ Bound <= Bound'
  BY <1>2 DEF Bound
<1> QED
  BY <1>3 DEF Within

LEMMA SaveGrows ==
  ASSUME NEW c \in Request, Served(c), kind[c] = "save", step[c] = "begin"
  PROVE  Bound' = Bound + 1
<1>1. Saves' = Saves \union {c} /\ c \notin Saves
  BY DEF Saves, Served
<1>2. IsFiniteSet(Saves)
  BY RequestAssumption, FS_Subset DEF Saves
<1>3. Cardinality(Saves') = Cardinality(Saves) + 1 /\ Cardinality(Saves) \in Nat
  BY <1>1, <1>2, FS_AddElement, FS_CardinalityType
<1> QED
  BY <1>3 DEF Bound

\* Every item has an identity in every generation there can be.
LEMMA HereIs ==
  ASSUME Struct, NEW d \in Drain, site[d] # None, NEW i \in Item
  PROVE  /\ <<site[d].generation, i>> \in Generation \X Item
         /\ <<site[d].generation, i>>[2] = i
<1>1. site[d].generation \in 1..(Cardinality(Request) + 1)
  BY BoundIs DEF Struct, Bounded, Within
<1> QED
  BY <1>1 DEF Generation

LEMMA HoldsStays ==
  ASSUME Struct, NEW e \in Drain, Still(e), Grown,
         UNCHANGED configured, row[e] \in Projects <=> row[e] \in Projects'
  PROVE  AtWork(e)' /\ Holds(e)'
<1>1. AtWork(e)'
  BY DEF Struct, AtWork, Still
<1>2. Holds(e)'
  BY DEF Struct, Holds, Still, Grown
<1> QED
  BY <1>1, <1>2

LEMMA InsideStruct ==
  ASSUME Struct, NEW d \in Drain, Inside(d), PubTypes', Grown, Identified',
         site'[d] \in {site[d], conn}, AtWork(d)', Holds(d)'
  PROVE  Struct'
<1>1. UNCHANGED <<configured, kind, outbox, step, prior, conn>> /\ Projects' = Projects
  BY DEF Inside, Projects, RowsOf
<1>2. \A e \in Drain : AtWork(e)' /\ Holds(e)'
  BY <1>1, HoldsStays DEF Inside, Only
<1>3. \A c \in Request : Asks(c)'
  BY <1>1 DEF Struct, Asks
<1>4. \A n : Within(n) /\ n # None => n.generation \in 1..Bound'
  BY <1>1, BoundGrows
<1>5. Bounded'
  <2>1. conn' # None => conn'.generation \in 1..Bound'
    BY <1>1, <1>4 DEF Struct, Bounded
  <2>2. ASSUME NEW e \in Drain, site'[e] # None PROVE site'[e].generation \in 1..Bound'
    BY <1>1, <1>4, <2>2 DEF Struct, Bounded, Inside, Only, Still
  <2>3. ASSUME NEW c \in Request, step'[c] = "put", prior'[c].next # None
        PROVE  prior'[c].next.generation \in 1..Bound'
    BY <1>1, <1>4, <2>3 DEF Struct, Bounded
  <2> QED
    BY <2>1, <2>2, <2>3 DEF Bounded, Within
<1> QED
  BY <1>2, <1>3, <1>5 DEF Struct

LEMMA NothingGrows ==
  ASSUME UNCHANGED <<remote, ident>>, Struct
  PROVE  Grown /\ Identified'
BY DEF Grown, Struct, Identified, Generation

LEMMA WrittenIdentified ==
  ASSUME Struct, UNCHANGED ident, Grown
  PROVE  Identified'
BY DEF Struct, Identified, Grown, Generation

LEMMA MatchesAre ==
  ASSUME NEW d \in Drain, NEW r \in Matches(d)
  PROVE  /\ r \in DOMAIN remote /\ Kindred(remote[r].item, item[d])
         /\ remote[r].url = site[d].url /\ remote[r].face = snap[d][item[d]]
BY DEF Matches

LEMMA ItemSteps ==
  ASSUME IInv, Struct, NEW d \in Drain,
         \/ \E i \in Item : Identify(d, i)
         \/ Search(d) \/ SearchAgain(d) \/ Remember(d) \/ Update(d) \/ Make(d)
  PROVE  Struct'
<1> USE DEF AtWork, Holds, ProjectWork, AtItem, Kindred
<1>1. PubTypes /\ AtWork(d) /\ Holds(d) /\ (Inside(d) => Projects' = Projects)
  BY DEF Struct, Inside, Projects, RowsOf
<1>2. ASSUME NEW i \in Item, Identify(d, i) PROVE Struct'
  <2> DEFINE x == <<site[d].generation, i>>
  <2>1. /\ Inside(d) /\ PubTypes' /\ UNCHANGED <<site, snap, ident, remote, blind, faults>>
        /\ pc[d] = "items" /\ i \in left[d] /\ left'[d] = left[d] \ {i} /\ item'[d] = i
        /\ IF ident[x] = None THEN pc'[d] = "search" ELSE pc'[d] = "update" /\ target'[d] = ident[x]
    BY <1>1, <1>2, IdentifyDoes
  <2>2. Grown /\ Identified'
    BY <2>1, NothingGrows
  <2>3. ident[x] # None => ident[x] \in DOMAIN remote /\ Kindred(remote[ident[x]].item, i)
    BY <1>1, <2>1, HereIs DEF Struct, Identified
  <2> HIDE DEF x
  <2>4. AtWork(d)'
    BY <1>1, <2>1 DEF Inside
  <2>5. Holds(d)'
    BY <1>1, <2>1, <2>3
  <2> QED
    BY <2>1, <2>2, <2>4, <2>5, InsideStruct
<1>3. CASE Search(d)
  <2>1. /\ Inside(d) /\ PubTypes' /\ UNCHANGED <<site, snap, left, item, ident, remote>>
        /\ pc[d] = "search"
        /\ \/ pc'[d] \in {"make", "items"}
           \/ pc'[d] = "adopt" /\ target'[d] \in Matches(d)
    BY <1>1, <1>3, SearchDoes
  <2>2. Grown /\ Identified'
    BY <2>1, NothingGrows
  <2>3. AtWork(d)'
    BY <1>1, <2>1 DEF Inside
  <2>4. Holds(d)'
    BY <1>1, <2>1, MatchesAre
  <2> QED
    BY <2>1, <2>2, <2>3, <2>4, InsideStruct
<1>4. CASE SearchAgain(d)
  <2>1. /\ Inside(d) /\ PubTypes' /\ UNCHANGED <<site, snap, left, item, ident, remote>>
        /\ pc[d] = "again"
        /\ \/ pc'[d] = "items"
           \/ pc'[d] = "remember" /\ target'[d] \in Matches(d)
    BY <1>1, <1>4, SearchAgainDoes
  <2>2. Grown /\ Identified'
    BY <2>1, NothingGrows
  <2>3. AtWork(d)'
    BY <1>1, <2>1 DEF Inside
  <2>4. Holds(d)'
    BY <1>1, <2>1, MatchesAre
  <2> QED
    BY <2>1, <2>2, <2>3, <2>4, InsideStruct
<1>5. CASE Remember(d)
  <2> DEFINE h == <<site[d].generation, item[d]>>
  <2>1. /\ Inside(d) /\ PubTypes' /\ UNCHANGED <<site, snap, left, item, remote>>
        /\ ident' = [ident EXCEPT ![h] = target[d]]
        /\ \/ pc[d] = "adopt" /\ pc'[d] = "update" /\ target'[d] = target[d]
           \/ pc[d] = "remember" /\ pc'[d] = "items"
    BY <1>1, <1>5, RememberDoes DEF Here
  <2>2. Grown
    BY <2>1 DEF Grown
  <2>3. h \in Generation \X Item /\ h[2] = item[d]
    BY <1>1, <2>1, HereIs
  <2> HIDE DEF h
  <2>4. /\ target[d] \in DOMAIN remote /\ Kindred(remote[target[d]].item, item[d])
        /\ site[d] # None /\ item[d] \in Item
    BY <1>1, <2>1
  <2>5. Identified'
    <3> SUFFICES ASSUME NEW x \in (Generation \X Item)', ident'[x] # None
                 PROVE  ident'[x] \in DOMAIN remote' /\ Kindred(remote'[ident'[x]].item, x[2])
      BY DEF Identified
    <3>1. x \in Generation \X Item
      BY DEF Generation
    <3>2. IF x = h THEN ident'[x] = target[d] ELSE ident'[x] = ident[x]
      BY <2>1, <3>1 DEF PubTypes, Struct, TablesOK
    <3> QED
      BY <2>1, <2>3, <2>4, <3>1, <3>2 DEF Struct, Identified
  <2>6. AtWork(d)'
    BY <1>1, <2>1 DEF Inside
  <2>7. Holds(d)'
    BY <1>1, <2>1, <2>4
  <2> QED
    BY <2>1, <2>2, <2>5, <2>6, <2>7, InsideStruct
<1>6. CASE Update(d)
  <2>1. pc[d] = "update"
    BY <1>6 DEF Update, Projecting, Busy
  <2>2. /\ Inside(d) /\ PubTypes' /\ Grown /\ UNCHANGED <<site, snap, left, item, ident>>
        /\ pc'[d] = "items"
    BY <1>1, <1>6, <2>1, UpdateDoes
  <2>3. Identified'
    BY <2>2, WrittenIdentified
  <2>4. AtWork(d)'
    BY <1>1, <2>1, <2>2 DEF Inside
  <2>5. Holds(d)'
    BY <1>1, <2>1, <2>2
  <2> QED
    BY <2>2, <2>3, <2>4, <2>5, InsideStruct
<1>7. CASE Make(d)
  <2> DEFINE r == [item |-> item[d], face |-> snap[d][item[d]], shown |-> TRUE, url |-> site[d].url]
  <2>1. pc[d] = "make" /\ item[d] \in Item /\ site[d] # None
    BY <1>1, <1>7 DEF Make, Projecting, Busy
  <2>2. /\ Inside(d) /\ PubTypes' /\ Grown /\ UNCHANGED <<site, snap, left, item, ident>>
        /\ \/ pc'[d] \in {"again", "items"}
           \/ pc'[d] = "remember" /\ target'[d] = Len(remote) + 1 /\ Added(r)
    BY <1>1, <1>7, <2>1, MakeDoes
  <2>3. Identified'
    BY <2>2, WrittenIdentified
  <2>4. AtWork(d)'
    BY <1>1, <2>1, <2>2 DEF Inside
  <2>5. pc'[d] = "remember" => /\ target'[d] \in DOMAIN remote' /\ Kindred(remote'[target'[d]].item, item[d])
                               /\ remote'[target'[d]].url = site[d].url
    BY <1>1, <2>2, RecordsHave DEF Added
  <2> HIDE DEF r
  <2>6. Holds(d)'
    BY <1>1, <2>1, <2>2, <2>5
  <2> QED
    BY <2>2, <2>3, <2>4, <2>6, InsideStruct
<1> QED
  BY <1>2, <1>3, <1>4, <1>5, <1>6, <1>7

LEMMA OtherSteps ==
  ASSUME IInv, Struct, NEW d \in Drain,
         \/ ListGone(d) \/ EndProject(d) \/ ReadSite(d) \/ ReadConnection(d) \/ LoadSnapshot(d)
         \/ \E r \in DOMAIN remote : Hide(d, r)
  PROVE  Struct'
<1> USE DEF AtWork, Holds, ProjectWork, AtItem
<1>1. /\ PubTypes /\ AtWork(d) /\ Holds(d) /\ site[d] \in {site[d], conn}
      /\ Inside(d) => Projects' = Projects
  BY DEF Struct, Inside, Projects, RowsOf
<1>2. CASE ListGone(d)
  <2> DEFINE Gone == {j \in Session : snap[d][j] = None}
  <2>1. /\ Inside(d) /\ PubTypes' /\ UNCHANGED <<site, snap, ident, remote>>
        /\ pc[d] = "items" /\ pc'[d] = "hide"
        /\ left'[d] = {ident[<<site[d].generation, i>>] : i \in Gone} \ {None}
    BY <1>1, <1>2, ListGoneDoes
  <2>2. Grown /\ Identified'
    BY <2>1, NothingGrows
  <2>3. AtWork(d)'
    BY <1>1, <2>1 DEF Inside
  <2>4. \A r \in left'[d] : r \in DOMAIN remote /\ remote[r].item \notin Speaker
    <3> SUFFICES ASSUME NEW r \in left'[d]
                 PROVE  r \in DOMAIN remote /\ remote[r].item \notin Speaker
      OBVIOUS
    <3>1. PICK i \in Gone : r = ident[<<site[d].generation, i>>]
      BY <2>1
    <3>2. i \in Session /\ i \in Item /\ i \notin Speaker /\ r # None
      BY <2>1, ItemAssumption DEF Item
    <3>3. r \in DOMAIN remote /\ Kindred(remote[r].item, i)
      BY <1>1, <2>1, <3>1, <3>2, HereIs DEF Struct, Identified
    <3> QED
      BY <3>2, <3>3 DEF Kindred
  <2> HIDE DEF Gone
  <2>5. Holds(d)'
    BY <2>1, <2>4
  <2> QED
    BY <2>1, <2>2, <2>3, <2>5, InsideStruct
<1>3. CASE EndProject(d)
  <2>1. /\ Inside(d) /\ PubTypes' /\ UNCHANGED <<site, snap, left, item, target, ident, remote>>
        /\ pc'[d] = "retire"
    BY <1>1, <1>3, EndProjectDoes
  <2>2. Grown /\ Identified'
    BY <2>1, NothingGrows
  <2>3. AtWork(d)' /\ Holds(d)'
    BY <2>1
  <2> QED
    BY <2>1, <2>2, <2>3, InsideStruct
<1>4. CASE ReadSite(d) \/ ReadConnection(d)
  <2>1. /\ Inside(d) /\ PubTypes' /\ UNCHANGED <<snap, left, item, target, ident, remote>>
        /\ site'[d] = conn
        /\ \/ pc[d] = "site" /\ pc'[d] = "load" /\ conn # None
           \/ pc'[d] = "report" /\ conn # None
           \/ pc'[d] = "retire"
    BY <1>1, <1>4, ReadDoes DEF Ready
  <2>2. Grown /\ Identified'
    BY <2>1, NothingGrows
  <2>3. AtWork(d)'
    BY <1>1, <2>1 DEF Inside
  <2>4. Holds(d)'
    BY <2>1
  <2> QED
    BY <2>1, <2>2, <2>3, <2>4, InsideStruct
<1>5. CASE LoadSnapshot(d)
  <2>1. /\ Inside(d) /\ PubTypes' /\ UNCHANGED <<site, item, target, ident, remote>>
        /\ pc[d] = "load"
        /\ \/ pc'[d] = "retire"
           \/ pc'[d] = "items" /\ left'[d] = {i \in Item : snap'[d][i] # None}
    BY <1>1, <1>5, LoadSnapshotDoes
  <2>2. Grown /\ Identified'
    BY <2>1, NothingGrows
  <2>3. AtWork(d)'
    BY <1>1, <2>1 DEF Inside
  <2>4. Holds(d)'
    BY <2>1
  <2> QED
    BY <2>1, <2>2, <2>3, <2>4, InsideStruct
<1>6. ASSUME NEW r \in DOMAIN remote, Hide(d, r) PROVE Struct'
  <2>1. /\ Inside(d) /\ PubTypes' /\ Grown /\ UNCHANGED <<pc, target, site, snap, item, ident>>
        /\ pc[d] = "hide" /\ left'[d] = left[d] \ {r}
    BY <1>1, <1>6, HideDoes
  <2>2. Identified'
    BY <2>1, WrittenIdentified
  <2>3. AtWork(d)'
    BY <1>1, <2>1 DEF Inside
  <2>4. Holds(d)'
    BY <1>1, <2>1 DEF Grown
  <2> QED
    BY <1>1, <2>1, <2>2, <2>3, <2>4, InsideStruct
<1> QED
  BY <1>2, <1>3, <1>4, <1>5, <1>6

LEMMA OutsideStruct ==
  ASSUME IInv, Struct, NEW d \in Drain, Outside(d), PubTypes'
  PROVE  Struct'
<1>1. /\ UNCHANGED <<configured, kind, step, prior, conn, ident, remote>>
      /\ Grown /\ Identified' /\ Projects' = Projects
  BY NothingGrows, SameSets DEF Outside, Projects
<1>2. ASSUME NEW e \in Drain PROVE AtWork(e)' /\ Holds(e)'
  <2>1. CASE e = d
    BY <1>1, <2>1 DEF Outside, AtWork, Holds, ProjectWork, AtItem
  <2>2. CASE e # d
    BY <1>1, <2>2, HoldsStays DEF Outside, Only
  <2> QED
    BY <2>1, <2>2
<1>3. \A c \in Request : Asks(c)'
  BY <1>1 DEF Struct, Asks
<1>4. \A n : Within(n) /\ n # None => n.generation \in 1..Bound'
  BY <1>1, BoundGrows
<1>5. Bounded'
  <2>1. ASSUME NEW e \in Drain, site'[e] # None PROVE site'[e].generation \in 1..Bound'
    <3>1. site'[e] = site[e]
      BY <2>1 DEF Outside, Only, Still
    <3> QED
      BY <1>4, <2>1, <3>1 DEF Struct, Bounded
  <2>2. conn' # None => conn'.generation \in 1..Bound'
    BY <1>1, <1>4 DEF Struct, Bounded
  <2>3. ASSUME NEW c \in Request, step'[c] = "put", prior'[c].next # None
        PROVE  prior'[c].next.generation \in 1..Bound'
    BY <1>1, <1>4, <2>3 DEF Struct, Bounded
  <2> QED
    BY <2>1, <2>2, <2>3 DEF Bounded, Within
<1> QED
  BY <1>1, <1>2, <1>3, <1>5 DEF Struct

\* A new row is not the one a drain works on.
LEMMA NewProjects ==
  ASSUME IInv, NEW c \in Request, step[c] # "done",
         \/ UNCHANGED outbox
         \/ \E r : outbox' = [outbox EXCEPT ![c] = r],
         NEW e \in Drain, UNCHANGED row
  PROVE  row[e] \in Projects <=> row[e] \in Projects'
<1>1. c \notin Announcements \union Jobs /\ Types
  BY NoRowYet DEF IInv
<1>2. row[e] # c \/ c = None
  BY <1>1, RowsExist, NoneAssumption DEF IInv, Places, Place, At, Types
<1>3. row[e] # c
  BY <1>2, NoneAssumption
<1> QED
  BY <1>1, <1>3 DEF Types, Projects, RowsOf

LEMMA ServedStruct ==
  ASSUME IInv, Struct, NEW c \in Request, Served(c), PubTypes',
         \/ UNCHANGED outbox
         \/ \E r : outbox' = [outbox EXCEPT ![c] = r],
         Asks(c)',
         conn' # None => conn'.generation \in 1..Bound',
         step'[c] = "put" => prior'[c].next.generation \in 1..Bound'
  PROVE  Struct'
<1>1. UNCHANGED <<configured, kind, row, site, ident, remote>> /\ Grown /\ Identified'
  BY NothingGrows DEF Served
<1>2. \A e \in Drain : AtWork(e)' /\ Holds(e)'
  BY <1>1, HoldsStays, NewProjects DEF Served, Still
<1>3. \A b \in Request : Asks(b)'
  BY DEF Struct, Asks, Served
<1>4. \A n : Within(n) /\ n # None => n.generation \in 1..Bound'
  BY BoundGrows
<1>5. Bounded'
  <2>1. ASSUME NEW e \in Drain, site'[e] # None PROVE site'[e].generation \in 1..Bound'
    BY <1>1, <1>4, <2>1 DEF Struct, Bounded
  <2>2. ASSUME NEW b \in Request \ {c}, step'[b] = "put", prior'[b].next # None
        PROVE  prior'[b].next.generation \in 1..Bound'
    BY <1>4, <2>2 DEF Struct, Bounded, Served
  <2> QED
    BY <2>1, <2>2 DEF Bounded, Within
<1> QED
  BY <1>1, <1>2, <1>3, <1>5 DEF Struct

\* A command that does not write the connection
LEMMA QuietStruct ==
  ASSUME IInv, Struct, NEW c \in Request, Served(c), PubTypes',
         \/ UNCHANGED outbox
         \/ \E r : outbox' = [outbox EXCEPT ![c] = r],
         UNCHANGED conn, step'[c] # "put",
         step'[c] \in {"enlist", "add"} => kind[c] \in {"publish", "save", "verify"}
  PROVE  Struct'
<1>1. Asks(c)'
  BY DEF Asks, Served
<1>2. conn' # None => conn'.generation \in 1..Bound'
  BY BoundGrows DEF Struct, Bounded
<1> QED
  BY <1>1, <1>2, ServedStruct

LEMMA CommandStruct ==
  ASSUME IInv, Struct, NEW c \in Request, PublicationCommand(c)
  PROVE  Struct'
<1>1. PubTypes /\ Asks(c)
  BY DEF Struct
<1>2. CASE Compose(c) \/ ReadPrevious(c) \/ ComparePrevious(c) \/ StoreProgramme(c) \/ CheckReady(c)
  <2>1. /\ Served(c) /\ PubTypes' /\ UNCHANGED <<outbox, conn>> /\ kind[c] = "publish"
        /\ step'[c] # "put"
    BY <1>1, <1>2, ComposeDoes, ReadPreviousDoes, ComparePreviousDoes, StoreProgrammeDoes,
       CheckReadyDoes DEF Tables
  <2> QED
    BY <2>1, QuietStruct
<1>3. CASE Enlist(c) \/ AddRow(c)
  <2>1. step[c] \in {"enlist", "add"}
    BY <1>3 DEF Enlist, AddRow, Serving
  <2>2. kind[c] \in {"publish", "save", "verify"}
    BY <1>1, <2>1 DEF Asks
  <2>3. kind[c] # "edit"
    BY <2>2
  <2>4. /\ Served(c) /\ PubTypes' /\ UNCHANGED conn /\ step'[c] # "put"
        /\ UNCHANGED outbox \/ \E r : outbox' = [outbox EXCEPT ![c] = r]
    <3>1. CASE Enlist(c)
      BY <1>1, <2>3, <3>1, EnlistDoes DEF Tables
    <3>2. CASE AddRow(c)
      BY <1>1, <2>3, <3>2, AddRowDoes DEF Tables
    <3> QED
      BY <1>3, <3>1, <3>2
  <2> QED
    BY <2>2, <2>4, QuietStruct
<1>4. CASE PutConnection(c)
  <2>1. step[c] = "put"
    BY <1>4 DEF PutConnection, Serving
  <2>2. kind[c] \in {"publish", "save", "verify"} /\ prior[c].next \in Connection
    BY <1>1, <2>1 DEF Asks
  <2>3. kind[c] # "edit"
    BY <2>2
  <2>4. /\ Served(c) /\ PubTypes' /\ UNCHANGED outbox /\ conn' = prior[c].next
        /\ step'[c] \in {"enlist", "done"}
    BY <1>1, <1>4, <2>2, <2>3, PutConnectionDoes
  <2>5. Asks(c)'
    BY <2>2, <2>4 DEF Asks, Served
  <2>6. prior[c].next # None
    BY <2>2, ConnectionAssumption
  <2>7. conn'.generation \in 1..Bound'
    BY <2>1, <2>4, <2>6, BoundGrows DEF Struct, Bounded
  <2> QED
    BY <2>4, <2>5, <2>7, ServedStruct
<1>5. ASSUME NEW i \in Item, NEW f \in FaceOf[i] \union {None}, Edit(c, i, f) PROVE Struct'
  <2>1. /\ Served(c) /\ PubTypes' /\ UNCHANGED <<outbox, conn>> /\ step'[c] = "done"
    BY <1>1, <1>5, EditDoes
  <2> QED
    BY <2>1, QuietStruct
<1>6. ASSUME NEW o \in BOOLEAN, QueueVerify(c, o) PROVE Struct'
  <2>1. /\ Served(c) /\ PubTypes' /\ UNCHANGED <<outbox, conn>> /\ kind[c] = "verify"
        /\ \/ step'[c] = "done"
           \/ /\ step'[c] = "put" /\ conn # None
              /\ prior'[c].seen = conn /\ prior'[c].next = [conn EXCEPT !.version = @ + 1]
    BY <1>1, <1>6, QueueVerifyDoes DEF Tables
  <2>2. CASE step'[c] = "done"
    BY <2>1, <2>2, QuietStruct
  <2>3. CASE step'[c] = "put"
    <3>1. conn \in Connection /\ conn # None
      BY <1>1, <2>1, <2>3 DEF PubTypes, TablesOK
    <3> DEFINE n == [conn EXCEPT !.version = @ + 1]
    <3>2. /\ n \in Connection /\ n.enabled = conn.enabled /\ n.url = conn.url
          /\ n.generation = conn.generation /\ conn.generation \in Nat
      BY <3>1 DEF Connection
    <3>3. prior'[c].seen = conn /\ prior'[c].next = n
      BY <2>1, <2>3
    <3> HIDE DEF n
    <3>4. Follows(conn, n)
      BY <3>2 DEF Follows
    <3>5. Asks(c)'
      BY <2>1, <2>3, <3>1, <3>2, <3>3, <3>4 DEF Asks, Served, Follows
    <3>6. conn.generation \in 1..Bound'
      BY <2>1, <3>1, BoundGrows DEF Struct, Bounded
    <3> QED
      BY <2>1, <3>2, <3>3, <3>5, <3>6, ServedStruct
  <2> QED
    BY <2>1, <2>2, <2>3
<1>7. ASSUME NEW o \in BOOLEAN, NEW b \in [enabled : BOOLEAN, url : Url], Save(c, b, o) PROVE Struct'
  <2>1. /\ Served(c) /\ PubTypes' /\ UNCHANGED <<outbox, conn>> /\ kind[c] = "save"
        /\ step[c] = "begin"
        /\ \/ step'[c] = "done"
           \/ /\ step'[c] = "put" /\ prior'[c].seen = conn /\ prior'[c].next = Saved(conn, b)
    BY <1>1, <1>7, SaveDoes DEF Tables
  <2>2. CASE step'[c] = "done"
    BY <2>1, <2>2, QuietStruct
  <2>3. CASE step'[c] = "put"
    <3>1. conn \in Connection \union {None} /\ (conn # None => conn.generation \in Nat)
      BY <1>1 DEF PubTypes, TablesOK, Connection
    <3> DEFINE n == Saved(conn, b)
    <3>2. /\ n \in Connection /\ Follows(conn, n)
          /\ IF conn = None THEN n.generation = 1
             ELSE n.generation \in {conn.generation, conn.generation + 1}
      BY <3>1, SavedFollows
    <3>3. prior'[c].seen = conn /\ prior'[c].next = n
      BY <2>1, <2>3
    <3> HIDE DEF n
    <3>4. Asks(c)'
      BY <2>1, <2>3, <3>1, <3>2, <3>3 DEF Asks, Served, Follows
    <3>5. Bound' = Bound + 1 /\ Bound \in Nat /\ Bound >= 1
      BY <2>1, SaveGrows, BoundIs
    <3>6. conn # None => conn.generation \in 1..Bound
      BY DEF Struct, Bounded, Within
    <3>7. n.generation \in 1..Bound' /\ (conn # None => conn.generation \in 1..Bound')
      BY <3>2, <3>5, <3>6
    <3> QED
      BY <2>1, <3>3, <3>4, <3>7, ServedStruct
  <2> QED
    BY <2>1, <2>2, <2>3
<1> QED
  BY <1>2, <1>3, <1>4, <1>5, <1>6, <1>7 DEF PublicationCommand

LEMMA ReportStruct ==
  ASSUME IInv, Struct, NEW d \in Drain, Report(d)
  PROVE  Struct'
<1>1. PubTypes /\ pc[d] = "report" /\ site[d] # None /\ site[d] \in Connection
  BY DEF Struct, AtWork, Report, Busy, PubTypes, LocalsOK
<1>2. /\ PubTypes' /\ Only(d) /\ SameRows
      /\ UNCHANGED <<configured, kind, step, outbox, row, ident, remote, prior, site>>
      /\ conn' = [site[d] EXCEPT !.version = @ + 1] /\ pc'[d] = "retire"
  BY <1>1, ReportDoes
<1>3. Grown /\ Identified' /\ Projects' = Projects
  BY <1>2, NothingGrows DEF Projects, RowsOf
<1>4. ASSUME NEW e \in Drain PROVE AtWork(e)' /\ Holds(e)'
  <2>1. CASE e = d
    BY <1>2, <2>1 DEF AtWork, Holds, ProjectWork, AtItem
  <2>2. CASE e # d
    BY <1>2, <1>3, <2>2, HoldsStays DEF Only
  <2> QED
    BY <2>1, <2>2
<1>5. \A c \in Request : Asks(c)'
  BY <1>2 DEF Struct, Asks
<1>6. conn'.generation = site[d].generation
  BY <1>1, <1>2 DEF Connection
<1>7. \A n : Within(n) /\ n # None => n.generation \in 1..Bound'
  BY <1>2, BoundGrows
<1>8. Bounded'
  <2>1. conn'.generation \in 1..Bound'
    BY <1>1, <1>6, <1>7 DEF Struct, Bounded
  <2>2. \A e \in Drain : site'[e] # None => site'[e].generation \in 1..Bound'
    BY <1>2, <1>7 DEF Struct, Bounded
  <2>3. ASSUME NEW c \in Request, step'[c] = "put", prior'[c].next # None
        PROVE  prior'[c].next.generation \in 1..Bound'
    BY <1>2, <1>7, <2>3 DEF Struct, Bounded
  <2> QED
    BY <2>1, <2>2, <2>3 DEF Bounded, Within
<1> QED
  BY <1>2, <1>3, <1>4, <1>5, <1>8 DEF Struct

LEMMA ExpiryStruct ==
  ASSUME IInv, Struct, NEW c \in Request, Expires(c)
  PROVE  Struct'
<1>1. /\ PubTypes' /\ SameRows
      /\ UNCHANGED <<configured, kind, step, pc, row, target, publicationVars>>
  BY ExpiresDoes DEF Struct
<1>2. /\ UNCHANGED <<conn, ident, remote, prior, site, snap, left, item>>
      /\ Grown /\ Identified' /\ Projects' = Projects
  BY <1>1, NothingGrows, SameSets DEF publicationVars, tables, locals, Projects
<1>3. \A e \in Drain : AtWork(e)' /\ Holds(e)'
  BY <1>1, <1>2, HoldsStays DEF Still
<1>4. Bounded' /\ \A b \in Request : Asks(b)'
  BY <1>1, <1>2 DEF Struct, Bounded, Within, Bound, Saves, Asks
<1> QED
  BY <1>1, <1>2, <1>3, <1>4 DEF Struct

LEMMA StartStruct ==
  ASSUME Init
  PROVE  Struct
<1> USE DEF Init, OutboxInit, PublicationInit
<1>1. NoSnapshot \in Snapshot
  BY DEF NoSnapshot, Snapshot, Face
<1>2. conn \in Connection \union {None} /\ (conn # None => conn.generation = 1)
  BY DEF FirstConnection, Connection
<1>3. PubTypes
  BY <1>1, <1>2 DEF PubTypes, TablesOK, LocalsOK, WorkOK, Snapshot
<1>4. Bounded /\ \A c \in Request : Asks(c)
  <2>1. \A c \in Request : step[c] \in {"begin", "done"}
    OBVIOUS
  <2>2. Bound \in Nat /\ Bound >= 1
    BY BoundIs
  <2> QED
    BY <1>2, <2>1, <2>2 DEF Bounded, Within, Asks
<1>5. Identified
  BY DEF Identified
<1>6. \A d \in Drain : AtWork(d) /\ Holds(d)
  BY DEF AtWork, Holds, ProjectWork, AtItem
<1> QED
  BY <1>3, <1>4, <1>5, <1>6 DEF Struct

-----------------------------------------------------------------------------
(* Why there is one copy: while no two drains have met, one at most is at a *)
(* projection, and an item it looks for has no identity yet; if no listing  *)
(* failed, one it is about to make is not there.                            *)

Alone == ~met => \A d, e \in Drain : row[d] \in Projects /\ row[e] \in Projects => d = e
Connected == conn = None => remote = <<>> /\ \A d \in Drain : site[d] = None
Sited == ~crossed =>
  /\ \A d \in Drain : site[d] # None => Follows(site[d], conn)
  /\ \A x \in Generation \X Item : ident[x] # None =>
       x[1] <= conn.generation /\ (x[1] = conn.generation => remote[ident[x]].url = conn.url)
  /\ \A d \in Drain : pc[d] = "update" /\ site[d].generation = conn.generation
                        => remote[target[d]].url = site[d].url
Looking == {"search", "adopt", "make", "again", "remember"}
Fresh == ~met => \A d \in Drain : pc[d] \in Looking => ident[<<site[d].generation, item[d]>>] = None
Unseen == ~met /\ ~blind => \A d \in Drain : pc[d] = "make" => Matches(d) = {}
Calm == deaths = 0 /\ faults = 0 /\ ~met /\ ~crossed /\ (conn # None => conn.generation = 1)
Kept(r) == \/ ident[<<1, remote[r].item>>] = r
           \/ \E d \in Drain : pc[d] = "remember" /\ target[d] = r /\ item[d] = remote[r].item
Settled == Calm => \A r \in DOMAIN remote : Kept(r)
Once == \A q, r \in DOMAIN remote :
          remote[q].item = remote[r].item /\ remote[q].url = remote[r].url => q = r
Single == ~met /\ ~blind /\ ~edited => Once

Drafting == {"previous", "compare", "insert", "replace"}
Fetched == ProjectWork \ {"site", "load"}
Unedited == ~edited =>
  /\ \A c \in Request : kind[c] = "publish" /\ step[c] \in Drafting => draft[c] = source
  /\ programme # None => programme.snapshot = source
  /\ \A d \in Drain : pc[d] \in Fetched => snap[d] = source
  /\ \A r \in DOMAIN remote : remote[r].face = source[remote[r].item]
Held == {"adopt", "remember", "update"}
Faced == ~edited =>
  /\ \A x \in Generation \X Item : ident[x] # None => remote[ident[x]].face = source[x[2]]
  /\ \A d \in Drain : pc[d] \in Held => remote[target[d]].face = source[item[d]]

Tidy == Connected /\ Sited /\ Fresh /\ Unseen /\ Settled /\ Single

LEMMA OneAtWork ==
  ASSUME Struct, Alone, ~met, NEW d \in Drain, pc[d] \in ProjectWork
  PROVE  \A e \in Drain \ {d} : pc[e] \notin ProjectWork
BY DEF Struct, AtWork, Alone

\* What only grows
Onward ==
  /\ met => met'
  /\ crossed => crossed'
  /\ blind => blind'
  /\ edited => edited'
  /\ deaths' \in {deaths, deaths + 1} /\ faults' \in {faults, faults + 1}

LEMMA Before ==
  ASSUME PubTypes, Onward
  PROVE  (deaths' = 0 => deaths = 0) /\ (faults' = 0 => faults = 0)
BY DEF PubTypes, WorkOK, Onward

\* A step that leaves the service, the identities and the connection alone,
\* and takes no drain to an item
LEMMA TidyStays ==
  ASSUME PubTypes, Tidy, Onward, UNCHANGED <<conn, ident, remote>>,
         \A e \in Drain :
           \/ Still(e)
           \/ /\ pc'[e] \notin AtItem /\ site'[e] \in {site[e], None, conn}
              /\ pc[e] = "remember" => deaths' # 0 \/ faults' # 0
  PROVE  Tidy'
<1>1. Connected'
  BY DEF Tidy, Connected, Still
<1>2. Sited'
  <2> SUFFICES ASSUME ~crossed'
               PROVE  /\ \A d \in Drain : site'[d] # None => Follows(site'[d], conn)
                      /\ \A d \in Drain : pc'[d] = "update" /\ site'[d].generation = conn.generation
                                            => remote[target'[d]].url = site'[d].url
    BY DEF Tidy, Sited, Onward, Follows, Generation
  <2>1. Sited /\ ~crossed
    BY DEF Tidy, Onward
  <2>2. conn # None => Follows(conn, conn)
    BY DEF Follows, PubTypes, TablesOK, Connection
  <2>3. ASSUME NEW d \in Drain, site'[d] # None PROVE Follows(site'[d], conn)
    BY <2>1, <2>2, <2>3 DEF Sited, Still
  <2>4. ASSUME NEW d \in Drain, pc'[d] = "update", site'[d].generation = conn.generation
        PROVE  remote[target'[d]].url = site'[d].url
    BY <2>1, <2>4 DEF Sited, Still, AtItem
  <2> QED
    BY <2>3, <2>4
<1>3. Fresh'
  BY DEF Tidy, Fresh, Onward, Still, AtItem, Looking
<1>4. Unseen'
  <2> SUFFICES ASSUME ~met', ~blind', NEW d \in Drain, pc'[d] = "make" PROVE Matches(d)' = {}
    BY DEF Unseen
  <2>1. Still(d) /\ Matches(d) = {}
    BY DEF Tidy, Unseen, Onward, Still, AtItem
  <2>2. Matches(d)' = Matches(d)
    BY <2>1 DEF Matches, Still
  <2> QED
    BY <2>1, <2>2
<1>5. Settled'
  BY Before DEF Tidy, Settled, Calm, Kept, Onward, Still
<1>6. Single'
  BY DEF Tidy, Single, Once, Onward
<1> QED
  BY <1>1, <1>2, <1>3, <1>4, <1>5, <1>6 DEF Tidy

\* A connection that follows the one there is
LEMMA TidyConnection ==
  ASSUME Struct, Tidy, Onward, UNCHANGED <<ident, remote, site, item, snap, target>>,
         \A e \in Drain : pc'[e] = pc[e] \/ (pc'[e] \notin AtItem /\ pc[e] \notin AtItem),
         conn' \in Connection, ~crossed' => Follows(conn, conn')
  PROVE  Tidy'
<1>1. conn' # None /\ PubTypes
  BY ConnectionAssumption DEF Struct
<1>2. Connected'
  BY <1>1 DEF Connected
<1>3. Sited'
  <2> SUFFICES ASSUME ~crossed'
               PROVE  /\ \A d \in Drain : site[d] # None => Follows(site[d], conn')
                      /\ \A x \in Generation \X Item : ident[x] # None =>
                           /\ x[1] <= conn'.generation
                           /\ x[1] = conn'.generation => remote[ident[x]].url = conn'.url
                      /\ \A d \in Drain : pc'[d] = "update" /\ site[d].generation = conn'.generation
                                            => remote[target[d]].url = site[d].url
    BY DEF Sited, Generation
  <2>1. Sited /\ ~crossed /\ Follows(conn, conn') /\ Connected
    BY DEF Tidy, Onward
  <2>2. CASE conn = None
    <3>1. remote = <<>> /\ \A d \in Drain : site[d] = None
      BY <2>1, <2>2 DEF Connected
    <3>2. DOMAIN remote = {}
      BY <3>1
    <3>3. \A x \in Generation \X Item : ident[x] = None
      BY <3>2 DEF Struct, Identified
    <3>4. \A d \in Drain : pc'[d] # "update"
      BY <3>1 DEF Struct, AtWork, ProjectWork, AtItem
    <3> QED
      BY <3>1, <3>3, <3>4
  <2>3. CASE conn # None
    <3>1. /\ conn \in Connection /\ conn.generation \in Nat /\ conn'.generation \in Nat
          /\ conn.generation <= conn'.generation
          /\ conn.generation = conn'.generation => conn.url = conn'.url
      BY <1>1, <2>1, <2>3 DEF PubTypes, TablesOK, Connection, Follows
    <3>2. ASSUME NEW d \in Drain, site[d] # None PROVE Follows(site[d], conn')
      <4>1. site[d].generation \in Nat /\ Follows(site[d], conn)
        BY <1>1, <2>1, <3>2 DEF PubTypes, LocalsOK, Connection, Sited
      <4> QED
        BY <3>1, <3>2, <4>1 DEF Follows
    <3>3. ASSUME NEW x \in Generation \X Item, ident[x] # None
          PROVE  /\ x[1] <= conn'.generation
                 /\ x[1] = conn'.generation => remote[ident[x]].url = conn'.url
      <4>1. x[1] \in Nat
        BY <3>3 DEF Generation
      <4>2. x[1] <= conn.generation /\ (x[1] = conn.generation => remote[ident[x]].url = conn.url)
        BY <2>1, <3>3 DEF Sited
      <4> QED
        BY <3>1, <4>1, <4>2
    <3>4. ASSUME NEW d \in Drain, pc'[d] = "update", site[d].generation = conn'.generation
          PROVE  remote[target[d]].url = site[d].url
      <4>1. pc[d] = "update" /\ site[d] # None
        BY <3>4 DEF Struct, AtWork, AtItem, ProjectWork
      <4>2. site[d].generation \in Nat /\ Follows(site[d], conn)
        BY <1>1, <2>1, <4>1 DEF PubTypes, LocalsOK, Connection, Sited
      <4>3. site[d].generation = conn.generation
        BY <3>1, <3>4, <4>1, <4>2 DEF Follows
      <4> QED
        BY <2>1, <4>1, <4>3 DEF Sited
    <3> QED
      BY <3>2, <3>3, <3>4
  <2> QED
    BY <2>2, <2>3
<1>4. Fresh'
  BY DEF Tidy, Fresh, Onward, AtItem, Looking
<1>5. Unseen'
  BY DEF Tidy, Unseen, Onward, AtItem, Matches
<1>6. Settled'
  <2> SUFFICES ASSUME deaths' = 0, faults' = 0, ~met', ~crossed', conn'.generation = 1
               PROVE  conn # None => conn.generation = 1
    BY <1>1, Before DEF Tidy, Settled, Calm, Kept, Onward, AtItem
  <2>1. ASSUME conn # None PROVE conn.generation = 1
    <3>1. Follows(conn, conn') /\ conn.generation \in 1..Bound /\ Bound \in Nat
      BY <2>1, BoundIs DEF Struct, Bounded, Within
    <3> QED
      BY <2>1, <3>1 DEF Follows
  <2> QED
    BY <2>1
<1>7. Single'
  BY DEF Tidy, Single, Once, Onward
<1> QED
  BY <1>2, <1>3, <1>4, <1>5, <1>6, <1>7 DEF Tidy

-----------------------------------------------------------------------------
(* Copying, step by step *)

LEMMA Finding ==
  ASSUME PubTypes, NEW d \in Drain, Cardinality(Matches(d)) = 0
  PROVE  Matches(d) = {}
<1>1. Matches(d) \subseteq 1..Len(remote) /\ Len(remote) \in Nat
  BY RecordsHave DEF Matches
<1>2. IsFiniteSet(1..Len(remote))
  BY <1>1, FS_Interval
<1>3. IsFiniteSet(Matches(d))
  BY <1>1, <1>2, FS_Subset
<1> QED
  BY <1>3, FS_EmptySet

\* A step at an item that changes neither the service nor an identity
LEMMA LookingTidy ==
  ASSUME Struct, Alone, Tidy, Onward, NEW d \in Drain, Only(d), pc[d] \in ProjectWork,
         pc[d] # "remember",
         UNCHANGED <<conn, ident, remote, site>>,
         pc'[d] \in Looking /\ ~met' => ident[<<site[d].generation, item'[d]>>] = None,
         pc'[d] = "make" /\ ~blind' => Matches(d)' = {},
         pc'[d] = "update" /\ ~crossed' /\ site[d].generation = conn.generation
           => remote[target'[d]].url = site[d].url
  PROVE  Tidy'
<1>1. Connected'
  BY DEF Tidy, Connected
<1>2. Sited'
  <2> SUFFICES ASSUME ~crossed', NEW e \in Drain,
                      pc'[e] = "update", site[e].generation = conn.generation
               PROVE  remote[target'[e]].url = site[e].url
    BY DEF Tidy, Sited, Onward, Follows, Generation
  <2>1. CASE e = d
    BY <2>1
  <2>2. CASE e # d
    BY <2>2 DEF Tidy, Sited, Onward, Only, Still
  <2> QED
    BY <2>1, <2>2
<1>3. Fresh'
  <2> SUFFICES ASSUME ~met', NEW e \in Drain, pc'[e] \in Looking
               PROVE  ident[<<site[e].generation, item'[e]>>] = None
    BY DEF Fresh
  <2>1. CASE e = d
    BY <2>1
  <2>2. CASE e # d
    BY <2>2 DEF Tidy, Fresh, Onward, Only, Still
  <2> QED
    BY <2>1, <2>2
<1>4. Unseen'
  <2> SUFFICES ASSUME ~met', ~blind', NEW e \in Drain, pc'[e] = "make" PROVE Matches(e)' = {}
    BY DEF Unseen
  <2>1. CASE e = d
    BY <2>1
  <2>2. CASE e # d
    <3>1. Still(e) /\ Matches(e) = {}
      BY <2>2 DEF Tidy, Unseen, Onward, Only, Still
    <3> QED
      BY <3>1 DEF Matches, Still
  <2> QED
    BY <2>1, <2>2
<1>5. Settled'
  <2> SUFFICES ASSUME Settled, NEW r \in DOMAIN remote,
                      \E e \in Drain : pc[e] = "remember" /\ target[e] = r /\ item[e] = remote[r].item
               PROVE  \E e \in Drain : /\ pc'[e] = "remember" /\ target'[e] = r
                                       /\ item'[e] = remote[r].item
    BY Before DEF Tidy, Settled, Calm, Kept, Onward, Struct
  <2> QED
    BY DEF Only, Still
<1>6. Single'
  BY DEF Tidy, Single, Once, Onward
<1> QED
  BY <1>1, <1>2, <1>3, <1>4, <1>5, <1>6 DEF Tidy

LEMMA InsideOnward ==
  ASSUME Struct, NEW d \in Drain, Inside(d), blind => blind'
  PROVE  Onward /\ Only(d)
BY DEF Struct, PubTypes, WorkOK, Inside, Onward

LEMMA LookingSteps ==
  ASSUME IInv, Struct, Alone, Tidy, NEW d \in Drain,
         (\E i \in Item : Identify(d, i)) \/ Search(d) \/ SearchAgain(d)
  PROVE  Tidy'
<1> USE DEF Looking
<1>1. PubTypes /\ Holds(d) /\ AtWork(d)
  BY DEF Struct
<1>2. ASSUME NEW i \in Item, Identify(d, i) PROVE Tidy'
  <2> DEFINE x == <<site[d].generation, i>>
  <2>1. /\ Inside(d) /\ UNCHANGED <<conn, crossed, site, ident, remote, blind>>
        /\ pc[d] = "items" /\ item'[d] = i
        /\ IF ident[x] = None THEN pc'[d] = "search" ELSE pc'[d] = "update" /\ target'[d] = ident[x]
    BY <1>1, <1>2, IdentifyDoes DEF Inside
  <2>2. x \in Generation \X Item /\ x[1] = site[d].generation /\ site[d] # None
    BY <1>1, <2>1, HereIs DEF AtWork, ProjectWork
  <2>3. Onward /\ Only(d)
    BY <2>1, InsideOnward
  <2> HIDE DEF x
  <2>4. ASSUME ident[x] # None, site[d].generation = conn.generation, ~crossed
        PROVE  remote[ident[x]].url = site[d].url
    <3>1. /\ remote[ident[x]].url = conn.url /\ Follows(site[d], conn)
      BY <2>2, <2>4 DEF Tidy, Sited
    <3> QED
      BY <2>2, <2>4, <3>1 DEF Follows
  <2> QED
    BY <2>1, <2>3, <2>4, LookingTidy DEF x, ProjectWork
<1>3. CASE Search(d)
  <2>1. /\ Inside(d) /\ UNCHANGED <<conn, crossed, met, site, snap, item, ident, remote>>
        /\ pc[d] = "search" /\ (blind => blind')
        /\ \/ pc'[d] = "make" /\ (blind' \/ Cardinality(Matches(d)) = 0)
           \/ pc'[d] = "adopt"
           \/ pc'[d] = "items"
    BY <1>1, <1>3, SearchDoes DEF Inside
  <2>2. Onward /\ Only(d)
    BY <2>1, InsideOnward
  <2>3. ~met => ident[<<site[d].generation, item[d]>>] = None
    BY <2>1 DEF Tidy, Fresh
  <2>4. pc'[d] = "make" /\ ~blind' => Matches(d)' = {}
    BY <1>1, <2>1, Finding DEF Matches
  <2> QED
    BY <2>1, <2>2, <2>3, <2>4, LookingTidy DEF ProjectWork
<1>4. CASE SearchAgain(d)
  <2>1. /\ Inside(d) /\ UNCHANGED <<conn, met, site, snap, item, ident, remote, blind>>
        /\ pc[d] = "again" /\ pc'[d] \in {"remember", "items"}
    BY <1>1, <1>4, SearchAgainDoes DEF Inside
  <2>2. Onward /\ Only(d)
    BY <2>1, InsideOnward
  <2>3. ~met => ident[<<site[d].generation, item[d]>>] = None
    BY <2>1 DEF Tidy, Fresh
  <2> QED
    BY <2>1, <2>2, <2>3, LookingTidy DEF ProjectWork
<1> QED
  BY <1>2, <1>3, <1>4

LEMMA RememberTidy ==
  ASSUME IInv, Struct, Alone, Tidy, NEW d \in Drain, Remember(d)
  PROVE  Tidy'
<1> DEFINE h == <<site[d].generation, item[d]>>
           t == target[d]
<1>1. PubTypes /\ Holds(d) /\ AtWork(d) /\ (\A e \in Drain : Holds(e) /\ AtWork(e))
  BY DEF Struct
<1>2. /\ Inside(d) /\ UNCHANGED <<conn, crossed, met, deaths, site, snap, left, item, remote, blind, faults>>
      /\ ident' = [ident EXCEPT ![h] = t]
      /\ \/ pc[d] = "adopt" /\ pc'[d] = "update" /\ target'[d] = t
         \/ pc[d] = "remember" /\ pc'[d] = "items"
  BY <1>1, RememberDoes DEF Here, Inside
<1>3. Onward /\ Only(d)
  BY <1>2, InsideOnward
<1>4. /\ t \in DOMAIN remote /\ remote[t].url = site[d].url
      /\ site[d] # None /\ item[d] \in Item /\ pc[d] \in ProjectWork /\ pc[d] \in Looking
  BY <1>1, <1>2 DEF Holds, AtWork, ProjectWork, AtItem, Looking
<1>5. h \in Generation \X Item /\ h[1] = site[d].generation /\ h[2] = item[d]
  BY <1>4, HereIs
<1> HIDE DEF h, t
<1>6. \A x \in Generation \X Item : ident'[x] = IF x = h THEN t ELSE ident[x]
  BY <1>1, <1>2 DEF PubTypes, TablesOK
<1>7. Connected'
  BY <1>2 DEF Tidy, Connected
<1>8. Sited'
  <2> SUFFICES ASSUME ~crossed
               PROVE  /\ \A x \in Generation \X Item : ident'[x] # None =>
                           /\ x[1] <= conn.generation
                           /\ x[1] = conn.generation => remote[ident'[x]].url = conn.url
                      /\ \A e \in Drain : pc'[e] = "update" /\ site[e].generation = conn.generation
                                            => remote[target'[e]].url = site[e].url
    BY <1>2 DEF Tidy, Sited, Generation, Follows
  <2>1. Sited /\ Follows(site[d], conn)
    BY <1>4 DEF Tidy, Sited
  <2>2. h[1] <= conn.generation /\ (h[1] = conn.generation => remote[t].url = conn.url)
    BY <1>4, <1>5, <2>1 DEF Follows
  <2>3. ASSUME NEW e \in Drain, pc'[e] = "update", site[e].generation = conn.generation
        PROVE  remote[target'[e]].url = site[e].url
    <3>1. CASE e = d
      BY <1>2, <1>4, <2>3, <3>1
    <3>2. CASE e # d
      BY <1>3, <2>1, <2>3, <3>2 DEF Sited, Only, Still
    <3> QED
      BY <3>1, <3>2
  <2> QED
    BY <1>6, <2>1, <2>2, <2>3 DEF Sited
<1>9. ~met => \A e \in Drain : pc'[e] \notin Looking
  BY <1>2, <1>3, <1>4, OneAtWork DEF Only, Still, Looking, ProjectWork
<1>10. Fresh' /\ Unseen'
  BY <1>2, <1>9 DEF Fresh, Unseen, Looking
<1>11. Settled'
  <2> SUFFICES ASSUME deaths = 0, faults = 0, ~met, ~crossed, conn # None => conn.generation = 1,
                      NEW r \in DOMAIN remote
               PROVE  ident'[<<1, remote[r].item>>] = r
    BY <1>2 DEF Settled, Calm, Kept
  <2> DEFINE x == <<1, remote[r].item>>
  <2>1. \/ ident[x] = r
        \/ \E e \in Drain : pc[e] = "remember" /\ target[e] = r /\ item[e] = remote[r].item
    BY DEF Tidy, Settled, Calm, Kept
  <2>2. conn # None /\ conn.generation = 1 /\ site[d].generation \in 1..Bound /\ Bound \in Nat
    BY <1>4, BoundIs DEF Tidy, Connected, Struct, Bounded, Within
  <2>3. site[d].generation = 1
    BY <1>4, <2>2 DEF Tidy, Sited, Follows
  <2>4. ident[h] = None
    BY <1>4 DEF Tidy, Fresh, h
  <2>5. x \in Generation \X Item /\ r \in Nat
    <3>1. remote[r] \in Record /\ r \in Nat
      BY <1>1, RecordsHave
    <3>2. 1 \in Generation
      BY BoundIs DEF Generation
    <3> QED
      BY <3>1, <3>2 DEF Record
  <2>6. CASE ident[x] = r
    <3>1. x # h
      BY <2>4, <2>5, <2>6, NoneAssumption
    <3> QED
      BY <1>6, <2>5, <2>6, <3>1
  <2>7. CASE \E e \in Drain : pc[e] = "remember" /\ target[e] = r /\ item[e] = remote[r].item
    <3>1. r = t /\ item[d] = remote[r].item
      BY <1>4, <2>7, OneAtWork DEF ProjectWork, t
    <3>2. x = h
      BY <1>4, <2>3, <3>1 DEF h
    <3> QED
      BY <1>6, <2>5, <3>1, <3>2
  <2> QED
    BY <2>1, <2>6, <2>7
<1>12. Single'
  BY <1>2, <1>3 DEF Tidy, Single, Once, Onward
<1> QED
  BY <1>7, <1>8, <1>10, <1>11, <1>12 DEF Tidy

\* What a PUT does not disturb
LEMMA WrittenTidy ==
  ASSUME IInv, Struct, Alone, Tidy, NEW d \in Drain, Update(d) \/ \E r \in DOMAIN remote : Hide(d, r)
  PROVE  Tidy'
<1>1. PubTypes /\ Holds(d) /\ AtWork(d)
  BY DEF Struct
<1>2. /\ Inside(d) /\ Grown /\ DOMAIN remote' = DOMAIN remote
      /\ UNCHANGED <<conn, crossed, met, site, snap, item, ident, blind>>
      /\ pc[d] \in {"update", "hide"} /\ pc'[d] \in {"items", "hide"}
  <2>1. CASE Update(d)
    <3>1. target[d] \in DOMAIN remote /\ item[d] \in Item
      BY <1>1, <2>1 DEF Update, Projecting, Busy, Holds, AtItem
    <3> QED
      BY <1>1, <2>1, <3>1, UpdateDoes DEF Inside, Written
  <2>2. ASSUME NEW r \in DOMAIN remote, Hide(d, r)
        PROVE  /\ Inside(d) /\ Grown /\ DOMAIN remote' = DOMAIN remote
               /\ UNCHANGED <<conn, crossed, met, site, snap, item, ident, blind>>
               /\ pc[d] \in {"update", "hide"} /\ pc'[d] \in {"items", "hide"}
    BY <1>1, <2>2, HideDoes DEF Inside, Written
  <2> QED
    BY <2>1, <2>2
<1>3. Onward /\ Only(d) /\ pc[d] \in ProjectWork
  BY <1>2, InsideOnward DEF ProjectWork
<1>4. Connected'
  <2>1. site[d] # None
    BY <1>1, <1>2 DEF AtWork, ProjectWork
  <2> QED
    BY <1>2, <2>1 DEF Tidy, Connected
<1>5. Sited'
  <2> SUFFICES ASSUME ~crossed
               PROVE  /\ \A x \in Generation \X Item : ident[x] # None /\ x[1] = conn.generation
                           => remote'[ident[x]].url = conn.url
                      /\ \A e \in Drain : pc'[e] = "update" /\ site[e].generation = conn.generation
                                            => remote'[target'[e]].url = site[e].url
    BY <1>2 DEF Tidy, Sited, Generation, Follows
  <2>1. \A x \in Generation \X Item : ident[x] # None => ident[x] \in DOMAIN remote
    BY DEF Struct, Identified
  <2>2. ASSUME NEW e \in Drain, pc'[e] = "update", site[e].generation = conn.generation
        PROVE  remote'[target'[e]].url = site[e].url
    <3>1. Still(e) /\ e # d
      BY <1>2, <1>3, <2>2 DEF Only
    <3>2. target[e] \in DOMAIN remote /\ pc[e] = "update"
      BY <2>2, <3>1 DEF Still, Struct, Holds
    <3> QED
      BY <1>2, <2>2, <3>1, <3>2 DEF Tidy, Sited, Grown, Still
  <2> QED
    BY <1>2, <2>1, <2>2 DEF Tidy, Sited, Grown
<1>6. ~met => \A e \in Drain : pc'[e] \notin Looking /\ pc[e] \notin Looking
  BY <1>2, <1>3, OneAtWork DEF Only, Still, Looking, ProjectWork
<1>7. Fresh' /\ Unseen'
  BY <1>2, <1>6 DEF Fresh, Unseen, Looking
<1>8. Settled'
  <2>1. ASSUME Calm', NEW r \in DOMAIN remote' PROVE Kept(r)'
    <3>1. deaths = 0 /\ faults = 0 /\ Calm
      BY <1>1, <1>2, <1>3, <2>1, Before DEF Calm
    <3>2. Kept(r) /\ r \in DOMAIN remote
      BY <1>2, <2>1, <3>1 DEF Tidy, Settled
    <3> QED
      BY <1>2, <1>6, <2>1, <3>1, <3>2 DEF Calm, Kept, Grown, Looking
  <2> QED
    BY <2>1 DEF Settled
<1>9. Single'
  BY <1>2, <1>3 DEF Tidy, Single, Once, Onward, Grown
<1> QED
  BY <1>4, <1>5, <1>7, <1>8, <1>9 DEF Tidy

\* A record is made for an item only if none is there that matches it.
LEMMA MakeTidy ==
  ASSUME IInv, Struct, Alone, Tidy, Unedited, NEW d \in Drain, Make(d)
  PROVE  Tidy'
<1> DEFINE new == [item |-> item[d], face |-> snap[d][item[d]], shown |-> TRUE, url |-> site[d].url]
<1>1. PubTypes /\ Holds(d) /\ AtWork(d) /\ (\A e \in Drain : Holds(e) /\ AtWork(e))
  BY DEF Struct
<1>2. item[d] \in Item /\ site[d] # None /\ pc[d] = "make" /\ pc[d] \in ProjectWork
  BY <1>1 DEF Make, Projecting, Busy, Holds, AtWork, AtItem, ProjectWork
<1>3. /\ Inside(d) /\ Grown /\ UNCHANGED <<site, snap, left, item, ident, blind>>
      /\ \/ pc'[d] = "again" /\ UNCHANGED <<remote, faults>>
         \/ pc'[d] = "remember" /\ target'[d] = Len(remote) + 1 /\ UNCHANGED faults /\ Added(new)
         \/ pc'[d] = "items" /\ faults' = faults + 1 /\ (UNCHANGED remote \/ Added(new))
  BY <1>1, <1>2, MakeDoes
<1>4. UNCHANGED <<conn, crossed, met, deaths, edited>> /\ Onward /\ Only(d)
  BY <1>3, InsideOnward DEF Inside
<1>5. CASE pc'[d] = "again" /\ UNCHANGED remote
  <2>1. ~met => ident[<<site[d].generation, item[d]>>] = None
    BY <1>2 DEF Tidy, Fresh, Looking
  <2> QED
    BY <1>2, <1>3, <1>4, <1>5, <2>1, LookingTidy
<1>6. CASE pc'[d] \in {"remember", "items"} /\ (UNCHANGED remote \/ Added(new))
  <2>1. Connected'
    BY <1>2, <1>3, <1>4 DEF Tidy, Connected
  <2>2. Sited'
    <3> SUFFICES ASSUME ~crossed
                 PROVE  /\ \A x \in Generation \X Item : ident[x] # None /\ x[1] = conn.generation
                             => remote'[ident[x]].url = conn.url
                        /\ \A e \in Drain : pc'[e] = "update" /\ site[e].generation = conn.generation
                                              => remote'[target'[e]].url = site[e].url
      BY <1>3, <1>4 DEF Tidy, Sited, Generation, Follows
    <3>1. \A x \in Generation \X Item : ident[x] # None => ident[x] \in DOMAIN remote
      BY DEF Struct, Identified
    <3>2. ASSUME NEW e \in Drain, pc'[e] = "update", site[e].generation = conn.generation
          PROVE  remote'[target'[e]].url = site[e].url
      <4>1. Still(e) /\ e # d
        BY <1>4, <1>6, <3>2 DEF Only
      <4>2. target[e] \in DOMAIN remote /\ pc[e] = "update"
        BY <1>1, <3>2, <4>1 DEF Still, Holds
      <4> QED
        BY <1>3, <3>2, <4>1, <4>2 DEF Tidy, Sited, Grown, Still
    <3> QED
      BY <1>3, <3>1, <3>2 DEF Tidy, Sited, Grown
  <2>3. ~met => \A e \in Drain \ {d} : pc'[e] \notin Looking /\ pc[e] \notin Looking
    BY <1>2, <1>4, OneAtWork DEF Only, Still, Looking, ProjectWork
  <2>4. Fresh'
    <3>1. ~met => ident[<<site[d].generation, item[d]>>] = None
      BY <1>2 DEF Tidy, Fresh, Looking
    <3>2. ASSUME NEW e \in Drain, ~met, pc'[e] \in Looking
          PROVE  ident[<<site[e].generation, item[e]>>] = None
      BY <2>3, <3>1, <3>2
    <3> QED
      BY <1>3, <1>4, <3>2 DEF Fresh
  <2>5. Unseen'
    BY <1>4, <1>6, <2>3 DEF Unseen, Looking
  <2>6. Settled'
    <3>1. ASSUME Calm', NEW r \in DOMAIN remote' PROVE Kept(r)'
      <4>1. faults' = 0 /\ faults = 0 /\ Calm /\ pc'[d] = "remember" /\ target'[d] = Len(remote) + 1 /\ Added(new)
        BY <1>1, <1>3, <1>4, <1>6, <3>1, Before DEF Calm, PubTypes, WorkOK
      <4>2. CASE r = Len(remote) + 1
        BY <1>3, <4>1, <4>2 DEF Kept, Added
      <4>3. CASE r # Len(remote) + 1
        <5>1. r \in DOMAIN remote /\ remote'[r].item = remote[r].item
          BY <1>3, <3>1, <4>1, <4>3 DEF Added, Grown
        <5>2. Kept(r)
          BY <4>1, <5>1 DEF Tidy, Settled
        <5>3. ident[<<1, remote[r].item>>] = r
          BY <1>2, <2>3, <4>1, <5>2 DEF Kept, Calm, Looking
        <5> QED
          BY <1>3, <5>1, <5>3 DEF Kept
      <4> QED
        BY <4>2, <4>3
    <3> QED
      BY <3>1 DEF Settled
  <2>7. Single'
    <3> SUFFICES ASSUME ~met, ~blind, ~edited, NEW q \in DOMAIN remote', NEW r \in DOMAIN remote',
                        remote'[q].item = remote'[r].item, remote'[q].url = remote'[r].url
                 PROVE  q = r
      BY <1>3, <1>4 DEF Single, Once
    <3>1. ASSUME NEW x \in DOMAIN remote, remote[x].item = item[d], remote[x].url = site[d].url
          PROVE  FALSE
      <4>1. remote[x].face = source[item[d]] /\ snap[d] = source
        BY <1>2, <3>1 DEF Unedited, Fetched, ProjectWork
      <4>2. x \in Matches(d)
        BY <3>1, <4>1 DEF Matches, Kindred
      <4> QED
        BY <1>2, <4>2 DEF Tidy, Unseen
    <3>2. q \in DOMAIN remote /\ r \in DOMAIN remote => q = r
      BY <1>3 DEF Tidy, Single, Once, Grown
    <3>3. CASE UNCHANGED remote
      BY <3>2, <3>3
    <3>4. CASE Added(new)
      <4>1. \A x \in DOMAIN remote' : \/ x \in DOMAIN remote
                                      \/ x = Len(remote) + 1 /\ remote'[x].item = item[d] /\ remote'[x].url = site[d].url
        BY <3>4 DEF Added
      <4> QED
        BY <1>3, <3>1, <3>2, <4>1 DEF Grown
    <3> QED
      BY <1>6, <3>3, <3>4
  <2> QED
    BY <2>1, <2>2, <2>4, <2>5, <2>6, <2>7 DEF Tidy
<1> HIDE DEF new
<1> QED
  BY <1>3, <1>5, <1>6

LEMMA AloneStays ==
  ASSUME Alone, met => met', \A e \in Drain : row'[e] \in Projects' => row[e] \in Projects
  PROVE  Alone'
BY DEF Alone

\* Without an edit, all there is of the items is as in the tables.
LEMMA UneditedStays ==
  ASSUME Unedited, UNCHANGED source, edited => edited',
         \A c \in Request : kind'[c] = "publish" /\ step'[c] \in Drafting =>
           \/ draft'[c] = source
           \/ kind[c] = "publish" /\ step[c] \in Drafting /\ draft'[c] = draft[c],
         \/ UNCHANGED programme
         \/ \E c \in Request : /\ kind[c] = "publish" /\ step[c] \in Drafting
                               /\ programme'.snapshot = draft[c],
         \A e \in Drain : pc'[e] \in Fetched =>
           \/ pc[e] \in Fetched /\ snap'[e] = snap[e]
           \/ ~edited => snap'[e] = source,
         \A r \in DOMAIN remote' :
           \/ r \in DOMAIN remote /\ remote'[r].item = remote[r].item /\ remote'[r].face = remote[r].face
           \/ ~edited => remote'[r].face = source[remote'[r].item]
  PROVE  Unedited'
<1> SUFFICES ASSUME ~edited'
             PROVE  /\ \A c \in Request : kind'[c] = "publish" /\ step'[c] \in Drafting => draft'[c] = source
                    /\ programme' # None => programme'.snapshot = source
                    /\ \A d \in Drain : pc'[d] \in Fetched => snap'[d] = source
                    /\ \A r \in DOMAIN remote' : remote'[r].face = source[remote'[r].item]
  BY DEF Unedited, Drafting, Fetched, ProjectWork
<1>1. ~edited
  OBVIOUS
<1>2. \A c \in Request : kind'[c] = "publish" /\ step'[c] \in Drafting => draft'[c] = source
  BY <1>1 DEF Unedited
<1>3. programme' # None => programme'.snapshot = source
  BY <1>1 DEF Unedited
<1>4. \A d \in Drain : pc'[d] \in Fetched => snap'[d] = source
  BY <1>1 DEF Unedited
<1>5. \A r \in DOMAIN remote' : remote'[r].face = source[remote'[r].item]
  BY <1>1 DEF Unedited
<1> QED
  BY <1>2, <1>3, <1>4, <1>5

LEMMA InsideUnedited ==
  ASSUME Unedited, NEW d \in Drain, Inside(d),
         pc'[d] \in Fetched => \/ pc[d] \in Fetched /\ snap'[d] = snap[d]
                               \/ ~edited => snap'[d] = source,
         \A r \in DOMAIN remote' :
           \/ r \in DOMAIN remote /\ remote'[r].item = remote[r].item /\ remote'[r].face = remote[r].face
           \/ ~edited => remote'[r].face = source[remote'[r].item]
  PROVE  Unedited'
<1>1. UNCHANGED <<kind, step, draft, source, programme, edited>>
  BY DEF Inside
<1>2. \A e \in Drain : pc'[e] \in Fetched =>
        \/ pc[e] \in Fetched /\ snap'[e] = snap[e]
        \/ ~edited => snap'[e] = source
  BY DEF Inside, Only, Still
<1> QED
  BY <1>1, <1>2, UneditedStays

LEMMA InsideAlone ==
  ASSUME Alone, NEW d \in Drain, Inside(d)
  PROVE  Alone'
<1>1. UNCHANGED <<row, met>> /\ Projects' = Projects
  BY DEF Inside, Projects, RowsOf
<1> QED
  BY <1>1, AloneStays

\* Without one, a record taken for an item has the item's face, whichever
\* item it was made for.
LEMMA FacesStay ==
  ASSUME Struct, Faced, UNCHANGED source, edited => edited',
         ~edited => \A r \in DOMAIN remote : remote'[r].face = remote[r].face,
         \A x \in Generation \X Item : ident'[x] # None =>
           \/ ident'[x] = ident[x]
           \/ ~edited => remote'[ident'[x]].face = source[x[2]],
         \A e \in Drain : pc'[e] \in Held =>
           \/ pc[e] \in Held /\ target'[e] = target[e] /\ item'[e] = item[e]
           \/ ~edited => remote'[target'[e]].face = source[item'[e]]
  PROVE  Faced'
<1> SUFFICES ASSUME ~edited
             PROVE  /\ \A x \in Generation \X Item :
                          ident'[x] # None => remote'[ident'[x]].face = source[x[2]]
                    /\ \A e \in Drain : pc'[e] \in Held => remote'[target'[e]].face = source[item'[e]]
  BY DEF Faced, Generation, Held
<1>1. ASSUME NEW x \in Generation \X Item, ident'[x] # None
      PROVE  remote'[ident'[x]].face = source[x[2]]
  <2>1. CASE ident'[x] = ident[x]
    <3>1. ident[x] \in DOMAIN remote /\ remote[ident[x]].face = source[x[2]]
      BY <1>1, <2>1 DEF Struct, Identified, Faced
    <3> QED
      BY <2>1, <3>1
  <2> QED
    BY <1>1, <2>1
<1>2. ASSUME NEW e \in Drain, pc'[e] \in Held PROVE remote'[target'[e]].face = source[item'[e]]
  <2>1. CASE pc[e] \in Held /\ target'[e] = target[e] /\ item'[e] = item[e]
    <3>1. target[e] \in DOMAIN remote /\ remote[target[e]].face = source[item[e]]
      BY <2>1 DEF Struct, Holds, Held, Faced
    <3> QED
      BY <2>1, <3>1
  <2> QED
    BY <1>2, <2>1
<1> QED
  BY <1>1, <1>2

LEMMA FacesQuiet ==
  ASSUME Struct, Faced, UNCHANGED <<ident, remote>>, UNCHANGED source \/ edited', edited => edited',
         \A e \in Drain : Still(e) \/ pc'[e] \notin AtItem
  PROVE  Faced'
<1>1. CASE UNCHANGED source
  BY <1>1, FacesStay DEF Held, AtItem, Still
<1>2. CASE edited'
  BY <1>2 DEF Faced
<1> QED
  BY <1>1, <1>2

Copying == Struct /\ Alone /\ Tidy /\ Unedited /\ Faced

LEMMA ProjectingCopies ==
  ASSUME IInv, Copying, NEW d \in Drain,
         \/ \E i \in Item : Identify(d, i)
         \/ Search(d) \/ SearchAgain(d) \/ Remember(d)
  PROVE  Copying'
<1> USE DEF Fetched, ProjectWork
<1>1. Struct /\ Alone /\ Tidy /\ Unedited /\ Faced /\ PubTypes /\ AtWork(d) /\ Holds(d)
  BY DEF Copying, Struct
<1>2. Struct'
  BY <1>1, ItemSteps
<1>3. Tidy'
  BY <1>1, LookingSteps, RememberTidy
<1>4. Inside(d) /\ UNCHANGED <<snap, remote>> /\ pc[d] \in Fetched
  BY <1>1, IdentifyDoes, SearchDoes, SearchAgainDoes, RememberDoes
<1>5. Alone' /\ Unedited'
  BY <1>1, <1>4, InsideAlone, InsideUnedited
<1>6. Faced'
  <2>1. UNCHANGED <<source, edited>> /\ \A e \in Drain \ {d} : Still(e)
    BY <1>4 DEF Inside, Only
  <2>2. ~edited => snap[d] = source
    BY <1>1, <1>4 DEF Unedited
  <2>3. ASSUME NEW i \in Item, Identify(d, i) PROVE Faced'
    <3> DEFINE x == <<site[d].generation, i>>
    <3>1. /\ ident' = ident /\ item'[d] = i /\ pc[d] = "items"
          /\ IF ident[x] = None THEN pc'[d] = "search" ELSE pc'[d] = "update" /\ target'[d] = ident[x]
      BY <1>1, <2>3, IdentifyDoes
    <3>2. x \in Generation \X Item /\ x[2] = i
      BY <1>1, <3>1, HereIs DEF AtWork
    <3> HIDE DEF x
    <3>3. pc'[d] \in Held /\ ~edited => remote'[target'[d]].face = source[item'[d]]
      BY <1>1, <1>4, <3>1, <3>2 DEF Faced, Held
    <3> QED
      BY <1>1, <1>4, <2>1, <3>1, <3>3, FacesStay DEF Still
  <2>4. CASE Search(d) \/ SearchAgain(d)
    <3>1. /\ ident' = ident /\ item' = item /\ pc[d] \in {"search", "again"}
          /\ pc'[d] \in Held => target'[d] \in Matches(d)
      BY <1>1, <2>4, SearchDoes, SearchAgainDoes DEF Held
    <3>2. pc'[d] \in Held /\ ~edited => remote'[target'[d]].face = source[item'[d]]
      BY <1>4, <2>2, <3>1, MatchesAre
    <3> QED
      BY <1>1, <1>4, <2>1, <3>1, <3>2, FacesStay DEF Still
  <2>5. CASE Remember(d)
    <3> DEFINE h == <<site[d].generation, item[d]>>
    <3>1. /\ item' = item /\ ident' = [ident EXCEPT ![h] = target[d]] /\ pc[d] \in Held
          /\ pc'[d] \in Held => target'[d] = target[d]
      BY <1>1, <2>5, RememberDoes DEF Held, Here
    <3>2. item[d] \in Item /\ site[d] # None
      BY <1>1, <3>1 DEF Holds, AtWork, Held, AtItem
    <3>3. h \in Generation \X Item /\ h[2] = item[d]
      BY <1>1, <3>2, HereIs
    <3> HIDE DEF h
    <3>4. \A x \in Generation \X Item : ident'[x] = IF x = h THEN target[d] ELSE ident[x]
      BY <1>1, <3>1 DEF PubTypes, TablesOK
    <3>5. ~edited => remote'[target[d]].face = source[item[d]]
      BY <1>1, <1>4, <3>1 DEF Faced
    <3> QED
      BY <1>1, <1>4, <2>1, <3>1, <3>3, <3>4, <3>5, FacesStay DEF Still
  <2> QED
    BY <2>3, <2>4, <2>5
<1> QED
  BY <1>2, <1>3, <1>5, <1>6 DEF Copying

LEMMA WritingCopies ==
  ASSUME IInv, Copying, NEW d \in Drain,
         Update(d) \/ Make(d) \/ \E r \in DOMAIN remote : Hide(d, r)
  PROVE  Copying'
<1> USE DEF Fetched, ProjectWork
<1>1. Struct /\ Alone /\ Tidy /\ Unedited /\ Faced /\ PubTypes /\ Holds(d) /\ AtWork(d)
  BY DEF Copying, Struct
<1>2. Struct'
  BY <1>1, ItemSteps, OtherSteps
<1>3. Tidy'
  BY <1>1, WrittenTidy, MakeTidy
<1>4. CASE Update(d)
  <2>1. target[d] \in DOMAIN remote /\ item[d] \in Item /\ pc[d] = "update"
    BY <1>1, <1>4 DEF Update, Projecting, Busy, Holds, AtItem
  <2>2. /\ Inside(d) /\ Grown /\ UNCHANGED <<snap, ident>> /\ pc'[d] = "items"
        /\ Written(d, target[d], [item |-> remote[target[d]].item, face |-> snap[d][item[d]],
                                  shown |-> TRUE, url |-> remote[target[d]].url])
    BY <1>1, <1>4, <2>1, UpdateDoes
  <2>3. ~edited => snap[d] = source /\ remote[target[d]].face = source[item[d]]
    BY <1>1, <2>1 DEF Unedited, Faced, Held
  <2>4. \A r \in DOMAIN remote : /\ remote'[r].item = remote[r].item
                                 /\ ~edited => remote'[r].face = remote[r].face
    BY <2>1, <2>2, <2>3 DEF Written
  <2>5. ASSUME NEW r \in DOMAIN remote'
        PROVE  \/ r \in DOMAIN remote /\ remote'[r].item = remote[r].item /\ remote'[r].face = remote[r].face
               \/ ~edited => remote'[r].face = source[remote'[r].item]
    BY <1>1, <2>2, <2>4 DEF Written, Unedited
  <2>6. Faced'
    <3>1. UNCHANGED <<source, edited>> /\ \A e \in Drain \ {d} : Still(e)
      BY <2>2 DEF Inside, Only
    <3> QED
      BY <1>1, <2>2, <2>4, <3>1, FacesStay DEF Still, Held
  <2> QED
    BY <1>1, <1>2, <1>3, <2>1, <2>2, <2>5, <2>6, InsideAlone, InsideUnedited DEF Copying
<1>5. CASE Make(d)
  <2>1. item[d] \in Item /\ site[d] # None /\ pc[d] = "make"
    BY <1>1, <1>5 DEF Make, Projecting, Busy, Holds, AtWork, AtItem
  <2>2. /\ Inside(d) /\ Grown /\ UNCHANGED <<snap, item, ident>>
        /\ \/ UNCHANGED remote
           \/ Added([item |-> item[d], face |-> snap[d][item[d]], shown |-> TRUE, url |-> site[d].url])
        /\ \/ pc'[d] \notin Held
           \/ /\ pc'[d] = "remember" /\ target'[d] = Len(remote) + 1
              /\ Added([item |-> item[d], face |-> snap[d][item[d]], shown |-> TRUE,
                        url |-> site[d].url])
    BY <1>1, <1>5, <2>1, MakeDoes DEF Held
  <2>3. ~edited => snap[d] = source
    BY <1>1, <2>1 DEF Unedited
  <2>4. ASSUME NEW r \in DOMAIN remote'
        PROVE  \/ r \in DOMAIN remote /\ remote'[r].item = remote[r].item /\ remote'[r].face = remote[r].face
               \/ ~edited => remote'[r].face = source[remote'[r].item]
    <3>1. CASE UNCHANGED remote
      BY <3>1
    <3>2. CASE Added([item |-> item[d], face |-> snap[d][item[d]], shown |-> TRUE, url |-> site[d].url])
      <4>1. \/ r \in DOMAIN remote /\ remote'[r] = remote[r]
            \/ remote'[r].item = item[d] /\ remote'[r].face = snap[d][item[d]]
        BY <3>2 DEF Added
      <4> QED
        BY <2>3, <4>1
    <3> QED
      BY <2>2, <3>1, <3>2
  <2>5. Faced'
    <3>1. UNCHANGED <<source, edited>> /\ \A e \in Drain \ {d} : Still(e)
      BY <2>2 DEF Inside, Only
    <3>2. \A r \in DOMAIN remote : remote'[r].face = remote[r].face
      BY <2>2 DEF Added
    <3>3. pc'[d] \in Held /\ ~edited => remote'[target'[d]].face = source[item'[d]]
      BY <2>2, <2>3 DEF Added
    <3> QED
      BY <1>1, <2>2, <3>1, <3>2, <3>3, FacesStay DEF Still
  <2> QED
    BY <1>1, <1>2, <1>3, <2>1, <2>2, <2>4, <2>5, InsideAlone, InsideUnedited DEF Copying
<1>6. ASSUME NEW t \in DOMAIN remote, Hide(d, t) PROVE Copying'
  <2>1. /\ Inside(d) /\ Grown /\ UNCHANGED <<snap, ident, pc>> /\ pc[d] = "hide"
        /\ Written(d, t, [item |-> remote[t].item, face |-> remote[t].face,
                          shown |-> FALSE, url |-> remote[t].url])
    BY <1>1, <1>6, HideDoes
  <2>2. \A r \in DOMAIN remote' :
          r \in DOMAIN remote /\ remote'[r].item = remote[r].item /\ remote'[r].face = remote[r].face
    BY <2>1 DEF Written
  <2>3. Faced'
    <3>1. UNCHANGED <<source, edited>> /\ \A e \in Drain \ {d} : Still(e)
      BY <2>1 DEF Inside, Only
    <3> QED
      BY <1>1, <2>1, <2>2, <3>1, FacesStay DEF Still, Held, Written
  <2> QED
    BY <1>1, <1>2, <1>3, <2>1, <2>2, <2>3, InsideAlone, InsideUnedited DEF Copying
<1> QED
  BY <1>4, <1>5, <1>6

LEMMA ReadingCopies ==
  ASSUME IInv, Copying, NEW d \in Drain,
         ListGone(d) \/ EndProject(d) \/ ReadSite(d) \/ ReadConnection(d) \/ LoadSnapshot(d)
  PROVE  Copying'
<1> USE DEF Fetched, ProjectWork
<1>1. Struct /\ Alone /\ Tidy /\ Unedited /\ Faced /\ PubTypes
  BY DEF Copying, Struct
<1>2. Struct' /\ PubTypes'
  BY <1>1, OtherSteps DEF Struct
<1>3. /\ Inside(d) /\ UNCHANGED <<ident, remote, blind, faults>> /\ site'[d] \in {site[d], conn}
      /\ pc'[d] \notin AtItem /\ pc[d] # "remember"
      /\ pc'[d] \in Fetched => \/ pc[d] \in Fetched /\ snap' = snap
                               \/ LoadSnapshot(d) /\ programme # None
    BY <1>1, ListGoneDoes, EndProjectDoes, ReadDoes, LoadSnapshotDoes DEF AtItem
<1>4. Onward /\ Only(d) /\ conn' = conn
  BY <1>1, <1>3, InsideOnward DEF Inside
<1>5. Tidy'
  <2>1. \A e \in Drain : \/ Still(e)
                         \/ /\ pc'[e] \notin AtItem /\ site'[e] \in {site[e], None, conn}
                            /\ pc[e] = "remember" => deaths' # 0 \/ faults' # 0
    BY <1>3, <1>4 DEF Only
  <2> QED
    BY <1>1, <1>3, <1>4, <2>1, TidyStays
<1>6. ASSUME LoadSnapshot(d), programme # None, ~edited PROVE snap'[d] = source
  <2>1. programme.snapshot = source
    BY <1>1, <1>6 DEF Unedited
  <2>2. \A i \in Item : snap'[d][i] = source[i]
    BY <1>1, <1>6, <2>1, LoadSnapshotDoes
  <2>3. snap'[d] \in Snapshot' /\ source \in Snapshot /\ Snapshot' = Snapshot
    BY <1>1, <1>2 DEF PubTypes, LocalsOK, TablesOK, Snapshot, Face
  <2> QED
    BY <2>2, <2>3 DEF Snapshot
<1>7. Unedited'
  BY <1>1, <1>3, <1>6, InsideUnedited
<1>8. Faced'
  BY <1>1, <1>3, <1>4, FacesQuiet DEF Inside, Only
<1> QED
  BY <1>1, <1>2, <1>3, <1>5, <1>7, <1>8, InsideAlone DEF Copying

LEMMA OutsideCopies ==
  ASSUME IInv, Copying, NEW d \in Drain, Outside(d), PubTypes', Alone', met => met',
         deaths' \in {deaths, deaths + 1}, faults' \in {faults, faults + 1},
         pc[d] = "remember" => deaths' # 0
  PROVE  Copying'
<1>1. Struct /\ Alone /\ Tidy /\ Unedited /\ Faced /\ PubTypes
  BY DEF Copying, Struct
<1>2. Struct'
  BY <1>1, OutsideStruct
<1>3. /\ Only(d) /\ UNCHANGED <<kind, step, source, programme, conn, ident, remote, draft, edited, crossed, blind>>
      /\ pc'[d] \notin AtItem /\ pc'[d] \notin Fetched /\ site'[d] \in {site[d], None}
  BY DEF Outside, AtItem, Fetched, ProjectWork
<1>4. Onward
  BY <1>3 DEF Onward
<1>5. Tidy'
  <2>1. \A e \in Drain : \/ Still(e)
                         \/ /\ pc'[e] \notin AtItem /\ site'[e] \in {site[e], None, conn}
                            /\ pc[e] = "remember" => deaths' # 0 \/ faults' # 0
    BY <1>3 DEF Only
  <2> QED
    BY <1>1, <1>3, <1>4, <2>1, TidyStays
<1>6. Unedited'
  <2>1. \A e \in Drain : pc'[e] \in Fetched => pc[e] \in Fetched /\ snap'[e] = snap[e]
    BY <1>3 DEF Only, Still
  <2> QED
    BY <1>1, <1>3, <2>1, UneditedStays
<1>7. Faced'
  BY <1>1, <1>3, FacesQuiet DEF Only
<1> QED
  BY <1>2, <1>5, <1>6, <1>7 DEF Copying

LEMMA AwayCopies ==
  ASSUME IInv, Copying, NEW d \in Drain,
         \/ /\ UNCHANGED <<projectionVars, publicationVars>>
            /\ ListAnnouncements(d) \/ ListVerifies(d) \/ ListProjects(d) \/ Rest(d)
         \/ /\ UNCHANGED publicationVars
            /\ \/ FindProjection(d) \/ LookUp(d) \/ Post(d) \/ Patch(d) \/ FindLink(d) \/ WriteLink(d)
         \/ Leave(d)
         \/ Die(d) /\ Forget(d)
  PROVE  Copying'
<1>1. Struct /\ Alone /\ PubTypes /\ Types /\ AtWork(d) /\ deaths \in Nat
  BY DEF Copying, Struct, IInv, PubTypes, WorkOK
<1>2. /\ None \notin Projects
      /\ SameRows => Projects' = Projects
  BY <1>1, ProjectsAre, SameSets DEF Projects
<1>3. pc[d] = "remember" => row[d] \in Projects
  BY <1>1 DEF AtWork, ProjectWork
<1>4. ASSUME Outside(d), row'[d] \in {row[d], None}, met => met' PROVE Alone'
  <2>1. Projects' = Projects /\ \A e \in Drain \ {d} : row'[e] = row[e]
    BY <1>2, <1>4 DEF Outside, Only, Still
  <2> QED
    BY <1>1, <1>2, <1>4, <2>1, AloneStays
<1>5. ASSUME UNCHANGED <<projectionVars, publicationVars>>,
             ListAnnouncements(d) \/ ListVerifies(d) \/ ListProjects(d) \/ Rest(d)
      PROVE  Copying'
  BY <1>1, <1>2, <1>3, <1>4, <1>5, ListingDoes, OutsideCopies
<1>6. ASSUME UNCHANGED publicationVars,
             \/ FindProjection(d) \/ LookUp(d) \/ Post(d) \/ Patch(d) \/ FindLink(d) \/ WriteLink(d)
      PROVE  Copying'
  BY <1>1, <1>2, <1>3, <1>4, <1>6, AnnouncingDoes, OutsideCopies
<1>7. CASE Leave(d)
  BY <1>1, <1>4, <1>7, LeaveDoes, OutsideCopies
<1>8. CASE Die(d) /\ Forget(d)
  BY <1>1, <1>4, <1>8, DieDoes, OutsideCopies
<1> QED
  BY <1>5, <1>6, <1>7, <1>8

\* The history records it when a second drain takes up a projection.
LEMMA ClaimCopies ==
  ASSUME IInv, Copying, NEW d \in Drain, NEW c \in Request, UNCHANGED publicationVars,
         ClaimAnnouncement(d, c) \/ ClaimJob(d, c)
  PROVE  Copying'
<1>1. Struct /\ Alone /\ PubTypes /\ Types /\ AtWork(d)
  BY DEF Copying, Struct, IInv
<1>2. /\ Outside(d) /\ PubTypes' /\ row[d] = None /\ outbox[c] # None
      /\ UNCHANGED <<deaths, faults>>
      /\ \/ UNCHANGED <<row, met>>
         \/ /\ row'[d] = c
            /\ met' = (met \/ \E e \in Drain : /\ row[e] # None
                                               /\ outbox[row[e]].topic = outbox[c].topic)
  BY <1>1, ClaimDoes
<1>3. None \notin Projects /\ Projects' = Projects /\ \A e \in Drain \ {d} : row'[e] = row[e]
  BY <1>1, <1>2, ProjectsAre, SameSets DEF Projects, Outside, Only, Still
<1>4. pc[d] # "remember"
  BY <1>1, <1>2, <1>3 DEF AtWork, ProjectWork
<1>5. Alone'
  <2>1. CASE UNCHANGED <<row, met>>
    BY <1>1, <1>3, <2>1, AloneStays
  <2>2. CASE /\ row'[d] = c
             /\ met' = (met \/ \E e \in Drain : /\ row[e] # None
                                                /\ outbox[row[e]].topic = outbox[c].topic)
    <3> SUFFICES ASSUME ~met', c \in Projects, NEW e \in Drain \ {d}, row[e] \in Projects
                 PROVE  FALSE
      BY <1>1, <1>3, <2>2 DEF Alone
    <3>1. row[e] # None /\ outbox[row[e]].topic = "project" /\ outbox[c].topic = "project"
      BY <1>3 DEF Projects, RowsOf
    <3> QED
      BY <2>2, <3>1
  <2> QED
    BY <1>2, <2>1, <2>2
<1>6. met => met'
  BY <1>2
<1> QED
  BY <1>2, <1>4, <1>5, <1>6, OutsideCopies

LEMMA ReportCopies ==
  ASSUME IInv, Copying, NEW d \in Drain, Report(d)
  PROVE  Copying'
<1>1. Struct /\ Alone /\ Tidy /\ Unedited /\ Faced /\ PubTypes
  BY DEF Copying, Struct
<1>2. pc[d] = "report" /\ site[d] # None /\ site[d] \in Connection
  BY <1>1 DEF Struct, AtWork, Report, Busy, PubTypes, LocalsOK
<1>3. /\ PubTypes' /\ Only(d) /\ SameRows
      /\ UNCHANGED <<kind, step, outbox, row, target, met, deaths, faults, source, programme,
                     ident, remote, draft, site, snap, item, edited, blind>>
      /\ conn' = [site[d] EXCEPT !.version = @ + 1] /\ crossed' = (crossed \/ conn # site[d])
      /\ pc'[d] = "retire"
  BY <1>1, <1>2, ReportDoes
<1>4. Struct'
  BY <1>1, ReportStruct
<1>5. Projects' = Projects
  BY <1>3 DEF Projects, RowsOf
<1>6. Alone'
  BY <1>1, <1>3, <1>5, AloneStays
<1>7. /\ conn' \in Connection /\ conn'.generation = site[d].generation /\ conn'.url = site[d].url
      /\ site[d].generation \in Nat
  BY <1>2, <1>3 DEF Connection
<1>8. ~crossed' => Follows(conn, conn')
  <2>1. ~crossed' => conn = site[d]
    BY <1>3
  <2>2. Follows(site[d], conn')
    BY <1>7 DEF Follows
  <2> QED
    BY <2>1, <2>2
<1>9. Onward
  BY <1>3 DEF Onward
<1>10. \A e \in Drain : pc'[e] = pc[e] \/ (pc'[e] \notin AtItem /\ pc[e] \notin AtItem)
  BY <1>2, <1>3 DEF Only, Still, AtItem
<1>11. Tidy'
  BY <1>1, <1>3, <1>7, <1>8, <1>9, <1>10, TidyConnection
<1>12. Unedited'
  <2>1. \A e \in Drain : pc'[e] \in Fetched => pc[e] \in Fetched /\ snap'[e] = snap[e]
    BY <1>3 DEF Only, Still, Fetched, ProjectWork
  <2> QED
    BY <1>1, <1>3, <2>1, UneditedStays
<1>13. Faced'
  BY <1>1, <1>3, FacesQuiet DEF Only, AtItem
<1> QED
  BY <1>4, <1>6, <1>11, <1>12, <1>13 DEF Copying

-----------------------------------------------------------------------------
(* Requests *)

LEMMA ServedCopies ==
  ASSUME IInv, Copying, NEW c \in Request, Served(c), Struct', Unedited',
         UNCHANGED outbox \/ \E r : outbox' = [outbox EXCEPT ![c] = r],
         deaths' \in {deaths, deaths + 1}, edited => edited', crossed => crossed',
         UNCHANGED source \/ edited',
         \/ UNCHANGED conn
         \/ conn' \in Connection /\ (~crossed' => Follows(conn, conn'))
  PROVE  Copying'
<1>1. Struct /\ Alone /\ Tidy /\ Faced /\ PubTypes
  BY DEF Copying, Struct
<1>2. UNCHANGED <<pc, row, target, site, snap, left, item, ident, remote, blind, met, faults>>
  BY DEF Served
<1>9. Faced'
  BY <1>1, <1>2, FacesQuiet DEF Still
<1>3. Onward
  BY <1>2 DEF Onward
<1>4. Alone'
  <2>1. step[c] # "done"
    BY DEF Served
  <2>2. \A e \in Drain : row'[e] \in Projects' => row[e] \in Projects
    BY <1>2, <2>1, NewProjects
  <2> QED
    BY <1>1, <1>2, <2>2, AloneStays
<1>5. CASE UNCHANGED conn
  <2>1. \A e \in Drain : Still(e)
    BY <1>2 DEF Still
  <2>2. Tidy'
    BY <1>1, <1>2, <1>3, <1>5, <2>1, TidyStays
  <2> QED
    BY <1>4, <1>9, <2>2 DEF Copying
<1>6. CASE conn' \in Connection /\ (~crossed' => Follows(conn, conn'))
  <2>1. Tidy'
    BY <1>1, <1>2, <1>3, <1>6, TidyConnection
  <2> QED
    BY <1>4, <1>9, <2>1 DEF Copying
<1> QED
  BY <1>5, <1>6

\* What a request composed is compared, then stored.
LEMMA DraftUnedited ==
  ASSUME Unedited, NEW c \in Request, Served(c), UNCHANGED source, edited => edited',
         \/ kind[c] # "publish"
         \/ step'[c] \notin Drafting
         \/ draft'[c] = source
         \/ step[c] \in Drafting /\ draft'[c] = draft[c],
         \/ UNCHANGED programme
         \/ kind[c] = "publish" /\ step[c] \in Drafting /\ programme'.snapshot = draft[c]
  PROVE  Unedited'
<1>1. /\ UNCHANGED <<kind, pc, snap, remote>>
      /\ \A b \in Request \ {c} : UNCHANGED <<step[b], draft[b]>>
  BY DEF Served
<1>2. ASSUME NEW b \in Request, kind'[b] = "publish", step'[b] \in Drafting
      PROVE  draft'[b] = source \/ (kind[b] = "publish" /\ step[b] \in Drafting /\ draft'[b] = draft[b])
  <2>1. CASE b = c
    BY <1>1, <1>2, <2>1
  <2>2. CASE b # c
    BY <1>1, <1>2, <2>2
  <2> QED
    BY <2>1, <2>2
<1> QED
  BY <1>1, <1>2, UneditedStays

LEMMA EditedUnedited ==
  ASSUME edited'
  PROVE  Unedited'
BY DEF Unedited

LEMMA CommandCopies ==
  ASSUME IInv, Copying, NEW c \in Request, PublicationCommand(c)
  PROVE  Copying'
<1> USE DEF Drafting
<1>1. Struct /\ Unedited /\ PubTypes /\ Asks(c) /\ Struct'
  BY CommandStruct DEF Copying, Struct
<1>2. ASSUME Served(c), Tables(c), UNCHANGED deaths,
             UNCHANGED outbox \/ \E r : outbox' = [outbox EXCEPT ![c] = r],
             \/ kind[c] # "publish"
             \/ step'[c] \notin Drafting
             \/ draft'[c] = source
             \/ step[c] \in Drafting /\ draft'[c] = draft[c]
      PROVE  Copying'
  <2>1. Unedited'
    BY <1>1, <1>2, DraftUnedited DEF Tables
  <2> QED
    BY <1>1, <1>2, <2>1, ServedCopies DEF Tables
<1>3. CASE Compose(c) \/ ReadPrevious(c) \/ ComparePrevious(c) \/ CheckReady(c)
  BY <1>1, <1>2, <1>3, ComposeDoes, ReadPreviousDoes, ComparePreviousDoes, CheckReadyDoes
<1>4. CASE StoreProgramme(c)
  <2>1. /\ Served(c) /\ UNCHANGED <<outbox, deaths, source, conn, edited, crossed>>
        /\ kind[c] = "publish" /\ step[c] \in Drafting /\ step'[c] \notin Drafting
        /\ UNCHANGED programme \/ programme'.snapshot = draft[c]
    BY <1>1, <1>4, StoreProgrammeDoes
  <2>2. Unedited'
    BY <1>1, <2>1, DraftUnedited
  <2> QED
    BY <1>1, <2>1, <2>2, ServedCopies
<1>5. CASE Enlist(c) \/ AddRow(c)
  <2>1. step[c] \in {"enlist", "add"}
    BY <1>5 DEF Enlist, AddRow, Serving
  <2>2. kind[c] # "edit"
    BY <1>1, <2>1 DEF Asks
  <2>3. CASE Enlist(c)
    BY <1>1, <1>2, <2>2, <2>3, EnlistDoes
  <2>4. CASE AddRow(c)
    BY <1>1, <1>2, <2>2, <2>4, AddRowDoes
  <2> QED
    BY <1>5, <2>3, <2>4
<1>6. CASE PutConnection(c)
  <2>1. step[c] = "put"
    BY <1>6 DEF PutConnection, Serving
  <2>2. /\ prior[c].next \in Connection /\ Follows(prior[c].seen, prior[c].next)
        /\ kind[c] # "edit" /\ kind[c] # "publish"
    BY <1>1, <2>1 DEF Asks
  <2>3. /\ Served(c) /\ UNCHANGED <<outbox, deaths, source, programme, edited>>
        /\ conn' = prior[c].next /\ crossed' = (crossed \/ conn # prior[c].seen)
    BY <1>1, <1>6, <2>2, PutConnectionDoes
  <2>4. ~crossed' => conn = prior[c].seen
    BY <2>3
  <2>5. conn' \in Connection /\ (~crossed' => Follows(conn, conn'))
    BY <2>2, <2>3, <2>4
  <2>6. Unedited'
    BY <1>1, <2>2, <2>3, DraftUnedited
  <2>7. crossed => crossed'
    BY <2>3
  <2> QED
    BY <1>1, <2>3, <2>5, <2>6, <2>7, ServedCopies
<1>7. ASSUME NEW i \in Item, NEW f \in FaceOf[i] \union {None}, Edit(c, i, f) PROVE Copying'
  <2>1. Served(c) /\ UNCHANGED <<outbox, deaths, conn, crossed>> /\ edited' = TRUE
    BY <1>1, <1>7, EditDoes
  <2>2. edited'
    BY <2>1
  <2>3. Unedited'
    BY <2>2, EditedUnedited
  <2> QED
    BY <1>1, <2>1, <2>2, <2>3, ServedCopies
<1>8. ASSUME NEW o \in BOOLEAN, QueueVerify(c, o) PROVE Copying'
  BY <1>1, <1>2, <1>8, QueueVerifyDoes
<1>9. ASSUME NEW o \in BOOLEAN, NEW b \in [enabled : BOOLEAN, url : Url], Save(c, b, o) PROVE Copying'
  BY <1>1, <1>2, <1>9, SaveDoes
<1> QED
  BY <1>3, <1>4, <1>5, <1>6, <1>7, <1>8, <1>9 DEF PublicationCommand

LEMMA OtherCopies ==
  ASSUME IInv, Copying, NEW c \in Request, UNCHANGED publicationVars,
         EventCommand(c) \/ Abandon(c)
  PROVE  Copying'
<1>1. Struct /\ Unedited /\ PubTypes
  BY DEF Copying, Struct
<1>2. /\ Served(c) /\ PubTypes' /\ Tables(c) /\ UNCHANGED draft
      /\ deaths' \in {deaths, deaths + 1} /\ step'[c] \in {"commit", "done", "gone"}
  BY <1>1, EventCommandDoes, AbandonDoes
<1>3. UNCHANGED outbox \/ \E r : outbox' = [outbox EXCEPT ![c] = r]
  <2>1. CASE EventCommand(c)
    BY <2>1 DEF EventCommand, Create, CommitUpdate, ReadEvent
  <2>2. CASE Abandon(c)
    BY <2>2 DEF Abandon
  <2> QED
    BY <2>1, <2>2
<1>4. Struct'
  BY <1>1, <1>2, <1>3, QuietStruct DEF Tables
<1>5. Unedited'
  BY <1>1, <1>2, DraftUnedited DEF Tables, Drafting
<1> QED
  BY <1>2, <1>3, <1>4, <1>5, ServedCopies DEF Tables

LEMMA QuietCopies ==
  ASSUME Copying, Struct',
         UNCHANGED <<kind, step, pc, row, target, met, deaths, faults, publicationVars>>,
         Projects' = Projects
  PROVE  Copying'
<1>1. /\ UNCHANGED <<source, programme, conn, ident, remote, draft, site, snap, left, item,
                     edited, crossed, blind>>
  BY DEF publicationVars, tables, locals, marks
<1>2. Struct /\ Alone /\ Tidy /\ Unedited /\ Faced /\ PubTypes
  BY DEF Copying, Struct
<1>3. Onward /\ \A e \in Drain : Still(e)
  BY <1>1 DEF Onward, Still
<1>4. Tidy'
  BY <1>1, <1>2, <1>3, TidyStays
<1>5. Unedited'
  BY <1>1, <1>2, UneditedStays
<1>6. Alone'
  BY <1>2, AloneStays
<1>7. Faced'
  BY <1>1, <1>2, <1>3, FacesQuiet
<1> QED
  BY <1>4, <1>5, <1>6, <1>7 DEF Copying

LEMMA ExpiryCopies ==
  ASSUME IInv, Copying, NEW c \in Request, Expires(c)
  PROVE  Copying'
<1>1. Struct /\ PubTypes
  BY DEF Copying, Struct
<1>2. /\ SameRows
      /\ UNCHANGED <<kind, step, pc, row, target, met, deaths, faults, publicationVars>>
  BY <1>1, ExpiresDoes
<1>3. Projects' = Projects
  BY <1>2, SameSets DEF Projects
<1>4. Struct'
  BY <1>1, ExpiryStruct
<1> QED
  BY <1>2, <1>3, <1>4, QuietCopies

LEMMA StillStruct ==
  ASSUME Struct, UNCHANGED vars
  PROVE  Struct'
<1>1. /\ UNCHANGED <<configured, kind, outbox, step, pc, row, target, deaths, faults, source,
                     programme, conn, ident, remote, draft, prior, site, snap, left, item>>
      /\ Projects' = Projects
  BY DEF vars, given, work, past, publicationVars, tables, locals, Projects, RowsOf
<1>2. PubTypes'
  BY <1>1 DEF Struct, PubTypes, TablesOK, LocalsOK, WorkOK, Snapshot, Face, Connection, Record, Generation
<1>3. Identified' /\ Grown
  BY <1>1, NothingGrows
<1>4. \A e \in Drain : AtWork(e)' /\ Holds(e)'
  BY <1>1, <1>3, HoldsStays DEF Still
<1>5. Bounded' /\ \A b \in Request : Asks(b)'
  BY <1>1 DEF Struct, Bounded, Within, Bound, Saves, Asks
<1> QED
  BY <1>2, <1>3, <1>4, <1>5 DEF Struct

LEMMA StartCopies ==
  ASSUME Init
  PROVE  Copying
<1> USE DEF Init, OutboxInit, PublicationInit
<1>1. Struct
  BY StartStruct
<1>2. /\ pc = [d \in Drain |-> "idle"] /\ site = [d \in Drain |-> None] /\ row = [d \in Drain |-> None]
      /\ remote = <<>> /\ programme = None /\ DOMAIN remote = {}
  OBVIOUS
<1>3. Connected /\ Sited
  BY <1>2 DEF Connected, Sited
<1>4. Fresh /\ Unseen /\ Settled /\ Single
  BY <1>2 DEF Fresh, Looking, Unseen, Settled, Single, Once
<1>5. Alone
  <2>1. None \notin Projects
    BY NoneAssumption DEF Projects, RowsOf
  <2> QED
    BY <1>2, <2>1 DEF Alone
<1>6. Unedited
  <2>1. \A c \in Request : step[c] \notin Drafting
    BY DEF Drafting
  <2> QED
    BY <1>2, <2>1 DEF Unedited, Fetched, ProjectWork
<1>7. Faced
  BY DEF Faced, Held
<1> QED
  BY <1>1, <1>3, <1>4, <1>5, <1>6, <1>7 DEF Copying, Tidy

LEMMA CopyingInductive ==
  ASSUME IInv, Copying, [Next]_vars
  PROVE  Copying'
<1>1. ASSUME NEW d \in Drain, Drained(d) PROVE Copying'
  <2>1. CASE AirtableStep(d) /\ UNCHANGED publicationVars
    <3>1. CASE ListAnnouncements(d)
      <4>1. UNCHANGED <<projectionVars, publicationVars>>
        BY <2>1, <3>1 DEF ListAnnouncements
      <4> QED
        BY <3>1, <4>1, AwayCopies
    <3> QED
      BY <2>1, <3>1, AwayCopies, ClaimCopies DEF AirtableStep
  <2>2. CASE AcceleventsStep(d) /\ UNCHANGED projectionVars
    <3>1. CASE ListVerifies(d) \/ ListProjects(d) \/ Rest(d)
      <4>1. UNCHANGED <<projectionVars, publicationVars>>
        BY <2>2, <3>1 DEF ListVerifies, ListProjects, Rest, Idle
      <4> QED
        BY <3>1, <4>1, AwayCopies
    <3>2. ASSUME NEW c \in Request, ClaimJob(d, c) PROVE Copying'
      <4>1. UNCHANGED publicationVars
        BY <3>2 DEF ClaimJob
      <4> QED
        BY <3>2, <4>1, ClaimCopies
    <3> QED
      BY <2>2, <3>1, <3>2, ProjectingCopies, WritingCopies, ReadingCopies, ReportCopies DEF AcceleventsStep
  <2>3. CASE Leave(d)
    BY <2>3, AwayCopies
  <2> QED
    BY <1>1, <2>1, <2>2, <2>3 DEF Drained
<1>2. ASSUME NEW d \in Drain, Die(d), Forget(d) PROVE Copying'
  BY <1>2, AwayCopies
<1>3. ASSUME NEW c \in Request, PublicationCommand(c) PROVE Copying'
  BY <1>3, CommandCopies
<1>4. ASSUME NEW c \in Request, UNCHANGED publicationVars, EventCommand(c) \/ Abandon(c)
      PROVE  Copying'
  BY <1>4, OtherCopies
<1>5. ASSUME NEW c \in Request, Expires(c) PROVE Copying'
  BY <1>5, ExpiryCopies
<1>6. CASE UNCHANGED vars
  <2>1. /\ UNCHANGED <<kind, step, pc, row, target, met, deaths, faults, publicationVars>>
        /\ Projects' = Projects
    BY <1>6 DEF vars, given, work, past, Projects, RowsOf
  <2>2. Struct'
    BY <1>6, StillStruct DEF Copying
  <2> QED
    BY <2>1, <2>2, QuietCopies
<1> QED
  BY <1>1, <1>2, <1>3, <1>4, <1>5, <1>6 DEF Next

LEMMA CopiesAreNamed ==
  ASSUME Copying
  PROVE  OneCopyEach
<1> SUFFICES ASSUME NEW q \in DOMAIN remote, NEW r \in DOMAIN remote, q # r,
                    remote[q].item = remote[r].item, remote[q].url = remote[r].url,
                    ~met, ~blind, ~(edited /\ (deaths > 0 \/ faults > 0 \/ crossed \/ conn.generation > 1))
             PROVE  FALSE
  BY DEF OneCopyEach, Doubled
<1>1. Struct /\ Alone /\ Tidy /\ PubTypes /\ DOMAIN remote \subseteq Nat
  BY RecordsHave DEF Copying, Struct
<1>2. edited
  BY <1>1 DEF Tidy, Single, Once
<1>3. conn # None /\ conn.generation = 1
  <2>1. conn # None
    BY <1>1 DEF Tidy, Connected
  <2>2. conn.generation \in 1..Bound /\ Bound \in Nat
    BY <1>1, <2>1, BoundIs DEF Struct, Bounded, Within
  <2>3. ~(conn.generation > 1)
    BY <1>2
  <2> QED
    BY <2>1, <2>2, <2>3
<1>4. deaths = 0 /\ faults = 0
  <2>1. ~(deaths > 0) /\ ~(faults > 0)
    BY <1>2
  <2>2. deaths \in Nat /\ faults \in Nat
    BY <1>1 DEF PubTypes, WorkOK
  <2> QED
    BY <2>1, <2>2
<1>5. ~crossed
  BY <1>2
<1>6. Kept(q) /\ Kept(r)
  BY <1>1, <1>3, <1>4, <1>5 DEF Tidy, Settled, Calm
<1>7. ASSUME NEW d \in Drain, pc[d] = "remember", NEW t \in DOMAIN remote, remote[t].item = item[d]
      PROVE  ident[<<1, remote[t].item>>] = None
  <2>1. site[d] # None
    BY <1>1, <1>7 DEF Struct, AtWork, ProjectWork
  <2>2. Follows(site[d], conn) /\ site[d].generation \in 1..Bound /\ Bound \in Nat
    BY <1>1, <1>5, <2>1, BoundIs DEF Tidy, Sited, Struct, Bounded, Within
  <2>3. site[d].generation = 1
    BY <1>3, <2>1, <2>2 DEF Follows
  <2> QED
    BY <1>1, <1>7, <2>1, <2>3 DEF Tidy, Fresh, Looking
<1>8. \A d, e \in Drain : pc[d] = "remember" /\ pc[e] = "remember" => d = e
  BY <1>1, OneAtWork DEF ProjectWork
<1>9. ident[<<1, remote[q].item>>] # None \/ ident[<<1, remote[r].item>>] # None
  BY <1>6, <1>8, <1>1, NoneAssumption DEF Kept
<1>10. \A d \in Drain : pc[d] = "remember" => item[d] # remote[q].item
  BY <1>7, <1>9
<1> QED
  BY <1>6, <1>10 DEF Kept

(* projectSession, projectSpeaker: the identity that is looked up first and *)
(* stored last, and the listing in between, make one record of an item in   *)
(* each event of the service, whatever dies or fails to answer, while the   *)
(* item stays as it was.                                                    *)
THEOREM CopiesNamed == Spec => []OneCopyEach
<1>1. Init => IInv /\ Copying
  BY Start, StartCopies
<1>2. IInv /\ Copying /\ [Next]_vars => (IInv /\ Copying)'
  BY Inductive, CopyingInductive
<1>3. IInv /\ Copying => OneCopyEach
  BY CopiesAreNamed
<1> QED
  BY <1>1, <1>2, <1>3, PTL DEF Spec

-----------------------------------------------------------------------------
(* Why nothing is forgotten: while nothing goes wrong, somebody owes a      *)
(* projection, a drain is at one of what is published now, or the service   *)
(* shows that.                                                              *)

Holders == overruns \in Nat /\ (overruns = 0 =>
             \A d \in Drain : row[d] # None =>
               outbox[row[d]].holder = d /\ outbox[row[d]].live /\ ~outbox[row[d]].done)
Again == \A d \in Drain : pc[d] = "again" => item[d] \in Speaker

Unharmed == /\ ~met /\ ~crossed /\ faults = 0 /\ overruns = 0
            /\ configured /\ Ready(conn) /\ programme # None

Past(d) == row[d] \in Projects /\ pc[d] # "site"
Waits(c) == c \in Projects /\ ~outbox[c].done /\ \A d \in Drain : row[d] = c => pc[d] = "site"
Owes(c) == step[c] = "gone" \/ (kind[c] \in {"publish", "save"} /\ step[c] \in {"ready", "enlist", "add"})
Owed == \E c \in Request : Waits(c) \/ Owes(c)

\* Record r shows face f in event u of the service.
Good(r, f, u) == remote[r].face = f /\ remote[r].shown = TRUE /\ remote[r].url = u
\* The record generation g knows of i does; or it is another session's too,
\* or nobody knows which record is the session's.
Shown(g, i, f, u) == ident[<<g, i>>] # None /\ Good(ident[<<g, i>>], f, u)
Lent(g, i) == /\ ident[<<g, i>>] # None
              /\ \E j \in Session \ {i} : ident[<<g, i>>] = ident[<<g, j>>]
Excused(g, i) == i \in unsure \/ Lent(g, i)
\* What generation g knows of i is hidden, or of those still to be.
Gone(g, i, rest) == ident[<<g, i>>] # None =>
                      ident[<<g, i>>] \in rest \/ remote[ident[<<g, i>>]].shown = FALSE
ToDo(d, i) == \/ i \in left[d]
              \/ /\ pc[d] \in AtItem /\ i = item[d]
                 /\ pc[d] = "remember" => Good(target[d], snap[d][i], site[d].url)

Copied(d, i) == \/ Shown(site[d].generation, i, snap[d][i], site[d].url)
                \/ Excused(site[d].generation, i)
Hidden(d, i) == Gone(site[d].generation, i, left[d])
\* What is to be hidden are records of sessions that are gone.
Known(d) ==
  /\ pc[d] = "update" => ident[<<site[d].generation, item[d]>>] = target[d]
  /\ pc[d] = "hide" => \A r \in left[d] : \E k \in Session :
                         snap[d][k] = None /\ r = ident[<<site[d].generation, k>>]
Current(d) ==
  /\ Past(d) /\ pc[d] \in ProjectWork \union {"retire"} /\ site[d] # None
  /\ site[d].generation = conn.generation
  /\ pc[d] # "load" => \A i \in Session : snap[d][i] = programme.snapshot[i]
  /\ pc[d] \in AtItem \union {"items"} =>
       \A i \in Session : snap[d][i] # None => ToDo(d, i) \/ Copied(d, i)
  /\ pc[d] \in {"hide", "retire"} =>
       \A i \in Session : IF snap[d][i] = None THEN Hidden(d, i) ELSE Copied(d, i)
  /\ pc[d] = "retire" => left[d] = {}
  /\ Known(d)

AsPublished(i) == IF programme.snapshot[i] = None THEN Gone(conn.generation, i, {})
                  ELSE \/ Shown(conn.generation, i, programme.snapshot[i], conn.url)
                       \/ Excused(conn.generation, i)
Mirrored == (\A i \in Session : AsPublished(i)) /\ \A d \in Drain : ~Past(d)
Remembered == Unharmed => Owed \/ Mirrored \/ \E d \in Drain : Current(d)

Remembering == Copying /\ Holders /\ Again /\ Remembered

\* What a step does not change of the connection when it only reports on it
Alike == /\ conn' # None <=> conn # None
         /\ conn # None => /\ conn'.enabled = conn.enabled /\ conn'.generation = conn.generation
                           /\ conn'.url = conn.url

LEMMA UnharmedBefore ==
  ASSUME PubTypes, Holders, Unharmed', UNCHANGED configured,
         met => met', crossed => crossed',
         faults' \in {faults, faults + 1}, overruns' \in {overruns, overruns + 1}
  PROVE  /\ ~met /\ ~crossed /\ faults = 0 /\ overruns = 0 /\ configured /\ Ready(conn')
         /\ programme' # None /\ faults' = faults
<1>1. faults = 0 /\ overruns = 0 /\ faults' = faults
  BY DEF PubTypes, WorkOK, Holders, Unharmed
<1>2. Ready(conn')
  BY DEF Unharmed, Ready
<1>3. configured /\ ~met /\ ~crossed /\ programme' # None
  BY DEF Unharmed
<1> QED
  BY <1>1, <1>2, <1>3

LEMMA HoldersStay ==
  ASSUME Holders, overruns' \in {overruns, overruns + 1},
         \A e \in Drain : row'[e] # None =>
           /\ row'[e] = row[e] /\ outbox'[row[e]].holder = outbox[row[e]].holder
           /\ outbox'[row[e]].live = outbox[row[e]].live /\ outbox'[row[e]].done = outbox[row[e]].done
  PROVE  Holders'
BY DEF Holders

\* What stays so while the service, the programme and the site do
LEMMA AsBefore ==
  ASSUME UNCHANGED <<programme, ident, remote, unsure>>, Alike, conn # None
  PROVE  /\ \A i \in Session : AsPublished(i) => AsPublished(i)'
         /\ \A e \in Drain : Current(e) /\ Still(e) /\ (row'[e] \in Projects => row'[e] \in Projects')
              => Current(e)'
<1>1. ASSUME NEW i \in Session, AsPublished(i) PROVE AsPublished(i)'
  BY <1>1 DEF AsPublished, Gone, Shown, Good, Excused, Lent, Alike
<1>2. ASSUME NEW e \in Drain, Current(e), Still(e), row'[e] \in Projects => row'[e] \in Projects'
      PROVE  Current(e)'
  <2>1. /\ Past(e)' /\ pc'[e] \in ProjectWork \union {"retire"} /\ site'[e] # None
        /\ site'[e].generation = conn'.generation /\ (pc'[e] = "retire" => left'[e] = {})
        /\ pc'[e] # "load" => \A i \in Session : snap'[e][i] = programme'.snapshot[i]
    BY <1>2 DEF Current, Past, Still, Alike
  <2>2. ASSUME NEW i \in Session
        PROVE  /\ ToDo(e, i) => ToDo(e, i)'
               /\ Copied(e, i) => Copied(e, i)'
               /\ Hidden(e, i) => Hidden(e, i)'
    BY <1>2 DEF ToDo, Copied, Shown, Good, Excused, Lent, Hidden, Gone, Still
  <2>3. snap'[e] = snap[e] /\ pc'[e] = pc[e]
    BY <1>2 DEF Still
  <2>4. pc'[e] \in AtItem \union {"items"} =>
          \A i \in Session : snap'[e][i] # None => ToDo(e, i)' \/ Copied(e, i)'
    BY <1>2, <2>2, <2>3 DEF Current
  <2>5. pc'[e] \in {"hide", "retire"} =>
          \A i \in Session : IF snap'[e][i] = None THEN Hidden(e, i)' ELSE Copied(e, i)'
    BY <1>2, <2>2, <2>3 DEF Current
  <2>6. Known(e)'
    BY <1>2 DEF Current, Known, Still
  <2> QED
    BY <2>1, <2>4, <2>5, <2>6 DEF Current, ProjectWork, AtItem
<1> QED
  BY <1>1, <1>2

\* A step of a projection: nobody else is at one.
LEMMA InsideRemembered ==
  ASSUME Remembering, NEW d \in Drain, Inside(d), Grown, pc[d] \in ProjectWork \ {"site"},
         Unharmed /\ faults' = faults /\ Current(d) => Current(d)'
  PROVE  Holders' /\ Remembered'
<1>1. Struct /\ PubTypes /\ Alone /\ AtWork(d) /\ Holders /\ Remembered
  BY DEF Remembering, Copying, Struct
<1>2. /\ UNCHANGED <<configured, kind, outbox, step, row, met, overruns, programme, conn, crossed>>
      /\ Only(d) /\ Projects' = Projects /\ faults' \in {faults, faults + 1}
  BY DEF Inside, Projects, RowsOf
<1>3. Holders'
  BY <1>1, <1>2, HoldersStay
<1>4. Past(d)
  BY <1>1 DEF AtWork, Past
<1>5. ASSUME Unharmed' PROVE Owed' \/ Mirrored' \/ \E e \in Drain : Current(e)'
  <2>1. Unharmed /\ faults' = faults
    <3>1. /\ ~met /\ ~crossed /\ faults = 0 /\ overruns = 0 /\ configured /\ Ready(conn')
          /\ programme' # None /\ faults' = faults
      BY <1>1, <1>2, <1>5, UnharmedBefore
    <3> QED
      BY <1>2, <3>1 DEF Unharmed
  <2>2. CASE Owed
    <3>1. PICK c \in Request : Waits(c) \/ Owes(c)
      BY <2>2 DEF Owed
    <3>2. Owes(c) => Owes(c)'
      BY <1>2 DEF Owes
    <3>3. Waits(c) => Waits(c)'
      BY <1>2 DEF Waits, Only, Still
    <3> QED
      BY <3>1, <3>2, <3>3 DEF Owed
  <2>3. ~Mirrored
    BY <1>4 DEF Mirrored
  <2>4. ASSUME NEW e \in Drain, Current(e) PROVE Current(d)'
    <3>1. e = d
      BY <1>1, <1>4, <2>1, <2>4 DEF Unharmed, Alone, Current, Past
    <3> QED
      BY <2>1, <2>4, <3>1
  <2> QED
    BY <1>1, <2>1, <2>2, <2>3, <2>4 DEF Remembered
<1> QED
  BY <1>3, <1>5 DEF Remembered

LEMMA CurrentGoesOn ==
  ASSUME NEW d \in Drain, Current(d), Inside(d), UNCHANGED <<site, snap>>, pc[d] # "load",
         pc'[d] \in Fetched \union {"retire"},
         pc'[d] \in AtItem \union {"items"} =>
           \A i \in Session : snap[d][i] # None => ToDo(d, i)' \/ Copied(d, i)',
         pc'[d] \in {"hide", "retire"} =>
           \A i \in Session : IF snap[d][i] = None THEN Hidden(d, i)' ELSE Copied(d, i)',
         pc'[d] = "retire" => left'[d] = {},
         Known(d)'
  PROVE  Current(d)'
<1>1. UNCHANGED <<row, conn, programme>> /\ Projects' = Projects
  BY DEF Inside, Projects, RowsOf
<1>2. /\ Past(d)' /\ pc'[d] \in ProjectWork \union {"retire"} /\ site'[d] # None
      /\ site'[d].generation = conn'.generation
  BY <1>1 DEF Current, Past, Fetched, ProjectWork
<1>3. \A i \in Session : snap'[d][i] = programme'.snapshot[i]
  BY <1>1 DEF Current
<1>4. pc'[d] \in AtItem \union {"items"} =>
        \A i \in Session : snap'[d][i] # None => ToDo(d, i)' \/ Copied(d, i)'
  OBVIOUS
<1>5. pc'[d] \in {"hide", "retire"} =>
        \A i \in Session : IF snap'[d][i] = None THEN Hidden(d, i)' ELSE Copied(d, i)'
  OBVIOUS
<1> QED
  BY <1>2, <1>3, <1>4, <1>5 DEF Current, ProjectWork, AtItem

\* An identity once known is kept, and so is what is known of its record,
\* unless it is another session's too.
LEMMA CopiedStays ==
  ASSUME NEW d \in Drain, NEW i \in Session, Copied(d, i), UNCHANGED <<site, snap>>,
         NEW g, g = site[d].generation,
         \A j \in Session : ident[<<g, j>>] # None => ident'[<<g, j>>] = ident[<<g, j>>],
         i \in unsure => i \in unsure',
         ident[<<g, i>>] # None => \/ remote'[ident[<<g, i>>]] = remote[ident[<<g, i>>]]
                                   \/ Excused(g, i)
  PROVE  Copied(d, i)'
<1>1. ASSUME Excused(g, i) PROVE Excused(g, i)'
  BY <1>1 DEF Excused, Lent
<1>2. ASSUME Shown(g, i, snap[d][i], site[d].url), ~Excused(g, i)
      PROVE  Shown(g, i, snap[d][i], site[d].url)'
  BY <1>2 DEF Shown, Good
<1> QED
  BY <1>1, <1>2 DEF Copied

LEMMA IdentifyRemembered ==
  ASSUME IInv, Remembering, NEW d \in Drain, NEW i \in Item, Identify(d, i)
  PROVE  Again' /\ Holders' /\ Remembered'
<1> USE DEF ProjectWork, AtItem, Fetched
<1>1. Struct /\ PubTypes /\ Again
  BY DEF Remembering, Copying, Struct
<1>2. /\ Inside(d) /\ UNCHANGED <<site, snap, remote, ident, unsure>>
      /\ pc[d] = "items" /\ pc'[d] \in {"search", "update"}
      /\ left'[d] = left[d] \ {i} /\ item'[d] = i
      /\ pc'[d] = "update" => target'[d] = ident[<<site[d].generation, i>>]
  BY <1>1, IdentifyDoes
<1>3. Grown
  BY <1>1, <1>2, NothingGrows
<1>4. Again'
  BY <1>1, <1>2 DEF Again, Inside, Only, Still
<1>5. ASSUME Current(d) PROVE Current(d)'
  <2>1. ASSUME NEW j \in Session, snap[d][j] # None PROVE ToDo(d, j)' \/ Copied(d, j)'
    <3>1. j \in left[d] \/ Copied(d, j)
      BY <1>2, <1>5, <2>1 DEF Current, ToDo
    <3>2. Copied(d, j) => Copied(d, j)'
      BY <1>2, CopiedStays
    <3>3. j \in left[d] => ToDo(d, j)'
      BY <1>2 DEF ToDo
    <3> QED
      BY <3>1, <3>2, <3>3
  <2>2. Known(d)'
    BY <1>2 DEF Known
  <2> QED
    BY <1>2, <1>5, <2>1, <2>2, CurrentGoesOn
<1> QED
  BY <1>2, <1>3, <1>4, <1>5, InsideRemembered

LEMMA SearchRemembered ==
  ASSUME IInv, Remembering, NEW d \in Drain, Search(d) \/ SearchAgain(d)
  PROVE  Again' /\ Holders' /\ Remembered'
<1> USE DEF ProjectWork, AtItem, Fetched
<1>1. Struct /\ PubTypes /\ Again
  BY DEF Remembering, Copying, Struct
<1>2. /\ Inside(d) /\ UNCHANGED <<site, snap, left, item, ident, remote>>
      /\ pc[d] \in {"search", "again"}
      /\ pc'[d] \in {"make", "adopt", "items", "remember"}
      /\ \A j \in unsure : j # item[d] => j \in unsure'
      /\ \/ pc[d] = "search" /\ pc'[d] \in {"make", "adopt"}
         \/ pc[d] = "search" /\ pc'[d] = "items" /\ (item[d] \in unsure' \/ faults' = faults + 1)
         \/ pc[d] = "again"
  <2>1. CASE Search(d)
    BY <1>1, <2>1, SearchDoes
  <2>2. CASE SearchAgain(d)
    BY <1>1, <2>2, SearchAgainDoes
  <2> QED
    BY <2>1, <2>2
<1>3. Grown
  BY <1>2 DEF Grown
<1>4. Again'
  BY <1>1, <1>2 DEF Again, Inside, Only, Still
<1>5. ASSUME faults' = faults, Current(d) PROVE Current(d)'
  <2>1. ASSUME NEW j \in Session, snap[d][j] # None PROVE ToDo(d, j)' \/ Copied(d, j)'
    <3>1. ToDo(d, j) \/ Copied(d, j)
      BY <1>2, <1>5, <2>1 DEF Current
    <3>2. ASSUME j # item[d] PROVE ToDo(d, j)' \/ Copied(d, j)'
      <4>1. Copied(d, j) => Copied(d, j)'
        BY <1>2, <3>2, CopiedStays
      <4>2. ToDo(d, j) => ToDo(d, j)'
        BY <1>2, <3>2 DEF ToDo
      <4> QED
        BY <3>1, <4>1, <4>2
    <3>3. ASSUME j = item[d] PROVE ToDo(d, j)' \/ Copied(d, j)'
      <4>1. CASE pc'[d] \in {"make", "adopt"}
        BY <1>2, <3>3, <4>1 DEF ToDo
      <4>2. CASE item[d] \in unsure'
        BY <1>2, <3>3, <4>2 DEF Copied, Excused
      <4>3. pc[d] # "again"
        BY <1>1, <3>3, ItemAssumption DEF Again
      <4>4. ~(faults' = faults + 1)
        BY <1>1, <1>5 DEF PubTypes, WorkOK
      <4> QED
        BY <1>2, <4>1, <4>2, <4>3, <4>4
    <3> QED
      BY <3>2, <3>3
  <2>2. Known(d)'
    BY <1>2 DEF Known
  <2> QED
    BY <1>2, <1>5, <2>1, <2>2, CurrentGoesOn
<1> QED
  BY <1>2, <1>3, <1>4, <1>5, InsideRemembered

\* Nothing was known of the item whose identity is stored.
LEMMA RememberRemembered ==
  ASSUME IInv, Remembering, NEW d \in Drain, Remember(d)
  PROVE  Again' /\ Holders' /\ Remembered'
<1> USE DEF ProjectWork, AtItem, Fetched
<1> DEFINE g == site[d].generation
           h == <<g, item[d]>>
<1>1. Struct /\ PubTypes /\ Again /\ Holds(d) /\ AtWork(d) /\ Tidy
  BY DEF Remembering, Copying, Struct
<1>2. /\ Inside(d) /\ UNCHANGED <<site, snap, left, item, remote, unsure>>
      /\ ident' = [ident EXCEPT ![h] = target[d]]
      /\ \/ pc[d] = "adopt" /\ pc'[d] = "update" /\ target'[d] = target[d]
         \/ pc[d] = "remember" /\ pc'[d] = "items"
  BY <1>1, RememberDoes DEF Here
<1>3. /\ item[d] \in Item \ left[d] /\ site[d] # None
      /\ target[d] \in DOMAIN remote /\ target[d] # None
  <2>1. item[d] \in Item \ left[d] /\ site[d] # None /\ target[d] \in DOMAIN remote
    BY <1>1, <1>2 DEF Holds, AtWork
  <2> QED
    BY <1>1, <2>1, RecordsHave, NoneAssumption
<1>4. h \in Generation \X Item
  BY <1>1, <1>3, HereIs
<1>5. \A j \in Item : <<g, j>> \in Generation \X Item /\ (<<g, j>> = h => j = item[d])
  BY <1>1, <1>3, HereIs
<1> HIDE DEF h, g
<1>6. \A x \in Generation \X Item : ident'[x] = IF x = h THEN target[d] ELSE ident[x]
  BY <1>1, <1>2 DEF PubTypes, TablesOK
<1>7. Grown
  BY <1>2 DEF Grown
<1>8. Again'
  BY <1>1, <1>2 DEF Again, Inside, Only, Still
<1>9. ASSUME Unharmed, Current(d) PROVE Current(d)'
  <2>1. ident[h] = None
    BY <1>1, <1>2, <1>9 DEF Unharmed, Tidy, Fresh, Looking, h, g
  <2>2. \A j \in Session : ident[<<g, j>>] # None => ident'[<<g, j>>] = ident[<<g, j>>]
    BY <1>5, <1>6, <2>1 DEF Item
  <2>3. ASSUME NEW j \in Session, snap[d][j] # None PROVE ToDo(d, j)' \/ Copied(d, j)'
    <3>1. ToDo(d, j) \/ Copied(d, j)
      BY <1>2, <1>9, <2>3 DEF Current
    <3>2. Copied(d, j) => Copied(d, j)'
      BY <1>2, <2>2, CopiedStays DEF g
    <3>3. j \in left[d] => ToDo(d, j)'
      BY <1>2 DEF ToDo
    <3>4. ASSUME j = item[d], pc[d] = "adopt" PROVE ToDo(d, j)'
      BY <1>2, <3>4 DEF ToDo
    <3>5. ASSUME j = item[d], pc[d] = "remember", ToDo(d, j) PROVE Copied(d, j)'
      <4>1. Good(target[d], snap[d][j], site[d].url)
        BY <1>3, <3>5 DEF ToDo
      <4>2. ident'[<<g, j>>] = target[d]
        BY <1>4, <1>6, <3>5 DEF h
      <4> QED
        BY <1>2, <1>3, <4>1, <4>2 DEF Copied, Shown, Good, g
    <3> QED
      BY <1>2, <3>1, <3>2, <3>3, <3>4, <3>5 DEF ToDo
  <2>4. Known(d)'
    <3>1. pc'[d] # "hide" /\ (pc'[d] = "update" => target'[d] = target[d])
      BY <1>2
    <3>2. ident'[<<g, item[d]>>] = target[d]
      BY <1>4, <1>6 DEF h
    <3> QED
      BY <1>2, <3>1, <3>2 DEF Known, g
  <2> QED
    BY <1>2, <1>9, <2>3, <2>4, CurrentGoesOn
<1> QED
  BY <1>2, <1>7, <1>8, <1>9, InsideRemembered

LEMMA MakeRemembered ==
  ASSUME IInv, Remembering, NEW d \in Drain, Make(d)
  PROVE  Again' /\ Holders' /\ Remembered'
<1> USE DEF ProjectWork, AtItem, Fetched
<1> DEFINE new == [item |-> item[d], face |-> snap[d][item[d]], shown |-> TRUE, url |-> site[d].url]
<1>1. Struct /\ PubTypes /\ Again /\ Holds(d) /\ AtWork(d)
  BY DEF Remembering, Copying, Struct
<1>2. item[d] \in Item /\ site[d] # None
  BY <1>1 DEF Make, Projecting, Busy, Holds, AtWork
<1>3. /\ Inside(d) /\ Grown /\ UNCHANGED <<site, snap, left, item, ident, unsure>> /\ pc[d] = "make"
      /\ \/ pc'[d] = "again" /\ item[d] \in Speaker /\ UNCHANGED remote
         \/ pc'[d] = "remember" /\ target'[d] = Len(remote) + 1 /\ Added(new)
         \/ pc'[d] = "items" /\ faults' = faults + 1
  BY <1>1, <1>2, MakeDoes
<1>4. Again'
  BY <1>1, <1>3 DEF Again, Inside, Only, Still
<1>5. ASSUME faults' = faults, Current(d) PROVE Current(d)'
  <2>1. ~(faults' = faults + 1)
    BY <1>1, <1>5 DEF PubTypes, WorkOK
  <2>2. ASSUME NEW j \in Session, snap[d][j] # None PROVE ToDo(d, j)' \/ Copied(d, j)'
    <3>1. j \in left[d] \/ j = item[d] \/ Copied(d, j)
      BY <1>3, <1>5, <2>2 DEF Current, ToDo
    <3>2. \A x \in DOMAIN remote : x \in DOMAIN remote' /\ remote'[x] = remote[x]
      BY <1>3, <2>1 DEF Added, Grown
    <3>3. Copied(d, j) => Copied(d, j)'
      <4>1. <<site[d].generation, j>> \in Generation \X Item
        BY <1>1, <1>2, HereIs DEF Item
      <4>2. ident[<<site[d].generation, j>>] # None => ident[<<site[d].generation, j>>] \in DOMAIN remote
        BY <1>1, <4>1 DEF Struct, Identified
      <4> QED
        BY <1>3, <3>2, <4>2, CopiedStays
    <3>4. j \in left[d] => ToDo(d, j)'
      BY <1>3 DEF ToDo
    <3>5. ASSUME j = item[d], pc'[d] = "again" PROVE ToDo(d, j)'
      BY <1>3, <3>5 DEF ToDo
    <3>6. ASSUME j = item[d], pc'[d] = "remember" PROVE ToDo(d, j)'
      <4>1. remote'[target'[d]] = new
        BY <1>3, <3>6 DEF Added
      <4> QED
        BY <1>3, <3>6, <4>1 DEF ToDo, Good
    <3> QED
      BY <1>3, <2>1, <3>1, <3>3, <3>4, <3>5, <3>6
  <2>3. pc'[d] \in {"again", "remember"}
    BY <1>3, <2>1
  <2>4. Known(d)'
    BY <2>3 DEF Known
  <2> QED
    BY <1>3, <1>5, <2>2, <2>3, <2>4, CurrentGoesOn
<1> QED
  BY <1>3, <1>4, <1>5, InsideRemembered

\* The record a drain writes to is of the event it projects into.
LEMMA UpdateRemembered ==
  ASSUME IInv, Remembering, NEW d \in Drain, Update(d)
  PROVE  Again' /\ Holders' /\ Remembered'
<1> USE DEF ProjectWork, AtItem, Fetched
<1> DEFINE t == target[d]
           new == [item |-> remote[t].item, face |-> snap[d][item[d]],
                   shown |-> TRUE, url |-> remote[t].url]
<1>1. Struct /\ PubTypes /\ Again /\ Holds(d) /\ AtWork(d) /\ Tidy
  BY DEF Remembering, Copying, Struct
<1>2. /\ t \in DOMAIN remote /\ item[d] \in Item /\ Kindred(remote[t].item, item[d])
      /\ pc[d] = "update" /\ site[d] # None
  BY <1>1 DEF Update, Projecting, Busy, Holds, AtWork
<1>3. /\ Inside(d) /\ Grown /\ UNCHANGED <<site, snap, left, item, ident, unsure>>
      /\ pc'[d] = "items" /\ Written(d, t, new)
  BY <1>1, <1>2, UpdateDoes
<1>4. Again'
  BY <1>1, <1>3 DEF Again, Inside, Only, Still
<1>5. ASSUME Unharmed, faults' = faults, Current(d) PROVE Current(d)'
  <2>1. remote[t].url = site[d].url
    BY <1>1, <1>2, <1>5 DEF Unharmed, Current, Tidy, Sited
  <2>2. /\ DOMAIN remote' = DOMAIN remote /\ remote'[t] = new
        /\ \A x \in DOMAIN remote \ {t} : remote'[x] = remote[x]
    BY <1>3, <1>5, <2>1 DEF Written
  <2>3. ASSUME NEW j \in Session, snap[d][j] # None PROVE ToDo(d, j)' \/ Copied(d, j)'
    <3>1. j \in left[d] \/ j = item[d] \/ Copied(d, j)
      BY <1>2, <1>5, <2>3 DEF Current, ToDo
    <3>2. j \in left[d] => ToDo(d, j)'
      BY <1>3 DEF ToDo
    <3> DEFINE x == ident[<<site[d].generation, j>>]
    <3>3. ASSUME j = item[d] PROVE Copied(d, j)'
      <4>1. x = t /\ t # None
        BY <1>1, <1>2, <1>5, <3>3, RecordsHave, NoneAssumption DEF Current, Known
      <4>2. remote'[t].face = snap[d][j] /\ remote'[t].shown = TRUE /\ remote'[t].url = site[d].url
        BY <2>1, <2>2, <3>3
      <4> HIDE DEF new, t
      <4> QED
        BY <1>3, <4>1, <4>2 DEF Copied, Shown, Good
    <3>4. ASSUME j # item[d], Copied(d, j) PROVE Copied(d, j)'
      <4>1. <<site[d].generation, j>> \in Generation \X Item /\ <<site[d].generation, j>>[2] = j
        BY <1>1, <1>2, HereIs DEF Item
      <4>2. x # None => x \in DOMAIN remote /\ Kindred(remote[x].item, j)
        BY <1>1, <4>1 DEF Struct, Identified
      <4>3. ASSUME x # None, x = t PROVE Excused(site[d].generation, j)
        <5>1. item[d] \in Session
          BY <1>2, <4>2, <4>3, ItemAssumption DEF Kindred, Item
        <5>2. ident[<<site[d].generation, item[d]>>] = t
          BY <1>2, <1>5 DEF Current, Known
        <5> QED
          BY <3>4, <4>3, <5>1, <5>2 DEF Excused, Lent
      <4>4. x # None => remote'[x] = remote[x] \/ Excused(site[d].generation, j)
        BY <2>2, <4>2, <4>3
      <4> QED
        BY <1>3, <3>4, <4>4, CopiedStays
    <3> QED
      BY <3>1, <3>2, <3>3, <3>4
  <2>4. Known(d)'
    BY <1>3 DEF Known
  <2> QED
    BY <1>2, <1>3, <1>5, <2>3, <2>4, CurrentGoesOn
<1> HIDE DEF t, new
<1> QED
  BY <1>1, <1>2, <1>3, <1>4, <1>5, InsideRemembered

LEMMA HideRemembered ==
  ASSUME IInv, Remembering, NEW d \in Drain, NEW r \in DOMAIN remote, Hide(d, r)
  PROVE  Again' /\ Holders' /\ Remembered'
<1> USE DEF ProjectWork, AtItem, Fetched
<1> DEFINE new == [item |-> remote[r].item, face |-> remote[r].face,
                   shown |-> FALSE, url |-> remote[r].url]
<1>1. Struct /\ PubTypes /\ Again /\ Holds(d) /\ AtWork(d) /\ Tidy
  BY DEF Remembering, Copying, Struct
<1>2. /\ Inside(d) /\ Grown /\ UNCHANGED <<pc, site, snap, item, ident, unsure>>
      /\ pc[d] = "hide" /\ r \in left[d] /\ left'[d] = left[d] \ {r}
      /\ Written(d, r, new)
  BY <1>1, HideDoes
<1>3. site[d] # None
  BY <1>1, <1>2 DEF AtWork
<1>4. Again'
  BY <1>1, <1>2 DEF Again
<1>5. ASSUME Unharmed, faults' = faults, Current(d) PROVE Current(d)'
  <2>1. /\ DOMAIN remote' = DOMAIN remote
        /\ \A x \in DOMAIN remote \ {r} : remote'[x] = remote[x]
        /\ remote'[r] = new \/ remote'[r] = remote[r]
    BY <1>2 DEF Written
  <2>2. ASSUME remote[r].url = site[d].url PROVE remote'[r].shown = FALSE
    BY <1>2, <1>5, <2>2 DEF Written
  <2>3. \A x \in DOMAIN remote : remote[x].shown = FALSE => remote'[x].shown = FALSE
    BY <2>1
  <2>4. ASSUME NEW j \in Session, snap[d][j] = None, Hidden(d, j) PROVE Hidden(d, j)'
    <3> DEFINE q == ident[<<site[d].generation, j>>]
    <3>1. <<site[d].generation, j>> \in Generation \X Item
      BY <1>1, <1>3, HereIs DEF Item
    <3>2. q # None => /\ q \in DOMAIN remote
                      /\ q \in left[d] \/ remote[q].shown = FALSE
      BY <1>1, <2>4, <3>1 DEF Hidden, Gone, Struct, Identified
    <3>3. q # None => remote[q].url = site[d].url
      <4>1. site[d].generation = conn.generation /\ Follows(site[d], conn) /\ Sited /\ ~crossed
        BY <1>1, <1>3, <1>5 DEF Unharmed, Current, Tidy, Sited
      <4>2. conn.url = site[d].url
        BY <1>3, <4>1 DEF Follows
      <4> QED
        BY <3>1, <4>1, <4>2 DEF Sited
    <3> HIDE DEF q
    <3>4. q # None => q \in left'[d] \/ remote'[q].shown = FALSE
      BY <1>2, <2>2, <2>3, <3>2, <3>3
    <3> QED
      BY <1>2, <3>4 DEF Hidden, Gone, q
  <2>5. ASSUME NEW j \in Session, snap[d][j] # None, Copied(d, j) PROVE Copied(d, j)'
    <3> DEFINE x == ident[<<site[d].generation, j>>]
    <3>1. <<site[d].generation, j>> \in Generation \X Item
      BY <1>1, <1>3, HereIs DEF Item
    <3>2. x # None => x \in DOMAIN remote
      BY <1>1, <3>1 DEF Struct, Identified
    <3>3. ASSUME x # None, x = r PROVE Excused(site[d].generation, j)
      <4>1. PICK k \in Session : snap[d][k] = None /\ r = ident[<<site[d].generation, k>>]
        BY <1>2, <1>5 DEF Current, Known
      <4> QED
        BY <2>5, <3>3, <4>1 DEF Excused, Lent
    <3>4. x # None => remote'[x] = remote[x] \/ Excused(site[d].generation, j)
      BY <2>1, <3>2, <3>3
    <3> QED
      BY <1>2, <2>5, <3>4, CopiedStays
  <2>6. ASSUME NEW j \in Session PROVE IF snap[d][j] = None THEN Hidden(d, j)' ELSE Copied(d, j)'
    BY <1>2, <1>5, <2>4, <2>5 DEF Current
  <2>7. Known(d)'
    BY <1>2, <1>5 DEF Current, Known
  <2> QED
    BY <1>2, <1>5, <2>6, <2>7, CurrentGoesOn
<1> HIDE DEF new
<1> QED
  BY <1>1, <1>2, <1>4, <1>5, InsideRemembered

LEMMA ListGoneRemembered ==
  ASSUME IInv, Remembering, NEW d \in Drain, ListGone(d)
  PROVE  Again' /\ Holders' /\ Remembered'
<1> USE DEF ProjectWork, AtItem, Fetched
<1>1. Struct /\ PubTypes /\ Again
  BY DEF Remembering, Copying, Struct
<1> DEFINE L == {ident[<<site[d].generation, i>>] : i \in {j \in Session : snap[d][j] = None}} \ {None}
<1>2. /\ Inside(d) /\ UNCHANGED <<site, snap, ident, remote, unsure>>
      /\ pc[d] = "items" /\ pc'[d] = "hide" /\ left[d] = {} /\ left'[d] = L
  BY <1>1, ListGoneDoes
<1>3. Grown
  BY <1>1, <1>2, NothingGrows
<1>4. Again'
  BY <1>1, <1>2 DEF Again, Inside, Only, Still
<1>5. ASSUME Current(d) PROVE Current(d)'
  <2>1. ASSUME NEW j \in Session, snap[d][j] = None PROVE Hidden(d, j)'
    <3>1. ident[<<site[d].generation, j>>] # None => ident[<<site[d].generation, j>>] \in L
      BY <2>1
    <3> HIDE DEF L
    <3> QED
      BY <1>2, <3>1 DEF Hidden, Gone
  <2>3. Known(d)'
    BY <1>2 DEF Known
  <2> HIDE DEF L
  <2>2. ASSUME NEW j \in Session, snap[d][j] # None PROVE Copied(d, j)'
    BY <1>2, <1>5, <2>2, CopiedStays DEF Current, ToDo
  <2> QED
    BY <1>2, <1>5, <2>1, <2>2, <2>3, CurrentGoesOn
<1> QED
  BY <1>1, <1>2, <1>3, <1>4, <1>5, InsideRemembered

LEMMA EndProjectRemembered ==
  ASSUME IInv, Remembering, NEW d \in Drain, EndProject(d)
  PROVE  Again' /\ Holders' /\ Remembered'
<1> USE DEF ProjectWork, AtItem, Fetched
<1>1. Struct /\ PubTypes /\ Again
  BY DEF Remembering, Copying, Struct
<1>2. /\ Inside(d) /\ UNCHANGED <<site, snap, left, item, ident, remote, unsure>>
      /\ pc[d] = "hide" /\ pc'[d] = "retire" /\ left[d] = {}
  BY <1>1, EndProjectDoes
<1>3. Grown
  BY <1>1, <1>2, NothingGrows
<1>4. Again'
  BY <1>1, <1>2 DEF Again, Inside, Only, Still
<1>5. ASSUME Current(d) PROVE Current(d)'
  <2>1. ASSUME NEW j \in Session, snap[d][j] = None PROVE Hidden(d, j)'
    BY <1>2, <1>5, <2>1 DEF Current, Hidden, Gone
  <2>2. ASSUME NEW j \in Session, snap[d][j] # None PROVE Copied(d, j)'
    BY <1>2, <1>5, <2>2, CopiedStays DEF Current
  <2>3. Known(d)'
    BY <1>2 DEF Known
  <2> QED
    BY <1>2, <1>5, <2>1, <2>2, <2>3, CurrentGoesOn
<1> QED
  BY <1>1, <1>2, <1>3, <1>4, <1>5, InsideRemembered

LEMMA LoadRemembered ==
  ASSUME IInv, Remembering, NEW d \in Drain, LoadSnapshot(d)
  PROVE  Again' /\ Holders' /\ Remembered'
<1> USE DEF ProjectWork, AtItem, Fetched
<1>1. Struct /\ PubTypes /\ Again
  BY DEF Remembering, Copying, Struct
<1>2. /\ Inside(d) /\ UNCHANGED <<site, item, ident, remote>> /\ pc[d] = "load"
      /\ \/ programme = None /\ pc'[d] = "retire"
         \/ /\ pc'[d] = "items"
            /\ \A i \in Session : snap'[d][i] = programme.snapshot[i]
            /\ left'[d] = {i \in Item : snap'[d][i] # None}
  BY <1>1, LoadSnapshotDoes, ItemAssumption DEF Item
<1>3. Grown
  BY <1>1, <1>2, NothingGrows
<1>4. Again'
  BY <1>1, <1>2 DEF Again, Inside, Only, Still
<1>5. ASSUME Unharmed, Current(d) PROVE Current(d)'
  <2>1. /\ pc'[d] = "items" /\ \A i \in Session : snap'[d][i] = programme.snapshot[i]
        /\ left'[d] = {i \in Item : snap'[d][i] # None}
    BY <1>2, <1>5 DEF Unharmed
  <2>2. \A i \in Session : snap'[d][i] # None => ToDo(d, i)'
    BY <2>1 DEF ToDo, Item
  <2>3. /\ UNCHANGED <<row, conn, programme>> /\ Projects' = Projects
    BY <1>2 DEF Inside, Projects, RowsOf
  <2>4. /\ Past(d)' /\ pc'[d] \in ProjectWork \union {"retire"} /\ site'[d] # None
        /\ site'[d].generation = conn'.generation
    BY <1>2, <1>5, <2>1, <2>3 DEF Current, Past
  <2>5. Known(d)'
    BY <2>1 DEF Known
  <2> QED
    BY <2>1, <2>2, <2>3, <2>4, <2>5 DEF Current
<1> QED
  BY <1>1, <1>2, <1>3, <1>4, <1>5, InsideRemembered

LEMMA ReadSiteRemembered ==
  ASSUME IInv, Remembering, NEW d \in Drain, ReadSite(d)
  PROVE  Again' /\ Holders' /\ Remembered'
<1> USE DEF ProjectWork, AtItem
<1>1. Struct /\ PubTypes /\ Again /\ Holders /\ AtWork(d)
  BY DEF Remembering, Copying, Struct
<1>2. /\ Inside(d) /\ UNCHANGED <<snap, target, left, item, ident, remote>>
      /\ site'[d] = conn /\ pc[d] = "site" /\ pc'[d] = IF Ready(conn) THEN "load" ELSE "retire"
  BY <1>1, ReadDoes
<1>3. /\ UNCHANGED <<outbox, row, conn, configured, met, crossed, overruns>> /\ Projects' = Projects
      /\ faults' \in {faults, faults + 1}
  BY <1>2 DEF Inside, Projects, RowsOf
<1>4. Again' /\ Holders'
  BY <1>1, <1>2, <1>3, HoldersStay DEF Again, Inside, Only, Still
<1>5. ASSUME Unharmed' PROVE Current(d)'
  <2>1. Ready(conn) /\ conn # None
    BY <1>3, <1>5 DEF Unharmed, Ready
  <2>2. /\ Past(d)' /\ pc'[d] = "load" /\ site'[d] # None
        /\ site'[d].generation = conn'.generation
    BY <1>1, <1>2, <1>3, <2>1 DEF Past, AtWork
  <2> QED
    BY <2>2 DEF Current, Known
<1> QED
  BY <1>4, <1>5 DEF Remembered

\* A drain that is not at a projection
LEMMA AsideRemembered ==
  ASSUME Remembering, NEW d \in Drain, Only(d), pc'[d] # "again",
         UNCHANGED <<configured, kind, step, outbox, row, programme, ident, remote, unsure>>,
         met => met', crossed => crossed', ~crossed' => Alike,
         faults' \in {faults, faults + 1}, overruns' \in {overruns, overruns + 1},
         row[d] \notin Projects \/ pc[d] \notin ProjectWork \union {"retire"}
  PROVE  Again' /\ Holders' /\ Remembered'
<1>1. Struct /\ PubTypes /\ Again /\ Holders /\ Remembered
  BY DEF Remembering, Copying, Struct
<1>2. Projects' = Projects /\ Grown
  BY DEF Projects, RowsOf, Grown
<1>3. Again'
  BY <1>1 DEF Again, Only, Still
<1>4. Holders'
  BY <1>1, HoldersStay
<1>5. ASSUME Unharmed' PROVE Owed' \/ Mirrored' \/ \E e \in Drain : Current(e)'
  <2>1. Unharmed /\ Alike /\ conn # None
    <3>1. /\ ~met /\ ~crossed /\ faults = 0 /\ overruns = 0 /\ configured /\ Ready(conn')
          /\ programme' # None
      BY <1>1, <1>2, <1>5, UnharmedBefore
    <3>2. Alike
      BY <1>5 DEF Unharmed
    <3> QED
      BY <3>1, <3>2 DEF Unharmed, Alike, Ready
  <2>2. /\ \A i \in Session : AsPublished(i) => AsPublished(i)'
        /\ \A e \in Drain : Current(e) /\ Still(e) /\ (row'[e] \in Projects => row'[e] \in Projects')
              => Current(e)'
    BY <2>1, AsBefore
  <2>3. CASE Owed
    <3>1. PICK c \in Request : Waits(c) \/ Owes(c)
      BY <2>3 DEF Owed
    <3>2. Owes(c) => Owes(c)'
      BY DEF Owes
    <3>3. Waits(c) => Waits(c)'
      BY <1>2 DEF Waits, Only, Still, ProjectWork
    <3> QED
      BY <3>1, <3>2, <3>3 DEF Owed
  <2>4. CASE Mirrored
    BY <1>2, <2>2, <2>4 DEF Mirrored, Past, Only, Still, ProjectWork
  <2>5. ASSUME NEW e \in Drain, Current(e) PROVE Current(e)'
    <3>1. e # d
      BY <2>5 DEF Current, Past
    <3> QED
      BY <1>2, <2>2, <2>5, <3>1 DEF Only
  <2> QED
    BY <1>1, <2>1, <2>3, <2>4, <2>5 DEF Remembered
<1> QED
  BY <1>3, <1>4, <1>5 DEF Remembered

LEMMA SameConnection ==
  ASSUME UNCHANGED conn
  PROVE  Alike
BY DEF Alike

LEMMA AwayRemembered ==
  ASSUME IInv, Remembering, NEW d \in Drain,
         \/ /\ UNCHANGED <<projectionVars, publicationVars>>
            /\ ListAnnouncements(d) \/ ListVerifies(d) \/ ListProjects(d) \/ Rest(d)
         \/ /\ UNCHANGED publicationVars
            /\ \/ FindProjection(d) \/ LookUp(d) \/ Post(d) \/ Patch(d) \/ FindLink(d) \/ WriteLink(d)
  PROVE  Again' /\ Holders' /\ Remembered'
<1>1. PubTypes /\ Types /\ None \notin Projects
  BY ProjectsAre DEF Remembering, Copying, Struct, IInv
<1>2. /\ Outside(d) /\ UNCHANGED <<outbox, row, met, overruns>> /\ row[d] \notin Projects
      /\ faults' \in {faults, faults + 1}
  <2>1. CASE UNCHANGED <<projectionVars, publicationVars>>
             /\ (ListAnnouncements(d) \/ ListVerifies(d) \/ ListProjects(d) \/ Rest(d))
    BY <1>1, <2>1, ListingDoes
  <2>2. CASE /\ UNCHANGED publicationVars
             /\ \/ FindProjection(d) \/ LookUp(d) \/ Post(d) \/ Patch(d) \/ FindLink(d) \/ WriteLink(d)
    BY <1>1, <2>2, AnnouncingDoes
  <2> QED
    BY <2>1, <2>2
<1>3. overruns' \in {overruns, overruns + 1}
  BY <1>2
<1>4. /\ Only(d) /\ UNCHANGED <<configured, kind, step, programme, conn, ident, remote, unsure, crossed>>
      /\ pc'[d] # "again"
  BY <1>2 DEF Outside, ProjectWork
<1> QED
  BY <1>2, <1>3, <1>4, SameConnection, AsideRemembered

LEMMA VerifyRemembered ==
  ASSUME IInv, Remembering, NEW d \in Drain, ReadConnection(d) \/ Report(d)
  PROVE  Again' /\ Holders' /\ Remembered'
<1> USE DEF ProjectWork
<1>1. Struct /\ PubTypes /\ AtWork(d)
  BY DEF Remembering, Copying, Struct
<1>2. CASE ReadConnection(d)
  <2>1. pc[d] = "connection"
    BY <1>2 DEF ReadConnection, Busy
  <2>2. /\ Inside(d) /\ UNCHANGED <<ident, remote, unsure, faults>> /\ pc'[d] \in {"retire", "report"}
    BY <1>1, <1>2, <2>1, ReadDoes
  <2>3. /\ Only(d) /\ UNCHANGED <<configured, kind, step, outbox, row, programme, conn, crossed, met, overruns>>
    BY <2>2 DEF Inside
  <2> QED
    BY <2>1, <2>2, <2>3, SameConnection, AsideRemembered
<1>3. CASE Report(d)
  <2>1. pc[d] = "report" /\ site[d] # None /\ site[d] \in Connection
    BY <1>1, <1>3 DEF AtWork, Report, Busy, PubTypes, LocalsOK
  <2>2. /\ Only(d)
        /\ UNCHANGED <<configured, kind, step, outbox, row, met, faults, overruns, programme, ident, remote,
                     unsure>>
        /\ conn' = [site[d] EXCEPT !.version = @ + 1] /\ crossed' = (crossed \/ conn # site[d])
        /\ pc'[d] = "retire"
    BY <1>1, <1>3, <2>1, ReportDoes
  <2>3. /\ conn' \in Connection /\ conn'.enabled = site[d].enabled
        /\ conn'.generation = site[d].generation /\ conn'.url = site[d].url
    BY <2>1, <2>2 DEF Connection
  <2>4. ~crossed' => conn = site[d]
    BY <2>2
  <2>5. ~crossed' => Alike
    BY <2>1, <2>3, <2>4, ConnectionAssumption DEF Alike
  <2>6. crossed => crossed'
    BY <2>2
  <2> QED
    BY <2>1, <2>2, <2>5, <2>6, AsideRemembered
<1> QED
  BY <1>2, <1>3

\* What a drain finds of it that takes or leaves a row
LEMMA OutsideRemembers ==
  ASSUME Remembering, NEW d \in Drain, Outside(d), met => met',
         faults' \in {faults, faults + 1}, overruns' \in {overruns, overruns + 1}, Unharmed'
  PROVE  /\ Unharmed /\ Projects' = Projects
         /\ \A c \in Request : Owes(c) => Owes(c)'
         /\ \A i \in Session : AsPublished(i) => AsPublished(i)'
         /\ \A e \in Drain \ {d} : /\ Current(e) => Current(e)'
                                   /\ ~Past(e) => ~Past(e)'
<1>1. PubTypes /\ Holders
  BY DEF Remembering, Copying, Struct
<1>2. /\ Only(d) /\ Projects' = Projects /\ Grown
      /\ UNCHANGED <<configured, kind, step, programme, conn, ident, remote, unsure, crossed>>
  BY SameSets DEF Outside, Projects, Grown
<1>3. /\ ~met /\ ~crossed /\ faults = 0 /\ overruns = 0 /\ configured /\ Ready(conn')
      /\ programme' # None
  BY <1>1, <1>2, UnharmedBefore
<1>4. Unharmed /\ conn # None
  BY <1>2, <1>3 DEF Unharmed, Ready
<1>5. /\ \A i \in Session : AsPublished(i) => AsPublished(i)'
      /\ \A e \in Drain : Current(e) /\ Still(e) /\ (row'[e] \in Projects => row'[e] \in Projects')
            => Current(e)'
  BY <1>2, <1>4, SameConnection, AsBefore
<1>6. \A e \in Drain \ {d} : ~Past(e) => ~Past(e)'
  BY <1>2 DEF Past, Only, Still
<1>7. \A c \in Request : Owes(c) => Owes(c)'
  BY <1>2 DEF Owes
<1> QED
  BY <1>2, <1>4, <1>5, <1>6, <1>7 DEF Only

LEMMA ClaimRemembered ==
  ASSUME IInv, Remembering, NEW d \in Drain, NEW c \in Request, UNCHANGED publicationVars,
         ClaimAnnouncement(d, c) \/ ClaimJob(d, c)
  PROVE  Again' /\ Holders' /\ Remembered'
<1>1. PubTypes /\ Types /\ None \notin Projects /\ Again /\ Holders /\ Remembered
  BY ProjectsAre DEF Remembering, Copying, Struct, IInv
<1>2. /\ Outside(d) /\ row[d] = None /\ outbox[c] # None /\ UNCHANGED <<faults, overruns>>
      /\ \/ UNCHANGED <<outbox, pc, row, met>>
         \/ /\ row'[d] = c /\ ~outbox[c].done /\ ~Leased(c)
            /\ outbox' = [outbox EXCEPT ![c].holder = d, ![c].live = TRUE]
            /\ met => met'
            /\ c \in Projects => pc'[d] = IF configured THEN "site" ELSE "fail"
  BY <1>1, ClaimDoes
<1>3. /\ Only(d)
      /\ UNCHANGED <<configured, kind, step, programme, conn, ident, remote, unsure, crossed>>
      /\ pc'[d] # "again"
  BY <1>2 DEF Outside, ProjectWork
<1>4. faults' \in {faults, faults + 1} /\ overruns' \in {overruns, overruns + 1}
  BY <1>2
<1>5. CASE UNCHANGED <<outbox, pc, row, met>>
  BY <1>1, <1>2, <1>3, <1>4, <1>5, SameConnection, AsideRemembered
<1>6. CASE /\ row'[d] = c /\ ~outbox[c].done /\ ~Leased(c)
           /\ outbox' = [outbox EXCEPT ![c].holder = d, ![c].live = TRUE]
           /\ met => met'
           /\ c \in Projects => pc'[d] = IF configured THEN "site" ELSE "fail"
  <2> DEFINE r == [outbox[c] EXCEPT !.holder = d, !.live = TRUE]
  <2>1. /\ outbox'[c].holder = d /\ outbox'[c].live /\ outbox'[c].done = outbox[c].done
        /\ \A b \in Request \ {c} : outbox'[b] = outbox[b]
    <3>1. outbox[c] \in OutboxRow
      BY <1>1, <1>2 DEF Types
    <3>2. r.holder = d /\ r.live = TRUE /\ r.done = outbox[c].done
      BY <3>1 DEF OutboxRow
    <3>3. outbox' = [outbox EXCEPT ![c] = r]
      BY <1>1, <1>6 DEF Types
    <3> HIDE DEF r
    <3>4. outbox'[c] = r /\ \A b \in Request \ {c} : outbox'[b] = outbox[b]
      BY <1>1, <3>3 DEF Types
    <3> QED
      BY <3>2, <3>4
  <2>2. Again'
    BY <1>1, <1>3 DEF Again, Only, Still
  <2>3. Holders'
    <3> SUFFICES ASSUME overruns = 0, NEW e \in Drain, row'[e] # None
                 PROVE  /\ outbox'[row'[e]].holder = e /\ outbox'[row'[e]].live
                        /\ ~outbox'[row'[e]].done
      BY <1>1, <1>2 DEF Holders
    <3>1. CASE e = d
      BY <1>6, <2>1, <3>1
    <3>2. CASE e # d
      <4>1. row'[e] = row[e] /\ row[e] \in Request
        BY <1>1, <1>3, <3>2 DEF Only, Still, Types
      <4>2. outbox[row[e]].holder = e /\ outbox[row[e]].live /\ ~outbox[row[e]].done
        BY <1>1, <4>1 DEF Holders
      <4>3. row[e] # c
        BY <1>6, <4>2, NoneAssumption DEF Leased
      <4> QED
        BY <2>1, <4>1, <4>2, <4>3
    <3> QED
      BY <3>1, <3>2
  <2>4. ASSUME Unharmed' PROVE Owed' \/ Mirrored' \/ \E e \in Drain : Current(e)'
    <3>1. /\ Unharmed /\ Projects' = Projects
          /\ \A b \in Request : Owes(b) => Owes(b)'
          /\ \A i \in Session : AsPublished(i) => AsPublished(i)'
          /\ \A e \in Drain \ {d} : /\ Current(e) => Current(e)'
                                    /\ ~Past(e) => ~Past(e)'
      BY <1>2, <1>4, <1>6, <2>4, OutsideRemembers
    <3>2. c \in Projects => pc'[d] = "site"
      BY <1>6, <3>1 DEF Unharmed
    <3>3. ASSUME NEW b \in Request, Waits(b) PROVE Waits(b)'
      <4>1. row'[d] = c
        BY <1>6
      <4>2. outbox'[b].done = outbox[b].done
        BY <2>1
      <4>3. \A e \in Drain : row'[e] = b => pc'[e] = "site"
        BY <1>3, <3>2, <3>3, <4>1 DEF Waits, Only, Still
      <4> QED
        BY <3>1, <3>3, <4>2, <4>3 DEF Waits
    <3>4. ~Past(d)' /\ ~Current(d)
      BY <1>1, <1>2, <1>6, <3>1, <3>2 DEF Past, Current
    <3> QED
      BY <1>1, <3>1, <3>3, <3>4 DEF Remembered, Owed, Mirrored
  <2> QED
    BY <2>2, <2>3, <2>4 DEF Remembered
<1> QED
  BY <1>2, <1>5, <1>6

\* A row is done when what it is for is there.
LEMMA LeaveRemembered ==
  ASSUME IInv, Remembering, NEW d \in Drain, Leave(d)
  PROVE  Again' /\ Holders' /\ Remembered'
<1> DEFINE r == row[d]
<1>1. /\ Struct /\ PubTypes /\ Types /\ None \notin Projects /\ Again /\ Holders /\ Remembered
      /\ Alone /\ Tidy
  BY ProjectsAre DEF Remembering, Copying, Struct, IInv
<1>2. /\ Outside(d) /\ row'[d] = None /\ r \in Request /\ outbox[r] # None
      /\ pc'[d] \in {"airtable", "accelevents"} /\ UNCHANGED <<met, faults, overruns>>
      /\ \A b \in Request \ {r} : outbox'[b] = outbox[b]
      /\ pc[d] \in {"retire", "fail"}
  BY <1>1, LeaveDoes
<1>3. /\ Only(d) /\ UNCHANGED <<configured, kind, step, programme, conn, ident, remote, crossed>>
  BY <1>2 DEF Outside
<1>4. faults' \in {faults, faults + 1} /\ overruns' \in {overruns, overruns + 1} /\ (met => met')
  BY <1>2
<1>5. Again'
  BY <1>1, <1>2, <1>3 DEF Again, Only, Still
<1>6. Holders'
  <2> SUFFICES ASSUME overruns = 0, NEW e \in Drain, row'[e] # None
               PROVE  /\ outbox'[row'[e]].holder = e /\ outbox'[row'[e]].live
                      /\ ~outbox'[row'[e]].done
    BY <1>1, <1>2 DEF Holders
  <2>1. e # d /\ row'[e] = row[e] /\ row[e] \in Request
    BY <1>1, <1>2, <1>3 DEF Only, Still, Types
  <2>2. outbox[row[e]].holder = e /\ outbox[row[e]].live /\ ~outbox[row[e]].done
    BY <1>1, <2>1 DEF Holders
  <2>3. r # None
    BY <1>2, NoneAssumption
  <2>4. outbox[r].holder = d
    BY <1>1, <2>3 DEF Holders
  <2>5. row[e] # r
    BY <2>1, <2>2, <2>4
  <2> QED
    BY <1>2, <2>1, <2>2, <2>5
<1>7. ASSUME Unharmed' PROVE Owed' \/ Mirrored' \/ \E e \in Drain : Current(e)'
  <2>1. /\ Unharmed /\ Projects' = Projects
        /\ \A b \in Request : Owes(b) => Owes(b)'
        /\ \A i \in Session : AsPublished(i) => AsPublished(i)'
        /\ \A e \in Drain \ {d} : /\ Current(e) => Current(e)'
                                  /\ ~Past(e) => ~Past(e)'
    BY <1>2, <1>4, <1>7, OutsideRemembers
  <2>2. ASSUME NEW b \in Request, Waits(b) PROVE Waits(b)'
    <3>1. b # r
      BY <1>2, <2>2 DEF Waits
    <3>2. outbox'[b] = outbox[b] /\ b # None
      BY <1>2, <3>1, NoneAssumption
    <3> QED
      BY <1>2, <1>3, <2>1, <2>2, <3>2 DEF Waits, Only, Still
  <2>3. ~Past(d)'
    BY <1>1, <1>2, <2>1 DEF Past
  <2>4. ASSUME Current(d) PROVE Mirrored'
    <3>1. /\ pc[d] = "retire" /\ row[d] \in Projects /\ site[d] # None /\ left[d] = {}
          /\ site[d].generation = conn.generation
      BY <1>2, <2>4 DEF Current, Past, ProjectWork
    <3>2. site[d].url = conn.url
      BY <1>1, <2>1, <3>1 DEF Unharmed, Tidy, Sited, Follows
    <3>3. ASSUME NEW i \in Session PROVE AsPublished(i)
      <4>1. /\ snap[d][i] = programme.snapshot[i]
            /\ IF snap[d][i] = None THEN Hidden(d, i) ELSE Copied(d, i)
        BY <2>4, <3>1 DEF Current
      <4> QED
        BY <3>1, <3>2, <4>1 DEF AsPublished, Hidden, Copied
    <3>4. \A e \in Drain \ {d} : ~Past(e)
      BY <1>1, <2>1, <3>1 DEF Unharmed, Alone, Past
    <3> QED
      BY <2>1, <2>3, <3>3, <3>4 DEF Mirrored
  <2> QED
    BY <1>1, <2>1, <2>2, <2>3, <2>4 DEF Remembered, Owed, Mirrored
<1> QED
  BY <1>5, <1>6, <1>7 DEF Remembered

\* One that dies leaves its row to another.
LEMMA DieRemembered ==
  ASSUME IInv, Remembering, NEW d \in Drain, Die(d), Forget(d)
  PROVE  Again' /\ Holders' /\ Remembered'
<1>1. /\ Struct /\ PubTypes /\ Types /\ Again /\ Holders /\ Remembered /\ Alone
      /\ None \notin Projects /\ Projects \subseteq Request
  BY ProjectsAre DEF Remembering, Copying, Struct, IInv
<1>2. /\ Outside(d) /\ row'[d] = None /\ pc'[d] = "idle" /\ UNCHANGED <<outbox, met, faults, overruns>>
  BY <1>1, DieDoes
<1>3. /\ Only(d) /\ UNCHANGED <<configured, kind, step, programme, conn, ident, remote, crossed>>
  BY <1>2 DEF Outside
<1>4. faults' \in {faults, faults + 1} /\ overruns' \in {overruns, overruns + 1} /\ (met => met')
  BY <1>2
<1>5. Again' /\ Holders'
  <2>1. \A e \in Drain : row'[e] # None => row'[e] = row[e]
    BY <1>2, <1>3 DEF Only, Still
  <2> QED
    BY <1>1, <1>2, <1>3, <1>4, <2>1, HoldersStay DEF Again, Only, Still
<1>6. ASSUME Unharmed' PROVE Owed' \/ Mirrored' \/ \E e \in Drain : Current(e)'
  <2>1. /\ Unharmed /\ Projects' = Projects
        /\ \A b \in Request : Owes(b) => Owes(b)'
        /\ \A i \in Session : AsPublished(i) => AsPublished(i)'
        /\ \A e \in Drain \ {d} : /\ Current(e) => Current(e)'
                                  /\ ~Past(e) => ~Past(e)'
    BY <1>2, <1>4, <1>6, OutsideRemembers
  <2>2. ASSUME NEW b \in Request, Waits(b) PROVE Waits(b)'
    <3>1. b # None
      BY NoneAssumption
    <3> QED
      BY <1>2, <1>3, <2>1, <2>2, <3>1 DEF Waits, Only, Still
  <2>3. ~Past(d)'
    BY <1>1, <1>2, <2>1 DEF Past
  <2>4. ASSUME Current(d) PROVE \E r \in Request : Waits(r)'
    <3>1. row[d] \in Projects /\ row[d] \in Request /\ row[d] # None
      BY <1>1, <2>4 DEF Current, Past
    <3>2. PICK r \in Request : r = row[d]
      BY <3>1
    <3>3. ~outbox[r].done
      BY <1>1, <2>1, <3>1, <3>2 DEF Holders, Unharmed
    <3>4. \A e \in Drain \ {d} : row'[e] # r
      BY <1>1, <1>3, <2>1, <3>1, <3>2 DEF Alone, Unharmed, Only, Still
    <3>5. r \in Projects' /\ ~outbox'[r].done /\ \A e \in Drain : row'[e] # r
      BY <1>2, <2>1, <3>1, <3>2, <3>3, <3>4
    <3> QED
      BY <3>5 DEF Waits
  <2> QED
    BY <1>1, <2>1, <2>2, <2>3, <2>4 DEF Remembered, Owed, Mirrored
<1> QED
  BY <1>5, <1>6 DEF Remembered

\* A request that is not done has no row, so no drain is at it.
LEMMA NoDrainAt ==
  ASSUME IInv, NEW c \in Request, step[c] # "done"
  PROVE  outbox[c] = None /\ c \notin Projects /\ \A e \in Drain : row[e] # c
<1>1. c \notin Announcements \union Jobs /\ Types /\ outbox[c] = None
  BY NoRowYet DEF IInv, Finished
<1>2. ASSUME NEW e \in Drain PROVE row[e] # c
  <2>1. row[e] # c \/ c = None
    BY <1>1, RowsExist, NoneAssumption DEF IInv, Places, Place, At, Types
  <2> QED
    BY <2>1, NoneAssumption
<1> QED
  BY <1>1, <1>2 DEF Projects, RowsOf

LEMMA RequestRemembers ==
  ASSUME IInv, Remembering, NEW c \in Request, Served(c),
         UNCHANGED outbox \/ \E r : outbox' = [outbox EXCEPT ![c] = r]
  PROVE  /\ Again' /\ Holders'
         /\ \A b \in Request : Waits(b) => Waits(b)'
         /\ \A b \in Request \ {c} : Owes(b) => Owes(b)'
         /\ \A e \in Drain : row[e] \in Projects <=> row[e] \in Projects'
<1>1. PubTypes /\ Types /\ Again /\ Holders /\ Remembered
  BY DEF Remembering, Copying, Struct, IInv
<1>2. step[c] # "done" /\ UNCHANGED <<kind, pc, row, item, overruns>>
      /\ \A b \in Request \ {c} : step'[b] = step[b]
  BY DEF Served
<1>3. c \notin Projects /\ \A e \in Drain : row[e] # c
  BY <1>2, NoDrainAt
<1>4. \A b \in Request \ {c} : outbox'[b] = outbox[b]
  BY <1>1 DEF Types
<1>5. Again'
  BY <1>1, <1>2 DEF Again
<1>6. Holders'
  <2>1. \A e \in Drain : row'[e] # None => row'[e] = row[e] /\ outbox'[row[e]] = outbox[row[e]]
    BY <1>1, <1>2, <1>3, <1>4 DEF Types
  <2>2. overruns' \in {overruns, overruns + 1}
    BY <1>2
  <2> QED
    BY <1>1, <2>1, <2>2, HoldersStay
<1>7. \A b \in Request : Waits(b) => Waits(b)'
  BY <1>2, <1>3, <1>4 DEF Waits, Projects, RowsOf
<1>8. \A b \in Request \ {c} : Owes(b) => Owes(b)'
  BY <1>2 DEF Owes
<1>9. \A e \in Drain : row[e] \in Projects <=> row[e] \in Projects'
  BY <1>2, NewProjects
<1> QED
  BY <1>5, <1>6, <1>7, <1>8, <1>9

LEMMA QuietRemembered ==
  ASSUME IInv, Remembering, NEW c \in Request, Served(c),
         UNCHANGED outbox \/ \E r : outbox' = [outbox EXCEPT ![c] = r],
         UNCHANGED programme, crossed => crossed', ~crossed' => Alike,
         Unharmed /\ Owes(c) => \E b \in Request : Waits(b)' \/ Owes(b)'
  PROVE  Again' /\ Holders' /\ Remembered'
<1>1. PubTypes /\ Holders /\ Remembered
  BY DEF Remembering, Copying, Struct
<1>2. /\ Again' /\ Holders'
      /\ \A b \in Request : Waits(b) => Waits(b)'
      /\ \A b \in Request \ {c} : Owes(b) => Owes(b)'
      /\ \A e \in Drain : row[e] \in Projects <=> row[e] \in Projects'
  BY RequestRemembers
<1>3. /\ UNCHANGED <<configured, kind, pc, row, target, site, snap, left, item, ident, remote,
                     unsure, met, faults, overruns>>
      /\ Grown
  BY DEF Served, Grown
<1>4. faults' \in {faults, faults + 1} /\ overruns' \in {overruns, overruns + 1} /\ (met => met')
  BY <1>3
<1>5. ASSUME Unharmed' PROVE Owed' \/ Mirrored' \/ \E e \in Drain : Current(e)'
  <2>1. /\ ~met /\ ~crossed /\ faults = 0 /\ overruns = 0 /\ configured /\ Ready(conn')
        /\ programme' # None
    BY <1>1, <1>3, <1>4, <1>5, UnharmedBefore
  <2>2. Alike
    BY <1>5 DEF Unharmed
  <2>3. Unharmed /\ conn # None
    BY <2>1, <2>2 DEF Unharmed, Alike, Ready
  <2>4. /\ \A i \in Session : AsPublished(i) => AsPublished(i)'
        /\ \A e \in Drain : Current(e) /\ Still(e) /\ (row'[e] \in Projects => row'[e] \in Projects')
              => Current(e)'
    BY <1>3, <2>2, <2>3, AsBefore
  <2>5. \A e \in Drain : Current(e) => Current(e)'
    BY <1>2, <1>3, <2>4 DEF Still
  <2>6. Mirrored => Mirrored'
    BY <1>2, <1>3, <2>4 DEF Mirrored, Past
  <2>7. Owed => Owed'
    BY <1>2, <2>3 DEF Owed
  <2> QED
    BY <1>1, <2>3, <2>5, <2>6, <2>7 DEF Remembered
<1> QED
  BY <1>2, <1>5 DEF Remembered

LEMMA OwingRemembered ==
  ASSUME IInv, Remembering, NEW c \in Request, Served(c),
         UNCHANGED outbox \/ \E r : outbox' = [outbox EXCEPT ![c] = r],
         Unharmed' => Owes(c)'
  PROVE  Again' /\ Holders' /\ Remembered'
BY RequestRemembers DEF Remembered, Owed

\* A request that finds a row waiting makes none: a drain will take it up.
LEMMA EnlistRemembered ==
  ASSUME IInv, Remembering, NEW c \in Request, Enlist(c)
  PROVE  Again' /\ Holders' /\ Remembered'
<1>1. PubTypes /\ Types /\ Holders /\ Asks(c)
  BY DEF Remembering, Copying, Struct, IInv
<1>2. step[c] = "enlist"
  BY DEF Enlist, Serving
<1>3. kind[c] \in {"publish", "save", "verify"}
  BY <1>1, <1>2 DEF Asks
<1>4. kind[c] # "edit"
  BY <1>3
<1>5. /\ Served(c) /\ Tables(c) /\ UNCHANGED outbox
      /\ step'[c] = IF Waiting(TopicOf(c)) = {} THEN "add" ELSE "done"
  BY <1>1, <1>4, EnlistDoes
<1>6. UNCHANGED <<kind, row, pc>>
  BY <1>5 DEF Served
<1>7. ASSUME Unharmed, Owes(c) PROVE \E b \in Request : Waits(b)' \/ Owes(b)'
  <2>1. kind[c] \in {"publish", "save"} /\ TopicOf(c) = "project"
    BY <1>2, <1>7 DEF Owes, TopicOf
  <2>2. CASE Waiting("project") = {}
    BY <1>5, <1>6, <2>1, <2>2 DEF Owes
  <2>3. CASE Waiting("project") # {}
    <3>1. PICK w \in Waiting("project") : TRUE
      BY <2>3
    <3>2. w \in Projects /\ ~outbox[w].done /\ ~Leased(w) /\ w \in Request
      BY <3>1 DEF Waiting, Listed, Projects, RowsOf
    <3>3. ASSUME NEW e \in Drain PROVE row[e] # w
      BY <1>1, <1>7, <3>2, NoneAssumption DEF Holders, Unharmed, Leased
    <3>4. Waits(w)'
      BY <1>5, <1>6, <3>2, <3>3 DEF Waits, Projects, RowsOf
    <3> QED
      BY <3>2, <3>4
  <2> QED
    BY <2>2, <2>3
<1> QED
  BY <1>5, <1>7, SameConnection, QuietRemembered DEF Tables

LEMMA AddRowRemembered ==
  ASSUME IInv, Remembering, NEW c \in Request, AddRow(c)
  PROVE  Again' /\ Holders' /\ Remembered'
<1>1. PubTypes /\ Types /\ Asks(c)
  BY DEF Remembering, Copying, Struct, IInv
<1>2. step[c] = "add"
  BY DEF AddRow, Serving
<1>3. kind[c] \in {"publish", "save", "verify"}
  BY <1>1, <1>2 DEF Asks
<1>4. kind[c] # "edit"
  BY <1>3
<1>5. Served(c) /\ Tables(c) /\ outbox' = [outbox EXCEPT ![c] = NewRow(TopicOf(c), 0)]
  BY <1>1, <1>4, AddRowDoes
<1>6. \A e \in Drain : row'[e] # c
  BY <1>2, <1>5, NoDrainAt DEF Served
<1>7. ASSUME Owes(c) PROVE Waits(c)'
  <2>1. outbox'[c] = NewRow("project", 0)
    BY <1>1, <1>2, <1>5, <1>7 DEF Types, Owes, TopicOf
  <2>2. NewRow("project", 0) # None /\ NewRow("project", 0).topic = "project"
    BY NewRows DEF Topic
  <2>3. ~NewRow("project", 0).done
    BY DEF NewRow
  <2> QED
    BY <1>6, <2>1, <2>2, <2>3 DEF Waits, Projects, RowsOf
<1> QED
  BY <1>5, <1>7, SameConnection, QuietRemembered DEF Tables

LEMMA PutRemembered ==
  ASSUME IInv, Remembering, NEW c \in Request, PutConnection(c)
  PROVE  Again' /\ Holders' /\ Remembered'
<1>1. PubTypes /\ Asks(c)
  BY DEF Remembering, Copying, Struct
<1>2. step[c] = "put"
  BY DEF PutConnection, Serving
<1>3. /\ kind[c] \in {"save", "verify"} /\ prior[c].next \in Connection
      /\ Follows(prior[c].seen, prior[c].next)
      /\ kind[c] = "verify" => /\ prior[c].seen # None
                               /\ prior[c].next.enabled = prior[c].seen.enabled
                               /\ prior[c].next.generation = prior[c].seen.generation
  BY <1>1, <1>2 DEF Asks
<1>4. kind[c] # "edit"
  BY <1>3
<1>5. /\ Served(c) /\ UNCHANGED <<outbox, programme>>
      /\ step'[c] = IF kind[c] = "verify" \/ (conn'.enabled /\ configured) THEN "enlist" ELSE "done"
      /\ conn' = prior[c].next /\ crossed' = (crossed \/ conn # prior[c].seen)
  BY <1>1, <1>3, <1>4, PutConnectionDoes
<1>6. UNCHANGED <<configured, kind>>
  BY <1>5 DEF Served
<1>7. CASE kind[c] = "save"
  <2>1. Unharmed' => Owes(c)'
    BY <1>5, <1>6, <1>7 DEF Unharmed, Ready, Owes
  <2> QED
    BY <1>5, <2>1, OwingRemembered
<1>8. CASE kind[c] = "verify"
  <2>1. ~crossed' => conn = prior[c].seen
    BY <1>5
  <2>2. prior[c].next # None
    BY <1>3, ConnectionAssumption
  <2>3. ~crossed' => Alike
    BY <1>3, <1>5, <1>8, <2>1, <2>2 DEF Alike, Follows
  <2>4. crossed => crossed'
    BY <1>5
  <2>5. ~Owes(c)
    BY <1>2, <1>8 DEF Owes
  <2> QED
    BY <1>5, <2>3, <2>4, <2>5, QuietRemembered
<1> QED
  BY <1>3, <1>7, <1>8

LEMMA CommandRemembered ==
  ASSUME IInv, Remembering, NEW c \in Request, PublicationCommand(c)
  PROVE  Again' /\ Holders' /\ Remembered'
<1>1. PubTypes
  BY DEF Remembering, Copying, Struct
<1>2. ASSUME Served(c), Tables(c), UNCHANGED outbox, ~Owes(c) PROVE Again' /\ Holders' /\ Remembered'
  BY <1>2, SameConnection, QuietRemembered DEF Tables
<1>3. CASE Compose(c) \/ ReadPrevious(c) \/ ComparePrevious(c)
  <2>1. /\ Served(c) /\ Tables(c) /\ UNCHANGED outbox
        /\ step[c] \in {"begin", "previous", "compare"}
    BY <1>1, <1>3, ComposeDoes, ReadPreviousDoes, ComparePreviousDoes
  <2>2. ~Owes(c)
    BY <2>1 DEF Owes
  <2> QED
    BY <1>2, <2>1, <2>2
<1>4. CASE StoreProgramme(c)
  <2>1. /\ Served(c) /\ UNCHANGED <<outbox, conn, crossed>>
        /\ kind[c] = "publish" /\ step[c] \in {"insert", "replace"}
        /\ UNCHANGED programme \/ step'[c] = "ready"
    BY <1>1, <1>4, StoreProgrammeDoes
  <2>2. ~Owes(c)
    BY <2>1 DEF Owes
  <2>3. CASE UNCHANGED programme
    BY <2>1, <2>2, <2>3, SameConnection, QuietRemembered
  <2>4. CASE step'[c] = "ready"
    <3>1. Owes(c)'
      BY <2>1, <2>4 DEF Owes, Served
    <3> QED
      BY <2>1, <3>1, OwingRemembered
  <2> QED
    BY <2>1, <2>3, <2>4
<1>5. CASE CheckReady(c)
  <2>1. /\ Served(c) /\ Tables(c) /\ UNCHANGED outbox /\ kind[c] = "publish"
        /\ step'[c] = IF Ready(conn) /\ configured THEN "enlist" ELSE "done"
    BY <1>1, <1>5, CheckReadyDoes
  <2>2. Unharmed => Owes(c)'
    BY <2>1 DEF Unharmed, Owes, Served
  <2> QED
    BY <2>1, <2>2, SameConnection, QuietRemembered DEF Tables
<1>6. ASSUME NEW i \in Item, NEW f \in FaceOf[i] \union {None}, Edit(c, i, f)
      PROVE  Again' /\ Holders' /\ Remembered'
  <2>1. Served(c) /\ UNCHANGED <<outbox, programme, conn, crossed>> /\ step[c] = "begin"
    BY <1>1, <1>6, EditDoes
  <2>2. ~Owes(c)
    BY <2>1 DEF Owes
  <2> QED
    BY <2>1, <2>2, SameConnection, QuietRemembered
<1>7. ASSUME NEW o \in BOOLEAN, QueueVerify(c, o) PROVE Again' /\ Holders' /\ Remembered'
  <2>1. Served(c) /\ Tables(c) /\ UNCHANGED outbox /\ step[c] = "begin"
    BY <1>1, <1>7, QueueVerifyDoes
  <2>2. ~Owes(c)
    BY <2>1 DEF Owes
  <2> QED
    BY <1>2, <2>1, <2>2
<1>8. ASSUME NEW o \in BOOLEAN, NEW b \in [enabled : BOOLEAN, url : Url], Save(c, b, o)
      PROVE  Again' /\ Holders' /\ Remembered'
  <2>1. Served(c) /\ Tables(c) /\ UNCHANGED outbox /\ step[c] = "begin"
    BY <1>1, <1>8, SaveDoes
  <2>2. ~Owes(c)
    BY <2>1 DEF Owes
  <2> QED
    BY <1>2, <2>1, <2>2
<1> QED
  BY <1>3, <1>4, <1>5, <1>6, <1>7, <1>8, EnlistRemembered, AddRowRemembered, PutRemembered
     DEF PublicationCommand

LEMMA OtherRemembered ==
  ASSUME IInv, Remembering, NEW c \in Request, UNCHANGED publicationVars,
         EventCommand(c) \/ Abandon(c)
  PROVE  Again' /\ Holders' /\ Remembered'
<1>1. PubTypes
  BY DEF Remembering, Copying, Struct
<1>2. CASE EventCommand(c)
  <2>1. Served(c) /\ Tables(c) /\ kind[c] \in {"create", "update"}
    BY <1>1, <1>2, EventCommandDoes
  <2>2. UNCHANGED outbox \/ \E r : outbox' = [outbox EXCEPT ![c] = r]
    BY <1>2 DEF EventCommand, Create, CommitUpdate, ReadEvent
  <2>3. step[c] # "gone"
    BY <1>2 DEF EventCommand, Create, CommitUpdate, ReadEvent
  <2>4. ~Owes(c)
    BY <2>1, <2>3 DEF Owes
  <2> QED
    BY <2>1, <2>2, <2>4, SameConnection, QuietRemembered DEF Tables
<1>3. CASE Abandon(c)
  <2>1. Served(c) /\ UNCHANGED outbox /\ step'[c] = "gone"
    BY <1>1, <1>3, AbandonDoes
  <2>2. Owes(c)'
    BY <2>1 DEF Owes
  <2> QED
    BY <2>1, <2>2, OwingRemembered
<1> QED
  BY <1>2, <1>3

\* A lease that runs out is an overrun, or that of a drain that has died.
LEMMA ExpiryRemembered ==
  ASSUME IInv, Remembering, NEW c \in Request, Expires(c)
  PROVE  Again' /\ Holders' /\ Remembered'
<1>1. PubTypes /\ Types /\ Again /\ Holders /\ Remembered
  BY DEF Remembering, Copying, Struct, IInv
<1>2. /\ SameRows
      /\ UNCHANGED <<configured, kind, step, pc, row, target, met, faults, publicationVars>>
      /\ \A b \in Request \ {c} : outbox'[b] = outbox[b]
      /\ outbox'[c].done = outbox[c].done
      /\ IF row[outbox[c].holder] = c THEN overruns' = overruns + 1 ELSE overruns' = overruns
  BY <1>1, ExpiresDoes
<1>3. Again'
  BY <1>1, <1>2 DEF Again, publicationVars, locals
<1>4. CASE overruns' = overruns + 1
  <2>1. overruns' \in Nat /\ overruns' # 0
    BY <1>1, <1>4 DEF Holders
  <2> QED
    BY <1>3, <2>1 DEF Holders, Remembered, Unharmed
<1>5. CASE overruns' = overruns /\ row[outbox[c].holder] # c
  <2>1. ASSUME overruns = 0, NEW e \in Drain, row[e] # None
        PROVE  row[e] # c /\ outbox'[row[e]] = outbox[row[e]]
    <3>1. outbox[row[e]].holder = e /\ row[e] \in Request
      BY <1>1, <2>1 DEF Holders, Types
    <3>2. row[e] # c
      BY <1>5, <3>1
    <3> QED
      BY <1>2, <3>1, <3>2
  <2>2. Holders'
    BY <1>1, <1>2, <1>5, <2>1 DEF Holders
  <2>3. /\ UNCHANGED <<programme, conn, ident, remote, unsure, site, snap, left, item, crossed>>
        /\ Projects' = Projects
    BY <1>2, SameSets DEF publicationVars, tables, locals, marks, Projects
  <2>4. Unharmed' => Unharmed
    BY <1>2, <1>5, <2>3 DEF Unharmed, Ready
  <2>5. Owed => Owed'
    <3>1. \A b \in Request : outbox'[b].done = outbox[b].done
      BY <1>2
    <3> QED
      BY <1>2, <2>3, <3>1 DEF Owed, Waits, Owes
  <2>6. conn # None =>
          /\ \A i \in Session : AsPublished(i) => AsPublished(i)'
          /\ \A e \in Drain : Current(e) => Current(e)'
    <3>1. \A e \in Drain : Still(e)
      BY <1>2, <2>3 DEF Still
    <3> QED
      BY <1>2, <2>3, <3>1, SameConnection, AsBefore
  <2>7. conn # None /\ Mirrored => Mirrored'
    BY <1>2, <2>3, <2>6 DEF Mirrored, Past
  <2>8. Unharmed => conn # None
    BY DEF Unharmed, Ready
  <2> QED
    BY <1>1, <1>3, <2>2, <2>4, <2>5, <2>6, <2>7, <2>8 DEF Remembered
<1> QED
  BY <1>2, <1>4, <1>5

LEMMA StillRemembered ==
  ASSUME Remembering, UNCHANGED vars
  PROVE  Again' /\ Holders' /\ Remembered'
<1>1. /\ UNCHANGED <<configured, kind, outbox, step, pc, row, target, met, faults, overruns,
                     programme, conn, ident, remote, unsure, site, snap, left, item, crossed>>
      /\ Projects' = Projects
  BY DEF vars, given, work, past, publicationVars, tables, locals, marks, Projects, RowsOf
<1>2. Again /\ Holders /\ Remembered
  BY DEF Remembering
<1>3. Again' /\ Holders'
  BY <1>1, <1>2 DEF Again, Holders
<1>4. (Unharmed' => Unharmed) /\ (Owed => Owed')
  BY <1>1 DEF Unharmed, Ready, Owed, Waits, Owes
<1>5. conn # None =>
        /\ \A i \in Session : AsPublished(i) => AsPublished(i)'
        /\ \A e \in Drain : Current(e) => Current(e)'
  <2>1. \A e \in Drain : Still(e)
    BY <1>1 DEF Still
  <2> QED
    BY <1>1, <2>1, SameConnection, AsBefore
<1>6. conn # None /\ Mirrored => Mirrored'
  BY <1>1, <1>5 DEF Mirrored, Past
<1>7. Unharmed => conn # None
  BY DEF Unharmed, Ready
<1> QED
  BY <1>2, <1>3, <1>4, <1>5, <1>6, <1>7 DEF Remembered

LEMMA RememberingInductive ==
  ASSUME IInv, Remembering, [Next]_vars
  PROVE  Remembering'
<1>1. ASSUME NEW d \in Drain, Drained(d) PROVE Again' /\ Holders' /\ Remembered'
  <2>1. CASE AirtableStep(d) /\ UNCHANGED publicationVars
    <3>1. CASE ListAnnouncements(d)
      <4>1. UNCHANGED <<projectionVars, publicationVars>>
        BY <2>1, <3>1 DEF ListAnnouncements
      <4> QED
        BY <3>1, <4>1, AwayRemembered
    <3> QED
      BY <2>1, <3>1, AwayRemembered, ClaimRemembered DEF AirtableStep
  <2>2. CASE AcceleventsStep(d) /\ UNCHANGED projectionVars
    <3>1. CASE ListVerifies(d) \/ ListProjects(d) \/ Rest(d)
      <4>1. UNCHANGED <<projectionVars, publicationVars>>
        BY <2>2, <3>1 DEF ListVerifies, ListProjects, Rest, Idle
      <4> QED
        BY <3>1, <4>1, AwayRemembered
    <3>2. ASSUME NEW c \in Request, ClaimJob(d, c) PROVE Again' /\ Holders' /\ Remembered'
      <4>1. UNCHANGED publicationVars
        BY <3>2 DEF ClaimJob
      <4> QED
        BY <3>2, <4>1, ClaimRemembered
    <3> QED
      BY <2>2, <3>1, <3>2, IdentifyRemembered, SearchRemembered,
         RememberRemembered, MakeRemembered, UpdateRemembered,
         HideRemembered, ListGoneRemembered, EndProjectRemembered, LoadRemembered,
         ReadSiteRemembered, VerifyRemembered DEF AcceleventsStep
  <2>3. CASE Leave(d)
    BY <2>3, LeaveRemembered
  <2> QED
    BY <1>1, <2>1, <2>2, <2>3 DEF Drained
<1>2. ASSUME NEW d \in Drain, Die(d), Forget(d) PROVE Again' /\ Holders' /\ Remembered'
  BY <1>2, DieRemembered
<1>3. ASSUME NEW c \in Request, PublicationCommand(c) PROVE Again' /\ Holders' /\ Remembered'
  BY <1>3, CommandRemembered
<1>4. ASSUME NEW c \in Request, UNCHANGED publicationVars, EventCommand(c) \/ Abandon(c)
      PROVE  Again' /\ Holders' /\ Remembered'
  BY <1>4, OtherRemembered
<1>5. ASSUME NEW c \in Request, Expires(c) PROVE Again' /\ Holders' /\ Remembered'
  BY <1>5, ExpiryRemembered
<1>6. ASSUME UNCHANGED vars PROVE Again' /\ Holders' /\ Remembered'
  BY <1>6, StillRemembered
<1>7. Again' /\ Holders' /\ Remembered'
  BY <1>1, <1>2, <1>3, <1>4, <1>5, <1>6 DEF Next
<1>8. Copying'
  BY CopyingInductive DEF Remembering
<1> QED
  BY <1>7, <1>8 DEF Remembering

LEMMA StartRemembers ==
  ASSUME Init
  PROVE  Remembering
<1>1. Copying
  BY StartCopies
<1>2. Again /\ Holders /\ Remembered
  BY DEF Init, OutboxInit, PublicationInit, Again, Holders, Remembered, Unharmed
<1> QED
  BY <1>1, <1>2 DEF Remembering

LEMMA RememberedIsNotForgotten ==
  ASSUME IInv, Remembering
  PROVE  NothingForgotten
<1> SUFFICES ASSUME \A c \in Request : step[c] \in {"begin", "done"},
                    \A d \in Drain : row[d] = None,
                    ~met, ~crossed, faults = 0, overruns = 0,
                    configured, Ready(conn), programme # None
             PROVE  \/ \E c \in RowsOf("project") : ~outbox[c].done
                    \/ \A i \in Session :
                         \/ Mirrors(i)
                         \/ programme.snapshot[i] # None /\ (i \in unsure \/ Shared(i))
  BY DEF NothingForgotten
<1>1. Struct /\ PubTypes /\ Remembered /\ None \notin Projects
  BY ProjectsAre DEF Remembering, Copying, Struct, IInv
<1>2. Unharmed
  BY DEF Unharmed
<1>3. \A d \in Drain : ~Current(d)
  BY <1>1 DEF Current, Past
<1>4. CASE Owed
  <2>1. PICK c \in Request : Waits(c) \/ Owes(c)
    BY <1>4 DEF Owed
  <2>2. Waits(c)
    BY <2>1 DEF Owes
  <2> QED
    BY <2>2 DEF Waits, Projects
<1>5. CASE Mirrored
  <2>1. ASSUME NEW i \in Session, programme.snapshot[i] = None PROVE Mirrors(i)
    <3>1. Gone(conn.generation, i, {})
      BY <1>5, <2>1 DEF Mirrored, AsPublished
    <3>2. ASSUME ident[<<conn.generation, i>>] # None
          PROVE  ~remote[ident[<<conn.generation, i>>]].shown
      BY <3>1, <3>2 DEF Gone
    <3> QED
      BY <2>1, <3>2 DEF Mirrors
  <2>2. ASSUME NEW i \in Session, programme.snapshot[i] # None
        PROVE  Mirrors(i) \/ i \in unsure \/ Shared(i)
    <3>1. \/ Shown(conn.generation, i, programme.snapshot[i], conn.url)
          \/ Excused(conn.generation, i)
      BY <1>5, <2>2 DEF Mirrored, AsPublished
    <3>2. Shown(conn.generation, i, programme.snapshot[i], conn.url) => Mirrors(i)
      BY <2>2 DEF Shown, Good, Mirrors
    <3>3. Excused(conn.generation, i) => i \in unsure \/ Shared(i)
      BY DEF Excused, Lent, Shared
    <3> QED
      BY <3>1, <3>2, <3>3
  <2> QED
    BY <2>1, <2>2
<1> QED
  BY <1>1, <1>2, <1>3, <1>4, <1>5 DEF Remembered

(* enqueueAcceleventsJob, projectPublishedSnapshot: a publication, or a     *)
(* saving of the connection, that finds a row unclaimed need not add one,   *)
(* for the drain that takes it up reads the connection and the programme    *)
(* only then; one that finds all claimed adds its own.  A drain that dies   *)
(* leaves its row undone; one that marks it done has shown, unless a        *)
(* later request still owes a row, the programme that is published now.     *)
THEOREM NothingIsForgotten == Spec => []NothingForgotten
<1>1. Init => IInv /\ Remembering
  BY Start, StartRemembers
<1>2. IInv /\ Remembering /\ [Next]_vars => (IInv /\ Remembering)'
  BY Inductive, RememberingInductive
<1>3. IInv /\ Remembering => NothingForgotten
  BY RememberedIsNotForgotten
<1> QED
  BY <1>1, <1>2, <1>3, PTL DEF Spec
=============================================================================
