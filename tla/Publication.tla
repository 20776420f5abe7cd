----------------------------- MODULE Publication ----------------------------
(***************************************************************************)
(* The published programme of an event and its copy in Accelevents         *)
(* (modules/programme, modules/accelevents, workers/acceleventsConsumer).  *)
(* Publishing composes a snapshot, stores it and enqueues a row; so does   *)
(* saving the connection, which names the event of the service to project  *)
(* into and counts its generations.  A drain projects the snapshot it      *)
(* finds: speakers first, then the scheduled sessions, each into the       *)
(* record its identity names or, if there is none, the one that matches;   *)
(* then it hides the sessions that are gone.                               *)
(*                                                                         *)
(* The face of a speaker is his e-mail address, that of a session its      *)
(* title and time; None is a speaker without address, or a session not     *)
(* scheduled.  The service knows an item by its face only: two of one kind *)
(* may have the same.  The tables a programme is composed from are read as *)
(* one.                                                                    *)
(***************************************************************************)
EXTENDS Outbox

CONSTANTS Speaker, Session,  \* what a programme consists of
          FaceOf,            \* the faces of an item
          Url                \* events of the service

Item == Speaker \union Session
Face == (UNION {FaceOf[i] : i \in Item}) \union {None}
Connection == [enabled : BOOLEAN, url : Url, generation : Nat, version : Nat]

ASSUME ItemAssumption == Speaker \cap Session = {}
ASSUME ConnectionAssumption == None \notin Connection

VARIABLES
  source,      \* the face each item has in the tables
  programme,   \* row of programme_publications, or None
  conn,        \* row of integration_connections, or None
  ident,       \* accelevents_identities, by generation and item
  remote,      \* records of the service
  \* locals of a request
  draft,       \* the snapshot composed
  prior,       \* the publication's version, or the connection, as read
  \* locals of a drain
  site,        \* connection
  snap,        \* snapshot
  left,        \* items still ahead
  item,        \* item being projected
  \* history
  edited,      \* an item changed
  crossed,     \* a connection was written over one its writer had not read
  blind,       \* a listing of the service failed and was taken for empty
  foreign,     \* an id was used in an event it is not of
  unsure       \* items that matched several records when last searched for

tables == <<source, programme, conn, ident, remote>>
locals == <<draft, prior, site, snap, left, item>>
marks  == <<edited, crossed, blind, foreign, unsure>>
publicationVars == <<tables, locals, marks>>

NoSnapshot == [i \in Item |-> None]
FirstConnection == [enabled : BOOLEAN, url : Url, generation : {1}, version : {1}]
Generation == 1..(Cardinality(Request) + 1)

\* No programme is published yet; the connection may have been made.
PublicationInit ==
  /\ source \in [Item -> Face]
  /\ conn \in {None} \union FirstConnection
  /\ programme = None
  /\ ident = [p \in Generation \X Item |-> None]
  /\ remote = <<>>
  /\ draft = [c \in Request |-> NoSnapshot]
  /\ prior = [c \in Request |-> None]
  /\ site  = [d \in Drain |-> None]
  /\ snap  = [d \in Drain |-> NoSnapshot]
  /\ left  = [d \in Drain |-> {}]
  /\ item  = [d \in Drain |-> None]
  /\ edited = FALSE /\ crossed = FALSE /\ blind = FALSE /\ foreign = FALSE
  /\ unsure = {}

Ready(n) == n # None /\ n.enabled

-----------------------------------------------------------------------------
(* Publishing *)

Serving(c, k, l) ==
  /\ kind[c] = k /\ step[c] = l
  /\ UNCHANGED <<given, pc, work, past, faults, site, snap, left, item, ident,
                 remote, blind, foreign, unsure>>
  /\ k # "edit" => UNCHANGED <<source, edited>>

\* A command that changes what a programme is composed from
Edit(c, i, f) ==
  /\ Serving(c, "edit", "begin")
  /\ source[i] # f /\ (i \in Speaker => f = None \/ source[i] = None)
  /\ source' = [source EXCEPT ![i] = f]
  /\ edited' = TRUE
  /\ Turn(c, "done")
  /\ UNCHANGED <<outbox, programme, conn, draft, prior, crossed>>

\* Nothing a request has read is needed any more.
Return(c) == /\ draft' = [draft EXCEPT ![c] = NoSnapshot]
             /\ prior' = [prior EXCEPT ![c] = None]

Compose(c) ==
  /\ Serving(c, "publish", "begin")
  /\ draft' = [draft EXCEPT ![c] = source]
  /\ Turn(c, "previous")
  /\ UNCHANGED <<outbox, programme, conn, prior, crossed>>

ReadPrevious(c) ==
  /\ Serving(c, "publish", "previous")
  /\ prior' = [prior EXCEPT ![c] = IF programme = None THEN 0 ELSE programme.version]
  /\ Turn(c, "compare")
  /\ UNCHANGED <<outbox, programme, conn, draft, crossed>>

\* upsert reads the row again and compares, if there was one before.
ComparePrevious(c) ==
  /\ Serving(c, "publish", "compare")
  /\ IF programme # None /\ prior[c] # 0 /\ prior[c] # programme.version
     THEN Turn(c, "done") /\ Return(c)
     ELSE /\ Turn(c, IF programme = None THEN "insert" ELSE "replace")
          /\ UNCHANGED <<draft, prior>>
  /\ UNCHANGED <<outbox, programme, conn, crossed>>

\* The update asks for no version; the insert of the second fails.
StoreProgramme(c) ==
  /\ \E l \in {"insert", "replace"} : Serving(c, "publish", l)
  /\ IF step[c] = "insert" /\ programme # None
     THEN Turn(c, "done") /\ UNCHANGED programme
     ELSE /\ programme' = [version |-> prior[c] + 1, snapshot |-> draft[c]]
          /\ Turn(c, "ready")
  /\ Return(c)
  /\ UNCHANGED <<outbox, conn, crossed>>

CheckReady(c) ==
  /\ Serving(c, "publish", "ready")
  /\ Turn(c, IF Ready(conn) /\ configured THEN "enlist" ELSE "done")
  /\ UNCHANGED <<outbox, programme, conn, draft, prior, crossed>>

-----------------------------------------------------------------------------
(* enqueueAcceleventsJob *)

TopicOf(c) == IF kind[c] = "verify" THEN "verify" ELSE "project"

Slip_EvenLeased(t) == Slip_Unprocessed(t)
Waiting(t) == Listed(t)

Enlist(c) ==
  /\ Serving(c, kind[c], "enlist")
  /\ Turn(c, IF Waiting(TopicOf(c)) = {} THEN "add" ELSE "done")
  /\ UNCHANGED <<outbox, programme, conn, draft, prior, crossed>>

AddRow(c) ==
  /\ Serving(c, kind[c], "add")
  /\ outbox' = [outbox EXCEPT ![c] = NewRow(TopicOf(c), 0)]
  /\ Turn(c, "done")
  /\ UNCHANGED <<programme, conn, draft, prior, crossed>>

-----------------------------------------------------------------------------
(* The connection *)

\* The row that saving b over n makes: a new event is a new generation.
NextGeneration(n, b) == IF n = None THEN 1
                        ELSE IF n.url # b.url THEN n.generation + 1 ELSE n.generation
Saved(n, b) == [enabled |-> b.enabled, url |-> b.url,
                generation |-> NextGeneration(n, b),
                version |-> IF n = None THEN 1 ELSE n.version + 1]

\* A request may name the version its client has seen, or none.
Save(c, b, outdated) ==
  /\ Serving(c, "save", "begin")
  /\ IF outdated
     THEN /\ conn # None /\ conn.version > 1
          /\ Turn(c, "done") /\ UNCHANGED prior
     ELSE /\ prior' = [prior EXCEPT ![c] = [seen |-> conn, next |-> Saved(conn, b)]]
          /\ Turn(c, "put")
  /\ UNCHANGED <<outbox, programme, conn, draft, crossed>>

QueueVerify(c, outdated) ==
  /\ Serving(c, "verify", "begin")
  /\ outdated => conn # None /\ conn.version > 1
  /\ IF outdated \/ conn = None
     THEN Turn(c, "done") /\ UNCHANGED prior
     ELSE /\ prior' = [prior EXCEPT ![c] =
                         [seen |-> conn, next |-> [conn EXCEPT !.version = @ + 1]]]
          /\ Turn(c, "put")
  /\ UNCHANGED <<outbox, programme, conn, draft, crossed>>

\* upsertConnection writes the whole row and compares nothing.
PutConnection(c) ==
  /\ Serving(c, kind[c], "put")
  /\ conn' = prior[c].next
  /\ crossed' = (crossed \/ conn # prior[c].seen)
  /\ Turn(c, IF kind[c] = "verify" \/ (conn'.enabled /\ configured)
             THEN "enlist" ELSE "done")
  /\ Return(c)
  /\ UNCHANGED <<outbox, programme>>

-----------------------------------------------------------------------------
(* The drain: verifications before projections *)

Idle(d, l) ==
  /\ pc[d] = l /\ batch[d] = {}
  /\ UNCHANGED <<given, outbox, step, row, target, past, faults, publicationVars>>

ListVerifies(d) == Idle(d, "airtable") /\ ListRows(d, "verify") /\ Goto(d, "projects")

ListProjects(d) ==
  /\ pc[d] = "projects"
  /\ ListRows(d, "project")
  /\ Goto(d, "accelevents")
  /\ UNCHANGED <<given, outbox, step, row, target, past, faults, publicationVars>>

Rest(d) == Idle(d, "accelevents") /\ Goto(d, "idle") /\ UNCHANGED batch

ClaimJob(d, c) ==
  /\ pc[d] = "accelevents" /\ c \in batch[d]
  /\ outbox[c].topic = "project" => \A b \in batch[d] : outbox[b].topic = "project"
  /\ Claim(d, c, IF outbox[c].topic = "verify" THEN "connection"
                 ELSE IF configured THEN "site" ELSE "fail")
  /\ UNCHANGED publicationVars

Busy(d, l) ==
  /\ pc[d] = l
  /\ UNCHANGED <<given, outbox, step, batch, row, past, source, programme, draft,
                 prior, edited>>

\* runVerify reads the connection, asks the service, and writes back what it
\* has read with the result, which no other operation looks at.
ReadConnection(d) ==
  /\ Busy(d, "connection")
  /\ site' = [site EXCEPT ![d] = conn]
  /\ Goto(d, IF conn = None THEN "retire" ELSE "report")
  /\ UNCHANGED <<target, faults, conn, ident, remote, snap, left, item, crossed,
                 blind, foreign, unsure>>

Report(d) ==
  /\ Busy(d, "report")
  /\ conn' = [site[d] EXCEPT !.version = @ + 1]
  /\ crossed' = (crossed \/ conn # site[d])
  /\ Goto(d, "retire")
  /\ UNCHANGED <<target, faults, ident, remote, site, snap, left, item, blind,
                 foreign, unsure>>

\* A drain leaves a row, or dies.
Forget(d) ==
  /\ site' = [site EXCEPT ![d] = None]
  /\ snap' = [snap EXCEPT ![d] = NoSnapshot]
  /\ left' = [left EXCEPT ![d] = {}]
  /\ item' = [item EXCEPT ![d] = None]
  /\ UNCHANGED <<tables, draft, prior, marks>>

-----------------------------------------------------------------------------
(* projectPublishedSnapshot *)

ReadSite(d) ==
  /\ Busy(d, "site")
  /\ site' = [site EXCEPT ![d] = conn]
  /\ Goto(d, IF Ready(conn) THEN "load" ELSE "retire")
  /\ UNCHANGED <<target, faults, conn, ident, remote, snap, left, item, crossed,
                 blind, foreign, unsure>>

\* The addresses are not in the snapshot: they are read with it.
LoadSnapshot(d) ==
  /\ Busy(d, "load")
  /\ IF programme = None
     THEN Goto(d, "retire") /\ UNCHANGED <<snap, left>>
     ELSE LET s == [i \in Item |-> IF i \in Speaker THEN source[i]
                                                    ELSE programme.snapshot[i]] IN
          /\ snap' = [snap EXCEPT ![d] = s]
          /\ left' = [left EXCEPT ![d] = {i \in Item : s[i] # None}]
          /\ Goto(d, "items")
  /\ UNCHANGED <<target, faults, conn, ident, remote, site, item, crossed, blind,
                 foreign, unsure>>

Projecting(d, l) ==
  /\ Busy(d, l)
  /\ UNCHANGED <<conn, site, snap, crossed>>

Here(d) == <<site[d].generation, item[d]>>
NextItem(d) == Goto(d, "items") /\ Aim(d, None)

\* getIdentity, for the next item
Identify(d, i) ==
  /\ Projecting(d, "items") /\ i \in left[d]
  /\ i \in Session => left[d] \subseteq Session
  /\ left' = [left EXCEPT ![d] = @ \ {i}]
  /\ item' = [item EXCEPT ![d] = i]
  /\ LET r == ident[<<site[d].generation, i>>] IN
     IF r = None THEN Goto(d, "search") /\ UNCHANGED target
                 ELSE Goto(d, "update") /\ Aim(d, r)
  /\ UNCHANGED <<faults, ident, remote, blind, foreign, unsure>>

\* Speakers are matched with speakers, sessions with sessions.
Kindred(i, j) == i \in Speaker <=> j \in Speaker

\* The records of the service that a listing matches with the item: by e-mail
\* address, or by title and start, whichever item they were made for
Slip_NoMatch(d) == {}
Matches(d) == {r \in DOMAIN remote : /\ remote[r].url = site[d].url
                                     /\ Kindred(remote[r].item, item[d])
                                     /\ remote[r].face = snap[d][item[d]]}

\* A listing the service refuses comes back empty; one that times out, or that
\* has two matches, ends the work on the item.
Search(d) ==
  /\ Projecting(d, "search")
  /\ \/ /\ UNCHANGED <<faults, blind>>
        /\ unsure' = IF Cardinality(Matches(d)) > 1 THEN unsure \union {item[d]}
                                                    ELSE unsure \ {item[d]}
        /\ CASE Cardinality(Matches(d)) = 0 -> Goto(d, "make") /\ UNCHANGED target
             [] Cardinality(Matches(d)) = 1 -> /\ Goto(d, "adopt")
                                               /\ \E r \in Matches(d) : Aim(d, r)
             [] OTHER -> NextItem(d)
     \/ Fault /\ blind' = TRUE /\ Goto(d, "make") /\ UNCHANGED <<target, unsure>>
     \/ Fault /\ NextItem(d) /\ UNCHANGED <<blind, unsure>>
  /\ UNCHANGED <<ident, remote, left, item, foreign>>

\* putIdentity
Remember(d) ==
  /\ \E l \in {"adopt", "remember"} : Projecting(d, l)
  /\ ident' = [ident EXCEPT ![Here(d)] = target[d]]
  /\ IF pc[d] = "adopt" THEN Goto(d, "update") /\ UNCHANGED target ELSE NextItem(d)
  /\ UNCHANGED <<faults, remote, left, item, blind, foreign, unsure>>

\* What a PUT to record r does; in another event the service has no such record.
Put(d, r, new) ==
  /\ foreign' = (foreign \/ remote[r].url # site[d].url)
  /\ LET after == IF remote[r].url = site[d].url THEN [remote EXCEPT ![r] = new] ELSE remote IN
     \/ remote' = after /\ UNCHANGED faults
     \/ Fault /\ remote' \in {remote, after}

Update(d) ==
  /\ Projecting(d, "update")
  /\ Put(d, target[d], [remote[target[d]] EXCEPT !.face = snap[d][item[d]], !.shown = TRUE])
  /\ NextItem(d)
  /\ UNCHANGED <<ident, left, item, blind, unsure>>

\* The service refuses a speaker whose address it has.
Make(d) ==
  LET made == Append(remote, [item |-> item[d], face |-> snap[d][item[d]],
                              shown |-> TRUE, url |-> site[d].url]) IN
  /\ Projecting(d, "make")
  /\ IF item[d] \in Speaker /\ Matches(d) # {}
     THEN Goto(d, "again") /\ UNCHANGED <<target, faults, remote>>
     ELSE \/ remote' = made /\ Aim(d, Len(made)) /\ Goto(d, "remember") /\ UNCHANGED faults
          \/ Fault /\ remote' \in {remote, made} /\ NextItem(d)
  /\ UNCHANGED <<ident, left, item, blind, foreign, unsure>>

SearchAgain(d) ==
  /\ Projecting(d, "again")
  /\ \/ /\ UNCHANGED faults
        /\ IF Cardinality(Matches(d)) = 1
           THEN Goto(d, "remember") /\ \E r \in Matches(d) : Aim(d, r)
           ELSE NextItem(d)
     \/ Fault /\ NextItem(d)
  /\ UNCHANGED <<ident, remote, left, item, blind, foreign, unsure>>

\* From here on what is left are records: those of sessions known and gone.
ListGone(d) ==
  /\ Projecting(d, "items") /\ left[d] = {}
  /\ left' = [left EXCEPT ![d] =
       {ident[<<site[d].generation, i>>] :
          i \in {j \in Session : snap[d][j] = None}} \ {None}]
  /\ item' = [item EXCEPT ![d] = None]
  /\ Goto(d, "hide")
  /\ UNCHANGED <<target, faults, ident, remote, blind, foreign, unsure>>

Hide(d, r) ==
  /\ Projecting(d, "hide") /\ r \in left[d]
  /\ Put(d, r, [remote[r] EXCEPT !.shown = FALSE])
  /\ left' = [left EXCEPT ![d] = @ \ {r}]
  /\ UNCHANGED <<pc, target, ident, item, blind, unsure>>

EndProject(d) ==
  /\ Projecting(d, "hide") /\ left[d] = {}
  /\ Goto(d, "retire")
  /\ UNCHANGED <<target, faults, ident, remote, left, item, blind, foreign,
                 unsure>>

AcceleventsStep(d) ==
  \/ ListVerifies(d) \/ ListProjects(d) \/ Rest(d) \/ ReadConnection(d) \/ Report(d)
  \/ ReadSite(d) \/ LoadSnapshot(d) \/ Search(d) \/ Remember(d) \/ Update(d)
  \/ Make(d) \/ SearchAgain(d) \/ ListGone(d) \/ EndProject(d)
  \/ \E c \in Request : ClaimJob(d, c)
  \/ \E i \in Item : Identify(d, i)
  \/ \E r \in DOMAIN remote : Hide(d, r)

PublicationCommand(c) ==
  \/ Compose(c) \/ ReadPrevious(c) \/ ComparePrevious(c) \/ StoreProgramme(c)
  \/ CheckReady(c) \/ Enlist(c) \/ AddRow(c) \/ PutConnection(c)
  \/ \E i \in Item : \E f \in FaceOf[i] \union {None} : Edit(c, i, f)
  \/ \E outdated \in BOOLEAN :
       \/ QueueVerify(c, outdated)
       \/ \E b \in [enabled : BOOLEAN, url : Url] : Save(c, b, outdated)

-----------------------------------------------------------------------------
(* The record of session i in the event of the service that is connected    *)
(* shows it as the published programme has it, or not at all if it is gone. *)
Mirrors(i) ==
  LET f == programme.snapshot[i]
      r == ident[<<conn.generation, i>>] IN
  IF f = None THEN r # None => ~remote[r].shown
  ELSE /\ r # None
       /\ remote[r].face = f /\ remote[r].shown /\ remote[r].url = conn.url

(* Two sessions go by one record: they had the same title and start when    *)
(* the second one was looked for.                                           *)
Shared(i) ==
  /\ ident[<<conn.generation, i>>] # None
  /\ \E j \in Session \ {i} :
       ident[<<conn.generation, i>>] = ident[<<conn.generation, j>>]

(* An event of the service has two records made for item i. *)
Doubled(i) ==
  \E q, r \in DOMAIN remote : /\ q # r /\ remote[q].item = i /\ remote[r].item = i
                             /\ remote[q].url = remote[r].url

(* When nothing is going on, and nothing went wrong, the programme that is *)
(* published has been projected or is about to be: no publication and no   *)
(* change of the connection is lost on the way, whichever rows coalesce    *)
(* (enqueueAcceleventsJob) and whichever drain dies.  Two kinds of         *)
(* sessions are excused: those given up because they matched several       *)
(* records ("ambiguous session match"), and those that share a record with *)
(* a session of the same title and start, which shows what was projected   *)
(* last, or nothing when one of the two is gone.                           *)
NothingForgotten ==
  (/\ \A c \in Request : step[c] \in {"begin", "done"}
   /\ \A d \in Drain : row[d] = None
   /\ ~met /\ ~crossed /\ faults = 0 /\ overruns = 0
   /\ configured /\ Ready(conn) /\ programme # None)
  => \/ \E c \in RowsOf("project") : ~outbox[c].done
     \/ \A i \in Session :
          \/ Mirrors(i)
          \/ programme.snapshot[i] # None /\ (i \in unsure \/ Shared(i))

(* An item gets a second record in an event of the service only when two   *)
(* drains are at work, when a listing fails, or when it changes after its  *)
(* record was made and lost, by a death, an answer that did not come, or a *)
(* change of the connection, be it undone since by one it crosses          *)
(* (projectSession, projectSpeaker).                                       *)
OneCopyEach ==
  \A i \in Item : Doubled(i) =>
    \/ met \/ blind
    \/ edited /\ (deaths > 0 \/ faults > 0 \/ crossed \/ conn.generation > 1)

(* The documentation's promise: an id is never used in an event of the     *)
(* service it is not of.                                                   *)
NoForeignPut == ~foreign
=============================================================================
