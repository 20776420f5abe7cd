----------------------------- MODULE Decisions -----------------------------
(***************************************************************************)
(* Recording decisions on submissions (modules/decisions).  An acceptance  *)
(* brings a program session, its speaker links, one participation per      *)
(* speaker and the participation's tasks into being; a later reject or     *)
(* waitlist takes them away again.  No transaction spans a command: only   *)
(* the claim of the submission's version, and the version of a             *)
(* participation or a task, guard against another one.  A command may die  *)
(* between any two statements and is then sent again.                      *)
(*                                                                         *)
(* A program session is named by the submission it comes from (the column  *)
(* is unique), a direct session by the request that creates it.  Users,    *)
(* memberships, invitations and the profile fields of a participation are  *)
(* left out, and the task templates of the event exist.                    *)
(***************************************************************************)
EXTENDS Integers, FiniteSets

CONSTANTS Call,         \* requests
          Submission, Speaker,
          Author,       \* the speakers of each submission
          Template,     \* task templates with trigger on_accept
          Decision,     \* the decisions clients send
          Reason,
          Expected,     \* the expectedVersion clients send, None for absent
          None,
          MaxParallel,  \* bound: requests under way at once
          MaxDirect,    \* bound: direct sessions
          MaxCrashes,   \* bound: requests that die
          MaxPortal     \* bound: writes by speakers in the portal

ASSUME AuthorAssumption == Author \in [Submission -> SUBSET Speaker]
ASSUME DecisionAssumption == Decision \subseteq {"accept", "reject", "waitlist"}
ASSUME BoundAssumption == {MaxParallel, MaxDirect, MaxCrashes, MaxPortal}
                            \subseteq Nat
ASSUME CallAssumption == IsFiniteSet(Call) /\ Call \intersect Submission = {}
ASSUME NoneAssumption ==
  /\ None \notin Submission
  /\ None \notin {"confirmed", "cancelled"}
  /\ None \notin {"ok", "conflict", "error", "lost"}
  /\ None \notin [status : {"submitted", "accepted", "rejected", "waitlist", "withdrawn",
                            "pending", "completed", "cancelled"}, version : Nat]
  /\ None \notin [value : Decision, reason : Reason]
  /\ None \notin [value : Decision, reason : Reason, at : Nat]
  /\ None \notin [submission : Submission, decision : Decision, reason : Reason,
                  expected : Expected]
  /\ None \notin [submission : {None}, speakers : SUBSET Speaker]

VARIABLES
  \* the tables
  submission,   \* submissions: status and version
  decision,     \* decisions: value and reason, or None
  session,      \* program_sessions: status, or None
  links,        \* session_speakers
  part,         \* event_participations: status and version, or None
  task,         \* speaker_tasks: status and version, or None
  audit,        \* audit_events: the newest Decision.Record
  \* one request
  pc, request,
  seen, old,    \* the submission and the decision it has read
  todo,         \* speakers or tasks that are still to come
  who, row,     \* the speaker or task at hand and the row read for it
  listed,       \* sessions to look at, or the tasks read
  answer,
  at,           \* its clock, read once
  \* history
  solo,         \* whether no other request, nor a speaker, acted while it ran
  latest,       \* the last request on each submission
  freed,        \* the speakers it took off the session, until another request begins
  crashes, portal

tables     == <<submission, decision, session, links, part, task, audit>>
localVars  == <<seen, old, todo, who, row, listed, answer>>
startVars  == <<request, solo, latest>>
boundVars  == <<freed, crashes, portal>>
vars       == <<tables, pc, localVars, startVars, boundVars, at>>

Session  == Submission \union Call
Task     == Template \X Speaker
StatusOf == [accept |-> "accepted", reject |-> "rejected", waitlist |-> "waitlist"]

Sub(c)      == request[c].submission
Value(c)    == request[c].decision
Why(c)      == request[c].reason
Direct(c)   == request[c].submission = None
SessionOf(c) == IF Direct(c) THEN c ELSE Sub(c)
Crew(c)     == IF Direct(c) THEN request[c].speakers ELSE Author[Sub(c)]

Underway == {c \in Call : pc[c] \notin {"start", "done"}}
Live(t)  == task[t] # None /\ task[t].status # "cancelled"

-----------------------------------------------------------------------------
Init ==
  /\ submission = [s \in Submission |-> [status |-> "submitted", version |-> 1]]
  /\ decision   = [s \in Submission |-> None]
  /\ session    = [x \in Session |-> None]
  /\ links      = [x \in Session |-> {}]
  /\ part       = [p \in Speaker |-> None]
  /\ task       = [t \in Task |-> None]
  /\ audit      = [s \in Submission |-> None]
  /\ pc         = [c \in Call |-> "start"]
  /\ request    = [c \in Call |-> None]
  /\ seen       = [c \in Call |-> None]
  /\ old        = [c \in Call |-> None]
  /\ todo       = [c \in Call |-> {}]
  /\ who        = [c \in Call |-> None]
  /\ row        = [c \in Call |-> None]
  /\ listed     = [c \in Call |-> {}]
  /\ answer     = [c \in Call |-> None]
  /\ at         = [c \in Call |-> 0]
  /\ solo       = [c \in Call |-> FALSE]
  /\ latest     = [s \in Submission |-> None]
  /\ freed      = [s \in Submission |-> {}]
  /\ crashes    = 0
  /\ portal     = 0

Goto(c, l) == pc' = [pc EXCEPT ![c] = l]

\* The answer, and the locals forgotten.
Reply(c, a) ==
  /\ Goto(c, "done")
  /\ answer' = [answer EXCEPT ![c] = a]
  /\ seen' = [seen EXCEPT ![c] = None]
  /\ old' = [old EXCEPT ![c] = None]
  /\ todo' = [todo EXCEPT ![c] = {}]
  /\ who' = [who EXCEPT ![c] = None]
  /\ row' = [row EXCEPT ![c] = None]
  /\ listed' = [listed EXCEPT ![c] = {}]

\* The next speakers, tasks or sessions to go through.
Loop(c, l, set) ==
  /\ Goto(c, l)
  /\ todo' = [todo EXCEPT ![c] = set]

\* A row is read, to be written in the next step.
Read(c, l, w, r) ==
  /\ Goto(c, l)
  /\ who' = [who EXCEPT ![c] = w]
  /\ row' = [row EXCEPT ![c] = r]
  /\ UNCHANGED <<tables, seen, old, todo, listed, answer, startVars, boundVars, at>>

\* UPDATE ... WHERE version = the version read; losing it goes unnoticed
Patch(table, k, r, status) ==
  IF table[k] # None /\ table[k].version = r.version
  THEN [table EXCEPT ![k] = [status |-> status, version |-> r.version + 1]]
  ELSE table

Fresh(status) == [status |-> status, version |-> 1]

Begin(c, r) ==
  /\ pc[c] = "start"
  /\ Cardinality(Underway) < MaxParallel
  /\ request' = [request EXCEPT ![c] = r]
  /\ solo' = [d \in Call |-> IF d = c THEN Underway = {}
                                      ELSE solo[d] /\ d \notin Underway]
  /\ freed' = [s \in Submission |-> {}]
  /\ UNCHANGED <<at, crashes, portal>>

-----------------------------------------------------------------------------
(* Decision.Record *)

Record(c, s, d, r, v) ==
  /\ Begin(c, [submission |-> s, decision |-> d, reason |-> r, expected |-> v])
  /\ seen' = [seen EXCEPT ![c] = submission[s]]
  /\ latest' = [latest EXCEPT ![s] = c]
  /\ Goto(c, "decision")
  /\ UNCHANGED <<tables, old, todo, who, row, listed, answer>>

AtTarget(c) == seen[c].status = StatusOf[Value(c)]

\* old: the decision row the request found
SameDecision(c, o) == o # None /\ o.value = Value(c)
SameReason(c, o)   == o # None /\ o.reason = Why(c)
Idempotent(c, o)   == AtTarget(c) /\ SameDecision(c, o) /\ SameReason(c, o)

\* a retry that holds the version from before its first claim
Repairable(c, o) == AtTarget(c) /\ (~SameDecision(c, o) \/ SameReason(c, o))

NeedsClaim(c, o) == ~AtTarget(c) \/ (SameDecision(c, o) /\ ~SameReason(c, o))

\* a decision on record is only given its audit row
Slip_TrustRecord(c, o) == IF Idempotent(c, o) THEN "ensure"
                          ELSE IF Value(c) = "accept" THEN "session" ELSE "lookup"
Work(c, o) == IF Value(c) = "accept" THEN "session" ELSE "lookup"

ReadDecision(c) ==
  LET o == decision[Sub(c)]
      v == request[c].expected
  IN /\ pc[c] = "decision"
     /\ IF v # None /\ v # seen[c].version /\ ~Repairable(c, o)
        THEN Reply(c, "conflict")
        ELSE /\ old' = [old EXCEPT ![c] = o]
             /\ Goto(c, IF NeedsClaim(c, o) THEN "claim" ELSE Work(c, o))
             /\ UNCHANGED <<seen, todo, who, row, listed, answer>>
     /\ at' = [at EXCEPT ![c] = 1 + Cardinality({d \in Call : at[d] > 0})]
     /\ UNCHANGED <<tables, startVars, boundVars>>

ClaimHolds(c) == submission[Sub(c)].version = seen[c].version

Claim(c) ==
  /\ pc[c] = "claim"
  /\ IF ClaimHolds(c)
     THEN /\ submission' = [submission EXCEPT ![Sub(c)] =
                [status |-> StatusOf[Value(c)], version |-> seen[c].version + 1]]
          /\ Goto(c, Work(c, old[c]))
          /\ UNCHANGED localVars
     ELSE Reply(c, "conflict") /\ UNCHANGED submission
  /\ UNCHANGED <<decision, session, links, part, task, audit, startVars, boundVars, at>>

-----------------------------------------------------------------------------
(* materializeAccept, and createDirectSession where it does the same *)

\* What is left once the program matches the decision.
Finish(c) == IF Idempotent(c, old[c]) THEN "ensure" ELSE "upsert"

\* a confirmed session is taken for a finished acceptance
Slip_SessionMeansDone(c) ==
  /\ pc[c] = "session"
  /\ Goto(c, CASE session[Sub(c)] = None -> "create"
               [] session[Sub(c)] = "cancelled" -> "reactivate"
               [] session[Sub(c)] = "confirmed" -> Finish(c))
  /\ todo' = [todo EXCEPT ![c] = Crew(c)]
  /\ UNCHANGED <<tables, seen, old, who, row, listed, answer, startVars, boundVars, at>>

\* insertSession answers with the row that is there, if one is
FindSession(c) ==
  /\ pc[c] = "session"
  /\ CASE session[Sub(c)] = None        -> Goto(c, "create") /\ UNCHANGED todo
       [] session[Sub(c)] = "cancelled"  -> Goto(c, "reactivate") /\ UNCHANGED todo
       [] session[Sub(c)] = "confirmed"  -> Loop(c, "speakers", Crew(c))
  /\ UNCHANGED <<tables, seen, old, who, row, listed, answer, startVars, boundVars, at>>

ConfirmSession(c) ==
  /\ pc[c] \in {"create", "reactivate"}
  /\ session' = IF pc[c] = "reactivate" \/ session[Sub(c)] = None
                THEN [session EXCEPT ![Sub(c)] = "confirmed"]
                ELSE session
  /\ Loop(c, "speakers", Crew(c))
  /\ UNCHANGED <<submission, decision, links, part, task, audit, seen, old, who, row,
                 listed, answer, startVars, boundVars, at>>

FindParticipation(c, p) ==
  /\ pc[c] = "speakers"
  /\ p \in todo[c]
  /\ Read(c, "participation", p, part[p])

\* A participation is unique per person: the loser of two inserts gets 500.
\* Only an acceptance turns one that is there back to accepted.
WriteParticipation(c) ==
  LET p == who[c] IN
  /\ pc[c] = "participation"
  /\ IF row[c] = None /\ part[p] # None
     THEN Reply(c, "error") /\ UNCHANGED part
     ELSE /\ part' = CASE row[c] = None -> [part EXCEPT ![p] = Fresh("accepted")]
                        [] row[c] # None /\ ~Direct(c) /\ row[c].status # "accepted"
                             -> Patch(part, p, row[c], "accepted")
                        [] OTHER -> part
          /\ Goto(c, IF Direct(c) THEN "link" ELSE "linked")
          /\ UNCHANGED localVars
  /\ UNCHANGED <<submission, decision, session, links, task, audit, startVars, boundVars, at>>

FindLink(c) ==
  /\ pc[c] = "linked"
  /\ IF who[c] \in links[Sub(c)]
     THEN Loop(c, "speakers", todo[c] \ {who[c]})
     ELSE Goto(c, "link") /\ UNCHANGED todo
  /\ UNCHANGED <<tables, seen, old, who, row, listed, answer, startVars, boundVars, at>>

InsertLink(c) ==
  LET x == SessionOf(c) IN
  /\ pc[c] = "link"
  /\ IF who[c] \in links[x]
     THEN Reply(c, "error") /\ UNCHANGED links
     ELSE /\ links' = [links EXCEPT ![x] = @ \union {who[c]}]
          /\ Loop(c, "speakers", todo[c] \ {who[c]})
          /\ UNCHANGED <<seen, old, who, row, listed, answer>>
  /\ UNCHANGED <<submission, decision, session, part, task, audit, startVars, boundVars, at>>

StartTasks(c) ==
  /\ pc[c] = "speakers" /\ todo[c] = {}
  /\ Loop(c, "tasks", Template \X Crew(c))
  /\ UNCHANGED <<tables, seen, old, who, row, listed, answer, startVars, boundVars, at>>

FindTask(c, t) ==
  /\ pc[c] = "tasks"
  /\ t \in todo[c]
  /\ Read(c, "task", t, task[t])

Revives(c) == ~Direct(c) /\ row[c].status = "cancelled"

WriteTask(c) ==
  LET t == who[c] IN
  /\ pc[c] = "task"
  /\ IF row[c] = None /\ task[t] # None
     THEN Reply(c, "error") /\ UNCHANGED task
     ELSE /\ task' = CASE row[c] = None -> [task EXCEPT ![t] = Fresh("pending")]
                        [] row[c] # None /\ Revives(c)
                             -> Patch(task, t, row[c], "pending")
                        [] OTHER -> task
          /\ Loop(c, "tasks", todo[c] \ {t})
          /\ UNCHANGED <<seen, old, who, row, listed, answer>>
  /\ UNCHANGED <<submission, decision, session, links, part, audit, startVars, boundVars, at>>

EndTasks(c) ==
  /\ pc[c] = "tasks" /\ todo[c] = {}
  /\ IF Direct(c) THEN Reply(c, "ok") ELSE Goto(c, Finish(c)) /\ UNCHANGED localVars
  /\ UNCHANGED <<tables, startVars, boundVars, at>>

\* Session.CreateDirect: a session of its own for speakers named in the request
CreateDirect(c, crew) ==
  /\ Begin(c, [submission |-> None, speakers |-> crew])
  /\ Cardinality({x \in Call : session[x] # None}) < MaxDirect
  /\ session' = [session EXCEPT ![c] = "confirmed"]
  /\ Loop(c, "speakers", crew)
  /\ UNCHANGED <<submission, decision, links, part, task, audit, seen, old, who, row,
                 listed, answer, latest>>

-----------------------------------------------------------------------------
(* dematerializeAccept *)

\* seen.status is of no more use: row keeps the status of the session
Lookup(c) ==
  /\ pc[c] = "lookup"
  /\ IF session[Sub(c)] = None
     THEN Goto(c, Finish(c)) /\ UNCHANGED row
     ELSE Goto(c, "crew") /\ row' = [row EXCEPT ![c] = session[Sub(c)]]
  /\ UNCHANGED <<tables, seen, old, todo, who, listed, answer, startVars, boundVars, at>>

\* lists the speakers after their links are deleted
Slip_ListAfterUnlink(c) ==
  /\ pc[c] = "crew"
  /\ Loop(c, "unlink", {})
  /\ freed' = [freed EXCEPT ![Sub(c)] = links[Sub(c)]]
  /\ UNCHANGED <<tables, seen, old, who, row, listed, answer, startVars, crashes, portal, at>>

ListLinked(c) ==
  /\ pc[c] = "crew"
  /\ Loop(c, "unlink", links[Sub(c)])
  /\ freed' = [freed EXCEPT ![Sub(c)] = links[Sub(c)]]
  /\ UNCHANGED <<tables, seen, old, who, row, listed, answer, startVars, crashes, portal, at>>

Unlink(c) ==
  /\ pc[c] = "unlink"
  /\ links' = [links EXCEPT ![Sub(c)] = {}]
  /\ Goto(c, IF row[c] = "cancelled" THEN "free" ELSE "cancel")
  /\ UNCHANGED <<submission, decision, session, part, task, audit, localVars, startVars,
                 boundVars, at>>

Cancel(c) ==
  /\ pc[c] = "cancel"
  /\ session' = [session EXCEPT ![Sub(c)] = "cancelled"]
  /\ Goto(c, "free")
  /\ UNCHANGED <<submission, decision, links, part, task, audit, localVars, startVars,
                 boundVars, at>>

\* participationStillOnConfirmedSession: the sessions are listed, then the
\* links of each are read
Slip_NoOtherSession(c) == {}
OtherSessions(c) == {x \in Session : session[x] = "confirmed"} \ {Sub(c)}

ListSessions(c, p) ==
  /\ pc[c] = "free"
  /\ p \in todo[c]
  /\ Goto(c, "onstage")
  /\ who' = [who EXCEPT ![c] = p]
  /\ listed' = [listed EXCEPT ![c] = OtherSessions(c)]
  /\ UNCHANGED <<tables, seen, old, todo, row, answer, startVars, boundVars, at>>

LookForLink(c, x) ==
  /\ pc[c] = "onstage"
  /\ x \in listed[c]
  /\ IF who[c] \in links[x]
     THEN /\ Loop(c, "free", todo[c] \ {who[c]})
          /\ listed' = [listed EXCEPT ![c] = {}]
     ELSE /\ listed' = [listed EXCEPT ![c] = @ \ {x}]
          /\ UNCHANGED <<pc, todo>>
  /\ UNCHANGED <<tables, seen, old, who, row, answer, startVars, boundVars, at>>

ListTasks(c) ==
  /\ pc[c] = "onstage" /\ listed[c] = {}
  /\ Goto(c, "cancelling")
  /\ listed' = [listed EXCEPT ![c] =
       {[task |-> t, row |-> task[t]] : t \in {t \in Template \X {who[c]} : Live(t)}}]
  /\ UNCHANGED <<tables, seen, old, todo, who, row, answer, startVars, boundVars, at>>

CancelTask(c, l) ==
  /\ pc[c] = "cancelling"
  /\ l \in listed[c]
  /\ task' = Patch(task, l.task, l.row, "cancelled")
  /\ listed' = [listed EXCEPT ![c] = @ \ {l}]
  /\ UNCHANGED <<submission, decision, session, links, part, audit, pc, seen, old, todo,
                 who, row, answer, startVars, boundVars, at>>

FindLeaving(c) ==
  /\ pc[c] = "cancelling" /\ listed[c] = {}
  /\ Read(c, "withdraw", who[c], part[who[c]])

Withdraw(c) ==
  /\ pc[c] = "withdraw"
  /\ part' = IF row[c].status = "withdrawn" THEN part
             ELSE Patch(part, who[c], row[c], "withdrawn")
  /\ Loop(c, "free", todo[c] \ {who[c]})
  /\ UNCHANGED <<submission, decision, session, links, task, audit, seen, old, who, row,
                 listed, answer, startVars, boundVars, at>>

EndFree(c) ==
  /\ pc[c] = "free" /\ todo[c] = {}
  /\ Goto(c, Finish(c))
  /\ UNCHANGED <<tables, localVars, startVars, boundVars, at>>

-----------------------------------------------------------------------------
(* The decision row and the audit trail *)

\* upsertDecision looks for the row, then updates or inserts it; the row is
\* unique per submission.
Upsert(c) ==
  /\ pc[c] = "upsert"
  /\ Goto(c, IF decision[Sub(c)] = None THEN "insert" ELSE "update")
  /\ UNCHANGED <<tables, localVars, startVars, boundVars, at>>

WriteDecision(c) ==
  /\ pc[c] \in {"insert", "update"}
  /\ IF pc[c] = "insert" /\ decision[Sub(c)] # None
     THEN Reply(c, "error") /\ UNCHANGED decision
     ELSE /\ decision' = [decision EXCEPT ![Sub(c)] =
                            [value |-> Value(c), reason |-> Why(c)]]
          /\ Goto(c, "audit")
          /\ UNCHANGED localVars
  /\ UNCHANGED <<submission, session, links, part, task, audit, startVars, boundVars, at>>

\* ensureDecisionAudit looks at the newest row, by the clock of its request
Audited(c) ==
  /\ audit[Sub(c)] # None
  /\ audit[Sub(c)].value = Value(c) /\ audit[Sub(c)].reason = Why(c)

EnsureAudit(c) ==
  /\ pc[c] = "ensure"
  /\ IF Audited(c) THEN Reply(c, "ok") ELSE Goto(c, "audit") /\ UNCHANGED localVars
  /\ UNCHANGED <<tables, startVars, boundVars, at>>

InsertAudit(c) ==
  LET s == Sub(c) IN
  /\ pc[c] = "audit"
  /\ audit' = IF audit[s] # None /\ audit[s].at > at[c] THEN audit
              ELSE [audit EXCEPT ![s] = [value |-> Value(c), reason |-> Why(c),
                                         at |-> at[c]]]
  /\ Reply(c, "ok")
  /\ UNCHANGED <<submission, decision, session, links, part, task, startVars, boundVars, at>>

-----------------------------------------------------------------------------
(* The surroundings *)

\* The request dies, or a statement fails: it takes no further step.
Die(c) ==
  /\ c \in Underway
  /\ crashes < MaxCrashes
  /\ crashes' = crashes + 1
  /\ Reply(c, "lost")
  /\ UNCHANGED <<tables, startVars, freed, portal, at>>

\* Task.Complete and Participation.UpdateProfile: read, check, then write
\* where the version still holds, so each takes effect at once or not at all.
Interfere ==
  /\ portal < MaxPortal
  /\ portal' = portal + 1
  /\ solo' = [c \in Call |-> solo[c] /\ c \notin Underway]
  /\ UNCHANGED <<submission, decision, session, links, audit, pc, localVars,
                 request, latest, freed, crashes, at>>

CompleteTask(t) ==
  /\ Interfere
  /\ task[t] # None /\ task[t].status = "pending"
  /\ task' = Patch(task, t, task[t], "completed")
  /\ UNCHANGED part

UpdateProfile(p) ==
  /\ Interfere
  /\ part[p] # None
  /\ part' = Patch(part, p, part[p], part[p].status)
  /\ UNCHANGED task

Command(c) ==
  \/ \E s \in Submission, d \in Decision, r \in Reason, v \in Expected :
        Record(c, s, d, r, v)
  \/ \E crew \in SUBSET Speaker : CreateDirect(c, crew)
  \/ ReadDecision(c) \/ Claim(c)
  \/ FindSession(c) \/ ConfirmSession(c)
  \/ \E p \in Speaker : FindParticipation(c, p) \/ ListSessions(c, p)
  \/ WriteParticipation(c) \/ FindLink(c) \/ InsertLink(c)
  \/ StartTasks(c) \/ WriteTask(c) \/ EndTasks(c)
  \/ \E t \in Task : FindTask(c, t)
  \/ Lookup(c) \/ ListLinked(c) \/ Unlink(c) \/ Cancel(c)
  \/ \E x \in Session : LookForLink(c, x)
  \/ ListTasks(c) \/ FindLeaving(c) \/ Withdraw(c) \/ EndFree(c)
  \/ \E l \in listed[c] : CancelTask(c, l)
  \/ Upsert(c) \/ WriteDecision(c) \/ EnsureAudit(c) \/ InsertAudit(c)
  \/ Die(c)

Next == \/ \E c \in Call : Command(c)
        \/ \E t \in Task : CompleteTask(t)
        \/ \E p \in Speaker : UpdateProfile(p)

Spec == Init /\ [][Next]_vars

-----------------------------------------------------------------------------
(* What must hold *)

Stands(p) == /\ part[p] # None /\ part[p].status = "accepted"
             /\ \A t \in Template \X {p} : Live(t)
Gone(p)   == /\ part[p] # None => part[p].status = "withdrawn"
             /\ \A t \in Template \X {p} : ~Live(t)
OnStage(p) == \E x \in Session : session[x] = "confirmed" /\ p \in links[x]

Answered(c)  == answer[c] = "ok" /\ ~Direct(c)
Accepted(c) == /\ submission[Sub(c)].status = "accepted"
               /\ decision[Sub(c)] # None /\ decision[Sub(c)].value = "accept"
               /\ session[Sub(c)] = "confirmed"
               /\ links[Sub(c)] = Author[Sub(c)]
               /\ \A p \in Author[Sub(c)] : Stands(p)
Refused(s) == /\ session[s] # "confirmed" /\ links[s] = {}
              /\ \A p \in freed[s] : OnStage(p) \/ Gone(p)

\* Whatever races and deaths came before it: a request that had the system to
\* itself and answered ok leaves the submission, the decision and the newest
\* audit row as it asked.  An acceptance has its session confirmed, and all
\* speakers linked to it with participation and tasks.  A rejection or
\* waitlisting leaves the session without speakers, and each speaker that it
\* took off the session is on another one, or withdrawn and his tasks
\* cancelled.  Of speakers that were off the session when it came it says
\* nothing: a rejection sent again after one that died behind the deletion
\* of the links (commands.ts:451) frees nobody and answers ok.
AnsweredMeansApplied ==
  \A s \in Submission : latest[s] # None =>
    LET c == latest[s] IN
    Answered(c) /\ solo[c] =>
      /\ submission[s].status = StatusOf[Value(c)]
      /\ decision[s] = [value |-> Value(c), reason |-> Why(c)]
      /\ audit[s].value = Value(c) /\ audit[s].reason = Why(c)
      /\ IF Value(c) = "accept" THEN Accepted(c) ELSE Refused(s)

\* Acceptances that race each other, of one submission or of submissions with
\* a common speaker, and deaths among them: whichever is answered ok, all of
\* its artifacts are there.
AcceptancesAddUp ==
  (\A d \in Call : request[d] # None => Direct(d) \/ Value(d) = "accept")
    => \A c \in Call : Answered(c) => Accepted(c)

\* Every request so far had the system to itself.
Serial == \A c \in Call : request[c] # None => solo[c]
AtRest == Underway = {}
Undisturbed == AtRest /\ Serial /\ crashes = 0

\* One decision after the other, none cut short: who is on no stage any more
\* holds no participation and no task (dematerializeAccept).
NobodyLeftBehind == Undisturbed => \A p \in Speaker : OnStage(p) \/ Gone(p)

\* and who is on the stage for an accepted submission still does, whatever
\* became of other submissions by the same speaker ("Cancel-all-tasks-before-
\* link-check would break shared participation tasks", commands.ts:430).
Standing(x) == session[x] = "confirmed" => \A p \in links[x] : Stands(p)
AuthorsStand == Undisturbed => \A s \in Submission : Standing(s)
=============================================================================
