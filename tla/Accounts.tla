------------------------------ MODULE Accounts ------------------------------
(***************************************************************************)
(* Who may sign in, and as what (modules/auth over the tables users,       *)
(* event_memberships, magic_links and auth_sessions), for one event and    *)
(* the policy "controlled".                                                *)
(*                                                                         *)
(* A request is one HTTP call; req says what it was sent with and pc which *)
(* database call comes next.  The modules that share the memberships run   *)
(* their requests in the same pool (see Review).                           *)
(***************************************************************************)
EXTENDS Naturals, FiniteSets

CONSTANTS Call,       \* requests
          Person,     \* e-mail addresses; a user row is named by its own
          Founder,    \* BOOTSTRAP_ADMIN_EMAIL, or None
          Purposes,   \* bound: the purposes a request for a link may name
          None,       \* no row
          Menu,       \* bound: the mixes of requests there may be
          MaxDeaths   \* bound: requests that die

ASSUME PeopleAssumption == Founder \in Person \union {None}
ASSUME PurposesAssumption == Purposes \subseteq {"admin", "evaluator", "speaker"}
ASSUME NoneAssumption == /\ None \notin Call \union Person
                         /\ None \notin {"live", "used", "expired"}
                         /\ None \notin {"admin", "evaluator", "speaker"}
ASSUME MenuAssumption == Menu \subseteq [Call -> SUBSET STRING]
ASSUME DeathsAssumption == MaxDeaths \in Nat

VARIABLES
  users,      \* people with a users row
  role,       \* event_memberships: the role, or None
  link,       \* magic_links: of the link a request issued, None without one
  sessions,   \* requests that inserted their auth_sessions row
  mailed,     \* links whose mail is in the outbox
  \* of a request
  req, pc,
  purpose,    \* purpose of the link it issues
  seen,       \* membership it has read
  fresh,      \* isBootstrapCreate
  answer,
  \* configuration
  allowlist,  \* MAGIC_LINK_ALLOWLIST, {} when not set
  \* history
  met,        \* pairs of requests that were in progress together
  deaths,
  demoter,    \* the request that last made somebody a speaker
  overwritten \* a provisioning has replaced a membership made meanwhile

tables == <<users, role, link, sessions, mailed>>
locals == <<purpose, seen, fresh>>
others == <<allowlist, met, deaths, demoter, overwritten>>

Role == {"admin", "evaluator", "speaker"}
MayReview == {"admin", "evaluator"}

Running(c) == pc[c] \notin {"idle", "done"}

AdminExists == \E u \in Person : role[u] = "admin"

\* the request whose op issues links for u: its subject
Subject(c) == req[c].who

Goto(c, l) == pc' = [pc EXCEPT ![c] = l]

Reply(c, a) == Goto(c, "done") /\ answer' = [answer EXCEPT ![c] = a]

\* The bound on requests, and the part that each begins with
Listed(c, op) ==
  /\ pc[c] = "idle"
  /\ \E m \in Menu : /\ op \in m[c]
                     /\ \A d \in Call : pc[d] # "idle" => req[d].op \in m[d]

Begin(c, r, first) ==
  /\ req' = [req EXCEPT ![c] = r]
  /\ Goto(c, first)
  /\ met' = met \union {{c, d} : d \in {x \in Call : Running(x)}}
  /\ UNCHANGED <<tables, locals, answer, allowlist, deaths, demoter, overwritten>>

-----------------------------------------------------------------------------
(* requestMagicLink *)

\* With the event's id or without
AskForLink(c) ==
  /\ Listed(c, "signin")
  /\ \E u \in Person, p \in Purposes \union {None}, h \in BOOLEAN :
       Begin(c, [op |-> "signin", who |-> u, want |-> p, here |-> h], "find")

\* A user who is not listed must be a member; one without a row is created if
\* listed or, without a list, as the first administrator.  All others get the
\* same answer and nothing else.
FindUser(c) ==
  LET u == Subject(c) IN
  /\ pc[c] = "find"
  /\ \/ /\ u \in users
        /\ Goto(c, IF allowlist = {} \/ u \in allowlist THEN "purpose" ELSE "listed")
        /\ UNCHANGED answer
     \/ /\ u \notin users /\ allowlist # {} /\ u \in allowlist
        /\ Goto(c, "create")
        /\ UNCHANGED answer
     \/ /\ u \notin users /\ allowlist = {} /\ req[c].want = "admin" /\ u = Founder
        /\ Goto(c, "founder")
        /\ UNCHANGED answer
     \/ /\ u \notin users
        /\ u \notin allowlist
        /\ allowlist = {} => ~(req[c].want = "admin" /\ u = Founder)
        /\ Reply(c, "sent")
  /\ UNCHANGED <<tables, locals, req, others>>

\* programReentry
CheckMember(c) ==
  /\ pc[c] = "listed"
  /\ IF role[Subject(c)] # None THEN Goto(c, "purpose") /\ UNCHANGED answer
                                ELSE Reply(c, "sent")
  /\ UNCHANGED <<tables, locals, req, others>>

\* isAllowedBootstrap: countMembershipsByRole
CheckFounder(c) ==
  /\ pc[c] = "founder"
  /\ IF AdminExists THEN Reply(c, "sent") ELSE Goto(c, "create") /\ UNCHANGED answer
  /\ UNCHANGED <<tables, locals, req, others>>

\* createUser looks, then inserts: a row that came meanwhile is returned, or
\* breaks the insert when it comes between the two.
CreateUser(c) ==
  /\ pc[c] = "create"
  /\ \/ /\ users' = users \union {Subject(c)}
        /\ IF req[c].op = "provision"
           THEN Goto(c, "member") /\ UNCHANGED fresh
           ELSE Goto(c, "purpose") /\ fresh' = [fresh EXCEPT ![c] = TRUE]
        /\ UNCHANGED answer
     \/ /\ Subject(c) \in users
        /\ Reply(c, "error")
        /\ UNCHANGED <<users, fresh>>
  /\ UNCHANGED <<role, link, sessions, mailed, purpose, seen, req, others>>

\* A purpose that was not given is the role, and never grants one.
ResolvePurpose(c) ==
  LET r == role[Subject(c)] IN
  /\ pc[c] = "purpose"
  /\ purpose' = [purpose EXCEPT ![c] = IF req[c].want # None THEN req[c].want
                                       ELSE IF r # None THEN r ELSE "speaker"]
  /\ Goto(c, "insert")
  /\ UNCHANGED <<tables, seen, fresh, req, answer, others>>

\* insertMagicLink, here and in issueProgramInviteMagicLink
InsertLink(c) ==
  /\ pc[c] = "insert"
  /\ link' = [link EXCEPT ![c] = "live"]
  /\ Goto(c, "supersede")
  /\ UNCHANGED <<users, role, sessions, mailed, locals, req, answer, others>>

\* An invitation's link is bound to the event.
Bound(c) == req[c].op = "signin" => req[c].here

SamePurpose(c, d) == /\ link[c] # None /\ link[d] # None
                     /\ Subject(c) = Subject(d) /\ purpose[c] = purpose[d]
                     /\ Bound(c) = Bound(d)

Slip_SparesNone(c) == {d \in Call : SamePurpose(c, d)}
OthersOf(c) == {d \in Call : SamePurpose(c, d)} \ {c}

\* invalidateOtherUnusedMagicLinks
Supersede(c) ==
  /\ pc[c] = "supersede"
  /\ link' = [d \in Call |-> IF d \in OthersOf(c) THEN "used" ELSE link[d]]
  /\ Goto(c, IF req[c].op = "signin" /\ fresh[c] /\ req[c].want = "admin"
             THEN "regrant" ELSE "mail")
  /\ UNCHANGED <<users, role, sessions, mailed, locals, req, answer, others>>

\* isAllowedBootstrap again, also for a founder who came in by the list
Regrant(c) ==
  /\ pc[c] = "regrant"
  /\ Goto(c, IF Subject(c) = Founder /\ ~AdminExists THEN "read" ELSE "mail")
  /\ UNCHANGED <<tables, locals, req, answer, others>>

\* encrypt, insertOutbox and kick the queue; a failure is swallowed
Mail(c) ==
  /\ pc[c] = "mail"
  /\ mailed' \in {mailed, mailed \union {c}}
  /\ Reply(c, IF req[c].op = "signin" THEN "sent" ELSE "ok")
  /\ UNCHANGED <<users, role, link, sessions, locals, req, others>>

-----------------------------------------------------------------------------
(* upsertMembership: look, then update by id or insert under the unique key *)

Granted(c) == IF req[c].op = "signin" THEN "admin" ELSE "speaker"
AfterGrant(c) == IF req[c].op = "signin" THEN "mail" ELSE "insert"

ReadForUpsert(c) ==
  /\ pc[c] = "read"
  /\ seen' = [seen EXCEPT ![c] = role[Subject(c)]]
  /\ Goto(c, "write")
  /\ UNCHANGED <<tables, purpose, fresh, req, answer, others>>

Upsert(c) ==
  LET u == Subject(c) IN
  /\ pc[c] = "write"
  /\ seen' = [seen EXCEPT ![c] = None]
  /\ \/ /\ seen[c] # None \/ role[u] = None
        /\ role' = [role EXCEPT ![u] = Granted(c)]
        /\ purpose' = [purpose EXCEPT ![c] = Granted(c)]
        /\ Goto(c, AfterGrant(c))
        /\ overwritten' = (overwritten \/ seen[c] # None)
        /\ demoter' = IF Granted(c) = "speaker" THEN [demoter EXCEPT ![u] = c] ELSE demoter
        /\ UNCHANGED answer
     \/ /\ seen[c] = None /\ role[u] # None
        /\ Reply(c, "error")
        /\ UNCHANGED <<role, purpose, demoter, overwritten>>
  /\ UNCHANGED <<users, link, sessions, mailed, fresh, req, allowlist, met, deaths>>

-----------------------------------------------------------------------------
(* What materializeAccept and createDirectSession do for one speaker: a     *)
(* user, a membership "only when no row; never demote", an invitation.      *)

Provision(c) ==
  /\ Listed(c, "provision")
  /\ \E u \in Person :
       Begin(c, [op |-> "provision", who |-> u], IF u \in users THEN "member" ELSE "create")

-----------------------------------------------------------------------------
(* createInvite, by an administrator *)

Invite(c) ==
  /\ Listed(c, "invite") /\ AdminExists
  /\ \E u \in Person, r \in Role :
       Begin(c, [op |-> "invite", who |-> u, want |-> r], "account")

\* findOrCreateUserByEmail
EnsureUser(c) ==
  /\ pc[c] = "account"
  /\ users' = users \union {Subject(c)}
  /\ Goto(c, "member")
  /\ UNCHANGED <<role, link, sessions, mailed, locals, req, answer, others>>

\* insertMembershipIfAbsent, whose insert leaves a row alone; and the look of
\* a provisioning, which goes on to upsert when there is none.
EnsureMember(c) ==
  LET u == Subject(c) IN
  /\ pc[c] = "member"
  /\ \/ /\ req[c].op = "invite"
        /\ role' = IF role[u] = None THEN [role EXCEPT ![u] = req[c].want] ELSE role
        /\ demoter' = IF role[u] = None /\ req[c].want = "speaker"
                      THEN [demoter EXCEPT ![u] = c] ELSE demoter
        /\ Goto(c, "reread")
        /\ UNCHANGED purpose
     \/ /\ req[c].op = "provision"
        /\ Goto(c, IF role[u] = None THEN "read" ELSE "insert")
        /\ purpose' = [purpose EXCEPT ![c] = "speaker"]
        /\ UNCHANGED <<role, demoter>>
  /\ UNCHANGED <<users, link, sessions, mailed, seen, fresh, req, answer, allowlist,
                 met, deaths, overwritten>>

RereadMember(c) ==
  /\ pc[c] = "reread"
  /\ IF role[Subject(c)] # req[c].want
     THEN Reply(c, "conflict") /\ UNCHANGED purpose
     ELSE /\ purpose' = [purpose EXCEPT ![c] = req[c].want]
          /\ Goto(c, "insert")
          /\ UNCHANGED answer
  /\ UNCHANGED <<tables, seen, fresh, req, others>>

-----------------------------------------------------------------------------
(* setMemberRole, by an administrator *)

ChangeRole(c) ==
  /\ Listed(c, "role") /\ AdminExists
  /\ \E u \in Person, r \in Role :
       Begin(c, [op |-> "role", who |-> u, want |-> r], "lookup")

\* A reviewer who is to be a speaker must have no review pending; the step at
\* "guard" belongs to Review, which owns the assignments.
LookupMember(c) ==
  LET r == role[Subject(c)] IN
  /\ pc[c] = "lookup" /\ req[c].op = "role"
  /\ seen' = [seen EXCEPT ![c] = r]
  /\ IF r = None THEN Reply(c, "missing")
     ELSE IF r = req[c].want THEN Reply(c, "ok")
     ELSE /\ Goto(c, IF req[c].want = "speaker" THEN "guard" ELSE "update")
          /\ UNCHANGED answer
  /\ UNCHANGED <<tables, purpose, fresh, req, others>>

Slip_LastOneToo(c) == role[Subject(c)] = seen[c]

\* the WHERE clause of tryUpdateMemberRole
MayChange(c) ==
  /\ role[Subject(c)] = seen[c]
  /\ seen[c] = "admin" => \E u \in Person \ {Subject(c)} : role[u] = "admin"

UpdateRole(c) ==
  /\ pc[c] = "update"
  /\ IF MayChange(c)
     THEN /\ role' = [role EXCEPT ![Subject(c)] = req[c].want]
          /\ demoter' = IF req[c].want = "speaker"
                        THEN [demoter EXCEPT ![Subject(c)] = c] ELSE demoter
          /\ Reply(c, "ok")
     ELSE Reply(c, "conflict") /\ UNCHANGED <<role, demoter>>
  /\ UNCHANGED <<users, link, sessions, mailed, locals, req, allowlist, met, deaths,
                 overwritten>>

-----------------------------------------------------------------------------
(* exchangeMagicLink, by whoever has the mail *)

Redeem(c) ==
  /\ Listed(c, "redeem")
  /\ \E d \in mailed : Begin(c, [op |-> "redeem", via |-> d], "lookup")

LookupLink(c) ==
  LET l == link[req[c].via] IN
  /\ pc[c] = "lookup" /\ req[c].op = "redeem"
  /\ IF l = "live" THEN Goto(c, "consume") /\ UNCHANGED answer ELSE Reply(c, l)
  /\ UNCHANGED <<tables, locals, req, others>>

Slip_ReadOnly(d) == TRUE
Unused(d) == link[d] # "used"

\* consumeMagicLink: a compare-and-set on used_at alone
Consume(c) ==
  LET d == req[c].via IN
  /\ pc[c] = "consume"
  /\ IF Unused(d)
     THEN /\ link' = [link EXCEPT ![d] = "used"]
          /\ Goto(c, "session")
          /\ UNCHANGED answer
     ELSE Reply(c, "used") /\ UNCHANGED link
  /\ UNCHANGED <<users, role, sessions, mailed, locals, req, others>>

InsertSession(c) ==
  /\ pc[c] = "session"
  /\ sessions' = sessions \union {c}
  /\ Reply(c, "ok")
  /\ UNCHANGED <<users, role, link, mailed, locals, req, others>>

\* logoutSession deletes the row; the request that made it is not forgotten.

\* MAGIC_LINK_TTL_MINUTES have passed.
Expire(d) ==
  /\ link[d] = "live"
  /\ link' = [link EXCEPT ![d] = "expired"]
  /\ UNCHANGED <<users, role, sessions, mailed, locals, req, pc, answer, others>>

-----------------------------------------------------------------------------
Die(c) ==
  /\ Running(c)
  /\ deaths < MaxDeaths
  /\ deaths' = deaths + 1
  /\ Reply(c, "lost")
  /\ UNCHANGED <<tables, locals, req, allowlist, met, demoter, overwritten>>

AccountBegin(c) == AskForLink(c) \/ Provision(c) \/ Invite(c) \/ ChangeRole(c) \/ Redeem(c)

AccountStep(c) ==
  \/ FindUser(c) \/ CheckMember(c) \/ CheckFounder(c) \/ CreateUser(c)
  \/ ResolvePurpose(c) \/ InsertLink(c) \/ Supersede(c) \/ Regrant(c) \/ Mail(c)
  \/ ReadForUpsert(c) \/ Upsert(c)
  \/ EnsureUser(c) \/ EnsureMember(c) \/ RereadMember(c)
  \/ LookupMember(c) \/ UpdateRole(c)
  \/ LookupLink(c) \/ Consume(c) \/ InsertSession(c)

\* A fresh installation, or an event with its members; the creator of an event
\* is made administrator with it.
AccountInit ==
  /\ role \in [Person -> Role \union {None}]
  /\ AdminExists \/ role = [u \in Person |-> None]
  /\ users \in SUBSET Person
  /\ \A u \in Person : role[u] # None => u \in users
  /\ link     = [c \in Call |-> None]
  /\ sessions = {} /\ mailed = {}
  /\ req      = [c \in Call |-> None]
  /\ pc       = [c \in Call |-> "idle"]
  /\ purpose  = [c \in Call |-> None]
  /\ seen     = [c \in Call |-> None]
  /\ fresh    = [c \in Call |-> FALSE]
  /\ answer   = [c \in Call |-> None]
  /\ allowlist \in SUBSET Person
  /\ met = {} /\ deaths = 0 /\ overwritten = FALSE
  /\ demoter  = [u \in Person |-> None]

-----------------------------------------------------------------------------
(* What must hold *)

\* A link opens at most one session (exchangeMagicLink: "single-use"), however
\* many redeem it at once, whatever dies, expires or is superseded meanwhile.
OneSessionPerLink ==
  \A c, d \in sessions : req[c].via = req[d].via => c = d

Issuers(u, p, h) ==
  {c \in Call : link[c] # None /\ Subject(c) = u /\ purpose[c] = p /\ Bound(c) = h}

Settled(cs) ==
  /\ \A c \in cs : pc[c] = "done" /\ answer[c] # "lost"
  /\ \A c, d \in cs : {c, d} \notin met
  /\ \A d \in Call : pc[d] # "idle" /\ req[d].op = "redeem" => req[d].via \notin cs

\* Of the links issued to somebody for one purpose exactly one can be used,
\* as long as nobody has redeemed any: the newest.  Two requests in progress
\* together may each invalidate the other's link, and leave none.
LastLinkWorks ==
  \A u \in Person, p \in Role, h \in BOOLEAN :
    LET cs == Issuers(u, p, h) IN
    cs # {} /\ Settled(cs) => Cardinality({c \in cs : Unused(c)}) = 1

\* An event that has an administrator keeps one (tryUpdateMemberRole), until
\* a provisioning replaces a membership made since it looked.
AdminRemains ==
  [][AdminExists /\ ~overwritten' => AdminExists']_<<role, overwritten>>
=============================================================================
