--------------------------- MODULE SubmissionCap ---------------------------
(***************************************************************************)
(* How many proposals a call for papers takes (createSubmission of         *)
(* modules/publicCfp): so many from one submitter, so many of a form       *)
(* version.  The cap per submitter is kept by numbered guard rows, one     *)
(* inserted in the same batch as each submission; the total limit is only  *)
(* counted before.                                                         *)
(*                                                                         *)
(* Submissions made while the form had no cap per submitter have no guard. *)
(* They are counted as long as their status is "submitted", and a decision *)
(* changes that; some may have been decided before the first request.  One *)
(* request makes one submission and names it.                              *)
(***************************************************************************)
EXTENDS Integers, FiniteSets

CONSTANTS Call, Email,
          EmailOf,      \* the primary speaker each request names
          Unguarded,    \* submissions from before the cap
          UnguardedBy,  \* their primary speakers
          Cap,          \* perSubmitterLimit
          Total,        \* submissionLimit
          Retries,      \* the 25 of maxAttempts
          MaxDeaths,    \* bound: requests that die
          None

ASSUME EmailAssumption == /\ EmailOf \in [Call -> Email]
                          /\ UnguardedBy \in [Unguarded -> Email]
                          /\ Call \intersect Unguarded = {}
ASSUME LimitAssumption == /\ Cap \in Nat \ {0} /\ Total \in Nat
                          /\ Retries \in Nat /\ MaxDeaths \in Nat
ASSUME FiniteAssumption == IsFiniteSet(Call) /\ IsFiniteSet(Unguarded)
ASSUME NoneAssumption == /\ None \notin Call
                         /\ None \notin {"submitted", "decided"}
                         /\ None \notin {"ok", "capped", "full", "lost"}

Slot == 1..(Cap + Cardinality(Call) + Cardinality(Unguarded))

VARIABLES
  status,     \* submissions: None, "submitted" or "decided"
  speakers,   \* submissions whose submission_speakers rows are there
  guard,      \* idempotency_keys per-submitter:<form>:<email>:<n>
  pc,
  rows,       \* listSubmittedIdsByPrimaryEmailForVersions, or None
  hashes,     \* listSubmissionGuardHashes, or None
  slot,       \* the next guard to claim
  attempts,
  answer,     \* "ok", "capped", "full", "lost"
  \* history
  shrunk,     \* submitters whose unguarded submissions were decided meanwhile
  deaths

histVars == <<shrunk, deaths>>
vars == <<status, speakers, guard, pc, rows, hashes, slot, attempts, answer, histVars>>

Me(c) == EmailOf[c]
By(x) == IF x \in Call THEN EmailOf[x] ELSE UnguardedBy[x]
Submissions == Call \union Unguarded

Init ==
  /\ status \in [Submissions -> {None, "submitted", "decided"}]
  /\ \A c \in Call : status[c] = None
  /\ speakers = Unguarded
  /\ guard    = [e \in Email |-> [n \in Slot |-> None]]
  /\ pc       = [c \in Call |-> "total"]
  /\ rows     = [c \in Call |-> None]
  /\ hashes   = [c \in Call |-> None]
  /\ slot     = [c \in Call |-> 0]
  /\ attempts = [c \in Call |-> 0]
  /\ answer   = [c \in Call |-> None]
  /\ shrunk   = {}
  /\ deaths   = 0

Goto(c, l) == pc' = [pc EXCEPT ![c] = l]

Reply(c, a) ==
  /\ Goto(c, "done")
  /\ answer' = [answer EXCEPT ![c] = a]

-----------------------------------------------------------------------------
\* countSubmittedForFormVersion
Full == Cardinality({x \in Submissions : status[x] = "submitted"}) >= Total

CheckTotal(c) ==
  /\ pc[c] = "total"
  /\ IF Full THEN Reply(c, "full") ELSE Goto(c, "count") /\ UNCHANGED answer
  /\ UNCHANGED <<status, speakers, guard, rows, hashes, slot, attempts, histVars>>

\* effectivePerSubmitterCount runs two queries side by side.  The first joins
\* the speakers, so it misses a submission until those are written.
CountRows(c) ==
  /\ pc[c] \in {"count", "recount"} /\ rows[c] = None
  /\ rows' = [rows EXCEPT ![c] = {x \in Submissions : /\ status[x] = "submitted"
                                                      /\ x \in speakers
                                                      /\ By(x) = Me(c)}]
  /\ UNCHANGED <<status, speakers, guard, pc, hashes, slot, attempts, answer, histVars>>

CountGuards(c) ==
  /\ pc[c] \in {"count", "recount"} /\ hashes[c] = None
  /\ hashes' = [hashes EXCEPT ![c] = {guard[Me(c)][n] : n \in Slot} \ {None}]
  /\ UNCHANGED <<status, speakers, guard, pc, rows, slot, attempts, answer, histVars>>

\* A submission with a guard is among the rows as well, once its speakers are.
Effective(c) == Cardinality(hashes[c]) + Cardinality(rows[c] \ hashes[c])

\* After a lost claim the next number is tried that can be free.
NextSlot(c, n) == IF pc[c] = "recount" /\ slot[c] + 1 > n + 1 THEN slot[c] + 1
                  ELSE n + 1

Slip_OneAttempt(c) == attempts[c] >= 1
Exhausted(c) == pc[c] = "recount" /\ attempts[c] >= Cap + Retries

Compare(c) ==
  /\ pc[c] \in {"count", "recount"} /\ rows[c] # None /\ hashes[c] # None
  /\ rows' = [rows EXCEPT ![c] = None]
  /\ hashes' = [hashes EXCEPT ![c] = None]
  /\ IF Effective(c) >= Cap \/ Exhausted(c)
     THEN Reply(c, "capped") /\ UNCHANGED slot
     ELSE /\ slot' = [slot EXCEPT ![c] = NextSlot(c, Effective(c))]
          /\ Goto(c, "claim")
          /\ UNCHANGED answer
  /\ UNCHANGED <<status, speakers, guard, attempts, histVars>>

\* insertSubmissionWithGuard: guard and submission in one batch, aborted by
\* the unique key of the guard
Slip_NoUnique(c) == TRUE
GuardFree(c) == guard[Me(c)][slot[c]] = None

Claim(c) ==
  /\ pc[c] = "claim"
  /\ slot[c] \in Slot
  /\ IF GuardFree(c)
     THEN /\ guard' = [guard EXCEPT ![Me(c)][slot[c]] = c]
          /\ status' = [status EXCEPT ![c] = "submitted"]
          /\ Goto(c, "speakers")
          /\ UNCHANGED attempts
     ELSE /\ attempts' = [attempts EXCEPT ![c] = @ + 1]
          /\ Goto(c, "recount")
          /\ UNCHANGED <<guard, status>>
  /\ UNCHANGED <<speakers, rows, hashes, slot, answer, histVars>>

\* insertAnswers, insertSpeakers and audit; the confirmation is in Intake.
WriteSpeakers(c) ==
  /\ pc[c] = "speakers"
  /\ speakers' = speakers \union {c}
  /\ Reply(c, "ok")
  /\ UNCHANGED <<status, guard, rows, hashes, slot, attempts, histVars>>

-----------------------------------------------------------------------------
\* Decision.Record on a submission
Decide(x) ==
  /\ status[x] = "submitted"
  /\ status' = [status EXCEPT ![x] = "decided"]
  /\ shrunk' = IF x \in Unguarded THEN shrunk \union {By(x)} ELSE shrunk
  /\ UNCHANGED <<speakers, guard, pc, rows, hashes, slot, attempts, answer, deaths>>

Die(c) ==
  /\ pc[c] \notin {"total", "done"}
  /\ deaths < MaxDeaths
  /\ deaths' = deaths + 1
  /\ Reply(c, "lost")
  /\ rows' = [rows EXCEPT ![c] = None]
  /\ hashes' = [hashes EXCEPT ![c] = None]
  /\ UNCHANGED <<status, speakers, guard, slot, attempts, shrunk>>

Step(c) == \/ CheckTotal(c) \/ CountRows(c) \/ CountGuards(c) \/ Compare(c)
           \/ Claim(c) \/ WriteSpeakers(c)

Next == \/ \E c \in Call : Step(c) \/ Die(c)
        \/ \E x \in Submissions : Decide(x)

Spec == Init /\ [][Next]_vars

-----------------------------------------------------------------------------
(* What must hold *)

Admitted(e) == {c \in Call : status[c] # None /\ Me(c) = e}
Waiting(e)  == {x \in Unguarded : UnguardedBy[x] = e /\ status[x] = "submitted"}

\* The cap per submitter, over those with a guard and the undecided ones
\* without, whatever is decided or dies meanwhile and in whatever order the
\* two counts of a request are made.  The code keeps it as long as no
\* submission without a guard is decided under the requests.
CapKept ==
  \A e \in Email \ shrunk :
    Admitted(e) # {} => Cardinality(Admitted(e) \union Waiting(e)) <= Cap

\* Nobody is turned away while a place is free: a submitter who is told that
\* the cap is reached, and none of whose unguarded submissions was decided
\* meanwhile, has as many submissions.
CappedOnlyWhenFull ==
  \A c \in Call : answer[c] = "capped" /\ Me(c) \notin shrunk =>
    Cardinality(Admitted(Me(c)) \union Waiting(Me(c))) >= Cap
=============================================================================
