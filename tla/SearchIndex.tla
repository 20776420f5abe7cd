---------------------------- MODULE SearchIndex ----------------------------
(***************************************************************************)
(* The search index of one event: search_index_state and search_documents  *)
(* (modules/search/store.ts), the commands that announce their writes      *)
(* (invalidateSearchIndex) and the drains that rebuild it (reindexEvent,   *)
(* drainSearchIndexFromEnv in index.ts).                                   *)
(*                                                                         *)
(* A rebuild leases the state row, reads the tables one query after the    *)
(* other, and replaces the documents in one batch whose every statement    *)
(* asks whether the row still carries the rebuild's token.  The statements *)
(* handed to that batch are results of db.run(), which the schedule's      *)
(* store calls unfit for a batch because they execute at once              *)
(* (schedule/store.ts:499-502): both are modelled, the transaction and the *)
(* statements sent on their own, which the database takes in any order.    *)
(* Events share nothing, so one is enough.  An entity is a row the         *)
(* documents are made from; of its contents only a version is kept.        *)
(***************************************************************************)
EXTENDS Integers, FiniteSets

CONSTANTS Drain,        \* concurrent calls of reindexEvent
          Writer,       \* commands that change what is indexed
          Entity,       \* rows the documents are made from
          None,         \* SQL NULL
          Gone,         \* the token of a rebuild that is over
          MaxWrites,    \* bound: writes of commands
          MaxReindex,   \* bound: reindexings an administrator asks for
          MaxForced,    \* bound: rebuilds forced on an index that was fresh
          MaxLost,      \* bound: writes that are never announced
          MaxCrashes,   \* bound: rebuilds that die
          MaxOverruns   \* bound: leases that run out under a rebuild

ASSUME NoneAssumption == None \notin Drain \union Entity /\ Gone \notin Drain
ASSUME TokenAssumption == Gone # None
ASSUME BoundsAssumption ==
  {MaxWrites, MaxReindex, MaxForced, MaxLost, MaxCrashes, MaxOverruns}
     \subseteq Nat

VARIABLES
  source,       \* version of each entity in its own table
  index,        \* version its documents show; 0 when it has none
  \* search_index_state
  requested,    \* requested_generation
  built,        \* built_generation
  lease,        \* drain whose token is in lease_token, Gone, or None
  live,         \* lease_until is in the future
  \* locals of a rebuild
  pc,
  forced,       \* invalidated the index itself
  gen,          \* generation read with the lease
  left,         \* entities still to be read
  docs,         \* versions read
  unplaced,     \* entities whose insert is still to run on its own
  pending,      \* of "delete" and "complete", those still to run
  \* locals of a command
  busy,         \* entity written and not yet announced, or None
  \* history
  lost,         \* entities whose last write was never announced
  shown,        \* version its documents showed last
  spoilt,       \* entities a batch taken apart has not put back
  writes, reindexed, rebuilt, losses, crashes, overruns

stateVars == <<requested, built, lease, live>>
localVars == <<forced, gen, left, docs, unplaced, pending>>
indexVars == <<index, shown, spoilt>>
countVars == <<writes, reindexed, rebuilt, losses, crashes, overruns>>
vars == <<source, index, shown, spoilt, requested, built, lease, live, pc,
          forced, gen, left, docs, unplaced, pending, busy, lost, writes,
          reindexed, rebuilt, losses, crashes, overruns>>

Label == {"idle", "check", "force", "acquire", "state", "project", "commit",
          "apart"}

-----------------------------------------------------------------------------
(* Tests.  An operator named Slip_... is not used by the specification: it  *)
(* is a plausible mistake in the one after it. *)

\* isStale
Stale == built < requested

\* lease_until IS NULL OR lease_until < now
Slip_FreeWhenReleased == lease = None
Free == ~live

\* EXISTS (... lease_token = token), in every statement of the batch
Slip_Unfenced(d) == TRUE
Fenced(d) == lease = d

\* the generation a rebuild makes good
Slip_LatestGeneration(d) == requested
Achieved(d) == gen[d]

\* AND built_generation < G
Advances(d) == built < Achieved(d)

\* lease_until after the batch has cleared lease_token
Cleared == FALSE

-----------------------------------------------------------------------------
\* Entities exist before anything is indexed; the sweep has given the event
\* its state row.
Init ==
  /\ source = [e \in Entity |-> 1]
  /\ index  = [e \in Entity |-> 0]
  /\ requested = 1 /\ built = -1 /\ lease = None /\ live = FALSE
  /\ pc     = [d \in Drain |-> "idle"]
  /\ forced = [d \in Drain |-> FALSE]
  /\ gen    = [d \in Drain |-> 0]
  /\ left   = [d \in Drain |-> {}]
  /\ docs   = [d \in Drain |-> [e \in Entity |-> 0]]
  /\ unplaced = [d \in Drain |-> {}]
  /\ pending  = [d \in Drain |-> {}]
  /\ busy   = [w \in Writer |-> None]
  /\ lost = {} /\ spoilt = {}
  /\ shown  = [e \in Entity |-> 0]
  /\ writes = 0 /\ reindexed = 0 /\ rebuilt = 0
  /\ losses = 0 /\ crashes = 0 /\ overruns = 0

Goto(d, l) == pc' = [pc EXCEPT ![d] = l]

\* A rebuild is over; whatever lease it leaves behind is nobody's.
Leave(d) ==
  /\ Goto(d, "idle")
  /\ forced' = [forced EXCEPT ![d] = FALSE]
  /\ gen'    = [gen EXCEPT ![d] = 0]
  /\ left'   = [left EXCEPT ![d] = {}]
  /\ docs'   = [docs EXCEPT ![d] = [e \in Entity |-> 0]]
  /\ unplaced' = [unplaced EXCEPT ![d] = {}]
  /\ pending'  = [pending EXCEPT ![d] = {}]

Dropped(d) == IF lease = d THEN Gone ELSE lease

-----------------------------------------------------------------------------
(* Commands *)

Write(w, e) ==
  /\ busy[w] = None
  /\ writes < MaxWrites
  /\ writes' = writes + 1
  /\ source' = [source EXCEPT ![e] = @ + 1]
  /\ busy'   = [busy EXCEPT ![w] = e]
  /\ UNCHANGED <<indexVars, stateVars, pc, localVars, lost, reindexed, rebuilt,
                 losses, crashes, overruns>>

\* invalidateIndex: one generation more covers everything written so far
Announce(w) ==
  /\ busy[w] # None
  /\ requested' = requested + 1
  /\ busy' = [busy EXCEPT ![w] = None]
  /\ lost' = {}
  /\ UNCHANGED <<source, indexVars, built, lease, live, pc, localVars, countVars>>

\* The command dies before invalidateSearchIndex, or that call fails and the
\* failure is swallowed.
FailToAnnounce(w) ==
  /\ busy[w] # None
  /\ losses < MaxLost
  /\ losses' = losses + 1
  /\ lost' = lost \union {busy[w]}
  /\ busy' = [busy EXCEPT ![w] = None]
  /\ UNCHANGED <<source, indexVars, stateVars, pc, localVars, writes, reindexed,
                 rebuilt, crashes, overruns>>

-----------------------------------------------------------------------------
(* Rebuilds *)

\* Rebuilds that may still find the index fresh and then force one.
Hesitant == {d \in Drain : pc[d] \in {"check", "force"} /\ ~forced[d]}

\* drainSearchIndexFromEnv lists the events that are stale.  One that runs
\* alone finds the index as stale as the list said.
Sweep(d) ==
  /\ pc[d] = "idle"
  /\ Stale
  /\ \/ \A x \in Drain : pc[x] = "idle"
     \/ rebuilt + Cardinality(Hesitant) < MaxForced
  /\ Goto(d, "check")
  /\ UNCHANGED <<source, indexVars, stateVars, localVars, busy, lost, countVars>>

\* POST /:eventId/search/reindex
Reindex(d) ==
  /\ pc[d] = "idle"
  /\ reindexed < MaxReindex
  /\ rebuilt + Cardinality(Hesitant) < MaxForced
  /\ reindexed' = reindexed + 1
  /\ Goto(d, "check")
  /\ UNCHANGED <<source, indexVars, stateVars, localVars, busy, lost, writes,
                 rebuilt, losses, crashes, overruns>>

\* isStale.  The first time it says no, reindexEvent invalidates the index
\* and asks again; the second time it leaves.
Check(d) ==
  /\ pc[d] = "check"
  /\ \/ Stale /\ Goto(d, "acquire") /\ UNCHANGED localVars
     \/ ~Stale /\ ~forced[d] /\ Goto(d, "force") /\ UNCHANGED localVars
     \/ ~Stale /\ forced[d] /\ Leave(d)
  /\ UNCHANGED <<source, indexVars, stateVars, busy, lost, countVars>>

Invalidate(d) ==
  /\ pc[d] = "force"
  /\ requested' = requested + 1
  /\ lost' = {}
  /\ rebuilt' = rebuilt + 1
  /\ forced' = [forced EXCEPT ![d] = TRUE]
  /\ Goto(d, "check")
  /\ UNCHANGED <<source, indexVars, built, lease, live, gen, left, docs,
                 unplaced, pending, busy,
                 writes, reindexed, losses, crashes, overruns>>

\* UPDATE ... SET lease_token, lease_until WHERE the lease is free
Acquire(d) ==
  /\ pc[d] = "acquire"
  /\ IF Free THEN lease' = d /\ live' = TRUE ELSE UNCHANGED <<lease, live>>
  /\ Goto(d, "state")
  /\ UNCHANGED <<source, indexVars, requested, built, localVars, busy, lost,
                 countVars>>

\* The row is read again: somebody else's token means "skipped", one's own
\* comes with the generation to build.
ReadState(d) ==
  /\ pc[d] = "state"
  /\ IF Fenced(d)
     THEN /\ gen'  = [gen EXCEPT ![d] = requested]
          /\ left' = [left EXCEPT ![d] = Entity]
          /\ Goto(d, "project")
          /\ UNCHANGED <<forced, docs, unplaced, pending>>
     ELSE Leave(d)
  /\ UNCHANGED <<source, indexVars, stateVars, busy, lost, countVars>>

\* projectEventDocuments: query after query
Read(d, e) ==
  /\ pc[d] = "project"
  /\ e \in left[d]
  /\ docs' = [docs EXCEPT ![d] = [@ EXCEPT ![e] = source[e]]]
  /\ left' = [left EXCEPT ![d] = @ \ {e}]
  /\ UNCHANGED <<source, indexVars, stateVars, pc, forced, gen, unplaced,
                 pending, busy, lost, countVars>>

Projected(d) ==
  /\ pc[d] = "project"
  /\ left[d] = {}
  /\ Goto(d, "commit")
  /\ UNCHANGED <<source, indexVars, stateVars, localVars, busy, lost, countVars>>

\* The version a reader is shown, remembered when the documents go.
ShownAfter == [e \in Entity |-> IF index'[e] = 0 THEN shown[e] ELSE index'[e]]

\* The batch as one transaction.  The completing statement releases the
\* lease only when it also advances the generation.
Commit(d) ==
  /\ pc[d] = "commit"
  /\ IF Fenced(d) THEN index' = docs[d] /\ spoilt' = {}
                  ELSE UNCHANGED <<index, spoilt>>
  /\ shown' = ShownAfter
  /\ IF Fenced(d) /\ Advances(d)
     THEN built' = Achieved(d) /\ lease' = None /\ live' = Cleared
     ELSE lease' = Dropped(d) /\ UNCHANGED <<built, live>>
  /\ Leave(d)
  /\ UNCHANGED <<source, requested, busy, lost, countVars>>

\* Or every statement sent on its own, none waiting for another.
TakeApart(d) ==
  /\ pc[d] = "commit"
  /\ unplaced' = [unplaced EXCEPT ![d] = Entity]
  /\ pending'  = [pending EXCEPT ![d] = {"delete", "complete"}]
  /\ Goto(d, "apart")
  /\ UNCHANGED <<source, indexVars, stateVars, forced, gen, left, docs, busy,
                 lost, countVars>>

Delete(d) ==
  /\ pc[d] = "apart" /\ "delete" \in pending[d]
  /\ pending' = [pending EXCEPT ![d] = @ \ {"delete"}]
  /\ IF Fenced(d) THEN index' = [e \in Entity |-> 0] /\ spoilt' = Entity
                  ELSE UNCHANGED <<index, spoilt>>
  /\ UNCHANGED <<source, shown, stateVars, pc, forced, gen, left, docs,
                 unplaced, busy, lost, countVars>>

\* The key of a document is its entity: an insert over one that is there
\* fails.  One that ran before the delete is undone by it.
Insert(d, e) ==
  /\ pc[d] = "apart" /\ e \in unplaced[d]
  /\ unplaced' = [unplaced EXCEPT ![d] = @ \ {e}]
  /\ IF Fenced(d) /\ index[e] = 0
     THEN /\ index' = [index EXCEPT ![e] = docs[d][e]]
          /\ spoilt' = IF "delete" \in pending[d] THEN spoilt ELSE spoilt \ {e}
     ELSE UNCHANGED <<index, spoilt>>
  /\ shown' = ShownAfter
  /\ UNCHANGED <<source, stateVars, pc, forced, gen, left, docs, pending, busy,
                 lost, countVars>>

\* Completed before they ran, the other statements find the token gone.
Complete(d) ==
  /\ pc[d] = "apart" /\ "complete" \in pending[d]
  /\ pending' = [pending EXCEPT ![d] = @ \ {"complete"}]
  /\ IF Fenced(d) /\ Advances(d)
     THEN /\ built' = Achieved(d) /\ lease' = None /\ live' = Cleared
          /\ spoilt' = IF "delete" \in pending[d] THEN Entity ELSE spoilt
     ELSE UNCHANGED <<built, lease, live, spoilt>>
  /\ UNCHANGED <<source, index, shown, requested, pc, forced, gen, left, docs,
                 unplaced, busy, lost, countVars>>

AllRan(d) ==
  /\ pc[d] = "apart" /\ pending[d] = {} /\ unplaced[d] = {}
  /\ lease' = Dropped(d)
  /\ Leave(d)
  /\ UNCHANGED <<source, indexVars, requested, built, live, busy, lost,
                 countVars>>

-----------------------------------------------------------------------------
(* The environment *)

\* The isolate dies or a query throws; the lease stays, and statements that
\* were sent on their own may not arrive.
Crash(d) ==
  /\ pc[d] # "idle"
  /\ crashes < MaxCrashes
  /\ crashes' = crashes + 1
  /\ lease' = Dropped(d)
  /\ Leave(d)
  /\ UNCHANGED <<source, indexVars, requested, built, live, busy, lost, writes,
                 reindexed, rebuilt, losses, overruns>>

\* lease_until passes, after the rebuild is over or under it.
ExpireIdle ==
  /\ live
  /\ lease \notin Drain
  /\ live' = FALSE
  /\ UNCHANGED <<source, indexVars, requested, built, lease, pc, localVars, busy,
                 lost, countVars>>

ExpireOverrun ==
  /\ live
  /\ lease \in Drain
  /\ overruns < MaxOverruns
  /\ overruns' = overruns + 1
  /\ live' = FALSE
  /\ UNCHANGED <<source, indexVars, requested, built, lease, pc, localVars, busy,
                 lost, writes, reindexed, rebuilt, losses, crashes>>

-----------------------------------------------------------------------------
Step(d) ==
  \/ Sweep(d)
  \/ Check(d)
  \/ Invalidate(d)
  \/ Acquire(d)
  \/ ReadState(d)
  \/ \E e \in Entity : Read(d, e)
  \/ Projected(d)
  \/ Commit(d)
  \/ TakeApart(d)
  \/ Delete(d)
  \/ \E e \in Entity : Insert(d, e)
  \/ Complete(d)
  \/ AllRan(d)

Command(w) ==
  \/ \E e \in Entity : Write(w, e)
  \/ Announce(w)
  \/ FailToAnnounce(w)

Next ==
  \/ \E d \in Drain : Step(d) \/ Reindex(d) \/ Crash(d)
  \/ \E w \in Writer : Command(w)
  \/ ExpireIdle
  \/ ExpireOverrun

\* Once everything is written and built the system rests.
Spec == Init /\ [][Next]_vars

\* The cron sweeps every minute, the runtime keeps running what it has
\* started, a lease nobody uses runs out.
Fairness == /\ \A d \in Drain : WF_vars(Step(d))
            /\ WF_vars(ExpireIdle)

FairSpec == Spec /\ Fairness

-----------------------------------------------------------------------------
(* Properties *)

TypeOK ==
  /\ source    \in [Entity -> Nat]
  /\ index     \in [Entity -> Nat]
  /\ requested \in Nat
  /\ built     \in Nat \union {-1}
  /\ lease     \in Drain \union {None, Gone}
  /\ live      \in BOOLEAN
  /\ live => lease # None
  /\ pc        \in [Drain -> Label]
  /\ forced    \in [Drain -> BOOLEAN]
  /\ gen       \in [Drain -> Nat]
  /\ left      \in [Drain -> SUBSET Entity]
  /\ docs      \in [Drain -> [Entity -> Nat]]
  /\ unplaced  \in [Drain -> SUBSET Entity]
  /\ pending   \in [Drain -> SUBSET {"delete", "complete"}]
  /\ shown     \in [Entity -> Nat]
  /\ spoilt    \subseteq Entity
  /\ busy      \in [Writer -> Entity \union {None}]
  /\ lost      \subseteq Entity
  /\ {writes, reindexed, rebuilt, losses, crashes, overruns} \subseteq Nat

\* A write of e is still to be announced.
Unannounced(e) == \E w \in Writer : busy[w] = e

\* An index that reports itself fresh is right: documents differ from their
\* table only while the index is stale, while the command that wrote is
\* about to announce it, when its announcement was lost, or when a batch
\* that was taken apart ran out of its order or not to its end.  Rebuilds
\* that overlap writes, other rebuilds, crashes and lost leases change
\* nothing.
FreshMeansTrue ==
  \A e \in Entity : index[e] # source[e] => \/ Stale
                                            \/ Unannounced(e)
                                            \/ e \in lost
                                            \/ e \in spoilt

\* The fence: a rebuild that lost its lease never puts older documents over
\* newer ones, so what a reader has found he does not lose again; he may miss
\* it while the statements of a batch that was taken apart run.
IndexNeverGoesBack ==
  [][\A e \in Entity : \/ shown[e] <= index'[e]
                       \/ index'[e] = 0 /\ e \in spoilt']_vars

\* With sweeps that keep coming, every announced write is built, or a later
\* one is: a lease that a rebuild leaves in the row, dead or late to complete,
\* runs out and lets the next one in.
EventuallyBuilt ==
  \A g \in 1..(1 + MaxWrites + MaxForced) : requested >= g ~> built >= g

=============================================================================
