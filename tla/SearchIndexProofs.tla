------------------------- MODULE SearchIndexProofs --------------------------
(***************************************************************************)
(* What TLAPS proves about SearchIndex, for any number of rebuilds,        *)
(* commands and entities and any bounds: its types, that an index that     *)
(* reports itself fresh is right, and that it never goes back.             *)
(***************************************************************************)
EXTENDS SearchIndex, TLAPS

\* The parts of TypeOK.
Types ==
  /\ source    \in [Entity -> Nat]
  /\ index     \in [Entity -> Nat]
  /\ requested \in Nat
  /\ built     \in Nat \union {-1}
  /\ lease     \in Drain \union {None, Gone}
  /\ pc        \in [Drain -> Label]
  /\ gen       \in [Drain -> Nat]
  /\ left      \in [Drain -> SUBSET Entity]
  /\ docs      \in [Drain -> [Entity -> Nat]]
  /\ unplaced  \in [Drain -> SUBSET Entity]
  /\ pending   \in [Drain -> SUBSET {"delete", "complete"}]
  /\ shown     \in [Entity -> Nat]
  /\ spoilt    \subseteq Entity
  /\ busy      \in [Writer -> Entity \union {None}]
  /\ lost      \subseteq Entity

Counters == /\ writes \in Nat /\ reindexed \in Nat /\ rebuilt \in Nat
            /\ losses \in Nat /\ crashes \in Nat /\ overruns \in Nat

Leased == live => lease # None

Flags == live \in BOOLEAN /\ forced \in [Drain -> BOOLEAN]

LEMMA FlagsStep ==
  ASSUME Flags, [Next]_vars
  PROVE  Flags'
<1> USE DEF Flags, Goto, Leave, stateVars, localVars, Cleared
<1>1. CASE UNCHANGED vars
  BY <1>1 DEF vars
<1>2. \A d \in Drain, b \in BOOLEAN :
         [forced EXCEPT ![d] = b] \in [Drain -> BOOLEAN]
  BY Zenon
<1>3. ASSUME NEW d \in Drain, Step(d) \/ Reindex(d) \/ Crash(d)
      PROVE  Flags'
  <2>1. live' \in BOOLEAN
    BY <1>3, Zenon DEF Step, Sweep, Reindex, Crash, Check, Invalidate, Acquire,
       ReadState, Read, Projected, Commit, TakeApart, Delete, Insert, Complete,
       AllRan
  <2>2. \/ forced' = forced
        \/ forced' = [forced EXCEPT ![d] = FALSE]
        \/ forced' = [forced EXCEPT ![d] = TRUE]
    BY <1>3, Zenon DEF Step, Sweep, Reindex, Crash, Check, Invalidate, Acquire,
       ReadState, Read, Projected, Commit, TakeApart, Delete, Insert, Complete,
       AllRan
  <2>3. FALSE \in BOOLEAN /\ TRUE \in BOOLEAN
    OBVIOUS
  <2> QED
    BY <1>2, <2>1, <2>2, <2>3, Zenon
<1>4. ASSUME NEW w \in Writer, Command(w) PROVE Flags'
  BY <1>4 DEF Command, Write, Announce, FailToAnnounce
<1>5. CASE ExpireIdle \/ ExpireOverrun
  BY <1>5, Zenon DEF ExpireIdle, ExpireOverrun
<1> QED
  BY <1>1, <1>3, <1>4, <1>5 DEF Next

LEMMA LeaveEffect ==
  ASSUME NEW d \in Drain, Leave(d)
  PROVE  /\ pc'   = [pc EXCEPT ![d] = "idle"]
         /\ gen'  = [gen EXCEPT ![d] = 0]
         /\ left' = [left EXCEPT ![d] = {}]
         /\ docs' = [docs EXCEPT ![d] = [e \in Entity |-> 0]]
         /\ unplaced' = [unplaced EXCEPT ![d] = {}]
         /\ pending'  = [pending EXCEPT ![d] = {}]
BY Zenon DEF Leave, Goto

LEMMA TypesStep ==
  ASSUME Types, Counters, [Next]_vars
  PROVE  Types' /\ Counters'
<1> USE NoneAssumption, TokenAssumption
<1> USE DEF Types, Counters, Label, Goto, Dropped, stateVars,
            indexVars, localVars, countVars
<1>1. CASE UNCHANGED vars
  BY <1>1 DEF vars
<1>2. ASSUME NEW d \in Drain, Step(d) \/ Reindex(d) \/ Crash(d)
      PROVE  Types' /\ Counters'
  <2>9. ASSUME Leave(d)
        PROVE  /\ pc' \in [Drain -> Label] /\ gen' \in [Drain -> Nat]
               /\ left' \in [Drain -> SUBSET Entity]
               /\ docs' \in [Drain -> [Entity -> Nat]]
               /\ unplaced' \in [Drain -> SUBSET Entity]
               /\ pending' \in [Drain -> SUBSET {"delete", "complete"}]
    <3>1. /\ pc'   = [pc EXCEPT ![d] = "idle"]
          /\ gen'  = [gen EXCEPT ![d] = 0]
          /\ left' = [left EXCEPT ![d] = {}]
          /\ docs' = [docs EXCEPT ![d] = [e \in Entity |-> 0]]
          /\ unplaced' = [unplaced EXCEPT ![d] = {}]
          /\ pending'  = [pending EXCEPT ![d] = {}]
      BY <2>9, LeaveEffect
    <3> QED
      BY <3>1
  <2>1. CASE Sweep(d) \/ Reindex(d) \/ Projected(d)
    <3>1. pc' \in [Drain -> Label]
      BY <2>1 DEF Sweep, Reindex, Projected
    <3>2. Counters'
      BY <2>1 DEF Sweep, Reindex, Projected
    <3>3. UNCHANGED <<source, index, shown, spoilt, requested, built, lease,
                      gen, left, docs, unplaced, pending, busy, lost>>
      BY <2>1, Zenon DEF Sweep, Reindex, Projected, indexVars
    <3> QED
      BY <3>1, <3>2, <3>3
  <2>2. CASE Check(d)
    BY <2>2, <2>9 DEF Check
  <2>3. CASE Invalidate(d)
    BY <2>3 DEF Invalidate
  <2>4. CASE Acquire(d)
    <3>1. CASE Free
      BY <2>4, <3>1 DEF Acquire
    <3>2. CASE ~Free
      BY <2>4, <3>2 DEF Acquire
    <3> QED
      BY <3>1, <3>2
  <2>5. CASE ReadState(d)
    <3>1. /\ UNCHANGED <<source, indexVars, requested, built, lease, busy, lost>>
          /\ UNCHANGED countVars
          /\ \/ /\ gen' = [gen EXCEPT ![d] = requested]
                /\ left' = [left EXCEPT ![d] = Entity]
                /\ pc' = [pc EXCEPT ![d] = "project"]
                /\ UNCHANGED <<docs, unplaced, pending>>
             \/ Leave(d)
      BY <2>5, Zenon DEF ReadState
    <3>2. CASE Leave(d)
      BY <3>1, <3>2, <2>9
    <3>3. CASE /\ gen' = [gen EXCEPT ![d] = requested]
               /\ left' = [left EXCEPT ![d] = Entity]
               /\ pc' = [pc EXCEPT ![d] = "project"]
               /\ UNCHANGED <<docs, unplaced, pending>>
      <4>1. gen' \in [Drain -> Nat] /\ pc' \in [Drain -> Label]
        BY <3>3
      <4>2. Entity \in SUBSET Entity
        OBVIOUS
      <4>3. left' \in [Drain -> SUBSET Entity]
        BY <3>3, <4>2
      <4>4. docs' \in [Drain -> [Entity -> Nat]]
        BY <3>3
      <4>5. unplaced' = unplaced /\ pending' = pending
        BY <3>3
      <4>6. UNCHANGED <<source, index, shown, spoilt, requested, built, lease,
                        busy, lost>>
        BY <3>1
      <4>7. Counters'
        BY <3>1
      <4> QED
        BY <4>1, <4>3, <4>4, <4>5, <4>6, <4>7
    <3> QED
      BY <3>1, <3>2, <3>3, Zenon
  <2>6. ASSUME NEW e \in Entity, Read(d, e)
        PROVE  Types' /\ Counters'
    <3>1. docs' \in [Drain -> [Entity -> Nat]]
      BY <2>6 DEF Read
    <3> QED
      BY <2>6, <3>1 DEF Read
  <2>7. CASE Commit(d)
    <3>2. Dropped(d) \in {lease, Gone}
      BY Zenon
    <3> HIDE DEF Dropped
    <3>1. /\ UNCHANGED <<source, requested, busy, lost, countVars>>
          /\ \/ index' = docs[d] /\ spoilt' = {}
             \/ index' = index /\ spoilt' = spoilt
          /\ shown' = ShownAfter
          /\ \/ built' = gen[d] /\ lease' = None
             \/ built' = built /\ lease' \in {lease, Gone}
          /\ Leave(d)
      BY <2>7, <3>2, Zenon DEF Commit, Achieved
    <3>3. index' \in [Entity -> Nat]
      BY <3>1
    <3>4. shown' \in [Entity -> Nat]
      BY <3>1, <3>3 DEF ShownAfter
    <3> QED
      BY <2>9, <3>1, <3>3, <3>4
  <2>11. CASE TakeApart(d)
    <3>1. /\ unplaced' \in [Drain -> SUBSET Entity]
          /\ pending' \in [Drain -> SUBSET {"delete", "complete"}]
      BY <2>11 DEF TakeApart
    <3> QED
      BY <2>11, <3>1 DEF TakeApart
  <2>12. CASE Delete(d)
    <3>1. pending' \in [Drain -> SUBSET {"delete", "complete"}]
      BY <2>12 DEF Delete
    <3>2. index' \in [Entity -> Nat] /\ spoilt' \subseteq Entity
      BY <2>12 DEF Delete
    <3> QED
      BY <2>12, <3>1, <3>2 DEF Delete
  <2>13. ASSUME NEW e \in Entity, Insert(d, e)
         PROVE  Types' /\ Counters'
    <3>1. unplaced' \in [Drain -> SUBSET Entity]
      BY <2>13 DEF Insert
    <3>2. index' \in [Entity -> Nat] /\ spoilt' \subseteq Entity
      BY <2>13 DEF Insert
    <3>3. shown' \in [Entity -> Nat]
      BY <2>13, <3>2 DEF Insert, ShownAfter
    <3> QED
      BY <2>13, <3>1, <3>2, <3>3 DEF Insert
  <2>14. CASE Complete(d)
    <3>1. pending' \in [Drain -> SUBSET {"delete", "complete"}]
      BY <2>14 DEF Complete
    <3>2. /\ built' \in Nat \union {-1} /\ spoilt' \subseteq Entity
          /\ lease' \in Drain \union {None, Gone}
      BY <2>14 DEF Complete, Achieved
    <3> QED
      BY <2>14, <3>1, <3>2 DEF Complete
  <2>15. CASE AllRan(d)
    BY <2>9, <2>15 DEF AllRan
  <2>8. CASE Crash(d)
    <3>1. /\ UNCHANGED <<source, indexVars, requested, built, busy, lost, writes,
                        reindexed, rebuilt, losses, overruns>>
          /\ crashes' = crashes + 1 /\ lease' \in {lease, Gone}
          /\ Leave(d)
      BY <2>8, Zenon DEF Crash
    <3> QED
      BY <2>9, <3>1
  <2> QED
    BY <1>2, <2>1, <2>2, <2>3, <2>4, <2>5, <2>6, <2>7, <2>8, <2>11, <2>12,
       <2>13, <2>14, <2>15 DEF Step
<1>3. ASSUME NEW w \in Writer, Command(w)
      PROVE  Types' /\ Counters'
  <2>1. ASSUME NEW e \in Entity, Write(w, e)
        PROVE  Types' /\ Counters'
    BY <2>1 DEF Write
  <2>2. CASE Announce(w)
    BY <2>2 DEF Announce
  <2>3. CASE FailToAnnounce(w)
    BY <2>3 DEF FailToAnnounce
  <2> QED
    BY <1>3, <2>1, <2>2, <2>3 DEF Command
<1>4. CASE ExpireIdle
  <2>1. Types'
    BY <1>4 DEF ExpireIdle
  <2>2. Counters'
    BY <1>4 DEF ExpireIdle
  <2> QED
    BY <2>1, <2>2
<1>5. CASE ExpireOverrun
  <2>1. Types'
    BY <1>5 DEF ExpireOverrun
  <2>2. Counters'
    BY <1>5 DEF ExpireOverrun
  <2> QED
    BY <2>1, <2>2
<1> QED
  BY <1>1, <1>2, <1>3, <1>4, <1>5 DEF Next

LEMMA LeasedStep ==
  ASSUME Leased, Flags, [Next]_vars
  PROVE  Leased'
<1> USE NoneAssumption, TokenAssumption
<1> USE DEF Leased, Flags, stateVars, Dropped
<1>1. CASE UNCHANGED vars
  BY <1>1 DEF vars
<1>2. ASSUME NEW d \in Drain, Step(d) \/ Reindex(d) \/ Crash(d)
      PROVE  Leased'
  <2>1. CASE UNCHANGED <<lease, live>>
    BY <2>1
  <2>2. CASE Acquire(d)
    BY <2>2 DEF Acquire
  <2>3. CASE Commit(d)
    BY <2>3 DEF Commit, Cleared
  <2>4. CASE Crash(d)
    BY <2>4 DEF Crash
  <2>5. CASE Complete(d)
    BY <2>5 DEF Complete, Cleared
  <2>6. CASE AllRan(d)
    BY <2>6 DEF AllRan
  <2> QED
    BY <1>2, <2>1, <2>2, <2>3, <2>4, <2>5, <2>6
       DEF Step, Sweep, Reindex, Check, Invalidate, ReadState, Read, Projected,
           TakeApart, Delete, Insert
<1>3. ASSUME NEW w \in Writer, Command(w) PROVE Leased'
  BY <1>3 DEF Command, Write, Announce, FailToAnnounce
<1>4. CASE ExpireIdle \/ ExpireOverrun
  BY <1>4 DEF ExpireIdle, ExpireOverrun
<1> QED
  BY <1>1, <1>2, <1>3, <1>4 DEF Next

LEMMA TypesInit == Init => Types /\ Counters /\ Leased /\ Flags
<1> USE NoneAssumption DEF Init, Label
<1>1. Init => Types
  <2>1. Init => built \in Nat \union {-1} /\ requested \in Nat
    OBVIOUS
  <2>2. Init => /\ source \in [Entity -> Nat] /\ index \in [Entity -> Nat]
                /\ gen \in [Drain -> Nat] /\ docs \in [Drain -> [Entity -> Nat]]
    BY SMT
  <2>3. Init => /\ lease \in Drain \union {None, Gone}
                /\ left \in [Drain -> SUBSET Entity]
                /\ unplaced \in [Drain -> SUBSET Entity]
                /\ pending \in [Drain -> SUBSET {"delete", "complete"}]
                /\ shown \in [Entity -> Nat] /\ spoilt \subseteq Entity
                /\ busy \in [Writer -> Entity \union {None}]
                /\ pc \in [Drain -> Label] /\ lost \subseteq Entity
    BY SMT
  <2> QED
    BY <2>1, <2>2, <2>3 DEF Types
<1>2. Init => Counters
  BY DEF Counters
<1>3. Init => Leased
  BY DEF Leased
<1>4. Init => Flags
  BY Zenon DEF Flags
<1> QED
  BY <1>1, <1>2, <1>3, <1>4

LEMMA TypesAlways == Spec => [](Types /\ Counters /\ Leased /\ Flags)
BY TypesInit, TypesStep, FlagsStep, LeasedStep, PTL DEF Spec

\* The variables keep their types, and a running lease has a holder.
THEOREM TypeCorrect == Spec => []TypeOK
<1>1. Types /\ Counters /\ Leased /\ Flags => TypeOK
  BY DEF Types, Counters, Leased, Flags, TypeOK
<1> QED
  BY <1>1, TypesAlways, PTL

-----------------------------------------------------------------------------
(* The inductive invariant.  A rebuild that holds the lease builds a        *)
(* generation nobody has gone beyond, and whatever it has read and is no    *)
(* longer true is excused as what is written in the index would be.  While  *)
(* a batch that was taken apart runs, what it has not put back is spoilt.   *)

Reading(d) == pc[d] \in {"project", "commit", "apart"}

Excused(e, g) == g < requested \/ Unannounced(e) \/ e \in lost

Generations ==
  /\ built <= requested
  /\ \A d \in Drain : gen[d] <= requested
  /\ \A d \in Drain : Reading(d) /\ lease = d => built <= gen[d]

Everything ==
  \A d \in Drain : pc[d] \in {"commit", "apart"} => left[d] = {}

Placed ==
  \A d \in Drain, e \in Entity :
     pc[d] = "apart" /\ lease = d /\ "delete" \notin pending[d]
        => e \in spoilt \/ index[e] = docs[d][e]

Remembered ==
  \A e \in Entity : \/ shown[e] = index[e]
                    \/ index[e] = 0 /\ e \in spoilt

ReadIsExcused ==
  \A d \in Drain, e \in Entity :
     Reading(d) /\ e \notin left[d] /\ docs[d][e] # source[e]
        => Excused(e, gen[d])

Ordered ==
  /\ \A e \in Entity : index[e] <= source[e] /\ shown[e] <= source[e]
  /\ \A d \in Drain, e \in Entity : docs[d][e] <= source[e]
  /\ \A d \in Drain, e \in Entity :
        Reading(d) /\ lease = d /\ e \notin left[d] => shown[e] <= docs[d][e]

Inv == /\ Generations /\ Everything /\ ReadIsExcused /\ Ordered
       /\ Placed /\ Remembered /\ FreshMeansTrue

\* What remains of the rebuild that leaves, and of the others.
LEMMA LeaveValues ==
  ASSUME Types, NEW d \in Drain, Leave(d)
  PROVE  /\ pc'[d] = "idle" /\ gen'[d] = 0
         /\ \A e \in Entity : docs'[d][e] = 0
         /\ \A x \in Drain : x # d => /\ pc'[x] = pc[x]
                                      /\ gen'[x] = gen[x]
                                      /\ left'[x] = left[x]
                                      /\ docs'[x] = docs[x]
                                      /\ pending'[x] = pending[x]
BY LeaveEffect DEF Types

\* A rebuild that leaves, without committing, disturbs nothing.
LEMMA LeavingKeepsInv ==
  ASSUME Types, Inv, NEW d \in Drain, Leave(d),
         UNCHANGED <<source, indexVars, requested, built, busy, lost>>,
         lease' \in {lease, Gone}
  PROVE  Inv'
<1> USE NoneAssumption DEF indexVars
<1>1. UNCHANGED <<source, indexVars, requested, built, busy, lost>>
  OBVIOUS
<1>2. requested \in Nat /\ \A e \in Entity : source[e] \in Nat
  BY DEF Types
<1>3. Generations'
  BY <1>1, <1>2, LeaveValues DEF Inv, Generations, Reading
<1>4. Everything'
  BY LeaveValues DEF Inv, Everything
<1>5. ReadIsExcused'
  BY <1>1, LeaveValues DEF Inv, ReadIsExcused, Reading, Excused, Unannounced
<1>6. Ordered'
  BY <1>1, <1>2, LeaveValues DEF Inv, Ordered, Reading
<1>7. FreshMeansTrue'
  BY <1>1 DEF Inv, FreshMeansTrue, Stale, Unannounced
<1>8. Placed' /\ Remembered'
  BY <1>1, LeaveValues DEF Inv, Placed, Remembered
<1> QED
  BY <1>3, <1>4, <1>5, <1>6, <1>7, <1>8 DEF Inv

LEMMA InvInit == Init => Inv
<1> SUFFICES ASSUME Init PROVE Inv
  OBVIOUS
<1> USE DEF Init
<1>1. \A d \in Drain : pc[d] = "idle"
  OBVIOUS
<1>2. Generations
  BY <1>1 DEF Generations, Reading
<1>3. Everything /\ ReadIsExcused
  BY <1>1 DEF Everything, ReadIsExcused, Reading
<1>4. Ordered
  BY <1>1 DEF Ordered, Reading
<1>5. FreshMeansTrue
  BY DEF FreshMeansTrue, Stale
<1>6. Placed /\ Remembered
  BY <1>1 DEF Placed, Remembered
<1> QED
  BY <1>2, <1>3, <1>4, <1>5, <1>6 DEF Inv

\* Documents that stay are remembered as they were.
LEMMA ShownStays ==
  ASSUME Types, Inv, UNCHANGED index, shown' = ShownAfter
  PROVE  shown' = shown
<1>1. \A e \in Entity : shown'[e] = shown[e]
  BY DEF ShownAfter, Inv, Remembered
<1> QED
  BY <1>1 DEF ShownAfter, Types

LEMMA InvStep ==
  ASSUME Types, Counters, Inv, [Next]_vars
  PROVE  Inv'
<1> USE NoneAssumption
<1> USE DEF stateVars, localVars, indexVars, countVars
<1>1. CASE UNCHANGED vars
  BY <1>1 DEF vars, Inv, Generations, Everything, ReadIsExcused, Ordered,
         Placed, Remembered,
     FreshMeansTrue, Reading, Excused, Unannounced, Stale
<1>2. ASSUME NEW d \in Drain, Step(d) \/ Reindex(d) \/ Crash(d)
      PROVE  Inv'
  <2>1. ASSUME UNCHANGED <<source, indexVars, requested, built, lease, gen, left,
                           docs, pending, busy, lost>>,
               NEW l \in {"check", "force", "acquire", "state"},
               Goto(d, l)
        PROVE  Inv'
    <3>1. /\ pc'[d] = l
          /\ \A x \in Drain : x # d => pc'[x] = pc[x]
      BY <2>1 DEF Goto, Types
    <3> QED
      BY <2>1, <3>1 DEF Inv, Generations, Everything, ReadIsExcused, Ordered,
         Placed, Remembered,
         FreshMeansTrue, Reading, Excused, Unannounced, Stale
  <2>2. CASE Sweep(d) \/ Reindex(d)
    BY <2>1, <2>2 DEF Sweep, Reindex
  <2>3. CASE Check(d)
    <3>1. CASE Leave(d)
      BY <2>3, <3>1, LeavingKeepsInv DEF Check
    <3>2. CASE ~Leave(d)
      BY <2>1, <2>3, <3>2 DEF Check
    <3> QED
      BY <3>1, <3>2
  <2>4. CASE Invalidate(d)
    <3>1. /\ pc' = [pc EXCEPT ![d] = "check"]
          /\ requested' = requested + 1
          /\ UNCHANGED <<source, indexVars, built, lease, gen, left, docs, pending,
                         busy>>
      BY <2>4, Zenon DEF Invalidate, Goto
    <3> QED
      BY <3>1 DEF Types, Inv, Generations, Everything, ReadIsExcused, Ordered,
         Placed, Remembered,
         FreshMeansTrue, Reading, Excused, Unannounced, Stale
  <2>5. CASE Acquire(d)
    <3>1. /\ pc' = [pc EXCEPT ![d] = "state"]
          /\ lease' \in {lease, d}
          /\ UNCHANGED <<source, indexVars, requested, built, gen, left, docs,
                         pending, busy, lost>>
      BY <2>5, Zenon DEF Acquire, Goto
    <3> QED
      BY <3>1 DEF Types, Inv, Generations, Everything, ReadIsExcused, Ordered,
         Placed, Remembered,
         FreshMeansTrue, Reading, Excused, Unannounced, Stale
  <2>6. CASE ReadState(d)
    <3>1. CASE Leave(d)
      BY <2>6, <3>1, LeavingKeepsInv, Zenon DEF ReadState
    <3>2. CASE /\ gen' = [gen EXCEPT ![d] = requested]
               /\ left' = [left EXCEPT ![d] = Entity]
               /\ pc' = [pc EXCEPT ![d] = "project"]
               /\ UNCHANGED <<docs, unplaced, pending>>
      <4>1. UNCHANGED <<source, indexVars, requested, built, lease, busy, lost>>
        BY <2>6 DEF ReadState
      <4>2. /\ gen'[d] = requested /\ left'[d] = Entity /\ pc'[d] = "project"
            /\ \A x \in Drain : x # d => /\ pc'[x] = pc[x]
                                         /\ gen'[x] = gen[x]
                                         /\ left'[x] = left[x]
        BY <3>2 DEF Types
      <4>3. Generations' /\ Everything'
        <5>1. Everything'
          BY <4>2 DEF Inv, Everything
        <5>2. requested \in Nat /\ built \in Int
          BY DEF Types
        <5>3. Generations'
          BY <4>1, <4>2, <5>2 DEF Inv, Generations, Reading
        <5> QED
          BY <5>1, <5>3
      <4>4. ReadIsExcused' /\ Ordered'
        BY <3>2, <4>1, <4>2 DEF Types, Inv, ReadIsExcused, Ordered,
         Placed, Remembered, Reading,
           Excused, Unannounced
      <4>5. FreshMeansTrue'
        BY <4>1 DEF Inv, FreshMeansTrue, Stale, Unannounced
      <4>6. Placed' /\ Remembered'
        BY <3>2, <4>1, <4>2 DEF Inv, Placed, Remembered
      <4> QED
        BY <4>3, <4>4, <4>5, <4>6 DEF Inv
    <3> QED
      BY <2>6, <3>1, <3>2, Zenon DEF ReadState, Goto
  <2>7. ASSUME NEW e \in Entity, Read(d, e)
        PROVE  Inv'
    <3>1. /\ UNCHANGED <<source, indexVars, requested, built, lease, pc, gen,
                         pending, busy, lost>>
          /\ pc[d] = "project"
          /\ docs' = [docs EXCEPT ![d] = [docs[d] EXCEPT ![e] = source[e]]]
          /\ left' = [left EXCEPT ![d] = left[d] \ {e}]
      BY <2>7 DEF Read
    <3>2. /\ left'[d] = left[d] \ {e}
          /\ docs'[d][e] = source[e]
          /\ \A f \in Entity : f # e => docs'[d][f] = docs[d][f]
          /\ \A x \in Drain : x # d => /\ left'[x] = left[x]
                                       /\ docs'[x] = docs[x]
      BY <3>1 DEF Types
    <3>3. Generations' /\ FreshMeansTrue'
      BY <3>1 DEF Inv, Generations, FreshMeansTrue, Reading, Stale, Unannounced
    <3>4. Everything'
      BY <2>7, <3>1, <3>2 DEF Inv, Everything, Read
    <3>5. ReadIsExcused'
      BY <3>1, <3>2 DEF Inv, ReadIsExcused, Reading, Excused, Unannounced
    <3>6. Ordered'
      BY <3>1, <3>2 DEF Types, Inv, Ordered, Reading
    <3>7. Placed' /\ Remembered'
      BY <3>1, <3>2 DEF Inv, Placed, Remembered
    <3> QED
      BY <3>3, <3>4, <3>5, <3>6, <3>7 DEF Inv
  <2>8. CASE Projected(d)
    <3>1. /\ UNCHANGED <<source, indexVars, requested, built, lease, gen, left,
                         docs, pending, busy, lost>>
          /\ left[d] = {} /\ pc[d] = "project"
          /\ pc' = [pc EXCEPT ![d] = "commit"]
      BY <2>8 DEF Projected, Goto
    <3> QED
      BY <3>1 DEF Types, Inv, Generations, Everything, ReadIsExcused, Ordered,
         Placed, Remembered,
         FreshMeansTrue, Reading, Excused, Unannounced, Stale
  <2>9. CASE Commit(d)
    <3>1. CASE ~Fenced(d)
      <4>3. index' = index /\ shown' = shown
        <5>1. index' = index /\ shown' = ShownAfter
          BY <2>9, <3>1 DEF Commit
        <5> QED
          BY <5>1, ShownStays
      <4>1. UNCHANGED <<source, indexVars, requested, built, busy, lost>>
        BY <2>9, <3>1, <4>3 DEF Commit
      <4>2. lease' \in {lease, Gone} /\ Leave(d)
        BY <2>9, <3>1 DEF Commit, Dropped
      <4> QED
        BY <4>1, <4>2, LeavingKeepsInv
    <3>2. CASE Fenced(d)
      <4>1. /\ pc[d] = "commit" /\ lease = d /\ index' = docs[d] /\ Leave(d)
            /\ lease' \in {None, Gone} /\ spoilt' = {} /\ shown' = ShownAfter
            /\ UNCHANGED <<source, requested, busy, lost>>
        BY <2>9, <3>2 DEF Commit, Fenced, Dropped
      <4>2. Reading(d) /\ left[d] = {}
        BY <4>1 DEF Inv, Everything, Reading
      <4>3. built' = gen[d]
        <5>1. built <= gen[d] /\ built \in Int /\ gen[d] \in Int
          BY <4>1, <4>2 DEF Inv, Generations, Types
        <5>2. CASE Advances(d)
          BY <2>9, <3>2, <5>2 DEF Commit, Achieved
        <5>3. CASE ~Advances(d)
          <6>1. built' = built
            BY <2>9, <5>3 DEF Commit
          <6> QED
            BY <5>1, <5>3, <6>1 DEF Advances, Achieved
        <5> QED
          BY <5>2, <5>3
      <4>4. Generations' /\ Everything'
        <5>1. Everything'
          BY <4>1, LeaveValues DEF Inv, Everything
        <5>2. requested \in Nat
          BY DEF Types
        <5>3. Generations'
          BY <4>1, <4>3, <5>2, LeaveValues DEF Inv, Generations, Reading
        <5> QED
          BY <5>1, <5>3
      <4>5. ReadIsExcused'
        BY <4>1, LeaveValues
           DEF Inv, ReadIsExcused, Reading, Excused, Unannounced
      <4>8. \A e \in Entity : shown'[e] = docs[d][e] /\ index'[e] = docs[d][e]
        <5>1. \A e \in Entity : shown[e] <= docs[d][e]
          BY <4>1, <4>2 DEF Inv, Ordered
        <5>2. \A e \in Entity : shown[e] \in Nat /\ docs[d][e] \in Nat
          BY DEF Types
        <5> QED
          BY <4>1, <5>1, <5>2 DEF ShownAfter
      <4>6. Ordered'
        BY <4>1, <4>8, LeaveValues DEF Types, Inv, Ordered, Reading
      <4>9. Placed' /\ Remembered'
        BY <4>1, <4>8, LeaveValues DEF Placed, Remembered
      <4>7. FreshMeansTrue'
        BY <4>1, <4>2, <4>3 DEF Inv, ReadIsExcused, Excused, FreshMeansTrue,
           Stale, Unannounced
      <4> QED
        BY <4>4, <4>5, <4>6, <4>7, <4>9 DEF Inv
    <3> QED
      BY <3>1, <3>2
  <2>10. CASE Crash(d)
    <3>1. /\ UNCHANGED <<source, indexVars, requested, built, busy, lost>>
          /\ lease' \in {lease, Gone} /\ Leave(d)
      BY <2>10 DEF Crash, Dropped
    <3> QED
      BY <3>1, LeavingKeepsInv
  <2>11. CASE TakeApart(d)
    <3>1. /\ UNCHANGED <<source, indexVars, requested, built, lease, gen, left,
                         docs, busy, lost>>
          /\ pc[d] = "commit"
          /\ pc' = [pc EXCEPT ![d] = "apart"]
          /\ pending' = [pending EXCEPT ![d] = {"delete", "complete"}]
      BY <2>11 DEF TakeApart, Goto
    <3>2. /\ pc'[d] = "apart" /\ pending'[d] = {"delete", "complete"}
          /\ \A x \in Drain : x # d => pc'[x] = pc[x] /\ pending'[x] = pending[x]
      BY <3>1 DEF Types
    <3>3. Generations' /\ Everything' /\ ReadIsExcused' /\ Ordered'
      BY <3>1, <3>2 DEF Inv, Generations, Everything, ReadIsExcused, Ordered,
         Reading, Excused, Unannounced
    <3>4. Placed' /\ Remembered' /\ FreshMeansTrue'
      BY <3>1, <3>2 DEF Inv, Placed, Remembered, FreshMeansTrue, Stale,
         Unannounced
    <3> QED
      BY <3>3, <3>4 DEF Inv
  <2>12. CASE Delete(d)
    <3>1. /\ UNCHANGED <<source, shown, requested, built, lease, pc, gen, left,
                         docs, busy, lost>>
          /\ pending' = [pending EXCEPT ![d] = pending[d] \ {"delete"}]
          /\ IF lease = d THEN index' = [e \in Entity |-> 0] /\ spoilt' = Entity
                          ELSE UNCHANGED <<index, spoilt>>
      BY <2>12 DEF Delete, Fenced
    <3>2. \A x \in Drain : x # d => pending'[x] = pending[x]
      BY <3>1 DEF Types
    <3>3. Generations' /\ Everything' /\ ReadIsExcused'
      BY <3>1 DEF Inv, Generations, Everything, ReadIsExcused, Reading,
         Excused, Unannounced
    <3>4. Ordered'
      BY <3>1 DEF Types, Inv, Ordered, Reading
    <3>5. Placed' /\ Remembered'
      BY <3>1, <3>2 DEF Inv, Placed, Remembered
    <3>6. FreshMeansTrue'
      BY <3>1 DEF Inv, FreshMeansTrue, Stale, Unannounced
    <3> QED
      BY <3>3, <3>4, <3>5, <3>6 DEF Inv
  <2>13. ASSUME NEW e \in Entity, Insert(d, e)
         PROVE  Inv'
    <3>1. /\ UNCHANGED <<source, requested, built, lease, pc, gen, left, docs,
                         pending, busy, lost>>
          /\ pc[d] = "apart"
          /\ shown' = ShownAfter
      BY <2>13 DEF Insert
    <3>2. CASE UNCHANGED <<index, spoilt>>
      <4>1. shown' = shown
        BY <3>1, <3>2, ShownStays
      <4> QED
        BY <3>1, <3>2, <4>1 DEF Inv, Generations, Everything, ReadIsExcused,
           Ordered, Placed, Remembered, FreshMeansTrue, Reading, Excused,
           Unannounced, Stale
    <3>3. CASE ~UNCHANGED <<index, spoilt>>
      <4>1. /\ lease = d /\ index[e] = 0
            /\ index' = [index EXCEPT ![e] = docs[d][e]]
            /\ spoilt' = IF "delete" \in pending[d] THEN spoilt
                                                    ELSE spoilt \ {e}
        BY <2>13, <3>3 DEF Insert, Fenced
      <4>2. /\ index'[e] = docs[d][e]
            /\ \A f \in Entity : f # e => index'[f] = index[f]
        BY <4>1 DEF Types
      <4>3. left[d] = {} /\ Reading(d)
        BY <3>1 DEF Inv, Everything, Reading
      <4>4. shown'[e] = docs[d][e]
        <5>1. shown[e] <= docs[d][e] /\ shown[e] \in Nat /\ docs[d][e] \in Nat
          BY <4>1, <4>3 DEF Inv, Ordered, Types
        <5> QED
          BY <3>1, <4>2, <5>1 DEF ShownAfter
      <4>5. \A f \in Entity : f # e => shown'[f] = shown[f]
        BY <3>1, <4>2 DEF ShownAfter, Inv, Remembered
      <4>6. Generations' /\ Everything' /\ ReadIsExcused'
        BY <3>1 DEF Inv, Generations, Everything, ReadIsExcused, Reading,
           Excused, Unannounced
      <4>7. Ordered'
        <5>1. \A f \in Entity : index'[f] <= source'[f] /\ shown'[f] <= source'[f]
          BY <3>1, <4>2, <4>4, <4>5 DEF Inv, Ordered
        <5>2. \A x \in Drain, f \in Entity : docs'[x][f] <= source'[f]
          BY <3>1 DEF Inv, Ordered
        <5>3. ASSUME NEW x \in Drain, NEW f \in Entity,
                     Reading(x)', lease' = x, f \notin left'[x]
              PROVE  shown'[f] <= docs'[x][f]
          <6>1. x = d /\ f \notin left[d]
            BY <3>1, <4>1, <5>3
          <6>2. docs[d][e] \in Nat
            BY DEF Types
          <6> QED
            BY <3>1, <4>1, <4>3, <4>4, <4>5, <6>1, <6>2 DEF Inv, Ordered
        <5> QED
          BY <5>1, <5>2, <5>3 DEF Ordered
      <4>8. Placed' /\ Remembered'
        BY <3>1, <4>1, <4>2, <4>4, <4>5 DEF Inv, Placed, Remembered
      <4>9. FreshMeansTrue'
        <5>1. ASSUME NEW f \in Entity, index'[f] # source'[f]
              PROVE  Stale' \/ Unannounced(f)' \/ f \in lost' \/ f \in spoilt'
          <6>1. CASE f = e
            <7>1. docs[d][e] # source[e]
              BY <3>1, <4>2, <5>1, <6>1
            <7>2. Excused(e, gen[d])
              BY <4>3, <7>1 DEF Inv, ReadIsExcused
            <7>3. built <= gen[d] /\ gen[d] \in Int /\ built \in Int
              BY <3>1, <4>1, <4>3 DEF Inv, Generations, Types
            <7> QED
              BY <3>1, <6>1, <7>2, <7>3 DEF Excused, Stale, Unannounced, Types
          <6>2. CASE f # e
            BY <3>1, <4>1, <4>2, <5>1, <6>2 DEF Inv, FreshMeansTrue, Stale,
               Unannounced
          <6> QED
            BY <6>1, <6>2
        <5> QED
          BY <5>1 DEF FreshMeansTrue
      <4> QED
        BY <4>6, <4>7, <4>8, <4>9 DEF Inv
    <3> QED
      BY <3>2, <3>3
  <2>14. CASE Complete(d)
    <3>1. /\ UNCHANGED <<source, index, shown, requested, pc, gen, left, docs,
                         busy, lost>>
          /\ pc[d] = "apart"
          /\ pending' = [pending EXCEPT ![d] = pending[d] \ {"complete"}]
      BY <2>14 DEF Complete
    <3>2. /\ \A x \in Drain : x # d => pending'[x] = pending[x]
          /\ "delete" \in pending'[d] <=> "delete" \in pending[d]
      BY <3>1 DEF Types
    <3>3. CASE UNCHANGED <<built, lease, spoilt>>
      BY <3>1, <3>2, <3>3 DEF Inv, Generations, Everything, ReadIsExcused,
         Ordered, Placed, Remembered, FreshMeansTrue, Reading, Excused,
         Unannounced, Stale
    <3>4. CASE Fenced(d) /\ Advances(d)
      <4>1. /\ lease = d /\ built' = gen[d] /\ lease' = None
            /\ spoilt' = IF "delete" \in pending[d] THEN Entity ELSE spoilt
        BY <2>14, <3>4 DEF Complete, Fenced, Achieved
      <4>2. left[d] = {} /\ Reading(d)
        BY <3>1 DEF Inv, Everything, Reading
      <4>3. Generations' /\ Everything' /\ ReadIsExcused' /\ Ordered'
        BY <3>1, <4>1 DEF Inv, Generations, Everything, ReadIsExcused, Ordered,
           Reading, Excused, Unannounced
      <4>4. Placed' /\ Remembered'
        BY <3>1, <4>1 DEF Inv, Placed, Remembered
      <4>5. FreshMeansTrue'
        <5>1. ASSUME NEW f \in Entity, index[f] # source[f], f \notin spoilt'
              PROVE  Stale' \/ Unannounced(f) \/ f \in lost
          <6>1. "delete" \notin pending[d] /\ f \notin spoilt
            BY <4>1, <5>1
          <6>2. docs[d][f] = index[f]
            BY <3>1, <4>1, <6>1 DEF Inv, Placed
          <6>3. Excused(f, gen[d])
            BY <4>2, <5>1, <6>2 DEF Inv, ReadIsExcused
          <6> QED
            BY <3>1, <4>1, <6>3 DEF Excused, Stale
        <5> QED
          BY <3>1, <5>1 DEF FreshMeansTrue, Unannounced
      <4> QED
        BY <4>3, <4>4, <4>5 DEF Inv
    <3> QED
      BY <2>14, <3>3, <3>4 DEF Complete
  <2>15. CASE AllRan(d)
    <3>1. /\ UNCHANGED <<source, indexVars, requested, built, busy, lost>>
          /\ lease' \in {lease, Gone} /\ Leave(d)
      BY <2>15 DEF AllRan, Dropped
    <3> QED
      BY <3>1, LeavingKeepsInv
  <2> QED
    BY <1>2, <2>2, <2>3, <2>4, <2>5, <2>6, <2>7, <2>8, <2>9, <2>10, <2>11,
       <2>12, <2>13, <2>14, <2>15 DEF Step
<1>3. ASSUME NEW w \in Writer, Command(w)
      PROVE  Inv'
  <2>1. ASSUME NEW e \in Entity, Write(w, e)
        PROVE  Inv'
    <3>1. /\ UNCHANGED <<indexVars, requested, built, lease, pc, gen, left, docs,
                         pending, lost>>
          /\ busy[w] = None
          /\ source' = [source EXCEPT ![e] = source[e] + 1]
          /\ busy' = [busy EXCEPT ![w] = e]
      BY <2>1 DEF Write
    <3>2. /\ source'[e] = source[e] + 1
          /\ \A f \in Entity : f # e => source'[f] = source[f]
          /\ \A f \in Entity : source[f] \in Nat
      BY <3>1 DEF Types
    <3>3. Unannounced(e)' /\ \A f \in Entity : Unannounced(f) => Unannounced(f)'
      BY <3>1 DEF Types, Unannounced
    <3>4. Generations' /\ Everything'
      BY <3>1 DEF Inv, Generations, Everything, Reading
    <3>5. ReadIsExcused'
      BY <3>1, <3>2, <3>3 DEF Inv, ReadIsExcused, Reading, Excused
    <3>6. Ordered'
      BY <3>1, <3>2 DEF Types, Inv, Ordered, Reading
    <3>7. FreshMeansTrue'
      BY <3>1, <3>2, <3>3 DEF Inv, FreshMeansTrue, Stale
    <3>8. Placed' /\ Remembered'
      BY <3>1 DEF Inv, Placed, Remembered
    <3> QED
      BY <3>4, <3>5, <3>6, <3>7, <3>8 DEF Inv
  <2>2. CASE Announce(w)
    <3>1. /\ requested' = requested + 1
          /\ UNCHANGED <<source, indexVars, built, lease, pc, gen, left, docs,
                         pending>>
      BY <2>2 DEF Announce
    <3> QED
      BY <3>1 DEF Types, Inv, Generations, Everything, ReadIsExcused, Ordered,
         Placed, Remembered,
         FreshMeansTrue, Reading, Excused, Stale
  <2>3. CASE FailToAnnounce(w)
    <3>1. /\ UNCHANGED <<source, indexVars, requested, built, lease, pc, gen,
                         left, docs, pending>>
          /\ lost' = lost \union {busy[w]}
          /\ busy' = [busy EXCEPT ![w] = None]
      BY <2>3 DEF FailToAnnounce
    <3>2. \A f \in Entity : Unannounced(f) \/ f \in lost
                               => Unannounced(f)' \/ f \in lost'
      BY <3>1 DEF Types, Unannounced
    <3> QED
      BY <3>1, <3>2 DEF Inv, Generations, Everything, ReadIsExcused, Ordered,
         Placed, Remembered,
         FreshMeansTrue, Reading, Excused, Stale
  <2> QED
    BY <1>3, <2>1, <2>2, <2>3 DEF Command
<1>4. CASE ExpireIdle \/ ExpireOverrun
  BY <1>4 DEF ExpireIdle, ExpireOverrun, Inv, Generations, Everything,
     ReadIsExcused, Ordered,
         Placed, Remembered, FreshMeansTrue, Reading, Excused, Unannounced,
     Stale
<1> QED
  BY <1>1, <1>2, <1>3, <1>4 DEF Next

LEMMA InvAlways == Spec => []Inv
BY TypesAlways, InvInit, InvStep, PTL DEF Spec

\* An index that reports itself fresh is right, whatever rebuilds overlap
\* with whatever writes, for any number of them.
THEOREM FreshIndex == Spec => []FreshMeansTrue
<1>1. Inv => FreshMeansTrue
  BY DEF Inv
<1> QED
  BY <1>1, InvAlways, PTL

\* Documents are never replaced by older ones: the fence lets only the
\* holder of the lease write, and what it has read is not older than what
\* any rebuild has shown.
THEOREM NeverBack == Spec => IndexNeverGoesBack
<1> DEFINE Forward == \A e \in Entity : \/ shown[e] <= index'[e]
                                        \/ index'[e] = 0 /\ e \in spoilt'
<1>1. ASSUME Types, Inv, [Next]_vars
      PROVE  Forward
  <2>0. \A e \in Entity : shown[e] \in Nat /\ index[e] \in Nat
    BY <1>1 DEF Types
  <2>1. CASE UNCHANGED <<index, spoilt>>
    BY <1>1, <2>0, <2>1 DEF Inv, Remembered
  <2>2. ASSUME NEW d \in Drain, Commit(d), Fenced(d)
        PROVE  Forward
    <3>1. pc[d] = "commit" /\ lease = d /\ index' = docs[d]
      BY <2>2 DEF Commit, Fenced
    <3> QED
      BY <1>1, <3>1 DEF Inv, Everything, Ordered, Reading
  <2>3. ASSUME NEW d \in Drain, Delete(d), Fenced(d)
        PROVE  Forward
    BY <2>3 DEF Delete
  <2>4. ASSUME NEW d \in Drain, NEW e \in Entity, Insert(d, e), Fenced(d)
        PROVE  Forward
    <3>1. /\ pc[d] = "apart" /\ lease = d
          /\ \/ UNCHANGED <<index, spoilt>>
             \/ /\ index' = [index EXCEPT ![e] = docs[d][e]]
                /\ \A f \in Entity : f # e /\ f \in spoilt => f \in spoilt'
      BY <2>4 DEF Insert, Fenced
    <3>2. shown[e] <= docs[d][e]
      BY <1>1, <3>1 DEF Inv, Everything, Ordered, Reading
    <3>3. CASE UNCHANGED <<index, spoilt>>
      BY <2>1, <3>3
    <3>4. CASE index' = [index EXCEPT ![e] = docs[d][e]]
      <4>1. /\ index'[e] = docs[d][e]
            /\ \A f \in Entity : f # e => index'[f] = index[f]
        BY <1>1, <3>4 DEF Types
      <4>2. CASE UNCHANGED <<index, spoilt>>
        BY <2>1, <4>2
      <4>3. CASE ~UNCHANGED <<index, spoilt>>
        BY <1>1, <2>0, <3>1, <3>2, <4>1, <4>3 DEF Inv, Remembered
      <4> QED
        BY <4>2, <4>3
    <3> QED
      BY <3>1, <3>3, <3>4
  <2>5. ASSUME NEW d \in Drain, Complete(d)
        PROVE  Forward
    BY <1>1, <2>0, <2>5 DEF Complete, Inv, Remembered
  <2>6. \/ UNCHANGED <<index, spoilt>>
        \/ \E d \in Drain : \/ Commit(d) /\ Fenced(d)
                            \/ Delete(d) /\ Fenced(d)
                            \/ \E e \in Entity : Insert(d, e) /\ Fenced(d)
                            \/ Complete(d)
    BY <1>1, Zenon
       DEF Next, vars, Step, Command, Sweep, Reindex, Check, Invalidate,
           Acquire, ReadState, Read, Projected, Commit, TakeApart, Delete,
           Insert, Complete, AllRan, Crash, Write, Announce, FailToAnnounce,
           ExpireIdle, ExpireOverrun, indexVars
  <2> QED
    BY <2>1, <2>2, <2>3, <2>4, <2>5, <2>6
<1>2. Types /\ Inv /\ [Next]_vars => [Forward]_vars
  BY <1>1
<1> QED
  BY <1>2, TypesAlways, InvAlways, PTL DEF Spec, IndexNeverGoesBack

=============================================================================
