----------------------------- MODULE IntakeProofs -----------------------------
(***************************************************************************)
(* Proofs about what comes in: SubmissionCap and Sending, each by itself,  *)
(* and then Intake, which implements both, so that what is proved of these *)
(* holds of it; last, that what a submission stores fits the version it    *)
(* names.                                                                  *)
(*                                                                         *)
(* SubmissionCap, for any number of requests, submitters, unguarded        *)
(* submissions and deaths, any cap and any number of retries: nobody gets  *)
(* above the cap, and nobody is refused below it, as long as none of his   *)
(* unguarded submissions is decided meanwhile.  The argument: the guards   *)
(* of a submitter are numbered without a gap, after as many numbers as he  *)
(* has unguarded submissions.  A request counts at least those and at most *)
(* the places taken, so the number it goes for is the first free one or    *)
(* one taken since.                                                        *)
(*                                                                         *)
(* Sending: a job leaves its preview once.  Unqueued it has version 1 and  *)
(* queued it has version 2 and its key, so of the attempts that have read  *)
(* version 1 only the first one updates.  Everybody it has been told to is *)
(* then found under the key.                                               *)
(*                                                                         *)
(* Intake: the versions are followed from their insert to the opening of   *)
(* the form: asked and routed grow to what the snapshot holds, and only    *)
(* then is the publisher done.                                             *)
(***************************************************************************)
EXTENDS Intake, FiniteSetTheorems, TLAPS

-----------------------------------------------------------------------------
(* SubmissionCap *)

\* The places e has taken, those before the first guard among them.
Places(e) == Admitted(e) \union Waiting(e)
Taken(e)  == Cardinality(Places(e))
Before(e) == Cardinality(Waiting(e))

(* The inductive invariant, part by part. *)

Types ==
  /\ status   \in [Submissions -> {None, "submitted", "decided"}]
  /\ guard    \in [Email -> [Slot -> Call \union {None}]]
  /\ pc       \in [Call -> {"total", "count", "claim", "recount", "speakers", "done"}]
  /\ slot     \in [Call -> Nat]
  /\ attempts \in [Call -> Nat]
  /\ answer   \in [Call -> {None, "ok", "capped", "full", "lost"}]
  /\ DOMAIN rows = Call /\ DOMAIN hashes = Call

\* A request has no submission before its claim.
NotYet == \A c \in Call : pc[c] \in {"total", "count", "claim", "recount"}
                             => status[c] = None

\* The submissions from before the cap are complete.
Complete == Unguarded \subseteq speakers

\* Submissions with a guard are those the requests have made.
GuardsMatch ==
  \A e \in Email : /\ \A n \in Slot : guard[e][n] # None => guard[e][n] \in Admitted(e)
                   /\ \A c \in Admitted(e) : \E n \in Slot : guard[e][n] = c

\* The numbers of the guards have no gap.
NoGap ==
  \A e \in Email \ shrunk : \A n \in Slot :
     guard[e][n] # None <=> Before(e) < n /\ n <= Taken(e)

\* What a request has counted is still there.
CountedRows ==
  \A c \in Call : rows[c] # None =>
     /\ rows[c] \subseteq Submissions
     /\ Me(c) \notin shrunk => /\ Waiting(Me(c)) \subseteq rows[c]
                               /\ rows[c] \subseteq Places(Me(c))

CountedGuards ==
  \A c \in Call : hashes[c] # None => hashes[c] \subseteq Admitted(Me(c))

\* The number it goes for is free or was taken since; one it has lost was
\* counted.
Chosen ==
  \A c \in Call : Me(c) \notin shrunk =>
     /\ pc[c] = "claim" => /\ Before(Me(c)) < slot[c]
                           /\ slot[c] <= Taken(Me(c)) + 1
                           /\ slot[c] <= Cap
                           /\ hashes[c] = None
     /\ pc[c] = "recount" =>
          /\ slot[c] <= Taken(Me(c))
          /\ hashes[c] # None => slot[c] <= Before(Me(c)) + Cardinality(hashes[c])

\* Each number is tried once.
Tried ==
  \A c \in Call : Me(c) \notin shrunk =>
     /\ pc[c] \in {"total", "count"} => attempts[c] = 0
     /\ pc[c] = "claim" => attempts[c] < slot[c]
     /\ pc[c] = "recount" => attempts[c] <= slot[c]

Inv == /\ Types /\ NotYet /\ Complete /\ GuardsMatch /\ NoGap /\ CountedRows
       /\ CountedGuards /\ Chosen /\ Tried /\ CapKept /\ CappedOnlyWhenFull
-----------------------------------------------------------------------------
(* Counting *)

LEMMA DisjointUnion ==
  ASSUME NEW S, NEW T, IsFiniteSet(S), IsFiniteSet(T), S \intersect T = {}
  PROVE  /\ IsFiniteSet(S \union T)
         /\ Cardinality(S) \in Nat /\ Cardinality(T) \in Nat
         /\ Cardinality(S \union T) = Cardinality(S) + Cardinality(T)
<1>1. Cardinality(S) \in Nat /\ Cardinality(T) \in Nat
  BY FS_CardinalityType
<1>2. Cardinality(S \intersect T) = 0
  BY FS_EmptySet
<1>3. /\ IsFiniteSet(S \union T)
      /\ Cardinality(S \union T)
           = Cardinality(S) + Cardinality(T) - Cardinality(S \intersect T)
  BY FS_Union
<1> QED
  BY <1>1, <1>2, <1>3

LEMMA Counting ==
  ASSUME NEW e
  PROVE  /\ IsFiniteSet(Admitted(e)) /\ IsFiniteSet(Waiting(e))
         /\ IsFiniteSet(Places(e))
         /\ Taken(e) \in Nat /\ Before(e) \in Nat
         /\ Before(e) <= Taken(e)
         /\ Admitted(e) \intersect Waiting(e) = {}
         /\ Admitted(e) # {} => Before(e) < Taken(e)
         /\ Admitted(e) = {} => Taken(e) = Before(e)
<1>1. IsFiniteSet(Admitted(e)) /\ IsFiniteSet(Waiting(e))
  BY FiniteAssumption, FS_Subset DEF Admitted, Waiting
<1>2. IsFiniteSet(Places(e))
  BY <1>1, FS_Union DEF Places
<1>3. Admitted(e) \intersect Waiting(e) = {}
  BY EmailAssumption DEF Admitted, Waiting
<1>4. Taken(e) \in Nat /\ Before(e) \in Nat
  BY <1>1, <1>2, FS_CardinalityType DEF Taken, Before
<1>5. Before(e) <= Taken(e)
  BY <1>2, FS_Subset DEF Taken, Before, Places
<1>6. Admitted(e) # {} => Before(e) < Taken(e)
  <2>1. Waiting(e) \subseteq Places(e) /\ (Admitted(e) # {} => Waiting(e) # Places(e))
    BY <1>3 DEF Places
  <2>2. Cardinality(Places(e)) = Cardinality(Waiting(e)) => Places(e) = Waiting(e)
    BY <1>2, <2>1, FS_Subset
  <2> QED
    BY <1>4, <1>5, <2>1, <2>2 DEF Taken, Before
<1>7. Admitted(e) = {} => Taken(e) = Before(e)
  BY DEF Taken, Before, Places
<1> QED
  BY <1>1, <1>2, <1>3, <1>4, <1>5, <1>6, <1>7

LEMMA EffectiveIsNat ==
  ASSUME NEW c \in Call, hashes[c] \subseteq Call, rows[c] \subseteq Submissions
  PROVE  Effective(c) \in Nat
<1>1. IsFiniteSet(Submissions)
  BY FiniteAssumption, FS_Union DEF Submissions
<1>2. IsFiniteSet(hashes[c]) /\ IsFiniteSet(rows[c] \ hashes[c])
  BY <1>1, FiniteAssumption, FS_Subset
<1> QED
  BY <1>2, FS_CardinalityType DEF Effective

\* What a request counts lies between what it has seen and what is there.
LEMMA EffectiveBounds ==
  ASSUME NEW c \in Call, hashes[c] \subseteq Admitted(Me(c)),
         Waiting(Me(c)) \subseteq rows[c], rows[c] \subseteq Places(Me(c))
  PROVE  /\ Effective(c) \in Nat
         /\ Cardinality(hashes[c]) \in Nat
         /\ Effective(c) <= Taken(Me(c))
         /\ Before(Me(c)) + Cardinality(hashes[c]) <= Effective(c)
<1> DEFINE H == hashes[c]
           R == rows[c] \ hashes[c]
           W == Waiting(Me(c))
           P == Places(Me(c))
<1>1. IsFiniteSet(P) /\ IsFiniteSet(W) /\ Admitted(Me(c)) \intersect W = {}
  BY Counting
<1>2. H \subseteq P /\ R \subseteq P /\ H \intersect R = {} /\ H \intersect W = {}
      /\ H \union W \subseteq H \union R /\ H \union R \subseteq P
  BY <1>1 DEF Places
<1> HIDE DEF H, R, W, P
<1>3. IsFiniteSet(H) /\ IsFiniteSet(R)
  BY <1>1, <1>2, FS_Subset
<1>4. IsFiniteSet(H \union R) /\ Cardinality(H \union R) = Cardinality(H) + Cardinality(R)
      /\ Cardinality(H) \in Nat /\ Cardinality(R) \in Nat /\ Cardinality(W) \in Nat
  BY <1>1, <1>2, <1>3, DisjointUnion, FS_CardinalityType
<1>5. Cardinality(H \union W) = Cardinality(H) + Cardinality(W)
  BY <1>1, <1>2, <1>3, DisjointUnion
<1>6. Cardinality(H \union R) <= Cardinality(P)
  BY <1>1, <1>2, FS_Subset
<1>7. Cardinality(H \union W) <= Cardinality(H \union R)
  BY <1>2, <1>4, FS_Subset
<1>8. /\ Effective(c) = Cardinality(H) + Cardinality(R)
      /\ Taken(Me(c)) = Cardinality(P) /\ Before(Me(c)) = Cardinality(W)
  BY DEF Effective, Taken, Before, H, R, W, P
<1>9. Cardinality(P) \in Nat
  BY <1>1, FS_CardinalityType
<1> QED
  BY <1>4, <1>5, <1>6, <1>7, <1>8, <1>9 DEF H

-----------------------------------------------------------------------------
(* Init *)

LEMMA InvInit == Init => Inv
<1> SUFFICES ASSUME Init PROVE Inv
  OBVIOUS
<1> USE DEF Init
<1>1. Call \subseteq Submissions /\ Unguarded \subseteq Submissions
      /\ Call \intersect Unguarded = {}
  BY EmailAssumption DEF Submissions
<1>2. \A e : Admitted(e) = {}
  BY <1>1 DEF Admitted
<1>3. \A e : Taken(e) = Before(e) /\ Before(e) \in Nat
  BY <1>2, Counting
<1>4. Types
  BY DEF Types
<1>5. NotYet /\ Complete
  BY <1>1 DEF NotYet, Complete
<1>6. GuardsMatch
  BY <1>2 DEF GuardsMatch
<1>7. NoGap
  BY <1>3 DEF NoGap, Slot
<1>8. CountedRows /\ CountedGuards /\ Chosen /\ Tried
  BY DEF CountedRows, CountedGuards, Chosen, Tried
<1>9. CapKept
  BY <1>2 DEF CapKept
<1>10. CappedOnlyWhenFull
  BY NoneAssumption DEF CappedOnlyWhenFull
<1> QED
  BY <1>4, <1>5, <1>6, <1>7, <1>8, <1>9, <1>10 DEF Inv

-----------------------------------------------------------------------------
(* Steps *)

\* The submissions of everybody stay as they are.
LEMMA PlacesStay ==
  ASSUME UNCHANGED <<status, guard, shrunk>>, NEW e
  PROVE  /\ Admitted(e)' = Admitted(e) /\ Waiting(e)' = Waiting(e)
         /\ Places(e)' = Places(e) /\ Taken(e)' = Taken(e)
         /\ Before(e)' = Before(e)
<1>1. Admitted(e)' = Admitted(e) /\ Waiting(e)' = Waiting(e)
  BY DEF Admitted, Waiting, Me
<1> QED
  BY <1>1 DEF Places, Taken, Before

\* Steps that neither claim nor decide leave the first half alone.
LEMMA QuietStep ==
  ASSUME Inv, UNCHANGED <<status, guard, shrunk>>, Unguarded \subseteq speakers'
  PROVE  (Complete /\ GuardsMatch /\ NoGap /\ CapKept)'
<1> USE PlacesStay
<1>1. Complete'
  BY DEF Inv, Complete
<1>2. GuardsMatch'
  BY DEF Inv, GuardsMatch
<1>3. NoGap'
  BY DEF Inv, NoGap
<1>4. CapKept'
  BY DEF Inv, CapKept
<1> QED
  BY <1>1, <1>2, <1>3, <1>4

LEMMA CheckTotalStep ==
  ASSUME Inv, NEW c \in Call, CheckTotal(c)
  PROVE  Inv'
<1> USE PlacesStay
<1>1. /\ UNCHANGED <<status, speakers, guard, rows, hashes, slot, attempts, shrunk>>
      /\ pc[c] = "total"
      /\ \/ pc' = [pc EXCEPT ![c] = "done"] /\ answer' = [answer EXCEPT ![c] = "full"]
         \/ pc' = [pc EXCEPT ![c] = "count"] /\ answer' = answer
  BY DEF CheckTotal, Reply, Goto, histVars
<1>2. Complete' /\ GuardsMatch' /\ NoGap' /\ CapKept'
  BY <1>1, QuietStep DEF Inv, Complete
<1>3. Types'
  BY <1>1 DEF Inv, Types
<1>4. /\ pc'[c] \in {"count", "done"}
      /\ \A d \in Call : d # c => pc'[d] = pc[d]
      /\ \A d \in Call : answer'[d] = "capped" => answer[d] = "capped"
  BY <1>1 DEF Inv, Types
<1>5. NotYet' /\ Tried'
  BY <1>1, <1>4 DEF Inv, NotYet, Tried
<1>6. CountedRows' /\ CountedGuards' /\ Chosen'
  BY <1>1, <1>4 DEF Inv, CountedRows, CountedGuards, Chosen
<1>7. CappedOnlyWhenFull'
  BY <1>1, <1>4 DEF Inv, CappedOnlyWhenFull
<1> QED
  BY <1>2, <1>3, <1>5, <1>6, <1>7 DEF Inv

LEMMA CountRowsStep ==
  ASSUME Inv, NEW c \in Call, CountRows(c)
  PROVE  Inv'
<1> USE PlacesStay
<1> DEFINE R == {x \in Submissions : /\ status[x] = "submitted"
                                     /\ x \in speakers
                                     /\ By(x) = Me(c)}
<1>1. /\ UNCHANGED <<status, speakers, guard, pc, hashes, slot, attempts, answer, shrunk>>
      /\ rows' = [rows EXCEPT ![c] = R]
  BY DEF CountRows, histVars
<1>2. Complete' /\ GuardsMatch' /\ NoGap' /\ CapKept'
  BY <1>1, QuietStep DEF Inv, Complete
<1>3. R \subseteq Submissions /\ Waiting(Me(c)) \subseteq R /\ R \subseteq Places(Me(c))
  BY NoneAssumption, EmailAssumption
     DEF Inv, Complete, Submissions, Waiting, Places, Admitted, By, Me
<1> HIDE DEF R
<1>4. Types' /\ rows'[c] = R /\ \A d \in Call : d # c => rows'[d] = rows[d]
  BY <1>1 DEF Inv, Types
<1>5. NotYet' /\ Tried' /\ CountedGuards' /\ Chosen'
  BY <1>1 DEF Inv, NotYet, Tried, CountedGuards, Chosen
<1>6. CountedRows'
  BY <1>1, <1>3, <1>4 DEF Inv, CountedRows
<1>7. CappedOnlyWhenFull'
  BY <1>1 DEF Inv, CappedOnlyWhenFull
<1> QED
  BY <1>2, <1>4, <1>5, <1>6, <1>7 DEF Inv

LEMMA CountGuardsStep ==
  ASSUME Inv, NEW c \in Call, CountGuards(c)
  PROVE  Inv'
<1> USE PlacesStay
<1> DEFINE H == {guard[Me(c)][n] : n \in Slot} \ {None}
<1>1. /\ UNCHANGED <<status, speakers, guard, pc, rows, slot, attempts, answer, shrunk>>
      /\ hashes' = [hashes EXCEPT ![c] = H]
  BY DEF CountGuards, histVars
<1>2. Complete' /\ GuardsMatch' /\ NoGap' /\ CapKept'
  BY <1>1, QuietStep DEF Inv, Complete
<1>3. H = Admitted(Me(c))
  <2>1. Me(c) \in Email
    BY EmailAssumption DEF Me
  <2>2. None \notin Admitted(Me(c))
    BY NoneAssumption DEF Admitted
  <2> QED
    BY <2>1, <2>2 DEF Inv, GuardsMatch
<1> HIDE DEF H
<1>4. Types' /\ hashes'[c] = H /\ \A d \in Call : d # c => hashes'[d] = hashes[d]
  BY <1>1 DEF Inv, Types
<1>5. NotYet' /\ Tried' /\ CountedRows'
  BY <1>1 DEF Inv, NotYet, Tried, CountedRows
<1>6. CountedGuards'
  BY <1>1, <1>3, <1>4 DEF Inv, CountedGuards
<1>7. Before(Me(c)) + Cardinality(H) = Taken(Me(c))
  BY <1>3, Counting, DisjointUnion DEF Taken, Before, Places
<1>8. Chosen'
  BY <1>1, <1>4, <1>7 DEF Inv, Chosen, CountGuards
<1>9. CappedOnlyWhenFull'
  BY <1>1 DEF Inv, CappedOnlyWhenFull
<1> QED
  BY <1>2, <1>4, <1>5, <1>6, <1>8, <1>9 DEF Inv

LEMMA CompareStep ==
  ASSUME Inv, NEW c \in Call, Compare(c)
  PROVE  Inv'
<1> USE PlacesStay
<1>1. /\ UNCHANGED <<status, speakers, guard, attempts, shrunk>>
      /\ pc[c] \in {"count", "recount"} /\ rows[c] # None /\ hashes[c] # None
      /\ rows' = [rows EXCEPT ![c] = None] /\ hashes' = [hashes EXCEPT ![c] = None]
  BY DEF Compare, histVars
<1>2. \/ /\ Effective(c) >= Cap \/ Exhausted(c)
         /\ pc' = [pc EXCEPT ![c] = "done"] /\ answer' = [answer EXCEPT ![c] = "capped"]
         /\ slot' = slot
      \/ /\ ~(Effective(c) >= Cap)
         /\ pc' = [pc EXCEPT ![c] = "claim"] /\ answer' = answer
         /\ slot' = [slot EXCEPT ![c] = NextSlot(c, Effective(c))]
  BY DEF Compare, Reply, Goto
<1>3. Complete' /\ GuardsMatch' /\ NoGap' /\ CapKept'
  BY <1>1, QuietStep DEF Inv, Complete
<1>4. Effective(c) \in Nat
  <2>1. hashes[c] \subseteq Call /\ rows[c] \subseteq Submissions
    BY <1>1 DEF Inv, CountedGuards, CountedRows, Admitted
  <2> QED
    BY <2>1, EffectiveIsNat
<1>5. NextSlot(c, Effective(c)) \in Nat
  BY <1>4 DEF NextSlot, Inv, Types
<1>6. Types'
  BY <1>1, <1>2, <1>5 DEF Inv, Types
<1>7. /\ \A d \in Call : d # c => /\ pc'[d] = pc[d] /\ slot'[d] = slot[d]
                                 /\ rows'[d] = rows[d] /\ hashes'[d] = hashes[d]
                                 /\ answer'[d] = answer[d]
      /\ rows'[c] = None /\ hashes'[c] = None
      /\ pc'[c] \in {"claim", "done"}
  BY <1>1, <1>2 DEF Inv, Types
<1>8. NotYet' /\ CountedRows' /\ CountedGuards'
  BY <1>1, <1>7 DEF Inv, NotYet, CountedRows, CountedGuards
<1>9. ASSUME Me(c) \notin shrunk
      PROVE  /\ Before(Me(c)) <= Effective(c) /\ Effective(c) <= Taken(Me(c))
             /\ pc[c] = "recount" => slot[c] <= Effective(c)
  <2>1. /\ hashes[c] \subseteq Admitted(Me(c))
        /\ Waiting(Me(c)) \subseteq rows[c] /\ rows[c] \subseteq Places(Me(c))
    BY <1>1, <1>9 DEF Inv, CountedRows, CountedGuards
  <2>2. /\ Cardinality(hashes[c]) \in Nat
        /\ Effective(c) <= Taken(Me(c))
        /\ Before(Me(c)) + Cardinality(hashes[c]) <= Effective(c)
    BY <2>1, EffectiveBounds
  <2>3. Before(Me(c)) \in Nat /\ slot[c] \in Nat
    BY Counting DEF Inv, Types
  <2>4. pc[c] = "recount" => slot[c] <= Before(Me(c)) + Cardinality(hashes[c])
    BY <1>1, <1>9 DEF Inv, Chosen
  <2> QED
    BY <1>4, <2>2, <2>3, <2>4
<1>10. Cap \in Nat /\ Retries \in Nat /\ \A d \in Call : slot[d] \in Nat /\ attempts[d] \in Nat
       /\ Taken(Me(c)) \in Nat /\ Before(Me(c)) \in Nat
  BY LimitAssumption, Counting DEF Inv, Types
<1>11. ASSUME Me(c) \notin shrunk, pc'[c] = "claim"
       PROVE  slot'[c] = Effective(c) + 1 /\ Effective(c) < Cap
  BY <1>1, <1>2, <1>4, <1>9, <1>10, <1>11 DEF Inv, Types, NextSlot
<1>12. Chosen'
  BY <1>1, <1>4, <1>7, <1>9, <1>10, <1>11 DEF Inv, Chosen
<1>13. Tried'
  BY <1>1, <1>4, <1>7, <1>9, <1>10, <1>11 DEF Inv, Tried
<1>14. CappedOnlyWhenFull'
  <2>1. ASSUME answer'[c] = "capped", answer[c] # "capped", Me(c) \notin shrunk
        PROVE  Taken(Me(c)) >= Cap
    <3>1. Effective(c) >= Cap \/ Exhausted(c)
      BY <1>2, <2>1
    <3>2. CASE Effective(c) >= Cap
      BY <1>4, <1>9, <1>10, <2>1, <3>2
    <3>3. CASE Exhausted(c)
      <4>1. pc[c] = "recount" /\ attempts[c] >= Cap + Retries /\ attempts[c] <= slot[c]
        BY <2>1, <3>3 DEF Exhausted, Inv, Tried
      <4> QED
        BY <1>4, <1>9, <1>10, <2>1, <4>1
    <3> QED
      BY <3>1, <3>2, <3>3
  <2> QED
    BY <1>1, <1>7, <2>1 DEF Inv, CappedOnlyWhenFull, Taken, Places
<1> QED
  BY <1>3, <1>6, <1>8, <1>12, <1>13, <1>14 DEF Inv

\* A claim that is lost: the number was taken by another request.
LEMMA LostClaim ==
  ASSUME Inv, NEW c \in Call, Claim(c), ~GuardFree(c)
  PROVE  Inv'
<1> USE PlacesStay
<1>1. /\ UNCHANGED <<status, speakers, guard, rows, hashes, slot, answer, shrunk>>
      /\ pc[c] = "claim" /\ slot[c] \in Slot
      /\ pc' = [pc EXCEPT ![c] = "recount"]
      /\ attempts' = [attempts EXCEPT ![c] = attempts[c] + 1]
  BY DEF Claim, Goto, histVars
<1>2. Complete' /\ GuardsMatch' /\ NoGap' /\ CapKept'
  BY <1>1, QuietStep DEF Inv, Complete
<1>3. /\ Types'
      /\ pc'[c] = "recount" /\ attempts'[c] = attempts[c] + 1
      /\ \A d \in Call : d # c => pc'[d] = pc[d] /\ attempts'[d] = attempts[d]
  BY <1>1 DEF Inv, Types
<1>4. NotYet' /\ CountedRows' /\ CountedGuards' /\ CappedOnlyWhenFull'
  BY <1>1, <1>3 DEF Inv, NotYet, CountedRows, CountedGuards, CappedOnlyWhenFull
<1>5. Tried'
  <2>1. attempts[c] \in Nat /\ slot[c] \in Nat
    BY DEF Inv, Types
  <2> QED
    BY <1>1, <1>3, <2>1 DEF Inv, Tried
<1>6. Me(c) \notin shrunk => slot[c] <= Taken(Me(c))
  BY <1>1, EmailAssumption DEF GuardFree, Inv, NoGap, Me
<1>7. Chosen'
  BY <1>1, <1>3, <1>6 DEF Inv, Chosen
<1> QED
  BY <1>2, <1>3, <1>4, <1>5, <1>7 DEF Inv

\* A claim that succeeds: one more submission, under the first free number.
LEMMA WonClaim ==
  ASSUME Inv, NEW c \in Call, Claim(c), GuardFree(c)
  PROVE  Inv'
<1> DEFINE e0 == Me(c)
<1>1. /\ UNCHANGED <<speakers, rows, hashes, slot, attempts, answer, shrunk>>
      /\ pc[c] = "claim" /\ slot[c] \in Slot /\ guard[e0][slot[c]] = None
      /\ pc' = [pc EXCEPT ![c] = "speakers"]
      /\ status' = [status EXCEPT ![c] = "submitted"]
      /\ guard' = [guard EXCEPT ![e0] = [guard[e0] EXCEPT ![slot[c]] = c]]
  BY DEF Claim, Goto, histVars, GuardFree
<1>2. e0 \in Email /\ c \in Submissions /\ c \notin Unguarded /\ None \notin Call
  BY EmailAssumption, NoneAssumption DEF Me, Submissions
<1>3. /\ Types'
      /\ pc'[c] = "speakers" /\ status'[c] = "submitted"
      /\ \A d \in Call : d # c => pc'[d] = pc[d]
      /\ \A x \in Submissions : x # c => status'[x] = status[x]
      /\ guard'[e0][slot[c]] = c
      /\ \A n \in Slot : n # slot[c] => guard'[e0][n] = guard[e0][n]
      /\ \A e \in Email : e # e0 => guard'[e] = guard[e]
  BY <1>1, <1>2 DEF Inv, Types
<1>4. status[c] = None
  BY <1>1 DEF Inv, NotYet
<1>5. /\ Admitted(e0)' = Admitted(e0) \union {c} /\ c \notin Admitted(e0)
      /\ \A e : e # e0 => Admitted(e)' = Admitted(e)
      /\ \A e : Waiting(e)' = Waiting(e)
  <2>1. None # "submitted" /\ Call \subseteq Submissions /\ Unguarded \subseteq Submissions
    BY NoneAssumption DEF Submissions
  <2>2. \A e : Waiting(e)' = Waiting(e)
    BY <1>2, <1>3, <2>1 DEF Waiting
  <2>3. \A e : e # e0 => Admitted(e)' = Admitted(e)
    BY <1>2, <1>3, <2>1 DEF Admitted, Me
  <2>4. Admitted(e0)' = Admitted(e0) \union {c} /\ c \notin Admitted(e0)
    BY <1>2, <1>3, <1>4, <2>1 DEF Admitted, Me
  <2> QED
    BY <2>2, <2>3, <2>4
<1>6. /\ Taken(e0)' = Taken(e0) + 1 /\ Before(e0)' = Before(e0)
      /\ \A e : e # e0 => Taken(e)' = Taken(e) /\ Before(e)' = Before(e)
      /\ \A e : Places(e) \subseteq Places(e)' /\ Taken(e)' >= Taken(e)
      /\ \A e : Taken(e) \in Nat /\ Before(e) \in Nat
  <2>1. Places(e0)' = Places(e0) \union {c} /\ c \notin Places(e0)
    BY <1>2, <1>5 DEF Places, Waiting
  <2>2. Taken(e0)' = Taken(e0) + 1
    BY <2>1, Counting, FS_AddElement DEF Taken
  <2>3. \A e : e # e0 => Taken(e)' = Taken(e) /\ Places(e)' = Places(e)
    BY <1>5 DEF Taken, Places
  <2>4. \A e : Before(e)' = Before(e)
    BY <1>5 DEF Before
  <2>5. \A e : Taken(e) \in Nat /\ Before(e) \in Nat
    BY Counting
  <2> QED
    BY <2>1, <2>2, <2>3, <2>4, <2>5
<1> HIDE DEF e0
<1>7. slot[c] \in Nat /\ (e0 \notin shrunk => slot[c] = Taken(e0) + 1 /\ slot[c] <= Cap)
  <2>1. slot[c] \in Nat
    BY DEF Inv, Types
  <2>2. e0 \notin shrunk => /\ ~(Before(e0) < slot[c] /\ slot[c] <= Taken(e0))
                            /\ Before(e0) < slot[c] /\ slot[c] <= Taken(e0) + 1
                            /\ slot[c] <= Cap
    BY <1>1, <1>2 DEF Inv, NoGap, Chosen, e0
  <2> QED
    BY <1>6, <2>1, <2>2
<1>8. NotYet' /\ Complete'
  BY <1>1, <1>2, <1>3 DEF Inv, NotYet, Complete, Submissions
<1>9. GuardsMatch'
  <2>1. ASSUME NEW e \in Email, e # e0
        PROVE  /\ \A n \in Slot : guard'[e][n] # None => guard'[e][n] \in Admitted(e)'
               /\ \A d \in Admitted(e)' : \E n \in Slot : guard'[e][n] = d
    BY <1>3, <1>5, <2>1 DEF Inv, GuardsMatch
  <2>2. \A n \in Slot : guard'[e0][n] # None => guard'[e0][n] \in Admitted(e0)'
    BY <1>2, <1>3, <1>5 DEF Inv, GuardsMatch
  <2>3. \A d \in Admitted(e0)' : \E n \in Slot : guard'[e0][n] = d
    <3>1. ASSUME NEW d \in Admitted(e0) PROVE \E n \in Slot : guard'[e0][n] = d
      <4>1. PICK n \in Slot : guard[e0][n] = d
        BY <1>2 DEF Inv, GuardsMatch
      <4>2. n # slot[c]
        BY <1>1, <1>2, <4>1 DEF Admitted
      <4> QED
        BY <1>3, <4>1, <4>2
    <3> QED
      BY <1>1, <1>3, <1>5, <3>1
  <2> QED
    BY <2>1, <2>2, <2>3 DEF GuardsMatch
<1>10. NoGap'
  <2>1. ASSUME NEW e \in Email \ shrunk, NEW n \in Slot, e # e0
        PROVE  guard'[e][n] # None <=> Before(e)' < n /\ n <= Taken(e)'
    BY <1>3, <1>6, <2>1 DEF Inv, NoGap
  <2>2. ASSUME e0 \notin shrunk, NEW n \in Slot
        PROVE  guard'[e0][n] # None <=> Before(e0)' < n /\ n <= Taken(e0)'
    <3>1. CASE n = slot[c]
      <4>1. Before(e0) <= Taken(e0)
        BY Counting
      <4> QED
        BY <1>2, <1>3, <1>6, <1>7, <2>2, <3>1, <4>1
    <3>2. CASE n # slot[c]
      <4>1. n \in Int
        BY DEF Slot
      <4>2. guard'[e0][n] # None <=> Before(e0) < n /\ n <= Taken(e0)
        BY <1>2, <1>3, <2>2, <3>2 DEF Inv, NoGap
      <4> QED
        BY <1>6, <1>7, <2>2, <3>2, <4>1, <4>2
    <3> QED
      BY <3>1, <3>2
  <2> QED
    BY <1>1, <1>2, <2>1, <2>2 DEF NoGap
<1>11. CountedRows'
  BY <1>1, <1>5, <1>6 DEF Inv, CountedRows, Me
<1>12. CountedGuards'
  BY <1>1, <1>5 DEF Inv, CountedGuards, Me
<1>13. Chosen'
  <2>1. \A d \in Call : Taken(Me(d))' >= Taken(Me(d)) /\ Before(Me(d))' = Before(Me(d))
        /\ Taken(Me(d))' \in Nat /\ Taken(Me(d)) \in Nat
    BY <1>6
  <2>2. \A d \in Call : Me(d)' = Me(d) /\ slot[d] \in Nat
    BY DEF Me, Inv, Types
  <2> QED
    BY <1>1, <1>3, <2>1, <2>2 DEF Inv, Chosen
<1>14. Tried'
  BY <1>1, <1>3 DEF Inv, Tried, Me
<1>15. CapKept'
  BY <1>1, <1>5, <1>6, <1>7 DEF Inv, CapKept, Taken, Places
<1>16. CappedOnlyWhenFull'
  <2>1. \A e : Taken(e)' >= Taken(e) /\ Taken(e)' \in Nat /\ Taken(e) \in Nat /\ Cap \in Nat
    BY <1>6, LimitAssumption
  <2>2. \A d \in Call : answer[d] = "capped" /\ Me(d) \notin shrunk
                       => Taken(Me(d)) >= Cap
    BY DEF Inv, CappedOnlyWhenFull, Taken, Places
  <2>3. \A d \in Call : answer[d] = "capped" /\ Me(d) \notin shrunk
                       => Taken(Me(d))' >= Cap
    BY <2>1, <2>2
  <2>4. \A d \in Call : answer'[d] = "capped" /\ Me(d) \notin shrunk'
                       => Cardinality((Admitted(Me(d)) \union Waiting(Me(d)))') >= Cap
    BY <1>1, <2>3 DEF Taken, Places, Me
  <2> QED
    BY <2>4 DEF CappedOnlyWhenFull
<1> QED
  BY <1>3, <1>8, <1>9, <1>10, <1>11, <1>12, <1>13, <1>14, <1>15, <1>16 DEF Inv

LEMMA WriteSpeakersStep ==
  ASSUME Inv, NEW c \in Call, WriteSpeakers(c)
  PROVE  Inv'
<1> USE PlacesStay
<1>1. /\ UNCHANGED <<status, guard, rows, hashes, slot, attempts, shrunk>>
      /\ speakers' = speakers \union {c}
      /\ pc' = [pc EXCEPT ![c] = "done"] /\ answer' = [answer EXCEPT ![c] = "ok"]
  BY DEF WriteSpeakers, Reply, Goto, histVars
<1>2. Complete' /\ GuardsMatch' /\ NoGap' /\ CapKept'
  BY <1>1, QuietStep DEF Inv, Complete
<1>3. /\ Types'
      /\ pc'[c] = "done" /\ \A d \in Call : d # c => pc'[d] = pc[d]
      /\ \A d \in Call : answer'[d] = "capped" => answer[d] = "capped"
  BY <1>1 DEF Inv, Types
<1>4. NotYet' /\ CountedRows' /\ CountedGuards' /\ Chosen' /\ Tried'
  BY <1>1, <1>3 DEF Inv, NotYet, CountedRows, CountedGuards, Chosen, Tried
<1>5. CappedOnlyWhenFull'
  BY <1>1, <1>3 DEF Inv, CappedOnlyWhenFull
<1> QED
  BY <1>2, <1>3, <1>4, <1>5 DEF Inv

LEMMA DieStep ==
  ASSUME Inv, NEW c \in Call, Die(c)
  PROVE  Inv'
<1> USE PlacesStay
<1>1. /\ UNCHANGED <<status, speakers, guard, slot, attempts, shrunk>>
      /\ pc' = [pc EXCEPT ![c] = "done"] /\ answer' = [answer EXCEPT ![c] = "lost"]
      /\ rows' = [rows EXCEPT ![c] = None] /\ hashes' = [hashes EXCEPT ![c] = None]
  BY DEF Die, Reply, Goto
<1>2. Complete' /\ GuardsMatch' /\ NoGap' /\ CapKept'
  BY <1>1, QuietStep DEF Inv, Complete
<1>3. /\ Types'
      /\ pc'[c] = "done" /\ rows'[c] = None /\ hashes'[c] = None
      /\ \A d \in Call : d # c => /\ pc'[d] = pc[d] /\ rows'[d] = rows[d]
                                  /\ hashes'[d] = hashes[d]
      /\ \A d \in Call : answer'[d] = "capped" => answer[d] = "capped"
  BY <1>1 DEF Inv, Types
<1>4. NotYet' /\ CountedRows' /\ CountedGuards' /\ Chosen' /\ Tried'
  BY <1>1, <1>3 DEF Inv, NotYet, CountedRows, CountedGuards, Chosen, Tried
<1>5. CappedOnlyWhenFull'
  BY <1>1, <1>3 DEF Inv, CappedOnlyWhenFull
<1> QED
  BY <1>2, <1>3, <1>4, <1>5 DEF Inv

\* A decision moves nobody's places but those of a submitter it is recorded
\* as having shrunk.
LEMMA DecideStep ==
  ASSUME Inv, NEW x \in Submissions, Decide(x)
  PROVE  Inv'
<1>1. /\ UNCHANGED <<speakers, guard, pc, rows, hashes, slot, attempts, answer>>
      /\ status[x] = "submitted"
      /\ status' = [status EXCEPT ![x] = "decided"]
      /\ x \in Unguarded => By(x) \in shrunk'
      /\ shrunk \subseteq shrunk'
  BY DEF Decide
<1>2. None # "submitted" /\ None # "decided" /\ Call \intersect Unguarded = {}
      /\ Call \subseteq Submissions /\ Unguarded \subseteq Submissions
  BY NoneAssumption, EmailAssumption DEF Submissions
<1>3. /\ Types' /\ status'[x] = "decided"
      /\ \A y \in Submissions : y # x => status'[y] = status[y]
  BY <1>1 DEF Inv, Types
<1>4. \A e : Admitted(e)' = Admitted(e)
  BY <1>1, <1>2, <1>3 DEF Admitted, Me
<1>5. \A e : e \notin shrunk' => Waiting(e)' = Waiting(e)
  BY <1>1, <1>2, <1>3 DEF Waiting, By
<1>6. \A e : e \notin shrunk' => /\ Places(e)' = Places(e)
                                 /\ Taken(e)' = Taken(e) /\ Before(e)' = Before(e)
  BY <1>4, <1>5 DEF Places, Taken, Before
<1>7. NotYet' /\ Complete'
  BY <1>1, <1>2, <1>3 DEF Inv, NotYet, Complete
<1>8. GuardsMatch'
  BY <1>1, <1>4 DEF Inv, GuardsMatch
<1>9. NoGap'
  BY <1>1, <1>6 DEF Inv, NoGap
<1>10. CountedRows' /\ CountedGuards'
  BY <1>1, <1>4, <1>5, <1>6 DEF Inv, CountedRows, CountedGuards, Me
<1>11. Chosen' /\ Tried'
  BY <1>1, <1>6 DEF Inv, Chosen, Tried, Me
<1>12. CapKept'
  BY <1>1, <1>4, <1>5 DEF Inv, CapKept
<1>13. CappedOnlyWhenFull'
  BY <1>1, <1>4, <1>5 DEF Inv, CappedOnlyWhenFull, Me
<1> QED
  BY <1>3, <1>7, <1>8, <1>9, <1>10, <1>11, <1>12, <1>13 DEF Inv

LEMMA InvStep == Inv /\ [Next]_vars => Inv'
<1> SUFFICES ASSUME Inv, [Next]_vars PROVE Inv'
  OBVIOUS
<1>1. CASE UNCHANGED vars
  <2> USE PlacesStay, <1>1 DEF vars, histVars
  <2>1. Complete' /\ GuardsMatch' /\ NoGap' /\ CapKept'
    BY QuietStep DEF Inv, Complete
  <2>2. Types' /\ NotYet' /\ CountedRows' /\ CountedGuards'
    BY DEF Inv, Types, NotYet, CountedRows, CountedGuards
  <2>3. Chosen' /\ Tried' /\ CappedOnlyWhenFull'
    BY DEF Inv, Chosen, Tried, CappedOnlyWhenFull
  <2> QED
    BY <2>1, <2>2, <2>3 DEF Inv
<1>2. ASSUME NEW c \in Call, Step(c) PROVE Inv'
  BY <1>2, CheckTotalStep, CountRowsStep, CountGuardsStep, CompareStep, LostClaim,
     WonClaim, WriteSpeakersStep DEF Step
<1> QED
  BY <1>1, <1>2, DieStep, DecideStep DEF Next

LEMMA InvAlways == Spec => []Inv
BY InvInit, InvStep, PTL DEF Spec

\* Nobody gets more places than the cap, however many requests he sends at
\* once and in whatever order they count and claim.
THEOREM CapIsKept == Spec => []CapKept
<1>1. Inv => CapKept
  BY DEF Inv
<1> QED
  BY <1>1, InvAlways, PTL

\* Nobody is refused a place that is free, neither by a count that was stale
\* nor by the bound on the attempts.
THEOREM CappedMeansFull == Spec => []CappedOnlyWhenFull
<1>1. Inv => CappedOnlyWhenFull
  BY DEF Inv
<1> QED
  BY <1>1, InvAlways, PTL

-----------------------------------------------------------------------------
(* Sending *)

SendTypes ==
  /\ job    \in [Preview -> [version : Nat, key : Key \union {Missing}]]
  /\ keys   \in [Key -> Wish \union {Missing}]
  /\ posted \subseteq Sender
  /\ invite \in [Placement -> Nat \union {Missing}]
  /\ wish   \in [Sender -> Wish \union Placement \union {Missing}]
  /\ phase  \in [Sender -> {"begin", "never", "job", "preview", "batch", "again",
                            "invite", "done"}]
  /\ held   \in [Sender -> Nat \union {Missing}]
  /\ reply  \in [Sender -> Replies \union {Missing}]

\* What a request on its way was sent with
Asking == \A s \in Sender :
  /\ phase[s] \in {"job", "preview", "batch", "again"} => wish[s] \in Wish
  /\ phase[s] = "invite" => wish[s] \in Placement
  /\ phase[s] # "done" => s \notin posted /\ reply[s] = Missing

\* A preview has version 1 until it is queued, and nobody else is read.
Versions ==
  /\ \A p \in Preview : job[p].version = IF job[p].key = Missing THEN 1 ELSE 2
  /\ \A s \in Sender : phase[s] = "batch" => held[s] = 1

\* What has been posted is in the job and under the key, ...
InJob == \A s \in posted : /\ wish[s] \in Wish
                           /\ job[wish[s].preview].key = wish[s].key
\* ... and what is under a key has been posted.
Keyed == \A k \in Key : keys[k] # Missing =>
  /\ keys[k].key = k
  /\ \E t \in posted : wish[t] = keys[k]

\* An invite issued has a SEQUENCE that the placement has reached.
Reached == \A s \in Sender : reply[s] = "issued" =>
  /\ wish[s] \in Placement /\ held[s] \in Nat
  /\ invite[wish[s]] \in Nat /\ held[s] <= invite[wish[s]]

\* The mailing it has asked for is on its way.
Told(s) == \E t \in posted : wish[t] = wish[s] /\ Queued(wish[t].preview)

SendInv == /\ SendTypes /\ Asking /\ Versions /\ InJob /\ Keyed /\ Reached
           /\ SentOnce /\ InvitesOrdered

LEMMA SendInvInit == SendInit => SendInv
<1> SUFFICES ASSUME SendInit PROVE SendInv
  OBVIOUS
<1> USE DEF SendInit
<1>1. SendTypes
  BY DEF SendTypes
<1>2. Asking /\ Versions /\ InJob /\ Keyed
  BY <1>1 DEF SendTypes, Asking, Versions, InJob, Keyed
<1>3. Reached /\ SentOnce /\ InvitesOrdered
  BY MissingAssumption DEF Reached, SentOnce, InvitesOrdered
<1> QED
  BY <1>1, <1>2, <1>3 DEF SendInv

\* A step of a request that posts nothing and issues nothing, and does not
\* answer or answers something that is true
LEMMA QuietSend ==
  ASSUME SendInv, NEW s \in Sender, SendTypes', Asking', Versions',
         UNCHANGED <<job, keys, posted, invite>>,
         phase[s] # "done",
         \A t \in Sender : t # s => /\ wish'[t] = wish[t] /\ phase'[t] = phase[t]
                                    /\ reply'[t] = reply[t] /\ held'[t] = held[t],
         reply'[s] \notin {"sent", "issued"},
         reply'[s] = "replayed" => wish'[s] \in Wish /\ keys[wish'[s].key] = wish'[s]
  PROVE  SendInv'
<1>1. s \notin posted /\ posted \subseteq Sender
  BY DEF SendInv, Asking, SendTypes
<1>2. InJob' /\ Keyed'
  BY <1>1 DEF SendInv, InJob, Keyed
<1>3. Reached' /\ InvitesOrdered'
  BY DEF SendInv, Reached, InvitesOrdered
<1>4. ASSUME reply'[s] = "replayed"
      PROVE  Told(s)'
  <2>1. /\ wish'[s] \in Wish /\ wish'[s].key \in Key
        /\ keys[wish'[s].key] = wish'[s] /\ wish'[s] # Missing
        /\ wish'[s].key # Missing
    BY <1>4, MissingAssumption DEF Wish
  <2>2. PICK t \in posted : wish[t] = wish'[s]
    BY <2>1 DEF SendInv, Keyed
  <2>3. job[wish[t].preview].key = wish[t].key /\ wish[t].key # Missing
    BY <2>1, <2>2, MissingAssumption DEF SendInv, InJob
  <2>4. wish'[t] = wish[t]
    BY <1>1, <2>2
  <2>5. t \in posted' /\ Queued(wish[t].preview)'
    BY <2>3, <2>4 DEF Queued
  <2> QED
    BY <2>2, <2>4, <2>5 DEF Told, Queued
<1>5. SentOnce'
  <2>1. \A t \in posted : wish'[t] = wish[t]
    BY <1>1
  <2>2. ASSUME NEW r \in Sender, reply'[r] \in {"sent", "replayed"}
        PROVE  Told(r)'
    <3>1. CASE r = s
      BY <3>1, <2>2, <1>4
    <3>2. CASE r # s
      <4>1. Told(r)
        BY <3>2, <2>2 DEF SendInv, SentOnce, Told
      <4> QED
        BY <4>1, <3>2, <2>1 DEF Told, Queued
    <3> QED
      BY <3>1, <3>2
  <2>3. \A t, u \in posted' :
          wish'[t].key = wish'[u].key \/ wish'[t].preview = wish'[u].preview => t = u
    BY <2>1 DEF SendInv, SentOnce
  <2> QED
    BY <2>2, <2>3 DEF SentOnce, Told
<1> QED
  BY <1>2, <1>3, <1>5 DEF SendInv

LEMMA SendStepInv ==
  ASSUME SendInv, NEW s \in Sender, NEW w \in Wish, Send(s, w)
  PROVE  SendInv'
<1>1. /\ phase[s] = "begin" /\ wish' = [wish EXCEPT ![s] = w]
      /\ UNCHANGED <<job, keys, posted, invite, held>>
  BY DEF Send
<1>2. SendTypes'
  BY <1>1 DEF Send, Return, Phase, SendInv, SendTypes, Replies
<1>3. Asking' /\ Versions'
  BY <1>1 DEF Send, Return, Phase, SendInv, SendTypes, Asking, Versions
<1>4. /\ reply'[s] \notin {"sent", "issued"}
      /\ reply'[s] = "replayed" => wish'[s] \in Wish /\ keys[wish'[s].key] = wish'[s]
  BY <1>1, MissingAssumption DEF Send, Return, Phase, SendInv, SendTypes, Asking
<1>5. \A t \in Sender : t # s => /\ wish'[t] = wish[t] /\ phase'[t] = phase[t]
                                 /\ reply'[t] = reply[t] /\ held'[t] = held[t]
  BY <1>1 DEF Send, Return, Phase, SendInv, SendTypes
<1> QED
  BY <1>1, <1>2, <1>3, <1>4, <1>5, QuietSend

LEMMA FindByKeyInv ==
  ASSUME SendInv, NEW s \in Sender, FindByKey(s)
  PROVE  SendInv'
<1>1. phase[s] = "job" /\ UNCHANGED <<job, keys, posted, invite, wish, held>>
  BY DEF FindByKey
<1>2. SendTypes'
  BY <1>1 DEF FindByKey, Return, Phase, SendInv, SendTypes, Replies
<1>3. Asking' /\ Versions'
  BY <1>1 DEF FindByKey, Return, Phase, SendInv, SendTypes, Asking, Versions
<1>4. reply'[s] \notin {"sent", "issued", "replayed"}
  BY <1>1, MissingAssumption DEF FindByKey, Return, Phase, SendInv, SendTypes, Asking
<1>5. \A t \in Sender : t # s => phase'[t] = phase[t] /\ reply'[t] = reply[t]
  BY <1>1 DEF FindByKey, Return, Phase, SendInv, SendTypes
<1> QED
  BY <1>1, <1>2, <1>3, <1>4, <1>5, QuietSend

LEMMA FindPreviewInv ==
  ASSUME SendInv, NEW s \in Sender, FindPreview(s)
  PROVE  SendInv'
<1>1. phase[s] = "preview" /\ UNCHANGED <<job, keys, posted, invite, wish>>
  BY DEF FindPreview
<1>2. wish[s] \in Wish /\ wish[s].preview \in Preview
  BY <1>1 DEF SendInv, Asking, Wish
<1>3. SendTypes'
  BY <1>1, <1>2 DEF FindPreview, Return, Phase, SendInv, SendTypes, Replies
<1>4. Asking' /\ Versions'
  BY <1>1, <1>2 DEF FindPreview, Return, Phase, SendInv, SendTypes, Asking, Versions, Queued
<1>5. reply'[s] \notin {"sent", "issued", "replayed"}
  BY <1>1, MissingAssumption DEF FindPreview, Return, Phase, SendInv, SendTypes, Asking
<1>6. \A t \in Sender : t # s => /\ phase'[t] = phase[t] /\ reply'[t] = reply[t]
                                 /\ held'[t] = held[t]
  BY <1>1 DEF FindPreview, Return, Phase, SendInv, SendTypes
<1> QED
  BY <1>1, <1>3, <1>4, <1>5, <1>6, QuietSend

LEMMA ReadAgainInv ==
  ASSUME SendInv, NEW s \in Sender, ReadAgain(s)
  PROVE  SendInv'
<1>1. phase[s] = "again" /\ UNCHANGED <<job, keys, posted, invite, wish, held>>
  BY DEF ReadAgain
<1>2. wish[s] \in Wish
  BY <1>1 DEF SendInv, Asking
<1>3. SendTypes'
  BY <1>1 DEF ReadAgain, Return, Phase, SendInv, SendTypes, Replies
<1>4. Asking' /\ Versions'
  BY <1>1 DEF ReadAgain, Return, Phase, SendInv, SendTypes, Asking, Versions
<1>5. /\ reply'[s] \notin {"sent", "issued"}
      /\ reply'[s] = "replayed" => keys[wish[s].key] = wish[s]
  BY <1>1 DEF ReadAgain, Return, Phase, SendInv, SendTypes
<1>6. \A t \in Sender : t # s => phase'[t] = phase[t] /\ reply'[t] = reply[t]
  BY <1>1 DEF ReadAgain, Return, Phase, SendInv, SendTypes
<1> QED
  BY <1>1, <1>2, <1>3, <1>4, <1>5, <1>6, QuietSend

LEMMA ReadInviteInv ==
  ASSUME SendInv, NEW s \in Sender, NEW q \in Placement, ReadInvite(s, q)
  PROVE  SendInv'
<1>1. phase[s] = "begin" /\ UNCHANGED <<job, keys, posted, invite, reply>>
  BY DEF ReadInvite
<1>2. SendTypes'
  BY <1>1 DEF ReadInvite, Phase, SendInv, SendTypes
<1>3. Asking' /\ Versions'
  BY <1>1 DEF ReadInvite, Phase, SendInv, SendTypes, Asking, Versions
<1>4. reply'[s] \notin {"sent", "issued", "replayed"}
  BY <1>1, MissingAssumption DEF SendInv, Asking
<1>5. \A t \in Sender : t # s => /\ wish'[t] = wish[t] /\ phase'[t] = phase[t]
                                 /\ held'[t] = held[t]
  BY <1>1 DEF ReadInvite, Phase, SendInv, SendTypes
<1> QED
  BY <1>1, <1>2, <1>3, <1>4, <1>5, QuietSend

\* The batch: either it changes nothing, or it is the first under its key and
\* for its preview.
LEMMA CommitSendInv ==
  ASSUME SendInv, NEW s \in Sender, CommitSend(s)
  PROVE  SendInv'
<1> DEFINE w == wish[s]
           Wins == Updates(s) /\ ~Aborts(s)
<1>1. /\ phase[s] = "batch" /\ held[s] = 1 /\ w \in Wish
      /\ w.preview \in Preview /\ w.key \in Key
      /\ s \notin posted /\ reply[s] = Missing
      /\ UNCHANGED <<invite, wish, held>>
  BY DEF CommitSend, SendInv, Asking, Versions, Wish
<1>2. Updates(s) <=> StampThere(s)
  BY DEF Updates, StampThere
<1>3. \A t \in Sender : t # s => phase'[t] = phase[t] /\ reply'[t] = reply[t]
  BY DEF CommitSend, Return, Phase, SendInv, SendTypes
<1>4. CASE ~Wins
  <2>1. /\ UNCHANGED <<job, keys, posted, reply>>
        /\ phase' = [phase EXCEPT ![s] = "again"]
    BY <1>2, <1>4 DEF CommitSend, Phase
  <2>2. SendTypes' /\ Asking' /\ Versions'
    BY <1>1, <2>1 DEF SendInv, SendTypes, Asking, Versions
  <2>3. reply'[s] \notin {"sent", "issued", "replayed"}
    BY <1>1, <2>1, MissingAssumption
  <2> QED
    BY <1>1, <1>3, <2>1, <2>2, <2>3, QuietSend
<1>5. CASE Wins
  <2>1. /\ job' = [job EXCEPT ![w.preview] = [version |-> 2, key |-> w.key]]
        /\ keys' = [keys EXCEPT ![w.key] = w]
        /\ posted' = posted \union {s}
        /\ phase' = [phase EXCEPT ![s] = "done"]
        /\ reply' = [reply EXCEPT ![s] = "sent"]
    BY <1>1, <1>2, <1>5 DEF CommitSend, Return, Phase
  <2>2. /\ job[w.preview].version = 1 /\ job[w.preview].key = Missing
        /\ UnderKey(w.key) = {} /\ keys[w.key] = Missing
    BY <1>1, <1>2, <1>5 DEF Updates, Aborts, SendInv, Versions
  <2>3. w.key # Missing
    BY <1>1, MissingAssumption
  <2>4. SendTypes'
    BY <1>1, <2>1 DEF SendInv, SendTypes, Replies
  <2>5. Asking'
    BY <1>1, <1>3, <2>1, <2>4 DEF SendInv, Asking, SendTypes
  <2>6. Versions'
    BY <1>1, <1>3, <2>1, <2>3 DEF SendInv, Versions, SendTypes
  <2>7. \A t \in posted : /\ wish[t] \in Wish /\ wish[t].preview \in Preview
                          /\ wish[t].preview # w.preview /\ wish[t].key # w.key
    <3> TAKE t \in posted
    <3>1. /\ wish[t] \in Wish /\ wish[t].preview \in Preview /\ wish[t].key \in Key
          /\ job[wish[t].preview].key = wish[t].key
      BY DEF SendInv, InJob, Wish
    <3>2. wish[t].key # Missing
      BY <3>1, MissingAssumption
    <3> QED
      BY <2>2, <3>1, <3>2 DEF UnderKey
  <2>8. \A t \in posted : job'[wish[t].preview] = job[wish[t].preview]
    BY <2>1, <2>7 DEF SendInv, SendTypes
  <2>9. job'[w.preview].key = w.key
    BY <1>1, <2>1 DEF SendInv, SendTypes
  <2>10. InJob'
    BY <1>1, <2>1, <2>7, <2>8, <2>9 DEF SendInv, InJob
  <2>11. Keyed'
    BY <1>1, <2>1 DEF SendInv, SendTypes, Keyed
  <2>12. Reached'
    BY <1>1, <1>3, <2>1 DEF SendInv, SendTypes, Reached
  <2>13. InvitesOrdered'
    BY <1>1, <1>3, <2>1 DEF SendInv, SendTypes, InvitesOrdered
  <2>14. ASSUME NEW r \in Sender, reply'[r] \in {"sent", "replayed"}
         PROVE  Told(r)'
    <3>1. CASE r = s
      BY <3>1, <1>1, <2>1, <2>3, <2>9 DEF Told, Queued
    <3>2. CASE r # s
      <4>1. Told(r)
        BY <3>2, <1>3, <2>14 DEF SendInv, SentOnce, Told
      <4> QED
        BY <4>1, <1>1, <2>1, <2>8 DEF Told, Queued
    <3> QED
      BY <3>1, <3>2
  <2>15. \A t, u \in posted' :
           wish'[t].key = wish'[u].key \/ wish'[t].preview = wish'[u].preview => t = u
    BY <1>1, <2>1, <2>7 DEF SendInv, SentOnce
  <2>16. SentOnce'
    BY <2>14, <2>15 DEF SentOnce, Told
  <2> QED
    BY <2>4, <2>5, <2>6, <2>10, <2>11, <2>12, <2>13, <2>16 DEF SendInv
<1> QED
  BY <1>4, <1>5

\* The SEQUENCE of an invite only goes up.
LEMMA WriteInviteInv ==
  ASSUME SendInv, NEW s \in Sender, WriteInvite(s)
  PROVE  SendInv'
<1> DEFINE q == wish[s]
           n == IF held[s] = Missing THEN 0 ELSE held[s] + 1
<1>1. /\ phase[s] = "invite" /\ q \in Placement
      /\ s \notin posted /\ reply[s] = Missing
      /\ UNCHANGED <<job, keys, posted, wish>>
  BY DEF WriteInvite, SendInv, Asking
<1>2. \A t \in Sender : t # s => /\ phase'[t] = phase[t] /\ reply'[t] = reply[t]
                                 /\ held'[t] = held[t]
  BY DEF WriteInvite, Return, Phase, SendInv, SendTypes
<1>3. CASE ~Unchanged(s)
  <2>1. /\ UNCHANGED <<invite, held>>
        /\ phase' = [phase EXCEPT ![s] = "done"]
        /\ reply'[s] \in {"error", "conflict"}
        /\ \E a \in {"error", "conflict"} : reply' = [reply EXCEPT ![s] = a]
    BY <1>3 DEF WriteInvite, Return, Phase, SendInv, SendTypes
  <2>2. SendTypes' /\ Asking' /\ Versions'
    BY <1>1, <1>2, <2>1 DEF SendInv, SendTypes, Asking, Versions, Replies
  <2> QED
    BY <1>1, <1>2, <2>1, <2>2, QuietSend
<1>4. CASE Unchanged(s)
  <2>1. /\ invite' = [invite EXCEPT ![q] = n]
        /\ held' = [held EXCEPT ![s] = n]
        /\ phase' = [phase EXCEPT ![s] = "done"]
        /\ reply' = [reply EXCEPT ![s] = "issued"]
    BY <1>4 DEF WriteInvite, Return, Phase
  <2>2. /\ n \in Nat /\ invite[q] = held[s]
        /\ invite[q] \in Nat => invite[q] < n
    BY <1>1, <1>4, MissingAssumption DEF SendInv, SendTypes, Unchanged
  <2>3. SendTypes'
    BY <1>1, <2>1, <2>2 DEF SendInv, SendTypes, Replies
  <2>4. Asking' /\ Versions'
    BY <1>1, <1>2, <2>1, <2>3 DEF SendInv, SendTypes, Asking, Versions
  <2>5. InJob' /\ Keyed'
    BY <1>1 DEF SendInv, InJob, Keyed
  <2>6. \A t \in Sender : t # s /\ reply'[t] = "issued" =>
          /\ reply[t] = "issued" /\ wish[t] \in Placement /\ held'[t] \in Nat
          /\ invite'[wish[t]] \in Nat /\ held'[t] <= invite'[wish[t]]
          /\ wish[t] = q => held'[t] < n
    BY <1>1, <1>2, <2>1, <2>2 DEF SendInv, SendTypes, Reached
  <2>7. held'[s] = n /\ invite'[q] = n
    BY <1>1, <2>1 DEF SendInv, SendTypes
  <2>8. Reached'
    BY <1>1, <2>2, <2>6, <2>7 DEF Reached
  <2>9. InvitesOrdered'
    BY <1>1, <1>2, <2>2, <2>6, <2>7 DEF SendInv, InvitesOrdered
  <2>10. \A t \in Sender : reply'[t] \in {"sent", "replayed"} => reply[t] = reply'[t]
    BY <1>1, <1>2, <2>1 DEF SendInv, SendTypes
  <2>11. SentOnce'
    BY <1>1, <2>10 DEF SendInv, SentOnce, Queued
  <2> QED
    BY <2>3, <2>4, <2>5, <2>8, <2>9, <2>11 DEF SendInv
<1> QED
  BY <1>3, <1>4

LEMMA SendInvStep == SendInv /\ [\E s \in Sender : SendStep(s)]_sendVars => SendInv'
<1> SUFFICES ASSUME SendInv, [\E s \in Sender : SendStep(s)]_sendVars PROVE SendInv'
  OBVIOUS
<1>1. CASE UNCHANGED sendVars
  BY <1>1 DEF sendVars, SendInv, SendTypes, Asking, Versions, InJob, Keyed, Reached,
              SentOnce, InvitesOrdered, Queued
<1>2. ASSUME NEW s \in Sender, SendStep(s) PROVE SendInv'
  BY <1>2, SendStepInv, FindByKeyInv, FindPreviewInv, CommitSendInv, ReadAgainInv,
     ReadInviteInv, WriteInviteInv DEF SendStep
<1> QED
  BY <1>1, <1>2

(* Whatever sends race, under whatever keys: a preview goes out once, a key *)
(* sends one mailing, and nobody is told of a mailing that is not on its    *)
(* way or not his (enqueueSendAtomic, reconcileEnqueueBatchError).          *)
THEOREM Sent == SendSpec => []SentOnce
<1>1. SendInv => SentOnce
  BY DEF SendInv
<1> QED
  BY <1>1, SendInvInit, SendInvStep, PTL DEF SendSpec

(* The SEQUENCEs of the invites of a placement differ, and the last one is  *)
(* the highest (icsForPlacementCommand).                                    *)
THEOREM Ordered == SendSpec => []InvitesOrdered
<1>1. SendInv => InvitesOrdered
  BY DEF SendInv
<1> QED
  BY <1>1, SendInvInit, SendInvStep, PTL DEF SendSpec

-----------------------------------------------------------------------------
(* Intake *)

(* A step of Intake is a step of the caps, or leaves them alone; the same   *)
(* of the mailings.                                                         *)
LEMMA StepOfCaps == [IntakeNext]_intakeVars => [Next]_vars
<1> SUFFICES ASSUME [IntakeNext]_intakeVars PROVE [Next]_vars
  OBVIOUS
<1>1. CASE UNCHANGED intakeVars
  BY <1>1 DEF intakeVars
<1>2. ASSUME NEW c \in Call,
             Visit(c) \/ ShowFields(c) \/ ShowRules(c) \/ Submit(c) \/ ReadFields(c)
             \/ ReadRules(c) \/ (\E e \in Email : FindPerson(c, e)) \/ InsertPerson(c)
             \/ FindTemplate(c) \/ InsertTemplate(c) \/ Enqueue(c)
             \/ ConfirmationFails(c) \/ DieMailing(c)
      PROVE  UNCHANGED vars
  BY <1>2 DEF Visit, ShowFields, ShowRules, Submit, ReadFields, ReadRules, FindPerson,
              InsertPerson, FindTemplate, InsertTemplate, Enqueue, ConfirmationFails, DieMailing
<1>3. ASSUME NEW c \in Call, CheckCaps(c) \/ Write(c) \/ DieWriting(c)
      PROVE  Step(c) \/ Die(c)
  BY <1>3 DEF CheckCaps, Write, DieWriting
<1>4. ASSUME NEW e \in Editor, Edit(e) \/ DieEditing(e) PROVE UNCHANGED vars
  BY <1>4 DEF Edit, DieEditing
<1>5. ASSUME NEW s \in Sender, Post(s) PROVE UNCHANGED vars
  BY <1>5 DEF Post
<1>6. ASSUME NEW x \in Submissions, Judge(x) PROVE Decide(x)
  BY <1>6 DEF Judge
<1> QED
  BY <1>1, <1>2, <1>3, <1>4, <1>5, <1>6 DEF IntakeNext, Handle, Next

LEMMA StepOfMails ==
  [IntakeNext]_intakeVars => [\E s \in Sender : SendStep(s)]_sendVars
<1> SUFFICES ASSUME [IntakeNext]_intakeVars
             PROVE  [\E s \in Sender : SendStep(s)]_sendVars
  OBVIOUS
<1>1. CASE UNCHANGED intakeVars
  BY <1>1 DEF intakeVars
<1>2. ASSUME NEW c \in Call,
             \/ Visit(c) \/ ShowFields(c) \/ ShowRules(c) \/ Submit(c) \/ Handle(c)
             \/ ConfirmationFails(c) \/ DieWriting(c) \/ DieMailing(c)
      PROVE  UNCHANGED sendVars
  BY <1>2 DEF Visit, ShowFields, ShowRules, Submit, Handle, CheckCaps, ReadFields, ReadRules,
              FindPerson, InsertPerson, Write, FindTemplate, InsertTemplate, Enqueue,
              ConfirmationFails, DieWriting, DieMailing
<1>3. ASSUME NEW e \in Editor, Edit(e) \/ DieEditing(e) PROVE UNCHANGED sendVars
  BY <1>3 DEF Edit, DieEditing
<1>4. ASSUME NEW s \in Sender, Post(s) PROVE SendStep(s)
  BY <1>4 DEF Post
<1>5. ASSUME NEW x \in Submissions, Judge(x) PROVE UNCHANGED sendVars
  BY <1>5 DEF Judge
<1> QED
  BY <1>1, <1>2, <1>3, <1>4, <1>5 DEF IntakeNext

(* Forms, pages and mails take nothing away from what is proved of the      *)
(* caps: all of createSubmission implements SubmissionCap.                  *)
THEOREM ImplementsCaps == IntakeSpec => Spec
<1>1. IntakeInit => Init
  BY DEF IntakeInit
<1> QED
  BY <1>1, StepOfCaps, PTL DEF IntakeSpec, Spec

(* With everything around it, the cap per submitter is kept ...             *)
THEOREM CapKeptInIntake == IntakeSpec => []CapKept
BY ImplementsCaps, CapIsKept, PTL

(* ... and nobody is refused below it.                                      *)
THEOREM CappedInIntake == IntakeSpec => []CappedOnlyWhenFull
BY ImplementsCaps, CappedMeansFull, PTL

(* The same of the mailings: Intake implements Sending.                     *)
THEOREM ImplementsMails == IntakeSpec => SendSpec
<1>1. IntakeInit => SendInit
  BY DEF IntakeInit
<1> QED
  BY <1>1, StepOfMails, PTL DEF IntakeSpec, SendSpec

(* With everything around it, a preview goes out once ...                   *)
THEOREM SentInIntake == IntakeSpec => []SentOnce
BY ImplementsMails, Sent, PTL

(* ... and an invite's updates are issued in the order of their numbers.    *)
THEOREM OrderedInIntake == IntakeSpec => []InvitesOrdered
BY ImplementsMails, Ordered, PTL

-----------------------------------------------------------------------------
(* The versions of the form *)

FormTypes ==
  /\ draft  \in Content
  /\ issue  \in [Editor -> [num : Nat, is : Content]]
  /\ asked  \in [Editor -> SUBSET Field]
  /\ routed \in [Editor -> SUBSET Field]
  /\ stage  \in [Editor -> {"begin", "clear", "fields", "rules", "draft", "latest", "insert",
                            "seed", "done", "failed", "gone"}]
  /\ copy   \in [Editor -> Content]
  /\ number \in [Editor -> Nat]

\* Versions have different numbers, and one has the highest.
Numbered ==
  /\ \A d, e \in Published : issue[d].num = issue[e].num => d = e
  /\ Published # {} => \E e \in Published : \A d \in Published : issue[d].num <= issue[e].num
  /\ \A e \in Editor : stage[e] = "insert" => number[e] > 0

\* A version has nothing before it is inserted, ...
Unborn == \A e \in Editor :
  /\ stage[e] \in {"begin", "clear", "fields", "rules", "draft", "latest", "insert", "failed"}
     => issue[e].num = 0
  /\ issue[e].num = 0 => asked[e] = {} /\ routed[e] = {}

\* ... then what is not still to be written, and all of it in the end.
Growing == \A e \in Editor : issue[e].num > 0 =>
  /\ asked[e] \subseteq issue[e].is.fields /\ routed[e] \subseteq issue[e].is.rules
  /\ stage[e] = "seed" => /\ asked[e] \union copy[e].fields = issue[e].is.fields
                          /\ routed[e] \union copy[e].rules = issue[e].is.rules
  /\ stage[e] = "done" => asked[e] = issue[e].is.fields /\ routed[e] = issue[e].is.rules

\* The form is opened by one that is done.
Opened == public => \E e \in Published : stage[e] = "done"

FormInv == FormTypes /\ Numbered /\ Unborn /\ Growing /\ Opened
           /\ \A e \in Editor : stage[e] = "seed" => issue[e].num > 0

LEMMA FormInvInit == FormInit => FormInv
<1> SUFFICES ASSUME FormInit PROVE FormInv
  OBVIOUS
<1> USE DEF FormInit
<1>1. Nothing \in Content /\ Nothing.fields = {} /\ Nothing.rules = {}
  BY DEF Nothing, Content
<1>2. FormTypes
  <2>1. copy \in [Editor -> Content]
    BY <1>1
  <2>2. issue \in [Editor -> [num : Nat, is : Content]]
    BY DEF Content
  <2> QED
    BY <2>1, <2>2 DEF FormTypes
<1>3. \A e \in Editor : issue[e].num = IF order[e] = "past" THEN 1 ELSE 0
  OBVIOUS
<1>4. Numbered
  BY <1>3 DEF Numbered, Published
<1>5. Unborn /\ Growing
  BY <1>3 DEF Unborn, Growing
<1>6. Opened
  <2> SUFFICES ASSUME public PROVE \E e \in Published : stage[e] = "done"
    BY DEF Opened
  <2>1. PICK e \in Editor : order[e] = "past"
    BY Zenon
  <2> QED
    BY <2>1, <1>3 DEF Published
<1> QED
  BY <1>2, <1>4, <1>5, <1>6 DEF FormInv

LEMMA LatestIsLast ==
  ASSUME FormInv, Published # {}
  PROVE  Latest \in Published /\ \A d \in Published : issue[d].num <= issue[Latest].num
<1>1. PICK e \in Published : \A d \in Published : issue[d].num <= issue[e].num
  BY DEF FormInv, Numbered
<1> QED
  BY <1>1 DEF Latest

\* What nobody can take back
Lasting == \A e \in Editor : issue[e].num > 0 =>
  /\ issue'[e] = issue[e]
  /\ stage[e] = "done" => stage'[e] = "done"

\* A step that has inserted no version and written into none
LEMMA QuietEdit ==
  ASSUME FormInv, NEW e \in Editor, FormTypes',
         UNCHANGED <<public, issue, asked, routed>>,
         stage[e] # "done", stage'[e] # "seed",
         \A d \in Editor : d # e => /\ stage'[d] = stage[d] /\ copy'[d] = copy[d]
                                    /\ number'[d] = number[d],
         stage'[e] # "gone" => issue[e].num = 0,
         stage'[e] = "insert" => number'[e] > 0
  PROVE  FormInv' /\ Lasting
<1>1. Published' = Published
  BY DEF Published
<1>2. Numbered'
  BY <1>1 DEF FormInv, Numbered
<1>3. Unborn'
  BY DEF FormInv, Unborn
<1>4. Growing'
  BY DEF FormInv, Growing
<1>5. Opened'
  BY <1>1 DEF FormInv, Opened, Published
<1>6. \A d \in Editor : stage'[d] = "seed" => issue'[d].num > 0
  BY DEF FormInv
<1>7. Lasting
  BY DEF Lasting
<1> QED
  BY <1>2, <1>3, <1>4, <1>5, <1>6, <1>7 DEF FormInv

\* UpdateDraft, and publishing until the insert: all that touches neither
\* versions nor form
LEMMA QuietSteps ==
  ASSUME FormInv, NEW e \in Editor,
         \/ \E new \in Drafts : UpdateDraft(e, new)
         \/ ClearFields(e) \/ ClearRules(e) \/ EndUpdate(e)
         \/ Publish(e) \/ ReadDraftRules(e) \/ ReadLatest(e) \/ FormDie(e)
         \/ \E k \in Field : InsertField(e, k) \/ InsertRule(e, k)
  PROVE  FormInv' /\ Lasting
<1>1. /\ draft \in Content /\ copy[e] \in Content /\ copy \in [Editor -> Content]
  BY DEF FormInv, FormTypes
<1>2. /\ UNCHANGED <<public, issue, asked, routed>>
      /\ stage[e] # "done" /\ stage'[e] # "seed"
      /\ stage'[e] # "gone" => issue[e].num = 0
      /\ \A d \in Editor : d # e => /\ stage'[d] = stage[d] /\ copy'[d] = copy[d]
                                    /\ number'[d] = number[d]
  BY DEF UpdateDraft, ClearFields, ClearRules, EndUpdate, Publish, ReadDraftRules, ReadLatest,
         FormDie, InsertField, InsertRule, Stage, Written, FormInv, FormTypes, Unborn
<1>3. draft' \in Content /\ copy'[e] \in Content /\ number'[e] \in Nat
  <2>1. ASSUME NEW new \in Drafts, UpdateDraft(e, new) PROVE <1>3
    BY <2>1, <1>1 DEF UpdateDraft, Wellformed, FormInv, FormTypes
  <2>2. CASE ClearFields(e) \/ ClearRules(e)
    BY <2>2, <1>1 DEF ClearFields, ClearRules, FormInv, FormTypes, Content
  <2>3. CASE EndUpdate(e) \/ FormDie(e)
    BY <2>3, <1>1 DEF EndUpdate, FormDie, FormInv, FormTypes
  <2>4. CASE Publish(e) \/ ReadDraftRules(e)
    BY <2>4, <1>1 DEF Publish, ReadDraftRules, FormInv, FormTypes, Content
  <2>5. CASE ReadLatest(e)
    <3>1. Published # {} => issue[Latest].num \in Nat
      BY LatestIsLast DEF FormInv, FormTypes, Published
    <3> QED
      BY <2>5, <3>1, <1>1 DEF ReadLatest, FormInv, FormTypes
  <2>6. ASSUME NEW k \in Field, InsertField(e, k) PROVE <1>3
    BY <2>6, <1>1 DEF InsertField, Written, FormInv, FormTypes, Content
  <2>7. ASSUME NEW k \in Field, InsertRule(e, k) PROVE <1>3
    <3>1. /\ draft' = [draft EXCEPT !.rules = @ \union {k}]
          /\ copy' = [copy EXCEPT ![e].rules = @ \ {k}]
          /\ number' = number
      BY <2>7 DEF InsertRule, Written
    <3>2. draft' \in Content
      BY <3>1, <1>1 DEF Content
    <3>3. copy'[e] = [copy[e] EXCEPT !.rules = @ \ {k}]
      BY <3>1, <1>1
    <3>4. copy'[e] \in Content
      BY <3>3, <1>1 DEF Content
    <3> QED
      BY <3>1, <3>2, <3>4 DEF FormInv, FormTypes
  <2> QED
    BY <2>1, <2>2, <2>3, <2>4, <2>5, <2>6, <2>7
<1>4. /\ copy' \in [Editor -> Content] /\ number' \in [Editor -> Nat]
      /\ stage' \in [Editor -> {"begin", "clear", "fields", "rules", "draft", "latest", "insert",
                                "seed", "done", "failed", "gone"}]
  <2>1. CASE \E new \in Drafts : UpdateDraft(e, new)
    BY <2>1, <1>1, <1>3 DEF UpdateDraft, Wellformed, Stage, FormInv, FormTypes
  <2>2. CASE ClearFields(e) \/ ClearRules(e) \/ EndUpdate(e) \/ FormDie(e)
    BY <2>2 DEF ClearFields, ClearRules, EndUpdate, FormDie, Stage, FormInv, FormTypes
  <2>3. CASE Publish(e) \/ ReadDraftRules(e) \/ ReadLatest(e)
    <3>1. /\ DOMAIN copy' = Editor /\ DOMAIN number' = Editor
          /\ \A d \in Editor : d # e => copy'[d] = copy[d] /\ number'[d] = number[d]
      BY <2>3 DEF Publish, ReadDraftRules, ReadLatest, FormInv, FormTypes
    <3>2. copy' = [d \in Editor |-> copy'[d]] /\ number' = [d \in Editor |-> number'[d]]
      BY <2>3 DEF Publish, ReadDraftRules, ReadLatest, FormInv, FormTypes
    <3> QED
      BY <2>3, <1>3, <3>1, <3>2 DEF Publish, ReadDraftRules, ReadLatest, Stage, FormInv, FormTypes
  <2>4. CASE \E k \in Field : InsertField(e, k) \/ InsertRule(e, k)
    <3>1. /\ DOMAIN copy' = Editor /\ number' = number
          /\ copy' = [d \in Editor |-> copy'[d]]
          /\ \A d \in Editor : d # e => copy'[d] = copy[d]
      BY <2>4 DEF InsertField, InsertRule, Written, FormInv, FormTypes
    <3> QED
      BY <2>4, <1>3, <3>1 DEF InsertField, InsertRule, Stage, FormInv, FormTypes
  <2> QED
    BY <2>1, <2>2, <2>3, <2>4
<1>5. FormTypes'
  BY <1>2, <1>3, <1>4 DEF FormInv, FormTypes
<1>6. stage'[e] = "insert" => number'[e] > 0
  <2>1. CASE ReadLatest(e)
    <3>1. Published # {} => issue[Latest].num \in Nat
      BY LatestIsLast DEF FormInv, FormTypes, Published
    <3> QED
      BY <2>1, <3>1 DEF ReadLatest, FormInv, FormTypes
  <2>2. CASE ~ReadLatest(e)
    BY <2>2 DEF UpdateDraft, ClearFields, ClearRules, EndUpdate, Publish, ReadDraftRules,
           FormDie, InsertField, InsertRule, Stage, FormInv, FormTypes
  <2> QED
    BY <2>1, <2>2
<1> QED
  BY <1>2, <1>5, <1>6, QuietEdit

\* The insert: the new version is the last one, or is not, but its number is
\* new, and all of it is still to be written.
LEMMA InsertStep ==
  ASSUME FormInv, NEW e \in Editor, InsertVersion(e)
  PROVE  FormInv' /\ Lasting
<1>1. /\ stage[e] = "insert" /\ issue[e].num = 0 /\ number[e] \in Nat /\ number[e] > 0
      /\ asked[e] = {} /\ routed[e] = {} /\ e \notin Published
      /\ UNCHANGED <<draft, public, asked, routed, copy, number>>
  BY DEF InsertVersion, FormInv, FormTypes, Unborn, Numbered, Published
<1>2. \A d \in Editor : d # e => issue'[d] = issue[d] /\ stage'[d] = stage[d]
  BY DEF InsertVersion, Stage, FormInv, FormTypes
<1>3. CASE \E d \in Published : issue[d].num = number[e]
  <2>1. issue' = issue /\ stage' = [stage EXCEPT ![e] = "failed"]
    BY <1>3 DEF InsertVersion, Stage
  <2>2. FormTypes'
    BY <1>1, <2>1 DEF FormInv, FormTypes
  <2>3. stage'[e] = "failed"
    BY <2>1 DEF FormInv, FormTypes
  <2> QED
    BY <1>1, <1>2, <2>1, <2>2, <2>3, QuietEdit
<1>4. CASE \A d \in Published : issue[d].num # number[e]
  <2>1. /\ issue' = [issue EXCEPT ![e] = [num |-> number[e], is |-> copy[e]]]
        /\ stage' = [stage EXCEPT ![e] = "seed"]
    BY <1>4 DEF InsertVersion, Stage
  <2>2. FormTypes'
    BY <1>1, <2>1 DEF FormInv, FormTypes
  <2>3. issue'[e].num = number[e] /\ issue'[e].is = copy[e] /\ stage'[e] = "seed"
    BY <2>1 DEF FormInv, FormTypes
  <2>4. Published' = Published \union {e}
    BY <1>1, <1>2, <2>3 DEF Published
  <2>5. Numbered'
    <3>1. \A c, d \in Published' : issue'[c].num = issue'[d].num => c = d
      BY <1>1, <1>2, <1>4, <2>3, <2>4 DEF FormInv, Numbered, Published
    <3>2. \E d \in Published' : \A c \in Published' : issue'[c].num <= issue'[d].num
      <4>1. CASE Published = {}
        BY <4>1, <1>1, <2>3, <2>4
      <4>2. CASE Published # {}
        <5>1. PICK d \in Published : \A c \in Published : issue[c].num <= issue[d].num
          BY <4>2 DEF FormInv, Numbered
        <5>2. \A c \in Published : /\ c # e /\ issue'[c] = issue[c] /\ issue[c].num \in Nat
          BY <1>1, <1>2 DEF Published, FormInv, FormTypes
        <5>3. CASE issue[d].num <= number[e]
          BY <5>1, <5>2, <5>3, <1>1, <2>3, <2>4
        <5>4. CASE number[e] <= issue[d].num
          BY <5>1, <5>2, <5>4, <1>1, <2>3, <2>4
        <5> QED
          BY <5>2, <5>3, <5>4, <5>1, <1>1
      <4> QED
        BY <4>1, <4>2
    <3>3. \A d \in Editor : stage'[d] = "insert" => number'[d] > 0
      BY <1>1, <1>2, <2>3 DEF FormInv, Numbered
    <3> QED
      BY <3>1, <3>2, <3>3 DEF Numbered
  <2>6. Unborn' /\ Growing'
    BY <1>1, <1>2, <2>3 DEF FormInv, Unborn, Growing
  <2>7. Opened'
    BY <1>1, <1>2, <2>4 DEF FormInv, Opened, Published
  <2>8. \A d \in Editor : stage'[d] = "seed" => issue'[d].num > 0
    BY <1>1, <1>2, <2>3 DEF FormInv
  <2>9. Lasting
    BY <1>1, <1>2 DEF Lasting
  <2> QED
    BY <2>2, <2>5, <2>6, <2>7, <2>8, <2>9 DEF FormInv
<1> QED
  BY <1>3, <1>4

\* One more row of the version
LEMMA SeedStep ==
  ASSUME FormInv, NEW e \in Editor, NEW k \in Field, SeedField(e, k) \/ SeedRule(e, k)
  PROVE  FormInv' /\ Lasting
<1>1. /\ stage[e] = "seed" /\ issue[e].num > 0 /\ copy[e] \in Content
      /\ UNCHANGED <<draft, public, issue, stage, number>>
      /\ \/ /\ k \in copy[e].fields /\ UNCHANGED routed
            /\ asked' = [asked EXCEPT ![e] = @ \union {k}]
            /\ copy' = [copy EXCEPT ![e].fields = @ \ {k}]
         \/ /\ k \in copy[e].rules /\ UNCHANGED asked
            /\ routed' = [routed EXCEPT ![e] = @ \union {k}]
            /\ copy' = [copy EXCEPT ![e].rules = @ \ {k}]
  BY DEF SeedField, SeedRule, Written, FormInv, FormTypes
<1>2. \A d \in Editor : d # e => asked'[d] = asked[d] /\ routed'[d] = routed[d]
                                 /\ copy'[d] = copy[d]
  BY <1>1 DEF FormInv, FormTypes
<1>3. /\ copy'[e] \in Content
      /\ asked'[e] \union copy'[e].fields = asked[e] \union copy[e].fields
      /\ routed'[e] \union copy'[e].rules = routed[e] \union copy[e].rules
  BY <1>1 DEF FormInv, FormTypes, Content
<1>4. FormTypes'
  <2>1. asked' \in [Editor -> SUBSET Field] /\ routed' \in [Editor -> SUBSET Field]
    BY <1>1 DEF FormInv, FormTypes
  <2>2. DOMAIN copy' = Editor /\ copy' = [d \in Editor |-> copy'[d]]
    BY <1>1 DEF FormInv, FormTypes
  <2> QED
    BY <1>1, <1>2, <1>3, <2>1, <2>2 DEF FormInv, FormTypes
<1>5. Numbered' /\ Opened'
  BY <1>1 DEF FormInv, Numbered, Opened, Published
<1>6. Unborn'
  BY <1>1, <1>2 DEF FormInv, Unborn
<1>7. Growing'
  BY <1>1, <1>2, <1>3 DEF FormInv, Growing
<1>8. Lasting
  BY <1>1 DEF Lasting
<1> QED
  BY <1>1, <1>4, <1>5, <1>6, <1>7, <1>8 DEF FormInv

\* The form is opened when the version is whole.
LEMMA OpenStep ==
  ASSUME FormInv, NEW e \in Editor, OpenForm(e)
  PROVE  FormInv' /\ Lasting
<1>1. /\ stage[e] = "seed" /\ issue[e].num > 0 /\ copy[e] = Nothing
      /\ stage' = [stage EXCEPT ![e] = "done"]
      /\ UNCHANGED <<draft, issue, asked, routed, copy, number>>
  BY DEF OpenForm, Seeded, Stage, FormInv
<1>2. asked[e] = issue[e].is.fields /\ routed[e] = issue[e].is.rules
  <2>1. copy[e].fields = {} /\ copy[e].rules = {}
    BY <1>1 DEF Nothing
  <2>2. /\ asked[e] \union copy[e].fields = issue[e].is.fields
        /\ routed[e] \union copy[e].rules = issue[e].is.rules
    BY <1>1, Zenon DEF FormInv, Growing
  <2>3. \A S : S \union {} = S
    OBVIOUS
  <2> QED
    BY <2>1, <2>2, <2>3
<1>3. stage'[e] = "done" /\ \A d \in Editor : d # e => stage'[d] = stage[d]
  BY <1>1 DEF FormInv, FormTypes
<1>4. FormTypes'
  BY <1>1 DEF FormInv, FormTypes
<1>5. Numbered' /\ Unborn'
  BY <1>1, <1>3 DEF FormInv, Numbered, Unborn, Published
<1>6. Growing' /\ Opened'
  <2>1. Growing'
    BY <1>1, <1>2, <1>3 DEF FormInv, Growing
  <2>2. e \in Published'
    BY <1>1 DEF Published
  <2> QED
    BY <2>1, <2>2, <1>3 DEF Opened
<1>7. Lasting
  BY <1>1, <1>3 DEF Lasting
<1> QED
  BY <1>1, <1>3, <1>4, <1>5, <1>6, <1>7 DEF FormInv

LEMMA FormSteps ==
  ASSUME FormInv, NEW e \in Editor, FormStep(e) \/ FormDie(e)
  PROVE  FormInv' /\ Lasting
BY QuietSteps, InsertStep, SeedStep, OpenStep DEF FormStep

-----------------------------------------------------------------------------
(* The requests *)

Filed == {"people", "person", "failed", "write", "template", "mail", "over", "gone"}

RequestTypes ==
  /\ DOMAIN status = Submissions
  /\ desk   \in [Call -> {"visit", "never", "fields", "rules", "page", "caps", "form",
                          "refused"} \union Filed]
  /\ shown  \in [Call -> Content]
  /\ stored \in [Call -> Content]
  /\ DOMAIN pin = Call /\ early \subseteq Call

\* What a visitor names is published, and only a later version may be in the
\* making; what he is shown is of it.
Named(c) ==
  desk[c] \notin {"visit", "never"} =>
    /\ pin[c] \in Published /\ (issue[pin[c]].num > 1 \/ stage[pin[c]] = "done")
    /\ shown[c].rules \subseteq issue[pin[c]].is.rules

\* What he has stored is what it asks and the category it gives.
Stored(c) ==
  /\ desk[c] = "form" /\ c \notin early => stored[c].fields = issue[pin[c]].is.fields
  /\ desk[c] \in Filed /\ c \notin early => stored[c] = issue[pin[c]].is
  /\ status[c] # None => desk[c] \in Filed

RequestInv ==
  /\ RequestTypes
  /\ \A c \in Call : /\ Named(c) /\ Stored(c)
                     /\ desk[c] \in {"visit", "never"} => shown[c] = Nothing
                     /\ c \in early => /\ desk[c] \notin {"visit", "never"}
                                       /\ issue[pin[c]].num > 1

LEMMA RequestInvInit == IntakeInit => RequestInv
<1> SUFFICES ASSUME IntakeInit PROVE RequestInv
  OBVIOUS
<1>1. Nothing \in Content
  BY DEF Nothing, Content
<1>2. RequestTypes
  BY <1>1 DEF IntakeInit, Init, RequestTypes
<1> QED
  BY <1>2 DEF IntakeInit, Init, RequestInv, Named, Stored, Filed

\* A step of the form, or of nobody here
LEMMA FormMoves ==
  ASSUME FormInv, RequestInv, Lasting, FormTypes',
         UNCHANGED <<desk, pin, shown, stored, early>>, DOMAIN status' = Submissions,
         \A c \in Call : status'[c] # None => status[c] # None
  PROVE  RequestInv'
<1>1. \A e \in Published : /\ e \in Published' /\ issue'[e] = issue[e]
                           /\ stage[e] = "done" => stage'[e] = "done"
  BY DEF Published, Lasting
<1>2. RequestTypes'
  BY DEF RequestInv, RequestTypes
<1>3. \A c \in Call : Named(c)'
  BY <1>1 DEF RequestInv, Named
<1>4. \A c \in Call : desk[c] \notin {"visit", "never"} => issue'[pin[c]] = issue[pin[c]]
  BY <1>1 DEF RequestInv, Named
<1>5. \A c \in Call : Stored(c)'
  BY <1>4 DEF RequestInv, Stored, Filed
<1> QED
  BY <1>2, <1>3, <1>4, <1>5 DEF RequestInv

\* A step of one visitor leaves the others where they are.
LEMMA OneMoves ==
  ASSUME RequestInv, NEW c \in Call, UNCHANGED formVars, RequestTypes',
         \A d \in Call : d # c => /\ desk'[d] = desk[d] /\ pin'[d] = pin[d]
                                  /\ shown'[d] = shown[d] /\ stored'[d] = stored[d]
                                  /\ status'[d] = status[d]
                                  /\ d \in early' <=> d \in early,
         Named(c)', Stored(c)',
         desk'[c] \in {"visit", "never"} => shown'[c] = Nothing,
         c \in early' => desk'[c] \notin {"visit", "never"} /\ issue[pin'[c]].num > 1
  PROVE  RequestInv'
<1>1. UNCHANGED <<issue, stage>> /\ Published' = Published
  BY DEF formVars, Published
<1>2. ASSUME NEW d \in Call, d # c
      PROVE  /\ Named(d)' /\ Stored(d)'
             /\ desk'[d] \in {"visit", "never"} => shown'[d] = Nothing
             /\ d \in early' => desk'[d] \notin {"visit", "never"} /\ issue'[pin'[d]].num > 1
  BY <1>1, <1>2 DEF RequestInv, Named, Stored
<1> QED
  BY <1>1, <1>2 DEF RequestInv

LEMMA PageSteps ==
  ASSUME FormInv, RequestInv, NEW c \in Call,
         Visit(c) \/ ShowFields(c) \/ ShowRules(c) \/ Submit(c)
  PROVE  RequestInv'
<1>1. /\ UNCHANGED formVars /\ UNCHANGED <<status, stored, early>>
      /\ desk[c] \in {"visit", "fields", "rules", "page"} /\ c \in DOMAIN desk
      /\ status[c] = None
  BY DEF Visit, ShowFields, ShowRules, Submit, vars, RequestInv, RequestTypes, Stored, Filed
<1>2. UNCHANGED <<issue, stage>> /\ Published' = Published
  BY <1>1 DEF formVars, Published
<1>3. /\ desk'[c] \in {"fields", "rules", "page", "caps", "refused"}
      /\ \A d \in Call : d # c => /\ desk'[d] = desk[d] /\ pin'[d] = pin[d]
                                  /\ shown'[d] = shown[d]
  BY DEF Visit, ShowFields, ShowRules, Submit, At, RequestInv, RequestTypes
<1>4. CASE Visit(c)
  <2>1. pin' = [pin EXCEPT ![c] = Latest] /\ shown' = shown /\ public
    BY <1>4 DEF Visit
  <2>2. pin'[c] = Latest
    BY <2>1 DEF RequestInv, RequestTypes
  <2>3. PICK e \in Published : stage[e] = "done"
    BY <2>1 DEF FormInv, Opened
  <2>4. Latest \in Published /\ issue[e].num <= issue[Latest].num
    BY <2>3, LatestIsLast
  <2>5. issue[Latest].num > 1 \/ stage[Latest] = "done"
    <3>1. issue[e].num \in Nat /\ issue[Latest].num \in Nat /\ issue[e].num > 0
      BY <2>3, <2>4 DEF Published, FormInv, FormTypes
    <3>2. CASE issue[Latest].num = 1
      <4>1. issue[e].num = issue[Latest].num
        BY <3>1, <3>2, <2>4
      <4> QED
        BY <4>1, <2>3, <2>4 DEF FormInv, Numbered
    <3> QED
      BY <3>1, <3>2, <2>4
  <2>6. shown[c].rules = {}
    BY <1>4 DEF Visit, RequestInv, Nothing
  <2>7. RequestTypes'
    BY <1>1, <1>4, <2>1 DEF Visit, At, RequestInv, RequestTypes
  <2> QED
    <3>1. Named(c)'
      BY <1>2, <2>1, <2>2, <2>4, <2>5, <2>6 DEF Named
    <3>2. Stored(c)'
      BY <1>1, <1>3 DEF Stored, Filed
    <3>3. c \notin early'
      BY <1>1, <1>4 DEF Visit, RequestInv
    <3> QED
      BY <1>1, <1>3, <2>7, <3>1, <3>2, <3>3, OneMoves
<1>5. CASE ShowFields(c) \/ ShowRules(c) \/ Submit(c)
  <2>1. pin' = pin /\ pin[c] \in Published /\ pin[c] \in Editor
    BY <1>5 DEF ShowFields, ShowRules, Submit, RequestInv, Named, Published
  <2>2. /\ asked[pin[c]] \subseteq Field /\ routed[pin[c]] \subseteq Field
        /\ routed[pin[c]] \subseteq issue[pin[c]].is.rules
    BY <2>1 DEF FormInv, FormTypes, Growing, Published
  <2>3. /\ shown' \in [Call -> Content]
        /\ shown'[c].rules = shown[c].rules \/ shown'[c].rules = routed[pin[c]]
    <3>1. CASE ShowFields(c)
      <4>1. shown' = [shown EXCEPT ![c] = [shown[c] EXCEPT !.fields = asked[pin[c]]]]
        BY <3>1 DEF ShowFields
      <4>2. [shown[c] EXCEPT !.fields = asked[pin[c]]] \in Content
        BY <2>2 DEF RequestInv, RequestTypes, Content
      <4>3. [shown[c] EXCEPT !.fields = asked[pin[c]]].rules = shown[c].rules
        BY DEF RequestInv, RequestTypes, Content
      <4> QED
        BY <4>1, <4>2, <4>3 DEF RequestInv, RequestTypes
    <3>2. CASE ShowRules(c)
      <4>1. shown' = [shown EXCEPT ![c] = [shown[c] EXCEPT !.rules = routed[pin[c]]]]
        BY <3>2 DEF ShowRules
      <4>2. [shown[c] EXCEPT !.rules = routed[pin[c]]] \in Content
        BY <2>2 DEF RequestInv, RequestTypes, Content
      <4>3. [shown[c] EXCEPT !.rules = routed[pin[c]]].rules = routed[pin[c]]
        BY DEF RequestInv, RequestTypes, Content
      <4> QED
        BY <4>1, <4>2, <4>3 DEF RequestInv, RequestTypes
    <3>3. CASE Submit(c)
      BY <3>3 DEF Submit, RequestInv, RequestTypes
    <3> QED
      BY <1>5, <3>1, <3>2, <3>3
  <2>4. RequestTypes'
    BY <1>1, <1>5, <2>1, <2>3 DEF ShowFields, ShowRules, Submit, At, RequestInv, RequestTypes
  <2>5. Named(c)'
    BY <1>1, <1>2, <2>1, <2>2, <2>3, <1>5 DEF ShowFields, ShowRules, Submit, RequestInv, Named
  <2>6. Stored(c)'
    BY <1>1, <1>3 DEF Stored, Filed
  <2>7. c \in early' => issue[pin'[c]].num > 1
    BY <1>1, <2>1 DEF RequestInv
  <2> QED
    BY <1>1, <1>3, <2>1, <2>4, <2>5, <2>6, <2>7, OneMoves
<1> QED
  BY <1>4, <1>5

\* Reading fields and rules of the version
LEMMA ReadSteps ==
  ASSUME FormInv, RequestInv, NEW c \in Call, ReadFields(c) \/ ReadRules(c)
  PROVE  RequestInv'
<1>1. /\ UNCHANGED formVars /\ UNCHANGED <<status, pin, shown>>
      /\ desk[c] \in {"caps", "form"} /\ c \in DOMAIN desk /\ status[c] = None
  BY DEF ReadFields, ReadRules, vars, RequestInv, RequestTypes, Stored, Filed
<1>2. /\ UNCHANGED <<issue, stage, asked, routed>> /\ Published' = Published
  BY <1>1 DEF formVars, Published
<1>3. /\ pin[c] \in Published /\ pin[c] \in Editor
      /\ issue[pin[c]].num > 1 \/ stage[pin[c]] = "done"
      /\ shown[c].rules \subseteq issue[pin[c]].is.rules
  BY <1>1 DEF RequestInv, Named, Published
<1>4. /\ asked[pin[c]] \subseteq Field /\ routed[pin[c]] \subseteq Field
      /\ issue[pin[c]].is \in Content
      /\ stage[pin[c]] = "done" => /\ asked[pin[c]] = issue[pin[c]].is.fields
                                   /\ routed[pin[c]] = issue[pin[c]].is.rules
  BY <1>3 DEF FormInv, FormTypes, Growing, Published
<1>5. /\ early' \subseteq early \union {c} /\ early \subseteq early'
      /\ c \in early' => issue[pin[c]].num > 1
      /\ c \notin early' => stage[pin[c]] = "done" /\ c \notin early
  BY <1>3 DEF ReadFields, ReadRules, NoteEarly, Unfinished, RequestInv
<1>6. Named(c)'
  BY <1>1, <1>2, <1>3 DEF Named
<1>7. /\ desk'[c] \notin {"visit", "never"}
      /\ \A d \in Call : d # c => desk'[d] = desk[d] /\ stored'[d] = stored[d]
  BY DEF ReadFields, ReadRules, At, RequestInv, RequestTypes
<1>8. stored'[c] \in Content /\ Stored(c)'
  <2>1. CASE ReadFields(c)
    <3>1. /\ stored' = [stored EXCEPT ![c] = [stored[c] EXCEPT !.fields = asked[pin[c]]]]
          /\ desk'[c] = "form"
      BY <2>1, <1>1 DEF ReadFields, At
    <3>2. /\ stored'[c] = [stored[c] EXCEPT !.fields = asked[pin[c]]]
          /\ stored[c] \in Content
      BY <3>1 DEF RequestInv, RequestTypes
    <3>3. stored'[c] \in Content /\ stored'[c].fields = asked[pin[c]]
      BY <3>2, <1>4 DEF Content
    <3> QED
      BY <3>1, <3>3, <1>1, <1>2, <1>4, <1>5 DEF Stored, Filed
  <2>2. CASE ReadRules(c) /\ ~Fits(c, routed[pin[c]])
    <3>1. stored' = stored /\ desk'[c] = "refused"
      BY <2>2, <1>1 DEF ReadRules, At
    <3> QED
      BY <3>1, <1>1 DEF Stored, Filed, RequestInv, RequestTypes
  <2>3. CASE ReadRules(c) /\ Fits(c, routed[pin[c]])
    <3> DEFINE rules == routed[pin[c]]
    <3>1. /\ stored' = [stored EXCEPT ![c] =
                 [fields |-> @.fields \intersect shown[c].fields,
                  rules  |-> IF rules = {} THEN shown[c].rules ELSE rules]]
          /\ desk'[c] = "people" /\ desk[c] = "form"
      BY <2>3, <1>1 DEF ReadRules, At
    <3>2. /\ stored[c] \in Content /\ shown[c] \in Content /\ c \in DOMAIN stored
      BY DEF RequestInv, RequestTypes
    <3>3. stored'[c] = [fields |-> stored[c].fields \intersect shown[c].fields,
                        rules  |-> IF rules = {} THEN shown[c].rules ELSE rules]
      BY <3>1, <3>2
    <3>4. stored'[c] \in Content
      BY <3>2, <3>3, <1>4 DEF Content
    <3>5. ASSUME c \notin early' PROVE stored'[c] = issue[pin[c]].is
      <4>1. stored[c].fields = issue[pin[c]].is.fields /\ rules = issue[pin[c]].is.rules
        BY <3>1, <3>5, <1>4, <1>5 DEF RequestInv, Stored
      <4>2. stored[c].fields \intersect shown[c].fields = issue[pin[c]].is.fields
        BY <4>1, <2>3 DEF Fits
      <4>3. (IF rules = {} THEN shown[c].rules ELSE rules) = issue[pin[c]].is.rules
        BY <4>1, <1>3
      <4>4. stored'[c].fields = issue[pin[c]].is.fields /\ stored'[c].rules = issue[pin[c]].is.rules
        BY <3>3, <4>2, <4>3
      <4> QED
        BY <4>4, <3>4, <1>4 DEF Content
    <3> QED
      BY <3>1, <3>4, <3>5, <1>1, <1>2 DEF Stored, Filed
  <2> QED
    BY <2>1, <2>2, <2>3
<1>9. RequestTypes'
  <2>1. desk' \in [Call -> {"visit", "never", "fields", "rules", "page", "caps", "form",
                            "refused"} \union Filed]
    BY DEF ReadFields, ReadRules, At, RequestInv, RequestTypes, Filed
  <2>2. DOMAIN stored' = Call /\ stored' = [d \in Call |-> stored'[d]]
    BY DEF ReadFields, ReadRules, RequestInv, RequestTypes
  <2>3. stored' \in [Call -> Content]
    BY <2>2, <1>7, <1>8 DEF RequestInv, RequestTypes
  <2> QED
    BY <2>1, <2>3, <1>1, <1>5 DEF RequestInv, RequestTypes
<1> QED
  BY <1>1, <1>5, <1>6, <1>7, <1>8, <1>9, OneMoves

\* Persons, claiming the place, writing, and the mail
LEMMA WriteSteps ==
  ASSUME FormInv, RequestInv, NEW c \in Call,
         \/ (\E e \in Email : FindPerson(c, e)) \/ InsertPerson(c) \/ Write(c)
         \/ FindTemplate(c) \/ InsertTemplate(c) \/ Enqueue(c) \/ ConfirmationFails(c)
         \/ DieMailing(c)
  PROVE  RequestInv'
<1>1. /\ UNCHANGED formVars /\ UNCHANGED <<pin, shown, stored, early>>
      /\ desk[c] \in Filed /\ desk'[c] \in Filed
      /\ \A d \in Call : d # c => desk'[d] = desk[d]
      /\ desk' \in [Call -> {"visit", "never", "fields", "rules", "page", "caps", "form",
                             "refused"} \union Filed]
  BY DEF FindPerson, InsertPerson, Met, Write, FindTemplate, InsertTemplate, Enqueue,
         ConfirmationFails, DieMailing, Confirming, At, ownVars, Filed, RequestInv, RequestTypes
<1>2. DOMAIN status' = Submissions /\ \A d \in Call : d # c => status'[d] = status[d]
  <2>1. CASE Write(c)
    BY <2>1 DEF Write, Step, CheckTotal, CountRows, CountGuards, Compare, Claim,
                WriteSpeakers, RequestInv, RequestTypes, Submissions
  <2>2. CASE ~Write(c)
    BY <2>2 DEF FindPerson, InsertPerson, FindTemplate, InsertTemplate, Enqueue,
                ConfirmationFails, DieMailing, vars, RequestInv, RequestTypes
  <2> QED
    BY <2>1, <2>2
<1>3. RequestTypes'
  BY <1>1, <1>2 DEF RequestInv, RequestTypes
<1>4. UNCHANGED <<issue, stage>> /\ Published' = Published
  BY <1>1 DEF formVars, Published
<1>5. Named(c)' /\ Stored(c)'
  BY <1>1, <1>4 DEF RequestInv, Named, Stored, Filed
<1>6. /\ desk'[c] \notin {"visit", "never"}
      /\ c \in early' => issue[pin'[c]].num > 1
  BY <1>1 DEF RequestInv, Filed
<1> QED
  BY <1>1, <1>2, <1>3, <1>5, <1>6, OneMoves

LEMMA RequestStep ==
  ASSUME FormInv, RequestInv, [IntakeNext]_intakeVars
  PROVE  FormInv' /\ RequestInv'
<1>1. ASSUME NEW c \in Call,
             \/ Visit(c) \/ ShowFields(c) \/ ShowRules(c) \/ Submit(c) \/ Handle(c)
             \/ ConfirmationFails(c) \/ DieWriting(c) \/ DieMailing(c)
      PROVE  UNCHANGED formVars
  BY <1>1 DEF Visit, ShowFields, ShowRules, Submit, Handle, CheckCaps, ReadFields, ReadRules,
              FindPerson, InsertPerson, Write, FindTemplate, InsertTemplate, Enqueue,
              ConfirmationFails, DieWriting, DieMailing
<1>2. ASSUME UNCHANGED formVars PROVE FormInv' /\ Lasting
  BY <1>2 DEF formVars, FormInv, FormTypes, Numbered, Unborn, Growing, Opened, Published, Lasting
<1>3. ASSUME NEW c \in Call, CheckCaps(c) \/ DieWriting(c) PROVE RequestInv'
  <2>1. status' = status
    BY <1>3 DEF CheckCaps, DieWriting, Step, CheckTotal, CountRows, CountGuards, Compare,
                Claim, WriteSpeakers, Die
  <2>2. UNCHANGED <<desk, pin, shown, stored, early>>
    BY <1>3 DEF CheckCaps, DieWriting, ownVars
  <2> QED
    BY <2>1, <2>2, <1>1, <1>2, <1>3, FormMoves DEF Handle, FormInv, RequestInv, RequestTypes
<1>4. ASSUME NEW c \in Call,
             \/ Visit(c) \/ ShowFields(c) \/ ShowRules(c) \/ Submit(c) \/ Handle(c)
             \/ ConfirmationFails(c) \/ DieWriting(c) \/ DieMailing(c)
      PROVE  FormInv' /\ RequestInv'
  BY <1>4, <1>1, <1>2, <1>3, PageSteps, ReadSteps, WriteSteps DEF Handle
<1>5. ASSUME NEW e \in Editor, Edit(e) \/ DieEditing(e) PROVE FormInv' /\ RequestInv'
  <2>1. FormInv' /\ Lasting
    BY <1>5, FormSteps DEF Edit, DieEditing
  <2>2. UNCHANGED <<desk, pin, shown, stored, early, status>>
    BY <1>5 DEF Edit, DieEditing, ownVars, vars
  <2> QED
    BY <2>1, <2>2, FormMoves DEF FormInv, RequestInv, RequestTypes
<1>6. ASSUME NEW s \in Sender, Post(s) PROVE FormInv' /\ RequestInv'
  <2>1. UNCHANGED <<desk, pin, shown, stored, early, status>> /\ UNCHANGED formVars
    BY <1>6 DEF Post, ownVars, vars
  <2> QED
    BY <2>1, <1>2, FormMoves DEF FormInv, RequestInv, RequestTypes
<1>7. ASSUME NEW x \in Submissions, Judge(x) PROVE FormInv' /\ RequestInv'
  <2>1. /\ UNCHANGED <<desk, pin, shown, stored, early>> /\ UNCHANGED formVars
        /\ status[x] = "submitted" /\ status' = [status EXCEPT ![x] = "decided"]
    BY <1>7 DEF Judge, Decide, ownVars
  <2>2. /\ DOMAIN status' = Submissions
        /\ \A c \in Call : status'[c] # None => status[c] # None
    BY <2>1, NoneAssumption DEF RequestInv, RequestTypes, Submissions
  <2> QED
    BY <2>1, <2>2, <1>2, FormMoves DEF FormInv
<1>8. CASE UNCHANGED intakeVars
  <2>1. UNCHANGED <<desk, pin, shown, stored, early, status>> /\ UNCHANGED formVars
    BY <1>8 DEF intakeVars, ownVars, vars
  <2> QED
    BY <2>1, <1>2, FormMoves DEF FormInv, RequestInv, RequestTypes
<1> QED
  BY <1>4, <1>5, <1>6, <1>7, <1>8 DEF IntakeNext

(* A submission answers all its version asks and has the category its      *)
(* rules give, for any number of visitors, publishers and fields, whoever  *)
(* dies, unless it read a re-publication in the making.                    *)
THEOREM FormIsAnswered == IntakeSpec => []AnswersFitForm
<1>1. IntakeInit => FormInv /\ RequestInv
  BY FormInvInit, RequestInvInit DEF IntakeInit
<1>2. FormInv /\ RequestInv /\ [IntakeNext]_intakeVars => (FormInv /\ RequestInv)'
  BY RequestStep
<1>3. FormInv /\ RequestInv => AnswersFitForm
  BY DEF RequestInv, Stored, AnswersFitForm
<1> QED
  BY <1>1, <1>2, <1>3, PTL DEF IntakeSpec
=============================================================================
