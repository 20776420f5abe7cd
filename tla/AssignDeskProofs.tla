-------------------------- MODULE AssignDeskProofs --------------------------
(***************************************************************************)
(* What a plan is worth: the theorems of AssignDesk, and what they rest on *)
(* of AssignPlan, for any estate and any question.                         *)
(***************************************************************************)
EXTENDS AssignDesk, FiniteSetTheorems, WellFoundedInduction, TLAPS

-----------------------------------------------------------------------------
(* Induction and recursion over the natural numbers *)

\* A set of numbers with some number in it has a least one.
LEMMA LeastNat ==
  ASSUME NEW T, T \subseteq Nat, T # {}
  PROVE  \E x \in T : \A y \in T : x <= y
<1> DEFINE R == {ss \in Nat \X Nat : ss[1] < ss[2]}
<1>1. IsWellFoundedOn(R, Nat)
  BY NatLessThanWellFounded DEF OpToRel
<1>2. PICK x \in T : \A y \in T : <<y, x>> \notin R
  <2> HIDE DEF R
  <2> QED
    BY <1>1, WFMin
<1>3. \A y \in T : ~(y < x)
  BY <1>2
<1> QED
  BY <1>3

\* Induction, for a set of numbers
LEMMA ByNat ==
  ASSUME NEW T, 0 \in T, \A n \in Nat : n \in T => n + 1 \in T
  PROVE  Nat \subseteq T
<1> SUFFICES ASSUME NEW m \in Nat, m \notin T PROVE FALSE
  OBVIOUS
<1>1. PICK x \in Nat \ T : \A y \in Nat \ T : x <= y
  BY LeastNat
<1>2. x # 0 /\ x - 1 \in Nat /\ x - 1 \in T
  BY <1>1
<1> QED
  BY <1>1, <1>2

\* What is defined step by step is defined.
Recursive(S, b, F) == b \in S /\ F \in [S \X Nat -> S]
Follows(g, S, b, F) ==
  g \in [Nat -> S] /\ g[0] = b /\ \A n \in Nat : g[n + 1] = F[<<g[n], n + 1>>]

LEMMA Recursion ==
  ASSUME NEW S, NEW b, NEW F, Recursive(S, b, F)
  PROVE  \E g : Follows(g, S, b, F)
<1> USE DEF Recursive
<1> DEFINE Good(g, n) == g[0] = b /\ \A i \in 1..n : g[i] = F[<<g[i - 1], i>>]
           T == {n \in Nat : \E g \in [Nat -> S] : Good(g, n)}
           U == {n \in Nat : \A g, h \in [Nat -> S] : Good(g, n) /\ Good(h, n) => g[n] = h[n]}
<1>1. 0 \in T
  <2>1. Good([n \in Nat |-> b], 0) /\ [n \in Nat |-> b] \in [Nat -> S]
    OBVIOUS
  <2> QED
    BY <2>1
<1>2. ASSUME NEW n \in Nat, n \in T PROVE n + 1 \in T
  <2>1. PICK g \in [Nat -> S] : Good(g, n)
    BY <1>2
  <2>2. F[<<g[n], n + 1>>] \in S
    OBVIOUS
  <2> DEFINE h == [i \in Nat |-> IF i = n + 1 THEN F[<<g[n], n + 1>>] ELSE g[i]]
  <2>3. h \in [Nat -> S]
    BY <2>2
  <2>4. h[0] = b
    BY <2>1
  <2>5. ASSUME NEW i \in 1..(n + 1) PROVE h[i] = F[<<h[i - 1], i>>]
    <3>1. CASE i = n + 1
      BY <3>1
    <3>2. CASE i # n + 1
      <4>1. i \in 1..n /\ h[i] = g[i] /\ h[i - 1] = g[i - 1]
        BY <3>2
      <4> QED
        BY <4>1, <2>1
    <3> QED
      BY <3>1, <3>2
  <2>6. Good(h, n + 1)
    <3> HIDE DEF h
    <3> QED
      BY <2>4, <2>5
  <2> HIDE DEF h
  <2> QED
    BY <2>3, <2>6
<1>3. Nat \subseteq T
  BY <1>1, <1>2, ByNat
<1>4. 0 \in U
  OBVIOUS
<1>5. ASSUME NEW n \in Nat, n \in U PROVE n + 1 \in U
  <2>1. ASSUME NEW g \in [Nat -> S], NEW h \in [Nat -> S], Good(g, n + 1), Good(h, n + 1)
        PROVE  g[n + 1] = h[n + 1]
    <3>1. Good(g, n) /\ Good(h, n)
      BY <2>1
    <3>2. g[n] = h[n]
      BY <3>1, <1>5
    <3>3. n + 1 \in 1..(n + 1) /\ (n + 1) - 1 = n
      OBVIOUS
    <3> QED
      BY <2>1, <3>2, <3>3
  <2> QED
    BY <2>1
<1>6. Nat \subseteq U
  BY <1>4, <1>5, ByNat
<1>7. PICK h \in [Nat -> [Nat -> S]] : \A n \in Nat : Good(h[n], n)
  <2> DEFINE h == [n \in Nat |-> CHOOSE g \in [Nat -> S] : Good(g, n)]
  <2>1. ASSUME NEW n \in Nat PROVE h[n] \in [Nat -> S] /\ Good(h[n], n)
    <3>1. \E g \in [Nat -> S] : Good(g, n)
      BY <1>3
    <3>2. h[n] = CHOOSE g \in [Nat -> S] : Good(g, n)
      OBVIOUS
    <3> HIDE DEF h, Good
    <3> QED
      BY <3>1, <3>2
  <2>2. h \in [Nat -> [Nat -> S]]
    <3> HIDE DEF Good
    <3>1. h = [n \in Nat |-> h[n]]
      OBVIOUS
    <3> HIDE DEF h
    <3> QED
      BY <2>1, <3>1
  <2> HIDE DEF h, Good
  <2> QED
    BY <2>1, <2>2
<1> DEFINE G == [n \in Nat |-> h[n][n]]
<1>8. G \in [Nat -> S]
  OBVIOUS
<1>9. G[0] = b
  BY <1>7
<1>10. ASSUME NEW n \in Nat PROVE G[n + 1] = F[<<G[n], n + 1>>]
  <2>1. Good(h[n + 1], n + 1) /\ n + 1 \in 1..(n + 1) /\ (n + 1) - 1 = n
    BY <1>7
  <2>2. Good(h[n + 1], n)
    <3>1. 1..n \subseteq 1..(n + 1)
      OBVIOUS
    <3> QED
      BY <2>1, <3>1
  <2>3. h[n + 1][n] = h[n][n]
    <3>1. Good(h[n], n) /\ h[n] \in [Nat -> S] /\ h[n + 1] \in [Nat -> S]
      BY <1>7
    <3> HIDE DEF Good
    <3>2. n \in U
      <4> HIDE DEF U
      <4> QED
        BY <1>6
    <3> QED
      BY <2>2, <3>1, <3>2
  <2>4. h[n + 1][n + 1] = F[<<h[n + 1][n], n + 1>>]
    BY <2>1
  <2>5. G[n] = h[n][n] /\ G[n + 1] = h[n + 1][n + 1]
    OBVIOUS
  <2> HIDE DEF G
  <2> QED
    BY <2>3, <2>4, <2>5
<1> HIDE DEF G
<1> QED
  BY <1>8, <1>9, <1>10 DEF Follows

\* A finite set of numbers has a greatest one.
LEMMA GreatestNat ==
  ASSUME NEW T, T \subseteq Nat, IsFiniteSet(T), T # {}
  PROVE  Max(T) \in T /\ \A y \in T : Max(T) >= y
<1> DEFINE Has(X) == \E x \in X : \A y \in X : x >= y
           N == {n \in Nat : \A X \in SUBSET T : X # {} /\ Cardinality(X) = n => Has(X)}
<1>0. \A X \in SUBSET T : IsFiniteSet(X) /\ Cardinality(X) \in Nat
  BY FS_Subset, FS_CardinalityType
<1>1. 0 \in N
  BY <1>0, FS_EmptySet
<1>2. ASSUME NEW n \in Nat, n \in N PROVE n + 1 \in N
  <2>1. ASSUME NEW X \in SUBSET T, X # {}, Cardinality(X) = n + 1 PROVE Has(X)
    <3>1. PICK z \in X : TRUE
      BY <2>1
    <3>2. X \ {z} \in SUBSET T /\ Cardinality(X \ {z}) = n
      BY <1>0, <2>1, FS_RemoveElement
    <3>3. CASE X \ {z} = {}
      BY <3>1, <3>3
    <3>4. CASE X \ {z} # {}
      <4>1. PICK x \in X \ {z} : \A y \in X \ {z} : x >= y
        BY <3>2, <3>4, <1>2
      <4>2. x \in Nat /\ z \in Nat /\ \A y \in X : y \in Nat
        OBVIOUS
      <4>3. CASE x >= z
        BY <4>1, <4>2, <4>3
      <4>4. CASE z >= x
        <5>1. \A y \in X : z >= y
          BY <4>1, <4>2, <4>4
        <5> QED
          BY <5>1
      <4> QED
        BY <4>2, <4>3, <4>4
    <3> QED
      BY <3>3, <3>4
  <2> QED
    BY <2>1
<1>3. Nat \subseteq N
  BY <1>1, <1>2, ByNat
<1>4. Has(T)
  BY <1>0, <1>3
<1> QED
  BY <1>4 DEF Max

-----------------------------------------------------------------------------
(* The making of a plan *)

\* An estate and a question the code can meet with: both are finite.
Sane(e, q) ==
  /\ q \in Asked(Nat \ {0}, Nat \ {0})
  /\ IsFiniteSet(q.eligible) /\ IsFiniteSet(q.evaluators)
  /\ DOMAIN e \subseteq Nat \X Nat /\ IsFiniteSet(DOMAIN e)

\* Plans in the making
Making(q) ==
  [add : SUBSET (q.eligible \X q.evaluators), short : SUBSET q.eligible,
   chosen : SUBSET q.evaluators, last : Nat, load : [q.evaluators -> Nat]]

LEMMA MakingFields ==
  ASSUME NEW q, NEW plan \in Making(q)
  PROVE  /\ plan.add \subseteq q.eligible \X q.evaluators /\ plan.short \subseteq q.eligible
         /\ plan.chosen \subseteq q.evaluators /\ plan.last \in Nat
         /\ plan.load \in [q.evaluators -> Nat]
BY DEF Making

LEMMA MakingRecord ==
  ASSUME NEW q, NEW a \in SUBSET (q.eligible \X q.evaluators), NEW short \in SUBSET q.eligible,
         NEW chosen \in SUBSET q.evaluators, NEW last \in Nat,
         NEW load \in [q.evaluators -> Nat]
  PROVE  [add |-> a, short |-> short, chosen |-> chosen, last |-> last, load |-> load]
           \in Making(q)
BY DEF Making

LEMMA AskedType ==
  ASSUME NEW e, NEW q, Sane(e, q)
  PROVE  /\ q.reviewers \in Nat \ {0} /\ q.cap \in Nat \ {0}
         /\ q.mode \in Mode /\ q.existing \in Existing
         /\ q.eligible \subseteq Nat \ {0} /\ q.evaluators \subseteq Nat \ {0}
         /\ q.evaluators # {}
BY DEF Sane, Asked

\* v comes no later than w when it is the turn of whoever follows last.
NotLater(v, w, last) ==
  \/ v > last /\ w <= last
  \/ (v > last <=> w > last) /\ v <= w

\* Among those who can be asked there is one whose turn it is.
LEMMA TurnIs ==
  ASSUME NEW vs \in SUBSET Nat, vs # {}, NEW last \in Nat
  PROVE  /\ InTurn(vs, last) \in vs
         /\ \A w \in vs : NotLater(InTurn(vs, last), w, last)
<1> DEFINE later == {v \in vs : v > last}
           T == IF later = {} THEN vs ELSE later
<1>1. T \subseteq Nat /\ T # {} /\ T \subseteq vs
  OBVIOUS
<1>2. InTurn(vs, last) \in T /\ \A w \in T : InTurn(vs, last) <= w
  <2>1. InTurn(vs, last) = CHOOSE v \in T : \A w \in T : v <= w
    BY DEF InTurn
  <2> HIDE DEF T
  <2>2. \E v \in T : \A w \in T : v <= w
    BY <1>1, LeastNat
  <2> QED
    BY <2>1, <2>2
<1>3. ASSUME NEW w \in vs PROVE NotLater(InTurn(vs, last), w, last)
  <2>1. InTurn(vs, last) \in Nat /\ w \in Nat
    BY <1>1, <1>2
  <2>2. CASE later = {}
    <3>1. T = vs /\ ~(InTurn(vs, last) > last) /\ ~(w > last)
      BY <2>2, <1>1, <1>2
    <3> QED
      BY <2>1, <3>1, <1>2 DEF NotLater
  <2>3. CASE later # {}
    <3>1. T = later /\ InTurn(vs, last) > last
      BY <2>3, <1>2
    <3>2. CASE w > last
      BY <2>1, <3>1, <3>2, <1>2 DEF NotLater
    <3>3. CASE ~(w > last)
      BY <2>1, <3>1, <3>3 DEF NotLater
    <3> QED
      BY <3>2, <3>3
  <2> QED
    BY <2>2, <2>3
<1> QED
  BY <1>1, <1>2, <1>3

\* Those who could be asked to review one more
Able(q, plan) == {v \in q.evaluators \ plan.chosen : plan.load[v] < q.cap}

LEMMA ChargeType ==
  ASSUME NEW D, NEW load \in [D -> Nat], NEW vs
  PROVE  /\ Charge(load, vs) \in [D -> Nat]
         /\ \A v \in D : Charge(load, vs)[v] = load[v] + IF v \in vs THEN 1 ELSE 0
BY DEF Charge

\* One more reviewer: nobody if enough are chosen or nobody can be asked, or
\* the one whose turn it is.
Picked(q, t, s, r) ==
  \/ (Cardinality(t.chosen) >= q.reviewers \/ Able(q, t) = {}) /\ r = t
  \/ /\ ~(Cardinality(t.chosen) >= q.reviewers)
     /\ \E v \in Able(q, t) :
          /\ \A w \in Able(q, t) : NotLater(v, w, t.last)
          /\ r.add = t.add \union {<<s, v>>} /\ r.short = t.short
          /\ r.chosen = t.chosen \union {v} /\ r.last = v
          /\ r.load = Charge(t.load, {v})

LEMMA PickIs ==
  ASSUME NEW e, NEW q, Sane(e, q), NEW plan \in Making(q), NEW s \in q.eligible
  PROVE  /\ PickOne(q, plan, s) \in Making(q)
         /\ Picked(q, plan, s, PickOne(q, plan, s))
<1> DEFINE r == PickOne(q, plan, s)
<1>1. CASE Cardinality(plan.chosen) >= q.reviewers \/ Able(q, plan) = {}
  BY <1>1 DEF PickOne, Able, Picked
<1>2. CASE ~(Cardinality(plan.chosen) >= q.reviewers) /\ Able(q, plan) # {}
  <2> DEFINE v == InTurn(Able(q, plan), plan.last)
  <2>1. plan.last \in Nat /\ Able(q, plan) \in SUBSET Nat
    BY AskedType DEF Making, Able
  <2>2. v \in Able(q, plan) /\ \A w \in Able(q, plan) : NotLater(v, w, plan.last)
    BY <1>2, <2>1, TurnIs
  <2>3. r = [plan EXCEPT !.add = @ \union {<<s, v>>}, !.chosen = @ \union {v},
                         !.load = Charge(@, {v}), !.last = v]
    BY <1>2 DEF PickOne, Able
  <2> HIDE DEF v, r
  <2>4. Charge(plan.load, {v}) \in [q.evaluators -> Nat]
    BY ChargeType DEF Making
  <2>5. v \in q.evaluators /\ v \in Nat
    BY <2>1, <2>2 DEF Able
  <2>6. r = [add |-> plan.add \union {<<s, v>>}, short |-> plan.short,
             chosen |-> plan.chosen \union {v}, last |-> v, load |-> Charge(plan.load, {v})]
    BY <2>3 DEF Making
  <2>7. r \in Making(q)
    <3>1. plan.add \union {<<s, v>>} \subseteq q.eligible \X q.evaluators
      BY <2>5, MakingFields
    <3>2. plan.chosen \union {v} \subseteq q.evaluators /\ plan.short \subseteq q.eligible
      BY <2>5, MakingFields
    <3> QED
      BY <2>4, <2>5, <2>6, <3>1, <3>2, MakingRecord
  <2>8. /\ r.add = plan.add \union {<<s, v>>} /\ r.short = plan.short
        /\ r.chosen = plan.chosen \union {v} /\ r.last = v /\ r.load = Charge(plan.load, {v})
    BY <2>6
  <2> QED
    BY <1>2, <2>2, <2>7, <2>8 DEF r, Picked
<1> QED
  BY <1>1, <1>2

\* Kept pendings of one submission are counted, nothing else.
LEMMA RecountType ==
  ASSUME NEW e, NEW q, Sane(e, q), NEW s, NEW load \in [q.evaluators -> Nat]
  PROVE  Recount(e, q, s, load) \in [q.evaluators -> Nat]
BY DEF Recount

\* Where a round robin for one submission starts
Started(e, q, plan, s) == [plan EXCEPT !.load = Recount(e, q, s, @), !.chosen = Kept(e, q, s)]

LEMMA StartedIs ==
  ASSUME NEW e, NEW q, Sane(e, q), NEW plan \in Making(q), NEW s \in q.eligible
  PROVE  /\ Started(e, q, plan, s) \in Making(q)
         /\ Started(e, q, plan, s).add = plan.add
         /\ Started(e, q, plan, s).short = plan.short
         /\ Started(e, q, plan, s).last = plan.last
         /\ Started(e, q, plan, s).chosen = Kept(e, q, s)
         /\ Started(e, q, plan, s).load = Recount(e, q, s, plan.load)
<1>1. Started(e, q, plan, s) =
        [add |-> plan.add, short |-> plan.short, chosen |-> Kept(e, q, s), last |-> plan.last,
         load |-> Recount(e, q, s, plan.load)]
  <2>1. PICK r : r = Started(e, q, plan, s)
    OBVIOUS
  <2>2. r = [plan EXCEPT !.load = Recount(e, q, s, @), !.chosen = Kept(e, q, s)]
    BY <2>1 DEF Started
  <2> QED
    BY <2>1, <2>2 DEF Making
<1>2. Recount(e, q, s, plan.load) \in [q.evaluators -> Nat] /\ Kept(e, q, s) \subseteq q.evaluators
  BY RecountType, MakingFields DEF Kept
<1>3. [add |-> plan.add, short |-> plan.short, chosen |-> Kept(e, q, s), last |-> plan.last,
       load |-> Recount(e, q, s, plan.load)] \in Making(q)
  BY <1>2, MakingFields, MakingRecord
<1> QED
  BY <1>1, <1>3

\* The round robin is as many picks, one after the other.
Rounds(e, q, plan, s, r) ==
  /\ r \in [Nat -> Making(q)]
  /\ r[0] = Started(e, q, plan, s)
  /\ \A n \in Nat : r[n + 1] = PickOne(q, r[n], s)
  /\ RoundRobin(e, q, plan, s) =
       [r[q.reviewers] EXCEPT
          !.short = IF Cardinality(r[q.reviewers].chosen) < q.reviewers
                    THEN @ \union {s} ELSE @]

LEMMA RoundsAre ==
  ASSUME NEW e, NEW q, Sane(e, q), NEW plan \in Making(q), NEW s \in q.eligible
  PROVE  \E r : Rounds(e, q, plan, s, r)
<1> DEFINE b == Started(e, q, plan, s)
           M == Making(q)
           F == [x \in M \X Nat |-> PickOne(q, x[1], s)]
           Is(f) == f = [n \in Nat |-> IF n = 0 THEN b ELSE PickOne(q, f[n - 1], s)]
           r == CHOOSE f : Is(f)
<1>1. b \in M
  BY StartedIs
<1>2. F \in [M \X Nat -> M]
  BY PickIs
<1>3. \E f : Is(f)
  <2>0. Recursive(M, b, F)
    BY <1>1, <1>2 DEF Recursive
  <2>1. PICK g : Follows(g, M, b, F)
    <3> HIDE DEF b, M, F
    <3> QED
      BY <2>0, Recursion
  <2>2. \A n \in Nat : F[<<g[n], n + 1>>] = PickOne(q, g[n], s)
    BY <2>1 DEF Follows
  <2> HIDE DEF b, F, M
  <2>3. \A n \in Nat : g[n] = IF n = 0 THEN b ELSE PickOne(q, g[n - 1], s)
    <3>1. \A n \in Nat : n # 0 => n - 1 \in Nat /\ (n - 1) + 1 = n
      OBVIOUS
    <3> QED
      BY <2>1, <2>2, <3>1 DEF Follows
  <2>4. Is(g)
    BY <2>1, <2>3 DEF Follows
  <2> QED
    BY <2>4
<1>4. Is(r)
  <2> HIDE DEF b
  <2> QED
    BY <1>3
<1>5. RoundRobin(e, q, plan, s) =
        [r[q.reviewers] EXCEPT
           !.short = IF Cardinality(r[q.reviewers].chosen) < q.reviewers
                     THEN @ \union {s} ELSE @]
  BY DEF RoundRobin, Started
<1> HIDE DEF r, b
<1>6. r[0] = b /\ \A n \in Nat : r[n + 1] = PickOne(q, r[n], s)
  <2>1. \A n \in Nat : r[n] = IF n = 0 THEN b ELSE PickOne(q, r[n - 1], s)
    BY <1>4
  <2>2. \A n \in Nat : n + 1 \in Nat /\ n + 1 # 0 /\ (n + 1) - 1 = n
    OBVIOUS
  <2> QED
    BY <2>1, <2>2
<1>7. r \in [Nat -> M]
  <2> DEFINE T == {n \in Nat : r[n] \in M}
  <2>1. 0 \in T
    BY <1>1, <1>6
  <2>2. ASSUME NEW n \in Nat, n \in T PROVE n + 1 \in T
    BY <2>2, <1>6, PickIs
  <2>3. Nat \subseteq T
    <3> HIDE DEF T
    <3> QED
      BY <2>1, <2>2, ByNat
  <2>4. r = [n \in Nat |-> r[n]]
    BY <1>4
  <2> QED
    BY <2>3, <2>4
<1> QED
  BY <1>5, <1>6, <1>7 DEF b, Rounds

\* How many are to review a submission
Wanted(q) == IF q.mode = "all_to_all" THEN Cardinality(q.evaluators) ELSE q.reviewers

\* What visiting s comes to: some more are asked, none of them at the cap; if
\* these are still too few, s is reported, and all the others are at the cap;
\* a round robin never asks more than are wanted.
Visited(e, q, plan, s, r) ==
  \E X \in SUBSET (q.evaluators \ Kept(e, q, s)) :
    LET load == Recount(e, q, s, plan.load)
        few  == Cardinality(Kept(e, q, s) \union X) < Wanted(q) IN
    /\ r.add = plan.add \union ({s} \X X)
    /\ r.load = Charge(load, X)
    /\ r.short = IF few THEN plan.short \union {s} ELSE plan.short
    /\ \A v \in X : load[v] < q.cap
    /\ few => \A v \in q.evaluators \ (Kept(e, q, s) \union X) : load[v] >= q.cap
    /\ q.mode = "round_robin" /\ X # {} => Cardinality(Kept(e, q, s) \union X) <= Wanted(q)

LEMMA AllIs ==
  ASSUME NEW e, NEW q, Sane(e, q), q.mode = "all_to_all", NEW plan \in Making(q), NEW s \in q.eligible
  PROVE  /\ AllToAll(e, q, plan, s) \in Making(q)
         /\ Visited(e, q, plan, s, AllToAll(e, q, plan, s))
<1> DEFINE load == Recount(e, q, s, plan.load)
           free == {v \in q.evaluators \ Kept(e, q, s) : load[v] < q.cap}
           few  == Cardinality(Kept(e, q, s) \union free) < Wanted(q)
<1>1. PICK r : r = AllToAll(e, q, plan, s)
  OBVIOUS
<1>2. r = [plan EXCEPT !.add = @ \union ({s} \X free),
                       !.short = IF free \union Kept(e, q, s) = q.evaluators
                                 THEN @ ELSE @ \union {s},
                       !.load = Charge(load, free)]
  BY <1>1 DEF AllToAll
<1>3. load \in [q.evaluators -> Nat]
  BY RecountType, MakingFields
<1>4. few <=> free \union Kept(e, q, s) # q.evaluators
  <2>1. free \union Kept(e, q, s) \in SUBSET q.evaluators
    BY DEF Kept
  <2>2. Cardinality(q.evaluators) \in Nat /\ Cardinality(Kept(e, q, s) \union free) \in Nat
    BY <2>1, FS_Subset, FS_CardinalityType DEF Sane
  <2>3. /\ Cardinality(free \union Kept(e, q, s)) <= Cardinality(q.evaluators)
        /\ Cardinality(free \union Kept(e, q, s)) = Cardinality(q.evaluators)
             => q.evaluators = free \union Kept(e, q, s)
    BY <2>1, FS_Subset DEF Sane
  <2>4. Wanted(q) = Cardinality(q.evaluators)
    BY DEF Wanted
  <2>5. free \union Kept(e, q, s) = Kept(e, q, s) \union free
    OBVIOUS
  <2> HIDE DEF free
  <2> QED
    BY <2>2, <2>3, <2>4, <2>5
<1>5. \A v \in q.evaluators \ (Kept(e, q, s) \union free) : load[v] >= q.cap
  <2>1. q.cap \in Nat
    BY AskedType
  <2> HIDE DEF load
  <2> QED
    BY <2>1, <1>3
<1>6. free \subseteq q.evaluators \ Kept(e, q, s) /\ \A v \in free : load[v] < q.cap
  OBVIOUS
<1> HIDE DEF free, load
<1>7. r = [add |-> plan.add \union ({s} \X free),
           short |-> IF free \union Kept(e, q, s) = q.evaluators
                     THEN plan.short ELSE plan.short \union {s},
           chosen |-> plan.chosen, last |-> plan.last, load |-> Charge(load, free)]
  BY <1>2 DEF Making
<1>8. r \in Making(q)
  <2>1. plan.add \union ({s} \X free) \in SUBSET (q.eligible \X q.evaluators)
    BY <1>6, MakingFields
  <2>2. (IF free \union Kept(e, q, s) = q.evaluators THEN plan.short ELSE plan.short \union {s})
          \in SUBSET q.eligible
    BY MakingFields
  <2>3. Charge(load, free) \in [q.evaluators -> Nat]
    BY <1>3, ChargeType
  <2> QED
    BY <1>7, <2>1, <2>2, <2>3, MakingFields, MakingRecord
<1>9. Visited(e, q, plan, s, r)
  <2>1. r.add = plan.add \union ({s} \X free) /\ r.load = Charge(load, free)
    BY <1>7
  <2>2. r.short = IF few THEN plan.short \union {s} ELSE plan.short
    BY <1>7, <1>4
  <2>3. q.mode # "round_robin"
    OBVIOUS
  <2> QED
    BY <2>1, <2>2, <2>3, <1>5, <1>6 DEF Visited, load
<1> QED
  BY <1>1, <1>8, <1>9

\* Where a round robin for s has got to after n picks, from a plan
InRound(e, q, plan, s, n, t) ==
  \E X \in SUBSET (q.evaluators \ Kept(e, q, s)) :
    LET load == Recount(e, q, s, plan.load) IN
    /\ t.add = plan.add \union ({s} \X X)
    /\ t.load = Charge(load, X)
    /\ t.short = plan.short
    /\ t.chosen = Kept(e, q, s) \union X
    /\ \A v \in X : load[v] < q.cap
    /\ X # {} => Cardinality(Kept(e, q, s) \union X) <= q.reviewers
    /\ \/ Cardinality(t.chosen) >= q.reviewers
       \/ Able(q, t) = {}
       \/ Cardinality(t.chosen) >= n

LEMMA ChosenFinite ==
  ASSUME NEW e, NEW q, Sane(e, q), NEW vs \in SUBSET q.evaluators
  PROVE  IsFiniteSet(vs) /\ Cardinality(vs) \in Nat
BY FS_Subset, FS_CardinalityType DEF Sane

LEMMA InRoundStarts ==
  ASSUME NEW e, NEW q, Sane(e, q), NEW plan \in Making(q), NEW s \in q.eligible
  PROVE  InRound(e, q, plan, s, 0, Started(e, q, plan, s))
<1> DEFINE load == Recount(e, q, s, plan.load)
           t == Started(e, q, plan, s)
<1>1. load \in [q.evaluators -> Nat]
  BY RecountType, MakingFields
<1>2. Charge(load, {}) = load
  BY <1>1 DEF Charge
<1>3. /\ t.add = plan.add \union ({s} \X {}) /\ t.short = plan.short
      /\ t.chosen = Kept(e, q, s) \union {} /\ t.load = load
  BY StartedIs
<1>4. Cardinality(t.chosen) >= 0
  <2>1. t.chosen \in SUBSET q.evaluators
    BY <1>3 DEF Kept
  <2> QED
    BY <2>1, ChosenFinite
<1>5. {} \in SUBSET (q.evaluators \ Kept(e, q, s))
  OBVIOUS
<1> HIDE DEF t
<1> QED
  BY <1>2, <1>3, <1>4, <1>5 DEF InRound, t

LEMMA InRoundGoesOn ==
  ASSUME NEW e, NEW q, Sane(e, q), NEW plan \in Making(q), NEW s \in q.eligible,
         NEW n \in Nat, NEW t \in Making(q), InRound(e, q, plan, s, n, t)
  PROVE  InRound(e, q, plan, s, n + 1, PickOne(q, t, s))
<1> DEFINE load == Recount(e, q, s, plan.load)
           K == Kept(e, q, s)
           r == PickOne(q, t, s)
<1>1. load \in [q.evaluators -> Nat] /\ K \subseteq q.evaluators
  BY RecountType, MakingFields DEF Kept
<1>2. PICK X \in SUBSET (q.evaluators \ K) :
        /\ t.add = plan.add \union ({s} \X X) /\ t.load = Charge(load, X)
        /\ t.short = plan.short /\ t.chosen = K \union X
        /\ \A v \in X : load[v] < q.cap
        /\ X # {} => Cardinality(K \union X) <= q.reviewers
        /\ \/ Cardinality(t.chosen) >= q.reviewers
           \/ Able(q, t) = {}
           \/ Cardinality(t.chosen) >= n
  BY DEF InRound
<1>3. CASE (Cardinality(t.chosen) >= q.reviewers \/ Able(q, t) = {}) /\ r = t
  <2> HIDE DEF load, K, r
  <2>1. InRound(e, q, plan, s, n + 1, t)
    BY <1>2, <1>3 DEF InRound, load, K
  <2> QED
    BY <2>1, <1>3 DEF r
<1>4. CASE /\ ~(Cardinality(t.chosen) >= q.reviewers)
           /\ \E v \in Able(q, t) :
                /\ r.add = t.add \union {<<s, v>>} /\ r.short = t.short
                /\ r.chosen = t.chosen \union {v} /\ r.load = Charge(t.load, {v})
  <2>1. PICK v \in Able(q, t) :
                /\ r.add = t.add \union {<<s, v>>} /\ r.short = t.short
                /\ r.chosen = t.chosen \union {v} /\ r.load = Charge(t.load, {v})
    BY <1>4
  <2> DEFINE Y == X \union {v}
  <2>2. v \in q.evaluators /\ v \notin K /\ v \notin X /\ t.load[v] < q.cap
    BY <2>1, <1>2 DEF Able
  <2>3. load[v] < q.cap
    BY <2>2, <1>1, <1>2 DEF Charge
  <2>4. Charge(t.load, {v}) = Charge(load, Y)
    BY <2>2, <1>1, <1>2 DEF Charge
  <2>5. t.add \union {<<s, v>>} = plan.add \union ({s} \X Y)
    BY <1>2
  <2>6. t.chosen \union {v} = K \union Y /\ Y \subseteq q.evaluators \ K
    BY <1>2, <2>2
  <2>7. /\ Cardinality(K \union Y) = Cardinality(t.chosen) + 1
        /\ Cardinality(t.chosen) \in Nat
    <3>1. t.chosen \in SUBSET q.evaluators /\ v \notin t.chosen
      BY <1>1, <1>2, <2>2
    <3>2. IsFiniteSet(t.chosen) /\ Cardinality(t.chosen) \in Nat
      BY <3>1, ChosenFinite
    <3> QED
      BY <3>1, <3>2, <2>6, FS_AddElement
  <2>8. q.reviewers \in Nat
    BY AskedType
  <2>9. CASE Cardinality(t.chosen) >= n
    <3>1. Cardinality(K \union Y) >= n + 1 /\ Cardinality(K \union Y) <= q.reviewers
      BY <2>7, <2>8, <2>9, <1>4
    <3> HIDE DEF load, K, r, Y
    <3>2. /\ r.add = plan.add \union ({s} \X Y) /\ r.load = Charge(load, Y)
          /\ r.short = plan.short /\ r.chosen = K \union Y
      BY <1>2, <2>1, <2>4, <2>5, <2>6
    <3>3. \A w \in Y : load[w] < q.cap
      BY <1>2, <2>3 DEF Y
    <3>4. Y \in SUBSET (q.evaluators \ K)
      BY <2>6
    <3>5. InRound(e, q, plan, s, n + 1, r)
      BY <3>1, <3>2, <3>3, <3>4 DEF InRound, load, K
    <3> QED
      BY <3>5 DEF r
  <2>10. Able(q, t) # {}
    BY <2>1
  <2> QED
    BY <1>2, <1>4, <2>9, <2>10
<1>5. \/ (Cardinality(t.chosen) >= q.reviewers \/ Able(q, t) = {}) /\ r = t
      \/ /\ ~(Cardinality(t.chosen) >= q.reviewers)
         /\ \E v \in Able(q, t) :
              /\ r.add = t.add \union {<<s, v>>} /\ r.short = t.short
              /\ r.chosen = t.chosen \union {v} /\ r.load = Charge(t.load, {v})
  <2>1. Picked(q, t, s, r)
    BY PickIs
  <2> HIDE DEF r
  <2> QED
    BY <2>1 DEF Picked
<1> QED
  BY <1>3, <1>4, <1>5

LEMMA RobinIs ==
  ASSUME NEW e, NEW q, Sane(e, q), q.mode = "round_robin", NEW plan \in Making(q), NEW s \in q.eligible
  PROVE  /\ RoundRobin(e, q, plan, s) \in Making(q)
         /\ Visited(e, q, plan, s, RoundRobin(e, q, plan, s))
<1> DEFINE load == Recount(e, q, s, plan.load)
           K == Kept(e, q, s)
           w == RoundRobin(e, q, plan, s)
<1>0. PICK r : Rounds(e, q, plan, s, r)
  BY RoundsAre
<1>1. /\ r \in [Nat -> Making(q)]
      /\ r[0] = Started(e, q, plan, s)
      /\ \A n \in Nat : r[n + 1] = PickOne(q, r[n], s)
      /\ RoundRobin(e, q, plan, s) =
           [r[q.reviewers] EXCEPT
              !.short = IF Cardinality(r[q.reviewers].chosen) < q.reviewers
                        THEN @ \union {s} ELSE @]
  BY <1>0 DEF Rounds
<1> DEFINE T == {n \in Nat : InRound(e, q, plan, s, n, r[n])}
<1>2. 0 \in T
  BY <1>1, InRoundStarts
<1>3. ASSUME NEW n \in Nat, n \in T PROVE n + 1 \in T
  <2>1. r[n] \in Making(q) /\ InRound(e, q, plan, s, n, r[n])
    BY <1>1, <1>3
  <2>2. InRound(e, q, plan, s, n + 1, PickOne(q, r[n], s))
    BY <2>1, InRoundGoesOn
  <2> QED
    BY <2>2, <1>1
<1>4. Nat \subseteq T
  <2> HIDE DEF T
  <2> QED
    BY <1>2, <1>3, ByNat
<1>5. q.reviewers \in Nat /\ q.cap \in Nat /\ Wanted(q) = q.reviewers
  BY AskedType DEF Wanted
<1>6. PICK t \in Making(q) :
        /\ InRound(e, q, plan, s, q.reviewers, t)
        /\ w = [t EXCEPT !.short = IF Cardinality(t.chosen) < q.reviewers
                                   THEN @ \union {s} ELSE @]
  BY <1>1, <1>4, <1>5
<1>7. PICK X \in SUBSET (q.evaluators \ K) :
        /\ t.add = plan.add \union ({s} \X X) /\ t.load = Charge(load, X)
        /\ t.short = plan.short /\ t.chosen = K \union X
        /\ \A v \in X : load[v] < q.cap
        /\ X # {} => Cardinality(K \union X) <= q.reviewers
        /\ \/ Cardinality(t.chosen) >= q.reviewers
           \/ Able(q, t) = {}
           \/ Cardinality(t.chosen) >= q.reviewers
  BY <1>6 DEF InRound
<1>8. PICK z : z = w
  OBVIOUS
<1> DEFINE few == Cardinality(K \union X) < Wanted(q)
<1>9. z = [add |-> t.add, short |-> IF few THEN plan.short \union {s} ELSE plan.short,
           chosen |-> t.chosen, last |-> t.last, load |-> t.load]
  <2>1. z = [t EXCEPT !.short = IF few THEN @ \union {s} ELSE @]
    BY <1>5, <1>6, <1>7, <1>8
  <2> HIDE DEF few
  <2> QED
    BY <2>1, <1>7 DEF Making
<1>10. z \in Making(q)
  <2>1. (IF few THEN plan.short \union {s} ELSE plan.short) \in SUBSET q.eligible
    BY MakingFields
  <2> QED
    BY <1>9, <2>1, MakingFields, MakingRecord
<1>11. ASSUME few, NEW v \in q.evaluators \ (K \union X) PROVE load[v] >= q.cap
  <2>1. Cardinality(t.chosen) \in Nat
    BY ChosenFinite, MakingFields
  <2>2. Able(q, t) = {}
    BY <2>1, <1>5, <1>7, <1>11
  <2>3. ~(t.load[v] < q.cap)
    BY <2>2, <1>7, <1>11 DEF Able
  <2>4. load \in [q.evaluators -> Nat]
    BY RecountType, MakingFields
  <2>5. t.load[v] = load[v]
    BY <2>4, <1>7, <1>11 DEF Charge
  <2>6. load[v] \in Nat
    BY <2>4, <1>11
  <2> QED
    BY <2>3, <2>5, <2>6, <1>5
<1>12. Visited(e, q, plan, s, z)
  <2>1. z.add = plan.add \union ({s} \X X) /\ z.load = Charge(load, X)
    BY <1>7, <1>9
  <2>2. z.short = IF few THEN plan.short \union {s} ELSE plan.short
    BY <1>9
  <2>3. X # {} => Cardinality(K \union X) <= Wanted(q)
    BY <1>5, <1>7
  <2> QED
    BY <2>1, <2>2, <2>3, <1>7, <1>11 DEF Visited
<1> QED
  BY <1>8, <1>10, <1>12

\* One submission of a plan
LEMMA VisitIs ==
  ASSUME NEW e, NEW q, Sane(e, q), NEW plan \in Making(q), NEW s \in q.eligible
  PROVE  /\ Visit(e, q, plan, s) \in Making(q)
         /\ Visited(e, q, plan, s, Visit(e, q, plan, s))
<1>1. q.mode \in {"all_to_all", "round_robin"}
  BY AskedType DEF Mode
<1>2. CASE q.mode = "all_to_all"
  BY <1>2, AllIs DEF Visit
<1>3. CASE q.mode = "round_robin"
  BY <1>3, RobinIs DEF Visit
<1> QED
  BY <1>1, <1>2, <1>3

-----------------------------------------------------------------------------
(* The whole plan: one submission after the other *)

Blank(e, q) == [add |-> {}, short |-> {}, chosen |-> {}, last |-> 0,
                load |-> [v \in q.evaluators |-> LoadBefore(e, q, v)]]

NextPlan(e, q, t, n) == IF n \in q.eligible THEN Visit(e, q, t, n) ELSE t

\* f[n] is the plan when the submissions up to n have been visited.
Going(e, q, f) ==
  /\ f \in [Nat -> Making(q)]
  /\ f[0] = Blank(e, q)
  /\ \A n \in Nat : f[n + 1] = NextPlan(e, q, f[n], n + 1)

LEMMA LoadIsNat ==
  ASSUME NEW ps, IsFiniteSet(ps), NEW v
  PROVE  LoadOf(ps, v) \in Nat /\ IsFiniteSet({p \in ps : p[2] = v})
BY FS_Subset, FS_CardinalityType DEF LoadOf

LEMMA BlankIs ==
  ASSUME NEW e, NEW q, Sane(e, q)
  PROVE  Blank(e, q) \in Making(q)
<1>1. \A v \in q.evaluators : LoadBefore(e, q, v) \in Nat
  <2>1. ASSUME NEW v
        PROVE  LoadBefore(e, q, v) \in Nat
    <3> DEFINE D == {p \in DOMAIN e : p[2] = v /\ (q.existing = "preserve" \/ e[p] # "pending")}
    <3>1. LoadBefore(e, q, v) = Cardinality(D)
      BY DEF LoadBefore
    <3>2. D \in SUBSET DOMAIN e /\ IsFiniteSet(DOMAIN e)
      BY DEF Sane
    <3> HIDE DEF D
    <3> QED
      BY <3>1, <3>2, FS_Subset, FS_CardinalityType
  <2> QED
    BY <2>1
<1>2. [v \in q.evaluators |-> LoadBefore(e, q, v)] \in [q.evaluators -> Nat]
  BY <1>1
<1> QED
  BY <1>2, MakingRecord DEF Blank

LEMMA VisitsAre ==
  ASSUME NEW e, NEW q, Sane(e, q)
  PROVE  \E f : Going(e, q, f) /\ Planned(e, q) = f[Max(q.eligible \union {0})]
<1> DEFINE b == Blank(e, q)
           M == Making(q)
           F == [x \in M \X Nat |-> NextPlan(e, q, x[1], x[2])]
           Is(f) == f = [n \in Nat |->
                           IF n = 0 THEN b
                           ELSE IF n \in q.eligible THEN Visit(e, q, f[n - 1], n) ELSE f[n - 1]]
           r == CHOOSE f : Is(f)
<1>1. b \in M
  BY BlankIs
<1>2. \A t \in M, n \in Nat : NextPlan(e, q, t, n) \in M
  BY VisitIs DEF NextPlan
<1>3. \E f : Is(f)
  <2>0. Recursive(M, b, F)
    BY <1>1, <1>2 DEF Recursive
  <2>1. PICK g : Follows(g, M, b, F)
    <3> HIDE DEF b, M, F
    <3> QED
      BY <2>0, Recursion
  <2>2. \A n \in Nat : F[<<g[n], n + 1>>] = NextPlan(e, q, g[n], n + 1)
    BY <2>1 DEF Follows
  <2> HIDE DEF b, F, M
  <2>3. \A n \in Nat : g[n] = IF n = 0 THEN b ELSE NextPlan(e, q, g[n - 1], n)
    <3>1. \A n \in Nat : n # 0 => n - 1 \in Nat /\ (n - 1) + 1 = n
      OBVIOUS
    <3> QED
      BY <2>1, <2>2, <3>1 DEF Follows
  <2>4. Is(g)
    BY <2>1, <2>3 DEF Follows, NextPlan
  <2> QED
    BY <2>4
<1>4. Is(r)
  <2> HIDE DEF b
  <2> QED
    BY <1>3
<1>5. Planned(e, q) = r[Max(q.eligible \union {0})]
  BY DEF Planned, Blank
<1> HIDE DEF r, b
<1>6. r[0] = b /\ \A n \in Nat : r[n + 1] = NextPlan(e, q, r[n], n + 1)
  <2>1. \A n \in Nat : r[n] = IF n = 0 THEN b ELSE NextPlan(e, q, r[n - 1], n)
    BY <1>4 DEF NextPlan
  <2>2. \A n \in Nat : n + 1 \in Nat /\ n + 1 # 0 /\ (n + 1) - 1 = n
    OBVIOUS
  <2> QED
    BY <2>1, <2>2
<1>7. r \in [Nat -> M]
  <2> DEFINE T == {n \in Nat : r[n] \in M}
  <2>1. 0 \in T
    BY <1>1, <1>6
  <2>2. ASSUME NEW n \in Nat, n \in T PROVE n + 1 \in T
    BY <2>2, <1>2, <1>6
  <2>3. Nat \subseteq T
    <3> HIDE DEF T
    <3> QED
      BY <2>1, <2>2, ByNat
  <2>4. r = [n \in Nat |-> r[n]]
    BY <1>4
  <2> QED
    BY <2>3, <2>4
<1>8. Going(e, q, r)
  BY <1>6, <1>7 DEF Going, b
<1> QED
  BY <1>5, <1>8

-----------------------------------------------------------------------------
(* Counting assignments *)

\* What the counter of v holds of the estate when the submissions up to n have
\* been visited
Counted(e, q, n, v) ==
  {p \in DOMAIN e : /\ p[2] = v
                    /\ \/ q.existing = "preserve"
                       \/ e[p] # "pending"
                       \/ p[1] \in q.eligible /\ p[1] <= n}

LEMMA CountedFinite ==
  ASSUME NEW e, NEW q, Sane(e, q), NEW n, NEW v
  PROVE  IsFiniteSet(Counted(e, q, n, v)) /\ Cardinality(Counted(e, q, n, v)) \in Nat
<1>1. Counted(e, q, n, v) \in SUBSET DOMAIN e /\ IsFiniteSet(DOMAIN e)
  BY DEF Counted, Sane
<1> QED
  BY <1>1, FS_Subset, FS_CardinalityType

\* Before the first submission
LEMMA CountedFirst ==
  ASSUME NEW e, NEW q, Sane(e, q), NEW v
  PROVE  LoadBefore(e, q, v) = Cardinality(Counted(e, q, 0, v))
<1>1. \A x \in q.eligible : ~(x <= 0)
  BY AskedType
<1>2. Counted(e, q, 0, v) =
        {p \in DOMAIN e : p[2] = v /\ (q.existing = "preserve" \/ e[p] # "pending")}
  BY <1>1 DEF Counted
<1> QED
  BY <1>2 DEF LoadBefore

\* A submission that is not asked about adds nothing.
LEMMA CountedSame ==
  ASSUME NEW e, NEW q, Sane(e, q), NEW n \in Nat, n + 1 \notin q.eligible, NEW v
  PROVE  Counted(e, q, n + 1, v) = Counted(e, q, n, v)
<1>1. \A x \in q.eligible : x <= n + 1 <=> x <= n
  BY AskedType
<1> QED
  BY <1>1 DEF Counted

\* One that is adds what Recount counts.
LEMMA CountedNext ==
  ASSUME NEW e, NEW q, Sane(e, q), NEW n \in Nat, n + 1 \in q.eligible,
         NEW v \in q.evaluators
  PROVE  Cardinality(Counted(e, q, n + 1, v)) =
           Cardinality(Counted(e, q, n, v))
             + IF /\ v \in Kept(e, q, n + 1) /\ q.existing = "replace"
                  /\ e[<<n + 1, v>>] = "pending" THEN 1 ELSE 0
<1> DEFINE p == <<n + 1, v>>
           C == Counted(e, q, n, v)
<1>1. q.existing = "replace" <=> q.existing # "preserve"
  BY AskedType DEF Existing
<1>2. \A x \in q.eligible : x <= n + 1 <=> x <= n \/ x = n + 1
  BY AskedType
<1>3. \A x \in DOMAIN e : x[2] = v /\ x[1] = n + 1 <=> x = p
  BY DEF Sane
<1>4. IsFiniteSet(C) /\ Cardinality(C) \in Nat
  BY CountedFinite
<1>5. CASE v \in Kept(e, q, n + 1) /\ q.existing = "replace" /\ e[p] = "pending"
  <2>1. p \in DOMAIN e
    BY <1>5 DEF Kept
  <2>2. ~(n + 1 <= n)
    OBVIOUS
  <2>3. p \notin C
    BY <1>1, <1>5, <2>2 DEF Counted
  <2>4. \A x \in DOMAIN e : x \in Counted(e, q, n + 1, v) <=> x \in C \/ x = p
    BY <1>1, <1>2, <1>3, <1>5 DEF Counted
  <2>5. Counted(e, q, n + 1, v) = C \union {p}
    BY <2>1, <2>4 DEF Counted
  <2> HIDE DEF C, p
  <2>6. Cardinality(C \union {p}) = Cardinality(C) + 1
    BY <2>3, <1>4, FS_AddElement
  <2> QED
    BY <1>5, <2>5, <2>6 DEF C, p
<1>6. CASE ~(v \in Kept(e, q, n + 1) /\ q.existing = "replace" /\ e[p] = "pending")
  <2>1. \A x \in DOMAIN e : x \in Counted(e, q, n + 1, v) <=> x \in C
    BY <1>1, <1>2, <1>3, <1>6 DEF Counted, Kept
  <2>2. Counted(e, q, n + 1, v) = C
    BY <2>1 DEF Counted
  <2> QED
    BY <1>4, <1>6, <2>2
<1> QED
  BY <1>5, <1>6

\* The assignments of a further submission
Without(ps, s) == \A p \in ps : p[1] # s
More(ps, s, X) == ps \union ({s} \X X)

LEMMA LoadMore ==
  ASSUME NEW ps, IsFiniteSet(ps), NEW s, Without(ps, s),
         NEW X, NEW qs, qs = More(ps, s, X), NEW v
  PROVE  /\ v \in X => LoadOf(qs, v) = LoadOf(ps, v) + 1
         /\ v \notin X => LoadOf(qs, v) = LoadOf(ps, v)
<1> USE DEF Without, More
<1> DEFINE G == {p \in ps : p[2] = v}
           H == {p \in qs : p[2] = v}
<1>1. IsFiniteSet(G) /\ Cardinality(G) \in Nat /\ LoadOf(ps, v) = Cardinality(G)
  BY LoadIsNat DEF LoadOf
<1>2. LoadOf(qs, v) = Cardinality(H)
  BY DEF LoadOf
<1>3. CASE v \in X
  <2>1. H = G \union {<<s, v>>}
    BY <1>3
  <2>2. <<s, v>> \notin G
    OBVIOUS
  <2> HIDE DEF G, H
  <2> QED
    BY <1>1, <1>2, <1>3, <2>1, <2>2, FS_AddElement
<1>4. CASE v \notin X
  <2>1. H = G
    BY <1>4
  <2> HIDE DEF G, H
  <2> QED
    BY <1>1, <1>2, <1>4, <2>1
<1> QED
  BY <1>3, <1>4

LEMMA LoadMonotone ==
  ASSUME NEW ps, IsFiniteSet(ps), NEW qs \in SUBSET ps, NEW v
  PROVE  LoadOf(qs, v) <= LoadOf(ps, v) /\ LoadOf(qs, v) \in Nat /\ LoadOf(ps, v) \in Nat
<1> DEFINE G == {p \in qs : p[2] = v}
           H == {p \in ps : p[2] = v}
<1>1. IsFiniteSet(H) /\ IsFiniteSet(qs) /\ G \in SUBSET H
  BY LoadIsNat, FS_Subset
<1>2. LoadOf(qs, v) = Cardinality(G) /\ LoadOf(ps, v) = Cardinality(H)
  BY DEF LoadOf
<1> HIDE DEF G, H
<1> QED
  BY <1>1, <1>2, FS_Subset, FS_CardinalityType

\* Two sets of assignments with nothing in common
LEMMA LoadUnion ==
  ASSUME NEW ps, IsFiniteSet(ps), NEW qs, IsFiniteSet(qs), ps \intersect qs = {}, NEW v
  PROVE  LoadOf(ps \union qs, v) = LoadOf(ps, v) + LoadOf(qs, v)
<1> DEFINE G == {p \in ps : p[2] = v}
           H == {p \in qs : p[2] = v}
           U == {p \in ps \union qs : p[2] = v}
<1>1. IsFiniteSet(G) /\ IsFiniteSet(H) /\ G \intersect H = {} /\ U = G \union H
  BY LoadIsNat
<1>2. LoadOf(ps, v) = Cardinality(G) /\ LoadOf(qs, v) = Cardinality(H)
      /\ LoadOf(ps \union qs, v) = Cardinality(U)
  BY DEF LoadOf
<1> HIDE DEF G, H, U
<1>3. Cardinality(G) \in Nat /\ Cardinality(H) \in Nat /\ Cardinality({}) = 0
  BY <1>1, FS_CardinalityType, FS_EmptySet
<1>4. Cardinality(G \union H) = Cardinality(G) + Cardinality(H) - Cardinality(G \intersect H)
  BY <1>1, FS_Union
<1>5. Cardinality(G \intersect H) = 0
  BY <1>1, <1>3
<1> QED
  BY <1>1, <1>2, <1>3, <1>4, <1>5

\* Who of the evaluators has s, in the estate and what has been added to it
Having(e, q, added, s) == ReviewersOf(DOMAIN e \union added, s) \intersect q.evaluators

LEMMA HavingIs ==
  ASSUME NEW e, NEW q, Sane(e, q), NEW added \in SUBSET (q.eligible \X q.evaluators), NEW s
  PROVE  Having(e, q, added, s) =
           Kept(e, q, s) \union {v \in q.evaluators : <<s, v>> \in added}
<1>1. \A p \in DOMAIN e \union added : p = <<p[1], p[2]>>
  BY DEF Sane
<1>2. ASSUME NEW v \in q.evaluators
      PROVE  v \in ReviewersOf(DOMAIN e \union added, s) <=> <<s, v>> \in DOMAIN e \union added
  <2>1. v \in ReviewersOf(DOMAIN e \union added, s)
          <=> \E p \in DOMAIN e \union added : p[1] = s /\ p[2] = v
    BY DEF ReviewersOf
  <2>2. \A p \in DOMAIN e \union added : p[1] = s /\ p[2] = v => p = <<s, v>>
    BY <1>1
  <2> QED
    BY <2>1, <2>2
<1> QED
  BY <1>2 DEF Having, Kept

-----------------------------------------------------------------------------
(* What holds of a plan when the submissions up to n have been visited *)

\* Additions are of those, and new.
Added(e, n, t) == \A p \in t.add : p[1] <= n /\ p \notin DOMAIN e

\* The counters are right.
Loads(e, q, n, t) ==
  \A v \in q.evaluators : t.load[v] = Cardinality(Counted(e, q, n, v)) + LoadOf(t.add, v)

\* Those are reported which have too few reviewers,
Reported(e, q, n, t) ==
  t.short = {s \in q.eligible : s <= n /\ Cardinality(Having(e, q, t.add, s)) < Wanted(q)}

\* and then everybody else was at the cap.
Exhausted(e, q, t) ==
  \A s \in t.short : \A v \in q.evaluators \ Having(e, q, t.add, s) :
    Cardinality(Counted(e, q, s, v)) + LoadOf({p \in t.add : p[1] <= s}, v) >= q.cap

\* A round robin adds no more than are wanted.
Enough(e, q, t) ==
  q.mode = "round_robin" =>
    \A s \in q.eligible :
      (\E p \in t.add : p[1] = s) => Cardinality(Having(e, q, t.add, s)) <= Wanted(q)

\* Whoever has been given something is within the cap.
Capped(q, t) ==
  q.existing = "preserve" =>
    \A v \in q.evaluators : LoadOf(t.add, v) > 0 => t.load[v] <= q.cap

Upto(e, q, n, t) ==
  Added(e, n, t) /\ Loads(e, q, n, t) /\ Reported(e, q, n, t) /\ Exhausted(e, q, t)
    /\ Enough(e, q, t) /\ Capped(q, t)

LEMMA AddFinite ==
  ASSUME NEW e, NEW q, Sane(e, q), NEW added \in SUBSET (q.eligible \X q.evaluators)
  PROVE  IsFiniteSet(added)
<1>1. IsFiniteSet(q.eligible \X q.evaluators)
  BY FS_Product DEF Sane
<1> QED
  BY <1>1, FS_Subset

LEMMA UptoFirst ==
  ASSUME NEW e, NEW q, Sane(e, q)
  PROVE  Upto(e, q, 0, Blank(e, q))
<1> DEFINE t == Blank(e, q)
<1>1. t.add = {} /\ t.short = {} /\ t.load = [v \in q.evaluators |-> LoadBefore(e, q, v)]
  BY DEF Blank
<1>2. \A v : LoadOf({}, v) = 0
  <2>1. \A v : {p \in {} : p[2] = v} = {}
    OBVIOUS
  <2> QED
    BY <2>1, FS_EmptySet DEF LoadOf
<1>3. ASSUME NEW v \in q.evaluators
      PROVE  t.load[v] = Cardinality(Counted(e, q, 0, v)) + LoadOf(t.add, v)
  <2>1. t.load[v] = Cardinality(Counted(e, q, 0, v))
    BY <1>1, CountedFirst
  <2>2. Cardinality(Counted(e, q, 0, v)) \in Nat /\ LoadOf(t.add, v) = 0
    BY <1>1, <1>2, CountedFinite
  <2> QED
    BY <2>1, <2>2
<1>4. \A s \in q.eligible : ~(s <= 0)
  BY AskedType
<1> HIDE DEF t
<1>5. Added(e, 0, t) /\ Loads(e, q, 0, t) /\ Reported(e, q, 0, t) /\ Exhausted(e, q, t)
  BY <1>1, <1>3, <1>4 DEF Added, Loads, Reported, Exhausted
<1>6. Enough(e, q, t) /\ Capped(q, t)
  BY <1>1, <1>2 DEF Enough, Capped
<1> QED
  BY <1>5, <1>6 DEF Upto, t

\* A submission that is not asked about changes nothing.
LEMMA UptoPassed ==
  ASSUME NEW e, NEW q, Sane(e, q), NEW n \in Nat, n + 1 \notin q.eligible,
         NEW t \in Making(q), Upto(e, q, n, t)
  PROVE  Upto(e, q, n + 1, t)
<1>1. \A s \in q.eligible : s \in Nat
  BY AskedType
<1>2. \A p \in t.add : p[1] \in q.eligible
  BY MakingFields
<1>3. Added(e, n + 1, t)
  BY <1>1, <1>2 DEF Upto, Added
<1>4. Loads(e, q, n + 1, t)
  BY CountedSame DEF Upto, Loads
<1>5. \A s \in q.eligible : s <= n + 1 <=> s <= n
  BY <1>1
<1>6. Reported(e, q, n + 1, t)
  BY <1>5 DEF Upto, Reported
<1> QED
  BY <1>3, <1>4, <1>6 DEF Upto

\* The load a visit starts from counts what the table gives and what was added
RecountedTo(e, q, n, t, v) ==
  /\ Recount(e, q, n + 1, t.load)[v] =
       Cardinality(Counted(e, q, n + 1, v)) + LoadOf(t.add, v)
  /\ Cardinality(Counted(e, q, n + 1, v)) \in Nat /\ LoadOf(t.add, v) \in Nat
  /\ q.existing = "preserve" => Recount(e, q, n + 1, t.load)[v] = t.load[v]

\* The counter of v when his turn for the next submission comes
LEMMA RecountIs ==
  ASSUME NEW e, NEW q, Sane(e, q), NEW n \in Nat, n + 1 \in q.eligible,
         NEW t \in Making(q), Upto(e, q, n, t), NEW v \in q.evaluators
  PROVE  RecountedTo(e, q, n, t, v)
<1> DEFINE s == n + 1
           K == Kept(e, q, s)
           load == Recount(e, q, s, t.load)
<1>1. /\ Cardinality(Counted(e, q, s, v)) \in Nat /\ Cardinality(Counted(e, q, n, v)) \in Nat
      /\ LoadOf(t.add, v) \in Nat
  BY AddFinite, MakingFields, CountedFinite, LoadIsNat
<1>2. t.load[v] = Cardinality(Counted(e, q, n, v)) + LoadOf(t.add, v)
  BY DEF Upto, Loads
<1>3. load[v] = t.load[v] + IF /\ v \in K /\ q.existing = "replace"
                               /\ e[<<s, v>>] = "pending" THEN 1 ELSE 0
  BY DEF Recount
<1>4. Cardinality(Counted(e, q, s, v)) = Cardinality(Counted(e, q, n, v))
        + IF v \in K /\ q.existing = "replace" /\ e[<<s, v>>] = "pending" THEN 1 ELSE 0
  BY CountedNext
<1> HIDE DEF s, K, load
<1>5. t.load[v] \in Nat
  BY <1>1, <1>2
<1>6. /\ load[v] = Cardinality(Counted(e, q, s, v)) + LoadOf(t.add, v)
      /\ q.existing = "preserve" => load[v] = t.load[v]
  BY <1>1, <1>2, <1>3, <1>4, <1>5
<1> QED
  BY <1>1, <1>6 DEF s, load, RecountedTo

\* One that is
LEMMA UptoVisited ==
  ASSUME NEW e, NEW q, Sane(e, q), NEW n \in Nat, n + 1 \in q.eligible,
         NEW t \in Making(q), Upto(e, q, n, t), NEW r \in Making(q), Visited(e, q, t, n + 1, r)
  PROVE  Upto(e, q, n + 1, r)
<1> DEFINE s == n + 1
           K == Kept(e, q, s)
           load == Recount(e, q, s, t.load)
<1>1. PICK X \in SUBSET (q.evaluators \ K) :
        LET few == Cardinality(K \union X) < Wanted(q) IN
        /\ r.add = t.add \union ({s} \X X) /\ r.load = Charge(load, X)
        /\ r.short = IF few THEN t.short \union {s} ELSE t.short
        /\ \A v \in X : load[v] < q.cap
        /\ few => \A v \in q.evaluators \ (K \union X) : load[v] >= q.cap
        /\ q.mode = "round_robin" /\ X # {} => Cardinality(K \union X) <= Wanted(q)
  BY DEF Visited
<1> DEFINE few == Cardinality(K \union X) < Wanted(q)
<1>2. IsFiniteSet(t.add) /\ IsFiniteSet(r.add)
  BY AddFinite, MakingFields
<1>3. \A x \in q.eligible : x \in Nat
  BY AskedType
<1>4. \A p \in t.add : p[1] # s /\ p[1] \in Nat /\ p[1] <= n /\ p \notin DOMAIN e
  BY <1>3, MakingFields DEF Upto, Added
<1>5. q.cap \in Nat
  BY AskedType
<1>6. load \in [q.evaluators -> Nat]
  BY RecountType, MakingFields
<1>7. ASSUME NEW v \in q.evaluators
      PROVE  /\ load[v] = Cardinality(Counted(e, q, s, v)) + LoadOf(t.add, v)
             /\ Cardinality(Counted(e, q, s, v)) \in Nat /\ LoadOf(t.add, v) \in Nat
             /\ q.existing = "preserve" => load[v] = t.load[v]
  <2>1. RecountedTo(e, q, n, t, v)
    BY RecountIs
  <2> QED
    BY <2>1 DEF RecountedTo
<1>8. ASSUME NEW v PROVE LoadOf(r.add, v) = LoadOf(t.add, v) + IF v \in X THEN 1 ELSE 0
  <2>1. Without(t.add, s)
    BY <1>4 DEF Without
  <2>2. r.add = More(t.add, s, X)
    BY <1>1 DEF More
  <2>3. /\ v \in X => LoadOf(r.add, v) = LoadOf(t.add, v) + 1
        /\ v \notin X => LoadOf(r.add, v) = LoadOf(t.add, v)
    BY <1>2, <2>1, <2>2, LoadMore
  <2>4. LoadOf(t.add, v) \in Nat
    BY <1>2, LoadIsNat
  <2> QED
    BY <2>3, <2>4
<1>9. \A v \in q.evaluators : r.load[v] = load[v] + IF v \in X THEN 1 ELSE 0
  BY <1>1, <1>6, ChargeType
<1>10. Having(e, q, r.add, s) = K \union X
  <2>1. \A v : <<s, v>> \in r.add <=> v \in X
    BY <1>1, <1>4
  <2>2. Having(e, q, r.add, s) = K \union {v \in q.evaluators : <<s, v>> \in r.add}
    BY HavingIs, MakingFields
  <2> QED
    BY <2>1, <2>2
<1>11. ASSUME NEW x, x # s PROVE Having(e, q, r.add, x) = Having(e, q, t.add, x)
  <2>1. \A v : <<x, v>> \in r.add <=> <<x, v>> \in t.add
    BY <1>1, <1>11
  <2>2. /\ Having(e, q, r.add, x) = Kept(e, q, x) \union {v \in q.evaluators : <<x, v>> \in r.add}
        /\ Having(e, q, t.add, x) = Kept(e, q, x) \union {v \in q.evaluators : <<x, v>> \in t.add}
    BY HavingIs, MakingFields
  <2> QED
    BY <2>1, <2>2
<1> HIDE DEF K, load
<1>12. Added(e, s, r)
  <2>1. ASSUME NEW p \in r.add PROVE p[1] <= s /\ p \notin DOMAIN e
    <3>1. CASE p \in t.add
      BY <1>4, <3>1
    <3>2. CASE p \in {s} \X X
      <4>1. p[1] = s /\ p = <<s, p[2]>> /\ p[2] \in X
        BY <3>2
      <4> QED
        BY <4>1 DEF K, Kept
    <3> QED
      BY <1>1, <3>1, <3>2
  <2> QED
    BY <2>1 DEF Added
<1>13. Loads(e, q, s, r)
  <2>1. ASSUME NEW v \in q.evaluators
        PROVE  r.load[v] = Cardinality(Counted(e, q, s, v)) + LoadOf(r.add, v)
    BY <1>7, <1>8, <1>9
  <2> QED
    BY <2>1 DEF Loads
<1>14. Reported(e, q, s, r)
  <2>1. t.short = {x \in q.eligible : x <= n /\ Cardinality(Having(e, q, t.add, x)) < Wanted(q)}
    BY DEF Upto, Reported
  <2>2. \A x \in q.eligible : x <= s <=> x <= n \/ x = s
    BY <1>3
  <2>3. ~(s <= n)
    OBVIOUS
  <2>4. \A x \in q.eligible :
          x \in r.short <=> x <= s /\ Cardinality(Having(e, q, r.add, x)) < Wanted(q)
    <3> SUFFICES ASSUME NEW x \in q.eligible
                 PROVE  x \in r.short
                          <=> x <= s /\ Cardinality(Having(e, q, r.add, x)) < Wanted(q)
      OBVIOUS
    <3>1. CASE x = s
      BY <1>1, <1>10, <2>1, <2>2, <2>3, <3>1
    <3>2. CASE x # s
      BY <1>1, <1>11, <2>1, <2>2, <3>2
    <3> QED
      BY <3>1, <3>2
  <2>5. r.short \subseteq q.eligible
    BY MakingFields
  <2> QED
    BY <2>4, <2>5 DEF Reported
<1>15. Exhausted(e, q, r)
  <2>1. ASSUME NEW x \in r.short, NEW v \in q.evaluators \ Having(e, q, r.add, x)
        PROVE  Cardinality(Counted(e, q, x, v)) + LoadOf({p \in r.add : p[1] <= x}, v) >= q.cap
    <3>1. CASE x = s
      <4>1. few
        <5>1. s \notin t.short
          <6>1. ~(s <= n)
            OBVIOUS
          <6> QED
            BY <6>1 DEF Upto, Reported
        <5> QED
          BY <1>1, <3>1, <5>1
      <4>2. v \in q.evaluators \ (K \union X)
        BY <1>10, <3>1
      <4>3. load[v] >= q.cap /\ v \notin X
        BY <1>1, <4>1, <4>2
      <4>4. {p \in r.add : p[1] <= s} = r.add
        BY <1>12 DEF Added
      <4>5. LoadOf(r.add, v) = LoadOf(t.add, v)
        BY <1>7, <1>8, <4>2, <4>3
      <4>6. load[v] = Cardinality(Counted(e, q, s, v)) + LoadOf(r.add, v)
        BY <1>7, <4>2, <4>5
      <4> QED
        BY <3>1, <4>3, <4>4, <4>6
    <3>2. CASE x # s
      <4>1. x \in t.short /\ v \in q.evaluators \ Having(e, q, t.add, x)
        BY <1>1, <1>11, <3>2
      <4>2. x <= n /\ x \in Nat
        BY <1>3, <4>1 DEF Upto, Reported
      <4>3. ~(s <= x)
        BY <4>2
      <4>4. {p \in r.add : p[1] <= x} = {p \in t.add : p[1] <= x}
        BY <1>1, <4>3
      <4> QED
        BY <4>1, <4>4 DEF Upto, Exhausted
    <3> QED
      BY <3>1, <3>2
  <2> QED
    BY <2>1 DEF Exhausted
<1>16. Enough(e, q, r)
  <2>1. ASSUME q.mode = "round_robin", NEW x \in q.eligible, NEW p \in r.add, p[1] = x
        PROVE  Cardinality(Having(e, q, r.add, x)) <= Wanted(q)
    <3>1. CASE x = s
      <4>1. X # {}
        BY <1>1, <1>4, <2>1, <3>1
      <4> QED
        BY <1>1, <1>10, <2>1, <3>1, <4>1
    <3>2. CASE x # s
      <4>1. p \in t.add
        BY <1>1, <2>1, <3>2
      <4> QED
        BY <1>11, <2>1, <3>2, <4>1 DEF Upto, Enough
    <3> QED
      BY <3>1, <3>2
  <2> QED
    BY <2>1 DEF Enough
<1>17. Capped(q, r)
  <2>1. ASSUME q.existing = "preserve", NEW v \in q.evaluators, LoadOf(r.add, v) > 0
        PROVE  r.load[v] <= q.cap
    <3>1. CASE v \in X
      <4>1. load[v] < q.cap /\ load[v] \in Nat
        BY <1>1, <1>6, <3>1
      <4> QED
        BY <1>5, <1>9, <3>1, <4>1
    <3>2. CASE v \notin X
      <4>1. LoadOf(r.add, v) = LoadOf(t.add, v) /\ r.load[v] = load[v] /\ load[v] = t.load[v]
        BY <1>6, <1>7, <1>8, <1>9, <2>1, <3>2
      <4> QED
        BY <2>1, <4>1 DEF Upto, Capped
    <3> QED
      BY <3>1, <3>2
  <2> QED
    BY <2>1 DEF Capped
<1> QED
  BY <1>12, <1>13, <1>14, <1>15, <1>16, <1>17 DEF Upto

LEMMA UptoAll ==
  ASSUME NEW e, NEW q, Sane(e, q), NEW f, Going(e, q, f)
  PROVE  \A n \in Nat : Upto(e, q, n, f[n])
<1> DEFINE T == {n \in Nat : Upto(e, q, n, f[n])}
<1>1. 0 \in T
  BY UptoFirst DEF Going
<1>2. ASSUME NEW n \in Nat, n \in T PROVE n + 1 \in T
  <2>1. f[n] \in Making(q) /\ Upto(e, q, n, f[n]) /\ f[n + 1] = NextPlan(e, q, f[n], n + 1)
    BY <1>2 DEF Going
  <2>2. CASE n + 1 \in q.eligible
    <3>1. f[n + 1] = Visit(e, q, f[n], n + 1)
      BY <2>1, <2>2 DEF NextPlan
    <3>2. Visit(e, q, f[n], n + 1) \in Making(q) /\ Visited(e, q, f[n], n + 1, f[n + 1])
      BY <2>1, <2>2, <3>1, VisitIs
    <3>3. Upto(e, q, n + 1, f[n + 1])
      BY <2>1, <2>2, <3>1, <3>2, UptoVisited
    <3> QED
      BY <3>3
  <2>3. CASE n + 1 \notin q.eligible
    BY <2>1, <2>3, UptoPassed DEF NextPlan
  <2> QED
    BY <2>2, <2>3
<1> HIDE DEF T
<1>3. Nat \subseteq T
  BY <1>1, <1>2, ByNat
<1> QED
  BY <1>3 DEF T

-----------------------------------------------------------------------------
(* What is promised of a plan *)

\* A plan is the plan in the making after the last submission.
Final(e, q, n, t) ==
  /\ n \in Nat /\ \A s \in q.eligible : s <= n
  /\ t \in Making(q) /\ Upto(e, q, n, t)
  /\ Plan(e, q).add = t.add /\ Plan(e, q).short = t.short /\ Plan(e, q).remove = Removed(e, q)

LEMMA LastIs ==
  ASSUME NEW e, NEW q, Sane(e, q)
  PROVE  /\ Max(q.eligible \union {0}) \in Nat
         /\ \A s \in q.eligible : s <= Max(q.eligible \union {0})
<1> DEFINE N == q.eligible \union {0}
<1>1. N \subseteq Nat /\ IsFiniteSet(N) /\ N # {}
  <2>1. q.eligible \subseteq Nat
    BY AskedType
  <2>2. IsFiniteSet(q.eligible)
    BY DEF Sane
  <2>3. IsFiniteSet(N)
    BY <2>2, FS_AddElement
  <2> QED
    BY <2>1, <2>3
<1>2. Max(N) \in N /\ \A y \in N : Max(N) >= y
  BY <1>1, GreatestNat
<1> QED
  BY <1>1, <1>2

LEMMA PlanIs ==
  ASSUME NEW e, NEW q, Sane(e, q)
  PROVE  \E n, t : Final(e, q, n, t)
<1> DEFINE n == Max(q.eligible \union {0})
<1>1. PICK f : Going(e, q, f) /\ Planned(e, q) = f[n]
  BY VisitsAre
<1>2. n \in Nat /\ \A s \in q.eligible : s <= n
  BY LastIs
<1>3. f[n] \in Making(q) /\ Upto(e, q, n, f[n])
  BY <1>1, <1>2, UptoAll DEF Going
<1>4. /\ Plan(e, q).add = f[n].add /\ Plan(e, q).short = f[n].short
      /\ Plan(e, q).remove = Removed(e, q)
  BY <1>1 DEF Plan
<1> QED
  BY <1>2, <1>3, <1>4 DEF Final

\* No plan adds anything but pairs that are asked about and new, or removes
\* anything but pending assignments.
LEMMA ProperPlan ==
  ASSUME NEW e, NEW q, Sane(e, q)
  PROVE  Proper(e, q)
<1>1. PICK n, t : Final(e, q, n, t)
  BY PlanIs
<1>2. t.add \subseteq (q.eligible \X q.evaluators) \ DOMAIN e
  BY <1>1, MakingFields DEF Final, Upto, Added
<1>3. Removed(e, q) \subseteq {x \in DOMAIN e : e[x] = "pending"}
  BY DEF Removed
<1> QED
  BY <1>1, <1>2, <1>3 DEF Proper, Final

\* The counters are what everybody has when the plan is carried out,
LEMMA LoadAfter ==
  ASSUME NEW e, NEW q, Sane(e, q), NEW n, NEW t, Final(e, q, n, t), NEW v \in q.evaluators
  PROVE  LoadOf(After(e, q), v) = t.load[v] /\ t.load[v] \in Nat
<1> DEFINE D == DOMAIN e \ Removed(e, q)
<1>1. After(e, q) = D \union t.add
  BY DEF After, Final
<1>2. IsFiniteSet(D) /\ IsFiniteSet(t.add)
  <2>1. D \in SUBSET DOMAIN e /\ IsFiniteSet(DOMAIN e)
    BY DEF Sane
  <2>2. IsFiniteSet(D)
    BY <2>1, FS_Subset
  <2> QED
    BY <2>2, AddFinite, MakingFields DEF Final
<1>3. D \intersect t.add = {}
  BY DEF Final, Upto, Added
<1>4. {p \in D : p[2] = v} = Counted(e, q, n, v)
  <2>1. \A p \in DOMAIN e : p[2] = v /\ p[1] \in q.eligible => p \in q.eligible \X q.evaluators
    BY DEF Sane
  <2>2. \A p \in q.eligible \X q.evaluators : p[1] \in q.eligible /\ p[1] <= n
    BY DEF Final
  <2> QED
    BY <2>1, <2>2 DEF Counted, Removed
<1>5. LoadOf(D, v) = Cardinality(Counted(e, q, n, v))
  BY <1>4 DEF LoadOf
<1> HIDE DEF D
<1>6. LoadOf(D \union t.add, v) = LoadOf(D, v) + LoadOf(t.add, v)
  BY <1>2, <1>3, LoadUnion
<1>7. t.load[v] = Cardinality(Counted(e, q, n, v)) + LoadOf(t.add, v)
  BY DEF Final, Upto, Loads
<1>8. t.load[v] \in Nat
  BY MakingFields DEF Final
<1> QED
  BY <1>1, <1>5, <1>6, <1>7, <1>8

\* and nobody asked about is taken away.
LEMMA HavingAfter ==
  ASSUME NEW e, NEW q, Sane(e, q), NEW n, NEW t, Final(e, q, n, t), NEW s \in q.eligible
  PROVE  /\ ReviewersOf(After(e, q), s) \intersect q.evaluators = Having(e, q, t.add, s)
         /\ \A v \in q.evaluators :
              <<s, v>> \in After(e, q) <=> v \in Having(e, q, t.add, s)
<1>1. After(e, q) = (DOMAIN e \ Removed(e, q)) \union t.add
  BY DEF After, Final
<1>2. \A v \in q.evaluators : <<s, v>> \notin Removed(e, q)
  BY DEF Removed
<1>3. \A v \in q.evaluators : <<s, v>> \in After(e, q) <=> <<s, v>> \in DOMAIN e \union t.add
  BY <1>1, <1>2
<1>4. Having(e, q, t.add, s) = Kept(e, q, s) \union {v \in q.evaluators : <<s, v>> \in t.add}
  BY HavingIs, MakingFields DEF Final
<1>5. \A p \in After(e, q) : p = <<p[1], p[2]>>
  <2>1. t.add \subseteq q.eligible \X q.evaluators
    BY MakingFields DEF Final
  <2> QED
    BY <1>1, <2>1 DEF Sane
<1>6. ASSUME NEW v PROVE v \in ReviewersOf(After(e, q), s) <=> <<s, v>> \in After(e, q)
  <2>1. v \in ReviewersOf(After(e, q), s) <=> \E p \in After(e, q) : p[1] = s /\ p[2] = v
    BY DEF ReviewersOf
  <2>2. \A p \in After(e, q) : p[1] = s /\ p[2] = v => p = <<s, v>>
    BY <1>5
  <2> QED
    BY <2>1, <2>2
<1>7. \A v \in q.evaluators : <<s, v>> \in After(e, q) <=> v \in Having(e, q, t.add, s)
  BY <1>3, <1>4 DEF Kept
<1>8. Having(e, q, t.add, s) \subseteq q.evaluators
  BY <1>4 DEF Kept
<1> QED
  BY <1>6, <1>7, <1>8

\* A plan that preserves keeps to the cap.
LEMMA CappedPlan ==
  ASSUME NEW e, NEW q, Sane(e, q), q.existing = "preserve"
  PROVE  WithinCap(e, q)
<1>1. PICK n, t : Final(e, q, n, t)
  BY PlanIs
<1>2. ASSUME NEW v \in q.evaluators, LoadOf(Plan(e, q).add, v) > 0
      PROVE  LoadOf(After(e, q), v) <= q.cap
  <2>1. t.load[v] <= q.cap
    BY <1>1, <1>2 DEF Final, Upto, Capped
  <2> QED
    BY <1>1, <2>1, LoadAfter
<1> QED
  BY <1>2 DEF WithinCap

\* A plan misses nothing, and reports exactly what it could not get.
LEMMA ThoroughPlan ==
  ASSUME NEW e, NEW q, Sane(e, q)
  PROVE  Thorough(e, q)
<1>1. PICK n, t : Final(e, q, n, t)
  BY PlanIs
<1>2. t.add \in SUBSET (q.eligible \X q.evaluators) /\ t.short \subseteq q.eligible
  BY <1>1, MakingFields DEF Final
<1>3. \A s : Having(e, q, t.add, s) = ReviewersOf(DOMAIN e \union Plan(e, q).add, s) \intersect q.evaluators
  BY <1>1 DEF Having, Final
<1>4. t.short = {s \in q.eligible : Cardinality(Having(e, q, t.add, s)) < Wanted(q)}
  BY <1>1 DEF Final, Upto, Reported
<1>5. ASSUME NEW s \in t.short, NEW v \in q.evaluators \ ReviewersOf(After(e, q), s)
      PROVE  LoadOf(After(e, q), v) >= q.cap
  <2>1. v \in q.evaluators \ Having(e, q, t.add, s)
    BY <1>1, <1>2, <1>5, HavingAfter
  <2> DEFINE P == {p \in t.add : p[1] <= s}
  <2>2. Cardinality(Counted(e, q, s, v)) + LoadOf(P, v) >= q.cap
    BY <1>1, <2>1 DEF Final, Upto, Exhausted
  <2>3. LoadOf(P, v) <= LoadOf(t.add, v) /\ LoadOf(P, v) \in Nat /\ LoadOf(t.add, v) \in Nat
    <3>1. IsFiniteSet(t.add) /\ P \in SUBSET t.add
      BY <1>2, AddFinite
    <3> HIDE DEF P
    <3> QED
      BY <3>1, LoadMonotone
  <2>4. /\ Cardinality(Counted(e, q, s, v)) <= Cardinality(Counted(e, q, n, v))
        /\ Cardinality(Counted(e, q, s, v)) \in Nat /\ Cardinality(Counted(e, q, n, v)) \in Nat
    <3>1. s \in Nat /\ n \in Nat /\ s <= n /\ \A x \in q.eligible : x \in Nat
      BY <1>1, <1>2, AskedType DEF Final
    <3>2. \A x \in q.eligible : x <= s => x <= n
      BY <3>1
    <3>3. Counted(e, q, s, v) \in SUBSET Counted(e, q, n, v)
      BY <3>2 DEF Counted
    <3> QED
      BY <3>3, CountedFinite, FS_Subset
  <2>5. LoadOf(After(e, q), v) = Cardinality(Counted(e, q, n, v)) + LoadOf(t.add, v)
    BY <1>1, LoadAfter DEF Final, Upto, Loads
  <2>6. q.cap \in Nat
    BY AskedType
  <2> HIDE DEF P
  <2> QED
    BY <2>2, <2>3, <2>4, <2>5, <2>6
<1>6. ASSUME q.mode = "round_robin", NEW s \in q.eligible, ReviewersOf(Plan(e, q).add, s) # {}
      PROVE  Cardinality(Having(e, q, t.add, s)) <= Wanted(q)
  <2>1. \E p \in t.add : p[1] = s
    BY <1>1, <1>6 DEF ReviewersOf, Final
  <2> QED
    BY <1>1, <1>6, <2>1 DEF Final, Upto, Enough
<1> QED
  <2>1. Plan(e, q).short = t.short
    BY <1>1 DEF Final
  <2> QED
    BY <1>3, <1>4, <1>5, <1>6, <2>1 DEF Thorough, Wanted

-----------------------------------------------------------------------------
(* Evenness: from nothing, nobody has more than one more than another *)

\* In a round robin those up to the last have one more than the others,
Rota(q, t) ==
  \E k \in Nat : \A v \in q.evaluators : t.load[v] = IF v <= t.last THEN k + 1 ELSE k

\* and it is never the turn of one chosen before that of one not chosen.
Behind(q, t) ==
  \A v \in t.chosen, w \in q.evaluators \ t.chosen : NotLater(w, v, t.last)

LEMMA RotaGoesOn ==
  ASSUME NEW e, NEW q, Sane(e, q), NEW s \in q.eligible, NEW t \in Making(q),
         Rota(q, t), Behind(q, t)
  PROVE  LET r == PickOne(q, t, s) IN Rota(q, r) /\ Behind(q, r)
<1> DEFINE r == PickOne(q, t, s)
<1>1. Picked(q, t, s, r)
  BY PickIs
<1> HIDE DEF r
<1>2. CASE r = t
  BY <1>2 DEF r
<1>3. CASE \E v \in Able(q, t) :
             /\ \A w \in Able(q, t) : NotLater(v, w, t.last)
             /\ r.chosen = t.chosen \union {v} /\ r.last = v
             /\ r.load = Charge(t.load, {v})
  <2>1. PICK v \in Able(q, t) :
             /\ \A w \in Able(q, t) : NotLater(v, w, t.last)
             /\ r.chosen = t.chosen \union {v} /\ r.last = v
             /\ r.load = Charge(t.load, {v})
    BY <1>3
  <2>2. PICK k \in Nat : \A w \in q.evaluators : t.load[w] = IF w <= t.last THEN k + 1 ELSE k
    BY DEF Rota
  <2>3. /\ t.last \in Nat /\ q.cap \in Nat /\ t.load \in [q.evaluators -> Nat]
        /\ t.chosen \subseteq q.evaluators /\ \A w \in q.evaluators : w \in Nat
    BY AskedType, MakingFields
  <2>4. v \in q.evaluators /\ v \notin t.chosen /\ t.load[v] < q.cap /\ v \in Nat
    BY <2>1, <2>3 DEF Able
  <2>5. ASSUME NEW w \in q.evaluators PROVE NotLater(v, w, t.last)
    <3>1. CASE w \in t.chosen
      BY <2>4, <3>1 DEF Behind
    <3>2. CASE w \in Able(q, t)
      BY <2>1, <3>2
    <3>3. CASE w \notin t.chosen /\ w \notin Able(q, t)
      <4>1. ~(t.load[w] < q.cap)
        BY <3>3 DEF Able
      <4>2. t.load[w] = IF w <= t.last THEN k + 1 ELSE k
        BY <2>2
      <4>3. t.load[v] = IF v <= t.last THEN k + 1 ELSE k
        BY <2>2, <2>4
      <4>4. w <= t.last /\ ~(v <= t.last)
        BY <4>1, <4>2, <4>3, <2>3, <2>4
      <4> QED
        BY <4>4, <2>3, <2>4 DEF NotLater
    <3> QED
      BY <3>1, <3>2, <3>3
  <2>6. \A w \in q.evaluators : r.load[w] = t.load[w] + IF w = v THEN 1 ELSE 0
    BY <2>1, <2>3, ChargeType
  <2>7. CASE v > t.last
    <3>1. ASSUME NEW w \in q.evaluators
          PROVE  /\ w <= v <=> w <= t.last \/ w = v
                 /\ r.load[w] = IF w <= v THEN k + 1 ELSE k
      <4>1. w \in Nat /\ (w > t.last => v <= w)
        BY <2>3, <2>4, <2>5, <2>7 DEF NotLater
      <4>2. w <= v <=> w <= t.last \/ w = v
        BY <4>1, <2>3, <2>4, <2>7
      <4>3. t.load[w] = IF w <= t.last THEN k + 1 ELSE k
        BY <2>2
      <4>4. r.load[w] = t.load[w] + IF w = v THEN 1 ELSE 0
        BY <2>6
      <4>5. r.load[w] = IF w <= v THEN k + 1 ELSE k
        BY <4>1, <4>2, <4>3, <4>4, <2>3, <2>4, <2>7
      <4> QED
        BY <4>2, <4>5
    <3>2. Rota(q, r)
      BY <2>1, <3>1 DEF Rota
    <3>3. ASSUME NEW x \in r.chosen, NEW w \in q.evaluators \ r.chosen
          PROVE  NotLater(w, x, v)
      <4>1. w \in Nat /\ x \in Nat /\ w # v /\ w \notin t.chosen /\ x \in q.evaluators
        BY <2>1, <2>3, <2>4
      <4>2. (w <= v <=> w <= t.last) /\ (x <= v <=> x <= t.last \/ x = v)
        BY <3>1, <4>1
      <4>3. CASE x = v
        BY <4>1, <4>2, <4>3, <2>3 DEF NotLater
      <4>4. CASE x # v
        <5>1. NotLater(w, x, t.last)
          BY <2>1, <4>1, <4>4 DEF Behind
        <5> QED
          BY <4>1, <4>2, <4>4, <5>1, <2>3, <2>4 DEF NotLater
      <4> QED
        BY <4>3, <4>4
    <3> QED
      BY <2>1, <3>2, <3>3 DEF Behind, r
  <2>8. CASE ~(v > t.last)
    <3>1. ASSUME NEW w \in q.evaluators
          PROVE  /\ w <= t.last /\ v <= w /\ w \in Nat
                 /\ r.load[w] = IF w <= v THEN (k + 1) + 1 ELSE k + 1
      <4>1. w \in Nat /\ w <= t.last /\ v <= w
        BY <2>3, <2>4, <2>5, <2>8 DEF NotLater
      <4>2. t.load[w] = IF w <= t.last THEN k + 1 ELSE k
        BY <2>2
      <4>3. r.load[w] = t.load[w] + IF w = v THEN 1 ELSE 0
        BY <2>6
      <4>4. w <= v <=> w = v
        BY <4>1, <2>4
      <4> QED
        BY <4>1, <4>2, <4>3, <4>4
    <3>2. Rota(q, r)
      <4>1. k + 1 \in Nat
        OBVIOUS
      <4> QED
        BY <2>1, <3>1, <4>1 DEF Rota
    <3>3. ASSUME NEW x \in r.chosen, NEW w \in q.evaluators \ r.chosen
          PROVE  NotLater(w, x, v)
      <4>1. w # v /\ w \notin t.chosen /\ x \in q.evaluators
        BY <2>1, <2>3, <2>4
      <4>2. /\ w \in Nat /\ x \in Nat /\ w > v /\ v <= x
            /\ w <= t.last /\ x <= t.last
        BY <3>1, <4>1, <2>4
      <4>3. CASE x = v
        BY <4>2, <4>3, <2>4 DEF NotLater
      <4>4. CASE x # v
        <5>1. NotLater(w, x, t.last)
          BY <2>1, <4>1, <4>4 DEF Behind
        <5> QED
          BY <4>2, <4>4, <5>1, <2>3, <2>4 DEF NotLater
      <4> QED
        BY <4>3, <4>4
    <3> QED
      BY <2>1, <3>2, <3>3 DEF Behind, r
  <2> QED
    BY <2>7, <2>8
<1> QED
  BY <1>1, <1>2, <1>3 DEF Picked

\* Nothing is kept where there is nothing.
LEMMA NothingKept ==
  ASSUME NEW e, NEW q, Sane(e, q), DOMAIN e = {}
  PROVE  /\ \A s : Kept(e, q, s) = {}
         /\ \A s : \A load \in [q.evaluators -> Nat] : Recount(e, q, s, load) = load
         /\ \A n, v : Cardinality(Counted(e, q, n, v)) = 0
<1>1. \A s : Kept(e, q, s) = {}
  BY DEF Kept
<1>2. \A n, v : Counted(e, q, n, v) = {}
  BY DEF Counted
<1>3. ASSUME NEW s, NEW load \in [q.evaluators -> Nat] PROVE Recount(e, q, s, load) = load
  BY <1>1 DEF Recount
<1> QED
  BY <1>1, <1>2, <1>3, FS_EmptySet

LEMMA RobinRota ==
  ASSUME NEW e, NEW q, Sane(e, q), DOMAIN e = {}, NEW plan \in Making(q), NEW s \in q.eligible,
         Rota(q, plan)
  PROVE  Rota(q, RoundRobin(e, q, plan, s))
<1>0. PICK r : Rounds(e, q, plan, s, r)
  BY RoundsAre
<1>1. /\ r \in [Nat -> Making(q)]
      /\ r[0] = Started(e, q, plan, s)
      /\ \A n \in Nat : r[n + 1] = PickOne(q, r[n], s)
      /\ RoundRobin(e, q, plan, s) =
           [r[q.reviewers] EXCEPT
              !.short = IF Cardinality(r[q.reviewers].chosen) < q.reviewers
                        THEN @ \union {s} ELSE @]
  BY <1>0 DEF Rounds
<1> DEFINE T == {n \in Nat : Rota(q, r[n]) /\ Behind(q, r[n])}
<1>2. 0 \in T
  <2>1. r[0].last = plan.last /\ r[0].load = plan.load /\ r[0].chosen = {}
    <3>1. r[0].last = plan.last
      BY <1>1, StartedIs
    <3>2. r[0].chosen = {}
      BY <1>1, StartedIs, NothingKept
    <3>3. Recount(e, q, s, plan.load) = plan.load
      BY NothingKept, MakingFields
    <3> QED
      BY <1>1, <3>1, <3>2, <3>3, StartedIs
  <2> QED
    BY <2>1 DEF Rota, Behind
<1>3. ASSUME NEW n \in Nat, n \in T PROVE n + 1 \in T
  <2>1. r[n] \in Making(q) /\ Rota(q, r[n]) /\ Behind(q, r[n]) /\ r[n + 1] = PickOne(q, r[n], s)
    BY <1>1, <1>3
  <2>2. Rota(q, r[n + 1]) /\ Behind(q, r[n + 1])
    BY <2>1, RotaGoesOn
  <2> QED
    BY <2>2
<1>4. Nat \subseteq T
  <2> HIDE DEF T
  <2> QED
    BY <1>2, <1>3, ByNat
<1>5. PICK t \in Making(q) :
        /\ Rota(q, t)
        /\ RoundRobin(e, q, plan, s) =
             [t EXCEPT !.short = IF Cardinality(t.chosen) < q.reviewers
                                 THEN @ \union {s} ELSE @]
  <2>1. q.reviewers \in Nat
    BY AskedType
  <2> QED
    BY <1>1, <1>4, <2>1
<1>6. PICK z : z = RoundRobin(e, q, plan, s)
  OBVIOUS
<1>7. z.load = t.load /\ z.last = t.last
  BY <1>5, <1>6 DEF Making
<1> QED
  BY <1>5, <1>6, <1>7 DEF Rota

\* When everybody reviews everything they have the same, or nobody is asked.
Level(q, t) == \E k \in Nat : \A v \in q.evaluators : t.load[v] = k

LEMMA LevelGoesOn ==
  ASSUME NEW e, NEW q, Sane(e, q), DOMAIN e = {}, q.mode = "all_to_all",
         NEW t \in Making(q), NEW s \in q.eligible, Level(q, t), NEW r, Visited(e, q, t, s, r)
  PROVE  Level(q, r)
<1>1. Kept(e, q, s) = {} /\ Recount(e, q, s, t.load) = t.load
  BY NothingKept, MakingFields
<1>2. PICK X \in SUBSET q.evaluators :
        /\ r.load = Charge(t.load, X)
        /\ \A v \in X : t.load[v] < q.cap
        /\ Cardinality({} \union X) < Wanted(q) => \A v \in q.evaluators \ X : t.load[v] >= q.cap
  BY <1>1 DEF Visited
<1>3. PICK k \in Nat : \A v \in q.evaluators : t.load[v] = k
  BY DEF Level
<1>4. \A v \in q.evaluators : r.load[v] = t.load[v] + IF v \in X THEN 1 ELSE 0
  BY <1>2, ChargeType, MakingFields
<1>5. X = {} \/ X = q.evaluators
  <2> SUFFICES ASSUME NEW x \in X, NEW w \in q.evaluators \ X PROVE FALSE
    OBVIOUS
  <2>1. Cardinality(X) < Wanted(q)
    <3>1. /\ Cardinality(X) <= Cardinality(q.evaluators)
          /\ Cardinality(q.evaluators) = Cardinality(X) => q.evaluators = X
      BY FS_Subset DEF Sane
    <3>2. Cardinality(X) \in Nat /\ Cardinality(q.evaluators) \in Nat
      BY ChosenFinite
    <3>3. Wanted(q) = Cardinality(q.evaluators) /\ X # q.evaluators
      BY DEF Wanted
    <3> QED
      BY <3>1, <3>2, <3>3
  <2>2. {} \union X = X
    OBVIOUS
  <2>3. t.load[w] >= q.cap /\ t.load[x] < q.cap
    BY <1>2, <2>1, <2>2
  <2>4. q.cap \in Nat /\ t.load[w] = k /\ t.load[x] = k
    BY <1>3, AskedType
  <2> QED
    BY <2>3, <2>4
<1>6. CASE X = {}
  BY <1>3, <1>4, <1>6 DEF Level
<1>7. CASE X = q.evaluators
  <2>1. \A v \in q.evaluators : r.load[v] = k + 1
    BY <1>3, <1>4, <1>7
  <2>2. k + 1 \in Nat
    OBVIOUS
  <2> QED
    BY <2>1, <2>2 DEF Level
<1> QED
  BY <1>5, <1>6, <1>7

EvenAt(q, t) == IF q.mode = "all_to_all" THEN Level(q, t) ELSE Rota(q, t)

LEMMA EvenPlan ==
  ASSUME NEW e, NEW q, Sane(e, q)
  PROVE  Even(e, q)
<1> SUFFICES ASSUME DOMAIN e = {}, NEW v \in q.evaluators, NEW w \in q.evaluators
             PROVE  LoadOf(Plan(e, q).add, v) <= LoadOf(Plan(e, q).add, w) + 1
  BY DEF Even
<1> DEFINE n == Max(q.eligible \union {0})
<1>1. PICK f : Going(e, q, f) /\ Planned(e, q) = f[n]
  BY VisitsAre
<1> DEFINE T == {m \in Nat : EvenAt(q, f[m])}
<1>2. 0 \in T
  <2>1. f[0].last = 0 /\ f[0].load = [x \in q.evaluators |-> LoadBefore(e, q, x)]
    BY <1>1 DEF Going, Blank
  <2>2. \A x \in q.evaluators : f[0].load[x] = 0
    BY <2>1, CountedFirst, NothingKept
  <2>3. \A x \in q.evaluators : ~(x <= 0)
    BY AskedType
  <2>4. Level(q, f[0]) /\ Rota(q, f[0])
    BY <2>1, <2>2, <2>3 DEF Level, Rota
  <2> QED
    BY <2>4 DEF EvenAt
<1>3. ASSUME NEW m \in Nat, m \in T PROVE m + 1 \in T
  <2>1. f[m] \in Making(q) /\ EvenAt(q, f[m]) /\ f[m + 1] = NextPlan(e, q, f[m], m + 1)
    BY <1>1, <1>3 DEF Going
  <2>2. CASE m + 1 \notin q.eligible
    BY <2>1, <2>2 DEF NextPlan
  <2>3. CASE m + 1 \in q.eligible
    <3>1. f[m + 1] = Visit(e, q, f[m], m + 1)
      BY <2>1, <2>3 DEF NextPlan
    <3>2. Visited(e, q, f[m], m + 1, f[m + 1])
      BY <2>1, <2>3, <3>1, VisitIs
    <3>3. CASE q.mode = "all_to_all"
      <4>1. Level(q, f[m + 1])
        BY <2>1, <2>3, <3>2, <3>3, LevelGoesOn DEF EvenAt
      <4> QED
        BY <3>3, <4>1 DEF EvenAt
    <3>4. CASE q.mode # "all_to_all"
      <4>1. f[m + 1] = RoundRobin(e, q, f[m], m + 1)
        BY <3>1, <3>4 DEF Visit
      <4>2. Rota(q, f[m + 1])
        BY <2>1, <2>3, <3>4, <4>1, RobinRota DEF EvenAt
      <4> QED
        BY <3>4, <4>2 DEF EvenAt
    <3> QED
      BY <3>3, <3>4
  <2> QED
    BY <2>2, <2>3
<1>4. Nat \subseteq T
  <2> HIDE DEF T
  <2> QED
    BY <1>2, <1>3, ByNat
<1>5. n \in Nat
  BY LastIs
<1>6. PICK t : t = f[n]
  OBVIOUS
<1>7. t \in Making(q) /\ EvenAt(q, t) /\ Upto(e, q, n, t) /\ Plan(e, q).add = t.add
  BY <1>1, <1>4, <1>5, <1>6, UptoAll DEF Going, Plan
<1>8. ASSUME NEW x \in q.evaluators PROVE t.load[x] = LoadOf(t.add, x) /\ t.load[x] \in Nat
  <2>1. t.load[x] = Cardinality(Counted(e, q, n, x)) + LoadOf(t.add, x)
    BY <1>7 DEF Upto, Loads
  <2>2. Cardinality(Counted(e, q, n, x)) = 0
    BY NothingKept
  <2>3. LoadOf(t.add, x) \in Nat
    BY <1>7, AddFinite, LoadIsNat, MakingFields
  <2> QED
    BY <2>1, <2>2, <2>3
<1>9. t.load[v] <= t.load[w] + 1
  <2>1. CASE Level(q, t)
    <3>1. PICK k \in Nat : \A x \in q.evaluators : t.load[x] = k
      BY <2>1 DEF Level
    <3>2. t.load[v] = k /\ t.load[w] = k
      BY <3>1
    <3> QED
      BY <3>2
  <2>2. CASE Rota(q, t)
    <3>1. PICK k \in Nat : \A x \in q.evaluators : t.load[x] = IF x <= t.last THEN k + 1 ELSE k
      BY <2>2 DEF Rota
    <3>2. t.load[v] \in {k, k + 1} /\ t.load[w] \in {k, k + 1}
      BY <3>1
    <3> QED
      BY <3>2
  <2> QED
    BY <1>7, <2>1, <2>2 DEF EvenAt
<1> QED
  BY <1>7, <1>8, <1>9

-----------------------------------------------------------------------------
(* A plan that has been carried out leaves nothing to do. *)

\* d is what e becomes.
Carried(e, q, t, d) ==
  /\ Sane(d, q)
  /\ DOMAIN d = (DOMAIN e \ Removed(e, q)) \union t.add
  /\ DOMAIN d = After(e, q)
  /\ \A p \in t.add : d[p] = "pending"
  /\ \A p \in DOMAIN e \ Removed(e, q) : p \notin t.add /\ d[p] = e[p]

LEMMA AppliedIs ==
  ASSUME NEW e, NEW q, Sane(e, q), NEW n, NEW t, Final(e, q, n, t)
  PROVE  Carried(e, q, t, Applied(e, q))
<1> DEFINE D == (DOMAIN e \ Removed(e, q)) \union t.add
           d == Applied(e, q)
<1>1. d = [p \in D |-> IF p \in t.add THEN "pending" ELSE e[p]]
  BY DEF Applied, Changed, Final
<1>2. t.add \in SUBSET (q.eligible \X q.evaluators)
  BY MakingFields DEF Final
<1>3. D \subseteq Nat \X Nat
  <2>1. q.eligible \subseteq Nat /\ q.evaluators \subseteq Nat
    BY AskedType
  <2> QED
    BY <1>2, <2>1 DEF Sane
<1>4. IsFiniteSet(D)
  <2>1. IsFiniteSet(DOMAIN e \ Removed(e, q))
    <3>1. DOMAIN e \ Removed(e, q) \in SUBSET DOMAIN e /\ IsFiniteSet(DOMAIN e)
      BY DEF Sane
    <3> QED
      BY <3>1, FS_Subset
  <2>2. IsFiniteSet(t.add)
    BY <1>2, AddFinite
  <2> QED
    BY <2>1, <2>2, FS_Union
<1>5. DOMAIN d = D
  BY <1>1
<1>6. Sane(d, q)
  <2> HIDE DEF d, D
  <2> QED
    BY <1>3, <1>4, <1>5 DEF Sane
<1>7. \A p \in t.add : d[p] = "pending"
  BY <1>1
<1>8. \A p \in DOMAIN e \ Removed(e, q) : p \notin t.add /\ d[p] = e[p]
  <2>1. \A p \in DOMAIN e : p \notin t.add
    BY DEF Final, Upto, Added
  <2> HIDE DEF d
  <2> QED
    BY <1>1, <2>1
<1>9. D = After(e, q)
  BY DEF After, Final
<1> HIDE DEF d
<1> QED
  BY <1>5, <1>6, <1>7, <1>8, <1>9 DEF d, Carried

\* When it is the turn of s once more, those who have it then have it before.
LEMMA KeptThen ==
  ASSUME NEW e, NEW q, Sane(e, q), NEW n, NEW t, Final(e, q, n, t), NEW s \in q.eligible
  PROVE  Kept(Applied(e, q), q, s) = Having(e, q, t.add, s)
<1>1. \A v \in q.evaluators : <<s, v>> \in After(e, q) <=> v \in Having(e, q, t.add, s)
  BY HavingAfter
<1>2. Having(e, q, t.add, s) \subseteq q.evaluators
  BY DEF Having
<1>3. DOMAIN Applied(e, q) = After(e, q)
  BY AppliedIs DEF Carried
<1> QED
  BY <1>1, <1>2, <1>3 DEF Kept

\* The counters have not gone down.
LEMMA CountedThen ==
  ASSUME NEW e, NEW q, Sane(e, q), NEW n, NEW t, Final(e, q, n, t), NEW s \in q.eligible,
         NEW v \in q.evaluators
  PROVE  Cardinality(Counted(Applied(e, q), q, s, v))
           >= Cardinality(Counted(e, q, s, v)) + LoadOf({p \in t.add : p[1] <= s}, v)
<1> DEFINE d == Applied(e, q)
           A == {p \in t.add : p[1] <= s}
           G == {p \in A : p[2] = v}
           C == Counted(e, q, s, v)
<1>1. /\ Sane(d, q) /\ DOMAIN d = (DOMAIN e \ Removed(e, q)) \union t.add
      /\ \A p \in t.add : d[p] = "pending"
      /\ \A p \in DOMAIN e \ Removed(e, q) : p \notin t.add /\ d[p] = e[p]
  <2>1. Carried(e, q, t, d)
    BY AppliedIs
  <2> HIDE DEF d
  <2> QED
    BY <2>1 DEF Carried
<1>2. t.add \in SUBSET (q.eligible \X q.evaluators)
  BY MakingFields DEF Final
<1> HIDE DEF d
<1>3. C \subseteq DOMAIN e \ Removed(e, q)
  <2>1. \A p \in DOMAIN e : p[2] = v /\ p[1] \in q.eligible => p \in q.eligible \X q.evaluators
    BY DEF Sane
  <2> QED
    BY <2>1 DEF Counted, Removed
<1>4. C \subseteq Counted(d, q, s, v)
  BY <1>1, <1>3 DEF Counted
<1>5. G \subseteq Counted(d, q, s, v)
  <2>1. \A p \in t.add : p[1] \in q.eligible
    BY <1>2
  <2> QED
    BY <1>1, <2>1 DEF Counted
<1>6. C \intersect G = {}
  BY <1>1, <1>3
<1>7. IsFiniteSet(C) /\ Cardinality(C) \in Nat
  BY CountedFinite
<1>8. IsFiniteSet(G) /\ Cardinality(G) \in Nat
  <2>1. G \in SUBSET t.add /\ IsFiniteSet(t.add)
    BY <1>2, AddFinite
  <2> HIDE DEF G
  <2> QED
    BY <2>1, FS_Subset, FS_CardinalityType
<1>9. IsFiniteSet(Counted(d, q, s, v)) /\ Cardinality(Counted(d, q, s, v)) \in Nat
  BY <1>1, CountedFinite
<1>10. LoadOf(A, v) = Cardinality(G)
  BY DEF LoadOf
<1> HIDE DEF A, G, C
<1>11. Cardinality(C \union G) = Cardinality(C) + Cardinality(G)
  <2>1. Cardinality(C \union G) = Cardinality(C) + Cardinality(G) - Cardinality(C \intersect G)
    BY <1>7, <1>8, FS_Union
  <2>2. Cardinality(C \intersect G) = 0
    BY <1>6, FS_EmptySet
  <2> QED
    BY <2>1, <2>2, <1>7, <1>8
<1>12. Cardinality(C \union G) <= Cardinality(Counted(d, q, s, v))
  <2>1. C \union G \in SUBSET Counted(d, q, s, v)
    BY <1>4, <1>5
  <2> QED
    BY <2>1, <1>9, FS_Subset
<1> QED
  BY <1>7, <1>8, <1>9, <1>10, <1>11, <1>12 DEF C, A, d

\* Nobody is asked for s again.
LEMMA NoneAgain ==
  ASSUME NEW e, NEW q, Sane(e, q), NEW n, NEW t, Final(e, q, n, t),
         NEW m \in Nat, m + 1 \in q.eligible,
         NEW z \in Making(q), Upto(Applied(e, q), q, m, z), z.add = {},
         NEW r, Visited(Applied(e, q), q, z, m + 1, r)
  PROVE  r.add = {}
<1> DEFINE d == Applied(e, q)
           s == m + 1
           K == Kept(d, q, s)
           load == Recount(d, q, s, z.load)
<1>1. PICK X \in SUBSET (q.evaluators \ K) :
        /\ r.add = z.add \union ({s} \X X)
        /\ \A v \in X : load[v] < q.cap
        /\ q.mode = "round_robin" /\ X # {} => Cardinality(K \union X) <= Wanted(q)
  BY DEF Visited
<1>2. Sane(d, q) /\ Upto(d, q, m, z)
  BY AppliedIs DEF Carried
<1>3. K = Having(e, q, t.add, s)
  BY KeptThen
<1>4. K \subseteq q.evaluators
  BY DEF Kept
<1>5. s \in Nat /\ s <= n
  BY DEF Final
<1>6. ASSUME NEW v \in X PROVE FALSE
  <2>1. load[v] < q.cap /\ v \in q.evaluators /\ v \notin K
    BY <1>1, <1>6
  <2>2. /\ load[v] = Cardinality(Counted(d, q, s, v)) + LoadOf(z.add, v)
        /\ Cardinality(Counted(d, q, s, v)) \in Nat /\ LoadOf(z.add, v) \in Nat
    <3> HIDE DEF d
    <3>1. Sane(d, q)
      BY <1>2
    <3>2. Upto(d, q, m, z)
      BY <1>2
    <3>3. v \in q.evaluators
      BY <2>1
    <3>4. RecountedTo(d, q, m, z, v)
      BY <3>1, <3>2, <3>3, RecountIs
    <3> QED
      BY <3>4 DEF RecountedTo
  <2>3. CASE s \in t.short
    <3> DEFINE P == {p \in t.add : p[1] <= s}
    <3>1. Cardinality(Counted(e, q, s, v)) + LoadOf(P, v) >= q.cap
      BY <1>3, <2>1, <2>3 DEF Final, Upto, Exhausted
    <3>2. Cardinality(Counted(d, q, s, v)) >= Cardinality(Counted(e, q, s, v)) + LoadOf(P, v)
      BY <2>1, CountedThen
    <3>3. LoadOf(P, v) \in Nat /\ Cardinality(Counted(e, q, s, v)) \in Nat
      <4>1. P \in SUBSET t.add /\ IsFiniteSet(t.add)
        BY AddFinite, MakingFields DEF Final
      <4> HIDE DEF P
      <4> QED
        BY <4>1, LoadMonotone, CountedFinite
    <3>4. q.cap \in Nat
      BY AskedType
    <3> HIDE DEF P, load, s, d
    <3> QED
      BY <2>1, <2>2, <3>1, <3>2, <3>3, <3>4
  <2>4. CASE s \notin t.short
    <3>1. ~(Cardinality(K) < Wanted(q))
      BY <1>3, <1>5, <2>4 DEF Final, Upto, Reported
    <3>2. IsFiniteSet(K) /\ Cardinality(K) \in Nat
      BY <1>2, <1>4, ChosenFinite
    <3>3. CASE q.mode = "all_to_all"
      <4>1. /\ Cardinality(K) <= Cardinality(q.evaluators)
            /\ Cardinality(q.evaluators) = Cardinality(K) => q.evaluators = K
        BY <1>4, FS_Subset DEF Sane
      <4>2. Wanted(q) = Cardinality(q.evaluators) /\ Cardinality(q.evaluators) \in Nat
        BY <3>3, ChosenFinite DEF Wanted
      <4> HIDE DEF K
      <4> QED
        BY <2>1, <3>1, <3>2, <4>1, <4>2
    <3>4. CASE q.mode = "round_robin"
      <4>1. Cardinality(K \union X) <= Wanted(q)
        BY <1>1, <1>6, <3>4
      <4>2. IsFiniteSet(K \union X) /\ Cardinality(K \union X) \in Nat
        BY <1>1, <1>2, <1>4, ChosenFinite
      <4>3. Cardinality(K \union {v}) = Cardinality(K) + 1
        BY <2>1, <3>2, FS_AddElement
      <4>4. Cardinality(K \union {v}) <= Cardinality(K \union X)
        <5>1. K \union {v} \in SUBSET (K \union X)
          BY <1>6
        <5> QED
          BY <4>2, <5>1, FS_Subset
      <4>5. Wanted(q) \in Nat
        BY <3>4, AskedType DEF Wanted
      <4> HIDE DEF K
      <4> QED
        BY <3>1, <3>2, <4>1, <4>2, <4>3, <4>4, <4>5
    <3> QED
      BY <3>3, <3>4, AskedType DEF Mode
  <2> QED
    BY <2>3, <2>4
<1>7. X = {}
  BY <1>6
<1> QED
  BY <1>1, <1>7

LEMMA SettledPlan ==
  ASSUME NEW e, NEW q, Sane(e, q)
  PROVE  Settles(e, q)
<1> DEFINE d == Applied(e, q)
           k == Max(q.eligible \union {0})
<1>1. PICK n, t : Final(e, q, n, t)
  BY PlanIs
<1>2. Sane(d, q) /\ Carried(e, q, t, d)
  <2>1. Carried(e, q, t, d)
    BY <1>1, AppliedIs
  <2> QED
    BY <2>1 DEF Carried
<1>3. PICK f : Going(d, q, f) /\ Planned(d, q) = f[k]
  BY <1>2, VisitsAre
<1> DEFINE T == {m \in Nat : f[m].add = {}}
<1>4. 0 \in T
  BY <1>3 DEF Going, Blank
<1>5. ASSUME NEW m \in Nat, m \in T PROVE m + 1 \in T
  <2>1. /\ f[m] \in Making(q) /\ f[m].add = {} /\ f[m + 1] = NextPlan(d, q, f[m], m + 1)
        /\ Upto(d, q, m, f[m])
    BY <1>2, <1>3, <1>5, UptoAll DEF Going
  <2>2. CASE m + 1 \notin q.eligible
    BY <2>1, <2>2 DEF NextPlan
  <2>3. CASE m + 1 \in q.eligible
    <3>1. Visited(d, q, f[m], m + 1, f[m + 1])
      BY <1>2, <2>1, <2>3, VisitIs DEF NextPlan
    <3> QED
      BY <1>1, <2>1, <2>3, <3>1, NoneAgain
  <2> QED
    BY <2>2, <2>3
<1>6. Nat \subseteq T
  <2> HIDE DEF T
  <2> QED
    BY <1>4, <1>5, ByNat
<1>7. k \in Nat /\ \A s \in q.eligible : s <= k
  BY LastIs
<1>8. f[k].add = {} /\ Upto(d, q, k, f[k])
  BY <1>2, <1>3, <1>6, <1>7, UptoAll
<1>9. \A s \in q.eligible : Having(d, q, {}, s) = Having(e, q, t.add, s)
  <2> SUFFICES ASSUME NEW s \in q.eligible
               PROVE  Having(d, q, {}, s) = Having(e, q, t.add, s)
    OBVIOUS
  <2>1. Having(d, q, {}, s) = Kept(d, q, s) \union {v \in q.evaluators : <<s, v>> \in {}}
    <3>1. PICK z : z = {}
      OBVIOUS
    <3>2. z \in SUBSET (q.eligible \X q.evaluators)
      BY <3>1
    <3> HIDE DEF d
    <3>3. Having(d, q, z, s) = Kept(d, q, s) \union {v \in q.evaluators : <<s, v>> \in z}
      BY <1>2, <3>2, HavingIs
    <3> QED
      BY <3>1, <3>3
  <2>2. Kept(d, q, s) = Having(e, q, t.add, s)
    BY <1>1, KeptThen
  <2> QED
    BY <2>1, <2>2
<1>10. f[k].short = t.short
  <2>1. f[k].short = {s \in q.eligible : s <= k /\ Cardinality(Having(d, q, {}, s)) < Wanted(q)}
    BY <1>8 DEF Upto, Reported
  <2>2. t.short = {s \in q.eligible : s <= n /\ Cardinality(Having(e, q, t.add, s)) < Wanted(q)}
    BY <1>1 DEF Final, Upto, Reported
  <2>3. \A s \in q.eligible : s <= k /\ s <= n
    BY <1>1, <1>7 DEF Final
  <2> HIDE DEF d, k
  <2> QED
    BY <1>9, <2>1, <2>2, <2>3
<1>11. Removed(d, q) = {}
  <2>1. /\ DOMAIN d = (DOMAIN e \ Removed(e, q)) \union t.add
        /\ \A p \in DOMAIN e \ Removed(e, q) : d[p] = e[p]
    <3> HIDE DEF d
    <3> QED
      BY <1>2 DEF Carried
  <2>2. t.add \subseteq q.eligible \X q.evaluators
    BY <1>1, MakingFields DEF Final
  <2> HIDE DEF d
  <2> QED
    BY <2>1, <2>2 DEF Removed
<1>12. Plan(d, q) = [add |-> {}, short |-> t.short, remove |-> {}]
  BY <1>3, <1>8, <1>10, <1>11 DEF Plan
<1>13. Plan(e, q).short = t.short
  BY <1>1 DEF Final
<1> QED
  BY <1>12, <1>13 DEF Settles

-----------------------------------------------------------------------------
(* The theorem *)

Assigned == DOMAIN estate \subseteq Pair

LEMMA SaneEstate ==
  ASSUME Assigned, NEW q \in Question
  PROVE  Sane(estate, q)
<1>1. IsFiniteSet(Pair)
  BY NumbersAssumption, FS_Product DEF Pair
<1>2. IsFiniteSet(DOMAIN estate)
  BY <1>1, FS_Subset DEF Assigned
<1>3. q \in Asked(Submission, Evaluator)
  BY QuestionAssumption
<1>4. q.eligible \in SUBSET Submission /\ q.evaluators \in SUBSET Evaluator
  BY <1>3 DEF Asked
<1>5. IsFiniteSet(q.eligible) /\ IsFiniteSet(q.evaluators)
  BY <1>4, NumbersAssumption, FS_Subset
<1>6. q \in Asked(Nat \ {0}, Nat \ {0})
  BY <1>3, NumbersAssumption DEF Asked
<1>7. DOMAIN estate \subseteq Nat \X Nat
  BY NumbersAssumption DEF Assigned, Pair
<1> QED
  BY <1>2, <1>5, <1>6, <1>7 DEF Sane

LEMMA Sound ==
  ASSUME Assigned
  PROVE  PlanSound
<1> SUFFICES ASSUME NEW q \in Question
             PROVE  /\ Proper(estate, q) /\ Thorough(estate, q)
                    /\ q.existing = "preserve" => WithinCap(estate, q)
                    /\ Even(estate, q) /\ Settles(estate, q)
  BY DEF PlanSound
<1>1. Sane(estate, q)
  BY SaneEstate
<1> QED
  BY <1>1, ProperPlan, ThoroughPlan, CappedPlan, EvenPlan, SettledPlan

LEMMA AssignedStays ==
  ASSUME Assigned, [Next]_estate
  PROVE  Assigned'
<1>1. ASSUME NEW s \in Submission, NEW vs \in SUBSET Evaluator, Assign(s, vs)
      PROVE  Assigned'
  BY <1>1 DEF Assign, Changed, Assigned, Pair
<1>2. ASSUME NEW q \in Question, BulkAssign(q)
      PROVE  Assigned'
  <2>1. Sane(estate, q)
    BY SaneEstate
  <2>2. Plan(estate, q).add \subseteq q.eligible \X q.evaluators
    BY <2>1, ProperPlan DEF Proper
  <2>3. q.eligible \subseteq Submission /\ q.evaluators \subseteq Evaluator
    BY QuestionAssumption DEF Asked
  <2>4. DOMAIN estate' = (DOMAIN estate \ Plan(estate, q).remove) \union Plan(estate, q).add
    BY <1>2 DEF BulkAssign, Applied, Changed
  <2> QED
    BY <2>2, <2>3, <2>4 DEF Assigned, Pair
<1>3. ASSUME NEW p \in Pair, NEW verdict \in {"scored", "abstained"}, Evaluate(p, verdict)
      PROVE  Assigned'
  BY <1>3 DEF Evaluate, Assigned
<1>4. CASE UNCHANGED estate
  BY <1>4 DEF Assigned
<1> QED
  BY <1>1, <1>2, <1>3, <1>4 DEF Next

\* Whatever has been assigned, reviewed and planned before, and for any number
\* of submissions and evaluators, every plan a bulk assignment makes
\* (bulkAssignEvaluators) leaves reviews alone, keeps the cap when it preserves,
\* reports exactly the submissions it could not fill, from nothing spreads the
\* work evenly, and when carried out leaves nothing to do.
THEOREM PlansAreSound == Spec => []PlanSound
<1>1. Init => Assigned
  BY DEF Init, Assigned
<1>2. Assigned /\ [Next]_estate => Assigned'
  BY AssignedStays
<1>3. Assigned => PlanSound
  BY Sound
<1> QED
  BY <1>1, <1>2, <1>3, PTL DEF Spec
=============================================================================
