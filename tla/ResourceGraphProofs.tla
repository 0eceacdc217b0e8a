------------------------ MODULE ResourceGraphProofs ------------------------
(***************************************************************************)
(* Proofs about ResourceGraph: what a resource waits for, directly or not, *)
(* is the least set of urns that has what it waits for and, with a         *)
(* resource, all that this one waits for.                                  *)
(***************************************************************************)
EXTENDS ResourceGraph, FiniteSetTheorems, WellFoundedInduction, TLAPS

(* A set of urns that has all that the resources in it wait for.           *)
Closed(G, S) == \A q \in G : q.urn \in S => q.after \subseteq S

Grown(G, S) == S \cup UNION {q.after : q \in {q \in G : q.urn \in S}}

Closure(G) ==
  CHOOSE f : f = [S \in SUBSET Urns(G) |->
                    LET T == Grown(G, S) IN IF T \subseteq S THEN S ELSE f[T]]

(* The least closed set with S.                                            *)
Least(G, S) ==
  {u \in Urns(G) :
     \A C \in SUBSET Urns(G) : S \subseteq C /\ Closed(G, C) => u \in C}

LEMMA BeforeIsClosure == \A G : \A r : Before(G, r) = Closure(G)[r.after \cap Urns(G)]
BY DEF Before, Closure, Grown

LEMMA GrownIn ==
  ASSUME NEW G, SelfContained(G), NEW S \in SUBSET Urns(G)
  PROVE  /\ Grown(G, S) \in SUBSET Urns(G) /\ S \subseteq Grown(G, S)
         /\ Grown(G, S) \subseteq S <=> Closed(G, S)
         /\ \A C \in SUBSET Urns(G) : Closed(G, C) =>
              (S \subseteq C <=> Grown(G, S) \subseteq C)
BY DEF SelfContained, Grown, Closed

LEMMA LeastIs ==
  ASSUME NEW G, SelfContained(G), NEW S \in SUBSET Urns(G)
  PROVE  Least(G, S) = IF Grown(G, S) \subseteq S THEN S ELSE Least(G, Grown(G, S))
<1>1. CASE Closed(G, S)
  <2>1. Least(G, S) = S
    BY <1>1 DEF Least
  <2> QED
    BY <1>1, <2>1, GrownIn
<1>2. CASE ~Closed(G, S)
  <2>1. Least(G, S) = Least(G, Grown(G, S))
    BY GrownIn DEF Least
  <2> QED
    BY <1>2, <2>1, GrownIn
<1> QED
  BY <1>1, <1>2

(* There is one function that the recursion defines: it tells the least    *)
(* closed set.                                                             *)
LEMMA ClosureLeast ==
  ASSUME NEW G, SelfContained(G), NEW S \in SUBSET Urns(G)
  PROVE  Closure(G)[S] = Least(G, S)
<1> DEFINE U == Urns(G)
           F(f) == f = [X \in SUBSET U |->
                     LET T == Grown(G, X) IN IF T \subseteq X THEN X ELSE f[T]]
           g == [X \in SUBSET U |-> Least(G, X)]
<1>1. F(g)
  <2>1. \A X \in SUBSET U : g[X] = IF Grown(G, X) \subseteq X THEN X ELSE g[Grown(G, X)]
    BY LeastIs, GrownIn
  <2> QED
    BY <2>1
<1>2. F(Closure(G))
  BY <1>1 DEF Closure
<1>3. \A X \in SUBSET U :
        Closure(G)[X] = IF Grown(G, X) \subseteq X THEN X ELSE Closure(G)[Grown(G, X)]
  BY <1>2
<1> DEFINE Bad == {X \in SUBSET U : Closure(G)[X] # Least(G, X)}
           Rest == {U \ X : X \in Bad}
<1>4. SUFFICES ASSUME Bad # {} PROVE FALSE
  OBVIOUS
<1>5. PICK M \in Rest : \A N \in Rest : <<N, M>> \notin StrictSubsetOrdering(U)
  <2>1. FiniteSubsetsOf(U) = SUBSET U
    BY FS_FiniteSubsetsOfFinite DEF SelfContained
  <2>2. IsWellFoundedOn(StrictSubsetOrdering(U), SUBSET U)
    BY <2>1, FS_StrictSubsetOrderingWellFounded
  <2>3. Rest \subseteq SUBSET U /\ Rest # {}
    BY <1>4
  <2> HIDE DEF Rest
  <2> QED
    BY <2>2, <2>3, WFMin, Zenon
<1>6. PICK X \in Bad : M = U \ X
  OBVIOUS
<1> DEFINE T == Grown(G, X)
<1>7. T \in SUBSET U /\ X \subseteq T
  BY GrownIn
<1>8. CASE T \subseteq X
  BY <1>3, <1>8, LeastIs
<1>9. CASE ~(T \subseteq X)
  <2>1. <<U \ T, M>> \in StrictSubsetOrdering(U)
    BY <1>6, <1>7, <1>9 DEF StrictSubsetOrdering
  <2>2. T \notin Bad
    BY <1>5, <2>1
  <2>3. Closure(G)[T] = Least(G, T)
    BY <1>7, <2>2
  <2> QED
    BY <1>3, <1>9, <2>3, LeastIs
<1> QED
  BY <1>8, <1>9

(* What r waits for in G, directly or not, has what r waits for, is closed *)
(* under what its resources wait for, and is the least such set.           *)
THEOREM BeforeLeast ==
  ASSUME NEW G, SelfContained(G), NEW r
  PROVE  /\ Before(G, r) \subseteq Urns(G)
         /\ r.after \cap Urns(G) \subseteq Before(G, r)
         /\ Closed(G, Before(G, r))
         /\ \A C : r.after \cap Urns(G) \subseteq C /\ Closed(G, C) =>
              Before(G, r) \subseteq C
<1> DEFINE S == r.after \cap Urns(G)
<1>1. Before(G, r) = Least(G, S)
  BY BeforeIsClosure, ClosureLeast
<1>2. Closed(G, Urns(G))
  BY DEF Closed, SelfContained
<1>3. Closed(G, Least(G, S))
  BY DEF Closed, Least, SelfContained
<1>4. ASSUME NEW C, S \subseteq C, Closed(G, C) PROVE Least(G, S) \subseteq C
  <2>1. Closed(G, C \cap Urns(G))
    BY <1>2, <1>4 DEF Closed
  <2> QED
    BY <1>4, <2>1 DEF Least
<1> QED
  BY <1>1, <1>3, <1>4 DEF Least

(* What r waits for brings along all that it waits for itself.             *)
THEOREM BeforeTransitive ==
  ASSUME NEW G, SelfContained(G), NEW r, NEW q \in G, q.urn \in Before(G, r)
  PROVE  Before(G, q) \subseteq Before(G, r)
<1>1. Closed(G, Before(G, r))
  BY BeforeLeast
<1>2. q.after \subseteq Before(G, r)
  BY <1>1 DEF Closed
<1> QED
  BY <1>1, <1>2, BeforeLeast

(* When no resource of G waits for itself, directly or not, any of them    *)
(* have one among them that waits for none of them: there is always one    *)
(* that can be created before the others.                                  *)
THEOREM OneComesFirst ==
  ASSUME NEW G, SelfContained(G), \A r \in G : r.urn \notin Before(G, r),
         NEW S \in SUBSET G, S # {}
  PROVE  \E r \in S : \A q \in S : q.urn \notin r.after
<1> DEFINE U == Urns(G)
           B == {Before(G, s) : s \in S}
<1>1. PICK M \in B : \A N \in B : <<N, M>> \notin StrictSubsetOrdering(U)
  <2>1. FiniteSubsetsOf(U) = SUBSET U
    BY FS_FiniteSubsetsOfFinite DEF SelfContained
  <2>2. IsWellFoundedOn(StrictSubsetOrdering(U), SUBSET U)
    BY <2>1, FS_StrictSubsetOrderingWellFounded
  <2>3. B \subseteq SUBSET U /\ B # {}
    BY BeforeLeast
  <2> HIDE DEF B
  <2> QED
    BY <2>2, <2>3, WFMin, Zenon
<1>2. PICK r \in S : M = Before(G, r)
  OBVIOUS
<1>3. ASSUME NEW q \in S, q.urn \in r.after PROVE FALSE
  <2>1. q.urn \in Before(G, r)
    BY <1>3, BeforeLeast DEF Urns
  <2>2. Before(G, q) \subseteq Before(G, r)
    BY <2>1, BeforeTransitive
  <2>3. Before(G, q) \subseteq U /\ Before(G, r) \subseteq U
    BY BeforeLeast
  <2>4. <<Before(G, q), M>> \in StrictSubsetOrdering(U)
    BY <1>2, <2>1, <2>2, <2>3 DEF StrictSubsetOrdering
  <2> QED
    BY <1>1, <2>4
<1> QED
  BY <1>3

(* What is registered later takes nothing away of what a resource waits    *)
(* for.                                                                    *)
THEOREM BeforeGrows ==
  ASSUME NEW H, SelfContained(H), NEW G \in SUBSET H, SelfContained(G), NEW r
  PROVE  Before(G, r) \subseteq Before(H, r)
<1>1. Closed(G, Before(H, r)) /\ r.after \cap Urns(H) \subseteq Before(H, r)
  BY BeforeLeast DEF Closed
<1>2. Urns(G) \subseteq Urns(H)
  BY DEF Urns
<1> QED
  BY <1>1, <1>2, BeforeLeast

(* One resource more, that waits for what is registered.                   *)
LEMMA OneMore ==
  ASSUME NEW G, SelfContained(G), NEW c, c.after \subseteq Urns(G)
  PROVE  SelfContained(G \cup {c}) /\ Urns(G \cup {c}) = Urns(G) \cup {c.urn}
<1>1. Urns(G \cup {c}) = Urns(G) \cup {c.urn}
  BY DEF Urns
<1>2. IsFiniteSet(Urns(G) \cup {c.urn})
  BY FS_AddElement DEF SelfContained
<1> QED
  BY <1>1, <1>2 DEF SelfContained

(* Resources of which, of any two, one waits for the other.                *)
Chain(G, K) == \A r, q \in K : r # q => Ordered(G, r, q)

(* One resource more, that waits for each resource of a chain, or for one  *)
(* that waits for it, makes a longer chain.                                *)
THEOREM LongerChain ==
  ASSUME NEW G, SelfContained(G), NEW K \in SUBSET G, Chain(G, K),
         NEW c, c.after \subseteq Urns(G),
         \A r \in K : r.urn \in c.after \/ \E p \in G : p.urn \in c.after /\ r.urn \in p.after
  PROVE  Chain(G \cup {c}, K \cup {c})
<1> DEFINE H == G \cup {c}
<1>1. SelfContained(H) /\ Urns(H) = Urns(G) \cup {c.urn}
  BY OneMore
<1>2. ASSUME NEW r \in K PROVE r.urn \in Before(H, c)
  <2>1. c.after \subseteq Before(H, c) /\ Closed(H, Before(H, c))
    BY <1>1, BeforeLeast
  <2> QED
    BY <2>1 DEF Closed
<1>3. ASSUME NEW r \in K, NEW q \in K, r # q PROVE Ordered(H, r, q)
  <2>1. Before(G, r) \subseteq Before(H, r) /\ Before(G, q) \subseteq Before(H, q)
    BY <1>1, BeforeGrows
  <2> QED
    BY <1>3, <2>1 DEF Chain, Ordered
<1> QED
  BY <1>2, <1>3 DEF Chain, Ordered
=============================================================================
