------------------------ MODULE SetEvaluationProofs ------------------------
(***************************************************************************)
(* What evaluate_diversity answers, for every set of calls, every policy   *)
(* and every bound: PROVEN_DIVERSE and NOT_DIVERSE hold whatever the       *)
(* evidence does not show, complete evidence is decided right, an open     *)
(* outcome waits for missing evidence, and the witness is exact.           *)
(*                                                                         *)
(* The search for a largest independent set of paths comes first           *)
(* (src/src/evaluate_graph.cpp): it is exact, for every conflict graph of  *)
(* every size.  Its definitions recurse over sets of candidates.           *)
(* Induction is by least counterexample: a set of natural numbers that is  *)
(* not empty has a least element, and the numbers are the sizes of the     *)
(* candidate sets.                                                         *)
(***************************************************************************)
EXTENDS SetEvaluation, FiniteSetTheorems, WellFoundedInduction, TLAPS

-----------------------------------------------------------------------------
(* The search for a largest independent set *)

LEMMA LeastNatural ==
  ASSUME NEW T \in SUBSET Nat, T # {}
  PROVE  \E m \in T : \A k \in T : m <= k
<1>1. PICK m \in T : \A k \in T : ~(<<k, m>> \in OpToRel(<, Nat))
  BY NatLessThanWellFounded, WFMin
<1>2. \A k \in T : ~(k < m)
  BY <1>1 DEF OpToRel
<1> QED
  BY <1>2

LEMMA LowestProperties ==
  ASSUME NEW n \in Nat, NEW C \in SUBSET (1..n), C # {}
  PROVE  Lowest(C) \in C /\ \A u \in C : Lowest(C) <= u
<1>1. PICK m \in C : \A k \in C : m <= k
  BY LeastNatural
<1> QED
  BY <1>1 DEF Lowest

\* Sizes of the sets the search works on.
Size(C) == Cardinality(C)

LEMMA Sizes ==
  ASSUME NEW n \in Nat, NEW C \in SUBSET (1..n)
  PROVE  /\ IsFiniteSet(C) /\ Size(C) \in 0..n
         /\ \A D \in SUBSET C : Size(D) <= Size(C)
         /\ \A D \in SUBSET C : D # C => Size(D) < Size(C)
         /\ \A v \in C : Size(C \ {v}) = Size(C) - 1
         /\ \A v \in (1..n) \ C : Size(C \cup {v}) = Size(C) + 1
<1>1. IsFiniteSet(1..n) /\ Cardinality(1..n) = n
  BY FS_Interval
<1>2. IsFiniteSet(C) /\ Cardinality(C) <= n /\ Cardinality(C) \in Nat
  BY <1>1, FS_Subset, FS_CardinalityType
<1>3. ASSUME NEW D \in SUBSET C
      PROVE  Size(D) <= Size(C) /\ (D # C => Size(D) < Size(C))
  <2>1. IsFiniteSet(D) /\ Cardinality(D) <= Cardinality(C) /\ (Cardinality(C) = Cardinality(D) => C = D)
    BY <1>2, FS_Subset
  <2>2. Cardinality(D) \in Nat
    BY <2>1, FS_CardinalityType
  <2> QED
    BY <1>2, <2>1, <2>2 DEF Size
<1>4. \A v \in C : Size(C \ {v}) = Size(C) - 1
  BY <1>2, FS_RemoveElement DEF Size
<1>5. \A v \in (1..n) \ C : Size(C \cup {v}) = Size(C) + 1
  BY <1>2, FS_AddElement DEF Size
<1> QED
  BY <1>2, <1>3, <1>4, <1>5 DEF Size

-----------------------------------------------------------------------------
(* mis_cardinality: the function exists, and is the size of a largest      *)
(* independent set among the candidates.                                   *)

\* The candidates left once v is taken.
Rest(graph, n, C, v) == (C \ Neighbours(graph, v, n)) \ {v}

\* The right-hand side of the recursion, with g for the function itself.
CardBody(graph, n, g, C) ==
    IF C = {} THEN 0
    ELSE LET vertex == Lowest(C)
             without == C \ {vertex}
             excluded == g[without]
             included == 1 + g[without \ Neighbours(graph, vertex, n)]
         IN  IF included > excluded THEN included ELSE excluded

LEMMA CardBodyLocal ==
  ASSUME NEW graph, NEW n \in Nat, NEW C \in SUBSET (1..n), NEW g, NEW h,
         \A D \in SUBSET C : D # C => g[D] = h[D]
  PROVE  CardBody(graph, n, g, C) = CardBody(graph, n, h, C)
<1>1. CASE C = {}
  BY <1>1 DEF CardBody
<1>2. CASE C # {}
  <2> DEFINE without == C \ {Lowest(C)}
             rest == without \ Neighbours(graph, Lowest(C), n)
  <2>1. without \in SUBSET C /\ without # C /\ rest \in SUBSET C /\ rest # C
    BY <1>2, LowestProperties
  <2>2. g[without] = h[without] /\ g[rest] = h[rest]
    BY <2>1
  <2> QED
    BY <2>2 DEF CardBody
<1> QED
  BY <1>1, <1>2

\* A function that is right on the candidate sets smaller than k.
CardUpTo(graph, n, k) ==
    \E g : \A C \in SUBSET (1..n) : Size(C) < k => g[C] = CardBody(graph, n, g, C)

LEMMA CardUpToAll ==
  ASSUME NEW graph, NEW n \in Nat
  PROVE  \A k \in Nat : CardUpTo(graph, n, k)
<1> DEFINE T == {k \in Nat : ~CardUpTo(graph, n, k)}
<1> SUFFICES ASSUME T # {} PROVE FALSE
  OBVIOUS
<1>1. PICK k \in T : \A j \in T : k <= j
  BY LeastNatural
<1>2. k # 0
  <2>1. \A C \in SUBSET (1..n) : ~(Size(C) < 0)
    BY Sizes
  <2> QED
    BY <1>1, <2>1 DEF CardUpTo
<1>3. k - 1 \in Nat /\ CardUpTo(graph, n, k - 1)
  BY <1>1, <1>2
<1>4. PICK g : \A C \in SUBSET (1..n) : Size(C) < k - 1 => g[C] = CardBody(graph, n, g, C)
  BY <1>3 DEF CardUpTo
<1> DEFINE h == [C \in SUBSET (1..n) |-> CardBody(graph, n, g, C)]
<1>5. ASSUME NEW C \in SUBSET (1..n), Size(C) < k
      PROVE  h[C] = CardBody(graph, n, h, C)
  <2>1. ASSUME NEW D \in SUBSET C, D # C PROVE g[D] = h[D]
    <3>1. D \in SUBSET (1..n) /\ Size(D) < Size(C) /\ Size(D) \in Nat /\ Size(C) \in Nat
      BY <2>1, Sizes
    <3>2. Size(D) < k - 1
      BY <1>3, <1>5, <3>1
    <3> QED
      BY <1>4, <3>1, <3>2
  <2>2. CardBody(graph, n, g, C) = CardBody(graph, n, h, C)
    <3> HIDE DEF h
    <3> QED
      BY <2>1, CardBodyLocal
  <2> QED
    BY <2>2
<1>6. CardUpTo(graph, n, k)
  <2> HIDE DEF h
  <2> QED
    BY <1>5 DEF CardUpTo
<1> QED
  BY <1>1, <1>6

LEMMA CardEquation ==
  ASSUME NEW graph, NEW n \in Nat, NEW C \in SUBSET (1..n)
  PROVE  MisCardinality(graph, n)[C] = CardBody(graph, n, MisCardinality(graph, n), C)
<1>1. PICK g : \A D \in SUBSET (1..n) : Size(D) < n + 1 => g[D] = CardBody(graph, n, g, D)
  <2>1. CardUpTo(graph, n, n + 1)
    BY CardUpToAll
  <2> QED
    BY <2>1 DEF CardUpTo
<1>2. \A D \in SUBSET (1..n) : g[D] = CardBody(graph, n, g, D)
  BY <1>1, Sizes
<1> DEFINE h == [D \in SUBSET (1..n) |-> g[D]]
<1>3. h = [D \in SUBSET (1..n) |-> CardBody(graph, n, h, D)]
  <2>1. ASSUME NEW D \in SUBSET (1..n) PROVE CardBody(graph, n, g, D) = CardBody(graph, n, h, D)
    <3>1. \A E \in SUBSET D : E # D => g[E] = h[E]
      OBVIOUS
    <3> HIDE DEF h
    <3> QED
      BY <3>1, CardBodyLocal
  <2> QED
    BY <1>2, <2>1
<1> HIDE DEF h
<1>4. MisCardinality(graph, n) =
        [D \in SUBSET (1..n) |-> CardBody(graph, n, MisCardinality(graph, n), D)]
  BY <1>3 DEF MisCardinality, CardBody
<1> QED
  BY <1>4

\* No two of these vertices are in conflict.
Apart(graph, S) == \A u, v \in S : {u, v} \notin graph

Loopless(graph) == \A u : {u} \notin graph

\* card is the size of a largest independent set among the candidates C.
LargestSize(graph, C, size) ==
    /\ size \in Nat
    /\ \A S \in SUBSET C : Apart(graph, S) => Size(S) <= size
    /\ \E S \in SUBSET C : Apart(graph, S) /\ Size(S) = size

\* Taking v leaves the independent sets of its non-neighbours.
LEMMA RestApart ==
  ASSUME NEW graph, Loopless(graph), NEW n \in Nat, NEW C \in SUBSET (1..n), NEW v \in C
  PROVE  /\ Rest(graph, n, C, v) \in SUBSET C /\ v \notin Rest(graph, n, C, v)
         /\ \A S \in SUBSET C : v \in S /\ Apart(graph, S) =>
              S \ {v} \in SUBSET Rest(graph, n, C, v) /\ Apart(graph, S \ {v})
         /\ \A S \in SUBSET Rest(graph, n, C, v) : Apart(graph, S) =>
              S \cup {v} \in SUBSET C /\ Apart(graph, S \cup {v})
<1>1. Rest(graph, n, C, v) \in SUBSET C /\ v \notin Rest(graph, n, C, v)
  BY DEF Rest
<1>2. ASSUME NEW S \in SUBSET C, v \in S, Apart(graph, S)
      PROVE  S \ {v} \in SUBSET Rest(graph, n, C, v) /\ Apart(graph, S \ {v})
  BY <1>2 DEF Rest, Neighbours, Apart
<1>3. ASSUME NEW S \in SUBSET Rest(graph, n, C, v), Apart(graph, S)
      PROVE  Apart(graph, S \cup {v})
  <2> SUFFICES ASSUME NEW u \in S \cup {v}, NEW w \in S \cup {v} PROVE {u, w} \notin graph
    BY DEF Apart
  <2>1. \A x \in S : {x, v} \notin graph
    BY DEF Rest, Neighbours
  <2>2. CASE u = v /\ w = v
    <3>1. {u, w} = {v}
      BY <2>2
    <3> QED
      BY <3>1 DEF Loopless
  <2>3. CASE u # v /\ w = v
    BY <2>1, <2>3
  <2>4. CASE u = v /\ w # v
    <3>1. {u, w} = {w, v}
      BY <2>4
    <3> QED
      BY <2>1, <2>4, <3>1
  <2>5. CASE u # v /\ w # v
    BY <1>3, <2>5 DEF Apart
  <2> QED
    BY <2>2, <2>3, <2>4, <2>5
<1> QED
  BY <1>1, <1>2, <1>3

LEMMA CardStep ==
  ASSUME NEW graph, Loopless(graph), NEW n \in Nat, NEW card, NEW C \in SUBSET (1..n),
         card[C] = CardBody(graph, n, card, C),
         \A D \in SUBSET C : D # C => LargestSize(graph, D, card[D])
  PROVE  LargestSize(graph, C, card[C])
<1>1. CASE C = {}
  <2>1. card[C] = 0 /\ Size({}) = 0 /\ Apart(graph, {})
    BY <1>1, FS_EmptySet DEF CardBody, Size, Apart
  <2>2. \A S \in SUBSET C : S = {}
    BY <1>1
  <2>3. ASSUME NEW S \in SUBSET C PROVE Size(S) <= 0
    <3>1. Size(S) = 0
      BY <2>1, <2>2
    <3> QED
      BY <3>1
  <2>4. {} \in SUBSET C
    OBVIOUS
  <2> QED
    BY <2>1, <2>3, <2>4 DEF LargestSize
<1>2. CASE C # {}
  <2> DEFINE v == Lowest(C)
             without == C \ {v}
             rest == Rest(graph, n, C, v)
  <2>0. v \in C
    BY <1>2, LowestProperties
  <2>1. /\ without \in SUBSET C /\ without # C /\ rest \in SUBSET C /\ rest # C
        /\ rest = without \ Neighbours(graph, v, n) /\ v \notin rest
    BY <2>0 DEF Rest
  <2>2. LargestSize(graph, without, card[without]) /\ LargestSize(graph, rest, card[rest])
    BY <2>1
  <2>3. card[C] = IF 1 + card[rest] > card[without] THEN 1 + card[rest] ELSE card[without]
    BY <1>2, <2>1 DEF CardBody
  <2>4. card[C] \in Nat /\ card[C] >= card[without] /\ card[C] >= 1 + card[rest]
    BY <2>2, <2>3 DEF LargestSize
  <2>a. card[without] \in Nat /\ card[rest] \in Nat
    BY <2>2 DEF LargestSize
  <2>b. \A S \in SUBSET C : Size(S) \in Nat /\ \A x \in S : Size(S \ {x}) = Size(S) - 1
    BY Sizes
  <2> HIDE DEF v, without, rest
  <2>5. ASSUME NEW S \in SUBSET C, Apart(graph, S) PROVE Size(S) <= card[C]
    <3>1. CASE v \notin S
      <4>1. S \in SUBSET without
        BY <3>1 DEF without
      <4>2. Size(S) <= card[without]
        BY <2>2, <2>5, <4>1 DEF LargestSize
      <4> QED
        BY <2>4, <2>a, <2>b, <4>2
    <3>2. CASE v \in S
      <4>1. S \ {v} \in SUBSET rest /\ Apart(graph, S \ {v})
        BY <2>0, <2>5, <3>2, RestApart DEF rest
      <4>2. Size(S \ {v}) <= card[rest]
        BY <2>2, <4>1 DEF LargestSize
      <4> QED
        BY <2>4, <2>a, <2>b, <3>2, <4>2
    <3> QED
      BY <3>1, <3>2
  <2>6. \E S \in SUBSET C : Apart(graph, S) /\ Size(S) = card[C]
    <3>1. CASE card[C] = card[without]
      BY <2>1, <2>2, <3>1 DEF LargestSize
    <3>2. CASE card[C] = 1 + card[rest]
      <4>1. PICK S \in SUBSET rest : Apart(graph, S) /\ Size(S) = card[rest]
        BY <2>2 DEF LargestSize
      <4>2. S \cup {v} \in SUBSET C /\ Apart(graph, S \cup {v})
        BY <2>0, <4>1, RestApart DEF rest
      <4>3. Size(S \cup {v}) = Size(S) + 1
        <5>1. S \in SUBSET (1..n) /\ v \in (1..n) \ S
          BY <2>0, <2>1
        <5> QED
          BY <5>1, Sizes
      <4> QED
        BY <2>a, <3>2, <4>1, <4>2, <4>3
    <3> QED
      BY <2>3, <3>1, <3>2
  <2> QED
    BY <2>4, <2>5, <2>6 DEF LargestSize
<1> QED
  BY <1>1, <1>2

\* mis_cardinality computes the size of a largest independent set.
THEOREM CardinalityIsExact ==
  ASSUME NEW graph, Loopless(graph), NEW n \in Nat, NEW C \in SUBSET (1..n)
  PROVE  LargestSize(graph, C, MisCardinality(graph, n)[C])
<1> DEFINE card == MisCardinality(graph, n)
           bad == {D \in SUBSET (1..n) : ~LargestSize(graph, D, card[D])}
           T == {Size(D) : D \in bad}
<1> SUFFICES ASSUME bad # {} PROVE FALSE
  OBVIOUS
<1>1. T \in SUBSET Nat /\ T # {}
  BY Sizes
<1>2. PICK m \in T : \A k \in T : m <= k
  BY <1>1, LeastNatural
<1>3. PICK D \in bad : Size(D) = m
  BY <1>2
<1>4. ASSUME NEW E \in SUBSET D, E # D PROVE LargestSize(graph, E, card[E])
  <2>1. E \in SUBSET (1..n) /\ Size(E) < Size(D) /\ Size(E) \in Nat /\ Size(D) \in Nat
    BY <1>4, Sizes
  <2> QED
    BY <1>2, <1>3, <2>1
<1>5. card[D] = CardBody(graph, n, card, D)
  BY CardEquation
<1> HIDE DEF card
<1>6. LargestSize(graph, D, card[D])
  BY <1>4, <1>5, CardStep
<1> QED
  BY <1>6

-----------------------------------------------------------------------------
(* mis_witness: the function exists, and yields the lexicographically      *)
(* first of the largest independent sets.                                  *)

\* The candidates that some largest independent set holds.
Useful(graph, n, C) ==
    {v \in C : 1 + MisCardinality(graph, n)[Rest(graph, n, C, v)] = MisCardinality(graph, n)[C]}

TakeBody(graph, n, g, C) ==
    IF Useful(graph, n, C) = {} THEN {}
    ELSE {Lowest(Useful(graph, n, C))} \cup g[Rest(graph, n, C, Lowest(Useful(graph, n, C)))]

LEMMA TakeBodyLocal ==
  ASSUME NEW graph, NEW n \in Nat, NEW C \in SUBSET (1..n), NEW g, NEW h,
         \A D \in SUBSET C : D # C => g[D] = h[D]
  PROVE  TakeBody(graph, n, g, C) = TakeBody(graph, n, h, C)
<1> DEFINE U == Useful(graph, n, C)
           rest == Rest(graph, n, C, Lowest(U))
<1>1. CASE U = {}
  BY <1>1 DEF TakeBody
<1>2. CASE U # {}
  <2>1. U \in SUBSET C /\ U \in SUBSET (1..n)
    BY DEF Useful
  <2>2. Lowest(U) \in C
    BY <1>2, <2>1, LowestProperties
  <2>3. rest \in SUBSET C /\ rest # C
    BY <2>2 DEF Rest
  <2> QED
    BY <1>2, <2>3 DEF TakeBody
<1> QED
  BY <1>1, <1>2

TakeUpTo(graph, n, k) ==
    \E g : \A C \in SUBSET (1..n) : Size(C) < k => g[C] = TakeBody(graph, n, g, C)

LEMMA TakeUpToAll ==
  ASSUME NEW graph, NEW n \in Nat
  PROVE  \A k \in Nat : TakeUpTo(graph, n, k)
<1> DEFINE T == {k \in Nat : ~TakeUpTo(graph, n, k)}
<1> SUFFICES ASSUME T # {} PROVE FALSE
  OBVIOUS
<1>1. PICK k \in T : \A j \in T : k <= j
  BY LeastNatural
<1>2. k # 0
  <2>1. \A C \in SUBSET (1..n) : ~(Size(C) < 0)
    BY Sizes
  <2> QED
    BY <1>1, <2>1 DEF TakeUpTo
<1>3. k - 1 \in Nat /\ TakeUpTo(graph, n, k - 1)
  BY <1>1, <1>2
<1>4. PICK g : \A C \in SUBSET (1..n) : Size(C) < k - 1 => g[C] = TakeBody(graph, n, g, C)
  BY <1>3 DEF TakeUpTo
<1> DEFINE h == [C \in SUBSET (1..n) |-> TakeBody(graph, n, g, C)]
<1>5. ASSUME NEW C \in SUBSET (1..n), Size(C) < k
      PROVE  h[C] = TakeBody(graph, n, h, C)
  <2>1. ASSUME NEW D \in SUBSET C, D # C PROVE g[D] = h[D]
    <3>1. D \in SUBSET (1..n) /\ Size(D) < Size(C) /\ Size(D) \in Nat /\ Size(C) \in Nat
      BY <2>1, Sizes
    <3>2. Size(D) < k - 1
      BY <1>3, <1>5, <3>1
    <3> QED
      BY <1>4, <3>1, <3>2
  <2>2. TakeBody(graph, n, g, C) = TakeBody(graph, n, h, C)
    <3> HIDE DEF h
    <3> QED
      BY <2>1, TakeBodyLocal
  <2> QED
    BY <2>2
<1>6. TakeUpTo(graph, n, k)
  <2> HIDE DEF h
  <2> QED
    BY <1>5 DEF TakeUpTo
<1> QED
  BY <1>1, <1>6

\* A function satisfies the recursion, and mis_witness is what it says of all paths.
LEMMA TakeEquation ==
  ASSUME NEW graph, NEW n \in Nat
  PROVE  \E take : /\ \A C \in SUBSET (1..n) : take[C] = TakeBody(graph, n, take, C)
                   /\ MisWitness(graph, n) = take[1..n]
<1>1. PICK g : \A D \in SUBSET (1..n) : Size(D) < n + 1 => g[D] = TakeBody(graph, n, g, D)
  <2>1. TakeUpTo(graph, n, n + 1)
    BY TakeUpToAll
  <2> QED
    BY <2>1 DEF TakeUpTo
<1>2. \A D \in SUBSET (1..n) : g[D] = TakeBody(graph, n, g, D)
  BY <1>1, Sizes
<1> DEFINE h == [D \in SUBSET (1..n) |-> g[D]]
<1>3. h = [D \in SUBSET (1..n) |-> TakeBody(graph, n, h, D)]
  <2>1. ASSUME NEW D \in SUBSET (1..n) PROVE TakeBody(graph, n, g, D) = TakeBody(graph, n, h, D)
    <3>1. \A E \in SUBSET D : E # D => g[E] = h[E]
      OBVIOUS
    <3> HIDE DEF h
    <3> QED
      BY <3>1, TakeBodyLocal
  <2> QED
    BY <1>2, <2>1
<1> HIDE DEF h
<1> DEFINE take == CHOOSE t : t = [D \in SUBSET (1..n) |-> TakeBody(graph, n, t, D)]
<1>4. take = [D \in SUBSET (1..n) |-> TakeBody(graph, n, take, D)]
  BY <1>3
<1>5. MisWitness(graph, n) = take[1..n]
  BY DEF MisWitness, TakeBody, Useful, Rest
<1> HIDE DEF take
<1> QED
  BY <1>4, <1>5

\* S comes no later than T in lexicographic order.
First(S, T) == S = T \/ Lowest((S \ T) \cup (T \ S)) \in S

\* The candidates found useful are those of the largest independent sets, and
\* there are some unless there are no candidates.
LEMMA UsefulCandidates ==
  ASSUME NEW graph, Loopless(graph), NEW n \in Nat, NEW C \in SUBSET (1..n)
  PROVE  /\ C # {} => Useful(graph, n, C) # {}
         /\ \A T \in SUBSET C : Apart(graph, T) /\ Size(T) = MisCardinality(graph, n)[C] =>
              T \subseteq Useful(graph, n, C)
<1> DEFINE card == MisCardinality(graph, n)
<1>0. \A D \in SUBSET (1..n) : LargestSize(graph, D, card[D])
  BY CardinalityIsExact
<1>1. ASSUME NEW T \in SUBSET C, Apart(graph, T), Size(T) = card[C], NEW v \in T
      PROVE  v \in Useful(graph, n, C)
  <2> DEFINE rest == Rest(graph, n, C, v)
  <2>1. rest \in SUBSET (1..n) /\ T \ {v} \in SUBSET rest /\ Apart(graph, T \ {v})
    BY <1>1, RestApart
  <2>2. Size(T \ {v}) = Size(T) - 1 /\ Size(T) \in Nat
    <3>1. T \in SUBSET (1..n) /\ v \in T
      BY <1>1
    <3> QED
      BY <3>1, Sizes
  <2>3. Size(T) - 1 <= card[rest] /\ card[rest] \in Nat
    BY <1>0, <2>1, <2>2 DEF LargestSize
  <2>4. 1 + card[rest] <= card[C]
    <3>1. PICK S \in SUBSET rest : Apart(graph, S) /\ Size(S) = card[rest]
      BY <1>0, <2>1 DEF LargestSize
    <3>2. S \cup {v} \in SUBSET C /\ Apart(graph, S \cup {v}) /\ v \notin S
      BY <1>1, <3>1, RestApart
    <3>3. Size(S \cup {v}) = Size(S) + 1
      <4>1. S \in SUBSET (1..n) /\ v \in (1..n) \ S
        BY <3>2, <1>1
      <4> QED
        BY <4>1, Sizes
    <3>4. Size(S \cup {v}) <= card[C]
      BY <1>0, <3>2 DEF LargestSize
    <3> QED
      BY <2>3, <3>1, <3>3, <3>4
  <2>5. 1 + card[rest] = card[C]
    BY <1>1, <2>2, <2>3, <2>4
  <2> QED
    BY <1>1, <2>5 DEF Useful
<1>2. ASSUME C # {} PROVE Useful(graph, n, C) # {}
  <2>1. PICK v : v \in C
    BY <1>2
  <2>2. {v} \in SUBSET C /\ Apart(graph, {v}) /\ Size({v}) = 1
    <3>1. \A u, w \in {v} : {u, w} = {v}
      OBVIOUS
    <3> QED
      BY <2>1, <3>1, FS_Singleton DEF Apart, Loopless, Size
  <2>3. card[C] >= 1 /\ card[C] \in Nat
    BY <1>0, <2>2 DEF LargestSize
  <2>4. PICK T \in SUBSET C : Apart(graph, T) /\ Size(T) = card[C]
    BY <1>0 DEF LargestSize
  <2>5. T # {}
    BY <2>3, <2>4, FS_EmptySet DEF Size
  <2> QED
    BY <1>1, <2>4, <2>5
<1> QED
  BY <1>1, <1>2

\* W is the first of the largest independent sets among the candidates C.
FirstLargest(graph, n, C, W) ==
    /\ W \in SUBSET C /\ Apart(graph, W) /\ Size(W) = MisCardinality(graph, n)[C]
    /\ \A T \in SUBSET C : Apart(graph, T) /\ Size(T) = MisCardinality(graph, n)[C] => First(W, T)

LEMMA TakeStep ==
  ASSUME NEW graph, Loopless(graph), NEW n \in Nat, NEW take, NEW C \in SUBSET (1..n),
         take[C] = TakeBody(graph, n, take, C),
         \A D \in SUBSET C : D # C => FirstLargest(graph, n, D, take[D])
  PROVE  FirstLargest(graph, n, C, take[C])
<1> DEFINE card == MisCardinality(graph, n)
           U == Useful(graph, n, C)
<1>0. /\ U \in SUBSET C /\ U \in SUBSET (1..n)
      /\ LargestSize(graph, C, card[C]) /\ card[C] \in Nat
  <2>1. LargestSize(graph, C, card[C])
    BY CardinalityIsExact
  <2> HIDE DEF card
  <2> QED
    BY <2>1 DEF Useful, LargestSize
<1>1. CASE C = {}
  <2>1. take[C] = {} /\ U = {}
    BY <1>0, <1>1 DEF TakeBody
  <2>2. \A T \in SUBSET C : T = {}
    BY <1>1
  <2>3. PICK S \in SUBSET C : Apart(graph, S) /\ Size(S) = card[C]
    BY <1>0 DEF LargestSize
  <2> QED
    BY <2>1, <2>2, <2>3 DEF FirstLargest, First
<1>2. CASE C # {}
  <2> DEFINE v == Lowest(U)
             rest == Rest(graph, n, C, v)
             W == take[rest]
  <2>1. v \in U /\ \A u \in U : v <= u
    BY <1>0, <1>2, UsefulCandidates, LowestProperties
  <2>2. /\ v \in C /\ v \in 1..n /\ rest \in SUBSET C /\ rest # C /\ v \notin rest
        /\ 1 + card[rest] = card[C]
    <3>1. v \in C /\ 1 + card[rest] = card[C]
      BY <1>0, <2>1 DEF Useful
    <3> HIDE DEF v
    <3>2. rest \in SUBSET C /\ v \notin rest
      BY <3>1, RestApart
    <3> QED
      BY <3>1, <3>2
  <2>3. FirstLargest(graph, n, rest, W)
    BY <2>2
  <2>4. take[C] = {v} \cup W
    BY <2>1 DEF TakeBody
  <2> HIDE DEF v, rest, U
  <2>5. W \cup {v} \in SUBSET C /\ Apart(graph, W \cup {v})
    BY <2>2, <2>3, RestApart DEF FirstLargest, rest
  <2>6. Size(W \cup {v}) = card[C]
    <3>1. W \in SUBSET (1..n) /\ v \in (1..n) \ W /\ Size(W) = card[rest]
      BY <2>2, <2>3 DEF FirstLargest
    <3>2. Size(W) \in Nat /\ Size(W \cup {v}) = Size(W) + 1
      BY <3>1, Sizes
    <3> QED
      BY <2>2, <3>1, <3>2
  <2>7. W \cup {v} \subseteq U
    BY <2>5, <2>6, UsefulCandidates DEF U
  <2>8. ASSUME NEW T \in SUBSET C, Apart(graph, T), Size(T) = card[C]
        PROVE  First(W \cup {v}, T)
    <3> DEFINE diff == ((W \cup {v}) \ T) \cup (T \ (W \cup {v}))
    <3>1. T \subseteq U
      BY <2>8, UsefulCandidates DEF U
    <3>2. CASE v \notin T
      <4>1. v \in diff /\ diff \in SUBSET (1..n) /\ diff \subseteq U
        BY <1>0, <2>2, <2>7, <3>1, <3>2
      <4>2. Lowest(diff) \in diff /\ Lowest(diff) <= v
        <5>1. diff # {}
          BY <4>1
        <5> HIDE DEF diff
        <5> QED
          BY <4>1, <5>1, LowestProperties
      <4>3. v <= Lowest(diff)
        BY <2>1, <4>1, <4>2
      <4>4. Lowest(diff) = v
        BY <4>1, <4>2, <4>3
      <4> QED
        BY <4>4 DEF First
    <3>3. CASE v \in T
      <4>1. T \ {v} \in SUBSET rest /\ Apart(graph, T \ {v})
        BY <2>2, <2>8, <3>3, RestApart DEF rest
      <4>2. Size(T \ {v}) = card[rest]
        <5>1. Size(T \ {v}) = Size(T) - 1 /\ Size(T \ {v}) \in Nat
          BY <3>3, Sizes
        <5>2. card[rest] \in Nat
          BY <2>2, CardinalityIsExact DEF LargestSize
        <5> QED
          BY <2>2, <2>8, <5>1, <5>2
      <4>3. First(W, T \ {v})
        BY <2>3, <4>1, <4>2 DEF FirstLargest
      <4>4. CASE W = T \ {v}
        BY <3>3, <4>4 DEF First
      <4>5. CASE W # T \ {v}
        <5>1. diff = (W \ (T \ {v})) \cup ((T \ {v}) \ W)
          BY <2>2, <2>3, <3>3 DEF FirstLargest
        <5>2. Lowest(diff) \in W
          BY <4>3, <4>5, <5>1 DEF First
        <5> QED
          BY <5>2 DEF First
      <4> QED
        BY <4>4, <4>5
    <3> QED
      BY <3>2, <3>3
  <2>9. take[C] = W \cup {v}
    BY <2>4
  <2> HIDE DEF W
  <2> QED
    BY <2>5, <2>6, <2>8, <2>9 DEF FirstLargest
<1> QED
  BY <1>1, <1>2

\* mis_witness yields the lexicographically first of the largest independent sets
\* of a conflict graph (the comment above mis_cardinality), for every graph.
THEOREM SearchIsExact ==
  ASSUME NEW graph, Loopless(graph), NEW n \in Nat
  PROVE  FirstLargest(graph, n, 1..n, MisWitness(graph, n))
<1>1. PICK take : /\ \A C \in SUBSET (1..n) : take[C] = TakeBody(graph, n, take, C)
                  /\ MisWitness(graph, n) = take[1..n]
  BY TakeEquation
<1> DEFINE bad == {D \in SUBSET (1..n) : ~FirstLargest(graph, n, D, take[D])}
           T == {Size(D) : D \in bad}
<1>2. ASSUME bad # {} PROVE FALSE
  <2>1. T \in SUBSET Nat /\ T # {}
    BY <1>2, Sizes
  <2>2. PICK m \in T : \A k \in T : m <= k
    BY <2>1, LeastNatural
  <2>3. PICK D \in bad : Size(D) = m
    BY <2>2
  <2>4. ASSUME NEW E \in SUBSET D, E # D PROVE FirstLargest(graph, n, E, take[E])
    <3>1. E \in SUBSET (1..n) /\ Size(E) < Size(D) /\ Size(E) \in Nat /\ Size(D) \in Nat
      BY <2>4, Sizes
    <3> QED
      BY <2>2, <2>3, <3>1
  <2>5. FirstLargest(graph, n, D, take[D])
    BY <1>1, <2>4, TakeStep
  <2> QED
    BY <2>5
<1> QED
  BY <1>1, <1>2


-----------------------------------------------------------------------------
(* mis_exhaustive: the enumeration finds a largest independent set too.    *)

Bit(S, n, i) == IF n - i + 1 \in S THEN 1 ELSE 0
BitsBody(S, n, g, i) == IF i = 0 THEN 0 ELSE 2 * g[i - 1] + Bit(S, n, i)

\* A function that is right on the first bits.
BitsUpTo(S, n, k) ==
    \E g \in [0..n -> Nat] : \A i \in 0..n : i < k => g[i] = BitsBody(S, n, g, i)

LEMMA BitsUpToAll ==
  ASSUME NEW S, NEW n \in Nat
  PROVE  \A k \in Nat : BitsUpTo(S, n, k)
<1> DEFINE T == {k \in Nat : ~BitsUpTo(S, n, k)}
<1> SUFFICES ASSUME T # {} PROVE FALSE
  OBVIOUS
<1>1. PICK k \in T : \A j \in T : k <= j
  BY LeastNatural
<1>2. k # 0
  <2> DEFINE zero == [i \in 0..n |-> 0]
  <2>1. zero \in [0..n -> Nat] /\ \A i \in 0..n : ~(i < 0)
    OBVIOUS
  <2> QED
    BY <1>1, <2>1 DEF BitsUpTo
<1>3. k - 1 \in Nat /\ BitsUpTo(S, n, k - 1)
  BY <1>1, <1>2
<1>4. PICK g \in [0..n -> Nat] : \A i \in 0..n : i < k - 1 => g[i] = BitsBody(S, n, g, i)
  BY <1>3 DEF BitsUpTo
<1> DEFINE h == [i \in 0..n |-> BitsBody(S, n, g, i)]
<1>5. h \in [0..n -> Nat]
  BY DEF BitsBody, Bit
<1>6. ASSUME NEW i \in 0..n, i < k
      PROVE  h[i] = BitsBody(S, n, h, i)
  <2>1. CASE i = 0
    BY <2>1 DEF BitsBody
  <2>2. CASE i # 0
    <3>1. i - 1 \in 0..n /\ i - 1 < k - 1
      BY <1>3, <1>6, <2>2
    <3>2. g[i - 1] = h[i - 1]
      BY <1>4, <3>1
    <3> QED
      BY <2>2, <3>2 DEF BitsBody
  <2> QED
    BY <2>1, <2>2
<1>7. BitsUpTo(S, n, k)
  <2> HIDE DEF h
  <2> QED
    BY <1>5, <1>6 DEF BitsUpTo
<1> QED
  BY <1>1, <1>7

LEMMA MaskIsNatural ==
  ASSUME NEW S, NEW n \in Nat
  PROVE  Mask(S, n) \in Nat
<1>1. PICK g \in [0..n -> Nat] : \A i \in 0..n : i < n + 1 => g[i] = BitsBody(S, n, g, i)
  <2>1. BitsUpTo(S, n, n + 1)
    BY BitsUpToAll
  <2> QED
    BY <2>1 DEF BitsUpTo
<1>2. g = [i \in 0..n |-> BitsBody(S, n, g, i)]
  BY <1>1
<1> DEFINE bits == CHOOSE b : b = [i \in 0..n |-> BitsBody(S, n, b, i)]
<1>3. bits = [i \in 0..n |-> BitsBody(S, n, bits, i)]
  BY <1>2
<1>4. Mask(S, n) = bits[n]
  BY DEF Mask, BitsBody, Bit
<1> HIDE DEF bits
<1> DEFINE bad == {i \in 0..n : bits[i] \notin Nat}
<1>5. ASSUME bad # {} PROVE FALSE
  <2>0. bad \in SUBSET Nat
    OBVIOUS
  <2>1. PICK m \in bad : \A i \in bad : m <= i
    <3> HIDE DEF bad
    <3> QED
      BY <1>5, <2>0, LeastNatural
  <2>2. bits[m] = BitsBody(S, n, bits, m)
    BY <1>3
  <2>3. m # 0
    BY <2>1, <2>2 DEF BitsBody
  <2>4. m - 1 \in 0..n /\ m - 1 \notin bad
    BY <2>1, <2>3
  <2>5. bits[m] = 2 * bits[m - 1] + Bit(S, n, m) /\ bits[m - 1] \in Nat
    BY <2>2, <2>3, <2>4 DEF BitsBody
  <2>6. Bit(S, n, m) \in {0, 1}
    BY DEF Bit
  <2>7. bits[m] \in Nat
    <3> HIDE DEF bad
    <3> QED
      BY <2>5, <2>6
  <2> QED
    BY <2>1, <2>7
<1> QED
  BY <1>4, <1>5

\* The exhaustive search yields a largest independent set.
LEMMA ExhaustiveIsLargest ==
  ASSUME NEW graph, Loopless(graph), NEW n \in Nat
  PROVE  /\ MisExhaustive(graph, n) \in SUBSET (1..n) /\ Apart(graph, MisExhaustive(graph, n))
         /\ Size(MisExhaustive(graph, n)) = MisCardinality(graph, n)[1..n]
<1> DEFINE best == MisCardinality(graph, n)[1..n]
           sets == IndependentSets(graph, n)
           largest == {S \in sets : Size(S) = best}
           masks == {Mask(S, n) : S \in largest}
<1>1. LargestSize(graph, 1..n, best)
  BY CardinalityIsExact
<1>2. /\ largest # {} /\ best \in Nat
      /\ \A S \in sets : S \in SUBSET (1..n) /\ Apart(graph, S) /\ Size(S) <= best /\ Size(S) \in Nat
  <2> HIDE DEF best
  <2>1. sets = {S \in SUBSET (1..n) : Apart(graph, S)}
    BY DEF IndependentSets, Apart
  <2>2. best \in Nat /\ \A S \in sets : Size(S) <= best
    BY <1>1, <2>1 DEF LargestSize
  <2>3. \A S \in sets : Size(S) \in Nat
    BY <2>1, Sizes
  <2>4. largest # {}
    BY <1>1, <2>1 DEF LargestSize
  <2> QED
    BY <2>1, <2>2, <2>3, <2>4
<1>3. masks \in SUBSET Nat /\ masks # {}
  BY <1>2, MaskIsNatural
<1>4. PICK m \in masks : \A k \in masks : m <= k
  BY <1>3, LeastNatural
<1>5. PICK S \in largest : Mask(S, n) = m
  BY <1>4
<1> HIDE DEF best
<1>6. \A T \in sets : \/ Cardinality(T) < Cardinality(S)
                      \/ Cardinality(T) = Cardinality(S) /\ Mask(S, n) <= Mask(T, n)
  <2> SUFFICES ASSUME NEW T \in sets, ~(Cardinality(T) < Cardinality(S))
               PROVE  Cardinality(T) = Cardinality(S) /\ Mask(S, n) <= Mask(T, n)
    OBVIOUS
  <2>1. Cardinality(T) = best
    BY <1>2, <1>5 DEF Size
  <2>2. Mask(T, n) \in masks
    BY <2>1 DEF Size
  <2> QED
    BY <1>4, <1>5, <2>1, <2>2 DEF Size
<1> DEFINE found == MisExhaustive(graph, n)
<1>7. /\ found \in sets
      /\ \A T \in sets : \/ Cardinality(T) < Cardinality(found)
                         \/ Cardinality(T) = Cardinality(found) /\ Mask(found, n) <= Mask(T, n)
  BY <1>5, <1>6 DEF MisExhaustive
<1> HIDE DEF found
<1>8. Size(found) >= best
  BY <1>2, <1>5, <1>7 DEF Size
<1> QED
  BY <1>2, <1>7, <1>8 DEF found, best


-----------------------------------------------------------------------------
(* The graphs of a matrix: a set of vertices is independent exactly when   *)
(* no pair within it is an edge.                                           *)

Edges(Q) == {{p[1], p[2]} : p \in Q}

LEMMA EdgesApart ==
  ASSUME NEW n \in Nat, NEW Q \in SUBSET Pairs(n)
  PROVE  /\ Loopless(Edges(Q))
         /\ \A S \in SUBSET (1..n) :
              Apart(Edges(Q), S) <=> \A p \in Q : ~(p[1] \in S /\ p[2] \in S)
<1> DEFINE edges == {{p[1], p[2]} : p \in Q}
<1>0. \A p \in Q : p[1] \in 1..n /\ p[2] \in 1..n /\ p[1] < p[2]
  BY DEF Pairs
<1>1. ASSUME NEW u, {u} \in edges PROVE FALSE
  <2>1. PICK p \in Q : {u} = {p[1], p[2]}
    BY <1>1
  <2>2. p[1] = u /\ p[2] = u
    BY <2>1
  <2> QED
    BY <1>0, <2>2
<1>2. ASSUME NEW S \in SUBSET (1..n), Apart(edges, S), NEW p \in Q, p[1] \in S, p[2] \in S
      PROVE  FALSE
  <2>1. {p[1], p[2]} \in edges
    OBVIOUS
  <2> HIDE DEF edges
  <2> QED
    BY <1>2, <2>1 DEF Apart
<1>3. ASSUME NEW S \in SUBSET (1..n), \A p \in Q : ~(p[1] \in S /\ p[2] \in S),
             NEW u \in S, NEW v \in S, {u, v} \in edges
      PROVE  FALSE
  <2>1. PICK p \in Q : {u, v} = {p[1], p[2]}
    BY <1>3
  <2>2. p[1] \in {u, v} /\ p[2] \in {u, v}
    BY <2>1
  <2> QED
    BY <1>3, <2>2
<1> HIDE DEF edges
<1>4. Loopless(edges)
  BY <1>1 DEF Loopless
<1>5. \A S \in SUBSET (1..n) : Apart(edges, S) <=> \A p \in Q : ~(p[1] \in S /\ p[2] \in S)
  BY <1>2, <1>3 DEF Apart
<1> QED
  BY <1>4, <1>5 DEF edges, Edges

\* The pairs within a set of vertices.
Within(n, S) == {p \in Pairs(n) : p[1] \in S /\ p[2] \in S}

LEMMA MatrixGraphs ==
  ASSUME NEW n \in Nat, NEW matrix, DOMAIN matrix = Pairs(n)
  PROVE  /\ Loopless(GraphFromMatrix(matrix, FALSE)) /\ Loopless(GraphFromMatrix(matrix, TRUE))
         /\ \A S \in SUBSET (1..n) :
              /\ Apart(GraphFromMatrix(matrix, FALSE), S) <=> \A p \in Within(n, S) : Independent(matrix[p])
              /\ Apart(GraphFromMatrix(matrix, TRUE), S) <=> \A p \in Within(n, S) : ~CellHasConflict(matrix[p])
<1> DEFINE doubtful == {q \in Pairs(n) : ~Independent(matrix[q])}
           conflicting == {q \in Pairs(n) : CellHasConflict(matrix[q])}
<1>1. /\ GraphFromMatrix(matrix, FALSE) = Edges(doubtful)
      /\ GraphFromMatrix(matrix, TRUE) = Edges(conflicting)
  BY DEF GraphFromMatrix, Edges
<1>2. doubtful \in SUBSET Pairs(n) /\ conflicting \in SUBSET Pairs(n)
  OBVIOUS
<1>3. ASSUME NEW S \in SUBSET (1..n)
      PROVE  /\ (\A p \in doubtful : ~(p[1] \in S /\ p[2] \in S)) <=> \A p \in Within(n, S) : Independent(matrix[p])
             /\ (\A p \in conflicting : ~(p[1] \in S /\ p[2] \in S)) <=> \A p \in Within(n, S) : ~CellHasConflict(matrix[p])
  BY DEF Within
<1> HIDE DEF doubtful, conflicting
<1>4. /\ Loopless(GraphFromMatrix(matrix, FALSE))
      /\ \A S \in SUBSET (1..n) : Apart(GraphFromMatrix(matrix, FALSE), S)
                                    <=> \A p \in doubtful : ~(p[1] \in S /\ p[2] \in S)
  <2>1. /\ Loopless(Edges(doubtful))
        /\ \A S \in SUBSET (1..n) : Apart(Edges(doubtful), S)
                                      <=> \A p \in doubtful : ~(p[1] \in S /\ p[2] \in S)
    BY <1>2, EdgesApart, Zenon
  <2> QED
    BY <1>1, <2>1, Zenon
<1>5. /\ Loopless(GraphFromMatrix(matrix, TRUE))
      /\ \A S \in SUBSET (1..n) : Apart(GraphFromMatrix(matrix, TRUE), S)
                                    <=> \A p \in conflicting : ~(p[1] \in S /\ p[2] \in S)
  <2>1. /\ Loopless(Edges(conflicting))
        /\ \A S \in SUBSET (1..n) : Apart(Edges(conflicting), S)
                                      <=> \A p \in conflicting : ~(p[1] \in S /\ p[2] \in S)
    BY <1>2, EdgesApart, Zenon
  <2> QED
    BY <1>1, <2>1, Zenon
<1> QED
  BY <1>3, <1>4, <1>5

\* The two searches agree, and the subset kept is the first of the largest.
LEMMA CertainIsExact ==
  ASSUME NEW n \in Nat, NEW matrix, DOMAIN matrix = Pairs(n)
  PROVE  /\ CertainWitness(matrix, n).exact
         /\ FirstLargest(GraphFromMatrix(matrix, FALSE), n, 1..n, CertainWitness(matrix, n).indices)
<1> DEFINE certain == GraphFromMatrix(matrix, FALSE)
           found == MisWitness(certain, n)
           brute == IF n <= 16 THEN MisExhaustive(certain, n) ELSE found
<1>1. Loopless(certain)
  BY MatrixGraphs
<1> HIDE DEF certain
<1>2. FirstLargest(certain, n, 1..n, found)
  BY <1>1, SearchIsExact
<1>3. found \in SUBSET (1..n) /\ Cardinality(found) = MisCardinality(certain, n)[1..n] /\ Cardinality(found) \in Nat
  BY <1>2, Sizes DEF FirstLargest, Size
<1>4. Cardinality(brute) = Cardinality(found)
  BY <1>1, <1>3, ExhaustiveIsLargest DEF Size
<1> HIDE DEF found, brute
<1>5. ~(Cardinality(brute) > Cardinality(found))
  BY <1>3, <1>4
<1>6. CertainWitness(matrix, n) =
        [indices |-> {v \in 1..n : v \in (IF Cardinality(brute) > Cardinality(found) THEN brute ELSE found)},
         exact |-> Cardinality(brute) = Cardinality(found)]
  BY DEF CertainWitness, brute, found, certain
<1>7. CertainWitness(matrix, n).indices = found
  <2>1. CertainWitness(matrix, n).indices = {v \in 1..n : v \in found}
    BY <1>5, <1>6
  <2> QED
    BY <1>3, <2>1
<1>8. CertainWitness(matrix, n).exact = (Cardinality(brute) = Cardinality(found))
  BY <1>6
<1> QED
  BY <1>2, <1>4, <1>7, <1>8, Zenon DEF certain

-----------------------------------------------------------------------------
(* What the verdict of a class says of the fabric behind the evidence, for *)
(* every composition, every view and every policy.                         *)

(* The endpoint exemption removes exactly the nodes that both paths hold in *)
(* an exempt pair of roles.                                                 *)

\* A node that is left after the exemption is shared in roles that are not exempt.
LEMMA SharedNodeIsReal ==
    ASSUME NEW l, NEW r, NEW ex \in EndpointExemptions,
           (AllNodes(l) \cap AllNodes(r)) \ ExemptEndpoints(l, r, ex) # {}
    PROVE  \E a, b \in Roles : NodesIn(l, a) \cap NodesIn(r, b) # {} /\ <<a, b>> \notin ExemptRoles(ex)
PROOF
<1>1. PICK n : n \in AllNodes(l) /\ n \in AllNodes(r) /\ n \notin ExemptEndpoints(l, r, ex)
  OBVIOUS
<1>2. PICK a \in Roles : n \in NodesIn(l, a)
  BY <1>1 DEF AllNodes, Roles, NodesIn
<1>3. PICK b \in Roles : n \in NodesIn(r, b)
  BY <1>1 DEF AllNodes, Roles, NodesIn
<1>4. <<a, b>> \notin ExemptRoles(ex)
  <2>1. SUFFICES ASSUME <<a, b>> \in ExemptRoles(ex) PROVE FALSE
    OBVIOUS
  <2>2. CASE ex = "NONE"
    BY <2>1, <2>2 DEF ExemptRoles
  <2>3. CASE ex = "SHARED_SOURCE_AND_DESTINATION"
    BY <1>1, <1>2, <1>3, <2>1, <2>3 DEF ExemptRoles, ExemptEndpoints, NodesIn
  <2>4. CASE ex = "SHARED_SOURCE_ONLY"
    BY <1>1, <1>2, <1>3, <2>1, <2>4 DEF ExemptRoles, ExemptEndpoints, NodesIn
  <2>5. CASE ex = "SHARED_DESTINATION_ONLY"
    BY <1>1, <1>2, <1>3, <2>1, <2>5 DEF ExemptRoles, ExemptEndpoints, NodesIn
  <2>6. CASE ex = "ANY_ENDPOINT"
    BY <1>1, <1>2, <1>3, <2>1, <2>6 DEF ExemptRoles, ExemptEndpoints, NodesIn
  <2>7. QED
    BY <2>2, <2>3, <2>4, <2>5, <2>6 DEF EndpointExemptions
<1>5. QED
  BY <1>2, <1>3, <1>4

\* A node that both paths hold in roles that are not exempt is left after the
\* exemption: a node has one role in a path.
LEMMA RealIsSharedNode ==
    ASSUME NEW l, NEW r, NEW ex \in EndpointExemptions, OneRole(l), OneRole(r),
           NEW a \in Roles, NEW b \in Roles,
           NodesIn(l, a) \cap NodesIn(r, b) # {}, <<a, b>> \notin ExemptRoles(ex)
    PROVE  (AllNodes(l) \cap AllNodes(r)) \ ExemptEndpoints(l, r, ex) # {}
PROOF
<1>1. PICK n : n \in NodesIn(l, a) /\ n \in NodesIn(r, b)
  OBVIOUS
<1>2. n \in AllNodes(l) /\ n \in AllNodes(r)
  BY <1>1 DEF AllNodes, Roles, NodesIn
<1>3. \A c \in Roles : (n \in NodesIn(l, c) => c = a) /\ (n \in NodesIn(r, c) => c = b)
  BY <1>1 DEF OneRole
<1>4. /\ n \in l.sources => a = "source"
      /\ n \in l.destinations => a = "destination"
      /\ n \in r.sources => b = "source"
      /\ n \in r.destinations => b = "destination"
  BY <1>3 DEF NodesIn, Roles
<1>5. n \notin ExemptEndpoints(l, r, ex)
  <2>1. SUFFICES ASSUME n \in ExemptEndpoints(l, r, ex) PROVE FALSE
    OBVIOUS
  <2>2. CASE ex = "NONE"
    BY <2>1, <2>2 DEF ExemptEndpoints
  <2>3. CASE ex = "SHARED_SOURCE_AND_DESTINATION"
    BY <1>4, <2>1, <2>3 DEF ExemptRoles, ExemptEndpoints
  <2>4. CASE ex = "SHARED_SOURCE_ONLY"
    BY <1>4, <2>1, <2>4 DEF ExemptRoles, ExemptEndpoints
  <2>5. CASE ex = "SHARED_DESTINATION_ONLY"
    BY <1>4, <2>1, <2>5 DEF ExemptRoles, ExemptEndpoints
  <2>6. CASE ex = "ANY_ENDPOINT"
    BY <1>4, <2>1, <2>6 DEF ExemptRoles, ExemptEndpoints
  <2>7. QED
    BY <2>2, <2>3, <2>4, <2>5, <2>6 DEF EndpointExemptions
<1>6. QED
  BY <1>2, <1>5

-----------------------------------------------------------------------------
\* A class that reports something shared (evaluate_link_class and its siblings)
\* is right in every fabric the evidence is a part of.
THEOREM ConflictIsReal ==
    ASSUME NEW klass \in DiversityClasses, NEW policy, NEW view, NEW w, NEW l, NEW r, NEW wl, NEW wr,
           policy.endpoint_exemption \in EndpointExemptions,
           CompositionShows(l, wl), CompositionShows(r, wr), ViewShows(view, w),
           Covers(view, klass, policy, l), Covers(view, klass, policy, r),
           ClassShared(klass, policy, view, l, r) # {}
    PROVE  ReallyShare(klass, policy, w, wl, wr)
PROOF
<1>1. CASE klass = "LINK_DISJOINT"
  BY <1>1 DEF ClassShared, ReallyShare, CompositionShows
<1>2. CASE klass = "DEVICE_DISJOINT"
  BY <1>2 DEF ClassShared, ReallyShare, CompositionShows
<1>3. CASE klass = "TRANSIT_NODE_DISJOINT"
  <2>1. PICK a, b \in Roles : /\ NodesIn(l, a) \cap NodesIn(r, b) # {}
                              /\ <<a, b>> \notin ExemptRoles(policy.endpoint_exemption)
    BY <1>3, SharedNodeIsReal DEF ClassShared
  <2>2. NodesIn(wl, a) \cap NodesIn(wr, b) # {}
    BY <2>1 DEF CompositionShows
  <2>3. QED
    BY <1>3, <2>1, <2>2 DEF ReallyShare
<1>4. CASE klass \in MembershipClasses
  <2>1. klass \notin StructuralClasses
    BY <1>4 DEF MembershipClasses, StructuralClasses
  <2>2. PICK relation \in RelationsOf(klass, policy) :
          Membership(view, relation, l) \cap Membership(view, relation, r) # {}
    BY <2>1 DEF ClassShared, StructuralClasses
  <2>3. PICK d : d \in Membership(view, relation, l) /\ d \in Membership(view, relation, r)
    BY <2>2
  <2>4. PICK e \in PathEntities(l) : d \in view[relation][e].domains
    BY <2>3 DEF Membership
  <2>5. PICK f \in PathEntities(r) : d \in view[relation][f].domains
    BY <2>3 DEF Membership
  <2>6. e \in PathEntities(wl) /\ f \in PathEntities(wr)
    <3>1. /\ l.links \subseteq wl.links /\ l.devices \subseteq wl.devices
          /\ l.sources \subseteq wl.sources /\ l.destinations \subseteq wl.destinations
          /\ l.transit_nodes \subseteq wl.transit_nodes
      BY DEF CompositionShows, Roles, NodesIn
    <3>2. /\ r.links \subseteq wr.links /\ r.devices \subseteq wr.devices
          /\ r.sources \subseteq wr.sources /\ r.destinations \subseteq wr.destinations
          /\ r.transit_nodes \subseteq wr.transit_nodes
      BY DEF CompositionShows, Roles, NodesIn
    <3>3. QED
      BY <3>1, <3>2, <2>4, <2>5 DEF PathEntities
  <2>7. d \in w[relation][e].domains /\ d \in w[relation][f].domains
    BY <2>2, <2>4, <2>5 DEF Covers, ViewShows
  <2>8. QED
    BY <2>1, <2>2, <2>6, <2>7 DEF ReallyShare, StructuralClasses
<1>5. QED
  BY <1>1, <1>2, <1>3, <1>4 DEF DiversityClasses, StructuralClasses

\* A class of the structure that is proven with complete evidence is disjoint in
\* every fabric the evidence is a part of.
THEOREM StructuralProofIsReal ==
    ASSUME NEW klass \in StructuralClasses, NEW policy, NEW view, NEW w, NEW l, NEW r, NEW wl, NEW wr,
           policy.endpoint_exemption \in EndpointExemptions,
           CompositionShows(l, wl), CompositionShows(r, wr),
           ClassShared(klass, policy, view, l, r) = {}, ClassComplete(klass, policy, view, l, r)
    PROVE  ~ReallyShare(klass, policy, w, wl, wr)
PROOF
<1>1. CASE klass = "LINK_DISJOINT"
  BY <1>1 DEF ClassShared, ClassComplete, ReallyShare, CompositionShows
<1>2. CASE klass = "DEVICE_DISJOINT"
  BY <1>2 DEF ClassShared, ClassComplete, ReallyShare, CompositionShows
<1>3. CASE klass = "TRANSIT_NODE_DISJOINT"
  <2>1. /\ l.node_complete /\ r.node_complete
        /\ l.endpoint_complete /\ r.endpoint_complete
    BY <1>3 DEF ClassComplete
  <2>2. \A a \in Roles : NodesIn(l, a) = NodesIn(wl, a) /\ NodesIn(r, a) = NodesIn(wr, a)
    BY <2>1 DEF CompositionShows, Roles, NodesIn
  <2>3. OneRole(l) /\ OneRole(r)
    BY <2>2 DEF OneRole, CompositionShows
  <2>4. (AllNodes(l) \cap AllNodes(r)) \ ExemptEndpoints(l, r, policy.endpoint_exemption) = {}
    BY <1>3 DEF ClassShared
  <2>5. SUFFICES ASSUME NEW a \in Roles, NEW b \in Roles,
                        NodesIn(wl, a) \cap NodesIn(wr, b) # {},
                        <<a, b>> \notin ExemptRoles(policy.endpoint_exemption)
                 PROVE  FALSE
    BY <1>3 DEF ReallyShare
  <2>6. NodesIn(l, a) \cap NodesIn(r, b) # {}
    BY <2>2, <2>5
  <2>7. QED
    BY <2>3, <2>4, <2>5, <2>6, RealIsSharedNode
<1>4. QED
  BY <1>1, <1>2, <1>3 DEF StructuralClasses

\* A class of memberships that is proven with complete evidence is disjoint in
\* every classification the view is a part of, for the entities it asked about.
THEOREM MembershipProofIsReal ==
    ASSUME NEW klass \in MembershipClasses, NEW policy, NEW view, NEW w, NEW l, NEW r,
           ViewShows(view, w), Covers(view, klass, policy, l), Covers(view, klass, policy, r),
           ClassShared(klass, policy, view, l, r) = {}, ClassComplete(klass, policy, view, l, r)
    PROVE  ~ReallyShare(klass, policy, w, l, r)
PROOF
<1>1. klass \notin StructuralClasses
  BY DEF MembershipClasses, StructuralClasses
<1>2. SUFFICES ASSUME NEW relation \in RelationsOf(klass, policy),
                      NEW e \in PathEntities(l), NEW f \in PathEntities(r), NEW d,
                      d \in w[relation][e].domains, d \in w[relation][f].domains
               PROVE  FALSE
  BY <1>1 DEF ReallyShare, StructuralClasses
<1>3. view[relation][e].complete /\ view[relation][f].complete
  BY <1>1, <1>2 DEF ClassComplete, MembershipComplete, StructuralClasses
<1>4. d \in view[relation][e].domains /\ d \in view[relation][f].domains
  BY <1>2, <1>3 DEF ViewShows, Covers
<1>5. <<relation, d>> \in {relation} \X (Membership(view, relation, l) \cap Membership(view, relation, r))
  BY <1>2, <1>4 DEF Membership
<1>6. QED
  BY <1>1, <1>2, <1>5 DEF ClassShared, StructuralClasses
-----------------------------------------------------------------------------
(* What evaluate_diversity answers.                                        *)

\* The result is what the call computes from its input, and nothing else.
Answer(in) ==
    IF ShapeRefusal(in) # None THEN Refused(ShapeRefusal(in))
    ELSE Concluded(in.policy, Matrix(in), SetWise(in.policy, Matrix(in), Len(in.paths)))
ResultInv == input \in Inputs /\ (result # None => result = Answer(input))

\* The evaluator keeps its input, and returns once.
LEMMA ResultInvariant == Spec => []ResultInv
PROOF
<1>1. Init => ResultInv
  BY DEF Init, ResultInv
<1>2. ResultInv /\ [Next]_vars => ResultInv'
  <2>1. SUFFICES ASSUME ResultInv, [Next]_vars PROVE ResultInv'
    OBVIOUS
  <2>2. CASE Reject
    BY <2>1, <2>2 DEF ResultInv, Reject, Answer
  <2>3. CASE Conclude
    BY <2>1, <2>3 DEF ResultInv, Conclude, Answer
  <2>4. CASE UNCHANGED vars
    BY <2>1, <2>4 DEF ResultInv, vars
  <2>5. QED
    BY <2>1, <2>2, <2>3, <2>4 DEF Next, EvaluateDiversity
<1>3. QED
  BY <1>1, <1>2, PTL DEF Spec

-----------------------------------------------------------------------------
\* aggregate_class says PROVEN_DIVERSE only when no cell says otherwise.
LEMMA AggregateOutcome ==
    ASSUME NEW matrix, NEW cells, NEW klass, NEW p \in cells, klass \in DOMAIN matrix[p],
           AggregateClass(matrix, cells, klass).outcome \notin {"NOT_DIVERSE", "UNKNOWN_INCOMPLETE_EVIDENCE"}
    PROVE  matrix[p][klass].outcome \notin {"NOT_DIVERSE", "UNKNOWN_INCOMPLETE_EVIDENCE"}
PROOF
<1> DEFINE sources == {matrix[q][klass] : q \in {x \in cells : klass \in DOMAIN matrix[x]}}
<1>1. matrix[p][klass] \in sources
  OBVIOUS
<1>2. matrix[p][klass].outcome \in {s.outcome : s \in sources}
  BY <1>1
<1>3. Aggregated(sources).outcome \notin {"NOT_DIVERSE", "UNKNOWN_INCOMPLETE_EVIDENCE"}
  BY DEF AggregateClass
<1>4. QED
  BY <1>2, <1>3 DEF Aggregated

\* Missing evidence never becomes PROVEN_DIVERSE.
LEMMA UnknownIsNotProven ==
    ASSUME NEW behavior PROVE UnknownOutcome(behavior) # "PROVEN_DIVERSE"
PROOF BY DEF UnknownOutcome

\* Step 6 says PROVEN_DIVERSE only when every class does.
LEMMA ClassifiedProven ==
    ASSUME NEW policy, NEW outcomes, ClassifyOutcome(policy, outcomes) = "PROVEN_DIVERSE"
    PROVE  "NOT_DIVERSE" \notin outcomes /\ "UNKNOWN_INCOMPLETE_EVIDENCE" \notin outcomes
PROOF BY UnknownIsNotProven DEF ClassifyOutcome

\* The set-wise step leaves the outcome to step 6 only with a set of paths that
\* is enough for the policy, all of whose cells are aggregated.
LEMMA SetWiseEnough ==
    ASSUME NEW in \in Inputs,
           SetWise(in.policy, Matrix(in), Len(in.paths)).outcome \in {None, "PROVEN_DIVERSE"}
    PROVE  \E S \in Enough(in.policy, in.paths) :
             \A p \in Pairs(Len(in.paths)) : p[1] \in S /\ p[2] \in S =>
               p \in SetWise(in.policy, Matrix(in), Len(in.paths)).cells
PROOF
<1> DEFINE n == Len(in.paths)
           matrix == Matrix(in)
           certain == CertainWitness(matrix, n)
<1>1. DOMAIN in.paths = 1..n /\ DOMAIN matrix = Pairs(n)
  BY InputsAssumption DEF Matrix
<1>2. CASE ~IsAtLeastK(in.policy)
  <2>1. SetWise(in.policy, matrix, n).cells = DOMAIN matrix
    BY <1>2 DEF SetWise
  <2>2. DOMAIN in.paths \in Enough(in.policy, in.paths)
    BY <1>2 DEF Enough
  <2>3. QED
    BY <1>1, <2>1, <2>2
<1>3. CASE IsAtLeastK(in.policy)
  <2>1. SetWise(in.policy, matrix, n) = AtLeastK(in.policy, matrix, n)
    BY <1>3 DEF SetWise
  <2>2. Cardinality(certain.indices) >= in.policy.minimum_independent_paths
    <3>1. UnknownOutcome(in.policy.unknown_behavior) \notin {None, "PROVEN_DIVERSE"}
      BY InputsAssumption DEF UnknownOutcome, Outcomes, CompletedOutcomes
    <3>2. None \notin {"NOT_DIVERSE", "REVALIDATION_REQUIRED"}
      BY InputsAssumption DEF Outcomes, CompletedOutcomes, ConclusiveOutcomes
    <3>3. AtLeastK(in.policy, matrix, n).outcome \in {None, "PROVEN_DIVERSE"}
      BY <2>1
    <3> HIDE DEF certain, matrix, n
    <3>4. SUFFICES ASSUME ~(Cardinality(certain.indices) >= in.policy.minimum_independent_paths)
                   PROVE  AtLeastK(in.policy, matrix, n).outcome
                            \in {UnknownOutcome(in.policy.unknown_behavior), "NOT_DIVERSE", "REVALIDATION_REQUIRED"}
      BY <3>1, <3>2, <3>3
    <3>5. QED
      BY <3>4 DEF AtLeastK, certain
  <2>3. SetWise(in.policy, matrix, n).cells = CellsWithin(matrix, certain.indices)
    BY <2>1, <2>2 DEF AtLeastK
  <2>4. certain.indices \subseteq 1..n
    BY DEF CertainWitness
  <2>5. certain.indices \in Enough(in.policy, in.paths)
    BY <1>1, <1>3, <2>2, <2>4 DEF Enough
  <2>6. QED
    BY <1>1, <2>3, <2>5 DEF CellsWithin
<1>4. QED
  BY <1>2, <1>3

\* PROVEN_DIVERSE is concluded only when every required class of every pair of
\* a set that is enough found nothing shared in complete evidence.
LEMMA ConcludedProven ==
    ASSUME NEW in \in Inputs,
           Concluded(in.policy, Matrix(in), SetWise(in.policy, Matrix(in), Len(in.paths))).outcome
             = "PROVEN_DIVERSE"
    PROVE  \E S \in Enough(in.policy, in.paths) : \A i, j \in S : i < j =>
             \A k \in in.policy.required_classes :
               /\ ClassShared(k, in.policy, in.view, in.paths[i], in.paths[j]) = {}
               /\ ClassComplete(k, in.policy, in.view, in.paths[i], in.paths[j])
PROOF
<1> DEFINE n == Len(in.paths)
           matrix == Matrix(in)
           set_wise == SetWise(in.policy, matrix, n)
           classes == [k \in in.policy.required_classes |-> AggregateClass(matrix, set_wise.cells, k)]
           outcomes == {classes[k].outcome : k \in DOMAIN classes}
<1>1. "PROVEN_DIVERSE" = IF set_wise.outcome # None THEN set_wise.outcome
                         ELSE ClassifyOutcome(in.policy, outcomes)
  BY DEF Concluded
<1>2. set_wise.outcome # "PROVEN_DIVERSE"
  BY InputsAssumption, UnknownIsNotProven
     DEF SetWise, AtLeastK, Outcomes, CompletedOutcomes, ConclusiveOutcomes
<1>3. set_wise.outcome = None /\ ClassifyOutcome(in.policy, outcomes) = "PROVEN_DIVERSE"
  BY <1>1, <1>2
<1>4. "NOT_DIVERSE" \notin outcomes /\ "UNKNOWN_INCOMPLETE_EVIDENCE" \notin outcomes
  BY <1>3, ClassifiedProven
<1>5. \A k \in in.policy.required_classes :
        AggregateClass(matrix, set_wise.cells, k).outcome
          \notin {"NOT_DIVERSE", "UNKNOWN_INCOMPLETE_EVIDENCE"}
  BY <1>4
<1>6. PICK S \in Enough(in.policy, in.paths) :
        \A p \in Pairs(n) : p[1] \in S /\ p[2] \in S => p \in set_wise.cells
  BY <1>3, SetWiseEnough
<1>7. S \subseteq 1..n
  BY <1>6, InputsAssumption DEF Enough
<1>8. ASSUME NEW i \in S, NEW j \in S, i < j, NEW k \in in.policy.required_classes
      PROVE  /\ ClassShared(k, in.policy, in.view, in.paths[i], in.paths[j]) = {}
             /\ ClassComplete(k, in.policy, in.view, in.paths[i], in.paths[j])
  <2>1. <<i, j>> \in Pairs(n)
    BY <1>7, <1>8 DEF Pairs
  <2>2. <<i, j>> \in set_wise.cells
    BY <1>6, <1>8, <2>1
  <2>3. matrix[<<i, j>>] = PairwiseCell(in.policy, in.view, in.paths[i], in.paths[j])
    BY <2>1 DEF Matrix
  <2>4. /\ k \in DOMAIN matrix[<<i, j>>]
        /\ matrix[<<i, j>>][k] = ClassResult(k, in.policy, in.view, in.paths[i], in.paths[j])
    BY <1>8, <2>3 DEF PairwiseCell
  <2>5. matrix[<<i, j>>][k].outcome \notin {"NOT_DIVERSE", "UNKNOWN_INCOMPLETE_EVIDENCE"}
    BY <1>5, <1>8, <2>2, <2>4, AggregateOutcome
  <2>6. QED
    BY <2>4, <2>5 DEF ClassResult, ClassOutcome
<1>9. QED
  BY <1>6, <1>8

-----------------------------------------------------------------------------
\* A path that is wholly known is asked about as it is.
LEMMA KnownIsWhole ==
    ASSUME NEW c, NEW w, CompositionShows(c, w), WhollyKnown(c)
    PROVE  PathEntities(w) = PathEntities(c)
PROOF
<1>1. c.links = w.links /\ c.devices = w.devices /\ c.transit_nodes = w.transit_nodes
      /\ c.sources = w.sources /\ c.destinations = w.destinations
  BY DEF CompositionShows, WhollyKnown
<1>2. QED
  BY <1>1 DEF PathEntities

\* A pair found apart by a class is apart in every fabric the evidence is a part
\* of; a class that asks the registry has to know the paths for that.
LEMMA ApartIsReal ==
    ASSUME NEW in \in Inputs, ValidPolicy(in.policy), NEW k \in in.policy.required_classes,
           NEW i \in DOMAIN in.paths, NEW j \in DOMAIN in.paths,
           ClassShared(k, in.policy, in.view, in.paths[i], in.paths[j]) = {},
           ClassComplete(k, in.policy, in.view, in.paths[i], in.paths[j]),
           k \in MembershipClasses => WhollyKnown(in.paths[i]) /\ WhollyKnown(in.paths[j])
    PROVE  ApartInEvery(k, in.policy, in.view, in.paths[i], in.paths[j])
PROOF
<1>0. SUFFICES ASSUME NEW v \in ViewsShownBy(in.view),
                      NEW l \in PathsShownBy(in.paths[i]), NEW r \in PathsShownBy(in.paths[j])
               PROVE  ~ReallyShare(k, in.policy, v, l, r)
  BY DEF ApartInEvery
<1>1. /\ in.policy.endpoint_exemption \in EndpointExemptions
      /\ Covers(in.view, k, in.policy, in.paths[i]) /\ Covers(in.view, k, in.policy, in.paths[j])
  BY InputsAssumption
<1>2. k \in DiversityClasses
  BY DEF ValidPolicy
<1>3. CASE k \in StructuralClasses
  <2>1. CompositionShows(in.paths[i], l) /\ CompositionShows(in.paths[j], r)
    BY DEF PathsShownBy
  <2>2. QED
    BY <1>1, <1>3, <2>1, StructuralProofIsReal
<1>4. CASE k \notin StructuralClasses
  <2>1. k \in MembershipClasses
    BY <1>2, <1>4 DEF DiversityClasses
  <2>2. ~ReallyShare(k, in.policy, v, in.paths[i], in.paths[j])
    BY <1>1, <2>1, MembershipProofIsReal DEF ViewsShownBy
  <2>3. PathEntities(l) = PathEntities(in.paths[i]) /\ PathEntities(r) = PathEntities(in.paths[j])
    BY <2>1, KnownIsWhole DEF PathsShownBy
  <2>4. QED
    BY <2>1, <2>2, <2>3 DEF ReallyShare, MembershipClasses
<1>5. QED
  BY <1>3, <1>4

\* PROVEN_DIVERSE holds whatever the evidence does not show, for all pairs and
\* for K paths, except under a class that asks the registry about a path that is
\* only partly known: the search for the K paths is not trusted, its cells are.
THEOREM ProvenSoundOfKnownPaths == Spec => []ProvenIsSoundOfKnownPaths
PROOF
<1>1. ResultInv => ProvenIsSoundOfKnownPaths
  <2>1. SUFFICES ASSUME ResultInv, Returned({"PROVEN_DIVERSE"})
                 PROVE  \E S \in Enough(input.policy, input.paths) : \A i, j \in S : i < j =>
                          \A k \in input.policy.required_classes :
                            \/ ApartInEvery(k, input.policy, input.view, input.paths[i], input.paths[j])
                            \/ /\ k \in MembershipClasses
                               /\ ~(WhollyKnown(input.paths[i]) /\ WhollyKnown(input.paths[j]))
    BY DEF ProvenIsSoundOfKnownPaths
  <2>2. input \in Inputs /\ result = Answer(input) /\ result.outcome = "PROVEN_DIVERSE"
    BY <2>1 DEF ResultInv, Returned
  <2>3. ShapeRefusal(input) = None
    BY <2>2, InputsAssumption DEF Answer, Refused, ShapeRefusal
  <2>4. ValidPolicy(input.policy)
    BY <2>3, InputsAssumption DEF ShapeRefusal, Outcomes, RejectedOutcomes
  <2>5. Concluded(input.policy, Matrix(input),
                  SetWise(input.policy, Matrix(input), Len(input.paths))).outcome = "PROVEN_DIVERSE"
    BY <2>2, <2>3 DEF Answer
  <2>6. PICK S \in Enough(input.policy, input.paths) : \A i, j \in S : i < j =>
          \A k \in input.policy.required_classes :
            /\ ClassShared(k, input.policy, input.view, input.paths[i], input.paths[j]) = {}
            /\ ClassComplete(k, input.policy, input.view, input.paths[i], input.paths[j])
    BY <2>2, <2>5, ConcludedProven
  <2>7. S \subseteq DOMAIN input.paths
    BY <2>6 DEF Enough
  <2>8. QED
    BY <2>2, <2>4, <2>6, <2>7, ApartIsReal
<1>2. QED
  BY <1>1, ResultInvariant, PTL


-----------------------------------------------------------------------------
(* A cell of the matrix, and what it says of the two paths.                *)

\* A required class finds something on both paths of a pair; every required
\* class has complete evidence about them.
Shares(in, p) ==
    \E k \in in.policy.required_classes :
        ClassShared(k, in.policy, in.view, in.paths[p[1]], in.paths[p[2]]) # {}
Known(in, p) ==
    \A k \in in.policy.required_classes :
        ClassComplete(k, in.policy, in.view, in.paths[p[1]], in.paths[p[2]])

LEMMA CellSays ==
    ASSUME NEW in, NEW p \in Pairs(Len(in.paths))
    PROVE  /\ Independent(Matrix(in)[p]) <=> Known(in, p) /\ ~Shares(in, p)
           /\ CellHasConflict(Matrix(in)[p]) <=> Shares(in, p)
           /\ CellComplete(Matrix(in)[p]) <=> Known(in, p)
PROOF
<1> DEFINE cell == Matrix(in)[p]
           shared(k) == ClassShared(k, in.policy, in.view, in.paths[p[1]], in.paths[p[2]])
           complete(k) == ClassComplete(k, in.policy, in.view, in.paths[p[1]], in.paths[p[2]])
<1>1. /\ DOMAIN cell = in.policy.required_classes
      /\ \A k \in in.policy.required_classes :
           cell[k] = ClassResult(k, in.policy, in.view, in.paths[p[1]], in.paths[p[2]])
  BY DEF Matrix, PairwiseCell
<1>2. ASSUME NEW k \in in.policy.required_classes
      PROVE  /\ cell[k].evidence_complete = complete(k)
             /\ cell[k].outcome = ClassOutcome(shared(k), complete(k))
  <2>1. ClassResult(k, in.policy, in.view, in.paths[p[1]], in.paths[p[2]]) =
          [outcome |-> ClassOutcome(shared(k), complete(k)), evidence_complete |-> complete(k)]
    BY DEF ClassResult
  <2> HIDE DEF shared, complete, cell
  <2> QED
    BY <1>1, <2>1
<1>3. ASSUME NEW k \in in.policy.required_classes
      PROVE  /\ cell[k].evidence_complete <=> complete(k)
             /\ cell[k].outcome = "NOT_DIVERSE" <=> shared(k) # {}
             /\ cell[k].outcome = "PROVEN_DIVERSE" <=> shared(k) = {} /\ complete(k)
  <2>1. cell[k].evidence_complete <=> complete(k)
    BY <1>2, Zenon
  <2>2. /\ ClassOutcome(shared(k), complete(k)) = "NOT_DIVERSE" <=> shared(k) # {}
        /\ ClassOutcome(shared(k), complete(k)) = "PROVEN_DIVERSE" <=> shared(k) = {} /\ complete(k)
    BY DEF ClassOutcome
  <2> QED
    BY <1>2, <2>1, <2>2, Zenon
<1> HIDE DEF cell
<1>4. Independent(cell) <=> Known(in, p) /\ ~Shares(in, p)
  BY <1>1, <1>3, Zenon DEF Independent, Known, Shares
<1>5. CellHasConflict(cell) <=> Shares(in, p)
  BY <1>1, <1>3, Zenon DEF CellHasConflict, Shares
<1>6. CellComplete(cell) <=> Known(in, p)
  BY <1>1, <1>3, Zenon DEF CellComplete, Known
<1> QED
  BY <1>4, <1>5, <1>6, Zenon DEF cell

\* A conflict that was observed is one in every fabric the evidence is a part of.
LEMMA SharedIsReal ==
    ASSUME NEW in \in Inputs, ValidPolicy(in.policy), NEW p \in Pairs(Len(in.paths)), Shares(in, p)
    PROVE  \E k \in in.policy.required_classes :
             \A v \in ViewsShownBy(in.view),
                l \in PathsShownBy(in.paths[p[1]]), r \in PathsShownBy(in.paths[p[2]]) :
               ReallyShare(k, in.policy, v, l, r)
PROOF
<1>1. PICK k \in in.policy.required_classes :
        ClassShared(k, in.policy, in.view, in.paths[p[1]], in.paths[p[2]]) # {}
  BY DEF Shares
<1>2. k \in DiversityClasses /\ p[1] \in DOMAIN in.paths /\ p[2] \in DOMAIN in.paths
  BY InputsAssumption DEF ValidPolicy, Pairs
<1>3. /\ in.policy.endpoint_exemption \in EndpointExemptions
      /\ Covers(in.view, k, in.policy, in.paths[p[1]]) /\ Covers(in.view, k, in.policy, in.paths[p[2]])
  BY <1>2, InputsAssumption
<1>4. ASSUME NEW v \in ViewsShownBy(in.view),
             NEW l \in PathsShownBy(in.paths[p[1]]), NEW r \in PathsShownBy(in.paths[p[2]])
      PROVE  ReallyShare(k, in.policy, v, l, r)
  <2>1. ViewShows(in.view, v) /\ CompositionShows(in.paths[p[1]], l) /\ CompositionShows(in.paths[p[2]], r)
    BY DEF ViewsShownBy, PathsShownBy
  <2> QED
    BY <1>1, <1>2, <1>3, <2>1, ConflictIsReal
<1> QED
  BY <1>4

\* On the evidence itself a class finds something exactly when the paths share it.
LEMMA SharedIsSeen ==
    ASSUME NEW in \in Inputs, ValidPolicy(in.policy), NEW p \in Pairs(Len(in.paths))
    PROVE  Shares(in, p) <=>
             \E k \in in.policy.required_classes :
               ReallyShare(k, in.policy, in.view, in.paths[p[1]], in.paths[p[2]])
PROOF
<1> DEFINE l == in.paths[p[1]]
           r == in.paths[p[2]]
<1>1. p[1] \in DOMAIN in.paths /\ p[2] \in DOMAIN in.paths
  BY InputsAssumption DEF Pairs
<1>2. OneRole(l) /\ OneRole(r) /\ in.policy.endpoint_exemption \in EndpointExemptions
  BY <1>1, InputsAssumption, RolesAssumption
<1>3. CompositionShows(l, l) /\ CompositionShows(r, r) /\ ViewShows(in.view, in.view)
  BY <1>2 DEF CompositionShows, ViewShows
<1>4. ASSUME NEW k \in in.policy.required_classes
      PROVE  ClassShared(k, in.policy, in.view, l, r) # {} <=> ReallyShare(k, in.policy, in.view, l, r)
  <2>0. k \in DiversityClasses /\ Covers(in.view, k, in.policy, l) /\ Covers(in.view, k, in.policy, r)
    BY <1>1, InputsAssumption DEF ValidPolicy
  <2> HIDE DEF l, r
  <2>1. ASSUME ClassShared(k, in.policy, in.view, l, r) # {}
        PROVE  ReallyShare(k, in.policy, in.view, l, r)
    BY <1>2, <1>3, <2>0, <2>1, ConflictIsReal
  <2>2. ASSUME ReallyShare(k, in.policy, in.view, l, r)
        PROVE  ClassShared(k, in.policy, in.view, l, r) # {}
    <3>1. CASE k = "LINK_DISJOINT"
      BY <2>2, <3>1 DEF ReallyShare, ClassShared
    <3>2. CASE k = "DEVICE_DISJOINT"
      BY <2>2, <3>2 DEF ReallyShare, ClassShared
    <3>3. CASE k = "TRANSIT_NODE_DISJOINT"
      <4>1. PICK a, b \in Roles : NodesIn(l, a) \cap NodesIn(r, b) # {}
                                  /\ <<a, b>> \notin ExemptRoles(in.policy.endpoint_exemption)
        BY <2>2, <3>3 DEF ReallyShare
      <4>2. (AllNodes(l) \cap AllNodes(r)) \ ExemptEndpoints(l, r, in.policy.endpoint_exemption) # {}
        BY <1>2, <4>1, RealIsSharedNode
      <4> QED
        BY <3>3, <4>2 DEF ClassShared
    <3>4. CASE k \notin {"LINK_DISJOINT", "DEVICE_DISJOINT", "TRANSIT_NODE_DISJOINT"}
      <4>1. PICK relation \in RelationsOf(k, in.policy), e \in PathEntities(l), f \in PathEntities(r) :
              in.view[relation][e].domains \cap in.view[relation][f].domains # {}
        BY <2>2, <3>4 DEF ReallyShare
      <4>2. PICK d : d \in in.view[relation][e].domains /\ d \in in.view[relation][f].domains
        BY <4>1
      <4>3. d \in Membership(in.view, relation, l) /\ d \in Membership(in.view, relation, r)
        BY <4>1, <4>2 DEF Membership
      <4>4. <<relation, d>> \in ClassShared(k, in.policy, in.view, l, r)
        BY <3>4, <4>1, <4>3 DEF ClassShared
      <4> QED
        BY <4>4
    <3> QED
      BY <3>1, <3>2, <3>3, <3>4
  <2> QED
    BY <2>1, <2>2
<1> QED
  BY <1>4, Zenon DEF Shares


-----------------------------------------------------------------------------
(* What the evaluation concludes, in terms of the pairs.                   *)

\* The subset that step 5 takes for AT_LEAST_K_INDEPENDENT, and the one it hopes for.
Certain(in) == CertainWitness(Matrix(in), Len(in.paths)).indices
Hoped(in) == MisWitness(GraphFromMatrix(Matrix(in), TRUE), Len(in.paths))

\* Both are largest of their kind, and the first is the first of them.
LEMMA Subsets ==
    ASSUME NEW in \in Inputs
    PROVE  /\ Certain(in) \in SUBSET (1..Len(in.paths)) /\ Cardinality(Certain(in)) \in Nat
           /\ Hoped(in) \in SUBSET (1..Len(in.paths)) /\ Cardinality(Hoped(in)) \in Nat
           /\ CertainWitness(Matrix(in), Len(in.paths)).exact
           /\ \A p \in Within(Len(in.paths), Certain(in)) : Known(in, p) /\ ~Shares(in, p)
           /\ \A p \in Within(Len(in.paths), Hoped(in)) : ~Shares(in, p)
           /\ \A S \in SUBSET (1..Len(in.paths)) :
                /\ Cardinality(S) \in Nat
                /\ (\A p \in Within(Len(in.paths), S) : Known(in, p) /\ ~Shares(in, p)) =>
                     /\ Cardinality(S) <= Cardinality(Certain(in))
                     /\ Cardinality(S) = Cardinality(Certain(in)) => First(Certain(in), S)
                /\ (\A p \in Within(Len(in.paths), S) : ~Shares(in, p)) =>
                     Cardinality(S) <= Cardinality(Hoped(in))
PROOF
<1> DEFINE n == Len(in.paths)
           matrix == Matrix(in)
           certain == GraphFromMatrix(matrix, FALSE)
           optimistic == GraphFromMatrix(matrix, TRUE)
<1>1. n \in Nat /\ DOMAIN matrix = Pairs(n)
  BY InputsAssumption DEF Matrix
<1>2. ASSUME NEW S
      PROVE  /\ \A p \in Within(n, S) : Independent(matrix[p]) <=> Known(in, p) /\ ~Shares(in, p)
             /\ \A p \in Within(n, S) : CellHasConflict(matrix[p]) <=> Shares(in, p)
  <2>1. Within(n, S) \subseteq Pairs(n)
    BY DEF Within
  <2> QED
    BY <2>1, CellSays, Zenon
<1> HIDE DEF n, matrix
<1>3. /\ Loopless(certain) /\ Loopless(optimistic)
      /\ \A S \in SUBSET (1..n) :
           /\ Apart(certain, S) <=> \A p \in Within(n, S) : Independent(matrix[p])
           /\ Apart(optimistic, S) <=> \A p \in Within(n, S) : ~CellHasConflict(matrix[p])
  BY <1>1, MatrixGraphs, Zenon
<1>4. FirstLargest(certain, n, 1..n, Certain(in)) /\ CertainWitness(matrix, n).exact
  BY <1>1, CertainIsExact DEF Certain, n, matrix
<1> HIDE DEF certain, optimistic
<1>5. FirstLargest(optimistic, n, 1..n, Hoped(in))
  BY <1>1, <1>3, SearchIsExact DEF Hoped, n, matrix, optimistic
<1>6. /\ LargestSize(certain, 1..n, MisCardinality(certain, n)[1..n])
      /\ LargestSize(optimistic, 1..n, MisCardinality(optimistic, n)[1..n])
  BY <1>1, <1>3, CardinalityIsExact
<1>7. \A S \in SUBSET (1..n) : Cardinality(S) \in Nat
  BY <1>1, Sizes DEF Size
<1>8. /\ Certain(in) \in SUBSET (1..n) /\ Apart(certain, Certain(in))
      /\ Hoped(in) \in SUBSET (1..n) /\ Apart(optimistic, Hoped(in))
  BY <1>4, <1>5 DEF FirstLargest
<1>9. ASSUME NEW S \in SUBSET (1..n)
      PROVE  /\ Apart(certain, S) => /\ Cardinality(S) <= Cardinality(Certain(in))
                                     /\ Cardinality(S) = Cardinality(Certain(in)) => First(Certain(in), S)
             /\ Apart(optimistic, S) => Cardinality(S) <= Cardinality(Hoped(in))
  BY <1>4, <1>5, <1>6 DEF FirstLargest, LargestSize, Size
<1>a. ASSUME NEW S \in SUBSET (1..n)
      PROVE  /\ Apart(certain, S) <=> \A p \in Within(n, S) : Known(in, p) /\ ~Shares(in, p)
             /\ Apart(optimistic, S) <=> \A p \in Within(n, S) : ~Shares(in, p)
  BY <1>2, <1>3, Zenon
<1>b. /\ \A p \in Within(n, Certain(in)) : Known(in, p) /\ ~Shares(in, p)
      /\ \A p \in Within(n, Hoped(in)) : ~Shares(in, p)
  BY <1>8, <1>a, Zenon
<1>c. ASSUME NEW S \in SUBSET (1..n)
      PROVE  /\ (\A p \in Within(n, S) : Known(in, p) /\ ~Shares(in, p)) =>
                  /\ Cardinality(S) <= Cardinality(Certain(in))
                  /\ Cardinality(S) = Cardinality(Certain(in)) => First(Certain(in), S)
             /\ (\A p \in Within(n, S) : ~Shares(in, p)) => Cardinality(S) <= Cardinality(Hoped(in))
  BY <1>9, <1>a, Zenon
<1> QED
  BY <1>4, <1>7, <1>8, <1>b, <1>c, Zenon DEF n, matrix

\* The outcome of a class over some cells says what the worst of them says.
LEMMA AggregateSays ==
    ASSUME NEW matrix, NEW cells, NEW klass
    PROVE  LET outcome == AggregateClass(matrix, cells, klass).outcome
               some(o) == \E p \in cells : klass \in DOMAIN matrix[p] /\ matrix[p][klass].outcome = o
           IN  /\ outcome \in {"NOT_DIVERSE", "UNKNOWN_INCOMPLETE_EVIDENCE", "PROVEN_DIVERSE"}
               /\ outcome = "NOT_DIVERSE" <=> some("NOT_DIVERSE")
               /\ outcome = "UNKNOWN_INCOMPLETE_EVIDENCE" => some("UNKNOWN_INCOMPLETE_EVIDENCE")
PROOF
<1> DEFINE sources == {matrix[q][klass] : q \in {x \in cells : klass \in DOMAIN matrix[x]}}
           outcomes == {s.outcome : s \in sources}
<1>1. AggregateClass(matrix, cells, klass).outcome =
        IF "NOT_DIVERSE" \in outcomes THEN "NOT_DIVERSE"
        ELSE IF "UNKNOWN_INCOMPLETE_EVIDENCE" \in outcomes
               THEN "UNKNOWN_INCOMPLETE_EVIDENCE" ELSE "PROVEN_DIVERSE"
  BY DEF AggregateClass, Aggregated
<1>2. \A o : o \in outcomes <=>
        \E p \in cells : klass \in DOMAIN matrix[p] /\ matrix[p][klass].outcome = o
  OBVIOUS
<1> HIDE DEF outcomes
<1> QED
  BY <1>1, <1>2


\* The outcomes of the required classes over some cells (step 6).
ClassOutcomes(in, cells) ==
    {AggregateClass(Matrix(in), cells, k).outcome : k \in in.policy.required_classes}

LEMMA ClassesSay ==
    ASSUME NEW in, NEW cells \in SUBSET Pairs(Len(in.paths))
    PROVE  /\ "NOT_DIVERSE" \in ClassOutcomes(in, cells) <=> \E p \in cells : Shares(in, p)
           /\ "UNKNOWN_INCOMPLETE_EVIDENCE" \in ClassOutcomes(in, cells) => \E p \in cells : ~Known(in, p)
PROOF
<1> DEFINE matrix == Matrix(in)
<1>1. ASSUME NEW p \in cells
      PROVE  /\ DOMAIN matrix[p] = in.policy.required_classes
             /\ \A k \in in.policy.required_classes :
                  /\ matrix[p][k].outcome = "NOT_DIVERSE" <=>
                       ClassShared(k, in.policy, in.view, in.paths[p[1]], in.paths[p[2]]) # {}
                  /\ matrix[p][k].outcome = "UNKNOWN_INCOMPLETE_EVIDENCE" =>
                       ~ClassComplete(k, in.policy, in.view, in.paths[p[1]], in.paths[p[2]])
  <2>1. matrix[p] = PairwiseCell(in.policy, in.view, in.paths[p[1]], in.paths[p[2]])
    BY DEF Matrix
  <2> QED
    BY <2>1 DEF PairwiseCell, ClassResult, ClassOutcome
<1> HIDE DEF matrix
<1>2. \A k : /\ AggregateClass(matrix, cells, k).outcome = "NOT_DIVERSE" <=>
                  \E p \in cells : k \in DOMAIN matrix[p] /\ matrix[p][k].outcome = "NOT_DIVERSE"
             /\ AggregateClass(matrix, cells, k).outcome = "UNKNOWN_INCOMPLETE_EVIDENCE" =>
                  \E p \in cells : k \in DOMAIN matrix[p] /\ matrix[p][k].outcome = "UNKNOWN_INCOMPLETE_EVIDENCE"
  BY AggregateSays
<1>3. \A o : o \in ClassOutcomes(in, cells) <=>
               \E k \in in.policy.required_classes : AggregateClass(matrix, cells, k).outcome = o
  BY DEF ClassOutcomes, matrix
<1>4. "NOT_DIVERSE" \in ClassOutcomes(in, cells) <=> \E p \in cells : Shares(in, p)
  <2>1. ASSUME "NOT_DIVERSE" \in ClassOutcomes(in, cells) PROVE \E p \in cells : Shares(in, p)
    <3>1. PICK k \in in.policy.required_classes : AggregateClass(matrix, cells, k).outcome = "NOT_DIVERSE"
      BY <1>3, <2>1
    <3>2. PICK p \in cells : matrix[p][k].outcome = "NOT_DIVERSE"
      BY <1>2, <3>1
    <3> QED
      BY <1>1, <3>1, <3>2 DEF Shares
  <2>2. ASSUME NEW p \in cells, Shares(in, p) PROVE "NOT_DIVERSE" \in ClassOutcomes(in, cells)
    <3>1. PICK k \in in.policy.required_classes :
            ClassShared(k, in.policy, in.view, in.paths[p[1]], in.paths[p[2]]) # {}
      BY <2>2 DEF Shares
    <3>2. k \in DOMAIN matrix[p] /\ matrix[p][k].outcome = "NOT_DIVERSE"
      BY <1>1, <3>1
    <3> QED
      BY <1>2, <1>3, <3>1, <3>2
  <2> QED
    BY <2>1, <2>2
<1>5. ASSUME "UNKNOWN_INCOMPLETE_EVIDENCE" \in ClassOutcomes(in, cells) PROVE \E p \in cells : ~Known(in, p)
  <2>1. PICK k \in in.policy.required_classes :
          AggregateClass(matrix, cells, k).outcome = "UNKNOWN_INCOMPLETE_EVIDENCE"
    BY <1>3, <1>5
  <2>2. PICK p \in cells : matrix[p][k].outcome = "UNKNOWN_INCOMPLETE_EVIDENCE"
    BY <1>2, <2>1
  <2>3. ~ClassComplete(k, in.policy, in.view, in.paths[p[1]], in.paths[p[2]])
    BY <1>1, <2>1, <2>2
  <2> QED
    BY <2>1, <2>3, Zenon DEF Known
<1> QED
  BY <1>4, <1>5

Conclusion(in) == Concluded(in.policy, Matrix(in), SetWise(in.policy, Matrix(in), Len(in.paths)))

Apartness(in, S) == \A p \in Within(Len(in.paths), S) : ~Shares(in, p)

Open == {"UNKNOWN_INCOMPLETE_EVIDENCE", "REVALIDATION_REQUIRED"}

\* All pairs: a conflict denies, missing evidence leaves open, and nothing else does.
LEMMA AllPairsConclusion ==
    ASSUME NEW in \in Inputs, ~IsAtLeastK(in.policy)
    PROVE  /\ Conclusion(in).outcome \in ConclusiveOutcomes \cup Open
           /\ Conclusion(in).outcome = "NOT_DIVERSE" => ~Apartness(in, DOMAIN in.paths)
           /\ Conclusion(in).outcome = "PROVEN_DIVERSE" => Apartness(in, DOMAIN in.paths)
           /\ Conclusion(in).outcome \in Open =>
                /\ \E p \in Pairs(Len(in.paths)) : ~Known(in, p)
                /\ in.policy.completeness = "PROVEN_CONFLICT_DECISIVE" => Apartness(in, DOMAIN in.paths)
PROOF
<1> DEFINE n == Len(in.paths)
           outcomes == ClassOutcomes(in, Pairs(n))
           conflict == "NOT_DIVERSE" \in outcomes
           unknown == "UNKNOWN_INCOMPLETE_EVIDENCE" \in outcomes
<1>1. DOMAIN Matrix(in) = Pairs(n) /\ DOMAIN in.paths = 1..n
  BY InputsAssumption DEF Matrix
<1>2. Conclusion(in).outcome = ClassifyOutcome(in.policy, outcomes)
  BY <1>1 DEF Conclusion, Concluded, SetWise, ClassOutcomes
<1>3. Within(n, DOMAIN in.paths) = Pairs(n)
  BY <1>1 DEF Within, Pairs
<1>4. conflict <=> ~Apartness(in, DOMAIN in.paths)
  BY <1>3, ClassesSay, Zenon DEF Apartness
<1>5. unknown => \E p \in Pairs(n) : ~Known(in, p)
  BY ClassesSay
<1>6. UnknownOutcome(in.policy.unknown_behavior) \in Open
  BY DEF UnknownOutcome, Open
<1>7. LET dominates == in.policy.completeness = "REQUIRE_COMPLETE_EVIDENCE"
      IN  Conclusion(in).outcome =
            IF unknown /\ (dominates \/ ~conflict) THEN UnknownOutcome(in.policy.unknown_behavior)
            ELSE IF conflict THEN "NOT_DIVERSE" ELSE "PROVEN_DIVERSE"
  BY <1>2 DEF ClassifyOutcome
<1> HIDE DEF outcomes, n
<1> QED
  BY <1>4, <1>5, <1>6, <1>7 DEF ConclusiveOutcomes, Open, n


\* K paths: the outcome is decided by the sizes of the two subsets.
LEMMA AtLeastKConclusion ==
    ASSUME NEW in \in Inputs, IsAtLeastK(in.policy), in.policy.minimum_independent_paths \in Nat
    PROVE  LET k == in.policy.minimum_independent_paths
           IN  /\ Conclusion(in).outcome \in ConclusiveOutcomes \cup Open
               /\ Conclusion(in).outcome = "NOT_DIVERSE" => Cardinality(Hoped(in)) < k
               /\ Conclusion(in).outcome = "PROVEN_DIVERSE" => Cardinality(Certain(in)) >= k
               /\ Conclusion(in).outcome \in Open =>
                    Cardinality(Certain(in)) < k /\ Cardinality(Hoped(in)) >= k
PROOF
<1> DEFINE n == Len(in.paths)
           k == in.policy.minimum_independent_paths
           set_wise == SetWise(in.policy, Matrix(in), n)
<1>1. /\ Cardinality(Certain(in)) \in Nat /\ Cardinality(Hoped(in)) \in Nat
      /\ CertainWitness(Matrix(in), n).exact
      /\ \A p \in Within(n, Certain(in)) : Known(in, p) /\ ~Shares(in, p)
  BY Subsets
<1>2. None \notin ConclusiveOutcomes \cup Open
  BY InputsAssumption DEF Outcomes, CompletedOutcomes, ConclusiveOutcomes, Open
<1>3. UnknownOutcome(in.policy.unknown_behavior) \in Open
  BY DEF UnknownOutcome, Open
<1>4. set_wise = AtLeastK(in.policy, Matrix(in), n)
  BY DEF SetWise
<1>5. CASE Cardinality(Certain(in)) >= k
  <2>1. set_wise.outcome = None /\ set_wise.cells = CellsWithin(Matrix(in), Certain(in))
    BY <1>4, <1>5 DEF AtLeastK, Certain
  <2>2. set_wise.cells = Within(n, Certain(in))
    BY <2>1 DEF CellsWithin, Within, Matrix
  <2>3. Conclusion(in).outcome = ClassifyOutcome(in.policy, ClassOutcomes(in, Within(n, Certain(in))))
    BY <2>1, <2>2 DEF Conclusion, Concluded, ClassOutcomes
  <2>4. Within(n, Certain(in)) \in SUBSET Pairs(n)
    BY DEF Within
  <2> HIDE DEF n
  <2>5. /\ "NOT_DIVERSE" \notin ClassOutcomes(in, Within(n, Certain(in)))
        /\ "UNKNOWN_INCOMPLETE_EVIDENCE" \notin ClassOutcomes(in, Within(n, Certain(in)))
    BY <1>1, <2>4, ClassesSay, Zenon DEF n
  <2>6. Conclusion(in).outcome = "PROVEN_DIVERSE"
    BY <2>3, <2>5 DEF ClassifyOutcome
  <2> QED
    BY <1>5, <2>6 DEF ConclusiveOutcomes, Open
<1>6. CASE ~(Cardinality(Certain(in)) >= k)
  <2>1. set_wise.outcome = IF Cardinality(Hoped(in)) >= k THEN UnknownOutcome(in.policy.unknown_behavior)
                           ELSE "NOT_DIVERSE"
    BY <1>1, <1>4, <1>6 DEF AtLeastK, Certain, Hoped
  <2>2. set_wise.outcome # None
    BY <1>2, <1>3, <2>1 DEF ConclusiveOutcomes
  <2>3. Conclusion(in).outcome = set_wise.outcome
    BY <2>2 DEF Conclusion, Concluded
  <2> HIDE DEF set_wise
  <2> QED
    BY <1>1, <1>3, <1>6, <2>1, <2>3 DEF ConclusiveOutcomes, Open
<1> QED
  BY <1>5, <1>6

\* The requirement of a policy, in terms of the pairs.
LEMMA MeetsSays ==
    ASSUME NEW in \in Inputs, ValidPolicy(in.policy)
    PROVE  Meets(in.policy, in.paths, in.view) <=> \E S \in Enough(in.policy, in.paths) : Apartness(in, S)
PROOF
<1> DEFINE n == Len(in.paths)
           share(i, j) == \E k \in in.policy.required_classes :
                            ReallyShare(k, in.policy, in.view, in.paths[i], in.paths[j])
<1>1. DOMAIN in.paths = 1..n /\ n \in Nat
  BY InputsAssumption
<1>2. ASSUME NEW S \in Enough(in.policy, in.paths)
      PROVE  Apartness(in, S) <=> \A i, j \in S : i < j => ~share(i, j)
  <2>1. S \subseteq 1..n
    BY <1>1 DEF Enough
  <2>2. ASSUME NEW p \in Pairs(n) PROVE Shares(in, p) <=> share(p[1], p[2])
    BY SharedIsSeen
  <2> HIDE DEF share
  <2>3. ASSUME Apartness(in, S), NEW i \in S, NEW j \in S, i < j PROVE ~share(i, j)
    <3>1. <<i, j>> \in Within(n, S) /\ <<i, j>> \in Pairs(n)
      BY <2>1, <2>3 DEF Within, Pairs
    <3>2. ~Shares(in, <<i, j>>)
      BY <2>3, <3>1 DEF Apartness
    <3>3. Shares(in, <<i, j>>) <=> share(<<i, j>>[1], <<i, j>>[2])
      BY <2>2, <3>1
    <3> QED
      BY <3>2, <3>3
  <2>4. ASSUME \A i, j \in S : i < j => ~share(i, j), NEW p \in Within(n, S) PROVE ~Shares(in, p)
    <3>1. p \in Pairs(n) /\ p[1] \in S /\ p[2] \in S /\ p[1] < p[2]
      BY DEF Within, Pairs
    <3> QED
      BY <2>2, <2>4, <3>1
  <2> HIDE DEF n
  <2> QED
    BY <2>3, <2>4, Zenon DEF Apartness, n
<1> QED
  BY <1>2, Zenon DEF Meets


\* Step 1 passed: the policy is one that validate_policy accepts.
LEMMA Accepted ==
    ASSUME NEW in \in Inputs, ShapeRefusal(in) = None
    PROVE  /\ ValidPolicy(in.policy) /\ in.policy.minimum_independent_paths \in Nat
           /\ Answer(in) = Conclusion(in)
PROOF
<1>1. ValidPolicy(in.policy)
  BY InputsAssumption DEF ShapeRefusal, Outcomes, RejectedOutcomes
<1>2. in.policy.minimum_independent_paths \in Nat
  <2>1. max_paths_per_proof \in Nat
    BY LimitsAssumption
  <2> QED
    BY <1>1, <2>1 DEF ValidPolicy
<1> QED
  BY <1>1, <1>2 DEF Answer, Conclusion

\* A refusal is none of the outcomes of an evaluation.
LEMMA RefusedOutcome ==
    ASSUME NEW in, ShapeRefusal(in) # None
    PROVE  Answer(in) = Refused(ShapeRefusal(in)) /\ Answer(in).outcome \in {"MALFORMED", "RESOURCE_LIMIT"}
PROOF BY DEF Answer, Refused, ShapeRefusal

\* What is denied is denied by every set that would be enough.
LEMMA DeniedSays ==
    ASSUME NEW in \in Inputs, ShapeRefusal(in) = None, Conclusion(in).outcome = "NOT_DIVERSE",
           NEW S \in Enough(in.policy, in.paths)
    PROVE  ~Apartness(in, S)
PROOF
<1>1. CASE ~IsAtLeastK(in.policy)
  BY <1>1, AllPairsConclusion DEF Enough
<1>2. CASE IsAtLeastK(in.policy)
  <2> DEFINE k == in.policy.minimum_independent_paths
  <2>1. Cardinality(Hoped(in)) < k /\ k \in Nat
    BY <1>2, Accepted, AtLeastKConclusion
  <2>2. S \in SUBSET (1..Len(in.paths)) /\ Cardinality(S) >= k
    BY <1>2, InputsAssumption DEF Enough
  <2>3. /\ Cardinality(Hoped(in)) \in Nat /\ Cardinality(S) \in Nat
        /\ (\A p \in Within(Len(in.paths), S) : ~Shares(in, p)) => Cardinality(S) <= Cardinality(Hoped(in))
    BY <2>2, Subsets, Zenon
  <2>4. ~(Cardinality(S) <= Cardinality(Hoped(in)))
    BY <2>1, <2>2, <2>3
  <2> QED
    BY <2>3, <2>4, Zenon DEF Apartness
<1> QED
  BY <1>1, <1>2

\* NOT_DIVERSE holds whatever the evidence does not show: the sets that are
\* enough are all searched, and each holds a pair with a conflict in every fabric.
THEOREM NotDiverseSound == Spec => []NotDiverseIsSound
PROOF
<1>1. ResultInv => NotDiverseIsSound
  <2>1. SUFFICES ASSUME ResultInv, Returned({"NOT_DIVERSE"}), NEW S \in Enough(input.policy, input.paths)
                 PROVE  \E i, j \in S :
                          /\ i < j
                          /\ \E k \in input.policy.required_classes :
                               \A v \in ViewsShownBy(input.view),
                                  l \in PathsShownBy(input.paths[i]), r \in PathsShownBy(input.paths[j]) :
                                 ReallyShare(k, input.policy, v, l, r)
    BY DEF NotDiverseIsSound
  <2>2. input \in Inputs /\ result = Answer(input) /\ result.outcome = "NOT_DIVERSE"
    BY <2>1 DEF ResultInv, Returned
  <2>3. ShapeRefusal(input) = None
    BY <2>2, RefusedOutcome
  <2>4. ValidPolicy(input.policy) /\ Conclusion(input).outcome = "NOT_DIVERSE"
    BY <2>2, <2>3, Accepted
  <2>5. PICK p \in Within(Len(input.paths), S) : Shares(input, p)
    BY <2>1, <2>2, <2>3, <2>4, DeniedSays DEF Apartness
  <2>6. p \in Pairs(Len(input.paths)) /\ p[1] \in S /\ p[2] \in S /\ p[1] < p[2]
    BY <2>5 DEF Within, Pairs
  <2> QED
    BY <2>2, <2>4, <2>5, <2>6, SharedIsReal
<1>2. QED
  BY <1>1, ResultInvariant, PTL

\* What is open is met by what is seen, where a conflict decides, and waits
\* for evidence that is missing.
LEMMA OpenSays ==
    ASSUME NEW in \in Inputs, ShapeRefusal(in) = None, Conclusion(in).outcome \in Open
    PROVE  /\ \E p \in Pairs(Len(in.paths)) : ~Known(in, p)
           /\ IsAtLeastK(in.policy) \/ in.policy.completeness = "PROVEN_CONFLICT_DECISIVE" =>
                \E S \in Enough(in.policy, in.paths) : Apartness(in, S)
PROOF
<1>1. CASE ~IsAtLeastK(in.policy)
  BY <1>1, AllPairsConclusion DEF Enough
<1>2. CASE IsAtLeastK(in.policy)
  <2> DEFINE k == in.policy.minimum_independent_paths
             n == Len(in.paths)
  <2>1. Cardinality(Certain(in)) < k /\ Cardinality(Hoped(in)) >= k /\ k \in Nat
    BY <1>2, Accepted, AtLeastKConclusion
  <2>2. /\ Hoped(in) \in SUBSET (1..n) /\ Cardinality(Hoped(in)) \in Nat /\ Cardinality(Certain(in)) \in Nat
        /\ \A p \in Within(n, Hoped(in)) : ~Shares(in, p)
        /\ (\A p \in Within(n, Hoped(in)) : Known(in, p) /\ ~Shares(in, p)) =>
             Cardinality(Hoped(in)) <= Cardinality(Certain(in))
    BY Subsets, Zenon
  <2>3. Hoped(in) \in Enough(in.policy, in.paths)
    BY <1>2, <2>1, <2>2, InputsAssumption DEF Enough
  <2>4. ~(Cardinality(Hoped(in)) <= Cardinality(Certain(in)))
    BY <2>1, <2>2
  <2>5. PICK p \in Within(n, Hoped(in)) : ~Known(in, p)
    BY <2>2, <2>4, Zenon
  <2>6. p \in Pairs(n)
    BY DEF Within
  <2>7. Apartness(in, Hoped(in))
    BY <2>2, Zenon DEF Apartness
  <2> QED
    BY <2>3, <2>5, <2>6, <2>7, Zenon
<1> QED
  BY <1>1, <1>2


\* An open outcome means that only missing evidence stands in the way: what has
\* been seen meets the requirement, and some cell is incomplete.
THEOREM OpenIsJustified == Spec => []OpenOnlyForMissingEvidence
PROOF
<1>1. ResultInv => OpenOnlyForMissingEvidence
  <2>1. SUFFICES ASSUME ResultInv, Returned({"UNKNOWN_INCOMPLETE_EVIDENCE", "REVALIDATION_REQUIRED"}),
                        IsAtLeastK(input.policy) \/ input.policy.completeness = "PROVEN_CONFLICT_DECISIVE"
                 PROVE  /\ Meets(input.policy, input.paths, input.view)
                        /\ \E p \in Pairs(Len(input.paths)) : ~CellComplete(Matrix(input)[p])
    BY DEF OpenOnlyForMissingEvidence
  <2>2. input \in Inputs /\ result = Answer(input) /\ result.outcome \in Open
    BY <2>1 DEF ResultInv, Returned, Open
  <2>3. ShapeRefusal(input) = None
    BY <2>2, RefusedOutcome DEF Open
  <2>4. ValidPolicy(input.policy) /\ Conclusion(input).outcome \in Open
    BY <2>2, <2>3, Accepted
  <2>5. PICK p \in Pairs(Len(input.paths)) : ~Known(input, p)
    BY <2>2, <2>3, <2>4, OpenSays, Zenon
  <2>6. ~CellComplete(Matrix(input)[p])
    BY <2>5, CellSays, Zenon
  <2>7. \E S \in Enough(input.policy, input.paths) : Apartness(input, S)
    BY <2>1, <2>2, <2>3, <2>4, OpenSays
  <2>8. Meets(input.policy, input.paths, input.view)
    BY <2>2, <2>4, <2>7, MeetsSays
  <2> QED
    BY <2>6, <2>8, Zenon
<1>2. QED
  BY <1>1, ResultInvariant, PTL

\* Complete evidence is always decided, and decided right: pairwise verdicts and
\* two searches come to the requirement itself.
THEOREM CompleteIsDecided == Spec => []DecidedWhenComplete
PROOF
<1>1. ResultInv => DecidedWhenComplete
  <2>1. SUFFICES ASSUME ResultInv, result # None, ShapeRefusal(input) = None,
                        \A p \in Pairs(Len(input.paths)) : CellComplete(Matrix(input)[p])
                 PROVE  result.outcome = IF Meets(input.policy, input.paths, input.view)
                                           THEN "PROVEN_DIVERSE" ELSE "NOT_DIVERSE"
    BY DEF DecidedWhenComplete
  <2>2. input \in Inputs /\ result = Conclusion(input) /\ ValidPolicy(input.policy)
    BY <2>1, Accepted DEF ResultInv
  <2>3. \A p \in Pairs(Len(input.paths)) : Known(input, p)
    BY <2>1, CellSays, Zenon
  <2>4. result.outcome \in {"PROVEN_DIVERSE", "NOT_DIVERSE"}
    <3>1. Conclusion(input).outcome \in ConclusiveOutcomes \cup Open
      BY <2>1, <2>2, AllPairsConclusion, AtLeastKConclusion, Accepted
    <3>2. Conclusion(input).outcome \notin Open
      BY <2>1, <2>2, <2>3, OpenSays, Zenon
    <3> QED
      BY <2>2, <3>1, <3>2 DEF ConclusiveOutcomes
  <2>5. ASSUME result.outcome = "PROVEN_DIVERSE" PROVE Meets(input.policy, input.paths, input.view)
    <3>1. \E S \in Enough(input.policy, input.paths) : Apartness(input, S)
      <4>1. CASE ~IsAtLeastK(input.policy)
        BY <2>2, <2>5, <4>1, AllPairsConclusion DEF Enough
      <4>2. CASE IsAtLeastK(input.policy)
        <5>1. Cardinality(Certain(input)) >= input.policy.minimum_independent_paths
          BY <2>1, <2>2, <2>5, <4>2, Accepted, AtLeastKConclusion
        <5>2. /\ Certain(input) \in SUBSET (1..Len(input.paths))
              /\ \A p \in Within(Len(input.paths), Certain(input)) : ~Shares(input, p)
          BY <2>2, Subsets, Zenon
        <5>3. Certain(input) \in Enough(input.policy, input.paths)
          BY <2>2, <4>2, <5>1, <5>2, InputsAssumption DEF Enough
        <5> QED
          BY <5>2, <5>3, Zenon DEF Apartness
      <4> QED
        BY <4>1, <4>2
    <3> QED
      BY <2>2, <3>1, MeetsSays
  <2>6. ASSUME result.outcome = "NOT_DIVERSE" PROVE ~Meets(input.policy, input.paths, input.view)
    <3>1. \A S \in Enough(input.policy, input.paths) : ~Apartness(input, S)
      BY <2>1, <2>2, <2>6, DeniedSays
    <3> QED
      BY <2>2, <3>1, MeetsSays
  <2> QED
    BY <2>4, <2>5, <2>6
<1>2. QED
  BY <1>1, ResultInvariant, PTL

\* verify_witness accepts exactly the subsets whose pairs are known to be apart.
LEMMA VerifiedSays ==
    ASSUME NEW in \in Inputs, NEW S \in SUBSET (1..Len(in.paths))
    PROVE  VerifyWitness(Matrix(in), S) <=>
             \A p \in Within(Len(in.paths), S) : Known(in, p) /\ ~Shares(in, p)
PROOF
<1> DEFINE n == Len(in.paths)
<1>1. Within(n, S) = {p \in S \X S : p[1] < p[2]} /\ DOMAIN Matrix(in) = Pairs(n)
  <2>1. DOMAIN Matrix(in) = Pairs(n)
    BY DEF Matrix
  <2>2. ASSUME NEW p \in Within(n, S) PROVE p \in S \X S /\ p[1] < p[2]
    BY DEF Within, Pairs
  <2>3. ASSUME NEW p \in S \X S, p[1] < p[2] PROVE p \in Within(n, S)
    BY <2>3 DEF Within, Pairs
  <2> QED
    BY <2>1, <2>2, <2>3, Zenon
<1>2. Within(n, S) \subseteq Pairs(n)
  BY DEF Within
<1>3. ASSUME NEW p \in Within(n, S)
      PROVE  p \in DOMAIN Matrix(in) /\ Independent(Matrix(in)[p]) /\ CellComplete(Matrix(in)[p])
               <=> Known(in, p) /\ ~Shares(in, p)
  BY <1>1, <1>2, CellSays, Zenon
<1>4. VerifyWitness(Matrix(in), S) <=>
        \A p \in Within(n, S) :
          p \in DOMAIN Matrix(in) /\ Independent(Matrix(in)[p]) /\ CellComplete(Matrix(in)[p])
  <2> HIDE DEF n
  <2> QED
    BY <1>1, Zenon DEF VerifyWitness
<1> QED
  BY <1>3, <1>4, Zenon

\* The search is exact: what it names as proven is the first of the largest
\* subsets that verify_witness accepts, and the enumeration agrees.
THEOREM WitnessIsExact == Spec => []WitnessExact
PROOF
<1>1. ResultInv => WitnessExact
  <2> DEFINE matrix == Matrix(input)
             n == Len(input.paths)
             proven == {S \in SUBSET DOMAIN input.paths : VerifyWitness(matrix, S)}
             k == input.policy.minimum_independent_paths
  <2>1. SUFFICES ASSUME ResultInv, result # None, result.witness.present
                 PROVE  /\ result.witness.maximum_exact
                        /\ \A S \in proven : Cardinality(S) <= result.witness.achieved
                        /\ result.witness.achieved >= result.witness.requested_k =>
                             /\ result.witness.indices \in proven
                             /\ \A S \in proven : Cardinality(S) = result.witness.achieved
                                                    => First(result.witness.indices, S)
    BY DEF WitnessExact, First
  <2>2. input \in Inputs /\ result = Answer(input) /\ DOMAIN input.paths = 1..n
    BY <2>1, InputsAssumption DEF ResultInv
  <2>3. ShapeRefusal(input) = None
    BY <2>1, <2>2 DEF Answer, Refused, NoWitness
  <2>4. result.witness = SetWise(input.policy, matrix, n).witness
    BY <2>2, <2>3 DEF Answer, Concluded
  <2>5. IsAtLeastK(input.policy)
    BY <2>1, <2>4 DEF SetWise, NoWitness
  <2>6. /\ result.witness.requested_k = k
        /\ result.witness.achieved = Cardinality(Certain(input))
        /\ result.witness.maximum_exact = CertainWitness(matrix, n).exact
        /\ Cardinality(Certain(input)) >= k => result.witness.indices = Certain(input)
    <3> DEFINE certain == CertainWitness(matrix, n)
               hopeful == /\ ~(Cardinality(certain.indices) >= k)
                          /\ Cardinality(MisWitness(GraphFromMatrix(matrix, TRUE), n)) >= k
    <3>1. result.witness =
            [present |-> TRUE, requested_k |-> k,
             indices |-> IF hopeful THEN MisWitness(GraphFromMatrix(matrix, TRUE), n) ELSE certain.indices,
             achieved |-> Cardinality(certain.indices), maximum_exact |-> certain.exact]
      BY <2>4, <2>5 DEF SetWise, AtLeastK
    <3>2. Certain(input) = certain.indices
      BY DEF Certain
    <3> HIDE DEF certain, matrix, n, k, hopeful
    <3>3. result.witness.requested_k = k /\ result.witness.achieved = Cardinality(certain.indices)
      BY <3>1
    <3>4. result.witness.maximum_exact = certain.exact
      BY <3>1
    <3>5. Cardinality(certain.indices) >= k => result.witness.indices = certain.indices
      BY <3>1 DEF hopeful
    <3> QED
      BY <3>2, <3>3, <3>4, <3>5, Zenon DEF certain
  <2>7. ASSUME NEW S PROVE S \in proven <=>
          S \in SUBSET (1..n) /\ \A p \in Within(n, S) : Known(input, p) /\ ~Shares(input, p)
    BY <2>2, VerifiedSays, Zenon
  <2> HIDE DEF matrix, n, proven, k
  <2>8. /\ CertainWitness(matrix, n).exact
        /\ Certain(input) \in proven
        /\ \A S \in proven : /\ Cardinality(S) <= Cardinality(Certain(input))
                             /\ Cardinality(S) = Cardinality(Certain(input)) => First(Certain(input), S)
    <3>1. CertainWitness(matrix, n).exact
      BY <2>2, Subsets, Zenon DEF n, matrix
    <3>2. Certain(input) \in proven
      BY <2>2, <2>7, Subsets, Zenon DEF n
    <3>3. ASSUME NEW S \in proven
          PROVE  /\ Cardinality(S) <= Cardinality(Certain(input))
                 /\ Cardinality(S) = Cardinality(Certain(input)) => First(Certain(input), S)
      <4>1. S \in SUBSET (1..n) /\ \A p \in Within(n, S) : Known(input, p) /\ ~Shares(input, p)
        BY <2>7, <3>3, Zenon
      <4> QED
        BY <2>2, <4>1, Subsets, Zenon DEF n
    <3> QED
      BY <3>1, <3>2, <3>3, Zenon
  <2>9. result.witness.maximum_exact
    BY <2>6, <2>8, Zenon
  <2> QED
    BY <2>6, <2>8, <2>9
<1>2. QED
  BY <1>1, ResultInvariant, PTL
=============================================================================
