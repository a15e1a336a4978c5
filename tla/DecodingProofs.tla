--------------------------- MODULE DecodingProofs ---------------------------
(***************************************************************************)
(* The decoders follow the writers, and no decoder accepts a part of a     *)
(* document: for documents of every size, every bound, and every place at  *)
(* which a document ends, goes on or is altered.                           *)
(*                                                                         *)
(* Items agree with tokens (Agrees) when a decoder that works off the      *)
(* items takes exactly the tokens.  The relation is kept by concatenation  *)
(* and by lists of any length, so that every encoder and its decoder are   *)
(* shown to agree member by member, from the primitives of canonical.cpp   *)
(* up to the store and the payloads.  The invariant of a decoder is then   *)
(* that what it has yet to work off agrees with what it has yet to take.   *)
(***************************************************************************)
EXTENDS Decoding, SequenceTheorems, WellFoundedInduction, TLAPS

-----------------------------------------------------------------------------
(* Sequences whose elements have no common type *)

LEMMA ListTyped ==
  ASSUME NEW s, IsList(s), NEW S, \A i \in 1..Len(s) : s[i] \in S
  PROVE  s \in Seq(S)
<1>1. s \in [1..Len(s) -> S] /\ Len(s) \in Nat
  BY DEF IsList
<1> QED
  BY <1>1, SeqDef

LEMMA SeqIsList ==
  ASSUME NEW S, NEW s \in Seq(S)
  PROVE  IsList(s)
BY LenProperties DEF IsList

LEMMA CommonType ==
  ASSUME NEW s, NEW t, NEW u, IsList(s), IsList(t), IsList(u)
  PROVE  \E S : s \in Seq(S) /\ t \in Seq(S) /\ u \in Seq(S)
<1> DEFINE S == {s[i] : i \in 1..Len(s)} \cup {t[i] : i \in 1..Len(t)} \cup {u[i] : i \in 1..Len(u)}
<1>1. /\ \A i \in 1..Len(s) : s[i] \in S
      /\ \A i \in 1..Len(t) : t[i] \in S
      /\ \A i \in 1..Len(u) : u[i] \in S
  OBVIOUS
<1> HIDE DEF S
<1> QED
  BY <1>1, ListTyped

LEMMA EmptyList == IsList(<<>>) /\ Len(<<>>) = 0
BY EmptySeq, SeqIsList

LEMMA SingleList ==
  ASSUME NEW x
  PROVE  /\ IsList(<<x>>) /\ Len(<<x>>) = 1 /\ <<x>> # <<>>
         /\ Head(<<x>>) = x /\ Tail(<<x>>) = <<>>
<1>1. <<x>> \in Seq({x})
  OBVIOUS
<1>2. IsList(<<x>>)
  BY <1>1, SeqIsList
<1> QED
  BY <1>2

LEMMA ListConcat ==
  ASSUME NEW s, NEW t, IsList(s), IsList(t)
  PROVE  IsList(s \o t) /\ s \o <<>> = s /\ <<>> \o s = s
<1>1. PICK S : s \in Seq(S) /\ t \in Seq(S)
  BY CommonType
<1>2. s \o t \in Seq(S) /\ s \o <<>> = s /\ <<>> \o s = s
  BY <1>1, ConcatProperties, ConcatEmptySeq
<1> QED
  BY <1>2, SeqIsList

LEMMA ListAssociative ==
  ASSUME NEW s, NEW t, NEW u, IsList(s), IsList(t), IsList(u)
  PROVE  (s \o t) \o u = s \o (t \o u)
<1>1. PICK S : s \in Seq(S) /\ t \in Seq(S) /\ u \in Seq(S)
  BY CommonType
<1> QED
  BY <1>1, ConcatAssociative

\* The first element of a list, and of what it is the first part of.
LEMMA ListHead ==
  ASSUME NEW s, NEW t, IsList(s), IsList(t), s # <<>>
  PROVE  /\ IsList(Tail(s))
         /\ s \o t # <<>> /\ Head(s \o t) = Head(s) /\ Tail(s \o t) = Tail(s) \o t
<1>1. PICK S : s \in Seq(S) /\ t \in Seq(S)
  BY CommonType
<1>2. /\ Len(s) \in Nat /\ Len(t) \in Nat /\ Len(s) # 0
      /\ Tail(s) \in Seq(S) /\ Len(Tail(s)) = Len(s) - 1
      /\ \A i \in 1..Len(Tail(s)) : Tail(s)[i] = s[i + 1]
  BY <1>1, LenProperties, HeadTailProperties, EmptySeq
<1> DEFINE c == s \o t
<1>3. /\ c \in Seq(S) /\ Len(c) = Len(s) + Len(t)
      /\ \A i \in 1..(Len(s) + Len(t)) : c[i] = IF i <= Len(s) THEN s[i] ELSE t[i - Len(s)]
  BY <1>1, ConcatProperties
<1>4. c # <<>>
  BY <1>2, <1>3
<1>5. Head(c) = Head(s)
  <2>1. 1 \in 1..(Len(s) + Len(t)) /\ 1 <= Len(s)
    BY <1>2
  <2>2. c[1] = s[1]
    BY <1>3, <2>1
  <2> HIDE DEF c
  <2> QED
    BY <1>1, <1>3, <1>4, <2>2
<1> DEFINE d == Tail(s) \o t
<1>6. /\ d \in Seq(S) /\ Len(d) = (Len(s) - 1) + Len(t)
      /\ \A i \in 1..((Len(s) - 1) + Len(t)) :
             d[i] = IF i <= Len(s) - 1 THEN Tail(s)[i] ELSE t[i - (Len(s) - 1)]
  BY <1>1, <1>2, ConcatProperties
<1> HIDE DEF c, d
<1>7. /\ Tail(c) \in Seq(S) /\ Len(Tail(c)) = Len(c) - 1
      /\ \A i \in 1..Len(Tail(c)) : Tail(c)[i] = c[i + 1]
  BY <1>3, <1>4, HeadTailProperties
<1>8. Tail(c) = d
  <2> DEFINE n == Len(s)
             m == Len(t)
             e == Tail(c)
             q == Tail(s)
  <2>1. n \in Nat /\ m \in Nat /\ n # 0 /\ Len(d) = (n - 1) + m /\ Len(e) = (n + m) - 1
    BY <1>2, <1>3, <1>6, <1>7
  <2>2. /\ \A i \in 1..Len(e) : e[i] = c[i + 1]
        /\ \A i \in 1..(n + m) : c[i] = IF i <= n THEN s[i] ELSE t[i - n]
        /\ \A i \in 1..((n - 1) + m) : d[i] = IF i <= n - 1 THEN q[i] ELSE t[i - (n - 1)]
        /\ \A i \in 1..(n - 1) : q[i] = s[i + 1]
    BY <1>2, <1>3, <1>6, <1>7
  <2>3. e \in Seq(S) /\ d \in Seq(S)
    BY <1>6, <1>7
  <2> HIDE DEF n, m, e, q
  <2>4. Len(e) = Len(d)
    BY <2>1
  <2>5. ASSUME NEW i \in 1..Len(e) PROVE e[i] = d[i]
    <3>1. i \in 1..((n - 1) + m) /\ i + 1 \in 1..(n + m)
      BY <2>1
    <3>2. CASE i <= n - 1
      <4>1. i + 1 <= n /\ i \in 1..(n - 1)
        BY <2>1, <3>1, <3>2
      <4>2. c[i + 1] = s[i + 1] /\ d[i] = q[i] /\ q[i] = s[i + 1]
        BY <2>2, <3>1, <3>2, <4>1
      <4> QED
        BY <2>2, <4>2
    <3>3. CASE ~(i <= n - 1)
      <4>1. ~(i + 1 <= n) /\ (i + 1) - n = i - (n - 1)
        BY <2>1, <3>1, <3>3
      <4>2. c[i + 1] = t[(i + 1) - n] /\ d[i] = t[i - (n - 1)]
        BY <2>2, <3>1, <3>3, <4>1
      <4> QED
        BY <2>2, <4>1, <4>2
    <3> QED
      BY <3>2, <3>3
  <2>6. e = d
    BY <2>3, <2>4, <2>5, SeqEqual
  <2> QED
    BY <2>6 DEF e
<1> QED
  BY <1>2, <1>4, <1>5, <1>8, SeqIsList DEF c, d

-----------------------------------------------------------------------------
(* FlattenSeq, one element after the other.  What it computes is defined by a *)
(* recursive function, whose existence is shown by least counterexample.      *)

LEMMA LeastNumber ==
  ASSUME NEW T \in SUBSET Nat, T # {}
  PROVE  \E m \in T : \A k \in T : m <= k
<1>1. PICK m \in T : \A k \in T : ~(<<k, m>> \in OpToRel(<, Nat))
  BY NatLessThanWellFounded, WFMin
<1>2. \A k \in T : ~(k < m)
  BY <1>1 DEF OpToRel
<1> QED
  BY <1>2

\* Function g flattens the first n elements of s.
Flattens(g, s, n) ==
    \A i \in 1..n : g[i] = IF i = 1 THEN s[i] ELSE g[i - 1] \o s[i]

LEMMA FlattensStep ==
  ASSUME NEW s, NEW n \in Nat, NEW g, Flattens(g, s, n)
  PROVE  \E h : Flattens(h, s, n + 1)
<1> DEFINE last == IF n + 1 = 1 THEN s[n + 1] ELSE g[n] \o s[n + 1]
           h == [i \in 1..(n + 1) |-> IF i = n + 1 THEN last ELSE g[i]]
<1> HIDE DEF last
<1>1. h[n + 1] = last /\ \A i \in 1..n : h[i] = g[i]
  <2>1. n + 1 \in 1..(n + 1) /\ \A i \in 1..n : i \in 1..(n + 1) /\ i # n + 1
    OBVIOUS
  <2> QED
    BY <2>1
<1> HIDE DEF h
<1>2. ASSUME NEW i \in 1..(n + 1) PROVE h[i] = IF i = 1 THEN s[i] ELSE h[i - 1] \o s[i]
  <2>1. CASE i = n + 1
    <3>1. CASE n = 0
      BY <1>1, <2>1, <3>1 DEF last
    <3>2. CASE n # 0
      <4>1. i - 1 = n /\ n \in 1..n /\ i # 1
        BY <2>1, <3>2
      <4>2. h[i - 1] = g[n]
        BY <1>1, <4>1
      <4> QED
        BY <1>1, <2>1, <4>1, <4>2 DEF last
    <3> QED
      BY <3>1, <3>2
  <2>2. CASE i # n + 1
    <3>1. i \in 1..n
      BY <2>2
    <3>2. h[i] = g[i] /\ g[i] = IF i = 1 THEN s[i] ELSE g[i - 1] \o s[i]
      BY <1>1, <3>1 DEF Flattens
    <3>3. ASSUME i # 1 PROVE h[i - 1] = g[i - 1]
      <4>1. i - 1 \in 1..n
        BY <3>1, <3>3
      <4> QED
        BY <1>1, <4>1
    <3> QED
      BY <3>2, <3>3
  <2> QED
    BY <2>1, <2>2
<1> QED
  BY <1>2 DEF Flattens

LEMMA FlattensExists ==
  ASSUME NEW s, NEW n \in Nat
  PROVE  \E g : Flattens(g, s, n)
<1> DEFINE Some(k) == \E g : Flattens(g, s, k)
           bad == {k \in Nat : ~Some(k)}
<1>1. Some(0)
  <2>1. \A i \in 1..0 : FALSE
    OBVIOUS
  <2> QED
    BY <2>1 DEF Flattens
<1>2. \A k \in Nat : Some(k) => Some(k + 1)
  BY FlattensStep
<1> HIDE DEF Some
<1>3. ASSUME bad # {} PROVE FALSE
  <2>1. PICK k \in bad : \A j \in bad : k <= j
    <3>1. bad \in SUBSET Nat
      OBVIOUS
    <3> HIDE DEF bad
    <3> QED
      BY <1>3, <3>1, LeastNumber
  <2>2. k \in Nat /\ ~Some(k) /\ k # 0
    BY <1>1
  <2>3. k - 1 \in Nat /\ (k - 1) + 1 = k /\ ~(k <= k - 1)
    BY <2>2
  <2>4. Some(k - 1)
    BY <2>1, <2>3
  <2>5. Some((k - 1) + 1)
    BY <1>2, <2>3, <2>4
  <2> QED
    BY <2>2, <2>3, <2>5
<1>4. Some(n)
  BY <1>3
<1> QED
  BY <1>4 DEF Some

LEMMA FlattenSeqDef ==
  ASSUME NEW s, NEW n \in Nat, Len(s) = n
  PROVE  /\ n = 0 => FlattenSeq(s) = s
         /\ n # 0 => \E g : Flattens(g, s, n) /\ FlattenSeq(s) = g[n]
<1>1. CASE n = 0
  BY <1>1 DEF FlattenSeq
<1>2. CASE n # 0
  <2> DEFINE Body(g) == [i \in 1..n |-> IF i = 1 THEN s[i] ELSE g[i - 1] \o s[i]]
             flat == CHOOSE g : g = Body(g)
  <2>1. PICK g : Flattens(g, s, n)
    BY FlattensExists
  <2> DEFINE h == [i \in 1..n |-> g[i]]
  <2>2. h = Body(h)
    <3>1. ASSUME NEW i \in 1..n PROVE h[i] = IF i = 1 THEN s[i] ELSE h[i - 1] \o s[i]
      <4>1. g[i] = IF i = 1 THEN s[i] ELSE g[i - 1] \o s[i]
        BY <2>1 DEF Flattens
      <4>2. ASSUME i # 1 PROVE h[i - 1] = g[i - 1]
        <5>1. i - 1 \in 1..n
          BY <4>2
        <5> QED
          BY <5>1
      <4> QED
        BY <4>1, <4>2
    <3> QED
      BY <3>1
  <2>3. flat = Body(flat)
    <3> HIDE DEF Body
    <3> QED
      BY <2>2
  <2>4. FlattenSeq(s) = flat[n]
    BY <1>2 DEF FlattenSeq
  <2>5. Flattens(flat, s, n)
    <3> HIDE DEF flat
    <3>1. \A i \in 1..n : flat[i] = IF i = 1 THEN s[i] ELSE flat[i - 1] \o s[i]
      BY <2>3
    <3> QED
      BY <3>1 DEF Flattens
  <2> HIDE DEF flat
  <2> QED
    BY <1>2, <2>4, <2>5
<1> QED
  BY <1>1, <1>2

-----------------------------------------------------------------------------
(* Items agree with tokens when a decoder that works off the items takes      *)
(* exactly the tokens, each for the member it was written from.  It is a      *)
(* simulation: a relation between the items left and the tokens left that     *)
(* every step of the decoder leads back into.                                 *)

\* The items that are due once an item has taken a value.
Due(item, value) ==
    CASE item.take = "size"     -> item.after \o FlattenSeq([i \in 1..value |-> item.items])
      [] item.take = "presence" -> IF value = 1 THEN item.items ELSE <<>>
      [] OTHER                  -> <<>>

Follows(item, token) == token.field = item.field /\ token.as = Primitive(item.take)

Move(R, items, tokens) ==
    /\ IsList(items) /\ IsList(tokens)
    /\ items = <<>> => tokens = <<>>
    /\ items # <<>> /\ Head(items).take = "check" => <<Tail(items), tokens>> \in R
    /\ items # <<>> /\ Head(items).take # "check" =>
           /\ tokens # <<>> /\ Follows(Head(items), Head(tokens))
           /\ IsList(Due(Head(items), Head(tokens).value))
           /\ <<Due(Head(items), Head(tokens).value) \o Tail(items), Tail(tokens)>> \in R

Simulation(R) == \A p \in R : Move(R, p[1], p[2])
Agrees(items, tokens) == \E R : Simulation(R) /\ <<items, tokens>> \in R

\* One step of a decoder, backwards and forwards.
LEMMA AgreesStep ==
  ASSUME NEW items, NEW tokens, Agrees(items, tokens)
  PROVE  /\ IsList(items) /\ IsList(tokens)
         /\ items = <<>> => tokens = <<>>
         /\ items # <<>> /\ Head(items).take = "check" => Agrees(Tail(items), tokens)
         /\ items # <<>> /\ Head(items).take # "check" =>
                /\ tokens # <<>> /\ Follows(Head(items), Head(tokens))
                /\ IsList(Due(Head(items), Head(tokens).value))
                /\ Agrees(Due(Head(items), Head(tokens).value) \o Tail(items), Tail(tokens))
<1>1. PICK R : Simulation(R) /\ <<items, tokens>> \in R
  BY DEF Agrees
<1>2. Move(R, items, tokens)
  BY <1>1 DEF Simulation
<1> QED
  BY <1>1, <1>2 DEF Move, Agrees

LEMMA AgreesEmpty == Agrees(<<>>, <<>>)
<1> DEFINE R == {<< <<>>, <<>> >>}
<1>1. Simulation(R)
  BY EmptyList DEF Simulation, Move
<1> QED
  BY <1>1 DEF Agrees

\* A decoder takes the first token and then agrees with the others.
LEMMA AgreesTake ==
  ASSUME NEW items, NEW tokens, IsList(items), IsList(tokens), items # <<>>, tokens # <<>>,
         Head(items).take # "check", Follows(Head(items), Head(tokens)),
         IsList(Due(Head(items), Head(tokens).value)),
         Agrees(Due(Head(items), Head(tokens).value) \o Tail(items), Tail(tokens))
  PROVE  Agrees(items, tokens)
<1> DEFINE next == <<Due(Head(items), Head(tokens).value) \o Tail(items), Tail(tokens)>>
<1>1. PICK Q : Simulation(Q) /\ next \in Q
  BY DEF Agrees
<1> DEFINE R == Q \cup {<<items, tokens>>}
<1>2. ASSUME NEW p \in Q PROVE Move(R, p[1], p[2])
  <2>1. Move(Q, p[1], p[2])
    BY <1>1 DEF Simulation
  <2>2. \A x : x \in Q => x \in R
    OBVIOUS
  <2> HIDE DEF R
  <2> QED
    BY <2>1, <2>2 DEF Move
<1>3. Move(R, items, tokens)
  <2>1. next \in R
    BY <1>1
  <2> HIDE DEF R
  <2> QED
    BY <2>1 DEF Move
<1>4. Simulation(R)
  <2>1. ASSUME NEW p \in R PROVE Move(R, p[1], p[2])
    <3>1. CASE p \in Q
      BY <1>2, <3>1
    <3>2. CASE p = <<items, tokens>>
      <4>1. p[1] = items /\ p[2] = tokens
        BY <3>2
      <4> HIDE DEF R
      <4> QED
        BY <1>3, <4>1
    <3> QED
      BY <3>1, <3>2
  <2> HIDE DEF R
  <2> QED
    BY <2>1 DEF Simulation
<1>5. <<items, tokens>> \in R
  OBVIOUS
<1> HIDE DEF R
<1> QED
  BY <1>4, <1>5 DEF Agrees

LEMMA AgreesCheck ==
  ASSUME NEW c, c.take = "check"
  PROVE  Agrees(<<c>>, <<>>)
<1> DEFINE R == {<< <<c>>, <<>> >>, << <<>>, <<>> >>}
<1>1. Move(R, <<c>>, <<>>)
  BY SingleList, EmptyList DEF Move
<1>2. Move(R, <<>>, <<>>)
  BY EmptyList DEF Move
<1>3. Simulation(R)
  BY <1>1, <1>2 DEF Simulation
<1> QED
  BY <1>3 DEF Agrees

\* Two decoders one after the other, and two writers.
LEMMA AgreesConcat ==
  ASSUME NEW items, NEW tokens, NEW later, NEW rest, Agrees(items, tokens), Agrees(later, rest)
  PROVE  Agrees(items \o later, tokens \o rest)
<1>1. PICK P : Simulation(P) /\ <<items, tokens>> \in P
  BY DEF Agrees
<1>2. PICK Q : Simulation(Q) /\ <<later, rest>> \in Q
  BY DEF Agrees
<1>3. IsList(later) /\ IsList(rest) /\ Move(Q, later, rest)
  BY <1>2 DEF Simulation, Move
<1> DEFINE R == {<<p[1] \o later, p[2] \o rest>> : p \in P} \cup Q
<1>4. ASSUME NEW i, NEW t, <<i, t>> \in P PROVE <<i \o later, t \o rest>> \in R
  <2>1. PICK p \in P : p = <<i, t>>
    BY <1>4
  <2>2. p[1] = i /\ p[2] = t
    BY <2>1
  <2>3. <<p[1] \o later, p[2] \o rest>> \in R
    OBVIOUS
  <2> HIDE DEF R
  <2> QED
    BY <2>2, <2>3
<1>5. \A x : x \in Q => x \in R
  OBVIOUS
<1>6. ASSUME NEW p \in Q PROVE Move(R, p[1], p[2])
  <2>1. Move(Q, p[1], p[2])
    BY <1>2 DEF Simulation
  <2> HIDE DEF R
  <2> QED
    BY <1>5, <2>1 DEF Move
<1>7. ASSUME NEW p \in P PROVE Move(R, p[1] \o later, p[2] \o rest)
  <2> DEFINE i == p[1]
             t == p[2]
  <2>1. Move(P, i, t)
    BY <1>1 DEF Simulation
  <2> HIDE DEF R, i, t
  <2>2. IsList(i) /\ IsList(t) /\ IsList(i \o later) /\ IsList(t \o rest)
    BY <1>3, <2>1, ListConcat DEF Move
  <2>3. CASE i = <<>>
    <3>1. t = <<>>
      BY <2>1, <2>3 DEF Move
    <3>2. i \o later = later /\ t \o rest = rest
      BY <1>3, <2>3, <3>1, ListConcat
    <3>3. Move(R, later, rest)
      BY <1>3, <1>5 DEF Move
    <3> QED
      BY <3>2, <3>3 DEF i, t
  <2>4. CASE i # <<>>
    <3>1. i \o later # <<>> /\ Head(i \o later) = Head(i) /\ Tail(i \o later) = Tail(i) \o later
          /\ IsList(Tail(i))
      BY <1>3, <2>2, <2>4, ListHead
    <3>2. CASE Head(i).take = "check"
      <4>1. <<Tail(i) \o later, t \o rest>> \in R
        BY <1>4, <2>1, <2>4, <3>2 DEF Move
      <4>2. Move(R, i \o later, t \o rest)
        BY <2>2, <3>1, <3>2, <4>1 DEF Move
      <4> QED
        BY <4>2 DEF i, t
    <3>3. CASE Head(i).take # "check"
      <4> DEFINE due == Due(Head(i), Head(t).value)
      <4>1. /\ t # <<>> /\ Follows(Head(i), Head(t)) /\ IsList(due)
            /\ <<due \o Tail(i), Tail(t)>> \in P
        BY <2>1, <2>4, <3>3 DEF Move
      <4>2. t \o rest # <<>> /\ Head(t \o rest) = Head(t) /\ Tail(t \o rest) = Tail(t) \o rest
        BY <1>3, <2>2, <4>1, ListHead
      <4> HIDE DEF due
      <4>3. (due \o Tail(i)) \o later = due \o (Tail(i) \o later)
        <5> DEFINE q == Tail(i)
        <5>1. IsList(due) /\ IsList(q) /\ IsList(later)
          BY <1>3, <3>1, <4>1
        <5>2. (due \o q) \o later = due \o (q \o later)
          <6> HIDE DEF q
          <6> QED
            BY <5>1, ListAssociative
        <5> QED
          BY <5>2
      <4>4. <<(due \o Tail(i)) \o later, Tail(t) \o rest>> \in R
        BY <1>4, <4>1
      <4>5. <<due \o Tail(i \o later), Tail(t \o rest)>> \in R
        BY <3>1, <4>2, <4>3, <4>4
      <4>6. Due(Head(i \o later), Head(t \o rest).value) = due
        BY <3>1, <4>2 DEF due
      <4>7. Follows(Head(i \o later), Head(t \o rest))
        BY <3>1, <4>1, <4>2
      <4>8. Move(R, i \o later, t \o rest)
        BY <2>2, <3>1, <3>3, <4>1, <4>2, <4>5, <4>6, <4>7 DEF Move
      <4> QED
        BY <4>8 DEF i, t
    <3> QED
      BY <3>2, <3>3
  <2> QED
    BY <2>3, <2>4
<1>8. Simulation(R)
  <2>1. ASSUME NEW p \in R PROVE Move(R, p[1], p[2])
    <3>1. CASE p \in Q
      BY <1>6, <3>1
    <3>2. CASE p \notin Q
      <4>1. PICK q \in P : p = <<q[1] \o later, q[2] \o rest>>
        BY <3>2
      <4>2. p[1] = q[1] \o later /\ p[2] = q[2] \o rest
        BY <4>1
      <4> HIDE DEF R
      <4> QED
        BY <1>7, <4>2
    <3> QED
      BY <3>1, <3>2
  <2> HIDE DEF R
  <2> QED
    BY <2>1 DEF Simulation
<1>9. <<items \o later, tokens \o rest>> \in R
  BY <1>1, <1>4
<1> HIDE DEF R
<1> QED
  BY <1>8, <1>9 DEF Agrees

\* A check takes nothing.
LEMMA AgreesThenCheck ==
  ASSUME NEW items, NEW tokens, Agrees(items, tokens), NEW f, NEW test, NEW members, NEW failed_as
  PROVE  Agrees(items \o Check(f, test, members, failed_as), tokens)
<1> DEFINE c == [take |-> "check", field |-> f, test |-> test, members |-> members,
                 failure |-> failed_as]
<1>1. Check(f, test, members, failed_as) = <<c>> /\ c.take = "check"
  BY DEF Check
<1> HIDE DEF c
<1>2. Agrees(<<c>>, <<>>)
  BY <1>1, AgreesCheck
<1>3. Agrees(items \o <<c>>, tokens \o <<>>)
  BY <1>2, AgreesConcat
<1>4. tokens \o <<>> = tokens
  BY AgreesStep, EmptyList, ListConcat
<1> QED
  BY <1>1, <1>3, <1>4

\* Writers are grouped to the left.
LEMMA AgreesConcatPair ==
  ASSUME NEW items, NEW tokens, NEW later, NEW a, NEW b,
         Agrees(items, tokens), Agrees(later, a \o b), IsList(a), IsList(b)
  PROVE  Agrees(items \o later, (tokens \o a) \o b)
<1>1. Agrees(items \o later, tokens \o (a \o b))
  BY AgreesConcat
<1>2. (tokens \o a) \o b = tokens \o (a \o b)
  BY AgreesStep, ListAssociative
<1> QED
  BY <1>1, <1>2

LEMMA AgreesOne ==
  ASSUME NEW item, NEW token, item.take \notin {"check", "size", "presence"}, Follows(item, token)
  PROVE  Agrees(<<item>>, <<token>>)
<1>1. Due(item, token.value) = <<>>
  BY DEF Due
<1>2. Due(item, token.value) \o Tail(<<item>>) = <<>>
  BY <1>1, SingleList, EmptyList, ListConcat
<1> QED
  BY <1>1, <1>2, SingleList, EmptyList, AgreesEmpty, AgreesTake

\* A list of elements, one after the other.
LEMMA AgreesAll ==
  ASSUME NEW items, NEW e, IsList(e), \A k \in DOMAIN e : Agrees(items, e[k])
  PROVE  Agrees(FlattenSeq([i \in 1..Len(e) |-> items]), FlattenSeq(e))
<1> DEFINE n == Len(e)
           c == [i \in 1..n |-> items]
<1>1. n \in Nat /\ DOMAIN e = 1..n
  BY DEF IsList
<1>2. c \in Seq({items}) /\ Len(c) = n /\ \A i \in 1..n : c[i] = items
  <2>1. c \in [1..n -> {items}]
    OBVIOUS
  <2>2. c \in Seq({items})
    BY <1>1, <2>1, SeqDef
  <2>3. DOMAIN c = 1..n
    OBVIOUS
  <2>4. Len(c) = n
    BY <1>1, <2>2, <2>3, LenProperties
  <2> QED
    BY <2>2, <2>4
<1> HIDE DEF c
<1>3. CASE n = 0
  <2>1. c = <<>> /\ e = <<>>
    <3>1. e \in Seq({})
      BY <1>1, <1>3, ListTyped
    <3> QED
      BY <1>2, <1>3, <3>1, EmptySeq
  <2>2. FlattenSeq(c) = <<>> /\ FlattenSeq(e) = <<>>
    BY <1>1, <1>2, <1>3, <2>1, FlattenSeqDef
  <2> QED
    BY <2>2, AgreesEmpty DEF c
<1>4. CASE n # 0
  <2>1. PICK g : Flattens(g, c, n) /\ FlattenSeq(c) = g[n]
    BY <1>1, <1>2, <1>4, FlattenSeqDef
  <2>2. PICK h : Flattens(h, e, n) /\ FlattenSeq(e) = h[n]
    BY <1>1, <1>4, FlattenSeqDef
  <2> HIDE DEF n
  <2> DEFINE bad == {i \in 1..n : ~Agrees(g[i], h[i])}
  <2>3. ASSUME bad # {} PROVE FALSE
    <3>1. bad \in SUBSET Nat
      OBVIOUS
    <3>2. PICK i \in bad : \A j \in bad : i <= j
      <4> HIDE DEF bad
      <4> QED
        BY <2>3, <3>1, LeastNumber
    <3>3. i \in 1..n /\ ~Agrees(g[i], h[i])
      OBVIOUS
    <3>4. Agrees(c[i], e[i])
      BY <1>1, <1>2, <3>3
    <3>5. CASE i = 1
      <4>1. g[i] = c[i] /\ h[i] = e[i]
        BY <2>1, <2>2, <3>3, <3>5 DEF Flattens
      <4> QED
        BY <3>3, <3>4, <4>1
    <3>6. CASE i # 1
      <4>1. i - 1 \in 1..n /\ ~(i <= i - 1)
        BY <1>1, <3>3, <3>6
      <4>2. Agrees(g[i - 1], h[i - 1])
        BY <3>2, <4>1
      <4>3. g[i] = g[i - 1] \o c[i] /\ h[i] = h[i - 1] \o e[i]
        BY <2>1, <2>2, <3>3, <3>6 DEF Flattens
      <4> QED
        BY <3>3, <3>4, <4>2, <4>3, AgreesConcat
    <3> QED
      BY <3>5, <3>6
  <2>4. n \in 1..n
    BY <1>1, <1>4
  <2>5. Agrees(g[n], h[n])
    BY <2>3, <2>4
  <2> QED
    BY <2>1, <2>2, <2>5 DEF c, n
<1> QED
  BY <1>3, <1>4

-----------------------------------------------------------------------------
(* The primitives, lists and optionals *)

LEMMA TakeAgrees ==
  ASSUME NEW field, NEW value, NEW as \in {"u8", "byte", "u64", "varint", "name", "bytes"}
  PROVE  Agrees(Take(as, field), Token(as, field, value))
<1> DEFINE item == [take |-> as, field |-> field]
           token == [as |-> as, field |-> field, value |-> value]
<1>1. item.take \notin {"check", "size", "presence"} /\ Follows(item, token)
  BY DEF Follows, Primitive
<1> HIDE DEF item, token
<1>2. Agrees(<<item>>, <<token>>)
  BY <1>1, AgreesOne
<1> QED
  BY <1>2 DEF Take, Token, item, token

LEMMA PrimitivesAgree ==
  ASSUME NEW f, NEW r, NEW m
  PROVE  /\ Agrees(TakeU8(f, m), PutU8(f, r, m)) /\ Agrees(TakeU64(f, m), PutU64(f, r, m))
         /\ Agrees(TakeVarint(f, m), PutVarint(f, r, m)) /\ Agrees(TakeName(f, m), PutId(f, r, m))
         /\ Agrees(TakeDigest(f, m), PutDigest(f, r, m))
BY TakeAgrees DEF TakeU8, TakeU64, TakeVarint, TakeName, TakeDigest,
                  PutU8, PutU64, PutVarint, PutId, PutDigest

LEMMA NarrowedAgrees ==
  ASSUME NEW f, NEW r, NEW m
  PROVE  Agrees(TakeNarrowed(f, m), PutVarint(f, r, m))
<1> DEFINE item == [take |-> "narrowed", field |-> Append(f, m)]
           token == [as |-> "varint", field |-> Append(f, m), value |-> r[m]]
<1>1. item.take \notin {"check", "size", "presence"} /\ Follows(item, token)
  BY DEF Follows, Primitive
<1> HIDE DEF item, token
<1>2. Agrees(<<item>>, <<token>>)
  BY <1>1, AgreesOne
<1> QED
  BY <1>2 DEF TakeNarrowed, Take, PutVarint, Token, item, token

LEMMA FlagAgrees ==
  ASSUME NEW f, NEW r, NEW m
  PROVE  /\ \A failed_as : Agrees(TakeFlag(f, m, failed_as), PutBoolean(f, r, m))
         /\ Agrees(TakeBoolean(f, m), PutBoolean(f, r, m))
<1>1. ASSUME NEW failed_as PROVE Agrees(TakeFlag(f, m, failed_as), PutBoolean(f, r, m))
  <2> DEFINE item == [take |-> "boolean", field |-> Append(f, m), failure |-> failed_as]
             token == [as |-> "boolean", field |-> Append(f, m), value |-> Bit(r[m])]
  <2>1. item.take \notin {"check", "size", "presence"} /\ Follows(item, token)
    BY DEF Follows, Primitive
  <2> HIDE DEF item, token
  <2>2. Agrees(<<item>>, <<token>>)
    BY <2>1, AgreesOne
  <2> QED
    BY <2>2 DEF TakeFlag, PutBoolean, Token, item, token
<1> QED
  BY <1>1 DEF TakeBoolean

LEMMA TextAgrees ==
  ASSUME NEW f, NEW r, NEW m, NEW bound
  PROVE  Agrees(TakeText(f, m, bound), PutText(f, r, m))
<1> DEFINE item == [take |-> "text", field |-> Append(f, m), bound |-> bound]
           token == [as |-> "text", field |-> Append(f, m), value |-> r[m]]
<1>1. item.take \notin {"check", "size", "presence"} /\ Follows(item, token)
  BY DEF Follows, Primitive
<1> HIDE DEF item, token
<1>2. Agrees(<<item>>, <<token>>)
  BY <1>1, AgreesOne
<1> QED
  BY <1>2 DEF TakeText, PutText, Token, item, token

\* Values that are checked as soon as they are taken.
LEMMA CheckedAgree ==
  ASSUME NEW f, NEW r, NEW m
  PROVE  Agrees(TakeId(f, m), PutId(f, r, m)) /\ Agrees(TakeU32(f, m), PutVarint(f, r, m))
BY PrimitivesAgree, AgreesThenCheck DEF TakeId, TakeU32

LEMMA TupleConcat ==
  ASSUME NEW x, NEW y, NEW z
  PROVE  <<x>> \o <<y>> = <<x, y>> /\ <<x, y>> \o <<z>> = <<x, y, z>>
<1> DEFINE S == {x, y, z}
           p == <<x>> \o <<y>>
           q == <<x, y>> \o <<z>>
<1>1. /\ <<x>> \in Seq(S) /\ <<y>> \in Seq(S) /\ <<z>> \in Seq(S)
      /\ <<x, y>> \in Seq(S) /\ <<x, y, z>> \in Seq(S)
  OBVIOUS
<1>2. /\ Len(<<x>>) = 1 /\ Len(<<y>>) = 1 /\ Len(<<z>>) = 1 /\ Len(<<x, y>>) = 2
      /\ Len(<<x, y, z>>) = 3
  OBVIOUS
<1>3. p = <<x, y>>
  <2>1. p \in Seq(S) /\ Len(p) = 2 /\ p[1] = x /\ p[2] = y
    <3>1. /\ p \in Seq(S) /\ Len(p) = 1 + 1
          /\ \A i \in 1..(1 + 1) : p[i] = IF i <= 1 THEN <<x>>[i] ELSE <<y>>[i - 1]
      BY <1>1, <1>2, ConcatProperties
    <3> HIDE DEF p
    <3> QED
      BY <3>1
  <2> HIDE DEF p
  <2>2. \A i \in 1..2 : p[i] = <<x, y>>[i]
    BY <2>1
  <2> QED
    BY <1>1, <1>2, <2>1, <2>2, SeqEqual
<1>4. q = <<x, y, z>>
  <2>1. q \in Seq(S) /\ Len(q) = 3 /\ q[1] = x /\ q[2] = y /\ q[3] = z
    <3>1. /\ q \in Seq(S) /\ Len(q) = 2 + 1
          /\ \A i \in 1..(2 + 1) : q[i] = IF i <= 2 THEN <<x, y>>[i] ELSE <<z>>[i - 2]
      BY <1>1, <1>2, ConcatProperties
    <3> HIDE DEF q
    <3> QED
      BY <3>1
  <2> HIDE DEF q
  <2>2. \A i \in 1..3 : q[i] = <<x, y, z>>[i]
    BY <2>1
  <2> QED
    BY <1>1, <1>2, <2>1, <2>2, SeqEqual
<1> QED
  BY <1>3, <1>4

LEMMA EnumsAgree ==
  ASSUME NEW f, NEW r, NEW a, NEW b, NEW c
  PROVE  /\ Agrees(TakeEnums(f, <<a>>), PutU8(f, r, a))
         /\ Agrees(TakeEnums(f, <<a, b>>), PutU8(f, r, a) \o PutU8(f, r, b))
         /\ Agrees(TakeEnums(f, <<a, b, c>>), (PutU8(f, r, a) \o PutU8(f, r, b)) \o PutU8(f, r, c))
<1> DEFINE Item(m) == [take |-> "u8", field |-> Append(f, m)]
<1>1. /\ Agrees(<<Item(a)>>, PutU8(f, r, a)) /\ Agrees(<<Item(b)>>, PutU8(f, r, b))
      /\ Agrees(<<Item(c)>>, PutU8(f, r, c))
  BY PrimitivesAgree DEF TakeU8, Take
<1>2. \A m : TakeU8(f, m)[1] = Item(m)
  BY DEF TakeU8, Take
<1> HIDE DEF Item
<1>3. /\ Agrees(<<Item(a), Item(b)>>, PutU8(f, r, a) \o PutU8(f, r, b))
      /\ Agrees(<<Item(a), Item(b), Item(c)>>, (PutU8(f, r, a) \o PutU8(f, r, b)) \o PutU8(f, r, c))
  <2>1. /\ <<Item(a)>> \o <<Item(b)>> = <<Item(a), Item(b)>>
        /\ <<Item(a), Item(b)>> \o <<Item(c)>> = <<Item(a), Item(b), Item(c)>>
    BY TupleConcat
  <2>2. Agrees(<<Item(a)>> \o <<Item(b)>>, PutU8(f, r, a) \o PutU8(f, r, b))
    BY <1>1, AgreesConcat
  <2>3. Agrees(<<Item(a), Item(b)>>, PutU8(f, r, a) \o PutU8(f, r, b))
    BY <2>1, <2>2
  <2>4. Agrees(<<Item(a), Item(b)>> \o <<Item(c)>>, (PutU8(f, r, a) \o PutU8(f, r, b)) \o PutU8(f, r, c))
    BY <1>1, <2>3, AgreesConcat
  <2> QED
    BY <2>1, <2>3, <2>4
<1>4. [i \in DOMAIN <<a>> |-> TakeU8(f, <<a>>[i])[1]] = <<Item(a)>>
  BY <1>2
<1>5. [i \in DOMAIN <<a, b>> |-> TakeU8(f, <<a, b>>[i])[1]] = <<Item(a), Item(b)>>
  BY <1>2
<1>6. [i \in DOMAIN <<a, b, c>> |-> TakeU8(f, <<a, b, c>>[i])[1]] = <<Item(a), Item(b), Item(c)>>
  BY <1>2
<1>7. /\ TakeEnums(f, <<a>>) = <<Item(a)>> \o Check(f, "defined", <<a>>, "INVALID_ENUM")
      /\ TakeEnums(f, <<a, b>>) = <<Item(a), Item(b)>> \o Check(f, "defined", <<a, b>>, "INVALID_ENUM")
      /\ TakeEnums(f, <<a, b, c>>) =
             <<Item(a), Item(b), Item(c)>> \o Check(f, "defined", <<a, b, c>>, "INVALID_ENUM")
  BY <1>4, <1>5, <1>6, Zenon DEF TakeEnums
<1> QED
  BY <1>1, <1>3, <1>7, AgreesThenCheck

LEMMA ElementsAgree ==
  ASSUME NEW f, NEW e
  PROVE  /\ Agrees(EnumItem(f), EnumElement(f, e)) /\ Agrees(IdItem(f), IdElement(f, e))
         /\ Agrees(IndexItem(f), IndexElement(f, e))
         /\ \A class : Agrees(KnownIndex(f, class), IndexElement(f, e))
<1>1. /\ Agrees(Take("u8", f), Token("u8", f, e)) /\ Agrees(Take("name", f), Token("name", f, e))
      /\ Agrees(Take("varint", f), Token("varint", f, e))
  BY TakeAgrees
<1> QED
  BY <1>1, AgreesThenCheck DEF EnumItem, EnumElement, IdItem, IdElement, IndexItem, IndexElement,
                               KnownIndex

\* A size or a flag, and what it announces.
LEMMA LeadAgrees ==
  ASSUME NEW item, NEW token, NEW due, NEW flat, item.take # "check", Follows(item, token),
         Due(item, token.value) = due, Agrees(due, flat)
  PROVE  Agrees(<<item>>, <<token>> \o flat)
<1> DEFINE first == <<token>>
           tokens == first \o flat
           items == <<item>>
<1>1. IsList(due) /\ IsList(flat)
  BY AgreesStep
<1>2. /\ IsList(items) /\ items # <<>> /\ Head(items) = item /\ Tail(items) = <<>>
      /\ IsList(first) /\ first # <<>> /\ Head(first) = token /\ Tail(first) = <<>>
  BY SingleList
<1> HIDE DEF first, items
<1>3. <<>> \o flat = flat /\ due \o <<>> = due /\ IsList(tokens)
  BY <1>1, <1>2, ListConcat
<1>4. tokens # <<>> /\ Head(tokens) = Head(first) /\ Tail(tokens) = Tail(first) \o flat
  BY <1>1, <1>2, ListHead
<1> HIDE DEF tokens
<1>5. Head(tokens) = token /\ Tail(tokens) = flat
  BY <1>2, <1>3, <1>4
<1>6. Agrees(Due(Head(items), Head(tokens).value) \o Tail(items), Tail(tokens))
  BY <1>2, <1>3, <1>5
<1>7. IsList(Due(Head(items), Head(tokens).value)) /\ Follows(Head(items), Head(tokens))
  BY <1>1, <1>2, <1>5
<1>8. Agrees(items, tokens)
  BY <1>2, <1>3, <1>4, <1>6, <1>7, AgreesTake
<1> QED
  BY <1>8 DEF items, tokens, first

LEMMA ElementsListed ==
  ASSUME NEW s, NEW e, IsList(s), e = [i \in DOMAIN s |-> e[i]]
  PROVE  IsList(e) /\ Len(e) = Len(s) /\ DOMAIN e = DOMAIN s
<1>1. DOMAIN s = 1..Len(s) /\ Len(s) \in Nat
  BY DEF IsList
<1> DEFINE S == {e[i] : i \in 1..Len(s)}
<1>2. e \in [1..Len(s) -> S] /\ DOMAIN e = 1..Len(s)
  BY <1>1
<1> HIDE DEF S
<1>3. e \in Seq(S)
  BY <1>1, <1>2, SeqDef
<1>4. Len(e) = Len(s)
  BY <1>1, <1>2, <1>3, LenProperties
<1> QED
  BY <1>1, <1>2, <1>3, <1>4, SeqIsList

\* The elements of list s were written as e.
LEMMA CountedAgrees ==
  ASSUME NEW f, NEW m, NEW bound, NEW class, NEW after, NEW items, NEW s, NEW e,
         IsList(s), e = [i \in DOMAIN s |-> e[i]], \A k \in DOMAIN s : Agrees(items, e[k]),
         Agrees(after, <<>>)
  PROVE  Agrees(TakeCounted(f, m, bound, class, after, items),
                Token("varint", f \o <<m, "size">>, Len(s)) \o FlattenSeq(e))
<1> DEFINE item == [take |-> "size", field |-> f \o <<m, "size">>, bound |-> bound,
                    failure |-> class, after |-> after, items |-> items]
           token == [as |-> "varint", field |-> f \o <<m, "size">>, value |-> Len(s)]
           all == FlattenSeq([i \in 1..Len(s) |-> items])
           flat == FlattenSeq(e)
<1>1. IsList(e) /\ Len(e) = Len(s) /\ DOMAIN e = DOMAIN s
  BY ElementsListed
<1>2. Agrees(all, flat)
  BY <1>1, AgreesAll
<1>3. /\ item.take = "size" /\ item.after = after /\ item.items = items
      /\ token.value = Len(s) /\ Follows(item, token)
  BY DEF Follows, Primitive
<1>4. Due(item, token.value) = after \o all
  BY <1>3 DEF Due
<1> HIDE DEF item, token, all, flat
<1>5. Agrees(after \o all, <<>> \o flat)
  BY <1>2, AgreesConcat
<1>6. <<>> \o flat = flat
  BY <1>2, AgreesStep, ListConcat
<1>7. Agrees(<<item>>, <<token>> \o flat)
  BY <1>3, <1>4, <1>5, <1>6, LeadAgrees
<1> QED
  BY <1>7 DEF TakeCounted, Token, item, token, flat

LEMMA ListAgrees ==
  ASSUME NEW f, NEW m, NEW bound, NEW items, NEW s, NEW e,
         IsList(s), e = [i \in DOMAIN s |-> e[i]], \A k \in DOMAIN s : Agrees(items, e[k])
  PROVE  Agrees(TakeList(f, m, bound, items),
                Token("varint", f \o <<m, "size">>, Len(s)) \o FlattenSeq(e))
BY CountedAgrees, AgreesEmpty DEF TakeList

LEMMA OptionalAgrees ==
  ASSUME NEW f, NEW m, NEW items, NEW s, NEW e, IsList(s), Len(s) <= 1,
         e = [i \in DOMAIN s |-> e[i]], \A k \in DOMAIN s : Agrees(items, e[k])
  PROVE  Agrees(TakeOptional(f, m, items),
                Token("boolean", f \o <<m, "present">>, Bit(s # <<>>)) \o FlattenSeq(e))
<1> DEFINE item == [take |-> "presence", field |-> f \o <<m, "present">>, failure |-> Unclassified,
                    items |-> items]
           token == [as |-> "boolean", field |-> f \o <<m, "present">>, value |-> Bit(s # <<>>)]
           flat == FlattenSeq(e)
           due == IF token.value = 1 THEN items ELSE <<>>
<1>1. IsList(e) /\ Len(e) = Len(s) /\ DOMAIN e = DOMAIN s /\ DOMAIN s = 1..Len(s) /\ Len(s) \in Nat
  BY ElementsListed DEF IsList
<1>2. Agrees(due, flat)
  <2>1. CASE Len(s) = 0
    <3>1. s = <<>> /\ e = <<>>
      <4>1. s \in Seq({}) /\ e \in Seq({})
        BY <1>1, <2>1, ListTyped
      <4> QED
        BY <1>1, <2>1, <4>1, EmptySeq
    <3>2. due = <<>>
      BY <3>1 DEF Bit
    <3>3. flat = <<>>
      BY <1>1, <2>1, <3>1, FlattenSeqDef
    <3> QED
      BY <3>2, <3>3, AgreesEmpty
  <2>2. CASE Len(s) = 1
    <3>1. s # <<>> /\ 1 \in DOMAIN s
      BY <1>1, <2>2, EmptyList
    <3>2. due = items
      BY <3>1 DEF Bit
    <3>3. \E g : Flattens(g, e, 1) /\ flat = g[1]
      <4> DEFINE n == Len(e)
      <4>1. n \in Nat /\ n # 0 /\ n = 1
        BY <1>1, <2>2
      <4> HIDE DEF n
      <4>2. \E g : Flattens(g, e, n) /\ FlattenSeq(e) = g[n]
        BY <4>1, FlattenSeqDef DEF n
      <4> QED
        BY <4>1, <4>2
    <3>4. PICK g : Flattens(g, e, 1) /\ flat = g[1]
      BY <3>3
    <3>5. g[1] = e[1]
      BY <3>4 DEF Flattens
    <3> QED
      BY <3>1, <3>2, <3>4, <3>5
  <2> QED
    BY <1>1, <2>1, <2>2
<1>3. item.take = "presence" /\ item.items = items /\ Follows(item, token)
  BY DEF Follows, Primitive
<1>4. Due(item, token.value) = due
  BY <1>3 DEF Due
<1> HIDE DEF item, token, flat, due
<1>5. Agrees(<<item>>, <<token>> \o flat)
  BY <1>2, <1>3, <1>4, LeadAgrees
<1> QED
  BY <1>5 DEF TakeOptional, Token, item, token, flat

-----------------------------------------------------------------------------
(* Policies and proofs, persistence_records.cpp *)

\* What writes one value writes a list of one token.
LEMMA PutList1 ==
  ASSUME NEW f, NEW r, NEW m
  PROVE  IsList(PutU8(f, r, m))
BY PrimitivesAgree, AgreesStep

LEMMA AgreesConcatTriple ==
  ASSUME NEW items, NEW tokens, NEW later, NEW a, NEW b, NEW c,
         Agrees(items, tokens), Agrees(later, (a \o b) \o c), IsList(a), IsList(b), IsList(c)
  PROVE  Agrees(items \o later, ((tokens \o a) \o b) \o c)
<1> DEFINE ab == a \o b
<1>1. IsList(ab) /\ IsList(tokens)
  <2>1. IsList(tokens)
    BY AgreesStep
  <2>2. IsList(a \o b)
    BY ListConcat
  <2> QED
    BY <2>1, <2>2
<1>2. (tokens \o a) \o b = tokens \o (a \o b)
  BY <1>1, ListAssociative, SMTT(40)
<1>3. Agrees(items \o later, (tokens \o ab) \o c)
  <2> HIDE DEF ab
  <2>1. Agrees(later, ab \o c)
    BY DEF ab
  <2> QED
    BY <1>1, <2>1, AgreesConcatPair
<1> QED
  BY <1>2, <1>3

LEMMA IndicesAgree ==
  ASSUME NEW f, NEW r, NEW m, NEW bound, IsList(r[m])
  PROVE  Agrees(TakeList(f, m, bound, IndexItem(Append(f, m))),
                PutList(f, r, m, IndexElement))
<1> DEFINE e == [i \in DOMAIN r[m] |-> IndexElement(Append(f, m), r[m][i])]
<1>1. \A i \in DOMAIN r[m] : Agrees(IndexItem(Append(f, m)), e[i])
  BY ElementsAgree
<1>2. e = [i \in DOMAIN r[m] |-> e[i]]
  OBVIOUS
<1> HIDE DEF e
<1>3. Agrees(TakeList(f, m, bound, IndexItem(Append(f, m))),
             Token("varint", f \o <<m, "size">>, Len(r[m])) \o FlattenSeq(e))
  BY <1>1, <1>2, ListAgrees
<1> QED
  BY <1>3 DEF PutList, e

LEMMA EnumListAgrees ==
  ASSUME NEW f, NEW r, NEW m, NEW bound, IsList(r[m])
  PROVE  Agrees(TakeList(f, m, bound, EnumItem(Append(f, m))),
                PutList(f, r, m, EnumElement))
<1> DEFINE e == [i \in DOMAIN r[m] |-> EnumElement(Append(f, m), r[m][i])]
<1>1. \A i \in DOMAIN r[m] : Agrees(EnumItem(Append(f, m)), e[i])
  BY ElementsAgree
<1>2. e = [i \in DOMAIN r[m] |-> e[i]]
  OBVIOUS
<1> HIDE DEF e
<1>3. Agrees(TakeList(f, m, bound, EnumItem(Append(f, m))),
             Token("varint", f \o <<m, "size">>, Len(r[m])) \o FlattenSeq(e))
  BY <1>1, <1>2, ListAgrees
<1> QED
  BY <1>3 DEF PutList, e

LEMMA IdListAgrees ==
  ASSUME NEW f, NEW r, NEW m, NEW bound, IsList(r[m])
  PROVE  Agrees(TakeList(f, m, bound, IdItem(Append(f, m))),
                PutList(f, r, m, IdElement))
<1> DEFINE e == [i \in DOMAIN r[m] |-> IdElement(Append(f, m), r[m][i])]
<1>1. \A i \in DOMAIN r[m] : Agrees(IdItem(Append(f, m)), e[i])
  BY ElementsAgree
<1>2. e = [i \in DOMAIN r[m] |-> e[i]]
  OBVIOUS
<1> HIDE DEF e
<1>3. Agrees(TakeList(f, m, bound, IdItem(Append(f, m))),
             Token("varint", f \o <<m, "size">>, Len(r[m])) \o FlattenSeq(e))
  BY <1>1, <1>2, ListAgrees
<1> QED
  BY <1>3 DEF PutList, e

\* SharedResource_encode and read_conflict.
LEMMA ConflictAgrees ==
  ASSUME NEW f, NEW c,
         IsList(c.paths)
  PROVE  Agrees(read_conflict(f), SharedResource_encode(f, c))
<1> DEFINE i1 == TakeEnums(f, <<"kind", "relation">>)
           t1 == PutU8(f, c, "kind") \o PutU8(f, c, "relation")
           i2 == i1 \o TakeName(f, "id")
           t2 == t1 \o PutId(f, c, "id")
           i3 == i2 \o TakeList(f, "paths", max_paths_per_proof, IndexItem(Append(f, "paths")))
           t3 == t2 \o PutList(f, c, "paths", IndexElement)
<1> HIDE DEF i1, t1, i2, t2, i3, t3
<1>1. Agrees(i1, t1)
  BY EnumsAgree DEF i1, t1
<1>2. Agrees(i2, t2)
  <2>1. Agrees(TakeName(f, "id"), PutId(f, c, "id"))
    BY PrimitivesAgree
  <2> QED
    BY <1>1, <2>1, AgreesConcat DEF i2, t2
<1>3. Agrees(i3, t3)
  <2>1. Agrees(TakeList(f, "paths", max_paths_per_proof, IndexItem(Append(f, "paths"))), PutList(f, c, "paths", IndexElement))
    BY IndicesAgree
  <2> QED
    BY <1>2, <2>1, AgreesConcat DEF i3, t3
<1> QED
  BY <1>3 DEF read_conflict, SharedResource_encode, i1, t1, i2, t2, i3, t3

LEMMA ConflictListAgrees ==
  ASSUME NEW f, NEW r, NEW m, NEW bound, IsList(r[m]),
         SharedResources(r[m])
  PROVE  Agrees(TakeList(f, m, bound, read_conflict(Append(f, m))),
                PutList(f, r, m, SharedResource_encode))
<1> DEFINE e == [i \in DOMAIN r[m] |-> SharedResource_encode(Append(f, m), r[m][i])]
<1>1. \A i \in DOMAIN r[m] : Agrees(read_conflict(Append(f, m)), e[i])
  BY ConflictAgrees DEF SharedResources
<1>2. e = [i \in DOMAIN r[m] |-> e[i]]
  OBVIOUS
<1> HIDE DEF e
<1>3. Agrees(TakeList(f, m, bound, read_conflict(Append(f, m))),
             Token("varint", f \o <<m, "size">>, Len(r[m])) \o FlattenSeq(e))
  BY <1>1, <1>2, ListAgrees
<1> QED
  BY <1>3 DEF PutList, e

\* write_class and read_class.
LEMMA ClassAgrees ==
  ASSUME NEW f, NEW c,
         SharedResources(c.shared)
  PROVE  Agrees(read_class(f), write_class(f, c))
<1> DEFINE i1 == TakeEnums(f, <<"klass", "outcome">>)
           t1 == PutU8(f, c, "klass") \o PutU8(f, c, "outcome")
           i2 == i1 \o TakeBoolean(f, "evidence_complete")
           t2 == t1 \o PutBoolean(f, c, "evidence_complete")
           i3 == i2 \o TakeList(f, "shared", max_conflicts_per_proof, read_conflict(Append(f, "shared")))
           t3 == t2 \o PutList(f, c, "shared", SharedResource_encode)
           i4 == i3 \o TakeU64(f, "shared_total")
           t4 == t3 \o PutU64(f, c, "shared_total")
           i5 == i4 \o Check(f, "total covers", <<"shared_total", "shared">>, "INTERNAL_INCONSISTENCY")
           i6 == i5 \o TakeText(f, "detail", max_detail)
           t6 == t4 \o PutText(f, c, "detail")
           i7 == i6 \o Check(f, "claim", <<>>, "INCOMPLETE_EVIDENCE_CLAIM")
<1> HIDE DEF i1, t1, i2, t2, i3, t3, i4, t4, i5, i6, t6, i7
<1>1. Agrees(i1, t1)
  BY EnumsAgree DEF i1, t1
<1>2. Agrees(i2, t2)
  <2>1. Agrees(TakeBoolean(f, "evidence_complete"), PutBoolean(f, c, "evidence_complete"))
    BY FlagAgrees
  <2> QED
    BY <1>1, <2>1, AgreesConcat DEF i2, t2
<1>3. Agrees(i3, t3)
  <2>1. Agrees(TakeList(f, "shared", max_conflicts_per_proof, read_conflict(Append(f, "shared"))), PutList(f, c, "shared", SharedResource_encode))
    BY ConflictListAgrees DEF SharedResources
  <2> QED
    BY <1>2, <2>1, AgreesConcat DEF i3, t3
<1>4. Agrees(i4, t4)
  <2>1. Agrees(TakeU64(f, "shared_total"), PutU64(f, c, "shared_total"))
    BY PrimitivesAgree
  <2> QED
    BY <1>3, <2>1, AgreesConcat DEF i4, t4
<1>5. Agrees(i5, t4)
  BY <1>4, AgreesThenCheck DEF i5
<1>6. Agrees(i6, t6)
  <2>1. Agrees(TakeText(f, "detail", max_detail), PutText(f, c, "detail"))
    BY TextAgrees
  <2> QED
    BY <1>5, <2>1, AgreesConcat DEF i6, t6
<1>7. Agrees(i7, t6)
  BY <1>6, AgreesThenCheck DEF i7
<1> QED
  BY <1>7 DEF read_class, write_class, i1, t1, i2, t2, i3, t3, i4, t4, i5, i6, t6, i7

LEMMA ClassListAgrees ==
  ASSUME NEW f, NEW r, NEW m, NEW bound, IsList(r[m]),
         ClassResults(r[m])
  PROVE  Agrees(TakeList(f, m, bound, read_class(Append(f, m))),
                PutList(f, r, m, write_class))
<1> DEFINE e == [i \in DOMAIN r[m] |-> write_class(Append(f, m), r[m][i])]
<1>1. \A i \in DOMAIN r[m] : Agrees(read_class(Append(f, m)), e[i])
  BY ClassAgrees DEF ClassResults
<1>2. e = [i \in DOMAIN r[m] |-> e[i]]
  OBVIOUS
<1> HIDE DEF e
<1>3. Agrees(TakeList(f, m, bound, read_class(Append(f, m))),
             Token("varint", f \o <<m, "size">>, Len(r[m])) \o FlattenSeq(e))
  BY <1>1, <1>2, ListAgrees
<1> QED
  BY <1>3 DEF PutList, e

LEMMA CheckAgrees ==
  ASSUME NEW f, NEW test, NEW members, NEW class
  PROVE  Agrees(Check(f, test, members, class), <<>>)
BY AgreesCheck DEF Check

LEMMA AppendPath ==
  ASSUME NEW f, NEW m, IsList(f)
  PROVE  IsList(Append(f, m)) /\ f \o <<m>> = Append(f, m)
<1>1. IsList(<<m>>)
  BY SingleList
<1>2. PICK S : f \in Seq(S) /\ <<m>> \in Seq(S)
  BY <1>1, CommonType
<1>3. m \in S
  <2>1. Len(<<m>>) = 1 /\ <<m>>[1] = m
    OBVIOUS
  <2> QED
    BY <1>2, <2>1, ElementOfSeq
<1>4. f \o <<m>> = Append(f, m)
  BY <1>2, <1>3, AppendIsConcat
<1> QED
  BY <1>1, <1>4, ListConcat

LEMMA PathBindingAgrees ==
  ASSUME NEW f, NEW b
  PROVE  Agrees(TakeId(f, "path") \o TakeU64(f, "generation"), PathBinding(f, b))
<1> DEFINE i1 == TakeId(f, "path")
           t1 == PutId(f, b, "path")
           i2 == i1 \o TakeU64(f, "generation")
           t2 == t1 \o PutU64(f, b, "generation")
<1> HIDE DEF i1, t1, i2, t2
<1>1. Agrees(i1, t1)
  BY CheckedAgree DEF i1, t1
<1>2. Agrees(i2, t2)
  <2>1. Agrees(TakeU64(f, "generation"), PutU64(f, b, "generation"))
    BY PrimitivesAgree
  <2> QED
    BY <1>1, <2>1, AgreesConcat DEF i2, t2
<1> QED
  BY <1>2 DEF PathBinding, i1, t1, i2, t2

LEMMA PathBindingsAgree ==
  ASSUME NEW f, NEW r, NEW m, NEW bound, IsList(r[m])
  PROVE  Agrees(TakeList(f, m, bound, TakeId(Append(f, m), "path") \o TakeU64(Append(f, m), "generation")),
                PutList(f, r, m, PathBinding))
<1> DEFINE e == [i \in DOMAIN r[m] |-> PathBinding(Append(f, m), r[m][i])]
<1>1. \A i \in DOMAIN r[m] : Agrees(TakeId(Append(f, m), "path") \o TakeU64(Append(f, m), "generation"), e[i])
  BY PathBindingAgrees
<1>2. e = [i \in DOMAIN r[m] |-> e[i]]
  OBVIOUS
<1> HIDE DEF e
<1>3. Agrees(TakeList(f, m, bound, TakeId(Append(f, m), "path") \o TakeU64(Append(f, m), "generation")),
             Token("varint", f \o <<m, "size">>, Len(r[m])) \o FlattenSeq(e))
  BY <1>1, <1>2, ListAgrees
<1> QED
  BY <1>3 DEF PutList, e

LEMMA EntityAgrees ==
  ASSUME NEW f, NEW b
  PROVE  Agrees(TakeEnums(f, <<"kind">>) \o TakeName(f, "id"), Entity(f, b))
<1> DEFINE i1 == TakeEnums(f, <<"kind">>)
           t1 == PutU8(f, b, "kind")
           i2 == i1 \o TakeName(f, "id")
           t2 == t1 \o PutId(f, b, "id")
<1> HIDE DEF i1, t1, i2, t2
<1>1. Agrees(i1, t1)
  BY EnumsAgree DEF i1, t1
<1>2. Agrees(i2, t2)
  <2>1. Agrees(TakeName(f, "id"), PutId(f, b, "id"))
    BY PrimitivesAgree
  <2> QED
    BY <1>1, <2>1, AgreesConcat DEF i2, t2
<1> QED
  BY <1>2 DEF Entity, i1, t1, i2, t2

LEMMA EntitiesAgree ==
  ASSUME NEW f, NEW r, NEW m, NEW bound, IsList(r[m])
  PROVE  Agrees(TakeList(f, m, bound, TakeEnums(Append(f, m), <<"kind">>) \o TakeName(Append(f, m), "id")),
                PutList(f, r, m, Entity))
<1> DEFINE e == [i \in DOMAIN r[m] |-> Entity(Append(f, m), r[m][i])]
<1>1. \A i \in DOMAIN r[m] : Agrees(TakeEnums(Append(f, m), <<"kind">>) \o TakeName(Append(f, m), "id"), e[i])
  BY EntityAgrees
<1>2. e = [i \in DOMAIN r[m] |-> e[i]]
  OBVIOUS
<1> HIDE DEF e
<1>3. Agrees(TakeList(f, m, bound, TakeEnums(Append(f, m), <<"kind">>) \o TakeName(Append(f, m), "id")),
             Token("varint", f \o <<m, "size">>, Len(r[m])) \o FlattenSeq(e))
  BY <1>1, <1>2, ListAgrees
<1> QED
  BY <1>3 DEF PutList, e

\* write_dependencies and read_dependencies.
LEMMA DependenciesAgree ==
  ASSUME NEW f, NEW d,
         IsList(d.paths),
         IsList(d.topology_entities)
  PROVE  Agrees(read_dependencies(f), write_dependencies(f, d))
<1> DEFINE i1 == TakeU64(f, "policy_generation")
           t1 == PutU64(f, d, "policy_generation")
           i2 == i1 \o TakeU64(f, "topology_generation")
           t2 == t1 \o PutU64(f, d, "topology_generation")
           i3 == i2 \o TakeU64(f, "failure_domain_generation")
           t3 == t2 \o PutU64(f, d, "failure_domain_generation")
           i4 == i3 \o TakeU64(f, "epoch")
           t4 == t3 \o PutU64(f, d, "epoch")
           i5 == i4 \o TakeEnums(f, <<"endpoint_exemption">>)
           t5 == t4 \o PutU8(f, d, "endpoint_exemption")
           i6 == i5 \o TakeList(f, "paths", max_paths_per_proof,
                 TakeId(Append(f, "paths"), "path") \o TakeU64(Append(f, "paths"), "generation"))
           t6 == t5 \o PutList(f, d, "paths", PathBinding)
           i7 == i6 \o TakeList(f, "topology_entities", max_topology_dependencies,
                 TakeEnums(Append(f, "topology_entities"), <<"kind">>)
                     \o TakeName(Append(f, "topology_entities"), "id"))
           t7 == t6 \o PutList(f, d, "topology_entities", Entity)
<1> HIDE DEF i1, t1, i2, t2, i3, t3, i4, t4, i5, t5, i6, t6, i7, t7
<1>1. Agrees(i1, t1)
  BY PrimitivesAgree DEF i1, t1
<1>2. Agrees(i2, t2)
  <2>1. Agrees(TakeU64(f, "topology_generation"), PutU64(f, d, "topology_generation"))
    BY PrimitivesAgree
  <2> QED
    BY <1>1, <2>1, AgreesConcat DEF i2, t2
<1>3. Agrees(i3, t3)
  <2>1. Agrees(TakeU64(f, "failure_domain_generation"), PutU64(f, d, "failure_domain_generation"))
    BY PrimitivesAgree
  <2> QED
    BY <1>2, <2>1, AgreesConcat DEF i3, t3
<1>4. Agrees(i4, t4)
  <2>1. Agrees(TakeU64(f, "epoch"), PutU64(f, d, "epoch"))
    BY PrimitivesAgree
  <2> QED
    BY <1>3, <2>1, AgreesConcat DEF i4, t4
<1>5. Agrees(i5, t5)
  <2>1. Agrees(TakeEnums(f, <<"endpoint_exemption">>), PutU8(f, d, "endpoint_exemption"))
    BY EnumsAgree
  <2> QED
    BY <1>4, <2>1, AgreesConcat DEF i5, t5
<1>6. Agrees(i6, t6)
  <2>1. Agrees(TakeList(f, "paths", max_paths_per_proof,
                 TakeId(Append(f, "paths"), "path") \o TakeU64(Append(f, "paths"), "generation")), PutList(f, d, "paths", PathBinding))
    BY PathBindingsAgree
  <2> QED
    BY <1>5, <2>1, AgreesConcat DEF i6, t6
<1>7. Agrees(i7, t7)
  <2>1. Agrees(TakeList(f, "topology_entities", max_topology_dependencies,
                 TakeEnums(Append(f, "topology_entities"), <<"kind">>)
                     \o TakeName(Append(f, "topology_entities"), "id")), PutList(f, d, "topology_entities", Entity))
    BY EntitiesAgree
  <2> QED
    BY <1>6, <2>1, AgreesConcat DEF i7, t7
<1> QED
  BY <1>7 DEF read_dependencies, write_dependencies, i1, t1, i2, t2, i3, t3, i4, t4, i5, t5, i6, t6, i7, t7

\* write_witness and read_witness.
LEMMA WitnessAgrees ==
  ASSUME NEW f, NEW v,
         IsList(v.indices)
  PROVE  Agrees(read_witness(f), write_witness(f, v))
<1> DEFINE i1 == TakeBoolean(f, "present")
           t1 == PutBoolean(f, v, "present")
           i2 == i1 \o TakeVarint(f, "requested_k")
           t2 == t1 \o PutVarint(f, v, "requested_k")
           i3 == i2 \o TakeVarint(f, "achieved")
           t3 == t2 \o PutVarint(f, v, "achieved")
           i4 == i3 \o TakeBoolean(f, "maximum_exact")
           t4 == t3 \o PutBoolean(f, v, "maximum_exact")
           i5 == i4 \o Check(f, "fits u32", <<"requested_k", "achieved">>, "ARITHMETIC_OVERFLOW")
           i6 == i5 \o TakeList(f, "indices", max_paths_per_proof, IndexItem(Append(f, "indices")))
           t6 == t4 \o PutList(f, v, "indices", IndexElement)
           i7 == i6 \o Check(f, "names enough", <<>>, "INVALID_WITNESS")
           i8 == i7 \o Check(f, "ascending", <<>>, "INVALID_WITNESS")
<1> HIDE DEF i1, t1, i2, t2, i3, t3, i4, t4, i5, i6, t6, i7, i8
<1>1. Agrees(i1, t1)
  BY FlagAgrees DEF i1, t1
<1>2. Agrees(i2, t2)
  <2>1. Agrees(TakeVarint(f, "requested_k"), PutVarint(f, v, "requested_k"))
    BY PrimitivesAgree
  <2> QED
    BY <1>1, <2>1, AgreesConcat DEF i2, t2
<1>3. Agrees(i3, t3)
  <2>1. Agrees(TakeVarint(f, "achieved"), PutVarint(f, v, "achieved"))
    BY PrimitivesAgree
  <2> QED
    BY <1>2, <2>1, AgreesConcat DEF i3, t3
<1>4. Agrees(i4, t4)
  <2>1. Agrees(TakeBoolean(f, "maximum_exact"), PutBoolean(f, v, "maximum_exact"))
    BY FlagAgrees
  <2> QED
    BY <1>3, <2>1, AgreesConcat DEF i4, t4
<1>5. Agrees(i5, t4)
  BY <1>4, AgreesThenCheck DEF i5
<1>6. Agrees(i6, t6)
  <2>1. Agrees(TakeList(f, "indices", max_paths_per_proof, IndexItem(Append(f, "indices"))), PutList(f, v, "indices", IndexElement))
    BY IndicesAgree
  <2> QED
    BY <1>5, <2>1, AgreesConcat DEF i6, t6
<1>7. Agrees(i7, t6)
  BY <1>6, AgreesThenCheck DEF i7
<1>8. Agrees(i8, t6)
  BY <1>7, AgreesThenCheck DEF i8
<1> QED
  BY <1>8 DEF read_witness, write_witness, i1, t1, i2, t2, i3, t3, i4, t4, i5, i6, t6, i7, i8

\* encode_policy and decode_policy.
LEMMA PolicyAgrees ==
  ASSUME NEW f, NEW p,
         IsList(p.required_classes),
         IsList(p.allowed_failure_domain_relations)
  PROVE  Agrees(decode_policy(f), encode_policy(f, p))
<1> DEFINE i1 == TakeId(f, "id")
           t1 == PutId(f, p, "id")
           i2 == i1 \o TakeU64(f, "generation")
           t2 == t1 \o PutU64(f, p, "generation")
           i3 == i2 \o TakeId(f, "scope")
           t3 == t2 \o PutId(f, p, "scope")
           i4 == i3 \o TakeList(f, "required_classes", max_required_classes, EnumItem(Append(f, "required_classes")))
           t4 == t3 \o PutList(f, p, "required_classes", EnumElement)
           i5 == i4 \o TakeEnums(f, <<"endpoint_exemption">>)
           t5 == t4 \o PutU8(f, p, "endpoint_exemption")
           i6 == i5 \o TakeU32(f, "minimum_independent_paths")
           t6 == t5 \o PutVarint(f, p, "minimum_independent_paths")
           i7 == i6 \o TakeEnums(f, <<"semantics", "completeness", "unknown_behavior">>)
           t7 == ((t6 \o PutU8(f, p, "semantics")) \o PutU8(f, p, "completeness")) \o PutU8(f, p, "unknown_behavior")
           i8 == i7 \o TakeList(f, "allowed_failure_domain_relations", 8, EnumItem(Append(f, "allowed_failure_domain_relations")))
           t8 == t7 \o PutList(f, p, "allowed_failure_domain_relations", EnumElement)
           i9 == i8 \o TakeBoolean(f, "require_path_authority_current")
           t9 == t8 \o PutBoolean(f, p, "require_path_authority_current")
           i10 == i9 \o TakeText(f, "description", max_detail)
           t10 == t9 \o PutText(f, p, "description")
           i11 == i10 \o Check(f, "set", <<"generation">>, "IMPOSSIBLE_GENERATION")
           i12 == i11 \o Check(f, "valid policy", <<>>, "INVALID_ENUM")
<1> HIDE DEF i1, t1, i2, t2, i3, t3, i4, t4, i5, t5, i6, t6, i7, t7, i8, t8, i9, t9, i10, t10, i11, i12
<1>1. Agrees(i1, t1)
  BY CheckedAgree DEF i1, t1
<1>2. Agrees(i2, t2)
  <2>1. Agrees(TakeU64(f, "generation"), PutU64(f, p, "generation"))
    BY PrimitivesAgree
  <2> QED
    BY <1>1, <2>1, AgreesConcat DEF i2, t2
<1>3. Agrees(i3, t3)
  <2>1. Agrees(TakeId(f, "scope"), PutId(f, p, "scope"))
    BY CheckedAgree
  <2> QED
    BY <1>2, <2>1, AgreesConcat DEF i3, t3
<1>4. Agrees(i4, t4)
  <2>1. Agrees(TakeList(f, "required_classes", max_required_classes, EnumItem(Append(f, "required_classes"))), PutList(f, p, "required_classes", EnumElement))
    BY EnumListAgrees
  <2> QED
    BY <1>3, <2>1, AgreesConcat DEF i4, t4
<1>5. Agrees(i5, t5)
  <2>1. Agrees(TakeEnums(f, <<"endpoint_exemption">>), PutU8(f, p, "endpoint_exemption"))
    BY EnumsAgree
  <2> QED
    BY <1>4, <2>1, AgreesConcat DEF i5, t5
<1>6. Agrees(i6, t6)
  <2>1. Agrees(TakeU32(f, "minimum_independent_paths"), PutVarint(f, p, "minimum_independent_paths"))
    BY CheckedAgree
  <2> QED
    BY <1>5, <2>1, AgreesConcat DEF i6, t6
<1>7. Agrees(i7, t7)
  <2>1. Agrees(TakeEnums(f, <<"semantics", "completeness", "unknown_behavior">>), (PutU8(f, p, "semantics") \o PutU8(f, p, "completeness")) \o PutU8(f, p, "unknown_behavior"))
    BY EnumsAgree
  <2>2. IsList(PutU8(f, p, "semantics")) /\ IsList(PutU8(f, p, "completeness")) /\ IsList(PutU8(f, p, "unknown_behavior"))
    BY PutList1
  <2> QED
    BY <1>6, <2>1, <2>2, AgreesConcatTriple DEF i7, t7
<1>8. Agrees(i8, t8)
  <2>1. Agrees(TakeList(f, "allowed_failure_domain_relations", 8, EnumItem(Append(f, "allowed_failure_domain_relations"))), PutList(f, p, "allowed_failure_domain_relations", EnumElement))
    BY EnumListAgrees
  <2> QED
    BY <1>7, <2>1, AgreesConcat DEF i8, t8
<1>9. Agrees(i9, t9)
  <2>1. Agrees(TakeBoolean(f, "require_path_authority_current"), PutBoolean(f, p, "require_path_authority_current"))
    BY FlagAgrees
  <2> QED
    BY <1>8, <2>1, AgreesConcat DEF i9, t9
<1>10. Agrees(i10, t10)
  <2>1. Agrees(TakeText(f, "description", max_detail), PutText(f, p, "description"))
    BY TextAgrees
  <2> QED
    BY <1>9, <2>1, AgreesConcat DEF i10, t10
<1>11. Agrees(i11, t10)
  BY <1>10, AgreesThenCheck DEF i11
<1>12. Agrees(i12, t10)
  BY <1>11, AgreesThenCheck DEF i12
<1> QED
  BY <1>12 DEF decode_policy, encode_policy, i1, t1, i2, t2, i3, t3, i4, t4, i5, t5, i6, t6, i7, t7, i8, t8, i9, t9, i10, t10, i11, i12

LEMMA PathReferenceAgrees ==
  ASSUME NEW f, NEW b
  PROVE  Agrees(TakeId(f, "path") \o TakeU64(f, "authority_generation"), PathReference(f, b))
<1> DEFINE i1 == TakeId(f, "path")
           t1 == PutId(f, b, "path")
           i2 == i1 \o TakeU64(f, "authority_generation")
           t2 == t1 \o PutU64(f, b, "authority_generation")
<1> HIDE DEF i1, t1, i2, t2
<1>1. Agrees(i1, t1)
  BY CheckedAgree DEF i1, t1
<1>2. Agrees(i2, t2)
  <2>1. Agrees(TakeU64(f, "authority_generation"), PutU64(f, b, "authority_generation"))
    BY PrimitivesAgree
  <2> QED
    BY <1>1, <2>1, AgreesConcat DEF i2, t2
<1> QED
  BY <1>2 DEF PathReference, i1, t1, i2, t2

LEMMA PathReferencesAgree ==
  ASSUME NEW f, NEW r, NEW m, NEW bound, IsList(r[m])
  PROVE  Agrees(TakeList(f, m, bound, TakeId(Append(f, m), "path") \o TakeU64(Append(f, m), "authority_generation")),
                PutList(f, r, m, PathReference))
<1> DEFINE e == [i \in DOMAIN r[m] |-> PathReference(Append(f, m), r[m][i])]
<1>1. \A i \in DOMAIN r[m] : Agrees(TakeId(Append(f, m), "path") \o TakeU64(Append(f, m), "authority_generation"), e[i])
  BY PathReferenceAgrees
<1>2. e = [i \in DOMAIN r[m] |-> e[i]]
  OBVIOUS
<1> HIDE DEF e
<1>3. Agrees(TakeList(f, m, bound, TakeId(Append(f, m), "path") \o TakeU64(Append(f, m), "authority_generation")),
             Token("varint", f \o <<m, "size">>, Len(r[m])) \o FlattenSeq(e))
  BY <1>1, <1>2, ListAgrees
<1> QED
  BY <1>3 DEF PutList, e

LEMMA LimitAgrees ==
  ASSUME NEW f, NEW b
  PROVE  Agrees((TakeEnums(f, <<"bound">>) \o TakeU64(f, "observed")) \o TakeU64(f, "allowed"), LimitNotice(f, b))
<1> DEFINE i1 == TakeEnums(f, <<"bound">>)
           t1 == PutU8(f, b, "bound")
           i2 == i1 \o TakeU64(f, "observed")
           t2 == t1 \o PutU64(f, b, "observed")
           i3 == i2 \o TakeU64(f, "allowed")
           t3 == t2 \o PutU64(f, b, "allowed")
<1> HIDE DEF i1, t1, i2, t2, i3, t3
<1>1. Agrees(i1, t1)
  BY EnumsAgree DEF i1, t1
<1>2. Agrees(i2, t2)
  <2>1. Agrees(TakeU64(f, "observed"), PutU64(f, b, "observed"))
    BY PrimitivesAgree
  <2> QED
    BY <1>1, <2>1, AgreesConcat DEF i2, t2
<1>3. Agrees(i3, t3)
  <2>1. Agrees(TakeU64(f, "allowed"), PutU64(f, b, "allowed"))
    BY PrimitivesAgree
  <2> QED
    BY <1>2, <2>1, AgreesConcat DEF i3, t3
<1> QED
  BY <1>3 DEF LimitNotice, i1, t1, i2, t2, i3, t3

LEMMA OptionalLimitAgrees ==
  ASSUME NEW f, NEW r, NEW m, IsList(r[m]),
         Len(r[m]) <= 1
  PROVE  Agrees(TakeOptional(f, m, (TakeEnums(Append(f, m), <<"bound">>) \o TakeU64(Append(f, m), "observed")) \o TakeU64(Append(f, m), "allowed")),
                PutOptional(f, r, m, LimitNotice))
<1> DEFINE e == [i \in DOMAIN r[m] |-> LimitNotice(Append(f, m), r[m][i])]
<1>1. \A i \in DOMAIN r[m] : Agrees((TakeEnums(Append(f, m), <<"bound">>) \o TakeU64(Append(f, m), "observed")) \o TakeU64(Append(f, m), "allowed"), e[i])
  BY LimitAgrees
<1>2. e = [i \in DOMAIN r[m] |-> e[i]]
  OBVIOUS
<1> HIDE DEF e
<1>3. Agrees(TakeOptional(f, m, (TakeEnums(Append(f, m), <<"bound">>) \o TakeU64(Append(f, m), "observed")) \o TakeU64(Append(f, m), "allowed")),
             Token("boolean", f \o <<m, "present">>, Bit(r[m] # <<>>)) \o FlattenSeq(e))
  BY <1>1, <1>2, OptionalAgrees
<1> QED
  BY <1>3 DEF PutOptional, e

LEMMA OptionalConflictAgrees ==
  ASSUME NEW f, NEW r, NEW m, IsList(r[m]),
         SharedResources(r[m]),
         Len(r[m]) <= 1
  PROVE  Agrees(TakeOptional(f, m, read_conflict(Append(f, m))),
                PutOptional(f, r, m, SharedResource_encode))
<1> DEFINE e == [i \in DOMAIN r[m] |-> SharedResource_encode(Append(f, m), r[m][i])]
<1>1. \A i \in DOMAIN r[m] : Agrees(read_conflict(Append(f, m)), e[i])
  BY ConflictAgrees DEF SharedResources
<1>2. e = [i \in DOMAIN r[m] |-> e[i]]
  OBVIOUS
<1> HIDE DEF e
<1>3. Agrees(TakeOptional(f, m, read_conflict(Append(f, m))),
             Token("boolean", f \o <<m, "present">>, Bit(r[m] # <<>>)) \o FlattenSeq(e))
  BY <1>1, <1>2, OptionalAgrees
<1> QED
  BY <1>3 DEF PutOptional, e

\* A cell of the matrix.
LEMMA CellAgrees ==
  ASSUME NEW f, NEW c,
         ClassResults(c.classes),
         SharedResources(c.primary_conflict),
         Len(c.primary_conflict) <= 1
  PROVE  Agrees(read_cell(f), Cell(f, c))
<1> DEFINE i1 == TakeVarint(f, "left")
           t1 == PutVarint(f, c, "left")
           i2 == i1 \o TakeVarint(f, "right")
           t2 == t1 \o PutVarint(f, c, "right")
           i3 == i2 \o Check(f, "cell known", <<>>, "UNKNOWN_REFERENCE")
           i4 == i3 \o Check(f, "cell above diagonal", <<>>, "INTERNAL_INCONSISTENCY")
           i5 == i4 \o TakeBoolean(f, "independent")
           t5 == t2 \o PutBoolean(f, c, "independent")
           i6 == i5 \o TakeBoolean(f, "evidence_complete")
           t6 == t5 \o PutBoolean(f, c, "evidence_complete")
           i7 == i6 \o TakeList(f, "classes", max_required_classes, read_class(Append(f, "classes")))
           t7 == t6 \o PutList(f, c, "classes", write_class)
           i8 == i7 \o TakeOptional(f, "primary_conflict", read_conflict(Append(f, "primary_conflict")))
           t8 == t7 \o PutOptional(f, c, "primary_conflict", SharedResource_encode)
<1> HIDE DEF i1, t1, i2, t2, i3, i4, i5, t5, i6, t6, i7, t7, i8, t8
<1>1. Agrees(i1, t1)
  BY PrimitivesAgree DEF i1, t1
<1>2. Agrees(i2, t2)
  <2>1. Agrees(TakeVarint(f, "right"), PutVarint(f, c, "right"))
    BY PrimitivesAgree
  <2> QED
    BY <1>1, <2>1, AgreesConcat DEF i2, t2
<1>3. Agrees(i3, t2)
  BY <1>2, AgreesThenCheck DEF i3
<1>4. Agrees(i4, t2)
  BY <1>3, AgreesThenCheck DEF i4
<1>5. Agrees(i5, t5)
  <2>1. Agrees(TakeBoolean(f, "independent"), PutBoolean(f, c, "independent"))
    BY FlagAgrees
  <2> QED
    BY <1>4, <2>1, AgreesConcat DEF i5, t5
<1>6. Agrees(i6, t6)
  <2>1. Agrees(TakeBoolean(f, "evidence_complete"), PutBoolean(f, c, "evidence_complete"))
    BY FlagAgrees
  <2> QED
    BY <1>5, <2>1, AgreesConcat DEF i6, t6
<1>7. Agrees(i7, t7)
  <2>1. Agrees(TakeList(f, "classes", max_required_classes, read_class(Append(f, "classes"))), PutList(f, c, "classes", write_class))
    BY ClassListAgrees DEF ClassResults
  <2> QED
    BY <1>6, <2>1, AgreesConcat DEF i7, t7
<1>8. Agrees(i8, t8)
  <2>1. Agrees(TakeOptional(f, "primary_conflict", read_conflict(Append(f, "primary_conflict"))), PutOptional(f, c, "primary_conflict", SharedResource_encode))
    BY OptionalConflictAgrees DEF SharedResources
  <2> QED
    BY <1>7, <2>1, AgreesConcat DEF i8, t8
<1> QED
  BY <1>8 DEF read_cell, Cell, i1, t1, i2, t2, i3, i4, i5, t5, i6, t6, i7, t7, i8, t8

LEMMA CellsAgree ==
  ASSUME NEW f, NEW r, NEW m, NEW bound, IsList(r[m]),
         Cells(r[m])
  PROVE  Agrees(TakeCounted(f, m, bound, Unclassified,
                            Check(f, "cell count", <<>>, "MATRIX_DIMENSION_MISMATCH"), read_cell(Append(f, m))),
                PutList(f, r, m, Cell))
<1> DEFINE e == [i \in DOMAIN r[m] |-> Cell(Append(f, m), r[m][i])]
<1>1. \A i \in DOMAIN r[m] : Agrees(read_cell(Append(f, m)), e[i])
  BY CellAgrees DEF Cells
<1>2. e = [i \in DOMAIN r[m] |-> e[i]]
  OBVIOUS
<1> HIDE DEF e
<1>3. Agrees(TakeCounted(f, m, bound, Unclassified,
                            Check(f, "cell count", <<>>, "MATRIX_DIMENSION_MISMATCH"), read_cell(Append(f, m))),
             Token("varint", f \o <<m, "size">>, Len(r[m])) \o FlattenSeq(e))
  BY <1>1, <1>2, CountedAgrees, AgreesEmpty, CheckAgrees
<1> QED
  BY <1>3 DEF PutList, e

\* A proof is an evaluation of a request.
Committed(p) == Evaluated(p) /\ IsList(p.request.paths)

\* encode_proof, and decode_proof up to the end of the record.
LEMMA TakeProofAgrees ==
  ASSUME NEW f, NEW p,
         IsList(f),
         Committed(p)
  PROVE  Agrees(take_proof(f), encode_proof(f, p))
<1> DEFINE i1 == TakeId(f, "id")
           t1 == PutId(f, p, "id")
           i2 == i1 \o TakeU64(f, "generation")
           t2 == t1 \o PutU64(f, p, "generation")
           i3 == i2 \o TakeId(Append(f, "request"), "policy")
           t3 == t2 \o PutId(Append(f, "request"), p.request, "policy")
           i4 == i3 \o TakeU64(Append(f, "request"), "policy_generation")
           t4 == t3 \o PutU64(Append(f, "request"), p.request, "policy_generation")
           i5 == i4 \o TakeList(Append(f, "request"), "paths", max_paths_per_proof,
                 TakeId(Append(f, "request") \o <<"paths">>, "path")
                     \o TakeU64(Append(f, "request") \o <<"paths">>, "authority_generation"))
           t5 == t4 \o PutList(Append(f, "request"), p.request, "paths", PathReference)
           i6 == i5 \o TakeDigest(f, "request_digest")
           t6 == t5 \o PutDigest(f, p, "request_digest")
           i7 == i6 \o TakeDigest(f, "semantic_digest")
           t7 == t6 \o PutDigest(f, p, "semantic_digest")
           i8 == i7 \o TakeEnums(f, <<"outcome">>)
           t8 == t7 \o PutU8(f, p, "outcome")
           i9 == i8 \o TakeText(f, "detail", max_detail)
           t9 == t8 \o PutText(f, p, "detail")
           i10 == i9 \o TakeOptional(f, "limit", TakeEnums(Append(f, "limit"), <<"bound">>) \o TakeU64(Append(f, "limit"), "observed")
                                    \o TakeU64(Append(f, "limit"), "allowed"))
           t10 == t9 \o PutOptional(f, p, "limit", LimitNotice)
           i11 == i10 \o TakeList(f, "classes", max_required_classes, read_class(Append(f, "classes")))
           t11 == t10 \o PutList(f, p, "classes", write_class)
           i12 == i11 \o TakeList(f, "advisories", max_required_classes, read_class(Append(f, "advisories")))
           t12 == t11 \o PutList(f, p, "advisories", write_class)
           i13 == i12 \o TakeList(f, "conflicts", max_conflicts_per_proof, read_conflict(Append(f, "conflicts")))
           t13 == t12 \o PutList(f, p, "conflicts", SharedResource_encode)
           i14 == i13 \o TakeU64(f, "conflicts_total")
           t14 == t13 \o PutU64(f, p, "conflicts_total")
           i15 == i14 \o Check(f, "total covers", <<"conflicts_total", "conflicts">>, "INTERNAL_INCONSISTENCY")
           i16 == i15 \o TakeList(Append(f, "matrix"), "order", max_paths_per_proof, IdItem(Append(Append(f, "matrix"), "order")))
           t16 == t14 \o PutList(Append(f, "matrix"), p.matrix, "order", IdElement)
           i17 == i16 \o TakeCounted(Append(f, "matrix"), "cells", max_pairwise_cells, Unclassified,
                 Check(Append(f, "matrix"), "cell count", <<>>, "MATRIX_DIMENSION_MISMATCH"),
                 read_cell(Append(Append(f, "matrix"), "cells")))
           t17 == t16 \o PutList(Append(f, "matrix"), p.matrix, "cells", Cell)
           i18 == i17 \o read_witness(Append(f, "witness"))
           t18 == t17 \o write_witness(Append(f, "witness"), p.witness)
           i19 == i18 \o read_dependencies(Append(f, "dependencies"))
           t19 == t18 \o write_dependencies(Append(f, "dependencies"), p.dependencies)
           i20 == i19 \o TakeU64(Append(f, "provenance"), "epoch")
           t20 == t19 \o PutU64(Append(f, "provenance"), p.provenance, "epoch")
           i21 == i20 \o TakeId(Append(f, "provenance"), "publisher")
           t21 == t20 \o PutId(Append(f, "provenance"), p.provenance, "publisher")
           i22 == i21 \o TakeId(Append(f, "provenance"), "boot")
           t22 == t21 \o PutId(Append(f, "provenance"), p.provenance, "boot")
           i23 == i22 \o TakeId(Append(f, "provenance"), "attempt")
           t23 == t22 \o PutId(Append(f, "provenance"), p.provenance, "attempt")
           i24 == i23 \o TakeEnums(f, <<"lifecycle", "currentness">>)
           t24 == (t23 \o PutU8(f, p, "lifecycle")) \o PutU8(f, p, "currentness")
<1>1. Append(f, "request") \o <<"paths">> = Append(Append(f, "request"), "paths")
  BY AppendPath
<1>2. /\ IsList(p.request.paths) /\ IsList(p.limit) /\ Len(p.limit) <= 1
      /\ ClassResults(p.classes) /\ ClassResults(p.advisories) /\ SharedResources(p.conflicts)
      /\ IsList(p.matrix.order) /\ Cells(p.matrix.cells) /\ IsList(p.witness.indices)
      /\ IsList(p.dependencies.paths) /\ IsList(p.dependencies.topology_entities)
  BY DEF Committed, Evaluated
<1> HIDE DEF i1, t1, i2, t2, i3, t3, i4, t4, i5, t5, i6, t6, i7, t7, i8, t8, i9, t9, i10, t10, i11, t11, i12, t12, i13, t13, i14, t14, i15, i16, t16, i17, t17, i18, t18, i19, t19, i20, t20, i21, t21, i22, t22, i23, t23, i24, t24
<1>3. Agrees(i1, t1)
  BY CheckedAgree DEF i1, t1
<1>4. Agrees(i2, t2)
  <2>1. Agrees(TakeU64(f, "generation"), PutU64(f, p, "generation"))
    BY PrimitivesAgree
  <2> QED
    BY <1>3, <2>1, AgreesConcat DEF i2, t2
<1>5. Agrees(i3, t3)
  <2>1. Agrees(TakeId(Append(f, "request"), "policy"), PutId(Append(f, "request"), p.request, "policy"))
    BY CheckedAgree
  <2> QED
    BY <1>4, <2>1, AgreesConcat DEF i3, t3
<1>6. Agrees(i4, t4)
  <2>1. Agrees(TakeU64(Append(f, "request"), "policy_generation"), PutU64(Append(f, "request"), p.request, "policy_generation"))
    BY PrimitivesAgree
  <2> QED
    BY <1>5, <2>1, AgreesConcat DEF i4, t4
<1>7. Agrees(i5, t5)
  <2>1. Agrees(TakeList(Append(f, "request"), "paths", max_paths_per_proof,
                 TakeId(Append(f, "request") \o <<"paths">>, "path")
                     \o TakeU64(Append(f, "request") \o <<"paths">>, "authority_generation")), PutList(Append(f, "request"), p.request, "paths", PathReference))
    BY <1>1, <1>2, PathReferencesAgree
  <2> QED
    BY <1>6, <2>1, AgreesConcat DEF i5, t5
<1>8. Agrees(i6, t6)
  <2>1. Agrees(TakeDigest(f, "request_digest"), PutDigest(f, p, "request_digest"))
    BY PrimitivesAgree
  <2> QED
    BY <1>7, <2>1, AgreesConcat DEF i6, t6
<1>9. Agrees(i7, t7)
  <2>1. Agrees(TakeDigest(f, "semantic_digest"), PutDigest(f, p, "semantic_digest"))
    BY PrimitivesAgree
  <2> QED
    BY <1>8, <2>1, AgreesConcat DEF i7, t7
<1>10. Agrees(i8, t8)
  <2>1. Agrees(TakeEnums(f, <<"outcome">>), PutU8(f, p, "outcome"))
    BY EnumsAgree
  <2> QED
    BY <1>9, <2>1, AgreesConcat DEF i8, t8
<1>11. Agrees(i9, t9)
  <2>1. Agrees(TakeText(f, "detail", max_detail), PutText(f, p, "detail"))
    BY TextAgrees
  <2> QED
    BY <1>10, <2>1, AgreesConcat DEF i9, t9
<1>12. Agrees(i10, t10)
  <2>1. Agrees(TakeOptional(f, "limit", TakeEnums(Append(f, "limit"), <<"bound">>) \o TakeU64(Append(f, "limit"), "observed")
                                    \o TakeU64(Append(f, "limit"), "allowed")), PutOptional(f, p, "limit", LimitNotice))
    BY <1>2, OptionalLimitAgrees
  <2> QED
    BY <1>11, <2>1, AgreesConcat DEF i10, t10
<1>13. Agrees(i11, t11)
  <2>1. Agrees(TakeList(f, "classes", max_required_classes, read_class(Append(f, "classes"))), PutList(f, p, "classes", write_class))
    BY <1>2, ClassListAgrees DEF ClassResults
  <2> QED
    BY <1>12, <2>1, AgreesConcat DEF i11, t11
<1>14. Agrees(i12, t12)
  <2>1. Agrees(TakeList(f, "advisories", max_required_classes, read_class(Append(f, "advisories"))), PutList(f, p, "advisories", write_class))
    BY <1>2, ClassListAgrees DEF ClassResults
  <2> QED
    BY <1>13, <2>1, AgreesConcat DEF i12, t12
<1>15. Agrees(i13, t13)
  <2>1. Agrees(TakeList(f, "conflicts", max_conflicts_per_proof, read_conflict(Append(f, "conflicts"))), PutList(f, p, "conflicts", SharedResource_encode))
    BY <1>2, ConflictListAgrees DEF SharedResources
  <2> QED
    BY <1>14, <2>1, AgreesConcat DEF i13, t13
<1>16. Agrees(i14, t14)
  <2>1. Agrees(TakeU64(f, "conflicts_total"), PutU64(f, p, "conflicts_total"))
    BY PrimitivesAgree
  <2> QED
    BY <1>15, <2>1, AgreesConcat DEF i14, t14
<1>17. Agrees(i15, t14)
  BY <1>16, AgreesThenCheck DEF i15
<1>18. Agrees(i16, t16)
  <2>1. Agrees(TakeList(Append(f, "matrix"), "order", max_paths_per_proof, IdItem(Append(Append(f, "matrix"), "order"))), PutList(Append(f, "matrix"), p.matrix, "order", IdElement))
    BY <1>2, IdListAgrees
  <2> QED
    BY <1>17, <2>1, AgreesConcat DEF i16, t16
<1>19. Agrees(i17, t17)
  <2>1. Agrees(TakeCounted(Append(f, "matrix"), "cells", max_pairwise_cells, Unclassified,
                 Check(Append(f, "matrix"), "cell count", <<>>, "MATRIX_DIMENSION_MISMATCH"),
                 read_cell(Append(Append(f, "matrix"), "cells"))), PutList(Append(f, "matrix"), p.matrix, "cells", Cell))
    BY <1>2, CellsAgree DEF Cells
  <2> QED
    BY <1>18, <2>1, AgreesConcat DEF i17, t17
<1>20. Agrees(i18, t18)
  <2>1. Agrees(read_witness(Append(f, "witness")), write_witness(Append(f, "witness"), p.witness))
    BY <1>2, WitnessAgrees
  <2> QED
    BY <1>19, <2>1, AgreesConcat DEF i18, t18
<1>21. Agrees(i19, t19)
  <2>1. Agrees(read_dependencies(Append(f, "dependencies")), write_dependencies(Append(f, "dependencies"), p.dependencies))
    BY <1>2, DependenciesAgree
  <2> QED
    BY <1>20, <2>1, AgreesConcat DEF i19, t19
<1>22. Agrees(i20, t20)
  <2>1. Agrees(TakeU64(Append(f, "provenance"), "epoch"), PutU64(Append(f, "provenance"), p.provenance, "epoch"))
    BY PrimitivesAgree
  <2> QED
    BY <1>21, <2>1, AgreesConcat DEF i20, t20
<1>23. Agrees(i21, t21)
  <2>1. Agrees(TakeId(Append(f, "provenance"), "publisher"), PutId(Append(f, "provenance"), p.provenance, "publisher"))
    BY CheckedAgree
  <2> QED
    BY <1>22, <2>1, AgreesConcat DEF i21, t21
<1>24. Agrees(i22, t22)
  <2>1. Agrees(TakeId(Append(f, "provenance"), "boot"), PutId(Append(f, "provenance"), p.provenance, "boot"))
    BY CheckedAgree
  <2> QED
    BY <1>23, <2>1, AgreesConcat DEF i22, t22
<1>25. Agrees(i23, t23)
  <2>1. Agrees(TakeId(Append(f, "provenance"), "attempt"), PutId(Append(f, "provenance"), p.provenance, "attempt"))
    BY CheckedAgree
  <2> QED
    BY <1>24, <2>1, AgreesConcat DEF i23, t23
<1>26. Agrees(i24, t24)
  <2>1. Agrees(TakeEnums(f, <<"lifecycle", "currentness">>), PutU8(f, p, "lifecycle") \o PutU8(f, p, "currentness"))
    BY EnumsAgree
  <2>2. IsList(PutU8(f, p, "lifecycle")) /\ IsList(PutU8(f, p, "currentness"))
    BY PutList1
  <2> QED
    BY <1>25, <2>1, <2>2, AgreesConcatPair DEF i24, t24
<1> QED
  BY <1>26 DEF take_proof, encode_proof, i1, t1, i2, t2, i3, t3, i4, t4, i5, t5, i6, t6, i7, t7, i8, t8, i9, t9, i10, t10, i11, t11, i12, t12, i13, t13, i14, t14, i15, i16, t16, i17, t17, i18, t18, i19, t19, i20, t20, i21, t21, i22, t22, i23, t23, i24, t24

LEMMA ValidateAgrees ==
  ASSUME NEW f
  PROVE  Agrees(validate_proof(f), <<>>)
<1> DEFINE c1 == Check(f, "paths distinct", <<>>, "DUPLICATE_PATH")
           c2 == c1 \o Check(f, "order of paths", <<>>, "MATRIX_DIMENSION_MISMATCH")
           c3 == c2 \o Check(f, "indices known", <<>>, "UNKNOWN_REFERENCE")
           c4 == c3 \o Check(f, "proven claim", <<>>, "INCOMPLETE_EVIDENCE_CLAIM")
           c5 == c4 \o Check(f, "witness known", <<>>, "INVALID_WITNESS")
           c6 == c5 \o Check(f, "current binds generations", <<>>, "IMPOSSIBLE_GENERATION")
<1> HIDE DEF c1, c2, c3, c4, c5, c6
<1>1. Agrees(c1, <<>>)
  BY CheckAgrees DEF c1
<1>2. Agrees(c2, <<>>)
  BY <1>1, AgreesThenCheck DEF c2
<1>3. Agrees(c3, <<>>)
  BY <1>2, AgreesThenCheck DEF c3
<1>4. Agrees(c4, <<>>)
  BY <1>3, AgreesThenCheck DEF c4
<1>5. Agrees(c5, <<>>)
  BY <1>4, AgreesThenCheck DEF c5
<1>6. Agrees(c6, <<>>)
  BY <1>5, AgreesThenCheck DEF c6
<1> QED
  BY <1>6 DEF validate_proof, c1, c2, c3, c4, c5, c6

LEMMA ProofAgrees ==
  ASSUME NEW f, NEW p, IsList(f), Committed(p)
  PROVE  Agrees(decode_proof(f), encode_proof(f, p))
<1>1. Agrees(take_proof(f), encode_proof(f, p))
  BY TakeProofAgrees
<1>2. Agrees(take_proof(f) \o validate_proof(f), encode_proof(f, p) \o <<>>)
  BY <1>1, ValidateAgrees, AgreesConcat
<1>3. encode_proof(f, p) \o <<>> = encode_proof(f, p)
  BY <1>1, AgreesStep, ListConcat
<1> QED
  BY <1>2, <1>3 DEF decode_proof

LEMMA ProofListAgrees ==
  ASSUME NEW f, NEW r, NEW m, NEW bound, NEW class, IsList(r[m]),
         IsList(f),
         \A i \in DOMAIN r[m] : Committed(r[m][i])
  PROVE  Agrees(TakeCounted(f, m, bound, class, <<>>, decode_proof(Append(f, m))),
                PutList(f, r, m, encode_proof))
<1> DEFINE e == [i \in DOMAIN r[m] |-> encode_proof(Append(f, m), r[m][i])]
<1>1. \A i \in DOMAIN r[m] : Agrees(decode_proof(Append(f, m)), e[i])
  BY AppendPath, ProofAgrees
<1>2. e = [i \in DOMAIN r[m] |-> e[i]]
  OBVIOUS
<1> HIDE DEF e
<1>3. Agrees(TakeCounted(f, m, bound, class, <<>>, decode_proof(Append(f, m))),
             Token("varint", f \o <<m, "size">>, Len(r[m])) \o FlattenSeq(e))
  BY <1>1, <1>2, CountedAgrees, AgreesEmpty, CheckAgrees
<1> QED
  BY <1>3 DEF PutList, e

-----------------------------------------------------------------------------
(* Snapshots, persistence_store.cpp and snapshot.cpp *)

Captured(s) ==
    /\ IsList(s.paths) /\ ClassResults(s.classes) /\ SharedResources(s.conflicts)
    /\ IsList(s.witness.indices)
    /\ IsList(s.dependencies.paths) /\ IsList(s.dependencies.topology_entities)

LEMMA KnownIndicesAgree ==
  ASSUME NEW f, NEW r, NEW m, NEW bound, NEW class, IsList(r[m])
  PROVE  Agrees(TakeList(f, m, bound, KnownIndex(Append(f, m), class)),
                PutList(f, r, m, IndexElement))
<1> DEFINE e == [i \in DOMAIN r[m] |-> IndexElement(Append(f, m), r[m][i])]
<1>1. \A i \in DOMAIN r[m] : Agrees(KnownIndex(Append(f, m), class), e[i])
  BY ElementsAgree
<1>2. e = [i \in DOMAIN r[m] |-> e[i]]
  OBVIOUS
<1> HIDE DEF e
<1>3. Agrees(TakeList(f, m, bound, KnownIndex(Append(f, m), class)),
             Token("varint", f \o <<m, "size">>, Len(r[m])) \o FlattenSeq(e))
  BY <1>1, <1>2, ListAgrees
<1> QED
  BY <1>3 DEF PutList, e

\* A class of a snapshot: what is written, and what is taken.
ClassTokens(f, c) ==
    PutU8(f, c, "klass") \o PutU8(f, c, "outcome") \o PutBoolean(f, c, "evidence_complete")
        \o PutList(f, c, "shared", SharedResource_encode)
        \o PutU64(f, c, "shared_total") \o PutText(f, c, "detail")
ClassItems(f) ==
    TakeEnums(f, <<"klass", "outcome">>) \o TakeBoolean(f, "evidence_complete")
        \o TakeList(f, "shared", max_conflicts_per_proof, read_conflict(Append(f, "shared")))
        \o TakeU64(f, "shared_total") \o TakeText(f, "detail", max_detail)

LEMMA SnapshotClassAgrees ==
  ASSUME NEW f, NEW c,
         SharedResources(c.shared)
  PROVE  Agrees(ClassItems(f), ClassTokens(f, c))
<1> DEFINE i1 == TakeEnums(f, <<"klass", "outcome">>)
           t1 == PutU8(f, c, "klass") \o PutU8(f, c, "outcome")
           i2 == i1 \o TakeBoolean(f, "evidence_complete")
           t2 == t1 \o PutBoolean(f, c, "evidence_complete")
           i3 == i2 \o TakeList(f, "shared", max_conflicts_per_proof, read_conflict(Append(f, "shared")))
           t3 == t2 \o PutList(f, c, "shared", SharedResource_encode)
           i4 == i3 \o TakeU64(f, "shared_total")
           t4 == t3 \o PutU64(f, c, "shared_total")
           i5 == i4 \o TakeText(f, "detail", max_detail)
           t5 == t4 \o PutText(f, c, "detail")
<1> HIDE DEF i1, t1, i2, t2, i3, t3, i4, t4, i5, t5
<1>1. Agrees(i1, t1)
  BY EnumsAgree DEF i1, t1
<1>2. Agrees(i2, t2)
  <2>1. Agrees(TakeBoolean(f, "evidence_complete"), PutBoolean(f, c, "evidence_complete"))
    BY FlagAgrees
  <2> QED
    BY <1>1, <2>1, AgreesConcat DEF i2, t2
<1>3. Agrees(i3, t3)
  <2>1. Agrees(TakeList(f, "shared", max_conflicts_per_proof, read_conflict(Append(f, "shared"))), PutList(f, c, "shared", SharedResource_encode))
    BY ConflictListAgrees DEF SharedResources
  <2> QED
    BY <1>2, <2>1, AgreesConcat DEF i3, t3
<1>4. Agrees(i4, t4)
  <2>1. Agrees(TakeU64(f, "shared_total"), PutU64(f, c, "shared_total"))
    BY PrimitivesAgree
  <2> QED
    BY <1>3, <2>1, AgreesConcat DEF i4, t4
<1>5. Agrees(i5, t5)
  <2>1. Agrees(TakeText(f, "detail", max_detail), PutText(f, c, "detail"))
    BY TextAgrees
  <2> QED
    BY <1>4, <2>1, AgreesConcat DEF i5, t5
<1> QED
  BY <1>5 DEF ClassItems, ClassTokens, i1, t1, i2, t2, i3, t3, i4, t4, i5, t5

LEMMA SnapshotClassesAgree ==
  ASSUME NEW f, NEW s, ClassResults(s.classes)
  PROVE  Agrees(decode_class_list(f), encode_class_list(f, s))
<1> DEFINE g == Append(f, "classes")
           e == [i \in DOMAIN s["classes"] |-> ClassTokens(g, s["classes"][i])]
<1>1. IsList(s["classes"]) /\ \A i \in DOMAIN s["classes"] : Agrees(ClassItems(g), e[i])
  BY SnapshotClassAgrees DEF ClassResults
<1>2. e = [i \in DOMAIN s["classes"] |-> e[i]]
  OBVIOUS
<1> HIDE DEF e
<1>3. Agrees(TakeList(f, "classes", max_required_classes, ClassItems(g)),
             Token("varint", f \o <<"classes", "size">>, Len(s["classes"])) \o FlattenSeq(e))
  BY <1>1, <1>2, ListAgrees
<1>4. decode_class_list(f) = TakeList(f, "classes", max_required_classes, ClassItems(g))
  BY DEF decode_class_list, ClassItems
<1>5. encode_class_list(f, s) =
          Token("varint", f \o <<"classes", "size">>, Len(s["classes"])) \o FlattenSeq(e)
  BY DEF encode_class_list, PutList, ClassTokens, e
<1> QED
  BY <1>3, <1>4, <1>5

\* A conflict of a snapshot, whose indices are compared as they are taken.
ConflictItems(f) ==
    TakeEnums(f, <<"kind", "relation">>) \o TakeName(f, "id")
        \o TakeList(f, "paths", max_paths_per_proof,
                    KnownIndex(Append(f, "paths"), "UNKNOWN_REFERENCE"))

LEMMA SnapshotConflictAgrees ==
  ASSUME NEW f, NEW c,
         IsList(c.paths)
  PROVE  Agrees(ConflictItems(f), SharedResource_encode(f, c))
<1> DEFINE i1 == TakeEnums(f, <<"kind", "relation">>)
           t1 == PutU8(f, c, "kind") \o PutU8(f, c, "relation")
           i2 == i1 \o TakeName(f, "id")
           t2 == t1 \o PutId(f, c, "id")
           i3 == i2 \o TakeList(f, "paths", max_paths_per_proof,
                 KnownIndex(Append(f, "paths"), "UNKNOWN_REFERENCE"))
           t3 == t2 \o PutList(f, c, "paths", IndexElement)
<1> HIDE DEF i1, t1, i2, t2, i3, t3
<1>1. Agrees(i1, t1)
  BY EnumsAgree DEF i1, t1
<1>2. Agrees(i2, t2)
  <2>1. Agrees(TakeName(f, "id"), PutId(f, c, "id"))
    BY PrimitivesAgree
  <2> QED
    BY <1>1, <2>1, AgreesConcat DEF i2, t2
<1>3. Agrees(i3, t3)
  <2>1. Agrees(TakeList(f, "paths", max_paths_per_proof,
                 KnownIndex(Append(f, "paths"), "UNKNOWN_REFERENCE")), PutList(f, c, "paths", IndexElement))
    BY KnownIndicesAgree
  <2> QED
    BY <1>2, <2>1, AgreesConcat DEF i3, t3
<1> QED
  BY <1>3 DEF ConflictItems, SharedResource_encode, i1, t1, i2, t2, i3, t3

LEMMA SnapshotConflictsAgree ==
  ASSUME NEW f, NEW r, NEW m, NEW bound, IsList(r[m]),
         SharedResources(r[m])
  PROVE  Agrees(TakeList(f, m, bound, ConflictItems(Append(f, m))),
                PutList(f, r, m, SharedResource_encode))
<1> DEFINE e == [i \in DOMAIN r[m] |-> SharedResource_encode(Append(f, m), r[m][i])]
<1>1. \A i \in DOMAIN r[m] : Agrees(ConflictItems(Append(f, m)), e[i])
  BY SnapshotConflictAgrees DEF SharedResources
<1>2. e = [i \in DOMAIN r[m] |-> e[i]]
  OBVIOUS
<1> HIDE DEF e
<1>3. Agrees(TakeList(f, m, bound, ConflictItems(Append(f, m))),
             Token("varint", f \o <<m, "size">>, Len(r[m])) \o FlattenSeq(e))
  BY <1>1, <1>2, ListAgrees
<1> QED
  BY <1>3 DEF PutList, e

LEMMA BindingAgrees ==
  ASSUME NEW f, NEW d,
         IsList(d.paths),
         IsList(d.topology_entities)
  PROVE  Agrees(decode_dependency_binding(f), encode_dependency_binding(f, d))
<1> DEFINE i1 == TakeU64(f, "policy_generation")
           t1 == PutU64(f, d, "policy_generation")
           i2 == i1 \o TakeU64(f, "topology_generation")
           t2 == t1 \o PutU64(f, d, "topology_generation")
           i3 == i2 \o TakeU64(f, "failure_domain_generation")
           t3 == t2 \o PutU64(f, d, "failure_domain_generation")
           i4 == i3 \o TakeU64(f, "epoch")
           t4 == t3 \o PutU64(f, d, "epoch")
           i5 == i4 \o TakeEnums(f, <<"endpoint_exemption">>)
           t5 == t4 \o PutU8(f, d, "endpoint_exemption")
           i6 == i5 \o TakeList(f, "paths", max_paths_per_proof,
                 TakeId(Append(f, "paths"), "path") \o TakeU64(Append(f, "paths"), "generation"))
           t6 == t5 \o PutList(f, d, "paths", PathBinding)
           i7 == i6 \o TakeList(f, "topology_entities", max_topology_dependencies,
                 TakeEnums(Append(f, "topology_entities"), <<"kind">>)
                     \o TakeName(Append(f, "topology_entities"), "id"))
           t7 == t6 \o PutList(f, d, "topology_entities", Entity)
<1> HIDE DEF i1, t1, i2, t2, i3, t3, i4, t4, i5, t5, i6, t6, i7, t7
<1>1. Agrees(i1, t1)
  BY PrimitivesAgree DEF i1, t1
<1>2. Agrees(i2, t2)
  <2>1. Agrees(TakeU64(f, "topology_generation"), PutU64(f, d, "topology_generation"))
    BY PrimitivesAgree
  <2> QED
    BY <1>1, <2>1, AgreesConcat DEF i2, t2
<1>3. Agrees(i3, t3)
  <2>1. Agrees(TakeU64(f, "failure_domain_generation"), PutU64(f, d, "failure_domain_generation"))
    BY PrimitivesAgree
  <2> QED
    BY <1>2, <2>1, AgreesConcat DEF i3, t3
<1>4. Agrees(i4, t4)
  <2>1. Agrees(TakeU64(f, "epoch"), PutU64(f, d, "epoch"))
    BY PrimitivesAgree
  <2> QED
    BY <1>3, <2>1, AgreesConcat DEF i4, t4
<1>5. Agrees(i5, t5)
  <2>1. Agrees(TakeEnums(f, <<"endpoint_exemption">>), PutU8(f, d, "endpoint_exemption"))
    BY EnumsAgree
  <2> QED
    BY <1>4, <2>1, AgreesConcat DEF i5, t5
<1>6. Agrees(i6, t6)
  <2>1. Agrees(TakeList(f, "paths", max_paths_per_proof,
                 TakeId(Append(f, "paths"), "path") \o TakeU64(Append(f, "paths"), "generation")), PutList(f, d, "paths", PathBinding))
    BY PathBindingsAgree
  <2> QED
    BY <1>5, <2>1, AgreesConcat DEF i6, t6
<1>7. Agrees(i7, t7)
  <2>1. Agrees(TakeList(f, "topology_entities", max_topology_dependencies,
                 TakeEnums(Append(f, "topology_entities"), <<"kind">>)
                     \o TakeName(Append(f, "topology_entities"), "id")), PutList(f, d, "topology_entities", Entity))
    BY EntitiesAgree
  <2> QED
    BY <1>6, <2>1, AgreesConcat DEF i7, t7
<1> QED
  BY <1>7 DEF decode_dependency_binding, encode_dependency_binding, i1, t1, i2, t2, i3, t3, i4, t4, i5, t5, i6, t6, i7, t7

\* A decoder and a writer that continues with the part b of a document.
LEMMA AgreesGrow ==
  ASSUME NEW i, NEW pre, NEW b, NEW item, NEW token, Agrees(i, pre \o b), IsList(pre), IsList(b),
         Agrees(item, token)
  PROVE  Agrees(i \o item, pre \o (b \o token)) /\ IsList(b \o token)
<1>1. IsList(token)
  BY AgreesStep
<1>2. Agrees(i \o item, (pre \o b) \o token)
  BY AgreesConcat
<1>3. (pre \o b) \o token = pre \o (b \o token)
  BY <1>1, ListAssociative
<1>4. IsList(b \o token)
  BY <1>1, ListConcat
<1> QED
  BY <1>2, <1>3, <1>4

LEMMA AgreesGrowPair ==
  ASSUME NEW i, NEW pre, NEW b, NEW item, NEW a, NEW c, Agrees(i, pre \o b), IsList(pre), IsList(b),
         Agrees(item, a \o c), IsList(a), IsList(c)
  PROVE  Agrees(i \o item, pre \o ((b \o a) \o c)) /\ IsList((b \o a) \o c)
<1>1. Agrees(i \o item, pre \o (b \o (a \o c)))
  BY AgreesGrow
<1>2. (b \o a) \o c = b \o (a \o c)
  BY ListAssociative
<1>3. IsList((b \o a) \o c)
  <2>1. IsList(b \o a)
    BY ListConcat
  <2> DEFINE ba == b \o a
  <2> HIDE DEF ba
  <2>2. IsList(ba \o c)
    BY <2>1, ListConcat DEF ba
  <2> QED
    BY <2>2 DEF ba
<1> QED
  BY <1>1, <1>2, <1>3

\* The witness of a snapshot, whose numbers are cast to 32 bits.
WitnessItems(i, f) ==
    i \o TakeBoolean(f, "present") \o TakeNarrowed(f, "requested_k")
        \o TakeNarrowed(f, "achieved") \o TakeBoolean(f, "maximum_exact")
        \o TakeList(f, "indices", max_paths_per_proof,
                    KnownIndex(Append(f, "indices"), "INVALID_WITNESS"))

LEMMA SnapshotWitnessAgrees ==
  ASSUME NEW i, NEW tokens, NEW f, NEW v,
         Agrees(i, tokens),
         IsList(v.indices)
  PROVE  Agrees(WitnessItems(i, f),
                tokens \o write_witness(f, v))
<1> DEFINE pre == tokens
           i0 == i
           i1 == i0 \o TakeBoolean(f, "present")
           b1 == PutBoolean(f, v, "present")
           i2 == i1 \o TakeNarrowed(f, "requested_k")
           b2 == b1 \o PutVarint(f, v, "requested_k")
           i3 == i2 \o TakeNarrowed(f, "achieved")
           b3 == b2 \o PutVarint(f, v, "achieved")
           i4 == i3 \o TakeBoolean(f, "maximum_exact")
           b4 == b3 \o PutBoolean(f, v, "maximum_exact")
           i5 == i4 \o TakeList(f, "indices", max_paths_per_proof,
                 KnownIndex(Append(f, "indices"), "INVALID_WITNESS"))
           b5 == b4 \o PutList(f, v, "indices", IndexElement)
<1>1. Agrees(i0, pre)
  OBVIOUS
<1>2. IsList(pre)
  BY AgreesStep
<1> HIDE DEF pre, i0, i1, b1, i2, b2, i3, b3, i4, b4, i5, b5
<1>3. Agrees(i1, pre \o b1) /\ IsList(b1)
  <2>1. Agrees(TakeBoolean(f, "present"), PutBoolean(f, v, "present"))
    BY FlagAgrees
  <2>2. Agrees(i0, pre) /\ IsList(b1)
    BY <1>1, <2>1, AgreesStep DEF b1
  <2> QED
    BY <2>1, <2>2, AgreesConcat DEF i1, b1
<1>4. Agrees(i2, pre \o b2) /\ IsList(b2)
  <2>1. Agrees(TakeNarrowed(f, "requested_k"), PutVarint(f, v, "requested_k"))
    BY NarrowedAgrees
  <2> QED
    BY <1>2, <1>3, <2>1, AgreesGrow DEF i2, b2
<1>5. Agrees(i3, pre \o b3) /\ IsList(b3)
  <2>1. Agrees(TakeNarrowed(f, "achieved"), PutVarint(f, v, "achieved"))
    BY NarrowedAgrees
  <2> QED
    BY <1>2, <1>4, <2>1, AgreesGrow DEF i3, b3
<1>6. Agrees(i4, pre \o b4) /\ IsList(b4)
  <2>1. Agrees(TakeBoolean(f, "maximum_exact"), PutBoolean(f, v, "maximum_exact"))
    BY FlagAgrees
  <2> QED
    BY <1>2, <1>5, <2>1, AgreesGrow DEF i4, b4
<1>7. Agrees(i5, pre \o b5) /\ IsList(b5)
  <2>1. Agrees(TakeList(f, "indices", max_paths_per_proof,
                 KnownIndex(Append(f, "indices"), "INVALID_WITNESS")), PutList(f, v, "indices", IndexElement))
    BY KnownIndicesAgree
  <2> QED
    BY <1>2, <1>6, <2>1, AgreesGrow DEF i5, b5
<1> QED
  BY <1>7 DEF WitnessItems, write_witness, pre, i0, i1, b1, i2, b2, i3, b3, i4, b4, i5, b5

\* encode_snapshot and decode_snapshot.
LEMMA SnapshotAgrees ==
  ASSUME NEW s,
         Captured(s)
  PROVE  Agrees(decode_snapshot(At), encode_snapshot(At, s))
<1> DEFINE pre == PutId(At, s, "id")
           i0 == TakeId(At, "id")
           i1 == i0 \o TakeId(At, "proof")
           b1 == PutId(At, s, "proof")
           i2 == i1 \o TakeU64(At, "generation")
           b2 == b1 \o PutU64(At, s, "generation")
           i3 == i2 \o TakeId(At, "policy")
           b3 == b2 \o PutId(At, s, "policy")
           i4 == i3 \o TakeU64(At, "policy_generation")
           b4 == b3 \o PutU64(At, s, "policy_generation")
           i5 == i4 \o TakeList(At, "paths", max_snapshot_paths,
                 TakeId(Append(At, "paths"), "path")
                     \o TakeU64(Append(At, "paths"), "authority_generation"))
           b5 == b4 \o PutList(At, s, "paths", PathReference)
           i6 == i5 \o TakeEnums(At, <<"outcome">>)
           b6 == b5 \o PutU8(At, s, "outcome")
           i7 == i6 \o decode_class_list(At)
           b7 == b6 \o encode_class_list(At, s)
           i8 == i7 \o TakeList(At, "conflicts", max_conflicts_per_proof, ConflictItems(Append(At, "conflicts")))
           b8 == b7 \o PutList(At, s, "conflicts", SharedResource_encode)
           i9 == WitnessItems(i8, Append(At, "witness"))
           b9 == b8 \o write_witness(Append(At, "witness"), s.witness)
           i10 == i9 \o decode_dependency_binding(Append(At, "dependencies"))
           b10 == b9 \o encode_dependency_binding(Append(At, "dependencies"), s.dependencies)
           i11 == i10 \o TakeEnums(At, <<"lifecycle", "currentness">>)
           b11 == (b10 \o PutU8(At, s, "lifecycle")) \o PutU8(At, s, "currentness")
           i12 == i11 \o TakeU64(Append(At, "provenance"), "epoch")
           b12 == b11 \o PutU64(Append(At, "provenance"), s.provenance, "epoch")
           i13 == i12 \o TakeId(Append(At, "provenance"), "publisher")
           b13 == b12 \o PutId(Append(At, "provenance"), s.provenance, "publisher")
           i14 == i13 \o TakeId(Append(At, "provenance"), "boot")
           b14 == b13 \o PutId(Append(At, "provenance"), s.provenance, "boot")
           i15 == i14 \o TakeId(Append(At, "provenance"), "attempt")
           b15 == b14 \o PutId(Append(At, "provenance"), s.provenance, "attempt")
<1>1. Agrees(i0, pre)
  BY CheckedAgree
<1>2. IsList(pre)
  BY <1>1, AgreesStep
<1>3. /\ IsList(s.paths) /\ ClassResults(s.classes) /\ SharedResources(s.conflicts)
      /\ IsList(s.witness.indices)
      /\ IsList(s.dependencies.paths) /\ IsList(s.dependencies.topology_entities)
  BY DEF Captured
<1> HIDE DEF pre, i0, i1, b1, i2, b2, i3, b3, i4, b4, i5, b5, i6, b6, i7, b7, i8, b8, i9, b9, i10, b10, i11, b11, i12, b12, i13, b13, i14, b14, i15, b15
<1>4. Agrees(i1, pre \o b1) /\ IsList(b1)
  <2>1. Agrees(TakeId(At, "proof"), PutId(At, s, "proof"))
    BY CheckedAgree
  <2>2. Agrees(i0, pre) /\ IsList(b1)
    BY <1>1, <2>1, AgreesStep DEF b1
  <2> QED
    BY <2>1, <2>2, AgreesConcat DEF i1, b1
<1>5. Agrees(i2, pre \o b2) /\ IsList(b2)
  <2>1. Agrees(TakeU64(At, "generation"), PutU64(At, s, "generation"))
    BY PrimitivesAgree
  <2> QED
    BY <1>2, <1>4, <2>1, AgreesGrow DEF i2, b2
<1>6. Agrees(i3, pre \o b3) /\ IsList(b3)
  <2>1. Agrees(TakeId(At, "policy"), PutId(At, s, "policy"))
    BY CheckedAgree
  <2> QED
    BY <1>2, <1>5, <2>1, AgreesGrow DEF i3, b3
<1>7. Agrees(i4, pre \o b4) /\ IsList(b4)
  <2>1. Agrees(TakeU64(At, "policy_generation"), PutU64(At, s, "policy_generation"))
    BY PrimitivesAgree
  <2> QED
    BY <1>2, <1>6, <2>1, AgreesGrow DEF i4, b4
<1>8. Agrees(i5, pre \o b5) /\ IsList(b5)
  <2>1. Agrees(TakeList(At, "paths", max_snapshot_paths,
                 TakeId(Append(At, "paths"), "path")
                     \o TakeU64(Append(At, "paths"), "authority_generation")), PutList(At, s, "paths", PathReference))
    BY <1>3, PathReferencesAgree
  <2> QED
    BY <1>2, <1>7, <2>1, AgreesGrow DEF i5, b5
<1>9. Agrees(i6, pre \o b6) /\ IsList(b6)
  <2>1. Agrees(TakeEnums(At, <<"outcome">>), PutU8(At, s, "outcome"))
    BY EnumsAgree
  <2> QED
    BY <1>2, <1>8, <2>1, AgreesGrow DEF i6, b6
<1>10. Agrees(i7, pre \o b7) /\ IsList(b7)
  <2>1. Agrees(decode_class_list(At), encode_class_list(At, s))
    BY <1>3, SnapshotClassesAgree
  <2> QED
    BY <1>2, <1>9, <2>1, AgreesGrow DEF i7, b7
<1>11. Agrees(i8, pre \o b8) /\ IsList(b8)
  <2>1. Agrees(TakeList(At, "conflicts", max_conflicts_per_proof, ConflictItems(Append(At, "conflicts"))), PutList(At, s, "conflicts", SharedResource_encode))
    BY <1>3, SnapshotConflictsAgree DEF SharedResources
  <2> QED
    BY <1>2, <1>10, <2>1, AgreesGrow DEF i8, b8
<1>12. Agrees(i9, pre \o b9) /\ IsList(b9)
  <2> DEFINE v == write_witness(Append(At, "witness"), s.witness)
             b == pre \o b8
  <2>1. Agrees(i8, b)
    BY <1>11
  <2>2. Agrees(i9, b \o v) /\ IsList(v)
    <3> HIDE DEF b
    <3> QED
      BY <2>1, <1>3, SnapshotWitnessAgrees, WitnessAgrees, AgreesStep DEF i9
  <2> HIDE DEF v
  <2>3. b \o v = pre \o (b8 \o v) /\ IsList(b8 \o v)
    <3>1. IsList(pre) /\ IsList(b8) /\ IsList(v)
      BY <1>2, <1>11, <2>2
    <3>2. (pre \o b8) \o v = pre \o (b8 \o v)
      BY <3>1, ListAssociative
    <3>3. IsList(b8 \o v)
      BY <3>1, ListConcat
    <3> QED
      BY <3>2, <3>3
  <2>4. b9 = b8 \o v
    BY DEF b9, v
  <2> QED
    BY <2>2, <2>3, <2>4
<1>13. Agrees(i10, pre \o b10) /\ IsList(b10)
  <2>1. Agrees(decode_dependency_binding(Append(At, "dependencies")), encode_dependency_binding(Append(At, "dependencies"), s.dependencies))
    BY <1>3, BindingAgrees
  <2> QED
    BY <1>2, <1>12, <2>1, AgreesGrow DEF i10, b10
<1>14. Agrees(i11, pre \o b11) /\ IsList(b11)
  <2>1. Agrees(TakeEnums(At, <<"lifecycle", "currentness">>), PutU8(At, s, "lifecycle") \o PutU8(At, s, "currentness"))
    BY EnumsAgree
  <2>2. IsList(PutU8(At, s, "lifecycle")) /\ IsList(PutU8(At, s, "currentness"))
    BY PutList1
  <2> QED
    BY <1>2, <1>13, <2>1, <2>2, AgreesGrowPair DEF i11, b11
<1>15. Agrees(i12, pre \o b12) /\ IsList(b12)
  <2>1. Agrees(TakeU64(Append(At, "provenance"), "epoch"), PutU64(Append(At, "provenance"), s.provenance, "epoch"))
    BY PrimitivesAgree
  <2> QED
    BY <1>2, <1>14, <2>1, AgreesGrow DEF i12, b12
<1>16. Agrees(i13, pre \o b13) /\ IsList(b13)
  <2>1. Agrees(TakeId(Append(At, "provenance"), "publisher"), PutId(Append(At, "provenance"), s.provenance, "publisher"))
    BY CheckedAgree
  <2> QED
    BY <1>2, <1>15, <2>1, AgreesGrow DEF i13, b13
<1>17. Agrees(i14, pre \o b14) /\ IsList(b14)
  <2>1. Agrees(TakeId(Append(At, "provenance"), "boot"), PutId(Append(At, "provenance"), s.provenance, "boot"))
    BY CheckedAgree
  <2> QED
    BY <1>2, <1>16, <2>1, AgreesGrow DEF i14, b14
<1>18. Agrees(i15, pre \o b15) /\ IsList(b15)
  <2>1. Agrees(TakeId(Append(At, "provenance"), "attempt"), PutId(Append(At, "provenance"), s.provenance, "attempt"))
    BY CheckedAgree
  <2> QED
    BY <1>2, <1>17, <2>1, AgreesGrow DEF i15, b15
<1>19. Agrees(i15 \o TakeDigest(At, "digest"), (pre \o b15) \o PutDigest(At, s, "digest"))
  <2>1. Agrees(TakeDigest(At, "digest"), PutDigest(At, s, "digest"))
    BY PrimitivesAgree
  <2> QED
    BY <1>18, <2>1, AgreesConcat
<1>20. Agrees((i15 \o TakeDigest(At, "digest")) \o Check(At, "digest recomputed", <<>>, "INTERNAL_INCONSISTENCY"), (pre \o b15) \o PutDigest(At, s, "digest"))
  BY <1>19, AgreesThenCheck
<1> QED
  BY <1>20 DEF decode_snapshot, encode_snapshot, encode_body, ConflictItems, WitnessItems, pre, i0, i1, b1, i2, b2, i3, b3, i4, b4, i5, b5, i6, b6, i7, b7, i8, b8, i9, b9, i10, b10, i11, b11, i12, b12, i13, b13, i14, b14, i15, b15

-----------------------------------------------------------------------------
(* The store, persistence_store.cpp *)

LEMMA RootPath ==
  ASSUME NEW m
  PROVE  Append(<<>>, m) = <<m>> /\ IsList(<<m>>) /\ IsList(Append(<<>>, m))
<1>1. IsList(<<>>) /\ IsList(<<m>>)
  BY EmptyList, SingleList
<1>2. <<>> \o <<m>> = Append(<<>>, m)
  BY <1>1, AppendPath
<1>3. <<>> \o <<m>> = <<m>>
  BY <1>1, ListConcat
<1> QED
  BY <1>1, <1>2, <1>3

Policy(p) == IsList(p.required_classes) /\ IsList(p.allowed_failure_domain_relations)

LEMMA PolicyListAgrees ==
  ASSUME NEW f, NEW r, NEW m, NEW bound, NEW class, IsList(r[m]),
         \A i \in DOMAIN r[m] : Policy(r[m][i])
  PROVE  Agrees(TakeCounted(f, m, bound, class, <<>>, decode_policy(Append(f, m))),
                PutList(f, r, m, encode_policy))
<1> DEFINE e == [i \in DOMAIN r[m] |-> encode_policy(Append(f, m), r[m][i])]
<1>1. \A i \in DOMAIN r[m] : Agrees(decode_policy(Append(f, m)), e[i])
  BY PolicyAgrees DEF Policy
<1>2. e = [i \in DOMAIN r[m] |-> e[i]]
  OBVIOUS
<1> HIDE DEF e
<1>3. Agrees(TakeCounted(f, m, bound, class, <<>>, decode_policy(Append(f, m))),
             Token("varint", f \o <<m, "size">>, Len(r[m])) \o FlattenSeq(e))
  BY <1>1, <1>2, CountedAgrees, AgreesEmpty, CheckAgrees
<1> QED
  BY <1>3 DEF PutList, e

SessionItems(f) ==
    TakeName(f, "publisher") \o TakeName(f, "boot") \o TakeU64(f, "epoch") \o TakeName(f, "scope")
        \o TakeFlag(f, "fenced", "TRUNCATED")
        \o Check(f, "identity", <<"publisher", "boot", "scope">>, "MALFORMED_IDENTITY")
AttemptItems(f) ==
    TakeName(f, "attempt") \o TakeDigest(f, "payload") \o TakeName(f, "proof")
        \o Check(f, "identity", <<"attempt", "proof">>, "MALFORMED_IDENTITY")
HistoryItems(f) ==
    TakeId(f, "proof")
        \o TakeCounted(f, "revisions", max_history, "RECORD_LIMIT_EXCEEDED", <<>>,
                       decode_proof(Append(f, "revisions")))

LEMMA SessionAgrees ==
  ASSUME NEW f, NEW s
  PROVE  Agrees(SessionItems(f), Session(f, s))
<1> DEFINE i1 == TakeName(f, "publisher")
           t1 == PutId(f, s, "publisher")
           i2 == i1 \o TakeName(f, "boot")
           t2 == t1 \o PutId(f, s, "boot")
           i3 == i2 \o TakeU64(f, "epoch")
           t3 == t2 \o PutU64(f, s, "epoch")
           i4 == i3 \o TakeName(f, "scope")
           t4 == t3 \o PutId(f, s, "scope")
           i5 == i4 \o TakeFlag(f, "fenced", "TRUNCATED")
           t5 == t4 \o PutBoolean(f, s, "fenced")
           i6 == i5 \o Check(f, "identity", <<"publisher", "boot", "scope">>, "MALFORMED_IDENTITY")
<1> HIDE DEF i1, t1, i2, t2, i3, t3, i4, t4, i5, t5, i6
<1>1. Agrees(i1, t1)
  BY PrimitivesAgree DEF i1, t1
<1>2. Agrees(i2, t2)
  <2>1. Agrees(TakeName(f, "boot"), PutId(f, s, "boot"))
    BY PrimitivesAgree
  <2> QED
    BY <1>1, <2>1, AgreesConcat DEF i2, t2
<1>3. Agrees(i3, t3)
  <2>1. Agrees(TakeU64(f, "epoch"), PutU64(f, s, "epoch"))
    BY PrimitivesAgree
  <2> QED
    BY <1>2, <2>1, AgreesConcat DEF i3, t3
<1>4. Agrees(i4, t4)
  <2>1. Agrees(TakeName(f, "scope"), PutId(f, s, "scope"))
    BY PrimitivesAgree
  <2> QED
    BY <1>3, <2>1, AgreesConcat DEF i4, t4
<1>5. Agrees(i5, t5)
  <2>1. Agrees(TakeFlag(f, "fenced", "TRUNCATED"), PutBoolean(f, s, "fenced"))
    BY FlagAgrees
  <2> QED
    BY <1>4, <2>1, AgreesConcat DEF i5, t5
<1>6. Agrees(i6, t5)
  BY <1>5, AgreesThenCheck DEF i6
<1> QED
  BY <1>6 DEF SessionItems, Session, i1, t1, i2, t2, i3, t3, i4, t4, i5, t5, i6

LEMMA SessionListAgrees ==
  ASSUME NEW f, NEW r, NEW m, NEW bound, NEW class, IsList(r[m])
  PROVE  Agrees(TakeCounted(f, m, bound, class, <<>>, SessionItems(Append(f, m))),
                PutList(f, r, m, Session))
<1> DEFINE e == [i \in DOMAIN r[m] |-> Session(Append(f, m), r[m][i])]
<1>1. \A i \in DOMAIN r[m] : Agrees(SessionItems(Append(f, m)), e[i])
  BY SessionAgrees
<1>2. e = [i \in DOMAIN r[m] |-> e[i]]
  OBVIOUS
<1> HIDE DEF e
<1>3. Agrees(TakeCounted(f, m, bound, class, <<>>, SessionItems(Append(f, m))),
             Token("varint", f \o <<m, "size">>, Len(r[m])) \o FlattenSeq(e))
  BY <1>1, <1>2, CountedAgrees, AgreesEmpty, CheckAgrees
<1> QED
  BY <1>3 DEF PutList, e

LEMMA AttemptAgrees ==
  ASSUME NEW f, NEW a
  PROVE  Agrees(AttemptItems(f), Attempt(f, a))
<1> DEFINE i1 == TakeName(f, "attempt")
           t1 == PutId(f, a, "attempt")
           i2 == i1 \o TakeDigest(f, "payload")
           t2 == t1 \o PutDigest(f, a, "payload")
           i3 == i2 \o TakeName(f, "proof")
           t3 == t2 \o PutId(f, a, "proof")
           i4 == i3 \o Check(f, "identity", <<"attempt", "proof">>, "MALFORMED_IDENTITY")
<1> HIDE DEF i1, t1, i2, t2, i3, t3, i4
<1>1. Agrees(i1, t1)
  BY PrimitivesAgree DEF i1, t1
<1>2. Agrees(i2, t2)
  <2>1. Agrees(TakeDigest(f, "payload"), PutDigest(f, a, "payload"))
    BY PrimitivesAgree
  <2> QED
    BY <1>1, <2>1, AgreesConcat DEF i2, t2
<1>3. Agrees(i3, t3)
  <2>1. Agrees(TakeName(f, "proof"), PutId(f, a, "proof"))
    BY PrimitivesAgree
  <2> QED
    BY <1>2, <2>1, AgreesConcat DEF i3, t3
<1>4. Agrees(i4, t3)
  BY <1>3, AgreesThenCheck DEF i4
<1> QED
  BY <1>4 DEF AttemptItems, Attempt, i1, t1, i2, t2, i3, t3, i4

LEMMA AttemptListAgrees ==
  ASSUME NEW f, NEW r, NEW m, NEW bound, NEW class, IsList(r[m])
  PROVE  Agrees(TakeCounted(f, m, bound, class, <<>>, AttemptItems(Append(f, m))),
                PutList(f, r, m, Attempt))
<1> DEFINE e == [i \in DOMAIN r[m] |-> Attempt(Append(f, m), r[m][i])]
<1>1. \A i \in DOMAIN r[m] : Agrees(AttemptItems(Append(f, m)), e[i])
  BY AttemptAgrees
<1>2. e = [i \in DOMAIN r[m] |-> e[i]]
  OBVIOUS
<1> HIDE DEF e
<1>3. Agrees(TakeCounted(f, m, bound, class, <<>>, AttemptItems(Append(f, m))),
             Token("varint", f \o <<m, "size">>, Len(r[m])) \o FlattenSeq(e))
  BY <1>1, <1>2, CountedAgrees, AgreesEmpty, CheckAgrees
<1> QED
  BY <1>3 DEF PutList, e

Replaced(h) == IsList(h.revisions) /\ \A i \in DOMAIN h.revisions : Committed(h.revisions[i])

LEMMA HistoryAgrees ==
  ASSUME NEW f, NEW h,
         IsList(f),
         Replaced(h)
  PROVE  Agrees(HistoryItems(f), History(f, h))
<1> DEFINE i1 == TakeId(f, "proof")
           t1 == PutId(f, h, "proof")
           i2 == i1 \o TakeCounted(f, "revisions", max_history, "RECORD_LIMIT_EXCEEDED", <<>>,
                    decode_proof(Append(f, "revisions")))
           t2 == t1 \o PutList(f, h, "revisions", encode_proof)
<1> HIDE DEF i1, t1, i2, t2
<1>1. Agrees(i1, t1)
  BY CheckedAgree DEF i1, t1
<1>2. Agrees(i2, t2)
  <2>1. Agrees(TakeCounted(f, "revisions", max_history, "RECORD_LIMIT_EXCEEDED", <<>>,
                    decode_proof(Append(f, "revisions"))), PutList(f, h, "revisions", encode_proof))
    BY ProofListAgrees DEF Replaced
  <2> QED
    BY <1>1, <2>1, AgreesConcat DEF i2, t2
<1> QED
  BY <1>2 DEF HistoryItems, History, i1, t1, i2, t2

LEMMA HistoryListAgrees ==
  ASSUME NEW f, NEW r, NEW m, NEW bound, NEW class, IsList(r[m]),
         IsList(f),
         \A i \in DOMAIN r[m] : Replaced(r[m][i])
  PROVE  Agrees(TakeCounted(f, m, bound, class, <<>>, HistoryItems(Append(f, m))),
                PutList(f, r, m, History))
<1> DEFINE e == [i \in DOMAIN r[m] |-> History(Append(f, m), r[m][i])]
<1>1. \A i \in DOMAIN r[m] : Agrees(HistoryItems(Append(f, m)), e[i])
  BY AppendPath, HistoryAgrees
<1>2. e = [i \in DOMAIN r[m] |-> e[i]]
  OBVIOUS
<1> HIDE DEF e
<1>3. Agrees(TakeCounted(f, m, bound, class, <<>>, HistoryItems(Append(f, m))),
             Token("varint", f \o <<m, "size">>, Len(r[m])) \o FlattenSeq(e))
  BY <1>1, <1>2, CountedAgrees, AgreesEmpty, CheckAgrees
<1> QED
  BY <1>3 DEF PutList, e

LEMMA BootListAgrees ==
  ASSUME NEW f, NEW r, NEW m, NEW bound, NEW class, IsList(r[m])
  PROVE  Agrees(TakeCounted(f, m, bound, class, <<>>, IdItem(Append(f, m))),
                PutList(f, r, m, IdElement))
<1> DEFINE e == [i \in DOMAIN r[m] |-> IdElement(Append(f, m), r[m][i])]
<1>1. \A i \in DOMAIN r[m] : Agrees(IdItem(Append(f, m)), e[i])
  BY ElementsAgree
<1>2. e = [i \in DOMAIN r[m] |-> e[i]]
  OBVIOUS
<1> HIDE DEF e
<1>3. Agrees(TakeCounted(f, m, bound, class, <<>>, IdItem(Append(f, m))),
             Token("varint", f \o <<m, "size">>, Len(r[m])) \o FlattenSeq(e))
  BY <1>1, <1>2, CountedAgrees, AgreesEmpty, CheckAgrees
<1> QED
  BY <1>3 DEF PutList, e

LEMMA SnapshotListAgrees ==
  ASSUME NEW r, NEW bound, NEW class, IsList(r["snapshots"]),
         \A i \in DOMAIN r["snapshots"] : Captured(r["snapshots"][i])
  PROVE  Agrees(TakeCounted(<<>>, "snapshots", bound, class, <<>>, decode_snapshot(At)),
                PutList(<<>>, r, "snapshots", encode_snapshot))
<1> DEFINE g == Append(<<>>, "snapshots")
           e == [i \in DOMAIN r["snapshots"] |-> encode_snapshot(g, r["snapshots"][i])]
<1>0. g = At
  BY RootPath DEF At
<1>1. \A i \in DOMAIN r["snapshots"] : Agrees(decode_snapshot(At), e[i])
  BY <1>0, SnapshotAgrees
<1>2. e = [i \in DOMAIN r["snapshots"] |-> e[i]]
  OBVIOUS
<1> HIDE DEF e
<1>3. Agrees(TakeCounted(<<>>, "snapshots", bound, class, <<>>, decode_snapshot(At)),
             Token("varint", <<>> \o <<"snapshots", "size">>, Len(r["snapshots"])) \o FlattenSeq(e))
  BY <1>1, <1>2, CountedAgrees, AgreesEmpty
<1> QED
  BY <1>3 DEF PutList, e

\* What a store holds.
Contents(c) ==
    /\ IsList(c.policies) /\ \A i \in DOMAIN c.policies : Policy(c.policies[i])
    /\ IsList(c.proofs) /\ \A i \in DOMAIN c.proofs : Committed(c.proofs[i])
    /\ IsList(c.sessions) /\ IsList(c.fenced_boots) /\ IsList(c.attempts)
    /\ IsList(c.history) /\ \A i \in DOMAIN c.history : Replaced(c.history[i])
    /\ IsList(c.snapshots) /\ \A i \in DOMAIN c.snapshots : Captured(c.snapshots[i])

\* encode_store and decode_store.
LEMMA StoreAgrees ==
  ASSUME NEW c,
         Contents(c)
  PROVE  Agrees(decode_store(<<>>), encode_store(c))
<1> DEFINE i1 == TakeU64(<<>>, "epoch")
           t1 == PutU64(<<>>, c, "epoch")
           i2 == i1 \o TakeSection(<<>>, "policies", decode_policy(Append(<<>>, "policies")))
           t2 == t1 \o PutList(<<>>, c, "policies", encode_policy)
           i3 == i2 \o TakeSection(<<>>, "proofs", decode_proof(Append(<<>>, "proofs")))
           t3 == t2 \o PutList(<<>>, c, "proofs", encode_proof)
           i4 == i3 \o TakeSection(<<>>, "sessions", SessionItems(Append(<<>>, "sessions")))
           t4 == t3 \o PutList(<<>>, c, "sessions", Session)
           i5 == i4 \o TakeSection(<<>>, "fenced_boots", IdItem(Append(<<>>, "fenced_boots")))
           t5 == t4 \o PutList(<<>>, c, "fenced_boots", IdElement)
           i6 == i5 \o TakeSection(<<>>, "attempts", AttemptItems(Append(<<>>, "attempts")))
           t6 == t5 \o PutList(<<>>, c, "attempts", Attempt)
           i7 == i6 \o TakeSection(<<>>, "history", HistoryItems(Append(<<>>, "history")))
           t7 == t6 \o PutList(<<>>, c, "history", History)
           i8 == i7 \o TakeSection(<<>>, "snapshots", decode_snapshot(At))
           t8 == t7 \o PutList(<<>>, c, "snapshots", encode_snapshot)
<1> HIDE DEF i1, t1, i2, t2, i3, t3, i4, t4, i5, t5, i6, t6, i7, t7, i8, t8
<1>1. Agrees(i1, t1)
  BY PrimitivesAgree DEF i1, t1
<1>2. Agrees(i2, t2)
  <2>1. Agrees(TakeSection(<<>>, "policies", decode_policy(Append(<<>>, "policies"))), PutList(<<>>, c, "policies", encode_policy))
    BY PolicyListAgrees DEF TakeSection, Contents
  <2> QED
    BY <1>1, <2>1, AgreesConcat DEF i2, t2
<1>3. Agrees(i3, t3)
  <2>1. Agrees(TakeSection(<<>>, "proofs", decode_proof(Append(<<>>, "proofs"))), PutList(<<>>, c, "proofs", encode_proof))
    BY EmptyList, ProofListAgrees DEF TakeSection, Contents
  <2> QED
    BY <1>2, <2>1, AgreesConcat DEF i3, t3
<1>4. Agrees(i4, t4)
  <2>1. Agrees(TakeSection(<<>>, "sessions", SessionItems(Append(<<>>, "sessions"))), PutList(<<>>, c, "sessions", Session))
    BY SessionListAgrees DEF TakeSection, Contents
  <2> QED
    BY <1>3, <2>1, AgreesConcat DEF i4, t4
<1>5. Agrees(i5, t5)
  <2>1. Agrees(TakeSection(<<>>, "fenced_boots", IdItem(Append(<<>>, "fenced_boots"))), PutList(<<>>, c, "fenced_boots", IdElement))
    BY BootListAgrees DEF TakeSection, Contents
  <2> QED
    BY <1>4, <2>1, AgreesConcat DEF i5, t5
<1>6. Agrees(i6, t6)
  <2>1. Agrees(TakeSection(<<>>, "attempts", AttemptItems(Append(<<>>, "attempts"))), PutList(<<>>, c, "attempts", Attempt))
    BY AttemptListAgrees DEF TakeSection, Contents
  <2> QED
    BY <1>5, <2>1, AgreesConcat DEF i6, t6
<1>7. Agrees(i7, t7)
  <2>1. Agrees(TakeSection(<<>>, "history", HistoryItems(Append(<<>>, "history"))), PutList(<<>>, c, "history", History))
    BY EmptyList, HistoryListAgrees DEF TakeSection, Contents
  <2> QED
    BY <1>6, <2>1, AgreesConcat DEF i7, t7
<1>8. Agrees(i8, t8)
  <2>1. Agrees(TakeSection(<<>>, "snapshots", decode_snapshot(At)), PutList(<<>>, c, "snapshots", encode_snapshot))
    BY SnapshotListAgrees DEF TakeSection, Contents
  <2> QED
    BY <1>7, <2>1, AgreesConcat DEF i8, t8
<1> QED
  BY <1>8 DEF decode_store, encode_store, SessionItems, AttemptItems, HistoryItems, i1, t1, i2, t2, i3, t3, i4, t4, i5, t5, i6, t6, i7, t7, i8, t8

-----------------------------------------------------------------------------
(* The payloads, wire.cpp *)

\* encode_acting_authority and decode_acting_authority.
LEMMA AuthorityAgrees ==
  ASSUME NEW f, NEW a
  PROVE  Agrees(decode_acting_authority(f), encode_acting_authority(f, a))
<1> DEFINE i1 == TakeName(f, "marker")
           t1 == Token("name", Append(f, "marker"), IF a.epoch = 0 THEN "epoch-unset" ELSE "epoch-set")
           i2 == i1 \o Check(f, "marker", <<>>, Unclassified)
           i3 == i2 \o TakeU64(f, "epoch")
           t3 == t1 \o PutU64(f, a, "epoch")
           i4 == i3 \o TakeId(f, "publisher")
           t4 == t3 \o PutId(f, a, "publisher")
           i5 == i4 \o TakeId(f, "boot")
           t5 == t4 \o PutId(f, a, "boot")
           i6 == i5 \o TakeId(f, "scope")
           t6 == t5 \o PutId(f, a, "scope")
           i7 == i6 \o TakeId(f, "attempt")
           t7 == t6 \o PutId(f, a, "attempt")
           i8 == i7 \o TakeU64(f, "expected_policy_generation")
           t8 == t7 \o PutU64(f, a, "expected_policy_generation")
           i9 == i8 \o TakeU64(f, "expected_proof_generation")
           t9 == t8 \o PutU64(f, a, "expected_proof_generation")
<1> HIDE DEF i1, t1, i2, i3, t3, i4, t4, i5, t5, i6, t6, i7, t7, i8, t8, i9, t9
<1>1. Agrees(i1, t1)
  BY TakeAgrees DEF TakeName, i1, t1
<1>2. Agrees(i2, t1)
  BY <1>1, AgreesThenCheck DEF i2
<1>3. Agrees(i3, t3)
  <2>1. Agrees(TakeU64(f, "epoch"), PutU64(f, a, "epoch"))
    BY PrimitivesAgree
  <2> QED
    BY <1>2, <2>1, AgreesConcat DEF i3, t3
<1>4. Agrees(i4, t4)
  <2>1. Agrees(TakeId(f, "publisher"), PutId(f, a, "publisher"))
    BY CheckedAgree
  <2> QED
    BY <1>3, <2>1, AgreesConcat DEF i4, t4
<1>5. Agrees(i5, t5)
  <2>1. Agrees(TakeId(f, "boot"), PutId(f, a, "boot"))
    BY CheckedAgree
  <2> QED
    BY <1>4, <2>1, AgreesConcat DEF i5, t5
<1>6. Agrees(i6, t6)
  <2>1. Agrees(TakeId(f, "scope"), PutId(f, a, "scope"))
    BY CheckedAgree
  <2> QED
    BY <1>5, <2>1, AgreesConcat DEF i6, t6
<1>7. Agrees(i7, t7)
  <2>1. Agrees(TakeId(f, "attempt"), PutId(f, a, "attempt"))
    BY CheckedAgree
  <2> QED
    BY <1>6, <2>1, AgreesConcat DEF i7, t7
<1>8. Agrees(i8, t8)
  <2>1. Agrees(TakeU64(f, "expected_policy_generation"), PutU64(f, a, "expected_policy_generation"))
    BY PrimitivesAgree
  <2> QED
    BY <1>7, <2>1, AgreesConcat DEF i8, t8
<1>9. Agrees(i9, t9)
  <2>1. Agrees(TakeU64(f, "expected_proof_generation"), PutU64(f, a, "expected_proof_generation"))
    BY PrimitivesAgree
  <2> QED
    BY <1>8, <2>1, AgreesConcat DEF i9, t9
<1> QED
  BY <1>9 DEF decode_acting_authority, encode_acting_authority, i1, t1, i2, i3, t3, i4, t4, i5, t5, i6, t6, i7, t7, i8, t8, i9, t9

LEMMA HelloAgrees ==
  ASSUME NEW v
  PROVE  Agrees(decode_hello(<<>>), encode_hello(v))
<1> DEFINE i1 == TakeId(<<>>, "publisher")
           t1 == PutId(<<>>, v, "publisher")
           i2 == i1 \o TakeId(<<>>, "boot")
           t2 == t1 \o PutId(<<>>, v, "boot")
           i3 == i2 \o TakeU64(<<>>, "epoch")
           t3 == t2 \o PutU64(<<>>, v, "epoch")
           i4 == i3 \o TakeId(<<>>, "scope")
           t4 == t3 \o PutId(<<>>, v, "scope")
<1> HIDE DEF i1, t1, i2, t2, i3, t3, i4, t4
<1>1. Agrees(i1, t1)
  BY CheckedAgree DEF i1, t1
<1>2. Agrees(i2, t2)
  <2>1. Agrees(TakeId(<<>>, "boot"), PutId(<<>>, v, "boot"))
    BY CheckedAgree
  <2> QED
    BY <1>1, <2>1, AgreesConcat DEF i2, t2
<1>3. Agrees(i3, t3)
  <2>1. Agrees(TakeU64(<<>>, "epoch"), PutU64(<<>>, v, "epoch"))
    BY PrimitivesAgree
  <2> QED
    BY <1>2, <2>1, AgreesConcat DEF i3, t3
<1>4. Agrees(i4, t4)
  <2>1. Agrees(TakeId(<<>>, "scope"), PutId(<<>>, v, "scope"))
    BY CheckedAgree
  <2> QED
    BY <1>3, <2>1, AgreesConcat DEF i4, t4
<1> QED
  BY <1>4 DEF decode_hello, encode_hello, i1, t1, i2, t2, i3, t3, i4, t4

LEMMA RequestAgrees ==
  ASSUME NEW f, NEW r,
         IsList(r.paths)
  PROVE  Agrees(decode_proof_request(f), encode_proof_request(f, r))
<1> DEFINE i1 == TakeId(f, "policy")
           t1 == PutId(f, r, "policy")
           i2 == i1 \o TakeU64(f, "policy_generation")
           t2 == t1 \o PutU64(f, r, "policy_generation")
           i3 == i2 \o TakeList(f, "paths", max_paths_per_proof,
                 TakeId(Append(f, "paths"), "path")
                     \o TakeU64(Append(f, "paths"), "authority_generation"))
           t3 == t2 \o PutList(f, r, "paths", PathReference)
<1> HIDE DEF i1, t1, i2, t2, i3, t3
<1>1. Agrees(i1, t1)
  BY CheckedAgree DEF i1, t1
<1>2. Agrees(i2, t2)
  <2>1. Agrees(TakeU64(f, "policy_generation"), PutU64(f, r, "policy_generation"))
    BY PrimitivesAgree
  <2> QED
    BY <1>1, <2>1, AgreesConcat DEF i2, t2
<1>3. Agrees(i3, t3)
  <2>1. Agrees(TakeList(f, "paths", max_paths_per_proof,
                 TakeId(Append(f, "paths"), "path")
                     \o TakeU64(Append(f, "paths"), "authority_generation")), PutList(f, r, "paths", PathReference))
    BY PathReferencesAgree
  <2> QED
    BY <1>2, <2>1, AgreesConcat DEF i3, t3
<1> QED
  BY <1>3 DEF decode_proof_request, encode_proof_request, i1, t1, i2, t2, i3, t3

LEMMA PublishPolicyAgrees ==
  ASSUME NEW v, Policy(v.policy)
  PROVE  Agrees(decode_publish_policy(<<>>), encode_publish_policy(v))
BY RootPath, AuthorityAgrees, PolicyAgrees, AgreesConcat
   DEF decode_publish_policy, encode_publish_policy, Policy

LEMMA PublishProofAgrees ==
  ASSUME NEW v, IsList(v.request.paths)
  PROVE  Agrees(decode_publish_proof(<<>>), encode_publish_proof(v))
BY RootPath, AuthorityAgrees, RequestAgrees, AgreesConcat
   DEF decode_publish_proof, encode_publish_proof

LEMMA RevalidateAgrees ==
  ASSUME NEW v
  PROVE  Agrees(decode_revalidate(<<>>), encode_revalidate(v))
BY RootPath, AuthorityAgrees, CheckedAgree, AgreesConcat DEF decode_revalidate, encode_revalidate

LEMMA OptionalIdAgrees ==
  ASSUME NEW f, NEW r, NEW m, IsList(r[m]),
         Len(r[m]) <= 1
  PROVE  Agrees(TakeOptional(f, m, IdItem(Append(f, m))),
                PutOptional(f, r, m, IdElement))
<1> DEFINE e == [i \in DOMAIN r[m] |-> IdElement(Append(f, m), r[m][i])]
<1>1. \A i \in DOMAIN r[m] : Agrees(IdItem(Append(f, m)), e[i])
  BY ElementsAgree
<1>2. e = [i \in DOMAIN r[m] |-> e[i]]
  OBVIOUS
<1> HIDE DEF e
<1>3. Agrees(TakeOptional(f, m, IdItem(Append(f, m))),
             Token("boolean", f \o <<m, "present">>, Bit(r[m] # <<>>)) \o FlattenSeq(e))
  BY <1>1, <1>2, OptionalAgrees
<1> QED
  BY <1>3 DEF PutOptional, e

LEMMA QueryAgrees ==
  ASSUME NEW v,
         IsList(v.path),
         IsList(v.domain),
         IsList(v.policy),
         Len(v.path) <= 1,
         Len(v.domain) <= 1,
         Len(v.policy) <= 1
  PROVE  Agrees(decode_query(<<>>), encode_query(v))
<1> DEFINE i1 == Take("byte", <<"selector">>)
           t1 == Token("byte", <<"selector">>, v.selector)
           i2 == i1 \o Check(<<"selector">>, "selector", <<>>, Unclassified)
           i3 == i2 \o TakeOptional(<<>>, "path", IdItem(Append(<<>>, "path")))
           t3 == t1 \o PutOptional(<<>>, v, "path", IdElement)
           i4 == i3 \o TakeOptional(<<>>, "domain", IdItem(Append(<<>>, "domain")))
           t4 == t3 \o PutOptional(<<>>, v, "domain", IdElement)
           i5 == i4 \o TakeOptional(<<>>, "policy", IdItem(Append(<<>>, "policy")))
           t5 == t4 \o PutOptional(<<>>, v, "policy", IdElement)
           i6 == i5 \o TakeEnums(<<>>, <<"entity_kind">>)
           t6 == t5 \o PutU8(<<>>, v, "entity_kind")
           i7 == i6 \o TakeName(<<>>, "entity_id")
           t7 == t6 \o PutId(<<>>, v, "entity_id")
<1>1. Append(<<>>, "selector") = <<"selector">>
  BY RootPath
<1> HIDE DEF i1, t1, i2, i3, t3, i4, t4, i5, t5, i6, t6, i7, t7
<1>2. Agrees(i1, t1)
  BY TakeAgrees DEF i1, t1
<1>3. Agrees(i2, t1)
  BY <1>2, AgreesThenCheck DEF i2
<1>4. Agrees(i3, t3)
  <2>1. Agrees(TakeOptional(<<>>, "path", IdItem(Append(<<>>, "path"))), PutOptional(<<>>, v, "path", IdElement))
    BY OptionalIdAgrees
  <2> QED
    BY <1>3, <2>1, AgreesConcat DEF i3, t3
<1>5. Agrees(i4, t4)
  <2>1. Agrees(TakeOptional(<<>>, "domain", IdItem(Append(<<>>, "domain"))), PutOptional(<<>>, v, "domain", IdElement))
    BY OptionalIdAgrees
  <2> QED
    BY <1>4, <2>1, AgreesConcat DEF i4, t4
<1>6. Agrees(i5, t5)
  <2>1. Agrees(TakeOptional(<<>>, "policy", IdItem(Append(<<>>, "policy"))), PutOptional(<<>>, v, "policy", IdElement))
    BY OptionalIdAgrees
  <2> QED
    BY <1>5, <2>1, AgreesConcat DEF i5, t5
<1>7. Agrees(i6, t6)
  <2>1. Agrees(TakeEnums(<<>>, <<"entity_kind">>), PutU8(<<>>, v, "entity_kind"))
    BY EnumsAgree
  <2> QED
    BY <1>6, <2>1, AgreesConcat DEF i6, t6
<1>8. Agrees(i7, t7)
  <2>1. Agrees(TakeName(<<>>, "entity_id"), PutId(<<>>, v, "entity_id"))
    BY PrimitivesAgree
  <2> QED
    BY <1>7, <2>1, AgreesConcat DEF i7, t7
<1> QED
  BY <1>1, <1>8 DEF decode_query, encode_query, i1, t1, i2, i3, t3, i4, t4, i5, t5, i6, t6, i7, t7

LEMMA QueryResultAgrees ==
  ASSUME NEW v,
         IsList(v.proofs)
  PROVE  Agrees(decode_query_result(<<>>), encode_query_result(v))
<1> DEFINE i1 == TakeList(<<>>, "proofs", max_query_results, IdItem(Append(<<>>, "proofs")))
           t1 == PutList(<<>>, v, "proofs", IdElement)
           i2 == i1 \o TakeBoolean(<<>>, "truncated")
           t2 == t1 \o PutBoolean(<<>>, v, "truncated")
           i3 == i2 \o TakeU64(<<>>, "total")
           t3 == t2 \o PutU64(<<>>, v, "total")
           i4 == i3 \o Check(<<>>, "total covers", <<"total", "proofs">>, Unclassified)
<1> HIDE DEF i1, t1, i2, t2, i3, t3, i4
<1>1. Agrees(i1, t1)
  BY IdListAgrees DEF i1, t1
<1>2. Agrees(i2, t2)
  <2>1. Agrees(TakeBoolean(<<>>, "truncated"), PutBoolean(<<>>, v, "truncated"))
    BY FlagAgrees
  <2> QED
    BY <1>1, <2>1, AgreesConcat DEF i2, t2
<1>3. Agrees(i3, t3)
  <2>1. Agrees(TakeU64(<<>>, "total"), PutU64(<<>>, v, "total"))
    BY PrimitivesAgree
  <2> QED
    BY <1>2, <2>1, AgreesConcat DEF i3, t3
<1>4. Agrees(i4, t3)
  BY <1>3, AgreesThenCheck DEF i4
<1> QED
  BY <1>4 DEF decode_query_result, encode_query_result, i1, t1, i2, t2, i3, t3, i4

LEMMA OptionalProofAgrees ==
  ASSUME NEW f, NEW r, NEW m, IsList(r[m]),
         Len(r[m]) <= 1,
         IsList(f),
         \A i \in DOMAIN r[m] : Committed(r[m][i])
  PROVE  Agrees(TakeOptional(f, m, decode_proof(Append(f, m))),
                PutOptional(f, r, m, encode_proof))
<1> DEFINE e == [i \in DOMAIN r[m] |-> encode_proof(Append(f, m), r[m][i])]
<1>1. \A i \in DOMAIN r[m] : Agrees(decode_proof(Append(f, m)), e[i])
  BY AppendPath, ProofAgrees
<1>2. e = [i \in DOMAIN r[m] |-> e[i]]
  OBVIOUS
<1> HIDE DEF e
<1>3. Agrees(TakeOptional(f, m, decode_proof(Append(f, m))),
             Token("boolean", f \o <<m, "present">>, Bit(r[m] # <<>>)) \o FlattenSeq(e))
  BY <1>1, <1>2, OptionalAgrees
<1> QED
  BY <1>3 DEF PutOptional, e

LEMMA MutationResultAgrees ==
  ASSUME NEW v,
         IsList(v.proof),
         Len(v.proof) <= 1,
         \A i \in DOMAIN v.proof : Committed(v.proof[i])
  PROVE  Agrees(decode_mutation_result(<<>>), encode_mutation_result(v))
<1> DEFINE i1 == TakeEnums(<<>>, <<"status">>)
           t1 == PutU8(<<>>, v, "status")
           i2 == i1 \o TakeText(<<>>, "detail", max_detail)
           t2 == t1 \o PutText(<<>>, v, "detail")
           i3 == i2 \o TakeOptional(<<>>, "proof", decode_proof(Append(<<>>, "proof")))
           t3 == t2 \o PutOptional(<<>>, v, "proof", encode_proof)
<1> HIDE DEF i1, t1, i2, t2, i3, t3
<1>1. Agrees(i1, t1)
  BY EnumsAgree DEF i1, t1
<1>2. Agrees(i2, t2)
  <2>1. Agrees(TakeText(<<>>, "detail", max_detail), PutText(<<>>, v, "detail"))
    BY TextAgrees
  <2> QED
    BY <1>1, <2>1, AgreesConcat DEF i2, t2
<1>3. Agrees(i3, t3)
  <2>1. Agrees(TakeOptional(<<>>, "proof", decode_proof(Append(<<>>, "proof"))), PutOptional(<<>>, v, "proof", encode_proof))
    BY EmptyList, OptionalProofAgrees
  <2> QED
    BY <1>2, <2>1, AgreesConcat DEF i3, t3
<1> QED
  BY <1>3 DEF decode_mutation_result, encode_mutation_result, i1, t1, i2, t2, i3, t3

LEMMA ErrorAgrees ==
  ASSUME NEW v
  PROVE  Agrees(decode_error(<<>>), encode_error(v))
<1> DEFINE i1 == TakeEnums(<<>>, <<"status">>)
           t1 == PutU8(<<>>, v, "status")
           i2 == i1 \o TakeText(<<>>, "detail", max_detail)
           t2 == t1 \o PutText(<<>>, v, "detail")
<1> HIDE DEF i1, t1, i2, t2
<1>1. Agrees(i1, t1)
  BY EnumsAgree DEF i1, t1
<1>2. Agrees(i2, t2)
  <2>1. Agrees(TakeText(<<>>, "detail", max_detail), PutText(<<>>, v, "detail"))
    BY TextAgrees
  <2> QED
    BY <1>1, <2>1, AgreesConcat DEF i2, t2
<1> QED
  BY <1>2 DEF decode_error, encode_error, i1, t1, i2, t2

-----------------------------------------------------------------------------
(* The inductive invariant *)

\* Value x is the one that was written, or the same cast to 32 bits.
Same(x, token) == x = token.value \/ (token.as = "varint" /\ x = token.value % U32)

\* What has been taken is what was written up to the position, one value for each.
TakenInOrder ==
    /\ position \in Nat
    /\ phase = "live" => position = 0
    /\ out = [i \in 1..position |-> out[i]]
    /\ \A i \in 1..position :
           (fault.kind = "altered" /\ fault.at = i) \/ Same(out[i][2], document.input[i])

\* Once a document ends early, or goes on, its decoder is about to refuse it or has done so.
EndSeen ==
    /\ fault.kind \in {"none", "altered", "cut", "longer"}
    /\ phase = "live" => fault.kind = "none"
    /\ phase = "closed" => position = Len(document.input) \/ status # "OK"
    /\ fault.kind = "cut" =>
           \/ Taking /\ fault.at = position
           \/ phase = "closed" /\ status \in {"TRUNCATED", "LENGTH_OVERRUN"}
    /\ fault.kind = "longer" =>
           \/ phase = "reading" /\ todo = <<>>
           \/ phase = "closed" /\ status = "TRAILING_BYTES"

DecodingInv == TakenInOrder /\ EndSeen

-----------------------------------------------------------------------------
(* Sequences whose elements have no common type *)

LEMMA Listed ==
  ASSUME NEW n \in Nat, NEW s, s = [i \in 1..n |-> s[i]]
  PROVE  s \in Seq({s[i] : i \in 1..n}) /\ Len(s) = n /\ DOMAIN s = 1..n
<1> DEFINE S == {s[i] : i \in 1..n}
<1>1. s \in [1..n -> S]
  OBVIOUS
<1>2. DOMAIN s = 1..n
  OBVIOUS
<1> HIDE DEF S
<1>3. s \in Seq(S)
  BY <1>1, SeqDef
<1>4. Len(s) = n
  BY <1>2, <1>3, LenProperties
<1> QED
  BY <1>2, <1>3, <1>4 DEF S

LEMMA AppendListed ==
  ASSUME NEW n \in Nat, NEW s, s = [i \in 1..n |-> s[i]], NEW x
  PROVE  LET t == Append(s, x)
         IN  /\ t = [i \in 1..(n + 1) |-> t[i]]
             /\ t[n + 1] = x /\ \A i \in 1..n : t[i] = s[i]
<1> DEFINE S == {s[i] : i \in 1..n} \cup {x}
           t == Append(s, x)
<1>1. s \in [1..n -> S] /\ x \in S
  OBVIOUS
<1>2. Len(s) = n
  BY Listed
<1> HIDE DEF S
<1>3. s \in Seq(S)
  BY <1>1, SeqDef
<1>4. /\ t \in Seq(S) /\ Len(t) = n + 1
      /\ \A i \in 1..n : t[i] = s[i]
      /\ t[n + 1] = x
  BY <1>1, <1>2, <1>3, AppendProperties
<1>5. t \in [1..(n + 1) -> S]
  BY <1>4, LenProperties
<1> HIDE DEF t
<1>6. t = [i \in 1..(n + 1) |-> t[i]]
  BY <1>5
<1> QED
  BY <1>4, <1>6 DEF t

-----------------------------------------------------------------------------
(* The invariant is preserved *)

\* A document is opened before anything happened to it and before a value is taken.
LEMMA OpenStep ==
  ASSUME DecodingInv, phase = "live", NEW kind, NEW tokens, NEW items, NEW contents,
         Open(kind, tokens, items, contents)
  PROVE  DecodingInv'
<1>1. position = 0 /\ fault.kind = "none"
  BY DEF DecodingInv, TakenInOrder, EndSeen
<1>2. position' = position /\ fault' = fault /\ out' = out /\ phase' = "reading"
  BY DEF Open
<1>3. TakenInOrder'
  BY <1>1, <1>2 DEF DecodingInv, TakenInOrder
<1>4. EndSeen'
  BY <1>1, <1>2 DEF EndSeen
<1> QED
  BY <1>3, <1>4 DEF DecodingInv

\* A refusal takes nothing.
LEMMA RefuseStep ==
  ASSUME DecodingInv, phase = "reading", NEW s, NEW c, Refuse(s, c), s # "OK",
         fault.kind = "cut" => s \in {"TRUNCATED", "LENGTH_OVERRUN"},
         fault.kind = "longer" => s = "TRAILING_BYTES"
  PROVE  DecodingInv'
<1>1. /\ position' = position /\ fault' = fault /\ out' = out /\ document' = document
      /\ phase' = "closed" /\ status' = s
  BY DEF Refuse
<1>2. TakenInOrder'
  BY <1>1 DEF DecodingInv, TakenInOrder
<1>3. EndSeen'
  BY <1>1 DEF DecodingInv, EndSeen
<1> QED
  BY <1>2, <1>3 DEF DecodingInv

\* A value is taken only where the document goes on, and is the one written there unless it is
\* the altered one.
LEMMA TakenStep ==
  ASSUME DecodingInv, Taking, ~Ends(position), NEW v, NEW next, Taken(v, next),
         \/ v = ValueAt(position + 1)
         \/ /\ document.input[position + 1].as = "varint"
            /\ v = ValueAt(position + 1) % U32
  PROVE  DecodingInv'
<1>1. position \in Nat /\ out = [i \in 1..position |-> out[i]] /\ phase = "reading" /\ todo # <<>>
  BY DEF DecodingInv, TakenInOrder, Taking
<1>2. /\ position' = position + 1 /\ out' = Append(out, <<Head(todo).field, v>>)
      /\ phase' = phase /\ document' = document /\ fault' = fault /\ status' = status
  BY DEF Taken
<1>3. /\ out' = [i \in 1..(position + 1) |-> out'[i]]
      /\ out'[position + 1] = <<Head(todo).field, v>> /\ \A i \in 1..position : out'[i] = out[i]
  BY <1>1, <1>2, AppendListed
<1>4. ASSUME NEW i \in 1..(position + 1)
      PROVE  (fault.kind = "altered" /\ fault.at = i) \/ Same(out'[i][2], document.input[i])
  <2>1. CASE i = position + 1
    <3>1. out'[i][2] = v
      BY <1>3, <2>1
    <3>2. CASE fault.kind = "altered" /\ fault.at = i
      BY <3>2
    <3>3. CASE ~(fault.kind = "altered" /\ fault.at = i)
      <4>1. ValueAt(i) = document.input[i].value
        BY <3>3 DEF ValueAt
      <4> QED
        BY <2>1, <3>1, <4>1 DEF Same
    <3> QED
      BY <3>2, <3>3
  <2>2. CASE i # position + 1
    <3>1. i \in 1..position
      BY <1>1, <2>2
    <3> QED
      BY <1>3, <3>1 DEF DecodingInv, TakenInOrder
  <2> QED
    BY <2>1, <2>2
<1>5. TakenInOrder'
  BY <1>1, <1>2, <1>3, <1>4 DEF TakenInOrder
<1>6. EndSeen'
  BY <1>1, <1>2 DEF DecodingInv, EndSeen, Ends
<1> QED
  BY <1>5, <1>6 DEF DecodingInv

\* The runtime and the writers.
LEMMA WriteStep ==
  ASSUME DecodingInv, Commit \/ CommitAnother \/ Demote \/ Save \/ Reply \/ Send \/ OpenRefused
  PROVE  DecodingInv'
<1>1. CASE UNCHANGED <<phase, document, fault, reader>>
  BY <1>1 DEF DecodingInv, TakenInOrder, EndSeen, Taking, reader
<1>2. CASE Commit
  BY <1>1, <1>2 DEF Commit
<1>3. CASE CommitAnother
  BY <1>1, <1>3 DEF CommitAnother
<1>4. CASE Demote
  BY <1>1, <1>4 DEF Demote
<1>5. CASE Save
  <2>1. phase = "live" /\ \E kind, tokens, items, contents : Open(kind, tokens, items, contents)
    BY <1>5, Zenon DEF Save
  <2> QED
    BY <2>1, OpenStep
<1>6. CASE Reply
  <2>1. phase = "live" /\ \E kind, tokens, items, contents : Open(kind, tokens, items, contents)
    BY <1>6, Zenon DEF Reply
  <2> QED
    BY <2>1, OpenStep
<1>7. CASE Send
  <2>1. phase = "live" /\ \E kind, tokens, items, contents : Open(kind, tokens, items, contents)
    BY <1>7, Zenon DEF Send
  <2> QED
    BY <2>1, OpenStep
<1>8. CASE OpenRefused
  <2>1. /\ phase = "live" /\ phase' = "closed" /\ status' = "INVALID_ENCODING"
        /\ fault' = fault /\ position' = position /\ out' = out
    BY <1>8 DEF OpenRefused
  <2>2. position = 0 /\ fault.kind = "none"
    BY <2>1 DEF DecodingInv, TakenInOrder, EndSeen
  <2>3. TakenInOrder'
    BY <2>1, <2>2 DEF DecodingInv, TakenInOrder
  <2>4. EndSeen'
    BY <2>1, <2>2 DEF EndSeen
  <2> QED
    BY <2>3, <2>4 DEF DecodingInv
<1> QED
  BY <1>2, <1>3, <1>4, <1>5, <1>6, <1>7, <1>8

\* What may happen to a document while it is read.
LEMMA FaultStep ==
  ASSUME DecodingInv, Alter \/ Cut \/ Lengthen
  PROVE  DecodingInv'
<1>1. /\ fault.kind = "none" /\ phase = "reading"
      /\ UNCHANGED <<phase, document, reader>>
  BY DEF Alter, Cut, Lengthen, None, Taking
<1>2. position' = position /\ out' = out /\ todo' = todo /\ status' = status
  BY <1>1 DEF reader
<1>3. TakenInOrder'
  BY <1>1, <1>2 DEF DecodingInv, TakenInOrder
<1>4. EndSeen'
  <2>1. CASE Alter
    BY <1>1, <2>1 DEF Alter, EndSeen
  <2>2. CASE Cut
    BY <1>1, <1>2, <2>2 DEF Cut, EndSeen, Taking
  <2>3. CASE Lengthen
    BY <1>1, <1>2, <2>3 DEF Lengthen, EndSeen
  <2> QED
    BY <2>1, <2>2, <2>3
<1> QED
  BY <1>3, <1>4 DEF DecodingInv

\* A decoder takes a value, or refuses it.
LEMMA TakeStep ==
  ASSUME DecodingInv,
         \/ TakeValue \/ TakeNarrowedValue \/ TakeTextValue
         \/ TakeFlagValue \/ TakePresence \/ TakeSize
  PROVE  DecodingInv'
<1>1. Taking /\ ~Ends(position)
  BY DEF TakeValue, TakeNarrowedValue, TakeTextValue, TakeFlagValue, TakePresence, TakeSize, Aligned
<1>2. phase = "reading" /\ todo # <<>> /\ fault.kind # "cut" /\ fault.kind # "longer"
  BY <1>1 DEF DecodingInv, EndSeen, Taking, Ends
<1>3. ASSUME NEW s, NEW c, Refuse(s, c), s # "OK" PROVE DecodingInv'
  BY <1>2, <1>3, RefuseStep
<1>4. ASSUME NEW v, NEW next, Taken(v, next), v = ValueAt(position + 1) PROVE DecodingInv'
  BY <1>1, <1>4, TakenStep
<1>5. CASE TakeValue
  BY <1>4, <1>5 DEF TakeValue
<1>6. CASE TakeNarrowedValue
  <2>1. document.input[position + 1].as = "varint"
    BY <1>6 DEF TakeNarrowedValue, Aligned, Primitive
  <2>2. Taken(ValueAt(position + 1) % U32, <<>>)
    BY <1>6 DEF TakeNarrowedValue
  <2> QED
    BY <1>1, <2>1, <2>2, TakenStep
<1>7. CASE TakeTextValue
  BY <1>3, <1>4, <1>7 DEF TakeTextValue
<1>8. CASE TakeFlagValue
  BY <1>3, <1>4, <1>8 DEF TakeFlagValue
<1>9. CASE TakePresence
  BY <1>3, <1>4, <1>9 DEF TakePresence
<1>10. CASE TakeSize
  BY <1>3, <1>4, <1>10 DEF TakeSize
<1> QED
  BY <1>5, <1>6, <1>7, <1>8, <1>9, <1>10

\* The checks, the end of the document and the end of the decoder.
LEMMA EndStep ==
  ASSUME DecodingInv, RunCheck \/ RunOut \/ Misaligned \/ Finish \/ Closed
  PROVE  DecodingInv'
<1>1. ASSUME phase = "reading", fault.kind # "cut", fault.kind # "longer",
             NEW s, NEW c, Refuse(s, c), s # "OK"
      PROVE  DecodingInv'
  BY <1>1, RefuseStep
<1>2. CASE RunCheck
  <2>1. phase = "reading" /\ fault.kind # "cut" /\ fault.kind # "longer"
    BY <1>2 DEF RunCheck, DecodingInv, EndSeen, Taking
  <2>2. CASE UNCHANGED <<live, phase, document, fault, position, out, status, failure>>
    <3>1. TakenInOrder'
      BY <2>2 DEF DecodingInv, TakenInOrder
    <3>2. EndSeen'
      BY <2>1, <2>2 DEF DecodingInv, EndSeen
    <3> QED
      BY <3>1, <3>2 DEF DecodingInv
  <2>3. CASE Refuse("INVALID_ENCODING", Head(todo).failure)
    BY <1>1, <2>1, <2>3
  <2> QED
    BY <1>2, <2>2, <2>3 DEF RunCheck
<1>3. CASE RunOut
  <2>1. phase = "reading" /\ fault.kind # "longer"
    BY <1>3 DEF RunOut, DecodingInv, EndSeen, Taking
  <2>2. \E s \in {"TRUNCATED", "LENGTH_OVERRUN"} : Refuse(s, Unclassified)
    BY <1>3 DEF RunOut
  <2> QED
    BY <2>1, <2>2, RefuseStep
<1>4. CASE Misaligned
  <2>1. phase = "reading" /\ fault.kind # "cut" /\ fault.kind # "longer"
    BY <1>4 DEF Misaligned, DecodingInv, EndSeen, Taking, Ends
  <2> QED
    BY <1>1, <1>4, <2>1 DEF Misaligned
<1>5. CASE Finish
  <2>1. phase = "reading" /\ todo = <<>> /\ fault.kind # "cut"
    BY <1>5 DEF Finish, DecodingInv, EndSeen, Taking
  <2>2. CASE Refuse("TRAILING_BYTES", Unclassified)
    BY <2>1, <2>2, RefuseStep
  <2>3. CASE /\ position = Len(document.input) /\ fault.kind # "longer" /\ phase' = "closed"
             /\ UNCHANGED <<live, document, fault, reader>>
    <3>1. position' = position /\ out' = out /\ status' = status /\ document' = document /\ fault' = fault
      BY <2>3 DEF reader
    <3>2. TakenInOrder'
      BY <2>3, <3>1 DEF DecodingInv, TakenInOrder
    <3>3. EndSeen'
      BY <2>1, <2>3, <3>1 DEF DecodingInv, EndSeen
    <3> QED
      BY <3>2, <3>3 DEF DecodingInv
  <2> QED
    BY <1>5, <2>2, <2>3 DEF Finish
<1>6. CASE Closed
  BY <1>6 DEF Closed, vars, reader, DecodingInv, TakenInOrder, EndSeen, Taking
<1> QED
  BY <1>2, <1>3, <1>4, <1>5, <1>6

-----------------------------------------------------------------------------
(* Theorems *)

(* What a decoder has taken is a prefix of what was written, and no document  *)
(* that is known to end early or to go on is read any further: an inductive   *)
(* invariant of the decoders of persistence_store.cpp and wire.cpp.           *)
THEOREM DecodingInvariant == Spec => []DecodingInv
<1>1. Init => DecodingInv
  <2> SUFFICES ASSUME Init PROVE DecodingInv
    OBVIOUS
  <2>1. position = 0 /\ out = <<>> /\ fault = None /\ phase = "live"
    BY DEF Init
  <2>2. TakenInOrder
    BY <2>1 DEF TakenInOrder
  <2>3. EndSeen
    BY <2>1 DEF EndSeen, None
  <2> QED
    BY <2>2, <2>3 DEF DecodingInv
<1>2. DecodingInv /\ [Next]_vars => DecodingInv'
  <2> SUFFICES ASSUME DecodingInv, [Next]_vars PROVE DecodingInv'
    OBVIOUS
  <2>1. CASE Next
    BY <2>1, WriteStep, FaultStep, TakeStep, EndStep DEF Next
  <2>2. CASE UNCHANGED vars
    BY <2>2 DEF vars, reader, DecodingInv, TakenInOrder, EndSeen, Taking
  <2> QED
    BY <2>1, <2>2
<1> QED
  BY <1>1, <1>2, PTL DEF Spec

(* Nothing is accepted in part (AcceptedInFull): a document that ends early   *)
(* or goes on after its end is refused, a store that ends early as TRUNCATED, *)
(* and an accepted one was taken value by value to its last one, as written   *)
(* but for the altered value and the casts to 32 bits.                        *)
THEOREM NothingAcceptedInPart == Spec => []AcceptedInFull
<1>1. DecodingInv => AcceptedInFull
  <2> SUFFICES ASSUME DecodingInv PROVE AcceptedInFull
    OBVIOUS
  <2>1. /\ position \in Nat /\ Len(out) = position /\ DOMAIN out = 1..position
    BY Listed DEF DecodingInv, TakenInOrder
  <2>2. ASSUME Accepted
        PROVE  /\ fault.kind \notin {"cut", "longer"}
               /\ Len(out) = Len(document.input)
    BY <2>1, <2>2 DEF DecodingInv, EndSeen, Accepted, Taking
  <2>3. ASSUME NEW i \in DOMAIN out
        PROVE  \/ fault.kind = "altered" /\ fault.at = i
               \/ out[i][2] = document.input[i].value
               \/ document.input[i].as = "varint" /\ out[i][2] = document.input[i].value % U32
    BY <2>1 DEF DecodingInv, TakenInOrder, Same
  <2>4. ASSUME phase = "closed", fault.kind = "cut"
        PROVE  persistence_status_for(status, failure) = "TRUNCATED"
    <3>1. status \in {"TRUNCATED", "LENGTH_OVERRUN"}
      BY <2>4 DEF DecodingInv, EndSeen, Taking
    <3> QED
      BY <3>1 DEF persistence_status_for
  <2> QED
    BY <2>2, <2>3, <2>4 DEF AcceptedInFull
<1> QED
  BY <1>1, DecodingInvariant, PTL

-----------------------------------------------------------------------------
(* The decoders follow the writers *)

\* The refusals of a decoder that is not where the writer was.
OutOfStep == {"MISALIGNED", "TRUNCATED", "LENGTH_OVERRUN", "TRAILING_BYTES"}

Members == {"request", "limit", "classes", "advisories", "conflicts", "matrix", "witness",
            "dependencies"}

\* What the runtime holds can be written: its revisions and captures are records of lists.
Writable ==
    phase = "live" =>
        /\ status = "OK"
        /\ Committed(proof) /\ proof.request \in Requests /\ Members \subseteq DOMAIN proof
        /\ IsList(history) /\ \A i \in DOMAIN history : Committed(history[i])
        /\ IsList(snapshots) /\ snapshots # <<>>
        /\ \A i \in DOMAIN snapshots : Captured(snapshots[i])

\* As long as nothing happened to the document, the items the decoder has yet to work off agree
\* with the values it has yet to take, and those it took were taken for the members they are.
InStep ==
    fault = None /\ phase # "live" =>
        /\ \A i \in 1..position : out[i][1] = document.input[i].field
        /\ status \notin OutOfStep
        /\ phase = "reading" =>
               /\ IsList(document.input) /\ position <= Len(document.input)
               /\ Agrees(todo, SubSeq(document.input, position + 1, Len(document.input)))

ReadingInv == DecodingInv /\ Writable /\ InStep

\* What is left of a list after its first n elements.
LEMMA RestOf ==
  ASSUME NEW s, IsList(s), NEW n \in Nat, n <= Len(s)
  PROVE  LET r == SubSeq(s, n + 1, Len(s))
         IN  /\ IsList(r) /\ (r = <<>> <=> n = Len(s))
             /\ n # Len(s) => /\ n + 1 <= Len(s) /\ Head(r) = s[n + 1]
                              /\ Tail(r) = SubSeq(s, (n + 1) + 1, Len(s))
             /\ SubSeq(s, 0 + 1, Len(s)) = s
<1> DEFINE m == Len(s)
           r == SubSeq(s, n + 1, m)
           q == SubSeq(s, (n + 1) + 1, m)
           a == SubSeq(s, 0 + 1, m)
<1>1. PICK S : s \in Seq(S)
  BY CommonType
<1>2. m \in Nat /\ \A i \in 1..m : s[i] \in S
  BY <1>1, LenProperties, ElementOfSeq
<1>3. r \in Seq(S) /\ Len(r) = m - n /\ \A i \in 1..(m - n) : r[i] = s[n + i]
  <2>1. n + 1 \in 1..(m + 1) /\ m \in (n + 1 - 1)..m
    BY <1>2
  <2> QED
    BY <1>1, <1>2, <2>1, SubSeqProperties
<1>4. a \in Seq(S) /\ Len(a) = m /\ \A i \in 1..m : a[i] = s[i]
  BY <1>1, <1>2, SubSeqProperties
<1>5. a = s
  <2> HIDE DEF a
  <2> QED
    BY <1>1, <1>4, SeqEqual DEF m
<1>6. IsList(r)
  BY <1>3, SeqIsList
<1>7. r = <<>> <=> n = m
  <2> HIDE DEF r, m
  <2> QED
    BY <1>2, <1>3, EmptySeq
<1>8. ASSUME n # m PROVE n + 1 <= m /\ Head(r) = s[n + 1] /\ Tail(r) = q
  <2>1. n + 1 <= m
    BY <1>2, <1>8
  <2>2. q \in Seq(S) /\ Len(q) = m - (n + 1) /\ \A i \in 1..(m - (n + 1)) : q[i] = s[(n + 1) + i]
    BY <1>1, <1>2, <2>1, SubSeqProperties
  <2> HIDE DEF r, q, m
  <2>3. /\ r # <<>> /\ Head(r) = r[1] /\ Tail(r) \in Seq(S)
        /\ Len(Tail(r)) = Len(r) - 1 /\ \A i \in 1..Len(Tail(r)) : Tail(r)[i] = r[i + 1]
    BY <1>3, <1>7, <1>8, HeadTailProperties
  <2>4. Head(r) = s[n + 1]
    BY <1>2, <1>3, <2>1, <2>3
  <2> DEFINE t == Tail(r)
  <2>5. t \in Seq(S) /\ Len(t) = m - (n + 1) /\ \A i \in 1..(m - (n + 1)) : t[i] = r[i + 1]
    BY <1>2, <1>3, <2>1, <2>3
  <2> HIDE DEF t
  <2>6. ASSUME NEW i \in 1..(m - (n + 1)) PROVE t[i] = q[i]
    <3>1. i + 1 \in 1..(m - n) /\ n + (i + 1) = (n + 1) + i
      BY <1>2, <2>1
    <3>2. t[i] = r[i + 1] /\ r[i + 1] = s[n + (i + 1)] /\ q[i] = s[(n + 1) + i]
      BY <1>3, <2>2, <2>5, <3>1
    <3> QED
      BY <3>1, <3>2
  <2>7. t = q
    BY <2>2, <2>5, <2>6, SeqEqual
  <2> QED
    BY <2>1, <2>4, <2>7 DEF t
<1> QED
  BY <1>5, <1>6, <1>7, <1>8

\* The retention of revisions and captures keeps a list of what was there.
LEMMA KeptList ==
  ASSUME NEW s, IsList(s), NEW x, NEW t, t = Append(Kept(s), x)
  PROVE  /\ IsList(t) /\ t # <<>>
         /\ \A i \in DOMAIN t : t[i] = x \/ \E j \in DOMAIN s : t[i] = s[j]
<1> DEFINE S == {s[j] : j \in DOMAIN s}
           T == S \cup {x}
           k == Kept(s)
<1>1. s \in Seq(S)
  <2>1. \A i \in 1..Len(s) : s[i] \in S
    BY DEF IsList
  <2> HIDE DEF S
  <2> QED
    BY <2>1, ListTyped
<1>2. k \in Seq(S)
  <2> HIDE DEF S
  <2>1. CASE Len(s) >= max_history
    <3>1. s # <<>>
      BY <2>1, HistoryAssumption, EmptyList
    <3>2. Tail(s) \in Seq(S)
      BY <1>1, <3>1, HeadTailProperties
    <3> QED
      BY <2>1, <3>2 DEF Kept
  <2>2. CASE ~(Len(s) >= max_history)
    BY <1>1, <2>2 DEF Kept
  <2> QED
    BY <2>1, <2>2
<1>3. x \in T /\ \A y \in S : y \in T
  OBVIOUS
<1>4. t \in Seq(T) /\ t # <<>>
  <2>0. t = Append(k, x)
    OBVIOUS
  <2> HIDE DEF S, T, k
  <2>1. k \in Seq(T)
    BY <1>2, <1>3, LenProperties, SeqDef, ElementOfSeq, IsASeq
  <2>2. t \in Seq(T) /\ Len(t) = Len(k) + 1
    BY <1>3, <2>0, <2>1, AppendProperties
  <2>3. Len(k) \in Nat
    BY <2>1, LenProperties
  <2> QED
    BY <2>2, <2>3, EmptyList
<1>5. \A i \in DOMAIN t : t[i] \in T
  <2> HIDE DEF S, T, k
  <2> QED
    BY <1>4, LenProperties, ElementOfSeq
<1>6. IsList(t)
  <2> HIDE DEF S, T, k
  <2> QED
    BY <1>4, SeqIsList
<1> QED
  BY <1>4, <1>5, <1>6

\* A commit stores a revision, and captures a snapshot, that can be written.
LEMMA RevisionWritable ==
  ASSUME NEW request \in Requests, NEW e \in Evaluations(request), NEW generation
  PROVE  LET p == Revision(request, e, generation)
         IN  Committed(p) /\ p.request = request /\ Members \subseteq DOMAIN p
<1>1. IsList(request.paths) /\ Evaluated(e)
  BY EvaluationsAssumption
<1> DEFINE p == Revision(request, e, generation)
<1>2. /\ p.request = request /\ p.limit = e.limit /\ p.classes = e.classes
      /\ p.advisories = e.advisories /\ p.conflicts = e.conflicts /\ p.matrix = e.matrix
      /\ p.witness = e.witness /\ p.dependencies = e.dependencies
      /\ Members \subseteq DOMAIN p
  BY DEF Revision, Members
<1> HIDE DEF p
<1>3. Committed(p)
  BY <1>1, <1>2 DEF Committed, Evaluated
<1> QED
  BY <1>2, <1>3 DEF p

LEMMA CaptureWritable ==
  ASSUME NEW p, Committed(p)
  PROVE  Captured(capture_snapshot(p))
<1> DEFINE c == capture_snapshot(p)
<1>1. /\ c.paths = p.request.paths /\ c.classes = p.classes /\ c.conflicts = p.conflicts
      /\ c.witness = p.witness /\ c.dependencies = p.dependencies
  BY DEF capture_snapshot
<1> HIDE DEF c
<1>2. Captured(c)
  BY <1>1 DEF Captured, Committed, Evaluated
<1> QED
  BY <1>2 DEF c

LEMMA SingleElement ==
  ASSUME NEW x
  PROVE  \A i \in DOMAIN <<x>> : <<x>>[i] = x
OBVIOUS

\* The runtime commits, demotes and captures what can be written.
LEMMA LiveStep ==
  ASSUME Writable, Commit \/ CommitAnother \/ Demote
  PROVE  Writable'
<1>1. /\ phase = "live" /\ phase' = "live" /\ status' = status /\ status = "OK"
      /\ Committed(proof) /\ proof.request \in Requests /\ Members \subseteq DOMAIN proof
      /\ IsList(history) /\ \A i \in DOMAIN history : Committed(history[i])
      /\ IsList(snapshots) /\ snapshots # <<>>
      /\ \A i \in DOMAIN snapshots : Captured(snapshots[i])
  BY DEF Writable, Commit, CommitAnother, Demote, reader
<1>2. ASSUME NEW s, s = Append(Kept(snapshots), capture_snapshot(proof')), Committed(proof')
      PROVE  IsList(s) /\ s # <<>> /\ \A i \in DOMAIN s : Captured(s[i])
  <2>1. Captured(capture_snapshot(proof'))
    BY <1>2, CaptureWritable
  <2> DEFINE c == capture_snapshot(proof')
  <2> HIDE DEF c
  <2>2. IsList(s) /\ s # <<>> /\ \A i \in DOMAIN s : s[i] = c \/ \E j \in DOMAIN snapshots : s[i] = snapshots[j]
    <3>1. s = Append(Kept(snapshots), c)
      BY <1>2 DEF c
    <3>2. IsList(snapshots)
      BY <1>1
    <3>3. IsList(s) /\ s # <<>>
      BY <3>1, <3>2, KeptList
    <3>4. \A i \in DOMAIN s : s[i] = c \/ \E j \in DOMAIN snapshots : s[i] = snapshots[j]
      BY <3>1, <3>2, KeptList
    <3> QED
      BY <3>3, <3>4
  <2> QED
    BY <1>1, <2>1, <2>2 DEF c
<1>3. CASE Commit
  <2>1. PICK e \in Evaluations(proof.request) :
            proof' = Revision(proof.request, e, proof.generation + 1)
    BY <1>3 DEF Commit
  <2>2. Committed(proof') /\ proof'.request \in Requests /\ Members \subseteq DOMAIN proof'
    BY <1>1, <2>1, RevisionWritable
  <2>3. IsList(history') /\ \A i \in DOMAIN history' : Committed(history'[i])
    <3>1. history' = Append(Kept(history), proof)
      BY <1>3 DEF Commit
    <3>2. IsList(history)
      BY <1>1
    <3>3. IsList(history')
      BY <3>1, <3>2, KeptList
    <3>4. \A i \in DOMAIN history' :
              history'[i] = proof \/ \E j \in DOMAIN history : history'[i] = history[j]
      BY <3>1, <3>2, KeptList
    <3> QED
      BY <1>1, <3>3, <3>4
  <2>4. snapshots' = Append(Kept(snapshots), capture_snapshot(proof'))
    BY <1>3 DEF Commit
  <2>5. IsList(snapshots') /\ snapshots' # <<>> /\ \A i \in DOMAIN snapshots' : Captured(snapshots'[i])
    BY <1>2, <2>2, <2>4
  <2> QED
    BY <1>1, <2>2, <2>3, <2>5 DEF Writable
<1>4. CASE CommitAnother
  <2>1. PICK request \in Requests : \E e \in Evaluations(request) : proof' = Revision(request, e, 1)
    BY <1>4 DEF CommitAnother
  <2>2. Committed(proof') /\ proof'.request \in Requests /\ Members \subseteq DOMAIN proof'
    BY <2>1, RevisionWritable
  <2>3. IsList(history') /\ \A i \in DOMAIN history' : Committed(history'[i])
    BY <1>4, EmptyList DEF CommitAnother
  <2>4. snapshots' = Append(Kept(snapshots), capture_snapshot(proof'))
    BY <1>4 DEF CommitAnother
  <2>5. IsList(snapshots') /\ snapshots' # <<>> /\ \A i \in DOMAIN snapshots' : Captured(snapshots'[i])
    BY <1>2, <2>2, <2>4
  <2> QED
    BY <1>1, <2>2, <2>3, <2>5 DEF Writable
<1>5. CASE Demote
  <2>1. /\ history' = history /\ snapshots' = snapshots
        /\ proof' = [proof EXCEPT !.lifecycle = "REVALIDATION_REQUIRED",
                                  !.currentness = "STALE_TOPOLOGY", !.detail = 1]
    BY <1>5 DEF Demote
  <2>2. DOMAIN proof' = DOMAIN proof /\ \A m \in Members : proof'[m] = proof[m]
    BY <1>1, <2>1 DEF Members
  <2>3. Committed(proof') /\ proof'.request \in Requests
    BY <1>1, <2>2 DEF Committed, Evaluated, Members
  <2> QED
    BY <1>1, <2>1, <2>2, <2>3 DEF Writable
<1> QED
  BY <1>3, <1>4, <1>5

\* A document is opened together with the decoder that agrees with it.
LEMMA OpenInStep ==
  ASSUME DecodingInv, Writable, phase = "live", NEW kind, NEW tokens, NEW items, NEW contents,
         Open(kind, tokens, items, contents), Agrees(items, tokens)
  PROVE  Writable' /\ InStep'
<1>1. /\ position = 0 /\ status = "OK" /\ position' = position /\ status' = status
      /\ phase' = "reading" /\ todo' = items /\ document'.input = tokens
  BY DEF DecodingInv, TakenInOrder, Writable, Open
<1>2. IsList(tokens) /\ SubSeq(tokens, 0 + 1, Len(tokens)) = tokens /\ 0 <= Len(tokens)
  <2>1. IsList(tokens)
    BY AgreesStep
  <2>2. Len(tokens) \in Nat
    BY <2>1 DEF IsList
  <2> QED
    BY <2>1, <2>2, RestOf
<1>3. Agrees(todo', SubSeq(document'.input, position' + 1, Len(document'.input)))
  BY <1>1, <1>2
<1>4. \A i \in 1..position' : FALSE
  BY <1>1
<1> QED
  BY <1>1, <1>2, <1>3, <1>4 DEF Writable, InStep, OutOfStep

LEMMA SaveStep ==
  ASSUME DecodingInv, Writable, Save
  PROVE  Writable' /\ InStep'
<1>1. /\ phase = "live" /\ Committed(proof)
      /\ IsList(history) /\ \A i \in DOMAIN history : Committed(history[i])
      /\ Captured(Last(snapshots))
  <2>1. phase = "live"
    BY DEF Save
  <2>2. IsList(snapshots) /\ snapshots # <<>> /\ \A i \in DOMAIN snapshots : Captured(snapshots[i])
    BY <2>1 DEF Writable
  <2>3. Len(snapshots) \in DOMAIN snapshots
    <3>1. Len(snapshots) # 0
      <4>1. PICK S : snapshots \in Seq(S)
        BY <2>2, CommonType
      <4> QED
        BY <2>2, <4>1, EmptySeq
    <3> QED
      BY <2>2, <3>1 DEF IsList
  <2> QED
    BY <2>1, <2>2, <2>3 DEF Writable, Last
<1> DEFINE Held(policy, exported) ==
               [epoch |-> 1, policies |-> <<policy>>, proofs |-> <<proof>>,
                sessions |-> IF exported THEN <<[publisher |-> "publisher", boot |-> "boot",
                                   epoch |-> 1, scope |-> "scope", fenced |-> TRUE]>> ELSE <<>>,
                fenced_boots |-> <<"old boot">>,
                attempts |-> IF exported THEN <<[attempt |-> "attempt", payload |-> <<"payload">>,
                                   proof |-> proof.id]>> ELSE <<>>,
                history |-> IF history = <<>> THEN <<>>
                            ELSE <<[proof |-> proof.id, revisions |-> history]>>,
                snapshots |-> <<Last(snapshots)>>]
<1>2. PICK policy \in Policies, exported \in BOOLEAN :
          Open("store", encode_store(Held(policy, exported)), decode_store(<<>>),
               [proofs |-> {proof} \cup Range(history), policies |-> {policy}])
  BY DEF Save
<1> DEFINE c == Held(policy, exported)
<1>3. Policy(policy)
  BY PoliciesAssumption DEF Policy
<1>4. /\ c.policies = <<policy>> /\ c.proofs = <<proof>> /\ c.fenced_boots = <<"old boot">>
      /\ c.snapshots = <<Last(snapshots)>>
  OBVIOUS
<1>5. IsList(c.sessions) /\ IsList(c.attempts)
  BY EmptyList, SingleList
<1>6. IsList(c.history) /\ \A i \in DOMAIN c.history : Replaced(c.history[i])
  <2> DEFINE h == [proof |-> proof.id, revisions |-> history]
  <2>1. c.history = IF history = <<>> THEN <<>> ELSE <<h>>
    OBVIOUS
  <2>2. Replaced(h)
    BY <1>1 DEF Replaced
  <2> HIDE DEF h, c
  <2> QED
    BY <2>1, <2>2, EmptyList, SingleList
<1> HIDE DEF c
<1>7. Contents(c)
  <2>1. /\ IsList(c.policies) /\ \A i \in DOMAIN c.policies : c.policies[i] = policy
        /\ IsList(c.proofs) /\ \A i \in DOMAIN c.proofs : c.proofs[i] = proof
        /\ IsList(c.fenced_boots) /\ IsList(c.snapshots)
        /\ \A i \in DOMAIN c.snapshots : c.snapshots[i] = Last(snapshots)
    BY <1>4, SingleList, SingleElement
  <2> QED
    BY <1>1, <1>3, <1>5, <1>6, <2>1 DEF Contents
<1>8. Agrees(decode_store(<<>>), encode_store(c))
  BY <1>7, StoreAgrees
<1> QED
  BY <1>1, <1>2, <1>8, OpenInStep DEF c

LEMMA ReplyStep ==
  ASSUME DecodingInv, Writable, Reply
  PROVE  Writable' /\ InStep'
<1> DEFINE v == [status |-> "APPLIED", detail |-> 1, proof |-> <<proof>>]
<1>1. phase = "live" /\ Committed(proof)
  BY DEF Reply, Writable
<1>2. v.proof = <<proof>>
  OBVIOUS
<1>3. Open("mutation_result", encode_mutation_result(v), decode_mutation_result(<<>>),
           [proofs |-> {proof}, policies |-> {}])
  BY DEF Reply
<1> HIDE DEF v
<1>4. IsList(v.proof) /\ Len(v.proof) <= 1 /\ \A i \in DOMAIN v.proof : v.proof[i] = proof
  BY <1>2, SingleList, SingleElement
<1>5. Agrees(decode_mutation_result(<<>>), encode_mutation_result(v))
  BY <1>1, <1>4, MutationResultAgrees
<1> QED
  BY <1>1, <1>3, <1>5, OpenInStep

LEMMA SendStep ==
  ASSUME DecodingInv, Writable, Send
  PROVE  Writable' /\ InStep'
<1> DEFINE nothing == [proofs |-> {}, policies |-> {}]
           hello == [publisher |-> "publisher", boot |-> "boot", epoch |-> 1, scope |-> "scope"]
           publish_policy(policy) == [authority |-> Authority, policy |-> policy]
           publish_proof == [authority |-> Authority, request |-> proof.request]
           revalidate == [authority |-> Authority, proof |-> proof.id]
           query == [selector |-> 0, path |-> <<"path">>, domain |-> <<>>, policy |-> <<>>,
                     entity_kind |-> "LINK", entity_id |-> "entity"]
           query_result == [proofs |-> <<proof.id>>, truncated |-> TRUE, total |-> 2]
           error == [status |-> "MALFORMED_PAYLOAD", detail |-> 1]
<1>1. phase = "live" /\ IsList(proof.request.paths)
  BY DEF Send, Writable, Committed
<1>2. ASSUME NEW kind, NEW tokens, NEW items, NEW contents,
             Open(kind, tokens, items, contents), Agrees(items, tokens)
      PROVE  Writable' /\ InStep'
  BY <1>1, <1>2, OpenInStep
<1>3. CASE Open("hello", encode_hello(hello), decode_hello(<<>>), nothing)
  BY <1>2, <1>3, HelloAgrees
<1>4. ASSUME NEW policy \in Policies,
             Open("publish_policy", encode_publish_policy(publish_policy(policy)),
                  decode_publish_policy(<<>>), [proofs |-> {}, policies |-> {policy}])
      PROVE  Writable' /\ InStep'
  <2> DEFINE v == publish_policy(policy)
  <2>1. v.policy = policy /\ Policy(policy)
    BY PoliciesAssumption DEF Policy
  <2> HIDE DEF v
  <2>2. Agrees(decode_publish_policy(<<>>), encode_publish_policy(v))
    BY <2>1, PublishPolicyAgrees
  <2> QED
    BY <1>2, <1>4, <2>2 DEF v
<1>5. CASE Open("publish_proof", encode_publish_proof(publish_proof), decode_publish_proof(<<>>), nothing)
  <2>1. publish_proof.request = proof.request
    OBVIOUS
  <2> HIDE DEF publish_proof
  <2>2. Agrees(decode_publish_proof(<<>>), encode_publish_proof(publish_proof))
    BY <1>1, <2>1, PublishProofAgrees
  <2> QED
    BY <1>2, <1>5, <2>2
<1>6. CASE Open("revalidate", encode_revalidate(revalidate), decode_revalidate(<<>>), nothing)
  BY <1>2, <1>6, RevalidateAgrees
<1>7. CASE Open("query", encode_query(query), decode_query(<<>>), nothing)
  <2>1. query.path = <<"path">> /\ query.domain = <<>> /\ query.policy = <<>>
    OBVIOUS
  <2> HIDE DEF query
  <2>2. /\ IsList(query.path) /\ IsList(query.domain) /\ IsList(query.policy)
        /\ Len(query.path) <= 1 /\ Len(query.domain) <= 1 /\ Len(query.policy) <= 1
    BY <2>1, SingleList, EmptyList
  <2>3. Agrees(decode_query(<<>>), encode_query(query))
    BY <2>2, QueryAgrees
  <2> QED
    BY <1>2, <1>7, <2>3
<1>8. CASE Open("query_result", encode_query_result(query_result), decode_query_result(<<>>), nothing)
  <2>1. query_result.proofs = <<proof.id>>
    OBVIOUS
  <2> HIDE DEF query_result
  <2>2. Agrees(decode_query_result(<<>>), encode_query_result(query_result))
    BY <2>1, SingleList, QueryResultAgrees
  <2> QED
    BY <1>2, <1>8, <2>2
<1>9. CASE Open("error", encode_error(error), decode_error(<<>>), nothing)
  BY <1>2, <1>9, ErrorAgrees
<1> QED
  BY <1>3, <1>4, <1>5, <1>6, <1>7, <1>8, <1>9, Zenon DEF Send

\* What holds of a decoder that is in step when it is about to take a value.
LEMMA NextTaken ==
  ASSUME DecodingInv, InStep, Taking, fault = None
  PROVE  LET token == document.input[position + 1]
             due == Due(Head(todo), token.value)
         IN  /\ ~Ends(position) /\ position + 1 <= Len(document.input) /\ IsList(document.input)
             /\ token.field = Head(todo).field /\ token.as = Primitive(Head(todo).take)
             /\ ValueAt(position + 1) = token.value
             /\ Agrees(due \o Tail(todo),
                       SubSeq(document.input, (position + 1) + 1, Len(document.input)))
<1> DEFINE input == document.input
           rest == SubSeq(input, position + 1, Len(input))
<1>1. phase = "reading" /\ todo # <<>> /\ Head(todo).take # "check" /\ fault.kind = "none"
  BY DEF Taking, None
<1>2. position \in Nat
  BY DEF DecodingInv, TakenInOrder
<1>3. IsList(input) /\ position <= Len(input) /\ Agrees(todo, rest)
  BY <1>1 DEF InStep
<1>4. /\ rest # <<>> /\ Follows(Head(todo), Head(rest))
      /\ Agrees(Due(Head(todo), Head(rest).value) \o Tail(todo), Tail(rest))
  <2> HIDE DEF rest
  <2> QED
    BY <1>1, <1>3, AgreesStep
<1>5. /\ position # Len(input) /\ position + 1 <= Len(input) /\ Head(rest) = input[position + 1]
      /\ Tail(rest) = SubSeq(input, (position + 1) + 1, Len(input))
  BY <1>2, <1>3, <1>4, RestOf
<1>6. ~Ends(position)
  BY <1>1, <1>5 DEF Ends
<1>7. ValueAt(position + 1) = input[position + 1].value
  BY <1>1 DEF ValueAt
<1> HIDE DEF rest
<1> QED
  BY <1>3, <1>4, <1>5, <1>6, <1>7 DEF Follows

\* The items that follow a value are those that are due.
LEMMA TakenInStep ==
  ASSUME DecodingInv, InStep, Taking, fault = None, NEW v,
         Taken(v, Due(Head(todo), document.input[position + 1].value))
  PROVE  InStep'
<1> DEFINE input == document.input
           due == Due(Head(todo), input[position + 1].value)
<1>1. /\ position + 1 <= Len(input) /\ IsList(input)
      /\ input[position + 1].field = Head(todo).field
      /\ Agrees(due \o Tail(todo), SubSeq(input, (position + 1) + 1, Len(input)))
  BY NextTaken
<1>2. /\ position' = position + 1 /\ out' = Append(out, <<Head(todo).field, v>>)
      /\ todo' = due \o Tail(todo) /\ phase' = phase /\ document' = document /\ fault' = fault
      /\ status' = status
  BY DEF Taken
<1>3. position \in Nat /\ out = [i \in 1..position |-> out[i]] /\ phase = "reading"
  BY DEF DecodingInv, TakenInOrder, Taking
<1>4. /\ out'[position + 1] = <<Head(todo).field, v>> /\ \A i \in 1..position : out'[i] = out[i]
  BY <1>2, <1>3, AppendListed
<1>5. \A i \in 1..position : out[i][1] = input[i].field
  BY <1>3 DEF InStep
<1>6. status \notin OutOfStep
  BY <1>3 DEF InStep
<1> HIDE DEF due, input
<1>7. ASSUME NEW i \in 1..(position + 1) PROVE out'[i][1] = input[i].field
  <2>1. CASE i = position + 1
    BY <1>1, <1>4, <2>1
  <2>2. CASE i # position + 1
    <3>1. i \in 1..position
      BY <1>3, <2>2
    <3> QED
      BY <1>4, <1>5, <3>1
  <2> QED
    BY <2>1, <2>2
<1>8. Agrees(todo', SubSeq(input, position' + 1, Len(input)))
  BY <1>1, <1>2
<1>9. document'.input = input
  BY <1>2 DEF input
<1> QED
  BY <1>1, <1>2, <1>3, <1>6, <1>7, <1>8, <1>9 DEF InStep

LEMMA RefuseInStep ==
  ASSUME InStep, phase = "reading", NEW s, NEW c, Refuse(s, c), fault = None => s \notin OutOfStep
  PROVE  InStep'
BY DEF InStep, Refuse

LEMMA TakeInStep ==
  ASSUME DecodingInv, InStep, fault = None,
         \/ TakeValue \/ TakeNarrowedValue \/ TakeTextValue
         \/ TakeFlagValue \/ TakePresence \/ TakeSize
  PROVE  InStep'
<1>1. Taking /\ phase = "reading"
  BY DEF TakeValue, TakeNarrowedValue, TakeTextValue, TakeFlagValue, TakePresence, TakeSize,
         Aligned, Taking
<1> DEFINE token == document.input[position + 1]
           item == Head(todo)
           due == Due(item, token.value)
<1>2. ValueAt(position + 1) = token.value
  BY <1>1, NextTaken
<1>3. ASSUME NEW v, Taken(v, due) PROVE InStep'
  BY <1>1, <1>3, TakenInStep
<1>4. ASSUME NEW s \in {"LIMIT_EXCEEDED", "INVALID_ENCODING"}, NEW c, Refuse(s, c) PROVE InStep'
  BY <1>1, <1>4, RefuseInStep DEF OutOfStep
<1>5. item.take \notin {"size", "presence"} => due = <<>>
  BY DEF Due
<1>6. CASE TakeValue
  <2>1. item.take \notin {"size", "presence"}
    BY <1>6 DEF TakeValue, Aligned
  <2>2. Taken(ValueAt(position + 1), due)
    BY <1>5, <1>6, <2>1 DEF TakeValue
  <2> QED
    BY <1>3, <2>2
<1>7. CASE TakeNarrowedValue
  <2>1. item.take \notin {"size", "presence"}
    BY <1>7 DEF TakeNarrowedValue, Aligned
  <2>2. Taken(ValueAt(position + 1) % U32, due)
    BY <1>5, <1>7, <2>1 DEF TakeNarrowedValue
  <2> QED
    BY <1>3, <2>2
<1>8. CASE TakeTextValue
  <2>1. item.take \notin {"size", "presence"}
    BY <1>8 DEF TakeTextValue, Aligned
  <2>2. Taken(ValueAt(position + 1), due) \/ Refuse("LIMIT_EXCEEDED", Unclassified)
    BY <1>5, <1>8, <2>1 DEF TakeTextValue
  <2> QED
    BY <1>3, <1>4, <2>2
<1>9. CASE TakeFlagValue
  <2>1. item.take \notin {"size", "presence"}
    BY <1>9 DEF TakeFlagValue, Aligned
  <2>2. Taken(ValueAt(position + 1), due) \/ Refuse("INVALID_ENCODING", item.failure)
    BY <1>5, <1>9, <2>1 DEF TakeFlagValue
  <2> QED
    BY <1>3, <1>4, <2>2
<1>10. CASE TakePresence
  <2>1. item.take = "presence"
    BY <1>10 DEF TakePresence, Aligned
  <2>2. due = IF token.value = 1 THEN item.items ELSE <<>>
    BY <2>1 DEF Due
  <2> HIDE DEF due
  <2>3. \/ token.value = 0 /\ Taken(0, <<>>)
        \/ token.value = 1 /\ Taken(1, item.items)
        \/ Refuse("INVALID_ENCODING", Unclassified)
    BY <1>2, <1>10 DEF TakePresence
  <2> QED
    BY <1>3, <1>4, <2>2, <2>3
<1>11. CASE TakeSize
  <2>1. item.take = "size"
    BY <1>11 DEF TakeSize, Aligned
  <2>2. due = item.after \o FlattenSeq([i \in 1..token.value |-> item.items])
    BY <2>1 DEF Due
  <2> HIDE DEF due
  <2>3. \/ Taken(token.value, item.after \o FlattenSeq([i \in 1..token.value |-> item.items]))
        \/ Refuse("LIMIT_EXCEEDED", Unclassified)
        \/ Refuse("INVALID_ENCODING", item.failure)
    BY <1>2, <1>11 DEF TakeSize
  <2> QED
    BY <1>3, <1>4, <2>2, <2>3
<1> QED
  BY <1>6, <1>7, <1>8, <1>9, <1>10, <1>11

\* A decoder in step is never out of values, never before a value of another kind, and has
\* nothing left over.
LEMMA EndInStep ==
  ASSUME DecodingInv, InStep, fault = None, RunCheck \/ RunOut \/ Misaligned \/ Finish
  PROVE  InStep'
<1> DEFINE input == document.input
           rest == SubSeq(input, position + 1, Len(input))
<1>1. phase = "reading"
  BY DEF RunCheck, RunOut, Misaligned, Finish, Taking
<1>2. IsList(input) /\ position <= Len(input) /\ Agrees(todo, rest) /\ position \in Nat
  BY <1>1 DEF InStep, DecodingInv, TakenInOrder
<1>3. CASE RunCheck
  <2>1. CASE Refuse("INVALID_ENCODING", Head(todo).failure)
    BY <1>1, <2>1, RefuseInStep DEF OutOfStep
  <2>2. CASE /\ todo' = Tail(todo)
             /\ UNCHANGED <<live, phase, document, fault, position, out, status, failure>>
    <3>1. todo # <<>> /\ Head(todo).take = "check"
      BY <1>3 DEF RunCheck
    <3>2. Agrees(Tail(todo), rest)
      <4> HIDE DEF rest
      <4> QED
        BY <1>2, <3>1, AgreesStep
    <3> QED
      BY <1>1, <2>2, <3>2 DEF InStep
  <2> QED
    BY <1>3, <2>1, <2>2 DEF RunCheck
<1>4. CASE RunOut
  BY <1>4, NextTaken DEF RunOut
<1>5. CASE Misaligned
  BY <1>5, NextTaken DEF Misaligned
<1>6. CASE Finish
  <2>1. rest = <<>>
    <3>1. todo = <<>>
      BY <1>6 DEF Finish
    <3> HIDE DEF rest
    <3> QED
      BY <1>2, <3>1, AgreesStep
  <2>2. position = Len(input)
    BY <1>2, <2>1, RestOf
  <2>3. ~(position < Len(input) \/ fault.kind = "longer")
    BY <1>2, <2>2 DEF None, IsList
  <2>4. phase' = "closed" /\ UNCHANGED <<live, document, fault, reader>>
    BY <1>6, <2>3 DEF Finish
  <2> QED
    BY <1>1, <2>4 DEF InStep, reader
<1> QED
  BY <1>3, <1>4, <1>5, <1>6

\* The items a decoder has yet to work off always agree with the values it has yet to take.
LEMMA ReadingStep ==
  ASSUME ReadingInv, [Next]_vars
  PROVE  Writable' /\ InStep'
<1>1. DecodingInv /\ Writable /\ InStep
  BY DEF ReadingInv
<1>2. CASE UNCHANGED vars
  BY <1>1, <1>2 DEF vars, live, reader, Writable, InStep
<1>3. CASE Commit \/ CommitAnother \/ Demote
  <2>1. phase' = "live"
    BY <1>3 DEF Commit, CommitAnother, Demote
  <2> QED
    BY <1>1, <1>3, <2>1, LiveStep DEF InStep
<1>4. CASE Save \/ Reply \/ Send
  BY <1>1, <1>4, SaveStep, ReplyStep, SendStep
<1>5. CASE OpenRefused
  <2>1. /\ phase = "live" /\ phase' = "closed" /\ status' = "INVALID_ENCODING"
        /\ position' = position
    BY <1>5 DEF OpenRefused
  <2>2. position' = 0
    BY <1>1, <2>1 DEF DecodingInv, TakenInOrder
  <2> QED
    BY <2>1, <2>2 DEF Writable, InStep, OutOfStep
<1>6. CASE Alter \/ Cut \/ Lengthen
  <2>1. phase' = "reading" /\ fault'.kind # "none"
    BY <1>6 DEF Alter, Cut, Lengthen, Taking
  <2> QED
    BY <2>1 DEF Writable, InStep, None
<1> DEFINE Reads == \/ TakeValue \/ TakeNarrowedValue \/ TakeTextValue
                    \/ TakeFlagValue \/ TakePresence \/ TakeSize
                    \/ RunCheck \/ RunOut \/ Misaligned \/ Finish
<1>7. CASE Reads
  <2>1. phase' # "live" /\ fault' = fault
    BY <1>7 DEF TakeValue, TakeNarrowedValue, TakeTextValue, TakeFlagValue, TakePresence, TakeSize,
                RunCheck, RunOut, Misaligned, Finish, Aligned, Taking, Taken, Refuse
  <2>2. InStep'
    <3>1. CASE fault = None
      BY <1>1, <1>7, <3>1, TakeInStep, EndInStep
    <3>2. CASE fault # None
      BY <2>1, <3>2 DEF InStep
    <3> QED
      BY <3>1, <3>2
  <2> QED
    BY <2>1, <2>2 DEF Writable
<1> QED
  BY <1>2, <1>3, <1>4, <1>5, <1>6, <1>7 DEF Next, Closed

(* A decoder that reads a document to which nothing happened is in step with  *)
(* its writer: an inductive invariant of the writers and decoders of          *)
(* persistence_records.cpp, persistence_store.cpp, snapshot.cpp and wire.cpp. *)
THEOREM ReadingInvariant == Spec => []ReadingInv
<1>1. Init => Writable /\ InStep
  <2> SUFFICES ASSUME Init PROVE Writable /\ InStep
    OBVIOUS
  <2>1. PICK request \in Requests : \E e \in Evaluations(request) : proof = Revision(request, e, 1)
    BY DEF Init
  <2>2. Committed(proof) /\ proof.request \in Requests /\ Members \subseteq DOMAIN proof
    BY <2>1, RevisionWritable
  <2>3. history = <<>> /\ snapshots = <<capture_snapshot(proof)>> /\ phase = "live" /\ status = "OK"
    BY DEF Init
  <2>4. IsList(history) /\ \A i \in DOMAIN history : Committed(history[i])
    BY <2>3, EmptyList
  <2>5. /\ IsList(snapshots) /\ snapshots # <<>>
        /\ \A i \in DOMAIN snapshots : Captured(snapshots[i])
    BY <2>2, <2>3, SingleList, CaptureWritable
  <2> QED
    BY <2>2, <2>3, <2>4, <2>5 DEF Writable, InStep
<1>2. ReadingInv /\ DecodingInv' /\ [Next]_vars => ReadingInv'
  BY ReadingStep DEF ReadingInv
<1>3. Init => (DecodingInv => ReadingInv)
  BY <1>1 DEF ReadingInv
<1> QED
  BY <1>2, <1>3, DecodingInvariant, PTL DEF Spec

(* The decoders follow the writers (ReadAsWritten), for documents of every    *)
(* size, whatever evaluate_diversity returned and the registry holds: as long *)
(* as nothing happened to a document, each value is taken for the member it   *)
(* was written from, and no decoder wants another value than the next one,    *)
(* one after the last, or leaves one.                                         *)
THEOREM DecodersFollowWriters == Spec => []ReadAsWritten
<1>1. ReadingInv => ReadAsWritten
  <2> SUFFICES ASSUME ReadingInv PROVE ReadAsWritten
    OBVIOUS
  <2>1. position \in Nat /\ DOMAIN out = 1..position
    BY Listed DEF ReadingInv, DecodingInv, TakenInOrder
  <2> QED
    BY <2>1 DEF ReadingInv, InStep, ReadAsWritten, OutOfStep
<1> QED
  BY <1>1, ReadingInvariant, PTL
=============================================================================
