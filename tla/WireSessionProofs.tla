------------------------- MODULE WireSessionProofs -------------------------
(***************************************************************************)
(* A worker's connections, for every size of a header and of a chunk,      *)
(* every limit, every set of payload sizes and any number of connections:  *)
(* however the streams are cut, frames are handled once and in order, no   *)
(* end refuses what it has room for, and a request returns its own reply.  *)
(*                                                                         *)
(* The induction relates three things the code keeps apart: the frames     *)
(* that were sent and are not handled, the bytes an assembler holds, and   *)
(* the bytes on the way.                                                   *)
(***************************************************************************)
EXTENDS WireSession, SequenceTheorems, WellFoundedInduction, TLAPS

Frame == [request : Nat, size : Nat]
Byte == Frame \X Nat
Statuses == {"OK", "ASSEMBLY_LIMIT_EXCEEDED", "BAD_MAGIC", "FRAME_TOO_LARGE", "INTEGRITY_FAILURE"}
Assembler == [buffer : Seq(Byte), consumed : Nat, status : Statuses]

\* An assembler between two calls.
Sound(a) == a \in Assembler /\ a.consumed <= Len(a.buffer)

ClientType ==
    /\ opened \in 0..MaxConnections /\ socket \in 0..opened
    /\ requests \in Nat /\ call \in Nat
    /\ Sound(assembler)
ServerType ==
    /\ up \in [Connections -> Seq(Byte)] /\ down \in [Connections -> Seq(Byte)]
    /\ threads \in [Connections -> {"recv", "next", "gone"}]
    /\ assemblers \in [Connections -> Assembler]
    /\ \A c \in Connections : Sound(assemblers[c])
    /\ sent \in [Connections -> Seq(Frame)] /\ handled \in [Connections -> Seq(Frame)]
    /\ replies \in [Connections -> Seq(Frame)]
TypeOK == receiving \in BOOLEAN /\ ClientType /\ ServerType

(* The coordinator's end of a connection: its thread, the assembler, the   *)
(* bytes on the way to it, the frames sent and the frames handled.         *)

\* The frames a thread has yet to handle.
Pending(s, h) == SubSeq(s, Len(h) + 1, Len(s))

\* A thread has handled a prefix of what was sent; the rest is what it holds and
\* what is on the way, and before it receives it holds less than the next frame.
InStep(thread, a, stream, s, h) ==
    /\ Len(h) <= Len(s) /\ h = SubSeq(s, 1, Len(h))
    /\ Unconsumed(a) \o stream = Encoded(Pending(s, h))
    /\ thread = "recv" /\ Len(h) < Len(s) =>
         Len(Unconsumed(a)) < kWireHeaderBytes + s[Len(h) + 1].size

\* An end that refused was sent a frame there is no room for.
Excused(a, s, limits) ==
    a.status # "OK" => \E i \in 1..Len(s) : NoRoom(limits, s[i].size)

\* A connection that was not opened has seen nothing.
Untouched(c) ==
    /\ threads[c] = "gone" /\ assemblers[c] = NewAssembler
    /\ up[c] = <<>> /\ down[c] = <<>>
    /\ sent[c] = <<>> /\ handled[c] = <<>> /\ replies[c] = <<>>

ServerInv ==
    \A c \in Connections :
        /\ c > opened => Untouched(c)
        /\ Excused(assemblers[c], sent[c], server_limits)
        /\ threads[c] = "recv" => assemblers[c].status = "OK"
        /\ threads[c] # "gone" => InStep(threads[c], assemblers[c], up[c], sent[c], handled[c])

(* The client's end: its assembler, the bytes on the way to it, the thread *)
(* of the connection and its pending frames, the request the client is in, *)
(* and the replies so far.                                                 *)

\* No reply is on its way; the request may be.
Asked(a, stream, thread, pending, q) ==
    /\ Unconsumed(a) \o stream = <<>>
    /\ thread # "gone" =>
         /\ Len(pending) <= 1
         /\ \A i \in 1..Len(pending) : q # None /\ pending[i].request = q

\* The reply is on its way, and nothing else is.
Answered(a, stream, thread, pending, q, answers) ==
    /\ q # None
    /\ \E i \in 1..Len(answers) :
         answers[i].request = q /\ Unconsumed(a) \o stream = Bytes(answers[i])
    /\ thread # "gone" => pending = <<>>

\* The peer went inside a reply: nothing completes it.
BrokenOff(a, stream, thread) ==
    /\ thread = "gone" /\ stream = <<>>
    /\ NextStatus(a, client_limits) = "INCOMPLETE"

\* The client has no room for a reply: the status stays.
Failed(a, answers) ==
    /\ a.status # "OK"
    /\ \E i \in 1..Len(answers) : NoRoom(client_limits, answers[i].size)

Talk(a, stream, thread, pending, q, answers) ==
    \/ Failed(a, answers)
    \/ a.status = "OK" /\ Asked(a, stream, thread, pending, q)
    \/ a.status = "OK" /\ Answered(a, stream, thread, pending, q, answers)
    \/ a.status = "OK" /\ BrokenOff(a, stream, thread)

ClientInv ==
    /\ call # None => socket # None
    /\ socket = None => assembler = NewAssembler
    /\ receiving => call # None /\ NextStatus(assembler, client_limits) = "INCOMPLETE"
    /\ socket # None => Talk(assembler, down[socket], threads[socket],
                             Pending(sent[socket], handled[socket]), call, replies[socket])

WireInv == TypeOK /\ ServerInv /\ ClientInv /\ ReplyIsOwn

-----------------------------------------------------------------------------
(* What a sequence of frames is as bytes.                                  *)

LEMMA LeastNumber ==
  ASSUME NEW T \in SUBSET Nat, T # {}
  PROVE  \E m \in T : \A k \in T : m <= k
<1>1. PICK m \in T : \A k \in T : ~(<<k, m>> \in OpToRel(<, Nat))
  BY NatLessThanWellFounded, WFMin
<1>2. \A k \in T : ~(k < m)
  BY <1>1 DEF OpToRel
<1> QED
  BY <1>2

LEMMA BytesAssociative ==
  \A s, t, u \in Seq(Byte) : (s \o t) \o u = s \o (t \o u)
<1> SUFFICES ASSUME NEW s \in Seq(Byte), NEW t \in Seq(Byte), NEW u \in Seq(Byte)
             PROVE  (s \o t) \o u = s \o (t \o u)
  OBVIOUS
<1> QED
  BY ConcatAssociative

LEMMA BytesOfFrame ==
  ASSUME NEW f \in Frame
  PROVE  /\ Bytes(f) \in Seq(Byte) /\ Len(Bytes(f)) = kWireHeaderBytes + f.size
         /\ \A i \in 1..(kWireHeaderBytes + f.size) : Bytes(f)[i] = <<f, i>>
<1>1. kWireHeaderBytes + f.size \in Nat
  BY HeaderAssumption DEF Frame
<1>2. \A i \in 1..(kWireHeaderBytes + f.size) : <<f, i>> \in Byte
  BY <1>1 DEF Byte
<1>3. Bytes(f) \in [1..(kWireHeaderBytes + f.size) -> Byte]
  BY <1>2 DEF Bytes
<1>4. Bytes(f) \in Seq(Byte)
  BY <1>1, <1>3, SeqDef
<1>5. DOMAIN Bytes(f) = 1..(kWireHeaderBytes + f.size)
  BY <1>3
<1>6. Len(Bytes(f)) = kWireHeaderBytes + f.size
  BY <1>1, <1>4, <1>5, LenProperties
<1>7. \A i \in 1..(kWireHeaderBytes + f.size) : Bytes(f)[i] = <<f, i>>
  BY DEF Bytes
<1> QED
  BY <1>4, <1>6, <1>7

\* e gives the bytes of every prefix of p.
IsEncoding(p, e) ==
    /\ e \in [0..Len(p) -> Seq(Byte)] /\ e[0] = <<>>
    /\ \A k \in 1..Len(p) : e[k] = e[k - 1] \o Bytes(p[k])

\* A function that is right on the prefixes shorter than n.
EncodingUpTo(p, n) ==
    \E e \in [0..Len(p) -> Seq(Byte)] :
        e[0] = <<>> /\ \A k \in 1..Len(p) : k < n => e[k] = e[k - 1] \o Bytes(p[k])

LEMMA EncodingStep ==
  ASSUME NEW p \in Seq(Frame), NEW n \in Nat, EncodingUpTo(p, n)
  PROVE  EncodingUpTo(p, n + 1)
<1>1. PICK e \in [0..Len(p) -> Seq(Byte)] :
          e[0] = <<>> /\ \A k \in 1..Len(p) : k < n => e[k] = e[k - 1] \o Bytes(p[k])
  BY DEF EncodingUpTo
<1> DEFINE d == [k \in 0..Len(p) |-> IF k = 0 THEN <<>> ELSE e[k - 1] \o Bytes(p[k])]
<1>2. Len(p) \in Nat /\ \A k \in 1..Len(p) : p[k] \in Frame
  BY LenProperties, ElementOfSeq
<1>3. <<>> \in Seq(Byte)
  BY EmptySeq
<1>4. ASSUME NEW k \in 1..Len(p) PROVE e[k - 1] \o Bytes(p[k]) \in Seq(Byte)
  <2>1. k - 1 \in 0..Len(p)
    BY <1>2
  <2>2. e[k - 1] \in Seq(Byte) /\ Bytes(p[k]) \in Seq(Byte)
    BY <1>2, <2>1, BytesOfFrame
  <2> QED
    BY <2>2, ConcatProperties
<1>5. d \in [0..Len(p) -> Seq(Byte)]
  BY <1>2, <1>3, <1>4
<1>6. d[0] = <<>>
  BY <1>2
<1>7. ASSUME NEW k \in 1..Len(p), k < n + 1 PROVE d[k] = d[k - 1] \o Bytes(p[k])
  <2>1. k \in 0..Len(p) /\ k - 1 \in 0..Len(p) /\ k # 0
    BY <1>2
  <2>2. d[k] = e[k - 1] \o Bytes(p[k])
    BY <2>1
  <2>3. CASE k = 1
    <3>1. k - 1 = 0
      BY <2>3
    <3>2. d[k - 1] = e[k - 1]
      BY <1>1, <1>6, <3>1
    <3> QED
      BY <2>2, <3>2
  <2>4. CASE k # 1
    <3>1. k - 1 \in 1..Len(p) /\ k - 1 < n /\ k - 1 # 0
      BY <1>2, <1>7, <2>4
    <3>2. e[k - 1] = e[(k - 1) - 1] \o Bytes(p[k - 1])
      BY <1>1, <3>1
    <3>3. d[k - 1] = e[(k - 1) - 1] \o Bytes(p[k - 1])
      BY <2>1, <3>1
    <3> QED
      BY <2>2, <3>2, <3>3
  <2> QED
    BY <2>3, <2>4
<1> HIDE DEF d
<1> QED
  BY <1>5, <1>6, <1>7 DEF EncodingUpTo

LEMMA EncodingExists ==
  ASSUME NEW p \in Seq(Frame)
  PROVE  \E e : IsEncoding(p, e)
<1>0. Len(p) \in Nat
  BY LenProperties
<1>1. EncodingUpTo(p, 0)
  <2> DEFINE e == [k \in 0..Len(p) |-> <<>>]
  <2>1. e \in [0..Len(p) -> Seq(Byte)] /\ e[0] = <<>>
    BY <1>0, EmptySeq
  <2>2. \A k \in 1..Len(p) : ~(k < 0)
    BY <1>0
  <2> HIDE DEF e
  <2> QED
    BY <2>1, <2>2 DEF EncodingUpTo
<1> DEFINE bad == {n \in Nat : ~EncodingUpTo(p, n)}
<1>2. ASSUME bad # {} PROVE FALSE
  <2>1. PICK n \in bad : \A k \in bad : n <= k
    <3>1. bad \in SUBSET Nat
      OBVIOUS
    <3> HIDE DEF bad
    <3> QED
      BY <1>2, <3>1, LeastNumber
  <2>2. n # 0 /\ n \in Nat
    BY <1>1
  <2>3. n - 1 \in Nat /\ EncodingUpTo(p, n - 1)
    BY <2>1, <2>2
  <2>4. EncodingUpTo(p, (n - 1) + 1)
    BY <2>3, EncodingStep
  <2> QED
    BY <2>2, <2>4
<1>3. EncodingUpTo(p, Len(p) + 1)
  BY <1>0, <1>2
<1>4. \A k \in 1..Len(p) : k < Len(p) + 1
  BY <1>0
<1> QED
  BY <1>3, <1>4 DEF EncodingUpTo, IsEncoding

\* FlattenSeq computes the encoding of the whole.
LEMMA EncodingOf ==
  ASSUME NEW p \in Seq(Frame)
  PROVE  \E e : IsEncoding(p, e) /\ Encoded(p) = e[Len(p)]
<1>0. Len(p) \in Nat /\ DOMAIN p = 1..Len(p)
  BY LenProperties
<1>1. PICK e : IsEncoding(p, e)
  BY EncodingExists
<1> DEFINE s == [i \in DOMAIN p |-> Bytes(p[i])]
<1>2. s \in Seq(Seq(Byte)) /\ Len(s) = Len(p) /\ \A i \in 1..Len(p) : s[i] = Bytes(p[i])
  <2>1. \A i \in 1..Len(p) : Bytes(p[i]) \in Seq(Byte)
    BY ElementOfSeq, BytesOfFrame
  <2>2. s \in [1..Len(p) -> Seq(Byte)]
    BY <1>0, <2>1
  <2>3. s \in Seq(Seq(Byte))
    BY <1>0, <2>2, SeqDef
  <2>4. DOMAIN s = 1..Len(p)
    BY <1>0
  <2>5. Len(s) = Len(p)
    BY <1>0, <2>3, <2>4, LenProperties
  <2> QED
    BY <1>0, <2>3, <2>5
<1>3. Encoded(p) = FlattenSeq(s)
  BY DEF Encoded
<1>4. CASE Len(p) = 0
  <2>1. s = <<>>
    BY <1>2, <1>4, EmptySeq
  <2>2. FlattenSeq(s) = s
    BY <1>2, <1>4 DEF FlattenSeq
  <2> QED
    BY <1>1, <1>3, <1>4, <2>1, <2>2 DEF IsEncoding
<1>5. CASE Len(p) # 0
  <2> DEFINE Body(g) == [i \in 1..Len(p) |-> IF i = 1 THEN s[i] ELSE g[i - 1] \o s[i]]
             flat == CHOOSE g : g = Body(g)
             e1 == [i \in 1..Len(p) |-> e[i]]
  <2>1. e1 = Body(e1)
    <3>1. ASSUME NEW i \in 1..Len(p)
          PROVE  e1[i] = IF i = 1 THEN s[i] ELSE e1[i - 1] \o s[i]
      <4>1. e[i] = e[i - 1] \o Bytes(p[i]) /\ s[i] = Bytes(p[i]) /\ e1[i] = e[i]
        BY <1>1, <1>2 DEF IsEncoding
      <4>2. CASE i = 1
        <5>1. i - 1 = 0
          BY <4>2
        <5>2. e[i - 1] = <<>>
          BY <1>1, <5>1 DEF IsEncoding
        <5>3. Bytes(p[i]) \in Seq(Byte)
          BY ElementOfSeq, BytesOfFrame
        <5>4. <<>> \o Bytes(p[i]) = Bytes(p[i])
          BY <5>3, ConcatEmptySeq
        <5> QED
          BY <4>1, <4>2, <5>2, <5>4
      <4>3. CASE i # 1
        <5>1. i - 1 \in 1..Len(p)
          BY <1>0, <4>3
        <5>2. e1[i - 1] = e[i - 1]
          BY <5>1
        <5> QED
          BY <4>1, <4>3, <5>2
      <4> QED
        BY <4>2, <4>3
    <3> QED
      BY <3>1
  <2>2. flat = Body(flat)
    <3> HIDE DEF Body
    <3> QED
      BY <2>1
  <2>3. FlattenSeq(s) = flat[Len(p)]
    BY <1>2, <1>5 DEF FlattenSeq
  <2>4. \A i \in 1..Len(p) : flat[i] = IF i = 1 THEN s[i] ELSE flat[i - 1] \o s[i]
    <3> HIDE DEF flat
    <3> QED
      BY <2>2
  <2>5. \A i \in 1..Len(p) : e1[i] = IF i = 1 THEN s[i] ELSE e1[i - 1] \o s[i]
    <3> HIDE DEF e1
    <3> QED
      BY <2>1
  <2> DEFINE bad == {i \in 1..Len(p) : flat[i] # e1[i]}
  <2>6. ASSUME bad # {} PROVE FALSE
    <3>1. bad \in SUBSET Nat
      BY <1>0
    <3>2. PICK i \in bad : \A k \in bad : i <= k
      <4> HIDE DEF bad
      <4> QED
        BY <2>6, <3>1, LeastNumber
    <3> HIDE DEF flat, e1, s
    <3>3. i # 1
      BY <2>4, <2>5
    <3>4. i - 1 \in 1..Len(p) /\ i - 1 \notin bad
      BY <1>0, <3>2, <3>3
    <3>5. flat[i - 1] = e1[i - 1]
      BY <3>4
    <3>6. flat[i] = flat[i - 1] \o s[i] /\ e1[i] = e1[i - 1] \o s[i]
      BY <2>4, <2>5, <3>3
    <3> QED
      BY <3>5, <3>6
  <2>7. Len(p) \in 1..Len(p)
    BY <1>0, <1>5
  <2>8. flat[Len(p)] = e1[Len(p)]
    <3> HIDE DEF flat, e1
    <3> QED
      BY <2>6, <2>7
  <2>9. e1[Len(p)] = e[Len(p)]
    BY <2>7
  <2> HIDE DEF flat, e1, s
  <2> QED
    BY <1>1, <1>3, <2>3, <2>8, <2>9
<1> QED
  BY <1>4, <1>5

\* Two encodings agree on a common prefix.
LEMMA EncodingUnique ==
  ASSUME NEW p \in Seq(Frame), NEW q \in Seq(Frame), NEW e, NEW d,
         IsEncoding(p, e), IsEncoding(q, d),
         Len(p) <= Len(q), \A i \in 1..Len(p) : p[i] = q[i]
  PROVE  \A k \in 0..Len(p) : e[k] = d[k]
<1>0. Len(p) \in Nat /\ Len(q) \in Nat
  BY LenProperties
<1> DEFINE bad == {k \in 0..Len(p) : e[k] # d[k]}
<1>1. ASSUME bad # {} PROVE FALSE
  <2>1. bad \in SUBSET Nat
    BY <1>0
  <2>2. PICK k \in bad : \A j \in bad : k <= j
    <3> HIDE DEF bad
    <3> QED
      BY <1>1, <2>1, LeastNumber
  <2>3. k # 0
    BY DEF IsEncoding
  <2>4. k \in 1..Len(p) /\ k \in 1..Len(q) /\ k - 1 \in 0..Len(p)
    BY <1>0, <2>3
  <2>5. e[k - 1] = d[k - 1]
    BY <1>0, <2>2, <2>4
  <2>6. e[k] = e[k - 1] \o Bytes(p[k]) /\ d[k] = d[k - 1] \o Bytes(q[k]) /\ p[k] = q[k]
    BY <2>4 DEF IsEncoding
  <2> QED
    BY <2>5, <2>6
<1> QED
  BY <1>1

LEMMA EncodedType ==
  ASSUME NEW p \in Seq(Frame)
  PROVE  Encoded(p) \in Seq(Byte) /\ (p = <<>> => Encoded(p) = <<>>)
<1>1. PICK e : IsEncoding(p, e) /\ Encoded(p) = e[Len(p)]
  BY EncodingOf
<1>2. Len(p) \in 0..Len(p) /\ (p = <<>> => Len(p) = 0)
  BY LenProperties, EmptySeq
<1> QED
  BY <1>1, <1>2 DEF IsEncoding

LEMMA EncodedAppend ==
  ASSUME NEW p \in Seq(Frame), NEW f \in Frame
  PROVE  Encoded(Append(p, f)) = Encoded(p) \o Bytes(f)
<1> DEFINE q == Append(p, f)
<1>1. /\ q \in Seq(Frame) /\ Len(q) = Len(p) + 1 /\ Len(p) \in Nat
      /\ \A i \in 1..Len(p) : q[i] = p[i]
      /\ q[Len(p) + 1] = f
  BY AppendProperties, LenProperties
<1> HIDE DEF q
<1>2. PICK e : IsEncoding(p, e) /\ Encoded(p) = e[Len(p)]
  BY EncodingOf
<1>3. PICK d : IsEncoding(q, d) /\ Encoded(q) = d[Len(q)]
  BY <1>1, EncodingOf
<1>4. \A k \in 0..Len(p) : e[k] = d[k]
  BY <1>1, <1>2, <1>3, EncodingUnique
<1>5. d[Len(p)] = Encoded(p)
  BY <1>1, <1>2, <1>4
<1>6. Len(q) \in 1..Len(q) /\ Len(q) - 1 = Len(p)
  BY <1>1
<1>7. d[Len(q)] = d[Len(q) - 1] \o Bytes(q[Len(q)])
  BY <1>3, <1>6 DEF IsEncoding
<1>8. q[Len(q)] = f
  BY <1>1
<1>9. Encoded(q) = Encoded(p) \o Bytes(f)
  BY <1>3, <1>5, <1>6, <1>7, <1>8
<1> QED
  BY <1>9 DEF q

LEMMA EncodedHead ==
  ASSUME NEW p \in Seq(Frame), p # <<>>
  PROVE  Encoded(p) = Bytes(p[1]) \o Encoded(Tail(p))
<1> DEFINE q == Tail(p)
<1>1. /\ q \in Seq(Frame) /\ Len(q) = Len(p) - 1 /\ Len(q) \in Nat
      /\ \A i \in 1..Len(q) : q[i] = p[i + 1]
  BY HeadTailProperties, LenProperties
<1>2. /\ Len(p) \in Nat \ {0} /\ \A i \in 1..Len(p) : p[i] \in Frame
  BY EmptySeq, ElementOfSeq
<1> HIDE DEF q
<1>3. PICK e : IsEncoding(p, e) /\ Encoded(p) = e[Len(p)]
  BY EncodingOf
<1>4. PICK d : IsEncoding(q, d) /\ Encoded(q) = d[Len(q)]
  BY <1>1, EncodingOf
<1>5. Bytes(p[1]) \in Seq(Byte)
  BY <1>2, BytesOfFrame
<1> DEFINE Wrong(k) == e[k + 1] # Bytes(p[1]) \o d[k]
           bad == {k \in 0..Len(q) : Wrong(k)}
<1>6. ASSUME bad # {} PROVE FALSE
  <2>1. bad \in SUBSET Nat
    <3> HIDE DEF Wrong
    <3> QED
      BY <1>1
  <2>2. PICK k \in bad : \A j \in bad : k <= j
    <3> HIDE DEF bad
    <3> QED
      BY <1>6, <2>1, LeastNumber
  <2>3. k \in 0..Len(q) /\ e[k + 1] # Bytes(p[1]) \o d[k]
    BY <2>2
  <2>4. k + 1 \in 1..Len(p) /\ (k + 1) - 1 = k
    BY <1>1, <1>2, <2>3
  <2>5. e[k + 1] = e[k] \o Bytes(p[k + 1])
    <3>1. e[k + 1] = e[(k + 1) - 1] \o Bytes(p[k + 1])
      BY <1>3, <2>4 DEF IsEncoding
    <3> QED
      BY <2>4, <3>1
  <2>6. CASE k = 0
    <3>1. e[0] = <<>> /\ d[0] = <<>> /\ k + 1 = 1
      BY <1>3, <1>4, <2>6 DEF IsEncoding
    <3>2. <<>> \o Bytes(p[1]) = Bytes(p[1]) /\ Bytes(p[1]) \o <<>> = Bytes(p[1])
      BY <1>5, ConcatEmptySeq
    <3> QED
      BY <2>3, <2>5, <2>6, <3>1, <3>2
  <2>7. CASE k # 0
    <3>1. k \in 1..Len(q) /\ k - 1 \in 0..Len(q) /\ k - 1 < k /\ (k - 1) + 1 = k
      BY <1>1, <2>3, <2>7
    <3>2. k - 1 \notin bad
      <4> HIDE DEF bad
      <4> QED
        BY <1>1, <2>2, <3>1
    <3>3. e[k] = Bytes(p[1]) \o d[k - 1]
      BY <3>1, <3>2
    <3>4. d[k] = d[k - 1] \o Bytes(q[k])
      BY <1>4, <3>1 DEF IsEncoding
    <3>5. q[k] = p[k + 1] /\ q[k] \in Frame
      BY <1>1, <1>2, <2>4, <3>1
    <3>6. d[k - 1] \in Seq(Byte) /\ Bytes(q[k]) \in Seq(Byte)
      BY <1>4, <3>1, <3>5, BytesOfFrame DEF IsEncoding
    <3>7. (Bytes(p[1]) \o d[k - 1]) \o Bytes(q[k]) = Bytes(p[1]) \o (d[k - 1] \o Bytes(q[k]))
      BY <1>5, <3>6, BytesAssociative
    <3> QED
      BY <2>3, <2>5, <3>3, <3>4, <3>5, <3>7
  <2> QED
    BY <2>6, <2>7
<1>7. e[Len(q) + 1] = Bytes(p[1]) \o d[Len(q)] /\ Len(q) + 1 = Len(p)
  <2>1. ~Wrong(Len(q))
    <3> HIDE DEF Wrong
    <3> QED
      BY <1>1, <1>6
  <2>2. Len(q) + 1 = Len(p)
    BY <1>1, <1>2
  <2> QED
    BY <2>1, <2>2, Zenon
<1>8. Encoded(p) = Bytes(p[1]) \o Encoded(q)
  BY <1>3, <1>4, <1>7
<1> QED
  BY <1>8 DEF q

\* The bytes of a sequence are those of a prefix and those of the rest.
LEMMA EncodedSplit ==
  ASSUME NEW p \in Seq(Frame)
  PROVE  \A k \in 0..Len(p) :
             Encoded(SubSeq(p, 1, k)) \o Encoded(SubSeq(p, k + 1, Len(p))) = Encoded(p)
<1> DEFINE First(k) == SubSeq(p, 1, k)
           Last1(k) == SubSeq(p, k + 1, Len(p))
           Split(k) == Encoded(First(k)) \o Encoded(Last1(k)) = Encoded(p)
           bad == {k \in 0..Len(p) : ~Split(k)}
<1>0. Len(p) \in Nat /\ \A i \in 1..Len(p) : p[i] \in Frame
  BY LenProperties, ElementOfSeq
<1>1. ASSUME NEW k \in 0..Len(p) PROVE First(k) \in Seq(Frame) /\ Last1(k) \in Seq(Frame)
  <2>1. \A i \in 1..k : p[i] \in Frame
    BY <1>0
  <2>2. \A i \in (k + 1)..Len(p) : p[i] \in Frame
    BY <1>0
  <2>3. k \in Int /\ k + 1 \in Int /\ Len(p) \in Int /\ 1 \in Int
    BY <1>0
  <2>4. First(k) \in Seq(Frame)
    BY <2>1, <2>3, SubSeqProperties
  <2>5. Last1(k) \in Seq(Frame)
    BY <2>2, <2>3, SubSeqProperties
  <2> QED
    BY <2>4, <2>5
<1>2. Split(0)
  <2>1. First(0) = <<>>
    BY SubSeqEmpty
  <2>2. Last1(0) = p
    BY <1>0, SubSeqFull
  <2>3. Encoded(First(0)) = <<>>
    <3>1. <<>> \in Seq(Frame)
      BY EmptySeq
    <3> QED
      BY <2>1, <3>1, EncodedType
  <2>4. <<>> \o Encoded(p) = Encoded(p)
    BY EncodedType, ConcatEmptySeq
  <2> QED
    BY <2>2, <2>3, <2>4
<1>3. ASSUME NEW k \in 0..Len(p), k + 1 \in 0..Len(p), Split(k) PROVE Split(k + 1)
  <2>1. k + 1 \in 1..Len(p) /\ p[k + 1] \in Frame /\ Len(p) \in (k + 1)..Len(p)
    BY <1>0, <1>3
  <2>2. First(k + 1) = Append(First(k), p[k + 1])
    <3>1. First(k + 1) = First(k) \o <<p[k + 1]>>
      <4>1. SubSeq(p, 1, k + 1) = SubSeq(p, 1, (k + 1) - 1) \o <<p[k + 1]>>
        BY <1>0, <1>3, <2>1, SubSeqRecursiveSecond
      <4>2. (k + 1) - 1 = k
        BY <1>0
      <4> QED
        BY <4>1, <4>2
    <3> QED
      BY <1>1, <2>1, <3>1, AppendIsConcat
  <2>3. Last1(k) # <<>> /\ Last1(k)[1] = p[k + 1] /\ Tail(Last1(k)) = Last1(k + 1)
    <3>1. Tail(Last1(k)) = Last1(k + 1) /\ Head(Last1(k)) = p[k + 1]
      BY <1>0, <2>1, HeadTailOfSubSeq
    <3>2. \A i \in (k + 1)..Len(p) : p[i] \in Frame
      BY <1>0
    <3>3. Len(Last1(k)) = Len(p) - k
      BY <1>0, <2>1, <3>2, SubSeqProperties
    <3>4. Last1(k) # <<>>
      <4>1. Len(Last1(k)) >= 1
        BY <1>0, <1>3, <3>3
      <4>2. Len(<<>>) = 0
        BY EmptySeq
      <4> HIDE DEF Last1
      <4> QED
        BY <4>1, <4>2
    <3>5. Last1(k)[1] = p[k + 1]
      <4>1. \A i \in 1..(Len(p) - (k + 1) + 1) : Last1(k)[i] = p[(k + 1) + i - 1]
        BY <1>0, <2>1, <3>2, SubSeqProperties, SMTT(30)
      <4>2. 1 \in 1..(Len(p) - (k + 1) + 1) /\ (k + 1) + 1 - 1 = k + 1
        BY <1>0, <1>3
      <4> HIDE DEF Last1
      <4> QED
        BY <4>1, <4>2
    <3> QED
      BY <3>1, <3>4, <3>5
  <2>4. Encoded(First(k + 1)) = Encoded(First(k)) \o Bytes(p[k + 1])
    BY <1>1, <2>1, <2>2, EncodedAppend
  <2>5. Encoded(Last1(k)) = Bytes(p[k + 1]) \o Encoded(Last1(k + 1))
    BY <1>1, <2>3, EncodedHead
  <2>6. /\ Encoded(First(k)) \in Seq(Byte) /\ Bytes(p[k + 1]) \in Seq(Byte)
        /\ Encoded(Last1(k + 1)) \in Seq(Byte)
    BY <1>1, <1>3, <2>1, EncodedType, BytesOfFrame
  <2> HIDE DEF First, Last1
  <2>7. (Encoded(First(k)) \o Bytes(p[k + 1])) \o Encoded(Last1(k + 1))
          = Encoded(First(k)) \o (Bytes(p[k + 1]) \o Encoded(Last1(k + 1)))
    BY <2>6, BytesAssociative
  <2> QED
    BY <1>3, <2>4, <2>5, <2>7
<1> HIDE DEF Split
<1>4. ASSUME bad # {} PROVE FALSE
  <2>1. bad \in SUBSET Nat
    BY <1>0
  <2>2. PICK k \in bad : \A j \in bad : k <= j
    <3> HIDE DEF bad
    <3> QED
      BY <1>4, <2>1, LeastNumber
  <2>3. k # 0 /\ k \in 0..Len(p) /\ ~Split(k)
    BY <1>2
  <2>4. k - 1 \in 0..Len(p) /\ (k - 1) + 1 = k /\ k - 1 \notin bad
    BY <1>0, <2>2, <2>3
  <2>5. Split(k - 1)
    BY <2>4
  <2>6. Split((k - 1) + 1)
    BY <1>3, <2>3, <2>4, <2>5
  <2> QED
    BY <2>3, <2>4, <2>6
<1>5. \A k \in 0..Len(p) : Split(k)
  BY <1>4
<1> QED
  BY <1>5 DEF Split

-----------------------------------------------------------------------------
(* The assembler.                                                          *)

LEMMA NewAssemblerSound ==
  Sound(NewAssembler) /\ NewAssembler.status = "OK" /\ Unconsumed(NewAssembler) = <<>>
<1>1. <<>> \in Seq(Byte) /\ Len(<<>>) = 0
  BY EmptySeq
<1>2. SubSeq(<<>>, 0 + 1, 0) = <<>>
  BY SubSeqEmpty
<1>3. NewAssembler.buffer = <<>> /\ NewAssembler.consumed = 0 /\ NewAssembler.status = "OK"
  BY DEF NewAssembler
<1>4. NewAssembler \in Assembler
  BY <1>1 DEF NewAssembler, Assembler, Statuses
<1>5. Unconsumed(NewAssembler) = <<>>
  <2>1. Unconsumed(NewAssembler) = SubSeq(<<>>, 0 + 1, Len(<<>>))
    BY <1>3 DEF Unconsumed
  <2> QED
    BY <1>1, <1>2, <2>1
<1>6. Sound(NewAssembler)
  BY <1>1, <1>3, <1>4 DEF Sound
<1> QED
  BY <1>3, <1>5, <1>6

LEMMA UnconsumedProperties ==
  ASSUME NEW a, Sound(a)
  PROVE  /\ Unconsumed(a) \in Seq(Byte)
         /\ Len(Unconsumed(a)) = Len(a.buffer) - a.consumed
         /\ \A i \in 1..Len(Unconsumed(a)) : Unconsumed(a)[i] = a.buffer[a.consumed + i]
<1> DEFINE b == a.buffer
           n == a.consumed
<1>1. b \in Seq(Byte) /\ n \in Nat /\ n <= Len(b) /\ Len(b) \in Nat
  BY LenProperties DEF Sound, Assembler
<1>2. Unconsumed(a) = SubSeq(b, n + 1, Len(b))
  BY DEF Unconsumed
<1> HIDE DEF b, n
<1>3. \A i \in (n + 1)..Len(b) : b[i] \in Byte
  BY <1>1, ElementOfSeq
<1>4. /\ SubSeq(b, n + 1, Len(b)) \in Seq(Byte)
      /\ Len(SubSeq(b, n + 1, Len(b))) = Len(b) - n
      /\ \A i \in 1..(Len(b) - n) : SubSeq(b, n + 1, Len(b))[i] = b[n + i]
  <2>1. n + 1 \in Int /\ Len(b) \in Int /\ Len(b) - (n + 1) + 1 = Len(b) - n
    BY <1>1
  <2>2. /\ SubSeq(b, n + 1, Len(b)) \in Seq(Byte)
        /\ Len(SubSeq(b, n + 1, Len(b))) = IF n + 1 <= Len(b) THEN Len(b) - (n + 1) + 1 ELSE 0
        /\ \A i \in 1..(Len(b) - (n + 1) + 1) : SubSeq(b, n + 1, Len(b))[i] = b[(n + 1) + i - 1]
    BY <1>3, <2>1, SubSeqProperties
  <2>3. \A i \in 1..(Len(b) - n) : (n + 1) + i - 1 = n + i
    BY <1>1
  <2>4. \A i \in 1..(Len(b) - n) : SubSeq(b, n + 1, Len(b))[i] = b[n + i]
    BY <2>1, <2>2, <2>3
  <2>5. Len(SubSeq(b, n + 1, Len(b))) = Len(b) - n
    <3>1. CASE n + 1 <= Len(b)
      BY <2>1, <2>2, <3>1
    <3>2. CASE ~(n + 1 <= Len(b))
      <4>1. Len(b) - n = 0
        BY <1>1, <3>2
      <4> QED
        BY <2>2, <3>2, <4>1
    <3> QED
      BY <3>1, <3>2
  <2> QED
    BY <2>2, <2>4, <2>5
<1> QED
  BY <1>2, <1>4 DEF b, n

\* append keeps what was not consumed and adds the data after it.
LEMMA AppendBytesResult ==
  ASSUME NEW a, Sound(a), a.status = "OK", NEW data \in Seq(Byte), NEW limits \in Limits
  PROVE  /\ Sound(AppendBytes(a, data, limits))
         /\ Unconsumed(AppendBytes(a, data, limits)) = Unconsumed(a) \o data
         /\ Len(Unconsumed(a)) + Len(data) <= limits.max_wire_assembly_bytes
               => AppendBytes(a, data, limits).status = "OK"
<1> DEFINE b == Unconsumed(a) \o data
           s == IF Len(b) > limits.max_wire_assembly_bytes
                  THEN "ASSEMBLY_LIMIT_EXCEEDED" ELSE "OK"
<1>1. AppendBytes(a, data, limits) = [buffer |-> b, consumed |-> 0, status |-> s]
  BY DEF AppendBytes
<1>2. b \in Seq(Byte) /\ Len(b) = Len(Unconsumed(a)) + Len(data) /\ Len(b) \in Nat
  <2>1. Unconsumed(a) \in Seq(Byte)
    BY UnconsumedProperties
  <2>2. b \in Seq(Byte) /\ Len(b) = Len(Unconsumed(a)) + Len(data)
    BY <2>1, ConcatProperties
  <2>3. Len(b) \in Nat
    BY <2>2, LenProperties
  <2> QED
    BY <2>2, <2>3
<1>3. limits.max_wire_assembly_bytes \in Nat
  BY DEF Limits
<1>4. s \in Statuses /\ (Len(b) <= limits.max_wire_assembly_bytes => s = "OK")
  <2>1. s = "OK" \/ s = "ASSEMBLY_LIMIT_EXCEEDED"
    OBVIOUS
  <2>2. s \in Statuses
    <3> HIDE DEF s
    <3> QED
      BY <2>1 DEF Statuses
  <2>3. Len(b) <= limits.max_wire_assembly_bytes => ~(Len(b) > limits.max_wire_assembly_bytes)
    <3> HIDE DEF b
    <3> QED
      BY <1>2, <1>3
  <2>4. Len(b) <= limits.max_wire_assembly_bytes => s = "OK"
    BY <2>3, Zenon
  <2> QED
    BY <2>2, <2>4
<1> HIDE DEF b, s
<1>5. SubSeq(b, 0 + 1, Len(b)) = b
  BY <1>2, SubSeqFull
<1> DEFINE r == [buffer |-> b, consumed |-> 0, status |-> s]
<1>6. r.buffer = b /\ r.consumed = 0 /\ r.status = s
  OBVIOUS
<1>7. r \in Assembler
  BY <1>2, <1>4 DEF Assembler
<1> HIDE DEF r
<1>8. Sound(r)
  BY <1>2, <1>6, <1>7 DEF Sound
<1>9. Unconsumed(r) = b
  BY <1>5, <1>6 DEF Unconsumed
<1>10. Len(Unconsumed(a)) + Len(data) <= limits.max_wire_assembly_bytes => r.status = "OK"
  BY <1>2, <1>4, <1>6
<1>11. AppendBytes(a, data, limits) = r
  BY <1>1 DEF r
<1> QED
  BY <1>8, <1>9, <1>10, <1>11 DEF b

LEMMA NothingToRead ==
  ASSUME NEW limits
  PROVE  FrameStatus(<<>>, limits) = "INCOMPLETE"
<1>1. Len(<<>>) < kWireHeaderBytes
  BY HeaderAssumption, EmptySeq
<1>2. HeaderStatus(<<>>, limits) = "INCOMPLETE"
  BY <1>1 DEF HeaderStatus
<1> QED
  BY <1>2 DEF FrameStatus

\* Where a stream continues with frame f, decode_frame reads f, or finds it over
\* the limit, or asks for more while it holds less than a frame within the limit.
LEMMA FrameRead ==
  ASSUME NEW data \in Seq(Byte), NEW rest \in Seq(Byte), NEW tail \in Seq(Byte),
         NEW f \in Frame, NEW limits \in Limits, data \o rest = Bytes(f) \o tail
  PROVE  /\ FrameStatus(data, limits) \in {"INCOMPLETE", "OK", "FRAME_TOO_LARGE"}
         /\ FrameStatus(data, limits) = "OK" =>
              /\ Len(data) >= kWireHeaderBytes + f.size /\ data[1] = <<f, 1>>
              /\ SubSeq(data, kWireHeaderBytes + f.size + 1, Len(data)) \o rest = tail
         /\ FrameStatus(data, limits) = "INCOMPLETE" =>
              /\ Len(data) < kWireHeaderBytes + f.size
              /\ Len(data) < kWireHeaderBytes + limits.max_frame_bytes
         /\ FrameStatus(data, limits) = "FRAME_TOO_LARGE" => f.size > limits.max_frame_bytes
<1> DEFINE h == kWireHeaderBytes
           total == kWireHeaderBytes + f.size
           max == limits.max_frame_bytes
<1>1. h \in Nat \ {0} /\ f.size \in Nat /\ total \in Nat /\ max \in Nat /\ Len(data) \in Nat
        /\ Len(rest) \in Nat /\ Len(tail) \in Nat
  BY HeaderAssumption, LenProperties DEF Frame, Limits
<1>2. /\ Bytes(f) \in Seq(Byte) /\ Len(Bytes(f)) = total
      /\ \A i \in 1..total : Bytes(f)[i] = <<f, i>>
  BY BytesOfFrame
<1>3. Len(data) + Len(rest) = total + Len(tail)
  <2>1. Len(data \o rest) = Len(data) + Len(rest)
    BY ConcatProperties
  <2>2. Len(Bytes(f) \o tail) = Len(Bytes(f)) + Len(tail)
    BY <1>2, ConcatProperties
  <2> QED
    BY <1>2, <2>1, <2>2
<1>4. \A i \in 1..total : i <= Len(data) => data[i] = <<f, i>>
  <2>1. SUFFICES ASSUME NEW i \in 1..total, i <= Len(data) PROVE data[i] = <<f, i>>
    OBVIOUS
  <2>2. i \in 1..(Len(data) + Len(rest)) /\ i \in 1..(Len(Bytes(f)) + Len(tail))
    BY <1>1, <1>2, <1>3, <2>1
  <2>3. (data \o rest)[i] = data[i]
    BY <2>1, <2>2, ConcatProperties
  <2>4. i <= Len(Bytes(f))
    BY <1>1, <1>2, <2>1
  <2>5. (Bytes(f) \o tail)[i] = Bytes(f)[i]
    BY <1>2, <2>2, <2>4, ConcatProperties
  <2> QED
    BY <1>2, <2>3, <2>5
<1>5. CASE Len(data) < h
  <2>1. HeaderStatus(data, limits) = "INCOMPLETE"
    BY <1>5 DEF HeaderStatus
  <2>2. FrameStatus(data, limits) = "INCOMPLETE"
    BY <2>1 DEF FrameStatus
  <2>3. Len(data) < h + max /\ Len(data) < total
    BY <1>1, <1>5
  <2> QED
    BY <2>2, <2>3
<1>6. CASE ~(Len(data) < h)
  <2>1. \A i \in 1..h : data[i] = <<f, i>>
    <3>1. \A i \in 1..h : i \in 1..total /\ i <= Len(data)
      BY <1>1, <1>6
    <3> QED
      BY <1>4, <3>1, Zenon
  <2>2. data[1] = <<f, 1>>
    BY <1>1, <2>1
  <2>3. data[1][1] = f
    BY <2>2
  <2>4. ~(\E i \in 1..h : data[i] # <<data[1][1], i>>)
    BY <2>1, <2>3, Zenon
  <2>5. HeaderStatus(data, limits) = IF f.size > max THEN "FRAME_TOO_LARGE" ELSE "OK"
    BY <1>6, <2>3, <2>4 DEF HeaderStatus
  <2>6. CASE f.size > max
    <3>1. FrameStatus(data, limits) = "FRAME_TOO_LARGE"
      BY <2>5, <2>6 DEF FrameStatus
    <3> QED
      BY <2>6, <3>1
  <2>7. CASE ~(f.size > max) /\ Len(data) < total
    <3>1. FrameStatus(data, limits) = "INCOMPLETE"
      BY <2>3, <2>5, <2>7 DEF FrameStatus
    <3>2. Len(data) < h + max
      BY <1>1, <2>7
    <3> QED
      BY <2>7, <3>1, <3>2
  <2>8. CASE ~(f.size > max) /\ ~(Len(data) < total)
    <3> DEFINE left == SubSeq(data, total + 1, Len(data))
    <3>1. SubSeq(data, 1, total) = Bytes(f)
      <4>1. \A i \in 1..total : data[i] \in Byte
        BY <1>1, <2>8, ElementOfSeq
      <4>2. /\ SubSeq(data, 1, total) \in Seq(Byte)
            /\ Len(SubSeq(data, 1, total)) = IF 1 <= total THEN total - 1 + 1 ELSE 0
            /\ \A i \in 1..(total - 1 + 1) : SubSeq(data, 1, total)[i] = data[1 + i - 1]
        BY <1>1, <4>1, SubSeqProperties
      <4>3. Len(SubSeq(data, 1, total)) = total
        BY <1>1, <4>2
      <4>4. \A i \in 1..total : SubSeq(data, 1, total)[i] = Bytes(f)[i]
        BY <1>1, <1>2, <1>4, <2>8, <4>2
      <4> QED
        BY <1>2, <4>2, <4>3, <4>4, SeqEqual
    <3>2. FrameStatus(data, limits) = "OK"
      BY <2>3, <2>5, <2>8, <3>1 DEF FrameStatus
    <3>3. data = Bytes(f) \o left /\ left \in Seq(Byte)
      <4>1. SubSeq(data, 1, total) \o SubSeq(data, total + 1, Len(data)) = SubSeq(data, 1, Len(data))
        <5>1. 1 \in 1..(Len(data) + 1) /\ total \in (1 - 1)..Len(data) /\ Len(data) \in total..Len(data)
          BY <1>1, <2>8
        <5> HIDE DEF total
        <5> QED
          BY <5>1, ConcatAdjacentSubSeq
      <4>2. SubSeq(data, 1, Len(data)) = data
        BY SubSeqFull
      <4>3. \A i \in (total + 1)..Len(data) : data[i] \in Byte
        <5>1. \A i \in (total + 1)..Len(data) : i \in 1..Len(data)
          BY <1>1
        <5> QED
          BY <5>1, ElementOfSeq
      <4>4. left \in Seq(Byte)
        BY <1>1, <4>3, SubSeqProperties
      <4> QED
        BY <3>1, <4>1, <4>2, <4>4
    <3> HIDE DEF left
    <3>4. (Bytes(f) \o left) \o rest = Bytes(f) \o (left \o rest)
      BY <1>2, <3>3, BytesAssociative, SMTT(30)
    <3>5. Bytes(f) \o (left \o rest) = Bytes(f) \o tail
      BY <3>3, <3>4
    <3>6. left \o rest \in Seq(Byte)
      BY <3>3, ConcatProperties
    <3>7. left \o rest = tail
      BY <1>2, <3>5, <3>6, ConcatSimplifications
    <3>8. Len(data) >= total
      BY <1>1, <2>8
    <3> QED
      BY <2>2, <3>2, <3>7, <3>8 DEF left
  <2> QED
    BY <2>6, <2>7, <2>8
<1> QED
  BY <1>5, <1>6

LEMMA NextWaits ==
  ASSUME NEW a, NEW limits, NextStatus(a, limits) = "INCOMPLETE"
  PROVE  AfterNext(a, limits) = a
BY DEF AfterNext

LEMMA NextNothing ==
  ASSUME NEW a, a.status = "OK", Unconsumed(a) = <<>>, NEW limits
  PROVE  NextStatus(a, limits) = "INCOMPLETE"
BY NothingToRead DEF NextStatus

LEMMA NextFailed ==
  ASSUME NEW a, Sound(a), a.status # "OK", NEW limits
  PROVE  NextStatus(a, limits) \notin {"OK", "INCOMPLETE"} /\ AfterNext(a, limits) = a
<1>1. a.status \in Statuses
  BY DEF Sound, Assembler
<1>2. NextStatus(a, limits) = a.status
  BY DEF NextStatus
<1>3. a.status # "INCOMPLETE"
  BY <1>1 DEF Statuses
<1>4. AfterNext(a, limits) = [a EXCEPT !.status = a.status]
  BY <1>2, <1>3 DEF AfterNext
<1>5. [a EXCEPT !.status = a.status] = a
  BY DEF Sound, Assembler
<1> QED
  BY <1>2, <1>3, <1>4, <1>5

\* next, where the stream continues with frame f.
LEMMA NextRead ==
  ASSUME NEW a, Sound(a), a.status = "OK", NEW rest \in Seq(Byte), NEW tail \in Seq(Byte),
         NEW f \in Frame, NEW limits \in Limits, Unconsumed(a) \o rest = Bytes(f) \o tail
  PROVE  /\ NextStatus(a, limits) \in {"INCOMPLETE", "OK", "FRAME_TOO_LARGE"}
         /\ NextStatus(a, limits) = "OK" =>
              /\ NextFrame(a) = f
              /\ Sound(AfterNext(a, limits)) /\ AfterNext(a, limits).status = "OK"
              /\ Unconsumed(AfterNext(a, limits)) \o rest = tail
         /\ NextStatus(a, limits) = "INCOMPLETE" =>
              /\ Len(Unconsumed(a)) < kWireHeaderBytes + f.size
              /\ Len(Unconsumed(a)) < kWireHeaderBytes + limits.max_frame_bytes
         /\ NextStatus(a, limits) = "FRAME_TOO_LARGE" =>
              /\ f.size > limits.max_frame_bytes
              /\ Sound(AfterNext(a, limits)) /\ AfterNext(a, limits).status = "FRAME_TOO_LARGE"
<1> DEFINE u == Unconsumed(a)
           total == kWireHeaderBytes + f.size
<1>1. /\ u \in Seq(Byte) /\ Len(u) = Len(a.buffer) - a.consumed
      /\ \A i \in 1..Len(u) : u[i] = a.buffer[a.consumed + i]
  BY UnconsumedProperties
<1>2. NextStatus(a, limits) = FrameStatus(u, limits)
  BY DEF NextStatus
<1>3. /\ a.buffer \in Seq(Byte) /\ a.consumed \in Nat /\ a.consumed <= Len(a.buffer)
      /\ Len(a.buffer) \in Nat /\ total \in Nat \ {0}
  BY HeaderAssumption, LenProperties DEF Sound, Assembler, Frame
<1>4. /\ FrameStatus(u, limits) \in {"INCOMPLETE", "OK", "FRAME_TOO_LARGE"}
      /\ FrameStatus(u, limits) = "OK" =>
           Len(u) >= total /\ u[1] = <<f, 1>> /\ SubSeq(u, total + 1, Len(u)) \o rest = tail
      /\ FrameStatus(u, limits) = "INCOMPLETE" =>
           Len(u) < total /\ Len(u) < kWireHeaderBytes + limits.max_frame_bytes
      /\ FrameStatus(u, limits) = "FRAME_TOO_LARGE" => f.size > limits.max_frame_bytes
  BY <1>1, FrameRead, ZenonT(40)
<1>5. CASE NextStatus(a, limits) = "FRAME_TOO_LARGE"
  <2> DEFINE r == [a EXCEPT !.status = "FRAME_TOO_LARGE"]
  <2>1. AfterNext(a, limits) = r
    BY <1>5 DEF AfterNext
  <2>2. "FRAME_TOO_LARGE" \in Statuses
    BY DEF Statuses
  <2>3. r \in Assembler /\ r.consumed = a.consumed /\ r.buffer = a.buffer /\ r.status = "FRAME_TOO_LARGE"
    BY <2>2 DEF Sound, Assembler
  <2> HIDE DEF r
  <2>4. Sound(r)
    BY <1>3, <2>3 DEF Sound
  <2> QED
    BY <1>2, <1>4, <1>5, <2>1, <2>3, <2>4
<1>6. CASE NextStatus(a, limits) = "OK"
  <2>1. Len(u) >= total /\ u[1] = <<f, 1>> /\ SubSeq(u, total + 1, Len(u)) \o rest = tail
    BY <1>2, <1>4, <1>6
  <2>2. NextFrame(a) = f
    <3>1. 1 \in 1..Len(u)
      BY <1>1, <1>3, <2>1
    <3>2. a.buffer[a.consumed + 1] = <<f, 1>>
      BY <1>1, <2>1, <3>1
    <3> QED
      BY <3>2 DEF NextFrame
  <2> DEFINE r == [a EXCEPT !.consumed = a.consumed + kWireHeaderBytes + f.size]
             n == a.consumed + kWireHeaderBytes + f.size
  <2>3. AfterNext(a, limits) = r
    BY <1>6, <2>2 DEF AfterNext
  <2>4. n \in Nat /\ n = a.consumed + total /\ n <= Len(a.buffer)
    <3>1. kWireHeaderBytes \in Nat /\ f.size \in Nat
      BY HeaderAssumption DEF Frame
    <3>2. n = a.consumed + total
      BY <1>3, <3>1
    <3>3. Len(u) \in Nat
      BY <1>1, LenProperties
    <3> DEFINE lu == Len(u)
               lb == Len(a.buffer)
               c == a.consumed
    <3>4. lu = lb - c /\ lu >= total /\ c \in Nat /\ lb \in Nat /\ total \in Nat
      BY <1>1, <1>3, <2>1
    <3>5. n = c + total /\ lu \in Nat
      BY <3>2, <3>3
    <3>6. n \in Nat /\ n <= lb
      <4> HIDE DEF lu, lb, c, n, total
      <4> QED
        BY <3>4, <3>5
    <3> QED
      BY <3>2, <3>6
  <2>5. r \in Assembler /\ r.consumed = n /\ r.buffer = a.buffer /\ r.status = "OK"
    BY <2>4 DEF Sound, Assembler
  <2> HIDE DEF r, n
  <2>6. Sound(r)
    BY <2>4, <2>5 DEF Sound
  <2>7. Unconsumed(r) = SubSeq(u, total + 1, Len(u))
    <3> DEFINE v == Unconsumed(r)
               w == SubSeq(u, total + 1, Len(u))
    <3>1. /\ v \in Seq(Byte) /\ Len(v) = Len(a.buffer) - n
          /\ \A i \in 1..Len(v) : v[i] = a.buffer[n + i]
      BY <2>5, <2>6, UnconsumedProperties
    <3>2. [buffer |-> u, consumed |-> total, status |-> "OK"] \in Assembler
      BY <1>1, <1>3 DEF Assembler, Statuses
    <3> DEFINE x == [buffer |-> u, consumed |-> total, status |-> "OK"]
    <3>3. x.buffer = u /\ x.consumed = total
      OBVIOUS
    <3>4. x \in Assembler
      BY <3>2
    <3> HIDE DEF x
    <3>5. Sound(x)
      BY <2>1, <3>3, <3>4 DEF Sound
    <3>6. Unconsumed(x) = w
      BY <3>3 DEF Unconsumed
    <3>7. /\ w \in Seq(Byte) /\ Len(w) = Len(u) - total
          /\ \A i \in 1..Len(w) : w[i] = u[total + i]
      <4> DEFINE y == Unconsumed(x)
      <4>1. /\ y \in Seq(Byte) /\ Len(y) = Len(x.buffer) - x.consumed
            /\ \A i \in 1..Len(y) : y[i] = x.buffer[x.consumed + i]
        BY <3>5, UnconsumedProperties
      <4>2. y = w
        BY <3>6
      <4> HIDE DEF w, u, total, y
      <4> QED
        BY <3>3, <4>1, <4>2
    <3> HIDE DEF v, w, u, total
    <3>8. Len(v) = Len(w) /\ Len(v) \in Nat /\ Len(u) \in Nat
      <4>1. Len(v) \in Nat /\ Len(u) \in Nat
        BY <1>1, <3>1, LenProperties
      <4>2. Len(v) = Len(w)
        <5> DEFINE lu == Len(u)
                   lv == Len(v)
                   lw == Len(w)
                   lb == Len(a.buffer)
                   c == a.consumed
        <5>1. lv = lb - n /\ lw = lu - total
          BY <3>1, <3>7
        <5>2. n = c + total /\ c \in Nat /\ lb \in Nat /\ total \in Nat
          BY <1>1, <1>3, <2>4
        <5>3. lu = lb - c
          BY <1>1
        <5>4. lv = lw
          <6> HIDE DEF lu, lv, lw, lb, c
          <6> QED
            BY <5>1, <5>2, <5>3
        <5> QED
          BY <5>4
      <4> QED
        BY <4>1, <4>2
    <3>9. ASSUME NEW i \in 1..Len(v) PROVE v[i] = w[i]
      <4>1. total + i \in 1..Len(u) /\ a.consumed + (total + i) = n + i
        <5> DEFINE lu == Len(u)
                   lw == Len(w)
                   c == a.consumed
        <5>1. /\ i \in 1..lw /\ lw = lu - total /\ total \in Nat /\ c \in Nat /\ n = c + total
              /\ lu \in Nat /\ lu >= total
          BY <1>3, <2>1, <2>4, <3>7, <3>8
        <5>2. total + i \in 1..lu /\ c + (total + i) = n + i
          <6> HIDE DEF lu, lw, c
          <6> QED
            BY <5>1
        <5> QED
          BY <5>2
      <4>2. i \in 1..Len(w) /\ v[i] = a.buffer[n + i] /\ w[i] = u[total + i]
        BY <3>1, <3>7, <3>8
      <4>3. u[total + i] = a.buffer[a.consumed + (total + i)]
        BY <1>1, <4>1
      <4> QED
        BY <4>1, <4>2, <4>3
    <3>10. v = w
      BY <3>1, <3>7, <3>8, <3>9, SeqEqual
    <3> QED
      BY <3>10 DEF v, w
  <2> QED
    BY <1>6, <2>1, <2>2, <2>3, <2>5, <2>6, <2>7
<1> QED
  BY <1>2, <1>4, <1>5, <1>6

-----------------------------------------------------------------------------
(* The coordinator's end.                                                  *)

LEMMA Numbers ==
  /\ kWireHeaderBytes \in Nat \ {0} /\ kReceiveChunkBytes \in Nat \ {0}
  /\ client_limits \in Limits /\ server_limits \in Limits
  /\ client_limits.max_frame_bytes \in Nat /\ server_limits.max_frame_bytes \in Nat
  /\ client_limits.max_wire_assembly_bytes \in Nat /\ server_limits.max_wire_assembly_bytes \in Nat
<1>1. client_limits \in Limits /\ server_limits \in Limits
  BY SizesAssumption
<1>2. /\ client_limits.max_frame_bytes \in Nat /\ server_limits.max_frame_bytes \in Nat
      /\ client_limits.max_wire_assembly_bytes \in Nat
      /\ server_limits.max_wire_assembly_bytes \in Nat
  BY <1>1 DEF Limits
<1> QED
  BY <1>1, <1>2, HeaderAssumption, ChunkAssumption

\* Less than a frame is held: a chunk more crosses the bound only where there is
\* no room for that frame.
LEMMA ChunkFits ==
  ASSUME NEW limits \in Limits, NEW x \in Nat, NEW y \in Nat, NEW size \in Nat,
         x < kWireHeaderBytes + size, y <= kReceiveChunkBytes, ~NoRoom(limits, size)
  PROVE  x + y <= limits.max_wire_assembly_bytes
<1>1. limits.max_wire_assembly_bytes \in Nat
  BY DEF Limits
<1>2. limits.max_wire_assembly_bytes >= kWireHeaderBytes + size - 1 + kReceiveChunkBytes
  BY DEF NoRoom, Fits
<1> QED
  BY <1>1, <1>2, Numbers

\* A frame more excuses no less.
LEMMA ExcusedAppend ==
  ASSUME NEW a, NEW s \in Seq(Frame), NEW f \in Frame, NEW limits, Excused(a, s, limits)
  PROVE  Excused(a, Append(s, f), limits)
<1>1. /\ Len(Append(s, f)) = Len(s) + 1 /\ Len(s) \in Nat
      /\ \A i \in 1..Len(s) : Append(s, f)[i] = s[i]
  BY AppendProperties, LenProperties
<1>2. \A i \in 1..Len(s) : i \in 1..Len(Append(s, f))
  BY <1>1
<1> QED
  BY <1>1, <1>2 DEF Excused

\* Either all was handled, or a frame follows what was.
LEMMA PendingCases ==
  ASSUME NEW s \in Seq(Frame), NEW h \in Seq(Frame), Len(h) <= Len(s)
  PROVE  /\ Pending(s, h) \in Seq(Frame) /\ Len(Pending(s, h)) = Len(s) - Len(h)
         /\ Len(h) = Len(s) => Pending(s, h) = <<>>
         /\ Len(h) < Len(s) =>
              /\ Pending(s, h) # <<>> /\ s[Len(h) + 1] \in Frame
              /\ Pending(s, h)[1] = s[Len(h) + 1]
              /\ Tail(Pending(s, h)) = SubSeq(s, Len(h) + 2, Len(s))
<1>1. Len(s) \in Nat /\ Len(h) \in Nat /\ \A i \in 1..Len(s) : s[i] \in Frame
  BY LenProperties, ElementOfSeq
<1> DEFINE n == Len(h)
           m == Len(s)
           p == SubSeq(s, n + 1, m)
<1>2. p = Pending(s, h)
  BY DEF Pending
<1>3. n \in Nat /\ m \in Nat /\ n <= m
  BY <1>1
<1>4. \A i \in (n + 1)..m : s[i] \in Frame
  BY <1>1
<1>5. /\ p \in Seq(Frame) /\ Len(p) = (IF n + 1 <= m THEN m - (n + 1) + 1 ELSE 0)
      /\ \A i \in 1..(m - (n + 1) + 1) : p[i] = s[(n + 1) + i - 1]
  <2> HIDE DEF n, m
  <2> QED
    BY <1>3, <1>4, SubSeqProperties
<1>6. Len(p) = m - n
  <2> HIDE DEF n, m, p
  <2> QED
    BY <1>3, <1>5
<1>7. n = m => p = <<>>
  <2> HIDE DEF n, m, p
  <2> QED
    BY <1>3, <1>5, <1>6, EmptySeq
<1>8. ASSUME n < m PROVE p # <<>> /\ s[n + 1] \in Frame /\ p[1] = s[n + 1] /\ Tail(p) = SubSeq(s, n + 2, m)
  <2>1. p # <<>>
    <3>1. Len(<<>>) = 0
      BY EmptySeq
    <3> HIDE DEF n, m, p
    <3> QED
      BY <1>3, <1>6, <1>8, <3>1
  <2>2. 1 \in 1..(m - (n + 1) + 1) /\ (n + 1) + 1 - 1 = n + 1 /\ n + 1 \in (n + 1)..m
          /\ n + 1 \in 1..m /\ m \in (n + 1)..m
    <3> HIDE DEF n, m
    <3> QED
      BY <1>3, <1>8
  <2>3. p[1] = s[n + 1]
    <3> HIDE DEF p, n, m
    <3> QED
      BY <1>5, <2>2
  <2>4. s[n + 1] \in Frame
    <3> HIDE DEF n, m
    <3> QED
      BY <1>4, <2>2
  <2>5. Tail(p) = SubSeq(s, (n + 1) + 1, m)
    BY <2>2, HeadTailOfSubSeq
  <2>6. (n + 1) + 1 = n + 2
    <3> HIDE DEF n
    <3> QED
      BY <1>3
  <2> QED
    BY <2>1, <2>3, <2>4, <2>5, <2>6
<1> QED
  BY <1>2, <1>5, <1>6, <1>7, <1>8

LEMMA PendingAppend ==
  ASSUME NEW s \in Seq(Frame), NEW h \in Seq(Frame), Len(h) <= Len(s), NEW f \in Frame
  PROVE  Pending(Append(s, f), h) = Append(Pending(s, h), f)
<1> DEFINE t == Append(s, f)
           p == Pending(s, h)
           q == Pending(t, h)
           r == Append(p, f)
<1>1. /\ t \in Seq(Frame) /\ Len(t) = Len(s) + 1 /\ Len(s) \in Nat /\ Len(h) \in Nat
      /\ \A i \in 1..Len(s) : t[i] = s[i]
      /\ t[Len(s) + 1] = f
  BY AppendProperties, LenProperties
<1> HIDE DEF t
<1>2. p \in Seq(Frame) /\ Len(p) = Len(s) - Len(h) /\ q \in Seq(Frame) /\ Len(q) = Len(t) - Len(h)
  <2>1. Len(h) <= Len(t)
    BY <1>1
  <2> QED
    BY <1>1, <2>1, PendingCases
<1>3. /\ r \in Seq(Frame) /\ Len(r) = Len(p) + 1
      /\ \A i \in 1..Len(p) : r[i] = p[i]
      /\ r[Len(p) + 1] = f
  BY <1>2, AppendProperties
<1>4. \A i \in 1..Len(p) : p[i] = s[Len(h) + i]
  <2>1. \A i \in (Len(h) + 1)..Len(s) : s[i] \in Frame
    BY <1>1, ElementOfSeq
  <2>2. \A i \in 1..(Len(s) - (Len(h) + 1) + 1) : p[i] = s[(Len(h) + 1) + i - 1]
    BY <1>1, <2>1, SubSeqProperties DEF Pending
  <2> HIDE DEF p
  <2>3. \A i \in 1..Len(p) : i \in 1..(Len(s) - (Len(h) + 1) + 1) /\ (Len(h) + 1) + i - 1 = Len(h) + i
    BY <1>1, <1>2
  <2> QED
    BY <2>2, <2>3
<1>5. \A i \in 1..Len(q) : q[i] = t[Len(h) + i]
  <2>1. \A i \in (Len(h) + 1)..Len(t) : t[i] \in Frame
    BY <1>1, ElementOfSeq
  <2>2. \A i \in 1..(Len(t) - (Len(h) + 1) + 1) : q[i] = t[(Len(h) + 1) + i - 1]
    BY <1>1, <2>1, SubSeqProperties DEF Pending
  <2> HIDE DEF q
  <2>3. \A i \in 1..Len(q) : i \in 1..(Len(t) - (Len(h) + 1) + 1) /\ (Len(h) + 1) + i - 1 = Len(h) + i
    BY <1>1, <1>2
  <2> QED
    BY <2>2, <2>3
<1> HIDE DEF p, q, r
<1>6. Len(q) = Len(r)
  BY <1>1, <1>2, <1>3
<1>7. ASSUME NEW i \in 1..Len(q) PROVE q[i] = r[i]
  <2>1. q[i] = t[Len(h) + i] /\ Len(q) = Len(p) + 1 /\ Len(p) \in Nat
    BY <1>1, <1>2, <1>5
  <2>2. CASE i = Len(p) + 1
    <3>1. Len(h) + i = Len(s) + 1
      BY <1>1, <1>2, <2>2
    <3> QED
      BY <1>1, <1>3, <2>1, <2>2, <3>1
  <2>3. CASE i # Len(p) + 1
    <3> DEFINE lp == Len(p)
               lh == Len(h)
               ls == Len(s)
    <3>0. i \in 1..(lp + 1) /\ i # lp + 1 /\ lp \in Nat /\ lh \in Nat /\ ls \in Nat /\ lp = ls - lh
      BY <1>1, <1>2, <2>1, <2>3
    <3>1. i \in 1..Len(p) /\ Len(h) + i \in 1..Len(s)
      <4>1. i \in 1..lp /\ lh + i \in 1..ls
        <5> HIDE DEF lp, lh, ls
        <5> QED
          BY <3>0
      <4> QED
        BY <4>1
    <3>2. t[Len(h) + i] = s[Len(h) + i]
      BY <1>1, <3>1
    <3>3. r[i] = p[i] /\ p[i] = s[Len(h) + i]
      BY <1>3, <1>4, <3>1
    <3> QED
      BY <2>1, <3>2, <3>3
  <2> QED
    BY <2>2, <2>3
<1>8. q = r
  BY <1>2, <1>3, <1>6, <1>7, SeqEqual
<1> QED
  BY <1>8 DEF q, r, p, t

LEMMA PrefixOfAppend ==
  ASSUME NEW s \in Seq(Frame), NEW f \in Frame, NEW n \in 0..Len(s)
  PROVE  SubSeq(Append(s, f), 1, n) = SubSeq(s, 1, n)
<1>1. CASE n = 0
  BY <1>1, SubSeqEmpty
<1>2. CASE n # 0
  <2>1. Len(s) \in Nat
    BY LenProperties
  <2>2. 1 \in 1..Len(s) /\ n \in 1..Len(s)
    BY <1>2, <2>1
  <2>3. <<f>> \in Seq(Frame)
    OBVIOUS
  <2>4. SubSeq(s \o <<f>>, 1, n) = SubSeq(s, 1, n)
    BY <2>2, <2>3, SubSeqOfConcat1
  <2> QED
    BY <2>4, AppendIsConcat
<1> QED
  BY <1>1, <1>2

\* A frame more is sent.
LEMMA StepSend ==
  ASSUME NEW thread, NEW a, Sound(a), NEW u \in Seq(Byte), NEW s \in Seq(Frame),
         NEW h \in Seq(Frame), InStep(thread, a, u, s, h),
         NEW f \in Frame
  PROVE  InStep(thread, a, u \o Bytes(f), Append(s, f), h)
<1>1. Len(s) \in Nat /\ Len(h) \in Nat /\ Len(h) <= Len(s)
  BY LenProperties DEF InStep
<1>2. /\ Append(s, f) \in Seq(Frame) /\ Len(Append(s, f)) = Len(s) + 1
      /\ \A i \in 1..Len(s) : Append(s, f)[i] = s[i]
      /\ Append(s, f)[Len(s) + 1] = f
  BY AppendProperties
<1>3. Len(h) <= Len(Append(s, f))
  BY <1>1, <1>2
<1>4. h = SubSeq(Append(s, f), 1, Len(h))
  <2>1. Len(h) \in 0..Len(s)
    BY <1>1
  <2>2. h = SubSeq(s, 1, Len(h))
    BY DEF InStep
  <2> QED
    BY <2>1, <2>2, PrefixOfAppend
<1>5. Unconsumed(a) \o (u \o Bytes(f)) = Encoded(Pending(Append(s, f), h))
  <2>1. Pending(s, h) \in Seq(Frame)
    BY <1>1, PendingCases
  <2>2. Encoded(Append(Pending(s, h), f)) = Encoded(Pending(s, h)) \o Bytes(f)
    BY <2>1, EncodedAppend
  <2>3. Pending(Append(s, f), h) = Append(Pending(s, h), f)
    BY <1>1, PendingAppend
  <2>4. Unconsumed(a) \o u = Encoded(Pending(s, h))
    BY DEF InStep
  <2>5. Unconsumed(a) \in Seq(Byte) /\ Bytes(f) \in Seq(Byte)
    BY UnconsumedProperties, BytesOfFrame
  <2>6. (Unconsumed(a) \o u) \o Bytes(f) = Unconsumed(a) \o (u \o Bytes(f))
    BY <2>5, BytesAssociative
  <2> QED
    BY <2>2, <2>3, <2>4, <2>6
<1>6. ASSUME thread = "recv"
      PROVE  Len(Unconsumed(a)) < kWireHeaderBytes + Append(s, f)[Len(h) + 1].size
  <2>1. CASE Len(h) < Len(s)
    <3>1. Len(h) + 1 \in 1..Len(s)
      BY <1>1, <2>1
    <3> QED
      BY <1>2, <1>6, <2>1, <3>1 DEF InStep
  <2>2. CASE ~(Len(h) < Len(s))
    <3>1. Len(h) = Len(s)
      BY <1>1, <2>2
    <3>2. Pending(s, h) = <<>> /\ Pending(s, h) \in Seq(Frame)
      BY <1>1, <3>1, PendingCases
    <3>3. Unconsumed(a) \o u = <<>>
      BY <3>2, EncodedType DEF InStep
    <3>4. Unconsumed(a) \in Seq(Byte)
      BY UnconsumedProperties
    <3>5. Unconsumed(a) = <<>>
      BY <3>3, <3>4, ConcatEqualIffEmpty
    <3>6. Len(Unconsumed(a)) = 0 /\ f.size \in Nat
      BY <3>5, EmptySeq DEF Frame
    <3> QED
      BY <1>2, <3>1, <3>6, Numbers
  <2> QED
    BY <2>1, <2>2
<1> HIDE DEF Pending
<1> QED
  BY <1>3, <1>4, <1>5, <1>6 DEF InStep

\* A chunk of a stream, and what is left of it.
LEMMA ChunkProperties ==
  ASSUME NEW u \in Seq(Byte), NEW n \in Chunks(u)
  PROVE  /\ SubSeq(u, 1, n) \in Seq(Byte) /\ After(u, n) \in Seq(Byte)
         /\ Len(SubSeq(u, 1, n)) <= kReceiveChunkBytes /\ Len(SubSeq(u, 1, n)) \in Nat
         /\ SubSeq(u, 1, n) \o After(u, n) = u
<1>1. Len(u) \in Nat /\ n \in 1..Len(u) /\ n <= kReceiveChunkBytes /\ kReceiveChunkBytes \in Nat
  BY LenProperties, ChunkAssumption DEF Chunks
<1>2. \A i \in 1..Len(u) : u[i] \in Byte
  BY ElementOfSeq
<1>3. SubSeq(u, 1, n) \in Seq(Byte) /\ Len(SubSeq(u, 1, n)) = (IF 1 <= n THEN n - 1 + 1 ELSE 0)
  <2>1. \A i \in 1..n : u[i] \in Byte
    BY <1>1, <1>2
  <2> QED
    BY <1>1, <2>1, SubSeqProperties
<1>4. After(u, n) \in Seq(Byte)
  <2>1. \A i \in (n + 1)..Len(u) : u[i] \in Byte
    BY <1>1, <1>2
  <2>2. n + 1 \in Int /\ Len(u) \in Int
    BY <1>1
  <2> QED
    BY <2>1, <2>2, SubSeqProperties DEF After
<1>5. SubSeq(u, 1, n) \o After(u, n) = SubSeq(u, 1, Len(u))
  <2>1. 1 \in 1..(Len(u) + 1) /\ n \in (1 - 1)..Len(u) /\ Len(u) \in n..Len(u)
    BY <1>1
  <2> QED
    BY <2>1, ConcatAdjacentSubSeq DEF After
<1>6. SubSeq(u, 1, Len(u)) = u
  BY SubSeqFull
<1>7. Len(SubSeq(u, 1, n)) = n
  BY <1>1, <1>3
<1>8. n <= kReceiveChunkBytes /\ n \in Nat
  BY <1>1
<1>9. Len(SubSeq(u, 1, n)) <= kReceiveChunkBytes /\ Len(SubSeq(u, 1, n)) \in Nat
  BY <1>7, <1>8
<1> QED
  BY <1>3, <1>4, <1>5, <1>6, <1>9

\* A chunk is received: it fits, or there is no room for the next frame.
LEMMA StepReceive ==
  ASSUME NEW a, Sound(a), a.status = "OK", NEW u \in Seq(Byte), NEW s \in Seq(Frame),
         NEW h \in Seq(Frame), InStep("recv", a, u, s, h), NEW n \in Chunks(u)
  PROVE  /\ Sound(AppendBytes(a, SubSeq(u, 1, n), server_limits))
         /\ Excused(AppendBytes(a, SubSeq(u, 1, n), server_limits), s, server_limits)
         /\ InStep("next", AppendBytes(a, SubSeq(u, 1, n), server_limits), After(u, n), s, h)
<1> DEFINE data == SubSeq(u, 1, n)
           b == AppendBytes(a, data, server_limits)
<1>1. /\ data \in Seq(Byte) /\ After(u, n) \in Seq(Byte)
      /\ Len(data) <= kReceiveChunkBytes /\ Len(data) \in Nat
      /\ data \o After(u, n) = u
  BY ChunkProperties
<1>2. Unconsumed(a) \in Seq(Byte) /\ Len(Unconsumed(a)) \in Nat
  BY UnconsumedProperties, LenProperties
<1>3. Len(h) < Len(s) /\ Len(h) + 1 \in 1..Len(s) /\ s[Len(h) + 1].size \in Nat
  <2>1. Len(s) \in Nat /\ Len(h) \in Nat /\ Len(h) <= Len(s)
    BY LenProperties DEF InStep
  <2>2. Len(h) # Len(s)
    <3> SUFFICES ASSUME Len(h) = Len(s) PROVE FALSE
      OBVIOUS
    <3>1. Pending(s, h) = <<>> /\ Pending(s, h) \in Seq(Frame)
      BY <2>1, PendingCases
    <3>2. Unconsumed(a) \o u = <<>>
      BY <3>1, EncodedType DEF InStep
    <3>3. u = <<>>
      BY <1>2, <3>2, ConcatEqualIffEmpty
    <3>4. n \in 1..kReceiveChunkBytes /\ n <= Len(u) /\ kReceiveChunkBytes \in Nat
      BY Numbers DEF Chunks
    <3> QED
      BY <3>3, <3>4, EmptySeq
  <2>3. Len(h) < Len(s) /\ Len(h) + 1 \in 1..Len(s)
    BY <2>1, <2>2
  <2>4. s[Len(h) + 1] \in Frame
    BY <2>3, ElementOfSeq
  <2> QED
    BY <2>3, <2>4 DEF Frame
<1>4. Len(Unconsumed(a)) < kWireHeaderBytes + s[Len(h) + 1].size
  BY <1>3 DEF InStep
<1> HIDE DEF data
<1>5. Sound(b) /\ Unconsumed(b) = Unconsumed(a) \o data
  BY <1>1, AppendBytesResult, Numbers
<1>8. Excused(b, s, server_limits)
  <2>1. CASE NoRoom(server_limits, s[Len(h) + 1].size)
    BY <1>3, <2>1 DEF Excused
  <2>2. CASE ~NoRoom(server_limits, s[Len(h) + 1].size)
    <3>1. Len(Unconsumed(a)) + Len(data) <= server_limits.max_wire_assembly_bytes
      BY <1>1, <1>2, <1>3, <1>4, <2>2, ChunkFits, Numbers
    <3>2. b.status = "OK"
      BY <1>1, <3>1, AppendBytesResult, Numbers
    <3> QED
      BY <3>2 DEF Excused
  <2> QED
    BY <2>1, <2>2
<1> HIDE DEF b
<1>6. Unconsumed(b) \o After(u, n) = Unconsumed(a) \o u
  <2>1. (Unconsumed(a) \o data) \o After(u, n) = Unconsumed(a) \o (data \o After(u, n))
    BY <1>1, <1>2, BytesAssociative
  <2> QED
    BY <1>1, <1>5, <2>1
<1>7. InStep("next", b, After(u, n), s, h)
  BY <1>6 DEF InStep
<1> QED
  BY <1>5, <1>7, <1>8 DEF b, data

\* What a thread that looks for a frame finds.
LEMMA StepLooks ==
  ASSUME NEW thread, NEW a, Sound(a), a.status = "OK", NEW u \in Seq(Byte), NEW s \in Seq(Frame),
         NEW h \in Seq(Frame), InStep(thread, a, u, s, h)
  PROVE  \/ /\ NextStatus(a, server_limits) = "INCOMPLETE"
            /\ Len(h) < Len(s) => Len(Unconsumed(a)) < kWireHeaderBytes + s[Len(h) + 1].size
         \/ /\ Len(h) < Len(s) /\ NoRoom(server_limits, s[Len(h) + 1].size)
            /\ NextStatus(a, server_limits) \notin {"OK", "INCOMPLETE"}
            /\ Sound(AfterNext(a, server_limits))
         \/ /\ NextStatus(a, server_limits) = "OK"
            /\ Len(h) < Len(s) /\ NextFrame(a) = s[Len(h) + 1]
            /\ Sound(AfterNext(a, server_limits)) /\ AfterNext(a, server_limits).status = "OK"
            /\ Unconsumed(AfterNext(a, server_limits)) \o u = Encoded(SubSeq(s, Len(h) + 2, Len(s)))
<1>1. Len(s) \in Nat /\ Len(h) \in Nat /\ Len(h) <= Len(s)
  BY LenProperties DEF InStep
<1>2. Unconsumed(a) \o u = Encoded(Pending(s, h))
  BY DEF InStep
<1>3. Unconsumed(a) \in Seq(Byte) /\ Len(Unconsumed(a)) \in Nat
  BY UnconsumedProperties, LenProperties
<1>4. CASE Len(h) = Len(s)
  <2>1. Pending(s, h) = <<>> /\ Pending(s, h) \in Seq(Frame)
    BY <1>1, <1>4, PendingCases
  <2>2. Unconsumed(a) \o u = <<>>
    BY <1>2, <2>1, EncodedType
  <2>3. Unconsumed(a) = <<>>
    BY <1>3, <2>2, ConcatEqualIffEmpty
  <2>4. NextStatus(a, server_limits) = "INCOMPLETE"
    BY <2>3, NextNothing
  <2> QED
    BY <1>1, <1>4, <2>4
<1>5. CASE Len(h) # Len(s)
  <2> DEFINE f == s[Len(h) + 1]
             tail == SubSeq(s, Len(h) + 2, Len(s))
  <2>0. Len(h) < Len(s)
    BY <1>1, <1>5
  <2>1. /\ Pending(s, h) \in Seq(Frame) /\ Pending(s, h) # <<>> /\ f \in Frame
        /\ Pending(s, h)[1] = f /\ Tail(Pending(s, h)) = tail
    BY <1>1, <2>0, PendingCases
  <2>2. Encoded(Pending(s, h)) = Bytes(f) \o Encoded(tail)
    BY <2>1, EncodedHead
  <2>3. tail \in Seq(Frame)
    BY <2>1, HeadTailProperties
  <2>4. Encoded(tail) \in Seq(Byte)
    BY <2>3, EncodedType
  <2> DEFINE later == Encoded(tail)
  <2> HIDE DEF f, tail, later
  <2>6. Unconsumed(a) \o u = Bytes(f) \o later /\ later \in Seq(Byte)
    BY <1>2, <2>2, <2>4 DEF later
  <2>7. /\ NextStatus(a, server_limits) \in {"INCOMPLETE", "OK", "FRAME_TOO_LARGE"}
        /\ NextStatus(a, server_limits) = "OK" =>
             /\ NextFrame(a) = f
             /\ Sound(AfterNext(a, server_limits)) /\ AfterNext(a, server_limits).status = "OK"
             /\ Unconsumed(AfterNext(a, server_limits)) \o u = later
        /\ NextStatus(a, server_limits) = "INCOMPLETE" =>
             Len(Unconsumed(a)) < kWireHeaderBytes + f.size
        /\ NextStatus(a, server_limits) = "FRAME_TOO_LARGE" =>
             f.size > server_limits.max_frame_bytes /\ Sound(AfterNext(a, server_limits))
    <3>1. server_limits \in Limits /\ f \in Frame
      BY <2>1, Numbers
    <3> QED
      BY <2>6, <3>1, NextRead, ZenonT(40)
  <2>8. CASE NextStatus(a, server_limits) = "FRAME_TOO_LARGE"
    BY <2>0, <2>7, <2>8 DEF NoRoom, f
  <2>9. CASE NextStatus(a, server_limits) = "INCOMPLETE"
    BY <2>7, <2>9 DEF f
  <2>10. CASE NextStatus(a, server_limits) = "OK"
    BY <2>0, <2>7, <2>10 DEF f, tail, later
  <2> QED
    BY <2>7, <2>8, <2>9, <2>10
<1> QED
  BY <1>4, <1>5

\* A complete frame is the next one that was sent.
LEMMA StepHandle ==
  ASSUME NEW thread, NEW a, Sound(a), a.status = "OK", NEW u \in Seq(Byte), NEW s \in Seq(Frame),
         NEW h \in Seq(Frame), InStep(thread, a, u, s, h), thread # "recv",
         NextStatus(a, server_limits) = "OK"
  PROVE  /\ NextFrame(a) \in Frame /\ Pending(s, h) # <<>> /\ Pending(s, h)[1] = NextFrame(a)
         /\ Pending(s, Append(h, NextFrame(a))) = Tail(Pending(s, h))
         /\ Sound(AfterNext(a, server_limits)) /\ AfterNext(a, server_limits).status = "OK"
         /\ InStep(thread, AfterNext(a, server_limits), u, s, Append(h, NextFrame(a)))
<1> DEFINE f == NextFrame(a)
           b == AfterNext(a, server_limits)
           k == Append(h, f)
<1>1. Len(s) \in Nat /\ Len(h) \in Nat /\ Len(h) <= Len(s)
  BY LenProperties DEF InStep
<1>2. /\ Len(h) < Len(s) /\ f = s[Len(h) + 1] /\ Sound(b) /\ b.status = "OK"
      /\ Unconsumed(b) \o u = Encoded(SubSeq(s, Len(h) + 2, Len(s)))
  <2>1. NextStatus(a, server_limits) # "INCOMPLETE"
    OBVIOUS
  <2> QED
    BY <2>1, StepLooks
<1> HIDE DEF f, b
<1>3. /\ Pending(s, h) # <<>> /\ f \in Frame /\ Pending(s, h)[1] = f
      /\ Tail(Pending(s, h)) = SubSeq(s, Len(h) + 2, Len(s))
  BY <1>1, <1>2, PendingCases
<1>4. Len(k) = Len(h) + 1 /\ Len(h) + 1 <= Len(s) /\ (Len(h) + 1) + 1 = Len(h) + 2
  BY <1>1, <1>2, <1>3, AppendProperties
<1>5. k = SubSeq(s, 1, Len(h) + 1)
  <2>1. Len(h) + 1 \in 1..Len(s) /\ 1 \in 1..Len(s) /\ (Len(h) + 1) - 1 = Len(h)
    BY <1>1, <1>2
  <2>2. SubSeq(s, 1, Len(h) + 1) = SubSeq(s, 1, (Len(h) + 1) - 1) \o <<s[Len(h) + 1]>>
    BY <1>1, <2>1, SubSeqRecursiveSecond
  <2>3. h = SubSeq(s, 1, Len(h))
    BY DEF InStep
  <2>4. SubSeq(s, 1, Len(h) + 1) = h \o <<f>>
    BY <1>2, <2>1, <2>2, <2>3
  <2> QED
    BY <1>3, <2>4, AppendIsConcat
<1> HIDE DEF k
<1>6. Pending(s, k) = SubSeq(s, Len(h) + 2, Len(s))
  BY <1>4 DEF Pending
<1>7. InStep(thread, b, u, s, k)
  <2>2. Len(k) <= Len(s) /\ k = SubSeq(s, 1, Len(k))
    BY <1>4, <1>5
  <2>3. Unconsumed(b) \o u = Encoded(Pending(s, k))
    BY <1>2, <1>6
  <2> QED
    BY <2>2, <2>3 DEF InStep
<1>8. Pending(s, k) = Tail(Pending(s, h))
  BY <1>3, <1>6
<1> QED
  BY <1>2, <1>3, <1>7, <1>8 DEF f, b, k

\* Nothing complete: less than a frame is held, or there is no room for it.
LEMMA StepPause ==
  ASSUME NEW thread, NEW a, Sound(a), a.status = "OK", NEW u \in Seq(Byte), NEW s \in Seq(Frame),
         NEW h \in Seq(Frame), InStep(thread, a, u, s, h), NextStatus(a, server_limits) # "OK"
  PROVE  /\ Sound(AfterNext(a, server_limits))
         /\ Excused(AfterNext(a, server_limits), s, server_limits)
         /\ NextStatus(a, server_limits) = "INCOMPLETE" =>
              AfterNext(a, server_limits) = a /\ InStep("recv", a, u, s, h)
<1>1. CASE NextStatus(a, server_limits) = "INCOMPLETE"
  <2>1. Len(h) < Len(s) => Len(Unconsumed(a)) < kWireHeaderBytes + s[Len(h) + 1].size
    BY <1>1, StepLooks
  <2>2. AfterNext(a, server_limits) = a
    BY <1>1, NextWaits
  <2>3. InStep("recv", a, u, s, h)
    BY <2>1 DEF InStep
  <2> QED
    BY <2>2, <2>3 DEF Excused
<1>2. CASE NextStatus(a, server_limits) # "INCOMPLETE"
  <2>1. /\ Len(h) < Len(s) /\ NoRoom(server_limits, s[Len(h) + 1].size)
        /\ Sound(AfterNext(a, server_limits))
    BY <1>2, StepLooks
  <2>2. Len(h) + 1 \in 1..Len(s)
    BY <2>1, LenProperties
  <2> QED
    BY <1>2, <2>1, <2>2 DEF Excused
<1> QED
  BY <1>1, <1>2

\* What was handled, what is held and what is on the way are what was sent.
Whole(a, u, s, h) == Encoded(h) \o Unconsumed(a) \o u = Encoded(s)
LEMMA StepWhole ==
  ASSUME NEW thread, NEW a, Sound(a), NEW u \in Seq(Byte), NEW s \in Seq(Frame),
         NEW h \in Seq(Frame), InStep(thread, a, u, s, h)
  PROVE  Whole(a, u, s, h)
<1>1. Len(s) \in Nat /\ Len(h) \in 0..Len(s)
  BY LenProperties DEF InStep
<1>2. Encoded(SubSeq(s, 1, Len(h))) \o Encoded(SubSeq(s, Len(h) + 1, Len(s))) = Encoded(s)
  BY <1>1, EncodedSplit
<1>3. h = SubSeq(s, 1, Len(h)) /\ Unconsumed(a) \o u = Encoded(SubSeq(s, Len(h) + 1, Len(s)))
  BY DEF InStep, Pending
<1>4. Encoded(h) \o (Unconsumed(a) \o u) = Encoded(s)
  BY <1>2, <1>3
<1>5. Encoded(h) \in Seq(Byte) /\ Unconsumed(a) \in Seq(Byte)
  BY EncodedType, UnconsumedProperties
<1>6. (Encoded(h) \o Unconsumed(a)) \o u = Encoded(h) \o (Unconsumed(a) \o u)
  BY <1>5, BytesAssociative
<1> QED
  BY <1>4, <1>6 DEF Whole

-----------------------------------------------------------------------------
(* The client's end.                                                       *)

LEMMA TalkStarts ==
  ASSUME NEW thread, NEW answers
  PROVE  Talk(NewAssembler, <<>>, thread, <<>>, None, answers)
<1>1. NewAssembler.status = "OK" /\ Unconsumed(NewAssembler) = <<>>
  BY NewAssemblerSound
<1>2. <<>> \o <<>> = <<>> /\ Len(<<>>) = 0
  BY EmptySeq, ConcatEmptySeq
<1>3. Asked(NewAssembler, <<>>, thread, <<>>, None)
  BY <1>1, <1>2 DEF Asked
<1> QED
  BY <1>1, <1>3 DEF Talk

\* The thread goes, or goes on.
LEMMA TalkThread ==
  ASSUME NEW a, NEW d, NEW thread, NEW pending, NEW q, NEW answers, NEW thread2,
         Talk(a, d, thread, pending, q, answers), thread2 = "gone" \/ thread # "gone"
  PROVE  Talk(a, d, thread2, pending, q, answers)
<1>1. Asked(a, d, thread, pending, q) => Asked(a, d, thread2, pending, q)
  BY DEF Asked
<1>2. Answered(a, d, thread, pending, q, answers) => Answered(a, d, thread2, pending, q, answers)
  BY DEF Answered
<1>3. BrokenOff(a, d, thread) => BrokenOff(a, d, thread2)
  BY DEF BrokenOff
<1> QED
  BY <1>1, <1>2, <1>3 DEF Talk

\* A request is sent where nothing is outstanding.
LEMMA TalkSends ==
  ASSUME NEW a, NEW d, NEW thread, NEW pending \in Seq(Frame), NEW pending2, NEW f \in Frame,
         NEW answers, Talk(a, d, thread, pending, None, answers), f.request # None,
         thread # "gone" => pending2 = Append(pending, f)
  PROVE  Talk(a, d, thread, pending2, f.request, answers)
<1>1. CASE Failed(a, answers)
  BY <1>1 DEF Talk
<1>2. CASE a.status = "OK" /\ Asked(a, d, thread, pending, None)
  <2>1. ASSUME thread # "gone"
        PROVE  Len(pending2) <= 1 /\ \A i \in 1..Len(pending2) : pending2[i].request = f.request
    <3>1. \A i \in 1..Len(pending) : FALSE
      BY <1>2, <2>1 DEF Asked
    <3>2. Len(pending) \in Nat
      BY LenProperties
    <3>3. Len(pending) = 0
      BY <3>1, <3>2
    <3>4. Len(pending2) = Len(pending) + 1 /\ pending2[Len(pending) + 1] = f
      BY <2>1, AppendProperties
    <3>5. \A i \in 1..Len(pending2) : i = Len(pending) + 1
      BY <3>3, <3>4
    <3> QED
      BY <3>3, <3>4, <3>5
  <2>2. Asked(a, d, thread, pending2, f.request)
    BY <1>2, <2>1 DEF Asked
  <2> QED
    BY <1>2, <2>2 DEF Talk
<1>3. CASE a.status = "OK" /\ Answered(a, d, thread, pending, None, answers)
  BY <1>3 DEF Answered
<1>4. CASE a.status = "OK" /\ BrokenOff(a, d, thread)
  BY <1>4 DEF Talk
<1> QED
  BY <1>1, <1>2, <1>3, <1>4 DEF Talk

\* What the client finds when it looks for its reply.
LEMMA TalkLooks ==
  ASSUME NEW a, Sound(a), NEW d \in Seq(Byte), NEW thread, NEW pending, NEW q,
         NEW answers \in Seq(Frame), Talk(a, d, thread, pending, q, answers)
  PROVE  /\ Sound(AfterNext(a, client_limits))
         /\ NextStatus(a, client_limits) = "OK" => NextFrame(a).request = q
         /\ NextStatus(a, client_limits) # "INCOMPLETE" =>
              Talk(AfterNext(a, client_limits), d, thread, pending, None, answers)
<1> DEFINE status == NextStatus(a, client_limits)
           b == AfterNext(a, client_limits)
<1>0. client_limits \in Limits
  BY Numbers
<1>1. CASE Failed(a, answers)
  <2>1. a.status # "OK"
    BY <1>1 DEF Failed
  <2>2. status \notin {"OK", "INCOMPLETE"} /\ b = a
    BY <2>1, NextFailed
  <2> QED
    BY <1>1, <2>2 DEF Talk
<1>2. CASE a.status = "OK" /\ Asked(a, d, thread, pending, q)
  <2>1. Unconsumed(a) \in Seq(Byte)
    BY UnconsumedProperties
  <2>2. Unconsumed(a) = <<>>
    BY <1>2, <2>1, ConcatEqualIffEmpty DEF Asked
  <2>3. status = "INCOMPLETE"
    BY <1>2, <2>2, NextNothing
  <2>4. b = a
    BY <2>3, NextWaits
  <2> QED
    BY <2>3, <2>4
<1>3. CASE a.status = "OK" /\ Answered(a, d, thread, pending, q, answers)
  <2>1. PICK i \in 1..Len(answers) :
            answers[i].request = q /\ Unconsumed(a) \o d = Bytes(answers[i])
    BY <1>3 DEF Answered
  <2> DEFINE f == answers[i]
  <2>2. f \in Frame
    BY ElementOfSeq
  <2>3. Bytes(f) \in Seq(Byte) /\ <<>> \in Seq(Byte)
    BY <2>2, BytesOfFrame, EmptySeq
  <2>4. Unconsumed(a) \o d = Bytes(f) \o <<>>
    BY <2>1, <2>3, ConcatEmptySeq
  <2> HIDE DEF f
  <2>5. /\ status \in {"INCOMPLETE", "OK", "FRAME_TOO_LARGE"}
        /\ status = "OK" =>
             NextFrame(a) = f /\ Sound(b) /\ b.status = "OK" /\ Unconsumed(b) \o d = <<>>
        /\ status = "FRAME_TOO_LARGE" =>
             f.size > client_limits.max_frame_bytes /\ Sound(b) /\ b.status = "FRAME_TOO_LARGE"
    <3> DEFINE nothing == <<>>
    <3>1. Unconsumed(a) \o d = Bytes(f) \o nothing /\ nothing \in Seq(Byte) /\ a.status = "OK"
      BY <1>3, <2>3, <2>4
    <3> HIDE DEF nothing
    <3>2. /\ status \in {"INCOMPLETE", "OK", "FRAME_TOO_LARGE"}
          /\ status = "OK" =>
               NextFrame(a) = f /\ Sound(b) /\ b.status = "OK" /\ Unconsumed(b) \o d = nothing
          /\ status = "FRAME_TOO_LARGE" =>
               f.size > client_limits.max_frame_bytes /\ Sound(b) /\ b.status = "FRAME_TOO_LARGE"
      BY <1>0, <2>2, <3>1, NextRead, ZenonT(40)
    <3> QED
      BY <3>2 DEF nothing
  <2>6. CASE status = "INCOMPLETE"
    BY <2>6, NextWaits
  <2>7. CASE status = "OK"
    <3>1. Len(<<>>) = 0
      BY EmptySeq
    <3>2. Asked(b, d, thread, pending, None)
      BY <1>3, <2>5, <2>7, <3>1 DEF Asked, Answered
    <3>3. Talk(b, d, thread, pending, None, answers)
      BY <2>5, <2>7, <3>2 DEF Talk
    <3>4. NextFrame(a).request = q
      BY <2>1, <2>5, <2>7 DEF f
    <3> QED
      BY <2>5, <2>7, <3>3, <3>4
  <2>8. CASE status = "FRAME_TOO_LARGE"
    <3>1. Failed(b, answers)
      BY <2>5, <2>8 DEF Failed, NoRoom, f
    <3>2. Talk(b, d, thread, pending, None, answers)
      BY <3>1 DEF Talk
    <3> QED
      BY <2>5, <2>8, <3>2
  <2> QED
    BY <2>5, <2>6, <2>7, <2>8
<1>4. CASE a.status = "OK" /\ BrokenOff(a, d, thread)
  BY <1>4, NextWaits DEF BrokenOff
<1> QED
  BY <1>1, <1>2, <1>3, <1>4 DEF Talk

\* A chunk of the reply is received: it fits, or there is no room for the reply.
LEMMA TalkReceives ==
  ASSUME NEW a, Sound(a), NEW d \in Seq(Byte), NEW thread, NEW pending, NEW q,
         NEW answers \in Seq(Frame), Talk(a, d, thread, pending, q, answers),
         NextStatus(a, client_limits) = "INCOMPLETE", NEW n \in Chunks(d)
  PROVE  /\ Sound(AppendBytes(a, SubSeq(d, 1, n), client_limits))
         /\ Talk(AppendBytes(a, SubSeq(d, 1, n), client_limits), After(d, n), thread, pending, q, answers)
<1> DEFINE data == SubSeq(d, 1, n)
           b == AppendBytes(a, data, client_limits)
<1>1. /\ data \in Seq(Byte) /\ After(d, n) \in Seq(Byte)
      /\ Len(data) <= kReceiveChunkBytes /\ Len(data) \in Nat
      /\ data \o After(d, n) = d
  BY ChunkProperties
<1>2. Unconsumed(a) \in Seq(Byte) /\ Len(Unconsumed(a)) \in Nat
  BY UnconsumedProperties, LenProperties
<1>3. d # <<>>
  <2>1. n \in 1..kReceiveChunkBytes /\ n <= Len(d) /\ kReceiveChunkBytes \in Nat
    BY Numbers DEF Chunks
  <2>2. Len(<<>>) = 0
    BY EmptySeq
  <2> QED
    BY <2>1, <2>2
<1>4. a.status = "OK"
  BY NextFailed
<1>5. Answered(a, d, thread, pending, q, answers)
  <2>1. ~Failed(a, answers)
    BY <1>4 DEF Failed
  <2>2. ~Asked(a, d, thread, pending, q)
    BY <1>2, <1>3, ConcatEqualIffEmpty DEF Asked
  <2>3. ~BrokenOff(a, d, thread)
    BY <1>3 DEF BrokenOff
  <2> QED
    BY <2>1, <2>2, <2>3 DEF Talk
<1>6. PICK i \in 1..Len(answers) :
          answers[i].request = q /\ Unconsumed(a) \o d = Bytes(answers[i])
  BY <1>5 DEF Answered
<1>7. Len(Unconsumed(a)) < kWireHeaderBytes + answers[i].size /\ answers[i].size \in Nat
  <2> DEFINE f == answers[i]
             nothing == <<>>
  <2>1. f \in Frame
    BY ElementOfSeq
  <2>2. Bytes(f) \in Seq(Byte) /\ nothing \in Seq(Byte)
    BY <2>1, BytesOfFrame, EmptySeq
  <2>3. Unconsumed(a) \o d = Bytes(f) \o nothing
    BY <1>6, <2>2, ConcatEmptySeq
  <2>4. client_limits \in Limits
    BY Numbers
  <2> HIDE DEF f, nothing
  <2>5. Len(Unconsumed(a)) < kWireHeaderBytes + f.size
    BY <1>4, <2>1, <2>2, <2>3, <2>4, NextRead, ZenonT(40)
  <2>6. f.size \in Nat
    BY <2>1 DEF Frame
  <2> QED
    BY <2>5, <2>6 DEF f
<1> HIDE DEF data
<1>9. Sound(b) /\ Unconsumed(b) = Unconsumed(a) \o data
  BY <1>1, <1>4, AppendBytesResult, Numbers
<1>13. b.status # "OK" => Failed(b, answers)
  <2>1. ASSUME ~NoRoom(client_limits, answers[i].size) PROVE b.status = "OK"
    <3>1. Len(Unconsumed(a)) + Len(data) <= client_limits.max_wire_assembly_bytes
      BY <1>1, <1>2, <1>7, <2>1, ChunkFits, Numbers
    <3> QED
      BY <1>1, <1>4, <3>1, AppendBytesResult, Numbers
  <2> QED
    BY <2>1 DEF Failed
<1> HIDE DEF b
<1>10. Unconsumed(b) \o After(d, n) = Unconsumed(a) \o d
  <2>1. (Unconsumed(a) \o data) \o After(d, n) = Unconsumed(a) \o (data \o After(d, n))
    BY <1>1, <1>2, BytesAssociative
  <2> QED
    BY <1>1, <1>9, <2>1
<1>11. Answered(b, After(d, n), thread, pending, q, answers)
  BY <1>5, <1>6, <1>10 DEF Answered
<1>12. Talk(b, After(d, n), thread, pending, q, answers)
  BY <1>11, <1>13 DEF Talk
<1> QED
  BY <1>9, <1>12 DEF b, data

\* The peer is gone: what was held is all there is.
LEMMA TalkBreaks ==
  ASSUME NEW a, Sound(a), NEW pending, NEW answers, NextStatus(a, client_limits) = "INCOMPLETE"
  PROVE  Talk(a, <<>>, "gone", pending, None, answers)
<1>1. a.status = "OK"
  BY NextFailed
<1> QED
  BY <1>1 DEF Talk, BrokenOff

\* The thread answers the frame that was pending.
LEMMA TalkReplies ==
  ASSUME NEW a, Sound(a), NEW d \in Seq(Byte), NEW thread, thread # "gone",
         NEW pending \in Seq(Frame), pending # <<>>, NEW q, NEW answers \in Seq(Frame),
         Talk(a, d, thread, pending, q, answers),
         NEW r \in Frame, r.request = pending[1].request
  PROVE  Talk(a, d \o EncodeFrame(r, server_limits), thread, Tail(pending), q, Append(answers, r))
<1> DEFINE e == EncodeFrame(r, server_limits)
           more == Append(answers, r)
<1>1. /\ Len(more) = Len(answers) + 1 /\ Len(answers) \in Nat
      /\ \A i \in 1..Len(answers) : more[i] = answers[i]
      /\ more[Len(answers) + 1] = r
  BY AppendProperties, LenProperties
<1> HIDE DEF more
<1>2. CASE Failed(a, answers)
  <2>1. PICK i \in 1..Len(answers) : NoRoom(client_limits, answers[i].size)
    BY <1>2 DEF Failed
  <2>2. i \in 1..Len(more) /\ more[i] = answers[i]
    BY <1>1
  <2>3. Failed(a, more)
    BY <1>2, <2>1, <2>2 DEF Failed
  <2> QED
    BY <2>3 DEF Talk, more
<1>3. CASE a.status = "OK" /\ Asked(a, d, thread, pending, q)
  <2>1. Len(pending) \in Nat \ {0}
    BY EmptySeq
  <2>2. Len(pending) = 1 /\ q # None /\ pending[1].request = q
    <3>1. Len(pending) <= 1
      BY <1>3 DEF Asked
    <3>2. 1 \in 1..Len(pending)
      BY <2>1, <3>1
    <3>3. q # None /\ pending[1].request = q
      BY <1>3, <3>2 DEF Asked
    <3>4. Len(pending) = 1
      <4> DEFINE n == Len(pending)
      <4>1. n \in Nat \ {0} /\ n <= 1
        BY <2>1, <3>1
      <4>2. n = 1
        <5> HIDE DEF n
        <5> QED
          BY <4>1
      <4> QED
        BY <4>2
    <3> QED
      BY <3>3, <3>4
  <2>3. Tail(pending) \in Seq(Frame) /\ Len(Tail(pending)) = 0
    BY <2>2, HeadTailProperties
  <2>4. Tail(pending) = <<>>
    BY <2>3, EmptySeq
  <2>5. Unconsumed(a) \in Seq(Byte)
    BY UnconsumedProperties
  <2>6. Unconsumed(a) = <<>> /\ d = <<>>
    BY <1>3, <2>5, ConcatEqualIffEmpty DEF Asked
  <2>7. CASE r.size > server_limits.max_frame_bytes
    <3>1. e = <<>>
      BY <2>7 DEF EncodeFrame
    <3>2. d \o e = d
      BY <3>1, ConcatEmptySeq
    <3>3. Asked(a, d, thread, Tail(pending), q)
      BY <1>3, <2>3 DEF Asked
    <3> QED
      BY <1>3, <3>2, <3>3 DEF Talk
  <2>8. CASE ~(r.size > server_limits.max_frame_bytes)
    <3>1. e = Bytes(r) /\ Bytes(r) \in Seq(Byte)
      BY <2>8, BytesOfFrame DEF EncodeFrame
    <3>2. <<>> \o Bytes(r) = Bytes(r)
      BY <3>1, ConcatEmptySeq
    <3>3. Unconsumed(a) \o (d \o e) = Bytes(r)
      BY <2>6, <3>1, <3>2
    <3>4. Len(answers) + 1 \in 1..Len(more) /\ more[Len(answers) + 1] = r
      BY <1>1
    <3>5. Answered(a, d \o e, thread, Tail(pending), q, more)
      BY <2>2, <2>4, <3>3, <3>4 DEF Answered
    <3> QED
      BY <1>3, <3>5 DEF Talk, more
  <2> QED
    BY <2>7, <2>8
<1>4. CASE a.status = "OK" /\ Answered(a, d, thread, pending, q, answers)
  BY <1>4 DEF Answered
<1>5. CASE a.status = "OK" /\ BrokenOff(a, d, thread)
  BY <1>5 DEF BrokenOff
<1> QED
  BY <1>2, <1>3, <1>4, <1>5 DEF Talk

-----------------------------------------------------------------------------
(* The invariant.                                                          *)

LEMMA WireInit == Init => WireInv
<1> SUFFICES ASSUME Init PROVE WireInv
  OBVIOUS
<1>1. Sound(NewAssembler) /\ NewAssembler.status = "OK" /\ NewAssembler \in Assembler
  BY NewAssemblerSound DEF Sound
<1>2. TypeOK
  <2>1. <<>> \in Seq(Byte) /\ <<>> \in Seq(Frame)
    BY EmptySeq
  <2>2. ClientType /\ receiving \in BOOLEAN
    <3>1. opened = 0 /\ socket = 0 /\ requests = 0 /\ call = 0
      BY DEF Init, None
    <3>2. 0 \in 0..MaxConnections /\ 0 \in 0..0
      BY BoundsAssumption
    <3>3. Sound(assembler)
      BY <1>1 DEF Init
    <3>4. receiving \in BOOLEAN
      BY DEF Init
    <3>5. ClientType
      BY <3>1, <3>2, <3>3 DEF ClientType
    <3> QED
      BY <3>4, <3>5
  <2>4. up \in [Connections -> Seq(Byte)] /\ down \in [Connections -> Seq(Byte)]
    BY <2>1 DEF Init
  <2>5. threads \in [Connections -> {"recv", "next", "gone"}]
    BY DEF Init
  <2>6. assemblers \in [Connections -> Assembler] /\ \A c \in Connections : Sound(assemblers[c])
    BY <1>1 DEF Init
  <2>7. /\ sent \in [Connections -> Seq(Frame)] /\ handled \in [Connections -> Seq(Frame)]
        /\ replies \in [Connections -> Seq(Frame)]
    BY <2>1 DEF Init
  <2> QED
    BY <2>2, <2>4, <2>5, <2>6, <2>7 DEF TypeOK, ServerType
<1>3. ServerInv
  BY <1>1 DEF Init, ServerInv, Untouched, Excused
<1>4. ClientInv
  BY DEF Init, ClientInv, None
<1>5. ReplyIsOwn
  BY DEF Init, ReplyIsOwn
<1> QED
  BY <1>2, <1>3, <1>4, <1>5 DEF WireInv

\* The state of one connection at the coordinator.
LEMMA ConnectionTypes ==
  ASSUME WireInv, NEW c \in Connections
  PROVE  /\ Sound(assemblers[c]) /\ Excused(assemblers[c], sent[c], server_limits)
         /\ threads[c] = "recv" => assemblers[c].status = "OK"
         /\ up[c] \in Seq(Byte) /\ down[c] \in Seq(Byte)
         /\ sent[c] \in Seq(Frame) /\ handled[c] \in Seq(Frame) /\ replies[c] \in Seq(Frame)
         /\ threads[c] # "gone" =>
              InStep(threads[c], assemblers[c], up[c], sent[c], handled[c])
BY DEF WireInv, TypeOK, ServerType, ServerInv

\* A client that has a socket.
LEMMA SocketTypes ==
  ASSUME WireInv, socket # None
  PROVE  /\ socket \in Connections /\ socket <= opened
         /\ Talk(assembler, down[socket], threads[socket],
                 Pending(sent[socket], handled[socket]), call, replies[socket])
<1>1. socket \in 0..opened /\ opened \in 0..MaxConnections /\ MaxConnections \in Nat
  BY BoundsAssumption DEF WireInv, TypeOK, ClientType
<1>2. socket \in Connections /\ socket <= opened
  BY <1>1 DEF Connections, None
<1> QED
  BY <1>2 DEF WireInv, ClientInv

LEMMA WireClose ==
  ASSUME WireInv, Close \/ Die
  PROVE  WireInv'
<1>1. /\ socket' = None /\ assembler' = NewAssembler /\ call' = None /\ opened' = opened
      /\ requests' = requests /\ returned' = returned
      /\ UNCHANGED <<serverVars, up, down, sent>>
  BY DEF Close, Die, ClearedAssembler, None
<1>2. receiving' = FALSE
  <2>1. CASE Close
    <3>1. call = None /\ receiving' = receiving /\ receiving \in BOOLEAN
      BY <2>1 DEF Close, WireInv, TypeOK
    <3>2. ~receiving
      BY <3>1 DEF WireInv, ClientInv
    <3> QED
      BY <3>1, <3>2
  <2>2. CASE Die
    BY <2>2 DEF Die
  <2> QED
    BY <2>1, <2>2
<1>3. TypeOK'
  <2>1. ServerType'
    BY <1>1 DEF WireInv, TypeOK, ServerType, serverVars
  <2>2. opened' \in 0..MaxConnections /\ opened' \in Nat /\ requests' \in Nat
    BY <1>1, BoundsAssumption DEF WireInv, TypeOK, ClientType
  <2>3. ClientType'
    BY <1>1, <2>2, NewAssemblerSound DEF ClientType, None
  <2>4. receiving' \in BOOLEAN
    BY <1>2
  <2> QED
    BY <2>1, <2>3, <2>4 DEF TypeOK
<1>4. ServerInv'
  BY <1>1 DEF WireInv, ServerInv, Untouched, serverVars
<1>5. ClientInv'
  BY <1>1, <1>2 DEF ClientInv
<1>6. ReplyIsOwn'
  BY <1>1 DEF WireInv, ReplyIsOwn
<1> QED
  BY <1>3, <1>4, <1>5, <1>6 DEF WireInv

\* A thread starts where nothing was sent.
LEMMA StepStarts ==
  /\ Pending(<<>>, <<>>) = <<>>
  /\ \A thread : InStep(thread, NewAssembler, <<>>, <<>>, <<>>)
<1>1. <<>> \in Seq(Frame) /\ <<>> \in Seq(Byte) /\ Len(<<>>) = 0
  BY EmptySeq
<1>2. Pending(<<>>, <<>>) = <<>>
  BY <1>1, SubSeqEmpty DEF Pending
<1>3. Encoded(<<>>) = <<>>
  BY <1>1, EncodedType
<1>4. Unconsumed(NewAssembler) = <<>>
  BY NewAssemblerSound
<1>5. Unconsumed(NewAssembler) \o <<>> = Encoded(Pending(<<>>, <<>>))
  <2>1. <<>> \o <<>> = <<>>
    BY <1>1, ConcatEmptySeq
  <2> QED
    BY <1>2, <1>3, <1>4, <2>1
<1>6. <<>> = SubSeq(<<>>, 1, Len(<<>>))
  BY <1>1, SubSeqEmpty
<1>9. Len(<<>>) <= Len(<<>>) /\ ~(Len(<<>>) < Len(<<>>))
  BY <1>1
<1>10. \A thread : InStep(thread, NewAssembler, <<>>, <<>>, <<>>)
  <2> HIDE DEF NewAssembler
  <2> QED
    BY <1>5, <1>6, <1>9, Zenon DEF InStep
<1> QED
  BY <1>2, <1>10

LEMMA WireConnect ==
  ASSUME WireInv, Connect
  PROVE  WireInv'
<1> DEFINE c == opened + 1
<1>1. opened \in 0..MaxConnections /\ MaxConnections \in Nat /\ opened < MaxConnections
  BY BoundsAssumption DEF WireInv, TypeOK, ClientType, Connect
<1>2. c \in Connections /\ c > opened /\ c # None
  BY <1>1 DEF Connections, None
<1>3. PICK state \in {"recv", "gone"} : threads' = [threads EXCEPT ![c] = state]
  BY DEF Connect
<1>4. /\ opened' = c /\ socket' = c /\ assembler' = NewAssembler
      /\ call' = call /\ call = None /\ receiving' = receiving /\ requests' = requests
      /\ returned' = returned
      /\ assemblers' = assemblers /\ handled' = handled /\ replies' = replies
      /\ up' = up /\ down' = down /\ sent' = sent
  BY DEF Connect, ClearedAssembler
<1>5. Untouched(c)
  BY <1>2 DEF WireInv, ServerInv
<1>6. threads \in [Connections -> {"recv", "next", "gone"}]
  BY DEF WireInv, TypeOK, ServerType
<1>7. threads'[c] = state /\ \A x \in Connections : x # c => threads'[x] = threads[x]
  BY <1>2, <1>3, <1>6
<1>8. TypeOK'
  <2>1. threads' \in [Connections -> {"recv", "next", "gone"}]
    BY <1>3, <1>6
  <2>2. ServerType'
    BY <1>4, <2>1 DEF WireInv, TypeOK, ServerType
  <2>3. c \in 0..MaxConnections /\ c \in 0..c
    BY <1>1
  <2>4. ClientType'
    BY <1>4, <2>3, NewAssemblerSound DEF WireInv, TypeOK, ClientType
  <2>5. receiving' \in BOOLEAN
    BY <1>4 DEF WireInv, TypeOK
  <2> QED
    BY <2>2, <2>4, <2>5 DEF TypeOK
<1> HIDE DEF c
<1>9. ServerInv'
  <2>1. SUFFICES ASSUME NEW x \in Connections
                 PROVE  /\ x > opened' => Untouched(x)'
                        /\ Excused(assemblers'[x], sent'[x], server_limits)
                        /\ threads'[x] = "recv" => assemblers'[x].status = "OK"
                        /\ threads'[x] # "gone" =>
                             InStep(threads'[x], assemblers'[x], up'[x], sent'[x], handled'[x])
    BY DEF ServerInv
  <2>2. Excused(assemblers'[x], sent'[x], server_limits)
    BY <1>4, ConnectionTypes
  <2>3. CASE x = c
    <3>1. ~(x > opened')
      BY <1>1, <1>4, <2>3 DEF c
    <3>2. InStep(threads'[x], assemblers'[x], up'[x], sent'[x], handled'[x])
      BY <1>4, <1>5, <2>3, StepStarts DEF Untouched
    <3>3. assemblers'[x].status = "OK"
      BY <1>4, <1>5, <2>3, NewAssemblerSound DEF Untouched
    <3> QED
      BY <2>2, <3>1, <3>2, <3>3
  <2>4. CASE x # c
    <3>1. threads'[x] = threads[x]
      BY <1>7, <2>4
    <3>2. x > opened' => x > opened
      BY <1>1, <1>4 DEF c, Connections
    <3>3. x > opened => Untouched(x)
      BY DEF WireInv, ServerInv
    <3>4. x > opened' => Untouched(x)'
      BY <1>4, <3>1, <3>2, <3>3 DEF Untouched
    <3> QED
      BY <1>4, <2>2, <3>1, <3>4, ConnectionTypes
  <2> QED
    BY <2>3, <2>4
<1>10. ClientInv'
  <2>1. ~receiving
    BY <1>4 DEF WireInv, ClientInv
  <2>2. Talk(NewAssembler, <<>>, state, <<>>, None, replies[c])
    BY TalkStarts
  <2>3. down'[c] = <<>> /\ Pending(sent'[c], handled'[c]) = <<>>
    BY <1>4, <1>5, StepStarts DEF Untouched
  <2>4. Talk(assembler', down'[socket'], threads'[socket'], Pending(sent'[socket'], handled'[socket']),
             call', replies'[socket'])
    BY <1>4, <1>7, <2>2, <2>3
  <2>5. ~receiving'
    BY <1>4, <2>1
  <2> QED
    BY <1>2, <1>4, <2>4, <2>5 DEF ClientInv
<1>11. ReplyIsOwn'
  BY <1>4 DEF WireInv, ReplyIsOwn
<1> QED
  BY <1>8, <1>9, <1>10, <1>11 DEF WireInv

LEMMA WireRequest ==
  ASSUME WireInv, NEW size \in RequestSizes, Request(size)
  PROVE  WireInv'
<1> DEFINE f == [request |-> requests + 1, size |-> size]
           c == socket
<1>1. requests \in Nat /\ size \in Nat /\ size <= client_limits.max_frame_bytes
  BY SizesAssumption DEF WireInv, TypeOK, ClientType, Request
<1>2. f \in Frame /\ f.size = size /\ f.request = requests + 1 /\ f.request # None
  BY <1>1 DEF Frame, None
<1>3. EncodeFrame(f, client_limits) = Bytes(f)
  <2>1. ~(size > client_limits.max_frame_bytes)
    BY <1>1, Numbers
  <2> QED
    BY <1>2, <2>1 DEF EncodeFrame
<1>4. /\ socket # None /\ call = None
      /\ up' = [up EXCEPT ![c] = @ \o EncodeFrame(f, client_limits)]
      /\ sent' = [sent EXCEPT ![c] = Append(@, f)]
      /\ requests' = f.request /\ call' = f.request /\ receiving' = FALSE
      /\ socket' = socket /\ opened' = opened /\ assembler' = assembler /\ returned' = returned
      /\ threads' = threads /\ assemblers' = assemblers /\ handled' = handled
      /\ replies' = replies /\ down' = down
  BY <1>2 DEF Request, serverVars
<1> HIDE DEF f
<1>5. c \in Connections /\ c <= opened
  BY <1>4, SocketTypes
<1>6. /\ Sound(assemblers[c]) /\ up[c] \in Seq(Byte) /\ sent[c] \in Seq(Frame)
      /\ handled[c] \in Seq(Frame)
      /\ threads[c] # "gone" => InStep(threads[c], assemblers[c], up[c], sent[c], handled[c])
  BY <1>5, ConnectionTypes
<1>7. up \in [Connections -> Seq(Byte)] /\ sent \in [Connections -> Seq(Frame)]
  BY DEF WireInv, TypeOK, ServerType
<1>8. /\ up'[c] = up[c] \o Bytes(f) /\ \A x \in Connections : x # c => up'[x] = up[x]
      /\ sent'[c] = Append(sent[c], f) /\ \A x \in Connections : x # c => sent'[x] = sent[x]
  BY <1>3, <1>4, <1>5, <1>7
<1>9. TypeOK'
  <2>1. up[c] \o Bytes(f) \in Seq(Byte)
    BY <1>2, <1>6, BytesOfFrame, ConcatProperties
  <2>2. Append(sent[c], f) \in Seq(Frame)
    BY <1>2, <1>6, AppendProperties
  <2>3. up' \in [Connections -> Seq(Byte)]
    BY <1>3, <1>4, <1>7, <2>1
  <2>4. sent' \in [Connections -> Seq(Frame)]
    BY <1>4, <1>7, <2>2
  <2>5. ServerType'
    BY <1>4, <2>3, <2>4 DEF WireInv, TypeOK, ServerType
  <2>6. f.request \in Nat
    BY <1>1, <1>2
  <2>7. ClientType'
    BY <1>4, <2>6 DEF WireInv, TypeOK, ClientType
  <2>8. receiving' \in BOOLEAN
    BY <1>4
  <2> QED
    BY <2>5, <2>7, <2>8 DEF TypeOK
<1>10. ServerInv'
  <2>1. SUFFICES ASSUME NEW x \in Connections
                 PROVE  /\ x > opened' => Untouched(x)'
                        /\ Excused(assemblers'[x], sent'[x], server_limits)
                        /\ threads'[x] = "recv" => assemblers'[x].status = "OK"
                        /\ threads'[x] # "gone" =>
                             InStep(threads'[x], assemblers'[x], up'[x], sent'[x], handled'[x])
    BY DEF ServerInv
  <2>2. threads'[x] = "recv" => assemblers'[x].status = "OK"
    BY <1>4, ConnectionTypes
  <2>3. CASE x = c
    <3>1. ~(x > opened')
      <4>1. opened \in Nat /\ c \in Nat
        BY <1>5, BoundsAssumption DEF WireInv, TypeOK, ClientType, Connections
      <4> QED
        BY <1>4, <1>5, <2>3, <4>1
    <3>2. ASSUME threads[c] # "gone"
          PROVE  InStep(threads[c], assemblers[c], up[c] \o Bytes(f), Append(sent[c], f), handled[c])
      BY <1>2, <1>6, <3>2, StepSend
    <3>3. threads'[x] # "gone" =>
            InStep(threads'[x], assemblers'[x], up'[x], sent'[x], handled'[x])
      BY <1>4, <1>8, <2>3, <3>2
    <3>4. Excused(assemblers'[x], sent'[x], server_limits)
      BY <1>2, <1>4, <1>5, <1>6, <1>8, <2>3, ConnectionTypes, ExcusedAppend
    <3> QED
      BY <2>2, <3>1, <3>3, <3>4
  <2>4. CASE x # c
    <3>1. x > opened' => Untouched(x)'
      BY <1>4, <1>8, <2>4 DEF WireInv, ServerInv, Untouched
    <3> QED
      BY <1>4, <1>8, <2>2, <2>4, <3>1, ConnectionTypes
  <2> QED
    BY <2>3, <2>4
<1>11. ClientInv'
  <2> DEFINE p == Pending(sent[c], handled[c])
             p2 == Pending(Append(sent[c], f), handled[c])
  <2>1. Talk(assembler, down[c], threads[c], p, None, replies[c])
    BY <1>4, SocketTypes
  <2>2. ASSUME threads[c] # "gone" PROVE p2 = Append(p, f)
    <3>1. Len(handled[c]) <= Len(sent[c])
      BY <1>6, <2>2 DEF InStep
    <3> QED
      BY <1>2, <1>6, <3>1, PendingAppend
  <2>3. p \in Seq(Frame)
    <3>1. Len(sent[c]) \in Nat /\ Len(handled[c]) \in Nat /\ \A i \in 1..Len(sent[c]) : sent[c][i] \in Frame
      BY <1>6, LenProperties, ElementOfSeq
    <3>2. \A i \in (Len(handled[c]) + 1)..Len(sent[c]) : sent[c][i] \in Frame
      BY <3>1
    <3> QED
      BY <3>1, <3>2, SubSeqProperties DEF Pending
  <2> HIDE DEF p, p2
  <2>4. Talk(assembler, down[c], threads[c], p2, f.request, replies[c])
    BY <1>2, <2>1, <2>2, <2>3, TalkSends
  <2>5. Talk(assembler', down'[socket'], threads'[socket'], Pending(sent'[socket'], handled'[socket']),
             call', replies'[socket'])
    BY <1>4, <1>8, <2>4 DEF p2
  <2> QED
    BY <1>4, <2>5 DEF ClientInv
<1>12. ReplyIsOwn'
  BY <1>4 DEF WireInv, ReplyIsOwn
<1> QED
  BY <1>9, <1>10, <1>11, <1>12 DEF WireInv

\* The coordinator's side does not see what the client does with what it received.
LEMMA ServerUnseen ==
  ASSUME WireInv, opened' = opened, UNCHANGED <<serverVars, up, sent>>, NEW c \in Connections,
         c <= opened, down' \in [Connections -> Seq(Byte)],
         \A x \in Connections : x # c => down'[x] = down[x]
  PROVE  ServerType' /\ ServerInv'
<1>1. ServerType'
  BY DEF WireInv, TypeOK, ServerType, serverVars
<1>2. ASSUME NEW x \in Connections, x > opened PROVE x # c
  <2>1. opened \in Nat /\ c \in Nat /\ x \in Nat
    BY BoundsAssumption DEF WireInv, TypeOK, ClientType, Connections
  <2> QED
    BY <1>2, <2>1
<1>3. ServerInv'
  BY <1>2 DEF WireInv, ServerInv, Untouched, serverVars
<1> QED
  BY <1>1, <1>3

LEMMA WireClientNext ==
  ASSUME WireInv, ClientNext
  PROVE  WireInv'
<1> DEFINE status == NextStatus(assembler, client_limits)
           b == AfterNext(assembler, client_limits)
           c == socket
<1>1. /\ call # None /\ ~receiving
      /\ receiving' = (status = "INCOMPLETE")
      /\ call' = (IF status = "INCOMPLETE" THEN call ELSE None)
      /\ returned' = (IF status # "OK" THEN returned
                      ELSE returned \cup {<<call, NextFrame(assembler).request>>})
      /\ assembler' = b
      /\ socket' = socket /\ opened' = opened /\ requests' = requests
      /\ UNCHANGED <<serverVars, up, sent>> /\ down' = down /\ threads' = threads
      /\ handled' = handled /\ replies' = replies /\ sent' = sent
  BY DEF ClientNext, serverVars
<1>2. socket # None /\ Sound(assembler) /\ call \in Nat
  BY <1>1 DEF WireInv, TypeOK, ClientType, ClientInv
<1>3. /\ c \in Connections /\ c <= opened
      /\ Talk(assembler, down[c], threads[c], Pending(sent[c], handled[c]), call, replies[c])
  BY <1>2, SocketTypes
<1>4. down[c] \in Seq(Byte) /\ replies[c] \in Seq(Frame)
  BY <1>3, ConnectionTypes
<1> DEFINE p == Pending(sent[c], handled[c])
<1> HIDE DEF p
<1>5. /\ Sound(b)
      /\ status = "OK" => NextFrame(assembler).request = call
      /\ status # "INCOMPLETE" => Talk(b, down[c], threads[c], p, None, replies[c])
  BY <1>2, <1>3, <1>4, TalkLooks DEF p
<1>6. status = "INCOMPLETE" => b = assembler
  BY NextWaits
<1>7. ServerType' /\ ServerInv'
  <2>1. down \in [Connections -> Seq(Byte)]
    BY DEF WireInv, TypeOK, ServerType
  <2> QED
    BY <1>1, <1>3, <2>1, ServerUnseen
<1> HIDE DEF b, status
<1>8. TypeOK'
  <2>1. receiving' \in BOOLEAN
    BY <1>1
  <2>2. call' \in Nat
    BY <1>1, <1>2 DEF None
  <2>3. ClientType'
    BY <1>1, <1>5, <2>2 DEF WireInv, TypeOK, ClientType
  <2> QED
    BY <1>7, <2>1, <2>3 DEF TypeOK
<1>9. ClientInv'
  <2>1. CASE status = "INCOMPLETE"
    <3>1. call' = call /\ assembler' = assembler
      BY <1>1, <1>6, <2>1
    <3>2. NextStatus(assembler, client_limits)' = "INCOMPLETE"
      BY <2>1, <3>1 DEF status
    <3>3. Talk(assembler', down'[socket'], threads'[socket'],
               Pending(sent'[socket'], handled'[socket']), call', replies'[socket'])
      BY <1>1, <1>3, <3>1
    <3> QED
      BY <1>1, <1>2, <3>1, <3>2, <3>3 DEF ClientInv
  <2>2. CASE status # "INCOMPLETE"
    <3>1. call' = None /\ ~receiving'
      BY <1>1, <2>2
    <3>2. Talk(assembler', down'[socket'], threads'[socket'],
               Pending(sent'[socket'], handled'[socket']), call', replies'[socket'])
      BY <1>1, <1>5, <2>2, <3>1 DEF p
    <3> QED
      BY <1>1, <1>2, <3>1, <3>2 DEF ClientInv
  <2> QED
    BY <2>1, <2>2
<1>10. ReplyIsOwn'
  <2>1. CASE status = "OK"
    <3>1. returned' = returned \cup {<<call, call>>}
      BY <1>1, <1>5, <2>1
    <3> QED
      BY <3>1 DEF WireInv, ReplyIsOwn
  <2>2. CASE status # "OK"
    BY <1>1, <2>2 DEF WireInv, ReplyIsOwn
  <2> QED
    BY <2>1, <2>2
<1> QED
  BY <1>7, <1>8, <1>9, <1>10 DEF WireInv

LEMMA WireClientReceive ==
  ASSUME WireInv, ClientReceive
  PROVE  WireInv'
<1> DEFINE c == socket
<1>1. PICK n \in Chunks(down[c]) :
          /\ assembler' = AppendBytes(assembler, SubSeq(down[c], 1, n), client_limits)
          /\ down' = [down EXCEPT ![c] = After(@, n)]
  BY DEF ClientReceive
<1>2. /\ call # None /\ receiving /\ receiving' = FALSE
      /\ socket' = socket /\ opened' = opened /\ requests' = requests /\ call' = call
      /\ returned' = returned
      /\ UNCHANGED <<serverVars, up, sent>> /\ threads' = threads
      /\ handled' = handled /\ replies' = replies /\ sent' = sent
  BY DEF ClientReceive, serverVars
<1>3. /\ socket # None /\ Sound(assembler) /\ NextStatus(assembler, client_limits) = "INCOMPLETE"
      /\ down \in [Connections -> Seq(Byte)]
  BY <1>2 DEF WireInv, TypeOK, ClientType, ServerType, ClientInv
<1> DEFINE p == Pending(sent[c], handled[c])
<1>4. /\ c \in Connections /\ c <= opened
      /\ Talk(assembler, down[c], threads[c], p, call, replies[c])
  BY <1>3, SocketTypes
<1>5. down[c] \in Seq(Byte) /\ replies[c] \in Seq(Frame)
  BY <1>4, ConnectionTypes
<1> HIDE DEF p
<1>6. Sound(assembler') /\ Talk(assembler', After(down[c], n), threads[c], p, call, replies[c])
  BY <1>1, <1>3, <1>4, <1>5, TalkReceives
<1>7. /\ down'[c] = After(down[c], n) /\ After(down[c], n) \in Seq(Byte)
      /\ \A x \in Connections : x # c => down'[x] = down[x]
  BY <1>1, <1>3, <1>4, <1>5, ChunkProperties
<1>8. down' \in [Connections -> Seq(Byte)]
  BY <1>1, <1>3, <1>7
<1>9. ServerType' /\ ServerInv'
  BY <1>2, <1>4, <1>7, <1>8, ServerUnseen
<1>10. TypeOK'
  <2>1. receiving' \in BOOLEAN
    BY <1>2
  <2>2. ClientType'
    BY <1>2, <1>6 DEF WireInv, TypeOK, ClientType
  <2> QED
    BY <1>9, <2>1, <2>2 DEF TypeOK
<1>11. ClientInv'
  <2>1. Talk(assembler', down'[socket'], threads'[socket'],
             Pending(sent'[socket'], handled'[socket']), call', replies'[socket'])
    BY <1>2, <1>6, <1>7 DEF p
  <2> QED
    BY <1>2, <1>3, <2>1 DEF ClientInv
<1>12. ReplyIsOwn'
  BY <1>2 DEF WireInv, ReplyIsOwn
<1> QED
  BY <1>9, <1>10, <1>11, <1>12 DEF WireInv

LEMMA WireClientReceiveFails ==
  ASSUME WireInv, ClientReceiveFails
  PROVE  WireInv'
<1> DEFINE c == socket
<1>1. /\ call # None /\ receiving /\ threads[c] = "gone"
      /\ call' = None /\ receiving' = FALSE
      /\ down' = [down EXCEPT ![c] = <<>>]
      /\ socket' = socket /\ opened' = opened /\ requests' = requests /\ assembler' = assembler
      /\ returned' = returned
      /\ UNCHANGED <<serverVars, up, sent>> /\ threads' = threads
      /\ handled' = handled /\ replies' = replies /\ sent' = sent
  BY DEF ClientReceiveFails, serverVars
<1>2. /\ socket # None /\ Sound(assembler) /\ NextStatus(assembler, client_limits) = "INCOMPLETE"
      /\ down \in [Connections -> Seq(Byte)]
  BY <1>1 DEF WireInv, TypeOK, ClientType, ServerType, ClientInv
<1>3. c \in Connections /\ c <= opened
  BY <1>2, SocketTypes
<1>4. <<>> \in Seq(Byte)
  BY EmptySeq
<1>5. /\ down'[c] = <<>> /\ \A x \in Connections : x # c => down'[x] = down[x]
  BY <1>1, <1>2, <1>3
<1>6. down' \in [Connections -> Seq(Byte)]
  BY <1>1, <1>2, <1>4
<1>7. ServerType' /\ ServerInv'
  BY <1>1, <1>3, <1>5, <1>6, ServerUnseen
<1>8. TypeOK'
  <2>1. receiving' \in BOOLEAN
    BY <1>1
  <2>2. call' \in Nat
    BY <1>1 DEF None
  <2>3. ClientType'
    BY <1>1, <2>2 DEF WireInv, TypeOK, ClientType
  <2> QED
    BY <1>7, <2>1, <2>3 DEF TypeOK
<1>9. ClientInv'
  <2> DEFINE p == Pending(sent[c], handled[c])
  <2> HIDE DEF p
  <2>1. Talk(assembler, <<>>, "gone", p, None, replies[c])
    BY <1>2, TalkBreaks
  <2>2. Talk(assembler', down'[socket'], threads'[socket'],
             Pending(sent'[socket'], handled'[socket']), call', replies'[socket'])
    BY <1>1, <1>5, <2>1 DEF p
  <2> QED
    BY <1>1, <1>2, <2>2 DEF ClientInv
<1>10. ReplyIsOwn'
  BY <1>1 DEF WireInv, ReplyIsOwn
<1> QED
  BY <1>7, <1>8, <1>9, <1>10 DEF WireInv

\* The connections a thread does not serve stay as they are.
LEMMA OtherConnections ==
  ASSUME WireInv, NEW c \in Connections, threads[c] # "gone", opened' = opened, sent' = sent,
         \A x \in Connections : x # c =>
             /\ threads'[x] = threads[x] /\ assemblers'[x] = assemblers[x] /\ up'[x] = up[x]
             /\ down'[x] = down[x] /\ handled'[x] = handled[x] /\ replies'[x] = replies[x],
         Excused(assemblers'[c], sent[c], server_limits),
         threads'[c] = "recv" => assemblers'[c].status = "OK",
         threads'[c] # "gone" => InStep(threads'[c], assemblers'[c], up'[c], sent[c], handled'[c])
  PROVE  ServerInv'
<1>1. SUFFICES ASSUME NEW x \in Connections
               PROVE  /\ x > opened' => Untouched(x)'
                      /\ Excused(assemblers'[x], sent'[x], server_limits)
                      /\ threads'[x] = "recv" => assemblers'[x].status = "OK"
                      /\ threads'[x] # "gone" =>
                           InStep(threads'[x], assemblers'[x], up'[x], sent'[x], handled'[x])
  BY DEF ServerInv
<1>2. x > opened => Untouched(x)
  BY DEF WireInv, ServerInv
<1>3. CASE x = c
  <2>1. ~(x > opened)
    BY <1>2, <1>3 DEF Untouched
  <2> QED
    BY <1>3, <2>1
<1>4. CASE x # c
  <2>1. x > opened' => Untouched(x)'
    BY <1>2, <1>4 DEF Untouched
  <2> QED
    BY <1>4, <2>1, ConnectionTypes
<1> QED
  BY <1>3, <1>4

\* The client's side, where only the other end of its connection moved.
LEMMA ClientUnseen ==
  ASSUME WireInv, UNCHANGED clientVars,
         socket # None => Talk(assembler, down'[socket], threads'[socket],
                               Pending(sent'[socket], handled'[socket]), call, replies'[socket])
  PROVE  ClientInv' /\ ReplyIsOwn' /\ ClientType' /\ receiving' \in BOOLEAN
<1>1. /\ socket' = socket /\ opened' = opened /\ call' = call /\ receiving' = receiving
      /\ assembler' = assembler /\ requests' = requests /\ returned' = returned
  BY DEF clientVars
<1>2. receiving' \in BOOLEAN
  BY <1>1 DEF WireInv, TypeOK
<1>3. ClientType'
  BY <1>1 DEF WireInv, TypeOK, ClientType
<1>4. ReplyIsOwn'
  BY <1>1 DEF WireInv, ReplyIsOwn
<1>5. ClientInv'
  <2>1. /\ call # None => socket # None
        /\ socket = None => assembler = NewAssembler
        /\ receiving => call # None /\ NextStatus(assembler, client_limits) = "INCOMPLETE"
    BY DEF WireInv, ClientInv
  <2> QED
    BY <1>1, <2>1 DEF ClientInv
<1> QED
  BY <1>2, <1>3, <1>4, <1>5

LEMMA WireServerReceive ==
  ASSUME WireInv, NEW c \in Connections, ServerReceive(c)
  PROVE  WireInv'
<1>1. PICK n \in Chunks(up[c]) :
          /\ assemblers' = [assemblers EXCEPT ![c] = AppendBytes(@, SubSeq(up[c], 1, n), server_limits)]
          /\ up' = [up EXCEPT ![c] = After(@, n)]
  BY DEF ServerReceive
<1>2. /\ threads[c] = "recv" /\ threads' = [threads EXCEPT ![c] = "next"]
      /\ UNCHANGED clientVars /\ handled' = handled /\ replies' = replies /\ down' = down
      /\ sent' = sent /\ opened' = opened
  BY DEF ServerReceive, clientVars
<1>3. /\ Sound(assemblers[c]) /\ assemblers[c].status = "OK" /\ up[c] \in Seq(Byte)
      /\ sent[c] \in Seq(Frame) /\ handled[c] \in Seq(Frame)
      /\ InStep("recv", assemblers[c], up[c], sent[c], handled[c])
  BY <1>2, ConnectionTypes
<1>4. /\ threads \in [Connections -> {"recv", "next", "gone"}]
      /\ assemblers \in [Connections -> Assembler] /\ up \in [Connections -> Seq(Byte)]
  BY DEF WireInv, TypeOK, ServerType
<1> DEFINE b == AppendBytes(assemblers[c], SubSeq(up[c], 1, n), server_limits)
<1>5. /\ threads'[c] = "next" /\ assemblers'[c] = b /\ up'[c] = After(up[c], n)
      /\ \A x \in Connections : x # c =>
             threads'[x] = threads[x] /\ assemblers'[x] = assemblers[x] /\ up'[x] = up[x]
  BY <1>1, <1>2, <1>4
<1>6. /\ Sound(b) /\ Excused(b, sent[c], server_limits)
      /\ InStep("next", b, After(up[c], n), sent[c], handled[c])
  BY <1>3, StepReceive
<1>7. After(up[c], n) \in Seq(Byte)
  BY <1>3, ChunkProperties
<1>8. ServerType'
  <2>1. b \in Assembler
    BY <1>6 DEF Sound
  <2>2. assemblers' \in [Connections -> Assembler] /\ threads' \in [Connections -> {"recv", "next", "gone"}]
    <3> HIDE DEF b
    <3>1. assemblers' = [assemblers EXCEPT ![c] = b]
      BY <1>1 DEF b
    <3> QED
      BY <1>2, <1>4, <2>1, <3>1
  <2>3. up' \in [Connections -> Seq(Byte)]
    BY <1>1, <1>4, <1>7
  <2>4. \A x \in Connections : Sound(assemblers'[x])
    BY <1>5, <1>6, ConnectionTypes
  <2> QED
    BY <1>2, <2>2, <2>3, <2>4 DEF WireInv, TypeOK, ServerType
<1> HIDE DEF b
<1>9. ServerInv'
  BY <1>2, <1>5, <1>6, OtherConnections
<1>10. ASSUME socket # None
       PROVE  Talk(assembler, down'[socket], threads'[socket],
                   Pending(sent'[socket], handled'[socket]), call, replies'[socket])
  <2>1. /\ socket \in Connections
        /\ Talk(assembler, down[socket], threads[socket],
                Pending(sent[socket], handled[socket]), call, replies[socket])
    BY <1>10, SocketTypes
  <2>2. threads'[socket] = "gone" \/ threads[socket] # "gone"
    BY <1>2, <1>5, <2>1
  <2> QED
    BY <1>2, <2>1, <2>2, TalkThread
<1>11. ClientInv' /\ ReplyIsOwn' /\ ClientType' /\ receiving' \in BOOLEAN
  BY <1>2, <1>10, ClientUnseen
<1> QED
  BY <1>8, <1>9, <1>11 DEF WireInv, TypeOK

LEMMA WireServerHandle ==
  ASSUME WireInv, NEW c \in Connections, ServerHandle(c)
  PROVE  WireInv'
<1> DEFINE a == assemblers[c]
           f == NextFrame(a)
           b == AfterNext(a, server_limits)
           p == Pending(sent[c], handled[c])
           k == Append(handled[c], f)
<1>1. PICK size \in ReplySizes :
          LET reply == [request |-> f.request, size |-> size] IN
            /\ down' = [down EXCEPT ![c] = @ \o EncodeFrame(reply, server_limits)]
            /\ replies' = [replies EXCEPT ![c] = Append(@, reply)]
  BY DEF ServerHandle
<1> DEFINE r == [request |-> f.request, size |-> size]
           d == down[c] \o EncodeFrame(r, server_limits)
           rs == Append(replies[c], r)
<1>2. /\ down' = [down EXCEPT ![c] = d] /\ replies' = [replies EXCEPT ![c] = rs]
      /\ handled' = [handled EXCEPT ![c] = k] /\ assemblers' = [assemblers EXCEPT ![c] = b]
  BY <1>1 DEF ServerHandle
<1>3. /\ threads[c] = "next" /\ NextStatus(a, server_limits) = "OK"
      /\ UNCHANGED clientVars /\ threads' = threads /\ up' = up
      /\ sent' = sent /\ opened' = opened
  BY DEF ServerHandle, clientVars
<1>4. /\ Sound(a) /\ a.status = "OK" /\ up[c] \in Seq(Byte) /\ down[c] \in Seq(Byte)
      /\ sent[c] \in Seq(Frame) /\ handled[c] \in Seq(Frame) /\ replies[c] \in Seq(Frame)
      /\ InStep("next", a, up[c], sent[c], handled[c])
  <2>1. Sound(a)
    BY ConnectionTypes
  <2>2. a.status = "OK"
    BY <1>3, <2>1, NextFailed
  <2> QED
    BY <1>3, <2>1, <2>2, ConnectionTypes
<1>5. /\ f \in Frame /\ p # <<>> /\ p[1] = f /\ Pending(sent[c], k) = Tail(p)
      /\ Sound(b) /\ b.status = "OK" /\ InStep("next", b, up[c], sent[c], k)
  <2> DEFINE th == threads[c]
             s == sent[c]
             h == handled[c]
             u == up[c]
  <2>1. /\ Sound(a) /\ a.status = "OK" /\ u \in Seq(Byte) /\ s \in Seq(Frame) /\ h \in Seq(Frame)
        /\ InStep(th, a, u, s, h) /\ th # "recv" /\ NextStatus(a, server_limits) = "OK"
    BY <1>3, <1>4
  <2> HIDE DEF a, th, s, h, u
  <2>2. /\ f \in Frame /\ Pending(s, h) # <<>> /\ Pending(s, h)[1] = f
        /\ Pending(s, Append(h, f)) = Tail(Pending(s, h))
        /\ Sound(b) /\ b.status = "OK" /\ InStep(th, b, u, s, Append(h, f))
    BY <2>1, StepHandle
  <2> HIDE DEF f, b
  <2> QED
    BY <1>3, <2>2 DEF th, s, h, u
<1>6. r \in Frame /\ r.request = f.request
  <2>1. size \in Nat
    BY SizesAssumption
  <2> HIDE DEF f
  <2> QED
    BY <1>5, <2>1 DEF Frame
<1>7. p \in Seq(Frame)
  <2>1. Len(handled[c]) <= Len(sent[c])
    BY <1>4 DEF InStep
  <2> QED
    BY <1>4, <2>1, PendingCases
<1> HIDE DEF f, r, b, p, k
<1>8. d \in Seq(Byte) /\ rs \in Seq(Frame) /\ k \in Seq(Frame)
  <2>1. EncodeFrame(r, server_limits) \in Seq(Byte)
    BY <1>6, BytesOfFrame, EmptySeq DEF EncodeFrame
  <2>2. d \in Seq(Byte)
    BY <1>4, <2>1, ConcatProperties
  <2>3. rs \in Seq(Frame)
    BY <1>4, <1>6, AppendProperties
  <2>4. k \in Seq(Frame)
    BY <1>4, <1>5, AppendProperties DEF k
  <2> QED
    BY <2>2, <2>3, <2>4
<1> HIDE DEF a, d, rs
<1>9. /\ assemblers \in [Connections -> Assembler] /\ down \in [Connections -> Seq(Byte)]
      /\ handled \in [Connections -> Seq(Frame)] /\ replies \in [Connections -> Seq(Frame)]
  BY DEF WireInv, TypeOK, ServerType
<1>10. /\ down'[c] = d /\ replies'[c] = rs /\ handled'[c] = k /\ assemblers'[c] = b
       /\ \A x \in Connections : x # c =>
             /\ down'[x] = down[x] /\ replies'[x] = replies[x]
             /\ handled'[x] = handled[x] /\ assemblers'[x] = assemblers[x]
  BY <1>2, <1>9
<1>11. ServerType'
  <2>1. b \in Assembler
    BY <1>5 DEF Sound
  <2>2. assemblers' \in [Connections -> Assembler]
    BY <1>2, <1>9, <2>1
  <2>3. /\ down' \in [Connections -> Seq(Byte)] /\ handled' \in [Connections -> Seq(Frame)]
        /\ replies' \in [Connections -> Seq(Frame)]
    BY <1>2, <1>8, <1>9
  <2>4. \A x \in Connections : Sound(assemblers'[x])
    BY <1>5, <1>10, ConnectionTypes
  <2> QED
    BY <1>3, <2>2, <2>3, <2>4 DEF WireInv, TypeOK, ServerType
<1>12. ServerInv'
  <2>1. Excused(b, sent[c], server_limits)
    BY <1>5 DEF Excused
  <2> QED
    BY <1>3, <1>5, <1>10, <2>1, OtherConnections
<1>13. ASSUME socket # None
       PROVE  Talk(assembler, down'[socket], threads'[socket],
                   Pending(sent'[socket], handled'[socket]), call, replies'[socket])
  <2>1. /\ socket \in Connections /\ Sound(assembler)
        /\ Talk(assembler, down[socket], threads[socket],
                Pending(sent[socket], handled[socket]), call, replies[socket])
    BY <1>13, SocketTypes DEF WireInv, TypeOK, ClientType
  <2>2. CASE socket # c
    BY <1>3, <1>10, <2>1, <2>2
  <2>3. CASE socket = c
    <3>1. Talk(assembler, down[c], "next", p, call, replies[c])
      BY <1>3, <2>1, <2>3 DEF p
    <3>2. Talk(assembler, d, "next", Tail(p), call, rs)
      BY <1>4, <1>5, <1>6, <1>7, <2>1, <3>1, TalkReplies DEF d, rs
    <3> QED
      BY <1>3, <1>5, <1>10, <2>3, <3>2
  <2> QED
    BY <2>2, <2>3
<1>14. ClientInv' /\ ReplyIsOwn' /\ ClientType' /\ receiving' \in BOOLEAN
  BY <1>3, <1>13, ClientUnseen
<1> QED
  BY <1>11, <1>12, <1>14 DEF WireInv, TypeOK

LEMMA WireServerPause ==
  ASSUME WireInv, NEW c \in Connections, ServerPause(c)
  PROVE  WireInv'
<1> DEFINE a == assemblers[c]
<1>1. /\ threads[c] = "next" /\ NextStatus(a, server_limits) # "OK"
      /\ threads' = [threads EXCEPT ![c] =
                        IF NextStatus(a, server_limits) = "INCOMPLETE" THEN "recv" ELSE "gone"]
      /\ assemblers' = [assemblers EXCEPT ![c] = AfterNext(a, server_limits)]
      /\ UNCHANGED clientVars /\ handled' = handled /\ replies' = replies /\ down' = down
      /\ up' = up /\ sent' = sent /\ opened' = opened
  BY DEF ServerPause, clientVars
<1> DEFINE b == AfterNext(a, server_limits)
           waits == NextStatus(a, server_limits) = "INCOMPLETE"
<1>2. /\ Sound(a) /\ Excused(a, sent[c], server_limits) /\ up[c] \in Seq(Byte)
      /\ sent[c] \in Seq(Frame) /\ handled[c] \in Seq(Frame)
      /\ InStep("next", a, up[c], sent[c], handled[c])
  BY <1>1, ConnectionTypes
<1>3. /\ Sound(b) /\ Excused(b, sent[c], server_limits)
      /\ waits => b.status = "OK" /\ InStep("recv", b, up[c], sent[c], handled[c])
  <2>1. CASE a.status = "OK"
    BY <1>1, <1>2, <2>1, StepPause
  <2>2. CASE a.status # "OK"
    BY <1>2, <2>2, NextFailed
  <2> QED
    BY <2>1, <2>2
<1>4. /\ threads \in [Connections -> {"recv", "next", "gone"}]
      /\ assemblers \in [Connections -> Assembler]
  BY DEF WireInv, TypeOK, ServerType
<1>6. assemblers' = [assemblers EXCEPT ![c] = b]
  BY <1>1
<1>5. threads' = [threads EXCEPT ![c] = IF waits THEN "recv" ELSE "gone"]
  BY <1>1
<1> HIDE DEF a, b, waits
<1>7. /\ threads'[c] = (IF waits THEN "recv" ELSE "gone") /\ assemblers'[c] = b
      /\ \A x \in Connections : x # c => threads'[x] = threads[x] /\ assemblers'[x] = assemblers[x]
  BY <1>4, <1>5, <1>6
<1>8. ServerType'
  <2>1. threads' \in [Connections -> {"recv", "next", "gone"}]
    BY <1>4, <1>5
  <2>2. b \in Assembler
    BY <1>3 DEF Sound
  <2>3. assemblers' \in [Connections -> Assembler]
    BY <1>4, <1>6, <2>2
  <2>4. \A x \in Connections : Sound(assemblers'[x])
    BY <1>3, <1>7, ConnectionTypes
  <2> QED
    BY <1>1, <2>1, <2>3, <2>4 DEF WireInv, TypeOK, ServerType
<1>9. ServerInv'
  <2>1. /\ threads'[c] = "recv" => assemblers'[c].status = "OK"
        /\ threads'[c] # "gone" => InStep(threads'[c], assemblers'[c], up'[c], sent[c], handled'[c])
    BY <1>1, <1>3, <1>7
  <2> QED
    BY <1>1, <1>3, <1>7, <2>1, OtherConnections
<1>10. ASSUME socket # None
       PROVE  Talk(assembler, down'[socket], threads'[socket],
                   Pending(sent'[socket], handled'[socket]), call, replies'[socket])
  <2>1. /\ socket \in Connections
        /\ Talk(assembler, down[socket], threads[socket],
                Pending(sent[socket], handled[socket]), call, replies[socket])
    BY <1>10, SocketTypes
  <2>2. threads'[socket] = "gone" \/ threads[socket] # "gone"
    BY <1>1, <1>7, <2>1
  <2> QED
    BY <1>1, <2>1, <2>2, TalkThread
<1>11. ClientInv' /\ ReplyIsOwn' /\ ClientType' /\ receiving' \in BOOLEAN
  BY <1>1, <1>10, ClientUnseen
<1> QED
  BY <1>8, <1>9, <1>11 DEF WireInv, TypeOK

\* Threads that end leave the rest as it is.
LEMMA WireThreadsEnd ==
  ASSUME WireInv, threads' \in [Connections -> {"recv", "next", "gone"}],
         \A x \in Connections : threads'[x] = "gone" \/ threads'[x] = threads[x],
         UNCHANGED <<clientVars, assemblers, handled, replies, up, down, sent>>
  PROVE  WireInv'
<1>1. /\ UNCHANGED clientVars /\ opened' = opened /\ assemblers' = assemblers
      /\ handled' = handled /\ replies' = replies /\ up' = up /\ down' = down /\ sent' = sent
  BY DEF clientVars
<1>2. ServerType'
  BY <1>1 DEF WireInv, TypeOK, ServerType
<1>3. ServerInv'
  BY <1>1 DEF WireInv, ServerInv, Untouched
<1>4. ASSUME socket # None
      PROVE  Talk(assembler, down'[socket], threads'[socket],
                  Pending(sent'[socket], handled'[socket]), call, replies'[socket])
  <2>1. /\ socket \in Connections
        /\ Talk(assembler, down[socket], threads[socket],
                Pending(sent[socket], handled[socket]), call, replies[socket])
    BY <1>4, SocketTypes
  <2>2. CASE threads'[socket] = "gone"
    BY <1>1, <2>1, <2>2, TalkThread
  <2>3. CASE threads'[socket] = threads[socket]
    BY <1>1, <2>1, <2>3
  <2> QED
    BY <2>1, <2>2, <2>3
<1>5. ClientInv' /\ ReplyIsOwn' /\ ClientType' /\ receiving' \in BOOLEAN
  BY <1>1, <1>4, ClientUnseen
<1> QED
  BY <1>2, <1>3, <1>5 DEF WireInv, TypeOK

LEMMA WireNext == WireInv /\ [Next]_vars => WireInv'
<1> SUFFICES ASSUME WireInv, [Next]_vars PROVE WireInv'
  OBVIOUS
<1>0. threads \in [Connections -> {"recv", "next", "gone"}]
  BY DEF WireInv, TypeOK, ServerType
<1>1. CASE Connect
  BY <1>1, WireConnect
<1>2. CASE Close \/ Die
  BY <1>2, WireClose
<1>3. CASE ClientCall
  BY <1>3, WireRequest DEF ClientCall
<1>4. CASE ClientStep
  BY <1>4, WireClientNext, WireClientReceive, WireClientReceiveFails DEF ClientStep
<1>5. CASE ServerDies
  BY <1>0, <1>5, WireThreadsEnd DEF ServerDies
<1>6. ASSUME NEW c \in Connections, ServerStep(c) PROVE WireInv'
  <2>1. CASE ServerReceive(c)
    BY <2>1, WireServerReceive
  <2>2. CASE ServerHandle(c)
    BY <2>2, WireServerHandle
  <2>3. CASE ServerPause(c)
    BY <2>3, WireServerPause
  <2>4. CASE ServerHangsUp(c)
    BY <1>0, <2>4, WireThreadsEnd DEF ServerHangsUp
  <2> QED
    BY <1>6, <2>1, <2>2, <2>3, <2>4 DEF ServerStep
<1>7. CASE UNCHANGED vars
  BY <1>0, <1>7, WireThreadsEnd DEF vars, serverVars
<1> QED
  BY <1>1, <1>2, <1>3, <1>4, <1>5, <1>6, <1>7 DEF Next

-----------------------------------------------------------------------------
(* Theorems.                                                               *)

\* Both ends of every connection stay in step, however the streams are cut and
\* whichever end goes.
THEOREM WireInvariant == Spec => []WireInv
BY WireInit, WireNext, PTL DEF Spec

\* A thread handles the frames that were sent, in their order, none twice and
\* none lost (FrameAssembler::append and next, the receive loop of a connection).
THEOREM FramesHandledInOrder == Spec => []HandledInOrder
<1>1. WireInv => HandledInOrder
  <2> SUFFICES ASSUME WireInv, NEW c \in Connections, threads[c] # "gone"
               PROVE  Encoded(handled[c]) \o Unconsumed(assemblers[c]) \o up[c] = Encoded(sent[c])
    BY DEF HandledInOrder
  <2>1. Whole(assemblers[c], up[c], sent[c], handled[c])
    BY ConnectionTypes, StepWhole
  <2> QED
    BY <2>1 DEF Whole
<1> QED
  BY <1>1, WireInvariant, PTL

\* The coordinator refuses a stream only where it carries a frame that is over the
\* limit or that there is no room for, however the stream is cut: what was handled
\* takes no room (FrameAssembler::append).
THEOREM CoordinatorRefusesOnlyWithoutRoom == Spec => []RefusesOnlyWithoutRoom
<1>1. WireInv => RefusesOnlyWithoutRoom
  <2> SUFFICES ASSUME WireInv, NEW c \in Connections, assemblers[c].status # "OK"
               PROVE  \E i \in DOMAIN sent[c] : NoRoom(server_limits, sent[c][i].size)
    BY DEF RefusesOnlyWithoutRoom
  <2>1. Excused(assemblers[c], sent[c], server_limits) /\ sent[c] \in Seq(Frame)
    BY ConnectionTypes
  <2>2. DOMAIN sent[c] = 1..Len(sent[c])
    BY <2>1, LenProperties
  <2> QED
    BY <2>1, <2>2 DEF Excused
<1> QED
  BY <1>1, WireInvariant, PTL

\* A client that fails to read fails for a reply of the same connection that is
\* over its limit or that it has no room for; connect starts afresh
\* (DiversityClient::connect).
THEOREM ClientFreshAfterConnect == Spec => []FreshAfterConnect
<1>1. WireInv => FreshAfterConnect
  <2> SUFFICES ASSUME WireInv, assembler.status # "OK"
               PROVE  /\ socket # None
                      /\ \E i \in DOMAIN replies[socket] :
                           NoRoom(client_limits, replies[socket][i].size)
    BY DEF FreshAfterConnect
  <2>1. socket # None
    BY NewAssemblerSound DEF WireInv, ClientInv
  <2>2. Failed(assembler, replies[socket])
    BY <2>1, SocketTypes DEF Talk
  <2>3. replies[socket] \in Seq(Frame)
    BY <2>1, SocketTypes, ConnectionTypes
  <2>4. DOMAIN replies[socket] = 1..Len(replies[socket])
    BY <2>3, LenProperties
  <2> QED
    BY <2>1, <2>2, <2>4 DEF Failed
<1> QED
  BY <1>1, WireInvariant, PTL

\* A request returns its own reply, never one of an earlier request or of an
\* earlier connection (DiversityClient::Impl::request).
THEOREM RepliesAreOwn == Spec => []ReplyIsOwn
<1>1. WireInv => ReplyIsOwn
  BY DEF WireInv
<1> QED
  BY <1>1, WireInvariant, PTL
=============================================================================
