----------------------------- MODULE ByteStream -----------------------------
(* The canonical byte stream of canonical.cpp, one token per value written.   *)
(* A token is the primitive that wrote it, the member it was written from     *)
(* (a path of member names) and the value.  The bytes of a token are left out *)
(* but not what a reader can tell from them: an enumeration byte that no      *)
(* enumerator has is UNDEFINED, a text that parses as no identity is          *)
(* MALFORMED, a boolean is the byte 0 or 1, a free text is its length, and a  *)
(* 32-bit member travels in a wider varint.                                   *)
EXTENDS Naturals, Sequences, SequencesExt

CONSTANTS
    U32,         \* 2^32: the first number a 32-bit member cannot hold
    UNDEFINED,   \* the byte of an enumeration that is none of its enumerators
    MALFORMED    \* a text that is no identity (from_wire returns nothing)

-----------------------------------------------------------------------------
(* ByteWriter: each operator appends what one call writes for member m of r.  *)

Token(as, field, value) == <<[as |-> as, field |-> field, value |-> value]>>
Bit(b) == IF b THEN 1 ELSE 0

PutU8(f, r, m)      == Token("u8", Append(f, m), r[m])
PutU64(f, r, m)     == Token("u64", Append(f, m), r[m])
PutVarint(f, r, m)  == Token("varint", Append(f, m), r[m])
PutBoolean(f, r, m) == Token("boolean", Append(f, m), Bit(r[m]))
PutText(f, r, m)    == Token("text", Append(f, m), r[m])
PutId(f, r, m)      == Token("name", Append(f, m), r[m])
PutDigest(f, r, m)  == Token("bytes", Append(f, m), r[m])

(* Elements of a list: the element itself is the value. *)
EnumElement(f, e)  == Token("u8", f, e)
IndexElement(f, e) == Token("varint", f, e)
IdElement(f, e)    == Token("name", f, e)

(* A list is its size, then its elements; an optional is a flag, then its value. *)
PutList(f, r, m, Put(_, _)) ==
    Token("varint", f \o <<m, "size">>, Len(r[m]))
        \o FlattenSeq([i \in DOMAIN r[m] |-> Put(Append(f, m), r[m][i])])
PutOptional(f, r, m, Put(_, _)) ==
    Token("boolean", f \o <<m, "present">>, Bit(r[m] # <<>>))
        \o FlattenSeq([i \in DOMAIN r[m] |-> Put(Append(f, m), r[m][i])])

-----------------------------------------------------------------------------
(* What a decoder does next: take one value for a member, or check what it    *)
(* has taken.  A list or an optional takes its size or flag, after which the  *)
(* items of its elements are due.  failure is the class of corruption the     *)
(* decoder reports; Unclassified where it only fails the reader.              *)

Unclassified == "unclassified"
Take(as, field) == <<[take |-> as, field |-> field]>>

TakeU8(f, m)           == Take("u8", Append(f, m))
TakeU64(f, m)          == Take("u64", Append(f, m))
TakeVarint(f, m)       == Take("varint", Append(f, m))
TakeName(f, m)         == Take("name", Append(f, m))
TakeDigest(f, m)       == Take("bytes", Append(f, m))
TakeFlag(f, m, failure) == <<[take |-> "boolean", field |-> Append(f, m), failure |-> failure]>>
TakeBoolean(f, m)      == TakeFlag(f, m, Unclassified)
TakeText(f, m, bound)  == <<[take |-> "text", field |-> Append(f, m), bound |-> bound]>>

TakeCounted(f, m, bound, failure, after, items) ==
    <<[take |-> "size", field |-> f \o <<m, "size">>, bound |-> bound,
       failure |-> failure, after |-> after, items |-> items]>>
TakeList(f, m, bound, items) == TakeCounted(f, m, bound, Unclassified, <<>>, items)
TakeOptional(f, m, items) ==
    <<[take |-> "presence", field |-> f \o <<m, "present">>, failure |-> Unclassified,
       items |-> items]>>

Check(f, test, members, failure) ==
    <<[take |-> "check", field |-> f, test |-> test, members |-> members,
       failure |-> failure]>>

(* The checks every codec makes of a single member. *)
TakeEnums(f, ms) ==
    [i \in DOMAIN ms |-> TakeU8(f, ms[i])[1]] \o Check(f, "defined", ms, "INVALID_ENUM")
TakeId(f, m) == TakeName(f, m) \o Check(f, "identity", <<m>>, "MALFORMED_IDENTITY")
TakeU32(f, m) == TakeVarint(f, m) \o Check(f, "fits u32", <<m>>, "ARITHMETIC_OVERFLOW")

(* Elements whose member is the list itself. *)
EnumItem(f)  == Take("u8", f) \o Check(f, "defined", <<>>, "INVALID_ENUM")
IdItem(f)    == Take("name", f) \o Check(f, "identity", <<>>, "MALFORMED_IDENTITY")
IndexItem(f) == Take("varint", f) \o Check(f, "fits u32", <<>>, "ARITHMETIC_OVERFLOW")

-----------------------------------------------------------------------------
(* What has been taken: a sequence of <<member, value>>, in the order read.   *)

ValuesOf(out, f) ==
    LET taken == SelectSeq(out, LAMBDA e : e[1] = f)
    IN  [i \in DOMAIN taken |-> taken[i][2]]

(* The latest value taken for f: the one of the record being decoded. *)
Latest(out, f) == out[SelectLastInSeq(out, LAMBDA e : e[1] = f)][2]

(* What has been taken since the latest f, its own entry included. *)
Since(out, f) == SubSeq(out, SelectLastInSeq(out, LAMBDA e : e[1] = f), Len(out))
=============================================================================
