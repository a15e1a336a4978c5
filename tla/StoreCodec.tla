----------------------------- MODULE StoreCodec -----------------------------
(* The store file, persistence_store.cpp: a header, seven sections of records *)
(* and an integrity trailer over everything before it.                        *)
EXTENDS Snapshots

CONSTANTS max_store_records, max_history, max_store_bytes

Session(f, s) ==
    PutId(f, s, "publisher") \o PutId(f, s, "boot") \o PutU64(f, s, "epoch")
        \o PutId(f, s, "scope") \o PutBoolean(f, s, "fenced")
Attempt(f, a) == PutId(f, a, "attempt") \o PutDigest(f, a, "payload") \o PutId(f, a, "proof")
History(f, h) == PutId(f, h, "proof") \o PutList(f, h, "revisions", encode_proof)

(* encode_store after the magic and the version; the bounds are not consulted. *)
encode_store(contents) ==
    PutU64(<<>>, contents, "epoch")
        \o PutList(<<>>, contents, "policies", encode_policy)
        \o PutList(<<>>, contents, "proofs", encode_proof)
        \o PutList(<<>>, contents, "sessions", Session)
        \o PutList(<<>>, contents, "fenced_boots", IdElement)
        \o PutList(<<>>, contents, "attempts", Attempt)
        \o PutList(<<>>, contents, "history", History)
        \o PutList(<<>>, contents, "snapshots", encode_snapshot)

(* What decode_store finds before it takes a value, in the order it looks: a  *)
(* file is its length, its magic and version, and whether its trailer is the  *)
(* hash of what precedes it.                                                  *)
FixedBytes == 28
header_status(file) ==
    CASE file.size = 0               -> "EMPTY_FILE"
      [] file.size > max_store_bytes -> "SIZE_LIMIT_EXCEEDED"
      [] file.size < FixedBytes      -> "TRUNCATED"
      [] ~file.magic                 -> "MALFORMED_MAGIC"
      [] ~file.sealed                -> "INTEGRITY_FAILURE"
      [] ~file.version               -> "UNSUPPORTED_VERSION"
      [] OTHER                       -> "OK"

(* read_section_count.  A count larger than the file has bytes is refused as  *)
(* ABSURD_COUNT; bytes are not counted here, and such a count runs out.       *)
TakeSection(f, m, items) ==
    TakeCounted(f, m, max_store_records, "RECORD_LIMIT_EXCEEDED", <<>>, items)

(* decode_store after the version.  The sections it decodes itself report any *)
(* value the reader refuses as a truncation.                                  *)
decode_store(f) ==
    LET session == Append(f, "sessions")
        attempt == Append(f, "attempts")
        history == Append(f, "history")
    IN  TakeU64(f, "epoch")
        \o TakeSection(f, "policies", decode_policy(Append(f, "policies")))
        \o TakeSection(f, "proofs", decode_proof(Append(f, "proofs")))
        \o TakeSection(f, "sessions",
               TakeName(session, "publisher") \o TakeName(session, "boot")
               \o TakeU64(session, "epoch") \o TakeName(session, "scope")
               \o TakeFlag(session, "fenced", "TRUNCATED")
               \o Check(session, "identity", <<"publisher", "boot", "scope">>,
                        "MALFORMED_IDENTITY"))
        \o TakeSection(f, "fenced_boots", IdItem(Append(f, "fenced_boots")))
        \o TakeSection(f, "attempts",
               TakeName(attempt, "attempt") \o TakeDigest(attempt, "payload")
               \o TakeName(attempt, "proof")
               \o Check(attempt, "identity", <<"attempt", "proof">>, "MALFORMED_IDENTITY"))
        \o TakeSection(f, "history",
               TakeId(history, "proof")
               \o TakeCounted(history, "revisions", max_history, "RECORD_LIMIT_EXCEEDED", <<>>,
                              decode_proof(Append(history, "revisions"))))
        \o TakeSection(f, "snapshots", decode_snapshot(At))

(* persistence_status_for: a truncation and an overrun are one status, and a  *)
(* refusal keeps its class when the decoder gave it one.                      *)
persistence_status_for(status, failure) ==
    CASE status = "INVALID_ENCODING" ->
            IF failure = Unclassified THEN "INTERNAL_INCONSISTENCY" ELSE failure
      [] status = "LENGTH_OVERRUN" -> "TRUNCATED"
      [] OTHER -> status
=============================================================================
