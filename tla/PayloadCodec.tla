---------------------------- MODULE PayloadCodec ----------------------------
(* The payloads of the wire protocol, the second half of wire.cpp: what the   *)
(* worker client and the coordinator write, and what the other side takes.    *)
(* Every refusal is one status, INVALID_ENCODING, without a class.            *)
EXTENDS StoreCodec

CONSTANTS max_query_results

encode_acting_authority(f, a) ==
    Token("name", Append(f, "marker"), IF a.epoch = 0 THEN "epoch-unset" ELSE "epoch-set")
        \o PutU64(f, a, "epoch") \o PutId(f, a, "publisher") \o PutId(f, a, "boot")
        \o PutId(f, a, "scope") \o PutId(f, a, "attempt")
        \o PutU64(f, a, "expected_policy_generation") \o PutU64(f, a, "expected_proof_generation")
decode_acting_authority(f) ==
    TakeName(f, "marker") \o Check(f, "marker", <<>>, Unclassified)
        \o TakeU64(f, "epoch") \o TakeId(f, "publisher") \o TakeId(f, "boot")
        \o TakeId(f, "scope") \o TakeId(f, "attempt")
        \o TakeU64(f, "expected_policy_generation") \o TakeU64(f, "expected_proof_generation")

encode_hello(v) ==
    PutId(<<>>, v, "publisher") \o PutId(<<>>, v, "boot") \o PutU64(<<>>, v, "epoch")
        \o PutId(<<>>, v, "scope")
decode_hello(f) ==
    TakeId(f, "publisher") \o TakeId(f, "boot") \o TakeU64(f, "epoch")
        \o TakeId(f, "scope")

encode_proof_request(f, r) ==
    PutId(f, r, "policy") \o PutU64(f, r, "policy_generation") \o PutList(f, r, "paths", PathReference)
decode_proof_request(f) ==
    TakeId(f, "policy") \o TakeU64(f, "policy_generation")
        \o TakeList(f, "paths", max_paths_per_proof,
                    TakeId(Append(f, "paths"), "path")
                        \o TakeU64(Append(f, "paths"), "authority_generation"))

encode_publish_policy(v) ==
    encode_acting_authority(<<"authority">>, v.authority) \o encode_policy(<<"policy">>, v.policy)
decode_publish_policy(f) ==
    decode_acting_authority(Append(f, "authority")) \o decode_policy(Append(f, "policy"))

encode_publish_proof(v) ==
    encode_acting_authority(<<"authority">>, v.authority)
        \o encode_proof_request(<<"request">>, v.request)
decode_publish_proof(f) ==
    decode_acting_authority(Append(f, "authority")) \o decode_proof_request(Append(f, "request"))

encode_revalidate(v) ==
    encode_acting_authority(<<"authority">>, v.authority) \o PutId(<<>>, v, "proof")
decode_revalidate(f) == decode_acting_authority(Append(f, "authority")) \o TakeId(f, "proof")

(* An identity that is not the selector's is unset, and absent on the wire. *)
encode_query(v) ==
    Token("byte", <<"selector">>, v.selector)
        \o PutOptional(<<>>, v, "path", IdElement) \o PutOptional(<<>>, v, "domain", IdElement)
        \o PutOptional(<<>>, v, "policy", IdElement)
        \o PutU8(<<>>, v, "entity_kind") \o PutId(<<>>, v, "entity_id")
decode_query(f) ==
    Take("byte", Append(f, "selector")) \o Check(Append(f, "selector"), "selector", <<>>, Unclassified)
        \o TakeOptional(f, "path", IdItem(Append(f, "path")))
        \o TakeOptional(f, "domain", IdItem(Append(f, "domain")))
        \o TakeOptional(f, "policy", IdItem(Append(f, "policy")))
        \o TakeEnums(f, <<"entity_kind">>) \o TakeName(f, "entity_id")

encode_query_result(v) ==
    PutList(<<>>, v, "proofs", IdElement) \o PutBoolean(<<>>, v, "truncated")
        \o PutU64(<<>>, v, "total")
decode_query_result(f) ==
    TakeList(f, "proofs", max_query_results, IdItem(Append(f, "proofs")))
        \o TakeBoolean(f, "truncated") \o TakeU64(f, "total")
        \o Check(f, "total covers", <<"total", "proofs">>, Unclassified)

encode_mutation_result(v) ==
    PutU8(<<>>, v, "status") \o PutText(<<>>, v, "detail")
        \o PutOptional(<<>>, v, "proof", encode_proof)
decode_mutation_result(f) ==
    TakeEnums(f, <<"status">>) \o TakeText(f, "detail", max_detail)
        \o TakeOptional(f, "proof", decode_proof(Append(f, "proof")))

encode_error(v) == PutU8(<<>>, v, "status") \o PutText(<<>>, v, "detail")
decode_error(f) == TakeEnums(f, <<"status">>) \o TakeText(f, "detail", max_detail)

PayloadPasses(out, c) ==
    CASE c.test = "marker" -> Latest(out, Append(c.field, "marker")) \in {"epoch-set", "epoch-unset"}
      [] c.test = "selector" -> Latest(out, c.field) <= 5
      [] OTHER -> SnapshotPasses(out, c)
=============================================================================
