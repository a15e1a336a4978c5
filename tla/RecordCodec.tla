---------------------------- MODULE RecordCodec ----------------------------
(* The durable encoding of policies and proofs, persistence_records.cpp: what *)
(* each encoder writes, and what each decoder takes and checks, in the order  *)
(* of the code.  Encoders and decoders are separate code and are transcribed  *)
(* separately; f is the path of the record inside the document.               *)
EXTENDS ByteStream

CONSTANTS
    max_required_classes, max_conflicts_per_proof, max_paths_per_proof,
    max_pairwise_cells, max_topology_dependencies, max_persistence_record_bytes

(* The bound the decoders put on a description and on a detail. *)
max_detail == max_persistence_record_bytes \div 4

-----------------------------------------------------------------------------
(* Encoders *)

SharedResource_encode(f, c) ==
    PutU8(f, c, "kind") \o PutU8(f, c, "relation") \o PutId(f, c, "id")
        \o PutList(f, c, "paths", IndexElement)

write_class(f, c) ==
    PutU8(f, c, "klass") \o PutU8(f, c, "outcome") \o PutBoolean(f, c, "evidence_complete")
        \o PutList(f, c, "shared", SharedResource_encode)
        \o PutU64(f, c, "shared_total") \o PutText(f, c, "detail")

PathBinding(f, b) == PutId(f, b, "path") \o PutU64(f, b, "generation")
Entity(f, e) == PutU8(f, e, "kind") \o PutId(f, e, "id")

write_dependencies(f, d) ==
    PutU64(f, d, "policy_generation") \o PutU64(f, d, "topology_generation")
        \o PutU64(f, d, "failure_domain_generation") \o PutU64(f, d, "epoch")
        \o PutU8(f, d, "endpoint_exemption")
        \o PutList(f, d, "paths", PathBinding) \o PutList(f, d, "topology_entities", Entity)

write_witness_Swapped(f, w) ==
    PutBoolean(f, w, "present") \o PutVarint(f, w, "achieved") \o PutVarint(f, w, "requested_k")
        \o PutBoolean(f, w, "maximum_exact") \o PutList(f, w, "indices", IndexElement)

write_witness(f, w) ==
    PutBoolean(f, w, "present") \o PutVarint(f, w, "requested_k") \o PutVarint(f, w, "achieved")
        \o PutBoolean(f, w, "maximum_exact") \o PutList(f, w, "indices", IndexElement)

encode_policy(f, p) ==
    PutId(f, p, "id") \o PutU64(f, p, "generation") \o PutId(f, p, "scope")
        \o PutList(f, p, "required_classes", EnumElement) \o PutU8(f, p, "endpoint_exemption")
        \o PutVarint(f, p, "minimum_independent_paths") \o PutU8(f, p, "semantics")
        \o PutU8(f, p, "completeness") \o PutU8(f, p, "unknown_behavior")
        \o PutList(f, p, "allowed_failure_domain_relations", EnumElement)
        \o PutBoolean(f, p, "require_path_authority_current") \o PutText(f, p, "description")

PathReference(f, r) == PutId(f, r, "path") \o PutU64(f, r, "authority_generation")
LimitNotice(f, n) == PutU8(f, n, "bound") \o PutU64(f, n, "observed") \o PutU64(f, n, "allowed")
Cell(f, c) ==
    PutVarint(f, c, "left") \o PutVarint(f, c, "right") \o PutBoolean(f, c, "independent")
        \o PutBoolean(f, c, "evidence_complete") \o PutList(f, c, "classes", write_class)
        \o PutOptional(f, c, "primary_conflict", SharedResource_encode)

encode_proof(f, p) ==
    LET request == Append(f, "request")
        matrix  == Append(f, "matrix")
        source  == Append(f, "provenance")
    IN  PutId(f, p, "id") \o PutU64(f, p, "generation")
        \o PutId(request, p.request, "policy") \o PutU64(request, p.request, "policy_generation")
        \o PutList(request, p.request, "paths", PathReference)
        \o PutDigest(f, p, "request_digest") \o PutDigest(f, p, "semantic_digest")
        \o PutU8(f, p, "outcome") \o PutText(f, p, "detail")
        \o PutOptional(f, p, "limit", LimitNotice)
        \o PutList(f, p, "classes", write_class) \o PutList(f, p, "advisories", write_class)
        \o PutList(f, p, "conflicts", SharedResource_encode) \o PutU64(f, p, "conflicts_total")
        \o PutList(matrix, p.matrix, "order", IdElement) \o PutList(matrix, p.matrix, "cells", Cell)
        \o write_witness(Append(f, "witness"), p.witness)
        \o write_dependencies(Append(f, "dependencies"), p.dependencies)
        \o PutU64(source, p.provenance, "epoch") \o PutId(source, p.provenance, "publisher")
        \o PutId(source, p.provenance, "boot") \o PutId(source, p.provenance, "attempt")
        \o PutU8(f, p, "lifecycle") \o PutU8(f, p, "currentness")

-----------------------------------------------------------------------------
(* Decoders *)

read_conflict(f) ==
    TakeEnums(f, <<"kind", "relation">>) \o TakeName(f, "id")
        \o TakeList(f, "paths", max_paths_per_proof, IndexItem(Append(f, "paths")))

read_class(f) ==
    TakeEnums(f, <<"klass", "outcome">>) \o TakeBoolean(f, "evidence_complete")
        \o TakeList(f, "shared", max_conflicts_per_proof, read_conflict(Append(f, "shared")))
        \o TakeU64(f, "shared_total")
        \o Check(f, "total covers", <<"shared_total", "shared">>, "INTERNAL_INCONSISTENCY")
        \o TakeText(f, "detail", max_detail)
        \o Check(f, "claim", <<>>, "INCOMPLETE_EVIDENCE_CLAIM")

read_dependencies(f) ==
    TakeU64(f, "policy_generation") \o TakeU64(f, "topology_generation")
        \o TakeU64(f, "failure_domain_generation") \o TakeU64(f, "epoch")
        \o TakeEnums(f, <<"endpoint_exemption">>)
        \o TakeList(f, "paths", max_paths_per_proof,
                    TakeId(Append(f, "paths"), "path") \o TakeU64(Append(f, "paths"), "generation"))
        \o TakeList(f, "topology_entities", max_topology_dependencies,
                    TakeEnums(Append(f, "topology_entities"), <<"kind">>)
                        \o TakeName(Append(f, "topology_entities"), "id"))

read_witness(f) ==
    TakeBoolean(f, "present") \o TakeVarint(f, "requested_k") \o TakeVarint(f, "achieved")
        \o TakeBoolean(f, "maximum_exact")
        \o Check(f, "fits u32", <<"requested_k", "achieved">>, "ARITHMETIC_OVERFLOW")
        \o TakeList(f, "indices", max_paths_per_proof, IndexItem(Append(f, "indices")))
        \o Check(f, "names enough", <<>>, "INVALID_WITNESS")
        \o Check(f, "ascending", <<>>, "INVALID_WITNESS")

decode_policy(f) ==
    TakeId(f, "id") \o TakeU64(f, "generation") \o TakeId(f, "scope")
        \o TakeList(f, "required_classes", max_required_classes,
                    EnumItem(Append(f, "required_classes")))
        \o TakeEnums(f, <<"endpoint_exemption">>) \o TakeU32(f, "minimum_independent_paths")
        \o TakeEnums(f, <<"semantics", "completeness", "unknown_behavior">>)
        \o TakeList(f, "allowed_failure_domain_relations", 8,
                    EnumItem(Append(f, "allowed_failure_domain_relations")))
        \o TakeBoolean(f, "require_path_authority_current")
        \o TakeText(f, "description", max_detail)
        \o Check(f, "set", <<"generation">>, "IMPOSSIBLE_GENERATION")
        \o Check(f, "valid policy", <<>>, "INVALID_ENUM")

read_cell(f) ==
    TakeVarint(f, "left") \o TakeVarint(f, "right")
        \o Check(f, "cell known", <<>>, "UNKNOWN_REFERENCE")
        \o Check(f, "cell above diagonal", <<>>, "INTERNAL_INCONSISTENCY")
        \o TakeBoolean(f, "independent") \o TakeBoolean(f, "evidence_complete")
        \o TakeList(f, "classes", max_required_classes, read_class(Append(f, "classes")))
        \o TakeOptional(f, "primary_conflict", read_conflict(Append(f, "primary_conflict")))

(* decode_proof up to the end of the record. *)
take_proof(f) ==
    LET request == Append(f, "request")
        paths   == request \o <<"paths">>
        matrix  == Append(f, "matrix")
        source  == Append(f, "provenance")
        limit   == Append(f, "limit")
    IN  TakeId(f, "id") \o TakeU64(f, "generation")
        \o TakeId(request, "policy") \o TakeU64(request, "policy_generation")
        \o TakeList(request, "paths", max_paths_per_proof,
                    TakeId(paths, "path") \o TakeU64(paths, "authority_generation"))
        \o TakeDigest(f, "request_digest") \o TakeDigest(f, "semantic_digest")
        \o TakeEnums(f, <<"outcome">>) \o TakeText(f, "detail", max_detail)
        \o TakeOptional(f, "limit", TakeEnums(limit, <<"bound">>) \o TakeU64(limit, "observed")
                                        \o TakeU64(limit, "allowed"))
        \o TakeList(f, "classes", max_required_classes, read_class(Append(f, "classes")))
        \o TakeList(f, "advisories", max_required_classes, read_class(Append(f, "advisories")))
        \o TakeList(f, "conflicts", max_conflicts_per_proof, read_conflict(Append(f, "conflicts")))
        \o TakeU64(f, "conflicts_total")
        \o Check(f, "total covers", <<"conflicts_total", "conflicts">>, "INTERNAL_INCONSISTENCY")
        \o TakeList(matrix, "order", max_paths_per_proof, IdItem(Append(matrix, "order")))
        \o TakeCounted(matrix, "cells", max_pairwise_cells, Unclassified,
                       Check(matrix, "cell count", <<>>, "MATRIX_DIMENSION_MISMATCH"),
                       read_cell(Append(matrix, "cells")))
        \o read_witness(Append(f, "witness")) \o read_dependencies(Append(f, "dependencies"))
        \o TakeU64(source, "epoch") \o TakeId(source, "publisher") \o TakeId(source, "boot")
        \o TakeId(source, "attempt") \o TakeEnums(f, <<"lifecycle", "currentness">>)

(* The semantic validation that ends decode_proof. *)
validate_proof_ClaimUnchecked(f) ==
    Check(f, "paths distinct", <<>>, "DUPLICATE_PATH")
        \o Check(f, "order of paths", <<>>, "MATRIX_DIMENSION_MISMATCH")
        \o Check(f, "indices known", <<>>, "UNKNOWN_REFERENCE")
        \o Check(f, "witness known", <<>>, "INVALID_WITNESS")
        \o Check(f, "current binds generations", <<>>, "IMPOSSIBLE_GENERATION")

validate_proof(f) ==
    Check(f, "paths distinct", <<>>, "DUPLICATE_PATH")
        \o Check(f, "order of paths", <<>>, "MATRIX_DIMENSION_MISMATCH")
        \o Check(f, "indices known", <<>>, "UNKNOWN_REFERENCE")
        \o Check(f, "proven claim", <<>>, "INCOMPLETE_EVIDENCE_CLAIM")
        \o Check(f, "witness known", <<>>, "INVALID_WITNESS")
        \o Check(f, "current binds generations", <<>>, "IMPOSSIBLE_GENERATION")

decode_proof(f) == take_proof(f) \o validate_proof(f)
-----------------------------------------------------------------------------
(* The checks, over what has been taken so far.  The record being decoded     *)
(* starts at the latest value of its identity.                                *)

SizeOf(out, f) == Latest(out, Append(f, "size"))
Distinct(s) == \A i, j \in DOMAIN s : s[i] = s[j] => i = j
Below(s, n) == \A i \in DOMAIN s : s[i] < n

(* validate_policy, without the identities and the generation checked before. *)
validate_policy(out, f) ==
    LET policy    == Since(out, Append(f, "id"))
        classes   == ValuesOf(policy, Append(f, "required_classes"))
        minimum   == Latest(policy, Append(f, "minimum_independent_paths"))
        relations == ValuesOf(policy, Append(f, "allowed_failure_domain_relations"))
    IN  /\ classes # <<>> /\ Distinct(classes)
        /\ minimum >= 2 /\ minimum <= max_paths_per_proof
        /\ Distinct(relations)
        /\ "FAILURE_DOMAIN_DISJOINT" \in Range(classes) => relations # <<>>
        /\ Latest(policy, Append(f, "description")) <= max_persistence_record_bytes

PairwiseMatrix_cell_count_Diagonal(n) == (n * (n + 1)) \div 2

PairwiseMatrix_cell_count(n) == (n * (n - 1)) \div 2

cell_known(out, f) ==
    LET order_count == SizeOf(out, SubSeq(f, 1, Len(f) - 1) \o <<"order">>)
    IN  Latest(out, Append(f, "left")) < order_count /\ Latest(out, Append(f, "right")) < order_count

PathsOf(proof, f) == ValuesOf(proof, f \o <<"request", "paths", "path">>)

(* The index lists that decode_proof compares with the paths of the request;  *)
(* those of the advisories are not among them.                                *)
IndexLists(f) == {f \o <<"conflicts", "paths">>, f \o <<"classes", "shared", "paths">>,
                  f \o <<"matrix", "cells", "classes", "shared", "paths">>,
                  f \o <<"matrix", "cells", "primary_conflict", "paths">>}
indices_known(proof, f) ==
    \A g \in IndexLists(f) : Below(ValuesOf(proof, g), Len(PathsOf(proof, f)))

proven_claim(proof, f) ==
    Latest(proof, Append(f, "outcome")) = "PROVEN_DIVERSE" =>
        /\ 0 \notin Range(ValuesOf(proof, f \o <<"classes", "evidence_complete">>))
        /\ SizeOf(proof, Append(f, "conflicts")) = 0

current_binds_generations(proof, f) ==
    Latest(proof, Append(f, "lifecycle")) = "CURRENT" =>
        \A m \in {"policy_generation", "topology_generation", "failure_domain_generation", "epoch"} :
            Latest(proof, f \o <<"dependencies", m>>) # 0

RecordPasses(out, c) ==
    LET f       == c.field
        members == IF c.members = <<>> THEN {f} ELSE {Append(f, m) : m \in Range(c.members)}
        value   == [g \in members |-> Latest(out, g)]
        proof   == Since(out, Append(f, "id"))
        indices == ValuesOf(Since(out, Append(f, "present")), Append(f, "indices"))
    IN  CASE c.test = "defined"       -> \A g \in members : value[g] # UNDEFINED
          [] c.test = "identity"      -> \A g \in members : value[g] # MALFORMED
          [] c.test = "fits u32"      -> \A g \in members : value[g] < U32
          [] c.test = "set"           -> \A g \in members : value[g] # 0
          [] c.test = "total covers"  ->
                Latest(out, Append(f, c.members[1])) >= SizeOf(out, Append(f, c.members[2]))
          [] c.test = "claim"         ->
                Latest(out, Append(f, "outcome")) = "PROVEN_DIVERSE" =>
                    Latest(out, Append(f, "evidence_complete")) = 1
          [] c.test = "names enough"  -> Len(indices) >= Latest(out, Append(f, "achieved"))
          [] c.test = "ascending"     -> \A i \in 2..Len(indices) : indices[i - 1] < indices[i]
          [] c.test = "valid policy"  -> validate_policy(out, f)
          [] c.test = "cell count"    ->
                SizeOf(out, Append(f, "cells")) =
                    PairwiseMatrix_cell_count(SizeOf(out, Append(f, "order")))
          [] c.test = "cell known"    -> cell_known(out, f)
          [] c.test = "cell above diagonal" ->
                Latest(out, Append(f, "left")) < Latest(out, Append(f, "right"))
          [] c.test = "paths distinct" -> Distinct(PathsOf(proof, f))
          [] c.test = "order of paths" ->
                ValuesOf(proof, f \o <<"matrix", "order">>) = PathsOf(proof, f)
          [] c.test = "indices known" -> indices_known(proof, f)
          [] c.test = "proven claim"  -> proven_claim(proof, f)
          [] c.test = "witness known" ->
                Below(ValuesOf(proof, f \o <<"witness", "indices">>), Len(PathsOf(proof, f)))
          [] c.test = "current binds generations" -> current_binds_generations(proof, f)
=============================================================================
