----------------------------- MODULE Snapshots -----------------------------
(* Immutable captures of proof revisions: what a snapshot copies from its     *)
(* proof, what its digest covers, its encoding (the snapshot section of       *)
(* persistence_store.cpp) and the diff of two snapshots (snapshot.cpp).       *)
EXTENDS RecordCodec

CONSTANTS max_snapshot_paths, max_diff_entries

(* Snapshots are written in one place only, the last section of a store. *)
At == <<"snapshots">>

-----------------------------------------------------------------------------
(* Encoding *)

encode_class_list(f, s) ==
    PutList(f, s, "classes", LAMBDA g, c :
        PutU8(g, c, "klass") \o PutU8(g, c, "outcome") \o PutBoolean(g, c, "evidence_complete")
            \o PutList(g, c, "shared", SharedResource_encode)
            \o PutU64(g, c, "shared_total") \o PutText(g, c, "detail"))

encode_dependency_binding(f, d) ==
    PutU64(f, d, "policy_generation") \o PutU64(f, d, "topology_generation")
        \o PutU64(f, d, "failure_domain_generation") \o PutU64(f, d, "epoch")
        \o PutU8(f, d, "endpoint_exemption")
        \o PutList(f, d, "paths", PathBinding) \o PutList(f, d, "topology_entities", Entity)

(* encode_snapshot between the identity and the digest. *)
encode_body(s) ==
    PutId(At, s, "proof") \o PutU64(At, s, "generation")
        \o PutId(At, s, "policy") \o PutU64(At, s, "policy_generation")
        \o PutList(At, s, "paths", PathReference) \o PutU8(At, s, "outcome")
        \o encode_class_list(At, s) \o PutList(At, s, "conflicts", SharedResource_encode)
        \o write_witness(Append(At, "witness"), s.witness)
        \o encode_dependency_binding(Append(At, "dependencies"), s.dependencies)
        \o PutU8(At, s, "lifecycle") \o PutU8(At, s, "currentness")
        \o PutU64(Append(At, "provenance"), s.provenance, "epoch")
        \o PutId(Append(At, "provenance"), s.provenance, "publisher")
        \o PutId(Append(At, "provenance"), s.provenance, "boot")
        \o PutId(Append(At, "provenance"), s.provenance, "attempt")

(* snapshot_digest: every member but the identity, the digest itself, the     *)
(* topology entities, and of a class the total and the detail.  The hash is   *)
(* taken to be injective, so a digest is what it is computed from.            *)
Undigested(f) ==
    \/ f \in {Append(At, "id"), Append(At, "digest"),
              At \o <<"classes", "shared_total">>, At \o <<"classes", "detail">>}
    \/ Len(f) >= 3 /\ SubSeq(f, 2, 3) = <<"dependencies", "topology_entities">>
snapshot_digest_WithoutLifecycle(entries) ==
    SelectSeq(entries, LAMBDA e : ~Undigested(e[1]) /\ e[1] # Append(At, "lifecycle"))

snapshot_digest(entries) == SelectSeq(entries, LAMBDA e : ~Undigested(e[1]))

Entries(tokens) == [i \in DOMAIN tokens |-> <<tokens[i].field, tokens[i].value>>]

(* derived_snapshot_id: the identity is the digest, printed. *)
derived_snapshot_id(digest) == digest

(* capture_snapshot, ending in finalize_snapshot. *)
capture_snapshot(proof) ==
    LET copied == [proof |-> proof.id, generation |-> proof.generation,
                   policy |-> proof.request.policy,
                   policy_generation |-> proof.request.policy_generation,
                   paths |-> proof.request.paths, outcome |-> proof.outcome,
                   classes |-> proof.classes, conflicts |-> proof.conflicts,
                   witness |-> proof.witness, dependencies |-> proof.dependencies,
                   lifecycle |-> proof.lifecycle, currentness |-> proof.currentness,
                   provenance |-> proof.provenance]
        digest == snapshot_digest(Entries(encode_body(copied)))
    IN  [m \in DOMAIN copied \cup {"id", "digest"} |->
            CASE m = "id"     -> derived_snapshot_id(digest)
              [] m = "digest" -> digest
              [] OTHER        -> copied[m]]

encode_snapshot(f, s) == PutId(f, s, "id") \o encode_body(s) \o PutDigest(f, s, "digest")

-----------------------------------------------------------------------------
(* Decoding *)

(* decode_class_list: unlike read_class it compares no total and no claim. *)
decode_class_list(f) ==
    TakeList(f, "classes", max_required_classes,
        LET g == Append(f, "classes")
        IN  TakeEnums(g, <<"klass", "outcome">>) \o TakeBoolean(g, "evidence_complete")
            \o TakeList(g, "shared", max_conflicts_per_proof, read_conflict(Append(g, "shared")))
            \o TakeU64(g, "shared_total") \o TakeText(g, "detail", max_detail))

decode_dependency_binding(f) ==
    TakeU64(f, "policy_generation") \o TakeU64(f, "topology_generation")
        \o TakeU64(f, "failure_domain_generation") \o TakeU64(f, "epoch")
        \o TakeEnums(f, <<"endpoint_exemption">>)
        \o TakeList(f, "paths", max_paths_per_proof,
                    TakeId(Append(f, "paths"), "path") \o TakeU64(Append(f, "paths"), "generation"))
        \o TakeList(f, "topology_entities", max_topology_dependencies,
                    TakeEnums(Append(f, "topology_entities"), <<"kind">>)
                        \o TakeName(Append(f, "topology_entities"), "id"))

(* A path index of a snapshot is compared with its path count as it is taken. *)
KnownIndex(f, failure) == Take("varint", f) \o Check(f, "index known", <<>>, failure)

(* requested_k and achieved are cast to 32 bits without a check. *)
TakeNarrowed(f, m) == Take("narrowed", Append(f, m))

decode_snapshot(f) ==
    LET paths     == Append(f, "paths")
        conflicts == Append(f, "conflicts")
        witness   == Append(f, "witness")
        source    == Append(f, "provenance")
    IN  TakeId(f, "id") \o TakeId(f, "proof") \o TakeU64(f, "generation")
        \o TakeId(f, "policy") \o TakeU64(f, "policy_generation")
        \o TakeList(f, "paths", max_snapshot_paths,
                    TakeId(paths, "path") \o TakeU64(paths, "authority_generation"))
        \o TakeEnums(f, <<"outcome">>) \o decode_class_list(f)
        \o TakeList(f, "conflicts", max_conflicts_per_proof,
                    TakeEnums(conflicts, <<"kind", "relation">>) \o TakeName(conflicts, "id")
                    \o TakeList(conflicts, "paths", max_paths_per_proof,
                                KnownIndex(Append(conflicts, "paths"), "UNKNOWN_REFERENCE")))
        \o TakeBoolean(witness, "present") \o TakeNarrowed(witness, "requested_k")
        \o TakeNarrowed(witness, "achieved") \o TakeBoolean(witness, "maximum_exact")
        \o TakeList(witness, "indices", max_paths_per_proof,
                    KnownIndex(Append(witness, "indices"), "INVALID_WITNESS"))
        \o decode_dependency_binding(Append(f, "dependencies"))
        \o TakeEnums(f, <<"lifecycle", "currentness">>)
        \o TakeU64(source, "epoch") \o TakeId(source, "publisher") \o TakeId(source, "boot")
        \o TakeId(source, "attempt") \o TakeDigest(f, "digest")
        \o Check(f, "digest recomputed", <<>>, "INTERNAL_INCONSISTENCY")

(* After the digest the identity taken is replaced by the derived one, so one *)
(* that was altered has no effect.                                            *)
SnapshotPasses(out, c) ==
    CASE c.test = "index known" -> Latest(out, c.field) < SizeOf(out, Append(At, "paths"))
      [] c.test = "digest recomputed" ->
            snapshot_digest(Since(out, Append(At, "id"))) = Latest(out, Append(At, "digest"))
      [] OTHER -> RecordPasses(out, c)
-----------------------------------------------------------------------------
(* Diff.  An entry is its kind and its subject; how a value is printed before *)
(* and after is left out.  Paths are matched by identity, classes by class,   *)
(* conflicts by kind and identity.                                            *)

Entry(kind, subject) == <<[kind |-> kind, subject |-> subject]>>
Changed(left, right, m, kind) == IF left[m] = right[m] THEN <<>> ELSE Entry(kind, <<m>>)
FirstOf(s, Test(_)) ==
    LET found == SelectSeq(s, Test) IN IF found = <<>> THEN <<>> ELSE <<Head(found)>>
ForEach(s, Of(_)) == FlattenSeq([i \in DOMAIN s |-> Of(s[i])])

paths_diff(left, right) ==
    ForEach(right, LAMBDA r :
        LET known == FirstOf(left, LAMBDA l : l.path = r.path)
        IN  IF known = <<>> THEN Entry("PATH_ADDED", <<r.path>>)
            ELSE IF known[1].authority_generation = r.authority_generation THEN <<>>
            ELSE Entry("PATH_AUTHORITY_GENERATION_CHANGED", <<r.path>>))
    \o ForEach(left, LAMBDA l :
        IF l.path \in {r.path : r \in Range(right)} THEN <<>> ELSE Entry("PATH_REMOVED", <<l.path>>))

classes_diff(left, right) ==
    ForEach(left, LAMBDA before :
        ForEach(FirstOf(right, LAMBDA after : after.klass = before.klass), LAMBDA after :
            (IF before.evidence_complete = after.evidence_complete THEN <<>>
             ELSE Entry("EVIDENCE_COMPLETENESS_CHANGED", <<before.klass>>))
            \o (IF before.outcome = after.outcome THEN <<>>
                ELSE Entry("CLASS_RESULT_CHANGED", <<before.klass>>))))

conflicts_diff_AppearedOnly(left, right) ==
    LET Keys(s) == {<<c.kind, c.id>> : c \in Range(s)}
    IN  ForEach(right, LAMBDA c : IF <<c.kind, c.id>> \in Keys(left) THEN <<>>
                                  ELSE Entry("CONFLICT_APPEARED", <<c.kind, c.id>>))

conflicts_diff(left, right) ==
    LET Keys(s) == {<<c.kind, c.id>> : c \in Range(s)}
        Missing(s, keys, kind) ==
            ForEach(s, LAMBDA c : IF <<c.kind, c.id>> \in keys THEN <<>>
                                  ELSE Entry(kind, <<c.kind, c.id>>))
    IN  Missing(right, Keys(left), "CONFLICT_APPEARED")
            \o Missing(left, Keys(right), "CONFLICT_DISAPPEARED")

differences(left, right) ==
    Changed(left, right, "proof", "PROVENANCE_CHANGED")
        \o Changed(left, right, "generation", "PROOF_GENERATION_CHANGED")
        \o Changed(left, right, "policy", "POLICY_CHANGED")
        \o Changed(left, right, "policy_generation", "POLICY_GENERATION_CHANGED")
        \o paths_diff(left.paths, right.paths)
        \o Changed(left.dependencies, right.dependencies, "topology_generation",
                   "TOPOLOGY_GENERATION_CHANGED")
        \o Changed(left.dependencies, right.dependencies, "failure_domain_generation",
                   "FAILURE_DOMAIN_GENERATION_CHANGED")
        \o Changed(left.dependencies, right.dependencies, "epoch", "EPOCH_CHANGED")
        \o Changed(left, right, "outcome", "PROOF_RESULT_CHANGED")
        \o Changed(left, right, "currentness", "CURRENTNESS_CHANGED")
        \o Changed(left, right, "lifecycle", "LIFECYCLE_CHANGED")
        \o classes_diff(left.classes, right.classes)
        \o conflicts_diff(left.conflicts, right.conflicts)
        \o Changed(left, right, "witness", "WITNESS_CHANGED")
        \o Changed(left, right, "provenance", "PROVENANCE_CHANGED")

(* push_entry counts every difference and keeps the first max_diff_entries. *)
diff_snapshots(left, right) ==
    LET all == differences(left, right)
    IN  [left |-> left.id, right |-> right.id,
         entries |-> SubSeq(all, 1, Min({Len(all), max_diff_entries})),
         entries_total |-> Len(all), truncated |-> Len(all) > max_diff_entries]
=============================================================================
