------------------------------ MODULE Decoding ------------------------------
(* Proofs evolve under the runtime, are captured, saved and sent; a decoder   *)
(* reads the document back, value by value.  Between the writer and the       *)
(* reader one thing may have happened to the document: it ends early, it goes *)
(* on after its end, or one value is another one (a store whose trailer was   *)
(* recomputed over it, or a payload of another program).                      *)
EXTENDS PayloadCodec, Lifecycle, FiniteSets

CONSTANTS
    Requests,           \* the proof requests: policy, generation, paths
    proof_identity(_),  \* the identity derived from a request, a hash taken to be injective
    Evaluations(_),     \* what evaluate_diversity may return for a request
    Policies,           \* the policies the registry may hold
    MaxGeneration,      \* bound: revisions of a proof
    MaxFaulty,          \* bound: the revision up to which documents suffer faults
    MaxValue            \* bound: the numbers put in the place of others

VARIABLES
    proof,              \* the current revision of the proof last committed
    history,            \* the revisions it replaced, oldest first
    snapshots,          \* the latest captures, oldest first
    phase,              \* "live", "reading" or "closed"
    document,           \* what is read: its kind, its values, whether it Fits, whether
                        \* something may happen to it
    fault,              \* what happened to it: kind, position, value
    position,           \* values taken
    todo,               \* items the decoder has yet to work off
    out,                \* <<member, value>>, as taken
    status,             \* ByteReader::status
    failure             \* DecodeFailure::status

live   == <<proof, history, snapshots>>
reader == <<position, todo, out, status, failure>>
vars   == <<live, phase, document, fault, reader>>

None == [kind |-> "none"]

(* The members that are vectors, and those that are optional. *)
IsList(s) == Len(s) \in Nat /\ s = [i \in 1..Len(s) |-> s[i]]
SharedResources(s) == IsList(s) /\ \A i \in DOMAIN s : IsList(s[i].paths)
ClassResults(s) == IsList(s) /\ \A i \in DOMAIN s : SharedResources(s[i].shared)
Cells(s) ==
    /\ IsList(s)
    /\ \A i \in DOMAIN s : /\ ClassResults(s[i].classes)
                           /\ SharedResources(s[i].primary_conflict)
                           /\ Len(s[i].primary_conflict) <= 1
Evaluated(e) ==
    /\ IsList(e.limit) /\ Len(e.limit) <= 1
    /\ ClassResults(e.classes) /\ ClassResults(e.advisories) /\ SharedResources(e.conflicts)
    /\ IsList(e.matrix.order) /\ Cells(e.matrix.cells) /\ IsList(e.witness.indices)
    /\ IsList(e.dependencies.paths) /\ IsList(e.dependencies.topology_entities)

ASSUME EvaluationsAssumption ==
    \A request \in Requests :
        IsList(request.paths) /\ \A e \in Evaluations(request) : Evaluated(e)
ASSUME HistoryAssumption == max_history \in Nat \ {0}
ASSUME PoliciesAssumption ==
    \A policy \in Policies :
        IsList(policy.required_classes) /\ IsList(policy.allowed_failure_domain_relations)

-----------------------------------------------------------------------------
(* The runtime *)

(* The revision a commit stores for evaluation e of a request. *)
Revision(request, e, generation) ==
    [id |-> proof_identity(request), generation |-> generation, request |-> request,
     request_digest |-> <<"request">>, semantic_digest |-> <<"semantic">>,
     outcome |-> e.outcome, detail |-> e.detail, limit |-> e.limit, classes |-> e.classes,
     advisories |-> e.advisories, conflicts |-> e.conflicts,
     conflicts_total |-> e.conflicts_total, matrix |-> e.matrix, witness |-> e.witness,
     dependencies |-> e.dependencies,
     provenance |-> [epoch |-> 1, publisher |-> "publisher", boot |-> "boot",
                     attempt |-> "attempt"],
     lifecycle |-> LifecycleForOutcome(e.outcome),
     currentness |-> CurrentnessForOutcome(e.outcome)]

Kept(s) == IF Len(s) >= max_history THEN Tail(s) ELSE s

Init ==
    /\ \E request \in Requests : \E e \in Evaluations(request) :
           proof = Revision(request, e, 1)
    /\ history = <<>>
    /\ snapshots = <<capture_snapshot(proof)>>
    /\ phase = "live"
    /\ document = None /\ fault = None
    /\ position = 0 /\ todo = <<>> /\ out = <<>>
    /\ status = "OK" /\ failure = Unclassified

(* commit of a later evaluation of the proof *)
Commit ==
    /\ phase = "live" /\ proof.generation < MaxGeneration
    /\ \E e \in Evaluations(proof.request) :
           proof' = Revision(proof.request, e, proof.generation + 1)
    /\ history' = Append(Kept(history), proof)
    /\ snapshots' = Append(Kept(snapshots), capture_snapshot(proof'))
    /\ UNCHANGED <<phase, document, fault, reader>>

(* commit of the first evaluation of another proof *)
CommitAnother ==
    /\ phase = "live"
    /\ \E request \in Requests \ {proof.request} : \E e \in Evaluations(request) :
           proof' = Revision(request, e, 1)
    /\ history' = <<>>
    /\ snapshots' = Append(Kept(snapshots), capture_snapshot(proof'))
    /\ UNCHANGED <<phase, document, fault, reader>>

(* A demotion changes the current revision in place and captures nothing. *)
Demote ==
    /\ phase = "live" /\ proof.lifecycle = "CURRENT"
    /\ proof' = [proof EXCEPT !.lifecycle = "REVALIDATION_REQUIRED",
                              !.currentness = "STALE_TOPOLOGY", !.detail = 1]
    /\ UNCHANGED <<history, snapshots, phase, document, fault, reader>>

-----------------------------------------------------------------------------
(* What is written, and the decoder that will read it *)

(* A revision that evaluate_diversity rejected has no matrix and binds no     *)
(* generations: decode_proof refuses it.  The other bounds are those on which *)
(* writers and decoders disagree.                                             *)
Fits(contents) ==
    /\ \A p \in contents.proofs : p.matrix.order # <<>>
    /\ \A p \in contents.proofs :
           /\ Len(p.advisories) <= max_required_classes
           /\ Len(p.request.paths) <= max_snapshot_paths
    /\ \A p \in contents.policies : p.description <= max_detail

Open(kind, tokens, items, contents) ==
    /\ phase' = "reading"
    /\ document' = [kind |-> kind, input |-> tokens, fits |-> Fits(contents),
                     exposed |-> proof.generation <= MaxFaulty]
    /\ proof' = None /\ history' = <<>> /\ snapshots' = <<>>
    /\ todo' = items
    /\ UNCHANGED <<fault, position, out, status, failure>>

(* save: the current revisions, what they replaced and the last captures.     *)
(* Sessions and attempts are written by callers of encode_store only.         *)
Save ==
    /\ phase = "live"
    /\ \E policy \in Policies, exported \in BOOLEAN :
           Open("store",
                encode_store(
                    [epoch |-> 1, policies |-> <<policy>>, proofs |-> <<proof>>,
                     sessions |-> IF exported THEN <<[publisher |-> "publisher", boot |-> "boot",
                                        epoch |-> 1, scope |-> "scope", fenced |-> TRUE]>> ELSE <<>>,
                     fenced_boots |-> <<"old boot">>,
                     attempts |-> IF exported THEN <<[attempt |-> "attempt", payload |-> <<"payload">>,
                                        proof |-> proof.id]>> ELSE <<>>,
                     history |-> IF history = <<>> THEN <<>>
                                 ELSE <<[proof |-> proof.id, revisions |-> history]>>,
                     snapshots |-> <<Last(snapshots)>>]),
                decode_store(<<>>),
                [proofs |-> {proof} \cup Range(history), policies |-> {policy}])

(* The reply to a mutation carries the revision. *)
Reply ==
    /\ phase = "live"
    /\ Open("mutation_result",
            encode_mutation_result([status |-> "APPLIED", detail |-> 1, proof |-> <<proof>>]),
            decode_mutation_result(<<>>), [proofs |-> {proof}, policies |-> {}])

Authority == [epoch |-> 1, publisher |-> "publisher", boot |-> "boot", scope |-> "scope",
              attempt |-> "attempt", expected_policy_generation |-> 0,
              expected_proof_generation |-> proof.generation]

(* The payloads that carry no proof. *)
Send ==
    /\ phase = "live"
    /\ LET nothing == [proofs |-> {}, policies |-> {}]
       IN  \/ Open("hello", encode_hello([publisher |-> "publisher", boot |-> "boot", epoch |-> 1,
                                          scope |-> "scope"]), decode_hello(<<>>), nothing)
           \/ \E policy \in Policies :
                  Open("publish_policy",
                       encode_publish_policy([authority |-> Authority, policy |-> policy]),
                       decode_publish_policy(<<>>), [proofs |-> {}, policies |-> {policy}])
           \/ Open("publish_proof",
                   encode_publish_proof([authority |-> Authority, request |-> proof.request]),
                   decode_publish_proof(<<>>), nothing)
           \/ Open("revalidate", encode_revalidate([authority |-> Authority, proof |-> proof.id]),
                   decode_revalidate(<<>>), nothing)
           \/ Open("query", encode_query([selector |-> 0, path |-> <<"path">>, domain |-> <<>>,
                                          policy |-> <<>>, entity_kind |-> "LINK",
                                          entity_id |-> "entity"]), decode_query(<<>>), nothing)
           \/ Open("query_result", encode_query_result([proofs |-> <<proof.id>>, truncated |-> TRUE,
                                                        total |-> 2]), decode_query_result(<<>>), nothing)
           \/ Open("error", encode_error([status |-> "MALFORMED_PAYLOAD", detail |-> 1]),
                   decode_error(<<>>), nothing)

(* A store file whose header is refused before a value is taken. *)
OpenRefused ==
    /\ phase = "live"
    /\ \E file \in [size : {0, FixedBytes - 1, FixedBytes, max_store_bytes + 1},
                    magic : BOOLEAN, sealed : BOOLEAN, version : BOOLEAN] :
           /\ header_status(file) # "OK"
           /\ document' = [kind |-> "file", input |-> <<>>, fits |-> FALSE, exposed |-> FALSE]
           /\ status' = "INVALID_ENCODING" /\ failure' = header_status(file)
    /\ phase' = "closed"
    /\ proof' = None /\ history' = <<>> /\ snapshots' = <<>>
    /\ UNCHANGED <<fault, position, todo, out>>
-----------------------------------------------------------------------------
(* What may have happened to the document.  A size becomes one larger or      *)
(* larger than every bound, never smaller.                                    *)

OtherValues(token) ==
    LET member == Last(token.field)
        Not(S) == S \ {token.value}
    IN  CASE member = "size"    -> {token.value + 1, MaxValue + 1}
          [] token.as = "u8"    ->
                {UNDEFINED} \cup (CASE member = "outcome"   -> Not({"PROVEN_DIVERSE", "NOT_DIVERSE"})
                                    [] member = "lifecycle" -> Not({"CURRENT", "REVOKED"})
                                    [] OTHER                -> {})
          [] token.as = "byte"    -> {6}
          [] token.as = "boolean" -> IF member = "present" THEN {2} ELSE Not({0, 1, 2})
          [] token.as = "varint"  -> Not(0..MaxValue) \cup {token.value + U32}
          [] token.as = "u64"     -> Not({0, MaxValue})
          [] token.as = "name"    -> {MALFORMED, "another"}
          [] token.as = "text"    -> {max_persistence_record_bytes}
          [] token.as = "bytes"   -> {<<>>}

Taking == phase = "reading" /\ todo # <<>> /\ Head(todo).take # "check"

Ends(at) == at = Len(document.input) \/ (fault.kind = "cut" /\ fault.at = at)

Alter ==
    /\ Taking /\ document.exposed /\ fault = None /\ ~Ends(position)
    /\ \E v \in OtherValues(document.input[position + 1]) :
           fault' = [kind |-> "altered", at |-> position + 1, value |-> v]
    /\ UNCHANGED <<live, phase, document, reader>>

Cut ==
    /\ Taking /\ document.exposed /\ fault = None /\ ~Ends(position)
    /\ fault' = [kind |-> "cut", at |-> position]
    /\ UNCHANGED <<live, phase, document, reader>>

Lengthen ==
    /\ phase = "reading" /\ document.exposed /\ fault = None /\ todo = <<>>
    /\ fault' = [kind |-> "longer", at |-> position]
    /\ UNCHANGED <<live, phase, document, reader>>

-----------------------------------------------------------------------------
(* ByteReader and the decoders on top of it *)

ValueAt(i) == IF fault.kind = "altered" /\ fault.at = i THEN fault.value
              ELSE document.input[i].value

(* The primitive that wrote what an item takes. *)
Primitive(take) == CASE take \in {"size", "narrowed"} -> "varint"
                     [] take = "presence" -> "boolean"
                     [] OTHER -> take

Aligned(takes) ==
    /\ Taking /\ Head(todo).take \in takes /\ ~Ends(position)
    /\ document.input[position + 1].as = Primitive(Head(todo).take)

Refuse(s, c) ==
    /\ status' = s /\ failure' = c /\ phase' = "closed"
    /\ UNCHANGED <<live, document, fault, position, todo, out>>

Taken(value, next) ==
    /\ position' = position + 1
    /\ out' = Append(out, <<Head(todo).field, value>>)
    /\ todo' = next \o Tail(todo)
    /\ UNCHANGED <<live, phase, document, fault, status, failure>>

TakeValue ==
    /\ Aligned({"u8", "byte", "u64", "varint", "name", "bytes"})
    /\ Taken(ValueAt(position + 1), <<>>)

TakeNarrowedValue ==
    /\ Aligned({"narrowed"})
    /\ Taken(ValueAt(position + 1) % U32, <<>>)

TakeTextValue ==
    /\ Aligned({"text"})
    /\ \/ ValueAt(position + 1) <= Head(todo).bound /\ Taken(ValueAt(position + 1), <<>>)
       \/ ValueAt(position + 1) > Head(todo).bound /\ Refuse("LIMIT_EXCEEDED", Unclassified)

TakeFlagValue ==
    /\ Aligned({"boolean"})
    /\ \/ ValueAt(position + 1) <= 1 /\ Taken(ValueAt(position + 1), <<>>)
       \/ ValueAt(position + 1) > 1 /\ Refuse("INVALID_ENCODING", Head(todo).failure)

TakePresence ==
    /\ Aligned({"presence"})
    /\ \/ ValueAt(position + 1) = 0 /\ Taken(0, <<>>)
       \/ ValueAt(position + 1) = 1 /\ Taken(1, Head(todo).items)
       \/ ValueAt(position + 1) > 1 /\ Refuse("INVALID_ENCODING", Unclassified)

TakeSize ==
    /\ Aligned({"size"})
    /\ \E size \in {ValueAt(position + 1)} :
           \/ /\ size <= Head(todo).bound
              /\ Taken(size, Head(todo).after
                                 \o FlattenSeq([i \in 1..size |-> Head(todo).items]))
           \/ /\ size > Head(todo).bound
              /\ IF Head(todo).failure = Unclassified THEN Refuse("LIMIT_EXCEEDED", Unclassified)
                 ELSE Refuse("INVALID_ENCODING", Head(todo).failure)

RunCheck ==
    /\ phase = "reading" /\ todo # <<>> /\ Head(todo).take = "check"
    /\ \/ /\ PayloadPasses(out, Head(todo))
          /\ todo' = Tail(todo)
          /\ UNCHANGED <<live, phase, document, fault, position, out, status, failure>>
       \/ /\ ~PayloadPasses(out, Head(todo))
          /\ Refuse("INVALID_ENCODING", Head(todo).failure)

(* The stream ends before a value, or inside the content of a text. *)
RunOut ==
    /\ Taking /\ Ends(position)
    /\ \/ Refuse("TRUNCATED", Unclassified)
       \/ Head(todo).take \in {"name", "text", "bytes"} /\ Refuse("LENGTH_OVERRUN", Unclassified)

(* After a size that is not the number of elements the bytes are read as      *)
(* something they are not; such a reading is not followed.                    *)
Misaligned ==
    /\ Taking /\ ~Ends(position)
    /\ document.input[position + 1].as # Primitive(Head(todo).take)
    /\ Refuse("MISALIGNED", Unclassified)

Finish_WithoutAtEnd ==
    /\ phase = "reading" /\ todo = <<>>
    /\ phase' = "closed"
    /\ UNCHANGED <<live, document, fault, reader>>

(* decode_store and every caller of a payload decoder end with at_end. *)
Finish ==
    /\ phase = "reading" /\ todo = <<>>
    /\ \/ /\ position = Len(document.input) /\ fault.kind # "longer"
          /\ phase' = "closed"
          /\ UNCHANGED <<live, document, fault, reader>>
       \/ /\ position < Len(document.input) \/ fault.kind = "longer"
          /\ Refuse("TRAILING_BYTES", Unclassified)

Closed == phase = "closed" /\ UNCHANGED vars

Next ==
    \/ Commit \/ CommitAnother \/ Demote
    \/ Save \/ Reply \/ Send \/ OpenRefused
    \/ Alter \/ Cut \/ Lengthen
    \/ TakeValue \/ TakeNarrowedValue \/ TakeTextValue \/ TakeFlagValue \/ TakePresence \/ TakeSize
    \/ RunCheck \/ RunOut \/ Misaligned \/ Finish \/ Closed

Spec == Init /\ [][Next]_vars

-----------------------------------------------------------------------------
(* Properties *)

Accepted == phase = "closed" /\ status = "OK"

(* The decoders follow the writers: as long as nothing happened to a          *)
(* document, every value is taken for the member it was written from, and a   *)
(* decoder that refuses it does so for a bound or a check, never because it   *)
(* wants another value than the next one, wants one after the last or leaves  *)
(* one.  The encoders and decoders of persistence_records.cpp,                *)
(* persistence_store.cpp and wire.cpp agree on every member and its order.    *)
ReadAsWritten ==
    fault = None /\ phase # "live" =>
        /\ \A i \in DOMAIN out : out[i][1] = document.input[i].field
        /\ status \notin {"MISALIGNED", "TRUNCATED", "LENGTH_OVERRUN", "TRAILING_BYTES"}

(* Reading is the inverse of writing: no bound and no check refuses a         *)
(* document whose records Fit and to which nothing happened, and the decoder  *)
(* ends exactly where the writer did.  The bounds and checks of               *)
(* persistence_records.cpp, persistence_store.cpp and wire.cpp hold of        *)
(* whatever the runtime commits, demotes and captures.                        *)
ReadBack ==
    fault = None /\ phase # "live" /\ document.kind # "file" /\ document.fits =>
        status = "OK" /\ (phase = "closed" => position = Len(document.input))

(* Nothing is accepted in part: a document that ends early or goes on after   *)
(* its end is never accepted, what is accepted was taken to the last value,   *)
(* and every value of it is the one the writer put there, apart from the      *)
(* altered one and from numbers cast to 32 bits; a store that ends early is   *)
(* reported as TRUNCATED wherever it ends.  ByteReader, at_end and            *)
(* persistence_status_for.                                                    *)
AcceptedInFull ==
    /\ Accepted =>
           /\ fault.kind \notin {"cut", "longer"}
           /\ Len(out) = Len(document.input)
           /\ \A i \in DOMAIN out :
                  \/ fault.kind = "altered" /\ fault.at = i
                  \/ out[i][2] = document.input[i].value
                  \/ document.input[i].as = "varint" /\ out[i][2] = document.input[i].value % U32
    /\ phase = "closed" /\ document.kind = "store" /\ fault.kind = "cut" =>
           persistence_status_for(status, failure) = "TRUNCATED"

(* The records of a document under path f, each from its identity on. *)
RecordsAt(f) ==
    LET starts == {i \in DOMAIN out : out[i][1] = Append(f, "id")}
    IN  {SubSeq(out, i, Min({j - 1 : j \in {k \in starts : k > i}} \cup {Len(out)})) : i \in starts}

SoundProof(p, f) ==
    LET n == Len(PathsOf(p, f))
        named == ValuesOf(p, f \o <<"witness", "indices">>)
        cells == Latest(p, f \o <<"matrix", "cells", "size">>)
    IN  /\ Cardinality(Range(PathsOf(p, f))) = n
        /\ cells = Cardinality({c \in (1..n) \X (1..n) : c[1] < c[2]})
        /\ \A g \in IndexLists(f) : \A i \in Range(ValuesOf(p, g)) : i < n
        /\ Range(named) \subseteq 0..(n - 1)
        /\ Latest(p, f \o <<"witness", "achieved">>) <= Cardinality(Range(named))
        /\ \A g \in {f \o <<"classes">>, f \o <<"advisories">>, f \o <<"matrix", "cells", "classes">>} :
               \A i \in DOMAIN ValuesOf(p, Append(g, "outcome")) :
                   ValuesOf(p, Append(g, "outcome"))[i] = "PROVEN_DIVERSE" =>
                       ValuesOf(p, Append(g, "evidence_complete"))[i] = 1
        /\ Latest(p, Append(f, "outcome")) = "PROVEN_DIVERSE" =>
               /\ \A i \in Range(ValuesOf(p, f \o <<"classes", "evidence_complete">>)) : i = 1
               /\ ValuesOf(p, f \o <<"conflicts", "id">>) = <<>>
        /\ Latest(p, Append(f, "lifecycle")) = "CURRENT" =>
               \A m \in {"policy_generation", "topology_generation", "failure_domain_generation",
                         "epoch"} : Latest(p, f \o <<"dependencies", m>>) > 0

(* Whichever value of a document is another one, what a decoder accepts can   *)
(* be used: the paths of a proof are distinct and its matrix has a cell for   *)
(* every pair, every index that names a path names one (those of the          *)
(* advisories apart, which are not compared), the witness is not smaller than *)
(* what it claims, a claim of proven diversity rests on complete evidence,    *)
(* and a current revision binds every generation; a snapshot's conflicts and  *)
(* witness name its paths.                                                    *)
AcceptedIsSound ==
    Accepted =>
        /\ \A f \in {<<"proof">>, <<"proofs">>, <<"history", "revisions">>} :
               \A p \in RecordsAt(f) : SoundProof(p, f)
        /\ \A s \in RecordsAt(At) :
               \A g \in {At \o <<"conflicts", "paths">>, At \o <<"witness", "indices">>} :
                   \A i \in Range(ValuesOf(s, g)) : i < SizeOf(s, Append(At, "paths"))

(* A stored snapshot is what was captured: a store in which one value of a    *)
(* snapshot is another one is accepted only if the value is one the digest    *)
(* does not cover, or is the same again once cast to 32 bits.                 *)
SnapshotIsWhatWasCaptured ==
    Accepted /\ fault.kind = "altered" /\ document.input[fault.at].field[1] = "snapshots" =>
        \/ Undigested(document.input[fault.at].field)
        \/ out[fault.at][2] = document.input[fault.at].value

Swapped(kind) ==
    CASE kind = "PATH_ADDED" -> "PATH_REMOVED" [] kind = "PATH_REMOVED" -> "PATH_ADDED"
      [] kind = "CONFLICT_APPEARED" -> "CONFLICT_DISAPPEARED"
      [] kind = "CONFLICT_DISAPPEARED" -> "CONFLICT_APPEARED"
      [] OTHER -> kind

(* Two captures have different identities exactly when their diff has         *)
(* something to say, whatever was committed or demoted between them, and the  *)
(* diff says the same from the other side.                                    *)
DiffIsFaithful ==
    \A i, j \in DOMAIN snapshots :
        LET l == snapshots[i]
            r == snapshots[j]
            d == diff_snapshots(l, r)
        IN  /\ (l.id = r.id) = (d.entries = <<>>)
            /\ Range(differences(r, l)) =
                   {[e EXCEPT !.kind = Swapped(e.kind)] : e \in Range(differences(l, r))}
=============================================================================
