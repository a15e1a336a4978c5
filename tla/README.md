# Path Diversity Fabric in TLA+

A verification project for the Path Diversity Fabric library (`src/`): TLA+
modules translated from its C++ source, TLC configurations that check them on
small instances, and theorems that TLAPS checks for every instance.

The library decides whether a set of network paths is *diverse* (shares no link,
node, failure domain, ...) under a policy, keeps the answer as a versioned
*proof*, demotes proofs when what they rest on moves, and lets worker processes
publish through a coordinator that fences the ones that are gone.

## 1. Inventory

| Part | State | Operations | Interacts with |
|---|---|---|---|
| Publication authority (`authority.cpp`) | epoch, sessions by boot, fence list, tracked attempts | `restore_epoch`, `register_publisher`, `fence_boot`, `validate`, `admit`, `forget_attempt` | called by the runtime, with its own mutex |
| Lifecycle (`lifecycle.cpp`) | none | transition table, currentness of an outcome | the runtime |
| Diversity runtime (`runtime.cpp`, `runtime_ops.cpp`) | policies, proofs with history and snapshots, eight reverse indexes | `publish_policy`, `evaluate`, `evaluate_batch`, `revalidate`, `revoke`/`retire`/`mark_historical`/`supersede`, nine `demote_*` calls, `fence_boot`, `refresh_currentness`, queries | reads three evidence views without holding its mutex; calls the authority |
| Evaluator (`evaluate_pair.cpp`, `evaluate_set.cpp`, `evaluate_graph.cpp`) | none | classify each pair and class, aggregate, exact K-path search | called by phase 2 of `evaluate` |
| Coordinator (`distributed.cpp`) | listening socket, list of open sockets, counters, list of fenced boots; one thread per connection with its boot; the store path | `start`, accept loop, `stop`, `wait_for_fenced_workers`; HELLO, PUBLISH_POLICY, PUBLISH_PROOF, REVALIDATE, QUERY, FENCE, PING frames; disconnect; `persist` | calls the runtime from many threads |
| Durable store (`runtime_store.cpp`, `persistence_*.cpp`) | one file | `save`, `load`, atomic replacement, decoding that refuses | copies the runtime under its mutex, writes without it |
| Client (`distributed.cpp`) | socket, assembler | `connect`, `close`, seven calls that send one frame and wait for one | a connection's thread at the coordinator |
| Wire (`wire.cpp`) | assembler buffer, offset, sticky status | `append`, `next`, `encode_frame`; payload codecs | both ends of a connection |
| Codecs (`canonical.cpp`, `persistence_records.cpp`, `persistence_store.cpp`, second half of `wire.cpp`) | reader position and sticky status | an encoder and a decoder per record, section and payload | the store and both ends of a connection |
| Snapshots and diffs (`snapshot.cpp`) | none | capture, digest, diff | the runtime captures at every commit; the store keeps the last capture |
| Explanations, digests | none | pure functions | views of the runtime |

What is hard in this code: the evidence moves, boots are fenced and policies are
published while an evaluation is outside the runtime's mutex; `fence_boot` and
`refresh_currentness` are several critical sections; attempts are retried while
their first call still runs; saves of several connections race and the process
may be killed between any two of them; threads, sockets and reused handles race
with `stop`; encoders and decoders are separate code with separate bounds; and
the evaluator must be right about what it does *not* know. `PROJECT.json` lists each of these under `hazards`, at
its line, with the properties that would catch it going wrong.

What makes each part correct:

* authority: at most one boot acts for a publisher, a fence is for ever, the
  epoch only grows, an attempt keeps its payload, tables stay within limits;
* runtime: a current proof is found by every index that may have to demote it,
  nothing of a fenced boot or a superseded policy stays or becomes current, a
  demoted revision never revives, an attempt commits once, history is ordered,
  a withdrawn path is eventually noticed;
* evaluator: PROVEN and NOT_DIVERSE hold in every fabric the evidence may be a
  part of (PROVEN with one exception, section 3), an open answer is given only
  where evidence is missing, the witness is exact;
* coordinator and store: what is on disk is one consistent state, never ahead
  of the process that serves it; what was written is read back, and what is
  accepted is a proof the rest of the program can use;
* coordinator threads: connections stay within the limit, a departed worker is
  fenced, `stop` ends and leaves nothing behind;
* snapshots: a stored capture is the one that was made, a diff hides no change;
* wire and client: frames are handled once and in order however the stream is
  cut, a request returns its own reply or fails, an end refuses a frame only for
  its limits.

## 2. Plan

Order of work, most important behaviour first. Steps 1 to 7 and 9 are done.

1. `PublicationAuthority` with its abstract `PublisherIncarnations`, proofs.
2. `DiversityRuntime` over it: fencing, invalidation, lifecycle, refresh; type
   and safety proofs.
3. `Coordinator` over the runtime: frames, saves, kills, restarts.
4. `PairEvaluation` and `SetEvaluation`: the decision, against a reference
   definition of diversity; soundness proofs.
5. `FrameAssembler` under arbitrary chunking, and `WireSession`, the client's
   request loop against a connection's thread, with its liveness.
6. `CoordinatorThreads`: start, the accept loop, the end of a connection, the
   reported list of fenced boots and the orderly stop.
7. `ByteStream`, `RecordCodec`, `Snapshots`, `StoreCodec`, `PayloadCodec` and,
   over them, `Decoding`: what is written is read back, what is altered is
   refused or harmless.
8. Evaluator lists: bounded conflict lists, totals, primary conflict and the
   truncation of consulted domains that feeds the reverse index.
9. Proofs: `RevisionsOrdered` and `AttemptNeverRebound`; the coordinator's
   threads; the store across kills and restarts; the search of the evaluator and
   every property of its outcome; the wire under every chunking; the agreement of
   encoders and decoders.

## 3. Modules

| Module | Models | State and actions |
|---|---|---|
| `PublicationAuthority` | `authority.cpp` | `epoch`, `sessions`, `fenced`, `attempts`; one action per mutating call, `ValidateStatus` and `AdmitStatus` give the status the code returns |
| `PublisherIncarnations` | what the authority promises | a publisher's incarnations: waiting, acting, fenced |
| `PublicationAuthorityRefinement` | the mapping between the two | a boot acts if it has an unfenced session |
| `Lifecycle` | `lifecycle.cpp` and the outcomes | pure |
| `DiversityRuntime` | `runtime.cpp`, `runtime_ops.cpp` | the stores, the seven indexes that are read, the calls in progress; one step per critical section |
| `Coordinator` | `distributed.cpp`, `runtime_store.cpp`, store codec | `status`, `connections`, `store`; one step per frame, per save stage, per reply |
| `PairEvaluation` | `evaluate_pair.cpp`, `domain.cpp` | `ClassOutcome` of two paths and a class; the reference `ReallyShare` |
| `SetEvaluation` | `evaluate_set.cpp`, `evaluate_graph.cpp` | one step from a request with its evidence to the outcome and the witness |
| `FrameAssembler` | `wire.cpp`, frames | `append`, `next` and the decoders as operators on an assembler |
| `WireSession` | `distributed.cpp`, client and `serve` | the client's socket, request and assembler, a stream each way, a thread per connection; one step per `recv`, per frame, per end that goes |
| `CoordinatorThreads` | `distributed.cpp`, `start`, accept loop, `serve`, `stop` | the threads' places, the listed sockets, the handles of the operating system and who owns them, the fenced boots; one step per system call or critical section |
| `ByteStream` | `canonical.cpp` | the writer's primitives as tokens, the reader's as items a decoder has yet to take |
| `RecordCodec` | `persistence_records.cpp` | each encoder as a sequence of tokens, each decoder as a sequence of items and checks |
| `Snapshots` | `snapshot.cpp`, snapshot section of `persistence_store.cpp` | capture, digest, codec and diff |
| `StoreCodec` | `persistence_store.cpp` | header, sections, classification of refusals |
| `PayloadCodec` | `wire.cpp`, payloads | an encoder and a decoder per message |
| `Decoding` | the runtime that writes and the reader that reads | the proof with its history and captures, the document, what happened to it, the reader; one step per value taken or check made |
| `MC...` | | constants for TLC |
| `PublicationAuthorityProofs`, `DiversityRuntimeProofs`, `DiversityRuntimeSafetyProofs`, `CoordinatorProofs`, `CoordinatorThreadsProofs`, `SetEvaluationProofs`, `WireSessionProofs`, `DecodingProofs` | | theorems, lemmas and the inductive invariants they need (section 5) |

`DiversityRuntime` EXTENDS `PublicationAuthority`, `Coordinator` EXTENDS
`DiversityRuntime`, `SetEvaluation` EXTENDS `PairEvaluation`, and the codec
modules are a chain from `ByteStream` to `Decoding`: the composed modules use the
actions and operators of the parts, not copies of them.

### How the runtime corresponds to the code

`evaluate` has four stretches. *Enter* runs under the lock (admit, policy
check). Phase 2 runs without it: *Observe* reads the watermark and the bindings,
*Judge* the evidence, *Recheck* compares the watermark again. Phase 3 retakes
the lock and is *CommitRefused*, *CommitConflict*, *CommitUnchanged* or
*CommitRevision*. `revalidate` reads the record, drops the lock and calls
`evaluate`; `fence_boot` is *FenceBootBegin* and *FenceBootDemote*;
`refresh_currentness` is a begin, one step per question, and an apply.

Reductions, and why they are sound:

* *Observe*, *Judge* and *Recheck* read several views in one step each. The
  generations only grow, and an authorization that is withdrawn returns only
  with a new generation, so a mix of answers the code could get is either seen
  as drift or equal to one the step allows.
* phase 3 asks the authority twice (epoch, fence). The authority only moves one
  way, so the commit is placed at the check.
* `admit` and the `forget_attempt` that undoes it happen under the runtime's
  mutex and are one step where no other caller can see between them.
* *Refresh* reads policies, paths and proofs in any order: more orders than the
  code has.
* `evaluate_batch` is a sequence of `evaluate` calls with derived attempts.
* `by_risk_group` is never read, so it is not kept.
* a request stands for the digest that names its proof, a policy content for
  its digest; class results, matrices, details and statistics are not kept.

### How the coordinator corresponds to the code

A connection's thread handles one frame at a time: the call, `save`'s copy under
the lock, the rename, the reply are four steps. A kill may come anywhere. The
start sequence (load, next epoch, save, serve) is the one of the program in
`src/tests/pd_test_distributed.cpp`, the only one in the repository. Temporary
files have unique names, so a failed or killed write leaves the store as it was.
QUERY, PING and frames that do not decode change nothing and are left out.

`CoordinatorThreads` is the same coordinator seen from its threads. The thread
that calls `start` and `stop`, the accept thread and one thread per connection
take a step per system call or critical section; the list and the counters
change under `worker_mutex`, the fence of the runtime after it is released. A
handle is a number that the system may give out again once it is closed, which
is why `serve`'s close *before* the erase matters: `Erase` takes every entry with
that number off the list, and `forgotten` remembers the connections that lost
theirs. Closing a socket ends the calls blocked on it on Winsock and does not on
POSIX; `platform` is chosen once and both are explored. Of the runtime only the
set of fenced boots is kept, since nothing else the threads do depends on it. A
loop's look at `running` and the call it then blocks in are one step.

### How the evaluator corresponds to the code

The input is a policy (mode, required classes, K, completeness), per path what
the structure view says (COMPLETE or not, nodes, links, endpoint roles) and what
the failure-domain view says of each entity. Two incomplete grades, PARTIAL and
ABSENT, are one value: the code treats them alike. The *reference* is a set of
fabrics the evidence may be a part of: complete evidence shows everything,
incomplete evidence a subset. `ProvenIsSound` and `NotDiverseIsSound` quantify
over those fabrics, so they say what the verdict means, not how it is computed.
The code keeps `ProvenIsSound` with one exception: the classes that ask the
failure-domain registry do not read the coverage of the composition itself
(`evaluate_pair.cpp:317`), so paths of which only some links are known are
PROVEN_DIVERSE by the racks of those. `ProvenIsSoundOfKnownPaths` excepts these
pairs (`WhollyKnown`) and nothing else, and the run `EvaluationPartialPaths`
shows the exception.
The fabrics considered give one entity one role on a path (`OneRole`), as
endpoint exemption presupposes, and so do the compositions a call is made with
(`RolesAssumption`; `domain.hpp:108` defines a transit node as one that is
neither source nor destination, and a path that ends where it starts is not
considered: nothing in the code refuses one, and the exemption of shared sources
would also forgive the node as a destination). `mis_exhaustive` counts masks upwards: `Mask` is
the number whose bits are the subset, by doubling.

### How the wire corresponds to the code

A byte is its frame and its position in the frame, so bytes read from the wrong
place are recognised, which is what magic and integrity value are for. A stream
delivers what was sent, in order, in chunks of any size up to
`kReceiveChunkBytes`; what is on the way is lost when an end goes. Each end has
limits of its own: frames over the sender's limit are not sent, frames over the
receiver's are refused, and the refusal stays. `send_all` is one step: each
direction of a connection has one writer, and the reader takes any prefix.
The client is used by one thread (its request loop takes no lock). A `recv`
fails only when the connection is gone; were it interrupted by a signal, the
request would fail with its reply still to come, and the next request would
return that reply: the mutant of `ReplyIsOwn` is this case.

The two limits of an end are any numbers. `self_consistent` (`limits.cpp:88`)
asks that an assembly may hold `max_frame_bytes`, which leaves no room for a
header or for what a chunk brings besides, so an end may refuse a frame that is
within its limit (section 6). What the code does keep is
`RefusesOnlyWithoutRoom`: a refusal means that the stream carries a frame over
the limit or one that `NoRoom` is left for, and never that bytes handled long
ago still count.

### How the codecs correspond to the code

A document is a sequence of *tokens*, one per value: the primitive that wrote it,
the member it was written from, and the value. A decoder is a sequence of
*items*: take a value for a member, or check what has been taken. A size or a
presence flag, once taken, puts the items of its elements in front. Encoders and
decoders are separate code in the repository and are translated separately, so
their agreement is a result. What a reader can tell from bytes is kept: an
enumeration byte no enumerator has, a text that is no identity, a boolean that
is neither 0 nor 1, a number that does not fit 32 bits, a text longer than its
bound. `U32` is 8 in the instance: the first number a 32-bit member cannot hold.

`Decoding` commits, demotes and captures a proof as `commit` and `demote` do (a
demotion captures nothing), writes it with `save` or into a payload, and reads
the document. Between the two, one thing may happen: the document ends before
any one value, goes on after its end, or any one value is another. A store whose
*trailer* does not match is refused before a value is taken (`OpenRefused`); the
altered ones are those whose trailer does. After an altered size the bytes that
follow are read as something they are not; `Misaligned` ends such a reading, so
nothing is said about it. Digests are what they are computed from (an injective
hash).

`Fits` names the bounds on which a writer and its decoder disagree: documents
beyond them are in the instance, their refusal is allowed, and everything else
must be read back.

## 4. Runs

| Run | Result | What it shows |
|---|---|---|
| `MCPublicationAuthority` | pass | the authority's invariants, permanence of fences and epoch, refinement of `PublisherIncarnations` |
| `RuntimeEvidence` | pass | topology, classification and path authority move at will: the indexes still find every current proof |
| `RuntimeLifecycle` | pass | types at the generation limit, order of the history, superseded policies, no revival, and liveness: an outdated proof is demoted under fair refreshes |
| `RuntimeLateResult` | violation | a result can be stored as current although the evidence had moved when it was stored |
| `CoordinatorStore` | pass | store contents are consistent and, where they can be loaded, never ahead of the process, across racing saves, failed writes, rejected evaluations, kills and restarts; restored indexes lead to every current proof, except from domains that were consulted and not shared; once a fence of the process has returned nothing of the boot is current, and an attempt commits once |
| `CoordinatorAcked` | violation | an acknowledged mutation can be missing from the store |
| `CoordinatorRestart` | violation | a restart can lose the whole store to one rejected evaluation |
| `CoordinatorThreads` | pass | at most `max_publishers` connections are served, departures that were counted are fenced, a `stop` that returned left nothing running or open, and it returns |
| `Decoding` | pass | every value is taken for the member it was written from, documents are read back, cut or lengthened ones never accepted, altered ones only if the proof in them can still be used, and a snapshot only if it is what was captured; a diff is empty exactly for equal captures |
| `WireSession` | pass | frames handled once and in order, replies to their own requests, a frame is refused only over the limit or without room, a new connection starts afresh, requests return |
| `Evaluation` | pass | verdicts are sound (a proof by failure domains where the paths are wholly known), evidence that counts as complete is decided, witnesses are exact |
| `EvaluationPartialPaths` | violation | paths known in part are proved diverse by failure domains |

The violations are the disagreements between documents and code quoted under
`findings`. Each shows one behaviour; none is needed by a theorem.

### Bounds

Two boots are enough to have a predecessor and a successor; two connections,
whose frames are the evaluations and fences of `CoordinatorStore`, for every
pairwise race of them; two to four attempts for a retry, a conflict, a full
table and one lifecycle call after another; generations up to 2 or 3, so that
the limit that `can_advance` guards is reached; two paths, entities and domains,
so that the footprint can move away from what was indexed. Histories hold one or
two revisions, so that the oldest is dropped. `CoordinatorStore` has one boot:
with two it has more states than five minutes enumerate, and the theorems on
fences and attempts are about any set of boots. One of its two paths is
unstable, so that an evaluation may be rejected and the store with it be one
that a restart refuses (`Readable`): `StoreNeverAhead` is about the stores that
a restart loads. Two domains, one of them shared, tell the domains a proof
consulted from those its class results name. The evaluator's instances have up
to four paths (the smallest number with a maximal set that is not maximum), two
classes and every evidence over one or two domains; `MCSetEvaluation` says which
families. The wire has a header of two bytes, chunks of up to three and payloads
of up to four, so that chunks end inside headers, inside payloads and after the
start of the next frame, and replies cross both ends' limits; the assembly bound
of 5 is too small for a second frame behind an unfinished one, so that both ends
refuse frames for want of room; three requests on two connections let a reply be
late, and a failure be left behind. The threads have three connections, two of
which are served at a time, and two handles: a handle is reused while the
connection that closed it is still listed, which is also when the third
connection meets the limit; two frames let one connection say HELLO and fence,
or two say HELLO. All its workers have one boot: with two the state space is
over what five minutes enumerate, and departures of two boots and a second HELLO
with another boot are left to the theorems of `CoordinatorThreadsProofs`, which
are about any set of boots. The codecs have proofs of two and of three paths in
every verdict, one rejected, revisions up to 2 with history and captures, lists
at their bounds, and every value of every document altered. `RuntimeLifecycle`
numbers the attempts by the publications that use them (`FirstExpected`), which
attempts being interchangeable makes no difference. TLC's symmetry is used only
in runs that check safety properties and only for attempts, boots and callers,
which no definition tells apart.

Deadlock is not checked where the instance is bounded by its attempts and
generations: when they are used up the model stops, the program would not.

### Fairness

`RuntimeLifecycle` assumes weak fairness of the steps of an evaluation and of a
refresh in progress, and of beginning a refresh: a thread that holds no lock for
ever makes progress, and the embedding program is expected to call
`refresh_currentness` again and again, which is what the call is for. Nothing is
assumed of publishers, lifecycle calls or the evidence.

`WireSession` assumes weak fairness of the client inside a request and of each
connection's thread: both are threads that run until they wait for bytes or for
the end of the connection. Nothing is assumed of the worker's calls, and nobody
has to die: `RequestReturns` excepts the request whose reply the coordinator
does not send because it is over its limit, for which the client, without a
timeout, waits for ever (`distributed.cpp:426`).

`CoordinatorThreads` assumes weak fairness of the accept thread, of the thread
in `stop`, and of the steps a connection's thread takes without waiting for its
peer. Nothing is assumed of the workers, who may stay connected and silent for
ever, nor that anyone calls `stop`. `StopReturns` is claimed where closing a
socket ends the calls blocked on it, and excepts the worker whose entry was lost
to a reused handle and who stays connected.

## 5. Proofs

All theorems hold for every value of the constants that satisfies the named
assumptions (finite sets, positive limits, requests and payloads of the right
shape), which TLC evaluates in the runs.

* `PublicationAuthorityProofs`: the type invariant; `OneLiveIncarnation`,
  `FenceRecordsAgree`, `TablesBounded`, `FencedForever`, `EpochNeverDecreases`,
  `AttemptNeverRebound`; and that the authority implements
  `PublisherIncarnations`. The invariant is
  their conjunction: one live incarnation needs the fence flags and the fence
  list to agree, because registration consults one and sets both.
* `DiversityRuntimeProofs`: the type invariant, and that every behaviour of the
  runtime is a behaviour of the authority, so its theorems hold inside it.
* `DiversityRuntimeSafetyProofs`: `IndexComplete`, `FenceSweepHolds`,
  `PolicySweepHolds`, `RevisionNeverRevived`, `EvaluationAppliedOnce`,
  `RevisionsOrdered`. The first
  three need `SweepInv`: a sweep finds only what is indexed, so the indexes must
  be complete; what a sweep has done stays done only because a completed fence
  is on the fence list (`FencesRecorded`) and a swept generation has been
  published (`FloorsPublished`, `PolicyRecorded`), which is what the commit's
  recheck reads. `EvaluationAppliedOnce` needs `AttemptInv`: the attempt of
  every running call is bound to its request (`AttemptsBound`), so no second
  call can be admitted under it. `RevisionsOrdered` needs `RetentionInv`, which
  also says that nothing is retained of a proof that is not stored: the first
  commit appends to what is there.
* `CoordinatorThreadsProofs`: `ConnectionsBounded`, `WaitIsSound` and
  `StoppedIsQuiet`, from `ThreadsInv`. `StoppedIsQuiet` needs to know, for each
  stage of `stop`, which threads may still run (`StageInv`, `AcceptorInv`: the
  accept thread holds a connection from `accept` to the start of its thread), and
  who owns an open handle (`SocketInv`). `WaitIsSound` needs the counters to
  count (`CountInv`), so that equal counters mean that every thread has left,
  and the list to be ahead of the runtime only by the threads between the two
  (`ListInv`). `ConnectionsBounded` needs `SlotInv`: the limit is compared with
  the length of the list, so every live connection must be listed, or be one
  whose entry was lost.
* `CoordinatorProofs`: `StoreConsistent` and `StoreNeverAhead` across kills and
  restarts, and that the runtime's type invariant, `RevisionsOrdered` and
  `OneLiveIncarnation` hold of a restored runtime too, whose state no step of the
  runtime alone produces. `RestoredIndexComplete` is proved across restarts as
  well: what `load` indexes and what `commit` indexes go on side by side, told
  apart by the epoch a proof was committed in. `CoordinatorInv` adds to the runtime's invariant that
  no proof is ahead of its policy or the epoch (`RuntimeSound`, what a copy
  inherits), that every copy on its way to disk is sound and not ahead of the
  runtime (`CopyInv`: it may be written long after it was taken, and over a later
  one), and that the store is (`StoreInv`, with the order of the history, from
  which a restored runtime goes on). A proof of `StoreNeverAhead` for *every*
  store fails, and the behaviour is real: a store that a rejected evaluation
  made unreadable is refused at the next start, and the process begins empty
  behind it. This is what the run `CoordinatorRestart` shows, so the invariant
  speaks of the stores that can be loaded.
* `SetEvaluationProofs`, the pairs: per class, a reported conflict is real and a
  proof of disjointness is real in every fabric the evidence may be a part of: of
  two paths for a structural class, of the entities asked about for a membership
  class, which are the paths where these are wholly known (`KnownIsWhole`).
* `SetEvaluationProofs`, the search: `mis_cardinality` computes the size of a largest
  independent set, `mis_witness` the lexicographically first one and
  `mis_exhaustive` one of the same size, for every graph. The definitions recurse
  over sets of candidates. Induction over data is done by least counterexample:
  the sizes of the sets on which a statement fails are natural numbers, a set of
  them that is not empty has a least one (`LeastNatural`), and there the statement
  follows from the smaller sets. That a recursive function exists at all is
  shown in the same way, size by size (`CardUpToAll`, `TakeUpToAll`,
  `BitsUpToAll`).
* `SetEvaluationProofs`, the outcome: all five properties of the outcome for ALL_PAIRS and
  AT_LEAST_K. `ProvenIsSoundOfKnownPaths` uses only the witness's cells: the search is not
  trusted. `NotDiverseIsSound` needs the search for the hoped-for subset to be
  exact, since every set that would be enough must hold a conflict;
  `OpenOnlyForMissingEvidence`, `DecidedWhenComplete` and `WitnessExact` need both
  searches. The invariant is `ResultInv`: the result is a function of the input.

* `WireSessionProofs`: `HandledInOrder`, `RefusesOnlyWithoutRoom`,
  `FreshAfterConnect` and `ReplyIsOwn`, for every size of header and chunk,
  whatever the limits, and any number of connections and requests, however the streams
  are cut. The invariant `WireInv` has an end each. `ServerInv`: a thread has handled a
  prefix of what was sent, and the bytes its assembler has not consumed followed
  by those on the way are the encoding of the rest (`InStep`). `HandledInOrder` alone is
  not inductive: that the first bytes not consumed are the head of a *frame*, and
  that the assembler never holds more than a frame when it receives, is what
  keeps the next frame from being misread and the bound from being crossed.
  `ClientInv`: the client and its connection are at one of four points of their
  conversation (`Talk`): the request may be on its way and no reply is (`Asked`),
  its reply is on its way or held (`Answered`), the connection ended inside a
  reply (`BrokenOff`), or the reply was too long (`Failed`). `ReplyIsOwn` follows
  because at `Answered` the only frame there is is the answer to `call`. Lemmas on
  the operators of `FrameAssembler` say what `append` and `next` do to the bytes
  not consumed, whatever the offset. Assumed of the constants: sizes are numbers
  (`SizesAssumption`, `BoundsAssumption`), and a header and a chunk have bytes
  (`ChunkAssumption`).
* `DecodingProofs`: `ReadAsWritten` and `AcceptedInFull`, for documents of every
  size. `Agrees(items, tokens)` says that a decoder working off the items takes
  exactly the tokens, each for the member it was written from. It is defined as a
  simulation (a relation between what is left on either side that every step leads
  back into), so it needs no induction over the document; concatenation keeps it
  (`AgreesConcat`), and so does a counted list of any length (`AgreesAll`, by least
  counterexample over what `FlattenSeq` computes). From the primitives of
  `ByteStream` up, one lemma per record shows that an encoder and its decoder
  agree: the conflicts, classes, cells, witness and bindings of a proof
  (`ProofAgrees`), policies, snapshots, the store's sections (`StoreAgrees`) and
  every payload (`HelloAgrees` .. `MutationResultAgrees`). The invariant
  `ReadingInv` then is: what the runtime holds are records of lists (`Writable`,
  from what `evaluate_diversity` and the policy registry give, the
  `EvaluationsAssumption` and `PoliciesAssumption`; a history holds at least one
  revision, `HistoryAssumption`, which `limits.cpp:84` asks for), and the items
  still to be worked off agree with the values still to be taken (`InStep`).
  `AcceptedInFull` needs only `DecodingInv`: what was taken is a prefix of what
  was written (`TakenInOrder`), and from the moment a document is known to end
  early or to go on, one refusal is all that is left to happen (`EndSeen`).

Only model-checked:

* liveness (`OutdatedProofsDemoted`, `RequestReturns`, `StopReturns`), which this
  prover does not handle;
* what the *checks* of the decoders decide (`ReadBack`, `AcceptedIsSound`) and what
  digests and diffs compare (`SnapshotIsWhatWasCaptured`, `DiffIsFaithful`). They
  look values up by member in everything taken so far, with filters that take an
  operator as a parameter, which the provers cannot instantiate; and `ReadBack`
  speaks of numbers an evaluation writes (totals, indices, the size of a matrix)
  that `Evaluations`, a parameter here, would have to be assumed to get right.

## 6. Disagreements met without a run

Noted while translating, where the model has the code's behaviour:

* `evaluate` never looks at the lifecycle of the stored proof, so a REVOKED or
  RETIRED proof that is evaluated again is CURRENT (`runtime.cpp:411`), where
  README section 6 (line 200) says "`REVOKED` and `RETIRED` are terminal: a
  retired proof never reactivates." No property here assumes it;
* a reply to a worker that is gone raises SIGPIPE on POSIX, which nothing blocks
  (`distributed.cpp:125`): the models let the coordinator die at any step;
* evaluating a proof again leaves its older entries in the generation index, and
  a sweep takes every bucket below its generation whole (`runtime_ops.cpp:208`): a
  proof evaluated at topology 1 and again at topology 2 is demoted by a sweep of
  what is older than 2, with the detail that topology "advanced past the
  generation this proof was evaluated against", which it had not; README lines
  274-275 call generation-based invalidation exact. `demote_topology_entities`
  likewise finds entries of earlier revisions
  (`runtime_ops.cpp:184`, `runtime.hpp:107`);
* a replay is answered IDEMPOTENT while the first call is still evaluating
  (`runtime.cpp:196`, `mutation.hpp:22`);
* the digest admit compares for a policy does not cover its identity
  (`policy.cpp:121`), so one attempt may publish the same content under two;
* an unset expectation commits over an existing proof (`runtime.cpp:338`,
  `authority.hpp:33`), and APPLIED is answered for results that are not CURRENT
  (`runtime.cpp:365`, `runtime.hpp:69`);
* drift of policy or epoch is refused and nothing is recorded
  (`runtime.cpp:266-300`), where README lines 255-257 say it is recorded;
* `history()` does not end with the current revision (`runtime.hpp:85`);
* attempts have a section in the store that `save` leaves empty
  (`runtime_store.cpp:17`, `persistence.hpp:73`): replay detection does not
  survive a restart; FENCE is answered without a save (`distributed.cpp:376`);
  `fenced_boots` lists a boot before it is fenced (`distributed.cpp:258`), where
  `distributed.hpp:60` says "Fencing is applied to the runtime before the boot is
  reported here"; with FENCE, "after every handled frame" (`distributed.hpp:68`)
  is not so either;
* `load` indexes a restored proof under the domains its class results name as
  shared (`runtime_store.cpp:74`), where `commit` indexes it under all it
  consulted, so `demote_domains` leaves a restored PROVEN_DIVERSE proof current;
  README lines 165-166 say that a membership change "demotes precisely the
  dependent proofs." `RestoredIndexComplete` states what the code keeps. A store
  with one such proof, a kill and a start make `IndexComplete` false of a process
  of `Coordinator`, which is why that property is one of the runtime alone;
* `self_consistent` takes `max_wire_assembly_bytes` equal to `max_frame_bytes`
  (`limits.cpp:88`), with no room for a header, so a legal frame ends the
  connection, where `limits.cpp:81` calls a limit that cannot express its own
  subject a defect;
* README lines 299-300 say a decoded digest is never trusted but recomputed.
  That holds for snapshots; `decode_proof` takes the request digest and the
  semantic digest as they are (`persistence_records.cpp:552`), and a later
  evaluation is compared with the latter (`runtime.cpp:395`). A digest shorter
  than 16 bytes is accepted and then read to 16;
* a description of up to `max_persistence_record_bytes` is a valid policy
  (`policy.cpp:319`) and is refused by the decoder beyond a quarter of it
  (`persistence_records.cpp:431`);
* a proof that was rejected does not decode, so its APPLIED reply is a protocol
  failure at the worker (`wire.cpp:613`), as its store is refused at a restart;
* the indices of advisories and the uniqueness of cells are not checked
  (`persistence_records.cpp:766`), and the snapshots of a loaded store are
  validated and then not restored (`runtime_store.cpp:64`);
* `serve` closes its socket before it takes it off the list
  (`distributed.cpp:244`), threads of connections that are gone are joined only
  by `stop`, and on POSIX closing the sockets does not end the calls blocked on
  them: `stop` then waits for the peers;
* a class with a certain conflict and incomplete evidence is NOT_DIVERSE, where
  README lines 137-139 say UNKNOWN;
* advisories are computed from cells that keep only the required classes
  (`evaluate_set.cpp:269`), and totals count bounded lists
  (`evaluate_set.cpp:445`, `evaluate_pair.cpp:445`).

## 7. Not modelled

The bytes of a value, the lengths bounded in bytes (`max_identity_length`, a
count larger than the file), hash functions and integrity values (equal digests
stand for equal contents); the decoding that follows an altered size; the system
calls of the atomic replacement; frames of foreign versions; explanations and
rendering; the evaluator's conflict lists and advisories; QUERY and the views
that only read; the synthetic fabric, the command-line tool, examples and
benchmarks.

## 8. Running it

    tlc -config RuntimeEvidence.cfg MCDiversityRuntime
    tlapm DiversityRuntimeSafetyProofs.tla

Each configuration belongs to the module `PROJECT.json` names for its run.
