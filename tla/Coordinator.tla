---------------------------- MODULE Coordinator ----------------------------
(***************************************************************************)
(* The coordinator process: src/src/distributed.cpp (DiversityCoordinator),*)
(* the durable store of src/src/runtime_store.cpp and the whole-store      *)
(* codec of src/src/persistence_store.cpp, over the diversity runtime.     *)
(*                                                                         *)
(* One thread serves each connection and handles its frames one at a time, *)
(* so the evaluators of the runtime are the connections here.  A mutation  *)
(* is applied, the runtime is copied under its lock, the copy is written   *)
(* to a temporary file and renamed over the store, and only then the reply *)
(* is sent: four steps, with those of the other connections in between.    *)
(* The process may be killed at any point; the program that embeds the     *)
(* coordinator (tests/pd_test_distributed.cpp) loads the store, moves to   *)
(* the next epoch and saves before it lets workers in.                     *)
(*                                                                         *)
(* Only what workers reach over the wire happens: QUERY and PING change    *)
(* nothing, and the embedding program makes no runtime calls of its own.   *)
(* Frames that do not decode are answered and forgotten, and so left out.  *)
(***************************************************************************)
EXTENDS DiversityRuntime

CONSTANTS
    DiskFails,      \* whether writing or renaming the temporary file may fail
    Shared(_, _)    \* the consulted domains a request's paths share at a generation

ASSUME CoordinatorAssumption ==
    /\ DiskFails \in BOOLEAN
    /\ \A r \in Requests, d \in 1..MaxDomains : Shared(r, d) \subseteq Consulted(r, d)

VARIABLES
    status,         \* "down", "starting": store loaded, not yet saved again, "serving"
    connections,    \* connection -> the state of its thread, or None
    store,          \* the contents of the store file, or None
    acked           \* history: the highest generations acknowledged to a worker

coordinatorVars == <<status, connections, store, acked>>
systemVars == <<vars, coordinatorVars>>

StoreContents_PoliciesLater ==
    [epoch |-> epoch, policies |-> [p \in Policies |-> None], proofs |-> proofs, history |-> history,
     fenced |-> fenced]

\* What save copies.  Sessions and attempts have a place in the file that save
\* leaves empty, and load captures the snapshots again from the proofs.
StoreContents ==
    [epoch |-> epoch, policies |-> policies, proofs |-> proofs, history |-> history, fenced |-> fenced]

\* The thread of a connection: the boot it last said HELLO with, the boot it is
\* fencing, whether the peer is gone, the revision its reply names, its copy.
Idle(boot) == [pc |-> "idle", boot |-> boot, fences |-> None, leaving |-> FALSE,
               reply |-> None, copy |-> None]

At(c, pc) == connections[c] # None /\ connections[c].pc = pc
Open == {c \in Evaluators : connections[c] # None}

Goes(c, pc) == connections' = [connections EXCEPT ![c].pc = pc]
GoesToSave(c, reply) ==
    connections' = [connections EXCEPT ![c].pc = "save", ![c].reply = reply]

Reply(key, generation) == [key |-> key, generation |-> generation]

-----------------------------------------------------------------------------
(* Connections and frames.                                                 *)
Accept(c) ==
    /\ status = "serving"
    /\ connections[c] = None
    /\ Cardinality(Open) < max_publishers
    /\ connections' = [connections EXCEPT ![c] = Idle(None)]
    /\ UNCHANGED <<vars, status, store, acked>>

\* The connection belongs to the boot from here on, even if it is refused.
Hello(c, s) ==
    /\ At(c, "idle")
    /\ \/ RegisterPublisher(s)
       \/ RegisterPublisherLimitExceeded(s)
       \/ ~RegistrationReachesSessions(s) /\ UNCHANGED authorityVars
    /\ connections' = [connections EXCEPT ![c].boot = s.boot]
    /\ UNCHANGED <<storeVars, indexVars, callVars, evidenceVars, ghostVars, status, store, acked>>

\* PUBLISH_POLICY.  A refused mutation is saved and answered like an applied one.
PublishPolicyFrame(c, p, content, a) ==
    /\ At(c, "idle")
    /\ \/ /\ PublishPolicy(p, content, a)
          /\ GoesToSave(c, Reply(p, PolicyGeneration(p) + 1))
       \/ /\ ~PolicyAccepted(p, content, a)
          /\ GoesToSave(c, None)
          /\ UNCHANGED vars
    /\ UNCHANGED <<status, store, acked>>

\* PUBLISH_PROOF.
PublishProofFrame(c, r, a) ==
    /\ At(c, "idle")
    /\ \/ Evaluate(c, r, a) /\ Goes(c, "call")
       \/ ~Entered(r, a) /\ GoesToSave(c, None) /\ UNCHANGED vars
    /\ UNCHANGED <<status, store, acked>>

\* REVALIDATE.
RevalidateFrame(c, r, a) ==
    /\ At(c, "idle")
    /\ \/ Revalidate(c, r, a) /\ Goes(c, "call")
       \/ ~CanRevalidate(r) /\ GoesToSave(c, None) /\ UNCHANGED vars
    /\ UNCHANGED <<status, store, acked>>

\* The revision an evaluation answers with: the new one, or the unchanged one.
EvaluationReply(c) ==
    IF ~Committable(c) THEN None
    ELSE Reply(evaluations[c].request,
               IF SameRevision(evaluations[c])
                 THEN proofs[evaluations[c].request].generation
                 ELSE RevisionOf(evaluations[c]).generation)

\* The thread is inside evaluate or revalidate.
Call(c) ==
    /\ At(c, "call")
    /\ EvaluationStep(c)
    /\ IF evaluations'[c] = None THEN GoesToSave(c, EvaluationReply(c)) ELSE UNCHANGED connections
    /\ UNCHANGED <<status, store, acked>>

\* FENCE: answered without a save.
FenceFrame(c, b) ==
    /\ At(c, "idle")
    /\ FenceBootBegin(b)
    /\ connections' = [connections EXCEPT ![c].pc = "demote", ![c].fences = b]
    /\ UNCHANGED <<status, store, acked>>

\* The peer is gone: its boot is fenced, its proofs are demoted, and the result
\* is saved before the thread ends.
Disconnect(c) ==
    /\ At(c, "idle")
    /\ IF connections[c].boot = None
         THEN connections' = [connections EXCEPT ![c] = None] /\ UNCHANGED vars
         ELSE /\ FenceBootBegin(connections[c].boot)
              /\ connections' = [connections EXCEPT ![c].pc = "demote", ![c].leaving = TRUE,
                                                    ![c].fences = connections[c].boot]
    /\ UNCHANGED <<status, store, acked>>

\* The second half of fence_boot; another thread may have done the same already.
DemoteFenced(c) ==
    /\ At(c, "demote")
    /\ LET b == connections[c].fences IN
         IF b \in fencing THEN FenceBootDemote(b) ELSE DemoteBoot(b)
    /\ connections' = [connections EXCEPT ![c].fences = None,
                         ![c].pc = IF connections[c].leaving THEN "save" ELSE "idle"]
    /\ UNCHANGED <<status, store, acked>>

-----------------------------------------------------------------------------
(* save: a copy under the runtime's lock, then write_store_atomic without  *)
(* it.  persist ignores the status of the write.                           *)
SaveCopy(c) ==
    /\ At(c, "save")
    /\ connections' = [connections EXCEPT ![c].pc = "write", ![c].copy = StoreContents]
    /\ UNCHANGED <<vars, status, store, acked>>

Saved(c) ==
    connections' = [connections EXCEPT ![c] =
                      IF @.leaving THEN None ELSE [@ EXCEPT !.pc = "reply", !.copy = None]]

WriteStore(c) ==
    /\ At(c, "write")
    /\ store' = connections[c].copy
    /\ Saved(c)
    /\ UNCHANGED <<vars, status, acked>>

WriteFails(c) ==
    /\ At(c, "write")
    /\ DiskFails
    /\ Saved(c)
    /\ UNCHANGED <<vars, status, store, acked>>

SendReply(c) ==
    /\ At(c, "reply")
    /\ LET reply == connections[c].reply IN
         acked' = IF reply = None \/ acked[reply.key] >= reply.generation THEN acked
                  ELSE [acked EXCEPT ![reply.key] = reply.generation]
    /\ connections' = [connections EXCEPT ![c].pc = "idle", ![c].reply = None]
    /\ UNCHANGED <<vars, status, store>>

-----------------------------------------------------------------------------
(* The process: killed, and started again.                                 *)
EmptyContents ==
    [epoch |-> 1, policies |-> [p \in Policies |-> None], proofs |-> [r \in Requests |-> None],
     history |-> [r \in Requests |-> <<>>], fenced |-> {}]

\* decode_proof accepts a revision only if it names its proof (an empty record
\* does not) and its matrix lists the paths of the request (a rejected
\* evaluation has no matrix).
Decodes(r, revision) == revision.generation # Unset /\ revision.paths = DOMAIN r.paths

\* One record that does not decode and the whole store is refused.
Readable(contents) ==
    \A r \in Requests : contents.proofs[r] # None =>
        /\ Decodes(r, contents.proofs[r])
        /\ \A i \in DOMAIN contents.history[r] : Decodes(r, contents.history[r][i])

\* The domains load indexes a proof under: those its class results report as
\* shared, not all it consulted.  A rejected evaluation has no class results.
LoadedDomains(r, revision) ==
    IF revision.outcome = "PROVEN_DIVERSE" \/ revision.failure_domain_generation = Unset THEN {}
    ELSE Shared(r, revision.failure_domain_generation)

Stored(contents) == {r \in Requests : contents.proofs[r] # None}

LoadedIndexes_DomainsForgotten(contents) ==
    LET loaded == Stored(contents)
        of(r) == contents.proofs[r]
    IN  /\ by_path' = UNION {(DOMAIN r.paths) \X {r} : r \in loaded}
        /\ by_domain' = {}
        /\ by_entity' = UNION {of(r).entities \X {r} : r \in loaded}
        /\ by_policy' = {<<r.policy, r>> : r \in loaded}
        /\ by_boot' = {<<of(r).boot, r>> : r \in loaded}
        /\ by_topology_generation' = {<<of(r).topology_generation, r>> : r \in loaded}
        /\ by_failure_domain_generation' = {<<of(r).failure_domain_generation, r>> : r \in loaded}

LoadedIndexes(contents) ==
    LET loaded == Stored(contents)
        of(r) == contents.proofs[r]
    IN  /\ by_path' = UNION {(DOMAIN r.paths) \X {r} : r \in loaded}
        /\ by_domain' = UNION {LoadedDomains(r, of(r)) \X {r} : r \in loaded}
        /\ by_entity' = UNION {of(r).entities \X {r} : r \in loaded}
        /\ by_policy' = {<<r.policy, r>> : r \in loaded}
        /\ by_boot' = {<<of(r).boot, r>> : r \in loaded}
        /\ by_topology_generation' = {<<of(r).topology_generation, r>> : r \in loaded}
        /\ by_failure_domain_generation' = {<<of(r).failure_domain_generation, r>> : r \in loaded}

\* A runtime with these contents and nothing else: no session, no attempt, no call.
RuntimeHolds(contents) ==
    /\ epoch' = contents.epoch
    /\ sessions' = [b \in Boots |-> None]
    /\ fenced' = contents.fenced
    /\ attempts' = [a \in Attempts |-> None]
    /\ policies' = contents.policies
    /\ proofs' = contents.proofs
    /\ history' = contents.history
    /\ snapshots' = [r \in Requests |->
         IF r \in Stored(contents) THEN <<contents.proofs[r].generation>> ELSE <<>>]
    /\ LoadedIndexes(contents)
    /\ evaluations' = [c \in Evaluators |-> None]
    /\ fencing' = {}
    /\ fence_done' = {}
    /\ policy_floor' = [p \in Policies |-> 0]
    /\ applied' = {}
    /\ UNCHANGED <<refreshes, evidenceVars>>

Kill ==
    /\ status # "down"
    /\ status' = "down"
    /\ RuntimeHolds(EmptyContents)
    /\ epoch_restored' = FALSE
    /\ connections' = [c \in Evaluators |-> None]
    /\ UNCHANGED <<store, acked>>

StartingContents_FencesForgotten ==
    IF store # None /\ Readable(store) THEN [store EXCEPT !.epoch = @ + 1, !.fenced = {}]
    ELSE EmptyContents

\* What the process starts from: the store one epoch later, or nothing at the
\* first epoch if there is no store or it is refused.
StartingContents ==
    IF store # None /\ Readable(store) THEN [store EXCEPT !.epoch = @ + 1] ELSE EmptyContents

Load ==
    /\ status = "down"
    /\ StartingContents.epoch <= MaxEpoch
    /\ status' = "starting"
    /\ RuntimeHolds(StartingContents)
    /\ epoch_restored' = TRUE
    /\ UNCHANGED <<connections, store, acked>>

\* Workers learn of the coordinator after the first save.
Serve ==
    /\ status = "starting"
    /\ status' = "serving"
    /\ \/ store' = StoreContents
       \/ DiskFails /\ UNCHANGED store
    /\ UNCHANGED <<vars, connections, acked>>

-----------------------------------------------------------------------------
CoordinatorInit ==
    /\ Init
    /\ status = "down"
    /\ connections = [c \in Evaluators |-> None]
    /\ store = None
    /\ acked = [key \in Policies \cup Requests |-> 0]

Frame(c) ==
    \/ \E s \in Registrations : Hello(c, s)
    \/ \E p \in Policies, content \in Contents, a \in Actors : PublishPolicyFrame(c, p, content, a)
    \/ \E r \in Requests, a \in Actors : PublishProofFrame(c, r, a) \/ RevalidateFrame(c, r, a)
    \/ \E b \in Boots : FenceFrame(c, b)

ThreadStep(c) == Call(c) \/ DemoteFenced(c) \/ SaveCopy(c) \/ WriteStore(c) \/ WriteFails(c) \/ SendReply(c)

CoordinatorNext ==
    \/ \E c \in Evaluators : Accept(c) \/ Frame(c) \/ Disconnect(c) \/ ThreadStep(c)
    \/ EvidenceMoves /\ UNCHANGED coordinatorVars
    \/ Kill \/ Load \/ Serve

CoordinatorSpec == CoordinatorInit /\ [][CoordinatorNext]_systemVars

-----------------------------------------------------------------------------
(* Properties.                                                             *)
Generation(entry) == IF entry = None THEN Unset ELSE entry.generation

\* Contents that could have been the runtime's at one moment: a proof is never
\* newer than the policy it was evaluated under, nor older than its history.
Consistent(contents) ==
    \A r \in Requests : contents.proofs[r] # None =>
        /\ contents.proofs[r].policy_generation <= Generation(contents.policies[r.policy])
        /\ contents.proofs[r].epoch <= contents.epoch
        /\ \A i \in DOMAIN contents.history[r] :
             contents.history[r][i].generation <= contents.proofs[r].generation

\* Whatever is on disk, or on its way there, is consistent: saves of several
\* connections overlap, and the process is killed and started again.
StoreConsistent ==
    /\ store # None => Consistent(store)
    /\ \A c \in Open : connections[c].copy # None => Consistent(connections[c].copy)

\* The runtime has moved on from these contents, or is still there.
NotAhead(contents) ==
    /\ contents.epoch <= epoch
    /\ contents.fenced \subseteq fenced
    /\ \A p \in Policies : Generation(contents.policies[p]) <= PolicyGeneration(p)
    /\ \A r \in Requests : Generation(contents.proofs[r]) <= Generation(proofs[r])

\* A coordinator that runs is never behind a store that it could load: nothing
\* durable is lost by a restart, and no late save brings back what an earlier
\* process wrote.  (What becomes of a store that is refused: RestartRestores.)
StoreNeverAhead == status # "down" /\ store # None /\ Readable(store) => NotAhead(store)

\* A process finds its own current proofs in every reverse index, and a restored
\* one in every index but that of the domains: there load puts it only under the
\* domains its class results share, and not under all it consulted.
RestoredIndexComplete ==
    \A r \in Requests : IsCurrent(r) =>
        /\ IndexedButDomains(r)
        /\ LET domains == IF proofs[r].epoch = epoch
                            THEN Consulted(r, proofs[r].failure_domain_generation)
                            ELSE LoadedDomains(r, proofs[r])
           IN  domains \X {r} \subseteq by_domain

-----------------------------------------------------------------------------
(* What the documentation says of the program and the code does not keep.  *)

\* README, section 10: "A mutation that requires durability is never
\* acknowledged before the durable write succeeds."
AckedIsDurable ==
    /\ \A p \in Policies : acked[p] # 0 =>
         store # None /\ Generation(store.policies[p]) >= acked[p]
    /\ \A r \in Requests : acked[r] # 0 =>
         store # None /\ Generation(store.proofs[r]) >= acked[r]

\* README, section 11: "A restarted coordinator restores durable state, fences
\* the old boots, restores **no** live publisher authority, and comes back at a
\* strictly higher epoch."
RestartRestores ==
    [][Load /\ store # None => proofs' = store.proofs /\ epoch' > store.epoch]_systemVars
=============================================================================
