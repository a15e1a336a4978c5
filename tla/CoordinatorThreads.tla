------------------------- MODULE CoordinatorThreads -------------------------
(***************************************************************************)
(* The threads and sockets of the coordinator: DiversityCoordinator::start,*)
(* its accept loop, Impl::serve, publication_fence, persist, Impl::stop    *)
(* and wait_for_fenced_workers of src/src/distributed.cpp.                 *)
(*                                                                         *)
(* The accept thread takes connections and starts a thread for each.  A    *)
(* thread handles the frames of its connection, and when the peer is gone  *)
(* it fences the boot the connection last said HELLO with, saves, closes   *)
(* its socket and takes it off the list.  stop ends all of them.           *)
(*                                                                         *)
(* A handle is a number the operating system gives out again as soon as it *)
(* is closed.  On Winsock, closing a socket ends the calls blocked on it;  *)
(* on POSIX it does not.  The build may be either.                         *)
(*                                                                         *)
(* The runtime is the set of boots it has fenced: what HELLO, mutations    *)
(* and saves do is in Coordinator and changes nothing here.  A loop's look *)
(* at running and the call it then blocks in are one step.                 *)
(***************************************************************************)
EXTENDS Naturals, FiniteSets, Sequences, SequencesExt

CONSTANTS
    MaxConnections, \* bound: connections workers make
    Handles,        \* the numbers of the operating system
    Boots,
    None,
    max_publishers,
    MaxFrames,      \* bound: frames the workers send
    MaxStarts       \* bound: calls of start

\* A connection is known by its place in the order of arrival.
Connections == 1..MaxConnections

ASSUME ThreadsAssumption ==
    /\ MaxConnections \in Nat
    /\ max_publishers \in Nat \ {0} /\ MaxFrames \in Nat /\ MaxStarts \in Nat
    /\ None \notin Connections \cup Handles \cup Boots

VARIABLES
    platform,           \* "winsock" or "posix", fixed
    running,
    listening,          \* whether the listening socket is open
    main,               \* where the thread that calls start and stop is
    starts,             \* calls of start so far
    acceptor,           \* [pc, client] of the accept thread
    worker_sockets,     \* the connections whose handle is listed
    accepted, rejected, finished_workers,
    fenced_boot_list,
    threads,            \* connection -> the state of its thread
    peer,               \* connection -> "away", "connected" or "gone"
    backlog,            \* connections that wait for accept, in order
    handle,             \* connection -> the handle accept returned, or None
    owner,              \* handle -> the connection it refers to, or None if it is free
    frames,             \* frames handled
    fenced,             \* the boots the runtime has fenced
    forgotten           \* history: connections whose entry another thread took off the list

listVars == <<worker_sockets, forgotten>>
counterVars == <<accepted, rejected, finished_workers>>
fenceVars == <<fenced_boot_list, fenced>>
kernelVars == <<peer, backlog, handle, owner>>
mainVars == <<platform, running, listening, main, starts>>
vars == <<mainVars, acceptor, listVars, counterVars, fenceVars, kernelVars, threads, frames>>

\* pc: where serve is; boot: the boot of the last HELLO; fences: the boot that is
\* being fenced; leaving: whether the loop of serve has ended.
NoThread == [pc |-> "none", boot |-> None, fences |-> None, leaving |-> FALSE]

Init ==
    /\ platform \in {"winsock", "posix"}
    /\ running = FALSE /\ listening = FALSE /\ main = "down" /\ starts = 0
    /\ acceptor = [pc |-> "none", client |-> None]
    /\ worker_sockets = {} /\ forgotten = {}
    /\ accepted = 0 /\ rejected = 0 /\ finished_workers = 0
    /\ fenced_boot_list = <<>> /\ fenced = {}
    /\ peer = [c \in Connections |-> "away"] /\ backlog = <<>>
    /\ handle = [c \in Connections |-> None] /\ owner = [h \in Handles |-> None]
    /\ threads = [c \in Connections |-> NoThread]
    /\ frames = 0

-----------------------------------------------------------------------------
(* Workers.                                                                *)
Arrive(c) ==
    /\ peer[c] = "away" /\ listening
    /\ \A d \in 1..(c - 1) : peer[d] # "away"
    /\ peer' = [peer EXCEPT ![c] = "connected"]
    /\ backlog' = Append(backlog, c)
    /\ UNCHANGED <<mainVars, acceptor, listVars, counterVars, fenceVars, handle, owner, threads, frames>>

PeerGone(c) ==
    /\ peer[c] = "connected"
    /\ peer' = [peer EXCEPT ![c] = "gone"]
    /\ UNCHANGED <<mainVars, acceptor, listVars, counterVars, fenceVars, backlog, handle, owner, threads, frames>>

-----------------------------------------------------------------------------
(* The accept loop.                                                        *)
AcceptorAt(pc) == acceptor.pc = pc
AcceptorGoes(pc, client) == acceptor' = [pc |-> pc, client |-> client]

AcceptorLoops == AcceptorGoes(IF running THEN "accept" ELSE "ended", None)

\* On POSIX a call that is blocked when the listening socket is closed waits on,
\* and takes what still arrives; one made later fails.
AcceptClient ==
    /\ AcceptorAt("accept")
    /\ listening \/ platform = "posix"
    /\ backlog # <<>>
    /\ \E h \in Handles :
         /\ owner[h] = None
         /\ handle' = [handle EXCEPT ![Head(backlog)] = h]
         /\ owner' = [owner EXCEPT ![h] = Head(backlog)]
    /\ backlog' = Tail(backlog)
    /\ AcceptorGoes("admit", Head(backlog))
    /\ UNCHANGED <<mainVars, listVars, counterVars, fenceVars, peer, threads, frames>>

AcceptFails ==
    /\ AcceptorAt("accept")
    /\ ~listening
    /\ AcceptorLoops
    /\ UNCHANGED <<mainVars, listVars, counterVars, fenceVars, kernelVars, threads, frames>>

ListIsFull_OffByOne == Cardinality(worker_sockets) > max_publishers
ListIsFull == Cardinality(worker_sockets) >= max_publishers

\* Under worker_mutex: the connection is listed, or closed when the list is full.
Admit ==
    /\ AcceptorAt("admit")
    /\ ~ListIsFull
    /\ worker_sockets' = worker_sockets \cup {acceptor.client}
    /\ AcceptorGoes("spawn", acceptor.client)
    /\ UNCHANGED <<mainVars, forgotten, counterVars, fenceVars, kernelVars, threads, frames>>

Reject ==
    /\ AcceptorAt("admit")
    /\ ListIsFull
    /\ rejected' = rejected + 1
    /\ owner' = [owner EXCEPT ![handle[acceptor.client]] = None]
    /\ AcceptorLoops
    /\ UNCHANGED <<mainVars, listVars, accepted, finished_workers, fenceVars, peer, backlog, handle, threads, frames>>

Spawn ==
    /\ AcceptorAt("spawn")
    /\ accepted' = accepted + 1
    /\ threads' = [threads EXCEPT ![acceptor.client].pc = "begin"]
    /\ AcceptorLoops
    /\ UNCHANGED <<mainVars, listVars, rejected, finished_workers, fenceVars, kernelVars, frames>>

-----------------------------------------------------------------------------
(* serve.                                                                  *)
At(c, pc) == threads[c].pc = pc
Goes(c, pc) == threads' = [threads EXCEPT ![c].pc = pc]
UnchangedButThreads == UNCHANGED <<mainVars, acceptor, listVars, counterVars, fenceVars, kernelVars, frames>>

Closed(c) == owner[handle[c]] # c

\* The loop has ended: a connection that said HELLO has a boot to fence.
Leaves(c) ==
    threads' = [threads EXCEPT ![c].leaving = TRUE, ![c].fences = threads[c].boot,
                  ![c].pc = IF threads[c].boot = None THEN "close" ELSE "list"]

ServeLoops(c) == IF running THEN Goes(c, "recv") ELSE Leaves(c)

ServeBegin(c) ==
    /\ At(c, "begin")
    /\ ServeLoops(c)
    /\ UnchangedButThreads

RecvFails(c) ==
    /\ At(c, "recv")
    /\ peer[c] = "gone" \/ Closed(c)
    /\ Leaves(c)
    /\ UnchangedButThreads

\* A frame in a chunk just received, or the next one of the same chunk.
HasFrame(c) ==
    /\ frames < MaxFrames
    /\ \/ At(c, "next")
       \/ At(c, "recv") /\ peer[c] = "connected" /\ (~Closed(c) \/ platform = "posix")

Frame(c) ==
    /\ HasFrame(c)
    /\ frames' = frames + 1
    /\ UNCHANGED <<mainVars, acceptor, listVars, counterVars, fenceVars, kernelVars>>

\* HELLO: the connection belongs to the boot, registered or refused.
HelloFrame(c, b) ==
    /\ Frame(c)
    /\ threads' = [threads EXCEPT ![c].boot = b, ![c].pc = "next"]

FenceFrame(c, b) ==
    /\ Frame(c)
    /\ threads' = [threads EXCEPT ![c].fences = b, ![c].pc = "list"]

\* The chunk holds no further frame, or bytes that the assembler refuses.
NoFrame(c) ==
    /\ At(c, "next")
    /\ ServeLoops(c) \/ Leaves(c)
    /\ UnchangedButThreads

\* publication_fence: the list first, under worker_mutex, then the runtime.
ListBoot(c) ==
    /\ At(c, "list")
    /\ fenced_boot_list' = Append(fenced_boot_list, threads[c].fences)
    /\ Goes(c, "fence")
    /\ UNCHANGED <<mainVars, acceptor, listVars, counterVars, fenced, kernelVars, frames>>

FencedBy_FirstFrameOnly(c) == IF threads[c].leaving THEN {} ELSE {threads[c].fences}
FencedBy(c) == {threads[c].fences}

FenceRuntime(c) ==
    /\ At(c, "fence")
    /\ fenced' = fenced \cup FencedBy(c)
    /\ Goes(c, IF threads[c].leaving THEN "close" ELSE "next")
    /\ UNCHANGED <<mainVars, acceptor, listVars, counterVars, fenced_boot_list, kernelVars, frames>>

CloseSocket(c) ==
    /\ At(c, "close")
    /\ owner' = [owner EXCEPT ![handle[c]] = None]
    /\ Goes(c, "erase")
    /\ UNCHANGED <<mainVars, acceptor, listVars, counterVars, fenceVars, peer, backlog, handle, frames>>

\* Every entry with this handle is taken off the list, also one of a connection
\* that was given the number since it was closed.
Erase(c) ==
    /\ At(c, "erase")
    /\ LET same == {d \in worker_sockets : handle[d] = handle[c]} IN
         /\ worker_sockets' = worker_sockets \ same
         /\ forgotten' = forgotten \cup (same \ {c})
    /\ finished_workers' = finished_workers + 1
    /\ Goes(c, "done")
    /\ UNCHANGED <<mainVars, acceptor, accepted, rejected, fenceVars, kernelVars, frames>>

-----------------------------------------------------------------------------
(* start and stop.                                                         *)
Start ==
    /\ main = "down" /\ starts < MaxStarts
    /\ starts' = starts + 1
    /\ listening' = TRUE /\ running' = TRUE
    /\ main' = "up"
    /\ AcceptorGoes("accept", None)
    /\ UNCHANGED <<platform, listVars, counterVars, fenceVars, kernelVars, threads, frames>>

StopBegin ==
    /\ main = "up"
    /\ running' = FALSE
    /\ main' = "close_listener"
    /\ UNCHANGED <<platform, listening, starts, acceptor, listVars, counterVars, fenceVars, kernelVars, threads, frames>>

StopCloseListener ==
    /\ main = "close_listener"
    /\ listening' = FALSE
    /\ main' = "join_acceptor"
    /\ UNCHANGED <<platform, running, starts, acceptor, listVars, counterVars, fenceVars, kernelVars, threads, frames>>

AcceptorJoined_NotWaited == TRUE
AcceptorJoined == AcceptorAt("ended")

StopJoinAcceptor ==
    /\ main = "join_acceptor"
    /\ AcceptorJoined
    /\ main' = "close_workers"
    /\ UNCHANGED <<platform, running, listening, starts, acceptor, listVars, counterVars, fenceVars, kernelVars, threads, frames>>

ClosedByStop_None == {}
ClosedByStop == {handle[c] : c \in worker_sockets}

StopCloseWorkers ==
    /\ main = "close_workers"
    /\ owner' = [h \in Handles |-> IF h \in ClosedByStop THEN None ELSE owner[h]]
    /\ worker_sockets' = {}
    /\ main' = "join_workers"
    /\ UNCHANGED <<platform, running, listening, starts, acceptor, forgotten, counterVars, fenceVars, peer, backlog, handle, threads, frames>>

StopJoinWorkers ==
    /\ main = "join_workers"
    /\ \A c \in Connections : threads[c].pc \in {"none", "done"}
    /\ main' = "down"
    /\ UNCHANGED <<platform, running, listening, starts, acceptor, listVars, counterVars, fenceVars, kernelVars, threads, frames>>

-----------------------------------------------------------------------------
AcceptorStep == AcceptClient \/ AcceptFails \/ Admit \/ Reject \/ Spawn

\* What a thread does without waiting for its peer.
OwnStep(c) ==
    \/ ServeBegin(c) \/ RecvFails(c) \/ NoFrame(c)
    \/ ListBoot(c) \/ FenceRuntime(c) \/ CloseSocket(c) \/ Erase(c)

ThreadStep(c) ==
    \/ OwnStep(c)
    \/ \E b \in Boots : HelloFrame(c, b) \/ FenceFrame(c, b)

StopStep == StopCloseListener \/ StopJoinAcceptor \/ StopCloseWorkers \/ StopJoinWorkers

Next ==
    \/ Start \/ StopBegin \/ StopStep
    \/ AcceptorStep
    \/ \E c \in Connections : Arrive(c) \/ PeerGone(c) \/ ThreadStep(c)

Spec == Init /\ [][Next]_vars

\* Threads run.  Nothing is assumed of workers, nor that anyone calls stop.
FairSpec ==
    /\ Spec
    /\ WF_vars(AcceptorStep) /\ WF_vars(StopStep)
    /\ \A c \in Connections : WF_vars(OwnStep(c))

-----------------------------------------------------------------------------
(* Properties.                                                             *)
Stopping == main \notin {"up", "down"}
Live(c) == threads[c].pc \notin {"none", "done"}
HasLeft(c) == threads[c].pc = "done"
Listed == ToSet(fenced_boot_list)

\* The accept loop serves max_publishers connections at a time (distributed.cpp:519)
\* unless an entry was lost to a reused handle.
ConnectionsBounded == Cardinality({c \in Connections : Live(c)} \ forgotten) <= max_publishers

\* When wait_for_fenced_workers has counted as many departures as there were
\* connections, the boot of every one of them is listed and fenced in the
\* runtime, although the list alone is ahead of the runtime.
WaitIsSound ==
    finished_workers >= accepted =>
        /\ Listed \subseteq fenced
        /\ \A c \in Connections : HasLeft(c) /\ threads[c].boot # None => threads[c].boot \in Listed

\* When stop has returned no thread is left, also none that was started while
\* stop was running, no socket is open, and the boots of all connections are fenced.
StoppedIsQuiet ==
    main = "down" =>
        /\ ~running /\ ~listening /\ worker_sockets = {}
        /\ \A h \in Handles : owner[h] = None
        /\ \A c \in Connections :
             /\ ~Live(c)
             /\ threads[c].boot \in fenced \cup {None}

\* stop returns, where closing a socket ends the calls blocked on it, if no
\* worker stays connected whose entry was lost to a reused handle.
StopReturns ==
    Stopping /\ platform = "winsock" ~>
        ~Stopping \/ \E c \in forgotten : Live(c) /\ peer[c] = "connected"
=============================================================================
