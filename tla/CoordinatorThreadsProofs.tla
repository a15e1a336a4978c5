---------------------- MODULE CoordinatorThreadsProofs ----------------------
(***************************************************************************)
(* The coordinator's threads, for every number of connections, handles,    *)
(* boots, frames, calls of start and admitted publishers, on both kinds of *)
(* socket: what stop leaves behind, what wait_for_fenced_workers may       *)
(* conclude from its count, and how many connections are served at a time. *)
(***************************************************************************)
EXTENDS CoordinatorThreads, FiniteSetTheorems, TLAPS

ThreadPcs == {"none", "begin", "recv", "next", "list", "fence", "close", "erase", "done"}
AcceptorPcs == {"none", "accept", "admit", "spawn", "ended"}
MainPcs == {"down", "up", "close_listener", "join_acceptor", "close_workers", "join_workers"}

ThreadState ==
    [pc : ThreadPcs, boot : Boots \cup {None}, fences : Boots \cup {None}, leaving : BOOLEAN]

ThreadsTypeOK ==
    /\ running \in BOOLEAN /\ listening \in BOOLEAN
    /\ main \in MainPcs
    /\ acceptor \in [pc : AcceptorPcs, client : Connections \cup {None}]
    /\ worker_sockets \in SUBSET Connections
    /\ accepted \in Nat /\ finished_workers \in Nat
    /\ fenced_boot_list \in Seq(Boots) /\ fenced \in SUBSET Boots
    /\ threads \in [Connections -> ThreadState]
    /\ peer \in [Connections -> {"away", "connected", "gone"}]
    /\ backlog \in Seq(Connections)
    /\ handle \in [Connections -> Handles \cup {None}]
    /\ owner \in [Handles -> Connections \cup {None}]

-----------------------------------------------------------------------------
(* The inductive invariant.                                                *)

\* A connection that accept has not returned yet is nobody's.
Fresh(c) == threads[c] = NoThread /\ c # acceptor.client

\* A connection waits for accept at most once, and only before it is served.
ArrivalInv ==
    /\ \A i, j \in DOMAIN backlog : backlog[i] = backlog[j] => i = j
    /\ \A i \in DOMAIN backlog : peer[backlog[i]] # "away" /\ Fresh(backlog[i])
    /\ \A c \in Connections : peer[c] = "away" => Fresh(c)

\* The accept thread holds a connection from accept to the start of its thread.
AcceptorInv ==
    /\ acceptor.pc \in {"admit", "spawn"} <=> acceptor.client # None
    /\ acceptor.client # None =>
         /\ threads[acceptor.client] = NoThread
         /\ handle[acceptor.client] \in Handles
    /\ acceptor.pc = "spawn" => acceptor.client \in worker_sockets \cup forgotten

\* How far start and stop have come decides what may still be open.
StageInv ==
    /\ running <=> main = "up"
    /\ listening <=> main \in {"up", "close_listener"}
    /\ main \in {"close_workers", "join_workers"} => acceptor.pc = "ended"
    /\ main = "down" => acceptor.pc \in {"none", "ended"} /\ \A c \in Connections : ~Live(c)
    /\ main \in {"join_workers", "down"} => worker_sockets = {}

\* An open handle is one that the accept thread holds or that a thread has not closed yet.
SocketInv ==
    /\ \A c \in Connections : threads[c].pc # "none" => handle[c] \in Handles
    /\ \A h \in Handles : owner[h] # None =>
         /\ handle[owner[h]] = h
         /\ owner[h] = acceptor.client \/ threads[owner[h]].pc \notin {"none", "erase", "done"}

\* A thread past its fence has its boot listed and fenced; the list is ahead of
\* the runtime by the boots of the threads between the two.
FenceInv(c) ==
    /\ threads[c].pc = "none" => threads[c] = NoThread
    /\ threads[c].pc \in {"begin", "recv", "next"} => ~threads[c].leaving
    /\ threads[c].pc \in {"list", "fence"} =>
         /\ threads[c].fences \in Boots
         /\ threads[c].leaving => threads[c].fences = threads[c].boot
    /\ threads[c].pc = "fence" => threads[c].fences \in Listed
    /\ threads[c].pc \in {"close", "erase", "done"} /\ threads[c].boot # None =>
         threads[c].boot \in Listed /\ threads[c].boot \in fenced

BetweenListAndFence(b) == \E c \in Connections : At(c, "fence") /\ threads[c].fences = b

ListInv ==
    /\ \A c \in Connections : FenceInv(c)
    /\ \A b \in Listed : b \in fenced \/ BetweenListAndFence(b)

\* The counters count.
Spawned == {c \in Connections : threads[c].pc # "none"}
Departed == {c \in Connections : HasLeft(c)}

CountInv ==
    /\ accepted = Cardinality(Spawned)
    /\ finished_workers = Cardinality(Departed)

\* Until stop has emptied the list, a live connection has its entry or lost it.
Serving == {c \in Connections : Live(c)} \ forgotten

SlotInv ==
    /\ Cardinality(worker_sockets) <= max_publishers
    /\ main # "join_workers" => Serving \subseteq worker_sockets
    /\ ConnectionsBounded

ThreadsInv ==
    /\ ThreadsTypeOK
    /\ ArrivalInv
    /\ AcceptorInv
    /\ StageInv
    /\ SocketInv
    /\ ListInv
    /\ CountInv
    /\ SlotInv

-----------------------------------------------------------------------------
(* Typing.                                                                 *)

LEMMA ThreadsInitType == Init => ThreadsTypeOK
<1> SUFFICES ASSUME Init PROVE ThreadsTypeOK
  OBVIOUS
<1>1. NoThread \in ThreadState
  BY DEF NoThread, ThreadState, ThreadPcs
<1>2. threads \in [Connections -> ThreadState]
  BY <1>1 DEF Init
<1>3. acceptor \in [pc : AcceptorPcs, client : Connections \cup {None}]
  BY DEF Init, AcceptorPcs
<1>4. backlog \in Seq(Connections) /\ fenced_boot_list \in Seq(Boots)
  BY DEF Init
<1>5. handle \in [Connections -> Handles \cup {None}] /\ owner \in [Handles -> Connections \cup {None}]
  BY DEF Init
<1> QED
  BY <1>2, <1>3, <1>4, <1>5 DEF Init, ThreadsTypeOK, MainPcs

\* Moving one thread to another program point keeps the threads' table well typed.
LEMMA PcInRecord ==
  ASSUME NEW table \in [Connections -> ThreadState], NEW c, NEW pc \in ThreadPcs
  PROVE  [table EXCEPT ![c].pc = pc] \in [Connections -> ThreadState]
<1>1. ASSUME c \in Connections PROVE [table[c] EXCEPT !.pc = pc] \in ThreadState
  BY <1>1 DEF ThreadState
<1> QED
  BY <1>1

\* What the accept thread's steps keep of the types.
LEMMA AcceptorType ==
  ASSUME ThreadsInv, AcceptorStep
  PROVE  ThreadsTypeOK'
<1> USE DEF ThreadsInv, ThreadsTypeOK, AcceptorPcs
<1>1. CASE AcceptClient
  BY <1>1 DEF AcceptClient, AcceptorGoes, mainVars, listVars, counterVars, fenceVars
<1>2. CASE AcceptFails
  BY <1>2 DEF AcceptFails, AcceptorLoops, AcceptorGoes, mainVars, listVars, counterVars,
     fenceVars, kernelVars
<1>3. CASE Admit
  BY <1>3, ThreadsAssumption DEF Admit, AcceptorAt, AcceptorInv, AcceptorGoes, mainVars,
     counterVars, fenceVars, kernelVars
<1>4. CASE Reject
  BY <1>4 DEF Reject, AcceptorLoops, AcceptorGoes, mainVars, listVars, fenceVars
<1>5. CASE Spawn
  <2>1. threads' \in [Connections -> ThreadState]
    <3>1. "begin" \in ThreadPcs
      BY DEF ThreadPcs
    <3> QED
      BY <1>5, <3>1, PcInRecord DEF Spawn
  <2> QED
    BY <1>5, <2>1 DEF Spawn, AcceptorLoops, AcceptorGoes, mainVars, listVars, fenceVars, kernelVars
<1> QED
  BY <1>1, <1>2, <1>3, <1>4, <1>5 DEF AcceptorStep

LEMMA ThreadType ==
  ASSUME ThreadsInv, NEW c \in Connections, ThreadStep(c)
  PROVE  ThreadsTypeOK'
<1>0. threads \in [Connections -> ThreadState]
  BY DEF ThreadsInv, ThreadsTypeOK
<1>a. ASSUME NEW t \in ThreadState, threads' = [threads EXCEPT ![c] = t]
      PROVE  threads' \in [Connections -> ThreadState]
  BY <1>0, <1>a
<1>1. ASSUME Leaves(c) PROVE threads' \in [Connections -> ThreadState]
  <2>1. [threads[c] EXCEPT !.leaving = TRUE, !.fences = threads[c].boot,
           !.pc = IF threads[c].boot = None THEN "close" ELSE "list"] \in ThreadState
    BY <1>0 DEF ThreadState, ThreadPcs
  <2> QED
    BY <1>0, <1>1, <1>a, <2>1 DEF Leaves
<1>2. ASSUME NEW pc \in ThreadPcs, Goes(c, pc) PROVE threads' \in [Connections -> ThreadState]
  <2>1. [threads[c] EXCEPT !.pc = pc] \in ThreadState
    BY <1>0 DEF ThreadState
  <2> QED
    BY <1>0, <1>2, <1>a, <2>1 DEF Goes
<1> USE DEF ThreadsInv, ThreadsTypeOK, ThreadPcs
<1>3. ASSUME ServeLoops(c) PROVE threads' \in [Connections -> ThreadState]
  BY <1>1, <1>2, <1>3 DEF ServeLoops
<1>4. CASE ServeBegin(c) \/ RecvFails(c) \/ NoFrame(c)
  <2>1. threads' \in [Connections -> ThreadState]
    BY <1>1, <1>3, <1>4 DEF ServeBegin, RecvFails, NoFrame
  <2> QED
    BY <1>4, <2>1 DEF ServeBegin, RecvFails, NoFrame, UnchangedButThreads, mainVars, listVars,
       counterVars, fenceVars, kernelVars
<1>5. ASSUME NEW b \in Boots, HelloFrame(c, b) \/ FenceFrame(c, b) PROVE ThreadsTypeOK'
  <2>1. /\ [threads[c] EXCEPT !.boot = b, !.pc = "next"] \in ThreadState
        /\ [threads[c] EXCEPT !.fences = b, !.pc = "list"] \in ThreadState
    BY <1>0 DEF ThreadState
  <2>2. threads' \in [Connections -> ThreadState]
    BY <1>0, <1>5, <1>a, <2>1 DEF HelloFrame, FenceFrame
  <2> QED
    BY <1>5, <2>2 DEF HelloFrame, FenceFrame, Frame, mainVars, listVars, counterVars, fenceVars,
       kernelVars
<1>6. CASE ListBoot(c)
  <2>1. threads' \in [Connections -> ThreadState]
    BY <1>2, <1>6 DEF ListBoot
  <2>2. threads[c].fences \in Boots
    BY <1>6 DEF ListBoot, At, ListInv, FenceInv
  <2> QED
    BY <1>6, <2>1, <2>2 DEF ListBoot, mainVars, listVars, counterVars, kernelVars
<1>7. CASE FenceRuntime(c)
  <2>1. threads' \in [Connections -> ThreadState]
    BY <1>2, <1>7 DEF FenceRuntime
  <2>2. threads[c].fences \in Boots
    BY <1>7 DEF FenceRuntime, At, ListInv, FenceInv
  <2> QED
    BY <1>7, <2>1, <2>2 DEF FenceRuntime, FencedBy, mainVars, listVars, counterVars, kernelVars
<1>8. CASE CloseSocket(c)
  <2>1. threads' \in [Connections -> ThreadState]
    BY <1>2, <1>8 DEF CloseSocket
  <2> QED
    BY <1>8, <2>1 DEF CloseSocket, mainVars, listVars, counterVars, fenceVars
<1>9. CASE Erase(c)
  <2>1. threads' \in [Connections -> ThreadState]
    BY <1>2, <1>9 DEF Erase
  <2> QED
    BY <1>9, <2>1 DEF Erase, mainVars, fenceVars, kernelVars
<1> QED
  BY <1>4, <1>5, <1>6, <1>7, <1>8, <1>9 DEF ThreadStep, OwnStep

LEMMA MainType ==
  ASSUME ThreadsInv, Start \/ StopBegin \/ StopStep
  PROVE  ThreadsTypeOK'
<1> USE DEF ThreadsInv, ThreadsTypeOK, MainPcs, AcceptorPcs, listVars, counterVars, fenceVars,
    kernelVars
<1>1. CASE Start
  BY <1>1 DEF Start, AcceptorGoes
<1>2. CASE StopBegin
  BY <1>2 DEF StopBegin
<1>3. CASE StopCloseListener \/ StopJoinAcceptor \/ StopJoinWorkers
  BY <1>3 DEF StopCloseListener, StopJoinAcceptor, StopJoinWorkers
<1>4. CASE StopCloseWorkers
  BY <1>4 DEF StopCloseWorkers
<1> QED
  BY <1>1, <1>2, <1>3, <1>4 DEF StopStep

LEMMA WorkerType ==
  ASSUME ThreadsInv, NEW c \in Connections, Arrive(c) \/ PeerGone(c)
  PROVE  ThreadsTypeOK'
<1> USE DEF ThreadsInv, ThreadsTypeOK, mainVars, listVars, counterVars, fenceVars
<1>1. CASE Arrive(c)
  <2>1. backlog' \in Seq(Connections) /\ peer' \in [Connections -> {"away", "connected", "gone"}]
    BY <1>1 DEF Arrive
  <2> QED
    BY <1>1, <2>1 DEF Arrive
<1>2. CASE PeerGone(c)
  BY <1>2 DEF PeerGone
<1> QED
  BY <1>1, <1>2

LEMMA StutterKeepsThreads ==
  ASSUME ThreadsInv, UNCHANGED vars
  PROVE  ThreadsInv'
<1>1. /\ UNCHANGED <<running, listening, main, acceptor, worker_sockets, accepted, finished_workers>>
      /\ UNCHANGED <<fenced_boot_list, fenced, threads, peer, backlog, handle, owner, forgotten>>
  BY DEF vars, mainVars, listVars, counterVars, fenceVars, kernelVars
<1> QED
  BY <1>1 DEF ThreadsInv, ThreadsTypeOK, ArrivalInv, AcceptorInv, StageInv, SocketInv, ListInv,
     CountInv, SlotInv, Fresh, Live, FenceInv, Listed, BetweenListAndFence, At, Spawned, Departed,
     HasLeft, Serving, ConnectionsBounded

-----------------------------------------------------------------------------
(* What a step of a connection's thread touches.                           *)

Untouched == <<running, listening, main, acceptor, peer, backlog, handle, accepted>>

LEMMA ThreadEffect ==
  ASSUME ThreadsTypeOK, NEW c \in Connections, ThreadStep(c)
  PROVE  /\ UNCHANGED Untouched
         /\ \A d \in Connections : d # c => threads'[d] = threads[d]
         /\ threads[c].pc \notin {"none", "done"}
         /\ threads'[c].pc # "none"
         /\ threads'[c].pc = "done" <=> Erase(c)
<1>0. threads \in [Connections -> ThreadState]
  BY DEF ThreadsTypeOK
<1>1. ASSUME Leaves(c)
      PROVE  /\ \A d \in Connections : d # c => threads'[d] = threads[d]
             /\ threads'[c].pc \in {"close", "list"}
  BY <1>0, <1>1 DEF Leaves, ThreadState
<1>2. ASSUME NEW pc, Goes(c, pc)
      PROVE  /\ \A d \in Connections : d # c => threads'[d] = threads[d]
             /\ threads'[c].pc = pc
  BY <1>0, <1>2 DEF Goes, ThreadState
<1>3. ASSUME ServeLoops(c)
      PROVE  /\ \A d \in Connections : d # c => threads'[d] = threads[d]
             /\ threads'[c].pc \in {"recv", "close", "list"}
  BY <1>1, <1>2, <1>3 DEF ServeLoops
<1> USE DEF Untouched, At, mainVars, counterVars, kernelVars
<1>4. CASE ServeBegin(c) \/ RecvFails(c) \/ NoFrame(c)
  BY <1>1, <1>3, <1>4 DEF ServeBegin, RecvFails, NoFrame, Erase, UnchangedButThreads
<1>5. ASSUME NEW b \in Boots, HelloFrame(c, b) \/ FenceFrame(c, b)
      PROVE  /\ UNCHANGED Untouched
             /\ \A d \in Connections : d # c => threads'[d] = threads[d]
             /\ threads[c].pc \in {"next", "recv"}
             /\ threads'[c].pc \in {"next", "list"}
  BY <1>0, <1>5 DEF HelloFrame, FenceFrame, Frame, HasFrame, ThreadState
<1>6. CASE ListBoot(c)
  BY <1>2, <1>6 DEF ListBoot, Erase
<1>7. CASE FenceRuntime(c)
  BY <1>2, <1>7 DEF FenceRuntime, Erase
<1>8. CASE CloseSocket(c)
  BY <1>2, <1>8 DEF CloseSocket, Erase
<1>9. CASE Erase(c)
  BY <1>2, <1>9 DEF Erase
<1> QED
  BY <1>4, <1>5, <1>6, <1>7, <1>8, <1>9 DEF ThreadStep, OwnStep, Erase

-----------------------------------------------------------------------------
(* Arrival and the accept thread.                                          *)

LEMMA ArrivalStep ==
  ASSUME ThreadsInv, Next
  PROVE  ArrivalInv'
<1>0. ThreadsTypeOK /\ ArrivalInv /\ AcceptorInv
  BY DEF ThreadsInv
<1> USE DEF ArrivalInv, Fresh
<1>1. ASSUME NEW c \in Connections, ThreadStep(c) PROVE ArrivalInv'
  <2>1. ASSUME NEW d \in Connections, Fresh(d) PROVE Fresh(d)'
    BY <1>0, <1>1, <2>1, ThreadEffect DEF NoThread, Untouched
  <2>2. UNCHANGED <<peer, backlog>>
    BY <1>0, <1>1, ThreadEffect DEF Untouched
  <2> QED
    BY <1>0, <2>1, <2>2 DEF ThreadsTypeOK
<1>2. ASSUME NEW c \in Connections, Arrive(c) PROVE ArrivalInv'
  <2>1. /\ peer[c] = "away" /\ peer' = [peer EXCEPT ![c] = "connected"]
        /\ backlog' = Append(backlog, c) /\ UNCHANGED <<threads, acceptor>>
    BY <1>2 DEF Arrive
  <2>2. /\ DOMAIN backlog = 1..Len(backlog) /\ DOMAIN backlog' = 1..(Len(backlog) + 1)
        /\ Len(backlog) \in Nat
        /\ \A i \in 1..Len(backlog) : backlog'[i] = backlog[i] /\ backlog[i] \in Connections
        /\ backlog'[Len(backlog) + 1] = c
    BY <1>0, <2>1 DEF ThreadsTypeOK
  <2>3. \A i \in 1..Len(backlog) : backlog[i] # c
    BY <1>0, <2>1, <2>2
  <2>4. \A i, j \in DOMAIN backlog' : backlog'[i] = backlog'[j] => i = j
    BY <1>0, <2>2, <2>3
  <2> QED
    BY <1>0, <2>1, <2>2, <2>4 DEF ThreadsTypeOK
<1>3. ASSUME NEW c \in Connections, PeerGone(c) PROVE ArrivalInv'
  BY <1>0, <1>3 DEF PeerGone, ThreadsTypeOK
<1>4. CASE AcceptClient
  <2>1. /\ backlog # <<>> /\ backlog' = Tail(backlog) /\ UNCHANGED <<threads, peer>>
        /\ acceptor' = [pc |-> "admit", client |-> Head(backlog)]
    BY <1>4 DEF AcceptClient, AcceptorGoes
  <2>2. /\ Len(backlog) \in Nat \ {0} /\ DOMAIN backlog = 1..Len(backlog)
        /\ DOMAIN backlog' = 1..(Len(backlog) - 1)
        /\ \A i \in DOMAIN backlog' : backlog'[i] = backlog[i + 1] /\ i + 1 \in DOMAIN backlog
        /\ 1 \in DOMAIN backlog /\ Head(backlog) = backlog[1]
        /\ \A i \in DOMAIN backlog : backlog[i] \in Connections
    BY <1>0, <2>1 DEF ThreadsTypeOK
  <2>3. \A i, j \in DOMAIN backlog' : backlog'[i] = backlog'[j] => i = j
    BY <1>0, <2>2
  <2>4. \A i \in DOMAIN backlog' : backlog'[i] # Head(backlog)
    BY <1>0, <2>2
  <2> QED
    BY <1>0, <2>1, <2>2, <2>3, <2>4
<1>5. CASE Admit
  BY <1>0, <1>5 DEF Admit, AcceptorGoes, kernelVars, ThreadsTypeOK
<1>6. CASE AcceptFails \/ Reject
  <2>1. UNCHANGED <<threads, peer, backlog>> /\ acceptor'.client = None
    BY <1>6 DEF AcceptFails, Reject, AcceptorLoops, AcceptorGoes, kernelVars
  <2> QED
    BY <1>0, <2>1, ThreadsAssumption DEF ThreadsTypeOK
<1>7. CASE Spawn
  <2>1. /\ acceptor.client \in Connections
        /\ \A d \in Connections : d # acceptor.client => threads'[d] = threads[d]
        /\ UNCHANGED <<peer, backlog>> /\ acceptor'.client = None
    BY <1>0, <1>7 DEF Spawn, AcceptorAt, AcceptorInv, AcceptorLoops, AcceptorGoes, kernelVars,
       ThreadsTypeOK
  <2> QED
    BY <1>0, <2>1, ThreadsAssumption DEF ThreadsTypeOK
<1>8. CASE Start
  <2>1. UNCHANGED <<threads, peer, backlog>> /\ acceptor'.client = None
    BY <1>8 DEF Start, AcceptorGoes, kernelVars
  <2> QED
    BY <1>0, <2>1, ThreadsAssumption DEF ThreadsTypeOK
<1>9. CASE StopBegin \/ StopStep
  BY <1>0, <1>9 DEF StopBegin, StopStep, StopCloseListener, StopJoinAcceptor, StopCloseWorkers,
     StopJoinWorkers, kernelVars
<1> QED
  BY <1>1, <1>2, <1>3, <1>4, <1>5, <1>6, <1>7, <1>8, <1>9 DEF Next, AcceptorStep

LEMMA AcceptorStepInv ==
  ASSUME ThreadsInv, Next
  PROVE  AcceptorInv'
<1>0. ThreadsTypeOK /\ ArrivalInv /\ AcceptorInv /\ StageInv
  BY DEF ThreadsInv
<1> USE DEF AcceptorInv
<1>1. ASSUME NEW c \in Connections, ThreadStep(c) PROVE AcceptorInv'
  <2>1. UNCHANGED <<acceptor, handle>>
    BY <1>0, <1>1, ThreadEffect DEF Untouched
  <2>2. acceptor.client # None => acceptor.client # c /\ acceptor.client \in Connections
    BY <1>0, <1>1, ThreadEffect DEF NoThread, ThreadsTypeOK
  <2>3. acceptor.client # None => threads'[acceptor.client] = threads[acceptor.client]
    BY <1>0, <1>1, <2>2, ThreadEffect
  <2>4. ASSUME NEW d \in (worker_sockets \cup forgotten), d # c
        PROVE  d \in (worker_sockets \cup forgotten)'
    <3>1. CASE Erase(c)
      BY <2>4, <3>1 DEF Erase
    <3>2. CASE ~Erase(c)
      BY <1>1, <2>4, <3>2 DEF ThreadStep, OwnStep, ServeBegin, RecvFails, NoFrame,
         UnchangedButThreads, HelloFrame, FenceFrame, Frame, ListBoot, FenceRuntime, CloseSocket,
         listVars
    <3> QED
      BY <3>1, <3>2
  <2> QED
    BY <1>0, <2>1, <2>2, <2>3, <2>4
<1>2. ASSUME NEW c \in Connections, Arrive(c) \/ PeerGone(c) PROVE AcceptorInv'
  BY <1>0, <1>2 DEF Arrive, PeerGone, listVars
<1>3. CASE AcceptClient
  <2>1. PICK h \in Handles : handle' = [handle EXCEPT ![Head(backlog)] = h]
    BY <1>3 DEF AcceptClient
  <2>2. /\ 1 \in DOMAIN backlog /\ Head(backlog) = backlog[1]
        /\ Head(backlog) \in Connections
    BY <1>0, <1>3 DEF AcceptClient, ThreadsTypeOK
  <2>3. /\ acceptor' = [pc |-> "admit", client |-> Head(backlog)]
        /\ UNCHANGED <<threads, listVars>>
    BY <1>3 DEF AcceptClient, AcceptorGoes
  <2>4. handle'[Head(backlog)] = h
    BY <1>0, <2>1, <2>2 DEF ThreadsTypeOK
  <2> QED
    BY <1>0, <2>2, <2>3, <2>4, ThreadsAssumption DEF ArrivalInv, Fresh
<1>4. CASE Admit
  BY <1>0, <1>4 DEF Admit, AcceptorAt, AcceptorGoes, kernelVars
<1>5. CASE AcceptFails \/ Reject \/ Spawn \/ Start
  <2>1. acceptor'.client = None /\ acceptor'.pc \notin {"admit", "spawn"}
    BY <1>5 DEF AcceptFails, Reject, Spawn, Start, AcceptorLoops, AcceptorGoes
  <2> QED
    BY <2>1
<1>6. CASE StopBegin \/ StopStep
  <2>1. UNCHANGED <<threads, acceptor, handle, forgotten>>
    BY <1>6 DEF StopBegin, StopStep, StopCloseListener, StopJoinAcceptor, StopCloseWorkers,
     StopJoinWorkers, kernelVars, listVars
  <2>2. acceptor.pc = "spawn" => worker_sockets' = worker_sockets
    BY <1>0, <1>6 DEF StageInv, StopBegin, StopStep, StopCloseListener, StopJoinAcceptor,
       StopCloseWorkers, StopJoinWorkers, listVars
  <2> QED
    BY <1>0, <2>1, <2>2
<1> QED
  BY <1>1, <1>2, <1>3, <1>4, <1>5, <1>6 DEF Next, AcceptorStep

-----------------------------------------------------------------------------
(* The stages of start and stop, and the open handles.                     *)

LEMMA StageStep ==
  ASSUME ThreadsInv, Next
  PROVE  StageInv'
<1>0. ThreadsTypeOK /\ AcceptorInv /\ StageInv
  BY DEF ThreadsInv
<1> USE DEF StageInv, Live
<1>1. ASSUME NEW c \in Connections, ThreadStep(c) PROVE StageInv'
  <2>1. UNCHANGED <<running, listening, main, acceptor>> /\ main # "down"
    BY <1>0, <1>1, ThreadEffect DEF Untouched
  <2>2. worker_sockets' \subseteq worker_sockets
    BY <1>1 DEF ThreadStep, OwnStep, ServeBegin, RecvFails, NoFrame, UnchangedButThreads,
       HelloFrame, FenceFrame, Frame, ListBoot, FenceRuntime, CloseSocket, Erase, listVars
  <2> QED
    BY <1>0, <2>1, <2>2
<1>2. ASSUME NEW c \in Connections, Arrive(c) \/ PeerGone(c) PROVE StageInv'
  BY <1>0, <1>2 DEF Arrive, PeerGone, mainVars, listVars
<1>3. CASE AcceptorStep
  <2>1. acceptor.pc \notin {"none", "ended"} /\ UNCHANGED <<running, listening, main>>
    BY <1>3 DEF AcceptorStep, AcceptClient, AcceptFails, Admit, Reject, Spawn, AcceptorAt, mainVars
  <2> QED
    BY <1>0, <2>1
<1>4. CASE Start
  BY <1>0, <1>4 DEF Start, AcceptorGoes, MainPcs
<1>5. CASE StopBegin
  BY <1>0, <1>5 DEF StopBegin, listVars
<1>6. CASE StopCloseListener
  BY <1>0, <1>6 DEF StopCloseListener, listVars
<1>7. CASE StopJoinAcceptor
  BY <1>0, <1>7 DEF StopJoinAcceptor, AcceptorJoined, AcceptorAt, listVars
<1>8. CASE StopCloseWorkers
  BY <1>0, <1>8 DEF StopCloseWorkers
<1>9. CASE StopJoinWorkers
  BY <1>0, <1>9 DEF StopJoinWorkers, listVars
<1> QED
  BY <1>1, <1>2, <1>3, <1>4, <1>5, <1>6, <1>7, <1>8, <1>9 DEF Next, StopStep

LEMMA SocketStep ==
  ASSUME ThreadsInv, Next
  PROVE  SocketInv'
<1>0. ThreadsTypeOK /\ ArrivalInv /\ AcceptorInv /\ StageInv /\ SocketInv
  BY DEF ThreadsInv
<1> USE DEF SocketInv
<1>1. ASSUME NEW c \in Connections, ThreadStep(c) PROVE SocketInv'
  <2>1. /\ UNCHANGED <<acceptor, handle>>
        /\ \A d \in Connections : d # c => threads'[d] = threads[d]
        /\ threads[c].pc # "none"
    BY <1>0, <1>1, ThreadEffect DEF Untouched
  <2>2. CASE CloseSocket(c)
    <3>1. /\ owner' = [owner EXCEPT ![handle[c]] = None] /\ handle[c] \in Handles
          /\ \A h \in Handles : owner[h] = c => h = handle[c]
      BY <1>0, <2>1, <2>2, ThreadsAssumption DEF CloseSocket, ThreadsTypeOK
    <3>2. \A h \in Handles : owner'[h] # None => owner'[h] = owner[h] /\ owner[h] # c
      BY <1>0, <3>1 DEF ThreadsTypeOK
    <3> QED
      BY <1>0, <2>1, <3>2 DEF ThreadsTypeOK
  <2>3. CASE Erase(c)
    <3>1. UNCHANGED owner /\ \A h \in Handles : owner[h] = c => owner[h] = acceptor.client
      BY <1>0, <2>3, ThreadsAssumption DEF Erase, At, kernelVars
    <3> QED
      BY <1>0, <2>1, <3>1 DEF ThreadsTypeOK
  <2>4. CASE ~CloseSocket(c) /\ ~Erase(c)
    <3>1. UNCHANGED owner
      BY <1>1, <2>4 DEF ThreadStep, OwnStep, ServeBegin, RecvFails, NoFrame, UnchangedButThreads,
         HelloFrame, FenceFrame, Frame, ListBoot, FenceRuntime, kernelVars
    <3>2. threads'[c].pc \notin {"none", "erase", "done"}
      <4>0. threads \in [Connections -> ThreadState]
        BY <1>0 DEF ThreadsTypeOK
      <4>1. Leaves(c) => threads'[c].pc \in {"close", "list"}
        BY <4>0 DEF Leaves, ThreadState
      <4>2. \A pc \in ThreadPcs : Goes(c, pc) => threads'[c].pc = pc
        BY <4>0 DEF Goes, ThreadState
      <4>3. ServeLoops(c) => threads'[c].pc \in {"recv", "close", "list"}
        BY <4>1, <4>2 DEF ServeLoops, ThreadPcs
      <4>4. CASE ServeBegin(c) \/ RecvFails(c) \/ NoFrame(c)
        BY <4>1, <4>3, <4>4 DEF ServeBegin, RecvFails, NoFrame
      <4>5. ASSUME NEW b \in Boots, HelloFrame(c, b) \/ FenceFrame(c, b)
            PROVE  threads'[c].pc \in {"next", "list"}
        BY <4>0, <4>5 DEF HelloFrame, FenceFrame, ThreadState
      <4>6. CASE ListBoot(c) \/ FenceRuntime(c)
        BY <4>2, <4>6 DEF ListBoot, FenceRuntime, ThreadPcs
      <4> QED
        BY <1>1, <2>4, <4>4, <4>5, <4>6 DEF ThreadStep, OwnStep
    <3> QED
      BY <1>0, <2>1, <3>1, <3>2 DEF ThreadsTypeOK
  <2> QED
    BY <2>2, <2>3, <2>4
<1>2. ASSUME NEW c \in Connections, Arrive(c) \/ PeerGone(c) PROVE SocketInv'
  BY <1>0, <1>2 DEF Arrive, PeerGone
<1>3. CASE AcceptClient
  <2>1. PICK h \in Handles : /\ owner[h] = None
                             /\ handle' = [handle EXCEPT ![Head(backlog)] = h]
                             /\ owner' = [owner EXCEPT ![h] = Head(backlog)]
    BY <1>3 DEF AcceptClient
  <2>2. /\ Head(backlog) \in Connections /\ Fresh(Head(backlog))
        /\ acceptor'.client = Head(backlog) /\ UNCHANGED threads
        /\ acceptor.client = None
    <3>1. 1 \in DOMAIN backlog /\ Head(backlog) = backlog[1] /\ Head(backlog) \in Connections
      BY <1>0, <1>3 DEF AcceptClient, ThreadsTypeOK
    <3> QED
      BY <1>0, <1>3, <3>1 DEF AcceptClient, AcceptorAt, AcceptorGoes, ArrivalInv, AcceptorInv
  <2>3. \A g \in Handles : owner[g] # Head(backlog)
    BY <1>0, <2>2, ThreadsAssumption DEF Fresh, NoThread
  <2>4. \A g \in Handles : g # h /\ owner'[g] # None =>
           owner'[g] = owner[g] /\ owner[g] \in Connections /\ owner[g] # Head(backlog)
    BY <1>0, <2>1, <2>3 DEF ThreadsTypeOK
  <2>5. owner'[h] = Head(backlog) /\ handle'[Head(backlog)] = h
    BY <1>0, <2>1, <2>2 DEF ThreadsTypeOK
  <2>6. \A d \in Connections : d # Head(backlog) => handle'[d] = handle[d]
    BY <1>0, <2>1 DEF ThreadsTypeOK
  <2>7. \A d \in Connections : threads'[d].pc # "none" => handle'[d] \in Handles
    BY <1>0, <2>2, <2>5, <2>6
  <2>8. ASSUME NEW g \in Handles, owner'[g] # None
        PROVE  /\ handle'[owner'[g]] = g
               /\ owner'[g] = acceptor'.client \/ threads'[owner'[g]].pc \notin {"none", "erase", "done"}
    BY <1>0, <2>2, <2>4, <2>5, <2>6, <2>8
  <2> QED
    BY <2>7, <2>8
<1>4. CASE AcceptFails
  BY <1>0, <1>4 DEF AcceptFails, AcceptorAt, AcceptorLoops, AcceptorGoes, AcceptorInv, kernelVars
<1>5. CASE Admit
  BY <1>0, <1>5 DEF Admit, AcceptorGoes, kernelVars
<1>6. CASE Reject
  <2>1. /\ acceptor.client \in Connections /\ handle[acceptor.client] \in Handles
        /\ owner' = [owner EXCEPT ![handle[acceptor.client]] = None]
        /\ UNCHANGED <<handle, threads>>
    BY <1>0, <1>6 DEF Reject, AcceptorAt, AcceptorInv, ThreadsTypeOK
  <2>2. \A h \in Handles : owner'[h] # None => owner'[h] = owner[h] /\ owner[h] # acceptor.client
    BY <1>0, <2>1, ThreadsAssumption DEF ThreadsTypeOK
  <2> QED
    BY <1>0, <2>1, <2>2
<1>7. CASE Spawn
  <2>1. /\ acceptor.client \in Connections /\ handle[acceptor.client] \in Handles
        /\ \A d \in Connections : d # acceptor.client => threads'[d] = threads[d]
        /\ UNCHANGED <<handle, owner>>
    BY <1>0, <1>7 DEF Spawn, AcceptorAt, AcceptorInv, ThreadsTypeOK, kernelVars
  <2>2. threads'[acceptor.client].pc = "begin"
    BY <1>0, <1>7, <2>1 DEF Spawn, ThreadsTypeOK, ThreadState
  <2> QED
    BY <1>0, <2>1, <2>2 DEF ThreadsTypeOK
<1>8. CASE Start
  BY <1>0, <1>8, ThreadsAssumption DEF Start, AcceptorInv, StageInv, kernelVars, ThreadsTypeOK
<1>9. CASE StopBegin \/ StopStep
  <2>1. /\ UNCHANGED <<threads, acceptor, handle>>
        /\ \A h \in Handles : owner'[h] # None => owner'[h] = owner[h]
    BY <1>9 DEF StopBegin, StopStep, StopCloseListener, StopJoinAcceptor, StopCloseWorkers,
       StopJoinWorkers, kernelVars
  <2> QED
    BY <1>0, <2>1
<1> QED
  BY <1>1, <1>2, <1>3, <1>4, <1>5, <1>6, <1>7, <1>8, <1>9 DEF Next, AcceptorStep

-----------------------------------------------------------------------------
(* The list of fenced boots and the runtime.                               *)

LEMMA AppendToSet ==
  ASSUME NEW S, NEW s \in Seq(S), NEW x \in S
  PROVE  ToSet(Append(s, x)) = ToSet(s) \cup {x}
<1>1. /\ Len(s) \in Nat /\ DOMAIN s = 1..Len(s)
      /\ DOMAIN Append(s, x) = 1..(Len(s) + 1)
      /\ \A i \in 1..Len(s) : Append(s, x)[i] = s[i]
      /\ Append(s, x)[Len(s) + 1] = x
  OBVIOUS
<1>2. ASSUME NEW y \in ToSet(Append(s, x)) PROVE y \in ToSet(s) \cup {x}
  <2>1. PICK i \in 1..(Len(s) + 1) : y = Append(s, x)[i]
    BY <1>1, <1>2 DEF ToSet
  <2> QED
    BY <1>1, <2>1 DEF ToSet
<1>3. ASSUME NEW y \in ToSet(s) \cup {x} PROVE y \in ToSet(Append(s, x))
  <2>1. CASE y = x
    BY <1>1, <2>1 DEF ToSet
  <2>2. CASE y \in ToSet(s)
    <3>1. PICK i \in 1..Len(s) : y = s[i]
      BY <1>1, <2>2 DEF ToSet
    <3>2. i \in 1..(Len(s) + 1) /\ y = Append(s, x)[i]
      BY <1>1, <3>1
    <3> QED
      BY <1>1, <3>2 DEF ToSet
  <2> QED
    BY <1>3, <2>1, <2>2
<1> QED
  BY <1>2, <1>3

\* A step that leaves both lists alone keeps what another thread is promised.
LEMMA OthersKeepFences ==
  ASSUME NEW d \in Connections, FenceInv(d), threads'[d] = threads[d],
         Listed \subseteq Listed', fenced \subseteq fenced'
  PROVE  FenceInv(d)'
  BY DEF FenceInv, NoThread

LEMMA ListStep ==
  ASSUME ThreadsInv, Next
  PROVE  ListInv'
<1>0. ThreadsTypeOK /\ AcceptorInv /\ ListInv /\ threads \in [Connections -> ThreadState]
  BY DEF ThreadsInv, ThreadsTypeOK
<1>1. ASSUME UNCHANGED <<threads, fenced_boot_list, fenced>> PROVE ListInv'
  BY <1>0, <1>1 DEF ListInv, FenceInv, Listed, BetweenListAndFence, At, NoThread
\* A thread that is neither before nor after this step between the two lists.
<1>2. ASSUME NEW c \in Connections, UNCHANGED <<fenced_boot_list, fenced>>,
             \A d \in Connections : d # c => threads'[d] = threads[d],
             threads[c].pc # "fence", FenceInv(c)'
      PROVE  ListInv'
  <2>1. Listed' = Listed
    BY <1>2 DEF Listed
  <2>2. \A d \in Connections : FenceInv(d)'
    BY <1>0, <1>2, <2>1, OthersKeepFences DEF ListInv
  <2>3. \A b \in Listed : BetweenListAndFence(b) => BetweenListAndFence(b)'
    BY <1>2 DEF BetweenListAndFence, At
  <2> QED
    BY <1>0, <1>2, <2>1, <2>2, <2>3 DEF ListInv
<1>3. ASSUME NEW c \in Connections, ThreadStep(c) PROVE ListInv'
  <2>0. /\ \A d \in Connections : d # c => threads'[d] = threads[d]
        /\ FenceInv(c)
    BY <1>0, <1>3, ThreadEffect DEF ListInv
  <2>1. ASSUME Leaves(c), threads[c].pc \in {"begin", "recv", "next"},
               UNCHANGED <<fenced_boot_list, fenced>>
        PROVE  ListInv'
    <3>1. threads'[c] = [threads[c] EXCEPT !.leaving = TRUE, !.fences = threads[c].boot,
                           !.pc = IF threads[c].boot = None THEN "close" ELSE "list"]
      BY <1>0, <2>1 DEF Leaves
    <3>2. /\ threads'[c].leaving = TRUE /\ threads'[c].fences = threads[c].boot
          /\ threads'[c].boot = threads[c].boot
          /\ threads'[c].pc = IF threads[c].boot = None THEN "close" ELSE "list"
          /\ threads[c].boot \in Boots \cup {None}
      BY <1>0, <3>1 DEF ThreadState
    <3>3. FenceInv(c)'
      BY <3>2 DEF FenceInv
    <3> QED
      BY <1>2, <2>0, <2>1, <3>3
  <2>2. ASSUME ServeLoops(c), threads[c].pc \in {"begin", "recv", "next"},
               UNCHANGED <<fenced_boot_list, fenced>>
        PROVE  ListInv'
    <3>1. CASE Goes(c, "recv")
      <4>1. threads'[c].pc = "recv" /\ threads'[c].leaving = threads[c].leaving
        BY <1>0, <3>1 DEF Goes, ThreadState
      <4>2. FenceInv(c)'
        BY <2>0, <2>2, <4>1 DEF FenceInv
      <4> QED
        BY <1>2, <2>0, <2>2, <4>2
    <3> QED
      BY <2>1, <2>2, <3>1 DEF ServeLoops
  <2>3. CASE ServeBegin(c) \/ RecvFails(c) \/ NoFrame(c)
    BY <2>1, <2>2, <2>3 DEF ServeBegin, RecvFails, NoFrame, At, UnchangedButThreads, fenceVars
  <2>4. ASSUME NEW b \in Boots, HelloFrame(c, b) PROVE ListInv'
    <3>1. /\ threads'[c].pc = "next" /\ threads'[c].leaving = threads[c].leaving
          /\ threads[c].pc \in {"recv", "next"} /\ UNCHANGED <<fenced_boot_list, fenced>>
      BY <1>0, <2>4 DEF HelloFrame, Frame, HasFrame, At, ThreadState, fenceVars
    <3>2. FenceInv(c)'
      BY <2>0, <3>1 DEF FenceInv
    <3> QED
      BY <1>2, <2>0, <3>1, <3>2
  <2>5. ASSUME NEW b \in Boots, FenceFrame(c, b) PROVE ListInv'
    <3>1. /\ threads'[c].pc = "list" /\ threads'[c].leaving = threads[c].leaving
          /\ threads'[c].fences = b
          /\ threads[c].pc \in {"recv", "next"} /\ UNCHANGED <<fenced_boot_list, fenced>>
      BY <1>0, <2>5 DEF FenceFrame, Frame, HasFrame, At, ThreadState, fenceVars
    <3>2. FenceInv(c)'
      BY <2>0, <3>1 DEF FenceInv
    <3> QED
      BY <1>2, <2>0, <3>1, <3>2
  <2>6. CASE ListBoot(c)
    <3>1. /\ threads[c].pc = "list" /\ threads[c].fences \in Boots /\ UNCHANGED fenced
          /\ threads'[c].pc = "fence" /\ threads'[c].leaving = threads[c].leaving
          /\ threads'[c].fences = threads[c].fences /\ threads'[c].boot = threads[c].boot
      BY <1>0, <2>0, <2>6 DEF ListBoot, At, Goes, ThreadState, FenceInv
    <3>2. Listed' = Listed \cup {threads[c].fences}
      BY <1>0, <2>6, <3>1, AppendToSet DEF ListBoot, Listed, ThreadsTypeOK
    <3>3. FenceInv(c)'
      BY <2>0, <3>1, <3>2 DEF FenceInv
    <3>4. \A d \in Connections : FenceInv(d)'
      BY <1>0, <2>0, <3>1, <3>2, <3>3, OthersKeepFences DEF ListInv
    <3>5. \A b \in Listed : BetweenListAndFence(b) => BetweenListAndFence(b)'
      BY <2>0, <3>1 DEF BetweenListAndFence, At
    <3>6. BetweenListAndFence(threads[c].fences)'
      BY <3>1 DEF BetweenListAndFence, At
    <3> QED
      BY <1>0, <3>1, <3>2, <3>4, <3>5, <3>6 DEF ListInv
  <2>7. CASE FenceRuntime(c)
    <3>1. /\ threads[c].pc = "fence" /\ UNCHANGED fenced_boot_list
          /\ threads'[c].pc = (IF threads[c].leaving THEN "close" ELSE "next")
          /\ threads'[c].leaving = threads[c].leaving
          /\ threads'[c].fences = threads[c].fences /\ threads'[c].boot = threads[c].boot
          /\ fenced' = fenced \cup {threads[c].fences}
      BY <1>0, <2>7 DEF FenceRuntime, FencedBy, At, Goes, ThreadState
    <3>2. Listed' = Listed
      BY <3>1 DEF Listed
    <3>3. FenceInv(c)'
      BY <2>0, <3>1, <3>2 DEF FenceInv
    <3>4. \A d \in Connections : FenceInv(d)'
      BY <1>0, <2>0, <3>1, <3>2, <3>3, OthersKeepFences DEF ListInv
    <3>5. \A b \in Listed : BetweenListAndFence(b) => b \in fenced' \/ BetweenListAndFence(b)'
      BY <2>0, <3>1 DEF BetweenListAndFence, At
    <3> QED
      BY <1>0, <3>1, <3>2, <3>4, <3>5 DEF ListInv
  <2>8. CASE CloseSocket(c) \/ Erase(c)
    <3>1. /\ threads[c].pc \in {"close", "erase"} /\ threads'[c].pc \in {"erase", "done"}
          /\ threads'[c].boot = threads[c].boot /\ UNCHANGED <<fenced_boot_list, fenced>>
      BY <1>0, <2>8 DEF CloseSocket, Erase, At, Goes, ThreadState, fenceVars
    <3>2. FenceInv(c)'
      BY <2>0, <3>1 DEF FenceInv, Listed
    <3> QED
      BY <1>2, <2>0, <3>1, <3>2
  <2> QED
    BY <1>3, <2>3, <2>4, <2>5, <2>6, <2>7, <2>8 DEF ThreadStep, OwnStep
<1>4. CASE Spawn
  <2>0. PICK c \in Connections : c = acceptor.client
    BY <1>0, <1>4 DEF Spawn, AcceptorAt, AcceptorInv, ThreadsTypeOK
  <2>1. /\ threads[c] = NoThread /\ threads' = [threads EXCEPT ![c].pc = "begin"]
        /\ UNCHANGED <<fenced_boot_list, fenced>>
    BY <1>0, <1>4, <2>0, ThreadsAssumption DEF Spawn, AcceptorInv, fenceVars
  <2>2. threads'[c].pc = "begin" /\ ~threads'[c].leaving
    BY <1>0, <2>1 DEF NoThread
  <2>3. FenceInv(c)'
    BY <2>2 DEF FenceInv
  <2>4. \A d \in Connections : d # c => threads'[d] = threads[d]
    BY <1>0, <2>1
  <2>5. threads[c].pc # "fence"
    BY <2>1 DEF NoThread
  <2> QED
    BY <1>2, <2>1, <2>3, <2>4, <2>5
<1>5. CASE AcceptClient \/ AcceptFails \/ Admit \/ Reject
  BY <1>1, <1>5 DEF AcceptClient, AcceptFails, Admit, Reject, fenceVars
<1>6. CASE Start \/ StopBegin \/ StopStep
  BY <1>1, <1>6 DEF Start, StopBegin, StopStep, StopCloseListener, StopJoinAcceptor,
     StopCloseWorkers, StopJoinWorkers, fenceVars
<1>7. ASSUME NEW c \in Connections, Arrive(c) \/ PeerGone(c) PROVE ListInv'
  BY <1>1, <1>7 DEF Arrive, PeerGone, fenceVars
<1> QED
  BY <1>3, <1>4, <1>5, <1>6, <1>7 DEF Next, AcceptorStep

-----------------------------------------------------------------------------
(* The counters and the list of sockets.                                   *)

LEMMA ConnectionsFinite ==
  /\ IsFiniteSet(Connections)
  /\ \A S \in SUBSET Connections : IsFiniteSet(S) /\ Cardinality(S) \in Nat
<1>1. IsFiniteSet(1..MaxConnections)
  BY ThreadsAssumption, FS_Interval
<1> QED
  BY <1>1, FS_Subset, FS_CardinalityType DEF Connections

LEMMA CountStep ==
  ASSUME ThreadsInv, Next
  PROVE  CountInv'
<1>0. ThreadsTypeOK /\ AcceptorInv /\ CountInv /\ threads \in [Connections -> ThreadState]
  BY DEF ThreadsInv, ThreadsTypeOK
<1>a. Spawned \in SUBSET Connections /\ Departed \in SUBSET Connections
  BY DEF Spawned, Departed
<1>b. IsFiniteSet(Spawned) /\ IsFiniteSet(Departed)
  BY <1>a, ConnectionsFinite
<1>1. ASSUME UNCHANGED <<threads, accepted, finished_workers>> PROVE CountInv'
  BY <1>0, <1>1 DEF CountInv, Spawned, Departed, HasLeft
<1>2. ASSUME NEW c \in Connections, ThreadStep(c) PROVE CountInv'
  <2>0. /\ \A d \in Connections : d # c => threads'[d] = threads[d]
        /\ threads[c].pc \notin {"none", "done"} /\ threads'[c].pc # "none"
        /\ threads'[c].pc = "done" <=> Erase(c)
        /\ UNCHANGED accepted
    BY <1>0, <1>2, ThreadEffect DEF Untouched
  <2>1. Spawned' = Spawned
    BY <2>0 DEF Spawned
  <2>2. CASE Erase(c)
    <3>1. Departed' = Departed \cup {c} /\ c \notin Departed
      BY <2>0, <2>2 DEF Departed, HasLeft
    <3>2. Cardinality(Departed') = Cardinality(Departed) + 1
      BY <1>b, <3>1, FS_AddElement
    <3> QED
      BY <1>0, <2>0, <2>1, <2>2, <3>2 DEF CountInv, Erase
  <2>3. CASE ~Erase(c)
    <3>1. Departed' = Departed
      BY <2>0, <2>3 DEF Departed, HasLeft
    <3>2. UNCHANGED finished_workers
      BY <1>2, <2>3 DEF ThreadStep, OwnStep, ServeBegin, RecvFails, NoFrame, UnchangedButThreads,
         HelloFrame, FenceFrame, Frame, ListBoot, FenceRuntime, CloseSocket, counterVars
    <3> QED
      BY <1>0, <2>0, <2>1, <3>1, <3>2 DEF CountInv
  <2> QED
    BY <2>2, <2>3
<1>3. CASE Spawn
  <2>0. PICK c \in Connections : c = acceptor.client
    BY <1>0, <1>3 DEF Spawn, AcceptorAt, AcceptorInv, ThreadsTypeOK
  <2>1. /\ threads[c] = NoThread /\ threads' = [threads EXCEPT ![c].pc = "begin"]
        /\ accepted' = accepted + 1 /\ UNCHANGED finished_workers
    BY <1>0, <1>3, <2>0, ThreadsAssumption DEF Spawn, AcceptorInv
  <2>2. threads'[c].pc = "begin" /\ threads[c].pc = "none"
    BY <1>0, <2>1 DEF NoThread
  <2>3. \A d \in Connections : d # c => threads'[d] = threads[d]
    BY <1>0, <2>1
  <2>4. Departed' = Departed
    BY <2>2, <2>3 DEF Departed, HasLeft
  <2>5. Spawned' = Spawned \cup {c} /\ c \notin Spawned
    BY <2>2, <2>3 DEF Spawned
  <2>6. Cardinality(Spawned') = Cardinality(Spawned) + 1
    BY <1>b, <2>5, FS_AddElement
  <2> QED
    BY <1>0, <2>1, <2>4, <2>6 DEF CountInv
<1>4. CASE AcceptClient \/ AcceptFails \/ Admit \/ Reject
  BY <1>1, <1>4 DEF AcceptClient, AcceptFails, Admit, Reject, counterVars
<1>5. CASE Start \/ StopBegin \/ StopStep
  BY <1>1, <1>5 DEF Start, StopBegin, StopStep, StopCloseListener, StopJoinAcceptor,
     StopCloseWorkers, StopJoinWorkers, counterVars
<1>6. ASSUME NEW c \in Connections, Arrive(c) \/ PeerGone(c) PROVE CountInv'
  BY <1>1, <1>6 DEF Arrive, PeerGone, counterVars
<1> QED
  BY <1>2, <1>3, <1>4, <1>5, <1>6 DEF Next, AcceptorStep

LEMMA SlotStep ==
  ASSUME ThreadsInv, Next
  PROVE  SlotInv'
<1>0. /\ ThreadsTypeOK /\ AcceptorInv /\ StageInv /\ SlotInv
      /\ threads \in [Connections -> ThreadState] /\ worker_sockets \in SUBSET Connections
  BY DEF ThreadsInv, ThreadsTypeOK
<1>a. /\ Serving \in SUBSET Connections
      /\ IsFiniteSet(worker_sockets) /\ Cardinality(worker_sockets) \in Nat
      /\ IsFiniteSet(Serving) /\ Cardinality(Serving) \in Nat
  <2>1. Serving \in SUBSET Connections
    BY DEF Serving
  <2> QED
    BY <1>0, <2>1, ConnectionsFinite
<1>b. max_publishers \in Nat \ {0}
  BY ThreadsAssumption
<1> USE DEF SlotInv
\* Neither the list nor the set of those who are served grows.
<1>1. ASSUME worker_sockets' \subseteq worker_sockets, Serving' \subseteq Serving,
             main' # "join_workers" => Serving' \subseteq worker_sockets'
      PROVE  SlotInv'
  <2>1. Cardinality(worker_sockets') <= Cardinality(worker_sockets) /\ Cardinality(worker_sockets') \in Nat
    BY <1>a, <1>1, FS_Subset, FS_CardinalityType
  <2>2. Cardinality(Serving') <= Cardinality(Serving) /\ Cardinality(Serving') \in Nat
    BY <1>a, <1>1, FS_Subset, FS_CardinalityType
  <2>3. Cardinality(Serving') <= max_publishers
    BY <1>0, <1>a, <1>b, <2>2 DEF ConnectionsBounded, Serving
  <2>4. ConnectionsBounded'
    BY <2>3 DEF ConnectionsBounded, Serving
  <2> QED
    BY <1>0, <1>a, <1>b, <1>1, <2>1, <2>4
\* Whoever is served has an entry, and the list is within its bound.
<1>2. ASSUME Serving' \subseteq worker_sockets', worker_sockets' \subseteq Connections,
             Cardinality(worker_sockets') <= max_publishers
      PROVE  SlotInv'
  <2>1. /\ IsFiniteSet(worker_sockets') /\ Cardinality(worker_sockets') \in Nat
        /\ Cardinality(Serving') <= Cardinality(worker_sockets') /\ Cardinality(Serving') \in Nat
    BY <1>2, ConnectionsFinite, FS_Subset, FS_CardinalityType
  <2>2. Cardinality(Serving') <= max_publishers
    BY <1>b, <1>2, <2>1
  <2>3. ConnectionsBounded'
    BY <2>2 DEF ConnectionsBounded, Serving
  <2> QED
    BY <1>2, <2>3
<1>3. ASSUME UNCHANGED <<threads, worker_sockets, forgotten>>, main' = "join_workers" \/ main # "join_workers" \/ Serving = {}
      PROVE  SlotInv'
  <2>1. Serving' = Serving
    BY <1>3 DEF Serving, Live
  <2> QED
    BY <1>0, <1>1, <1>3, <2>1
<1>4. ASSUME NEW c \in Connections, ThreadStep(c) PROVE SlotInv'
  <2>0. /\ \A d \in Connections : d # c => threads'[d] = threads[d]
        /\ threads[c].pc \notin {"none", "done"}
        /\ threads'[c].pc = "done" <=> Erase(c)
        /\ UNCHANGED main
    BY <1>0, <1>4, ThreadEffect DEF Untouched
  <2>1. CASE Erase(c)
    <3>1. /\ worker_sockets' = worker_sockets \ {d \in worker_sockets : handle[d] = handle[c]}
          /\ forgotten' = forgotten \cup ({d \in worker_sockets : handle[d] = handle[c]} \ {c})
      BY <2>1 DEF Erase
    <3>2. Serving' \subseteq Serving /\ c \notin Serving'
      BY <2>0, <2>1, <3>1 DEF Serving, Live
    <3>3. \A d \in Serving' : d \in worker_sockets => d \in worker_sockets'
      BY <3>1, <3>2 DEF Serving
    <3> QED
      BY <1>0, <1>1, <2>0, <3>1, <3>2, <3>3
  <2>2. CASE ~Erase(c)
    <3>1. UNCHANGED <<worker_sockets, forgotten>>
      BY <1>4, <2>2 DEF ThreadStep, OwnStep, ServeBegin, RecvFails, NoFrame, UnchangedButThreads,
         HelloFrame, FenceFrame, Frame, ListBoot, FenceRuntime, CloseSocket, listVars
    <3>2. Serving' \subseteq Serving
      BY <2>0, <3>1 DEF Serving, Live
    <3> QED
      BY <1>0, <1>1, <2>0, <3>1, <3>2
  <2> QED
    BY <2>1, <2>2
<1>5. CASE Spawn
  <2>0. PICK c \in Connections : c = acceptor.client
    BY <1>0, <1>5 DEF Spawn, AcceptorAt, AcceptorInv, ThreadsTypeOK
  <2>1. /\ c \in worker_sockets \cup forgotten /\ threads' = [threads EXCEPT ![c].pc = "begin"]
        /\ UNCHANGED <<worker_sockets, forgotten, main>> /\ main # "join_workers"
    BY <1>0, <1>5, <2>0 DEF Spawn, AcceptorAt, AcceptorInv, StageInv, listVars, mainVars
  <2>2. \A d \in Connections : d # c => threads'[d] = threads[d]
    BY <1>0, <2>1
  <2>3. Serving' \subseteq Serving \cup ({c} \ forgotten)
    BY <2>1, <2>2 DEF Serving, Live
  <2> QED
    BY <1>0, <1>2, <2>1, <2>3
<1>6. CASE Admit
  <2>1. /\ acceptor.client \in Connections /\ UNCHANGED <<threads, forgotten, main>>
        /\ worker_sockets' = worker_sockets \cup {acceptor.client}
        /\ main # "join_workers" /\ Cardinality(worker_sockets) < max_publishers
    BY <1>0, <1>a, <1>b, <1>6 DEF Admit, ListIsFull, AcceptorAt, AcceptorInv, StageInv, mainVars,
       ThreadsTypeOK
  <2>2. Serving' = Serving
    BY <2>1 DEF Serving, Live
  <2>3. Cardinality(worker_sockets') <= Cardinality(worker_sockets) + 1 /\ Cardinality(worker_sockets') \in Nat
    <3>1. IsFiniteSet(worker_sockets') /\ Cardinality(worker_sockets') \in Nat
      BY <1>0, <2>1, ConnectionsFinite
    <3>2. Cardinality(worker_sockets \cup {acceptor.client}) =
            IF acceptor.client \in worker_sockets THEN Cardinality(worker_sockets)
            ELSE Cardinality(worker_sockets) + 1
      BY <1>a, FS_AddElement
    <3> QED
      BY <1>a, <2>1, <3>1, <3>2
  <2>4. Cardinality(worker_sockets') <= max_publishers
    BY <1>a, <1>b, <2>1, <2>3
  <2> QED
    BY <1>0, <1>2, <2>1, <2>2, <2>4
<1>7. CASE AcceptClient \/ AcceptFails \/ Reject
  BY <1>3, <1>7 DEF AcceptClient, AcceptFails, Reject, listVars, mainVars
<1>8. CASE Start \/ StopBegin \/ StopCloseListener \/ StopJoinAcceptor
  BY <1>3, <1>8 DEF Start, StopBegin, StopCloseListener, StopJoinAcceptor, listVars
<1>9. CASE StopCloseWorkers
  <2>1. Serving' = Serving /\ worker_sockets' = {} /\ main' = "join_workers"
    BY <1>9 DEF StopCloseWorkers, Serving, Live
  <2> QED
    BY <1>1, <2>1
<1>10. CASE StopJoinWorkers
  <2>1. Serving = {}
    BY <1>10 DEF StopJoinWorkers, Serving, Live
  <2> QED
    BY <1>3, <1>10, <2>1 DEF StopJoinWorkers, listVars
<1>11. ASSUME NEW c \in Connections, Arrive(c) \/ PeerGone(c) PROVE SlotInv'
  BY <1>3, <1>11 DEF Arrive, PeerGone, listVars, mainVars
<1> QED
  BY <1>4, <1>5, <1>6, <1>7, <1>8, <1>9, <1>10, <1>11 DEF Next, AcceptorStep, StopStep

-----------------------------------------------------------------------------
(* The theorems.                                                           *)

LEMMA ThreadsInit == Init => ThreadsInv
<1> SUFFICES ASSUME Init PROVE ThreadsInv
  OBVIOUS
<1>1. ThreadsTypeOK
  BY ThreadsInitType
<1>2. \A c \in Connections : threads[c] = NoThread /\ threads[c].pc = "none"
  BY DEF Init, NoThread
<1>3. backlog = <<>> /\ DOMAIN backlog = {} /\ fenced_boot_list = <<>> /\ Listed = {}
  BY DEF Init, Listed, ToSet
<1>4. ArrivalInv
  BY <1>2, <1>3, ThreadsAssumption DEF ArrivalInv, Fresh, Init
<1>5. AcceptorInv /\ StageInv
  BY <1>2 DEF AcceptorInv, StageInv, Live, Init
<1>6. SocketInv
  BY <1>2 DEF SocketInv, Init
<1>7. ListInv
  BY <1>2, <1>3 DEF ListInv, FenceInv
<1>8. Spawned = {} /\ Departed = {} /\ Serving = {} /\ worker_sockets = {}
  BY <1>2 DEF Spawned, Departed, HasLeft, Serving, Live, Init
<1>9. CountInv
  BY <1>8, FS_EmptySet DEF CountInv, Init
<1>10. SlotInv
  BY <1>8, FS_EmptySet, ThreadsAssumption DEF SlotInv, ConnectionsBounded, Serving
<1> QED
  BY <1>1, <1>4, <1>5, <1>6, <1>7, <1>9, <1>10 DEF ThreadsInv

LEMMA ThreadsStep == ThreadsInv /\ [Next]_vars => ThreadsInv'
<1> SUFFICES ASSUME ThreadsInv, [Next]_vars PROVE ThreadsInv'
  OBVIOUS
<1>1. CASE Next
  <2>1. ThreadsTypeOK'
    BY <1>1, AcceptorType, ThreadType, MainType, WorkerType DEF Next
  <2> QED
    BY <1>1, <2>1, ArrivalStep, AcceptorStepInv, StageStep, SocketStep, ListStep, CountStep,
       SlotStep DEF ThreadsInv
<1> QED
  BY <1>1, StutterKeepsThreads

\* The invariant is inductive: every behaviour of the coordinator's threads has it.
THEOREM ThreadsInvariant == Spec => []ThreadsInv
<1> QED
  BY ThreadsInit, ThreadsStep, PTL DEF Spec

\* For every max_publishers, the accept loop serves no more connections at a time,
\* except those whose entry another thread erased with a reused handle.
THEOREM ServesAtMostMaxPublishers == Spec => []ConnectionsBounded
<1>1. ThreadsInv => ConnectionsBounded
  BY DEF ThreadsInv, SlotInv
<1> QED
  BY <1>1, ThreadsInvariant, PTL

\* A caller of wait_for_fenced_workers that sees as many departures as connections
\* may conclude that every boot on the list is fenced in the runtime, and that
\* every connection that said HELLO has its boot there.
THEOREM WaitingIsSound == Spec => []WaitIsSound
<1>1. ThreadsInv => WaitIsSound
  <2> SUFFICES ASSUME ThreadsInv, finished_workers >= accepted
               PROVE  /\ Listed \subseteq fenced
                      /\ \A c \in Connections :
                           HasLeft(c) /\ threads[c].boot # None => threads[c].boot \in Listed
    BY DEF WaitIsSound
  <2>0. ListInv /\ CountInv
    BY DEF ThreadsInv
  <2>1. /\ Departed \subseteq Spawned
        /\ Spawned \in SUBSET Connections /\ Departed \in SUBSET Connections
    BY DEF Departed, Spawned, HasLeft
  <2>2. /\ IsFiniteSet(Spawned) /\ Cardinality(Spawned) \in Nat /\ Cardinality(Departed) \in Nat
    BY <2>1, ConnectionsFinite
  <2>3. Cardinality(Departed) <= Cardinality(Spawned)
    BY <2>1, <2>2, FS_Subset
  <2>4. Cardinality(Departed) = Cardinality(Spawned)
    BY <2>0, <2>2, <2>3 DEF CountInv
  <2>5. Departed = Spawned
    BY <2>1, <2>2, <2>4, FS_Subset
  <2>6. \A c \in Connections : ~At(c, "fence")
    BY <2>5 DEF Departed, Spawned, HasLeft, At
  <2>7. Listed \subseteq fenced
    BY <2>0, <2>6 DEF ListInv, BetweenListAndFence
  <2> QED
    BY <2>0, <2>7 DEF ListInv, FenceInv, HasLeft
<1> QED
  BY <1>1, ThreadsInvariant, PTL

\* When Impl::stop has returned, no matter which threads were being accepted,
\* served or departing when it was called: nothing runs, no socket is open, and
\* the boot of every connection there was is fenced.
THEOREM StopLeavesNothing == Spec => []StoppedIsQuiet
<1>1. ThreadsInv => StoppedIsQuiet
  <2> SUFFICES ASSUME ThreadsInv, main = "down"
               PROVE  /\ ~running /\ ~listening /\ worker_sockets = {}
                      /\ \A h \in Handles : owner[h] = None
                      /\ \A c \in Connections : ~Live(c) /\ threads[c].boot \in fenced \cup {None}
    BY DEF StoppedIsQuiet
  <2>0. ThreadsTypeOK /\ AcceptorInv /\ StageInv /\ SocketInv /\ ListInv
    BY DEF ThreadsInv
  <2>1. ~running /\ ~listening /\ worker_sockets = {} /\ \A c \in Connections : ~Live(c)
    BY <2>0 DEF StageInv
  <2>2. acceptor.client = None
    BY <2>0 DEF StageInv, AcceptorInv
  <2>3. \A h \in Handles : owner[h] = None
    BY <2>0, <2>1, <2>2 DEF SocketInv, Live, ThreadsTypeOK
  <2>4. \A c \in Connections : threads[c].boot \in fenced \cup {None}
    BY <2>0, <2>1 DEF ListInv, FenceInv, Live, NoThread
  <2> QED
    BY <2>1, <2>3, <2>4
<1> QED
  BY <1>1, ThreadsInvariant, PTL
=============================================================================
