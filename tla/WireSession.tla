---------------------------- MODULE WireSession ----------------------------
(***************************************************************************)
(* A worker's connections to the coordinator: DiversityClient and the      *)
(* connection threads of DiversityCoordinator, src/src/distributed.cpp.    *)
(*                                                                         *)
(* The client is used by one thread, which sends a request and waits for   *)
(* its reply.  A stream delivers bytes in order, in chunks of any size up  *)
(* to the receive buffer.  Either end may go at any point, and bytes on    *)
(* the way may go with it; a send to a peer that is gone is found out by   *)
(* the receive after it.  Limits are each end's own.  What a frame does to *)
(* the runtime is in Coordinator: here it has a size, and so has its reply.*)
(***************************************************************************)
EXTENDS FrameAssembler, SequencesExt

CONSTANTS
    client_limits, server_limits,   \* max_frame_bytes and max_wire_assembly_bytes
    kReceiveChunkBytes,
    RequestSizes, ReplySizes,       \* payload sizes
    MaxRequests, MaxConnections     \* bounds on what one worker does

Connections == 1..MaxConnections
Requests == 1..MaxRequests
None == 0

\* Room for a payload of that size: its frame, a byte short, and a chunk after it.
Fits(limits, size) ==
    limits.max_wire_assembly_bytes >= kWireHeaderBytes + size - 1 + kReceiveChunkBytes

\* What an end may refuse: a frame over its limit, or one it has no room for.
NoRoom(limits, size) == size > limits.max_frame_bytes \/ ~Fits(limits, size)

\* Limits keeps unsigned numbers, and a payload has a length.
Limits == [max_frame_bytes : Nat, max_wire_assembly_bytes : Nat]
ASSUME SizesAssumption ==
    /\ client_limits \in Limits /\ server_limits \in Limits
    /\ RequestSizes \subseteq Nat /\ ReplySizes \subseteq Nat
ASSUME BoundsAssumption == MaxRequests \in Nat /\ MaxConnections \in Nat

ASSUME ChunkAssumption == kReceiveChunkBytes \in Nat \ {0}

VARIABLES
    socket,         \* the client's connection, or None
    opened,         \* connections so far
    call,           \* the request the client is in, or None
    receiving,      \* whether that request is about to receive, rather than to look for a frame
    assembler,      \* the client's assembler
    up, down,       \* connection -> bytes on the way to the coordinator, and back
    threads,        \* connection -> its thread at the coordinator: "recv", "next" or "gone"
    assemblers,     \* connection -> the assembler of that thread
    requests,       \* requests so far
    sent, handled,  \* history: connection -> frames sent and frames handled
    replies,        \* history: connection -> replies handed to send_message
    returned        \* history: pairs of a request and the request its reply answers

clientVars == <<socket, opened, call, receiving, assembler, requests, returned>>
serverVars == <<threads, assemblers, handled, replies>>
vars == <<clientVars, serverVars, up, down, sent>>

Init ==
    /\ socket = None /\ opened = 0 /\ call = None /\ receiving = FALSE
    /\ assembler = NewAssembler
    /\ up = [c \in Connections |-> <<>>] /\ down = [c \in Connections |-> <<>>]
    /\ threads = [c \in Connections |-> "gone"]
    /\ assemblers = [c \in Connections |-> NewAssembler]
    /\ requests = 0 /\ returned = {}
    /\ sent = [c \in Connections |-> <<>>]
    /\ handled = [c \in Connections |-> <<>>] /\ replies = [c \in Connections |-> <<>>]

-----------------------------------------------------------------------------
(* The client.                                                             *)
ClearedAssembler_Kept == assembler
ClearedAssembler == NewAssembler

\* close, and a connect that fails.
Close ==
    /\ socket # None /\ call = None
    /\ socket' = None
    /\ assembler' = ClearedAssembler
    /\ UNCHANGED <<opened, call, receiving, requests, returned, serverVars, up, down, sent>>

\* connect closes the connection there is.  The accept loop takes the new one, or
\* closes it at max_publishers.
Connect ==
    /\ call = None
    /\ opened < MaxConnections
    /\ opened' = opened + 1
    /\ socket' = opened + 1
    /\ assembler' = ClearedAssembler
    /\ \E state \in {"recv", "gone"} : threads' = [threads EXCEPT ![opened + 1] = state]
    /\ UNCHANGED <<call, receiving, requests, returned>>
    /\ UNCHANGED <<assemblers, handled, replies, up, down, sent>>

\* The process is killed; its successor has a client of its own.
Die ==
    /\ socket # None
    /\ socket' = None /\ call' = None /\ receiving' = FALSE
    /\ assembler' = NewAssembler
    /\ UNCHANGED <<opened, requests, returned, serverVars, up, down, sent>>

\* A payload over the client's limit is refused before anything is sent.
Request(size) ==
    /\ socket # None /\ call = None
    /\ requests < MaxRequests
    /\ size <= client_limits.max_frame_bytes
    /\ LET frame == [request |-> requests + 1, size |-> size] IN
         /\ up' = [up EXCEPT ![socket] = @ \o EncodeFrame(frame, client_limits)]
         /\ sent' = [sent EXCEPT ![socket] = Append(@, frame)]
    /\ requests' = requests + 1
    /\ call' = requests + 1
    /\ receiving' = FALSE
    /\ UNCHANGED <<socket, opened, assembler, returned, serverVars, down>>

\* hello, publish_policy, publish_proof, revalidate, query, fence and ping: each
\* encodes its payload and makes one request.
ClientCall == \E size \in RequestSizes : Request(size)

\* The reply, a failure that stays, or more to receive.
ClientNext ==
    /\ call # None /\ ~receiving
    /\ LET status == NextStatus(assembler, client_limits) IN
         /\ receiving' = (status = "INCOMPLETE")
         /\ call' = IF status = "INCOMPLETE" THEN call ELSE None
         /\ returned' = IF status # "OK" THEN returned
                        ELSE returned \cup {<<call, NextFrame(assembler).request>>}
    /\ assembler' = AfterNext(assembler, client_limits)
    /\ UNCHANGED <<socket, opened, requests, serverVars, up, down, sent>>

Chunks(stream) == {n \in 1..kReceiveChunkBytes : n <= Len(stream)}
After(stream, n) == SubSeq(stream, n + 1, Len(stream))

ClientReceive ==
    /\ call # None /\ receiving
    /\ \E n \in Chunks(down[socket]) :
         /\ assembler' = AppendBytes(assembler, SubSeq(down[socket], 1, n), client_limits)
         /\ down' = [down EXCEPT ![socket] = After(@, n)]
    /\ receiving' = FALSE
    /\ UNCHANGED <<socket, opened, call, requests, returned, serverVars, up, sent>>

ClientReceiveFails_Interrupted ==
    /\ call # None /\ receiving
    /\ call' = None /\ receiving' = FALSE
    /\ UNCHANGED <<socket, opened, assembler, requests, returned, serverVars, up, down, sent>>

\* PEER_GONE: nothing more arrives.  The socket stays open, and the caller may
\* use it again.
ClientReceiveFails ==
    /\ call # None /\ receiving
    /\ threads[socket] = "gone"
    /\ call' = None /\ receiving' = FALSE
    /\ down' = [down EXCEPT ![socket] = <<>>]
    /\ UNCHANGED <<socket, opened, assembler, requests, returned, serverVars, up, sent>>

-----------------------------------------------------------------------------
(* The thread of a connection.                                             *)
ServerReceive(c) ==
    /\ threads[c] = "recv"
    /\ \E n \in Chunks(up[c]) :
         /\ assemblers' = [assemblers EXCEPT ![c] = AppendBytes(@, SubSeq(up[c], 1, n), server_limits)]
         /\ up' = [up EXCEPT ![c] = After(@, n)]
    /\ threads' = [threads EXCEPT ![c] = "next"]
    /\ UNCHANGED <<clientVars, handled, replies, down, sent>>

\* A reply over the limit is dropped by send_message.
ServerHandle(c) ==
    /\ threads[c] = "next"
    /\ NextStatus(assemblers[c], server_limits) = "OK"
    /\ LET frame == NextFrame(assemblers[c]) IN
         /\ handled' = [handled EXCEPT ![c] = Append(@, frame)]
         /\ \E size \in ReplySizes :
              LET reply == [request |-> frame.request, size |-> size] IN
                /\ down' = [down EXCEPT ![c] = @ \o EncodeFrame(reply, server_limits)]
                /\ replies' = [replies EXCEPT ![c] = Append(@, reply)]
    /\ assemblers' = [assemblers EXCEPT ![c] = AfterNext(@, server_limits)]
    /\ UNCHANGED <<clientVars, threads, up, sent>>

\* Nothing complete: receive again, or end on a status that stays.
ServerPause(c) ==
    /\ threads[c] = "next"
    /\ LET status == NextStatus(assemblers[c], server_limits) IN
         /\ status # "OK"
         /\ threads' = [threads EXCEPT ![c] = IF status = "INCOMPLETE" THEN "recv" ELSE "gone"]
    /\ assemblers' = [assemblers EXCEPT ![c] = AfterNext(@, server_limits)]
    /\ UNCHANGED <<clientVars, handled, replies, up, down, sent>>

ServerHangsUp(c) ==
    /\ threads[c] = "recv"
    /\ socket # c
    /\ threads' = [threads EXCEPT ![c] = "gone"]
    /\ UNCHANGED <<clientVars, assemblers, handled, replies, up, down, sent>>

\* The coordinator is killed, and started again for the next connection.
ServerDies ==
    /\ \E c \in Connections : threads[c] # "gone"
    /\ threads' = [c \in Connections |-> "gone"]
    /\ UNCHANGED <<clientVars, assemblers, handled, replies, up, down, sent>>

-----------------------------------------------------------------------------
ClientStep == ClientNext \/ ClientReceive \/ ClientReceiveFails
ServerStep(c) == ServerReceive(c) \/ ServerHandle(c) \/ ServerPause(c) \/ ServerHangsUp(c)

Next ==
    \/ Connect \/ Close \/ Die \/ ClientCall \/ ClientStep \/ ServerDies
    \/ \E c \in Connections : ServerStep(c)

\* A thread that can go on does.
Fairness == WF_vars(ClientStep) /\ \A c \in Connections : WF_vars(ServerStep(c))
Spec == Init /\ [][Next]_vars /\ Fairness

-----------------------------------------------------------------------------
(* Properties.                                                             *)
Encoded(frames) == FlattenSeq([i \in DOMAIN frames |-> Bytes(frames[i])])

\* However the stream is cut, a thread handles the frames that were sent, in
\* their order, none twice and none lost: what it handled, what it holds and
\* what is on the way are what was sent (FrameAssembler::append and next).
HandledInOrder ==
    \A c \in Connections : threads[c] # "gone" =>
        Encoded(handled[c]) \o Unconsumed(assemblers[c]) \o up[c] = Encoded(sent[c])

\* A request returns its own reply and never one of an earlier request or of an
\* earlier connection (DiversityClient::Impl::request).
ReplyIsOwn == \A p \in returned : p[1] = p[2]

\* The coordinator refuses a stream only where it carries a frame over the limit
\* or one there is no room for: however many frames came before it and however
\* the stream is cut, what was handled takes no room (FrameAssembler::append).
RefusesOnlyWithoutRoom ==
    \A c \in Connections : assemblers[c].status # "OK" =>
        \E i \in DOMAIN sent[c] : NoRoom(server_limits, sent[c][i].size)

\* A client that fails to read fails for a reply of the same connection that is
\* over its limit or that it has no room for: a new connection starts afresh
\* (DiversityClient::connect).
FreshAfterConnect ==
    assembler.status # "OK" =>
        /\ socket # None
        /\ \E i \in DOMAIN replies[socket] : NoRoom(client_limits, replies[socket][i].size)

\* The replies a connection's thread could not send.
Unsent == {r.request : r \in {x \in UNION {ToSet(replies[c]) : c \in Connections} :
                                x.size > server_limits.max_frame_bytes}}

\* A request returns, unless its reply was over the coordinator's limit: then
\* nothing is sent and the client, which has no timeout, waits for ever.
RequestReturns == \A q \in Requests : call = q ~> call # q \/ q \in Unsent

=============================================================================
