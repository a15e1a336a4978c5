--------------------------- MODULE FrameAssembler ---------------------------
(***************************************************************************)
(* Frames and their incremental assembly: src/src/wire.cpp.                *)
(*                                                                         *)
(* A byte is its frame and its place in it, so a header is readable only   *)
(* where a frame starts: what the magic and the integrity value detect in  *)
(* the code.  Both ends speak the version of this library and send defined *)
(* messages.                                                               *)
(***************************************************************************)
EXTENDS Naturals, Sequences

CONSTANT kWireHeaderBytes

ASSUME HeaderAssumption == kWireHeaderBytes \in Nat \ {0}

Bytes(frame) == [i \in 1..(kWireHeaderBytes + frame.size) |-> <<frame, i>>]

\* encode_frame: nothing, for a payload over the limit.
EncodeFrame(frame, limits) ==
    IF frame.size > limits.max_frame_bytes THEN <<>> ELSE Bytes(frame)

NewAssembler == [buffer |-> <<>>, consumed |-> 0, status |-> "OK"]

Unconsumed(a) == SubSeq(a.buffer, a.consumed + 1, Len(a.buffer))

AppendBytes_NothingErased(a, data, limits) ==
    IF a.status # "OK" THEN a
    ELSE LET buffer == a.buffer \o data
         IN  [buffer |-> buffer, consumed |-> a.consumed,
              status |-> IF Len(buffer) > limits.max_wire_assembly_bytes
                           THEN "ASSEMBLY_LIMIT_EXCEEDED" ELSE "OK"]
AppendBytes_OffsetOnly(a, data, limits) ==
    IF a.status # "OK" THEN a
    ELSE LET buffer == a.buffer \o data
         IN  [buffer |-> buffer, consumed |-> 0,
              status |-> IF Len(buffer) > limits.max_wire_assembly_bytes
                           THEN "ASSEMBLY_LIMIT_EXCEEDED" ELSE "OK"]

\* append: what was consumed is dropped, and the limit counts what is left.
AppendBytes(a, data, limits) ==
    IF a.status # "OK" THEN a
    ELSE LET buffer == Unconsumed(a) \o data
         IN  [buffer |-> buffer, consumed |-> 0,
              status |-> IF Len(buffer) > limits.max_wire_assembly_bytes
                           THEN "ASSEMBLY_LIMIT_EXCEEDED" ELSE "OK"]

\* decode_frame_header
HeaderStatus(data, limits) ==
    IF Len(data) < kWireHeaderBytes THEN "INCOMPLETE"
    ELSE IF \E i \in 1..kWireHeaderBytes : data[i] # <<data[1][1], i>> THEN "BAD_MAGIC"
    ELSE IF data[1][1].size > limits.max_frame_bytes THEN "FRAME_TOO_LARGE"
    ELSE "OK"

FrameStatus_OneByteMore(data, limits) ==
    LET total == kWireHeaderBytes + data[1][1].size
    IN  IF HeaderStatus(data, limits) # "OK" THEN HeaderStatus(data, limits)
        ELSE IF Len(data) <= total THEN "INCOMPLETE"
        ELSE IF SubSeq(data, 1, total) # Bytes(data[1][1]) THEN "INTEGRITY_FAILURE"
        ELSE "OK"

\* decode_frame, of the first bytes of the data.
FrameStatus(data, limits) ==
    LET total == kWireHeaderBytes + data[1][1].size
    IN  IF HeaderStatus(data, limits) # "OK" THEN HeaderStatus(data, limits)
        ELSE IF Len(data) < total THEN "INCOMPLETE"
        ELSE IF SubSeq(data, 1, total) # Bytes(data[1][1]) THEN "INTEGRITY_FAILURE"
        ELSE "OK"

\* next: the status it returns, and the assembler it leaves.
NextStatus(a, limits) == IF a.status # "OK" THEN a.status ELSE FrameStatus(Unconsumed(a), limits)

NextFrame(a) == a.buffer[a.consumed + 1][1]

AfterNext(a, limits) ==
    LET status == NextStatus(a, limits)
    IN  IF status = "INCOMPLETE" THEN a
        ELSE IF status = "OK" THEN [a EXCEPT !.consumed = @ + kWireHeaderBytes + NextFrame(a).size]
        ELSE [a EXCEPT !.status = status]
=============================================================================
