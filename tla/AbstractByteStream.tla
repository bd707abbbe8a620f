------------------------- MODULE AbstractByteStream -------------------------
(***************************************************************************)
(* What ByteStream promises (byte_stream.hh): a flow-controlled FIFO of    *)
(* bytes that the writer can end.                                          *)
(***************************************************************************)
EXTENDS StreamValues

CONSTANTS Capacity,   \* room for this many unread bytes
          Strings     \* the strings that are written

VARIABLES stream,     \* a stream value
          returned    \* what the last peek or read returned

vars == <<stream, returned>>

Init == stream = EmptyStream /\ returned = <<>>

Write(data) ==
  /\ stream' = StreamWrite(stream, data, Capacity)
  /\ UNCHANGED returned

Peek(len) ==
  /\ returned' = StreamPeek(stream, len)
  /\ UNCHANGED stream

Pop(len) ==
  /\ stream' = StreamPop(stream, len)
  /\ UNCHANGED returned

Read(len) ==
  /\ returned' = StreamPeek(stream, len)
  /\ stream' = StreamPop(stream, len)

EndInput == stream' = StreamEnd(stream) /\ UNCHANGED returned

SetError == stream' = StreamFail(stream) /\ UNCHANGED returned

Next ==
  \/ \E data \in Strings : Write(data)
  \/ \E len \in 0 .. Capacity : Peek(len) \/ Pop(len) \/ Read(len)
  \/ EndInput
  \/ SetError

Spec == Init /\ [][Next]_vars

=============================================================================
