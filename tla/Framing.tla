------------------------------- MODULE Framing --------------------------------
(***************************************************************************)
(* The envelope of src/utils/serialization.py around every message of the  *)
(* file, TCP and serial transports, and the readers of the last two.       *)
(* A byte, a header field and a digest are each one number.                *)
(***************************************************************************)
EXTENDS Naturals, Sequences

CONSTANTS
    Magic, Version,     \* FRAME_MAGIC, FRAME_VERSION
    Digest(_)           \* SHA-256 of a payload

HeaderSize == 4
Header(payload) == <<Magic, Version, Len(payload), Digest(payload)>>

\* frame_payload; a payload of 4 GiB or more, for which struct.pack raises, is
\* left out.
Frame(payload) == Header(payload) \o payload

FrameLength(data) == HeaderSize + data[3]
Payload(data) == SubSeq(data, HeaderSize + 1, FrameLength(data))
Remaining(data) == SubSeq(data, FrameLength(data) + 1, Len(data))

Error == [ok |-> FALSE]

\* unframe_payload: the first frame and the rest, or a ValueError.
Unframe(data) ==
    IF /\ Len(data) >= HeaderSize
       /\ data[1] = Magic /\ data[2] = Version
       /\ Len(data) >= FrameLength(data)
       /\ data[4] = Digest(Payload(data))
    THEN [ok |-> TRUE, payload |-> Payload(data), remaining |-> Remaining(data)]
    ELSE Error

\* The readers of TCPTransport and SerialTransport: a header, then as many
\* bytes as it announces, whatever else it says; the line may end before.
ReadAnswer(line) ==
    IF Len(line) >= HeaderSize /\ Len(line) >= FrameLength(line)
    THEN Unframe(SubSeq(line, 1, FrameLength(line)))
    ELSE Error

=============================================================================
