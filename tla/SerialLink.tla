----------------------------- MODULE SerialLink -----------------------------
(***************************************************************************)
(* The serial line from the CIMS board to the charging station: frames of  *)
(* eight bytes behind a header, and the parser that finds them again in a  *)
(* stream of which bytes may be missing (CIMS_handle).                     *)
(***************************************************************************)
EXTENDS Integers, SequencesExt

CONSTANTS
    HeaderHigh, HeaderLow,   \* the bytes that begin a frame
    Noise                    \* bound: what may arrive instead of a frame

Byte == 0..255
Size == 8

ASSUME LinkAssumption ==
    {HeaderHigh, HeaderLow} \subseteq Byte /\ HeaderHigh # HeaderLow /\ Noise \subseteq Seq(Byte)

VARIABLES
    wire,     \* the bytes that wait in Serial2
    buffer,   \* the bytes of a frame that were read; count is their number
    frame,    \* the frame that is processed, or <<>>
    ahead,    \* history: the frames sent whole that are, at least their end, on the wire
    missed    \* history: those that were read and not processed, since bytes got lost

linkVars == <<wire, buffer, frame, ahead, missed>>

Checksum(bytes) == FoldLeft(+, 0, bytes) % 256
Valid(bytes) == bytes[Size] = Checksum(Front(bytes))

\* A frame of an ID and four bytes of data, as both sides send it.
Frame(data) ==
    LET bytes == <<HeaderHigh, HeaderLow>> \o data IN Append(bytes, Checksum(bytes))

Started(f) == f # <<>>
Id(f) == f[3]
Connector(f) == f[6]
Data(f) == f[7]

-----------------------------------------------------------------------------
(* The parser.  It stops at the first frame that is complete and right; what follows *)
(* stays on the wire.                                                                *)

\* A byte goes to its place behind the header, or is passed over.
Placed(bytes, b) ==
    CASE bytes = <<>> -> IF b = HeaderHigh THEN <<b>> ELSE <<>>
      [] Len(bytes) = 1 -> IF b = HeaderLow THEN Append(bytes, b) ELSE <<>>
      [] OTHER -> Append(bytes, b)

\* Mutants: the count is not reset after an error; the last byte is waited for once more.
TakenKept(s, b) ==
    LET bytes == IF Len(s.buffer) = Size THEN s.buffer ELSE Placed(s.buffer, b)
    IN  IF Started(s.frame) THEN [s EXCEPT !.rest = Append(@, b)]
        ELSE IF Len(bytes) < Size THEN [s EXCEPT !.buffer = bytes]
        ELSE [s EXCEPT !.buffer = IF Valid(bytes) THEN <<>> ELSE bytes, !.frame = IF Valid(bytes) THEN bytes ELSE <<>>]
TakenLate(s, b) ==
    LET bytes == Placed(s.buffer, b)
    IN  IF Started(s.frame) THEN [s EXCEPT !.rest = Append(@, b)]
        ELSE IF Len(bytes) <= Size THEN [s EXCEPT !.buffer = bytes]
        ELSE [s EXCEPT !.buffer = <<>>, !.frame = IF Valid(bytes) THEN bytes ELSE <<>>]

Taken(s, b) ==
    LET bytes == Placed(s.buffer, b)
    IN  IF Started(s.frame) THEN [s EXCEPT !.rest = Append(@, b)]
        ELSE IF Len(bytes) < Size THEN [s EXCEPT !.buffer = bytes]
        ELSE [s EXCEPT !.buffer = <<>>, !.frame = IF Valid(bytes) THEN bytes ELSE <<>>]

Scanned == FoldLeft(Taken, [buffer |-> buffer, frame |-> <<>>, rest |-> <<>>], wire)

Read ==
    LET left == (Len(Scanned.rest) + Size - 1) \div Size
        got == Started(Scanned.frame) /\ Len(Scanned.rest) % Size = 0
    IN  /\ wire # <<>> /\ frame = <<>>
        /\ buffer' = Scanned.buffer /\ frame' = Scanned.frame /\ wire' = Scanned.rest
        /\ ahead' = IF left < ahead THEN left ELSE ahead
        /\ missed' = missed + (ahead - ahead') - (IF got /\ left < ahead THEN 1 ELSE 0)

Processed == frame' = <<>> /\ UNCHANGED <<wire, buffer, ahead, missed>>

-----------------------------------------------------------------------------
(* The other side *)

\* Frames that may mislead the parser: a header byte stands within them.
Misleading(f) == HeaderHigh \in ToSet(Tail(f))

Send(f) ==
    /\ ~Misleading(f)
    /\ wire' = wire \o f
    /\ ahead' = ahead + 1
    /\ UNCHANGED <<buffer, frame, missed>>

\* Bytes are lost, or something else is on the line.
Disturb ==
    /\ wire = <<>> /\ frame = <<>>
    /\ wire' \in Noise
    /\ missed' = 0
    /\ UNCHANGED <<buffer, frame, ahead>>

LinkInit == wire = <<>> /\ buffer = <<>> /\ frame = <<>> /\ ahead = 0 /\ missed = 0

LinkLost == wire' = <<>> /\ buffer' = <<>> /\ frame' = <<>> /\ ahead' = 0 /\ missed' = 0

-----------------------------------------------------------------------------
(* Properties *)

LinkTypeOK ==
    /\ wire \in Seq(Byte) /\ buffer \in Seq(Byte) /\ frame \in Seq(Byte) /\ Len(buffer) < Size
    /\ Started(frame) => Len(frame) = Size /\ Valid(frame)

=============================================================================
