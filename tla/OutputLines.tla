---------------------------- MODULE OutputLines ----------------------------
(***************************************************************************)
(* SshSession::exec_streaming (server/src/ssh.rs): the output of a remote  *)
(* command arrives in chunks cut anywhere and leaves in lines.  One of the *)
(* two streams of a channel; each has a buffer of its own.                 *)
(***************************************************************************)
EXTENDS Subsequences, SequencesExt

CONSTANTS
    Newline, CarriageReturn, Letter, \* the bytes that make a difference
    MaxBytes,                \* how much a command writes: a bound
    MaxPartial               \* MAX_PARTIAL, the longest line held back

ASSUME LinesAssumption == MaxBytes \in Nat /\ MaxPartial \in Nat

Byte == {Newline, CarriageReturn, Letter}

VARIABLES
    written, \* external: what the command has written
    arrived, \* how much of it has arrived
    buf,     \* what has arrived and not been sent
    sent,    \* the lines sent on
    channel  \* open, closed, hung up (by the receiver) or over

linesVars == <<written, arrived, buf, sent, channel>>

LinesInit ==
    /\ written = <<>> /\ arrived = 0
    /\ buf = <<>> /\ sent = <<>>
    /\ channel = "open"

(* trim_end_matches(['\n', '\r']) *)
Trimmed(line) ==
    LET kept == {i \in 1 .. Len(line) : line[i] \notin {Newline, CarriageReturn}} IN
    IF kept = {} THEN <<>> ELSE SubSeq(line, 1, CHOOSE i \in kept : \A j \in kept : j <= i)

Newlines(bytes) == {i \in 1 .. Len(bytes) : bytes[i] = Newline}

(* The complete lines of a buffer, and what is behind the last of them. *)
Complete(bytes) ==
    LET ends == Newlines(bytes) IN
    [k \in 1 .. Cardinality(ends) |->
        Trimmed(SubSeq(bytes, IF k = 1 THEN 1 ELSE Nth(ends, k - 1) + 1, Nth(ends, k)))]

Remainder(bytes) ==
    LET ends == Newlines(bytes) IN
    IF ends = {} THEN bytes
    ELSE SubSeq(bytes, 1 + CHOOSE i \in ends : \A j \in ends : j <= i, Len(bytes))

(* drain_lines: all complete lines go; a rest that has grown too long goes *)
(* as it is.                                                               *)
Drained(bytes) ==
    IF Len(Remainder(bytes)) > MaxPartial
    THEN [lines |-> Append(Complete(bytes), Remainder(bytes)), rest |-> <<>>]
    ELSE [lines |-> Complete(bytes), rest |-> Remainder(bytes)]

(* External: the command writes. *)
CommandWrites ==
    /\ channel = "open" /\ Len(written) < MaxBytes
    /\ \E byte \in Byte : written' = Append(written, byte)
    /\ UNCHANGED <<arrived, buf, sent, channel>>

Data ==
    /\ channel \in {"open", "closed"}
    /\ \E n \in arrived + 1 .. Len(written) :
          LET drained == Drained(buf \o SubSeq(written, arrived + 1, n)) IN
          /\ arrived' = n
          /\ buf' = drained.rest
          /\ sent' = sent \o drained.lines
    /\ UNCHANGED <<written, channel>>

(* The receiver is gone: some lines of this chunk are the last. *)
HangUp ==
    /\ channel = "open"
    /\ channel' = "hung up"
    /\ UNCHANGED <<written, arrived, buf, sent>>

CommandEnds ==
    /\ channel = "open"
    /\ channel' = "closed"
    /\ UNCHANGED <<written, arrived, buf, sent>>

(* flush_remainder, after everything has arrived. *)
FlushRemainder ==
    /\ channel = "closed" /\ arrived = Len(written)
    /\ sent' = IF Trimmed(buf) = <<>> THEN sent ELSE Append(sent, Trimmed(buf))
    /\ buf' = <<>>
    /\ channel' = "over"
    /\ UNCHANGED <<written, arrived>>

LinesNext == CommandWrites \/ Data \/ HangUp \/ CommandEnds \/ FlushRemainder

(* A property.  However the output is cut into chunks, the lines sent are  *)
(* the lines written, the last one too if it lacks its end, unless one of  *)
(* them is longer than the buffer may grow.                                *)
LinesAsWritten ==
    LET rest == Trimmed(Remainder(written))
        lines == Complete(written) \o (IF rest = <<>> THEN <<>> ELSE <<rest>>)
        fits == \A i \in 1 .. Len(written) : Len(Remainder(SubSeq(written, 1, i))) <= MaxPartial
    IN  /\ channel = "over" /\ fits => sent = lines
        /\ fits => IsPrefix(sent, lines)

=============================================================================
