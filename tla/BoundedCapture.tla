---------------------------- MODULE BoundedCapture ----------------------------
(***************************************************************************)
(* drain_bounded and CapturedStream of aros-common/src/process.rs: of a    *)
(* stream of any length the head and the tail are kept, each in half of    *)
(* the limit.  The bytes are their positions in the stream.                *)
(***************************************************************************)
EXTENDS Naturals, Sequences

CONSTANTS
    Limits,     \* values of per_stream_limit, not 0 (run_output_inner)
    MaxRead,    \* the size of the read buffer
    MaxTotal    \* bound on the stream, for checking

ASSUME CaptureAssumption == Limits \subseteq Nat \ {0} /\ MaxRead \in Nat \ {0} /\ MaxTotal \in Nat

VARIABLES limit, head, tail, total, open

capture == <<limit, head, tail, total, open>>

HeadCapacity == (limit + 1) \div 2
TailCapacity == limit - HeadCapacity

(***************************************************************************)
(* CaptureTypeOK: every variable has its type.                             *)
(***************************************************************************)
CaptureTypeOK ==
    /\ limit \in Limits
    /\ head \in Seq(1..MaxTotal) /\ Len(head) <= HeadCapacity
    /\ tail \in Seq(1..MaxTotal) /\ Len(tail) <= TailCapacity
    /\ total \in 0..MaxTotal /\ open \in BOOLEAN

CaptureInit == limit \in Limits /\ head = <<>> /\ tail = <<>> /\ total = 0 /\ open = TRUE

Least(a, b) == IF a < b THEN a ELSE b

Minus(a, b) == IF a > b THEN a - b ELSE 0

\* A bug: the tail is never shortened by what it has.
KeepTailGrowing(old, new) ==
    IF Len(new) >= TailCapacity THEN SubSeq(new, Len(new) - TailCapacity + 1, Len(new))
    ELSE old \o new

\* The last bytes of the tail and of what is new.
KeepTail(old, new) ==
    IF Len(new) >= TailCapacity THEN SubSeq(new, Len(new) - TailCapacity + 1, Len(new))
    ELSE LET overflow == Minus(Len(old) + Len(new), TailCapacity)
         IN  SubSeq(old, overflow + 1, Len(old)) \o new

\* One read of n bytes.
Read(n) ==
    LET buffer    == [i \in 1..n |-> total + i]
        retained  == Least(Minus(HeadCapacity, Len(head)), n)
        remaining == SubSeq(buffer, retained + 1, n)
    IN  /\ open /\ UNCHANGED <<open, limit>>
        /\ total' = total + n
        /\ head' = head \o SubSeq(buffer, 1, retained)
        /\ tail' = IF TailCapacity = 0 \/ remaining = <<>> THEN tail ELSE KeepTail(tail, remaining)

EndOfStream == open /\ open' = FALSE /\ UNCHANGED <<limit, head, tail, total>>

CaptureNext ==
    \/ \E n \in 1..MaxRead : total + n <= MaxTotal /\ Read(n)
    \/ EndOfStream
    \/ ~ open /\ UNCHANGED capture

CaptureSpec == CaptureInit /\ [][CaptureNext]_capture

Bytes == head \o tail

Omitted == Minus(total, Len(Bytes))

\* CapturedStream::write_rendered: a mark (0) where bytes are missing.
Rendered ==
    IF Omitted = 0 THEN Bytes
    ELSE SubSeq(Bytes, 1, Len(head)) \o <<0>> \o SubSeq(Bytes, Len(head) + 1, Len(Bytes))

-----------------------------------------------------------------------------
Stream == [i \in 1..total |-> i]

(***************************************************************************)
(* KeepsBothEnds: however the stream comes in pieces, what is kept is its  *)
(* beginning and its end, never more than the limit and never less than    *)
(* the limit allows; a stream within the limit is kept whole.  Otherwise   *)
(* the rendering has a mark exactly where bytes are missing, and their     *)
(* number accounts for the whole stream.                                   *)
(***************************************************************************)
KeepsBothEnds ==
    /\ Len(Bytes) = Least(total, limit)
    /\ head = SubSeq(Stream, 1, Len(head)) /\ tail = SubSeq(Stream, total - Len(tail) + 1, total)
    /\ total <= limit => Bytes = Stream
    /\ Omitted + Len(Bytes) = total
    /\ \A i \in 1..Len(Rendered) - 1 :
          Rendered[i + 1] = Rendered[i] + 1 \/ 0 \in {Rendered[i], Rendered[i + 1]}
    /\ (\E i \in 1..Len(Rendered) : Rendered[i] = 0) <=> Len(Bytes) < total
=============================================================================
