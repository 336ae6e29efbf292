------------------------------ MODULE ReadLine ------------------------------
(***************************************************************************)
(* read_line of src/stdin.rs, on every short input and on every way the     *)
(* buffered reader may cut that input into pieces.                          *)
(***************************************************************************)
EXTENDS Naturals, Sequences
LOCAL INSTANCE SequencesExt

CONSTANTS
    MaxLine,         \* MAX_LINE, in bytes
    MaxInput         \* bound: bytes of an input that read_line is tried on

VARIABLE pieces      \* the pieces fill_buf gives, in order

InputBytes == {"a", "bad", "cr", "nl"}   \* "bad": not UTF-8
ReadError == <<"error">>                 \* in place of a piece: fill_buf fails

(***************************************************************************)
(* read_line, as its loop over fill_buf: `line` and `tooLong` are its       *)
(* locals, `left` the pieces still to come.  The result is the line it      *)
(* returns and the bytes it has not consumed.                               *)
(***************************************************************************)
TooLong == <<"too long">>
Failed == <<"failed">>

PartOf(buf) == IF Contains(buf, "nl") THEN SubSeq(buf, 1, SelectInSeq(buf, LAMBDA b : b = "nl") - 1) ELSE buf

(* A plausible bug: the limit is applied before the `\r` is off.            *)
KeepUpToMax(line, part) == Len(line) + Len(part) > MaxLine

OverLimit(line, part) == Len(line) + Len(part) > MaxLine + 1

FinishLine(line, tooLong) ==
    LET text == IF line # <<>> /\ Last(line) = "cr" THEN Front(line) ELSE line
    IN  IF tooLong \/ Len(text) > MaxLine THEN TooLong
        ELSE IF Contains(text, "bad") THEN Failed ELSE text

RECURSIVE ReadFrom(_, _, _)
ReadFrom(line, tooLong, left) ==
    IF left = <<>>
    THEN [line |-> IF line = <<>> /\ ~tooLong THEN <<"end">> ELSE FinishLine(line, tooLong), rest |-> <<>>]
    ELSE IF Head(left) = ReadError THEN [line |-> Failed, rest |-> FlattenSeq(Tail(left))]
    ELSE LET buf == Head(left)
             part == PartOf(buf)
             over == tooLong \/ OverLimit(line, part)
             kept == IF over THEN <<>> ELSE line \o part
             foundEnd == Contains(buf, "nl")
         IN  IF foundEnd
             THEN [line |-> FinishLine(kept, over),
                   rest |-> SubSeq(buf, Len(part) + 2, Len(buf)) \o FlattenSeq(Tail(left))]
             ELSE ReadFrom(kept, over, Tail(left))

read_line(left) == ReadFrom(<<>>, FALSE, left)

(* fill_buf's buffers: one more byte comes, in the last buffer or in a new  *)
(* one, or it fails (but for Interrupted, after which it is called again).  *)
FillBuf ==
    /\ Len(FlattenSeq(pieces)) < MaxInput
    /\ \E b \in InputBytes :
         \/ pieces' = Append(pieces, <<b>>)
         \/ pieces' = Append(pieces, ReadError)
         \/ pieces # <<>> /\ Last(pieces) # ReadError /\ pieces' = Append(Front(pieces), Append(Last(pieces), b))

ReadLineInit == pieces = <<>>
ReadLineSpec == ReadLineInit /\ [][FillBuf]_pieces

(* read_line returns the bytes up to the first line ending, without it and  *)
(* without one `\r` before it; or TooLong exactly if that is more than      *)
(* MAX_LINE bytes; or Failed if it is not UTF-8, or if reading failed       *)
(* before it, whatever had been read.  It consumes the line and its ending  *)
(* and nothing more.  All that however the input is cut into buffers.       *)
LinesWholeOrTooLong ==
    pieces # <<>> =>
        LET input == FlattenSeq(pieces)
            end == SelectInSeq(input, LAMBDA b : b \in {"nl", "error"})
            size == IF end > 0 THEN end - 1 ELSE Len(input)
            text == IF size > 0 /\ input[size] = "cr" THEN SubSeq(input, 1, size - 1) ELSE SubSeq(input, 1, size)
            got == read_line(pieces)
        IN  /\ got.line = IF end > 0 /\ input[end] = "error" THEN Failed
                          ELSE IF Len(text) > MaxLine THEN TooLong
                          ELSE IF Contains(text, "bad") THEN Failed ELSE text
            /\ got.rest = SubSeq(input, size + 2, Len(input))
=============================================================================
