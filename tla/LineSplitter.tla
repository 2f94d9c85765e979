------------------------------ MODULE LineSplitter ------------------------------
(***************************************************************************)
(* The line splitter of a session: pieces of an upload in, lines out, with *)
(* the offset at which payload_chunk() reports each of them.               *)
(*                                                                         *)
(* feed() runs from start to end inside one read callback; here it is one  *)
(* step per newline it finds, with the part of the piece it has not looked *)
(* at in rest.  A new piece arrives only when rest is empty.               *)
(***************************************************************************)
EXTENDS Naturals, Sequences, FiniteSets

CONSTANTS
  MaxLine,    \* max_line_
  MaxPiece,   \* bound: bytes in a piece
  MaxInput    \* bound: bytes in an upload

ASSUME SplitterAssumption == MaxLine \in Nat /\ MaxPiece \in Nat /\ MaxInput \in Nat

VARIABLES
  rest,        \* the bytes of the piece behind pos
  carry,       \* carry_
  discarding,  \* discarding_
  lines,       \* lines_
  overlong,    \* oversize_
  offset,      \* line_offset_ of the session
  ended,       \* finish() has run
  input,       \* history: every byte of the upload so far
  out          \* history: the lines passed to on_line: text, offset given, and
               \* the position of the newline (or the end) that completed it

splitterVars == <<rest, carry, discarding, lines, overlong, offset, ended, input, out>>

-----------------------------------------------------------------------------
(* Bytes: newline, carriage return, any other.                             *)

Byte == {"n", "r", "c"}

Newlines(s) == {i \in DOMAIN s : s[i] = "n"}

\* memchr
FirstNewline(s) == CHOOSE i \in Newlines(s) : \A j \in Newlines(s) : i <= j

LastByte(s) == s[Len(s)]

\* A trailing carriage return is not part of the line.
Strip(line) ==
  IF line # << >> /\ LastByte(line) = "r" THEN SubSeq(line, 1, Len(line) - 1) ELSE line

\* The bytes of the upload that have been looked at.
Consumed == Len(input) - Len(rest)

-----------------------------------------------------------------------------

SplitterInit ==
  /\ rest = << >> /\ carry = << >> /\ discarding = FALSE
  /\ lines = 0 /\ overlong = 0 /\ offset = 0
  /\ ended = FALSE
  /\ input = << >> /\ out = << >>

\* A faulty reset that goes on discarding the line of the last upload.
ResetKeepsDiscarding ==
  /\ carry' = << >> /\ UNCHANGED discarding
  /\ lines' = 0 /\ overlong' = 0

\* A faulty reset that keeps the line begun in the last upload.
ResetKeepsCarry ==
  /\ UNCHANGED carry /\ discarding' = FALSE
  /\ lines' = 0 /\ overlong' = 0

\* reset()
Reset ==
  /\ carry' = << >> /\ discarding' = FALSE
  /\ lines' = 0 /\ overlong' = 0

\* An upload begins (the one before may have been cancelled at any piece).
BeginLines ==
  /\ rest = << >>
  /\ Reset
  /\ offset' = 0 /\ ended' = FALSE
  /\ input' = << >> /\ out' = << >>
  /\ UNCHANGED rest

\* payload_chunk() passes a piece to feed().
Feed(piece) ==
  /\ ~ended /\ rest = << >>
  /\ Len(input) + Len(piece) <= MaxInput
  /\ rest' = piece
  /\ input' = input \o piece
  /\ UNCHANGED <<carry, discarding, lines, overlong, offset, ended, out>>

\* A faulty emit() after which the newline is not counted in the offset.
EmitWithoutNewline(line, raw, end) ==
  /\ lines' = lines + 1
  /\ out' = Append(out, [text |-> Strip(line), at |-> offset, end |-> end])
  /\ offset' = offset + Len(line)

\* emit() and the callback of the session.
Emit(line, raw, end) ==
  /\ lines' = lines + 1
  /\ out' = Append(out, [text |-> Strip(line), at |-> offset, end |-> end])
  /\ offset' = offset + raw

\* A step of a running feed(): the rest of the piece is looked at up to and
\* including its first newline, or to its end if there is none.
Feeding(hasNewline) ==
  /\ rest # << >>
  /\ hasNewline <=> Newlines(rest) # {}
  /\ rest' = IF hasNewline THEN SubSeq(rest, FirstNewline(rest) + 1, Len(rest))
                           ELSE << >>
  /\ UNCHANGED <<ended, input>>

\* What stands before the first newline.
Upto == SubSeq(rest, 1, FirstNewline(rest) - 1)
End  == Consumed + FirstNewline(rest)

\* Discarding an overlong line: up to its newline, or all of the piece.
SkipAll ==
  /\ discarding /\ Feeding(FALSE)
  /\ UNCHANGED <<carry, discarding, lines, overlong, offset, out>>

SkipToNewline ==
  /\ discarding /\ Feeding(TRUE)
  /\ discarding' = FALSE
  /\ UNCHANGED <<carry, lines, overlong, offset, out>>

\* A faulty limit that looks at the new piece alone.
TooLongByPiece(more) == Len(more) > MaxLine

\* The line begun in carry_ would grow beyond max_line_.
TooLong(more) == Len(carry) + Len(more) > MaxLine

\* A faulty rejection of an overlong line that is not counted.
DropUncounted == carry' = << >> /\ UNCHANGED <<lines, overlong, offset, out>>

\* An overlong line is counted and dropped; its bytes do not move the offset.
Drop ==
  /\ overlong' = overlong + 1
  /\ carry' = << >>
  /\ UNCHANGED <<lines, offset, out>>

\* No newline: the piece extends carry_, or its line is given up.
ExtendCarry ==
  /\ ~discarding /\ carry # << >> /\ Feeding(FALSE)
  /\ IF TooLong(rest)
     THEN Drop /\ discarding' = TRUE
     ELSE /\ carry' = carry \o rest
          /\ UNCHANGED <<discarding, lines, overlong, offset, out>>

\* A newline completes the line in carry_, or ends one that is given up.
CompleteCarry ==
  /\ ~discarding /\ carry # << >> /\ Feeding(TRUE)
  /\ IF TooLong(Upto) THEN Drop
     ELSE /\ Emit(carry \o Upto, Len(carry) + Len(Upto) + 1, End)
          /\ carry' = << >>
          /\ UNCHANGED overlong
  /\ UNCHANGED discarding

\* A line that begins and ends in the piece: no copy, no check of its length.
WholeLine ==
  /\ ~discarding /\ carry = << >> /\ Feeding(TRUE)
  /\ Emit(Upto, Len(Upto) + 1, End)
  /\ UNCHANGED <<carry, discarding, overlong>>

\* The tail behind the last newline is kept for the next piece.
KeepTail ==
  /\ ~discarding /\ carry = << >> /\ Feeding(FALSE)
  /\ IF TooLong(rest)
     THEN Drop /\ discarding' = TRUE
     ELSE /\ carry' = rest
          /\ UNCHANGED <<discarding, lines, overlong, offset, out>>

\* What finish() does with carry_.
FlushCarry ==
  /\ carry' = << >>
  /\ IF carry = << >> THEN UNCHANGED <<lines, out, offset>>
     ELSE Emit(carry, Len(carry), Len(input) + 1)

\* finish(), at UPLOAD_END.
FinishLines ==
  /\ ~ended /\ rest = << >>
  /\ FlushCarry
  /\ discarding' = FALSE
  /\ ended' = TRUE
  /\ UNCHANGED <<rest, overlong, input>>

Pieces == UNION {[1 .. n -> Byte] : n \in 1 .. MaxPiece}

FeedStep == SkipAll \/ SkipToNewline \/ ExtendCarry \/ CompleteCarry
              \/ WholeLine \/ KeepTail

SplitterNext == BeginLines \/ (\E piece \in Pieces : Feed(piece)) \/ FeedStep \/ FinishLines

SplitterSpec == SplitterInit /\ [][SplitterNext]_splitterVars

-----------------------------------------------------------------------------
(* Properties.                                                             *)

\* Where the line that ends before position end starts.
Start(end) ==
  CHOOSE s \in 1 .. end :
    /\ s = 1 \/ input[s - 1] = "n"
    /\ \A i \in s .. end - 1 : input[i] # "n"

LineBefore(end) == SubSeq(input, Start(end), end - 1)

\* The ends of the lines looked at so far.
Ends ==
  {i \in 1 .. Consumed : input[i] = "n"}
    \cup (IF ended /\ input # << >> /\ LastByte(input) # "n" THEN {Len(input) + 1} ELSE {})

\* Every variable has its type, and carry_ never outgrows the max_line_ bytes
\* reserved for it, whatever the pieces are.
SplitterTypeOK ==
  /\ rest \in Seq(Byte) /\ input \in Seq(Byte) /\ carry \in Seq(Byte)
  /\ Len(carry) <= MaxLine
  /\ discarding \in BOOLEAN /\ ended \in BOOLEAN
  /\ lines \in Nat /\ overlong \in Nat /\ offset \in Nat
  /\ out \in Seq([text : Seq(Byte), at : Nat, end : Nat])

\* However an upload is cut into pieces, the lines that come out are lines of
\* the file, whole, in order and without their line ends (feed and emit).
LinesAreTrue ==
  /\ \A k \in DOMAIN out : /\ out[k].end \in Ends
                           /\ out[k].text = Strip(LineBefore(out[k].end))
  /\ \A k \in 2 .. Len(out) : out[k - 1].end < out[k].end

\* However it is cut, no line of at most max_line_ bytes is lost, neither one
\* behind an overlong line nor the first one of the next upload.
ShortLinesKept ==
  \A end \in Ends : end - Start(end) <= MaxLine =>
    \E k \in DOMAIN out : out[k].end = end

\* Every line is counted once: lines_ and oversize_ are together the lines
\* seen, with the one that is being discarded.
EveryLineCounted ==
  lines + overlong = Cardinality(Ends) + (IF discarding THEN 1 ELSE 0)

\* As long as no line has been dropped, every line is reported at its place
\* in the file (payload_chunk, line_offset_).
OffsetsTrue ==
  overlong = 0 => \A k \in DOMAIN out : out[k].at = Start(out[k].end) - 1

\* LineSplitter.h: a line longer than max_line_ is dropped.
LongLinesDropped == \A k \in DOMAIN out : Len(out[k].text) <= MaxLine

=============================================================================
