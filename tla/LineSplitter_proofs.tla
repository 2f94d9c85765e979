-------------------------- MODULE LineSplitter_proofs --------------------------
(***************************************************************************)
(* What the splitter does, for every limit and for pieces and uploads of   *)
(* any size: the partial line it keeps never outgrows max_line_ (first     *)
(* part), and the lines it passes on are the lines of the file (second     *)
(* part), each counted once, none within the limit lost, and each reported *)
(* at its place until one is dropped.                                      *)
(***************************************************************************)
EXTENDS LineSplitter, SequenceTheorems, FiniteSetTheorems,
        WellFoundedInduction, TLAPS

\* A part of a sequence of bytes is one, and its length is known.
LEMMA PartOfBytes ==
  ASSUME NEW s \in Seq(Byte), NEW m \in 1 .. Len(s) + 1, NEW n \in m - 1 .. Len(s)
  PROVE  SubSeq(s, m, n) \in Seq(Byte) /\ Len(SubSeq(s, m, n)) = n - m + 1
BY SubSeqProperties

\* A set of numbers has a least one: among the intervals that end in it one
\* is inside all others.
LEMMA LeastOf ==
  ASSUME NEW S \in SUBSET Nat, S # {}
  PROVE  \E i \in S : \A j \in S : i <= j
<1> DEFINE Below(i) == 0 .. i
           Family == {Below(i) : i \in S}
<1>1. Family \subseteq FiniteSubsetsOf(Nat) /\ Family # {}
  <2>1. \A i \in S : IsFiniteSet(Below(i)) /\ Below(i) \subseteq Nat
    BY FS_Interval
  <2> QED
    BY <2>1 DEF FiniteSubsetsOf
<1>2. IsWellFoundedOn(StrictSubsetOrdering(Nat), FiniteSubsetsOf(Nat))
  BY FS_StrictSubsetOrderingWellFounded
<1>3. PICK x \in Family : \A y \in Family : <<y, x>> \notin StrictSubsetOrdering(Nat)
  <2> HIDE DEF Family
  <2> QED
    BY <1>1, <1>2, WFMin
<1>4. PICK i \in S : x = Below(i)
  OBVIOUS
<1>5. ASSUME NEW j \in S, ~(i <= j) PROVE FALSE
  <2>1. j < i
    BY <1>5
  <2>2. Below(j) \subseteq Below(i) /\ Below(j) # Below(i)
    <3>1. i \in Below(i) /\ i \notin Below(j)
      BY <2>1
    <3> QED
      BY <2>1, <3>1
  <2>3. Below(i) \subseteq Nat /\ Below(j) \subseteq Nat
    OBVIOUS
  <2> HIDE DEF Below
  <2>4. <<Below(j), Below(i)>> \in StrictSubsetOrdering(Nat)
    BY <2>2, <2>3 DEF StrictSubsetOrdering
  <2>5. Below(j) \in Family
    OBVIOUS
  <2> QED
    BY <1>3, <1>4, <2>4, <2>5
<1> QED
  BY <1>5

\* memchr finds the first newline if there is one.
LEMMA FirstNewlineFound ==
  ASSUME NEW s \in Seq(Byte), Newlines(s) # {}
  PROVE  /\ FirstNewline(s) \in 1 .. Len(s)
         /\ s[FirstNewline(s)] = "n"
         /\ \A j \in Newlines(s) : FirstNewline(s) <= j
<1>1. DOMAIN s = 1 .. Len(s) /\ Len(s) \in Nat
  BY LenProperties
<1>2. Newlines(s) \subseteq Nat
  BY <1>1 DEF Newlines
<1>3. \E i \in Newlines(s) : \A j \in Newlines(s) : i <= j
  BY <1>2, LeastOf
<1>4. FirstNewline(s) \in Newlines(s) /\ \A j \in Newlines(s) : FirstNewline(s) <= j
  BY <1>3 DEF FirstNewline
<1> QED
  BY <1>1, <1>4 DEF Newlines

-----------------------------------------------------------------------------
(* The parts of a step of feed().                                          *)

\* What has not been looked at is part of the upload.
RestFits == Len(rest) <= Len(input)

IInv == SplitterTypeOK /\ RestFits

\* A line without its carriage return is a sequence of bytes.
LEMMA StripBytes ==
  ASSUME NEW line \in Seq(Byte)
  PROVE  Strip(line) \in Seq(Byte)
<1>1. CASE line = << >>
  BY <1>1 DEF Strip
<1>2. CASE line # << >>
  <2>1. Len(line) \in Nat /\ Len(line) > 0
    BY <1>2, EmptySeq, LenProperties
  <2>2. SubSeq(line, 1, Len(line) - 1) \in Seq(Byte)
    BY <2>1, PartOfBytes
  <2> QED
    BY <2>2 DEF Strip
<1> QED
  BY <1>1, <1>2

\* The three ways to cut rest at its first newline.
LEMMA CutRest ==
  ASSUME IInv, Newlines(rest) # {}
  PROVE  /\ Upto \in Seq(Byte)
         /\ End \in Nat
         /\ SubSeq(rest, FirstNewline(rest) + 1, Len(rest)) \in Seq(Byte)
         /\ Len(SubSeq(rest, FirstNewline(rest) + 1, Len(rest))) <= Len(input)
<1>1. rest \in Seq(Byte) /\ input \in Seq(Byte) /\ Len(rest) <= Len(input)
  BY DEF IInv, SplitterTypeOK, RestFits
<1>2. Len(rest) \in Nat /\ Len(input) \in Nat
  BY <1>1, LenProperties
<1>3. FirstNewline(rest) \in 1 .. Len(rest)
  BY <1>1, FirstNewlineFound
<1>4. Upto \in Seq(Byte)
  BY <1>1, <1>2, <1>3, PartOfBytes DEF Upto
<1>5. End \in Nat
  BY <1>1, <1>2, <1>3 DEF End, Consumed
<1>6. /\ SubSeq(rest, FirstNewline(rest) + 1, Len(rest)) \in Seq(Byte)
      /\ Len(SubSeq(rest, FirstNewline(rest) + 1, Len(rest))) = Len(rest) - FirstNewline(rest)
  BY <1>1, <1>2, <1>3, PartOfBytes
<1> QED
  BY <1>1, <1>2, <1>3, <1>4, <1>5, <1>6

\* A step of feed() leaves a rest that fits.
LEMMA FeedingRest ==
  ASSUME IInv, NEW b, Feeding(b)
  PROVE  /\ rest' \in Seq(Byte) /\ RestFits'
         /\ ended' \in BOOLEAN /\ input' \in Seq(Byte)
<1>1. UNCHANGED <<ended, input>>
  BY DEF Feeding
<1>2. input \in Seq(Byte) /\ ended \in BOOLEAN /\ Len(input) \in Nat
  BY LenProperties DEF IInv, SplitterTypeOK
<1>3. CASE Newlines(rest) # {} /\ b
  BY <1>1, <1>2, <1>3, CutRest DEF Feeding, RestFits
<1>4. CASE ~b
  <2>1. rest' = << >>
    BY <1>4 DEF Feeding
  <2> QED
    BY <1>1, <1>2, <2>1, EmptySeq DEF RestFits
<1> QED
  BY <1>1, <1>2, <1>3, <1>4 DEF Feeding

\* A line passed on keeps the counters and the history typed.
LEMMA EmitType ==
  ASSUME IInv, NEW line \in Seq(Byte), NEW raw \in Nat, NEW end \in Nat,
         Emit(line, raw, end)
  PROVE  /\ lines' \in Nat /\ offset' \in Nat
         /\ out' \in Seq([text : Seq(Byte), at : Nat, end : Nat])
<1>1. /\ lines \in Nat /\ offset \in Nat
      /\ out \in Seq([text : Seq(Byte), at : Nat, end : Nat])
  BY DEF IInv, SplitterTypeOK
<1>2. [text |-> Strip(line), at |-> offset, end |-> end]
        \in [text : Seq(Byte), at : Nat, end : Nat]
  BY <1>1, StripBytes
<1>3. out' \in Seq([text : Seq(Byte), at : Nat, end : Nat])
  BY <1>1, <1>2, AppendProperties DEF Emit
<1> QED
  BY <1>1, <1>3 DEF Emit

\* An empty carry_ is within every limit.
LEMMA NoCarry == ASSUME carry' = << >> PROVE carry' \in Seq(Byte) /\ Len(carry') <= MaxLine
BY EmptySeq, SplitterAssumption

-----------------------------------------------------------------------------
(* Init, and one lemma per action.                                         *)

\* Nothing read and nothing passed on yet.
LEMMA Nothing ==
  /\ << >> \in Seq(Byte) /\ Len(<< >>) = 0
  /\ << >> \in Seq([text : Seq(Byte), at : Nat, end : Nat])
BY EmptySeq

LEMMA InitIInv == SplitterInit => IInv
<1> SUFFICES ASSUME SplitterInit PROVE IInv
  OBVIOUS
<1>1. /\ rest = << >> /\ input = << >> /\ carry = << >> /\ out = << >>
      /\ discarding = FALSE /\ ended = FALSE
      /\ lines = 0 /\ overlong = 0 /\ offset = 0
  BY DEF SplitterInit
<1>2. Len(carry) <= MaxLine /\ RestFits
  BY <1>1, Nothing, SplitterAssumption DEF RestFits
<1> QED
  BY <1>1, <1>2, Nothing DEF IInv, SplitterTypeOK

LEMMA BeginIInv == ASSUME IInv, BeginLines PROVE IInv'
<1>1. carry' \in Seq(Byte) /\ Len(carry') <= MaxLine
  BY NoCarry DEF BeginLines, Reset
<1>2. /\ rest' = << >> /\ input' = << >> /\ out' = << >>
      /\ discarding' = FALSE /\ ended' = FALSE
      /\ lines' = 0 /\ overlong' = 0 /\ offset' = 0
  BY DEF BeginLines, Reset
<1>3. RestFits'
  BY <1>2, Nothing DEF RestFits
<1> QED
  BY <1>1, <1>2, <1>3, Nothing DEF IInv, SplitterTypeOK

LEMMA FeedIInv ==
  ASSUME IInv, NEW piece \in Seq(Byte), Feed(piece)
  PROVE  IInv'
<1>1. input \in Seq(Byte) /\ Len(input) \in Nat /\ Len(piece) \in Nat
  BY LenProperties DEF IInv, SplitterTypeOK
<1>2. input' \in Seq(Byte) /\ Len(input') = Len(input) + Len(piece)
  BY <1>1, ConcatProperties DEF Feed
<1>3. RestFits'
  BY <1>1, <1>2 DEF Feed, RestFits
<1> QED
  BY <1>2, <1>3 DEF Feed, IInv, SplitterTypeOK

LEMMA SkipIInv == ASSUME IInv, SkipAll \/ SkipToNewline PROVE IInv'
<1>1. Feeding(TRUE) \/ Feeding(FALSE)
  BY DEF SkipAll, SkipToNewline
<1>2. /\ rest' \in Seq(Byte) /\ RestFits'
      /\ ended' \in BOOLEAN /\ input' \in Seq(Byte)
  BY <1>1, FeedingRest
<1> QED
  BY <1>2 DEF SkipAll, SkipToNewline, IInv, SplitterTypeOK

\* What is kept for the next piece is within the limit, or nothing is kept.
LEMMA KeepIInv == ASSUME IInv, ExtendCarry \/ KeepTail PROVE IInv'
<1>1. Feeding(FALSE)
  BY DEF ExtendCarry, KeepTail
<1>2. /\ rest' \in Seq(Byte) /\ RestFits'
      /\ ended' \in BOOLEAN /\ input' \in Seq(Byte)
  BY <1>1, FeedingRest
<1>3. /\ rest \in Seq(Byte) /\ carry \in Seq(Byte) /\ overlong \in Nat
      /\ Len(rest) \in Nat /\ Len(carry) \in Nat
  BY LenProperties DEF IInv, SplitterTypeOK
<1>4. CASE TooLong(rest)
  <2>1. Drop /\ discarding' = TRUE
    BY <1>4 DEF ExtendCarry, KeepTail
  <2>2. carry' \in Seq(Byte) /\ Len(carry') <= MaxLine
    BY <2>1, NoCarry DEF Drop
  <2> QED
    BY <1>2, <1>3, <2>1, <2>2 DEF Drop, IInv, SplitterTypeOK
<1>5. CASE ~TooLong(rest)
  <2>1. Len(carry) + Len(rest) <= MaxLine
    BY <1>3, <1>5, SplitterAssumption DEF TooLong
  <2>2. carry' \in Seq(Byte) /\ Len(carry') <= MaxLine
    <3>1. CASE ExtendCarry
      BY <1>3, <1>5, <2>1, <3>1, ConcatProperties DEF ExtendCarry
    <3>2. CASE KeepTail
      BY <1>3, <1>5, <2>1, <3>2, SplitterAssumption DEF KeepTail
    <3> QED
      BY <3>1, <3>2
  <2>3. UNCHANGED <<discarding, lines, overlong, offset, out>>
    BY <1>5 DEF ExtendCarry, KeepTail
  <2> QED
    BY <1>2, <2>2, <2>3 DEF IInv, SplitterTypeOK
<1> QED
  BY <1>4, <1>5

LEMMA CompleteIInv == ASSUME IInv, CompleteCarry PROVE IInv'
<1>1. Feeding(TRUE) /\ Newlines(rest) # {} /\ UNCHANGED discarding
  BY DEF CompleteCarry, Feeding
<1>2. /\ rest' \in Seq(Byte) /\ RestFits'
      /\ ended' \in BOOLEAN /\ input' \in Seq(Byte)
  BY <1>1, FeedingRest
<1>3. Upto \in Seq(Byte) /\ End \in Nat
  BY <1>1, CutRest
<1>4. CASE TooLong(Upto)
  <2>1. Drop
    BY <1>4 DEF CompleteCarry
  <2>2. carry' \in Seq(Byte) /\ Len(carry') <= MaxLine
    BY <2>1, NoCarry DEF Drop
  <2> QED
    BY <1>1, <1>2, <2>1, <2>2 DEF Drop, IInv, SplitterTypeOK
<1>5. CASE ~TooLong(Upto)
  <2>1. /\ Emit(carry \o Upto, Len(carry) + Len(Upto) + 1, End)
        /\ carry' = << >> /\ UNCHANGED overlong
    BY <1>5 DEF CompleteCarry
  <2>2. carry \o Upto \in Seq(Byte) /\ Len(carry) + Len(Upto) + 1 \in Nat
    BY <1>3, ConcatProperties, LenProperties DEF IInv, SplitterTypeOK
  <2>3. /\ lines' \in Nat /\ offset' \in Nat
        /\ out' \in Seq([text : Seq(Byte), at : Nat, end : Nat])
    BY <1>3, <2>1, <2>2, EmitType
  <2>4. carry' \in Seq(Byte) /\ Len(carry') <= MaxLine
    BY <2>1, NoCarry
  <2> QED
    BY <1>1, <1>2, <2>1, <2>3, <2>4 DEF IInv, SplitterTypeOK
<1> QED
  BY <1>4, <1>5

LEMMA WholeLineIInv == ASSUME IInv, WholeLine PROVE IInv'
<1>1. Feeding(TRUE) /\ Newlines(rest) # {}
  BY DEF WholeLine, Feeding
<1>2. /\ rest' \in Seq(Byte) /\ RestFits'
      /\ ended' \in BOOLEAN /\ input' \in Seq(Byte)
  BY <1>1, FeedingRest
<1>3. Upto \in Seq(Byte) /\ End \in Nat /\ Len(Upto) + 1 \in Nat
  BY <1>1, CutRest, LenProperties
<1>4. /\ lines' \in Nat /\ offset' \in Nat
      /\ out' \in Seq([text : Seq(Byte), at : Nat, end : Nat])
  BY <1>3, EmitType DEF WholeLine
<1> QED
  BY <1>2, <1>4 DEF WholeLine, IInv, SplitterTypeOK

LEMMA FinishIInv == ASSUME IInv, FinishLines PROVE IInv'
<1>1. carry' \in Seq(Byte) /\ Len(carry') <= MaxLine
  BY NoCarry DEF FinishLines, FlushCarry
<1>2. Len(carry) \in Nat /\ Len(input) + 1 \in Nat /\ carry \in Seq(Byte)
  BY LenProperties DEF IInv, SplitterTypeOK
<1>3. /\ lines' \in Nat /\ offset' \in Nat
      /\ out' \in Seq([text : Seq(Byte), at : Nat, end : Nat])
  <2>1. CASE carry = << >>
    BY <2>1 DEF FinishLines, FlushCarry, IInv, SplitterTypeOK
  <2>2. CASE carry # << >>
    BY <1>2, <2>2, EmitType DEF FinishLines, FlushCarry
  <2> QED
    BY <2>1, <2>2
<1>4. RestFits'
  BY DEF FinishLines, IInv, RestFits
<1> QED
  BY <1>1, <1>3, <1>4 DEF FinishLines, IInv, SplitterTypeOK

-----------------------------------------------------------------------------

LEMMA PiecesAreBytes == ASSUME NEW piece \in Pieces PROVE piece \in Seq(Byte)
<1>1. PICK n \in 1 .. MaxPiece : piece \in [1 .. n -> Byte]
  BY DEF Pieces
<1> QED
  BY <1>1, SplitterAssumption, SeqDef

LEMMA StepIInv == IInv /\ [SplitterNext]_splitterVars => IInv'
<1> SUFFICES ASSUME IInv, [SplitterNext]_splitterVars PROVE IInv'
  OBVIOUS
<1>1. CASE \E piece \in Pieces : Feed(piece)
  <2>1. PICK piece \in Pieces : Feed(piece)
    BY <1>1
  <2>2. piece \in Seq(Byte)
    BY PiecesAreBytes
  <2> QED
    BY <2>1, <2>2, FeedIInv
<1>2. CASE UNCHANGED splitterVars
  BY <1>2 DEF splitterVars, IInv, SplitterTypeOK, RestFits
<1> QED
  BY <1>1, <1>2, BeginIInv, SkipIInv, KeepIInv, CompleteIInv, WholeLineIInv,
     FinishIInv DEF SplitterNext, FeedStep

\* The partial line carry_ never outgrows the bytes reserved for it
\* (LineSplitter.h, feed).
THEOREM CarryBounded == SplitterSpec => []SplitterTypeOK
<1>1. IInv => SplitterTypeOK
  BY DEF IInv
<1> QED
  BY <1>1, InitIInv, StepIInv, PTL DEF SplitterSpec

-----------------------------------------------------------------------------
(* The lines that come out are those of the file.                          *)

\* Where the line of s that ends before position end starts, and the line.
StartIn(s, end) ==
  CHOOSE b \in 1 .. end :
    /\ b = 1 \/ s[b - 1] = "n"
    /\ \A i \in b .. end - 1 : s[i] # "n"

LineIn(s, end) == SubSeq(s, StartIn(s, end), end - 1)

\* Where the line that is being looked at starts.
Begun == StartIn(input, Consumed + 1)

RestIsTail == \A i \in 1 .. Len(rest) : rest[i] = input[Consumed + i]

\* carry_ holds what has been looked at of the line, unless it is given up: then
\* it is longer than the limit.
CarryIsBegun ==
  ~ended /\ ~discarding =>
    /\ Len(carry) = Consumed + 1 - Begun
    /\ \A i \in 1 .. Len(carry) : carry[i] = input[Begun - 1 + i]

DiscardFits ==
  discarding =>
    ~ended /\ carry = << >> /\ Consumed + 1 - Begun > MaxLine /\ overlong > 0

EndedFits == ended => rest = << >> /\ carry = << >>

OffsetFits == overlong = 0 /\ ~ended => offset = Begun - 1

Looks == RestIsTail /\ CarryIsBegun /\ DiscardFits /\ EndedFits /\ OffsetFits

Tells == LinesAreTrue /\ ShortLinesKept /\ EveryLineCounted /\ OffsetsTrue

SInv == IInv /\ Looks /\ Tells

\* A line starts at 1 or behind a newline, with none up to its end.
LEMMA StartExists ==
  ASSUME NEW s, NEW end \in Nat \ {0}
  PROVE  /\ StartIn(s, end) \in 1 .. end
         /\ StartIn(s, end) = 1 \/ s[StartIn(s, end) - 1] = "n"
         /\ \A i \in StartIn(s, end) .. end - 1 : s[i] # "n"
<1> DEFINE Clear == {b \in 1 .. end : \A i \in b .. end - 1 : s[i] # "n"}
<1>1. Clear \in SUBSET Nat /\ end \in Clear
  OBVIOUS
<1>2. PICK b \in Clear : \A c \in Clear : b <= c
  <2> HIDE DEF Clear
  <2> QED
    BY <1>1, LeastOf
<1>3. b \in 1 .. end /\ \A i \in b .. end - 1 : s[i] # "n"
  OBVIOUS
<1>4. ASSUME b # 1 PROVE s[b - 1] = "n"
  <2>1. b - 1 \in 1 .. end /\ ~(b <= b - 1)
    BY <1>3, <1>4
  <2>2. b - 1 \notin Clear
    BY <1>2, <2>1
  <2>3. PICK i \in b - 1 .. end - 1 : s[i] = "n"
    BY <2>1, <2>2
  <2>4. i = b - 1
    BY <1>3, <2>1, <2>3
  <2> QED
    BY <2>3, <2>4
<1> HIDE DEF Clear
<1> QED
  BY <1>3, <1>4 DEF StartIn

LEMMA StartUnique ==
  ASSUME NEW s, NEW end \in Nat \ {0}, NEW b \in 1 .. end,
         b = 1 \/ s[b - 1] = "n", \A i \in b .. end - 1 : s[i] # "n"
  PROVE  StartIn(s, end) = b
<1> DEFINE c == StartIn(s, end)
<1>1. /\ c \in 1 .. end
      /\ c = 1 \/ s[c - 1] = "n"
      /\ \A i \in c .. end - 1 : s[i] # "n"
  BY StartExists
<1> HIDE DEF c
<1>2. ~(b < c)
  <2>1. SUFFICES ASSUME b < c PROVE FALSE
    OBVIOUS
  <2>2. c - 1 \in b .. end - 1 /\ c # 1
    BY <1>1, <2>1
  <2> QED
    BY <1>1, <2>2
<1>3. ~(c < b)
  <2>1. SUFFICES ASSUME c < b PROVE FALSE
    OBVIOUS
  <2>2. b - 1 \in c .. end - 1 /\ b # 1
    BY <1>1, <2>1
  <2> QED
    BY <1>1, <2>2
<1> QED
  BY <1>1, <1>2, <1>3 DEF c

\* It depends on what stands before its end only.
LEMMA StartSame ==
  ASSUME NEW s, NEW t, NEW end \in Nat \ {0}, \A i \in 1 .. end - 1 : s[i] = t[i]
  PROVE  StartIn(t, end) = StartIn(s, end)
<1> DEFINE c == StartIn(s, end)
<1>1. /\ c \in 1 .. end
      /\ c = 1 \/ s[c - 1] = "n"
      /\ \A i \in c .. end - 1 : s[i] # "n"
  BY StartExists
<1> HIDE DEF c
<1>2. c = 1 \/ t[c - 1] = "n"
  BY <1>1
<1>3. \A i \in c .. end - 1 : t[i] # "n"
  BY <1>1
<1> QED
  BY <1>1, <1>2, <1>3, StartUnique DEF c

\* The line goes on as long as there is no newline, and the next starts behind it.
LEMMA StartExtends ==
  ASSUME NEW s, NEW e \in Nat \ {0}, NEW f \in Nat, e <= f, \A i \in e .. f - 1 : s[i] # "n"
  PROVE  StartIn(s, f) = StartIn(s, e)
<1> DEFINE c == StartIn(s, e)
<1>1. /\ c \in 1 .. e
      /\ c = 1 \/ s[c - 1] = "n"
      /\ \A i \in c .. e - 1 : s[i] # "n"
  BY StartExists
<1> HIDE DEF c
<1>2. c \in 1 .. f /\ f \in Nat \ {0}
  BY <1>1
<1>3. \A i \in c .. f - 1 : s[i] # "n"
  BY <1>1
<1> QED
  BY <1>1, <1>2, <1>3, StartUnique DEF c

LEMMA StartAfter ==
  ASSUME NEW s, NEW e \in Nat \ {0}, s[e] = "n"
  PROVE  StartIn(s, e + 1) = e + 1
<1>1. e + 1 \in Nat \ {0} /\ e + 1 \in 1 .. e + 1 /\ s[(e + 1) - 1] = "n"
  OBVIOUS
<1>2. \A i \in e + 1 .. (e + 1) - 1 : s[i] # "n"
  OBVIOUS
<1> QED
  BY <1>1, <1>2, StartUnique

\* A sequence of the bytes of a line is that line.
LEMMA LineIs ==
  ASSUME NEW s \in Seq(Byte), NEW e \in 1 .. Len(s) + 1, NEW line \in Seq(Byte),
         Len(line) = e - StartIn(s, e),
         \A i \in 1 .. Len(line) : line[i] = s[StartIn(s, e) - 1 + i]
  PROVE  LineIn(s, e) = line
<1> DEFINE b == StartIn(s, e)
<1>1. b \in 1 .. e /\ e \in Nat \ {0} /\ Len(s) \in Nat
  BY StartExists, LenProperties
<1> HIDE DEF b
<1>2. b \in Int /\ e - 1 \in Int /\ \A i \in b .. e - 1 : s[i] \in Byte
  BY <1>1, ElementOfSeq
<1>3. /\ LineIn(s, e) \in Seq(Byte) /\ Len(LineIn(s, e)) = e - b
      /\ \A i \in 1 .. (e - 1) - b + 1 : LineIn(s, e)[i] = s[b + i - 1]
  <2>1. LineIn(s, e) = SubSeq(s, b, e - 1)
    BY DEF LineIn, b
  <2>2. /\ SubSeq(s, b, e - 1) \in Seq(Byte)
        /\ Len(SubSeq(s, b, e - 1)) = IF b <= e - 1 THEN (e - 1) - b + 1 ELSE 0
        /\ \A i \in 1 .. (e - 1) - b + 1 : SubSeq(s, b, e - 1)[i] = s[b + i - 1]
    BY <1>2, SubSeqProperties
  <2> QED
    BY <1>1, <2>1, <2>2
<1>4. Len(line) = e - b /\ \A i \in 1 .. Len(line) : line[i] = s[b - 1 + i]
  BY DEF b
<1>5. \A i \in 1 .. Len(line) : LineIn(s, e)[i] = line[i]
  BY <1>1, <1>3, <1>4
<1> QED
  BY <1>1, <1>3, <1>4, <1>5, SeqEqual

\* The properties, of lines o of an upload s of which the ends in E were met.
LinesIn(o, s, E) ==
  /\ \A k \in DOMAIN o : o[k].end \in E /\ o[k].text = Strip(LineIn(s, o[k].end))
  /\ \A k \in 2 .. Len(o) : o[k - 1].end < o[k].end

ShortIn(o, s, E) ==
  \A end \in E : end - StartIn(s, end) <= MaxLine => \E k \in DOMAIN o : o[k].end = end

OffsetsIn(o, s) == \A k \in DOMAIN o : o[k].at = StartIn(s, o[k].end) - 1

LEMMA TellsAs ==
  Tells <=> /\ LinesIn(out, input, Ends) /\ ShortIn(out, input, Ends)
            /\ EveryLineCounted /\ (overlong = 0 => OffsetsIn(out, input))
BY DEF Tells, LinesAreTrue, ShortLinesKept, OffsetsTrue, LineBefore, Start,
       LinesIn, ShortIn, OffsetsIn, LineIn, StartIn

LEMMA TellsPrimed ==
  Tells' <=> /\ LinesIn(out', input', Ends') /\ ShortIn(out', input', Ends')
             /\ EveryLineCounted' /\ (overlong' = 0 => OffsetsIn(out', input'))
BY DEF Tells, LinesAreTrue, ShortLinesKept, OffsetsTrue, LineBefore, Start,
       LinesIn, ShortIn, OffsetsIn, LineIn, StartIn

Reports == [text : Seq(Byte), at : Nat, end : Nat]

\* One more line passed on.
LEMMA LinesAppend ==
  ASSUME NEW s, NEW E \in SUBSET Nat, NEW o \in Seq(Reports), LinesIn(o, s, E),
         NEW e \in Nat, \A x \in E : x < e,
         NEW r \in Reports, r.end = e, r.text = Strip(LineIn(s, e))
  PROVE  LinesIn(Append(o, r), s, E \cup {e})
<1> DEFINE p == Append(o, r)
<1>1. /\ DOMAIN o = 1 .. Len(o) /\ Len(o) \in Nat /\ Len(p) = Len(o) + 1
      /\ DOMAIN p = 1 .. Len(o) + 1 /\ p[Len(o) + 1] = r
      /\ \A k \in 1 .. Len(o) : p[k] = o[k]
  BY AppendProperties, LenProperties
<1> HIDE DEF p
<1>2. ASSUME NEW k \in DOMAIN p
      PROVE  p[k].end \in E \cup {e} /\ p[k].text = Strip(LineIn(s, p[k].end))
  <2>1. CASE k \in 1 .. Len(o)
    BY <1>1, <2>1 DEF LinesIn
  <2>2. CASE k = Len(o) + 1
    BY <1>1, <2>2
  <2> QED
    BY <1>1, <1>2, <2>1, <2>2
<1>3. ASSUME NEW k \in 2 .. Len(p) PROVE p[k - 1].end < p[k].end
  <2>1. CASE k \in 2 .. Len(o)
    <3>1. k \in 1 .. Len(o) /\ k - 1 \in 1 .. Len(o)
      BY <1>1, <2>1
    <3> QED
      BY <1>1, <2>1, <3>1 DEF LinesIn
  <2>2. CASE k = Len(o) + 1
    <3>1. k - 1 \in 1 .. Len(o) /\ p[k - 1] = o[k - 1] /\ p[k] = r
      BY <1>1, <1>3, <2>2
    <3>2. o[k - 1].end \in E
      BY <1>1, <3>1 DEF LinesIn
    <3> QED
      BY <3>1, <3>2
  <2> QED
    BY <1>1, <1>3, <2>1, <2>2
<1> QED
  BY <1>2, <1>3 DEF LinesIn, p

LEMMA ShortAppend ==
  ASSUME NEW s, NEW E, NEW o \in Seq(Reports), ShortIn(o, s, E),
         NEW e, NEW r \in Reports, r.end = e
  PROVE  ShortIn(Append(o, r), s, E \cup {e})
<1> DEFINE p == Append(o, r)
<1>1. /\ DOMAIN o = 1 .. Len(o) /\ Len(o) \in Nat
      /\ DOMAIN p = 1 .. Len(o) + 1 /\ p[Len(o) + 1] = r
      /\ \A k \in 1 .. Len(o) : p[k] = o[k]
  BY AppendProperties, LenProperties
<1> HIDE DEF p
<1>2. ASSUME NEW end \in E \cup {e}, end - StartIn(s, end) <= MaxLine
      PROVE  \E k \in DOMAIN p : p[k].end = end
  <2>1. CASE end \in E
    BY <1>1, <1>2, <2>1 DEF ShortIn
  <2>2. CASE end = e
    BY <1>1, <2>2
  <2> QED
    BY <1>2, <2>1, <2>2
<1> QED
  BY <1>2 DEF ShortIn, p

LEMMA OffsetsAppend ==
  ASSUME NEW s, NEW o \in Seq(Reports), OffsetsIn(o, s),
         NEW r \in Reports, r.at = StartIn(s, r.end) - 1
  PROVE  OffsetsIn(Append(o, r), s)
<1> DEFINE p == Append(o, r)
<1>1. /\ DOMAIN o = 1 .. Len(o) /\ Len(o) \in Nat
      /\ DOMAIN p = 1 .. Len(o) + 1 /\ p[Len(o) + 1] = r
      /\ \A k \in 1 .. Len(o) : p[k] = o[k]
  BY AppendProperties, LenProperties
<1> HIDE DEF p
<1>2. ASSUME NEW k \in DOMAIN p PROVE p[k].at = StartIn(s, p[k].end) - 1
  <2>1. CASE k \in 1 .. Len(o)
    BY <1>1, <2>1 DEF OffsetsIn
  <2>2. CASE k = Len(o) + 1
    BY <1>1, <2>2
  <2> QED
    BY <1>1, <1>2, <2>1, <2>2
<1> QED
  BY <1>2 DEF OffsetsIn, p

-----------------------------------------------------------------------------
(* What a step of feed() looks at.                                         *)

LEMMA Places ==
  ASSUME SInv
  PROVE  /\ rest \in Seq(Byte) /\ input \in Seq(Byte) /\ carry \in Seq(Byte)
         /\ Len(rest) \in Nat /\ Len(input) \in Nat /\ Len(carry) \in Nat
         /\ Consumed \in Nat /\ Consumed + Len(rest) = Len(input)
         /\ Begun \in 1 .. Consumed + 1
         /\ out \in Seq(Reports)
         /\ lines \in Nat /\ overlong \in Nat /\ offset \in Nat
<1>1. /\ rest \in Seq(Byte) /\ input \in Seq(Byte) /\ carry \in Seq(Byte)
      /\ Len(rest) <= Len(input) /\ out \in Seq(Reports)
      /\ lines \in Nat /\ overlong \in Nat /\ offset \in Nat
  BY DEF SInv, IInv, SplitterTypeOK, RestFits, Reports
<1>2. Len(rest) \in Nat /\ Len(input) \in Nat /\ Len(carry) \in Nat
  BY <1>1, LenProperties
<1>3. Consumed \in Nat /\ Consumed + Len(rest) = Len(input)
  BY <1>1, <1>2 DEF Consumed
<1>4. Begun \in 1 .. Consumed + 1
  BY <1>3, StartExists DEF Begun
<1> QED
  BY <1>1, <1>2, <1>3, <1>4

\* The ends met are positions that have been looked at, finite in number.
LEMMA EndsFit ==
  ASSUME SInv
  PROVE  /\ Ends \in SUBSET Nat /\ IsFiniteSet(Ends)
         /\ \A e \in Ends : e >= 1 /\ e <= Len(input) + 1
         /\ ~ended => /\ Ends = {i \in 1 .. Consumed : input[i] = "n"}
                      /\ \A e \in Ends : e <= Consumed
<1>1. Len(input) \in Nat /\ Consumed \in Nat /\ Consumed <= Len(input)
  BY Places
<1>2. Ends \subseteq 1 .. Len(input) + 1
  BY <1>1 DEF Ends
<1>3. IsFiniteSet(Ends)
  <2>1. 1 \in Int /\ Len(input) + 1 \in Int
    BY <1>1
  <2>2. IsFiniteSet(1 .. Len(input) + 1)
    BY <2>1, FS_Interval
  <2> QED
    BY <1>2, <2>2, FS_Subset
<1>4. ~ended => Ends = {i \in 1 .. Consumed : input[i] = "n"}
  BY DEF Ends
<1> QED
  BY <1>1, <1>2, <1>3, <1>4

\* The rest of the piece, looked at to its end without a newline.
LEMMA LooksToEnd ==
  ASSUME SInv, Feeding(FALSE)
  PROVE  /\ ~ended /\ ended' = ended /\ input' = input /\ rest' = << >>
         /\ Consumed' = Consumed + Len(rest) /\ Begun' = Begun /\ Ends' = Ends
         /\ \A i \in 1 .. Len(rest) : rest[i] = input[Consumed + i]
<1>1. /\ ended' = ended /\ input' = input /\ rest' = << >> /\ rest # << >>
      /\ Newlines(rest) = {}
  BY DEF Feeding
<1>2. ~ended /\ \A i \in 1 .. Len(rest) : rest[i] = input[Consumed + i]
  BY <1>1 DEF SInv, Looks, EndedFits, RestIsTail
<1>3. /\ rest \in Seq(Byte) /\ Consumed \in Nat /\ Len(rest) \in Nat
      /\ Len(input) \in Nat /\ Consumed + Len(rest) = Len(input)
  BY Places
<1>4. Consumed' = Len(input)
  BY <1>1, <1>3 DEF Consumed
<1>5. \A i \in Consumed + 1 .. Len(input) : input[i] # "n"
  <2>1. ASSUME NEW i \in Consumed + 1 .. Len(input) PROVE input[i] # "n"
    <3>1. i - Consumed \in 1 .. Len(rest) /\ Consumed + (i - Consumed) = i
      BY <1>3
    <3>2. rest[i - Consumed] # "n"
      BY <1>1, <1>3, <3>1 DEF Newlines
    <3> QED
      BY <1>2, <3>1, <3>2
  <2> QED
    BY <2>1
<1>6. Begun' = Begun
  <2>1. StartIn(input, Len(input) + 1) = StartIn(input, Consumed + 1)
    <3>1. Consumed + 1 \in Nat \ {0} /\ Len(input) + 1 \in Nat /\ Consumed + 1 <= Len(input) + 1
      BY <1>3
    <3>2. \A i \in Consumed + 1 .. (Len(input) + 1) - 1 : input[i] # "n"
      BY <1>3, <1>5
    <3> QED
      BY <3>1, <3>2, StartExtends
  <2>2. Begun' = StartIn(input', Consumed' + 1)
    BY DEF Begun
  <2> QED
    BY <1>1, <1>4, <2>1, <2>2 DEF Begun
<1>7. Ends' = Ends
  <2>1. Ends' = {i \in 1 .. Consumed' : input'[i] = "n"}
    BY <1>1, <1>2 DEF Ends
  <2>2. Ends = {i \in 1 .. Consumed : input[i] = "n"}
    BY <1>2 DEF Ends
  <2> QED
    BY <1>1, <1>3, <1>4, <1>5, <2>1, <2>2
<1> QED
  BY <1>1, <1>2, <1>3, <1>4, <1>6, <1>7

\* The rest of the piece, looked at up to and including its first newline.
LEMMA LooksToNewline ==
  ASSUME SInv, Feeding(TRUE)
  PROVE  /\ ~ended /\ ended' = ended /\ input' = input
         /\ End \in Consumed + 1 .. Len(input) /\ Consumed' = End /\ RestIsTail'
         /\ StartIn(input, End) = Begun /\ Begun' = End + 1
         /\ Ends' = Ends \cup {End} /\ End \notin Ends /\ \A e \in Ends : e < End
         /\ Upto \in Seq(Byte) /\ Len(Upto) = End - Consumed - 1
         /\ \A i \in 1 .. Len(Upto) : Upto[i] = input[Consumed + i]
<1> DEFINE f == FirstNewline(rest)
<1>1. /\ ended' = ended /\ input' = input /\ rest # << >> /\ Newlines(rest) # {}
      /\ rest' = SubSeq(rest, f + 1, Len(rest))
  BY DEF Feeding
<1>2. /\ rest \in Seq(Byte) /\ input \in Seq(Byte) /\ Consumed \in Nat /\ Len(rest) \in Nat
      /\ Len(input) \in Nat /\ Consumed + Len(rest) = Len(input)
  BY Places
<1>3. ~ended /\ \A i \in 1 .. Len(rest) : rest[i] = input[Consumed + i]
  BY <1>1 DEF SInv, Looks, EndedFits, RestIsTail
<1>4. f \in 1 .. Len(rest) /\ rest[f] = "n" /\ \A j \in Newlines(rest) : f <= j
  BY <1>1, <1>2, FirstNewlineFound
<1>5. End = Consumed + f
  BY DEF End
<1> HIDE DEF f
<1>6. End \in Consumed + 1 .. Len(input) /\ End \in Nat \ {0} /\ input[End] = "n"
  BY <1>2, <1>3, <1>4, <1>5
<1>7. ASSUME NEW i \in Consumed + 1 .. End - 1 PROVE input[i] # "n"
  <2>1. /\ i - Consumed \in 1 .. Len(rest) /\ Consumed + (i - Consumed) = i
        /\ ~(f <= i - Consumed)
    BY <1>2, <1>4, <1>5, <1>6
  <2>2. rest[i - Consumed] # "n"
    BY <1>2, <1>4, <2>1 DEF Newlines
  <2> QED
    BY <1>3, <2>1, <2>2
<1>8. /\ rest' \in Seq(Byte) /\ Len(rest') = Len(rest) - f
      /\ \A i \in 1 .. Len(rest') : rest'[i] = rest[f + i]
  <2>1. \A i \in f + 1 .. Len(rest) : rest[i] \in Byte
    BY <1>2, <1>4, ElementOfSeq
  <2>2. f + 1 \in Int /\ Len(rest) \in Int
    BY <1>2, <1>4
  <2>3. /\ rest' \in Seq(Byte)
        /\ Len(rest') = IF f + 1 <= Len(rest) THEN Len(rest) - (f + 1) + 1 ELSE 0
        /\ \A i \in 1 .. Len(rest) - (f + 1) + 1 : rest'[i] = rest[(f + 1) + i - 1]
    BY <1>1, <2>1, <2>2, SubSeqProperties
  <2>4. Len(rest') = Len(rest) - f /\ Len(rest) - (f + 1) + 1 = Len(rest) - f
    BY <1>2, <1>4, <2>3
  <2>5. ASSUME NEW i \in 1 .. Len(rest') PROVE rest'[i] = rest[f + i]
    <3>1. (f + 1) + i - 1 = f + i
      BY <1>4
    <3> QED
      BY <2>3, <2>4, <3>1
  <2> QED
    BY <2>3, <2>4, <2>5
<1>9. Consumed' = End
  <2>1. Consumed' = Len(input) - Len(rest')
    BY <1>1 DEF Consumed
  <2>2. Len(input) - (Len(rest) - f) = Consumed + f
    BY <1>2, <1>4
  <2> QED
    BY <1>5, <1>8, <2>1, <2>2
<1>10. RestIsTail'
  <2>1. ASSUME NEW i \in 1 .. Len(rest') PROVE rest'[i] = input'[Consumed' + i]
    <3>1. f + i \in 1 .. Len(rest) /\ Consumed + (f + i) = End + i
      BY <1>2, <1>4, <1>5, <1>8
    <3> QED
      BY <1>1, <1>3, <1>8, <1>9, <3>1
  <2> QED
    BY <2>1 DEF RestIsTail
<1>11. StartIn(input, End) = Begun
  BY <1>2, <1>6, <1>7, StartExtends DEF Begun
<1>12. Begun' = End + 1
  BY <1>1, <1>6, <1>9, StartAfter DEF Begun
<1>13. Ends = {i \in 1 .. Consumed : input[i] = "n"} /\ \A e \in Ends : e < End
  BY <1>2, <1>3, <1>6 DEF Ends
<1>14. Ends' = Ends \cup {End}
  <2>1. Ends' = {i \in 1 .. End : input[i] = "n"}
    BY <1>1, <1>3, <1>9 DEF Ends
  <2> QED
    BY <1>2, <1>6, <1>7, <1>13, <2>1
<1>15. /\ Upto \in Seq(Byte) /\ Len(Upto) = f - 1
       /\ \A i \in 1 .. f - 1 : Upto[i] = rest[i]
  <2>1. \A i \in 1 .. f - 1 : rest[i] \in Byte
    BY <1>2, <1>4, ElementOfSeq
  <2>2. 1 \in Int /\ f - 1 \in Int
    BY <1>4
  <2>3. /\ Upto \in Seq(Byte)
        /\ Len(Upto) = IF 1 <= f - 1 THEN (f - 1) - 1 + 1 ELSE 0
        /\ \A i \in 1 .. (f - 1) - 1 + 1 : Upto[i] = rest[1 + i - 1]
    BY <2>1, <2>2, SubSeqProperties DEF Upto, f
  <2> QED
    BY <1>4, <2>3
<1>16. \A i \in 1 .. Len(Upto) : Upto[i] = input[Consumed + i]
  BY <1>2, <1>3, <1>4, <1>15
<1> QED
  BY <1>1, <1>2, <1>3, <1>4, <1>5, <1>6, <1>9, <1>10, <1>11, <1>12, <1>13, <1>14, <1>15, <1>16

-----------------------------------------------------------------------------
(* One lemma per action again.                                             *)

Fits == Looks /\ Tells

LEMMA NothingTold == LinesIn(<< >>, << >>, {}) /\ ShortIn(<< >>, << >>, {}) /\ OffsetsIn(<< >>, << >>)
BY DEF LinesIn, ShortIn, OffsetsIn

LEMMA FreshFits ==
  ASSUME rest' = << >>, input' = << >>, carry' = << >>, out' = << >>,
         discarding' = FALSE, ended' = FALSE, lines' = 0, overlong' = 0, offset' = 0
  PROVE  Fits'
<1>1. Consumed' = 0 /\ Len(<< >>) = 0
  BY DEF Consumed
<1>2. Ends' = {}
  BY <1>1 DEF Ends
<1>3. StartIn(<< >>, 1) = 1
  <2>1. StartIn(<< >>, 1) \in 1 .. 1
    BY StartExists
  <2> QED
    BY <2>1
<1>4. Begun' = 1
  BY <1>1, <1>3 DEF Begun
<1>5. EveryLineCounted'
  BY <1>2, FS_EmptySet DEF EveryLineCounted
<1>6. Tells'
  BY <1>2, <1>5, NothingTold, TellsPrimed
<1>7. Looks'
  BY <1>1, <1>4 DEF Looks, RestIsTail, CarryIsBegun, DiscardFits, EndedFits, OffsetFits
<1> QED
  BY <1>6, <1>7 DEF Fits

LEMMA FeedFits ==
  ASSUME SInv, NEW piece \in Seq(Byte), Feed(piece)
  PROVE  Fits'
<1>1. /\ ~ended /\ rest = << >> /\ rest' = piece /\ input' = input \o piece
      /\ UNCHANGED <<carry, discarding, lines, overlong, offset, ended, out>>
  BY DEF Feed
<1>2. /\ input \in Seq(Byte) /\ Len(input) \in Nat /\ Len(piece) \in Nat
      /\ Consumed = Len(input) /\ Begun \in 1 .. Consumed + 1
  BY <1>1, Places, LenProperties
<1>3. /\ input' \in Seq(Byte) /\ Len(input') = Len(input) + Len(piece)
      /\ \A i \in 1 .. Len(input) : input'[i] = input[i]
      /\ \A i \in 1 .. Len(piece) : input'[Len(input) + i] = piece[i]
  <2>1. /\ input' \in Seq(Byte) /\ Len(input') = Len(input) + Len(piece)
        /\ \A i \in 1 .. Len(input) + Len(piece) :
             input'[i] = IF i <= Len(input) THEN input[i] ELSE piece[i - Len(input)]
    BY <1>1, <1>2, ConcatProperties
  <2>2. ASSUME NEW i \in 1 .. Len(piece) PROVE input'[Len(input) + i] = piece[i]
    <3>1. /\ Len(input) + i \in 1 .. Len(input) + Len(piece)
          /\ ~(Len(input) + i <= Len(input)) /\ (Len(input) + i) - Len(input) = i
      BY <1>2
    <3> QED
      BY <2>1, <3>1
  <2>3. ASSUME NEW i \in 1 .. Len(input) PROVE input'[i] = input[i]
    BY <1>2, <2>1
  <2> QED
    BY <2>1, <2>2, <2>3
<1>4. Consumed' = Consumed
  <2>1. Consumed' = Len(input') - Len(piece)
    BY <1>1 DEF Consumed
  <2> QED
    BY <1>2, <1>3, <2>1
<1>5. \A e \in 1 .. Len(input) + 1 :
        StartIn(input', e) = StartIn(input, e) /\ LineIn(input', e) = LineIn(input, e)
  <2>1. ASSUME NEW e \in 1 .. Len(input) + 1
        PROVE  StartIn(input', e) = StartIn(input, e) /\ LineIn(input', e) = LineIn(input, e)
    <3> DEFINE b == StartIn(input, e)
    <3>1. \A i \in 1 .. e - 1 : input[i] = input'[i]
      BY <1>2, <1>3
    <3>2. e \in Nat \ {0} /\ b \in 1 .. e
      BY <1>2, StartExists
    <3>3. StartIn(input', e) = b
      BY <3>1, <3>2, StartSame
    <3> HIDE DEF b
    <3>4. LineIn(input', e) = SubSeq(input', b, e - 1) /\ LineIn(input, e) = SubSeq(input, b, e - 1)
      BY <3>3 DEF LineIn, b
    <3>5. /\ b \in Int /\ e - 1 \in Int /\ \A i \in b .. e - 1 : input[i] \in Byte
          /\ \A i \in b .. e - 1 : input'[i] \in Byte /\ input'[i] = input[i]
      <4>1. b \in Nat /\ e \in Nat /\ b .. e - 1 \subseteq 1 .. Len(input)
        BY <1>2, <3>2
      <4>2. \A i \in 1 .. Len(input) : input[i] \in Byte
        BY <1>2, ElementOfSeq
      <4> QED
        BY <1>3, <4>1, <4>2
    <3>6. /\ SubSeq(input, b, e - 1) \in Seq(Byte)
          /\ Len(SubSeq(input, b, e - 1)) = IF b <= e - 1 THEN (e - 1) - b + 1 ELSE 0
          /\ \A i \in 1 .. (e - 1) - b + 1 : SubSeq(input, b, e - 1)[i] = input[b + i - 1]
      BY <3>5, SubSeqProperties
    <3>7. LineIn(input', e) \in Seq(Byte) /\ Len(LineIn(input', e)) = Len(LineIn(input, e))
          /\ \A i \in 1 .. (e - 1) - b + 1 : LineIn(input', e)[i] = input'[b + i - 1]
      BY <3>4, <3>5, <3>6, SubSeqProperties
    <3>8. Len(LineIn(input, e)) = IF b <= e - 1 THEN (e - 1) - b + 1 ELSE 0
      BY <3>4, <3>6
    <3>9. ASSUME NEW i \in 1 .. Len(LineIn(input, e))
          PROVE  LineIn(input', e)[i] = LineIn(input, e)[i]
      <4>1. b \in Int /\ e \in Int /\ i \in 1 .. (e - 1) - b + 1 /\ b + i - 1 \in b .. e - 1
        BY <3>2, <3>8
      <4>2. LineIn(input', e)[i] = input'[b + i - 1]
        BY <3>7, <4>1
      <4>3. LineIn(input, e)[i] = input[b + i - 1]
        BY <3>4, <3>6, <4>1
      <4> QED
        BY <3>5, <4>1, <4>2, <4>3
    <3>10. LineIn(input, e) \in Seq(Byte)
      BY <3>4, <3>6
    <3>11. LineIn(input', e) = LineIn(input, e)
      BY <3>7, <3>9, <3>10, SeqEqual
    <3> QED
      BY <3>3, <3>11 DEF b
  <2> QED
    BY <2>1
<1>6. Ends' = Ends /\ Ends \subseteq 1 .. Len(input) + 1
  <2>1. Ends = {i \in 1 .. Len(input) : input[i] = "n"}
    BY <1>1, <1>2 DEF Ends
  <2>2. Ends' = {i \in 1 .. Len(input) : input'[i] = "n"}
    BY <1>1, <1>2, <1>4 DEF Ends
  <2> QED
    BY <1>2, <1>3, <2>1, <2>2
<1>7. Begun' = Begun
  <2>1. Begun' = StartIn(input', Consumed' + 1)
    BY DEF Begun
  <2> QED
    BY <1>2, <1>4, <1>5, <2>1 DEF Begun
<1>8. Looks'
  <2>1. RestIsTail'
    BY <1>1, <1>2, <1>3, <1>4 DEF RestIsTail
  <2>2. CarryIsBegun'
    <3>1. ASSUME ~ended, ~discarding, NEW i \in 1 .. Len(carry)
          PROVE  input'[Begun - 1 + i] = input[Begun - 1 + i]
      BY <1>2, <1>3, <3>1 DEF SInv, Looks, CarryIsBegun
    <3> QED
      BY <1>1, <1>4, <1>7, <3>1 DEF SInv, Looks, CarryIsBegun
  <2>3. DiscardFits' /\ EndedFits' /\ OffsetFits'
    BY <1>1, <1>4, <1>7 DEF SInv, Looks, DiscardFits, EndedFits, OffsetFits
  <2> QED
    BY <2>1, <2>2, <2>3 DEF Looks
<1>9. Tells'
  <2>1. /\ LinesIn(out, input, Ends) /\ ShortIn(out, input, Ends)
        /\ EveryLineCounted /\ (overlong = 0 => OffsetsIn(out, input))
    BY TellsAs DEF SInv
  <2>2. \A k \in DOMAIN out : out[k].end \in 1 .. Len(input) + 1
    BY <1>6, <2>1 DEF LinesIn
  <2>3. LinesIn(out, input', Ends)
    BY <1>5, <2>1, <2>2 DEF LinesIn
  <2>4. ShortIn(out, input', Ends)
    BY <1>5, <1>6, <2>1 DEF ShortIn
  <2>5. overlong = 0 => OffsetsIn(out, input')
    BY <1>5, <2>1, <2>2 DEF OffsetsIn
  <2>6. EveryLineCounted'
    BY <1>1, <1>6, <2>1 DEF EveryLineCounted
  <2> QED
    BY <1>1, <1>6, <2>3, <2>4, <2>5, <2>6, TellsPrimed
<1> QED
  BY <1>8, <1>9 DEF Fits

\* A line that is given up, or part of one: nothing more is told, and offset and
\* carry_ are as they were or as Looks wants them.
LEMMA ToldStays ==
  ASSUME SInv, UNCHANGED <<input, out>>, Ends' = Ends, overlong' = 0 => overlong = 0,
         (lines' + overlong') + (IF discarding THEN 1 ELSE 0) =
           (lines + overlong) + (IF discarding' THEN 1 ELSE 0),
         lines' \in Nat, overlong' \in Nat
  PROVE  Tells'
<1>1. /\ LinesIn(out, input, Ends) /\ ShortIn(out, input, Ends)
      /\ EveryLineCounted /\ (overlong = 0 => OffsetsIn(out, input))
  BY TellsAs DEF SInv
<1>2. Cardinality(Ends) \in Nat /\ lines \in Nat /\ overlong \in Nat
  BY EndsFit, Places, FS_CardinalityType
<1>3. EveryLineCounted'
  <2> DEFINE c == Cardinality(Ends)
             d == IF discarding THEN 1 ELSE 0
             f == IF discarding' THEN 1 ELSE 0
             m == lines + overlong
             n == lines' + overlong'
  <2>1. c \in Int /\ d \in Int /\ f \in Int /\ m \in Int /\ n \in Int
    BY <1>2
  <2>2. m = c + d /\ n + d = m + f
    BY <1>1 DEF EveryLineCounted
  <2>3. EveryLineCounted' <=> n = c + f
    BY DEF EveryLineCounted
  <2> HIDE DEF c, d, f, m, n
  <2>4. n = c + f
    BY <2>1, <2>2
  <2> QED
    BY <2>3, <2>4
<1> QED
  BY <1>1, <1>3, TellsPrimed

LEMMA SkipAllFits == ASSUME SInv, SkipAll PROVE Fits'
<1>1. /\ discarding /\ Feeding(FALSE)
      /\ UNCHANGED <<carry, discarding, lines, overlong, offset, out>>
  BY DEF SkipAll
<1>2. /\ ~ended /\ ended' = ended /\ input' = input /\ rest' = << >>
      /\ Consumed' = Consumed + Len(rest) /\ Begun' = Begun /\ Ends' = Ends
  BY <1>1, LooksToEnd
<1>3. /\ carry = << >> /\ Consumed + 1 - Begun > MaxLine /\ overlong > 0
  BY <1>1 DEF SInv, Looks, DiscardFits
<1>4. /\ Consumed \in Nat /\ Len(rest) \in Nat /\ Begun \in 1 .. Consumed + 1
      /\ lines \in Nat /\ overlong \in Nat
  BY Places
<1>5. Looks'
  <2>1. RestIsTail'
    BY <1>2 DEF RestIsTail
  <2>2. Consumed' + 1 - Begun' > MaxLine
    BY <1>2, <1>3, <1>4, SplitterAssumption
  <2>3. DiscardFits' /\ CarryIsBegun' /\ EndedFits' /\ OffsetFits'
    BY <1>1, <1>2, <1>3, <2>2 DEF DiscardFits, CarryIsBegun, EndedFits, OffsetFits
  <2> QED
    BY <2>1, <2>3 DEF Looks
<1>6. Tells'
  BY <1>1, <1>2, <1>4, ToldStays
<1> QED
  BY <1>5, <1>6 DEF Fits

\* A partial line grows: it becomes carry_, or it has become too long.
LEMMA KeepFits == ASSUME SInv, ExtendCarry \/ KeepTail PROVE Fits'
<1>1. ~discarding /\ Feeding(FALSE)
  BY DEF ExtendCarry, KeepTail
<1>2. /\ ~ended /\ ended' = ended /\ input' = input /\ rest' = << >>
      /\ Consumed' = Consumed + Len(rest) /\ Begun' = Begun /\ Ends' = Ends
      /\ \A i \in 1 .. Len(rest) : rest[i] = input[Consumed + i]
  BY <1>1, LooksToEnd
<1>3. /\ Len(carry) = Consumed + 1 - Begun
      /\ \A i \in 1 .. Len(carry) : carry[i] = input[Begun - 1 + i]
      /\ overlong = 0 => offset = Begun - 1
  BY <1>1, <1>2 DEF SInv, Looks, CarryIsBegun, OffsetFits
<1>4. /\ Consumed \in Nat /\ Len(rest) \in Nat /\ Begun \in 1 .. Consumed + 1
      /\ Len(carry) \in Nat /\ rest \in Seq(Byte) /\ carry \in Seq(Byte)
      /\ lines \in Nat /\ overlong \in Nat
  BY Places
<1>5. RestIsTail'
  BY <1>2 DEF RestIsTail
<1>6. CASE TooLong(rest)
  <2>1. /\ overlong' = overlong + 1 /\ carry' = << >> /\ discarding' = TRUE
        /\ UNCHANGED <<lines, offset, out>>
    BY <1>6 DEF ExtendCarry, KeepTail, Drop
  <2>2. Consumed' + 1 - Begun' > MaxLine
    BY <1>2, <1>3, <1>4, <1>6, SplitterAssumption DEF TooLong
  <2>3. overlong' > 0 /\ overlong' \in Nat
    BY <1>4, <2>1
  <2>4. DiscardFits' /\ CarryIsBegun' /\ EndedFits' /\ OffsetFits'
    BY <1>2, <2>1, <2>2, <2>3 DEF DiscardFits, CarryIsBegun, EndedFits, OffsetFits
  <2>5. Tells'
    BY <1>1, <1>2, <1>4, <2>1, <2>3, ToldStays
  <2> QED
    BY <1>5, <2>4, <2>5 DEF Fits, Looks
<1>7. CASE ~TooLong(rest)
  <2>1. UNCHANGED <<discarding, lines, overlong, offset, out>>
    BY <1>7 DEF ExtendCarry, KeepTail
  <2>2. carry' = carry \o rest
    <3>1. CASE ExtendCarry
      BY <1>7, <3>1 DEF ExtendCarry
    <3>2. CASE KeepTail
      <4>1. carry = << >> /\ carry' = rest
        BY <1>7, <3>2 DEF KeepTail
      <4> QED
        BY <1>4, <4>1, ConcatEmptySeq
    <3> QED
      BY <3>1, <3>2
  <2>3. /\ Len(carry') = Len(carry) + Len(rest)
        /\ \A i \in 1 .. Len(carry) + Len(rest) :
             carry'[i] = IF i <= Len(carry) THEN carry[i] ELSE rest[i - Len(carry)]
    BY <1>4, <2>2, ConcatProperties
  <2>4. Len(carry') = Consumed' + 1 - Begun'
    BY <1>2, <1>3, <1>4, <2>3
  <2>5. ASSUME NEW i \in 1 .. Len(carry') PROVE carry'[i] = input'[Begun' - 1 + i]
    <3>1. CASE i <= Len(carry)
      BY <1>2, <1>3, <1>4, <2>3, <3>1
    <3>2. CASE ~(i <= Len(carry))
      <4>1. /\ i - Len(carry) \in 1 .. Len(rest)
            /\ Consumed + (i - Len(carry)) = Begun - 1 + i
        BY <1>3, <1>4, <2>3, <3>2
      <4>2. rest[i - Len(carry)] = input[Begun - 1 + i]
        BY <1>2, <4>1
      <4> QED
        BY <1>2, <2>3, <3>2, <4>2
    <3> QED
      BY <3>1, <3>2
  <2>6. DiscardFits' /\ CarryIsBegun' /\ EndedFits' /\ OffsetFits'
    BY <1>1, <1>2, <1>3, <2>1, <2>4, <2>5
       DEF DiscardFits, CarryIsBegun, EndedFits, OffsetFits
  <2>7. Tells'
    BY <1>2, <1>4, <2>1, ToldStays
  <2> QED
    BY <1>5, <2>6, <2>7 DEF Fits, Looks
<1> QED
  BY <1>6, <1>7

\* The end of a line that is given up is met.
LEMMA GivenUp ==
  ASSUME SInv, UNCHANGED <<input, out>>, NEW e \in Nat \ {0}, e \notin Ends, Ends' = Ends \cup {e},
         e - StartIn(input, e) > MaxLine, overlong' = 0 => overlong = 0,
         (lines' + overlong') + (IF discarding THEN 1 ELSE 0) =
           (lines + overlong) + 1 + (IF discarding' THEN 1 ELSE 0),
         lines' \in Nat, overlong' \in Nat
  PROVE  Tells'
<1>1. /\ LinesIn(out, input, Ends) /\ ShortIn(out, input, Ends)
      /\ EveryLineCounted /\ (overlong = 0 => OffsetsIn(out, input))
  BY TellsAs DEF SInv
<1>2. /\ Cardinality(Ends) \in Nat /\ lines \in Nat /\ overlong \in Nat
      /\ Cardinality(Ends') = Cardinality(Ends) + 1
  BY EndsFit, Places, FS_CardinalityType, FS_AddElement
<1>3. EveryLineCounted'
  <2> DEFINE c == Cardinality(Ends)
             d == IF discarding THEN 1 ELSE 0
             f == IF discarding' THEN 1 ELSE 0
             m == lines + overlong
             n == lines' + overlong'
  <2>1. c \in Int /\ d \in Int /\ f \in Int /\ m \in Int /\ n \in Int
    BY <1>2
  <2>2. m = c + d /\ n + d = m + 1 + f
    BY <1>1 DEF EveryLineCounted
  <2>3. EveryLineCounted' <=> n = (c + 1) + f
    BY <1>2 DEF EveryLineCounted
  <2> HIDE DEF c, d, f, m, n
  <2>4. n = (c + 1) + f
    BY <2>1, <2>2
  <2> QED
    BY <2>3, <2>4
<1>4. StartIn(input, e) \in Nat
  BY StartExists
<1>5. ~(e - StartIn(input, e) <= MaxLine)
  BY <1>4, SplitterAssumption
<1>6. LinesIn(out, input, Ends')
  BY <1>1 DEF LinesIn
<1>7. ShortIn(out, input, Ends')
  BY <1>1, <1>5 DEF ShortIn
<1> QED
  BY <1>1, <1>3, <1>6, <1>7, TellsPrimed

\* A line is passed on.
LEMMA Told ==
  ASSUME SInv, input' = input, NEW e \in 1 .. Len(input) + 1, \A x \in Ends : x < e,
         Ends' = Ends \cup {e}, NEW line \in Seq(Byte), line = LineIn(input, e), NEW raw,
         Emit(line, raw, e), ~discarding, ~discarding', overlong' = overlong,
         overlong = 0 => offset = StartIn(input, e) - 1
  PROVE  Tells'
<1> DEFINE r == [text |-> Strip(line), at |-> offset, end |-> e]
<1>1. /\ LinesIn(out, input, Ends) /\ ShortIn(out, input, Ends)
      /\ EveryLineCounted /\ (overlong = 0 => OffsetsIn(out, input))
  BY TellsAs DEF SInv
<1>2. lines' = lines + 1 /\ out' = Append(out, r)
  BY DEF Emit
<1>3. /\ out \in Seq(Reports) /\ lines \in Nat /\ overlong \in Nat /\ offset \in Nat
      /\ Len(input) \in Nat /\ e \in Nat /\ e \notin Ends
  BY Places
<1>4. r \in Reports /\ r.end = e /\ r.text = Strip(LineIn(input, e)) /\ r.at = offset
  BY <1>3, StripBytes DEF Reports
<1> HIDE DEF r
<1>5. LinesIn(out', input, Ends')
  BY <1>1, <1>2, <1>3, <1>4, EndsFit, LinesAppend
<1>6. ShortIn(out', input, Ends')
  BY <1>1, <1>2, <1>3, <1>4, ShortAppend
<1>7. overlong' = 0 => OffsetsIn(out', input)
  BY <1>1, <1>2, <1>3, <1>4, OffsetsAppend
<1>8. EveryLineCounted'
  <2>1. /\ Cardinality(Ends) \in Nat /\ Cardinality(Ends') = Cardinality(Ends) + 1
    BY <1>3, EndsFit, FS_CardinalityType, FS_AddElement
  <2>2. lines + overlong = Cardinality(Ends) + 0
    BY <1>1 DEF EveryLineCounted
  <2>3. EveryLineCounted' <=> (lines + 1) + overlong = (Cardinality(Ends) + 1) + 0
    BY <1>2, <2>1 DEF EveryLineCounted
  <2> QED
    BY <1>3, <2>1, <2>2, <2>3
<1> QED
  BY <1>5, <1>6, <1>7, <1>8, TellsPrimed

LEMMA SkipToNewlineFits == ASSUME SInv, SkipToNewline PROVE Fits'
<1>1. /\ discarding /\ Feeding(TRUE) /\ discarding' = FALSE
      /\ UNCHANGED <<carry, lines, overlong, offset, out>>
  BY DEF SkipToNewline
<1>2. /\ ~ended /\ ended' = ended /\ input' = input
      /\ End \in Consumed + 1 .. Len(input) /\ Consumed' = End /\ RestIsTail'
      /\ StartIn(input, End) = Begun /\ Begun' = End + 1
      /\ Ends' = Ends \cup {End} /\ End \notin Ends
  BY <1>1, LooksToNewline
<1>3. carry = << >> /\ Consumed + 1 - Begun > MaxLine /\ overlong > 0
  BY <1>1 DEF SInv, Looks, DiscardFits
<1>4. /\ Consumed \in Nat /\ Begun \in 1 .. Consumed + 1 /\ Len(input) \in Nat
      /\ lines \in Nat /\ overlong \in Nat
  BY Places
<1>5. End \in Nat \ {0} /\ End - StartIn(input, End) > MaxLine
  BY <1>2, <1>3, <1>4, SplitterAssumption
<1>6. Tells'
  BY <1>1, <1>2, <1>4, <1>5, GivenUp
<1>7. /\ Len(carry') = 0 /\ Consumed' + 1 - Begun' = 0
  BY <1>1, <1>2, <1>3, <1>5
<1>8. DiscardFits' /\ CarryIsBegun' /\ EndedFits' /\ OffsetFits'
  BY <1>1, <1>2, <1>3, <1>7 DEF DiscardFits, CarryIsBegun, EndedFits, OffsetFits
<1> QED
  BY <1>2, <1>6, <1>8 DEF Fits, Looks

\* carry_ and what stands before the newline are the line.
LEMMA LineCompleted ==
  ASSUME SInv, ~discarding, Feeding(TRUE), carry' = << >>, UNCHANGED <<discarding, overlong>>,
         Emit(carry \o Upto, Len(carry) + Len(Upto) + 1, End)
  PROVE  Fits'
<1> DEFINE line == carry \o Upto
<1>1. /\ ~ended /\ ended' = ended /\ input' = input
      /\ End \in Consumed + 1 .. Len(input) /\ Consumed' = End /\ RestIsTail'
      /\ StartIn(input, End) = Begun /\ Begun' = End + 1
      /\ Ends' = Ends \cup {End} /\ \A e \in Ends : e < End
      /\ Upto \in Seq(Byte) /\ Len(Upto) = End - Consumed - 1
      /\ \A i \in 1 .. Len(Upto) : Upto[i] = input[Consumed + i]
  BY LooksToNewline
<1>2. /\ Len(carry) = Consumed + 1 - Begun
      /\ \A i \in 1 .. Len(carry) : carry[i] = input[Begun - 1 + i]
      /\ overlong = 0 => offset = Begun - 1
  BY <1>1 DEF SInv, Looks, CarryIsBegun, OffsetFits
<1>3. /\ Consumed \in Nat /\ Begun \in 1 .. Consumed + 1 /\ Len(input) \in Nat
      /\ carry \in Seq(Byte) /\ input \in Seq(Byte) /\ offset \in Nat
  BY Places
<1>4. /\ line \in Seq(Byte) /\ Len(line) = Len(carry) + Len(Upto)
      /\ \A i \in 1 .. Len(carry) + Len(Upto) :
           line[i] = IF i <= Len(carry) THEN carry[i] ELSE Upto[i - Len(carry)]
  BY <1>1, <1>3, ConcatProperties
<1>5. Len(carry) \in Nat /\ Len(Upto) \in Nat /\ End \in 1 .. Len(input) + 1 /\ End \in Nat
  BY <1>1, <1>2, <1>3
<1> HIDE DEF line
<1>6. ASSUME NEW i \in 1 .. Len(line) PROVE line[i] = input[Begun - 1 + i]
  <2>1. CASE i <= Len(carry)
    BY <1>2, <1>4, <1>5, <2>1
  <2>2. CASE ~(i <= Len(carry))
    <3>1. /\ i - Len(carry) \in 1 .. Len(Upto)
          /\ Consumed + (i - Len(carry)) = Begun - 1 + i
      BY <1>2, <1>3, <1>4, <1>5, <2>2
    <3>2. Upto[i - Len(carry)] = input[Begun - 1 + i]
      BY <1>1, <3>1
    <3> QED
      BY <1>4, <2>2, <3>2
  <2> QED
    BY <2>1, <2>2
<1>7. Len(line) = End - Begun
  BY <1>1, <1>2, <1>3, <1>4, <1>5
<1>8. line = LineIn(input, End)
  BY <1>1, <1>3, <1>4, <1>5, <1>6, <1>7, LineIs
<1>9. Emit(line, Len(carry) + Len(Upto) + 1, End)
  BY DEF line
<1>10. overlong = 0 => offset = StartIn(input, End) - 1
  BY <1>1, <1>2
<1>11. Tells'
  BY <1>1, <1>4, <1>5, <1>8, <1>9, <1>10, Told
<1>12. overlong' = 0 => offset' = Begun' - 1
  <2>1. offset' = offset + (Len(carry) + Len(Upto) + 1)
    BY DEF Emit
  <2> QED
    BY <1>1, <1>2, <1>3, <1>5, <2>1
<1>13. Len(carry') = 0 /\ Consumed' + 1 - Begun' = 0
  BY <1>1, <1>5
<1>14. DiscardFits' /\ CarryIsBegun' /\ EndedFits' /\ OffsetFits'
  BY <1>1, <1>12, <1>13 DEF DiscardFits, CarryIsBegun, EndedFits, OffsetFits
<1> QED
  BY <1>1, <1>11, <1>14 DEF Fits, Looks

LEMMA CompleteFits == ASSUME SInv, CompleteCarry PROVE Fits'
<1>1. ~discarding /\ Feeding(TRUE) /\ UNCHANGED discarding
  BY DEF CompleteCarry
<1>2. CASE TooLong(Upto)
  <2>1. /\ overlong' = overlong + 1 /\ carry' = << >> /\ UNCHANGED <<lines, offset, out>>
    BY <1>2 DEF CompleteCarry, Drop
  <2>2. /\ ~ended /\ ended' = ended /\ input' = input
        /\ End \in Consumed + 1 .. Len(input) /\ Consumed' = End /\ RestIsTail'
        /\ StartIn(input, End) = Begun /\ Begun' = End + 1
        /\ Ends' = Ends \cup {End} /\ End \notin Ends /\ Len(Upto) = End - Consumed - 1
    BY <1>1, LooksToNewline
  <2>3. Len(carry) = Consumed + 1 - Begun
    BY <1>1, <2>2 DEF SInv, Looks, CarryIsBegun
  <2>4. /\ Consumed \in Nat /\ Begun \in 1 .. Consumed + 1 /\ Len(input) \in Nat
        /\ lines \in Nat /\ overlong \in Nat
    BY Places
  <2>5. End \in Nat \ {0} /\ End - StartIn(input, End) > MaxLine
    BY <1>2, <2>2, <2>3, <2>4, SplitterAssumption DEF TooLong
  <2>6. Tells'
    BY <1>1, <2>1, <2>2, <2>4, <2>5, GivenUp
  <2>7. Len(carry') = 0 /\ Consumed' + 1 - Begun' = 0 /\ overlong' # 0
    BY <2>1, <2>2, <2>4, <2>5
  <2>8. DiscardFits' /\ CarryIsBegun' /\ EndedFits' /\ OffsetFits'
    BY <1>1, <2>1, <2>2, <2>7 DEF DiscardFits, CarryIsBegun, EndedFits, OffsetFits
  <2> QED
    BY <2>2, <2>6, <2>8 DEF Fits, Looks
<1>3. CASE ~TooLong(Upto)
  BY <1>1, <1>3, LineCompleted DEF CompleteCarry
<1> QED
  BY <1>2, <1>3

LEMMA WholeLineFits == ASSUME SInv, WholeLine PROVE Fits'
<1>1. /\ ~discarding /\ carry = << >> /\ Feeding(TRUE) /\ Emit(Upto, Len(Upto) + 1, End)
      /\ UNCHANGED <<carry, discarding, overlong>>
  BY DEF WholeLine
<1>2. Upto \in Seq(Byte) /\ Len(Upto) \in Nat
  BY <1>1, LooksToNewline, LenProperties
<1>3. carry \o Upto = Upto /\ Len(carry) + Len(Upto) + 1 = Len(Upto) + 1
  BY <1>1, <1>2, ConcatEmptySeq
<1> QED
  BY <1>1, <1>3, LineCompleted

\* The end of the upload ends a line that has been begun.
LEMMA LooksToEndOfUpload ==
  ASSUME SInv, FinishLines
  PROVE  /\ ~ended /\ ended' = TRUE /\ input' = input /\ rest = << >> /\ rest' = << >>
         /\ Consumed = Len(input)
         /\ Begun <= Consumed => Ends' = Ends \cup {Len(input) + 1}
         /\ Begun = Consumed + 1 => Ends' = Ends
<1>1. /\ ~ended /\ ended' = TRUE /\ input' = input /\ rest = << >> /\ rest' = << >>
  BY DEF FinishLines
<1>2. /\ Consumed = Len(input) /\ Len(input) \in Nat /\ input \in Seq(Byte)
      /\ Begun \in 1 .. Consumed + 1
  BY <1>1, Places
<1>3. Consumed' = Len(input)
  <2>1. Consumed' = Len(input) - 0
    BY <1>1, EmptySeq DEF Consumed
  <2> QED
    BY <1>2, <2>1
<1>4. Ends = {i \in 1 .. Len(input) : input[i] = "n"}
  BY <1>1, <1>2 DEF Ends
<1>5. Ends' = {i \in 1 .. Len(input) : input[i] = "n"}
                \cup (IF input # << >> /\ LastByte(input) # "n" THEN {Len(input) + 1} ELSE {})
  BY <1>1, <1>3 DEF Ends
<1>6. /\ Begun = 1 \/ input[Begun - 1] = "n"
      /\ \A i \in Begun .. Len(input) : input[i] # "n"
  <2>1. /\ StartIn(input, Consumed + 1) = 1 \/ input[StartIn(input, Consumed + 1) - 1] = "n"
        /\ \A i \in StartIn(input, Consumed + 1) .. (Consumed + 1) - 1 : input[i] # "n"
    BY <1>2, StartExists
  <2>2. (Consumed + 1) - 1 = Len(input)
    BY <1>2
  <2> QED
    BY <2>1, <2>2 DEF Begun
<1>7. ASSUME Begun <= Consumed PROVE input # << >> /\ LastByte(input) # "n"
  <2>1. Len(input) \in Begun .. Len(input) /\ Len(input) # 0
    BY <1>2, <1>7
  <2> QED
    BY <1>6, <2>1 DEF LastByte
<1>8. ASSUME Begun = Consumed + 1, input # << >> PROVE LastByte(input) = "n"
  <2>1. Len(input) # 0 /\ Begun # 1 /\ Begun - 1 = Len(input)
    BY <1>2, <1>8, EmptySeq
  <2> QED
    BY <1>6, <2>1 DEF LastByte
<1> QED
  BY <1>1, <1>2, <1>4, <1>5, <1>7, <1>8

\* Behind the end of the upload nothing is looked at any more.
LEMMA EndedLooks ==
  ASSUME ended' = TRUE, rest' = << >>, carry' = << >>, discarding' = FALSE
  PROVE  Looks'
BY DEF Looks, RestIsTail, CarryIsBegun, DiscardFits, EndedFits, OffsetFits

LEMMA FinishFits == ASSUME SInv, FinishLines PROVE Fits'
<1> DEFINE e == Len(input) + 1
<1>1. /\ ~ended /\ ended' = TRUE /\ input' = input /\ rest = << >> /\ rest' = << >>
      /\ Consumed = Len(input)
      /\ Begun <= Consumed => Ends' = Ends \cup {e}
      /\ Begun = Consumed + 1 => Ends' = Ends
  BY LooksToEndOfUpload
<1>2. carry' = << >> /\ discarding' = FALSE /\ overlong' = overlong
  BY DEF FinishLines, FlushCarry
<1>3. /\ Len(input) \in Nat /\ Begun \in 1 .. Consumed + 1 /\ input \in Seq(Byte)
      /\ carry \in Seq(Byte) /\ Len(carry) \in Nat /\ lines \in Nat /\ overlong \in Nat
      /\ offset \in Nat
  BY Places
<1>4. e \in Nat \ {0} /\ e \in 1 .. Len(input) + 1 /\ StartIn(input, e) = Begun
  BY <1>1, <1>3 DEF Begun
<1>5. e \notin Ends /\ \A x \in Ends : x < e
  BY <1>1, <1>3, EndsFit
<1>6. ASSUME carry = << >> PROVE lines' = lines /\ out' = out
  BY <1>6 DEF FinishLines, FlushCarry
<1> HIDE DEF e
<1>7. CASE discarding
  <2>1. carry = << >> /\ Consumed + 1 - Begun > MaxLine
    BY <1>7 DEF SInv, Looks, DiscardFits
  <2>2. Begun <= Consumed /\ e - StartIn(input, e) > MaxLine
    BY <1>1, <1>3, <1>4, <2>1, SplitterAssumption DEF e
  <2>3. /\ Ends' = Ends \cup {e} /\ UNCHANGED <<input, out>>
        /\ lines' = lines /\ overlong' = overlong
    BY <1>1, <1>2, <1>6, <2>1, <2>2
  <2>4. (lines' + overlong') + (IF discarding THEN 1 ELSE 0) =
          (lines + overlong) + 1 + (IF discarding' THEN 1 ELSE 0)
    BY <1>2, <1>3, <1>7, <2>3
  <2>5. Tells'
    BY <1>3, <1>4, <1>5, <2>2, <2>3, <2>4, GivenUp
  <2>6. Looks'
    BY <1>1, <1>2, EndedLooks
  <2> QED
    BY <2>5, <2>6 DEF Fits
<1>8. CASE ~discarding
  <2>1. /\ Len(carry) = Consumed + 1 - Begun
        /\ \A i \in 1 .. Len(carry) : carry[i] = input[Begun - 1 + i]
        /\ overlong = 0 => offset = Begun - 1
    BY <1>1, <1>8 DEF SInv, Looks, CarryIsBegun, OffsetFits
  <2>2. CASE carry = << >>
    <3>1. Begun = Consumed + 1
      BY <1>1, <1>3, <2>1, <2>2, EmptySeq
    <3> QED
      BY <1>1, <1>2, <1>3, <1>6, <1>8, <2>2, <3>1, ToldStays, EndedLooks DEF Fits
  <2>3. CASE carry # << >>
    <3>1. Emit(carry, Len(carry), e)
      BY <2>3 DEF FinishLines, FlushCarry, e
    <3>2. Len(carry) # 0 /\ Begun <= Consumed
      <4>1. Len(carry) \in Nat \ {0}
        BY <1>3, <2>3, EmptySeq
      <4> QED
        BY <1>1, <1>3, <2>1, <4>1
    <3>3. Len(carry) = e - StartIn(input, e)
      BY <1>1, <1>3, <1>4, <2>1 DEF e
    <3>4. \A i \in 1 .. Len(carry) : carry[i] = input[StartIn(input, e) - 1 + i]
      BY <1>4, <2>1
    <3>5. carry = LineIn(input, e)
      BY <1>3, <1>4, <3>3, <3>4, LineIs
    <3>6. overlong = 0 => offset = StartIn(input, e) - 1
      BY <1>4, <2>1
    <3>7. Tells'
      BY <1>1, <1>2, <1>3, <1>4, <1>5, <1>8, <3>1, <3>2, <3>5, <3>6, Told
    <3> QED
      BY <1>1, <1>2, <3>7, EndedLooks DEF Fits
  <2> QED
    BY <2>2, <2>3
<1> QED
  BY <1>7, <1>8

-----------------------------------------------------------------------------

LEMMA InitFits == SplitterInit => SInv
<1> SUFFICES ASSUME SplitterInit PROVE SInv
  OBVIOUS
<1>1. /\ rest = << >> /\ input = << >> /\ carry = << >> /\ out = << >>
      /\ discarding = FALSE /\ ended = FALSE
      /\ lines = 0 /\ overlong = 0 /\ offset = 0
  BY DEF SplitterInit
<1>2. Consumed = 0 /\ Len(<< >>) = 0
  BY <1>1 DEF Consumed
<1>3. Ends = {}
  BY <1>1, <1>2 DEF Ends
<1>4. Begun = 1
  <2>1. StartIn(<< >>, 1) \in 1 .. 1
    BY StartExists
  <2>2. Begun = StartIn(<< >>, 1)
    BY <1>1, <1>2 DEF Begun
  <2> QED
    BY <2>1, <2>2
<1>5. EveryLineCounted
  BY <1>1, <1>3, FS_EmptySet DEF EveryLineCounted
<1>6. Tells
  BY <1>1, <1>3, <1>5, NothingTold, TellsAs
<1>7. Looks
  BY <1>1, <1>2, <1>4 DEF Looks, RestIsTail, CarryIsBegun, DiscardFits, EndedFits, OffsetFits
<1> QED
  BY <1>6, <1>7, InitIInv DEF SInv

LEMMA StepFits == SInv /\ [SplitterNext]_splitterVars => SInv'
<1> SUFFICES ASSUME SInv, [SplitterNext]_splitterVars PROVE Fits'
  BY StepIInv DEF SInv, Fits
<1>2. CASE BeginLines
  BY <1>2, FreshFits DEF BeginLines, Reset
<1>3. CASE \E piece \in Pieces : Feed(piece)
  <2>1. PICK piece \in Pieces : Feed(piece)
    BY <1>3
  <2>2. piece \in Seq(Byte)
    BY PiecesAreBytes
  <2> QED
    BY <2>1, <2>2, FeedFits
<1>4. CASE FeedStep
  BY <1>4, SkipAllFits, SkipToNewlineFits, KeepFits, CompleteFits, WholeLineFits DEF FeedStep
<1>5. CASE FinishLines
  BY <1>5, FinishFits
<1>6. CASE UNCHANGED splitterVars
  <2>1. UNCHANGED <<rest, input>> /\ UNCHANGED <<carry, discarding, lines, overlong>>
        /\ UNCHANGED <<offset, ended, out>>
    BY <1>6 DEF splitterVars
  <2>2. Consumed' = Consumed /\ Ends' = Ends /\ Begun' = Begun
    BY <2>1 DEF Consumed, Ends, Begun
  <2>3. Looks'
    BY <2>1, <2>2 DEF SInv, Looks, RestIsTail, CarryIsBegun, DiscardFits, EndedFits, OffsetFits
  <2>4. Tells'
    BY <2>1, <2>2, TellsAs, TellsPrimed DEF SInv, EveryLineCounted
  <2> QED
    BY <2>3, <2>4 DEF Fits
<1> QED
  BY <1>2, <1>3, <1>4, <1>5, <1>6 DEF SplitterNext

\* The invariant of the splitter: where it stands in the line it looks at, and
\* what it has told of the lines before.
LEMMA SplitterInvariant == SplitterSpec => []SInv
BY InitFits, StepFits, PTL DEF SplitterSpec

\* However an upload is cut into pieces, the lines passed on are lines of the
\* file, whole, in order and without their line ends (LineSplitter.h, feed).
THEOREM SplitterLinesAreTrue == SplitterSpec => []LinesAreTrue
<1>1. SInv => LinesAreTrue
  BY DEF SInv, Tells
<1> QED
  BY <1>1, SplitterInvariant, PTL

\* No line within the limit is lost, whatever stands before it.
THEOREM SplitterKeepsShortLines == SplitterSpec => []ShortLinesKept
<1>1. SInv => ShortLinesKept
  BY DEF SInv, Tells
<1> QED
  BY <1>1, SplitterInvariant, PTL

\* Every line is counted once, as passed on or as too long.
THEOREM SplitterCountsEveryLine == SplitterSpec => []EveryLineCounted
<1>1. SInv => EveryLineCounted
  BY DEF SInv, Tells
<1> QED
  BY <1>1, SplitterInvariant, PTL

\* Until a line is dropped, every line is reported at its place in the file
\* (TcpSession.cpp, payload_chunk).
THEOREM SplitterOffsetsTrue == SplitterSpec => []OffsetsTrue
<1>1. SInv => OffsetsTrue
  BY DEF SInv, Tells
<1> QED
  BY <1>1, SplitterInvariant, PTL

=============================================================================
