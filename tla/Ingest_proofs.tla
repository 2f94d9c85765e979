---------------------------- MODULE Ingest_proofs ----------------------------
(***************************************************************************)
(* The splitter and the aggregator together: each does what it does alone, *)
(* and the result is that of the file, for every limit, every parser and   *)
(* uploads of any size, however they are cut.                              *)
(***************************************************************************)
EXTENDS Ingest, Aggregator_proofs, LineSplitter_proofs

\* Numbers of which each is more than the one before.
LEMMA Rising ==
  ASSUME NEW n \in Nat, NEW f \in [1 .. n -> Nat], \A k \in 2 .. n : f[k - 1] < f[k],
         NEW i \in 1 .. n, NEW j \in 1 .. n, i < j
  PROVE  f[i] < f[j]
<1> SUFFICES ASSUME ~(f[i] < f[j]) PROVE FALSE
  OBVIOUS
<1> DEFINE S == {k \in i + 1 .. n : ~(f[i] < f[k])}
<1>1. S \in SUBSET Nat /\ j \in S
  OBVIOUS
<1>2. PICK m \in S : \A k \in S : m <= k
  <2> HIDE DEF S
  <2> QED
    BY <1>1, LeastOf
<1>3. m \in i + 1 .. n /\ ~(f[i] < f[m]) /\ f[m - 1] < f[m]
  OBVIOUS
<1>4. m # i + 1
  BY <1>3
<1>5. m - 1 \in i + 1 .. n /\ m - 1 \notin S
  BY <1>2, <1>3, <1>4
<1>6. f[i] < f[m - 1]
  BY <1>5
<1>7. f[i] \in Nat /\ f[m - 1] \in Nat /\ f[m] \in Nat
  BY <1>3, <1>5
<1> QED
  BY <1>3, <1>6, <1>7

\* The number of such a number among them is the number of those up to it.
LEMMA Ranks ==
  ASSUME NEW n \in Nat, NEW f \in [1 .. n -> Nat], \A k \in 2 .. n : f[k - 1] < f[k],
         NEW m \in 0 .. n
  PROVE  Cardinality({f[i] : i \in 1 .. m}) = m
<1> DEFINE S == {f[i] : i \in 1 .. m}
           g == [i \in 1 .. m |-> f[i]]
<1>1. ASSUME NEW i \in 1 .. m, NEW j \in 1 .. m, i # j PROVE f[i] # f[j]
  <2>1. i \in 1 .. n /\ j \in 1 .. n /\ f[i] \in Nat /\ f[j] \in Nat
    OBVIOUS
  <2>2. i < j => f[i] < f[j]
    BY <2>1, Rising
  <2>3. j < i => f[j] < f[i]
    BY <2>1, Rising
  <2> QED
    BY <1>1, <2>1, <2>2, <2>3
<1>2. g \in Bijection(1 .. m, S)
  BY <1>1 DEF Bijection, Injection, Surjection, IsInjective
<1> HIDE DEF g, S
<1>3. ExistsBijection(1 .. m, S)
  BY <1>2 DEF ExistsBijection
<1>4. Cardinality(S) = m
  BY <1>3, FS_CountingElements
<1> QED
  BY <1>4 DEF S

-----------------------------------------------------------------------------
(* How the two stand to each other.                                        *)

\* Every line that came out has been added, as the parser reads it, and every
\* line dropped is counted when the result is built.
Joined ==
  /\ reading \in DOMAIN Parse
  /\ Len(input) <= MaxInput
  /\ lines = Len(out) /\ Len(seen) = Len(out)
  /\ \A k \in DOMAIN out : seen[k] = Parse[reading][out[k].text]
  /\ dropped = overlong
  /\ oversize = IF done THEN dropped ELSE 0
  /\ done => ended

\* One more line that has come out.
LEMMA OneComesOut ==
  ASSUME out \in Seq(Reports), NEW line, NEW raw, NEW end, Emit(line, raw, end)
  PROVE  /\ Len(out') = Len(out) + 1 /\ DOMAIN out' = DOMAIN out \cup {Len(out')}
         /\ \A k \in DOMAIN out : out'[k] = out[k]
         /\ lines' = lines + 1
<1> DEFINE r == [text |-> Strip(line), at |-> offset, end |-> end]
<1>1. out' = Append(out, r) /\ lines' = lines + 1
  BY DEF Emit
<1> HIDE DEF r
<1>2. out \in Seq(Reports \cup {r}) /\ r \in Reports \cup {r}
  BY SeqDef
<1>3. /\ Len(Append(out, r)) = Len(out) + 1
      /\ \A k \in 1 .. Len(out) : Append(out, r)[k] = out[k]
      /\ DOMAIN Append(out, r) = 1 .. Len(out) + 1
  BY <1>2, AppendProperties, LenProperties
<1>4. DOMAIN out = 1 .. Len(out) /\ Len(out) \in Nat
  BY LenProperties
<1> QED
  BY <1>1, <1>3, <1>4

\* What the splitter can pass on in one step.
LEMMA PassesOn ==
  ASSUME FeedStep \/ FinishLines, out \in Seq(Reports)
  PROVE  /\ input' = input
         /\ ended => ended'
         /\ \/ /\ out' = out /\ lines' = lines
               /\ overlong' = overlong \/ overlong' = overlong + 1
            \/ /\ Len(out') = Len(out) + 1 /\ DOMAIN out' = DOMAIN out \cup {Len(out')}
               /\ \A k \in DOMAIN out : out'[k] = out[k]
               /\ lines' = lines + 1 /\ overlong' = overlong
<1>1. CASE SkipAll \/ SkipToNewline
  BY <1>1 DEF SkipAll, SkipToNewline, Feeding
<1>2. CASE ExtendCarry \/ KeepTail
  BY <1>2 DEF ExtendCarry, KeepTail, Feeding, Drop
<1>3. CASE CompleteCarry \/ WholeLine
  <2>1. UNCHANGED <<input, ended>>
    BY <1>3 DEF CompleteCarry, WholeLine, Feeding
  <2>2. CASE Drop
    BY <2>1, <2>2 DEF Drop
  <2>3. ASSUME NEW line, NEW raw, NEW end, Emit(line, raw, end), UNCHANGED overlong
        PROVE  /\ Len(out') = Len(out) + 1 /\ DOMAIN out' = DOMAIN out \cup {Len(out')}
               /\ \A k \in DOMAIN out : out'[k] = out[k]
               /\ lines' = lines + 1 /\ overlong' = overlong
    BY <2>3, OneComesOut
  <2> QED
    BY <1>3, <2>1, <2>2, <2>3 DEF CompleteCarry, WholeLine
<1>4. CASE FinishLines
  <2>1. input' = input /\ ended' /\ overlong' = overlong
    BY <1>4 DEF FinishLines
  <2>2. CASE UNCHANGED <<lines, out, offset>>
    BY <2>1, <2>2
  <2>3. CASE Emit(carry, Len(carry), Len(input) + 1)
    BY <2>1, <2>3, OneComesOut
  <2> QED
    BY <1>4, <2>2, <2>3 DEF FinishLines, FlushCarry
<1> QED
  BY <1>1, <1>2, <1>3, <1>4 DEF FeedStep

\* A step of the whole is a step of the splitter, or leaves it alone.
LEMMA SplitterSteps ==
  [IngestNext]_<<vars, splitterVars, reading>> => [SplitterNext]_splitterVars
BY DEF IngestNext, UploadBegins, ChunkArrives, ChunkIsSplit, LastLineIsSplit,
       ResultIsBuilt, SplitterNext

TextsRead == SInv /\ Len(input) <= MaxInput /\ reading \in DOMAIN Parse

\* A line that comes out is a text the parser has a reading of.
LEMMA OutIsText ==
  ASSUME SInv, Len(input) <= MaxInput, reading \in DOMAIN Parse, NEW k \in DOMAIN out
  PROVE  out[k].text \in Texts /\ Parse[reading][out[k].text] \in Lines
<1> DEFINE e == out[k].end
           line == LineBefore(e)
           n == Len(Strip(line))
<1>1. /\ input \in Seq(Byte) /\ Len(input) \in Nat /\ MaxInput \in Nat
      /\ e \in Ends /\ out[k].text = Strip(line)
  BY Places, SplitterAssumption DEF SInv, Tells, LinesAreTrue
<1>2. e \in Nat \ {0} /\ e <= Len(input) + 1
  BY <1>1, EndsFit
<1>3. Start(e) \in 1 .. e
  BY <1>2, StartExists DEF Start, StartIn
<1>4. line \in Seq(Byte) /\ Len(line) = e - Start(e)
  <2>1. Start(e) \in 1 .. Len(input) + 1 /\ e - 1 \in Start(e) - 1 .. Len(input)
    BY <1>1, <1>2, <1>3
  <2>2. /\ SubSeq(input, Start(e), e - 1) \in Seq(Byte)
        /\ Len(SubSeq(input, Start(e), e - 1)) = (e - 1) - Start(e) + 1
    BY <1>1, <2>1, PartOfBytes
  <2> QED
    BY <1>2, <1>3, <2>2 DEF LineBefore
<1> HIDE DEF line
<1>5. Strip(line) \in Seq(Byte)
  BY <1>4, StripBytes
<1>6. Len(Strip(line)) <= Len(line)
  <2>1. Len(line) \in Nat
    BY <1>4, LenProperties
  <2>2. ASSUME Strip(line) # line PROVE Len(Strip(line)) <= Len(line)
    <3>1. Strip(line) = SubSeq(line, 1, Len(line) - 1) /\ line # << >>
      BY <2>2 DEF Strip
    <3>2. Len(line) > 0
      BY <1>4, <2>1, <3>1, EmptySeq
    <3>3. Len(SubSeq(line, 1, Len(line) - 1)) = Len(line) - 1 - 1 + 1
      BY <1>4, <2>1, <3>2, PartOfBytes
    <3> QED
      BY <2>1, <3>1, <3>3
  <2> QED
    BY <2>1, <2>2
<1>7. n \in 0 .. MaxInput /\ Strip(line) \in [1 .. n -> Byte]
  <2>1. n \in Nat /\ Strip(line) \in [1 .. n -> Byte]
    BY <1>5, LenProperties
  <2> QED
    BY <1>1, <1>2, <1>3, <1>4, <1>6, <2>1
<1>8. Strip(line) \in Texts
  BY <1>7 DEF Texts
<1> QED
  BY <1>1, <1>8, IngestAssumption

LEMMA OutsAreTexts ==
  TextsRead => \A i \in DOMAIN out :
    out[i].text \in Texts /\ Parse[reading][out[i].text] \in Lines
BY OutIsText DEF TextsRead

LEMMA OutIsTextNext ==
  ASSUME SInv', (Len(input) <= MaxInput)', (reading \in DOMAIN Parse)',
         NEW k \in DOMAIN out'
  PROVE  out'[k].text \in Texts /\ Parse[reading'][out'[k].text] \in Lines
<1>1. TextsRead' => (\A i \in DOMAIN out :
        out[i].text \in Texts /\ Parse[reading][out[i].text] \in Lines)'
  BY OutsAreTexts, PTL
<1> QED
  BY <1>1 DEF TextsRead

\* How the two stand to each other is kept by every step.
LEMMA JoinedStep ==
  ASSUME SInv, SInv', AInv, Joined, [IngestNext]_<<vars, splitterVars, reading>>
  PROVE  Joined'
<1>1. /\ out \in Seq(Reports) /\ out' \in Seq(Reports) /\ Len(out) \in Nat
      /\ lines \in Nat /\ overlong \in Nat
      /\ DOMAIN out = 1 .. Len(out)
  <2>1. out \in Seq(Reports) /\ lines \in Nat /\ overlong \in Nat
    BY Places
  <2>2. out' \in Seq(Reports)
    BY DEF SInv, IInv, SplitterTypeOK, Reports
  <2> QED
    BY <2>1, <2>2, LenProperties
<1>2. CASE UploadBegins
  <2>1. /\ reading' = reading /\ seen' = << >> /\ out' = << >> /\ input' = << >>
        /\ lines' = 0 /\ overlong' = 0 /\ dropped' = 0 /\ oversize' = 0 /\ done' = FALSE
    BY <1>2 DEF UploadBegins, BeginLines, Reset, Begin
  <2>2. Len(<< >>) = 0 /\ DOMAIN << >> = {} /\ 0 <= MaxInput
    BY SplitterAssumption
  <2> QED
    BY <2>1, <2>2 DEF Joined
<1>3. ASSUME NEW piece \in Pieces, ChunkArrives(piece) PROVE Joined'
  <2>1. /\ UNCHANGED <<reading, lines, out, seen, dropped, oversize, done, overlong, ended>>
    BY <1>3 DEF ChunkArrives, Feed, vars
  <2>2. piece \in Seq(Byte) /\ input \in Seq(Byte)
    BY PiecesAreBytes, Places
  <2>3. Len(input') <= MaxInput
    BY <1>3, <2>2, ConcatProperties DEF ChunkArrives, Feed
  <2> QED
    BY <2>1, <2>3 DEF Joined
<1>4. CASE ChunkIsSplit \/ LastLineIsSplit
  <2>1. /\ reading' = reading /\ PassedOn
        /\ input' = input
        /\ ended => ended'
        /\ \/ /\ out' = out /\ lines' = lines
              /\ overlong' = overlong \/ overlong' = overlong + 1
           \/ /\ Len(out') = Len(out) + 1 /\ DOMAIN out' = DOMAIN out \cup {Len(out')}
              /\ \A k \in DOMAIN out : out'[k] = out[k]
              /\ lines' = lines + 1 /\ overlong' = overlong
    BY <1>1, <1>4, PassesOn DEF ChunkIsSplit, LastLineIsSplit
  <2>2. CASE Len(out') > Len(out) /\ AddLine
    <3> DEFINE line == Parse[reading][out'[Len(out')].text]
    <3>1. /\ Len(out') = Len(out) + 1 /\ DOMAIN out' = DOMAIN out \cup {Len(out')}
          /\ \A k \in DOMAIN out : out'[k] = out[k]
          /\ lines' = lines + 1 /\ overlong' = overlong
      BY <1>1, <2>1, <2>2
    <3>2. Adding(line)
      BY <2>2 DEF AddLine, RejectLine, AcceptLine
    <3>3. /\ seen' = Append(seen, line) /\ ~done
          /\ UNCHANGED <<oversize, dropped, done>>
      BY <3>2 DEF Adding
    <3>4. seen \in Seq(Lines) /\ line \in Lines /\ Len(seen) = Len(out)
      <4>1. /\ Len(out') \in DOMAIN out'
            /\ Len(input') <= MaxInput /\ reading' \in DOMAIN Parse
        BY <2>1, <3>1 DEF Joined
      <4>2. Parse[reading'][out'[Len(out')].text] \in Lines
        BY <4>1, OutIsTextNext
      <4> QED
        BY <2>1, <4>2 DEF AInv, Types, Counters, Joined
    <3> HIDE DEF line
    <3>5. /\ Len(seen') = Len(seen) + 1 /\ seen'[Len(seen) + 1] = line
          /\ \A k \in 1 .. Len(seen) : seen'[k] = seen[k]
      BY <3>3, <3>4, AppendProperties
    <3>6. \A k \in DOMAIN out' : seen'[k] = Parse[reading'][out'[k].text]
      BY <1>1, <2>1, <3>1, <3>4, <3>5 DEF Joined, line
    <3> QED
      BY <1>1, <2>1, <3>1, <3>3, <3>4, <3>5, <3>6 DEF Joined
  <2>3. CASE overlong' > overlong /\ DropLine
    <3>1. overlong' = overlong + 1 /\ out' = out /\ lines' = lines
      BY <1>1, <2>1, <2>3
    <3>2. dropped' = dropped + 1 /\ ~done /\ UNCHANGED <<oversize, done, seen>>
      BY <2>3 DEF DropLine
    <3> QED
      BY <2>1, <3>1, <3>2 DEF Joined
  <2>4. CASE out' = out /\ overlong' = overlong /\ UNCHANGED vars
    <3>1. UNCHANGED <<seen, dropped, oversize, done>>
      BY <2>4 DEF vars
    <3>2. Len(out') # Len(out) + 1
      <4>1. out' = out /\ Len(out) \in Nat
        BY <1>1, <2>4
      <4> QED
        BY <4>1
    <3>3. lines' = lines
      BY <2>1, <3>2
    <3> QED
      BY <2>1, <2>4, <3>1, <3>3 DEF Joined
  <2> QED
    BY <2>1, <2>2, <2>3, <2>4 DEF PassedOn
<1>5. CASE ResultIsBuilt
  <2>1. /\ UNCHANGED <<reading, input, lines, out, overlong, ended, seen, dropped>>
        /\ ended /\ ~done /\ done' = TRUE /\ oversize' = oversize + dropped
    BY <1>5 DEF ResultIsBuilt, Finish, splitterVars
  <2>2. dropped \in Nat
    BY <1>1 DEF Joined
  <2> QED
    BY <2>1, <2>2 DEF Joined
<1>6. CASE UNCHANGED <<vars, splitterVars, reading>>
  <2>1. UNCHANGED <<reading, input, lines, out, overlong, ended, seen, dropped, oversize, done>>
    BY <1>6 DEF vars, splitterVars
  <2> QED
    BY <2>1 DEF Joined
<1> QED
  BY <1>2, <1>3, <1>4, <1>5, <1>6 DEF IngestNext

-----------------------------------------------------------------------------
(* The composition implements its two parts.                               *)

IngestInv == SInv /\ AInv /\ Joined

\* Every line that the splitter passes on is a line for the aggregator.
LEMMA AggregatorSteps ==
  ASSUME SInv', Joined', [IngestNext]_<<vars, splitterVars, reading>>, out \in Seq(Reports)
  PROVE  [Next]_vars
<1>1. CASE ChunkIsSplit \/ LastLineIsSplit
  <2>1. PassedOn /\ reading' = reading /\ (FeedStep \/ FinishLines)
    BY <1>1 DEF ChunkIsSplit, LastLineIsSplit
  <2>2. CASE Len(out') > Len(out) /\ AddLine
    <3> DEFINE line == Parse[reading][out'[Len(out')].text]
    <3>1. Len(out') \in DOMAIN out'
      BY <2>1, <2>2, PassesOn
    <3>2. (Len(input) <= MaxInput)' /\ (reading \in DOMAIN Parse)'
      BY DEF Joined
    <3>3. line \in Lines
      BY <2>1, <3>1, <3>2, OutIsTextNext
    <3>4. RejectLine(line) \/ AcceptLine(line)
      BY <2>2 DEF AddLine
    <3> QED
      BY <3>3, <3>4 DEF Next
  <2> QED
    BY <2>1, <2>2 DEF PassedOn, Next
<1> QED
  BY <1>1 DEF IngestNext, UploadBegins, ChunkArrives, ResultIsBuilt, Next

LEMMA IngestInvStep ==
  IngestInv /\ [IngestNext]_<<vars, splitterVars, reading>> => IngestInv' /\ [Next]_vars
<1> SUFFICES ASSUME IngestInv, [IngestNext]_<<vars, splitterVars, reading>>
             PROVE  IngestInv' /\ [Next]_vars
  OBVIOUS
<1>1. SInv'
  BY SplitterSteps, StepFits DEF IngestInv
<1>2. Joined'
  BY <1>1, JoinedStep DEF IngestInv
<1>3. out \in Seq(Reports)
  BY Places DEF IngestInv
<1>4. [Next]_vars
  BY <1>1, <1>2, <1>3, AggregatorSteps
<1>5. AInv'
  BY <1>4, CountStep DEF IngestInv
<1> QED
  BY <1>1, <1>2, <1>4, <1>5 DEF IngestInv

LEMMA IngestInvInit == IngestInit => IngestInv
<1> SUFFICES ASSUME IngestInit PROVE IngestInv
  OBVIOUS
<1>1. SInv /\ AInv
  BY InitFits, InitInv DEF IngestInit
<1>2. /\ input = << >> /\ out = << >> /\ seen = << >> /\ lines = 0
      /\ dropped = 0 /\ overlong = 0 /\ oversize = 0 /\ done = FALSE
      /\ reading \in DOMAIN Parse
  BY DEF IngestInit, Init, SplitterInit
<1>3. Len(<< >>) = 0 /\ DOMAIN << >> = {} /\ 0 <= MaxInput
  BY SplitterAssumption
<1> QED
  BY <1>1, <1>2, <1>3 DEF IngestInv, Joined

LEMMA IngestInvariant == IngestSpec => []IngestInv
BY IngestInvInit, IngestInvStep, PTL DEF IngestSpec

\* In the composition the splitter does what it does alone.
THEOREM IngestSplits == IngestSpec => SplitterSpec
<1>1. IngestInit => SplitterInit
  BY DEF IngestInit
<1> QED
  BY <1>1, SplitterSteps, PTL DEF IngestSpec, SplitterSpec

\* And the aggregator does: what comes out of the splitter are lines it can be
\* given, and no line is added behind the result.
THEOREM IngestAggregates == IngestSpec => Spec
<1>1. IngestInit => Init
  BY DEF IngestInit
<1> QED
  BY <1>1, IngestInvariant, IngestInvStep, PTL DEF IngestSpec, Spec

-----------------------------------------------------------------------------
(* The result is that of the file.                                         *)

\* If every line was passed on, the place of a line in the file is its place
\* in what came out.
LEMMA PlacesAreRanks ==
  ASSUME SInv, \A e \in Ends : \E k \in DOMAIN out : out[k].end = e
  PROVE  /\ Cardinality(Ends) = Len(out)
         /\ \A k \in DOMAIN out : LineNumber(out[k].end) = k
<1> DEFINE n == Len(out)
           f == [k \in 1 .. n |-> out[k].end]
<1>1. n \in Nat /\ DOMAIN out = 1 .. n /\ f \in [1 .. n -> Nat]
  <2>1. out \in Seq(Reports)
    BY Places
  <2>2. n \in Nat /\ DOMAIN out = 1 .. n /\ \A k \in 1 .. n : out[k] \in Reports
    BY <2>1, LenProperties, ElementOfSeq
  <2> QED
    BY <2>2 DEF Reports
<1>2. /\ \A k \in 1 .. n : out[k].end \in Ends /\ f[k] = out[k].end
      /\ \A k \in 2 .. n : f[k - 1] < f[k]
  BY <1>1 DEF SInv, Tells, LinesAreTrue
<1> HIDE DEF f
<1>3. Ends = {f[i] : i \in 1 .. n}
  BY <1>1, <1>2
<1>4. Cardinality({f[i] : i \in 1 .. n}) = n
  <2>1. n \in 0 .. n
    BY <1>1
  <2> QED
    BY <1>1, <1>2, <2>1, Ranks
<1>5. ASSUME NEW k \in 1 .. n PROVE LineNumber(out[k].end) = k
  <2>1. ASSUME NEW i \in 1 .. n PROVE f[i] <= f[k] <=> i <= k
    <3>1. f[i] \in Nat /\ f[k] \in Nat
      BY <1>1
    <3>2. (i < k => f[i] < f[k]) /\ (k < i => f[k] < f[i])
      BY <1>1, <1>2, Rising
    <3> QED
      BY <3>1, <3>2
  <2>2. {e \in Ends : e <= f[k]} = {f[i] : i \in 1 .. k}
    BY <1>1, <1>3, <2>1
  <2>3. Cardinality({f[i] : i \in 1 .. k}) = k
    <3>1. k \in 0 .. n
      BY <1>1
    <3> QED
      BY <1>1, <1>2, <3>1, Ranks
  <2> QED
    BY <1>2, <2>2, <2>3 DEF LineNumber
<1> QED
  BY <1>1, <1>3, <1>4, <1>5

LEMMA ResultHolds == IngestInv => ResultIsOfFile
<1> SUFFICES ASSUME IngestInv, done
             PROVE  /\ DispositionTotal = Cardinality(Ends)
                    /\ WithinLimit => SeenIsFile
  BY DEF ResultIsOfFile
<1>1. SInv /\ AInv /\ Joined
  BY DEF IngestInv
<1>2. ~discarding /\ EveryLineCounted /\ lines \in Nat /\ overlong \in Nat
  BY <1>1, Places DEF Joined, SInv, Looks, DiscardFits, Tells
<1>3. /\ lines = Len(out) /\ Len(seen) = Len(out) /\ total = Len(seen)
      /\ oversize = overlong
  BY <1>1 DEF Joined, AInv, Types, Counters
<1>4. /\ IsFiniteSet(Ends) /\ Cardinality(Ends) \in Nat
      /\ lines + overlong = Cardinality(Ends)
  BY <1>1, <1>2, EndsFit, FS_CardinalityType DEF EveryLineCounted
<1>5. DispositionTotal = Cardinality(Ends)
  BY <1>1, <1>3, <1>4, SumHolds
<1>6. ASSUME WithinLimit PROVE SeenIsFile
  <2>1. \A e \in Ends : \E k \in DOMAIN out : out[k].end = e
    BY <1>1, <1>6 DEF WithinLimit, SInv, Tells, ShortLinesKept
  <2>2. /\ Cardinality(Ends) = Len(out)
        /\ \A k \in DOMAIN out : LineNumber(out[k].end) = k
    BY <1>1, <2>1, PlacesAreRanks
  <2>3. ASSUME NEW e \in Ends
        PROVE  seen[LineNumber(e)] = Parse[reading][Strip(LineBefore(e))]
    <3>1. PICK k \in DOMAIN out : out[k].end = e
      BY <2>1
    <3>2. seen[k] = Parse[reading][out[k].text] /\ out[k].text = Strip(LineBefore(e))
      BY <1>1, <3>1 DEF Joined, SInv, Tells, LinesAreTrue
    <3> QED
      BY <2>2, <3>1, <3>2
  <2> QED
    BY <1>3, <2>2, <2>3 DEF SeenIsFile
<1> QED
  BY <1>5, <1>6

\* The result of an upload is that of its file, however it was cut and whatever
\* upload was given up before it (payload_chunk, handle_upload_end).
THEOREM ResultStaysOfFile == IngestSpec => []ResultIsOfFile
BY IngestInvariant, ResultHolds, PTL

=============================================================================
