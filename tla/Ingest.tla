--------------------------------- MODULE Ingest ---------------------------------
(***************************************************************************)
(* An upload on its way through the session: the bytes of its chunks go to *)
(* the LineSplitter, the lines that come out of it are parsed and added to *)
(* the Aggregator, and UPLOAD_END makes the result of them.                *)
(*                                                                         *)
(* Every step of the two modules is a step here, taken together with what  *)
(* the session makes of it in the other one.                               *)
(***************************************************************************)
EXTENDS Aggregator, LineSplitter

CONSTANT
  Parse        \* Parse[r][text]: what the parser makes of a text, in reading r

\* Texts as long as an upload may be.
Texts == UNION {[1 .. n -> Byte] : n \in 0 .. MaxInput}

ASSUME IngestAssumption == \A r \in DOMAIN Parse : Parse[r] \in [Texts -> Lines]

VARIABLE
  reading      \* the reading: the same text is always the same line

-----------------------------------------------------------------------------

IngestInit == Init /\ SplitterInit /\ reading \in DOMAIN Parse

\* handle_upload_begin: both start from nothing.  UPLOAD_END is handled to its
\* end before another frame is.
UploadBegins ==
  /\ ended => done
  /\ BeginLines
  /\ Begin
  /\ UNCHANGED reading

\* payload_chunk
ChunkArrives(piece) ==
  /\ Feed(piece)
  /\ UNCHANGED <<vars, reading>>

\* The callback of feed and finish, for the line that has just come out.
AddLine ==
  LET line == Parse[reading][out'[Len(out')].text]
  IN RejectLine(line) \/ AcceptLine(line)

\* What a step of the splitter does to the aggregator.
PassedOn ==
  \/ Len(out') > Len(out) /\ AddLine
  \/ overlong' > overlong /\ DropLine
  \/ out' = out /\ overlong' = overlong /\ UNCHANGED vars

ChunkIsSplit ==
  /\ FeedStep
  /\ PassedOn
  /\ UNCHANGED reading

\* A faulty end of an upload that forgets the line without a newline.
ForgetsLastLine ==
  /\ FinishLines
  /\ UNCHANGED <<vars, reading>>

\* handle_upload_end: the line left in carry_ ...
LastLineIsSplit ==
  /\ FinishLines
  /\ PassedOn
  /\ UNCHANGED reading

\* ... and then the dropped lines, and the result.
ResultIsBuilt ==
  /\ ended
  /\ Finish
  /\ UNCHANGED <<splitterVars, reading>>

IngestNext == \/ UploadBegins
              \/ \E piece \in Pieces : ChunkArrives(piece)
              \/ ChunkIsSplit
              \/ LastLineIsSplit
              \/ ResultIsBuilt

IngestSpec == IngestInit /\ [][IngestNext]_<<vars, splitterVars, reading>>

-----------------------------------------------------------------------------
(* Properties.                                                             *)

LineNumber(end) == Cardinality({e \in Ends : e <= end})

\* The lines given to the aggregator are those of the file, in order, each as
\* the parser reads it.
SeenIsFile ==
  /\ Len(seen) = Cardinality(Ends)
  /\ \A end \in Ends : seen[LineNumber(end)] = Parse[reading][Strip(LineBefore(end))]

WithinLimit == \A end \in Ends : end - Start(end) <= MaxLine

\* The result is that of the file, however it was cut and whatever upload was
\* given up before it: the dispositions sum to the lines of the file, those
\* dropped and an unfinished last one included, and if none is overlong the
\* lines counted are exactly those of the file, in their order (payload_chunk,
\* handle_upload_end).
ResultIsOfFile ==
  done => /\ DispositionTotal = Cardinality(Ends)
          /\ WithinLimit => SeenIsFile

=============================================================================
