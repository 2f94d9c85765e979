--------------------------- MODULE TcpSession_proofs ---------------------------
(***************************************************************************)
(* The invariants of TcpSession, and that it keeps the contract of an      *)
(* upload, for every size, chunk limit, batch and queue length.            *)
(***************************************************************************)
EXTENDS TcpSession, SequenceTheorems, TLAPS

-----------------------------------------------------------------------------
(* Tokens, frames and the write queue.                                     *)

\* A token has a type and, for its argument, a number if it has one.
LEMMA TokenType ==
  ASSUME NEW tok \in PeerTokens
  PROVE  /\ tok.type \in FrameTypes \cup {"DATA"}
         /\ tok.arg \in Nat \cup {Malformed}
         /\ tok.type = "UPLOAD_BEGIN" => tok.arg \in Sizes \cup {Malformed}
  BY SessionAssumption DEF PeerTokens, Token, FrameTypes, Malformed

\* A frame alone is a sequence of replies.
LEMMA OneMessage == ASSUME NEW m \in Replies
                    PROVE  <<m>> \in Seq(Replies) /\ <<m>> # << >>
  OBVIOUS

\* Every frame and every sequence of frames a handler sends is well formed.
LEMMA MessageType ==
  /\ Result \in Seq(Replies) /\ Result # << >>
  /\ \A c \in ErrorCodes : <<Error(c)>> \in Seq(Replies) /\ <<Error(c)>> # << >>
  /\ \A t \in {"HELLO_ACK", "UPLOAD_BEGIN_ACK", "UPLOAD_ACK"} :
       <<Frame(t)>> \in Seq(Replies) /\ <<Frame(t)>> # << >>
<1>1. \A c \in ErrorCodes : Error(c) \in Replies
  BY DEF Replies
<1>2. \A t \in {"HELLO_ACK", "UPLOAD_BEGIN_ACK", "UPLOAD_ACK", "ANALYZE_DONE",
                "RESULT_BEGIN", "RESULT_CHUNK", "RESULT_END"} :
        Frame(t) \in Replies
  BY DEF Replies
<1>3. Result \in Seq(Replies) /\ Result # << >>
  BY <1>2 DEF Result
<1>4. QED
  BY <1>1, <1>2, <1>3, OneMessage

\* Queueing keeps the queue well formed and leaves something in it.
LEMMA EnqueueType ==
  ASSUME QueueType, NEW msgs \in Seq(Replies), Enqueue(msgs)
  PROVE  QueueType' /\ (msgs # << >> => writes' # << >>)
<1>1. writes' = writes \o msgs /\ flushed' = flushed
  BY DEF Enqueue
<1>2. /\ writes' \in Seq(Replies) /\ Len(writes') = Len(writes) + Len(msgs)
  BY <1>1, ConcatProperties DEF QueueType
<1>3. Len(msgs) \in Nat /\ (msgs # << >> => Len(msgs) # 0) /\ Len(writes) \in Nat
  BY EmptySeq, LenProperties DEF QueueType
<1>4. answer' \in {"none", "result", "error"}
  BY DEF Enqueue, QueueType
<1>5. Len(<< >>) = 0
  BY EmptySeq
<1>6. QED
  BY <1>1, <1>2, <1>3, <1>4, <1>5 DEF QueueType

-----------------------------------------------------------------------------
(* Closing.                                                                *)

\* What every path through close() leaves: nothing is read or watched, no
\* handle is open, those still closing are counted, and the object lives on
\* until the last of them is closed.
Closes ==
  /\ reading' = FALSE /\ armed' = "off" /\ owner' = "map"
  /\ tcp' = IF tcp = "open" THEN "closing" ELSE tcp
  /\ timer' = IF timer = "open" THEN "closing" ELSE timer
  /\ pendingClose' = (IF tcp' = "closing" THEN 1 ELSE 0)
                        + (IF timer' = "closing" THEN 1 ELSE 0)

\* close(), on a session that still has a handle.
LEMMA CloseHandlesCloses == ASSUME Inv, owner = "map", CloseHandles
                            PROVE  Closes
  BY DEF Inv, TypeOK, LifeType, OpenTogether, DestroyedAtLastClose,
         CloseHandles, Closes, Handle

\* close() again.
LEMMA CloseCloses == ASSUME Inv, owner = "map", Close
                     PROVE  Closes /\ state' = "Closing"
<1>1. CASE state = "Closing"
  BY <1>1 DEF Inv, TypeOK, LifeType, OpenTogether, DestroyedAtLastClose,
              Close, Closes, Handle, lifeVars
<1>2. CASE state # "Closing"
  BY <1>2, CloseHandlesCloses DEF Close
<1>3. QED
  BY <1>1, <1>2

\* The queue after a send() that failed: on a stream that is closing already
\* nothing is added.
QueueKept ==
  /\ QueueType' /\ ioFailures' \in 0 .. MaxIoFailures
  /\ tcp # "open" => writes' = writes

\* A failed send() closes the session.
LEMMA SendFailsCloses ==
  ASSUME Inv, owner = "map", NEW msgs \in Seq(Replies), NEW st,
         SendFails(msgs, st)
  PROVE  QueueKept /\ Closes /\ state' = st
<1>1. Closes /\ state' = st
  BY CloseHandlesCloses DEF SendFails
<1>2. QueueType /\ ioFailures \in 0 .. MaxIoFailures
  BY DEF Inv, TypeOK, WorldType
<1>3. CASE tcp # "open"
  BY <1>1, <1>2, <1>3 DEF SendFails, writeVars, QueueType, QueueKept
<1>4. CASE tcp = "open"
  <2>1. PICK n \in 0 .. Len(msgs) - 1 : Enqueue(TakeFirst(n, msgs))
    BY <1>4 DEF SendFails
  <2>2. TakeFirst(n, msgs) \in Seq(Replies)
    <3>1. \A i \in 1 .. n : msgs[i] \in Replies
      BY ElementOfSeq, LenProperties
    <3>2. QED
      BY <3>1, SubSeqProperties, LenProperties DEF TakeFirst
  <2>3. QueueType'
    BY <1>2, <2>1, <2>2, EnqueueType
  <2>4. ioFailures' \in 0 .. MaxIoFailures
    BY <1>2, <1>4, SessionAssumption DEF SendFails
  <2>5. QED
    BY <1>1, <1>4, <2>3, <2>4 DEF QueueKept
<1>5. QED
  BY <1>3, <1>4

\* The two outcomes of sending: the session goes on with something queued, or
\* it is closed.
Sent(st, failSt) ==
  \/ /\ QueueType' /\ ioFailures' \in 0 .. MaxIoFailures
     /\ tcp = "open" /\ state' = st /\ writes' # << >>
     /\ UNCHANGED lifeVars
  \/ QueueKept /\ Closes /\ state' = failSt

LEMMA SendCases ==
  ASSUME Inv, owner = "map", NEW msgs \in Seq(Replies), msgs # << >>,
         NEW st, NEW failSt, Send(msgs, st, failSt)
  PROVE  Sent(st, failSt)
<1>1. CASE SendFails(msgs, failSt)
  BY <1>1, SendFailsCloses DEF Sent
<1>2. CASE ~ SendFails(msgs, failSt)
  <2>1. QueueType /\ ioFailures \in 0 .. MaxIoFailures
    BY DEF Inv, TypeOK, WorldType
  <2>2. QED
    BY <1>2, <2>1, EnqueueType DEF Send, Sent
<1>3. QED
  BY <1>1, <1>2

-----------------------------------------------------------------------------
(* The invariant holds initially.                                          *)

LEMMA InitInv == Init => Inv
<1> SUFFICES ASSUME Init PROVE Inv
  OBVIOUS
<1>1. TypeOK
  <2>1. QueueType
    <3>1. writes = << >> \/ writes = <<Error("ServerBusy")>>
      BY DEF Init, Started, Rejected, AcceptFailed
    <3>2. writes \in Seq(Replies)
      BY <3>1, MessageType, EmptySeq DEF ErrorCodes
    <3>3. Len(writes) \in Nat /\ flushed = 0
      BY <3>2, LenProperties DEF Init
    <3>4. answer = "none"
      BY DEF Init, Started, Rejected, AcceptFailed
    <3>5. QED
      BY <3>2, <3>3, <3>4 DEF QueueType
  <2>2. CallType
    <3>1. DecoderType
      BY DEF Init, NoFrame, FrameTypes, DecoderType
    <3>2. inRead \in BOOLEAN
      BY DEF Init
    <3>3. readBuf \in Seq(PeerTokens)
      BY EmptySeq DEF Init
    <3>4. QED
      BY <3>1, <3>2, <3>3 DEF CallType
  <2>3. ObjectType /\ UploadType /\ WorldType
    <3>1. ObjectType
      <4>1. closeAfterFlush \in BOOLEAN
        BY DEF Init, Started, Rejected, AcceptFailed
      <4>2. stallTicks \in 0 .. StallTicks
        BY SessionAssumption DEF Init
      <4>3. QED
        BY <4>1, <4>2
        DEF Init, Started, Rejected, AcceptFailed, ObjectType
    <3>2. UploadType /\ WorldType
      BY SessionAssumption DEF Init, UploadType, WorldType
    <3>3. QED
      BY <3>1, <3>2
  <2>4. LifeType
    <3>1. reading \in BOOLEAN
      BY DEF Init, Started, Rejected, AcceptFailed
    <3>2. pendingClose \in 0 .. 2
      BY DEF Init, Started, Rejected, AcceptFailed
    <3>3. QED
      BY <3>1, <3>2
      DEF Init, Started, Rejected, AcceptFailed, LifeType, Handle
  <2>5. QED
    BY <2>1, <2>2, <2>3, <2>4 DEF TypeOK
<1>2. OpenTogether
  BY DEF Init, Started, Rejected, AcceptFailed, OpenTogether
<1>3. Settled
  BY SessionAssumption DEF Init, Started, Rejected, AcceptFailed, NoFrame,
                           Settled, DecoderFits
<1>4. DestroyedAtLastClose /\ TimerFitsState /\ StallCountsSilence /\ CountIsFed
  BY DEF Init, Started, Rejected, AcceptFailed, DestroyedAtLastClose,
         TimerFitsState, StallCountsSilence, CountIsFed
<1>5. FlushIsPending
  BY MessageType DEF Init, Started, Rejected, AcceptFailed, FlushIsPending,
                     ErrorCodes
<1>6. QED
  BY <1>1, <1>2, <1>3, <1>4, <1>5 DEF Inv

-----------------------------------------------------------------------------
(* A running read callback.                                                *)

\* A callback runs on a session that exists and reads through open handles,
\* or has just closed them.
LEMMA CallbackFacts ==
  ASSUME Inv, inRead
  PROVE  /\ owner = "map"
         /\ tcp \in {"open", "closing"}
         /\ timer = tcp
         /\ pendingClose = IF tcp = "open" THEN 0 ELSE 2
         /\ reading <=> tcp = "open"
<1>1. tcp \in {"open", "closing"} /\ timer \in {"open", "closing"}
  BY DEF Inv, TypeOK, LifeType, DestroyedAtLastClose, Handle
<1>2. owner = "map" /\ timer = tcp
  BY <1>1 DEF Inv, TypeOK, LifeType, OpenTogether, DestroyedAtLastClose
<1>3. pendingClose = IF tcp = "open" THEN 0 ELSE 2
  BY <1>1, <1>2 DEF Inv, DestroyedAtLastClose
<1>4. reading <=> tcp = "open"
  BY DEF Inv, OpenTogether
<1>5. QED
  BY <1>1, <1>2, <1>3, <1>4

\* The part of the invariant that a step of a callback can disturb only by
\* sending or closing.
Linked ==
  /\ state \in {"AwaitHello", "Ready", "Uploading", "Closing"}
  /\ QueueType /\ LifeType /\ WorldType
  /\ OpenTogether
  /\ DestroyedAtLastClose /\ TimerFitsState /\ FlushIsPending
  /\ StallCountsSilence
  /\ tcp = "open" => stallTicks < StallTicks

LEMMA QuietLinked ==
  ASSUME Inv, InCallback, Quietly, UNCHANGED closeAfterFlush
  PROVE  Linked'
<1> USE DEF InCallback, Quietly
<1>1. QueueType' /\ LifeType' /\ WorldType'
  BY DEF Inv, TypeOK, QueueType, LifeType, WorldType, writeVars, lifeVars
<1>2. OpenTogether' /\ state' \in {"AwaitHello", "Ready", "Uploading", "Closing"}
  BY DEF Inv, TypeOK, ObjectType, OpenTogether, lifeVars
<1>3. DestroyedAtLastClose' /\ TimerFitsState'
  BY DEF Inv, DestroyedAtLastClose, TimerFitsState, lifeVars, writeVars
<1>4. FlushIsPending' /\ StallCountsSilence'
  BY DEF Inv, FlushIsPending, StallCountsSilence, lifeVars, writeVars
<1>5. tcp' = "open" => stallTicks' < StallTicks
  BY DEF Inv, Settled, lifeVars
<1>6. QED
  BY <1>1, <1>2, <1>3, <1>4, <1>5 DEF Linked

LEMMA SentLinked ==
  ASSUME Inv, InCallback, NEW st \in {"AwaitHello", "Ready", "Uploading"},
         NEW failSt \in {"Closing", "Ready"}, Sent(st, failSt)
  PROVE  Linked'
<1>1. inRead /\ inRead' = TRUE /\ peer' = peer /\ silent' = silent
  BY DEF InCallback, Inv, TypeOK, CallType
<1>2. TimerFitsState' /\ StallCountsSilence'
  BY <1>1 DEF TimerFitsState, StallCountsSilence
<1>3. QueueType' /\ WorldType'
  BY <1>1 DEF Inv, TypeOK, WorldType, Sent, QueueKept
<1>4. CASE tcp = "open" /\ state' = st /\ writes' # << >> /\ UNCHANGED lifeVars
  <2>1. LifeType'
    BY <1>4 DEF Inv, TypeOK, LifeType, lifeVars
  <2>2. OpenTogether'
    BY <1>1, <1>4, CallbackFacts DEF Inv, OpenTogether, lifeVars
  <2>3. DestroyedAtLastClose'
    BY <1>1, <1>4, CallbackFacts DEF DestroyedAtLastClose, lifeVars
  <2>4. FlushIsPending'
    BY <1>4 DEF FlushIsPending
  <2>5. tcp' = "open" => stallTicks' < StallTicks
    BY <1>4 DEF InCallback, Inv, Settled, lifeVars
  <2>6. QED
    BY <1>2, <1>3, <1>4, <2>1, <2>2, <2>3, <2>4, <2>5 DEF Linked
<1>5. CASE Closes /\ state' = failSt
  <2>1. /\ tcp' = "closing" /\ timer' = "closing" /\ pendingClose' = 2
        /\ reading' = FALSE /\ armed' = "off" /\ owner' = "map"
    BY <1>1, <1>5, CallbackFacts DEF Closes
  <2>2. LifeType'
    <3>1. pendingClose' \in 0 .. 2
      BY <2>1
    <3>2. reading' \in BOOLEAN
      BY <2>1
    <3>3. QED
      BY <2>1, <3>1, <3>2 DEF LifeType, Handle
  <2>3. OpenTogether'
    BY <1>5, <2>1 DEF OpenTogether
  <2>4. DestroyedAtLastClose'
    BY <2>1 DEF DestroyedAtLastClose
  <2>5. FlushIsPending'
    BY <2>1 DEF FlushIsPending
  <2>6. QED
    BY <1>2, <1>3, <1>5, <2>1, <2>2, <2>3, <2>4, <2>5 DEF Linked
<1>6. QED
  BY <1>4, <1>5 DEF Sent

\* The rest of the invariant is about what the callback itself handles.
LEMMA CallbackStep ==
  ASSUME Inv, InCallback, Linked',
         closeAfterFlush' \in BOOLEAN, UploadType', CountIsFed',
         DecoderType', DecoderFits',
         readBuf' \in Seq(PeerTokens)
  PROVE  Inv'
<1>1. stallTicks' = stallTicks /\ inRead' = TRUE /\ silent' = silent /\ inRead
  BY DEF InCallback, Inv, TypeOK, CallType
<1>2. tcp' = "open" => stallTicks' < StallTicks
  BY DEF Linked
<1>3. TypeOK'
  BY <1>1 DEF Inv, TypeOK, ObjectType, CallType, Linked
<1>4. Settled'
  BY <1>1, <1>2 DEF Inv, Settled
<1>5. QED
  BY <1>3, <1>4 DEF Inv, Linked

-----------------------------------------------------------------------------
(* The steps of a callback, one lemma each.                                *)

\* The buffer a step leaves is a sequence of tokens.
LEMMA BufferTail == ASSUME Inv, readBuf # << >>
                    PROVE  /\ Tail(readBuf) \in Seq(PeerTokens)
                           /\ Head(readBuf) \in PeerTokens
  BY HeadTailProperties DEF Inv, TypeOK, CallType

LEMMA BufferRest == ASSUME Inv, NEW k \in Nat
                    PROVE  DropFirst(k, readBuf) \in Seq(PeerTokens)
<1>1. readBuf \in Seq(PeerTokens) /\ Len(readBuf) \in Nat
  BY LenProperties DEF Inv, TypeOK, CallType
<1>2. \A i \in k + 1 .. Len(readBuf) : readBuf[i] \in PeerTokens
  BY <1>1, ElementOfSeq
<1>3. QED
  BY <1>1, <1>2, SubSeqProperties DEF DropFirst

LEMMA BufferDropped == DropRest => readBuf' \in Seq(PeerTokens)
  BY EmptySeq DEF DropRest

\* One frame is sent and the session goes on.
LEMMA SendOne ==
  ASSUME Inv, InCallback, NEW m \in Replies,
         NEW st \in {"AwaitHello", "Ready", "Uploading"}, Send(<<m>>, st, "Closing")
  PROVE  Linked' /\ state' \in {st, "Closing"}
<1>1. owner = "map"
  BY CallbackFacts DEF InCallback
<1>2. Sent(st, "Closing")
  BY <1>1, OneMessage, SendCases
<1>3. QED
  BY <1>2, SentLinked DEF Sent

LEMMA ErrorIsReply == \A c \in ErrorCodes : Error(c) \in Replies
  BY DEF Replies

LEMMA FrameIsReply ==
  \A t \in {"HELLO_ACK", "UPLOAD_BEGIN_ACK", "UPLOAD_ACK"} : Frame(t) \in Replies
  BY DEF Replies

LEMMA FeedHeaderInv == Inv /\ FeedHeader => Inv'
<1> SUFFICES ASSUME Inv, FeedHeader PROVE Inv'
  OBVIOUS
<1>1. InCallback /\ Linked'
  BY QuietLinked DEF FeedHeader
<1>2. readBuf' \in Seq(PeerTokens) /\ Head(readBuf) \in PeerTokens
  BY BufferTail DEF FeedHeader
<1>3. /\ Head(readBuf).type \in FrameTypes
      /\ Head(readBuf).arg \in Nat \cup {Malformed}
      /\ Head(readBuf).type = "UPLOAD_BEGIN" =>
           Head(readBuf).arg \in Sizes \cup {Malformed}
  BY <1>2, TokenType DEF FeedHeader
<1>4. DecoderType' /\ DecoderFits'
  <2>1. StreamPayload(Head(readBuf).arg) \in BOOLEAN
    BY DEF StreamPayload
  <2>2. DecoderType'
    BY <1>3, <2>1 DEF FeedHeader, DecoderType, Malformed
  <2>3. DecoderFits'
    BY <1>3 DEF FeedHeader, DecoderFits
  <2>4. QED
    BY <2>2, <2>3
<1>5. UploadType' /\ CountIsFed' /\ closeAfterFlush' \in BOOLEAN
  BY DEF FeedHeader, Quietly, uploadVars, Inv, TypeOK, UploadType, ObjectType,
         CountIsFed
<1>6. QED
  BY <1>1, <1>2, <1>4, <1>5, CallbackStep

\* ERROR, then closing when flushed: the session stays where it was.
LEMMA ViolationLinked ==
  ASSUME Inv, InCallback, state # "Closing", NEW code \in ErrorCodes,
         Violation(code)
  PROVE  /\ Linked'
         /\ closeAfterFlush' \in BOOLEAN /\ UploadType' /\ CountIsFed'
         /\ readBuf' \in Seq(PeerTokens)
<1>1. state \in {"AwaitHello", "Ready", "Uploading"}
  BY DEF Inv, TypeOK, ObjectType
<1>2. Linked' /\ state' \in {state, "Closing"}
  BY <1>1, SendOne, ErrorIsReply DEF Violation
<1>3. UploadType' /\ CountIsFed'
  BY <1>2 DEF Violation, uploadVars, Inv, TypeOK, UploadType, CountIsFed
<1>4. closeAfterFlush' \in BOOLEAN /\ readBuf' \in Seq(PeerTokens)
  BY BufferDropped DEF Violation
<1>5. QED
  BY <1>2, <1>3, <1>4

\* An aborted upload is over, or the session is.
LEMMA AbortLinked ==
  ASSUME Inv, InCallback, NEW code \in ErrorCodes, Abort(code)
  PROVE  Linked' /\ closeAfterFlush' \in BOOLEAN /\ state' # "Uploading"
<1>1. Linked' /\ state' \in {"Ready", "Closing"}
  BY SendOne, ErrorIsReply DEF Abort
<1>2. QED
  BY <1>1 DEF Abort

LEMMA FeedRefusedInv == Inv /\ FeedRefused => Inv'
<1> SUFFICES ASSUME Inv, FeedRefused PROVE Inv'
  OBVIOUS
<1>1. /\ Linked' /\ InCallback
      /\ closeAfterFlush' \in BOOLEAN /\ UploadType' /\ CountIsFed'
      /\ readBuf' \in Seq(PeerTokens)
  BY ViolationLinked DEF FeedRefused, ErrorCodes
<1>2. DecoderType' /\ DecoderFits'
  BY DEF FeedRefused, Inv, TypeOK, CallType, Settled, DecoderType, DecoderFits
<1>3. QED
  BY <1>1, <1>2, CallbackStep

\* A piece of a chunk is counted once, by both counters, and acknowledged no
\* further than it was received.
LEMMA PayloadChunkLinked ==
  ASSUME Inv, InCallback, NEW k \in Nat, PayloadChunk(k)
  PROVE  /\ Linked'
         /\ closeAfterFlush' \in BOOLEAN /\ UploadType' /\ CountIsFed'
<1>1. UploadType /\ closeAfterFlush \in BOOLEAN /\ CountIsFed
  BY DEF Inv, TypeOK, ObjectType
<1>2. CASE state # "Uploading"
  <2>1. Quietly /\ UNCHANGED <<closeAfterFlush, uploadVars>>
    BY <1>2 DEF PayloadChunk
  <2>2. Linked'
    BY <2>1, QuietLinked
  <2>3. UploadType' /\ CountIsFed' /\ closeAfterFlush' \in BOOLEAN
    BY <1>1, <2>1 DEF Quietly, uploadVars, UploadType, CountIsFed
  <2>4. QED
    BY <2>2, <2>3
<1>3. CASE state = "Uploading" /\ received + k > declared
  <2>1. /\ received' = received + k /\ Abort("SizeMismatch")
        /\ UNCHANGED <<declared, lastAck, fed>>
    BY <1>3 DEF PayloadChunk
  <2>2. Linked' /\ closeAfterFlush' \in BOOLEAN /\ state' # "Uploading"
    BY <2>1, AbortLinked DEF ErrorCodes
  <2>3. UploadType'
    BY <1>1, <2>1 DEF UploadType
  <2>4. QED
    BY <2>2, <2>3 DEF CountIsFed
<1>4. CASE state = "Uploading" /\ ~(received + k > declared)
  <2>1. /\ received' = received + k /\ fed' = fed + k
        /\ UNCHANGED <<declared, closeAfterFlush>>
        /\ lastAck' \in {received + k, lastAck}
        /\ Send(<<Frame("UPLOAD_ACK")>>, state, "Closing") \/ Quietly
    BY <1>4 DEF PayloadChunk
  <2>2. Linked'
    BY <1>4, <2>1, QuietLinked, SendOne, FrameIsReply
  <2>3. UploadType' /\ closeAfterFlush' \in BOOLEAN
    BY <1>1, <2>1 DEF UploadType
  <2>4. CountIsFed'
    BY <1>1, <1>4, <2>1 DEF CountIsFed, UploadType
  <2>5. QED
    BY <2>2, <2>3, <2>4
<1>5. QED
  BY <1>2, <1>3, <1>4

LEMMA FeedPayloadInv == Inv /\ FeedPayload => Inv'
<1> SUFFICES ASSUME Inv, FeedPayload PROVE Inv'
  OBVIOUS
<1> DEFINE k == IF decoder.left < Len(readBuf) THEN decoder.left
                                               ELSE Len(readBuf)
<1>1. InCallback
  BY DEF FeedPayload
<1>2. /\ DecoderType /\ DecoderFits
      /\ decoder.left \in Nat /\ Len(readBuf) \in Nat
      /\ UploadType /\ closeAfterFlush \in BOOLEAN /\ CountIsFed
  BY LenProperties DEF Inv, TypeOK, ObjectType, CallType, Settled, DecoderType
<1>3. k \in Nat /\ k <= decoder.left
  BY <1>2
<1>4. /\ readBuf' = DropFirst(k, readBuf)
      /\ decoder' = [decoder EXCEPT
                       !.left = @ - k,
                       !.phase = IF k = decoder.left THEN "Complete" ELSE @]
      /\ IF decoder.streamed
         THEN PayloadChunk(k)
         ELSE Quietly /\ UNCHANGED <<closeAfterFlush, uploadVars>>
  BY DEF FeedPayload
<1>5. readBuf' \in Seq(PeerTokens)
  BY <1>3, <1>4, BufferRest
<1> HIDE DEF k
<1>6. DecoderType' /\ DecoderFits'
  <2>1. decoder.left - k \in Nat /\ (k # decoder.left => decoder.left - k > 0)
    BY <1>2, <1>3
  <2>2. DecoderType' /\ decoder'.left = decoder.left - k
    BY <1>2, <1>4, <2>1 DEF DecoderType
  <2>3. decoder'.phase = "Payload" => k # decoder.left
    BY <1>2, <1>4 DEF DecoderType
  <2>4. decoder'.type = decoder.type /\ decoder'.arg = decoder.arg
    BY <1>2, <1>4 DEF DecoderType
  <2>5. QED
    BY <1>2, <2>1, <2>2, <2>3, <2>4 DEF DecoderFits
<1>7. CASE decoder.streamed
  BY <1>1, <1>3, <1>4, <1>5, <1>6, <1>7, PayloadChunkLinked, CallbackStep
<1>8. CASE ~ decoder.streamed
  <2>1. Quietly /\ UNCHANGED <<closeAfterFlush, uploadVars>>
    BY <1>4, <1>8
  <2>2. UploadType' /\ CountIsFed' /\ closeAfterFlush' \in BOOLEAN
    BY <1>2, <2>1 DEF Quietly, uploadVars, UploadType, CountIsFed
  <2>3. QED
    BY <1>1, <1>5, <1>6, <2>1, <2>2, QuietLinked, CallbackStep
<1>9. QED
  BY <1>7, <1>8

\* After dispatch the decoder is at the start of the next header.
LEMMA DecoderReset == ASSUME NEW st, Dispatching(st)
                      PROVE  /\ InCallback
                             /\ DecoderType' /\ DecoderFits'
  BY DEF Dispatching, DecoderType, DecoderFits, NoFrame, FrameTypes

\* A dispatch that leaves the upload's counters alone keeps the invariant as
\* soon as its sending does.
LEMMA DispatchStep ==
  ASSUME Inv, InCallback, DecoderType', DecoderFits', Linked',
         closeAfterFlush' \in BOOLEAN, UNCHANGED uploadVars,
         state' = "Uploading" => state = "Uploading",
         DropRest \/ UNCHANGED readBuf
  PROVE  Inv'
<1>1. UploadType' /\ CountIsFed'
  BY DEF Inv, TypeOK, UploadType, CountIsFed, uploadVars
<1>2. readBuf' \in Seq(PeerTokens)
  BY BufferDropped DEF Inv, TypeOK, CallType
<1>3. QED
  BY <1>1, <1>2, CallbackStep

LEMMA DispatchAwaitHelloInv == Inv /\ DispatchAwaitHello => Inv'
<1> SUFFICES ASSUME Inv, DispatchAwaitHello PROVE Inv'
  OBVIOUS
<1>1. /\ InCallback /\ state = "AwaitHello"
      /\ DecoderType' /\ DecoderFits'
  BY DecoderReset DEF DispatchAwaitHello, Dispatching
<1>2. CASE Violation("UnexpectedType")
  BY <1>1, <1>2, ViolationLinked, CallbackStep DEF ErrorCodes
<1>3. CASE /\ Send(<<Frame("HELLO_ACK")>>, "Ready", "Closing")
           /\ UNCHANGED <<closeAfterFlush, uploadVars, readBuf>>
  <2>1. Linked' /\ state' \in {"Ready", "Closing"}
    BY <1>1, <1>3, SendOne, FrameIsReply
  <2>2. closeAfterFlush' \in BOOLEAN
    BY <1>3 DEF Inv, TypeOK, ObjectType
  <2>3. QED
    BY <1>1, <1>3, <2>1, <2>2, DispatchStep
<1>4. QED
  BY <1>2, <1>3 DEF DispatchAwaitHello

\* Closing from a callback.
LEMMA CloseLinked ==
  ASSUME Inv, InCallback, Close, UNCHANGED <<writeVars, ioFailures>>
  PROVE  Linked' /\ state' = "Closing"
<1>1. Closes /\ state' = "Closing"
  BY CallbackFacts, CloseCloses DEF InCallback
<1>2. QueueKept
  BY DEF Inv, TypeOK, QueueType, WorldType, QueueKept, writeVars
<1>3. Sent("Ready", "Closing")
  BY <1>1, <1>2 DEF Sent
<1>4. QED
  BY <1>1, <1>3, SentLinked

LEMMA ReadyByeInv == Inv /\ ReadyBye => Inv'
<1> SUFFICES ASSUME Inv, ReadyBye PROVE Inv'
  OBVIOUS
<1>1. InCallback /\ DecoderType' /\ DecoderFits'
  BY DecoderReset DEF ReadyBye
<1>2. Linked' /\ state' = "Closing"
  BY <1>1, CloseLinked DEF ReadyBye
<1>3. closeAfterFlush' \in BOOLEAN
  BY DEF ReadyBye, Inv, TypeOK, ObjectType
<1>4. QED
  BY <1>1, <1>2, <1>3, DispatchStep DEF ReadyBye

LEMMA UploadBeginInv == Inv /\ UploadBegin => Inv'
<1> SUFFICES ASSUME Inv, UploadBegin PROVE Inv'
  OBVIOUS
<1>1. /\ InCallback /\ state = "Ready"
      /\ DecoderType' /\ DecoderFits'
  BY DecoderReset DEF UploadBegin, Dispatching
<1>2. CASE Violation("UnexpectedType")
  BY <1>1, <1>2, ViolationLinked, CallbackStep DEF ErrorCodes
<1>3. CASE /\ Send(<<Error("SizeMismatch")>>, state, "Closing")
           /\ UNCHANGED <<closeAfterFlush, uploadVars, readBuf>>
  <2>1. Linked' /\ state' \in {"Ready", "Closing"}
    BY <1>1, <1>3, SendOne, ErrorIsReply DEF ErrorCodes
  <2>2. closeAfterFlush' \in BOOLEAN
    BY <1>3 DEF Inv, TypeOK, ObjectType
  <2>3. QED
    BY <1>1, <1>3, <2>1, <2>2, DispatchStep
<1>4. CASE /\ decoder.arg \notin {Malformed, 0}
           /\ declared' = decoder.arg
           /\ ResetCounts
           /\ Send(<<Frame("UPLOAD_BEGIN_ACK")>>, "Uploading", "Closing")
           /\ UNCHANGED <<closeAfterFlush, readBuf>>
  <2>1. Linked'
    BY <1>1, <1>4, SendOne, FrameIsReply
  <2>2. closeAfterFlush' \in BOOLEAN /\ readBuf' \in Seq(PeerTokens)
    BY <1>4 DEF Inv, TypeOK, ObjectType, CallType
  <2>3. declared' \in Nat
    BY <1>4, SessionAssumption DEF Inv, Settled, DecoderFits, UploadBegin
  <2>4. UploadType' /\ CountIsFed'
    BY <1>4, <2>3 DEF ResetCounts, UploadType, CountIsFed
  <2>5. QED
    BY <1>1, <2>1, <2>2, <2>4, CallbackStep
<1>5. QED
  BY <1>2, <1>3, <1>4 DEF UploadBegin

LEMMA ReadyOtherInv == Inv /\ ReadyOther => Inv'
<1> SUFFICES ASSUME Inv, ReadyOther PROVE Inv'
  OBVIOUS
<1>1. /\ InCallback /\ state = "Ready" /\ DecoderType' /\ DecoderFits'
      /\ UNCHANGED <<closeAfterFlush, uploadVars, readBuf>>
      /\ closeAfterFlush' \in BOOLEAN
  BY DecoderReset DEF ReadyOther, Dispatching, Inv, TypeOK, ObjectType
<1>2. Linked' /\ state' # "Uploading"
  <2>1. CASE Quietly
    BY <1>1, <2>1, QuietLinked DEF Quietly
  <2>2. CASE Send(<<Error("UnexpectedType")>>, state, "Closing")
    BY <1>1, <2>2, SendOne, ErrorIsReply DEF ErrorCodes
  <2>3. QED
    BY <2>1, <2>2 DEF ReadyOther
<1>3. QED
  BY <1>1, <1>2, DispatchStep

\* A frame that aborts the upload and whatever followed it.
LEMMA AbortStep ==
  ASSUME Inv, InCallback, DecoderType', DecoderFits',
         NEW code \in ErrorCodes, Abort(code), DropRest, UNCHANGED uploadVars
  PROVE  Inv'
  BY AbortLinked, DispatchStep

LEMMA UploadChunkInv == Inv /\ UploadChunk => Inv'
<1> SUFFICES ASSUME Inv, UploadChunk PROVE Inv'
  OBVIOUS
<1>1. /\ InCallback /\ state = "Uploading" /\ DecoderType' /\ DecoderFits'
      /\ UNCHANGED uploadVars
  BY DecoderReset DEF UploadChunk, Dispatching
<1>2. CASE Quietly /\ UNCHANGED <<closeAfterFlush, readBuf>>
  <2>1. Linked' /\ closeAfterFlush' \in BOOLEAN
    BY <1>1, <1>2, QuietLinked DEF Inv, TypeOK, ObjectType
  <2>2. QED
    BY <1>1, <1>2, <2>1, DispatchStep
<1>3. CASE Abort("PayloadTooLarge") /\ DropRest
  BY <1>1, <1>3, AbortStep DEF ErrorCodes
<1>4. QED
  BY <1>2, <1>3 DEF UploadChunk

LEMMA UploadEndInv == Inv /\ UploadEnd => Inv'
<1> SUFFICES ASSUME Inv, UploadEnd PROVE Inv'
  OBVIOUS
<1>1. /\ InCallback /\ state = "Uploading" /\ DecoderType' /\ DecoderFits'
      /\ UNCHANGED uploadVars
  BY DecoderReset DEF UploadEnd, Dispatching
<1>2. CASE DropRest /\ (Abort("UnexpectedType") \/ Abort("SizeMismatch"))
  BY <1>1, <1>2, AbortStep DEF ErrorCodes
<1>3. CASE Send(Result, "Ready", "Ready") /\ UNCHANGED <<closeAfterFlush, readBuf>>
  <2>1. Sent("Ready", "Ready")
    BY <1>1, <1>3, CallbackFacts, SendCases, MessageType DEF InCallback
  <2>2. Linked' /\ state' = "Ready"
    BY <1>1, <2>1, SentLinked DEF Sent
  <2>3. closeAfterFlush' \in BOOLEAN
    BY <1>3 DEF Inv, TypeOK, ObjectType
  <2>4. QED
    BY <1>1, <1>3, <2>2, <2>3, DispatchStep
<1>4. QED
  BY <1>2, <1>3 DEF UploadEnd

LEMMA UploadCancelInv == Inv /\ UploadCancel => Inv'
<1> SUFFICES ASSUME Inv, UploadCancel PROVE Inv'
  OBVIOUS
<1>1. InCallback /\ DecoderType' /\ DecoderFits'
  BY DecoderReset DEF UploadCancel
<1>2. Linked' /\ state' # "Uploading"
  BY <1>1, SendOne, ErrorIsReply DEF UploadCancel, ErrorCodes
<1>3. UploadType' /\ CountIsFed'
  BY <1>2 DEF UploadCancel, ResetCounts, UploadType, CountIsFed
<1>4. closeAfterFlush' \in BOOLEAN /\ readBuf' \in Seq(PeerTokens)
  BY DEF UploadCancel, Inv, TypeOK, ObjectType, CallType
<1>5. QED
  BY <1>1, <1>2, <1>3, <1>4, CallbackStep

LEMMA UploadOtherInv == Inv /\ UploadOther => Inv'
<1> SUFFICES ASSUME Inv, UploadOther PROVE Inv'
  OBVIOUS
<1>1. InCallback /\ DecoderType' /\ DecoderFits'
  BY DecoderReset DEF UploadOther
<1>2. QED
  BY <1>1, AbortStep DEF UploadOther, ErrorCodes

LEMMA DispatchClosingInv == Inv /\ DispatchClosing => Inv'
<1> SUFFICES ASSUME Inv, DispatchClosing PROVE Inv'
  OBVIOUS
<1>1. /\ InCallback /\ state = "Closing" /\ DecoderType' /\ DecoderFits'
      /\ Quietly /\ DropRest
      /\ UNCHANGED <<closeAfterFlush, uploadVars>>
  BY DecoderReset DEF DispatchClosing, Dispatching
<1>2. Linked' /\ state' # "Uploading" /\ closeAfterFlush' \in BOOLEAN
  BY <1>1, QuietLinked DEF Quietly, Inv, TypeOK, ObjectType
<1>3. QED
  BY <1>1, <1>2, DispatchStep

LEMMA DispatchInv == Inv /\ Dispatch => Inv'
  BY DispatchAwaitHelloInv, ReadyByeInv, UploadBeginInv, ReadyOtherInv,
     UploadChunkInv, UploadEndInv, UploadCancelInv, UploadOtherInv,
     DispatchClosingInv
  DEF Dispatch

\* The callback returns: the timer that fits the state is started, and the
\* stall watch starts from no slice.
LEMMA EndReadInv == Inv /\ EndRead => Inv'
<1> SUFFICES ASSUME Inv, EndRead PROVE Inv'
  OBVIOUS
<1>1. /\ inRead /\ inRead' = FALSE /\ readBuf' = << >>
      /\ decoder.phase # "Complete"
      /\ TouchIdle
      /\ UNCHANGED <<state, closeAfterFlush, uploadVars, writeVars, owner, tcp,
                     timer, reading, pendingClose, decoder, worldVars, silent>>
  BY DEF EndRead
<1>2. /\ owner = "map" /\ tcp \in {"open", "closing"} /\ timer = tcp
      /\ reading <=> tcp = "open"
  BY <1>1, CallbackFacts
<1>3. silent' = 0
  BY <1>1 DEF Inv, Settled
<1>4. CASE state = "Closing"
  <2>1. stallTicks' = stallTicks /\ armed' = armed /\ tcp # "open"
    BY <1>1, <1>4 DEF TouchIdle, Inv, OpenTogether
  <2>2. TypeOK'
    <3>1. ObjectType' /\ UploadType' /\ QueueType'
      BY <1>1, <2>1 DEF Inv, TypeOK, ObjectType, UploadType, QueueType, uploadVars, writeVars
    <3>2. LifeType' /\ WorldType'
      BY <1>1, <2>1 DEF Inv, TypeOK, LifeType, WorldType, worldVars
    <3>3. CallType'
      BY <1>1, EmptySeq DEF Inv, TypeOK, CallType, DecoderType
    <3>4. QED
      BY <3>1, <3>2, <3>3 DEF TypeOK
  <2>3. OpenTogether'
    BY <1>1, <1>2, <1>4, <2>1 DEF Inv, OpenTogether
  <2>4. Settled'
    BY <1>1, <2>1 DEF Inv, Settled, DecoderFits
  <2>5. DestroyedAtLastClose' /\ FlushIsPending' /\ CountIsFed'
    BY <1>1, <1>2, <1>4
    DEF Inv, DestroyedAtLastClose, FlushIsPending, CountIsFed, uploadVars, writeVars,
        worldVars
  <2>6. TimerFitsState' /\ StallCountsSilence'
    BY <1>1, <1>2, <1>4, <2>1 DEF Inv, TimerFitsState, StallCountsSilence
  <2>7. QED
    BY <2>2, <2>3, <2>4, <2>5, <2>6 DEF Inv
<1>5. CASE state # "Closing"
  <2>1. /\ stallTicks' = 0
        /\ armed' = IF tcp # "open" THEN "off"
                    ELSE IF state = "Uploading" THEN "stall" ELSE "idle"
    <3>1. TouchIdle /\ timer = tcp
      BY <1>1, <1>2
    <3>2. QED
      BY <3>1, <1>5 DEF TouchIdle
  <2>2. TypeOK'
    <3>1. ObjectType'
      <4>1. closeAfterFlush' \in BOOLEAN
        BY <1>1 DEF Inv, TypeOK, ObjectType
      <4>2. stallTicks' \in 0 .. StallTicks
        BY <2>1, SessionAssumption
      <4>3. QED
        BY <1>1, <4>1, <4>2 DEF Inv, TypeOK, ObjectType
    <3>2. UploadType' /\ QueueType'
      BY <1>1 DEF Inv, TypeOK, UploadType, QueueType, uploadVars, writeVars
    <3>3. LifeType'
      BY <1>1, <2>1 DEF Inv, TypeOK, LifeType
    <3>4. CallType'
      <4>1. DecoderType' /\ inRead' \in BOOLEAN
        BY <1>1 DEF Inv, TypeOK, CallType, DecoderType
      <4>2. readBuf' \in Seq(PeerTokens)
        BY <1>1, EmptySeq
      <4>3. QED
        BY <4>1, <4>2 DEF CallType
    <3>5. WorldType'
      BY <1>1 DEF Inv, TypeOK, WorldType, worldVars
    <3>6. QED
      BY <3>1, <3>2, <3>3, <3>4, <3>5 DEF TypeOK
  <2>3. OpenTogether'
    BY <1>1, <1>2, <2>1 DEF Inv, OpenTogether
  <2>4. Settled'
    BY <1>1, <2>1, SessionAssumption DEF Inv, Settled, DecoderFits
  <2>5. DestroyedAtLastClose'
    BY <1>1, <1>2 DEF Inv, DestroyedAtLastClose, writeVars
  <2>6. TimerFitsState' /\ StallCountsSilence'
    BY <1>1, <1>2, <1>3, <2>1 DEF TimerFitsState, StallCountsSilence
  <2>7. FlushIsPending' /\ CountIsFed'
    BY <1>1 DEF Inv, FlushIsPending, CountIsFed, uploadVars, writeVars
  <2>8. QED
    BY <2>2, <2>3, <2>4, <2>5, <2>6, <2>7 DEF Inv
<1>6. QED
  BY <1>4, <1>5

-----------------------------------------------------------------------------
(* Events of the loop, outside a read callback.                            *)

\* An event that closes the session.
LEMMA ClosingEvent ==
  ASSUME Inv, owner = "map", inRead = FALSE, Closes, state' = "Closing",
         UNCHANGED <<uploadVars, callVars, peer>>,
         QueueType', ioFailures' \in 0 .. MaxIoFailures,
         tcp = "closed" => writes' = << >>,
         closeAfterFlush' \in BOOLEAN, stallTicks' \in 0 .. StallTicks,
         silent' \in Nat
  PROVE  Inv'
<1>1. /\ reading' = FALSE /\ armed' = "off" /\ owner' = "map"
      /\ tcp' \in {"closing", "closed"} /\ timer' \in {"closing", "closed"}
      /\ tcp' = "closed" <=> tcp = "closed"
      /\ timer' = "closed" <=> timer = "closed"
      /\ ~(tcp = "closed" /\ timer = "closed")
      /\ pendingClose' = (IF tcp' = "closing" THEN 1 ELSE 0)
                            + (IF timer' = "closing" THEN 1 ELSE 0)
  BY DEF Closes, Inv, TypeOK, LifeType, Handle, DestroyedAtLastClose
<1>2. inRead' = FALSE /\ UNCHANGED <<decoder, readBuf>>
  BY DEF callVars
<1>3. TypeOK'
  <2>1. LifeType'
    <3>1. pendingClose' \in 0 .. 2
      BY <1>1
    <3>2. reading' \in BOOLEAN
      BY <1>1
    <3>3. QED
      BY <1>1, <3>1, <3>2 DEF LifeType, Handle
  <2>2. ObjectType' /\ WorldType'
    BY DEF Inv, TypeOK, ObjectType, WorldType
  <2>3. UploadType' /\ CallType'
    BY DEF Inv, TypeOK, UploadType, CallType, DecoderType, uploadVars, callVars
  <2>4. QED
    BY <2>1, <2>2, <2>3 DEF TypeOK
<1>4. OpenTogether'
  BY <1>1 DEF OpenTogether
<1>5. Settled'
  BY <1>1, <1>2 DEF Inv, Settled, DecoderFits
<1>6. DestroyedAtLastClose'
  BY <1>1, <1>2 DEF DestroyedAtLastClose
<1>7. TimerFitsState' /\ FlushIsPending' /\ StallCountsSilence' /\ CountIsFed'
  BY <1>1 DEF TimerFitsState, FlushIsPending, StallCountsSilence, CountIsFed
<1>8. QED
  BY <1>3, <1>4, <1>5, <1>6, <1>7 DEF Inv

\* An event whose only doing is close().
LEMMA CloseEvent ==
  ASSUME Inv, owner = "map", inRead = FALSE, Close,
         UNCHANGED <<objectVars, uploadVars, callVars, peer, silent, ioFailures>>,
         QueueType', tcp = "closed" => writes' = << >>
  PROVE  Inv'
<1>1. Closes /\ state' = "Closing"
  BY CloseCloses
<1>2. /\ ioFailures' \in 0 .. MaxIoFailures /\ silent' \in Nat
      /\ closeAfterFlush' \in BOOLEAN /\ stallTicks' \in 0 .. StallTicks
  BY DEF Inv, TypeOK, ObjectType, WorldType, objectVars
<1>3. QED
  BY <1>1, <1>2, ClosingEvent

\* The queue when nothing is sent.
LEMMA QueueUnchanged == ASSUME Inv, UNCHANGED writeVars
                        PROVE  QueueType' /\ (tcp = "closed" => writes' = << >>)
  BY DEF Inv, TypeOK, QueueType, DestroyedAtLastClose, writeVars

\* The loop is not in a read callback.
LEMMA NotInRead == Inv /\ ~inRead => inRead = FALSE
  BY DEF Inv, TypeOK, CallType

LEMMA OnReadEndInv == Inv /\ OnReadEnd => Inv'
  BY CloseEvent, QueueUnchanged, NotInRead DEF OnReadEnd, worldVars

LEMMA ShutdownInv == Inv /\ Shutdown => Inv'
  BY CloseEvent, QueueUnchanged, NotInRead DEF Shutdown, worldVars

\* A slice of the stall watch without data: both counters advance.
LEMMA StallWarningInv == Inv /\ StallWarning => Inv'
<1> SUFFICES ASSUME Inv, StallWarning PROVE Inv'
  OBVIOUS
<1>1. /\ owner = "map" /\ inRead = FALSE /\ armed # "off" /\ tcp = "open"
      /\ state = "Uploading"
      /\ stallTicks' = stallTicks + 1 /\ stallTicks + 1 < StallTicks
      /\ silent' = silent + 1
      /\ armed' = IF armed = "idle" THEN "off" ELSE armed
      /\ UNCHANGED <<uploadVars, callVars, peer>>
      /\ UNCHANGED <<state, closeAfterFlush, writeVars, owner, tcp, timer,
                     reading, pendingClose, ioFailures>>
  BY NotInRead DEF StallWarning, TimerFires, Inv, OpenTogether
<1>2. armed = "stall"
  BY <1>1 DEF Inv, TimerFitsState, OpenTogether
<1>3. TypeOK'
  <2>1. ObjectType' /\ WorldType'
    <3>1. closeAfterFlush' \in BOOLEAN
      BY <1>1 DEF Inv, TypeOK, ObjectType
    <3>2. stallTicks' \in 0 .. StallTicks /\ silent' \in Nat
      BY <1>1, SessionAssumption DEF Inv, TypeOK, ObjectType, WorldType
    <3>3. QED
      BY <1>1, <3>1, <3>2 DEF Inv, TypeOK, ObjectType, WorldType
  <2>2. QueueType' /\ LifeType'
    BY <1>1 DEF Inv, TypeOK, QueueType, LifeType, writeVars
  <2>3. UploadType' /\ CallType'
    BY <1>1 DEF Inv, TypeOK, UploadType, CallType, DecoderType, uploadVars,
                callVars
  <2>4. QED
    BY <2>1, <2>2, <2>3 DEF TypeOK
<1>4. OpenTogether' /\ Settled'
  BY <1>1, <1>2 DEF Inv, OpenTogether, Settled, DecoderFits, callVars
<1>5. DestroyedAtLastClose' /\ TimerFitsState'
  BY <1>1, <1>2 DEF Inv, DestroyedAtLastClose, TimerFitsState, writeVars, callVars
<1>6. FlushIsPending' /\ CountIsFed' /\ StallCountsSilence'
  BY <1>1 DEF Inv, FlushIsPending, CountIsFed, StallCountsSilence, writeVars,
              uploadVars, callVars
<1>7. QED
  BY <1>3, <1>4, <1>5, <1>6 DEF Inv

LEMMA NetworkStallInv == Inv /\ NetworkStall => Inv'
<1> SUFFICES ASSUME Inv, NetworkStall PROVE Inv'
  OBVIOUS
<1>1. /\ owner = "map" /\ inRead = FALSE /\ armed # "off" /\ tcp = "open"
      /\ UNCHANGED <<uploadVars, callVars, peer>>
      /\ UNCHANGED closeAfterFlush
      /\ stallTicks' = stallTicks + 1 /\ silent' = silent + 1
      /\ state' = "Closing" /\ CloseHandles
  BY NotInRead DEF NetworkStall, TimerFires, Inv, OpenTogether
<1>2. Closes
  BY <1>1, CloseHandlesCloses
<1>3. stallTicks' \in 0 .. StallTicks /\ silent' \in Nat
  BY <1>1, SessionAssumption
  DEF Inv, TypeOK, ObjectType, WorldType, Settled
<1>4. closeAfterFlush' \in BOOLEAN
  BY <1>1 DEF Inv, TypeOK, ObjectType
<1>5. QueueType' /\ ioFailures' \in 0 .. MaxIoFailures
  <2>1. QueueType /\ ioFailures \in 0 .. MaxIoFailures
    BY DEF Inv, TypeOK, WorldType
  <2>2. CASE Enqueue(<<Error("IdleTimeout")>>) /\ UNCHANGED ioFailures
    BY <2>1, <2>2, EnqueueType, MessageType DEF ErrorCodes
  <2>3. CASE ioFailures > 0 /\ ioFailures' = ioFailures - 1 /\ UNCHANGED writeVars
    BY <2>1, <2>3, QueueUnchanged, SessionAssumption
  <2>4. QED
    BY <1>1, <2>2, <2>3 DEF NetworkStall
<1>6. QED
  BY <1>1, <1>2, <1>3, <1>4, <1>5, ClosingEvent

\* The ERROR that announces the close is what the close waits for.
LEMMA IdleTimeoutInv == Inv /\ IdleTimeout => Inv'
<1> SUFFICES ASSUME Inv, IdleTimeout PROVE Inv'
  OBVIOUS
<1>1. /\ owner = "map" /\ inRead = FALSE /\ armed # "off" /\ tcp = "open"
      /\ state # "Uploading"
      /\ UNCHANGED <<uploadVars, callVars, peer>>
      /\ closeAfterFlush' = TRUE
      /\ stallTicks' = stallTicks /\ silent' = silent + 1
  BY NotInRead DEF IdleTimeout, TimerFires, Inv, OpenTogether
<1>2. silent' \in Nat /\ stallTicks' \in 0 .. StallTicks
  BY <1>1 DEF Inv, TypeOK, ObjectType, WorldType
<1>3. closeAfterFlush' \in BOOLEAN
  BY <1>1
<1>4. <<Error("IdleTimeout")>> \in Seq(Replies) /\ <<Error("IdleTimeout")>> # << >>
  BY MessageType DEF ErrorCodes
<1>5. CASE SendFails(<<Error("IdleTimeout")>>, "Closing")
  <2>1. QueueKept /\ Closes /\ state' = "Closing"
    BY <1>1, <1>4, <1>5, SendFailsCloses
  <2>2. QED
    BY <1>1, <1>2, <1>3, <2>1, ClosingEvent DEF QueueKept
<1>6. CASE /\ Enqueue(<<Error("IdleTimeout")>>)
           /\ armed' = IF armed = "idle" THEN "off" ELSE armed
           /\ UNCHANGED <<state, owner, tcp, timer, reading, pendingClose,
                          ioFailures>>
  <2>1. QueueType' /\ writes' # << >>
    BY <1>4, <1>6, EnqueueType DEF Inv, TypeOK
  <2>2. TypeOK'
    <3>1. ObjectType' /\ WorldType'
      BY <1>1, <1>2, <1>3, <1>6 DEF Inv, TypeOK, ObjectType, WorldType
    <3>2. LifeType'
      BY <1>6 DEF Inv, TypeOK, LifeType
    <3>3. UploadType' /\ CallType'
      BY <1>1 DEF Inv, TypeOK, UploadType, CallType, DecoderType, uploadVars,
                  callVars
    <3>4. QED
      BY <2>1, <3>1, <3>2, <3>3 DEF TypeOK
  <2>3. OpenTogether' /\ Settled'
    BY <1>1, <1>6 DEF Inv, OpenTogether, Settled, DecoderFits, callVars
  <2>4. DestroyedAtLastClose'
    BY <1>1, <1>6 DEF Inv, DestroyedAtLastClose, callVars
  <2>5. /\ TimerFitsState' /\ FlushIsPending' /\ StallCountsSilence'
        /\ CountIsFed'
    BY <1>1, <1>6, <2>1
    DEF TimerFitsState, FlushIsPending, StallCountsSilence, CountIsFed
  <2>6. QED
    BY <2>2, <2>3, <2>4, <2>5 DEF Inv
<1>7. QED
  BY <1>5, <1>6 DEF IdleTimeout

LEMMA OnIdleTimeoutInv == Inv /\ OnIdleTimeout => Inv'
  BY StallWarningInv, NetworkStallInv, IdleTimeoutInv DEF OnIdleTimeout

\* An event that touches nothing but the queue, the peer or the buffer.
LEMMA FrameStep ==
  ASSUME Inv, UNCHANGED <<state, objectVars, uploadVars, lifeVars, decoder,
                          ioFailures>>,
         QueueType', CallType', WorldType', Settled',
         UNCHANGED <<inRead, silent>> \/ (inRead' = TRUE /\ reading),
         tcp = "closed" => writes' = << >>,
         closeAfterFlush /\ tcp = "open" => writes' # << >>
           \/ writes' = writes
  PROVE  Inv'
<1> USE DEF objectVars, lifeVars
<1>1. TypeOK'
  BY DEF Inv, TypeOK, ObjectType, UploadType, LifeType, uploadVars
<1>2. inRead' \in BOOLEAN /\ inRead \in BOOLEAN
  BY DEF Inv, TypeOK, CallType
<1>3. OpenTogether' /\ DestroyedAtLastClose'
  BY <1>2 DEF Inv, OpenTogether, DestroyedAtLastClose
<1>4. TimerFitsState' /\ StallCountsSilence'
  BY <1>2 DEF Inv, TimerFitsState, StallCountsSilence
<1>5. FlushIsPending' /\ CountIsFed'
  BY DEF Inv, FlushIsPending, CountIsFed, uploadVars
<1>6. QED
  BY <1>1, <1>3, <1>4, <1>5 DEF Inv

LEMMA TransmitInv == Inv /\ Transmit => Inv'
<1> SUFFICES ASSUME Inv, Transmit PROVE Inv'
  OBVIOUS
<1>1. /\ tcp = "open" /\ flushed < Len(writes) /\ flushed' = flushed + 1
      /\ UNCHANGED <<state, objectVars, uploadVars, writes, answer, lifeVars,
                     callVars, worldVars, silent>>
  BY DEF Transmit
<1>2. QueueType'
  BY <1>1, LenProperties DEF Inv, TypeOK, QueueType
<1>3. CallType' /\ WorldType' /\ Settled'
  BY <1>1 DEF Inv, TypeOK, CallType, DecoderType, WorldType, Settled,
              DecoderFits, callVars, worldVars, lifeVars, objectVars
<1>4. QED
  BY <1>1, <1>2, <1>3, FrameStep DEF callVars, worldVars

\* on_write takes the oldest frame off a queue that is not empty.
LEMMA TailOfQueue ==
  ASSUME Inv, writes # << >>, writes' = Tail(writes), answer' = answer,
         flushed' \in Nat, flushed' < Len(writes)
  PROVE  QueueType' /\ tcp # "closed"
<1>1. Tail(writes) \in Seq(Replies) /\ Len(Tail(writes)) = Len(writes) - 1
  BY HeadTailProperties DEF Inv, TypeOK, QueueType
<1>2. Len(writes) \in Nat
  BY LenProperties DEF Inv, TypeOK, QueueType
<1>3. QED
  BY <1>1, <1>2 DEF Inv, TypeOK, QueueType, DestroyedAtLastClose

LEMMA OnWriteDoneInv == Inv /\ OnWriteDone => Inv'
<1> SUFFICES ASSUME Inv, OnWriteDone PROVE Inv'
  OBVIOUS
<1>1. /\ owner = "map" /\ inRead = FALSE /\ flushed > 0
      /\ writes' = Tail(writes) /\ flushed' = flushed - 1
      /\ UNCHANGED <<objectVars, uploadVars, answer, callVars, worldVars, silent>>
  BY NotInRead DEF OnWriteDone
<1>2. flushed \in 0 .. Len(writes) /\ Len(writes) \in Nat
  BY LenProperties DEF Inv, TypeOK, QueueType
<1>3. writes # << >>
  BY <1>1, <1>2, EmptySeq
<1>4. QueueType' /\ tcp # "closed"
  BY <1>1, <1>2, <1>3, TailOfQueue
<1>5. CASE Close
  BY <1>1, <1>4, <1>5, CloseEvent DEF worldVars
<1>6. CASE /\ ~(closeAfterFlush /\ Drained)
           /\ UNCHANGED <<state, lifeVars>>
  <2>1. CallType' /\ WorldType' /\ Settled'
    BY <1>1, <1>6 DEF Inv, TypeOK, CallType, DecoderType, WorldType, Settled,
                      DecoderFits, callVars, worldVars, lifeVars, objectVars
  <2>2. QED
    BY <1>1, <1>4, <1>6, <2>1, FrameStep DEF Drained, callVars, worldVars
<1>7. QED
  BY <1>5, <1>6 DEF OnWriteDone

LEMMA OnWriteErrorInv == Inv /\ OnWriteError => Inv'
<1> SUFFICES ASSUME Inv, OnWriteError PROVE Inv'
  OBVIOUS
<1>1. /\ owner = "map" /\ inRead = FALSE /\ flushed = 0 /\ writes # << >>
      /\ writes' = Tail(writes) /\ Close
      /\ UNCHANGED <<objectVars, uploadVars, flushed, answer, callVars,
                     worldVars, silent>>
  BY NotInRead DEF OnWriteError
<1>2. Len(writes) \in Nat \ {0}
  BY <1>1, EmptySeq DEF Inv, TypeOK, QueueType
<1>3. QueueType' /\ tcp # "closed"
  BY <1>1, <1>2, TailOfQueue
<1>4. QED
  BY <1>1, <1>3, CloseEvent DEF worldVars

\* A handle that closes while the other is still to be closed leaves one; the
\* last one destroys the object.
LEMMA HandleClosedInv ==
  ASSUME Inv, owner = "map", inRead = FALSE, HandleClosed,
         UNCHANGED <<state, objectVars, uploadVars, writeVars, armed, reading,
                     callVars, worldVars, silent>>,
         \/ /\ tcp = "closing" /\ writes = << >>
            /\ tcp' = "closed" /\ timer' = timer
         \/ timer = "closing" /\ timer' = "closed" /\ tcp' = tcp
  PROVE  Inv'
<1>1. /\ tcp \in {"closing", "closed"} /\ timer \in {"closing", "closed"}
      /\ tcp' \in {"closing", "closed"} /\ timer' \in {"closing", "closed"}
      /\ reading' = FALSE /\ armed' = "off" /\ inRead' = FALSE
  <2>1. tcp # "open" /\ timer # "open"
    BY DEF Inv, OpenTogether
  <2>2. reading = FALSE /\ armed = "off"
    BY <2>1 DEF Inv, TypeOK, LifeType, OpenTogether
  <2>3. QED
    BY <2>1, <2>2 DEF Inv, TypeOK, LifeType, Handle, callVars
<1>2. /\ pendingClose' = (IF tcp' = "closing" THEN 1 ELSE 0)
                            + (IF timer' = "closing" THEN 1 ELSE 0)
      /\ owner' = IF pendingClose' > 0 THEN "map" ELSE "gone"
  BY <1>1 DEF Inv, DestroyedAtLastClose, HandleClosed
<1>3. TypeOK'
  <2>1. LifeType'
    <3>1. pendingClose' \in 0 .. 2
      BY <1>2
    <3>2. reading' \in BOOLEAN
      BY <1>1
    <3>3. QED
      BY <1>1, <1>2, <3>1, <3>2 DEF LifeType, Handle
  <2>2. QED
    BY <2>1 DEF Inv, TypeOK, ObjectType, UploadType, QueueType, CallType,
                DecoderType, WorldType, objectVars, uploadVars, writeVars,
                callVars, worldVars
<1>4. OpenTogether' /\ Settled'
  BY <1>1 DEF Inv, OpenTogether, Settled, DecoderFits, callVars
<1>5. DestroyedAtLastClose'
  <2>1. owner' = "gone" <=> tcp' = "closed" /\ timer' = "closed"
    BY <1>1, <1>2
  <2>2. tcp' = "closed" => writes' = << >>
    BY DEF Inv, DestroyedAtLastClose, writeVars
  <2>3. QED
    BY <1>1, <1>2, <2>1, <2>2 DEF DestroyedAtLastClose
<1>6. TimerFitsState' /\ FlushIsPending' /\ StallCountsSilence' /\ CountIsFed'
  BY <1>1 DEF Inv, TimerFitsState, FlushIsPending, StallCountsSilence,
              CountIsFed, uploadVars
<1>7. QED
  BY <1>3, <1>4, <1>5, <1>6 DEF Inv

LEMMA OnTcpClosedInv == Inv /\ OnTcpClosed => Inv'
  BY HandleClosedInv, NotInRead DEF OnTcpClosed

LEMMA OnTimerClosedInv == Inv /\ OnTimerClosed => Inv'
  BY HandleClosedInv, NotInRead DEF OnTimerClosed

-----------------------------------------------------------------------------
(* The peer.                                                               *)

LEMMA PeerSendsInv == Inv /\ PeerSends => Inv'
<1> SUFFICES ASSUME Inv, NEW batch \in Batches, OnRead(batch) PROVE Inv'
  BY DEF PeerSends
<1>1. batch \in Seq(PeerTokens)
  BY SeqDef, SessionAssumption DEF Batches
<1>2. /\ reading /\ inRead' = TRUE /\ readBuf' = batch /\ silent' = 0
      /\ UNCHANGED <<state, objectVars, uploadVars, writeVars, lifeVars,
                     decoder, worldVars>>
  BY DEF OnRead
<1>3. CallType' /\ WorldType'
  BY <1>1, <1>2 DEF Inv, TypeOK, CallType, DecoderType, WorldType, worldVars
<1>4. Settled'
  BY <1>2 DEF Inv, Settled, DecoderFits, lifeVars, objectVars
<1>5. QueueType' /\ (tcp = "closed" => writes' = << >>)
  BY <1>2, QueueUnchanged
<1>6. QED
  BY <1>2, <1>3, <1>4, <1>5, FrameStep DEF writeVars, worldVars

LEMMA PeerStopsInv == Inv /\ PeerStops => Inv'
<1> SUFFICES ASSUME Inv, PeerStops PROVE Inv'
  OBVIOUS
<1>1. /\ peer' \in {"quiet", "fin", "reset"}
      /\ UNCHANGED <<state, objectVars, uploadVars, writeVars, lifeVars,
                     callVars, ioFailures, silent>>
  BY DEF PeerStops
<1>2. CallType' /\ WorldType'
  BY <1>1 DEF Inv, TypeOK, CallType, DecoderType, WorldType, callVars
<1>3. Settled'
  BY <1>1 DEF Inv, Settled, DecoderFits, callVars, lifeVars, objectVars
<1>4. QueueType' /\ (tcp = "closed" => writes' = << >>)
  BY <1>1, QueueUnchanged
<1>5. QED
  BY <1>1, <1>2, <1>3, <1>4, FrameStep DEF writeVars, callVars

-----------------------------------------------------------------------------
(* The theorems.                                                           *)

LEMMA NextInv == Inv /\ [Next]_vars => Inv'
<1> SUFFICES ASSUME Inv, [Next]_vars PROVE Inv'
  OBVIOUS
<1>1. CASE Callback
  BY <1>1, FeedHeaderInv, FeedRefusedInv, FeedPayloadInv, DispatchInv, EndReadInv
  DEF Callback, Feed
<1>2. CASE Loop
  BY <1>2, OnReadEndInv, OnIdleTimeoutInv, OnWriteDoneInv, OnWriteErrorInv,
     OnTcpClosedInv, OnTimerClosedInv
  DEF Loop
<1>3. CASE Transmit \/ Shutdown
  BY <1>3, TransmitInv, ShutdownInv
<1>4. CASE PeerSends \/ PeerStops
  BY <1>4, PeerSendsInv, PeerStopsInv
<1>5. CASE UNCHANGED vars
  <2>1. /\ UNCHANGED <<state, objectVars, uploadVars, lifeVars, decoder, ioFailures>>
        /\ UNCHANGED <<inRead, readBuf, silent, peer, writeVars>>
    BY <1>5 DEF vars, callVars, worldVars
  <2>2. CallType' /\ WorldType' /\ Settled'
    BY <2>1 DEF Inv, TypeOK, CallType, DecoderType, WorldType, Settled,
                DecoderFits, lifeVars, objectVars
  <2>3. QueueType' /\ (tcp = "closed" => writes' = << >>)
    BY <2>1, QueueUnchanged
  <2>4. QED
    BY <2>1, <2>2, <2>3, FrameStep DEF writeVars
<1>6. QED
  BY <1>1, <1>2, <1>3, <1>4, <1>5 DEF Next

\* The whole invariant of the session holds in every reachable state, for all
\* sizes, chunk limits, acknowledgement intervals, stall limits, batches and
\* queues.
THEOREM SessionInvariant == Spec => []Inv
  BY InitInv, NextInv, PTL DEF Spec

\* The types: stall_ticks_ and pending_close_ stay within their limits.
THEOREM TypeCorrect == Spec => []TypeOK
<1>1. Inv => TypeOK
  BY DEF Inv
<1>2. QED
  BY <1>1, SessionInvariant, PTL

\* The object is destroyed by the close callback of its last handle, with no
\* write or read callback left that points to it.
THEOREM NeverDangling == Spec => []DestroyedAtLastClose
<1>1. Inv => DestroyedAtLastClose
  BY DEF Inv
<1>2. QED
  BY <1>1, SessionInvariant, PTL

\* An open session that reads is always watched by the timer of its state
\* (TcpSession.cpp, touch_idle and on_read).
THEOREM AlwaysWatched == Spec => []TimerFitsState
<1>1. Inv => TimerFitsState
  BY DEF Inv
<1>2. QED
  BY <1>1, SessionInvariant, PTL

\* The slices counted against an upload are those that passed in silence: it is
\* given up after kStallTicks of them in a row and not before (on_idle_timeout).
THEOREM StallWatchIsTrue == Spec => []StallCountsSilence
<1>1. Inv => StallCountsSilence
  BY DEF Inv
<1>2. QED
  BY <1>1, SessionInvariant, PTL

\* A close that waits for the write queue never waits for an empty one.
THEOREM FlushAlwaysPending == Spec => []FlushIsPending
<1>1. Inv => FlushIsPending
  BY DEF Inv
<1>2. QED
  BY <1>1, SessionInvariant, PTL

\* What is analysed of an upload is what was received of it, within the size
\* announced.
THEOREM CountsAgree == Spec => []CountIsFed
<1>1. Inv => CountIsFed
  BY DEF Inv
<1>2. QED
  BY <1>1, SessionInvariant, PTL

-----------------------------------------------------------------------------
(***************************************************************************)
(* The session keeps the contract with its client: each of its steps is a  *)
(* step of UploadContract, or one that the client cannot tell from none.   *)
(***************************************************************************)

\* What the refinement needs beside the invariant of the session: no upload has
\* been answered before the greeting, and the one that a failed decoder cut off
\* has been answered by an ERROR.
Answered ==
  tcp = "open" =>
    /\ state = "AwaitHello" => answer = "none"
    /\ state = "Uploading" /\ decoder.phase = "Failed" => answer = "error"

RInv == Inv /\ Answered

\* What each step has to show: it is one of the contract, and Answered goes on.
Keeps == Answered' /\ (Contract!Next \/ UNCHANGED Contract!vars)

-----------------------------------------------------------------------------
(* Steps by what they do to the session as its client sees it.             *)

\* A session that is over stays so.
LEMMA OverStays == ASSUME tcp # "open", tcp' # "open" PROVE Keeps
<1>1. Answered'
  BY DEF Answered
<1>2. Phase = "over" /\ Phase' = "over"
  BY DEF Phase
<1>3. UNCHANGED Contract!vars
  BY <1>2 DEF Contract!vars
<1> QED
  BY <1>1, <1>3 DEF Keeps

\* An open session whose stream is closed in the step ends.
LEMMA Closed == ASSUME tcp = "open", tcp' # "open" PROVE Keeps
<1>1. Answered'
  BY DEF Answered
<1>2. Phase # "over" /\ Phase' = "over"
  BY DEF Phase
<1>3. Contract!End
  BY <1>2 DEF Contract!End
<1> QED
  BY <1>1, <1>3 DEF Keeps, Contract!Next

\* Nothing the client can tell changes.
LEMMA Unseen ==
  ASSUME RInv, UNCHANGED <<tcp, state, declared, fed, answer>>,
         state = "Uploading" => (decoder'.phase = "Failed" <=> decoder.phase = "Failed")
  PROVE  Keeps
<1>1. Answered'
  BY DEF RInv, Answered
<1>2. Phase' = Phase
  BY DEF Phase
<1>3. UNCHANGED Contract!vars
  BY <1>2 DEF Contract!vars
<1> QED
  BY <1>1, <1>3 DEF Keeps

\* An upload being received is given up, with an ERROR.
LEMMA GivesUp ==
  ASSUME tcp = "open", tcp' = "open", state = "Uploading", decoder.phase # "Failed",
         answer' = "error",
         state' = "Ready" \/ (state' = "Uploading" /\ decoder'.phase = "Failed")
  PROVE  Keeps
<1>1. Answered'
  BY DEF Answered
<1>2. Phase = "receiving" /\ Phase' = "idle"
  BY DEF Phase
<1>3. Contract!Abort
  BY <1>2 DEF Contract!Abort
<1> QED
  BY <1>1, <1>3 DEF Keeps, Contract!Next

\* A handler that sends: the session is closed, or the frames are queued.
LEMMA SendOutcome ==
  ASSUME tcp = "open", NEW msgs, NEW st, NEW failSt, Send(msgs, st, failSt), tcp' = "open"
  PROVE  Enqueue(msgs) /\ state' = st
BY DEF Send, SendFails, CloseHandles

\* How a single frame changes the answer.
LEMMA AnswerOfOne ==
  ASSUME NEW m, Enqueue(<<m>>)
  PROVE  /\ m.type = "UPLOAD_BEGIN_ACK" => answer' = "none"
         /\ m.type = "ERROR" /\ state = "Uploading" => answer' = "error"
         /\ m.type \notin {"UPLOAD_BEGIN_ACK", "RESULT_END", "ERROR"} => answer' = answer
         /\ m.type = "ERROR" /\ state # "Uploading" => answer' = answer
<1>1. \A i \in DOMAIN <<m>> : <<m>>[i] = m
  OBVIOUS
<1>2. 1 \in DOMAIN <<m>>
  OBVIOUS
<1> QED
  BY <1>1, <1>2 DEF Enqueue

\* An ERROR sent: it answers an upload.
LEMMA AnswerOfError ==
  ASSUME NEW c, Enqueue(<<Error(c)>>)
  PROVE  answer' = IF state = "Uploading" THEN "error" ELSE answer
<1>1. Error(c).type = "ERROR"
  BY DEF Error
<1> QED
  BY <1>1, AnswerOfOne

\* An ERROR outside an upload, after which the state is as it was.
LEMMA ReplyKeeps ==
  ASSUME RInv, tcp = "open", NEW c, NEW failSt, Send(<<Error(c)>>, state, failSt),
         state # "Uploading", UNCHANGED uploadVars
  PROVE  Keeps
<1>1. CASE tcp' # "open"
  BY <1>1, Closed
<1>2. CASE tcp' = "open"
  <2>1. Enqueue(<<Error(c)>>) /\ state' = state
    BY <1>2, SendOutcome
  <2>2. answer' = answer
    BY <2>1, AnswerOfError
  <2> QED
    BY <1>2, <2>1, <2>2, Unseen DEF uploadVars
<1> QED
  BY <1>1, <1>2

\* Abort(): the upload is given up, or the session closed.
LEMMA AbortKeeps ==
  ASSUME tcp = "open", NEW c, Send(<<Error(c)>>, "Ready", "Closing"), state = "Uploading",
         decoder.phase # "Failed"
  PROVE  Keeps
<1>1. CASE tcp' # "open"
  BY <1>1, Closed
<1>2. CASE tcp' = "open"
  <2>1. Enqueue(<<Error(c)>>) /\ state' = "Ready"
    BY <1>2, SendOutcome
  <2>2. answer' = "error"
    BY <2>1, AnswerOfError
  <2> QED
    BY <1>2, <2>1, <2>2, GivesUp
<1> QED
  BY <1>1, <1>2

-----------------------------------------------------------------------------
(* The steps of a read callback, on an open session.                       *)

\* What the invariant says of an open session.
LEMMA OpenFacts ==
  ASSUME RInv, tcp = "open"
  PROVE  /\ timer = "open"
         /\ state \in {"AwaitHello", "Ready", "Uploading"}
         /\ state = "AwaitHello" => answer = "none"
         /\ state = "Uploading" => received = fed /\ fed <= declared
         /\ state = "Uploading" /\ decoder.phase = "Failed" => answer = "error"
         /\ decoder.phase = "Payload" => decoder.left > 0
         /\ decoder.type = "UPLOAD_BEGIN" => decoder.arg \in Sizes \cup {Malformed}
         /\ declared \in Nat /\ received \in Nat /\ fed \in Nat
         /\ readBuf \in Seq(PeerTokens)
         /\ decoder.left \in Nat
BY DEF RInv, Answered, Inv, TypeOK, ObjectType, UploadType, CallType, DecoderType,
       OpenTogether, Settled, DecoderFits, CountIsFed

LEMMA FeedHeaderKeeps == ASSUME RInv, tcp = "open", FeedHeader PROVE Keeps
<1>1. UNCHANGED <<tcp, state, declared, fed, answer>>
  BY DEF FeedHeader, Quietly, lifeVars, writeVars, uploadVars
<1>2. decoder.phase # "Failed" /\ decoder'.phase # "Failed"
  BY DEF FeedHeader
<1> QED
  BY <1>1, <1>2, Unseen

\* The decoder fails: an upload is answered by the first ERROR; the ERRORs that
\* answer the rest of what is sent change nothing.
LEMMA FeedRefusedKeeps == ASSUME RInv, tcp = "open", FeedRefused PROVE Keeps
<1>1. /\ decoder'.phase = "Failed"
      /\ Send(<<Error("Violation")>>, state, "Closing") /\ UNCHANGED uploadVars
  <2>1. decoder' = [decoder EXCEPT !.phase = "Failed"]
    BY DEF FeedRefused
  <2>2. decoder \in [phase : {"Header", "Payload", "Complete", "Failed"},
                     type : FrameTypes, arg : Nat \cup {Malformed}, left : Nat,
                     streamed : BOOLEAN]
    BY DEF RInv, Inv, TypeOK, CallType, DecoderType
  <2> QED
    BY <2>1, <2>2 DEF FeedRefused, Violation
<1>2. CASE tcp' # "open"
  BY <1>2, Closed
<1>3. CASE state # "Uploading"
  BY <1>1, <1>3, ReplyKeeps
<1>4. CASE tcp' = "open" /\ state = "Uploading"
  <2>1. Enqueue(<<Error("Violation")>>) /\ state' = state
    BY <1>1, <1>4, SendOutcome
  <2>2. answer' = "error"
    BY <1>4, <2>1, AnswerOfError
  <2>3. CASE decoder.phase # "Failed"
    BY <1>1, <1>4, <2>1, <2>2, <2>3, GivesUp
  <2>4. CASE decoder.phase = "Failed"
    <3>1. answer = "error"
      BY <1>4, <2>4, OpenFacts
    <3> QED
      BY <1>1, <1>4, <2>1, <2>2, <2>4, <3>1, Unseen DEF uploadVars
  <2> QED
    BY <2>3, <2>4
<1> QED
  BY <1>2, <1>3, <1>4

\* A piece of an upload is analysed.
LEMMA ReceiveKeeps ==
  ASSUME RInv, tcp = "open", tcp' = "open", state = "Uploading", state' = state,
         decoder.phase # "Failed", decoder'.phase # "Failed",
         NEW k \in Nat \ {0}, fed' = fed + k, fed' <= declared,
         declared' = declared, answer' = answer
  PROVE  Keeps
<1>1. Answered'
  BY DEF Answered
<1>2. Phase = "receiving" /\ Phase' = "receiving"
  BY DEF Phase
<1>3. fed' \in fed + 1 .. declared
  BY OpenFacts
<1>4. Contract!Receive
  BY <1>2, <1>3 DEF Contract!Receive
<1> QED
  BY <1>1, <1>4 DEF Keeps, Contract!Next

LEMMA FeedPayloadKeeps == ASSUME RInv, tcp = "open", FeedPayload PROVE Keeps
<1> DEFINE k == IF decoder.left < Len(readBuf) THEN decoder.left ELSE Len(readBuf)
           goneOn == UNCHANGED <<tcp, state, declared, fed, answer>>
<1>1. decoder.phase = "Payload" /\ readBuf # << >>
  BY DEF FeedPayload
<1>2. decoder'.phase # "Failed"
  <2>1. decoder' = [decoder EXCEPT !.left = @ - k,
                                   !.phase = IF k = decoder.left THEN "Complete" ELSE @]
    BY DEF FeedPayload
  <2>2. decoder \in [phase : {"Header", "Payload", "Complete", "Failed"},
                     type : FrameTypes, arg : Nat \cup {Malformed}, left : Nat,
                     streamed : BOOLEAN]
    BY DEF RInv, Inv, TypeOK, CallType, DecoderType
  <2> QED
    BY <1>1, <2>1, <2>2
<1>3. k \in Nat \ {0}
  BY <1>1, OpenFacts, EmptySeq, LenProperties
<1>4. PayloadChunk(k) \/ (Quietly /\ UNCHANGED uploadVars)
  BY DEF FeedPayload
<1> HIDE DEF k
<1>5. CASE goneOn
  BY <1>1, <1>2, <1>5, Unseen
<1>6. CASE Quietly /\ UNCHANGED uploadVars
  BY <1>5, <1>6 DEF Quietly, lifeVars, writeVars, uploadVars
<1>7. CASE PayloadChunk(k) /\ state # "Uploading"
  BY <1>5, <1>7 DEF PayloadChunk, Quietly, lifeVars, writeVars, uploadVars
<1>8. CASE PayloadChunk(k) /\ state = "Uploading" /\ received + k > declared
  <2>1. Send(<<Error("SizeMismatch")>>, "Ready", "Closing")
    BY <1>8 DEF PayloadChunk, Abort
  <2> QED
    BY <1>1, <1>8, <2>1, AbortKeeps
<1>9. CASE PayloadChunk(k) /\ state = "Uploading" /\ ~(received + k > declared)
  <2>1. declared' = declared /\ fed' = fed + k
    BY <1>9 DEF PayloadChunk
  <2>2. fed' <= declared
    BY <1>3, <1>9, <2>1, OpenFacts
  <2>3. Quietly \/ Send(<<Frame("UPLOAD_ACK")>>, state, "Closing")
    BY <1>9 DEF PayloadChunk
  <2>4. CASE tcp' # "open"
    BY <2>4, Closed
  <2>5. CASE tcp' = "open"
    <3>1. CASE Quietly
      BY <1>1, <1>2, <1>3, <1>9, <2>1, <2>2, <2>5, <3>1, ReceiveKeeps
      DEF Quietly, writeVars
    <3>2. CASE Send(<<Frame("UPLOAD_ACK")>>, state, "Closing")
      <4>1. Enqueue(<<Frame("UPLOAD_ACK")>>) /\ state' = state
        BY <2>5, <3>2, SendOutcome
      <4>2. answer' = answer
        BY <4>1, AnswerOfOne DEF Frame
      <4> QED
        BY <1>1, <1>2, <1>3, <1>9, <2>1, <2>2, <2>5, <4>1, <4>2, ReceiveKeeps
    <3> QED
      BY <2>3, <3>1, <3>2
  <2> QED
    BY <2>4, <2>5
<1> QED
  BY <1>4, <1>6, <1>7, <1>8, <1>9

\* dispatch_frame() finds a decoder that has not failed, and leaves a fresh one.
LEMMA DispatchFacts ==
  ASSUME NEW st, Dispatching(st)
  PROVE  /\ state = st /\ decoder.phase = "Complete"
         /\ decoder.phase # "Failed" /\ decoder'.phase # "Failed"
BY DEF Dispatching, NoFrame

\* The greeting.
LEMMA AwaitHelloKeeps == ASSUME RInv, tcp = "open", DispatchAwaitHello PROVE Keeps
<1>1. state = "AwaitHello" /\ decoder'.phase # "Failed" /\ answer = "none"
  BY DispatchFacts, OpenFacts DEF DispatchAwaitHello
<1>2. CASE tcp' # "open"
  BY <1>2, Closed
<1>3. CASE Violation("UnexpectedType")
  BY <1>1, <1>3, ReplyKeeps DEF Violation
<1>4. CASE tcp' = "open" /\ ~Violation("UnexpectedType")
  <2>1. Send(<<Frame("HELLO_ACK")>>, "Ready", "Closing")
    BY <1>4 DEF DispatchAwaitHello
  <2>2. Enqueue(<<Frame("HELLO_ACK")>>) /\ state' = "Ready"
    BY <1>4, <2>1, SendOutcome
  <2>3. answer' = "none"
    BY <1>1, <2>2, AnswerOfOne DEF Frame
  <2>4. Answered'
    BY <2>2 DEF Answered
  <2>5. Phase = "greeting" /\ Phase' = "idle"
    BY <1>1, <1>4, <2>2 DEF Phase
  <2>6. Contract!Greet
    BY <2>3, <2>5 DEF Contract!Greet
  <2> QED
    BY <2>4, <2>6 DEF Keeps, Contract!Next
<1> QED
  BY <1>2, <1>3, <1>4

\* The announcement of a file: refused, or an upload begins.
LEMMA UploadBeginKeeps == ASSUME RInv, tcp = "open", UploadBegin PROVE Keeps
<1>1. /\ state = "Ready" /\ decoder'.phase # "Failed"
      /\ decoder.arg \in Sizes \cup {Malformed}
  BY DispatchFacts, OpenFacts DEF UploadBegin
<1>2. CASE tcp' # "open"
  BY <1>2, Closed
<1>3. CASE Violation("UnexpectedType")
  BY <1>1, <1>3, ReplyKeeps DEF Violation
<1>4. CASE Send(<<Error("SizeMismatch")>>, state, "Closing") /\ UNCHANGED uploadVars
  BY <1>1, <1>4, ReplyKeeps
<1>5. CASE /\ tcp' = "open"
           /\ decoder.arg \notin {Malformed, 0} /\ declared' = decoder.arg /\ ResetCounts
           /\ Send(<<Frame("UPLOAD_BEGIN_ACK")>>, "Uploading", "Closing")
  <2>1. Enqueue(<<Frame("UPLOAD_BEGIN_ACK")>>) /\ state' = "Uploading"
    BY <1>5, SendOutcome
  <2>2. answer' = "none"
    BY <2>1, AnswerOfOne DEF Frame
  <2>3. Answered'
    BY <1>1, <2>1 DEF Answered
  <2>4. Phase = "idle" /\ Phase' = "receiving"
    BY <1>1, <1>5, <2>1 DEF Phase
  <2>5. declared' \in Sizes \ {0} /\ fed' = 0
    BY <1>1, <1>5 DEF ResetCounts
  <2>6. Contract!Begin
    BY <2>2, <2>4, <2>5 DEF Contract!Begin
  <2> QED
    BY <2>3, <2>6 DEF Keeps, Contract!Next
<1> QED
  BY <1>2, <1>3, <1>4, <1>5 DEF UploadBegin

LEMMA ReadyOtherKeeps == ASSUME RInv, tcp = "open", ReadyOther PROVE Keeps
<1>1. state = "Ready" /\ UNCHANGED uploadVars
  BY DispatchFacts DEF ReadyOther
<1>2. CASE Quietly
  BY <1>1, <1>2, Unseen DEF Quietly, lifeVars, writeVars, uploadVars
<1>3. CASE ~Quietly
  <2>1. Send(<<Error("UnexpectedType")>>, state, "Closing")
    BY <1>3 DEF ReadyOther
  <2> QED
    BY <1>1, <2>1, ReplyKeeps
<1> QED
  BY <1>2, <1>3

LEMMA UploadChunkKeeps == ASSUME RInv, tcp = "open", UploadChunk PROVE Keeps
<1>1. /\ state = "Uploading" /\ decoder.phase # "Failed" /\ decoder'.phase # "Failed"
      /\ UNCHANGED uploadVars
  BY DispatchFacts DEF UploadChunk
<1>2. CASE decoder.streamed
  <2>1. Quietly
    BY <1>2 DEF UploadChunk
  <2> QED
    BY <1>1, <2>1, Unseen DEF Quietly, lifeVars, writeVars, uploadVars
<1>3. CASE ~decoder.streamed
  <2>1. Send(<<Error("PayloadTooLarge")>>, "Ready", "Closing")
    BY <1>3 DEF UploadChunk, Abort
  <2> QED
    BY <1>1, <2>1, AbortKeeps
<1> QED
  BY <1>2, <1>3

\* The end of an upload: the result is sent for a file that is complete, and
\* for no other.
LEMMA UploadEndKeeps == ASSUME RInv, tcp = "open", UploadEnd PROVE Keeps
<1>1. /\ state = "Uploading" /\ decoder.phase # "Failed" /\ decoder'.phase # "Failed"
      /\ received = fed
  BY DispatchFacts, OpenFacts DEF UploadEnd
<1>2. CASE tcp' # "open"
  BY <1>2, Closed
<1>3. CASE Abort("UnexpectedType") \/ Abort("SizeMismatch")
  BY <1>1, <1>3, AbortKeeps DEF Abort
<1>4. CASE tcp' = "open" /\ SizesAgree /\ Send(Result, "Ready", "Ready")
  <2>1. Enqueue(Result) /\ state' = "Ready"
    BY <1>4, SendOutcome
  <2>2. answer' = "result"
    <3>1. /\ DOMAIN Result = 1 .. 4 /\ Result[4].type = "RESULT_END"
          /\ \A i \in 1 .. 4 : Result[i].type # "UPLOAD_BEGIN_ACK"
      BY DEF Result, Frame
    <3>2. \E i \in DOMAIN Result : Result[i].type = "RESULT_END"
      BY <3>1
    <3>3. ~ \E i \in DOMAIN Result : Result[i].type = "UPLOAD_BEGIN_ACK"
      BY <3>1
    <3> QED
      BY <2>1, <3>2, <3>3 DEF Enqueue
  <2>3. Answered'
    BY <2>1 DEF Answered
  <2>4. Phase = "receiving" /\ Phase' = "idle"
    BY <1>1, <1>4, <2>1 DEF Phase
  <2>5. fed = declared
    BY <1>1, <1>4 DEF SizesAgree
  <2>6. Contract!Complete
    BY <2>2, <2>4, <2>5 DEF Contract!Complete
  <2> QED
    BY <2>3, <2>6 DEF Keeps, Contract!Next
<1> QED
  BY <1>2, <1>3, <1>4 DEF UploadEnd

LEMMA DispatchKeeps == ASSUME RInv, tcp = "open", Dispatch PROVE Keeps
<1>1. CASE ReadyBye
  <2>1. tcp' # "open"
    BY <1>1, DispatchFacts DEF ReadyBye, Close, CloseHandles
  <2> QED
    BY <2>1, Closed
<1>2. CASE UploadCancel
  BY <1>2, DispatchFacts, AbortKeeps DEF UploadCancel
<1>3. CASE UploadOther
  BY <1>3, DispatchFacts, AbortKeeps DEF UploadOther, Abort
<1>4. CASE DispatchClosing
  BY <1>4, DispatchFacts, OpenFacts DEF DispatchClosing
<1> QED
  BY <1>1, <1>2, <1>3, <1>4, AwaitHelloKeeps, UploadBeginKeeps, ReadyOtherKeeps,
     UploadChunkKeeps, UploadEndKeeps DEF Dispatch

-----------------------------------------------------------------------------
(* The other callbacks, on an open session.                                *)

\* close(), by whatever path.
LEMMA CloseKeeps == ASSUME RInv, tcp = "open", Close \/ CloseHandles PROVE Keeps
<1>1. state # "Closing"
  BY OpenFacts
<1>2. tcp' # "open"
  BY <1>1 DEF Close, CloseHandles
<1> QED
  BY <1>2, Closed

LEMMA IdleTimeoutKeeps == ASSUME RInv, tcp = "open", OnIdleTimeout PROVE Keeps
<1>1. UNCHANGED uploadVars /\ decoder' = decoder
  BY DEF OnIdleTimeout, StallWarning, NetworkStall, IdleTimeout, TimerFires, callVars
<1>2. CASE StallWarning
  BY <1>1, <1>2, Unseen DEF StallWarning, writeVars, uploadVars
<1>3. CASE NetworkStall
  BY <1>3, CloseKeeps DEF NetworkStall
<1>4. CASE IdleTimeout
  <2>1. CASE tcp' # "open"
    BY <2>1, Closed
  <2>2. CASE tcp' = "open"
    <3>1. Enqueue(<<Error("IdleTimeout")>>) /\ state' = state /\ state # "Uploading"
      BY <1>4, <2>2 DEF IdleTimeout, SendFails, CloseHandles
    <3>2. answer' = answer
      BY <3>1, AnswerOfError
    <3> QED
      BY <1>1, <2>2, <3>1, <3>2, Unseen DEF uploadVars
  <2> QED
    BY <2>1, <2>2
<1> QED
  BY <1>2, <1>3, <1>4 DEF OnIdleTimeout

\* A write is done, or fails.
LEMMA WriteKeeps == ASSUME RInv, tcp = "open", OnWriteDone \/ OnWriteError PROVE Keeps
<1>1. CASE Close
  BY <1>1, CloseKeeps
<1>2. CASE ~Close
  <2>1. UNCHANGED <<tcp, state, declared, fed, answer, decoder>>
    BY <1>2 DEF OnWriteDone, OnWriteError, lifeVars, uploadVars, callVars
  <2> QED
    BY <2>1, Unseen
<1> QED
  BY <1>1, <1>2

\* Steps that touch nothing the client can tell.
LEMMA OtherKeeps ==
  ASSUME RInv, tcp = "open",
         \/ EndRead \/ Transmit \/ PeerSends \/ PeerStops
         \/ UNCHANGED vars
  PROVE  Keeps
<1>1. UNCHANGED <<tcp, state, declared, fed, answer, decoder>>
  BY DEF EndRead, Transmit, PeerSends, PeerStops, OnRead, vars, uploadVars, writeVars,
         lifeVars, callVars
<1> QED
  BY <1>1, Unseen

-----------------------------------------------------------------------------

\* A stream that is being closed is not opened again.
LEMMA NeverReopened == ASSUME tcp # "open", [Next]_vars PROVE tcp' # "open"
<1> USE DEF CloseHandles, Close, SendFails, Send, Quietly, lifeVars
<1>1. CASE Feed
  BY <1>1 DEF Feed, FeedHeader, FeedRefused, FeedPayload, Violation, PayloadChunk, Abort
<1>2. CASE Dispatch
  BY <1>2 DEF Dispatch, DispatchAwaitHello, ReadyBye, UploadBegin, ReadyOther, UploadChunk,
         UploadEnd, UploadCancel, UploadOther, DispatchClosing, Violation, Abort
<1>3. CASE EndRead \/ Transmit \/ Shutdown \/ PeerSends \/ PeerStops
  BY <1>3 DEF EndRead, Transmit, Shutdown, PeerSends, PeerStops, OnRead
<1>4. CASE Loop
  BY <1>4 DEF Loop, OnReadEnd, OnIdleTimeout, StallWarning, NetworkStall, IdleTimeout,
         OnWriteDone, OnWriteError, OnTcpClosed, OnTimerClosed
<1>5. CASE UNCHANGED vars
  BY <1>5 DEF vars
<1> QED
  BY <1>1, <1>2, <1>3, <1>4, <1>5 DEF Next, Callback

LEMMA StepKeeps == RInv /\ [Next]_vars => Keeps
<1> SUFFICES ASSUME RInv, [Next]_vars PROVE Keeps
  OBVIOUS
<1>1. CASE tcp # "open"
  BY <1>1, NeverReopened, OverStays
<1>2. CASE tcp = "open"
  <2>1. CASE Callback
    BY <1>2, <2>1, FeedHeaderKeeps, FeedRefusedKeeps, FeedPayloadKeeps, DispatchKeeps,
       OtherKeeps DEF Callback, Feed
  <2>2. CASE OnReadEnd \/ Shutdown
    BY <1>2, <2>2, CloseKeeps DEF OnReadEnd, Shutdown
  <2>3. CASE OnTcpClosed \/ OnTimerClosed
    BY <1>2, <2>3, OpenFacts DEF OnTcpClosed, OnTimerClosed
  <2> QED
    BY <1>2, <2>1, <2>2, <2>3, IdleTimeoutKeeps, WriteKeeps, OtherKeeps DEF Next, Loop
<1> QED
  BY <1>1, <1>2

LEMMA InitKeeps == Init => Answered /\ Contract!Init
<1> SUFFICES ASSUME Init PROVE Answered /\ Contract!Init
  OBVIOUS
<1>1. Answered
  BY DEF Init, Started, Rejected, AcceptFailed, Answered, NoFrame
<1>2. Phase \in {"greeting", "over"}
  BY DEF Init, Started, Rejected, AcceptFailed, Phase
<1>3. Contract!Init
  BY <1>2 DEF Contract!Init
<1> QED
  BY <1>1, <1>3

\* Whatever the client sends and whenever the session is closed, the session
\* keeps its contract: every upload is answered once, by the result of the whole
\* file or by an error, the next one starts from nothing, and nothing follows
\* the end (TcpSession.cpp, all handlers).
THEOREM SessionKeepsContract == Spec => KeepsContract
<1>1. Init => RInv /\ Contract!Init
  BY InitInv, InitKeeps DEF RInv
<1>2. RInv /\ [Next]_vars => RInv' /\ [Contract!Next]_(Contract!vars)
  BY NextInv, StepKeeps DEF RInv, Keeps
<1> QED
  BY <1>1, <1>2, PTL DEF Spec, KeepsContract, Contract!Spec

=============================================================================
