------------------------------ MODULE TcpSession ------------------------------
(***************************************************************************)
(* One TCP session of the log-analysis server: the object TcpSession, its  *)
(* FrameDecoder, and the two libuv handles (stream and timer) it owns.     *)
(*                                                                         *)
(* The server is one libuv loop, so callbacks never overlap.  A read       *)
(* callback handles several frames; it is modelled as a sequence of steps  *)
(* (Feed, Dispatch, EndRead) during which inRead is TRUE and every other   *)
(* callback is disabled.  All other callbacks are single steps.            *)
(*                                                                         *)
(* The bytes of the stream are cut into tokens.  A control frame is one    *)
(* token (it has no effect until it is complete); an UPLOAD_CHUNK is the   *)
(* token of its header followed by one token per unit of payload; "DATA"   *)
(* stands for bytes that are no header the decoder accepts.  Inside a      *)
(* payload every token counts as one unit, whatever it looks like.         *)
(***************************************************************************)
EXTENDS Integers, Sequences, FiniteSets

CONSTANTS
  Sizes,          \* sizes a peer announces in UPLOAD_BEGIN and UPLOAD_END
  ChunkSizes,     \* payload lengths a peer puts in an UPLOAD_CHUNK header
  MaxChunk,       \* kDefaultMaxChunk, in units
  AckInterval,    \* kAckIntervalBytes, in units
  StallTicks,     \* kStallTicks
  MaxBatch,       \* bound: tokens one read callback delivers
  MaxWrites,      \* bound: tokens of a read and writes that are queued before it
  MaxIoFailures   \* bound: libuv calls that fail synchronously

ASSUME SessionAssumption ==
  /\ Sizes \subseteq Nat
  /\ ChunkSizes \subseteq Nat
  /\ MaxChunk \in Nat
  /\ AckInterval \in Nat \ {0}
  /\ StallTicks \in Nat \ {0}
  /\ MaxBatch \in Nat
  /\ MaxWrites \in Nat
  /\ MaxIoFailures \in Nat

VARIABLES
  owner,            \* "map" (in TcpServer::sessions_), then "gone" (destroyed)
  state,            \* state_
  closeAfterFlush,  \* close_after_flush_
  stallTicks,       \* stall_ticks_
  declared,         \* upload_declared_
  received,         \* upload_received_
  lastAck,          \* last_ack_at_
  decoder,          \* decoder_: phase and the frame being read
  writes,           \* writes_: frames whose on_write callback has not run
  flushed,          \* how many of them, from the front, the kernel has taken
  tcp,              \* tcp_ handle
  timer,            \* idle_timer_ handle
  armed,            \* "off", "idle" (one shot) or "stall" (repeating slices)
  reading,          \* uv_read_start is in force
  pendingClose,     \* pending_close_
  inRead,           \* a read callback is running
  readBuf,          \* the part of its buffer process() has not consumed
  peer,             \* what the other end has done
  ioFailures,       \* synchronous failures still allowed
  fed,              \* history: units the LineSplitter got since its reset
  answer,           \* history: how the latest upload was answered
  silent            \* history: timer slices since the last byte arrived

objectVars == <<closeAfterFlush, stallTicks>>
uploadVars == <<declared, received, lastAck, fed>>
writeVars  == <<writes, flushed, answer>>
lifeVars   == <<owner, tcp, timer, reading, pendingClose, armed>>
callVars   == <<decoder, inRead, readBuf>>
worldVars  == <<peer, ioFailures>>

vars == <<state, objectVars, uploadVars, writeVars, lifeVars, callVars,
          worldVars, silent>>

-----------------------------------------------------------------------------
(* Tokens from the peer and frames to the peer.                            *)

Malformed == -1   \* the argument of a frame whose payload does not parse

FrameTypes == {"NONE", "HELLO", "UPLOAD_BEGIN", "UPLOAD_CHUNK", "UPLOAD_END",
               "CANCEL", "BYE", "OTHER"}

Token(type, arg) == [type |-> type, arg |-> arg]

PeerTokens ==
  {Token("HELLO", a) : a \in {0, Malformed}}
    \cup {Token(t, a) : t \in {"UPLOAD_BEGIN", "UPLOAD_END"},
                        a \in Sizes \cup {Malformed}}
    \cup {Token("UPLOAD_CHUNK", n) : n \in ChunkSizes}
    \cup {Token(t, 0) : t \in {"CANCEL", "BYE", "OTHER", "DATA"}}

Frame(type) == [type |-> type, code |-> "None"]
Error(code) == [type |-> "ERROR", code |-> code]

ErrorCodes == {"Violation", "UnexpectedType", "PayloadTooLarge",
               "SizeMismatch", "Cancelled", "IdleTimeout", "ServerBusy"}
Replies == {Frame(t) : t \in {"HELLO_ACK", "UPLOAD_BEGIN_ACK", "UPLOAD_ACK",
                              "ANALYZE_DONE", "RESULT_BEGIN", "RESULT_CHUNK",
                              "RESULT_END"}}
             \cup {Error(c) : c \in ErrorCodes}

\* What handle_upload_end and send_result_csv send, in order.
Result == << Frame("ANALYZE_DONE"), Frame("RESULT_BEGIN"),
             Frame("RESULT_CHUNK"), Frame("RESULT_END") >>

NoFrame == [phase |-> "Header", type |-> "NONE", arg |-> 0, left |-> 0,
            streamed |-> FALSE]

TakeFirst(n, s) == SubSeq(s, 1, n)
DropFirst(n, s) == SubSeq(s, n + 1, Len(s))

-----------------------------------------------------------------------------
(* close() and send().                                                     *)

\* A faulty close(): every call counts both handles, closing or not.
CloseHandlesAgain ==
  /\ reading' = FALSE
  /\ armed' = "off"
  /\ tcp' = IF tcp = "open" THEN "closing" ELSE tcp
  /\ timer' = IF timer = "open" THEN "closing" ELSE timer
  /\ pendingClose' = pendingClose + 2
  /\ UNCHANGED owner

\* A faulty close(): the timer is counted and left in the loop.
ForgetsTimer ==
  /\ reading' = FALSE
  /\ armed' = "off"
  /\ tcp' = IF tcp = "open" THEN "closing" ELSE tcp
  /\ pendingClose' = pendingClose + 2
  /\ UNCHANGED <<timer, owner>>

\* close() on a session whose state is not Closing: stop reading and the
\* timer, ask libuv to close each handle that is not closing yet, and report
\* to the owner at once when there is nothing left to wait for.
CloseHandles ==
  /\ reading' = FALSE
  /\ armed' = "off"
  /\ tcp' = IF tcp = "open" THEN "closing" ELSE tcp
  /\ timer' = IF timer = "open" THEN "closing" ELSE timer
  /\ pendingClose' = pendingClose + (IF tcp = "open" THEN 1 ELSE 0)
                                  + (IF timer = "open" THEN 1 ELSE 0)
  /\ owner' = IF pendingClose' = 0 THEN "gone" ELSE owner

\* close(): a second call does nothing.
Close ==
  /\ state' = "Closing"
  /\ IF state = "Closing" THEN UNCHANGED lifeVars ELSE CloseHandles

\* Frames appended to writes_.  The history: an UPLOAD_BEGIN_ACK opens an
\* upload; the RESULT_END or the ERROR sent during it answers it.
Enqueue(msgs) ==
  LET has(type) == \E i \in DOMAIN msgs : msgs[i].type = type
  IN /\ writes' = writes \o msgs
     /\ answer' = IF has("UPLOAD_BEGIN_ACK") THEN "none"
                   ELSE IF has("RESULT_END") THEN "result"
                   ELSE IF has("ERROR") /\ state = "Uploading" THEN "error"
                   ELSE answer
     /\ UNCHANGED flushed

\* A uv_write of msgs fails synchronously: those before it are queued, and
\* send() closes the session; the handler then leaves the state at st.
\* Once the stream is closing every uv_write fails.
SendFails(msgs, st) ==
  /\ \/ /\ tcp = "open" /\ ioFailures > 0
        /\ \E n \in 0 .. Len(msgs) - 1 : Enqueue(TakeFirst(n, msgs))
        /\ ioFailures' = ioFailures - 1
     \/ tcp # "open" /\ UNCHANGED <<writeVars, ioFailures>>
  /\ CloseHandles
  /\ state' = st

\* send() of msgs in turn by a handler that leaves the state at st; a failed
\* send() leaves it at failSt.
Send(msgs, st, failSt) ==
  \/ /\ tcp = "open"
     /\ Enqueue(msgs)
     /\ state' = st
     /\ UNCHANGED <<lifeVars, ioFailures>>
  \/ SendFails(msgs, failSt)

-----------------------------------------------------------------------------
(* Birth: what TcpServer::accept_one leaves behind.                        *)

\* start(): the session reads and its idle timer is armed.
Started ==
  /\ state = "AwaitHello" /\ reading = TRUE /\ armed = "idle"
  /\ closeAfterFlush = FALSE /\ writes = << >> /\ answer = "none"
  /\ tcp = "open" /\ timer = "open" /\ pendingClose = 0

\* reject(): one ERROR(ServerBusy) is queued, nothing is read, no timer runs.
Rejected ==
  /\ state = "AwaitHello" /\ reading = FALSE /\ armed = "off"
  /\ closeAfterFlush = TRUE /\ writes = <<Error("ServerBusy")>>
  /\ answer = "none"
  /\ tcp = "open" /\ timer = "open" /\ pendingClose = 0

\* uv_accept, uv_read_start or the write of reject() failed: close() has run.
AcceptFailed ==
  /\ state = "Closing" /\ reading = FALSE /\ armed = "off"
  /\ closeAfterFlush = FALSE /\ writes = << >> /\ answer = "none"
  /\ tcp = "closing" /\ timer = "closing" /\ pendingClose = 2

Init ==
  /\ Started \/ Rejected \/ AcceptFailed
  /\ owner = "map"
  /\ stallTicks = 0
  /\ declared = 0 /\ received = 0 /\ lastAck = 0 /\ fed = 0
  /\ decoder = NoFrame
  /\ flushed = 0
  /\ inRead = FALSE /\ readBuf = << >>
  /\ peer = "up" /\ ioFailures = MaxIoFailures
  /\ silent = 0

-----------------------------------------------------------------------------
(* on_read and process().                                                  *)

\* The loop delivers batch to on_read.
OnRead(batch) ==
  /\ owner = "map" /\ reading /\ ~inRead
  /\ batch # << >>
  /\ inRead' = TRUE
  /\ readBuf' = batch
  /\ silent' = 0
  /\ UNCHANGED <<state, objectVars, uploadVars, writeVars, lifeVars, decoder,
                 worldVars>>

\* A step of a running read callback that changes neither the peer nor the
\* timer's history.
InCallback ==
  /\ inRead
  /\ UNCHANGED <<stallTicks, inRead, peer, silent>>

\* process() returns early: the rest of the read buffer is lost.
DropRest == readBuf' = << >>

\* Nothing is sent and nothing is closed.
Quietly == UNCHANGED <<state, writeVars, lifeVars, ioFailures>>

\* stream_payload(): does the session take this chunk as it arrives?
StreamPayload(n) == state = "Uploading" /\ n <= MaxChunk

\* feed() reads a header (and, of a control frame, the whole payload).
FeedHeader ==
  /\ InCallback
  /\ state # "Closing" /\ readBuf # << >> /\ decoder.phase = "Header"
  /\ LET tok == Head(readBuf)
     IN /\ tok.type # "DATA"
        /\ decoder' =
             IF tok.type = "UPLOAD_CHUNK" /\ tok.arg > 0
             THEN [phase |-> "Payload", type |-> tok.type, arg |-> tok.arg,
                   left |-> tok.arg, streamed |-> StreamPayload(tok.arg)]
             ELSE [phase |-> "Complete", type |-> tok.type, arg |-> tok.arg,
                   left |-> 0, streamed |-> FALSE]
  /\ readBuf' = Tail(readBuf)
  /\ Quietly
  /\ UNCHANGED <<closeAfterFlush, uploadVars>>

\* A faulty reset that forgets upload_received_.
ForgetsReceived == lastAck' = 0 /\ fed' = 0 /\ UNCHANGED received

\* A faulty reset that forgets the splitter.
ForgetsSplitter == received' = 0 /\ lastAck' = 0 /\ UNCHANGED fed

\* The counters and the splitter start an upload from nothing.
ResetCounts == received' = 0 /\ lastAck' = 0 /\ fed' = 0

\* ERROR, close when it is flushed, return from process().
Violation(code) ==
  /\ Send(<<Error(code)>>, state, "Closing")
  /\ closeAfterFlush' = TRUE
  /\ DropRest
  /\ UNCHANGED uploadVars

\* feed() refuses a header.  The decoder is not reset, so from then on it
\* refuses whatever arrives.
FeedRefused ==
  /\ InCallback
  /\ state # "Closing" /\ readBuf # << >>
  /\ \/ decoder.phase = "Failed"
     \/ decoder.phase = "Header" /\ Head(readBuf).type = "DATA"
  /\ decoder' = [decoder EXCEPT !.phase = "Failed"]
  /\ Violation("Violation")

\* abort_upload() for a reason other than a cancel.
Abort(code) ==
  /\ Send(<<Error(code)>>, "Ready", "Closing")
  /\ closeAfterFlush' = TRUE

\* payload_chunk(k): count, check, split, acknowledge.
PayloadChunk(k) ==
  LET total == received + k
      ackDue == total - lastAck >= AckInterval
  IN IF state # "Uploading"
     THEN Quietly /\ UNCHANGED <<closeAfterFlush, uploadVars>>
     ELSE /\ received' = total
          /\ UNCHANGED declared
          /\ IF total > declared
             THEN Abort("SizeMismatch") /\ UNCHANGED <<lastAck, fed>>
             ELSE /\ fed' = fed + k
                  /\ lastAck' = IF ackDue THEN total ELSE lastAck
                  /\ UNCHANGED closeAfterFlush
                  /\ IF ackDue
                     THEN Send(<<Frame("UPLOAD_ACK")>>, state, "Closing")
                     ELSE Quietly

\* feed() takes as much of a chunk's payload as the buffer holds.
FeedPayload ==
  /\ InCallback
  /\ state # "Closing" /\ readBuf # << >> /\ decoder.phase = "Payload"
  /\ LET k == IF decoder.left < Len(readBuf) THEN decoder.left
                                             ELSE Len(readBuf)
     IN /\ readBuf' = DropFirst(k, readBuf)
        /\ decoder' = [decoder EXCEPT
                         !.left = @ - k,
                         !.phase = IF k = decoder.left THEN "Complete" ELSE @]
        /\ IF decoder.streamed
           THEN PayloadChunk(k)
           ELSE Quietly /\ UNCHANGED <<closeAfterFlush, uploadVars>>

-----------------------------------------------------------------------------
(* dispatch_frame(): one step per frame, by the state of the session.      *)

\* A complete frame reaches dispatch_frame(); process() then resets the
\* decoder.
Dispatching(st) ==
  /\ InCallback
  /\ decoder.phase = "Complete"
  /\ state = st
  /\ decoder' = NoFrame

\* handle_hello(), or ERROR when the first frame is anything else.
DispatchAwaitHello ==
  /\ Dispatching("AwaitHello")
  /\ IF decoder.type = "HELLO" /\ decoder.arg # Malformed
     THEN /\ Send(<<Frame("HELLO_ACK")>>, "Ready", "Closing")
          /\ UNCHANGED <<closeAfterFlush, uploadVars, readBuf>>
     ELSE Violation("UnexpectedType")

ReadyBye ==
  /\ Dispatching("Ready") /\ decoder.type = "BYE"
  /\ Close
  /\ DropRest
  /\ UNCHANGED <<closeAfterFlush, uploadVars, writeVars, ioFailures>>

\* handle_upload_begin()
UploadBegin ==
  /\ Dispatching("Ready") /\ decoder.type = "UPLOAD_BEGIN"
  /\ \/ decoder.arg = Malformed /\ Violation("UnexpectedType")
     \/ /\ decoder.arg = 0
        /\ Send(<<Error("SizeMismatch")>>, state, "Closing")
        /\ UNCHANGED <<closeAfterFlush, uploadVars, readBuf>>
     \/ /\ decoder.arg \notin {Malformed, 0}
        /\ declared' = decoder.arg
        /\ ResetCounts
        /\ Send(<<Frame("UPLOAD_BEGIN_ACK")>>, "Uploading", "Closing")
        /\ UNCHANGED <<closeAfterFlush, readBuf>>

\* CANCEL is ignored while idle; anything else is answered with an ERROR and
\* the session goes on.
ReadyOther ==
  /\ Dispatching("Ready") /\ decoder.type \notin {"BYE", "UPLOAD_BEGIN"}
  /\ IF decoder.type = "CANCEL" THEN Quietly
     ELSE Send(<<Error("UnexpectedType")>>, state, "Closing")
  /\ UNCHANGED <<closeAfterFlush, uploadVars, readBuf>>

\* A chunk that was streamed needs nothing more; one that was not is too
\* long (or empty).
UploadChunk ==
  /\ Dispatching("Uploading") /\ decoder.type = "UPLOAD_CHUNK"
  /\ UNCHANGED uploadVars
  /\ IF decoder.streamed
     THEN Quietly /\ UNCHANGED <<closeAfterFlush, readBuf>>
     ELSE Abort("PayloadTooLarge") /\ DropRest

\* A faulty check that trusts what the client claims to have sent.
ClaimAgrees == decoder.arg = declared

\* What was received, what was announced and what is claimed are one size.
SizesAgree == received = declared /\ decoder.arg = declared

\* handle_upload_end().  The last assignment, state_ = Ready, is made even
\* when a send() in between has failed and closed the session.
UploadEnd ==
  /\ Dispatching("Uploading") /\ decoder.type = "UPLOAD_END"
  /\ UNCHANGED uploadVars
  /\ \/ decoder.arg = Malformed /\ Abort("UnexpectedType") /\ DropRest
     \/ /\ decoder.arg # Malformed /\ ~SizesAgree
        /\ Abort("SizeMismatch") /\ DropRest
     \/ /\ decoder.arg # Malformed /\ SizesAgree
        /\ Send(Result, "Ready", "Ready")
        /\ UNCHANGED <<closeAfterFlush, readBuf>>

\* A faulty abort_upload(Cancelled): the state stays.
UploadCancelStays ==
  /\ Dispatching("Uploading") /\ decoder.type = "CANCEL"
  /\ Send(<<Error("Cancelled")>>, state, "Closing")
  /\ UNCHANGED <<closeAfterFlush, uploadVars, readBuf>>

\* CANCEL during an upload: abort_upload(Cancelled) resets the upload and
\* keeps the session.
UploadCancel ==
  /\ Dispatching("Uploading") /\ decoder.type = "CANCEL"
  /\ Send(<<Error("Cancelled")>>, "Ready", "Closing")
  /\ declared' = 0
  /\ ResetCounts
  /\ UNCHANGED <<closeAfterFlush, readBuf>>

UploadOther ==
  /\ Dispatching("Uploading")
  /\ decoder.type \notin {"UPLOAD_CHUNK", "UPLOAD_END", "CANCEL"}
  /\ Abort("UnexpectedType") /\ DropRest
  /\ UNCHANGED uploadVars

\* The acknowledgement of the chunk's last piece has closed the session.
DispatchClosing ==
  /\ Dispatching("Closing")
  /\ DropRest
  /\ Quietly
  /\ UNCHANGED <<closeAfterFlush, uploadVars>>

Dispatch ==
  \/ DispatchAwaitHello
  \/ ReadyBye \/ UploadBegin \/ ReadyOther
  \/ UploadChunk \/ UploadEnd \/ UploadCancel \/ UploadOther
  \/ DispatchClosing

\* A faulty touch_idle(): called before the frames of the buffer are handled,
\* it finds the session outside its upload.
TouchIdleTooEarly ==
  IF state = "Closing" THEN UNCHANGED <<stallTicks, armed>>
  ELSE /\ stallTicks' = 0
       /\ armed' = IF timer # "open" THEN "off" ELSE "idle"

\* A faulty touch_idle() that restarts the timer and keeps the count.
TouchIdleKeepsTicks ==
  IF state = "Closing" THEN UNCHANGED <<stallTicks, armed>>
  ELSE /\ UNCHANGED stallTicks
       /\ armed' = IF timer # "open" THEN "off"
                   ELSE IF state = "Uploading" THEN "stall" ELSE "idle"

\* touch_idle(): restart the timer that fits the state.  Starting a timer
\* whose handle is closing has no effect.
TouchIdle ==
  IF state = "Closing" THEN UNCHANGED <<stallTicks, armed>>
  ELSE /\ stallTicks' = 0
       /\ armed' = IF timer # "open" THEN "off"
                   ELSE IF state = "Uploading" THEN "stall" ELSE "idle"

\* process() returns to on_read, which touches the timer.
EndRead ==
  /\ inRead
  /\ decoder.phase # "Complete"
  /\ readBuf = << >> \/ state = "Closing"
  /\ inRead' = FALSE
  /\ readBuf' = << >>
  /\ TouchIdle
  /\ UNCHANGED <<state, closeAfterFlush, uploadVars, writeVars, owner, tcp,
                 timer, reading, pendingClose, decoder, worldVars, silent>>

\* on_read with UV_EOF or an error.
OnReadEnd ==
  /\ owner = "map" /\ reading /\ ~inRead
  /\ peer \in {"fin", "reset"}
  /\ Close
  /\ UNCHANGED <<objectVars, uploadVars, writeVars, callVars, worldVars, silent>>

-----------------------------------------------------------------------------
(* on_idle_timeout.                                                        *)

TimerFires ==
  /\ owner = "map" /\ ~inRead
  /\ armed # "off"
  /\ UNCHANGED <<uploadVars, callVars, peer>>

\* A slice without data during an upload, not the last one: a warning only.
StallWarning ==
  /\ TimerFires
  /\ state = "Uploading" /\ stallTicks + 1 < StallTicks
  /\ stallTicks' = stallTicks + 1
  /\ silent' = silent + 1
  /\ UNCHANGED <<state, closeAfterFlush, writeVars, owner, tcp, timer, reading,
                 pendingClose, ioFailures>>
  /\ armed' = IF armed = "idle" THEN "off" ELSE armed

\* The last slice: ERROR(IdleTimeout), then close() without waiting for it.
NetworkStall ==
  /\ TimerFires
  /\ state = "Uploading" /\ stallTicks + 1 >= StallTicks
  /\ stallTicks' = stallTicks + 1
  /\ silent' = silent + 1
  /\ state' = "Closing"
  /\ CloseHandles
  /\ \/ tcp = "open" /\ Enqueue(<<Error("IdleTimeout")>>) /\ UNCHANGED ioFailures
     \/ /\ tcp # "open" \/ ioFailures > 0
        /\ ioFailures' = IF tcp = "open" THEN ioFailures - 1 ELSE ioFailures
        /\ UNCHANGED writeVars
  /\ UNCHANGED closeAfterFlush

\* Outside an upload: ERROR(IdleTimeout), and close once it is flushed.  The
\* timer is one-shot and is not started again.
IdleTimeout ==
  /\ TimerFires
  /\ state # "Uploading"
  /\ \/ /\ tcp = "open"
        /\ Enqueue(<<Error("IdleTimeout")>>)
        /\ armed' = IF armed = "idle" THEN "off" ELSE armed
        /\ UNCHANGED <<state, owner, tcp, timer, reading, pendingClose,
                       ioFailures>>
     \/ SendFails(<<Error("IdleTimeout")>>, "Closing")
  /\ closeAfterFlush' = TRUE
  /\ silent' = silent + 1
  /\ UNCHANGED stallTicks

OnIdleTimeout == StallWarning \/ NetworkStall \/ IdleTimeout

-----------------------------------------------------------------------------
(* Writes and handle closing, as libuv drives them.                        *)

\* The kernel takes the next queued frame (uv__write).
Transmit ==
  /\ owner = "map" /\ tcp = "open"
  /\ flushed < Len(writes)
  /\ flushed' = flushed + 1
  /\ UNCHANGED <<state, objectVars, uploadVars, writes, answer, lifeVars,
                 callVars, worldVars, silent>>

\* A faulty check, made before the frame is taken off the queue.
DrainedBeforePop == writes = << >>

\* The write queue is empty once on_write has taken its frame off.
Drained == writes' = << >>

\* on_write of the oldest frame, sent: close when the queue has drained and
\* a close was waiting for that.
OnWriteDone ==
  /\ owner = "map" /\ ~inRead
  /\ flushed > 0
  /\ writes' = Tail(writes)
  /\ flushed' = flushed - 1
  /\ IF closeAfterFlush /\ Drained THEN Close
     ELSE UNCHANGED <<state, lifeVars>>
  /\ UNCHANGED <<objectVars, uploadVars, answer, callVars, worldVars, silent>>

\* on_write with an error: the peer has reset the connection, or the stream
\* is closing and libuv cancels what was queued.
OnWriteError ==
  /\ owner = "map" /\ ~inRead
  /\ flushed = 0 /\ writes # << >>
  /\ peer = "reset" \/ tcp = "closing"
  /\ writes' = Tail(writes)
  /\ Close
  /\ UNCHANGED <<objectVars, uploadVars, flushed, answer, callVars, worldVars,
                 silent>>

\* A faulty on_handle_closed: the first handle destroys the session.
FirstHandleClosed ==
  /\ pendingClose' = pendingClose - 1
  /\ owner' = "gone"

\* A faulty on_handle_closed: the last handle does not.
NoHandleCloses ==
  /\ pendingClose' = pendingClose - 1
  /\ UNCHANGED owner

\* on_handle_closed: the last one makes the owner destroy the session.
HandleClosed ==
  /\ pendingClose' = pendingClose - 1
  /\ owner' = IF pendingClose' > 0 THEN owner ELSE "gone"

\* libuv runs every pending on_write before a stream's close callback.
OnTcpClosed ==
  /\ owner = "map" /\ ~inRead
  /\ tcp = "closing" /\ writes = << >>
  /\ tcp' = "closed"
  /\ HandleClosed
  /\ UNCHANGED <<state, objectVars, uploadVars, writeVars, timer, armed, reading,
                 callVars, worldVars, silent>>

OnTimerClosed ==
  /\ owner = "map" /\ ~inRead
  /\ timer = "closing"
  /\ timer' = "closed"
  /\ HandleClosed
  /\ UNCHANGED <<state, objectVars, uploadVars, writeVars, tcp, armed, reading,
                 callVars, worldVars, silent>>

\* TcpServer::begin_shutdown closes every session.
Shutdown ==
  /\ owner = "map" /\ ~inRead
  /\ Close
  /\ UNCHANGED <<objectVars, uploadVars, writeVars, callVars, worldVars, silent>>

-----------------------------------------------------------------------------
(* The peer.                                                               *)

Batches == UNION {[1 .. n -> PeerTokens] : n \in 1 .. MaxBatch}

\* A live peer sends anything.
PeerSends ==
  /\ peer = "up"
  /\ \E batch \in Batches :
       Len(writes) + Len(batch) <= MaxWrites /\ OnRead(batch)

\* It falls silent for ever, ends its stream, or resets the connection.
PeerStops ==
  /\ peer = "up"
  /\ peer' \in {"quiet", "fin", "reset"}
  /\ UNCHANGED <<state, objectVars, uploadVars, writeVars, lifeVars, callVars,
                 ioFailures, silent>>

-----------------------------------------------------------------------------

Feed == FeedHeader \/ FeedRefused \/ FeedPayload

Callback == Feed \/ Dispatch \/ EndRead

Loop == \/ OnReadEnd \/ OnIdleTimeout
        \/ OnWriteDone \/ OnWriteError
        \/ OnTcpClosed \/ OnTimerClosed

Next == Callback \/ Loop \/ Transmit \/ Shutdown \/ PeerSends \/ PeerStops

\* The loop runs a callback that has started to its end, and in time runs
\* every callback that is due.
LoopFairness ==
  /\ WF_vars(Callback)
  /\ WF_vars(OnReadEnd)
  /\ WF_vars(OnIdleTimeout)
  /\ WF_vars(OnWriteDone) /\ WF_vars(OnWriteError)
  /\ WF_vars(OnTcpClosed) /\ WF_vars(OnTimerClosed)

\* Queued frames eventually fit in the socket's send buffer.
DrainFairness == WF_vars(Transmit)

Spec == Init /\ [][Next]_vars

\* The peer may do anything, and may never read what it is sent.
LoopSpec == Spec /\ LoopFairness

-----------------------------------------------------------------------------
(* Properties.                                                             *)

Handle == {"open", "closing", "closed"}

\* The types of the variables, by the groups above.
ObjectType ==
  /\ state \in {"AwaitHello", "Ready", "Uploading", "Closing"}
  /\ closeAfterFlush \in BOOLEAN
  /\ stallTicks \in 0 .. StallTicks

UploadType == declared \in Nat /\ received \in Nat /\ lastAck \in Nat /\ fed \in Nat

QueueType ==
  /\ writes \in Seq(Replies)
  /\ flushed \in 0 .. Len(writes)
  /\ answer \in {"none", "result", "error"}

LifeType ==
  /\ owner \in {"map", "gone"}
  /\ tcp \in Handle /\ timer \in Handle
  /\ reading \in BOOLEAN
  /\ pendingClose \in 0 .. 2
  /\ armed \in {"off", "idle", "stall"}

DecoderType ==
  decoder \in [phase : {"Header", "Payload", "Complete", "Failed"},
               type : FrameTypes, arg : Nat \cup {Malformed}, left : Nat,
               streamed : BOOLEAN]

CallType == DecoderType /\ inRead \in BOOLEAN /\ readBuf \in Seq(PeerTokens)

WorldType ==
  /\ peer \in {"up", "quiet", "fin", "reset"}
  /\ ioFailures \in 0 .. MaxIoFailures
  /\ silent \in Nat

\* Every variable has its type: in particular stall_ticks_ never passes
\* kStallTicks, pending_close_ never passes the two handles, and the kernel
\* takes no frame that is not queued.
TypeOK == /\ ObjectType /\ UploadType /\ QueueType
          /\ LifeType /\ CallType /\ WorldType

\* The session object is destroyed at the close callback of its last handle
\* and at no other moment: never while a handle, a queued write or a running
\* callback still points to it, and never left in the map with nothing to
\* destroy it (TcpSession.cpp, close and on_handle_closed).
DestroyedAtLastClose ==
  /\ owner = "gone" <=> tcp = "closed" /\ timer = "closed"
  /\ tcp = "closed" => writes = << >>
  /\ inRead => tcp # "closed" /\ timer # "closed"
  /\ pendingClose = (IF tcp = "closing" THEN 1 ELSE 0)
                       + (IF timer = "closing" THEN 1 ELSE 0)

\* Whenever the loop is between callbacks, an open session that reads is
\* watched by the timer of its state: the slices of the stall watch during an
\* upload, the idle timeout otherwise, or it is about to be closed by the
\* write queue that drains (TcpSession.cpp, on_read: the timer is touched
\* after the frames have been handled).
TimerFitsState ==
  owner = "map" /\ ~inRead /\ reading =>
    /\ state = "Uploading" => armed = "stall"
    /\ state # "Uploading" => armed = "idle" \/ closeAfterFlush

\* A close that waits for the write queue waits for something: a session that
\* is to be closed when its writes are flushed has one left to flush.
FlushIsPending ==
  closeAfterFlush /\ state # "Closing" /\ tcp = "open" => writes # << >>

\* The stall watch counts silence: between callbacks, the slices counted
\* against an upload are those that passed since its last byte arrived, so an
\* upload is given up after StallTicks silent slices and not before.
StallCountsSilence ==
  state = "Uploading" /\ ~inRead /\ tcp = "open" => stallTicks = silent

\* During an upload the count of received bytes is what the line splitter
\* has been fed, within the size announced, across cancelled and repeated
\* uploads.
CountIsFed ==
  state = "Uploading" => received = fed /\ fed <= declared /\ lastAck <= fed

\* What makes the properties above inductive, in two parts.  The two handles
\* are open or not together; only an open stream is read, watched or uploaded
\* to; and an open session past its greeting, or in a callback, reads.
OpenTogether ==
  /\ tcp = "open" <=> timer = "open"
  /\ reading => tcp = "open"
  /\ armed # "off" => tcp = "open"
  /\ state = "Closing" => tcp # "open"
  /\ state = "Uploading" => tcp = "open"
  /\ tcp = "open" /\ (inRead \/ state \in {"Ready", "Uploading"}) => reading

\* A chunk being read is not complete, and an announced size was announced.
DecoderFits ==
  /\ decoder.phase = "Payload" => decoder.left > 0
  /\ decoder.type = "UPLOAD_BEGIN" => decoder.arg \in Sizes \cup {Malformed}

\* In a callback bytes have just arrived; between callbacks no frame is half
\* dispatched; and an open session has slices left.
Settled ==
  /\ DecoderFits
  /\ inRead => silent = 0
  /\ ~inRead => decoder.phase # "Complete" /\ readBuf = << >>
  /\ tcp = "open" => stallTicks < StallTicks

Inv ==
  /\ TypeOK
  /\ OpenTogether
  /\ Settled
  /\ DestroyedAtLastClose
  /\ TimerFitsState
  /\ FlushIsPending
  /\ StallCountsSilence
  /\ CountIsFed

\* The session implements the contract with its client.  It is over from the
\* moment its stream is being closed, whatever state_ says; an upload is given
\* up when the decoder fails, although state_ stays Uploading.
Phase == IF tcp # "open" THEN "over"
         ELSE IF state = "AwaitHello" THEN "greeting"
         ELSE IF state = "Uploading" /\ decoder.phase # "Failed" THEN "receiving"
         ELSE "idle"

Contract == INSTANCE UploadContract WITH
  phase  <- Phase,
  want   <- IF Phase = "receiving" THEN declared ELSE 0,
  got    <- IF Phase = "receiving" THEN fed ELSE 0,
  answer <- IF Phase \in {"idle", "receiving"} THEN answer ELSE "none"

KeepsContract == Contract!Spec

\* A session whose peer has stopped, in whatever way and at whatever moment,
\* is destroyed in the end, provided that what is queued for it drains.
Reclaimed == DrainFairness => ((peer # "up") ~> (owner = "gone"))

\* A session that is being closed is destroyed in the end, even if its peer
\* never reads again: libuv cancels the queued writes, whose callbacks find
\* the session still there (TcpSession.cpp, close, on_write, on_handle_closed).
ClosingEnds == (tcp = "closing") ~> (owner = "gone")

=============================================================================
