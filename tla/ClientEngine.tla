---------------------------- MODULE ClientEngine ----------------------------
(***************************************************************************)
(* The transfer engine of the C++ client (class TransferClient and its     *)
(* TcpSocket) and the part of the window that drives it (class App).       *)
(*                                                                         *)
(* Two threads share the engine.  The UI thread draws the window from a    *)
(* copy of the snapshot and calls connect, disconnect, start_upload and    *)
(* request_cancel when a button that the copy enables is clicked; by then  *)
(* the copy may be out of date.  The worker thread runs one session: it    *)
(* connects, greets, then waits for commands and carries out uploads.      *)
(* They meet in the command queue, the flags busy_ and cancel_ and the     *)
(* snapshot.  pc is the place in the code the worker has reached.          *)
(*                                                                         *)
(* What the client sends is a sequence of tokens, the ones of TcpSession:  *)
(* a control frame is one token, a chunk its header followed by a token    *)
(* per unit of data.  What it reads is a sequence of frames.  send_all and *)
(* recv_exactly look at the cancel flag before every call of the socket,   *)
(* so a send can end between two tokens and a read before its frame.       *)
(* A header is sent whole or not at all.  What has arrived of a frame when *)
(* its read is given up matters only while the worker waits for the answer *)
(* to CANCEL (FrameCutShort): any other read that fails ends the session.  *)
(*                                                                         *)
(* Each step is at most one section under a mutex, save that two fields of *)
(* the snapshot that no button tells apart are set in one.                 *)
(***************************************************************************)
EXTENDS Integers, Sequences, FiniteSets

CONSTANTS
  FileSizes,    \* sizes of the files that are uploaded, in units
  Chunk,        \* chunk_size, in units
  MaxCsv,       \* kMaxCsvBytes, in units
  Room,         \* tokens, and frames, that fit in the socket buffers
  MaxUploads,   \* bound: clicks on Upload
  MaxSessions   \* bound: clicks on Connect

ASSUME ClientAssumption ==
  /\ FileSizes \subseteq Nat
  /\ Chunk \in Nat \ {0}
  /\ MaxCsv \in Nat
  /\ Room \in Nat \ {0}
  /\ MaxUploads \in Nat
  /\ MaxSessions \in Nat

VARIABLES
  ui,        \* the UI thread: "frame" (between two frames), "drawn" (clickable),
             \* "push" (in start_upload), "quit", "join" and "left" (the destructor)
  view,      \* what draw() copied: which buttons can be clicked
  uploads,   \* clicks on Upload so far
  sessions,  \* clicks on Connect so far
  busy,      \* busy_
  cancel,    \* cancel_
  cmds,      \* cmds_
  snap,      \* state_ and csv_
  pc,        \* where the worker is
  job,       \* the locals of do_upload and receive_result
  out,       \* what is left of the buffer being sent
  link,      \* the connection: "none", "up", "cut" (by the server), "closed"
  toServer,  \* tokens sent and not yet read by the server
  toClient   \* frames the server has sent and the client has not read

uiVars     == <<ui, view, uploads, sessions>>
sharedVars == <<busy, cancel, cmds>>
workerVars == <<snap, pc, job, out>>
netVars    == <<link, toServer, toClient>>

vars == <<uiVars, sharedVars, workerVars, netVars>>

-----------------------------------------------------------------------------
(* Frames.                                                                 *)

Malformed == -1   \* the argument of a frame whose payload does not parse

Token(type, arg) == [type |-> type, arg |-> arg]

\* A frame from the server: arg is the size that ANALYZE_DONE or RESULT_BEGIN
\* announces, body the units of a RESULT_CHUNK.  GARBAGE is what read_frame
\* refuses: a bad magic, version or length.
Reply(type, arg, body) == [type |-> type, arg |-> arg, body |-> body]

\* The buffer of one UPLOAD_CHUNK with n units of the file of upload id.
ChunkOf(n, id) ==
  <<Token("UPLOAD_CHUNK", n)>> \o [i \in 1 .. n |-> Token("DATA", id)]

Smaller(a, b) == IF a < b THEN a ELSE b

-----------------------------------------------------------------------------
(* The snapshot.                                                           *)

Fresh == [phase |-> "Idle", connected |-> FALSE, result |-> FALSE,
          csv |-> << >>]

TransferPhases == {"Uploading", "WaitingAnalysis", "ReceivingResult"}
Transferring == snap.phase \in TransferPhases

SetPhase(p) == snap' = [snap EXCEPT !.phase = p]

NothingDrawn == [busy |-> FALSE, connected |-> FALSE, transferring |-> FALSE]
NoJob == [id |-> 0, size |-> 0, sent |-> 0, want |-> 0, body |-> << >>,
          after |-> "Connected"]

Init ==
  /\ ui = "frame" /\ view = NothingDrawn /\ uploads = 0 /\ sessions = 0
  /\ busy = FALSE /\ cancel = FALSE /\ cmds = << >>
  /\ snap = Fresh /\ pc = "none" /\ job = NoJob /\ out = << >>
  /\ link = "none" /\ toServer = << >> /\ toClient = << >>

-----------------------------------------------------------------------------
(* The UI thread.                                                          *)

\* draw() takes its copy of the snapshot and of busy_.
Draw ==
  /\ ui \in {"frame", "drawn"}
  /\ ui' = "drawn"
  /\ view' = [busy |-> busy, connected |-> snap.connected,
              transferring |-> Transferring]
  /\ UNCHANGED <<uploads, sessions, sharedVars, workerVars, netVars>>

\* One click per frame: the next one needs another draw().
Click(next) ==
  /\ ui = "drawn"
  /\ ui' = next
  /\ view' = NothingDrawn

\* connect(): the thread of an ended session is joined, everything the threads
\* share is reset and a new worker is started.
ClickConnect ==
  /\ Click("frame")
  /\ ~view.busy /\ ~busy
  /\ pc \in {"none", "ended"}
  /\ sessions < MaxSessions
  /\ sessions' = sessions + 1
  /\ busy' = TRUE /\ cancel' = FALSE /\ cmds' = << >>
  /\ snap' = Fresh /\ pc' = "start"
  /\ link' = "none" /\ toServer' = << >> /\ toClient' = << >>
  /\ UNCHANGED <<uploads, job, out>>

\* A faulty disconnect(): it queues behind the uploads that wait.
DisconnectLast == cmds' = Append(cmds, "Disconnect")

\* disconnect(): it goes before the uploads that wait.
Disconnect == cmds' = <<"Disconnect">>

ClickDisconnect ==
  /\ Click("frame")
  /\ view.busy /\ view.connected /\ ~view.transferring
  /\ Disconnect
  /\ UNCHANGED <<uploads, sessions, busy, cancel, workerVars, netVars>>

\* The first half of start_upload: a cancel meant for an earlier upload is
\* withdrawn.
ClickUpload ==
  /\ Click("push")
  /\ view.connected /\ ~view.transferring
  /\ uploads < MaxUploads
  /\ uploads' = uploads + 1
  /\ cancel' = FALSE
  /\ UNCHANGED <<sessions, busy, cmds, workerVars, netVars>>

\* The second half: the command is queued.
PushUpload ==
  /\ ui = "push"
  /\ ui' = "frame"
  /\ cmds' = Append(cmds, "Upload")
  /\ UNCHANGED <<view, uploads, sessions, busy, cancel, workerVars, netVars>>

\* request_cancel()
ClickCancel ==
  /\ Click("frame")
  /\ view.transferring
  /\ cancel' = TRUE
  /\ UNCHANGED <<uploads, sessions, busy, cmds, workerVars, netVars>>

\* A faulty destructor: it disconnects and does not cancel.
ForgetsCancel == UNCHANGED cancel

\* The destructor cancels what is running.
RequestCancel == cancel' = TRUE

\* The window is closed: the destructor cancels, then disconnects, then joins.
Quit ==
  /\ ui \in {"frame", "drawn"}
  /\ ui' = "quit"
  /\ view' = NothingDrawn
  /\ RequestCancel
  /\ UNCHANGED <<uploads, sessions, busy, cmds, workerVars, netVars>>

QuitDisconnect ==
  /\ ui = "quit"
  /\ ui' = "join"
  /\ Disconnect
  /\ UNCHANGED <<view, uploads, sessions, busy, cancel, workerVars, netVars>>

Joined ==
  /\ ui = "join"
  /\ pc \in {"none", "ended"}
  /\ ui' = "left"
  /\ UNCHANGED <<view, uploads, sessions, sharedVars, workerVars, netVars>>

UI == \/ Draw \/ ClickConnect \/ ClickDisconnect
      \/ ClickUpload \/ PushUpload \/ ClickCancel \/ Quit

Destructor == QuitDisconnect \/ Joined

-----------------------------------------------------------------------------
(* The worker: a session begins and ends.                                  *)

\* Most steps of the worker leave the queue, the flags and the UI alone.
Worker(at) == pc = at /\ UNCHANGED <<uiVars, sharedVars>>

\* fail(), and the way out of the session: one that did not get as far as the
\* command loop leaves its socket to the destructor.
Fail ==
  /\ snap' = [snap EXCEPT !.phase = "Failed", !.connected = FALSE]
  /\ pc' = IF snap.connected THEN "close" ELSE "last"
  /\ out' = << >>

Start ==
  /\ Worker("start")
  /\ SetPhase("Connecting")
  /\ pc' = "connect"
  /\ UNCHANGED <<job, out, netVars>>

\* TcpSocket::connect succeeds; the worker greets the server.
Connected ==
  /\ Worker("connect")
  /\ link' = "up"
  /\ SetPhase("Handshaking")
  /\ out' = <<Token("HELLO", 0)>>
  /\ pc' = "hello"
  /\ UNCHANGED <<job, toServer, toClient>>

\* No address, none that answers in time, or a cancel.
ConnectFails ==
  /\ Worker("connect")
  /\ Fail
  /\ UNCHANGED <<job, netVars>>

\* The command loop is over.
CloseSocket ==
  /\ Worker("close")
  /\ link' = "closed"
  /\ toClient' = << >>
  /\ pc' = "closed"
  /\ UNCHANGED <<snap, job, out, toServer>>

ShowClosed ==
  /\ Worker("closed")
  /\ snap' = [snap EXCEPT !.connected = FALSE,
                          !.phase = IF @ = "Failed" THEN @ ELSE "Idle"]
  /\ pc' = "last"
  /\ UNCHANGED <<job, out, netVars>>

EndSession ==
  /\ pc = "last"
  /\ busy' = FALSE
  /\ pc' = "leave"
  /\ UNCHANGED <<uiVars, cancel, cmds, snap, job, out, netVars>>

\* run_session returns: the destructor closes a socket that is still open.
DestroySocket ==
  /\ Worker("leave")
  /\ link' = IF link = "none" THEN "none" ELSE "closed"
  /\ toClient' = << >>
  /\ pc' = "ended"
  /\ UNCHANGED <<snap, job, out, toServer>>

-----------------------------------------------------------------------------
(* The worker sends: TcpSocket::send_all.                                  *)

Senders == {"hello", "begin", "chunk", "end", "cancel", "bye"}

\* BYE and CANCEL are sent whatever the cancel flag says.
NeverCancel == {"cancel", "bye"}

AfterSend == [hello |-> "helloAck", begin |-> "beginAck", chunk |-> "drain",
              end |-> "await", cancel |-> "cancelAck", bye |-> "close"]

\* send_cancel_and_wait begins; in the end the upload is reported as after.
CancelUpload(after) ==
  /\ out' = <<Token("CANCEL", 0)>>
  /\ job' = [job EXCEPT !.after = after]
  /\ pc' = "cancel"
  /\ UNCHANGED snap

\* A faulty end of send_cancel_and_wait: the phase is left as it was.
CancelOverUnseen ==
  /\ UNCHANGED <<snap, job>>
  /\ pc' = "idle"
  /\ out' = << >>

\* send_cancel_and_wait returns, however the server answered.
CancelOver ==
  /\ SetPhase(job.after)
  /\ pc' = "idle"
  /\ out' = << >>
  /\ UNCHANGED job

\* send() takes the next token.  A connection the server has closed may still
\* take it, and lose it.
SendToken ==
  /\ pc \in Senders /\ Worker(pc)
  /\ out # << >>
  /\ cancel => pc \in NeverCancel
  /\ \/ link = "up" /\ Len(toServer) < Room /\ toServer' = Append(toServer, Head(out))
     \/ link = "cut" /\ UNCHANGED toServer
  /\ out' = Tail(out)
  /\ pc' = IF Len(out) = 1 THEN AfterSend[pc] ELSE pc
  /\ job' = [job EXCEPT !.sent = IF Head(out).type = "DATA" THEN @ + 1 ELSE @]
  /\ IF pc = "end" THEN SetPhase("WaitingAnalysis") ELSE UNCHANGED snap
  /\ UNCHANGED <<link, toClient>>

\* What each caller makes of a send_all that returns false: a chunk that was
\* cancelled is followed by CANCEL, BYE and CANCEL may fail, any other frame
\* must be sent.
SendFails ==
  \/ pc = "chunk" /\ cancel /\ CancelUpload("Cancelled")
  \/ pc = "cancel" /\ CancelOver
  \/ pc = "bye" /\ pc' = "close" /\ out' = << >> /\ UNCHANGED <<snap, job>>
  \/ /\ pc = "chunk" => ~cancel
     /\ pc \notin NeverCancel
     /\ Fail
     /\ UNCHANGED job

\* The cancel flag is up, or the connection is gone.
SendLost ==
  /\ pc \in Senders /\ Worker(pc)
  /\ out # << >>
  /\ link = "cut" \/ (cancel /\ pc \notin NeverCancel)
  /\ SendFails
  /\ UNCHANGED netVars

-----------------------------------------------------------------------------
(* The worker reads: read_frame over TcpSocket::recv_exactly.              *)

\* A faulty wait for ANALYZE_DONE: no acknowledgement may come any more.
WantedNoAck ==
  [helloAck |-> {"HELLO_ACK"}, beginAck |-> {"UPLOAD_BEGIN_ACK"},
   awaitRead |-> {"ANALYZE_DONE"},
   result |-> {"RESULT_BEGIN"}, body |-> {"RESULT_CHUNK", "RESULT_END"}]

\* The frames each read goes on with; idle and while it sends chunks the
\* worker takes whatever is there except an ERROR.
Wanted == [helloAck |-> {"HELLO_ACK"}, beginAck |-> {"UPLOAD_BEGIN_ACK"},
           awaitRead |-> {"UPLOAD_ACK", "ANALYZE_DONE"},
           result |-> {"RESULT_BEGIN"}, body |-> {"RESULT_CHUNK", "RESULT_END"}]

Waiting == DOMAIN Wanted          \* these reads wait for a frame
Polled  == {"drain", "idleRead"}  \* these begin when readable_now() says so

\* The worker would go on with frame f.  A payload that does not parse is
\* refused where its fields are used; a result must fit what was announced.
Accepts(f) ==
  /\ f.type \notin {"ERROR", "GARBAGE"}
  /\ pc \in Waiting =>
       /\ f.type \in Wanted[pc]
       /\ f.arg = Malformed => f.type \in {"UPLOAD_ACK", "RESULT_CHUNK", "RESULT_END"}
       /\ f.type = "RESULT_BEGIN" => f.arg <= MaxCsv
       /\ f.type = "RESULT_CHUNK" => Len(job.body \o f.body) <= job.want
       /\ f.type = "RESULT_END" => Len(job.body) = job.want

\* A faulty recv_exactly: it looks at the flag only when nothing is there.
ReadsRegardless(at, f) ==
  /\ Worker(at)
  /\ toClient # << >> /\ f = Head(toClient)
  /\ toClient' = Tail(toClient)
  /\ UNCHANGED <<link, toServer>>

\* A read of the worker finds frame f, and the cancel flag down.
Reads(at, f) ==
  /\ Worker(at)
  /\ ~cancel
  /\ toClient # << >> /\ f = Head(toClient)
  /\ toClient' = Tail(toClient)
  /\ UNCHANGED <<link, toServer>>

\* It is one the worker goes on with.
Takes(at, f) == Reads(at, f) /\ Accepts(f) /\ UNCHANGED out

\* The cancel flag is up, or there is nothing more to read.
ReadLost ==
  /\ pc \in Waiting \cup Polled /\ Worker(pc)
  /\ \/ link = "cut" /\ toClient = << >>
     \/ cancel /\ (pc \in Polled => toClient # << >>)
  /\ Fail
  /\ UNCHANGED <<job, netVars>>

ReadRefused ==
  \E f \in {toClient[i] : i \in DOMAIN toClient} :
    /\ pc \in Waiting \cup Polled /\ Reads(pc, f)
    /\ ~Accepts(f)
    /\ Fail
    /\ UNCHANGED job

\* The deadline for the answer to CANCEL passes inside a frame: what comes of it
\* later is no frame.
FrameCutShort ==
  /\ toClient # << >>
  /\ toClient' = <<Reply("GARBAGE", 0, << >>)>> \o Tail(toClient)
  /\ UNCHANGED <<link, toServer>>

\* No progress for as long as the worker is willing to wait: 5 s for the
\* connection, 20 s for room to send, 120 s (5 s in the middle of a frame it
\* did not wait for) for a frame, 5 s for the answer to CANCEL.
TimeOut ==
  \/ /\ pc \in Senders /\ Worker(pc)
     /\ out # << >> /\ link = "up" /\ Len(toServer) >= Room
     /\ SendFails
     /\ UNCHANGED netVars
  \/ /\ pc \in Waiting \cup Polled /\ Worker(pc)
     /\ pc \in Polled => toClient # << >>
     /\ Fail
     /\ UNCHANGED <<job, netVars>>
  \/ /\ Worker("cancelAck")
     /\ CancelOver
     /\ UNCHANGED netVars \/ FrameCutShort

-----------------------------------------------------------------------------
(* The command loop of run_session.                                        *)

\* handshake() succeeds.
TakeHelloAck ==
  \E f \in {toClient[i] : i \in DOMAIN toClient} :
    /\ Takes("helloAck", f)
    /\ snap' = [snap EXCEPT !.connected = TRUE, !.phase = "Connected"]
    /\ pc' = "idle"
    /\ UNCHANGED job

\* A command is taken off the queue.
Command(kind) ==
  /\ pc = "idle"
  /\ cmds # << >> /\ Head(cmds) = kind
  /\ cmds' = Tail(cmds)
  /\ UNCHANGED <<uiVars, busy, cancel, netVars>>

TakeDisconnect ==
  /\ Command("Disconnect")
  /\ out' = <<Token("BYE", 0)>>
  /\ pc' = "bye"
  /\ UNCHANGED <<snap, job>>

\* A faulty start of do_upload: what the last upload left stays.
KeepsResult == SetPhase("Idle")

\* do_upload forgets the last upload and keeps the connection.
ForgetResult == snap' = [Fresh EXCEPT !.connected = snap.connected]

\* A faulty worker: it lowers the cancel flag for the upload it takes.
TakeUploadClears ==
  /\ pc = "idle" /\ cmds # << >> /\ Head(cmds) = "Upload"
  /\ cmds' = Tail(cmds)
  /\ cancel' = FALSE
  /\ ForgetResult
  /\ pc' = "file"
  /\ UNCHANGED <<uiVars, busy, job, out, netVars>>

TakeUpload ==
  /\ Command("Upload")
  /\ ForgetResult
  /\ pc' = "file"
  /\ UNCHANGED <<job, out>>

\* Nothing to do for a slice, and the socket has something: read it all.
IdleSlice ==
  /\ Worker("idle")
  /\ cmds = << >>
  /\ toClient # << >> \/ link = "cut"
  /\ pc' = "idleRead"
  /\ UNCHANGED <<snap, job, out, netVars>>

TakeIdle ==
  \E f \in {toClient[i] : i \in DOMAIN toClient} :
    Takes("idleRead", f) /\ UNCHANGED <<snap, pc, job>>

IdleDone ==
  /\ Worker("idleRead")
  /\ toClient = << >> /\ link # "cut"
  /\ pc' = "idle"
  /\ UNCHANGED <<snap, job, out, netVars>>

-----------------------------------------------------------------------------
(* do_upload.                                                              *)

\* The file has no size: nothing is sent.
FileMissing ==
  /\ Worker("file")
  /\ SetPhase("Connected")
  /\ pc' = "idle"
  /\ UNCHANGED <<job, out, netVars>>

BeginUpload ==
  /\ Worker("file")
  /\ \E size \in FileSizes :
       /\ job' = [NoJob EXCEPT !.id = job.id + 1, !.size = size]
       /\ out' = <<Token("UPLOAD_BEGIN", size)>>
  /\ pc' = "begin"
  /\ UNCHANGED <<snap, netVars>>

TakeBeginAck ==
  \E f \in {toClient[i] : i \in DOMAIN toClient} :
    /\ Takes("beginAck", f)
    /\ SetPhase("Uploading")
    /\ pc' = "open"
    /\ UNCHANGED job

\* The file cannot be opened: the connection is given up.
OpenFails ==
  /\ Worker("open")
  /\ Fail
  /\ UNCHANGED <<job, netVars>>

OpenFile ==
  /\ Worker("open")
  /\ pc' = "loop"
  /\ UNCHANGED <<snap, job, out, netVars>>

\* The cancel flag is looked at before a chunk and before a wait.
CancelSeen ==
  /\ pc \in {"loop", "await"} /\ Worker(pc)
  /\ cancel
  /\ CancelUpload("Cancelled")
  /\ UNCHANGED netVars

\* A faulty loop that reads a file to its end, which is farther if it has grown.
SendGrown ==
  /\ Worker("loop") /\ ~cancel
  /\ out' = ChunkOf(Chunk, job.id)
  /\ pc' = "chunk"
  /\ UNCHANGED <<snap, job, netVars>>

\* The next chunk.  No more than the size announced is read, even if the file
\* has grown; a file that has shrunk ends between two chunks.
SendChunk ==
  /\ Worker("loop") /\ ~cancel
  /\ job.sent < job.size
  /\ out' = ChunkOf(Smaller(Chunk, job.size - job.sent), job.id)
  /\ pc' = "chunk"
  /\ UNCHANGED <<snap, job, netVars>>

\* The file has shrunk or cannot be read: the upload is taken back and the
\* connection kept.
FileEnds ==
  /\ Worker("loop") /\ ~cancel
  /\ job.sent < job.size
  /\ CancelUpload("Connected")
  /\ UNCHANGED netVars

\* The acknowledgements that have arrived are read between two chunks.
TakeAck ==
  \E f \in {toClient[i] : i \in DOMAIN toClient} :
    Takes("drain", f) /\ UNCHANGED <<snap, pc, job>>

DrainDone ==
  /\ Worker("drain")
  /\ toClient = << >> /\ link # "cut"
  /\ pc' = "loop"
  /\ UNCHANGED <<snap, job, out, netVars>>

FileSent ==
  /\ Worker("loop") /\ ~cancel
  /\ job.sent = job.size
  /\ out' = <<Token("UPLOAD_END", job.sent)>>
  /\ pc' = "end"
  /\ UNCHANGED <<snap, job, netVars>>

Await ==
  /\ Worker("await") /\ ~cancel
  /\ pc' = "awaitRead"
  /\ UNCHANGED <<snap, job, out, netVars>>

TakeAwaited ==
  \E f \in {toClient[i] : i \in DOMAIN toClient} :
    /\ Takes("awaitRead", f)
    /\ \/ /\ f.type = "UPLOAD_ACK"
          /\ pc' = "await"
          /\ UNCHANGED <<snap, job>>
       \/ /\ f.type = "ANALYZE_DONE"
          /\ snap' = [snap EXCEPT !.result = TRUE, !.phase = "ReceivingResult"]
          /\ job' = [job EXCEPT !.want = f.arg]
          /\ pc' = "result"

\* receive_result: the size ANALYZE_DONE announced is too large.
ResultTooLarge ==
  /\ Worker("result")
  /\ job.want > MaxCsv
  /\ Fail
  /\ UNCHANGED <<job, netVars>>

TakeResultBegin ==
  \E f \in {toClient[i] : i \in DOMAIN toClient} :
    /\ job.want <= MaxCsv
    /\ Takes("result", f)
    /\ job' = [job EXCEPT !.want = f.arg]
    /\ pc' = "body"
    /\ UNCHANGED snap

\* The result is kept when all of it has come.
TakeResult ==
  \E f \in {toClient[i] : i \in DOMAIN toClient} :
    /\ Takes("body", f)
    /\ \/ /\ f.type = "RESULT_CHUNK"
          /\ job' = [job EXCEPT !.body = @ \o f.body]
          /\ UNCHANGED <<snap, pc>>
       \/ /\ f.type = "RESULT_END"
          /\ snap' = [snap EXCEPT !.csv = job.body]
          /\ pc' = "kept"
          /\ UNCHANGED job

UploadDone ==
  /\ Worker("kept")
  /\ SetPhase("Done")
  /\ pc' = "idle"
  /\ UNCHANGED <<job, out, netVars>>

\* While it waits for the answer to CANCEL the worker ignores the cancel flag
\* and every frame but an ERROR and those it cannot make out (a version that is
\* not the protocol's is not looked at here).
TakeWhileCancelling ==
  /\ Worker("cancelAck")
  /\ toClient # << >>
  /\ toClient' = Tail(toClient)
  /\ \/ Head(toClient).type \in {"ERROR", "GARBAGE"} /\ CancelOver
     \/ Head(toClient).type # "ERROR" /\ UNCHANGED workerVars
  /\ UNCHANGED <<link, toServer>>

\* The server closes the connection instead of answering.
CancelUnanswered ==
  /\ Worker("cancelAck")
  /\ link = "cut" /\ toClient = << >>
  /\ CancelOver
  /\ UNCHANGED netVars

Session == \/ Start \/ Connected \/ ConnectFails
           \/ CloseSocket \/ ShowClosed \/ EndSession \/ DestroySocket
           \/ TakeHelloAck \/ TakeDisconnect \/ TakeUpload
           \/ IdleSlice \/ TakeIdle \/ IdleDone

Upload == \/ FileMissing \/ BeginUpload \/ TakeBeginAck \/ OpenFails \/ OpenFile
          \/ CancelSeen \/ SendChunk \/ FileEnds \/ TakeAck \/ DrainDone
          \/ FileSent \/ Await \/ TakeAwaited
          \/ ResultTooLarge \/ TakeResultBegin \/ TakeResult \/ UploadDone
          \/ TakeWhileCancelling \/ CancelUnanswered

\* What the worker does without waiting for a deadline.
Work == Session \/ Upload \/ SendToken \/ SendLost \/ ReadLost \/ ReadRefused

Client == UI \/ Destructor \/ Work \/ TimeOut

-----------------------------------------------------------------------------
(* A server that may do anything, at any pace.                             *)

ReplyTypes == {"HELLO_ACK", "UPLOAD_BEGIN_ACK", "UPLOAD_ACK", "ANALYZE_DONE",
               "RESULT_BEGIN", "RESULT_END", "ERROR", "GARBAGE"}

AnyReply ==
  {Reply(t, 0, << >>) : t \in ReplyTypes}
    \cup {Reply(t, a, << >>) : t \in {"ANALYZE_DONE", "RESULT_BEGIN"},
                               a \in {1, MaxCsv + 1}}
    \cup {Reply("HELLO_ACK", Malformed, << >>), Reply("RESULT_CHUNK", 0, <<"row">>)}

ServerSends ==
  /\ link = "up" /\ Len(toClient) < Room
  /\ \E f \in AnyReply : toClient' = Append(toClient, f)
  /\ UNCHANGED <<uiVars, sharedVars, workerVars, link, toServer>>

ServerReads ==
  /\ link # "none" /\ toServer # << >>
  /\ toServer' = Tail(toServer)
  /\ UNCHANGED <<uiVars, sharedVars, workerVars, link, toClient>>

\* It closes the connection; what it has not read is gone.
ServerCloses ==
  /\ link = "up"
  /\ link' = "cut"
  /\ toServer' = << >>
  /\ UNCHANGED <<uiVars, sharedVars, workerVars, toClient>>

\* A reset takes what the client has not read.
LoseReplies ==
  /\ link = "cut" /\ toClient # << >>
  /\ toClient' = << >>
  /\ UNCHANGED <<uiVars, sharedVars, workerVars, link, toServer>>

AnyServer == ServerSends \/ ServerReads \/ ServerCloses \/ LoseReplies

Next == Client \/ AnyServer

\* The threads are scheduled and deadlines pass; the user clicks when he likes,
\* and a destructor that has begun goes on.
ClientFairness ==
  /\ WF_vars(Work)
  /\ WF_vars(TimeOut)
  /\ WF_vars(PushUpload \/ Destructor)

Spec == Init /\ [][Next]_vars /\ ClientFairness

-----------------------------------------------------------------------------
(* Properties.                                                             *)

Places == {"none", "start", "connect", "idle", "file", "open", "loop", "await",
           "kept", "cancelAck", "close", "closed", "last", "leave", "ended"}
            \cup Senders \cup Waiting \cup Polled

\* Every variable has its type; the queue of commands never holds more than
\* the uploads and one disconnect.
TypeOK ==
  /\ ui \in {"frame", "drawn", "push", "quit", "join", "left"}
  /\ view \in [busy : BOOLEAN, connected : BOOLEAN, transferring : BOOLEAN]
  /\ uploads \in 0 .. MaxUploads /\ sessions \in 0 .. MaxSessions
  /\ busy \in BOOLEAN /\ cancel \in BOOLEAN
  /\ Len(cmds) <= MaxUploads + 1
  /\ \A i \in DOMAIN cmds : cmds[i] \in {"Upload", "Disconnect"}
  /\ snap.phase \in TransferPhases \cup
       {"Idle", "Connecting", "Handshaking", "Connected", "Done", "Cancelled",
        "Failed"}
  /\ snap.connected \in BOOLEAN /\ snap.result \in BOOLEAN
  /\ pc \in Places
  /\ job.sent \in 0 .. job.size
  /\ link \in {"none", "up", "cut", "closed"}
  /\ Len(toServer) <= Room /\ Len(toClient) <= Room

\* The window can always be used.  When Connect is there no connection is shown,
\* and the socket of the session before it has been closed; a connection is
\* shown only while the worker has one, or has just closed it; and a worker
\* that waits for commands never shows a transfer, which would leave the user
\* a Cancel nobody looks at and no Disconnect (Transfer.cpp, run_session;
\* App.cpp, draw_server_section and draw_transfer_section).
WindowUsable ==
  /\ ~busy => ~snap.connected /\ snap.phase \in {"Idle", "Failed"}
  /\ pc \in {"none", "start", "ended"} => link \in {"none", "closed"}
  /\ snap.connected => link \in {"up", "cut"} \/ pc = "closed"
  /\ pc \in {"idle", "idleRead"} => snap.connected /\ ~Transferring

\* There is a result to save only after an upload that succeeded, the last one
\* made: never a part of one, nor one left over by an earlier upload
\* (Transfer.h, csv_size; Transfer.cpp, do_upload and receive_result).
ResultIsWhole ==
  snap.csv # << >> => /\ snap.phase = "ReceivingResult" => pc = "kept"
                      /\ snap.phase \notin {"Uploading", "WaitingAnalysis", "Cancelled"}
                      /\ snap.result
                      /\ Len(snap.csv) = job.want

\* A cancel is never lost: the flag goes down at a click, never because the
\* worker takes a command, and never while a transfer is under way, whatever
\* out of date window was clicked (Transfer.cpp, start_upload: lowered when the
\* command is taken, it would lose the cancel clicked after the upload was).
CancelNeverLost ==
  [][cancel /\ ~cancel' => ~Transferring /\ pc' \in {pc, "start"}]_vars

\* Once the user has asked to disconnect no upload that was waiting begins
\* (Transfer.cpp, disconnect).
DisconnectFirst ==
  [][(\E i \in DOMAIN cmds : cmds[i] = "Disconnect") => ~(pc = "idle" /\ pc' = "file")]_vars

\* Closing the window ends the program, whatever the server does: the join of
\* the destructor never waits for a worker that does not come back.
QuitEnds == (ui = "quit") ~> (ui = "left")

\* A cancel ends the transfer it is meant for, whatever the server does.
CancelEnds == (cancel /\ Transferring) ~> ~Transferring

=============================================================================
