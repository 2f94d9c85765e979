---------------------------- MODULE ClientServer ----------------------------
(***************************************************************************)
(* The C++ client and one session of the server, joined by a connection:   *)
(* ClientEngine, whose server was anything, is given the TcpSession, whose *)
(* peer was anything.  Tokens and frames arrive in order.  The two ends    *)
(* close separately: what one has sent may be lost when the other closes,  *)
(* and each learns of the other's close later.                             *)
(*                                                                         *)
(* Every deadline, on both sides, may pass at any moment: an answer may    *)
(* always come too late.  trouble records that something other than the    *)
(* two programs has got in the way.                                        *)
(*                                                                         *)
(* A read callback of the session touches nothing the client can see, so   *)
(* its steps (Handles) are taken one after the other: what the client does *)
(* in between could as well be done before or after.  The client leaves by *)
(* BYE or by failing; closing its window is checked with ClientEngine.     *)
(***************************************************************************)
EXTENDS TcpSession

CONSTANTS FileSizes, Chunk, MaxCsv, Room, MaxUploads, MaxSessions

VARIABLES
  ui, view, uploads, sessions, busy, cancel, cmds, snap, pc, job, out,
  link, toServer, toClient,   \* those of ClientEngine
  content,   \* history: the tokens the LineSplitter got since its reset
  results,   \* what the results not yet transmitted were computed from
  heard,     \* history: "torn" if a CANCEL was sent inside a chunk, "unsent" if
             \* one was not sent
  trouble    \* history: a cancel, a local file or a deadline

C == INSTANCE ClientEngine

ASSUME SystemAssumption == C!ClientAssumption

sessionVars == vars
clientVars  == <<ui, view, uploads, sessions, busy, cancel, cmds, snap, pc, job,
                 out, link>>
netVars     == <<toServer, toClient>>
historyVars == <<content, results, heard, trouble>>
allVars     == <<sessionVars, clientVars, netVars, historyVars>>

-----------------------------------------------------------------------------
(* The client's steps.                                                     *)

\* The worker gives up a chunk of which some, not all, is sent, so that CANCEL
\* goes out inside it; or it gives up sending CANCEL.
Heard == IF pc = "chunk" /\ pc' = "cancel" /\ Head(out).type = "DATA" THEN "torn"
         ELSE IF pc = "cancel" /\ pc' = "idle" THEN "unsent"
         ELSE heard

ClientStep(A) ==
  /\ ~inRead
  /\ A
  /\ heard' = Heard
  /\ UNCHANGED <<sessionVars, content, results>>

\* Every connection has a session of its own: the one before has nobody left to
\* answer to.  (What precedes Init' is implied by it, and gives TLC the values.)
NewSession ==
  /\ state' \in {"AwaitHello", "Closing"} /\ reading' \in BOOLEAN
  /\ armed' \in {"off", "idle"} /\ closeAfterFlush' \in BOOLEAN
  /\ writes' \in {<< >>, <<Error("ServerBusy")>>} /\ answer' = "none"
  /\ tcp' \in {"open", "closing"} /\ timer' = tcp' /\ pendingClose' \in {0, 2}
  /\ owner' = "map" /\ stallTicks' = 0 /\ decoder' = NoFrame /\ flushed' = 0
  /\ declared' = 0 /\ received' = 0 /\ lastAck' = 0 /\ fed' = 0
  /\ inRead' = FALSE /\ readBuf' = << >> /\ silent' = 0
  /\ peer' = "up" /\ ioFailures' = MaxIoFailures
  /\ Init'

ClientConnects ==
  /\ ~inRead
  /\ C!ClickConnect
  /\ NewSession
  /\ content' = << >> /\ results' = << >> /\ heard' = "yes"
  /\ UNCHANGED trouble

\* The user lets it run.
ClientRuns ==
  /\ ClientStep(C!Draw \/ C!ClickDisconnect \/ C!ClickUpload \/ C!PushUpload)
  /\ UNCHANGED trouble

\* The worker goes on, and its files are what they were.
Healthy == C!Work /\ ~(C!ConnectFails \/ C!FileMissing \/ C!OpenFails \/ C!FileEnds)

ClientWorks == ClientStep(Healthy) /\ UNCHANGED trouble

\* The user stops it, a file is not there or shrinks, a deadline passes.
ClientTroubled ==
  /\ ClientStep(\/ C!ClickCancel \/ C!ConnectFails \/ C!FileMissing
                \/ C!OpenFails \/ C!FileEnds \/ C!TimeOut)
  /\ trouble' = TRUE

-----------------------------------------------------------------------------
(* The session's steps.  There is a session from the moment the client      *)
(* connects; once either end has closed its socket the two no longer meet. *)

SessionStep(A) ==
  /\ link = "up"
  /\ A
  /\ UNCHANGED <<clientVars, heard>>

\* The frames of a read are handled; the history follows the LineSplitter and
\* the results.
Handles ==
  /\ SessionStep(Callback)
  /\ content' = IF fed' > fed THEN content \o TakeFirst(fed' - fed, readBuf)
                ELSE IF fed' = 0 THEN << >> ELSE content
  /\ results' = IF writes' = writes \o Result THEN Append(results, content)
                ELSE results
  /\ UNCHANGED <<netVars, trouble>>

\* The next read takes a part of what the client has sent.
Deliver ==
  /\ toServer # << >>
  /\ \E n \in 1 .. C!Smaller(MaxBatch, Len(toServer)) :
       /\ SessionStep(OnRead(TakeFirst(n, toServer)))
       /\ toServer' = DropFirst(n, toServer)
  /\ UNCHANGED <<toClient, content, results, trouble>>

\* What the client reads of a frame: a result is one unit, which stands for
\* what it was computed from.
AsReply(frame) ==
  IF frame.type = "RESULT_CHUNK" THEN C!Reply(frame.type, 0, <<Head(results)>>)
  ELSE IF frame.type \in {"ANALYZE_DONE", "RESULT_BEGIN"}
       THEN C!Reply(frame.type, 1, << >>)
  ELSE C!Reply(frame.type, 0, << >>)

\* The kernel takes a frame when there is room for it on the way, and the one
\* before has had its on_write.
TransmitReply ==
  /\ ~inRead /\ flushed = 0
  /\ SessionStep(Transmit)
  /\ Len(toClient) < Room
  /\ LET frame == writes[flushed + 1]
     IN /\ toClient' = Append(toClient, AsReply(frame))
        /\ results' = IF frame.type = "RESULT_CHUNK" THEN Tail(results) ELSE results
  /\ UNCHANGED <<toServer, content, trouble>>

Written ==
  /\ SessionStep(OnWriteDone)
  /\ UNCHANGED <<netVars, content, results, trouble>>

\* The server's timer fires.
SessionTroubled ==
  /\ SessionStep(OnIdleTimeout)
  /\ trouble' = TRUE
  /\ UNCHANGED <<netVars, content, results>>

-----------------------------------------------------------------------------
(* The connection.                                                         *)

\* The server has closed its socket: what it has not read is gone.
ClosedByServer ==
  /\ tcp # "open" /\ link = "up"
  /\ link' = "cut"
  /\ toServer' = << >>
  /\ UNCHANGED <<sessionVars, ui, view, uploads, sessions, busy, cancel, cmds,
                 snap, pc, job, out, toClient, historyVars>>

\* A server that closes with bytes unread resets the connection, which takes
\* with it what the client has not read.
ResetByServer == C!LoseReplies /\ UNCHANGED <<sessionVars, historyVars>>

Connection == ~inRead /\ (ClosedByServer \/ ResetByServer)

-----------------------------------------------------------------------------

SystemInit ==
  /\ Init /\ C!Init
  /\ content = << >> /\ results = << >> /\ heard = "yes" /\ trouble = FALSE

SystemNext ==
  \/ ClientConnects \/ ClientRuns \/ ClientWorks \/ ClientTroubled
  \/ Handles \/ Deliver \/ TransmitReply \/ Written \/ SessionTroubled
  \/ Connection

\* The worker thread, the loop and the network go on; no deadline has to pass.
SystemFairness ==
  /\ WF_allVars(ClientWorks)
  /\ WF_allVars(Handles) /\ WF_allVars(Deliver)
  /\ WF_allVars(TransmitReply) /\ WF_allVars(Written)

SystemSpec == SystemInit /\ [][SystemNext]_allVars /\ SystemFairness

-----------------------------------------------------------------------------
(* Properties.                                                             *)

\* The bytes of the file of the upload under way.
OwnFile == [i \in 1 .. job.size |-> Token("DATA", job.id)]

\* A client that shows an upload as done has the result of exactly the file it
\* sent: nothing of an upload that was cancelled before, no frame taken for
\* data, no result meant for another upload, however late the answers came
\* (Transfer.cpp, do_upload; TcpSession.cpp, handle_upload_begin, abort_upload).
ResultIsOwn == snap.phase = "Done" => snap.csv = <<OwnFile>>

\* Everything that was sent has been read and handled, on both sides.
NothingUnderWay ==
  /\ link = "up" /\ tcp = "open"
  /\ toServer = << >> /\ toClient = << >>
  /\ ~inRead /\ flushed = Len(writes)

\* The upload was cancelled and the dust has settled.
CancelSettled == snap.phase = "Cancelled" /\ pc = "idle" /\ NothingUnderWay

\* A cancelled upload leaves the session ready for the next one, even if its
\* answer came after the client had stopped waiting for it, provided that the
\* CANCEL was sent, and between two frames (Transfer.cpp, do_upload and
\* send_cancel_and_wait; TcpSession.cpp, abort_upload).
HeardCancelReturnsToReady == CancelSettled /\ heard = "yes" => state = "Ready"

\* Neither side waits for the other for ever: with nothing but the two programs
\* at work, an upload that has begun ends with its result.
UploadCompletes ==
  (snap.phase = "Uploading" /\ ~trouble) ~> (snap.phase = "Done" \/ trouble)

\* do_upload: the cancel is looked at before any I/O and at that place only, and
\* after it "the server returns the session to Ready" (Transfer.cpp:593-598).
CancelledIsReady == CancelSettled /\ heard # "unsent" => state = "Ready"

=============================================================================
