--------------------------- MODULE ClientEngine_proofs ---------------------------
(***************************************************************************)
(* The two threads of the C++ client against any server, for files of any  *)
(* size, chunks, results and buffers of any length, and any number of      *)
(* uploads and sessions.                                                   *)
(***************************************************************************)
EXTENDS ClientEngine, SequenceTheorems, TLAPS

Phases == TransferPhases \cup {"Idle", "Connecting", "Handshaking", "Connected",
                               "Done", "Cancelled", "Failed"}

Snapshots == [phase : Phases, connected : BOOLEAN, result : BOOLEAN, csv : Seq({"row"})]

Jobs == [id : Nat, size : Nat, sent : Nat, want : Int, body : Seq({"row"}),
         after : {"Cancelled", "Connected"}]

Tokens == [type : {"HELLO", "UPLOAD_BEGIN", "UPLOAD_CHUNK", "DATA", "UPLOAD_END",
                   "CANCEL", "BYE"},
           arg : Int]

Views == [busy : BOOLEAN, connected : BOOLEAN, transferring : BOOLEAN]

-----------------------------------------------------------------------------
(* The inductive invariant.                                                *)

UITypes ==
  /\ ui \in {"frame", "drawn", "push", "quit", "join", "left"}
  /\ view \in Views
  /\ uploads \in 0 .. MaxUploads /\ sessions \in 0 .. MaxSessions

NetTypes ==
  /\ link \in {"none", "up", "cut", "closed"}
  /\ toServer \in Seq(Tokens) /\ Len(toServer) <= Room
  /\ toClient \in Seq(AnyReply) /\ Len(toClient) <= Room

WorkerTypes ==
  /\ snap \in Snapshots
  /\ pc \in Places
  /\ job \in Jobs
  /\ out \in Seq(Tokens)

\* The queue holds at most the uploads clicked and one disconnect, which is
\* first.
QueueFits ==
  /\ cmds \in Seq({"Upload", "Disconnect"})
  /\ Len(cmds) + (IF ui = "push" THEN 1 ELSE 0) <= uploads + 1
  /\ \A i \in 2 .. Len(cmds) : cmds[i] = "Upload"

\* busy_ is up from the click on Connect to the end of run_session.
BusyFits == busy \in BOOLEAN /\ (busy <=> pc \notin {"none", "leave", "ended"})

\* What the snapshot shows at each place of the worker.
PhaseFits ==
  /\ pc \in {"none", "start", "file", "begin", "beginAck"} => snap.phase = "Idle"
  /\ pc = "connect" => snap.phase = "Connecting"
  /\ pc \in {"hello", "helloAck"} => snap.phase = "Handshaking"
  /\ pc \in {"open", "loop", "chunk", "drain", "end"} => snap.phase = "Uploading"
  /\ pc \in {"await", "awaitRead"} => snap.phase = "WaitingAnalysis"
  /\ pc \in {"cancel", "cancelAck"} => snap.phase \in {"Uploading", "WaitingAnalysis"}
  /\ pc \in {"result", "body", "kept"} => snap.phase = "ReceivingResult"
  /\ pc \in {"idle", "idleRead", "bye"} => snap.phase \in {"Connected", "Done", "Cancelled"}
  /\ pc \in {"close", "closed"} =>
       snap.phase \in {"Connected", "Done", "Cancelled", "Failed"}
  /\ pc \in {"last", "leave", "ended"} => snap.phase \in {"Idle", "Failed"}

\* The places from the handshake's success to the end of the command loop.
Serving == {"idle", "idleRead", "bye", "file", "begin", "beginAck", "open", "loop",
            "chunk", "drain", "end", "await", "awaitRead", "cancel", "cancelAck",
            "result", "body", "kept"}

ConnectedFits ==
  /\ pc \in Serving => snap.connected
  /\ pc \in {"close", "closed"} => (snap.connected <=> snap.phase # "Failed")
  /\ pc \notin Serving \cup {"close", "closed"} => ~snap.connected

LinkFits ==
  /\ pc \in {"none", "start", "connect"} => link = "none"
  /\ pc \in Serving \cup {"hello", "helloAck", "close"} => link \in {"up", "cut"}
  /\ pc = "closed" => link = "closed"
  /\ pc = "ended" => link \in {"none", "closed"}

\* What is left to send is a control frame, or no more than the file announced.
OutFits ==
  /\ out # << >> <=> pc \in Senders
  /\ pc \in Senders \ {"chunk"} => Len(out) = 1 /\ Head(out).type # "DATA"
  /\ pc = "chunk" => \A i \in 2 .. Len(out) : out[i].type = "DATA"
  /\ job.sent <= job.size
  /\ pc = "chunk" =>
       job.sent + Len(out) <= job.size + (IF Head(out).type = "DATA" THEN 0 ELSE 1)

\* The result of an upload is kept when it is whole, and by the next upload
\* forgotten.
ResultFits ==
  /\ pc \in Serving \ {"idle", "idleRead", "bye", "kept"} => snap.csv = << >>
  /\ pc \in {"result", "body", "kept"} => snap.result
  /\ snap.phase = "Cancelled" => snap.csv = << >>
  /\ snap.csv # << >> => snap.result /\ Len(snap.csv) = job.want

\* A window drawn while nothing was transferred and a cancel pending is not out
\* of date: a pending cancel keeps the next upload from being acknowledged.
CancelFits ==
  /\ cancel \in BOOLEAN
  /\ ui = "drawn" /\ cancel /\ ~view.transferring => ~Transferring

Inv ==
  /\ UITypes /\ NetTypes /\ WorkerTypes
  /\ QueueFits /\ BusyFits /\ PhaseFits /\ ConnectedFits /\ LinkFits
  /\ OutFits /\ ResultFits /\ CancelFits

-----------------------------------------------------------------------------
(* Lemmas about the parts.                                                 *)

PlacesFit == BusyFits /\ PhaseFits /\ ConnectedFits /\ LinkFits /\ ResultFits

\* The fields of a snapshot and of a job.
LEMMA SnapshotFields ==
  ASSUME NEW s \in Snapshots
  PROVE  /\ s.phase \in Phases /\ s.connected \in BOOLEAN /\ s.result \in BOOLEAN
         /\ s.csv \in Seq({"row"})
BY DEF Snapshots

LEMMA JobFields ==
  ASSUME NEW j \in Jobs
  PROVE  /\ j.id \in Nat /\ j.size \in Nat /\ j.sent \in Nat /\ j.want \in Int
         /\ j.body \in Seq({"row"}) /\ j.after \in {"Cancelled", "Connected"}
BY DEF Jobs

\* What setting the phase does, and leaves.
LEMMA PhaseSet ==
  ASSUME snap \in Snapshots, NEW p \in Phases, SetPhase(p)
  PROVE  /\ snap' \in Snapshots /\ snap'.phase = p
         /\ snap'.connected = snap.connected /\ snap'.result = snap.result
         /\ snap'.csv = snap.csv
BY DEF Snapshots, SetPhase

\* A reply is one of the frames of the protocol.
LEMMA RepliesFit ==
  ASSUME NEW f \in AnyReply
  PROVE  f.arg \in Int /\ f.body \in Seq({"row"})
<1> USE ClientAssumption
<1>1. <<"row">> \in Seq({"row"}) /\ << >> \in Seq({"row"})
  OBVIOUS
<1>2. CASE \E t \in ReplyTypes : f = Reply(t, 0, << >>)
  <2>1. f.arg = 0 /\ f.body = << >>
    BY <1>2 DEF Reply
  <2> QED
    BY <1>1, <2>1
<1>3. CASE \E t \in {"ANALYZE_DONE", "RESULT_BEGIN"} : \E a \in {1, MaxCsv + 1} :
             f = Reply(t, a, << >>)
  <2>1. f.arg \in {1, MaxCsv + 1} /\ f.body = << >>
    BY <1>3 DEF Reply
  <2> QED
    BY <1>1, <2>1
<1>4. CASE f \in {Reply("HELLO_ACK", Malformed, << >>), Reply("RESULT_CHUNK", 0, <<"row">>)}
  <2>1. \/ f.arg = -1 /\ f.body = << >>
        \/ f.arg = 0 /\ f.body = <<"row">>
    BY <1>4 DEF Reply, Malformed
  <2>2. 0 \in Int /\ -1 \in Int
    OBVIOUS
  <2> QED
    BY <1>1, <2>1, <2>2, Zenon
<1> QED
  BY <1>2, <1>3, <1>4 DEF AnyReply

\* Reading a frame shortens what has arrived.
LEMMA ReadFrame ==
  ASSUME NetTypes, toClient # << >>
  PROVE  /\ Head(toClient) \in AnyReply
         /\ toClient' = Tail(toClient) /\ UNCHANGED <<link, toServer>> => NetTypes'
<1>1. toClient \in Seq(AnyReply) /\ Len(toClient) <= Room /\ Room \in Nat
  BY ClientAssumption DEF NetTypes
<1> HIDE DEF AnyReply
<1>2. /\ Head(toClient) \in AnyReply /\ Tail(toClient) \in Seq(AnyReply)
      /\ Len(Tail(toClient)) = Len(toClient) - 1 /\ Len(toClient) \in Nat
  BY <1>1, HeadTailProperties, LenProperties
<1> QED
  BY <1>1, <1>2 DEF NetTypes

LEMMA InitInv == Init => Inv
<1> SUFFICES ASSUME Init PROVE Inv
  OBVIOUS
<1> USE ClientAssumption DEF Init
<1>1. UITypes
  BY DEF UITypes, Views, NothingDrawn
<1>2. NetTypes
  BY DEF NetTypes
<1>3. WorkerTypes
  BY DEF WorkerTypes, Snapshots, Fresh, Phases, Jobs, NoJob, Places
<1>4. QueueFits
  BY DEF QueueFits
<1>5. BusyFits /\ PhaseFits /\ ConnectedFits /\ LinkFits /\ ResultFits
  BY DEF BusyFits, PhaseFits, ConnectedFits, LinkFits, ResultFits, Fresh, Serving
<1>6. OutFits
  BY DEF OutFits, Senders, NoJob
<1>7. CancelFits
  BY DEF CancelFits
<1> QED
  BY <1>1, <1>2, <1>3, <1>4, <1>5, <1>6, <1>7 DEF Inv

-----------------------------------------------------------------------------
(* The shapes of a step of the worker.                                     *)

\* The worker leaves the window and the queue alone.
LEMMA WindowStays ==
  ASSUME Inv, UNCHANGED <<uiVars, sharedVars>>
  PROVE  UITypes' /\ QueueFits'
BY DEF Inv, UITypes, QueueFits, uiVars, sharedVars

\* A step that starts no transfer makes no window out of date.
LEMMA NoTransferStarts ==
  ASSUME Inv, UNCHANGED <<uiVars, sharedVars>>, Transferring' => Transferring
  PROVE  CancelFits'
BY DEF Inv, CancelFits, uiVars, sharedVars

\* Nothing is left to send.
LEMMA NothingToSend ==
  ASSUME out' = << >>, pc' \notin Senders, job'.sent <= job'.size
  PROVE  OutFits'
BY DEF OutFits, Senders

\* Outside the sends nothing is left to send, and no more has been sent than
\* announced.
LEMMA SendersSend ==
  ASSUME Inv
  PROVE  (pc \notin Senders => out = << >>) /\ job.sent <= job.size
BY DEF Inv, OutFits

\* fail(), at any place where something can fail.
LEMMA FailInv ==
  ASSUME Inv, UNCHANGED <<uiVars, sharedVars>>, Fail, UNCHANGED <<job, link>>, NetTypes',
         pc \in {"connect", "hello", "helloAck"} \cup (Serving \ {"kept"})
  PROVE  Inv'
<1>1. /\ snap' \in Snapshots /\ snap'.phase = "Failed" /\ snap'.connected = FALSE
      /\ snap'.result = snap.result /\ snap'.csv = snap.csv
      /\ pc' = (IF snap.connected THEN "close" ELSE "last") /\ out' = << >>
  BY DEF Fail, Inv, WorkerTypes, Snapshots, Phases
<1>2. UITypes' /\ QueueFits'
  BY WindowStays
<1>3. WorkerTypes'
  BY <1>1 DEF Inv, WorkerTypes, Places
<1>4. CancelFits'
  BY <1>1, NoTransferStarts DEF Transferring, TransferPhases
<1>5. OutFits'
  <2>1. pc' \notin Senders
    BY <1>1 DEF Senders
  <2> QED
    BY <1>1, <2>1, SendersSend, NothingToSend
<1>6. PlacesFit'
  <2>1. BusyFits'
    BY <1>1 DEF Inv, BusyFits, sharedVars, Serving
  <2>2. PhaseFits' /\ ConnectedFits' /\ LinkFits'
    BY <1>1 DEF Inv, PhaseFits, ConnectedFits, LinkFits, Serving
  <2>3. ResultFits'
    BY <1>1 DEF Inv, ResultFits, Serving
  <2> QED
    BY <2>1, <2>2, <2>3 DEF PlacesFit
<1> QED
  BY <1>2, <1>3, <1>4, <1>5, <1>6 DEF Inv, PlacesFit

\* send_cancel_and_wait begins.
LEMMA CancelUploadInv ==
  ASSUME Inv, UNCHANGED <<uiVars, sharedVars>>, NEW after \in {"Cancelled", "Connected"},
         CancelUpload(after), UNCHANGED netVars, pc \in {"loop", "chunk", "await"}
  PROVE  Inv'
<1>1. /\ out' = <<Token("CANCEL", 0)>> /\ pc' = "cancel" /\ snap' = snap
      /\ job' \in Jobs /\ job'.sent = job.sent /\ job'.size = job.size
      /\ job'.want = job.want
  BY DEF CancelUpload, Inv, WorkerTypes, Jobs
<1>2. Len(out') = 1 /\ Head(out').type = "CANCEL" /\ out' \in Seq(Tokens) /\ out' # << >>
  BY <1>1 DEF Token, Tokens
<1>3. UITypes' /\ QueueFits'
  BY WindowStays
<1>4. WorkerTypes'
  BY <1>1, <1>2 DEF Inv, WorkerTypes, Places, Senders
<1>5. NetTypes'
  BY DEF Inv, NetTypes, netVars
<1>6. CancelFits'
  BY <1>1, NoTransferStarts DEF Transferring
<1>7. OutFits'
  BY <1>1, <1>2, SendersSend DEF OutFits, Senders
<1>8. PlacesFit'
  BY <1>1 DEF PlacesFit, Inv, BusyFits, PhaseFits, ConnectedFits, LinkFits, ResultFits,
              Serving, sharedVars, netVars
<1> QED
  BY <1>3, <1>4, <1>5, <1>6, <1>7, <1>8 DEF Inv, PlacesFit

\* send_cancel_and_wait returns.
LEMMA CancelOverInv ==
  ASSUME Inv, UNCHANGED <<uiVars, sharedVars>>, CancelOver, UNCHANGED link, NetTypes',
         pc \in {"cancel", "cancelAck"}
  PROVE  Inv'
<1>1. snap \in Snapshots /\ job.after \in {"Cancelled", "Connected"}
  BY JobFields DEF Inv, WorkerTypes
<1>2. SetPhase(job.after) /\ pc' = "idle" /\ out' = << >> /\ job' = job
  BY DEF CancelOver
<1>3. /\ snap' \in Snapshots /\ snap'.phase \in {"Cancelled", "Connected"}
      /\ snap'.connected = snap.connected /\ snap'.result = snap.result
      /\ snap'.csv = snap.csv
  BY <1>1, <1>2, PhaseSet DEF Phases
<1>4. UITypes' /\ QueueFits'
  BY WindowStays
<1>5. WorkerTypes'
  BY <1>2, <1>3 DEF Inv, WorkerTypes, Places
<1>6. CancelFits'
  BY <1>3, NoTransferStarts DEF Transferring, TransferPhases
<1>7. OutFits'
  BY <1>2, SendersSend, NothingToSend DEF Senders
<1>8. PlacesFit'
  BY <1>2, <1>3 DEF PlacesFit, Inv, BusyFits, PhaseFits, ConnectedFits, LinkFits, ResultFits,
                    Serving, sharedVars
<1> QED
  BY <1>4, <1>5, <1>6, <1>7, <1>8 DEF Inv, PlacesFit

\* A control frame is about to be sent.
LEMMA FrameToSend ==
  ASSUME Inv, NEW t \in Tokens, t.type # "DATA", out' = <<t>>,
         pc' \in Senders \ {"chunk"}, job'.sent <= job'.size
  PROVE  OutFits' /\ out' \in Seq(Tokens)
<1>1. Len(out') = 1 /\ Head(out') = t /\ out' # << >> /\ out' \in Seq(Tokens)
  OBVIOUS
<1> QED
  BY <1>1 DEF OutFits

\* The names of the frames of the worker.
LEMMA TokensFit ==
  /\ \A n \in Int : /\ Token("UPLOAD_BEGIN", n) \in Tokens
                    /\ Token("UPLOAD_CHUNK", n) \in Tokens
                    /\ Token("UPLOAD_END", n) \in Tokens
                    /\ Token("DATA", n) \in Tokens
  /\ Token("HELLO", 0) \in Tokens /\ Token("CANCEL", 0) \in Tokens
  /\ Token("BYE", 0) \in Tokens
  /\ \A t, n : Token(t, n).type = t
BY DEF Token, Tokens

\* A step that sends nothing.
LEMMA QuietStep ==
  ASSUME Inv, UNCHANGED <<uiVars, sharedVars, out>>, pc \notin Senders,
         pc' \in Places \ Senders, snap' \in Snapshots, job' \in Jobs,
         job'.sent = job.sent, job'.size = job.size, NetTypes', CancelFits', PlacesFit'
  PROVE  Inv'
<1>1. UITypes' /\ QueueFits'
  BY WindowStays
<1>2. WorkerTypes'
  BY DEF Inv, WorkerTypes
<1>3. OutFits'
  BY SendersSend, NothingToSend
<1> QED
  BY <1>1, <1>2, <1>3 DEF Inv, PlacesFit

\* The same, and only the phase may change.
LEMMA PhaseStep ==
  ASSUME Inv, UNCHANGED <<uiVars, sharedVars, job, out>>, pc \notin Senders,
         pc' \in Places \ Senders, NetTypes', CancelFits', PlacesFit',
         UNCHANGED snap \/ \E p \in Phases : SetPhase(p)
  PROVE  Inv'
<1>1. snap' \in Snapshots /\ job' \in Jobs
  BY PhaseSet DEF Inv, WorkerTypes
<1> QED
  BY <1>1, QuietStep

-----------------------------------------------------------------------------
(* A session begins and ends: one step per action.                         *)

LEMMA StartInv == ASSUME Inv, Start PROVE Inv'
<1>1. /\ UNCHANGED <<uiVars, sharedVars, job, out, netVars>>
      /\ pc = "start" /\ pc' = "connect" /\ SetPhase("Connecting")
  BY DEF Start, Worker
<1>2. /\ snap'.phase = "Connecting" /\ snap'.connected = snap.connected
      /\ snap'.result = snap.result /\ snap'.csv = snap.csv
  BY <1>1, PhaseSet DEF Inv, WorkerTypes, Phases
<1>3. PlacesFit'
  BY <1>1, <1>2 DEF PlacesFit, Inv, BusyFits, PhaseFits, ConnectedFits, LinkFits, ResultFits,
                    Serving, sharedVars, netVars
<1>4. NetTypes' /\ CancelFits'
  BY <1>1, <1>2, NoTransferStarts DEF Inv, NetTypes, netVars, Transferring, TransferPhases
<1> QED
  BY <1>1, <1>3, <1>4, PhaseStep DEF Phases, Places, Senders

LEMMA IdleSliceInv == ASSUME Inv, IdleSlice PROVE Inv'
<1>1. /\ UNCHANGED <<uiVars, sharedVars, job, out, netVars>>
      /\ pc = "idle" /\ pc' = "idleRead" /\ UNCHANGED snap
  BY DEF IdleSlice, Worker
<1>2. snap' = snap
  BY <1>1
<1>3. PlacesFit'
  BY <1>1, <1>2 DEF PlacesFit, Inv, BusyFits, PhaseFits, ConnectedFits, LinkFits, ResultFits,
                    Serving, sharedVars, netVars
<1>4. NetTypes' /\ CancelFits'
  BY <1>1, <1>2, NoTransferStarts DEF Inv, NetTypes, netVars, Transferring, TransferPhases
<1> QED
  BY <1>1, <1>3, <1>4, PhaseStep DEF Phases, Places, Senders, Polled

LEMMA TakeIdleInv == ASSUME Inv, TakeIdle PROVE Inv'
<1>1. /\ UNCHANGED <<uiVars, sharedVars, job, out, link, toServer>>
      /\ pc = "idleRead" /\ pc' = "idleRead" /\ UNCHANGED snap
      /\ ~cancel /\ toClient # << >> /\ toClient' = Tail(toClient)
  BY DEF TakeIdle, Takes, Reads, Worker
<1>2. snap' = snap
  BY <1>1
<1>3. PlacesFit'
  BY <1>1, <1>2 DEF PlacesFit, Inv, BusyFits, PhaseFits, ConnectedFits, LinkFits, ResultFits,
                    Serving, sharedVars, netVars
<1>4. NetTypes'
  BY <1>1, ReadFrame DEF Inv
<1>5. CancelFits'
  BY <1>1, <1>2, NoTransferStarts DEF Transferring, TransferPhases
<1> QED
  BY <1>1, <1>3, <1>4, <1>5, PhaseStep DEF Phases, Places, Senders, Polled

LEMMA IdleDoneInv == ASSUME Inv, IdleDone PROVE Inv'
<1>1. /\ UNCHANGED <<uiVars, sharedVars, job, out, netVars>>
      /\ pc = "idleRead" /\ pc' = "idle" /\ UNCHANGED snap
  BY DEF IdleDone, Worker
<1>2. snap' = snap
  BY <1>1
<1>3. PlacesFit'
  BY <1>1, <1>2 DEF PlacesFit, Inv, BusyFits, PhaseFits, ConnectedFits, LinkFits, ResultFits,
                    Serving, sharedVars, netVars
<1>4. NetTypes' /\ CancelFits'
  BY <1>1, <1>2, NoTransferStarts DEF Inv, NetTypes, netVars, Transferring, TransferPhases
<1> QED
  BY <1>1, <1>3, <1>4, PhaseStep DEF Phases, Places, Senders, Polled

-----------------------------------------------------------------------------
(* An upload.                                                              *)

LEMMA FileMissingInv == ASSUME Inv, FileMissing PROVE Inv'
<1>1. /\ UNCHANGED <<uiVars, sharedVars, job, out, netVars>>
      /\ pc = "file" /\ pc' = "idle" /\ SetPhase("Connected")
  BY DEF FileMissing, Worker
<1>2. /\ snap'.phase = "Connected" /\ snap'.connected = snap.connected
      /\ snap'.result = snap.result /\ snap'.csv = snap.csv
  BY <1>1, PhaseSet DEF Inv, WorkerTypes, Phases
<1>3. PlacesFit'
  BY <1>1, <1>2 DEF PlacesFit, Inv, BusyFits, PhaseFits, ConnectedFits, LinkFits, ResultFits,
                    Serving, sharedVars, netVars
<1>4. NetTypes' /\ CancelFits'
  BY <1>1, <1>2, NoTransferStarts DEF Inv, NetTypes, netVars, Transferring, TransferPhases
<1> QED
  BY <1>1, <1>3, <1>4, PhaseStep DEF Phases, Places, Senders, Polled

LEMMA OpenFileInv == ASSUME Inv, OpenFile PROVE Inv'
<1>1. /\ UNCHANGED <<uiVars, sharedVars, job, out, netVars>>
      /\ pc = "open" /\ pc' = "loop" /\ UNCHANGED snap
  BY DEF OpenFile, Worker
<1>2. snap' = snap
  BY <1>1
<1>3. PlacesFit'
  BY <1>1, <1>2 DEF PlacesFit, Inv, BusyFits, PhaseFits, ConnectedFits, LinkFits, ResultFits,
                    Serving, sharedVars, netVars
<1>4. NetTypes' /\ CancelFits'
  BY <1>1, <1>2, NoTransferStarts DEF Inv, NetTypes, netVars, Transferring, TransferPhases
<1> QED
  BY <1>1, <1>3, <1>4, PhaseStep DEF Phases, Places, Senders, Polled

LEMMA TakeAckInv == ASSUME Inv, TakeAck PROVE Inv'
<1>1. /\ UNCHANGED <<uiVars, sharedVars, job, out, link, toServer>>
      /\ pc = "drain" /\ pc' = "drain" /\ UNCHANGED snap
      /\ ~cancel /\ toClient # << >> /\ toClient' = Tail(toClient)
  BY DEF TakeAck, Takes, Reads, Worker
<1>2. snap' = snap
  BY <1>1
<1>3. PlacesFit'
  BY <1>1, <1>2 DEF PlacesFit, Inv, BusyFits, PhaseFits, ConnectedFits, LinkFits, ResultFits,
                    Serving, sharedVars, netVars
<1>4. NetTypes'
  BY <1>1, ReadFrame DEF Inv
<1>5. CancelFits'
  BY <1>1, <1>2, NoTransferStarts DEF Transferring, TransferPhases
<1> QED
  BY <1>1, <1>3, <1>4, <1>5, PhaseStep DEF Phases, Places, Senders, Polled

LEMMA DrainDoneInv == ASSUME Inv, DrainDone PROVE Inv'
<1>1. /\ UNCHANGED <<uiVars, sharedVars, job, out, netVars>>
      /\ pc = "drain" /\ pc' = "loop" /\ UNCHANGED snap
  BY DEF DrainDone, Worker
<1>2. snap' = snap
  BY <1>1
<1>3. PlacesFit'
  BY <1>1, <1>2 DEF PlacesFit, Inv, BusyFits, PhaseFits, ConnectedFits, LinkFits, ResultFits,
                    Serving, sharedVars, netVars
<1>4. NetTypes' /\ CancelFits'
  BY <1>1, <1>2, NoTransferStarts DEF Inv, NetTypes, netVars, Transferring, TransferPhases
<1> QED
  BY <1>1, <1>3, <1>4, PhaseStep DEF Phases, Places, Senders, Polled

LEMMA AwaitInv == ASSUME Inv, Await PROVE Inv'
<1>1. /\ UNCHANGED <<uiVars, sharedVars, job, out, netVars>>
      /\ pc = "await" /\ pc' = "awaitRead" /\ UNCHANGED snap
  BY DEF Await, Worker
<1>2. snap' = snap
  BY <1>1
<1>3. PlacesFit'
  BY <1>1, <1>2 DEF PlacesFit, Inv, BusyFits, PhaseFits, ConnectedFits, LinkFits, ResultFits,
                    Serving, sharedVars, netVars
<1>4. NetTypes' /\ CancelFits'
  BY <1>1, <1>2, NoTransferStarts DEF Inv, NetTypes, netVars, Transferring, TransferPhases
<1> QED
  BY <1>1, <1>3, <1>4, PhaseStep DEF Phases, Places, Senders, Waiting, Wanted

LEMMA UploadDoneInv == ASSUME Inv, UploadDone PROVE Inv'
<1>1. /\ UNCHANGED <<uiVars, sharedVars, job, out, netVars>>
      /\ pc = "kept" /\ pc' = "idle" /\ SetPhase("Done")
  BY DEF UploadDone, Worker
<1>2. /\ snap'.phase = "Done" /\ snap'.connected = snap.connected
      /\ snap'.result = snap.result /\ snap'.csv = snap.csv
  BY <1>1, PhaseSet DEF Inv, WorkerTypes, Phases
<1>3. PlacesFit'
  BY <1>1, <1>2 DEF PlacesFit, Inv, BusyFits, PhaseFits, ConnectedFits, LinkFits, ResultFits,
                    Serving, sharedVars, netVars
<1>4. NetTypes' /\ CancelFits'
  BY <1>1, <1>2, NoTransferStarts DEF Inv, NetTypes, netVars, Transferring, TransferPhases
<1> QED
  BY <1>1, <1>3, <1>4, PhaseStep DEF Phases, Places, Senders, Polled

LEMMA TakeBeginAckInv == ASSUME Inv, TakeBeginAck PROVE Inv'
<1>1. /\ UNCHANGED <<uiVars, sharedVars, job, out, link, toServer>>
      /\ pc = "beginAck" /\ pc' = "open" /\ SetPhase("Uploading")
      /\ ~cancel /\ toClient # << >> /\ toClient' = Tail(toClient)
  BY DEF TakeBeginAck, Takes, Reads, Worker
<1>2. /\ snap'.phase = "Uploading" /\ snap'.connected = snap.connected
      /\ snap'.result = snap.result /\ snap'.csv = snap.csv
  BY <1>1, PhaseSet DEF Inv, WorkerTypes, Phases, TransferPhases
<1>3. PlacesFit'
  BY <1>1, <1>2 DEF PlacesFit, Inv, BusyFits, PhaseFits, ConnectedFits, LinkFits, ResultFits,
                    Serving, sharedVars, netVars
<1>4. NetTypes'
  BY <1>1, ReadFrame DEF Inv
<1>5. CancelFits'
  BY <1>1, Zenon DEF Inv, CancelFits, sharedVars
<1> QED
  BY <1>1, <1>3, <1>4, <1>5, PhaseStep
     DEF TransferPhases, Phases, Places, Senders, Waiting, Wanted

\* The places where something can fail that ends the session.
LEMMA ConnectFailsInv == ASSUME Inv, ConnectFails PROVE Inv'
<1>1. UNCHANGED <<uiVars, sharedVars, job, netVars>> /\ pc = "connect" /\ Fail
  BY DEF ConnectFails, Worker
<1> QED
  BY <1>1, FailInv DEF Inv, NetTypes, netVars

LEMMA OpenFailsInv == ASSUME Inv, OpenFails PROVE Inv'
<1>1. UNCHANGED <<uiVars, sharedVars, job, netVars>> /\ pc = "open" /\ Fail
  BY DEF OpenFails, Worker
<1> QED
  BY <1>1, FailInv DEF Inv, NetTypes, netVars, Serving

LEMMA ResultTooLargeInv == ASSUME Inv, ResultTooLarge PROVE Inv'
<1>1. UNCHANGED <<uiVars, sharedVars, job, netVars>> /\ pc = "result" /\ Fail
  BY DEF ResultTooLarge, Worker
<1> QED
  BY <1>1, FailInv DEF Inv, NetTypes, netVars, Serving

LEMMA ReadLostInv == ASSUME Inv, ReadLost PROVE Inv'
<1>1. /\ UNCHANGED <<uiVars, sharedVars, job, netVars>> /\ pc \in Waiting \cup Polled
      /\ Fail
  BY DEF ReadLost, Worker
<1> QED
  BY <1>1, FailInv DEF Inv, NetTypes, netVars, Serving, Waiting, Wanted, Polled

LEMMA ReadRefusedInv == ASSUME Inv, ReadRefused PROVE Inv'
<1>1. /\ UNCHANGED <<uiVars, sharedVars, job, link, toServer>> /\ pc \in Waiting \cup Polled
      /\ toClient # << >> /\ toClient' = Tail(toClient) /\ Fail
  BY DEF ReadRefused, Reads, Worker
<1>2. NetTypes'
  BY <1>1, ReadFrame DEF Inv
<1> QED
  BY <1>1, <1>2, FailInv DEF Serving, Waiting, Wanted, Polled

\* An upload is taken back.
LEMMA CancelSeenInv == ASSUME Inv, CancelSeen PROVE Inv'
BY CancelUploadInv DEF CancelSeen, Worker

LEMMA FileEndsInv == ASSUME Inv, FileEnds PROVE Inv'
BY CancelUploadInv DEF FileEnds, Worker

LEMMA CancelUnansweredInv == ASSUME Inv, CancelUnanswered PROVE Inv'
BY CancelOverInv DEF CancelUnanswered, Worker, Inv, NetTypes, netVars

LEMMA TakeWhileCancellingInv == ASSUME Inv, TakeWhileCancelling PROVE Inv'
<1>1. /\ UNCHANGED <<uiVars, sharedVars, link, toServer>> /\ pc = "cancelAck"
      /\ toClient # << >> /\ toClient' = Tail(toClient)
      /\ CancelOver \/ UNCHANGED workerVars
  BY DEF TakeWhileCancelling, Worker
<1>2. NetTypes'
  BY <1>1, ReadFrame DEF Inv
<1>3. CASE CancelOver
  BY <1>1, <1>2, <1>3, CancelOverInv
<1>4. CASE UNCHANGED workerVars
  BY <1>1, <1>2, <1>4
     DEF Inv, UITypes, WorkerTypes, QueueFits, BusyFits, PhaseFits, ConnectedFits,
         LinkFits, OutFits, ResultFits, CancelFits, Transferring, uiVars, sharedVars,
         workerVars
<1> QED
  BY <1>1, <1>3, <1>4

-----------------------------------------------------------------------------
(* Steps that change the result, the job or what is left to send.          *)

\* A step that begins to send a control frame.
LEMMA FrameStep ==
  ASSUME Inv, UNCHANGED <<uiVars, toServer, toClient>>, QueueFits',
         link' \in {"none", "up", "cut", "closed"}, CancelFits', PlacesFit',
         NEW t \in Tokens, t.type # "DATA", out' = <<t>>, pc' \in Senders \ {"chunk"},
         snap' \in Snapshots, job' \in Jobs, job'.sent <= job'.size
  PROVE  Inv'
<1>1. OutFits' /\ out' \in Seq(Tokens)
  BY FrameToSend
<1>2. UITypes'
  BY DEF Inv, UITypes, uiVars
<1>3. NetTypes'
  BY DEF Inv, NetTypes
<1>4. WorkerTypes'
  BY <1>1 DEF WorkerTypes, Places
<1> QED
  BY <1>1, <1>2, <1>3, <1>4 DEF Inv, PlacesFit

LEMMA ConnectedInv == ASSUME Inv, Connected PROVE Inv'
<1>1. /\ UNCHANGED <<uiVars, sharedVars, job, toServer, toClient>> /\ link' = "up"
      /\ pc = "connect" /\ pc' = "hello" /\ SetPhase("Handshaking")
      /\ out' = <<Token("HELLO", 0)>>
  BY DEF Connected, Worker
<1>2. /\ snap' \in Snapshots /\ snap'.phase = "Handshaking"
      /\ snap'.connected = snap.connected /\ snap'.result = snap.result
      /\ snap'.csv = snap.csv
  BY <1>1, PhaseSet DEF Inv, WorkerTypes, Phases
<1>3. PlacesFit'
  BY <1>1, <1>2 DEF PlacesFit, Inv, BusyFits, PhaseFits, ConnectedFits, LinkFits, ResultFits,
                    Serving, sharedVars, netVars
<1>4. CancelFits' /\ QueueFits'
  BY <1>1, <1>2, NoTransferStarts, WindowStays DEF Transferring, TransferPhases
<1>5. job' \in Jobs /\ job'.sent <= job'.size
  BY <1>1, SendersSend DEF Inv, WorkerTypes
<1>6. Token("HELLO", 0) \in Tokens /\ Token("HELLO", 0).type # "DATA"
  BY TokensFit
<1> QED
  BY <1>1, <1>2, <1>3, <1>4, <1>5, <1>6, FrameStep DEF Senders

\* What is left of the queue when a command is taken.
LEMMA CommandTaken ==
  ASSUME Inv, cmds # << >>, cmds' = Tail(cmds), UNCHANGED uiVars
  PROVE  QueueFits'
<1>1. cmds \in Seq({"Upload", "Disconnect"})
  BY DEF Inv, QueueFits
<1>2. /\ cmds' \in Seq({"Upload", "Disconnect"}) /\ Len(cmds') = Len(cmds) - 1
      /\ \A i \in 1 .. Len(cmds') : cmds'[i] = cmds[i + 1] /\ i + 1 \in 2 .. Len(cmds)
  BY <1>1
<1>3. /\ Len(cmds) + (IF ui = "push" THEN 1 ELSE 0) <= uploads + 1
      /\ \A i \in 2 .. Len(cmds) : cmds[i] = "Upload"
      /\ uploads \in Nat /\ Len(cmds) \in Nat /\ ui' = ui /\ uploads' = uploads
  BY <1>1, ClientAssumption DEF Inv, QueueFits, UITypes, uiVars
<1>4. Len(cmds') + (IF ui' = "push" THEN 1 ELSE 0) <= uploads' + 1
  BY <1>2, <1>3
<1>5. \A i \in 2 .. Len(cmds') : cmds'[i] = "Upload"
  BY <1>2, <1>3
<1> QED
  BY <1>2, <1>4, <1>5 DEF QueueFits

LEMMA TakeDisconnectInv == ASSUME Inv, TakeDisconnect PROVE Inv'
<1>1. /\ UNCHANGED <<uiVars, busy, cancel, netVars, snap, job>>
      /\ pc = "idle" /\ pc' = "bye" /\ cmds # << >> /\ cmds' = Tail(cmds)
      /\ out' = <<Token("BYE", 0)>>
  BY DEF TakeDisconnect, Command
<1>2. PlacesFit'
  BY <1>1 DEF PlacesFit, Inv, BusyFits, PhaseFits, ConnectedFits, LinkFits, ResultFits,
              Serving, netVars
<1>3. QueueFits'
  BY <1>1, CommandTaken
<1>4. CancelFits'
  BY <1>1 DEF Inv, CancelFits, Transferring, uiVars
<1>5. snap' \in Snapshots /\ job' \in Jobs /\ job'.sent <= job'.size
  BY <1>1, SendersSend DEF Inv, WorkerTypes
<1>6. Token("BYE", 0) \in Tokens /\ Token("BYE", 0).type # "DATA"
  BY TokensFit
<1>7. UNCHANGED <<toServer, toClient>> /\ link' \in {"none", "up", "cut", "closed"}
  BY <1>1 DEF Inv, NetTypes, netVars
<1> QED
  BY <1>1, <1>2, <1>3, <1>4, <1>5, <1>6, <1>7, FrameStep DEF Senders

LEMMA BeginUploadInv == ASSUME Inv, BeginUpload PROVE Inv'
<1>1. /\ UNCHANGED <<uiVars, sharedVars, netVars, snap>>
      /\ pc = "file" /\ pc' = "begin"
  BY DEF BeginUpload, Worker
<1>2. PICK size \in FileSizes : /\ job' = [NoJob EXCEPT !.id = job.id + 1, !.size = size]
                                /\ out' = <<Token("UPLOAD_BEGIN", size)>>
  BY DEF BeginUpload
<1>3. PlacesFit'
  BY <1>1 DEF PlacesFit, Inv, BusyFits, PhaseFits, ConnectedFits, LinkFits, ResultFits,
              Serving, sharedVars, netVars
<1>4. CancelFits' /\ QueueFits'
  BY <1>1, NoTransferStarts, WindowStays DEF Transferring, TransferPhases
<1>5. size \in Nat /\ job \in Jobs /\ snap \in Snapshots
  BY ClientAssumption DEF Inv, WorkerTypes
<1>6. job' \in Jobs /\ job'.sent <= job'.size
  <2>1. job' = [id |-> job.id + 1, size |-> size, sent |-> 0, want |-> 0, body |-> << >>,
                after |-> "Connected"]
    BY <1>2 DEF NoJob
  <2>2. job.id + 1 \in Nat /\ << >> \in Seq({"row"})
    BY <1>5, JobFields
  <2> QED
    BY <1>5, <2>1, <2>2 DEF Jobs
<1>7. Token("UPLOAD_BEGIN", size) \in Tokens /\ Token("UPLOAD_BEGIN", size).type # "DATA"
  BY <1>5, TokensFit
<1>8. UNCHANGED <<toServer, toClient>> /\ link' \in {"none", "up", "cut", "closed"}
  BY <1>1 DEF Inv, NetTypes, netVars
<1> QED
  BY <1>1, <1>2, <1>3, <1>4, <1>5, <1>6, <1>7, <1>8, FrameStep DEF Senders

LEMMA FileSentInv == ASSUME Inv, FileSent PROVE Inv'
<1>1. /\ UNCHANGED <<uiVars, sharedVars, netVars, snap, job>>
      /\ pc = "loop" /\ pc' = "end" /\ out' = <<Token("UPLOAD_END", job.sent)>>
  BY DEF FileSent, Worker
<1>2. PlacesFit'
  BY <1>1 DEF PlacesFit, Inv, BusyFits, PhaseFits, ConnectedFits, LinkFits, ResultFits,
              Serving, sharedVars, netVars
<1>3. CancelFits' /\ QueueFits'
  BY <1>1, NoTransferStarts, WindowStays DEF Transferring, TransferPhases
<1>4. snap' \in Snapshots /\ job' \in Jobs /\ job'.sent <= job'.size /\ job.sent \in Int
  BY <1>1, SendersSend, JobFields DEF Inv, WorkerTypes
<1>5. Token("UPLOAD_END", job.sent) \in Tokens /\ Token("UPLOAD_END", job.sent).type # "DATA"
  BY <1>4, TokensFit
<1>6. UNCHANGED <<toServer, toClient>> /\ link' \in {"none", "up", "cut", "closed"}
  BY <1>1 DEF Inv, NetTypes, netVars
<1> QED
  BY <1>1, <1>2, <1>3, <1>4, <1>5, <1>6, FrameStep DEF Senders

\* A chunk is its header and its units of data.
LEMMA ChunkFits ==
  ASSUME NEW n \in Nat, NEW id \in Int
  PROVE  /\ ChunkOf(n, id) \in Seq(Tokens) /\ Len(ChunkOf(n, id)) = n + 1
         /\ Head(ChunkOf(n, id)).type = "UPLOAD_CHUNK"
         /\ \A i \in 2 .. n + 1 : ChunkOf(n, id)[i].type = "DATA"
<1> DEFINE h == <<Token("UPLOAD_CHUNK", n)>>
           d == [i \in 1 .. n |-> Token("DATA", id)]
<1>1. h \in Seq(Tokens) /\ Len(h) = 1 /\ h[1] = Token("UPLOAD_CHUNK", n)
  BY TokensFit
<1>2. d \in Seq(Tokens) /\ Len(d) = n /\ \A i \in 1 .. n : d[i] = Token("DATA", id)
  BY TokensFit
<1>3. ChunkOf(n, id) = h \o d
  BY DEF ChunkOf
<1> HIDE DEF h, d
<1>4. /\ h \o d \in Seq(Tokens) /\ Len(h \o d) = n + 1
      /\ \A i \in 1 .. n + 1 : (h \o d)[i] = IF i <= 1 THEN h[i] ELSE d[i - 1]
  <2>1. /\ h \o d \in Seq(Tokens) /\ Len(h \o d) = Len(h) + Len(d)
        /\ \A i \in 1 .. Len(h) + Len(d) :
             (h \o d)[i] = IF i <= Len(h) THEN h[i] ELSE d[i - Len(h)]
    BY <1>1, <1>2, ConcatProperties
  <2>2. Len(h) + Len(d) = n + 1
    BY <1>1, <1>2
  <2> QED
    BY <1>1, <2>1, <2>2
<1>5. Head(h \o d) = h[1]
  <2>1. (h \o d)[1] = h[1]
    BY <1>4
  <2> QED
    BY <1>4, <2>1
<1>6. ASSUME NEW i \in 2 .. n + 1 PROVE (h \o d)[i].type = "DATA"
  <2>1. i \in 1 .. n + 1 /\ ~(i <= 1) /\ i - 1 \in 1 .. n
    OBVIOUS
  <2>2. (h \o d)[i] = d[i - 1]
    BY <1>4, <2>1
  <2>3. d[i - 1] = Token("DATA", id)
    BY <1>2, <2>1
  <2> QED
    BY <2>2, <2>3, TokensFit
<1>7. Head(h \o d).type = "UPLOAD_CHUNK"
  BY <1>1, <1>5, TokensFit
<1> QED
  BY <1>3, <1>4, <1>6, <1>7

LEMMA SendChunkInv == ASSUME Inv, SendChunk PROVE Inv'
<1> DEFINE n == Smaller(Chunk, job.size - job.sent)
<1>1. /\ UNCHANGED <<uiVars, sharedVars, netVars, snap, job>>
      /\ pc = "loop" /\ pc' = "chunk" /\ out' = ChunkOf(n, job.id)
      /\ job.sent < job.size
  BY DEF SendChunk, Worker
<1>2. PlacesFit'
  BY <1>1 DEF PlacesFit, Inv, BusyFits, PhaseFits, ConnectedFits, LinkFits, ResultFits,
              Serving, sharedVars, netVars
<1>3. CancelFits' /\ UITypes' /\ QueueFits'
  BY <1>1, NoTransferStarts, WindowStays DEF Transferring, TransferPhases
<1>4. job \in Jobs /\ job.id \in Int /\ job.sent \in Nat /\ job.size \in Nat
  BY JobFields DEF Inv, WorkerTypes
<1>5. n \in Nat /\ n <= job.size - job.sent
  BY <1>1, <1>4, ClientAssumption DEF Smaller
<1> HIDE DEF n
<1>6. /\ out' \in Seq(Tokens) /\ Len(out') = n + 1 /\ Head(out').type # "DATA"
      /\ out' # << >> /\ \A i \in 2 .. Len(out') : out'[i].type = "DATA"
  <2>1. /\ out' \in Seq(Tokens) /\ Len(out') = n + 1 /\ Head(out').type = "UPLOAD_CHUNK"
        /\ \A i \in 2 .. n + 1 : out'[i].type = "DATA"
    BY <1>1, <1>4, <1>5, ChunkFits
  <2>2. out' # << >>
    BY <1>5, <2>1
  <2> QED
    BY <2>1, <2>2
<1>7. OutFits'
  BY <1>1, <1>4, <1>5, <1>6 DEF OutFits, Senders
<1>8. NetTypes' /\ WorkerTypes'
  BY <1>1, <1>6 DEF Inv, NetTypes, WorkerTypes, netVars, Places, Senders
<1> QED
  BY <1>2, <1>3, <1>7, <1>8 DEF Inv, PlacesFit

\* What send() takes of the buffer.
LEMMA TokenTaken ==
  ASSUME Inv, SendToken
  PROVE  /\ OutFits' /\ out' \in Seq(Tokens) /\ job' \in Jobs /\ job'.want = job.want
         /\ pc' = AfterSend[pc] \/ (pc = "chunk" /\ pc' = "chunk")
<1>1. /\ pc \in Senders /\ out # << >> /\ out' = Tail(out)
      /\ pc' = IF Len(out) = 1 THEN AfterSend[pc] ELSE pc
      /\ job' = [job EXCEPT !.sent = IF Head(out).type = "DATA" THEN @ + 1 ELSE @]
  BY DEF SendToken
<1>2. out \in Seq(Tokens) /\ job \in Jobs /\ job.sent \in Nat /\ job.size \in Nat
  BY JobFields DEF Inv, WorkerTypes
<1>3. /\ pc # "chunk" => Len(out) = 1 /\ Head(out).type # "DATA"
      /\ pc = "chunk" =>
           /\ \A i \in 2 .. Len(out) : out[i].type = "DATA"
           /\ job.sent + Len(out) <= job.size + (IF Head(out).type = "DATA" THEN 0 ELSE 1)
      /\ job.sent <= job.size
  BY <1>1 DEF Inv, OutFits
<1>4. /\ job' \in Jobs /\ job'.want = job.want /\ job'.size = job.size
      /\ job'.sent = IF Head(out).type = "DATA" THEN job.sent + 1 ELSE job.sent
  <2>1. CASE Head(out).type = "DATA"
    <3>1. job' = [job EXCEPT !.sent = job.sent + 1] /\ job.sent + 1 \in Nat
      BY <1>1, <1>2, <2>1
    <3> QED
      BY <1>2, <2>1, <3>1 DEF Jobs
  <2>2. CASE Head(out).type # "DATA"
    <3>1. job' = [job EXCEPT !.sent = job.sent]
      BY <1>1, <2>2
    <3> QED
      BY <1>2, <2>2, <3>1 DEF Jobs
  <2> QED
    BY <2>1, <2>2
<1>5. /\ out' \in Seq(Tokens) /\ Len(out') = Len(out) - 1 /\ Len(out) \in Nat
      /\ \A i \in 1 .. Len(out') : out'[i] = out[i + 1] /\ i + 1 \in 2 .. Len(out)
  BY <1>1, <1>2
<1>6. CASE Len(out) = 1
  <2>1. out' = << >> /\ pc' = AfterSend[pc]
    BY <1>1, <1>5, <1>6
  <2>2. pc' \notin Senders
    BY <1>1, <2>1 DEF AfterSend, Senders
  <2>3. job'.sent <= job'.size
    BY <1>2, <1>3, <1>4, <1>6
  <2> QED
    BY <1>4, <1>5, <2>1, <2>2, <2>3, NothingToSend
<1>7. CASE Len(out) # 1
  <2>1. pc = "chunk" /\ pc' = "chunk"
    BY <1>1, <1>3, <1>7
  <2>2. Len(out) >= 2
    <3>1. Len(out) \in Nat /\ Len(out) # 0
      BY <1>1, <1>2, EmptySeq
    <3>2. \A k \in Nat : k # 0 /\ k # 1 => k >= 2
      OBVIOUS
    <3> QED
      BY <1>7, <3>1, <3>2
  <2>3. Len(out') >= 1 /\ out' # << >>
    BY <1>5, <2>2, EmptySeq
  <2>4. Head(out') = out'[1] /\ \A i \in 1 .. Len(out') : out'[i].type = "DATA"
    BY <1>3, <1>5, <2>1
  <2>5. job'.sent + Len(out') <= job'.size
    BY <1>2, <1>3, <1>4, <1>5, <2>1
  <2>6. Head(out').type = "DATA" /\ job'.sent <= job'.size
    BY <1>2, <1>4, <2>3, <2>4, <2>5
  <2>7. OutFits'
    <3>1. \A i \in 2 .. Len(out') : out'[i].type = "DATA"
      BY <1>5, <2>4
    <3> QED
      BY <1>2, <1>4, <2>1, <2>3, <2>5, <2>6, <3>1 DEF OutFits, Senders
  <2> QED
    BY <1>4, <1>5, <2>1, <2>7
<1> QED
  BY <1>6, <1>7

LEMMA SendTokenInv == ASSUME Inv, SendToken PROVE Inv'
<1>1. /\ OutFits' /\ out' \in Seq(Tokens) /\ job' \in Jobs /\ job'.want = job.want
      /\ pc' = AfterSend[pc] \/ (pc = "chunk" /\ pc' = "chunk")
  BY TokenTaken
<1>2. /\ UNCHANGED <<uiVars, sharedVars, link, toClient>> /\ pc \in Senders
      /\ \/ pc = "end" /\ SetPhase("WaitingAnalysis")
         \/ pc # "end" /\ UNCHANGED snap
  BY DEF SendToken, Worker
<1>3. /\ out \in Seq(Tokens) /\ out # << >> /\ toServer \in Seq(Tokens)
      /\ Head(out) \in Tokens
  BY DEF SendToken, Inv, WorkerTypes, NetTypes
<1>4. NetTypes'
  <2>1. CASE Len(toServer) < Room /\ toServer' = Append(toServer, Head(out))
    BY <1>2, <1>3, <2>1, ClientAssumption DEF Inv, NetTypes
  <2>2. CASE UNCHANGED toServer
    BY <1>2, <2>2 DEF Inv, NetTypes
  <2> QED
    BY <2>1, <2>2 DEF SendToken
<1>5. /\ snap' \in Snapshots /\ snap'.connected = snap.connected
      /\ snap'.result = snap.result /\ snap'.csv = snap.csv
      /\ snap'.phase = IF pc = "end" THEN "WaitingAnalysis" ELSE snap.phase
  BY <1>2, PhaseSet DEF Inv, WorkerTypes, Phases, TransferPhases
<1>6. PlacesFit'
  BY <1>1, <1>2, <1>5 DEF PlacesFit, Inv, BusyFits, PhaseFits, ConnectedFits, LinkFits,
                          ResultFits, Serving, Senders, AfterSend, sharedVars
<1>7. Transferring' => Transferring
  BY <1>5 DEF Inv, PhaseFits, Transferring, TransferPhases
<1>8. pc' \in Places
  BY <1>1, <1>2 DEF AfterSend, Senders, Places, Waiting, Wanted, Polled
<1> QED
  BY <1>1, <1>2, <1>4, <1>5, <1>6, <1>7, <1>8, WindowStays, NoTransferStarts
     DEF Inv, PlacesFit, WorkerTypes

\* However a send fails.
LEMMA SendFailsInv ==
  ASSUME Inv, UNCHANGED <<uiVars, sharedVars, netVars>>, pc \in Senders, SendFails
  PROVE  Inv'
<1>1. NetTypes' /\ UNCHANGED link
  BY DEF Inv, NetTypes, netVars
<1>2. CASE pc = "chunk" /\ CancelUpload("Cancelled")
  BY <1>2, CancelUploadInv
<1>3. CASE pc = "cancel" /\ CancelOver
  BY <1>1, <1>3, CancelOverInv
<1>4. CASE pc = "bye" /\ pc' = "close" /\ out' = << >> /\ UNCHANGED <<snap, job>>
  <2>1. PlacesFit'
    BY <1>4 DEF PlacesFit, Inv, BusyFits, PhaseFits, ConnectedFits, LinkFits, ResultFits,
                Serving, sharedVars, netVars
  <2>2. CancelFits' /\ UITypes' /\ QueueFits'
    BY <1>4, NoTransferStarts, WindowStays DEF Transferring
  <2>3. WorkerTypes'
    BY <1>4 DEF Inv, WorkerTypes, Places
  <2>4. pc' \notin Senders /\ job'.sent <= job'.size
    BY <1>4, SendersSend DEF Senders
  <2> QED
    BY <1>1, <1>4, <2>1, <2>2, <2>3, <2>4, NothingToSend DEF Inv, PlacesFit
<1>5. CASE pc \notin NeverCancel /\ Fail /\ UNCHANGED job
  BY <1>1, <1>5, FailInv DEF Senders, NeverCancel, Serving
<1> QED
  BY <1>2, <1>3, <1>4, <1>5 DEF SendFails

LEMMA SendLostInv == ASSUME Inv, SendLost PROVE Inv'
BY SendFailsInv DEF SendLost, Worker

LEMMA TimeOutInv == ASSUME Inv, TimeOut PROVE Inv'
<1>1. CASE pc \in Senders /\ Worker(pc) /\ SendFails /\ UNCHANGED netVars
  BY <1>1, SendFailsInv DEF Worker
<1>2. CASE pc \in Waiting \cup Polled /\ Worker(pc) /\ Fail /\ UNCHANGED <<job, netVars>>
  BY <1>2, FailInv DEF Worker, Inv, NetTypes, netVars, Serving, Waiting, Wanted, Polled
<1>3. CASE Worker("cancelAck") /\ CancelOver /\ (UNCHANGED netVars \/ FrameCutShort)
  <2>1. UNCHANGED link /\ NetTypes'
    <3>1. CASE UNCHANGED netVars
      BY <3>1 DEF Inv, NetTypes, netVars
    <3>2. CASE FrameCutShort
      <4> DEFINE g == Reply("GARBAGE", 0, << >>)
      <4>1. g \in AnyReply
        BY DEF AnyReply, ReplyTypes
      <4>2. /\ toClient \in Seq(AnyReply) /\ Len(toClient) <= Room
            /\ toClient # << >> /\ toClient' = <<g>> \o Tail(toClient)
            /\ UNCHANGED <<link, toServer>>
        BY <3>2 DEF FrameCutShort, Inv, NetTypes
      <4> HIDE DEF g
      <4>3. /\ Tail(toClient) \in Seq(AnyReply) /\ Len(Tail(toClient)) = Len(toClient) - 1
            /\ <<g>> \in Seq(AnyReply) /\ Len(<<g>>) = 1 /\ Len(toClient) \in Nat
        BY <4>1, <4>2
      <4>4. toClient' \in Seq(AnyReply) /\ Len(toClient') = Len(toClient)
        BY <4>2, <4>3, ConcatProperties
      <4> QED
        BY <4>2, <4>4 DEF Inv, NetTypes
    <3> QED
      BY <1>3, <3>1, <3>2
  <2> QED
    BY <1>3, <2>1, CancelOverInv DEF Worker
<1> QED
  BY <1>1, <1>2, <1>3 DEF TimeOut

LEMMA TakeHelloAckInv == ASSUME Inv, TakeHelloAck PROVE Inv'
<1>1. /\ UNCHANGED <<uiVars, sharedVars, job, out, link, toServer>>
      /\ pc = "helloAck" /\ pc' = "idle"
      /\ toClient # << >> /\ toClient' = Tail(toClient)
      /\ snap' = [snap EXCEPT !.connected = TRUE, !.phase = "Connected"]
  BY DEF TakeHelloAck, Takes, Reads, Worker
<1>2. snap \in Snapshots /\ job \in Jobs
  BY DEF Inv, WorkerTypes
<1>3. /\ snap' \in Snapshots /\ snap'.phase = "Connected" /\ snap'.connected = TRUE
      /\ snap'.result = snap.result /\ snap'.csv = snap.csv
  BY <1>1, <1>2 DEF Snapshots, Phases
<1>4. PlacesFit'
  BY <1>1, <1>3 DEF PlacesFit, Inv, BusyFits, PhaseFits, ConnectedFits, LinkFits,
                    ResultFits, Serving, sharedVars
<1>5. NetTypes' /\ CancelFits'
  BY <1>1, <1>3, ReadFrame, NoTransferStarts DEF Inv, Transferring, TransferPhases
<1> QED
  BY <1>1, <1>2, <1>3, <1>4, <1>5, QuietStep DEF Places, Senders, Waiting, Wanted

LEMMA TakeUploadInv == ASSUME Inv, TakeUpload PROVE Inv'
<1>1. /\ UNCHANGED <<uiVars, busy, cancel, netVars, job, out>>
      /\ pc = "idle" /\ pc' = "file" /\ cmds # << >> /\ cmds' = Tail(cmds)
      /\ snap' = [Fresh EXCEPT !.connected = snap.connected]
  BY DEF TakeUpload, Command, ForgetResult
<1>2. /\ snap' \in Snapshots /\ snap'.phase = "Idle" /\ snap'.connected = snap.connected
      /\ snap'.csv = << >>
  <2>1. snap.connected \in BOOLEAN
    BY SnapshotFields DEF Inv, WorkerTypes
  <2>2. snap' = [phase |-> "Idle", connected |-> snap.connected, result |-> FALSE,
                 csv |-> << >>]
    BY <1>1 DEF Fresh
  <2>3. "Idle" \in Phases /\ << >> \in Seq({"row"})
    BY DEF Phases
  <2> QED
    BY <2>1, <2>2, <2>3 DEF Snapshots
<1>3. PlacesFit'
  BY <1>1, <1>2 DEF PlacesFit, Inv, BusyFits, PhaseFits, ConnectedFits, LinkFits,
                    ResultFits, Serving, netVars
<1>4. QueueFits'
  BY <1>1, CommandTaken
<1>5. CancelFits'
  BY <1>1, <1>2 DEF Inv, CancelFits, Transferring, TransferPhases, uiVars
<1>6. UITypes' /\ NetTypes' /\ WorkerTypes'
  BY <1>1, <1>2 DEF Inv, UITypes, NetTypes, WorkerTypes, Places, uiVars, netVars
<1>7. OutFits'
  BY <1>1, SendersSend, NothingToSend DEF Senders
<1> QED
  BY <1>3, <1>4, <1>5, <1>6, <1>7 DEF Inv, PlacesFit

LEMMA CloseSocketInv == ASSUME Inv, CloseSocket PROVE Inv'
<1>1. /\ UNCHANGED <<uiVars, sharedVars, snap, job, out, toServer>>
      /\ pc = "close" /\ pc' = "closed" /\ link' = "closed" /\ toClient' = << >>
  BY DEF CloseSocket, Worker
<1>2. PlacesFit'
  BY <1>1 DEF PlacesFit, Inv, BusyFits, PhaseFits, ConnectedFits, LinkFits, ResultFits,
              Serving, sharedVars
<1>3. NetTypes' /\ CancelFits'
  BY <1>1, NoTransferStarts, ClientAssumption DEF Inv, NetTypes, Transferring
<1> QED
  BY <1>1, <1>2, <1>3, PhaseStep DEF Places, Senders

LEMMA ShowClosedInv == ASSUME Inv, ShowClosed PROVE Inv'
<1>1. /\ UNCHANGED <<uiVars, sharedVars, netVars, job, out>>
      /\ pc = "closed" /\ pc' = "last"
      /\ snap' = [snap EXCEPT !.connected = FALSE,
                              !.phase = IF @ = "Failed" THEN @ ELSE "Idle"]
  BY DEF ShowClosed, Worker
<1>2. snap \in Snapshots /\ job \in Jobs
  BY DEF Inv, WorkerTypes
<1>3. /\ snap' \in Snapshots /\ snap'.phase \in {"Failed", "Idle"}
      /\ snap'.connected = FALSE /\ snap'.result = snap.result /\ snap'.csv = snap.csv
  BY <1>1, <1>2 DEF Snapshots, Phases
<1>4. PlacesFit'
  BY <1>1, <1>3 DEF PlacesFit, Inv, BusyFits, PhaseFits, ConnectedFits, LinkFits,
                    ResultFits, Serving, sharedVars, netVars
<1>5. NetTypes' /\ CancelFits'
  BY <1>1, <1>3, NoTransferStarts
     DEF Inv, NetTypes, netVars, Transferring, TransferPhases
<1> QED
  BY <1>1, <1>2, <1>3, <1>4, <1>5, QuietStep DEF Places, Senders

LEMMA EndSessionInv == ASSUME Inv, EndSession PROVE Inv'
<1>1. /\ UNCHANGED <<uiVars, cancel, cmds, snap, job, out, netVars>>
      /\ pc = "last" /\ pc' = "leave" /\ busy' = FALSE
  BY DEF EndSession
<1>2. PlacesFit'
  BY <1>1 DEF PlacesFit, Inv, BusyFits, PhaseFits, ConnectedFits, LinkFits, ResultFits,
              Serving, netVars
<1>3. UITypes' /\ QueueFits' /\ NetTypes' /\ WorkerTypes'
  BY <1>1 DEF Inv, UITypes, QueueFits, NetTypes, WorkerTypes, Places, uiVars, netVars
<1>4. CancelFits'
  BY <1>1 DEF Inv, CancelFits, Transferring, uiVars
<1>5. OutFits'
  BY <1>1, SendersSend, NothingToSend DEF Senders
<1> QED
  BY <1>2, <1>3, <1>4, <1>5 DEF Inv, PlacesFit

LEMMA DestroySocketInv == ASSUME Inv, DestroySocket PROVE Inv'
<1>1. /\ UNCHANGED <<uiVars, sharedVars, snap, job, out, toServer>>
      /\ pc = "leave" /\ pc' = "ended" /\ toClient' = << >>
      /\ link' = IF link = "none" THEN "none" ELSE "closed"
  BY DEF DestroySocket, Worker
<1>2. PlacesFit'
  BY <1>1 DEF PlacesFit, Inv, BusyFits, PhaseFits, ConnectedFits, LinkFits, ResultFits,
              Serving, sharedVars
<1>3. NetTypes' /\ CancelFits'
  BY <1>1, NoTransferStarts, ClientAssumption DEF Inv, NetTypes, Transferring
<1> QED
  BY <1>1, <1>2, <1>3, PhaseStep DEF Places, Senders

LEMMA TakeAwaitedInv == ASSUME Inv, TakeAwaited PROVE Inv'
<1>1. PICK f \in AnyReply :
        /\ UNCHANGED <<uiVars, sharedVars, out, link, toServer>> /\ pc = "awaitRead"
        /\ toClient # << >> /\ toClient' = Tail(toClient)
        /\ \/ pc' = "await" /\ UNCHANGED <<snap, job>>
           \/ /\ snap' = [snap EXCEPT !.result = TRUE, !.phase = "ReceivingResult"]
              /\ job' = [job EXCEPT !.want = f.arg]
              /\ pc' = "result"
  BY ReadFrame DEF TakeAwaited, Takes, Reads, Worker, Inv
<1>2. NetTypes'
  BY <1>1, ReadFrame DEF Inv
<1>3. snap \in Snapshots /\ job \in Jobs /\ f.arg \in Int
  BY <1>1, RepliesFit DEF Inv, WorkerTypes
<1>4. CASE pc' = "await" /\ UNCHANGED <<snap, job>>
  <2>1. PlacesFit'
    BY <1>1, <1>4 DEF PlacesFit, Inv, BusyFits, PhaseFits, ConnectedFits, LinkFits,
                      ResultFits, Serving, sharedVars
  <2>2. CancelFits'
    BY <1>1, <1>4, NoTransferStarts DEF Transferring
  <2> QED
    BY <1>1, <1>2, <1>3, <1>4, <2>1, <2>2, QuietStep DEF Places, Senders
<1>5. CASE /\ snap' = [snap EXCEPT !.result = TRUE, !.phase = "ReceivingResult"]
           /\ job' = [job EXCEPT !.want = f.arg]
           /\ pc' = "result"
  <2>1. /\ snap' \in Snapshots /\ snap'.phase = "ReceivingResult" /\ snap'.result = TRUE
        /\ snap'.connected = snap.connected /\ snap'.csv = snap.csv
    BY <1>3, <1>5 DEF Snapshots, Phases, TransferPhases
  <2>2. job' \in Jobs /\ job'.sent = job.sent /\ job'.size = job.size
    BY <1>3, <1>5 DEF Jobs
  <2>3. PlacesFit'
    BY <1>1, <1>5, <2>1 DEF PlacesFit, Inv, BusyFits, PhaseFits, ConnectedFits, LinkFits,
                            ResultFits, Serving, sharedVars
  <2>4. Transferring
    BY <1>1 DEF Inv, PhaseFits, Transferring, TransferPhases
  <2>5. CancelFits'
    BY <1>1, <2>4, NoTransferStarts
  <2> QED
    BY <1>1, <1>2, <1>5, <2>1, <2>2, <2>3, <2>5, QuietStep
       DEF Places, Senders, Waiting, Wanted
<1> QED
  BY <1>1, <1>4, <1>5

LEMMA TakeResultBeginInv == ASSUME Inv, TakeResultBegin PROVE Inv'
<1>1. PICK f \in AnyReply :
        /\ UNCHANGED <<uiVars, sharedVars, snap, out, link, toServer>>
        /\ pc = "result" /\ pc' = "body" /\ toClient # << >> /\ toClient' = Tail(toClient)
        /\ job' = [job EXCEPT !.want = f.arg]
  BY ReadFrame DEF TakeResultBegin, Takes, Reads, Worker, Inv
<1>2. snap \in Snapshots /\ job \in Jobs /\ f.arg \in Int
  BY <1>1, RepliesFit DEF Inv, WorkerTypes
<1>3. job' \in Jobs /\ job'.sent = job.sent /\ job'.size = job.size
  BY <1>1, <1>2 DEF Jobs
<1>4. PlacesFit'
  BY <1>1 DEF PlacesFit, Inv, BusyFits, PhaseFits, ConnectedFits, LinkFits, ResultFits,
              Serving, sharedVars
<1>5. NetTypes' /\ CancelFits'
  BY <1>1, ReadFrame, NoTransferStarts DEF Inv, Transferring
<1> QED
  BY <1>1, <1>2, <1>3, <1>4, <1>5, QuietStep DEF Places, Senders, Waiting, Wanted

LEMMA TakeResultInv == ASSUME Inv, TakeResult PROVE Inv'
<1>1. PICK f \in AnyReply :
        /\ UNCHANGED <<uiVars, sharedVars, out, link, toServer>> /\ pc = "body"
        /\ toClient # << >> /\ toClient' = Tail(toClient)
        /\ \/ job' = [job EXCEPT !.body = @ \o f.body] /\ UNCHANGED <<snap, pc>>
           \/ /\ Len(job.body) = job.want
              /\ snap' = [snap EXCEPT !.csv = job.body]
              /\ pc' = "kept"
              /\ UNCHANGED job
  BY ReadFrame DEF TakeResult, Takes, Reads, Worker, Inv, Accepts, Waiting, Wanted
<1>2. NetTypes'
  BY <1>1, ReadFrame DEF Inv
<1>3. /\ snap \in Snapshots /\ job \in Jobs /\ f.body \in Seq({"row"})
      /\ job.body \in Seq({"row"})
  BY <1>1, RepliesFit, JobFields DEF Inv, WorkerTypes
<1>4. CASE job' = [job EXCEPT !.body = @ \o f.body] /\ UNCHANGED <<snap, pc>>
  <2>1. job.body \o f.body \in Seq({"row"})
    BY <1>3, ConcatProperties
  <2>2. /\ job' \in Jobs /\ job'.sent = job.sent /\ job'.size = job.size
        /\ job'.want = job.want
    BY <1>3, <1>4, <2>1 DEF Jobs
  <2>3. PlacesFit'
    BY <1>1, <1>4, <2>2 DEF PlacesFit, Inv, BusyFits, PhaseFits, ConnectedFits, LinkFits,
                            ResultFits, Serving, sharedVars
  <2>4. CancelFits'
    BY <1>1, <1>4, NoTransferStarts DEF Transferring
  <2> QED
    BY <1>1, <1>2, <1>3, <1>4, <2>2, <2>3, <2>4, QuietStep
       DEF Places, Senders, Waiting, Wanted
<1>5. CASE /\ Len(job.body) = job.want
           /\ snap' = [snap EXCEPT !.csv = job.body]
           /\ pc' = "kept"
           /\ UNCHANGED job
  <2>1. /\ snap' \in Snapshots /\ snap'.phase = snap.phase /\ snap'.result = snap.result
        /\ snap'.connected = snap.connected /\ snap'.csv = job.body
    BY <1>3, <1>5 DEF Snapshots
  <2>2. PlacesFit'
    BY <1>1, <1>5, <2>1 DEF PlacesFit, Inv, BusyFits, PhaseFits, ConnectedFits, LinkFits,
                            ResultFits, Serving, sharedVars
  <2>3. CancelFits'
    BY <1>1, <2>1, NoTransferStarts DEF Transferring
  <2> QED
    BY <1>1, <1>2, <1>3, <1>5, <2>1, <2>2, <2>3, QuietStep DEF Places, Senders
<1> QED
  BY <1>1, <1>4, <1>5

-----------------------------------------------------------------------------
(* The window and the server.                                              *)

\* A click leaves the worker alone: what the worker's places promise stays.
LEMMA WorkerStays ==
  ASSUME Inv, UNCHANGED <<busy, workerVars, netVars>>
  PROVE  NetTypes' /\ WorkerTypes' /\ OutFits' /\ PlacesFit'
BY DEF Inv, NetTypes, WorkerTypes, OutFits, PlacesFit, BusyFits, PhaseFits, ConnectedFits,
       LinkFits, ResultFits, workerVars, netVars

LEMMA DrawInv == ASSUME Inv, Draw PROVE Inv'
<1>1. /\ UNCHANGED <<uploads, sessions, sharedVars, workerVars, netVars>>
      /\ ui # "push" /\ ui' = "drawn"
      /\ view' = [busy |-> busy, connected |-> snap.connected,
                  transferring |-> Transferring]
  BY DEF Draw
<1>2. UITypes'
  <2>1. busy \in BOOLEAN /\ snap.connected \in BOOLEAN /\ Transferring \in BOOLEAN
    BY SnapshotFields DEF Inv, BusyFits, WorkerTypes, Transferring
  <2>2. view' \in Views
    BY <1>1, <2>1 DEF Views
  <2> QED
    BY <1>1, <2>2 DEF Inv, UITypes
<1>3. QueueFits'
  BY <1>1 DEF Inv, QueueFits, sharedVars
<1>4. CancelFits'
  <2>1. cancel' \in BOOLEAN
    BY <1>1 DEF Inv, CancelFits, sharedVars
  <2>2. view'.transferring = Transferring /\ (Transferring' <=> Transferring)
    BY <1>1 DEF Transferring, workerVars
  <2> QED
    BY <2>1, <2>2 DEF CancelFits
<1>5. UNCHANGED busy
  BY <1>1 DEF sharedVars
<1> QED
  BY <1>1, <1>2, <1>3, <1>4, <1>5, WorkerStays DEF Inv, PlacesFit

\* The window after a click.
LEMMA Clicked ==
  ASSUME Inv, ui' \in {"frame", "push", "quit", "join", "left"},
         view' \in {view, NothingDrawn}, uploads' \in 0 .. MaxUploads,
         sessions' \in 0 .. MaxSessions
  PROVE  UITypes'
<1>1. NothingDrawn \in Views
  BY DEF Views, NothingDrawn
<1>2. view' \in Views
  BY <1>1 DEF Inv, UITypes
<1> QED
  BY <1>2 DEF UITypes

LEMMA NotDrawn == ASSUME ui' # "drawn", cancel' \in BOOLEAN PROVE CancelFits'
BY DEF CancelFits

LEMMA UITyped ==
  ASSUME Inv
  PROVE  /\ uploads \in 0 .. MaxUploads /\ sessions \in 0 .. MaxSessions /\ uploads \in Nat
         /\ cancel \in BOOLEAN /\ Len(cmds) \in Nat
         /\ Len(cmds) + (IF ui = "push" THEN 1 ELSE 0) <= uploads + 1
<1>1. uploads \in 0 .. MaxUploads /\ sessions \in 0 .. MaxSessions /\ uploads \in Nat
  BY ClientAssumption DEF Inv, UITypes
<1>2. cancel \in BOOLEAN
  BY DEF Inv, CancelFits
<1>3. Len(cmds) \in Nat /\ Len(cmds) + (IF ui = "push" THEN 1 ELSE 0) <= uploads + 1
  BY DEF Inv, QueueFits
<1> QED
  BY <1>1, <1>2, <1>3

\* disconnect() leaves one command.
LEMMA QueueOfOne ==
  ASSUME Inv, Disconnect, ui' # "push", UNCHANGED uploads
  PROVE  QueueFits'
<1>1. /\ cmds' = <<"Disconnect">> /\ Len(cmds') = 1
      /\ cmds' \in Seq({"Upload", "Disconnect"})
  BY DEF Disconnect
<1>2. Len(cmds') + (IF ui' = "push" THEN 1 ELSE 0) <= uploads' + 1
  BY <1>1, UITyped
<1> QED
  BY <1>1, <1>2 DEF QueueFits

LEMMA ClickDisconnectInv == ASSUME Inv, ClickDisconnect PROVE Inv'
<1>1. /\ ui' = "frame" /\ view' = NothingDrawn /\ Disconnect
      /\ UNCHANGED <<uploads, sessions, busy, cancel, workerVars, netVars>>
  BY DEF ClickDisconnect, Click
<1>2. UITypes'
  BY <1>1, UITyped, Clicked
<1>3. CancelFits'
  BY <1>1, UITyped, NotDrawn
<1>4. QueueFits'
  BY <1>1, QueueOfOne
<1> QED
  BY <1>1, <1>2, <1>3, <1>4, WorkerStays DEF Inv, PlacesFit

LEMMA QuitDisconnectInv == ASSUME Inv, QuitDisconnect PROVE Inv'
<1>1. /\ ui' = "join" /\ view' = view /\ Disconnect
      /\ UNCHANGED <<uploads, sessions, busy, cancel, workerVars, netVars>>
  BY DEF QuitDisconnect
<1>2. UITypes'
  BY <1>1, UITyped, Clicked
<1>3. CancelFits'
  BY <1>1, UITyped, NotDrawn
<1>4. QueueFits'
  BY <1>1, QueueOfOne
<1> QED
  BY <1>1, <1>2, <1>3, <1>4, WorkerStays DEF Inv, PlacesFit

LEMMA ClickUploadInv == ASSUME Inv, ClickUpload PROVE Inv'
<1>1. /\ ui = "drawn" /\ ui' = "push" /\ view' = NothingDrawn /\ cancel' = FALSE
      /\ uploads < MaxUploads /\ uploads' = uploads + 1
      /\ UNCHANGED <<sessions, busy, cmds, workerVars, netVars>>
  BY DEF ClickUpload, Click
<1>2. uploads' \in 0 .. MaxUploads
  BY <1>1, UITyped, ClientAssumption
<1>3. UITypes'
  BY <1>1, <1>2, UITyped, Clicked
<1>4. CancelFits'
  BY <1>1, NotDrawn
<1>5. Len(cmds') + (IF ui' = "push" THEN 1 ELSE 0) <= uploads' + 1
  BY <1>1, UITyped
<1>6. QueueFits'
  BY <1>1, <1>5 DEF Inv, QueueFits
<1> QED
  BY <1>1, <1>3, <1>4, <1>6, WorkerStays DEF Inv, PlacesFit

LEMMA PushUploadInv == ASSUME Inv, PushUpload PROVE Inv'
<1>1. /\ ui = "push" /\ ui' = "frame" /\ cmds' = Append(cmds, "Upload")
      /\ UNCHANGED <<view, uploads, sessions, busy, cancel, workerVars, netVars>>
  BY DEF PushUpload
<1>2. UITypes'
  BY <1>1, UITyped, Clicked
<1>3. CancelFits'
  BY <1>1, UITyped, NotDrawn
<1>4. QueueFits'
  <2>1. /\ cmds \in Seq({"Upload", "Disconnect"})
        /\ \A i \in 2 .. Len(cmds) : cmds[i] = "Upload"
    BY DEF Inv, QueueFits
  <2>2. cmds' \in Seq({"Upload", "Disconnect"}) /\ Len(cmds') = Len(cmds) + 1
    BY <1>1, <2>1
  <2>3. \A i \in 2 .. Len(cmds') : cmds'[i] = "Upload"
    BY <1>1, <2>1, <2>2
  <2>4. Len(cmds') + (IF ui' = "push" THEN 1 ELSE 0) <= uploads' + 1
    BY <1>1, <2>2, UITyped
  <2> QED
    BY <2>2, <2>3, <2>4 DEF QueueFits
<1> QED
  BY <1>1, <1>2, <1>3, <1>4, WorkerStays DEF Inv, PlacesFit

\* A click that puts the cancel flag up.
LEMMA CancelClickedInv ==
  ASSUME Inv, ui # "push", ui' \in {"frame", "quit"}, view' = NothingDrawn, cancel' = TRUE,
         UNCHANGED <<uploads, sessions, busy, cmds, workerVars, netVars>>
  PROVE  Inv'
<1>1. UITypes'
  BY UITyped, Clicked
<1>2. CancelFits'
  BY NotDrawn
<1>3. QueueFits'
  BY DEF Inv, QueueFits
<1> QED
  BY <1>1, <1>2, <1>3, WorkerStays DEF Inv, PlacesFit

LEMMA JoinedInv == ASSUME Inv, Joined PROVE Inv'
<1>1. /\ ui = "join" /\ ui' = "left" /\ UNCHANGED <<view, uploads, sessions>>
      /\ UNCHANGED <<sharedVars, workerVars, netVars>>
  BY DEF Joined
<1>2. UITypes'
  BY <1>1, UITyped, Clicked
<1>3. CancelFits'
  BY <1>1, UITyped, NotDrawn DEF sharedVars
<1>4. QueueFits' /\ UNCHANGED busy
  BY <1>1 DEF Inv, QueueFits, sharedVars
<1> QED
  BY <1>1, <1>2, <1>3, <1>4, WorkerStays DEF Inv, PlacesFit

LEMMA ClickConnectInv == ASSUME Inv, ClickConnect PROVE Inv'
<1>1. /\ ui' = "frame" /\ view' = NothingDrawn /\ cancel' = FALSE /\ cmds' = << >>
      /\ busy' = TRUE /\ snap' = Fresh /\ pc' = "start" /\ link' = "none"
      /\ toServer' = << >> /\ toClient' = << >> /\ UNCHANGED <<uploads, job, out>>
      /\ pc \in {"none", "ended"}
      /\ sessions < MaxSessions /\ sessions' = sessions + 1
  BY DEF ClickConnect, Click
<1>2. sessions' \in 0 .. MaxSessions
  BY <1>1, UITyped, ClientAssumption
<1>3. UITypes'
  BY <1>1, <1>2, UITyped, Clicked
<1>4. CancelFits'
  BY <1>1, NotDrawn
<1>5. QueueFits'
  <2>1. cmds' \in Seq({"Upload", "Disconnect"}) /\ Len(cmds') = 0
    BY <1>1
  <2>2. Len(cmds') + (IF ui' = "push" THEN 1 ELSE 0) <= uploads' + 1
    BY <1>1, <2>1, UITyped
  <2> QED
    BY <2>1, <2>2 DEF QueueFits
<1>6. Fresh \in Snapshots
  BY DEF Fresh, Snapshots, Phases
<1>7. NetTypes' /\ WorkerTypes'
  BY <1>1, <1>6, ClientAssumption DEF Inv, NetTypes, WorkerTypes, Places
<1>8. OutFits'
  BY <1>1, SendersSend, NothingToSend DEF Senders
<1>9. PlacesFit'
  BY <1>1 DEF PlacesFit, BusyFits, PhaseFits, ConnectedFits, LinkFits, ResultFits, Serving,
              Fresh
<1> QED
  BY <1>3, <1>4, <1>5, <1>7, <1>8, <1>9 DEF Inv, PlacesFit

\* A step of the server.
LEMMA NetworkStep ==
  ASSUME Inv, UNCHANGED <<uiVars, sharedVars, workerVars>>, NetTypes', LinkFits'
  PROVE  Inv'
<1>1. UITypes' /\ QueueFits'
  BY WindowStays
<1>2. WorkerTypes' /\ OutFits'
  BY DEF Inv, WorkerTypes, OutFits, workerVars
<1>3. CancelFits'
  BY NoTransferStarts DEF Transferring, workerVars
<1>4. BusyFits' /\ PhaseFits' /\ ConnectedFits' /\ ResultFits'
  BY DEF Inv, BusyFits, PhaseFits, ConnectedFits, ResultFits, sharedVars, workerVars
<1> QED
  BY <1>1, <1>2, <1>3, <1>4 DEF Inv

LEMMA AnyServerInv == ASSUME Inv, AnyServer PROVE Inv'
<1>1. CASE ServerSends
  <2>1. PICK f \in AnyReply : toClient' = Append(toClient, f)
    BY <1>1 DEF ServerSends
  <2>2. /\ UNCHANGED <<uiVars, sharedVars, workerVars, link, toServer>>
        /\ Len(toClient) < Room /\ toClient \in Seq(AnyReply)
    BY <1>1 DEF ServerSends, Inv, NetTypes
  <2>3. NetTypes'
    BY <2>1, <2>2, ClientAssumption DEF Inv, NetTypes
  <2>4. LinkFits'
    BY <2>2 DEF Inv, LinkFits, workerVars
  <2> QED
    BY <2>2, <2>3, <2>4, NetworkStep
<1>2. CASE ServerReads
  <2>1. /\ UNCHANGED <<uiVars, sharedVars, workerVars, link, toClient>>
        /\ toServer # << >> /\ toServer' = Tail(toServer) /\ toServer \in Seq(Tokens)
    BY <1>2 DEF ServerReads, Inv, NetTypes
  <2>2. NetTypes'
    BY <2>1, ClientAssumption DEF Inv, NetTypes
  <2>3. LinkFits'
    BY <2>1 DEF Inv, LinkFits, workerVars
  <2> QED
    BY <2>1, <2>2, <2>3, NetworkStep
<1>3. CASE ServerCloses
  <2>1. /\ UNCHANGED <<uiVars, sharedVars, workerVars, toClient>>
        /\ link = "up" /\ link' = "cut" /\ toServer' = << >>
    BY <1>3 DEF ServerCloses
  <2>2. NetTypes'
    BY <2>1, ClientAssumption DEF Inv, NetTypes
  <2>3. LinkFits'
    BY <2>1 DEF Inv, LinkFits, workerVars
  <2> QED
    BY <2>1, <2>2, <2>3, NetworkStep
<1>4. CASE LoseReplies
  <2>1. /\ UNCHANGED <<uiVars, sharedVars, workerVars, link, toServer>>
        /\ toClient' = << >>
    BY <1>4 DEF LoseReplies
  <2>2. NetTypes'
    BY <2>1, ClientAssumption DEF Inv, NetTypes
  <2>3. LinkFits'
    BY <2>1 DEF Inv, LinkFits, workerVars
  <2> QED
    BY <2>1, <2>2, <2>3, NetworkStep
<1> QED
  BY <1>1, <1>2, <1>3, <1>4 DEF AnyServer

-----------------------------------------------------------------------------
(* Next.                                                                   *)

LEMMA UIInv == ASSUME Inv, UI \/ Destructor PROVE Inv'
<1>1. CASE Draw
  BY <1>1, DrawInv
<1>2. CASE ClickConnect
  BY <1>2, ClickConnectInv
<1>3. CASE ClickDisconnect
  BY <1>3, ClickDisconnectInv
<1>4. CASE ClickUpload
  BY <1>4, ClickUploadInv
<1>5. CASE PushUpload
  BY <1>5, PushUploadInv
<1>6. CASE ClickCancel
  BY <1>6, CancelClickedInv DEF ClickCancel, Click
<1>7. CASE Quit
  BY <1>7, CancelClickedInv DEF Quit, RequestCancel
<1>8. CASE QuitDisconnect
  BY <1>8, QuitDisconnectInv
<1>9. CASE Joined
  BY <1>9, JoinedInv
<1> QED
  BY <1>1, <1>2, <1>3, <1>4, <1>5, <1>6, <1>7, <1>8, <1>9 DEF UI, Destructor

LEMMA SessionInv == ASSUME Inv, Session PROVE Inv'
BY StartInv, ConnectedInv, ConnectFailsInv, CloseSocketInv, ShowClosedInv, EndSessionInv,
   DestroySocketInv, TakeHelloAckInv, TakeDisconnectInv, TakeUploadInv, IdleSliceInv,
   TakeIdleInv, IdleDoneInv
   DEF Session

LEMMA UploadInv == ASSUME Inv, Upload PROVE Inv'
BY FileMissingInv, BeginUploadInv, TakeBeginAckInv, OpenFailsInv, OpenFileInv,
   CancelSeenInv, SendChunkInv, FileEndsInv, TakeAckInv, DrainDoneInv, FileSentInv,
   AwaitInv, TakeAwaitedInv, ResultTooLargeInv, TakeResultBeginInv, TakeResultInv,
   UploadDoneInv, TakeWhileCancellingInv, CancelUnansweredInv
   DEF Upload

LEMMA WorkInv == ASSUME Inv, Work PROVE Inv'
BY SessionInv, UploadInv, SendTokenInv, SendLostInv, ReadLostInv, ReadRefusedInv DEF Work

LEMMA StutterInv == ASSUME Inv, UNCHANGED vars PROVE Inv'
<1>1. UNCHANGED <<uiVars, sharedVars, workerVars, netVars>>
  BY DEF vars
<1>2. NetTypes' /\ LinkFits'
  BY <1>1 DEF Inv, NetTypes, LinkFits, workerVars, netVars
<1> QED
  BY <1>1, <1>2, NetworkStep

LEMMA StepInv == Inv /\ [Next]_vars => Inv'
<1> SUFFICES ASSUME Inv, [Next]_vars PROVE Inv'
  OBVIOUS
<1> QED
  BY UIInv, WorkInv, TimeOutInv, AnyServerInv, StutterInv DEF Next, Client

\* The inductive invariant of the client: where the worker is agrees with the
\* flags, the snapshot, the queue, the socket and what has been sent, whatever the
\* server and the user do (Transfer.cpp, TransferClient).
THEOREM ClientInvariant == Spec => []Inv
BY InitInv, StepInv, PTL DEF Spec

-----------------------------------------------------------------------------
(* The properties.                                                         *)

LEMMA InvTypeOK == Inv => TypeOK
<1> SUFFICES ASSUME Inv PROVE TypeOK
  OBVIOUS
<1>1. /\ ui \in {"frame", "drawn", "push", "quit", "join", "left"}
      /\ view \in [busy : BOOLEAN, connected : BOOLEAN, transferring : BOOLEAN]
      /\ uploads \in 0 .. MaxUploads /\ sessions \in 0 .. MaxSessions
  BY DEF Inv, UITypes, Views
<1>2. busy \in BOOLEAN /\ cancel \in BOOLEAN
  BY DEF Inv, BusyFits, CancelFits
<1>3. Len(cmds) <= MaxUploads + 1
  BY UITyped, ClientAssumption
<1>4. \A i \in DOMAIN cmds : cmds[i] \in {"Upload", "Disconnect"}
  BY DEF Inv, QueueFits
<1>5. /\ snap.phase \in Phases /\ snap.connected \in BOOLEAN /\ snap.result \in BOOLEAN
      /\ pc \in Places
  BY SnapshotFields DEF Inv, WorkerTypes
<1>6. job.sent \in 0 .. job.size
  BY SendersSend, JobFields DEF Inv, WorkerTypes
<1>7. /\ link \in {"none", "up", "cut", "closed"}
      /\ Len(toServer) <= Room /\ Len(toClient) <= Room
  BY DEF Inv, NetTypes
<1> QED
  BY <1>1, <1>2, <1>3, <1>4, <1>5, <1>6, <1>7 DEF TypeOK, Phases

\* The variables of the client keep their types; the queue never holds more
\* than the uploads that were clicked and one disconnect, and no more of a file
\* is sent than UPLOAD_BEGIN announced, however its size changes meanwhile
\* (Transfer.cpp, disconnect and do_upload).
THEOREM ClientTypes == Spec => []TypeOK
BY ClientInvariant, InvTypeOK, PTL

\* The window can always be used: Connect is there only when no connection is
\* shown and the last socket has been closed, and a worker that waits for
\* commands shows a connection and no transfer (Transfer.cpp, run_session).
THEOREM ClientWindowUsable == Spec => []WindowUsable
<1>1. Inv => WindowUsable
  BY DEF Inv, BusyFits, PhaseFits, ConnectedFits, LinkFits, WindowUsable, Serving,
         Transferring, TransferPhases
<1> QED
  BY <1>1, ClientInvariant, PTL

\* A result can be saved only when all of it has come, and only that of the
\* last upload (Transfer.cpp, receive_result).
THEOREM ClientResultIsWhole == Spec => []ResultIsWhole
<1>1. Inv => ResultIsWhole
  BY DEF Inv, WorkerTypes, PhaseFits, ResultFits, ResultIsWhole, Places, Serving, Senders,
         Waiting, Wanted, Polled
<1> QED
  BY <1>1, ClientInvariant, PTL

\* The worker never touches the cancel flag.
LEMMA SessionKeepsFlag == Session => UNCHANGED cancel
BY DEF Session, Worker, Command, Takes, Reads, sharedVars, Start, Connected, ConnectFails,
       CloseSocket, ShowClosed, EndSession, DestroySocket, TakeHelloAck, TakeDisconnect,
       TakeUpload, IdleSlice, TakeIdle, IdleDone

LEMMA UploadKeepsFlag == Upload => UNCHANGED cancel
BY DEF Upload, Worker, Takes, Reads, sharedVars, FileMissing, BeginUpload, TakeBeginAck,
       OpenFails, OpenFile, CancelSeen, SendChunk, FileEnds, TakeAck, DrainDone, FileSent,
       Await, TakeAwaited, ResultTooLarge, TakeResultBegin, TakeResult, UploadDone,
       TakeWhileCancelling, CancelUnanswered

LEMMA OthersKeepFlag ==
  SendToken \/ SendLost \/ ReadLost \/ ReadRefused \/ TimeOut \/ AnyServer => UNCHANGED cancel
BY DEF SendToken, SendLost, ReadLost, ReadRefused, TimeOut, AnyServer, ServerSends,
       ServerReads, ServerCloses, LoseReplies, Worker, Reads, sharedVars

\* A cancel is withdrawn only when the user clicks Connect, once the last
\* session is over, or Upload, in a window that is not out of date; never by the
\* worker, and never while a transfer is under way (Transfer.cpp, start_upload).
THEOREM ClientNeverLosesCancel == Spec => CancelNeverLost
<1>1. ASSUME Inv, [Next]_vars, cancel, ~cancel'
      PROVE  ~Transferring /\ pc' \in {pc, "start"}
  <2>1. CASE ClickConnect
    <3>1. pc \in {"none", "ended"} /\ pc' = "start"
      BY <2>1 DEF ClickConnect
    <3> QED
      BY <1>1, <3>1 DEF Inv, PhaseFits, Transferring, TransferPhases
  <2>2. CASE ClickUpload
    <3>1. ui = "drawn" /\ ~view.transferring /\ pc' = pc
      BY <2>2 DEF ClickUpload, Click, workerVars
    <3> QED
      BY <1>1, <3>1 DEF Inv, CancelFits
  <2>3. CASE Draw \/ ClickDisconnect \/ PushUpload \/ Joined \/ QuitDisconnect
    BY <1>1, <2>3 DEF Draw, ClickDisconnect, PushUpload, Joined, QuitDisconnect, sharedVars
  <2>4. CASE ClickCancel \/ Quit
    BY <1>1, <2>4 DEF ClickCancel, Quit, RequestCancel
  <2>5. CASE Work \/ TimeOut \/ AnyServer
    BY <1>1, <2>5, SessionKeepsFlag, UploadKeepsFlag, OthersKeepFlag DEF Work
  <2>6. CASE UNCHANGED vars
    BY <1>1, <2>6 DEF vars, sharedVars
  <2> QED
    BY <1>1, <2>1, <2>2, <2>3, <2>4, <2>5, <2>6 DEF Next, Client, UI, Destructor
<1>2. Inv /\ [Next]_vars => [cancel /\ ~cancel' => ~Transferring /\ pc' \in {pc, "start"}]_vars
  BY <1>1
<1> QED
  BY <1>2, ClientInvariant, PTL DEF Spec, CancelNeverLost

\* From its command loop the worker begins an upload only by taking the command.
LEMMA SessionTakesUpload ==
  ASSUME Session, pc = "idle", pc' = "file"
  PROVE  TakeUpload
BY DEF Session, Worker, Command, Takes, Reads, Start, Connected, ConnectFails, CloseSocket,
       ShowClosed, EndSession, DestroySocket, TakeHelloAck, TakeDisconnect, IdleSlice,
       TakeIdle, IdleDone

LEMMA UploadNotIdle == Upload => pc # "idle"
BY DEF Upload, Worker, Takes, Reads, FileMissing, BeginUpload, TakeBeginAck, OpenFails,
       OpenFile, CancelSeen, SendChunk, FileEnds, TakeAck, DrainDone, FileSent, Await,
       TakeAwaited, ResultTooLarge, TakeResultBegin, TakeResult, UploadDone,
       TakeWhileCancelling, CancelUnanswered

LEMMA OthersNotIdle == SendToken \/ SendLost \/ ReadLost \/ ReadRefused \/ TimeOut => pc # "idle"
BY DEF SendToken, SendLost, ReadLost, ReadRefused, TimeOut, Worker, Senders, Waiting, Wanted,
       Polled

\* Once a disconnect is asked for no upload that was waiting begins
\* (Transfer.cpp, disconnect): the command is always the first of the queue.
THEOREM ClientDisconnectsFirst == Spec => DisconnectFirst
<1>1. ASSUME Inv, [Next]_vars, NEW i \in DOMAIN cmds, cmds[i] = "Disconnect",
             pc = "idle", pc' = "file"
      PROVE  FALSE
  <2>1. CASE UI \/ Destructor
    BY <1>1, <2>1 DEF UI, Destructor, Draw, ClickConnect, ClickDisconnect, ClickUpload,
                      PushUpload, ClickCancel, Quit, QuitDisconnect, Joined, workerVars
  <2>2. CASE Session
    <3>1. cmds # << >> /\ Head(cmds) = "Upload"
      BY <1>1, <2>2, SessionTakesUpload DEF TakeUpload, Command
    <3>2. cmds \in Seq({"Upload", "Disconnect"}) /\ \A j \in 2 .. Len(cmds) : cmds[j] = "Upload"
      BY <1>1 DEF Inv, QueueFits
    <3> QED
      BY <1>1, <3>1, <3>2
  <2>3. CASE Upload \/ SendToken \/ SendLost \/ ReadLost \/ ReadRefused \/ TimeOut
    BY <1>1, <2>3, UploadNotIdle, OthersNotIdle
  <2>4. CASE AnyServer \/ UNCHANGED vars
    BY <1>1, <2>4 DEF AnyServer, ServerSends, ServerReads, ServerCloses, LoseReplies,
                      workerVars, vars
  <2> QED
    BY <1>1, <2>1, <2>2, <2>3, <2>4 DEF Next, Client, Work
<1>2. Inv /\ [Next]_vars => [(\E i \in DOMAIN cmds : cmds[i] = "Disconnect")
                                => ~(pc = "idle" /\ pc' = "file")]_vars
  BY <1>1
<1> QED
  BY <1>2, ClientInvariant, PTL DEF Spec, DisconnectFirst

=============================================================================
