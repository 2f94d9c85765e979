------------------------------- MODULE TcpServer -------------------------------
(***************************************************************************)
(* The server process: main(), the object TcpServer with its listener,     *)
(* signal and timer handles, and the map of its sessions.                  *)
(*                                                                         *)
(* A session is here what the server can tell of it: idle, receiving an    *)
(* upload, refused (it only flushes its ERROR), closing, or gone from the  *)
(* map.  TcpSession shows that a closing session is in the end gone.       *)
(***************************************************************************)
EXTENDS Naturals, FiniteSets

CONSTANTS
  MaxSessions,     \* cfg_.max_sessions
  MaxConnections   \* bound: connections accepted in a run (next_id_)

ASSUME ServerAssumption == MaxSessions \in Nat /\ MaxConnections \in Nat

VARIABLES
  process,        \* main(): "starting", "running", "walking", "ended"
  alive,          \* the TcpServer object has not been destroyed
  listener,       \* listener_
  signals,        \* sig_int_ and sig_term_
  idleLog,        \* idle_log_timer_
  shuttingDown,   \* shutting_down_
  nextId,         \* next_id_
  sessions,       \* sessions_, with "none" before and "gone" after
  signalled       \* SIGINT or SIGTERM has been sent

handles == <<listener, signals, idleLog>>

vars == <<process, alive, handles, shuttingDown, nextId, sessions, signalled>>

Id == 1 .. MaxConnections

Handle == {"none", "open", "closing", "closed"}

Phase == {"none", "idle", "uploading", "refused", "closing", "gone"}

\* Sessions being served, sessions with an open connection, and sessions in
\* the map.
Served == {id \in Id : sessions[id] \in {"idle", "uploading"}}
Open   == {id \in Id : sessions[id] \in {"idle", "uploading", "refused"}}
Mapped == {id \in Id : sessions[id] \notin {"none", "gone"}}

Init ==
  /\ process = "starting"
  /\ alive = TRUE
  /\ listener = "none" /\ signals = "none" /\ idleLog = "none"
  /\ shuttingDown = FALSE
  /\ nextId = 1
  /\ sessions = [id \in Id |-> "none"]
  /\ signalled = FALSE

-----------------------------------------------------------------------------
(* start().                                                                *)

\* start() succeeds; the signal handlers or the timer may be missing.
StartOk ==
  /\ process = "starting"
  /\ process' = "running"
  /\ listener' = "open"
  /\ signals' \in {"open", "none"}
  /\ idleLog' \in {"open", "none"}
  /\ UNCHANGED <<alive, shuttingDown, nextId, sessions, signalled>>

\* uv_tcp_init fails, or (with the listener in the loop) the address, bind or
\* listen.  main() then leaves the block that owns the server.
StartFails ==
  /\ process = "starting"
  /\ listener' \in {"none", "open"}
  /\ process' = "walking"
  /\ alive' = FALSE
  /\ UNCHANGED <<signals, idleLog, shuttingDown, nextId, sessions, signalled>>

-----------------------------------------------------------------------------
(* Connections.                                                            *)

Running == process = "running"

\* A faulty limit: refused and closing sessions do not count, and the new
\* session is compared before it is counted.
FullBeforeInsert(id) == Cardinality(Served) > MaxSessions

\* The new session makes the map larger than the limit.
Full(id) == Cardinality(Mapped \cup {id}) > MaxSessions

\* A faulty accept_one that hands the same id out again.
KeepsId == UNCHANGED nextId

\* accept_one: next_id_++.
TakesId == nextId' = nextId + 1

\* on_connection and accept_one.  uv_accept, uv_read_start or the uv_write of
\* the ERROR may fail: the session is then closing from the start.
AcceptOne ==
  /\ Running /\ listener = "open" /\ ~shuttingDown
  /\ nextId \in Id
  /\ TakesId
  /\ \E phase \in {IF Full(nextId) THEN "refused" ELSE "idle", "closing"} :
       sessions' = [sessions EXCEPT ![nextId] = phase]
  /\ UNCHANGED <<process, alive, handles, shuttingDown, signalled>>

-----------------------------------------------------------------------------
(* Sessions.                                                               *)

Move(id, from, to) ==
  /\ Running
  /\ sessions[id] \in from
  /\ sessions' = [sessions EXCEPT ![id] = to]
  /\ UNCHANGED <<process, alive, handles, shuttingDown, nextId, signalled>>

\* UPLOAD_BEGIN, and the answer to the upload.
UploadStarts(id) == Move(id, {"idle"}, "uploading")
UploadEnds(id)   == Move(id, {"uploading"}, "idle")

\* The session closes: the peer, a timeout, an error, the flushed ERROR.
SessionCloses(id) == Move(id, {"idle", "uploading", "refused"}, "closing")

\* on_session_closed: the last handle is closed, the object is destroyed.
OnSessionClosed(id) == Move(id, {"closing"}, "gone")

-----------------------------------------------------------------------------
(* Shutdown and the end of the process.                                    *)

\* SIGINT or SIGTERM, caught; without the handlers it just ends the process.
SignalSent ==
  /\ Running /\ signals = "open"
  /\ ~signalled
  /\ signalled' = TRUE
  /\ UNCHANGED <<process, alive, handles, shuttingDown, nextId, sessions>>

Closing(handle) == IF handle = "open" THEN "closing" ELSE handle

\* A faulty begin_shutdown that leaves the repeating timer in the loop.
LeavesTimer ==
  /\ listener' = Closing(listener)
  /\ signals' = Closing(signals)
  /\ UNCHANGED idleLog

\* A faulty begin_shutdown that stops listening only when the process ends.
LeavesListener ==
  /\ UNCHANGED listener
  /\ signals' = Closing(signals)
  /\ idleLog' = Closing(idleLog)

\* begin_shutdown: every handle of the server is closed.
CloseServerHandles ==
  /\ listener' = Closing(listener)
  /\ signals' = Closing(signals)
  /\ idleLog' = Closing(idleLog)

\* begin_shutdown: every session that is not closing yet is closed.
CloseSessions ==
  sessions' = [id \in Id |-> IF id \in Open THEN "closing" ELSE sessions[id]]

\* on_signal and begin_shutdown; a second signal does nothing.
OnSignal ==
  /\ Running /\ signalled /\ signals = "open" /\ ~shuttingDown
  /\ shuttingDown' = TRUE
  /\ CloseServerHandles
  /\ CloseSessions
  /\ UNCHANGED <<process, alive, nextId, signalled>>

\* libuv finishes closing a handle of the server.
HandleCloses ==
  /\ process \in {"running", "walking"}
  /\ \/ listener = "closing" /\ listener' = "closed" /\ UNCHANGED <<signals, idleLog>>
     \/ signals = "closing" /\ signals' = "closed" /\ UNCHANGED <<listener, idleLog>>
     \/ idleLog = "closing" /\ idleLog' = "closed" /\ UNCHANGED <<listener, signals>>
  /\ UNCHANGED <<process, alive, shuttingDown, nextId, sessions, signalled>>

\* Handles the loop still knows.
Held == {h \in {1, 2, 3} : handles[h] \in {"open", "closing"}}

\* uv_run returns when nothing is left to wait for; main() leaves the block
\* that owns the server.
LoopEnds ==
  /\ Running
  /\ Held = {} /\ Mapped = {}
  /\ process' = "walking"
  /\ alive' = FALSE
  /\ UNCHANGED <<handles, shuttingDown, nextId, sessions, signalled>>

\* uv_walk closes what is left in the loop.
Walk ==
  /\ process = "walking"
  /\ \E h \in {1, 2, 3} : handles[h] = "open"
  /\ CloseServerHandles
  /\ UNCHANGED <<process, alive, shuttingDown, nextId, sessions, signalled>>

\* The second uv_run, uv_loop_close and the end of main().
Ends ==
  /\ process = "walking" /\ Held = {}
  /\ process' = "ended"
  /\ UNCHANGED <<alive, handles, shuttingDown, nextId, sessions, signalled>>

-----------------------------------------------------------------------------

SessionStep == \E id \in Id :
  UploadStarts(id) \/ UploadEnds(id) \/ SessionCloses(id) \/ OnSessionClosed(id)

Next == \/ StartOk \/ StartFails
        \/ AcceptOne \/ SessionStep
        \/ SignalSent \/ OnSignal
        \/ HandleCloses \/ LoopEnds \/ Walk \/ Ends

\* The process goes on, the loop delivers signals and close callbacks, and
\* (TcpSession: ClosingEnds) a session that is closing is gone in the end.
Fairness ==
  /\ WF_vars(StartOk \/ StartFails)
  /\ WF_vars(OnSignal)
  /\ WF_vars(HandleCloses) /\ WF_vars(LoopEnds) /\ WF_vars(Walk) /\ WF_vars(Ends)
  /\ \A id \in Id : WF_vars(OnSessionClosed(id))

Spec == Init /\ [][Next]_vars

FairSpec == Spec /\ Fairness

-----------------------------------------------------------------------------
(* Properties.                                                             *)

\* Every variable has its type; ids are given out once, in order.
TypeOK ==
  /\ process \in {"starting", "running", "walking", "ended"}
  /\ alive \in BOOLEAN /\ shuttingDown \in BOOLEAN /\ signalled \in BOOLEAN
  /\ listener \in Handle /\ signals \in Handle /\ idleLog \in Handle
  /\ nextId \in 1 .. MaxConnections + 1
  /\ sessions \in [Id -> Phase]
  /\ \A id \in Id : sessions[id] = "none" <=> id >= nextId

\* However connections, refusals and closings interleave, no more sessions
\* are served at a time than max_sessions (TcpServer.cpp, accept_one).
ServedWithinLimit == Cardinality(Served) <= MaxSessions

\* From the moment a shutdown begins to the end of the process no handle of
\* the server is open, no connection is accepted and no session that is being
\* closed is served again (TcpServer.cpp, begin_shutdown, accept_one).
ShutdownIsTotal ==
  [][shuttingDown' => /\ "open" \notin {listener', signals', idleLog'}
                      /\ nextId' = nextId
                      /\ Open' \subseteq Open]_vars

\* What makes the above inductive.
HandlesShut == shuttingDown => "open" \notin {listener, signals, idleLog}

StartsClean == process = "starting" => ~shuttingDown

Inv == TypeOK /\ ServedWithinLimit /\ HandlesShut /\ StartsClean

\* A signal that is caught ends the process, whatever the sessions are doing
\* (main.cpp: uv_run returns only when every handle is closed).
SignalEndsProcess == signalled ~> process = "ended"

\* README.md: on SIGTERM the server finishes in-flight sessions.  The step
\* that begins the shutdown closes none that receives an upload.
ShutdownFinishesSessions ==
  [][~shuttingDown /\ shuttingDown' =>
       \A id \in Id : sessions[id] = "uploading" => sessions'[id] # "closing"]_vars

\* main.cpp: what is left in the loop is closed before uv_loop_close.  That
\* takes the handles to be there still: none belongs to a destroyed server.
HandlesDoNotOutlive == ~alive => Held = {}

=============================================================================
