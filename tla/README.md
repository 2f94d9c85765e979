# Verification of the log analyzer

TLA+ models of the log-analysis server (`src/01.Sources/SERVER`), of its C++
client (`src/01.Sources/CLIENT/CPP`) and of the two together: what is modelled,
what TLC checks about it on small instances, and what TLAPS proves for every
value of the constants.

`tlc -config X.cfg M` runs a check and `tlapm M.tla` checks the proofs of a
module; `PROJECT.json` lists the runs, the definitions with the source lines
they stand for, the hazards, the findings and the theorems.

## The system

A client connects over TCP, greets the server, uploads a log file in chunks and
receives a CSV with the analysis. The server parses the stream as it arrives
and never holds the file.

| Component | Code | State it keeps | Operations |
|---|---|---|---|
| Session | `net/TcpSession`, `net/FrameDecoder`, `net/Protocol.h` | protocol state, upload counters, the frame being decoded, write queue, timer, two libuv handles | callbacks for read, timer, write, handle closed; `close()` |
| Server and process | `net/TcpServer`, `main.cpp` | listener, signal and timer handles, map of sessions, shutdown flag | `start`, accept, signal, `begin_shutdown`, `on_session_closed`, end of `main` |
| Line splitter | `parse/LineSplitter.h` (and `line_offset_` of the session) | partial line, discarding flag, counters | `feed`, `finish`, `reset` |
| Line parser | `parse/LogLine` | none | a line to a record, or the reason it is refused |
| Aggregator | `analyze/Aggregator` | counts by reason and module, the hours sorted, the hour of the last line, running sums | `add_line`, `add_oversize`, `reset` |
| Result CSV | `analyze/CsvWriter` | none | build the CSV |
| C++ client engine | `CLIENT/CPP/src/net/Transfer`, `Socket` | worker thread, command queue, cancel flag, busy flag, snapshot, socket | connect, upload, cancel, disconnect, destructor |
| C++ client UI | `CLIENT/CPP/src/ui`, `main.cpp` | widgets, a copy of the snapshot | the buttons and their guards, saving a result |
| C# client | `CLIENT/CSHARP` | connection, task in progress | connect, upload, cancel and drain |
| Daemon | `app/Daemon`, `main.cpp` | pid file and its lock | acquire, record, daemonize, destructor |
| Start-up | `app/Config`, `app/Signals`, `util/Logger`, `net/ServerFactory` | options | parsed once |

How they interact. The server is one libuv loop in one thread. `TcpServer`
creates a session per connection and keeps it in a map; the session calls back
`on_session_closed` when its last handle has been closed, and is destroyed
there. The session feeds the bytes of an upload to the splitter, which calls the
aggregator line by line; at `UPLOAD_END` the CSV is built and sent. Clients and
server share nothing but the connection. The C++ client has two threads, the UI
and a worker, which share a queue, a flag and a snapshot; the C# client runs
tasks on a form's thread.

What is hard, and what makes each part correct:

* Session: frames cut anywhere, several frames in one read, a synchronous write
  failure inside any handler, two handles that close in either order behind
  cancelled writes, a deferred close, timers of two kinds. It is correct if it
  is destroyed exactly when nothing points to it any more, if it always is in
  the end, if the right timer watches it, and if an upload is answered with a
  result only when everything announced was received and split.
* Server: refusals, closings and a signal in any order; `start` failing half
  way. It is correct if its limit holds, if a shutdown misses nothing and if the
  process then ends.
* Splitter: cuts at any byte, overlong lines, uploads cancelled half way. It is
  correct if what comes out does not depend on the cuts.
* Aggregator and CSV: the bucket limit, and sums that must agree.
* Client engine: a cancel in the middle of a chunk, while waiting for an answer,
  or too late; commands given from an out-of-date picture while the worker ends.
  It is correct if the window never gets stuck, no cancel and no disconnect is
  lost, a result is shown only when it is whole, and a cancel and a quit end.
* Client and server: two programs that both write, over buffers with a limit,
  and answers that come after their deadline. They are correct together if
  neither waits for the other for ever, if no answer is taken for that of
  another request, and if they agree on what a cancel has left behind.
* Pid file: instances that start, end and are killed at the same time.

The vendored libraries (libuv, spdlog, imgui, glfw) are not modelled; what the
server relies on in libuv is, as actions marked external: close callbacks run
after every pending write callback, a closing stream refuses writes, timers and
reads stop when asked.

## The modules

### TcpSession

One session from the moment `accept_one` leaves it (reading, refused, or closing
because the accept failed: the three disjuncts of `Init`) to its destruction.

* A read callback handles many frames. It is a sequence of steps with `inRead`
  true, during which no other callback runs: `FeedHeader`, `FeedPayload` and
  `FeedRefused` are the decoder's `feed`, the `Dispatch` actions are
  `dispatch_frame` and its handlers, one per state and frame type, and `EndRead`
  is the return to `on_read` with its `touch_idle`. All other callbacks are one
  step each.
* Bytes are abstracted to tokens: a control frame is one (it has no effect until
  it is complete), a chunk is a header and one token per unit of payload.
  Malformed payloads are an argument, bytes that are no header are "DATA". The
  peer is any sequence of tokens in any cut, so a chunk may be cut off by
  anything, and a payload may look like frames.
* `Send` is `send()`: it queues, or uv_write fails synchronously and `close()`
  runs inside it while the handler goes on and leaves the state as it does
  (`handle_upload_end` overwrites Closing with Ready: `Send(Result, "Ready",
  "Ready")`).
* `CloseHandles` is `close()`; `OnTcpClosed` and `OnTimerClosed` are its
  callbacks in either order, `OnWriteDone` and `OnWriteError` are `on_write`,
  `StallWarning`, `NetworkStall` and `IdleTimeout` are `on_idle_timeout`.
* Three history variables serve only the properties: `fed` (what the splitter
  got), `answer` (how the latest upload was answered), `silent` (timer slices
  since the last byte).

`UploadContract` is the abstract specification: a conversation that greets,
receives an upload of an announced size and answers it once, with a result only
if all of it has arrived, or with an error. `TcpSession!KeepsContract` is the
refinement; its mapping says that a session is over when its stream is being
closed, whatever `state_` is, and that an upload is given up when the decoder
fails although `state_` remains Uploading.

### TcpServer

`main()` and the server object. `process` follows `main()` through start, loop,
walk and end; the handles are those of the server; a session is reduced to what
the server can tell: idle, uploading, refused, closing, gone. A signal counts
only when it is caught. `session->init` is taken to succeed: uv_tcp_init and
uv_timer_init only initialise memory. That a closing session is in the end gone,
which the fairness of this module assumes, is what `ClosingEnds` shows of
`TcpSession`. Every session that is being served is closed by the signal, one that
receives an upload included; `ShutdownIsTotal` does not ask for that, but for
what must hold behind it: no handle of the server is open, no connection is
accepted, and no session is served that was not.

### LineSplitter

`feed` is one step per newline of a piece, in the order the code looks at them;
a new piece comes when the last one is used up. There are three kinds of bytes:
newline, carriage return, any other. `offset` is the session's `line_offset_`,
and `out` holds every call of `on_line` with the offset it was given. Uploads
may begin again at any time between two pieces.

### Aggregator

The path of a line from the splitter to the numbers of the result:
`parse_log_line` as the ordered `Checks` it makes, `add_line` with
`record_reject` and `bucket_for` as `RejectLine` and `AcceptLine`, `reset` as
`Begin`, and `handle_upload_end` with the sums of `build_result_csv` as `Finish`.
A line is what the parser can tell of it: the checks it fails, its module name,
its hour (the key of a bucket) and the speed fields of its payload in order.
The cached bucket is kept as the code keeps it, as an index into a sorted
sequence that later lines insert into. Speeds are integers: the compensated sum
is exact, and its rounding is out of scope. The samples of rejected lines keep
the number of the first line and not its text. The history variable `seen` is
the file, so that every property can compare a counter with its definition over
the whole file instead of with another counter.

### Ingest

The two modules before it, as `payload_chunk` and `handle_upload_end` connect
them. `UploadBegins` resets both, `ChunkArrives` gives a piece to the splitter, and
a step of `feed` or `finish` is taken together with what its callback does: the
line that has come out is parsed and added (`AddLine`), or a line was dropped, or
nothing came out (`PassedOn`). `ResultIsBuilt` follows the last line before any
other frame. What the parser makes of a text is a parameter (`Parse`): a set of
readings, each a function from texts to lines, so that the same text is always
the same line and otherwise anything; `reading` is the one that holds.
`ResultIsOfFile` says what neither module can say alone: the result of an upload
is that of its bytes.

### ClientEngine

`TransferClient` with its `TcpSocket`, and the buttons of `App` that drive it.

* The UI thread draws (`Draw` copies the snapshot and `busy_`), and one button
  the copy enables may be clicked before the next frame. `start_upload` is two
  steps, `ClickUpload` (the cancel flag is lowered) and `PushUpload` (the
  command is queued under its mutex). `Quit`, `QuitDisconnect` and `Joined` are
  the destructor, which can come at any frame.
* The worker is at the place `pc` of `run_session`, `do_upload`,
  `receive_result` or `send_cancel_and_wait`. A call of `send_all` is a sequence
  of `SendToken`, which `SendLost` or the first disjunct of `TimeOut` can end
  between any two tokens; `SendFails` is what each caller makes of that. A call
  of `read_frame` is `Takes`, `ReadRefused`, `ReadLost` or the second disjunct
  of `TimeOut`. Every path out of a session goes through `CloseSocket` and
  `EndSession`, or past the first if the handshake failed.
* The server is anything (`AnyServer`): it sends any frame, well formed or not,
  reads at its own pace, closes, and takes unread frames with it.
* A deadline may pass whenever the code is waiting. `FrameCutShort` is the one
  that leaves something behind: `send_cancel_and_wait` gives up inside a frame,
  keeps the connection, and the rest of the frame is then read as a header.
* A file may be missing, fail to open or shrink between two chunks. Where it has
  shrunk in the middle of one, `do_upload` sends what it could still read before
  it notices at the next read; that short chunk is left out.

Abstracted: tokens are those of `TcpSession` (a header is sent whole or not at
all); two fields of the snapshot that no button tells apart are set in one step;
names, statistics, the log and the throughput shown are left out; the contents
of a file is the number of the upload it belongs to. Saving a result copies
`csv_` under its mutex and does nothing if it is empty, so it has no action; what
it may find is `ResultIsWhole`.

### ClientServer

`ClientEngine`, whose server was anything, and `TcpSession`, whose peer was
anything, take each other's place: what the client sends is what `Deliver` gives
to `OnRead`, and what `Transmit` writes is what the client reads. Each way has
room for `Room` tokens or frames; the two ends close separately (`ClosedByServer`,
`ResetByServer`), and each learns of it by its own calls. The session's read
callback (`Handles`) is not interrupted: the client sees nothing of the session
but its frames. Each connection has a session of its own (`ClientConnects`): the
session of the one before may live on, but nobody reads what it answers, so it is
no longer followed. `trouble` records that a deadline passed, that the user
cancelled or that a file failed; `heard`, whether a CANCEL went out inside a
chunk or not at all; `content` and `results` are what the splitter was given,
per upload, and what each queued result was computed from.

### PidFile

Launches of the daemon that open, lock, empty and write the pid file, detach,
unlink and close it, each a system call of its own, with a kill at any place. A
path and an inode are two things: `open` finds the inode at the path or creates
one, `flock` locks whatever inode is open, `unlink` empties the path whatever is
there. `Relative` are the launches whose `--pidfile` is a relative path: after
`daemonize` has changed the directory it names nothing, at the end of the daemon
as after a step of `daemonize`, or of the log's set-up, that fails behind
`chdir`, which itself is taken to succeed. `raced` records that a
file was unlinked which another launch had opened and not locked yet.

## What TLC checks

| Run | Shows | Bounds |
|---|---|---|
| `session` | type invariant; destroyed at the last close callback and at no other moment; the timer fits the state; a deferred close has a write to wait for; the stall count is the silence; the count is what was split; the contract; whenever and however the peer stops, the session is destroyed, and once it is being closed, even if the peer never reads | sizes 0 and 2, chunks of 0 to 3 of which at most 2 are legal, an acknowledgement every 2 units, 3 slices, reads of up to 2 tokens, 2 queued writes with the tokens that may add to them, one synchronous failure |
| `server_limits` | the limit, a shutdown behind which nothing opens, a process that ends | limit 2, four connections |
| `server_shutdown` | violation | the same |
| `server_start_fails` | violation | the same |
| `splitter_long` | violation | lines of 2, pieces of up to 4, uploads of up to 7 bytes |
| `ingest` | lines are true, short lines kept, every line counted, offsets true until a line is dropped; dispositions, modules, hours, average, range and rejects are those of the lines; the two maps that grow with the input keep to their limits; the result is that of the file | lines of 2, pieces of up to 4, uploads of up to 7 bytes, 5 readings, 2 modules, 2 buckets, 1 rejected name |
| `ingest_total` | violation | the same |
| `client_any_server` | the window is never stuck, a result shown is whole, no cancel is lost, a disconnect goes before waiting uploads, a cancel and a quit end | files of one unit, one unit of data per chunk, room for one token and one frame, 2 uploads, 2 sessions |
| `client_server` | a result is that of the file sent, a cancel that was heard leaves the session ready, an upload nobody disturbs completes | files of 2 units in 2 chunks, an acknowledgement every 2 units, reads of up to 2 tokens, room for 2, 2 uploads on one connection |
| `client_cancel` | violation | the same |
| `pid_file` | two daemons only after a race with an unlink, the file names the daemon that holds it, a file that stays was left by a kill or a relative path | 3 launches, one of them relative, 3 files created |
| `pid_file_relative` | violation | the same |

Why these bounds are enough to show the interesting cases. With size 2 and
chunks up to 3 an upload is short, exact, too long, empty or too large for one
chunk, and takes one or two chunks; reads of two tokens put two frames, or the
end of a chunk and the next frame, into one callback, or cut a chunk in two; two
queued writes let a close be deferred behind one of them. A second synchronous
failure cannot happen: the first one closes the stream. `MaxWrites` keeps a peer
from sending while answers are queued: the tokens of a read and the writes that
wait are at most two together. For the splitter, a line of
exactly the limit, one above it, a line over three pieces and one inside a piece
fit in seven bytes, with another line behind them. For the aggregator, a reading
gives a line to the empty text and to four kinds of others, and seven bytes are
three of them, in any order: three hours with two buckets make one line too many;
an hour that comes again, at once or behind an earlier one, meets the cache or a
cache that has moved on; two unknown names with room for
one do the same for the rejects; a line with two flaws shows the order of the
checks; and an upload may begin anew between any two pieces, so that nothing of
the last file may remain. For the client alone, a second upload is what can be queued behind a
disconnect or meet a cancel meant for the first, a second session what can
inherit from the one before; an upload of one unit already passes every place of
the worker, and a buffer with room for one token stops every send at its second.
For the client with the server, two units in two chunks let a cancel come before,
between, inside and after the chunks, and a second upload meet every late answer
of the first. Three launches are what a race needs: the one that ends, the one
that has opened its file, and the one that creates another.

Deadlock is not checked where the system may really stop: a destroyed session,
an ended process, a closed window, launches that have all ended with no file
left to create.

Fairness. `LoopFairness`: libuv finishes a callback it has begun and in time
runs each callback that is due; this is what `uv_run` does while the process
lives, and timers fire as time passes. `DrainFairness`: queued frames in time
fit in the socket's send buffer, that is, the peer, its kernel or the
connection's failure takes them; it is assumed only in `Reclaimed` and
stands for what the code itself relies on: the idle timeout is one-shot and
waits for its ERROR to be flushed, so a peer that stays connected and never
reads keeps its session. The peer itself is never assumed to do anything. In
`TcpServer` the loop's callbacks are fair and nothing else: neither clients nor
signals. `ClientFairness`: the worker thread is scheduled, a wait ends with its
deadline, and a UI callback that has begun goes on; the user clicks or not, and
the server may do nothing for ever. `SystemFairness`: worker, loop and network
go on, and no deadline has to pass, so that `UploadCompletes` cannot be had by
timing out.

## What TLAPS proves

Every safety property that a passing run checks, the action properties of the
server and of the client included, for all values of the constants. Each module of proofs has an
inductive invariant, lemmas that go through the actions one by one, and the
properties at its end.

`TcpSession_proofs`: `SessionInvariant`, that `Inv` holds for all sizes, chunk
sizes, limits and bounds, and from it the type invariant, `DestroyedAtLastClose`,
`TimerFitsState`, `StallCountsSilence`, `FlushIsPending` and `CountIsFed`.
None of these is inductive alone. `OpenTogether` says that the two handles are
open or not together and that only an open stream is read, watched or uploaded
to; it is what remains true when a handler overwrites Closing. `Settled` says
that between callbacks no frame is half dispatched and that within one the peer
has just spoken. The proof has lemmas on sequences and on `Send` and
`CloseHandles`, which most handlers end in, and then one per action.

In its second half, `SessionKeepsContract`: the session implements
`UploadContract`. Beside `Inv` it needs `Answered`: before the greeting nothing
has been answered, and an upload whose decoder has failed has been answered by
an ERROR. The steps are sorted by what the client sees of them (nothing, an end,
an upload given up, a beginning, more bytes, an answer); each is one lemma that
gives the contract's step.

`TcpServer_proofs`: `ServerInvariant` for every limit and number of connections,
and from it the type invariant, `ServedWithinLimit` and `ShutdownIsTotal`. The
limit holds because the sessions served are always among those mapped, and a
session is served only if the map with it was within the limit; every other step
serves no new session. A shutdown stays total because all three handles are shut
by the step that begins it (`HandlesShut`), and none is opened by any other step
than `start`, which no shutdown precedes (`StartsClean`).

`LineSplitter_proofs`: `CarryBounded`, the splitter's type invariant, whose
point is that `carry_` never outgrows `max_line_`: the memory a session spends
on its input is bounded whatever the peer sends. It rests on `memchr` finding
the first newline (`FirstNewlineFound`, from the well-ordering `LeastOf`), and
on `RestFits`, that what remains of a piece is a sequence of bytes after any
cut. Then what comes out, for every input and every cut of it: `LinesAreTrue`,
`ShortLinesKept`, `EveryLineCounted` and `OffsetsTrue`. The invariant `SInv` adds
where the splitter is in the file (`Looks`): the rest of the piece is the part of
the file behind what was consumed; `carry_` is exactly what was seen of the line
that has begun, unless that line is being discarded, and then it is already
longer than the limit; the offset is where the line begins until a first line
has been dropped. That only a touched piece boundary can drop a line (finding 3)
is why `LinesAreTrue` speaks of the lines that came out and `ShortLinesKept` of
the short ones.

`Aggregator_proofs`: `AggregatorInvariant`, for every whitelist, every limit of
buckets and names and files of any length, and from it the type invariant,
`CountsAreTrue`, `HoursAreTrue`, `AverageIsTrue`, `RangeTrueWithinBuckets` and
`RejectsAreTrue`. The invariant compares each counter with the set of lines it
counts. The sum of the speeds, and that of the rejected lines (`SumHolds`: the
dispositions sum to the lines added and those dropped), are folds over sets, whose
value cannot be had by induction here; a sum is instead shown to be the number of its units
(pairs of an element and a number up to its value), because a smallest subset on
which the two differed would have a smaller one (`OneSum`). The buckets stay
sorted because the hours below a new one are an initial interval of the sequence
(`DownSet`), so that `lower_bound` gives the place where `InsertAt` keeps the
order; the cached index remains that of the cached hour because every insertion
renews the cache. `HoursCounted` and `NamesCounted` say in addition that an hour
or a name without an entry has met a full map: a new entry therefore belongs to
the first line of its kind, and its count starts right. `RangeKept` holds only
while every accepted line has its bucket, as the property does.

`Ingest_proofs`: the composition does nothing to either part that the part cannot
do alone (`IngestSplits`, `IngestAggregates`), and `ResultStaysOfFile`, for every
limit, every set of readings and uploads of any size. `Joined` says how the two
stand to each other: as many lines added as came out, each as the parser reads it,
as many counted as dropped as the splitter dropped, and a result only when the
splitter has ended. A line that comes out is one the parser has a reading of
because `LinesAreTrue` makes it a part of the upload (`OutIsText`). When no line is
overlong, `ShortLinesKept` says that every line came out; their ends rise, so the
place of a line among them is its number in the file (`PlacesAreRanks`).

`ClientEngine_proofs`: `ClientInvariant`, for files, chunks, results and buffers
of any size, any number of uploads and sessions, and a server that does
anything; from it the type invariant, `WindowUsable`, `ResultIsWhole`, and the
action properties `CancelNeverLost` and `DisconnectFirst`. The invariant says
what the place of the worker determines: the busy flag, the phase and the
connection of the snapshot, the state of the socket, what is left to send, and
what is kept of a result. `CancelFits` ties the two threads: a window that was
drawn while nothing was transferred, with a cancel pending, is not out of date,
because a pending cancel keeps the next upload from being acknowledged. Without
it a click on Upload could lower a flag that was meant for a running transfer.

`ClientServer_proofs`: `SystemInvariant`, that `SystemInv` holds of the client and
its session together, for files and chunks of any size, buffers with any room, any
number of uploads and connections, and cancels, deadlines and lost connections at
any moment; from it `ResultIsOwn` and `HeardCancelReturnsToReady`. What each end
proved of itself is of little use here, because it was proved against a partner
that may do anything; `Basics` has what is needed of either end alone, `Agreement`
what each may rely on in the other and in what is under way between them:

* `GreetingFits`, `BeginFits`: the client asks for an upload once and says nothing
  more until it is acknowledged. So, when the session accepts the upload, nothing
  stands behind the UPLOAD_BEGIN, and the session is at the start of a frame.
* `FramingFits`, `ContentFits`: therefore it makes out every chunk, and what it
  splits is the file. A cancel inside a chunk breaks this, but only until the next
  upload: its UPLOAD_BEGIN is either payload, and is never acknowledged, or is
  handled as a frame, and then the session is at the start of one again.
* `AckFits`, `ResultFits`: the acknowledgement stands behind every older result,
  which the client has read, and dropped, by the time it reads it; no result is
  under way while the session is uploading, and never more than one is unsent.
  With the content this gives `ResultTrue`, that whatever result the client can
  meet in an upload is that of its file, and with it `ResultIsOwn`.
* `CancelFits`: a CANCEL that went out between two frames is still on its way as
  long as the session uploads; once nothing is under way, it does not.

The proof has lemmas on the order of frames and on framing (`Framed`: what taking
a token, a header or a whole chunk from the front does to it), then for each step
of either end what it does to the two buffers, and from that each part of the
invariant.

`PidFile_proofs`: `PidFileInvariant`, for any launches, any of them with a
relative path, and any number of files; from it `HolderIsNamed`,
`OneUnlessRaced` and `FileLeftByStray`. The invariant says who holds which lock
and what stands in its file at each place, that without a race the file an
instance has open and has not unlinked is the one at the path, that an instance
which has unlinked and still finds its file there had a relative path, and that
without a kill the file at the path is in use or was missed by such a daemon.

The assumptions are those of the modules: `SessionAssumption`,
`ServerAssumption`, `SplitterAssumption`, `ClientAssumption` and, for the two
together, `SystemAssumption`, that sizes and limits are numbers and intervals,
chunks and buffers positive;
`AggregatorAssumption`, that lines have the fields of a line; `IngestAssumption`,
that a reading gives a line to every text; and `PidFileAssumption`, that `Relative` are launches and `Nobody` is none.

Only model-checked:

* Liveness, which TLAPS cannot prove under fairness: `Reclaimed`, `ClosingEnds`,
  `SignalEndsProcess`, `QuitEnds`, `CancelEnds`, `UploadCompletes`. The
  safety that `Reclaimed` and `ClosingEnds` rest on is proved: a timer fits every
  state, and behind a deferred close there is a write to wait for.

## Where code and documentation disagree

1. `server_start_fails`. When `start` fails after `uv_tcp_init`, the listener
   handle of the destroyed server is still in the loop that `main` walks.
2. `server_shutdown`. `src/README.md:343-345` says that the server finishes
   in-flight sessions on SIGTERM; `begin_shutdown` (`TcpServer.cpp:192-203`) closes
   them, in the middle of an upload too, and the client gets no answer.
3. `splitter_long`. A line longer than `max_line` is dropped only if it touches
   a piece boundary; inside one piece it is passed on. The comment at
   `LineSplitter.h:21` says it is dropped, and the test file says the result
   does not depend on the cut.
4. `ingest_total`. The dispositions of a result count the dropped lines
   (`CsvWriter.cpp:191-193`) and `total_lines` does not; the comment at
   `CsvWriter.cpp:178` and the TOTAL row itself (`:195`) say that they sum to it.
   `ResultIsOfFile` has what holds: they sum to the lines of the file.
5. `client_cancel`. A cancel may stop `send_all` inside a chunk
   (`Transfer.cpp:624-627`); the CANCEL behind it is payload to the server, no
   ERROR comes, and after five seconds the client shows Cancelled on a
   connection whose session is still uploading. The comments at
   `Transfer.cpp:593` and `598` say that the cancel is judged before any I/O and
   that the session returns to Ready. The next upload on the connection fails.
   `HeardCancelReturnsToReady` is what is left: a CANCEL sent between two frames
   does what the comments say, even if its answer is late.
6. `pid_file_relative`. With a relative `--pidfile` the daemon's destructor
   unlinks a path that names nothing after `chdir("/")`, and the file stays.

Differences seen while modelling, without a run of their own:

* A client that sends more than it declared is not disconnected at once
  (`TcpSession.cpp:277`): until the ERROR is flushed it is still read. It is
  disconnected in the end (`Reclaimed`).
* After a dropped line every byte offset reported is short (`Aggregator.h:54`
  says byte offset); `OffsetsTrue` is about the lines before it.
* A line whose hour gets no bucket counts its speed in the average and returns
  before `spd_min` and `spd_max` (`Aggregator.cpp:156-171`).
* Two daemons can run if one has opened the pid file before the other unlinks it
  and locks it after (`Daemon.cpp:115`), which is why `OneUnlessRaced` has its
  premise.
* A CANCEL that reaches the server after its result has been sent is ignored
  (`TcpSession.cpp`, Ready). The C++ client waits for an ERROR only, so such a
  cancel lasts its five seconds; the C# client also takes RESULT_END.
* A cancel that is clicked before a queued upload begins makes the send of
  UPLOAD_BEGIN fail and ends the connection as Failed, where the comment at
  `Transfer.cpp:143` expects the upload to be cancelled at its start.
* A server that keeps an idle client's buffer filled keeps the worker from its
  commands (`Transfer.cpp:380`). The server of this repository does not.

## Not modelled, and why

* The C# client. It is a second implementation of the conversation, in tasks on
  a form's thread. What the server sees of it is any sequence of frames, which
  `session` has; its chunk writes cannot be interrupted, so the fifth
  finding does not apply to it. Its cancel and drain
  (`ServerConnection.cs:948`) remain a hazard without a property.
* The rest of the UI (drawing, file browser, log window), option parsing, log
  formatting, the signal disposition and the factory: no state that two steps
  could disagree about.
* The CSV layout and the number formats; what each field check of the parser
  accepts, character by character; the rounding of the compensated sum (TLA+ has
  no floating-point numbers).
* Address resolution and the order in which addresses are tried: `Connected` or
  `ConnectFails`.
* The vendored libraries, beyond the external actions; tests, scripts and
  packaging, which were read as documentation.

## What could come next

Every safety property of the runs is proved, and the liveness properties are out
of the prover's reach. What would add to the project is a model of the C# client's
cancel and drain beside the same session, a property for the idle loop of the C++
client that needs a server which never falls silent, and, if the code of the fifth
finding is changed so that a chunk is always sent whole, the stronger
`CancelledIsReady`, whose proof would be that of `HeardCancelReturnsToReady`
without its premise on where the CANCEL went out.
