------------------------------ MODULE PidFile ------------------------------
(***************************************************************************)
(* The pid file of the daemon (class PidFile, and main.cpp where it uses   *)
(* it): it keeps a second instance from starting and tells which process   *)
(* is the first.                                                           *)
(*                                                                         *)
(* An instance is a launch: the launcher, and after daemonize() the daemon *)
(* it has become, which has another pid and the same open file and lock.   *)
(* The file at the path is an inode; open() finds the one at the path or   *)
(* puts a new one there, flock() locks an inode wherever it is, unlink()   *)
(* empties the path whatever inode is there, and the kernel releases the   *)
(* lock of a process that ends.  Other instances act between any two of    *)
(* these calls.                                                            *)
(***************************************************************************)
EXTENDS Naturals, FiniteSets

CONSTANTS
  Instances,    \* launches of the daemon that can be there at one time
  Relative,     \* those whose --pidfile is relative to the directory they start in
  MaxInodes     \* bound: pid files created

Nobody == "nobody"

ASSUME PidFileAssumption ==
  /\ Nobody \notin Instances
  /\ Relative \subseteq Instances
  /\ MaxInodes \in Nat

VARIABLES
  path,     \* the inode at the path, 0 if there is no file
  inodes,   \* how many have been created
  content,  \* the pid in each inode, NoPid if it is empty
  lock,     \* the instance that holds the lock of each inode, or Nobody
  fd,       \* the inode each instance has open, 0 if none
  pc,       \* where each instance is
  raced,    \* history: a file was unlinked that another instance had opened and
            \* not yet locked
  crashed   \* history: an instance has ended without its destructors

vars == <<path, inodes, content, lock, fd, pc, raced, crashed>>

NoPid == <<Nobody, "none">>

Inodes == 1 .. MaxInodes

Init ==
  /\ path = 0 /\ inodes = 0
  /\ content = [i \in Inodes |-> NoPid]
  /\ lock = [i \in Inodes |-> Nobody]
  /\ fd = [p \in Instances |-> 0]
  /\ pc = [p \in Instances |-> "off"]
  /\ raced = FALSE /\ crashed = FALSE

\* The instance goes from one place to the next.
Goes(p, from, to) ==
  /\ pc[p] = from
  /\ pc' = [pc EXCEPT ![p] = to]

-----------------------------------------------------------------------------
(* acquire().                                                              *)

\* open(path, O_CREAT)
Open(p) ==
  /\ Goes(p, "off", "opened")
  /\ \/ path # 0 /\ fd' = [fd EXCEPT ![p] = path] /\ UNCHANGED <<path, inodes>>
     \/ /\ path = 0 /\ inodes < MaxInodes
        /\ inodes' = inodes + 1
        /\ path' = inodes'
        /\ fd' = [fd EXCEPT ![p] = inodes']
  /\ UNCHANGED <<content, lock, raced, crashed>>

\* A faulty acquire: an instance that has not written its pid yet does not
\* count as running.
LockUnlessRecorded(p) ==
  /\ Goes(p, "opened", "locked")
  /\ content[fd[p]] = NoPid
  /\ lock' = [lock EXCEPT ![fd[p]] = p]
  /\ UNCHANGED <<path, inodes, content, fd, raced, crashed>>

\* flock succeeds.
Lock(p) ==
  /\ Goes(p, "opened", "locked")
  /\ lock[fd[p]] = Nobody
  /\ lock' = [lock EXCEPT ![fd[p]] = p]
  /\ UNCHANGED <<path, inodes, content, fd, raced, crashed>>

\* flock fails: the instance reads the pid in the file, reports it and ends;
\* its destructor does nothing, for it has closed the file.
Refused(p) ==
  /\ Goes(p, "opened", "off")
  /\ lock[fd[p]] # Nobody
  /\ fd' = [fd EXCEPT ![p] = 0]
  /\ UNCHANGED <<path, inodes, content, lock, raced, crashed>>

\* record_pid(): the file is emptied, then the pid written.  The launcher and
\* the daemon each do it.
Places == [locked |-> "emptied", detached |-> "emptied again"]

Truncate(p) ==
  /\ pc[p] \in DOMAIN Places /\ Goes(p, pc[p], Places[pc[p]])
  /\ content' = [content EXCEPT ![fd[p]] = NoPid]
  /\ UNCHANGED <<path, inodes, lock, fd, raced, crashed>>

RecordLauncher(p) ==
  /\ Goes(p, "emptied", "held")
  /\ content' = [content EXCEPT ![fd[p]] = <<p, "launcher">>]
  /\ UNCHANGED <<path, inodes, lock, fd, raced, crashed>>

\* A faulty main: the pid is recorded before the process detaches only.
RunsUnrecorded(p) ==
  /\ Goes(p, "emptied again", "running")
  /\ content' = [content EXCEPT ![fd[p]] = <<p, "launcher">>]
  /\ UNCHANGED <<path, inodes, lock, fd, raced, crashed>>

RecordDaemon(p) ==
  /\ Goes(p, "emptied again", "running")
  /\ content' = [content EXCEPT ![fd[p]] = <<p, "daemon">>]
  /\ UNCHANGED <<path, inodes, lock, fd, raced, crashed>>

-----------------------------------------------------------------------------
(* daemonize(), and the end of main.                                       *)

\* Two forks and chdir("/").
Daemonize(p) ==
  /\ Goes(p, "held", "detached")
  /\ UNCHANGED <<path, inodes, content, lock, fd, raced, crashed>>

\* A faulty destructor: the lock is given back and the file left.
KeepsFile(p) ==
  /\ pc[p] \in {"held", "detached", "running"} /\ Goes(p, pc[p], "unlinked")
  /\ UNCHANGED <<path, inodes, content, lock, fd, raced, crashed>>

\* The destructor, after a fork, /dev/null or a log file that failed or at the
\* end of main: unlink first, by the path as it was given.  daemonize() has made
\* "/" the directory of the daemon, where a relative path names no file.
Unlink(p) ==
  /\ pc[p] \in {"held", "detached", "running"} /\ Goes(p, pc[p], "unlinked")
  /\ path' = IF pc[p] # "held" /\ p \in Relative THEN path ELSE 0
  /\ raced' = (raced \/ (path' # path /\ \E q \in Instances :
                            pc[q] = "opened" /\ fd[q] \in {path, fd[p]}))
  /\ UNCHANGED <<inodes, content, lock, fd, crashed>>

Release(p) ==
  /\ lock' = [i \in Inodes |-> IF lock[i] = p THEN Nobody ELSE lock[i]]
  /\ fd' = [fd EXCEPT ![p] = 0]

\* ... then close, which gives the lock back.
CloseFile(p) ==
  /\ Goes(p, "unlinked", "off")
  /\ Release(p)
  /\ UNCHANGED <<path, inodes, content, raced, crashed>>

\* A kill: the kernel closes the file, and leaves it at the path.
Crash(p) ==
  /\ pc[p] # "off" /\ Goes(p, pc[p], "off")
  /\ Release(p)
  /\ crashed' = TRUE
  /\ UNCHANGED <<path, inodes, content, raced>>

Step(p) == \/ Open(p) \/ Lock(p) \/ Refused(p)
           \/ Truncate(p) \/ RecordLauncher(p) \/ RecordDaemon(p)
           \/ Daemonize(p) \/ Unlink(p) \/ CloseFile(p) \/ Crash(p)

Next == \E p \in Instances : Step(p)

Spec == Init /\ [][Next]_vars

-----------------------------------------------------------------------------
(* Properties.                                                             *)

Running == {p \in Instances : pc[p] = "running"}

\* PidFile: "a lock that is held means that another instance is up", so that
\* two never are (Daemon.h:22-23).
OneInstance == Cardinality(Running) <= 1

\* Two daemons never run, across crashes and starts at the same moment, unless
\* one opened the file before the other's destructor unlinked it and locked it
\* after (Daemon.cpp, acquire and ~PidFile).
OneUnlessRaced == ~raced => OneInstance

\* The file a daemon holds names the daemon, and no other instance's start has
\* touched it; it is the one at the path unless a file in use was unlinked
\* (Daemon.cpp, record_pid and ~PidFile; main.cpp).
HolderIsNamed ==
  \A p \in Running : /\ lock[fd[p]] = p
                     /\ content[fd[p]] = <<p, "daemon">>
                     /\ ~raced => path = fd[p]

\* Every instance has ended and none was killed.
AllEnded == (\A p \in Instances : pc[p] = "off") /\ ~crashed

\* A file that is left when every instance has ended was left by a kill, or by
\* a launch that could no longer find it (Daemon.cpp, daemonize and ~PidFile).
FileLeftByStray == AllEnded /\ path # 0 => content[path][1] \in Relative

\* ~PidFile: the file is removed to make it clear that no daemon is up.
FileMeansUp == AllEnded => path = 0

=============================================================================
