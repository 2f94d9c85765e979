----------------------------- MODULE PidFile_proofs -----------------------------
(***************************************************************************)
(* What the pid file says, for any set of launches, any of them with a     *)
(* relative path, and any number of files created.                         *)
(***************************************************************************)
EXTENDS PidFile, FiniteSetTheorems, TLAPS

\* Between flock and close an instance holds the lock of the file it has open.
Holding == {"locked", "emptied", "held", "detached", "emptied again", "running",
            "unlinked"}

\* From open to unlink an instance takes its file for the one at the path.
Trusting == {"opened"} \cup (Holding \ {"unlinked"})

Pids == (Instances \X {"launcher", "daemon"}) \cup {NoPid}

Types ==
  /\ inodes \in 0 .. MaxInodes
  /\ path \in 0 .. inodes
  /\ content \in [Inodes -> Pids]
  /\ lock \in [Inodes -> Instances \cup {Nobody}]
  /\ fd \in [Instances -> 0 .. inodes]
  /\ pc \in [Instances -> {"off", "opened"} \cup Holding]

Flags == raced \in BOOLEAN /\ crashed \in BOOLEAN

\* An instance has a file open until it ends, and it is the holder of that
\* file's lock, and of no other, exactly in the places between.
LocksFitPlaces ==
  \A p \in Instances :
    /\ fd[p] = 0 <=> pc[p] = "off"
    /\ \A i \in Inodes : lock[i] = p <=> pc[p] \in Holding /\ fd[p] = i

\* What the holder of a file has written there is what stands there.
ContentFitsPlaces ==
  \A p \in Instances :
    /\ pc[p] \in {"held", "detached"} => content[fd[p]] = <<p, "launcher">>
    /\ pc[p] = "running" => content[fd[p]] = <<p, "daemon">>

\* Without a race, the file an instance has open and has not unlinked is the
\* one at the path.
PathIsTrusted ==
  ~raced => \A p \in Instances : pc[p] \in Trusting => path = fd[p]

\* An instance that has unlinked and finds its file at the path all the same has
\* a relative path, and its pid, or that of its launcher, stands there.
UnlinkMissed ==
  \A p \in Instances :
    pc[p] = "unlinked" /\ fd[p] = path => p \in Relative /\ content[path][1] = p

\* Without a crash, the file at the path is in use or was missed by such a daemon.
FileHasOwner ==
  ~crashed /\ path # 0 =>
    \/ \E p \in Instances : fd[p] = path
    \/ content[path][1] \in Relative

UnflaggedInv == /\ Types /\ LocksFitPlaces /\ ContentFitsPlaces /\ PathIsTrusted
                /\ UnlinkMissed /\ FileHasOwner

Inv == UnflaggedInv /\ Flags

-----------------------------------------------------------------------------
(* Init.                                                                   *)

LEMMA PidsAreWritten ==
  /\ NoPid \in Pids
  /\ \A p \in Instances : <<p, "launcher">> \in Pids /\ <<p, "daemon">> \in Pids
BY DEF Pids

LEMMA InitInv == Init => Inv
<1> SUFFICES ASSUME Init PROVE Inv
  OBVIOUS
<1> USE PidFileAssumption DEF Init
<1>1. Types
  BY PidsAreWritten DEF Types, Holding
<1>2. LocksFitPlaces
  BY DEF LocksFitPlaces, Holding
<1>3. ContentFitsPlaces /\ PathIsTrusted /\ UnlinkMissed /\ FileHasOwner
  BY DEF ContentFitsPlaces, PathIsTrusted, UnlinkMissed, FileHasOwner, Trusting, Holding
<1> QED
  BY <1>1, <1>2, <1>3 DEF Inv, UnflaggedInv, Flags

-----------------------------------------------------------------------------
(* One lemma per action.                                                   *)

\* An open file is one that has been created, and the one its holder has locked.
LEMMA OpenFileIsInode ==
  ASSUME Inv, NEW p \in Instances, pc[p] # "off"
  PROVE  fd[p] \in Inodes /\ (pc[p] \in Holding => lock[fd[p]] = p)
BY PidFileAssumption DEF Inv, UnflaggedInv, Types, LocksFitPlaces, Inodes

\* The two history flags are set and never cleared.
LEMMA FlagsKept ==
  ASSUME Inv, NEW p \in Instances, Step(p)
  PROVE  Flags' /\ (raced => raced') /\ (crashed => crashed')
BY Zenon DEF Inv, Flags, Step, Open, Lock, Refused, Truncate, RecordLauncher, RecordDaemon,
             Daemonize, Unlink, CloseFile, Crash

\* A file at the path is one that has been created.
LEMMA CreatedFiles == ASSUME Types PROVE path # 0 => path \in Inodes
<1>1. path \in 0 .. inodes /\ inodes \in 0 .. MaxInodes /\ MaxInodes \in Nat
  BY PidFileAssumption DEF Types
<1> QED
  BY <1>1 DEF Inodes

LEMMA OpenInv == ASSUME Inv, NEW p \in Instances, Open(p) PROVE UnflaggedInv'
<1>1. Types /\ LocksFitPlaces /\ ContentFitsPlaces /\ PathIsTrusted /\ UnlinkMissed
  BY DEF Inv, UnflaggedInv
<1>2. /\ pc[p] = "off" /\ pc' = [pc EXCEPT ![p] = "opened"]
      /\ UNCHANGED <<content, lock, raced, crashed>>
  BY DEF Open, Goes
<1>3. \/ path # 0 /\ path' = path /\ inodes' = inodes
      \/ path = 0 /\ path' = inodes + 1 /\ inodes' = inodes + 1
  BY DEF Open
<1>4. /\ fd' = [fd EXCEPT ![p] = path'] /\ path' # 0
      /\ inodes' \in 0 .. MaxInodes /\ path' \in 0 .. inodes' /\ inodes <= inodes'
      /\ inodes \in Nat
  BY <1>1, PidFileAssumption DEF Open, Types
<1>5. \A q \in Instances : fd[q] \in 0 .. inodes
  BY <1>1 DEF Types
<1>6. fd' \in [Instances -> 0 .. inodes']
  BY <1>1, <1>4, <1>5, PidFileAssumption DEF Types
<1>7. Types'
  BY <1>1, <1>2, <1>4, <1>6 DEF Types
<1>8. LocksFitPlaces'
  <2>1. \A q \in Instances : fd'[q] = 0 <=> pc'[q] = "off"
    BY <1>1, <1>2, <1>4 DEF Types, LocksFitPlaces
  <2>2. ASSUME NEW q \in Instances, NEW i \in Inodes
        PROVE  lock'[i] = q <=> pc'[q] \in Holding /\ fd'[q] = i
    <3>1. CASE q = p
      BY <1>1, <1>2, <3>1 DEF Types, LocksFitPlaces, Holding
    <3>2. CASE q # p
      BY <1>1, <1>2, <1>4, <3>2 DEF Types, LocksFitPlaces
    <3> QED
      BY <3>1, <3>2
  <2> QED
    BY <2>1, <2>2 DEF LocksFitPlaces
<1>9. ContentFitsPlaces'
  BY <1>1, <1>2, <1>4 DEF Types, ContentFitsPlaces
<1>10. PathIsTrusted'
  <2> SUFFICES ASSUME ~raced', NEW q \in Instances, pc'[q] \in Trusting
               PROVE  path' = fd'[q]
    BY DEF PathIsTrusted
  <2>1. CASE q = p
    BY <1>1, <1>4, <2>1 DEF Types
  <2>2. CASE q # p
    <3>1. pc[q] \in Trusting /\ pc[q] # "off" /\ path = fd[q] /\ fd'[q] = fd[q]
      BY <1>1, <1>2, <1>4, <2>2 DEF Types, PathIsTrusted, Trusting, Holding
    <3> QED
      BY <1>1, <1>3, <3>1 DEF LocksFitPlaces
  <2> QED
    BY <2>1, <2>2
<1>11. UnlinkMissed'
  <2>1. ASSUME NEW q \in Instances, pc'[q] = "unlinked", fd'[q] = path'
        PROVE  path' = path /\ q # p /\ fd'[q] = fd[q] /\ pc[q] = "unlinked"
    BY <1>1, <1>2, <1>3, <1>4, <1>5, <2>1 DEF Types
  <2> QED
    BY <1>1, <1>2, <2>1 DEF UnlinkMissed
<1>12. FileHasOwner'
  BY <1>1, <1>4 DEF Types, FileHasOwner
<1> QED
  BY <1>7, <1>8, <1>9, <1>10, <1>11, <1>12 DEF UnflaggedInv

\* Locks fit places as long as an instance that holds one goes on holding it.
LEMMA StillHolding ==
  ASSUME Inv, NEW p \in Instances, NEW to \in Holding, pc[p] \in Holding,
         pc' = [pc EXCEPT ![p] = to], UNCHANGED <<lock, fd>>
  PROVE  LocksFitPlaces' /\ pc' \in [Instances -> {"off", "opened"} \cup Holding]
<1>1. Types /\ LocksFitPlaces
  BY DEF Inv, UnflaggedInv
<1>2. pc' \in [Instances -> {"off", "opened"} \cup Holding]
  BY <1>1 DEF Types
<1>3. \A q \in Instances : pc'[q] \in Holding <=> pc[q] \in Holding
  BY <1>1 DEF Types
<1>4. "off" \notin Holding
  BY DEF Holding
<1>5. \A q \in Instances : pc'[q] = "off" <=> pc[q] = "off"
  BY <1>1, <1>4 DEF Types
<1> QED
  BY <1>1, <1>2, <1>3, <1>5 DEF LocksFitPlaces

LEMMA LockInv == ASSUME Inv, NEW p \in Instances, Lock(p) PROVE UnflaggedInv'
<1>1. Types /\ LocksFitPlaces /\ ContentFitsPlaces /\ PathIsTrusted /\ UnlinkMissed /\ FileHasOwner
  BY DEF Inv, UnflaggedInv
<1>2. /\ pc[p] = "opened" /\ pc' = [pc EXCEPT ![p] = "locked"]
      /\ lock[fd[p]] = Nobody /\ lock' = [lock EXCEPT ![fd[p]] = p]
      /\ UNCHANGED <<path, inodes, content, fd, raced, crashed>>
  BY DEF Lock, Goes
<1>3. fd[p] \in Inodes
  BY <1>2, OpenFileIsInode
<1>4. Types'
  BY <1>1, <1>2, <1>3 DEF Types, Holding
<1>5. LocksFitPlaces'
  <2>1. \A q \in Instances : fd'[q] = 0 <=> pc'[q] = "off"
    BY <1>1, <1>2 DEF Types, LocksFitPlaces
  <2>2. ASSUME NEW q \in Instances, NEW i \in Inodes
        PROVE  lock'[i] = q <=> pc'[q] \in Holding /\ fd'[q] = i
    <3>1. CASE q = p
      <4>1. lock[i] # p
        BY <1>1, <1>2, PidFileAssumption DEF LocksFitPlaces, Holding
      <4> QED
        BY <1>1, <1>2, <1>3, <3>1, <4>1 DEF Types, Holding
    <3>2. CASE q # p
      <4>1. lock[i] = q <=> pc[q] \in Holding /\ fd[q] = i
        BY <1>1 DEF LocksFitPlaces
      <4> QED
        BY <1>1, <1>2, <1>3, <3>2, <4>1, PidFileAssumption DEF Types
    <3> QED
      BY <3>1, <3>2
  <2> QED
    BY <2>1, <2>2 DEF LocksFitPlaces
<1>6. ContentFitsPlaces' /\ PathIsTrusted'
  BY <1>1, <1>2 DEF Types, ContentFitsPlaces, PathIsTrusted, Trusting, Holding
<1>7. UnlinkMissed' /\ FileHasOwner'
  BY <1>1, <1>2 DEF Types, UnlinkMissed, FileHasOwner
<1> QED
  BY <1>4, <1>5, <1>6, <1>7 DEF UnflaggedInv

LEMMA RefusedInv == ASSUME Inv, NEW p \in Instances, Refused(p) PROVE UnflaggedInv'
<1>1. Types /\ LocksFitPlaces /\ ContentFitsPlaces /\ PathIsTrusted /\ UnlinkMissed
  BY DEF Inv, UnflaggedInv
<1>2. /\ pc[p] = "opened" /\ pc' = [pc EXCEPT ![p] = "off"]
      /\ lock[fd[p]] # Nobody /\ fd' = [fd EXCEPT ![p] = 0]
      /\ UNCHANGED <<path, inodes, content, lock, raced, crashed>>
  BY DEF Refused, Goes
<1>3. fd[p] \in Inodes
  BY <1>2, OpenFileIsInode
<1>4. Types'
  BY <1>1, <1>2, PidFileAssumption DEF Types
<1>5. LocksFitPlaces'
  <2>1. \A q \in Instances : fd'[q] = 0 <=> pc'[q] = "off"
    BY <1>1, <1>2 DEF Types, LocksFitPlaces
  <2>2. ASSUME NEW q \in Instances, NEW i \in Inodes
        PROVE  lock'[i] = q <=> pc'[q] \in Holding /\ fd'[q] = i
    <3>1. CASE q = p
      BY <1>1, <1>2, <3>1 DEF Types, LocksFitPlaces, Holding
    <3>2. CASE q # p
      BY <1>1, <1>2, <3>2 DEF Types, LocksFitPlaces
    <3> QED
      BY <3>1, <3>2
  <2> QED
    BY <2>1, <2>2 DEF LocksFitPlaces
<1>6. ContentFitsPlaces' /\ PathIsTrusted'
  BY <1>1, <1>2 DEF Types, ContentFitsPlaces, PathIsTrusted, Trusting, Holding
<1>7. UnlinkMissed'
  BY <1>1, <1>2 DEF Types, UnlinkMissed
<1>8. FileHasOwner'
  <2>1. PICK q \in Instances : lock[fd[p]] = q
    BY <1>1, <1>2, <1>3 DEF Types
  <2>2. fd[q] = fd[p] /\ q # p
    <3>1. pc[q] \in Holding /\ fd[q] = fd[p]
      BY <1>1, <1>3, <2>1 DEF LocksFitPlaces
    <3>2. pc[p] \notin Holding
      BY <1>2 DEF Holding
    <3> QED
      BY <3>1, <3>2
  <2>3. fd'[q] = fd[q] /\ \A i \in Instances : i # p => fd'[i] = fd[i]
    BY <1>1, <1>2, <2>2 DEF Types
  <2>4. (\E i \in Instances : fd[i] = path) => \E i \in Instances : fd'[i] = path
    BY <2>2, <2>3
  <2> QED
    BY <1>2, <2>4 DEF Inv, UnflaggedInv, FileHasOwner
<1> QED
  BY <1>4, <1>5, <1>6, <1>7, <1>8 DEF UnflaggedInv

\* A pid is written, or the file emptied, by the holder of its lock; no other
\* instance is in a place where it has written.
LEMMA WriteInv ==
  ASSUME Inv, NEW p \in Instances, Truncate(p) \/ RecordLauncher(p) \/ RecordDaemon(p)
  PROVE  UnflaggedInv'
<1>1. Types /\ LocksFitPlaces /\ ContentFitsPlaces /\ PathIsTrusted /\ UnlinkMissed /\ FileHasOwner
  BY DEF Inv, UnflaggedInv
<1>2. /\ pc[p] \in {"locked", "emptied", "detached", "emptied again"}
      /\ UNCHANGED <<path, inodes, lock, fd, raced, crashed>>
  BY DEF Truncate, RecordLauncher, RecordDaemon, Goes, Places
<1>3. fd[p] \in Inodes /\ lock[fd[p]] = p /\ pc[p] \in Holding
  BY <1>2, OpenFileIsInode DEF Holding
<1>4. PICK to \in {"emptied", "emptied again", "held", "running"},
           new \in {NoPid, <<p, "launcher">>, <<p, "daemon">>} :
        /\ pc' = [pc EXCEPT ![p] = to]
        /\ content' = [content EXCEPT ![fd[p]] = new]
        /\ to = "held" => new = <<p, "launcher">>
        /\ to = "running" => new = <<p, "daemon">>
  <2>1. CASE Truncate(p)
    <3>1. pc[p] = "locked" \/ pc[p] = "detached"
      BY <2>1 DEF Truncate, Places
    <3>2. pc' = [pc EXCEPT ![p] = Places[pc[p]]] /\ content' = [content EXCEPT ![fd[p]] = NoPid]
      BY <2>1 DEF Truncate, Goes
    <3>3. Places["locked"] = "emptied" /\ Places["detached"] = "emptied again"
      BY DEF Places
    <3> QED
      BY <3>1, <3>2, <3>3
  <2>2. CASE RecordLauncher(p)
    BY <2>2 DEF RecordLauncher, Goes
  <2>3. CASE RecordDaemon(p)
    BY <2>3 DEF RecordDaemon, Goes
  <2> QED
    BY <2>1, <2>2, <2>3
<1>5. new \in Pids /\ to \in Holding \ {"unlinked"}
  BY PidsAreWritten DEF Holding
<1>6. Types'
  BY <1>1, <1>2, <1>3, <1>4, <1>5 DEF Types
<1>7. LocksFitPlaces'
  BY <1>2, <1>3, <1>4, <1>5, StillHolding
<1>8. \A q \in Instances : q # p /\ pc[q] \in Holding => fd[q] # fd[p]
  BY <1>1, <1>3 DEF LocksFitPlaces
<1>9. ContentFitsPlaces'
  <2> SUFFICES ASSUME NEW q \in Instances
               PROVE  /\ pc'[q] \in {"held", "detached"} => content'[fd[q]] = <<q, "launcher">>
                      /\ pc'[q] = "running" => content'[fd[q]] = <<q, "daemon">>
    BY <1>2 DEF ContentFitsPlaces
  <2>1. CASE q = p
    BY <1>1, <1>3, <1>4, <2>1 DEF Types
  <2>2. CASE q # p
    <3>1. pc'[q] = pc[q]
      BY <1>1, <1>4, <2>2 DEF Types
    <3>2. ASSUME pc[q] \in Holding PROVE content'[fd[q]] = content[fd[q]]
      <4>1. fd[q] \in Inodes /\ fd[q] # fd[p]
        BY <1>8, <2>2, <3>2, OpenFileIsInode DEF Holding
      <4> QED
        BY <1>1, <1>4, <4>1 DEF Types
    <3> QED
      BY <1>1, <3>1, <3>2 DEF ContentFitsPlaces, Holding
  <2> QED
    BY <2>1, <2>2
<1>10. PathIsTrusted'
  BY <1>1, <1>2, <1>4, <1>5 DEF Types, PathIsTrusted, Trusting, Holding
<1>11. UnlinkMissed'
  <2> SUFFICES ASSUME NEW q \in Instances, pc'[q] = "unlinked", fd[q] = path
               PROVE  q \in Relative /\ content'[path][1] = q
    BY <1>2 DEF UnlinkMissed
  <2>1. q # p /\ pc[q] = "unlinked"
    BY <1>1, <1>4, <1>5 DEF Types
  <2>2. fd[q] # fd[p] /\ fd[q] \in Inodes
    BY <1>8, <2>1, OpenFileIsInode DEF Holding
  <2>3. content'[path] = content[path]
    BY <1>1, <1>4, <2>2 DEF Types
  <2> QED
    BY <1>1, <2>1, <2>3 DEF UnlinkMissed
<1>12. FileHasOwner'
  <2>1. CASE fd[p] = path
    BY <1>2, <2>1 DEF FileHasOwner
  <2>2. CASE fd[p] # path
    <3>1. path # 0 => path \in Inodes
      BY <1>1, CreatedFiles
    <3>2. path # 0 => content'[path] = content[path]
      BY <1>1, <1>4, <2>2, <3>1 DEF Types
    <3> QED
      BY <1>1, <1>2, <3>2 DEF FileHasOwner
  <2> QED
    BY <2>1, <2>2
<1> QED
  BY <1>6, <1>7, <1>9, <1>10, <1>11, <1>12 DEF UnflaggedInv

LEMMA DaemonizeInv == ASSUME Inv, NEW p \in Instances, Daemonize(p) PROVE UnflaggedInv'
<1>1. Types /\ LocksFitPlaces /\ ContentFitsPlaces /\ PathIsTrusted /\ UnlinkMissed /\ FileHasOwner
  BY DEF Inv, UnflaggedInv
<1>2. /\ pc[p] = "held" /\ pc' = [pc EXCEPT ![p] = "detached"]
      /\ UNCHANGED <<path, inodes, content, lock, fd, raced, crashed>>
  BY DEF Daemonize, Goes
<1>3. LocksFitPlaces' /\ pc' \in [Instances -> {"off", "opened"} \cup Holding]
  BY <1>2, StillHolding DEF Holding
<1>4. Types'
  BY <1>1, <1>2, <1>3 DEF Types
<1>5. ContentFitsPlaces' /\ PathIsTrusted'
  BY <1>1, <1>2 DEF Types, ContentFitsPlaces, PathIsTrusted, Trusting, Holding
<1>6. UnlinkMissed' /\ FileHasOwner'
  BY <1>1, <1>2 DEF Types, UnlinkMissed, FileHasOwner
<1> QED
  BY <1>3, <1>5, <1>6, <1>4 DEF UnflaggedInv

\* If the path is emptied while another instance trusts it, that one had opened
\* the file and not locked it: this is a race.
LEMMA UnlinkInv == ASSUME Inv, NEW p \in Instances, Unlink(p) PROVE UnflaggedInv'
<1>1. Types /\ LocksFitPlaces /\ ContentFitsPlaces /\ PathIsTrusted /\ UnlinkMissed
  BY DEF Inv, UnflaggedInv
<1>2. /\ pc[p] \in {"held", "detached", "running"} /\ pc' = [pc EXCEPT ![p] = "unlinked"]
      /\ path' = IF pc[p] # "held" /\ p \in Relative THEN path ELSE 0
      /\ UNCHANGED <<inodes, content, lock, fd, crashed>>
  BY DEF Unlink, Goes
<1>3. ~raced' => /\ ~raced
                 /\ path' = path \/ \A q \in Instances :
                                      pc[q] = "opened" => fd[q] \notin {path, fd[p]}
  BY DEF Unlink
<1>4. pc[p] \in Holding \ {"unlinked"} /\ fd[p] \in Inodes /\ lock[fd[p]] = p
  BY <1>2, OpenFileIsInode DEF Holding
<1>5. LocksFitPlaces' /\ pc' \in [Instances -> {"off", "opened"} \cup Holding]
  BY <1>2, <1>4, StillHolding DEF Holding
<1>6. Types'
  <2>1. path' \in 0 .. inodes
    BY <1>1, <1>2, PidFileAssumption DEF Types
  <2> QED
    BY <1>1, <1>2, <1>5, <2>1 DEF Types
<1>7. ContentFitsPlaces'
  BY <1>1, <1>2 DEF Types, ContentFitsPlaces
<1>8. PathIsTrusted'
  <2> SUFFICES ASSUME ~raced', NEW q \in Instances, pc'[q] \in Trusting
               PROVE  path' = fd'[q]
    BY DEF PathIsTrusted
  <2>1. q # p /\ pc[q] \in Trusting /\ ~raced
    <3>1. pc'[p] = "unlinked" /\ "unlinked" \notin Trusting
      BY <1>1, <1>2 DEF Types, Trusting
    <3>2. q # p /\ pc'[q] = pc[q]
      BY <1>1, <1>2, <3>1 DEF Types
    <3>3. ~raced
      BY <1>3
    <3> QED
      BY <3>2, <3>3
  <2>2. path = fd[q] /\ path = fd[p]
    BY <1>1, <1>4, <2>1 DEF PathIsTrusted, Trusting
  <2>3. pc[q] = "opened"
    <3>1. pc[q] \notin Holding
      <4>1. lock[fd[p]] = q <=> pc[q] \in Holding /\ fd[q] = fd[p]
        BY <1>1, <1>4 DEF LocksFitPlaces
      <4> QED
        BY <1>4, <2>1, <2>2, <4>1
    <3> QED
      BY <2>1, <3>1 DEF Trusting
  <2>4. path' = path
    BY <1>3, <2>2, <2>3
  <2> QED
    BY <1>2, <2>2, <2>4
<1>9. UnlinkMissed'
  <2> SUFFICES ASSUME NEW q \in Instances, pc'[q] = "unlinked", fd'[q] = path'
               PROVE  q \in Relative /\ content'[path'][1] = q
    BY DEF UnlinkMissed
  <2>1. CASE q = p
    <3>1. fd[p] = path' /\ fd[p] # 0
      BY <1>2, <1>4, <2>1 DEF Inodes
    <3>2. pc[p] \in {"detached", "running"} /\ p \in Relative /\ path' = path
      BY <1>2, <3>1
    <3>3. content[fd[p]] = <<p, "launcher">> \/ content[fd[p]] = <<p, "daemon">>
      BY <1>1, <3>2 DEF ContentFitsPlaces
    <3>4. content[fd[p]][1] = p
      BY <3>3
    <3> QED
      BY <1>2, <2>1, <3>1, <3>2, <3>4
  <2>2. CASE q # p
    <3>1. pc[q] = "unlinked" /\ fd[q] = path'
      BY <1>1, <1>2, <2>2 DEF Types
    <3>2. fd[q] \in Inodes
      BY <3>1, OpenFileIsInode
    <3>3. path' = path
      BY <1>2, <3>1, <3>2 DEF Inodes
    <3> QED
      BY <1>1, <1>2, <3>1, <3>3 DEF UnlinkMissed
  <2> QED
    BY <2>1, <2>2
<1>10. FileHasOwner'
  BY <1>2 DEF Inv, UnflaggedInv, FileHasOwner
<1> QED
  BY <1>5, <1>6, <1>7, <1>8, <1>9, <1>10 DEF UnflaggedInv

\* The file is closed and its lock given back, by the destructor or the kernel.
LEMMA ReleaseInv ==
  ASSUME Inv, NEW p \in Instances, CloseFile(p) \/ Crash(p)
  PROVE  UnflaggedInv'
<1>1. Types /\ LocksFitPlaces /\ ContentFitsPlaces /\ PathIsTrusted /\ UnlinkMissed /\ FileHasOwner
  BY DEF Inv, UnflaggedInv
<1>2. /\ pc' = [pc EXCEPT ![p] = "off"] /\ fd' = [fd EXCEPT ![p] = 0]
      /\ lock' = [i \in Inodes |-> IF lock[i] = p THEN Nobody ELSE lock[i]]
      /\ UNCHANGED <<path, inodes, content, raced>>
  BY DEF CloseFile, Crash, Release, Goes
<1>3. Types'
  BY <1>1, <1>2, PidFileAssumption DEF Types
<1>4. LocksFitPlaces'
  <2>1. \A q \in Instances : fd'[q] = 0 <=> pc'[q] = "off"
    BY <1>1, <1>2 DEF Types, LocksFitPlaces
  <2>2. ASSUME NEW q \in Instances, NEW i \in Inodes
        PROVE  lock'[i] = q <=> pc'[q] \in Holding /\ fd'[q] = i
    <3>1. CASE q = p
      BY <1>1, <1>2, <3>1, PidFileAssumption DEF Types, Holding, Inodes
    <3>2. CASE q # p
      BY <1>1, <1>2, <3>2, PidFileAssumption DEF Types, LocksFitPlaces
    <3> QED
      BY <3>1, <3>2
  <2> QED
    BY <2>1, <2>2 DEF LocksFitPlaces
<1>5. ContentFitsPlaces' /\ PathIsTrusted' /\ UnlinkMissed'
  <2>1. \A q \in Instances : q # p => pc'[q] = pc[q] /\ fd'[q] = fd[q]
    BY <1>1, <1>2 DEF Types
  <2>2. pc'[p] = "off"
    BY <1>1, <1>2 DEF Types
  <2>3. ContentFitsPlaces'
    <3> SUFFICES ASSUME NEW q \in Instances
                 PROVE  /\ pc'[q] \in {"held", "detached"} => content[fd'[q]] = <<q, "launcher">>
                        /\ pc'[q] = "running" => content[fd'[q]] = <<q, "daemon">>
      BY <1>2 DEF ContentFitsPlaces
    <3>1. CASE q = p
      BY <2>2, <3>1
    <3>2. CASE q # p
      BY <1>1, <2>1, <3>2 DEF ContentFitsPlaces
    <3> QED
      BY <3>1, <3>2
  <2>4. PathIsTrusted'
    BY <1>1, <1>2, <2>1, <2>2 DEF PathIsTrusted, Trusting, Holding
  <2>5. UnlinkMissed'
    BY <1>1, <1>2, <2>1, <2>2 DEF UnlinkMissed
  <2> QED
    BY <2>3, <2>4, <2>5
<1>6. FileHasOwner'
  <2> SUFFICES ASSUME ~crashed', path # 0, \A q \in Instances : fd'[q] # path
               PROVE  content[path][1] \in Relative
    BY <1>2 DEF FileHasOwner
  <2>1. pc[p] = "unlinked" /\ ~crashed
    BY DEF CloseFile, Crash, Goes
  <2>2. CASE fd[p] = path
    <3>1. p \in Relative /\ content[path][1] = p
      BY <1>1, <2>1, <2>2 DEF UnlinkMissed
    <3> QED
      BY <3>1
  <2>3. CASE fd[p] # path
    BY <1>1, <1>2, <2>1, <2>3 DEF Types, FileHasOwner
  <2> QED
    BY <2>2, <2>3
<1> QED
  BY <1>3, <1>4, <1>5, <1>6 DEF UnflaggedInv

LEMMA StepInv == Inv /\ [Next]_vars => Inv'
<1> SUFFICES ASSUME Inv, [Next]_vars PROVE Inv'
  OBVIOUS
<1>1. CASE UNCHANGED vars
  <2>1. UNCHANGED <<path, inodes, content, lock, fd, pc, raced, crashed>>
    BY <1>1 DEF vars
  <2>2. Flags'
    BY <2>1 DEF Inv, Flags
  <2>3. UnflaggedInv'
    BY <2>1 DEF Inv, UnflaggedInv, Types, LocksFitPlaces, ContentFitsPlaces,
                PathIsTrusted, UnlinkMissed, FileHasOwner
  <2> QED
    BY <2>2, <2>3 DEF Inv
<1>2. ASSUME NEW p \in Instances, Step(p) PROVE Inv'
  <2>1. UnflaggedInv'
    BY <1>2, OpenInv, LockInv, RefusedInv, WriteInv, DaemonizeInv, UnlinkInv, ReleaseInv
       DEF Step
  <2> QED
    BY <1>2, <2>1, FlagsKept DEF Inv
<1> QED
  BY <1>1, <1>2 DEF Next

-----------------------------------------------------------------------------
(* Theorems.                                                               *)

\* The inductive invariant of the launches (Daemon.cpp, main.cpp).
THEOREM PidFileInvariant == Spec => []Inv
BY InitInv, StepInv, PTL DEF Spec

\* A running daemon holds the lock of the file that names it, and without a race
\* with an unlink that file is the one at the path (Daemon.cpp, record_pid).
THEOREM DaemonIsNamed == Spec => []HolderIsNamed
<1>1. Inv => HolderIsNamed
  <2> SUFFICES ASSUME Inv, NEW p \in Running
               PROVE  /\ lock[fd[p]] = p
                      /\ content[fd[p]] = <<p, "daemon">>
                      /\ ~raced => path = fd[p]
    BY DEF HolderIsNamed
  <2>1. p \in Instances /\ pc[p] = "running"
    BY DEF Running
  <2>2. lock[fd[p]] = p
    BY <2>1, OpenFileIsInode DEF Holding
  <2> QED
    BY <2>1, <2>2 DEF Inv, UnflaggedInv, ContentFitsPlaces, PathIsTrusted, Trusting, Holding
<1> QED
  BY <1>1, PidFileInvariant, PTL

\* Two daemons never run unless a file was unlinked between another launch's
\* open and flock (Daemon.cpp, acquire and ~PidFile).
THEOREM NeverTwoUnraced == Spec => []OneUnlessRaced
<1>1. Inv => OneUnlessRaced
  <2> SUFFICES ASSUME Inv, ~raced PROVE Cardinality(Running) <= 1
    BY DEF OneUnlessRaced, OneInstance
  <2>1. \A p, q \in Running : p = q
    <3> SUFFICES ASSUME NEW p \in Running, NEW q \in Running PROVE p = q
      OBVIOUS
    <3>1. /\ p \in Instances /\ pc[p] = "running"
          /\ q \in Instances /\ pc[q] = "running"
      BY DEF Running
    <3>2. fd[p] = path /\ fd[q] = path
      BY <3>1 DEF Inv, UnflaggedInv, PathIsTrusted, Trusting, Holding
    <3>3. lock[fd[p]] = p /\ lock[fd[q]] = q
      BY <3>1, OpenFileIsInode DEF Holding
    <3> QED
      BY <3>2, <3>3
  <2>2. CASE Running = {}
    BY <2>2, FS_EmptySet
  <2>3. CASE Running # {}
    <3>1. PICK p : Running = {p}
      BY <2>1, <2>3
    <3> QED
      BY <3>1, FS_Singleton
  <2> QED
    BY <2>2, <2>3
<1> QED
  BY <1>1, PidFileInvariant, PTL

\* When every launch has ended and none was killed, a file that is left names a
\* launch whose path was relative (Daemon.cpp, daemonize and ~PidFile).
THEOREM OnlyStrayLeavesFile == Spec => []FileLeftByStray
<1>1. Inv => FileLeftByStray
  <2> SUFFICES ASSUME Inv, AllEnded, path # 0 PROVE content[path][1] \in Relative
    BY DEF FileLeftByStray
  <2>1. \A p \in Instances : fd[p] # path
    BY DEF AllEnded, Inv, UnflaggedInv, LocksFitPlaces
  <2> QED
    BY <2>1 DEF AllEnded, Inv, UnflaggedInv, FileHasOwner
<1> QED
  BY <1>1, PidFileInvariant, PTL

=============================================================================
