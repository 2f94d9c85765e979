---------------------------- MODULE TcpServer_proofs ----------------------------
(***************************************************************************)
(* The server never serves more sessions than its limit, and a shutdown    *)
(* opens nothing again, for every limit and any number of connections.     *)
(***************************************************************************)
EXTENDS TcpServer, FiniteSetTheorems, TLAPS

LEMMA IdFinite == IsFiniteSet(Id)
BY FS_Interval, ServerAssumption DEF Id

\* A set of ids inside another has no more elements.
LEMMA FewerIds ==
  ASSUME NEW S, NEW T, S \subseteq T, T \subseteq Id
  PROVE  /\ Cardinality(S) \in Nat /\ Cardinality(T) \in Nat
         /\ Cardinality(S) <= Cardinality(T)
<1>1. IsFiniteSet(T)
  BY IdFinite, FS_Subset
<1>2. IsFiniteSet(S)
  BY <1>1, FS_Subset
<1> QED
  BY <1>1, <1>2, FS_Subset, FS_CardinalityType

-----------------------------------------------------------------------------
(* Init.                                                                   *)

LEMMA InitInv == Init => Inv
<1> SUFFICES ASSUME Init PROVE Inv
  OBVIOUS
<1>1. TypeOK
  <2>1. sessions \in [Id -> Phase] /\ \A id \in Id : sessions[id] = "none"
    BY DEF Init, Phase
  <2>2. nextId \in 1 .. MaxConnections + 1 /\ \A id \in Id : id >= nextId
    BY ServerAssumption DEF Init, Id
  <2> QED
    BY <2>1, <2>2 DEF Init, TypeOK, Handle
<1>2. Served = {}
  BY DEF Init, Served
<1>3. ServedWithinLimit
  BY <1>2, FS_EmptySet, ServerAssumption DEF ServedWithinLimit
<1>4. HandlesShut /\ StartsClean
  BY DEF Init, HandlesShut, StartsClean
<1> QED
  BY <1>1, <1>3, <1>4 DEF Inv

-----------------------------------------------------------------------------
(* Steps that serve no further session.                                    *)

\* The limit holds as long as no session joins those served.
LEMMA LimitKept ==
  ASSUME Inv, Served' \subseteq Served
  PROVE  ServedWithinLimit'
<1>1. Served \subseteq Id
  BY DEF Served
<1>2. Cardinality(Served') <= Cardinality(Served)
  BY <1>1, FewerIds
<1>3. Cardinality(Served) \in Nat /\ Cardinality(Served') \in Nat
  BY <1>1, FewerIds
<1> QED
  BY <1>2, <1>3, ServerAssumption DEF Inv, ServedWithinLimit

\* Steps that leave the sessions alone.
LEMMA SameSessions ==
  ASSUME Inv, UNCHANGED sessions
  PROVE  ServedWithinLimit'
<1>1. Served' = Served
  BY DEF Served
<1> QED
  BY <1>1, LimitKept

LEMMA StartInv == ASSUME Inv, StartOk \/ StartFails PROVE Inv'
<1>1. TypeOK'
  BY DEF Inv, TypeOK, StartOk, StartFails, Handle
<1>2. UNCHANGED sessions
  BY DEF StartOk, StartFails
<1>3. ServedWithinLimit'
  BY <1>2, SameSessions
<1>4. HandlesShut' /\ StartsClean'
  BY DEF Inv, StartsClean, HandlesShut, StartOk, StartFails
<1> QED
  BY <1>1, <1>3, <1>4 DEF Inv

\* A new session is served only if the map with it is within the limit.
LEMMA AcceptInv == ASSUME Inv, AcceptOne PROVE Inv'
<1> USE DEF Inv
<1>1. PICK phase \in {IF Full(nextId) THEN "refused" ELSE "idle", "closing"} :
        sessions' = [sessions EXCEPT ![nextId] = phase]
  BY DEF AcceptOne
<1>2. /\ nextId \in Id /\ nextId' = nextId + 1
      /\ UNCHANGED <<process, alive, listener, signals, idleLog, shuttingDown, signalled>>
      /\ ~shuttingDown
  BY DEF AcceptOne, TakesId, handles
<1>3. phase \in Phase \ {"none"}
  BY <1>1 DEF Phase
<1>4. TypeOK'
  <2>1. sessions' \in [Id -> Phase] /\ nextId' \in 1 .. MaxConnections + 1
    BY <1>1, <1>2, <1>3, ServerAssumption DEF TypeOK, Id
  <2>2. \A id \in Id : sessions'[id] = "none" <=> id >= nextId'
    BY <1>1, <1>2, <1>3, ServerAssumption DEF TypeOK, Id
  <2> QED
    BY <1>2, <2>1, <2>2 DEF TypeOK
<1>5. ServedWithinLimit'
  <2>1. CASE phase = "idle"
    <3>1. ~Full(nextId)
      BY <1>1, <2>1
    <3>2. Served' \subseteq Mapped \cup {nextId}
      BY <1>1, <1>2 DEF TypeOK, Served, Mapped
    <3>3. Mapped \cup {nextId} \subseteq Id
      BY <1>2 DEF Mapped
    <3>4. /\ Cardinality(Served') \in Nat
          /\ Cardinality(Mapped \cup {nextId}) \in Nat
          /\ Cardinality(Served') <= Cardinality(Mapped \cup {nextId})
      BY <3>2, <3>3, FewerIds
    <3> QED
      BY <3>1, <3>4, ServerAssumption DEF Full, ServedWithinLimit
  <2>2. CASE phase # "idle"
    <3>1. phase \notin {"idle", "uploading"}
      BY <1>1, <2>2
    <3>2. Served' \subseteq Served
      BY <1>1, <1>2, <3>1 DEF TypeOK, Served
    <3> QED
      BY <3>2, LimitKept
  <2> QED
    BY <2>1, <2>2
<1>6. HandlesShut' /\ StartsClean'
  BY <1>2 DEF HandlesShut, StartsClean
<1> QED
  BY <1>4, <1>5, <1>6

\* A session that moves was served before if it is served after.
LEMMA SessionInv == ASSUME Inv, SessionStep PROVE Inv'
<1> USE DEF Inv
<1>1. PICK id \in Id :
        UploadStarts(id) \/ UploadEnds(id) \/ SessionCloses(id) \/ OnSessionClosed(id)
  BY DEF SessionStep
<1>2. PICK to \in Phase \ {"none"} :
        /\ sessions' = [sessions EXCEPT ![id] = to]
        /\ sessions[id] # "none"
        /\ to \in {"idle", "uploading"} => sessions[id] \in {"idle", "uploading"}
  BY <1>1 DEF UploadStarts, UploadEnds, SessionCloses, OnSessionClosed, Move, Phase
<1>3. UNCHANGED <<process, alive, listener, signals, idleLog, shuttingDown, nextId,
                  signalled>>
  BY <1>1 DEF UploadStarts, UploadEnds, SessionCloses, OnSessionClosed, Move, handles
<1>4. TypeOK'
  <2>1. sessions' \in [Id -> Phase]
    BY <1>2 DEF TypeOK
  <2>2. \A i \in Id : sessions'[i] = "none" <=> sessions[i] = "none"
    BY <1>2 DEF TypeOK
  <2> QED
    BY <1>3, <2>1, <2>2 DEF TypeOK
<1>5. ServedWithinLimit'
  <2>1. Served' \subseteq Served
    BY <1>2 DEF TypeOK, Served
  <2> QED
    BY <2>1, LimitKept
<1>6. HandlesShut' /\ StartsClean'
  BY <1>3 DEF HandlesShut, StartsClean
<1> QED
  BY <1>4, <1>5, <1>6

LEMMA SignalInv == ASSUME Inv, OnSignal PROVE Inv'
<1> USE DEF Inv
<1>1. TypeOK'
  BY DEF TypeOK, OnSignal, CloseServerHandles, CloseSessions, Closing, Handle, Phase, Open
<1>2. Served' \subseteq Served
  BY DEF TypeOK, OnSignal, CloseSessions, Open, Served
<1>3. ServedWithinLimit'
  BY <1>2, LimitKept
<1>4. HandlesShut'
  BY DEF OnSignal, CloseServerHandles, Closing, HandlesShut
<1>5. StartsClean'
  BY DEF OnSignal, Running, StartsClean
<1> QED
  BY <1>1, <1>3, <1>4, <1>5

\* What is left to do for the loop and main(): handles only go away.
LEMMA HandleInv ==
  ASSUME Inv, SignalSent \/ HandleCloses \/ LoopEnds \/ Walk \/ Ends
  PROVE  Inv'
<1> USE DEF Inv
<1>1. UNCHANGED <<shuttingDown, nextId, sessions>>
  BY DEF SignalSent, HandleCloses, LoopEnds, Walk, Ends
<1>2. TypeOK'
  <2>1. CASE SignalSent \/ LoopEnds \/ Ends
    BY <1>1, <2>1 DEF TypeOK, SignalSent, LoopEnds, Ends, handles
  <2>2. CASE HandleCloses
    BY <1>1, <2>2 DEF TypeOK, HandleCloses, Handle
  <2>3. CASE Walk
    BY <1>1, <2>3 DEF TypeOK, Walk, CloseServerHandles, Closing, Handle
  <2> QED
    BY <2>1, <2>2, <2>3
<1>3. ServedWithinLimit'
  BY <1>1, SameSessions
<1>4. "open" \notin {listener, signals, idleLog}
        => "open" \notin {listener', signals', idleLog'}
  BY DEF SignalSent, HandleCloses, LoopEnds, Walk, Ends, handles,
         CloseServerHandles, Closing
<1>5. StartsClean'
  BY DEF StartsClean, SignalSent, HandleCloses, LoopEnds, Walk, Ends, Running
<1> QED
  BY <1>1, <1>2, <1>3, <1>4, <1>5 DEF HandlesShut

-----------------------------------------------------------------------------

LEMMA StepInv == Inv /\ [Next]_vars => Inv'
<1> SUFFICES ASSUME Inv, [Next]_vars PROVE Inv'
  OBVIOUS
<1>1. CASE UNCHANGED vars
  <2>1. UNCHANGED <<process, alive, listener, signals, idleLog, shuttingDown, nextId,
                    sessions, signalled>>
    BY <1>1 DEF vars, handles
  <2>2. ServedWithinLimit'
    BY <2>1, SameSessions
  <2> QED
    BY <2>1, <2>2 DEF Inv, TypeOK, HandlesShut, StartsClean
<1> QED
  BY <1>1, StartInv, AcceptInv, SessionInv, SignalInv, HandleInv DEF Next

\* The inductive invariant of the server (TcpServer.cpp, main.cpp).
THEOREM ServerInvariant == Spec => []Inv
BY InitInv, StepInv, PTL DEF Spec

\* The types of the server: ids are given out once and in order, and the map
\* never takes a session back (TcpServer.cpp, accept_one, next_id_).
THEOREM ServerTypes == Spec => []TypeOK
<1>1. Inv => TypeOK
  BY DEF Inv
<1> QED
  BY <1>1, ServerInvariant, PTL

\* No more sessions are served at a time than max_sessions, however refused
\* and closing ones crowd the map (TcpServer.cpp, accept_one).
THEOREM LimitHolds == Spec => []ServedWithinLimit
<1>1. Inv => ServedWithinLimit
  BY DEF Inv
<1> QED
  BY <1>1, ServerInvariant, PTL

\* No step of a session opens one, and once a shutdown has begun nothing else
\* touches the map.
LEMMA NothingOpens ==
  ASSUME Inv, Next, shuttingDown'
  PROVE  nextId' = nextId /\ Open' \subseteq Open
<1> USE DEF Inv
<1>1. ~(StartOk \/ StartFails)
  BY DEF StartOk, StartFails, StartsClean
<1>2. ~AcceptOne
  BY DEF AcceptOne
<1>3. CASE SessionStep
  <2>1. PICK id \in Id :
          UploadStarts(id) \/ UploadEnds(id) \/ SessionCloses(id) \/ OnSessionClosed(id)
    BY <1>3 DEF SessionStep
  <2>2. nextId' = nextId
    BY <2>1 DEF UploadStarts, UploadEnds, SessionCloses, OnSessionClosed, Move
  <2>3. Open' \subseteq Open
    BY <2>1 DEF TypeOK, Open, UploadStarts, UploadEnds, SessionCloses, OnSessionClosed,
                Move
  <2> QED
    BY <2>2, <2>3
<1>4. CASE OnSignal
  BY <1>4 DEF OnSignal, CloseSessions, Open, TypeOK
<1>5. CASE SignalSent \/ HandleCloses \/ LoopEnds \/ Walk \/ Ends
  BY <1>5 DEF SignalSent, HandleCloses, LoopEnds, Walk, Ends, Open
<1> QED
  BY <1>1, <1>2, <1>3, <1>4, <1>5 DEF Next

\* From the step of begin_shutdown to the end of the process no handle of the
\* server is open, no connection is accepted and no session is served again
\* (TcpServer.cpp, begin_shutdown and accept_one).
THEOREM ShutdownStaysShut == Spec => ShutdownIsTotal
<1> DEFINE Shut == shuttingDown' => /\ "open" \notin {listener', signals', idleLog'}
                                   /\ nextId' = nextId
                                   /\ Open' \subseteq Open
<1>1. Inv /\ Inv' /\ [Next]_vars => [Shut]_vars
  <2> SUFFICES ASSUME Inv, Inv', Next PROVE Shut
    OBVIOUS
  <2>1. HandlesShut'
    BY DEF Inv
  <2> QED
    BY <2>1, NothingOpens DEF HandlesShut
<1> QED
  BY <1>1, ServerInvariant, PTL DEF Spec, ShutdownIsTotal

=============================================================================
