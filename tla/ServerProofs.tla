---------------------------- MODULE ServerProofs ----------------------------
(***************************************************************************)
(* Proofs about Server, for every set of connection slots, every permit    *)
(* count, with and without TLS.                                            *)
(***************************************************************************)
EXTENDS Server, TLAPS, FiniteSetTheorems

(***************************************************************************)
(* The inductive invariant.  The permit count is in range only because it  *)
(* is conserved; the drain is clean only because the tracker covers the    *)
(* work and because a closed, empty tracker can not be refilled, which in  *)
(* turn needs the signal to have ended the accept loop and every session   *)
(* to come from a connection that is still tracked.                        *)
(***************************************************************************)
PhasesAgree ==
  /\ shutdown <=> serve \in {"closing", "draining", "drained", "abandoned"}
  /\ trackerClosed <=> serve \in {"draining", "drained", "abandoned"}

CleanIsEmpty == serve = "drained" => tracked = {}

IndInv ==
  /\ TypeOK
  /\ PermitsConserved
  /\ TrackerCoversWork
  /\ UpgradeHasItsConnection
  /\ PhasesAgree
  /\ CleanIsEmpty

-----------------------------------------------------------------------------
(* How the set of live connections moves when one connection does. *)

LEMMA AliveFinite ==
  IsFiniteSet(AliveConns) /\ Cardinality(AliveConns) \in Nat
<1>1. AliveConns \subseteq Conn
  BY DEF AliveConns
<1>. QED
  BY <1>1, ConnAssumption, FS_Subset, FS_CardinalityType

LEMMA Birth ==
  ASSUME TypeOK, NEW c \in Conn, NEW s \in Live, conn[c] \notin Live,
         conn' = [conn EXCEPT ![c] = s]
  PROVE  /\ AliveConns' = AliveConns \cup {c}
         /\ Cardinality(AliveConns') = Cardinality(AliveConns) + 1
<1>1. AliveConns' = AliveConns \cup {c}
  BY DEF AliveConns, TypeOK
<1>2. c \notin AliveConns
  BY DEF AliveConns
<1>. QED
  BY <1>1, <1>2, AliveFinite, FS_AddElement

LEMMA Death ==
  ASSUME TypeOK, NEW c \in Conn, NEW s \in Stage \ Live, conn[c] \in Live,
         conn' = [conn EXCEPT ![c] = s]
  PROVE  /\ AliveConns' = AliveConns \ {c}
         /\ Cardinality(AliveConns') = Cardinality(AliveConns) - 1
<1>1. AliveConns' = AliveConns \ {c}
  BY DEF AliveConns, TypeOK
<1>2. c \in AliveConns
  BY DEF AliveConns
<1>. QED
  BY <1>1, <1>2, AliveFinite, FS_RemoveElement

LEMMA LifeGoesOn ==
  ASSUME TypeOK, NEW c \in Conn, NEW s \in Stage,
         conn[c] \in Live <=> s \in Live,
         conn' = [conn EXCEPT ![c] = s]
  PROVE  AliveConns' = AliveConns
BY DEF AliveConns, TypeOK

\* The end of a connection's task keeps the permits in range and conserved,
\* and takes exactly its own task off the tracker.
LEMMA TaskOverKeeps ==
  ASSUME TypeOK, PermitsConserved, NEW c \in Conn, conn[c] \in Live,
         TaskOver(c)
  PROVE  /\ AliveConns' = AliveConns \ {c}
         /\ permits' \in 0..MaxConnections
         /\ PermitsConserved'
<1>1. /\ AliveConns' = AliveConns \ {c}
      /\ Cardinality(AliveConns') = Cardinality(AliveConns) - 1
  BY Death DEF TaskOver, Stage, Live, Serving
<1>2. /\ Cardinality(AliveConns) \in Nat
      /\ Cardinality(AliveConns) - 1 \in Nat
  <2>1. AliveConns \ {c} \subseteq AliveConns
    OBVIOUS
  <2>2. Cardinality(AliveConns \ {c}) \in Nat
    BY <2>1, AliveFinite, FS_Subset, FS_CardinalityType
  <2>. QED
    BY <2>2, <1>1, AliveFinite
<1>3. permits' = permits + 1
  BY DEF TaskOver
<1>. QED
  BY <1>1, <1>2, <1>3, MaxAssumption DEF PermitsConserved, TypeOK

-----------------------------------------------------------------------------
(* The invariant is inductive: one step per action. *)

LEMMA InitHolds == Init => IndInv
<1>. SUFFICES ASSUME Init PROVE IndInv
  OBVIOUS
<1>1. TypeOK
  <2>1. permits \in 0..MaxConnections
    BY MaxAssumption DEF Init
  <2>2. conn \in [Conn -> Stage] /\ ws \in [Conn -> Session]
    BY DEF Init, Stage, Session
  <2>. QED
    BY <2>1, <2>2 DEF Init, TypeOK, Serve
<1>2. AliveConns = {} /\ Sessions = {}
  BY DEF Init, AliveConns, Sessions, Live, Serving
<1>3. PermitsConserved
  BY <1>2, MaxAssumption, FS_EmptySet DEF Init, PermitsConserved
<1>4. TrackerCoversWork
  BY <1>2 DEF Init, TrackerCoversWork
<1>5. UpgradeHasItsConnection
  BY DEF Init, UpgradeHasItsConnection
<1>. QED
  BY <1>1, <1>3, <1>4, <1>5 DEF IndInv, Init, PhasesAgree, CleanIsEmpty

\* A connection task or a session that exists is counted, so the clean return
\* lies ahead of it.
LEMMA WorkBeforeClean ==
  ASSUME IndInv, NEW c \in Conn, conn[c] \in Live \/ ws[c] # "none"
  PROVE  tracked # {} /\ serve # "drained"
<1>1. ConnTask(c) \in tracked \/ WsTask(c) \in tracked
  BY DEF IndInv, TrackerCoversWork, AliveConns, Sessions
<1>. QED
  BY <1>1 DEF IndInv, CleanIsEmpty

LEMMA ServerStepKeeps == IndInv /\ ServerStep => IndInv'
<1>. SUFFICES ASSUME IndInv, ServerStep PROVE IndInv'
  OBVIOUS
<1>1. /\ UNCHANGED <<tracked, permits, conn, graceful, ws>>
      /\ AliveConns' = AliveConns
      /\ Sessions' = Sessions
  BY DEF ServerStep, AcceptFails, Signal, CloseTracker, Drained, DrainTimeout,
         AliveConns, Sessions
<1>2. /\ serve' \in Serve
      /\ shutdown' \in BOOLEAN
      /\ trackerClosed' \in BOOLEAN
  BY DEF ServerStep, AcceptFails, Signal, CloseTracker, Drained, DrainTimeout,
         IndInv, TypeOK, Serve
<1>3. TypeOK'
  BY <1>1, <1>2 DEF IndInv, TypeOK
<1>4. PermitsConserved' /\ TrackerCoversWork' /\ UpgradeHasItsConnection'
  BY <1>1 DEF IndInv, PermitsConserved, TrackerCoversWork,
              UpgradeHasItsConnection
<1>5. PhasesAgree'
  BY DEF ServerStep, AcceptFails, Signal, CloseTracker, Drained, DrainTimeout,
         Listening, IndInv, PhasesAgree
<1>6. CleanIsEmpty'
  BY DEF ServerStep, AcceptFails, Signal, CloseTracker, Drained, DrainTimeout,
         WaitOver, Listening, IndInv, CleanIsEmpty
<1>. QED
  BY <1>3, <1>4, <1>5, <1>6 DEF IndInv

\* A step of a connection leaves the serve call alone: only the parts of the
\* invariant about connections, sessions, permits and the tracker are at stake.
LEMMA PhasesKept ==
  ASSUME IndInv, NEW c \in Conn, UNCHANGED servVars,
         serve = "accepting" \/ conn[c] \in Live \/ ws[c] # "none"
  PROVE  PhasesAgree' /\ CleanIsEmpty'
<1>1. serve # "drained"
  BY WorkBeforeClean
<1>. QED
  BY <1>1 DEF IndInv, PhasesAgree, CleanIsEmpty, servVars

\* A step that ends the task of connection c and moves its session from a
\* state to another without creating or ending it.
LEMMA EndOfConnKeeps ==
  ASSUME IndInv, NEW c \in Conn, conn[c] \in Live, TaskOver(c),
         NEW w \in Session \ {"waiting"}, ws' = [ws EXCEPT ![c] = w],
         w = "none" <=> ws[c] = "none", UNCHANGED servVars
  PROVE  IndInv'
<1>1. /\ AliveConns' = AliveConns \ {c}
      /\ permits' \in 0..MaxConnections
      /\ PermitsConserved'
  BY TaskOverKeeps DEF IndInv
<1>2. Sessions' = Sessions
  BY DEF Sessions, IndInv, TypeOK
<1>3. tracked' = tracked \ {ConnTask(c)}
  BY DEF TaskOver
<1>4. TrackerCoversWork'
  <2>1. {ConnTask(d) : d \in AliveConns \ {c}}
          = {ConnTask(d) : d \in AliveConns} \ {ConnTask(c)}
    BY DEF ConnTask
  <2>2. ConnTask(c) \notin {WsTask(d) : d \in Sessions}
    BY DEF ConnTask, WsTask
  <2>. QED
    BY <1>1, <1>2, <1>3, <2>1, <2>2 DEF IndInv, TrackerCoversWork
<1>5. TypeOK'
  BY <1>1 DEF IndInv, TypeOK, TaskOver, Stage, servVars
<1>6. UpgradeHasItsConnection'
  BY DEF IndInv, UpgradeHasItsConnection, TaskOver, TypeOK
<1>. QED
  BY <1>1, <1>4, <1>5, <1>6, PhasesKept DEF IndInv

\* A step that moves connection c within its life and touches nothing else.
LEMMA WithinLifeKeeps ==
  ASSUME IndInv, NEW c \in Conn, NEW s \in Stage \ {"upgrading"},
         conn[c] # "upgrading", conn[c] \in Live <=> s \in Live,
         serve = "accepting" \/ conn[c] \in Live,
         conn' = [conn EXCEPT ![c] = s],
         UNCHANGED <<servVars, tracked, permits, graceful, ws>>
  PROVE  IndInv'
<1>1. AliveConns' = AliveConns /\ Sessions' = Sessions
  BY LifeGoesOn DEF IndInv, Sessions
<1>2. TypeOK'
  BY DEF IndInv, TypeOK, servVars
<1>3. PermitsConserved' /\ TrackerCoversWork'
  BY <1>1 DEF IndInv, PermitsConserved, TrackerCoversWork
<1>4. UpgradeHasItsConnection'
  BY DEF IndInv, UpgradeHasItsConnection, TypeOK
<1>. QED
  BY <1>2, <1>3, <1>4, PhasesKept DEF IndInv

LEMMA ConnStepKeeps ==
  ASSUME IndInv, NEW c \in Conn, ConnStep(c)
  PROVE  IndInv'
<1>0. /\ conn[c] \in Stage
      /\ ws[c] \in Session
      /\ TypeOK
  BY DEF IndInv, TypeOK
<1>1. CASE Accept(c)
  <2>1. FirstStage \in Live \ {"upgrading"}
    BY DEF FirstStage, Live, Serving
  <2>2. /\ AliveConns' = AliveConns \cup {c}
        /\ Cardinality(AliveConns') = Cardinality(AliveConns) + 1
    BY <1>0, <1>1, <2>1, Birth DEF Accept, Arriving
  <2>3. PermitsConserved'
    BY <1>0, <1>1, <2>2, AliveFinite, MaxAssumption
       DEF Accept, IndInv, PermitsConserved, TypeOK
  <2>4. Sessions' = Sessions
    BY <1>1 DEF Accept, Sessions
  <2>5. TrackerCoversWork'
    BY <1>1, <2>2, <2>4 DEF Accept, IndInv, TrackerCoversWork
  <2>6. UpgradeHasItsConnection'
    BY <1>0, <1>1, <2>1
       DEF Accept, Arriving, IndInv, UpgradeHasItsConnection, TypeOK, Live, Serving
  <2>7. permits' \in 0..MaxConnections
    BY <1>0, <1>1, MaxAssumption DEF Accept, TypeOK
  <2>8. TypeOK'
    BY <1>0, <1>1, <2>1, <2>7 DEF Accept, TypeOK, Task, Stage, servVars
  <2>. QED
    BY <1>1, <2>3, <2>5, <2>6, <2>8, PhasesKept
       DEF IndInv, Accept, Arriving, Listening
<1>2. CASE Refuse(c)
  BY <1>2, WithinLifeKeeps
     DEF Refuse, Arriving, Listening, Stage, Live, Serving
<1>3. CASE HandshakeOk(c)
  BY <1>3, WithinLifeKeeps DEF HandshakeOk, Stage, Live, Serving
<1>4. CASE HandshakeFails(c)
  <2>1. ws[c] # "waiting"
    BY <1>4 DEF HandshakeFails, IndInv, UpgradeHasItsConnection
  <2>2. ws' = [ws EXCEPT ![c] = ws[c]]
    BY <1>0, <1>4 DEF HandshakeFails, TypeOK
  <2>. QED
    BY <1>0, <1>4, <2>1, <2>2, EndOfConnKeeps DEF HandshakeFails, Live
<1>5. CASE Request(c)
  BY <1>5, WithinLifeKeeps DEF Request, Stage, Live, Serving
<1>6. CASE Respond(c)
  <2>1. CASE c \in graceful
    <3>1. ws[c] # "waiting"
      BY <1>6 DEF Respond, IndInv, UpgradeHasItsConnection
    <3>2. ws' = [ws EXCEPT ![c] = ws[c]]
      BY <1>0, <1>6 DEF Respond, TypeOK
    <3>. QED
      BY <1>0, <1>6, <2>1, <3>1, <3>2, EndOfConnKeeps DEF Respond, Live, Serving
  <2>2. CASE c \notin graceful
    BY <1>6, <2>2, WithinLifeKeeps DEF Respond, Stage, Live, Serving
  <2>. QED
    BY <2>1, <2>2
<1>7. CASE ConnEnds(c)
  <2>. DEFINE w == IF ws[c] = "waiting" THEN "aborted" ELSE ws[c]
  <2>1. w \in Session \ {"waiting"} /\ (w = "none" <=> ws[c] = "none")
    BY <1>0 DEF Session
  <2>2. ws' = [ws EXCEPT ![c] = w]
    BY <1>7 DEF ConnEnds
  <2>3. conn[c] \in Live /\ TaskOver(c) /\ UNCHANGED servVars
    BY <1>7 DEF ConnEnds, Live
  <2>. QED
    BY <2>1, <2>2, <2>3, EndOfConnKeeps
<1>8. CASE ObserveShutdown(c)
  <2>1. CASE conn[c] = "idle"
    <3>1. ws[c] # "waiting"
      BY <2>1 DEF IndInv, UpgradeHasItsConnection
    <3>2. ws' = [ws EXCEPT ![c] = ws[c]]
      BY <1>0, <1>8 DEF ObserveShutdown, TypeOK
    <3>. QED
      BY <1>0, <1>8, <2>1, <3>1, <3>2, EndOfConnKeeps
         DEF ObserveShutdown, Live, Serving
  <2>2. CASE conn[c] # "idle"
    <3>1. UNCHANGED <<serve, shutdown, trackerClosed, tracked, permits, conn, ws>>
          /\ graceful' \subseteq Conn
      BY <1>0, <1>8, <2>2 DEF ObserveShutdown, servVars, TypeOK
    <3>. QED
      BY <3>1 DEF IndInv, TypeOK, PermitsConserved, AliveConns, Sessions,
                  TrackerCoversWork, UpgradeHasItsConnection, PhasesAgree,
                  CleanIsEmpty
  <2>. QED
    BY <2>1, <2>2
<1>9. CASE Upgrade(c)
  <2>1. AliveConns' = AliveConns
    BY <1>0, <1>9, LifeGoesOn DEF Upgrade, Live, Serving, Stage
  <2>2. Sessions' = Sessions \cup {c}
    BY <1>0, <1>9 DEF Upgrade, Sessions, TypeOK
  <2>3. TrackerCoversWork'
    BY <1>9, <2>1, <2>2 DEF Upgrade, TrackSession, IndInv, TrackerCoversWork
  <2>4. PermitsConserved'
    BY <1>9, <2>1 DEF Upgrade, IndInv, PermitsConserved
  <2>5. UpgradeHasItsConnection'
    BY <1>0, <1>9 DEF Upgrade, IndInv, UpgradeHasItsConnection, TypeOK
  <2>6. TypeOK'
    BY <1>0, <1>9
       DEF Upgrade, TrackSession, TypeOK, Task, Stage, Live, Serving, Session, servVars
  <2>. QED
    BY <1>9, <2>3, <2>4, <2>5, <2>6, PhasesKept DEF IndInv, Upgrade, Live, Serving
<1>10. CASE Upgraded(c)
  <2>1. ws[c] # "none"
    BY <1>10 DEF Upgraded, IndInv, UpgradeHasItsConnection
  <2>. QED
    BY <1>10, <2>1, EndOfConnKeeps DEF Upgraded, Live, Serving, Session
<1>11. CASE SessionAborts(c) \/ SessionEnds(c)
  <2>1. /\ SessionOver(c)
        /\ ws[c] # "none"
        /\ ws[c] # "waiting"
    BY <1>11 DEF SessionAborts, SessionEnds
  <2>2. Sessions' = Sessions \ {c} /\ AliveConns' = AliveConns
    BY <1>0, <2>1 DEF SessionOver, Sessions, AliveConns, TypeOK
  <2>3. TrackerCoversWork'
    <3>1. {WsTask(d) : d \in Sessions \ {c}}
            = {WsTask(d) : d \in Sessions} \ {WsTask(c)}
      BY DEF WsTask
    <3>2. WsTask(c) \notin {ConnTask(d) : d \in AliveConns}
      BY DEF ConnTask, WsTask
    <3>. QED
      BY <2>1, <2>2, <3>1, <3>2 DEF SessionOver, IndInv, TrackerCoversWork
  <2>4. PermitsConserved'
    BY <2>1, <2>2 DEF SessionOver, IndInv, PermitsConserved
  <2>5. UpgradeHasItsConnection'
    BY <1>0, <2>1 DEF SessionOver, IndInv, UpgradeHasItsConnection, TypeOK
  <2>6. TypeOK'
    BY <1>0, <2>1 DEF SessionOver, TypeOK, Session, servVars
  <2>. QED
    BY <2>1, <2>3, <2>4, <2>5, <2>6, PhasesKept DEF IndInv, SessionOver
<1>. QED
  BY <1>1, <1>2, <1>3, <1>4, <1>5, <1>6, <1>7, <1>8, <1>9, <1>10, <1>11
     DEF ConnStep

LEMMA StepKeeps == IndInv /\ [Next]_vars => IndInv'
<1>1. ASSUME IndInv, UNCHANGED vars PROVE IndInv'
  BY <1>1 DEF IndInv, vars, TypeOK, PermitsConserved, AliveConns, Sessions,
              TrackerCoversWork, UpgradeHasItsConnection, PhasesAgree, CleanIsEmpty
<1>. QED
  BY <1>1, ServerStepKeeps, ConnStepKeeps DEF Next

LEMMA Inductive == Spec => []IndInv
BY InitHolds, StepKeeps, PTL DEF Spec

-----------------------------------------------------------------------------
(* The theorems about every behaviour. *)

\* Every variable keeps its range; the permit count never exceeds the cap.
THEOREM TypeCorrect == Spec => []TypeOK
<1>1. IndInv => TypeOK
  BY DEF IndInv
<1>. QED
  BY <1>1, Inductive, PTL

\* Whatever becomes of a connection, its permit is returned exactly once.
THEOREM PermitsAreConserved == Spec => []PermitsConserved
<1>1. IndInv => PermitsConserved
  BY DEF IndInv
<1>. QED
  BY <1>1, Inductive, PTL

\* The tracker counts the connection and session tasks, no more and no less.
THEOREM TrackerIsExact == Spec => []TrackerCoversWork
<1>1. IndInv => TrackerCoversWork
  BY DEF IndInv
<1>. QED
  BY <1>1, Inductive, PTL

\* A drain that was reported clean left no connection and no session.
THEOREM CleanReturnIsQuiet == Spec => []QuietAfterCleanReturn
<1>1. IndInv => QuietAfterCleanReturn
  <2>. SUFFICES ASSUME IndInv, serve = "drained"
                PROVE  AliveConns = {} /\ Sessions = {}
    BY DEF QuietAfterCleanReturn
  <2>. QED
    BY DEF IndInv, CleanIsEmpty, TrackerCoversWork
<1>. QED
  BY <1>1, Inductive, PTL

\* A session waits for its upgrade exactly as long as its connection is there
\* to complete or abort it.
THEOREM UpgradeKeepsItsConnection == Spec => []UpgradeHasItsConnection
<1>1. IndInv => UpgradeHasItsConnection
  BY DEF IndInv
<1>. QED
  BY <1>1, Inductive, PTL

-----------------------------------------------------------------------------
(* The serve call implements ShutdownPromise, its liveness apart. *)

LEMMA ServerStepMaps ==
  ASSUME IndInv, ServerStep
  PROVE  Promise!Next \/ UNCHANGED Promise!vars
<1>. USE DEF PromisePhase, Promise!Next, Promise!vars
<1>1. CASE AcceptFails
  BY <1>1 DEF AcceptFails, Listening, Promise!Fail
<1>2. CASE Signal
  BY <1>2 DEF Signal, Listening, Promise!AskToStop
<1>3. CASE CloseTracker
  BY <1>3 DEF CloseTracker
<1>4. CASE Drained
  BY <1>4 DEF Drained, WaitOver, Promise!ReturnClean
<1>5. CASE DrainTimeout
  <2>1. tracked # {}
    BY <1>5 DEF DrainTimeout, WaitOver, IndInv, PhasesAgree
  <2>. QED
    BY <1>5, <2>1 DEF DrainTimeout, Promise!ReturnLate
<1>. QED
  BY <1>1, <1>2, <1>3, <1>4, <1>5 DEF ServerStep

LEMMA ConnStepMaps ==
  ASSUME IndInv, NEW c \in Conn, ConnStep(c)
  PROVE  Promise!Next \/ UNCHANGED Promise!vars
<1>1. ConnTask(c) \in Task /\ WsTask(c) \in Task
  BY DEF Task
<1>2. /\ ConnTask(c) \in tracked <=> conn[c] \in Live
      /\ WsTask(c) \in tracked <=> ws[c] # "none"
  BY DEF IndInv, TrackerCoversWork, AliveConns, Sessions, ConnTask, WsTask
<1>3. PromisePhase' = PromisePhase
  BY DEF ConnStep, Accept, Refuse, HandshakeOk, HandshakeFails, Request, Respond,
         ConnEnds, ObserveShutdown, Upgrade, Upgraded, SessionAborts, SessionEnds,
         SessionOver, servVars, PromisePhase
<1>4. CASE Accept(c)
  <2>1. Promise!Begin(ConnTask(c))
    BY <1>2, <1>3, <1>4
       DEF Accept, Arriving, Listening, Promise!Begin, PromisePhase
  <2>. QED
    BY <1>1, <2>1 DEF Promise!Next
<1>5. CASE TaskOver(c) /\ conn[c] \in Live
  <2>1. Promise!End(ConnTask(c))
    BY <1>2, <1>3, <1>5 DEF TaskOver, Promise!End
  <2>. QED
    BY <1>1, <2>1 DEF Promise!Next
<1>6. CASE Upgrade(c)
  <2>1. Promise!Fork(ConnTask(c), WsTask(c))
    BY <1>2, <1>3, <1>6
       DEF Upgrade, TrackSession, Live, Serving, Promise!Fork
  <2>. QED
    BY <1>1, <2>1 DEF Promise!Next
<1>7. CASE SessionAborts(c) \/ SessionEnds(c)
  <2>1. Promise!End(WsTask(c))
    BY <1>2, <1>3, <1>7
       DEF SessionAborts, SessionEnds, SessionOver, Promise!End
  <2>. QED
    BY <1>1, <2>1 DEF Promise!Next
<1>8. CASE UNCHANGED tracked
  BY <1>3, <1>8 DEF Promise!vars
<1>. QED
  BY <1>4, <1>5, <1>6, <1>7, <1>8
     DEF ConnStep, Refuse, HandshakeOk, HandshakeFails, Request, Respond, ConnEnds,
         ObserveShutdown, Upgraded, Live, Serving

\* Initial states map to initial states and every step to a step of the
\* promise or to a stutter: work begins only before the signal, comes later
\* only from work in progress, and the call returns clean only when idle.
THEOREM KeepsPromiseSafely == Spec => Promise!Init /\ [][Promise!Next]_(Promise!vars)
<1>1. Init => Promise!Init
  BY DEF Init, Promise!Init, PromisePhase
<1>2. IndInv /\ [Next]_vars => [Promise!Next]_(Promise!vars)
  <2>. SUFFICES ASSUME IndInv, [Next]_vars
                PROVE  Promise!Next \/ UNCHANGED Promise!vars
    OBVIOUS
  <2>1. CASE UNCHANGED vars
    BY <2>1 DEF vars, Promise!vars, PromisePhase
  <2>. QED
    BY <2>1, ServerStepMaps, ConnStepMaps DEF Next
<1>. QED
  BY <1>1, <1>2, Inductive, PTL DEF Spec

-----------------------------------------------------------------------------
(* After the signal, an empty tracker is the end of all work. *)

\* The drain can not end between the spawn of a session and the discounting of
\* its connection: an emptied tracker is never refilled.
THEOREM EmptiedForGood == Spec => EmptyStaysEmpty
<1>1. ASSUME IndInv, [Next]_vars, shutdown, tracked = {}
      PROVE  tracked' = {}
  <2>1. serve # "accepting"
    BY <1>1 DEF IndInv, PhasesAgree
  <2>2. ASSUME NEW c \in Conn, ConnStep(c) PROVE tracked' = {}
    <3>1. conn[c] \notin Live /\ ws[c] = "none"
      BY <1>1 DEF IndInv, TrackerCoversWork, AliveConns, Sessions
    <3>. QED
      BY <2>1, <2>2, <3>1
         DEF ConnStep, Accept, Refuse, Arriving, Listening, HandshakeOk,
             HandshakeFails, Request, Respond, ConnEnds, ObserveShutdown, Upgrade,
             Upgraded, SessionAborts, SessionEnds, Live, Serving
  <2>3. ASSUME ServerStep PROVE tracked' = {}
    BY <1>1, <2>3
       DEF ServerStep, AcceptFails, Signal, CloseTracker, Drained, DrainTimeout
  <2>. QED
    BY <1>1, <2>2, <2>3 DEF Next, vars
<1>2. IndInv /\ [Next]_vars => [shutdown /\ tracked = {} => tracked' = {}]_vars
  BY <1>1
<1>. QED
  BY <1>2, Inductive, PTL DEF Spec, EmptyStaysEmpty

=============================================================================
