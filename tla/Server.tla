------------------------------- MODULE Server -------------------------------
(***************************************************************************)
(* The life of a server and of its connections: serve_listener and         *)
(* accept_loop (src/server.rs), the task each connection runs in, and the  *)
(* WebSocket session a request may leave behind (src/websocket.rs).        *)
(*                                                                         *)
(* The serve call, every connection task, every session task and the peers *)
(* interleave freely: the runtime is multi-threaded.  Between two of the   *)
(* code's await points a task is one step here, except that the serve call *)
(* cancels the shutdown token and closes the tracker in two steps, since   *)
(* other threads run in between.                                           *)
(***************************************************************************)
EXTENDS Naturals, FiniteSets

CONSTANTS
  Conn,             \* connection slots, each reused for later connections
  MaxConnections,   \* Server::max_connections; |Conn| stands for "unbounded"
  Tls               \* is a TLS acceptor configured?

ASSUME ConnAssumption == IsFiniteSet(Conn)
ASSUME MaxAssumption == MaxConnections \in Nat
ASSUME TlsAssumption == Tls \in BOOLEAN

VARIABLES
  serve,            \* where serve_listener is
  shutdown,         \* is the CancellationToken cancelled?
  trackerClosed,    \* TaskTracker::close was called
  tracked,          \* the tasks the TaskTracker still counts
  permits,          \* permits left in the Semaphore
  conn,             \* what each connection's task is doing
  graceful,         \* connections told to stop keep-alive
  ws                \* the WebSocket session each connection left behind

vars == <<serve, shutdown, trackerClosed, tracked, permits, conn, graceful, ws>>

servVars == <<serve, shutdown, trackerClosed>>

-----------------------------------------------------------------------------
ConnTask(c) == <<"conn", c>>
WsTask(c)   == <<"ws", c>>
Task == {ConnTask(c) : c \in Conn} \cup {WsTask(c) : c \in Conn}

\* "closing" is between shutdown.cancel() and tracker.close(); the last three
\* are what serve_listener returned: Ok drained, Ok abandoned, Err.
Serve    == {"accepting", "closing", "draining", "drained", "abandoned", "failed"}
Serving  == {"idle", "busy", "upgrading"}      \* hyper drives the connection
Live     == Serving \cup {"handshake"}         \* the task exists
Stage    == Live \cup {"closed", "refused"}
Session  == {"none", "waiting", "aborted", "open"}

TypeOK ==
  /\ serve \in Serve
  /\ shutdown \in BOOLEAN
  /\ trackerClosed \in BOOLEAN
  /\ tracked \subseteq Task
  /\ permits \in 0..MaxConnections
  /\ conn \in [Conn -> Stage]
  /\ graceful \subseteq Conn
  /\ ws \in [Conn -> Session]

Init ==
  /\ serve = "accepting"
  /\ shutdown = FALSE
  /\ trackerClosed = FALSE
  /\ tracked = {}
  /\ permits = MaxConnections
  /\ conn = [c \in Conn |-> "closed"]
  /\ graceful = {}
  /\ ws = [c \in Conn |-> "none"]

-----------------------------------------------------------------------------
(* The accept loop.  A transient accept error retries and changes nothing. *)

FirstStage == IF Tls THEN "handshake" ELSE "idle"

\* Mutant: the loop goes on while the signal branch runs.
ListeningOn == serve \in {"accepting", "closing"}

\* The loop is dropped as soon as the select takes its other branch.
Listening == serve = "accepting"

Arriving(c) == Listening /\ conn[c] \notin Live /\ ws[c] = "none"

AcceptForFree(c) ==   \* mutant: the permit is dropped before the task starts
  /\ Arriving(c)
  /\ permits > 0
  /\ conn' = [conn EXCEPT ![c] = FirstStage]
  /\ tracked' = tracked \cup {ConnTask(c)}
  /\ UNCHANGED <<servVars, permits, graceful, ws>>

Accept(c) ==          \* try_acquire_owned gave a permit: spawn on the tracker
  /\ Arriving(c)
  /\ permits > 0
  /\ permits' = permits - 1
  /\ conn' = [conn EXCEPT ![c] = FirstStage]
  /\ tracked' = tracked \cup {ConnTask(c)}
  /\ UNCHANGED <<servVars, graceful, ws>>

Refuse(c) ==          \* no permit: the accepted socket is dropped
  /\ Arriving(c)
  /\ permits = 0
  /\ conn' = [conn EXCEPT ![c] = "refused"]
  /\ UNCHANGED <<servVars, tracked, permits, graceful, ws>>

AcceptFails ==        \* any other accept error leaves through `result?`
  /\ Listening
  /\ serve' = "failed"
  /\ UNCHANGED <<shutdown, trackerClosed, tracked, permits, conn, graceful, ws>>

-----------------------------------------------------------------------------
(* The serve call after the signal. *)

Signal ==
  /\ Listening
  /\ serve' = "closing"
  /\ shutdown' = TRUE
  /\ UNCHANGED <<trackerClosed, tracked, permits, conn, graceful, ws>>

CloseTracker ==
  /\ serve = "closing"
  /\ serve' = "draining"
  /\ trackerClosed' = TRUE
  /\ UNCHANGED <<shutdown, tracked, permits, conn, graceful, ws>>

\* TaskTracker::wait: closed, and no task counted.
WaitOver == trackerClosed /\ tracked = {}

DrainedEarly ==       \* mutant: the wait is not awaited
  /\ serve = "draining"
  /\ serve' = "drained"
  /\ UNCHANGED <<shutdown, trackerClosed, tracked, permits, conn, graceful, ws>>

Drained ==
  /\ serve = "draining"
  /\ WaitOver
  /\ serve' = "drained"
  /\ UNCHANGED <<shutdown, trackerClosed, tracked, permits, conn, graceful, ws>>

NoDrainTimeout == FALSE /\ UNCHANGED vars      \* mutant: a plain wait().await

\* timeout polls the wait before the deadline, so it elapses only on a wait
\* that is not over.
DrainTimeout ==
  /\ serve = "draining"
  /\ ~WaitOver
  /\ serve' = "abandoned"
  /\ UNCHANGED <<shutdown, trackerClosed, tracked, permits, conn, graceful, ws>>

-----------------------------------------------------------------------------
(* The connection task. *)

\* The task is over: its `_permit` is dropped, the tracker counts it no more.
TaskOver(c) ==
  /\ conn' = [conn EXCEPT ![c] = "closed"]
  /\ permits' = permits + 1
  /\ tracked' = tracked \ {ConnTask(c)}
  /\ graceful' = graceful \ {c}

HandshakeOk(c) ==
  /\ conn[c] = "handshake"
  /\ conn' = [conn EXCEPT ![c] = "idle"]
  /\ UNCHANGED <<servVars, tracked, permits, graceful, ws>>

HandshakeLeaks(c) ==  \* mutant: the early return keeps the permit
  /\ conn[c] = "handshake"
  /\ conn' = [conn EXCEPT ![c] = "closed"]
  /\ tracked' = tracked \ {ConnTask(c)}
  /\ UNCHANGED <<servVars, permits, graceful, ws>>

HandshakeFails(c) ==  \* an error, or TLS_HANDSHAKE_TIMEOUT
  /\ conn[c] = "handshake"
  /\ TaskOver(c)
  /\ UNCHANGED <<servVars, ws>>

Request(c) ==         \* the peer begins a request; hyper calls Svc
  /\ conn[c] = "idle"
  /\ conn' = [conn EXCEPT ![c] = "busy"]
  /\ UNCHANGED <<servVars, tracked, permits, graceful, ws>>

Respond(c) ==         \* keep-alive, unless graceful_shutdown disabled it
  /\ conn[c] = "busy"
  /\ IF c \in graceful
     THEN TaskOver(c)
     ELSE /\ conn' = [conn EXCEPT ![c] = "idle"]
          /\ UNCHANGED <<tracked, permits, graceful>>
  /\ UNCHANGED <<servVars, ws>>

ConnEndsSilently(c) ==  \* mutant: nobody tells the session
  /\ conn[c] \in Serving
  /\ TaskOver(c)
  /\ UNCHANGED <<servVars, ws>>

ConnEnds(c) ==        \* the peer left, a read timed out, the handler panicked
  /\ conn[c] \in Serving
  /\ TaskOver(c)
  \* hyper drops its half of a pending upgrade with the connection
  /\ ws' = [ws EXCEPT ![c] = IF @ = "waiting" THEN "aborted" ELSE @]
  /\ UNCHANGED servVars

ObserveKeepsIdle(c) ==  \* mutant: only flags the connection
  /\ shutdown
  /\ conn[c] \in Serving
  /\ c \notin graceful
  /\ graceful' = graceful \cup {c}
  /\ UNCHANGED <<servVars, conn, tracked, permits, ws>>

ObserveShutdown(c) == \* the select's other branch: graceful_shutdown, then await
  /\ shutdown
  /\ conn[c] \in Serving
  /\ c \notin graceful
  /\ IF conn[c] = "idle"
     THEN TaskOver(c)
     ELSE /\ graceful' = graceful \cup {c}
          /\ UNCHANGED <<conn, tracked, permits>>
  /\ UNCHANGED <<servVars, ws>>

-----------------------------------------------------------------------------
(* WebSocket sessions. *)

SpawnUntracked(c) == UNCHANGED tracked          \* mutant: tokio::spawn

TrackSession(c) == tracked' = tracked \cup {WsTask(c)}

Upgrade(c) ==         \* on_upgrade, inside the handler: spawn, answer 101
  /\ conn[c] = "busy"
  /\ ws[c] = "none"
  /\ conn' = [conn EXCEPT ![c] = "upgrading"]
  /\ ws' = [ws EXCEPT ![c] = "waiting"]
  /\ TrackSession(c)
  /\ UNCHANGED <<servVars, permits, graceful>>

Upgraded(c) ==        \* the 101 is out: hyper hands the stream over and is done
  /\ conn[c] = "upgrading"
  /\ TaskOver(c)
  /\ ws' = [ws EXCEPT ![c] = "open"]
  /\ UNCHANGED servVars

SessionOver(c) ==
  /\ ws' = [ws EXCEPT ![c] = "none"]
  /\ tracked' = tracked \ {WsTask(c)}
  /\ UNCHANGED <<servVars, permits, conn, graceful>>

SessionAborts(c) == ws[c] = "aborted" /\ SessionOver(c)   \* upgrade::on failed

SessionEnds(c) == ws[c] = "open" /\ SessionOver(c)        \* the callback returned

-----------------------------------------------------------------------------
ServerStep == AcceptFails \/ Signal \/ CloseTracker \/ Drained \/ DrainTimeout

ConnStep(c) ==
  \/ Accept(c) \/ Refuse(c)
  \/ HandshakeOk(c) \/ HandshakeFails(c)
  \/ Request(c) \/ Respond(c) \/ ConnEnds(c) \/ ObserveShutdown(c)
  \/ Upgrade(c) \/ Upgraded(c) \/ SessionAborts(c) \/ SessionEnds(c)

Next == ServerStep \/ \E c \in Conn : ConnStep(c)

(***************************************************************************)
(* Fairness.  The runtime polls a task that was woken: the serve call moves *)
(* on, a connection notices the token, a handshake ends by its timeout, an  *)
(* upgrade is written or fails, an aborted session returns.  Nothing makes  *)
(* a peer send, a handler answer or a session callback return.              *)
(***************************************************************************)
RuntimeFairness ==
  /\ WF_vars(CloseTracker)
  /\ WF_vars(Drained)
  /\ \A c \in Conn :
       /\ WF_vars(HandshakeOk(c) \/ HandshakeFails(c))
       /\ WF_vars(ObserveShutdown(c))
       /\ WF_vars(conn[c] = "upgrading" /\ (Upgraded(c) \/ ConnEnds(c)))
       /\ WF_vars(SessionAborts(c))

TimerFairness == WF_vars(DrainTimeout)

\* What only well-behaved applications and peers give.
WorkEnds ==
  \A c \in Conn :
    /\ WF_vars(conn[c] = "busy" /\ (Respond(c) \/ Upgrade(c) \/ ConnEnds(c)))
    /\ WF_vars(SessionEnds(c))

Spec == Init /\ [][Next]_vars /\ RuntimeFairness /\ TimerFairness

-----------------------------------------------------------------------------
AliveConns == {c \in Conn : conn[c] \in Live}
Sessions   == {c \in Conn : ws[c] # "none"}

\* No path through a connection's life loses a permit or returns one twice:
\* a refused socket, a failed handshake, an upgrade and a drain all balance.
PermitsConserved == permits + Cardinality(AliveConns) = MaxConnections

\* The tracker counts exactly the connection tasks and the session tasks that
\* exist, a session whose connection is gone included.
TrackerCoversWork ==
  tracked = {ConnTask(c) : c \in AliveConns} \cup {WsTask(c) : c \in Sessions}

\* "All connections drained, shutdown complete" is said only when no handshake,
\* request or WebSocket session is left, and none comes up later.
QuietAfterCleanReturn ==
  serve = "drained" => AliveConns = {} /\ Sessions = {}

\* A session waits for its upgrade only while the connection that will
\* complete or abort the upgrade is there: no session waits for ever.
UpgradeHasItsConnection ==
  \A c \in Conn : ws[c] = "waiting" <=> conn[c] = "upgrading"

\* Once the signal was taken, an emptied tracker stays empty: a session is
\* spawned before the connection it came from is discounted, so the drain can
\* not end between the two.
EmptyStaysEmpty == [][shutdown /\ tracked = {} => tracked' = {}]_vars

\* Every serve call that was told to stop returns, whatever its handlers,
\* peers and sessions do.
ShutdownReturns == shutdown ~> serve \in {"drained", "abandoned"}

\* A session that was spawned learns whether its upgrade worked.
UpgradeResolves == \A c \in Conn : ws[c] = "waiting" ~> ws[c] # "waiting"

\* If requests and sessions end, then after the signal everything ends: an idle
\* keep-alive connection, or one that goes from request to request, is not left
\* behind, so only work that does not end can make the drain time out.
WorkDrains == WorkEnds => (shutdown ~> tracked = {})

-----------------------------------------------------------------------------
(***************************************************************************)
(* The promise to the caller.                                              *)
(***************************************************************************)
PromisePhase ==
  CASE serve = "accepting"              -> "running"
    [] serve \in {"closing", "draining"} -> "stopping"
    [] serve = "drained"                 -> "clean"
    [] OTHER                             -> serve

Promise == INSTANCE ShutdownPromise WITH phase <- PromisePhase, work <- tracked

\* serve_listener implements ShutdownPromise, liveness included.
KeepsPromise == Promise!Spec

-----------------------------------------------------------------------------
(* What the project's documents say, and the code does not do. *)

\* CHANGELOG 2.7.0: after a fatal accept error the in-flight connections are
\* drained, and only then is the error surfaced.
FatalErrorDrains == serve = "failed" => trackerClosed

=============================================================================
