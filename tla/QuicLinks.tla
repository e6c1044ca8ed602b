------------------------------ MODULE QuicLinks ------------------------------
(***************************************************************************)
(* The QUIC link between two nodes (quic_server.py): the node that dials,  *)
(* _i_dial, with its reconnect loop, the sends that dial on their own and  *)
(* the connection events, and the node that accepts.                       *)
(*                                                                         *)
(* Each node has one event loop: a step is what a coroutine does between   *)
(* two awaits or what one connection event does.  A connection has two     *)
(* ends, which learn of its loss at different times.  Connections that     *)
(* both ends are done with are used again.                                 *)
(***************************************************************************)
EXTENDS Integers

CONSTANTS
    Conns,          \* bound: connections at a time
    NoConn,         \* no connection
    FailLimit       \* RECONNECT_FAIL_LIMIT

ASSUME LinksAssumption ==
    /\ NoConn \notin Conns
    /\ FailLimit \in Nat

PeerStates == {"PENDING", "REACHABLE", "UNREACHABLE"}

VARIABLES
    (* the dialer *)
    started,        \* connect_peers has run
    shuttingDown,   \* PeerNode._shutting_down
    closing,        \* where close_all_connections stands
    toClose,        \* the connections it still has to close (cms)
    joined,         \* the peer's join round has been reached
    state,          \* the state of the session with the peer
    connection,     \* _connections[peer]
    dialAttempts,   \* _dial_attempts[peer], up to FailLimit
    loop,           \* where the reconnect loop stands
    send,           \* where a send without a connection stands
    lock,           \* holder of _connection_locks[peer], which dials
    dialed,         \* the connection it dials
    clientEnd,      \* the dialer's end of each connection
    (* the acceptor *)
    peer,           \* its process: "absent", "up" or "gone"
    incoming,       \* _incoming_active[dialer]
    serverEnd,      \* its end of each connection
    peerState,      \* the state of its session with the dialer
    newest          \* history: the connection accepted last

loopVars == <<started, joined, loop, send>>
dialVars == <<lock, dialed, dialAttempts>>
acceptor == <<peer, incoming, serverEnd, peerState, newest>>
shutVars == <<shuttingDown, closing, toClose>>
linksVars == <<shutVars, state, connection, clientEnd, loopVars, dialVars, acceptor>>

LinksInit ==
    /\ started = FALSE
    /\ shuttingDown = FALSE /\ closing = "no" /\ toClose = {}
    /\ joined \in BOOLEAN
    /\ state = "REACHABLE"
    /\ connection = NoConn
    /\ dialAttempts = 0
    /\ loop = "off" /\ send = "idle"
    /\ lock = "free" /\ dialed = NoConn
    /\ clientEnd = [c \in Conns |-> "unused"]
    /\ peer \in {"absent", "up"}
    /\ incoming = NoConn
    /\ serverEnd = [c \in Conns |-> "unused"]
    /\ peerState \in {"REACHABLE", "PENDING"}
    /\ newest = NoConn

-----------------------------------------------------------------------------
(* The reconnect loop. *)

\* _spawn_reconnect_loop: nothing if the task is still there.
Spawned(l) == IF l = "off" THEN "begin" ELSE l

ConnectPeers ==
    /\ ~started /\ ~shuttingDown
    /\ started' = TRUE
    /\ loop' = Spawned(loop)
    /\ UNCHANGED <<shutVars, state, connection, clientEnd, joined, send,
                   dialVars, acceptor>>

\* The holder of the lock starts to dial with a connection that is free.
Dial(who) ==
    \E c \in Conns :
      /\ clientEnd[c] \in {"unused", "closed", "quit"} /\ c \notin toClose
      /\ serverEnd[c] # "open"
      /\ lock' = who /\ dialed' = c
      /\ clientEnd' = [clientEnd EXCEPT ![c] = "dialing"]
      /\ serverEnd' = [serverEnd EXCEPT ![c] = "unused"]
      /\ newest' = IF newest = c THEN NoConn ELSE newest
      /\ UNCHANGED <<dialAttempts, peer, incoming, peerState>>

LoopAwake == loop \in {"begin", "wait", "backoff"}

LoopExits ==
    /\ LoopAwake
    /\ shuttingDown \/ connection # NoConn
    /\ loop' = "off"
    /\ UNCHANGED <<shutVars, state, connection, clientEnd, started, joined,
                   send, dialVars, acceptor>>

\* Mutant: the loop ends when it has to wait.
LoopLeaves ==
    /\ LoopAwake
    /\ ~shuttingDown /\ connection = NoConn
    /\ ~joined \/ state = "UNREACHABLE"
    /\ loop' = "off"
    /\ UNCHANGED <<shutVars, state, connection, clientEnd, started, joined,
                   send, dialVars, acceptor>>

\* 30 s more, before the peer's join round or while its session is UNREACHABLE.
LoopWaits ==
    /\ LoopAwake
    /\ ~shuttingDown /\ connection = NoConn
    /\ ~joined \/ state = "UNREACHABLE"
    /\ loop' = "wait"
    /\ UNCHANGED <<shutVars, state, connection, clientEnd, started, joined,
                   send, dialVars, acceptor>>

LoopDials ==
    /\ LoopAwake
    /\ ~shuttingDown /\ connection = NoConn
    /\ joined /\ state # "UNREACHABLE"
    /\ IF lock = "free"
       THEN loop' = "dial" /\ Dial("loop")
       ELSE loop' = "locked" /\ UNCHANGED <<clientEnd, dialVars, acceptor>>
    /\ UNCHANGED <<shutVars, state, connection, started, joined, send>>

\* Mutant: _connect_peer does not look again.
LoopGetsLockBlindly ==
    /\ loop = "locked" /\ lock = "free"
    /\ loop' = "dial" /\ Dial("loop")
    /\ UNCHANGED <<shutVars, state, connection, started, joined, send>>

\* _connect_peer looks again once it has the lock.
LoopGetsLock ==
    /\ loop = "locked" /\ lock = "free"
    /\ IF connection # NoConn
       THEN loop' = "off" /\ UNCHANGED <<clientEnd, dialVars, acceptor>>
       ELSE loop' = "dial" /\ Dial("loop")
    /\ UNCHANGED <<shutVars, state, connection, started, joined, send>>

-----------------------------------------------------------------------------
(* Sends that find no connection: _ensure_connection. *)

SendDials ==
    /\ started /\ send = "idle" /\ connection = NoConn
    /\ IF lock = "free"
       THEN send' = "dial" /\ Dial("send")
       ELSE send' = "locked" /\ UNCHANGED <<clientEnd, dialVars, acceptor>>
    /\ UNCHANGED <<shutVars, state, connection, started, joined, loop>>

\* Mutant: _connect_peer does not look again.
SendGetsLockBlindly ==
    /\ send = "locked" /\ lock = "free"
    /\ send' = "dial" /\ Dial("send")
    /\ UNCHANGED <<shutVars, state, connection, started, joined, loop>>

SendGetsLock ==
    /\ send = "locked" /\ lock = "free"
    /\ IF connection # NoConn
       THEN send' = "idle" /\ UNCHANGED <<clientEnd, dialVars, acceptor>>
       ELSE send' = "dial" /\ Dial("send")
    /\ UNCHANGED <<shutVars, state, connection, started, joined, loop>>

-----------------------------------------------------------------------------
(* The dialer's connection events. *)

Dialing == lock # "free" /\ loop # "cancelled"

ClientHandshake ==
    /\ Dialing /\ clientEnd[dialed] = "dialing"
    /\ peer = "up"
    /\ clientEnd' = [clientEnd EXCEPT ![dialed] = "open"]
    /\ UNCHANGED <<shutVars, state, connection, loopVars, dialVars, acceptor>>

\* Mutant: a connection that is lost is not dialed again.
ClientTerminatedSpawnsNot(reason) ==
    /\ connection' = NoConn
    /\ state' = IF ~shuttingDown /\ reason = "" THEN "UNREACHABLE" ELSE state
    /\ loop' = loop

\* ConnectionTerminated at the dialer: whatever is registered for the peer is
\* removed.
ClientTerminated(reason) ==
    /\ connection' = NoConn
    /\ state' = IF ~shuttingDown /\ reason = "" THEN "UNREACHABLE" ELSE state
    /\ loop' = IF shuttingDown THEN loop ELSE Spawned(loop)

\* The dial times out: connect() closes the connection, without a reason,
\* before wait_for raises.  The handshake may have been completed meanwhile:
\* then the acceptor knows the connection, or is about to.
DialTimesOut ==
    /\ Dialing /\ clientEnd[dialed] \in {"dialing", "open"}
    /\ clientEnd' = [clientEnd EXCEPT ![dialed] = IF @ = "open" THEN "quit" ELSE "failed"]
    /\ ClientTerminated("")
    /\ UNCHANGED <<shutVars, started, joined, send, dialVars, acceptor>>

\* An idle link is lost silently; a peer that stops closes without a reason.
\* The latter may happen between the handshake and the registration.
ClientEndLost(c) ==
    /\ clientEnd[c] = "open"
    /\ \E reason \in {"", "Idle timeout"} :
         /\ reason = "" => peer = "gone"
         /\ reason = "Idle timeout" => dialed # c
         /\ ClientTerminated(reason)
    /\ clientEnd' = [clientEnd EXCEPT ![c] = "closed"]
    /\ UNCHANGED <<shutVars, started, joined, send, dialVars, acceptor>>

-----------------------------------------------------------------------------
(* The dial returns, to the loop or to the send. *)

Release ==
    /\ lock' = "free" /\ dialed' = NoConn
    /\ send' = IF lock = "send" THEN "idle" ELSE send

DialReturns ==
    /\ Dialing /\ clientEnd[dialed] \in {"open", "closed"}
    /\ connection' = dialed
    /\ dialAttempts' = 0
    /\ loop' = IF lock = "loop" THEN "off" ELSE loop
    /\ Release
    /\ UNCHANGED <<shutVars, state, clientEnd, started, joined, acceptor>>

DialRaises ==
    /\ Dialing /\ clientEnd[dialed] \in {"failed", "quit"}
    /\ dialAttempts' = IF dialAttempts < FailLimit THEN dialAttempts + 1 ELSE FailLimit
    /\ clientEnd' = [clientEnd EXCEPT ![dialed] = IF @ = "failed" THEN "unused" ELSE @]
    /\ loop' = IF lock = "loop" THEN "backoff" ELSE loop
    /\ state' = IF lock = "loop" /\ dialAttempts' >= FailLimit
                THEN "UNREACHABLE" ELSE state
    /\ Release
    /\ UNCHANGED <<shutVars, connection, started, joined, acceptor>>

-----------------------------------------------------------------------------
(* The acceptor. *)

ServerHandshake(c) ==
    /\ peer = "up"
    /\ clientEnd[c] \in {"open", "closed", "quit"} /\ serverEnd[c] = "unused"
    /\ serverEnd' = [serverEnd EXCEPT ![c] = "open"]
    /\ incoming' = c
    /\ newest' = c
    /\ UNCHANGED <<shutVars, state, connection, clientEnd, loopVars,
                   dialVars, peer, peerState>>

\* Mutant: whatever is registered for the dialer is removed.
RemovedAny(c) == NoConn

\* Only the connection that terminates is removed.
Removed(c) == IF incoming = c THEN NoConn ELSE incoming

\* The dialer has closed the connection, or it is idle for too long.
ServerEndLost(c) ==
    /\ peer = "up" /\ serverEnd[c] = "open"
    /\ \E reason \in {"", "Idle timeout"} :
         /\ reason = "" => clientEnd[c] = "quit"
         /\ peerState' = IF reason = "" THEN "UNREACHABLE" ELSE peerState
    /\ serverEnd' = [serverEnd EXCEPT ![c] = "closed"]
    /\ incoming' = Removed(c)
    /\ UNCHANGED <<shutVars, state, connection, clientEnd, loopVars,
                   dialVars, peer, newest>>

PeerStarts ==
    /\ peer = "absent"
    /\ peer' = "up"
    /\ UNCHANGED <<shutVars, state, connection, clientEnd, loopVars,
                   dialVars, incoming, serverEnd, peerState, newest>>

\* The acceptor's close_all_connections.
PeerStops ==
    /\ peer = "up"
    /\ peer' = "gone"
    /\ incoming' = NoConn
    /\ serverEnd' = [c \in Conns |-> IF serverEnd[c] = "open" THEN "closed"
                                     ELSE serverEnd[c]]
    /\ UNCHANGED <<shutVars, state, connection, clientEnd, loopVars,
                   dialVars, peerState, newest>>

-----------------------------------------------------------------------------
(* The rest of the dialer's node. *)

JoinRoundReached ==
    /\ ~joined
    /\ joined' = TRUE
    /\ UNCHANGED <<shutVars, state, connection, clientEnd, started, loop,
                   send, dialVars, acceptor>>

\* The resend manager gives up on the peer, or a SURB comes back from it,
\* over other nodes' links.
SessionChanges ==
    /\ state' \in {"REACHABLE", "UNREACHABLE"}
    /\ UNCHANGED <<shutVars, connection, clientEnd, loopVars, dialVars,
                   acceptor>>

ShutDown ==
    /\ ~shuttingDown
    /\ shuttingDown' = TRUE
    /\ UNCHANGED <<closing, toClose, state, connection, clientEnd, loopVars,
                   dialVars, acceptor>>

\* close_all_connections cancels the loop, wherever it awaits.  A dial takes
\* its time to end: the connection is closed first.
CancelLoop ==
    /\ shuttingDown /\ closing = "no"
    /\ closing' = "loops"
    /\ loop' = IF loop = "dial" THEN "cancelled" ELSE "off"
    /\ UNCHANGED <<shuttingDown, toClose, state, connection, clientEnd, started,
                   joined, send, dialVars, acceptor>>

CancelledDialEnds ==
    /\ loop = "cancelled"
    /\ loop' = "off"
    /\ lock' = "free" /\ dialed' = NoConn
    /\ clientEnd' = [clientEnd EXCEPT ![dialed] = CASE @ \in {"dialing", "failed"} -> "unused"
                                                   [] @ = "open" -> "quit"
                                                   [] OTHER -> @]
    /\ UNCHANGED <<shutVars, state, connection, started, joined, send,
                   dialAttempts, acceptor>>

\* When the loop has ended, or after 5 s.
ForgetConnections ==
    /\ closing = "loops"
    /\ closing' = "links"
    /\ toClose' = {connection} \ {NoConn}
    /\ connection' = NoConn
    /\ UNCHANGED <<shuttingDown, state, clientEnd, loopVars, dialVars, acceptor>>

\* __aexit__ of a connection: it terminates, if it had not before, with an event
\* like any other.
CloseConnection(c) ==
    /\ c \in toClose
    /\ toClose' = toClose \ {c}
    /\ clientEnd' = [clientEnd EXCEPT ![c] = IF @ = "open" THEN "quit" ELSE @]
    /\ connection' = IF clientEnd[c] = "open" THEN NoConn ELSE connection
    /\ UNCHANGED <<shuttingDown, closing, state, loopVars, dialVars, acceptor>>

LinksNext ==
    \/ ConnectPeers \/ LoopExits \/ LoopWaits \/ LoopDials \/ LoopGetsLock
    \/ SendDials \/ SendGetsLock
    \/ ClientHandshake \/ DialTimesOut \/ DialReturns \/ DialRaises
    \/ \E c \in Conns : ClientEndLost(c) \/ ServerHandshake(c) \/ ServerEndLost(c)
                        \/ CloseConnection(c)
    \/ PeerStarts \/ PeerStops
    \/ JoinRoundReached \/ SessionChanges \/ ShutDown
    \/ CancelLoop \/ CancelledDialEnds \/ ForgetConnections

LinksSpec == LinksInit /\ [][LinksNext]_linksVars

\* The coroutines of the dialer run when they may, a dial ends, with the
\* handshake or at its timeout, and the acceptor's end of a connection the
\* dialer is done with times out.
LinksFairSpec ==
    /\ LinksSpec
    /\ WF_linksVars(ConnectPeers)
    /\ WF_linksVars(LoopExits \/ LoopWaits \/ LoopDials \/ LoopGetsLock)
    /\ WF_linksVars(SendGetsLock)
    /\ WF_linksVars(ClientHandshake \/ DialTimesOut)
    /\ WF_linksVars(DialReturns \/ DialRaises)
    /\ \A c \in Conns : WF_linksVars(clientEnd[c] # "open" /\ ServerEndLost(c))

-----------------------------------------------------------------------------
(* Correctness. *)

\* Type invariant; the lock has a holder exactly while somebody dials, and only
\* close_all_connections has connections to close.
LinksTypeOK ==
    /\ started \in BOOLEAN /\ shuttingDown \in BOOLEAN /\ joined \in BOOLEAN
    /\ closing \in {"no", "loops", "links"} /\ toClose \subseteq Conns
    /\ state \in PeerStates /\ peerState \in PeerStates
    /\ connection \in Conns \cup {NoConn}
    /\ dialed \in Conns \cup {NoConn}
    /\ incoming \in Conns \cup {NoConn}
    /\ newest \in Conns \cup {NoConn}
    /\ dialAttempts \in 0..FailLimit
    /\ loop \in {"off", "begin", "wait", "locked", "dial", "backoff", "cancelled"}
    /\ send \in {"idle", "locked", "dial"}
    /\ lock \in {"free", "loop", "send"}
    /\ clientEnd \in [Conns -> {"unused", "dialing", "open", "failed", "closed", "quit"}]
    /\ peer \in {"absent", "up", "gone"}
    /\ serverEnd \in [Conns -> {"unused", "open", "closed"}]
    /\ lock = "free" <=> dialed = NoConn
    /\ lock = "loop" <=> loop \in {"dial", "cancelled"}
    /\ lock = "send" <=> send = "dial"
    /\ closing # "no" => shuttingDown
    /\ loop = "cancelled" => closing # "no"
    /\ toClose # {} => closing = "links"

\* The loop and a send that both find no connection do not both dial: while
\* one dials nothing is registered.
OneDial == lock # "free" => connection = NoConn

\* Somebody is always there to dial: a node that runs has a connection to the
\* peer or a reconnect loop, however losses, sends and the loop's own exits
\* interleave.
LinkOrLoop ==
    started /\ ~shuttingDown /\ connection = NoConn => loop # "off"

\* A live connection is never forgotten, though the event of any connection of
\* the peer removes whatever is registered: an open end is the registered one
\* or about to be, through timeouts after the handshake and cancelled dials, until
\* close_all_connections forgets them all.  (What a send dials after that may
\* outlive its registration.)
NoOrphanConnection ==
    closing # "links" =>
      \A c \in Conns : clientEnd[c] = "open" => c \in {connection, dialed}

\* The loss of an old connection, noticed late, leaves the acceptor with the
\* one accepted since, and what it has registered is open.
IncomingIsNewest ==
    /\ newest # NoConn => (serverEnd[newest] = "open" <=> incoming = newest)
    /\ incoming # NoConn => incoming = newest

LinkUp == connection # NoConn /\ clientEnd[connection] = "open"

\* With a peer that stays up and whose session stays out of UNREACHABLE the
\* link comes up, and comes up again whenever it is lost.
Relinks ==
    <>[](peer = "up" /\ joined /\ state # "UNREACHABLE" /\ ~shuttingDown)
      => []<>LinkUp
=============================================================================
