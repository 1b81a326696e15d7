----------------------------- MODULE Transport -----------------------------
(***************************************************************************)
(* Admission, service and shutdown of p2p.TCPTransport                     *)
(* (p2p/tcp_transport.go): connections are accepted or dialled, hand-      *)
(* shaken, registered in the peer map, served by a goroutine of their own, *)
(* unregistered; Drain and Close stop all of it.                           *)
(*                                                                         *)
(* Every step below is one critical section of TCPTransport.mu, or what a  *)
(* goroutine does between two of them.  A slot of Conns is one TCPPeer; it *)
(* is used again when all its goroutines have ended.                       *)
(***************************************************************************)
EXTENDS Integers, FiniteSets

CONSTANTS
  Conns,      \* connection slots
  Keys,       \* remote addresses
  NoConn,     \* no peer is registered under an address
  NoKey,      \* the address of an unused slot
  MaxPeers    \* TCPTransport.MaxPeers, 0 for no limit

ASSUME TransportAssumption ==
  /\ IsFiniteSet(Conns) /\ NoConn \notin Conns
  /\ NoKey \notin Keys /\ MaxPeers \in Nat

VARIABLES
  tstate,     \* transportLifecycleState
  acceptor,   \* does the accept loop run?
  link,       \* the goroutines and the socket of each connection
  tracked,    \* TCPTransport.connections
  peers,      \* TCPTransport.peers
  work,       \* TCPTransport.workCount
  stopper     \* the goroutine in Drain or Close

tvars == <<tstate, acceptor, link, tracked, peers, work, stopper>>

-----------------------------------------------------------------------------
(* adm: the goroutine in handleAcceptedConn or Dial.                       *)
(* srv: the goroutine in peerServe, counted from the registration on.      *)
Link == [adm : {"none", "dialing", "handshake", "onpeer", "returning"},
         srv : {"none", "starting", "reading", "handling", "leaving", "left"},
         key : Keys \cup {NoKey}, out : BOOLEAN, shut : BOOLEAN]

FreeLink == [adm |-> "none", srv |-> "none", key |-> NoKey, out |-> FALSE, shut |-> FALSE]

Free(c) == link[c] = FreeLink

Registered(c) == link[c].srv \in {"starting", "reading", "handling", "leaving"}

PeerSet == {peers[k] : k \in Keys} \ {NoConn}

TransportTypeOK ==
  /\ tstate \in {"open", "draining", "closed"}
  /\ acceptor \in BOOLEAN
  /\ link \in [Conns -> Link]
  /\ tracked \subseteq Conns
  /\ peers \in [Keys -> Conns \cup {NoConn}]
  /\ work \in Nat
  /\ stopper \in {"none", "waiting", "joining", "closing", "drained", "expired", "closed"}

(* NewTCPTransport, then ListenAndAccept, whose accept loop is work. *)
TransportInit ==
  /\ tstate = "open"
  /\ acceptor = TRUE
  /\ link = [c \in Conns |-> FreeLink]
  /\ tracked = {}
  /\ peers = [k \in Keys |-> NoConn]
  /\ work = 1
  /\ stopper = "none"

(* finishWork. *)
Finish == work' = IF work = 0 THEN 0 ELSE work - 1

-----------------------------------------------------------------------------
(* Admission. *)

(* acceptLoop: a connection that comes while the transport is open.        *)
Accept(c, k) ==
  /\ acceptor /\ tstate = "open"
  /\ Free(c)
  /\ link' = [link EXCEPT ![c] = [adm |-> "handshake", srv |-> "none", key |-> k,
                                  out |-> FALSE, shut |-> FALSE]]
  /\ tracked' = tracked \cup {c}
  /\ work' = work + 1
  /\ UNCHANGED <<tstate, acceptor, peers, stopper>>

(* acceptLoop ends: the listener is closed, or Accept fails.               *)
AcceptExits ==
  /\ acceptor
  /\ acceptor' = FALSE
  /\ Finish
  /\ UNCHANGED <<tstate, link, tracked, peers, stopper>>

(* Dial up to DialContext. *)
DialStarts(c, k) ==
  /\ tstate = "open"
  /\ Free(c)
  /\ link' = [link EXCEPT ![c] = [adm |-> "dialing", srv |-> "none", key |-> k,
                                  out |-> TRUE, shut |-> FALSE]]
  /\ work' = work + 1
  /\ UNCHANGED <<tstate, acceptor, tracked, peers, stopper>>

(* DialContext succeeds; trackConnection. *)
DialConnects(c) ==
  /\ link[c].adm = "dialing" /\ tstate = "open"
  /\ link' = [link EXCEPT ![c].adm = "handshake"]
  /\ tracked' = tracked \cup {c}
  /\ UNCHANGED <<tstate, acceptor, peers, work, stopper>>

(* DialContext fails, or trackConnection finds the transport closed. *)
DialFails(c) ==
  /\ link[c].adm = "dialing"
  /\ link' = [link EXCEPT ![c] = FreeLink]
  /\ Finish
  /\ UNCHANGED <<tstate, acceptor, tracked, peers, stopper>>

(* Mutant: finishWork runs where the peer is dropped and when Dial or      *)
(* handleAcceptedConn returns.                                             *)
DroppedTwice(c) ==
  /\ link' = [link EXCEPT ![c] = FreeLink]
  /\ tracked' = tracked \ {c}
  /\ work' = work - 2
  /\ UNCHANGED <<tstate, acceptor, peers, stopper>>

(* The admitting goroutine closes the socket and returns.                  *)
Dropped(c) ==
  /\ link' = [link EXCEPT ![c] = FreeLink]
  /\ tracked' = tracked \ {c}
  /\ Finish
  /\ UNCHANGED <<tstate, acceptor, peers, stopper>>

(* Mutant: an early return that skips the deferred finishWork. *)
HandshakeFailsUncounted(c) ==
  /\ link[c].adm = "handshake"
  /\ link' = [link EXCEPT ![c] = FreeLink]
  /\ tracked' = tracked \ {c}
  /\ UNCHANGED <<tstate, acceptor, peers, work, stopper>>

(* The TLS or the peer authentication handshake fails or times out. *)
HandshakeFails(c) ==
  /\ link[c].adm = "handshake"
  /\ Dropped(c)

(* Mutant: one peer too many. *)
FullLate == MaxPeers > 0 /\ Cardinality(PeerSet) > MaxPeers

Full == MaxPeers > 0 /\ Cardinality(PeerSet) >= MaxPeers

Duplicate(c) == peers[link[c].key] # NoConn

Register(c) ==
  /\ peers' = [peers EXCEPT ![link[c].key] = c]
  /\ link' = [link EXCEPT ![c].adm = "onpeer", ![c].srv = "starting"]
  /\ work' = work + 1
  /\ UNCHANGED <<tstate, acceptor, tracked, stopper>>

(* Mutant: the state is not looked at again after the handshake. *)
HandlePeerLate(c) ==
  /\ link[c].adm = "handshake"
  /\ ~Duplicate(c) /\ ~Full
  /\ Register(c)

(* Mutant: an address that has a peer gets another one. *)
HandlePeerAgain(c) ==
  /\ link[c].adm = "handshake"
  /\ tstate = "open" /\ ~Full
  /\ Register(c)

(* handlePeer registers the peer, whose handshake has succeeded. *)
HandlePeer(c) ==
  /\ link[c].adm = "handshake"
  /\ tstate = "open" /\ ~Duplicate(c) /\ ~Full
  /\ Register(c)

(* handlePeer refuses it: Dial returns ErrTransportClosed. *)
HandlePeerClosed(c) ==
  /\ link[c].adm = "handshake"
  /\ tstate # "open"
  /\ Dropped(c)

(* handlePeer refuses it: Dial returns nil. *)
HandlePeerRefuses(c) ==
  /\ link[c].adm = "handshake"
  /\ tstate = "open" /\ (Duplicate(c) \/ Full)
  /\ Dropped(c)

(* The OnPeer callback ends and peerServe starts. *)
OnPeer(c) ==
  /\ link[c].adm = "onpeer"
  /\ link' = [link EXCEPT ![c].adm = "returning", ![c].srv = "reading"]
  /\ UNCHANGED <<tstate, acceptor, tracked, peers, work, stopper>>

(* handleAcceptedConn or Dial returns with the peer registered. *)
AdmissionReturns(c) ==
  /\ link[c].adm = "returning"
  /\ link' = [link EXCEPT ![c] = IF @.srv = "none" THEN FreeLink ELSE [@ EXCEPT !.adm = "none"]]
  /\ Finish
  /\ UNCHANGED <<tstate, acceptor, tracked, peers, stopper>>

-----------------------------------------------------------------------------
(* Service. *)

Serve(c, from, to) ==
  /\ link[c].srv = from
  /\ link' = [link EXCEPT ![c].srv = to]
  /\ UNCHANGED <<tstate, acceptor, tracked, peers, work, stopper>>

(* A frame is read and handed to FrameHandler. *)
ReadFrame(c) == ~link[c].shut /\ Serve(c, "reading", "handling")

(* FrameHandler returns; the loop looks at shutdownCtx. *)
HandlerReturns(c) ==
  Serve(c, "handling", IF tstate = "open" THEN "reading" ELSE "leaving")

(* FrameHandler fails; the socket stays open. *)
HandlerFails(c) == Serve(c, "handling", "leaving")

(* End of file, a broken or closed connection, a deadline. *)
ReadFails(c) == Serve(c, "reading", "leaving")

(* Mutant: the peer leaves the map but not the set of connections. *)
UnregisterTracked(c) ==
  /\ link[c].srv = "leaving"
  /\ peers' = [peers EXCEPT ![link[c].key] = NoConn]
  /\ link' = [link EXCEPT ![c].srv = "left"]
  /\ UNCHANGED <<tstate, acceptor, tracked, work, stopper>>

(* unregisterPeer up to the callback; it looks for the address only. *)
Unregister(c) ==
  /\ link[c].srv = "leaving"
  /\ peers' = [peers EXCEPT ![link[c].key] = NoConn]
  /\ tracked' = tracked \ {c}
  /\ link' = [link EXCEPT ![c].srv = "left"]
  /\ UNCHANGED <<tstate, acceptor, work, stopper>>

(* OnPeerDisconnected returns, and peerServe with it. *)
ServeReturns(c) ==
  /\ link[c].srv = "left"
  /\ link' = [link EXCEPT ![c] = IF @.adm = "none" THEN FreeLink ELSE [@ EXCEPT !.srv = "none"]]
  /\ Finish
  /\ UNCHANGED <<tstate, acceptor, tracked, peers, stopper>>

-----------------------------------------------------------------------------
(* Shutdown; closeOnce admits one Drain or Close. *)

Shut(conns) == link' = [c \in Conns |-> [link[c] EXCEPT !.shut = @ \/ c \in conns]]

(* Drain: beginShutdown, then the pending connections are closed. *)
BeginDrain ==
  /\ tstate = "open" /\ stopper = "none"
  /\ tstate' = "draining"
  /\ stopper' = "waiting"
  /\ Shut({c \in tracked : ~Registered(c)})
  /\ UNCHANGED <<acceptor, tracked, peers, work>>

DrainDone ==
  /\ stopper = "waiting" /\ work = 0
  /\ tstate' = "closed"
  /\ stopper' = "drained"
  /\ UNCHANGED <<acceptor, link, tracked, peers, work>>

(* Mutant: the deadline closes the pending connections only. *)
DrainExpiresPending ==
  /\ stopper = "waiting"
  /\ stopper' = "joining"
  /\ Shut({c \in tracked : ~Registered(c)})
  /\ UNCHANGED <<tstate, acceptor, tracked, peers, work>>

(* The deadline: what is still connected is closed. *)
DrainExpires ==
  /\ stopper = "waiting"
  /\ stopper' = "joining"
  /\ Shut(tracked)
  /\ UNCHANGED <<tstate, acceptor, tracked, peers, work>>

(* The work has ended, or the grace period has. *)
DrainJoined ==
  /\ stopper = "joining"
  /\ tstate' = "closed"
  /\ stopper' = "expired"
  /\ UNCHANGED <<acceptor, link, tracked, peers, work>>

(* Close: beginShutdown, then everything tracked is closed. *)
BeginClose ==
  /\ tstate = "open" /\ stopper = "none"
  /\ tstate' = "draining"
  /\ stopper' = "closing"
  /\ Shut(tracked)
  /\ UNCHANGED <<acceptor, tracked, peers, work>>

CloseDone ==
  /\ stopper = "closing"
  /\ tstate' = "closed"
  /\ stopper' = "closed"
  /\ UNCHANGED <<acceptor, link, tracked, peers, work>>

-----------------------------------------------------------------------------
Admission(c) ==
  \/ DialConnects(c) \/ DialFails(c) \/ HandshakeFails(c) \/ HandlePeer(c)
  \/ HandlePeerClosed(c) \/ HandlePeerRefuses(c) \/ OnPeer(c) \/ AdmissionReturns(c)

Serving(c) ==
  \/ ReadFrame(c) \/ HandlerReturns(c) \/ HandlerFails(c) \/ ReadFails(c)
  \/ Unregister(c)

Stopping ==
  \/ BeginDrain \/ DrainDone \/ DrainExpires \/ DrainJoined \/ BeginClose \/ CloseDone

TransportNext ==
  \/ AcceptExits
  \/ Stopping
  \/ \E c \in Conns : \/ \E k \in Keys : Accept(c, k) \/ DialStarts(c, k)
                      \/ Admission(c)
                      \/ Serving(c) \/ ServeReturns(c)

TransportSpec == TransportInit /\ [][TransportNext]_tvars

-----------------------------------------------------------------------------
(* The goroutines that Drain has to wait for. *)
Running ==
  Cardinality({c \in Conns : link[c].adm # "none"})
    + Cardinality({c \in Conns : link[c].srv # "none"})
    + IF acceptor THEN 1 ELSE 0

(* workCount counts exactly the live goroutines (docs/PEER_DRAIN.md: they  *)
(* are tracked "before starting them"): no path forgets finishWork or runs *)
(* it twice, so waitForWork neither hangs nor returns early.               *)
WorkCounted == work = Running

(* The peer map holds exactly the registered connections, each under its   *)
(* own address, though unregisterPeer deletes by address; and they are all *)
(* connections that a shutdown will find.                                  *)
PeersOwned ==
  /\ \A c \in Conns : Registered(c) => peers[link[c].key] = c
  /\ \A k \in Keys : peers[k] # NoConn =>
       Registered(peers[k]) /\ link[peers[k]].key = k
  /\ PeerSet \subseteq tracked

(* MaxPeers "limits simultaneous peers". *)
PeersLimited == MaxPeers > 0 => Cardinality(PeerSet) <= MaxPeers

(* A Drain that met its deadline leaves nothing behind: no goroutine, no   *)
(* peer, no tracked connection.                                            *)
DrainJoins == stopper = "drained" => work = 0 /\ PeerSet = {} /\ tracked = {}

(* docs/PEER_DRAIN.md: admission is "rejected and closed before            *)
(* registration" once the transport drains, also for a connection whose    *)
(* handshake ends later.                                                   *)
NoLateAdmission ==
  [][tstate # "open" => \A k \in Keys : peers'[k] \in {peers[k], NoConn}]_tvars

(* After Drain or Close every goroutine of the transport ends, also the    *)
(* ones that were dialling, shaking hands or calling back at that moment:  *)
(* no shutdown misses a connection that was on its way in.  (It needs the  *)
(* fairness that Reconnector states.)                                      *)
Quiesces == tstate # "open" ~> work = 0
=============================================================================
