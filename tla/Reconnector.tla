---------------------------- MODULE Reconnector ----------------------------
(***************************************************************************)
(* The peerReconnector of main.go on top of the transport: one retry loop  *)
(* per configured target, restarted by the disconnect callback.  A target  *)
(* is the address it resolves to, the key of its peer in the peer map.     *)
(***************************************************************************)
EXTENDS Transport

CONSTANTS
  Targets,      \* the configured -peers
  MaxInbound    \* bound: inbound connections at a time

ASSUME TargetsAssumption == Targets \subseteq Keys /\ MaxInbound \in Nat

VARIABLES
  dialing,    \* peerReconnector.dialing
  pending,    \* peerReconnector.pending
  loop,       \* the goroutine in loop, per target
  retrying,   \* loops that have released the target and will schedule it again
  noting,     \* peers whose callback has found no loop and will schedule one
  cancelled   \* is the application's context done?

rvars == <<dialing, pending, loop, retrying, noting, cancelled>>
vars == <<tvars, rvars>>

(* The attempt in progress and the connection that a target has.           *)
Attempts(t) == {c \in Conns : link[c].out /\ link[c].key = t /\ link[c].adm # "none"}

Connected(t) == \E c \in Conns : link[c].out /\ link[c].key = t /\ link[c].srv # "none"

(* A target that is marked pending has a loop, which will see the mark. *)
ReconnectTypeOK ==
  /\ dialing \subseteq Targets
  /\ pending \subseteq dialing
  /\ loop \in [Targets -> {"none", "sleeping", "dialing", "ending"}]
  /\ \A t \in Targets : t \in dialing <=> loop[t] # "none"
  /\ retrying \in [Targets -> Nat]
  /\ noting \subseteq Conns
  /\ cancelled \in BOOLEAN

(* newPeerReconnector and Start. *)
ReconnectInit ==
  /\ TransportInit
  /\ dialing = Targets
  /\ pending = {}
  /\ loop = [t \in Targets |-> "sleeping"]
  /\ retrying = [t \in Targets |-> 0]
  /\ noting = {}
  /\ cancelled = FALSE

-----------------------------------------------------------------------------
(* schedule: one loop per target, none after the cancellation. *)
Scheduled(t) ==
  IF cancelled \/ t \in dialing
    THEN UNCHANGED <<dialing, loop>>
    ELSE /\ dialing' = dialing \cup {t}
         /\ loop' = [loop EXCEPT ![t] = "sleeping"]

(* loop, after its initial delay or its backoff. *)
LoopDials(t, c) ==
  /\ loop[t] = "sleeping" /\ ~cancelled
  /\ DialStarts(c, t)
  /\ loop' = [loop EXCEPT ![t] = "dialing"]
  /\ UNCHANGED <<dialing, pending, retrying, noting, cancelled>>

(* Dial returns an error: the loop sleeps and tries again.                 *)
DialErrs(t, c) ==
  /\ loop[t] = "dialing" /\ c \in Attempts(t)
  /\ DialFails(c) \/ HandshakeFails(c) \/ HandlePeerClosed(c)
  /\ loop' = [loop EXCEPT ![t] = "sleeping"]
  /\ UNCHANGED <<dialing, pending, retrying, noting, cancelled>>

(* Dial returns nil, for a registered peer and for a refused one: the loop *)
(* is over.                                                                *)
DialReturnsNil(t, c) ==
  /\ loop[t] = "dialing" /\ c \in Attempts(t)
  /\ AdmissionReturns(c) \/ HandlePeerRefuses(c)
  /\ loop' = [loop EXCEPT ![t] = "ending"]
  /\ UNCHANGED <<dialing, pending, retrying, noting, cancelled>>

LoopCancelled(t) ==
  /\ loop[t] = "sleeping" /\ cancelled
  /\ loop' = [loop EXCEPT ![t] = "ending"]
  /\ UNCHANGED <<tvars, dialing, pending, retrying, noting, cancelled>>

(* finishLoop. *)
FinishLoop(t) ==
  /\ loop[t] = "ending"
  /\ loop' = [loop EXCEPT ![t] = "none"]
  /\ dialing' = dialing \ {t}
  /\ pending' = pending \ {t}
  /\ retrying' = IF t \in pending THEN [retrying EXCEPT ![t] = @ + 1] ELSE retrying
  /\ UNCHANGED <<tvars, noting, cancelled>>

(* The deferred schedule of a loop that found the target marked. *)
Retry(t) ==
  /\ retrying[t] > 0
  /\ retrying' = [retrying EXCEPT ![t] = @ - 1]
  /\ Scheduled(t)
  /\ UNCHANGED <<tvars, pending, noting, cancelled>>

-----------------------------------------------------------------------------
(* OnPeerDisconnected of an outbound peer of a configured target. *)

Callback(c) == link[c].srv = "left" /\ c \notin noting

Noted(c) == link[c].out /\ link[c].key \in Targets /\ ~cancelled

(* Mutant: a disconnect that meets a loop is taken for handled. *)
NotePendingLost(c) ==
  /\ Callback(c) /\ Noted(c) /\ link[c].key \in dialing
  /\ ServeReturns(c)
  /\ UNCHANGED rvars

(* Mutant: a disconnect starts a loop even when the target has one. *)
NotePendingSchedules(c) ==
  /\ Callback(c) /\ Noted(c) /\ link[c].key \in dialing
  /\ loop' = [loop EXCEPT ![link[c].key] = "sleeping"]
  /\ ServeReturns(c)
  /\ UNCHANGED <<dialing, pending, retrying, noting, cancelled>>

(* noteDisconnect while the target has a loop. *)
NotePending(c) ==
  /\ Callback(c) /\ Noted(c) /\ link[c].key \in dialing
  /\ pending' = pending \cup {link[c].key}
  /\ ServeReturns(c)
  /\ UNCHANGED <<dialing, loop, retrying, noting, cancelled>>

(* noteDisconnect while it has none: the lock is released here ... *)
NoteNoLoop(c) ==
  /\ Callback(c) /\ Noted(c) /\ link[c].key \notin dialing
  /\ noting' = noting \cup {c}
  /\ UNCHANGED <<tvars, dialing, pending, loop, retrying, cancelled>>

(* ... and taken again by schedule. *)
NoteSchedules(c) ==
  /\ c \in noting
  /\ noting' = noting \ {c}
  /\ Scheduled(link[c].key)
  /\ ServeReturns(c)
  /\ UNCHANGED <<pending, retrying, cancelled>>

(* The callback of any other peer. *)
NotNoted(c) ==
  /\ Callback(c) /\ ~Noted(c)
  /\ ServeReturns(c)
  /\ UNCHANGED rvars

(* The application stops: its context first, then the transport. *)
Cancel ==
  /\ ~cancelled
  /\ cancelled' = TRUE
  /\ UNCHANGED <<tvars, dialing, pending, loop, retrying, noting>>

-----------------------------------------------------------------------------
LoopStep(t) ==
  \/ \E c \in Conns : LoopDials(t, c) \/ DialErrs(t, c) \/ DialReturnsNil(t, c)
  \/ LoopCancelled(t) \/ FinishLoop(t) \/ Retry(t)

CallbackStep(c) == NotePending(c) \/ NoteNoLoop(c) \/ NoteSchedules(c) \/ NotNoted(c)

(* The admission of a peer that nobody here has dialled ends. *)
InboundEnds(c) ==
  /\ ~link[c].out
  /\ \/ HandshakeFails(c) \/ HandlePeerClosed(c) \/ HandlePeerRefuses(c)
     \/ AdmissionReturns(c)

(* What the transport does by itself. *)
TransportStep(c) ==
  /\ \/ /\ Cardinality({d \in Conns : ~Free(d) /\ ~link[d].out}) < MaxInbound
        /\ \E k \in Keys \ Targets : Accept(c, k)
     \/ DialConnects(c) \/ HandlePeer(c) \/ OnPeer(c)
     \/ InboundEnds(c)
     \/ Serving(c)
  /\ UNCHANGED rvars

Shutdown ==
  /\ AcceptExits \/ (cancelled /\ Stopping)
  /\ UNCHANGED rvars

ReconnectNext ==
  \/ \E t \in Targets : LoopStep(t)
  \/ \E c \in Conns : CallbackStep(c) \/ TransportStep(c)
  \/ Cancel
  \/ Shutdown

ReconnectSpec == ReconnectInit /\ [][ReconnectNext]_vars

(* Every goroutine is scheduled, a dial or a handshake ends, frame handlers*)
(* return.  Once the transport shuts down its listener fails, reads of the *)
(* sockets it has closed fail, and deadlines pass.  Nothing obliges the    *)
(* application to stop, or a remote peer to close or to send.              *)
ReconnectFairSpec ==
  /\ ReconnectSpec
  /\ \A t \in Targets : WF_vars(LoopStep(t))
  /\ WF_vars(tstate # "open" /\ AcceptExits /\ UNCHANGED rvars)
  /\ WF_vars((DrainDone \/ DrainExpires \/ DrainJoined \/ CloseDone) /\ UNCHANGED rvars)
  /\ \A c \in Conns :
       /\ WF_vars(CallbackStep(c))
       /\ WF_vars((DialConnects(c) \/ HandlePeer(c) \/ OnPeer(c) \/ InboundEnds(c))
                    /\ UNCHANGED rvars)
       /\ WF_vars((HandlerReturns(c) \/ HandlerFails(c) \/ Unregister(c)) /\ UNCHANGED rvars)
       /\ WF_vars(link[c].shut /\ ReadFails(c) /\ UNCHANGED rvars)

-----------------------------------------------------------------------------
(* A configured target is never forgotten: it has a loop, or a connection  *)
(* whose disconnect callback is still to come.                             *)
Tended(t) == cancelled \/ t \in dialing \/ retrying[t] > 0 \/ Connected(t)

TargetTended == \A t \in Targets : Tended(t)

(* README.md: "duplicate disconnects do not create additional loops": at   *)
(* most one attempt per target is under way, and a disconnect is marked as *)
(* pending only for a loop that will see the mark.                         *)
OneAttempt ==
  /\ ReconnectTypeOK
  /\ \A t \in Targets : Cardinality(Attempts(t)) <= 1

(* docs/ARCHITECTURE.md: the reconnector "schedules another retry when an  *)
(* outbound configured peer disconnects": a target without a connection    *)
(* is dialled again, unless the application stops.                         *)
Redialled ==
  \A t \in Targets : ~Connected(t) ~> (Attempts(t) # {} \/ cancelled)
=============================================================================
