------------------------------ MODULE PutAck ------------------------------
(***************************************************************************)
(* The one-shot put of main.go: every outbound connection starts a         *)
(* delivery goroutine (sendBlobWithAck), which registers with the shared   *)
(* putAckTracker, writes blob.put and waits for blob.ack; the peer's       *)
(* handler stores the blob and acknowledges it; run collects one result    *)
(* per target.  The put has one key, so an entry of the tracker is         *)
(* identified by the target's address.  The n-th connection to a target is *)
(* <<t, n>>; there is a second one only with -peer-reconnect.              *)
(***************************************************************************)
EXTENDS Integers, Sequences, FiniteSets

CONSTANTS
  Targets,       \* peerTargets
  MaxAttempts,   \* -put-retries + 1
  MaxConnects,   \* bound: connections to one target; 1 without -peer-reconnect
  MaxFails,      \* bound: failures of the network or of a peer's store
  NoDelivery     \* no entry in the tracker

ASSUME PutAssumption ==
  /\ IsFiniteSet(Targets) /\ Targets # {}
  /\ MaxAttempts \in Nat \ {0} /\ MaxConnects \in Nat \ {0} /\ MaxFails \in Nat
  /\ NoDelivery \notin Targets \X (1 .. MaxConnects)

Deliveries == Targets \X (1 .. MaxConnects)

VARIABLES
  connects,   \* connections made to each target so far
  link,       \* "none", "open" or "broken", per connection
  puts,       \* blob.put frames on their way to the peer, per connection
  acks,       \* blob.ack frames on their way back, per connection
  serving,    \* connections whose frames the peer still handles
  holds,      \* does the target's store hold an intact copy?
  delivery,   \* where sendBlobWithAck is, and which attempt it makes
  acked,      \* deliveries whose channel has been closed
  pending,    \* putAckTracker.pending
  gauge,      \* BlobAcksPending
  results,    \* the putResult channel
  collected,  \* results that run has received
  run,        \* what run does: "waiting", or how it has returned
  done,       \* is the application's context done?
  fails

wire == <<connects, link, puts, acks, serving, holds>>
tracker == <<acked, pending, gauge>>
main == <<results, collected, run, done>>
vars == <<wire, delivery, tracker, main, fails>>

Target(d) == d[1]

Ended == {"accepted", "failed"}

Active(d) == delivery[d].at \in {"writing", "waiting"}

(* putResult keeps within its capacity, a delivery within its attempts.    *)
PutTypeOK ==
  /\ connects \in [Targets -> 0 .. MaxConnects]
  /\ link \in [Deliveries -> {"none", "open", "broken"}]
  /\ \A d \in Deliveries : puts[d] \in 0 .. MaxAttempts /\ acks[d] \in 0 .. MaxAttempts
  /\ serving \subseteq Deliveries
  /\ holds \in [Targets -> BOOLEAN]
  /\ delivery \in [Deliveries ->
       [at : {"none", "starting", "writing", "waiting", "sleeping"} \cup Ended,
        attempt : 1 .. MaxAttempts]]
  /\ acked \subseteq Deliveries
  /\ pending \in [Targets -> Deliveries \cup {NoDelivery}]
  /\ gauge \in Int
  /\ Len(results) <= Cardinality(Targets)
  /\ collected \in 0 .. Cardinality(Targets)
  /\ run \in {"waiting", "ok", "error", "cancelled"}
  /\ done \in BOOLEAN
  /\ fails \in 0 .. MaxFails

PutInit ==
  /\ connects = [t \in Targets |-> 0]
  /\ link = [d \in Deliveries |-> "none"]
  /\ puts = [d \in Deliveries |-> 0]
  /\ acks = [d \in Deliveries |-> 0]
  /\ serving = {}
  /\ holds \in [Targets -> BOOLEAN]
  /\ delivery = [d \in Deliveries |-> [at |-> "none", attempt |-> 1]]
  /\ acked = {}
  /\ pending = [t \in Targets |-> NoDelivery]
  /\ gauge = 0
  /\ results = <<>>
  /\ collected = 0
  /\ run = "waiting"
  /\ done = FALSE
  /\ fails = 0

-----------------------------------------------------------------------------
(* The transport, which is modelled by itself in Transport.                *)

(* Dial succeeds, at first or in the reconnector's loop, and OnPeer starts *)
(* the delivery; the peer map admits one connection to an address.         *)
OnPeer(t) ==
  LET d == <<t, connects[t] + 1>> IN
  /\ connects[t] < MaxConnects /\ ~done
  /\ \A e \in Deliveries : Target(e) = t => link[e] # "open"
  /\ connects' = [connects EXCEPT ![t] = @ + 1]
  /\ link' = [link EXCEPT ![d] = "open"]
  /\ serving' = serving \cup {d}
  /\ delivery' = [delivery EXCEPT ![d].at = "starting"]
  /\ UNCHANGED <<puts, acks, holds, tracker, main, fails>>

(* The connection is lost, with the acknowledgements not yet read; the     *)
(* peer may still read the puts that have reached it.                      *)
Broken(d) ==
  /\ link' = [link EXCEPT ![d] = "broken"]
  /\ acks' = [acks EXCEPT ![d] = 0]
  /\ \E n \in 0 .. puts[d] : puts' = [puts EXCEPT ![d] = n]

Break(d) ==
  /\ link[d] = "open" /\ fails < MaxFails
  /\ Broken(d)
  /\ fails' = fails + 1
  /\ UNCHANGED <<connects, serving, holds, delivery, tracker, main>>

-----------------------------------------------------------------------------
(* putAckTracker                                                           *)

(* register: a new channel replaces the entry of the same peer and key. *)
Register(d) ==
  /\ pending' = [pending EXCEPT ![Target(d)] = d]
  /\ acked' = acked \ {d}
  /\ gauge' = gauge + 1

(* remove deletes the entry of the peer and key, if there is one. *)
Remove(d) ==
  /\ pending' = [pending EXCEPT ![Target(d)] = NoDelivery]
  /\ gauge' = IF pending[Target(d)] = NoDelivery THEN gauge ELSE gauge - 1
  /\ UNCHANGED acked

-----------------------------------------------------------------------------
(* sendBlobWithAck, in the goroutine of connection d                       *)

Goto(d, at) == delivery' = [delivery EXCEPT ![d].at = at]

(* The goroutine ends; reportPutResult drops a result that does not fit.   *)
End(d, at) ==
  /\ Goto(d, at)
  /\ results' = IF Len(results) < Cardinality(Targets)
                  THEN Append(results, at) ELSE results
  /\ UNCHANGED <<collected, run, done>>

(* An attempt begins. *)
Attempt(d) ==
  /\ delivery[d].at = "starting"
  /\ Register(d)
  /\ Goto(d, "writing")
  /\ UNCHANGED <<wire, main, fails>>

(* The frame is written; what is written to a broken connection is lost.   *)
WriteFrame(d) ==
  /\ delivery[d].at = "writing"
  /\ puts' = IF link[d] = "open" THEN [puts EXCEPT ![d] = @ + 1] ELSE puts
  /\ Goto(d, "waiting")
  /\ UNCHANGED <<connects, link, acks, serving, holds, tracker, main, fails>>

(* Mutant: the entry of a failed write is not removed. *)
WriteFailsRegistered(d) ==
  /\ delivery[d].at = "writing"
  /\ \/ link[d] = "broken" /\ UNCHANGED <<link, puts, acks, fails>>
     \/ /\ link[d] = "open" /\ fails < MaxFails
        /\ Broken(d)
        /\ fails' = fails + 1
  /\ End(d, "failed")
  /\ UNCHANGED <<connects, serving, holds, tracker>>

(* The write fails: the entry is removed, the peer closed, no retry.       *)
WriteFails(d) ==
  /\ delivery[d].at = "writing"
  /\ \/ link[d] = "broken" /\ UNCHANGED <<link, puts, acks, fails>>
     \/ /\ link[d] = "open" /\ fails < MaxFails
        /\ Broken(d)
        /\ fails' = fails + 1
  /\ Remove(d)
  /\ End(d, "failed")
  /\ UNCHANGED <<connects, serving, holds>>

(* The channel is closed. *)
Accepted(d) ==
  /\ delivery[d].at = "waiting" /\ d \in acked
  /\ End(d, "accepted")
  /\ UNCHANGED <<wire, tracker, fails>>

(* What the timer and the cancellation do with a delivery whose entry is   *)
(* gone: the acknowledgement has won the race.                             *)
LateAck(d) ==
  /\ pending[Target(d)] = NoDelivery
  /\ End(d, "accepted")
  /\ UNCHANGED tracker

(* Mutant: the timer is armed only when another attempt may follow. *)
TimerFiresToRetry(d) ==
  /\ delivery[d].at = "waiting" /\ delivery[d].attempt < MaxAttempts
  /\ \/ LateAck(d)
     \/ pending[Target(d)] # NoDelivery /\ Remove(d) /\ Goto(d, "sleeping") /\ UNCHANGED main
  /\ UNCHANGED <<wire, fails>>

(* The acknowledgement timer fires. *)
TimerFires(d) ==
  /\ delivery[d].at = "waiting"
  /\ \/ LateAck(d)
     \/ /\ pending[Target(d)] # NoDelivery
        /\ Remove(d)
        /\ IF delivery[d].attempt = MaxAttempts
             THEN End(d, "failed")
             ELSE Goto(d, "sleeping") /\ UNCHANGED main
  /\ UNCHANGED <<wire, fails>>

(* The application's context is done while the delivery waits. *)
Cancelled(d) ==
  /\ delivery[d].at = "waiting" /\ done
  /\ \/ LateAck(d)
     \/ pending[Target(d)] # NoDelivery /\ Remove(d) /\ End(d, "failed")
  /\ UNCHANGED <<wire, fails>>

(* The retry delay is over. *)
Retry(d) ==
  /\ delivery[d].at = "sleeping"
  /\ delivery' = [delivery EXCEPT ![d] = [at |-> "starting", attempt |-> @.attempt + 1]]
  /\ UNCHANGED <<wire, tracker, main, fails>>

(* The context is done during the retry delay. *)
SleepCancelled(d) ==
  /\ delivery[d].at = "sleeping" /\ done
  /\ End(d, "failed")
  /\ UNCHANGED <<wire, tracker, fails>>

-----------------------------------------------------------------------------
(* Mutant: the blob is acknowledged before it is stored. *)
HandlePutEarlyAck(d) ==
  /\ puts[d] > 0 /\ d \in serving
  /\ puts' = [puts EXCEPT ![d] = @ - 1]
  /\ acks' = IF link[d] = "open" THEN [acks EXCEPT ![d] = @ + 1] ELSE acks
  /\ UNCHANGED <<connects, link, serving, holds, delivery, tracker, main, fails>>

(* The peer: the blob.put branch of handleReplicationMessage and           *)
(* sendBlobAck.  An acknowledgement of a broken connection is lost.        *)
HandlePut(d) ==
  /\ puts[d] > 0 /\ d \in serving
  /\ puts' = [puts EXCEPT ![d] = @ - 1]
  /\ holds' = [holds EXCEPT ![Target(d)] = TRUE]
  /\ acks' = IF link[d] = "open" THEN [acks EXCEPT ![d] = @ + 1] ELSE acks
  /\ UNCHANGED <<connects, link, serving, delivery, tracker, main, fails>>

(* The read, the write or the acknowledgement fails: the handler's error   *)
(* ends the service of the connection, which stays open.                   *)
HandlePutFails(d) ==
  /\ puts[d] > 0 /\ d \in serving /\ fails < MaxFails
  /\ puts' = [puts EXCEPT ![d] = @ - 1]
  /\ holds' \in {holds, [holds EXCEPT ![Target(d)] = TRUE]}
  /\ serving' = serving \ {d}
  /\ fails' = fails + 1
  /\ UNCHANGED <<connects, link, acks, delivery, tracker, main>>

(* The sender's handler: ack closes the channel of whoever is registered   *)
(* for the peer and the key.                                               *)
HandleAck(d) ==
  LET t == Target(d) IN
  /\ acks[d] > 0
  /\ acks' = [acks EXCEPT ![d] = @ - 1]
  /\ IF pending[t] = NoDelivery
       THEN UNCHANGED tracker
       ELSE /\ acked' = acked \cup {pending[t]}
            /\ pending' = [pending EXCEPT ![t] = NoDelivery]
            /\ gauge' = gauge - 1
  /\ UNCHANGED <<connects, link, puts, serving, holds, delivery, main, fails>>

-----------------------------------------------------------------------------
(* run with -exit-after-put                                                *)

(* Mutant: a result counts whether or not it is an error. *)
CollectAny ==
  /\ run = "waiting" /\ results # <<>>
  /\ results' = Tail(results)
  /\ IF done
       THEN run' = "cancelled" /\ UNCHANGED collected
       ELSE /\ collected' = collected + 1
            /\ run' = IF collected' = Cardinality(Targets) THEN "ok" ELSE "waiting"
  /\ UNCHANGED <<done, wire, delivery, tracker, fails>>

(* One result is received; the first error is returned. *)
Collect ==
  /\ run = "waiting" /\ results # <<>>
  /\ results' = Tail(results)
  /\ IF Head(results) = "accepted" /\ ~done
       THEN /\ collected' = collected + 1
            /\ run' = IF collected' = Cardinality(Targets) THEN "ok" ELSE "waiting"
       ELSE /\ run' = IF done THEN "cancelled" ELSE "error"
            /\ UNCHANGED collected
  /\ UNCHANGED <<done, wire, delivery, tracker, fails>>

(* The context is done, or the wait times out. *)
StopsWaiting ==
  /\ run = "waiting"
  /\ run' = IF done THEN "cancelled" ELSE "error"
  /\ UNCHANGED <<results, collected, done, wire, delivery, tracker, fails>>

(* A signal, or the return of run, ends the application's context. *)
ContextDone ==
  /\ ~done /\ done' = TRUE
  /\ UNCHANGED <<results, collected, run, wire, delivery, tracker, fails>>

-----------------------------------------------------------------------------
Deliver(d) ==
  \/ Attempt(d) \/ WriteFrame(d) \/ WriteFails(d) \/ Accepted(d)
  \/ TimerFires(d) \/ Cancelled(d) \/ Retry(d) \/ SleepCancelled(d)

PutNext ==
  \/ \E t \in Targets : OnPeer(t)
  \/ \E d \in Deliveries :
       \/ Break(d) \/ Deliver(d)
       \/ HandlePut(d) \/ HandlePutFails(d) \/ HandleAck(d)
  \/ Collect \/ StopsWaiting \/ ContextDone

PutSpec == PutInit /\ [][PutNext]_vars

(* A goroutine that can step does, and timers fire. *)
PutFairSpec == PutSpec /\ \A d \in Deliveries : WF_vars(Deliver(d))

-----------------------------------------------------------------------------
(* Properties                                                              *)

(* A delivery that sendBlobWithAck reports as accepted is one that the     *)
(* peer has stored, whichever of the timer, the cancellation and a late    *)
(* acknowledgement of an earlier attempt came first.                       *)
AcceptedStored ==
  \A d \in Deliveries : delivery[d].at = "accepted" => holds[Target(d)]

(* replication_blob_acks_pending is the number of deliveries that wait,    *)
(* each under its own entry: none is left behind by a timeout, a failed    *)
(* write or a cancellation, and none is displaced.  putResult keeps within *)
(* its capacity and a delivery within its attempts.                        *)
PendingAreWaiters ==
  /\ PutTypeOK
  /\ gauge = Cardinality({d \in Deliveries : Active(d) /\ d \notin acked})
  /\ \A d \in Deliveries : pending[Target(d)] = d <=> Active(d) /\ d \notin acked

(* When run returns success after -exit-after-put, every target holds the  *)
(* blob and has a delivery that was accepted.                              *)
ExitCoversTargets ==
  run = "ok" =>
    \A t \in Targets :
      holds[t] /\ \E d \in Deliveries : Target(d) = t /\ delivery[d].at = "accepted"

(* A delivery reports one result, whatever is lost: it is never left       *)
(* waiting for an acknowledgement.                                         *)
DeliveryEnds ==
  \A d \in Deliveries : delivery[d].at # "none" ~> delivery[d].at \in Ended
=============================================================================
