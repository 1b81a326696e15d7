--------------------------- MODULE PutAck_proofs ---------------------------
(***************************************************************************)
(* Proofs about PutAck for any number of targets, attempts and failures,   *)
(* without -peer-reconnect: a target has one connection and one delivery.  *)
(***************************************************************************)
EXTENDS PutAck, FiniteSetTheorems, SequenceTheorems, TLAPS

(* Where a delivery may be. *)
Ats == {"none", "starting", "writing", "waiting", "sleeping"} \cup Ended

Delivery == [at : Ats, attempt : 1 .. MaxAttempts]

(* The frames that a delivery has written. *)
Written(r) ==
  IF r.at = "none" THEN 0
  ELSE IF r.at \in {"starting", "writing"} THEN r.attempt - 1 ELSE r.attempt

PutTypes ==
  /\ connects \in [Targets -> {0, 1}]
  /\ link \in [Deliveries -> {"none", "open", "broken"}]
  /\ puts \in [Deliveries -> Nat] /\ acks \in [Deliveries -> Nat]
  /\ serving \subseteq Deliveries
  /\ holds \in [Targets -> BOOLEAN]
  /\ delivery \in [Deliveries -> Delivery]
  /\ acked \subseteq Deliveries
  /\ pending \in [Targets -> Deliveries \cup {NoDelivery}]
  /\ gauge \in Int
  /\ results \in Seq(Ended)
  /\ collected \in Nat
  /\ run \in {"waiting", "ok", "error", "cancelled"}
  /\ done \in BOOLEAN
  /\ fails \in 0 .. MaxFails

(* A target that has not been connected has no delivery under way; only a  *)
(* delivery with attempts left sleeps; a frame and its acknowledgement are *)
(* one of those that the delivery has written.                             *)
FramesWritten ==
  \A d \in Deliveries :
    /\ connects[Target(d)] = 0 => delivery[d].at = "none"
    /\ delivery[d].at = "sleeping" => delivery[d].attempt < MaxAttempts
    /\ puts[d] + acks[d] <= Written(delivery[d])

(* The peer holds the blob as soon as it acknowledges it, and so when the  *)
(* acknowledgement is read and when the delivery ends.                     *)
AckedStored ==
  \A d \in Deliveries :
    acks[d] > 0 \/ d \in acked \/ delivery[d].at = "accepted" => holds[Target(d)]

Waiters == {d \in Deliveries : Active(d) /\ d \notin acked}

(* The entry of a target is that of its own delivery, while it waits. *)
EntriesOwned ==
  /\ \A t \in Targets : pending[t] # NoDelivery => Target(pending[t]) = t
  /\ \A d \in Deliveries : pending[Target(d)] = d <=> Active(d) /\ d \notin acked
  /\ gauge = Cardinality(Waiters)

EndedOnes == {d \in Deliveries : delivery[d].at \in Ended}

(* No result is dropped: each is that of a delivery that has ended, and a  *)
(* failed one stays in the channel until it is returned as run's error.    *)
ResultsReported ==
  /\ Len(results) + collected <= Cardinality(EndedOnes)
  /\ run = "ok" => collected = Cardinality(Targets)
  /\ run \in {"waiting", "ok"} =>
       \A d \in Deliveries : delivery[d].at = "failed" =>
         \E i \in 1 .. Len(results) : results[i] = "failed"

PutInv == PutTypes /\ FramesWritten /\ AckedStored /\ EntriesOwned /\ ResultsReported

-----------------------------------------------------------------------------
(* A delivery is its target's only one.                                    *)

LEMMA OneDelivery ==
  ASSUME MaxConnects = 1
  PROVE  /\ \A d \in Deliveries : Target(d) \in Targets /\ d = <<Target(d), 1>>
         /\ \A t \in Targets : <<t, 1>> \in Deliveries /\ Target(<<t, 1>>) = t
         /\ NoDelivery \notin Deliveries
<1>1. 1 .. MaxConnects = {1}
  OBVIOUS
<1> QED
  BY <1>1, PutAssumption DEF Deliveries, Target

LEMMA SameTarget ==
  ASSUME MaxConnects = 1, NEW d \in Deliveries, NEW e \in Deliveries, Target(d) = Target(e)
  PROVE  d = e
<1>1. d = <<Target(d), 1>> /\ e = <<Target(e), 1>>
  BY OneDelivery
<1> QED
  BY <1>1

LEMMA DeliveriesCounted ==
  ASSUME MaxConnects = 1
  PROVE  /\ IsFiniteSet(Deliveries)
         /\ Cardinality(Deliveries) = Cardinality(Targets)
         /\ Cardinality(Targets) \in Nat
<1>1. 1 .. MaxConnects = {1}
  OBVIOUS
<1>2. IsFiniteSet({1}) /\ Cardinality({1}) = 1
  BY FS_Singleton
<1>3. IsFiniteSet(Targets) /\ Cardinality(Targets) \in Nat
  BY PutAssumption, FS_CardinalityType
<1>4. /\ IsFiniteSet(Targets \X {1})
      /\ Cardinality(Targets \X {1}) = Cardinality(Targets) * Cardinality({1})
  BY <1>2, <1>3, FS_Product
<1> QED
  BY <1>1, <1>2, <1>3, <1>4 DEF Deliveries

LEMMA AtsAre ==
  /\ Ended \subseteq Ats
  /\ "starting" \in Ats /\ "writing" \in Ats /\ "waiting" \in Ats /\ "sleeping" \in Ats
  /\ "accepted" \in Ended /\ "failed" \in Ended
  /\ "none" \notin Ended /\ "starting" \notin Ended /\ "writing" \notin Ended
  /\ "waiting" \notin Ended /\ "sleeping" \notin Ended
BY DEF Ats, Ended

(* What Goto leaves alone. *)
LEMMA GotoMoves ==
  ASSUME PutTypes, NEW d \in Deliveries, NEW at \in Ats, Goto(d, at)
  PROVE  /\ delivery' \in [Deliveries -> Delivery]
         /\ delivery'[d].at = at /\ delivery'[d].attempt = delivery[d].attempt
         /\ \A e \in Deliveries : e # d => delivery'[e] = delivery[e]
<1>1. delivery \in [Deliveries -> Delivery]
  BY DEF PutTypes
<1>2. delivery' = [delivery EXCEPT ![d] = [delivery[d] EXCEPT !.at = at]]
  BY <1>1 DEF Goto, Delivery
<1>3. [delivery[d] EXCEPT !.at = at] \in Delivery
  BY <1>1 DEF Delivery
<1>4. /\ [delivery[d] EXCEPT !.at = at].at = at
      /\ [delivery[d] EXCEPT !.at = at].attempt = delivery[d].attempt
  BY <1>1 DEF Delivery
<1> QED
  BY <1>1, <1>2, <1>3, <1>4

LEMMA RetryMoves ==
  ASSUME PutTypes, NEW d \in Deliveries, Retry(d), delivery[d].attempt < MaxAttempts
  PROVE  /\ delivery' \in [Deliveries -> Delivery]
         /\ delivery'[d].at = "starting" /\ delivery'[d].attempt = delivery[d].attempt + 1
         /\ \A e \in Deliveries : e # d => delivery'[e] = delivery[e]
<1> DEFINE r == [at |-> "starting", attempt |-> delivery[d].attempt + 1]
<1>1. delivery \in [Deliveries -> Delivery]
  BY DEF PutTypes
<1>2. delivery' = [delivery EXCEPT ![d] = r]
  BY <1>1 DEF Retry
<1>3. delivery[d].attempt \in 1 .. MaxAttempts
  BY <1>1 DEF Delivery
<1>4. delivery[d].attempt + 1 \in 1 .. MaxAttempts
  BY <1>3, PutAssumption
<1>5. r \in Delivery
  BY <1>4, AtsAre DEF Delivery
<1>6. r.at = "starting" /\ r.attempt = delivery[d].attempt + 1
  OBVIOUS
<1> HIDE DEF r
<1> QED
  BY <1>1, <1>2, <1>5, <1>6

(* The result that a delivery reports. *)
LEMMA EndReports ==
  ASSUME PutTypes, NEW d \in Deliveries, NEW at \in Ended, End(d, at)
  PROVE  /\ results' \in Seq(Ended)
         /\ Len(results) < Cardinality(Targets) =>
              /\ Len(results') = Len(results) + 1
              /\ \A i \in 1 .. Len(results) : results'[i] = results[i]
              /\ results'[Len(results) + 1] = at
         /\ collected' = collected /\ run' = run /\ done' = done
<1>1. results \in Seq(Ended)
  BY DEF PutTypes
<1> QED
  BY <1>1 DEF End

-----------------------------------------------------------------------------
(* Types                                                                   *)

LEMMA BrokenTypes ==
  ASSUME PutTypes, NEW d \in Deliveries, Broken(d)
  PROVE  /\ link' \in [Deliveries -> {"none", "open", "broken"}]
         /\ puts' \in [Deliveries -> Nat] /\ acks' \in [Deliveries -> Nat]
         /\ \A e \in Deliveries : puts'[e] <= puts[e] /\ acks'[e] <= acks[e]
<1>1. /\ link \in [Deliveries -> {"none", "open", "broken"}]
      /\ puts \in [Deliveries -> Nat] /\ acks \in [Deliveries -> Nat]
  BY DEF PutTypes
<1>2. PICK n \in 0 .. puts[d] : puts' = [puts EXCEPT ![d] = n]
  BY DEF Broken
<1>3. n \in Nat /\ n <= puts[d]
  BY <1>1, <1>2
<1>4. link' \in [Deliveries -> {"none", "open", "broken"}]
  BY <1>1 DEF Broken
<1>5. acks' = [acks EXCEPT ![d] = 0]
  BY DEF Broken
<1>6. \A e \in Deliveries : puts'[e] <= puts[e] /\ acks'[e] <= acks[e]
  BY <1>1, <1>2, <1>3, <1>5
<1> QED
  BY <1>1, <1>2, <1>3, <1>4, <1>5, <1>6

LEMMA TrackerTypes ==
  ASSUME MaxConnects = 1, PutTypes, NEW d \in Deliveries, Register(d) \/ Remove(d)
  PROVE  /\ acked' \subseteq Deliveries
         /\ pending' \in [Targets -> Deliveries \cup {NoDelivery}]
         /\ gauge' \in Int
<1>1. Target(d) \in Targets
  BY OneDelivery
<1>2. /\ acked \subseteq Deliveries /\ gauge \in Int
      /\ pending \in [Targets -> Deliveries \cup {NoDelivery}]
  BY DEF PutTypes
<1>3. acked' \subseteq Deliveries
  BY <1>2 DEF Register, Remove
<1>4. gauge' \in Int
  BY <1>2 DEF Register, Remove
<1>5. pending' \in [Targets -> Deliveries \cup {NoDelivery}]
  BY <1>1, <1>2 DEF Register, Remove
<1> QED
  BY <1>3, <1>4, <1>5

(* A step of sendBlobWithAck moves its own delivery only. *)
LEMMA DeliverMoves ==
  ASSUME PutTypes, FramesWritten, NEW d \in Deliveries, Deliver(d)
  PROVE  /\ delivery' \in [Deliveries -> Delivery]
         /\ \A e \in Deliveries : e # d => delivery'[e] = delivery[e]
<1>1. CASE Retry(d)
  <2>1. delivery[d].attempt < MaxAttempts
    BY <1>1 DEF FramesWritten, Retry
  <2> QED
    BY <1>1, <2>1, RetryMoves
<1>2. CASE ~Retry(d)
  <2>1. PICK at \in Ats : Goto(d, at)
    BY <1>2, AtsAre DEF Deliver, Attempt, WriteFrame, WriteFails, Accepted, TimerFires,
                        LateAck, Cancelled, SleepCancelled, End
  <2> QED
    BY <2>1, GotoMoves
<1> QED
  BY <1>1, <1>2

LEMMA DeliverTypes ==
  ASSUME MaxConnects = 1, PutTypes, FramesWritten, NEW d \in Deliveries, Deliver(d)
  PROVE  PutTypes'
<1>1. delivery' \in [Deliveries -> Delivery]
  BY DeliverMoves
<1>2. /\ connects' = connects /\ serving' = serving /\ holds' = holds
      /\ collected' = collected /\ run' = run /\ done' = done
  BY DEF Deliver, Attempt, WriteFrame, WriteFails, Accepted, TimerFires, LateAck,
         Cancelled, Retry, SleepCancelled, End, wire, main
<1>3. /\ link' \in [Deliveries -> {"none", "open", "broken"}]
      /\ puts' \in [Deliveries -> Nat] /\ acks' \in [Deliveries -> Nat]
      /\ fails' \in 0 .. MaxFails
  <2>1. CASE WriteFails(d)
    <3>1. CASE UNCHANGED <<link, puts, acks, fails>>
      BY <3>1 DEF PutTypes
    <3>2. CASE fails < MaxFails /\ Broken(d) /\ fails' = fails + 1
      <4>1. fails' \in 0 .. MaxFails
        BY <3>2, PutAssumption DEF PutTypes
      <4> QED
        BY <3>2, <4>1, BrokenTypes
    <3> QED
      BY <2>1, <3>1, <3>2 DEF WriteFails
  <2>2. CASE WriteFrame(d)
    BY <2>2 DEF WriteFrame, PutTypes
  <2>3. CASE ~WriteFails(d) /\ ~WriteFrame(d)
    BY <2>3 DEF Deliver, Attempt, Accepted, TimerFires, Cancelled, Retry, SleepCancelled,
                wire, PutTypes
  <2> QED
    BY <2>1, <2>2, <2>3
<1>4. /\ acked' \subseteq Deliveries
      /\ pending' \in [Targets -> Deliveries \cup {NoDelivery}]
      /\ gauge' \in Int
  <2>1. Register(d) \/ Remove(d) \/ UNCHANGED tracker
    BY DEF Deliver, Attempt, WriteFrame, WriteFails, Accepted, TimerFires, LateAck,
           Cancelled, Retry, SleepCancelled
  <2>2. CASE UNCHANGED tracker
    BY <2>2 DEF tracker, PutTypes
  <2> QED
    BY <2>1, <2>2, TrackerTypes
<1>5. results' \in Seq(Ended)
  <2>1. End(d, "accepted") \/ End(d, "failed") \/ results' = results
    BY DEF Deliver, Attempt, WriteFrame, WriteFails, Accepted, TimerFires, LateAck,
           Cancelled, Retry, SleepCancelled, main
  <2>2. CASE results' = results
    BY <2>2 DEF PutTypes
  <2> QED
    BY <2>1, <2>2, EndReports, AtsAre
<1> QED
  BY <1>1, <1>2, <1>3, <1>4, <1>5 DEF PutTypes

LEMMA OthersTypes ==
  ASSUME MaxConnects = 1, PutTypes, FramesWritten,
         \/ \E t \in Targets : OnPeer(t)
         \/ \E d \in Deliveries : Break(d) \/ HandlePut(d) \/ HandlePutFails(d) \/ HandleAck(d)
         \/ Collect \/ StopsWaiting \/ ContextDone
  PROVE  PutTypes'
<1>1. ASSUME NEW t \in Targets, OnPeer(t) PROVE PutTypes'
  <2>1. connects[t] = 0
    BY <1>1 DEF OnPeer, PutTypes
  <2>2. <<t, connects[t] + 1>> = <<t, 1>> /\ <<t, 1>> \in Deliveries
    BY <2>1, OneDelivery
  <2>3. connects' \in [Targets -> {0, 1}]
    BY <1>1, <2>1 DEF OnPeer, PutTypes
  <2>4. Goto(<<t, 1>>, "starting")
    BY <1>1, <2>2 DEF OnPeer, Goto
  <2>5. delivery' \in [Deliveries -> Delivery]
    BY <2>2, <2>4, GotoMoves, AtsAre
  <2> QED
    BY <1>1, <2>2, <2>3, <2>5 DEF OnPeer, PutTypes, tracker, main
<1>2. ASSUME NEW d \in Deliveries, Break(d) PROVE PutTypes'
  <2>1. fails' \in 0 .. MaxFails
    BY <1>2, PutAssumption DEF Break, PutTypes
  <2>2. /\ link' \in [Deliveries -> {"none", "open", "broken"}]
        /\ puts' \in [Deliveries -> Nat] /\ acks' \in [Deliveries -> Nat]
    BY <1>2, BrokenTypes DEF Break
  <2> QED
    BY <1>2, <2>1, <2>2 DEF Break, PutTypes, tracker, main
<1>3. ASSUME NEW d \in Deliveries, HandlePut(d) PROVE PutTypes'
  <2>1. puts' \in [Deliveries -> Nat] /\ acks' \in [Deliveries -> Nat]
    BY <1>3 DEF HandlePut, PutTypes
  <2>2. holds' \in [Targets -> BOOLEAN]
    BY <1>3 DEF HandlePut, PutTypes
  <2> QED
    BY <1>3, <2>1, <2>2 DEF HandlePut, PutTypes, tracker, main
<1>4. ASSUME NEW d \in Deliveries, HandlePutFails(d) PROVE PutTypes'
  <2>1. puts' \in [Deliveries -> Nat] /\ fails' \in 0 .. MaxFails
    BY <1>4, PutAssumption DEF HandlePutFails, PutTypes
  <2>2. holds' \in [Targets -> BOOLEAN]
    BY <1>4 DEF HandlePutFails, PutTypes
  <2> QED
    BY <1>4, <2>1, <2>2 DEF HandlePutFails, PutTypes, tracker, main
<1>5. ASSUME NEW d \in Deliveries, HandleAck(d) PROVE PutTypes'
  <2>1. acks' \in [Deliveries -> Nat]
    BY <1>5 DEF HandleAck, PutTypes
  <2>2. Target(d) \in Targets
    BY OneDelivery
  <2>3. /\ acked' \subseteq Deliveries
        /\ pending' \in [Targets -> Deliveries \cup {NoDelivery}]
        /\ gauge' \in Int
    <3> DEFINE t == Target(d)
    <3>1. CASE pending[t] = NoDelivery
      BY <1>5, <3>1 DEF HandleAck, PutTypes, tracker
    <3>2. CASE pending[t] # NoDelivery
      <4>1. /\ acked' = acked \cup {pending[t]} /\ gauge' = gauge - 1
            /\ pending' = [pending EXCEPT ![t] = NoDelivery]
        BY <1>5, <3>2 DEF HandleAck
      <4>2. pending \in [Targets -> Deliveries \cup {NoDelivery}]
        BY DEF PutTypes
      <4>3. pending[t] \in Deliveries
        BY <2>2, <3>2, <4>2
      <4>4. acked' \subseteq Deliveries /\ gauge' \in Int
        BY <4>1, <4>3 DEF PutTypes
      <4> QED
        BY <4>1, <4>2, <4>4
    <3> QED
      BY <3>1, <3>2
  <2> QED
    BY <1>5, <2>1, <2>3 DEF HandleAck, PutTypes, main
<1>6. ASSUME Collect PROVE PutTypes'
  <2>1. results' \in Seq(Ended)
    BY <1>6 DEF Collect, PutTypes
  <2>2. collected' \in Nat /\ run' \in {"waiting", "ok", "error", "cancelled"}
    BY <1>6 DEF Collect, PutTypes
  <2> QED
    BY <1>6, <2>1, <2>2 DEF Collect, PutTypes, tracker, wire
<1>7. ASSUME StopsWaiting \/ ContextDone PROVE PutTypes'
  <2>1. results' = results
    BY <1>7 DEF StopsWaiting, ContextDone
  <2>2. run' \in {"waiting", "ok", "error", "cancelled"} /\ done' \in BOOLEAN /\ collected' = collected
    BY <1>7 DEF StopsWaiting, ContextDone, PutTypes
  <2> QED
    BY <1>7, <2>1, <2>2 DEF StopsWaiting, ContextDone, PutTypes, tracker, wire
<1> QED
  BY <1>1, <1>2, <1>3, <1>4, <1>5, <1>6, <1>7

-----------------------------------------------------------------------------
(* Frames, acknowledgements and what the peers hold                        *)

(* A delivery never forgets a frame that it has written. *)
LEMMA DeliverTurns ==
  ASSUME PutTypes, FramesWritten, NEW d \in Deliveries, Deliver(d)
  PROVE  /\ delivery[d].at \notin Ended \cup {"none"}
         /\ delivery'[d].at # "none"
         /\ delivery'[d].at = "sleeping" => delivery'[d].attempt < MaxAttempts
         /\ Written(delivery'[d]) >= Written(delivery[d])
         /\ WriteFrame(d) => Written(delivery'[d]) = Written(delivery[d]) + 1
<1>1. delivery[d].at \in Ats /\ delivery[d].attempt \in 1 .. MaxAttempts
  BY DEF PutTypes, Delivery
<1>2. delivery[d].attempt \in Nat /\ delivery[d].attempt >= 1 /\ delivery[d].attempt <= MaxAttempts
  BY <1>1, PutAssumption
<1>3. CASE Attempt(d)
  <2>1. delivery'[d].at = "writing" /\ delivery'[d].attempt = delivery[d].attempt
    BY <1>3, GotoMoves, AtsAre DEF Attempt
  <2>2. delivery[d].at = "starting" /\ ~WriteFrame(d)
    BY <1>3 DEF Attempt, WriteFrame
  <2> QED
    BY <1>2, <2>1, <2>2 DEF Written, Ended
<1>4. CASE WriteFrame(d)
  <2>1. delivery'[d].at = "waiting" /\ delivery'[d].attempt = delivery[d].attempt
    BY <1>4, GotoMoves, AtsAre DEF WriteFrame
  <2>2. delivery[d].at = "writing"
    BY <1>4 DEF WriteFrame
  <2> QED
    BY <1>2, <2>1, <2>2 DEF Written, Ended
<1>5. CASE Retry(d)
  <2>1. delivery[d].at = "sleeping" /\ ~WriteFrame(d)
    BY <1>5 DEF Retry, WriteFrame
  <2>2. delivery[d].attempt < MaxAttempts
    BY <2>1 DEF FramesWritten
  <2>3. delivery'[d].at = "starting" /\ delivery'[d].attempt = delivery[d].attempt + 1
    BY <1>5, <2>2, RetryMoves
  <2> QED
    BY <1>2, <2>1, <2>3 DEF Written, Ended
<1>6. CASE WriteFails(d) \/ Accepted(d) \/ TimerFires(d) \/ Cancelled(d) \/ SleepCancelled(d)
  <2>1. CASE Goto(d, "sleeping") /\ TimerFires(d) /\ delivery[d].attempt # MaxAttempts
    <3>1. delivery'[d].at = "sleeping" /\ delivery'[d].attempt = delivery[d].attempt
      BY <2>1, GotoMoves, AtsAre
    <3>2. delivery[d].at = "waiting" /\ ~WriteFrame(d)
      BY <2>1 DEF TimerFires, WriteFrame
    <3> QED
      BY <1>2, <2>1, <3>1, <3>2, PutAssumption DEF Written, Ended
  <2>2. ASSUME NEW at \in Ended, Goto(d, at)
        PROVE  /\ delivery[d].at \notin Ended \cup {"none"}
               /\ delivery'[d].at # "none"
               /\ delivery'[d].at = "sleeping" => delivery'[d].attempt < MaxAttempts
               /\ Written(delivery'[d]) >= Written(delivery[d])
               /\ WriteFrame(d) => Written(delivery'[d]) = Written(delivery[d]) + 1
    <3>1. delivery'[d].at = at /\ delivery'[d].attempt = delivery[d].attempt
      BY <2>2, GotoMoves, AtsAre
    <3>2. delivery[d].at \in {"writing", "waiting", "sleeping"}
      BY <1>6 DEF WriteFails, Accepted, TimerFires, Cancelled, SleepCancelled
    <3>3. ~WriteFrame(d)
      <4>1. WriteFrame(d) => delivery'[d].at = "waiting"
        BY GotoMoves, AtsAre DEF WriteFrame
      <4> QED
        BY <2>2, <3>1, <4>1, AtsAre
    <3> QED
      BY <1>2, <2>2, <3>1, <3>2, <3>3 DEF Written, Ended
  <2>3. \/ Goto(d, "sleeping") /\ TimerFires(d) /\ delivery[d].attempt # MaxAttempts
        \/ Goto(d, "accepted") \/ Goto(d, "failed")
    BY <1>6 DEF WriteFails, Accepted, TimerFires, LateAck, Cancelled, SleepCancelled, End
  <2> QED
    BY <2>1, <2>2, <2>3, AtsAre
<1> QED
  BY <1>3, <1>4, <1>5, <1>6 DEF Deliver

LEMMA DeliverFrames ==
  ASSUME PutTypes, PutTypes', FramesWritten, NEW d \in Deliveries, Deliver(d)
  PROVE  FramesWritten'
<1> DEFINE old == Written(delivery[d])
<1> DEFINE new == Written(delivery'[d])
<1>1. delivery[d].attempt \in Nat /\ delivery'[d].attempt \in Nat
  BY PutAssumption DEF PutTypes, Delivery
<1>2. old \in Int /\ new \in Int
  BY <1>1 DEF Written
<1>3. /\ \A e \in Deliveries : puts[e] \in Nat /\ acks[e] \in Nat
      /\ \A e \in Deliveries : puts'[e] \in Nat /\ acks'[e] \in Nat
  BY DEF PutTypes
<1>4. /\ \A e \in Deliveries : e # d => puts'[e] <= puts[e] /\ acks'[e] <= acks[e]
      /\ acks'[d] <= acks[d]
      /\ \/ puts'[d] <= puts[d]
         \/ WriteFrame(d) /\ puts'[d] <= puts[d] + 1
  <2>1. CASE WriteFails(d)
    <3>1. CASE UNCHANGED <<link, puts, acks, fails>>
      BY <1>3, <3>1
    <3>2. CASE Broken(d)
      BY <1>3, <3>2, BrokenTypes
    <3> QED
      BY <2>1, <3>1, <3>2 DEF WriteFails
  <2>2. CASE WriteFrame(d)
    <3>1. puts \in [Deliveries -> Nat] /\ acks' = acks
      BY <2>2 DEF WriteFrame, PutTypes
    <3>2. puts' = puts \/ puts' = [puts EXCEPT ![d] = @ + 1]
      BY <2>2 DEF WriteFrame
    <3> QED
      BY <1>3, <2>2, <3>1, <3>2
  <2>3. CASE ~WriteFails(d) /\ ~WriteFrame(d)
    <3>1. puts' = puts /\ acks' = acks
      BY <2>3 DEF Deliver, Attempt, Accepted, TimerFires, Cancelled, Retry, SleepCancelled, wire
    <3> QED
      BY <1>3, <3>1
  <2> QED
    BY <2>1, <2>2, <2>3
<1>5. /\ delivery[d].at # "none" /\ delivery'[d].at # "none"
      /\ delivery'[d].at = "sleeping" => delivery'[d].attempt < MaxAttempts
  BY DeliverTurns
<1>6. new >= old /\ (WriteFrame(d) => new = old + 1)
  BY DeliverTurns
<1>7. puts[d] + acks[d] <= old
  BY DEF FramesWritten
<1> HIDE DEF old, new
<1>8. puts'[d] + acks'[d] <= new
  BY <1>2, <1>3, <1>4, <1>6, <1>7
<1>9. \A e \in Deliveries : e # d => puts'[e] + acks'[e] <= puts[e] + acks[e]
  BY <1>3, <1>4
<1>10. connects' = connects
  BY DEF Deliver, Attempt, WriteFrame, WriteFails, Accepted, TimerFires,
         Cancelled, Retry, SleepCancelled, wire
<1>11. connects[Target(d)] # 0
  BY <1>5 DEF FramesWritten
<1>12. \A e \in Deliveries : e # d => delivery'[e] = delivery[e]
  BY DeliverMoves
<1> SUFFICES ASSUME NEW e \in Deliveries
             PROVE  /\ connects'[Target(e)] = 0 => delivery'[e].at = "none"
                    /\ delivery'[e].at = "sleeping" => delivery'[e].attempt < MaxAttempts
                    /\ puts'[e] + acks'[e] <= Written(delivery'[e])
  BY DEF FramesWritten
<1>13. CASE e = d
  BY <1>5, <1>8, <1>10, <1>11, <1>13 DEF new
<1>14. CASE e # d
  <2>1. /\ connects[Target(e)] = 0 => delivery[e].at = "none"
        /\ delivery[e].at = "sleeping" => delivery[e].attempt < MaxAttempts
        /\ puts[e] + acks[e] <= Written(delivery[e])
    BY DEF FramesWritten
  <2>2. delivery[e].attempt \in Nat
    BY PutAssumption DEF PutTypes, Delivery
  <2>3. Written(delivery[e]) \in Int
    BY <2>2 DEF Written
  <2>4. delivery'[e] = delivery[e] /\ puts'[e] + acks'[e] <= puts[e] + acks[e]
    BY <1>9, <1>12, <1>14
  <2>5. puts'[e] + acks'[e] <= Written(delivery[e])
    BY <1>3, <2>1, <2>3, <2>4
  <2> QED
    BY <1>10, <2>1, <2>4, <2>5
<1> QED
  BY <1>13, <1>14

LEMMA OnPeerFrames ==
  ASSUME MaxConnects = 1, PutTypes, PutTypes', FramesWritten, AckedStored,
         NEW t \in Targets, OnPeer(t)
  PROVE  FramesWritten' /\ AckedStored'
<1> DEFINE d == <<t, 1>>
<1>a. connects \in [Targets -> {0, 1}]
  BY DEF PutTypes
<1>b. connects[t] = 0
  BY <1>a DEF OnPeer
<1>1. connects[t] = 0 /\ connects' = [connects EXCEPT ![t] = 1]
  BY <1>a, <1>b DEF OnPeer
<1>2. d \in Deliveries /\ Target(d) = t
  BY OneDelivery
<1>3. <<t, connects[t] + 1>> = d
  BY <1>1
<1>4. Goto(d, "starting")
  BY <1>3 DEF OnPeer, Goto
<1> HIDE DEF d
<1>5. /\ delivery'[d].at = "starting"
      /\ \A e \in Deliveries : e # d => delivery'[e] = delivery[e]
  BY <1>2, <1>4, GotoMoves, AtsAre
<1>6. puts' = puts /\ acks' = acks /\ holds' = holds /\ acked' = acked
  BY DEF OnPeer, tracker
<1>7. delivery[d].at = "none"
  BY <1>1, <1>2 DEF FramesWritten
<1>8. delivery'[d].attempt \in Nat /\ delivery'[d].attempt >= 1
  <2>1. delivery'[d].attempt \in 1 .. MaxAttempts
    BY <1>2 DEF PutTypes, Delivery
  <2> QED
    BY <2>1, PutAssumption
<1>9. puts[d] \in Nat /\ acks[d] \in Nat
  BY <1>2 DEF PutTypes
<1>10. puts[d] + acks[d] <= 0
  BY <1>2, <1>7 DEF FramesWritten, Written
<1>11. puts'[d] + acks'[d] <= Written(delivery'[d])
  BY <1>5, <1>6, <1>8, <1>9, <1>10 DEF Written
<1>12. connects'[t] = 1
  BY <1>1 DEF PutTypes
<1>13. \A e \in Deliveries : e # d => Target(e) # t
  BY <1>2, SameTarget
<1>14. \A e \in Deliveries : e # d => connects'[Target(e)] = connects[Target(e)]
  BY <1>1, <1>13, OneDelivery DEF PutTypes
<1>15. FramesWritten'
  BY <1>2, <1>5, <1>6, <1>11, <1>12, <1>14 DEF FramesWritten
<1>16. AckedStored'
  BY <1>5, <1>6 DEF AckedStored
<1> QED
  BY <1>15, <1>16

LEMMA PeerFrames ==
  ASSUME MaxConnects = 1, PutTypes, PutTypes', FramesWritten, AckedStored, NEW d \in Deliveries,
         Break(d) \/ HandlePut(d) \/ HandlePutFails(d) \/ HandleAck(d)
  PROVE  FramesWritten'
<1>1. /\ \A e \in Deliveries : puts[e] \in Nat /\ acks[e] \in Nat
      /\ \A e \in Deliveries : puts'[e] \in Nat /\ acks'[e] \in Nat
      /\ puts \in [Deliveries -> Nat] /\ acks \in [Deliveries -> Nat]
  BY DEF PutTypes
<1>2. connects' = connects /\ delivery' = delivery
  BY DEF Break, HandlePut, HandlePutFails, HandleAck
<1>3. \A e \in Deliveries : puts'[e] + acks'[e] <= puts[e] + acks[e]
  <2>1. CASE Break(d)
    <3>1. \A e \in Deliveries : puts'[e] <= puts[e] /\ acks'[e] <= acks[e]
      BY <2>1, BrokenTypes DEF Break
    <3> QED
      BY <1>1, <3>1
  <2>2. CASE HandlePut(d)
    <3>1. puts' = [puts EXCEPT ![d] = @ - 1]
      BY <2>2 DEF HandlePut
    <3>2. acks' = acks \/ acks' = [acks EXCEPT ![d] = @ + 1]
      BY <2>2 DEF HandlePut
    <3> QED
      BY <1>1, <3>1, <3>2
  <2>3. CASE HandlePutFails(d)
    <3>1. puts' = [puts EXCEPT ![d] = @ - 1] /\ acks' = acks
      BY <2>3 DEF HandlePutFails
    <3> QED
      BY <1>1, <3>1
  <2>4. CASE HandleAck(d)
    <3>1. acks' = [acks EXCEPT ![d] = @ - 1] /\ puts' = puts
      BY <2>4 DEF HandleAck
    <3> QED
      BY <1>1, <3>1
  <2> QED
    BY <2>1, <2>2, <2>3, <2>4
<1>4. \A e \in Deliveries : delivery[e].attempt \in Nat
  BY PutAssumption DEF PutTypes, Delivery
<1>5. \A e \in Deliveries : Written(delivery[e]) \in Int
  BY <1>4 DEF Written
<1>6. \A e \in Deliveries : puts'[e] + acks'[e] <= Written(delivery[e])
  BY <1>1, <1>3, <1>5 DEF FramesWritten
<1> QED
  BY <1>2, <1>6 DEF FramesWritten

(* Only the peer's handler acknowledges, and it has stored the blob. *)
LEMMA PeerStored ==
  ASSUME MaxConnects = 1, PutTypes, AckedStored, EntriesOwned, NEW d \in Deliveries,
         Break(d) \/ HandlePut(d) \/ HandlePutFails(d) \/ HandleAck(d)
  PROVE  AckedStored'
<1>1. delivery' = delivery
  BY DEF Break, HandlePut, HandlePutFails, HandleAck
<1>2. acks \in [Deliveries -> Nat] /\ holds \in [Targets -> BOOLEAN]
  BY DEF PutTypes
<1>3. \A e \in Deliveries : Target(e) \in Targets
  BY OneDelivery
<1>4. CASE Break(d)
  <2>1. \A e \in Deliveries : acks'[e] \in Nat /\ acks'[e] <= acks[e]
    BY <1>4, BrokenTypes DEF Break
  <2>2. holds' = holds /\ acked' = acked
    BY <1>4 DEF Break, tracker
  <2>3. \A e \in Deliveries : acks'[e] > 0 => acks[e] > 0
    BY <1>2, <2>1
  <2> QED
    BY <1>1, <2>2, <2>3 DEF AckedStored
<1>5. CASE HandlePut(d)
  <2>1. holds' = [holds EXCEPT ![Target(d)] = TRUE] /\ acked' = acked
    BY <1>5 DEF HandlePut, tracker
  <2>2. acks' = acks \/ acks' = [acks EXCEPT ![d] = @ + 1]
    BY <1>5 DEF HandlePut
  <2>3. \A e \in Deliveries : e # d => acks'[e] = acks[e]
    BY <1>2, <2>2
  <2>4. holds'[Target(d)] /\ \A e \in Deliveries : holds[Target(e)] => holds'[Target(e)]
    BY <1>2, <1>3, <2>1
  <2> QED
    BY <1>1, <2>1, <2>3, <2>4 DEF AckedStored
<1>6. CASE HandlePutFails(d)
  <2>1. acks' = acks /\ acked' = acked
    BY <1>6 DEF HandlePutFails, tracker
  <2>2. \A e \in Deliveries : holds[Target(e)] => holds'[Target(e)]
    BY <1>2, <1>3, <1>6 DEF HandlePutFails
  <2> QED
    BY <1>1, <2>1, <2>2 DEF AckedStored
<1>7. CASE HandleAck(d)
  <2> DEFINE t == Target(d)
  <2>1. acks[d] > 0 /\ acks' = [acks EXCEPT ![d] = @ - 1] /\ holds' = holds
    BY <1>7 DEF HandleAck
  <2>2. holds[t]
    BY <2>1 DEF AckedStored
  <2>3. \A e \in Deliveries : acks'[e] > 0 => acks[e] > 0
    BY <1>2, <2>1
  <2>4. \A e \in acked' : e \in acked \/ (e = pending[t] /\ pending[t] # NoDelivery)
    BY <1>7 DEF HandleAck, tracker
  <2>5. pending[t] # NoDelivery => Target(pending[t]) = t
    BY <1>3 DEF EntriesOwned
  <2> HIDE DEF t
  <2> QED
    BY <1>1, <2>1, <2>2, <2>3, <2>4, <2>5 DEF AckedStored
<1> QED
  BY <1>4, <1>5, <1>6, <1>7

(* A delivery that waits without an entry has been acknowledged, so the    *)
(* timer, the cancellation and the closed channel accept what is stored.   *)
LEMMA DeliverStored ==
  ASSUME MaxConnects = 1, PutInv, NEW d \in Deliveries, Deliver(d)
  PROVE  AckedStored'
<1>1. PutTypes /\ FramesWritten /\ AckedStored /\ EntriesOwned
  BY DEF PutInv
<1>2. holds' = holds /\ acked' \subseteq acked
  BY DEF Deliver, Attempt, WriteFrame, WriteFails, Accepted, TimerFires, LateAck, Remove,
         Register, Cancelled, Retry, SleepCancelled, wire, tracker
<1>3. \A e \in Deliveries : acks'[e] > 0 => acks[e] > 0
  <2>1. CASE acks' = acks
    BY <2>1
  <2>2. CASE Broken(d)
    <3>1. acks \in [Deliveries -> Nat] /\ acks' = [acks EXCEPT ![d] = 0]
      BY <1>1, <2>2 DEF Broken, PutTypes
    <3> QED
      BY <3>1
  <2> QED
    BY <2>1, <2>2 DEF Deliver, Attempt, WriteFrame, WriteFails, Accepted, TimerFires,
                      Cancelled, Retry, SleepCancelled, wire
<1>4. \A e \in Deliveries : e # d => delivery'[e] = delivery[e]
  BY <1>1, DeliverMoves
<1>5. delivery'[d].at = "accepted" => holds[Target(d)]
  <2>1. CASE Accepted(d)
    BY <1>1, <2>1 DEF Accepted, AckedStored
  <2>2. CASE delivery[d].at = "waiting" /\ LateAck(d)
    <3>1. d # NoDelivery /\ pending[Target(d)] # d
      BY <2>2, OneDelivery DEF LateAck
    <3>2. d \in acked
      BY <1>1, <2>2, <3>1 DEF EntriesOwned, Active
    <3> QED
      BY <1>1, <3>2 DEF AckedStored
  <2>3. ASSUME NEW at \in Ats \ {"accepted"}, Goto(d, at)
        PROVE  delivery'[d].at # "accepted"
    BY <1>1, <2>3, GotoMoves
  <2>4. CASE Retry(d)
    <3>1. delivery[d].attempt < MaxAttempts
      BY <1>1, <2>4 DEF FramesWritten, Retry
    <3> QED
      BY <1>1, <2>4, <3>1, RetryMoves
  <2>5. \/ Accepted(d) \/ (delivery[d].at = "waiting" /\ LateAck(d)) \/ Retry(d)
        \/ Goto(d, "writing") \/ Goto(d, "waiting") \/ Goto(d, "sleeping") \/ Goto(d, "failed")
    BY DEF Deliver, Attempt, WriteFrame, WriteFails, TimerFires, Cancelled, SleepCancelled, End
  <2> QED
    BY <2>1, <2>2, <2>3, <2>4, <2>5, AtsAre DEF Ats, Ended
<1> QED
  BY <1>1, <1>2, <1>3, <1>4, <1>5 DEF AckedStored

-----------------------------------------------------------------------------
(* The tracker                                                             *)

LEMMA WaitersCounted ==
  ASSUME MaxConnects = 1
  PROVE  IsFiniteSet(Waiters) /\ Cardinality(Waiters) \in Nat
<1>1. Waiters \subseteq Deliveries
  BY DEF Waiters
<1>2. IsFiniteSet(Waiters)
  BY <1>1, DeliveriesCounted, FS_Subset
<1> QED
  BY <1>2, FS_CardinalityType

(* The entry that a target has is that of its delivery. *)
LEMMA EntryOf ==
  ASSUME MaxConnects = 1, PutTypes, EntriesOwned, NEW d \in Deliveries,
         pending[Target(d)] # NoDelivery
  PROVE  pending[Target(d)] = d
<1>1. Target(d) \in Targets
  BY OneDelivery
<1>2. pending[Target(d)] \in Deliveries
  BY <1>1 DEF PutTypes
<1>3. Target(pending[Target(d)]) = Target(d)
  BY <1>1 DEF EntriesOwned
<1> QED
  BY <1>2, <1>3, SameTarget

(* Nobody starts or stops to wait. *)
LEMMA WaitersStay ==
  ASSUME EntriesOwned, UNCHANGED tracker,
         \A e \in Deliveries : e \notin acked => (Active(e)' <=> Active(e))
  PROVE  EntriesOwned'
<1>1. acked' = acked /\ pending' = pending /\ gauge' = gauge
  BY DEF tracker
<1>2. Waiters' = Waiters
  BY <1>1 DEF Waiters
<1> QED
  BY <1>1, <1>2 DEF EntriesOwned

(* Delivery d stops to wait, and its entry goes if it has one. *)
LEMMA WaiterLeaves ==
  ASSUME MaxConnects = 1, PutTypes, EntriesOwned, NEW d \in Deliveries,
         pending' = [pending EXCEPT ![Target(d)] = NoDelivery],
         gauge' = IF pending[Target(d)] = NoDelivery THEN gauge ELSE gauge - 1,
         \A e \in Deliveries : e # d => (Active(e)' <=> Active(e)) /\ (e \in acked' <=> e \in acked),
         ~Active(d)' \/ d \in acked'
  PROVE  EntriesOwned'
<1>1. /\ Target(d) \in Targets /\ d # NoDelivery
      /\ \A e \in Deliveries : Target(e) \in Targets /\ e # NoDelivery
  BY OneDelivery
<1>2. pending \in [Targets -> Deliveries \cup {NoDelivery}] /\ gauge \in Int
  BY DEF PutTypes
<1>3. \A t \in Targets : pending'[t] = IF t = Target(d) THEN NoDelivery ELSE pending[t]
  BY <1>2
<1>4. \A t \in Targets : pending'[t] # NoDelivery => Target(pending'[t]) = t
  BY <1>3 DEF EntriesOwned
<1>5. \A e \in Deliveries : e # d => Target(e) # Target(d)
  BY SameTarget
<1>6. \A e \in Deliveries : pending'[Target(e)] = e <=> Active(e)' /\ e \notin acked'
  BY <1>1, <1>3, <1>5 DEF EntriesOwned
<1>7. Waiters' = Waiters \ {d}
  BY DEF Waiters
<1>8. gauge' = Cardinality(Waiters \ {d})
  <2>1. gauge = Cardinality(Waiters) /\ IsFiniteSet(Waiters)
    BY WaitersCounted DEF EntriesOwned
  <2>2. d \in Waiters <=> pending[Target(d)] = d
    BY DEF EntriesOwned, Waiters
  <2>3. Cardinality(Waiters \ {d}) = IF d \in Waiters THEN Cardinality(Waiters) - 1 ELSE Cardinality(Waiters)
    BY <2>1, FS_RemoveElement
  <2>4. pending[Target(d)] # NoDelivery <=> pending[Target(d)] = d
    BY <1>1, EntryOf
  <2> QED
    BY <2>1, <2>2, <2>3, <2>4
<1> QED
  BY <1>4, <1>6, <1>7, <1>8 DEF EntriesOwned

(* Delivery d registers. *)
LEMMA WaiterEnters ==
  ASSUME MaxConnects = 1, PutTypes, EntriesOwned, NEW d \in Deliveries,
         Register(d), ~Active(d), Active(d)',
         \A e \in Deliveries : e # d => (Active(e)' <=> Active(e))
  PROVE  EntriesOwned'
<1>1. /\ Target(d) \in Targets /\ d # NoDelivery
      /\ \A e \in Deliveries : Target(e) \in Targets /\ e # NoDelivery
  BY OneDelivery
<1>2. pending \in [Targets -> Deliveries \cup {NoDelivery}] /\ gauge \in Int
  BY DEF PutTypes
<1>3. /\ pending' = [pending EXCEPT ![Target(d)] = d]
      /\ acked' = acked \ {d} /\ gauge' = gauge + 1
  BY DEF Register
<1>4. \A t \in Targets : pending'[t] = IF t = Target(d) THEN d ELSE pending[t]
  BY <1>2, <1>3
<1>5. \A t \in Targets : pending'[t] # NoDelivery => Target(pending'[t]) = t
  BY <1>4 DEF EntriesOwned
<1>6. \A e \in Deliveries : e # d => Target(e) # Target(d)
  BY SameTarget
<1>7. \A e \in Deliveries : pending'[Target(e)] = e <=> Active(e)' /\ e \notin acked'
  BY <1>1, <1>3, <1>4, <1>6 DEF EntriesOwned
<1>8. Waiters' = Waiters \cup {d} /\ d \notin Waiters
  BY <1>3 DEF Waiters
<1>9. gauge' = Cardinality(Waiters \cup {d})
  <2>1. gauge = Cardinality(Waiters) /\ IsFiniteSet(Waiters)
    BY WaitersCounted DEF EntriesOwned
  <2>2. Cardinality(Waiters \cup {d}) = Cardinality(Waiters) + 1
    BY <1>8, <2>1, FS_AddElement
  <2> QED
    BY <1>3, <2>1, <2>2
<1> QED
  BY <1>5, <1>7, <1>8, <1>9 DEF EntriesOwned

LEMMA DeliverEntries ==
  ASSUME MaxConnects = 1, PutInv, NEW d \in Deliveries, Deliver(d)
  PROVE  EntriesOwned'
<1>1. PutTypes /\ FramesWritten /\ EntriesOwned
  BY DEF PutInv
<1>2. \A e \in Deliveries : e # d => delivery'[e] = delivery[e]
  BY <1>1, DeliverMoves
<1>3. \A e \in Deliveries : e # d => (Active(e)' <=> Active(e))
  BY <1>2 DEF Active
<1>4. CASE Attempt(d)
  <2>1. delivery'[d].at = "writing" /\ delivery[d].at = "starting" /\ Register(d)
    BY <1>1, <1>4, GotoMoves, AtsAre DEF Attempt
  <2>2. ~Active(d) /\ Active(d)'
    BY <2>1 DEF Active
  <2> QED
    BY <1>1, <1>3, <2>1, <2>2, WaiterEnters
<1>5. CASE WriteFrame(d)
  <2>1. delivery'[d].at = "waiting" /\ delivery[d].at = "writing" /\ UNCHANGED tracker
    BY <1>1, <1>5, GotoMoves, AtsAre DEF WriteFrame
  <2>2. Active(d)' <=> Active(d)
    BY <2>1 DEF Active
  <2> QED
    BY <1>1, <1>3, <2>1, <2>2, WaitersStay
<1>6. ASSUME Remove(d), NEW at \in Ended \cup {"sleeping"}, Goto(d, at)
      PROVE  EntriesOwned'
  <2>1. delivery'[d].at = at
    BY <1>1, <1>6, GotoMoves, AtsAre
  <2>2. ~Active(d)'
    BY <1>6, <2>1 DEF Active, Ended
  <2>3. /\ pending' = [pending EXCEPT ![Target(d)] = NoDelivery]
        /\ gauge' = IF pending[Target(d)] = NoDelivery THEN gauge ELSE gauge - 1
        /\ acked' = acked
    BY <1>6 DEF Remove
  <2>4. \A e \in Deliveries : e # d =>
          (Active(e)' <=> Active(e)) /\ (e \in acked' <=> e \in acked)
    BY <1>3, <2>3
  <2> QED
    BY <1>1, <2>2, <2>3, <2>4, WaiterLeaves
<1>7. CASE Accepted(d) \/ (delivery[d].at = "waiting" /\ LateAck(d))
  <2>1. UNCHANGED tracker
    BY <1>7 DEF Accepted, LateAck
  <2>2. d \in acked
    <3>1. CASE Accepted(d)
      BY <3>1 DEF Accepted
    <3>2. CASE delivery[d].at = "waiting" /\ LateAck(d)
      <4>1. d # NoDelivery /\ pending[Target(d)] # d
        BY <3>2, OneDelivery DEF LateAck
      <4> QED
        BY <1>1, <3>2, <4>1 DEF EntriesOwned, Active
    <3> QED
      BY <1>7, <3>1, <3>2
  <2> QED
    BY <1>1, <1>3, <2>1, <2>2, WaitersStay
<1>8. CASE Retry(d) \/ SleepCancelled(d)
  <2>1. delivery[d].at = "sleeping" /\ UNCHANGED tracker
    BY <1>8 DEF Retry, SleepCancelled
  <2>2. delivery'[d].at \in {"starting", "failed"}
    <3>1. CASE Retry(d)
      <4>1. delivery[d].attempt < MaxAttempts
        BY <1>1, <2>1 DEF FramesWritten
      <4> QED
        BY <1>1, <3>1, <4>1, RetryMoves
    <3>2. CASE SleepCancelled(d)
      BY <1>1, <3>2, GotoMoves, AtsAre DEF SleepCancelled, End
    <3> QED
      BY <1>8, <3>1, <3>2
  <2>3. Active(d)' <=> Active(d)
    BY <2>1, <2>2 DEF Active
  <2> QED
    BY <1>1, <1>3, <2>1, <2>3, WaitersStay
<1>9. \/ Attempt(d) \/ WriteFrame(d) \/ Retry(d) \/ SleepCancelled(d)
      \/ Accepted(d) \/ (delivery[d].at = "waiting" /\ LateAck(d))
      \/ (Remove(d) /\ (Goto(d, "sleeping") \/ Goto(d, "accepted") \/ Goto(d, "failed")))
  BY DEF Deliver, WriteFails, TimerFires, Cancelled, End
<1> QED
  BY <1>4, <1>5, <1>6, <1>7, <1>8, <1>9, AtsAre

LEMMA OthersEntries ==
  ASSUME MaxConnects = 1, PutInv,
         \/ \E t \in Targets : OnPeer(t)
         \/ \E d \in Deliveries : Break(d) \/ HandlePut(d) \/ HandlePutFails(d) \/ HandleAck(d)
         \/ Collect \/ StopsWaiting \/ ContextDone
  PROVE  EntriesOwned'
<1>1. PutTypes /\ FramesWritten /\ EntriesOwned
  BY DEF PutInv
<1>2. CASE UNCHANGED <<tracker, delivery>>
  <2>1. \A e \in Deliveries : Active(e)' <=> Active(e)
    BY <1>2 DEF Active
  <2> QED
    BY <1>1, <1>2, <2>1, WaitersStay
<1>3. ASSUME NEW t \in Targets, OnPeer(t) PROVE EntriesOwned'
  <2> DEFINE d == <<t, 1>>
  <2>1. connects[t] = 0
    BY <1>1, <1>3 DEF OnPeer, PutTypes
  <2>2. d \in Deliveries /\ Target(d) = t
    BY OneDelivery
  <2>3. Goto(d, "starting")
    BY <1>3, <2>1 DEF OnPeer, Goto
  <2>4. UNCHANGED tracker
    BY <1>3 DEF OnPeer
  <2> HIDE DEF d
  <2>5. /\ delivery'[d].at = "starting"
        /\ \A e \in Deliveries : e # d => delivery'[e] = delivery[e]
    BY <1>1, <2>2, <2>3, GotoMoves, AtsAre
  <2>6. delivery[d].at = "none"
    BY <1>1, <2>1, <2>2 DEF FramesWritten
  <2>7. \A e \in Deliveries : Active(e)' <=> Active(e)
    BY <2>5, <2>6 DEF Active
  <2> QED
    BY <1>1, <2>4, <2>7, WaitersStay
<1>4. ASSUME NEW d \in Deliveries, HandleAck(d), pending[Target(d)] # NoDelivery
      PROVE  EntriesOwned'
  <2>1. pending[Target(d)] = d
    BY <1>1, <1>4, EntryOf
  <2>2. /\ pending' = [pending EXCEPT ![Target(d)] = NoDelivery]
        /\ gauge' = gauge - 1 /\ acked' = acked \cup {d} /\ delivery' = delivery
    BY <1>4, <2>1 DEF HandleAck
  <2>3. gauge' = IF pending[Target(d)] = NoDelivery THEN gauge ELSE gauge - 1
    BY <1>4, <2>2
  <2>4. \A e \in Deliveries : e # d =>
          (Active(e)' <=> Active(e)) /\ (e \in acked' <=> e \in acked)
    BY <2>2 DEF Active
  <2> QED
    BY <1>1, <2>2, <2>3, <2>4, WaiterLeaves
<1>5. ASSUME NEW d \in Deliveries, HandleAck(d), pending[Target(d)] = NoDelivery
      PROVE  UNCHANGED <<tracker, delivery>>
  BY <1>5 DEF HandleAck
<1>6. ASSUME NEW d \in Deliveries, Break(d) \/ HandlePut(d) \/ HandlePutFails(d)
      PROVE  UNCHANGED <<tracker, delivery>>
  BY <1>6 DEF Break, HandlePut, HandlePutFails
<1>7. ASSUME Collect \/ StopsWaiting \/ ContextDone
      PROVE  UNCHANGED <<tracker, delivery>>
  BY <1>7 DEF Collect, StopsWaiting, ContextDone
<1> QED
  BY <1>2, <1>3, <1>4, <1>5, <1>6, <1>7

-----------------------------------------------------------------------------
(* The results                                                             *)

LEMMA EndedCounted ==
  ASSUME MaxConnects = 1
  PROVE  /\ EndedOnes \subseteq Deliveries /\ IsFiniteSet(EndedOnes)
         /\ Cardinality(EndedOnes) \in Nat
         /\ Cardinality(EndedOnes) <= Cardinality(Targets)
         /\ Cardinality(EndedOnes) = Cardinality(Targets) => EndedOnes = Deliveries
<1>1. EndedOnes \subseteq Deliveries
  BY DEF EndedOnes
<1>2. IsFiniteSet(EndedOnes) /\ Cardinality(EndedOnes) <= Cardinality(Deliveries)
  BY <1>1, DeliveriesCounted, FS_Subset
<1>3. Cardinality(EndedOnes) = Cardinality(Deliveries) => EndedOnes = Deliveries
  BY <1>1, DeliveriesCounted, FS_Subset
<1> QED
  BY <1>1, <1>2, <1>3, DeliveriesCounted, FS_CardinalityType

(* No delivery ends and no result is received. *)
LEMMA ResultsStay ==
  ASSUME ResultsReported, results' = results, collected' = collected,
         run' = run \/ run' \in {"error", "cancelled"},
         \A e \in Deliveries : delivery'[e].at = delivery[e].at
                                 \/ (delivery[e].at \notin Ended /\ delivery'[e].at \notin Ended)
  PROVE  ResultsReported'
<1>1. EndedOnes' = EndedOnes
  BY DEF EndedOnes
<1>2. \A e \in Deliveries : delivery'[e].at = "failed" => delivery[e].at = "failed"
  BY AtsAre
<1> QED
  BY <1>1, <1>2 DEF ResultsReported

(* There is room for the result of every delivery. *)
LEMMA EndResults ==
  ASSUME MaxConnects = 1, PutTypes, ResultsReported, NEW d \in Deliveries,
         NEW at \in Ended, End(d, at), delivery[d].at \notin Ended
  PROVE  ResultsReported'
<1>1. /\ delivery'[d].at = at
      /\ \A e \in Deliveries : e # d => delivery'[e] = delivery[e]
  BY GotoMoves, AtsAre DEF End
<1>2. EndedOnes' = EndedOnes \cup {d} /\ d \notin EndedOnes
  BY <1>1 DEF EndedOnes
<1>3. Cardinality(EndedOnes \cup {d}) = Cardinality(EndedOnes) + 1
  BY <1>2, EndedCounted, FS_AddElement
<1>4. Cardinality(EndedOnes) < Cardinality(Targets)
  <2>1. EndedOnes # Deliveries
    BY <1>2
  <2> QED
    BY <2>1, EndedCounted, DeliveriesCounted
<1>5. Len(results) \in Nat /\ collected \in Nat
  BY DEF PutTypes
<1>6. Len(results) + collected <= Cardinality(EndedOnes)
  BY DEF ResultsReported
<1>7. Len(results) < Cardinality(Targets)
  BY <1>4, <1>5, <1>6, EndedCounted, DeliveriesCounted
<1>8. /\ Len(results') = Len(results) + 1
      /\ \A i \in 1 .. Len(results) : results'[i] = results[i]
      /\ results'[Len(results) + 1] = at
      /\ collected' = collected /\ run' = run
  BY <1>7, EndReports
<1>9. Len(results') + collected' <= Cardinality(EndedOnes')
  BY <1>2, <1>3, <1>5, <1>6, <1>8, EndedCounted
<1>10. ASSUME run' \in {"waiting", "ok"}, NEW e \in Deliveries, delivery'[e].at = "failed"
       PROVE  \E i \in 1 .. Len(results') : results'[i] = "failed"
  <2>1. CASE e = d
    <3>1. results'[Len(results) + 1] = "failed"
      BY <1>1, <1>8, <1>10, <2>1
    <3>2. Len(results) + 1 \in 1 .. Len(results')
      BY <1>5, <1>8
    <3> QED
      BY <3>1, <3>2
  <2>2. CASE e # d
    <3>1. PICK i \in 1 .. Len(results) : results[i] = "failed"
      BY <1>1, <1>8, <1>10, <2>2 DEF ResultsReported
    <3>2. i \in 1 .. Len(results') /\ results'[i] = "failed"
      BY <1>5, <1>8, <3>1
    <3> QED
      BY <3>2
  <2> QED
    BY <2>1, <2>2
<1> QED
  BY <1>8, <1>9, <1>10 DEF ResultsReported

LEMMA CollectResults ==
  ASSUME MaxConnects = 1, PutTypes, ResultsReported, Collect
  PROVE  ResultsReported'
<1>1. results \in Seq(Ended) /\ results # <<>> /\ collected \in Nat
  BY DEF Collect, PutTypes
<1>2. /\ Len(results) \in Nat /\ Len(results) >= 1 /\ Len(results') = Len(results) - 1
      /\ \A i \in 1 .. Len(results) - 1 : results'[i] = results[i + 1]
      /\ Head(results) = results[1]
  BY <1>1 DEF Collect
<1>3. delivery' = delivery /\ EndedOnes' = EndedOnes
  BY DEF Collect, EndedOnes
<1>4. Len(results) + collected <= Cardinality(EndedOnes) /\ run = "waiting"
  BY DEF ResultsReported, Collect
<1>5. CASE Head(results) = "accepted" /\ ~done
  <2>1. /\ collected' = collected + 1
        /\ run' = IF collected' = Cardinality(Targets) THEN "ok" ELSE "waiting"
    BY <1>5 DEF Collect
  <2>2. Len(results') + collected' <= Cardinality(EndedOnes')
    BY <1>1, <1>2, <1>3, <1>4, <2>1, EndedCounted
  <2>3. ASSUME NEW e \in Deliveries, delivery'[e].at = "failed"
        PROVE  \E i \in 1 .. Len(results') : results'[i] = "failed"
    <3>1. PICK i \in 1 .. Len(results) : results[i] = "failed"
      BY <1>3, <1>4, <2>3 DEF ResultsReported
    <3>2. i # 1
      BY <1>2, <1>5, <3>1
    <3>3. i - 1 \in 1 .. Len(results') /\ results'[i - 1] = "failed"
      BY <1>2, <3>1, <3>2
    <3> QED
      BY <3>3
  <2>4. run' = "ok" => collected' = Cardinality(Targets)
    BY <2>1
  <2> QED
    BY <2>2, <2>3, <2>4 DEF ResultsReported
<1>6. CASE ~(Head(results) = "accepted" /\ ~done)
  <2>1. run' \in {"cancelled", "error"} /\ collected' = collected
    BY <1>6 DEF Collect
  <2>2. Len(results') + collected' <= Cardinality(EndedOnes')
    BY <1>1, <1>2, <1>3, <1>4, <2>1, EndedCounted
  <2> QED
    BY <2>1, <2>2 DEF ResultsReported
<1> QED
  BY <1>5, <1>6

LEMMA DeliverResults ==
  ASSUME MaxConnects = 1, PutInv, NEW d \in Deliveries, Deliver(d)
  PROVE  ResultsReported'
<1>1. PutTypes /\ FramesWritten /\ ResultsReported
  BY DEF PutInv
<1>2. delivery[d].at \notin Ended
  BY <1>1, DeliverTurns
<1>3. CASE End(d, "accepted") \/ End(d, "failed")
  BY <1>1, <1>2, <1>3, EndResults, AtsAre
<1>4. CASE UNCHANGED main /\ (Goto(d, "writing") \/ Goto(d, "waiting") \/ Goto(d, "sleeping") \/ Retry(d))
  <2>1. results' = results /\ collected' = collected /\ run' = run
    BY <1>4 DEF main
  <2>2. \A e \in Deliveries : e # d => delivery'[e] = delivery[e]
    BY <1>1, DeliverMoves
  <2>3. delivery'[d].at \notin Ended
    <3>1. CASE Retry(d)
      <4>1. delivery[d].attempt < MaxAttempts
        BY <1>1, <3>1 DEF FramesWritten, Retry
      <4> QED
        BY <1>1, <3>1, <4>1, RetryMoves, AtsAre
    <3>2. CASE Goto(d, "writing") \/ Goto(d, "waiting") \/ Goto(d, "sleeping")
      BY <1>1, <3>2, GotoMoves, AtsAre
    <3> QED
      BY <1>4, <3>1, <3>2
  <2> QED
    BY <1>1, <1>2, <2>1, <2>2, <2>3, ResultsStay
<1> QED
  BY <1>3, <1>4 DEF Deliver, Attempt, WriteFrame, WriteFails, Accepted, TimerFires, LateAck,
                    Cancelled, Retry, SleepCancelled

LEMMA OthersResults ==
  ASSUME MaxConnects = 1, PutInv,
         \/ \E t \in Targets : OnPeer(t)
         \/ \E d \in Deliveries : Break(d) \/ HandlePut(d) \/ HandlePutFails(d) \/ HandleAck(d)
         \/ Collect \/ StopsWaiting \/ ContextDone
  PROVE  ResultsReported'
<1>1. PutTypes /\ FramesWritten /\ ResultsReported
  BY DEF PutInv
<1>2. ASSUME NEW t \in Targets, OnPeer(t) PROVE ResultsReported'
  <2> DEFINE d == <<t, 1>>
  <2>1. connects[t] = 0
    BY <1>1, <1>2 DEF OnPeer, PutTypes
  <2>2. d \in Deliveries /\ Target(d) = t
    BY OneDelivery
  <2>3. Goto(d, "starting")
    BY <1>2, <2>1 DEF OnPeer, Goto
  <2>4. results' = results /\ collected' = collected /\ run' = run
    BY <1>2 DEF OnPeer, main
  <2> HIDE DEF d
  <2>5. /\ delivery'[d].at = "starting"
        /\ \A e \in Deliveries : e # d => delivery'[e] = delivery[e]
    BY <1>1, <2>2, <2>3, GotoMoves, AtsAre
  <2>6. delivery[d].at = "none"
    BY <1>1, <2>1, <2>2 DEF FramesWritten
  <2> QED
    BY <1>1, <2>4, <2>5, <2>6, ResultsStay, AtsAre
<1>3. ASSUME NEW d \in Deliveries, Break(d) \/ HandlePut(d) \/ HandlePutFails(d) \/ HandleAck(d)
      PROVE  ResultsReported'
  <2>1. delivery' = delivery /\ results' = results /\ collected' = collected /\ run' = run
    BY <1>3 DEF Break, HandlePut, HandlePutFails, HandleAck, main
  <2> QED
    BY <1>1, <2>1, ResultsStay
<1>4. ASSUME StopsWaiting \/ ContextDone PROVE ResultsReported'
  <2>1. /\ delivery' = delivery /\ results' = results /\ collected' = collected
        /\ run' = run \/ run' \in {"error", "cancelled"}
    BY <1>4 DEF StopsWaiting, ContextDone
  <2> QED
    BY <1>1, <2>1, ResultsStay
<1> QED
  BY <1>1, <1>2, <1>3, <1>4, CollectResults

-----------------------------------------------------------------------------
(* The invariant                                                           *)

LEMMA OthersFrames ==
  ASSUME MaxConnects = 1, PutInv, PutTypes',
         \/ \E t \in Targets : OnPeer(t)
         \/ \E d \in Deliveries : Break(d) \/ HandlePut(d) \/ HandlePutFails(d) \/ HandleAck(d)
         \/ Collect \/ StopsWaiting \/ ContextDone
  PROVE  FramesWritten' /\ AckedStored'
<1>1. PutTypes /\ FramesWritten /\ AckedStored /\ EntriesOwned
  BY DEF PutInv
<1>2. CASE UNCHANGED <<wire, delivery, tracker>>
  BY <1>1, <1>2 DEF FramesWritten, AckedStored, wire, tracker
<1>3. ASSUME Collect \/ StopsWaiting \/ ContextDone
      PROVE  UNCHANGED <<wire, delivery, tracker>>
  BY <1>3 DEF Collect, StopsWaiting, ContextDone
<1> QED
  BY <1>1, <1>2, <1>3, OnPeerFrames, PeerFrames, PeerStored

LEMMA PutStep == MaxConnects = 1 /\ PutInv /\ [PutNext]_vars => PutInv'
<1> SUFFICES ASSUME MaxConnects = 1, PutInv, [PutNext]_vars PROVE PutInv'
  OBVIOUS
<1>1. PutTypes /\ FramesWritten
  BY DEF PutInv
<1>2. ASSUME NEW d \in Deliveries, Deliver(d) PROVE PutInv'
  <2>1. PutTypes'
    BY <1>1, <1>2, DeliverTypes
  <2>2. FramesWritten'
    BY <1>1, <1>2, <2>1, DeliverFrames
  <2>3. AckedStored' /\ EntriesOwned' /\ ResultsReported'
    BY <1>2, DeliverStored, DeliverEntries, DeliverResults
  <2> QED
    BY <2>1, <2>2, <2>3 DEF PutInv
<1>3. ASSUME \/ \E t \in Targets : OnPeer(t)
             \/ \E d \in Deliveries : Break(d) \/ HandlePut(d) \/ HandlePutFails(d) \/ HandleAck(d)
             \/ Collect \/ StopsWaiting \/ ContextDone
      PROVE  PutInv'
  <2>1. PutTypes'
    BY <1>1, <1>3, OthersTypes
  <2>2. FramesWritten' /\ AckedStored'
    BY <1>3, <2>1, OthersFrames
  <2>3. EntriesOwned' /\ ResultsReported'
    BY <1>3, OthersEntries, OthersResults
  <2> QED
    BY <2>1, <2>2, <2>3 DEF PutInv
<1>4. CASE UNCHANGED vars
  BY <1>4 DEF vars, wire, tracker, main, PutInv, PutTypes, FramesWritten, AckedStored,
              EntriesOwned, Waiters, Active, ResultsReported, EndedOnes
<1> QED
  BY <1>2, <1>3, <1>4 DEF PutNext

LEMMA PutBegins == MaxConnects = 1 /\ PutInit => PutInv
<1> SUFFICES ASSUME MaxConnects = 1, PutInit PROVE PutInv
  OBVIOUS
<1> DEFINE r == [at |-> "none", attempt |-> 1]
<1>1. r.at = "none" /\ r \in Delivery
  BY PutAssumption DEF Delivery, Ats
<1>2. delivery = [d \in Deliveries |-> r]
  BY DEF PutInit
<1> HIDE DEF r
<1>3. \A d \in Deliveries : delivery[d].at = "none"
  BY <1>1, <1>2
<1>4. PutTypes
  <2>1. delivery \in [Deliveries -> Delivery]
    BY <1>1, <1>2
  <2>2. results \in Seq(Ended)
    BY DEF PutInit
  <2>3. fails \in 0 .. MaxFails
    BY PutAssumption DEF PutInit
  <2>4. /\ connects \in [Targets -> {0, 1}]
        /\ link \in [Deliveries -> {"none", "open", "broken"}]
        /\ puts \in [Deliveries -> Nat] /\ acks \in [Deliveries -> Nat]
    BY DEF PutInit
  <2>5. /\ holds \in [Targets -> BOOLEAN] /\ done \in BOOLEAN
        /\ pending \in [Targets -> Deliveries \cup {NoDelivery}]
    BY DEF PutInit
  <2>6. /\ serving \subseteq Deliveries /\ acked \subseteq Deliveries
        /\ gauge \in Int /\ collected \in Nat
        /\ run \in {"waiting", "ok", "error", "cancelled"}
    BY DEF PutInit
  <2> QED
    BY <2>1, <2>2, <2>3, <2>4, <2>5, <2>6 DEF PutTypes
<1>5. FramesWritten
  BY <1>3 DEF PutInit, FramesWritten, Written
<1>6. AckedStored
  BY <1>3 DEF PutInit, AckedStored
<1>7. EntriesOwned
  <2>1. Waiters = {}
    BY <1>3 DEF Waiters, Active
  <2>2. \A d \in Deliveries : pending[Target(d)] # d /\ ~Active(d)
    BY <1>3, OneDelivery DEF PutInit, Active
  <2> QED
    BY <2>1, <2>2, FS_EmptySet DEF PutInit, EntriesOwned
<1>8. ResultsReported
  <2>1. EndedOnes = {}
    BY <1>3, AtsAre DEF EndedOnes
  <2>2. Cardinality(EndedOnes) = 0
    BY <2>1, FS_EmptySet
  <2>3. Len(results) = 0 /\ collected = 0 /\ run = "waiting"
    BY DEF PutInit
  <2>4. \A d \in Deliveries : delivery[d].at # "failed"
    BY <1>3
  <2> QED
    BY <2>2, <2>3, <2>4 DEF ResultsReported
<1> QED
  BY <1>4, <1>5, <1>6, <1>7, <1>8 DEF PutInv

(* Frames are those written, acknowledged blobs are held, entries are      *)
(* those of the waiting deliveries and no result is lost.                  *)
THEOREM PutInvariant ==
  ASSUME MaxConnects = 1
  PROVE  PutSpec => []PutInv
<1>1. PutInit => PutInv
  BY PutBegins
<1>2. PutInv /\ [PutNext]_vars => PutInv'
  BY PutStep
<1> QED
  BY <1>1, <1>2, PTL DEF PutSpec

(* sendBlobWithAck accepts only what the peer has stored, whatever the     *)
(* order of the timer, the cancellation and late acknowledgements.         *)
THEOREM AcceptedIsStored ==
  ASSUME MaxConnects = 1
  PROVE  PutSpec => []AcceptedStored
<1>1. PutInv => AcceptedStored
  BY DEF PutInv, AckedStored, AcceptedStored
<1> QED
  BY <1>1, PutInvariant, PTL

LEMMA PutTypesHold == MaxConnects = 1 /\ PutInv => PutTypeOK
<1> SUFFICES ASSUME MaxConnects = 1, PutInv PROVE PutTypeOK
  OBVIOUS
<1>1. PutTypes /\ FramesWritten /\ ResultsReported
  BY DEF PutInv
<1>2. connects \in [Targets -> 0 .. MaxConnects]
  <2>1. 0 .. MaxConnects = {0, 1}
    OBVIOUS
  <2> QED
    BY <1>1, <2>1 DEF PutTypes
<1>3. ASSUME NEW d \in Deliveries
      PROVE  puts[d] \in 0 .. MaxAttempts /\ acks[d] \in 0 .. MaxAttempts
  <2>1. delivery[d].attempt \in 1 .. MaxAttempts
    BY <1>1 DEF PutTypes, Delivery
  <2>2. Written(delivery[d]) \in Int /\ Written(delivery[d]) <= MaxAttempts
    BY <2>1, PutAssumption DEF Written
  <2>3. puts[d] + acks[d] <= Written(delivery[d])
    BY <1>1 DEF FramesWritten
  <2>4. puts[d] \in Nat /\ acks[d] \in Nat
    BY <1>1 DEF PutTypes
  <2> QED
    BY <2>2, <2>3, <2>4, PutAssumption
<1>4. Len(results) <= Cardinality(Targets) /\ collected \in 0 .. Cardinality(Targets)
  <2>1. Len(results) \in Nat /\ collected \in Nat
    BY <1>1 DEF PutTypes
  <2>2. Len(results) + collected <= Cardinality(EndedOnes)
    BY <1>1 DEF ResultsReported
  <2> QED
    BY <2>1, <2>2, EndedCounted, DeliveriesCounted
<1> QED
  BY <1>1, <1>2, <1>3, <1>4 DEF PutTypeOK, PutTypes, Delivery, Ats

(* The gauge and the tracker name exactly the deliveries that wait, and no *)
(* channel or counter exceeds its bound.                                   *)
THEOREM PendingAreTheWaiters ==
  ASSUME MaxConnects = 1
  PROVE  PutSpec => []PendingAreWaiters
<1>1. PutInv => PendingAreWaiters
  BY PutTypesHold DEF PutInv, EntriesOwned, Waiters, PendingAreWaiters
<1> QED
  BY <1>1, PutInvariant, PTL

(* run returns success only when every delivery was accepted: all results  *)
(* are of ended deliveries, and a failed one would still be in the channel.*)
LEMMA ExitCovers == MaxConnects = 1 /\ PutInv => ExitCoversTargets
<1> SUFFICES ASSUME MaxConnects = 1, PutInv, run = "ok", NEW t \in Targets
             PROVE  holds[t] /\ \E d \in Deliveries : Target(d) = t /\ delivery[d].at = "accepted"
  BY DEF ExitCoversTargets
<1>1. PutTypes /\ AckedStored /\ ResultsReported
  BY DEF PutInv
<1>2. Len(results) \in Nat /\ collected = Cardinality(Targets)
  BY <1>1 DEF PutTypes, ResultsReported
<1>3. Len(results) + collected <= Cardinality(EndedOnes)
  BY <1>1 DEF ResultsReported
<1>4. Len(results) = 0 /\ EndedOnes = Deliveries
  BY <1>2, <1>3, EndedCounted, DeliveriesCounted
<1>5. <<t, 1>> \in Deliveries /\ Target(<<t, 1>>) = t
  BY OneDelivery
<1>6. delivery[<<t, 1>>].at \in Ended
  BY <1>4, <1>5 DEF EndedOnes
<1>7. delivery[<<t, 1>>].at # "failed"
  BY <1>1, <1>4, <1>5 DEF ResultsReported
<1>8. delivery[<<t, 1>>].at = "accepted"
  BY <1>6, <1>7 DEF Ended
<1> QED
  BY <1>1, <1>5, <1>8 DEF AckedStored

(* A successful -exit-after-put means that every target has stored the     *)
(* blob and acknowledged it.                                               *)
THEOREM ExitCoversAllTargets ==
  ASSUME MaxConnects = 1
  PROVE  PutSpec => []ExitCoversTargets
<1>1. PutInv => ExitCoversTargets
  BY ExitCovers
<1> QED
  BY <1>1, PutInvariant, PTL
=============================================================================
