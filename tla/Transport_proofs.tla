-------------------------- MODULE Transport_proofs --------------------------
(***************************************************************************)
(* Proofs about Transport and the Reconnector on top of it, for any number *)
(* of connections, addresses, peers and configured targets.                *)
(***************************************************************************)
EXTENDS Reconnector, FiniteSetTheorems, TLAPS

(* What the two goroutines of a connection may be doing together, and what *)
(* that says of its address and of TCPTransport.connections.               *)
Shape(c) ==
  /\ link[c].adm \in {"dialing", "handshake"} => link[c].srv = "none"
  /\ link[c].adm = "onpeer" <=> link[c].srv = "starting"
  /\ link[c].adm = "none" /\ link[c].srv = "none" => Free(c)
  /\ link[c].adm # "none" \/ link[c].srv # "none" => link[c].key \in Keys
  /\ c \in tracked <=> link[c].adm = "handshake" \/ Registered(c)

LinkShape == \A c \in Conns : Shape(c)

LEMMA FinishType ==
  ASSUME work \in Nat, Finish
  PROVE  work' \in Nat
BY DEF Finish

LEMMA PcsType ==
  ASSUME NEW l \in Link, NEW a \in {"onpeer", "returning"}, NEW b \in {"starting", "reading"}
  PROVE  [l EXCEPT !.adm = a, !.srv = b] \in Link
BY DEF Link

LEMMA LinkUpdate ==
  ASSUME link \in [Conns -> Link], NEW c \in Conns, NEW r \in Link,
         link' = [link EXCEPT ![c] = r]
  PROVE  link' \in [Conns -> Link]
OBVIOUS

(* An action that closes sockets leaves every link a link. *)
LEMMA ShutType ==
  ASSUME link \in [Conns -> Link], NEW S, Shut(S)
  PROVE  link' \in [Conns -> Link]
<1> SUFFICES ASSUME NEW c \in Conns
             PROVE  [link[c] EXCEPT !.shut = @ \/ c \in S] \in Link
  BY DEF Shut
<1>1. link[c] \in Link
  OBVIOUS
<1>2. (link[c].shut \/ c \in S) \in BOOLEAN
  OBVIOUS
<1> QED
  BY <1>1, <1>2 DEF Link

LEMMA TypeStep ==
  ASSUME TransportTypeOK, TransportNext
  PROVE  TransportTypeOK'
<1> USE TransportAssumption DEF TransportTypeOK
<1>1. CASE AcceptExits
  <2>1. acceptor' \in BOOLEAN
    BY <1>1, Zenon DEF AcceptExits
  <2>2. work' \in Nat
    BY <1>1, FinishType DEF AcceptExits
  <2> QED
    BY <1>1, <2>1, <2>2 DEF AcceptExits
<1>2. CASE Stopping
  <2>1. link' \in [Conns -> Link]
    BY <1>2, ShutType DEF Stopping, BeginDrain, DrainDone, DrainExpires, DrainJoined,
                          BeginClose, CloseDone
  <2> QED
    BY <1>2, <2>1 DEF Stopping, BeginDrain, DrainDone, DrainExpires, DrainJoined,
                      BeginClose, CloseDone
<1>3. ASSUME NEW c \in Conns, NEW k \in Keys, Accept(c, k) \/ DialStarts(c, k)
      PROVE  TransportTypeOK'
  <2>1. CASE Accept(c, k)
    BY <2>1 DEF Accept, Link
  <2>2. CASE DialStarts(c, k)
    BY <2>2 DEF DialStarts, Link
  <2> QED
    BY <1>3, <2>1, <2>2
<1> USE DEF Link, FreeLink
<1>4. ASSUME NEW c \in Conns, Admission(c)
      PROVE  TransportTypeOK'
  <2>1. CASE DialConnects(c)
    BY <2>1 DEF DialConnects
  <2>2. CASE DialFails(c)
    BY <2>2 DEF DialFails, Finish
  <2>3. CASE HandshakeFails(c) \/ HandlePeerClosed(c) \/ HandlePeerRefuses(c)
    <3>1. Dropped(c)
      BY <2>3 DEF HandshakeFails, HandlePeerClosed, HandlePeerRefuses
    <3>2. work' \in Nat
      BY <3>1, FinishType DEF Dropped
    <3> QED
      BY <3>1, <3>2 DEF Dropped
  <2>4. CASE HandlePeer(c)
    <3>1. Register(c)
      BY <2>4 DEF HandlePeer
    <3>2. link' \in [Conns -> Link]
      <4>1. link' = [link EXCEPT ![c].adm = "onpeer", ![c].srv = "starting"]
        BY <3>1 DEF Register
      <4>2. [link[c] EXCEPT !.adm = "onpeer", !.srv = "starting"] \in Link
        BY PcsType
      <4>3. link' = [link EXCEPT ![c] = [link[c] EXCEPT !.adm = "onpeer", !.srv = "starting"]]
        BY <4>1
      <4> QED
        BY <4>2, <4>3, LinkUpdate
    <3>3. peers' \in [Keys -> Conns \cup {NoConn}]
      BY <3>1 DEF Register
    <3> QED
      BY <3>1, <3>2, <3>3 DEF Register
  <2>5. CASE OnPeer(c)
    <3>1. [link[c] EXCEPT !.adm = "returning", !.srv = "reading"] \in Link
      BY PcsType
    <3>2. link' = [link EXCEPT ![c] = [link[c] EXCEPT !.adm = "returning", !.srv = "reading"]]
      BY <2>5 DEF OnPeer
    <3> QED
      BY <2>5, <3>1, <3>2, LinkUpdate DEF OnPeer
  <2>6. CASE AdmissionReturns(c)
    BY <2>6 DEF AdmissionReturns, Finish
  <2> QED
    BY <1>4, <2>1, <2>2, <2>3, <2>4, <2>5, <2>6 DEF Admission
<1>5. ASSUME NEW c \in Conns, Serving(c) \/ ServeReturns(c)
      PROVE  TransportTypeOK'
  <2>1. CASE ReadFrame(c) \/ HandlerReturns(c) \/ HandlerFails(c) \/ ReadFails(c)
    BY <2>1 DEF ReadFrame, HandlerReturns, HandlerFails, ReadFails, Serve
  <2>2. CASE Unregister(c)
    BY <2>2 DEF Unregister
  <2>3. CASE ServeReturns(c)
    BY <2>3 DEF ServeReturns, Finish
  <2> QED
    BY <1>5, <2>1, <2>2, <2>3 DEF Serving
<1> QED
  BY <1>1, <1>2, <1>3, <1>4, <1>5 DEF TransportNext

-----------------------------------------------------------------------------
(* A step of one connection leaves the shape of the others alone. *)
LEMMA ShapeElsewhere ==
  ASSUME LinkShape, NEW c \in Conns, Shape(c)',
         \A d \in Conns \ {c} : link'[d] = link[d] /\ (d \in tracked' <=> d \in tracked)
  PROVE  LinkShape'
BY DEF LinkShape, Shape, Free, Registered

LEMMA FreeShape ==
  ASSUME NEW c \in Conns, link'[c] = FreeLink, c \notin tracked'
  PROVE  Shape(c)'
<1>1. Free(c)'
  BY DEF Free
<1>2. link'[c].adm = "none" /\ link'[c].srv = "none"
  BY DEF FreeLink
<1> QED
  BY <1>1, <1>2 DEF Shape, Registered

LEMMA ShapeStep ==
  ASSUME TransportTypeOK, LinkShape, TransportNext
  PROVE  LinkShape'
<1> USE TransportAssumption DEF TransportTypeOK
<1>1. CASE AcceptExits
  BY <1>1 DEF AcceptExits, LinkShape, Shape, Free, Registered
<1>2. CASE Stopping
  <2> SUFFICES ASSUME NEW c \in Conns PROVE Shape(c)'
    BY DEF LinkShape
  <2>1. Shape(c) /\ tracked' = tracked
    BY <1>2 DEF LinkShape, Stopping, BeginDrain, DrainDone, DrainExpires, DrainJoined,
                BeginClose, CloseDone
  <2>2. CASE link' = link
    BY <2>1, <2>2 DEF Shape, Free, Registered
  <2>3. ASSUME NEW S \in SUBSET tracked, Shut(S)
        PROVE  Shape(c)'
    <3>1. link'[c] = [link[c] EXCEPT !.shut = @ \/ c \in S] /\ link[c] \in Link
      BY <2>3 DEF Shut
    <3>2. /\ link'[c].adm = link[c].adm /\ link'[c].srv = link[c].srv
          /\ link'[c].key = link[c].key
      BY <3>1 DEF Link
    <3>3. CASE c \in S
      <4>1. ~Free(c)
        BY <2>1, <2>3, <3>3 DEF Shape, Free, FreeLink, Registered
      <4> QED
        BY <2>1, <3>2, <4>1 DEF Shape, Free, Registered
    <3>4. CASE c \notin S
      <4>1. link'[c] = link[c]
        BY <3>1, <3>4 DEF Link
      <4> QED
        BY <2>1, <4>1 DEF Shape, Free, Registered
    <3> QED
      BY <3>3, <3>4
  <2> QED
    BY <1>2, <2>2, <2>3 DEF Stopping, BeginDrain, DrainDone, DrainExpires, DrainJoined,
                            BeginClose, CloseDone
<1>3. ASSUME NEW c \in Conns, NEW k \in Keys, Accept(c, k) \/ DialStarts(c, k)
      PROVE  LinkShape'
  <2>1. \A d \in Conns \ {c} : link'[d] = link[d] /\ (d \in tracked' <=> d \in tracked)
    BY <1>3 DEF Accept, DialStarts
  <2>2. Shape(c) /\ Free(c)
    BY <1>3 DEF LinkShape, Accept, DialStarts
  <2>3. CASE Accept(c, k)
    <3>1. /\ link'[c] = [adm |-> "handshake", srv |-> "none", key |-> k,
                         out |-> FALSE, shut |-> FALSE]
          /\ c \in tracked'
      BY <2>3 DEF Accept
    <3> QED
      BY <2>1, <3>1, ShapeElsewhere DEF Shape, Registered
  <2>4. CASE DialStarts(c, k)
    <3>1. /\ link'[c] = [adm |-> "dialing", srv |-> "none", key |-> k,
                         out |-> TRUE, shut |-> FALSE]
          /\ c \notin tracked'
      BY <2>2, <2>4 DEF DialStarts, Shape, Free, FreeLink, Registered
    <3> QED
      BY <2>1, <3>1, ShapeElsewhere DEF Shape, Registered
  <2> QED
    BY <1>3, <2>3, <2>4
<1>4. ASSUME NEW c \in Conns,
             Admission(c) \/ Serving(c) \/ ServeReturns(c)
      PROVE  LinkShape'
  <2>1. \A d \in Conns \ {c} : link'[d] = link[d] /\ (d \in tracked' <=> d \in tracked)
    BY <1>4 DEF Admission, DialConnects, DialFails, HandshakeFails, HandlePeer,
         HandlePeerClosed, HandlePeerRefuses, Dropped, Register, OnPeer, AdmissionReturns,
         Serving, ReadFrame, HandlerReturns, HandlerFails, ReadFails, Serve, Unregister,
         ServeReturns
  <2>2. Shape(c) /\ link[c] \in Link
    BY DEF LinkShape
  <2>3. CASE DialConnects(c)
    <3>1. /\ link'[c] = [link[c] EXCEPT !.adm = "handshake"] /\ c \in tracked'
          /\ link[c].adm = "dialing"
      BY <2>3 DEF DialConnects
    <3> QED
      BY <2>1, <2>2, <3>1, ShapeElsewhere DEF Shape, Registered, Link
  <2>4. CASE DialFails(c)
    <3>1. link'[c] = FreeLink /\ c \notin tracked'
      BY <2>2, <2>4 DEF DialFails, Shape, Registered
    <3> QED
      BY <2>1, <3>1, FreeShape, ShapeElsewhere
  <2>5. CASE HandshakeFails(c) \/ HandlePeerClosed(c) \/ HandlePeerRefuses(c)
    <3>1. link'[c] = FreeLink /\ c \notin tracked'
      BY <2>5 DEF HandshakeFails, HandlePeerClosed, HandlePeerRefuses, Dropped
    <3> QED
      BY <2>1, <3>1, FreeShape, ShapeElsewhere
  <2>6. CASE HandlePeer(c)
    <3>1. /\ link'[c] = [link[c] EXCEPT !.adm = "onpeer", !.srv = "starting"]
          /\ tracked' = tracked /\ link[c].adm = "handshake"
      BY <2>6 DEF HandlePeer, Register
    <3> QED
      BY <2>1, <2>2, <3>1, ShapeElsewhere DEF Shape, Registered, Link
  <2>7. CASE OnPeer(c)
    <3>1. /\ link'[c] = [link[c] EXCEPT !.adm = "returning", !.srv = "reading"]
          /\ tracked' = tracked /\ link[c].adm = "onpeer"
      BY <2>7 DEF OnPeer
    <3> QED
      BY <2>1, <2>2, <3>1, ShapeElsewhere DEF Shape, Registered, Link
  <2>8. CASE AdmissionReturns(c)
    <3>1. /\ link'[c] = IF link[c].srv = "none" THEN FreeLink ELSE [link[c] EXCEPT !.adm = "none"]
          /\ tracked' = tracked /\ link[c].adm = "returning"
      BY <2>8 DEF AdmissionReturns
    <3>2. CASE link[c].srv = "none"
      <4>1. link'[c] = FreeLink /\ c \notin tracked'
        BY <2>2, <3>1, <3>2 DEF Shape, Registered
      <4> QED
        BY <2>1, <4>1, FreeShape, ShapeElsewhere
    <3>3. CASE link[c].srv # "none"
      BY <2>1, <2>2, <3>1, <3>3, ShapeElsewhere DEF Shape, Registered, Link
    <3> QED
      BY <3>2, <3>3
  <2>9. CASE ReadFrame(c) \/ HandlerReturns(c) \/ HandlerFails(c) \/ ReadFails(c)
    <3>1. PICK to \in {"reading", "handling", "leaving"} :
            /\ link'[c] = [link[c] EXCEPT !.srv = to] /\ tracked' = tracked
            /\ link[c].srv \in {"reading", "handling"}
      BY <2>9 DEF ReadFrame, HandlerReturns, HandlerFails, ReadFails, Serve
    <3> QED
      BY <2>1, <2>2, <3>1, ShapeElsewhere DEF Shape, Registered, Link
  <2>10. CASE Unregister(c)
    <3>1. /\ link'[c] = [link[c] EXCEPT !.srv = "left"] /\ c \notin tracked'
          /\ link[c].srv = "leaving"
      BY <2>10 DEF Unregister
    <3> QED
      BY <2>1, <2>2, <3>1, ShapeElsewhere DEF Shape, Registered, Link
  <2>11. CASE ServeReturns(c)
    <3>1. /\ link'[c] = IF link[c].adm = "none" THEN FreeLink ELSE [link[c] EXCEPT !.srv = "none"]
          /\ tracked' = tracked /\ link[c].srv = "left"
      BY <2>11 DEF ServeReturns
    <3>2. CASE link[c].adm = "none"
      <4>1. link'[c] = FreeLink /\ c \notin tracked'
        BY <2>2, <3>1, <3>2 DEF Shape, Registered
      <4> QED
        BY <2>1, <4>1, FreeShape, ShapeElsewhere
    <3>3. CASE link[c].adm # "none"
      BY <2>1, <2>2, <3>1, <3>3, ShapeElsewhere DEF Shape, Registered, Link
    <3> QED
      BY <3>2, <3>3
  <2> QED
    BY <1>4, <2>3, <2>4, <2>5, <2>6, <2>7, <2>8, <2>9, <2>10, <2>11 DEF Admission, Serving
<1> QED
  BY <1>1, <1>2, <1>3, <1>4 DEF TransportNext

-----------------------------------------------------------------------------
LEMMA OwnedStep ==
  ASSUME TransportTypeOK, LinkShape, PeersOwned, TransportNext
  PROVE  PeersOwned'
<1>0. TransportTypeOK' /\ LinkShape'
  BY TypeStep, ShapeStep
<1> USE TransportAssumption DEF TransportTypeOK, LinkShape, Shape, PeersOwned, PeerSet, Registered, Free
<1>1. CASE AcceptExits
  BY <1>1 DEF AcceptExits
<1>2. CASE Stopping
  BY <1>0, <1>2 DEF Stopping, BeginDrain, DrainDone, DrainExpires, DrainJoined,
                    BeginClose, CloseDone, Shut, Link
<1> USE DEF Link, FreeLink
<1>3. ASSUME NEW c \in Conns, NEW k \in Keys, Accept(c, k)
      PROVE  PeersOwned'
  BY <1>3 DEF Accept
<1>4. ASSUME NEW c \in Conns, NEW k \in Keys, DialStarts(c, k)
      PROVE  PeersOwned'
  BY <1>4 DEF DialStarts
<1>5. ASSUME NEW c \in Conns, Admission(c)
      PROVE  PeersOwned'
  <2>1. CASE DialConnects(c)
    BY <2>1 DEF DialConnects
  <2>2. CASE DialFails(c)
    BY <2>2 DEF DialFails
  <2>3. CASE HandshakeFails(c) \/ HandlePeerClosed(c) \/ HandlePeerRefuses(c)
    BY <2>3 DEF HandshakeFails, HandlePeerClosed, HandlePeerRefuses, Dropped
  <2>4. CASE HandlePeer(c)
    BY <2>4 DEF HandlePeer, Register, Duplicate
  <2>5. CASE OnPeer(c)
    BY <2>5 DEF OnPeer
  <2>6. CASE AdmissionReturns(c)
    BY <2>6 DEF AdmissionReturns
  <2> QED
    BY <1>5, <2>1, <2>2, <2>3, <2>4, <2>5, <2>6 DEF Admission
<1>6. ASSUME NEW c \in Conns, Serving(c) \/ ServeReturns(c)
      PROVE  PeersOwned'
  <2>1. CASE ReadFrame(c) \/ HandlerReturns(c) \/ HandlerFails(c) \/ ReadFails(c)
    BY <2>1 DEF ReadFrame, HandlerReturns, HandlerFails, ReadFails, Serve
  <2>2. CASE Unregister(c)
    BY <2>2 DEF Unregister
  <2>3. CASE ServeReturns(c)
    BY <2>3 DEF ServeReturns
  <2> QED
    BY <1>6, <2>1, <2>2, <2>3 DEF Serving
<1> QED
  BY <1>1, <1>2, <1>3, <1>4, <1>5, <1>6 DEF TransportNext

-----------------------------------------------------------------------------
(* Counting goroutines. *)

Admitting == {c \in Conns : link[c].adm # "none"}

Served == {c \in Conns : link[c].srv # "none"}

LEMMA CountsFinite ==
  /\ IsFiniteSet(Admitting) /\ Cardinality(Admitting) \in Nat
  /\ IsFiniteSet(Served) /\ Cardinality(Served) \in Nat
BY TransportAssumption, FS_Subset, FS_CardinalityType DEF Admitting, Served

LEMMA Grown ==
  ASSUME NEW S, IsFiniteSet(S), NEW x, x \notin S
  PROVE  Cardinality(S \cup {x}) = Cardinality(S) + 1
BY FS_AddElement

LEMMA Shrunk ==
  ASSUME NEW S, IsFiniteSet(S), NEW x \in S
  PROVE  Cardinality(S \ {x}) = Cardinality(S) - 1 /\ Cardinality(S) >= 1
<1>1. Cardinality(S \ {x}) = Cardinality(S) - 1
  BY FS_RemoveElement
<1>2. Cardinality(S \ {x}) \in Nat /\ Cardinality(S) \in Nat
  BY FS_RemoveElement, FS_CardinalityType
<1> QED
  BY <1>1, <1>2

(* What a step does to the two sets decides what it does to the count. *)
LEMMA CountSame ==
  ASSUME WorkCounted, Admitting' = Admitting, Served' = Served,
         acceptor' = acceptor, work' = work
  PROVE  WorkCounted'
BY DEF WorkCounted, Running, Admitting, Served

LEMMA CountUp ==
  ASSUME WorkCounted, NEW c, acceptor' = acceptor, work' = work + 1,
         \/ Admitting' = Admitting \cup {c} /\ c \notin Admitting /\ Served' = Served
         \/ Served' = Served \cup {c} /\ c \notin Served /\ Admitting' = Admitting
  PROVE  WorkCounted'
<1>1. \/ Cardinality(Admitting') = Cardinality(Admitting) + 1 /\ Cardinality(Served') = Cardinality(Served)
      \/ Cardinality(Served') = Cardinality(Served) + 1 /\ Cardinality(Admitting') = Cardinality(Admitting)
  BY Grown, CountsFinite
<1> QED
  BY <1>1, CountsFinite DEF WorkCounted, Running, Admitting, Served

LEMMA CountDown ==
  ASSUME WorkCounted, NEW c, acceptor' = acceptor, Finish,
         \/ Admitting' = Admitting \ {c} /\ c \in Admitting /\ Served' = Served
         \/ Served' = Served \ {c} /\ c \in Served /\ Admitting' = Admitting
  PROVE  WorkCounted'
<1>1. \/ /\ Cardinality(Admitting') = Cardinality(Admitting) - 1
         /\ Cardinality(Admitting) >= 1
         /\ Cardinality(Served') = Cardinality(Served)
      \/ /\ Cardinality(Served') = Cardinality(Served) - 1
         /\ Cardinality(Served) >= 1
         /\ Cardinality(Admitting') = Cardinality(Admitting)
  BY Shrunk, CountsFinite
<1> QED
  BY <1>1, CountsFinite DEF WorkCounted, Running, Admitting, Served, Finish

LEMMA WorkStep ==
  ASSUME TransportTypeOK, LinkShape, WorkCounted, TransportNext
  PROVE  WorkCounted'
<1> USE TransportAssumption DEF TransportTypeOK, LinkShape, Shape, Registered, Free
<1>1. CASE AcceptExits
  <2>1. Admitting' = Admitting /\ Served' = Served
    BY <1>1 DEF AcceptExits, Admitting, Served
  <2>2. work = Cardinality(Admitting) + Cardinality(Served) + 1
    BY <1>1 DEF WorkCounted, Running, Admitting, Served, AcceptExits
  <2>3. work' = Cardinality(Admitting) + Cardinality(Served)
    BY <1>1, <2>2, CountsFinite DEF AcceptExits, Finish
  <2>4. ~acceptor'
    BY <1>1 DEF AcceptExits
  <2>5. Running' = Cardinality(Admitting') + Cardinality(Served') + 0
    BY <2>4 DEF Running, Admitting, Served
  <2> QED
    BY <2>1, <2>3, <2>5, CountsFinite DEF WorkCounted
<1>2. CASE Stopping
  <2>1. Admitting' = Admitting /\ Served' = Served
    BY <1>2 DEF Stopping, BeginDrain, DrainDone, DrainExpires, DrainJoined,
                BeginClose, CloseDone, Shut, Link, Admitting, Served
  <2> QED
    BY <1>2, <2>1, CountSame DEF Stopping, BeginDrain, DrainDone, DrainExpires, DrainJoined,
                                 BeginClose, CloseDone
<1> USE DEF Link, FreeLink
<1>3. ASSUME NEW c \in Conns, NEW k \in Keys, Accept(c, k) \/ DialStarts(c, k)
      PROVE  WorkCounted'
  <2>1. Admitting' = Admitting \cup {c} /\ c \notin Admitting /\ Served' = Served
    BY <1>3 DEF Accept, DialStarts, Admitting, Served
  <2> QED
    BY <1>3, <2>1, CountUp DEF Accept, DialStarts
<1>4. ASSUME NEW c \in Conns, Admission(c)
      PROVE  WorkCounted'
  <2>1. CASE DialConnects(c) \/ OnPeer(c)
    <3>1. Admitting' = Admitting /\ Served' = Served
      BY <2>1 DEF DialConnects, OnPeer, Admitting, Served
    <3> QED
      BY <2>1, <3>1, CountSame DEF DialConnects, OnPeer
  <2>2. CASE DialFails(c)
    <3>1. Admitting' = Admitting \ {c} /\ c \in Admitting /\ Served' = Served
      BY <2>2 DEF DialFails, Admitting, Served
    <3> QED
      BY <2>2, <3>1, CountDown DEF DialFails
  <2>3. CASE HandshakeFails(c) \/ HandlePeerClosed(c) \/ HandlePeerRefuses(c)
    <3>1. link[c].adm = "handshake" /\ Dropped(c)
      BY <2>3 DEF HandshakeFails, HandlePeerClosed, HandlePeerRefuses
    <3>2. Admitting' = Admitting \ {c} /\ c \in Admitting /\ Served' = Served
      BY <3>1 DEF Dropped, Admitting, Served
    <3> QED
      BY <3>1, <3>2, CountDown DEF Dropped
  <2>4. CASE HandlePeer(c)
    <3>1. Served' = Served \cup {c} /\ c \notin Served /\ Admitting' = Admitting
      BY <2>4 DEF HandlePeer, Register, Admitting, Served
    <3> QED
      BY <2>4, <3>1, CountUp DEF HandlePeer, Register
  <2>5. CASE AdmissionReturns(c)
    <3>1. Admitting' = Admitting \ {c} /\ c \in Admitting /\ Served' = Served
      BY <2>5 DEF AdmissionReturns, Admitting, Served
    <3> QED
      BY <2>5, <3>1, CountDown DEF AdmissionReturns
  <2> QED
    BY <1>4, <2>1, <2>2, <2>3, <2>4, <2>5 DEF Admission
<1>5. ASSUME NEW c \in Conns, Serving(c) \/ ServeReturns(c)
      PROVE  WorkCounted'
  <2>1. CASE ReadFrame(c) \/ HandlerReturns(c) \/ HandlerFails(c) \/ ReadFails(c)
    <3>1. PICK from \in {"reading", "handling"}, to \in {"reading", "handling", "leaving"} :
            Serve(c, from, to)
      BY <2>1 DEF ReadFrame, HandlerReturns, HandlerFails, ReadFails
    <3>2. Admitting' = Admitting /\ Served' = Served
      BY <3>1 DEF Serve, Admitting, Served
    <3> QED
      BY <3>1, <3>2, CountSame DEF Serve
  <2>2. CASE Unregister(c)
    <3>1. Admitting' = Admitting /\ Served' = Served
      BY <2>2 DEF Unregister, Admitting, Served
    <3> QED
      BY <2>2, <3>1, CountSame DEF Unregister
  <2>3. CASE ServeReturns(c)
    <3>1. Served' = Served \ {c} /\ c \in Served /\ Admitting' = Admitting
      BY <2>3 DEF ServeReturns, Admitting, Served
    <3> QED
      BY <2>3, <3>1, CountDown DEF ServeReturns
  <2> QED
    BY <1>5, <2>1, <2>2, <2>3 DEF Serving
<1> QED
  BY <1>1, <1>2, <1>3, <1>4, <1>5 DEF TransportNext

-----------------------------------------------------------------------------
(* A transport that has drained stays closed and has no work. *)
Drained == stopper = "drained" => tstate = "closed" /\ work = 0

LEMMA DrainedStep ==
  ASSUME TransportTypeOK, Drained, TransportNext
  PROVE  Drained'
BY DEF TransportTypeOK, Drained, TransportNext, AcceptExits, Finish, Stopping, BeginDrain,
       DrainDone, DrainExpires, DrainJoined, BeginClose, CloseDone, Accept, DialStarts,
       Admission, DialConnects, DialFails, HandshakeFails, HandlePeer, HandlePeerClosed,
       HandlePeerRefuses, Dropped, Register, OnPeer, AdmissionReturns, Serving, Serve,
       ReadFrame, HandlerReturns, HandlerFails, ReadFails, Unregister, ServeReturns

LEMMA PeerSetFinite ==
  ASSUME TransportTypeOK
  PROVE  IsFiniteSet(PeerSet) /\ Cardinality(PeerSet) \in Nat
<1>1. PeerSet \subseteq Conns
  BY DEF TransportTypeOK, PeerSet
<1> QED
  BY <1>1, TransportAssumption, FS_Subset, FS_CardinalityType

(* Only Register adds a peer, and only one that Full has let in. *)
LEMMA PeerSetStep ==
  ASSUME TransportTypeOK, TransportNext
  PROVE  \/ PeerSet' \subseteq PeerSet
         \/ tstate = "open" /\ ~Full /\ \E c \in Conns : PeerSet' \subseteq PeerSet \cup {c}
<1> USE DEF TransportTypeOK, PeerSet
<1>1. ASSUME NEW c \in Conns, HandlePeer(c)
      PROVE  tstate = "open" /\ ~Full /\ PeerSet' \subseteq PeerSet \cup {c}
  BY <1>1 DEF HandlePeer, Register
<1>2. ASSUME NEW c \in Conns, Unregister(c)
      PROVE  PeerSet' \subseteq PeerSet
  BY <1>2 DEF Unregister
<1>3. \/ UNCHANGED peers
      \/ \E c \in Conns : HandlePeer(c) \/ Unregister(c)
  BY DEF TransportNext, AcceptExits, Stopping, BeginDrain,
       DrainDone, DrainExpires, DrainJoined, BeginClose, CloseDone, Accept, DialStarts,
       Admission, DialConnects, DialFails, HandshakeFails, HandlePeerClosed,
       HandlePeerRefuses, Dropped, OnPeer, AdmissionReturns, Serving, Serve,
       ReadFrame, HandlerReturns, HandlerFails, ReadFails, ServeReturns
<1> QED
  BY <1>1, <1>2, <1>3

LEMMA LimitedStep ==
  ASSUME TransportTypeOK, PeersLimited, TransportNext
  PROVE  PeersLimited'
<1>1. TransportTypeOK'
  BY TypeStep
<1>2. IsFiniteSet(PeerSet) /\ Cardinality(PeerSet) \in Nat
  BY PeerSetFinite
<1>3. CASE PeerSet' \subseteq PeerSet
  <2>1. Cardinality(PeerSet') <= Cardinality(PeerSet) /\ Cardinality(PeerSet') \in Nat
    BY <1>2, <1>3, FS_Subset, FS_CardinalityType
  <2> QED
    BY <1>2, <2>1, TransportAssumption DEF PeersLimited
<1>4. ASSUME NEW c \in Conns, ~Full, PeerSet' \subseteq PeerSet \cup {c}
      PROVE  PeersLimited'
  <2>1. IsFiniteSet(PeerSet \cup {c}) /\ Cardinality(PeerSet \cup {c}) <= Cardinality(PeerSet) + 1
    <3>1. /\ IsFiniteSet(PeerSet \cup {c})
          /\ Cardinality(PeerSet \cup {c}) =
               IF c \in PeerSet THEN Cardinality(PeerSet) ELSE Cardinality(PeerSet) + 1
      BY <1>2, FS_AddElement
    <3> QED
      BY <1>2, <3>1
  <2>2. Cardinality(PeerSet') <= Cardinality(PeerSet \cup {c})
    BY <1>4, <2>1, FS_Subset
  <2>3. Cardinality(PeerSet') \in Nat /\ Cardinality(PeerSet \cup {c}) \in Nat
    BY <1>4, <2>1, FS_Subset, FS_CardinalityType
  <2> QED
    BY <1>2, <1>4, <2>1, <2>2, <2>3, TransportAssumption DEF PeersLimited, Full
<1> QED
  BY <1>3, <1>4, PeerSetStep

-----------------------------------------------------------------------------
(* The inductive invariant: the properties with what they rest on. *)
TransportInv ==
  /\ TransportTypeOK /\ LinkShape /\ PeersOwned
  /\ WorkCounted /\ Drained /\ PeersLimited

LEMMA InvInit == TransportInit => TransportInv
<1> SUFFICES ASSUME TransportInit PROVE TransportInv
  OBVIOUS
<1> USE TransportAssumption DEF TransportInit
<1>1. TransportTypeOK
  BY DEF TransportTypeOK, Link, FreeLink
<1>2. LinkShape
  BY DEF LinkShape, Shape, FreeLink, Free, Registered
<1>3. PeerSet = {}
  BY DEF PeerSet
<1>4. PeersOwned
  BY <1>3 DEF PeersOwned, FreeLink, Registered
<1>5. WorkCounted
  <2>1. Admitting = {} /\ Served = {}
    BY DEF Admitting, Served, FreeLink
  <2>2. Running = Cardinality(Admitting) + Cardinality(Served) + 1
    BY DEF Running, Admitting, Served
  <2> QED
    BY <2>1, <2>2, FS_EmptySet DEF WorkCounted
<1>6. Drained
  BY DEF Drained
<1>7. PeersLimited
  BY <1>3, FS_EmptySet DEF PeersLimited
<1> QED
  BY <1>1, <1>2, <1>4, <1>5, <1>6, <1>7 DEF TransportInv

LEMMA InvStep == TransportInv /\ [TransportNext]_tvars => TransportInv'
<1> SUFFICES ASSUME TransportInv, [TransportNext]_tvars PROVE TransportInv'
  OBVIOUS
<1>1. CASE TransportNext
  BY <1>1, TypeStep, ShapeStep, OwnedStep, WorkStep, DrainedStep, LimitedStep DEF TransportInv
<1>2. CASE UNCHANGED tvars
  BY <1>2 DEF tvars, TransportInv, TransportTypeOK, LinkShape, Shape, Free, Registered, PeersOwned,
              PeerSet, WorkCounted, Running, Drained, PeersLimited
<1> QED
  BY <1>1, <1>2

LEMMA Invariance == TransportSpec => []TransportInv
BY InvInit, InvStep, PTL DEF TransportSpec

(* Type correctness, whatever the order of admissions, disconnects and     *)
(* shutdown.                                                               *)
THEOREM TransportTypeCorrect == TransportSpec => []TransportTypeOK
BY Invariance, PTL DEF TransportInv

(* The peer map holds exactly the registered connections, each under its   *)
(* own address: deleting by address in unregisterPeer deletes the right    *)
(* one, because handlePeer lets in no second one.                          *)
THEOREM PeersAlwaysOwned == TransportSpec => []PeersOwned
BY Invariance, PTL DEF TransportInv

(* workCount is the number of goroutines that run: every path of accept,   *)
(* Dial and peerServe calls finishWork exactly once.                       *)
THEOREM WorkAlwaysCounted == TransportSpec => []WorkCounted
BY Invariance, PTL DEF TransportInv

(* Concurrent handshakes never take the peer map past MaxPeers. *)
THEOREM PeersAlwaysLimited == TransportSpec => []PeersLimited
BY Invariance, PTL DEF TransportInv

(* A Drain that met its deadline left no goroutine, peer or connection. *)
THEOREM DrainAlwaysJoins == TransportSpec => []DrainJoins
<1>1. TransportInv => DrainJoins
  <2> SUFFICES ASSUME TransportInv, stopper = "drained"
               PROVE  work = 0 /\ PeerSet = {} /\ tracked = {}
    BY DEF DrainJoins
  <2> USE DEF TransportInv
  <2>1. work = 0
    BY DEF Drained
  <2>2. Running = Cardinality(Admitting) + Cardinality(Served) + IF acceptor THEN 1 ELSE 0
    BY DEF Running, Admitting, Served
  <2>3. Cardinality(Admitting) = 0 /\ Cardinality(Served) = 0
    <3>1. 0 = Cardinality(Admitting) + Cardinality(Served) + IF acceptor THEN 1 ELSE 0
      BY <2>1, <2>2 DEF WorkCounted
    <3>2. CASE acceptor
      BY <3>1, <3>2, CountsFinite
    <3>3. CASE ~acceptor
      BY <3>1, <3>3, CountsFinite
    <3> QED
      BY <3>2, <3>3
  <2>4. Admitting = {} /\ Served = {}
    BY <2>3, CountsFinite, FS_EmptySet
  <2>5. tracked = {}
    BY <2>4 DEF LinkShape, Shape, Registered, Admitting, Served, TransportTypeOK
  <2> QED
    BY <2>1, <2>5 DEF PeersOwned
<1> QED
  BY <1>1, Invariance, PTL

(* Once the transport drains no connection enters the peer map, whenever   *)
(* its handshake ends.                                                     *)
THEOREM NeverLateAdmission == TransportSpec => NoLateAdmission
<1>1. TransportInv /\ [TransportNext]_tvars
        => [tstate # "open" => \A k \in Keys : peers'[k] \in {peers[k], NoConn}]_tvars
  <2> SUFFICES ASSUME TransportInv, TransportNext, tstate # "open", NEW k \in Keys
               PROVE  peers'[k] \in {peers[k], NoConn}
    OBVIOUS
  <2>1. ASSUME NEW c \in Conns, Unregister(c)
        PROVE  peers'[k] \in {peers[k], NoConn}
    BY <2>1 DEF Unregister, TransportInv, TransportTypeOK
  <2>2. UNCHANGED peers \/ \E c \in Conns : Unregister(c)
    BY DEF TransportNext, AcceptExits, Stopping, BeginDrain,
       DrainDone, DrainExpires, DrainJoined, BeginClose, CloseDone, Accept, DialStarts,
       Admission, DialConnects, DialFails, HandshakeFails, HandlePeer, HandlePeerClosed,
       HandlePeerRefuses, Dropped, OnPeer, AdmissionReturns, Serving, Serve,
       ReadFrame, HandlerReturns, HandlerFails, ReadFails, ServeReturns
  <2> QED
    BY <2>1, <2>2
<1> QED
  BY <1>1, Invariance, PTL DEF TransportSpec, NoLateAdmission
-----------------------------------------------------------------------------
(* The reconnector: a configured target is only ever dialled. *)
TargetsDialled == \A c \in Conns : link[c].key \in Targets => link[c].out

(* A callback that has found no loop is that of a peer whose Dial returned.*)
NotingOK ==
  \A c \in noting : /\ link[c].srv = "left" /\ link[c].adm = "none"
                    /\ link[c].key \in Targets

(* The loop of a target waits for its one attempt. *)
AttemptsOK ==
  \A c \in Conns : link[c].key \in Targets /\ link[c].adm # "none" =>
     /\ loop[link[c].key] = "dialing"
     /\ \A d \in Conns : link[d].key = link[c].key /\ link[d].adm # "none" => d = c

(* A peer that is gone before its Dial returns has left a mark. *)
MarksLeft ==
  \A c \in Conns :
    link[c].key \in Targets /\ link[c].adm = "returning" /\ link[c].srv = "none" =>
      link[c].key \in pending \/ cancelled

(* A loop that ends leaves a mark, or a peer whose callback is to come. *)
EndingOK ==
  \A t \in Targets : loop[t] = "ending" =>
    \/ cancelled \/ t \in pending
    \/ \E c \in Conns \ noting : link[c].key = t /\ link[c].srv # "none"

ReconnectInv ==
  /\ TransportInv /\ ReconnectTypeOK
  /\ TargetsDialled /\ NotingOK /\ AttemptsOK

TendedInv == ReconnectInv /\ MarksLeft /\ EndingOK /\ TargetTended

(* Every step of the reconnector is one of the transport, or none of it. *)
LEMMA TransportUsed == ReconnectNext => [TransportNext]_tvars
<1>1. ASSUME NEW t \in Targets, LoopStep(t) PROVE [TransportNext]_tvars
  <2>1. t \in Keys
    BY TargetsAssumption
  <2>2. ASSUME NEW c \in Conns, LoopDials(t, c) PROVE TransportNext
    BY <2>1, <2>2 DEF LoopDials, TransportNext
  <2>3. ASSUME NEW c \in Conns, DialErrs(t, c) \/ DialReturnsNil(t, c) PROVE TransportNext
    BY <2>3 DEF DialErrs, DialReturnsNil, TransportNext, Admission
  <2>4. LoopCancelled(t) \/ FinishLoop(t) \/ Retry(t) => UNCHANGED tvars
    BY DEF LoopCancelled, FinishLoop, Retry
  <2> QED
    BY <1>1, <2>2, <2>3, <2>4 DEF LoopStep
<1>2. ASSUME NEW c \in Conns, CallbackStep(c) PROVE [TransportNext]_tvars
  BY <1>2 DEF CallbackStep, NotePending, NoteNoLoop, NoteSchedules, NotNoted, TransportNext
<1>3. ASSUME NEW c \in Conns, TransportStep(c) PROVE TransportNext
  BY <1>3 DEF TransportStep, InboundEnds, TransportNext, Admission
<1>4. Cancel => UNCHANGED tvars
  BY DEF Cancel
<1>5. Shutdown => TransportNext
  BY DEF Shutdown, TransportNext
<1> QED
  BY <1>1, <1>2, <1>3, <1>4, <1>5 DEF ReconnectNext

(* The transport under the reconnector is the one of module Transport.     *)
THEOREM ReconnectorUsesTransport == ReconnectSpec => TransportSpec
<1>1. ReconnectInit => TransportInit
  BY DEF ReconnectInit
<1>2. [ReconnectNext]_vars => [TransportNext]_tvars
  BY TransportUsed DEF vars, tvars
<1> QED
  BY <1>1, <1>2, PTL DEF ReconnectSpec, TransportSpec

(* What a step may do to a connection without touching what the reconnector*)
(* relies on: one of a target keeps its goroutines, or gets one more.      *)
Quiet(c) ==
  \/ /\ link'[c].key = link[c].key /\ link'[c].out = link[c].out
     /\ link'[c].adm = "none" <=> link[c].adm = "none"
     /\ link[c].srv # "none" => link'[c].srv # "none"
     /\ link[c].srv = "left" => link'[c].srv = "left"
     /\ link'[c].srv = "none" /\ link'[c].adm = "returning" => link[c].adm = "returning"
  \/ link[c].key \notin Targets /\ link'[c].key \notin Targets

LEMMA NoTarget == NoKey \notin Targets /\ FreeLink.key \notin Targets
BY TransportAssumption, TargetsAssumption DEF FreeLink

LEMMA LinkFacts ==
  ASSUME ReconnectInv, NEW c \in Conns
  PROVE  /\ link[c] \in Link /\ link \in [Conns -> Link] /\ Shape(c)
         /\ link[c].key \in Targets => link[c].out
BY DEF ReconnectInv, TransportInv, TransportTypeOK, LinkShape, TargetsDialled

(* The invariant again after a quiet step of the transport. *)
LEMMA QuietInv ==
  ASSUME ReconnectInv, \A c \in Conns : Quiet(c), UNCHANGED rvars
  PROVE  TargetsDialled' /\ NotingOK' /\ AttemptsOK' /\ ReconnectTypeOK'
<1>1. noting' = noting /\ loop' = loop /\ dialing' = dialing /\ pending' = pending
      /\ retrying' = retrying /\ cancelled' = cancelled
  BY DEF rvars
<1>2. ReconnectTypeOK'
  BY <1>1 DEF ReconnectInv, ReconnectTypeOK
<1>3. noting \subseteq Conns
  BY DEF ReconnectInv, ReconnectTypeOK
<1>4. TargetsDialled'
  BY Zenon DEF ReconnectInv, TargetsDialled, Quiet
<1>5. NotingOK'
  BY <1>1, <1>3 DEF ReconnectInv, NotingOK, Quiet
<1>6. AttemptsOK'
  BY <1>1 DEF ReconnectInv, AttemptsOK, Quiet
<1> QED
  BY <1>2, <1>4, <1>5, <1>6

LEMMA QuietTended ==
  ASSUME TendedInv, \A c \in Conns : Quiet(c), UNCHANGED rvars
  PROVE  MarksLeft' /\ EndingOK' /\ TargetTended'
<1>1. noting' = noting /\ loop' = loop /\ dialing' = dialing /\ pending' = pending
      /\ retrying' = retrying /\ cancelled' = cancelled
  BY DEF rvars
<1>2. MarksLeft'
  BY <1>1 DEF TendedInv, MarksLeft, Quiet
<1>3. EndingOK'
  BY <1>1 DEF TendedInv, EndingOK, Quiet
<1>4. ASSUME NEW t \in Targets, Connected(t) PROVE Connected(t)'
  <2>1. PICK c \in Conns : link[c].out /\ link[c].key = t /\ link[c].srv # "none"
    BY <1>4 DEF Connected
  <2>2. Quiet(c)
    OBVIOUS
  <2>3. link'[c].out /\ link'[c].key = t /\ link'[c].srv # "none"
    BY <2>1, <2>2 DEF Quiet
  <2> QED
    BY <2>3 DEF Connected
<1>5. TargetTended'
  BY <1>1, <1>4 DEF TendedInv, TargetTended, Tended
<1> QED
  BY <1>2, <1>3, <1>5

LEMMA ShutQuiet ==
  ASSUME ReconnectInv, NEW S, Shut(S), NEW c \in Conns
  PROVE  Quiet(c)
<1>1. link'[c] = [link[c] EXCEPT !.shut = @ \/ c \in S] /\ link[c] \in Link
  BY LinkFacts DEF Shut
<1>2. /\ link'[c].adm = link[c].adm /\ link'[c].srv = link[c].srv
      /\ link'[c].key = link[c].key /\ link'[c].out = link[c].out
  BY <1>1 DEF Link
<1> QED
  BY <1>2 DEF Quiet

LEMMA ShutdownQuiet ==
  ASSUME ReconnectInv, Shutdown, NEW c \in Conns
  PROVE  Quiet(c) /\ UNCHANGED rvars
<1>1. CASE link' = link
  BY <1>1 DEF Quiet, Shutdown
<1>2. ASSUME NEW S, Shut(S) PROVE Quiet(c)
  BY <1>2, ShutQuiet
<1>3. link' = link \/ Shut({d \in tracked : ~Registered(d)}) \/ Shut(tracked)
  BY DEF Shutdown, AcceptExits, Stopping, BeginDrain, DrainDone, DrainExpires, DrainJoined,
         BeginClose, CloseDone
<1>4. UNCHANGED rvars
  BY DEF Shutdown
<1> QED
  BY <1>1, <1>2, <1>3, <1>4

LEMMA TransportQuiet ==
  ASSUME ReconnectInv, NEW c \in Conns, TransportStep(c), NEW d \in Conns
  PROVE  Quiet(d) /\ UNCHANGED rvars
<1>0. UNCHANGED rvars
  BY DEF TransportStep
<1>1. link[c] \in Link /\ link \in [Conns -> Link] /\ Shape(c)
      /\ (link[c].key \in Targets => link[c].out)
  BY LinkFacts
<1>2. ASSUME d # c PROVE Quiet(d)
  <2>1. link'[d] = link[d]
    BY <1>1, <1>2 DEF TransportStep, Accept, DialConnects, HandlePeer, Register, OnPeer, InboundEnds,
         HandshakeFails, HandlePeerClosed, HandlePeerRefuses, Dropped, AdmissionReturns, Serving,
         ReadFrame, HandlerReturns, HandlerFails, ReadFails, Unregister, Serve
  <2> QED
    BY <2>1 DEF Quiet
<1>3. ASSUME NEW k \in Keys \ Targets, Accept(c, k) PROVE Quiet(c)
  <2>1. link[c] = FreeLink /\ link'[c].key = k
    BY <1>1, <1>3 DEF Accept, Free
  <2> QED
    BY <2>1, NoTarget DEF Quiet
<1>4. ASSUME DialConnects(c) PROVE Quiet(c)
  <2>1. link'[c] = [link[c] EXCEPT !.adm = "handshake"] /\ link[c].adm = "dialing"
    BY <1>1, <1>4 DEF DialConnects
  <2> QED
    BY <1>1, <2>1 DEF Quiet, Link
<1>5. ASSUME HandlePeer(c) PROVE Quiet(c)
  <2>1. /\ link'[c] = [link[c] EXCEPT !.adm = "onpeer", !.srv = "starting"]
        /\ link[c].adm = "handshake" /\ link[c].srv = "none"
    BY <1>1, <1>5 DEF HandlePeer, Register, Shape
  <2> QED
    BY <1>1, <2>1 DEF Quiet, Link
<1>6. ASSUME OnPeer(c) PROVE Quiet(c)
  <2>1. /\ link'[c] = [link[c] EXCEPT !.adm = "returning", !.srv = "reading"]
        /\ link[c].adm = "onpeer" /\ link[c].srv = "starting"
    BY <1>1, <1>6 DEF OnPeer, Shape
  <2> QED
    BY <1>1, <2>1 DEF Quiet, Link
<1>7. ASSUME InboundEnds(c) PROVE Quiet(c)
  <2>1. link[c].key \notin Targets
    BY <1>1, <1>7 DEF InboundEnds
  <2>2. link'[c] = FreeLink \/ link'[c] = [link[c] EXCEPT !.adm = "none"]
    BY <1>1, <1>7 DEF InboundEnds, HandshakeFails, HandlePeerClosed, HandlePeerRefuses, Dropped,
                      AdmissionReturns
  <2>3. link'[c].key = NoKey \/ link'[c].key = link[c].key
    BY <1>1, <2>2 DEF FreeLink, Link
  <2> QED
    BY <2>1, <2>3, NoTarget DEF Quiet
<1>8. ASSUME Serving(c) PROVE Quiet(c)
  <2>1. PICK to \in {"reading", "handling", "leaving", "left"} :
          link'[c] = [link[c] EXCEPT !.srv = to]
    BY <1>1, <1>8 DEF Serving, ReadFrame, HandlerReturns, HandlerFails, ReadFails, Unregister,
                      Serve
  <2>2. link[c].srv \in {"reading", "handling", "leaving"}
    BY <1>8 DEF Serving, ReadFrame, HandlerReturns, HandlerFails, ReadFails, Unregister, Serve
  <2> QED
    BY <1>1, <2>1, <2>2 DEF Quiet, Link
<1> QED
  BY <1>0, <1>2, <1>3, <1>4, <1>5, <1>6, <1>7, <1>8 DEF TransportStep

LEMMA FreeFields ==
  /\ FreeLink.adm = "none" /\ FreeLink.srv = "none" /\ FreeLink.key = NoKey
  /\ FreeLink.key \notin Targets /\ NoKey \notin Targets
BY NoTarget DEF FreeLink

(* What the invariant says of the reconnector's own state. *)
LEMMA LoopFacts ==
  ASSUME ReconnectInv
  PROVE  /\ dialing \subseteq Targets /\ pending \subseteq dialing /\ noting \subseteq Conns
         /\ loop \in [Targets -> {"none", "sleeping", "dialing", "ending"}]
         /\ retrying \in [Targets -> Nat] /\ cancelled \in BOOLEAN
         /\ \A t \in Targets : t \in dialing <=> loop[t] # "none"
         /\ \A c \in noting : /\ link[c].srv = "left" /\ link[c].adm = "none"
                              /\ link[c].key \in Targets
         /\ \A c \in Conns : link[c].key \in Targets /\ link[c].adm # "none" =>
              /\ loop[link[c].key] = "dialing"
              /\ \A d \in Conns : link[d].key = link[c].key /\ link[d].adm # "none" => d = c
BY DEF ReconnectInv, ReconnectTypeOK, NotingOK, AttemptsOK

ReconnectParts == ReconnectTypeOK /\ TargetsDialled /\ NotingOK /\ AttemptsOK

LEMMA LoopDialsInv ==
  ASSUME ReconnectInv, NEW t \in Targets, NEW c \in Conns, LoopDials(t, c)
  PROVE  ReconnectParts'
<1>1. /\ link[c] = FreeLink
      /\ link' = [link EXCEPT ![c] = [adm |-> "dialing", srv |-> "none", key |-> t,
                                      out |-> TRUE, shut |-> FALSE]]
      /\ loop[t] = "sleeping" /\ loop' = [loop EXCEPT ![t] = "dialing"]
      /\ dialing' = dialing /\ pending' = pending /\ retrying' = retrying /\ noting' = noting
      /\ cancelled' = cancelled
  BY DEF LoopDials, DialStarts, Free
<1>2. link \in [Conns -> Link]
  BY LinkFacts
<1>3. /\ link'[c].adm = "dialing" /\ link'[c].key = t /\ link'[c].out = TRUE
      /\ \A d \in Conns : d # c => link'[d] = link[d]
  BY <1>1, <1>2
<1>4. \A s \in Targets : loop'[s] = IF s = t THEN "dialing" ELSE loop[s]
  BY <1>1, LoopFacts
<1>5. ReconnectTypeOK'
  <2>1. loop' \in [Targets -> {"none", "sleeping", "dialing", "ending"}]
    BY <1>1, LoopFacts
  <2> QED
    BY <1>1, <1>4, <2>1, LoopFacts DEF ReconnectTypeOK
<1>6. TargetsDialled'
  BY <1>3, LinkFacts DEF TargetsDialled
<1>7. NotingOK'
  <2>1. c \notin noting
    BY <1>1, LoopFacts, FreeFields
  <2> QED
    BY <1>1, <1>3, <2>1, LoopFacts DEF NotingOK
<1>8. AttemptsOK'
  <2>1. \A d \in Conns : ~(link[d].key = t /\ link[d].adm # "none")
    BY <1>1, LoopFacts
  <2> QED
    BY <1>3, <1>4, <2>1, LoopFacts DEF AttemptsOK
<1> QED
  BY <1>5, <1>6, <1>7, <1>8 DEF ReconnectParts

LEMMA AttemptLeavesOthers ==
  ASSUME ReconnectInv, NEW t \in Targets, NEW c \in Conns,
         DialErrs(t, c) \/ DialReturnsNil(t, c), NEW d \in Conns, d # c
  PROVE  link'[d] = link[d]
<1>1. link \in [Conns -> Link] /\ Shape(c)
  BY LinkFacts
<1> QED
  BY <1>1 DEF DialErrs, DialReturnsNil, DialFails, HandshakeFails, HandlePeerClosed,
              HandlePeerRefuses, Dropped, AdmissionReturns

(* The attempt of a loop is over: its connection is free again, or the     *)
(* peer's goroutine has it alone.                                          *)
LEMMA AttemptEnds ==
  ASSUME ReconnectInv, NEW t \in Targets, NEW c \in Conns,
         DialErrs(t, c) \/ DialReturnsNil(t, c)
  PROVE  /\ link[c].key = t /\ link[c].adm # "none" /\ loop[t] = "dialing"
         /\ \A d \in Conns : d # c => link'[d] = link[d]
         /\ \/ link'[c] = FreeLink /\ link[c].srv = "none"
            \/ link'[c] = [link[c] EXCEPT !.adm = "none"] /\ link[c].srv # "none"
         /\ loop' = [loop EXCEPT ![t] = IF DialErrs(t, c) THEN "sleeping" ELSE "ending"]
         /\ UNCHANGED <<dialing, pending, retrying, noting, cancelled>>
<1>1. link \in [Conns -> Link] /\ Shape(c)
  BY LinkFacts
<1>2. link[c].key = t /\ link[c].adm # "none" /\ loop[t] = "dialing"
  BY DEF DialErrs, DialReturnsNil, Attempts
<1>3. UNCHANGED <<dialing, pending, retrying, noting, cancelled>>
  BY DEF DialErrs, DialReturnsNil
<1>4. \A d \in Conns : d # c => link'[d] = link[d]
  BY AttemptLeavesOthers
<1>5. \/ link'[c] = FreeLink /\ link[c].srv = "none"
      \/ link'[c] = [link[c] EXCEPT !.adm = "none"] /\ link[c].srv # "none"
  <2>1. CASE AdmissionReturns(c)
    BY <1>1, <2>1 DEF AdmissionReturns
  <2>2. CASE DialFails(c) \/ HandshakeFails(c) \/ HandlePeerClosed(c) \/ HandlePeerRefuses(c)
    <3>1. link'[c] = FreeLink /\ link[c].adm \in {"dialing", "handshake"}
      BY <1>1, <2>2 DEF DialFails, HandshakeFails, HandlePeerClosed, HandlePeerRefuses, Dropped
    <3>2. link[c].srv = "none"
      BY <1>1, <3>1 DEF Shape
    <3> QED
      BY <3>1, <3>2
  <2> QED
    BY <2>1, <2>2 DEF DialErrs, DialReturnsNil
<1>6. loop' = [loop EXCEPT ![t] = IF DialErrs(t, c) THEN "sleeping" ELSE "ending"]
  <2>1. CASE DialErrs(t, c)
    BY <2>1 DEF DialErrs
  <2>2. CASE ~DialErrs(t, c)
    BY <2>2 DEF DialReturnsNil
  <2> QED
    BY <2>1, <2>2
<1> QED
  BY <1>2, <1>3, <1>4, <1>5, <1>6

LEMMA AttemptEndsInv ==
  ASSUME ReconnectInv, NEW t \in Targets, NEW c \in Conns,
         DialErrs(t, c) \/ DialReturnsNil(t, c)
  PROVE  ReconnectParts'
<1>1. /\ link[c].key = t /\ link[c].adm # "none" /\ loop[t] = "dialing"
      /\ \A d \in Conns : d # c => link'[d] = link[d]
      /\ \/ link'[c] = FreeLink
         \/ link'[c] = [link[c] EXCEPT !.adm = "none"]
      /\ dialing' = dialing /\ pending' = pending /\ retrying' = retrying
      /\ noting' = noting /\ cancelled' = cancelled
  BY AttemptEnds
<1>2. PICK pc \in {"sleeping", "ending"} : loop' = [loop EXCEPT ![t] = pc]
  BY AttemptEnds
<1>3. link[c] \in Link
  BY LinkFacts
<1>4. link'[c].adm = "none" /\ (link'[c].key = NoKey \/ link'[c].key = link[c].key)
  BY <1>1, <1>3, FreeFields DEF Link
<1>5. \A s \in Targets : loop'[s] = IF s = t THEN pc ELSE loop[s]
  BY <1>2, LoopFacts
<1>6. ReconnectTypeOK'
  <2>1. loop' \in [Targets -> {"none", "sleeping", "dialing", "ending"}]
    BY <1>2, LoopFacts
  <2>2. \A s \in Targets : s \in dialing' <=> loop'[s] # "none"
    BY <1>1, <1>5, LoopFacts
  <2> QED
    BY <1>1, <2>1, <2>2, LoopFacts DEF ReconnectTypeOK
<1>7. TargetsDialled'
  <2>1. link'[c].key \in Targets => link'[c].out
    <3>1. CASE link'[c] = FreeLink
      BY <3>1, FreeFields
    <3>2. CASE link'[c] = [link[c] EXCEPT !.adm = "none"]
      <4>1. link'[c].key = link[c].key /\ link'[c].out = link[c].out
        BY <1>3, <3>2 DEF Link
      <4> QED
        BY <4>1, LinkFacts
    <3> QED
      BY <1>1, <3>1, <3>2
  <2> QED
    BY <1>1, <2>1, LinkFacts DEF TargetsDialled
<1>8. NotingOK'
  <2>1. c \notin noting
    BY <1>1, LoopFacts
  <2> QED
    BY <1>1, <2>1, LoopFacts DEF NotingOK
<1>9. AttemptsOK'
  <2> SUFFICES ASSUME NEW d \in Conns, link'[d].key \in Targets, link'[d].adm # "none"
               PROVE  /\ loop'[link'[d].key] = "dialing"
                      /\ \A e \in Conns : link'[e].key = link'[d].key /\ link'[e].adm # "none" => e = d
    BY DEF AttemptsOK
  <2>1. d # c /\ link'[d] = link[d]
    BY <1>1, <1>4
  <2>2. link[d].key # t
    BY <1>1, <2>1, LoopFacts
  <2>3. loop'[link'[d].key] = "dialing"
    BY <1>5, <2>1, <2>2, LoopFacts
  <2>4. ASSUME NEW e \in Conns, link'[e].key = link'[d].key, link'[e].adm # "none" PROVE e = d
    <3>1. e # c /\ link'[e] = link[e]
      BY <1>1, <1>4, <2>4
    <3> QED
      BY <2>1, <2>4, <3>1, LoopFacts
  <2> QED
    BY <2>3, <2>4
<1> QED
  BY <1>6, <1>7, <1>8, <1>9 DEF ReconnectParts

(* The callback of a peer returns. *)
LEMMA ServeReturned ==
  ASSUME ReconnectInv, NEW c \in Conns, ServeReturns(c)
  PROVE  /\ link[c].srv = "left"
         /\ \A d \in Conns : d # c => link'[d] = link[d]
         /\ \/ link'[c] = FreeLink /\ link[c].adm = "none"
            \/ link'[c] = [link[c] EXCEPT !.srv = "none"] /\ link[c].adm # "none"
         /\ link'[c].adm = link[c].adm /\ link'[c].srv = "none"
         /\ link'[c].key = NoKey \/ (link'[c].key = link[c].key /\ link'[c].out = link[c].out)
<1>1. link \in [Conns -> Link] /\ link[c] \in Link
  BY LinkFacts
<1>2. /\ link[c].srv = "left"
      /\ \A d \in Conns : d # c => link'[d] = link[d]
      /\ \/ link'[c] = FreeLink /\ link[c].adm = "none"
         \/ link'[c] = [link[c] EXCEPT !.srv = "none"] /\ link[c].adm # "none"
  BY <1>1 DEF ServeReturns
<1>3. CASE link'[c] = FreeLink /\ link[c].adm = "none"
  BY <1>2, <1>3, FreeFields
<1>4. CASE link'[c] = [link[c] EXCEPT !.srv = "none"] /\ link[c].adm # "none"
  <2>1. /\ link'[c].adm = link[c].adm /\ link'[c].srv = "none"
        /\ link'[c].key = link[c].key /\ link'[c].out = link[c].out
    BY <1>1, <1>4 DEF Link
  <2> QED
    BY <1>2, <1>4, <2>1
<1> QED
  BY <1>2, <1>3, <1>4

(* schedule keeps one loop per target. *)
LEMMA ScheduledFacts ==
  ASSUME ReconnectInv, NEW t \in Targets, Scheduled(t)
  PROVE  /\ loop' \in [Targets -> {"none", "sleeping", "dialing", "ending"}]
         /\ dialing \subseteq dialing' /\ dialing' \subseteq Targets
         /\ \A s \in Targets : s \in dialing' <=> loop'[s] # "none"
         /\ \A s \in Targets : loop[s] # "none" => loop'[s] = loop[s]
         /\ \A s \in Targets : loop[s] = "none" => loop'[s] \in {"none", "sleeping"}
         /\ cancelled \/ t \in dialing'
<1>1. CASE cancelled \/ t \in dialing
  <2>1. dialing' = dialing /\ loop' = loop
    BY <1>1 DEF Scheduled
  <2> QED
    BY <1>1, <2>1, LoopFacts
<1>2. CASE ~(cancelled \/ t \in dialing)
  <2>1. dialing' = dialing \cup {t} /\ loop' = [loop EXCEPT ![t] = "sleeping"]
    BY <1>2 DEF Scheduled
  <2>2. loop[t] = "none"
    BY <1>2, LoopFacts
  <2>3. \A s \in Targets : loop'[s] = IF s = t THEN "sleeping" ELSE loop[s]
    BY <2>1, LoopFacts
  <2>4. loop' \in [Targets -> {"none", "sleeping", "dialing", "ending"}]
    BY <2>1, LoopFacts
  <2> QED
    BY <2>1, <2>2, <2>3, <2>4, LoopFacts
<1> QED
  BY <1>1, <1>2

LEMMA CallbackInv ==
  ASSUME ReconnectInv, NEW c \in Conns, CallbackStep(c)
  PROVE  ReconnectParts'
<1>1. CASE NoteNoLoop(c)
  <2>1. /\ link' = link /\ loop' = loop /\ dialing' = dialing /\ pending' = pending
        /\ retrying' = retrying /\ cancelled' = cancelled /\ noting' = noting \cup {c}
        /\ link[c].srv = "left" /\ link[c].key \in Targets /\ link[c].key \notin dialing
    BY <1>1 DEF NoteNoLoop, Callback, Noted, tvars
  <2>2. link[c].adm = "none"
    BY <2>1, LoopFacts
  <2>3. ReconnectTypeOK'
    BY <2>1, LoopFacts DEF ReconnectTypeOK
  <2>4. TargetsDialled' /\ AttemptsOK'
    BY <2>1 DEF ReconnectInv, TargetsDialled, AttemptsOK
  <2>5. NotingOK'
    BY <2>1, <2>2, LoopFacts DEF NotingOK
  <2> QED
    BY <2>3, <2>4, <2>5 DEF ReconnectParts
<1>2. CASE ServeReturns(c)
  <2>1. /\ \A d \in Conns : d # c => link'[d] = link[d]
        /\ link'[c].adm = link[c].adm /\ link'[c].srv = "none"
        /\ link'[c].key = NoKey \/ (link'[c].key = link[c].key /\ link'[c].out = link[c].out)
    BY <1>2, ServeReturned
  <2>2. NoKey \notin Targets
    BY FreeFields
  <2>3. ASSUME NEW loops \in [Targets -> {"none", "sleeping", "dialing", "ending"}],
               loop' = loops, \A s \in Targets : loop[s] = "dialing" => loop'[s] = "dialing"
        PROVE  TargetsDialled' /\ AttemptsOK'
    <3>1. TargetsDialled'
      <4>1. link'[c].key \in Targets => link'[c].out
        BY <2>1, <2>2, LinkFacts
      <4> QED
        BY <2>1, <4>1, LinkFacts DEF TargetsDialled
    <3>2. AttemptsOK'
      BY <2>1, <2>2, <2>3, LoopFacts DEF AttemptsOK
    <3> QED
      BY <3>1, <3>2
  <2>4. CASE NotePending(c)
    <3>1. /\ loop' = loop /\ dialing' = dialing /\ pending' = pending \cup {link[c].key}
          /\ retrying' = retrying /\ cancelled' = cancelled /\ noting' = noting
          /\ link[c].key \in dialing /\ c \notin noting
      BY <2>4 DEF NotePending, Callback
    <3>2. ReconnectTypeOK'
      BY <3>1, LoopFacts DEF ReconnectTypeOK
    <3>3. NotingOK'
      BY <2>1, <3>1, LoopFacts DEF NotingOK
    <3>4. TargetsDialled' /\ AttemptsOK'
      BY <2>3, <3>1, LoopFacts
    <3> QED
      BY <3>2, <3>3, <3>4 DEF ReconnectParts
  <2>5. CASE NoteSchedules(c)
    <3>1. /\ Scheduled(link[c].key) /\ noting' = noting \ {c} /\ c \in noting
          /\ pending' = pending /\ retrying' = retrying /\ cancelled' = cancelled
      BY <2>5 DEF NoteSchedules
    <3>2. link[c].key \in Targets
      BY <3>1, LoopFacts
    <3>3. /\ loop' \in [Targets -> {"none", "sleeping", "dialing", "ending"}]
          /\ dialing \subseteq dialing' /\ dialing' \subseteq Targets
          /\ \A s \in Targets : s \in dialing' <=> loop'[s] # "none"
          /\ \A s \in Targets : loop[s] # "none" => loop'[s] = loop[s]
      BY <3>1, <3>2, ScheduledFacts
    <3>4. ReconnectTypeOK'
      BY <3>1, <3>3, LoopFacts DEF ReconnectTypeOK
    <3>5. NotingOK'
      BY <2>1, <3>1, LoopFacts DEF NotingOK
    <3>6. TargetsDialled' /\ AttemptsOK'
      BY <2>3, <3>3, LoopFacts
    <3> QED
      BY <3>4, <3>5, <3>6 DEF ReconnectParts
  <2>6. CASE NotNoted(c)
    <3>1. /\ loop' = loop /\ dialing' = dialing /\ pending' = pending
          /\ retrying' = retrying /\ cancelled' = cancelled /\ noting' = noting
          /\ c \notin noting
      BY <2>6 DEF NotNoted, Callback, rvars
    <3>2. ReconnectTypeOK'
      BY <3>1, LoopFacts DEF ReconnectTypeOK
    <3>3. NotingOK'
      BY <2>1, <3>1, LoopFacts DEF NotingOK
    <3>4. TargetsDialled' /\ AttemptsOK'
      BY <2>3, <3>1, LoopFacts
    <3> QED
      BY <3>2, <3>3, <3>4 DEF ReconnectParts
  <2> QED
    BY <1>1, <2>4, <2>5, <2>6 DEF CallbackStep
<1> QED
  BY <1>1, <1>2 DEF CallbackStep, NotePending, NoteSchedules, NotNoted

(* Steps of a loop that leave the transport alone. *)
LEMMA LoopAloneInv ==
  ASSUME ReconnectInv, NEW t \in Targets, LoopCancelled(t) \/ FinishLoop(t) \/ Retry(t)
  PROVE  ReconnectParts'
<1>1. link' = link /\ noting' = noting /\ cancelled' = cancelled
  BY DEF LoopCancelled, FinishLoop, Retry, tvars
<1>2. TargetsDialled' /\ NotingOK'
  BY <1>1 DEF ReconnectInv, TargetsDialled, NotingOK
<1>3. ASSUME \A s \in Targets : loop[s] = "dialing" => loop'[s] = "dialing"
      PROVE  AttemptsOK'
  BY <1>1, <1>3, LoopFacts DEF AttemptsOK
<1>4. CASE LoopCancelled(t)
  <2>1. /\ loop[t] = "sleeping" /\ loop' = [loop EXCEPT ![t] = "ending"] /\ dialing' = dialing
        /\ pending' = pending /\ retrying' = retrying
    BY <1>4 DEF LoopCancelled
  <2>2. \A s \in Targets : loop'[s] = IF s = t THEN "ending" ELSE loop[s]
    BY <2>1, LoopFacts
  <2>3. loop' \in [Targets -> {"none", "sleeping", "dialing", "ending"}]
    BY <2>1, LoopFacts
  <2>4. \A s \in Targets : s \in dialing' <=> loop'[s] # "none"
    BY <2>1, <2>2, LoopFacts
  <2>5. ReconnectTypeOK'
    BY <1>1, <2>1, <2>3, <2>4, LoopFacts DEF ReconnectTypeOK
  <2>6. AttemptsOK'
    BY <1>3, <2>1, <2>2
  <2> QED
    BY <1>2, <2>5, <2>6 DEF ReconnectParts
<1>5. CASE FinishLoop(t)
  <2>1. /\ loop[t] = "ending" /\ loop' = [loop EXCEPT ![t] = "none"] /\ dialing' = dialing \ {t}
        /\ pending' = pending \ {t}
        /\ retrying' = IF t \in pending THEN [retrying EXCEPT ![t] = @ + 1] ELSE retrying
    BY <1>5 DEF FinishLoop
  <2>2. \A s \in Targets : loop'[s] = IF s = t THEN "none" ELSE loop[s]
    BY <2>1, LoopFacts
  <2>3. loop' \in [Targets -> {"none", "sleeping", "dialing", "ending"}]
    BY <2>1, LoopFacts
  <2>4. \A s \in Targets : s \in dialing' <=> loop'[s] # "none"
    BY <2>1, <2>2, LoopFacts
  <2>5. retrying' \in [Targets -> Nat]
    BY <2>1, LoopFacts
  <2>6. ReconnectTypeOK'
    BY <1>1, <2>1, <2>3, <2>4, <2>5, LoopFacts DEF ReconnectTypeOK
  <2>7. AttemptsOK'
    BY <1>3, <2>1, <2>2
  <2> QED
    BY <1>2, <2>6, <2>7 DEF ReconnectParts
<1>6. CASE Retry(t)
  <2>1. /\ retrying[t] > 0 /\ retrying' = [retrying EXCEPT ![t] = @ - 1] /\ Scheduled(t)
        /\ pending' = pending
    BY <1>6 DEF Retry
  <2>2. /\ loop' \in [Targets -> {"none", "sleeping", "dialing", "ending"}]
        /\ dialing \subseteq dialing' /\ dialing' \subseteq Targets
        /\ \A s \in Targets : s \in dialing' <=> loop'[s] # "none"
        /\ \A s \in Targets : loop[s] # "none" => loop'[s] = loop[s]
    BY <2>1, ScheduledFacts
  <2>3. retrying' \in [Targets -> Nat]
    <3>1. retrying \in [Targets -> Nat]
      BY LoopFacts
    <3>2. retrying[t] - 1 \in Nat
      BY <2>1, <3>1
    <3> QED
      BY <2>1, <3>1, <3>2
  <2>4. ReconnectTypeOK'
    BY <1>1, <2>1, <2>2, <2>3, LoopFacts DEF ReconnectTypeOK
  <2>5. AttemptsOK'
    BY <1>3, <2>2
  <2> QED
    BY <1>2, <2>4, <2>5 DEF ReconnectParts
<1> QED
  BY <1>4, <1>5, <1>6

LEMMA CancelInv ==
  ASSUME ReconnectInv, Cancel
  PROVE  ReconnectParts'
<1>1. /\ link' = link /\ loop' = loop /\ dialing' = dialing /\ pending' = pending
      /\ retrying' = retrying /\ noting' = noting
  BY DEF Cancel, tvars
<1>2. cancelled' \in BOOLEAN
  BY DEF Cancel
<1>3. ReconnectTypeOK'
  BY <1>1, <1>2, LoopFacts DEF ReconnectTypeOK
<1> QED
  BY <1>1, <1>3 DEF ReconnectInv, ReconnectParts, TargetsDialled, NotingOK, AttemptsOK

LEMMA ReconnectStep == ReconnectInv /\ [ReconnectNext]_vars => ReconnectInv'
<1> SUFFICES ASSUME ReconnectInv, [ReconnectNext]_vars PROVE ReconnectInv'
  OBVIOUS
<1>1. TransportInv'
  <2>1. [TransportNext]_tvars
    BY TransportUsed DEF vars, tvars
  <2>2. TransportInv
    BY DEF ReconnectInv
  <2> QED
    BY <2>1, <2>2, InvStep
<1>2. ReconnectParts'
  <2>1. CASE UNCHANGED vars
    BY <2>1 DEF vars, tvars, rvars, ReconnectInv, ReconnectParts, ReconnectTypeOK, TargetsDialled,
                NotingOK, AttemptsOK
  <2>2. ASSUME NEW t \in Targets, LoopStep(t) PROVE ReconnectParts'
    BY <2>2, LoopDialsInv, AttemptEndsInv, LoopAloneInv DEF LoopStep
  <2>3. ASSUME NEW c \in Conns, CallbackStep(c) PROVE ReconnectParts'
    BY <2>3, CallbackInv
  <2>4. ASSUME NEW c \in Conns, TransportStep(c) PROVE ReconnectParts'
    <3>1. (\A d \in Conns : Quiet(d)) /\ UNCHANGED rvars
      BY <2>4, TransportQuiet
    <3> QED
      BY <3>1, QuietInv DEF ReconnectParts
  <2>5. Cancel => ReconnectParts'
    BY CancelInv
  <2>6. ASSUME Shutdown PROVE ReconnectParts'
    <3>1. (\A d \in Conns : Quiet(d)) /\ UNCHANGED rvars
      BY <2>6, ShutdownQuiet DEF Shutdown
    <3> QED
      BY <3>1, QuietInv DEF ReconnectParts
  <2> QED
    BY <2>1, <2>2, <2>3, <2>4, <2>5, <2>6 DEF ReconnectNext
<1> QED
  BY <1>1, <1>2 DEF ReconnectInv, ReconnectParts

LEMMA ReconnectBegins == ReconnectInit => ReconnectInv
<1> SUFFICES ASSUME ReconnectInit PROVE ReconnectInv
  OBVIOUS
<1>1. TransportInv
  BY InvInit DEF ReconnectInit
<1>2. \A c \in Conns : link[c] = FreeLink
  BY DEF ReconnectInit, TransportInit
<1>3. cancelled \in BOOLEAN
  BY DEF ReconnectInit
<1>4. ReconnectTypeOK
  BY <1>3 DEF ReconnectInit, ReconnectTypeOK
<1>5. TargetsDialled /\ NotingOK /\ AttemptsOK
  BY <1>2, FreeFields DEF ReconnectInit, TargetsDialled, NotingOK, AttemptsOK
<1> QED
  BY <1>1, <1>4, <1>5 DEF ReconnectInv

LEMMA Reconnecting == ReconnectSpec => []ReconnectInv
BY ReconnectBegins, ReconnectStep, PTL DEF ReconnectSpec

(* However disconnects, retries and schedules interleave, a target has at  *)
(* most one loop and one attempt, and a mark only while a loop will see it.*)
THEOREM AttemptsAreSingle == ReconnectSpec => []OneAttempt
<1>1. ReconnectInv => OneAttempt
  <2> SUFFICES ASSUME ReconnectInv, NEW t \in Targets PROVE Cardinality(Attempts(t)) <= 1
    BY DEF OneAttempt, ReconnectInv
  <2>1. CASE Attempts(t) = {}
    BY <2>1, FS_EmptySet
  <2>2. CASE Attempts(t) # {}
    <3>1. PICK c \in Conns : c \in Attempts(t)
      BY <2>2 DEF Attempts
    <3>2. Attempts(t) = {c}
      BY <3>1, LoopFacts DEF Attempts
    <3>3. Cardinality({c}) = 1
      BY FS_Singleton
    <3> QED
      BY <3>2, <3>3
  <2> QED
    BY <2>1, <2>2
<1> QED
  BY <1>1, Reconnecting, PTL

-----------------------------------------------------------------------------
(* No target is forgotten. *)

(* A target's connection is one that was dialled. *)
LEMMA ConnectedIs ==
  ASSUME ReconnectInv, NEW t \in Targets
  PROVE  Connected(t) <=> \E c \in Conns : link[c].key = t /\ link[c].srv # "none"
BY LinkFacts DEF Connected

ConnectedOut == \A t \in Targets : Connected(t) <=>
             \E c \in Conns : link[c].key = t /\ link[c].srv # "none"

LEMMA ConnectedAlways == ReconnectInv => ConnectedOut
BY ConnectedIs DEF ConnectedOut

(* The three parts again, from what a step leaves of the connections of a  *)
(* target.                                                                 *)
LEMMA TendedFrom ==
  ASSUME ConnectedOut', \A t \in Targets : \/ cancelled' \/ t \in dialing' \/ retrying'[t] > 0
                                      \/ \E c \in Conns : link'[c].key = t /\ link'[c].srv # "none"
  PROVE  TargetTended'
BY DEF ConnectedOut, TargetTended, Tended

LEMMA TendedFacts ==
  ASSUME TendedInv
  PROVE  /\ ReconnectInv
         /\ \A t \in Targets : \/ cancelled \/ t \in dialing \/ retrying[t] > 0
                               \/ \E c \in Conns : link[c].key = t /\ link[c].srv # "none"
         /\ \A c \in Conns :
              link[c].key \in Targets /\ link[c].adm = "returning" /\ link[c].srv = "none" =>
                link[c].key \in pending \/ cancelled
         /\ \A t \in Targets : loop[t] = "ending" =>
              \/ cancelled \/ t \in pending
              \/ \E c \in Conns \ noting : link[c].key = t /\ link[c].srv # "none"
<1>1. ReconnectInv
  BY DEF TendedInv
<1>2. \A t \in Targets : \/ cancelled \/ t \in dialing \/ retrying[t] > 0
                         \/ \E c \in Conns : link[c].key = t /\ link[c].srv # "none"
  BY <1>1, ConnectedIs DEF TendedInv, TargetTended, Tended
<1> QED
  BY <1>1, <1>2 DEF TendedInv, MarksLeft, EndingOK

LEMMA LoopDialsTended ==
  ASSUME TendedInv, ConnectedOut', NEW t \in Targets, NEW c \in Conns, LoopDials(t, c)
  PROVE  MarksLeft' /\ EndingOK' /\ TargetTended'
<1>0. ReconnectInv
  BY DEF TendedInv
<1>1. /\ link[c] = FreeLink
      /\ link' = [link EXCEPT ![c] = [adm |-> "dialing", srv |-> "none", key |-> t,
                                      out |-> TRUE, shut |-> FALSE]]
      /\ loop[t] = "sleeping" /\ loop' = [loop EXCEPT ![t] = "dialing"]
      /\ dialing' = dialing /\ pending' = pending /\ retrying' = retrying /\ noting' = noting
      /\ cancelled' = cancelled
  BY DEF LoopDials, DialStarts, Free
<1>2. link \in [Conns -> Link]
  BY <1>0, LinkFacts
<1>3. /\ link'[c].adm = "dialing" /\ link[c].srv = "none"
      /\ \A d \in Conns : d # c => link'[d] = link[d]
  BY <1>1, <1>2, FreeFields
<1>4. \A s \in Targets : loop'[s] = IF s = t THEN "dialing" ELSE loop[s]
  BY <1>0, <1>1, LoopFacts
<1>5. MarksLeft'
  BY <1>1, <1>3, TendedFacts DEF MarksLeft
<1>6. EndingOK'
  BY <1>1, <1>3, <1>4, TendedFacts DEF EndingOK
<1>7. TargetTended'
  BY <1>1, <1>3, TendedFacts, TendedFrom
<1> QED
  BY <1>5, <1>6, <1>7

(* An attempt ends: only a loop that returns nil ends, and it leaves a     *)
(* peer, or a mark.  A refusal means that the target's peer is registered. *)
LEMMA NilLeaves ==
  ASSUME MaxPeers = 0, TendedInv, NEW t \in Targets, NEW c \in Conns, DialReturnsNil(t, c)
  PROVE  \/ cancelled \/ t \in pending
         \/ \E d \in Conns \ noting : link[d].key = t /\ link'[d].key = t /\ link'[d].srv # "none"
<1>0. ReconnectInv
  BY DEF TendedInv
<1>a. link[c].key = t /\ link[c].adm # "none"
  BY <1>0, AttemptEnds
<1>b. \A d \in Conns : d # c => link'[d] = link[d]
  BY <1>0, AttemptLeavesOthers
<1>1. /\ link[c].key = t /\ link[c].adm # "none"
      /\ \A d \in Conns : d # c => link'[d] = link[d]
  BY <1>a, <1>b
<1>2. link[c] \in Link /\ link \in [Conns -> Link]
  BY <1>0, LinkFacts
<1>3. CASE AdmissionReturns(c)
  <2>1. link[c].adm = "returning"
    BY <1>3 DEF AdmissionReturns
  <2>2. CASE link[c].srv = "none"
    BY <1>1, <2>1, <2>2, TendedFacts
  <2>3. CASE link[c].srv # "none"
    <3>1. link'[c] = [link[c] EXCEPT !.adm = "none"]
      BY <1>2, <1>3, <2>3 DEF AdmissionReturns
    <3>2. link'[c].key = t /\ link'[c].srv # "none"
      BY <1>1, <1>2, <2>3, <3>1 DEF Link
    <3>3. c \notin noting
      BY <1>0, <1>1, LoopFacts
    <3> QED
      BY <1>1, <3>2, <3>3
  <2> QED
    BY <2>2, <2>3
<1>4. CASE HandlePeerRefuses(c)
  <2>1. Duplicate(c) /\ link[c].adm = "handshake"
    BY <1>4 DEF HandlePeerRefuses, Full
  <2>2. t \in Keys
    BY TargetsAssumption
  <2>3. peers[t] # NoConn
    BY <1>1, <2>1 DEF Duplicate
  <2>4. PICK d \in Conns : d = peers[t]
    BY <1>0, <2>2, <2>3 DEF ReconnectInv, TransportInv, TransportTypeOK
  <2>5. Registered(d) /\ link[d].key = t
    BY <1>0, <2>2, <2>3, <2>4 DEF ReconnectInv, TransportInv, PeersOwned
  <2>6. link[d].srv # "none" /\ link[d].srv # "left"
    BY <2>5 DEF Registered
  <2>7. d # c
    <3>1. link[c].srv = "none"
      BY <1>0, <2>1, LinkFacts DEF Shape
    <3> QED
      BY <2>6, <3>1
  <2>8. d \notin noting
    BY <1>0, <2>6, LoopFacts
  <2> QED
    BY <1>1, <2>5, <2>6, <2>7, <2>8
<1> QED
  BY <1>3, <1>4 DEF DialReturnsNil

LEMMA AttemptEndsTended ==
  ASSUME MaxPeers = 0, TendedInv, ConnectedOut', NEW t \in Targets, NEW c \in Conns,
         DialErrs(t, c) \/ DialReturnsNil(t, c)
  PROVE  MarksLeft' /\ EndingOK' /\ TargetTended'
<1>0. ReconnectInv
  BY DEF TendedInv
<1>c. link[c].key = t /\ link[c].adm # "none" /\ loop[t] = "dialing"
  BY <1>0, AttemptEnds
<1>f. \A d \in Conns : d # c => link'[d] = link[d]
  BY <1>0, AttemptLeavesOthers
<1>d. \/ link'[c] = FreeLink /\ link[c].srv = "none"
      \/ link'[c] = [link[c] EXCEPT !.adm = "none"] /\ link[c].srv # "none"
  BY <1>0, AttemptEnds
<1>e. /\ dialing' = dialing /\ pending' = pending /\ retrying' = retrying
      /\ noting' = noting /\ cancelled' = cancelled
  BY <1>0, AttemptEnds
<1>1. /\ link[c].key = t /\ link[c].adm # "none" /\ loop[t] = "dialing"
      /\ \A d \in Conns : d # c => link'[d] = link[d]
      /\ \/ link'[c] = FreeLink /\ link[c].srv = "none"
         \/ link'[c] = [link[c] EXCEPT !.adm = "none"] /\ link[c].srv # "none"
      /\ dialing' = dialing /\ pending' = pending /\ retrying' = retrying
      /\ noting' = noting /\ cancelled' = cancelled
  BY <1>c, <1>d, <1>e, <1>f
<1>a. DialErrs(t, c) => loop' = [loop EXCEPT ![t] = "sleeping"]
  BY DEF DialErrs
<1>b. DialReturnsNil(t, c) => loop' = [loop EXCEPT ![t] = "ending"]
  BY DEF DialReturnsNil
<1>2. link[c] \in Link
  BY <1>0, LinkFacts
<1>3. /\ link'[c].adm = "none"
      /\ link[c].srv # "none" => link'[c].srv = link[c].srv /\ link'[c].key = link[c].key
  <2>1. CASE link'[c] = FreeLink /\ link[c].srv = "none"
    BY <2>1, FreeFields
  <2>2. CASE link'[c] = [link[c] EXCEPT !.adm = "none"] /\ link[c].srv # "none"
    BY <1>2, <2>2 DEF Link
  <2> QED
    BY <1>1, <2>1, <2>2
<1>4. MarksLeft'
  BY <1>1, <1>3, TendedFacts DEF MarksLeft
<1>5. \A s \in Targets : s # t => loop'[s] = loop[s]
  BY <1>0, <1>a, <1>b, LoopFacts
<1>6. EndingOK'
  <2> SUFFICES ASSUME NEW s \in Targets, loop'[s] = "ending"
               PROVE  \/ cancelled' \/ s \in pending'
                      \/ \E d \in Conns \ noting' : link'[d].key = s /\ link'[d].srv # "none"
    BY DEF EndingOK
  <2>1. CASE s # t
    <3>1. loop[s] = "ending"
      BY <1>5, <2>1
    <3> QED
      BY <1>1, <1>3, <3>1, TendedFacts
  <2>2. CASE s = t
    <3>1. DialErrs(t, c) => loop'[t] = "sleeping"
      BY <1>0, <1>a, LoopFacts
    <3>2. DialReturnsNil(t, c)
      BY <2>2, <3>1
    <3> QED
      BY <1>1, <2>2, <3>2, NilLeaves
  <2> QED
    BY <2>1, <2>2
<1>7. TargetTended'
  BY <1>1, <1>3, TendedFacts, TendedFrom
<1> QED
  BY <1>4, <1>6, <1>7

LEMMA CallbackTended ==
  ASSUME TendedInv, ConnectedOut', NEW c \in Conns, CallbackStep(c)
  PROVE  MarksLeft' /\ EndingOK' /\ TargetTended'
<1>0. ReconnectInv
  BY DEF TendedInv
<1>1. CASE NoteNoLoop(c)
  <2>1. /\ link' = link /\ loop' = loop /\ dialing' = dialing /\ pending' = pending
        /\ retrying' = retrying /\ cancelled' = cancelled /\ noting' = noting \cup {c}
        /\ link[c].key \in Targets /\ link[c].key \notin dialing
    BY <1>1 DEF NoteNoLoop, Callback, Noted, tvars
  <2>2. loop[link[c].key] = "none"
    BY <1>0, <2>1, LoopFacts
  <2>3. MarksLeft' /\ EndingOK'
    BY <2>1, <2>2, TendedFacts DEF MarksLeft, EndingOK
  <2>4. TargetTended'
    BY <2>1, TendedFacts, TendedFrom
  <2> QED
    BY <2>3, <2>4
<1>2. CASE ServeReturns(c)
  <2>1. /\ \A d \in Conns : d # c => link'[d] = link[d]
        /\ link'[c].adm = link[c].adm /\ link'[c].srv = "none" /\ link[c].srv = "left"
        /\ link'[c].key = NoKey \/ link'[c].key = link[c].key
    BY <1>0, <1>2, ServeReturned
  <2>2. NoKey \notin Targets
    BY FreeFields
  <2>3. CASE NotePending(c)
    <3>1. /\ loop' = loop /\ dialing' = dialing /\ pending' = pending \cup {link[c].key}
          /\ retrying' = retrying /\ cancelled' = cancelled /\ noting' = noting
          /\ link[c].key \in dialing
      BY <2>3 DEF NotePending
    <3>2. MarksLeft'
      BY <2>1, <2>2, <3>1, TendedFacts DEF MarksLeft
    <3>3. EndingOK'
      BY <2>1, <3>1, TendedFacts DEF EndingOK
    <3>4. TargetTended'
      BY <2>1, <3>1, TendedFacts, TendedFrom
    <3> QED
      BY <3>2, <3>3, <3>4
  <2>4. CASE NoteSchedules(c)
    <3>1. /\ Scheduled(link[c].key) /\ noting' = noting \ {c} /\ c \in noting
          /\ pending' = pending /\ retrying' = retrying /\ cancelled' = cancelled
      BY <2>4 DEF NoteSchedules
    <3>2. link[c].key \in Targets /\ link[c].adm = "none"
      BY <1>0, <3>1, LoopFacts
    <3>3. /\ dialing \subseteq dialing'
          /\ \A s \in Targets : loop[s] # "none" => loop'[s] = loop[s]
          /\ \A s \in Targets : loop[s] = "none" => loop'[s] \in {"none", "sleeping"}
          /\ cancelled \/ link[c].key \in dialing'
      BY <1>0, <3>1, <3>2, ScheduledFacts
    <3>4. MarksLeft'
      BY <2>1, <3>1, <3>2, TendedFacts DEF MarksLeft
    <3>5. EndingOK'
      BY <2>1, <3>1, <3>3, TendedFacts DEF EndingOK
    <3>6. TargetTended'
      BY <2>1, <3>1, <3>3, TendedFacts, TendedFrom
    <3> QED
      BY <3>4, <3>5, <3>6
  <2>5. CASE NotNoted(c)
    <3>1. /\ loop' = loop /\ dialing' = dialing /\ pending' = pending
          /\ retrying' = retrying /\ cancelled' = cancelled /\ noting' = noting
      BY <2>5 DEF NotNoted, rvars
    <3>2. link[c].key \notin Targets \/ cancelled
      BY <1>0, <2>5, LinkFacts DEF NotNoted, Noted
    <3>3. CASE cancelled
      <4>1. cancelled'
        BY <3>1, <3>3
      <4>2. TargetTended'
        BY <4>1, TendedFrom
      <4> QED
        BY <4>1, <4>2 DEF MarksLeft, EndingOK
    <3>4. CASE link[c].key \notin Targets
      <4>1. MarksLeft'
        BY <2>1, <2>2, <3>1, <3>4, TendedFacts DEF MarksLeft
      <4>2. EndingOK'
        BY <2>1, <3>1, <3>4, TendedFacts DEF EndingOK
      <4>3. TargetTended'
        BY <2>1, <3>1, <3>4, TendedFacts, TendedFrom
      <4> QED
        BY <4>1, <4>2, <4>3
    <3> QED
      BY <3>2, <3>3, <3>4
  <2> QED
    BY <1>1, <2>3, <2>4, <2>5 DEF CallbackStep
<1> QED
  BY <1>1, <1>2 DEF CallbackStep, NotePending, NoteSchedules, NotNoted

LEMMA LoopAloneTended ==
  ASSUME TendedInv, ConnectedOut', NEW t \in Targets, LoopCancelled(t) \/ FinishLoop(t) \/ Retry(t)
  PROVE  MarksLeft' /\ EndingOK' /\ TargetTended'
<1>0. ReconnectInv
  BY DEF TendedInv
<1>1. link' = link /\ noting' = noting /\ cancelled' = cancelled
  BY DEF LoopCancelled, FinishLoop, Retry, tvars
<1>2. CASE LoopCancelled(t)
  <2>1. cancelled'
    BY <1>1, <1>2 DEF LoopCancelled
  <2>2. TargetTended'
    BY <2>1, TendedFrom
  <2> QED
    BY <2>1, <2>2 DEF MarksLeft, EndingOK
<1>3. CASE FinishLoop(t)
  <2>1. /\ loop[t] = "ending" /\ loop' = [loop EXCEPT ![t] = "none"] /\ dialing' = dialing \ {t}
        /\ pending' = pending \ {t}
        /\ retrying' = IF t \in pending THEN [retrying EXCEPT ![t] = @ + 1] ELSE retrying
    BY <1>3 DEF FinishLoop
  <2>2. \A s \in Targets : loop'[s] = IF s = t THEN "none" ELSE loop[s]
    BY <1>0, <2>1, LoopFacts
  <2>3. retrying \in [Targets -> Nat]
    BY <1>0, LoopFacts
  <2>4. \A s \in Targets : retrying'[s] = IF s = t /\ t \in pending THEN retrying[s] + 1
                                                                 ELSE retrying[s]
    BY <2>1, <2>3
  <2>5. MarksLeft'
    <3> SUFFICES ASSUME NEW c \in Conns, link'[c].key \in Targets, link'[c].adm = "returning",
                        link'[c].srv = "none"
                 PROVE  link'[c].key \in pending' \/ cancelled'
      BY DEF MarksLeft
    <3>1. link[c].key \in pending \/ cancelled
      BY <1>1, TendedFacts
    <3>2. loop[link[c].key] = "dialing"
      BY <1>0, <1>1, LoopFacts
    <3>3. link[c].key # t
      BY <2>1, <3>2
    <3> QED
      BY <1>1, <2>1, <3>1, <3>3
  <2>6. EndingOK'
    BY <1>1, <2>1, <2>2, TendedFacts DEF EndingOK
  <2>7. \A s \in Targets : \/ cancelled' \/ s \in dialing' \/ retrying'[s] > 0
                           \/ \E c \in Conns : link'[c].key = s /\ link'[c].srv # "none"
    <3> TAKE s \in Targets
    <3>1. CASE s = t /\ t \in pending
      BY <2>3, <2>4, <3>1
    <3>2. CASE s = t /\ t \notin pending
      BY <1>1, <2>1, <3>2, TendedFacts
    <3>3. CASE s # t
      BY <1>1, <2>1, <2>4, <3>3, TendedFacts
    <3> QED
      BY <3>1, <3>2, <3>3
  <2> QED
    BY <2>5, <2>6, <2>7, TendedFrom
<1>4. CASE Retry(t)
  <2>1. /\ retrying' = [retrying EXCEPT ![t] = @ - 1] /\ Scheduled(t) /\ pending' = pending
    BY <1>4 DEF Retry
  <2>2. /\ dialing \subseteq dialing'
        /\ \A s \in Targets : loop[s] # "none" => loop'[s] = loop[s]
        /\ \A s \in Targets : loop[s] = "none" => loop'[s] \in {"none", "sleeping"}
        /\ cancelled \/ t \in dialing'
    BY <1>0, <2>1, ScheduledFacts
  <2>3. \A s \in Targets : s # t => retrying'[s] = retrying[s]
    BY <1>0, <2>1, LoopFacts
  <2>4. MarksLeft'
    BY <1>1, <2>1, TendedFacts DEF MarksLeft
  <2>5. EndingOK'
    BY <1>1, <2>1, <2>2, TendedFacts DEF EndingOK
  <2>6. TargetTended'
    BY <1>1, <2>1, <2>2, <2>3, TendedFacts, TendedFrom
  <2> QED
    BY <2>4, <2>5, <2>6
<1> QED
  BY <1>2, <1>3, <1>4

LEMMA TendedStep ==
  ASSUME MaxPeers = 0
  PROVE  TendedInv /\ [ReconnectNext]_vars => TendedInv'
<1> SUFFICES ASSUME TendedInv, [ReconnectNext]_vars PROVE TendedInv'
  OBVIOUS
<1>1. ReconnectInv
  BY DEF TendedInv
<1>2. ReconnectInv'
  BY <1>1, ReconnectStep
<1>3. ConnectedOut'
  BY <1>2, ConnectedAlways, PTL
<1>4. MarksLeft' /\ EndingOK' /\ TargetTended'
  <2>1. CASE UNCHANGED vars
    BY <2>1 DEF vars, tvars, rvars, TendedInv, MarksLeft, EndingOK, TargetTended, Tended, Connected
  <2>2. ASSUME NEW t \in Targets, LoopStep(t) PROVE MarksLeft' /\ EndingOK' /\ TargetTended'
    BY <1>3, <2>2, LoopDialsTended, AttemptEndsTended, LoopAloneTended DEF LoopStep
  <2>3. ASSUME NEW c \in Conns, CallbackStep(c) PROVE MarksLeft' /\ EndingOK' /\ TargetTended'
    BY <1>3, <2>3, CallbackTended
  <2>4. ASSUME NEW c \in Conns, TransportStep(c) PROVE MarksLeft' /\ EndingOK' /\ TargetTended'
    <3>1. (\A d \in Conns : Quiet(d)) /\ UNCHANGED rvars
      BY <1>1, <2>4, TransportQuiet
    <3> QED
      BY <3>1, QuietTended
  <2>5. ASSUME Cancel PROVE MarksLeft' /\ EndingOK' /\ TargetTended'
    <3>1. cancelled'
      BY <2>5 DEF Cancel
    <3>2. TargetTended'
      BY <1>3, <3>1, TendedFrom
    <3> QED
      BY <3>1, <3>2 DEF MarksLeft, EndingOK
  <2>6. ASSUME Shutdown PROVE MarksLeft' /\ EndingOK' /\ TargetTended'
    <3>1. (\A d \in Conns : Quiet(d)) /\ UNCHANGED rvars
      BY <1>1, <2>6, ShutdownQuiet DEF Shutdown
    <3> QED
      BY <3>1, QuietTended
  <2> QED
    BY <2>1, <2>2, <2>3, <2>4, <2>5, <2>6 DEF ReconnectNext
<1> QED
  BY <1>2, <1>4 DEF TendedInv

LEMMA TendedBegins == ReconnectInit => TendedInv
<1> SUFFICES ASSUME ReconnectInit PROVE TendedInv
  OBVIOUS
<1>1. ReconnectInv
  BY ReconnectBegins
<1>2. \A c \in Conns : link[c] = FreeLink
  BY DEF ReconnectInit, TransportInit
<1>3. MarksLeft /\ EndingOK
  BY <1>2, FreeFields DEF ReconnectInit, MarksLeft, EndingOK
<1>4. TargetTended
  BY DEF ReconnectInit, TargetTended, Tended
<1> QED
  BY <1>1, <1>3, <1>4 DEF TendedInv

(* Without a limit on peers no configured target is ever forgotten: while  *)
(* the application runs it has a loop, a loop about to be scheduled, or a  *)
(* connection whose disconnect callback is still to come.  With a limit    *)
(* Dial returns nil for a peer that Full refuses, and its loop ends.       *)
THEOREM TargetsAreTended ==
  ASSUME MaxPeers = 0
  PROVE  ReconnectSpec => []TargetTended
<1>1. TendedInv /\ [ReconnectNext]_vars => TendedInv'
  BY TendedStep
<1>2. TendedInv => TargetTended
  BY DEF TendedInv
<1> QED
  BY <1>1, <1>2, TendedBegins, PTL DEF ReconnectSpec
=============================================================================
