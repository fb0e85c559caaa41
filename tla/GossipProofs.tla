---------------------------- MODULE GossipProofs ----------------------------
(***************************************************************************)
(* What the runs of MCGossip show for two nodes, two external peers and    *)
(* two connections, proved for any of them, any MAX_PEERS and any crashes. *)
(* None of the properties is inductive: all of them rest on what a         *)
(* connection says about its two ends.                                     *)
(***************************************************************************)
EXTENDS Gossip, FiniteSetTheorems, SequenceTheorems, TLAPS

(* A connection in use joins two nodes.  A handler has a handshake of this *)
(* program in its hands only when the sender's process has ended, and only *)
(* external peers answer.                                                  *)
Sound(c) ==
    /\ c \in Connection
    /\ c.state # "free" => c.from \in Nodes /\ c.to \in Nodes /\ (c.from # c.to \/ c.port = "api")
    /\ c.open => c.state # "free"
    /\ c.state \in Handling =>
          c.to \in Waters /\ c.port = "gossip" /\ (c.from \in Tolerant \/ ~c.open)
    /\ c.state # "free" /\ c.from \in Waters /\ ~c.open => c.from \in hungUp
    /\ c.reply # "none" => c.to \in Tolerant

AllSound == \A i \in Conns : Sound(conn[i])

(* What a dialer waits for is an open connection of its own.               *)
Dials == \A n \in Waters : \A d \in Dialers : dialing[n][d] # None =>
    /\ conn[dialing[n][d]].from = n /\ conn[dialing[n][d]].open
    /\ \A e \in Dialers : dialing[n][e] = dialing[n][d] => e = d

(* Handshakes that may still be queued at n.                               *)
Hearing(n) == {i \in Conns :
    conn[i].to = n /\ conn[i].state = "sent" /\ conn[i].port = "gossip"}
PendingBound == \A n \in Waters :
    Len(pending[n]) + Cardinality(Hearing(n)) <= MaxPending + Cardinality(Conns)

LinkInv == TypeOK /\ AllSound /\ Dials /\ PendingBound

-----------------------------------------------------------------------------
(* Sets of connections are finite.                                         *)
LEMMA SomeConns ==
    ASSUME NEW S, S \subseteq Conns
    PROVE  IsFiniteSet(S) /\ Cardinality(S) \in Nat /\ Cardinality(Conns) \in Nat
           /\ Cardinality(S) <= Cardinality(Conns)
BY GossipAssumption, FS_Subset, FS_CardinalityType

(* Fewer connections, a smaller number.                                    *)
LEMMA FewerConns ==
    ASSUME NEW S, NEW T, T \subseteq Conns, S \subseteq T
    PROVE  /\ Cardinality(S) \in Nat /\ Cardinality(T) \in Nat
           /\ Cardinality(S) <= Cardinality(T)
BY SomeConns, FS_Subset, FS_CardinalityType

(* One connection changes to c, and no process ends.                       *)
Changes(i, c) == conn' = [conn EXCEPT ![i] = c] /\ UNCHANGED <<hungUp, up, net>>

LEMMA SoundChanges ==
    ASSUME LinkInv, NEW i \in Conns, NEW c, Sound(c), Changes(i, c)
    PROVE  AllSound' /\ conn' \in [Conns -> Connection]
           /\ \A j \in Conns : conn'[j] = IF j = i THEN c ELSE conn[j]
<1>1. conn \in [Conns -> Connection] /\ c \in Connection
  BY DEF LinkInv, TypeOK, Sound
<1>2. \A j \in Conns : conn'[j] = IF j = i THEN c ELSE conn[j]
  BY <1>1 DEF Changes
<1>3. ASSUME NEW j \in Conns PROVE Sound(conn[j])'
  BY <1>2 DEF Changes, LinkInv, AllSound, Sound
<1> QED
  BY <1>1, <1>2, <1>3 DEF Changes, AllSound

(* A dialer is not disturbed by a change that leaves open what it dialed.  *)
LEMMA DialsChanges ==
    ASSUME LinkInv, NEW i \in Conns, NEW c, Sound(c), Changes(i, c), UNCHANGED dialing,
           conn[i].from \in Waters /\ conn[i].open => c.from = conn[i].from /\ c.open
    PROVE  Dials'
<1>1. \A j \in Conns : conn'[j] = IF j = i THEN c ELSE conn[j]
  BY SoundChanges
<1>2. \A n \in Waters, d \in Dialers : dialing[n][d] # None => dialing[n][d] \in Conns
  BY DEF LinkInv, TypeOK
<1> QED
  BY <1>1, <1>2 DEF LinkInv, Dials

(* A handshake that nobody sends again is queued at most once.             *)
LEMMA HearingChanges ==
    ASSUME LinkInv, NEW i \in Conns, NEW c, Sound(c), Changes(i, c),
           c.state = "sent" => conn[i].state = "sent" /\ c.to = conn[i].to /\ c.port = conn[i].port
    PROVE  \A n \in Waters : Hearing(n)' \subseteq Hearing(n)
BY SoundChanges DEF Hearing

(* With room at n, a new handshake keeps the bound.                        *)
LEMMA RoomBound ==
    ASSUME LinkInv, NEW n \in Waters, Room(n), UNCHANGED pending
    PROVE  (Len(pending[n]) + Cardinality(Hearing(n)) <= MaxPending + Cardinality(Conns))'
<1>1. Hearing(n)' \subseteq Conns
  BY DEF Hearing
<1>2. pending[n] \in Seq(Nodes) /\ Len(pending[n]) < MaxPending /\ Len(pending[n]) \in Nat
  BY DEF LinkInv, TypeOK, Room
<1> QED
  BY <1>1, <1>2, SomeConns, GossipAssumption

(* Fewer handshakes and the same queue keep it, too.                       *)
LEMMA FewerBound ==
    ASSUME LinkInv, NEW n \in Waters, Hearing(n)' \subseteq Hearing(n),
           pending'[n] \in Seq(Nodes), Len(pending'[n]) <= Len(pending[n])
    PROVE  (Len(pending[n]) + Cardinality(Hearing(n)) <= MaxPending + Cardinality(Conns))'
<1>1. Hearing(n) \subseteq Conns
  BY DEF Hearing
<1>2. /\ Cardinality(Hearing(n)') \in Nat /\ Cardinality(Hearing(n)) \in Nat
      /\ Cardinality(Hearing(n)') <= Cardinality(Hearing(n))
  BY <1>1, FewerConns
<1>3. Len(pending[n]) \in Nat /\ Len(pending'[n]) \in Nat
  BY DEF LinkInv, TypeOK
<1>4. Len(pending[n]) + Cardinality(Hearing(n)) <= MaxPending + Cardinality(Conns)
  BY DEF LinkInv, PendingBound
<1> QED
  BY <1>2, <1>3, <1>4, SomeConns, GossipAssumption
-----------------------------------------------------------------------------
(* The step.                                                               *)

Tables ==
    /\ net \in Nets /\ up \subseteq Waters \cap net /\ hungUp \subseteq Waters
    /\ peers \in [Waters -> [Nodes -> Origins]] /\ \A n \in Waters : peers[n][n] = "none"
    /\ groups \in [Waters -> BOOLEAN]
Queues == pending \in [Waters -> Seq(Nodes)]
Dialing == dialing \in [Waters -> [Dialers -> Conns \cup {None}]]

LEMMA Assemble ==
    ASSUME Tables', Queues', Dialing', conn' \in [Conns -> Connection],
           AllSound', Dials', PendingBound'
    PROVE  LinkInv'
<1>1. ASSUME NEW n \in Waters
      PROVE  (pending[n] \in Seq(Nodes) /\ Len(pending[n]) <= MaxPending + Cardinality(Conns))'
  <2>1. pending'[n] \in Seq(Nodes) /\ Len(pending'[n]) \in Nat
    BY DEF Queues
  <2>2. Hearing(n)' \subseteq Conns
    BY DEF Hearing
  <2>3. Cardinality(Hearing(n)') \in Nat /\ Cardinality(Conns) \in Nat
    BY <2>2, SomeConns
  <2>4. Len(pending'[n]) + Cardinality(Hearing(n)') <= MaxPending + Cardinality(Conns)
    BY DEF PendingBound
  <2> QED
    BY <2>1, <2>3, <2>4, GossipAssumption
<1> QED
  BY <1>1 DEF Tables, Queues, Dialing, LinkInv, TypeOK

LEMMA Parts ==
    ASSUME LinkInv
    PROVE  Tables /\ Queues /\ Dialing /\ AllSound /\ Dials /\ PendingBound
           /\ conn \in [Conns -> Connection]
<1>1. ASSUME TypeOK PROVE Tables /\ Dialing /\ conn \in [Conns -> Connection]
  BY <1>1 DEF TypeOK, Tables, Dialing
<1>2. Queues
  BY DEF LinkInv, TypeOK, Queues
<1> QED
  BY <1>1, <1>2 DEF LinkInv

LEMMA Apart == Waters \cap Tolerant = {} /\ Nodes = Waters \cup Tolerant /\ None \notin Nodes /\ None \notin Conns
BY GossipAssumption DEF Nodes

(* Steps of the tables alone.                                              *)
LEMMA TableSteps ==
    ASSUME LinkInv, Tables', Queues', UNCHANGED <<conn, dialing, hungUp>>,
           \A n \in Waters : Len(pending'[n]) <= Len(pending[n])
    PROVE  LinkInv'
<1>1. /\ Tables /\ Queues /\ Dialing /\ AllSound /\ Dials /\ PendingBound
      /\ conn \in [Conns -> Connection]
  BY Parts
<1>2. AllSound' /\ Dials' /\ Dialing'
  BY <1>1 DEF AllSound, Sound, Dials, Dialing
<1>3. \A n \in Waters : Hearing(n)' \subseteq Hearing(n) /\ pending'[n] \in Seq(Nodes)
  BY DEF Hearing, Queues
<1>4. PendingBound'
  BY <1>3, FewerBound DEF PendingBound
<1> QED
  BY <1>1, <1>2, <1>4, Assemble

(* Announcements, the operator and the start of a process.                 *)
LEMMA QuietStep ==
    ASSUME LinkInv, NEW n \in Waters,
           \/ AddGroup(n) \/ Approve(n) \/ Reject(n) \/ Start(n)
           \/ \E m \in Nodes : Announce(m, n)
    PROVE  LinkInv'
<1>0. Tables /\ Queues
  BY Parts
<1>1. CASE AddGroup(n)
  BY <1>0, <1>1, TableSteps DEF AddGroup, Tables, Queues
<1>2. CASE Approve(n) \/ Reject(n)
  <2>1. PICK k \in DOMAIN pending[n] : pending' = [pending EXCEPT ![n] = RemoveAt(@, k)]
    BY <1>2 DEF Approve, Reject
  <2>2. pending[n] \in Seq(Nodes)
    BY <1>0 DEF Queues
  <2>3. RemoveAt(pending[n], k) \in Seq(Nodes) /\ Len(RemoveAt(pending[n], k)) <= Len(pending[n])
    BY <2>2 DEF RemoveAt
  <2>4. Queues' /\ \A m \in Waters : Len(pending'[m]) <= Len(pending[m])
    BY <1>0, <2>1, <2>3 DEF Queues
  <2>5. Tables'
    BY <1>0, <1>2 DEF Approve, Reject, Tables
  <2> QED
    BY <1>2, <2>4, <2>5, TableSteps DEF Approve, Reject
<1>3. CASE Start(n)
  <2>1. Tables' /\ Queues'
    BY <1>0, <1>3 DEF Start, Tables, Queues
  <2> QED
    BY <1>0, <1>3, <2>1, TableSteps DEF Start, Queues
<1>4. ASSUME NEW m \in Nodes, Announce(m, n) PROVE LinkInv'
  <2>1. Tables' /\ Queues'
    BY <1>0, <1>4 DEF Announce, Tables, Queues, Origins
  <2> QED
    BY <1>0, <1>4, <2>1, TableSteps DEF Announce, Queues
<1> QED
  BY <1>1, <1>2, <1>3, <1>4

(* Steps of one connection that ends or carries on towards the same end,   *)
(* while the queues do not grow.                                           *)
LEMMA OneStep ==
    ASSUME LinkInv, NEW i \in Conns, NEW c, Sound(c), Changes(i, c), UNCHANGED dialing,
           conn[i].from \in Waters /\ conn[i].open => c.from = conn[i].from /\ c.open,
           c.state = "sent" => conn[i].state = "sent" /\ c.to = conn[i].to /\ c.port = conn[i].port,
           Tables', UNCHANGED pending
    PROVE  LinkInv'
<1>1. Tables /\ Queues /\ Dialing /\ PendingBound
  BY Parts
<1>2. AllSound' /\ conn' \in [Conns -> Connection]
  BY SoundChanges
<1>3. Dials'
  BY DialsChanges
<1>4. \A n \in Waters : Hearing(n)' \subseteq Hearing(n)
  BY HearingChanges
<1>5. PendingBound'
  BY <1>1, <1>4, FewerBound DEF PendingBound, Queues
<1> QED
  BY <1>1, <1>2, <1>3, <1>5, Assemble DEF Queues, Dialing

(* A free connection is sound, and so is one that just sent a handshake.   *)
LEMMA FreeSound == Sound(Free)
BY DEF Sound, Free, Connection, Handling

LEMMA SentSound ==
    ASSUME NEW n \in Nodes, NEW m \in Nodes, NEW p \in {"gossip", "api"}, n # m \/ p = "api"
    PROVE  Sound([from |-> n, to |-> m, port |-> p,
                  open |-> TRUE, state |-> "sent", reply |-> "none"])
BY DEF Sound, Connection, Handling

(* A connection that advances to another state keeps its ends.             *)
To(c, s) == [c EXCEPT !.state = s]

LEMMA Advanced ==
    ASSUME NEW c, Sound(c), c.state # "free", NEW s \in {"sent", "answered", "gone"} \cup Handling,
           s \in Handling => c.to \in Waters /\ c.port = "gossip" /\ (c.from \in Tolerant \/ ~c.open)
    PROVE  /\ Sound(To(c, s)) /\ To(c, s).state = s
           /\ To(c, s).from = c.from /\ To(c, s).to = c.to
           /\ To(c, s).port = c.port /\ To(c, s).open = c.open
BY DEF Sound, Connection, To, Handling

(* The next line is awaited, or the connection is over.                    *)
LEMMA NextLineStep ==
    ASSUME LinkInv, NEW i \in Conns, NextLine(i), UNCHANGED <<net, up, dialing, hungUp>>,
           conn[i].state # "free", Tables', UNCHANGED pending
    PROVE  LinkInv'
<1>1. Sound(conn[i])
  BY DEF LinkInv, AllSound
<1>2. CASE conn[i].open
  <2>1. PICK c : c = To(conn[i], "answered")
    OBVIOUS
  <2>2. Sound(c) /\ c.state = "answered" /\ c.from = conn[i].from /\ c.open = conn[i].open
    BY <1>1, <2>1, Advanced DEF Handling
  <2>3. Changes(i, c)
    BY <1>2, <2>1 DEF NextLine, Changes, To
  <2> QED
    BY <1>2, <2>2, <2>3, OneStep
<1>3. CASE ~conn[i].open
  <2>1. Changes(i, Free)
    BY <1>3 DEF NextLine, Changes
  <2> QED
    BY <1>3, <2>1, FreeSound, OneStep DEF Free
<1> QED
  BY <1>2, <1>3

(* The handlers.                                                           *)
LEMMA HandlerStep ==
    ASSUME LinkInv, NEW i \in Conns, Handler(i)
    PROVE  LinkInv'
<1>0. /\ Tables /\ Queues /\ Dialing /\ PendingBound /\ Sound(conn[i])
      /\ conn \in [Conns -> Connection] /\ conn[i] \in Connection
  BY Parts DEF AllSound
<1>1. ASSUME NEW s \in Handling, conn' = [conn EXCEPT ![i].state = s],
             UNCHANGED <<net, up, pending, dialing, hungUp>>, Tables',
             conn[i].to \in Waters, conn[i].port = "gossip", conn[i].from \in Tolerant \/ ~conn[i].open,
             conn[i].state # "free"
      PROVE  LinkInv'
  <2>1. PICK c : c = To(conn[i], s)
    OBVIOUS
  <2>2. Sound(c) /\ c.state = s /\ c.from = conn[i].from /\ c.open = conn[i].open
    BY <1>0, <1>1, <2>1, Advanced
  <2>3. Changes(i, c)
    BY <1>0, <1>1, <2>1 DEF Changes, To
  <2>4. c.state # "sent"
    BY <2>2 DEF Handling
  <2> QED
    BY <1>1, <2>2, <2>3, <2>4, OneStep
<1>2. CASE GroupsCheck(i)
  <2>0. PICK n : n = conn[i].to
    OBVIOUS
  <2>1. /\ n \in Waters /\ conn[i].state = "sent" /\ conn[i].from \in Nodes /\ conn[i].port = "gossip"
        /\ conn[i].from \in Tolerant \/ ~conn[i].open
    BY <1>0, <1>2, <2>0 DEF GroupsCheck, Readable, Sound, Tables
  <2>2. CASE ~groups[n]
    BY <1>0, <1>1, <1>2, <2>0, <2>1, <2>2 DEF GroupsCheck, Tables, Handling
  <2>3. CASE groups[n]
    <3>1. PICK c : c = To(conn[i], "write")
      OBVIOUS
    <3>2. /\ Sound(c) /\ c.state = "write" /\ Changes(i, c)
          /\ c.from = conn[i].from /\ c.open = conn[i].open
      <4>1. Sound(c) /\ c.state = "write" /\ c.from = conn[i].from /\ c.open = conn[i].open
        BY <1>0, <2>0, <2>1, <3>1, Advanced DEF Handling
      <4>2. Changes(i, c)
        BY <1>2, <2>0, <2>3, <3>1 DEF GroupsCheck, Changes, To
      <4> QED
        BY <4>1, <4>2
    <3>3. AllSound' /\ conn' \in [Conns -> Connection] /\ Dials'
      BY <1>2, <3>1, <3>2, SoundChanges, DialsChanges DEF GroupsCheck
    <3>4. \A m \in Waters : Hearing(m)' \subseteq Hearing(m)
      BY <3>1, <3>2, HearingChanges
    <3>5. Hearing(n)' \subseteq Hearing(n) \ {i} /\ i \in Hearing(n)
      BY <2>0, <2>1, <3>1, <3>2, <3>4, SoundChanges DEF Hearing
    <3>6. /\ Queues' /\ \A m \in Waters \ {n} : pending'[m] = pending[m]
          /\ Len(pending'[n]) = Len(pending[n]) + 1
      <4>1. pending' = [pending EXCEPT ![n] = Append(pending[n], conn[i].from)]
        BY <1>2, <2>0, <2>3 DEF GroupsCheck
      <4>2. pending[n] \in Seq(Nodes)
        BY <1>0, <2>1 DEF Queues
      <4>3. /\ Append(pending[n], conn[i].from) \in Seq(Nodes)
            /\ Len(Append(pending[n], conn[i].from)) = Len(pending[n]) + 1
        BY <2>1, <4>2, AppendProperties
      <4> QED
        BY <1>0, <2>1, <4>1, <4>3 DEF Queues
    <3>7. (Len(pending[n]) + Cardinality(Hearing(n)) <= MaxPending + Cardinality(Conns))'
      <4>1. Hearing(n) \subseteq Conns
        BY DEF Hearing
      <4>2. IsFiniteSet(Hearing(n)) /\ Cardinality(Hearing(n) \ {i}) = Cardinality(Hearing(n)) - 1
        BY <3>5, <4>1, SomeConns, FS_RemoveElement
      <4>3. /\ Cardinality(Hearing(n)') \in Nat /\ Cardinality(Hearing(n)) \in Nat
            /\ Cardinality(Hearing(n)') <= Cardinality(Hearing(n)) - 1
        BY <3>5, <4>1, <4>2, FewerConns
      <4>4. Len(pending[n]) \in Nat /\ Cardinality(Conns) \in Nat
        BY <1>0, <2>1, SomeConns DEF Queues
      <4>5. Len(pending[n]) + Cardinality(Hearing(n)) <= MaxPending + Cardinality(Conns)
        BY <1>0, <2>1 DEF PendingBound
      <4> QED
        BY <3>6, <4>3, <4>4, <4>5, GossipAssumption
    <3>8. PendingBound'
      BY <2>1, <3>4, <3>6, <3>7, FewerBound DEF PendingBound, Queues
    <3>9. Tables' /\ Dialing'
      BY <1>0, <1>2 DEF GroupsCheck, Tables, Dialing
    <3> QED
      BY <3>3, <3>6, <3>8, <3>9, Assemble
  <2> QED
    BY <2>2, <2>3
<1>3. CASE CapacityCheck(i)
  <2>1. /\ conn[i].to \in Waters /\ conn[i].state = "capacity" /\ conn[i].port = "gossip"
        /\ conn[i].from \in Tolerant \/ ~conn[i].open
    BY <1>0, <1>3 DEF CapacityCheck, Sound, Handling
  <2>2. CASE Cardinality(Known(conn[i].to)) >= MaxPeers
    BY <1>0, <1>3, <2>1, <2>2, NextLineStep DEF CapacityCheck, Tables
  <2>3. CASE ~(Cardinality(Known(conn[i].to)) >= MaxPeers)
    BY <1>0, <1>1, <1>3, <2>1, <2>3 DEF CapacityCheck, Tables, Handling
  <2> QED
    BY <2>2, <2>3
<1>4. CASE Insert(i)
  <2>1. /\ conn[i].to \in Waters /\ conn[i].from \in Nodes /\ conn[i].from # conn[i].to
        /\ conn[i].port = "gossip" /\ conn[i].state # "free"
        /\ conn[i].from \in Tolerant \/ ~conn[i].open
    BY <1>0, <1>4 DEF Insert, Sound, Handling
  <2>2. Tables'
    BY <1>0, <1>4, <2>1 DEF Insert, Tables, Origins
  <2> QED
    BY <1>1, <1>4, <2>1, <2>2 DEF Insert, Handling
<1>5. CASE Ack(i)
  BY <1>0, <1>5, NextLineStep DEF Ack, Tables
<1>6. CASE WriteFails(i)
  <2>1. Changes(i, Free) /\ Tables'
    BY <1>0, <1>6 DEF WriteFails, Changes, Tables
  <2> QED
    BY <1>6, <2>1, FreeSound, OneStep DEF WriteFails, Free
<1>7. CASE ApiEnds(i)
  <2>1. Changes(i, Free) /\ Tables'
    BY <1>0, <1>7 DEF ApiEnds, Changes, Tables
  <2> QED
    BY <1>7, <2>1, FreeSound, OneStep DEF ApiEnds, Free
<1> QED
  BY <1>2, <1>3, <1>4, <1>5, <1>6, <1>7 DEF Handler

(* The dialers.                                                            *)

(* A call opens a connection of its own.                                   *)
LEMMA OpenStep ==
    ASSUME LinkInv, NEW i \in Conns, NEW n \in Nodes, NEW m \in Nodes,
           NEW p \in {"gossip", "api"}, n # m \/ p = "api", Open(i, n, m, p),
           p = "api" \/ Room(m), UNCHANGED <<net, up, pending, hungUp>>
    PROVE  /\ AllSound' /\ PendingBound' /\ conn' \in [Conns -> Connection]
           /\ conn'[i].from = n /\ conn'[i].open
           /\ \A k \in Waters : \A d \in Dialers : dialing[k][d] # i
           /\ \A j \in Conns \ {i} : conn'[j] = conn[j]
<1>0. /\ Queues /\ Dialing /\ PendingBound /\ Sound(conn[i]) /\ Dials
      /\ conn \in [Conns -> Connection]
  BY Parts DEF AllSound
<1>1. PICK c : c = [from |-> n, to |-> m, port |-> p,
                    open |-> TRUE, state |-> "sent", reply |-> "none"]
  OBVIOUS
<1>2. Sound(c) /\ Changes(i, c)
  BY <1>1, SentSound DEF Changes, Open
<1>3. /\ AllSound' /\ conn' \in [Conns -> Connection]
      /\ \A j \in Conns : conn'[j] = IF j = i THEN c ELSE conn[j]
  BY <1>2, SoundChanges
<1>4. ~conn[i].open /\ i # None
  BY <1>0, Apart DEF Open, Sound
<1>5. \A k \in Waters : \A d \in Dialers : dialing[k][d] # i
  BY <1>0, <1>4 DEF Dials
<1>6. ASSUME NEW k \in Waters
      PROVE (Len(pending[k]) + Cardinality(Hearing(k)) <= MaxPending + Cardinality(Conns))'
  <2>1. CASE k = m /\ p = "gossip"
    BY <2>1, RoomBound
  <2>2. CASE ~(k = m /\ p = "gossip")
    <3>1. Hearing(k)' \subseteq Hearing(k)
      BY <1>1, <1>3, <2>2 DEF Hearing
    <3> QED
      BY <1>0, <3>1, FewerBound DEF Queues
  <2> QED
    BY <2>1, <2>2
<1> QED
  BY <1>1, <1>3, <1>5, <1>6 DEF PendingBound

(* A dialer of n takes a connection that no dialer has.                    *)
LEMMA DialStep ==
    ASSUME LinkInv, NEW n \in Waters, NEW d \in Dialers, NEW i \in Conns,
           dialing' = [dialing EXCEPT ![n][d] = i],
           conn'[i].from = n, conn'[i].open,
           \A k \in Waters : \A e \in Dialers : dialing[k][e] # i,
           \A j \in Conns \ {i} : conn'[j] = conn[j]
    PROVE  Dialing' /\ Dials'
<1>0. Dialing /\ Dials
  BY Parts
<1>1. \A k \in Waters : \A e \in Dialers :
          dialing'[k][e] = IF k = n /\ e = d THEN i ELSE dialing[k][e]
  BY <1>0 DEF Dialing
<1>2. Dialing'
  BY <1>0 DEF Dialing
<1>3. \A k \in Waters : \A e \in Dialers : dialing[k][e] \in Conns \cup {None}
  BY <1>0 DEF Dialing
<1>4. Dials'
  BY <1>0, <1>1, <1>3, Apart DEF Dials
<1> QED
  BY <1>2, <1>4

LEMMA ConnectStep ==
    ASSUME LinkInv, NEW n \in Waters, Connect(n) \/ PeriodicSync(n)
    PROVE  LinkInv'
<1>0. Tables /\ Queues /\ Dialing
  BY Parts
<1>1. PICK m \in Nodes, i \in Conns, p \in {"gossip", "api"}, d \in Dialers :
         /\ Open(i, n, m, p) /\ (p = "api" \/ (n # m /\ Room(m)))
         /\ dialing' = [dialing EXCEPT ![n][d] = i]
         /\ UNCHANGED <<net, up, peers, groups, pending, hungUp>>
  <2>1. CASE Connect(n)
    <3>1. "main" \in Dialers
      BY DEF Dialers
    <3> QED
      BY <2>1, <3>1 DEF Connect
  <2>2. CASE PeriodicSync(n)
    <3>1. "periodic" \in Dialers
      BY DEF Dialers
    <3>2. \A m \in Nodes : {n} \cup ({m} \cap Tolerant) \subseteq Nodes
      BY Apart
    <3> QED
      BY <2>2, <3>1, <3>2 DEF PeriodicSync
  <2> QED
    BY <2>1, <2>2
<1>2. n \in Nodes
  BY Apart
<1>3. /\ AllSound' /\ PendingBound' /\ conn' \in [Conns -> Connection]
      /\ conn'[i].from = n /\ conn'[i].open
      /\ \A k \in Waters : \A e \in Dialers : dialing[k][e] # i
      /\ \A j \in Conns \ {i} : conn'[j] = conn[j]
  BY <1>1, <1>2, OpenStep
<1>4. Dialing' /\ Dials'
  BY <1>1, <1>3, DialStep
<1>5. Tables' /\ Queues'
  BY <1>0, <1>1 DEF Tables, Queues
<1> QED
  BY <1>3, <1>4, <1>5, Assemble

(* A call returns and gives its connection up.                             *)
LEMMA ClientStep ==
    ASSUME LinkInv, NEW n \in Waters, NEW d \in Dialers, Client(n, d)
    PROVE  LinkInv'
<1>0. /\ Tables /\ Queues /\ Dialing /\ PendingBound /\ Dials /\ AllSound
      /\ conn \in [Conns -> Connection]
  BY Parts
<1>1. PICK i \in Conns :
         /\ i = dialing[n][d] /\ i # None /\ conn' = [conn EXCEPT ![i] = Free]
         /\ dialing' = [dialing EXCEPT ![n][d] = None]
         /\ UNCHANGED <<net, up, groups, pending, hungUp>>
         /\ peers' = peers \/ /\ conn[i].reply # "none"
                              /\ peers' = [peers EXCEPT ![n][conn[i].to] = "dialed"]
  BY <1>0 DEF Client, ClientReads, ClientEof, Return, Dialing
<1>2. Sound(conn[i]) /\ conn[i].from = n /\ conn[i].open
  BY <1>0, <1>1 DEF AllSound, Dials
<1>3. Changes(i, Free)
  BY <1>1 DEF Changes
<1>4. /\ AllSound' /\ conn' \in [Conns -> Connection]
      /\ \A j \in Conns : conn'[j] = IF j = i THEN Free ELSE conn[j]
  BY <1>3, FreeSound, SoundChanges
<1>5. \A k \in Waters : Hearing(k)' \subseteq Hearing(k)
  BY <1>4 DEF Hearing, Free
<1>6. PendingBound'
  BY <1>0, <1>1, <1>5, FewerBound DEF PendingBound, Queues
<1>7. Dialing' /\ \A k \in Waters : \A e \in Dialers :
          dialing'[k][e] = IF k = n /\ e = d THEN None ELSE dialing[k][e]
  BY <1>0, <1>1 DEF Dialing
<1>8. \A k \in Waters : \A e \in Dialers : dialing'[k][e] # None =>
          dialing[k][e] = dialing'[k][e] /\ dialing[k][e] \in Conns \ {i}
  BY <1>0, <1>1, <1>2, <1>7, Apart DEF Dials, Dialing
<1>9. Dials'
  BY <1>0, <1>4, <1>8 DEF Dials
<1>10. conn[i].reply # "none" => conn[i].to \in Nodes /\ conn[i].to # n
  BY <1>2, Apart DEF Sound
<1>11. peers' \in [Waters -> [Nodes -> Origins]] /\ \A k \in Waters : peers'[k][k] = "none"
  <2>1. CASE conn[i].reply # "none" /\ peers' = [peers EXCEPT ![n][conn[i].to] = "dialed"]
    BY <1>0, <1>10, <2>1 DEF Tables, Origins
  <2> QED
    BY <1>0, <1>1, <2>1 DEF Tables
<1>12. Tables' /\ Queues'
  BY <1>0, <1>1, <1>11 DEF Tables, Queues
<1> QED
  BY <1>4, <1>6, <1>7, <1>9, <1>12, Assemble

(* External peers.                                                         *)
LEMMA ExternalStep ==
    ASSUME LinkInv, NEW i \in Conns,
           \/ \E m \in Tolerant, n \in Waters : ExternalConnects(i, m, n)
           \/ ExternalReads(i) \/ ExternalSendsAgain(i)
           \/ ExternalAnswers(i) \/ ExternalHangsUp(i)
    PROVE  LinkInv'
<1>0. /\ Tables /\ Queues /\ Dialing /\ PendingBound /\ Dials /\ Sound(conn[i])
      /\ conn \in [Conns -> Connection]
  BY Parts DEF AllSound
<1>1. ASSUME UNCHANGED <<net, up, peers, groups, pending, dialing, hungUp>>
      PROVE  Tables' /\ Queues' /\ Dialing'
  BY <1>0, <1>1 DEF Tables, Queues, Dialing
<1>2. ASSUME NEW m \in Tolerant, NEW n \in Waters, ExternalConnects(i, m, n) PROVE LinkInv'
  <2>1. m \in Nodes /\ n \in Nodes /\ m # n
    BY Apart
  <2>2. Open(i, m, n, "gossip") /\ Room(n) /\ UNCHANGED <<net, up, peers, groups, pending, dialing, hungUp>>
    BY <1>2 DEF ExternalConnects
  <2>3. /\ AllSound' /\ PendingBound' /\ conn' \in [Conns -> Connection]
        /\ \A k \in Waters : \A e \in Dialers : dialing[k][e] # i
        /\ \A j \in Conns \ {i} : conn'[j] = conn[j]
    BY <2>1, <2>2, OpenStep
  <2>4. Dials'
    BY <1>0, <2>2, <2>3 DEF Dials, Dialing
  <2> QED
    BY <1>1, <2>2, <2>3, <2>4, Assemble
<1>3. CASE ExternalSendsAgain(i)
  <2>1. PICK c : c = To(conn[i], "sent")
    OBVIOUS
  <2>2. /\ Sound(c) /\ c.from = conn[i].from /\ c.to = conn[i].to /\ c.open = conn[i].open
        /\ conn[i].from \in Tolerant /\ conn[i].state = "answered" /\ Room(conn[i].to)
    BY <1>0, <1>3, <2>1, Advanced DEF ExternalSendsAgain, Handling
  <2>3. Changes(i, c) /\ UNCHANGED <<net, up, peers, groups, pending, dialing, hungUp>>
    BY <1>3, <2>1 DEF ExternalSendsAgain, Changes, To
  <2>4. /\ AllSound' /\ conn' \in [Conns -> Connection]
        /\ \A j \in Conns : conn'[j] = IF j = i THEN c ELSE conn[j]
    BY <2>2, <2>3, SoundChanges
  <2>5. Dials'
    BY <2>2, <2>3, DialsChanges
  <2>6. ASSUME NEW k \in Waters
        PROVE (Len(pending[k]) + Cardinality(Hearing(k)) <= MaxPending + Cardinality(Conns))'
    <3>1. CASE k = conn[i].to
      BY <2>2, <2>3, <3>1, RoomBound
    <3>2. CASE k # conn[i].to
      <4>1. Hearing(k)' \subseteq Hearing(k)
        BY <2>2, <2>4, <3>2 DEF Hearing
      <4> QED
        BY <1>0, <2>3, <4>1, FewerBound DEF Queues
    <3> QED
      BY <3>1, <3>2
  <2> QED
    BY <1>1, <2>3, <2>4, <2>5, <2>6, Assemble DEF PendingBound
<1>4. CASE ExternalAnswers(i)
  <2>1. PICK r \in {"ack", "denied", "awaiting"} :
           conn' = [conn EXCEPT ![i].state = "answered", ![i].reply = r]
    BY <1>4 DEF ExternalAnswers
  <2>2. PICK c : c = [conn[i] EXCEPT !.state = "answered", !.reply = r]
    OBVIOUS
  <2>3. conn[i].to \in Tolerant /\ conn[i].state = "sent"
    BY <1>4 DEF ExternalAnswers
  <2>4. /\ c \in Connection /\ c.state = "answered" /\ c.reply = r /\ c.from = conn[i].from
        /\ c.to = conn[i].to /\ c.open = conn[i].open /\ c.port = conn[i].port
    BY <1>0, <2>2 DEF Connection
  <2>5. Sound(c)
    BY <1>0, <2>3, <2>4 DEF Sound, Handling
  <2>6. Changes(i, c) /\ UNCHANGED <<net, up, peers, groups, pending, dialing, hungUp>>
    BY <1>0, <1>4, <2>1, <2>2 DEF ExternalAnswers, Changes
  <2> QED
    BY <1>1, <2>4, <2>5, <2>6, OneStep
<1>5. CASE ExternalHangsUp(i)
  <2>0. UNCHANGED <<net, up, peers, groups, pending, dialing, hungUp>> /\ conn[i].open
        /\ conn[i].state # "free"
    BY <1>0, <1>5 DEF ExternalHangsUp, Sound
  <2>1. CASE conn[i].from \in Tolerant /\ conn' = [conn EXCEPT ![i] = Free]
    <3>1. Changes(i, Free)
      BY <2>0, <2>1 DEF Changes
    <3> QED
      BY <1>1, <2>0, <2>1, <3>1, FreeSound, OneStep, Apart DEF Free
  <2>2. CASE conn[i].from \in Tolerant /\ conn' = [conn EXCEPT ![i] = [conn[i] EXCEPT !.open = FALSE]]
    <3>1. PICK c : c = [conn[i] EXCEPT !.open = FALSE]
      OBVIOUS
    <3>2. /\ c \in Connection /\ c.from = conn[i].from /\ c.to = conn[i].to /\ c.state = conn[i].state
          /\ c.open = FALSE /\ c.port = conn[i].port /\ c.reply = conn[i].reply
      BY <1>0, <3>1 DEF Sound, Connection
    <3>3. Sound(c) /\ Changes(i, c)
      BY <1>0, <2>0, <2>2, <3>1, <3>2, Apart DEF Sound, Changes
    <3> QED
      BY <1>1, <2>0, <2>2, <3>2, <3>3, OneStep, Apart
  <2>3. CASE conn' = [conn EXCEPT ![i].state = "gone"]
    <3>1. PICK c : c = To(conn[i], "gone")
      OBVIOUS
    <3>2. Sound(c) /\ c.state = "gone" /\ c.from = conn[i].from /\ c.open = conn[i].open
      BY <1>0, <2>0, <3>1, Advanced DEF Handling
    <3>3. Changes(i, c)
      BY <2>0, <2>3, <3>1 DEF Changes, To
    <3> QED
      BY <1>1, <2>0, <3>2, <3>3, OneStep
  <2> QED
    BY <1>5, <2>1, <2>2, <2>3 DEF ExternalHangsUp
<1>6. CASE ExternalReads(i)
  BY <1>1, <1>6, NextLineStep DEF ExternalReads
<1> QED
  BY <1>2, <1>3, <1>4, <1>5, <1>6

(* A process ends.                                                         *)

(* What Cut leaves of a connection when the process of n ends: its other   *)
(* end keeps what it had, and learns of the end when it reads.             *)
LEMMA CutSound ==
    ASSUME NEW c, Sound(c), NEW n \in Waters, hungUp' = hungUp \cup {n}
    PROVE  /\ Sound(Cut(n, c))'
           /\ Cut(n, c).state = "sent" =>
                 c.state = "sent" /\ Cut(n, c).to = c.to /\ Cut(n, c).port = c.port
           /\ c.open /\ c.from \in Waters \ {n} => Cut(n, c).open /\ Cut(n, c).from = c.from
           /\ Cut(n, c).state = "insert" => Cut(n, c).to # n /\ c.state = "insert" /\ Cut(n, c).to = c.to
<1>1. CASE c.from = n /\ c.to \in Waters \ {n} /\ c.state \in {"sent"} \cup Handling
  BY <1>1 DEF Cut, Sound, Connection, Handling
<1>2. CASE c.to = n /\ c.open /\ c.from \in Waters \ {n}
  BY <1>2 DEF Cut, Sound, Connection, Handling
<1>3. CASE n \notin {c.from, c.to}
  BY <1>3 DEF Cut, Sound, Connection, Handling
<1>4. CASE /\ ~(c.from = n /\ c.to \in Waters \ {n} /\ c.state \in {"sent"} \cup Handling)
           /\ ~(c.to = n /\ c.open /\ c.from \in Waters \ {n})
           /\ n \in {c.from, c.to}
  <2>1. Cut(n, c) = Free
    BY <1>4 DEF Cut
  <2> QED
    BY <1>4, <2>1, FreeSound DEF Free, Sound, Connection, Handling
<1> QED
  BY <1>1, <1>2, <1>3, <1>4

LEMMA StopStep ==
    ASSUME LinkInv, NEW n \in Waters, Stop(n)
    PROVE  LinkInv'
<1>0. /\ Tables /\ Queues /\ Dialing /\ PendingBound /\ Dials /\ AllSound
      /\ conn \in [Conns -> Connection]
  BY Parts
<1>1. \A i \in Conns : conn'[i] = Cut(n, conn[i]) /\ Sound(conn[i])
  BY <1>0 DEF Stop, AllSound
<1>2. hungUp' = hungUp \cup {n}
  BY DEF Stop
<1>3. AllSound'
  BY <1>1, <1>2, CutSound DEF AllSound
<1>4. conn' \in [Conns -> Connection]
  <2>1. \A i \in Conns : conn'[i] \in Connection
    BY <1>3 DEF AllSound, Sound
  <2> QED
    BY <2>1 DEF Stop
<1>5. \A k \in Waters : Hearing(k)' \subseteq Hearing(k)
  BY <1>1, <1>2, CutSound DEF Hearing
<1>6. /\ Queues' /\ \A k \in Waters : Len(pending'[k]) <= Len(pending[k])
  BY <1>0 DEF Stop, Queues
<1>7. PendingBound'
  BY <1>5, <1>6, FewerBound DEF PendingBound, Queues
<1>8. Tables'
  <2>1. [m \in Nodes |-> "none"] \in [Nodes -> Origins]
    BY DEF Origins
  <2>2. peers' \in [Waters -> [Nodes -> Origins]] /\ \A k \in Waters : peers'[k][k] = "none"
    BY <1>0, <2>1, Apart DEF Tables, Stop
  <2> QED
    BY <1>0, <2>2 DEF Tables, Stop
<1>9. Dialing' /\ \A k \in Waters : \A d \in Dialers :
          dialing'[k][d] = IF k = n THEN None ELSE dialing[k][d]
  BY <1>0 DEF Stop, Dialing
<1>10. \A k \in Waters : \A d \in Dialers : dialing'[k][d] # None =>
           /\ k # n /\ dialing'[k][d] = dialing[k][d] /\ dialing[k][d] \in Conns
  BY <1>0, <1>9 DEF Dialing
<1>11. Dials'
  BY <1>0, <1>1, <1>2, <1>9, <1>10, CutSound DEF Dials
<1> QED
  BY <1>3, <1>4, <1>6, <1>7, <1>8, <1>9, <1>11, Assemble

-----------------------------------------------------------------------------
(* The types.                                                              *)

LEMMA LinkInit == Init => LinkInv
<1> SUFFICES ASSUME Init PROVE LinkInv
  OBVIOUS
<1>1. \A i \in Conns : conn[i] = Free
  BY DEF Init
<1>2. AllSound
  BY <1>1, FreeSound DEF AllSound
<1>3. Dials
  BY DEF Init, Dials
<1>4. \A n \in Waters : pending[n] = <<>> /\ Hearing(n) = {}
  BY <1>1 DEF Init, Hearing, Free
<1>5. Cardinality(Conns) \in Nat
  BY SomeConns
<1>6. PendingBound
  <2>1. \A n \in Waters : Len(pending[n]) = 0 /\ Cardinality(Hearing(n)) = 0
    <3>1. Cardinality({}) = 0
      BY FS_EmptySet
    <3> QED
      BY <1>4, <3>1
  <2>2. MaxPending \in Nat
    BY GossipAssumption
  <2> QED
    BY <1>5, <2>1, <2>2 DEF PendingBound
<1>7. TypeOK
  <2>1. Free \in Connection
    BY FreeSound DEF Sound
  <2>2. peers \in [Waters -> [Nodes -> Origins]] /\ \A n \in Waters : peers[n][n] = "none"
    BY Apart DEF Init, Origins
  <2>3. pending \in [Waters -> Seq(Nodes)]
        /\ \A n \in Waters : Len(pending[n]) <= MaxPending + Cardinality(Conns)
    BY <1>5, GossipAssumption DEF Init
  <2> QED
    BY <2>1, <2>2, <2>3 DEF Init, TypeOK
<1> QED
  BY <1>2, <1>3, <1>6, <1>7 DEF LinkInv

LEMMA LinkStep == LinkInv /\ [Next]_vars => LinkInv'
<1> SUFFICES ASSUME LinkInv, [Next]_vars PROVE LinkInv'
  OBVIOUS
<1>1. ASSUME NEW n \in Waters, Connect(n) \/ PeriodicSync(n) PROVE LinkInv'
  BY <1>1, ConnectStep
<1>2. ASSUME NEW n \in Waters, NEW d \in Dialers, Client(n, d) PROVE LinkInv'
  BY <1>2, ClientStep
<1>3. ASSUME NEW n \in Waters,
             \/ AddGroup(n) \/ Approve(n) \/ Reject(n) \/ Start(n)
             \/ \E m \in Nodes : Announce(m, n)
      PROVE  LinkInv'
  BY <1>3, QuietStep
<1>4. ASSUME NEW n \in Waters, Stop(n) PROVE LinkInv'
  BY <1>4, StopStep
<1>5. ASSUME NEW i \in Conns, Handler(i) PROVE LinkInv'
  BY <1>5, HandlerStep
<1>6. ASSUME NEW i \in Conns,
             \/ \E m \in Tolerant, n \in Waters : ExternalConnects(i, m, n)
             \/ ExternalReads(i) \/ ExternalSendsAgain(i)
             \/ ExternalAnswers(i) \/ ExternalHangsUp(i)
      PROVE  LinkInv'
  BY <1>6, ExternalStep
<1>7. CASE UNCHANGED vars
  <2>1. Tables' /\ Queues'
    BY <1>7, Parts DEF vars, Tables, Queues
  <2> QED
    BY <1>7, <2>1, TableSteps, Parts DEF vars, Queues
<1> QED
  BY <1>1, <1>2, <1>3, <1>4, <1>5, <1>6, <1>7 DEF Next

(* Every variable has its type, no node is a peer of its own, and the      *)
(* queue for the operator stays within its bound (gossip.rs).              *)
THEOREM TypeCorrect == Spec => []TypeOK
<1>1. LinkInv => TypeOK
  BY DEF LinkInv
<1> QED
  BY <1>1, LinkInit, LinkStep, PTL DEF Spec

-----------------------------------------------------------------------------
(* Who is in the tables.                                                   *)

(* No step makes a handler reach its insert but the check of the capacity, *)
(* and no step makes an incoming peer but that insert.                     *)
NoNewInsert == \A i \in Conns :
    conn'[i].state = "insert" => conn[i].state = "insert" /\ conn'[i].to = conn[i].to
NoNewIncoming == \A n \in Waters, m \in Nodes :
    peers'[n][m] = "incoming" => peers[n][m] = "incoming"

(* Entries made by a step other than an insert.                            *)
LEMMA OtherEntry ==
    ASSUME LinkInv, NEW n \in Waters, NEW m \in Nodes, NEW o \in {"announced", "dialed"},
           peers' = [peers EXCEPT ![n][m] = o]
    PROVE  /\ NoNewIncoming
           /\ \A k \in Waters, l \in Nodes :
                 peers'[k][l] = "dialed" => peers[k][l] = "dialed" \/ (o = "dialed" /\ l = m)
<1>1. peers \in [Waters -> [Nodes -> Origins]]
  BY DEF LinkInv, TypeOK
<1>2. \A k \in Waters, l \in Nodes :
          peers'[k][l] = IF k = n /\ l = m THEN o ELSE peers[k][l]
  BY <1>1
<1> QED
  BY <1>2 DEF NoNewIncoming

(* What each step does to the handlers about to insert and to the tables.  *)
LEMMA StepEffect ==
    ASSUME LinkInv, [Next]_vars
    PROVE  /\ \/ NoNewInsert
              \/ \E i \in Conns : CapacityCheck(i) /\ Cardinality(Known(conn[i].to)) < MaxPeers
           /\ \/ NoNewIncoming
              \/ \E i \in Conns : Insert(i)
           /\ \A n \in Waters, m \in Waters : peers'[n][m] = "dialed" => peers[n][m] = "dialed"
           /\ hungUp \subseteq hungUp'
<1> DEFINE NoNewDialed == \A n \in Waters, m \in Waters : peers'[n][m] = "dialed" => peers[n][m] = "dialed"
<1> DEFINE Quiet == NoNewInsert /\ NoNewIncoming /\ NoNewDialed /\ hungUp \subseteq hungUp'
<1>0. /\ Tables /\ Queues /\ Dialing /\ Dials /\ AllSound
      /\ conn \in [Conns -> Connection]
  BY Parts
<1>1. ASSUME UNCHANGED <<peers, hungUp>> PROVE NoNewIncoming /\ NoNewDialed /\ hungUp \subseteq hungUp'
  BY <1>1 DEF NoNewIncoming
<1>2. ASSUME UNCHANGED conn PROVE NoNewInsert
  BY <1>2 DEF NoNewInsert
<1>3. ASSUME NEW i \in Conns, NEW c, conn' = [conn EXCEPT ![i] = c], c.state # "insert"
      PROVE  NoNewInsert
  BY <1>0, <1>3 DEF NoNewInsert
<1>4. ASSUME NEW i \in Conns, NEW s \in {"write", "capacity", "ack", "answered", "sent", "gone"},
             conn' = [conn EXCEPT ![i].state = s]
      PROVE  NoNewInsert
  <2>1. conn' = [conn EXCEPT ![i] = To(conn[i], s)]
    BY <1>4 DEF To
  <2>2. To(conn[i], s).state = s
    BY <1>0 DEF To, Connection
  <2>3. PICK c : c = To(conn[i], s)
    OBVIOUS
  <2> QED
    BY <1>3, <2>1, <2>2, <2>3
<1>opens. ASSUME NEW i \in Conns, NEW n, NEW m, NEW p, Open(i, n, m, p) PROVE NoNewInsert
  <2>1. PICK c : c = [from |-> n, to |-> m, port |-> p,
                      open |-> TRUE, state |-> "sent", reply |-> "none"]
    OBVIOUS
  <2>2. conn' = [conn EXCEPT ![i] = c] /\ c.state = "sent"
    BY <1>opens, <2>1 DEF Open
  <2> QED
    BY <1>3, <2>2
<1>5. Free.state # "insert"
  BY DEF Free
<1>6. ASSUME NEW n \in Waters, NEW m \in Nodes, Announce(m, n) PROVE Quiet
  <2>1. peers' = [peers EXCEPT ![n][m] = "announced"] /\ UNCHANGED <<conn, hungUp>>
    BY <1>6 DEF Announce
  <2>2. /\ NoNewIncoming
        /\ \A k \in Waters, l \in Nodes :
              peers'[k][l] = "dialed" => peers[k][l] = "dialed" \/ ("announced" = "dialed" /\ l = m)
    BY <2>1, OtherEntry
  <2>3. NoNewDialed
    BY <2>2, Apart
  <2> QED
    BY <1>2, <2>1, <2>2, <2>3
<1>7. ASSUME NEW n \in Waters, Connect(n) \/ PeriodicSync(n) PROVE Quiet
  <2>1. NoNewInsert
    BY <1>7, <1>opens DEF Connect, PeriodicSync
  <2> QED
    BY <1>1, <1>7, <2>1 DEF Connect, PeriodicSync
<1>8. ASSUME NEW n \in Waters, NEW d \in Dialers, Client(n, d) PROVE Quiet
  <2>1. PICK i \in Conns :
           /\ conn' = [conn EXCEPT ![i] = Free] /\ hungUp' = hungUp
           /\ peers' = peers \/ /\ conn[i].reply # "none"
                                /\ peers' = [peers EXCEPT ![n][conn[i].to] = "dialed"]
    BY <1>0, <1>8 DEF Client, ClientReads, ClientEof, Return, Dialing
  <2>2. NoNewInsert
    BY <1>3, <1>5, <2>1
  <2>3. CASE peers' = [peers EXCEPT ![n][conn[i].to] = "dialed"] /\ conn[i].reply # "none"
    <3>1. PICK m \in Tolerant : m = conn[i].to
      BY <1>0, <2>3 DEF AllSound, Sound
    <3>2. peers' = [peers EXCEPT ![n][m] = "dialed"] /\ m \in Nodes /\ m \notin Waters
      BY <2>3, <3>1, Apart
    <3>3. /\ NoNewIncoming
          /\ \A k \in Waters, l \in Nodes : peers'[k][l] = "dialed" => peers[k][l] = "dialed" \/ l = m
      BY <3>2, OtherEntry
    <3> QED
      BY <2>1, <2>2, <3>2, <3>3, Apart
  <2>4. CASE peers' = peers
    BY <1>1, <2>1, <2>2, <2>4
  <2> QED
    BY <2>1, <2>3, <2>4
<1>9. ASSUME NEW n \in Waters, AddGroup(n) \/ Approve(n) \/ Reject(n) \/ Start(n) PROVE Quiet
  BY <1>1, <1>2, <1>9 DEF AddGroup, Approve, Reject, Start
<1>10. ASSUME NEW n \in Waters, Stop(n) PROVE Quiet
  <2>1. \A k \in Waters, m \in Nodes : peers'[k][m] = IF k = n THEN "none" ELSE peers[k][m]
    BY <1>0, <1>10 DEF Stop, Tables
  <2>2. hungUp' = hungUp \cup {n} /\ \A i \in Conns : conn'[i] = Cut(n, conn[i]) /\ Sound(conn[i])
    BY <1>0, <1>10 DEF Stop, AllSound
  <2>3. NoNewInsert
    BY <2>2, CutSound DEF NoNewInsert
  <2> QED
    BY <2>1, <2>2, <2>3, Apart DEF NoNewIncoming
<1>11. ASSUME NEW i \in Conns, NextLine(i) PROVE NoNewInsert
  <2>1. CASE conn' = [conn EXCEPT ![i] = Free]
    BY <1>3, <1>5, <2>1
  <2>2. CASE conn' = [conn EXCEPT ![i] = [conn[i] EXCEPT !.state = "answered"]]
    <3>1. conn' = [conn EXCEPT ![i].state = "answered"]
      BY <2>2
    <3> QED
      BY <1>4, <3>1
  <2> QED
    BY <1>11, <2>1, <2>2 DEF NextLine
<1>12. ASSUME NEW i \in Conns, GroupsCheck(i) PROVE Quiet
  <2>1. NoNewInsert
    BY <1>4, <1>12 DEF GroupsCheck
  <2> QED
    BY <1>1, <1>12, <2>1 DEF GroupsCheck
<1>13. ASSUME NEW i \in Conns, CapacityCheck(i)
       PROVE  /\ NoNewIncoming /\ NoNewDialed /\ hungUp \subseteq hungUp'
              /\ NoNewInsert \/ Cardinality(Known(conn[i].to)) < MaxPeers
  <2>1. Cardinality(Known(conn[i].to)) >= MaxPeers \/ Cardinality(Known(conn[i].to)) < MaxPeers
    <3>1. Cardinality(Known(conn[i].to)) \in Nat
      BY GossipAssumption, FS_Subset, FS_CardinalityType DEF Known
    <3> QED
      BY <3>1, GossipAssumption
  <2>2. CASE Cardinality(Known(conn[i].to)) >= MaxPeers
    BY <1>1, <1>11, <1>13, <2>2 DEF CapacityCheck
  <2> QED
    BY <1>1, <1>13, <2>1, <2>2 DEF CapacityCheck
<1>14. ASSUME NEW i \in Conns, Insert(i) PROVE NoNewInsert /\ NoNewDialed /\ hungUp \subseteq hungUp'
  <2>1. /\ conn[i].to \in Waters /\ conn[i].from \in Nodes
    BY <1>0, <1>14 DEF Insert, AllSound, Sound, Handling
  <2>2. \A n \in Waters, m \in Nodes :
           peers'[n][m] = IF n = conn[i].to /\ m = conn[i].from THEN "incoming" ELSE peers[n][m]
    BY <1>0, <1>14, <2>1 DEF Insert, Tables
  <2>3. NoNewInsert
    BY <1>4, <1>14 DEF Insert
  <2>4. NoNewDialed
    BY <2>2, Apart
  <2> QED
    BY <1>14, <2>3, <2>4 DEF Insert
<1>15. ASSUME NEW i \in Conns, ApiEnds(i) \/ WriteFails(i) PROVE Quiet
  BY <1>1, <1>3, <1>5, <1>15 DEF ApiEnds, WriteFails
<1>ack. ASSUME NEW i \in Conns, Ack(i) \/ ExternalReads(i) PROVE Quiet
  BY <1>1, <1>11, <1>ack DEF Ack, ExternalReads
<1>16. ASSUME NEW i \in Conns, NEW m \in Tolerant, NEW n \in Waters, ExternalConnects(i, m, n) PROVE Quiet
  <2>1. NoNewInsert
    BY <1>16, <1>opens DEF ExternalConnects
  <2> QED
    BY <1>1, <1>16, <2>1 DEF ExternalConnects
<1>17. ASSUME NEW i \in Conns, ExternalSendsAgain(i) PROVE Quiet
  BY <1>1, <1>4, <1>17 DEF ExternalSendsAgain
<1>18. ASSUME NEW i \in Conns, ExternalAnswers(i) PROVE Quiet
  <2>1. PICK r \in {"ack", "denied", "awaiting"} :
           conn' = [conn EXCEPT ![i].state = "answered", ![i].reply = r]
    BY <1>18 DEF ExternalAnswers
  <2>2. PICK c : c = [conn[i] EXCEPT !.state = "answered", !.reply = r]
    OBVIOUS
  <2>3. conn' = [conn EXCEPT ![i] = c] /\ c.state = "answered"
    BY <1>0, <2>1, <2>2 DEF Connection
  <2>4. NoNewInsert
    BY <1>3, <2>3
  <2> QED
    BY <1>1, <1>18, <2>4 DEF ExternalAnswers
<1>19. ASSUME NEW i \in Conns, ExternalHangsUp(i) PROVE Quiet
  <2>1. ASSUME conn' = [conn EXCEPT ![i] = Free] PROVE NoNewInsert
    BY <1>3, <1>5, <2>1
  <2>2. ASSUME conn' = [conn EXCEPT ![i] = [conn[i] EXCEPT !.open = FALSE]] PROVE NoNewInsert
    BY <1>0, <2>2 DEF NoNewInsert, Connection
  <2>3. ASSUME conn' = [conn EXCEPT ![i].state = "gone"] PROVE NoNewInsert
    BY <1>4, <2>3
  <2>4. NoNewInsert
    BY <1>19, <2>1, <2>2, <2>3 DEF ExternalHangsUp
  <2> QED
    BY <1>1, <1>19, <2>4 DEF ExternalHangsUp
<1>20. CASE UNCHANGED vars
  BY <1>1, <1>2, <1>20 DEF vars
<1>21. CASE \E n \in Waters :
               \/ Connect(n) \/ PeriodicSync(n)
               \/ \E d \in Dialers : Client(n, d)
               \/ AddGroup(n) \/ Approve(n) \/ Reject(n)
               \/ Stop(n) \/ Start(n)
               \/ \E m \in Nodes : Announce(m, n)
  BY <1>6, <1>7, <1>8, <1>9, <1>10, <1>21
<1>22. CASE \E i \in Conns :
               \/ Handler(i)
               \/ \E m \in Tolerant, n \in Waters : ExternalConnects(i, m, n)
               \/ ExternalReads(i) \/ ExternalSendsAgain(i)
               \/ ExternalAnswers(i) \/ ExternalHangsUp(i)
  BY <1>12, <1>13, <1>14, <1>15, <1>ack, <1>16, <1>17, <1>18, <1>19, <1>22 DEF Handler
<1> QED
  BY <1>20, <1>21, <1>22 DEF Next

(* A handshake of this program that is inserted is one of a process that   *)
(* has ended: both conjuncts are kept by every step.                       *)
LEMMA HeardStep == ASSUME LinkInv, HeardWhenGone, [Next]_vars PROVE HeardWhenGone'
<1>1. hungUp \subseteq hungUp'
      /\ \A n \in Waters, m \in Waters : peers'[n][m] = "dialed" => peers[n][m] = "dialed"
  BY StepEffect
<1>2. Waters \subseteq Nodes
  BY Apart
<1>3. CASE NoNewIncoming
  BY <1>1, <1>2, <1>3 DEF HeardWhenGone, NoNewIncoming
<1>4. ASSUME NEW i \in Conns, Insert(i) PROVE HeardWhenGone'
  <2>1. Tables /\ Sound(conn[i])
    BY Parts DEF AllSound
  <2>2. /\ conn[i].to \in Waters /\ conn[i].from \in Nodes
        /\ conn[i].from \in Waters => conn[i].from \in hungUp
    BY <1>4, <2>1, Apart DEF Insert, Sound, Handling
  <2>3. \A n \in Waters, m \in Nodes :
           peers'[n][m] = IF n = conn[i].to /\ m = conn[i].from THEN "incoming" ELSE peers[n][m]
    BY <1>4, <2>1, <2>2 DEF Insert, Tables
  <2> QED
    BY <1>1, <1>2, <2>2, <2>3 DEF HeardWhenGone
<1> QED
  BY <1>3, <1>4, StepEffect

(* Nodes that run this program hear a handshake only when its sender has   *)
(* gone, and never learn of a peer by dialing it: for any network, any     *)
(* connections and any crashes (sync_with_peer, handle_incoming).          *)
THEOREM HeardWhenGoneHolds == Spec => []HeardWhenGone
<1>1. Init => HeardWhenGone
  BY Apart DEF Init, HeardWhenGone
<1>2. LinkInv /\ HeardWhenGone /\ [Next]_vars => HeardWhenGone'
  BY HeardStep
<1> QED
  BY <1>1, <1>2, LinkInit, LinkStep, PTL DEF Spec

-----------------------------------------------------------------------------
(* How far the table goes beyond MAX_PEERS.                                *)

(* Sets of nodes are finite.                                               *)
LEMMA SomeNodes ==
    ASSUME NEW S, NEW T, T \subseteq Nodes, S \subseteq T
    PROVE  /\ IsFiniteSet(S) /\ IsFiniteSet(T) /\ Cardinality(S) \in Nat /\ Cardinality(T) \in Nat
           /\ Cardinality(S) <= Cardinality(T)
BY GossipAssumption, FS_Subset, FS_CardinalityType

(* A handler that reaches its insert has just seen room in the table; an   *)
(* insert takes one handler away for the entry it makes.                   *)
LEMMA OvershootStep == ASSUME LinkInv, IncomingOvershoot, [Next]_vars PROVE IncomingOvershoot'
<1> DEFINE Bound(n) == Cardinality(Incoming(n)) + Cardinality(Inserting(n)) + 1
                          <= MaxPeers + Cardinality(Conns)
<1>0. Cardinality(Conns) \in Nat /\ MaxPeers \in Nat \ {0}
  BY SomeConns, GossipAssumption
<1>1. \A n \in Waters : /\ Incoming(n) \subseteq Nodes /\ Inserting(n) \subseteq Conns
                        /\ Incoming(n)' \subseteq Nodes /\ Inserting(n)' \subseteq Conns
                        /\ Cardinality(Incoming(n)) \in Nat /\ Cardinality(Inserting(n)) \in Nat
  <2>1. \A n \in Waters : /\ Incoming(n) \subseteq Nodes /\ Inserting(n) \subseteq Conns
                          /\ Incoming(n)' \subseteq Nodes /\ Inserting(n)' \subseteq Conns
    BY DEF Incoming, Inserting
  <2> QED
    BY <2>1, SomeNodes, SomeConns
<1>2. ASSUME NoNewIncoming, NEW n \in Waters
      PROVE  Cardinality(Incoming(n)') \in Nat
             /\ Cardinality(Incoming(n)') <= Cardinality(Incoming(n))
  <2>1. Incoming(n)' \subseteq Incoming(n)
    BY <1>2 DEF Incoming, NoNewIncoming
  <2> QED
    BY <1>1, <2>1, SomeNodes
<1>3. ASSUME NoNewInsert, NEW n \in Waters
      PROVE  Cardinality(Inserting(n)') \in Nat
             /\ Cardinality(Inserting(n)') <= Cardinality(Inserting(n))
  <2>1. Inserting(n)' \subseteq Inserting(n)
    BY <1>3 DEF Inserting, NoNewInsert
  <2> QED
    BY <1>1, <2>1, FewerConns
<1>4. ASSUME NoNewIncoming, NoNewInsert PROVE IncomingOvershoot'
  <2>1. ASSUME NEW n \in Waters PROVE Bound(n)'
    BY <1>0, <1>1, <1>2, <1>3, <1>4 DEF IncomingOvershoot
  <2> QED
    BY <2>1 DEF IncomingOvershoot
<1>5. ASSUME NEW i \in Conns, CapacityCheck(i), Cardinality(Known(conn[i].to)) < MaxPeers
      PROVE  IncomingOvershoot'
  <2>1. /\ conn' = [conn EXCEPT ![i].state = "insert"] /\ conn[i].state = "capacity"
        /\ UNCHANGED peers
    <3>1. Cardinality(Known(conn[i].to)) \in Nat
      BY SomeNodes DEF Known
    <3>2. ~(Cardinality(Known(conn[i].to)) >= MaxPeers)
      BY <1>0, <1>5, <3>1
    <3> QED
      BY <1>5, <3>2 DEF CapacityCheck
  <2>2. conn[i].to \in Waters /\ conn \in [Conns -> Connection]
    BY <2>1, Parts DEF AllSound, Sound, Handling
  <2>3. ASSUME NEW n \in Waters PROVE Bound(n)'
    <3>1. Incoming(n)' = Incoming(n)
      BY <2>1 DEF Incoming
    <3>2. CASE n = conn[i].to
      <4>1. Incoming(n) \subseteq Known(n) /\ Known(n) \subseteq Nodes
        BY DEF Incoming, Known
      <4>2. Cardinality(Known(n)) \in Nat /\ Cardinality(Incoming(n)) <= Cardinality(Known(n))
        BY <4>1, SomeNodes
      <4>3. Cardinality(Inserting(n)') \in Nat /\ Cardinality(Inserting(n)') <= Cardinality(Conns)
        BY <1>1, SomeConns
      <4> QED
        BY <1>0, <1>1, <1>5, <3>1, <3>2, <4>2, <4>3
    <3>3. CASE n # conn[i].to
      <4>1. Inserting(n)' = Inserting(n)
        BY <2>1, <2>2, <3>3 DEF Inserting, Connection
      <4> QED
        BY <3>1, <4>1 DEF IncomingOvershoot
    <3> QED
      BY <3>2, <3>3
  <2> QED
    BY <2>3 DEF IncomingOvershoot
<1>6. ASSUME NEW i \in Conns, Insert(i) PROVE IncomingOvershoot'
  <2>1. /\ peers' = [peers EXCEPT ![conn[i].to][conn[i].from] = "incoming"]
        /\ conn[i].state = "insert" /\ conn' = [conn EXCEPT ![i].state = "ack"]
    BY <1>6 DEF Insert
  <2>2. /\ conn[i].to \in Waters /\ conn[i].from \in Nodes /\ Tables
        /\ conn \in [Conns -> Connection]
    BY <2>1, Parts DEF AllSound, Sound, Handling
  <2>3. \A n \in Waters, m \in Nodes :
           peers'[n][m] = IF n = conn[i].to /\ m = conn[i].from THEN "incoming" ELSE peers[n][m]
    BY <2>1, <2>2 DEF Tables
  <2>4. \A j \in Conns : conn'[j].state = "insert" => j # i /\ conn'[j] = conn[j]
    BY <2>1, <2>2 DEF Connection
  <2>5. ASSUME NEW n \in Waters PROVE Bound(n)'
    <3>1. Inserting(n)' \subseteq Inserting(n)
      BY <2>4 DEF Inserting
    <3>2. /\ Cardinality(Inserting(n)') \in Nat
          /\ Cardinality(Inserting(n)') <= Cardinality(Inserting(n))
      BY <1>1, <3>1, FewerConns
    <3>3. CASE n # conn[i].to
      <4>1. Incoming(n)' = Incoming(n)
        BY <2>3, <3>3 DEF Incoming
      <4> QED
        BY <1>0, <1>1, <3>2, <4>1 DEF IncomingOvershoot
    <3>4. CASE n = conn[i].to
      <4>1. i \in Inserting(n) /\ Inserting(n)' \subseteq Inserting(n) \ {i}
        BY <2>1, <2>4, <3>1, <3>4 DEF Inserting
      <4>2. Cardinality(Inserting(n) \ {i}) = Cardinality(Inserting(n)) - 1
        BY <1>1, <4>1, SomeConns, FS_RemoveElement
      <4>3. Cardinality(Inserting(n)') <= Cardinality(Inserting(n)) - 1
        BY <1>1, <4>1, <4>2, FewerConns
      <4>4. Incoming(n)' \subseteq Incoming(n) \cup {conn[i].from}
        BY <2>3 DEF Incoming
      <4>5. /\ IsFiniteSet(Incoming(n))
            /\ Cardinality(Incoming(n) \cup {conn[i].from}) <= Cardinality(Incoming(n)) + 1
        BY <1>1, SomeNodes, FS_AddElement
      <4>6. Cardinality(Incoming(n)') \in Nat /\ Cardinality(Incoming(n)') <= Cardinality(Incoming(n)) + 1
        <5>1. Incoming(n) \cup {conn[i].from} \subseteq Nodes
          BY <1>1, <2>2
        <5>2. /\ Cardinality(Incoming(n)') \in Nat
              /\ Cardinality(Incoming(n) \cup {conn[i].from}) \in Nat
              /\ Cardinality(Incoming(n)') <= Cardinality(Incoming(n) \cup {conn[i].from})
          BY <4>4, <5>1, SomeNodes
        <5> QED
          BY <1>1, <4>5, <5>2
      <4> QED
        BY <1>0, <1>1, <3>2, <4>3, <4>6 DEF IncomingOvershoot
    <3> QED
      BY <3>3, <3>4
  <2> QED
    BY <2>5 DEF IncomingOvershoot
<1> QED
  BY <1>4, <1>5, <1>6, StepEffect

(* The table goes beyond MAX_PEERS by no more than the handlers that can   *)
(* be between the check and the insert, for any number of connections and  *)
(* any MAX_PEERS (handle_incoming).                                        *)
THEOREM IncomingOvershootHolds == Spec => []IncomingOvershoot
<1>1. Init => IncomingOvershoot
  <2> SUFFICES ASSUME Init, NEW n \in Waters
               PROVE  Cardinality(Incoming(n)) + Cardinality(Inserting(n)) + 1
                         <= MaxPeers + Cardinality(Conns)
    BY DEF IncomingOvershoot
  <2>1. Incoming(n) = {} /\ Inserting(n) = {}
    BY DEF Init, Incoming, Inserting, Free
  <2>2. Cardinality(Conns) \in Nat /\ MaxPeers \in Nat \ {0} /\ Cardinality({}) = 0
    BY SomeConns, FS_EmptySet, GossipAssumption
  <2> QED
    BY <2>1, <2>2
<1>2. LinkInv /\ IncomingOvershoot /\ [Next]_vars => IncomingOvershoot'
  BY OvershootStep
<1> QED
  BY <1>1, <1>2, LinkInit, LinkStep, PTL DEF Spec
=============================================================================
