------------------------------- MODULE Gossip -------------------------------
(***************************************************************************)
(* The gossip of waters-node (src/gossip.rs): who ends up in whose table   *)
(* of peers.  Nodes learn of each other from UDP announcements and from    *)
(* handshakes over TCP.                                                    *)
(*                                                                         *)
(* Both ends of a TCP connection read with lines() and write JSON without  *)
(* a final newline.  A reader therefore gets the text of the other end     *)
(* only when the other end closes the connection.  Waters are the nodes    *)
(* that run this program; Tolerant are external peers that end what they   *)
(* write with a newline and read JSON as it comes, the peers the readers   *)
(* of this program are written for.                                        *)
(*                                                                         *)
(* A node dials from its main loop (--connect, /connect) and from its      *)
(* periodic task, which dials only addresses that begin with tcp://, those *)
(* of announcements.  A node of this program announces tcp://0.0.0.0 with  *)
(* the port of its HTTP API, and the task makes that 127.0.0.1: it dials   *)
(* its own API, which reads lines as well and answers none that is not     *)
(* HTTP.                                                                   *)
(*                                                                         *)
(* Every mutex is taken and given back within a step but that on groups:   *)
(* a handler keeps it while it writes to a peer, who may not read.         *)
(***************************************************************************)
EXTENDS Naturals, FiniteSets, Sequences, SequencesExt

CONSTANTS
    Waters, Tolerant,   \* nodes, see above
    Nets,               \* the sets of nodes that may share a network
    Conns,              \* TCP connections that may exist at a time
    MaxPeers,           \* MAX_PEERS
    MaxPending,         \* bound: pending approvals at which nobody sends more
    Crashes,            \* whether processes end and start again
    None

Nodes   == Waters \cup Tolerant
Dialers == {"main", "periodic"}

(* A handler has the line in hand.                                         *)
Handling == {"write", "capacity", "insert", "ack"}

ASSUME GossipAssumption ==
    /\ Waters \cap Tolerant = {} /\ None \notin Nodes \cup Conns
    /\ IsFiniteSet(Conns) /\ IsFiniteSet(Nodes)
    /\ Nets \subseteq SUBSET Nodes
    /\ MaxPeers \in Nat \ {0} /\ MaxPending \in Nat /\ Crashes \in BOOLEAN

VARIABLES
    net,        \* the nodes of this network, chosen once
    up,         \* the processes of Waters that run
    peers,      \* each node's table of peers: how the entry got there
    groups,     \* whether the node has groups (they require approval)
    pending,    \* each node's pending peers, in order of arrival
    conn,       \* the connections
    dialing,    \* each dialer's connection while sync_with_peer runs
    hungUp      \* history: nodes whose process has ended at least once

vars == <<net, up, peers, groups, pending, conn, dialing, hungUp>>

Free == [from |-> None, to |-> None, port |-> "gossip",
         open |-> FALSE, state |-> "free", reply |-> "none"]

Init ==
    /\ net \in Nets
    /\ up = Waters \cap net
    /\ peers = [n \in Waters |-> [m \in Nodes |-> "none"]]
    /\ groups = [n \in Waters |-> FALSE]
    /\ pending = [n \in Waters |-> <<>>]
    /\ conn = [i \in Conns |-> Free]
    /\ dialing = [n \in Waters |-> [d \in Dialers |-> None]]
    /\ hungUp = {}

Alive(m)    == m \in (Tolerant \cap net) \cup up
Known(n)    == {m \in Nodes : peers[n][m] # "none"}
Incoming(n) == {m \in Nodes : peers[n][m] = "incoming"}
Room(m)     == m \in Waters => Len(pending[m]) < MaxPending

(* The mutex on the groups of n: a handler has it while it writes.         *)
GroupsFree(n) == ~\E i \in Conns : conn[i].to = n /\ conn[i].state = "write"

-----------------------------------------------------------------------------
(* Announcements: the listener inserts whatever it hears from others.  A   *)
(* node names its groups in its own.                                       *)

(* Mutant: a node does not recognise its own announcement.                 *)
AnnounceSelf(m, n) ==
    /\ Alive(m) /\ n \in up /\ (m \in Waters => GroupsFree(m))
    /\ peers' = [peers EXCEPT ![n][m] = "announced"]
    /\ UNCHANGED <<net, up, groups, pending, conn, dialing, hungUp>>
Announce(m, n) ==
    /\ Alive(m) /\ n \in up /\ m # n /\ (m \in Waters => GroupsFree(m))
    /\ peers' = [peers EXCEPT ![n][m] = "announced"]
    /\ UNCHANGED <<net, up, groups, pending, conn, dialing, hungUp>>

-----------------------------------------------------------------------------
(* sync_with_peer: connect, write the handshake, which names the groups,   *)
(* and read until an answer.                                               *)

Open(i, n, m, port) ==
    /\ conn[i].state = "free"
    /\ conn' = [conn EXCEPT ![i] = [from |-> n, to |-> m, port |-> port,
                                    open |-> TRUE, state |-> "sent", reply |-> "none"]]

(* --connect and /connect: the address is the operator's.  A node that     *)
(* does not run refuses the connection, and the error is dropped.          *)
Connect(n) == \E m \in Nodes \ {n}, i \in Conns, port \in {"gossip", "api"} :
    /\ n \in up /\ dialing[n].main = None /\ GroupsFree(n)
    /\ Alive(m) /\ Room(m) /\ Open(i, n, m, port)
    /\ dialing' = [dialing EXCEPT ![n].main = i]
    /\ UNCHANGED <<net, up, peers, groups, pending, hungUp>>

(* An announced address is this machine's, and only another program may    *)
(* announce one of its own.                                                *)
PeriodicSync(n) ==
    /\ n \in up /\ dialing[n].periodic = None /\ GroupsFree(n)
    /\ \E m \in Nodes, i \in Conns : \E t \in {n} \cup ({m} \cap Tolerant) :
          /\ peers[n][m] = "announced" /\ Alive(t)
          /\ Open(i, n, t, "api")
          /\ dialing' = [dialing EXCEPT ![n].periodic = i]
    /\ UNCHANGED <<net, up, peers, groups, pending, hungUp>>

Return(n, d) ==
    /\ dialing' = [dialing EXCEPT ![n][d] = None]
    /\ UNCHANGED <<net, up, groups, pending, hungUp>>

(* The answer of an external peer: handshake_ack registers the peer, the   *)
(* requests for channels that follow wait for no response; access_denied   *)
(* ends the call; awaiting_approval is skipped and the call reads on.      *)
ClientReads(n, d) ==
    LET i == dialing[n][d] IN
    /\ n \in up /\ i # None
    /\ conn[i].reply \in {"ack", "denied"}
    /\ peers' = IF conn[i].reply = "ack"
                THEN [peers EXCEPT ![n][conn[i].to] = "dialed"] ELSE peers
    /\ conn' = [conn EXCEPT ![i] = Free]
    /\ Return(n, d)

(* The other end is gone: lines() ends and the call returns Ok.            *)
ClientEof(n, d) ==
    LET i == dialing[n][d] IN
    /\ n \in up /\ i # None
    /\ conn[i].state = "gone"
    /\ conn' = [conn EXCEPT ![i] = Free]
    /\ Return(n, d)
    /\ UNCHANGED peers

-----------------------------------------------------------------------------
(* handle_incoming.                                                        *)

(* Mutant: as if the program ended its messages with a newline.            *)
ReadableAtOnce(i) ==
    conn[i].state = "sent" /\ conn[i].to \in up /\ conn[i].port = "gossip"
(* The handshake is a line of text, or the rest of a closed connection.    *)
Readable(i) ==
    /\ conn[i].state = "sent" /\ conn[i].to \in up /\ conn[i].port = "gossip"
    /\ conn[i].from \in Tolerant \/ ~conn[i].open

(* The handler is done with a line: it waits for the next one, which never *)
(* comes on a closed connection.                                           *)
NextLine(i) ==
    conn' = [conn EXCEPT ![i] = IF conn[i].open THEN [conn[i] EXCEPT !.state = "answered"] ELSE Free]

(* With groups every handshake waits for the operator, and the mutex on    *)
(* groups is kept until the peer has been told.                            *)
GroupsCheck(i) ==
    LET n == conn[i].to IN
    /\ Readable(i) /\ GroupsFree(n)
    /\ IF groups[n]
       THEN /\ pending' = [pending EXCEPT ![n] = Append(@, conn[i].from)]
            /\ conn' = [conn EXCEPT ![i].state = "write"]
       ELSE /\ conn' = [conn EXCEPT ![i].state = "capacity"]
            /\ UNCHANGED pending
    /\ UNCHANGED <<net, up, peers, groups, dialing, hungUp>>

(* The peer has gone: the write fails and the handler ends.                *)
WriteFails(i) ==
    /\ conn[i].state = "write" /\ ~conn[i].open
    /\ conn' = [conn EXCEPT ![i] = Free]
    /\ UNCHANGED <<net, up, peers, groups, pending, dialing, hungUp>>

(* Mutant: the table may fill beyond MAX_PEERS by one.                     *)
CapacityCheckLoose(i) ==
    /\ conn[i].state = "capacity"
    /\ IF Cardinality(Known(conn[i].to)) > MaxPeers
       THEN NextLine(i)
       ELSE conn' = [conn EXCEPT ![i].state = "insert"]
    /\ UNCHANGED <<net, up, peers, groups, pending, dialing, hungUp>>
(* Mutant: a handshake that finds the table full waits for room.           *)
CapacityCheckWaits(i) ==
    /\ conn[i].state = "capacity"
    /\ Cardinality(Known(conn[i].to)) < MaxPeers
    /\ conn' = [conn EXCEPT ![i].state = "insert"]
    /\ UNCHANGED <<net, up, peers, groups, pending, dialing, hungUp>>
(* The size is read under the lock, which is released before the insert.   *)
CapacityCheck(i) ==
    /\ conn[i].state = "capacity"
    /\ IF Cardinality(Known(conn[i].to)) >= MaxPeers
       THEN NextLine(i)
       ELSE conn' = [conn EXCEPT ![i].state = "insert"]
    /\ UNCHANGED <<net, up, peers, groups, pending, dialing, hungUp>>

Insert(i) ==
    /\ conn[i].state = "insert"
    /\ peers' = [peers EXCEPT ![conn[i].to][conn[i].from] = "incoming"]
    /\ conn' = [conn EXCEPT ![i].state = "ack"]
    /\ UNCHANGED <<net, up, groups, pending, dialing, hungUp>>

(* The answer names the groups.  It is written without a newline, so a     *)
(* peer that runs this program never reads it.                             *)
Ack(i) ==
    /\ conn[i].state = "ack" /\ GroupsFree(conn[i].to)
    /\ NextLine(i)
    /\ UNCHANGED <<net, up, peers, groups, pending, dialing, hungUp>>

(* The API reads on until the client closes, and answers nobody.           *)
ApiEnds(i) ==
    /\ conn[i].state = "sent" /\ conn[i].to \in up /\ conn[i].port = "api" /\ ~conn[i].open
    /\ conn' = [conn EXCEPT ![i] = Free]
    /\ UNCHANGED <<net, up, peers, groups, pending, dialing, hungUp>>

-----------------------------------------------------------------------------
(* The operator, between two calls of sync_with_peer.                      *)

AddGroup(n) ==
    /\ n \in up /\ dialing[n].main = None /\ GroupsFree(n)
    /\ groups' = [groups EXCEPT ![n] = TRUE]
    /\ UNCHANGED <<net, up, peers, pending, conn, dialing, hungUp>>

(* /approve: the entry is removed and its address dialed.  The address is  *)
(* the one the peer connected from, where nobody listens: the call fails.  *)
Approve(n) == \E k \in DOMAIN pending[n] :
    /\ n \in up /\ dialing[n].main = None
    /\ pending' = [pending EXCEPT ![n] = RemoveAt(@, k)]
    /\ UNCHANGED <<net, up, peers, groups, conn, dialing, hungUp>>

Reject(n) == \E k \in DOMAIN pending[n] :
    /\ n \in up /\ dialing[n].main = None
    /\ pending' = [pending EXCEPT ![n] = RemoveAt(@, k)]
    /\ UNCHANGED <<net, up, peers, groups, conn, dialing, hungUp>>

-----------------------------------------------------------------------------
(* Processes end and start; what gossip knows is in memory.                *)

(* A connection of a process that ends: the other end still has to see it. *)
Cut(n, c) ==
    CASE c.from = n /\ c.to \in Waters \ {n} /\ c.state \in {"sent"} \cup Handling ->
            [c EXCEPT !.open = FALSE]
      [] c.to = n /\ c.open /\ c.from \in Waters \ {n} -> [c EXCEPT !.state = "gone"]
      [] n \notin {c.from, c.to} -> c
      [] OTHER -> Free

Stop(n) ==
    /\ Crashes /\ n \in up
    /\ up' = up \ {n}
    /\ hungUp' = hungUp \cup {n}
    /\ conn' = [i \in Conns |-> Cut(n, conn[i])]
    /\ peers' = [peers EXCEPT ![n] = [m \in Nodes |-> "none"]]
    /\ groups' = [groups EXCEPT ![n] = FALSE]
    /\ pending' = [pending EXCEPT ![n] = <<>>]
    /\ dialing' = [dialing EXCEPT ![n] = [d \in Dialers |-> None]]
    /\ UNCHANGED net

Start(n) ==
    /\ n \in (Waters \cap net) \ up
    /\ up' = up \cup {n}
    /\ UNCHANGED <<net, peers, groups, pending, conn, dialing, hungUp>>

-----------------------------------------------------------------------------
(* External peers.                                                         *)

ExternalConnects(i, m, n) ==
    /\ m \in net /\ n \in up /\ Room(n)
    /\ Open(i, m, n, "gossip")
    /\ UNCHANGED <<net, up, peers, groups, pending, dialing, hungUp>>

(* The peer makes room for what is written to it.                          *)
ExternalReads(i) ==
    /\ conn[i].state = "write" /\ conn[i].open
    /\ NextLine(i)
    /\ UNCHANGED <<net, up, peers, groups, pending, dialing, hungUp>>

ExternalSendsAgain(i) ==
    /\ conn[i].from \in Tolerant /\ conn[i].state = "answered" /\ Room(conn[i].to)
    /\ conn' = [conn EXCEPT ![i].state = "sent"]
    /\ UNCHANGED <<net, up, peers, groups, pending, dialing, hungUp>>

ExternalAnswers(i) ==
    /\ conn[i].to \in Tolerant /\ conn[i].state = "sent"
    /\ \E r \in {"ack", "denied", "awaiting"} :
          conn' = [conn EXCEPT ![i].state = "answered", ![i].reply = r]
    /\ UNCHANGED <<net, up, peers, groups, pending, dialing, hungUp>>

ExternalHangsUp(i) ==
    /\ conn[i].open
    /\ \/ /\ conn[i].from \in Tolerant
          /\ conn' = [conn EXCEPT ![i] = IF conn[i].state = "answered" THEN Free
                                         ELSE [conn[i] EXCEPT !.open = FALSE]]
       \/ /\ conn[i].to \in Tolerant /\ conn[i].reply \notin {"ack", "denied"}
          /\ conn[i].state # "gone"
          /\ conn' = [conn EXCEPT ![i].state = "gone"]
    /\ UNCHANGED <<net, up, peers, groups, pending, dialing, hungUp>>

-----------------------------------------------------------------------------
Handler(i) ==
    \/ GroupsCheck(i) \/ WriteFails(i) \/ CapacityCheck(i) \/ Insert(i) \/ Ack(i)
    \/ ApiEnds(i)
Client(n, d) == ClientReads(n, d) \/ ClientEof(n, d)

Next ==
    \/ \E n \in Waters :
          \/ Connect(n) \/ PeriodicSync(n)
          \/ \E d \in Dialers : Client(n, d)
          \/ AddGroup(n) \/ Approve(n) \/ Reject(n)
          \/ Stop(n) \/ Start(n)
          \/ \E m \in Nodes : Announce(m, n)
    \/ \E i \in Conns :
          \/ Handler(i)
          \/ \E m \in Tolerant, n \in Waters : ExternalConnects(i, m, n)
          \/ ExternalReads(i) \/ ExternalSendsAgain(i)
          \/ ExternalAnswers(i) \/ ExternalHangsUp(i)

Spec == Init /\ [][Next]_vars

(* The tokio runtime runs every task that can go on, and its mutex goes to *)
(* the tasks in the order they asked for it: a handler that could have it  *)
(* again and again gets it.  Nothing is assumed of operators, of           *)
(* announcements, of external peers or of crashes.                         *)
FairSpec ==
    /\ Spec
    /\ \A i \in Conns : SF_vars(Handler(i))
    /\ \A n \in Waters, d \in Dialers : WF_vars(Client(n, d))

-----------------------------------------------------------------------------
(* Properties.                                                             *)

Origins == {"none", "announced", "incoming", "dialed"}
Connection ==
    [from : Nodes \cup {None}, to : Nodes \cup {None}, port : {"gossip", "api"}, open : BOOLEAN,
     state : {"free", "sent", "answered", "gone"} \cup Handling,
     reply : {"none", "ack", "denied", "awaiting"}]

(* Every variable has its type, and no node is a peer of its own.          *)
TypeOK ==
    /\ net \in Nets /\ up \subseteq Waters \cap net /\ hungUp \subseteq Waters
    /\ peers \in [Waters -> [Nodes -> Origins]]
    /\ \A n \in Waters : peers[n][n] = "none"
    /\ groups \in [Waters -> BOOLEAN]
    /\ pending \in [Waters -> Seq(Nodes)]
    /\ \A n \in Waters : Len(pending[n]) <= MaxPending + Cardinality(Conns)
    /\ conn \in [Conns -> Connection]
    /\ dialing \in [Waters -> [Dialers -> Conns \cup {None}]]

(* Between two nodes that run this program a handshake is heard only once  *)
(* its sender has gone: nobody registers a peer that is still waiting for  *)
(* the answer, and nobody ever learns of a peer by dialing it.             *)
HeardWhenGone == \A n, m \in Waters :
    /\ peers[n][m] = "incoming" => m \in hungUp
    /\ peers[n][m] # "dialed"

(* The size of the table is read under one lock and the peer inserted      *)
(* under another: the handlers between the two bound how far handshakes    *)
(* take the table beyond MAX_PEERS.                                        *)
Inserting(n) == {i \in Conns : conn[i].to = n /\ conn[i].state = "insert"}
IncomingOvershoot == \A n \in Waters :
    Cardinality(Incoming(n)) + Cardinality(Inserting(n)) + 1 <= MaxPeers + Cardinality(Conns)

(* Once the line is there, the handler gets through it, whatever other     *)
(* handlers and the operator do: unless a peer that does not read keeps    *)
(* the mutex on the groups from everybody for good.                        *)
HandshakeHandled == \A n \in Waters :
    []<>GroupsFree(n) =>
        \A i \in Conns : Readable(i) /\ conn[i].to = n ~>
                            (conn[i].state \in {"free", "answered"} \/ n \notin up)

(* "Periodic gossip": the task comes back from its dial and goes on.       *)
PeriodicGoesOn == \A n \in Waters :
    dialing[n].periodic # None ~> dialing[n].periodic = None

(* "--connect": connecting to a running node comes to an end.              *)
ConnectReturns == \A n \in Waters :
    dialing[n].main # None ~> dialing[n].main = None
=============================================================================
