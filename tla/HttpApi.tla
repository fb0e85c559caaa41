------------------------------ MODULE HttpApi -------------------------------
(***************************************************************************)
(* The HTTP interface (src/api.rs): one task per connection, which reads   *)
(* one request line by line, answers it and ends, or relays the messages   *)
(* of a Redis channel to an event stream (StreamSubscriber, src/store.rs). *)
(*                                                                         *)
(* The body is read with lines() too: a body without a line end is seen    *)
(* only at the end of the connection, and one whose line end is counted    *)
(* by Content-Length is one byte short when its line has been read.        *)
(* Clients leave whenever they like, also in the middle of a request.      *)
(***************************************************************************)
EXTENDS Naturals, Sequences, FiniteSets, SequencesExt

CONSTANTS
    Conns,          \* connections, each with one request
    Posts,          \* kinds of requests with a body that this module tells apart
    MaxFds,         \* bound: sockets the process may have open
    MaxPublished    \* bound: messages published for one stream

VARIABLES
    listening,      \* the accept loop still runs
    client,         \* how far the client of each connection is
    request,        \* what it asks for, and whether its body ends with an uncounted newline
    handler,        \* how far the task of the connection is
    chat_log,       \* the texts logged, never trimmed
    nodes,          \* the strings of state.nodes
    inbox,          \* replies waiting on the Redis connection of a stream
    published, delivered    \* messages published for a stream, and passed on

apiVars == <<listening, client, request, handler, chat_log, nodes, inbox, published, delivered>>
streamVars == <<inbox, published, delivered>>

Kinds == {"get", "stream"} \cup Posts
NoRequest == [kind |-> "none", newline |-> FALSE]

ApiInit ==
    /\ listening = TRUE
    /\ client = [c \in Conns |-> "idle"]
    /\ request = [c \in Conns |-> NoRequest]
    /\ handler = [c \in Conns |-> "none"]
    /\ chat_log = <<>> /\ nodes = {}
    /\ inbox = [c \in Conns |-> <<>>]
    /\ published = [c \in Conns |-> <<>>]
    /\ delivered = [c \in Conns |-> <<>>]

At(c, h) == handler[c] = h
Go(c, h) == handler' = [handler EXCEPT ![c] = h]
Gone(c) == client[c] = "gone"
Live == {c \in Conns : handler[c] \notin {"none", "done"}}

-----------------------------------------------------------------------------
(* Clients: browsers, curl and the dashboard's scripts.                    *)

Connect(c) ==
    /\ listening /\ client[c] = "idle"
    /\ client' = [client EXCEPT ![c] = "head"]
    /\ \E k \in Kinds : request' = [request EXCEPT ![c] = [kind |-> k, newline |-> FALSE]]
    /\ UNCHANGED <<listening, handler, chat_log, nodes, streamVars>>

(* The rest of the request arrives; browsers write no newline after it.    *)
SendRest(c) ==
    /\ client[c] = "head"
    /\ client' = [client EXCEPT ![c] = "sent"]
    /\ \E n \in BOOLEAN :
        /\ n => request[c].kind \in Posts
        /\ request' = [request EXCEPT ![c].newline = n]
    /\ UNCHANGED <<listening, handler, chat_log, nodes, streamVars>>

Leave(c) ==
    /\ client[c] \in {"head", "sent"}
    /\ client' = [client EXCEPT ![c] = "gone"]
    /\ UNCHANGED <<listening, request, handler, chat_log, nodes, streamVars>>

-----------------------------------------------------------------------------
(* serve and handle_conn.                                                  *)

(* accept fails without a free descriptor, and its error ends the loop.    *)
Accept(c) ==
    /\ listening /\ client[c] # "idle" /\ At(c, "none")
    /\ IF Cardinality(Live) < MaxFds
       THEN Go(c, "head") /\ UNCHANGED listening
       ELSE listening' = FALSE /\ UNCHANGED handler
    /\ UNCHANGED <<client, request, chat_log, nodes, streamVars>>

(* The head: to its empty line, or to where the client left, but with the  *)
(* request line.                                                           *)
ReadHead(c) ==
    /\ At(c, "head") /\ (client[c] = "sent" \/ Gone(c))
    /\ Go(c, IF request[c].kind \in Posts THEN "body"
             ELSE IF request[c].kind = "stream" THEN "subscribe" ELSE "route")
    /\ UNCHANGED <<listening, client, request, chat_log, nodes, streamVars>>

BodyEnds(c) == (client[c] = "sent" /\ request[c].newline) \/ Gone(c)

(* A connection that breaks off, rather than ends, is not routed.          *)
ReadBody(c) ==
    /\ At(c, "body") /\ BodyEnds(c)
    /\ Go(c, "route") \/ (Gone(c) /\ Go(c, "done"))
    /\ UNCHANGED <<listening, client, request, chat_log, nodes, streamVars>>

(* The connection breaks off in the head, or ends before the request line: *)
(* then the answer is the page, for nobody.                                *)
ReadEof(c) ==
    /\ At(c, "head") /\ Gone(c)
    /\ Go(c, "done")
    /\ UNCHANGED <<listening, client, request, chat_log, nodes, streamVars>>

-----------------------------------------------------------------------------
(* route.  The answer of a request whose client has left is lost, what it  *)
(* did is not: a body cut short is logged as it is.                        *)

RouteGet(c) ==
    /\ At(c, "route") /\ request[c].kind = "get"
    /\ Go(c, "done")
    /\ UNCHANGED <<listening, client, request, chat_log, nodes, streamVars>>

PostChat(c) ==
    /\ At(c, "route") /\ request[c].kind \in {"chat", "mode"}
    /\ chat_log' = Append(chat_log, c)
    /\ Go(c, "done")
    /\ UNCHANGED <<listening, client, request, nodes, streamVars>>

(* A body cut short is no JSON and has no address: nothing is added.       *)
PostConnect(c) ==
    /\ At(c, "route") /\ request[c].kind = "connect"
    /\ nodes' = nodes \cup {c} \/ (Gone(c) /\ UNCHANGED nodes)
    /\ Go(c, "done")
    /\ UNCHANGED <<listening, client, request, chat_log, streamVars>>

(* An address is any string; entries the operator made are objects and stay. *)
PostDisconnect(c) ==
    /\ At(c, "route") /\ request[c].kind = "disconnect"
    /\ \E n \in nodes \cup {c} : nodes' = nodes \ {n}
    /\ Go(c, "done")
    /\ UNCHANGED <<listening, client, request, chat_log, streamVars>>

-----------------------------------------------------------------------------
(* handle_sse.                                                             *)

(* Without Redis there is nothing to subscribe to and the stream ends.     *)
Subscribe(c) ==
    /\ At(c, "subscribe")
    /\ Go(c, "stream") \/ Go(c, "done")
    /\ UNCHANGED <<listening, client, request, chat_log, nodes, streamVars>>

(* Agents publish tokens and a last message; the channel keeps nothing for *)
(* those who do not listen yet.                                            *)
Publish(c, m) ==
    /\ At(c, "stream") /\ Len(published[c]) < MaxPublished
    /\ "done" \notin ToSet(published[c])
    /\ published' = [published EXCEPT ![c] = Append(@, m)]
    /\ inbox' = [inbox EXCEPT ![c] = Append(@, m)]
    /\ UNCHANGED <<listening, client, request, handler, chat_log, nodes, delivered>>

(* Mutants: get_message reads up to its own confirmation, and passes on    *)
(* nothing, or the last message before it.                                 *)
GetOwnReply(c) == <<"ack", <<>>>>
GetLast(c) == IF inbox[c] = <<>> THEN <<"ack", <<>>>> ELSE <<Last(inbox[c]), <<>>>>
(* get_message sends SUBSCRIBE again, whose confirmation queues up behind  *)
(* the messages already there, and reads one reply: it never waits.        *)
GetMessage(c) == LET q == Append(inbox[c], "ack") IN <<Head(q), Tail(q)>>

(* Mutant: only a message that cannot be written ends the stream.          *)
WriteFailsOnMessage(c, m) == m # "ack"
(* A write to a client that has left fails, here at the first attempt.     *)
WriteFails(c, m) == TRUE

StreamStep(c) ==
    /\ At(c, "stream")
    /\ LET m == GetMessage(c)[1] IN
        /\ inbox' = [inbox EXCEPT ![c] = GetMessage(c)[2]]
        /\ delivered' = IF m = "ack" THEN delivered
                        ELSE [delivered EXCEPT ![c] = Append(@, m)]
        /\ IF (Gone(c) /\ WriteFails(c, m)) \/ m = "done" THEN Go(c, "done")
           ELSE UNCHANGED handler
    /\ UNCHANGED <<listening, client, request, chat_log, nodes, published>>

Handler(c) ==
    \/ ReadHead(c) \/ ReadBody(c) \/ ReadEof(c) \/ RouteGet(c) \/ PostChat(c)
    \/ PostConnect(c) \/ PostDisconnect(c) \/ Subscribe(c) \/ StreamStep(c)

ApiNext == \E c \in Conns :
    \/ Connect(c) \/ SendRest(c) \/ Leave(c) \/ Accept(c) \/ Handler(c)
    \/ \E m \in {"token", "done"} : Publish(c, m)

(* The runtime runs every task that can go on; clients owe nothing.        *)
ApiFairness == \A c \in Conns : WF_apiVars(Accept(c)) /\ WF_apiVars(Handler(c))

ApiSpec == ApiInit /\ [][ApiNext]_apiVars /\ ApiFairness

-----------------------------------------------------------------------------
(* Events reach the client in the order they were published, none left out *)
(* although each read of the channel subscribes to it once more.           *)
StreamInOrder == \A c \in Conns : IsPrefix(delivered[c], published[c])

(* A connection whose client leaves releases its task and its socket,      *)
(* whatever it was doing.                                                  *)
HandlerEnds == \A c \in Conns : (Gone(c) /\ handler[c] # "none") ~> handler[c] = "done"

(* A stream ends when the agent's last message is published, even if the   *)
(* client stays.                                                           *)
DoneEndsStream == \A c \in Conns :
    (handler[c] = "stream" /\ "done" \in ToSet(published[c])) ~> handler[c] = "done"

(* The dashboard posts its body without a newline and waits for the JSON   *)
(* of the answer (api.rs, function api), and the project lists the         *)
(* interface as done: a client that stays has its request answered.        *)
PostsAnswered == \A c \in Conns :
    (handler[c] = "body" /\ client[c] = "sent") ~> (handler[c] = "done" \/ Gone(c))
=============================================================================
