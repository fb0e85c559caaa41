----------------------------- MODULE A2aGateway -----------------------------
(***************************************************************************)
(* Requests of agents of other systems (src/a2a.rs): handle_request asks   *)
(* for the token, then for the rate, then for the list of peers.  Several  *)
(* tasks may handle requests at once; the rate is kept in two atomics,     *)
(* read and written one at a time.  The command loop prints the answers of *)
(* /a2a without an adapter: no request of the program reaches this code.   *)
(***************************************************************************)
EXTENDS Naturals, FiniteSets

CONSTANTS
    Tasks, A2aPeers,
    RateLimit,      \* 120 in the code
    WindowLength,   \* 60 seconds in the code
    MaxNow          \* bound: the clock

VARIABLES
    now,
    rate_window, rate_limit,    \* the end of the window, and requests in it
    allowed_peers,
    task,           \* what each task does, and the clock it read
    served          \* requests that passed the rate since the window was set

a2aVars == <<now, rate_window, rate_limit, allowed_peers, task, served>>
rateVars == <<rate_window, rate_limit, served>>

At(t, s) == task[t].at = s
Go(t, s) == task' = [task EXCEPT ![t].at = s]

(* The clock is past the first window when the adapter is made.            *)
A2aInit ==
    /\ now = 1 /\ rate_window = 0 /\ rate_limit = 0
    /\ allowed_peers = {}
    /\ task = [t \in Tasks |-> [at |-> "idle", now |-> 0]]
    /\ served = 0

Tick ==
    /\ now < MaxNow
    /\ now' = now + 1
    /\ UNCHANGED <<rateVars, allowed_peers, task>>

(* allow_peer, block_peer: an empty list lets everybody in.                *)
ChangePeers ==
    /\ \E p \in A2aPeers : allowed_peers' \in {allowed_peers \cup {p}, allowed_peers \ {p}}
    /\ UNCHANGED <<now, rateVars, task>>
is_peer_allowed(p) == allowed_peers = {} \/ p \in allowed_peers

-----------------------------------------------------------------------------
(* handle_request.                                                         *)

(* A wrong token is answered at once; with the right one the clock is read. *)
Receive(t) ==
    /\ At(t, "idle")
    /\ task' = [task EXCEPT ![t] = [at |-> "window", now |-> now]]
    /\ UNCHANGED <<now, rateVars, allowed_peers>>

LoadWindow(t) ==
    /\ At(t, "window")
    /\ Go(t, IF task[t].now > rate_window THEN "set" ELSE "count")
    /\ UNCHANGED <<now, rateVars, allowed_peers>>

StoreWindow(t) ==
    /\ At(t, "set")
    /\ rate_window' = task[t].now + WindowLength
    /\ served' = IF rate_window' = rate_window THEN served ELSE 0
    /\ Go(t, "clear")
    /\ UNCHANGED <<now, rate_limit, allowed_peers>>

StoreLimit(t) ==
    /\ At(t, "clear")
    /\ rate_limit' = 0
    /\ Go(t, "count")
    /\ UNCHANGED <<now, rate_window, served, allowed_peers>>

(* Mutant: the comparison lets one more pass.                              *)
WithinOne(count) == count <= RateLimit
Within(count) == count < RateLimit

(* fetch_add; the count is kept below RateLimit + 2, which changes nothing. *)
Count(t) ==
    /\ At(t, "count")
    /\ rate_limit' = IF rate_limit > RateLimit THEN rate_limit ELSE rate_limit + 1
    /\ IF Within(rate_limit)
       THEN served' = served + 1 /\ Go(t, "peer")
       ELSE UNCHANGED served /\ Go(t, "idle")
    /\ UNCHANGED <<now, rate_window, allowed_peers>>

(* The peer that is looked up is the one the message names as its target;  *)
(* the answer says "working" (or that the message cannot be parsed).       *)
CheckPeer(t) ==
    /\ At(t, "peer")
    /\ \E p \in A2aPeers : Go(t, IF is_peer_allowed(p) THEN "accepted" ELSE "idle")
    /\ UNCHANGED <<now, rateVars, allowed_peers>>

Respond(t) ==
    /\ At(t, "accepted")
    /\ Go(t, "idle")
    /\ UNCHANGED <<now, rateVars, allowed_peers>>

A2aNext ==
    \/ Tick \/ ChangePeers
    \/ \E t \in Tasks :
        \/ Receive(t) \/ LoadWindow(t) \/ StoreWindow(t) \/ StoreLimit(t)
        \/ Count(t) \/ CheckPeer(t) \/ Respond(t)

A2aSpec == A2aInit /\ [][A2aNext]_a2aVars

-----------------------------------------------------------------------------
(* The rate holds up to the number of tasks: each of them that read the    *)
(* old window clears the count once more, so within one window no more     *)
(* than RateLimit requests per task pass (check_rate_limit).               *)
ServedBound == served <= RateLimit * Cardinality(Tasks)

(* "At most 120 requests a minute" (the comments of rate_limit and of      *)
(* check_rate_limit): in one window no more than RateLimit pass.           *)
RateKept == served <= RateLimit
=============================================================================
