------------------------------ MODULE KvStore -------------------------------
(***************************************************************************)
(* KvStore (src/store.rs): one object shared by every task of the process, *)
(* with one register that says which Redis database the next command goes  *)
(* to.  select_db, group_db, system_db and cache_db write the register and *)
(* return the same object; a command opens a connection, reads the         *)
(* register, selects that database on the connection and then runs.  So a  *)
(* call store.select_db(d).get(k) is three steps of its client, and other  *)
(* clients step in between.  Without Redis the commands use one map and    *)
(* the register is ignored.                                                *)
(*                                                                         *)
(* A job is one such call at one of the call sites in src/: how it selects *)
(* its database, the command and the key.  The calls for the node's goal   *)
(* select none.  Keys are families of keys: the states of agents, ratings, *)
(* the goal, group chats.  XADD stands for the commands that change        *)
(* nothing a GET can see.                                                  *)
(*                                                                         *)
(* The store itself does not keep clients apart.  Serial restricts them to *)
(* one call at a time while Redis is used, which is what the node does     *)
(* while no MCP connection and no task of an agent runs.                   *)
(***************************************************************************)
EXTENDS Naturals, FiniteSets

CONSTANTS
    Clients,        \* tasks of the process
    Jobs,           \* the jobs each client may do: [Clients -> SUBSET Job]
    Serial,         \* with Redis, does nobody call while another call runs?
    Keys, Values, Nil,
    Home,           \* the database each key is documented to live in
    MaxWrites       \* bound: set commands begun

Dbs == 0..15
Job == [how : {"as_is", "select", "group"}, to : 0..255,
        cmd : {"set", "get", "delete", "xadd"}, key : Keys]

ASSUME KvAssumption ==
    /\ Serial \in BOOLEAN /\ Nil \notin Values /\ MaxWrites \in Nat /\ Keys # {}
    /\ \A c \in Clients : Jobs[c] \subseteq Job
    /\ \A c \in Clients : \A j \in Jobs[c] : j.how = "select" => j.to \in Dbs
    /\ Home \in [Keys -> Dbs]

VARIABLES
    connected,      \* fixed at start-up: Redis answered the PING
    current_db,     \* the register
    memory,         \* the map used without Redis
    redis,          \* Redis: a map per database
    pc, job,        \* each client: control point and job
    conn,           \* each client: the database its connection selected
    seen,           \* each client: the value it last set or was answered
    writes

vars == <<connected, current_db, memory, redis, pc, job, conn, seen, writes>>

Empty == [k \in Keys |-> Nil]

Init ==
    /\ connected \in BOOLEAN
    /\ current_db = 0
    /\ memory = Empty /\ redis = [d \in Dbs |-> Empty]
    /\ pc = [c \in Clients |-> "idle"]
    /\ job = [c \in Clients |-> CHOOSE j \in Job : TRUE]
    /\ conn = [c \in Clients |-> 0]
    /\ seen = [c \in Clients |-> Nil]
    /\ writes = 0

(* Mutant: the group's number is taken as it is.                          *)
GroupDbUnclamped(g) == g
(* group_db: groups 1 to 6 have a database each, the others share 0.       *)
GroupDb(g) == IF g \in 1..6 THEN g ELSE 0

(* Mutant: selecting the default database leaves the register alone.       *)
SelectStays(j) == current_db' = CASE j.how = "as_is"  -> current_db
                                  [] j.how = "select" -> IF j.to = 0 THEN current_db ELSE j.to
                                  [] j.how = "group"  -> GroupDb(j.to)
(* select_db and group_db; a call site may also select nothing.            *)
Select(j) == current_db' = CASE j.how = "as_is"  -> current_db
                             [] j.how = "select" -> j.to
                             [] j.how = "group"  -> GroupDb(j.to)

Begin(c) ==
    /\ pc[c] = "idle"
    /\ connected /\ Serial => \A d \in Clients : pc[d] = "idle"
    /\ \E j \in Jobs[c] :
          /\ j.cmd = "set" => writes < MaxWrites
          /\ writes' = IF j.cmd = "set" THEN writes + 1 ELSE writes
          /\ job' = [job EXCEPT ![c] = j]
          /\ Select(j)
    /\ pc' = [pc EXCEPT ![c] = "connect"]
    /\ UNCHANGED <<connected, memory, redis, conn, seen>>

(* conn() and select_db_on_conn: the register is read under its lock.      *)
Connect(c) ==
    /\ pc[c] = "connect"
    /\ conn' = [conn EXCEPT ![c] = current_db]
    /\ pc' = [pc EXCEPT ![c] = "command"]
    /\ UNCHANGED <<connected, current_db, memory, redis, job, seen, writes>>

(* Redis does not answer: the call returns an error, memory is not used.   *)
Fail(c) ==
    /\ connected /\ pc[c] \in {"connect", "command"}
    /\ pc' = [pc EXCEPT ![c] = "idle"]
    /\ UNCHANGED <<connected, current_db, memory, redis, job, conn, seen, writes>>

Command(c, cmd) ==
    /\ pc[c] = "command" /\ job[c].cmd = cmd
    /\ pc' = [pc EXCEPT ![c] = "idle"]
    /\ UNCHANGED <<connected, current_db, job, conn>>

(* Mutant: without Redis a value that is there is not replaced.            *)
SetOnce(c) ==
    /\ Command(c, "set")
    /\ \E v \in Values :
          /\ IF connected
             THEN redis' = [redis EXCEPT ![conn[c]][job[c].key] = v] /\ UNCHANGED memory
             ELSE /\ memory' = [memory EXCEPT ![job[c].key] = IF @ = Nil THEN v ELSE @]
                  /\ UNCHANGED redis
          /\ seen' = [seen EXCEPT ![c] = v]
    /\ UNCHANGED writes
Set(c) ==
    /\ Command(c, "set")
    /\ \E v \in Values :
          /\ IF connected
             THEN redis' = [redis EXCEPT ![conn[c]][job[c].key] = v] /\ UNCHANGED memory
             ELSE memory' = [memory EXCEPT ![job[c].key] = v] /\ UNCHANGED redis
          /\ seen' = [seen EXCEPT ![c] = v]
    /\ UNCHANGED writes
Get(c) ==
    /\ Command(c, "get")
    /\ seen' = [seen EXCEPT ![c] = IF connected THEN redis[conn[c]][job[c].key]
                                              ELSE memory[job[c].key]]
    /\ UNCHANGED <<memory, redis, writes>>
Delete(c) ==
    /\ Command(c, "delete")
    /\ IF connected
       THEN redis' = [redis EXCEPT ![conn[c]][job[c].key] = Nil] /\ UNCHANGED memory
       ELSE memory' = [memory EXCEPT ![job[c].key] = Nil] /\ UNCHANGED redis
    /\ UNCHANGED <<seen, writes>>
Xadd(c) ==
    /\ Command(c, "xadd")
    /\ UNCHANGED <<memory, redis, seen, writes>>

(* SETEX gives every key a time to live; the in-memory map ignores it.     *)
Expire ==
    /\ connected
    /\ \E d \in Dbs, k \in Keys :
          /\ redis[d][k] # Nil
          /\ redis' = [redis EXCEPT ![d][k] = Nil]
    /\ UNCHANGED <<connected, current_db, memory, pc, job, conn, seen, writes>>

Next ==
    \/ \E c \in Clients :
          \/ Begin(c) \/ Connect(c) \/ Fail(c)
          \/ Set(c) \/ Get(c) \/ Delete(c) \/ Xadd(c)
    \/ Expire
Spec == Init /\ [][Next]_vars

-----------------------------------------------------------------------------
(* Properties.                                                             *)

(* Every variable has its type.                                            *)
TypeOK ==
    /\ connected \in BOOLEAN /\ current_db \in Dbs
    /\ memory \in [Keys -> Values \cup {Nil}]
    /\ redis \in [Dbs -> [Keys -> Values \cup {Nil}]]
    /\ pc \in [Clients -> {"idle", "connect", "command"}]
    /\ job \in [Clients -> Job] /\ conn \in [Clients -> Dbs]
    /\ seen \in [Clients -> Values \cup {Nil}]
    /\ writes \in 0..MaxWrites

(* The map the users rely on: each key read in its home database.          *)
Map == INSTANCE KvMap WITH
    data <- [k \in Keys |-> IF connected THEN redis[Home[k]][k] ELSE memory[k]],
    answer <- seen

(* The store behaves as that map: no get misses or resurrects a value.     *)
ImplementsMap == Map!Spec

(* "Redis DB 0 - system: node state, rating, security": a key whose home   *)
(* is one database is never stored in another.                             *)
KeysAtHome == \A k \in Keys : \A d \in Dbs \ {Home[k]} : redis[d][k] = Nil
=============================================================================
