--------------------------- MODULE KvStoreProofs ----------------------------
(***************************************************************************)
(* KvStore is the map its users rely on, for any clients, keys and values: *)
(* without Redis whatever the clients do, and with Redis, however calls    *)
(* interleave, fail and expire, in every behaviour in which each           *)
(* connection finds the register at the home of its key.  That is the one  *)
(* thing the store leaves to its callers, and they do not always see to    *)
(* it: the register is shared, and some select nothing.                    *)
(***************************************************************************)
EXTENDS KvStore, TLAPS

(* A job that a GET can see the effect of, or is itself a GET.             *)
Touches(j) == j.cmd \in {"set", "get", "delete"}

(* The register is at the home of the key when conn() reads it.            *)
StillSelected == \A c \in Clients :
    connected /\ Connect(c) /\ Touches(job[c]) => current_db = Home[job[c].key]

-----------------------------------------------------------------------------
(* Types.                                                                  *)

(* A job selects a database that exists.                                   *)
LEMMA SelectedDb ==
    ASSUME current_db \in Dbs, NEW c \in Clients, NEW j \in Jobs[c], Select(j)
    PROVE  j \in Job /\ current_db' \in Dbs
<1>1. j \in Job /\ (j.how = "select" => j.to \in Dbs)
  BY KvAssumption
<1>2. GroupDb(j.to) \in Dbs
  BY <1>1 DEF GroupDb, Dbs, Job
<1> QED
  BY <1>1, <1>2 DEF Select, Job

(* A command writes one value of one map.                                  *)
LEMMA OneValue ==
    ASSUME TypeOK, NEW c \in Clients, NEW v \in Values \cup {Nil},
           redis' \in {redis, [redis EXCEPT ![conn[c]][job[c].key] = v]},
           memory' \in {memory, [memory EXCEPT ![job[c].key] = v]},
           seen' \in {seen, [seen EXCEPT ![c] = v]}
    PROVE  /\ redis' \in [Dbs -> [Keys -> Values \cup {Nil}]]
           /\ memory' \in [Keys -> Values \cup {Nil}]
           /\ seen' \in [Clients -> Values \cup {Nil}]
<1>1. conn[c] \in Dbs /\ job[c].key \in Keys
  BY DEF TypeOK, Job
<1>2. redis[conn[c]] \in [Keys -> Values \cup {Nil}]
  BY <1>1 DEF TypeOK
<1>3. [redis[conn[c]] EXCEPT ![job[c].key] = v] \in [Keys -> Values \cup {Nil}]
  BY <1>1, <1>2
<1>4. redis' \in [Dbs -> [Keys -> Values \cup {Nil}]]
  BY <1>3 DEF TypeOK
<1> QED
  BY <1>1, <1>4 DEF TypeOK

(* Every step keeps the types.                                             *)
LEMMA TypeStep == ASSUME TypeOK, [Next]_vars PROVE TypeOK'
<1> USE DEF TypeOK
<1>1. ASSUME NEW c \in Clients, Begin(c) PROVE TypeOK'
  <2>1. PICK j \in Jobs[c] :
          /\ j.cmd = "set" => writes < MaxWrites
          /\ writes' = IF j.cmd = "set" THEN writes + 1 ELSE writes
          /\ job' = [job EXCEPT ![c] = j]
          /\ Select(j)
    BY <1>1 DEF Begin
  <2>2. j \in Job /\ current_db' \in Dbs
    BY <2>1, SelectedDb
  <2>3. writes' \in 0..MaxWrites
    BY <2>1, KvAssumption
  <2>4. job' \in [Clients -> Job]
    BY <2>1, <2>2
  <2> QED
    BY <1>1, <2>2, <2>3, <2>4 DEF Begin
<1>2. ASSUME NEW c \in Clients, Connect(c) PROVE TypeOK'
  BY <1>2 DEF Connect
<1>3. ASSUME NEW c \in Clients, Fail(c) PROVE TypeOK'
  BY <1>3 DEF Fail
<1>4. ASSUME NEW c \in Clients, Set(c) PROVE TypeOK'
  <2>1. PICK v \in Values :
          /\ redis' \in {redis, [redis EXCEPT ![conn[c]][job[c].key] = v]}
          /\ memory' \in {memory, [memory EXCEPT ![job[c].key] = v]}
          /\ seen' = [seen EXCEPT ![c] = v]
    BY <1>4 DEF Set
  <2>2. /\ redis' \in [Dbs -> [Keys -> Values \cup {Nil}]]
        /\ memory' \in [Keys -> Values \cup {Nil}]
        /\ seen' \in [Clients -> Values \cup {Nil}]
    BY <2>1, OneValue
  <2> QED
    BY <1>4, <2>2 DEF Set, Command
<1>5. ASSUME NEW c \in Clients, Get(c) PROVE TypeOK'
  <2>1. conn[c] \in Dbs /\ job[c].key \in Keys
    BY DEF Job
  <2>2. seen' \in [Clients -> Values \cup {Nil}]
    BY <1>5, <2>1 DEF Get
  <2> QED
    BY <1>5, <2>2 DEF Get, Command
<1>6. ASSUME NEW c \in Clients, Delete(c) PROVE TypeOK'
  <2>1. /\ redis' \in {redis, [redis EXCEPT ![conn[c]][job[c].key] = Nil]}
        /\ memory' \in {memory, [memory EXCEPT ![job[c].key] = Nil]}
    BY <1>6 DEF Delete
  <2>2. redis' \in [Dbs -> [Keys -> Values \cup {Nil}]] /\ memory' \in [Keys -> Values \cup {Nil}]
    BY <1>6, <2>1, OneValue DEF Delete
  <2> QED
    BY <1>6, <2>2 DEF Delete, Command
<1>7. ASSUME NEW c \in Clients, Xadd(c) PROVE TypeOK'
  BY <1>7 DEF Xadd, Command
<1>8. CASE Expire
  BY <1>8 DEF Expire
<1>9. CASE UNCHANGED vars
  BY <1>9 DEF vars
<1> QED
  BY <1>1, <1>2, <1>3, <1>4, <1>5, <1>6, <1>7, <1>8, <1>9 DEF Next

(* The store starts empty, on database 0.                                  *)
LEMMA TypeInit == Init => TypeOK
<1>1. PICK k \in Keys : TRUE
  BY KvAssumption
<1>2. [how |-> "as_is", to |-> 0, cmd |-> "get", key |-> k] \in Job
  BY DEF Job
<1> QED
  BY <1>2, KvAssumption DEF Init, TypeOK, Empty, Dbs

(* Every variable has its type, whoever calls what (store.rs).             *)
THEOREM TypeCorrect == Spec => []TypeOK
<1> QED
  BY TypeInit, TypeStep, PTL DEF Spec

-----------------------------------------------------------------------------
(* Homes.  KeysAtHome is not inductive: it says nothing of the connection  *)
(* a command is about to use.                                              *)

(* A command that touches a key is on the key's home.                      *)
OnHome == connected => \A c \in Clients :
    pc[c] = "command" /\ Touches(job[c]) => conn[c] = Home[job[c].key]

HomeInv == TypeOK /\ OnHome /\ KeysAtHome /\ (~connected => redis = [d \in Dbs |-> Empty])

(* Nothing is stored at first.                                             *)
LEMMA HomeInit == Init => HomeInv
<1>1. Init => TypeOK
  BY TypeInit
<1>2. Init => KeysAtHome
  BY KvAssumption DEF Init, KeysAtHome, Empty
<1> QED
  BY <1>1, <1>2 DEF Init, HomeInv, OnHome

(* A command that touches a key goes to the home of the key.               *)
LEMMA CommandAtHome ==
    ASSUME HomeInv, NEW c \in Clients, connected, pc[c] = "command", Touches(job[c])
    PROVE  job[c].key \in Keys /\ conn[c] = Home[job[c].key] /\ conn[c] \in Dbs
BY DEF HomeInv, OnHome, TypeOK, Job

(* Every step keeps keys at home.                                          *)
LEMMA HomeStep == ASSUME HomeInv, [Next]_vars, [StillSelected]_vars PROVE HomeInv'
<1>0. TypeOK /\ TypeOK'
  BY TypeStep DEF HomeInv
<1>1. ASSUME NEW c \in Clients, Begin(c) PROVE HomeInv'
  <2>1. pc'[c] = "connect" /\ \A d \in Clients \ {c} : pc'[d] = pc[d] /\ job'[d] = job[d]
    BY <1>0, <1>1 DEF Begin, TypeOK
  <2>2. OnHome'
    BY <1>1, <2>1 DEF Begin, HomeInv, OnHome, Touches
  <2> QED
    BY <1>0, <1>1, <2>2 DEF Begin, HomeInv, KeysAtHome
<1>2. ASSUME NEW c \in Clients, Connect(c) PROVE HomeInv'
  <2>1. connected /\ Touches(job[c]) => current_db = Home[job[c].key]
    <3>1. vars' # vars
      BY <1>0, <1>2 DEF Connect, TypeOK, vars
    <3> QED
      BY <1>2, <3>1 DEF StillSelected
  <2>2. /\ conn'[c] = current_db /\ UNCHANGED <<connected, job>>
        /\ \A d \in Clients \ {c} : pc'[d] = pc[d] /\ conn'[d] = conn[d]
    BY <1>0, <1>2 DEF Connect, TypeOK
  <2>3. OnHome'
    BY <2>1, <2>2 DEF HomeInv, OnHome, Touches
  <2> QED
    BY <1>0, <1>2, <2>3 DEF Connect, HomeInv, KeysAtHome
<1>3. ASSUME NEW c \in Clients, pc' = [pc EXCEPT ![c] = "idle"],
             UNCHANGED <<connected, job, conn>>
      PROVE  OnHome'
  BY <1>0, <1>3 DEF HomeInv, OnHome, Touches, TypeOK
<1>4. ASSUME NEW c \in Clients, Fail(c) PROVE HomeInv'
  BY <1>0, <1>3, <1>4 DEF Fail, HomeInv, KeysAtHome
<1>5. ASSUME NEW c \in Clients, Set(c) PROVE HomeInv'
  <2>1. OnHome'
    BY <1>3, <1>5 DEF Set, Command
  <2>2. CASE connected
    <3>1. PICK v \in Values : redis' = [redis EXCEPT ![conn[c]][job[c].key] = v]
      BY <1>5, <2>2 DEF Set
    <3>2. job[c].key \in Keys /\ conn[c] = Home[job[c].key] /\ conn[c] \in Dbs
      BY <1>5, <2>2, CommandAtHome DEF Set, Command, Touches
    <3>3. KeysAtHome'
      BY <1>0, <3>1, <3>2 DEF HomeInv, KeysAtHome, TypeOK
    <3> QED
      BY <1>0, <1>5, <2>1, <2>2, <3>3 DEF Set, Command, HomeInv
  <2>3. CASE ~connected
    BY <1>0, <1>5, <2>1, <2>3 DEF Set, Command, HomeInv, KeysAtHome
  <2> QED
    BY <2>2, <2>3
<1>6. ASSUME NEW c \in Clients, Get(c) PROVE HomeInv'
  BY <1>0, <1>3, <1>6 DEF Get, Command, HomeInv, KeysAtHome
<1>7. ASSUME NEW d \in Dbs, NEW k \in Keys, redis' = [redis EXCEPT ![d][k] = Nil]
      PROVE  KeysAtHome'
  BY <1>0, <1>7 DEF HomeInv, KeysAtHome, TypeOK
<1>8. ASSUME NEW c \in Clients, Delete(c) PROVE HomeInv'
  <2>1. OnHome'
    BY <1>3, <1>8 DEF Delete, Command
  <2>2. CASE connected
    <3>1. conn[c] \in Dbs /\ job[c].key \in Keys
      BY <1>0 DEF TypeOK, Job
    <3>2. KeysAtHome'
      BY <1>7, <1>8, <2>2, <3>1 DEF Delete
    <3> QED
      BY <1>0, <1>8, <2>1, <2>2, <3>2 DEF Delete, Command, HomeInv
  <2>3. CASE ~connected
    BY <1>0, <1>8, <2>1, <2>3 DEF Delete, Command, HomeInv, KeysAtHome
  <2> QED
    BY <2>2, <2>3
<1>9. ASSUME NEW c \in Clients, Xadd(c) PROVE HomeInv'
  BY <1>0, <1>3, <1>9 DEF Xadd, Command, HomeInv, KeysAtHome
<1>10. CASE Expire
  <2>1. KeysAtHome'
    BY <1>7, <1>10 DEF Expire
  <2>2. OnHome'
    BY <1>10 DEF Expire, HomeInv, OnHome, Touches
  <2> QED
    BY <1>0, <1>10, <2>1, <2>2 DEF Expire, HomeInv
<1>11. CASE UNCHANGED vars
  BY <1>0, <1>11 DEF vars, HomeInv, OnHome, KeysAtHome, Touches
<1> QED
  BY <1>1, <1>2, <1>4, <1>5, <1>6, <1>8, <1>9, <1>10, <1>11 DEF Next

(* "Redis DB 0 - system": a key is never stored in another database in any *)
(* behaviour in which connections find the register where their call left  *)
(* it.  No order of commands, failure or expiry can do it: the read of the *)
(* shared register is the only way (conn, select_db_on_conn).              *)
THEOREM KeysAtHomeHolds == Spec /\ [][StillSelected]_vars => []KeysAtHome
<1>1. HomeInv /\ [Next]_vars /\ [StillSelected]_vars => HomeInv'
  BY HomeStep
<1>2. HomeInv => KeysAtHome
  BY DEF HomeInv
<1> QED
  BY <1>1, <1>2, HomeInit, PTL DEF Spec

-----------------------------------------------------------------------------
(* The refinement.  Each step of the store is a step of the map or leaves  *)
(* it alone; data is the map as its users read it.                         *)

data == [k \in Keys |-> IF connected THEN redis[Home[k]][k] ELSE memory[k]]

(* A write of one value is a Put or a Drop at that key.                    *)
LEMMA DataWritten ==
    ASSUME TypeOK, OnHome, NEW c \in Clients, pc[c] = "command", Touches(job[c]),
           NEW v, connected' = connected,
           IF connected
           THEN redis' = [redis EXCEPT ![conn[c]][job[c].key] = v] /\ UNCHANGED memory
           ELSE memory' = [memory EXCEPT ![job[c].key] = v] /\ UNCHANGED redis
    PROVE  job[c].key \in Keys /\ data' = [data EXCEPT ![job[c].key] = v]
<1>1. job[c].key \in Keys /\ \A k \in Keys : Home[k] \in Dbs
  BY KvAssumption DEF TypeOK, Job
<1>2. CASE connected
  <2>1. conn[c] = Home[job[c].key]
    BY <1>2 DEF OnHome
  <2>2. \A k \in Keys : redis'[Home[k]][k] = IF k = job[c].key THEN v ELSE redis[Home[k]][k]
    BY <1>1, <1>2, <2>1 DEF TypeOK
  <2> QED
    BY <1>1, <1>2, <2>2 DEF data
<1>3. CASE ~connected
  <2>1. \A k \in Keys : memory'[k] = IF k = job[c].key THEN v ELSE memory[k]
    BY <1>1, <1>3 DEF TypeOK
  <2> QED
    BY <1>1, <1>3, <2>1 DEF data
<1> QED
  BY <1>2, <1>3

(* Every step of the store is a step of the map, or stutters.              *)
LEMMA MapStep ==
    ASSUME TypeOK, OnHome, [Next]_vars
    PROVE  [Map!Next]_<<data, seen>>
<1> USE DEF Map!Next, Map!Put, Map!Look, Map!Drop
<1>1. ASSUME UNCHANGED <<connected, memory, redis, seen>> PROVE UNCHANGED <<data, seen>>
  BY <1>1 DEF data
<1>2. ASSUME NEW c \in Clients, Begin(c) \/ Connect(c) \/ Fail(c) \/ Xadd(c)
      PROVE  UNCHANGED <<data, seen>>
  BY <1>1, <1>2 DEF Begin, Connect, Fail, Xadd, Command
<1>3. ASSUME NEW c \in Clients, Set(c) PROVE Map!Next
  <2>1. PICK v \in Values :
          /\ IF connected
             THEN redis' = [redis EXCEPT ![conn[c]][job[c].key] = v] /\ UNCHANGED memory
             ELSE memory' = [memory EXCEPT ![job[c].key] = v] /\ UNCHANGED redis
          /\ seen' = [seen EXCEPT ![c] = v]
    BY <1>3 DEF Set
  <2>2. job[c].key \in Keys /\ data' = [data EXCEPT ![job[c].key] = v]
    BY <1>3, <2>1, DataWritten DEF Set, Command, Touches
  <2> QED
    BY <2>1, <2>2 DEF data
<1>4. ASSUME NEW c \in Clients, Get(c) PROVE Map!Next
  <2>1. job[c].key \in Keys
    BY DEF TypeOK, Job
  <2>2. data[job[c].key] = IF connected THEN redis[conn[c]][job[c].key] ELSE memory[job[c].key]
    BY <1>4, <2>1 DEF Get, Command, Touches, OnHome, data
  <2>3. seen' = [seen EXCEPT ![c] = data[job[c].key]] /\ UNCHANGED data
    BY <1>4, <2>2 DEF Get, Command, data
  <2> QED
    BY <2>1, <2>3 DEF data
<1>5. ASSUME NEW c \in Clients, Delete(c) PROVE Map!Next
  <2>1. job[c].key \in Keys /\ data' = [data EXCEPT ![job[c].key] = Nil]
    BY <1>5, DataWritten DEF Delete, Command, Touches
  <2> QED
    BY <1>5, <2>1 DEF Delete, data
<1>6. CASE Expire
  <2>1. PICK d \in Dbs, k \in Keys : redis' = [redis EXCEPT ![d][k] = Nil]
    BY <1>6 DEF Expire
  <2>2. \A h \in Keys : redis'[Home[h]][h]
                         = IF d = Home[h] /\ h = k THEN Nil ELSE redis[Home[h]][h]
    BY <2>1, KvAssumption DEF TypeOK
  <2>3. CASE d = Home[k]
    <3>1. data' = [data EXCEPT ![k] = Nil]
      BY <1>6, <2>2, <2>3 DEF Expire, data
    <3> QED
      BY <1>6, <3>1 DEF Expire, data
  <2>4. CASE d # Home[k]
    BY <1>6, <2>2, <2>4 DEF Expire, data
  <2> QED
    BY <2>3, <2>4
<1>7. CASE UNCHANGED vars
  BY <1>1, <1>7 DEF vars
<1> QED
  BY <1>2, <1>3, <1>4, <1>5, <1>6, <1>7 DEF Next

(* The store starts as the empty map.                                      *)
LEMMA MapInit == Init => Map!Init
BY KvAssumption DEF Init, Map!Init, Empty

(* In the same behaviours the store with Redis is the map of its users,    *)
(* for calls that overlap as well: a get answers the last value set (get,  *)
(* set, del).                                                              *)
THEOREM ImplementsMapHolds == Spec /\ [][StillSelected]_vars => ImplementsMap
<1>1. HomeInv /\ [Next]_vars /\ [StillSelected]_vars => HomeInv'
  BY HomeStep
<1>2. HomeInv /\ [Next]_vars => [Map!Next]_<<data, seen>>
  BY MapStep DEF HomeInv
<1> QED
  BY <1>1, <1>2, HomeInit, MapInit, PTL DEF Spec, ImplementsMap, Map!Spec, data

(* Without Redis it is, whatever jobs the clients do and however their     *)
(* calls interleave: the register is ignored (the branches of store.rs     *)
(* that use the map in memory).                                            *)
THEOREM MemoryImplementsMap == Spec /\ ~connected => ImplementsMap
<1> DEFINE Unconnected == TypeOK /\ ~connected
<1>1. Init /\ ~connected => Unconnected
  BY TypeInit
<1>2. Unconnected /\ [Next]_vars => Unconnected'
  <2>1. ASSUME [Next]_vars PROVE connected' = connected
    BY <2>1 DEF Next, vars, Begin, Connect, Fail, Set, Get, Delete, Xadd, Command, Expire
  <2> QED
    BY <2>1, TypeStep
<1>3. Unconnected /\ [Next]_vars => [Map!Next]_<<data, seen>>
  BY MapStep DEF OnHome
<1> QED
  BY <1>1, <1>2, <1>3, MapInit, PTL DEF Spec, ImplementsMap, Map!Spec, data
=============================================================================
