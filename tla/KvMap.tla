------------------------------- MODULE KvMap --------------------------------
(***************************************************************************)
(* What the users of the key-value store of waters-node rely on: one map   *)
(* from keys to values, in which a get answers with the last value set,    *)
(* until the key is deleted or expires.                                    *)
(***************************************************************************)
CONSTANTS Clients, Keys, Values, Nil

VARIABLES
    data,       \* the map
    answer      \* each client: the value it last put, or was answered

Init ==
    /\ data = [k \in Keys |-> Nil]
    /\ answer = [c \in Clients |-> Nil]

Put(c, k, v) == data' = [data EXCEPT ![k] = v] /\ answer' = [answer EXCEPT ![c] = v]
Look(c, k)   == answer' = [answer EXCEPT ![c] = data[k]] /\ UNCHANGED data
Drop(k)      == data' = [data EXCEPT ![k] = Nil] /\ UNCHANGED answer

Next == \E k \in Keys :
    \/ Drop(k)
    \/ \E c \in Clients : Look(c, k) \/ \E v \in Values : Put(c, k, v)

Spec == Init /\ [][Next]_<<data, answer>>
=============================================================================
