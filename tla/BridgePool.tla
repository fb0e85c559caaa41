----------------------------- MODULE BridgePool -----------------------------
(***************************************************************************)
(* The bridges of waters-node (src/bridge.rs): which of them the link      *)
(* governor keeps enabled, and how old the answers are that calls of an    *)
(* LLM bridge get out of its two caches.                                   *)
(*                                                                         *)
(* The pool is owned by the command loop: no two of the operations overlap.*)
(* autoadjust governs the links one after the other, in the order of a     *)
(* hash map, and each link sees what the ones before it switched off.      *)
(*                                                                         *)
(* BridgePool::call caches an answer for 30 seconds, LlmBridge::call below *)
(* it for 60.  Cached answers are kept per key; keys do not interact, so   *)
(* the module follows one key of one LLM bridge.  The store is KvStore: a  *)
(* get may miss and a set may fail or land elsewhere; without Redis an     *)
(* entry never expires.                                                    *)
(***************************************************************************)
EXTENDS Naturals, FiniteSets, Sequences, SequencesExt, FiniteSetsExt

CONSTANTS
    Bridges, Links,
    LlmBridges,         \* the bridges whose names begin with llm-
    Llm,                \* the LLM bridge whose answers are followed
    Need,               \* bandwidth_kbps of each bridge
    StartPriority,      \* the priority each bridge is registered with, as configured
    Bandwidths,         \* measured_bandwidth_kbps a link may have
    Inputs,             \* priorities the operator types
    PoolTtl, LlmTtl,    \* lifetimes of cache entries, in ticks
    MaxAge              \* bound: older entries of the in-memory store look alike

ASSUME BridgeAssumption ==
    /\ LlmBridges \subseteq Bridges /\ Llm \in LlmBridges /\ IsFiniteSet(Bridges) /\ IsFiniteSet(Links)
    /\ Need \in [Bridges -> Nat] /\ StartPriority \in [Bridges -> 0..255]
    /\ Bandwidths \subseteq Nat /\ Inputs \subseteq 0..255

ASSUME TtlAssumption ==
    /\ PoolTtl \in Nat \ {0} /\ LlmTtl \in Nat \ {0} /\ MaxAge \in Nat

VARIABLES
    info,       \* each bridge: enabled, locked, priority
    available,  \* each link: measured bandwidth; measure() is never called
    governing,  \* links autoadjust still has to govern
    store,      \* the store is Redis or a map in memory
    pool, llm,  \* the entry of the key in either cache
    last        \* the age of the answer the last call got

vars == <<info, available, governing, store, pool, llm, last>>
caches == <<store, pool, llm, last>>

Missing == [live |-> FALSE, age |-> 0, left |-> 0]
Entry(a, ttl) == [live |-> TRUE, age |-> a, left |-> ttl]

Init ==
    /\ info = [b \in Bridges |-> [enabled |-> TRUE, locked |-> FALSE,
                                  priority |-> StartPriority[b]]]
    /\ available \in [Links -> Bandwidths]
    /\ governing = {}
    /\ store \in {"redis", "memory"}
    /\ pool = Missing /\ llm = Missing /\ last = 0

Enabled == {b \in Bridges : info[b].enabled}
Locked  == {b \in Bridges : info[b].locked}
Load(S) == MapThenSumSet(LAMBDA b : Need[b], S)

-----------------------------------------------------------------------------
(* /priorities set, lock, unlock, and /llm set.                            *)

(* Mutant: only the upper end is clamped.                                 *)
ClampHigh(p) == IF p > 5 THEN 5 ELSE p
Clamp(p) == IF p < 1 THEN 1 ELSE IF p > 5 THEN 5 ELSE p

SetPriority(b, p) ==
    /\ governing = {}
    /\ info' = [info EXCEPT ![b].priority = Clamp(p)]
    /\ governing' = Links
    /\ UNCHANGED <<available, caches>>

(* /llm set: this one first, the others last; nothing is governed.         *)
LlmSet(b) ==
    /\ governing = {}
    /\ info' = [c \in Bridges |->
                  IF c \in LlmBridges THEN [info[c] EXCEPT !.priority = IF c = b THEN 1 ELSE 5]
                  ELSE info[c]]
    /\ UNCHANGED <<available, governing, caches>>

Lock(b) ==
    /\ governing = {}
    /\ info' = [info EXCEPT ![b].locked = TRUE]
    /\ UNCHANGED <<available, governing, caches>>

(* Unlocking does not govern the links again.                              *)
Unlock(b) ==
    /\ governing = {}
    /\ info' = [info EXCEPT ![b].locked = FALSE]
    /\ UNCHANGED <<available, governing, caches>>

-----------------------------------------------------------------------------
(* govern and autoadjust.                                                  *)

(* Mutant: the enabled bridges are taken in the order of the hash map.     *)
AnyOrder(s) == TRUE
(* sort_by_key is stable; bridges of one priority stay in hash map order.  *)
ByPriority(s) == \A i, j \in DOMAIN s : i < j => info[s[i]].priority <= info[s[j]].priority

(* Mutants: locked bridges are admitted like the others; the bandwidth the *)
(* locked bridges take is not counted.                                     *)
AdmitLocked(kept, order, room) == \A i \in DOMAIN order :
    order[i] \in kept <=>
        Load({order[j] : j \in 1..i} \cap (kept \cup {order[i]})) <= room
AdmitUncounted(kept, order, room) == \A i \in DOMAIN order :
    order[i] \in kept <=>
        \/ order[i] \in Locked
        \/ Load(({order[j] : j \in 1..i} \cap (kept \cup {order[i]})) \ Locked) <= room
(* Locked bridges are kept; the others in turn, each if it still fits.     *)
Admit(kept, order, room) == \A i \in DOMAIN order :
    order[i] \in kept <=>
        \/ order[i] \in Locked
        \/ Load((Enabled \cap Locked) \cup ({order[j] : j \in 1..i} \cap (kept \cup {order[i]})))
              <= room

Switch(on, off) ==
    info' = [b \in Bridges |-> [info[b] EXCEPT !.enabled = (@ \/ b \in on) /\ b \notin off]]

(* A link without bandwidth keeps nothing, locked or not.                  *)
GovernDeadLink(l) ==
    /\ l \in governing /\ available[l] = 0
    /\ Switch({}, Bridges)
    /\ governing' = governing \ {l}
    /\ UNCHANGED <<available, caches>>

GovernLink(l) ==
    /\ l \in governing /\ available[l] > 0
    /\ \E order \in {s \in SetToSeqs(Enabled) : ByPriority(s)}, kept \in SUBSET Enabled :
          /\ Admit(kept, order, available[l])
          /\ Switch(kept, Enabled \ kept)
    /\ governing' = governing \ {l}
    /\ UNCHANGED <<available, caches>>

-----------------------------------------------------------------------------
(* Calls.  A bridge that fails returns its error and changes nothing.      *)

(* The provider answers: the text is saved, unless the set fails; an empty *)
(* text is saved too, but a call takes it for a miss.                      *)
Provider == /\ llm' \in {Entry(0, LlmTtl), Missing, llm}
            /\ last' = 0

(* Mutant: a hit is saved again, for another lifetime.                     *)
LlmCallRenews ==
    \/ llm.live /\ last' = llm.age /\ llm' = Entry(llm.age, LlmTtl)
    \/ Provider
(* LlmBridge::call.                                                        *)
LlmCall ==
    \/ llm.live /\ last' = llm.age /\ UNCHANGED llm
    \/ Provider

(* BridgePool::call: the one caller that asks whether the bridge is enabled. *)
PoolHit ==
    /\ governing = {} /\ info[Llm].enabled
    /\ pool.live /\ last' = pool.age
    /\ UNCHANGED <<info, available, governing, store, pool, llm>>

PoolCall ==
    /\ governing = {} /\ info[Llm].enabled
    /\ LlmCall
    /\ pool' \in {Entry(last', PoolTtl), pool}
    /\ UNCHANGED <<info, available, governing, store>>

(* A chain of tasks gets the bridge out of the pool and calls it.          *)
ChainCall ==
    /\ governing = {}
    /\ LlmCall
    /\ UNCHANGED <<info, available, governing, store, pool>>

(* The terminal agent streams: it saves the answer and never looks it up.  *)
StreamCall ==
    /\ governing = {}
    /\ Provider
    /\ UNCHANGED <<info, available, governing, store, pool>>

Older(e) ==
    IF ~e.live THEN e
    ELSE IF store = "memory" THEN [e EXCEPT !.age = IF @ < MaxAge THEN @ + 1 ELSE @]
    ELSE IF e.left = 1 THEN Missing ELSE [e EXCEPT !.age = @ + 1, !.left = @ - 1]

Tick ==
    /\ governing = {} /\ pool' = Older(pool) /\ llm' = Older(llm)
    /\ UNCHANGED <<info, available, governing, store, last>>

Next ==
    \/ \E b \in Bridges : \/ Lock(b) \/ Unlock(b)
                          \/ \E p \in Inputs : SetPriority(b, p)
    \/ \E b \in LlmBridges : LlmSet(b)
    \/ \E l \in Links : GovernDeadLink(l) \/ GovernLink(l)
    \/ PoolHit \/ PoolCall \/ ChainCall \/ StreamCall \/ Tick

Spec == Init /\ [][Next]_vars

-----------------------------------------------------------------------------
(* Properties.                                                             *)

CacheEntry == [live : BOOLEAN, age : Nat, left : 0..(PoolTtl + LlmTtl)]

(* Every variable has its type, and a priority is one of the five or the   *)
(* configured one, which nobody clamps.                                    *)
TypeOK ==
    /\ info \in [Bridges -> [enabled : BOOLEAN, locked : BOOLEAN, priority : 0..255]]
    /\ \A b \in Bridges : info[b].priority \in 1..5 \cup {StartPriority[b]}
    /\ available \in [Links -> Bandwidths] /\ governing \subseteq Links
    /\ store \in {"redis", "memory"}
    /\ pool \in CacheEntry /\ llm \in CacheEntry /\ last \in Nat

(* "Locked bridges always go first (never offloaded)": as long as every    *)
(* link has some bandwidth.                                                *)
LockedKept ==
    [][\A b \in Enabled \cap Locked : (\A l \in Links : available[l] > 0) => info'[b].enabled]_vars

(* "Locked bridges always go first (never offloaded)", whatever the links. *)
LockedNeverOffloaded == [][\A b \in Enabled \cap Locked : info'[b].enabled]_vars

(* A bridge that is offloaded gave way to bridges of its priority or a     *)
(* better one, or was too large where a smaller one still fitted.          *)
PriorityWins ==
    [][\A b, c \in Enabled \ Locked :
         ~info'[b].enabled /\ info'[c].enabled =>
             info[c].priority <= info[b].priority \/ Need[c] < Need[b]]_vars

(* When the governor is done the enabled bridges fit every link, governed  *)
(* first or last, except for what is locked.                               *)
EnabledFit ==
    [][governing # {} /\ governing' = {} =>
         \A l \in Links : Load(Enabled') <= available[l] \/ Enabled' \subseteq Locked']_vars

(* Two caches on top of each other: an answer is never older than the two  *)
(* lifetimes together (90 seconds), however calls and streams alternate.   *)
AnswerAge == store = "redis" => last + 2 <= PoolTtl + LlmTtl
=============================================================================
