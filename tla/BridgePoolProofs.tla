-------------------------- MODULE BridgePoolProofs --------------------------
(***************************************************************************)
(* BridgePool for any bridges, links, bandwidths and lifetimes.            *)
(*                                                                         *)
(* The governor compares sums of bandwidths, which Load computes by a      *)
(* fold.  What the proofs need of it, that it grows with the set and adds  *)
(* a bridge's need, follows once the sum is known to count something: the  *)
(* units of bandwidth the bridges ask for.                                 *)
(*                                                                         *)
(* LockedKept and PriorityWins are then read off one link's pass.          *)
(* EnabledFit is not: the link governed last says nothing of those before  *)
(* it.  The invariant Fitted remembers that each of them fits.             *)
(*                                                                         *)
(* AnswerAge is not inductive either: it says nothing of the entries that  *)
(* later calls return.  Aged adds what an entry has aged to what it has    *)
(* left.                                                                   *)
(***************************************************************************)
EXTENDS BridgePool, FiniteSetTheorems, WellFoundedInduction, TLAPS

-----------------------------------------------------------------------------
(* What Load adds up.                                                      *)

(* The recursion of the fold of Load.                                      *)
SumsUp(S, sum) ==
    sum = [s \in SUBSET S |-> IF s = {} THEN 0
              ELSE Need[CHOOSE x \in s : TRUE] + sum[s \ {CHOOSE x \in s : TRUE}]]

(* Every unit of bandwidth a set of bridges asks for.                      *)
Units(S) == UNION {{b} \X (1..Need[b]) : b \in S}

(* The numbers from 1 to n are n.                                          *)
LEMMA NaturalInterval ==
    ASSUME NEW n \in Nat
    PROVE  IsFiniteSet(1..n) /\ Cardinality(1..n) = n
<1>1. IsFiniteSet(1..n) /\ Cardinality(1..n) = IF 1 > n THEN 0 ELSE n - 1 + 1
    BY FS_Interval
<1> QED BY <1>1

(* A set of bridges is finite, and asks for finitely many units.           *)
LEMMA UnitsFinite ==
    ASSUME NEW S \in SUBSET Bridges
    PROVE  IsFiniteSet(S) /\ IsFiniteSet(Units(S)) /\ Cardinality(Units(S)) \in Nat
<1>1. IsFiniteSet(S)
    BY BridgeAssumption, FS_Subset
<1> DEFINE P == {{b} \X (1..Need[b]) : b \in S}
<1> DEFINE f == [b \in S |-> {b} \X (1..Need[b])]
<1>2. f \in Surjection(S, P)
    BY DEF Surjection
<1>3. IsFiniteSet(P)
    BY <1>1, <1>2, FS_Surjection
<1>4. ASSUME NEW T \in P PROVE IsFiniteSet(T)
  <2>1. PICK b \in S : T = {b} \X (1..Need[b])
      OBVIOUS
  <2>2. Need[b] \in Nat
      BY BridgeAssumption
  <2>3. IsFiniteSet({b}) /\ IsFiniteSet(1..Need[b])
      BY <2>2, NaturalInterval, FS_Singleton
  <2> QED BY <2>1, <2>3, FS_Product
<1>5. IsFiniteSet(UNION P)
    BY <1>3, <1>4, FS_UNION
<1> QED BY <1>1, <1>5, FS_CardinalityType DEF Units

(* One more bridge asks for as many units more as it needs.                *)
LEMMA UnitsAdd ==
    ASSUME NEW S \in SUBSET Bridges, NEW x \in Bridges \ S
    PROVE  Cardinality(Units(S \cup {x})) = Need[x] + Cardinality(Units(S))
<1>1. Need[x] \in Nat
    BY BridgeAssumption
<1> DEFINE X == {x} \X (1..Need[x])
<1>2. IsFiniteSet({x}) /\ IsFiniteSet(1..Need[x])
      /\ Cardinality({x}) = 1 /\ Cardinality(1..Need[x]) = Need[x]
    BY <1>1, NaturalInterval, FS_Singleton
<1>3. IsFiniteSet(X) /\ Cardinality(X) = Need[x]
  <2>1. IsFiniteSet(X) /\ Cardinality(X) = Cardinality({x}) * Cardinality(1..Need[x])
      BY ONLY <1>2, FS_Product
  <2>2. Cardinality(X) = 1 * Need[x]
      BY <1>2, <2>1
  <2> QED BY <2>1, <2>2, <1>1
<1>4. Units(S \cup {x}) = Units(S) \cup X
    BY DEF Units
<1>5. Units(S) \cap X = {}
    BY DEF Units
<1>6. Cardinality(Units(S) \cap X) = 0
    BY <1>5, FS_EmptySet
<1> HIDE DEF X
<1>7. Cardinality(Units(S) \cup X) = Cardinality(Units(S)) + Cardinality(X) - 0
    BY <1>3, <1>6, UnitsFinite, FS_Union
<1>8. Cardinality(Units(S)) \in Nat
    BY UnitsFinite
<1>9. Cardinality(Units(S \cup {x})) = Cardinality(Units(S)) + Cardinality(X) - 0
    BY <1>4, <1>7, Zenon
<1> QED BY <1>1, <1>3, <1>8, <1>9

(* The number of units obeys the recursion ...                             *)
LEMMA UnitsSumUp ==
    ASSUME NEW S \in SUBSET Bridges
    PROVE  SumsUp(S, [s \in SUBSET S |-> Cardinality(Units(s))])
<1> DEFINE sum == [s \in SUBSET S |-> Cardinality(Units(s))]
<1> SUFFICES ASSUME NEW s \in SUBSET S
             PROVE  sum[s] = IF s = {} THEN 0
                       ELSE Need[CHOOSE x \in s : TRUE] + sum[s \ {CHOOSE x \in s : TRUE}]
    BY DEF SumsUp
<1>1. CASE s = {}
    BY <1>1, FS_EmptySet DEF Units
<1>2. CASE s # {}
  <2>1. PICK x : x = CHOOSE y \in s : TRUE
      OBVIOUS
  <2>2. x \in s
      BY <1>2, <2>1
  <2>3. s \ {x} \in SUBSET Bridges /\ x \in Bridges \ (s \ {x}) /\ (s \ {x}) \cup {x} = s
      BY <2>2
  <2>4. Cardinality(Units(s)) = Need[x] + Cardinality(Units(s \ {x}))
      BY <2>3, UnitsAdd
  <2> QED BY <1>2, <2>1, <2>4
<1> QED BY <1>1, <1>2

(* ... and nothing else does: take a smallest set on which two sums differ.*)
LEMMA SumIsUnique ==
    ASSUME NEW S \in SUBSET Bridges, NEW f, NEW g, SumsUp(S, f), SumsUp(S, g)
    PROVE  f[S] = g[S]
<1> DEFINE Differ == {s \in SUBSET S : f[s] # g[s]}
<1> DEFINE Sizes == {n \in Nat : \E s \in Differ : Cardinality(s) = n}
<1>1. \A s \in SUBSET S : IsFiniteSet(s) /\ Cardinality(s) \in Nat
    BY UnitsFinite, FS_CardinalityType
<1>2. ASSUME Sizes # {} PROVE FALSE
  <2>1. PICK n \in Sizes : \A m \in Sizes : ~(<<m, n>> \in OpToRel(<, Nat))
      BY <1>2, WFMin, NatLessThanWellFounded
  <2>2. \A m \in Sizes : ~(m < n)
      BY <2>1 DEF OpToRel
  <2>3. PICK s \in Differ : Cardinality(s) = n
      OBVIOUS
  <2>4. s # {}
      BY DEF SumsUp
  <2>5. PICK x : x = CHOOSE y \in s : TRUE
      OBVIOUS
  <2>6. x \in s
      BY <2>4, <2>5
  <2>7. Cardinality(s \ {x}) = n - 1 /\ s \ {x} \in SUBSET S
      BY <1>1, <2>3, <2>6, FS_RemoveElement
  <2>8. n - 1 \in Nat /\ n - 1 < n
      BY <1>1, <2>7
  <2>9. s \ {x} \notin Differ
      BY <2>2, <2>7, <2>8
  <2>10. f[s \ {x}] = g[s \ {x}]
      BY <2>7, <2>9
  <2>11. f[s] = Need[x] + f[s \ {x}] /\ g[s] = Need[x] + g[s \ {x}]
      BY <2>4, <2>5 DEF SumsUp
  <2> QED BY <2>10, <2>11
<1>3. S \notin Differ
    BY <1>1, <1>2
<1> QED BY <1>3

(* What the fold adds up is the number of units.                           *)
LEMMA LoadIsUnits ==
    ASSUME NEW S \in SUBSET Bridges
    PROVE  Load(S) = Cardinality(Units(S))
<1> DEFINE f == CHOOSE sum : SumsUp(S, sum)
<1>2. Load(S) = f[S]
    BY DEF Load, MapThenSumSet, MapThenFoldSet, SumsUp
<1> DEFINE g == [s \in SUBSET S |-> Cardinality(Units(s))]
<1>3. SumsUp(S, g)
    BY UnitsSumUp
<1> HIDE DEF g
<1>4. SumsUp(S, f)
    BY <1>3
<1> HIDE DEF f
<1>5. f[S] = g[S]
    BY <1>3, <1>4, SumIsUnique
<1> QED BY <1>2, <1>5 DEF g

(* One more bridge adds what it needs.                                     *)
LEMMA LoadAdds ==
    ASSUME NEW S \in SUBSET Bridges, NEW x \in Bridges \ S
    PROVE  Load(S \cup {x}) = Load(S) + Need[x]
<1>1. Need[x] \in Nat /\ Cardinality(Units(S)) \in Nat
    BY BridgeAssumption, UnitsFinite
<1> QED BY <1>1, UnitsAdd, LoadIsUnits

(* Fewer bridges never need more.                                          *)
LEMMA LoadGrows ==
    ASSUME NEW S \in SUBSET Bridges, NEW T \in SUBSET S
    PROVE  Load(T) \in Nat /\ Load(S) \in Nat /\ Load(T) <= Load(S)
<1>1. Units(T) \in SUBSET Units(S)
    BY DEF Units
<1>2. Cardinality(Units(T)) <= Cardinality(Units(S))
    BY <1>1, UnitsFinite, FS_Subset
<1> QED BY <1>2, UnitsFinite, LoadIsUnits

-----------------------------------------------------------------------------
(* Types, and what a step does to a bridge.                                *)

(* What is known of a bridge.                                              *)
InfoRec == [enabled : BOOLEAN, locked : BOOLEAN, priority : 0..255]

(* A cache entry is at least a tick from its end, if it lives.             *)
Lives(e) == e.live => e.left >= 1
PoolInv == TypeOK /\ Lives(pool) /\ Lives(llm)

(* Every bridge is switched by itself.                                     *)
LEMMA SwitchOne ==
    ASSUME info \in [Bridges -> InfoRec], NEW on, NEW off, Switch(on, off)
    PROVE  /\ info' \in [Bridges -> InfoRec]
           /\ \A b \in Bridges :
                 /\ info'[b].enabled = ((info[b].enabled \/ b \in on) /\ b \notin off)
                 /\ info'[b].locked = info[b].locked
                 /\ info'[b].priority = info[b].priority
<1> SUFFICES ASSUME NEW b \in Bridges
             PROVE  /\ info'[b] \in InfoRec
                    /\ info'[b].enabled = ((info[b].enabled \/ b \in on) /\ b \notin off)
                    /\ info'[b].locked = info[b].locked
                    /\ info'[b].priority = info[b].priority
  <2>1. info' = [b \in Bridges |-> info'[b]]
      BY DEF Switch
  <2> QED BY <2>1
<1>1. info'[b] = [info[b] EXCEPT !.enabled = (@ \/ b \in on) /\ b \notin off]
    BY DEF Switch
<1>2. info[b] \in InfoRec
    OBVIOUS
<1>3. ((info[b].enabled \/ b \in on) /\ b \notin off) \in BOOLEAN
    OBVIOUS
<1> QED BY <1>1, <1>2, <1>3 DEF InfoRec

(* An entry that gets older remains one.                                   *)
LEMMA OlderTyped ==
    ASSUME NEW e \in CacheEntry, Lives(e), store \in {"redis", "memory"}
    PROVE  Older(e) \in CacheEntry /\ Lives(Older(e))
<1>0. PoolTtl + LlmTtl \in Nat
    BY TtlAssumption
<1>1. CASE ~e.live
    BY <1>1 DEF Older
<1>2. CASE e.live /\ store = "memory"
    BY <1>0, <1>2, TtlAssumption DEF Older, CacheEntry, Lives
<1>3. CASE e.live /\ store = "redis" /\ e.left = 1
    BY <1>0, <1>3 DEF Older, Missing, CacheEntry, Lives
<1>4. CASE e.live /\ store = "redis" /\ e.left # 1
  <2>1. Older(e) = [e EXCEPT !.age = @ + 1, !.left = @ - 1]
      BY <1>4 DEF Older
  <2>2. e.age \in Nat /\ e.left \in Nat /\ e.left >= 2 /\ e.left <= PoolTtl + LlmTtl
      BY <1>0, <1>4 DEF CacheEntry, Lives
  <2>3. e.age + 1 \in Nat /\ e.left - 1 \in 0..(PoolTtl + LlmTtl) /\ e.left - 1 >= 1
      BY <1>0, <2>2
  <2>4. /\ Older(e).live = e.live /\ Older(e).age = e.age + 1 /\ Older(e).left = e.left - 1
        /\ Older(e) = [live |-> e.live, age |-> e.age + 1, left |-> e.left - 1]
      BY <2>1 DEF CacheEntry
  <2>5. e.live \in BOOLEAN
      BY DEF CacheEntry
  <2> QED BY <2>3, <2>4, <2>5 DEF CacheEntry, Lives
<1> QED BY <1>1, <1>2, <1>3, <1>4

(* What calls write are entries that live for a tick at least.             *)
LEMMA EntryTyped ==
    ASSUME NEW a \in Nat
    PROVE  /\ Entry(a, PoolTtl) \in CacheEntry /\ Lives(Entry(a, PoolTtl))
           /\ Entry(a, LlmTtl) \in CacheEntry /\ Lives(Entry(a, LlmTtl))
           /\ Missing \in CacheEntry /\ Lives(Missing)
<1>1. PoolTtl \in 0..(PoolTtl + LlmTtl) /\ LlmTtl \in 0..(PoolTtl + LlmTtl)
      /\ 0 \in 0..(PoolTtl + LlmTtl) /\ PoolTtl >= 1 /\ LlmTtl >= 1
    BY TtlAssumption
<1> QED BY <1>1 DEF Entry, Missing, CacheEntry, Lives

(* Every step keeps the types.                                             *)
LEMMA PoolTypes == PoolInv /\ [Next]_vars => PoolInv'
<1> SUFFICES ASSUME PoolInv, [Next]_vars PROVE PoolInv' OBVIOUS
<1> USE DEF PoolInv
<1>0. info \in [Bridges -> InfoRec]
    BY DEF TypeOK, InfoRec
<1>1. ASSUME NEW b \in Bridges, Lock(b) \/ Unlock(b) PROVE PoolInv'
  <2>0. PICK v \in BOOLEAN : info' = [info EXCEPT ![b].locked = v]
      BY <1>1 DEF Lock, Unlock
  <2>1. info' \in [Bridges -> InfoRec]
      BY <2>0, <1>0 DEF InfoRec
  <2>2. \A c \in Bridges : info'[c].priority = info[c].priority
      BY <1>1, <1>0 DEF Lock, Unlock, InfoRec
  <2>3. \A c \in Bridges : info'[c].priority \in 1..5 \cup {StartPriority[c]}
      BY <2>2 DEF TypeOK
  <2> QED BY <1>1, <2>1, <2>3 DEF Lock, Unlock, TypeOK, InfoRec, caches, Lives
<1>2. ASSUME NEW b \in Bridges, NEW p \in Inputs, SetPriority(b, p) PROVE PoolInv'
  <2>1. Clamp(p) \in 1..5 /\ Clamp(p) \in 0..255
      BY BridgeAssumption DEF Clamp
  <2> QED BY <1>0, <1>2, <2>1 DEF SetPriority, TypeOK, InfoRec, caches, Lives
<1>llm. ASSUME NEW b \in LlmBridges, LlmSet(b) PROVE PoolInv'
  <2>1. \A c \in Bridges : /\ info'[c] \in InfoRec
                           /\ info'[c].priority \in {1, 5, info[c].priority}
      BY <1>0, <1>llm DEF LlmSet, InfoRec
  <2>2. info' \in [Bridges -> InfoRec]
      BY <2>1, <1>llm DEF LlmSet
  <2>3. \A c \in Bridges : info'[c].priority \in 1..5 \cup {StartPriority[c]}
      BY <2>1 DEF TypeOK
  <2> QED BY <1>llm, <2>2, <2>3 DEF LlmSet, TypeOK, InfoRec, caches, Lives
<1>3. ASSUME NEW l \in Links, GovernDeadLink(l) \/ GovernLink(l) PROVE PoolInv'
  <2>1. PICK on, off : Switch(on, off)
      BY <1>3 DEF GovernDeadLink, GovernLink
  <2>2. info' \in [Bridges -> InfoRec]
      BY <1>0, <2>1, SwitchOne
  <2>3. \A b \in Bridges : info'[b].priority = info[b].priority
      BY <1>0, <2>1, SwitchOne
  <2>4. governing' = governing \ {l} /\ UNCHANGED <<available, caches>>
      BY <1>3 DEF GovernDeadLink, GovernLink
  <2> QED BY <2>2, <2>3, <2>4 DEF TypeOK, InfoRec, caches, Lives
<1>4. ASSUME LlmCall
      PROVE  llm' \in CacheEntry /\ Lives(llm') /\ last' \in Nat
  <2>1. llm.age \in Nat /\ 0 \in Nat
      BY DEF TypeOK, CacheEntry
  <2>2. Entry(0, LlmTtl) \in CacheEntry /\ Lives(Entry(0, LlmTtl))
        /\ Missing \in CacheEntry /\ Lives(Missing)
      BY <2>1, EntryTyped
  <2> QED BY <1>4, <2>1, <2>2 DEF LlmCall, Provider, TypeOK
<1>5. CASE PoolHit
  <2>1. pool.age \in Nat
      BY DEF TypeOK, CacheEntry
  <2> QED BY <1>5, <2>1 DEF PoolHit, TypeOK
<1>6. CASE PoolCall
    BY <1>4, <1>6, EntryTyped DEF PoolCall, TypeOK
<1>7. CASE ChainCall
    BY <1>4, <1>7 DEF ChainCall, TypeOK
<1>8. CASE StreamCall
    BY <1>4, <1>8 DEF StreamCall, LlmCall, TypeOK
<1>9. CASE Tick
    BY <1>9, OlderTyped DEF Tick, TypeOK
<1>10. CASE UNCHANGED vars
    BY <1>10 DEF vars, TypeOK, Lives
<1> QED BY <1>1, <1>2, <1>llm, <1>3, <1>5, <1>6, <1>7, <1>8, <1>9, <1>10 DEF Next

(* The pool starts with the right types.                                   *)
LEMMA PoolStarts == Init => PoolInv
<1> SUFFICES ASSUME Init PROVE PoolInv OBVIOUS
<1>1. info \in [Bridges -> InfoRec]
    BY BridgeAssumption DEF Init, InfoRec
<1>2. 0 \in Nat
    OBVIOUS
<1> QED BY <1>1, <1>2, EntryTyped DEF Init, PoolInv, TypeOK, InfoRec

(* Every variable of the pool has its type; an entry that lives has at     *)
(* least a tick left.                                                      *)
THEOREM TypeCorrect == Spec => []TypeOK
<1>1. PoolInv => TypeOK
    BY DEF PoolInv
<1> QED BY <1>1, PoolStarts, PoolTypes, PTL DEF Spec

-----------------------------------------------------------------------------
(* The link governor.                                                      *)

(* An order lists every enabled bridge, and none of them twice.            *)
LEMMA OrderLists ==
    ASSUME NEW E \in SUBSET Bridges, NEW order \in SetToSeqs(E)
    PROVE  /\ Cardinality(E) \in Nat /\ DOMAIN order = 1..Cardinality(E)
           /\ order \in [1..Cardinality(E) -> E]
           /\ \A i, j \in DOMAIN order : order[i] = order[j] => i = j
           /\ \A b \in E : \E i \in DOMAIN order : order[i] = b
<1> DEFINE n == Cardinality(E)
<1>1. IsFiniteSet(E) /\ n \in Nat
    BY UnitsFinite, FS_CardinalityType
<1>2. order \in [1..n -> E] /\ \A i, j \in 1..n : i # j => order[i] # order[j]
    BY DEF SetToSeqs
<1>3. IsFiniteSet(1..n) /\ Cardinality(1..n) = n
    BY <1>1, NaturalInterval
<1> HIDE DEF n
<1>4. order \in Injection(1..n, E)
    BY <1>2 DEF Injection, IsInjective
<1>5. Cardinality(1..n) = Cardinality(E)
    BY <1>3 DEF n
<1>6. order \in Surjection(1..n, E)
    BY <1>1, <1>4, <1>5, FS_Injection
<1>7. \A b \in E : \E i \in 1..n : order[i] = b
    BY <1>6 DEF Surjection
<1> QED BY <1>1, <1>2, <1>7 DEF n

(* What a link with bandwidth does.                                        *)
LEMMA LinkGoverned ==
    ASSUME NEW l \in Links, GovernLink(l)
    PROVE  \E order \in SetToSeqs(Enabled), kept \in SUBSET Enabled :
              ByPriority(order) /\ Admit(kept, order, available[l]) /\ Switch(kept, Enabled \ kept)
BY DEF GovernLink

(* The bridges that stay are those the link kept.                          *)
LEMMA KeptStays ==
    ASSUME TypeOK, NEW kept \in SUBSET Enabled, Switch(kept, Enabled \ kept)
    PROVE  Enabled' = kept /\ Locked' = Locked
           /\ \A b \in Bridges : info'[b].enabled <=> b \in kept
<1>1. info \in [Bridges -> InfoRec]
    BY DEF TypeOK, InfoRec
<1>2. \A b \in Bridges :
         /\ info'[b].enabled = ((info[b].enabled \/ b \in kept) /\ b \notin Enabled \ kept)
         /\ info'[b].locked = info[b].locked
    BY <1>1, SwitchOne
<1>3. \A b \in Bridges : info[b].enabled <=> b \in Enabled
    BY DEF Enabled
<1>4. kept \subseteq Bridges
    BY DEF Enabled
<1>5. \A b \in Bridges : info'[b].enabled <=> b \in kept
    BY <1>2, <1>3, <1>4
<1>6. Enabled' = kept
    BY <1>4, <1>5 DEF Enabled
<1>7. Locked' = Locked
    BY <1>2 DEF Locked
<1> QED BY <1>5, <1>6, <1>7

(* A locked bridge that is enabled is kept.                                *)
LEMMA LockedAdmitted ==
    ASSUME NEW order \in SetToSeqs(Enabled), NEW kept \in SUBSET Enabled, NEW room,
           Admit(kept, order, room), NEW b \in Enabled \cap Locked
    PROVE  b \in kept
<1>0. Enabled \in SUBSET Bridges
    BY DEF Enabled
<1>1. PICK E : E = Enabled
    OBVIOUS
<1>2. PICK i \in DOMAIN order : order[i] = b
    BY <1>0, <1>1, OrderLists
<1> QED BY <1>2 DEF Admit

(* The steps that leave every bridge switched as it is.                    *)
LEMMA SwitchedOnlyByLinks ==
    ASSUME TypeOK, [Next]_vars
    PROVE  \/ \E l \in Links : GovernDeadLink(l) \/ GovernLink(l)
           \/ \A b \in Bridges : info'[b].enabled = info[b].enabled
<1>0. info \in [Bridges -> InfoRec]
    BY DEF TypeOK, InfoRec
<1>1. ASSUME NEW b \in Bridges, Lock(b) \/ Unlock(b) \/ \E p \in Inputs : SetPriority(b, p)
      PROVE  \A c \in Bridges : info'[c].enabled = info[c].enabled
    BY <1>0, <1>1 DEF Lock, Unlock, SetPriority, InfoRec
<1>llm. ASSUME NEW b \in LlmBridges, LlmSet(b)
        PROVE  \A c \in Bridges : info'[c].enabled = info[c].enabled
    BY <1>0, <1>llm DEF LlmSet, InfoRec
<1>2. CASE PoolHit \/ PoolCall \/ ChainCall \/ StreamCall \/ Tick \/ UNCHANGED vars
    BY <1>2 DEF PoolHit, PoolCall, ChainCall, StreamCall, Tick, vars
<1> QED BY <1>1, <1>llm, <1>2 DEF Next

(* "Locked bridges always go first": autoadjust offloads none of them, as  *)
(* long as every link has some bandwidth.                                  *)
THEOREM LockedKeptHolds == Spec => LockedKept
<1> DEFINE Kept == \A b \in Enabled \cap Locked :
                      (\A l \in Links : available[l] > 0) => info'[b].enabled
<1>1. ASSUME TypeOK, [Next]_vars PROVE Kept
  <2> SUFFICES ASSUME NEW b \in Enabled \cap Locked, \A l \in Links : available[l] > 0
               PROVE  info'[b].enabled
      OBVIOUS
  <2>1. b \in Bridges /\ info[b].enabled
      BY DEF Enabled
  <2>2. ASSUME NEW l \in Links, GovernDeadLink(l) PROVE FALSE
      BY <2>2 DEF GovernDeadLink
  <2>3. ASSUME NEW l \in Links, GovernLink(l) PROVE info'[b].enabled
    <3>1. PICK order \in SetToSeqs(Enabled), kept \in SUBSET Enabled :
             Admit(kept, order, available[l]) /\ Switch(kept, Enabled \ kept)
        BY <2>3, LinkGoverned
    <3>2. PICK room : room = available[l]
        OBVIOUS
    <3>3. b \in kept
        BY <3>1, <3>2, LockedAdmitted
    <3> QED BY <2>1, <3>1, <3>3, <1>1, KeptStays
  <2> QED BY <2>1, <2>2, <2>3, <1>1, SwitchedOnlyByLinks
<1> QED BY <1>1, TypeCorrect, PTL DEF Spec, LockedKept

(* Bridges that are enabled, and one that is not among them.               *)
LEMMA OneMore ==
    ASSUME NEW S \in SUBSET Bridges, NEW b \in Bridges \ S, NEW c \in Bridges \ S,
           NEW T \in SUBSET Bridges, S \cup {c} \subseteq T, NEW room \in Nat,
           Load(T) <= room, ~(Load(S \cup {b}) <= room)
    PROVE  Need[c] < Need[b]
<1>1. Need[b] \in Nat /\ Need[c] \in Nat
    BY BridgeAssumption
<1>2. S \cup {c} \in SUBSET T
    OBVIOUS
<1>3. Load(S \cup {c}) <= Load(T) /\ Load(T) \in Nat /\ Load(S) \in Nat
    BY <1>2, LoadGrows
<1>4. Load(S \cup {c}) = Load(S) + Need[c] /\ Load(S \cup {b}) = Load(S) + Need[b]
    BY LoadAdds
<1> QED BY <1>1, <1>3, <1>4

(* An offloaded bridge was refused with the ones before it; a kept one     *)
(* that comes later was admitted on top of them.                           *)
LEMMA KeptBefore ==
    ASSUME TypeOK, NEW order \in SetToSeqs(Enabled), NEW kept \in SUBSET Enabled, NEW room \in Nat,
           ByPriority(order), Admit(kept, order, room),
           NEW b \in Enabled \ Locked, NEW c \in Enabled \ Locked, b \notin kept, c \in kept
    PROVE  info[c].priority <= info[b].priority \/ Need[c] < Need[b]
<1>0. Enabled \in SUBSET Bridges /\ b \in Bridges /\ c \in Bridges
    BY DEF Enabled
<1>1. PICK E : E = Enabled
    OBVIOUS
<1>2. /\ Cardinality(E) \in Nat /\ DOMAIN order = 1..Cardinality(E)
      /\ order \in [1..Cardinality(E) -> E]
      /\ \A i, j \in DOMAIN order : order[i] = order[j] => i = j
      /\ \A x \in E : \E i \in DOMAIN order : order[i] = x
    BY <1>0, <1>1, OrderLists
<1>3. PICK i \in DOMAIN order : order[i] = b
    BY <1>1, <1>2
<1>4. PICK j \in DOMAIN order : order[j] = c
    BY <1>1, <1>2
<1>5. i \in Nat /\ j \in Nat /\ i # j
    BY <1>2, <1>3, <1>4
<1>6. CASE j < i
    BY <1>3, <1>4, <1>6 DEF ByPriority
<1>7. CASE i < j
  <2> DEFINE Before == {order[k] : k \in 1..i} \cap kept
             S == (Enabled \cap Locked) \cup Before
             T == (Enabled \cap Locked) \cup ({order[k] : k \in 1..j} \cap (kept \cup {order[j]}))
  <2>1. {order[k] : k \in 1..i} \cap (kept \cup {order[i]}) = Before \cup {b}
    <3>1. i \in 1..i
        BY <1>2, <1>3
    <3>2. b \in {order[k] : k \in 1..i}
        BY <1>3, <3>1
    <3> QED BY <1>3, <3>2
  <2>2. ~(Load(S \cup {b}) <= room)
    <3>1. ~(Load((Enabled \cap Locked) \cup ({order[k] : k \in 1..i} \cap (kept \cup {order[i]}))) <= room)
        BY <1>3 DEF Admit
    <3>2. (Enabled \cap Locked) \cup ({order[k] : k \in 1..i} \cap (kept \cup {order[i]})) = S \cup {b}
        BY <2>1
    <3> QED BY <3>1, <3>2, Zenon
  <2>3. Load(T) <= room
      BY <1>4 DEF Admit
  <2>4. b \notin S
      OBVIOUS
  <2>5. c \notin S
    <3>1. \A k \in 1..i : k \in DOMAIN order /\ k # j
        BY <1>2, <1>3, <1>5, <1>7
    <3>2. \A k \in 1..i : order[k] # c
        BY <1>2, <1>4, <3>1
    <3> QED BY <3>2
  <2>6. Before \subseteq T
    <3>1. \A k \in 1..i : k \in 1..j
        BY <1>2, <1>3, <1>5, <1>7
    <3> QED BY <3>1
  <2>7. c \in T
    <3>1. j \in 1..j
        BY <1>2, <1>4
    <3> QED BY <1>4, <3>1
  <2>8. S \cup {c} \subseteq T
      BY <2>6, <2>7
  <2>9. S \in SUBSET Bridges /\ T \in SUBSET Bridges
    <3>1. kept \cup {order[j]} \subseteq Bridges
        BY <1>0, <1>4
    <3> QED BY <1>0, <3>1
  <2> HIDE DEF S, T
  <2>10. PICK s : s = S
      OBVIOUS
  <2>11. PICK t : t = T
      OBVIOUS
  <2> QED BY <1>0, <2>2, <2>3, <2>4, <2>5, <2>8, <2>9, <2>10, <2>11, OneMore
<1> QED BY <1>5, <1>6, <1>7

(* A bridge that govern offloads gave way to bridges of its priority or a  *)
(* better one, or was too large where a smaller one still fitted, for      *)
(* every order of the hash map.                                            *)
THEOREM PriorityWinsHolds == Spec => PriorityWins
<1> DEFINE Wins == \A b, c \in Enabled \ Locked :
                      ~info'[b].enabled /\ info'[c].enabled =>
                          info[c].priority <= info[b].priority \/ Need[c] < Need[b]
<1>1. ASSUME TypeOK, [Next]_vars PROVE Wins
  <2> SUFFICES ASSUME NEW b \in Enabled \ Locked, NEW c \in Enabled \ Locked,
                      ~info'[b].enabled, info'[c].enabled
               PROVE  info[c].priority <= info[b].priority \/ Need[c] < Need[b]
      OBVIOUS
  <2>0. b \in Bridges /\ c \in Bridges /\ info[b].enabled
      BY DEF Enabled
  <2>1. ASSUME NEW l \in Links, GovernDeadLink(l) PROVE FALSE
    <3>1. info \in [Bridges -> InfoRec] /\ Switch({}, Bridges)
        BY <1>1, <2>1 DEF GovernDeadLink, TypeOK, InfoRec
    <3> QED BY <2>0, <3>1, SwitchOne
  <2>2. ASSUME NEW l \in Links, GovernLink(l)
        PROVE  info[c].priority <= info[b].priority \/ Need[c] < Need[b]
    <3>1. PICK order \in SetToSeqs(Enabled), kept \in SUBSET Enabled :
             ByPriority(order) /\ Admit(kept, order, available[l]) /\ Switch(kept, Enabled \ kept)
        BY <2>2, LinkGoverned
    <3>2. PICK room : room = available[l]
        OBVIOUS
    <3>3. b \notin kept /\ c \in kept
        BY <2>0, <3>1, <1>1, KeptStays
    <3>4. room \in Nat
        BY <1>1, <3>2, BridgeAssumption DEF TypeOK
    <3> QED BY <1>1, <3>1, <3>2, <3>3, <3>4, KeptBefore
  <2> QED BY <2>0, <2>1, <2>2, <1>1, SwitchedOnlyByLinks
<1> QED BY <1>1, TypeCorrect, PTL DEF Spec, PriorityWins

-----------------------------------------------------------------------------
(* Fits(l): the governor is done with the link l.                          *)
Fits(l) == Load(Enabled) <= available[l] \/ Enabled \subseteq Locked
Fitted == governing # {} => \A l \in Links \ governing : Fits(l)

(* The last index of a set.                                                *)
LEMMA LastIndex ==
    ASSUME NEW n \in Nat, NEW I \in SUBSET (1..n), I # {}
    PROVE  \E i \in I : \A j \in I : j <= i
<1> DEFINE Above == {n - i : i \in I}
<1>1. Above \subseteq Nat /\ Above # {}
  <2>1. \A i \in I : n - i \in Nat
      OBVIOUS
  <2> QED BY <2>1
<1> HIDE DEF Above
<1>2. PICK m \in Above : \A k \in Above : ~(<<k, m>> \in OpToRel(<, Nat))
    BY <1>1, WFMin, NatLessThanWellFounded
<1>3. \A k \in Above : ~(k < m)
    BY <1>1, <1>2 DEF OpToRel
<1>4. PICK i \in I : m = n - i
    BY DEF Above
<1>5. ASSUME NEW j \in I PROVE j <= i
  <2>1. n - j \in Above
      BY DEF Above
  <2>2. ~(n - j < n - i)
      BY <1>3, <1>4, <2>1
  <2> QED BY <2>2
<1> QED BY <1>5

(* What a link keeps fits it, unless all of it is locked: the last bridge  *)
(* admitted was admitted on top of all the others.                         *)
LEMMA KeptFits ==
    ASSUME NEW order \in SetToSeqs(Enabled), NEW kept \in SUBSET Enabled, NEW room \in Nat,
           Admit(kept, order, room), ~(kept \subseteq Locked)
    PROVE  Load(kept) <= room
<1>0. Enabled \in SUBSET Bridges
    BY DEF Enabled
<1>1. PICK E : E = Enabled
    OBVIOUS
<1>2. /\ Cardinality(E) \in Nat /\ DOMAIN order = 1..Cardinality(E)
      /\ order \in [1..Cardinality(E) -> E]
      /\ \A x \in E : \E i \in DOMAIN order : order[i] = x
    BY <1>0, <1>1, OrderLists
<1> DEFINE I == {i \in DOMAIN order : order[i] \in kept \ Locked}
<1>3. I \in SUBSET (1..Cardinality(E)) /\ I # {}
    BY <1>1, <1>2
<1>4. PICK i \in I : \A j \in I : j <= i
  <2>1. PICK J : J = I
      OBVIOUS
  <2> HIDE DEF I
  <2> QED BY <1>2, <1>3, <2>1, LastIndex
<1> DEFINE T == (Enabled \cap Locked) \cup ({order[k] : k \in 1..i} \cap (kept \cup {order[i]}))
<1>5. Load(T) <= room
    BY DEF Admit
<1>6. ASSUME NEW x \in kept PROVE x \in T
  <2>1. PICK j \in DOMAIN order : order[j] = x
      BY <1>1, <1>2
  <2>2. CASE x \notin Locked
    <3>1. j \in 1..i
        BY <1>2, <1>4, <2>1, <2>2
    <3> QED BY <2>1, <3>1
  <2> QED BY <2>2
<1>7. kept \subseteq T /\ T \in SUBSET Bridges
    BY <1>0, <1>6
<1> HIDE DEF T
<1>8. PICK t : t = T
    OBVIOUS
<1>9. Load(kept) \in Nat /\ Load(t) \in Nat /\ Load(kept) <= Load(t)
    BY <1>7, <1>8, LoadGrows
<1> QED BY <1>5, <1>8, <1>9

(* Every link governed fits, and those before it still do: each link only  *)
(* switches bridges off.                                                   *)
LEMMA GovernFits ==
    ASSUME TypeOK, Fitted, NEW l \in Links, GovernDeadLink(l) \/ GovernLink(l)
    PROVE  \A k \in Links \ governing' : Fits(k)'
<1> SUFFICES ASSUME NEW k \in Links \ governing' PROVE Fits(k)'
    OBVIOUS
<1>0. info \in [Bridges -> InfoRec] /\ available[k] \in Nat
    BY BridgeAssumption DEF TypeOK, InfoRec
<1>1. k = l \/ k \in Links \ governing
    BY DEF GovernDeadLink, GovernLink
<1>2. CASE GovernDeadLink(l)
  <2>1. \A b \in Bridges : ~info'[b].enabled
      BY <1>0, <1>2, SwitchOne DEF GovernDeadLink
  <2>2. Enabled' = {}
      BY <2>1 DEF Enabled
  <2> QED BY <2>2 DEF Fits
<1>3. CASE GovernLink(l)
  <2>1. PICK order \in SetToSeqs(Enabled), kept \in SUBSET Enabled :
           Admit(kept, order, available[l]) /\ Switch(kept, Enabled \ kept)
      BY <1>3, LinkGoverned
  <2>2. Enabled' = kept /\ Locked' = Locked /\ available' = available
      BY <1>3, <2>1, KeptStays DEF GovernLink, caches
  <2>3. PICK room : room = available[l]
      OBVIOUS
  <2>4. room \in Nat
      BY <2>3, BridgeAssumption DEF TypeOK
  <2>5. CASE kept \subseteq Locked
      BY <2>2, <2>5 DEF Fits
  <2>6. CASE k = l /\ ~(kept \subseteq Locked)
    <3>1. Load(kept) <= available[l]
        BY <2>1, <2>3, <2>4, <2>6, KeptFits
    <3> QED BY <2>2, <2>6, <3>1 DEF Fits
  <2>7. CASE k \in Links \ governing /\ ~(kept \subseteq Locked)
    <3>1. Fits(k) /\ ~(Enabled \subseteq Locked)
        BY <2>7, <1>3 DEF Fitted, GovernLink
    <3>2. PICK E : E = Enabled
        OBVIOUS
    <3>3. kept \in SUBSET E /\ E \in SUBSET Bridges
        BY <3>2 DEF Enabled
    <3>4. Load(kept) \in Nat /\ Load(E) \in Nat /\ Load(kept) <= Load(E)
        BY <3>3, LoadGrows
    <3>5. Load(E) <= available[k]
        BY <3>1, <3>2 DEF Fits
    <3>6. Load(kept) <= available[k]
        BY <1>0, <3>4, <3>5
    <3> QED BY <2>2, <3>6 DEF Fits
  <2> QED BY <1>1, <2>5, <2>6, <2>7
<1> QED BY <1>2, <1>3

(* Every step keeps the links that are governed fitted.                    *)
LEMMA FittedStep == TypeOK /\ Fitted /\ [Next]_vars => Fitted'
<1> SUFFICES ASSUME TypeOK, Fitted, [Next]_vars PROVE Fitted' OBVIOUS
<1>1. ASSUME NEW l \in Links, GovernDeadLink(l) \/ GovernLink(l) PROVE Fitted'
    BY <1>1, GovernFits DEF Fitted
<1>2. ASSUME NEW b \in Bridges, NEW p \in Inputs, SetPriority(b, p) PROVE Fitted'
    BY <1>2 DEF Fitted, SetPriority
<1>3. CASE \/ \E b \in Bridges : Lock(b) \/ Unlock(b) \/ (b \in LlmBridges /\ LlmSet(b))
           \/ PoolHit \/ PoolCall \/ ChainCall \/ StreamCall \/ Tick
    BY <1>3 DEF Fitted, Lock, Unlock, LlmSet, PoolHit, PoolCall, ChainCall, StreamCall, Tick
<1>4. CASE UNCHANGED vars
    BY <1>4 DEF vars, Fitted, Fits, Enabled, Locked
<1> QED BY <1>1, <1>2, <1>3, <1>4, BridgeAssumption DEF Next

(* When autoadjust is done what is enabled fits every link, in whatever    *)
(* order it took them, except for what is locked.                          *)
THEOREM EnabledFitHolds == Spec => EnabledFit
<1> DEFINE Fit == governing # {} /\ governing' = {} =>
                     \A l \in Links : Load(Enabled') <= available[l] \/ Enabled' \subseteq Locked'
<1>1. Init => Fitted
    BY DEF Init, Fitted
<1>2. ASSUME TypeOK, Fitted, [Next]_vars PROVE Fit
  <2> SUFFICES ASSUME governing # {}, governing' = {} PROVE Fit
      OBVIOUS
  <2>1. ASSUME NEW l \in Links, GovernDeadLink(l) \/ GovernLink(l) PROVE Fit
    <3>1. \A k \in Links : Fits(k)'
        BY <1>2, <2>1, GovernFits
    <3>2. available' = available
        BY <2>1 DEF GovernDeadLink, GovernLink
    <3> QED BY <3>1, <3>2 DEF Fits
  <2>2. ASSUME NEW b \in Bridges, NEW p \in Inputs, SetPriority(b, p) PROVE FALSE
      BY <2>2 DEF SetPriority
  <2>3. CASE \/ \E b \in Bridges : Lock(b) \/ Unlock(b)
             \/ \E b \in LlmBridges : LlmSet(b)
             \/ PoolHit \/ PoolCall \/ ChainCall \/ StreamCall \/ Tick
             \/ UNCHANGED vars
      BY <2>3 DEF Lock, Unlock, LlmSet, PoolHit, PoolCall, ChainCall, StreamCall, Tick, vars
  <2> QED BY <1>2, <2>1, <2>2, <2>3 DEF Next
<1> QED BY <1>1, <1>2, FittedStep, TypeCorrect, PTL DEF Spec, EnabledFit

-----------------------------------------------------------------------------
(* The age of answers.                                                     *)

Entries == [live : BOOLEAN, age : Nat, left : Nat]

(* An entry that lives is not at its end, and its answer will be at most   *)
(* limit old when it is.                                                   *)
Within(e, limit) == e.live => e.left >= 1 /\ e.age + e.left <= limit

(* An entry of LlmBridge::call lasts one lifetime; an entry of             *)
(* BridgePool::call less than two, since its answer had a tick left when   *)
(* it was saved.                                                           *)
Aged ==
    /\ store \in {"redis", "memory"}
    /\ llm \in Entries /\ pool \in Entries /\ last \in Nat
    /\ store = "redis" =>
          /\ Within(llm, LlmTtl)
          /\ Within(pool, PoolTtl + LlmTtl - 1)
          /\ last + 2 <= PoolTtl + LlmTtl

(* A young answer may be returned, and may be saved for PoolTtl.           *)
LEMMA YoungAnswer ==
    ASSUME NEW a \in Nat, a + 1 <= LlmTtl
    PROVE  /\ a + 2 <= PoolTtl + LlmTtl
           /\ Within(Entry(a, PoolTtl), PoolTtl + LlmTtl - 1)
BY TtlAssumption DEF Within, Entry

(* What a live entry holds is younger than its limit.                      *)
LEMMA LiveEntry ==
    ASSUME NEW e \in Entries, NEW limit \in Nat, Within(e, limit), e.live
    PROVE  e.age \in Nat /\ e.age + 1 <= limit
BY DEF Within, Entries

(* A tick keeps an entry of Redis within its limit.                        *)
LEMMA OlderWithin ==
    ASSUME NEW e \in Entries, NEW limit \in Nat, store \in {"redis", "memory"},
           store = "redis" => Within(e, limit)
    PROVE  /\ Older(e) \in Entries
           /\ store = "redis" => Within(Older(e), limit)
<1>1. CASE ~e.live
    BY <1>1 DEF Older
<1>2. CASE e.live /\ store = "memory"
    BY <1>2, TtlAssumption DEF Older, Entries
<1>3. CASE e.live /\ store = "redis" /\ e.left = 1
    BY <1>3 DEF Older, Missing, Entries, Within
<1>4. CASE e.live /\ store = "redis" /\ e.left # 1
  <2>1. Older(e) = [e EXCEPT !.age = @ + 1, !.left = @ - 1]
      BY <1>4 DEF Older
  <2>2. e.age \in Nat /\ e.left \in Nat /\ e.left >= 2 /\ e.age + e.left <= limit
      BY <1>4 DEF Entries, Within
  <2>3. /\ Older(e).live = TRUE
        /\ Older(e).age = e.age + 1 /\ Older(e).left = e.left - 1
        /\ Older(e) = [live |-> Older(e).live, age |-> Older(e).age, left |-> Older(e).left]
      BY <1>4, <2>1 DEF Entries
  <2>4. e.age + 1 \in Nat /\ e.left - 1 \in Nat /\ e.left - 1 >= 1
        /\ (e.age + 1) + (e.left - 1) <= limit
      BY <2>2
  <2>5. Older(e) \in Entries
      BY <2>3, <2>4 DEF Entries
  <2> QED BY <2>3, <2>4, <2>5 DEF Within
<1> QED BY <1>1, <1>2, <1>3, <1>4

(* A call of the LLM bridge returns a young answer and leaves a good entry.*)
LEMMA LlmCallAged ==
    ASSUME Aged, LlmCall
    PROVE  /\ llm' \in Entries /\ last' \in Nat
           /\ store = "redis" => last' + 1 <= LlmTtl /\ Within(llm', LlmTtl)
<1>0. LlmTtl \in Nat /\ LlmTtl >= 1
    BY TtlAssumption
<1>1. CASE llm.live /\ last' = llm.age /\ UNCHANGED llm
  <2>1. llm.age \in Nat
      BY DEF Aged, Entries
  <2>2. store = "redis" => llm.age + 1 <= LlmTtl
      BY <1>0, <1>1, LiveEntry DEF Aged
  <2> QED BY <1>1, <2>1, <2>2 DEF Aged
<1>2. CASE Provider
  <2>1. last' = 0 /\ last' + 1 <= LlmTtl
      BY <1>0, <1>2 DEF Provider
  <2>2. Entry(0, LlmTtl) \in Entries /\ Within(Entry(0, LlmTtl), LlmTtl)
      BY <1>0 DEF Entry, Entries, Within
  <2>3. Missing \in Entries /\ Within(Missing, LlmTtl)
      BY DEF Missing, Entries, Within
  <2> QED BY <1>2, <2>1, <2>2, <2>3 DEF Provider, Aged
<1> QED BY <1>1, <1>2 DEF LlmCall

(* Every step keeps the ages within the lifetimes.                         *)
LEMMA AgedStep == Aged /\ [Next]_vars => Aged'
<1> SUFFICES ASSUME Aged, [Next]_vars PROVE Aged' OBVIOUS
<1>0. PoolTtl + LlmTtl - 1 \in Nat
    BY TtlAssumption
<1>1. CASE UNCHANGED caches
    BY <1>1 DEF Aged, caches
<1>2. CASE PoolHit
  <2>1. pool.age \in Nat /\ (store = "redis" => pool.age + 1 <= PoolTtl + LlmTtl - 1)
      BY <1>0, <1>2, LiveEntry DEF PoolHit, Aged, Entries
  <2>2. store = "redis" => pool.age + 2 <= PoolTtl + LlmTtl
      BY <2>1, TtlAssumption
  <2> QED BY <1>2, <2>1, <2>2 DEF PoolHit, Aged
<1>3. ASSUME LlmCall, store' = store, pool' \in {Entry(last', PoolTtl), pool} PROVE Aged'
  <2>1. /\ llm' \in Entries /\ last' \in Nat
        /\ store = "redis" => last' + 1 <= LlmTtl /\ Within(llm', LlmTtl)
      BY <1>3, LlmCallAged
  <2>2. store = "redis" => /\ last' + 2 <= PoolTtl + LlmTtl
                           /\ Within(Entry(last', PoolTtl), PoolTtl + LlmTtl - 1)
      BY <2>1, YoungAnswer
  <2>3. Entry(last', PoolTtl) \in Entries
      BY <2>1, TtlAssumption DEF Entry, Entries
  <2> QED BY <1>3, <2>1, <2>2, <2>3 DEF Aged
<1>4. CASE PoolCall
    BY <1>3, <1>4 DEF PoolCall
<1>5. CASE ChainCall
    BY <1>3, <1>5 DEF ChainCall
<1>6. CASE StreamCall
    BY <1>3, <1>6 DEF StreamCall, LlmCall
<1>7. CASE Tick
  <2>1. /\ Older(llm) \in Entries /\ (store = "redis" => Within(Older(llm), LlmTtl))
        /\ Older(pool) \in Entries
        /\ store = "redis" => Within(Older(pool), PoolTtl + LlmTtl - 1)
      BY <1>0, OlderWithin, TtlAssumption DEF Aged
  <2> QED BY <1>7, <2>1 DEF Tick, Aged
<1>8. CASE \E b \in Bridges : Lock(b) \/ Unlock(b) \/ \E p \in Inputs : SetPriority(b, p)
    BY <1>8, <1>1 DEF Lock, Unlock, SetPriority
<1>llm. CASE \E b \in LlmBridges : LlmSet(b)
    BY <1>llm, <1>1 DEF LlmSet
<1>9. CASE \E l \in Links : GovernDeadLink(l) \/ GovernLink(l)
    BY <1>9, <1>1 DEF GovernDeadLink, GovernLink
<1>10. CASE UNCHANGED vars
    BY <1>10, <1>1 DEF vars, caches
<1> QED BY <1>2, <1>4, <1>5, <1>6, <1>7, <1>8, <1>llm, <1>9, <1>10 DEF Next

(* With Redis no answer is older than the two lifetimes of the caches of   *)
(* BridgePool::call and LlmBridge::call together, whatever they are.       *)
THEOREM AnswerAgeHolds == Spec => []AnswerAge
<1>1. Init => Aged
    BY TtlAssumption DEF Init, Aged, Entries, Missing, Within
<1>2. Aged => AnswerAge
    BY DEF Aged, AnswerAge
<1> QED BY <1>1, <1>2, AgedStep, PTL DEF Spec
=============================================================================
