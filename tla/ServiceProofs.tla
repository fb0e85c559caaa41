--------------------------- MODULE ServiceProofs ---------------------------
(***************************************************************************)
(* More of what the run of MCNode shows, proved for any constants: the     *)
(* services whose state is kept in lists, files and records.  As in        *)
(* NodeProofs each part has an invariant over its own variables.           *)
(***************************************************************************)
EXTENDS NodeProofs, LineFile

-----------------------------------------------------------------------------
(* Parts of sequences.                                                     *)

(* Ordered lists each element of a finite set of numbers once, in order:   *)
(* the number of elements up to k counts from 1 to the size of the set.    *)
LEMMA OrderedIsSorted ==
    ASSUME NEW K \in SUBSET Nat, IsFiniteSet(K)
    PROVE  /\ Ordered(K) \in [1..Cardinality(K) -> K]
           /\ \A i, j \in 1..Cardinality(K) : i < j => Ordered(K)[i] < Ordered(K)[j]
           /\ \A k \in K : \E i \in 1..Cardinality(K) : Ordered(K)[i] = k
<1> DEFINE upto(k) == {j \in K : j <= k}
           rank(k) == Cardinality(upto(k))
           n == Cardinality(K)
           f == [k \in K |-> rank(k)]
<1>1. n \in Nat
  BY FS_CardinalityType
<1>2. \A k \in K : IsFiniteSet(upto(k)) /\ rank(k) \in 1..n
  <2> SUFFICES ASSUME NEW k \in K PROVE IsFiniteSet(upto(k)) /\ rank(k) \in 1..n
    OBVIOUS
  <2>1. upto(k) \subseteq K /\ k \in upto(k)
    OBVIOUS
  <2>2. IsFiniteSet(upto(k)) /\ rank(k) <= n /\ rank(k) \in Nat
    BY <2>1, FS_Subset, FS_CardinalityType
  <2>3. rank(k) # 0
    BY <2>1, <2>2, FS_EmptySet
  <2> QED
    BY <2>2, <2>3, <1>1
<1>3. \A k, l \in K : k < l => rank(k) < rank(l)
  <2> TAKE k, l \in K
  <2> HAVE k < l
  <2>0. k \in Nat /\ l \in Nat /\ \A j \in K : j \in Nat
    OBVIOUS
  <2>1. upto(k) \subseteq upto(l) /\ l \in upto(l) /\ l \notin upto(k)
    <3>1. \A j \in K : j <= k => j <= l
      BY <2>0
    <3>2. l <= l /\ ~(l <= k)
      BY <2>0
    <3> QED
      BY <3>1, <3>2, Zenon
  <2>2. upto(k) # upto(l)
    BY <2>1
  <2>3. IsFiniteSet(upto(l)) /\ rank(k) \in Nat /\ rank(l) \in Nat
    BY <1>2
  <2>4. rank(k) <= rank(l) /\ rank(k) # rank(l)
    BY <2>1, <2>2, <2>3, FS_Subset
  <2> QED
    BY <2>3, <2>4
<1>4. f \in Injection(K, 1..n)
  <2>1. f \in [K -> 1..n]
    BY <1>2
  <2>2. \A k, l \in K : f[k] = f[l] => k = l
    <3> SUFFICES ASSUME NEW k \in K, NEW l \in K, rank(k) = rank(l), k # l PROVE FALSE
      OBVIOUS
    <3>1. rank(k) \in Nat /\ k \in Nat /\ l \in Nat
      BY <1>2
    <3>2. k < l \/ l < k
      BY <3>1
    <3>3. rank(k) < rank(l) \/ rank(l) < rank(k)
      BY <1>3, <3>2
    <3> QED
      BY <3>1, <3>3
  <2> QED
    BY <2>1, <2>2 DEF Injection, IsInjective
<1>5. IsFiniteSet(1..n) /\ Cardinality(1..n) = n
  BY <1>1, FS_Interval
<1>6. f \in Surjection(K, 1..n)
  BY <1>4, <1>5, FS_Injection
<1>7. \A i \in 1..n : \E k \in K : rank(k) = i
  BY <1>6 DEF Surjection
<1> DEFINE pick(i) == CHOOSE k \in K : rank(k) = i
<1>8. \A i \in 1..n : pick(i) \in K /\ rank(pick(i)) = i
  BY <1>7
<1>9. Ordered(K) = [i \in 1..n |-> pick(i)]
  BY DEF Ordered
<1> HIDE DEF pick
<1>10. \A i, j \in 1..n : i < j => pick(i) < pick(j)
  <2> SUFFICES ASSUME NEW i \in 1..n, NEW j \in 1..n, i < j, ~(pick(i) < pick(j)) PROVE FALSE
    OBVIOUS
  <2>1. pick(i) \in Nat /\ pick(j) \in Nat /\ pick(i) \in K /\ pick(j) \in K
    BY <1>8
  <2>2. pick(j) = pick(i) \/ pick(j) < pick(i)
    BY <2>1
  <2>3. rank(pick(j)) = rank(pick(i)) \/ rank(pick(j)) < rank(pick(i))
    BY <2>1, <2>2, <1>3
  <2> QED
    BY <2>3, <1>1, <1>8
<1>11. ASSUME NEW k \in K PROVE \E i \in 1..n : pick(i) = k
  <2>1. rank(k) \in 1..n
    BY <1>2
  <2>2. pick(rank(k)) \in K /\ rank(pick(rank(k))) = rank(k)
    BY <1>8, <2>1
  <2>3. pick(rank(k)) = k
    BY <1>4, <2>2 DEF Injection, IsInjective
  <2> QED
    BY <2>1, <2>3
<1> QED
  BY <1>8, <1>9, <1>10, <1>11

(* What is kept of a sequence are elements at different places of it.      *)
LEMMA KeptIsPart ==
    ASSUME NEW T, NEW l \in Seq(T), NEW K \in SUBSET DOMAIN l
    PROVE  /\ Kept(l, K) \in Seq(T) /\ Len(Kept(l, K)) <= Len(l)
           /\ \A i \in DOMAIN Kept(l, K) : Ordered(K)[i] \in K /\ Kept(l, K)[i] = l[Ordered(K)[i]]
           /\ \A i, j \in DOMAIN Kept(l, K) : Ordered(K)[i] = Ordered(K)[j] => i = j
<1>1. DOMAIN l = 1..Len(l) /\ Len(l) \in Nat
  OBVIOUS
<1>2. IsFiniteSet(1..Len(l)) /\ Cardinality(1..Len(l)) = Len(l)
  <2> DEFINE m == Len(l)
  <2>1. m \in Nat
    BY <1>1
  <2> HIDE DEF m
  <2>2. IsFiniteSet(1..m) /\ Cardinality(1..m) = m
    BY <2>1, FS_Interval
  <2> QED
    BY <2>2 DEF m
<1>3. K \in SUBSET Nat /\ IsFiniteSet(K) /\ Cardinality(K) <= Len(l)
  BY <1>1, <1>2, FS_Subset
<1> DEFINE n == Cardinality(K)
<1>4. n \in Nat
  BY <1>3, FS_CardinalityType
<1>5. /\ Ordered(K) \in [1..n -> K]
      /\ \A i, j \in 1..n : i < j => Ordered(K)[i] < Ordered(K)[j]
  BY <1>3, OrderedIsSorted
<1>6. Kept(l, K) = [i \in 1..n |-> l[Ordered(K)[i]]]
  BY DEF Kept
<1> HIDE DEF n
<1>7. \A i \in 1..n : Ordered(K)[i] \in K /\ Ordered(K)[i] \in Nat /\ l[Ordered(K)[i]] \in T
  BY <1>1, <1>3, <1>5
<1>8. Kept(l, K) \in Seq(T) /\ Len(Kept(l, K)) = n
  BY <1>4, <1>6, <1>7
<1>9. \A i, j \in 1..n : Ordered(K)[i] = Ordered(K)[j] => i = j
  <2> SUFFICES ASSUME NEW i \in 1..n, NEW j \in 1..n, Ordered(K)[i] = Ordered(K)[j], i # j
               PROVE  FALSE
    OBVIOUS
  <2>1. i < j \/ j < i
    BY <1>4
  <2>2. Ordered(K)[i] < Ordered(K)[j] \/ Ordered(K)[j] < Ordered(K)[i]
    BY <2>1, <1>5
  <2> QED
    BY <2>2, <1>7
<1> QED
  BY <1>3, <1>6, <1>7, <1>8, <1>9 DEF n

-----------------------------------------------------------------------------
(* The block list.                                                         *)

(* Which of the files has a peer that is to survive, at each step of a     *)
(* save: never is the only one that has it truncated.                      *)
BlockInv ==
    /\ phase = "down" => survives \subseteq json \cup text
    /\ phase # "down" => survives \subseteq blacklist
    /\ phase \in {"idle", "json", "written"} => survives \subseteq text
    /\ phase \in {"idle", "text", "both", "written"} => survives \subseteq json
    /\ phase \in {"written", "both"} => json = blacklist
    /\ phase \in {"down", "idle", "text", "json", "written", "both"}

LEMMA BlockStep == BlockInv /\ [L!ListNext]_lVars => BlockInv'
<1> SUFFICES ASSUME BlockInv, [L!ListNext]_lVars PROVE BlockInv'
  OBVIOUS
<1> USE DEF BlockInv
<1>1. CASE L!TextFill
  BY <1>1 DEF L!TextFill
<1>2. CASE L!Save
  BY <1>2 DEF L!Save, L!JsonTruncate
<1>3. CASE L!JsonFill
  BY <1>3 DEF L!JsonFill
<1>4. CASE L!SaveText
  BY <1>4 DEF L!SaveText, L!Truncate
<1>5. CASE L!sync_blacklist
  BY <1>5 DEF L!sync_blacklist
<1>6. CASE L!Die
  BY <1>6 DEF L!Die
<1>7. CASE L!New
  BY <1>7 DEF L!New, L!JsonTruncate, L!Restored
<1>8. ASSUME NEW p \in Peers, L!add_blacklist(p) PROVE BlockInv'
  BY <1>8 DEF L!add_blacklist, L!Truncate
<1>9. ASSUME NEW p \in Peers, L!remove_blacklist(p) PROVE BlockInv'
  BY <1>9 DEF L!remove_blacklist, L!Truncate
<1>10. ASSUME NEW p \in Peers, L!EditByHand(p) PROVE BlockInv'
  BY <1>10 DEF L!EditByHand
<1>11. CASE UNCHANGED lVars
  BY <1>11 DEF lVars
<1> QED
  BY <1>1, <1>2, <1>3, <1>4, <1>5, <1>6, <1>7, <1>8, <1>9, <1>10, <1>11 DEF L!ListNext

-----------------------------------------------------------------------------
(* Trust and rules.                                                        *)

Counters == [ok : Nat, failed : Nat, anomalies : Nat]

(* A rule keeps a trace in the counters it came from, which only grow.     *)
RulesEarned(tm, rs) ==
    /\ tm \in [Peers -> Counters]
    /\ \A p \in Peers :
        /\ Rule("auto-trust", p) \in rs => tm[p].ok > 0
        /\ Rule("block", p) \in rs => tm[p].failed > 0
        /\ Rule("anomaly-block", p) \in rs => tm[p].failed > 0
        /\ tm[p].anomalies > 0 => tm[p].failed > 0
        /\ ~({Rule("auto-trust", p), Rule("block", p)} \subseteq rs)

TrustInv == RulesEarned(trust_map, rules) /\ RulesEarned(saved.trust_map, saved.rules)

LEMMA LearnedIsEarned ==
    ASSUME NEW tm, NEW rs, RulesEarned(tm, rs)
    PROVE  RulesEarned(tm, rs \cup Learned(tm))
<1> DEFINE new == rs \cup Learned(tm)
<1>1. \A p \in Peers : Rule("auto-trust", p) \in Learned(tm)
                         => tm[p].ok >= AutoTrustAt /\ tm[p].failed = 0
  BY Zenon DEF Learned, Rule
<1>2. \A p \in Peers : Rule("block", p) \in Learned(tm)
                         => tm[p].failed >= BlockAt /\ tm[p].ok = 0
  BY Zenon DEF Learned, Rule
<1>3. \A p \in Peers : Rule("anomaly-block", p) \in Learned(tm) => tm[p].anomalies > 0
  BY Zenon DEF Learned, Rule
<1>4. \A p \in Peers : tm[p].ok \in Nat /\ tm[p].failed \in Nat
  BY DEF RulesEarned, Counters
<1> QED
  BY <1>1, <1>2, <1>3, <1>4, TrustAssumption DEF RulesEarned

LEMMA NothingEarned == RulesEarned(NoState.trust_map, NoState.rules)
  BY DEF NoState, RulesEarned, NoTrust, Counters

LEMMA RecordKeeps ==
    ASSUME TrustInv, NEW p \in Peers, NEW ok \in Nat, NEW bad \in Nat, NEW anomaly \in Nat,
           anomaly > 0 => bad > 0, Record(p, ok, bad, anomaly)
    PROVE  TrustInv'
<1> DEFINE t == [ok |-> trust_map[p].ok + ok, failed |-> trust_map[p].failed + bad,
                 anomalies |-> trust_map[p].anomalies + anomaly]
<1>1. /\ trust_map' = [trust_map EXCEPT ![p] = t]
      /\ rules' = IF events' % LearnEvery = 0 THEN rules \cup Learned(trust_map') ELSE rules
      /\ \/ saved' = [events |-> events', trust_map |-> trust_map', rules |-> rules']
         \/ saved' \in {saved, NoState}
  BY DEF Record, Save
<1>2. trust_map \in [Peers -> Counters]
  BY DEF TrustInv, RulesEarned
<1>3. trust_map[p].ok \in Nat /\ trust_map[p].failed \in Nat /\ trust_map[p].anomalies \in Nat
  BY <1>2 DEF Counters
<1>4. /\ t \in Counters /\ t.ok >= trust_map[p].ok /\ t.failed >= trust_map[p].failed
      /\ t.ok \in Nat /\ t.failed \in Nat
      /\ t.anomalies > 0 => trust_map[p].anomalies > 0 \/ t.failed > 0
  BY <1>3 DEF Counters
<1> HIDE DEF t
<1>5. trust_map' \in [Peers -> Counters]
  BY <1>1, <1>2, <1>4
<1>6. \A q \in Peers : /\ trust_map[q].ok > 0 => trust_map'[q].ok > 0
                       /\ trust_map[q].failed > 0 => trust_map'[q].failed > 0
                       /\ trust_map'[q].anomalies > 0 => trust_map'[q].failed > 0
  <2> TAKE q \in Peers
  <2>1. trust_map'[q] = IF q = p THEN t ELSE trust_map[q]
    BY <1>1, <1>2
  <2>2. \A r \in Peers : trust_map[r].anomalies > 0 => trust_map[r].failed > 0
    BY DEF TrustInv, RulesEarned
  <2> QED
    BY <2>1, <2>2, <1>3, <1>4
<1>7. RulesEarned(trust_map', rules)
  BY <1>5, <1>6 DEF TrustInv, RulesEarned
<1>8. RulesEarned(trust_map', rules')
  BY <1>1, <1>7, LearnedIsEarned
<1>9. RulesEarned(saved'.trust_map, saved'.rules)
  <2>1. CASE saved' = [events |-> events', trust_map |-> trust_map', rules |-> rules']
    BY <1>8, <2>1
  <2>2. CASE saved' \in {saved, NoState}
    BY <2>2, NothingEarned DEF TrustInv
  <2> QED
    BY <1>1, <2>1, <2>2
<1> QED
  BY <1>8, <1>9 DEF TrustInv, RulesEarned

LEMMA TrustStart == TrustInit => TrustInv
<1> SUFFICES ASSUME TrustInit PROVE TrustInv
  OBVIOUS
<1>1. trust_map = NoState.trust_map /\ rules = NoState.rules /\ saved = NoState
  BY DEF TrustInit, NoState
<1> QED
  BY <1>1, NothingEarned DEF TrustInv

LEMMA TrustStep == TrustInv /\ [TrustNext]_trustVars => TrustInv'
<1> SUFFICES ASSUME TrustInv, [TrustNext]_trustVars PROVE TrustInv'
  OBVIOUS
<1>1. CASE TrustRestart
  <2>1. trust_map' = saved.trust_map /\ rules' = saved.rules /\ saved' \in {saved, NoState}
    BY <1>1 DEF TrustRestart, Load, Save
  <2> QED
    BY <2>1, NothingEarned DEF TrustInv, RulesEarned
<1>2. ASSUME NEW p \in Peers, Success(p) \/ Failure(p) \/ BlockedCommand(p) \/ Anomaly(p) \/ Other(p)
      PROVE  TrustInv'
  <2>1. \/ Record(p, 1, 0, 0) \/ Record(p, 0, 1, 0) \/ Record(p, 0, 0, 0)
        \/ Record(p, 0, 1, 1) \/ Record(p, 0, 2, 1)
    BY <1>2 DEF Success, Failure, BlockedCommand, Anomaly, Other
  <2> QED
    BY <2>1, RecordKeeps
<1>3. CASE UNCHANGED trustVars
  BY <1>3 DEF trustVars, TrustInv, RulesEarned
<1> QED
  BY <1>1, <1>2, <1>3 DEF TrustNext

(* More failures lower each level's test, and none raises the level.       *)
LEMMA FailureOnlyLowers ==
    ASSUME NEW t \in Counters, NEW n \in 1..2
    PROVE  LET worse == [t EXCEPT !.failed = @ + n]
           IN  /\ should_auto_approve(worse) => should_auto_approve(t)
               /\ \A risk \in {0, 4, 6} : should_block(t, risk) => should_block(worse, risk)
<1> DEFINE worse == [t EXCEPT !.failed = @ + n]
<1>1. t.ok \in Nat /\ t.failed \in Nat /\ worse.ok = t.ok /\ worse.failed = t.failed + n
  BY DEF Counters
<1> HIDE DEF worse
<1>2. \A percent \in {95, 85, 70} : Rate(worse, percent) => Rate(t, percent)
  BY <1>1 DEF Rate
<1>3. t.ok + t.failed > LowAbove => worse.ok + worse.failed > LowAbove
  BY <1>1, TrustAssumption
<1>4. Level(worse) \in {"Trusted", "High"} => Level(t) \in {"Trusted", "High"}
  BY <1>1, <1>2 DEF Level
<1>5. Level(t) = "Low" => Level(worse) = "Low"
  BY <1>1, <1>2, <1>3 DEF Level
<1>6. Level(t) = "Unknown" => Level(worse) \in {"Unknown", "Low"}
  BY <1>1, <1>2, <1>3 DEF Level
<1> QED
  BY <1>4, <1>5, <1>6 DEF should_auto_approve, should_block, worse

-----------------------------------------------------------------------------
(* Who may use a channel.                                                  *)

AccessKinds == {"peers", "groups", "public", "private", "none"}

RemovedInv ==
    /\ isolation \in [Channels -> [kind : AccessKinds, list : Seq(Users \cup Tokens)]]
    /\ \A o \in out : /\ o[1] \in Channels /\ o = <<o[1], o[2]>>
                      /\ isolation[o[1]].kind = "peers"
                      /\ ~X!Contains(isolation[o[1]].list, o[2])

(* Without leaves out the user, and brings nobody in.                      *)
LEMMA WithoutUser ==
    ASSUME NEW T, NEW l \in Seq(T), NEW u
    PROVE  /\ X!Without(l, u) \in Seq(T) /\ ~X!Contains(X!Without(l, u), u)
           /\ \A v : X!Contains(X!Without(l, u), v) => X!Contains(l, v)
<1> DEFINE K == {k \in DOMAIN l : l[k] # u}
           picked == Kept(l, K)
<1>1. \A any : X!Ordered(any) = Ordered(any)
  BY DEF X!Ordered, Ordered, X!Cardinality, Cardinality
<1>2. X!Without(l, u) = picked
  BY <1>1 DEF X!Without, X!Kept, Kept, X!Cardinality, Cardinality
<1>3. K \in SUBSET DOMAIN l
  OBVIOUS
<1>4. /\ picked \in Seq(T)
      /\ \A i \in DOMAIN picked : Ordered(K)[i] \in K /\ picked[i] = l[Ordered(K)[i]]
  BY <1>3, KeptIsPart
<1> HIDE DEF picked
<1>5. \A i \in 1..Len(picked) : \E k \in 1..Len(l) : l[k] # u /\ picked[i] = l[k]
  <2> TAKE i \in 1..Len(picked)
  <2>1. Ordered(K)[i] \in K /\ picked[i] = l[Ordered(K)[i]]
    BY <1>4
  <2>2. DOMAIN l = 1..Len(l)
    OBVIOUS
  <2> QED
    BY <2>1, <2>2
<1> HIDE DEF K
<1>6. ~X!Contains(picked, u) /\ \A v : X!Contains(picked, v) => X!Contains(l, v)
  <2>1. Len(picked) \in Nat /\ DOMAIN picked = 1..Len(picked) /\ DOMAIN l = 1..Len(l)
    BY <1>4
  <2> QED
    BY <1>5, <2>1, Zenon DEF X!Contains
<1> QED
  BY <1>2, <1>4, <1>6

LEMMA AccessStart == X!AccessInit => RemovedInv
<1> SUFFICES ASSUME X!AccessInit PROVE RemovedInv
  OBVIOUS
<1>0. <<>> \in Seq(Users \cup Tokens)
  OBVIOUS
<1>1. \A k \in AccessKinds :
        [kind |-> k, list |-> <<>>] \in [kind : AccessKinds, list : Seq(Users \cup Tokens)]
  BY <1>0
<1>2. \A a \in {X!Grouped(<<>>), X!Public, X!Listed(<<>>), X!NoChannel} :
            a \in [kind : AccessKinds, list : Seq(Users \cup Tokens)]
  BY <1>1 DEF X!Grouped, X!Public, X!Listed, X!NoChannel, AccessKinds
<1> QED
  BY <1>2 DEF X!AccessInit, RemovedInv

LEMMA AccessStep == RemovedInv /\ [X!AccessNext]_xVars => RemovedInv'
<1> SUFFICES ASSUME RemovedInv, [X!AccessNext]_xVars PROVE RemovedInv'
  OBVIOUS
<1> DEFINE Access == [kind : AccessKinds, list : Seq(Users \cup Tokens)]
<1>0. isolation \in [Channels -> Access]
  BY DEF RemovedInv
<1>1. UNCHANGED <<isolation, out>> => RemovedInv'
  BY DEF RemovedInv
<1>2. ASSUME NEW c \in Channels, NEW a \in X!Accesses, X!create_channel(c, a) PROVE RemovedInv'
  <2>1. a \in Access
    <3>0. ASSUME NEW U, NEW n \in Nat, NEW l \in X!BoundedSeq(U, n) PROVE l \in Seq(U)
      <4>1. PICK m \in 0..n : l \in [1..m -> U]
        BY <3>0, Zenon DEF X!BoundedSeq, X!SeqOf
      <4>2. m \in Nat
        BY <4>1
      <4> QED
        BY <4>1, <4>2
    <3>1. \A l \in X!BoundedSeq(Tokens, 1) \cup X!BoundedSeq(Users, 2) : l \in Seq(Users \cup Tokens)
      <4>1. Seq(Tokens) \subseteq Seq(Users \cup Tokens) /\ Seq(Users) \subseteq Seq(Users \cup Tokens)
        OBVIOUS
      <4>2. 1 \in Nat /\ 2 \in Nat
        OBVIOUS
      <4> QED
        BY <3>0, <4>1, <4>2
    <3>2. \A k \in AccessKinds, l \in Seq(Users \cup Tokens) : [kind |-> k, list |-> l] \in Access
      OBVIOUS
    <3>3. <<>> \in Seq(Users \cup Tokens) /\ {"public", "private", "groups", "peers"} \subseteq AccessKinds
      BY DEF AccessKinds
    <3>4. CASE a \in {X!Public, X!Private}
      BY <3>2, <3>3, <3>4 DEF X!Public, X!Private
    <3>5. ASSUME NEW l \in X!BoundedSeq(Tokens, 1) \cup X!BoundedSeq(Users, 2),
                 a = X!Grouped(l) \/ a = X!Listed(l)
          PROVE  a \in Access
      <4>1. l \in Seq(Users \cup Tokens)
        BY <3>1
      <4> QED
        BY <4>1, <3>2, <3>3, <3>5 DEF X!Grouped, X!Listed
    <3> HIDE DEF Access
    <3> QED
      BY <3>4, <3>5, Zenon DEF X!Accesses
  <2>2. isolation' = [isolation EXCEPT ![c] = a] /\ out' = {o \in out : o[1] # c}
    BY <1>2 DEF X!create_channel
  <2>3. isolation' \in [Channels -> Access]
    BY <1>0, <2>1, <2>2
  <2> QED
    BY <1>0, <2>2, <2>3 DEF RemovedInv
<1>3. ASSUME NEW c \in Channels, NEW u \in Users, X!add_peer_to_channel(c, u) PROVE RemovedInv'
  <2> DEFINE l == isolation[c].list
             more == IF X!Contains(l, u) THEN l ELSE Append(l, u)
  <2>1. /\ isolation[c].kind = "peers" /\ out' = out \ {<<c, u>>}
        /\ isolation' = [isolation EXCEPT ![c].list = more]
    BY <1>3 DEF X!add_peer_to_channel
  <2>2. l \in Seq(Users \cup Tokens) /\ more \in Seq(Users \cup Tokens)
    BY <1>0
  <2>3. \A v : X!Contains(more, v) => X!Contains(l, v) \/ v = u
    BY <2>2 DEF X!Contains
  <2> HIDE DEF more
  <2>4. isolation' \in [Channels -> Access]
    BY <1>0, <2>1, <2>2
  <2>5. \A d \in Channels : /\ isolation'[d].kind = isolation[d].kind
                            /\ isolation'[d].list = IF d = c THEN more ELSE isolation[d].list
    BY <1>0, <2>1
  <2>6. \A o \in out' : ~X!Contains(isolation'[o[1]].list, o[2])
    <3> TAKE o \in out'
    <3>1. /\ o \in out /\ o # <<c, u>> /\ o = <<o[1], o[2]>> /\ o[1] \in Channels
          /\ ~X!Contains(isolation[o[1]].list, o[2])
      BY <2>1 DEF RemovedInv
    <3> QED
      BY <2>3, <2>5, <3>1
  <2> QED
    BY <2>1, <2>4, <2>5, <2>6 DEF RemovedInv
<1>4. ASSUME NEW c \in Channels, NEW u \in Users, X!remove_peer_from_channel(c, u)
      PROVE  RemovedInv'
  <2> DEFINE l == isolation[c].list
             less == X!Without(l, u)
  <2>1. /\ isolation[c].kind = "peers" /\ out' = out \cup {<<c, u>>}
        /\ isolation' = [isolation EXCEPT ![c].list = less]
    BY <1>4 DEF X!remove_peer_from_channel
  <2>2. l \in Seq(Users \cup Tokens)
    BY <1>0
  <2>3. /\ less \in Seq(Users \cup Tokens) /\ ~X!Contains(less, u)
        /\ \A v : X!Contains(less, v) => X!Contains(l, v)
    BY <2>2, WithoutUser
  <2> HIDE DEF less
  <2>4. isolation' \in [Channels -> Access]
    BY <1>0, <2>1, <2>3
  <2>5. \A d \in Channels : /\ isolation'[d].kind = isolation[d].kind
                            /\ isolation'[d].list = IF d = c THEN less ELSE isolation[d].list
    BY <1>0, <2>1
  <2>6. \A o \in out' : /\ o[1] \in Channels /\ o = <<o[1], o[2]>>
                        /\ isolation'[o[1]].kind = "peers"
                        /\ ~X!Contains(isolation'[o[1]].list, o[2])
    <3> TAKE o \in out'
    <3>1. CASE o \in out
      BY <2>1, <2>3, <2>5, <3>1 DEF RemovedInv
    <3>2. CASE o = <<c, u>>
      BY <2>1, <2>3, <2>5, <3>2
    <3> QED
      BY <2>1, <3>1, <3>2
  <2> QED
    BY <2>4, <2>6 DEF RemovedInv
<1>5. ASSUME NEW g \in GroupNames, X!create_policy(g) PROVE RemovedInv'
  BY <1>1, <1>5 DEF X!create_policy
<1>6. ASSUME NEW g \in GroupNames, NEW s, NEW scope, X!share_skill(g, s, scope) PROVE RemovedInv'
  BY <1>1, <1>6 DEF X!share_skill
<1>7. CASE UNCHANGED xVars
  BY <1>1, <1>7 DEF xVars
<1> QED
  BY <1>2, <1>3, <1>4, <1>5, <1>6, <1>7 DEF X!AccessNext

(* Whom the node blocked stays blocked over one end of the process, whom a *)
(* channel's list lost stays out, and what is learned never contradicts    *)
(* itself, for any peers, thresholds and orders of events.                 *)
THEOREM SecurityHoldsAlways == NodeSpec => []SecurityHolds
<1> DEFINE Inv == BlockInv /\ TrustInv /\ RemovedInv
<1>1. NodeInit => Inv
  <2>1. L!ListInit => BlockInv
    BY DEF L!ListInit, BlockInv
  <2> QED
    BY <2>1, TrustStart, AccessStart DEF NodeInit
<1>2. Inv /\ [NodeNext]_NodeVars => Inv'
  BY PartSteps, BlockStep, TrustStep, AccessStep
<1>3. Inv => SecurityHolds
  <2> SUFFICES ASSUME Inv PROVE SecurityHolds
    OBVIOUS
  <2>1. L!BlockSurvives
    BY DEF BlockInv, L!BlockSurvives, L!Restored
  <2>2. X!RemovedIsOut
    BY DEF RemovedInv, X!RemovedIsOut, X!can_access
  <2>3. RulesAgree
    <3>1. \A p \in Peers : Rule("auto-trust", p) \in Learned(trust_map) => trust_map[p].failed = 0
      BY Zenon DEF Learned, Rule
    <3> QED
      BY <3>1 DEF TrustInv, RulesEarned, RulesAgree
  <2>4. \A p \in Peers : trust_map[p] \in Counters
    BY DEF TrustInv, RulesEarned
  <2>5. FailureNeverHelps
    BY <2>4, FailureOnlyLowers DEF FailureNeverHelps
  <2> QED
    BY <2>1, <2>2, <2>3, <2>5 DEF SecurityHolds
<1> QED
  BY <1>1, <1>2, <1>3, SpecParts, PTL

-----------------------------------------------------------------------------
(* Ratings.                                                                *)

Ranks == {R!calculate_rank(runs, found) : runs \in Nat, found \in Nat}
RatingRecords == [sum : Nat, votes : Nat, runs : Nat, found : Nat, rank : Ranks]

(* As long as no vote was above five stars, the sum is at most ten half    *)
(* points for each vote.                                                   *)
RatedInv ==
    /\ rating \in [Rated -> RatingRecords] /\ highest \in [Rated -> Nat]
    /\ \A n \in Rated : highest[n] <= 10 => rating[n].sum <= 10 * rating[n].votes
    /\ R!RankCurrent

(* The mean of votes of at most ten half points is no more, rounded.       *)
LEMMA MeanWithin ==
    ASSUME NEW r \in RatingRecords, r.sum <= 10 * r.votes
    PROVE  R!Stars(r) <= 10
<1> DEFINE x == 2 * r.sum + r.votes
           y == 2 * r.votes
           q == x \div y
<1>1. r.sum \in Nat /\ r.votes \in Nat
  BY DEF RatingRecords
<1>2. CASE r.votes = 0
  BY <1>2 DEF R!Stars
<1>3. CASE r.votes # 0
  <2>1. x \in Nat /\ y \in Nat /\ y > 0 /\ x < 11 * y
    BY <1>1, <1>3
  <2> HIDE DEF x, y
  <2>2. q \in Int /\ y * q <= x
    BY <2>1
  <2> HIDE DEF q
  <2>3. ASSUME q >= 11 PROVE FALSE
    <3>1. PICK d \in Nat : q = 11 + d
      <4>1. q - 11 \in Nat /\ q = 11 + (q - 11)
        BY <2>2, <2>3
      <4> QED
        BY <4>1
    <3>2. y * q = 11 * y + y * d /\ y * d >= 0
      BY <2>1, <3>1
    <3> DEFINE z == y * d
    <3>3. z \in Nat /\ y * q = 11 * y + z
      BY <2>1, <3>1, <3>2
    <3> HIDE DEF z
    <3> QED
      BY <2>1, <2>2, <3>3
  <2>4. q <= 10
    BY <2>2, <2>3
  <2> QED
    BY <2>4, <1>3 DEF R!Stars, q, x, y
<1> QED
  BY <1>2, <1>3

(* Nothing is earned by nothing, whatever the later thresholds.            *)
LEMMA NoRank == R!calculate_rank(0, 0) = 0 /\ R!NoRating \in RatingRecords
<1> DEFINE Earned == {k \in DOMAIN R!RankAt : 0 >= R!RankAt[k] /\ 10 * 0 >= R!ConfidenceAt[k] * 0}
<1>1. /\ DOMAIN R!RankAt = 1..4 /\ R!RankAt[1] = BronzeAt /\ R!RankAt[2] = SilverAt
      /\ R!RankAt[3] = 200 /\ R!RankAt[4] = 1000
  BY DEF R!RankAt
<1>2. \A k \in 1..4 : R!RankAt[k] \in Nat /\ R!RankAt[k] > 0
  BY <1>1, NodeAssumption
<1>3. Earned = {}
  BY <1>1, <1>2
<1>4. R!calculate_rank(0, 0) = 0
  BY <1>3 DEF R!calculate_rank
<1>5. 0 \in Ranks
  BY <1>4 DEF Ranks
<1> QED
  BY <1>4, <1>5 DEF R!NoRating, RatingRecords

LEMMA RatingStart == R!RatingInit => RatedInv
  BY NoRank DEF R!RatingInit, RatedInv, R!RankCurrent, R!NoRating

(* One agent's record and its highest vote.                                *)
Earns(r, h) ==
    /\ r \in RatingRecords /\ h \in Nat
    /\ h <= 10 => r.sum <= 10 * r.votes
    /\ r.rank = R!calculate_rank(r.runs, r.found)

LEMMA VoteEarns ==
    ASSUME NEW r \in RatingRecords, NEW v \in Nat, NEW m \in Nat,
           m <= 10 => v <= 10 /\ r.sum <= 10 * r.votes
    PROVE  /\ R!Vote(r, v) \in RatingRecords
           /\ m <= 10 => R!Vote(r, v).sum <= 10 * R!Vote(r, v).votes
           /\ R!Vote(r, v).runs = r.runs /\ R!Vote(r, v).found = r.found
           /\ R!Vote(r, v).rank = r.rank
<1> DEFINE new == R!Vote(r, v)
<1>1. r.sum \in Nat /\ r.votes \in Nat
  BY DEF RatingRecords
<1>2. new = [r EXCEPT !.sum = r.sum + v, !.votes = r.votes + 1]
  BY DEF R!Vote, R!SumWith
<1>3. new \in RatingRecords /\ new.sum = r.sum + v /\ new.votes = r.votes + 1
  <2>1. PICK a, b \in Nat : a = r.sum + v /\ b = r.votes + 1
    BY <1>1
  <2>2. new = [r EXCEPT !.sum = a, !.votes = b]
    BY <1>2, <2>1
  <2>3. new \in RatingRecords
    BY <2>2 DEF RatingRecords
  <2>4. new.sum = r.sum + v /\ new.votes = r.votes + 1
    BY <1>2 DEF RatingRecords
  <2> QED
    BY <2>3, <2>4
<1>4. new.runs = r.runs /\ new.found = r.found /\ new.rank = r.rank
  BY <1>2 DEF RatingRecords
<1> HIDE DEF new
<1>5. m <= 10 => new.sum <= 10 * new.votes
  BY <1>1, <1>3
<1> QED
  BY <1>3, <1>4, <1>5 DEF new

LEMMA RatingStep == RatedInv /\ [R!RatingNext]_rVars => RatedInv'
<1> SUFFICES ASSUME RatedInv, [R!RatingNext]_rVars PROVE RatedInv'
  OBVIOUS
<1>1. \A n \in Rated : Earns(rating[n], highest[n])
  BY DEF RatedInv, Earns, R!RankCurrent
<1>2. ASSUME rating' \in [Rated -> RatingRecords], highest' \in [Rated -> Nat],
             \A n \in Rated : Earns(rating'[n], highest'[n])
      PROVE  RatedInv'
  BY <1>2 DEF RatedInv, Earns, R!RankCurrent
<1>3. ASSUME NEW n \in Rated, NEW r, NEW h, Earns(r, h),
             rating' = [rating EXCEPT ![n] = r], highest' = [highest EXCEPT ![n] = h]
      PROVE  RatedInv'
  <2>1. r \in RatingRecords /\ h \in Nat
    BY <1>3 DEF Earns
  <2>2. rating' \in [Rated -> RatingRecords] /\ highest' \in [Rated -> Nat]
    BY <2>1, <1>3 DEF RatedInv
  <2>3. \A q \in Rated : /\ rating'[q] = IF q = n THEN r ELSE rating[q]
                         /\ highest'[q] = IF q = n THEN h ELSE highest[q]
    BY <1>3 DEF RatedInv
  <2>4. \A q \in Rated : Earns(rating'[q], highest'[q])
    BY <2>3, <1>1, <1>3
  <2> QED
    BY <2>2, <2>4, <1>2
<1>4. UNCHANGED <<rating, highest>> => RatedInv'
  BY DEF RatedInv, R!RankCurrent
<1>5. Earns(R!NoRating, 0)
  BY NoRank DEF Earns, R!NoRating
<1>6. ASSUME NEW n \in Rated, NEW vote \in Votes, R!rate_agent(n, vote) PROVE RatedInv'
  <2> DEFINE h == IF vote > highest[n] THEN vote ELSE highest[n]
             r == R!Vote(rating[n], vote)
  <2>1. rating' = [rating EXCEPT ![n] = r] /\ highest' = [highest EXCEPT ![n] = h]
    BY <1>6 DEF R!rate_agent
  <2>2. vote \in Nat /\ highest[n] \in Nat /\ rating[n] \in RatingRecords
    BY <1>1, NodeAssumption DEF Earns
  <2>3. h \in Nat /\ h >= vote /\ h >= highest[n]
    BY <2>2
  <2> HIDE DEF h
  <2>4. Earns(r, h)
    <3>1. /\ highest[n] <= 10 => rating[n].sum <= 10 * rating[n].votes
          /\ rating[n].rank = R!calculate_rank(rating[n].runs, rating[n].found)
      BY <1>1 DEF Earns
    <3>2. /\ r \in RatingRecords
          /\ h <= 10 => r.sum <= 10 * r.votes
          /\ r.runs = rating[n].runs /\ r.found = rating[n].found /\ r.rank = rating[n].rank
      <4> DEFINE old == rating[n]
                 top == highest[n]
      <4>1. /\ old \in RatingRecords /\ top \in Nat /\ vote \in Nat
            /\ top <= 10 => old.sum <= 10 * old.votes
        BY <2>2, <3>1
      <4>2. h \in Nat /\ (h <= 10 => vote <= 10 /\ old.sum <= 10 * old.votes)
        BY <2>2, <2>3, <3>1
      <4>3. r = R!Vote(old, vote)
        OBVIOUS
      <4> HIDE DEF old, top, r
      <4>4. /\ R!Vote(old, vote) \in RatingRecords
            /\ h <= 10 => R!Vote(old, vote).sum <= 10 * R!Vote(old, vote).votes
            /\ R!Vote(old, vote).runs = old.runs /\ R!Vote(old, vote).found = old.found
            /\ R!Vote(old, vote).rank = old.rank
        BY <4>1, <4>2, VoteEarns
      <4> QED
        BY <4>3, <4>4 DEF old
    <3> QED
      BY <2>3, <3>1, <3>2 DEF Earns
  <2> HIDE DEF r
  <2> QED
    BY <2>1, <2>4, <1>3
<1>7. ASSUME NEW n \in Rated, NEW found \in Findings, NEW completed \in BOOLEAN,
             R!update_rating_from_result(n, found, completed)
      PROVE  RatedInv'
  <2> DEFINE old == rating[n]
             ran == [old EXCEPT !.runs = @ + 1, !.found = @ + found]
             new == IF completed THEN R!Vote(ran, 9) ELSE ran
             r == [new EXCEPT !.rank = R!calculate_rank(new.runs, new.found)]
             h == IF completed /\ highest[n] < 9 THEN 9 ELSE highest[n]
  <2>1. rating' = [rating EXCEPT ![n] = r] /\ highest' = [highest EXCEPT ![n] = h]
    BY <1>7 DEF R!update_rating_from_result, R!Rank
  <2>2. /\ highest[n] \in Nat /\ old \in RatingRecords /\ found \in Nat
        /\ (highest[n] <= 10 => old.sum <= 10 * old.votes)
    BY <1>1, NodeAssumption DEF Earns
  <2>3. h \in Nat /\ h >= highest[n] /\ (completed => h >= 9)
    BY <2>2
  <2>4. ran \in RatingRecords /\ ran.sum = old.sum /\ ran.votes = old.votes
    <3>1. old.runs \in Nat /\ old.found \in Nat
      BY <2>2 DEF RatingRecords
    <3>2. old.runs + 1 \in Nat /\ old.found + found \in Nat
      BY <2>2, <3>1
    <3>3. PICK a, b \in Nat : a = old.runs + 1 /\ b = old.found + found
      BY <3>2
    <3>4. ran = [old EXCEPT !.runs = a, !.found = b]
      BY <3>3
    <3> QED
      BY <2>2, <3>4 DEF RatingRecords
  <2> HIDE DEF h, ran, old
  <2>5. new \in RatingRecords /\ (h <= 10 => new.sum <= 10 * new.votes)
    <3>1. CASE completed
      <4>1. h \in Nat /\ (h <= 10 => 9 <= 10 /\ ran.sum <= 10 * ran.votes)
        BY <2>2, <2>3, <2>4, <3>1
      <4>2. /\ R!Vote(ran, 9) \in RatingRecords
            /\ h <= 10 => R!Vote(ran, 9).sum <= 10 * R!Vote(ran, 9).votes
        BY <2>4, <4>1, VoteEarns
      <4> QED
        BY <3>1, <4>2
    <3>2. CASE ~completed
      <4>1. ran.sum \in Nat /\ ran.votes \in Nat
        BY <2>4 DEF RatingRecords
      <4> QED
        BY <2>2, <2>3, <2>4, <3>2, <4>1
    <3> QED
      BY <3>1, <3>2
  <2> HIDE DEF new
  <2>6. /\ r \in RatingRecords /\ r.sum = new.sum /\ r.votes = new.votes
        /\ r.runs = new.runs /\ r.found = new.found
        /\ r.rank = R!calculate_rank(new.runs, new.found)
    <3>1. R!calculate_rank(new.runs, new.found) \in Ranks
      BY <2>5 DEF RatingRecords, Ranks
    <3>2. \A k \in Ranks : [new EXCEPT !.rank = k] \in RatingRecords
      BY <2>5 DEF RatingRecords
    <3> QED
      BY <2>5, <3>1, <3>2 DEF RatingRecords
  <2> HIDE DEF r
  <2>7. Earns(r, h)
    BY <2>3, <2>5, <2>6 DEF Earns
  <2> QED
    BY <2>1, <2>7, <1>3
<1>8. ASSUME NEW n \in Rated, R!Show(n) \/ R!screen_agent(n) \/ R!Replace(n) PROVE RatedInv'
  BY <1>4, <1>8 DEF R!Show, R!screen_agent, R!Replace
<1>9. ASSUME NEW n \in Rated, R!Expire(n) PROVE RatedInv'
  BY <1>3, <1>4, <1>5, <1>9 DEF R!Expire
<1>10. CASE R!RatingRestart
  <2>1. CASE UNCHANGED <<rating, highest>>
    BY <2>1, <1>4
  <2>2. CASE rating' = [n \in Rated |-> R!NoRating] /\ highest' = [n \in Rated |-> 0]
    <3>1. rating' \in [Rated -> RatingRecords] /\ highest' \in [Rated -> Nat]
      BY <2>2, NoRank
    <3>2. \A n \in Rated : Earns(rating'[n], highest'[n])
      BY <2>2, <1>5
    <3> QED
      BY <3>1, <3>2, <1>2
  <2> QED
    BY <1>10, <2>1, <2>2 DEF R!RatingRestart
<1>11. CASE UNCHANGED rVars
  BY <1>4, <1>11 DEF rVars
<1> QED
  BY <1>6, <1>7, <1>8, <1>9, <1>10, <1>11 DEF R!RatingNext

(* Rounding never lifts a mean of votes within the scale above it, and the *)
(* rank follows the results through every vote, expiry and restart.        *)
THEOREM RatingsHoldAlways == NodeSpec => []RatingsHold
<1>1. NodeInit => RatedInv
  BY RatingStart DEF NodeInit
<1>2. RatedInv /\ [NodeNext]_NodeVars => RatedInv'
  BY PartSteps, RatingStep
<1>3. RatedInv => RatingsHold
  <2> SUFFICES ASSUME RatedInv, NEW n \in Rated, ~(highest[n] > 10)
               PROVE  ~(R!Stars(rating[n]) > 10)
    BY DEF RatingsHold, R!PanicNeedsVote, RatedInv
  <2>1. rating[n] \in RatingRecords /\ highest[n] \in Nat
    BY DEF RatedInv
  <2>2. rating[n].sum <= 10 * rating[n].votes
    BY <2>1 DEF RatedInv
  <2>3. R!Stars(rating[n]) <= 10
    BY <2>1, <2>2, MeanWithin
  <2>4. R!Stars(rating[n]) \in Int
    <3>1. \A x \in Nat, y \in Nat \ {0} : x \div y \in Int
      OBVIOUS
    <3>2. rating[n].sum \in Nat /\ rating[n].votes \in Nat
      BY <2>1 DEF RatingRecords
    <3>3. /\ 2 * rating[n].sum + rating[n].votes \in Nat
          /\ (rating[n].votes # 0 => 2 * rating[n].votes \in Nat \ {0})
      BY <3>2
    <3> QED
      BY <3>1, <3>3 DEF R!Stars
  <2> QED
    BY <2>3, <2>4
<1> QED
  BY <1>1, <1>2, <1>3, SpecParts, PTL

-----------------------------------------------------------------------------
(* Cargo.                                                                  *)

(* A prefix, element by element.                                           *)
LEMMA PrefixElements ==
    ASSUME NEW T, NEW s \in Seq(T), NEW t \in Seq(T)
    PROVE  IsPrefix(s, t) <=> Len(s) <= Len(t) /\ \A i \in 1..Len(s) : s[i] = t[i]
<1>1. Len(s) \in Nat /\ Len(t) \in Nat
  OBVIOUS
<1>2. ASSUME Len(s) <= Len(t)
      PROVE  /\ SubSeq(s, 1, Len(s)) = [i \in 1..Len(s) |-> s[i]]
             /\ SubSeq(t, 1, Len(s)) = [i \in 1..Len(s) |-> t[i]]
  BY <1>1, <1>2
<1> QED
  BY <1>1, <1>2 DEF IsPrefix

LEMMA EmptyPrefix ==
    ASSUME NEW T, NEW s \in Seq(T), NEW t \in Seq(T), Len(s) = 0
    PROVE  IsPrefix(s, t)
<1>1. 0 <= Len(t) /\ \A i \in 1..0 : s[i] = t[i]
  OBVIOUS
<1> QED
  BY <1>1, PrefixElements

Moved == {"Transferring", "TransferPaused", "OfferRejected"}

CargoInv ==
    /\ DOMAIN cargoStatus = Cargos
    /\ cargoStatus = [c \in Cargos |-> cargoStatus[c]]
    /\ \A c \in Cargos : cargoStatus[c] \in Moved \cup {"AcceptancePending"} => c \in incoming
    /\ listing \in Seq(Cargos) /\ pendingCargo \in Seq(Cargos)
    /\ C!ListingHolds

LEMMA CargoStart == C!CargoInit => CargoInv
<1> SUFFICES ASSUME C!CargoInit PROVE CargoInv
  OBVIOUS
<1>1. /\ listing \in Seq(Cargos) /\ pendingCargo \in Seq(Cargos) /\ Len(listing) = 0
      /\ Len(pendingCargo) = 0
  BY DEF C!CargoInit
<1>2. IsPrefix(listing, pendingCargo)
  BY <1>1, EmptyPrefix
<1>3. C!ListingHolds
  BY <1>2 DEF C!ListingHolds, C!IsPrefix, IsPrefix
<1> QED
  BY <1>1, <1>3 DEF C!CargoInit, CargoInv, Moved

LEMMA CargoStep == CargoInv /\ [C!CargoNext]_cVars => CargoInv'
<1> SUFFICES ASSUME CargoInv, [C!CargoNext]_cVars PROVE CargoInv'
  OBVIOUS
<1> DEFINE Engine == /\ cargoStatus = [c \in Cargos |-> cargoStatus[c]]
                     /\ \A c \in Cargos : cargoStatus[c] \in Moved \cup {"AcceptancePending"}
                                            => c \in incoming
           Operator == /\ listing \in Seq(Cargos) /\ pendingCargo \in Seq(Cargos)
                       /\ C!ListingHolds
<1>1. Engine /\ Operator
  BY DEF CargoInv
<1>2. Engine' /\ Operator' => CargoInv'
  BY DEF CargoInv
<1>3. UNCHANGED <<incoming, cargoStatus>> => Engine'
  BY <1>1
<1>4. UNCHANGED <<listing, pendingCargo>> => Operator'
  BY <1>1 DEF C!ListingHolds
<1>5. ASSUME NEW c \in Cargos,
             \/ C!push_offer(c) \/ C!store_incoming(c) \/ C!set_paused(c) \/ C!expire(c)
             \/ C!CargoConfirm(c)
      PROVE  CargoInv'
  <2>1. Engine'
    BY <1>1, <1>5 DEF C!push_offer, C!store_incoming, C!set_paused, C!expire, C!CargoConfirm, Moved
  <2> QED
    BY <2>1, <1>2, <1>4, <1>5 DEF C!push_offer, C!store_incoming, C!set_paused, C!expire,
                                  C!CargoConfirm, C!operatorVars
<1>6. ASSUME NEW c \in Cargos, NEW accepted \in BOOLEAN, C!CargoAck(c, accepted) PROVE CargoInv'
  <2> DEFINE new == IF accepted THEN "Transferring" ELSE "OfferRejected"
  <2>1. /\ cargoStatus' = [cargoStatus EXCEPT ![c] = IF @ = "AcceptancePending" THEN new ELSE @]
        /\ incoming' = incoming
    BY <1>6 DEF C!CargoAck, C!Answer
  <2>2. Engine'
    BY <1>1, <2>1 DEF Moved
  <2> QED
    BY <2>2, <1>2, <1>4, <1>6 DEF C!CargoAck, C!operatorVars
<1>7. ASSUME NEW c \in Cargos, C!CargoOffer(c) PROVE CargoInv'
  <2>1. pendingCargo' = Append(pendingCargo, c) /\ listing' = listing
    BY <1>7 DEF C!CargoOffer
  <2>2. listing \in Seq(Cargos) /\ pendingCargo \in Seq(Cargos) /\ pendingCargo' \in Seq(Cargos)
    BY <1>1, <2>1
  <2>3. IsPrefix(listing, pendingCargo)
    BY <1>1 DEF C!ListingHolds, C!IsPrefix, IsPrefix
  <2>4. /\ Len(listing) <= Len(pendingCargo)
        /\ \A i \in 1..Len(listing) : listing[i] = pendingCargo[i]
    BY <2>2, <2>3, PrefixElements
  <2>5. /\ Len(listing') <= Len(pendingCargo')
        /\ \A i \in 1..Len(listing') : listing'[i] = pendingCargo'[i]
    BY <2>1, <2>2, <2>4
  <2>6. IsPrefix(listing', pendingCargo')
    BY <2>1, <2>2, <2>5, PrefixElements
  <2>7. Operator'
    BY <2>1, <2>2, <2>6 DEF C!ListingHolds, C!IsPrefix, IsPrefix
  <2> QED
    BY <2>7, <1>2, <1>3, <1>7 DEF C!CargoOffer, C!engineVars
<1>8. CASE C!List
  <2>1. listing' = pendingCargo /\ pendingCargo' = pendingCargo
    BY <1>8 DEF C!List
  <2>2. IsPrefix(listing', pendingCargo')
    BY <1>1, <2>1, PrefixElements
  <2>3. Operator'
    BY <1>1, <2>1, <2>2 DEF C!ListingHolds, C!IsPrefix, IsPrefix
  <2> QED
    BY <2>3, <1>2, <1>3, <1>8 DEF C!List, C!engineVars
<1>9. ASSUME NEW i \in 1..MaxOffers, C!Decide(i) PROVE CargoInv'
  <2>1. pendingCargo' = C!RemoveAt(pendingCargo, i) /\ listing' = <<>> /\ i \in DOMAIN pendingCargo
    BY <1>9 DEF C!Decide
  <2>2. pendingCargo' \in Seq(Cargos)
    <3>1. i \in 1..Len(pendingCargo) /\ Len(pendingCargo) \in Nat /\ pendingCargo \in Seq(Cargos)
      BY <1>1, <2>1
    <3>2. SubSeq(pendingCargo, 1, i - 1) \in Seq(Cargos)
      BY <3>1, SubSeqProperties
    <3>3. SubSeq(pendingCargo, i + 1, Len(pendingCargo)) \in Seq(Cargos)
      BY <3>1, SubSeqProperties
    <3> QED
      BY <2>1, <3>2, <3>3 DEF C!RemoveAt
  <2>3. listing' \in Seq(Cargos) /\ Len(listing') = 0
    BY <2>1
  <2>4. IsPrefix(listing', pendingCargo')
    BY <2>2, <2>3, EmptyPrefix
  <2>5. Operator'
    BY <2>2, <2>3, <2>4 DEF C!ListingHolds, C!IsPrefix, IsPrefix
  <2> QED
    BY <2>5, <1>2, <1>3, <1>9 DEF C!Decide, C!engineVars
<1>10. CASE UNCHANGED cVars
  BY <1>2, <1>3, <1>4, <1>10 DEF cVars
<1> QED
  BY <1>5, <1>6, <1>7, <1>8, <1>9, <1>10 DEF C!CargoNext

(* Whatever peers answer and however late, they move offers that were      *)
(* received here only, and the operator decides on what was listed.        *)
THEOREM CargoHoldsAlways == NodeSpec => []CargoHolds
<1>1. NodeInit => CargoInv
  BY CargoStart DEF NodeInit
<1>2. CargoInv /\ [NodeNext]_NodeVars => CargoInv'
  BY PartSteps, CargoStep
<1>3. CargoInv => CargoHolds
  BY DEF CargoInv, CargoHolds, C!OnlyReceivedMoves, Moved
<1> QED
  BY <1>1, <1>2, <1>3, SpecParts, PTL

-----------------------------------------------------------------------------
(* Skills.                                                                 *)

(* The files of a directory are of a skill of its name.                    *)
Filed(dir) == \A d \in DOMAIN dir : \A s \in dir[d].json : s.name = d[2]

Safe(s) == s.author = "merged" => s.name \in S!Names(S!Found(agentsDir)) \cup rewritten

(* From its first write on a command may lose the skill it replaces, which *)
(* was found before it, and when it registers its skill that one is found. *)
MakingInv ==
    /\ making = [kind |-> making.kind, skill |-> making.skill, step |-> making.step]
    /\ making.kind = "evolved" => making.step = "register" /\ making.skill.author = "self-evolved"
    /\ making.step \in {"fill", "prompt", "text"} =>
        \A s \in registry : s.author = "merged" /\ s.name = making.skill.name => s.name \in rewritten
    /\ making.step = "register" /\ making.kind # "evolved" =>
        S!Dir \in DOMAIN agentsDir /\ agentsDir[S!Dir] = [json |-> {making.skill}, md |-> TRUE]

(* No file of an export is an evolved skill's.                             *)
FormatInv == exported.format # "evolved"

SkillInv == Filed(agentsDir) /\ (\A s \in registry : Safe(s)) /\ MakingInv /\ FormatInv

(* The names that are found, by the directories they are found in.         *)
LEMMA FoundNames ==
    ASSUME NEW dir, Filed(dir), NEW n
    PROVE  n \in S!Names(S!Found(dir)) <=>
              \E d \in DOMAIN dir : dir[d].md /\ dir[d].json # {} /\ d[2] = n
<1>1. \A s : s \in S!Found(dir) <=> \E d \in DOMAIN dir : dir[d].md /\ s \in dir[d].json
  BY DEF S!Found
<1>2. n \in S!Names(S!Found(dir)) <=> \E s \in S!Found(dir) : s.name = n
  BY DEF S!Names
<1>3. \A d \in DOMAIN dir : \A s \in dir[d].json : s.name = d[2]
  BY DEF Filed
<1>4. ASSUME NEW d \in DOMAIN dir, dir[d].md, dir[d].json # {}, d[2] = n
      PROVE  \E s \in S!Found(dir) : s.name = n
  <2>1. PICK s \in dir[d].json : TRUE
    BY <1>4
  <2> QED
    BY <2>1, <1>1, <1>3, <1>4
<1>5. ASSUME NEW s \in S!Found(dir), s.name = n
      PROVE  \E d \in DOMAIN dir : dir[d].md /\ dir[d].json # {} /\ d[2] = n
  BY <1>1, <1>3, <1>5
<1> QED
  BY <1>2, <1>4, <1>5

(* A write to one directory loses no other name.                           *)
LEMMA WriteKeepsNames ==
    ASSUME Filed(agentsDir), NEW js, NEW md, S!WriteFiles(js, md),
           \A s \in js : s.name = making.skill.name
    PROVE  /\ Filed(agentsDir')
           /\ \A n \in S!Names(S!Found(agentsDir)) :
                 n # making.skill.name => n \in S!Names(S!Found(agentsDir'))
<1> DEFINE dir == S!Dir
<1>1. agentsDir' = [d \in DOMAIN agentsDir \cup {dir} |-> IF d = dir THEN [json |-> js, md |-> md]
                                                          ELSE agentsDir[d]]
  BY DEF S!WriteFiles
<1>2. dir[2] = making.skill.name
  BY DEF S!Dir
<1> HIDE DEF dir
<1>3. DOMAIN agentsDir' = DOMAIN agentsDir \cup {dir}
  BY <1>1
<1>4. \A d \in DOMAIN agentsDir' :
         agentsDir'[d] = IF d = dir THEN [json |-> js, md |-> md] ELSE agentsDir[d]
  BY <1>1
<1>5. Filed(agentsDir')
  <2>1. ASSUME NEW d \in DOMAIN agentsDir', NEW s \in agentsDir'[d].json PROVE s.name = d[2]
    BY <2>1, <1>2, <1>3, <1>4 DEF Filed
  <2> QED
    BY <2>1 DEF Filed
<1>6. ASSUME NEW n \in S!Names(S!Found(agentsDir)), n # making.skill.name
      PROVE  n \in S!Names(S!Found(agentsDir'))
  <2>1. PICK d \in DOMAIN agentsDir : agentsDir[d].md /\ agentsDir[d].json # {} /\ d[2] = n
    BY FoundNames
  <2>2. d \in DOMAIN agentsDir' /\ agentsDir'[d] = agentsDir[d]
    BY <1>2, <1>3, <1>4, <1>6, <2>1
  <2> QED
    BY <1>5, <2>1, <2>2, FoundNames
<1> QED
  BY <1>5, <1>6

LEMMA SkillStart == S!SkillInit => SkillInv
<1> SUFFICES ASSUME S!SkillInit PROVE SkillInv
  OBVIOUS
<1>1. DOMAIN agentsDir = {}
  BY DEF S!SkillInit
<1>2. \A s \in registry : s.author = "tui"
  BY DEF S!SkillInit, S!FromShipped, S!Skill
<1>3. making = [kind |-> "none", skill |-> S!NoSkill, step |-> "none"]
  BY DEF S!SkillInit, S!Idle
<1>4. exported.format = "none"
  BY DEF S!SkillInit, S!NoExport
<1> QED
  BY <1>1, <1>2, <1>3, <1>4 DEF SkillInv, Filed, Safe, MakingInv, FormatInv

LEMMA SkillStep == SkillInv /\ [S!SkillNext]_sVars => SkillInv'
<1> SUFFICES ASSUME SkillInv, [S!SkillNext]_sVars PROVE SkillInv'
  OBVIOUS
<1> DEFINE name == making.skill.name
           found == S!Names(S!Found(agentsDir))
<1>0. Filed(agentsDir) /\ (\A s \in registry : Safe(s)) /\ MakingInv /\ FormatInv
  BY DEF SkillInv
<1>1. making = [kind |-> making.kind, skill |-> making.skill, step |-> making.step]
  BY <1>0 DEF MakingInv
<1>2. ASSUME NEW kind, NEW s, S!Begin(kind, s), kind = "evolved" => s.author = "self-evolved"
      PROVE  SkillInv'
  <2>1. /\ making' = [kind |-> kind, skill |-> s,
                      step |-> IF kind = "evolved" THEN "register" ELSE "json"]
        /\ UNCHANGED <<registry, agentsDir, exported, rewritten>>
    BY <1>2 DEF S!Begin
  <2>2. MakingInv'
    BY <2>1, <1>2 DEF MakingInv
  <2> QED
    BY <2>1, <2>2, <1>0 DEF SkillInv, Safe, FormatInv
<1>3. ASSUME NEW s \in registry, NEW t \in registry, S!merge_agents(s, t) PROVE SkillInv'
  BY <1>2, <1>3 DEF S!merge_agents
<1>4. ASSUME NEW s \in registry, S!evolve(s) PROVE SkillInv'
  <2>1. S!Skill(Append(s.name, S!Version[s.minor + 1]), s.minor + 1, "self-evolved").author
            = "self-evolved"
    BY DEF S!Skill
  <2> QED
    BY <1>2, <1>4, <2>1 DEF S!evolve
<1>5. CASE S!import_agent
  <2>1. PICK f \in IF exported.format = "waters" THEN {"waters", "tui"} ELSE {exported.format} :
            S!Begin(f, S!Parsed(f, exported.skill))
    BY <1>5 DEF S!import_agent
  <2>2. f = "evolved" => S!Parsed(f, exported.skill).author = "self-evolved"
    BY <1>0, <2>1 DEF FormatInv
  <2> QED
    BY <1>2, <2>1, <2>2
<1>6. ASSUME NEW js, NEW md, S!WriteFiles(js, md), \A s \in js : s.name = name,
             UNCHANGED registry, rewritten \subseteq rewritten',
             \A s \in registry : s.author = "merged" /\ s.name = name => name \in rewritten'
      PROVE  Filed(agentsDir') /\ \A s \in registry' : Safe(s)'
  <2>1. Filed(agentsDir') /\ \A n \in found : n # name => n \in S!Names(S!Found(agentsDir'))
    BY <1>0, <1>6, WriteKeepsNames
  <2> QED
    BY <1>0, <1>6, <2>1 DEF Safe
<1>7. CASE S!TruncateJson
  <2>1. /\ S!WriteFiles({}, S!Prompt) /\ UNCHANGED <<registry, exported>>
        /\ rewritten' = rewritten \cup ({name} \cap found)
        /\ making' = [making EXCEPT !.step = "fill"] /\ making.step = "json"
    BY <1>7 DEF S!TruncateJson, S!Then
  <2>2. \A s \in registry : s.author = "merged" /\ s.name = name => name \in rewritten'
    BY <2>1, <1>0 DEF Safe
  <2>3. making' = [kind |-> making.kind, skill |-> making.skill, step |-> "fill"]
    BY <2>1, <1>1
  <2>4. MakingInv'
    BY <1>0, <2>1, <2>2, <2>3 DEF MakingInv
  <2> QED
    BY <1>0, <1>6, <2>1, <2>2, <2>4 DEF SkillInv, FormatInv
<1>8. ASSUME NEW to \in {"prompt", "text"}, S!WriteFiles({making.skill}, S!Prompt)
                                            \/ S!WriteFiles({making.skill}, TRUE),
             making.step \in {"fill", "prompt"}, S!Then(to), UNCHANGED <<registry, exported, rewritten>>
      PROVE  SkillInv'
  <2>1. \A s \in registry : s.author = "merged" /\ s.name = name => name \in rewritten
    BY <1>0, <1>8 DEF MakingInv
  <2>0. \A s \in {making.skill} : s.name = name
    OBVIOUS
  <2>2. Filed(agentsDir') /\ \A s \in registry' : Safe(s)'
    <3>1. UNCHANGED registry /\ rewritten' = rewritten /\ rewritten \subseteq rewritten'
      BY <1>8
    <3>2. \A s \in registry : s.author = "merged" /\ s.name = name => name \in rewritten'
      BY <2>1, <3>1
    <3>3. CASE S!WriteFiles({making.skill}, S!Prompt)
      BY <1>6, <2>0, <3>1, <3>2, <3>3
    <3>4. CASE S!WriteFiles({making.skill}, TRUE)
      <4>1. \E md : S!WriteFiles({making.skill}, md)
        BY ONLY <3>4, Zenon
      <4> QED
        BY <1>6, <2>0, <3>1, <3>2, <4>1
    <3> QED
      BY <1>8, <3>3, <3>4
  <2>3. making' = [kind |-> making.kind, skill |-> making.skill, step |-> to]
    BY <1>1, <1>8 DEF S!Then
  <2>4. MakingInv'
    BY <1>0, <1>8, <2>1, <2>3 DEF MakingInv
  <2> QED
    BY <1>0, <1>8, <2>2, <2>4 DEF SkillInv, FormatInv
<1>9. CASE S!FillJson
  BY <1>8, <1>9 DEF S!FillJson
<1>10. CASE S!WriteMd
  <2>1. S!WriteFiles({making.skill}, TRUE) /\ UNCHANGED <<registry, exported, rewritten>>
    BY <1>10 DEF S!WriteMd
  <2>2. CASE making.step = "prompt" /\ S!Then("text")
    BY <1>8, <2>1, <2>2
  <2>3. CASE making.step = "text" /\ S!Then("register")
    <3>1. \A s \in registry : s.author = "merged" /\ s.name = name => name \in rewritten
      BY <1>0, <2>3 DEF MakingInv
    <3>2. Filed(agentsDir') /\ \A s \in registry' : Safe(s)'
      <4>1. UNCHANGED registry /\ rewritten' = rewritten /\ rewritten \subseteq rewritten'
        BY <2>1
      <4>2. \A s \in registry : s.author = "merged" /\ s.name = name => name \in rewritten'
        BY <3>1, <4>1
      <4>3. \A s \in {making.skill} : s.name = name
        OBVIOUS
      <4>4. \E md : S!WriteFiles({making.skill}, md)
        BY ONLY <2>1, Zenon
      <4> QED
        BY <1>6, <4>1, <4>2, <4>3, <4>4
    <3>3. making' = [kind |-> making.kind, skill |-> making.skill, step |-> "register"]
      BY <1>1, <2>3 DEF S!Then
    <3>4. S!Dir' = S!Dir
      BY <3>3 DEF S!Dir
    <3>5. S!Dir \in DOMAIN agentsDir' /\ agentsDir'[S!Dir] = [json |-> {making.skill}, md |-> TRUE]
      BY <2>1 DEF S!WriteFiles
    <3>6. making.kind # "evolved"
      BY <1>0, <2>3 DEF MakingInv
    <3>7. MakingInv'
      BY <3>3, <3>4, <3>5, <3>6 DEF MakingInv
    <3> QED
      BY <1>0, <2>1, <3>2, <3>7 DEF SkillInv, FormatInv
  <2> QED
    BY <1>10, <2>2, <2>3 DEF S!WriteMd
<1>11. making' = S!Idle => MakingInv'
  BY DEF S!Idle, MakingInv
<1>12. CASE S!WriteFails
  <2>1. making' = S!Idle /\ UNCHANGED <<registry, exported, rewritten>>
    BY <1>12 DEF S!WriteFails
  <2>2. CASE UNCHANGED agentsDir
    BY <1>0, <1>11, <2>1, <2>2 DEF SkillInv, Safe, FormatInv
  <2>3. CASE making.step = "text" /\ S!WriteFiles({making.skill}, FALSE)
    <3>1. \A s \in registry : s.author = "merged" /\ s.name = name => name \in rewritten
      BY <1>0, <2>3 DEF MakingInv
    <3>2. Filed(agentsDir') /\ \A s \in registry' : Safe(s)'
      <4>1. UNCHANGED registry /\ rewritten' = rewritten /\ rewritten \subseteq rewritten'
        BY <2>1
      <4>2. \A s \in registry : s.author = "merged" /\ s.name = name => name \in rewritten'
        BY <3>1, <4>1
      <4>3. \A s \in {making.skill} : s.name = name
        OBVIOUS
      <4>4. \E md : S!WriteFiles({making.skill}, md)
        BY ONLY <2>3, Zenon
      <4> QED
        BY <1>6, <4>1, <4>2, <4>3, <4>4
    <3> QED
      BY <1>0, <1>11, <2>1, <3>2 DEF SkillInv, FormatInv
  <2> QED
    BY <1>12, <2>2, <2>3 DEF S!WriteFails
<1>13. CASE S!Register
  <2>1. making.step = "register" /\ making' = S!Idle /\ UNCHANGED <<agentsDir, exported>>
    BY <1>13 DEF S!Register, S!MayRegister
  <2>2. making.kind # "evolved" => name \in found
    <3>1. ASSUME making.kind # "evolved" PROVE name \in found
      <4>1. S!Dir \in DOMAIN agentsDir /\ agentsDir[S!Dir] = [json |-> {making.skill}, md |-> TRUE]
        BY <1>0, <2>1, <3>1 DEF MakingInv
      <4>2. S!Dir[2] = name
        BY DEF S!Dir
      <4> QED
        BY <1>0, <4>1, <4>2, FoundNames
    <3> QED
      BY <3>1
  <2>3. rewritten' = IF making.kind = "evolved" THEN rewritten ELSE rewritten \ {name}
    BY <1>13 DEF S!Register
  <2>4. CASE making.kind \in {"merged", "evolved"}
    <3>1. registry' = S!Over(registry, {making.skill})
      BY <1>13, <2>4 DEF S!Register
    <3>2. ASSUME NEW s \in registry' PROVE Safe(s)'
      <4>1. CASE s = making.skill
        BY <1>0, <2>1, <2>2, <2>4, <4>1 DEF Safe, MakingInv
      <4>2. CASE s # making.skill
        <5>1. s \in registry /\ s.name # name
          BY <3>1, <3>2, <4>2 DEF S!Over, S!Names
        <5> QED
          BY <1>0, <2>1, <2>3, <5>1 DEF Safe
      <4> QED
        BY <4>1, <4>2
    <3> QED
      BY <1>0, <1>11, <2>1, <3>2 DEF SkillInv, FormatInv
  <2>5. CASE making.kind \notin {"merged", "evolved"}
    <3>1. PICK r \in S!Loads(agentsDir) : registry' = S!Over(registry, r)
      BY <1>13, <2>5 DEF S!Register
    <3>2. r \subseteq S!Found(agentsDir) /\ S!Names(r) = found
      BY <3>1 DEF S!Loads
    <3>3. ASSUME NEW s \in registry' PROVE Safe(s)'
      <4>1. CASE s \in r
        BY <2>1, <3>2, <4>1 DEF Safe, S!Names
      <4>2. CASE s \notin r
        <5>1. s \in registry /\ s.name \notin found
          BY <3>1, <3>2, <3>3, <4>2 DEF S!Over
        <5> QED
          BY <1>0, <2>1, <2>2, <2>3, <2>5, <5>1 DEF Safe
      <4> QED
        BY <4>1, <4>2
    <3> QED
      BY <1>0, <1>11, <2>1, <3>3 DEF SkillInv, FormatInv
  <2> QED
    BY <2>4, <2>5
<1>14. CASE S!Restart
  <2>1. PICK r \in S!Loads(agentsDir) : registry' = S!Over(S!FromShipped, r)
    BY <1>14 DEF S!Restart
  <2>2. making' = S!Idle /\ UNCHANGED <<agentsDir, exported, rewritten>>
    BY <1>14 DEF S!Restart
  <2>3. r \subseteq S!Found(agentsDir)
    BY <2>1 DEF S!Loads
  <2>4. \A s \in S!FromShipped : s.author = "tui"
    BY DEF S!FromShipped, S!Skill
  <2>5. \A s \in registry' : Safe(s)'
    BY <2>1, <2>2, <2>3, <2>4 DEF S!Over, S!Names, Safe
  <2> QED
    BY <1>0, <1>11, <2>2, <2>5 DEF SkillInv, FormatInv
<1>15. UNCHANGED <<registry, agentsDir, making, rewritten>> /\ exported'.format # "evolved"
        => SkillInv'
  BY <1>0 DEF SkillInv, Safe, MakingInv, FormatInv, S!Dir
<1>16. ASSUME NEW s \in registry, NEW f \in S!Foreign \cup {"waters"}, S!export_agent(s, f)
       PROVE  SkillInv'
  BY <1>15, <1>16 DEF S!export_agent, S!Foreign
<1>17. CASE UNCHANGED sVars
  BY <1>0, <1>15, <1>17 DEF sVars, FormatInv
<1> QED
  BY <1>3, <1>4, <1>5, <1>7, <1>9, <1>10, <1>12, <1>13, <1>14, <1>16, <1>17 DEF S!SkillNext

-----------------------------------------------------------------------------
(* The store of MCP skills.                                                *)

Complete(config) ==
    /\ DOMAIN config = {"installed", "taps"}
    /\ \A s \in config.installed \ Builtin : skillDir[s] = "full"

(* How far the directory is at each step of an installation: until it is   *)
(* complete it is in no configuration.                                     *)
StoreInv ==
    /\ DOMAIN skillDir = McpSkills
    /\ Complete(storeFile) /\ Complete(store)
    /\ job.step = "dir" => skillDir[job.skill] = "none"
    /\ job.step = "meta" => skillDir[job.skill] = "empty"
    /\ job.step = "md" => skillDir[job.skill] = "meta"
    /\ job.step = "record" => skillDir[job.skill] = "full"
    /\ job.step \in {"dir", "meta", "md"} => job.skill \in McpSkills
    /\ job = [step |-> job.step, skill |-> job.skill]

LEMMA StoreStart == P!StoreInit => StoreInv
  BY DEF P!StoreInit, StoreInv, Complete, P!Done, P!DefaultConfig

LEMMA StoreWriteKeeps ==
    ASSUME StoreInv, NEW from \in {"dir", "meta", "md"}, NEW what, NEW to \in {"meta", "md", "record"},
           P!Write(from, what, to),
           to = "meta" => what = "empty", to = "md" => what = "meta", to = "record" => what = "full"
    PROVE  StoreInv'
<1>1. /\ job.step = from /\ job' = [job EXCEPT !.step = to]
      /\ skillDir' = [skillDir EXCEPT ![job.skill] = what]
      /\ UNCHANGED <<storeFile, store>>
  BY DEF P!Write, P!Then
<1>2. job.skill \in McpSkills /\ skillDir[job.skill] # "full"
  BY <1>1 DEF StoreInv
<1>3. job'.step = to /\ job'.skill = job.skill /\ job' = [step |-> job'.step, skill |-> job'.skill]
  BY <1>1 DEF StoreInv
<1>4. DOMAIN skillDir' = McpSkills /\ skillDir'[job.skill] = what
  BY <1>1, <1>2 DEF StoreInv
<1>5. \A s : s # job.skill => skillDir'[s] = skillDir[s]
  BY <1>1
<1>6. Complete(storeFile)' /\ Complete(store)'
  BY <1>1, <1>2, <1>5 DEF StoreInv, Complete
<1> QED
  BY <1>2, <1>3, <1>4, <1>6 DEF StoreInv

LEMMA StoreStep == StoreInv /\ [P!StoreNext]_pVars => StoreInv'
<1> SUFFICES ASSUME StoreInv, [P!StoreNext]_pVars PROVE StoreInv'
  OBVIOUS
<1>1. ASSUME UNCHANGED skillDir, Complete(storeFile)', Complete(store)',
             job' = [step |-> job'.step, skill |-> job'.skill],
             job'.step \notin {"dir", "meta", "md", "record"}
      PROVE  StoreInv'
  BY <1>1 DEF StoreInv
<1>2. Complete(P!DefaultConfig)
  BY DEF Complete, P!DefaultConfig
<1>3. ASSUME NEW s \in McpSkills, P!Install(s) PROVE StoreInv'
  BY <1>3 DEF P!Install, P!Open, StoreInv, Complete
<1>4. ASSUME NEW t \in Taps, P!ChangeTap(t) PROVE StoreInv'
  <2>1. PICK taps : store' = [storeFile EXCEPT !.taps = taps]
    BY <1>4 DEF P!ChangeTap
  <2>2. job' = [step |-> "save", skill |-> "none"] /\ UNCHANGED <<skillDir, storeFile>>
    BY <1>4 DEF P!ChangeTap
  <2>3. Complete(store)' /\ Complete(storeFile)'
    BY <2>1, <2>2 DEF StoreInv, Complete
  <2> QED
    BY <2>2, <2>3, <1>1
<1>5. CASE P!CreateDir
  BY <1>5, StoreWriteKeeps DEF P!CreateDir
<1>6. CASE P!WriteMeta
  BY <1>6, StoreWriteKeeps DEF P!WriteMeta
<1>7. CASE P!WriteSkillMd
  BY <1>7, StoreWriteKeeps DEF P!WriteSkillMd
<1>8. CASE P!Record
  <2>1. /\ job.step = "record" /\ store' = [store EXCEPT !.installed = @ \cup {job.skill}]
        /\ job' = [job EXCEPT !.step = "save"] /\ UNCHANGED <<skillDir, storeFile>>
    BY <1>8 DEF P!Record, P!RecordAt, P!Then
  <2>2. Complete(store)' /\ Complete(storeFile)'
    BY <2>1 DEF StoreInv, Complete
  <2>3. job'.step = "save" /\ job' = [step |-> job'.step, skill |-> job'.skill]
    BY <2>1 DEF StoreInv
  <2> QED
    BY <2>1, <2>2, <2>3, <1>1
<1>9. CASE P!StepFails
  BY <1>1, <1>9 DEF P!StepFails, P!Done, StoreInv, Complete
<1>10. CASE P!SaveTruncate
  <2>1. /\ storeFile' = P!DefaultConfig /\ job' = [job EXCEPT !.step = "fill"]
        /\ UNCHANGED <<skillDir, store>>
    BY <1>10 DEF P!SaveTruncate, P!Then
  <2>2. job'.step = "fill" /\ job' = [step |-> job'.step, skill |-> job'.skill]
    BY <2>1 DEF StoreInv
  <2>3. Complete(store)' /\ Complete(storeFile)'
    BY <2>1, <1>2 DEF StoreInv, Complete
  <2> QED
    BY <2>1, <2>2, <2>3, <1>1
<1>11. CASE P!SaveFill
  BY <1>1, <1>11 DEF P!SaveFill, P!Done, StoreInv, Complete
<1>12. CASE UNCHANGED pVars
  BY <1>12 DEF pVars, StoreInv, Complete
<1> QED
  BY <1>3, <1>4, <1>5, <1>6, <1>7, <1>8, <1>9, <1>10, <1>11, <1>12 DEF P!StoreNext

(* Wherever a write fails or a process ends, skills that were merged are   *)
(* found again unless they were being replaced, and what the store lists   *)
(* is whole.                                                               *)
THEOREM SkillsHoldAlways == NodeSpec => []SkillsHold
<1>1. NodeInit => SkillInv /\ StoreInv
  BY SkillStart, StoreStart DEF NodeInit
<1>2. SkillInv /\ StoreInv /\ [NodeNext]_NodeVars => (SkillInv /\ StoreInv)'
  BY PartSteps, SkillStep, StoreStep
<1>3. SkillInv /\ StoreInv => SkillsHold
  <2> SUFFICES ASSUME SkillInv, StoreInv PROVE SkillsHold
    OBVIOUS
  <2>1. S!MergedSurvives
    BY DEF SkillInv, Safe, S!MergedSurvives
  <2>2. P!ListedIsComplete
    BY DEF StoreInv, Complete, P!ListedIsComplete
  <2> QED
    BY <2>1, <2>2 DEF SkillsHold
<1> QED
  BY <1>1, <1>2, <1>3, SpecParts, PTL

-----------------------------------------------------------------------------
(* Contacts and jobs.                                                      *)

(* The first place that SelectInSeq finds.                                 *)
LEMMA FirstPlace ==
    ASSUME NEW n \in Nat, NEW I \in SUBSET (1..n), I # {}
    PROVE  Min(I) \in I /\ \A j \in I : Min(I) <= j
<1> DEFINE m == Cardinality(I)
<1>1. IsFiniteSet(1..n) /\ I \in SUBSET Nat
  BY FS_Interval
<1>2. IsFiniteSet(I) /\ m \in Nat /\ m # 0
  BY <1>1, FS_Subset, FS_CardinalityType, FS_EmptySet
<1>3. /\ Ordered(I) \in [1..m -> I]
      /\ \A i, j \in 1..m : i < j => Ordered(I)[i] < Ordered(I)[j]
      /\ \A k \in I : \E i \in 1..m : Ordered(I)[i] = k
  BY <1>1, <1>2, OrderedIsSorted
<1> HIDE DEF m
<1>4. 1 \in 1..m /\ Ordered(I)[1] \in I
  BY <1>2, <1>3
<1>5. ASSUME NEW j \in I PROVE Ordered(I)[1] <= j
  <2>1. PICK i \in 1..m : Ordered(I)[i] = j
    BY <1>3
  <2>2. i = 1 \/ 1 < i
    BY <1>2
  <2>3. Ordered(I)[1] = j \/ Ordered(I)[1] < j
    BY <2>1, <2>2, <1>3, <1>4
  <2>4. Ordered(I)[1] \in Nat /\ j \in Nat
    BY <1>1, <1>4
  <2> QED
    BY <2>3, <2>4
<1> QED
  BY <1>4, <1>5 DEF Min

ListEntries == [id : Contacts \cup Jobs \cup {"default"}, value : Values \cup {"a"}]
OneEach(l) == \A j, k \in DOMAIN l : l[j].id = l[k].id => j = k

LEMMA OneMore ==
    ASSUME NEW l \in Seq(ListEntries), OneEach(l), NEW new \in ListEntries,
           \A j \in DOMAIN l : l[j].id # new.id
    PROVE  Append(l, new) \in Seq(ListEntries) /\ OneEach(Append(l, new))
<1>1. PICK n \in Nat : n = Len(l) /\ DOMAIN l = 1..n
  OBVIOUS
<1> DEFINE m == Append(l, new)
<1>2. m \in Seq(ListEntries) /\ Len(m) = n + 1 /\ DOMAIN m = 1..(n + 1)
  BY <1>1
<1>3. m[n + 1] = new /\ \A j \in 1..n : m[j] = l[j]
  BY <1>1
<1> HIDE DEF m
<1>4. \A j \in DOMAIN m : j \in DOMAIN l \/ j = n + 1
  BY <1>1, <1>2
<1>5. OneEach(m)
  BY <1>1, <1>3, <1>4 DEF OneEach
<1> QED
  BY <1>2, <1>5 DEF m

(* A file that is being written cannot be parsed, and one that can holds   *)
(* what is in memory unless a save failed.                                 *)
ConfigFile == [whole : BOOLEAN, entries : Seq(ListEntries)]

ConfigInv ==
    /\ items \in [F!Lists -> Seq(ListEntries)] /\ disk \in [F!Lists -> ConfigFile]
    /\ unsaved \in SUBSET F!Lists /\ saving \in F!Lists \cup {"none"}
    /\ OneEach(items["contacts"]) /\ OneEach(disk["contacts"].entries)
    /\ \A f \in F!Lists : saving = f => ~disk[f].whole
    /\ F!ChangesKept

LEMMA DefaultIsList == F!Default \in Seq(ListEntries) /\ OneEach(F!Default) /\ <<>> \in Seq(ListEntries) /\ OneEach(<<>>)
<1>1. F!Entry("default", "a") \in ListEntries
  BY DEF F!Entry, ListEntries
<1>2. F!Default = <<F!Entry("default", "a")>>
  BY DEF F!Default
<1>3. F!Default \in Seq(ListEntries) /\ DOMAIN F!Default = {1}
  BY <1>1, <1>2
<1> QED
  BY <1>3 DEF OneEach

LEMMA ConfigStart == F!ConfigInit => ConfigInv
<1> SUFFICES ASSUME F!ConfigInit PROVE ConfigInv
  OBVIOUS
<1>1. \A f \in F!Lists : items[f] = F!Default
  BY DEF F!ConfigInit
<1>2. "contacts" \in F!Lists /\ saving = "none" /\ "none" \notin F!Lists /\ unsaved = {}
  BY DEF F!ConfigInit, F!Lists
<1>3. /\ F!Whole(F!Default) \in ConfigFile /\ F!Whole(F!Default).entries = F!Default
      /\ F!Broken \in ConfigFile /\ F!Broken.entries = <<>> /\ ~F!Broken.whole
  BY DefaultIsList DEF F!Whole, F!Broken, ConfigFile
<1>4. PICK w \in BOOLEAN : disk = [f \in F!Lists |-> IF f = "contacts" /\ ~w THEN F!Broken
                                                     ELSE F!Whole(F!Default)]
  BY DEF F!ConfigInit
<1>5. \A f \in F!Lists : disk[f] = F!Broken \/ disk[f] = F!Whole(F!Default)
  BY <1>4
<1>6. disk \in [F!Lists -> ConfigFile]
  BY <1>3, <1>4
<1>7. items \in [F!Lists -> Seq(ListEntries)]
  BY DefaultIsList DEF F!ConfigInit
<1>8. OneEach(items["contacts"]) /\ OneEach(disk["contacts"].entries)
  BY <1>1, <1>2, <1>3, <1>5, DefaultIsList
<1>9. F!ChangesKept
  BY <1>1, <1>3, <1>5 DEF F!ChangesKept
<1> QED
  BY <1>2, <1>6, <1>7, <1>8, <1>9 DEF ConfigInv

(* The new list of a command that changes one.                             *)
LEMMA ChangeKeeps ==
    ASSUME ConfigInv, NEW f \in F!Lists, NEW l \in Seq(ListEntries),
           f = "contacts" => OneEach(l), F!Change(f, l), F!Save(f)
    PROVE  ConfigInv'
<1>1. saving = "none" /\ items' = [items EXCEPT ![f] = l]
  BY DEF F!Change
<1>2. items' \in [F!Lists -> Seq(ListEntries)] /\ \A g \in F!Lists : items'[g] = IF g = f THEN l ELSE items[g]
  BY <1>1 DEF ConfigInv
<1>3. "contacts" \in F!Lists /\ "none" \notin F!Lists
  BY DEF F!Lists
<1>4. OneEach(items'["contacts"])
  BY <1>2, <1>3 DEF ConfigInv
<1>5. CASE saving' = f /\ disk' = [disk EXCEPT ![f] = F!Broken] /\ UNCHANGED unsaved
  <2>1. F!Broken \in ConfigFile /\ F!Broken.entries = <<>> /\ ~F!Broken.whole
    BY DefaultIsList DEF F!Broken, ConfigFile
  <2>2. disk' \in [F!Lists -> ConfigFile] /\ \A g \in F!Lists : disk'[g] = IF g = f THEN F!Broken ELSE disk[g]
    BY <1>5, <2>1 DEF ConfigInv
  <2>3. OneEach(disk'["contacts"].entries)
    BY <1>3, <2>1, <2>2, DefaultIsList DEF ConfigInv
  <2>4. F!ChangesKept'
    BY <1>1, <1>2, <1>3, <1>5, <2>1, <2>2 DEF ConfigInv, F!ChangesKept
  <2> QED
    BY <1>2, <1>4, <1>5, <2>1, <2>2, <2>3, <2>4 DEF ConfigInv
<1>6. CASE UNCHANGED <<saving, disk>> /\ unsaved' = unsaved \cup {f}
  <2>1. F!ChangesKept'
    BY <1>1, <1>2, <1>6 DEF ConfigInv, F!ChangesKept
  <2> QED
    BY <1>2, <1>4, <1>6, <2>1 DEF ConfigInv
<1> QED
  BY <1>5, <1>6 DEF F!Save

(* First finds the first entry of the id, and 0 if there is none.          *)
LEMMA FirstFinds ==
    ASSUME NEW f, items[f] \in Seq(ListEntries), NEW i
    PROVE  \/ F!First(f, i) = 0 /\ \A k \in DOMAIN items[f] : items[f][k].id # i
           \/ /\ F!First(f, i) \in DOMAIN items[f] /\ items[f][F!First(f, i)].id = i
              /\ \A k \in DOMAIN items[f] : items[f][k].id = i => F!First(f, i) <= k
<1> DEFINE l == items[f]
           I == {k \in 1..Len(l) : l[k].id = i}
<1>1. F!First(f, i) = IF I # {} THEN Min(I) ELSE 0
  BY DEF F!First, F!SelectInSeq, F!Min, Min
<1>2. DOMAIN l = 1..Len(l) /\ Len(l) \in Nat
  OBVIOUS
<1>3. CASE I = {}
  BY <1>1, <1>2, <1>3
<1>4. CASE I # {}
  <2>1. Min(I) \in I /\ \A j \in I : Min(I) <= j
    BY <1>2, <1>4, FirstPlace
  <2> QED
    BY <2>1, <1>1, <1>2, <1>4
<1> QED
  BY <1>3, <1>4

(* What Without leaves is a list, still with one entry for each id.        *)
LEMMA WithoutEntry ==
    ASSUME NEW f, items[f] \in Seq(ListEntries), NEW i
    PROVE  /\ F!Without(f, i) \in Seq(ListEntries) /\ Len(F!Without(f, i)) <= Len(items[f])
           /\ OneEach(items[f]) => OneEach(F!Without(f, i))
<1> DEFINE l == items[f]
           K == {k \in DOMAIN l : l[k].id # i}
           picked == Kept(l, K)
<1>1. \A any : F!Ordered(any) = Ordered(any)
  BY DEF F!Ordered, Ordered, F!Cardinality, Cardinality
<1>2. F!Without(f, i) = picked
  BY <1>1 DEF F!Without, F!Kept, Kept, F!Cardinality, Cardinality
<1>3. K \in SUBSET DOMAIN l
  OBVIOUS
<1>4. /\ picked \in Seq(ListEntries) /\ Len(picked) <= Len(l)
      /\ \A k \in DOMAIN picked : Ordered(K)[k] \in K /\ picked[k] = l[Ordered(K)[k]]
      /\ \A j, k \in DOMAIN picked : Ordered(K)[j] = Ordered(K)[k] => j = k
  BY <1>3, KeptIsPart
<1> HIDE DEF picked
<1>5. ASSUME OneEach(l), NEW j \in DOMAIN picked, NEW k \in DOMAIN picked, picked[j].id = picked[k].id
      PROVE  j = k
  <2>1. Ordered(K)[j] \in DOMAIN l /\ Ordered(K)[k] \in DOMAIN l
    BY <1>4
  <2>2. l[Ordered(K)[j]].id = l[Ordered(K)[k]].id
    BY <1>4, <1>5
  <2>3. Ordered(K)[j] = Ordered(K)[k]
    BY <2>1, <2>2, <1>5 DEF OneEach
  <2> QED
    BY <2>3, <1>4
<1>6. OneEach(l) => OneEach(picked)
  BY <1>5 DEF OneEach
<1> QED
  BY <1>2, <1>4, <1>6

LEMMA ConfigStep == ConfigInv /\ [F!ConfigNext]_fVars => ConfigInv'
<1> SUFFICES ASSUME ConfigInv, [F!ConfigNext]_fVars PROVE ConfigInv'
  OBVIOUS
<1> DEFINE contacts == items["contacts"]
           cron == items["cron"]
<1>1. /\ contacts \in Seq(ListEntries) /\ cron \in Seq(ListEntries) /\ OneEach(contacts)
      /\ "contacts" \in F!Lists /\ "cron" \in F!Lists /\ "cron" # "contacts"
  BY DEF ConfigInv, F!Lists
<1>2. ASSUME NEW i \in Contacts \cup Jobs, NEW v \in Values
      PROVE  F!Entry(i, v) \in ListEntries /\ F!Entry(i, v).id = i
  BY DEF F!Entry, ListEntries
<1>3. ASSUME NEW l \in Seq(ListEntries), NEW k \in DOMAIN l, NEW v \in Values
      PROVE  /\ [l EXCEPT ![k].value = v] \in Seq(ListEntries)
             /\ OneEach(l) => OneEach([l EXCEPT ![k].value = v])
  <2> DEFINE e == [l[k] EXCEPT !.value = v]
             m == [l EXCEPT ![k] = e]
  <2>1. l[k] \in ListEntries
    OBVIOUS
  <2>2. e \in ListEntries /\ e.id = l[k].id
    BY <2>1 DEF ListEntries
  <2> HIDE DEF e
  <2>3. m \in Seq(ListEntries) /\ DOMAIN m = DOMAIN l
    BY <2>2
  <2>4. \A j \in DOMAIN l : m[j].id = l[j].id
    BY <2>2
  <2> QED
    BY <2>3, <2>4 DEF e, OneEach
<1>4. ASSUME NEW i \in Contacts, NEW v \in Values, F!set(i, v) PROVE ConfigInv'
  <2> DEFINE k == F!First("contacts", i)
  <2>1. CASE k # 0
    <3>1. k \in DOMAIN contacts
      BY <2>1, <1>1, FirstFinds
    <3> DEFINE l == [contacts EXCEPT ![k].value = v]
    <3>2. l \in Seq(ListEntries) /\ OneEach(l)
      BY <3>1, <1>1, <1>3
    <3>3. F!Change("contacts", l) /\ F!Save("contacts")
      BY <1>4, <2>1 DEF F!set, F!Find, F!SaveUpdate
    <3> HIDE DEF l
    <3> QED
      BY <3>2, <3>3, <1>1, ChangeKeeps
  <2>2. CASE k = 0
    <3>1. \A j \in DOMAIN contacts : contacts[j].id # i
      BY <2>2, <1>1, FirstFinds
    <3> DEFINE new == F!Entry(i, v)
               l == Append(contacts, new)
    <3>2. new \in ListEntries /\ new.id = i
      BY <1>2
    <3>3. F!Change("contacts", l) /\ F!Save("contacts")
      BY <1>4, <2>2 DEF F!set, F!Find
    <3> HIDE DEF new
    <3>4. l \in Seq(ListEntries) /\ OneEach(l)
      BY <3>1, <3>2, <1>1, OneMore
    <3> HIDE DEF l
    <3> QED
      BY <3>3, <3>4, <1>1, ChangeKeeps
  <2> QED
    BY <2>1, <2>2
<1>5. ASSUME NEW i \in Contacts, F!remove(i) PROVE ConfigInv'
  <2> DEFINE l == F!Without("contacts", i)
  <2>1. l \in Seq(ListEntries) /\ OneEach(l)
    BY <1>1, WithoutEntry
  <2>2. F!Change("contacts", l) /\ F!Save("contacts")
    BY <1>5 DEF F!remove
  <2> HIDE DEF l
  <2> QED
    BY <2>1, <2>2, <1>1, ChangeKeeps
<1>6. ASSUME NEW l \in Seq(ListEntries), F!Change("cron", l), F!Save("cron") PROVE ConfigInv'
  BY <1>1, <1>6, ChangeKeeps
<1>7. ASSUME NEW i \in Jobs, NEW v \in Values, F!add_job(i, v) PROVE ConfigInv'
  <2>1. Append(cron, F!Entry(i, v)) \in Seq(ListEntries)
    BY <1>1, <1>2
  <2> QED
    BY <2>1, <1>6, <1>7 DEF F!add_job
<1>8. ASSUME NEW i \in Jobs, F!remove_job(i) PROVE ConfigInv'
  <2>1. F!Without("cron", i) \in Seq(ListEntries)
    BY <1>1, WithoutEntry
  <2> QED
    BY <2>1, <1>6, <1>8 DEF F!remove_job
<1>9. ASSUME NEW i \in Jobs, NEW v \in Values, F!switch_job(i, v) PROVE ConfigInv'
  <2> DEFINE k == F!First("cron", i)
  <2>1. k # 0 => k \in DOMAIN cron
    BY <1>1, FirstFinds
  <2>2. F!Switched(i, v) = IF k = 0 THEN cron ELSE [cron EXCEPT ![k].value = v]
    BY DEF F!Switched
  <2> HIDE DEF k
  <2>3. CASE k = 0
    BY <2>2, <2>3, <1>1, <1>6, <1>9 DEF F!switch_job
  <2>4. CASE k # 0
    <3>1. [cron EXCEPT ![k].value = v] \in Seq(ListEntries)
      BY <2>1, <2>4, <1>1, <1>3
    <3> QED
      BY <3>1, <2>2, <2>4, <1>6, <1>9 DEF F!switch_job
  <2> QED
    BY <2>3, <2>4
<1>10. CASE F!Saved
  <2> DEFINE new == F!Whole(items[saving])
  <2>1. /\ saving \in F!Lists /\ saving' = "none" /\ UNCHANGED items
        /\ disk' = [disk EXCEPT ![saving] = new] /\ unsaved' = unsaved \ {saving}
    BY <1>10 DEF F!Saved, ConfigInv
  <2>2. new \in ConfigFile /\ new.entries = items[saving]
    BY <2>1 DEF ConfigInv, ConfigFile, F!Whole
  <2> HIDE DEF new
  <2>3. disk' \in [F!Lists -> ConfigFile] /\ \A g \in F!Lists : disk'[g] = IF g = saving THEN new ELSE disk[g]
    BY <2>1, <2>2 DEF ConfigInv
  <2>4. saving' \notin F!Lists
    BY <2>1 DEF F!Lists
  <2>5. OneEach(disk'["contacts"].entries)
    BY <2>2, <2>3, <1>1 DEF ConfigInv
  <2>6. F!ChangesKept'
    BY <2>1, <2>2, <2>3 DEF ConfigInv, F!ChangesKept
  <2> QED
    BY <2>1, <2>3, <2>4, <2>5, <2>6 DEF ConfigInv
<1>11. CASE F!SaveFails
  <2>1. /\ saving \in F!Lists /\ saving' = "none" /\ UNCHANGED <<items, disk>>
        /\ unsaved' = unsaved \cup {saving} /\ saving' \notin F!Lists
    BY <1>11 DEF F!SaveFails, ConfigInv, F!Lists
  <2>2. F!ChangesKept'
    BY <2>1 DEF ConfigInv, F!ChangesKept
  <2> QED
    BY <2>1, <2>2 DEF ConfigInv
<1>12. CASE F!New
  <2>1. /\ items' = [f \in F!Lists |-> IF disk[f].whole THEN disk[f].entries ELSE F!Unparsed(f)]
        /\ unsaved' = {} /\ saving' = "none" /\ UNCHANGED disk
    BY <1>12 DEF F!New
  <2>2. \A f \in F!Lists : F!Unparsed(f) \in Seq(ListEntries) /\ OneEach(F!Unparsed(f))
    BY DefaultIsList DEF F!Unparsed
  <2>3. \A f \in F!Lists : disk[f].entries \in Seq(ListEntries)
    BY DEF ConfigInv, ConfigFile
  <2>4. items' \in [F!Lists -> Seq(ListEntries)]
    BY <2>1, <2>2, <2>3
  <2>5. \A f \in F!Lists : items'[f] = IF disk[f].whole THEN disk[f].entries ELSE F!Unparsed(f)
    BY <2>1
  <2>6. OneEach(items'["contacts"])
    BY <2>2, <2>5, <1>1 DEF ConfigInv
  <2>7. saving' \notin F!Lists
    BY <2>1 DEF F!Lists
  <2>8. F!ChangesKept'
    BY <2>1, <2>5 DEF ConfigInv, F!ChangesKept
  <2> QED
    BY <2>1, <2>4, <2>6, <2>7, <2>8 DEF ConfigInv
<1>13. CASE UNCHANGED fVars
  BY <1>13 DEF fVars, ConfigInv, F!ChangesKept
<1> QED
  BY <1>4, <1>5, <1>7, <1>8, <1>9, <1>10, <1>11, <1>12, <1>13 DEF F!ConfigNext

(* Whatever is changed, whichever saves fail and wherever a process ends,  *)
(* what is in memory is what the next process finds, unless a save failed  *)
(* or the file cannot be parsed, and a contact is in the book once.        *)
THEOREM ListsHoldAlways == NodeSpec => []ListsHold
<1>1. NodeInit => ConfigInv
  BY ConfigStart DEF NodeInit
<1>2. ConfigInv /\ [NodeNext]_NodeVars => ConfigInv'
  BY PartSteps, ConfigStep
<1>3. ConfigInv => ListsHold
  BY DEF ConfigInv, ListsHold, OneEach, F!OneContact
<1> QED
  BY <1>1, <1>2, <1>3, SpecParts, PTL

-----------------------------------------------------------------------------
(* A file of lines.                                                        *)

(* Of n texts that were written, bad are those that were cut short; waits  *)
(* is the last one while it has no newline yet, or 0.  What else stands on *)
(* the open line was cut short, and if something does, the last text was,  *)
(* or the one before it.                                                   *)
FileInv(f, n, waits, bad) ==
    /\ f = [parsed |-> f.parsed, open |-> f.open, utf8 |-> f.utf8]
    /\ f.utf8 \in BOOLEAN /\ n \in Nat /\ waits \in {0, n}
    /\ \A e \in bad \cup f.parsed : e \in 1..n
    /\ \A e \in f.open : e = 0 \/ e \in bad \/ e = waits
    /\ waits # 0 => n \in f.open
    /\ waits # 0 /\ f.open # {n} => n - 1 \in bad
    /\ waits = 0 /\ f.open # {} => n \in bad

(* A text is lost at most when it was cut short, or the one before it.     *)
Local(f, n, bad) == \A e \in 1..n : e \in Whole(f) \/ e \in bad \/ e - 1 \in bad

LEMMA SameLines == /\ \A f : Q!Whole(f) = Whole(f) /\ J!Whole(f) = Whole(f)
                   /\ \A f : Q!WithNewline(f) = WithNewline(f) /\ J!WithNewline(f) = WithNewline(f)
                   /\ \A f : Q!CutTexts(f) = CutTexts(f) /\ J!CutTexts(f) = CutTexts(f)
                   /\ \A f, e : Q!WithText(f, e) = WithText(f, e) /\ J!WithText(f, e) = WithText(f, e)
                   /\ \A f : Q!Readable(f) = Readable(f) /\ J!Readable(f) = Readable(f)
                   /\ Q!Empty = Empty /\ J!Empty = Empty
<1>1. \A f : Q!Whole(f) = Whole(f) /\ J!Whole(f) = Whole(f)
  BY DEF Q!Whole, J!Whole, Whole, Q!Fragment, J!Fragment, Fragment
<1>2. \A f, e : Q!WithText(f, e) = WithText(f, e) /\ J!WithText(f, e) = WithText(f, e)
  BY DEF Q!WithText, J!WithText, WithText
<1>3. \A f : Q!WithNewline(f) = WithNewline(f) /\ J!WithNewline(f) = WithNewline(f)
  BY DEF Q!WithNewline, J!WithNewline, WithNewline, Q!Whole, J!Whole, Whole, Q!Fragment, J!Fragment, Fragment
<1>4. \A f : Q!CutTexts(f) = CutTexts(f) /\ J!CutTexts(f) = CutTexts(f)
  BY <1>2 DEF Q!CutTexts, J!CutTexts, CutTexts, Q!Fragment, J!Fragment, Fragment
<1>5. \A f : Q!Readable(f) = Readable(f) /\ J!Readable(f) = Readable(f)
  BY <1>1 DEF Q!Readable, J!Readable, Readable
<1>6. Q!Empty = Empty /\ J!Empty = Empty
  BY DEF Q!Empty, J!Empty, Empty
<1> QED
  BY <1>1, <1>2, <1>3, <1>4, <1>5, <1>6

LEMMA EmptyFile == FileInv(Empty, 0, 0, {}) /\ Empty.parsed = {} /\ Empty.open = {} /\ Empty.utf8
  BY DEF FileInv, Empty

(* What can be read of the lines.                                          *)
LEMMA WholeOf ==
    ASSUME NEW f, NEW e
    PROVE  e \in Whole(f) <=> e \in f.parsed \/ (e \in f.open /\ e # 0 /\ f.open = {e})
  BY DEF Whole, Fragment

LEMMA WholeWithin ==
    ASSUME NEW f, NEW n, NEW waits, NEW bad, FileInv(f, n, waits, bad), NEW e \in Whole(f)
    PROVE  e \in 1..n
<1>1. e \in f.parsed \/ (e \in f.open /\ e # 0)
  BY WholeOf
<1>2. n \in Nat /\ (waits # 0 => n \in 1..n)
  BY DEF FileInv
<1> QED
  BY <1>1, <1>2 DEF FileInv

(* More text on the open line costs what stood there alone, which was cut  *)
(* short, and is read itself unless something stood there.                 *)
LEMMA TextKeeps ==
    ASSUME NEW f, NEW n, NEW bad, FileInv(f, n, 0, bad),
           NEW e \in {0, n + 1}, NEW u \in BOOLEAN, NEW g, g = [WithText(f, e) EXCEPT !.utf8 = u],
           NEW more, more = IF e = 0 THEN bad \cup {n + 1} ELSE bad
    PROVE  /\ FileInv(g, n + 1, e, more)
           /\ \A d \in 1..(n + 1) : \/ d \in Whole(g) \/ d \in more \/ d - 1 \in more
                                    \/ d \in 1..n /\ d \notin Whole(f)
<1>1. f = [parsed |-> f.parsed, open |-> f.open, utf8 |-> f.utf8] /\ n \in Nat /\ n + 1 \in Nat
  BY DEF FileInv
<1>2. g = [parsed |-> f.parsed, open |-> f.open \cup {e}, utf8 |-> u]
  BY <1>1 DEF WithText
<1>3. g.parsed = f.parsed /\ g.open = f.open \cup {e} /\ g.utf8 = u
  BY <1>2
<1>4. \A d : d \in 1..(n + 1) <=> d \in 1..n \/ d = n + 1
  BY <1>1
<1>5. n + 1 # 0 /\ n + 1 # n /\ (n + 1) - 1 = n
  BY <1>1
<1>6. /\ f.open # {} => n \in bad
      /\ \A d \in f.open : d = 0 \/ d \in bad
      /\ \A d \in bad \cup f.parsed : d \in 1..n
  BY DEF FileInv
<1>7. FileInv(g, n + 1, e, more)
  <2>1. \A d \in more \cup g.parsed : d \in 1..(n + 1)
    BY <1>3, <1>4, <1>6
  <2>2. \A d \in g.open : d = 0 \/ d \in more \/ d = e
    BY <1>3, <1>6
  <2>3. e # 0 => n + 1 \in g.open /\ n + 1 # 0
    BY <1>3, <1>5
  <2>4. e # 0 /\ g.open # {n + 1} => (n + 1) - 1 \in more
    BY <1>3, <1>5, <1>6
  <2>5. e = 0 => n + 1 \in more
    OBVIOUS
  <2> QED
    BY <1>1, <1>2, <1>3, <2>1, <2>2, <2>3, <2>4, <2>5 DEF FileInv
<1>8. ASSUME NEW d \in 1..(n + 1)
      PROVE  d \in Whole(g) \/ d \in more \/ d - 1 \in more \/ (d \in 1..n /\ d \notin Whole(f))
  <2>1. CASE d = n + 1
    <3>1. CASE e = 0
      BY <2>1, <3>1
    <3>2. CASE e # 0 /\ f.open = {}
      BY <2>1, <3>2, <1>3, <1>5, WholeOf
    <3>3. CASE e # 0 /\ f.open # {}
      BY <2>1, <3>3, <1>5, <1>6
    <3> QED
      BY <3>1, <3>2, <3>3
  <2>2. CASE d \in 1..n /\ d \in Whole(f)
    <3>1. d \in f.parsed \/ (d \in f.open /\ d # 0)
      BY <2>2, WholeOf
    <3>2. d \in f.parsed => d \in Whole(g)
      BY <1>3, WholeOf
    <3>3. d \in f.open /\ d # 0 => d \in more
      BY <1>6
    <3> QED
      BY <3>1, <3>2, <3>3
  <2> QED
    BY <2>1, <2>2, <1>4
<1> QED
  BY <1>3, <1>7, <1>8

(* What a text may be is the whole, or a part that may not be UTF-8.       *)
LEMMA TextForms ==
    ASSUME NEW f, NEW n, NEW waits, NEW bad, FileInv(f, n, waits, bad)
    PROVE  /\ f.utf8 \in BOOLEAN
           /\ \A e : WithText(f, e) = [WithText(f, e) EXCEPT !.utf8 = f.utf8]
           /\ \A g \in CutTexts(f) : \E u \in BOOLEAN : g = [WithText(f, 0) EXCEPT !.utf8 = u]
<1>1. f = [parsed |-> f.parsed, open |-> f.open, utf8 |-> f.utf8] /\ f.utf8 \in BOOLEAN
  BY DEF FileInv
<1>2. \A e : WithText(f, e) = [WithText(f, e) EXCEPT !.utf8 = f.utf8]
  BY <1>1 DEF WithText
<1>3. ASSUME NEW g \in CutTexts(f) PROVE \E u \in BOOLEAN : g = [WithText(f, 0) EXCEPT !.utf8 = u]
  <2>1. g = [WithText(f, 0) EXCEPT !.utf8 = f.utf8] \/ g = [WithText(f, 0) EXCEPT !.utf8 = FALSE]
    BY <1>2, <1>3 DEF CutTexts, Fragment
  <2> QED
    BY <1>1, <2>1
<1> QED
  BY <1>1, <1>2, <1>3

(* A newline moves what stands whole on the open line to the others, and   *)
(* one that is missing makes its text one that was cut short.              *)
LEMMA NewlineKeeps ==
    ASSUME NEW f, NEW n, NEW bad, FileInv(f, n, n, bad), n # 0, NEW g, NEW more,
           \/ g = WithNewline(f) /\ more = bad
           \/ g = f /\ more = bad \cup {n}
    PROVE  /\ FileInv(g, n, 0, more)
           /\ Whole(g) = Whole(f) /\ bad \subseteq more
           /\ \A e \in g.parsed \cup g.open : e \in f.parsed \cup f.open
<1>1. /\ f = [parsed |-> f.parsed, open |-> f.open, utf8 |-> f.utf8] /\ f.utf8 \in BOOLEAN
      /\ n \in Nat /\ n # 0 /\ n \in 1..n
  BY DEF FileInv
<1>2. CASE g = WithNewline(f) /\ more = bad
  <2>1. g = [parsed |-> Whole(f), open |-> {}, utf8 |-> f.utf8]
    BY <1>1, <1>2 DEF WithNewline
  <2>2. g.parsed = Whole(f) /\ g.open = {} /\ g.utf8 = f.utf8
    BY <2>1
  <2>3. \A e \in Whole(f) : e \in 1..n /\ e \in f.parsed \cup f.open
    BY WholeWithin, WholeOf
  <2>4. Whole(g) = Whole(f)
    BY <2>2 DEF Whole
  <2>5. FileInv(g, n, 0, more)
    BY <1>1, <1>2, <2>1, <2>2, <2>3 DEF FileInv
  <2> QED
    BY <1>2, <2>2, <2>3, <2>4, <2>5
<1>3. CASE g = f /\ more = bad \cup {n}
  BY <1>1, <1>3 DEF FileInv
<1> QED
  BY <1>2, <1>3

-----------------------------------------------------------------------------
(* The offline queue.                                                      *)

(* An event that is not in the file nor returned was cut short, or the one *)
(* before it was.                                                          *)
Settled(e) ==
    e \in Whole(lines) \cup flushing.read \/ handed[e] > 0 \/ e \in failed \/ e - 1 \in failed

LineInv ==
    /\ adding \in BOOLEAN /\ (adding => written # 0)
    /\ FileInv(lines, written, IF adding THEN written ELSE 0, failed)

(* Where an event is at each step of a flush, and what the backup is good  *)
(* for until the next copy.                                                *)
QueueInv ==
    /\ LineInv /\ written <= MaxLines
    /\ handed \in [Q!Events -> Nat]
    /\ \A e \in Q!Events : /\ handed[e] <= 1
                           /\ handed[e] > 0 =>
                                e \notin lines.parsed \cup lines.open \cup flushing.read /\ e <= written
    /\ flushing = [at |-> flushing.at, read |-> flushing.read]
    /\ flushing.at \in {"none", "copy", "truncate", "return"}
    /\ adding => flushing.at = "none"
    /\ flushing.at = "none" => flushing.read = {}
    /\ flushing.at \in {"copy", "truncate"} => flushing.read = Whole(lines)
    /\ flushing.at = "return" => lines = Empty
    /\ \A e \in flushing.read : e \in 1..written
    /\ ~cut => \A e \in 1..written : Settled(e)
    /\ ~spoiled /\ flushing.at \in {"truncate", "return"} => flushing.read \subseteq backup
    /\ ~spoiled => \A e \in 1..written : Settled(e) \/ e \in backup

LEMMA QueueStart == Q!QueueInit => QueueInv
<1> SUFFICES ASSUME Q!QueueInit PROVE QueueInv
  OBVIOUS
<1>1. /\ written = 0 /\ adding = FALSE /\ failed = {} /\ lines = Empty
      /\ flushing = [at |-> "none", read |-> {}] /\ handed = [e \in Q!Events |-> 0]
  BY SameLines DEF Q!QueueInit, Q!NoFlush
<1>2. LineInv /\ written <= MaxLines
  <2>1. ~adding /\ adding \in BOOLEAN /\ (IF adding THEN written ELSE 0) = 0
    BY <1>1
  <2>2. FileInv(lines, written, 0, failed)
    BY <1>1, EmptyFile
  <2>3. written <= MaxLines
    BY <1>1, NodeAssumption
  <2> QED
    BY <2>1, <2>2, <2>3 DEF LineInv
<1>3. \A e \in 1..written : FALSE
  BY <1>1
<1> QED
  BY <1>1, <1>2, <1>3 DEF QueueInv

LEMMA QueueStep == QueueInv /\ [Q!QueueNext]_qVars => QueueInv'
<1> SUFFICES ASSUME QueueInv, [Q!QueueNext]_qVars PROVE QueueInv'
  OBVIOUS
<1>0. LineInv /\ written \in Nat /\ MaxLines \in Nat /\ written <= MaxLines
  BY NodeAssumption DEF QueueInv, LineInv, FileInv
<1>1. CASE Q!EnqueueText
  <2>1. /\ ~adding /\ adding = FALSE /\ written < MaxLines /\ written' = written + 1
        /\ flushing.read = {} /\ flushing.at = "none"
        /\ UNCHANGED <<backup, flushing, handed, cut, spoiled>>
    BY <1>0, <1>1 DEF Q!EnqueueText, Q!Calm, Q!NoFlush, LineInv, FileInv
  <2>2. \E e \in {0, written + 1}, u \in BOOLEAN :
            /\ lines' = [WithText(lines, e) EXCEPT !.utf8 = u]
            /\ adding' = (e # 0) /\ failed' = IF e = 0 THEN failed \cup {written + 1} ELSE failed
    <3>1. CASE lines' = WithText(lines, written + 1) /\ adding' = TRUE /\ failed' = failed
      <4>1. lines' = [WithText(lines, written + 1) EXCEPT !.utf8 = lines.utf8] /\ lines.utf8 \in BOOLEAN
        BY <1>0, <3>1, TextForms DEF LineInv
      <4>2. written + 1 # 0
        BY <1>0
      <4> QED
        BY <4>1, <4>2, <3>1
    <3>2. CASE lines' \in CutTexts(lines) /\ adding' = FALSE /\ failed' = failed \cup {written + 1}
      <4>1. PICK u \in BOOLEAN : lines' = [WithText(lines, 0) EXCEPT !.utf8 = u]
        BY <1>0, <3>2, TextForms DEF LineInv
      <4> QED
        BY <4>1, <3>2
    <3> QED
      BY <1>1, <2>1, <3>1, <3>2, SameLines DEF Q!EnqueueText
  <2>9. ASSUME NEW e \in {0, written + 1}, NEW u \in BOOLEAN,
               lines' = [WithText(lines, e) EXCEPT !.utf8 = u],
               failed' = IF e = 0 THEN failed \cup {written + 1} ELSE failed
        PROVE  /\ FileInv(lines', written + 1, e, failed')
               /\ \A d \in 1..(written + 1) :
                     \/ d \in Whole(lines') \/ d \in failed' \/ d - 1 \in failed'
                     \/ d \in 1..written /\ d \notin Whole(lines)
               /\ lines'.parsed = lines.parsed /\ lines'.open = lines.open \cup {e}
    <3>1. FileInv(lines, written, 0, failed)
      BY <1>0, <2>1 DEF LineInv
    <3>2. /\ FileInv(lines', written + 1, e, failed')
          /\ \A d \in 1..(written + 1) :
                \/ d \in Whole(lines') \/ d \in failed' \/ d - 1 \in failed'
                \/ d \in 1..written /\ d \notin Whole(lines)
      <4>1. /\ e \in {0, written + 1} /\ u \in BOOLEAN
            /\ lines' = [WithText(lines, e) EXCEPT !.utf8 = u]
            /\ failed' = IF e = 0 THEN failed \cup {written + 1} ELSE failed
        BY <2>9
      <4> QED
        BY <4>1, <3>1, <1>0, TextKeeps, SMT
    <3>3. lines'.parsed = lines.parsed /\ lines'.open = lines.open \cup {e}
      BY <2>9, <3>1 DEF FileInv, WithText
    <3> QED
      BY <3>2, <3>3
  <2>3. PICK e \in {0, written + 1}, u \in BOOLEAN :
            /\ lines' = [WithText(lines, e) EXCEPT !.utf8 = u]
            /\ adding' = (e # 0) /\ failed' = IF e = 0 THEN failed \cup {written + 1} ELSE failed
    BY <2>2
  <2>4. /\ FileInv(lines', written + 1, e, failed')
        /\ \A d \in 1..(written + 1) :
              \/ d \in Whole(lines') \/ d \in failed' \/ d - 1 \in failed'
              \/ d \in 1..written /\ d \notin Whole(lines)
        /\ lines'.parsed = lines.parsed /\ lines'.open = lines.open \cup {e}
    BY <2>3, <2>9
  <2>5. LineInv' /\ failed \subseteq failed' /\ written' <= MaxLines
    <3>1. adding' \in BOOLEAN /\ written' # 0 /\ written' <= MaxLines
      BY <1>0, <2>1, <2>3
    <3>2. e = IF adding' THEN written' ELSE 0
      BY <2>1, <2>3
    <3>3. failed \subseteq failed'
      BY <2>3
    <3>4. FileInv(lines', written', IF adding' THEN written' ELSE 0, failed')
      BY <2>1, <2>4, <3>2
    <3> QED
      BY <3>1, <3>3, <3>4 DEF LineInv
  <2>6. ASSUME NEW d \in 1..written', d \in 1..written => Settled(d) \/ d \in backup
        PROVE  Settled(d)' \/ d \in backup'
    BY <2>1, <2>4, <2>5, <2>6 DEF Settled
  <2>7. ASSUME NEW d \in 1..written', d \in 1..written => Settled(d) PROVE Settled(d)'
    BY <2>1, <2>4, <2>5, <2>7 DEF Settled
  <2>8. \A d \in Q!Events : /\ handed'[d] <= 1
                            /\ handed'[d] > 0 =>
                                 d \notin (lines.parsed)' \cup (lines.open)' \cup flushing'.read
                                 /\ d <= written'
    <3>1. \A d \in Q!Events : d # 0 /\ (d <= written => d # written + 1 /\ d <= written + 1)
      BY <1>0 DEF Q!Events
    <3> QED
      BY <2>1, <2>3, <2>4, <3>1 DEF QueueInv
  <2> QED
    BY <2>1, <2>5, <2>6, <2>7, <2>8 DEF QueueInv
<1>2. CASE Q!EnqueueNewline
  <2>1. /\ adding /\ adding' = FALSE /\ UNCHANGED <<written, backup, flushing, handed, cut, spoiled>>
        /\ \/ lines' = WithNewline(lines) /\ failed' = failed
           \/ lines' = lines /\ failed' = failed \cup {written}
    BY <1>2, SameLines DEF Q!EnqueueNewline
  <2>2. /\ FileInv(lines', written, 0, failed') /\ Whole(lines') = Whole(lines) /\ failed \subseteq failed'
        /\ \A e \in lines'.parsed \cup lines'.open : e \in lines.parsed \cup lines.open
    <3>1. FileInv(lines, written, written, failed) /\ written # 0
      BY <1>0, <2>1 DEF LineInv
    <3> QED
      BY <2>1, <3>1, NewlineKeeps
  <2>3. LineInv'
    BY <2>1, <2>2 DEF LineInv
  <2>4. \A e : Settled(e) => Settled(e)'
    BY <2>1, <2>2 DEF Settled
  <2>5. flushing.at = "none"
    BY <2>1 DEF QueueInv
  <2> QED
    BY <1>0, <2>1, <2>2, <2>3, <2>4, <2>5 DEF QueueInv
<1>3. ASSUME UNCHANGED <<written, adding, failed, lines, handed>>
      PROVE  LineInv' /\ Whole(lines)' = Whole(lines)
  BY <1>0, <1>3 DEF LineInv, Q!Whole
<1>4. CASE Q!Read
  <2>1. /\ flushing.at = "none" /\ flushing.read = {} /\ ~adding /\ lines.utf8
        /\ flushing' = [at |-> "copy", read |-> Whole(lines)]
        /\ UNCHANGED <<written, adding, failed, lines, backup, handed, cut, spoiled>>
    BY <1>4, SameLines DEF Q!Read, Q!Calm, Q!NoFlush, Readable
  <2>2. \A e \in Whole(lines) : e \in 1..written /\ e \in lines.parsed \cup lines.open
    BY <1>0, WholeOf, WholeWithin DEF LineInv
  <2>3. \A e : Settled(e) => Settled(e)'
    BY <2>1, <1>3 DEF Settled
  <2> QED
    BY <1>3, <2>1, <2>2, <2>3 DEF QueueInv
<1>5. ASSUME flushing.at \in {"copy", "truncate"},
             flushing' = [flushing EXCEPT !.at = "truncate"], flushing.at = "copy",
             UNCHANGED <<written, adding, failed, lines, handed, cut>>,
             spoiled => spoiled', cut /\ flushing.at = "copy" => spoiled',
             ~spoiled' => backup' = Whole(lines)
      PROVE  QueueInv'
  <2>1. flushing' = [at |-> "truncate", read |-> flushing.read] /\ flushing.read = Whole(lines)
    BY <1>5 DEF QueueInv
  <2>2. \A e : Settled(e) => Settled(e)'
    BY <1>3, <1>5, <2>1 DEF Settled
  <2>3. ~spoiled' => ~cut
    BY <1>5
  <2> QED
    BY <1>3, <1>5, <2>1, <2>2, <2>3 DEF QueueInv
<1>6. CASE Q!Copy
  BY <1>5, <1>6, SameLines DEF Q!Copy, Q!Copied, Q!Step
<1>7. CASE Q!CopyFails
  BY <1>5, <1>7 DEF Q!CopyFails, Q!Step
<1>8. CASE Q!Truncate
  <2>1. /\ flushing.at = "truncate" /\ flushing.read = Whole(lines) /\ lines' = Empty
        /\ flushing' = [at |-> "return", read |-> flushing.read] /\ ~adding
        /\ UNCHANGED <<written, adding, failed, backup, handed, cut, spoiled>>
    BY <1>8, SameLines DEF Q!Truncate, Q!Step, QueueInv
  <2>2. (lines.parsed)' = {} /\ (lines.open)' = {}
        /\ lines' = [parsed |-> {}, open |-> {}, utf8 |-> TRUE]
    BY <2>1 DEF Empty
  <2>3. LineInv'
    BY <1>0, <2>1, <2>2 DEF LineInv, FileInv
  <2>4. \A e : Settled(e) => Settled(e)'
    BY <2>1 DEF Settled
  <2> QED
    BY <2>1, <2>2, <2>3, <2>4 DEF QueueInv
<1>9. CASE Q!Return
  <2>1. /\ flushing.at = "return" /\ flushing' = Q!NoFlush /\ lines = Empty /\ ~adding
        /\ handed' = [e \in Q!Events |-> IF e \in flushing.read THEN handed[e] + 1 ELSE handed[e]]
        /\ UNCHANGED <<written, adding, failed, lines, backup, cut, spoiled>>
    BY <1>9 DEF Q!Return, Q!Returns, QueueInv
  <2>2. flushing'.at = "none" /\ flushing'.read = {} /\ flushing' = [at |-> flushing'.at, read |-> flushing'.read]
    BY <2>1 DEF Q!NoFlush
  <2>3. written \in 0..MaxLines /\ \A e \in 1..written : e \in Q!Events
    BY <1>0 DEF Q!Events
  <2>4. handed \in [Q!Events -> Nat] /\ handed' \in [Q!Events -> Nat]
    BY <2>1 DEF QueueInv
  <2>5. \A e \in Q!Events : handed[e] > 0 => e \notin flushing.read /\ e <= written
    BY DEF QueueInv
  <2>6. \A e \in flushing.read : e \in 1..written
    BY DEF QueueInv
  <2>7. \A e \in Q!Events : handed'[e] = IF e \in flushing.read THEN handed[e] + 1 ELSE handed[e]
    BY <2>1
  <2>8. \A e \in Q!Events : handed[e] <= 1
    BY DEF QueueInv
  <2>9. \A e \in Q!Events : handed'[e] <= 1 /\ (handed'[e] > 0 => e <= written)
    BY <2>3, <2>4, <2>5, <2>6, <2>7, <2>8
  <2>10. \A e \in 1..written : (e \in flushing.read \/ handed[e] > 0) => handed'[e] > 0
    BY <2>3, <2>4, <2>7
  <2>11. lines.parsed = {} /\ lines.open = {} /\ (lines.parsed)' = {} /\ (lines.open)' = {}
    BY <2>1 DEF Empty
  <2>12. LineInv' /\ Whole(lines)' = Whole(lines)
    BY <1>0, <2>1 DEF LineInv, Q!Whole
  <2>13. \A e \in 1..written : Settled(e) => Settled(e)'
    BY <2>1, <2>10, <2>12 DEF Settled
  <2>14. \A e \in Q!Events :
            /\ handed'[e] <= 1
            /\ handed'[e] > 0 => e \notin (lines.parsed)' \cup (lines.open)' \cup flushing'.read
                                 /\ e <= written'
    BY <2>1, <2>2, <2>9, <2>11
  <2> QED
    BY <2>1, <2>2, <2>4, <2>12, <2>13, <2>14 DEF QueueInv
<1>10. CASE Q!Ends
  <2>1. /\ flushing' = Q!NoFlush /\ cut' = TRUE /\ UNCHANGED <<written, adding, failed, lines, handed>>
        /\ spoiled' = (spoiled \/ (cut /\ flushing.at = "copy"))
        /\ flushing.at # "copy" => backup' = backup
    BY <1>10 DEF Q!Ends
  <2>2. flushing'.at = "none" /\ flushing'.read = {} /\ flushing' = [at |-> flushing'.at, read |-> flushing'.read]
    BY <2>1 DEF Q!NoFlush
  <2>3. ASSUME ~spoiled', NEW e \in 1..written PROVE Settled(e)' \/ e \in backup'
    <3>1. CASE flushing.at = "copy"
      <4>1. ~cut /\ flushing.read = Whole(lines)
        BY <2>1, <2>3, <3>1 DEF QueueInv
      <4>2. Settled(e)
        BY <4>1 DEF QueueInv
      <4> QED
        BY <1>3, <2>1, <4>1, <4>2 DEF Settled
    <3>2. CASE flushing.at # "copy"
      <4>1. Settled(e) \/ e \in backup
        BY <2>1, <2>3 DEF QueueInv
      <4>2. flushing.read \subseteq Whole(lines) \cup backup
        BY <2>1, <2>3, <3>2 DEF QueueInv
      <4> QED
        BY <1>3, <2>1, <3>2, <4>1, <4>2 DEF Settled
    <3> QED
      BY <3>1, <3>2
  <2> QED
    BY <1>3, <2>1, <2>2, <2>3 DEF QueueInv
<1>11. CASE UNCHANGED qVars
  <2>1. UNCHANGED <<written, adding, failed, lines, backup, flushing, handed, cut, spoiled>>
    BY <1>11 DEF qVars
  <2>2. \A e : Settled(e) = Settled(e)'
    BY <1>3, <2>1 DEF Settled
  <2> QED
    BY <1>3, <2>1, <2>2 DEF QueueInv
<1> QED
  BY <1>1, <1>2, <1>4, <1>6, <1>7, <1>8, <1>9, <1>10, <1>11 DEF Q!QueueNext

-----------------------------------------------------------------------------
(* The journal.                                                            *)

Falling(l) == \A i, j \in 1..Len(l) : i < j => l[i] > l[j]

(* The beginning of a falling sequence.                                    *)
LEMMA FallingPart ==
    ASSUME NEW l \in Seq(Nat), Falling(l), NEW n \in Nat
    PROVE  LET p == SubSeq(l, 1, IF Len(l) < n THEN Len(l) ELSE n)
           IN  /\ p \in Seq(Nat) /\ Falling(p)
               /\ Len(p) = IF Len(l) < n THEN Len(l) ELSE n
               /\ \A i \in 1..Len(p) : p[i] = l[i] /\ i \in 1..Len(l)
<1> DEFINE m == IF Len(l) < n THEN Len(l) ELSE n
           p == SubSeq(l, 1, m)
<1>1. Len(l) \in Nat /\ m \in Nat /\ m <= Len(l)
  OBVIOUS
<1> HIDE DEF m
<1>2. p \in Seq(Nat) /\ Len(p) = m
  BY <1>1, SubSeqProperties
<1>3. \A i \in 1..m : p[i] = l[i] /\ i \in 1..Len(l)
  BY <1>1
<1> HIDE DEF p
<1>4. Falling(p)
  BY <1>1, <1>2, <1>3 DEF Falling
<1> QED
  BY <1>2, <1>3, <1>4 DEF p, m

(* A finite set of numbers from the newest to the oldest.                  *)
LEMMA NewestFalls ==
    ASSUME NEW K \in SUBSET Nat, IsFiniteSet(K)
    PROVE  LET newest == J!Reverse(J!Ordered(K))
           IN  /\ newest \in Seq(Nat) /\ Falling(newest) /\ Len(newest) = Cardinality(K)
               /\ \A i \in 1..Len(newest) : newest[i] \in K
               /\ K # {} => newest # <<>> /\ \A k \in K : k <= newest[1]
<1> DEFINE n == Cardinality(K)
           o == Ordered(K)
           newest == J!Reverse(o)
<1>1. J!Ordered(K) = o
  BY DEF J!Ordered, Ordered, J!Cardinality, Cardinality
<1>2. n \in Nat
  BY FS_CardinalityType
<1>3. /\ o \in [1..n -> K]
      /\ \A i, j \in 1..n : i < j => o[i] < o[j]
      /\ \A k \in K : \E i \in 1..n : o[i] = k
  BY OrderedIsSorted
<1> HIDE DEF o, n
<1>4. o \in Seq(Nat) /\ Len(o) = n /\ \A i \in 1..n : o[i] \in Nat /\ o[i] \in K
  <2>1. K \subseteq Nat
    OBVIOUS
  <2>2. o \in [1..n -> Nat]
    BY <2>1, <1>3
  <2>3. o \in Seq(Nat) /\ Len(o) = n
    BY <1>2, <2>2
  <2> QED
    BY <2>1, <2>3, <1>3
<1>5. newest = [i \in 1..n |-> o[(n - i) + 1]]
  BY <1>4 DEF J!Reverse
<1>6. \A i \in 1..n : (n - i) + 1 \in 1..n
  BY <1>2
<1> HIDE DEF newest
<1>7. newest \in Seq(Nat) /\ Len(newest) = n /\ \A i \in 1..n : newest[i] = o[(n - i) + 1]
  BY <1>2, <1>4, <1>5, <1>6
<1>8. Falling(newest)
  <2> SUFFICES ASSUME NEW i \in 1..n, NEW j \in 1..n, i < j PROVE newest[i] > newest[j]
    BY <1>7 DEF Falling
  <2>1. (n - j) + 1 < (n - i) + 1
    BY <1>2
  <2>2. o[(n - j) + 1] < o[(n - i) + 1] /\ o[(n - j) + 1] \in Nat /\ o[(n - i) + 1] \in Nat
    BY <2>1, <1>3, <1>4, <1>6
  <2> QED
    BY <2>2, <1>7
<1>9. ASSUME NEW k \in K PROVE newest # <<>> /\ k <= newest[1]
  <2>1. PICK i \in 1..n : o[i] = k
    BY <1>3
  <2>2. n \in 1..n /\ 1 \in 1..n /\ (i = n \/ i < n)
    BY <1>2
  <2>3. newest[1] = o[n]
    <3>1. (n - 1) + 1 = n
      BY <1>2
    <3> QED
      BY <3>1, <2>2, <1>7
  <2>4. k = o[n] \/ k < o[n]
    BY <2>1, <2>2, <1>3
  <2>5. o[n] \in Nat /\ k \in Nat
    BY <2>2, <1>4
  <2>6. newest # <<>>
    BY <1>2, <1>7, <2>2
  <2> QED
    BY <2>3, <2>4, <2>5, <2>6
<1>10. \A i \in 1..n : newest[i] \in K
  BY <1>4, <1>6, <1>7
<1> QED
  BY <1>1, <1>7, <1>8, <1>9, <1>10 DEF n, newest

-----------------------------------------------------------------------------
(* What the lists hold: nothing that came before what comes after it, and  *)
(* in memory the latest entry first.                                       *)
ListsFollow ==
    /\ lists \in [Dbs \cup {J!Memory} -> Seq(Nat)]
    /\ \A p \in Dbs \cup {J!Memory} :
           /\ Falling(lists[p])
           /\ \A i \in 1..Len(lists[p]) :
                  IF step = "idle" THEN lists[p][i] <= logged ELSE lists[p][i] < logged
    /\ connected => lists[J!Memory] = <<>>
    /\ ~connected /\ step = "idle" /\ lists[J!Memory] # <<>> => lists[J!Memory][1] = logged

LogInv ==
    /\ FileInv(logFile, logged, IF step = "newline" THEN logged ELSE 0, short)
    /\ Local(logFile, logged, short)

JournalInv ==
    /\ logged \in 0..MaxLogged /\ connected \in BOOLEAN
    /\ step \in {"idle", "newline", "push"}
    /\ step # "idle" => logged > 0
    /\ LogInv /\ ListsFollow

LEMMA MemoryIsNoDb == J!Memory \notin Dbs
  BY NodeAssumption DEF J!Memory

LEMMA JournalStart == J!JournalInit => JournalInv
<1> SUFFICES ASSUME J!JournalInit PROVE JournalInv
  OBVIOUS
<1>1. /\ logged = 0 /\ logFile = Empty /\ short = {}
      /\ lists = [p \in Dbs \cup {J!Memory} |-> <<>>]
      /\ connected \in BOOLEAN /\ step = "idle"
  BY SameLines DEF J!JournalInit
<1>2. LogInv
  <2>1. \A e \in 1..logged : FALSE
    BY <1>1
  <2> QED
    BY <1>1, <2>1, EmptyFile DEF LogInv, Local
<1>3. Len(<<>>) = 0
  OBVIOUS
<1>4. lists \in [Dbs \cup {J!Memory} -> Seq(Nat)] /\ \A p \in Dbs \cup {J!Memory} : lists[p] = <<>>
  BY <1>1
<1>5. logged \in 0..MaxLogged
  BY <1>1, NodeAssumption
<1> QED
  BY <1>1, <1>2, <1>3, <1>4, <1>5 DEF JournalInv, ListsFollow, Falling

LEMMA LoggedNat == JournalInv => logged \in Nat
  BY NodeAssumption DEF JournalInv

(* What a list holds after the latest entry is put before it.              *)
LEMMA PushFalls ==
    ASSUME NEW l \in Seq(Nat), Falling(l), NEW k \in Nat, \A i \in 1..Len(l) : l[i] < k
    PROVE  LET p == J!Pushed(l, k)
           IN  /\ p \in Seq(Nat) /\ Falling(p) /\ p # <<>> /\ p[1] = k
               /\ \A i \in 1..Len(p) : p[i] <= k
<1> DEFINE p == J!Pushed(l, k)
<1>0. Len(l) \in Nat /\ \A i \in 1..Len(l) : l[i] \in Nat
  OBVIOUS
<1>1. p \in Seq(Nat) /\ Len(p) = Len(l) + 1 /\ \A i \in 1..Len(p) : p[i] = IF i = 1 THEN k ELSE l[i - 1]
  BY DEF J!Pushed
<1> HIDE DEF p
<1>2. PICK n \in Nat : n = Len(l)
  BY <1>0
<1>3. \A i \in 2..(n + 1) : i - 1 \in 1..n
  BY <1>2
<1>4. \A i \in 1..(n + 1) : IF i = 1 THEN p[i] = k ELSE i \in 2..(n + 1) /\ p[i] = l[i - 1] /\ p[i] < k
  BY <1>1, <1>2, <1>3
<1>5. \A i, j \in 1..(n + 1) : i < j => p[i] > p[j]
  <2> SUFFICES ASSUME NEW i \in 1..(n + 1), NEW j \in 1..(n + 1), i < j PROVE p[i] > p[j]
    OBVIOUS
  <2>1. j # 1 /\ p[j] = l[j - 1] /\ p[j] < k /\ j - 1 \in 1..n
    BY <1>3, <1>4
  <2>2. CASE i = 1
    BY <2>1, <2>2, <1>4, <1>0, <1>2
  <2>3. CASE i # 1
    <3>1. p[i] = l[i - 1] /\ i - 1 \in 1..n /\ i - 1 < j - 1
      BY <2>3, <1>3, <1>4
    <3> QED
      BY <3>1, <2>1, <1>2 DEF Falling
  <2> QED
    BY <2>2, <2>3
<1>6. p # <<>> /\ p[1] = k
  BY <1>1, <1>2
<1>7. \A i \in 1..Len(p) : p[i] <= k
  <2> SUFFICES ASSUME NEW i \in 1..Len(p) PROVE p[i] <= k
    OBVIOUS
  <2>1. i \in 1..(n + 1)
    BY <1>1, <1>2
  <2>2. CASE i = 1
    BY <2>1, <2>2, <1>4
  <2>3. CASE i # 1
    <3>1. p[i] < k /\ p[i] = l[i - 1] /\ i - 1 \in 1..Len(l)
      BY <2>1, <2>3, <1>2, <1>3, <1>4
    <3>2. p[i] \in Nat
      BY <3>1, <1>0
    <3> QED
      BY <3>1, <3>2
  <2> QED
    BY <2>2, <2>3
<1> QED
  BY <1>1, <1>2, <1>5, <1>6, <1>7 DEF Falling, p

(* What a step of log does to the file.                                    *)
LEMMA LogStep == JournalInv /\ [J!JournalNext]_jVars => LogInv'
<1> SUFFICES ASSUME JournalInv, [J!JournalNext]_jVars PROVE LogInv'
  OBVIOUS
<1>0. /\ FileInv(logFile, logged, IF step = "newline" THEN logged ELSE 0, short)
      /\ Local(logFile, logged, short)
      /\ step # "idle" => logged # 0
  <2>1. logged \in Nat /\ step # "idle" => logged > 0
    BY LoggedNat DEF JournalInv
  <2> QED
    BY <2>1, LoggedNat DEF JournalInv, LogInv
<1>1. CASE J!WriteText
  <2>1. step = "idle" /\ logged' = logged + 1 /\ logged \in Nat /\ FileInv(logFile, logged, 0, short)
    BY <1>0, <1>1, LoggedNat DEF J!WriteText
  <2>2. CASE logFile' = logFile /\ step' = "push" /\ short' = short \cup {logged + 1}
    <3>1. \A e : e \in 1..(logged + 1) <=> e \in 1..logged \/ e = logged + 1
      BY <2>1
    <3>2. FileInv(logFile, logged + 1, 0, short \cup {logged + 1})
      BY <2>1, <3>1 DEF FileInv
    <3>3. Local(logFile, logged + 1, short \cup {logged + 1})
      BY <1>0, <3>1 DEF Local
    <3> QED
      BY <2>1, <2>2, <3>2, <3>3 DEF LogInv
  <2>3. ASSUME NEW e \in {0, logged + 1}, NEW u \in BOOLEAN,
               logFile' = [WithText(logFile, e) EXCEPT !.utf8 = u],
               short' = IF e = 0 THEN short \cup {logged + 1} ELSE short,
               step' = IF e = 0 THEN "push" ELSE "newline"
        PROVE  LogInv'
    <3>1. /\ FileInv(logFile', logged + 1, e, short')
          /\ \A d \in 1..(logged + 1) : \/ d \in Whole(logFile') \/ d \in short' \/ d - 1 \in short'
                                        \/ d \in 1..logged /\ d \notin Whole(logFile)
      BY <2>1, <2>3, TextKeeps
    <3>2. e = IF step' = "newline" THEN logged + 1 ELSE 0
      BY <2>1, <2>3
    <3>3. short \subseteq short'
      BY <2>3
    <3>4. Local(logFile', logged + 1, short')
      BY <1>0, <3>1, <3>3 DEF Local
    <3> QED
      BY <2>1, <3>1, <3>2, <3>4 DEF LogInv
  <2>4. CASE logFile' = WithText(logFile, logged + 1) /\ step' = "newline" /\ short' = short
    <3>1. logFile' = [WithText(logFile, logged + 1) EXCEPT !.utf8 = logFile.utf8] /\ logFile.utf8 \in BOOLEAN
      BY <2>1, <2>4, TextForms
    <3>2. logged + 1 # 0
      BY <2>1
    <3> QED
      BY <2>3, <2>4, <3>1, <3>2
  <2>5. CASE logFile' \in CutTexts(logFile) /\ step' = "push" /\ short' = short \cup {logged + 1}
    <3>1. PICK u \in BOOLEAN : logFile' = [WithText(logFile, 0) EXCEPT !.utf8 = u]
      BY <2>1, <2>5, TextForms
    <3> QED
      BY <2>3, <2>5, <3>1
  <2> QED
    BY <1>1, <2>1, <2>2, <2>4, <2>5, SameLines DEF J!WriteText
<1>2. CASE J!WriteNewline
  <2>1. /\ step = "newline" /\ step' = "push" /\ logged' = logged
        /\ \/ logFile' = WithNewline(logFile) /\ short' = short
           \/ logFile' = logFile /\ short' = short \cup {logged}
    BY <1>2, SameLines DEF J!WriteNewline
  <2>2. FileInv(logFile, logged, logged, short) /\ logged # 0
    BY <1>0, <2>1
  <2>3. FileInv(logFile', logged, 0, short') /\ Whole(logFile') = Whole(logFile) /\ short \subseteq short'
    BY <2>1, <2>2, NewlineKeeps
  <2> QED
    BY <1>0, <2>1, <2>3 DEF LogInv, Local
<1>3. CASE J!list_append
  BY <1>0, <1>3 DEF J!list_append, LogInv
<1>4. CASE J!End
  <2>1. /\ step' = "idle" /\ logged' = logged /\ logFile' = logFile
        /\ short' = IF step = "newline" THEN short \cup {logged} ELSE short
    BY <1>4 DEF J!End
  <2>2. CASE step = "newline"
    <3>1. FileInv(logFile, logged, logged, short) /\ logged # 0
      BY <1>0, <2>2
    <3>2. FileInv(logFile, logged, 0, short \cup {logged})
      BY <3>1, NewlineKeeps
    <3> QED
      BY <1>0, <2>1, <2>2, <3>2 DEF LogInv, Local
  <2>3. CASE step # "newline"
    BY <1>0, <2>1, <2>3 DEF LogInv
  <2> QED
    BY <2>2, <2>3
<1>5. CASE UNCHANGED jVars
  BY <1>0, <1>5 DEF jVars, LogInv
<1> QED
  BY <1>1, <1>2, <1>3, <1>4, <1>5 DEF J!JournalNext

(* What a step of log does to the lists.                                   *)
LEMMA TextLists == JournalInv /\ J!WriteText => ListsFollow'
<1> SUFFICES ASSUME JournalInv, J!WriteText PROVE ListsFollow'
  OBVIOUS
<1>1. /\ step = "idle" /\ logged' = logged + 1 /\ step' \in {"newline", "push"}
      /\ UNCHANGED <<lists, connected>> /\ logged \in Nat
  BY LoggedNat DEF J!WriteText
<1>2. lists \in [Dbs \cup {J!Memory} -> Seq(Nat)]
  BY DEF JournalInv, ListsFollow
<1>3. ASSUME NEW p \in Dbs \cup {J!Memory}, NEW i \in 1..Len(lists[p]) PROVE lists[p][i] < logged + 1
  <2>0. PICK l \in Seq(Nat) : l = lists[p]
    BY <1>2
  <2>00. \A j \in 1..Len(l) : l[j] \in Nat
    OBVIOUS
  <2>1. lists[p][i] \in Nat /\ lists[p][i] <= logged
    BY <2>0, <2>00, <1>1 DEF JournalInv, ListsFollow
  <2> QED
    BY <2>1, <1>1
<1>4. step' # "idle"
  BY <1>1
<1> QED
  BY <1>1, <1>2, <1>3, <1>4 DEF JournalInv, ListsFollow

LEMMA PushLists == JournalInv /\ J!list_append => ListsFollow'
<1> SUFFICES ASSUME JournalInv, J!list_append PROVE ListsFollow'
  OBVIOUS
<1>1. /\ step = "push" /\ step' = "idle" /\ UNCHANGED <<logged, connected>> /\ logged \in Nat
      /\ connected \in BOOLEAN
  BY LoggedNat DEF J!list_append, JournalInv
<1>2. /\ lists \in [Dbs \cup {J!Memory} -> Seq(Nat)]
      /\ \A p \in Dbs \cup {J!Memory} :
             Falling(lists[p]) /\ \A i \in 1..Len(lists[p]) : lists[p][i] < logged /\ lists[p][i] <= logged
  <2>1. lists \in [Dbs \cup {J!Memory} -> Seq(Nat)]
    BY DEF JournalInv, ListsFollow
  <2>2. \A p \in Dbs \cup {J!Memory} :
             Falling(lists[p]) /\ \A i \in 1..Len(lists[p]) : lists[p][i] < logged
    BY <1>1 DEF JournalInv, ListsFollow
  <2>3. \A p \in Dbs \cup {J!Memory} : \A i \in 1..Len(lists[p]) : lists[p][i] \in Nat
    BY <2>1
  <2>4. \A k \in Nat : k < logged => k <= logged
    BY <1>1
  <2> QED
    BY <2>1, <2>2, <2>3, <2>4
<1>3. ASSUME NEW p \in Dbs \cup {J!Memory}
      PROVE  /\ J!Pushed(lists[p], logged) \in Seq(Nat) /\ Falling(J!Pushed(lists[p], logged))
             /\ J!Pushed(lists[p], logged)[1] = logged
             /\ \A i \in 1..Len(J!Pushed(lists[p], logged)) : J!Pushed(lists[p], logged)[i] <= logged
  <2>1. lists[p] \in Seq(Nat) /\ Falling(lists[p]) /\ \A i \in 1..Len(lists[p]) : lists[p][i] < logged
    BY <1>2
  <2> QED
    BY <2>1, <1>1, PushFalls
<1>4. CASE ~connected
  <2>1. lists' = [lists EXCEPT ![J!Memory] = J!Pushed(lists[J!Memory], logged)]
    BY <1>4 DEF J!list_append
  <2> DEFINE new == J!Pushed(lists[J!Memory], logged)
  <2>2. new \in Seq(Nat) /\ Falling(new) /\ new[1] = logged /\ \A i \in 1..Len(new) : new[i] <= logged
    BY <1>3
  <2> HIDE DEF new
  <2>3. /\ lists' \in [Dbs \cup {J!Memory} -> Seq(Nat)] /\ lists'[J!Memory] = new
        /\ \A p \in Dbs \cup {J!Memory} : p # J!Memory => lists'[p] = lists[p]
    BY <2>1, <2>2, <1>2 DEF new
  <2>4. \A p \in Dbs \cup {J!Memory} :
            Falling(lists'[p]) /\ \A i \in 1..Len(lists'[p]) : lists'[p][i] <= logged
    BY <2>2, <2>3, <1>2
  <2> QED
    BY <2>2, <2>3, <2>4, <1>1, <1>4 DEF ListsFollow
<1>5. CASE connected
  <2> DEFINE long(d) == J!Pushed(lists[d], logged)
  <2>0. PICK d \in Dbs : \E m \in {lists[d], long(d), J!Trimmed(long(d))} : lists' = [lists EXCEPT ![d] = m]
    BY <1>5 DEF J!list_append
  <2>1. PICK m \in {lists[d], long(d), J!Trimmed(long(d))} : lists' = [lists EXCEPT ![d] = m]
    BY <2>0
  <2>2. /\ long(d) \in Seq(Nat) /\ Falling(long(d))
        /\ \A i \in 1..Len(long(d)) : long(d)[i] <= logged
    BY <1>3
  <2>3. PICK l : l = long(d)
    OBVIOUS
  <2>4. /\ J!Trimmed(l) \in Seq(Nat) /\ Falling(J!Trimmed(l))
        /\ \A i \in 1..Len(J!Trimmed(l)) : J!Trimmed(l)[i] <= logged
    <3>1. MaxList \in Nat /\ l \in Seq(Nat) /\ Falling(l)
      BY <2>2, <2>3, NodeAssumption
    <3>2. J!Trimmed(l) = SubSeq(l, 1, IF Len(l) < MaxList THEN Len(l) ELSE MaxList)
      BY DEF J!Trimmed
    <3>3. /\ J!Trimmed(l) \in Seq(Nat) /\ Falling(J!Trimmed(l))
          /\ \A i \in 1..Len(J!Trimmed(l)) : J!Trimmed(l)[i] = l[i] /\ i \in 1..Len(l)
      BY <3>1, <3>2, FallingPart
    <3> QED
      BY <3>3, <2>2, <2>3
  <2>5. m \in Seq(Nat) /\ Falling(m) /\ \A i \in 1..Len(m) : m[i] <= logged
    <3>1. m \in {lists[d], l, J!Trimmed(l)}
      BY <2>3
    <3>2. lists[d] \in Seq(Nat)
      BY <1>2
    <3> HIDE DEF long
    <3> QED
      BY <3>1, <3>2, <2>2, <2>3, <2>4, <1>2
  <2>6. d # J!Memory
    BY MemoryIsNoDb
  <2> HIDE DEF long
  <2>7. /\ lists' \in [Dbs \cup {J!Memory} -> Seq(Nat)] /\ lists'[d] = m
        /\ \A p \in Dbs \cup {J!Memory} : p # d => lists'[p] = lists[p]
    BY <2>1, <2>5, <1>2
  <2>8. \A p \in Dbs \cup {J!Memory} :
            Falling(lists'[p]) /\ \A i \in 1..Len(lists'[p]) : lists'[p][i] <= logged
    BY <2>5, <2>7, <1>2
  <2>9. lists'[J!Memory] = <<>>
    BY <2>6, <2>7, <1>5 DEF JournalInv, ListsFollow
  <2> QED
    BY <2>7, <2>8, <2>9, <1>1 DEF ListsFollow
<1> QED
  BY <1>1, <1>4, <1>5

LEMMA JournalStep == JournalInv /\ [J!JournalNext]_jVars => JournalInv'
<1> SUFFICES ASSUME JournalInv, [J!JournalNext]_jVars PROVE JournalInv'
  OBVIOUS
<1>0. LogInv'
  BY LogStep
<1>1. CASE J!WriteText
  <2>1. logged' \in 0..MaxLogged /\ logged' > 0 /\ connected' \in BOOLEAN /\ step' \in {"newline", "push"}
    <3>1. logged \in 0..MaxLogged /\ connected \in BOOLEAN
      BY DEF JournalInv
    <3>2. logged' = logged + 1 /\ logged < MaxLogged /\ connected' = connected /\ step' \in {"newline", "push"}
      BY <1>1 DEF J!WriteText
    <3> QED
      BY <3>1, <3>2, NodeAssumption
  <2>2. ListsFollow'
    BY <1>1, TextLists
  <2> QED
    BY <1>0, <2>1, <2>2 DEF JournalInv
<1>2. CASE J!WriteNewline
  <2>1. step = "newline" /\ step' = "push" /\ UNCHANGED <<logged, lists, connected>>
    BY <1>2 DEF J!WriteNewline
  <2>2. ListsFollow'
    BY <2>1 DEF JournalInv, ListsFollow
  <2> QED
    BY <1>0, <2>1, <2>2 DEF JournalInv
<1>3. CASE J!list_append
  <2>1. ListsFollow'
    BY <1>3, PushLists
  <2>2. step = "push" /\ step' = "idle" /\ UNCHANGED <<logged, connected>>
    BY <1>3 DEF J!list_append
  <2> QED
    BY <1>0, <2>1, <2>2 DEF JournalInv
<1>4. CASE J!End
  <2>1. /\ lists' = [lists EXCEPT ![J!Memory] = <<>>] /\ connected' \in BOOLEAN
        /\ step' = "idle" /\ logged' = logged /\ logged \in Nat
    BY <1>4, LoggedNat DEF J!End
  <2>2. lists \in [Dbs \cup {J!Memory} -> Seq(Nat)]
    BY DEF JournalInv, ListsFollow
  <2>3. /\ lists' \in [Dbs \cup {J!Memory} -> Seq(Nat)] /\ lists'[J!Memory] = <<>>
        /\ \A p \in Dbs \cup {J!Memory} : p # J!Memory => lists'[p] = lists[p]
    BY <2>1, <2>2
  <2>4. ASSUME NEW p \in Dbs \cup {J!Memory}
        PROVE  Falling(lists'[p]) /\ \A i \in 1..Len(lists'[p]) : lists'[p][i] <= logged
    <3>1. CASE p = J!Memory
      BY <3>1, <2>3 DEF Falling
    <3>2. CASE p # J!Memory
      <4>1. lists'[p] = lists[p] /\ Falling(lists[p]) /\ lists[p] \in Seq(Nat)
        BY <3>2, <2>2, <2>3 DEF JournalInv, ListsFollow
      <4>2. ASSUME NEW i \in 1..Len(lists[p]) PROVE lists[p][i] <= logged
        <5>1. lists[p][i] \in Nat
          BY <4>1
        <5>2. IF step = "idle" THEN lists[p][i] <= logged ELSE lists[p][i] < logged
          BY DEF JournalInv, ListsFollow
        <5> QED
          BY <5>1, <5>2, <2>1
      <4> QED
        BY <4>1, <4>2
    <3> QED
      BY <3>1, <3>2
  <2>5. ListsFollow'
    BY <2>1, <2>3, <2>4 DEF ListsFollow
  <2> QED
    BY <1>0, <2>1, <2>5 DEF JournalInv
<1>5. CASE UNCHANGED jVars
  BY <1>0, <1>5 DEF jVars, JournalInv, ListsFollow
<1> QED
  BY <1>1, <1>2, <1>3, <1>4, <1>5 DEF J!JournalNext

LEMMA ReadableBound == JournalInv => /\ Readable(logFile) \in SUBSET Nat /\ IsFiniteSet(Readable(logFile))
                                     /\ Readable(logFile) \subseteq 1..logged
<1> SUFFICES ASSUME JournalInv PROVE /\ Readable(logFile) \in SUBSET Nat /\ IsFiniteSet(Readable(logFile))
                                     /\ Readable(logFile) \subseteq 1..logged
  OBVIOUS
<1>1. logged \in Nat /\ FileInv(logFile, logged, IF step = "newline" THEN logged ELSE 0, short)
  BY LoggedNat DEF JournalInv, LogInv
<1>2. Readable(logFile) \subseteq 1..logged
  BY <1>1, WholeWithin DEF Readable
<1>3. IsFiniteSet(1..logged) /\ 1..logged \subseteq Nat
  BY <1>1, FS_Interval
<1> QED
  BY <1>2, <1>3, FS_Subset

(* What a reader gets falls, whichever of list and file it comes from.     *)
LEMMA ReadFalls ==
    ASSUME JournalInv, NEW d \in Dbs, NEW c \in J!Counts
    PROVE  LET r == J!read(d, c) IN r \in Seq(Nat) /\ Falling(r)
<1> DEFINE l == IF connected THEN lists[d] ELSE lists[J!Memory]
           n == IF connected THEN (c - 1) + 1 ELSE c - 1
           newest == J!Reverse(J!Ordered(Readable(logFile)))
<1>1. l \in Seq(Nat) /\ Falling(l)
  BY DEF JournalInv, ListsFollow
<1>2. c \in Nat /\ n \in Nat
  BY NodeAssumption DEF J!Counts
<1>3. J!list_range(d, c - 1) = SubSeq(l, 1, IF Len(l) < n THEN Len(l) ELSE n)
  BY DEF J!list_range
<1> HIDE DEF l, n
<1>4. J!list_range(d, c - 1) \in Seq(Nat) /\ Falling(J!list_range(d, c - 1))
  BY <1>1, <1>2, <1>3, FallingPart
<1>5. Readable(logFile) \in SUBSET Nat /\ IsFiniteSet(Readable(logFile)) /\ Readable(logFile) \subseteq 1..logged
  BY ReadableBound
<1>6. newest \in Seq(Nat) /\ Falling(newest)
  BY <1>5, NewestFalls
<1>7. J!FromFile(c) = SubSeq(newest, 1, IF Len(newest) < c THEN Len(newest) ELSE c)
  BY SameLines DEF J!FromFile
<1> HIDE DEF newest
<1>8. J!FromFile(c) \in Seq(Nat) /\ Falling(J!FromFile(c))
  BY <1>2, <1>6, <1>7, FallingPart
<1> QED
  BY <1>4, <1>8 DEF J!read

(* Without Redis the latest entry comes first.                             *)
LEMMA LatestFirst ==
    ASSUME JournalInv, ~connected, step = "idle", logged > 0, logFile.utf8,
           {logged - 1, logged} \cap short = {}, NEW d \in Dbs, NEW c \in J!Counts
    PROVE  LET r == J!read(d, c) IN r # <<>> /\ r[1] = logged
<1> DEFINE l == lists[J!Memory]
           p == SubSeq(l, 1, IF Len(l) < c - 1 THEN Len(l) ELSE c - 1)
           newest == J!Reverse(J!Ordered(Readable(logFile)))
           q == SubSeq(newest, 1, IF Len(newest) < c THEN Len(newest) ELSE c)
<1>1. l \in Seq(Nat) /\ Falling(l) /\ (l # <<>> => l[1] = logged)
  BY DEF JournalInv, ListsFollow
<1>2. c \in Nat /\ c - 1 \in Nat /\ c # 0
  BY NodeAssumption DEF J!Counts
<1>3. J!read(d, c) = IF p # <<>> THEN p ELSE q
  BY SameLines DEF J!read, J!list_range, J!FromFile
<1> HIDE DEF l
<1>4. PICK m \in Nat : m = c - 1
  BY <1>2
<1>5. /\ p \in Seq(Nat) /\ \A i \in 1..Len(p) : p[i] = l[i] /\ i \in 1..Len(l)
  BY <1>1, <1>4, FallingPart
<1>6. logged \in Nat /\ logged \in 1..logged
  BY LoggedNat
<1>7. logged \in Whole(logFile)
  BY <1>6 DEF JournalInv, LogInv, Local
<1>8. logged \in Readable(logFile)
  BY <1>7 DEF Readable
<1>9. Readable(logFile) \in SUBSET Nat /\ IsFiniteSet(Readable(logFile)) /\ Readable(logFile) \subseteq 1..logged
  BY ReadableBound
<1>10. logged \in Readable(logFile) /\ \A k \in Readable(logFile) : k \in Nat /\ k <= logged
  BY <1>6, <1>8, <1>9
<1>11. newest \in Seq(Nat) /\ Falling(newest) /\ newest # <<>> /\ newest[1] \in Readable(logFile) /\ logged <= newest[1]
  <2>1. /\ newest \in Seq(Nat) /\ Falling(newest) /\ \A i \in 1..Len(newest) : newest[i] \in Readable(logFile)
        /\ newest # <<>> /\ \A k \in Readable(logFile) : k <= newest[1]
    <3> HIDE DEF newest
    <3>1. Readable(logFile) # {}
      BY <1>10
    <3> QED
      BY <3>1, <1>9, NewestFalls DEF newest
  <2> HIDE DEF newest
  <2>2. 1 \in 1..Len(newest)
    BY <2>1
  <2> QED
    BY <2>1, <2>2, <1>10
<1> HIDE DEF newest
<1>12. newest[1] = logged /\ 1 <= Len(newest) /\ Len(newest) \in Nat
  BY <1>6, <1>10, <1>11
<1>13. PICK k \in Nat : k = (IF Len(newest) < c THEN Len(newest) ELSE c) /\ k # 0
  BY <1>2, <1>12
<1>14. q \in Seq(Nat) /\ Len(q) = k /\ \A i \in 1..Len(q) : q[i] = newest[i]
  BY <1>2, <1>11, <1>13, FallingPart
<1> HIDE DEF p, q
<1>15. 1 \in 1..Len(q) /\ q # <<>>
  BY <1>13, <1>14
<1>16. q[1] = logged
  BY <1>12, <1>14, <1>15
<1>17. p # <<>> => p[1] = logged
  <2> SUFFICES ASSUME p # <<>> PROVE p[1] = logged
    OBVIOUS
  <2>1. 1 \in 1..Len(p)
    BY <1>5
  <2>2. p[1] = l[1] /\ 1 \in 1..Len(l)
    BY <2>1, <1>5
  <2>3. l # <<>>
    BY <2>2, <1>1
  <2> QED
    BY <2>2, <2>3, <1>1
<1> QED
  BY <1>3, <1>15, <1>16, <1>17

(* No event is handed over twice, nor lost before a copy was spoiled, but  *)
(* for the neighbour of a write that was cut short; and the journal is     *)
(* read newest first, without Redis from the latest entry on, and loses    *)
(* entries to such writes only; as long as no text ends inside a           *)
(* character.                                                              *)
THEOREM EventsHoldAlways == NodeSpec => []EventsHold
<1>1. NodeInit => QueueInv /\ JournalInv
  BY QueueStart, JournalStart DEF NodeInit
<1>2. (QueueInv /\ JournalInv) /\ [NodeNext]_NodeVars => (QueueInv /\ JournalInv)'
  BY PartSteps, QueueStep, JournalStep
<1>3. QueueInv /\ JournalInv => EventsHold
  <2> SUFFICES ASSUME QueueInv, JournalInv PROVE EventsHold
    OBVIOUS
  <2>1. J!NewestFirst
    <3> SUFFICES ASSUME NEW d \in Dbs, NEW c \in J!Counts
                 PROVE  LET r == J!read(d, c) IN \A i, j \in DOMAIN r : i < j => r[i] > r[j]
      BY DEF J!NewestFirst
    <3>1. PICK r : r = J!read(d, c)
      OBVIOUS
    <3>2. r \in Seq(Nat) /\ Falling(r)
      BY <3>1, ReadFalls
    <3>3. \A i, j \in DOMAIN r : i < j => r[i] > r[j]
      BY <3>2 DEF Falling
    <3> QED
      BY <3>1, <3>3
  <2>2. J!LatestIsRead
    BY LatestFirst DEF J!LatestIsRead
  <2>3. J!LossIsLocal
    BY SameLines DEF JournalInv, LogInv, Local, Readable, J!LossIsLocal
  <2>4. Q!ReturnedOnce /\ Q!EventsKept
    BY SameLines DEF QueueInv, Settled, Q!ReturnedOnce, Q!EventsKept, Readable
  <2> QED
    BY <2>1, <2>2, <2>3, <2>4 DEF EventsHold
<1> QED
  BY <1>1, <1>2, <1>3, SpecParts, PTL

-----------------------------------------------------------------------------
(* A group and its queue.                                                  *)

LEMMA ElementOf ==
    ASSUME NEW T, NEW s \in Seq(T), NEW i \in 1..Len(s)
    PROVE  s[i] \in T
  OBVIOUS

Spots == Resources \cup {Self} \cup G!ToSet(G!Modes)
Notes == [kind : {"shared", "message", "mode_change"}, from : Spots, to : Spots]
GroupRecords == [mode : G!ToSet(G!Modes), members : SUBSET (Others \cup {Self}),
                 resources : SUBSET Resources]

Following(q, md) ==
    LET Changes == {i \in 1..Len(q) : q[i].kind = "mode_change"} IN
    /\ \A i, j \in Changes :
          i < j /\ (\A k \in Changes : k <= i \/ j <= k) => q[i].to = q[j].from
    /\ \A i \in Changes :
          Len(q) < QueueSize /\ (\A k \in Changes : k <= i) => q[i].to = md

GroupInv ==
    /\ queue \in Seq(Notes)
    /\ group # G!None => group \in GroupRecords
    /\ Following(queue, group.mode)

LEMMA ModesListed ==
    /\ "Watch" \in G!ToSet(G!Modes)
    /\ \A md \in G!ToSet(G!Modes) : G!next_after_completion(md) \in G!ToSet(G!Modes)
<1>1. /\ G!ToSet(G!Modes) = {"Watch", "Storm", "Hunt", "Synthesis", "Focus"}
      /\ Len(G!Modes) = 5 /\ DOMAIN G!Modes = 1..5
      /\ \A i \in 1..5 : G!Modes[i] \in G!ToSet(G!Modes)
  <2>1. Len(G!Modes) = 5 /\ DOMAIN G!Modes = 1..5
    BY DEF G!Modes
  <2>2. /\ G!Modes[1] = "Watch" /\ G!Modes[2] = "Storm" /\ G!Modes[3] = "Hunt"
        /\ G!Modes[4] = "Synthesis" /\ G!Modes[5] = "Focus"
    BY DEF G!Modes
  <2>3. G!ToSet(G!Modes) = {G!Modes[i] : i \in 1..5}
    BY <2>1 DEF G!ToSet
  <2> QED
    BY <2>1, <2>2, <2>3
<1>2. ASSUME NEW i \in 1..5 PROVE (i % 5) + 1 \in 1..5
  OBVIOUS
<1>3. ASSUME NEW md \in G!ToSet(G!Modes) PROVE G!next_after_completion(md) \in G!ToSet(G!Modes)
  <2>1. \E j \in 1..5 : G!Modes[j] = md
    BY <1>1 DEF G!ToSet
  <2>2. PICK i : i = CHOOSE j \in 1..5 : G!Modes[j] = md
    OBVIOUS
  <2>3. i \in 1..5
    BY <2>1, <2>2
  <2>4. G!next_after_completion(md) = G!Modes[(i % 5) + 1]
    BY <1>1, <2>2 DEF G!next_after_completion
  <2> QED
    BY <1>1, <1>2, <2>3, <2>4
<1> QED
  BY <1>1, <1>3

(* A note that changes no mode, and the note of a change.                  *)
LEMMA SendKeeps ==
    ASSUME NEW q \in Seq(Notes), NEW md, Following(q, md), NEW n \in Notes, NEW new,
           IF n.kind = "mode_change" THEN n.from = md /\ n.to = new ELSE new = md
    PROVE  LET r == G!try_send(q, n) IN r \in Seq(Notes) /\ Following(r, new)
<1>1. QueueSize \in Nat
  BY NodeAssumption
<1>2. PICK z \in Nat : z = Len(q)
  OBVIOUS
<1>3. CASE ~(Len(q) < QueueSize)
  BY <1>3 DEF Following, G!try_send
<1>4. CASE Len(q) < QueueSize
  <2>1. G!try_send(q, n) = Append(q, n)
    BY <1>4 DEF G!try_send
  <2> DEFINE r == Append(q, n)
             Old == {i \in 1..Len(q) : q[i].kind = "mode_change"}
             Changes2 == {i \in 1..Len(r) : r[i].kind = "mode_change"}
  <2>2. r \in Seq(Notes) /\ Len(r) = z + 1 /\ r[z + 1] = n /\ \A i \in 1..z : r[i] = q[i]
    BY <1>2, AppendProperties
  <2>3. /\ \A i, j \in Old : i < j /\ (\A k \in Old : k <= i \/ j <= k) => q[i].to = q[j].from
        /\ \A i \in Old : (\A k \in Old : k <= i) => q[i].to = md
    BY <1>4 DEF Following
  <2> HIDE DEF r
  <2>4. \A i : i \in Old <=> i \in 1..z /\ r[i].kind = "mode_change"
    BY <1>2, <2>2
  <2>5. \A i : i \in Changes2 <=> i \in 1..(z + 1) /\ r[i].kind = "mode_change"
    BY <2>2
  <2>6. \A i \in Old : q[i] = r[i]
    BY <2>2, <2>4
  <2> HIDE DEF Old, Changes2
  <2>7. \A i : i \in Changes2 <=> i \in Old \/ (i = z + 1 /\ n.kind = "mode_change")
    BY <2>2, <2>4, <2>5
  <2>8. \A i \in Old : i \in Nat /\ i < z + 1 /\ ~(z + 1 <= i) /\ i <= z + 1
    BY <2>4
  <2>9. ASSUME NEW i \in Changes2, NEW j \in Changes2, i < j, \A k \in Changes2 : k <= i \/ j <= k
        PROVE  r[i].to = r[j].from
    <3>1. i \in Old
      BY <2>7, <2>8, <2>9
    <3>2. \A k \in Old : k <= i \/ j <= k
      BY <2>7, <2>9
    <3>3. CASE j \in Old
      BY <3>1, <3>2, <3>3, <2>3, <2>6, <2>9
    <3>4. CASE j = z + 1 /\ n.kind = "mode_change"
      <4>1. \A k \in Old : k <= i
        BY <3>2, <3>4, <2>8
      <4> QED
        BY <4>1, <3>1, <3>4, <2>2, <2>3, <2>6
    <3> QED
      BY <3>3, <3>4, <2>7
  <2>10. ASSUME NEW i \in Changes2, \A k \in Changes2 : k <= i PROVE r[i].to = new
    <3>1. CASE n.kind = "mode_change"
      <4>1. z + 1 \in Changes2
        BY <3>1, <2>7
      <4>2. i = z + 1
        <5>1. z + 1 <= i
          BY <4>1, <2>10
        <5> QED
          BY <5>1, <2>7, <2>8
      <4> QED
        BY <4>2, <3>1, <2>2
    <3>2. CASE n.kind # "mode_change"
      <4>1. i \in Old /\ \A k \in Old : k <= i
        BY <3>2, <2>7, <2>10
      <4> QED
        BY <4>1, <3>2, <2>3, <2>6
    <3> QED
      BY <3>1, <3>2
  <2>11. Following(r, new)
    BY <2>9, <2>10 DEF Following, Changes2
  <2> QED
    BY <2>1, <2>2, <2>11 DEF r
<1> QED
  BY <1>3, <1>4

LEMMA GroupStart == G!GroupInit => GroupInv
<1> SUFFICES ASSUME G!GroupInit PROVE GroupInv
  OBVIOUS
<1>1. group = G!None /\ queue = <<>>
  BY DEF G!GroupInit
<1>2. queue \in Seq(Notes) /\ Len(queue) = 0
  BY <1>1
<1> QED
  BY <1>1, <1>2 DEF GroupInv, Following

LEMMA GroupStep == GroupInv /\ [G!GroupNext]_gVars => GroupInv'
<1> SUFFICES ASSUME GroupInv, [G!GroupNext]_gVars PROVE GroupInv'
  OBVIOUS
<1>0. Following(<<>>, group'.mode)
  BY DEF Following
<1>00. <<>> \in Seq(Notes) /\ queue \in Seq(Notes) /\ Following(queue, group.mode)
  BY DEF GroupInv
<1>1. CASE G!CreateGroup
  <2>1. group' \in GroupRecords /\ queue' = <<>>
    BY <1>1, ModesListed DEF G!CreateGroup, GroupRecords
  <2> QED
    BY <2>1, <1>0, <1>00 DEF GroupInv
<1>2. ASSUME NEW n \in Notes, NEW md \in G!ToSet(G!Modes), group \in GroupRecords,
             group' \in GroupRecords, group'.mode = md,
             queue' = G!try_send(queue, n),
             IF n.kind = "mode_change" THEN n.from = group.mode /\ n.to = md ELSE md = group.mode
      PROVE  GroupInv'
  <2>1. queue' \in Seq(Notes) /\ Following(queue', md)
    BY <1>00, <1>2, SendKeeps
  <2> QED
    BY <2>1, <1>2 DEF GroupInv
<1>3. ASSUME NEW r \in Resources, G!Share(r) PROVE GroupInv'
  <2>1. /\ group \in GroupRecords
        /\ group' = [group EXCEPT !.resources = @ \cup {r}]
        /\ queue' = G!try_send(queue, G!Note("shared", r, r))
    BY <1>3 DEF G!Share, G!Exists, GroupInv
  <2>2. group' \in GroupRecords /\ group'.mode = group.mode /\ group.mode \in G!ToSet(G!Modes)
    BY <2>1 DEF GroupRecords
  <2>3. G!Note("shared", r, r) \in Notes /\ G!Note("shared", r, r).kind # "mode_change"
    BY DEF G!Note, Notes, Spots
  <2> QED
    BY <2>1, <2>2, <2>3, <1>2
<1>4. CASE G!send_to_group
  <2>1. /\ group \in GroupRecords /\ group' = group
        /\ queue' = G!try_send(queue, G!Note("message", Self, Self))
    BY <1>4 DEF G!send_to_group, G!Exists, GroupInv
  <2>2. group.mode \in G!ToSet(G!Modes)
    BY <2>1 DEF GroupRecords
  <2>3. G!Note("message", Self, Self) \in Notes /\ G!Note("message", Self, Self).kind # "mode_change"
    BY DEF G!Note, Notes, Spots
  <2> QED
    BY <2>1, <2>2, <2>3, <1>2
<1>5. ASSUME NEW md \in G!ToSet(G!Modes), G!set_mode(md) PROVE GroupInv'
  <2>1. /\ group \in GroupRecords /\ group' = [group EXCEPT !.mode = md]
        /\ queue' = G!try_send(queue, G!ModeNote(group.mode, md))
    BY <1>5 DEF G!set_mode, G!Exists, GroupInv
  <2>2. group.mode \in G!ToSet(G!Modes) /\ group' \in GroupRecords /\ group'.mode = md
    BY <2>1 DEF GroupRecords
  <2>3. G!ModeNote(group.mode, md) = [kind |-> "mode_change", from |-> group.mode, to |-> md]
    BY DEF G!ModeNote, G!Note
  <2>4. G!ModeNote(group.mode, md) \in Notes
    BY <2>2, <2>3 DEF Notes, Spots
  <2> QED
    BY <2>1, <2>2, <2>3, <2>4, <1>2
<1>6. CASE G!advance_mode
  <2>1. G!set_mode(G!next_after_completion(group.mode)) /\ group \in GroupRecords
    BY <1>6 DEF G!advance_mode, G!Exists, GroupInv
  <2>2. G!next_after_completion(group.mode) \in G!ToSet(G!Modes)
    BY <2>1, ModesListed DEF GroupRecords
  <2> QED
    BY <2>1, <2>2, <1>5
<1>7. ASSUME NEW n \in Others \cup {Self}, G!add_member(n) \/ G!remove_member(n) PROVE GroupInv'
  <2>1. /\ group \in GroupRecords
        /\ \E T \in SUBSET (Others \cup {Self}) : group' = [group EXCEPT !.members = T]
        /\ UNCHANGED queue
    <3>1. group \in GroupRecords /\ group.members \in SUBSET (Others \cup {Self})
      BY <1>7 DEF G!add_member, G!remove_member, G!Exists, GroupInv, GroupRecords
    <3>2. CASE G!add_member(n)
      BY <3>1, <3>2 DEF G!add_member
    <3>3. CASE G!remove_member(n)
      BY <3>1, <3>3 DEF G!remove_member
    <3> QED
      BY <3>1, <3>2, <3>3, <1>7
  <2>2. group' \in GroupRecords /\ group'.mode = group.mode
    BY <2>1 DEF GroupRecords
  <2> QED
    BY <2>1, <2>2 DEF GroupInv
<1>8. CASE G!NewProcess
  BY <1>8, <1>0, <1>00 DEF G!NewProcess, GroupInv
<1>9. CASE UNCHANGED gVars
  BY <1>9 DEF gVars, GroupInv
<1> QED
  BY <1>1, <1>3, <1>4, <1>5, <1>6, <1>7, <1>8, <1>9 DEF G!GroupNext

(* The mode changes in a group's queue follow one another, and end with    *)
(* the mode the group has, for as long as the queue has room.              *)
THEOREM ModeTrailAlways == NodeSpec => []ModeTrail
<1>1. NodeInit => GroupInv
  BY GroupStart DEF NodeInit
<1>2. GroupInv /\ [NodeNext]_NodeVars => GroupInv'
  BY PartSteps, GroupStep
<1>3. GroupInv => ModeTrail
  <2>1. GroupInv => DOMAIN queue = 1..Len(queue)
    BY DEF GroupInv
  <2> QED
    BY <2>1 DEF GroupInv, Following, ModeTrail, G!ModeTrail, G!ModeChanges
<1> QED
  BY <1>1, <1>2, <1>3, SpecParts, PTL

-----------------------------------------------------------------------------
(* The HTTP interface.                                                     *)

Streamed == {"token", "done", "ack"}

(* What was passed on, del, is the beginning of what was published, pub;   *)
(* the rest of pub, after its first d messages, waits in inb in its order, *)
(* between confirmations, at the places that f gives.                      *)
Waits(f, d, n, p, inb, pub) ==
    /\ f \in [d+1 .. p -> 1..n]
    /\ \A i, j \in d+1 .. p : i < j => f[i] < f[j]
    /\ \A i \in d+1 .. p : inb[f[i]] = pub[i] /\ pub[i] # "ack"
    /\ \A k \in 1..n : inb[k] # "ack" => \E i \in d+1 .. p : f[i] = k

Queued(del, inb, pub) ==
    /\ Len(del) <= Len(pub) /\ \A i \in 1..Len(del) : del[i] = pub[i]
    /\ \E f : Waits(f, Len(del), Len(inb), Len(pub), inb, pub)

ApiInv ==
    /\ inbox \in [Conns -> Seq(Streamed)] /\ published \in [Conns -> Seq(Streamed)]
    /\ delivered \in [Conns -> Seq(Streamed)]
    /\ \A c \in Conns : Queued(delivered[c], inbox[c], published[c])

(* A message that is published waits behind the others.                    *)
LEMMA PublishQueued ==
    ASSUME NEW del \in Seq(Streamed), NEW inb \in Seq(Streamed), NEW pub \in Seq(Streamed),
           Queued(del, inb, pub), NEW m \in Streamed, m # "ack"
    PROVE  Queued(del, Append(inb, m), Append(pub, m))
<1>1. PICK d \in Nat, n \in Nat, p \in Nat : d = Len(del) /\ n = Len(inb) /\ p = Len(pub)
  OBVIOUS
<1>2. d <= p /\ \A i \in 1..d : del[i] = pub[i] /\ i \in 1..p
  BY <1>1 DEF Queued
<1>3a. PICK f : Waits(f, d, n, p, inb, pub)
  BY <1>1 DEF Queued
<1>3. /\ f \in [d+1 .. p -> 1..n]
      /\ \A i, j \in d+1 .. p : i < j => f[i] < f[j]
      /\ \A i \in d+1 .. p : inb[f[i]] = pub[i] /\ pub[i] # "ack"
      /\ \A k \in 1..n : inb[k] # "ack" => \E i \in d+1 .. p : f[i] = k
  BY <1>3a DEF Waits
<1>4. PICK q : q = Append(inb, m)
  OBVIOUS
<1>5. PICK r : r = Append(pub, m)
  OBVIOUS
<1>6. Len(q) = n + 1 /\ q[n + 1] = m /\ \A i \in 1..n : q[i] = inb[i]
  BY <1>1, <1>4, AppendProperties
<1>7. Len(r) = p + 1 /\ r[p + 1] = m /\ \A i \in 1..p : r[i] = pub[i]
  BY <1>1, <1>5, AppendProperties
<1> DEFINE g == [i \in d+1 .. p+1 |-> IF i = p + 1 THEN n + 1 ELSE f[i]]
<1>8. /\ \A i : i \in d+1 .. p+1 <=> i \in d+1 .. p \/ i = p + 1
      /\ \A i \in d+1 .. p : i # p + 1 /\ ~(p + 1 < i) /\ i \in 1..p
      /\ \A k : k \in 1..(n+1) <=> k \in 1..n \/ k = n + 1
      /\ \A k \in 1..n : k < n + 1
      /\ d <= p + 1 /\ ~(p + 1 < p + 1)
  BY <1>2
<1>9. \A i \in d+1 .. p : f[i] \in 1..n /\ g[i] = f[i]
  BY <1>3, <1>8
<1>10. g[p + 1] = n + 1
  BY <1>8
<1>11. g \in [d+1 .. p+1 -> 1..(n+1)]
  BY <1>8, <1>9
<1> HIDE DEF g
<1>12. \A i, j \in d+1 .. p+1 : i < j => g[i] < g[j]
  <2> SUFFICES ASSUME NEW i \in d+1 .. p+1, NEW j \in d+1 .. p+1, i < j PROVE g[i] < g[j]
    OBVIOUS
  <2>1. i \in d+1 .. p
    BY <1>8
  <2>2. CASE j \in d+1 .. p
    BY <2>1, <2>2, <1>3, <1>9
  <2>3. CASE j = p + 1
    BY <2>1, <2>3, <1>8, <1>9, <1>10
  <2> QED
    BY <2>2, <2>3, <1>8
<1>13. ASSUME NEW i \in d+1 .. p+1 PROVE q[g[i]] = r[i] /\ r[i] # "ack"
  <2>1. CASE i \in d+1 .. p
    <3>1. g[i] = f[i] /\ f[i] \in 1..n /\ i \in 1..p
      BY <2>1, <1>8, <1>9
    <3>2. q[f[i]] = inb[f[i]] /\ r[i] = pub[i]
      BY <3>1, <1>6, <1>7
    <3> QED
      BY <3>1, <3>2, <2>1, <1>3
  <2>2. CASE i = p + 1
    BY <2>2, <1>6, <1>7, <1>10
  <2> QED
    BY <2>1, <2>2, <1>8
<1>14. ASSUME NEW k \in 1..(n+1), q[k] # "ack" PROVE \E i \in d+1 .. p+1 : g[i] = k
  <2>1. CASE k \in 1..n
    <3>1. PICK i \in d+1 .. p : f[i] = k
      BY <2>1, <1>3, <1>6, <1>14
    <3> QED
      BY <3>1, <1>8, <1>9
  <2>2. CASE k = n + 1
    <3>1. p + 1 \in d+1 .. p+1
      BY <1>8
    <3> QED
      BY <3>1, <2>2, <1>10
  <2> QED
    BY <2>1, <2>2, <1>8
<1>15. \A i \in 1..d : del[i] = r[i]
  BY <1>2, <1>7
<1>16. Waits(g, d, n + 1, p + 1, q, r)
  BY <1>11, <1>12, <1>13, <1>14 DEF Waits
<1>17. Queued(del, q, r)
  BY <1>1, <1>6, <1>7, <1>8, <1>15, <1>16 DEF Queued
<1> QED
  BY <1>4, <1>5, <1>17

(* A reply is read, after one more confirmation has queued up.             *)
LEMMA ReadQueued ==
    ASSUME NEW del \in Seq(Streamed), NEW inb \in Seq(Streamed), NEW pub \in Seq(Streamed),
           Queued(del, inb, pub)
    PROVE  LET q == Append(inb, "ack")
           IN  /\ Head(q) \in Streamed /\ Tail(q) \in Seq(Streamed)
               /\ Queued(IF Head(q) = "ack" THEN del ELSE Append(del, Head(q)), Tail(q), pub)
<1>1. PICK d \in Nat, n \in Nat, p \in Nat : d = Len(del) /\ n = Len(inb) /\ p = Len(pub)
  OBVIOUS
<1>2. d <= p /\ \A i \in 1..d : del[i] = pub[i]
  BY <1>1 DEF Queued
<1>3a. PICK f : Waits(f, d, n, p, inb, pub)
  BY <1>1 DEF Queued
<1>3. /\ f \in [d+1 .. p -> 1..n]
      /\ \A i, j \in d+1 .. p : i < j => f[i] < f[j]
      /\ \A i \in d+1 .. p : inb[f[i]] = pub[i] /\ pub[i] # "ack"
      /\ \A k \in 1..n : inb[k] # "ack" => \E i \in d+1 .. p : f[i] = k
  BY <1>3a DEF Waits
<1>4. PICK q : q = Append(inb, "ack")
  OBVIOUS
<1>5. q \in Seq(Streamed) /\ Len(q) = n + 1 /\ q[n + 1] = "ack" /\ \A i \in 1..n : q[i] = inb[i]
  BY <1>1, <1>4, AppendProperties DEF Streamed
<1>6. PICK t : t = Tail(q)
  OBVIOUS
<1>7. q # <<>> /\ Head(q) = q[1] /\ q[1] \in Streamed
  <2>1. 1 \in 1..Len(q)
    BY <1>5
  <2> QED
    BY <2>1, <1>5, ElementOf
<1>8. t \in Seq(Streamed) /\ Len(t) = n /\ \A i \in 1..n : t[i] = q[i + 1]
  BY <1>5, <1>6, <1>7, HeadTailProperties
<1>9. /\ \A i \in d+1 .. p : f[i] \in 1..n /\ q[f[i]] = pub[i] /\ pub[i] # "ack"
      /\ \A k \in 1..(n+1) : q[k] # "ack" => k \in 1..n /\ \E i \in d+1 .. p : f[i] = k
  <2>1. \A i \in d+1 .. p : f[i] \in 1..n
    BY <1>3
  <2>2. \A k \in 1..(n+1) : k \in 1..n \/ k = n + 1
    OBVIOUS
  <2> QED
    BY <2>1, <2>2, <1>3, <1>5
<1>10. CASE q[1] = "ack"
  <2> DEFINE g == [i \in d+1 .. p |-> f[i] - 1]
  <2>1. ASSUME NEW i \in d+1 .. p PROVE f[i] - 1 \in 1..n /\ (f[i] - 1) + 1 = f[i]
    <3>1. f[i] \in 1..n /\ f[i] # 1
      BY <1>9, <1>10
    <3> QED
      BY <3>1
  <2>2. g \in [d+1 .. p -> 1..n] /\ \A i \in d+1 .. p : g[i] = f[i] - 1
    BY <2>1
  <2> HIDE DEF g
  <2>3. \A i, j \in d+1 .. p : i < j => g[i] < g[j]
    <3> SUFFICES ASSUME NEW i \in d+1 .. p, NEW j \in d+1 .. p, i < j PROVE g[i] < g[j]
      OBVIOUS
    <3>1. f[i] < f[j] /\ f[i] \in 1..n /\ f[j] \in 1..n
      BY <1>3, <1>9
    <3>2. g[i] = f[i] - 1 /\ g[j] = f[j] - 1
      BY <2>2
    <3> QED
      BY <3>1, <3>2
  <2>4. ASSUME NEW i \in d+1 .. p PROVE t[g[i]] = pub[i] /\ pub[i] # "ack"
    <3>1. g[i] \in 1..n /\ g[i] + 1 = f[i]
      BY <2>1, <2>2
    <3>2. t[g[i]] = q[f[i]]
      BY <3>1, <1>8
    <3> QED
      BY <3>2, <1>9
  <2>5. \A k \in 1..n : t[k] # "ack" => \E i \in d+1 .. p : g[i] = k
    <3> SUFFICES ASSUME NEW k \in 1..n, t[k] # "ack" PROVE \E i \in d+1 .. p : g[i] = k
      OBVIOUS
    <3>1. k + 1 \in 1..(n+1) /\ q[k + 1] # "ack"
      BY <1>8
    <3>2. PICK i \in d+1 .. p : f[i] = k + 1
      BY <3>1, <1>9
    <3>3. g[i] = k
      BY <3>2, <2>2
    <3> QED
      BY <3>3
  <2>w. Waits(g, d, n, p, t, pub)
    BY <2>2, <2>3, <2>4, <2>5 DEF Waits
  <2>6. Queued(del, t, pub)
    BY <2>w, <1>1, <1>2, <1>8 DEF Queued
  <2> QED
    BY <2>6, <1>4, <1>6, <1>7, <1>8, <1>10
<1>11. CASE q[1] # "ack"
  <2>1. PICK h \in d+1 .. p : f[h] = 1
    <3>1. 1 \in 1..(n+1)
      OBVIOUS
    <3> QED
      BY <3>1, <1>9, <1>11
  <2>2. h = d + 1
    <3> SUFFICES ASSUME h # d + 1 PROVE FALSE
      OBVIOUS
    <3>1. d + 1 \in d+1 .. p /\ d + 1 < h
      BY <2>1
    <3>2. f[d + 1] < 1 /\ f[d + 1] \in 1..n
      BY <3>1, <2>1, <1>3, <1>9
    <3> QED
      BY <3>2
  <2>3. pub[d + 1] = q[1] /\ d + 1 <= p
    BY <2>1, <2>2, <1>9
  <2>4. PICK e : e = Append(del, q[1])
    OBVIOUS
  <2>5. Len(e) = d + 1 /\ e[d + 1] = q[1] /\ \A i \in 1..d : e[i] = del[i]
    BY <2>4, <1>1, <1>7, AppendProperties
  <2>6. \A i \in 1..(d+1) : e[i] = pub[i]
    <3>1. \A i \in 1..(d+1) : i \in 1..d \/ i = d + 1
      OBVIOUS
    <3> QED
      BY <3>1, <2>3, <2>5, <1>2
  <2>7. PICK b \in Nat : b = d + 1
    OBVIOUS
  <2> DEFINE g == [i \in b+1 .. p |-> f[i] - 1]
  <2>8. ASSUME NEW i \in b+1 .. p
        PROVE  i \in d+1 .. p /\ f[i] \in 1..n /\ f[i] - 1 \in 1..n /\ (f[i] - 1) + 1 = f[i]
    <3>1. i \in d+1 .. p /\ d + 1 < i
      BY <2>7
    <3>2. f[i] \in 1..n /\ 1 < f[i]
      BY <3>1, <2>1, <2>2, <1>3, <1>9
    <3> QED
      BY <3>1, <3>2
  <2>9. g \in [b+1 .. p -> 1..n] /\ \A i \in b+1 .. p : g[i] = f[i] - 1
    BY <2>8
  <2> HIDE DEF g
  <2>10. \A i, j \in b+1 .. p : i < j => g[i] < g[j]
    <3> SUFFICES ASSUME NEW i \in b+1 .. p, NEW j \in b+1 .. p, i < j PROVE g[i] < g[j]
      OBVIOUS
    <3>1. f[i] < f[j] /\ f[i] \in 1..n /\ f[j] \in 1..n
      BY <1>3, <2>8
    <3>2. g[i] = f[i] - 1 /\ g[j] = f[j] - 1
      BY <2>9
    <3> QED
      BY <3>1, <3>2
  <2>11. ASSUME NEW i \in b+1 .. p PROVE t[g[i]] = pub[i] /\ pub[i] # "ack"
    <3>1. g[i] \in 1..n /\ g[i] + 1 = f[i] /\ i \in d+1 .. p
      BY <2>8, <2>9
    <3>2. t[g[i]] = q[f[i]]
      BY <3>1, <1>8
    <3> QED
      BY <3>1, <3>2, <1>9
  <2>12. \A k \in 1..n : t[k] # "ack" => \E i \in b+1 .. p : g[i] = k
    <3> SUFFICES ASSUME NEW k \in 1..n, t[k] # "ack" PROVE \E i \in b+1 .. p : g[i] = k
      OBVIOUS
    <3>1. k + 1 \in 1..(n+1) /\ q[k + 1] # "ack" /\ k + 1 # 1
      BY <1>8
    <3>2. PICK i \in d+1 .. p : f[i] = k + 1
      BY <3>1, <1>9
    <3>3. i \in b+1 .. p
      BY <3>1, <3>2, <2>1, <2>2, <2>7
    <3>4. g[i] = k
      BY <3>2, <3>3, <2>9
    <3> QED
      BY <3>3, <3>4
  <2>w. Waits(g, b, n, p, t, pub)
    BY <2>9, <2>10, <2>11, <2>12 DEF Waits
  <2>13. Queued(e, t, pub)
    BY <2>w, <2>3, <2>5, <2>6, <2>7, <1>1, <1>8 DEF Queued
  <2> QED
    BY <2>4, <2>13, <1>4, <1>6, <1>7, <1>8, <1>11
<1> QED
  BY <1>10, <1>11

LEMMA EmptyQueued == Queued(<<>>, <<>>, <<>>)
<1>1. Waits(<<>>, 0, 0, 0, <<>>, <<>>)
  <2>1. 0+1 .. 0 = {} /\ 1..0 = {}
    OBVIOUS
  <2>2. <<>> \in [0+1 .. 0 -> 1..0]
    BY <2>1
  <2> QED
    BY <2>1, <2>2 DEF Waits
<1>2. Len(<<>>) = 0
  OBVIOUS
<1> QED
  BY <1>1, <1>2 DEF Queued

LEMMA ApiStart == H!ApiInit => ApiInv
<1> SUFFICES ASSUME H!ApiInit PROVE ApiInv
  OBVIOUS
<1>1. /\ inbox = [c \in Conns |-> <<>>] /\ published = [c \in Conns |-> <<>>]
      /\ delivered = [c \in Conns |-> <<>>]
  BY DEF H!ApiInit
<1>2. /\ inbox \in [Conns -> Seq(Streamed)] /\ published \in [Conns -> Seq(Streamed)]
      /\ delivered \in [Conns -> Seq(Streamed)]
  BY <1>1
<1>3. \A c \in Conns : Queued(delivered[c], inbox[c], published[c])
  BY <1>1, EmptyQueued
<1> QED
  BY <1>2, <1>3 DEF ApiInv

LEMMA ApiStep == ApiInv /\ [H!ApiNext]_hVars => ApiInv'
<1> SUFFICES ASSUME ApiInv, [H!ApiNext]_hVars PROVE ApiInv'
  OBVIOUS
<1>1. /\ inbox \in [Conns -> Seq(Streamed)] /\ published \in [Conns -> Seq(Streamed)]
      /\ delivered \in [Conns -> Seq(Streamed)]
      /\ \A c \in Conns : Queued(delivered[c], inbox[c], published[c])
  BY DEF ApiInv
<1>2. UNCHANGED <<inbox, published, delivered>> => ApiInv'
  BY <1>1 DEF ApiInv
<1>3. ASSUME NEW c \in Conns, NEW m \in {"token", "done"}, H!Publish(c, m) PROVE ApiInv'
  <2>1. /\ published' = [published EXCEPT ![c] = Append(published[c], m)]
        /\ inbox' = [inbox EXCEPT ![c] = Append(inbox[c], m)]
        /\ UNCHANGED delivered
    BY <1>3 DEF H!Publish
  <2>2. m \in Streamed /\ m # "ack"
    BY DEF Streamed
  <2>3. published[c] \in Seq(Streamed) /\ inbox[c] \in Seq(Streamed) /\ delivered[c] \in Seq(Streamed)
    BY <1>1
  <2>4. Queued(delivered[c], Append(inbox[c], m), Append(published[c], m))
    BY <2>2, <2>3, <1>1, PublishQueued
  <2>5. published' \in [Conns -> Seq(Streamed)] /\ inbox' \in [Conns -> Seq(Streamed)]
    BY <2>1, <2>2, <2>3, <1>1
  <2>6. \A x \in Conns : /\ published'[x] = IF x = c THEN Append(published[c], m) ELSE published[x]
                         /\ inbox'[x] = IF x = c THEN Append(inbox[c], m) ELSE inbox[x]
    BY <2>1, <1>1
  <2>7. \A x \in Conns : Queued(delivered'[x], inbox'[x], published'[x])
    BY <2>1, <2>4, <2>6, <1>1
  <2> QED
    BY <2>1, <2>5, <2>7, <1>1 DEF ApiInv
<1>4. ASSUME NEW c \in Conns, H!StreamStep(c) PROVE ApiInv'
  <2> DEFINE q == Append(inbox[c], "ack")
  <2>1. H!GetMessage(c)[1] = Head(q) /\ H!GetMessage(c)[2] = Tail(q)
    BY DEF H!GetMessage
  <2>2. PICK m : m = Head(q)
    OBVIOUS
  <2>3. PICK rest : rest = Tail(q)
    OBVIOUS
  <2>4. /\ UNCHANGED published
        /\ inbox' = [inbox EXCEPT ![c] = rest]
        /\ delivered' = IF m = "ack" THEN delivered ELSE [delivered EXCEPT ![c] = Append(delivered[c], m)]
    BY <1>4, <2>1, <2>2, <2>3 DEF H!StreamStep
  <2>5. published[c] \in Seq(Streamed) /\ inbox[c] \in Seq(Streamed) /\ delivered[c] \in Seq(Streamed)
    BY <1>1
  <2>6. /\ m \in Streamed /\ rest \in Seq(Streamed)
        /\ Queued(IF m = "ack" THEN delivered[c] ELSE Append(delivered[c], m), rest, published[c])
    BY <2>2, <2>3, <2>5, <1>1, ReadQueued
  <2>7. /\ inbox' \in [Conns -> Seq(Streamed)] /\ delivered' \in [Conns -> Seq(Streamed)]
        /\ published' \in [Conns -> Seq(Streamed)]
    BY <2>4, <2>5, <2>6, <1>1
  <2>8. \A x \in Conns :
           /\ inbox'[x] = IF x = c THEN rest ELSE inbox[x]
           /\ delivered'[x] = IF x = c /\ m # "ack" THEN Append(delivered[c], m) ELSE delivered[x]
    BY <2>4, <1>1
  <2>9. \A x \in Conns : Queued(delivered'[x], inbox'[x], published'[x])
    BY <2>4, <2>6, <2>8, <1>1
  <2> QED
    BY <2>7, <2>9 DEF ApiInv
<1>5. ASSUME NEW c \in Conns, H!Connect(c) \/ H!SendRest(c) \/ H!Leave(c) \/ H!Accept(c)
      PROVE  ApiInv'
  BY <1>2, <1>5 DEF H!Connect, H!SendRest, H!Leave, H!Accept, H!streamVars
<1>6. ASSUME NEW c \in Conns, \/ H!ReadHead(c) \/ H!ReadBody(c) \/ H!ReadEof(c)
                              \/ H!RouteGet(c) \/ H!PostChat(c) \/ H!PostConnect(c)
                              \/ H!PostDisconnect(c) \/ H!Subscribe(c)
      PROVE  ApiInv'
  BY <1>2, <1>6 DEF H!ReadHead, H!ReadBody, H!ReadEof, H!RouteGet, H!PostChat, H!PostConnect,
                    H!PostDisconnect, H!Subscribe, H!streamVars
<1>7. CASE UNCHANGED hVars
  BY <1>2, <1>7 DEF hVars
<1> QED
  BY <1>3, <1>4, <1>5, <1>6, <1>7 DEF H!ApiNext, H!Handler

(* A stream passes on what was published, in order and from the first      *)
(* message on, for any connections and numbers of messages.                *)
THEOREM ApiHoldsAlways == NodeSpec => []ApiHolds
<1>1. NodeInit => ApiInv
  BY ApiStart DEF NodeInit
<1>2. ApiInv /\ [NodeNext]_NodeVars => ApiInv'
  BY PartSteps, ApiStep
<1>3. ApiInv => ApiHolds
  <2> SUFFICES ASSUME ApiInv, NEW c \in Conns PROVE H!IsPrefix(delivered[c], published[c])
    BY DEF ApiHolds, H!StreamInOrder
  <2>1. PICK s \in Seq(Streamed) : s = delivered[c]
    BY DEF ApiInv
  <2>2. PICK t \in Seq(Streamed) : t = published[c]
    BY DEF ApiInv
  <2>3. Len(s) <= Len(t) /\ \A i \in 1..Len(s) : s[i] = t[i]
    BY <2>1, <2>2 DEF ApiInv, Queued
  <2>4. SubSeq(s, 1, Len(s)) = SubSeq(t, 1, Len(s))
    BY <2>3
  <2>5. H!IsPrefix(s, t)
    BY <2>3, <2>4 DEF H!IsPrefix
  <2> QED
    BY <2>1, <2>2, <2>5
<1> QED
  BY <1>1, <1>2, <1>3, SpecParts, PTL

-----------------------------------------------------------------------------
(* What a step may never do.                                               *)

(* Deployments: a new backup has a name of its own, and before a binary is *)
(* replaced its version is in a backup.                                    *)
DeployInv ==
    /\ seconds \in Nat
    /\ \E x : binary \in {{x}, {}}
    /\ \A s \in DOMAIN backups : /\ s \in Nat /\ s <= seconds
                                 /\ deploying \in {"build", "backup"} => s # seconds
    /\ deploying = "replace" => \A v \in binary : \E s \in DOMAIN backups : backups[s] = v

LEMMA DeployStart == D!DeployInit => DeployInv
<1> SUFFICES ASSUME D!DeployInit PROVE DeployInv
  OBVIOUS
<1>1. seconds = 0 /\ binary \in {{1}, {}} /\ backups = << >> /\ deploying = "no"
  BY DEF D!DeployInit
<1>2. DOMAIN backups = {}
  BY <1>1
<1> QED
  BY <1>1, <1>2 DEF DeployInv

(* The copy of the binary, or a part of it, to the backup of this second.  *)
LEMMA BackupAdds ==
    ASSUME DeployInv, deploying = "backup", NEW v, D!BackupTo(v)
    PROVE  /\ DOMAIN backups' = DOMAIN backups \cup {seconds}
           /\ backups'[seconds] = v
           /\ \A s \in DOMAIN backups : s # seconds /\ backups'[s] = backups[s]
<1>1. backups' = [s \in DOMAIN backups \cup {seconds} |-> IF s = seconds THEN v ELSE backups[s]]
  BY DEF D!BackupTo
<1>2. \A s \in DOMAIN backups : s # seconds
  BY DEF DeployInv
<1> QED
  BY <1>1, <1>2

LEMMA DeployStep ==
    DeployInv /\ [D!DeployNext]_dVars => DeployInv' /\ D!Available \subseteq D!Available'
<1> SUFFICES ASSUME DeployInv, [D!DeployNext]_dVars
             PROVE  DeployInv' /\ D!Available \subseteq D!Available'
  OBVIOUS
<1>0. \A v : v \in D!Available <=> v # D!Torn /\ (v \in binary \/ \E s \in DOMAIN backups : backups[s] = v)
  BY DEF D!Available
<1>00. \A v : v \in D!Available' <=> v # D!Torn /\ (v \in binary' \/ \E s \in DOMAIN backups' : backups'[s] = v)
  BY DEF D!Available, D!Torn
<1>1. CASE UNCHANGED <<binary, backups, seconds>> /\ deploying' \in {"no", deploying}
  <2>1. DeployInv'
    BY <1>1 DEF DeployInv
  <2>2. D!Available' = D!Available
    BY <1>1 DEF D!Available, D!Torn
  <2> QED
    BY <2>1, <2>2
<1>2. CASE D!toggle_self_improve
  BY <1>1, <1>2 DEF D!toggle_self_improve
<1>3. CASE D!Deploy
  <2>1. /\ seconds' = seconds + 1 /\ UNCHANGED <<binary, backups>>
        /\ deploying' = "build"
    BY <1>3 DEF D!Deploy
  <2>2. seconds \in Nat /\ \A s \in DOMAIN backups : s \in Nat /\ s <= seconds
    BY DEF DeployInv
  <2>3. seconds' \in Nat /\ \A s \in DOMAIN backups : s \in Nat /\ s <= seconds' /\ s # seconds'
    BY <2>1, <2>2
  <2>4. DeployInv'
    BY <2>1, <2>3 DEF DeployInv
  <2>5. D!Available' = D!Available
    BY <2>1 DEF D!Available, D!Torn
  <2> QED
    BY <2>4, <2>5
<1>4. CASE D!build_release
  <2>1. deploying = "build" /\ deploying' = "backup" /\ UNCHANGED <<binary, backups, seconds>>
    BY <1>4 DEF D!build_release, D!Goes
  <2>2. DeployInv'
    BY <2>1 DEF DeployInv
  <2>3. D!Available' = D!Available
    BY <2>1 DEF D!Available, D!Torn
  <2> QED
    BY <2>2, <2>3
<1>5. ASSUME deploying = "backup", NEW v, D!BackupTo(v), UNCHANGED <<binary, seconds>>,
             deploying' = "no" \/ (deploying' = "replace" /\ v \in binary)
      PROVE  DeployInv' /\ D!Available \subseteq D!Available'
  <2>1. /\ DOMAIN backups' = DOMAIN backups \cup {seconds}
        /\ backups'[seconds] = v
        /\ \A s \in DOMAIN backups : s # seconds /\ backups'[s] = backups[s]
    BY <1>5, BackupAdds
  <2>2. \A x \in D!Available : x \in D!Available'
    BY <2>1, <1>0, <1>00, <1>5
  <2>3. \A s \in DOMAIN backups' : s \in Nat /\ s <= seconds
    BY <2>1 DEF DeployInv
  <2>4. deploying' = "replace" => \A x \in binary' : x = v
    BY <1>5 DEF DeployInv
  <2>5. DeployInv'
    BY <2>1, <2>3, <2>4, <1>5 DEF DeployInv
  <2> QED
    BY <2>2, <2>5
<1>6. CASE D!backup_current
  <2>1. deploying = "backup" /\ deploying' = "replace" /\ UNCHANGED <<binary, seconds>>
    BY <1>6 DEF D!backup_current, D!Goes
  <2>2. CASE binary = {}
    <3>1. backups' = backups
      BY <1>6, <2>2 DEF D!backup_current
    <3>2. DeployInv'
      BY <2>1, <2>2, <3>1 DEF DeployInv
    <3>3. D!Available' = D!Available
      BY <2>1, <3>1 DEF D!Available, D!Torn
    <3> QED
      BY <3>2, <3>3
  <2>3. CASE binary # {}
    <3>1. PICK v \in binary : D!BackupTo(v)
      BY <1>6, <2>3 DEF D!backup_current
    <3> QED
      BY <2>1, <3>1, <1>5
  <2> QED
    BY <2>2, <2>3
<1>7. CASE D!BackupFails
  <2>1. /\ deploying = "backup" /\ deploying' = "no" /\ UNCHANGED <<binary, seconds>>
        /\ backups' = backups \/ D!BackupTo(D!Torn)
    BY <1>7 DEF D!BackupFails, D!Goes, D!AfterFailedBackup
  <2> QED
    BY <2>1, <1>1, <1>5
<1>8. ASSUME deploying = "replace", deploying' = "no", UNCHANGED <<backups, seconds>>,
             NEW x, binary' \in {binary, {x}}
      PROVE  DeployInv' /\ D!Available \subseteq D!Available'
  <2>1. \A v \in binary : \E s \in DOMAIN backups : backups[s] = v
    BY <1>8 DEF DeployInv
  <2>2. \A v \in D!Available : v \in D!Available'
    BY <2>1, <1>0, <1>00, <1>8
  <2>3. DeployInv'
    BY <1>8 DEF DeployInv
  <2> QED
    BY <2>2, <2>3
<1>9. CASE D!replace_binary
  <2>1. deploying = "replace" /\ deploying' = "no" /\ UNCHANGED <<backups, seconds>> /\ binary' = {built}
    BY <1>9 DEF D!replace_binary, D!Goes
  <2> QED
    BY <2>1, <1>8
<1>10. CASE D!ReplaceFails
  <2>1. /\ deploying = "replace" /\ deploying' = "no" /\ UNCHANGED <<backups, seconds>>
        /\ binary' \in {binary, {D!Torn}}
    BY <1>10 DEF D!ReplaceFails, D!Goes
  <2> QED
    BY <2>1, <1>8
<1>11. CASE D!Stop
  <2>1. /\ deploying' = "no" /\ UNCHANGED seconds
        /\ \/ UNCHANGED <<binary, backups>>
           \/ deploying = "backup" /\ D!BackupTo(D!Torn) /\ UNCHANGED binary
           \/ deploying = "replace" /\ binary' = {D!Torn} /\ UNCHANGED backups
    BY <1>11 DEF D!Stop
  <2> QED
    BY <2>1, <1>1, <1>5, <1>8
<1>12. CASE UNCHANGED dVars
  BY <1>1, <1>12 DEF dVars
<1> QED
  BY <1>2, <1>3, <1>4, <1>6, <1>7, <1>9, <1>10, <1>11, <1>12 DEF D!DeployNext

(* Cargo.                                                                  *)
LEMMA CargoFinishes ==
    ASSUME CargoInv, [C!CargoNext]_cVars, NEW c \in Cargos,
           cargoStatus[c] \in C!is_terminal, cargoStatus'[c] \notin C!is_terminal
    PROVE  cargoStatus'[c] \in {"OfferSent", "AcceptancePending"}
<1>0. /\ C!is_terminal = {"Landed", "Recalled", "Expired", "OfferRejected"}
      /\ DOMAIN cargoStatus = Cargos
  BY DEF C!is_terminal, CargoInv
<1>1. CASE cargoStatus' = cargoStatus
  BY <1>1
<1>2. ASSUME NEW d \in Cargos, NEW new,
             cargoStatus' = [cargoStatus EXCEPT ![d] = new],
             new \in {"OfferSent", "AcceptancePending", "Expired", "Landed"} \/ cargoStatus[d] = "Transferring"
      PROVE  cargoStatus'[c] \in {"OfferSent", "AcceptancePending"}
  BY <1>0, <1>2
<1>3. ASSUME NEW d \in Cargos, NEW accepted \in BOOLEAN, C!CargoAck(d, accepted)
      PROVE  cargoStatus'[c] \in {"OfferSent", "AcceptancePending"}
  <2>1. PICK new : cargoStatus' = [cargoStatus EXCEPT
                      ![d] = IF cargoStatus[d] = "AcceptancePending" THEN new ELSE cargoStatus[d]]
    BY <1>3 DEF C!CargoAck, C!Answer
  <2> QED
    BY <2>1, <1>0
<1>4. ASSUME NEW d \in Cargos,
             \/ C!push_offer(d) \/ C!store_incoming(d) \/ C!set_paused(d) \/ C!expire(d)
             \/ C!CargoConfirm(d) \/ C!CargoOffer(d)
      PROVE  cargoStatus'[c] \in {"OfferSent", "AcceptancePending"}
  BY <1>1, <1>2, <1>4 DEF C!push_offer, C!store_incoming, C!set_paused, C!expire,
                          C!CargoConfirm, C!CargoOffer, C!engineVars
<1>5. CASE C!List \/ \E i \in 1..MaxOffers : C!Decide(i)
  BY <1>1, <1>5 DEF C!List, C!Decide, C!engineVars
<1>6. CASE UNCHANGED cVars
  BY <1>1, <1>6 DEF cVars
<1> QED
  BY <1>3, <1>4, <1>5, <1>6 DEF C!CargoNext

(* Policies: the first entry of a skill is the one that counts.            *)
Policies == [made : BOOLEAN, skills : Seq([skill : Shareable, scope : X!Scopes])]
PolicyInv == policies \in [GroupNames -> Policies]

LEMMA PolicyStart == X!AccessInit => PolicyInv
  BY DEF X!AccessInit, X!NoPolicy, PolicyInv, Policies

LEMMA SharedAgain ==
    ASSUME NEW p \in Policies, NEW e \in [skill : Shareable, scope : X!Scopes],
           NEW s \in Shareable, X!is_shared(p, s)
    PROVE  X!visibility([p EXCEPT !.skills = Append(p.skills, e)], s) = X!visibility(p, s)
<1>1. PICK l \in Seq([skill : Shareable, scope : X!Scopes]) : l = p.skills
  BY DEF Policies
<1>2. PICK r : r = [p EXCEPT !.skills = Append(p.skills, e)]
  OBVIOUS
<1>3. PICK m : m = Append(l, e)
  OBVIOUS
<1>4. r.skills = m
  BY <1>1, <1>2, <1>3 DEF Policies
<1>5. Len(m) = Len(l) + 1 /\ Len(l) \in Nat /\ \A i \in 1..Len(l) : m[i] = l[i]
  BY <1>3, AppendProperties
<1> DEFINE I == {i \in 1..Len(l) : l[i].skill = s}
           K == {i \in 1..Len(m) : m[i].skill = s}
<1>6. /\ X!Entry(p, s) = IF I # {} THEN Min(I) ELSE 0
      /\ X!Entry(r, s) = IF K # {} THEN Min(K) ELSE 0
  BY <1>1, <1>4 DEF X!Entry, X!SelectInSeq, X!Min, Min
<1>7. I # {}
  BY <1>6 DEF X!is_shared
<1>8. \A i \in I : i \in K
  BY <1>5
<1>9. Min(I) \in I /\ \A j \in I : Min(I) <= j
  BY <1>5, <1>7, FirstPlace
<1>10. Min(K) \in K /\ \A j \in K : Min(K) <= j
  <2>1. K \in SUBSET (1..Len(m)) /\ K # {} /\ Len(m) \in Nat
    BY <1>5, <1>7, <1>8
  <2> QED
    BY <2>1, FirstPlace
<1>11. Min(K) = Min(I)
  <2>1. PICK a \in 1..Len(l) : a = Min(I)
    BY <1>9
  <2>2. PICK b \in 1..Len(m) : b = Min(K)
    BY <1>10
  <2>3. b <= a
    BY <2>1, <2>2, <1>8, <1>9, <1>10
  <2>4. b \in 1..Len(l)
    BY <2>1, <2>2, <2>3, <1>5
  <2>5. b \in I
    BY <2>2, <2>4, <1>5, <1>10
  <2>6. a <= b
    BY <2>1, <2>5, <1>9
  <2> QED
    BY <2>1, <2>2, <2>3, <2>6, <1>5
<1>12. X!Entry(r, s) = Min(I) /\ X!Entry(p, s) = Min(I) /\ Min(I) \in 1..Len(l)
  BY <1>6, <1>7, <1>8, <1>9, <1>11
<1>13. m[Min(I)] = l[Min(I)] /\ Min(I) # 0
  BY <1>5, <1>12
<1>14. X!visibility(p, s) = l[Min(I)].scope /\ X!visibility(r, s) = m[Min(I)].scope
  <2>1. PICK k : k = Min(I)
    OBVIOUS
  <2> HIDE DEF I
  <2>2. k # 0 /\ X!Entry(p, s) = k /\ X!Entry(r, s) = k
    BY <2>1, <1>12, <1>13
  <2> QED
    BY <2>1, <2>2, <1>1, <1>4 DEF X!visibility, X!is_shared
<1> QED
  BY <1>2, <1>3, <1>1, <1>13, <1>14

LEMMA PolicyStep ==
    PolicyInv /\ [X!AccessNext]_xVars =>
        /\ PolicyInv'
        /\ \A g \in GroupNames, s \in Shareable :
              X!is_shared(policies[g], s)
                  => \/ X!visibility(policies'[g], s) = X!visibility(policies[g], s)
                     \/ policies'[g].skills = <<>>
<1> DEFINE Stays == \A g \in GroupNames, s \in Shareable :
              X!is_shared(policies[g], s)
                  => \/ X!visibility(policies'[g], s) = X!visibility(policies[g], s)
                     \/ policies'[g].skills = <<>>
<1> SUFFICES ASSUME PolicyInv, [X!AccessNext]_xVars PROVE PolicyInv' /\ Stays
  OBVIOUS
<1>1. CASE policies' = policies
  BY <1>1 DEF PolicyInv
<1>2. ASSUME NEW g \in GroupNames, X!create_policy(g) PROVE PolicyInv' /\ Stays
  <2>1. policies' = [policies EXCEPT ![g] = [made |-> TRUE, skills |-> <<>>]]
    BY <1>2 DEF X!create_policy
  <2>2. [made |-> TRUE, skills |-> <<>>] \in Policies
    BY DEF Policies
  <2>3. PolicyInv' /\ \A h \in GroupNames : h # g => policies'[h] = policies[h]
    BY <2>1, <2>2 DEF PolicyInv
  <2>4. policies'[g].skills = <<>>
    BY <2>1 DEF PolicyInv
  <2> QED
    BY <2>3, <2>4
<1>3. ASSUME NEW g \in GroupNames, NEW s \in Shareable, NEW scope \in X!Scopes, X!share_skill(g, s, scope)
      PROVE  PolicyInv' /\ Stays
  <2> DEFINE e == [skill |-> s, scope |-> scope]
             new == [policies[g] EXCEPT !.skills = Append(policies[g].skills, e)]
  <2>1. policies' = [policies EXCEPT ![g] = new]
    BY <1>3 DEF X!share_skill
  <2>2. e \in [skill : Shareable, scope : X!Scopes]
    OBVIOUS
  <2>3. policies[g] \in Policies
    BY DEF PolicyInv
  <2>4. \A t \in Shareable : X!is_shared(policies[g], t) => X!visibility(new, t) = X!visibility(policies[g], t)
    BY <2>2, <2>3, SharedAgain
  <2>5. new \in Policies
    <3>1. policies[g].skills \in Seq([skill : Shareable, scope : X!Scopes])
      BY <2>3 DEF Policies
    <3>2. Append(policies[g].skills, e) \in Seq([skill : Shareable, scope : X!Scopes])
      BY <3>1, <2>2
    <3> QED
      BY <2>3, <3>2 DEF Policies
  <2> HIDE DEF new
  <2>6. PolicyInv' /\ \A h \in GroupNames : policies'[h] = IF h = g THEN new ELSE policies[h]
    BY <2>1, <2>5 DEF PolicyInv
  <2> QED
    BY <2>4, <2>6
<1>4. CASE \/ \E c \in Channels, a \in X!Accesses : X!create_channel(c, a)
           \/ \E c \in Channels, u \in Users : X!add_peer_to_channel(c, u) \/ X!remove_peer_from_channel(c, u)
  BY <1>1, <1>4 DEF X!create_channel, X!add_peer_to_channel, X!remove_peer_from_channel
<1>5. CASE UNCHANGED xVars
  BY <1>1, <1>5 DEF xVars
<1> QED
  BY <1>2, <1>3, <1>4, <1>5 DEF X!AccessNext

(* The places of a sequence, all of them, are in order as they stand.      *)
LEMMA OrderedInterval ==
    ASSUME NEW n \in Nat, NEW k \in 1..n
    PROVE  Cardinality(1..n) = n /\ Ordered(1..n)[k] = k
<1>1. \A m \in Nat : IsFiniteSet(1..m) /\ Cardinality(1..m) = m
  BY FS_Interval
<1>2. ASSUME NEW m \in 1..n PROVE Cardinality({j \in 1..n : j <= m}) = m
  <2>1. m \in Nat /\ \A j : j \in 1..m <=> j \in 1..n /\ j <= m
    OBVIOUS
  <2>2. {j \in 1..n : j <= m} = 1..m
    BY <2>1, Zenon
  <2> QED
    BY <2>1, <2>2, <1>1
<1>3. Ordered(1..n)[k] = CHOOSE m \in 1..n : Cardinality({j \in 1..n : j <= m}) = k
  BY <1>1 DEF Ordered
<1>4. \A m \in 1..n : Cardinality({j \in 1..n : j <= m}) = k <=> m = k
  BY <1>2
<1>5. (CHOOSE m \in 1..n : Cardinality({j \in 1..n : j <= m}) = k) = (CHOOSE m \in 1..n : m = k)
  BY <1>4
<1> QED
  BY <1>1, <1>3, <1>5

(* Nothing is left out of a sequence when all its places are chosen.       *)
LEMMA AllKept ==
    ASSUME NEW T, NEW l \in Seq(T), NEW K \in SUBSET DOMAIN l, Cardinality(K) >= Len(l)
    PROVE  \A k \in DOMAIN l : k \in K
<1>1. PICK n \in Nat : n = Len(l)
  OBVIOUS
<1>2. DOMAIN l = 1..n
  BY <1>1
<1>3. IsFiniteSet(1..n) /\ Cardinality(1..n) = n
  BY FS_Interval
<1>4. /\ IsFiniteSet(K) /\ Cardinality(K) <= n
      /\ Cardinality(K) = n => K = 1..n
  BY <1>2, <1>3, FS_Subset
<1>5. Cardinality(K) \in Nat
  BY <1>4, FS_CardinalityType
<1>6. Cardinality(K) = n
  BY <1>1, <1>4, <1>5
<1> QED
  BY <1>2, <1>4, <1>6

(* A later job of the same name is not reached.                            *)
LEMMA ShadowStep ==
    ASSUME ConfigInv, [F!ConfigNext]_fVars, NEW k \in DOMAIN items["cron"], "cron" \notin unsaved,
           F!Shadowed(k), Len(items'["cron"]) >= Len(items["cron"])
    PROVE  items'["cron"][k] = items["cron"][k]
<1>0. /\ items["cron"] \in Seq(ListEntries) /\ items["cron"] = items["cron"]
      /\ "contacts" \in F!Lists /\ "cron" \in F!Lists /\ DOMAIN items = F!Lists
  BY DEF ConfigInv, F!Lists
<1>1. PICK l \in Seq(ListEntries) : l = items["cron"]
  BY <1>0
<1>2. PICK n \in Nat : n = Len(l) /\ DOMAIN l = 1..n
  OBVIOUS
<1>3. k \in 1..n /\ \E j \in 1..(k - 1) : l[j].id = l[k].id
  BY <1>1, <1>2 DEF F!Shadowed
<1>4. k \in Nat /\ 2 <= n
  BY <1>3
<1>5. CASE items'["cron"] = items["cron"]
  BY <1>5
<1>6. ASSUME NEW i \in Contacts, NEW v \in Values, F!set(i, v)
      PROVE  items'["cron"] = items["cron"]
  BY <1>0, <1>6 DEF F!set, F!Change
<1>7. ASSUME NEW i \in Jobs, NEW v \in Values, F!add_job(i, v)
      PROVE  items'["cron"][k] = items["cron"][k]
  <2>1. items'["cron"] = Append(l, F!Entry(i, v))
    BY <1>0, <1>1, <1>7 DEF F!add_job, F!Change
  <2>2. Append(l, F!Entry(i, v))[k] = l[k]
    <3>1. PICK e : e = F!Entry(i, v)
      OBVIOUS
    <3> QED
      BY <1>2, <1>3, <3>1, AppendProperties
  <2> QED
    BY <2>1, <2>2, <1>1
<1>8. ASSUME NEW i \in Jobs, NEW v \in Values, F!switch_job(i, v)
      PROVE  items'["cron"][k] = items["cron"][k]
  <2>1. items'["cron"] = F!Switched(i, v)
    BY <1>0, <1>8 DEF F!switch_job, F!Change
  <2>2. PICK h : h = F!First("cron", i)
    OBVIOUS
  <2>3. \/ h = 0
        \/ /\ h \in 1..n /\ l[h].id = i
           /\ \A j \in 1..n : l[j].id = i => h <= j
    BY <2>2, <1>0, <1>1, <1>2, FirstFinds
  <2>4. CASE h = 0
    BY <2>1, <2>2, <2>4 DEF F!Switched
  <2>5. CASE h # 0
    <3>1. h # k
      <4> SUFFICES ASSUME h = k PROVE FALSE
        OBVIOUS
      <4>1. PICK j \in 1..(k - 1) : l[j].id = l[k].id
        BY <1>3
      <4>2. j \in 1..n /\ ~(k <= j)
        BY <1>2, <1>3
      <4> QED
        BY <4>1, <4>2, <2>3, <2>5
    <3>2. items'["cron"] = [l EXCEPT ![h] = [l[h] EXCEPT !.value = v]]
      BY <2>1, <2>2, <2>5, <1>1 DEF F!Switched
    <3> QED
      BY <3>1, <3>2, <1>1
  <2> QED
    BY <2>4, <2>5
<1>9. ASSUME NEW i \in Contacts, F!remove(i) PROVE items'["cron"] = items["cron"]
  BY <1>0, <1>9 DEF F!remove, F!Change
<1>10. ASSUME NEW i \in Jobs, F!remove_job(i) PROVE items'["cron"][k] = items["cron"][k]
  <2> DEFINE K == {j \in DOMAIN l : l[j].id # i}
  <2>1. items'["cron"] = F!Without("cron", i)
    BY <1>0, <1>10 DEF F!remove_job, F!Change
  <2>2. \A any : F!Ordered(any) = Ordered(any)
    BY DEF F!Ordered, Ordered, F!Cardinality, Cardinality
  <2>3. F!Without("cron", i) = Kept(l, K)
    BY <2>2, <1>1 DEF F!Without, F!Kept, Kept, F!Cardinality, Cardinality
  <2>4. Len(Kept(l, K)) = Cardinality(K) /\ Cardinality(K) >= Len(l)
    <3>1. IsFiniteSet(1..n) /\ K \subseteq 1..n
      BY <1>2, FS_Interval
    <3>2. Cardinality(K) \in Nat
      BY <3>1, FS_Subset, FS_CardinalityType
    <3>3. Len(Kept(l, K)) = Cardinality(K)
      <4>1. PICK c \in Nat : c = Cardinality(K)
        BY <3>2
      <4> HIDE DEF K
      <4> QED
        BY <4>1 DEF Kept
    <3> QED
      BY <3>3, <2>1, <2>3, <1>1
  <2>5. \A j \in DOMAIN l : j \in K
    BY <2>4, AllKept
  <2>6. K = 1..n
    BY <2>5, <1>2
  <2>7. Cardinality(1..n) = n /\ Ordered(1..n)[k] = k
    BY <1>3, OrderedInterval
  <2>8. Kept(l, 1..n)[k] = l[k]
    BY <2>7, <1>3 DEF Kept
  <2> QED
    BY <2>1, <2>3, <2>6, <2>8, <1>1
<1>11. CASE F!Saved
  BY <1>11 DEF F!Saved
<1>14. CASE F!SaveFails
  BY <1>14 DEF F!SaveFails
<1>12. CASE F!New
  <2>1. items'["cron"] = IF disk["cron"].whole THEN disk["cron"].entries ELSE F!Default
    BY <1>0, <1>12 DEF F!New, F!Unparsed
  <2>2. Len(F!Default) = 1
    BY DEF F!Default
  <2>3. disk["cron"].whole
    <3>1. Len(items'["cron"]) >= n
      BY <1>1, <1>2
    <3> SUFFICES ASSUME ~disk["cron"].whole PROVE FALSE
      OBVIOUS
    <3>2. PICK m : m = Len(items'["cron"])
      OBVIOUS
    <3>3. m = 1
      BY <3>2, <2>1, <2>2
    <3>4. m >= n
      BY <3>1, <3>2
    <3> QED
      BY <3>3, <3>4, <1>4
  <2>4. saving # "cron"
    BY <2>3, <1>0 DEF ConfigInv
  <2>5. items["cron"] = disk["cron"].entries
    BY <2>3, <2>4, <1>0 DEF ConfigInv, F!ChangesKept
  <2> QED
    BY <2>1, <2>3, <2>5
<1>13. CASE UNCHANGED fVars
  BY <1>13 DEF fVars
<1> QED
  BY <1>5, <1>6, <1>7, <1>8, <1>9, <1>10, <1>11, <1>12, <1>13, <1>14 DEF F!ConfigNext

(* No step takes back what was settled: a finished cargo, an available     *)
(* version, the scope of a shared skill, the switch of a shadowed job.     *)
THEOREM NothingTakenBackAlways == NodeSpec => NothingTakenBack
<1> DEFINE Inv == CargoInv /\ DeployInv /\ PolicyInv /\ ConfigInv
<1>1. NodeInit => Inv
  BY CargoStart, DeployStart, PolicyStart, ConfigStart DEF NodeInit
<1>2. Inv /\ [NodeNext]_NodeVars => Inv'
  BY PartSteps, CargoStep, DeployStep, PolicyStep, ConfigStep
<1>3. Inv /\ [NodeNext]_NodeVars =>
        [\A c \in Cargos :
            cargoStatus[c] \in C!is_terminal /\ cargoStatus'[c] \notin C!is_terminal =>
                cargoStatus'[c] \in {"OfferSent", "AcceptancePending"}]_(C!cargoVars)
  BY PartSteps, CargoFinishes
<1>4. Inv /\ [NodeNext]_NodeVars => [D!Available \subseteq D!Available']_(D!deployVars)
  BY PartSteps, DeployStep
<1>5. Inv /\ [NodeNext]_NodeVars =>
        [\A g \in GroupNames, s \in Shareable :
            X!is_shared(policies[g], s)
                => \/ X!visibility(policies'[g], s) = X!visibility(policies[g], s)
                   \/ policies'[g].skills = <<>>]_(X!accessVars)
  BY PartSteps, PolicyStep
<1>6. Inv /\ [NodeNext]_NodeVars =>
        [\A k \in DOMAIN items["cron"] :
            F!Shadowed(k) /\ Len(items'["cron"]) >= Len(items["cron"]) /\ "cron" \notin unsaved
                => items'["cron"][k] = items["cron"][k]]_(F!configVars)
  BY PartSteps, ShadowStep
<1> HIDE DEF Inv
<1>7. NodeSpec => []Inv
  BY <1>1, <1>2, SpecParts, PTL
<1>8. NodeSpec => C!NoRevival
  BY <1>3, <1>7, SpecParts, PTL DEF C!NoRevival
<1>9. NodeSpec => D!VersionsKept
  BY <1>4, <1>7, SpecParts, PTL DEF D!VersionsKept
<1>10. NodeSpec => X!ScopeStays
  BY <1>5, <1>7, SpecParts, PTL DEF X!ScopeStays
<1>11. NodeSpec => F!ShadowedKeeps
  BY <1>6, <1>7, SpecParts, PTL DEF F!ShadowedKeeps
<1> QED
  BY <1>8, <1>9, <1>10, <1>11 DEF NothingTakenBack
=============================================================================
