--------------------------- MODULE SecurityTrust ----------------------------
(***************************************************************************)
(* What SecurityLearner (src/security.rs) learns from events: the counters *)
(* and the trust level of each peer, and rules that are added every        *)
(* LearnEvery events and never withdrawn.  The state is saved every        *)
(* SaveEvery events, and a save that fails is not noticed; a restart       *)
(* forgets what came after.                                                *)
(***************************************************************************)
EXTENDS Naturals, FiniteSetsExt

CONSTANTS
    Peers,
    TrustedAt, HighAt, MediumAt, LowAbove,  \* 50, 20, 5 and 3 in the code
    AutoTrustAt, BlockAt, AnomaliesAt,      \* 10, 3 and 5
    LearnEvery, SaveEvery,                  \* 10 and 20
    MaxEvents                               \* bound

ASSUME TrustAssumption ==
    /\ MediumAt \in Nat /\ HighAt \in Nat /\ TrustedAt \in Nat /\ LowAbove \in Nat
    /\ MediumAt <= HighAt /\ HighAt <= TrustedAt
    /\ AutoTrustAt \in Nat \ {0} /\ BlockAt \in Nat \ {0}
    /\ LearnEvery \in Nat \ {0} /\ SaveEvery \in Nat \ {0}

VARIABLES
    events,     \* how many were recorded
    trust_map,  \* each peer: successes, failures, anomalies
    rules,      \* the learned rules
    saved       \* events, trust_map and rules that the file gives

trustVars == <<events, trust_map, rules, saved>>

NoTrust == [ok |-> 0, failed |-> 0, anomalies |-> 0]

(* What no file, or a file cut short, gives.                               *)
NoState == [events |-> 0, trust_map |-> [p \in Peers |-> NoTrust], rules |-> {}]

TrustInit ==
    /\ events = 0 /\ rules = {}
    /\ trust_map = [p \in Peers |-> NoTrust]
    /\ saved = NoState

Rate(t, percent) == 100 * t.ok > percent * (t.ok + t.failed)
(* Mutant: a peer is Low only after more failures than successes.          *)
LevelLenient(t) ==
    IF t.ok >= TrustedAt /\ Rate(t, 95) THEN "Trusted"
    ELSE IF t.ok >= HighAt /\ Rate(t, 85) THEN "High"
    ELSE IF t.ok >= MediumAt THEN "Medium"
    ELSE IF t.ok + t.failed > LowAbove /\ t.ok >= t.failed THEN "Low" ELSE "Unknown"
(* recalc_trust: the tests in the order the code makes them.               *)
Level(t) ==
    IF t.ok >= TrustedAt /\ Rate(t, 95) THEN "Trusted"
    ELSE IF t.ok >= HighAt /\ Rate(t, 85) THEN "High"
    ELSE IF t.ok >= MediumAt /\ Rate(t, 70) THEN "Medium"
    ELSE IF t.ok + t.failed > LowAbove THEN "Low" ELSE "Unknown"

should_auto_approve(t) == Level(t) \in {"Trusted", "High"}
(* The risks above which a peer is blocked: 6 for every one, 4 for some.   *)
should_block(t, risk) ==
    \/ Level(t) = "Unknown" /\ risk > 5
    \/ Level(t) = "Low" /\ risk > 3

-----------------------------------------------------------------------------
(* learn: the three patterns.                                              *)

Rule(k, p) == [kind |-> k, peer |-> p]
Anomalies(tm) == MapThenSumSet(LAMBDA p : tm[p].anomalies, DOMAIN tm)

Learned(tm) ==
    {Rule("auto-trust", p) : p \in {q \in Peers : tm[q].ok >= AutoTrustAt /\ tm[q].failed = 0}}
    \cup {Rule("block", p) : p \in {q \in Peers : tm[q].failed >= BlockAt /\ tm[q].ok = 0}}
    \cup {Rule("anomaly-block", p) : p \in {q \in Peers :
            tm[q].anomalies > 0 /\ Anomalies(tm) >= AnomaliesAt}}

(* save: all of it is written, or the file cannot be opened and stays, or  *)
(* it is cut short; record_event ignores which.                            *)
Save(state) == saved' \in {state, saved, NoState}

(* record_event, with what it counts for the peer.                         *)
Record(p, ok, failed, anomaly) ==
    /\ events < MaxEvents
    /\ events' = events + 1
    /\ trust_map' = [trust_map EXCEPT ![p] = [ok |-> @.ok + ok, failed |-> @.failed + failed,
                                              anomalies |-> @.anomalies + anomaly]]
    /\ rules' = IF events' % LearnEvery = 0 THEN rules \cup Learned(trust_map') ELSE rules
    /\ IF events' % SaveEvery = 0
       THEN Save([events |-> events', trust_map |-> trust_map', rules |-> rules'])
       ELSE UNCHANGED saved

(* ShareApproved, PeerConnected.                                           *)
Success(p) == Record(p, 1, 0, 0)
(* ShareDenied, PeerRejected; a blocked command counts as an anomaly too.  *)
Failure(p) == Record(p, 0, 1, 0)
BlockedCommand(p) == Record(p, 0, 1, 1)
(* AnomalyDetected.                                                        *)
Anomaly(p) == Record(p, 0, 2, 1)
(* BridgeAccessed, RatingThresholdCrossed: only the event is counted.      *)
Other(p) == Record(p, 0, 0, 0)

(* Mutant: the counters are not loaded.                                    *)
LoadRules == events' = saved.events /\ rules' = saved.rules
             /\ trust_map' = [p \in Peers |-> NoTrust]
Load == events' = saved.events /\ rules' = saved.rules /\ trust_map' = saved.trust_map

(* new: load_state, and a save of the same, after which the file gives what *)
(* it gave or nothing.                                                     *)
TrustRestart ==
    /\ Load
    /\ Save(saved)

TrustNext ==
    \/ TrustRestart
    \/ \E p \in Peers :
        Success(p) \/ Failure(p) \/ BlockedCommand(p) \/ Anomaly(p) \/ Other(p)

TrustSpec == TrustInit /\ [][TrustNext]_trustVars

-----------------------------------------------------------------------------
(* No peer is both trusted for its successes and blocked for its failures: *)
(* the rules stay while the counters they came from go on, and both are    *)
(* restored together (learn, load_state).  And no peer earns trust while a *)
(* rule against it stands, one for anomalies included.  The reverse is not *)
(* so: a peer with a rule of trust that causes anomalies later is given    *)
(* anomaly-block as well, and both rules are marked to be applied.         *)
RulesAgree == \A p \in Peers :
    /\ ~({Rule("auto-trust", p), Rule("block", p)} \subseteq rules)
    /\ Rule("auto-trust", p) \in Learned(trust_map)
        => {Rule("block", p), Rule("anomaly-block", p)} \cap rules = {}

(* Another failure never makes a peer that was blocked acceptable, at any  *)
(* risk, nor one that was not trusted trusted (recalc_trust, should_block). *)
FailureNeverHelps == \A p \in Peers : \A n \in 1..2 :
    LET t == trust_map[p]
        worse == [t EXCEPT !.failed = @ + n]
    IN  /\ should_auto_approve(worse) => should_auto_approve(t)
        /\ \A risk \in {0, 4, 6} : should_block(t, risk) => should_block(worse, risk)
=============================================================================
