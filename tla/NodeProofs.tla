----------------------------- MODULE NodeProofs -----------------------------
(***************************************************************************)
(* What the run of MCNode shows of the services on small instances, proved *)
(* for any constants.  The services share no state, so each part has its   *)
(* own invariant, over its own variables, that the steps of its module     *)
(* keep and the steps of the other parts do not touch.                     *)
(***************************************************************************)
EXTENDS MCNode, FiniteSetTheorems, SequenceTheorems, TLAPS

-----------------------------------------------------------------------------
(* A step of the node is for each part one of its own steps, or none.      *)

LEMMA PartSteps ==
    ASSUME [NodeNext]_NodeVars
    PROVE  /\ [TrustNext]_trustVars
           /\ [C!CargoNext]_cVars /\ [H!ApiNext]_hVars /\ [L!ListNext]_lVars
           /\ [A!ChatNext]_aVars /\ [G!GroupNext]_gVars /\ [M!MediaNext]_mVars
           /\ [S!SkillNext]_sVars /\ [P!StoreNext]_pVars /\ [W!A2aNext]_wVars
           /\ [Q!QueueNext]_qVars /\ [R!RatingNext]_rVars /\ [D!DeployNext]_dVars
           /\ [F!ConfigNext]_fVars /\ [J!JournalNext]_jVars /\ [X!AccessNext]_xVars
<1>1. CASE NodeNext
  BY <1>1 DEF NodeNext, Still, Rest
<1>2. CASE UNCHANGED NodeVars
  BY <1>2 DEF NodeVars
<1> QED
  BY <1>1, <1>2

LEMMA SpecParts == NodeSpec => NodeInit /\ [][NodeNext]_NodeVars
  BY DEF NodeSpec

-----------------------------------------------------------------------------
(* The studio.                                                             *)

AtRate(s, f, k) == s.fps = f /\ s.kbps = k
VideoStream == [priority : M!Priorities, enabled : BOOLEAN, fps : Nat, kbps : Nat]

(* The rates that halving passes through, and where it stops.              *)
Watchable(s) ==
    /\ AtRate(s, 30, 10000) \/ AtRate(s, 15, 5000) \/ AtRate(s, 7, 2500) \/ AtRate(s, 3, 1250)
    /\ s.priority # "Low" => s.enabled

MediaInv == control \in Seq(VideoStream) /\ \A i \in DOMAIN control : Watchable(control[i])

LEMMA MediaStart == M!MediaInit => MediaInv
  BY DEF M!MediaInit, MediaInv

LEMMA ThrottledIsWatchable ==
    ASSUME NEW s \in VideoStream, Watchable(s)
    PROVE  M!Throttled(s) \in VideoStream /\ Watchable(M!Throttled(s))
<1> DEFINE half == [s EXCEPT !.fps = @ \div 2, !.kbps = @ \div 2]
           off  == [s EXCEPT !.enabled = FALSE]
<1>1. M!Throttled(s) = IF ~s.enabled THEN s ELSE IF s.priority = "Low" THEN off
                       ELSE IF s.fps > 5 THEN half ELSE s
  BY DEF M!Throttled, M!Spare
<1>2. s.priority = "Low" => off \in VideoStream /\ Watchable(off)
  <2>1. off \in VideoStream
    BY DEF VideoStream
  <2>2. off.fps = s.fps /\ off.kbps = s.kbps /\ off.priority = s.priority
    BY DEF VideoStream
  <2> QED
    BY <2>1, <2>2 DEF Watchable, AtRate
<1>3. ASSUME s.fps > 5 PROVE half \in VideoStream /\ Watchable(half)
  <2>0. s.fps \in Nat /\ s.kbps \in Nat /\ s.fps \div 2 \in Nat /\ s.kbps \div 2 \in Nat
    BY DEF VideoStream
  <2>1. half \in VideoStream
    <3>1. PICK f, k \in Nat : f = s.fps \div 2 /\ k = s.kbps \div 2
      BY <2>0
    <3>2. half = [s EXCEPT !.fps = f, !.kbps = k]
      BY <3>1
    <3> HIDE DEF half
    <3> QED
      BY <3>2 DEF VideoStream
  <2>2. half.fps = s.fps \div 2 /\ half.kbps = s.kbps \div 2
        /\ half.priority = s.priority /\ half.enabled = s.enabled
    BY DEF VideoStream
  <2>3. AtRate(half, 15, 5000) \/ AtRate(half, 7, 2500) \/ AtRate(half, 3, 1250)
    BY <1>3, <2>2 DEF Watchable, AtRate
  <2> QED
    BY <2>1, <2>2, <2>3 DEF Watchable
<1> HIDE DEF half, off
<1> QED
  BY <1>1, <1>2, <1>3

LEMMA MediaStep == MediaInv /\ [M!MediaNext]_mVars => MediaInv'
<1> SUFFICES ASSUME MediaInv, [M!MediaNext]_mVars PROVE MediaInv'
  OBVIOUS
<1>0. control \in Seq(VideoStream) /\ \A i \in DOMAIN control : Watchable(control[i])
  BY DEF MediaInv
<1>1. UNCHANGED control => MediaInv'
  BY <1>0 DEF MediaInv
<1>2. CASE M!throttle_if_needed
  <2>1. control' = [i \in DOMAIN control |-> M!Throttled(control[i])]
    BY <1>2 DEF M!throttle_if_needed
  <2>2. \A i \in DOMAIN control : control[i] \in VideoStream
    BY <1>0
  <2>3. \A i \in DOMAIN control : M!Throttled(control[i]) \in VideoStream /\ Watchable(M!Throttled(control[i]))
    BY <1>0, <2>2, ThrottledIsWatchable
  <2>4. DOMAIN control = 1..Len(control) /\ Len(control) \in Nat
    BY <1>0
  <2>5. control' \in Seq(VideoStream)
    BY <2>1, <2>3, <2>4
  <2> QED
    BY <2>1, <2>3, <2>4, <2>5 DEF MediaInv
<1>3. ASSUME NEW p \in M!Priorities, M!register_stream(p) PROVE MediaInv'
  <2> DEFINE new == [priority |-> p, enabled |-> TRUE, fps |-> 30, kbps |-> 10000]
  <2>1. new \in VideoStream /\ Watchable(new)
    BY DEF VideoStream, Watchable, AtRate
  <2>2. control' = Append(control, new)
    BY <1>3 DEF M!register_stream
  <2> HIDE DEF new
  <2> QED
    BY <1>0, <2>1, <2>2 DEF MediaInv
<1>4. CASE M!process_finding
  BY <1>1, <1>4 DEF M!process_finding, M!RtmpStream, M!studioVars
<1>5. ASSUME NEW d \in Devices, NEW s \in M!Systems, M!register_device(d, s) PROVE MediaInv'
  BY <1>1, <1>5 DEF M!register_device, M!studioVars
<1>6. ASSUME NEW scene \in Scenes \cup {"default"}, M!Call(scene) PROVE MediaInv'
  BY <1>1, <1>6 DEF M!Call, M!studioVars
<1>7. ASSUME NEW on \in BOOLEAN, M!Stream(on) PROVE MediaInv'
  BY <1>1, <1>7 DEF M!Stream
<1>8. CASE M!add_camera \/ M!switch_source("camera") \/ M!add_source("camera")
  BY <1>1, <1>8 DEF M!add_camera, M!switch_source, M!add_source
<1>9. ASSUME NEW o \in M!Outputs, M!route("camera", o) \/ M!disconnect(o) PROVE MediaInv'
  BY <1>1, <1>9 DEF M!route, M!disconnect
<1>10. CASE UNCHANGED mVars
  BY <1>1, <1>10 DEF mVars
<1> QED
  BY <1>2, <1>3, <1>4, <1>5, <1>6, <1>7, <1>8, <1>9, <1>10 DEF M!MediaNext

(* Throttling has a floor, for any devices and scenes.                     *)
THEOREM StudioHoldsAlways == NodeSpec => []StudioHolds
<1>1. NodeInit => MediaInv
  BY MediaStart DEF NodeInit
<1>2. MediaInv /\ [NodeNext]_NodeVars => MediaInv'
  BY PartSteps, MediaStep
<1>3. MediaInv => StudioHolds
  <2>1. 10000 \div 8 = 1250
    OBVIOUS
  <2>2. \A s : Watchable(s) /\ s.priority # "Low" => s.enabled /\ s.fps >= 3 /\ s.kbps >= 1250
    BY DEF Watchable, AtRate
  <2> QED
    BY <2>1, <2>2 DEF MediaInv, StudioHolds, M!StreamFloor
<1> QED
  BY <1>1, <1>2, <1>3, SpecParts, PTL

-----------------------------------------------------------------------------
(* Agent messages.                                                         *)

(* A muted sender has a rule for everybody, in memory and in the file.     *)
ChatInv ==
    /\ blocked \in [Senders -> SUBSET A!Targets]
    /\ aclFile.blocked \in [Senders -> SUBSET A!Targets]
    /\ muted \subseteq Senders /\ mutedOnDisk \subseteq Senders
    /\ \A s \in muted : All \in blocked[s]
    /\ \A s \in mutedOnDisk : All \in aclFile.blocked[s]

LEMMA NoFileMutes == A!NoFile.blocked = [s \in Senders |-> {}]
  BY DEF A!NoFile, A!NoRules

(* Whatever comes of a write, file and mutes of the file agree after it if *)
(* they agreed before it and the memory does.                              *)
LEMMA SaveKeeps ==
    ASSUME ChatInv, A!Save,
           blocked' \in [Senders -> SUBSET A!Targets], muted' \subseteq Senders,
           \A s \in muted' : All \in blocked'[s]
    PROVE  ChatInv'
<1>1. CASE aclFile' = [allowed |-> allowed', blocked |-> blocked'] /\ mutedOnDisk' = muted'
  BY <1>1 DEF ChatInv
<1>2. CASE UNCHANGED <<aclFile, mutedOnDisk>>
  BY <1>2 DEF ChatInv
<1>3. CASE aclFile' = A!NoFile /\ mutedOnDisk' = {}
  BY <1>3, NoFileMutes DEF ChatInv
<1> QED
  BY <1>1, <1>2, <1>3 DEF A!Save

LEMMA ChatStep == ChatInv /\ [A!ChatNext]_aVars => ChatInv'
<1> SUFFICES ASSUME ChatInv, [A!ChatNext]_aVars PROVE ChatInv'
  OBVIOUS
<1>0. /\ blocked \in [Senders -> SUBSET A!Targets] /\ muted \subseteq Senders
      /\ \A s \in muted : All \in blocked[s]
  BY DEF ChatInv
<1>1. ASSUME NEW s \in Senders, NEW t \in A!Targets, A!allow(s, t) \/ A!block(s, t)
      PROVE  ChatInv'
  BY <1>0, <1>1, SaveKeeps DEF A!allow, A!block
<1>2. ASSUME NEW s \in Senders, A!block_all(s) \/ A!reset(s) PROVE ChatInv'
  BY <1>0, <1>2, SaveKeeps DEF A!block_all, A!reset, A!Targets
<1>3. CASE A!Reload
  BY <1>3 DEF A!Reload, ChatInv
<1>4. ASSUME NEW s \in Agents, NEW t \in A!Targets, A!Send(s, t) PROVE ChatInv'
  BY <1>4 DEF A!Send, ChatInv
<1>5. CASE UNCHANGED aVars
  BY <1>5 DEF aVars, ChatInv
<1> QED
  BY <1>1, <1>2, <1>3, <1>4, <1>5 DEF A!ChatNext

(* A mute holds over every later rule, and one that reached the file over  *)
(* every later process, for any agents and senders and failing writes.     *)
THEOREM MessagesHoldAlways == NodeSpec => []MessagesHold
<1>1. NodeInit => ChatInv
  BY NoFileMutes DEF NodeInit, A!ChatInit, A!NoRules, ChatInv
<1>2. ChatInv /\ [NodeNext]_NodeVars => ChatInv'
  BY PartSteps, ChatStep
<1>3. ChatInv => MessagesHold
  BY DEF ChatInv, MessagesHold, A!MuteHolds, A!can_send, A!Decide
<1> QED
  BY <1>1, <1>2, <1>3, SpecParts, PTL

-----------------------------------------------------------------------------
(* The rate of the A2A bridge.                                             *)

TaskPcs == {"idle", "window", "set", "clear", "count", "peer", "accepted"}

(* The tasks that will still clear the count of this window: those about   *)
(* to, and those about to set the same window once more.                   *)
Clearing == {t \in Tasks : \/ task[t].at = "clear"
                           \/ task[t].at = "set" /\ task[t].now + WindowLength = rate_window}

(* What passes if nobody clears the count any more.                        *)
Left(count) == IF count < RateLimit THEN RateLimit - count ELSE 0

A2aTypes ==
    /\ now \in Nat /\ rate_window \in Nat /\ rate_limit \in Nat /\ served \in Nat
    /\ task \in [Tasks -> [at : TaskPcs, now : Nat]]

(* Each clearing task is worth one RateLimit; the rest of the current      *)
(* count is worth something only while some task does not clear.           *)
Budget ==
    served + RateLimit * Cardinality(Clearing)
        + (IF Clearing = Tasks THEN 0 ELSE Left(rate_limit))
      <= RateLimit * Cardinality(Tasks)

A2aInv == A2aTypes /\ Budget

LEMMA ClearingCount ==
    /\ IsFiniteSet(Clearing) /\ Cardinality(Clearing) \in Nat /\ Cardinality(Tasks) \in Nat
    /\ Cardinality(Clearing) <= Cardinality(Tasks)
    /\ Clearing # Tasks => Cardinality(Clearing) + 1 <= Cardinality(Tasks)
<1>1. Clearing \subseteq Tasks
  BY DEF Clearing
<1>2. /\ IsFiniteSet(Clearing) /\ Cardinality(Clearing) <= Cardinality(Tasks)
      /\ Cardinality(Clearing) = Cardinality(Tasks) => Clearing = Tasks
  BY <1>1, NodeAssumption, FS_Subset
<1>3. Cardinality(Clearing) \in Nat /\ Cardinality(Tasks) \in Nat
  BY <1>2, NodeAssumption, FS_CardinalityType
<1> QED
  BY <1>2, <1>3

(* Whoever clears next, the tasks that clear and the rest fit the bound.   *)
LEMMA FreshBudget ==
    ASSUME NEW n \in Nat, NEW m \in Nat, NEW l \in 0..RateLimit,
           n <= m, l > 0 => n + 1 <= m
    PROVE  RateLimit * n + l <= RateLimit * m
<1> USE NodeAssumption
<1>1. CASE l > 0
  <2>1. RateLimit * (n + 1) <= RateLimit * m
    BY <1>1
  <2>2. RateLimit * (n + 1) = RateLimit * n + RateLimit
    OBVIOUS
  <2> QED
    BY <2>1, <2>2
<1>2. CASE l = 0
  BY <1>2
<1> QED
  BY <1>1, <1>2

(* A request that passes takes of the rest what it adds to the served.     *)
LEMMA Spend ==
    ASSUME NEW p \in Nat, NEW q \in Nat, NEW a \in Nat, NEW c \in Nat, NEW d \in Nat,
           NEW b \in Nat, q + d = p + c, p + a + c <= b
    PROVE  q + a + d <= b
  OBVIOUS

LEMMA A2aStart == W!A2aInit => A2aInv
<1> SUFFICES ASSUME W!A2aInit PROVE A2aInv
  OBVIOUS
<1>1. A2aTypes
  BY DEF W!A2aInit, A2aTypes, TaskPcs
<1>2. Clearing = {} /\ Cardinality(Clearing) = 0
  BY FS_EmptySet DEF W!A2aInit, Clearing
<1>3. Budget
  <2> DEFINE l == IF Clearing = Tasks THEN 0 ELSE Left(rate_limit)
             m == Cardinality(Tasks)
  <2>1. m \in Nat /\ (Clearing # Tasks => 1 <= m)
    BY <1>2, ClearingCount
  <2>2. l \in 0..RateLimit /\ (l > 0 => Clearing # Tasks)
    BY NodeAssumption DEF W!A2aInit, Left
  <2>3. served = 0
    BY DEF W!A2aInit
  <2> HIDE DEF m, l
  <2>4. RateLimit * 0 + l <= RateLimit * m
    BY <2>1, <2>2, FreshBudget
  <2>5. RateLimit * 0 = 0 /\ 0 + RateLimit * 0 + l = RateLimit * 0 + l
    BY <2>2, NodeAssumption
  <2> QED
    BY <1>2, <2>3, <2>4, <2>5 DEF Budget, m, l
<1> QED
  BY <1>1, <1>3 DEF A2aInv

(* A step that moves no task in or out of the clearing ones, and neither   *)
(* the window nor the counts, keeps the budget.                            *)
LEMMA BudgetStays ==
    ASSUME Budget, UNCHANGED <<rate_limit, served>>, Clearing' = Clearing
    PROVE  Budget'
  BY DEF Budget, Left

LEMMA A2aStep == A2aInv /\ [W!A2aNext]_wVars => A2aInv'
<1> SUFFICES ASSUME A2aTypes, Budget, [W!A2aNext]_wVars PROVE A2aTypes' /\ Budget'
  BY DEF A2aInv
<1> USE NodeAssumption
<1> DEFINE m == Cardinality(Tasks)
           n == Cardinality(Clearing)
<1>0. /\ now \in Nat /\ rate_window \in Nat /\ rate_limit \in Nat /\ served \in Nat
      /\ task \in [Tasks -> [at : TaskPcs, now : Nat]]
      /\ n \in Nat /\ m \in Nat /\ n <= m /\ (Clearing # Tasks => n + 1 <= m)
  BY ClearingCount DEF A2aTypes
<1>1. ASSUME NEW t \in Tasks, NEW s \in TaskPcs, W!Go(t, s)
      PROVE  /\ task' \in [Tasks -> [at : TaskPcs, now : Nat]]
             /\ task'[t].at = s /\ \A u \in Tasks : task'[u].now = task[u].now
             /\ \A u \in Tasks \ {t} : task'[u] = task[u]
  BY <1>0, <1>1 DEF W!Go
<1>2. CASE W!Tick \/ W!ChangePeers
  <2>1. UNCHANGED <<rate_window, rate_limit, served, task>> /\ now' \in Nat
    BY <1>0, <1>2 DEF W!Tick, W!ChangePeers, W!rateVars
  <2>2. Clearing' = Clearing
    BY <2>1 DEF Clearing
  <2> QED
    BY <2>1, <2>2, BudgetStays DEF A2aTypes
<1>3. ASSUME NEW t \in Tasks, W!Receive(t) PROVE A2aTypes' /\ Budget'
  <2>1. /\ task' = [task EXCEPT ![t] = [at |-> "window", now |-> now]]
        /\ task[t].at = "idle" /\ UNCHANGED <<now, rate_window, rate_limit, served>>
    BY <1>3 DEF W!Receive, W!At, W!rateVars
  <2>2. task' \in [Tasks -> [at : TaskPcs, now : Nat]]
    BY <1>0, <2>1 DEF TaskPcs
  <2>3. Clearing' = Clearing
    BY <1>0, <2>1 DEF Clearing
  <2> QED
    BY <2>1, <2>2, <2>3, BudgetStays DEF A2aTypes
<1>4. ASSUME NEW t \in Tasks, W!CheckPeer(t) \/ W!Respond(t) PROVE A2aTypes' /\ Budget'
  <2>1. PICK s \in {"accepted", "idle"} : W!Go(t, s)
    BY <1>4 DEF W!CheckPeer, W!Respond
  <2>2. task[t].at \in {"peer", "accepted"} /\ UNCHANGED <<now, rate_window, rate_limit, served>>
    BY <1>4 DEF W!CheckPeer, W!Respond, W!At, W!rateVars
  <2>3. s \in TaskPcs
    BY <2>1 DEF TaskPcs
  <2>4. Clearing' = Clearing
    BY <2>1, <2>2, <2>3, <1>1 DEF Clearing
  <2> QED
    BY <2>1, <2>2, <2>3, <2>4, <1>0, <1>1, BudgetStays DEF A2aTypes
<1>5. ASSUME NEW t \in Tasks, W!LoadWindow(t) PROVE A2aTypes' /\ Budget'
  <2>1. PICK s \in {"set", "count"} : W!Go(t, s) /\ (s = "set" => task[t].now > rate_window)
    BY <1>5 DEF W!LoadWindow
  <2>2. task[t].at = "window" /\ UNCHANGED <<now, rate_window, rate_limit, served>>
    BY <1>5 DEF W!LoadWindow, W!At, W!rateVars
  <2>3. s \in TaskPcs /\ task[t].now \in Nat
    BY <2>1, <1>0 DEF TaskPcs
  <2>4. Clearing' = Clearing
    <3>1. s = "set" => task[t].now + WindowLength # rate_window
      BY <2>1, <2>3, <1>0
    <3> QED
      BY <2>1, <2>2, <2>3, <1>1, <3>1 DEF Clearing
  <2> QED
    BY <2>1, <2>2, <2>3, <2>4, <1>0, <1>1, BudgetStays DEF A2aTypes
<1>6. ASSUME NEW t \in Tasks, W!StoreWindow(t) PROVE A2aTypes' /\ Budget'
  <2>1. /\ task[t].at = "set" /\ rate_window' = task[t].now + WindowLength
        /\ served' = IF rate_window' = rate_window THEN served ELSE 0
        /\ W!Go(t, "clear") /\ UNCHANGED <<now, rate_limit>> /\ "clear" \in TaskPcs
    BY <1>6 DEF W!StoreWindow, W!At, TaskPcs
  <2>2. A2aTypes'
    BY <1>0, <1>1, <2>1 DEF A2aTypes
  <2>3. CASE rate_window' = rate_window
    <3>1. Clearing' = Clearing
      BY <1>1, <2>1, <2>3 DEF Clearing
    <3> QED
      BY <2>1, <2>2, <2>3, <3>1, BudgetStays
  <2>4. CASE rate_window' # rate_window
    <3> DEFINE k == Cardinality(Clearing')
               l == IF Clearing' = Tasks THEN 0 ELSE Left(rate_limit')
    <3>1. k \in Nat /\ k <= m /\ (Clearing' # Tasks => k + 1 <= m)
      <4>1. Clearing' \subseteq Tasks
        BY DEF Clearing
      <4>2. /\ IsFiniteSet(Clearing') /\ k <= m /\ (k = m => Clearing' = Tasks)
        BY <4>1, FS_Subset
      <4>3. k \in Nat
        BY <4>2, FS_CardinalityType
      <4> HIDE DEF k, m
      <4> QED
        BY <4>2, <4>3, <1>0
    <3>2. l \in 0..RateLimit /\ (l > 0 => Clearing' # Tasks)
      BY <1>0, <2>1 DEF Left
    <3>3. served' = 0
      BY <2>1, <2>4
    <3> HIDE DEF k, l, m
    <3>4. RateLimit * k + l <= RateLimit * m
      BY <1>0, <3>1, <3>2, FreshBudget
    <3>5. 0 + RateLimit * k + l = RateLimit * k + l
      BY <3>1, <3>2
    <3>6. served' + RateLimit * k + l <= RateLimit * m
      BY <3>3, <3>4, <3>5
    <3> QED
      BY <2>2, <3>6 DEF Budget, k, l, m
  <2> QED
    BY <2>3, <2>4
<1>7. ASSUME NEW t \in Tasks, W!StoreLimit(t) PROVE A2aTypes' /\ Budget'
  <2>1. /\ task[t].at = "clear" /\ rate_limit' = 0 /\ W!Go(t, "count")
        /\ UNCHANGED <<now, rate_window, served>> /\ "count" \in TaskPcs
    BY <1>7 DEF W!StoreLimit, W!At, TaskPcs
  <2>2. A2aTypes'
    BY <1>0, <1>1, <2>1 DEF A2aTypes
  <2>3. t \in Clearing /\ Clearing' = Clearing \ {t}
    <3>1. \A u \in Tasks : u \in Clearing' <=> u \in Clearing \ {t}
      BY <1>1, <2>1 DEF Clearing
    <3>2. t \in Clearing
      BY <2>1 DEF Clearing
    <3>3. Clearing' \subseteq Tasks /\ Clearing \subseteq Tasks
      BY DEF Clearing
    <3> QED
      BY <3>1, <3>2, <3>3
  <2>4. Cardinality(Clearing') = n - 1 /\ Clearing' # Tasks
    BY <2>3, ClearingCount, FS_RemoveElement
  <2>5. Left(rate_limit') = RateLimit
    BY <2>1 DEF Left
  <2>6. served + RateLimit * n <= RateLimit * m
    <3> DEFINE l == IF Clearing = Tasks THEN 0 ELSE Left(rate_limit)
    <3>1. l \in Nat
      BY <1>0 DEF Left
    <3>2. RateLimit * n \in Nat /\ RateLimit * m \in Nat
      BY <1>0
    <3>3. served + RateLimit * n + l <= RateLimit * m
      BY DEF Budget
    <3> HIDE DEF l, n, m
    <3> QED
      BY <1>0, <3>1, <3>2, <3>3
  <2>7. served + RateLimit * (n - 1) + RateLimit = served + RateLimit * n
    BY <1>0
  <2> QED
    BY <2>1, <2>2, <2>4, <2>5, <2>6, <2>7 DEF Budget
<1>8. ASSUME NEW t \in Tasks, W!Count(t) PROVE A2aTypes' /\ Budget'
  <2>1. /\ task[t].at = "count" /\ UNCHANGED <<now, rate_window>>
        /\ rate_limit' = IF rate_limit > RateLimit THEN rate_limit ELSE rate_limit + 1
        /\ served' = IF rate_limit < RateLimit THEN served + 1 ELSE served
    BY <1>8 DEF W!Count, W!At, W!Within
  <2>2. PICK s \in {"peer", "idle"} : W!Go(t, s)
    BY <1>8 DEF W!Count
  <2>3. s \in TaskPcs
    BY <2>2 DEF TaskPcs
  <2>4. A2aTypes'
    BY <1>0, <1>1, <2>1, <2>2, <2>3 DEF A2aTypes
  <2>5. Clearing' = Clearing /\ Clearing # Tasks
    BY <1>1, <2>1, <2>2, <2>3 DEF Clearing
  <2>6. served' + Left(rate_limit') = served + Left(rate_limit)
    BY <1>0, <2>1 DEF Left
  <2>7. served + RateLimit * n + Left(rate_limit) <= RateLimit * m
    BY <2>5 DEF Budget
  <2>8. Left(rate_limit) \in Nat /\ Left(rate_limit') \in Nat /\ served' \in Nat /\ RateLimit * n \in Nat
    BY <1>0, <2>1 DEF Left
  <2>9. served' + RateLimit * n + Left(rate_limit') <= RateLimit * m
    <3> HIDE DEF n, m
    <3> DEFINE a == RateLimit * n
               b == RateLimit * m
               c == Left(rate_limit)
               d == Left(rate_limit')
    <3>1. b \in Nat
      BY <1>0
    <3>2. a \in Nat /\ c \in Nat /\ d \in Nat /\ served' + d = served + c /\ served + a + c <= b
      BY <2>6, <2>7, <2>8
    <3> HIDE DEF a, b, c, d
    <3>3. served \in Nat /\ served' \in Nat
      BY <1>0, <2>8
    <3>4. served' + a + d <= b
      BY ONLY <3>1, <3>2, <3>3, Spend
    <3> QED
      BY <3>4 DEF a, b, d
  <2> QED
    BY <2>4, <2>5, <2>9 DEF Budget
<1>9. CASE UNCHANGED wVars
  <2>1. UNCHANGED <<now, rate_window, rate_limit, served, task>>
    BY <1>9 DEF wVars
  <2>2. Clearing' = Clearing
    BY <2>1 DEF Clearing
  <2> QED
    BY <2>1, <2>2, BudgetStays DEF A2aTypes
<1> QED
  BY <1>2, <1>3, <1>4, <1>5, <1>6, <1>7, <1>8, <1>9 DEF W!A2aNext

(* However many tasks race for the window, between two settings of it no   *)
(* more than RateLimit requests per task pass.                             *)
THEOREM ServedBoundHolds == NodeSpec => []ServedBound
<1>1. NodeInit => A2aInv
  BY A2aStart DEF NodeInit
<1>2. A2aInv /\ [NodeNext]_NodeVars => A2aInv'
  BY PartSteps, A2aStep
<1>3. A2aInv => ServedBound
  <2>0. W!Cardinality(Tasks) = Cardinality(Tasks)
    BY DEF W!Cardinality, Cardinality
  <2> SUFFICES ASSUME A2aInv PROVE served <= RateLimit * Cardinality(Tasks)
    BY <2>0 DEF ServedBound, W!ServedBound
  <2> DEFINE a == RateLimit * Cardinality(Clearing)
             l == IF Clearing = Tasks THEN 0 ELSE Left(rate_limit)
             b == RateLimit * Cardinality(Tasks)
  <2>1. a \in Nat /\ l \in Nat /\ b \in Nat /\ served \in Nat
    BY NodeAssumption, ClearingCount DEF A2aInv, A2aTypes, Left
  <2>2. served + a + l <= b
    BY DEF A2aInv, Budget
  <2> HIDE DEF a, l, b
  <2>3. served <= b
    BY <2>1, <2>2
  <2> QED
    BY <2>3 DEF b
<1> QED
  BY <1>1, <1>2, <1>3, SpecParts, PTL
=============================================================================
