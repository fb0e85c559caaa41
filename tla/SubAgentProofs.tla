--------------------------- MODULE SubAgentProofs ---------------------------
(***************************************************************************)
(* What the runs of MCSubAgent show for one or two MCP connections and a   *)
(* cap of one or two agents, proved for any number of connections, any     *)
(* cap, any channel capacity and any of the bounds.                        *)
(*                                                                         *)
(* The cap, the fresh ids and what stands behind a runtime hold whatever   *)
(* fails and whoever interferes.  That a connection or a task chain finds  *)
(* its agent as it left it does not: Undisturbed and OperatorOnly name     *)
(* what has to be left out.                                                *)
(***************************************************************************)
EXTENDS SubAgent, FiniteSetTheorems, SequenceTheorems, TLAPS

ScriptPcs == {"assign", "send", "finding", "complete", "eval", "close"}

(* What a caller's pc says about the rest of its frame: a call that works  *)
(* on an agent has one, a cascade that handles a child has a child left,   *)
(* and only whole manager calls are ever waiting in a script.              *)
Control ==
    \A c \in Callers :
        /\ script[c] \in Seq(ScriptPcs)
        /\ pc[c] \notin {"idle", "open", "open_set"} => ag[c] \in Ids
        /\ pc[c] \in {"open_pget", "open_pset"} => par[c] \in Ids
        /\ pc[c] \in {"cascade_set", "cascade_hset", "cascade_remove"} => kids[c] # <<>>

TypeInv == TypeOK /\ Control

(* The callers are the connections and the operator.                       *)
LEMMA CallersFinite ==
    IsFiniteSet(Callers) /\ Cardinality(Callers) = Cardinality(Conns) + 1
  BY CallersAssumption, FS_AddElement DEF Callers

(* The first element and the rest of a sequence that is not empty.         *)
LEMMA HeadTail ==
    ASSUME NEW S, NEW s \in Seq(S), s # <<>>
    PROVE  Head(s) \in S /\ Tail(s) \in Seq(S)
  BY HeadTailProperties

(* When a manager call returns, the caller is idle or starts the next      *)
(* whole call of its request, and no other caller moves.                   *)
LEMMA ReturnMoves ==
    ASSUME TypeInv, NEW c \in Callers, Return(c)
    PROVE  /\ pc' \in [Callers -> CallPcs] /\ script' \in [Callers -> Seq(CallPcs)]
           /\ pc'[c] \in ScriptPcs \cup {"idle"} /\ script'[c] \in Seq(ScriptPcs)
           /\ \A d \in Callers \ {c} : pc'[d] = pc[d] /\ script'[d] = script[d]
<1>1. /\ pc \in [Callers -> CallPcs] /\ script \in [Callers -> Seq(CallPcs)]
      /\ script[c] \in Seq(ScriptPcs)
  BY DEF TypeInv, TypeOK, Control
<1>2. CASE script[c] = <<>>
  BY <1>1, <1>2 DEF Return, Goto, CallPcs
<1>3. CASE script[c] # <<>>
  <2>1. Head(script[c]) \in ScriptPcs /\ Tail(script[c]) \in Seq(ScriptPcs)
    BY <1>1, <1>3, HeadTail
  <2>2. Tail(script[c]) \in Seq(CallPcs)
    BY <1>1, <1>3, HeadTail
  <2> QED
    BY <1>1, <1>3, <2>1, <2>2 DEF Return, Goto, CallPcs, ScriptPcs
<1> QED
  BY <1>2, <1>3

(* The initial state has its types.                                        *)
LEMMA TypeInit == Init => TypeInv
  BY BoundsAssumption, CallersAssumption
  DEF Init, TypeInv, TypeOK, Control, AgentState, Status, Absent, CallPcs, Ids, NoId

(* The values of the hash agents:active and the control points of tasks.   *)
Marks == {"none", "open", "completed", "closed", "cancelled"}
TaskPcs == {"none", "idle", "get", "set", "done"}

(* The empty script and the empty list of children.                        *)
LEMMA EmptyScript == <<>> \in Seq(CallPcs) /\ <<>> \in Seq(ScriptPcs) /\ <<>> \in Seq(Ids)
OBVIOUS

(* The updates the manager makes to a stored state give a state.           *)
LEMMA StateUpdates ==
    ASSUME NEW s \in AgentState
    PROVE  /\ [s EXCEPT !.steps = @ + 1] \in AgentState
           /\ [s EXCEPT !.status = "Running", !.steps = @ + 1] \in AgentState
           /\ [s EXCEPT !.status = "Completed"] \in AgentState
           /\ [s EXCEPT !.status = "Cancelled"] \in AgentState
           /\ \A i \in Ids : [s EXCEPT !.children = Append(@, i)] \in AgentState
<1>1. ASSUME NEW i \in Ids PROVE [s EXCEPT !.children = Append(@, i)] \in AgentState
  <2>1. Append(s.children, i) \in Seq(Ids)
    BY AppendProperties DEF AgentState
  <2> QED
    BY <2>1 DEF AgentState
<1>2. \A t \in AgentState : [t EXCEPT !.steps = @ + 1] \in AgentState
  BY DEF AgentState
<1>3. [s EXCEPT !.status = "Running"] \in AgentState
  BY DEF AgentState, Status
<1>4. [s EXCEPT !.status = "Running", !.steps = @ + 1]
        = [[s EXCEPT !.status = "Running"] EXCEPT !.steps = @ + 1]
  OBVIOUS
<1>5. [s EXCEPT !.status = "Completed"] \in AgentState
  BY DEF AgentState, Status
<1>6. [s EXCEPT !.status = "Cancelled"] \in AgentState
  BY DEF AgentState, Status
<1> QED
  BY <1>1, <1>2, <1>3, <1>4, <1>5, <1>6

(* The stand-ins for a key that is not stored are states.                  *)
LEMMA AbsentState == Absent \in AgentState /\ Expired \in AgentState
  BY EmptyScript DEF Absent, Expired, AgentState, Status, NoId

(* Caller c goes to one of the control points of S, keeping a proper       *)
(* script; no other caller moves.                                          *)
MovesTo(c, S) ==
    /\ pc' \in [Callers -> CallPcs] /\ script' \in [Callers -> Seq(CallPcs)]
    /\ pc'[c] \in S /\ script'[c] \in Seq(ScriptPcs)
    /\ \A d \in Callers \ {c} : pc'[d] = pc[d] /\ script'[d] = script[d]

(* Every step keeps the types and the control invariant. One step per      *)
(* action; under it, what the action leaves alone, where the caller goes,  *)
(* the variables it writes and the control invariant.                      *)
LEMMA TypeStep ==
  ASSUME TypeInv, [Next]_vars PROVE TypeInv'
<1>types. TypeOK
  BY DEF TypeInv
<1>ctl. Control
  BY DEF TypeInv
<1>store. kv \in [Ids -> AgentState] /\ active \in [Ids -> Marks] /\ nextId \in 1..(MaxId + 1)
  BY DEF TypeInv, TypeOK, Marks
<1>table. /\ runtimes \subseteq Ids /\ cancelled \subseteq Ids
          /\ lock \in Callers \cup {NoId}
  BY DEF TypeInv, TypeOK
<1>task. /\ inbox \in [Ids -> 0..ChanCap] /\ tpc \in [Ids -> TaskPcs] /\ tbuf \in [Ids -> AgentState]
  BY DEF TypeInv, TypeOK, TaskPcs
<1>call. /\ buf \in [Callers -> AgentState]
         /\ ag \in [Callers -> Ids \cup {NoId}] /\ par \in [Callers -> Ids \cup {NoId}]
         /\ kids \in [Callers -> Seq(Ids)]
  BY DEF TypeInv, TypeOK
<1>pc. pc \in [Callers -> CallPcs] /\ script \in [Callers -> Seq(CallPcs)]
  BY DEF TypeInv, TypeOK
<1>r. ASSUME NEW c \in Callers, Return(c) PROVE MovesTo(c, ScriptPcs \cup {"idle"})
  BY <1>r, ReturnMoves DEF MovesTo
<1>OpenCheck. ASSUME NEW c \in Callers, OpenCheck(c) PROVE TypeInv'
  <2>1. UNCHANGED <<kv, active, nextId, runtimes, lock, cancelled, inbox, tpc,
        tbuf, buf, ag, par, kids, reqs, restarts>>
    BY <1>OpenCheck DEF OpenCheck, store, table, tasks
  <2>2. MovesTo(c, {"idle", "open_set"})
    BY <1>OpenCheck, <1>pc, EmptyScript, <1>ctl DEF OpenCheck, MovesTo,
      CallPcs, ScriptPcs, Goto, Control
  <2>3. Control'
    BY <1>OpenCheck, <1>ctl, <2>1, <2>2 DEF OpenCheck, Control,
      MovesTo, ScriptPcs
  <2> QED
    BY <1>types, <2>1, <2>2, <2>3 DEF TypeInv, TypeOK, MovesTo, Marks,
      TaskPcs
<1>OpenSet. ASSUME NEW c \in Callers, OpenSet(c) PROVE TypeInv'
  <2>1. UNCHANGED <<active, runtimes, lock, cancelled, inbox, tpc, tbuf, buf,
        par, kids, reqs, restarts>>
    BY <1>OpenSet DEF OpenSet, table, tasks, count
  <2>2. MovesTo(c, {"idle", "open_hset"})
    BY <1>OpenSet, <1>pc, EmptyScript, <1>ctl DEF OpenSet, MovesTo, CallPcs,
      ScriptPcs, Goto, Control
  <2>3. kv' \in [Ids -> AgentState]
    <3>1. [status |-> "Running", steps |-> 0, parent |-> par[c], children |-> <<>>] \in AgentState
      BY <1>call, EmptyScript DEF AgentState, Status
    <3> QED
      BY <1>OpenSet, <1>store, <3>1 DEF OpenSet
  <2>4. /\ nextId' \in 1..(MaxId + 1) /\ ag' \in [Callers -> Ids \cup {NoId}]
        /\ pc'[c] = "open_hset" => ag'[c] \in Ids
        /\ \A d \in Callers \ {c} : ag'[d] = ag[d]
    <3>1. nextId \in Ids /\ nextId + 1 \in 1..(MaxId + 1)
      BY <1>OpenSet, <1>store, BoundsAssumption DEF OpenSet, Ids
    <3> QED
      BY <1>OpenSet, <1>call, <1>pc, <3>1 DEF OpenSet, Goto
  <2>5. Control'
    BY <1>OpenSet, <1>ctl, <2>1, <2>2, <2>3, <2>4 DEF OpenSet, Control,
      MovesTo, ScriptPcs
  <2> QED
    BY <1>types, <2>1, <2>2, <2>3, <2>4, <2>5 DEF TypeInv, TypeOK, MovesTo,
      Marks, TaskPcs
<1>OpenHset. ASSUME NEW c \in Callers, OpenHset(c) PROVE TypeInv'
  <2>1. UNCHANGED <<kv, nextId, runtimes, lock, cancelled, inbox, tbuf, buf,
        ag, par, kids, reqs, restarts>>
    BY <1>OpenHset DEF OpenHset, table, count
  <2>2. MovesTo(c, {"idle", "open_insert"})
    BY <1>OpenHset, <1>pc, EmptyScript, <1>ctl DEF OpenHset, MovesTo,
      CallPcs, ScriptPcs, Goto, Control
  <2>3. active' \in [Ids -> Marks] /\ tpc' \in [Ids -> TaskPcs]
    BY <1>OpenHset, <1>call, <1>store, <1>task DEF OpenHset, Hset, Marks,
      TaskPcs
  <2>4. Control'
    BY <1>OpenHset, <1>ctl, <2>1, <2>2, <2>3 DEF OpenHset, Control, MovesTo,
      ScriptPcs
  <2> QED
    BY <1>types, <2>1, <2>2, <2>3, <2>4 DEF TypeInv, TypeOK, MovesTo, Marks,
      TaskPcs
<1>OpenInsert. ASSUME NEW c \in Callers, OpenInsert(c) PROVE TypeInv'
  <2>1. UNCHANGED <<kv, active, nextId, lock, cancelled, inbox, tpc, tbuf, buf,
        ag, par, kids, reqs, restarts>>
    BY <1>OpenInsert DEF OpenInsert, store, tasks, count
  <2>2. MovesTo(c, ScriptPcs \cup {"idle"} \cup {"open_pget"})
    BY <1>OpenInsert, <1>pc, EmptyScript, <1>r, <1>ctl DEF OpenInsert,
      MovesTo, CallPcs, ScriptPcs, Goto, Control
  <2>3. runtimes' \subseteq Ids
    BY <1>OpenInsert, <1>call, <1>table, <1>ctl DEF OpenInsert, Control
  <2>4. Control'
    <3>1. pc'[c] = "open_pget" => par[c] \in Ids
      BY <1>OpenInsert, <1>call, <1>pc, <1>r DEF OpenInsert, MovesTo, ScriptPcs
    <3> QED
      BY <1>OpenInsert, <1>ctl, <2>1, <2>2, <3>1 DEF OpenInsert, Control,
        MovesTo, ScriptPcs
  <2> QED
    BY <1>types, <2>1, <2>2, <2>3, <2>4 DEF TypeInv, TypeOK, MovesTo, Marks,
      TaskPcs
<1>OpenParentGet. ASSUME NEW c \in Callers, OpenParentGet(c) PROVE TypeInv'
  <2>1. UNCHANGED <<kv, active, nextId, runtimes, lock, cancelled, inbox, tpc,
        tbuf, ag, par, kids, reqs, restarts>>
    BY <1>OpenParentGet DEF OpenParentGet, store, table, tasks, count
  <2>2. MovesTo(c, ScriptPcs \cup {"idle"} \cup {"open_pset"})
    BY <1>OpenParentGet, <1>pc, EmptyScript, <1>r, <1>ctl DEF OpenParentGet,
      MovesTo, CallPcs, ScriptPcs, Goto, Control
  <2>3. buf' \in [Callers -> AgentState]
    BY <1>OpenParentGet, <1>call, <1>store, <1>ctl DEF OpenParentGet, Control
  <2>4. Control'
    BY <1>OpenParentGet, <1>ctl, <2>1, <2>2, <2>3 DEF OpenParentGet, Control,
      MovesTo, ScriptPcs
  <2> QED
    BY <1>types, <2>1, <2>2, <2>3, <2>4 DEF TypeInv, TypeOK, MovesTo, Marks,
      TaskPcs
<1>OpenParentSet. ASSUME NEW c \in Callers, OpenParentSet(c) PROVE TypeInv'
  <2>1. UNCHANGED <<active, nextId, runtimes, lock, cancelled, inbox, tpc,
        tbuf, buf, ag, par, kids, reqs, restarts>>
    BY <1>OpenParentSet DEF OpenParentSet, table, tasks, count
  <2>2. MovesTo(c, ScriptPcs \cup {"idle"})
    BY <1>OpenParentSet, <1>pc, EmptyScript, <1>r, <1>ctl DEF OpenParentSet,
      MovesTo, CallPcs, ScriptPcs, Control
  <2>3. kv' \in [Ids -> AgentState]
    <3>1. buf[c] \in AgentState /\ ag[c] \in Ids
      BY <1>OpenParentSet, <1>call, <1>ctl DEF OpenParentSet, Control
    <3>2. [buf[c] EXCEPT !.children = Append(@, ag[c])] \in AgentState
      BY <3>1, StateUpdates
    <3> QED
      BY <1>OpenParentSet, <1>store, <3>2 DEF OpenParentSet
  <2>4. Control'
    BY <1>OpenParentSet, <1>ctl, <2>1, <2>2, <2>3 DEF OpenParentSet, Control,
      MovesTo, ScriptPcs
  <2> QED
    BY <1>types, <2>1, <2>2, <2>3, <2>4 DEF TypeInv, TypeOK, MovesTo, Marks,
      TaskPcs
<1>AssignGet. ASSUME NEW c \in Callers, AssignGet(c) PROVE TypeInv'
  <2>1. UNCHANGED <<kv, active, nextId, runtimes, lock, cancelled, inbox, tpc,
        tbuf, ag, par, kids, reqs, restarts>>
    BY <1>AssignGet DEF AssignGet, ReadState, store, table, tasks, count
  <2>2. MovesTo(c, ScriptPcs \cup {"idle"} \cup {"assign_set"})
    BY <1>AssignGet, <1>pc, EmptyScript, <1>r, <1>ctl DEF AssignGet,
      ReadState, MovesTo, CallPcs, ScriptPcs, Goto, Control
  <2>3. buf' \in [Callers -> AgentState]
    BY <1>AssignGet, <1>call, <1>store, <1>ctl DEF AssignGet, ReadState,
      Control
  <2>4. Control'
    BY <1>AssignGet, <1>ctl, <2>1, <2>2, <2>3 DEF AssignGet, ReadState,
      Control, MovesTo, ScriptPcs
  <2> QED
    BY <1>types, <2>1, <2>2, <2>3, <2>4 DEF TypeInv, TypeOK, MovesTo, Marks,
      TaskPcs
<1>AssignSet. ASSUME NEW c \in Callers, AssignSet(c) PROVE TypeInv'
  <2>1. UNCHANGED <<active, nextId, runtimes, lock, cancelled, inbox, tpc,
        tbuf, buf, ag, par, kids, reqs, restarts>>
    BY <1>AssignSet DEF AssignSet, WriteState, table, tasks, count
  <2>2. MovesTo(c, ScriptPcs \cup {"idle"})
    BY <1>AssignSet, <1>pc, EmptyScript, <1>r, <1>ctl DEF AssignSet,
      WriteState, MovesTo, CallPcs, ScriptPcs, Goto, Control
  <2>3. kv' \in [Ids -> AgentState]
    <3>1. [buf[c] EXCEPT !.status = "Running", !.steps = @ + 1] \in AgentState
      BY <1>call, StateUpdates
    <3> QED
      BY <1>AssignSet, <1>store, <3>1 DEF AssignSet, WriteState
  <2>4. Control'
    BY <1>AssignSet, <1>ctl, <2>1, <2>2, <2>3 DEF AssignSet, WriteState,
      Control, MovesTo, ScriptPcs
  <2> QED
    BY <1>types, <2>1, <2>2, <2>3, <2>4 DEF TypeInv, TypeOK, MovesTo, Marks,
      TaskPcs
<1>SendLock. ASSUME NEW c \in Callers, SendLock(c) PROVE TypeInv'
  <2>1. UNCHANGED <<kv, active, nextId, runtimes, cancelled, inbox, tpc, tbuf,
        buf, ag, par, kids, reqs, restarts>>
    BY <1>SendLock DEF SendLock, store, tasks, count
  <2>2. MovesTo(c, ScriptPcs \cup {"idle"} \cup {"send_push"})
    BY <1>SendLock, <1>pc, EmptyScript, <1>r, <1>ctl DEF SendLock, MovesTo,
      CallPcs, ScriptPcs, Goto, Control
  <2>3. lock' \in Callers \cup {NoId}
    BY <1>SendLock, <1>call, <1>table DEF SendLock
  <2>4. Control'
    BY <1>SendLock, <1>ctl, <2>1, <2>2, <2>3 DEF SendLock, Control, MovesTo,
      ScriptPcs
  <2> QED
    BY <1>types, <2>1, <2>2, <2>3, <2>4 DEF TypeInv, TypeOK, MovesTo, Marks,
      TaskPcs
<1>SendPush. ASSUME NEW c \in Callers, SendPush(c) PROVE TypeInv'
  <2>1. UNCHANGED <<kv, active, nextId, runtimes, cancelled, tpc, tbuf, buf,
        ag, par, kids, reqs, restarts>>
    BY <1>SendPush DEF SendPush, store, count
  <2>2. MovesTo(c, ScriptPcs \cup {"idle"})
    BY <1>SendPush, <1>pc, EmptyScript, <1>r, <1>ctl DEF SendPush, MovesTo,
      CallPcs, ScriptPcs, Control
  <2>3. lock' \in Callers \cup {NoId}
    BY <1>SendPush, <1>call, <1>table DEF SendPush
  <2>4. inbox' \in [Ids -> 0..ChanCap]
    <3>1. ag[c] \in Ids
      BY <1>SendPush, <1>ctl DEF SendPush, Control
    <3> QED
      BY <1>SendPush, <1>task, <3>1, BoundsAssumption DEF SendPush
  <2>5. Control'
    BY <1>SendPush, <1>ctl, <2>1, <2>2, <2>3, <2>4 DEF SendPush, Control,
      MovesTo, ScriptPcs
  <2> QED
    BY <1>types, <2>1, <2>2, <2>3, <2>4, <2>5 DEF TypeInv, TypeOK, MovesTo,
      Marks, TaskPcs
<1>FindingXadd. ASSUME NEW c \in Callers, FindingXadd(c) PROVE TypeInv'
  <2>1. UNCHANGED <<kv, active, nextId, runtimes, lock, cancelled, inbox, tpc,
        tbuf, buf, ag, par, kids, reqs, restarts>>
    BY <1>FindingXadd DEF FindingXadd, store, table, tasks, count
  <2>2. MovesTo(c, {"finding_get", "eval"})
    BY <1>FindingXadd, <1>pc, EmptyScript, <1>ctl DEF FindingXadd, MovesTo,
      CallPcs, ScriptPcs, Goto, Control
  <2>3. Control'
    BY <1>FindingXadd, <1>ctl, <2>1, <2>2 DEF FindingXadd, Control, MovesTo,
      ScriptPcs
  <2> QED
    BY <1>types, <2>1, <2>2, <2>3 DEF TypeInv, TypeOK, MovesTo, Marks,
      TaskPcs
<1>FindingGet. ASSUME NEW c \in Callers, FindingGet(c) PROVE TypeInv'
  <2>1. UNCHANGED <<kv, active, nextId, runtimes, lock, cancelled, inbox, tpc,
        tbuf, ag, par, kids, reqs, restarts>>
    BY <1>FindingGet DEF FindingGet, ReadState, store, table, tasks, count
  <2>2. MovesTo(c, ScriptPcs \cup {"idle"} \cup {"finding_set"})
    BY <1>FindingGet, <1>pc, EmptyScript, <1>r, <1>ctl DEF FindingGet,
      ReadState, MovesTo, CallPcs, ScriptPcs, Goto, Control
  <2>3. buf' \in [Callers -> AgentState]
    BY <1>FindingGet, <1>call, <1>store, <1>ctl DEF FindingGet, ReadState,
      Control
  <2>4. Control'
    BY <1>FindingGet, <1>ctl, <2>1, <2>2, <2>3 DEF FindingGet, ReadState,
      Control, MovesTo, ScriptPcs
  <2> QED
    BY <1>types, <2>1, <2>2, <2>3, <2>4 DEF TypeInv, TypeOK, MovesTo, Marks,
      TaskPcs
<1>FindingSet. ASSUME NEW c \in Callers, FindingSet(c) PROVE TypeInv'
  <2>1. UNCHANGED <<active, nextId, runtimes, lock, cancelled, inbox, tpc,
        tbuf, buf, ag, par, kids, reqs, restarts>>
    BY <1>FindingSet DEF FindingSet, WriteState, table, tasks, count
  <2>2. MovesTo(c, ScriptPcs \cup {"idle"})
    BY <1>FindingSet, <1>pc, EmptyScript, <1>r, <1>ctl DEF FindingSet,
      WriteState, MovesTo, CallPcs, ScriptPcs, Goto, Control
  <2>3. kv' \in [Ids -> AgentState]
    <3>1. [buf[c] EXCEPT !.steps = @ + 1] \in AgentState
      BY <1>call, StateUpdates
    <3> QED
      BY <1>FindingSet, <1>store, <3>1 DEF FindingSet, WriteState
  <2>4. Control'
    BY <1>FindingSet, <1>ctl, <2>1, <2>2, <2>3 DEF FindingSet, WriteState,
      Control, MovesTo, ScriptPcs
  <2> QED
    BY <1>types, <2>1, <2>2, <2>3, <2>4 DEF TypeInv, TypeOK, MovesTo, Marks,
      TaskPcs
<1>CompleteGet. ASSUME NEW c \in Callers, CompleteGet(c) PROVE TypeInv'
  <2>1. UNCHANGED <<kv, active, nextId, runtimes, lock, cancelled, inbox, tpc,
        tbuf, ag, par, kids, reqs, restarts>>
    BY <1>CompleteGet DEF CompleteGet, ReadState, store, table, tasks, count
  <2>2. MovesTo(c, ScriptPcs \cup {"idle"} \cup {"complete_set"})
    BY <1>CompleteGet, <1>pc, EmptyScript, <1>r, <1>ctl DEF CompleteGet,
      ReadState, MovesTo, CallPcs, ScriptPcs, Goto, Control
  <2>3. buf' \in [Callers -> AgentState]
    BY <1>CompleteGet, <1>call, <1>store, <1>ctl DEF CompleteGet, ReadState,
      Control
  <2>4. Control'
    BY <1>CompleteGet, <1>ctl, <2>1, <2>2, <2>3 DEF CompleteGet, ReadState,
      Control, MovesTo, ScriptPcs
  <2> QED
    BY <1>types, <2>1, <2>2, <2>3, <2>4 DEF TypeInv, TypeOK, MovesTo, Marks,
      TaskPcs
<1>CompleteSet. ASSUME NEW c \in Callers, CompleteSet(c) PROVE TypeInv'
  <2>1. UNCHANGED <<active, nextId, runtimes, lock, cancelled, inbox, tpc,
        tbuf, buf, ag, par, kids, reqs, restarts>>
    BY <1>CompleteSet DEF CompleteSet, WriteState, table, tasks, count
  <2>2. MovesTo(c, ScriptPcs \cup {"idle"} \cup {"complete_hset"})
    BY <1>CompleteSet, <1>pc, EmptyScript, <1>r, <1>ctl DEF CompleteSet,
      WriteState, MovesTo, CallPcs, ScriptPcs, Goto, Control
  <2>3. kv' \in [Ids -> AgentState]
    <3>1. [buf[c] EXCEPT !.status = "Completed"] \in AgentState
      BY <1>call, StateUpdates
    <3> QED
      BY <1>CompleteSet, <1>store, <3>1 DEF CompleteSet, WriteState
  <2>4. Control'
    BY <1>CompleteSet, <1>ctl, <2>1, <2>2, <2>3 DEF CompleteSet, WriteState,
      Control, MovesTo, ScriptPcs
  <2> QED
    BY <1>types, <2>1, <2>2, <2>3, <2>4 DEF TypeInv, TypeOK, MovesTo, Marks,
      TaskPcs
<1>CompleteHset. ASSUME NEW c \in Callers, CompleteHset(c) PROVE TypeInv'
  <2>1. UNCHANGED <<kv, nextId, runtimes, lock, cancelled, inbox, tpc, tbuf,
        buf, ag, par, kids, reqs, restarts>>
    BY <1>CompleteHset DEF CompleteHset, table, tasks, count
  <2>2. MovesTo(c, ScriptPcs \cup {"idle"})
    BY <1>CompleteHset, <1>pc, EmptyScript, <1>r, <1>ctl DEF CompleteHset,
      MovesTo, CallPcs, ScriptPcs, Control
  <2>3. active' \in [Ids -> Marks]
    BY <1>CompleteHset, <1>call, <1>store DEF CompleteHset, Hset, Marks
  <2>4. Control'
    BY <1>CompleteHset, <1>ctl, <2>1, <2>2, <2>3 DEF CompleteHset, Control,
      MovesTo, ScriptPcs
  <2> QED
    BY <1>types, <2>1, <2>2, <2>3, <2>4 DEF TypeInv, TypeOK, MovesTo, Marks,
      TaskPcs
<1>Eval. ASSUME NEW c \in Callers, Eval(c) PROVE TypeInv'
  <2>1. UNCHANGED <<kv, active, nextId, runtimes, lock, cancelled, inbox, tpc,
        tbuf, buf, ag, par, kids, reqs, restarts>>
    BY <1>Eval DEF Eval, store, table, tasks, count
  <2>2. MovesTo(c, ScriptPcs \cup {"idle"})
    BY <1>Eval, <1>pc, EmptyScript, <1>r, <1>ctl DEF Eval, MovesTo, CallPcs,
      ScriptPcs, Control
  <2>3. Control'
    BY <1>Eval, <1>ctl, <2>1, <2>2 DEF Eval, Control, MovesTo, ScriptPcs
  <2> QED
    BY <1>types, <2>1, <2>2, <2>3 DEF TypeInv, TypeOK, MovesTo, Marks,
      TaskPcs
<1>CloseGet. ASSUME NEW c \in Callers, CloseGet(c) PROVE TypeInv'
  <2>1. UNCHANGED <<kv, active, nextId, runtimes, lock, cancelled, inbox, tpc,
        tbuf, ag, par, kids, reqs, restarts>>
    BY <1>CloseGet DEF CloseGet, ReadState, store, table, tasks, count
  <2>2. MovesTo(c, ScriptPcs \cup {"idle"} \cup {"close_remove"})
    BY <1>CloseGet, <1>pc, EmptyScript, <1>r, <1>ctl DEF CloseGet, ReadState,
      MovesTo, CallPcs, ScriptPcs, Goto, Control
  <2>3. buf' \in [Callers -> AgentState]
    BY <1>CloseGet, <1>call, <1>store, <1>ctl DEF CloseGet, ReadState,
      Control
  <2>4. Control'
    BY <1>CloseGet, <1>ctl, <2>1, <2>2, <2>3 DEF CloseGet, ReadState,
      Control, MovesTo, ScriptPcs
  <2> QED
    BY <1>types, <2>1, <2>2, <2>3, <2>4 DEF TypeInv, TypeOK, MovesTo, Marks,
      TaskPcs
<1>CloseRemove. ASSUME NEW c \in Callers, CloseRemove(c) PROVE TypeInv'
  <2>1. UNCHANGED <<kv, active, nextId, inbox, tpc, tbuf, buf, ag, par, script,
        reqs, restarts>>
    BY <1>CloseRemove DEF CloseRemove, RemoveRuntime, store, tasks, count
  <2>2. MovesTo(c, {"close_set"})
    BY <1>CloseRemove, <1>pc, EmptyScript, <2>1, <1>ctl DEF CloseRemove,
      RemoveRuntime, MovesTo, CallPcs, ScriptPcs, Goto, Control
  <2>3. runtimes' \subseteq Ids /\ cancelled' \subseteq Ids /\ lock' = lock
    BY <1>CloseRemove, <1>call, <1>table DEF CloseRemove, RemoveRuntime
  <2>4. kids' \in [Callers -> Seq(Ids)] /\ \A d \in Callers \ {c} : kids'[d] = kids[d]
    BY <1>CloseRemove, <1>call DEF CloseRemove, RemoveRuntime, AgentState
  <2>5. Control'
    BY <1>CloseRemove, <1>ctl, <2>1, <2>2, <2>3, <2>4 DEF CloseRemove,
      RemoveRuntime, Control, MovesTo, ScriptPcs
  <2> QED
    BY <1>types, <2>1, <2>2, <2>3, <2>4, <2>5 DEF TypeInv, TypeOK, MovesTo,
      Marks, TaskPcs
<1>CloseSet. ASSUME NEW c \in Callers, CloseSet(c) PROVE TypeInv'
  <2>1. UNCHANGED <<active, nextId, runtimes, lock, cancelled, inbox, tpc,
        tbuf, buf, ag, par, kids, reqs, restarts>>
    BY <1>CloseSet DEF CloseSet, WriteState, table, tasks, count
  <2>2. MovesTo(c, ScriptPcs \cup {"idle"} \cup {"close_hset"})
    BY <1>CloseSet, <1>pc, EmptyScript, <1>r, <1>ctl DEF CloseSet,
      WriteState, MovesTo, CallPcs, ScriptPcs, Goto, Control
  <2>3. kv' \in [Ids -> AgentState]
    <3>1. [buf[c] EXCEPT !.status = "Completed"] \in AgentState
      BY <1>call, StateUpdates
    <3> QED
      BY <1>CloseSet, <1>store, <3>1 DEF CloseSet, WriteState
  <2>4. Control'
    BY <1>CloseSet, <1>ctl, <2>1, <2>2, <2>3 DEF CloseSet, WriteState,
      Control, MovesTo, ScriptPcs
  <2> QED
    BY <1>types, <2>1, <2>2, <2>3, <2>4 DEF TypeInv, TypeOK, MovesTo, Marks,
      TaskPcs
<1>CloseHset. ASSUME NEW c \in Callers, CloseHset(c) PROVE TypeInv'
  <2>1. UNCHANGED <<kv, nextId, runtimes, lock, cancelled, inbox, tpc, tbuf,
        buf, ag, par, script, kids, reqs, restarts>>
    BY <1>CloseHset DEF CloseHset, table, tasks, frame, count
  <2>2. MovesTo(c, {"cascade"})
    BY <1>CloseHset, <1>pc, EmptyScript, <2>1, <1>ctl DEF CloseHset, MovesTo,
      CallPcs, ScriptPcs, Goto, Control
  <2>3. active' \in [Ids -> Marks]
    BY <1>CloseHset, <1>store DEF CloseHset, Hset, Marks
  <2>4. Control'
    BY <1>CloseHset, <1>ctl, <2>1, <2>2, <2>3 DEF CloseHset, Control,
      MovesTo, ScriptPcs
  <2> QED
    BY <1>types, <2>1, <2>2, <2>3, <2>4 DEF TypeInv, TypeOK, MovesTo, Marks,
      TaskPcs
<1>CascadeGet. ASSUME NEW c \in Callers, CascadeGet(c) PROVE TypeInv'
  <2>1. UNCHANGED <<kv, active, nextId, runtimes, lock, cancelled, inbox, tpc,
        tbuf, ag, par, script, reqs, restarts>>
    BY <1>CascadeGet DEF CascadeGet, store, table, tasks, count
  <2>2. MovesTo(c, {"cascade", "cascade_set"})
    BY <1>CascadeGet, <1>pc, EmptyScript, <2>1, <1>ctl DEF CascadeGet,
      MovesTo, CallPcs, ScriptPcs, Goto, Control
  <2>3. Head(kids[c]) \in Ids /\ Tail(kids[c]) \in Seq(Ids)
    BY <1>CascadeGet, <1>call, <1>store, HeadTail DEF CascadeGet
  <2>4. buf' \in [Callers -> AgentState]
    BY <1>CascadeGet, <1>call, <1>store, <2>3 DEF CascadeGet
  <2>5. kids' \in [Callers -> Seq(Ids)] /\ (\A d \in Callers \ {c} : kids'[d] = kids[d])
      /\ (pc'[c] = "cascade_set" => kids'[c] # <<>>)
    BY <1>CascadeGet, <1>call, <1>store, <2>3, <1>pc DEF CascadeGet, Goto
  <2>6. Control'
    BY <1>CascadeGet, <1>ctl, <2>1, <2>2, <2>3, <2>4, <2>5 DEF CascadeGet,
      Control, MovesTo, ScriptPcs
  <2> QED
    BY <1>types, <2>1, <2>2, <2>3, <2>4, <2>5, <2>6 DEF TypeInv, TypeOK,
      MovesTo, Marks, TaskPcs
<1>CascadeSet. ASSUME NEW c \in Callers, CascadeSet(c) PROVE TypeInv'
  <2>1. UNCHANGED <<active, nextId, runtimes, lock, cancelled, inbox, tpc,
        tbuf, buf, ag, par, script, kids, reqs, restarts>>
    BY <1>CascadeSet DEF CascadeSet, table, tasks, frame, count
  <2>2. MovesTo(c, {"cascade_hset"})
    BY <1>CascadeSet, <1>pc, EmptyScript, <2>1, <1>ctl DEF CascadeSet,
      MovesTo, CallPcs, ScriptPcs, Goto, Control
  <2>3. kv' \in [Ids -> AgentState]
    BY <1>CascadeSet, <1>call, <1>store, StateUpdates DEF CascadeSet
  <2>4. Control'
    BY <1>CascadeSet, <1>ctl, <2>1, <2>2, <2>3 DEF CascadeSet, Control,
      MovesTo, ScriptPcs
  <2> QED
    BY <1>types, <2>1, <2>2, <2>3, <2>4 DEF TypeInv, TypeOK, MovesTo, Marks,
      TaskPcs
<1>CascadeHset. ASSUME NEW c \in Callers, CascadeHset(c) PROVE TypeInv'
  <2>1. UNCHANGED <<kv, nextId, runtimes, lock, cancelled, inbox, tpc, tbuf,
        buf, ag, par, script, kids, reqs, restarts>>
    BY <1>CascadeHset DEF CascadeHset, table, tasks, frame, count
  <2>2. MovesTo(c, {"cascade_remove"})
    BY <1>CascadeHset, <1>pc, EmptyScript, <2>1, <1>ctl DEF CascadeHset,
      MovesTo, CallPcs, ScriptPcs, Goto, Control
  <2>3. active' \in [Ids -> Marks]
    BY <1>CascadeHset, <1>call, <1>store DEF CascadeHset, Hset, Marks
  <2>4. Control'
    BY <1>CascadeHset, <1>ctl, <2>1, <2>2, <2>3 DEF CascadeHset, Control,
      MovesTo, ScriptPcs
  <2> QED
    BY <1>types, <2>1, <2>2, <2>3, <2>4 DEF TypeInv, TypeOK, MovesTo, Marks,
      TaskPcs
<1>CascadeRemove. ASSUME NEW c \in Callers, CascadeRemove(c) PROVE TypeInv'
  <2>1. UNCHANGED <<kv, active, nextId, inbox, tpc, tbuf, buf, ag, par, script,
        reqs, restarts>>
    BY <1>CascadeRemove DEF CascadeRemove, RemoveRuntime, store, tasks, count
  <2>2. MovesTo(c, {"cascade"})
    BY <1>CascadeRemove, <1>pc, EmptyScript, <2>1, <1>ctl DEF CascadeRemove,
      RemoveRuntime, MovesTo, CallPcs, ScriptPcs, Goto, Control
  <2>3. runtimes' \subseteq Ids /\ cancelled' \subseteq Ids /\ lock' = lock
    BY <1>CascadeRemove, <1>call, <1>table DEF CascadeRemove, RemoveRuntime
  <2>4. kids' \in [Callers -> Seq(Ids)] /\ \A d \in Callers \ {c} : kids'[d] = kids[d]
    BY <1>CascadeRemove, <1>call, <1>ctl, HeadTail DEF CascadeRemove,
      RemoveRuntime, Control
  <2>5. Control'
    BY <1>CascadeRemove, <1>ctl, <2>1, <2>2, <2>3, <2>4 DEF CascadeRemove,
      RemoveRuntime, Control, MovesTo, ScriptPcs
  <2> QED
    BY <1>types, <2>1, <2>2, <2>3, <2>4, <2>5 DEF TypeInv, TypeOK, MovesTo,
      Marks, TaskPcs
<1>CloseEnd. ASSUME NEW c \in Callers, CloseEnd(c) PROVE TypeInv'
  <2>1. UNCHANGED <<kv, active, nextId, runtimes, lock, cancelled, inbox, tpc,
        tbuf, buf, ag, par, kids, reqs, restarts>>
    BY <1>CloseEnd DEF CloseEnd, store, table, tasks, count
  <2>2. MovesTo(c, ScriptPcs \cup {"idle"})
    BY <1>CloseEnd, <1>pc, EmptyScript, <1>r, <1>ctl DEF CloseEnd, MovesTo,
      CallPcs, ScriptPcs, Control
  <2>3. Control'
    BY <1>CloseEnd, <1>ctl, <2>1, <2>2 DEF CloseEnd, Control, MovesTo,
      ScriptPcs
  <2> QED
    BY <1>types, <2>1, <2>2, <2>3 DEF TypeInv, TypeOK, MovesTo, Marks,
      TaskPcs
<1>Request. ASSUME NEW c \in Callers, NEW first, NEW i \in Ids \cup {NoId},
                   NEW p \in Ids \cup {NoId}, NEW rest \in Seq(ScriptPcs),
                   Request(c, first, i, p, rest),
                   first \in ScriptPcs \cup {"open"}, first # "open" => i \in Ids
            PROVE  TypeInv'
  <2>1. UNCHANGED <<kv, active, nextId, runtimes, lock, cancelled, inbox, tpc, tbuf, buf,
                    kids, restarts>>
    BY <1>Request DEF Request, store, table, tasks
  <2>2. MovesTo(c, {first})
    <3>1. rest \in Seq(CallPcs) /\ first \in CallPcs
      BY <1>Request DEF CallPcs, ScriptPcs
    <3> QED
      BY <1>Request, <1>pc, <1>ctl, <3>1 DEF Request, Goto, MovesTo, Control
  <2>3. /\ ag' \in [Callers -> Ids \cup {NoId}] /\ par' \in [Callers -> Ids \cup {NoId}]
        /\ ag'[c] = i /\ \A d \in Callers \ {c} : ag'[d] = ag[d] /\ par'[d] = par[d]
    BY <1>Request, <1>call DEF Request
  <2>4. reqs' \in [Callers -> 0..MaxReq]
    BY <1>Request, <1>table, <1>types, BoundsAssumption DEF Request, TypeOK
  <2>5. Control'
    BY <1>Request, <1>ctl, <2>1, <2>2, <2>3 DEF Control, MovesTo, ScriptPcs
  <2> QED
    BY <1>types, <2>1, <2>2, <2>3, <2>4, <2>5 DEF TypeInv, TypeOK, MovesTo
<1>requests. ASSUME (\E c \in Conns : McpToolsCall(c)) \/ AgentCreate \/ ChainStep
                    \/ (\E command \in {"close", "send", "assign"} : OnAgent(command))
             PROVE  TypeInv'
  <2>1. Operator \in Callers /\ Conns \subseteq Callers /\ NoId \in Ids \cup {NoId}
    BY DEF Callers
  <2>2. ASSUME NEW c \in Conns, McpToolsCall(c) PROVE TypeInv'
    <3>1. <<"assign", "finding", "complete", "eval">> \in Seq(ScriptPcs)
      BY DEF ScriptPcs
    <3> QED
      BY <1>Request, <2>1, <2>2, <3>1 DEF McpToolsCall
  <2>3. CASE AgentCreate
    <3>1. PICK p \in {NoId} \cup (IF Nested THEN Ids ELSE {}) :
             Request(Operator, "open", NoId, p, <<>>)
      BY <2>3 DEF AgentCreate
    <3> QED
      BY <1>Request, <2>1, <3>1, EmptyScript
  <2>4. CASE ChainStep
    <3>1. <<"assign", "send", "close">> \in Seq(ScriptPcs)
      BY DEF ScriptPcs
    <3> QED
      BY <1>Request, <2>1, <2>4, <3>1 DEF ChainStep
  <2>5. ASSUME NEW command \in {"close", "send", "assign"}, OnAgent(command)
        PROVE  TypeInv'
    <3>1. PICK i \in Ids : Request(Operator, command, i, NoId, <<>>)
      BY <2>5 DEF OnAgent
    <3> QED
      BY <1>Request, <2>1, <3>1, EmptyScript DEF ScriptPcs
  <2> QED
    BY <1>requests, <2>2, <2>3, <2>4, <2>5
<1>TaskStep. ASSUME NEW t \in Ids, TaskStep(t) PROVE TypeInv'
  <2>1. UNCHANGED <<active, nextId, runtimes, lock, cancelled, pc, buf, ag, par, script, kids,
                    reqs, restarts>>
    BY <1>TaskStep
    DEF TaskStep, TaskRecv, TaskGet, TaskSet, TaskIdleEnd, store, table, frame, count
  <2>2. inbox' \in [Ids -> 0..ChanCap]
    <3>1. inbox[t] > 0 => inbox[t] - 1 \in 0..ChanCap
      BY <1>task, BoundsAssumption
    <3> QED
      BY <1>TaskStep, <1>task, <3>1, BoundsAssumption
      DEF TaskStep, TaskRecv, TaskGet, TaskSet, TaskIdleEnd
  <2>3. tpc' \in [Ids -> TaskPcs]
    BY <1>TaskStep, <1>task DEF TaskStep, TaskRecv, TaskGet, TaskSet, TaskIdleEnd, TaskPcs
  <2>4. tbuf' \in [Ids -> AgentState]
    BY <1>TaskStep, <1>task, <1>store DEF TaskStep, TaskRecv, TaskGet, TaskSet, TaskIdleEnd
  <2>5. kv' \in [Ids -> AgentState]
    <3>1. [tbuf[t] EXCEPT !.steps = @ + 1] \in AgentState
      BY <1>task, StateUpdates
    <3> QED
      BY <1>TaskStep, <1>store, <3>1
      DEF TaskStep, TaskRecv, TaskGet, TaskSet, TaskIdleEnd, store
  <2>6. Control'
    BY <1>ctl, <2>1 DEF Control
  <2> QED
    BY <1>types, <2>1, <2>2, <2>3, <2>4, <2>5, <2>6 DEF TypeInv, TypeOK, TaskPcs
<1>Restart. CASE Restart
  <2>1. /\ kv' \in [Ids -> AgentState] /\ active' \in [Ids -> Marks]
        /\ tbuf' \in [Ids -> AgentState] /\ buf' \in [Callers -> AgentState]
    BY <1>Restart, <1>store, AbsentState DEF Restart, Marks
  <2>2. /\ script' \in [Callers -> Seq(CallPcs)] /\ kids' \in [Callers -> Seq(Ids)]
        /\ pc' \in [Callers -> CallPcs] /\ Control'
    BY <1>Restart, EmptyScript DEF Restart, CallPcs, Control
  <2>3. /\ nextId' \in 1..(MaxId + 1) /\ inbox' \in [Ids -> 0..ChanCap]
        /\ restarts' \in 0..MaxRestarts /\ reqs' = reqs
    BY <1>Restart, <1>types, BoundsAssumption DEF Restart, TypeOK
  <2>4. /\ runtimes' = {} /\ lock' = NoId /\ cancelled' = {}
        /\ tpc' \in [Ids -> TaskPcs]
        /\ ag' \in [Callers -> Ids \cup {NoId}] /\ par' \in [Callers -> Ids \cup {NoId}]
    BY <1>Restart DEF Restart, TaskPcs
  <2> QED
    BY <1>types, <2>1, <2>2, <2>3, <2>4 DEF TypeInv, TypeOK, Marks, TaskPcs
<1>Expire. ASSUME NEW i \in Ids, Expire(i) PROVE TypeInv'
  <2>1. kv' \in [Ids -> AgentState]
    BY <1>Expire, <1>store, AbsentState DEF Expire
  <2> QED
    BY <2>1, <1>Expire, <1>types, <1>ctl
    DEF Expire, TypeInv, TypeOK, Control, table, tasks, frame, count
<1>stutter. CASE UNCHANGED vars
  BY <1>stutter, <1>types, <1>ctl
  DEF TypeInv, TypeOK, Control, vars, store, table, tasks, frame, count
<1>CallStep. ASSUME NEW c \in Callers, CallStep(c) PROVE TypeInv'
  <2>1. CASE Open(c)
    BY <2>1, <1>OpenCheck, <1>OpenSet, <1>OpenHset, <1>OpenInsert, <1>OpenParentGet,
       <1>OpenParentSet DEF Open
  <2>2. CASE Assign(c) \/ Send(c) \/ Eval(c)
    BY <2>2, <1>AssignGet, <1>AssignSet, <1>SendLock, <1>SendPush, <1>Eval DEF Assign, Send
  <2>3. CASE Complete(c)
    BY <2>3, <1>FindingXadd, <1>FindingGet, <1>FindingSet, <1>CompleteGet, <1>CompleteSet,
       <1>CompleteHset DEF Complete
  <2>4. CASE Close(c)
    BY <2>4, <1>CloseGet, <1>CloseRemove, <1>CloseSet, <1>CloseHset, <1>CascadeGet,
       <1>CascadeSet, <1>CascadeHset, <1>CascadeRemove, <1>CloseEnd DEF Close
  <2> QED
    BY <1>CallStep, <2>1, <2>2, <2>3, <2>4 DEF CallStep
<1> QED
  BY <1>requests, <1>CallStep, <1>TaskStep, <1>Expire, <1>Restart, <1>stutter DEF Next

(* Every variable has its type in every reachable state.                   *)
THEOREM TypeCorrect == Spec => []TypeOK
<1>1. TypeInv /\ [Next]_vars => TypeInv'
  BY TypeStep
<1>2. TypeInv => TypeOK
  BY DEF TypeInv
<1> QED
  BY TypeInit, <1>1, <1>2, PTL DEF Spec

-----------------------------------------------------------------------------

(* Control points between the check of the cap and the insertion.          *)
AdmittedPcs == {"open_set", "open_hset", "open_insert"}

(* What a step of a manager call does to the pcs, the table and the ids:   *)
(* only the check of the cap admits, only an insertion adds to the table,  *)
(* and only the SETEX of an open takes an id.                              *)
LEMMA CallEffect ==
    ASSUME TypeInv, NEW c \in Callers, CallStep(c)
    PROVE  /\ \A d \in Callers \ {c} : pc'[d] = pc[d]
           /\ OpenCheck(c) \/ (pc'[c] \in AdmittedPcs => pc[c] \in AdmittedPcs)
           /\ OpenInsert(c) \/ runtimes' \subseteq runtimes
           /\ OpenSet(c) \/ UNCHANGED <<ag, nextId>>
<1>1. pc \in [Callers -> CallPcs]
  BY DEF TypeInv, TypeOK
<1>2. Return(c) => /\ pc'[c] \notin AdmittedPcs
                   /\ \A d \in Callers \ {c} : pc'[d] = pc[d]
  BY ReturnMoves DEF ScriptPcs, AdmittedPcs
<1>3. CASE Open(c)
  BY <1>1, <1>2, <1>3
  DEF Open, OpenCheck, OpenSet, OpenHset, OpenInsert, OpenParentGet, OpenParentSet, Goto,
      AdmittedPcs, table, frame
<1>4. CASE Assign(c) \/ Eval(c)
  BY <1>1, <1>2, <1>4
  DEF Assign, AssignGet, AssignSet, Eval, ReadState, WriteState, Goto, AdmittedPcs, table
<1>5. CASE Send(c)
  BY <1>1, <1>2, <1>5 DEF Send, SendLock, SendPush, Goto, AdmittedPcs
<1>6. CASE Complete(c)
  BY <1>1, <1>2, <1>6
  DEF Complete, FindingXadd, FindingGet, FindingSet, CompleteGet, CompleteSet, CompleteHset,
      ReadState, WriteState, Goto, AdmittedPcs, table
<1>7. CASE Close(c)
  <2>1. CASE CloseGet(c) \/ CloseSet(c) \/ CloseHset(c) \/ CloseEnd(c)
    BY <1>1, <1>2, <2>1 DEF CloseGet, CloseSet, CloseHset, CloseEnd, ReadState, WriteState,
       Goto, AdmittedPcs, table, frame
  <2>2. CASE CloseRemove(c) \/ CascadeRemove(c)
    BY <1>1, <2>2 DEF CloseRemove, CascadeRemove, RemoveRuntime, Goto, AdmittedPcs
  <2>3. CASE CascadeGet(c) \/ CascadeSet(c) \/ CascadeHset(c)
    BY <1>1, <2>3 DEF CascadeGet, CascadeSet, CascadeHset, Goto, AdmittedPcs, table, frame
  <2> QED
    BY <1>7, <2>1, <2>2, <2>3 DEF Close
<1> QED
  BY <1>3, <1>4, <1>5, <1>6, <1>7 DEF CallStep

(* Only the SETEX of an open leaves the point after the check.             *)
LEMMA CallStepAt ==
    ASSUME NEW c \in Callers, CallStep(c), pc[c] = "open_set"
    PROVE  OpenSet(c)
  BY DEF CallStep, Open, Assign, Send, Complete, Eval, Close,
     OpenCheck, OpenHset, OpenInsert, OpenParentGet, OpenParentSet,
     AssignGet, AssignSet, SendLock, SendPush, FindingXadd, FindingGet, FindingSet,
     CompleteGet, CompleteSet, CompleteHset, CloseGet, CloseRemove, CloseSet, CloseHset,
     CascadeGet, CascadeSet, CascadeHset, CascadeRemove, CloseEnd, ReadState, WriteState

(* Only HSET leads to the insertion.                                       *)
LEMMA InsertAfterHset ==
    ASSUME TypeInv, NEW c \in Callers, CallStep(c), pc'[c] = "open_insert"
    PROVE  OpenHset(c)
<1>1. pc \in [Callers -> CallPcs]
  BY DEF TypeInv, TypeOK
<1>2. Return(c) => pc'[c] # "open_insert"
  BY ReturnMoves DEF ScriptPcs
<1>3. CASE Open(c)
  BY <1>1, <1>2, <1>3 DEF Open, OpenCheck, OpenSet, OpenInsert, OpenParentGet, OpenParentSet, Goto
<1>4. CASE Assign(c) \/ Eval(c) \/ Send(c)
  BY <1>1, <1>2, <1>4
  DEF Assign, AssignGet, AssignSet, Eval, Send, SendLock, SendPush, ReadState, WriteState, Goto
<1>5. CASE Complete(c)
  BY <1>1, <1>2, <1>5
  DEF Complete, FindingXadd, FindingGet, FindingSet, CompleteGet, CompleteSet, CompleteHset,
      ReadState, WriteState, Goto
<1>6. CASE Close(c)
  BY <1>1, <1>2, <1>6
  DEF Close, CloseGet, CloseRemove, CloseSet, CloseHset, CascadeGet, CascadeSet, CascadeHset,
      CascadeRemove, CloseEnd, ReadState, WriteState, Goto
<1> QED
  BY <1>3, <1>4, <1>5, <1>6 DEF CallStep

(* The requests, in one form.                                              *)
LEMMA RequestSteps ==
    ASSUME \/ \E c \in Conns : McpToolsCall(c)
           \/ AgentCreate \/ ChainStep
           \/ \E command \in {"close", "send", "assign"} : OnAgent(command)
    PROVE  \E c \in Callers, first \in ScriptPcs \cup {"open"} :
              \E i, p, rest : Request(c, first, i, p, rest)
<1>1. Operator \in Callers /\ Conns \subseteq Callers
  BY DEF Callers
<1>2. CASE \E c \in Conns : McpToolsCall(c)
  BY <1>1, <1>2 DEF McpToolsCall
<1>3. CASE AgentCreate \/ ChainStep
  <2>1. \E i, p, rest : Request(Operator, "open", i, p, rest)
    BY <1>3 DEF AgentCreate, ChainStep
  <2> QED
    BY <1>1, <2>1
<1>4. ASSUME NEW command \in {"close", "send", "assign"}, OnAgent(command)
      PROVE  \E i, p, rest : Request(Operator, command, i, p, rest)
  BY <1>4 DEF OnAgent
<1> QED
  BY <1>1, <1>2, <1>3, <1>4 DEF ScriptPcs

(* Every other step starts a request of an idle caller, moves an agent's   *)
(* task, takes a state away, restarts the process or changes nothing.      *)
LEMMA OtherEffect ==
    ASSUME TypeInv, [Next]_vars
    PROVE  \/ \E c \in Callers : CallStep(c)
           \/ /\ UNCHANGED <<runtimes, nextId>>
              /\ \A c \in Callers : \/ pc'[c] = pc[c] /\ ag'[c] = ag[c]
                                    \/ pc'[c] \notin AdmittedPcs
           \/ Restart
<1>1. pc \in [Callers -> CallPcs] /\ ag \in [Callers -> Ids \cup {NoId}]
  BY DEF TypeInv, TypeOK
<1>2. ASSUME NEW c \in Callers, NEW first, NEW i, NEW p, NEW rest, Request(c, first, i, p, rest),
             first \in ScriptPcs \cup {"open"}
      PROVE  /\ UNCHANGED <<runtimes, nextId>>
             /\ \A d \in Callers : \/ pc'[d] = pc[d] /\ ag'[d] = ag[d]
                                   \/ pc'[d] \notin AdmittedPcs
  BY <1>1, <1>2 DEF Request, Goto, AdmittedPcs, ScriptPcs, table
<1>3. CASE (\E t \in Ids : TaskStep(t) \/ Expire(t)) \/ UNCHANGED vars
  BY <1>3 DEF TaskStep, TaskRecv, TaskGet, TaskSet, TaskIdleEnd, Expire, vars, table, frame
<1> QED
  BY <1>2, <1>3, RequestSteps DEF Next

-----------------------------------------------------------------------------
(* The cap.                                                                *)

(* The inductive invariant of the cap: the table is finite as well.        *)
CapInv == IsFiniteSet(runtimes) /\ CapOvershoot

(* There are at most as many admitted callers as callers.                  *)
LEMMA AdmittedFinite ==
    /\ IsFiniteSet(Admitted) /\ Cardinality(Admitted) \in Nat
    /\ Cardinality(Admitted) <= Cardinality(Conns) + 1
  BY CallersFinite, CallersAssumption, FS_Subset, FS_CardinalityType DEF Admitted

(* A step that adds neither to the table nor to the admitted callers.      *)
LEMMA CapShrinks ==
    ASSUME TypeInv, CapInv, runtimes' \subseteq runtimes, Admitted' \subseteq Admitted
    PROVE  CapInv'
<1>1. /\ IsFiniteSet(runtimes') /\ Cardinality(runtimes') <= Cardinality(runtimes)
      /\ Cardinality(runtimes') \in Nat /\ Cardinality(runtimes) \in Nat
  BY FS_Subset, FS_CardinalityType DEF CapInv
<1>2. /\ Cardinality(Admitted') <= Cardinality(Admitted)
      /\ Cardinality(Admitted') \in Nat /\ Cardinality(Admitted) \in Nat
  BY AdmittedFinite, FS_Subset, FS_CardinalityType
<1>3. Cardinality(Conns) \in Nat /\ MaxAgents \in Nat
  BY CallersAssumption, BoundsAssumption, FS_CardinalityType
<1> QED
  BY <1>1, <1>2, <1>3 DEF CapInv, CapOvershoot

(* Every step keeps the bound on the overshoot.                            *)
LEMMA CapStep == ASSUME TypeInv, CapInv, [Next]_vars PROVE CapInv'
<1>1. Cardinality(Conns) \in Nat /\ MaxAgents \in Nat
  BY CallersAssumption, BoundsAssumption, FS_CardinalityType
<1>2. ASSUME NEW c \in Callers, CallStep(c) PROVE CapInv'
  <2>1. CASE OpenCheck(c)
    (* Passing the check means that there is room below the cap.           *)
    <3>1. UNCHANGED runtimes
      BY <2>1 DEF OpenCheck, table
    <3>2. CASE Cardinality(runtimes) >= MaxAgents
      <4>1. Admitted' \subseteq Admitted
        BY <2>1, <3>2, CallEffect, <1>2 DEF OpenCheck, Goto, Admitted, TypeInv, TypeOK
      <4> QED
        BY <3>1, <4>1, CapShrinks
    <3>3. CASE ~(Cardinality(runtimes) >= MaxAgents)
      <4>1. /\ Cardinality(Admitted') \in Nat
            /\ Cardinality(Admitted') <= Cardinality(Conns) + 1
        BY CallersFinite, CallersAssumption, FS_Subset, FS_CardinalityType DEF Admitted
      <4>2. Cardinality(runtimes) \in Nat
        BY FS_CardinalityType DEF CapInv
      <4> QED
        BY <1>1, <3>1, <3>3, <4>1, <4>2 DEF CapInv, CapOvershoot
    <3> QED
      BY <3>2, <3>3
  <2>2. CASE OpenInsert(c)
    (* The caller leaves the admitted ones as its agent enters the table.  *)
    <3>1. runtimes' = runtimes \cup {ag[c]}
      BY <2>2 DEF OpenInsert
    <3>2. c \in Admitted /\ Admitted' = Admitted \ {c}
      <4>1. pc'[c] \notin AdmittedPcs
        BY <2>2, ReturnMoves DEF OpenInsert, Goto, TypeInv, TypeOK, AdmittedPcs, ScriptPcs
      <4> QED
        BY <2>2, <4>1, CallEffect, <1>2 DEF OpenInsert, Admitted, AdmittedPcs
    <3>3. /\ Cardinality(Admitted') = Cardinality(Admitted) - 1
          /\ Cardinality(Admitted) \in Nat
      BY <3>2, AdmittedFinite, FS_RemoveElement
    <3>4. /\ IsFiniteSet(runtimes') /\ Cardinality(runtimes) \in Nat
          /\ Cardinality(runtimes') \in Nat
          /\ Cardinality(runtimes') <= Cardinality(runtimes) + 1
      <4>1. IsFiniteSet(runtimes) /\ Cardinality(runtimes) \in Nat
        BY FS_CardinalityType DEF CapInv
      <4>2. /\ IsFiniteSet(runtimes')
            /\ \/ Cardinality(runtimes') = Cardinality(runtimes)
               \/ Cardinality(runtimes') = Cardinality(runtimes) + 1
        BY <3>1, <4>1, FS_AddElement
      <4> QED
        BY <4>1, <4>2
    <3> QED
      BY <1>1, <3>3, <3>4 DEF CapInv, CapOvershoot
  <2>3. CASE ~OpenCheck(c) /\ ~OpenInsert(c)
    <3>1. Admitted' \subseteq Admitted
      BY <2>3, CallEffect, <1>2 DEF Admitted, AdmittedPcs
    <3> QED
      BY <2>3, <3>1, CallEffect, <1>2, CapShrinks
  <2> QED
    BY <2>1, <2>2, <2>3
<1>3. CASE Restart
  <2>1. runtimes' \subseteq runtimes /\ Admitted' \subseteq Admitted
    BY <1>3 DEF Restart, Admitted
  <2> QED
    BY <2>1, CapShrinks
<1>4. CASE /\ UNCHANGED <<runtimes, nextId>>
           /\ \A c \in Callers : \/ pc'[c] = pc[c] /\ ag'[c] = ag[c]
                                 \/ pc'[c] \notin AdmittedPcs
  <2>1. Admitted' \subseteq Admitted
    BY <1>4 DEF Admitted, AdmittedPcs
  <2> QED
    BY <1>4, <2>1, CapShrinks
<1> QED
  BY <1>2, <1>3, <1>4, OtherEffect

(* However many MCP connections there are, the table of runtimes outgrows  *)
(* the cap by no more than one runtime per connection.                     *)
THEOREM CapOvershootHolds == Spec => []CapOvershoot
<1>1. Init => CapInv
  <2> SUFFICES ASSUME Init PROVE CapInv
    OBVIOUS
  <2>1. runtimes = {} /\ Admitted = {}
    BY DEF Init, Admitted
  <2> QED
    BY <2>1, FS_EmptySet, CallersAssumption, BoundsAssumption, FS_CardinalityType
    DEF CapInv, CapOvershoot
<1>2. TypeInv /\ CapInv /\ [Next]_vars => TypeInv' /\ CapInv'
  BY TypeStep, CapStep
<1>3. CapInv => CapOvershoot
  BY DEF CapInv
<1> QED
  BY TypeInit, <1>1, <1>2, <1>3, PTL DEF Spec

-----------------------------------------------------------------------------
(* The ids.  Between two restarts the counter only grows and is ahead of   *)
(* every id in the table and of every id an open is about to insert.       *)

(* The inductive invariant of the ids.                                     *)
FreshInv ==
    /\ FreshInsert
    /\ \A i \in runtimes : i < nextId
    /\ \A c \in Callers : HasNewId(c) => ag[c] < nextId

(* A step that adds nothing to the table and takes no id.                  *)
LEMMA FreshKept ==
    ASSUME TypeInv, FreshInv, runtimes' \subseteq runtimes, nextId' = nextId,
           \A c \in Callers : HasNewId(c)' => HasNewId(c) /\ ag'[c] = ag[c]
    PROVE  FreshInv'
  BY DEF FreshInv, FreshInsert

(* Every step keeps the ids fresh.                                         *)
LEMMA FreshStep == ASSUME TypeInv, FreshInv, [Next]_vars PROVE FreshInv'
<1>t. /\ nextId \in 1..(MaxId + 1) /\ runtimes \subseteq Ids /\ Ids \subseteq Nat
      /\ ag \in [Callers -> Ids \cup {NoId}] /\ pc \in [Callers -> CallPcs]
      /\ \A c \in Callers : HasNewId(c) => ag[c] \in Ids
  <2>1. Ids \subseteq Nat
    BY BoundsAssumption DEF Ids
  <2>2. \A c \in Callers : HasNewId(c) => ag[c] \in Ids
    BY DEF TypeInv, Control, HasNewId
  <2> QED
    BY <2>1, <2>2 DEF TypeInv, TypeOK
<1>1. ASSUME NEW c \in Callers, CallStep(c) PROVE FreshInv'
  <2>1. CASE OpenSet(c)
    <3>1. UNCHANGED runtimes /\ nextId' = nextId + 1 /\ nextId \in Ids
      BY <2>1, <1>t, BoundsAssumption DEF OpenSet, table, Ids
    <3>2. /\ HasNewId(c)' => ag'[c] = nextId
          /\ \A d \in Callers \ {c} : pc'[d] = pc[d] /\ ag'[d] = ag[d]
      BY <2>1, <1>t DEF OpenSet, Goto, HasNewId
    <3>3. \A d \in Callers \ {c} : HasNewId(d)' => HasNewId(d) /\ ag'[d] = ag[d]
      BY <3>2 DEF HasNewId
    <3>4. \A d \in Callers : HasNewId(d)' => ag'[d] \in Ids /\ ag'[d] <= nextId
      <4>1. nextId \in Nat
        BY <3>1, <1>t
      <4>2. ASSUME NEW d \in Callers \ {c}, HasNewId(d)' PROVE ag'[d] \in Ids /\ ag'[d] < nextId
        BY <4>2, <3>3, <1>t DEF FreshInv
      <4>3. \A d \in Callers \ {c} : HasNewId(d)' => ag'[d] \in Nat
        BY <4>2, <1>t
      <4> QED
        BY <3>1, <3>2, <4>1, <4>2, <4>3
    <3>5. FreshInsert'
      <4>1. nextId \notin runtimes /\ \A d \in Callers : HasNewId(d) => ag[d] # nextId
        BY <3>1, <1>t DEF FreshInv
      <4>2. ASSUME NEW d \in Callers, HasNewId(d)' PROVE ag'[d] \in Ids \ runtimes'
        BY <3>1, <3>2, <3>3, <4>1, <4>2 DEF FreshInv, FreshInsert
      <4>3. ASSUME NEW d \in Callers, NEW e \in Callers \ {d}, HasNewId(d)', HasNewId(e)'
            PROVE  ag'[e] # ag'[d]
        BY <3>2, <3>3, <4>1, <4>3 DEF FreshInv, FreshInsert
      <4> QED
        BY <4>2, <4>3 DEF FreshInsert
    <3>6. \A i \in runtimes' : i < nextId'
      <4>1. ASSUME NEW i \in runtimes PROVE i < nextId + 1
        <5>1. i \in Nat /\ nextId \in Nat /\ i < nextId
          BY <1>t DEF FreshInv
        <5> QED
          BY <5>1
      <4> QED
        BY <3>1, <4>1
    <3>7. \A d \in Callers : HasNewId(d)' => ag'[d] < nextId'
      <4>1. ASSUME NEW d \in Callers, HasNewId(d)' PROVE ag'[d] < nextId'
        <5>1. ag'[d] \in Nat /\ nextId \in Nat /\ ag'[d] <= nextId
          BY <3>1, <3>4, <4>1, <1>t
        <5> QED
          BY <3>1, <5>1
      <4> QED
        BY <4>1
    <3> QED
      BY <3>5, <3>6, <3>7 DEF FreshInv
  <2>2. CASE OpenInsert(c)
    <3>1. runtimes' = runtimes \cup {ag[c]} /\ HasNewId(c) /\ UNCHANGED <<ag, nextId>>
      BY <2>2 DEF OpenInsert, HasNewId
    <3>2. ~HasNewId(c)' /\ \A d \in Callers \ {c} : pc'[d] = pc[d]
      BY <2>2, <1>t, ReturnMoves DEF OpenInsert, Goto, HasNewId, ScriptPcs
    <3>3. \A d \in Callers : HasNewId(d)' => d # c /\ HasNewId(d)
      BY <3>2 DEF HasNewId
    <3>4. FreshInsert'
      BY <3>1, <3>3 DEF FreshInv, FreshInsert
    <3> QED
      BY <3>1, <3>3, <3>4 DEF FreshInv
  <2>3. CASE ~OpenSet(c) /\ ~OpenInsert(c)
    <3>1. /\ UNCHANGED <<ag, nextId>> /\ runtimes' \subseteq runtimes
          /\ \A d \in Callers \ {c} : pc'[d] = pc[d]
      BY <2>3, <1>1, CallEffect
    <3>2. HasNewId(c)' => HasNewId(c)
      <4>1. CASE OpenCheck(c)
        BY <4>1, <1>t DEF OpenCheck, Goto, HasNewId
      <4>2. CASE pc[c] = "open_set"
        BY <4>2, <2>3, <1>1, CallStepAt DEF HasNewId
      <4>3. CASE ~OpenCheck(c) /\ pc[c] # "open_set"
        BY <4>3, <1>1, CallEffect DEF HasNewId, AdmittedPcs
      <4> QED
        BY <4>1, <4>2, <4>3
    <3>3. \A d \in Callers : HasNewId(d)' => HasNewId(d) /\ ag'[d] = ag[d]
      BY <3>1, <3>2 DEF HasNewId
    <3> QED
      BY <3>1, <3>3, FreshKept
  <2> QED
    BY <2>1, <2>2, <2>3
<1>2. CASE Restart
  BY <1>2 DEF Restart, FreshInv, FreshInsert, HasNewId
<1>3. CASE /\ UNCHANGED <<runtimes, nextId>>
           /\ \A c \in Callers : \/ pc'[c] = pc[c] /\ ag'[c] = ag[c]
                                 \/ pc'[c] \notin AdmittedPcs
  <2>1. \A c \in Callers : HasNewId(c)' => HasNewId(c) /\ ag'[c] = ag[c]
    BY <1>3 DEF HasNewId, AdmittedPcs
  <2> QED
    BY <1>3, <2>1, FreshKept
<1> QED
  BY <1>1, <1>2, <1>3, OtherEffect

(* No open ever overwrites a live runtime, whatever else is being opened,  *)
(* closed or restarted.                                                    *)
THEOREM FreshInsertHolds == Spec => []FreshInsert
<1>1. Init => FreshInv
  BY DEF Init, FreshInv, FreshInsert, HasNewId
<1>2. TypeInv /\ FreshInv /\ [Next]_vars => TypeInv' /\ FreshInv'
  BY TypeStep, FreshStep
<1>3. FreshInv => FreshInsert
  BY DEF FreshInv
<1> QED
  BY TypeInit, <1>1, <1>2, <1>3, PTL DEF Spec

-----------------------------------------------------------------------------
(* What stands behind a runtime.  Time alone takes a stored state away,    *)
(* and whoever is about to write one back has read one that was stored.    *)

(* The state of an agent has been stored in this store.                    *)
Known(i) == Stored(i) \/ kv[i] = Expired

(* The inductive invariant: a state about to be written back was stored.   *)
BackedInv ==
    /\ RuntimeBacked
    /\ \A c \in Callers :
          /\ HasNewId(c) => Known(ag[c])
          /\ pc[c] = "open_insert" => tpc[ag[c]] # "none"
          /\ pc[c] \in {"open_pset", "finding_set"} => readable(buf[c])
    /\ \A t \in Ids : tpc[t] = "set" => readable(tbuf[t])

(* Nothing is in the table at first.                                       *)
LEMMA BackedInit == Init => BackedInv
  BY DEF Init, BackedInv, RuntimeBacked, HasNewId

(* The states and the tasks: what is there stays there, and what is        *)
(* written can be read.                                                    *)
LEMMA CallKeeps ==
    ASSUME TypeInv, BackedInv, NEW c \in Callers, CallStep(c)
    PROVE  /\ \A i \in Ids : kv'[i] = kv[i] \/ readable(kv'[i])
           /\ \A i \in Ids : tpc[i] # "none" => tpc'[i] # "none"
           /\ \A i \in Ids : tpc'[i] = "set" => tpc[i] = "set"
           /\ UNCHANGED tbuf
           /\ \A d \in Callers \ {c} : buf'[d] = buf[d]
           /\ pc'[c] \in {"open_pset", "finding_set"} => readable(buf'[c])
<1>1. /\ kv \in [Ids -> AgentState] /\ buf \in [Callers -> AgentState]
      /\ pc \in [Callers -> CallPcs] /\ tpc \in [Ids -> TaskPcs]
  BY DEF TypeInv, TypeOK, TaskPcs
<1>2. Return(c) => pc'[c] \notin {"open_pset", "finding_set"}
  BY ReturnMoves DEF ScriptPcs
<1>3. CASE OpenCheck(c) \/ OpenSet(c) \/ OpenHset(c) \/ OpenInsert(c)
  BY <1>1, <1>2, <1>3
  DEF OpenCheck, OpenSet, OpenHset, OpenInsert, Stored, readable, Goto, store, tasks
<1>4. CASE OpenParentGet(c) \/ OpenParentSet(c)
  BY <1>1, <1>2, <1>4 DEF OpenParentGet, OpenParentSet, Stored, readable, Goto, store, tasks,
     BackedInv, AgentState
<1>5. CASE AssignGet(c) \/ FindingGet(c) \/ CompleteGet(c) \/ CloseGet(c)
  BY <1>1, <1>2, <1>5 DEF AssignGet, FindingGet, CompleteGet, CloseGet, ReadState, Stored, Goto,
     store, tasks
<1>6. CASE AssignSet(c) \/ FindingSet(c) \/ CompleteSet(c) \/ CloseSet(c)
  <2>1. /\ UNCHANGED <<tpc, tbuf, buf>>
        /\ pc'[c] \notin {"open_pset", "finding_set"}
    BY <1>1, <1>2, <1>6 DEF AssignSet, FindingSet, CompleteSet, CloseSet, WriteState, Goto, tasks
  <2>2. \/ UNCHANGED kv
        \/ \E s : kv' = [kv EXCEPT ![ag[c]] = s] /\ readable(s)
    <3>1. CASE AssignSet(c) \/ CompleteSet(c) \/ CloseSet(c)
      <4>1. /\ [buf[c] EXCEPT !.status = "Running", !.steps = @ + 1].status = "Running"
            /\ [buf[c] EXCEPT !.status = "Completed"].status = "Completed"
        BY <1>1 DEF AgentState
      <4> QED
        BY <3>1, <4>1 DEF AssignSet, CompleteSet, CloseSet, WriteState, readable
    <3>2. CASE FindingSet(c)
      <4>1. buf[c] \in AgentState /\ readable(buf[c])
        BY <3>2, <1>1 DEF FindingSet, WriteState, BackedInv
      <4>2. PICK s : s = [buf[c] EXCEPT !.steps = @ + 1]
        OBVIOUS
      <4>3. readable(s)
        BY <4>1, <4>2 DEF AgentState, readable
      <4> QED
        BY <3>2, <4>2, <4>3 DEF FindingSet, WriteState
    <3> QED
      BY <1>6, <3>1, <3>2
  <2> QED
    BY <1>1, <2>1, <2>2 DEF Stored
<1>7. CASE SendLock(c) \/ SendPush(c) \/ FindingXadd(c) \/ CompleteHset(c) \/ Eval(c)
  BY <1>1, <1>2, <1>7 DEF SendLock, SendPush, FindingXadd, CompleteHset, Eval, Stored, Goto,
     store, tasks
<1>8. CASE CloseRemove(c) \/ CloseHset(c) \/ CloseEnd(c)
  BY <1>1, <1>2, <1>8 DEF CloseRemove, CloseHset, CloseEnd, Stored, Goto, store, tasks, frame
<1>9. CASE CascadeGet(c) \/ CascadeHset(c) \/ CascadeRemove(c)
  BY <1>1, <1>9 DEF CascadeGet, CascadeHset, CascadeRemove, Stored, Goto, store, tasks, frame
<1>10. CASE CascadeSet(c)
  BY <1>1, <1>10 DEF CascadeSet, Stored, readable, Goto, tasks, frame, AgentState
<1> QED
  BY <1>3, <1>4, <1>5, <1>6, <1>7, <1>8, <1>9, <1>10
  DEF CallStep, Open, Assign, Send, Complete, Close

(* Every step keeps a state and a task behind every runtime.               *)
LEMMA BackedStep == ASSUME TypeInv, BackedInv, [Next]_vars PROVE BackedInv'
<1>t. /\ kv \in [Ids -> AgentState] /\ tpc \in [Ids -> TaskPcs] /\ tbuf \in [Ids -> AgentState]
      /\ pc \in [Callers -> CallPcs] /\ ag \in [Callers -> Ids \cup {NoId}]
      /\ runtimes \subseteq Ids
      /\ \A c \in Callers : HasNewId(c) => ag[c] \in Ids
  <2>1. \A c \in Callers : HasNewId(c) => ag[c] \in Ids
    BY DEF TypeInv, Control, HasNewId
  <2> QED
    BY <2>1 DEF TypeInv, TypeOK, TaskPcs
<1>1. ASSUME NEW c \in Callers, CallStep(c) PROVE BackedInv'
  <2>1. /\ \A d \in Callers \ {c} : pc'[d] = pc[d] /\ buf'[d] = buf[d]
        /\ \A i \in Ids : Known(i) => Known(i)'
        /\ \A i \in Ids : tpc[i] # "none" => tpc'[i] # "none"
        /\ pc'[c] \in {"open_pset", "finding_set"} => readable(buf'[c])
    BY <1>1, CallEffect, CallKeeps DEF Known, Stored
  <2>2. \A t \in Ids : tpc'[t] = "set" => readable(tbuf'[t])
    BY <1>1, CallKeeps DEF BackedInv
  <2>3. CASE OpenSet(c)
    <3>1. /\ UNCHANGED runtimes /\ \A d \in Callers \ {c} : ag'[d] = ag[d]
          /\ pc'[c] # "open_insert"
      BY <2>3, <1>t DEF OpenSet, Goto, table
    <3>2. HasNewId(c)' => Known(ag[c])'
      <4>1. nextId \in Ids
        BY <2>3, BoundsAssumption DEF OpenSet, Ids, TypeInv, TypeOK
      <4> QED
        BY <2>3, <1>t, <4>1 DEF OpenSet, Goto, HasNewId, Known, Stored, readable
    <3>3. RuntimeBacked'
      BY <3>1, <2>1, <1>t DEF BackedInv, RuntimeBacked, Known
    <3>4. \A d \in Callers \ {c} : HasNewId(d)' => Known(ag[d])'
      BY <3>1, <2>1, <1>t DEF BackedInv, HasNewId
    <3>5. \A d \in Callers \ {c} : pc'[d] = "open_insert" => tpc'[ag'[d]] # "none"
      BY <3>1, <2>1, <1>t DEF BackedInv, HasNewId
    <3> QED
      BY <2>1, <2>2, <3>1, <3>2, <3>3, <3>4, <3>5 DEF BackedInv
  <2>4. CASE ~OpenSet(c)
    <3>1. ag' = ag
      BY <2>4, <1>1, CallEffect
    <3>2. HasNewId(c)' => HasNewId(c)
      <4>1. CASE OpenCheck(c)
        BY <4>1, <1>t DEF OpenCheck, Goto, HasNewId
      <4>2. CASE ~OpenCheck(c)
        BY <4>2, <2>4, <1>1, CallStepAt, CallEffect DEF HasNewId, AdmittedPcs
      <4> QED
        BY <4>1, <4>2
    <3>3. \A d \in Callers : HasNewId(d)' => HasNewId(d)
      BY <3>2, <2>1 DEF HasNewId
    <3>4. \A d \in Callers : HasNewId(d)' => Known(ag[d])'
      BY <3>1, <3>3, <2>1, <1>t DEF BackedInv
    <3>5. pc'[c] = "open_insert" => tpc'[ag[c]] # "none"
      <4>1. pc'[c] = "open_insert" => OpenHset(c)
        BY <1>1, <2>4, <1>t, InsertAfterHset
      <4> QED
        BY <4>1, <1>t DEF OpenHset, HasNewId, Goto
    <3>6. \A d \in Callers : pc'[d] = "open_insert" => tpc'[ag'[d]] # "none"
      BY <3>1, <3>5, <2>1, <1>t DEF BackedInv, HasNewId
    <3>7. RuntimeBacked'
      <4>1. CASE OpenInsert(c)
        <5>1. runtimes' = runtimes \cup {ag[c]} /\ pc[c] = "open_insert" /\ HasNewId(c)
          BY <4>1 DEF OpenInsert, HasNewId
        <5>2. ag[c] \in Ids /\ Known(ag[c]) /\ tpc[ag[c]] # "none"
          BY <5>1, <1>t DEF BackedInv
        <5> QED
          BY <5>1, <5>2, <2>1, <1>t DEF BackedInv, RuntimeBacked, Known
      <4>2. CASE ~OpenInsert(c)
        BY <4>2, <1>1, CallEffect, <2>1, <1>t DEF BackedInv, RuntimeBacked, Known
      <4> QED
        BY <4>1, <4>2
    <3> QED
      BY <2>1, <2>2, <3>4, <3>6, <3>7, <3>1 DEF BackedInv
  <2> QED
    BY <2>3, <2>4
<1>2. ASSUME NEW t \in Ids, TaskStep(t) PROVE BackedInv'
  <2>1. UNCHANGED <<runtimes, pc, buf, ag>>
    BY <1>2 DEF TaskStep, TaskRecv, TaskGet, TaskSet, TaskIdleEnd, table, frame
  <2>2. \A i \in Ids : tpc[i] # "none" => tpc'[i] # "none"
    BY <1>2, <1>t DEF TaskStep, TaskRecv, TaskGet, TaskSet, TaskIdleEnd
  <2>3. \A i \in Ids : Known(i) => Known(i)'
    <3>1. tpc[t] = "set" => readable([tbuf[t] EXCEPT !.steps = @ + 1])
      BY <1>t DEF BackedInv, AgentState, readable
    <3> QED
      BY <1>2, <1>t, <3>1
      DEF TaskStep, TaskRecv, TaskGet, TaskSet, TaskIdleEnd, Known, Stored, store
  <2>4. \A i \in Ids : tpc'[i] = "set" => readable(tbuf'[i])
    BY <1>2, <1>t DEF TaskStep, TaskRecv, TaskGet, TaskSet, TaskIdleEnd, BackedInv, Stored
  <2>5. \A c \in Callers : HasNewId(c)' => HasNewId(c) /\ Known(ag[c])'
    BY <2>1, <2>3, <1>t DEF BackedInv, HasNewId, Known, Stored
  <2>6. \A c \in Callers : pc'[c] = "open_insert" => tpc'[ag'[c]] # "none"
    BY <2>1, <2>2, <1>t DEF BackedInv, HasNewId
  <2>7. RuntimeBacked'
    BY <2>1, <2>2, <2>3, <1>t DEF BackedInv, RuntimeBacked, Known
  <2> QED
    BY <2>1, <2>4, <2>5, <2>6, <2>7 DEF BackedInv
<1>3. CASE Restart
  BY <1>3 DEF Restart, BackedInv, RuntimeBacked, HasNewId
<1>4. ASSUME UNCHANGED <<kv, runtimes, tpc, tbuf, buf>>,
             \A c \in Callers : \/ pc'[c] = pc[c] /\ ag'[c] = ag[c]
                               \/ pc'[c] \notin AdmittedPcs \cup {"open_pset", "finding_set"}
      PROVE  BackedInv'
  BY <1>4 DEF BackedInv, RuntimeBacked, HasNewId, Known, Stored, AdmittedPcs
<1>7. ASSUME NEW i \in Ids, Expire(i) PROVE BackedInv'
  <2>1. UNCHANGED <<runtimes, tpc, tbuf, pc, buf, ag>>
    BY <1>7 DEF Expire, table, tasks, frame
  <2>2. \A j \in Ids : Known(j) => Known(j)'
    BY <1>7, <1>t DEF Expire, Known, Stored
  <2>3. \A c \in Callers : HasNewId(c)' => Known(ag[c])'
    BY <2>1, <2>2, <1>t DEF BackedInv, HasNewId, Known, Stored
  <2> QED
    BY <2>1, <2>2, <2>3, <1>t DEF BackedInv, RuntimeBacked, Known
<1>5. CASE UNCHANGED vars
  BY <1>5, <1>4 DEF vars, store, table, tasks, frame
<1>6. ASSUME NEW c \in Callers, NEW first, NEW i, NEW p, NEW rest, Request(c, first, i, p, rest),
             first \in ScriptPcs \cup {"open"}
      PROVE  BackedInv'
  <2>1. UNCHANGED <<kv, runtimes, tpc, tbuf, buf>>
    BY <1>6 DEF Request, store, table, tasks
  <2>2. /\ pc'[c] \notin AdmittedPcs \cup {"open_pset", "finding_set"}
        /\ \A d \in Callers \ {c} : pc'[d] = pc[d] /\ ag'[d] = ag[d]
    BY <1>6, <1>t DEF Request, Goto, AdmittedPcs, ScriptPcs, TypeInv, TypeOK
  <2> QED
    BY <2>1, <2>2, <1>4
<1> QED
  BY <1>1, <1>2, <1>3, <1>5, <1>6, <1>7, RequestSteps DEF Next

(* Whatever Redis command fails, whenever the process restarts, and        *)
(* however long an agent lives, an agent in the table has a task and had   *)
(* its state stored; what cannot be read any more has expired.             *)
THEOREM RuntimeBackedHolds == Spec => []RuntimeBacked
<1>1. TypeInv /\ BackedInv /\ [Next]_vars => TypeInv' /\ BackedInv'
  BY TypeStep, BackedStep
<1>2. BackedInv => RuntimeBacked
  BY DEF BackedInv
<1> QED
  BY TypeInit, BackedInit, <1>1, <1>2, PTL DEF Spec

-----------------------------------------------------------------------------
(* Requests that nobody disturbs.  Each caller has an agent of its own:    *)
(* then an MCP connection finds its agent as it left it, and a task chain  *)
(* can close what it opened.                                               *)

(* No store that fails, no agent with a parent, no command on an agent     *)
(* that the caller did not open itself.                                    *)
Undisturbed == ~Connected /\ ~Nested /\ Commands \subseteq {"create", "chain"}

(* Every caller works on an agent of its own.                              *)
Owned ==
    \A c \in Callers : /\ ag[c] < nextId
                       /\ \A d \in Callers \ {c} : ag[c] = ag[d] => ag[c] = NoId
(* No agent has children.                                                  *)
Childless ==
    /\ \A i \in Ids : kv[i].children = <<>> /\ tbuf[i].children = <<>>
    /\ \A c \in Callers : buf[c].children = <<>> /\ kids[c] = <<>> /\ par[c] = NoId
(* The task of an agent that an MCP connection works on has nothing to do. *)
Quiet ==
    \A t \in Ids : inbox[t] > 0 \/ tpc[t] \in {"get", "set"} =>
        t < nextId /\ \A c \in Conns : ag[c] # t

(* Where a request of an MCP connection is, and what is stored of its      *)
(* agent there.                                                            *)
HasState(s, n) == readable(s) /\ s.steps = n
Served(c) ==
    \/ pc[c] = "idle"
    \/ /\ pc[c] \in {"open", "open_set", "open_hset", "open_insert"}
       /\ script[c] = <<"assign", "finding", "complete", "eval">>
       /\ HasNewId(c) => HasState(kv[ag[c]], 0)
    \/ /\ pc[c] \in {"assign", "assign_set"} /\ script[c] = <<"finding", "complete", "eval">>
       /\ HasState(kv[ag[c]], 0) /\ (pc[c] = "assign_set" => HasState(buf[c], 0))
    \/ /\ pc[c] \in {"finding", "finding_get", "finding_set"} /\ script[c] = <<"complete", "eval">>
       /\ HasState(kv[ag[c]], 1) /\ (pc[c] = "finding_set" => HasState(buf[c], 1))
    \/ /\ pc[c] \in {"complete", "complete_set"} /\ script[c] = <<"eval">>
       /\ HasState(kv[ag[c]], 2) /\ (pc[c] = "complete_set" => HasState(buf[c], 2))
    \/ /\ pc[c] = "complete_hset" /\ script[c] = <<"eval">>
       /\ HasState(kv[ag[c]], 2) /\ kv[ag[c]].status = "Completed"
    \/ /\ pc[c] = "eval" /\ script[c] = <<>>
       /\ HasState(kv[ag[c]], 2) /\ kv[ag[c]].status = "Completed"

SoloInv == Owned /\ Childless /\ Quiet /\ \A c \in Conns : Served(c)

(* The control point says which step of a manager call comes next.         *)
LEMMA StepsAt ==
    ASSUME NEW c, CallStep(c)
    PROVE  /\ pc[c] # "idle"
           /\ pc[c] = "open" => OpenCheck(c)
           /\ pc[c] = "open_set" => OpenSet(c)
           /\ pc[c] = "open_hset" => OpenHset(c)
           /\ pc[c] = "open_insert" => OpenInsert(c)
           /\ pc[c] = "assign" => AssignGet(c)
           /\ pc[c] = "assign_set" => AssignSet(c)
           /\ pc[c] = "send" => SendLock(c)
           /\ pc[c] = "send_push" => SendPush(c)
           /\ pc[c] = "finding" => FindingXadd(c)
           /\ pc[c] = "finding_get" => FindingGet(c)
           /\ pc[c] = "finding_set" => FindingSet(c)
           /\ pc[c] = "complete" => CompleteGet(c)
           /\ pc[c] = "complete_set" => CompleteSet(c)
           /\ pc[c] = "complete_hset" => CompleteHset(c)
           /\ pc[c] = "eval" => Eval(c)
           /\ pc[c] = "close" => CloseGet(c)
           /\ pc[c] = "close_remove" => CloseRemove(c)
           /\ pc[c] = "close_set" => CloseSet(c)
           /\ pc[c] = "close_hset" => CloseHset(c)
           /\ pc[c] = "cascade" => CascadeGet(c) \/ CloseEnd(c)
           /\ pc[c] = "cascade_set" => CascadeSet(c)
           /\ pc[c] = "cascade_hset" => CascadeHset(c)
           /\ pc[c] = "cascade_remove" => CascadeRemove(c)
           /\ pc[c] = "open_pget" => OpenParentGet(c)
           /\ pc[c] = "open_pset" => OpenParentSet(c)
BY DEF CallStep, Open, Assign, Send, Complete, Close, OpenCheck, OpenSet, OpenHset, OpenInsert,
   OpenParentGet, OpenParentSet, AssignGet, AssignSet, SendLock, SendPush, FindingXadd, FindingGet,
   FindingSet, CompleteGet, CompleteSet, CompleteHset, Eval, CloseGet, CloseRemove, CloseSet,
   CloseHset, CascadeGet, CascadeSet, CascadeHset, CascadeRemove, CloseEnd, ReadState, WriteState

(* The updates of a state leave its children as they are.                  *)
LEMMA UpdatesKeepChildren ==
    ASSUME NEW s \in AgentState
    PROVE  /\ [s EXCEPT !.steps = @ + 1].children = s.children
           /\ [s EXCEPT !.status = "Running", !.steps = @ + 1].children = s.children
           /\ [s EXCEPT !.status = "Completed"].children = s.children
           /\ [s EXCEPT !.steps = @ + 1].status = s.status
           /\ [s EXCEPT !.steps = @ + 1].steps = s.steps + 1
           /\ [s EXCEPT !.status = "Running", !.steps = @ + 1].status = "Running"
           /\ [s EXCEPT !.status = "Running", !.steps = @ + 1].steps = s.steps + 1
           /\ [s EXCEPT !.status = "Completed"].status = "Completed"
           /\ [s EXCEPT !.status = "Completed"].steps = s.steps
BY DEF AgentState

(* A step of a call writes no state but that of the caller's own agent,    *)
(* and leaves the other callers and the tasks alone.                       *)
CallAlone(c) ==
    /\ \A i \in Ids : kv'[i] = kv[i] \/ i = ag'[c]
    /\ \A i \in Ids : kv'[i].children = <<>>
    /\ buf'[c].children = <<>> /\ kids'[c] = <<>> /\ par' = par /\ tbuf' = tbuf
    /\ \A d \in Callers \ {c} : /\ pc'[d] = pc[d] /\ script'[d] = script[d]
                                /\ buf'[d] = buf[d] /\ ag'[d] = ag[d] /\ kids'[d] = kids[d]
    /\ \A t \in Ids : tpc'[t] \in {"get", "set"} => tpc[t] \in {"get", "set"}
    /\ \A t \in Ids : inbox'[t] = inbox[t] \/ (pc[c] = "send_push" /\ t = ag[c])
    /\ \/ ag' = ag /\ nextId' = nextId
       \/ nextId \in Ids /\ ag'[c] = nextId /\ nextId' = nextId + 1
       \/ ag' = ag /\ nextId' = nextId + 1

(* Without failing stores, parents and children every call is alone.       *)
LEMMA CallIsAlone ==
    ASSUME Undisturbed, TypeInv, Childless, NEW c \in Callers, CallStep(c)
    PROVE  CallAlone(c)
<1>1. /\ kv \in [Ids -> AgentState] /\ buf \in [Callers -> AgentState]
      /\ pc \in [Callers -> CallPcs] /\ script \in [Callers -> Seq(CallPcs)]
      /\ tpc \in [Ids -> TaskPcs] /\ kids \in [Callers -> Seq(Ids)]
      /\ ag \in [Callers -> Ids \cup {NoId}] /\ inbox \in [Ids -> 0..ChanCap]
      /\ nextId \in 1..(MaxId + 1)
  BY DEF TypeInv, TypeOK, TaskPcs
<1>2. Return(c) => \A d \in Callers \ {c} : pc'[d] = pc[d] /\ script'[d] = script[d]
  BY ReturnMoves
<1>3. ~OpFails /\ par[c] \notin Ids /\ par[c] = NoId
  BY DEF OpFails, Undisturbed, Childless, Ids, NoId
<1>4. pc[c] \notin {"open_pget", "open_pset", "cascade_set", "cascade_hset", "cascade_remove"}
  BY <1>3 DEF TypeInv, Control, Childless
<1>ch. /\ \A i \in Ids : kv[i].children = <<>>
       /\ buf[c].children = <<>> /\ kids[c] = <<>>
  BY DEF Childless
<1> DEFINE Others == \A d \in Callers \ {c} : /\ pc'[d] = pc[d] /\ script'[d] = script[d]
<1>5. CASE OpenCheck(c) \/ OpenHset(c) \/ OpenInsert(c)
  BY <1>1, <1>2, <1>5, <1>ch DEF OpenCheck, OpenHset, OpenInsert, Goto, store, tasks, CallAlone
<1>6. CASE OpenSet(c)
  <2>1. nextId \in Ids
    BY <1>1, <1>6, BoundsAssumption DEF OpenSet, Ids
  <2>2. /\ ag' = [ag EXCEPT ![c] = nextId] /\ nextId' = nextId + 1
        /\ kv' = [kv EXCEPT ![nextId] = [status |-> "Running", steps |-> 0, parent |-> par[c],
                                         children |-> <<>>]]
        /\ pc' = [pc EXCEPT ![c] = "open_hset"]
        /\ UNCHANGED <<script, inbox, tpc, tbuf, buf, par, kids>>
    BY <1>6, <1>3 DEF OpenSet, Goto, tasks
  <2>3. ag'[c] = nextId /\ \A d \in Callers \ {c} : ag'[d] = ag[d] /\ pc'[d] = pc[d]
    BY <2>2, <1>1
  <2>4. \A i \in Ids : (kv'[i] = kv[i] \/ i = nextId) /\ kv'[i].children = <<>>
    BY <2>1, <2>2, <1>1, <1>ch
  <2> QED
    BY <2>1, <2>2, <2>3, <2>4, <1>ch DEF CallAlone
<1>7. ASSUME NEW here, NEW next, ReadState(c, here, next), here \notin {"idle", "open", "open_set"}
      PROVE  CallAlone(c)
  <2>1. UNCHANGED <<kv, nextId, inbox, tpc, tbuf, ag, par, kids>>
    BY <1>7 DEF ReadState, store, tasks
  <2>2. \A d \in Callers \ {c} : pc'[d] = pc[d] /\ script'[d] = script[d]
    BY <1>1, <1>2, <1>7 DEF ReadState, Goto
  <2>3. buf' = buf \/ (ag[c] \in Ids /\ buf' = [buf EXCEPT ![c] = kv[ag[c]]])
    BY <1>7 DEF ReadState, TypeInv, Control
  <2>4. buf'[c].children = <<>> /\ \A d \in Callers \ {c} : buf'[d] = buf[d]
    BY <2>3, <1>1, <1>ch
  <2> QED
    BY <2>1, <2>2, <2>4, <1>ch DEF CallAlone
<1>8. ASSUME NEW here, NEW next, NEW s, s.children = <<>>, WriteState(c, here, s, next)
      PROVE CallAlone(c)
  BY <1>1, <1>2, <1>8, <1>ch DEF WriteState, Goto, tasks, table, CallAlone
<1>9. CASE Assign(c) \/ Complete(c) \/ CloseGet(c) \/ CloseSet(c)
  <2>1. CASE AssignGet(c) \/ FindingGet(c) \/ CompleteGet(c) \/ CloseGet(c)
    BY <2>1, <1>7 DEF AssignGet, FindingGet, CompleteGet, CloseGet
  <2>2. CASE AssignSet(c) \/ FindingSet(c) \/ CompleteSet(c) \/ CloseSet(c)
    <3>1. /\ [buf[c] EXCEPT !.steps = @ + 1].children = <<>>
          /\ [buf[c] EXCEPT !.status = "Running", !.steps = @ + 1].children = <<>>
          /\ [buf[c] EXCEPT !.status = "Completed"].children = <<>>
      BY <1>1, <1>ch, UpdatesKeepChildren
    <3>2. CASE AssignSet(c)
      BY <3>1, <3>2, <1>8 DEF AssignSet
    <3>3. CASE FindingSet(c)
      BY <3>1, <3>3, <1>8 DEF FindingSet
    <3>4. CASE CompleteSet(c)
      BY <3>1, <3>4, <1>8 DEF CompleteSet
    <3>5. CASE CloseSet(c)
      BY <3>1, <3>5, <1>8 DEF CloseSet
    <3> QED
      BY <2>2, <3>2, <3>3, <3>4, <3>5
  <2>3. CASE FindingXadd(c) \/ CompleteHset(c)
    BY <2>3, <1>1, <1>2, <1>ch DEF FindingXadd, CompleteHset, Goto, store, tasks, table, CallAlone
  <2> QED
    BY <1>9, <2>1, <2>2, <2>3 DEF Assign, Complete
<1>10. CASE Send(c) \/ Eval(c)
  BY <1>10, <1>1, <1>2, <1>ch
  DEF Send, SendLock, SendPush, Eval, Goto, store, tasks, table, CallAlone
<1>11. CASE CloseRemove(c) \/ CloseHset(c) \/ CloseEnd(c)
  BY <1>11, <1>1, <1>2, <1>ch
  DEF CloseRemove, RemoveRuntime, CloseHset, CloseEnd, Goto, store, tasks, table, frame, CallAlone
<1> QED
  BY <1>4, <1>5, <1>6, <1>9, <1>10, <1>11, <1>ch
  DEF CallStep, Open, Close, OpenParentGet, OpenParentSet, CascadeGet, CascadeSet, CascadeHset,
      CascadeRemove

(* One step of a request of an MCP connection.                             *)
LEMMA ServedCall ==
    ASSUME Undisturbed, TypeInv, Childless, NEW c \in Conns, Served(c), CallStep(c)
    PROVE  Served(c)'
<1>c. c \in Callers /\ c # Operator
  BY CallersAssumption DEF Callers
<1>1. /\ kv \in [Ids -> AgentState] /\ buf \in [Callers -> AgentState]
      /\ pc \in [Callers -> CallPcs] /\ script \in [Callers -> Seq(CallPcs)]
      /\ ag \in [Callers -> Ids \cup {NoId}]
      /\ par[c] = NoId /\ kids[c] = <<>> /\ ~OpFails /\ XaddAnswers = {"ok"}
  BY <1>c DEF TypeInv, TypeOK, Childless, OpFails, XaddAnswers, Undisturbed
<1>2. pc[c] \notin {"idle", "open", "open_set"} => ag[c] \in Ids
  BY <1>c DEF TypeInv, Control
<1> USE DEF Goto
<1>4. CASE pc[c] \in {"open", "open_set", "open_hset", "open_insert"}
  <2>0. /\ script[c] = <<"assign", "finding", "complete", "eval">>
        /\ HasNewId(c) => HasState(kv[ag[c]], 0)
    BY <1>4 DEF Served
  <2>1. OpenCheck(c) \/ OpenSet(c) \/ OpenHset(c) \/ OpenInsert(c)
    BY <1>4, StepsAt
  <2>2. CASE OpenCheck(c)
    BY <2>0, <2>2, <1>1, <1>c DEF OpenCheck, Served, HasNewId
  <2>3. CASE OpenSet(c)
    <3>1. nextId \in Ids
      BY <2>3, BoundsAssumption DEF OpenSet, Ids, TypeInv, TypeOK
    <3>2. /\ ag'[c] = nextId /\ kv'[nextId].status = "Running" /\ kv'[nextId].steps = 0
          /\ pc'[c] = "open_hset" /\ script' = script
      BY <2>3, <3>1, <1>1, <1>c DEF OpenSet
    <3> QED
      BY <2>0, <3>2 DEF Served, HasState, readable
  <2>4. CASE OpenHset(c)
    BY <2>0, <2>4, <1>1, <1>c DEF OpenHset, Served, HasNewId
  <2>5. CASE OpenInsert(c)
    <3>1. /\ pc'[c] = "assign" /\ script'[c] = <<"finding", "complete", "eval">>
          /\ ag' = ag /\ kv' = kv
      BY <2>0, <2>5, <1>1, <1>c DEF OpenInsert, Return, store
    <3> QED
      BY <2>0, <2>5, <3>1 DEF Served, OpenInsert, HasNewId
  <2> QED
    BY <2>1, <2>2, <2>3, <2>4, <2>5
<1>5. ASSUME NEW here, NEW next, ReadState(c, here, next), ag[c] \in Ids,
             NEW n, HasState(kv[ag[c]], n)
      PROVE  /\ pc'[c] = next /\ script' = script /\ ag' = ag /\ kv' = kv
             /\ HasState(kv'[ag'[c]], n) /\ HasState(buf'[c], n)
  BY <1>1, <1>5, <1>c DEF ReadState, Stored, readable, HasState, store
<1>6. ASSUME NEW here, NEW next, NEW s, WriteState(c, here, s, next), ag[c] \in Ids
      PROVE  /\ ag' = ag /\ kv'[ag[c]] = s
             /\ next # "return" => pc'[c] = next /\ script' = script
             /\ next = "return" => Return(c)
  BY <1>1, <1>6, <1>c DEF WriteState
<1>7. CASE pc[c] \in {"assign", "assign_set"}
  <2>0. /\ script[c] = <<"finding", "complete", "eval">> /\ ag[c] \in Ids
        /\ HasState(kv[ag[c]], 0) /\ (pc[c] = "assign_set" => HasState(buf[c], 0))
    BY <1>7, <1>2 DEF Served
  <2>1. AssignGet(c) \/ AssignSet(c)
    BY <1>7, StepsAt
  <2>2. CASE AssignGet(c)
    BY <2>0, <2>2, <1>5 DEF AssignGet, Served
  <2>3. CASE AssignSet(c)
    <3>1. pc[c] = "assign_set" /\ HasState(buf[c], 0) /\ buf[c] \in AgentState
      BY <2>0, <2>3, <1>1, <1>c DEF AssignSet, WriteState
    <3>s. HasState([buf[c] EXCEPT !.status = "Running", !.steps = @ + 1], 1)
      BY <3>1, UpdatesKeepChildren DEF HasState, readable
    <3>2. HasState(kv'[ag'[c]], 1) /\ Return(c)
      BY <2>0, <2>3, <3>s, <1>6 DEF AssignSet
    <3>3. pc'[c] = "finding" /\ script'[c] = <<"complete", "eval">>
      BY <2>0, <3>2, <1>1, <1>c DEF Return
    <3> QED
      BY <3>2, <3>3 DEF Served
  <2> QED
    BY <2>1, <2>2, <2>3
<1>8. CASE pc[c] \in {"finding", "finding_get", "finding_set"}
  <2>0. /\ script[c] = <<"complete", "eval">> /\ ag[c] \in Ids
        /\ HasState(kv[ag[c]], 1) /\ (pc[c] = "finding_set" => HasState(buf[c], 1))
    BY <1>8, <1>2 DEF Served
  <2>1. FindingXadd(c) \/ FindingGet(c) \/ FindingSet(c)
    BY <1>8, StepsAt
  <2>2. CASE FindingXadd(c)
    BY <2>0, <2>2, <1>1, <1>c DEF FindingXadd, Served, store
  <2>3. CASE FindingGet(c)
    BY <2>0, <2>3, <1>5 DEF FindingGet, Served
  <2>4. CASE FindingSet(c)
    <3>1. pc[c] = "finding_set" /\ HasState(buf[c], 1) /\ buf[c] \in AgentState
      BY <2>0, <2>4, <1>1, <1>c DEF FindingSet, WriteState
    <3>s. HasState([buf[c] EXCEPT !.steps = @ + 1], 2)
      BY <3>1, UpdatesKeepChildren DEF HasState, readable
    <3>2. HasState(kv'[ag'[c]], 2) /\ Return(c)
      BY <2>0, <2>4, <3>s, <1>6 DEF FindingSet
    <3>3. pc'[c] = "complete" /\ script'[c] = <<"eval">>
      BY <2>0, <3>2, <1>1, <1>c DEF Return
    <3> QED
      BY <3>2, <3>3 DEF Served
  <2> QED
    BY <2>1, <2>2, <2>3, <2>4
<1>9. CASE pc[c] \in {"complete", "complete_set", "complete_hset"}
  <2>0. /\ script[c] = <<"eval">> /\ ag[c] \in Ids /\ HasState(kv[ag[c]], 2)
        /\ pc[c] = "complete_set" => HasState(buf[c], 2)
        /\ pc[c] = "complete_hset" => kv[ag[c]].status = "Completed"
    BY <1>9, <1>2 DEF Served
  <2>1. CompleteGet(c) \/ CompleteSet(c) \/ CompleteHset(c)
    BY <1>9, StepsAt
  <2>2. CASE CompleteGet(c)
    BY <2>0, <2>2, <1>5 DEF CompleteGet, Served
  <2>3. CASE CompleteSet(c)
    <3>1. pc[c] = "complete_set" /\ HasState(buf[c], 2) /\ buf[c] \in AgentState
      BY <2>0, <2>3, <1>1, <1>c DEF CompleteSet, WriteState
    <3>s. /\ HasState([buf[c] EXCEPT !.status = "Completed"], 2)
          /\ [buf[c] EXCEPT !.status = "Completed"].status = "Completed"
      BY <3>1, UpdatesKeepChildren DEF HasState, readable
    <3>2. /\ HasState(kv'[ag'[c]], 2) /\ kv'[ag'[c]].status = "Completed"
          /\ pc'[c] = "complete_hset" /\ script' = script
      BY <2>0, <2>3, <3>s, <1>6 DEF CompleteSet
    <3> QED
      BY <2>0, <3>2 DEF Served
  <2>4. CASE CompleteHset(c)
    <3>1. pc'[c] = "eval" /\ script'[c] = <<>>
      BY <2>0, <2>4, <1>1, <1>c DEF CompleteHset, Return
    <3> QED
      BY <2>0, <2>4, <3>1 DEF Served, CompleteHset
  <2> QED
    BY <2>1, <2>2, <2>3, <2>4
<1>10. CASE pc[c] = "eval"
  <2>1. Return(c) /\ script[c] = <<>>
    BY <1>10, StepsAt DEF Eval, Served
  <2> QED
    BY <2>1, <1>1, <1>c DEF Return, Served
<1>11. CASE pc[c] = "idle"
    BY <1>11, StepsAt
<1> QED
  BY <1>4, <1>7, <1>8, <1>9, <1>10, <1>11 DEF Served

(* What an MCP connection relies on is not touched by the steps of others. *)
LEMMA ServedKept ==
    ASSUME TypeInv, NEW c \in Conns, Served(c),
           pc'[c] = pc[c], script'[c] = script[c], buf'[c] = buf[c], ag'[c] = ag[c],
           ag[c] \in Ids => kv'[ag[c]] = kv[ag[c]]
    PROVE  Served(c)'
<1>1. c \in Callers
  BY DEF Callers
<1>2. pc[c] \notin {"idle", "open", "open_set"} => ag[c] \in Ids
  BY <1>1 DEF TypeInv, Control
<1>3. HasNewId(c)' = HasNewId(c)
  BY DEF HasNewId
<1>4. HasNewId(c) => ag[c] \in Ids
  BY <1>2 DEF HasNewId
<1> QED
  BY <1>2, <1>3, <1>4 DEF Served

(* Every step keeps the requests apart.                                    *)
LEMMA SoloStep == ASSUME Undisturbed, TypeInv, SoloInv, [Next]_vars PROVE SoloInv'
<1>0. /\ Owned /\ Childless /\ Quiet /\ \A c \in Conns : Served(c)
      /\ Conns \subseteq Callers /\ Operator \in Callers /\ Operator \notin Conns
  BY CallersAssumption DEF SoloInv, Callers
<1>t. /\ kv \in [Ids -> AgentState] /\ tpc \in [Ids -> TaskPcs] /\ tbuf \in [Ids -> AgentState]
      /\ pc \in [Callers -> CallPcs] /\ ag \in [Callers -> Ids \cup {NoId}]
      /\ buf \in [Callers -> AgentState] /\ inbox \in [Ids -> 0..ChanCap]
      /\ script \in [Callers -> Seq(CallPcs)] /\ par \in [Callers -> Ids \cup {NoId}]
      /\ kids \in [Callers -> Seq(Ids)]
      /\ nextId \in Nat /\ nextId >= 1 /\ Ids \subseteq Nat /\ NoId = 0 /\ NoId \notin Ids
  BY BoundsAssumption DEF TypeInv, TypeOK, TaskPcs, Ids, NoId
<1>n. ASSUME NEW d \in Callers PROVE ag[d] \in Nat /\ ag[d] < nextId
  <2>1. ag[d] \in Ids \/ ag[d] = NoId
    BY <1>t
  <2>2. ag[d] \in Nat
    <3>1. Ids \subseteq Nat /\ NoId \in Nat
      BY DEF Ids, NoId
    <3> QED
      BY <2>1, <3>1
  <2> QED
    BY <2>2, <1>0 DEF Owned
<1>1. ASSUME NEW c \in Callers, CallStep(c) PROVE SoloInv'
  <2>1. CallAlone(c)
    BY <1>0, <1>1, CallIsAlone
  <2>2. Owned'
    <3>1. CASE ag' = ag
      <4>1. nextId' = nextId \/ nextId' = nextId + 1
        BY <2>1, <3>1 DEF CallAlone
      <4>2. \A d \in Callers : ag[d] \in Nat /\ ag[d] < nextId
        BY <1>n
      <4>3. \A d \in Callers : ag[d] < nextId'
        BY <1>t, <4>1, <4>2
      <4> QED
        BY <1>0, <3>1, <4>3 DEF Owned
    <3>2. CASE nextId \in Ids /\ ag'[c] = nextId /\ nextId' = nextId + 1
      <4>1. \A d \in Callers \ {c} : ag'[d] = ag[d]
        BY <2>1 DEF CallAlone
      <4>2. \A d \in Callers : ag[d] \in Nat /\ ag[d] < nextId
        BY <1>n
      <4>3. \A d \in Callers \ {c} : ag'[d] # ag'[c] /\ ag'[d] < nextId'
        BY <3>2, <4>1, <4>2, <1>t
      <4>4. ag'[c] < nextId'
        BY <3>2, <1>t
      <4>5. ASSUME NEW d \in Callers, NEW e \in Callers \ {d}, ag'[d] = ag'[e] PROVE ag'[d] = NoId
        <5>1. d # c /\ e # c
          BY <4>3, <4>5
        <5> QED
          BY <5>1, <4>1, <4>5, <1>0 DEF Owned
      <4> QED
        BY <4>3, <4>4, <4>5 DEF Owned
    <3> QED
      BY <2>1, <3>1, <3>2 DEF CallAlone
  <2>3. Childless'
    BY <2>1, <1>0 DEF CallAlone, Childless
  <2>4. Quiet'
    <3> SUFFICES ASSUME NEW t \in Ids, inbox'[t] > 0 \/ tpc'[t] \in {"get", "set"}
                 PROVE  t < nextId' /\ \A d \in Conns : ag'[d] # t
      BY DEF Quiet
    <3>1. t < nextId /\ \A d \in Conns : ag[d] # t
      <4>1. CASE inbox[t] > 0 \/ tpc[t] \in {"get", "set"}
        BY <4>1, <1>0 DEF Quiet
      <4>2. CASE ~(inbox[t] > 0 \/ tpc[t] \in {"get", "set"})
        <5>1. pc[c] = "send_push" /\ t = ag[c]
          BY <2>1, <4>2 DEF CallAlone
        <5>2. c \notin Conns
          BY <1>0, <5>1 DEF Served
        <5>3. t < nextId
          BY <1>0, <5>1 DEF Owned
        <5>4. \A d \in Conns : ag[d] # t
          BY <1>0, <1>t, <5>1, <5>2 DEF Owned
        <5> QED
          BY <5>3, <5>4
      <4> QED
        BY <4>1, <4>2
    <3>2. t \in Nat
      BY <1>t
    <3>3. nextId' = nextId \/ nextId' = nextId + 1
      BY <2>1 DEF CallAlone
    <3>4. t < nextId'
      BY <3>1, <3>2, <3>3, <1>t
    <3>5. \A d \in Conns : ag'[d] = ag[d] \/ ag'[d] = nextId
      BY <2>1, <1>0 DEF CallAlone
    <3> QED
      <4>1. t # nextId
        BY <3>1, <3>2, <1>t
      <4> QED
        BY <3>1, <3>4, <3>5, <4>1
  <2>5. ASSUME NEW d \in Conns PROVE Served(d)'
    <3>1. CASE d = c
      BY <1>0, <1>1, <3>1, ServedCall
    <3>2. CASE d # c
      <4>1. pc'[d] = pc[d] /\ script'[d] = script[d] /\ buf'[d] = buf[d] /\ ag'[d] = ag[d]
        BY <2>1, <1>0, <3>2 DEF CallAlone
      <4>2. ASSUME ag[d] \in Ids PROVE kv'[ag[d]] = kv[ag[d]]
        <5>1. ag'[d] # ag'[c]
          BY <2>2, <1>0, <1>t, <3>2, <4>1, <4>2 DEF Owned
        <5> QED
          BY <2>1, <4>1, <4>2, <5>1 DEF CallAlone
      <4> QED
        BY <1>0, <4>1, <4>2, ServedKept
    <3> QED
      BY <3>1, <3>2
  <2> QED
    BY <2>2, <2>3, <2>4, <2>5 DEF SoloInv
<1>2. ASSUME NEW t \in Ids, TaskStep(t) PROVE SoloInv'
  <2>1. UNCHANGED <<nextId, pc, buf, ag, par, script, kids>>
    BY <1>2 DEF TaskStep, TaskRecv, TaskGet, TaskSet, TaskIdleEnd, frame
  <2>2. /\ \A i \in Ids : kv'[i] = kv[i] \/ (i = t /\ tpc[t] = "set")
        /\ \A i \in Ids : kv'[i].children = <<>>
    <3>1. [tbuf[t] EXCEPT !.steps = @ + 1].children = <<>>
      BY <1>0, <1>t, UpdatesKeepChildren DEF Childless
    <3> QED
      BY <1>0, <1>2, <1>t, <3>1
      DEF TaskStep, TaskRecv, TaskGet, TaskSet, TaskIdleEnd, Childless, store
  <2>3. \A i \in Ids : tbuf'[i].children = <<>>
    BY <1>0, <1>2, <1>t DEF TaskStep, TaskRecv, TaskGet, TaskSet, TaskIdleEnd, Childless
  <2>4. \A i \in Ids : inbox'[i] > 0 \/ tpc'[i] \in {"get", "set"}
                          => inbox[i] > 0 \/ tpc[i] \in {"get", "set"}
    <3>1. CASE TaskRecv(t)
      BY <1>t, <3>1 DEF TaskRecv
    <3>2. CASE TaskGet(t) \/ TaskSet(t)
      BY <1>t, <3>2 DEF TaskGet, TaskSet
    <3>3. CASE TaskIdleEnd(t)
      BY <1>t, <3>3 DEF TaskIdleEnd
    <3> QED
      BY <1>2, <3>1, <3>2, <3>3 DEF TaskStep
  <2>5. Owned' /\ Childless'
    BY <1>0, <2>1, <2>2, <2>3 DEF Owned, Childless
  <2>6. Quiet'
    BY <1>0, <2>1, <2>4 DEF Quiet
  <2>7. ASSUME NEW d \in Conns PROVE Served(d)'
    <3>1. ag[d] \in Ids => kv'[ag[d]] = kv[ag[d]]
      BY <1>0, <2>2 DEF Quiet
    <3> QED
      BY <1>0, <2>1, <3>1, ServedKept
  <2> QED
    BY <2>5, <2>6, <2>7 DEF SoloInv
<1>3. CASE Restart
  <2>1. /\ \A i \in Ids : kv'[i] = Absent /\ tbuf'[i] = Absent /\ inbox'[i] = 0 /\ tpc'[i] = "none"
        /\ \A c \in Callers : /\ pc'[c] = "idle" /\ buf'[c] = Absent /\ kids'[c] = <<>>
                              /\ ag'[c] = NoId /\ par'[c] = NoId
        /\ nextId' = 1
    BY <1>3 DEF Restart, Undisturbed
  <2>2. Absent.children = <<>>
    BY DEF Absent
  <2>3. Owned' /\ Childless'
    BY <2>1, <2>2, <1>t DEF Owned, Childless
  <2>4. Quiet'
    BY <2>1 DEF Quiet
  <2>5. \A c \in Conns : Served(c)'
    BY <1>0, <2>1 DEF Served
  <2> QED
    BY <2>3, <2>4, <2>5 DEF SoloInv
<1>4. ASSUME NEW c \in Callers, NEW rest, Request(c, "open", NoId, NoId, rest),
             c \in Conns => rest = <<"assign", "finding", "complete", "eval">>
      PROVE  SoloInv'
  <2>1. /\ UNCHANGED <<kv, nextId, inbox, tpc, tbuf, buf, kids>>
        /\ ag' = [ag EXCEPT ![c] = NoId] /\ par' = [par EXCEPT ![c] = NoId]
        /\ pc' = [pc EXCEPT ![c] = "open"] /\ script' = [script EXCEPT ![c] = rest]
    BY <1>4 DEF Request, Goto, store, tasks
  <2>2. Owned'
    <3>1. \A d \in Callers : ag'[d] = NoId \/ ag'[d] = ag[d]
      BY <2>1, <1>t
    <3>2. \A d \in Callers : ag'[d] < nextId
      <4>1. NoId < nextId
        BY <1>t
      <4> QED
        BY <3>1, <4>1, <1>n
    <3>3. ASSUME NEW d \in Callers, NEW e \in Callers \ {d}, ag'[d] = ag'[e] PROVE ag'[d] = NoId
      BY <3>1, <3>3, <1>0 DEF Owned
    <3> QED
      BY <2>1, <3>2, <3>3 DEF Owned
  <2>3. Childless'
    BY <2>1, <1>0, <1>t DEF Childless
  <2>4. Quiet'
    BY <2>1, <1>0, <1>t DEF Quiet
  <2>5. ASSUME NEW d \in Conns PROVE Served(d)'
    <3>1. CASE d = c
      BY <2>1, <3>1, <1>t, <1>0, <1>4 DEF Served, HasNewId
    <3>2. CASE d # c
      BY <2>1, <3>2, <1>t, <1>0, ServedKept
    <3> QED
      BY <3>1, <3>2
  <2> QED
    BY <2>2, <2>3, <2>4, <2>5 DEF SoloInv
<1>5. CASE \/ \E c \in Conns : McpToolsCall(c)
           \/ AgentCreate \/ ChainStep
           \/ \E command \in {"close", "send", "assign"} : OnAgent(command)
  <2>1. CASE \E c \in Conns : McpToolsCall(c)
    BY <2>1, <1>0, <1>4 DEF McpToolsCall
  <2>2. CASE AgentCreate
    <3>1. Request(Operator, "open", NoId, NoId, <<>>)
      BY <2>2 DEF AgentCreate, Undisturbed
    <3> QED
      BY <3>1, <1>0, <1>4
  <2>3. CASE ChainStep
    BY <2>3, <1>0, <1>4 DEF ChainStep
  <2>4. ASSUME NEW command \in {"close", "send", "assign"}, OnAgent(command) PROVE FALSE
    BY <2>4 DEF OnAgent, Undisturbed
  <2> QED
    BY <1>5, <2>1, <2>2, <2>3, <2>4
<1>6. CASE UNCHANGED vars
  <2>1. UNCHANGED <<kv, nextId, inbox, tpc, tbuf, pc, buf, ag, par, script, kids>>
    BY <1>6 DEF vars, store, tasks, frame
  <2>2. Owned' /\ Childless' /\ Quiet'
    BY <2>1, <1>0 DEF Owned, Childless, Quiet
  <2>3. \A c \in Conns : Served(c)'
    BY <2>1, <1>0, ServedKept
  <2> QED
    BY <2>2, <2>3 DEF SoloInv
<1>7. \A i \in Ids : ~Expire(i)
  BY DEF Expire, Undisturbed
<1> QED
  BY <1>1, <1>2, <1>3, <1>5, <1>6, <1>7 DEF Next

(* No request is under way at first.                                       *)
LEMMA SoloInit == ASSUME Init PROVE SoloInv
<1>1. /\ \A i \in Ids : kv[i] = Absent /\ tbuf[i] = Absent /\ inbox[i] = 0 /\ tpc[i] = "none"
      /\ \A c \in Callers : /\ pc[c] = "idle" /\ buf[c] = Absent /\ kids[c] = <<>>
                            /\ ag[c] = NoId /\ par[c] = NoId
      /\ nextId = 1
  BY DEF Init
<1>2. Absent.children = <<>>
  BY DEF Absent
<1>3. Owned /\ Childless
  BY <1>1, <1>2 DEF Owned, Childless, NoId
<1>4. Quiet
  BY <1>1 DEF Quiet
<1>5. \A c \in Conns : Served(c)
  BY <1>1 DEF Served, Callers
<1> QED
  BY <1>3, <1>4, <1>5 DEF SoloInv

(* Without Redis, and as long as the operator gives no command on an agent *)
(* of somebody else, agent_eval at the end of tools/call finds the         *)
(* connection's own agent completed, with the two steps of this request,   *)
(* however many connections are served at once.                            *)
THEOREM McpAnswerHolds == ASSUME Undisturbed PROVE Spec => []McpAnswer
<1>1. TypeInv /\ SoloInv /\ [Next]_vars => TypeInv' /\ SoloInv'
  BY TypeStep, SoloStep
<1>2. SoloInv => McpAnswer
  BY DEF SoloInv, Served, McpAnswer, HasState
<1>3. Init => SoloInv
  BY SoloInit
<1> QED
  BY TypeInit, <1>1, <1>2, <1>3, PTL DEF Spec

-----------------------------------------------------------------------------
(* The slot of a task chain.                                               *)

(* Where the operator's task chain is, and that its agent is stored until  *)
(* it is closed and out of the table from then on.                         *)
Chained ==
    \/ pc[Operator] = "idle" /\ ag[Operator] \notin runtimes
    \/ /\ pc[Operator] \in {"open", "open_set", "open_hset", "open_insert"}
       /\ script[Operator] = <<"assign", "send", "close">>
       /\ HasNewId(Operator) => Stored(ag[Operator])
       /\ pc[Operator] = "open" => ag[Operator] = NoId
    \/ /\ pc[Operator] \in {"assign", "assign_set"} /\ script[Operator] = <<"send", "close">>
       /\ Stored(ag[Operator])
    \/ /\ pc[Operator] \in {"send", "send_push"} /\ script[Operator] = <<"close">>
       /\ Stored(ag[Operator])
    \/ /\ pc[Operator] \in {"close", "close_remove"} /\ script[Operator] = <<>>
       /\ Stored(ag[Operator])
    \/ /\ pc[Operator] \in {"close_set", "close_hset", "cascade"} /\ script[Operator] = <<>>
       /\ ag[Operator] \notin runtimes

(* One step of a task chain.                                               *)
LEMMA ChainedCall ==
    ASSUME Undisturbed, TypeInv, Childless, Chained, CallStep(Operator)
    PROVE  Chained'
<1> DEFINE c == Operator
<1>c. c \in Callers
  BY DEF Callers
<1>1. /\ kv \in [Ids -> AgentState] /\ buf \in [Callers -> AgentState]
      /\ pc \in [Callers -> CallPcs] /\ script \in [Callers -> Seq(CallPcs)]
      /\ ag \in [Callers -> Ids \cup {NoId}] /\ runtimes \subseteq Ids
      /\ kids[c] = <<>> /\ par[c] = NoId /\ ~OpFails /\ NoId \notin Ids
  BY <1>c DEF TypeInv, TypeOK, Childless, OpFails, Undisturbed, Ids, NoId
<1>2. pc[c] \notin {"idle", "open", "open_set"} => ag[c] \in Ids
  BY <1>c DEF TypeInv, Control
<1> USE DEF Goto
<1>4. CASE pc[c] \in {"open", "open_set", "open_hset", "open_insert"}
  <2>0. /\ script[c] = <<"assign", "send", "close">> /\ (HasNewId(c) => Stored(ag[c]))
        /\ pc[c] = "open" => ag[c] = NoId
    BY <1>4 DEF Chained
  <2>1. OpenCheck(c) \/ OpenSet(c) \/ OpenHset(c) \/ OpenInsert(c)
    BY <1>4, StepsAt
  <2>2. CASE OpenCheck(c)
    BY <2>0, <2>2, <1>1, <1>c DEF OpenCheck, Chained, HasNewId, table
  <2>3. CASE OpenSet(c)
    <3>1. nextId \in Ids
      BY <2>3, BoundsAssumption DEF OpenSet, Ids, TypeInv, TypeOK
    <3>2. /\ ag'[c] = nextId /\ kv'[nextId].status = "Running"
          /\ pc'[c] = "open_hset" /\ script' = script
      BY <2>3, <3>1, <1>1, <1>c DEF OpenSet
    <3> QED
      BY <2>0, <3>2 DEF Chained, Stored, readable
  <2>4. CASE OpenHset(c)
    BY <2>0, <2>4, <1>1, <1>c DEF OpenHset, Chained, HasNewId, Stored
  <2>5. CASE OpenInsert(c)
    <3>1. /\ pc'[c] = "assign" /\ script'[c] = <<"send", "close">>
          /\ ag' = ag /\ kv' = kv
      BY <2>0, <2>5, <1>1, <1>c DEF OpenInsert, Return, store
    <3> QED
      BY <2>0, <2>5, <3>1 DEF Chained, OpenInsert, HasNewId, Stored
  <2> QED
    BY <2>1, <2>2, <2>3, <2>4, <2>5
<1>5. ASSUME NEW here, NEW next, ReadState(c, here, next), Stored(ag[c])
      PROVE  pc'[c] = next /\ script' = script /\ ag' = ag /\ Stored(ag[c])'
  BY <1>1, <1>5, <1>c DEF ReadState, Stored, store
<1>6. CASE pc[c] \in {"assign", "assign_set"}
  <2>0. script[c] = <<"send", "close">> /\ ag[c] \in Ids /\ Stored(ag[c])
    BY <1>6, <1>2 DEF Chained
  <2>1. AssignGet(c) \/ AssignSet(c)
    BY <1>6, StepsAt
  <2>2. CASE AssignGet(c)
    BY <2>0, <2>2, <1>5 DEF AssignGet, Chained
  <2>3. CASE AssignSet(c)
    <3>1. ag' = ag /\ kv'[ag[c]].status = "Running" /\ Return(c)
      <4>1. [buf[c] EXCEPT !.status = "Running", !.steps = @ + 1].status = "Running"
        BY <1>1, <1>c, UpdatesKeepChildren
      <4> QED
        BY <4>1, <2>0, <2>3, <1>1 DEF AssignSet, WriteState
    <3>2. pc'[c] = "send" /\ script'[c] = <<"close">>
      BY <2>0, <3>1, <1>1, <1>c DEF Return
    <3> QED
      BY <3>1, <3>2 DEF Chained, Stored, readable
  <2> QED
    BY <2>1, <2>2, <2>3
<1>7. CASE pc[c] \in {"send", "send_push"}
  <2>0. script[c] = <<"close">> /\ ag[c] \in Ids /\ Stored(ag[c])
    BY <1>7, <1>2 DEF Chained
  <2>1. Return(c) => pc'[c] = "close" /\ script'[c] = <<>>
    BY <2>0, <1>1, <1>c DEF Return
  <2>2. CASE SendLock(c)
    BY <2>0, <2>1, <2>2, <1>1, <1>c DEF SendLock, Chained, Stored, store
  <2>3. CASE SendPush(c)
    BY <2>0, <2>1, <2>3 DEF SendPush, Chained, Stored, store
  <2> QED
    BY <1>7, <2>2, <2>3, StepsAt
<1>8. CASE pc[c] \in {"close", "close_remove"}
  <2>0. script[c] = <<>> /\ ag[c] \in Ids /\ Stored(ag[c])
    BY <1>8, <1>2 DEF Chained
  <2>1. CloseGet(c) \/ CloseRemove(c)
    BY <1>8, StepsAt
  <2>2. CASE CloseGet(c)
    BY <2>0, <2>2, <1>5 DEF CloseGet, Chained
  <2>3. CASE CloseRemove(c)
    BY <2>0, <2>3, <1>1, <1>c DEF CloseRemove, RemoveRuntime, Chained
  <2> QED
    BY <2>1, <2>2, <2>3
<1>9. CASE pc[c] \in {"close_set", "close_hset", "cascade"}
  <2>0. script[c] = <<>> /\ ag[c] \notin runtimes
    BY <1>9 DEF Chained
  <2>1. CloseSet(c) \/ CloseHset(c) \/ CloseEnd(c)
    BY <1>9, <1>1, StepsAt DEF CascadeGet
  <2>2. ag' = ag /\ runtimes' = runtimes
    BY <2>1 DEF CloseSet, WriteState, CloseHset, CloseEnd, table, frame
  <2>3. script'[c] = <<>> /\ pc'[c] \in {"close_hset", "cascade", "idle"}
    BY <2>0, <2>1, <1>1, <1>c DEF CloseSet, WriteState, CloseHset, CloseEnd, Return, frame
  <2> QED
    BY <2>0, <2>2, <2>3 DEF Chained
<1>10. pc[c] # "idle"
  BY StepsAt
<1> QED
  BY <1>4, <1>6, <1>7, <1>8, <1>9, <1>10 DEF Chained

(* The steps of others touch neither the chain's agent nor its slot.       *)
LEMMA ChainedKept ==
    ASSUME TypeInv, Chained, pc'[Operator] = pc[Operator], script'[Operator] = script[Operator],
           ag'[Operator] = ag[Operator],
           ag[Operator] \in Ids /\ Stored(ag[Operator]) => Stored(ag[Operator])',
           ag[Operator] \in runtimes' => ag[Operator] \in runtimes
    PROVE  Chained'
<1>1. Operator \in Callers
  BY DEF Callers
<1>2. pc[Operator] \notin {"idle", "open", "open_set"} => ag[Operator] \in Ids
  BY <1>1 DEF TypeInv, Control
<1>3. HasNewId(Operator)' = HasNewId(Operator)
  BY DEF HasNewId
<1>4. HasNewId(Operator) => ag[Operator] \in Ids
  BY <1>2 DEF HasNewId
<1>5. CASE pc[Operator] \in {"open", "open_set", "open_hset", "open_insert"}
  BY <1>2, <1>3, <1>4, <1>5 DEF Chained, Stored
<1>6. CASE pc[Operator] \in {"assign", "assign_set", "send", "send_push", "close", "close_remove"}
  BY <1>2, <1>6 DEF Chained, Stored
<1>7. CASE pc[Operator] \in {"idle", "close_set", "close_hset", "cascade"}
  BY <1>7 DEF Chained
<1> QED
  BY <1>5, <1>6, <1>7 DEF Chained

(* Every step of the system keeps the chain on its way.                    *)
LEMMA ChainedStep ==
    ASSUME Undisturbed, "create" \notin Commands, TypeInv, SoloInv, BackedInv, Chained, [Next]_vars
    PROVE  Chained'
<1>0. /\ Owned /\ Childless
      /\ Conns \subseteq Callers /\ Operator \in Callers /\ Operator \notin Conns
  BY CallersAssumption DEF SoloInv, Callers
<1>t. /\ kv \in [Ids -> AgentState] /\ pc \in [Callers -> CallPcs]
      /\ ag \in [Callers -> Ids \cup {NoId}] /\ tbuf \in [Ids -> AgentState]
      /\ script \in [Callers -> Seq(CallPcs)] /\ NoId \notin Ids
  BY DEF TypeInv, TypeOK, Ids, NoId
<1>1. ASSUME NEW c \in Callers, CallStep(c) PROVE Chained'
  <2>1. CASE c = Operator
    BY <1>0, <1>1, <2>1, ChainedCall
  <2>2. CASE c # Operator
    <3>1. CallAlone(c)
      BY <1>0, <1>1, CallIsAlone
    <3>2. pc'[Operator] = pc[Operator] /\ script'[Operator] = script[Operator]
          /\ ag'[Operator] = ag[Operator]
      BY <1>0, <2>2, <3>1 DEF CallAlone
    <3>3. \A i \in Ids : Stored(i) => Stored(i)'
      BY <1>1, CallKeeps DEF Stored
    <3>4. ag[Operator] \in runtimes' => ag[Operator] \in runtimes
      <4>1. CASE OpenInsert(c)
        <5>1. runtimes' = runtimes \cup {ag[c]} /\ ag[c] \in Ids
          BY <4>1 DEF OpenInsert, TypeInv, Control
        <5>2. ag[c] # ag[Operator]
          BY <1>0, <1>t, <2>2, <5>1 DEF Owned
        <5> QED
          BY <5>1, <5>2
      <4>2. CASE ~OpenInsert(c)
        BY <4>2, <1>1, CallEffect
      <4> QED
        BY <4>1, <4>2
    <3> QED
      BY <3>2, <3>3, <3>4, ChainedKept
  <2> QED
    BY <2>1, <2>2
<1>2. ASSUME NEW t \in Ids, TaskStep(t) PROVE Chained'
  <2>1. UNCHANGED <<runtimes, pc, ag, script>>
    BY <1>2 DEF TaskStep, TaskRecv, TaskGet, TaskSet, TaskIdleEnd, table, frame
  <2>2. \A i \in Ids : Stored(i) => Stored(i)'
    <3>1. tpc[t] = "set" => readable([tbuf[t] EXCEPT !.steps = @ + 1])
      BY <1>t, UpdatesKeepChildren DEF BackedInv, readable
    <3> QED
      BY <1>2, <1>t, <3>1
      DEF TaskStep, TaskRecv, TaskGet, TaskSet, TaskIdleEnd, Stored, store
  <2> QED
    BY <2>1, <2>2, ChainedKept
<1>3. CASE Restart
  BY <1>3, <1>0 DEF Restart, Chained
<1>4. ASSUME NEW c \in Conns, McpToolsCall(c) PROVE Chained'
  <2>1. /\ UNCHANGED <<kv, runtimes>> /\ pc'[Operator] = pc[Operator]
        /\ script'[Operator] = script[Operator] /\ ag'[Operator] = ag[Operator]
    BY <1>0, <1>t, <1>4 DEF McpToolsCall, Request, Goto, store, table
  <2> QED
    BY <2>1, ChainedKept DEF Stored
<1>5. CASE ChainStep
  <2>1. /\ pc'[Operator] = "open" /\ ag'[Operator] = NoId
        /\ script'[Operator] = <<"assign", "send", "close">>
    BY <1>0, <1>t, <1>5 DEF ChainStep, Request, Goto
  <2> QED
    BY <2>1 DEF Chained, HasNewId
<1>6. ~AgentCreate /\ \A command \in {"close", "send", "assign"} : ~OnAgent(command)
  BY DEF AgentCreate, OnAgent, Undisturbed
<1>8. \A i \in Ids : ~Expire(i)
  BY DEF Expire, Undisturbed
<1>7. CASE UNCHANGED vars
  BY <1>7, ChainedKept DEF vars, store, table, frame, Stored
<1> QED
  BY <1>1, <1>2, <1>3, <1>4, <1>5, <1>6, <1>7, <1>8 DEF Next

(* When a step of a task chain is over, its agent has left the table of    *)
(* runtimes, whatever its task and the connections were doing.             *)
THEOREM ChainFreesSlotHolds ==
    ASSUME Undisturbed, "create" \notin Commands
    PROVE  Spec => []ChainFreesSlot
<1>1. /\ TypeInv /\ SoloInv /\ BackedInv /\ Chained /\ [Next]_vars
      => TypeInv' /\ SoloInv' /\ BackedInv' /\ Chained'
  BY TypeStep, SoloStep, BackedStep, ChainedStep
<1>2. Chained => ChainFreesSlot
  BY DEF Chained, ChainFreesSlot
<1>3. Init => SoloInv
  BY SoloInit
<1>4. Init => Chained
  BY DEF Init, Chained, Callers
<1> QED
  BY TypeInit, BackedInit, <1>1, <1>2, <1>3, <1>4, PTL DEF Spec

-----------------------------------------------------------------------------
(* The cascade of a close.  The children are read before they are walked,  *)
(* while tasks write back states, and lists of children, that they read    *)
(* earlier.                                                                *)

(* The command loop alone, with a store that does not fail.                *)
OperatorOnly == Conns = {} /\ ~Connected

(* What a list holds; the children stored with an agent.                   *)
Elems(l) == {l[n] : n \in 1..Len(l)}
Children(s) == Elems(s.children)

(* What a list holds, by its head and its tail, and when it grows.         *)
LEMMA ElemsFacts ==
    ASSUME NEW S, NEW l \in Seq(S)
    PROVE  /\ Elems(l) \subseteq S
           /\ l # <<>> => /\ Head(l) \in S /\ Tail(l) \in Seq(S)
                          /\ Elems(l) = {Head(l)} \cup Elems(Tail(l))
           /\ \A x \in S : Elems(l) \subseteq Elems(Append(l, x))
<1>1. Elems(l) \subseteq S
  BY DEF Elems
<1>2. ASSUME l # <<>>
      PROVE  Head(l) \in S /\ Tail(l) \in Seq(S) /\ Elems(l) = {Head(l)} \cup Elems(Tail(l))
  <2>1. /\ Head(l) \in S /\ Tail(l) \in Seq(S) /\ Head(l) = l[1] /\ Len(l) \in Nat /\ Len(l) >= 1
        /\ Len(Tail(l)) = Len(l) - 1 /\ \A n \in 1..(Len(l) - 1) : Tail(l)[n] = l[n + 1]
    BY <1>2
  <2>2. ASSUME NEW n \in 1..Len(l) PROVE l[n] = l[1] \/ l[n] \in Elems(Tail(l))
    <3>1. CASE n = 1
      BY <3>1
    <3>2. CASE n # 1
      <4>1. n - 1 \in 1..(Len(l) - 1) /\ (n - 1) + 1 = n
        BY <2>1, <3>2
      <4>2. Tail(l)[n - 1] = l[n]
        BY <2>1, <4>1
      <4> QED
        BY <2>1, <4>1, <4>2 DEF Elems
    <3> QED
      BY <3>1, <3>2
  <2>3. ASSUME NEW n \in 1..Len(Tail(l)) PROVE Tail(l)[n] \in Elems(l)
    <3>1. n \in 1..(Len(l) - 1) /\ n + 1 \in 1..Len(l)
      BY <2>1
    <3> QED
      BY <2>1, <3>1 DEF Elems
  <2>4. l[1] \in Elems(l)
    BY <2>1 DEF Elems
  <2> QED
    BY <2>1, <2>2, <2>3, <2>4 DEF Elems
<1>3. ASSUME NEW x \in S PROVE Elems(l) \subseteq Elems(Append(l, x))
  <2>1. ASSUME NEW n \in 1..Len(l) PROVE l[n] \in Elems(Append(l, x))
    <3>1. Len(Append(l, x)) = Len(l) + 1 /\ Append(l, x)[n] = l[n] /\ n \in 1..(Len(l) + 1)
      OBVIOUS
    <3> QED
      BY <3>1 DEF Elems
  <2> QED
    BY <2>1 DEF Elems
<1> QED
  BY <1>1, <1>2, <1>3

(* Where the command loop may be, and what its requests consist of.        *)
OperatorCalls == {"assign", "send", "close"}
OperatorPcs == CallPcs \ {"finding", "finding_get", "finding_set", "complete", "complete_set",
                          "complete_hset", "eval"}
Walking == {"close_hset", "cascade", "cascade_set", "cascade_hset", "cascade_remove"}

(* Children are only ever forgotten by a task that writes back what it     *)
(* read; the command loop, which alone adds them, has read at least what   *)
(* is stored of the agent it will write.                                   *)
Reads ==
    LET o == Operator
    IN  /\ \A t \in Ids : tpc[t] = "set" => Children(tbuf[t]) \subseteq Children(kv[t])
        /\ pc[o] = "open_pset" => Children(kv[par[o]]) \subseteq Children(buf[o])
        /\ pc[o] \in {"assign_set", "close_remove", "close_set"}
              => Children(kv[ag[o]]) \subseteq Children(buf[o])
        /\ pc[o] = "cascade_set" => Children(kv[Head(kids[o])]) \subseteq Children(buf[o])

(* Every stored child of the agent being closed is left to cancel or has   *)
(* no runtime.                                                             *)
Walked ==
    LET o == Operator
    IN  /\ pc[o] = "close_set" => Children(buf[o]) \subseteq Elems(kids[o])
        /\ pc[o] \in Walking => Children(kv[ag[o]]) \subseteq Elems(kids[o]) \cup (Ids \ runtimes)
        /\ pc[o] = "cascade_set" /\ Head(kids[o]) = ag[o]
              => Children(buf[o]) \subseteq Elems(kids[o]) \cup (Ids \ runtimes)

(* An agent in the table, or about to enter it, is running, for its task   *)
(* as well, unless the cascade is about to take it out.                    *)
Live(i) == i \in runtimes \/ (HasNewId(Operator) /\ i = ag[Operator])
Doomed(i) == pc[Operator] \in {"cascade_hset", "cascade_remove"} /\ i = Head(kids[Operator])
Alive ==
    LET o == Operator
    IN  /\ \A i \in Ids : Live(i) /\ ~Doomed(i) =>
              is_running(kv[i]) /\ (tpc[i] = "set" => is_running(tbuf[i]))
        /\ pc[o] = "open_pset" /\ par[o] \in runtimes => is_running(buf[o])
        /\ pc[o] = "close_set" => ag[o] \notin runtimes

CascadeInv ==
    /\ pc[Operator] \in OperatorPcs /\ script[Operator] \in Seq(OperatorCalls)
    /\ \A t \in Ids : tpc[t] # "none" => t < nextId
    /\ Reads /\ Walked /\ Alive

(* A call of the command loop returns to a point where nothing is held.    *)
LEMMA OperatorReturns ==
    ASSUME TypeInv, CascadeInv, Return(Operator)
    PROVE  pc'[Operator] \in OperatorCalls \cup {"idle"} /\ script'[Operator] \in Seq(OperatorCalls)
<1>1. /\ pc \in [Callers -> CallPcs] /\ script \in [Callers -> Seq(CallPcs)] /\ Operator \in Callers
      /\ script[Operator] \in Seq(OperatorCalls)
  BY DEF TypeInv, TypeOK, CascadeInv, Callers
<1>2. CASE script[Operator] = <<>>
  BY <1>1, <1>2 DEF Return, Goto
<1>3. CASE script[Operator] # <<>>
  <2>1. Head(script[Operator]) \in OperatorCalls /\ Tail(script[Operator]) \in Seq(OperatorCalls)
    BY <1>1, <1>3, HeadTail
  <2> QED
    BY <1>1, <1>3, <2>1 DEF Return, Goto
<1> QED
  BY <1>2, <1>3

(* Points at which the command loop holds nothing that it has read.        *)
Restful == {"idle", "open", "open_set", "open_pget", "assign", "send", "send_push", "close"}

(* The invariant at a point where nothing is held.                         *)
LEMMA AtRest ==
    ASSUME pc'[Operator] \in Restful, script'[Operator] \in Seq(OperatorCalls),
           \A t \in Ids : tpc'[t] # "none" => t < nextId',
           \A t \in Ids : tpc'[t] = "set" => Children(tbuf'[t]) \subseteq Children(kv'[t]),
           \A i \in runtimes' : is_running(kv'[i]) /\ (tpc'[i] = "set" => is_running(tbuf'[i]))
    PROVE  CascadeInv'
<1>1. pc'[Operator] \in OperatorPcs
  BY DEF Restful, OperatorPcs, CallPcs
<1>2. Reads' /\ Walked'
  BY DEF Restful, Reads, Walked, Walking
<1>3. Alive'
  BY DEF Restful, Alive, Live, HasNewId
<1> QED
  BY <1>1, <1>2, <1>3 DEF CascadeInv

(* The updates of a state, and its children.                               *)
LEMMA UpdatesOfChildren ==
    ASSUME NEW s \in AgentState
    PROVE  /\ Children([s EXCEPT !.steps = @ + 1]) = Children(s)
           /\ Children([s EXCEPT !.status = "Running", !.steps = @ + 1]) = Children(s)
           /\ Children([s EXCEPT !.status = "Completed"]) = Children(s)
           /\ Children([s EXCEPT !.status = "Cancelled"]) = Children(s)
           /\ is_running([s EXCEPT !.steps = @ + 1]) = is_running(s)
           /\ is_running([s EXCEPT !.status = "Running", !.steps = @ + 1])
           /\ \A i \in Ids : /\ Children(s) \subseteq Children([s EXCEPT !.children = Append(@, i)])
                             /\ is_running([s EXCEPT !.children = Append(@, i)]) = is_running(s)
<1>1. ASSUME NEW i \in Ids
      PROVE  /\ Children(s) \subseteq Children([s EXCEPT !.children = Append(@, i)])
             /\ is_running([s EXCEPT !.children = Append(@, i)]) = is_running(s)
  <2>1. s.children \in Seq(Ids)
    BY DEF AgentState
  <2>2. Elems(s.children) \subseteq Elems(Append(s.children, i))
    BY <2>1, ElemsFacts
  <2>3. [s EXCEPT !.children = Append(@, i)].children = Append(s.children, i)
    BY DEF AgentState
  <2>4. [s EXCEPT !.children = Append(@, i)].status = s.status
    BY DEF AgentState
  <2> QED
    BY <2>2, <2>3, <2>4 DEF Children, is_running
<1>2. [s EXCEPT !.status = "Cancelled"].children = s.children
  BY DEF AgentState
<1> QED
  BY <1>1, <1>2, UpdatesKeepChildren DEF Children, is_running

(* A task forgets children, but no more than it did not know.              *)
LEMMA CascadeTask ==
    ASSUME OperatorOnly, TypeInv, CascadeInv, NEW t \in Ids, TaskStep(t)
    PROVE  CascadeInv'
<1> DEFINE o == Operator
<1>t. /\ kv \in [Ids -> AgentState] /\ tpc \in [Ids -> TaskPcs] /\ tbuf \in [Ids -> AgentState]
      /\ Reads /\ Walked /\ Alive /\ o \in Callers /\ ~OpFails
      /\ \A i \in Ids : tpc[i] # "none" => i < nextId
  BY DEF TypeInv, TypeOK, TaskPcs, CascadeInv, Callers, OpFails, OperatorOnly
<1>1. UNCHANGED <<nextId, runtimes, pc, buf, ag, par, script, kids>>
  BY DEF TaskStep, TaskRecv, TaskGet, TaskSet, TaskIdleEnd, frame, table
<1>2. /\ pc[o] \notin {"idle", "open", "open_set"} => ag[o] \in Ids
      /\ pc[o] \in {"open_pget", "open_pset"} => par[o] \in Ids
      /\ pc[o] \in {"cascade_set", "cascade_hset", "cascade_remove"} => Head(kids[o]) \in Ids
  BY <1>t, ElemsFacts DEF TypeInv, TypeOK, Control
<1>3. \A i \in Ids : tpc'[i] # "none" => i < nextId'
  BY <1>t, <1>1 DEF TaskStep, TaskRecv, TaskGet, TaskSet, TaskIdleEnd
<1>4. \A i \in Ids : Children(kv'[i]) \subseteq Children(kv[i])
  <2>1. CASE TaskSet(t)
    <3>1. \/ kv' = kv
          \/ kv' = [kv EXCEPT ![t] = [tbuf[t] EXCEPT !.steps = @ + 1]] /\ tpc[t] = "set"
      BY <2>1 DEF TaskSet
    <3>2. Children([tbuf[t] EXCEPT !.steps = @ + 1]) = Children(tbuf[t])
      BY <1>t, UpdatesOfChildren
    <3> QED
      BY <3>1, <3>2, <1>t DEF Reads
  <2>2. CASE ~TaskSet(t)
    BY <2>2 DEF TaskStep, TaskRecv, TaskGet, TaskIdleEnd, store
  <2> QED
    BY <2>1, <2>2
<1>5. \A i \in Ids : tpc'[i] = "set" => Children(tbuf'[i]) \subseteq Children(kv'[i])
  <2>1. CASE TaskRecv(t) \/ TaskIdleEnd(t)
    BY <2>1, <1>t DEF TaskRecv, TaskIdleEnd, store, Reads
  <2>2. CASE TaskGet(t)
    BY <2>2, <1>t DEF TaskGet, store, Reads
  <2>3. CASE TaskSet(t)
    BY <2>3, <1>t DEF TaskSet, Reads
  <2> QED
    BY <2>1, <2>2, <2>3 DEF TaskStep
<1>6. \A i \in Ids : Live(i)' = Live(i) /\ Doomed(i)' = Doomed(i)
  BY <1>1 DEF Live, Doomed, HasNewId
<1>7. \A i \in Ids : Live(i) /\ ~Doomed(i) =>
              is_running(kv'[i]) /\ (tpc'[i] = "set" => is_running(tbuf'[i]))
  <2>1. CASE TaskRecv(t) \/ TaskIdleEnd(t)
    BY <2>1, <1>t DEF TaskRecv, TaskIdleEnd, store, Alive
  <2>2. CASE TaskGet(t)
    BY <2>2, <1>t DEF TaskGet, store, Alive
  <2>3. CASE TaskSet(t)
    <3>1. \/ kv' = kv
          \/ kv' = [kv EXCEPT ![t] = [tbuf[t] EXCEPT !.steps = @ + 1]]
      BY <2>3 DEF TaskSet
    <3>2. is_running([tbuf[t] EXCEPT !.steps = @ + 1]) = is_running(tbuf[t])
      BY <1>t, UpdatesOfChildren
    <3>3. tpc[t] = "set" /\ tpc' = [tpc EXCEPT ![t] = "idle"] /\ tbuf' = tbuf
      BY <2>3 DEF TaskSet
    <3> QED
      BY <3>1, <3>2, <3>3, <1>t DEF Alive
  <2> QED
    BY <2>1, <2>2, <2>3 DEF TaskStep
<1>8. Reads'
  BY <1>1, <1>2, <1>4, <1>5, <1>t DEF Reads
<1>9. Walked'
  BY <1>1, <1>2, <1>4, <1>t DEF Walked, Walking
<1>10. Alive'
  BY <1>1, <1>6, <1>7, <1>t DEF Alive
<1> QED
  BY <1>1, <1>3, <1>8, <1>9, <1>10 DEF CascadeInv

(* Opening an agent, with or without a parent.                             *)
LEMMA CascadeOpen ==
    ASSUME OperatorOnly, TypeInv, FreshInv, CascadeInv, Open(Operator)
    PROVE  CascadeInv'
<1> DEFINE o == Operator
<1>t. /\ kv \in [Ids -> AgentState] /\ tpc \in [Ids -> TaskPcs] /\ tbuf \in [Ids -> AgentState]
      /\ buf \in [Callers -> AgentState] /\ pc \in [Callers -> CallPcs]
      /\ ag \in [Callers -> Ids \cup {NoId}] /\ script \in [Callers -> Seq(CallPcs)]
      /\ runtimes \subseteq Ids
      /\ Reads /\ Walked /\ Alive /\ o \in Callers /\ ~OpFails
      /\ script[o] \in Seq(OperatorCalls) /\ <<>> \in Seq(OperatorCalls)
      /\ \A i \in Ids : tpc[i] # "none" => i < nextId
  BY DEF TypeInv, TypeOK, TaskPcs, CascadeInv, Callers, OpFails, OperatorOnly
<1>2. /\ pc[o] \notin {"idle", "open", "open_set"} => ag[o] \in Ids
      /\ pc[o] \in {"open_pget", "open_pset"} => par[o] \in Ids
  BY <1>t DEF TypeInv, Control
<1>3. Return(o) => pc'[o] \in Restful /\ script'[o] \in Seq(OperatorCalls)
  BY OperatorReturns DEF OperatorCalls, Restful
<1>n. nextId \in Nat /\ Ids \subseteq Nat
  BY BoundsAssumption DEF TypeInv, TypeOK, Ids
<1> USE DEF Goto
<1>4. CASE OpenCheck(o)
  <2>1. /\ pc'[o] \in Restful /\ script'[o] \in Seq(OperatorCalls)
        /\ UNCHANGED <<kv, tpc, tbuf, runtimes, nextId>>
    BY <1>t, <1>4 DEF OpenCheck, Restful, store, table, tasks
  <2>2. \A i \in runtimes : is_running(kv[i]) /\ (tpc[i] = "set" => is_running(tbuf[i]))
    BY <1>t, <1>4 DEF OpenCheck, Alive, Live, Doomed
  <2> QED
    BY <1>t, <2>1, <2>2, AtRest DEF Reads
<1>5. CASE OpenSet(o)
  <2>1. nextId \in Ids
    BY <1>5, BoundsAssumption DEF OpenSet, Ids, TypeInv, TypeOK
  <2>2. /\ kv' = [kv EXCEPT ![nextId] = [status |-> "Running", steps |-> 0, parent |-> par[o],
                                         children |-> <<>>]]
        /\ ag'[o] = nextId /\ pc'[o] = "open_hset" /\ pc[o] = "open_set"
        /\ nextId' = nextId + 1 /\ UNCHANGED <<runtimes, tpc, tbuf, script>>
    BY <1>t, <1>5 DEF OpenSet, table, tasks
  <2>3. tpc[nextId] = "none"
    BY <2>1, <1>t, <1>n
  <2>4. is_running(kv'[nextId]) /\ \A i \in Ids \ {nextId} : kv'[i] = kv[i]
    BY <2>1, <2>2, <1>t DEF is_running
  <2>5. \A i \in runtimes : is_running(kv[i]) /\ (tpc[i] = "set" => is_running(tbuf[i]))
    BY <1>t, <2>2 DEF Alive, Live, Doomed
  <2>6. \A i \in Ids : tpc'[i] # "none" => i < nextId'
    <3>1. \A i \in Ids : i < nextId => i < nextId + 1
      BY <1>n
    <3> QED
      BY <2>2, <3>1, <1>t
  <2>7. Reads'
    BY <2>2, <2>3, <2>4, <1>t DEF Reads
  <2>8. Alive'
    BY <2>2, <2>3, <2>4, <2>5, <1>t DEF Alive, Live
  <2> QED
    BY <2>2, <2>6, <2>7, <2>8, <1>t DEF CascadeInv, Walked, Walking, OperatorPcs, CallPcs
<1>6. CASE OpenHset(o)
  <2>1. /\ tpc' = [tpc EXCEPT ![ag[o]] = "idle"] /\ pc'[o] = "open_insert" /\ pc[o] = "open_hset"
        /\ UNCHANGED <<kv, nextId, runtimes, tbuf, ag, script>>
    BY <1>t, <1>6 DEF OpenHset, table
  <2>2. ag[o] < nextId
    BY <2>1, <1>t DEF FreshInv, HasNewId
  <2>3. \A i \in Ids : tpc'[i] # "none" => i < nextId'
    BY <2>1, <2>2, <1>t, <1>2
  <2>4. Reads'
    BY <2>1, <1>t, <1>2 DEF Reads
  <2>5. Alive'
    BY <2>1, <1>t, <1>2 DEF Alive, Live, Doomed, HasNewId
  <2> QED
    BY <2>1, <2>3, <2>4, <2>5, <1>t DEF CascadeInv, Walked, Walking, OperatorPcs, CallPcs
<1>7. CASE OpenInsert(o)
  <2>1. /\ UNCHANGED <<kv, tpc, tbuf, nextId>> /\ runtimes' = runtimes \cup {ag[o]}
        /\ pc[o] = "open_insert"
    BY <1>7 DEF OpenInsert, store, tasks
  <2>2. pc'[o] \in Restful /\ script'[o] \in Seq(OperatorCalls)
    BY <1>7, <1>t, <1>3 DEF OpenInsert, Restful
  <2>3. \A i \in runtimes' : is_running(kv[i]) /\ (tpc[i] = "set" => is_running(tbuf[i]))
    BY <2>1, <1>t, <1>2 DEF Alive, Live, Doomed, HasNewId
  <2> QED
    BY <1>t, <2>1, <2>2, <2>3, AtRest DEF Reads
<1>8. CASE OpenParentGet(o)
  <2>1. /\ UNCHANGED <<kv, tpc, tbuf, nextId, runtimes, par>> /\ pc[o] = "open_pget"
    BY <1>8 DEF OpenParentGet, store, tasks, table
  <2>2. \A i \in runtimes : is_running(kv[i]) /\ (tpc[i] = "set" => is_running(tbuf[i]))
    BY <2>1, <1>t DEF Alive, Live, Doomed
  <2>3. CASE Return(o)
    BY <1>t, <1>3, <2>1, <2>2, <2>3, AtRest DEF Reads
  <2>4. CASE buf' = [buf EXCEPT ![o] = kv[par[o]]] /\ pc' = [pc EXCEPT ![o] = "open_pset"]
             /\ UNCHANGED script
    <3>1. buf'[o] = kv[par[o]] /\ pc'[o] = "open_pset"
      BY <1>t, <2>4
    <3>2. Reads'
      BY <2>1, <3>1, <1>t DEF Reads
    <3>3. Alive'
      BY <2>1, <2>2, <3>1, <1>t DEF Alive, Live, HasNewId
    <3> QED
      BY <2>1, <2>4, <3>1, <3>2, <3>3, <1>t DEF CascadeInv, Walked, Walking, OperatorPcs, CallPcs
  <2> QED
    BY <1>8, <2>3, <2>4 DEF OpenParentGet
<1>9. CASE OpenParentSet(o)
  <2>1. /\ kv' = [kv EXCEPT ![par[o]] = [buf[o] EXCEPT !.children = Append(@, ag[o])]]
        /\ UNCHANGED <<tpc, tbuf, nextId, runtimes>> /\ pc[o] = "open_pset" /\ Return(o)
    BY <1>9, <1>t DEF OpenParentSet, tasks, table
  <2>2. /\ Children(buf[o]) \subseteq Children([buf[o] EXCEPT !.children = Append(@, ag[o])])
        /\ is_running([buf[o] EXCEPT !.children = Append(@, ag[o])]) = is_running(buf[o])
    BY <2>1, <1>t, <1>2, UpdatesOfChildren
  <2>3. \A i \in Ids : Children(kv[i]) \subseteq Children(kv'[i])
    BY <2>1, <2>2, <1>t, <1>2 DEF Reads
  <2>4. \A i \in runtimes : is_running(kv'[i]) /\ (tpc[i] = "set" => is_running(tbuf[i]))
    BY <2>1, <2>2, <1>t, <1>2 DEF Alive, Live, Doomed
  <2> QED
    BY <1>t, <1>3, <2>1, <2>3, <2>4, AtRest DEF Reads
<1> QED
  BY <1>4, <1>5, <1>6, <1>7, <1>8, <1>9 DEF Open

(* Assigning, sending and closing.                                         *)
LEMMA CascadeCall ==
    ASSUME OperatorOnly, TypeInv, CascadeInv, CallStep(Operator), ~Open(Operator)
    PROVE  CascadeInv'
<1> DEFINE o == Operator
<1>t. /\ kv \in [Ids -> AgentState] /\ tpc \in [Ids -> TaskPcs] /\ tbuf \in [Ids -> AgentState]
      /\ buf \in [Callers -> AgentState] /\ pc \in [Callers -> CallPcs]
      /\ ag \in [Callers -> Ids \cup {NoId}] /\ script \in [Callers -> Seq(CallPcs)]
      /\ kids \in [Callers -> Seq(Ids)] /\ runtimes \subseteq Ids
      /\ Reads /\ Walked /\ Alive /\ o \in Callers /\ ~OpFails
      /\ script[o] \in Seq(OperatorCalls) /\ pc[o] \in OperatorPcs
      /\ \A i \in Ids : tpc[i] # "none" => i < nextId
  BY DEF TypeInv, TypeOK, TaskPcs, CascadeInv, Callers, OpFails, OperatorOnly
<1>2. /\ pc[o] \notin {"idle", "open", "open_set"} => ag[o] \in Ids
      /\ pc[o] \in {"cascade_set", "cascade_hset", "cascade_remove"} => kids[o] # <<>>
      /\ kids[o] # <<>> => /\ Head(kids[o]) \in Ids
                           /\ Elems(kids[o]) = {Head(kids[o])} \cup Elems(Tail(kids[o]))
      /\ \A i \in Ids : Children(kv[i]) \subseteq Ids
  <2>1. \A i \in Ids : Children(kv[i]) \subseteq Ids
    BY <1>t, ElemsFacts DEF Children, AgentState
  <2> QED
    BY <2>1, <1>t, ElemsFacts DEF TypeInv, Control
<1>3. Return(o) => pc'[o] \in Restful /\ script'[o] \in Seq(OperatorCalls)
  BY OperatorReturns DEF OperatorCalls, Restful
<1>o. pc[o] \notin {"open", "open_set", "open_hset", "open_insert", "open_pget", "open_pset"}
  BY StepsAt DEF Open
<1> USE DEF Goto
<1>4. CASE pc[o] \in {"send", "send_push"}
  <2>1. UNCHANGED <<kv, tpc, tbuf, nextId, runtimes>>
    BY <1>4, StepsAt DEF SendLock, SendPush, store, tasks
  <2>2. pc'[o] \in Restful /\ script'[o] \in Seq(OperatorCalls)
    BY <1>4, <1>3, <1>t, StepsAt DEF SendLock, SendPush, Restful
  <2>3. \A i \in runtimes : is_running(kv[i]) /\ (tpc[i] = "set" => is_running(tbuf[i]))
    BY <1>4, <1>t DEF Alive, Live, Doomed
  <2> QED
    BY <1>t, <2>1, <2>2, <2>3, AtRest DEF Reads
<1>5. CASE AssignGet(o) \/ CloseGet(o)
  <2>1. /\ UNCHANGED <<kv, tpc, tbuf, nextId, runtimes, ag>> /\ pc[o] \in {"assign", "close"}
    BY <1>5 DEF AssignGet, CloseGet, ReadState, store, tasks, table
  <2>2. \A i \in runtimes : is_running(kv[i]) /\ (tpc[i] = "set" => is_running(tbuf[i]))
    BY <2>1, <1>t DEF Alive, Live, Doomed
  <2>3. CASE Return(o)
    BY <1>t, <1>3, <2>1, <2>2, <2>3, AtRest DEF Reads
  <2>4. CASE /\ buf' = [buf EXCEPT ![o] = kv[ag[o]]] /\ UNCHANGED script
             /\ \E next \in {"assign_set", "close_remove"} : pc' = [pc EXCEPT ![o] = next]
    <3>1. buf'[o] = kv[ag[o]] /\ pc'[o] \in {"assign_set", "close_remove"}
      BY <1>t, <2>4
    <3>2. Reads'
      BY <2>1, <3>1, <1>t DEF Reads
    <3>3. Alive'
      BY <2>1, <2>2, <3>1, <1>t DEF Alive, Live, HasNewId
    <3> QED
      BY <2>1, <2>4, <3>1, <3>2, <3>3, <1>t DEF CascadeInv, Walked, Walking, OperatorPcs, CallPcs
  <2> QED
    BY <1>5, <2>3, <2>4 DEF AssignGet, CloseGet, ReadState
<1>6. CASE AssignSet(o)
  <2>1. /\ kv' = [kv EXCEPT ![ag[o]] = [buf[o] EXCEPT !.status = "Running", !.steps = @ + 1]]
        /\ UNCHANGED <<tpc, tbuf, nextId, runtimes>> /\ pc[o] = "assign_set" /\ Return(o)
    BY <1>6, <1>t DEF AssignSet, WriteState, tasks, table
  <2>2. /\ Children([buf[o] EXCEPT !.status = "Running", !.steps = @ + 1]) = Children(buf[o])
        /\ is_running([buf[o] EXCEPT !.status = "Running", !.steps = @ + 1])
    BY <1>t, UpdatesOfChildren
  <2>3. \A i \in Ids : Children(kv[i]) \subseteq Children(kv'[i])
    BY <2>1, <2>2, <1>t, <1>2 DEF Reads
  <2>4. \A i \in runtimes : is_running(kv'[i]) /\ (tpc[i] = "set" => is_running(tbuf[i]))
    BY <2>1, <2>2, <1>t, <1>2 DEF Alive, Live, Doomed
  <2> QED
    BY <1>t, <1>3, <2>1, <2>3, <2>4, AtRest DEF Reads
<1>7. CASE CloseRemove(o)
  <2>1. /\ UNCHANGED <<kv, tpc, tbuf, nextId, ag, script, buf>> /\ runtimes' = runtimes \ {ag[o]}
        /\ kids'[o] = buf[o].children /\ pc'[o] = "close_set" /\ pc[o] = "close_remove"
    BY <1>7, <1>t DEF CloseRemove, RemoveRuntime, store, tasks
  <2>2. Reads'
    BY <2>1, <1>t DEF Reads
  <2>3. Walked'
    BY <2>1, <1>t DEF Walked, Walking, Children
  <2>4. Alive'
    BY <2>1, <1>t DEF Alive, Live, Doomed, HasNewId
  <2> QED
    BY <2>1, <2>2, <2>3, <2>4, <1>t DEF CascadeInv, OperatorPcs, CallPcs
<1>8. CASE CloseSet(o)
  <2>1. /\ kv' = [kv EXCEPT ![ag[o]] = [buf[o] EXCEPT !.status = "Completed"]]
        /\ UNCHANGED <<tpc, tbuf, nextId, runtimes, ag, script, buf, kids>>
        /\ pc[o] = "close_set" /\ pc'[o] = "close_hset"
    BY <1>8, <1>t DEF CloseSet, WriteState, tasks, table
  <2>2. Children([buf[o] EXCEPT !.status = "Completed"]) = Children(buf[o])
    BY <1>t, UpdatesOfChildren
  <2>3. Children(kv'[ag[o]]) = Children(buf[o]) /\ \A i \in Ids \ {ag[o]} : kv'[i] = kv[i]
    BY <2>1, <2>2, <1>t, <1>2
  <2>4. Reads'
    BY <2>1, <2>3, <1>t, <1>2 DEF Reads
  <2>5. Walked'
    BY <2>1, <2>3, <1>t, <1>2 DEF Walked, Walking
  <2>6. Alive'
    BY <2>1, <2>3, <1>t, <1>2 DEF Alive, Live, Doomed, HasNewId
  <2> QED
    BY <2>1, <2>4, <2>5, <2>6, <1>t DEF CascadeInv, OperatorPcs, CallPcs
<1>9. CASE CloseHset(o)
  <2>1. /\ UNCHANGED <<kv, tpc, tbuf, nextId, runtimes, ag, script, buf, kids>>
        /\ pc[o] = "close_hset" /\ pc'[o] = "cascade"
    BY <1>9, <1>t DEF CloseHset, tasks, table, frame
  <2> QED
    BY <2>1, <1>t DEF CascadeInv, Reads, Walked, Walking, Alive, Live, Doomed, HasNewId,
       OperatorPcs, CallPcs
<1>10. CASE CascadeGet(o)
  <2>1. /\ UNCHANGED <<kv, tpc, tbuf, nextId, runtimes, ag, script>>
        /\ pc[o] = "cascade" /\ kids[o] # <<>>
    BY <1>10, <1>t DEF CascadeGet, store, tasks, table
  <2>2. CASE is_running(kv[Head(kids[o])]) /\ buf' = [buf EXCEPT ![o] = kv[Head(kids[o])]]
             /\ pc' = [pc EXCEPT ![o] = "cascade_set"] /\ UNCHANGED kids
    <3>1. buf'[o] = kv[Head(kids[o])] /\ pc'[o] = "cascade_set"
      BY <2>2, <1>t
    <3>2. Reads'
      BY <2>1, <2>2, <3>1, <1>t DEF Reads
    <3>3. Walked'
      BY <2>1, <2>2, <3>1, <1>t DEF Walked, Walking
    <3>4. Alive'
      BY <2>1, <2>2, <3>1, <1>t DEF Alive, Live, Doomed, HasNewId
    <3> QED
      BY <2>1, <3>1, <3>2, <3>3, <3>4, <1>t DEF CascadeInv, OperatorPcs, CallPcs
  <2>3. CASE ~is_running(kv[Head(kids[o])]) /\ kids' = [kids EXCEPT ![o] = Tail(@)]
             /\ UNCHANGED <<pc, buf>>
    <3>1. Head(kids[o]) \notin runtimes
      BY <2>1, <2>3, <1>t, <1>2 DEF Alive, Live, Doomed
    <3>2. kids'[o] = Tail(kids[o])
      BY <2>3, <1>t
    <3>3. Walked'
      BY <2>1, <2>3, <3>1, <3>2, <1>t, <1>2 DEF Walked, Walking
    <3>4. Reads' /\ Alive'
      BY <2>1, <2>3, <1>t DEF Reads, Alive, Live, Doomed, HasNewId
    <3> QED
      BY <2>1, <2>3, <3>3, <3>4, <1>t DEF CascadeInv
  <2> QED
    BY <1>10, <1>t, <2>2, <2>3 DEF CascadeGet
<1>11. CASE CascadeSet(o)
  <2>1. /\ kv' = [kv EXCEPT ![Head(kids[o])] = [buf[o] EXCEPT !.status = "Cancelled"]]
        /\ UNCHANGED <<tpc, tbuf, nextId, runtimes, ag, script, buf, kids>>
        /\ pc[o] = "cascade_set" /\ pc'[o] = "cascade_hset"
    BY <1>11, <1>t DEF CascadeSet, tasks, table, frame
  <2>2. Children([buf[o] EXCEPT !.status = "Cancelled"]) = Children(buf[o])
    BY <1>t, UpdatesOfChildren
  <2>3. /\ Children(kv'[Head(kids[o])]) = Children(buf[o])
        /\ \A i \in Ids \ {Head(kids[o])} : kv'[i] = kv[i]
    BY <2>1, <2>2, <1>t, <1>2
  <2>4. Reads'
    BY <2>1, <2>3, <1>t, <1>2 DEF Reads
  <2>5. Walked'
    BY <2>1, <2>3, <1>t, <1>2 DEF Walked, Walking
  <2>6. Alive'
    BY <2>1, <2>3, <1>t, <1>2 DEF Alive, Live, Doomed, HasNewId
  <2> QED
    BY <2>1, <2>4, <2>5, <2>6, <1>t DEF CascadeInv, OperatorPcs, CallPcs
<1>12. CASE CascadeHset(o)
  <2>1. /\ UNCHANGED <<kv, tpc, tbuf, nextId, runtimes, ag, script, buf, kids>>
        /\ pc[o] = "cascade_hset" /\ pc'[o] = "cascade_remove"
    BY <1>12, <1>t DEF CascadeHset, tasks, table, frame
  <2> QED
    BY <2>1, <1>t DEF CascadeInv, Reads, Walked, Walking, Alive, Live, Doomed, HasNewId,
       OperatorPcs, CallPcs
<1>13. CASE CascadeRemove(o)
  <2>1. /\ UNCHANGED <<kv, tpc, tbuf, nextId, ag, script, buf>>
        /\ runtimes' = runtimes \ {Head(kids[o])} /\ kids'[o] = Tail(kids[o])
        /\ pc[o] = "cascade_remove" /\ pc'[o] = "cascade"
    BY <1>13, <1>t DEF CascadeRemove, RemoveRuntime, store, tasks
  <2>2. Walked'
    BY <2>1, <1>t, <1>2 DEF Walked, Walking
  <2>3. Reads' /\ Alive'
    BY <2>1, <1>t DEF Reads, Alive, Live, Doomed, HasNewId
  <2> QED
    BY <2>1, <2>2, <2>3, <1>t DEF CascadeInv, OperatorPcs, CallPcs
<1>14. CASE CloseEnd(o)
  <2>1. UNCHANGED <<kv, tpc, tbuf, nextId, runtimes>> /\ Return(o) /\ pc[o] = "cascade"
    BY <1>14 DEF CloseEnd, store, table, tasks
  <2>2. \A i \in runtimes : is_running(kv[i]) /\ (tpc[i] = "set" => is_running(tbuf[i]))
    BY <2>1, <1>t DEF Alive, Live, Doomed
  <2> QED
    BY <1>t, <1>3, <2>1, <2>2, AtRest DEF Reads
<1> QED
  BY <1>t, <1>o, <1>4, <1>5, <1>6, <1>7, <1>8, <1>9, <1>10, <1>11, <1>12, <1>13, <1>14, StepsAt
  DEF OperatorPcs, CallPcs

(* Every step of the system keeps what the cascade relies on.              *)
LEMMA CascadeStep ==
    ASSUME OperatorOnly, TypeInv, FreshInv, CascadeInv, [Next]_vars
    PROVE  CascadeInv'
<1> DEFINE o == Operator
<1>t. /\ pc \in [Callers -> CallPcs] /\ script \in [Callers -> Seq(CallPcs)] /\ o \in Callers
      /\ Callers = {o} /\ Reads /\ Walked /\ Alive /\ <<>> \in Seq(OperatorCalls)
      /\ \A i \in Ids : tpc[i] # "none" => i < nextId
  BY DEF TypeInv, TypeOK, CascadeInv, Callers, OperatorOnly
<1>1. ASSUME CallStep(o) PROVE CascadeInv'
  BY <1>1, CascadeOpen, CascadeCall
<1>2. CASE Restart
  <2>1. /\ pc'[o] = "idle" /\ script'[o] = <<>> /\ runtimes' = {}
        /\ \A i \in Ids : tpc'[i] = "none"
    BY <1>2, <1>t DEF Restart
  <2> QED
    BY <2>1, <1>t, AtRest DEF Restful
<1>3. ASSUME NEW first \in OperatorCalls \cup {"open"}, NEW rest \in Seq(OperatorCalls), NEW i, NEW p,
             Request(o, first, i, p, rest)
      PROVE  CascadeInv'
  <2>1. /\ pc[o] = "idle" /\ pc'[o] = first /\ script'[o] = rest
        /\ UNCHANGED <<kv, tpc, tbuf, runtimes, nextId>>
    BY <1>3, <1>t DEF Request, Goto, store, tasks, table
  <2>2. \A j \in runtimes : is_running(kv[j]) /\ (tpc[j] = "set" => is_running(tbuf[j]))
    BY <2>1, <1>t DEF Alive, Live, Doomed, TypeInv, TypeOK
  <2>3. first \in Restful
    BY DEF OperatorCalls, Restful
  <2> QED
    BY <2>1, <2>2, <2>3, <1>t, AtRest DEF Reads
<1>4. CASE AgentCreate \/ ChainStep
  <2>1. <<"assign", "send", "close">> \in Seq(OperatorCalls)
    BY DEF OperatorCalls
  <2> QED
    BY <1>3, <1>4, <1>t, <2>1 DEF AgentCreate, ChainStep
<1>5. CASE \E command \in {"close", "send", "assign"} : OnAgent(command)
  BY <1>3, <1>5, <1>t DEF OnAgent, OperatorCalls
<1>6. CASE UNCHANGED vars
  BY <1>6, <1>t DEF vars, store, table, tasks, frame, CascadeInv, Reads, Walked, Walking, Alive,
     Live, Doomed, HasNewId
<1>7. (~\E c \in Conns : McpToolsCall(c)) /\ \A i \in Ids : ~Expire(i)
  BY DEF OperatorOnly, Expire
<1> QED
  BY <1>1, <1>2, <1>4, <1>5, <1>6, <1>7, <1>t, CascadeTask DEF Next

(* When agent_close has walked the children of an agent, none of those     *)
(* stored with it still has a runtime, even where a task has written an    *)
(* older list of children back in between.                                 *)
THEOREM CascadeReleasesHolds ==
    ASSUME OperatorOnly
    PROVE  Spec => []CascadeReleases
<1>1. TypeInv /\ FreshInv /\ CascadeInv /\ [Next]_vars => TypeInv' /\ FreshInv' /\ CascadeInv'
  BY TypeStep, FreshStep, CascadeStep
<1>2. TypeInv /\ CascadeInv => CascadeReleases
  <2> SUFFICES ASSUME TypeInv, CascadeInv, NEW c \in Callers, pc[c] = "cascade",
                      NEW n \in 1..Len(kv[ag[c]].children), kv[ag[c]].children[n] \in runtimes
               PROVE  \E m \in 1..Len(kids[c]) : kids[c][m] = kv[ag[c]].children[n]
    BY DEF CascadeReleases
  <2>1. c = Operator
    BY DEF Callers, OperatorOnly
  <2>2. kv[ag[c]].children[n] \in Elems(kids[c])
    BY <2>1 DEF CascadeInv, Walked, Walking, Children, Elems
  <2> QED
    BY <2>2 DEF Elems
<1>3. Init => FreshInv
  BY DEF Init, FreshInv, FreshInsert, HasNewId
<1>4. Init => CascadeInv
  BY DEF Init, CascadeInv, OperatorPcs, CallPcs, Reads, Walked, Walking, Alive, Live, Doomed, HasNewId,
     Callers
<1> QED
  BY TypeInit, <1>1, <1>2, <1>3, <1>4, PTL DEF Spec
=============================================================================
