------------------------------ MODULE SubAgent ------------------------------
(***************************************************************************)
(* The sub-agent runtime of waters-node (src/subagent.rs) together with    *)
(* its callers: the operator's command loop (handlers.rs, task_chain.rs)   *)
(* and the MCP server, which serves every connection in a task of its own  *)
(* (mcp_server.rs).  All of them share one manager: the agent states in    *)
(* the key-value store, the id counter and the table of runtimes behind a  *)
(* mutex.  Every open agent also has a background task that reads its      *)
(* input channel.                                                          *)
(*                                                                         *)
(* Granularity.  One action is one store command, one critical section of  *)
(* the mutex or one channel operation; the caller's pc says which comes    *)
(* next.  A read of a state and the write that follows it are two actions, *)
(* as they are two commands.                                               *)
(*                                                                         *)
(* Left out: names, prompts, timestamps and the two streams (journal and   *)
(* findings), which no decision of the manager reads.  The database a      *)
(* command is sent to is the subject of module KvStore.                   *)
(***************************************************************************)
EXTENDS Naturals, FiniteSets, Sequences

CONSTANTS
    Operator,       \* the command loop
    Conns,          \* the MCP connections
    Commands,       \* the commands the operator types
    MaxAgents,      \* MAX_AGENTS
    ChanCap,        \* capacity of an input channel (64)
    Connected,      \* KvStore.connected: Redis, else the in-memory map
    Faulty,         \* may a Redis command fail after start-up?
    Nested,         \* may an agent be opened with a parent?
    MaxId,          \* bound: ids handed out in one run of the process
    MaxReq,         \* bound: requests of one caller
    MaxRestarts     \* bound: restarts of the process

Callers == Conns \cup {Operator}
Ids     == 1..MaxId
NoId    == 0

ASSUME CallersAssumption == IsFiniteSet(Conns) /\ Operator \notin Conns
ASSUME BoundsAssumption ==
    /\ MaxAgents \in Nat \ {0} /\ ChanCap \in Nat \ {0}
    /\ MaxId \in Nat /\ MaxReq \in Nat /\ MaxRestarts \in Nat
ASSUME ModesAssumption ==
    /\ Connected \in BOOLEAN /\ Faulty \in BOOLEAN /\ Nested \in BOOLEAN
    /\ Commands \subseteq {"create", "chain", "close", "send", "assign"}

VARIABLES
    kv,         \* agent:<id>:state, the stored SubAgentState
    active,     \* the hash agents:active
    nextId,     \* the atomic id counter
    runtimes,   \* ids in the table of runtimes
    lock,       \* who holds the table's mutex across an await
    cancelled,  \* ids whose cancellation token was cancelled
    inbox,      \* messages buffered in each input channel
    tpc, tbuf,  \* each agent task: control point and the state it read
    pc, buf,    \* each caller: control point and the state it read
    ag, par,    \* each caller: the agent it works on, the parent asked for
    script,     \* each caller: the manager calls its request has left
    kids,       \* each caller: the children its close has left to cancel
    reqs,       \* requests each caller has made
    restarts

store == <<kv, active>>
table == <<runtimes, lock, cancelled>>
tasks == <<inbox, tpc, tbuf>>
frame == <<buf, ag, par, script, kids>>
count == <<reqs, restarts>>
vars  == <<store, nextId, table, tasks, pc, frame, count>>

(* AgentStatus: the code never stores Pending or Failed.  A key that is    *)
(* not in the store is "Absent", or "Expired" when its day is over: every  *)
(* read takes the two alike.                                               *)
Status     == {"Absent", "Expired", "Running", "Completed", "Cancelled"}
AgentState == [status : Status, steps : Nat, parent : Ids \cup {NoId},
               children : Seq(Ids)]
Absent     == [status |-> "Absent", steps |-> 0, parent |-> NoId, children |-> <<>>]
Expired    == [Absent EXCEPT !.status = "Expired"]
readable(s) == s.status \notin {"Absent", "Expired"}
Stored(i)  == readable(kv[i])
is_running(s) == s.status = "Running"

(* Who may fail: a Redis command, when the server has become unreachable.  *)
OpFails  == Connected /\ Faulty
(* What XADD answers.  The command the store builds has no entry id, which *)
(* a Redis server rejects; both answers are kept.  In memory it is Ok.     *)
XaddAnswers == IF Connected THEN {"ok", "err"} ELSE {"ok"}
(* hset reaches a store only when Redis is connected.                      *)
Hset(i, v) == active' = IF Connected THEN [active EXCEPT ![i] = v] ELSE active

Init ==
    /\ kv = [i \in Ids |-> Absent] /\ active = [i \in Ids |-> "none"]
    /\ nextId = 1
    /\ runtimes = {} /\ lock = NoId /\ cancelled = {}
    /\ inbox = [i \in Ids |-> 0] /\ tpc = [i \in Ids |-> "none"]
    /\ tbuf = [i \in Ids |-> Absent]
    /\ pc = [c \in Callers |-> "idle"] /\ buf = [c \in Callers |-> Absent]
    /\ ag = [c \in Callers |-> NoId] /\ par = [c \in Callers |-> NoId]
    /\ script = [c \in Callers |-> <<>>] /\ kids = [c \in Callers |-> <<>>]
    /\ reqs = [c \in Callers |-> 0] /\ restarts = 0

Goto(c, l) == pc' = [pc EXCEPT ![c] = l]
(* A manager call returns, Ok or Err: the next call of the request starts. *)
Return(c) ==
    IF script[c] = <<>>
    THEN /\ Goto(c, "idle") /\ UNCHANGED script
    ELSE /\ Goto(c, Head(script[c])) /\ script' = [script EXCEPT ![c] = Tail(@)]

-----------------------------------------------------------------------------
(* Requests.                                                               *)

Request(c, first, i, p, rest) ==
    /\ pc[c] = "idle" /\ reqs[c] < MaxReq
    /\ Goto(c, first)
    /\ ag' = [ag EXCEPT ![c] = i]
    /\ par' = [par EXCEPT ![c] = p]
    /\ script' = [script EXCEPT ![c] = rest]
    /\ reqs' = [reqs EXCEPT ![c] = @ + 1]
    /\ UNCHANGED <<store, nextId, table, tasks, buf, kids, restarts>>

(* Mutant: the agent is assigned after it was completed.                   *)
McpAssignLate(c) ==
    Request(c, "open", NoId, NoId, <<"finding", "complete", "assign", "eval">>)
(* tools/call of an MCP client: open, assign, complete, eval; no close.    *)
McpToolsCall(c) ==
    Request(c, "open", NoId, NoId, <<"assign", "finding", "complete", "eval">>)

AgentCreate ==
    /\ "create" \in Commands
    /\ \E p \in {NoId} \cup (IF Nested THEN Ids ELSE {}) :
          Request(Operator, "open", NoId, p, <<>>)
(* One step of a task chain: open, assign, send, close.                    *)
ChainStep ==
    /\ "chain" \in Commands
    /\ Request(Operator, "open", NoId, NoId, <<"assign", "send", "close">>)
(* /agent close, /send and /assign take an id the operator types.          *)
OnAgent(command) ==
    /\ command \in Commands
    /\ \E i \in Ids : Request(Operator, command, i, NoId, <<>>)

-----------------------------------------------------------------------------
(* agent_open                                                              *)

(* Mutant: the cap is compared with > instead of >=.                       *)
OpenCheckOffByOne(c) ==
    /\ pc[c] = "open" /\ lock = NoId
    /\ IF Cardinality(runtimes) > MaxAgents
       THEN /\ Goto(c, "idle") /\ script' = [script EXCEPT ![c] = <<>>]
       ELSE /\ Goto(c, "open_set") /\ UNCHANGED script
    /\ UNCHANGED <<store, nextId, table, tasks, buf, ag, par, kids, reqs, restarts>>

(* running_count: the table is locked, measured and unlocked.              *)
OpenCheck(c) ==
    /\ pc[c] = "open" /\ lock = NoId
    /\ IF Cardinality(runtimes) >= MaxAgents
       THEN /\ Goto(c, "idle") /\ script' = [script EXCEPT ![c] = <<>>]
       ELSE /\ Goto(c, "open_set") /\ UNCHANGED script
    /\ UNCHANGED <<store, nextId, table, tasks, buf, ag, par, kids, reqs, restarts>>

(* Mutant: ids are numbered by the size of the table.                      *)
OpenSetBySize(c) ==
    /\ pc[c] = "open_set"
    /\ LET i == Cardinality(runtimes) + 1
       IN /\ i <= MaxId
          /\ ag' = [ag EXCEPT ![c] = i]
          /\ kv' = [kv EXCEPT ![i] = [status |-> "Running", steps |-> 0,
                                     parent |-> par[c], children |-> <<>>]]
    /\ Goto(c, "open_hset")
    /\ UNCHANGED <<active, nextId, table, tasks, buf, par, script, kids, count>>
(* Mutant: a failed SETEX is ignored, as the later writes are.             *)
OpenSetIgnored(c) ==
    /\ pc[c] = "open_set" /\ nextId <= MaxId
    /\ nextId' = nextId + 1
    /\ ag' = [ag EXCEPT ![c] = nextId]
    /\ \/ kv' = [kv EXCEPT ![nextId] = [status |-> "Running", steps |-> 0,
                                        parent |-> par[c], children |-> <<>>]]
       \/ OpFails /\ UNCHANGED kv
    /\ Goto(c, "open_hset")
    /\ UNCHANGED <<active, table, tasks, buf, par, script, kids, count>>

(* fetch_add, then SETEX of the new state.  The counter and the fresh key  *)
(* are touched by no other caller between the two.                         *)
OpenSet(c) ==
    /\ pc[c] = "open_set" /\ nextId <= MaxId
    /\ nextId' = nextId + 1
    /\ \/ /\ ag' = [ag EXCEPT ![c] = nextId]
          /\ kv' = [kv EXCEPT ![nextId] =
                      [status |-> "Running", steps |-> 0, parent |-> par[c],
                       children |-> <<>>]]
          /\ Goto(c, "open_hset") /\ UNCHANGED script
       \/ /\ OpFails
          /\ Goto(c, "idle") /\ script' = [script EXCEPT ![c] = <<>>]
          /\ UNCHANGED <<kv, ag>>
    /\ UNCHANGED <<active, table, tasks, buf, par, kids, count>>

(* HSET agents:active, then the input channel and the task are created.    *)
OpenHset(c) ==
    /\ pc[c] = "open_hset"
    /\ \/ /\ Hset(ag[c], "open")
          /\ tpc' = [tpc EXCEPT ![ag[c]] = "idle"]
          /\ Goto(c, "open_insert") /\ UNCHANGED script
       \/ /\ OpFails
          /\ Goto(c, "idle") /\ script' = [script EXCEPT ![c] = <<>>]
          /\ UNCHANGED <<active, tpc>>
    /\ UNCHANGED <<kv, nextId, table, inbox, tbuf, buf, ag, par, kids, count>>

OpenInsert(c) ==
    /\ pc[c] = "open_insert" /\ lock = NoId
    /\ runtimes' = runtimes \cup {ag[c]}
    /\ IF par[c] = NoId
       THEN Return(c)
       ELSE Goto(c, "open_pget") /\ UNCHANGED script
    /\ UNCHANGED <<store, nextId, lock, cancelled, tasks, buf, ag, par, kids, count>>

(* The parent's state is read, and written back with the new child.        *)
OpenParentGet(c) ==
    /\ pc[c] = "open_pget"
    /\ \/ /\ Stored(par[c])
          /\ buf' = [buf EXCEPT ![c] = kv[par[c]]]
          /\ Goto(c, "open_pset") /\ UNCHANGED script
       \/ /\ ~Stored(par[c]) \/ OpFails
          /\ Return(c) /\ UNCHANGED buf
    /\ UNCHANGED <<store, nextId, table, tasks, ag, par, kids, count>>
OpenParentSet(c) ==
    /\ pc[c] = "open_pset"
    /\ \/ kv' = [kv EXCEPT ![par[c]] =
                   [buf[c] EXCEPT !.children = Append(@, ag[c])]]
       \/ OpFails /\ UNCHANGED kv
    /\ Return(c)
    /\ UNCHANGED <<active, nextId, table, tasks, buf, ag, par, kids, count>>

-----------------------------------------------------------------------------
(* agent_assign                                                            *)

(* GET of the state of ag[c] into buf[c]; missing or unreadable: Err.      *)
ReadState(c, here, next) ==
    /\ pc[c] = here
    /\ \/ /\ Stored(ag[c])
          /\ buf' = [buf EXCEPT ![c] = kv[ag[c]]]
          /\ Goto(c, next) /\ UNCHANGED script
       \/ /\ ~Stored(ag[c]) \/ OpFails
          /\ Return(c) /\ UNCHANGED buf
    /\ UNCHANGED <<store, nextId, table, tasks, ag, par, kids, count>>

(* SETEX of s as the state of ag[c]; a failure makes the call return Err.  *)
WriteState(c, here, s, next) ==
    /\ pc[c] = here
    /\ \/ /\ kv' = [kv EXCEPT ![ag[c]] = s]
          /\ IF next = "return" THEN Return(c) ELSE Goto(c, next) /\ UNCHANGED script
       \/ /\ OpFails
          /\ Return(c) /\ UNCHANGED kv
    /\ UNCHANGED <<active, nextId, table, tasks, buf, ag, par, kids, count>>

AssignGet(c) == ReadState(c, "assign", "assign_set")
(* Whatever the status was, the agent is Running again.                    *)
AssignSet(c) ==
    WriteState(c, "assign_set",
               [buf[c] EXCEPT !.status = "Running", !.steps = @ + 1], "return")

-----------------------------------------------------------------------------
(* agent_send_input: the mutex is held until the message is in the channel *)

SendLock(c) ==
    /\ pc[c] = "send" /\ lock = NoId
    /\ IF ag[c] \in runtimes
       THEN /\ lock' = c /\ Goto(c, "send_push") /\ UNCHANGED script
       ELSE Return(c) /\ UNCHANGED lock       \* queued in a stream nobody reads
    /\ UNCHANGED <<store, nextId, runtimes, cancelled, tasks, buf, ag, par, kids, count>>
(* Mutant: the channel is unbounded.                                       *)
SendPushUnbounded(c) ==
    /\ pc[c] = "send_push"
    /\ inbox' = [inbox EXCEPT ![ag[c]] = @ + 1]
    /\ lock' = NoId
    /\ Return(c)
    /\ UNCHANGED <<store, nextId, runtimes, cancelled, tpc, tbuf, buf, ag, par, kids, count>>
(* Mutant: the receiver outlives the task, so a full channel stays full.   *)
SendPushUnnoticed(c) ==
    /\ pc[c] = "send_push" /\ inbox[ag[c]] < ChanCap
    /\ inbox' = [inbox EXCEPT ![ag[c]] = @ + 1]
    /\ lock' = NoId
    /\ Return(c)
    /\ UNCHANGED <<store, nextId, runtimes, cancelled, tpc, tbuf, buf, ag, par, kids, count>>
SendPush(c) ==
    /\ pc[c] = "send_push"
    /\ \/ /\ tpc[ag[c]] # "done" /\ inbox[ag[c]] < ChanCap
          /\ inbox' = [inbox EXCEPT ![ag[c]] = @ + 1]
       \/ tpc[ag[c]] = "done" /\ UNCHANGED inbox       \* the receiver is gone: Err
    /\ lock' = NoId
    /\ Return(c)
    /\ UNCHANGED <<store, nextId, runtimes, cancelled, tpc, tbuf, buf, ag, par, kids, count>>

-----------------------------------------------------------------------------
(* agent_add_finding and agent_complete_with_finding                       *)

(* XADD of the finding; an error abandons the completion as well.          *)
FindingXadd(c) ==
    /\ pc[c] = "finding"
    /\ \E answer \in XaddAnswers :
          IF answer = "ok"
          THEN Goto(c, "finding_get") /\ UNCHANGED script
          ELSE /\ Goto(c, "eval")
               /\ script' = [script EXCEPT ![c] = <<>>]
    /\ UNCHANGED <<store, nextId, table, tasks, buf, ag, par, kids, count>>
FindingGet(c) == ReadState(c, "finding_get", "finding_set")
FindingSet(c) ==
    WriteState(c, "finding_set", [buf[c] EXCEPT !.steps = @ + 1], "return")

CompleteGet(c) == ReadState(c, "complete", "complete_set")
CompleteSet(c) ==
    WriteState(c, "complete_set", [buf[c] EXCEPT !.status = "Completed"], "complete_hset")
(* The runtime stays in the table.                                         *)
CompleteHset(c) ==
    /\ pc[c] = "complete_hset"
    /\ Hset(ag[c], "completed") \/ (OpFails /\ UNCHANGED active)
    /\ Return(c)
    /\ UNCHANGED <<kv, nextId, table, tasks, buf, ag, par, kids, count>>

(* agent_eval only reads.                                                  *)
Eval(c) ==
    /\ pc[c] = "eval"
    /\ Return(c)
    /\ UNCHANGED <<store, nextId, table, tasks, buf, ag, par, kids, count>>

-----------------------------------------------------------------------------
(* agent_close                                                             *)

(* Mutant: a runtime whose task has ended is left alone.                   *)
RemoveLiveRuntime(i) ==
    /\ lock = NoId
    /\ runtimes' = IF tpc[i] = "done" THEN runtimes ELSE runtimes \ {i}
    /\ cancelled' = IF i \in runtimes THEN cancelled \cup {i} ELSE cancelled
    /\ UNCHANGED lock
(* Takes the runtime of i out of the table and cancels its token.          *)
RemoveRuntime(i) ==
    /\ lock = NoId
    /\ runtimes' = runtimes \ {i}
    /\ cancelled' = IF i \in runtimes THEN cancelled \cup {i} ELSE cancelled
    /\ UNCHANGED lock

CloseGet(c) == ReadState(c, "close", "close_remove")
CloseRemove(c) ==
    /\ pc[c] = "close_remove"
    /\ RemoveRuntime(ag[c])
    /\ kids' = [kids EXCEPT ![c] = buf[c].children]
    /\ Goto(c, "close_set")
    /\ UNCHANGED <<store, nextId, tasks, buf, ag, par, script, count>>
CloseSet(c) ==
    WriteState(c, "close_set", [buf[c] EXCEPT !.status = "Completed"], "close_hset")
CloseHset(c) ==
    /\ pc[c] = "close_hset"
    /\ Hset(ag[c], "closed") \/ (OpFails /\ UNCHANGED active)
    /\ Goto(c, "cascade")
    /\ UNCHANGED <<kv, nextId, table, tasks, frame, count>>

(* Mutant: the cascade stops at the first child it skips.                  *)
CascadeGetFirst(c) ==
    /\ pc[c] = "cascade" /\ kids[c] # <<>>
    /\ LET k == Head(kids[c])
       IN \/ /\ is_running(kv[k])
             /\ buf' = [buf EXCEPT ![c] = kv[k]]
             /\ Goto(c, "cascade_set") /\ UNCHANGED kids
          \/ /\ ~is_running(kv[k]) \/ OpFails
             /\ kids' = [kids EXCEPT ![c] = <<>>]
             /\ UNCHANGED <<pc, buf>>
    /\ UNCHANGED <<store, nextId, table, tasks, ag, par, script, count>>
(* The cascade: the first child left is read; one that is not running, or  *)
(* cannot be read, is skipped.                                             *)
CascadeGet(c) ==
    /\ pc[c] = "cascade" /\ kids[c] # <<>>
    /\ LET k == Head(kids[c])
       IN \/ /\ is_running(kv[k])
             /\ buf' = [buf EXCEPT ![c] = kv[k]]
             /\ Goto(c, "cascade_set") /\ UNCHANGED kids
          \/ /\ ~is_running(kv[k]) \/ OpFails
             /\ kids' = [kids EXCEPT ![c] = Tail(@)]
             /\ UNCHANGED <<pc, buf>>
    /\ UNCHANGED <<store, nextId, table, tasks, ag, par, script, count>>
CascadeSet(c) ==
    /\ pc[c] = "cascade_set"
    /\ \/ kv' = [kv EXCEPT ![Head(kids[c])] = [buf[c] EXCEPT !.status = "Cancelled"]]
       \/ OpFails /\ UNCHANGED kv
    /\ Goto(c, "cascade_hset")
    /\ UNCHANGED <<active, nextId, table, tasks, frame, count>>
CascadeHset(c) ==
    /\ pc[c] = "cascade_hset"
    /\ Hset(Head(kids[c]), "cancelled") \/ (OpFails /\ UNCHANGED active)
    /\ Goto(c, "cascade_remove")
    /\ UNCHANGED <<kv, nextId, table, tasks, frame, count>>
CascadeRemove(c) ==
    /\ pc[c] = "cascade_remove"
    /\ RemoveRuntime(Head(kids[c]))
    /\ kids' = [kids EXCEPT ![c] = Tail(@)]
    /\ Goto(c, "cascade")
    /\ UNCHANGED <<store, nextId, tasks, buf, ag, par, script, count>>
CloseEnd(c) ==
    /\ pc[c] = "cascade" /\ kids[c] = <<>>
    /\ Return(c)
    /\ UNCHANGED <<store, nextId, table, tasks, buf, ag, par, kids, count>>

-----------------------------------------------------------------------------
(* The task of an agent.  It never looks at its cancellation token.        *)

TaskRecv(t) ==
    /\ tpc[t] = "idle" /\ inbox[t] > 0
    /\ inbox' = [inbox EXCEPT ![t] = @ - 1]
    /\ tpc' = [tpc EXCEPT ![t] = "get"]
    /\ UNCHANGED <<store, nextId, table, tbuf, pc, frame, count>>
TaskGet(t) ==
    /\ tpc[t] = "get"
    /\ \/ /\ Stored(t)
          /\ tbuf' = [tbuf EXCEPT ![t] = kv[t]]
          /\ tpc' = [tpc EXCEPT ![t] = "set"]
       \/ /\ ~Stored(t) \/ OpFails
          /\ tpc' = [tpc EXCEPT ![t] = "idle"]
          /\ UNCHANGED tbuf
    /\ UNCHANGED <<store, nextId, table, inbox, pc, frame, count>>
TaskSet(t) ==
    /\ tpc[t] = "set"
    /\ \/ kv' = [kv EXCEPT ![t] = [tbuf[t] EXCEPT !.steps = @ + 1]]
       \/ OpFails /\ UNCHANGED kv
    /\ tpc' = [tpc EXCEPT ![t] = "idle"]
    /\ UNCHANGED <<active, nextId, table, inbox, tbuf, pc, frame, count>>
(* Mutant: what the comment in the code announces, "break only on cancel"; *)
(* nothing makes the loop look at the token.                               *)
TaskNeverEnds(t) ==
    /\ tpc[t] = "idle"
    /\ tpc' = [tpc EXCEPT ![t] = "idle"]
    /\ UNCHANGED <<store, nextId, table, inbox, tbuf, pc, frame, count>>
(* Ten seconds in one wait: the task ends and drops what is buffered.  If  *)
(* a message and the timer are both ready, select! takes either.           *)
TaskIdleEnd(t) ==
    /\ tpc[t] = "idle"
    /\ tpc' = [tpc EXCEPT ![t] = "done"]
    /\ inbox' = [inbox EXCEPT ![t] = 0]
    /\ UNCHANGED <<store, nextId, table, tbuf, pc, frame, count>>

-----------------------------------------------------------------------------
(* A day after it was last written, Redis drops the state of an agent; the *)
(* in-memory map keeps what it has.  Nothing else learns of it.            *)
Expire(i) ==
    /\ Connected /\ Stored(i)
    /\ kv' = [kv EXCEPT ![i] = Expired]
    /\ UNCHANGED <<active, nextId, table, tasks, pc, frame, count>>

(* The process stops at any point and is started again: Redis keeps the    *)
(* states, everything else is new and ids start at 1 again.                *)
Restart ==
    /\ restarts < MaxRestarts
    /\ restarts' = restarts + 1
    /\ kv' = IF Connected THEN kv ELSE [i \in Ids |-> Absent]
    /\ active' = IF Connected THEN active ELSE [i \in Ids |-> "none"]
    /\ nextId' = 1
    /\ runtimes' = {} /\ lock' = NoId /\ cancelled' = {}
    /\ inbox' = [i \in Ids |-> 0] /\ tpc' = [i \in Ids |-> "none"]
    /\ tbuf' = [i \in Ids |-> Absent]
    /\ pc' = [c \in Callers |-> "idle"] /\ buf' = [c \in Callers |-> Absent]
    /\ ag' = [c \in Callers |-> NoId] /\ par' = [c \in Callers |-> NoId]
    /\ script' = [c \in Callers |-> <<>>] /\ kids' = [c \in Callers |-> <<>>]
    /\ UNCHANGED reqs

Open(c)     == OpenCheck(c) \/ OpenSet(c) \/ OpenHset(c) \/ OpenInsert(c)
               \/ OpenParentGet(c) \/ OpenParentSet(c)
Assign(c)   == AssignGet(c) \/ AssignSet(c)
Send(c)     == SendLock(c) \/ SendPush(c)
Complete(c) == FindingXadd(c) \/ FindingGet(c) \/ FindingSet(c)
               \/ CompleteGet(c) \/ CompleteSet(c) \/ CompleteHset(c)
Close(c)    == CloseGet(c) \/ CloseRemove(c) \/ CloseSet(c) \/ CloseHset(c)
               \/ CascadeGet(c) \/ CascadeSet(c) \/ CascadeHset(c)
               \/ CascadeRemove(c) \/ CloseEnd(c)
CallStep(c) == Open(c) \/ Assign(c) \/ Send(c) \/ Complete(c) \/ Eval(c) \/ Close(c)
TaskStep(t) == TaskRecv(t) \/ TaskGet(t) \/ TaskSet(t) \/ TaskIdleEnd(t)

Next ==
    \/ \E c \in Conns : McpToolsCall(c)
    \/ AgentCreate \/ ChainStep
    \/ \E command \in {"close", "send", "assign"} : OnAgent(command)
    \/ \E c \in Callers : CallStep(c)
    \/ \E t \in Ids : TaskStep(t)
    \/ \E i \in Ids : Expire(i)
    \/ Restart

Spec == Init /\ [][Next]_vars

(* The tokio runtime keeps polling every task that can make progress, and  *)
(* tokio's mutex is fair: callers take it in turn.  Nothing makes a caller *)
(* issue a request or the process restart.                                 *)
Fairness ==
    /\ \A c \in Callers : SF_vars(CallStep(c))
    /\ \A t \in Ids : WF_vars(TaskStep(t))
FairSpec == Spec /\ Fairness
-----------------------------------------------------------------------------
(* Properties.                                                             *)

CallPcs == {"idle", "open", "open_set", "open_hset", "open_insert", "open_pget",
            "open_pset", "assign", "assign_set", "send", "send_push", "finding",
            "finding_get", "finding_set", "complete", "complete_set",
            "complete_hset", "eval", "close", "close_remove", "close_set",
            "close_hset", "cascade", "cascade_set", "cascade_hset",
            "cascade_remove"}

(* Every variable has its type.                                            *)
TypeOK ==
    /\ kv \in [Ids -> AgentState]
    /\ active \in [Ids -> {"none", "open", "completed", "closed", "cancelled"}]
    /\ nextId \in 1..(MaxId + 1)
    /\ runtimes \subseteq Ids /\ cancelled \subseteq Ids
    /\ lock \in Callers \cup {NoId}
    /\ inbox \in [Ids -> 0..ChanCap]
    /\ tpc \in [Ids -> {"none", "idle", "get", "set", "done"}]
    /\ tbuf \in [Ids -> AgentState]
    /\ pc \in [Callers -> CallPcs]
    /\ buf \in [Callers -> AgentState]
    /\ ag \in [Callers -> Ids \cup {NoId}] /\ par \in [Callers -> Ids \cup {NoId}]
    /\ script \in [Callers -> Seq(CallPcs)] /\ kids \in [Callers -> Seq(Ids)]
    /\ reqs \in [Callers -> 0..MaxReq] /\ restarts \in 0..MaxRestarts

(* Callers that passed the cap check and have no runtime in the table yet. *)
Admitted == {c \in Callers : pc[c] \in {"open_set", "open_hset", "open_insert"}}
HasNewId(c) == pc[c] \in {"open_hset", "open_insert"}

(* The check of the cap and the insertion are separate critical sections,  *)
(* so the table can outgrow the cap, but by no more than the callers that  *)
(* can be between the two: one per MCP connection.                         *)
CapOvershoot == Cardinality(runtimes) + Cardinality(Admitted)
                   <= MaxAgents + Cardinality(Conns)

(* No open overwrites a live runtime: the ids that opens are about to      *)
(* insert are new to the table and different from one another.             *)
FreshInsert ==
    \A c \in Callers : HasNewId(c) =>
        /\ ag[c] \in Ids \ runtimes
        /\ \A d \in Callers \ {c} : HasNewId(d) => ag[d] # ag[c]

(* An open that fails half-way leaves nothing in the table: every agent    *)
(* there has a task, and had its state stored.  One whose state can no     *)
(* longer be read has outlived the day the state is kept.                  *)
RuntimeBacked ==
    \A i \in runtimes : tpc[i] # "none" /\ (Stored(i) \/ kv[i] = Expired)

(* MCP connections do not disturb one another's agents: when the answer of *)
(* a tools/call is read, its own agent is completed, with exactly the two  *)
(* steps of this request (no store failure, no operator command on it).    *)
McpAnswer ==
    \A c \in Conns : pc[c] = "eval" =>
        kv[ag[c]].status = "Completed" /\ kv[ag[c]].steps = 2

(* A finished step of a task chain has given its slot back, whatever its   *)
(* agent's task and the connections were doing.                            *)
ChainFreesSlot == pc[Operator] = "idle" => ag[Operator] \notin runtimes

(* When a close has walked its children, none of those stored with the     *)
(* closed agent, unless one could not be read, still has a runtime.        *)
CascadeReleases ==
    \A c \in Callers : pc[c] = "cascade" =>
        \A n \in 1..Len(kv[ag[c]].children) :
            kv[ag[c]].children[n] \notin runtimes
            \/ \E m \in 1..Len(kids[c]) : kids[c][m] = kv[ag[c]].children[n]

(* Every manager call returns, although agent_send_input waits for room in *)
(* a channel while it holds the mutex every other call needs.              *)
CallsReturn == \A c \in Callers : pc[c] # "idle" ~> pc[c] = "idle"

(* The task of a closed agent ends, after the messages it still has; only  *)
(* its timer ends it, the cancellation token does not.                     *)
ClosedTaskEnds ==
    \A i \in Ids : i \in cancelled ~> (tpc[i] = "done" \/ i \notin cancelled)

(* agent_close completes an agent for good: a Completed agent that no      *)
(* caller assigns a new objective to does not run again.                   *)
CompletedStays ==
    [][\A i \in Ids :
          /\ kv[i].status = "Completed"
          /\ \A c \in Callers : ~(pc[c] = "assign_set" /\ ag[c] = i)
          => kv'[i].status # "Running"]_vars
=============================================================================
