----------------------------- MODULE AgentChat ------------------------------
(***************************************************************************)
(* Messages between agents, and the owner's rules who may write to whom    *)
(* (src/agent_chat.rs).  The rules are kept in agent_acl.json, rewritten   *)
(* after each change without a look at the result; every "@agent" command  *)
(* loads them anew, and a file that cannot be parsed means no rules:       *)
(* everything is allowed.                                                  *)
(***************************************************************************)
CONSTANTS
    Agents,
    Senders,        \* agents that the owner makes rules for
    All             \* the wildcard "*"

VARIABLES
    allowed, blocked,   \* the rules of each sender in memory
    aclFile,            \* the rules that the file gives
    streams,            \* the senders whose Redis streams hold messages
    muted,              \* senders muted in memory: "*" blocked, and neither reset
                        \* nor allowed "*" since
    mutedOnDisk         \* senders that were muted when the file was written

aclVars == <<allowed, blocked, aclFile, streams, muted, mutedOnDisk>>

Targets == Agents \cup {All}
NoRules == [s \in Senders |-> {}]
NoFile == [allowed |-> NoRules, blocked |-> NoRules]

ChatInit ==
    /\ allowed = NoRules /\ blocked = NoRules
    /\ aclFile = NoFile
    /\ streams = {} /\ muted = {} /\ mutedOnDisk = {}

-----------------------------------------------------------------------------
(* The rules.                                                              *)

(* save: the rules are written, or the file cannot be opened and stays, or *)
(* its text is cut short, by an error or with the process, and means       *)
(* nothing.  The caller does not learn which.                              *)
Save ==
    \/ aclFile' = [allowed |-> allowed', blocked |-> blocked'] /\ mutedOnDisk' = muted'
    \/ UNCHANGED <<aclFile, mutedOnDisk>>
    \/ aclFile' = NoFile /\ mutedOnDisk' = {}

allow(s, t) ==
    /\ allowed' = [allowed EXCEPT ![s] = @ \cup {t}]
    /\ blocked' = [blocked EXCEPT ![s] = @ \ {t}]
    /\ muted' = IF t = All THEN muted \ {s} ELSE muted
    /\ Save
    /\ UNCHANGED streams

block(s, t) ==
    /\ blocked' = [blocked EXCEPT ![s] = @ \cup {t}]
    /\ allowed' = [allowed EXCEPT ![s] = @ \ {t}]
    /\ muted' = IF t = All THEN muted \cup {s} ELSE muted
    /\ Save
    /\ UNCHANGED streams

(* Rules that allow single targets stay, and mean nothing while this one is. *)
block_all(s) ==
    /\ blocked' = [blocked EXCEPT ![s] = @ \cup {All}]
    /\ muted' = muted \cup {s}
    /\ UNCHANGED <<allowed, streams>>
    /\ Save

reset(s) ==
    /\ allowed' = [allowed EXCEPT ![s] = {}]
    /\ blocked' = [blocked EXCEPT ![s] = {}]
    /\ muted' = muted \ {s}
    /\ Save
    /\ UNCHANGED streams

(* The process ends and another one loads the file.                        *)
Reload ==
    /\ allowed' = aclFile.allowed /\ blocked' = aclFile.blocked
    /\ muted' = mutedOnDisk
    /\ UNCHANGED <<aclFile, streams, mutedOnDisk>>

(* Mutant: a rule that allows the target comes first.                      *)
AllowFirst(b, a, t) == {t, All} \cap a # {} \/ {t, All} \cap b = {}
(* can_send: default_allow is never false.                                 *)
Decide(b, a, t) == {t, All} \cap b = {}
can_send(rules, s, t) == s \in Senders => Decide(rules.blocked[s], rules.allowed[s], t)

-----------------------------------------------------------------------------
(* The messages.                                                           *)

(* "@agent" and "@all" go out from "human"; agents reply and broadcast.    *)
(* Each command makes a new AgentChat, which reads the file.  The XADD has *)
(* no entry id, which a Redis server rejects; errors are ignored, and both *)
(* answers are kept.  Nothing reads the streams.                           *)
Send(s, t) ==
    /\ can_send(aclFile, s, t)
    /\ streams' \in {streams, streams \cup {s}}
    /\ UNCHANGED <<allowed, blocked, aclFile, muted, mutedOnDisk>>

ChatNext ==
    \/ Reload
    \/ \E s \in Senders : block_all(s) \/ reset(s)
    \/ \E s \in Senders, t \in Targets : allow(s, t) \/ block(s, t)
    \/ \E s \in Agents, t \in Targets : Send(s, t)

ChatSpec == ChatInit /\ [][ChatNext]_aclVars

-----------------------------------------------------------------------------
(* A sender that is muted reaches nobody until the owner says so, whatever *)
(* rules for single agents come after, for the process that holds the rule *)
(* and, once a mute is in the file, for every command and process that     *)
(* reads it, whichever later writes fail (block_all, allow, can_send,      *)
(* save).  A mute whose own write failed ends with the process.            *)
MuteHolds == \A t \in Targets :
    /\ \A s \in muted : ~can_send([allowed |-> allowed, blocked |-> blocked], s, t)
    /\ \A s \in mutedOnDisk : ~can_send(aclFile, s, t)
=============================================================================
