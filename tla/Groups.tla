------------------------------- MODULE Groups -------------------------------
(***************************************************************************)
(* One group of a node (src/group.rs) with its message queue.  Gossip      *)
(* follows what the gossip engine does with groups.  The state file is     *)
(* left out: save_state and load_state have no caller.                     *)
(*                                                                         *)
(* The queue is a tokio channel; nothing in the program receives from it,  *)
(* so it fills up, and try_send drops what comes after without a word.     *)
(* The comments of share_skill and of the manager ask for shared = true;   *)
(* the code does not look at the flag, which this module leaves out, like  *)
(* the roles, which are only printed.                                      *)
(***************************************************************************)
EXTENDS Naturals, Sequences, SequencesExt

CONSTANTS
    Self, Others,   \* the node and others that it invites
    Resources,      \* skills, agents, bridges and services of the node
    QueueSize       \* 256 in the code

VARIABLES
    group,          \* None, or the group's mode, members and resources
    queue           \* messages nobody receives

groupVars == <<group, queue>>

Modes == <<"Watch", "Storm", "Hunt", "Synthesis", "Focus">>
next_after_completion(md) ==
    LET i == CHOOSE j \in DOMAIN Modes : Modes[j] = md IN Modes[(i % Len(Modes)) + 1]

None == [mode |-> ""]
Exists == group # None
Note(k, from, to) == [kind |-> k, from |-> from, to |-> to]

try_send(q, msg) == IF Len(q) < QueueSize THEN Append(q, msg) ELSE q

GroupInit ==
    /\ group = None /\ queue = <<>>

-----------------------------------------------------------------------------
(* /group create.                                                          *)
CreateGroup ==
    /\ ~Exists
    /\ group' = [mode |-> "Watch", members |-> {Self}, resources |-> {}]
    /\ queue' = <<>>

(* share_skill, share_agent, share_bridge, share_service.                  *)
Share(r) ==
    /\ Exists /\ r \notin group.resources
    /\ group' = [group EXCEPT !.resources = @ \cup {r}]
    /\ queue' = try_send(queue, Note("shared", r, r))

(* send_to_group tells its caller whether the message was queued.          *)
send_to_group ==
    /\ Exists
    /\ queue' = try_send(queue, Note("message", Self, Self))
    /\ UNCHANGED group

(* Mutant: the message is made of the mode that has just been stored.      *)
ModeNoteLate(old, new) == Note("mode_change", new, new)
ModeNote(old, new) == Note("mode_change", old, new)

(* /group mode, and /groupmode for every group.                            *)
set_mode(md) ==
    /\ Exists
    /\ group' = [group EXCEPT !.mode = md]
    /\ queue' = try_send(queue, ModeNote(group.mode, md))

(* /group next.                                                            *)
advance_mode == Exists /\ set_mode(next_after_completion(group.mode))

-----------------------------------------------------------------------------
(* Members: any of them can be removed, the lead too.                      *)

add_member(n) ==
    /\ Exists
    /\ group' = [group EXCEPT !.members = @ \cup {n}]
    /\ UNCHANGED queue

remove_member(n) ==
    /\ Exists /\ n \in group.members
    /\ group' = [group EXCEPT !.members = @ \ {n}]
    /\ UNCHANGED queue

-----------------------------------------------------------------------------
(* A new process has no group.                                             *)
NewProcess ==
    /\ group' = None /\ queue' = <<>>

GroupNext ==
    \/ CreateGroup \/ send_to_group \/ advance_mode \/ NewProcess
    \/ \E r \in Resources : Share(r)
    \/ \E md \in ToSet(Modes) : set_mode(md)
    \/ \E n \in Others \cup {Self} : add_member(n) \/ remove_member(n)

GroupSpec == GroupInit /\ [][GroupNext]_groupVars

-----------------------------------------------------------------------------
ModeChanges == {i \in DOMAIN queue : queue[i].kind = "mode_change"}

(* The mode changes in the queue follow one another, and end with the mode *)
(* the group has: whoever reads the queue can follow the group until the   *)
(* queue is full (set_mode, try_send).                                     *)
ModeTrail ==
    /\ \A i, j \in ModeChanges :
            i < j /\ (\A k \in ModeChanges : k <= i \/ j <= k) => queue[i].to = queue[j].from
    /\ \A i \in ModeChanges :
            Len(queue) < QueueSize /\ (\A k \in ModeChanges : k <= i)
                => queue[i].to = group.mode
=============================================================================
