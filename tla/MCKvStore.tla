----------------------------- MODULE MCKvStore ------------------------------
(* KvStore for TLC.  The jobs are call sites of src/.                      *)
EXTENDS KvStore

CONSTANTS operator, mcp, v1, v2, state, rating, chat, goal

SystemHome == [k \in Keys |-> IF k = chat THEN 3 ELSE 0]

J(h, t, c, k) == [how |-> h, to |-> t, cmd |-> c, key |-> k]
(* /say 3 and /say 20 (group_chat.rs), a rating (agent_rating.rs), the     *)
(* state of an agent (subagent.rs), the messages of an agent in group 3    *)
(* (agent_chat.rs).                                                        *)
SayJob      == J("group", 3, "xadd", chat)
SayFarJob   == J("group", 20, "xadd", chat)
InboxJob    == J("select", 3, "get", chat)
RatingJobs  == {J("select", 0, "set", rating), J("select", 0, "get", rating)}
StateJobs   == {J("select", 0, "set", state), J("select", 0, "get", state)}
(* /self goal and /self improve (handlers.rs) select no database.          *)
GoalJobs    == {J("as_is", 0, "set", goal), J("as_is", 0, "get", goal)}
(* No caller deletes a key today; the command is part of the store.        *)
DeleteJob   == J("select", 0, "delete", rating)

SelectingJobs == {SayJob, SayFarJob, InboxJob, DeleteJob} \cup RatingJobs \cup StateJobs

SerialJobs == [c \in Clients |-> SelectingJobs]
MixedJobs  == [c \in Clients |-> IF c = mcp THEN StateJobs ELSE {SayJob} \cup GoalJobs]
=============================================================================
