------------------------------- MODULE Access -------------------------------
(***************************************************************************)
(* What a node shares and who may use its channels (src/security.rs:       *)
(* SharePolicy and PrivacyEngine, ChannelIsolation).  main.rs makes the    *)
(* channels and prints how many there are; no command calls the rest, so   *)
(* this is the contract of a library, for any sequence of calls.           *)
(* Bridges are shared with one fixed scope, skills with the one given;     *)
(* agents and services have lists that nothing fills.                      *)
(***************************************************************************)
EXTENDS Sequences, SequencesExt, FiniteSets, Ordered

CONSTANTS
    GroupNames,     \* groups with a policy
    Shareable,      \* skills
    Channels,
    Users,          \* peers
    Tokens,         \* group tokens
    MaxShares       \* bound: entries of one policy

VARIABLES
    policies,       \* whether a group's policy is made, and its shared skills in order
    isolation,      \* the access of each channel
    out             \* pairs of a channel and a user that was removed from its list

accessVars == <<policies, isolation, out>>

NoPolicy == [made |-> FALSE, skills |-> <<>>]
Scopes == {"personal", "group", "public"}

Listed(l) == [kind |-> "peers", list |-> l]
Grouped(l) == [kind |-> "groups", list |-> l]
Public == [kind |-> "public", list |-> <<>>]
Private == [kind |-> "private", list |-> <<>>]
NoChannel == [kind |-> "none", list |-> <<>>]

(* Of the channels made at the start, one is for every group, one for all  *)
(* and one for a list that is still empty.                                 *)
AccessInit ==
    /\ policies = [g \in GroupNames |-> NoPolicy]
    /\ isolation \in [Channels -> {Grouped(<<>>), Public, Listed(<<>>), NoChannel}]
    /\ out = {}

-----------------------------------------------------------------------------
(* Policies.                                                               *)

create_policy(g) ==
    /\ policies' = [policies EXCEPT ![g] = [made |-> TRUE, skills |-> <<>>]]
    /\ UNCHANGED <<isolation, out>>

share_skill(g, s, scope) ==
    /\ policies[g].made
    /\ Len(policies[g].skills) < MaxShares
    /\ policies' = [policies EXCEPT ![g].skills = Append(@, [skill |-> s, scope |-> scope])]
    /\ UNCHANGED <<isolation, out>>

Entry(p, s) == SelectInSeq(p.skills, LAMBDA e : e.skill = s)
is_shared(p, s) == Entry(p, s) # 0

visibilityOfLast(p, s) ==   \* Mutant: the latest entry counts.
    IF is_shared(p, s) THEN p.skills[SelectLastInSeq(p.skills, LAMBDA e : e.skill = s)].scope
                       ELSE "personal"
visibility(p, s) == IF is_shared(p, s) THEN p.skills[Entry(p, s)].scope ELSE "personal"

-----------------------------------------------------------------------------
(* Channels.                                                               *)

create_channel(c, access) ==
    /\ isolation' = [isolation EXCEPT ![c] = access]
    /\ out' = {o \in out : o[1] # c}
    /\ UNCHANGED policies

can_access(c, u, token) ==
    LET a == isolation[c]
    IN \/ a.kind = "public"
       \/ a.kind = "groups" /\ token \in Tokens /\ (a.list = <<>> \/ Contains(a.list, token))
       \/ a.kind = "peers" /\ Contains(a.list, u)

add_peer_to_channel(c, u) ==
    /\ isolation[c].kind = "peers"      \* otherwise a warning, or nothing
    /\ isolation' = [isolation EXCEPT ![c].list = IF Contains(@, u) THEN @ ELSE Append(@, u)]
    /\ out' = out \ {<<c, u>>}
    /\ UNCHANGED policies

WithoutFirst(l, u) ==       \* Mutant: only the first entry goes.
    IF Contains(l, u) THEN RemoveFirst(l, u) ELSE l
Without(l, u) == Kept(l, {k \in DOMAIN l : l[k] # u})

remove_peer_from_channel(c, u) ==
    /\ isolation[c].kind = "peers"      \* otherwise nothing, without a word
    /\ isolation' = [isolation EXCEPT ![c].list = Without(@, u)]
    /\ out' = out \cup {<<c, u>>}
    /\ UNCHANGED policies

-----------------------------------------------------------------------------
Accesses == {Public, Private} \cup {Grouped(l) : l \in BoundedSeq(Tokens, 1)}
                              \cup {Listed(l) : l \in BoundedSeq(Users, 2)}

AccessNext ==
    \/ \E g \in GroupNames : create_policy(g)
    \/ \E g \in GroupNames, s \in Shareable, scope \in Scopes : share_skill(g, s, scope)
    \/ \E c \in Channels, a \in Accesses : create_channel(c, a)
    \/ \E c \in Channels, u \in Users :
          add_peer_to_channel(c, u) \/ remove_peer_from_channel(c, u)

AccessSpec == AccessInit /\ [][AccessNext]_accessVars

-----------------------------------------------------------------------------
(* Sharing a skill again changes nothing of who sees it: what was public   *)
(* cannot be made personal, nor the other way round, but by a new policy.  *)
ScopeStays ==
    [][\A g \in GroupNames, s \in Shareable :
          is_shared(policies[g], s)
              => \/ visibility(policies'[g], s) = visibility(policies[g], s)
                 \/ policies'[g].skills = <<>>]_accessVars

(* A user removed from a list has no access until added again or until the *)
(* channel is made anew, with a list that may name the same user twice.    *)
RemovedIsOut == \A o \in out, t \in Tokens : ~can_access(o[1], o[2], t)
=============================================================================
