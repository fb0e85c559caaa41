------------------------------- MODULE MCNode -------------------------------
(* The services of a node that share no state with each other, each on a   *)
(* small instance: "part" names the one whose steps a behaviour follows.   *)
EXTENDS SequencesExt, SecurityTrust, Ordered

CONSTANTS Cargos, MaxOffers, Conns, Posts, MaxFds, MaxPublished,
          Agents, Senders, All, Self, Others, Resources, QueueSize,
          Devices, Scenes, MaxEntries, Shipped, MaxSkills, MaxDirs,
          McpSkills, Builtin, Taps, Tasks, A2aPeers, RateLimit, WindowLength, MaxNow,
          MaxLines, Rated, Votes, Findings, BronzeAt, SilverAt, MaxVotes,
          MaxDeploys, Contacts, Jobs, Values, MaxItems,
          Dbs, MaxList, MaxLogged,
          GroupNames, Shareable, Channels, Users, Tokens, MaxShares

(* The rate is counted by finitely many tasks; votes and findings are      *)
(* counted; no rank is had for nothing; databases have numbers; bounds are *)
(* natural.                                                                *)
ASSUME NodeAssumption ==
    /\ IsFiniteSet(Tasks) /\ RateLimit \in Nat /\ WindowLength \in Nat
    /\ Votes \subseteq Nat /\ Findings \subseteq Nat
    /\ BronzeAt \in Nat \ {0} /\ SilverAt \in Nat \ {0}
    /\ Dbs \subseteq Nat /\ MaxList \in Nat \ {0}
    /\ MaxLogged \in Nat /\ MaxLines \in Nat /\ QueueSize \in Nat

VARIABLES
    part,
    incoming, cargoStatus, pendingCargo, listing,
    listening, client, request, handler, chat_log, nodes, inbox, published, delivered,
    blacklist, json, text, phase, survives,
    allowed, blocked, aclFile, streams, muted, mutedOnDisk,
    group, queue,
    devices, cameras, displays, director, control,
    registry, agentsDir, exported, making, rewritten,
    skillDir, storeFile, store, job,
    now, rate_window, rate_limit, allowed_peers, task, served,
    written, adding, failed, lines, backup, flushing, handed, cut, spoiled,
    rating, report, bridges, highest, alive,
    enabled, seconds, built, binary, backups, deploying,
    items, disk, saving, unsaved,
    logged, logFile, lists, connected, step, short,
    policies, isolation, out

C == INSTANCE Cargo
H == INSTANCE HttpApi
L == INSTANCE SecurityLists
A == INSTANCE AgentChat
G == INSTANCE Groups
M == INSTANCE Media
S == INSTANCE Skills
P == INSTANCE McpStore
W == INSTANCE A2aGateway
Q == INSTANCE OfflineQueue
R == INSTANCE Rating WITH running <- alive
D == INSTANCE SelfDeploy
F == INSTANCE ConfigFiles
J == INSTANCE Journal
X == INSTANCE Access

-----------------------------------------------------------------------------
cVars == <<incoming, cargoStatus, pendingCargo, listing>>
hVars == <<listening, client, request, handler, chat_log, nodes, inbox, published, delivered>>
lVars == <<blacklist, json, text, phase, survives>>
aVars == <<allowed, blocked, aclFile, streams, muted, mutedOnDisk>>
gVars == <<group, queue>>
mVars == <<devices, cameras, displays, director, control>>
sVars == <<registry, agentsDir, exported, making, rewritten>>
pVars == <<skillDir, storeFile, store, job>>
wVars == <<now, rate_window, rate_limit, allowed_peers, task, served>>
qVars == <<written, adding, failed, lines, backup, flushing, handed, cut, spoiled>>
rVars == <<rating, report, bridges, highest, alive>>
dVars == <<enabled, seconds, built, binary, backups, deploying>>
fVars == <<items, disk, saving, unsaved>>
jVars == <<logged, logFile, lists, connected, step, short>>
xVars == <<policies, isolation, out>>

NodeVars == <<part, trustVars, cVars, hVars, lVars, aVars, gVars, mVars,
              sVars, pVars, wVars, qVars, rVars, dVars, fVars, jVars, xVars>>

Parts == {"trust", "cargo", "api", "lists", "acl", "group", "media", "skills",
          "store", "a2a", "queue", "rating", "deploy", "config",
          "journal", "access"}

NodeInit ==
    /\ part \in Parts
    /\ TrustInit
    /\ C!CargoInit /\ H!ApiInit /\ L!ListInit /\ A!ChatInit /\ G!GroupInit
    /\ M!MediaInit /\ S!SkillInit /\ P!StoreInit /\ W!A2aInit /\ Q!QueueInit
    /\ R!RatingInit /\ D!DeployInit /\ F!ConfigInit /\ J!JournalInit /\ X!AccessInit
    \* Of a part at rest one initial state will do.
    /\ part # "deploy" => binary = {}
    /\ part # "journal" => ~connected
    /\ part # "config" => disk["contacts"] = F!Whole(F!Default)
    /\ part # "access" => \A c \in Channels : isolation[c] = X!Public

Rest(p, v) == IF part = p THEN TRUE ELSE UNCHANGED v

Still ==
    /\ UNCHANGED part
    /\ Rest("trust", trustVars) /\ Rest("cargo", cVars)
    /\ Rest("api", hVars) /\ Rest("lists", lVars)
    /\ Rest("acl", aVars) /\ Rest("group", gVars) /\ Rest("media", mVars)
    /\ Rest("skills", sVars) /\ Rest("store", pVars) /\ Rest("a2a", wVars)
    /\ Rest("queue", qVars) /\ Rest("rating", rVars) /\ Rest("deploy", dVars)
    /\ Rest("config", fVars)
    /\ Rest("journal", jVars) /\ Rest("access", xVars)

NodeNext ==
    \/ part = "trust" /\ TrustNext /\ Still
    \/ part = "cargo" /\ C!CargoNext /\ Still
    \/ part = "api" /\ H!ApiNext /\ Still
    \/ part = "lists" /\ L!ListNext /\ Still
    \/ part = "acl" /\ A!ChatNext /\ Still
    \/ part = "group" /\ G!GroupNext /\ Still
    \/ part = "media" /\ M!MediaNext /\ Still
    \/ part = "skills" /\ S!SkillNext /\ Still
    \/ part = "store" /\ P!StoreNext /\ Still
    \/ part = "a2a" /\ W!A2aNext /\ Still
    \/ part = "queue" /\ Q!QueueNext /\ Still
    \/ part = "rating" /\ R!RatingNext /\ Still
    \/ part = "deploy" /\ D!DeployNext /\ Still
    \/ part = "config" /\ F!ConfigNext /\ Still
    \/ part = "journal" /\ J!JournalNext /\ Still
    \/ part = "access" /\ X!AccessNext /\ Still

NodeSpec == NodeInit /\ [][NodeNext]_NodeVars

(* The runtime runs the tasks of the HTTP server; nothing else is promised. *)
FairNodeSpec == NodeSpec /\ H!ApiFairness

-----------------------------------------------------------------------------
(* What the services promise; the module of each part says it in full.     *)

(* Answers from outside move received offers only, and the operator's      *)
(* first decision after a listing takes the offer that was listed.         *)
CargoHolds == C!OnlyReceivedMoves /\ C!ListingHolds

(* A stream delivers the events in their order, none left out.             *)
ApiHolds == H!StreamInOrder

(* Who was blocked at the last save is blocked by the next process; who    *)
(* was removed from a channel's list has no access; no peer is trusted for *)
(* its successes and blocked for its failures, none earns trust while a    *)
(* rule blocks it, and a failure never raises a peer.                      *)
SecurityHolds ==
    L!BlockSurvives /\ X!RemovedIsOut /\ RulesAgree /\ FailureNeverHelps

(* A muted sender reaches nobody until the owner says so.                  *)
MessagesHold == A!MuteHolds

(* The queue tells every change of the group's mode until it is full.      *)
ModeTrail == G!ModeTrail

(* Throttling leaves every stream above Low priority a floor.              *)
StudioHolds == M!StreamFloor

(* A merged skill is found by every later process, unless a later command  *)
(* was cut short that wrote it anew, and a skill that the store's file     *)
(* lists as installed has all its files.                                   *)
SkillsHold == S!MergedSurvives /\ P!ListedIsComplete

(* Within one window no more than RateLimit requests per task pass.        *)
ServedBound == W!ServedBound

(* No event is returned by two flushes, and none but the one after a write *)
(* that was cut short is lost until one copy more after a flush was; the   *)
(* journal is read newest first, without Redis the latest entry comes      *)
(* first unless a write was cut short, which costs the file at most two    *)
(* entries, and all of them if its text ends inside a character.           *)
EventsHold ==
    /\ Q!ReturnedOnce /\ Q!EventsKept
    /\ J!NewestFirst /\ J!LatestIsRead /\ J!LossIsLocal

(* A display ends the process only after a vote of over five stars, and an *)
(* agent's rank is the one that its results earn.                          *)
RatingsHold == R!PanicNeedsVote /\ R!RankCurrent

(* Changes are what every later process works with, unless a save fails or *)
(* is cut short, and a node has one entry in the book of contacts.         *)
ListsHold == F!ChangesKept /\ F!OneContact

(* What no step takes back: a finished cargo, an available version of the  *)
(* program, the scope a skill was shared with first, and the switch of a   *)
(* job whose name another one has.                                         *)
NothingTakenBack ==
    C!NoRevival /\ D!VersionsKept /\ X!ScopeStays /\ F!ShadowedKeeps

(* A connection whose client leaves releases its task and its socket, and  *)
(* a stream ends with the agent's last message, even if the client stays.  *)
ConnectionsEnd == H!HandlerEnds /\ H!DoneEndsStream
=============================================================================
