------------------------------- MODULE Skills -------------------------------
(***************************************************************************)
(* Skills, which the program also calls agents: the registry in memory     *)
(* (src/skill.rs), the directories it is loaded from, and the commands     *)
(* that make skills out of skills: /merge (skill.rs), the evolution after  *)
(* a successful agent (src/skill_evolve.rs), /export and /import           *)
(* (src/bridge_agent.rs).                                                  *)
(*                                                                         *)
(* A skill is a manifest (skill.json) and a prompt (SKILL.md); each writer *)
(* writes one after the other, and registers the skill last.  A file is    *)
(* truncated first and then filled; a manifest that is cut short hides its *)
(* directory, and so does a prompt that is cut inside a character, but not *)
(* one that is empty.  A process reads the directories skills and agents   *)
(* at its start; evolved skills are written to .waters/skills/evolved,     *)
(* which nothing reads.  Of a skill the module keeps what tells it apart.  *)
(***************************************************************************)
EXTENDS Naturals, Sequences, FiniteSets

CONSTANTS
    Shipped,        \* skills that come with the program
    MaxSkills,      \* bound: skills in the registry
    MaxDirs         \* bound: skills on the disk

VARIABLES
    registry,       \* the skills in memory
    agentsDir,      \* under agents: the skill that json gives, if md can be read
    exported,       \* the last /export: its format and the skill
    making,         \* the skill that is being written, and the next step
    rewritten       \* names found in agents whose files were then truncated,
                    \* until the command that did so has registered the skill

skillVars == <<registry, agentsDir, exported, making, rewritten>>

(* A name is the sequence of its parts; the minor version; who made it.    *)
Skill(name, minor, author) == [name |-> name, minor |-> minor, author |-> author]
Version == <<"v1", "v2", "v3">>     \* bound: evolutions of one skill
NoFiles == [json |-> {}, md |-> FALSE]
NoSkill == Skill(<<>>, 0, "tui")
NoExport == [format |-> "none", skill |-> NoSkill]
Idle == [kind |-> "none", skill |-> NoSkill, step |-> "none"]

FromShipped == {Skill(<<s>>, 0, "tui") : s \in Shipped}

(* load_dir: a directory with both files; the manifest is skill.json's.    *)
Found(dir) == UNION {dir[d].json : d \in {e \in DOMAIN dir : dir[e].md}}

Names(r) == {s.name : s \in r}
(* Of two directories with skills of one name the one that is read last    *)
(* counts; read_dir promises no order.                                     *)
Loads(dir) == {r \in SUBSET Found(dir) :
                Names(r) = Names(Found(dir)) /\ Cardinality(r) = Cardinality(Names(r))}
Over(r, new) == {s \in r : s.name \notin Names(new)} \cup new

SkillInit ==
    /\ registry = FromShipped
    /\ agentsDir = << >>
    /\ exported = NoExport
    /\ making = Idle
    /\ rewritten = {}

(* Only what /merge and /import make goes to a directory that is read.     *)
Begin(kind, s) ==
    /\ making = Idle /\ Cardinality(registry) < MaxSkills
    /\ Cardinality(DOMAIN agentsDir) < MaxDirs
    /\ making' = [kind |-> kind, skill |-> s,
                  step |-> IF kind = "evolved" THEN "register" ELSE "json"]
    /\ UNCHANGED <<registry, agentsDir, exported, rewritten>>

-----------------------------------------------------------------------------
(* The new skills.                                                         *)

merge_agents(s, t) ==
    Begin("merged", Skill(<<"merged">> \o s.name \o t.name, 0, "merged"))

(* agent_close with findings: success without notes, rated 8, evolves.     *)
(* The minor version is the parent's plus one; a second evolution of the   *)
(* same parent takes the same name.                                        *)
evolve(s) ==
    /\ s.minor < Len(Version)
    /\ Begin("evolved", Skill(Append(s.name, Version[s.minor + 1]), s.minor + 1, "self-evolved"))

(* What the importer makes of a file of each format; the version starts    *)
(* again.  The files of Claude and Cursor have no name, their skills take  *)
(* the file's (.cursorrules has no extension and is read as a generic one). *)
Parsed(format, s) ==
    Skill(CASE format = "claude" -> <<"CLAUDE">>
            [] format = "cursor" -> <<".cursorrules">>
            [] OTHER -> s.name, 0, "imported")

(* An export of the program's own format is skill.json, with the SKILL.md  *)
(* beside it, or that SKILL.md alone, which is a TUI file.                 *)
import_agent ==
    /\ exported # NoExport
    /\ \E f \in IF exported.format = "waters" THEN {"waters", "tui"} ELSE {exported.format} :
            Begin(f, Parsed(f, exported.skill))

-----------------------------------------------------------------------------
(* Writing them: the imports of a foreign format have a directory of their *)
(* own; the import of what /merge made replaces it.                        *)

Foreign == {"tui", "claude", "cursor"}
Dir == <<IF making.kind \in Foreign THEN making.kind ELSE "own", making.skill.name>>
WriteFiles(json, md) == agentsDir' =
    [d \in DOMAIN agentsDir \cup {Dir} |-> IF d = Dir THEN [json |-> json, md |-> md]
                                           ELSE agentsDir[d]]
Prompt == Dir \in DOMAIN agentsDir /\ agentsDir[Dir].md
Then(step) == making' = [making EXCEPT !.step = step]

TruncateJson ==
    /\ making.step = "json"
    /\ WriteFiles({}, Prompt)
    /\ rewritten' = rewritten \cup ({making.skill.name} \cap Names(Found(agentsDir)))
    /\ Then("fill")
    /\ UNCHANGED <<registry, exported>>

FillJson ==
    /\ making.step = "fill"
    /\ WriteFiles({making.skill}, Prompt)
    /\ Then("prompt")
    /\ UNCHANGED <<registry, exported, rewritten>>

(* A prompt without text is read like any other.                           *)
WriteMd ==
    /\ \/ making.step = "prompt" /\ Then("text")
       \/ making.step = "text" /\ Then("register")
    /\ WriteFiles({making.skill}, TRUE)
    /\ UNCHANGED <<registry, exported, rewritten>>

(* A write fails: the command ends and leaves what there is, of the prompt *)
(* perhaps a part that cannot be read.                                     *)
WriteFails ==
    /\ making.kind = "evolved" \/ making.step \in {"json", "fill", "prompt", "text"}
    /\ \/ UNCHANGED agentsDir
       \/ making.step = "text" /\ WriteFiles({making.skill}, FALSE)
    /\ making' = Idle
    /\ UNCHANGED <<registry, exported, rewritten>>

(* Mutant: the skill is known before its prompt is written.                *)
RegisterEarly == making.step \in {"prompt", "register"}
MayRegister == making.step = "register"

(* create_from_manifest; after an import, load_from of all of agents.      *)
Register ==
    /\ MayRegister
    /\ IF making.kind \in {"merged", "evolved"}
       THEN registry' = Over(registry, {making.skill})
       ELSE \E r \in Loads(agentsDir) : registry' = Over(registry, r)
    /\ rewritten' = IF making.kind = "evolved" THEN rewritten ELSE rewritten \ {making.skill.name}
    /\ making' = Idle
    /\ UNCHANGED <<agentsDir, exported>>

-----------------------------------------------------------------------------
(* /export writes one file, or two in the program's own format.  Here each *)
(* export has a directory of its own; in the default one it would leave    *)
(* the skill.json of another skill beside the new SKILL.md.                *)
export_agent(s, format) ==
    /\ making = Idle
    /\ exported' = [format |-> format, skill |-> s]
    /\ UNCHANGED <<registry, agentsDir, making, rewritten>>

(* The process ends anywhere, inside a write like after one that failed,   *)
(* and the next one loads what it finds.                                   *)
Restart ==
    /\ \E r \in Loads(agentsDir) : registry' = Over(FromShipped, r)
    /\ making' = Idle
    /\ UNCHANGED <<agentsDir, exported, rewritten>>

SkillNext ==
    \/ \E s, t \in registry : merge_agents(s, t)
    \/ \E s \in registry : evolve(s) \/ \E f \in Foreign \cup {"waters"} : export_agent(s, f)
    \/ import_agent \/ TruncateJson \/ FillJson \/ WriteMd \/ WriteFails
    \/ Register \/ Restart

SkillSpec == SkillInit /\ [][SkillNext]_skillVars

-----------------------------------------------------------------------------
(* A skill that /merge reported is found by every later process, whatever  *)
(* write fails or process ends, unless a later command began to write the  *)
(* very same skill anew and did not get to its end: that one truncates     *)
(* what it replaces (merge_agents, import_agent, load_from).               *)
MergedSurvives == \A s \in registry :
    s.author = "merged" => s.name \in Names(Found(agentsDir)) \cup rewritten
=============================================================================
