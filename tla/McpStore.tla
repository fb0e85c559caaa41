------------------------------ MODULE McpStore ------------------------------
(***************************************************************************)
(* The store of MCP skills (src/mcp_store.rs): a directory for each skill, *)
(* mcp_store.json with the installed skills and the taps, and sources that *)
(* answer a search or not.  Each /mcp command makes a store of its own,    *)
(* which reads the file; a file that cannot be parsed means the default.   *)
(* The steps of an installation may fail, or the process end between them; *)
(* no command uninstalls, so a skill cut short stays as it is for good.    *)
(* Taps are changed by the store's interface and its tests, no command;    *)
(* uninstall, which nothing calls, is left out.                            *)
(***************************************************************************)
CONSTANTS
    McpSkills, Builtin, \* skills; those of the default configuration
    Taps

VARIABLES
    skillDir,       \* each skill's directory: what was written to it
    storeFile,      \* installed and taps in the file; the default when torn
    store,          \* what the command's store holds
    job             \* the step of the command, and its skill

storeVars == <<skillDir, storeFile, store, job>>

Done == [step |-> "none", skill |-> "none"]
DefaultConfig == [installed |-> Builtin, taps |-> {}]

StoreInit ==
    /\ skillDir = [s \in McpSkills |-> "none"]
    /\ storeFile = DefaultConfig /\ store = DefaultConfig
    /\ job = Done

(* new: the file is read by each command.                                  *)
Open(step, s) ==
    /\ job = Done
    /\ store' = storeFile
    /\ job' = [step |-> step, skill |-> s]
    /\ UNCHANGED <<skillDir, storeFile>>

Then(step) == job' = [job EXCEPT !.step = step]

-----------------------------------------------------------------------------
(* install.                                                                *)

(* A directory means "already installed", complete or not.  Without the    *)
(* directory the skill is found in a tap or not at all.                    *)
Install(s) == skillDir[s] = "none" /\ Open("dir", s)

Write(from, what, to) ==
    /\ job.step = from
    /\ skillDir' = [skillDir EXCEPT ![job.skill] = what]
    /\ Then(to)
    /\ UNCHANGED <<storeFile, store>>

(* Mutant: the skill is recorded before its files are there.               *)
RecordFirst == job.step = "dir"
RecordAt == job.step = "record"

CreateDir == Write("dir", "empty", "meta")
WriteMeta == Write("meta", "meta", "md")
WriteSkillMd == Write("md", "full", "record")

Record ==
    /\ RecordAt
    /\ store' = [store EXCEPT !.installed = @ \cup {job.skill}]
    /\ Then("save")
    /\ UNCHANGED <<skillDir, storeFile>>

(* An error of a step ends the command; nothing is taken back.             *)
StepFails ==
    /\ job # Done
    /\ job' = Done
    /\ UNCHANGED <<skillDir, storeFile, store>>

-----------------------------------------------------------------------------
(* save: the file is truncated, then filled; a process that ends between   *)
(* the two leaves the default.                                             *)

SaveTruncate ==
    /\ job.step = "save"
    /\ storeFile' = DefaultConfig
    /\ Then("fill")
    /\ UNCHANGED <<skillDir, store>>

SaveFill ==
    /\ job.step = "fill"
    /\ storeFile' = store
    /\ job' = Done
    /\ UNCHANGED <<skillDir, store>>

(* add_tap, remove_tap.                                                    *)
ChangeTap(t) ==
    /\ job = Done
    /\ \/ t \notin storeFile.taps /\ store' = [storeFile EXCEPT !.taps = @ \cup {t}]
       \/ store' = [storeFile EXCEPT !.taps = @ \ {t}]
    /\ job' = [step |-> "save", skill |-> "none"]
    /\ UNCHANGED <<skillDir, storeFile>>

StoreNext ==
    \/ \E s \in McpSkills : Install(s)
    \/ \E t \in Taps : ChangeTap(t)
    \/ CreateDir \/ WriteMeta \/ WriteSkillMd \/ Record \/ StepFails
    \/ SaveTruncate \/ SaveFill

StoreSpec == StoreInit /\ [][StoreNext]_storeVars

-----------------------------------------------------------------------------
(* A skill that the file lists as installed has all its files, whatever    *)
(* step failed or process ended before; a torn file lists none but those   *)
(* of the default (install, save).                                         *)
ListedIsComplete == \A s \in storeFile.installed \ Builtin : skillDir[s] = "full"
=============================================================================
