----------------------------- MODULE SelfDeploy -----------------------------
(***************************************************************************)
(* The node replaces its own program (src/self_deploy.rs), when /secure on *)
(* has allowed it: build, copy the binary to a backup named by the second, *)
(* copy the new one over it.  A step may fail and the process may end      *)
(* between two steps or inside a copy, which leaves a part of a file.      *)
(* Nothing restores a backup; an operator may.  Two deployments are taken  *)
(* to begin in different seconds: a build and a person at the prompt lie   *)
(* between them.                                                           *)
(***************************************************************************)
EXTENDS Naturals

CONSTANTS
    MaxDeploys      \* bound: deployments

VARIABLES
    enabled,    \* SELF_IMPROVE_ENABLED
    seconds,    \* the clock: the deployments begun
    built,      \* target/release/waters-node: the version
    binary,     \* the version of the program that is started; none without a file
    backups,    \* by second
    deploying   \* the step

deployVars == <<enabled, seconds, built, binary, backups, deploying>>

(* Versions are numbers; 0 is a part of a file.                            *)
Torn == 0

DeployInit ==
    /\ enabled = FALSE
    /\ seconds = 0
    /\ built = 1
    /\ binary \in {{1}, {}}
    /\ backups = << >>
    /\ deploying = "no"

(* /secure on, /secure off.                                                *)
toggle_self_improve ==
    /\ deploying = "no"
    /\ enabled' \in BOOLEAN
    /\ UNCHANGED <<seconds, built, binary, backups, deploying>>

-----------------------------------------------------------------------------
(* deploy.                                                                 *)

(* /self deploy.                                                           *)
Deploy ==
    /\ deploying = "no" /\ enabled /\ seconds < MaxDeploys
    /\ deploying' = "build"
    /\ seconds' = seconds + 1
    /\ UNCHANGED <<enabled, built, binary, backups>>

Goes(step) == deploying' = step /\ UNCHANGED <<enabled, seconds>>

(* Without changes cargo builds the same version.                          *)
build_release ==
    /\ deploying = "build"
    /\ built' \in {built, built + 1}
    /\ Goes("backup")
    /\ UNCHANGED <<binary, backups>>

BackupTo(v) == backups' = [s \in DOMAIN backups \cup {seconds} |->
                                    IF s = seconds THEN v ELSE backups[s]]

(* Without a binary there is nothing to back up.                           *)
backup_current ==
    /\ deploying = "backup"
    /\ IF binary = {} THEN UNCHANGED backups ELSE \E v \in binary : BackupTo(v)
    /\ Goes("replace")
    /\ UNCHANGED <<built, binary>>

(* Mutant: the binary is replaced although the backup failed.              *)
AfterFailedBackupOn == "replace"
AfterFailedBackup == "no"

BackupFails ==
    /\ deploying = "backup" /\ binary # {}
    /\ UNCHANGED backups \/ BackupTo(Torn)
    /\ Goes(AfterFailedBackup)
    /\ UNCHANGED <<built, binary>>

replace_binary ==
    /\ deploying = "replace"
    /\ binary' = {built}
    /\ Goes("no")
    /\ UNCHANGED <<built, backups>>

(* The copy of the new program fails, before its first byte (the binary is *)
(* running) or after it.                                                   *)
ReplaceFails ==
    /\ deploying = "replace"
    /\ binary' \in {binary, {Torn}}
    /\ Goes("no")
    /\ UNCHANGED <<built, backups>>

(* The build fails, or the process ends, inside a copy too.                *)
Stop ==
    /\ deploying # "no"
    /\ \/ UNCHANGED <<binary, backups>>
       \/ deploying = "backup" /\ binary # {} /\ BackupTo(Torn) /\ UNCHANGED binary
       \/ deploying = "replace" /\ binary' = {Torn} /\ UNCHANGED backups
    /\ enabled' \in {enabled, FALSE}    \* a new process begins with FALSE
    /\ deploying' = "no"
    /\ UNCHANGED <<seconds, built>>

DeployNext ==
    \/ toggle_self_improve \/ Deploy
    \/ build_release \/ backup_current \/ BackupFails
    \/ replace_binary \/ ReplaceFails \/ Stop

DeploySpec == DeployInit /\ [][DeployNext]_deployVars

-----------------------------------------------------------------------------
(* A version that is available, in place or in a backup, stays available,  *)
(* however many deployments fail one after the other and wherever: nothing *)
(* is written over the only copy (backup_current before replace_binary).   *)
Available == (binary \cup {backups[s] : s \in DOMAIN backups}) \ {Torn}
VersionsKept == [][Available \subseteq Available']_deployVars
=============================================================================
