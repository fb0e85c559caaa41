------------------------------ MODULE Session -------------------------------
(***************************************************************************)
(* Sessions and crash recovery of waters-node (src/session.rs and the      *)
(* start-up, command loop and exit of src/main.rs).  A process keeps its   *)
(* current session in memory; session_dir/<id>.json holds saved sessions   *)
(* and .waters/checkpoints/latest.json the one checkpoint, at a path every *)
(* process started in the directory shares.                                *)
(*                                                                         *)
(* A session is its id and its number of turns.  fs::write truncates the   *)
(* file and then fills it, so a write is two actions, and a crash between  *)
(* them leaves a file that does not parse ("torn").                        *)
(***************************************************************************)
EXTENDS Naturals, FiniteSets

CONSTANTS
    Procs,          \* processes that may run in the directory
    MaxSid,         \* bound: sessions ever started
    MaxStarts,      \* bound: starts of a process
    MaxLines        \* bound: command lines entered

Sids  == 1..MaxSid
NoSid == 0
None  == [sid |-> NoSid, turns |-> 0]
(* What a file holds: nothing, a part of a document, or a session.         *)
Missing == [is |-> "missing", of |-> None]
Torn    == [is |-> "torn", of |-> None]
Full(s) == [is |-> "full", of |-> s]
Readable(f) == f.is = "full"

ASSUME SessionAssumption ==
    IsFiniteSet(Procs) /\ MaxSid \in Nat /\ MaxStarts \in Nat /\ MaxLines \in Nat

VARIABLES
    pc,         \* each process: where main() is
    cur,        \* each process: SessionManager.current
    oneshot,    \* each process: started with --prompt?
    wanted,     \* each process: the id given to --resume, or NoSid
    ckpt,       \* latest.json
    files,      \* each session file
    saved,      \* history: the turns last saved in full, per session
    nextSid, starts, entered

disk == <<ckpt, files, saved>>
args == <<oneshot, wanted>>
caps == <<nextSid, starts, entered>>
vars == <<pc, cur, args, disk, caps>>

Init ==
    /\ pc = [p \in Procs |-> "down"] /\ cur = [p \in Procs |-> None]
    /\ oneshot = [p \in Procs |-> FALSE] /\ wanted = [p \in Procs |-> NoSid]
    /\ ckpt = Missing /\ files = [s \in Sids |-> Missing]
    /\ saved = [s \in Sids |-> 0]
    /\ nextSid = 1 /\ starts = 0 /\ entered = 0

Goto(p, l) == pc' = [pc EXCEPT ![p] = l]
HasSession(p) == cur[p].sid # NoSid
(* The process is over; its memory is gone.                                *)
End(p) ==
    /\ Goto(p, "down")
    /\ cur' = [cur EXCEPT ![p] = None]

-----------------------------------------------------------------------------
(* Start-up.                                                               *)

Start(p) ==
    /\ pc[p] = "down" /\ starts < MaxStarts
    /\ starts' = starts + 1
    /\ \E o \in BOOLEAN, w \in {NoSid} \cup Sids :
          /\ oneshot' = [oneshot EXCEPT ![p] = o]
          /\ wanted' = [wanted EXCEPT ![p] = w]
    /\ Goto(p, "boot")
    /\ UNCHANGED <<cur, disk, nextSid, entered>>

(* resume_from_checkpoint and restore_from; a checkpoint that does not     *)
(* parse is an Err, which main treats like no checkpoint.                  *)
Boot(p) ==
    /\ pc[p] = "boot"
    /\ IF Readable(ckpt)
       THEN cur' = [cur EXCEPT ![p] = ckpt.of] /\ Goto(p, "recovered")
       ELSE UNCHANGED cur /\ Goto(p, "choose")
    /\ UNCHANGED <<args, disk, caps>>

clear_checkpoint == ckpt' = Missing

(* Mutant: the checkpoint stays after it was recovered.                    *)
RecoveredKeeps(p) ==
    /\ pc[p] = "recovered"
    /\ Goto(p, "choose")
    /\ UNCHANGED <<cur, args, files, ckpt, saved, caps>>
Recovered(p) ==
    /\ pc[p] = "recovered"
    /\ clear_checkpoint /\ Goto(p, "choose")
    /\ UNCHANGED <<cur, args, files, saved, caps>>

(* Mutant: --prompt resumes a session without its turns.                   *)
ResumeForgets(p) ==
    /\ pc[p] = "choose" /\ wanted[p] # NoSid
    /\ LET f == files[wanted[p]]
       IN \/ /\ Readable(f)
             /\ cur' = [cur EXCEPT ![p] = IF oneshot[p] THEN [f.of EXCEPT !.turns = 0]
                                                     ELSE f.of]
             /\ Goto(p, "ready")
          \/ f = Missing /\ Goto(p, "ready") /\ UNCHANGED cur
          \/ f = Torn /\ End(p)
    /\ UNCHANGED <<args, disk, caps>>
(* --resume replaces the session, even a recovered one; an unknown id      *)
(* leaves it as it is, none included; a torn file ends main with an error. *)
Resume(p) ==
    /\ pc[p] = "choose" /\ wanted[p] # NoSid
    /\ LET f == files[wanted[p]]
       IN \/ /\ Readable(f)
             /\ cur' = [cur EXCEPT ![p] = f.of]
             /\ Goto(p, "ready")
          \/ f = Missing /\ Goto(p, "ready") /\ UNCHANGED cur
          \/ f = Torn /\ End(p)
    /\ UNCHANGED <<args, disk, caps>>
(* start() makes a new session, unless one was recovered.                  *)
StartSession(p) ==
    /\ pc[p] = "choose" /\ wanted[p] = NoSid
    /\ IF HasSession(p)
       THEN UNCHANGED <<cur, nextSid>>
       ELSE /\ nextSid <= MaxSid
            /\ cur' = [cur EXCEPT ![p] = [sid |-> nextSid, turns |-> 0]]
            /\ nextSid' = nextSid + 1
    /\ Goto(p, "ready")
    /\ UNCHANGED <<args, disk, starts, entered>>

-----------------------------------------------------------------------------
(* save(): the session file is truncated, then filled.                     *)

SaveTruncate(p, here, next) ==
    /\ pc[p] = here
    /\ files' = IF HasSession(p) THEN [files EXCEPT ![cur[p].sid] = Torn] ELSE files
    /\ Goto(p, next)
    /\ UNCHANGED <<cur, args, ckpt, saved, caps>>
Fill(p) ==
    IF HasSession(p)
    THEN /\ files' = [files EXCEPT ![cur[p].sid] = Full(cur[p])]
         /\ saved' = [saved EXCEPT ![cur[p].sid] = cur[p].turns]
    ELSE UNCHANGED <<files, saved>>

(* add_message does nothing without a session.                             *)
add_message(p) ==
    cur' = IF HasSession(p) THEN [cur EXCEPT ![p].turns = @ + 1] ELSE cur

(* --prompt: a question, the answer of the model, a save, the end.         *)
Ask(p) ==
    /\ pc[p] = "ready" /\ oneshot[p]
    /\ add_message(p) /\ Goto(p, "asked")
    /\ UNCHANGED <<args, disk, caps>>
Answer(p) ==
    /\ pc[p] = "asked"
    /\ add_message(p) /\ Goto(p, "answered")
    /\ UNCHANGED <<args, disk, caps>>
AnswerSave(p) == SaveTruncate(p, "answered", "answer_fill")
AnswerFill(p) ==
    /\ pc[p] = "answer_fill"
    /\ Fill(p) /\ End(p)
    /\ UNCHANGED <<args, ckpt, caps>>

-----------------------------------------------------------------------------
(* The command loop.  No command adds a message to the session.            *)

ReadLine(p) ==
    /\ pc[p] = "ready" /\ ~oneshot[p] /\ entered < MaxLines
    /\ entered' = entered + 1
    /\ Goto(p, "save_ckpt")
    /\ UNCHANGED <<cur, args, disk, nextSid, starts>>
EndOfInput(p) ==
    /\ pc[p] = "ready" /\ ~oneshot[p]
    /\ Goto(p, "exit")
    /\ UNCHANGED <<cur, args, disk, caps>>

(* Mutant: a checkpoint that is there is not written again.                *)
CheckpointOnce(p) ==
    /\ pc[p] = "save_ckpt"
    /\ IF HasSession(p) /\ ckpt = Missing
       THEN ckpt' = Torn /\ Goto(p, "fill_ckpt")
       ELSE UNCHANGED ckpt /\ Goto(p, "step")
    /\ UNCHANGED <<cur, args, files, saved, caps>>
(* Mutant: a checkpoint is written without a session, too.                 *)
CheckpointAlways(p) ==
    /\ pc[p] = "save_ckpt"
    /\ ckpt' = Torn /\ Goto(p, "fill_ckpt")
    /\ UNCHANGED <<cur, args, files, saved, caps>>
(* save_checkpoint before each step; without a session it does nothing.    *)
CheckpointTruncate(p) ==
    /\ pc[p] = "save_ckpt"
    /\ IF HasSession(p)
       THEN ckpt' = Torn /\ Goto(p, "fill_ckpt")
       ELSE UNCHANGED ckpt /\ Goto(p, "step")
    /\ UNCHANGED <<cur, args, files, saved, caps>>
CheckpointFill(p) ==
    /\ pc[p] = "fill_ckpt"
    /\ ckpt' = Full(cur[p]) /\ Goto(p, "step")
    /\ UNCHANGED <<cur, args, files, saved, caps>>

(* The step succeeds and its checkpoint is removed.                        *)
StepDone(p) ==
    /\ pc[p] = "step" /\ Goto(p, "clear_ckpt")
    /\ UNCHANGED <<cur, args, disk, caps>>
StepClear(p) ==
    /\ pc[p] = "clear_ckpt"
    /\ clear_checkpoint /\ Goto(p, "ready")
    /\ UNCHANGED <<cur, args, files, saved, caps>>
(* /resume <id>: an unknown or unreadable file changes nothing.            *)
StepResume(p) ==
    /\ pc[p] = "step"
    /\ \E s \in Sids : /\ Readable(files[s])
                       /\ cur' = [cur EXCEPT ![p] = files[s].of]
    /\ Goto(p, "clear_ckpt")
    /\ UNCHANGED <<args, disk, caps>>
(* A handler returns an error: main returns it.                            *)
StepFails(p) ==
    /\ pc[p] = "step" /\ End(p)
    /\ UNCHANGED <<args, disk, caps>>
(* exit, quit: the loop is left before the checkpoint is cleared.          *)
StepExit(p) ==
    /\ pc[p] = "step" /\ Goto(p, "exit")
    /\ UNCHANGED <<cur, args, disk, caps>>
ExitSave(p) == SaveTruncate(p, "exit", "exit_fill")
ExitFill(p) ==
    /\ pc[p] = "exit_fill"
    /\ Fill(p) /\ End(p)
    /\ UNCHANGED <<args, ckpt, caps>>

(* The process dies at any point.                                          *)
Crash(p) ==
    /\ pc[p] # "down" /\ End(p)
    /\ UNCHANGED <<args, disk, caps>>

Step(p) ==
    \/ Start(p) \/ Boot(p) \/ Recovered(p) \/ Resume(p) \/ StartSession(p)
    \/ Ask(p) \/ Answer(p) \/ AnswerSave(p) \/ AnswerFill(p)
    \/ ReadLine(p) \/ EndOfInput(p) \/ CheckpointTruncate(p) \/ CheckpointFill(p)
    \/ StepDone(p) \/ StepClear(p) \/ StepResume(p) \/ StepFails(p) \/ StepExit(p)
    \/ ExitSave(p) \/ ExitFill(p) \/ Crash(p)
Next == \E p \in Procs : Step(p)
Spec == Init /\ [][Next]_vars

-----------------------------------------------------------------------------
(* Properties.                                                             *)

SessionState == [sid : Sids \cup {NoSid}, turns : Nat]
File == [is : {"missing", "torn", "full"}, of : SessionState]

(* Every variable has its type.                                            *)
TypeOK ==
    /\ pc \in [Procs -> {"down", "boot", "recovered", "choose", "ready", "asked",
                         "answered", "answer_fill", "save_ckpt", "fill_ckpt",
                         "step", "clear_ckpt", "exit", "exit_fill"}]
    /\ cur \in [Procs -> SessionState]
    /\ oneshot \in [Procs -> BOOLEAN] /\ wanted \in [Procs -> Sids \cup {NoSid}]
    /\ ckpt \in File /\ (Readable(ckpt) => ckpt.of.sid # NoSid)
    /\ files \in [Sids -> File]
    /\ \A s \in Sids : Readable(files[s]) => files[s].of.sid = s
    /\ saved \in [Sids -> Nat]
    /\ nextSid \in 1..(MaxSid + 1) /\ starts \in 0..MaxStarts /\ entered \in 0..MaxLines

(* While a command runs, latest.json is the snapshot taken before it, so a *)
(* crash of this step can be recovered from.                               *)
StepHasCheckpoint ==
    \A p \in Procs : pc[p] = "step" /\ HasSession(p) => ckpt = Full(cur[p])

(* The checkpoint is never older than the saved file of its session: a     *)
(* recovery never takes the operator back before what was saved.           *)
CheckpointFresh ==
    Readable(ckpt) => ckpt.of.turns >= saved[ckpt.of.sid]

(* A later save never drops turns an earlier save of the session recorded. *)
SavedNeverShrinks == [][\A s \in Sids : saved'[s] >= saved[s]]_vars
=============================================================================
