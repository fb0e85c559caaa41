--------------------------- MODULE SessionProofs ----------------------------
(***************************************************************************)
(* Theorems about Session.  Types hold for any number of processes.  The   *)
(* promises about the checkpoint and the saved turns are those of a        *)
(* directory in which one process runs at a time, crashed and restarted    *)
(* any number of times: latest.json has one path per directory, so a       *)
(* second process clears or replaces the checkpoint of the first.          *)
(***************************************************************************)
EXTENDS Session, TLAPS

Alone == \A p, q \in Procs : p = q

Labels == {"down", "boot", "recovered", "choose", "ready", "asked", "answered",
           "answer_fill", "save_ckpt", "fill_ckpt", "step", "clear_ckpt", "exit",
           "exit_fill"}

-----------------------------------------------------------------------------
(* The inductive invariant.                                                *)

(* Where the process has used up the checkpoint it found.                  *)
Before == {"choose", "ready", "asked", "answered", "answer_fill", "save_ckpt",
           "fill_ckpt"}
(* Where a readable checkpoint is the session in memory.                   *)
Under  == {"recovered", "step", "exit", "exit_fill"}

CheckpointOf(p) ==
    /\ pc[p] \in {"down", "boot"} => cur[p] = None
    /\ pc[p] \in Before => ~Readable(ckpt)
    /\ pc[p] \in Under /\ Readable(ckpt) => ckpt.of = cur[p]
    /\ pc[p] \in {"recovered", "fill_ckpt"} => HasSession(p)
    /\ pc[p] = "step" /\ HasSession(p) => ckpt = Full(cur[p])

(* No session in use, in memory or on disk, is behind what was saved.      *)
AsSaved(s) == s.sid # NoSid => s.turns >= saved[s.sid] /\ s.sid < nextSid

Fresh ==
    /\ \A p \in Procs : AsSaved(cur[p])
    /\ Readable(ckpt) => AsSaved(ckpt.of)
    /\ \A s \in Sids : Readable(files[s]) => AsSaved(files[s].of)
    /\ \A s \in Sids : s >= nextSid => saved[s] = 0

SessionInv ==
    /\ TypeOK
    /\ \A p \in Procs : CheckpointOf(p)
    /\ Fresh

-----------------------------------------------------------------------------
(* Types.                                                                  *)

(* A checkpoint is only ever filled with a session.                        *)
Filling == \A p \in Procs : pc[p] = "fill_ckpt" => HasSession(p)

TypeInv == TypeOK /\ Filling

LEMMA TypeInit == Init => TypeInv
  BY SessionAssumption DEF Init, TypeInv, TypeOK, Filling, SessionState, File, None, Missing,
     Readable, NoSid, Sids, disk, args, caps

(* What is read from a file or left in memory is a session; what is        *)
(* written to a file is one that parses, or not.                           *)
LEMMA SessionTypes ==
    /\ None \in SessionState
    /\ Missing \in File /\ ~Readable(Missing)
    /\ Torn \in File /\ ~Readable(Torn)
    /\ \A s \in SessionState : Full(s) \in File /\ Readable(Full(s)) /\ Full(s).of = s
    /\ \A f \in File : f.of \in SessionState
    /\ \A f \in File : Readable(f) => f = Full(f.of)
  BY DEF SessionState, File, None, Missing, Torn, Full, Readable, NoSid

(* A process that is not at its own session has none: its id is an id.     *)
LEMMA OwnSid ==
    ASSUME TypeOK, NEW p \in Procs, HasSession(p)
    PROVE  cur[p] \in SessionState /\ cur[p].sid \in Sids /\ cur[p].turns \in Nat
  BY DEF TypeOK, HasSession, SessionState, NoSid

LEMMA TypeStep == TypeInv /\ [Next]_vars => TypeOK'
<1> SUFFICES ASSUME TypeOK, Filling, [Next]_vars PROVE TypeOK'
  BY DEF TypeInv
<1> USE SessionAssumption
<1>1. CASE UNCHANGED vars
  BY <1>1 DEF TypeOK, vars, disk, args, caps, Readable
<1>2. ASSUME NEW p \in Procs, Step(p) PROVE TypeOK'
  <2>1. ASSUME NEW l \in Labels, Goto(p, l)
        PROVE  pc' \in [Procs -> Labels]
    BY <2>1 DEF TypeOK, Goto, Labels
  <2>2. ASSUME NEW s \in SessionState, cur' \in {cur, [cur EXCEPT ![p] = s]}
        PROVE  cur' \in [Procs -> SessionState]
    BY <2>2 DEF TypeOK
  <2> DEFINE Disk == /\ ckpt' \in File /\ (Readable(ckpt') => ckpt'.of.sid # NoSid)
                     /\ files' \in [Sids -> File]
                     /\ \A s \in Sids : Readable(files'[s]) => files'[s].of.sid = s
                     /\ saved' \in [Sids -> Nat]
             Args == oneshot' \in [Procs -> BOOLEAN] /\ wanted' \in [Procs -> Sids \cup {NoSid}]
             Caps == /\ nextSid' \in 1..(MaxSid + 1) /\ starts' \in 0..MaxStarts
                     /\ entered' \in 0..MaxLines
  <2>3. UNCHANGED disk => Disk
    BY DEF TypeOK, disk, Readable
  <2>4. UNCHANGED args => Args
    BY DEF TypeOK, args
  <2>5. UNCHANGED caps => Caps
    BY DEF TypeOK, caps
  <2>6. UNCHANGED cur => cur' \in [Procs -> SessionState]
    BY DEF TypeOK
  <2>7. End(p) => pc' \in [Procs -> Labels] /\ cur' \in [Procs -> SessionState]
    BY <2>1, <2>2, SessionTypes DEF End, Labels
  <2>8. ASSUME UNCHANGED <<files, saved>>, ckpt' \in {ckpt, Missing, Torn} PROVE Disk
    BY <2>8, SessionTypes DEF TypeOK, Readable, Missing, Torn
  <2> DEFINE Moved == pc' \in [Procs -> Labels]
             Mem == cur' \in [Procs -> SessionState]
  <2>9. Moved /\ Mem /\ Disk /\ Args /\ Caps => TypeOK'
    BY DEF TypeOK, Labels, Readable
  <2>10. CASE Start(p)
    <3>1. Args
      BY <2>10 DEF Start, TypeOK
    <3>2. Caps
      BY <2>10 DEF Start, TypeOK
    <3> QED
      BY <2>10, <3>1, <3>2, <2>1, <2>3, <2>6, <2>9 DEF Start, Labels
  <2>11. CASE Boot(p)
    <3>1. Moved
      BY <2>11, <2>1 DEF Boot, Labels
    <3>2. Mem
      BY <2>11, <2>2, <2>6, SessionTypes DEF Boot, TypeOK
    <3> QED
      BY <2>11, <3>1, <3>2, <2>3, <2>4, <2>5, <2>9 DEF Boot
  <2>12. CASE Recovered(p)
    BY <2>12, <2>1, <2>8, <2>4, <2>5, <2>6, <2>9 DEF Recovered, clear_checkpoint, Labels
  <2>13. CASE Resume(p)
    <3>1. wanted[p] \in Sids /\ files[wanted[p]].of \in SessionState
      BY <2>13, SessionTypes DEF Resume, TypeOK
    <3>2. Moved
      BY <2>13, <2>1, <2>7 DEF Resume, Labels
    <3>3. Mem
      BY <2>13, <3>1, <2>2, <2>6, <2>7 DEF Resume
    <3> QED
      BY <2>13, <3>2, <3>3, <2>3, <2>4, <2>5, <2>9 DEF Resume
  <2>14. CASE StartSession(p)
    <3>1. Mem /\ Caps
      <4>1. CASE HasSession(p)
        BY <4>1, <2>14, <2>6 DEF StartSession, TypeOK
      <4>2. CASE ~HasSession(p)
        <5>1. nextSid \in Sids /\ [sid |-> nextSid, turns |-> 0] \in SessionState
          BY <4>2, <2>14 DEF StartSession, TypeOK, Sids, SessionState
        <5>2. cur' \in [Procs -> SessionState]
          BY <4>2, <2>14, <5>1, <2>2 DEF StartSession
        <5> QED
          BY <4>2, <2>14, <5>1, <5>2 DEF StartSession, TypeOK, Sids
      <4> QED
        BY <4>1, <4>2
    <3> QED
      BY <2>14, <3>1, <2>1, <2>3, <2>4, <2>9 DEF StartSession, Labels
  <2>15. ASSUME add_message(p) PROVE Mem
    <3>1. CASE HasSession(p)
      <4>1. cur[p] \in SessionState
        BY DEF TypeOK
      <4>2. [cur[p] EXCEPT !.turns = @ + 1] \in SessionState
        BY <4>1 DEF SessionState
      <4>3. cur' = [cur EXCEPT ![p] = [cur[p] EXCEPT !.turns = @ + 1]]
        BY <2>15, <3>1 DEF add_message, TypeOK
      <4> QED
        BY <4>2, <4>3, <2>2
    <3>2. CASE ~HasSession(p)
      BY <2>15, <3>2, <2>6 DEF add_message
    <3> QED
      BY <3>1, <3>2
  <2>16. CASE Ask(p) \/ Answer(p)
    BY <2>16, <2>15, <2>1, <2>3, <2>4, <2>5, <2>9 DEF Ask, Answer, Labels
  <2>17. ASSUME NEW h \in Labels, NEW n \in Labels, SaveTruncate(p, h, n) PROVE TypeOK'
    <3>1. Disk
      <4>1. CASE HasSession(p)
        <5>1. files' = [files EXCEPT ![cur[p].sid] = Torn] /\ cur[p].sid \in Sids
          BY <4>1, <2>17, OwnSid DEF SaveTruncate
        <5>2. files' \in [Sids -> File]
          BY <5>1, SessionTypes DEF TypeOK
        <5>3. \A s \in Sids : Readable(files'[s]) => files'[s].of.sid = s
          BY <5>1, SessionTypes DEF TypeOK
        <5> QED
          BY <2>17, <5>2, <5>3 DEF SaveTruncate, TypeOK, Readable
      <4>2. CASE ~HasSession(p)
        BY <4>2, <2>17, <2>8 DEF SaveTruncate
      <4> QED
        BY <4>1, <4>2
    <3> QED
      BY <2>17, <3>1, <2>1, <2>4, <2>5, <2>6, <2>9 DEF SaveTruncate
  <2>18. CASE AnswerSave(p) \/ ExitSave(p)
    BY <2>18, <2>17 DEF AnswerSave, ExitSave, Labels
  <2>19. CASE AnswerFill(p) \/ ExitFill(p)
    <3>0. Fill(p) /\ End(p) /\ UNCHANGED <<args, ckpt, caps>>
      BY <2>19 DEF AnswerFill, ExitFill
    <3>1. Disk
      <4>1. CASE HasSession(p)
        <5>1. PICK s \in SessionState : s = cur[p] /\ s.sid \in Sids /\ s.turns \in Nat
          BY <4>1, OwnSid
        <5>2. files' = [files EXCEPT ![s.sid] = Full(s)] /\ saved' = [saved EXCEPT ![s.sid] = s.turns]
          BY <3>0, <4>1, <5>1 DEF Fill
        <5>3. files' \in [Sids -> File] /\ saved' \in [Sids -> Nat]
          BY <5>1, <5>2, SessionTypes DEF TypeOK
        <5>4. \A r \in Sids : Readable(files'[r]) => files'[r].of.sid = r
          BY <5>1, <5>2, SessionTypes DEF TypeOK
        <5> QED
          BY <3>0, <5>3, <5>4 DEF TypeOK, Readable
      <4>2. CASE ~HasSession(p)
        BY <4>2, <3>0, <2>8 DEF Fill
      <4> QED
        BY <4>1, <4>2
    <3> QED
      BY <3>0, <3>1, <2>7, <2>4, <2>5, <2>9
  <2>20. CASE ReadLine(p)
    <3>1. Caps
      BY <2>20 DEF ReadLine, TypeOK
    <3> QED
      BY <2>20, <3>1, <2>1, <2>3, <2>4, <2>6, <2>9 DEF ReadLine, Labels
  <2>21. CASE EndOfInput(p) \/ StepDone(p) \/ StepExit(p)
    BY <2>21, <2>1, <2>3, <2>4, <2>5, <2>6, <2>9 DEF EndOfInput, StepDone, StepExit, Labels
  <2>22. CASE CheckpointTruncate(p)
    <3>1. Moved
      BY <2>22, <2>1 DEF CheckpointTruncate, Labels
    <3>2. Disk
      BY <2>22, <2>8 DEF CheckpointTruncate
    <3> QED
      BY <2>22, <3>1, <3>2, <2>4, <2>5, <2>6, <2>9 DEF CheckpointTruncate
  <2>23. CASE CheckpointFill(p)
    <3>1. Disk
      BY <2>23, SessionTypes DEF CheckpointFill, TypeOK, Filling, HasSession, Readable
    <3> QED
      BY <2>23, <3>1, <2>1, <2>4, <2>5, <2>6, <2>9 DEF CheckpointFill, Labels
  <2>24. CASE StepClear(p)
    BY <2>24, <2>1, <2>8, <2>4, <2>5, <2>6, <2>9 DEF StepClear, clear_checkpoint, Labels
  <2>25. CASE StepResume(p)
    <3>1. Mem
      BY <2>25, <2>2, SessionTypes DEF StepResume, TypeOK
    <3> QED
      BY <2>25, <3>1, <2>1, <2>3, <2>4, <2>5, <2>9 DEF StepResume, Labels
  <2>26. CASE StepFails(p) \/ Crash(p)
    BY <2>26, <2>7, <2>3, <2>4, <2>5, <2>9 DEF StepFails, Crash
  <2> QED
    BY <1>2, <2>10, <2>11, <2>12, <2>13, <2>14, <2>16, <2>18, <2>19, <2>20, <2>21,
       <2>22, <2>23, <2>24, <2>25, <2>26 DEF Step
<1> QED
  BY <1>1, <1>2 DEF Next

LEMMA FillingStep == TypeInv /\ [Next]_vars => Filling'
<1> SUFFICES ASSUME TypeOK, Filling, [Next]_vars PROVE Filling'
  BY DEF TypeInv
<1>1. CASE UNCHANGED vars
  BY <1>1 DEF Filling, HasSession, vars
<1>2. ASSUME NEW p \in Procs, Step(p) PROVE Filling'
  <2>1. \A q \in Procs \ {p} : pc'[q] = pc[q] /\ cur'[q] = cur[q]
    <3>1. /\ DOMAIN cur = Procs /\ DOMAIN pc = Procs
      BY DEF TypeOK
    <3>2. \/ UNCHANGED cur \/ End(p) \/ add_message(p)
          \/ \E s \in SessionState \cup {ckpt.of, files[wanted[p]].of, [sid |-> nextSid, turns |-> 0]} :
                 cur' = [cur EXCEPT ![p] = s]
          \/ \E s \in Sids : cur' = [cur EXCEPT ![p] = files[s].of]
      BY <1>2 DEF Step, Start, Boot, Recovered, Resume, StartSession, Ask, Answer,
         AnswerSave, AnswerFill, SaveTruncate, ReadLine, EndOfInput, CheckpointTruncate,
         CheckpointFill, StepDone, StepClear, StepResume, StepFails, StepExit, ExitSave,
         ExitFill, Crash
    <3>3. \E l \in Labels : Goto(p, l)
      BY <1>2 DEF Step, Start, Boot, Recovered, Resume, StartSession, Ask, Answer, End,
         AnswerSave, AnswerFill, SaveTruncate, ReadLine, EndOfInput, CheckpointTruncate,
         CheckpointFill, StepDone, StepClear, StepResume, StepFails, StepExit, ExitSave,
         ExitFill, Crash, Labels
    <3>4. \A q \in Procs \ {p} : pc'[q] = pc[q]
      BY <3>1, <3>3 DEF Goto
    <3>5. \A q \in Procs \ {p} : cur'[q] = cur[q]
      BY <3>1, <3>2 DEF End, add_message
    <3> QED
      BY <3>4, <3>5
  <2>2. pc'[p] = "fill_ckpt" => HasSession(p)'
    <3>1. pc'[p] = "fill_ckpt" => CheckpointTruncate(p)
      BY <1>2 DEF Step, Start, Boot, Recovered, Resume, StartSession, Ask, Answer, End,
         AnswerSave, AnswerFill, SaveTruncate, ReadLine, EndOfInput, CheckpointTruncate,
         CheckpointFill, StepDone, StepClear, StepResume, StepFails, StepExit, ExitSave,
         ExitFill, Crash, Goto, TypeOK
    <3>2. ASSUME CheckpointTruncate(p), pc'[p] = "fill_ckpt" PROVE HasSession(p)'
      BY <3>2 DEF CheckpointTruncate, HasSession, Goto, TypeOK
    <3> QED
      BY <3>1, <3>2
  <2> QED
    BY <2>1, <2>2 DEF Filling, HasSession
<1> QED
  BY <1>1, <1>2 DEF Next

(* Every reachable state of any number of processes is well typed: no      *)
(* checkpoint without a session, and no file under another session's id.   *)
THEOREM TypeCorrect == Spec => []TypeOK
<1>1. TypeInv /\ [Next]_vars => TypeInv'
  BY TypeStep, FillingStep DEF TypeInv
<1>2. TypeInv => TypeOK
  BY DEF TypeInv
<1> QED
  BY <1>1, <1>2, TypeInit, PTL DEF Spec

-----------------------------------------------------------------------------
(* One process.                                                            *)

LEMMA SessionInit == Init => SessionInv
  BY TypeInit, SessionAssumption
  DEF Init, SessionInv, TypeInv, CheckpointOf, Fresh, AsSaved, Before, Under,
      Missing, Readable, None, NoSid, Sids, disk, args, caps

(* What the invariant says of the one process p, without the types.        *)
Own(p) ==
    /\ CheckpointOf(p) /\ AsSaved(cur[p])
    /\ Readable(ckpt) => AsSaved(ckpt.of)
    /\ \A s \in Sids : Readable(files[s]) => AsSaved(files[s].of)
    /\ \A s \in Sids : s >= nextSid => saved[s] = 0

LEMMA SessionStep ==
    ASSUME Alone
    PROVE  SessionInv /\ [Next]_vars => SessionInv'
<1> SUFFICES ASSUME SessionInv, [Next]_vars PROVE SessionInv'
  OBVIOUS
<1> USE SessionAssumption
<1>1. TypeInv
  BY DEF SessionInv, TypeInv, Filling, CheckpointOf
<1>2. TypeOK'
  BY <1>1, TypeStep
<1>3. CASE UNCHANGED vars
  BY <1>2, <1>3 DEF SessionInv, vars, disk, args, caps, CheckpointOf, Fresh, AsSaved,
     HasSession, Readable
<1>4. ASSUME NEW p \in Procs, Step(p) PROVE SessionInv'
  <2>1. Own(p)
    BY DEF SessionInv, Own, Fresh
  <2>2. Own(p)' => SessionInv'
    BY <1>2 DEF Alone, SessionInv, Own, Fresh
  <2>3. PICK s : s = cur[p] /\ s \in SessionState
    BY <1>1 DEF TypeInv, TypeOK
  <2>4. /\ s.sid \in Sids \cup {NoSid} /\ s.turns \in Nat /\ nextSid \in Nat
        /\ saved \in [Sids -> Nat] /\ ckpt \in File /\ files \in [Sids -> File]
        /\ pc[p] \in Labels /\ pc \in [Procs -> Labels] /\ cur \in [Procs -> SessionState]
    BY <2>3, <1>1 DEF TypeInv, TypeOK, SessionState, Labels
  <2> USE DEF Own, CheckpointOf, AsSaved, HasSession, Before, Under, Labels, NoSid
  <2>5. CASE Start(p)
    BY <2>5, <2>1, <2>2, <2>4 DEF Start, Goto, disk
  <2>6. CASE Boot(p)
    BY <2>6, <2>1, <2>2, <2>4, <1>1 DEF Boot, Goto, disk, caps, TypeInv, TypeOK
  <2>7. CASE Recovered(p)
    BY <2>7, <2>1, <2>2, <2>4, SessionTypes DEF Recovered, clear_checkpoint, Goto, caps
  <2>8. CASE Resume(p)
    BY <2>8, <2>1, <2>2, <2>4, <1>1 DEF Resume, Goto, End, disk, caps, TypeInv, TypeOK, None
  <2>9. CASE StartSession(p)
    <3>1. CASE HasSession(p)
      BY <3>1, <2>9, <2>1, <2>2, <2>4 DEF StartSession, Goto, disk
    <3>2. CASE ~HasSession(p)
      <4>1. /\ nextSid \in Sids /\ nextSid' = nextSid + 1
            /\ cur'[p] = [sid |-> nextSid, turns |-> 0] /\ pc'[p] = "ready"
            /\ pc[p] = "choose" /\ UNCHANGED <<ckpt, files, saved>>
        BY <3>2, <2>9, <2>4, <1>1 DEF StartSession, Goto, disk, Sids, TypeInv, TypeOK
      <4>2. saved[nextSid] = 0
        BY <4>1, <2>1, <2>4
      <4>3. AsSaved(cur[p])'
        BY <4>1, <4>2, <2>4
      <4>4. CheckpointOf(p)'
        BY <4>1, <2>1
      <4>5. /\ Readable(ckpt') => AsSaved(ckpt.of)'
            /\ \A r \in Sids : Readable(files'[r]) => AsSaved(files[r].of)'
        <5>1. \A f \in File : f.of.sid \in Nat
          BY DEF File, SessionState, Sids
        <5> QED
          BY <4>1, <2>1, <2>4, <5>1
      <4>6. \A r \in Sids : r >= nextSid' => saved'[r] = 0
        BY <4>1, <2>1, <2>4 DEF Sids
      <4> QED
        BY <4>3, <4>4, <4>5, <4>6, <2>2
    <3> QED
      BY <3>1, <3>2
  <2>10. CASE Ask(p) \/ Answer(p)
    BY <2>10, <2>1, <2>2, <2>3, <2>4 DEF Ask, Answer, add_message, Goto, disk, caps, SessionState
  <2>11. CASE AnswerSave(p) \/ ExitSave(p)
    BY <2>11, <2>1, <2>2, <2>4, SessionTypes DEF AnswerSave, ExitSave, SaveTruncate, Goto, caps
  <2>12. CASE AnswerFill(p) \/ ExitFill(p)
    <3>1. /\ pc'[p] = "down" /\ cur'[p] = None /\ Fill(p) /\ UNCHANGED <<ckpt, nextSid>>
          /\ Readable(ckpt) => ckpt.of = s
      BY <2>12, <2>1, <2>3, <2>4 DEF AnswerFill, ExitFill, End, Goto, caps
    <3>2. CheckpointOf(p)' /\ AsSaved(cur[p])'
      BY <3>1 DEF None
    <3>3. CASE s.sid = NoSid
      BY <3>1, <3>2, <3>3, <2>1, <2>2, <2>3 DEF Fill
    <3>4. CASE s.sid # NoSid
      <4>1. /\ files' = [files EXCEPT ![s.sid] = Full(s)] /\ s.sid \in Sids
            /\ saved' = [saved EXCEPT ![s.sid] = s.turns] /\ s.sid < nextSid
        BY <3>1, <3>4, <2>1, <2>3, <2>4 DEF Fill
      <4>2. \A r \in Sids : Readable(files[r]) => files[r].of.sid = r
        BY <1>1 DEF TypeInv, TypeOK
      <4>3. \A r \in Sids : Readable(files'[r]) => AsSaved(files[r].of)'
        <5> TAKE r \in Sids
        <5>1. CASE r = s.sid
          BY <5>1, <4>1, <3>1, <2>3, <2>4, SessionTypes
        <5>2. CASE r # s.sid
          BY <5>2, <4>1, <4>2, <3>1, <2>1, <2>4
        <5> QED
          BY <5>1, <5>2
      <4>4. Readable(ckpt') => AsSaved(ckpt.of)'
        BY <4>1, <3>1, <2>4
      <4>5. \A r \in Sids : r >= nextSid' => saved'[r] = 0
        BY <4>1, <3>1, <2>1, <2>4 DEF Sids
      <4> QED
        BY <3>2, <4>3, <4>4, <4>5, <2>2
    <3> QED
      BY <3>3, <3>4
  <2>13. CASE ReadLine(p) \/ EndOfInput(p) \/ StepDone(p) \/ StepExit(p)
    BY <2>13, <2>1, <2>2, <2>4, SessionTypes DEF ReadLine, EndOfInput, StepDone, StepExit, Goto, disk, caps, Full
  <2>14. CASE CheckpointTruncate(p)
    BY <2>14, <2>1, <2>2, <2>4, SessionTypes DEF CheckpointTruncate, Goto, caps
  <2>15. CASE CheckpointFill(p)
    BY <2>15, <2>1, <2>2, <2>4, SessionTypes DEF CheckpointFill, Goto, caps
  <2>16. CASE StepClear(p)
    BY <2>16, <2>1, <2>2, <2>4, SessionTypes DEF StepClear, clear_checkpoint, Goto, caps
  <2>17. CASE StepResume(p)
    BY <2>17, <2>1, <2>2, <2>4 DEF StepResume, Goto, disk, caps
  <2>18. CASE StepFails(p) \/ Crash(p)
    BY <2>18, <2>1, <2>2, <2>4 DEF StepFails, Crash, End, Goto, disk, caps, None
  <2> QED
    BY <1>4, <2>5, <2>6, <2>7, <2>8, <2>9, <2>10, <2>11, <2>12, <2>13, <2>14, <2>15,
       <2>16, <2>17, <2>18 DEF Step
<1> QED
  BY <1>3, <1>4 DEF Next

LEMMA OneProcess ==
    ASSUME Alone
    PROVE  Spec => []SessionInv
  BY SessionInit, SessionStep, PTL DEF Spec

(* For any number of starts, crashes and sessions: while a command runs,   *)
(* latest.json is the snapshot of the session it runs on.                  *)
THEOREM StepHasCheckpointHolds ==
    ASSUME Alone
    PROVE  Spec => []StepHasCheckpoint
<1>1. SessionInv => StepHasCheckpoint
  BY DEF SessionInv, CheckpointOf, StepHasCheckpoint
<1> QED
  BY <1>1, OneProcess, PTL

(* A recovery never takes the operator back before what was saved.         *)
THEOREM CheckpointFreshHolds ==
    ASSUME Alone
    PROVE  Spec => []CheckpointFresh
<1>1. SessionInv => CheckpointFresh
  BY DEF SessionInv, TypeOK, Fresh, AsSaved, CheckpointFresh
<1> QED
  BY <1>1, OneProcess, PTL

(* A save never records fewer turns than an earlier save of its session:   *)
(* only Fill writes them, from a session that is AsSaved.                  *)
THEOREM SavedNeverShrinksHolds ==
    ASSUME Alone
    PROVE  Spec => SavedNeverShrinks
<1>1. ASSUME SessionInv, [Next]_vars PROVE [\A s \in Sids : saved'[s] >= saved[s]]_vars
  <2>1. saved \in [Sids -> Nat]
    BY <1>1 DEF SessionInv, TypeOK
  <2>2. CASE UNCHANGED saved
    BY <2>1, <2>2
  <2>3. ASSUME NEW p \in Procs, AnswerFill(p) \/ ExitFill(p)
        PROVE  \A s \in Sids : saved'[s] >= saved[s]
    <3>1. AsSaved(cur[p]) /\ TypeOK
      BY <1>1 DEF SessionInv, Fresh
    <3>2. CASE ~HasSession(p)
      BY <2>1, <2>3, <3>2 DEF AnswerFill, ExitFill, Fill
    <3>3. CASE HasSession(p)
      <4>1. cur[p].sid \in Sids /\ cur[p].turns \in Nat
        BY <3>1, <3>3, OwnSid
      <4>2. saved' = [saved EXCEPT ![cur[p].sid] = cur[p].turns]
        BY <2>3, <3>3 DEF AnswerFill, ExitFill, Fill
      <4>3. cur[p].turns >= saved[cur[p].sid]
        BY <3>1, <3>3 DEF AsSaved, HasSession
      <4> QED
        BY <2>1, <4>1, <4>2, <4>3
    <3> QED
      BY <3>2, <3>3
  <2>4. \/ UNCHANGED saved
        \/ \E p \in Procs : AnswerFill(p) \/ ExitFill(p)
    BY <1>1 DEF Next, Step, vars, disk, Start, Boot, Recovered, Resume, StartSession, Ask,
       Answer, AnswerSave, SaveTruncate, ReadLine, EndOfInput, CheckpointTruncate,
       CheckpointFill, StepDone, StepClear, StepResume, StepFails, StepExit, ExitSave, Crash
  <2> QED
    BY <2>2, <2>3, <2>4
<1> QED
  BY <1>1, OneProcess, PTL DEF Spec, SavedNeverShrinks
=============================================================================
