---------------------------- MODULE OfflineQueue ----------------------------
(***************************************************************************)
(* The queue of events of a node without a connection (src/offline.rs): a  *)
(* file of lines.  flush copies the file to a backup, empties it, and      *)
(* returns what it read before; a file it cannot read it leaves alone.     *)
(* The process may end between two steps, and the copy may fail, which is  *)
(* ignored.  One task uses the queue.                                      *)
(*                                                                         *)
(* The program only reads the queue, at its recovery, to print how many    *)
(* events there are.                                                       *)
(***************************************************************************)
EXTENDS Naturals, LineFile

CONSTANTS MaxLines     \* bound: events written

VARIABLES
    written,    \* how many events were written, whole or in part
    adding,     \* the last of them has its text and waits for its newline
    failed,     \* those whose enqueue failed or did not come to its end
    lines,      \* queue.jsonl
    backup,     \* the events in queue.jsonl.bak
    flushing,   \* how far the flush is, and what it read
    handed,     \* how often each event was returned by a flush
    cut, spoiled    \* a flush was cut short; and a copy made since, or a copy failed

queueVars == <<written, adding, failed, lines, backup, flushing, handed, cut, spoiled>>

Events == 1..MaxLines
NoFlush == [at |-> "none", read |-> {}]

QueueInit ==
    /\ written = 0 /\ adding = FALSE /\ failed = {}
    /\ lines = Empty /\ backup = {}
    /\ flushing = NoFlush
    /\ handed = [e \in Events |-> 0]
    /\ cut = FALSE /\ spoiled = FALSE

(* enqueue.  One that writes nothing changes nothing.                      *)

Calm == flushing = NoFlush /\ ~adding

EnqueueText ==
    /\ Calm /\ written < MaxLines
    /\ written' = written + 1
    /\ \/ lines' = WithText(lines, written') /\ adding' = TRUE /\ failed' = failed
       \/ lines' \in CutTexts(lines) /\ adding' = FALSE /\ failed' = failed \cup {written'}
    /\ UNCHANGED <<backup, flushing, handed, cut, spoiled>>

EnqueueNewline ==
    /\ adding
    /\ \/ lines' = WithNewline(lines) /\ failed' = failed
       \/ lines' = lines /\ failed' = failed \cup {written}
    /\ adding' = FALSE
    /\ UNCHANGED <<written, backup, flushing, handed, cut, spoiled>>

-----------------------------------------------------------------------------
(* flush.                                                                  *)

Step(s) == flushing' = [flushing EXCEPT !.at = s]

(* read_all; a queue without events is returned as it is.                  *)
Read ==
    /\ Calm /\ Readable(lines) # {}
    /\ flushing' = [at |-> "copy", read |-> Readable(lines)]
    /\ UNCHANGED <<written, adding, failed, lines, backup, handed, cut, spoiled>>

(* Mutant: the backup is made of what is left.                             *)
CopyAfter == {}
Copied == Whole(lines)

Copy ==
    /\ flushing.at = "copy"
    /\ backup' = Copied
    /\ spoiled' = (spoiled \/ cut)
    /\ Step("truncate")
    /\ UNCHANGED <<written, adding, failed, lines, handed, cut>>

(* What a copy leaves that is not complete: what there was, or a part.     *)
PartsOfCopy == {backup} \cup SUBSET Whole(lines)

CopyFails ==
    /\ flushing.at = "copy"
    /\ backup' \in PartsOfCopy
    /\ spoiled' = TRUE
    /\ Step("truncate")
    /\ UNCHANGED <<written, adding, failed, lines, handed, cut>>

Truncate ==
    /\ flushing.at = "truncate"
    /\ lines' = Empty
    /\ Step("return")
    /\ UNCHANGED <<written, adding, failed, backup, handed, cut, spoiled>>

(* Mutant: the events are returned before the file is emptied.             *)
ReturnsEarly == flushing.at \in {"truncate", "return"}
Returns == flushing.at = "return"

Return ==
    /\ Returns
    /\ handed' = [e \in Events |-> IF e \in flushing.read THEN handed[e] + 1 ELSE handed[e]]
    /\ flushing' = NoFlush
    /\ UNCHANGED <<written, adding, failed, lines, backup, cut, spoiled>>

(* The process ends, also inside the copy; the files stay.  An end inside  *)
(* enqueue leaves what a failed write leaves.                              *)
Ends ==
    /\ flushing # NoFlush
    /\ backup' \in IF flushing.at = "copy" THEN PartsOfCopy ELSE {backup}
    /\ spoiled' = (spoiled \/ (cut /\ flushing.at = "copy"))
    /\ cut' = TRUE
    /\ flushing' = NoFlush
    /\ UNCHANGED <<written, adding, failed, lines, handed>>

QueueNext ==
    \/ EnqueueText \/ EnqueueNewline \/ Read \/ Copy
    \/ CopyFails \/ Truncate \/ Return \/ Ends

QueueSpec == QueueInit /\ [][QueueNext]_queueVars

-----------------------------------------------------------------------------
(* No event is returned by two flushes, wherever a process ends (flush).   *)
ReturnedOnce == \A e \in Events : handed[e] <= 1

(* A write that was cut short costs at most the event that comes next,     *)
(* which is put on the same line, though its enqueue succeeds.  No other   *)
(* event is lost, until the events are copied once more after a flush was  *)
(* cut short, or a copy failed, or a text ended inside a character: each   *)
(* is in the file, in the backup, or was returned.  The next copy          *)
(* overwrites the backup, also of events nobody got (enqueue, flush).      *)
EventsKept == ~spoiled /\ lines.utf8 =>
    \A e \in 1..written :
        \/ e \in Readable(lines) \cup backup \cup flushing.read
        \/ handed[e] > 0
        \/ e \in failed \/ e - 1 \in failed
=============================================================================
