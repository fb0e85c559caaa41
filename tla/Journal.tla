------------------------------ MODULE Journal -------------------------------
(***************************************************************************)
(* The journal of one agent (src/journal.rs) over the lists of the store   *)
(* (src/store.rs).  log writes each entry to a file and to a list; read    *)
(* asks the list first and the file only when the list shows nothing.  The *)
(* list is in Redis, in the database some other call selected last, or in  *)
(* the memory of the process.  One task, the command loop, writes entries; *)
(* the program itself reads only at its start, for an agent of which       *)
(* nothing is ever logged.                                                 *)
(***************************************************************************)
EXTENDS Integers, Sequences, FiniteSets, SequencesExt, Ordered, LineFile

CONSTANTS
    Dbs,            \* databases of Redis, 0 to 15
    MaxList,        \* 1000 in the code
    MaxLogged       \* bound: entries

VARIABLES
    logged,         \* entries so far; an entry is its number
    logFile,        \* the file of the agent
    lists,          \* the lists in Redis and in memory, newest first
    connected,      \* whether this process found Redis
    step,           \* what log does next
    short           \* entries whose text or newline is not in the file

Memory == -1    \* the place of the list that is not in a database of Redis

journalVars == <<logged, logFile, lists, connected, step, short>>

JournalInit ==
    /\ logged = 0
    /\ logFile = Empty
    /\ lists = [p \in Dbs \cup {Memory} |-> <<>>]
    /\ connected \in BOOLEAN
    /\ step = "idle" /\ short = {}

-----------------------------------------------------------------------------
(* writeln!, whose errors are ignored.                                     *)
WriteText ==
    /\ step = "idle" /\ logged < MaxLogged
    /\ logged' = logged + 1
    /\ \/ logFile' = WithText(logFile, logged') /\ step' = "newline" /\ short' = short
       \/ /\ logFile' \in {logFile} \cup CutTexts(logFile)
          /\ step' = "push" /\ short' = short \cup {logged'}
    /\ UNCHANGED <<lists, connected>>

WriteNewline ==
    /\ step = "newline"
    /\ \/ logFile' = WithNewline(logFile) /\ short' = short
       \/ logFile' = logFile /\ short' = short \cup {logged}
    /\ step' = "push"
    /\ UNCHANGED <<logged, lists, connected>>

PushedLast(l, e) == Append(l, e)    \* Mutant: the entry goes to the other end of the list.
Pushed(l, e) == <<e>> \o l
Trimmed(l) == SubSeq(l, 1, IF Len(l) < MaxList THEN Len(l) ELSE MaxList)

(* list_append: Redis is asked for two commands, each of which may fail;   *)
(* in memory nothing is ever trimmed.                                      *)
list_append ==
    /\ step = "push"
    /\ IF connected
       THEN \E d \in Dbs :
                LET l == Pushed(lists[d], logged)
                IN \E m \in {lists[d], l, Trimmed(l)} : lists' = [lists EXCEPT ![d] = m]
       ELSE lists' = [lists EXCEPT ![Memory] = Pushed(@, logged)]
    /\ step' = "idle"
    /\ UNCHANGED <<logged, logFile, connected, short>>

(* The process ends anywhere; the next one may or may not find Redis.      *)
End ==
    /\ lists' = [lists EXCEPT ![Memory] = <<>>]
    /\ connected' \in BOOLEAN
    /\ short' = IF step = "newline" THEN short \cup {logged} ELSE short
    /\ step' = "idle"
    /\ UNCHANGED <<logged, logFile>>

JournalNext == WriteText \/ WriteNewline \/ list_append \/ End

JournalSpec == JournalInit /\ [][JournalNext]_journalVars

-----------------------------------------------------------------------------
(* list_range(0, stop): Redis counts the entry at stop, the memory does not. *)
list_range(d, stop) ==
    LET l == IF connected THEN lists[d] ELSE lists[Memory]
        n == IF connected THEN stop + 1 ELSE stop
    IN SubSeq(l, 1, IF Len(l) < n THEN Len(l) ELSE n)

FromFileOldest(count) ==    \* Mutant: the first entries of the file.
    LET oldest == Ordered(Readable(logFile))
    IN SubSeq(oldest, 1, IF Len(oldest) < count THEN Len(oldest) ELSE count)

FromFile(count) ==
    LET newest == Reverse(Ordered(Readable(logFile)))
    IN SubSeq(newest, 1, IF Len(newest) < count THEN Len(newest) ELSE count)

read(d, count) ==
    LET l == list_range(d, count - 1) IN IF l # <<>> THEN l ELSE FromFile(count)

-----------------------------------------------------------------------------
Counts == 1..(MaxLogged + 1)

(* What is read comes newest first and nothing comes twice, whichever of   *)
(* file, Redis and memory it comes from, after any changes between them.   *)
NewestFirst ==
    \A d \in Dbs, c \in Counts :
        LET r == read(d, c) IN \A i, j \in DOMAIN r : i < j => r[i] > r[j]

(* Without Redis the latest entry is the first one read, also by later     *)
(* processes, unless its write or the one before it was cut short, or any  *)
(* text inside a character.  The list in memory gives one entry less than  *)
(* asked for; when one is asked for it gives none, and the file answers.   *)
LatestIsRead ==
    ~connected /\ step = "idle" /\ logged > 0
    /\ logFile.utf8 /\ {logged - 1, logged} \cap short = {}
        => \A d \in Dbs, c \in Counts : LET r == read(d, c) IN r # <<>> /\ r[1] = logged

(* A write that was cut short costs the file at most its own entry and the *)
(* next, which is put on the same line, unless the text ended inside a     *)
(* character: then the file reads as empty from there on (log, read).      *)
LossIsLocal == logFile.utf8 =>
    \A e \in 1..logged : e \in Readable(logFile) \/ e \in short \/ e - 1 \in short
=============================================================================
