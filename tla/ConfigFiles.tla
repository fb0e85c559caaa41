---------------------------- MODULE ConfigFiles -----------------------------
(***************************************************************************)
(* Two lists that are kept in a file each, written as a whole after every  *)
(* change: the contacts (ContactBook of src/tunnel.rs) and the jobs of     *)
(* cron (src/cron.rs).  A process that ends inside a write leaves an empty *)
(* file: the next one cannot parse it, begins with no contacts, or with    *)
(* the default jobs, and writes that over the file with its first change.  *)
(* An error of save is ignored: the change stays in memory, and gets to    *)
(* the file with a later save, or never.  The error of cron's load is      *)
(* ignored as well.                                                        *)
(*                                                                         *)
(* /nick is the command that changes the contacts; nothing in the program  *)
(* changes jobs, or runs them: its task publishes a tick for subscribers.  *)
(***************************************************************************)
EXTENDS Naturals, Sequences, SequencesExt, Ordered

CONSTANTS
    Contacts, Jobs, \* ids of nodes and names of jobs
    Values,         \* nicknames, or enabled or not
    MaxItems        \* bound: entries of a list

VARIABLES
    items,          \* each list in memory
    disk,           \* each file: whether it can be parsed, and its entries
    saving,         \* the list that is being written
    unsaved         \* lists of which this process failed to write a change

configVars == <<items, disk, saving, unsaved>>

Lists == {"contacts", "cron"}
Entry(i, v) == [id |-> i, value |-> v]
(* A file that can be parsed, and one that cannot.                         *)
Whole(l) == [whole |-> TRUE, entries |-> l]
Broken == [whole |-> FALSE, entries |-> <<>>]

(* Both have two entries; here one stands for them.                        *)
Default == <<Entry("default", "a")>>
(* unwrap_or_default.                                                      *)
Unparsed(f) == IF f = "contacts" THEN << >> ELSE Default

(* The book of contacts writes its default at once, which may fail half    *)
(* way; cron keeps its own.                                                *)
ConfigInit ==
    /\ items = [f \in Lists |-> Default]
    /\ \E written \in BOOLEAN : disk =
            [f \in Lists |-> IF f = "contacts" /\ ~written THEN Broken ELSE Whole(Default)]
    /\ saving = "none"
    /\ unsaved = {}

-----------------------------------------------------------------------------
(* save: the file is opened, which truncates it, and filled; either fails  *)
(* and leaves the file as it was, or one that cannot be parsed.            *)

Save(f) ==
    \/ saving' = f /\ disk' = [disk EXCEPT ![f] = Broken] /\ UNCHANGED unsaved
    \/ UNCHANGED <<saving, disk>> /\ unsaved' = unsaved \cup {f}

Saved ==
    /\ saving # "none"
    /\ disk' = [disk EXCEPT ![saving] = Whole(items[saving])]
    /\ unsaved' = unsaved \ {saving}
    /\ saving' = "none"
    /\ UNCHANGED items

SaveFails ==
    /\ saving # "none"
    /\ unsaved' = unsaved \cup {saving}
    /\ saving' = "none"
    /\ UNCHANGED <<items, disk>>

Change(f, l) ==
    /\ saving = "none"
    /\ items' = [items EXCEPT ![f] = l]

First(f, i) == SelectInSeq(items[f], LAMBDA e : e.id = i)
Without(f, i) == Kept(items[f], {k \in DOMAIN items[f] : items[f][k].id # i})

-----------------------------------------------------------------------------
(* The contacts.                                                           *)

(* Mutant: an entry is found by the name the user gave it.                 *)
FindByName(i, v) == SelectInSeq(items["contacts"], LAMBDA e : e.value = v)
Find(i, v) == First("contacts", i)

(* Mutant: an update is not written.                                       *)
SaveNothing == UNCHANGED <<saving, disk, unsaved>>
SaveUpdate == Save("contacts")

(* set: an entry of the node is updated, or one is added.                  *)
set(i, v) ==
    LET k == Find(i, v)
    IN  IF k # 0
        THEN Change("contacts", [items["contacts"] EXCEPT ![k].value = v]) /\ SaveUpdate
        ELSE /\ Len(items["contacts"]) < MaxItems
             /\ Change("contacts", Append(items["contacts"], Entry(i, v)))
             /\ Save("contacts")

remove(i) == Change("contacts", Without("contacts", i)) /\ Save("contacts")

-----------------------------------------------------------------------------
(* The jobs.                                                               *)

(* Nobody asks whether there is a job of that name.                        *)
add_job(i, v) ==
    /\ Len(items["cron"]) < MaxItems
    /\ Change("cron", Append(items["cron"], Entry(i, v))) /\ Save("cron")

remove_job(i) == Change("cron", Without("cron", i)) /\ Save("cron")

(* Mutant: every job of the name is switched.                              *)
SwitchAll(i, v) == [k \in DOMAIN items["cron"] |->
    IF items["cron"][k].id = i THEN Entry(i, v) ELSE items["cron"][k]]
(* enable_job, disable_job: the first job of the name.                     *)
Switched(i, v) ==
    LET k == First("cron", i)
    IN  IF k = 0 THEN items["cron"] ELSE [items["cron"] EXCEPT ![k].value = v]

switch_job(i, v) == Change("cron", Switched(i, v)) /\ Save("cron")

-----------------------------------------------------------------------------
(* The next process.                                                       *)
New ==
    /\ items' = [f \in Lists |-> IF disk[f].whole THEN disk[f].entries ELSE Unparsed(f)]
    /\ unsaved' = {}
    /\ saving' = "none"
    /\ UNCHANGED disk

ConfigNext ==
    \/ \E i \in Contacts : remove(i) \/ \E v \in Values : set(i, v)
    \/ \E i \in Jobs :
        remove_job(i) \/ \E v \in Values : add_job(i, v) \/ switch_job(i, v)
    \/ Saved \/ SaveFails \/ New

ConfigSpec == ConfigInit /\ [][ConfigNext]_configVars

-----------------------------------------------------------------------------
(* What is in memory is what the next process will find, but for a change  *)
(* that is being written, a save of this process that failed, and a file   *)
(* that cannot be parsed; the next save brings every change to the file    *)
(* (set, remove, the jobs, save, new).                                     *)
ChangesKept == \A f \in Lists :
    saving # f /\ f \notin unsaved /\ disk[f].whole => items[f] = disk[f].entries

(* A node has one entry in the book, also after a broken file (set).       *)
OneContact == \A j, k \in DOMAIN items["contacts"] :
    items["contacts"][j].id = items["contacts"][k].id => j = k

(* A job that was added under a name that is taken keeps its switch until  *)
(* the name is removed, the file is lost, or a process that failed to save *)
(* ends: it is out of reach of enable_job and disable_job.                 *)
Shadowed(k) == \E j \in 1..(k - 1) : items["cron"][j].id = items["cron"][k].id
ShadowedKeeps == [][\A k \in DOMAIN items["cron"] :
    Shadowed(k) /\ Len(items'["cron"]) >= Len(items["cron"]) /\ "cron" \notin unsaved
        => items'["cron"][k] = items["cron"][k]]_configVars
=============================================================================
