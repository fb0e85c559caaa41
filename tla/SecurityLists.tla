--------------------------- MODULE SecurityLists ----------------------------
(***************************************************************************)
(* The block list of SecurityLearner (src/security.rs; the allow list is   *)
(* kept the same way): a set in memory, a copy in security_learned.json,   *)
(* and block.txt, which the operator edits by hand.                        *)
(*                                                                         *)
(* add and remove rewrite the text file only; save writes the JSON and the *)
(* text.  fs::write truncates a file before it fills it, and the process   *)
(* may end in between; a torn file reads as an empty one.  A new process   *)
(* takes the union of both files, then saves.                              *)
(***************************************************************************)
CONSTANTS Peers

VARIABLES
    blacklist,      \* in memory
    json, text,     \* the two files; {} when torn
    phase,          \* "down", "idle", or the file being written
    survives        \* on the list at the last save of this process or, when it
                    \* has ended, of the last one, and not removed since

listVars == <<blacklist, json, text, phase, survives>>

ListInit ==
    /\ blacklist = {} /\ json = {} /\ text = {}
    /\ phase = "down" /\ survives = {}

-----------------------------------------------------------------------------
(* save_list_file and save.                                                *)

Truncate(f) ==
    /\ text' = {}
    /\ phase' = f

TextFill ==
    /\ phase \in {"text", "both"}
    /\ text' = blacklist
    /\ phase' = "idle"
    /\ survives' = IF phase = "both" THEN blacklist ELSE survives
    /\ UNCHANGED <<blacklist, json>>

JsonTruncate ==
    /\ json' = {}
    /\ phase' = "json"

(* save, at the 20th, 40th ... event.                                      *)
Save ==
    /\ phase = "idle"
    /\ JsonTruncate
    /\ UNCHANGED <<blacklist, text, survives>>

JsonFill ==
    /\ phase = "json"
    /\ json' = blacklist
    /\ phase' = "written"
    /\ UNCHANGED <<blacklist, text, survives>>

SaveText ==
    /\ phase = "written"
    /\ Truncate("both")
    /\ UNCHANGED <<blacklist, json, survives>>

-----------------------------------------------------------------------------
(* The operations.                                                         *)

add_blacklist(p) ==
    /\ phase = "idle"
    /\ blacklist' = blacklist \cup {p}
    /\ Truncate("text")
    /\ UNCHANGED <<json, survives>>

(* The JSON keeps the peer until the next save: it is back after a restart. *)
remove_blacklist(p) ==
    /\ phase = "idle"
    /\ blacklist' = blacklist \ {p}
    /\ survives' = survives \ {p}
    /\ Truncate("text")
    /\ UNCHANGED json

sync_blacklist ==
    /\ phase = "idle"
    /\ blacklist' = blacklist \cup text
    /\ UNCHANGED <<json, text, phase, survives>>

(* The operator adds and deletes lines; what is not synced is overwritten. *)
EditByHand(p) ==
    /\ phase \in {"down", "idle"}
    /\ \/ text' = text \cup {p} /\ UNCHANGED survives
       \/ text' = text \ {p} /\ survives' = survives \ {p}
    /\ UNCHANGED <<blacklist, json, phase>>

Die ==
    /\ phase # "down"
    /\ phase' = "down"
    /\ blacklist' = {}
    /\ UNCHANGED <<json, text, survives>>

(* Mutants: a process starts from one of the files.                        *)
FromJson == json
FromText == text
Restored == json \cup text

(* new: both files are loaded, and saved at once.                          *)
New ==
    /\ phase = "down"
    /\ blacklist' = Restored
    /\ JsonTruncate
    /\ survives' = {}
    /\ UNCHANGED text

ListNext ==
    \/ TextFill \/ Save \/ JsonFill \/ SaveText \/ sync_blacklist \/ Die \/ New
    \/ \E p \in Peers : add_blacklist(p) \/ remove_blacklist(p) \/ EditByHand(p)

ListSpec == ListInit /\ [][ListNext]_listVars

-----------------------------------------------------------------------------
(* A peer that was blocked when a process last saved, and that nobody took *)
(* off the list since, is blocked by the next process, wherever this one   *)
(* ends: it never tears both files at once (save, save_list_file, new).    *)
(* It does not hold across two ends in a row: the next process truncates   *)
(* the JSON at once, while the text may still be torn.                     *)
BlockSurvives == survives \subseteq IF phase = "down" THEN Restored ELSE blacklist
=============================================================================
