---------------------------- MODULE ArtifactStore ----------------------------
(***************************************************************************)
(* The artifact store of src/core/storage.py: one JSON file per artifact   *)
(* and a SQLite index of the files.  A save writes the file and then, in   *)
(* a separate step, its row; a rebuild lists the directory, reads the      *)
(* files one by one and only then replaces all rows in one transaction; a  *)
(* load reads the row and then the file.  Nothing orders two processes but *)
(* SQLite's own transactions, a process may die between any two steps, and *)
(* the index file may be lost.                                             *)
(***************************************************************************)
EXTENDS Integers, FiniteSets

CONSTANTS
  Procs,        (* processes that use the store                             *)
  Ids,          (* artifact ids; save_model draws a fresh one each time     *)
  MaxCrashes,   (* bound on the processes that die or see SQLite fail       *)
  MaxLosses     (* bound on the losses of the index file                    *)

ASSUME BoundsAssumption == MaxCrashes \in Nat /\ MaxLosses \in Nat

VARIABLES
  file,         (* each artifact's file                                     *)
  table,        (* whether the index has its table                          *)
  rows,         (* the artifacts that have a row                            *)
  pc,           (* where each process is                                    *)
  id,           (* the artifact a process saves or loads                    *)
  todo,         (* a rebuild's listing: files it has yet to read            *)
  found,        (* ... and the artifacts it has read                        *)
  outcome,      (* what the last load of each process returned              *)
  crashes,
  losses,
  present,      (* history: files that were whole when the rebuild started  *)
  promised      (* history: artifacts the index has to know, see Promised   *)

store == <<file, table, rows>>
rebuild == <<todo, found, present>>
bounds == <<crashes, losses>>
vars == <<store, pc, id, rebuild, outcome, bounds, promised>>

Whole == {i \in Ids : file[i] = "whole"}
Written == {i \in Ids : file[i] # "none"}

Goto(p, label) == pc' = [pc EXCEPT ![p] = label]

-----------------------------------------------------------------------------
(* save_model.  initialize creates the table if need be; write_text first  *)
(* truncates the file, so that it is unreadable until it is complete.      *)

OpenFile(p, i) ==
  /\ pc[p] = "idle"
  /\ file[i] = "none"
  /\ file' = [file EXCEPT ![i] = "torn"]
  /\ table' = TRUE
  /\ id' = [id EXCEPT ![p] = i]
  /\ Goto(p, "write")
  /\ UNCHANGED <<rows, rebuild, outcome, bounds, promised>>

WriteFile(p) ==
  /\ pc[p] = "write"
  /\ file' = [file EXCEPT ![id[p]] = "whole"]
  /\ Goto(p, "upsert")
  /\ UNCHANGED <<table, rows, id, rebuild, outcome, bounds, promised>>

(* The row is committed and save_model returns.                            *)
UpsertRow(p) ==
  /\ pc[p] = "upsert"
  /\ table
  /\ rows' = rows \cup {id[p]}
  /\ promised' = promised \cup {id[p]}
  /\ Goto(p, "idle")
  /\ UNCHANGED <<file, table, id, rebuild, outcome, bounds>>

-----------------------------------------------------------------------------
(* load_artifact: _fetch_record, then the file.                            *)

(* Mutants: an unknown id raises something callers do not expect; the      *)
(* canonical path is tried although there is no row.                       *)
FetchRaisesKeyError(p, i) ==
  /\ pc[p] = "idle"
  /\ table' = TRUE
  /\ id' = [id EXCEPT ![p] = i]
  /\ IF i \in rows
     THEN Goto(p, "read_file") /\ UNCHANGED outcome
     ELSE UNCHANGED pc /\ outcome' = [outcome EXCEPT ![p] = "key_error"]
  /\ UNCHANGED <<file, rows, rebuild, bounds, promised>>

FetchWithoutRow(p, i) ==
  /\ pc[p] = "idle"
  /\ table' = TRUE
  /\ id' = [id EXCEPT ![p] = i]
  /\ Goto(p, "read_file")
  /\ UNCHANGED <<file, rows, rebuild, outcome, bounds, promised>>

FetchRow(p, i) ==
  /\ pc[p] = "idle"
  /\ table' = TRUE
  /\ id' = [id EXCEPT ![p] = i]
  /\ IF i \in rows
     THEN Goto(p, "read_file") /\ UNCHANGED outcome
     ELSE UNCHANGED pc /\ outcome' = [outcome EXCEPT ![p] = "unknown"]
  /\ UNCHANGED <<file, rows, rebuild, bounds, promised>>

(* A missing or a torn file makes load_artifact raise.                     *)
ReadFile(p) ==
  /\ pc[p] = "read_file"
  /\ outcome' = [outcome EXCEPT ![p] = file[id[p]]]
  /\ Goto(p, "idle")
  /\ UNCHANGED <<store, id, rebuild, bounds, promised>>

-----------------------------------------------------------------------------
(* rebuild_index.                                                          *)

StartRebuild(p) ==
  /\ pc[p] = "idle"
  /\ table' = TRUE
  /\ todo' = [todo EXCEPT ![p] = Written]
  /\ found' = [found EXCEPT ![p] = {}]
  /\ present' = [present EXCEPT ![p] = Whole]
  /\ Goto(p, "walk")
  /\ UNCHANGED <<file, rows, id, outcome, bounds, promised>>

(* rglob walks the directories: it may or may not come across a file that  *)
(* is created while it does.                                               *)
WalkFinds(p, i) ==
  /\ pc[p] = "walk"
  /\ i \in Written
  /\ todo' = [todo EXCEPT ![p] = @ \cup {i}]
  /\ UNCHANGED <<store, pc, id, found, present, outcome, bounds, promised>>

WalkEnds(p) ==
  /\ pc[p] = "walk"
  /\ Goto(p, "read")
  /\ UNCHANGED <<store, id, rebuild, outcome, bounds, promised>>

(* Mutant: a file that cannot be parsed is indexed by its name.            *)
ReadIndexesTornFiles(p, i) ==
  /\ pc[p] = "read"
  /\ i \in todo[p]
  /\ todo' = [todo EXCEPT ![p] = @ \ {i}]
  /\ found' = [found EXCEPT ![p] = @ \cup {i}]
  /\ UNCHANGED <<store, pc, id, present, outcome, bounds, promised>>

(* _read_indexable_envelope: a file that does not parse is skipped.        *)
ReadListed(p, i) ==
  /\ pc[p] = "read"
  /\ i \in todo[p]
  /\ todo' = [todo EXCEPT ![p] = @ \ {i}]
  /\ found' = [found EXCEPT ![p] = IF i \in Whole THEN @ \cup {i} ELSE @]
  /\ UNCHANGED <<store, pc, id, present, outcome, bounds, promised>>

(* Mutant: the transaction starts before the listing is read to its end.   *)
ReplaceRowsEarly(p) ==
  /\ pc[p] = "read"
  /\ table
  /\ rows' = found[p]
  /\ promised' = present[p]
  /\ Goto(p, "idle")
  /\ UNCHANGED <<file, table, id, rebuild, outcome, bounds>>

(* Mutant: only artifacts that had no row before are inserted.             *)
ReplaceWithNewRowsOnly(p) ==
  /\ pc[p] = "read"
  /\ todo[p] = {}
  /\ table
  /\ rows' = found[p] \ rows
  /\ promised' = present[p]
  /\ Goto(p, "idle")
  /\ UNCHANGED <<file, table, id, rebuild, outcome, bounds>>

(* DELETE and INSERTs are one transaction.                                 *)
ReplaceRows(p) ==
  /\ pc[p] = "read"
  /\ todo[p] = {}
  /\ table
  /\ rows' = found[p]
  /\ promised' = present[p]
  /\ Goto(p, "idle")
  /\ UNCHANGED <<file, table, id, rebuild, outcome, bounds>>

-----------------------------------------------------------------------------
(* SQLite raises: another process holds the lock for too long, or the      *)
(* table went with the lost index file after initialize had made it.  What *)
(* was written to the directory stays.                                     *)
SqliteRaises(p) ==
  /\ \/ pc[p] = "upsert"
     \/ pc[p] = "read" /\ todo[p] = {}
  /\ IF table
     THEN crashes < MaxCrashes /\ crashes' = crashes + 1
     ELSE UNCHANGED crashes
  /\ Goto(p, "idle")
  /\ UNCHANGED <<store, id, rebuild, outcome, losses, promised>>

(* The process dies where it is, or write_text raises.                     *)
Crash(p) ==
  /\ pc[p] # "idle"
  /\ crashes < MaxCrashes
  /\ crashes' = crashes + 1
  /\ Goto(p, "idle")
  /\ UNCHANGED <<store, id, rebuild, outcome, losses, promised>>

(* The index file is lost (README: "artifact files still exist but the     *)
(* SQLite index is missing"); nothing is promised until it is rebuilt.     *)
LoseIndex ==
  /\ losses < MaxLosses
  /\ losses' = losses + 1
  /\ rows' = {}
  /\ table' = FALSE
  /\ promised' = {}
  /\ UNCHANGED <<file, pc, id, rebuild, outcome, crashes>>

-----------------------------------------------------------------------------

Init ==
  /\ file = [i \in Ids |-> "none"]
  /\ table = FALSE
  /\ rows = {}
  /\ pc = [p \in Procs |-> "idle"]
  /\ id \in [Procs -> Ids]
  /\ todo = [p \in Procs |-> {}]
  /\ found = [p \in Procs |-> {}]
  /\ outcome = [p \in Procs |-> "unknown"]
  /\ crashes = 0
  /\ losses = 0
  /\ present = [p \in Procs |-> {}]
  /\ promised = {}

(* The steps an operation takes by itself once it was called.              *)
Proceed(p) ==
  \/ WriteFile(p)
  \/ UpsertRow(p)
  \/ ReadFile(p)
  \/ WalkEnds(p)
  \/ \E i \in Ids : ReadListed(p, i)
  \/ ReplaceRows(p)
  \/ SqliteRaises(p)

Next ==
  \/ LoseIndex
  \/ \E p \in Procs :
       \/ Proceed(p)
       \/ StartRebuild(p)
       \/ \E i \in Ids : OpenFile(p, i) \/ FetchRow(p, i) \/ WalkFinds(p, i)
       \/ Crash(p)

Spec == Init /\ [][Next]_vars

TypeOK ==
  /\ file \in [Ids -> {"none", "torn", "whole"}]
  /\ table \in BOOLEAN
  /\ rows \subseteq Ids
  /\ pc \in [Procs -> {"idle", "write", "upsert", "read_file", "walk", "read"}]
  /\ id \in [Procs -> Ids]
  /\ todo \in [Procs -> SUBSET Ids]
  /\ found \in [Procs -> SUBSET Ids]
  /\ outcome \in [Procs -> {"unknown", "none", "torn", "whole"}]
  /\ crashes \in 0..MaxCrashes
  /\ losses \in 0..MaxLosses
  /\ present \in [Procs -> SUBSET Ids]
  /\ promised \subseteq Ids

(* The index never leads to a file that is missing or does not parse:      *)
(* whoever dies, and whatever a rebuild read while files were written.     *)
RowsAreReadable == rows \subseteq Whole

(* load_artifact either finds no row or returns the artifact, also when    *)
(* the index is lost or replaced between its two reads: its other errors   *)
(* ("Artifact file is missing", "Failed to parse") are never raised.       *)
LoadsReturnWholeFiles == \A p \in Procs : outcome[p] \in {"unknown", "whole"}

(* What a caller may rely on.  A save that returned is indexed, and so is  *)
(* after a rebuild every file that was whole before the rebuild started,   *)
(* until the index is lost, or replaced by a rebuild that started before   *)
(* the file was whole.  (Such a rebuild does drop the row of a save that   *)
(* has returned: rebuild_index reads first and takes the database last.)   *)
PromisedIsIndexed == promised \subseteq rows

(* Rebuilding is run again whenever the index is suspected to be behind;   *)
(* an operation that was called goes on by itself unless it dies.          *)
Fairness ==
  \A p \in Procs :
    /\ WF_vars(Proceed(p))
    /\ SF_vars(StartRebuild(p))

FairSpec == Spec /\ Fairness

(* Whatever dies or races, the index ends up with the whole files and      *)
(* nothing else.                                                           *)
IndexConverges == <>[](rows = Whole)

-----------------------------------------------------------------------------
(* The inductive invariant: what each process may rely on where it is.     *)

SavesHaveTheirFile ==
  \A p \in Procs :
    /\ pc[p] \in {"write", "upsert"} => file[id[p]] # "none"
    /\ pc[p] \in {"upsert", "read_file"} => file[id[p]] = "whole"

RebuildsMissNothing ==
  \A p \in Procs :
    /\ found[p] \subseteq Whole
    /\ pc[p] \in {"walk", "read"} => present[p] \subseteq todo[p] \cup found[p]
    /\ present[p] \subseteq Whole

IInv ==
  /\ TypeOK
  /\ RowsAreReadable
  /\ LoadsReturnWholeFiles
  /\ PromisedIsIndexed
  /\ SavesHaveTheirFile
  /\ RebuildsMissNothing
=============================================================================
