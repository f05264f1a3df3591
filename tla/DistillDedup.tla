---------------------------- MODULE DistillDedup ----------------------------
(***************************************************************************)
(* Which version of a source item survives when it occurs in several       *)
(* curated batches.  The code decides it twice: _dedupe_source_records in  *)
(* src/distill/pipeline.py, for what is distilled, and                     *)
(* _retain_latest_occurrences in src/distill/curation_workbench.py, for    *)
(* what the coverage report counts.                                        *)
(*                                                                         *)
(* Both are functions of the records loaded, the occurrences of texts in   *)
(* batches: [at, item, text, batch, version, created].  A record is at the *)
(* number of its batch and its own number in there, and records are read   *)
(* in that order.  Texts (which stand for their hashes too), ids and       *)
(* versions are numbers ordered as the code orders the strings; a creation *)
(* time 0 stands for none.                                                 *)
(***************************************************************************)
EXTENDS Integers, FiniteSets, FiniteSetsExt

-----------------------------------------------------------------------------
(* Ranks, and places, are compared like Python's tuples; max keeps the *)
(* greatest.                                                           *)

Below(a, b) == \E i \in DOMAIN a : a[i] < b[i] /\ \A j \in 1..(i - 1) : a[j] = b[j]
Highest(S, Rank(_)) == CHOOSE x \in S : \A y \in S : ~Below(Rank(x), Rank(y))
LastLoaded(records) == Highest(records, LAMBDA r : r.at)

(* _occurrence_rank. *)
OccurrenceRank(r) == <<r.created, r.version, r.batch, r.text>>

(* The last value of unique_preserve_order: of the records a value is met *)
(* in first, the last one has it.                                         *)
LastMet(records, Value(_)) ==
  Value(LastLoaded({r \in records :
                      \A q \in records : Below(q.at, r.at) => Value(q) # Value(r)}))

(* Mutant of LatestCreated: the stamp of the batch loaded first. *)
FirstCreated(group) == (CHOOSE r \in group : \A q \in group : ~Below(q.at, r.at)).created

(* _latest_batch_created_at. *)
LatestCreated(group) == Max({r.created : r \in group})

(* _merge_source_record_group: the occurrences of one content as one record, *)
(* with the batches and versions it came from and the last of each.          *)
Merged(item, text, group) ==
  [item |-> item, text |-> text,
   batches |-> {r.batch : r \in group},
   versions |-> {r.version : r \in group},
   lastBatch |-> LastMet(group, LAMBDA r : r.batch),
   lastVersion |-> LastMet(group, LAMBDA r : r.version),
   created |-> LatestCreated(group)]

(* _source_record_rank of a merged record: the last batch loaded counts. *)
MergedRank(m) == <<m.created, m.lastVersion, m.lastBatch, m.text>>

-----------------------------------------------------------------------------
(* The two decisions. *)

ItemsOf(loaded) == {r.item : r \in loaded}
ItemTexts(loaded) == {<<r.item, r.text>> : r \in loaded}
TextsOf(loaded, item) == {r.text : r \in {q \in loaded : q.item = item}}
GroupOf(loaded, item, text) == {r \in loaded : r.item = item /\ r.text = text}

(* _dedupe_source_records: the versions of each item, the retained one, and *)
(* the statistics.                                                          *)
MergedVersions(loaded, item) ==
  {Merged(item, x, GroupOf(loaded, item, x)) : x \in TextsOf(loaded, item)}

Distilled(loaded) ==
  {Highest(MergedVersions(loaded, item), MergedRank) : item \in ItemsOf(loaded)}

(* What a group has too many, and an item. *)
ExactDuplicates(loaded, p) == Cardinality(GroupOf(loaded, p[1], p[2])) - 1
Superseded(loaded, item) == Cardinality(MergedVersions(loaded, item)) - 1

DedupStats(loaded) ==
  [input |-> Cardinality(loaded),
   output |-> Cardinality(Distilled(loaded)),
   exact |-> MapThenSumSet(LAMBDA p : ExactDuplicates(loaded, p), ItemTexts(loaded)),
   superseded |-> MapThenSumSet(LAMBDA item : Superseded(loaded, item), ItemsOf(loaded))]

(* Mutant of Counted: the occurrence loaded last, taken for the latest. *)
CountedLastLoaded(sound) ==
  {LastLoaded({r \in sound : r.item = item}) : item \in ItemsOf(sound)}

(* _retain_latest_occurrences, over the semantically valid occurrences: the *)
(* latest of each content, and of these the latest.                         *)
Counted(sound) ==
  LET versions(item) == {Highest(GroupOf(sound, item, x), OccurrenceRank) :
                           x \in TextsOf(sound, item)}
  IN {Highest(versions(item), OccurrenceRank) : item \in ItemsOf(sound)}
=============================================================================
