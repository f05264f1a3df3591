--------------------------- MODULE CuratedBatches ---------------------------
(***************************************************************************)
(* A tree of curated batches, from authoring to distilled atoms.           *)
(* src/distill/curation_workbench.py creates batches, validates the tree   *)
(* and reports its coverage; src/distill/pipeline.py distills it; and      *)
(* src/assembly/candidate_pool.py finds the atoms of a batch again.  The   *)
(* three read the same files and decide independently what is valid, which *)
(* version of an item counts and where an atom comes from.                 *)
(*                                                                         *)
(* A text stands for the content of an item entry; Content says what of it *)
(* matters.  The list of texts in a file is its own content hash.  Commands *)
(* are run one at a time; each write of a file may be cut short by a crash. *)
(***************************************************************************)
EXTENDS DistillDedup, FamilyRegistry, Functions, Sequences

CONSTANTS
  Slots,        (* places for a batch, numbered in the order of the paths   *)
  Texts,        (* numbered in the order of their hashes                    *)
  Content,      (* text -> [item, schema, linted, builds, topic, forms,     *)
                (* steps]; a step has a label and moves                     *)
  HandWritten,  (* slot -> batches, [jsonl, items, manifest], that may be   *)
                (* there at first                                           *)
  Lists,        (* what authors put into an items file                      *)
  Templates,    (* what load_template offers                                *)
  BatchIds, Versions,    (* what initialize_batch is told                   *)
  Stamps, Now,  (* created_at, 0 for none; and what _utc_now_iso returns    *)
  Outputs,      (* the generated files, in the order they are written       *)
  Absent, Torn, (* a file that does not exist, or was cut short             *)
  MaxEdits, MaxRuns      (* bounds on authoring steps and distillations     *)

ASSUME SlotsAssumption == Slots \subseteq Nat \ {0} /\ IsFiniteSet(Slots)
ASSUME OrderAssumption == Texts \cup BatchIds \cup Versions \subseteq Nat
ASSUME ListsAssumption == Lists \cup Templates \subseteq Seq(Texts)
ASSUME ContentAssumption ==
  \A x \in Texts : Content[x].linted \/ Content[x].builds => Content[x].schema
ASSUME OutputsAssumption == Outputs \in Seq(STRING) /\ "manifest" \notin Range(Outputs)
ASSUME StampAssumption == Stamps \cup {Now} \subseteq Nat /\ \A stamp \in Stamps : stamp <= Now
ASSUME FileAssumption == {Absent, Torn} \cap (Nat \cup Lists \cup Templates) = {} /\ Absent # Torn

ASSUME HandWrittenAssumption ==
  \A s \in Slots : \A b \in HandWritten[s] :
    b \in [jsonl : BOOLEAN, items : Seq(Texts),
           manifest : [id : Nat, version : Nat, created : Stamps, zoned : BOOLEAN,
                       declared : {b.items}, fits : {TRUE}]]

VARIABLES
  tree,         (* slot -> [jsonl, items, manifest]                         *)
  pending,      (* the initialize_batch that has not written its manifest   *)
  outputs,      (* generated file -> the run that wrote it, Absent, Torn    *)
  manifest,     (* manifest.json: [run, hashes], Absent or Torn             *)
  written,      (* what the run going on has still to write                 *)
  edits, runs   (* how often has been authored and distilled                *)

vars == <<tree, pending, outputs, manifest, written, edits, runs>>

Idle == pending = Absent /\ written = <<>>

-----------------------------------------------------------------------------
(* Reading the tree. *)

(* The slots whose manifest is found (load_curated_batches and              *)
(* _discover_manifest_paths); items without a manifest are not.  A manifest *)
(* that does not fit its schema still says which batch and items it is of.  *)
Found(t) == {s \in Slots : t[s].manifest # Absent}
Readable(t, s) == t[s].manifest # Torn /\ t[s].items \notin {Absent, Torn}
Malformed(t, s) == \E x \in Range(t[s].items) : ~Content[x].schema
TruthfulManifest(t, s) == t[s].manifest.declared = t[s].items

(* Mutant of SoundText: the graph is not tried. *)
LintedText(x) == Content[x].linted

(* _validate_item_semantics: no error is found, and the graph can be built. *)
SoundText(x) == Content[x].linted /\ Content[x].builds

(* _load_raw_entries and _scan_batch: the schema-valid texts. *)
ScannedTexts(t, s) ==
  IF Readable(t, s) THEN {x \in Range(t[s].items) : Content[x].schema} ELSE {}

ScanIsClean(t, s) ==
  /\ Readable(t, s) /\ t[s].manifest.fits
  /\ ~Malformed(t, s)
  /\ TruthfulManifest(t, s)
  /\ \A x \in Range(t[s].items) : SoundText(x)

Identity(m) == <<m.id, m.version>>

(* _build_duplicate_report: what it counts as errors. *)
IdentityConflict(t) ==
  \E r, s \in {q \in Found(t) : t[q].manifest # Torn /\ t[q].manifest.fits} :
    /\ Identity(t[r].manifest) = Identity(t[s].manifest)
    /\ t[r].manifest.declared # t[s].manifest.declared

SourceItemConflict(t) ==
  LET all == UNION {ScannedTexts(t, s) : s \in Found(t)}
  IN \E x, y \in all : x # y /\ Content[x].item = Content[y].item

(* validate_batches: no error of any kind. *)
WorkbenchValid(t) ==
  /\ Found(t) # {}
  /\ \A s \in Found(t) : ScanIsClean(t, s)
  /\ ~IdentityConflict(t)
  /\ ~SourceItemConflict(t)

(* The record number i of a batch, and the records of some batches; the date *)
(* is only known from a manifest that fits its schema.                       *)
Occurrence(t, s, i) ==
  LET x == t[s].items[i]
      m == t[s].manifest
  IN [at |-> <<s, i>>, item |-> Content[x].item, text |-> x,
      batch |-> m.id, version |-> m.version, created |-> IF m.fits THEN m.created ELSE 0]
Occurrences(t, S) == UNION {{Occurrence(t, s, i) : i \in DOMAIN t[s].items} : s \in S}

(* What the pipeline loads, and what the workbench finds to be sound. *)
Loaded(t) == Occurrences(t, Found(t))
SoundOccurrences(t) ==
  {r \in Occurrences(t, {s \in Found(t) : Readable(t, s)}) :
     Content[r.text].schema /\ SoundText(r.text)}

-----------------------------------------------------------------------------
(* Atoms. *)

(* extract_item_atoms: one atom per step, with where the text came from. *)
AtomsOf(x, batches, versions, hashes) ==
  {[topic |-> Content[x].topic, label |-> step.label, moves |-> step.moves,
    forms |-> Content[x].forms, items |-> {Content[x].item},
    batches |-> batches, versions |-> versions, hashes |-> hashes] :
     step \in Content[x].steps}

Key(atom) == <<atom.topic, atom.label>>

(* Mutant of MergeAtoms: the atom met first keeps its provenance. *)
MergeKeepingFirst(atoms) ==
  LET same(k) == {a \in atoms : Key(a) = k}
      union(k, Field(_)) == UNION {Field(a) : a \in same(k)}
      first(k) == CHOOSE a \in same(k) : TRUE
  IN {[first(k) EXCEPT !.moves = union(k, LAMBDA a : a.moves),
                       !.forms = union(k, LAMBDA a : a.forms)] :
        k \in {Key(a) : a \in atoms}}

(* merge_atoms: equal topics and labels become one atom. *)
MergeAtoms(atoms) ==
  LET same(k) == {a \in atoms : Key(a) = k}
      union(k, Field(_)) == UNION {Field(a) : a \in same(k)}
  IN {[topic |-> k[1], label |-> k[2],
       moves |-> union(k, LAMBDA a : a.moves),
       forms |-> union(k, LAMBDA a : a.forms),
       items |-> union(k, LAMBDA a : a.items),
       batches |-> union(k, LAMBDA a : a.batches),
       versions |-> union(k, LAMBDA a : a.versions),
       hashes |-> union(k, LAMBDA a : a.hashes)] :
        k \in {Key(a) : a \in atoms}}

(* The batch_hashes of a merged source record. *)
HashesOf(t, x) == {t[s].manifest.declared : s \in {q \in Found(t) : x \in Range(t[q].items)}}

(* _build_item_card_record and _build_atoms: what atoms.json lists. *)
DistilledAtoms(t) ==
  MergeAtoms(UNION {AtomsOf(m.text, m.batches, m.versions, HashesOf(t, m.text)) :
                      m \in Distilled(Loaded(t))})

(* _build_atoms_from_occurrences: what the coverage report is about. *)
CoverageAtoms(t) ==
  MergeAtoms(UNION {AtomsOf(r.text, {}, {}, {}) : r \in Counted(SoundOccurrences(t))})

(* _atoms_for_batch_ref, by id and by id@version, and _atoms_for_loaded_batches, *)
(* which takes any of id, version and hash for a match.                          *)
AtomsOfBatchId(atoms, id) == {a \in atoms : id \in a.batches}
AtomsOfBatchVersion(atoms, id, version) ==
  {a \in atoms : id \in a.batches /\ version \in a.versions}
AtomsOfPath(atoms, t, S) ==
  {a \in atoms : \E s \in S : \/ t[s].manifest.id \in a.batches
                              \/ t[s].manifest.version \in a.versions
                              \/ t[s].manifest.declared \in a.hashes}

-----------------------------------------------------------------------------
(* Authoring. *)

Manifest(id, version, created, zoned, declared) ==
  [id |-> id, version |-> version, created |-> created, zoned |-> zoned,
   declared |-> declared, fits |-> TRUE]

NoBatch == [jsonl |-> FALSE, items |-> Absent, manifest |-> Absent]

(* A tree of batches some of which were written by hand, and the output *)
(* directory empty or as an earlier run left it.                        *)
Init ==
  /\ tree \in [Slots -> {NoBatch} \cup UNION Range(HandWritten)]
  /\ \A s \in Slots : tree[s] \in {NoBatch} \cup HandWritten[s]
  /\ \/ outputs = [f \in Range(Outputs) |-> Absent] /\ manifest = Absent
     \/ /\ outputs = [f \in Range(Outputs) |-> 0]
        /\ manifest = [run |-> 0, hashes |-> outputs]
  /\ pending = Absent /\ written = <<>> /\ edits = 0 /\ runs = 0

(* initialize_batch: refused over existing files unless told to overwrite. *)
InitializeBatch(s) ==
  /\ Idle /\ edits < MaxEdits
  /\ \E overwrite \in BOOLEAN, template \in Templates, id \in BatchIds, v \in Versions :
       /\ overwrite \/ (tree[s].items = Absent /\ tree[s].manifest = Absent)
       /\ tree[s].manifest \notin {Absent, Torn} => id = tree[s].manifest.id
       /\ pending' = [slot |-> s, next |-> "items",
                      manifest |-> Manifest(id, v, Now, TRUE, template)]
  /\ edits' = edits + 1
  /\ UNCHANGED <<tree, outputs, manifest, written, runs>>

(* A batch is initialized with an items file in JSON; a hand-written one in *)
(* JSON lines stays where it is, and is what its manifest refers to.        *)
WriteItems(items) ==
  tree' = IF tree[pending.slot].jsonl THEN tree
          ELSE [tree EXCEPT ![pending.slot].items = items]

WriteItemsFile ==
  /\ pending # Absent /\ pending.next = "items"
  /\ WriteItems(pending.manifest.declared)
  /\ pending' = [pending EXCEPT !.next = "manifest"]
  /\ UNCHANGED <<outputs, manifest, written, edits, runs>>

WriteManifestFile ==
  /\ pending # Absent /\ pending.next = "manifest"
  /\ tree' = [tree EXCEPT ![pending.slot] =
                [jsonl |-> FALSE, items |-> pending.manifest.declared,
                 manifest |-> pending.manifest]]
  /\ pending' = Absent
  /\ UNCHANGED <<outputs, manifest, written, edits, runs>>

(* An author edits the items, and may correct the manifest's count and hash; *)
(* or edits the manifest so that it no longer fits its schema.               *)
AuthorEdits(s) ==
  /\ Idle /\ edits < MaxEdits
  /\ \/ /\ tree[s].items # Absent
        /\ \E l \in Lists :
             \/ tree' = [tree EXCEPT ![s].items = l]
             \/ /\ tree[s].manifest \notin {Absent, Torn}
                /\ tree' = [tree EXCEPT ![s] =
                              [@ EXCEPT !.items = l, !.manifest.declared = l]]
     \/ /\ tree[s].manifest \notin {Absent, Torn}
        /\ tree' = [tree EXCEPT ![s].manifest.fits = FALSE]
  /\ edits' = edits + 1
  /\ UNCHANGED <<pending, outputs, manifest, written, runs>>

-----------------------------------------------------------------------------
(* Distillation. *)

(* load_curated_batches and load_curated_items: an items file in JSON lines *)
(* must not be empty.                                                       *)
LoadFails(t) ==
  \/ Found(t) = {}
  \/ \E s \in Found(t) : \/ ~Readable(t, s)
                         \/ ~t[s].manifest.fits
                         \/ Malformed(t, s)
                         \/ t[s].jsonl /\ t[s].items = <<>>

(* _latest_batch_created_at raises: one content is in two dated batches, and *)
(* only one of the dates has a time zone (max compares them).                *)
DatesClash(t) ==
  \E r, s \in Found(t) :
    /\ Range(t[r].items) \cap Range(t[s].items) # {}
    /\ t[r].manifest.created # 0 /\ t[s].manifest.created # 0
    /\ t[r].manifest.zoned # t[s].manifest.zoned

(* The records of the tree are loaded and come to _dedupe_source_records,   *)
(* which gives a result.                                                    *)
Dedupes(t) == ~LoadFails(t) /\ ~DatesClash(t)

(* run_batches raises: nothing can be loaded, the validation report is not  *)
(* clean, there is no record, two dates cannot be compared, or the graph of *)
(* a retained record is not built.                                          *)
RunRaises(t) ==
  \/ ~Dedupes(t)
  \/ \E s \in Found(t) : ~TruthfulManifest(t, s)
  \/ Loaded(t) = {}
  \/ \E m \in Distilled(Loaded(t)) : ~Content[m.text].builds

(* Mutant of WriteOrder: the manifest before what it lists. *)
ManifestFirst == <<"manifest">> \o Outputs

(* _run_records writes the generated files and then the manifest. *)
WriteOrder == Append(Outputs, "manifest")

(* run_batches up to the first write; a run that raises changes no file. *)
RunBatches ==
  /\ Idle /\ runs < MaxRuns
  /\ ~RunRaises(tree)
  /\ runs' = runs + 1
  /\ written' = WriteOrder
  /\ UNCHANGED <<tree, pending, outputs, manifest, edits>>

(* One file; the manifest lists the hashes read back from the files. *)
WriteOutput ==
  /\ written # <<>>
  /\ IF Head(written) = "manifest"
     THEN /\ manifest' = [run |-> runs, hashes |-> outputs]
          /\ UNCHANGED outputs
     ELSE /\ outputs' = [outputs EXCEPT ![Head(written)] = runs]
          /\ UNCHANGED manifest
  /\ written' = Tail(written)
  /\ UNCHANGED <<tree, pending, edits, runs>>

(* The command dies, before a write or in the middle of it. *)
CrashAuthoring ==
  /\ pending # Absent
  /\ \/ UNCHANGED tree
     \/ pending.next = "items" /\ WriteItems(Torn)
     \/ /\ pending.next = "manifest"
        /\ tree' = [tree EXCEPT ![pending.slot].manifest = Torn]
  /\ pending' = Absent
  /\ UNCHANGED <<outputs, manifest, written, edits, runs>>

CrashDistilling ==
  /\ written # <<>>
  /\ \/ UNCHANGED <<outputs, manifest>>
     \/ Head(written) = "manifest" /\ manifest' = Torn /\ UNCHANGED outputs
     \/ /\ Head(written) # "manifest"
        /\ outputs' = [outputs EXCEPT ![Head(written)] = Torn]
        /\ UNCHANGED manifest
  /\ written' = <<>>
  /\ UNCHANGED <<tree, pending, edits, runs>>

Next ==
  \/ \E s \in Slots : InitializeBatch(s) \/ AuthorEdits(s)
  \/ WriteItemsFile \/ WriteManifestFile \/ CrashAuthoring
  \/ RunBatches \/ WriteOutput \/ CrashDistilling

Spec == Init /\ [][Next]_vars

-----------------------------------------------------------------------------
(* Properties. *)

(* What validation lets pass is distilled (docs/curation_workflow.md:       *)
(* "Validation is intended to fail early before `distill run-batches`"), but *)
(* for three kinds of trees, which the workbench finds no error in and      *)
(* run_batches always refuses: no batch has an item; a batch in JSON lines  *)
(* is empty, although the warning is "distillation will skip it"; and two   *)
(* batches have a content in common and dates that max cannot compare       *)
(* (validate_batches, run_batches).                                         *)
RefusalsOfValidTrees ==
  WorkbenchValid(tree) =>
    (RunRaises(tree) <=>
       \/ \A s \in Found(tree) : tree[s].items = <<>>
       \/ \E s \in Found(tree) : tree[s].jsonl /\ tree[s].items = <<>>
       \/ DatesClash(tree))

(* Coverage does not depend on how the batch files are named: the same      *)
(* batches at other paths count the same texts of the same batches          *)
(* (_retain_latest_occurrences).                                            *)
Unplaced(records) == {[r EXCEPT !.at = <<>>] : r \in records}

CoverageIgnoresOrder ==
  LET counted == Unplaced(Counted(SoundOccurrences(tree)))
  IN \A p \in Bijection(Slots, Slots) :
       Unplaced(Counted(SoundOccurrences([s \in Slots |-> tree[p[s]]]))) = counted

(* A text whose batch is dated after all other texts of the item is the one *)
(* kept, wherever it is read and whatever older batches it is in too: by    *)
(* distillation, and if it is sound by the coverage report                  *)
(* (_source_record_rank, _merge_source_record_group, _occurrence_rank).     *)
NewestIsKept ==
  LET loaded == Loaded(tree)
      retained == {m.text : m \in Distilled(loaded)}
      counted == {r.text : r \in Counted(SoundOccurrences(tree))}
      newest(x) == Max({r.created : r \in {q \in loaded : q.text = x}})
      kept(x) == \A y \in TextsOf(loaded, Content[x].item) \ {x} : newest(y) < newest(x)
  IN Dedupes(tree) =>
       \A x \in {r.text : r \in loaded} : kept(x) =>
         x \in retained /\ (SoundText(x) => x \in counted)

(* The statistics in the manifest account for every record of the tree: it *)
(* is retained, an exact duplicate or superseded (_dedupe_source_records). *)
EveryRecordIsCounted ==
  Dedupes(tree) =>
    LET stats == DedupStats(Loaded(tree))
    IN stats.input = stats.output + stats.exact + stats.superseded

(* What the coverage report says of an atom is what generation does with    *)
(* it: a supported atom selects its family, nobody can ask for another, and *)
(* the blueprint the family builds leads back to it; any other atom is      *)
(* refused.  And of a valid tree the report is about the very atoms that    *)
(* are distilled (coverage_report, select_for_atom, resolve_for_blueprint). *)
Bare(atom) == [atom EXCEPT !.batches = {}, !.versions = {}, !.hashes = {}]

ReportedSupportHolds ==
  LET atoms == CoverageAtoms(tree)
      report == CoverageReport(atoms)
  IN /\ \A p \in report.mappings :
          /\ SelectForAtom(p[1]) = p[2]
          /\ \A f \in Families \ {p[2]} : SelectRequested(p[1], f) = Refused
          /\ ResolveForBlueprint(BuildBlueprint(p[2])) = p[2]
     /\ \A a \in report.ambiguous \cup report.unmatched : SelectForAtom(a) = Refused
     /\ WorkbenchValid(tree) /\ ~RunRaises(tree) =>
          {Bare(a) : a \in DistilledAtoms(tree)} = atoms

(* The atoms of a retained text are found by each batch it occurs in, by    *)
(* its id, its id and version, or its path; and an id finds only atoms with *)
(* a retained text in a batch of that id (resolve_atoms).                   *)
RefsFindTheirAtoms ==
  Dedupes(tree) =>
    LET atoms == DistilledAtoms(tree)
        kept == {m.text : m \in Distilled(Loaded(tree))}
        from(s) == {a \in atoms : \E x \in kept \cap Range(tree[s].items) :
                      \E b \in AtomsOf(x, {}, {}, {}) : Key(a) = Key(b)}
    IN \A s \in Found(tree) :
         LET m == tree[s].manifest
         IN /\ from(s) \subseteq AtomsOfBatchVersion(atoms, m.id, m.version)
            /\ from(s) \subseteq AtomsOfPath(atoms, tree, {s})
            /\ AtomsOfBatchId(atoms, m.id) =
                 UNION {from(r) : r \in {q \in Found(tree) : tree[q].manifest.id = m.id}}

(* When every generated file has the hash the manifest lists, they are all  *)
(* of the run that wrote the manifest, whatever crash came before           *)
(* (_run_records, generated_files).                                         *)
ManifestVouches ==
  manifest \notin {Absent, Torn} /\ outputs = manifest.hashes =>
    \A f \in DOMAIN outputs : outputs[f] = manifest.run

(* docs/curation_workflow.md: "Coverage counts are computed from the         *)
(* retained latest version of each `source_item_id`".                       *)
CoverageCountsTheRetained ==
  Dedupes(tree) =>
    \A r \in Counted(SoundOccurrences(tree)) :
      (\A x \in TextsOf(Loaded(tree), r.item) : SoundText(x))
        => \E m \in Distilled(Loaded(tree)) : m.item = r.item /\ m.text = r.text
=============================================================================
