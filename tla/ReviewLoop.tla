----------------------------- MODULE ReviewLoop -----------------------------
(***************************************************************************)
(* A candidate pool, the generated exam selected from it, and the human    *)
(* verdicts that flow back: src/assembly/candidate_pool.py (build),        *)
(* src/pipeline/generated_exam.py with src/assembly/mini_alpha.py (run),   *)
(* src/eval/review_ops.py and review_feedback.py (the two imports).        *)
(*                                                                         *)
(* The verdicts are kept in two label logs, one per directory, and are     *)
(* copied into many JSON files.  A command reads what it needs, and        *)
(* rewrites the files one after another, each one whole.  One command runs *)
(* at a time, so what it will write is settled when it starts: a command   *)
(* is a plan, the list of its writes, carried out write by write.  A crash *)
(* between two writes leaves the rest of the plan undone, and a crash      *)
(* inside one leaves an empty file.                                        *)
(*                                                                         *)
(* A summary is the verdict of the latest review, "none" without reviews;  *)
(* a label carries a mark that stands for everything else in it (reviewer, *)
(* time, scores, notes).  Similarity and slot profiles, which decide among *)
(* clean candidates, are left to a choice.                                 *)
(***************************************************************************)
EXTENDS Integers, Sequences, FiniteSets, SequencesExt

CONSTANTS
  NumCands,    (* candidates of the pool, numbered as the build numbers them *)
  Approved,    (* those whose item is approved and passed validation         *)
  Verdicts,    (* what a reviewer may decide                                 *)
  Marks,       (* what distinguishes two labels with one verdict             *)
  SlotCount,   (* slots of the exam                                          *)
  MaxBuilds, MaxImports, MaxExams, MaxCrashes     (* bounds on the commands  *)

ASSUME PoolAssumption == NumCands \in Nat \ {0} /\ Approved \subseteq 1..NumCands
ASSUME VerdictsAssumption == Verdicts \subseteq {"accept", "revise", "reject"}
ASSUME SlotAssumption == SlotCount \in Nat \ {0}
ASSUME BoundsAssumption ==
  {MaxBuilds, MaxImports, MaxExams, MaxCrashes} \subseteq Nat

VARIABLES
  files,     (* what is on disk                                              *)
  ready,     (* candidates whose gauntlet run is over                        *)
  cmd,       (* the running command                                          *)
  todo,      (* the writes it has still to do                                *)
  settled,   (* directories whose last command was an import that completed  *)
  used       (* how many commands and crashes there have been                *)

vars == <<files, ready, cmd, todo, settled, used>>

-----------------------------------------------------------------------------
(* Files. *)

Cands == 1..NumCands
Summary == Verdicts \cup {"none"}
Label == [cand : Cands, verdict : Verdicts \cup {"pending"}, mark : Marks]

Bundle(c)     == <<"candidate_bundle", c>>
PoolLabels    == <<"pool_review_labels", 0>>
PoolManifest  == <<"candidate_pool_manifest", 0>>
PoolAlpha     == <<"mini_alpha_candidate_manifest", 0>>
PoolReport    == <<"pool_review_feedback_report", 0>>
ExamLabels    == <<"review_labels", 0>>
ExamManifest  == <<"candidate_manifest", 0>>
Template      == <<"human_review_template", 0>>
Outcomes      == <<"candidate_outcomes", 0>>
DiscardRate   == <<"discard_rate_report", 0>>
Discard       == <<"discard_report", 0>>
Regenerate    == <<"regenerate_candidates", 0>>
AlphaBundle   == <<"mini_alpha_bundle", 0>>
ExamBundle    == <<"exam_bundle", 0>>
ExamReport    == <<"review_feedback_report", 0>>
Result        == <<"mini_alpha_manifest", 0>>

Logs == {PoolLabels, ExamLabels}
Names == {Bundle(c) : c \in Cands} \cup Logs
           \cup {PoolManifest, PoolAlpha, PoolReport, ExamManifest, Template,
                 Outcomes, DiscardRate, Discard, Regenerate, AlphaBundle,
                 ExamBundle, ExamReport, Result}

Absent == [is |-> "absent"]
Torn == [is |-> "torn"]                (* cut off: reading it raises *)
Whole(x) == [is |-> "whole", holds |-> x]

IsWhole(f) == files[f].is = "whole"
Exists(f) == files[f].is # "absent"
Held(f) == files[f].holds

(* An empty JSON Lines file is as good as none: no labels. *)
Log(f) == IF IsWhole(f) THEN Held(f) ELSE <<>>

(* A plan: writes in order; ok is FALSE when the command raises after them. *)
Nothing == [writes |-> <<>>, ok |-> TRUE]
Raise == [writes |-> <<>>, ok |-> FALSE]
Write(f, x) == [writes |-> << <<f, Whole(x)>> >>, ok |-> TRUE]
p \bullet q == IF p.ok THEN [writes |-> p.writes \o q.writes, ok |-> q.ok] ELSE p

-----------------------------------------------------------------------------
(* Verdicts: review_feedback.py, discard_rate.py and mini_alpha.py. *)

(* A set of numbers as a sequence, and what a sequence has at such numbers. *)
InOrder(S) ==
  CHOOSE order \in [1..Cardinality(S) -> S] :
    \A i, j \in DOMAIN order : i < j => order[i] < order[j]

Kept(s, S) == LET order == InOrder(S) IN [k \in DOMAIN order |-> s[order[k]]]

(* dedupe_human_review_records: of equal records the first one stays. *)
Dedupe(records) ==
  Kept(records, {i \in DOMAIN records : \A j \in 1..i - 1 : records[j] # records[i]})

(* What an import adds: the labels that are not pending. *)
Actionable(labels) == Kept(labels, {i \in DOMAIN labels : labels[i].verdict # "pending"})

(* Mutant of Merge: new labels go first. *)
MergeInFront(existing, incoming) ==
  Dedupe(Actionable(incoming) \o existing)

(* merge_human_review_records. *)
Merge(existing, incoming) == Dedupe(existing \o Actionable(incoming))

(* build_candidate_review_summaries: the last review of a candidate counts. *)
Latest(log, c) ==
  LET reviews == Kept(log, {i \in DOMAIN log : log[i].cand = c})
  IN IF reviews = <<>> THEN "none" ELSE Last(reviews).verdict

(* Mutant of Eligible: the reviews are not looked at. *)
EligibleUnreviewed(listing) == DOMAIN listing \cap Approved

(* _candidate_is_eligible, over the candidates of a listing. *)
Eligible(listing) ==
  {c \in DOMAIN listing : c \in Approved /\ listing[c] # "reject"}

(* build_review_feedback_report: how many candidates have which verdict. *)
Tally(verdicts) ==
  [v \in Summary |-> Cardinality({c \in DOMAIN verdicts : verdicts[c] = v})]

(* build_discard_rate_report: reviews of what the outcomes call selected. *)
DiscardReport(outcomes, reviews) ==
  LET counted == [c \in outcomes.selected \cap DOMAIN reviews |-> reviews[c]]
  IN [selected |-> Cardinality(outcomes.selected),
      discarded |-> Cardinality(outcomes.discarded),
      reviewed |-> [v \in Verdicts |-> Tally(counted)[v]]]

(* build_regenerate_candidates. *)
ToRegenerate(reviews) == {c \in DOMAIN reviews : reviews[c] \in {"revise", "reject"}}

-----------------------------------------------------------------------------
(* The pool: its build and its import. *)

WriteBundles(listing) ==
  LET order == InOrder(DOMAIN listing)
  IN [writes |-> [i \in DOMAIN order |-> <<Bundle(order[i]), Whole(listing[order[i]])>>],
      ok |-> TRUE]

(* load_candidate_pool_bundles and load_candidate_pool: the manifest if     *)
(* there is one, else the bundles found.                                    *)
PoolLoads ==
  IF Exists(PoolManifest) THEN IsWhole(PoolManifest)
  ELSE \A c \in Cands : files[Bundle(c)] # Torn

Listing ==
  IF Exists(PoolManifest) THEN Held(PoolManifest).candidates
  ELSE [c \in {d \in Cands : Exists(Bundle(d))} |-> Held(Bundle(c))]

PoolManifestOf(listing) ==
  [candidates |-> listing, eligible |-> Cardinality(Eligible(listing))]

(* CandidatePoolBuilder.build: one gauntlet run per candidate; ends[c] says *)
(* how it ends, "missing" without the artifacts of a validation.            *)
Reached(ends) == {c \in Cands : \A d \in 1..c : ends[d] # "missing"}
Built(ends) == {c \in Reached(ends) : ends[c] = "over"}

(* Mutant of BuildPlan: the pool's manifest before the one it points to. *)
BuildManifestFirst(ends) ==
  LET fresh == [c \in Built(ends) |-> "none"]
  IN WriteBundles(fresh)
       \bullet (IF Reached(ends) # Cands THEN Raise
                ELSE IF Built(ends) # Cands THEN Nothing
                ELSE IF Cardinality(Eligible(fresh)) < SlotCount THEN Raise
                ELSE Write(PoolManifest, PoolManifestOf(fresh))
                       \bullet Write(PoolAlpha, fresh))

BuildPlan(ends) ==
  LET fresh == [c \in Built(ends) |-> "none"]
      conclude == IF Reached(ends) # Cands THEN Raise
                  ELSE IF Built(ends) # Cands THEN Nothing
                  ELSE IF Cardinality(Eligible(fresh)) < SlotCount THEN Raise
                  ELSE Write(PoolAlpha, fresh)
                         \bullet Write(PoolManifest, PoolManifestOf(fresh))
  IN WriteBundles(fresh) \bullet conclude

(* Mutant of PoolSyncPlan: the candidates' verdicts are taken from the      *)
(* labels just imported, not from the merged log.                           *)
SyncIncomingOnly(incoming) ==
  LET updated == [c \in DOMAIN Listing |-> Latest(Merge(<<>>, incoming), c)]
  IN IF ~PoolLoads THEN Raise
     ELSE Write(PoolLabels, Merge(Log(PoolLabels), incoming))
            \bullet WriteBundles(updated)
            \bullet (IF Exists(PoolManifest)
                     THEN Write(PoolManifest, PoolManifestOf(updated))
                            \bullet Write(PoolAlpha, updated)
                     ELSE Nothing)
            \bullet Write(PoolReport, Tally(updated))

(* sync_candidate_pool_reviews. *)
PoolSyncPlan(incoming) ==
  LET log == Merge(Log(PoolLabels), incoming)
      updated == [c \in DOMAIN Listing |-> Latest(log, c)]
      manifests ==
        IF ~Exists(PoolManifest) THEN Nothing
        ELSE Write(PoolManifest, PoolManifestOf(updated))
               \bullet (IF IsWhole(PoolAlpha)
                        THEN Write(PoolAlpha, [c \in DOMAIN Held(PoolAlpha) |-> Latest(log, c)])
                        ELSE Raise)
  IN IF ~PoolLoads THEN Raise
     ELSE Write(PoolLabels, log) \bullet WriteBundles(updated) \bullet manifests
            \bullet Write(PoolReport, Tally(updated))

-----------------------------------------------------------------------------
(* The exam: its run and its import. *)

(* GeneratedExamPipeline.run and MiniAlphaAssembler.assemble: select chosen *)
(* from the clean candidates, or find no assignment ({}); reviews are the   *)
(* verdicts the operator passed along.                                      *)
ExamPlan(chosen, reviews) ==
  LET outcomes == [selected |-> chosen,
                   discarded |-> DOMAIN Listing \ Eligible(Listing)]
      report == DiscardReport(outcomes, reviews)
  IN IF ~PoolLoads \/ Cardinality(Eligible(Listing)) < SlotCount THEN Raise
     ELSE Write(ExamManifest, Listing)
            \bullet (IF chosen = {} THEN Raise ELSE Nothing)
            \bullet Write(Template, reviews)
            \bullet Write(DiscardRate, report)
            \bullet Write(Outcomes, outcomes)
            \bullet Write(Regenerate, ToRegenerate(reviews))
            \bullet Write(AlphaBundle, chosen)
            \bullet Write(Result, [selected |-> chosen, discard |-> report])
            \bullet Write(ExamBundle, chosen)
            \bullet Write(Discard, report)

Selections ==
  IF ~PoolLoads THEN {{}}
  ELSE {{}} \cup {S \in SUBSET Eligible(Listing) : Cardinality(S) = SlotCount}

(* The second half of sync_generated_exam_reviews: what the exam's files    *)
(* say once the verdict on each candidate is known.                         *)
ExamRefreshPlan(summary) ==
  LET listed == DOMAIN Held(ExamManifest)
      reviews == [c \in Held(Result).selected |-> summary[c]]
      report == DiscardReport(Held(Outcomes), reviews)
      reported == [c \in listed |-> IF c \in DOMAIN reviews THEN reviews[c] ELSE "none"]
      reports == Write(Discard, report)
                   \bullet Write(DiscardRate, report)
                   \bullet Write(Regenerate, ToRegenerate(reviews))
                   \bullet Write(ExamReport, Tally(reported))
                   \bullet Write(Result, [Held(Result) EXCEPT !.discard = report])
  IN Write(ExamManifest, [c \in listed |-> summary[c]])
       \bullet Write(Template, reviews)
       \bullet (IF IsWhole(Outcomes) THEN reports ELSE Raise)

(* Mutant of ExamSyncPlan: the pool is told of the new labels only. *)
SyncPoolIncoming(incoming) ==
  LET log == Merge(Log(ExamLabels), incoming)
      pool == Merge(Log(PoolLabels), incoming)
      summary == [c \in Cands |-> IF Latest(pool, c) # "none" THEN Latest(pool, c)
                                  ELSE Latest(log, c)]
  IN IF ~IsWhole(ExamManifest) \/ ~IsWhole(Result) THEN Raise
     ELSE Write(ExamLabels, log)
            \bullet (IF Exists(PoolManifest) THEN PoolSyncPlan(incoming) ELSE Nothing)
            \bullet ExamRefreshPlan(summary)

(* sync_generated_exam_reviews: the pool is told first, and what it then    *)
(* says of a candidate comes before what the exam's own labels say.         *)
ExamSyncPlan(incoming) ==
  LET log == Merge(Log(ExamLabels), incoming)
      listed == DOMAIN Held(ExamManifest)
      forPool == Kept(log, {i \in DOMAIN log : log[i].cand \in listed})
      bundle == [c \in listed |-> IF Exists(PoolManifest)
                                  THEN Latest(Merge(Log(PoolLabels), forPool), c)
                                  ELSE Held(Bundle(c))]
      summary == [c \in Cands |-> IF c \in listed /\ bundle[c] # "none"
                                  THEN bundle[c] ELSE Latest(log, c)]
      readable == Exists(PoolManifest) \/ \A c \in listed : IsWhole(Bundle(c))
  IN IF ~IsWhole(ExamManifest) \/ ~IsWhole(Result) THEN Raise
     ELSE Write(ExamLabels, log)
            \bullet (IF Exists(PoolManifest) THEN PoolSyncPlan(forPool) ELSE Nothing)
            \bullet (IF readable THEN ExamRefreshPlan(summary) ELSE Raise)

-----------------------------------------------------------------------------
(* Commands. *)

NoCmd == [name |-> "none", incoming |-> <<>>, ok |-> TRUE]
Idle == cmd = NoCmd

Begin(name, incoming, plan) ==
  /\ Idle
  /\ cmd' = [name |-> name, incoming |-> incoming, ok |-> plan.ok]
  /\ todo' = plan.writes
  /\ UNCHANGED files

Use(what, max) == used[what] < max /\ used' = [used EXCEPT ![what] = @ + 1]

Build ==
  \E ends \in [Cands -> {"over", "waiting", "missing"}] :
    /\ \A c \in ready : ends[c] = "over"
    /\ Begin("build", <<>>, BuildPlan(ends))
    /\ ready' = ready \cup Built(ends)
    /\ settled' = {}
    /\ Use("build", MaxBuilds)

ImportPool ==
  \E label \in Label :
    /\ \E c \in Cands : Exists(Bundle(c))
    /\ Begin("import_pool", <<label>>, PoolSyncPlan(<<label>>))
    /\ settled' = {}
    /\ Use("import", MaxImports)
    /\ UNCHANGED ready

RunExam ==
  \E chosen \in Selections :
    \E reviews \in [chosen -> Summary] :
      /\ \E c \in Cands : Exists(Bundle(c))
      /\ Begin("run_exam", <<>>, ExamPlan(chosen, reviews))
      /\ settled' = settled \ {"exam"}
      /\ Use("exam", MaxExams)
      /\ UNCHANGED ready

ImportExam ==
  \E label \in Label :
    /\ Exists(ExamManifest)
    /\ Begin("import_exam", <<label>>, ExamSyncPlan(<<label>>))
    /\ settled' = {}
    /\ Use("import", MaxImports)
    /\ UNCHANGED ready

(* The next write of the running command. *)
WriteNext ==
  /\ todo # <<>>
  /\ files' = [files EXCEPT ![Head(todo)[1]] = Head(todo)[2]]
  /\ todo' = Tail(todo)
  /\ UNCHANGED <<ready, cmd, settled, used>>

(* The command returns, or raises. *)
Finish ==
  /\ ~Idle
  /\ todo = <<>>
  /\ settled' = CASE cmd.ok /\ cmd.name = "import_pool" -> {"pool"}
                  [] cmd.ok /\ cmd.name = "import_exam" ->
                       {"exam"} \cup IF Exists(PoolManifest) THEN {"pool"} ELSE {}
                  [] OTHER -> settled
  /\ cmd' = NoCmd
  /\ UNCHANGED <<files, ready, todo, used>>

(* The process dies, between two writes or in the middle of one: write_text *)
(* empties the file before it writes.                                       *)
Crash ==
  /\ todo # <<>>
  /\ LET f == Head(todo)[1]
         emptied == IF f \in Logs THEN Whole(<<>>) ELSE Torn
     IN files' \in {files, [files EXCEPT ![f] = emptied]}
  /\ cmd' = NoCmd
  /\ todo' = <<>>
  /\ Use("crash", MaxCrashes)
  /\ UNCHANGED <<ready, settled>>

Init ==
  /\ files = [f \in Names |-> Absent]
  /\ ready = {}
  /\ cmd = NoCmd
  /\ todo = <<>>
  /\ settled = {}
  /\ used = [build |-> 0, import |-> 0, exam |-> 0, crash |-> 0]

Next ==
  \/ Build
  \/ ImportPool
  \/ RunExam
  \/ ImportExam
  \/ WriteNext
  \/ Finish
  \/ Crash

Spec == Init /\ [][Next]_vars

-----------------------------------------------------------------------------
(* Properties. *)

(* Every copy of a verdict in the pool (each bundle, both manifests and the *)
(* eligible count, the report) is the one the label log gives.              *)
PoolCopies ==
  LET log == Log(PoolLabels)
      truth == [c \in DOMAIN Listing |-> Latest(log, c)]
  IN /\ \A c \in DOMAIN truth : files[Bundle(c)] = Whole(truth[c])
     /\ files[PoolReport] = Whole(Tally(truth))
     /\ Exists(PoolManifest) =>
          /\ files[PoolManifest] = Whole(PoolManifestOf(truth))
          /\ files[PoolAlpha] = Whole(truth)

(* The three copies of the exam's discard report, the list of candidates to *)
(* regenerate and the candidate manifest all tell of the verdicts in the    *)
(* review template, which has one line per selected candidate.              *)
ExamCopies ==
  LET reviews == Held(Template)
      report == DiscardReport(Held(Outcomes), reviews)
  IN /\ DOMAIN reviews = Held(Result).selected
     /\ \A f \in {Discard, DiscardRate} : files[f] = Whole(report)
     /\ Held(Result).discard = report
     /\ Held(Regenerate) = ToRegenerate(reviews)
     /\ \A c \in DOMAIN reviews \cap DOMAIN Held(ExamManifest) :
          reviews[c] = Held(ExamManifest)[c]

(* Once an import has completed, all copies of a verdict agree in the pool  *)
(* (sync_candidate_pool_reviews) and in the exam                            *)
(* (sync_generated_exam_reviews), whatever was interrupted before it.       *)
CopiesAgree ==
  /\ "pool" \in settled => PoolCopies
  /\ "exam" \in settled => ExamCopies

(* The pool has every label the exam has on a listed candidate, and its     *)
(* verdict on each is the exam's.                                           *)
VerdictsShared ==
  LET exam == Held(ExamManifest)
  IN /\ \A r \in Range(Log(ExamLabels)) :
          r.cand \in DOMAIN exam => Contains(Log(PoolLabels), r)
     /\ \A c \in DOMAIN exam : files[Bundle(c)] = Whole(exam[c])

(* After a completed exam import the pool's log holds every label of the    *)
(* exam's log, and the exam's manifest shows the pool's verdict on each     *)
(* candidate: the two directories never disagree.                           *)
ExamVerdictsReachPool ==
  {"pool", "exam"} \subseteq settled /\ Exists(PoolManifest) => VerdictsShared

(* What the exam takes is approved, and the pool's labels do not reject it. *)
CleanSelection ==
  \A c \in Held(Result).selected :
    c \in Approved /\ Latest(Log(PoolLabels), c) # "reject"

(* A pool whose last import completed is safe to select from: no exam run   *)
(* on it takes a candidate whose latest label in the pool is a rejection.   *)
NoRejectedInExam ==
  "pool" \in settled /\ cmd.name = "run_exam" /\ todo = <<>> /\ cmd.ok => CleanSelection

(* The pool's manifest is written last: where it is, there is a bundle for  *)
(* every candidate and the manifest it points to, and no candidate is       *)
(* still waiting for its gauntlet run (CandidatePoolBuilder.build).         *)
ManifestIsLast ==
  Exists(PoolManifest) =>
    /\ ready = Cands
    /\ Exists(PoolAlpha)
    /\ \A c \in Cands : Exists(Bundle(c))

(* Verdicts are history: a label log is only appended to, except by a crash *)
(* that hits the very moment it is rewritten, which loses it whole.         *)
HistoryGrows ==
  [][\A f \in Logs :
       \/ IsPrefix(Log(f), Log(f)')
       \/ todo # <<>> /\ Head(todo)[1] = f /\ todo' = <<>> /\ cmd' = NoCmd
            /\ Log(f)' = <<>>]_vars

(* candidate_blocked_from_selection: "Return whether the latest review      *)
(* blocks the candidate from selection."  When the review just imported is  *)
(* a rejection, its candidate is blocked.                                   *)
LatestReviewBlocks ==
  cmd.name = "import_pool" /\ todo = <<>> /\ cmd.ok =>
    LET review == Last(cmd.incoming)
    IN review.verdict = "reject" /\ Exists(Bundle(review.cand)) =>
         files[Bundle(review.cand)] = Whole("reject")
=============================================================================
