--------------------------- MODULE BenchmarkRunner ---------------------------
(***************************************************************************)
(* src/eval/benchmark_runner.py: a benchmark runs every case of a dataset, *)
(* retries a failed case under another run_id, compares the runs that      *)
(* succeeded and writes benchmark_report.json with a release gate          *)
(* (scorecard.py).  run_ids are made of the case and the try only, so a    *)
(* later benchmark in the same directory resumes the runs of an earlier    *)
(* one, finished or not, and takes rollback targets from its report.       *)
(*                                                                         *)
(* A generation run (modelled in full by Orchestrator) is reduced to what  *)
(* a benchmark can tell of it: the prompts of one stage for the items      *)
(* 1..K, each answered in turn through OpenAIProvider, local validation,   *)
(* and the assembly records.                                               *)
(***************************************************************************)
EXTENDS Integers, Sequences, FiniteSets

CONSTANTS
  Cases,            (* dataset.cases, a sequence of records                 *)
  K,                (* prompts a run needs                                  *)
  MaxRetries,       (* retries of the provider inside one call              *)
  MaxBenchmarks,    (* bound: calls of run_dataset                          *)
  MaxDisturbances   (* bound: crashes, faults, odd answers, template edits  *)

ASSUME CasesAssumption ==
  /\ Len(Cases) \in Nat \ {0} /\ DOMAIN Cases = 1..Len(Cases)
  /\ \A i \in DOMAIN Cases :
       /\ Cases[i].mode \in {"api", "manual"}
       /\ Cases[i].tries \in Nat \ {0}
       /\ Cases[i].rollback \in BOOLEAN
       /\ Cases[i].compile \in BOOLEAN
ASSUME KAssumption == K \in Nat \ {0}
ASSUME MaxRetriesAssumption == MaxRetries \in Nat
ASSUME BoundsAssumption == MaxBenchmarks \in Nat /\ MaxDisturbances \in Nat

VARIABLES
  runs,          (* orchestrator_state.json and the artifacts of each run   *)
  report,        (* benchmark_report.json                                   *)
  pc,            (* where run_dataset is                                    *)
  at,            (* the case and the try in progress                        *)
  previous,      (* previous_attempts                                       *)
  attempts,      (* the attempts listed so far, one per finished case       *)
  responses,     (* len(manual_responses) of the try in progress            *)
  template,      (* version of the prompt template on disk                  *)
  call,          (* the provider call in progress                           *)
  requests,      (* requests sent for each run, ever                        *)
  lost,          (* calls of each run that died with their process          *)
  benchmarks, disturbances    (* how much of the bounds is used up          *)

vars == <<runs, report, pc, at, previous, attempts, responses, template, call,
          requests, lost, benchmarks, disturbances>>

Provider == INSTANCE OpenAIProvider

-----------------------------------------------------------------------------
(* Runs.  run_id is case.run_id_prefix, mode, seed and try. *)

CaseNos == DOMAIN Cases
RunIds == UNION {{c} \X (1..Cases[c].tries) : c \in CaseNos}
NoRun == <<0, 0>>

ModeOf(r) == Cases[r[1]].mode

(* Answers are told apart by what they say; validation blocks 0.  A prompt *)
(* record is the item, the attempt and the template version of a record    *)
(* that has them (FAILED, SUCCEEDED, WAITING_MANUAL alike).                 *)
Answers == {0, 1, 2}
Usual == 1
Versions == {1, 2}
PromptRecords == (1..K) \X Nat \X Versions

RunState ==
  [answers : UNION {[1..n -> Answers] : n \in 0..K},
   waiting : BOOLEAN,          (* a packet is exported and not answered *)
   failures : Seq(1..K),       (* FAILED records: the prompts that failed *)
   blocked : Nat,              (* FAILED records of validate *)
   prompts : SUBSET PromptRecords,
   receipts : Nat,             (* ProviderResponse artifacts *)
   assembled : Nat]            (* SUCCEEDED records of assemble *)

NewRun ==
  [answers |-> <<>>, waiting |-> FALSE, failures |-> <<>>,
   blocked |-> 0, prompts |-> {}, receipts |-> 0, assembled |-> 0]

Case == Cases[at[1]]
State == runs[at]

Answered(s) == Len(s.answers) = K
Blocked(s) == \E i \in DOMAIN s.answers : s.answers[i] = 0
Sound(s) == Answered(s) /\ ~Blocked(s)

(* The prompt that is due, its attempt, and the records of its outcome.    *)
Due(s) == Len(s.answers) + 1
Attempt(s) == Cardinality({j \in DOMAIN s.failures : s.failures[j] = Due(s)}) + 1
Prompted(s, v) == [s EXCEPT !.prompts = @ \cup {<<Due(s), Attempt(s), v>>}]

(* Mutant of Failed: the exception leaves no FAILED record.                *)
FailedUnrecorded(s, v) == s
Failed(s, v) == [Prompted(s, v) EXCEPT !.failures = Append(@, Due(s))]

(* build_prompt_version_audit: one template version per stage.             *)
AuditPasses(s) == \A p, q \in s.prompts : p[3] = q[3]

(* load_and_summarize counts the ProviderResponse artifacts of a run (the  *)
(* limit of its listing, 1000 artifacts, is left out), summarize_responses *)
(* the responses of this process.                                          *)
CostOf(s) == IF Case.mode = "api" THEN s.receipts ELSE responses

-----------------------------------------------------------------------------
(* Reports. *)

AttemptReport ==
  [run : RunIds, ok : BOOLEAN, cost : Nat, rollback : RunIds \cup {NoRun}]

Unwritten(status) == [status |-> status, attempts |-> <<>>, gate |-> FALSE, quiet |-> TRUE]
NoReport == Unwritten("absent")
TornReport == Unwritten("torn")

SucceededIn(list) == {list[i].run : i \in {j \in DOMAIN list : list[j].ok}}

(* Mutant of PreviousRuns: failed attempts are rollback targets too. *)
PreviousOfAnyOutcome(rep) ==
  [c \in CaseNos |->
     IF c \in DOMAIN rep.attempts THEN rep.attempts[c].run ELSE NoRun]

(* _load_previous_attempts: case_id to the run that succeeded. *)
PreviousRuns(rep) ==
  [c \in CaseNos |->
     IF c \in DOMAIN rep.attempts /\ rep.attempts[c].ok
     THEN rep.attempts[c].run
     ELSE NoRun]

(* _compare_runs.  The lineage signature lists every record of the history. *)
NormalizedBundle(s) == s.answers
PromptSignature(s) == s.prompts
LineageSignature(s) ==
  <<s.waiting, s.failures, s.blocked, s.prompts, s.assembled>>

Equivalent(r, q, withLineage) ==
  /\ NormalizedBundle(runs[r]) = NormalizedBundle(runs[q])
  /\ PromptSignature(runs[r]) = PromptSignature(runs[q])
  /\ withLineage => LineageSignature(runs[r]) = LineageSignature(runs[q])

(* _build_mode_comparisons: in each compare group, the last attempt of each *)
(* mode that succeeded.                                                     *)
LastOf(S) == CHOOSE r \in S : \A q \in S : q[1] <= r[1]

ModePairs(list) ==
  LET inGroup(g, m) == {r \in SucceededIn(list) :
                          Cases[r[1]].compare = g /\ ModeOf(r) = m}
      groups == {Cases[c].compare : c \in CaseNos} \ {"none"}
  IN {<<LastOf(inGroup(g, "api")), LastOf(inGroup(g, "manual"))>> :
        g \in {h \in groups : \A m \in {"api", "manual"} : inGroup(h, m) # {}}}

(* _build_reproducibility_reports: in each group the first two by case_id;  *)
(* cases are numbered in that order.                                        *)
FirstOf(S) == CHOOSE r \in S : \A q \in S : r[1] <= q[1]

ReplayPairs(list) ==
  LET inGroup(g) == {r \in SucceededIn(list) : Cases[r[1]].replay = g}
      groups == {Cases[c].replay : c \in CaseNos} \ {"none"}
  IN {<<FirstOf(inGroup(g)), FirstOf(inGroup(g) \ {FirstOf(inGroup(g))})>> :
        g \in {h \in groups : Cardinality(inGroup(h)) >= 2}}

(* Mutant of GatePasses: nothing to compare counts as agreement. *)
GateWithoutPairs(list) ==
  /\ \A p \in ModePairs(list) : Equivalent(p[1], p[2], FALSE)
  /\ \A p \in ReplayPairs(list) : Equivalent(p[1], p[2], TRUE)

(* build_benchmark_scorecard.  The error counts are sums over scorecards    *)
(* that passed, so they are 0; what is left are the comparisons.            *)
GatePasses(list) ==
  /\ ModePairs(list) # {}
  /\ \A p \in ModePairs(list) : Equivalent(p[1], p[2], FALSE)
  /\ ReplayPairs(list) # {}
  /\ \A p \in ReplayPairs(list) : Equivalent(p[1], p[2], TRUE)

-----------------------------------------------------------------------------
(* run_dataset, one case and one try after the other. *)

Init ==
  /\ runs = [r \in RunIds |-> NewRun]
  /\ report = NoReport
  /\ pc = "idle" /\ at = NoRun
  /\ previous = [c \in CaseNos |-> NoRun]
  /\ attempts = <<>> /\ responses = 0
  /\ template = 1
  /\ Provider!Init
  /\ requests = [r \in RunIds |-> 0] /\ lost = [r \in RunIds |-> 0]
  /\ benchmarks = 0 /\ disturbances = 0

Disturb == disturbances < MaxDisturbances /\ disturbances' = disturbances + 1
Usually(usual) == IF usual THEN UNCHANGED disturbances ELSE Disturb

(* run_dataset begins with the report of the benchmark before; one that    *)
(* does not parse makes it raise, and nothing is run.                      *)
Start ==
  /\ pc = "idle"
  /\ benchmarks < MaxBenchmarks
  /\ benchmarks' = benchmarks + 1
  /\ IF report.status = "torn"
     THEN UNCHANGED <<pc, at, previous>>
     ELSE /\ previous' = PreviousRuns(report)
          /\ at' = <<1, 1>>
          /\ pc' = "run"
  /\ UNCHANGED <<runs, report, attempts, responses, template, call, requests,
                 lost, disturbances>>

Goto(phase) == pc' = phase /\ UNCHANGED <<at, attempts, responses>>

(* The case is over: its attempt is listed and the next case begins.       *)
CaseEnds(attempt) ==
  /\ attempts' = Append(attempts, attempt)
  /\ responses' = 0
  /\ IF at[1] < Len(Cases)
     THEN pc' = "run" /\ at' = <<at[1] + 1, 1>>
     ELSE pc' = "report" /\ UNCHANGED at

(* The try failed: another one under its own run_id, or the last failure   *)
(* is what is listed, with the rollback target if the case asks for it.    *)
TryFails(cost) ==
  IF at[2] < Case.tries
  THEN pc' = "run" /\ at' = <<at[1], at[2] + 1>> /\ responses' = 0 /\ UNCHANGED attempts
  ELSE CaseEnds([run |-> at, ok |-> FALSE, cost |-> cost,
                 rollback |-> IF Case.rollback THEN previous[at[1]] ELSE NoRun])

SavedRun(s) == runs' = [runs EXCEPT ![at] = s]

(* run_exam, up to its next provider call.  Validation of the last answer  *)
(* comes before the next prompt; it fails again each time the run resumes. *)
(* bundle_for_run then raises: the responses of a manual try are known.    *)
ValidateBlocks ==
  /\ pc = "run"
  /\ Blocked(State)
  /\ SavedRun([State EXCEPT !.blocked = @ + 1])
  /\ TryFails(responses)
  /\ UNCHANGED <<report, previous, template, call, requests, lost, benchmarks,
                 disturbances>>

RunCompletes ==
  /\ pc = "run"
  /\ Sound(State)
  /\ SavedRun([State EXCEPT !.assembled = IF @ = 0 THEN 1 ELSE @])
  /\ Goto("assemble")
  /\ UNCHANGED <<report, previous, template, call, requests, lost, benchmarks,
                 disturbances>>

(* A manual prompt is exported with the template of the day, once.         *)
ExportPacket ==
  /\ pc = "run"
  /\ Case.mode = "manual"
  /\ ~Blocked(State) /\ ~Answered(State) /\ ~State.waiting
  /\ SavedRun([Prompted(State, template) EXCEPT !.waiting = TRUE])
  /\ UNCHANGED <<report, pc, at, previous, attempts, responses, template, call,
                 requests, lost, benchmarks, disturbances>>

Prompt ==
  /\ pc = "run"
  /\ ~Blocked(State) /\ ~Answered(State)
  /\ Case.mode = "manual" => State.waiting
  /\ Provider!Invoke
  /\ Goto("call")
  /\ UNCHANGED <<runs, report, previous, template, requests, lost, benchmarks,
                 disturbances>>

SendRequest(outcome) ==
  /\ Provider!Request(outcome)
  /\ requests' = [requests EXCEPT ![at] = @ + 1]
  /\ Usually(outcome = "usable")
  /\ UNCHANGED <<runs, report, pc, at, previous, attempts, responses, template,
                 lost, benchmarks>>

(* API: the answer is validated and saved with its ProviderResponse, then  *)
(* the state is.                                                           *)
FileResponse ==
  /\ pc = "call"
  /\ Case.mode = "api"
  /\ Provider!Return("answered")
  /\ SavedRun([State EXCEPT !.receipts = @ + 1])
  /\ Goto("filed")
  /\ UNCHANGED <<report, previous, template, requests, lost, benchmarks,
                 disturbances>>

SaveAnswer(answer) ==
  /\ pc = "filed"
  /\ SavedRun([Prompted(State, template) EXCEPT !.answers = Append(@, answer)])
  /\ Goto("run")
  /\ Usually(answer = Usual)
  /\ UNCHANGED <<report, previous, template, call, requests, lost, benchmarks>>

(* _run_manual_exam writes the answer to a file and imports it.            *)
ImportAnswer(answer) ==
  /\ pc = "call"
  /\ Case.mode = "manual"
  /\ Provider!Return("answered")
  /\ SavedRun([State EXCEPT !.answers = Append(@, answer), !.waiting = FALSE])
  /\ responses' = responses + 1
  /\ pc' = "run"
  /\ Usually(answer = Usual)
  /\ UNCHANGED <<report, at, previous, attempts, template, requests, lost, benchmarks>>

(* The provider raises: an API run records the failure, a manual run keeps *)
(* waiting and has no trace of the call.  Either way the cost is lost with *)
(* the exception.                                                          *)
ProviderRaises ==
  /\ pc = "call"
  /\ Provider!Return("raised")
  /\ IF Case.mode = "api"
     THEN SavedRun(Failed(State, template)) /\ UNCHANGED lost
     ELSE lost' = [lost EXCEPT ![at] = @ + 1] /\ UNCHANGED runs
  /\ TryFails(0)
  /\ UNCHANGED <<report, previous, template, requests, benchmarks, disturbances>>

(* bundle_for_run with force=True adds an assembly record each time.       *)
AssembleAgain ==
  /\ pc = "assemble"
  /\ SavedRun([State EXCEPT !.assembled = @ + 1])
  /\ Goto("render")
  /\ UNCHANGED <<report, previous, template, call, requests, lost, benchmarks,
                 disturbances>>

(* _maybe_compile: XeLaTeX may be missing or fail for any document.        *)
Documents == {"exam", "answer_key", "validation_report"}
CompileOutcomes == IF Case.compile THEN SUBSET Documents ELSE {{}}

AssertCompiled(compiled) == Case.compile => compiled = Documents

(* render_exam_set, then _assert_compiled_documents.                       *)
Render ==
  /\ pc = "render"
  /\ \E compiled \in CompileOutcomes :
       /\ IF AssertCompiled(compiled) THEN Goto("score") ELSE TryFails(responses)
       /\ Usually(AssertCompiled(compiled))
  /\ UNCHANGED <<runs, report, previous, template, call, requests, lost, benchmarks>>

(* build_run_scorecard.  The findings of a validated run are none and its  *)
(* artifacts are where they were saved: the prompt audit decides.          *)
Score ==
  /\ pc = "score"
  /\ IF AuditPasses(State)
     THEN CaseEnds([run |-> at, ok |-> TRUE, cost |-> CostOf(State), rollback |-> NoRun])
     ELSE TryFails(CostOf(State))
  /\ UNCHANGED <<runs, report, previous, template, call, requests, lost, benchmarks,
                 disturbances>>

WriteReport ==
  /\ pc = "report"
  /\ report' = [status |-> "written", attempts |-> attempts,
                gate |-> GatePasses(attempts), quiet |-> disturbances = 0]
  /\ pc' = "idle" /\ at' = NoRun /\ attempts' = <<>> /\ responses' = 0
  /\ UNCHANGED <<runs, previous, template, call, requests, lost, benchmarks,
                 disturbances>>

(* The process dies, perhaps in the middle of writing the report.          *)
Crash ==
  /\ pc # "idle"
  /\ Disturb
  /\ report' \in IF pc = "report" THEN {report, TornReport} ELSE {report}
  /\ lost' = IF pc \in {"call", "filed"} THEN [lost EXCEPT ![at] = @ + 1] ELSE lost
  /\ call' = Provider!Idle
  /\ pc' = "idle" /\ at' = NoRun /\ attempts' = <<>> /\ responses' = 0
  /\ UNCHANGED <<runs, previous, template, requests, benchmarks>>

(* External.  A packet is built in one go before its call, so an edit in   *)
(* the middle of a call is the same as one right after it.                 *)
EditTemplate ==
  /\ pc \notin {"call", "filed"}
  /\ template = 1
  /\ template' = 2
  /\ Disturb
  /\ UNCHANGED <<runs, report, pc, at, previous, attempts, responses, call, requests,
                 lost, benchmarks>>

Work ==
  \/ ValidateBlocks \/ RunCompletes \/ ExportPacket \/ Prompt
  \/ \E outcome \in Provider!Outcomes : SendRequest(outcome)
  \/ FileResponse \/ ProviderRaises
  \/ \E answer \in Answers : SaveAnswer(answer) \/ ImportAnswer(answer)
  \/ AssembleAgain
  \/ Render
  \/ Score \/ WriteReport

Next == Start \/ Work \/ Crash \/ EditTemplate

(* run_dataset is one synchronous loop: it goes on until it returns.       *)
Spec == Init /\ [][Next]_vars /\ WF_vars(Work)

-----------------------------------------------------------------------------
(* Properties. *)

(* Every variable has its type; a call never sends more than one request   *)
(* and its retries (_send_request).                                        *)
TypeOK ==
  /\ runs \in [RunIds -> RunState]
  /\ report.attempts \in Seq(AttemptReport)
  /\ report.status \in {"absent", "torn", "written"}
  /\ pc \in {"idle", "run", "call", "filed", "assemble", "render", "score", "report"}
  /\ at \in RunIds \cup {NoRun}
  /\ pc # "idle" => at \in RunIds
  /\ previous \in [CaseNos -> RunIds \cup {NoRun}]
  /\ attempts \in Seq(AttemptReport)
  /\ responses \in 0..K
  /\ template \in Versions
  /\ call \in Provider!Calls
  /\ call.phase # "idle" => pc = "call"
  /\ requests \in [RunIds -> Nat] /\ lost \in [RunIds -> Nat]
  /\ benchmarks \in Nat /\ disturbances \in Nat

(* What a reader of benchmark_report.json relies on: a run listed as       *)
(* succeeded, and a run a failed case was rolled back to, is complete,     *)
(* valid and passed its prompt audit, whatever crashed, failed or was      *)
(* resumed since and in whatever benchmark it was made                     *)
(* (_load_previous_attempts, _run_case).                                   *)
ReportIsTrue ==
  \A i \in DOMAIN report.attempts :
    LET entry == report.attempts[i]
    IN \A r \in ({entry.rollback} \ {NoRun}) \cup (IF entry.ok THEN {entry.run} ELSE {}) :
         Sound(runs[r]) /\ runs[r].assembled > 0 /\ AuditPasses(runs[r])

(* A dataset like release_smoke.json: one compare group with one case of   *)
(* each mode and one replay group of two cases, which share a case and     *)
(* together are the dataset.  The gate asks for one comparison of each     *)
(* kind only, so with further groups a case that failed may go unnoticed.  *)
CasesAreCompared ==
  \E a, m, x, y \in CaseNos :
    /\ Cases[a].mode = "api" /\ Cases[m].mode = "manual" /\ x # y
    /\ Cases[a].compare = Cases[m].compare /\ Cases[a].compare # "none"
    /\ Cases[x].replay = Cases[y].replay /\ Cases[x].replay # "none"
    /\ \A c \in CaseNos : /\ Cases[c].compare # "none" => c \in {a, m}
                          /\ Cases[c].replay # "none" => c \in {x, y}
    /\ CaseNos = {a, m, x, y} /\ {a, m} \cap {x, y} # {}

(* The release gate of build_benchmark_scorecard, for a dataset each case  *)
(* of which is in a group (CasesAreCompared): it passes only when every    *)
(* case succeeded with the same answers, and it always passes when nothing *)
(* went wrong, however often the benchmark is repeated on the same         *)
(* directory.                                                              *)
GateIsEarned ==
  report.status = "written" =>
    /\ report.gate =>
         /\ \A i \in DOMAIN report.attempts : report.attempts[i].ok
         /\ \A r, q \in SucceededIn(report.attempts) : runs[r].answers = runs[q].answers
    /\ report.quiet => report.gate

(* No request is unaccounted for: each one belongs to an answer, to a      *)
(* recorded failure, to a call that died or to the call in progress, and   *)
(* none of these sent more than 1 + max_retries; the cost reported for an  *)
(* API run is that of its calls (load_and_summarize), resumed or not.      *)
AccountsBalance ==
  /\ \A r \in RunIds :
       LET calls == Len(runs[r].answers) + Len(runs[r].failures) + lost[r]
                      + IF at = r /\ pc \in {"call", "filed"} THEN 1 ELSE 0
       IN requests[r] <= (MaxRetries + 1) * calls
  /\ \A i \in DOMAIN report.attempts :
       LET entry == report.attempts[i]
       IN entry.ok /\ ModeOf(entry.run) = "api" => entry.cost \in K..requests[entry.run]

(* Every benchmark comes to an end (run_dataset, _run_case and the while   *)
(* loop of _run_manual_exam).                                              *)
BenchmarkEnds == pc # "idle" ~> pc = "idle"
=============================================================================
