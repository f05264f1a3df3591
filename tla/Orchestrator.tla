----------------------------- MODULE Orchestrator -----------------------------
(***************************************************************************)
(* One generation run of src/orchestrator/state_machine.py, with the       *)
(* manual-exchange files of manual_mode.py and the on-demand assembly of   *)
(* src/assembly/exam_assembler.py.                                         *)
(*                                                                         *)
(* Every command (a CLI process) loads the run's orchestrator_state.json,  *)
(* works on its copy in memory, saves artifacts, and rewrites the whole    *)
(* file after each stage.  Nothing locks the file.  A process may die      *)
(* between any two durable writes; the run goes on when a later command    *)
(* names the same run_id.                                                  *)
(*                                                                         *)
(* An artifact save is one step here (ArtifactStore models its two         *)
(* writes), and consecutive saves of fresh artifacts that nothing refers   *)
(* to before the next state write are one step: a crash between them       *)
(* leaves unreferenced artifacts only.                                     *)
(***************************************************************************)
EXTENDS Integers, Sequences, FiniteSets

CONSTANTS
  N,                (* spec.total_items                                     *)
  Procs,            (* processes that may work on the run at the same time  *)
  Modes,            (* execution modes a run may be created with            *)
  MaxAttempts,      (* bound: no command is issued past this many attempts  *)
  MaxDisturbances   (* bound: crashes, provider errors, bad answers,        *)
                    (* replaced answers and forced assemblies, together     *)

ASSUME NAssumption == N \in Nat \ {0}
ASSUME ModesAssumption == Modes \subseteq {"manual", "api"}
ASSUME BoundsAssumption == MaxAttempts \in Nat /\ MaxDisturbances \in Nat

VARIABLES
  disk,          (* orchestrator_state.json                                 *)
  store,         (* artifacts in the order they were saved; id = position   *)
  packets,       (* prompt packet files under manual_exchanges              *)
  mem,           (* each process's copy of the state                        *)
  pc,            (* where each process is                                   *)
  then,          (* where it goes once the state is written                 *)
  job,           (* the stage keys its command has to ensure                *)
  cur,           (* the stage whose provider call is in progress            *)
  disturbances   (* how much of MaxDisturbances is used up                  *)

vars == <<disk, store, packets, mem, pc, then, job, cur, disturbances>>

-----------------------------------------------------------------------------
(* Stage keys.  0 stands for "no item number" and for "no artifact".       *)

Items == 1..N

Position == [item_blueprint |-> 1, draft_item |-> 2, solve |-> 3,
             critique |-> 4, revise |-> 5, validate |-> 6]

ItemStages == DOMAIN Position

ExamBlueprint == <<"exam_blueprint", 0>>
Assemble == <<"assemble", 0>>
Validate(i) == <<"validate", i>>

ItemKeys == ItemStages \X Items
Keys == {ExamBlueprint, Assemble} \cup ItemKeys

Remote(k) == k[1] \notin {"validate", "assemble"}

(* The order in which run_exam's loops visit the stages.                   *)
Precedes(j, k) ==
  /\ j # k
  /\ \/ j = ExamBlueprint
     \/ k = Assemble
     \/ /\ j \in ItemKeys
        /\ k \in ItemKeys
        /\ \/ j[2] < k[2]
           \/ j[2] = k[2] /\ Position[j[1]] < Position[k[1]]

(* _build_stage_inputs: the outputs a stage is computed from.              *)
FeedsInItem ==
  {<<"item_blueprint", "draft_item">>, <<"draft_item", "solve">>,
   <<"solve", "critique">>, <<"solve", "revise">>, <<"critique", "revise">>,
   <<"revise", "validate">>, <<"critique", "validate">>}

Feeds(j, k) ==
  \/ j = ExamBlueprint /\ (k[1] = "item_blueprint" \/ k = Assemble)
  \/ j[1] = "validate" /\ k = Assemble
  \/ j[2] = k[2] /\ <<j[1], k[1]>> \in FeedsInItem

Needs(k) == {j \in Keys : Feeds(j, k)}

(* The three commands: run_plan, run_item_draft for one item, run_exam.    *)
PlanJob == {ExamBlueprint}
DraftJob(i) == {ExamBlueprint, <<"item_blueprint", i>>, <<"draft_item", i>>}
ExamJob == Keys
Jobs == {PlanJob, ExamJob} \cup {DraftJob(i) : i \in Items}

-----------------------------------------------------------------------------
(* Artifacts.  What an answer says is abstracted to what the local stages  *)
(* tell apart: a flawed one fails the validator suite, a misfit passes it  *)
(* but order_validated_items rejects it (it left its blueprint).           *)

Contents == {"sound", "flawed", "misfit"}
Kinds == {"spec", "packet", "output", "receipt"}

Artifact == [kind : Kinds, key : Keys, from : SUBSET Nat, content : Contents]

Saved(kind, k, from, c) ==
  [kind |-> kind, key |-> k, from |-> from, content |-> c]

(* What an answer to stage k may say: only critiques and revisions decide  *)
(* whether the item validates, only the revision where it fits.            *)
AnswersTo(k) ==
  CASE k[1] = "revise" -> Contents
    [] k[1] = "critique" -> {"sound", "flawed"}
    [] OTHER -> {"sound"}

(* Mutant: an item is blocked only when every input has a finding.         *)
SuiteVerdictNeedsAll(from, st) ==
  IF \A a \in from : st[a].content = "flawed" THEN "flawed"
  ELSE IF \E a \in from : st[a].content = "misfit" THEN "misfit"
  ELSE "sound"

(* run_validator_suite: one failing finding blocks the item; an item that  *)
(* passes is APPROVED.                                                     *)
SuiteVerdict(from, st) ==
  IF \E a \in from : st[a].content = "flawed" THEN "flawed"
  ELSE IF \E a \in from : st[a].content = "misfit" THEN "misfit"
  ELSE "sound"

(* order_validated_items raises unless every item is approved and matches  *)
(* its blueprint.                                                          *)
OrderingAccepts(from, st) == \A a \in from : st[a].content = "sound"

-----------------------------------------------------------------------------
(* The persisted state.                                                    *)

RunStatus ==
  {"absent", "pending", "running", "waiting_manual", "failed", "completed"}
StageStatus == {"none", "waiting_manual", "succeeded", "failed"}

Record ==
  [key : Keys, attempt : Nat, status : StageStatus, inputs : SUBSET Nat,
   prompt : Nat, evidence : SUBSET Nat, output : Nat]

State ==
  [status : RunStatus, mode : {"manual", "api"}, spec : Nat,
   outputs : [Keys -> Nat], stages : [Keys -> StageStatus],
   attempts : [Keys -> Nat], prompts : [Keys -> Nat],
   bundle : Nat, history : Seq(Record)]

Packet == [key : Keys, attempt : Nat, inputs : SUBSET Nat]

FreshState(m) ==
  [status |-> "pending", mode |-> m, spec |-> 0,
   outputs |-> [k \in Keys |-> 0], stages |-> [k \in Keys |-> "none"],
   attempts |-> [k \in Keys |-> 0], prompts |-> [k \in Keys |-> 0],
   bundle |-> 0, history |-> <<>>]

(* No state file yet; also the memory of a process that does not run.      *)
NoState == [FreshState("api") EXCEPT !.status = "absent"]

(* The input artifact ids of stage k; the exam blueprint's is the spec.    *)
InputsOf(s, k) ==
  IF k = ExamBlueprint THEN {s.spec} ELSE {s.outputs[j] : j \in Needs(k)}

StageRecord(s, k, status, inputs, prompt, evidence, output) ==
  [key |-> k, attempt |-> s.attempts[k], status |-> status,
   inputs |-> inputs, prompt |-> prompt, evidence |-> evidence,
   output |-> output]

Counted(s, k, n) == [s EXCEPT !.attempts = [@ EXCEPT ![k] = n]]

Started(s, k, prompt) ==
  [Counted(s, k, s.attempts[k] + 1) EXCEPT
     !.prompts = [@ EXCEPT ![k] = prompt]]

(* Mutant: the attempt is counted again once the packet is exported.       *)
WaitingCountsAgain(s, k, inputs) ==
  [Counted(s, k, s.attempts[k] + 1) EXCEPT
     !.stages = [@ EXCEPT ![k] = "waiting_manual"],
     !.status = "waiting_manual",
     !.history = Append(@, StageRecord(s, k, "waiting_manual", inputs,
                                       s.prompts[k], {}, 0))]

Waiting(s, k, inputs) ==
  [s EXCEPT !.stages = [@ EXCEPT ![k] = "waiting_manual"],
            !.status = "waiting_manual",
            !.history = Append(@, StageRecord(s, k, "waiting_manual", inputs,
                                              s.prompts[k], {}, 0))]

(* Mutant: an answer that replaces an output leaves no record.             *)
ReplacedWithoutRecord(s, k, r) ==
  [s EXCEPT !.outputs = [@ EXCEPT ![k] = r.output],
            !.stages = [@ EXCEPT ![k] = "succeeded"],
            !.history = IF s.outputs[k] = 0 THEN Append(@, r) ELSE @]

Succeeded(s, k, r) ==
  [s EXCEPT !.outputs = [@ EXCEPT ![k] = r.output],
            !.stages = [@ EXCEPT ![k] = "succeeded"],
            !.history = Append(@, r)]

(* Mutants: a failed stage is left waiting for the operator; a retry's     *)
(* record takes the place of the record of the attempt before it; a blocked *)
(* item becomes the output of its stage.                                    *)
FailedLeftWaiting(s, k, r) ==
  [s EXCEPT !.stages = [@ EXCEPT ![k] = "waiting_manual"],
            !.status = "failed",
            !.history = Append(@, r)]

FailedReplacesRecord(s, k, r) ==
  [s EXCEPT !.stages = [@ EXCEPT ![k] = "failed"],
            !.status = "failed",
            !.history = IF Len(@) > 0 /\ @[Len(@)].key = k
                        THEN Append(SubSeq(@, 1, Len(@) - 1), r)
                        ELSE Append(@, r)]

FailedKeepsOutput(s, k, r) ==
  [s EXCEPT !.outputs = [@ EXCEPT ![k] = IF r.output # 0 THEN r.output ELSE @],
            !.stages = [@ EXCEPT ![k] = "failed"],
            !.status = "failed",
            !.history = Append(@, r)]

Failed(s, k, r) ==
  [s EXCEPT !.stages = [@ EXCEPT ![k] = "failed"],
            !.status = "failed",
            !.history = Append(@, r)]

-----------------------------------------------------------------------------
(* Steps of a process.                                                     *)

Disturb(bad) ==
  IF bad
  THEN /\ disturbances < MaxDisturbances
       /\ disturbances' = disturbances + 1
  ELSE UNCHANGED disturbances

(* The process has s in memory and is about to write it; then it goes on   *)
(* with the next stage, or the command returns.                            *)
WriteNext(p, s, next) ==
  /\ mem' = [mem EXCEPT ![p] = s]
  /\ pc' = [pc EXCEPT ![p] = "write"]
  /\ then' = [then EXCEPT ![p] = next]

(* _save_state.                                                            *)
WriteState(p) ==
  /\ pc[p] = "write"
  /\ disk' = mem[p]
  /\ pc' = [pc EXCEPT ![p] = then[p]]
  /\ mem' = IF then[p] = "idle" THEN [mem EXCEPT ![p] = NoState] ELSE mem
  /\ job' = IF then[p] = "idle" THEN [job EXCEPT ![p] = {}] ELSE job
  /\ UNCHANGED <<store, packets, then, cur, disturbances>>

(* Mutant: run_exam starts over when the run has failed.                   *)
InvokeStartsOver(p, keys, m) ==
  /\ pc[p] = "idle"
  /\ \A k \in Keys : disk.attempts[k] < MaxAttempts
  /\ job' = [job EXCEPT ![p] = keys]
  /\ \/ /\ disk.status \in {"absent", "failed"}
        /\ WriteNext(p, FreshState(m), "bootstrap")
     \/ /\ disk.status \notin {"absent", "failed"}
        /\ disk.mode = m
        /\ mem' = [mem EXCEPT ![p] = disk]
        /\ pc' = [pc EXCEPT ![p] = "bootstrap"]
        /\ UNCHANGED then
  /\ UNCHANGED <<disk, store, packets, cur, disturbances>>

(* A command starts: _create_or_load_state, then status RUNNING in memory  *)
(* only.  A mode other than the run's is refused before any change.        *)
Invoke(p, keys, m) ==
  /\ pc[p] = "idle"
  /\ \A k \in Keys : disk.attempts[k] < MaxAttempts
  /\ job' = [job EXCEPT ![p] = keys]
  /\ \/ /\ disk.status = "absent"
        /\ WriteNext(p, FreshState(m), "bootstrap")
     \/ /\ disk.status # "absent"
        /\ disk.mode = m
        /\ mem' = [mem EXCEPT ![p] = disk]
        /\ pc' = [pc EXCEPT ![p] = "bootstrap"]
        /\ UNCHANGED then
  /\ UNCHANGED <<disk, store, packets, cur, disturbances>>

(* _bootstrap_exam_spec.                                                   *)
Bootstrap(p) ==
  LET s == [mem[p] EXCEPT !.status = "running"] IN
  /\ pc[p] = "bootstrap"
  /\ \/ /\ s.spec = 0
        /\ store' = Append(store, Saved("spec", ExamBlueprint, {}, "sound"))
        /\ WriteNext(p, [s EXCEPT !.spec = Len(store) + 1], "stage")
     \/ /\ s.spec # 0
        /\ mem' = [mem EXCEPT ![p] = s]
        /\ pc' = [pc EXCEPT ![p] = "stage"]
        /\ UNCHANGED <<store, then>>
  /\ UNCHANGED <<disk, packets, job, cur, disturbances>>

(* The loop over the command's stages has come to k: every stage before it *)
(* has an output (_ensure_stage returned True) and k has none.             *)
AtStage(p, k) ==
  /\ pc[p] = "stage"
  /\ k \in job[p]
  /\ mem[p].outputs[k] = 0
  /\ \A j \in job[p] : Precedes(j, k) => mem[p].outputs[j] # 0

(* A stage that waits for the operator ends the command.                   *)
AwaitManual(p, k) ==
  /\ AtStage(p, k)
  /\ mem[p].stages[k] = "waiting_manual"
  /\ WriteNext(p, [mem[p] EXCEPT !.status = "waiting_manual"], "idle")
  /\ UNCHANGED <<disk, store, packets, job, cur, disturbances>>

(* A remote stage in manual mode: the packet artifact, the packet file     *)
(* (an earlier file of the same attempt is overwritten), then the state.   *)
ExportManual(p, k) ==
  LET s == Started(mem[p], k, Len(store) + 1)
      inputs == InputsOf(s, k)
  IN
  /\ AtStage(p, k)
  /\ Remote(k)
  /\ mem[p].mode = "manual"
  /\ mem[p].stages[k] # "waiting_manual"
  /\ store' = Append(store, Saved("packet", k, inputs, "sound"))
  /\ packets' = {f \in packets : f.key # k \/ f.attempt # s.attempts[k]}
                  \cup {[key |-> k, attempt |-> s.attempts[k], inputs |-> inputs]}
  /\ WriteNext(p, Waiting(s, k, inputs), "idle")
  /\ UNCHANGED <<disk, job, cur, disturbances>>

(* A remote stage in API mode: the packet artifact, then the provider.     *)
CallProvider(p, k) ==
  LET s == Started(mem[p], k, Len(store) + 1) IN
  /\ AtStage(p, k)
  /\ Remote(k)
  /\ mem[p].mode = "api"
  /\ mem[p].stages[k] # "waiting_manual"
  /\ store' = Append(store, Saved("packet", k, InputsOf(s, k), "sound"))
  /\ mem' = [mem EXCEPT ![p] = s]
  /\ pc' = [pc EXCEPT ![p] = "call"]
  /\ cur' = [cur EXCEPT ![p] = k]
  /\ UNCHANGED <<disk, packets, then, job, disturbances>>

(* The provider answers: output and response are saved, then the state.    *)
ProviderAnswers(p, c) ==
  LET k == cur[p]
      s == mem[p]
      inputs == InputsOf(s, k)
      out == Len(store) + 1
  IN
  /\ pc[p] = "call"
  /\ c \in AnswersTo(k)
  /\ Disturb(c # "sound")
  /\ store' = store \o <<Saved("output", k, inputs, c),
                         Saved("receipt", k, {out}, "sound")>>
  /\ WriteNext(p, Succeeded(s, k, StageRecord(s, k, "succeeded", inputs,
                                     s.prompts[k], {out + 1}, out)), "stage")
  /\ UNCHANGED <<disk, packets, job, cur>>

(* Mutant: the failure record names the response whose save raised.        *)
ProviderFailsNamesResponse(p) ==
  LET k == cur[p]
      s == mem[p]
  IN
  /\ pc[p] = "call"
  /\ Disturb(TRUE)
  /\ WriteNext(p, Failed(s, k, StageRecord(s, k, "failed", InputsOf(s, k),
                               s.prompts[k], {Len(store) + 1}, 0)), "idle")
  /\ UNCHANGED <<disk, store, packets, job, cur>>

(* The provider, the schema check or a save raises.                        *)
ProviderFails(p) ==
  LET k == cur[p]
      s == mem[p]
  IN
  /\ pc[p] = "call"
  /\ Disturb(TRUE)
  /\ WriteNext(p, Failed(s, k, StageRecord(s, k, "failed", InputsOf(s, k),
                                           s.prompts[k], {}, 0)), "idle")
  /\ UNCHANGED <<disk, store, packets, job, cur>>

(* _execute_local_stage, "validate": the report, the suite and the item    *)
(* are saved whatever the verdict; only an item that passes becomes the    *)
(* stage's output, any other ends the command with the run FAILED.         *)
ValidateItem(p, k) ==
  LET inputs == InputsOf(mem[p], k)
      c == SuiteVerdict(inputs, store)
      out == Len(store) + 3
      s == Counted(mem[p], k, mem[p].attempts[k] + 1)
      evidence == {out - 2, out - 1}
  IN
  /\ AtStage(p, k)
  /\ k[1] = "validate"
  /\ store' = store \o <<Saved("receipt", k, inputs, "sound"),
                         Saved("receipt", k, inputs, "sound"),
                         Saved("output", k, inputs, c)>>
  /\ IF c = "flawed"
     THEN WriteNext(p, Failed(s, k, StageRecord(s, k, "failed", inputs, 0,
                                                evidence, out)), "idle")
     ELSE WriteNext(p, Succeeded(s, k, StageRecord(s, k, "succeeded", inputs, 0,
                                                   evidence, out)), "stage")
  /\ UNCHANGED <<disk, packets, job, cur, disturbances>>

(* A bundle of the state's validated items: what _execute_local_stage does *)
(* for "assemble" and ExamAssembler._assemble_bundle does on demand.       *)
BundleOf(s, id) ==
  LET t == Counted(s, Assemble, s.attempts[Assemble] + 1) IN
  Succeeded(t, Assemble, StageRecord(t, Assemble, "succeeded",
                                     InputsOf(s, Assemble), 0, {}, id))

AssembleExam(p) ==
  LET inputs == InputsOf(mem[p], Assemble) IN
  /\ AtStage(p, Assemble)
  /\ OrderingAccepts(inputs, store)
  /\ store' = Append(store, Saved("output", Assemble, inputs, "sound"))
  /\ WriteNext(p, BundleOf(mem[p], Len(store) + 1), "stage")
  /\ UNCHANGED <<disk, packets, job, cur, disturbances>>

(* OrderingError leaves run_exam before anything is saved.                 *)
AssembleRaises(p) ==
  /\ AtStage(p, Assemble)
  /\ ~ OrderingAccepts(InputsOf(mem[p], Assemble), store)
  /\ mem' = [mem EXCEPT ![p] = NoState]
  /\ pc' = [pc EXCEPT ![p] = "idle"]
  /\ job' = [job EXCEPT ![p] = {}]
  /\ UNCHANGED <<disk, store, packets, then, cur, disturbances>>

(* Mutant: the run gets a stage's status.                                  *)
FinishCommandAsStage(p) ==
  /\ pc[p] = "stage"
  /\ \A k \in job[p] : mem[p].outputs[k] # 0
  /\ WriteNext(p, [mem[p] EXCEPT !.status = "succeeded"], "idle")
  /\ UNCHANGED <<disk, store, packets, job, cur, disturbances>>

(* Every stage of the command has an output.  Only run_exam publishes the  *)
(* bundle; run_plan and run_item_draft say COMPLETED as well.              *)
FinishCommand(p) ==
  LET s == [mem[p] EXCEPT !.status = "completed"] IN
  /\ pc[p] = "stage"
  /\ \A k \in job[p] : s.outputs[k] # 0
  /\ WriteNext(p, IF job[p] = ExamJob
                  THEN [s EXCEPT !.bundle = s.outputs[Assemble]]
                  ELSE s, "idle")
  /\ UNCHANGED <<disk, store, packets, job, cur, disturbances>>

(* import_manual_exchange: any packet file of the run may be answered, at  *)
(* any time, also when its stage has succeeded already.                    *)
ImportManual(p, f, c) ==
  LET k == f.key
      out == Len(store) + 1
      n == IF f.attempt > disk.attempts[k] THEN f.attempt ELSE disk.attempts[k]
      s == [Counted(disk, k, n) EXCEPT !.status = "pending"]
      r == [StageRecord(s, k, "succeeded", f.inputs, s.prompts[k], {out + 1}, out)
              EXCEPT !.attempt = f.attempt]
  IN
  /\ pc[p] = "idle"
  /\ disk.status # "absent"
  /\ f \in packets
  /\ c \in AnswersTo(k)
  /\ Disturb(c # "sound" \/ disk.outputs[k] # 0)
  /\ store' = store \o <<Saved("output", k, f.inputs, c),
                         Saved("receipt", k, {out}, "sound")>>
  /\ WriteNext(p, Succeeded(s, k, r), "idle")
  /\ UNCHANGED <<disk, packets, job, cur>>

(* ExamAssembler.assemble_from_run, with force or before there is a        *)
(* bundle.  It needs the validate outputs only and leaves the run status.  *)
AssembleOnDemand(p) ==
  LET inputs == InputsOf(disk, Assemble)
      s == BundleOf(disk, Len(store) + 1)
  IN
  /\ pc[p] = "idle"
  /\ 0 \notin inputs
  /\ OrderingAccepts(inputs, store)
  /\ Disturb(disk.outputs[Assemble] # 0)
  /\ store' = Append(store, Saved("output", Assemble, inputs, "sound"))
  /\ WriteNext(p, [s EXCEPT !.bundle = s.outputs[Assemble]], "idle")
  /\ UNCHANGED <<disk, packets, job, cur>>

(* The process dies; its memory is gone.                                   *)
Crash(p) ==
  /\ pc[p] # "idle"
  /\ Disturb(TRUE)
  /\ mem' = [mem EXCEPT ![p] = NoState]
  /\ pc' = [pc EXCEPT ![p] = "idle"]
  /\ job' = [job EXCEPT ![p] = {}]
  /\ UNCHANGED <<disk, store, packets, then, cur>>

-----------------------------------------------------------------------------

Init ==
  /\ disk = NoState
  /\ store = <<>>
  /\ packets = {}
  /\ mem = [p \in Procs |-> NoState]
  /\ pc = [p \in Procs |-> "idle"]
  /\ then = [p \in Procs |-> "idle"]
  /\ job = [p \in Procs |-> {}]
  /\ cur = [p \in Procs |-> ExamBlueprint]
  /\ disturbances = 0

(* The steps a running command takes by itself.                            *)
Proceed(p) ==
  \/ WriteState(p)
  \/ Bootstrap(p)
  \/ \E k \in Keys : AwaitManual(p, k)
  \/ \E k \in Keys : ExportManual(p, k)
  \/ \E k \in Keys : CallProvider(p, k)
  \/ \E c \in Contents : ProviderAnswers(p, c)
  \/ \E k \in Keys : ValidateItem(p, k)
  \/ AssembleExam(p)
  \/ AssembleRaises(p)
  \/ FinishCommand(p)

Next ==
  \E p \in Procs :
    \/ Proceed(p)
    \/ \E keys \in Jobs, m \in Modes : Invoke(p, keys, m)
    \/ \E f \in packets, c \in Contents : ImportManual(p, f, c)
    \/ AssembleOnDemand(p)
    \/ ProviderFails(p)
    \/ Crash(p)

Spec == Init /\ [][Next]_vars

-----------------------------------------------------------------------------

TypeOK ==
  /\ disk \in State
  /\ store \in Seq(Artifact)
  /\ packets \subseteq Packet
  /\ mem \in [Procs -> State]
  /\ pc \in [Procs -> {"idle", "bootstrap", "stage", "call", "write"}]
  /\ then \in [Procs -> {"idle", "bootstrap", "stage"}]
  /\ job \in [Procs -> SUBSET Keys]
  /\ cur \in [Procs -> Keys]
  /\ disturbances \in Nat

-----------------------------------------------------------------------------
(* Safety.                                                                 *)

Resolves(id, st) == id \in 0..Len(st)

(* build_artifact_audit's verdict on a state: every artifact id it         *)
(* mentions, in its fields or in its history, can be loaded.               *)
Audited(s, st) ==
  /\ Resolves(s.spec, st)
  /\ Resolves(s.bundle, st)
  /\ \A k \in Keys : Resolves(s.outputs[k], st) /\ Resolves(s.prompts[k], st)
  /\ \A h \in DOMAIN s.history :
       LET r == s.history[h] IN
       /\ Resolves(r.prompt, st)
       /\ Resolves(r.output, st)
       /\ \A id \in r.inputs \cup r.evidence : Resolves(id, st)

(* The artifact audit of src/eval/scorecard.py passes on the persisted     *)
(* state at all times: no crash, failure, import or concurrent command     *)
(* leaves the state file naming an artifact that was never saved.          *)
AuditPasses == Audited(disk, store)

(* Record h of s says that stage k succeeded.                              *)
IsSuccess(s, k, h) == s.history[h].key = k /\ s.history[h].status = "succeeded"

(* Stage k has no output and never succeeded, or record h is the last one  *)
(* that says it did and names the output and what it was computed from.    *)
Explained(s, st, k) ==
  \/ /\ s.outputs[k] = 0
     /\ \A h \in DOMAIN s.history : ~ IsSuccess(s, k, h)
  \/ /\ s.outputs[k] # 0
     /\ \E h \in DOMAIN s.history :
          /\ IsSuccess(s, k, h)
          /\ \A g \in DOMAIN s.history : g > h => ~ IsSuccess(s, k, g)
          /\ s.history[h].output = s.outputs[k]
          /\ s.history[h].inputs = st[s.outputs[k]].from

(* A stage has an output exactly when its history says it succeeded, and   *)
(* the latest SUCCEEDED record names that output and the inputs it was     *)
(* computed from.  ExamAssembler._latest_validate_record relies on it when *)
(* it pairs an item with its validator suite: a FAILED re-validation, a    *)
(* replaced answer or a resumed run must not pair it with another one.     *)
LatestRecordExplainsOutput == \A k \in Keys : Explained(disk, store, k)

(* Artifact b is a bundle of one validated item per item number, each of   *)
(* which passed its suite on inputs without a finding against them.        *)
SoundBundle(b, st) ==
  /\ st[b].kind = "output"
  /\ st[b].key = Assemble
  /\ 0 \notin st[b].from
  /\ \A x, y \in st[b].from : st[x].key = st[y].key => x = y
  /\ \A i \in Items :
       \E x \in st[b].from :
         /\ st[x].key = Validate(i)
         /\ st[x].content = "sound"
         /\ \A y \in st[x].from : y # 0 /\ st[y].content = "sound"

(* A published bundle is sound: no interrupted, failed or repeated         *)
(* validation, no replaced answer and no assembly on demand lets an item   *)
(* in that its own suite did not pass, leaves one out or doubles one.      *)
(* Assembly never looks at the run's status or at the history: only at the *)
(* state's validate outputs and the approval saved with them.              *)
BundleIsSound == disk.bundle # 0 => SoundBundle(disk.bundle, store)

(* A stage that waits for the operator can be answered: its packet file    *)
(* for the attempt the state counts is there, whatever died in between.    *)
WaitingIsAnswerable ==
  \A k \in Keys :
    disk.stages[k] = "waiting_manual" =>
      \E f \in packets : f.key = k /\ f.attempt = disk.attempts[k]

(* With one command at a time, lineage never leaves the run: every input   *)
(* an output was computed from is the output of a SUCCEEDED record of the  *)
(* prerequisite stage, earlier in the same history.                        *)
LineageIsClosed ==
  \A h \in DOMAIN disk.history :
    LET r == disk.history[h] IN
    r.key # ExamBlueprint =>
      \A j \in Needs(r.key) :
        \E g \in 1..h - 1 :
          /\ disk.history[g].key = j
          /\ disk.history[g].status = "succeeded"
          /\ disk.history[g].output \in r.inputs

(* With one command at a time, the history is append-only: no step drops   *)
(* or rewrites a record that reached the state file.                       *)
HistoryIsAppendOnly ==
  [][/\ Len(disk'.history) >= Len(disk.history)
     /\ \A h \in DOMAIN disk.history : disk'.history[h] = disk.history[h]]_disk

-----------------------------------------------------------------------------
(* What the pipeline promises, as ExamPipeline states it.                  *)

Pipeline == INSTANCE ExamPipeline WITH
  Stages <- Keys,
  Last <- Assemble,
  done <- {k \in Keys : disk.outputs[k] # 0},
  published <- (disk.bundle # 0)

(* With one command at a time, every run of the orchestrator is a run of   *)
(* the pipeline: stages are delivered one by one, each after the stages it *)
(* is computed from, none is ever taken back, the bundle comes last.       *)
ImplementsPipeline == Pipeline!Spec

-----------------------------------------------------------------------------
(* Liveness.  A command that was started runs on unless it crashes; the    *)
(* operator keeps re-running run_exam and keeps answering waiting packets  *)
(* (both may be overtaken by other commands, hence strong fairness).       *)

AnswerWaiting(p) ==
  \E f \in packets, c \in Contents :
    /\ disk.stages[f.key] = "waiting_manual"
    /\ ImportManual(p, f, c)

Fairness ==
  \A p \in Procs :
    /\ WF_vars(Proceed(p))
    /\ SF_vars(\E m \in Modes : Invoke(p, ExamJob, m))
    /\ SF_vars(AnswerWaiting(p))

FairSpec == Spec /\ Fairness

(* Resuming works: whatever crashes, provider errors and partial commands  *)
(* come first, a run whose answers are all sound ends in a bundle.         *)
EndsInBundle ==
  <>(disk.bundle # 0 \/ \E a \in DOMAIN store : store[a].content # "sound")

-----------------------------------------------------------------------------
(* The inductive invariant behind AuditPasses, LatestRecordExplainsOutput  *)
(* and BundleIsSound.  It speaks of every copy of the state, because any   *)
(* copy may be the next one written.                                       *)

(* Artifacts are computed from earlier ones; a validated item carries the  *)
(* verdict its inputs deserve; a saved bundle is sound.                    *)
SoundArtifact(a, st) ==
  /\ \A x \in st[a].from : x \in 0..a - 1
  /\ st[a].kind = "output" /\ st[a].key \in {Validate(i) : i \in Items} =>
       /\ 0 \notin st[a].from
       /\ st[a].content = SuiteVerdict(st[a].from, st)
  /\ st[a].kind = "output" /\ st[a].key = Assemble => SoundBundle(a, st)

StoreIsSound(st) == \A a \in 1..Len(st) : SoundArtifact(a, st)

(* An output is an artifact of its own stage, and not of a blocked item.   *)
OutputsFit(s, st) ==
  \A k \in Keys :
    s.outputs[k] # 0 =>
      /\ st[s.outputs[k]].kind = "output"
      /\ st[s.outputs[k]].key = k
      /\ k \in {Validate(i) : i \in Items} =>
           st[s.outputs[k]].content # "flawed"

Coherent(s, st) ==
  /\ Audited(s, st)
  /\ OutputsFit(s, st)
  /\ \A k \in Keys : Explained(s, st, k)
  /\ s.bundle # 0 =>
       st[s.bundle].kind = "output" /\ st[s.bundle].key = Assemble

(* Where a process is tells what it may be about to do.                    *)
ControlOK ==
  \A p \in Procs :
    /\ pc[p] \in {"bootstrap", "stage"} => job[p] \in Jobs
    /\ pc[p] = "write" /\ then[p] # "idle" => job[p] \in Jobs
    /\ pc[p] = "call" => job[p] \in Jobs /\ Remote(cur[p])

PacketsOK ==
  \A f \in packets : Remote(f.key) /\ \A id \in f.inputs : Resolves(id, store)

IInv ==
  /\ TypeOK
  /\ StoreIsSound(store)
  /\ Coherent(disk, store)
  /\ \A p \in Procs : Coherent(mem[p], store)
  /\ ControlOK
  /\ PacketsOK
=============================================================================
