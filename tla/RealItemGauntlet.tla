-------------------------- MODULE RealItemGauntlet --------------------------
(***************************************************************************)
(* One run of src/orchestrator/real_item_gauntlet.py: a single item goes   *)
(* from an atom through four remote stages, validation and rendering to a  *)
(* bundle in the output directory.                                         *)
(*                                                                         *)
(* One command at a time works on a run.  It keeps its state in            *)
(* real_item_state.json, which it rewrites after every stage, and may die  *)
(* between any two durable writes; a later command with the same run_id    *)
(* resumes.  In manual mode an operator answers exported packets by        *)
(* putting a response file next to them.  An artifact save is one step     *)
(* (ArtifactStore models its two writes).  Writing back the state that was *)
(* just loaded, as every resumption does, changes nothing here.            *)
(***************************************************************************)
EXTENDS Integers, Sequences, FiniteSets

CONSTANTS
  Families,          (* real-item families a command may ask for            *)
  Supported,         (* ... that match the atom of this run                 *)
  Modes,             (* execution modes a run may be created with           *)
  MaxStageAttempts,  (* attempts at a stage before a command gives up       *)
  MaxDisturbances    (* bound: crashes, provider errors, malformed or       *)
                     (* flawed answers and unusable responses, together     *)

ASSUME FamiliesAssumption ==
  Supported \subseteq Families /\ "any" \notin Families /\ "none" \notin Families
ASSUME ModesAssumption == Modes \subseteq {"manual", "api"}
ASSUME AttemptsAssumption == MaxStageAttempts \in Nat \ {0}
ASSUME BoundsAssumption == MaxDisturbances \in Nat

VARIABLES
  disk,         (* real_item_state.json                                     *)
  store,        (* artifacts in the order they were saved; id = position    *)
  packets,      (* packet files                                             *)
  responses,    (* response files                                           *)
  outdir,       (* what the files of the output directory were made from    *)
  mem,          (* the command's copy of the state                          *)
  pc,           (* where the command is                                     *)
  then,         (* where it goes once the state is written                  *)
  ask,          (* the family it was asked to use, until it is resolved     *)
  disturbances  (* how much of MaxDisturbances is used up                   *)

files == <<packets, responses, outdir>>
vars == <<disk, store, files, mem, pc, then, ask, disturbances>>

-----------------------------------------------------------------------------

Position == [item_blueprint |-> 1, draft_item |-> 2, solve |-> 3,
             critique |-> 4, revise |-> 5, validate |-> 6, render |-> 7]

Stages == DOMAIN Position
RemoteStages == {"draft_item", "solve", "critique", "revise"}

(* _build_stage_inputs, and the inputs _validate and _render_bundle name.  *)
Needs(k) ==
  {j \in Stages :
     <<j, k>> \in {<<"item_blueprint", "draft_item">>, <<"draft_item", "solve">>,
                   <<"solve", "critique">>, <<"solve", "revise">>,
                   <<"critique", "revise">>, <<"revise", "validate">>,
                   <<"critique", "validate">>, <<"revise", "render">>,
                   <<"validate", "render">>}}

(* What an answer is worth: a flawed one fails the validator suite, a      *)
(* leaky one only the gauntlet's own checks on top of it.                  *)
Contents == {"sound", "flawed", "leaky"}

AnswersTo(k) ==
  {c \in Contents : /\ c = "leaky" => k = "revise"
                    /\ c = "flawed" => k \in {"revise", "critique"}}

RunStatus ==
  {"absent", "pending", "running", "waiting_manual", "failed", "completed"}
StageStatus == {"none", "waiting_manual", "succeeded", "failed"}
Errors == {"none", "malformed", "provider", "bad_response", "blocked"}

Record ==
  [stage : Stages, attempt : Nat, status : StageStatus, inputs : SUBSET Nat,
   output : Nat]

State ==
  [status : RunStatus, mode : {"manual", "api"}, family : Families \cup {"none"},
   atom : Nat, outputs : [Stages -> Nat], stages : [Stages -> StageStatus],
   attempts : [Stages -> Nat], validation : Nat, lineage : Nat, bundle : Nat,
   error : Errors, history : Seq(Record)]

(* log is the stage history a lineage artifact carries.                    *)
Artifact ==
  [stage : Stages \cup {"input_atom", "lineage"}, from : SUBSET Nat,
   content : Contents \cup Families, log : Seq(Record)]

FreshState(m) ==
  [status |-> "pending", mode |-> m, family |-> "none", atom |-> 0,
   outputs |-> [k \in Stages |-> 0], stages |-> [k \in Stages |-> "none"],
   attempts |-> [k \in Stages |-> 0], validation |-> 0, lineage |-> 0,
   bundle |-> 0, error |-> "none", history |-> <<>>]

NoState == [FreshState("api") EXCEPT !.status = "absent"]

Saved(k, from, c) == [stage |-> k, from |-> from, content |-> c, log |-> <<>>]

InputsOf(s, k) ==
  {s.outputs[j] : j \in Needs(k)}
    \cup (IF k = "draft_item" THEN {s.atom} ELSE {})
    \cup (IF k = "render" THEN {s.validation} ELSE {})

(* The n-th attempt at stage k has come to an end, or to its packet.       *)
Logged(s, k, n, status, inputs, out) ==
  [s EXCEPT !.stages[k] = status,
            !.outputs[k] = out,
            !.history = Append(@, [stage |-> k, attempt |-> n, status |-> status,
                                   inputs |-> inputs, output |-> out])]

Counted(s, k, n) == [s EXCEPT !.attempts[k] = n]

-----------------------------------------------------------------------------

Disturb(bad) ==
  IF bad
  THEN /\ disturbances < MaxDisturbances
       /\ disturbances' = disturbances + 1
  ELSE UNCHANGED disturbances

WriteNext(s, next) ==
  /\ mem' = s
  /\ pc' = "write"
  /\ then' = next

(* _save_state.                                                            *)
WriteState ==
  /\ pc = "write"
  /\ disk' = mem
  /\ pc' = then
  /\ mem' = IF then = "idle" THEN NoState ELSE mem
  /\ UNCHANGED <<store, files, then, ask, disturbances>>

(* Mutant: a failed run is started over.                                   *)
InvokeStartsOver(m, f) ==
  /\ pc = "idle"
  /\ ask' = f
  /\ \/ /\ disk.status \in {"absent", "failed"}
        /\ WriteNext(FreshState(m), "family")
     \/ /\ disk.status \notin {"absent", "failed"}
        /\ disk.mode = m
        /\ mem' = disk
        /\ pc' = "family"
        /\ UNCHANGED then
  /\ UNCHANGED <<disk, store, files, disturbances>>

(* run: _create_or_load_state; another mode than the run's is refused.     *)
Invoke(m, f) ==
  /\ pc = "idle"
  /\ ask' = f
  /\ \/ /\ disk.status = "absent"
        /\ WriteNext(FreshState(m), "family")
     \/ /\ disk.status # "absent"
        /\ disk.mode = m
        /\ mem' = disk
        /\ pc' = "family"
        /\ UNCHANGED then
  /\ UNCHANGED <<disk, store, files, disturbances>>

(* Mutant: a resumed run takes the family it is asked for.                 *)
RequestOverridesRun(s, f) ==
  IF f # "any" THEN Supported \cap {f}
  ELSE IF s.family # "none" THEN {s.family}
  ELSE {g \in Supported : Supported = {g}}

(* The families a request may lead to: the run's, once it has one; before, *)
(* a supported one, which has to be named if there are several.            *)
Candidates(s, f) ==
  IF s.family # "none" THEN (IF f \in {"any", s.family} THEN {s.family} ELSE {})
  ELSE IF f # "any" THEN Supported \cap {f}
  ELSE {g \in Supported : Supported = {g}}

(* _resolve_family_for_state; the choice is saved at once.                 *)
ResolveFamily ==
  /\ pc = "family"
  /\ \E f \in Candidates(mem, ask) :
       IF f = mem.family
       THEN pc' = "atom" /\ UNCHANGED <<mem, then>>
       ELSE WriteNext([mem EXCEPT !.family = f], "atom")
  /\ ask' = "any"
  /\ UNCHANGED <<disk, store, files, disturbances>>

(* RealItemFamilySelectionError.                                           *)
RefuseFamily ==
  /\ pc = "family"
  /\ Candidates(mem, ask) = {}
  /\ mem' = NoState
  /\ pc' = "idle"
  /\ ask' = "any"
  /\ UNCHANGED <<disk, store, files, then, disturbances>>

(* The status becomes RUNNING in memory, then _bootstrap_atom.             *)
BootstrapAtom ==
  LET s == [mem EXCEPT !.status = "running"] IN
  /\ pc = "atom"
  /\ \/ /\ s.atom = 0
        /\ store' = Append(store, Saved("input_atom", {}, "sound"))
        /\ WriteNext([s EXCEPT !.atom = Len(store) + 1], "blueprint")
     \/ /\ s.atom # 0
        /\ mem' = s
        /\ pc' = "blueprint"
        /\ UNCHANGED <<store, then>>
  /\ UNCHANGED <<disk, files, ask, disturbances>>

BootstrapBlueprint ==
  /\ pc = "blueprint"
  /\ \/ /\ mem.outputs["item_blueprint"] = 0
        /\ store' = Append(store, Saved("item_blueprint", {mem.atom}, mem.family))
        /\ WriteNext(Logged(Counted(mem, "item_blueprint", 1), "item_blueprint", 1,
                            "succeeded", {mem.atom}, Len(store) + 1), "stage")
     \/ /\ mem.outputs["item_blueprint"] # 0
        /\ pc' = "stage"
        /\ UNCHANGED <<store, mem, then>>
  /\ UNCHANGED <<disk, files, ask, disturbances>>

-----------------------------------------------------------------------------
(* _ensure_remote_stage.                                                   *)

(* The run has come to stage k: those before it have an output.            *)
AtStage(k) ==
  /\ pc = "stage"
  /\ k \in RemoteStages
  /\ mem.outputs[k] = 0
  /\ \A j \in RemoteStages : Position[j] < Position[k] => mem.outputs[j] # 0

(* The packet a waiting stage reads, and the response it expects.          *)
Answers(s, k) ==
  {r \in responses : r.stage = k /\ r.attempt = s.attempts[k]}

AwaitResponse(k) ==
  /\ AtStage(k)
  /\ mem.stages[k] = "waiting_manual"
  /\ Answers(mem, k) = {}
  /\ WriteNext([mem EXCEPT !.status = "waiting_manual"], "idle")
  /\ UNCHANGED <<disk, store, files, ask, disturbances>>

(* _import_manual_stage_response.  A response that does not fit the schema *)
(* fails the run but leaves the stage waiting.                             *)
ImportResponse(k) ==
  LET inputs == InputsOf(mem, k)
      out == Len(store) + 1
  IN
  /\ AtStage(k)
  /\ mem.stages[k] = "waiting_manual"
  /\ \E r \in Answers(mem, k) :
       \/ /\ r.says = "unparsable"
          /\ WriteNext([mem EXCEPT !.status = "failed", !.error = "bad_response"],
                       "idle")
          /\ UNCHANGED store
       \/ /\ r.says # "unparsable"
          /\ store' = store \o <<Saved(k, inputs, r.says), Saved(k, {out}, "sound")>>
          /\ WriteNext([Logged(mem, k, mem.attempts[k], "succeeded", inputs, out) EXCEPT
                          !.status = "running", !.error = "none"], "stage")
  /\ UNCHANGED <<disk, files, ask, disturbances>>

(* Mutant: the packet file is named after the attempt before.              *)
ExportUnderOldName(k) ==
  LET n == mem.attempts[k] + 1
      s == Counted(mem, k, n)
  IN
  /\ AtStage(k)
  /\ mem.mode = "manual"
  /\ mem.stages[k] # "waiting_manual"
  /\ store' = Append(store, Saved(k, InputsOf(s, k), "sound"))
  /\ packets' = packets \cup {[stage |-> k, attempt |-> mem.attempts[k]]}
  /\ WriteNext([Logged(s, k, n, "waiting_manual", InputsOf(s, k), 0) EXCEPT
                  !.status = "waiting_manual"], "idle")
  /\ UNCHANGED <<disk, responses, outdir, ask, disturbances>>

(* Manual mode: packet artifact, packet file, state.                       *)
ExportPacket(k) ==
  LET n == mem.attempts[k] + 1
      s == Counted(mem, k, n)
  IN
  /\ AtStage(k)
  /\ mem.mode = "manual"
  /\ mem.stages[k] # "waiting_manual"
  /\ store' = Append(store, Saved(k, InputsOf(s, k), "sound"))
  /\ packets' = packets \cup {[stage |-> k, attempt |-> n]}
  /\ WriteNext([Logged(s, k, n, "waiting_manual", InputsOf(s, k), 0) EXCEPT
                  !.status = "waiting_manual"], "idle")
  /\ UNCHANGED <<disk, responses, outdir, ask, disturbances>>

(* Mutant: a stage whose attempts are used up is not tried again.          *)
CallWithinBudget(k) ==
  /\ AtStage(k)
  /\ mem.mode = "api"
  /\ mem.stages[k] # "waiting_manual"
  /\ mem.attempts[k] < MaxStageAttempts
  /\ store' = Append(store, Saved(k, InputsOf(mem, k), "sound"))
  /\ mem' = Counted(mem, k, mem.attempts[k] + 1)
  /\ pc' = "call"
  /\ UNCHANGED <<disk, files, then, ask, disturbances>>

(* API mode: packet artifact, then the provider.                           *)
CallProvider(k) ==
  /\ AtStage(k)
  /\ mem.mode = "api"
  /\ mem.stages[k] # "waiting_manual"
  /\ store' = Append(store, Saved(k, InputsOf(mem, k), "sound"))
  /\ mem' = Counted(mem, k, mem.attempts[k] + 1)
  /\ pc' = "call"
  /\ UNCHANGED <<disk, files, then, ask, disturbances>>

(* The stage whose call is in progress.                                    *)
Calling(k) ==
  /\ pc = "call"
  /\ k \in RemoteStages
  /\ mem.outputs[k] = 0
  /\ \A j \in RemoteStages : Position[j] < Position[k] => mem.outputs[j] # 0

ProviderAnswers(k, c) ==
  LET inputs == InputsOf(mem, k)
      out == Len(store) + 2
  IN
  /\ Calling(k)
  /\ c \in AnswersTo(k)
  /\ Disturb(c # "sound")
  /\ store' = store \o <<Saved(k, inputs, "sound"), Saved(k, inputs, c)>>
  /\ WriteNext([Logged(mem, k, mem.attempts[k], "succeeded", inputs, out) EXCEPT
                  !.status = "running", !.error = "none"], "stage")
  /\ UNCHANGED <<disk, files, ask>>

(* Mutants: an attempt that is retried leaves no record; the command gives *)
(* up one attempt early.                                                   *)
RetryUnlogged(k, received) ==
  LET s == [Logged(mem, k, mem.attempts[k], "failed", InputsOf(mem, k), 0) EXCEPT
              !.error = "malformed"]
  IN
  /\ Calling(k)
  /\ Disturb(TRUE)
  /\ store' = IF received
              THEN Append(store, Saved(k, InputsOf(mem, k), "sound"))
              ELSE store
  /\ IF mem.attempts[k] < MaxStageAttempts
     THEN WriteNext([s EXCEPT !.history = mem.history], "stage")
     ELSE WriteNext([s EXCEPT !.status = "failed"], "idle")
  /\ UNCHANGED <<disk, files, ask>>

GiveUpEarly(k, received) ==
  LET s == [Logged(mem, k, mem.attempts[k], "failed", InputsOf(mem, k), 0) EXCEPT
              !.error = "malformed"]
  IN
  /\ Calling(k)
  /\ Disturb(TRUE)
  /\ store' = IF received
              THEN Append(store, Saved(k, InputsOf(mem, k), "sound"))
              ELSE store
  /\ IF mem.attempts[k] + 1 < MaxStageAttempts
     THEN WriteNext(s, "stage")
     ELSE WriteNext([s EXCEPT !.status = "failed"], "idle")
  /\ UNCHANGED <<disk, files, ask>>

(* MalformedProviderResponseError, from the call itself or from normalize  *)
(* once the response was saved: tried again until the attempts are used    *)
(* up; the attempt counter is the run's, not the command's.                *)
ProviderMalformed(k, received) ==
  LET s == [Logged(mem, k, mem.attempts[k], "failed", InputsOf(mem, k), 0) EXCEPT
              !.error = "malformed"]
  IN
  /\ Calling(k)
  /\ Disturb(TRUE)
  /\ store' = IF received
              THEN Append(store, Saved(k, InputsOf(mem, k), "sound"))
              ELSE store
  /\ IF mem.attempts[k] < MaxStageAttempts
     THEN WriteNext(s, "stage")
     ELSE WriteNext([s EXCEPT !.status = "failed"], "idle")
  /\ UNCHANGED <<disk, files, ask>>

(* Any other exception of the call ends the command.                       *)
ProviderRaises(k) ==
  /\ Calling(k)
  /\ Disturb(TRUE)
  /\ WriteNext([Logged(mem, k, mem.attempts[k], "failed", InputsOf(mem, k), 0) EXCEPT
                  !.status = "failed", !.error = "provider"], "idle")
  /\ UNCHANGED <<disk, store, files, ask>>

-----------------------------------------------------------------------------
(* _validate: the outputs are recorded whatever the verdict.               *)
ValidateItem ==
  LET inputs == InputsOf(mem, "validate")
      passed == \A a \in inputs : store[a].content = "sound"
      out == Len(store) + 3
      s == [Logged(mem, "validate", 1, IF passed THEN "succeeded" ELSE "failed",
                   inputs, out) EXCEPT !.validation = out + 1]
  IN
  /\ pc = "stage"
  /\ \A k \in RemoteStages : mem.outputs[k] # 0
  /\ mem.outputs["validate"] = 0 \/ mem.validation = 0
  /\ store' = store \o <<Saved("validate", inputs, "sound"),
                         Saved("validate", inputs, "sound"),
                         Saved("validate", inputs, IF passed THEN "sound" ELSE "flawed"),
                         Saved("validate", {out}, "sound")>>
  /\ IF passed
     THEN WriteNext([s EXCEPT !.error = "none"], "stage")
     ELSE WriteNext([s EXCEPT !.status = "failed", !.error = "blocked"], "idle")
  /\ UNCHANGED <<disk, files, ask, disturbances>>

(* _render_bundle, up to the manifest: item and validation files.          *)
RenderItem ==
  /\ pc = "stage"
  /\ mem.outputs["validate"] # 0
  /\ mem.validation # 0
  /\ mem.bundle = 0
  /\ outdir' = [outdir EXCEPT !.item = mem.outputs["revise"],
                              !.validation = mem.validation]
  /\ store' = Append(store, Saved("render", InputsOf(mem, "render"), "sound"))
  /\ mem' = [Logged(mem, "render", 1, "succeeded", InputsOf(mem, "render"),
                    Len(store) + 1) EXCEPT !.bundle = Len(store) + 1]
  /\ pc' = "lineage"
  /\ UNCHANGED <<disk, packets, responses, then, ask, disturbances>>

(* Mutant: the lineage is taken before the render record is appended.      *)
LineageWithoutRender ==
  LET log == SubSeq(mem.history, 1, Len(mem.history) - 1) IN
  /\ pc = "lineage"
  /\ outdir' = [outdir EXCEPT !.log = log]
  /\ store' = Append(store, [Saved("lineage", {mem.outputs[k] : k \in Stages}
                                     \cup {mem.atom, mem.validation}, "sound")
                               EXCEPT !.log = log])
  /\ WriteNext([mem EXCEPT !.lineage = Len(store) + 1], "stage")
  /\ UNCHANGED <<disk, packets, responses, ask, disturbances>>

(* ... and from there: lineage file, review sheet, lineage artifact.       *)
RenderLineage ==
  /\ pc = "lineage"
  /\ outdir' = [outdir EXCEPT !.log = mem.history]
  /\ store' = Append(store, [Saved("lineage", {mem.outputs[k] : k \in Stages}
                                     \cup {mem.atom, mem.validation}, "sound")
                               EXCEPT !.log = mem.history])
  /\ WriteNext([mem EXCEPT !.lineage = Len(store) + 1], "stage")
  /\ UNCHANGED <<disk, packets, responses, ask, disturbances>>

(* Every stage has an output, the bundle is rendered.                      *)
Finish ==
  /\ pc = "stage"
  /\ mem.bundle # 0
  /\ WriteNext([mem EXCEPT !.status = "completed"], "idle")
  /\ UNCHANGED <<disk, store, files, ask, disturbances>>

-----------------------------------------------------------------------------

(* The operator puts a response file next to a packet, or replaces one.    *)
Respond(f, says) ==
  /\ f \in packets
  /\ disk.outputs[f.stage] = 0
  /\ says \in AnswersTo(f.stage) \cup {"unparsable"}
  /\ Disturb(says # "sound")
  /\ responses' = {r \in responses : r.stage # f.stage \/ r.attempt # f.attempt}
                    \cup {[stage |-> f.stage, attempt |-> f.attempt, says |-> says]}
  /\ UNCHANGED <<disk, store, packets, outdir, mem, pc, then, ask>>

Crash ==
  /\ pc # "idle"
  /\ Disturb(TRUE)
  /\ mem' = NoState
  /\ pc' = "idle"
  /\ UNCHANGED <<disk, store, files, then, ask>>

Init ==
  /\ disk = NoState
  /\ store = <<>>
  /\ packets = {}
  /\ responses = {}
  /\ outdir = [item |-> 0, validation |-> 0, log |-> <<>>]
  /\ mem = NoState
  /\ pc = "idle"
  /\ then = "idle"
  /\ ask = "any"
  /\ disturbances = 0

(* The steps a running command takes by itself.                            *)
Proceed ==
  \/ WriteState
  \/ ResolveFamily
  \/ RefuseFamily
  \/ BootstrapAtom
  \/ BootstrapBlueprint
  \/ \E k \in RemoteStages :
       \/ AwaitResponse(k)
       \/ ImportResponse(k)
       \/ ExportPacket(k)
       \/ CallProvider(k)
       \/ \E c \in Contents : ProviderAnswers(k, c)
  \/ ValidateItem
  \/ RenderItem
  \/ RenderLineage
  \/ Finish

Next ==
  \/ Proceed
  \/ \E m \in Modes, f \in Families \cup {"any"} : Invoke(m, f)
  \/ \E k \in RemoteStages :
       \/ \E received \in BOOLEAN : ProviderMalformed(k, received)
       \/ ProviderRaises(k)
  \/ \E f \in packets, says \in Contents \cup {"unparsable"} : Respond(f, says)
  \/ Crash

Spec == Init /\ [][Next]_vars

TypeOK ==
  /\ disk \in State
  /\ store \in Seq(Artifact)
  /\ packets \subseteq [stage : RemoteStages, attempt : Nat]
  /\ responses \subseteq [stage : RemoteStages, attempt : Nat,
                          says : Contents \cup {"unparsable"}]
  /\ outdir \in [item : Nat, validation : Nat, log : Seq(Record)]
  /\ mem \in State
  /\ pc \in {"idle", "family", "atom", "blueprint", "stage", "call", "lineage",
             "write"}
  /\ then \in {"idle", "family", "atom", "blueprint", "stage"}
  /\ ask \in Families \cup {"any"}
  /\ disturbances \in Nat

-----------------------------------------------------------------------------
(* Safety.                                                                 *)

(* The records that say how the n-th attempt at stage k ended.             *)
Ends(s, k, n) ==
  {h \in DOMAIN s.history :
     /\ s.history[h].stage = k
     /\ s.history[h].attempt = n
     /\ s.history[h].status # "waiting_manual"}

(* Every attempt at a remote stage that the persisted state counts has one *)
(* record of how it ended, unless it is the one waiting for the operator;  *)
(* no record is of an attempt that was not counted.  A crash between the   *)
(* counter, the packet, the response and the state write, a retry inside a *)
(* command and a retry by the next command must not leave a gap or give    *)
(* two attempts one number.                                                *)
AttemptsAreLogged ==
  \A k \in RemoteStages :
    /\ \A n \in 1..disk.attempts[k] :
         IF disk.stages[k] = "waiting_manual" /\ n = disk.attempts[k]
         THEN Ends(disk, k, n) = {}
         ELSE \E h \in DOMAIN disk.history : Ends(disk, k, n) = {h}
    /\ \A h \in DOMAIN disk.history :
         disk.history[h].stage = k =>
           disk.history[h].attempt \in 1..disk.attempts[k]

(* A run that failed on a malformed answer has used up a stage's attempts: *)
(* the counter that decides is the run's, across commands and crashes.     *)
GivesUpOnlyWhenSpent ==
  disk.status = "failed" /\ disk.error = "malformed" =>
    \E k \in RemoteStages :
      disk.stages[k] = "failed" /\ disk.attempts[k] >= MaxStageAttempts

(* The bundle in the output directory, the lineage artifact and the state  *)
(* say the same: a rendering that was interrupted and repeated leaves no   *)
(* file, record or id of the first one behind.                             *)
BundleMatchesState ==
  disk.bundle # 0 =>
    /\ outdir = [item |-> disk.outputs["revise"], validation |-> disk.validation,
                 log |-> disk.history]
    /\ store[disk.lineage].log = disk.history
    /\ {disk.outputs[k] : k \in Stages} \subseteq store[disk.lineage].from

(* The blueprint is the one of the run's family, also when the command     *)
(* that chose the family died before it built the blueprint and the next   *)
(* one asked for another family.                                           *)
BlueprintFitsFamily ==
  disk.outputs["item_blueprint"] # 0 =>
    store[disk.outputs["item_blueprint"]].content = disk.family

(* A stage that waits for the operator has a packet file; the next command *)
(* opens it without looking whether it exists.                             *)
WaitingHasPacket ==
  \A k \in RemoteStages :
    disk.stages[k] = "waiting_manual" =>
      [stage |-> k, attempt |-> disk.attempts[k]] \in packets

(* What last_error ("validation blocked the bundle") and the docstring of  *)
(* RealItemBundleManifest ("Materialized bundle paths after a successful   *)
(* run") say: an item whose validation failed is not bundled.  The code    *)
(* bundles it when the run is resumed: _validate returns True as soon as   *)
(* there is a validate output, whatever the verdict was.                   *)
BlockedIsNotBundled ==
  disk.bundle # 0 => disk.stages["validate"] = "succeeded"

-----------------------------------------------------------------------------
(* The run implements the same promise as the exam's (ExamPipeline):       *)
(* stages are delivered one by one after the stages they are computed      *)
(* from, none is withdrawn, and the bundle is published last.              *)

Pipeline == INSTANCE ExamPipeline WITH
  Last <- "render",
  done <- {k \in Stages : disk.outputs[k] # 0},
  published <- (disk.bundle # 0)

ImplementsPipeline == Pipeline!Spec

-----------------------------------------------------------------------------
(* Liveness.  A command runs on unless it dies; the run is resumed with a  *)
(* family it accepts, and waiting packets are answered, again and again.   *)

Resume == \E m \in Modes, f \in Families \cup {"any"} :
            Candidates(disk, f) # {} /\ Invoke(m, f)

AnswerWaiting == \E f \in packets :
                   disk.stages[f.stage] = "waiting_manual" /\ Respond(f, "sound")

Fairness ==
  /\ WF_vars(Proceed)
  /\ SF_vars(Resume)
  /\ SF_vars(AnswerWaiting)

FairSpec == Spec /\ Fairness

(* Resuming works: whatever dies, fails or is answered badly first, a run  *)
(* whose answers are sound ends in a bundle; in particular a stage whose   *)
(* attempts are used up is still tried once by every further command.      *)
EndsInBundle ==
  <>(disk.bundle # 0 \/ \E a \in DOMAIN store : store[a].content \in {"flawed", "leaky"})
=============================================================================
