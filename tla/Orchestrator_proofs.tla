------------------------- MODULE Orchestrator_proofs -------------------------
(***************************************************************************)
(* Theorems about Orchestrator, for every number of items, every set of    *)
(* processes and every bound.                                              *)
(***************************************************************************)
EXTENDS Orchestrator, TLAPS

(* The stage keys the code names one by one are stage keys.                *)
LEMMA KeyFacts ==
  /\ ExamBlueprint \in Keys
  /\ Assemble \in Keys
  /\ \A k \in Keys : Needs(k) \subseteq Keys
  /\ \A j \in Jobs : j \subseteq Keys
<1>1. ExamBlueprint \in Keys /\ Assemble \in Keys
  BY DEF Keys
<1>2. \A s \in ItemStages, i \in Items : <<s, i>> \in Keys
  BY DEF Keys, ItemKeys
<1>3. \A k \in Keys : Needs(k) \subseteq Keys
  BY DEF Needs
<1>4. \A i \in Items : DraftJob(i) \subseteq Keys
  BY <1>1, <1>2 DEF DraftJob, ItemStages, Position
<1>5. QED
  BY <1>1, <1>3, <1>4 DEF Jobs, PlanJob, ExamJob

LEMMA FreshStateType ==
  /\ \A m \in {"manual", "api"} : FreshState(m) \in State
  /\ NoState \in State
<1>1. ASSUME NEW m \in {"manual", "api"} PROVE FreshState(m) \in State
  BY DEF FreshState, State, RunStatus, StageStatus
<1>2. NoState \in State
  BY <1>1 DEF NoState, State, RunStatus
<1>3. QED
  BY <1>1, <1>2

(* The fields of a persisted state.                                        *)
LEMMA StateFields ==
  ASSUME NEW s \in State
  PROVE  /\ s.outputs \in [Keys -> Nat]
         /\ s.stages \in [Keys -> StageStatus]
         /\ s.attempts \in [Keys -> Nat]
         /\ s.prompts \in [Keys -> Nat]
         /\ s.history \in Seq(Record)
         /\ s.spec \in Nat
         /\ s.bundle \in Nat
BY DEF State

(* Setting a status, the spec or the bundle keeps a persisted state one.   *)
LEMMA StateUpdates ==
  ASSUME NEW s \in State
  PROVE  /\ \A status \in RunStatus : [s EXCEPT !.status = status] \in State
         /\ \A id \in Nat : [s EXCEPT !.spec = id] \in State
         /\ \A id \in Nat : [s EXCEPT !.bundle = id] \in State
BY DEF State

LEMMA RecordType ==
  ASSUME NEW s \in State, NEW k \in Keys, NEW status \in StageStatus,
         NEW inputs \in SUBSET Nat, NEW prompt \in Nat,
         NEW evidence \in SUBSET Nat, NEW output \in Nat
  PROVE  StageRecord(s, k, status, inputs, prompt, evidence, output) \in Record
BY DEF StageRecord, Record, State

(* Every transformer of the persisted state returns a persisted state.     *)
LEMMA TransformerTypes ==
  ASSUME NEW s \in State, NEW k \in Keys
  PROVE  /\ \A n \in Nat : Counted(s, k, n) \in State
         /\ \A id \in Nat : Started(s, k, id) \in State
         /\ InputsOf(s, k) \in SUBSET Nat
         /\ \A r \in Record : Succeeded(s, k, r) \in State
         /\ \A r \in Record : Failed(s, k, r) \in State
         /\ \A inputs \in SUBSET Nat : Waiting(s, k, inputs) \in State
<1>1. /\ s.outputs \in [Keys -> Nat]
      /\ s.stages \in [Keys -> StageStatus]
      /\ s.attempts \in [Keys -> Nat]
      /\ s.prompts \in [Keys -> Nat]
      /\ s.history \in Seq(Record)
      /\ s.spec \in Nat
  BY StateFields
<1>2. ASSUME NEW n \in Nat PROVE Counted(s, k, n) \in State
  <2>1. [s.attempts EXCEPT ![k] = n] \in [Keys -> Nat]
    BY <1>1
  <2>2. QED
    BY <2>1 DEF Counted, State
<1>3. ASSUME NEW id \in Nat PROVE Started(s, k, id) \in State
  <2>1. Counted(s, k, s.attempts[k] + 1) \in State
    BY <1>1, <1>2
  <2>2. Counted(s, k, s.attempts[k] + 1).prompts = s.prompts
    BY DEF Counted, State
  <2>3. [s.prompts EXCEPT ![k] = id] \in [Keys -> Nat]
    BY <1>1
  <2>4. QED
    BY <2>1, <2>2, <2>3 DEF Started, State
<1>4. InputsOf(s, k) \in SUBSET Nat
  BY <1>1, KeyFacts DEF InputsOf
<1>5. ASSUME NEW status \in StageStatus
      PROVE  [s.stages EXCEPT ![k] = status] \in [Keys -> StageStatus]
  BY <1>1
<1>6. ASSUME NEW r \in Record
      PROVE  Succeeded(s, k, r) \in State /\ Failed(s, k, r) \in State
  <2>1. [s.outputs EXCEPT ![k] = r.output] \in [Keys -> Nat]
    BY <1>1 DEF Record
  <2>2. /\ [s.stages EXCEPT ![k] = "succeeded"] \in [Keys -> StageStatus]
        /\ [s.stages EXCEPT ![k] = "failed"] \in [Keys -> StageStatus]
    BY <1>5 DEF StageStatus
  <2>3. Append(s.history, r) \in Seq(Record)
    BY <1>1
  <2>4. Succeeded(s, k, r) \in State
    BY <2>1, <2>2, <2>3 DEF Succeeded, State
  <2>5. Failed(s, k, r) \in State
    BY <2>2, <2>3 DEF Failed, State, RunStatus
  <2>6. QED
    BY <2>4, <2>5
<1>7. ASSUME NEW inputs \in SUBSET Nat PROVE Waiting(s, k, inputs) \in State
  <2> DEFINE r == StageRecord(s, k, "waiting_manual", inputs, s.prompts[k], {}, 0)
  <2>1. r \in Record
    BY <1>1, RecordType DEF StageStatus
  <2>2. [s.stages EXCEPT ![k] = "waiting_manual"] \in [Keys -> StageStatus]
    BY <1>5 DEF StageStatus
  <2>3. Append(s.history, r) \in Seq(Record)
    BY <1>1, <2>1
  <2>4. QED
    BY <2>2, <2>3 DEF Waiting, State, RunStatus
<1>8. QED
  BY <1>2, <1>3, <1>4, <1>6, <1>7

LEMMA BundleOfType ==
  ASSUME NEW s \in State, NEW id \in Nat
  PROVE  BundleOf(s, id) \in State
<1> DEFINE t == Counted(s, Assemble, s.attempts[Assemble] + 1)
<1>1. s.attempts[Assemble] + 1 \in Nat
  BY KeyFacts DEF State
<1>2. t \in State
  BY <1>1, KeyFacts, TransformerTypes
<1>3. StageRecord(t, Assemble, "succeeded", InputsOf(s, Assemble), 0, {}, id)
        \in Record
  BY <1>2, KeyFacts, TransformerTypes, RecordType DEF StageStatus
<1>4. QED
  BY <1>2, <1>3, KeyFacts, TransformerTypes DEF BundleOf

LEMMA SavedType ==
  ASSUME NEW kind \in Kinds, NEW k \in Keys, NEW from \in SUBSET Nat,
         NEW c \in Contents
  PROVE  Saved(kind, k, from, c) \in Artifact
BY DEF Saved, Artifact

LEMMA StoreTypes ==
  ASSUME NEW st \in Seq(Artifact), NEW a \in Artifact, NEW b \in Artifact,
         NEW c \in Artifact
  PROVE  /\ Append(st, a) \in Seq(Artifact)
         /\ st \o <<a, b>> \in Seq(Artifact)
         /\ st \o <<a, b, c>> \in Seq(Artifact)
OBVIOUS

-----------------------------------------------------------------------------

(* Facts every preservation proof starts from: what TypeOK says of the     *)
(* memory of one process.                                                  *)
LEMMA ProcessType ==
  ASSUME TypeOK, NEW p \in Procs
  PROVE  /\ mem[p] \in State
         /\ mem[p].outputs \in [Keys -> Nat]
         /\ mem[p].stages \in [Keys -> StageStatus]
         /\ mem[p].attempts \in [Keys -> Nat]
         /\ mem[p].prompts \in [Keys -> Nat]
         /\ mem[p].history \in Seq(Record)
         /\ mem[p].spec \in Nat
         /\ cur[p] \in Keys
         /\ job[p] \in SUBSET Keys
         /\ Len(store) \in Nat
<1>1. mem[p] \in State /\ cur[p] \in Keys /\ job[p] \in SUBSET Keys
  BY DEF TypeOK
<1>2. Len(store) \in Nat
  BY DEF TypeOK
<1>3. QED
  BY <1>1, <1>2, StateFields

LEMMA AnswerType ==
  ASSUME NEW k, NEW c \in AnswersTo(k)
  PROVE  c \in Contents
BY DEF AnswersTo, Contents

LEMMA DisturbType ==
  ASSUME disturbances \in Nat, NEW bad \in BOOLEAN, Disturb(bad)
  PROVE  disturbances' \in Nat
BY DEF Disturb

(* A step that hands a typed state to WriteNext keeps the processes typed. *)
LEMMA WriteNextType ==
  ASSUME TypeOK, NEW p \in Procs, NEW s \in State,
         NEW next \in {"idle", "bootstrap", "stage"}, WriteNext(p, s, next)
  PROVE  /\ mem' \in [Procs -> State]
         /\ pc' \in [Procs -> {"idle", "bootstrap", "stage", "call", "write"}]
         /\ then' \in [Procs -> {"idle", "bootstrap", "stage"}]
BY DEF TypeOK, WriteNext

LEMMA TypeStep == TypeOK /\ [Next]_vars => TypeOK'
<1> SUFFICES ASSUME TypeOK, [Next]_vars PROVE TypeOK'
  OBVIOUS
<1> USE KeyFacts
<1>1. ASSUME NEW p \in Procs, WriteState(p) PROVE TypeOK'
  BY <1>1, FreshStateType DEF TypeOK, WriteState
<1>2. ASSUME NEW p \in Procs, Bootstrap(p) PROVE TypeOK'
  <2> DEFINE s == [mem[p] EXCEPT !.status = "running"]
  <2>1. s \in State
    BY ProcessType, StateUpdates DEF RunStatus
  <2>2. CASE s.spec = 0 /\ WriteNext(p, [s EXCEPT !.spec = Len(store) + 1], "stage")
             /\ store' = Append(store, Saved("spec", ExamBlueprint, {}, "sound"))
    <3>1. [s EXCEPT !.spec = Len(store) + 1] \in State
      <4>1. Len(store) + 1 \in Nat
        BY ProcessType
      <4> HIDE DEF s
      <4>2. QED
        BY <2>1, <4>1, StateUpdates
    <3>2. store' \in Seq(Artifact)
      <4>1. Saved("spec", ExamBlueprint, {}, "sound") \in Artifact
        BY SavedType DEF Kinds, Contents
      <4>2. QED
        BY <2>2, <4>1 DEF TypeOK
    <3>3. QED
      BY <1>2, <2>2, <3>1, <3>2, WriteNextType DEF TypeOK, Bootstrap
  <2>3. CASE UNCHANGED <<store, then>> /\ mem' = [mem EXCEPT ![p] = s]
             /\ pc' = [pc EXCEPT ![p] = "stage"]
    BY <1>2, <2>1, <2>3 DEF TypeOK, Bootstrap
  <2>4. QED
    BY <1>2, <2>2, <2>3 DEF Bootstrap
<1>3. ASSUME NEW p \in Procs, NEW k \in Keys, AwaitManual(p, k) PROVE TypeOK'
  <2>1. [mem[p] EXCEPT !.status = "waiting_manual"] \in State
    BY ProcessType, StateUpdates DEF RunStatus
  <2>2. QED
    BY <1>3, <2>1, WriteNextType DEF TypeOK, AwaitManual
<1>4. ASSUME NEW p \in Procs, NEW k \in Keys, ExportManual(p, k) PROVE TypeOK'
  <2> DEFINE s == Started(mem[p], k, Len(store) + 1)
             inputs == InputsOf(s, k)
  <2>1. s \in State /\ inputs \in SUBSET Nat /\ s.attempts[k] \in Nat
    <3>1. s \in State
      <4>1. mem[p] \in State /\ Len(store) + 1 \in Nat
        BY ProcessType
      <4>2. QED
        BY <4>1, TransformerTypes
    <3>2. inputs \in SUBSET Nat
      BY <3>1, TransformerTypes
    <3>3. s.attempts \in [Keys -> Nat]
      BY <3>1 DEF State
    <3>4. QED
      BY <3>1, <3>2, <3>3
  <2> HIDE DEF s, inputs
  <2>2. /\ store' = Append(store, Saved("packet", k, inputs, "sound"))
        /\ packets' = {f \in packets : f.key # k \/ f.attempt # s.attempts[k]}
                  \cup {[key |-> k, attempt |-> s.attempts[k], inputs |-> inputs]}
        /\ WriteNext(p, Waiting(s, k, inputs), "idle")
        /\ UNCHANGED <<disk, job, cur, disturbances>>
    BY <1>4 DEF ExportManual, s, inputs
  <2>3. store' \in Seq(Artifact)
    <3>1. Saved("packet", k, inputs, "sound") \in Artifact
      BY <2>1, SavedType DEF Kinds, Contents
    <3>2. QED
      BY <2>2, <3>1 DEF TypeOK
  <2>4. packets' \subseteq Packet
    <3>1. [key |-> k, attempt |-> s.attempts[k], inputs |-> inputs] \in Packet
      BY <2>1 DEF Packet
    <3>2. packets \subseteq Packet
      BY DEF TypeOK
    <3>3. QED
      BY <2>2, <3>1, <3>2
  <2>5. Waiting(s, k, inputs) \in State
    BY <2>1, TransformerTypes
  <2>6. QED
    BY <2>2, <2>3, <2>4, <2>5, WriteNextType DEF TypeOK
<1>5. ASSUME NEW p \in Procs, NEW k \in Keys, CallProvider(p, k) PROVE TypeOK'
  <2> DEFINE s == Started(mem[p], k, Len(store) + 1)
  <2>1. s \in State
    <3>1. mem[p] \in State /\ Len(store) + 1 \in Nat
      BY ProcessType
    <3>2. QED
      BY <3>1, TransformerTypes
  <2>2. Saved("packet", k, InputsOf(s, k), "sound") \in Artifact
    BY <2>1, TransformerTypes, SavedType DEF Kinds, Contents
  <2> HIDE DEF s
  <2>3. /\ store' = Append(store, Saved("packet", k, InputsOf(s, k), "sound"))
        /\ mem' = [mem EXCEPT ![p] = s]
        /\ pc' = [pc EXCEPT ![p] = "call"]
        /\ cur' = [cur EXCEPT ![p] = k]
        /\ UNCHANGED <<disk, packets, then, job, disturbances>>
    BY <1>5 DEF CallProvider, s
  <2>4. QED
    BY <2>1, <2>2, <2>3 DEF TypeOK
<1>6. ASSUME NEW p \in Procs, NEW c \in Contents, ProviderAnswers(p, c)
      PROVE  TypeOK'
  <2> DEFINE k == cur[p]
             s == mem[p]
             inputs == InputsOf(s, k)
             out == Len(store) + 1
             r == StageRecord(s, k, "succeeded", inputs, s.prompts[k], {out + 1}, out)
  <2>1. inputs \in SUBSET Nat
    BY ProcessType, TransformerTypes
  <2>2. r \in Record
    <3>1. s \in State /\ k \in Keys /\ s.prompts[k] \in Nat /\ out \in Nat
      BY ProcessType
    <3>2. {out + 1} \in SUBSET Nat /\ "succeeded" \in StageStatus
      BY <3>1 DEF StageStatus
    <3> HIDE DEF s, k, out, inputs
    <3>3. QED
      BY <2>1, <3>1, <3>2, RecordType DEF r
  <2>3. Succeeded(s, k, r) \in State
    BY <2>2, ProcessType, TransformerTypes
  <2>4. /\ Saved("output", k, inputs, c) \in Artifact
        /\ Saved("receipt", k, {out}, "sound") \in Artifact
    BY <2>1, ProcessType, SavedType DEF Kinds, Contents
  <2> HIDE DEF r, inputs
  <2>5. /\ store' = store \o <<Saved("output", k, inputs, c),
                               Saved("receipt", k, {out}, "sound")>>
        /\ WriteNext(p, Succeeded(s, k, r), "stage")
        /\ UNCHANGED <<disk, packets, job, cur>>
        /\ Disturb(c # "sound")
    BY <1>6 DEF ProviderAnswers, r, inputs
  <2>6. store' \in Seq(Artifact)
    BY <2>4, <2>5, StoreTypes DEF TypeOK
  <2>7. disturbances' \in Nat
    BY <2>5, DisturbType DEF TypeOK
  <2>8. QED
    BY <2>3, <2>5, <2>6, <2>7, WriteNextType DEF TypeOK
<1>7. ASSUME NEW p \in Procs, ProviderFails(p) PROVE TypeOK'
  <2> DEFINE k == cur[p]
             s == mem[p]
             r == StageRecord(s, k, "failed", InputsOf(s, k), s.prompts[k], {}, 0)
  <2>1. r \in Record
    BY ProcessType, TransformerTypes, RecordType DEF StageStatus
  <2>2. Failed(s, k, r) \in State
    BY <2>1, ProcessType, TransformerTypes
  <2> HIDE DEF r
  <2>3. /\ WriteNext(p, Failed(s, k, r), "idle")
        /\ UNCHANGED <<disk, store, packets, job, cur>>
        /\ Disturb(TRUE)
    BY <1>7 DEF ProviderFails, r
  <2>4. disturbances' \in Nat
    BY <2>3, DisturbType DEF TypeOK
  <2>5. QED
    BY <2>2, <2>3, <2>4, WriteNextType DEF TypeOK
<1>8. ASSUME NEW p \in Procs, NEW k \in Keys, ValidateItem(p, k)
      PROVE  TypeOK'
  <2> DEFINE inputs == InputsOf(mem[p], k)
             c == SuiteVerdict(inputs, store)
             out == Len(store) + 3
             s == Counted(mem[p], k, mem[p].attempts[k] + 1)
             bad == StageRecord(s, k, "failed", inputs, 0, {out - 2, out - 1}, out)
             good == StageRecord(s, k, "succeeded", inputs, 0, {out - 2, out - 1}, out)
  <2>1. inputs \in SUBSET Nat /\ c \in Contents
    BY ProcessType, TransformerTypes DEF SuiteVerdict, Contents
  <2>2. s \in State
    <3>1. mem[p].attempts[k] + 1 \in Nat
      BY ProcessType
    <3>2. QED
      BY <3>1, ProcessType, TransformerTypes
  <2>3. out \in Nat /\ {out - 2, out - 1} \in SUBSET Nat
    BY ProcessType
  <2> HIDE DEF inputs, c, out, s
  <2>4. bad \in Record /\ good \in Record
    BY <2>1, <2>2, <2>3, RecordType DEF StageStatus
  <2> HIDE DEF bad, good
  <2>5. Failed(s, k, bad) \in State /\ Succeeded(s, k, good) \in State
    BY <2>2, <2>4, TransformerTypes
  <2>6. /\ store' = store \o <<Saved("receipt", k, inputs, "sound"),
                               Saved("receipt", k, inputs, "sound"),
                               Saved("output", k, inputs, c)>>
        /\ UNCHANGED <<disk, packets, job, cur, disturbances>>
        /\ \/ WriteNext(p, Failed(s, k, bad), "idle")
           \/ WriteNext(p, Succeeded(s, k, good), "stage")
    BY <1>8 DEF ValidateItem, inputs, c, out, s, bad, good
  <2>7. store' \in Seq(Artifact)
    <3>1. /\ Saved("receipt", k, inputs, "sound") \in Artifact
          /\ Saved("output", k, inputs, c) \in Artifact
      BY <2>1, SavedType DEF Kinds, Contents
    <3>2. QED
      BY <2>6, <3>1, StoreTypes DEF TypeOK
  <2>8. QED
    BY <2>5, <2>6, <2>7, WriteNextType DEF TypeOK
<1>9. ASSUME NEW p \in Procs, AssembleExam(p) PROVE TypeOK'
  <2>1. Len(store) + 1 \in Nat /\ mem[p] \in State
    BY ProcessType
  <2>2. BundleOf(mem[p], Len(store) + 1) \in State
    BY <2>1, BundleOfType
  <2>3. InputsOf(mem[p], Assemble) \in SUBSET Nat
    BY <2>1, TransformerTypes
  <2>4. store' \in Seq(Artifact)
    <3>1. Saved("output", Assemble, InputsOf(mem[p], Assemble), "sound") \in Artifact
      BY <2>3, SavedType DEF Kinds, Contents
    <3>2. QED
      BY <1>9, <3>1, StoreTypes DEF TypeOK, AssembleExam
  <2>5. QED
    BY <1>9, <2>2, <2>4, WriteNextType DEF TypeOK, AssembleExam
<1>10. ASSUME NEW p \in Procs, AssembleRaises(p) PROVE TypeOK'
  BY <1>10, FreshStateType DEF TypeOK, AssembleRaises
<1>11. ASSUME NEW p \in Procs, FinishCommand(p) PROVE TypeOK'
  <2> DEFINE s == [mem[p] EXCEPT !.status = "completed"]
             t == IF job[p] = ExamJob
                  THEN [s EXCEPT !.bundle = s.outputs[Assemble]] ELSE s
  <2>1. s \in State
    BY ProcessType, StateUpdates DEF RunStatus
  <2>2. t \in State
    <3> HIDE DEF s
    <3>1. s.outputs[Assemble] \in Nat
      BY <2>1, StateFields
    <3>2. QED
      BY <2>1, <3>1, StateUpdates
  <2> HIDE DEF t
  <2>3. WriteNext(p, t, "idle") /\ UNCHANGED <<disk, store, packets, job, cur, disturbances>>
    BY <1>11 DEF FinishCommand, t
  <2>4. QED
    BY <2>2, <2>3, WriteNextType DEF TypeOK
<1>12. ASSUME NEW p \in Procs, NEW keys \in Jobs, NEW m \in Modes,
              Invoke(p, keys, m)
       PROVE  TypeOK'
  <2>1. job' \in [Procs -> SUBSET Keys]
    BY <1>12 DEF TypeOK, Invoke
  <2>2. FreshState(m) \in State
    BY ModesAssumption, FreshStateType
  <2>3. CASE WriteNext(p, FreshState(m), "bootstrap")
    BY <1>12, <2>1, <2>2, <2>3, WriteNextType DEF TypeOK, Invoke
  <2>4. CASE mem' = [mem EXCEPT ![p] = disk] /\ UNCHANGED then
             /\ pc' = [pc EXCEPT ![p] = "bootstrap"]
    BY <1>12, <2>1, <2>4 DEF TypeOK, Invoke
  <2>5. QED
    BY <1>12, <2>3, <2>4 DEF Invoke
<1>13. ASSUME NEW p \in Procs, NEW f \in packets, NEW c \in Contents,
              ImportManual(p, f, c)
       PROVE  TypeOK'
  <2> DEFINE k == f.key
             out == Len(store) + 1
             n == IF f.attempt > disk.attempts[k] THEN f.attempt ELSE disk.attempts[k]
             t == Counted(disk, k, n)
             s == [t EXCEPT !.status = "pending"]
             q == StageRecord(s, k, "succeeded", f.inputs, s.prompts[k], {out + 1}, out)
             r == [q EXCEPT !.attempt = f.attempt]
  <2>1. k \in Keys /\ f.attempt \in Nat /\ f.inputs \in SUBSET Nat /\ disk \in State
    BY DEF TypeOK, Packet
  <2>2. out \in Nat /\ {out + 1} \in SUBSET Nat
    BY DEF TypeOK
  <2>3. n \in Nat
    BY <2>1, StateFields
  <2> HIDE DEF n, k, out
  <2>4. t \in State
    BY <2>1, <2>3, TransformerTypes
  <2> HIDE DEF t
  <2>5. s \in State
    BY <2>4, StateUpdates DEF RunStatus
  <2> HIDE DEF s
  <2>6. q \in Record
    <3>1. s.prompts[k] \in Nat
      BY <2>1, <2>5, StateFields
    <3>2. QED
      BY <2>1, <2>2, <2>5, <3>1, RecordType DEF StageStatus
  <2> HIDE DEF q
  <2>7. r \in Record
    BY <2>1, <2>6 DEF Record
  <2> HIDE DEF r
  <2>8. Succeeded(s, k, r) \in State
    BY <2>1, <2>5, <2>7, TransformerTypes
  <2>9. /\ store' = store \o <<Saved("output", k, f.inputs, c),
                               Saved("receipt", k, {out}, "sound")>>
        /\ WriteNext(p, Succeeded(s, k, r), "idle")
        /\ UNCHANGED <<disk, packets, job, cur>>
        /\ Disturb(c # "sound" \/ disk.outputs[k] # 0)
    BY <1>13 DEF ImportManual, k, out, n, t, s, q, r
  <2>10. store' \in Seq(Artifact)
    <3>1. /\ Saved("output", k, f.inputs, c) \in Artifact
          /\ Saved("receipt", k, {out}, "sound") \in Artifact
      BY <2>1, <2>2, SavedType DEF Kinds, Contents
    <3>2. QED
      BY <2>9, <3>1, StoreTypes DEF TypeOK
  <2>11. disturbances' \in Nat
    BY <2>9, DisturbType DEF TypeOK
  <2>12. QED
    BY <2>8, <2>9, <2>10, <2>11, WriteNextType DEF TypeOK
<1>14. ASSUME NEW p \in Procs, AssembleOnDemand(p) PROVE TypeOK'
  <2> DEFINE inputs == InputsOf(disk, Assemble)
             s == BundleOf(disk, Len(store) + 1)
             t == [s EXCEPT !.bundle = s.outputs[Assemble]]
  <2>1. disk \in State /\ Len(store) + 1 \in Nat
    BY DEF TypeOK
  <2>2. inputs \in SUBSET Nat
    BY <2>1, TransformerTypes
  <2>3. s \in State
    BY <2>1, BundleOfType
  <2> HIDE DEF inputs, s
  <2>4. t \in State
    <3>1. s.outputs[Assemble] \in Nat
      BY <2>3, StateFields
    <3>2. QED
      BY <2>3, <3>1, StateUpdates
  <2> HIDE DEF t
  <2>5. /\ store' = Append(store, Saved("output", Assemble, inputs, "sound"))
        /\ WriteNext(p, t, "idle")
        /\ UNCHANGED <<disk, packets, job, cur>>
        /\ Disturb(disk.outputs[Assemble] # 0)
    BY <1>14 DEF AssembleOnDemand, inputs, s, t
  <2>6. store' \in Seq(Artifact)
    <3>1. Saved("output", Assemble, inputs, "sound") \in Artifact
      BY <2>2, SavedType DEF Kinds, Contents
    <3>2. QED
      BY <2>5, <3>1, StoreTypes DEF TypeOK
  <2>7. disturbances' \in Nat
    BY <2>5, DisturbType DEF TypeOK
  <2>8. QED
    BY <2>4, <2>5, <2>6, <2>7, WriteNextType DEF TypeOK
<1>15. ASSUME NEW p \in Procs, Crash(p) PROVE TypeOK'
  <2>1. disturbances' \in Nat
    BY <1>15, DisturbType DEF TypeOK, Crash
  <2>2. QED
    BY <1>15, <2>1, FreshStateType DEF TypeOK, Crash
<1>16. CASE UNCHANGED vars
  BY <1>16 DEF TypeOK, vars
<1>17. QED
  BY <1>1, <1>2, <1>3, <1>4, <1>5, <1>6, <1>7, <1>8, <1>9, <1>10, <1>11,
     <1>12, <1>13, <1>14, <1>15, <1>16 DEF Next, Proceed

(* TypeOK holds in every reachable state, whatever the run, the processes  *)
(* and the bounds are.                                                     *)
THEOREM TypeCorrect == Spec => []TypeOK
<1>1. Init => TypeOK
  BY FreshStateType, KeyFacts DEF Init, TypeOK
<1>2. QED
  BY <1>1, TypeStep, PTL DEF Spec

-----------------------------------------------------------------------------
(* The inductive invariant.  First, what saving artifacts cannot disturb.  *)

Extends(st, st2) ==
  Len(st) <= Len(st2) /\ \A a \in 1..Len(st) : st2[a] = st[a]

LEMMA SavingOne ==
  ASSUME NEW st \in Seq(Artifact), NEW a \in Artifact
  PROVE  /\ Extends(st, Append(st, a))
         /\ Len(Append(st, a)) = Len(st) + 1
         /\ Append(st, a)[Len(st) + 1] = a
BY DEF Extends

LEMMA SavingTwo ==
  ASSUME NEW st \in Seq(Artifact), NEW a \in Artifact, NEW b \in Artifact
  PROVE  /\ Extends(st, st \o <<a, b>>)
         /\ Len(st \o <<a, b>>) = Len(st) + 2
         /\ (st \o <<a, b>>)[Len(st) + 1] = a
         /\ (st \o <<a, b>>)[Len(st) + 2] = b
BY DEF Extends

LEMMA SavingThree ==
  ASSUME NEW st \in Seq(Artifact), NEW a \in Artifact, NEW b \in Artifact,
         NEW c \in Artifact
  PROVE  /\ Extends(st, st \o <<a, b, c>>)
         /\ Len(st \o <<a, b, c>>) = Len(st) + 3
         /\ (st \o <<a, b, c>>)[Len(st) + 1] = a
         /\ (st \o <<a, b, c>>)[Len(st) + 2] = b
         /\ (st \o <<a, b, c>>)[Len(st) + 3] = c
BY DEF Extends

(* A coherent state stays coherent when artifacts are added.               *)
LEMMA CoherentGrows ==
  ASSUME NEW st \in Seq(Artifact), NEW st2 \in Seq(Artifact), NEW s \in State,
         Extends(st, st2), Coherent(s, st)
  PROVE  Coherent(s, st2)
<1>1. \A id : Resolves(id, st) => Resolves(id, st2)
  BY DEF Resolves, Extends
<1>2. \A id \in Nat : id # 0 /\ Resolves(id, st) => st2[id] = st[id]
  BY DEF Resolves, Extends
<1>3. \A k \in Keys : s.outputs[k] \in Nat /\ Resolves(s.outputs[k], st)
  BY StateFields DEF Coherent, Audited
<1>4. Audited(s, st2)
  BY <1>1 DEF Coherent, Audited
<1>5. OutputsFit(s, st2)
  BY <1>2, <1>3 DEF Coherent, OutputsFit
<1>6. ASSUME NEW k \in Keys PROVE Explained(s, st2, k)
  BY <1>2, <1>3 DEF Coherent, Explained
<1>7. s.bundle # 0 => st2[s.bundle].kind = "output" /\ st2[s.bundle].key = Assemble
  BY <1>2, StateFields DEF Coherent, Audited
<1>8. QED
  BY <1>4, <1>5, <1>6, <1>7 DEF Coherent

(* A sound artifact stays sound when others are added.                     *)
LEMMA SoundGrows ==
  ASSUME NEW st \in Seq(Artifact), NEW st2 \in Seq(Artifact),
         Extends(st, st2), StoreIsSound(st), NEW a \in 1..Len(st)
  PROVE  SoundArtifact(a, st2)
<1>1. \A x \in 1..Len(st) : st2[x] = st[x] /\ st[x] \in Artifact
  BY DEF Extends
<1>2. SoundArtifact(a, st)
  BY DEF StoreIsSound
<1>3. \A x \in st2[a].from : x \in 0..a - 1
  BY <1>1, <1>2 DEF SoundArtifact
<1>4. \A x \in st2[a].from : x # 0 => x \in 1..Len(st)
  BY <1>3
<1>5. ASSUME st2[a].kind = "output", st2[a].key \in {Validate(i) : i \in Items}
      PROVE  /\ 0 \notin st2[a].from
             /\ st2[a].content = SuiteVerdict(st2[a].from, st2)
  <2>1. 0 \notin st[a].from /\ st[a].content = SuiteVerdict(st[a].from, st)
    BY <1>1, <1>2, <1>5 DEF SoundArtifact
  <2>2. \A x \in st[a].from : st2[x] = st[x]
    BY <1>1, <1>4, <2>1
  <2>3. SuiteVerdict(st[a].from, st) = SuiteVerdict(st[a].from, st2)
    BY <2>2 DEF SuiteVerdict
  <2>4. QED
    BY <1>1, <2>1, <2>3
<1>6. ASSUME st2[a].kind = "output", st2[a].key = Assemble
      PROVE  SoundBundle(a, st2)
  <2>1. SoundBundle(a, st)
    BY <1>1, <1>2, <1>6 DEF SoundArtifact
  <2>2. \A x \in st[a].from : x \in 1..Len(st) /\ st2[x] = st[x]
    BY <1>1, <1>4, <2>1 DEF SoundBundle
  <2>3. \A x \in st[a].from : \A y \in st[x].from : y # 0 => y \in 1..Len(st)
    BY <2>2 DEF StoreIsSound, SoundArtifact
  <2>4. ASSUME NEW i \in Items
        PROVE  \E x \in st2[a].from :
                 /\ st2[x].key = Validate(i)
                 /\ st2[x].content = "sound"
                 /\ \A y \in st2[x].from : y # 0 /\ st2[y].content = "sound"
    <3>1. PICK x \in st[a].from :
            /\ st[x].key = Validate(i)
            /\ st[x].content = "sound"
            /\ \A y \in st[x].from : y # 0 /\ st[y].content = "sound"
      BY <2>1 DEF SoundBundle
    <3>2. \A y \in st[x].from : st2[y] = st[y]
      BY <1>1, <2>3, <3>1
    <3>3. QED
      BY <1>1, <2>2, <3>1, <3>2
  <2>5. QED
    BY <1>1, <2>1, <2>2, <2>4 DEF SoundBundle
<1>7. QED
  BY <1>3, <1>5, <1>6 DEF SoundArtifact

(* An artifact that is neither a validated item nor a bundle need only be  *)
(* computed from earlier ones.                                             *)
LEMMA PlainIsSound ==
  ASSUME NEW st \in Seq(Artifact), NEW a \in 1..Len(st),
         \A x \in st[a].from : x \in 0..a - 1,
         st[a].kind # "output" \/ Remote(st[a].key)
  PROVE  SoundArtifact(a, st)
BY DEF SoundArtifact, Remote, Validate, Assemble

-----------------------------------------------------------------------------
(* Next, what a change of the state in memory cannot disturb.              *)

FreshBundle(s, st) ==
  s.bundle # 0 => st[s.bundle].kind = "output" /\ st[s.bundle].key = Assemble

RecordResolves(r, st) ==
  /\ Resolves(r.prompt, st)
  /\ Resolves(r.output, st)
  /\ \A id \in r.inputs \cup r.evidence : Resolves(id, st)

(* Status, attempts, stages, and any ids that resolve.                     *)
LEMMA CoherentUpdate ==
  ASSUME NEW st, NEW s, NEW t, Coherent(s, st),
         t.outputs = s.outputs, t.history = s.history,
         Resolves(t.spec, st), Resolves(t.bundle, st),
         \A k \in Keys : Resolves(t.prompts[k], st),
         FreshBundle(t, st)
  PROVE  Coherent(t, st)
<1>1. Audited(t, st)
  BY DEF Coherent, Audited
<1>2. OutputsFit(t, st)
  BY DEF Coherent, OutputsFit
<1>3. ASSUME NEW k \in Keys PROVE Explained(t, st, k)
  BY DEF Coherent, Explained, IsSuccess
<1>4. QED
  BY <1>1, <1>2, <1>3 DEF Coherent, FreshBundle

(* A record that does not say a stage succeeded.                           *)
LEMMA CoherentNote ==
  ASSUME NEW st, NEW s \in State, NEW t \in State, NEW r \in Record,
         Coherent(s, st),
         t.outputs = s.outputs, t.history = Append(s.history, r),
         t.spec = s.spec, t.bundle = s.bundle, t.prompts = s.prompts,
         r.status # "succeeded", RecordResolves(r, st)
  PROVE  Coherent(t, st)
<1>1. /\ s.history \in Seq(Record)
      /\ DOMAIN s.history = 1..Len(s.history)
      /\ DOMAIN t.history = 1..Len(s.history) + 1
      /\ \A h \in 1..Len(s.history) : t.history[h] = s.history[h]
      /\ t.history[Len(s.history) + 1] = r
      /\ Len(s.history) \in Nat
  BY StateFields
<1>2. Audited(t, st)
  BY <1>1 DEF Coherent, Audited, RecordResolves
<1>3. OutputsFit(t, st)
  BY DEF Coherent, OutputsFit
<1>4. ASSUME NEW k \in Keys PROVE Explained(t, st, k)
  <2>1. ~ IsSuccess(t, k, Len(s.history) + 1)
    BY <1>1 DEF IsSuccess
  <2>2. \A h \in 1..Len(s.history) : IsSuccess(t, k, h) <=> IsSuccess(s, k, h)
    BY <1>1 DEF IsSuccess
  <2>3. Explained(s, st, k)
    BY DEF Coherent
  <2>4. CASE s.outputs[k] = 0
    <3>1. \A h \in DOMAIN s.history : ~ IsSuccess(s, k, h)
      BY <2>3, <2>4 DEF Explained
    <3>2. \A h \in DOMAIN t.history : ~ IsSuccess(t, k, h)
      BY <1>1, <2>1, <2>2, <3>1
    <3>3. QED
      BY <2>4, <3>2 DEF Explained
  <2>5. CASE s.outputs[k] # 0
    <3>1. PICK h \in DOMAIN s.history :
            /\ IsSuccess(s, k, h)
            /\ \A g \in DOMAIN s.history : g > h => ~ IsSuccess(s, k, g)
            /\ s.history[h].output = s.outputs[k]
            /\ s.history[h].inputs = st[s.outputs[k]].from
      BY <2>3, <2>5 DEF Explained
    <3>2. h \in DOMAIN t.history /\ IsSuccess(t, k, h)
      BY <1>1, <2>2, <3>1
    <3>3. \A g \in DOMAIN t.history : g > h => ~ IsSuccess(t, k, g)
      BY <1>1, <2>1, <2>2, <3>1
    <3>4. QED
      BY <1>1, <2>5, <3>1, <3>2, <3>3 DEF Explained
  <2>6. QED
    BY <2>4, <2>5
<1>5. QED
  BY <1>2, <1>3, <1>4 DEF Coherent

(* A record that says stage k succeeded, with the output it names.         *)
LEMMA CoherentSuccess ==
  ASSUME NEW st, NEW s \in State, NEW t \in State, NEW r \in Record,
         NEW k \in Keys,
         Coherent(s, st),
         t.outputs = [s.outputs EXCEPT ![k] = r.output],
         t.history = Append(s.history, r),
         t.spec = s.spec, t.bundle = s.bundle, t.prompts = s.prompts,
         r.key = k, r.status = "succeeded", RecordResolves(r, st),
         r.output # 0, st[r.output].kind = "output", st[r.output].key = k,
         st[r.output].from = r.inputs,
         k \in {Validate(i) : i \in Items} => st[r.output].content # "flawed"
  PROVE  Coherent(t, st)
<1>1. /\ s.history \in Seq(Record)
      /\ DOMAIN s.history = 1..Len(s.history)
      /\ DOMAIN t.history = 1..Len(s.history) + 1
      /\ \A h \in 1..Len(s.history) : t.history[h] = s.history[h]
      /\ t.history[Len(s.history) + 1] = r
      /\ Len(s.history) \in Nat
  BY StateFields
<1>2. /\ t.outputs[k] = r.output
      /\ \A j \in Keys : j # k => t.outputs[j] = s.outputs[j]
  BY StateFields
<1>3. Audited(t, st)
  BY <1>1, <1>2 DEF Coherent, Audited, RecordResolves
<1>4. OutputsFit(t, st)
  BY <1>2 DEF Coherent, OutputsFit
<1>5. Explained(t, st, k)
  <2>1. IsSuccess(t, k, Len(s.history) + 1)
    BY <1>1 DEF IsSuccess
  <2>2. \A g \in DOMAIN t.history : ~ (g > Len(s.history) + 1)
    BY <1>1
  <2>3. Len(s.history) + 1 \in DOMAIN t.history
    BY <1>1
  <2>4. QED
    BY <1>1, <1>2, <2>1, <2>2, <2>3 DEF Explained
<1>6. ASSUME NEW j \in Keys, j # k PROVE Explained(t, st, j)
  <2>1. ~ IsSuccess(t, j, Len(s.history) + 1)
    BY <1>1, <1>6 DEF IsSuccess
  <2>2. \A h \in 1..Len(s.history) : IsSuccess(t, j, h) <=> IsSuccess(s, j, h)
    BY <1>1 DEF IsSuccess
  <2>3. Explained(s, st, j) /\ t.outputs[j] = s.outputs[j]
    BY <1>2, <1>6 DEF Coherent
  <2>4. CASE s.outputs[j] = 0
    <3>1. \A h \in DOMAIN s.history : ~ IsSuccess(s, j, h)
      BY <2>3, <2>4 DEF Explained
    <3>2. \A h \in DOMAIN t.history : ~ IsSuccess(t, j, h)
      BY <1>1, <2>1, <2>2, <3>1
    <3>3. QED
      BY <2>3, <2>4, <3>2 DEF Explained
  <2>5. CASE s.outputs[j] # 0
    <3>1. PICK h \in DOMAIN s.history :
            /\ IsSuccess(s, j, h)
            /\ \A g \in DOMAIN s.history : g > h => ~ IsSuccess(s, j, g)
            /\ s.history[h].output = s.outputs[j]
            /\ s.history[h].inputs = st[s.outputs[j]].from
      BY <2>3, <2>5 DEF Explained
    <3>2. h \in DOMAIN t.history /\ IsSuccess(t, j, h)
      BY <1>1, <2>2, <3>1
    <3>3. \A g \in DOMAIN t.history : g > h => ~ IsSuccess(t, j, g)
      BY <1>1, <2>1, <2>2, <3>1
    <3>4. QED
      BY <1>1, <2>3, <2>5, <3>1, <3>2, <3>3, SMTT(30) DEF Explained
  <2>6. QED
    BY <2>4, <2>5
<1>7. t.bundle # 0 => st[t.bundle].kind = "output" /\ st[t.bundle].key = Assemble
  BY DEF Coherent
<1>8. QED
  BY <1>3, <1>4, <1>5, <1>6, <1>7 DEF Coherent

(* The state before anything is saved.                                     *)
LEMMA FreshCoherent ==
  ASSUME NEW st, Len(st) \in Nat
  PROVE  /\ \A m \in {"manual", "api"} : Coherent(FreshState(m), st)
         /\ Coherent(NoState, st)
<1>1. ASSUME NEW s \in State, s.outputs = [k \in Keys |-> 0],
             s.prompts = [k \in Keys |-> 0], s.history = <<>>,
             s.spec = 0, s.bundle = 0
      PROVE  Coherent(s, st)
  <2>1. DOMAIN s.history = {}
    BY <1>1
  <2>2. Resolves(0, st)
    BY DEF Resolves
  <2>3. Audited(s, st)
    BY <1>1, <2>1, <2>2 DEF Audited
  <2>4. OutputsFit(s, st)
    BY <1>1 DEF OutputsFit
  <2>5. \A k \in Keys : Explained(s, st, k)
    BY <1>1, <2>1 DEF Explained
  <2>6. QED
    BY <1>1, <2>3, <2>4, <2>5 DEF Coherent
<1>2. ASSUME NEW m \in {"manual", "api"} PROVE Coherent(FreshState(m), st)
  BY <1>1, FreshStateType DEF FreshState
<1>3. Coherent(NoState, st)
  BY <1>1, FreshStateType DEF NoState, FreshState
<1>4. QED
  BY <1>2, <1>3

(* The inputs of a stage resolve.                                          *)
LEMMA InputsResolve ==
  ASSUME NEW st, NEW s, Coherent(s, st), NEW k \in Keys
  PROVE  \A id \in InputsOf(s, k) : Resolves(id, st)
BY KeyFacts DEF InputsOf, Coherent, Audited

-----------------------------------------------------------------------------
(* What the transformers of the state change.                              *)

LEMMA TransformerFields ==
  ASSUME NEW s \in State, NEW k \in Keys
  PROVE  /\ \A n \in Nat : LET t == Counted(s, k, n) IN
              /\ t.outputs = s.outputs
              /\ t.history = s.history
              /\ t.spec = s.spec
              /\ t.bundle = s.bundle
              /\ t.prompts = s.prompts
         /\ \A id \in Nat : LET t == Started(s, k, id) IN
              /\ t.outputs = s.outputs
              /\ t.history = s.history
              /\ t.spec = s.spec
              /\ t.bundle = s.bundle
              /\ t.prompts = [s.prompts EXCEPT ![k] = id]
         /\ \A r \in Record : LET t == Succeeded(s, k, r) IN
              /\ t.outputs = [s.outputs EXCEPT ![k] = r.output]
              /\ t.history = Append(s.history, r)
              /\ t.spec = s.spec
              /\ t.bundle = s.bundle
              /\ t.prompts = s.prompts
         /\ \A r \in Record : LET t == Failed(s, k, r) IN
              /\ t.outputs = s.outputs
              /\ t.history = Append(s.history, r)
              /\ t.spec = s.spec
              /\ t.bundle = s.bundle
              /\ t.prompts = s.prompts
<1>1. ASSUME NEW n \in Nat
      PROVE  LET t == Counted(s, k, n) IN
              /\ t.outputs = s.outputs
              /\ t.history = s.history
              /\ t.spec = s.spec
              /\ t.bundle = s.bundle
              /\ t.prompts = s.prompts
  BY DEF Counted, State
<1>2. ASSUME NEW id \in Nat
      PROVE  LET t == Started(s, k, id) IN
              /\ t.outputs = s.outputs
              /\ t.history = s.history
              /\ t.spec = s.spec
              /\ t.bundle = s.bundle
              /\ t.prompts = [s.prompts EXCEPT ![k] = id]
  BY DEF Started, Counted, State
<1>3. ASSUME NEW r \in Record
      PROVE  LET t == Succeeded(s, k, r) IN
              /\ t.outputs = [s.outputs EXCEPT ![k] = r.output]
              /\ t.history = Append(s.history, r)
              /\ t.spec = s.spec
              /\ t.bundle = s.bundle
              /\ t.prompts = s.prompts
  BY DEF Succeeded, State
<1>4. ASSUME NEW r \in Record
      PROVE  LET t == Failed(s, k, r) IN
              /\ t.outputs = s.outputs
              /\ t.history = Append(s.history, r)
              /\ t.spec = s.spec
              /\ t.bundle = s.bundle
              /\ t.prompts = s.prompts
  BY DEF Failed, State
<1>5. QED
  BY <1>1, <1>2, <1>3, <1>4

(* Coherent, transformer by transformer.                                   *)
LEMMA CountedCoherent ==
  ASSUME NEW st, NEW s \in State, NEW k \in Keys, NEW n \in Nat, Coherent(s, st)
  PROVE  Coherent(Counted(s, k, n), st)
<1> DEFINE t == Counted(s, k, n)
<1>1. /\ t.outputs = s.outputs
      /\ t.history = s.history
      /\ t.spec = s.spec
      /\ t.bundle = s.bundle
      /\ t.prompts = s.prompts
  BY TransformerFields
<1> HIDE DEF t
<1>2. QED
  <2>1. Coherent(t, st)
    BY <1>1, CoherentUpdate DEF Coherent, Audited, FreshBundle
  <2>2. QED
    BY <2>1 DEF t

LEMMA StartedCoherent ==
  ASSUME NEW st, NEW s \in State, NEW k \in Keys, NEW id \in Nat,
         Coherent(s, st), Resolves(id, st)
  PROVE  Coherent(Started(s, k, id), st)
<1> DEFINE t == Started(s, k, id)
<1>1. /\ t.outputs = s.outputs
      /\ t.history = s.history
      /\ t.spec = s.spec
      /\ t.bundle = s.bundle
      /\ t.prompts = [s.prompts EXCEPT ![k] = id]
  BY TransformerFields
<1> HIDE DEF t
<1>2. \A j \in Keys : Resolves(t.prompts[j], st)
  BY <1>1, StateFields DEF Coherent, Audited
<1>3. QED
  <2>1. Coherent(t, st)
    BY <1>1, <1>2, CoherentUpdate DEF Coherent, Audited, FreshBundle
  <2>2. QED
    BY <2>1 DEF t

(* A status, or the id of an artifact in the spec or bundle field.         *)
LEMMA FieldCoherent ==
  ASSUME NEW st, NEW s \in State, Coherent(s, st)
  PROVE  /\ \A status : Coherent([s EXCEPT !.status = status], st)
         /\ \A id : Resolves(id, st) => Coherent([s EXCEPT !.spec = id], st)
         /\ Coherent([s EXCEPT !.bundle = s.outputs[Assemble]], st)
<1>1. ASSUME NEW status PROVE Coherent([s EXCEPT !.status = status], st)
  <2> DEFINE t == [s EXCEPT !.status = status]
  <2>1. /\ t.outputs = s.outputs /\ t.history = s.history /\ t.spec = s.spec
        /\ t.bundle = s.bundle /\ t.prompts = s.prompts
    BY DEF State
  <2> HIDE DEF t
  <2>2. Coherent(t, st)
    BY <2>1, CoherentUpdate DEF Coherent, Audited, FreshBundle
  <2>3. QED
    BY <2>2 DEF t
<1>2. ASSUME NEW id, Resolves(id, st) PROVE Coherent([s EXCEPT !.spec = id], st)
  <2> DEFINE t == [s EXCEPT !.spec = id]
  <2>1. /\ t.outputs = s.outputs /\ t.history = s.history /\ t.spec = id
        /\ t.bundle = s.bundle /\ t.prompts = s.prompts
    BY DEF State
  <2> HIDE DEF t
  <2>2. Coherent(t, st)
    BY <1>2, <2>1, CoherentUpdate DEF Coherent, Audited, FreshBundle
  <2>3. QED
    BY <2>2 DEF t
<1>3. Coherent([s EXCEPT !.bundle = s.outputs[Assemble]], st)
  <2> DEFINE t == [s EXCEPT !.bundle = s.outputs[Assemble]]
  <2>1. /\ t.outputs = s.outputs /\ t.history = s.history /\ t.spec = s.spec
        /\ t.bundle = s.outputs[Assemble] /\ t.prompts = s.prompts
    BY DEF State
  <2> HIDE DEF t
  <2>2. Resolves(t.bundle, st) /\ FreshBundle(t, st)
    BY <2>1, KeyFacts DEF Coherent, Audited, OutputsFit, FreshBundle
  <2>3. Coherent(t, st)
    BY <2>1, <2>2, CoherentUpdate DEF Coherent, Audited
  <2>4. QED
    BY <2>3 DEF t
<1>4. QED
  BY <1>1, <1>2, <1>3

LEMMA FailedCoherent ==
  ASSUME NEW st, NEW s \in State, NEW k \in Keys, NEW r \in Record,
         Coherent(s, st), r.status # "succeeded", RecordResolves(r, st)
  PROVE  Coherent(Failed(s, k, r), st)
<1> DEFINE t == Failed(s, k, r)
<1>1. /\ t.outputs = s.outputs
      /\ t.history = Append(s.history, r)
      /\ t.spec = s.spec
      /\ t.bundle = s.bundle
      /\ t.prompts = s.prompts
      /\ t \in State
  BY TransformerFields, TransformerTypes
<1> HIDE DEF t
<1>2. Coherent(t, st)
  BY <1>1, CoherentNote
<1>3. QED
  BY <1>2 DEF t

LEMMA WaitingCoherent ==
  ASSUME NEW st, NEW s \in State, NEW k \in Keys, NEW inputs \in SUBSET Nat,
         Coherent(s, st), \A id \in inputs : Resolves(id, st)
  PROVE  Coherent(Waiting(s, k, inputs), st)
<1> DEFINE t == Waiting(s, k, inputs)
           r == StageRecord(s, k, "waiting_manual", inputs, s.prompts[k], {}, 0)
<1>1. r \in Record
  BY StateFields, RecordType DEF StageStatus
<1>2. r.status # "succeeded" /\ RecordResolves(r, st)
  <2>1. r.prompt = s.prompts[k] /\ r.output = 0 /\ r.inputs = inputs /\ r.evidence = {}
        /\ r.status = "waiting_manual"
    BY DEF StageRecord
  <2>2. Resolves(0, st)
    <3>1. Resolves(s.prompts[k], st)
      BY DEF Coherent, Audited
    <3>2. QED
      BY <3>1, StateFields DEF Resolves
  <2> HIDE DEF r
  <2>3. QED
    BY <2>1, <2>2 DEF RecordResolves, Coherent, Audited
<1> HIDE DEF r
<1>3. /\ t.outputs = s.outputs
      /\ t.history = Append(s.history, r)
      /\ t.spec = s.spec
      /\ t.bundle = s.bundle
      /\ t.prompts = s.prompts
  BY DEF Waiting, State, r
<1>4. t \in State
  BY TransformerTypes
<1> HIDE DEF t
<1>5. Coherent(t, st)
  BY <1>1, <1>2, <1>3, <1>4, CoherentNote
<1>6. QED
  BY <1>5 DEF t

LEMMA SucceededCoherent ==
  ASSUME NEW st, NEW s \in State, NEW k \in Keys, NEW r \in Record,
         Coherent(s, st),
         r.key = k, r.status = "succeeded", RecordResolves(r, st),
         r.output # 0, st[r.output].kind = "output", st[r.output].key = k,
         st[r.output].from = r.inputs,
         k \in {Validate(i) : i \in Items} => st[r.output].content # "flawed"
  PROVE  Coherent(Succeeded(s, k, r), st)
<1> DEFINE t == Succeeded(s, k, r)
<1>1. /\ t.outputs = [s.outputs EXCEPT ![k] = r.output]
      /\ t.history = Append(s.history, r)
      /\ t.spec = s.spec
      /\ t.bundle = s.bundle
      /\ t.prompts = s.prompts
      /\ t \in State
  BY TransformerFields, TransformerTypes, ZenonT(30)
<1> HIDE DEF t
<1>2. Coherent(t, st)
  BY <1>1, CoherentSuccess
<1>3. QED
  BY <1>2 DEF t

-----------------------------------------------------------------------------
(* The local stages.                                                       *)

(* Only run_exam reaches a local stage.                                    *)
LEMMA LocalJobs ==
  ASSUME NEW keys \in Jobs, NEW k \in keys, ~ Remote(k)
  PROVE  keys = Keys
<1>1. keys # PlanJob
  BY DEF PlanJob, Remote, ExamBlueprint
<1>2. ASSUME NEW i \in Items, keys = DraftJob(i) PROVE FALSE
  BY <1>2 DEF DraftJob, Remote, ExamBlueprint
<1>3. QED
  BY <1>1, <1>2 DEF Jobs, ExamJob

(* It comes to a local stage after the stages it is computed from.         *)
LEMMA NeedsPrecede ==
  ASSUME NEW k \in Keys, ~ Remote(k), NEW j \in Needs(k)
  PROVE  j \in Keys /\ Precedes(j, k)
<1>1. j \in Keys /\ Feeds(j, k)
  BY DEF Needs
<1>2. CASE k = Assemble
  <2>1. j # Assemble
    BY <1>1, <1>2 DEF Feeds, Assemble, ExamBlueprint, FeedsInItem
  <2>2. QED
    BY <1>1, <1>2, <2>1 DEF Precedes
<1>3. CASE k # Assemble
  <2>1. k \in ItemKeys /\ k[1] = "validate"
    BY <1>3 DEF Keys, ExamBlueprint, Assemble, ItemKeys, ItemStages, Position, Remote
  <2>2. j[2] = k[2] /\ <<j[1], k[1]>> \in FeedsInItem
    BY <1>1, <1>3, <2>1 DEF Feeds, Assemble
  <2>3. j[1] \in {"revise", "critique"}
    BY <2>1, <2>2 DEF FeedsInItem
  <2>4. j \in ItemKeys
    BY <1>1, <2>3 DEF Keys, ExamBlueprint, Assemble
  <2>5. Position[j[1]] < Position[k[1]]
    BY <2>1, <2>3 DEF Position
  <2>6. j # k
    BY <2>1, <2>3
  <2>7. QED
    BY <1>1, <2>1, <2>2, <2>4, <2>5, <2>6 DEF Precedes
<1>4. QED
  BY <1>2, <1>3

LEMMA AssembleNeeds ==
  /\ \A i \in Items : Validate(i) \in Needs(Assemble)
  /\ Needs(Assemble) \subseteq {ExamBlueprint} \cup {Validate(i) : i \in Items}
  /\ Assemble \notin {Validate(i) : i \in Items}
<1>1. ASSUME NEW i \in Items PROVE Validate(i) \in Needs(Assemble)
  <2>1. Validate(i) \in Keys
    BY DEF Validate, Keys, ItemKeys, ItemStages, Position
  <2>2. QED
    BY <2>1 DEF Needs, Feeds, Validate
<1>2. ASSUME NEW j \in Needs(Assemble), j # ExamBlueprint
      PROVE  j \in {Validate(i) : i \in Items}
  <2>1. j \in Keys /\ j[1] = "validate"
    BY <1>2 DEF Needs, Feeds, Assemble, FeedsInItem, ExamBlueprint
  <2>2. j \in ItemKeys
    BY <2>1 DEF Keys, ExamBlueprint, Assemble
  <2>3. QED
    BY <2>1, <2>2 DEF ItemKeys, Validate
<1>3. Assemble \notin {Validate(i) : i \in Items}
  BY DEF Assemble, Validate
<1>4. QED
  BY <1>1, <1>2, <1>3

LEMMA LocalInputs ==
  ASSUME TypeOK, ControlOK, NEW p \in Procs, NEW k \in Keys, ~ Remote(k),
         AtStage(p, k)
  PROVE  0 \notin InputsOf(mem[p], k)
<1>1. job[p] = Keys
  <2>1. job[p] \in Jobs /\ k \in job[p]
    BY DEF AtStage, ControlOK
  <2>2. QED
    BY <2>1, LocalJobs
<1>2. \A j \in Needs(k) : mem[p].outputs[j] # 0
  BY <1>1, NeedsPrecede DEF AtStage
<1>3. k # ExamBlueprint
  BY DEF Remote, ExamBlueprint
<1>4. QED
  BY <1>2, <1>3 DEF InputsOf

(* Saving sound artifacts keeps the store sound.                           *)
LEMMA StoreGrowsSound ==
  ASSUME NEW st \in Seq(Artifact), NEW st2 \in Seq(Artifact),
         Extends(st, st2), StoreIsSound(st),
         \A a \in 1..Len(st2) : a > Len(st) => SoundArtifact(a, st2)
  PROVE  StoreIsSound(st2)
<1>1. ASSUME NEW a \in 1..Len(st2), ~ (a > Len(st)) PROVE SoundArtifact(a, st2)
  <2>1. a \in 1..Len(st)
    BY <1>1
  <2>2. QED
    BY <2>1, SoundGrows
<1>2. QED
  BY <1>1 DEF StoreIsSound

(* An item computed from the outputs of its stages carries their verdict.  *)
LEMMA ItemIsSound ==
  ASSUME NEW st \in Seq(Artifact), NEW st2 \in Seq(Artifact), Extends(st, st2),
         NEW a \in 1..Len(st2), a > Len(st),
         st2[a].key # Assemble,
         0 \notin st2[a].from, \A id \in st2[a].from : Resolves(id, st),
         st2[a].content = SuiteVerdict(st2[a].from, st)
  PROVE  SoundArtifact(a, st2)
<1>1. \A x \in st2[a].from : x \in 1..Len(st) /\ st2[x] = st[x] /\ x \in 0..a - 1
  BY DEF Resolves, Extends
<1>2. SuiteVerdict(st2[a].from, st) = SuiteVerdict(st2[a].from, st2)
  BY <1>1 DEF SuiteVerdict
<1>3. QED
  BY <1>1, <1>2 DEF SoundArtifact

(* A bundle of a coherent state whose items all fit is sound.              *)
LEMMA BundleStaysSound ==
  ASSUME NEW st \in Seq(Artifact), NEW st2 \in Seq(Artifact), Extends(st, st2),
         StoreIsSound(st), NEW s \in State, Coherent(s, st),
         0 \notin InputsOf(s, Assemble),
         OrderingAccepts(InputsOf(s, Assemble), st),
         NEW a \in 1..Len(st2), a > Len(st),
         st2[a] = Saved("output", Assemble, InputsOf(s, Assemble), "sound")
  PROVE  SoundArtifact(a, st2)
<1> DEFINE from == InputsOf(s, Assemble)
<1>1. st2[a].kind = "output" /\ st2[a].key = Assemble /\ st2[a].from = from
  BY DEF Saved
<1>2. from = {s.outputs[j] : j \in Needs(Assemble)}
  BY DEF InputsOf, Assemble, ExamBlueprint
<1>3. \A j \in Needs(Assemble) :
        /\ j \in Keys
        /\ s.outputs[j] \in 1..Len(st)
        /\ st[s.outputs[j]].key = j
        /\ st[s.outputs[j]].kind = "output"
        /\ st[s.outputs[j]].content = "sound"
        /\ st2[s.outputs[j]] = st[s.outputs[j]]
  <2>1. ASSUME NEW j \in Needs(Assemble)
        PROVE  j \in Keys /\ s.outputs[j] \in 1..Len(st) /\ s.outputs[j] # 0
    <3>1. j \in Keys /\ s.outputs[j] # 0
      BY <1>2, KeyFacts
    <3>2. Resolves(s.outputs[j], st)
      BY <3>1 DEF Coherent, Audited
    <3>3. QED
      BY <3>1, <3>2 DEF Resolves
  <2>2. QED
    BY <1>2, <2>1 DEF Coherent, OutputsFit, OrderingAccepts, Extends
<1>4. \A x \in from : x \in 0..a - 1
  BY <1>2, <1>3
<1>5. \A x, y \in from : st2[x].key = st2[y].key => x = y
  BY <1>2, <1>3
<1>6. ASSUME NEW i \in Items
      PROVE  \E x \in from :
               /\ st2[x].key = Validate(i)
               /\ st2[x].content = "sound"
               /\ \A y \in st2[x].from : y # 0 /\ st2[y].content = "sound"
  <2> DEFINE x == s.outputs[Validate(i)]
  <2>1. /\ x \in from
        /\ x \in 1..Len(st)
        /\ st[x].key = Validate(i)
        /\ st[x].kind = "output"
        /\ st[x].content = "sound"
        /\ st2[x] = st[x]
    BY <1>2, <1>3, AssembleNeeds
  <2> HIDE DEF x, from
  <2>2. SoundArtifact(x, st)
    BY <2>1 DEF StoreIsSound
  <2>3. 0 \notin st[x].from /\ st[x].content = SuiteVerdict(st[x].from, st)
    BY <2>1, <2>2 DEF SoundArtifact
  <2>4. \A y \in st[x].from : y \in 1..Len(st)
    BY <2>1, <2>2, <2>3 DEF SoundArtifact
  <2>5. \A y \in st[x].from : st[y].content = "sound"
    <3>1. \A y \in st[x].from : st[y].content \in Contents
      <4>1. \A y \in 1..Len(st) : st[y] \in Artifact
        OBVIOUS
      <4>2. \A y \in 1..Len(st) : st[y].content \in Contents
        BY <4>1 DEF Artifact
      <4>3. QED
        BY <2>4, <4>2
    <3>2. QED
      BY <2>1, <2>3, <3>1 DEF SuiteVerdict, Contents
  <2>6. \A y \in st[x].from : y # 0 /\ st2[y].content = "sound"
    BY <2>4, <2>5 DEF Extends
  <2>7. QED
    BY <2>1, <2>6
<1>7. SoundBundle(a, st2)
  BY <1>1, <1>5, <1>6 DEF SoundBundle
<1>8. Assemble \notin {Validate(i) : i \in Items}
  BY AssembleNeeds
<1>9. QED
  BY <1>1, <1>4, <1>7, <1>8 DEF SoundArtifact

-----------------------------------------------------------------------------
(* The invariant, step by step.                                            *)

LEMMA PacketsGrow ==
  ASSUME PacketsOK, packets' = packets, Extends(store, store')
  PROVE  PacketsOK'
BY DEF PacketsOK, Resolves, Extends

(* A step that prepares state s for writing and saves artifacts.           *)
LEMMA WriteStep ==
  ASSUME IInv, TypeOK', NEW p \in Procs, NEW s \in State,
         NEW next \in {"idle", "bootstrap", "stage"},
         WriteNext(p, s, next), UNCHANGED <<disk, job, cur>>,
         next = "idle" \/ job[p] \in Jobs,
         Extends(store, store'), StoreIsSound(store'),
         Coherent(s, store'), PacketsOK'
  PROVE  IInv'
<1>1. store \in Seq(Artifact) /\ store' \in Seq(Artifact)
  BY DEF IInv, TypeOK
<1>2. Coherent(disk', store')
  BY <1>1, CoherentGrows DEF IInv, TypeOK
<1>3. \A q \in Procs : Coherent(mem'[q], store')
  BY <1>1, CoherentGrows DEF IInv, TypeOK, WriteNext
<1>4. ControlOK'
  BY DEF IInv, TypeOK, ControlOK, WriteNext
<1>5. QED
  BY <1>2, <1>3, <1>4 DEF IInv

(* A step that leaves the artifacts alone extends them.                    *)
LEMMA SameStore ==
  ASSUME TypeOK, store' = store
  PROVE  Extends(store, store')
BY DEF TypeOK, Extends

LEMMA WriteStateStep ==
  ASSUME IInv, TypeOK', NEW p \in Procs, WriteState(p) PROVE IInv'
<1>1. store' = store /\ packets' = packets /\ disk' = mem[p]
  BY DEF WriteState
<1>2. \A q \in Procs : mem'[q] = mem[q] \/ mem'[q] = NoState
  BY DEF WriteState, IInv, TypeOK
<1>3. Coherent(NoState, store)
  BY FreshCoherent DEF IInv, TypeOK
<1>4. Coherent(disk', store') /\ \A q \in Procs : Coherent(mem'[q], store')
  BY <1>1, <1>2, <1>3 DEF IInv
<1>5. ControlOK'
  BY DEF IInv, TypeOK, ControlOK, WriteState
<1>6. PacketsOK'
  BY <1>1, SameStore, PacketsGrow DEF IInv
<1>7. QED
  BY <1>1, <1>4, <1>5, <1>6 DEF IInv

LEMMA BootstrapStep ==
  ASSUME IInv, TypeOK', NEW p \in Procs, Bootstrap(p) PROVE IInv'
<1> DEFINE s == [mem[p] EXCEPT !.status = "running"]
           t == [s EXCEPT !.spec = Len(store) + 1]
           a == Saved("spec", ExamBlueprint, {}, "sound")
<1>1. mem[p] \in State /\ Coherent(mem[p], store) /\ Len(store) \in Nat
      /\ store \in Seq(Artifact)
  BY DEF IInv, TypeOK
<1>2. s \in State /\ Coherent(s, store)
  BY <1>1, StateUpdates, FieldCoherent DEF RunStatus
<1>3. job[p] \in Jobs
  BY DEF IInv, ControlOK, Bootstrap
<1> HIDE DEF s
<1>4. CASE WriteNext(p, t, "stage") /\ store' = Append(store, a)
  <2>1. a \in Artifact
    BY KeyFacts, SavedType DEF Kinds, Contents
  <2>2. /\ Extends(store, store')
        /\ Len(store') = Len(store) + 1
        /\ store'[Len(store) + 1] = a
        /\ store' \in Seq(Artifact)
    BY <1>1, <1>4, <2>1, SavingOne DEF TypeOK
  <2>3. SoundArtifact(Len(store) + 1, store')
    <3>1. a.kind # "output" /\ a.from = {}
      BY DEF Saved
    <3>2. QED
      BY <1>1, <2>2, <3>1, PlainIsSound
  <2>4. StoreIsSound(store')
    BY <1>1, <2>2, <2>3, StoreGrowsSound DEF IInv
  <2>5. Coherent(s, store')
    BY <1>1, <1>2, <2>2, CoherentGrows
  <2>6. t \in State /\ Coherent(t, store')
    <3>1. Len(store) + 1 \in Nat /\ Resolves(Len(store) + 1, store')
      BY <1>1, <2>2 DEF Resolves
    <3>2. QED
      BY <1>2, <2>5, <3>1, StateUpdates, FieldCoherent
  <2> HIDE DEF t
  <2>7. PacketsOK'
    BY <2>2, PacketsGrow DEF IInv, Bootstrap
  <2>8. QED
    BY <1>3, <1>4, <2>2, <2>4, <2>6, <2>7, WriteStep DEF Bootstrap
<1>5. CASE mem' = [mem EXCEPT ![p] = s] /\ pc' = [pc EXCEPT ![p] = "stage"]
           /\ UNCHANGED <<store, then>>
  <2>1. \A q \in Procs : Coherent(mem'[q], store')
    BY <1>2, <1>5 DEF IInv, TypeOK
  <2>2. ControlOK'
    BY <1>3, <1>5 DEF IInv, TypeOK, ControlOK, Bootstrap
  <2>3. PacketsOK'
    BY <1>5, SameStore, PacketsGrow DEF IInv, Bootstrap
  <2>4. QED
    BY <1>5, <2>1, <2>2, <2>3 DEF IInv, Bootstrap
<1>6. QED
  BY <1>4, <1>5 DEF Bootstrap, s

LEMMA AwaitManualStep ==
  ASSUME IInv, TypeOK', NEW p \in Procs, NEW k \in Keys, AwaitManual(p, k)
  PROVE  IInv'
<1> DEFINE s == [mem[p] EXCEPT !.status = "waiting_manual"]
<1>1. s \in State /\ Coherent(s, store)
  BY StateUpdates, FieldCoherent DEF RunStatus, IInv, TypeOK
<1> HIDE DEF s
<1>2. /\ WriteNext(p, s, "idle")
      /\ UNCHANGED <<disk, store, packets, job, cur>>
  BY DEF AwaitManual, s
<1>3. Extends(store, store') /\ PacketsOK'
  BY <1>2, SameStore, PacketsGrow DEF IInv
<1>4. QED
  BY <1>1, <1>2, <1>3, WriteStep DEF IInv

LEMMA ExportManualStep ==
  ASSUME IInv, TypeOK', NEW p \in Procs, NEW k \in Keys, ExportManual(p, k)
  PROVE  IInv'
<1> DEFINE id == Len(store) + 1
           s == Started(mem[p], k, id)
           inputs == InputsOf(s, k)
           a == Saved("packet", k, inputs, "sound")
<1>1. mem[p] \in State /\ Coherent(mem[p], store) /\ store \in Seq(Artifact)
      /\ id \in Nat /\ Len(store) \in Nat
  BY DEF IInv, TypeOK
<1>2. s \in State /\ InputsOf(s, k) = InputsOf(mem[p], k)
  <2>1. s \in State
    BY <1>1, TransformerTypes
  <2>2. s.outputs = mem[p].outputs /\ s.spec = mem[p].spec
    BY <1>1, TransformerFields, ZenonT(30)
  <2>3. QED
    BY <2>1, <2>2 DEF InputsOf
<1>3. inputs \in SUBSET Nat /\ \A x \in inputs : Resolves(x, store)
  BY <1>1, <1>2, TransformerTypes, InputsResolve
<1>4. a \in Artifact /\ a.kind = "packet" /\ a.from = inputs
  BY <1>3, SavedType DEF Kinds, Contents, Saved
<1>5. /\ store' = Append(store, a)
      /\ packets' = {f \in packets : f.key # k \/ f.attempt # s.attempts[k]}
                  \cup {[key |-> k, attempt |-> s.attempts[k], inputs |-> inputs]}
      /\ WriteNext(p, Waiting(s, k, inputs), "idle")
      /\ UNCHANGED <<disk, job, cur>>
      /\ Remote(k)
  BY DEF ExportManual
<1> HIDE DEF s, inputs, a
<1>6. /\ Extends(store, store')
      /\ Len(store') = id
      /\ store'[id] = a
      /\ store' \in Seq(Artifact)
  <2>1. /\ Extends(store, Append(store, a))
        /\ Len(Append(store, a)) = Len(store) + 1
        /\ Append(store, a)[Len(store) + 1] = a
    BY <1>1, <1>4, SavingOne
  <2>2. QED
    BY <1>5, <2>1 DEF TypeOK
<1>7. StoreIsSound(store')
  <2>1. \A x \in inputs : x \in 0..id - 1
    BY <1>1, <1>3 DEF Resolves
  <2>2. SoundArtifact(id, store')
    BY <1>1, <1>4, <1>6, <2>1, PlainIsSound
  <2>3. QED
    BY <1>1, <1>6, <2>2, StoreGrowsSound DEF IInv
<1>8. Coherent(s, store')
  <2>1. Coherent(mem[p], store') /\ Resolves(id, store')
    BY <1>1, <1>6, CoherentGrows DEF Resolves
  <2>2. QED
    BY <1>1, <2>1, StartedCoherent DEF s
<1>9. Waiting(s, k, inputs) \in State /\ Coherent(Waiting(s, k, inputs), store')
  <2>1. \A x \in inputs : Resolves(x, store')
    BY <1>1, <1>3, <1>6 DEF Resolves
  <2>2. QED
    BY <1>2, <1>3, <1>8, <2>1, TransformerTypes, WaitingCoherent
<1>10. PacketsOK'
  <2>1. \A x : Resolves(x, store) => Resolves(x, store')
    BY <1>1, <1>6 DEF Resolves
  <2>2. \A f \in packets' :
          f \in packets \/ (f.key = k /\ f.inputs = inputs)
    BY <1>5
  <2>3. \A f \in packets : Remote(f.key) /\ \A x \in f.inputs : Resolves(x, store)
    BY DEF IInv, PacketsOK
  <2>4. QED
    BY <1>3, <1>5, <2>1, <2>2, <2>3 DEF PacketsOK
<1>11. QED
  BY <1>5, <1>6, <1>7, <1>9, <1>10, WriteStep

LEMMA CallProviderStep ==
  ASSUME IInv, TypeOK', NEW p \in Procs, NEW k \in Keys, CallProvider(p, k)
  PROVE  IInv'
<1> DEFINE id == Len(store) + 1
           s == Started(mem[p], k, id)
           inputs == InputsOf(s, k)
           a == Saved("packet", k, inputs, "sound")
<1>1. mem[p] \in State /\ Coherent(mem[p], store) /\ store \in Seq(Artifact)
      /\ id \in Nat /\ Len(store) \in Nat
  BY DEF IInv, TypeOK
<1>2. s \in State /\ InputsOf(s, k) = InputsOf(mem[p], k)
  <2>1. s \in State
    BY <1>1, TransformerTypes
  <2>2. s.outputs = mem[p].outputs /\ s.spec = mem[p].spec
    BY <1>1, TransformerFields, ZenonT(30)
  <2>3. QED
    BY <2>1, <2>2 DEF InputsOf
<1>3. inputs \in SUBSET Nat /\ \A x \in inputs : Resolves(x, store)
  BY <1>1, <1>2, TransformerTypes, InputsResolve
<1>4. a \in Artifact /\ a.kind = "packet" /\ a.from = inputs
  BY <1>3, SavedType DEF Kinds, Contents, Saved
<1>5. /\ store' = Append(store, a)
      /\ mem' = [mem EXCEPT ![p] = s]
      /\ pc' = [pc EXCEPT ![p] = "call"]
      /\ cur' = [cur EXCEPT ![p] = k]
      /\ UNCHANGED <<disk, packets, then, job>>
      /\ Remote(k) /\ pc[p] = "stage"
  BY DEF CallProvider, AtStage
<1> HIDE DEF s, inputs, a
<1>6. /\ Extends(store, store')
      /\ Len(store') = id
      /\ store'[id] = a
      /\ store' \in Seq(Artifact)
  <2>1. /\ Extends(store, Append(store, a))
        /\ Len(Append(store, a)) = Len(store) + 1
        /\ Append(store, a)[Len(store) + 1] = a
    BY <1>1, <1>4, SavingOne
  <2>2. QED
    BY <1>5, <2>1 DEF TypeOK
<1>7. StoreIsSound(store')
  <2>1. \A x \in inputs : x \in 0..id - 1
    BY <1>1, <1>3 DEF Resolves
  <2>2. SoundArtifact(id, store')
    BY <1>1, <1>4, <1>6, <2>1, PlainIsSound
  <2>3. QED
    BY <1>1, <1>6, <2>2, StoreGrowsSound DEF IInv
<1>8. Coherent(s, store')
  <2>1. Coherent(mem[p], store') /\ Resolves(id, store')
    BY <1>1, <1>6, CoherentGrows DEF Resolves
  <2>2. QED
    BY <1>1, <2>1, StartedCoherent DEF s
<1>9. Coherent(disk', store') /\ \A q \in Procs : Coherent(mem'[q], store')
  BY <1>1, <1>5, <1>6, <1>8, CoherentGrows DEF IInv, TypeOK
<1>10. ControlOK'
  BY <1>5 DEF IInv, TypeOK, ControlOK
<1>11. PacketsOK'
  BY <1>5, <1>6, PacketsGrow DEF IInv
<1>12. QED
  BY <1>7, <1>9, <1>10, <1>11 DEF IInv

(* An answer to a remote stage, from the provider or from the operator.    *)
LEMMA AnswerSaved ==
  ASSUME NEW st \in Seq(Artifact), NEW st2, StoreIsSound(st),
         NEW k \in Keys, Remote(k),
         NEW inputs \in SUBSET Nat, \A x \in inputs : Resolves(x, st),
         NEW c \in Contents,
         NEW s \in State, Coherent(s, st),
         NEW r \in Record, r.key = k, r.status = "succeeded",
         r.inputs = inputs, r.output = Len(st) + 1,
         r.evidence = {Len(st) + 2}, Resolves(r.prompt, st),
         st2 = st \o <<Saved("output", k, inputs, c),
                       Saved("receipt", k, {Len(st) + 1}, "sound")>>
  PROVE  /\ Extends(st, st2)
         /\ StoreIsSound(st2)
         /\ Coherent(Succeeded(s, k, r), st2)
<1> DEFINE a == Saved("output", k, inputs, c)
           b == Saved("receipt", k, {Len(st) + 1}, "sound")
<1>1. Len(st) \in Nat /\ Len(st) + 1 \in Nat /\ Len(st) + 2 \in Nat
  OBVIOUS
<1>2. /\ a \in Artifact
      /\ b \in Artifact
      /\ a.kind = "output" /\ a.key = k /\ a.from = inputs /\ a.content = c
      /\ b.kind = "receipt" /\ b.key = k /\ b.from = {Len(st) + 1}
  BY <1>1, SavedType DEF Kinds, Contents, Saved
<1> HIDE DEF a, b
<1>3. st2 = st \o <<a, b>>
  BY DEF a, b
<1>4. /\ Extends(st, st2)
      /\ Len(st2) = Len(st) + 2
      /\ st2[Len(st) + 1] = a
      /\ st2[Len(st) + 2] = b
      /\ st2 \in Seq(Artifact)
  <2>1. /\ Extends(st, st \o <<a, b>>)
        /\ Len(st \o <<a, b>>) = Len(st) + 2
        /\ (st \o <<a, b>>)[Len(st) + 1] = a
        /\ (st \o <<a, b>>)[Len(st) + 2] = b
    BY <1>2, SavingTwo
  <2>2. st \o <<a, b>> \in Seq(Artifact)
    BY <1>2, StoreTypes
  <2>3. QED
    BY <1>3, <2>1, <2>2
<1>5. StoreIsSound(st2)
  <2>1. SoundArtifact(Len(st) + 1, st2)
    <3>1. \A x \in inputs : x \in 0..(Len(st) + 1) - 1
      BY <1>1 DEF Resolves
    <3>2. Len(st) + 1 \in 1..Len(st2)
      BY <1>1, <1>4
    <3>3. QED
      BY <1>2, <1>4, <3>1, <3>2, PlainIsSound
  <2>2. SoundArtifact(Len(st) + 2, st2)
    <3>1. \A x \in b.from : x \in 0..(Len(st) + 2) - 1
      BY <1>1, <1>2
    <3>2. Len(st) + 2 \in 1..Len(st2)
      BY <1>1, <1>4
    <3>3. QED
      BY <1>2, <1>4, <3>1, <3>2, PlainIsSound
  <2>3. \A x \in 1..Len(st2) : x > Len(st) => x = Len(st) + 1 \/ x = Len(st) + 2
    BY <1>1, <1>4
  <2>4. \A x \in 1..Len(st2) : x > Len(st) => SoundArtifact(x, st2)
    BY <2>1, <2>2, <2>3
  <2>5. QED
    BY <1>4, <2>4, StoreGrowsSound
<1>6. Coherent(s, st2)
  BY <1>4, CoherentGrows
<1>7. \A x : Resolves(x, st) => Resolves(x, st2)
  BY <1>1, <1>4 DEF Resolves
<1>8. RecordResolves(r, st2)
  <2>1. Resolves(Len(st) + 1, st2) /\ Resolves(Len(st) + 2, st2)
    BY <1>1, <1>4 DEF Resolves
  <2>2. QED
    BY <1>7, <2>1 DEF RecordResolves
<1>9. k \notin {Validate(i) : i \in Items}
  BY DEF Remote, Validate
<1>10. r.output # 0
  BY <1>1
<1>11. QED
  BY <1>2, <1>4, <1>5, <1>6, <1>8, <1>9, <1>10, SucceededCoherent

LEMMA ProviderAnswersStep ==
  ASSUME IInv, TypeOK', NEW p \in Procs, NEW c \in Contents,
         ProviderAnswers(p, c)
  PROVE  IInv'
<1> DEFINE k == cur[p]
           s == mem[p]
           inputs == InputsOf(s, k)
           out == Len(store) + 1
           r == StageRecord(s, k, "succeeded", inputs, s.prompts[k], {out + 1}, out)
<1>1. /\ s \in State /\ Coherent(s, store) /\ store \in Seq(Artifact)
      /\ k \in Keys /\ out \in Nat /\ Len(store) \in Nat /\ s.prompts[k] \in Nat
      /\ StoreIsSound(store)
  BY ProcessType DEF IInv, TypeOK
<1>2. inputs \in SUBSET Nat /\ \A x \in inputs : Resolves(x, store)
  BY <1>1, TransformerTypes, InputsResolve
<1>3. Remote(k) /\ job[p] \in Jobs
  BY DEF IInv, ControlOK, ProviderAnswers
<1>4. Resolves(s.prompts[k], store)
  BY <1>1 DEF Coherent, Audited
<1> HIDE DEF k, s, inputs
<1>5. r \in Record
  <2>1. {out + 1} \in SUBSET Nat /\ "succeeded" \in StageStatus
    BY <1>1 DEF StageStatus
  <2> HIDE DEF out
  <2>2. QED
    BY <1>1, <1>2, <2>1, RecordType
<1>6. /\ r.key = k /\ r.status = "succeeded" /\ r.inputs = inputs
      /\ r.output = Len(store) + 1 /\ r.evidence = {Len(store) + 2}
      /\ r.prompt = s.prompts[k]
  BY <1>1 DEF StageRecord
<1> HIDE DEF r
<1>7. /\ store' = store \o <<Saved("output", k, inputs, c),
                           Saved("receipt", k, {out}, "sound")>>
      /\ WriteNext(p, Succeeded(s, k, r), "stage")
      /\ UNCHANGED <<disk, packets, job, cur>>
  BY DEF ProviderAnswers, k, s, inputs, r
<1>8. /\ Extends(store, store')
      /\ StoreIsSound(store')
      /\ Coherent(Succeeded(s, k, r), store')
  BY <1>1, <1>2, <1>3, <1>4, <1>5, <1>6, <1>7, AnswerSaved
<1>9. Succeeded(s, k, r) \in State
  BY <1>1, <1>5, TransformerTypes
<1>10. PacketsOK'
  BY <1>7, <1>8, PacketsGrow DEF IInv
<1>11. QED
  BY <1>3, <1>7, <1>8, <1>9, <1>10, WriteStep

LEMMA ProviderFailsStep ==
  ASSUME IInv, TypeOK', NEW p \in Procs, ProviderFails(p)
  PROVE  IInv'
<1> DEFINE k == cur[p]
           s == mem[p]
           inputs == InputsOf(s, k)
           r == StageRecord(s, k, "failed", inputs, s.prompts[k], {}, 0)
<1>1. /\ s \in State /\ Coherent(s, store) /\ store \in Seq(Artifact)
      /\ k \in Keys /\ Len(store) \in Nat /\ s.prompts[k] \in Nat
  BY ProcessType DEF IInv, TypeOK
<1>2. inputs \in SUBSET Nat /\ \A x \in inputs : Resolves(x, store)
  BY <1>1, TransformerTypes, InputsResolve
<1>3. Resolves(s.prompts[k], store) /\ Resolves(0, store)
  BY <1>1 DEF Coherent, Audited, Resolves
<1> HIDE DEF k, s, inputs
<1>4. r \in Record
  BY <1>1, <1>2, RecordType DEF StageStatus
<1>5. r.status # "succeeded" /\ RecordResolves(r, store)
  BY <1>2, <1>3 DEF StageRecord, RecordResolves
<1> HIDE DEF r
<1>6. Failed(s, k, r) \in State /\ Coherent(Failed(s, k, r), store)
  BY <1>1, <1>4, <1>5, TransformerTypes, FailedCoherent
<1>7. /\ WriteNext(p, Failed(s, k, r), "idle")
      /\ UNCHANGED <<disk, store, packets, job, cur>>
  BY DEF ProviderFails, k, s, inputs, r
<1>8. Extends(store, store') /\ PacketsOK'
  BY <1>7, SameStore, PacketsGrow DEF IInv
<1>9. QED
  BY <1>6, <1>7, <1>8, WriteStep DEF IInv

(* A validated item with its report and its suite.                         *)
LEMMA ItemSaved ==
  ASSUME NEW st \in Seq(Artifact), NEW st2, StoreIsSound(st),
         NEW k \in Keys, k # Assemble,
         NEW inputs \in SUBSET Nat, 0 \notin inputs,
         \A x \in inputs : Resolves(x, st),
         st2 = st \o <<Saved("receipt", k, inputs, "sound"),
                       Saved("receipt", k, inputs, "sound"),
                       Saved("output", k, inputs, SuiteVerdict(inputs, st))>>
  PROVE  /\ Extends(st, st2)
         /\ Len(st2) = Len(st) + 3
         /\ st2[Len(st) + 3] = Saved("output", k, inputs, SuiteVerdict(inputs, st))
         /\ StoreIsSound(st2)
<1> DEFINE a == Saved("receipt", k, inputs, "sound")
           c == Saved("output", k, inputs, SuiteVerdict(inputs, st))
<1>1. Len(st) \in Nat /\ Len(st) + 3 \in Nat
  OBVIOUS
<1>2. /\ a \in Artifact
      /\ c \in Artifact
      /\ a.kind = "receipt" /\ a.from = inputs
      /\ c.key = k /\ c.from = inputs /\ c.content = SuiteVerdict(inputs, st)
  <2>1. SuiteVerdict(inputs, st) \in Contents
    BY DEF SuiteVerdict, Contents
  <2>2. QED
    BY <2>1, SavedType DEF Kinds, Contents, Saved
<1> HIDE DEF a, c
<1>3. st2 = st \o <<a, a, c>>
  BY DEF a, c
<1>4. /\ Extends(st, st2)
      /\ Len(st2) = Len(st) + 3
      /\ st2[Len(st) + 1] = a
      /\ st2[Len(st) + 2] = a
      /\ st2[Len(st) + 3] = c
      /\ st2 \in Seq(Artifact)
  <2>1. /\ Extends(st, st \o <<a, a, c>>)
        /\ Len(st \o <<a, a, c>>) = Len(st) + 3
        /\ (st \o <<a, a, c>>)[Len(st) + 1] = a
        /\ (st \o <<a, a, c>>)[Len(st) + 2] = a
        /\ (st \o <<a, a, c>>)[Len(st) + 3] = c
    BY <1>2, SavingThree
  <2>2. st \o <<a, a, c>> \in Seq(Artifact)
    BY <1>2, StoreTypes
  <2>3. QED
    BY <1>3, <2>1, <2>2
<1>5. ASSUME NEW x \in {Len(st) + 1, Len(st) + 2} PROVE SoundArtifact(x, st2)
  <2>1. \A y \in inputs : y \in 0..x - 1
    BY <1>1 DEF Resolves
  <2>2. x \in 1..Len(st2) /\ st2[x] = a
    BY <1>1, <1>4
  <2>3. st2[x].kind # "output" /\ \A y \in st2[x].from : y \in 0..x - 1
    BY <1>2, <2>1, <2>2
  <2>4. QED
    BY <1>4, <2>2, <2>3, PlainIsSound
<1>6. SoundArtifact(Len(st) + 3, st2)
  <2>1. Len(st) + 3 \in 1..Len(st2) /\ Len(st) + 3 > Len(st)
    BY <1>1, <1>4
  <2>2. QED
    BY <1>2, <1>4, <2>1, ItemIsSound
<1>7. \A x \in 1..Len(st2) : x > Len(st) =>
        x = Len(st) + 1 \/ x = Len(st) + 2 \/ x = Len(st) + 3
  BY <1>1, <1>4
<1>8. \A x \in 1..Len(st2) : x > Len(st) => SoundArtifact(x, st2)
  BY <1>5, <1>6, <1>7
<1>9. StoreIsSound(st2)
  BY <1>4, <1>8, StoreGrowsSound
<1>10. QED
  BY <1>4, <1>9 DEF c

LEMMA ValidateItemStep ==
  ASSUME IInv, TypeOK', NEW p \in Procs, NEW k \in Keys, ValidateItem(p, k)
  PROVE  IInv'
<1> DEFINE inputs == InputsOf(mem[p], k)
           c == SuiteVerdict(inputs, store)
           out == Len(store) + 3
           s == Counted(mem[p], k, mem[p].attempts[k] + 1)
           bad == StageRecord(s, k, "failed", inputs, 0, {out - 2, out - 1}, out)
           good == StageRecord(s, k, "succeeded", inputs, 0, {out - 2, out - 1}, out)
<1>1. /\ mem[p] \in State /\ Coherent(mem[p], store) /\ store \in Seq(Artifact)
      /\ Len(store) \in Nat /\ mem[p].attempts[k] + 1 \in Nat /\ out \in Nat
      /\ {out - 2, out - 1} \in SUBSET Nat
      /\ StoreIsSound(store)
  BY ProcessType DEF IInv, TypeOK
<1>2. ~ Remote(k) /\ k # Assemble /\ job[p] \in Jobs
  BY DEF ValidateItem, Remote, Assemble, IInv, ControlOK, AtStage
<1>3. /\ inputs \in SUBSET Nat /\ \A x \in inputs : Resolves(x, store)
      /\ 0 \notin inputs
  BY <1>1, <1>2, TransformerTypes, InputsResolve, LocalInputs
     DEF ValidateItem, IInv
<1>4. s \in State /\ Coherent(s, store)
  BY <1>1, TransformerTypes, CountedCoherent
<1> HIDE DEF inputs, s, out
<1>5. bad \in Record /\ good \in Record
  BY <1>1, <1>3, <1>4, RecordType DEF StageStatus
<1>6. /\ bad.status # "succeeded" /\ bad.prompt = 0 /\ bad.inputs = inputs
      /\ bad.evidence = {out - 2, out - 1} /\ bad.output = out
      /\ good.status = "succeeded" /\ good.prompt = 0 /\ good.inputs = inputs
      /\ good.evidence = {out - 2, out - 1} /\ good.output = out
      /\ good.key = k
  BY DEF StageRecord
<1> HIDE DEF bad, good
<1>7. /\ store' = store \o <<Saved("receipt", k, inputs, "sound"),
                           Saved("receipt", k, inputs, "sound"),
                           Saved("output", k, inputs, SuiteVerdict(inputs, store))>>
      /\ UNCHANGED <<disk, packets, job, cur>>
      /\ \/ WriteNext(p, Failed(s, k, bad), "idle")
         \/ c # "flawed" /\ WriteNext(p, Succeeded(s, k, good), "stage")
  BY DEF ValidateItem, inputs, s, out, bad, good
<1>8. /\ Extends(store, store')
      /\ Len(store') = Len(store) + 3
      /\ store'[out] = Saved("output", k, inputs, SuiteVerdict(inputs, store))
      /\ StoreIsSound(store')
  BY <1>1, <1>2, <1>3, <1>7, ItemSaved DEF out
<1>9. Coherent(s, store')
  BY <1>1, <1>4, <1>8, CoherentGrows DEF TypeOK
<1>10. RecordResolves(bad, store') /\ RecordResolves(good, store')
  <2>1. /\ Resolves(0, store') /\ Resolves(out, store')
        /\ Resolves(out - 1, store') /\ Resolves(out - 2, store')
    BY <1>1, <1>8 DEF Resolves, out
  <2>2. \A x \in inputs : Resolves(x, store')
    BY <1>1, <1>3, <1>8 DEF Resolves
  <2>3. QED
    BY <1>6, <2>1, <2>2 DEF RecordResolves
<1>11. Failed(s, k, bad) \in State /\ Coherent(Failed(s, k, bad), store')
  BY <1>4, <1>5, <1>6, <1>9, <1>10, TransformerTypes, FailedCoherent
<1>12. ASSUME c # "flawed"
       PROVE  Succeeded(s, k, good) \in State
              /\ Coherent(Succeeded(s, k, good), store')
  <2>1. /\ store'[out].kind = "output" /\ store'[out].key = k
        /\ store'[out].from = inputs /\ store'[out].content # "flawed"
    BY <1>8, <1>12 DEF Saved
  <2>2. out # 0
    BY <1>1 DEF out
  <2>3. QED
    BY <1>4, <1>5, <1>6, <1>9, <1>10, <2>1, <2>2, TransformerTypes,
       SucceededCoherent
<1>13. PacketsOK'
  BY <1>7, <1>8, PacketsGrow DEF IInv
<1>14. QED
  BY <1>2, <1>7, <1>8, <1>11, <1>12, <1>13, WriteStep

(* A bundle, assembled by run_exam or on demand.                           *)
LEMMA BundleSaved ==
  ASSUME NEW st \in Seq(Artifact), NEW st2, StoreIsSound(st),
         NEW s \in State, Coherent(s, st),
         0 \notin InputsOf(s, Assemble),
         OrderingAccepts(InputsOf(s, Assemble), st),
         st2 = Append(st, Saved("output", Assemble, InputsOf(s, Assemble), "sound"))
  PROVE  /\ Extends(st, st2)
         /\ StoreIsSound(st2)
         /\ BundleOf(s, Len(st) + 1) \in State
         /\ Coherent(BundleOf(s, Len(st) + 1), st2)
<1> DEFINE inputs == InputsOf(s, Assemble)
           id == Len(st) + 1
           a == Saved("output", Assemble, inputs, "sound")
           t == Counted(s, Assemble, s.attempts[Assemble] + 1)
           r == StageRecord(t, Assemble, "succeeded", inputs, 0, {}, id)
<1>1. /\ Len(st) \in Nat /\ id \in Nat /\ s.attempts[Assemble] + 1 \in Nat
      /\ Assemble \in Keys
  BY KeyFacts, StateFields
<1>2. inputs \in SUBSET Nat /\ \A x \in inputs : Resolves(x, st)
  BY <1>1, TransformerTypes, InputsResolve
<1>3. /\ a \in Artifact
      /\ a.kind = "output" /\ a.key = Assemble /\ a.from = inputs
  BY <1>1, <1>2, SavedType DEF Kinds, Contents, Saved
<1>4. /\ Extends(st, st2)
      /\ Len(st2) = id
      /\ st2[id] = a
      /\ st2 \in Seq(Artifact)
  BY <1>3, SavingOne, StoreTypes
<1>5. StoreIsSound(st2)
  <2>1. id \in 1..Len(st2) /\ id > Len(st)
    BY <1>1, <1>4
  <2>2. SoundArtifact(id, st2)
    BY <1>4, <2>1, BundleStaysSound
  <2>3. \A x \in 1..Len(st2) : x > Len(st) => x = id
    BY <1>1, <1>4
  <2>4. \A x \in 1..Len(st2) : x > Len(st) => SoundArtifact(x, st2)
    BY <2>2, <2>3
  <2>5. QED
    BY <1>4, <2>4, StoreGrowsSound
<1>6. t \in State /\ Coherent(t, st2)
  <2>1. Coherent(s, st2)
    BY <1>4, CoherentGrows
  <2>2. QED
    BY <1>1, <2>1, TransformerTypes, CountedCoherent
<1> HIDE DEF t
<1>7. r \in Record
  BY <1>1, <1>2, <1>6, RecordType DEF StageStatus
<1>8. /\ r.key = Assemble /\ r.status = "succeeded" /\ r.inputs = inputs
      /\ r.prompt = 0 /\ r.evidence = {} /\ r.output = id
  BY DEF StageRecord
<1>9. RecordResolves(r, st2)
  <2>1. Resolves(0, st2) /\ Resolves(id, st2)
    BY <1>1, <1>4 DEF Resolves
  <2>2. \A x \in inputs : Resolves(x, st2)
    BY <1>1, <1>2, <1>4 DEF Resolves
  <2>3. QED
    BY <1>8, <2>1, <2>2 DEF RecordResolves
<1>10. BundleOf(s, id) = Succeeded(t, Assemble, r)
  BY DEF BundleOf, t
<1> HIDE DEF r, inputs
<1>11. id # 0 /\ Assemble \notin {Validate(i) : i \in Items}
  BY <1>1, AssembleNeeds
<1>12. /\ Succeeded(t, Assemble, r) \in State
       /\ Coherent(Succeeded(t, Assemble, r), st2)
  BY <1>1, <1>3, <1>4, <1>6, <1>7, <1>8, <1>9, <1>11, TransformerTypes,
     SucceededCoherent
<1>13. QED
  BY <1>4, <1>5, <1>10, <1>12

LEMMA AssembleExamStep ==
  ASSUME IInv, TypeOK', NEW p \in Procs, AssembleExam(p) PROVE IInv'
<1> DEFINE inputs == InputsOf(mem[p], Assemble)
           t == BundleOf(mem[p], Len(store) + 1)
<1>1. /\ mem[p] \in State /\ Coherent(mem[p], store) /\ store \in Seq(Artifact)
      /\ StoreIsSound(store)
  BY DEF IInv, TypeOK
<1>2. 0 \notin inputs
  <2>1. ~ Remote(Assemble) /\ Assemble \in Keys
    BY KeyFacts DEF Remote, Assemble
  <2>2. QED
    BY <2>1, LocalInputs DEF AssembleExam, IInv
<1>3. job[p] \in Jobs
  BY DEF AssembleExam, AtStage, IInv, ControlOK
<1>4. /\ OrderingAccepts(inputs, store)
      /\ store' = Append(store, Saved("output", Assemble, inputs, "sound"))
      /\ WriteNext(p, t, "stage")
      /\ UNCHANGED <<disk, packets, job, cur>>
  BY DEF AssembleExam
<1>5. Extends(store, store') /\ StoreIsSound(store') /\ t \in State /\ Coherent(t, store')
  BY <1>1, <1>2, <1>4, BundleSaved
<1> HIDE DEF t, inputs
<1>6. PacketsOK'
  BY <1>4, <1>5, PacketsGrow DEF IInv
<1>7. QED
  BY <1>3, <1>4, <1>5, <1>6, WriteStep

(* A command that ends without writing forgets its memory.                 *)
LEMMA ForgetStep ==
  ASSUME IInv, TypeOK', NEW p \in Procs,
         mem' = [mem EXCEPT ![p] = NoState], pc' = [pc EXCEPT ![p] = "idle"],
         job' = [job EXCEPT ![p] = {}],
         UNCHANGED <<disk, store, packets, then, cur>>
  PROVE  IInv'
<1>1. Coherent(NoState, store)
  BY FreshCoherent DEF IInv, TypeOK
<1>2. \A q \in Procs : Coherent(mem'[q], store')
  BY <1>1 DEF IInv, TypeOK
<1>3. ControlOK'
  BY DEF IInv, TypeOK, ControlOK
<1>4. PacketsOK'
  BY SameStore, PacketsGrow DEF IInv
<1>5. QED
  BY <1>2, <1>3, <1>4 DEF IInv

LEMMA FinishCommandStep ==
  ASSUME IInv, TypeOK', NEW p \in Procs, FinishCommand(p) PROVE IInv'
<1> DEFINE s == [mem[p] EXCEPT !.status = "completed"]
           t == IF job[p] = ExamJob
                THEN [s EXCEPT !.bundle = s.outputs[Assemble]] ELSE s
<1>1. s \in State /\ Coherent(s, store)
  BY StateUpdates, FieldCoherent DEF RunStatus, IInv, TypeOK
<1>2. WriteNext(p, t, "idle") /\ UNCHANGED <<disk, store, packets, job, cur>>
  BY DEF FinishCommand
<1> HIDE DEF s
<1>3. t \in State /\ Coherent(t, store)
  <2>1. s.outputs[Assemble] \in Nat
    BY <1>1, KeyFacts, StateFields
  <2>2. QED
    BY <1>1, <2>1, StateUpdates, FieldCoherent
<1> HIDE DEF t
<1>4. Extends(store, store') /\ PacketsOK'
  BY <1>2, SameStore, PacketsGrow DEF IInv
<1>5. QED
  BY <1>2, <1>3, <1>4, WriteStep DEF IInv

LEMMA InvokeStep ==
  ASSUME IInv, TypeOK', NEW p \in Procs, NEW keys \in Jobs, NEW m \in Modes,
         Invoke(p, keys, m)
  PROVE  IInv'
<1>1. /\ job' = [job EXCEPT ![p] = keys]
      /\ UNCHANGED <<disk, store, packets, cur>>
      /\ \/ WriteNext(p, FreshState(m), "bootstrap")
         \/ mem' = [mem EXCEPT ![p] = disk] /\ pc' = [pc EXCEPT ![p] = "bootstrap"]
            /\ UNCHANGED then
  BY DEF Invoke
<1>2. Coherent(FreshState(m), store)
  <2>1. m \in {"manual", "api"}
    BY ModesAssumption
  <2>2. store \in Seq(Artifact)
    BY DEF IInv, TypeOK
  <2>3. QED
    BY <2>1, <2>2, FreshCoherent
<1>3. \A q \in Procs : Coherent(mem'[q], store')
  BY <1>1, <1>2 DEF IInv, TypeOK, WriteNext
<1>4. ControlOK'
  BY <1>1 DEF IInv, TypeOK, ControlOK, WriteNext
<1>5. PacketsOK'
  BY <1>1, SameStore, PacketsGrow DEF IInv
<1>6. QED
  BY <1>1, <1>3, <1>4, <1>5 DEF IInv

LEMMA ImportManualStep ==
  ASSUME IInv, TypeOK', NEW p \in Procs, NEW f \in packets, NEW c \in Contents,
         ImportManual(p, f, c)
  PROVE  IInv'
<1> DEFINE k == f.key
           out == Len(store) + 1
           n == IF f.attempt > disk.attempts[k] THEN f.attempt ELSE disk.attempts[k]
           t == Counted(disk, k, n)
           s == [t EXCEPT !.status = "pending"]
           q == StageRecord(s, k, "succeeded", f.inputs, s.prompts[k], {out + 1}, out)
           r == [q EXCEPT !.attempt = f.attempt]
<1>1. /\ k \in Keys /\ f.attempt \in Nat /\ f.inputs \in SUBSET Nat
      /\ disk \in State /\ store \in Seq(Artifact) /\ StoreIsSound(store)
      /\ Coherent(disk, store)
  BY DEF IInv, TypeOK, Packet
<1>2. out \in Nat /\ Len(store) \in Nat /\ {out + 1} \in SUBSET Nat
  BY <1>1
<1>3. Remote(k) /\ \A x \in f.inputs : Resolves(x, store)
  BY DEF IInv, PacketsOK
<1>4. n \in Nat
  BY <1>1, StateFields
<1> HIDE DEF n, k, out
<1>5. t \in State /\ Coherent(t, store)
  BY <1>1, <1>4, TransformerTypes, CountedCoherent
<1> HIDE DEF t
<1>6. s \in State /\ Coherent(s, store)
  BY <1>5, StateUpdates, FieldCoherent DEF RunStatus
<1> HIDE DEF s
<1>7. s.prompts[k] \in Nat /\ Resolves(s.prompts[k], store)
  BY <1>1, <1>6, StateFields DEF Coherent, Audited
<1>8. q \in Record
  BY <1>1, <1>2, <1>6, <1>7, RecordType DEF StageStatus
<1>9. /\ q.key = k /\ q.status = "succeeded" /\ q.inputs = f.inputs
      /\ q.output = out /\ q.evidence = {out + 1} /\ q.prompt = s.prompts[k]
  BY DEF StageRecord
<1> HIDE DEF q
<1>10. /\ r \in Record
       /\ r.key = k /\ r.status = "succeeded" /\ r.inputs = f.inputs
       /\ r.output = out /\ r.evidence = {out + 1} /\ r.prompt = s.prompts[k]
  BY <1>1, <1>8, <1>9 DEF Record
<1> HIDE DEF r
<1>11. /\ store' = store \o <<Saved("output", k, f.inputs, c),
                            Saved("receipt", k, {out}, "sound")>>
       /\ WriteNext(p, Succeeded(s, k, r), "idle")
       /\ UNCHANGED <<disk, packets, job, cur>>
  BY DEF ImportManual, k, out, n, t, s, q, r
<1>12. r.output = Len(store) + 1 /\ r.evidence = {Len(store) + 2}
  BY <1>2, <1>10 DEF out
<1>13. /\ Extends(store, store')
       /\ StoreIsSound(store')
       /\ Coherent(Succeeded(s, k, r), store')
  <2>1. store' = store \o <<Saved("output", k, f.inputs, c),
                            Saved("receipt", k, {Len(store) + 1}, "sound")>>
    BY <1>11 DEF out
  <2>2. QED
    BY <1>1, <1>3, <1>6, <1>7, <1>10, <1>12, <2>1, AnswerSaved
<1>14. Succeeded(s, k, r) \in State
  BY <1>1, <1>6, <1>10, TransformerTypes
<1>15. PacketsOK'
  BY <1>11, <1>13, PacketsGrow DEF IInv
<1>16. QED
  BY <1>11, <1>13, <1>14, <1>15, WriteStep

LEMMA AssembleOnDemandStep ==
  ASSUME IInv, TypeOK', NEW p \in Procs, AssembleOnDemand(p) PROVE IInv'
<1> DEFINE inputs == InputsOf(disk, Assemble)
           s == BundleOf(disk, Len(store) + 1)
           t == [s EXCEPT !.bundle = s.outputs[Assemble]]
<1>1. /\ disk \in State /\ Coherent(disk, store) /\ store \in Seq(Artifact)
      /\ StoreIsSound(store)
  BY DEF IInv, TypeOK
<1>2. /\ 0 \notin inputs /\ OrderingAccepts(inputs, store)
      /\ store' = Append(store, Saved("output", Assemble, inputs, "sound"))
      /\ WriteNext(p, t, "idle")
      /\ UNCHANGED <<disk, packets, job, cur>>
  BY DEF AssembleOnDemand
<1>3. Extends(store, store') /\ StoreIsSound(store') /\ s \in State /\ Coherent(s, store')
  BY <1>1, <1>2, BundleSaved
<1> HIDE DEF s, inputs
<1>4. t \in State /\ Coherent(t, store')
  <2>1. s.outputs[Assemble] \in Nat
    BY <1>3, KeyFacts, StateFields
  <2>2. QED
    BY <1>3, <2>1, StateUpdates, FieldCoherent
<1> HIDE DEF t
<1>5. PacketsOK'
  BY <1>2, <1>3, PacketsGrow DEF IInv
<1>6. QED
  BY <1>2, <1>3, <1>4, <1>5, WriteStep

LEMMA InductiveInit == Init => IInv
<1> SUFFICES ASSUME Init PROVE IInv
  OBVIOUS
<1>1. TypeOK
  BY FreshStateType, KeyFacts DEF Init, TypeOK
<1>2. Coherent(NoState, store)
  BY FreshCoherent DEF Init
<1>3. StoreIsSound(store)
  BY DEF Init, StoreIsSound
<1>4. ControlOK
  BY DEF Init, ControlOK
<1>5. PacketsOK
  BY DEF Init, PacketsOK
<1>6. QED
  BY <1>1, <1>2, <1>3, <1>4, <1>5 DEF IInv, Init

LEMMA InductiveStep == IInv /\ [Next]_vars => IInv'
<1> SUFFICES ASSUME IInv, [Next]_vars PROVE IInv'
  OBVIOUS
<1>1. TypeOK'
  BY TypeStep DEF IInv
<1>2. ASSUME NEW p \in Procs, Proceed(p) PROVE IInv'
  BY <1>1, <1>2, WriteStateStep, BootstrapStep, AwaitManualStep,
     ExportManualStep, CallProviderStep, ProviderAnswersStep,
     ValidateItemStep, AssembleExamStep, ForgetStep, FinishCommandStep
     DEF Proceed, AssembleRaises
<1>3. ASSUME NEW p \in Procs, Crash(p) PROVE IInv'
  BY <1>1, <1>3, ForgetStep DEF Crash
<1>4. CASE UNCHANGED vars
  <2>1. /\ disk' = disk /\ store' = store /\ packets' = packets /\ mem' = mem
        /\ pc' = pc /\ then' = then /\ job' = job /\ cur' = cur
    BY <1>4 DEF vars
  <2>2. ControlOK' /\ PacketsOK'
    BY <2>1 DEF IInv, ControlOK, PacketsOK
  <2>3. QED
    BY <1>1, <2>1, <2>2 DEF IInv
<1>5. QED
  BY <1>1, <1>2, <1>3, <1>4, InvokeStep, ImportManualStep,
     AssembleOnDemandStep, ProviderFailsStep DEF Next

(* The strengthened invariant holds throughout: every copy of the state,   *)
(* on disk or in a command's memory, is coherent with the saved artifacts  *)
(* and every saved artifact is sound, so it does not matter which command  *)
(* is the next to rewrite the state file.                                  *)
THEOREM Inductive == Spec => []IInv
BY InductiveInit, InductiveStep, PTL DEF Spec

(* The artifact audit passes on the persisted state at all times, with any *)
(* number of concurrent commands, crashes, failures and replaced answers.  *)
THEOREM AuditAlwaysPasses == Spec => []AuditPasses
<1>1. IInv => AuditPasses
  BY DEF IInv, Coherent, AuditPasses
<1>2. QED
  BY <1>1, Inductive, PTL

(* The latest SUCCEEDED record of a stage always names the stage's output  *)
(* and the inputs it was computed from.                                    *)
THEOREM OutputsAlwaysExplained == Spec => []LatestRecordExplainsOutput
<1>1. IInv => LatestRecordExplainsOutput
  BY DEF IInv, Coherent, LatestRecordExplainsOutput
<1>2. QED
  BY <1>1, Inductive, PTL

(* A published bundle has one item per item number, each passed by its own *)
(* suite on inputs without a finding, for exams of any size.               *)
THEOREM BundleAlwaysSound == Spec => []BundleIsSound
<1>1. IInv => BundleIsSound
  <2> SUFFICES ASSUME IInv, disk.bundle # 0 PROVE SoundBundle(disk.bundle, store)
    BY DEF BundleIsSound
  <2>1. disk.bundle \in 1..Len(store)
    <3>1. Resolves(disk.bundle, store) /\ disk.bundle \in Nat
      BY StateFields DEF IInv, TypeOK, Coherent, Audited
    <3>2. QED
      BY <3>1 DEF Resolves
  <2>2. SoundArtifact(disk.bundle, store)
    BY <2>1 DEF IInv, StoreIsSound
  <2>3. QED
    BY <2>2 DEF IInv, Coherent, SoundArtifact
<1>2. QED
  BY <1>1, Inductive, PTL
=============================================================================
