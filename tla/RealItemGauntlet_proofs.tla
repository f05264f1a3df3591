------------------------ MODULE RealItemGauntlet_proofs ------------------------
(***************************************************************************)
(* Type correctness of RealItemGauntlet, for every set of families, every  *)
(* limit on attempts and every number of disturbances; what each of its    *)
(* steps does to the fields of the state (StepMoves); and, from both, what *)
(* survives crashes, retries and resumption: the packets of waiting        *)
(* stages, the family of the blueprint, the ledger of attempts, the order  *)
(* in which stages are delivered, and the bundle.                          *)
(***************************************************************************)
EXTENDS RealItemGauntlet, TLAPS

LEMMA StageFacts ==
  /\ Stages = {"item_blueprint", "draft_item", "solve", "critique", "revise",
               "validate", "render"}
  /\ RemoteStages \subseteq Stages
  /\ \A k \in Stages : Position[k] \in Nat
  /\ \A k \in Stages : Needs(k) \subseteq Stages
BY DEF Stages, Position, RemoteStages, Needs

LEMMA FreshStateType ==
  /\ \A m \in {"manual", "api"} : FreshState(m) \in State
  /\ NoState \in State
<1>1. ASSUME NEW m \in {"manual", "api"} PROVE FreshState(m) \in State
  BY DEF FreshState, State, RunStatus, StageStatus, Errors
<1>2. NoState \in State
  BY <1>1 DEF NoState, State, RunStatus
<1> QED
  BY <1>1, <1>2

LEMMA StateFields ==
  ASSUME NEW s \in State
  PROVE  /\ s.outputs \in [Stages -> Nat]
         /\ s.stages \in [Stages -> StageStatus]
         /\ s.attempts \in [Stages -> Nat]
         /\ s.history \in Seq(Record)
         /\ s.atom \in Nat /\ s.validation \in Nat
         /\ s.lineage \in Nat /\ s.bundle \in Nat
         /\ s.family \in Families \cup {"none"}
         /\ s.mode \in {"manual", "api"}
BY DEF State

(* Setting one plain field of a state.                                     *)
LEMMA StateUpdates ==
  ASSUME NEW s \in State
  PROVE  /\ \A x \in RunStatus : [s EXCEPT !.status = x] \in State
         /\ \A x \in Errors : [s EXCEPT !.error = x] \in State
         /\ \A x \in Families : [s EXCEPT !.family = x] \in State
         /\ \A x \in Nat : [s EXCEPT !.atom = x] \in State
         /\ \A x \in Nat : [s EXCEPT !.validation = x] \in State
         /\ \A x \in Nat : [s EXCEPT !.lineage = x] \in State
         /\ \A x \in Nat : [s EXCEPT !.bundle = x] \in State
         /\ \A x \in RunStatus, e \in Errors :
              [s EXCEPT !.status = x, !.error = e] \in State
BY DEF State

LEMMA SetFamily ==
  ASSUME NEW s \in State, NEW x
  PROVE  LET t == [s EXCEPT !.family = x]
         IN /\ t.family = x
            /\ t.status = s.status /\ t.mode = s.mode /\ t.atom = s.atom
            /\ t.outputs = s.outputs /\ t.stages = s.stages
            /\ t.attempts = s.attempts /\ t.validation = s.validation
            /\ t.lineage = s.lineage /\ t.bundle = s.bundle
            /\ t.error = s.error /\ t.history = s.history
BY DEF State

LEMMA SetLineage ==
  ASSUME NEW s \in State, NEW x
  PROVE  LET t == [s EXCEPT !.lineage = x]
         IN /\ t.lineage = x
            /\ t.status = s.status /\ t.mode = s.mode
            /\ t.family = s.family /\ t.atom = s.atom
            /\ t.outputs = s.outputs /\ t.stages = s.stages
            /\ t.attempts = s.attempts /\ t.validation = s.validation
            /\ t.bundle = s.bundle /\ t.error = s.error
            /\ t.history = s.history
BY DEF State

LEMMA SetBundle ==
  ASSUME NEW s \in State, NEW x
  PROVE  LET t == [s EXCEPT !.bundle = x]
         IN /\ t.bundle = x
            /\ t.status = s.status /\ t.mode = s.mode
            /\ t.family = s.family /\ t.atom = s.atom
            /\ t.outputs = s.outputs /\ t.stages = s.stages
            /\ t.attempts = s.attempts /\ t.validation = s.validation
            /\ t.lineage = s.lineage /\ t.error = s.error
            /\ t.history = s.history
BY DEF State

LEMMA InputsType ==
  ASSUME NEW s \in State, NEW k \in Stages
  PROVE  InputsOf(s, k) \in SUBSET Nat
<1>1. {s.outputs[j] : j \in Needs(k)} \subseteq Nat
  <2>1. ASSUME NEW j \in Needs(k) PROVE s.outputs[j] \in Nat
    <3>1. j \in Stages
      BY StageFacts
    <3> QED
      BY <3>1, StateFields
  <2> QED
    BY <2>1
<1>2. s.atom \in Nat /\ s.validation \in Nat
  BY StateFields
<1> QED
  BY <1>1, <1>2 DEF InputsOf

LEMMA CountedType ==
  ASSUME NEW s \in State, NEW k \in Stages, NEW n \in Nat
  PROVE  /\ Counted(s, k, n) \in State
         /\ Counted(s, k, n) = [s EXCEPT !.attempts = [s.attempts EXCEPT ![k] = n]]
<1>1. [s.attempts EXCEPT ![k] = n] \in [Stages -> Nat]
  BY StateFields
<1> QED
  BY <1>1 DEF Counted, State

LEMMA LoggedType ==
  ASSUME NEW s \in State, NEW k \in Stages, NEW n \in Nat, NEW status \in StageStatus,
         NEW inputs \in SUBSET Nat, NEW out \in Nat
  PROVE  Logged(s, k, n, status, inputs, out) \in State
<1> DEFINE r == [stage |-> k, attempt |-> n, status |-> status,
                 inputs |-> inputs, output |-> out]
<1>1. Append(s.history, r) \in Seq(Record)
  <2>1. r \in Record
    BY DEF Record
  <2> QED
    BY <2>1, StateFields
<1>2. [s.stages EXCEPT ![k] = status] \in [Stages -> StageStatus]
  BY StateFields
<1>3. [s.outputs EXCEPT ![k] = out] \in [Stages -> Nat]
  BY StateFields
<1> QED
  BY <1>1, <1>2, <1>3 DEF Logged, State

LEMMA SavedType ==
  ASSUME NEW k \in Stages \cup {"input_atom", "lineage"}, NEW from \in SUBSET Nat,
         NEW c \in Contents \cup Families
  PROVE  Saved(k, from, c) \in Artifact
<1>1. <<>> \in Seq(Record)
  OBVIOUS
<1> QED
  BY <1>1 DEF Saved, Artifact

(* A plain artifact of a stage; all that most steps save.                  *)
LEMMA PlainType ==
  ASSUME NEW k \in Stages, NEW from \in SUBSET Nat, NEW c \in Contents
  PROVE  Saved(k, from, c) \in Artifact
BY SavedType

LEMMA DisturbType ==
  ASSUME disturbances \in Nat, NEW bad \in BOOLEAN, Disturb(bad)
  PROVE  disturbances' \in Nat
BY DEF Disturb

LEMMA AnswerType ==
  ASSUME NEW k, NEW c \in AnswersTo(k)
  PROVE  c \in Contents
BY DEF AnswersTo

(* What most steps keep of a state.                                        *)
Kept(s, t) ==
  /\ t \in State
  /\ t.mode = s.mode /\ t.family = s.family
  /\ t.outputs = s.outputs /\ t.stages = s.stages
  /\ t.attempts = s.attempts /\ t.history = s.history
  /\ t.bundle = s.bundle

(* ... and of what the bundle is made of.                                   *)
Marked(s, t) == t.validation = s.validation /\ t.lineage = s.lineage

(* t is s after the n-th attempt at stage k ended with the given record.    *)
Ended(s, t, k, n, status, inputs, out) ==
  /\ t \in State
  /\ t.mode = s.mode /\ t.family = s.family
  /\ t.outputs = [s.outputs EXCEPT ![k] = out]
  /\ t.stages = [s.stages EXCEPT ![k] = status]
  /\ t.attempts = s.attempts
  /\ t.history = Append(s.history, [stage |-> k, attempt |-> n, status |-> status,
                                    inputs |-> inputs, output |-> out])

LEMMA KeptTrans ==
  ASSUME NEW s, NEW t, NEW u, Kept(s, t), Kept(t, u)
  PROVE  Kept(s, u)
BY DEF Kept

LEMMA EndedKept ==
  ASSUME NEW s, NEW t, NEW u, NEW k, NEW n, NEW status, NEW inputs, NEW out,
         Ended(s, t, k, n, status, inputs, out), Kept(t, u)
  PROVE  Ended(s, u, k, n, status, inputs, out) /\ u.bundle = t.bundle
BY DEF Kept, Ended

LEMMA StatusKept ==
  ASSUME NEW s \in State, NEW x \in RunStatus
  PROVE  /\ Kept(s, [s EXCEPT !.status = x])
         /\ [s EXCEPT !.status = x].status = x
         /\ [s EXCEPT !.status = x].error = s.error
         /\ Marked(s, [s EXCEPT !.status = x])
BY DEF Kept, State, Marked

LEMMA ErrorKept ==
  ASSUME NEW s \in State, NEW x \in Errors
  PROVE  /\ Kept(s, [s EXCEPT !.error = x])
         /\ [s EXCEPT !.error = x].error = x
         /\ [s EXCEPT !.error = x].status = s.status
BY DEF Kept, State

LEMMA AtomKept ==
  ASSUME NEW s \in State, NEW x \in Nat
  PROVE  /\ Kept(s, [s EXCEPT !.atom = x])
         /\ [s EXCEPT !.atom = x].status = s.status
         /\ [s EXCEPT !.atom = x].error = s.error
         /\ Marked(s, [s EXCEPT !.atom = x])
BY DEF Kept, State, Marked

LEMMA ValidationKept ==
  ASSUME NEW s \in State, NEW x \in Nat
  PROVE  /\ Kept(s, [s EXCEPT !.validation = x])
         /\ [s EXCEPT !.validation = x].status = s.status
         /\ [s EXCEPT !.validation = x].error = s.error
BY DEF Kept, State

LEMMA LineageKept ==
  ASSUME NEW s \in State, NEW x \in Nat
  PROVE  /\ Kept(s, [s EXCEPT !.lineage = x])
         /\ [s EXCEPT !.lineage = x].status = s.status
         /\ [s EXCEPT !.lineage = x].error = s.error
BY DEF Kept, State

LEMMA LoggedEnded ==
  ASSUME NEW s \in State, NEW k \in Stages, NEW n \in Nat, NEW status \in StageStatus,
         NEW inputs \in SUBSET Nat, NEW out \in Nat
  PROVE  /\ Ended(s, Logged(s, k, n, status, inputs, out), k, n, status, inputs, out)
         /\ Logged(s, k, n, status, inputs, out).status = s.status
         /\ Logged(s, k, n, status, inputs, out).error = s.error
         /\ Logged(s, k, n, status, inputs, out).bundle = s.bundle
<1>1. Logged(s, k, n, status, inputs, out) \in State
  BY LoggedType
<1> DEFINE t == Logged(s, k, n, status, inputs, out)
<1>2. /\ t.stages = [s.stages EXCEPT ![k] = status]
      /\ t.outputs = [s.outputs EXCEPT ![k] = out]
      /\ t.history = Append(s.history, [stage |-> k, attempt |-> n, status |-> status,
                                        inputs |-> inputs, output |-> out])
      /\ t.attempts = s.attempts /\ t.status = s.status /\ t.mode = s.mode
      /\ t.family = s.family /\ t.bundle = s.bundle /\ t.error = s.error
  BY DEF Logged, State
<1> HIDE DEF t
<1>3. t \in State
  BY <1>1 DEF t
<1>4. Ended(s, t, k, n, status, inputs, out)
  BY <1>2, <1>3 DEF Ended
<1> QED
  BY <1>2, <1>4 DEF t

(* t is s with n attempts counted at stage k.                              *)
CountsOne(s, t, k, n) ==
  /\ t \in State
  /\ t.mode = s.mode /\ t.family = s.family
  /\ t.outputs = s.outputs /\ t.stages = s.stages /\ t.history = s.history
  /\ t.attempts = [s.attempts EXCEPT ![k] = n]
  /\ t.bundle = s.bundle

LEMMA CountedCounts ==
  ASSUME NEW s \in State, NEW k \in Stages, NEW n \in Nat
  PROVE  /\ CountsOne(s, Counted(s, k, n), k, n)
         /\ Counted(s, k, n).status = s.status
         /\ Counted(s, k, n).error = s.error
<1> DEFINE t == Counted(s, k, n)
<1>1. t \in State
  BY CountedType
<1>2. /\ t.outputs = s.outputs /\ t.stages = s.stages /\ t.history = s.history
      /\ t.attempts = [s.attempts EXCEPT ![k] = n]
      /\ t.mode = s.mode /\ t.family = s.family /\ t.bundle = s.bundle
      /\ t.status = s.status /\ t.error = s.error
  BY DEF Counted, State
<1> HIDE DEF t
<1>3. CountsOne(s, t, k, n)
  BY <1>1, <1>2 DEF CountsOne
<1> QED
  BY <1>2, <1>3 DEF t

-----------------------------------------------------------------------------
(* What the steps do to the command's copy of the state, by the fields the *)
(* properties speak of.                                                    *)

(* Where the command is, or will be once its state is written.             *)
Place == IF pc = "write" THEN then ELSE pc

(* A command on its way has a family, and its copy of the state says that   *)
(* it is running.                                                           *)
ControlOK ==
  /\ Place \in {"atom", "blueprint", "stage", "call", "lineage"} => mem.family \in Families
  /\ Place \in {"blueprint", "stage", "call", "lineage"} => mem.status = "running"
  /\ pc # "idle" => mem.status # "absent"

TInv == TypeOK /\ ControlOK

(* A failure on a malformed answer is of a stage that is spent.            *)
SpentIn(s) ==
  s.status = "failed" /\ s.error = "malformed" =>
    \E k \in RemoteStages : s.stages[k] = "failed" /\ s.attempts[k] >= MaxStageAttempts

(* Past the blueprint.                                                     *)
Under == Place \in {"stage", "call", "lineage"}

(* The state file is written.                                              *)
Writes ==
  /\ pc = "write"
  /\ disk' = mem
  /\ pc' = then
  /\ mem' = IF then = "idle" THEN NoState ELSE mem
  /\ UNCHANGED store

(* Nothing of the command's changes.                                       *)
Stays == UNCHANGED <<disk, store, mem, pc, then>>

(* The copy is dropped, made or loaded.                                    *)
Loads ==
  /\ UNCHANGED disk
  /\ \/ pc' = "idle" /\ mem' = NoState
     \/ /\ pc' = "write" /\ then' = "family"
        /\ disk.status = "absent" /\ \E m \in Modes : mem' = FreshState(m)
     \/ pc' = "family" /\ mem' = disk

(* The family is chosen.                                                   *)
Chooses ==
  /\ UNCHANGED disk
  /\ pc = "family" /\ pc' = "write" /\ then' = "atom"
  /\ mem.family = "none"
  /\ mem'.outputs = mem.outputs /\ mem'.stages = mem.stages
  /\ mem'.attempts = mem.attempts /\ mem'.history = mem.history
  /\ mem'.bundle = mem.bundle
  /\ mem'.status = mem.status /\ mem'.error = mem.error
  /\ Marked(mem, mem')

(* Nothing of interest but the verdict changes.                            *)
Marks ==
  /\ UNCHANGED disk
  /\ pc \notin {"idle", "write", "call"} /\ pc' # "call"
  /\ pc = "lineage" => pc' = "write"
  /\ Under' => Under \/ mem.outputs["item_blueprint"] # 0
  /\ Kept(mem, mem')
  /\ pc # "lineage" => Marked(mem, mem')
  /\ SpentIn(mem) => SpentIn(mem')

(* The blueprint gets its output.                                          *)
Drafts ==
  /\ UNCHANGED disk
  /\ pc = "blueprint" /\ pc' = "write"
  /\ mem.outputs["item_blueprint"] = 0
  /\ \E c \in State, inputs \in SUBSET Nat :
       /\ CountsOne(mem, c, "item_blueprint", 1)
       /\ Ended(c, mem', "item_blueprint", 1, "succeeded", inputs, Len(store) + 1)
  /\ store' = Append(store, Saved("item_blueprint", {mem.atom}, mem.family))
  /\ mem'.status = "running"
  /\ mem'.bundle = mem.bundle

(* The item is validated.                                                  *)
Judges ==
  /\ UNCHANGED disk
  /\ pc = "stage" /\ pc' = "write"
  /\ \A k \in RemoteStages : mem.outputs[k] # 0
  /\ mem.outputs["validate"] = 0 \/ mem.validation = 0
  /\ \E st \in StageStatus, inputs \in SUBSET Nat, out \in Nat \ {0} :
       Ended(mem, mem', "validate", 1, st, inputs, out)
  /\ mem'.status = "running" \/ mem'.error = "blocked"
  /\ mem'.bundle = mem.bundle

(* The bundle is rendered.                                                 *)
Renders ==
  /\ UNCHANGED disk
  /\ pc = "stage" /\ pc' = "lineage"
  /\ mem.outputs["validate"] # 0 /\ mem.bundle = 0 /\ mem'.bundle # 0
  /\ \E inputs \in SUBSET Nat, out \in Nat \ {0} :
       Ended(mem, mem', "render", 1, "succeeded", inputs, out)
  /\ mem'.status = "running"

(* An answer is imported.                                                  *)
Imports ==
  \E k \in RemoteStages, inputs \in SUBSET Nat, out \in Nat \ {0} :
    /\ UNCHANGED disk
    /\ AtStage(k) /\ pc' = "write"
    /\ mem.stages[k] = "waiting_manual"
    /\ Ended(mem, mem', k, mem.attempts[k], "succeeded", inputs, out)
    /\ mem'.status = "running"
    /\ mem'.bundle = mem.bundle

(* A packet is exported.                                                   *)
Exports ==
  \E k \in RemoteStages, inputs \in SUBSET Nat, c \in State :
    /\ UNCHANGED disk
    /\ AtStage(k) /\ pc' = "write" /\ then' = "idle"
    /\ mem.stages[k] # "waiting_manual"
    /\ CountsOne(mem, c, k, mem.attempts[k] + 1)
    /\ Ended(c, mem', k, mem.attempts[k] + 1, "waiting_manual", inputs, 0)
    /\ mem'.status = "waiting_manual"
    /\ mem'.bundle = mem.bundle
    /\ [stage |-> k, attempt |-> mem.attempts[k] + 1] \in packets'

(* The provider is called.                                                 *)
Calls ==
  \E k \in RemoteStages :
    /\ UNCHANGED disk
    /\ AtStage(k) /\ pc' = "call"
    /\ mem.stages[k] # "waiting_manual"
    /\ CountsOne(mem, mem', k, mem.attempts[k] + 1)
    /\ mem'.status = "running"

(* The call comes to an end.                                               *)
Returns ==
  \E k \in RemoteStages, st \in {"succeeded", "failed"}, inputs \in SUBSET Nat,
     out \in Nat :
    /\ UNCHANGED disk
    /\ Calling(k) /\ pc' = "write"
    /\ Ended(mem, mem', k, mem.attempts[k], st, inputs, out)
    /\ mem'.bundle = mem.bundle
    /\ SpentIn(mem')

Effect ==
  \/ Writes \/ Stays \/ Loads \/ Chooses \/ Marks \/ Drafts \/ Judges \/ Renders
  \/ Imports \/ Exports \/ Calls \/ Returns

(* Artifacts and packets are only added.                                   *)
Grows ==
  /\ packets \subseteq packets'
  /\ Len(store) \in Nat /\ Len(store') \in Nat /\ Len(store) <= Len(store')
  /\ \A a \in 1..Len(store) : store'[a] = store[a]

Moves == TInv' /\ Grows /\ Effect

LEMMA MemType ==
  ASSUME TypeOK
  PROVE  /\ mem \in State
         /\ mem.outputs \in [Stages -> Nat] /\ mem.stages \in [Stages -> StageStatus]
         /\ mem.attempts \in [Stages -> Nat] /\ mem.history \in Seq(Record)
         /\ mem.atom \in Nat /\ mem.validation \in Nat
         /\ mem.family \in Families \cup {"none"}
         /\ store \in Seq(Artifact) /\ Len(store) \in Nat
         /\ \A k \in Stages : InputsOf(mem, k) \in SUBSET Nat
         /\ \A k \in Stages : mem.attempts[k] \in Nat
<1>1. mem \in State /\ store \in Seq(Artifact)
  BY DEF TypeOK
<1> QED
  BY <1>1, StateFields, InputsType

LEMMA WritesEffect ==
  ASSUME TInv, WriteState
  PROVE  Moves
<1>1. TInv'
  BY FreshStateType DEF TInv, TypeOK, WriteState, ControlOK, Place, files
<1>2. Grows
  BY DEF Grows, WriteState, files, TInv, TypeOK
<1>3. Writes
  BY DEF Writes, WriteState
<1> QED
  BY <1>1, <1>2, <1>3 DEF Moves, Effect

(* The parts of the type invariant that a step hands on.                   *)
LEMMA TypeKept ==
  ASSUME TypeOK, UNCHANGED <<disk, packets, responses, outdir>>,
         store' \in Seq(Artifact), mem' \in State,
         pc' \in {"idle", "family", "atom", "blueprint", "stage", "call", "lineage",
                  "write"},
         then' \in {"idle", "family", "atom", "blueprint", "stage"},
         ask' \in Families \cup {"any"}, disturbances' \in Nat
  PROVE  TypeOK'
BY DEF TypeOK

LEMMA ChooseEffect ==
  ASSUME TInv, ResolveFamily
  PROVE  Moves
<1> USE DEF files
<1>1. PICK f \in Candidates(mem, ask) :
        IF f = mem.family
        THEN pc' = "atom" /\ UNCHANGED <<mem, then>>
        ELSE WriteNext([mem EXCEPT !.family = f], "atom")
  BY DEF ResolveFamily
<1>2. f \in Families
  BY MemType, FamiliesAssumption DEF Candidates, TInv
<1>3. /\ UNCHANGED <<disk, store, packets, responses, outdir, disturbances>>
      /\ pc = "family" /\ ask' = "any"
  BY DEF ResolveFamily
<1>4. mem \in State /\ disturbances \in Nat /\ store \in Seq(Artifact)
      /\ then \in {"idle", "family", "atom", "blueprint", "stage"}
  BY DEF TInv, TypeOK
<1>5. Grows
  BY <1>3, <1>4 DEF Grows
<1>6. CASE f = mem.family
  <2>1. pc' = "atom" /\ UNCHANGED <<mem, then>>
    BY <1>1, <1>6
  <2>2. TypeOK'
    BY <1>3, <1>4, <2>1, TypeKept DEF TInv
  <2>3. ControlOK'
    BY <1>2, <1>3, <1>6, <2>1 DEF TInv, ControlOK, Place
  <2>4. Marks
    BY <1>3, <1>4, <2>1 DEF Marks, Kept, Marked, Under, Place, SpentIn
  <2> QED
    BY <1>5, <2>2, <2>3, <2>4 DEF Moves, TInv, Effect
<1>7. CASE f # mem.family
  <2> DEFINE s == [mem EXCEPT !.family = f]
  <2>1. mem' = s /\ pc' = "write" /\ then' = "atom"
    BY <1>1, <1>7 DEF WriteNext
  <2>2. /\ s \in State /\ s.family = f
        /\ s.outputs = mem.outputs /\ s.stages = mem.stages
        /\ s.attempts = mem.attempts /\ s.history = mem.history
        /\ s.bundle = mem.bundle
        /\ s.status = mem.status /\ s.error = mem.error
        /\ Marked(mem, s)
    <3>1. s \in State
      BY <1>2, <1>4, StateUpdates
    <3> QED
      BY <1>4, <3>1, SetFamily DEF Marked
  <2> HIDE DEF s
  <2>3. TypeOK'
    BY <1>3, <1>4, <2>1, <2>2, TypeKept DEF TInv
  <2>4. ControlOK'
    BY <1>2, <1>3, <2>1, <2>2 DEF TInv, ControlOK, Place
  <2>5. mem.family = "none"
    BY <1>4, <1>7, StateFields DEF Candidates
  <2>6. Chooses
    BY <1>3, <2>1, <2>2, <2>5 DEF Chooses
  <2> QED
    BY <1>5, <2>3, <2>4, <2>6 DEF Moves, TInv, Effect
<1> QED
  BY <1>6, <1>7

LEMMA RefuseEffect ==
  ASSUME TInv, RefuseFamily
  PROVE  Moves
<1>1. TInv'
  BY FreshStateType DEF TInv, TypeOK, RefuseFamily, ControlOK, Place, files
<1>2. Grows
  BY DEF Grows, RefuseFamily, files, TInv, TypeOK
<1>3. Loads
  BY DEF Loads, RefuseFamily
<1> QED
  BY <1>1, <1>2, <1>3 DEF Moves, Effect

LEMMA GrowsNone ==
  ASSUME TypeOK, packets \subseteq packets',
         store' = store
  PROVE  Grows /\ store' \in Seq(Artifact)
<1>1. store \in Seq(Artifact)
  BY DEF TypeOK
<1> QED
  BY <1>1 DEF Grows

LEMMA GrowsOne ==
  ASSUME TypeOK, NEW a \in Artifact, packets \subseteq packets',
         store' = Append(store, a)
  PROVE  Grows /\ store' \in Seq(Artifact)
<1>1. store \in Seq(Artifact)
  BY DEF TypeOK
<1> QED
  BY <1>1 DEF Grows

LEMMA GrowsTwo ==
  ASSUME TypeOK, NEW a \in Artifact, NEW b \in Artifact, packets \subseteq packets',
         store' = store \o <<a, b>>
  PROVE  Grows /\ store' \in Seq(Artifact)
<1>1. store \in Seq(Artifact)
  BY DEF TypeOK
<1> QED
  BY <1>1 DEF Grows

LEMMA GrowsFour ==
  ASSUME TypeOK, NEW a \in Artifact, NEW b \in Artifact, NEW c \in Artifact,
         NEW d \in Artifact, packets \subseteq packets',
         store' = store \o <<a, b, c, d>>
  PROVE  Grows /\ store' \in Seq(Artifact)
<1>1. store \in Seq(Artifact)
  BY DEF TypeOK
<1> QED
  BY <1>1 DEF Grows

LEMMA AtomEffect ==
  ASSUME TInv, BootstrapAtom
  PROVE  Moves
<1> USE DEF files
<1> DEFINE s == [mem EXCEPT !.status = "running"]
           a == Saved("input_atom", {}, "sound")
<1>1. /\ UNCHANGED <<disk, packets, responses, outdir, ask, disturbances>>
      /\ pc = "atom"
  BY DEF BootstrapAtom
<1>2. /\ mem \in State /\ disturbances \in Nat /\ ask \in Families \cup {"any"}
      /\ then \in {"idle", "family", "atom", "blueprint", "stage"}
      /\ TypeOK /\ Len(store) + 1 \in Nat
  BY MemType DEF TInv, TypeOK
<1>3. Kept(mem, s) /\ s.status = "running" /\ Marked(mem, s)
  BY <1>2, StatusKept DEF RunStatus
<1>4. s \in State
  BY <1>3 DEF Kept
<1>5. mem.family \in Families
  BY <1>1 DEF TInv, ControlOK, Place
<1>6. a \in Artifact
  BY SavedType DEF Contents
<1>7. \/ /\ store' = Append(store, a)
         /\ mem' = [s EXCEPT !.atom = Len(store) + 1]
         /\ pc' = "write" /\ then' = "blueprint"
      \/ mem' = s /\ pc' = "blueprint" /\ UNCHANGED <<store, then>>
  BY DEF BootstrapAtom, WriteNext
<1> HIDE DEF s, a
<1>8. /\ Kept(s, [s EXCEPT !.atom = Len(store) + 1])
      /\ [s EXCEPT !.atom = Len(store) + 1].status = "running"
      /\ Marked(s, [s EXCEPT !.atom = Len(store) + 1])
  BY <1>2, <1>3, <1>4, AtomKept
<1>9. /\ Kept(s, mem') /\ mem'.status = "running" /\ Marked(mem, mem')
      /\ \/ pc' = "write" /\ then' = "blueprint"
         \/ pc' = "blueprint" /\ UNCHANGED then
  BY <1>3, <1>4, <1>7, <1>8 DEF Kept, Marked
<1>10. Kept(mem, mem')
  BY <1>3, <1>9, KeptTrans
<1>11. Grows /\ store' \in Seq(Artifact)
  BY <1>1, <1>2, <1>6, <1>7, GrowsNone, GrowsOne
<1>12. TypeOK'
  BY <1>1, <1>2, <1>9, <1>10, <1>11, TypeKept DEF Kept
<1>13. ControlOK'
  BY <1>5, <1>9, <1>10 DEF ControlOK, Place, Kept
<1>14. Marks
  BY <1>1, <1>9, <1>10 DEF Marks, Under, Place, SpentIn
<1> QED
  BY <1>11, <1>12, <1>13, <1>14 DEF Moves, TInv, Effect

LEMMA BlueprintEffect ==
  ASSUME TInv, BootstrapBlueprint
  PROVE  Moves
<1> USE DEF files
<1> DEFINE a == Saved("item_blueprint", {mem.atom}, mem.family)
           c == Counted(mem, "item_blueprint", 1)
           t == Logged(c, "item_blueprint", 1, "succeeded", {mem.atom}, Len(store) + 1)
<1>1. /\ UNCHANGED <<disk, packets, responses, outdir, ask, disturbances>>
      /\ pc = "blueprint"
  BY DEF BootstrapBlueprint
<1>2. /\ mem \in State /\ disturbances \in Nat /\ ask \in Families \cup {"any"}
      /\ then \in {"idle", "family", "atom", "blueprint", "stage"}
      /\ TypeOK /\ Len(store) + 1 \in Nat /\ {mem.atom} \in SUBSET Nat
  BY MemType DEF TInv, TypeOK
<1>3. mem.family \in Families /\ mem.status = "running"
  BY <1>1 DEF TInv, ControlOK, Place
<1>4. "item_blueprint" \in Stages /\ "succeeded" \in StageStatus /\ 1 \in Nat
  BY StageFacts DEF StageStatus
<1>5. a \in Artifact
  BY <1>2, <1>3, <1>4, SavedType
<1>6. CountsOne(mem, c, "item_blueprint", 1) /\ c.status = mem.status
  BY <1>2, <1>4, CountedCounts
<1>7. c \in State
  BY <1>6 DEF CountsOne
<1>8. \/ /\ mem.outputs["item_blueprint"] = 0
         /\ store' = Append(store, a)
         /\ mem' = t
         /\ pc' = "write" /\ then' = "stage"
      \/ /\ mem.outputs["item_blueprint"] # 0
         /\ pc' = "stage" /\ UNCHANGED <<store, mem, then>>
  BY DEF BootstrapBlueprint, WriteNext
<1> HIDE DEF c
<1>9. /\ Ended(c, t, "item_blueprint", 1, "succeeded", {mem.atom}, Len(store) + 1)
      /\ t.status = c.status /\ t.bundle = c.bundle
  BY <1>2, <1>4, <1>7, LoggedEnded
<1> HIDE DEF a, t
<1>10. Grows /\ store' \in Seq(Artifact)
  BY <1>1, <1>2, <1>5, <1>8, GrowsNone, GrowsOne
<1>11. mem' \in State /\ mem'.status = "running" /\ mem'.family = mem.family
  BY <1>2, <1>3, <1>6, <1>8, <1>9 DEF Ended, CountsOne
<1>12. TypeOK'
  BY <1>1, <1>2, <1>8, <1>10, <1>11, TypeKept
<1>13. ControlOK'
  BY <1>3, <1>8, <1>11 DEF ControlOK, Place
<1>14. CASE mem' = mem /\ pc' = "stage" /\ mem.outputs["item_blueprint"] # 0
  <2>1. Marks
    BY <1>1, <1>2, <1>14 DEF Marks, Under, Place, SpentIn, Kept, Marked
  <2> QED
    BY <1>10, <1>12, <1>13, <2>1 DEF Moves, TInv, Effect
<1>15. CASE /\ mem.outputs["item_blueprint"] = 0 /\ store' = Append(store, a)
            /\ mem' = t /\ pc' = "write"
  <2>1. t.bundle = mem.bundle /\ t.status = "running"
    BY <1>3, <1>6, <1>9 DEF CountsOne
  <2>2. Drafts
    BY <1>1, <1>2, <1>6, <1>7, <1>9, <1>15, <2>1 DEF Drafts, a
  <2> QED
    BY <1>10, <1>12, <1>13, <2>2 DEF Moves, TInv, Effect
<1> QED
  BY <1>8, <1>14, <1>15

(* A stage the command is at, or calls, and what it has to work with.      *)
LEMMA StageContext ==
  ASSUME TypeOK, NEW k \in RemoteStages
  PROVE  /\ k \in Stages /\ mem \in State /\ store \in Seq(Artifact)
         /\ InputsOf(mem, k) \in SUBSET Nat
         /\ mem.attempts[k] \in Nat /\ mem.attempts[k] + 1 \in Nat
         /\ Len(store) + 1 \in Nat \ {0} /\ Len(store) + 2 \in Nat \ {0}
         /\ disturbances \in Nat /\ ask \in Families \cup {"any"}
         /\ then \in {"idle", "family", "atom", "blueprint", "stage"}
         /\ {Len(store) + 1} \in SUBSET Nat
<1>1. k \in Stages
  BY StageFacts
<1>2. disturbances \in Nat /\ ask \in Families \cup {"any"}
      /\ then \in {"idle", "family", "atom", "blueprint", "stage"}
  BY DEF TypeOK
<1>3. /\ Len(store) + 1 \in Nat \ {0} /\ Len(store) + 2 \in Nat \ {0}
      /\ {Len(store) + 1} \in SUBSET Nat
  BY MemType
<1>4. /\ InputsOf(mem, k) \in SUBSET Nat /\ mem.attempts[k] \in Nat
      /\ mem \in State /\ store \in Seq(Artifact)
  BY <1>1, MemType
<1>5. mem.attempts[k] + 1 \in Nat
  BY <1>4
<1> QED
  BY <1>1, <1>2, <1>3, <1>4, <1>5

LEMMA AwaitEffect ==
  ASSUME TInv, NEW k \in RemoteStages, AwaitResponse(k)
  PROVE  Moves
<1> USE DEF files
<1> DEFINE s == [mem EXCEPT !.status = "waiting_manual"]
<1>1. /\ UNCHANGED <<disk, store, packets, responses, outdir, ask, disturbances>>
      /\ mem' = s /\ pc' = "write" /\ then' = "idle" /\ pc = "stage"
  BY DEF AwaitResponse, WriteNext, AtStage
<1>2. TypeOK /\ mem \in State
  BY MemType DEF TInv
<1>3. Kept(mem, s) /\ s.status = "waiting_manual" /\ Marked(mem, s)
  BY <1>2, StatusKept DEF RunStatus
<1> HIDE DEF s
<1>4. Grows /\ store' \in Seq(Artifact)
  BY <1>1, <1>2, GrowsNone
<1>5. TypeOK'
  BY <1>1, <1>2, <1>3, <1>4, StageContext, TypeKept DEF Kept
<1>6. ControlOK'
  BY <1>1, <1>3 DEF ControlOK, Place
<1>7. Marks
  BY <1>1, <1>3 DEF Marks, Under, Place, SpentIn
<1> QED
  BY <1>4, <1>5, <1>6, <1>7 DEF Moves, TInv, Effect

LEMMA ImportEffect ==
  ASSUME TInv, NEW k \in RemoteStages, ImportResponse(k),
         responses \subseteq [stage : RemoteStages, attempt : Nat,
                              says : Contents \cup {"unparsable"}]
  PROVE  Moves
<1> USE DEF files
<1> DEFINE inputs == InputsOf(mem, k)
           out == Len(store) + 1
           l == Logged(mem, k, mem.attempts[k], "succeeded", inputs, out)
           t == [l EXCEPT !.status = "running", !.error = "none"]
           b == Saved(k, {out}, "sound")
<1>1. /\ UNCHANGED <<disk, packets, responses, outdir, ask, disturbances>>
      /\ AtStage(k) /\ mem.stages[k] = "waiting_manual" /\ pc = "stage"
  BY DEF ImportResponse, AtStage
<1>2. PICK r \in Answers(mem, k) :
       \/ /\ r.says = "unparsable"
          /\ WriteNext([mem EXCEPT !.status = "failed", !.error = "bad_response"], "idle")
          /\ UNCHANGED store
       \/ /\ r.says # "unparsable"
          /\ store' = store \o <<Saved(k, inputs, r.says), b>>
          /\ WriteNext(t, "stage")
  BY DEF ImportResponse
<1>3. r.says \in Contents \cup {"unparsable"}
  BY DEF Answers
<1>4. TypeOK /\ mem \in State /\ mem.family \in Families /\ mem.status = "running"
  BY <1>1, MemType DEF TInv, ControlOK, Place
<1>5. CASE /\ WriteNext([mem EXCEPT !.status = "failed", !.error = "bad_response"], "idle")
           /\ UNCHANGED store
  <2> DEFINE s == [mem EXCEPT !.status = "failed", !.error = "bad_response"]
  <2>1. /\ Kept(mem, s) /\ Marked(mem, s)
        /\ s.status = "failed" /\ s.error = "bad_response"
    <3>1. "failed" \in RunStatus /\ "bad_response" \in Errors
      BY DEF RunStatus, Errors
    <3> QED
      BY <1>4, <3>1 DEF Kept, Marked, State
  <2>2. mem' = s /\ pc' = "write" /\ then' = "idle"
    BY <1>5 DEF WriteNext
  <2> HIDE DEF s
  <2>3. Grows /\ store' \in Seq(Artifact)
    BY <1>1, <1>4, <1>5, GrowsNone
  <2>4. TypeOK'
    BY <1>1, <1>4, <2>1, <2>2, <2>3, StageContext, TypeKept DEF Kept
  <2>5. ControlOK'
    BY <2>1, <2>2 DEF ControlOK, Place
  <2>6. Marks
    BY <1>1, <2>1, <2>2 DEF Marks, Under, Place, SpentIn
  <2> QED
    BY <2>3, <2>4, <2>5, <2>6 DEF Moves, TInv, Effect
<1>6. CASE /\ r.says # "unparsable"
           /\ store' = store \o <<Saved(k, inputs, r.says), b>>
           /\ WriteNext(t, "stage")
  <2>1. /\ inputs \in SUBSET Nat /\ out \in Nat \ {0} /\ {out} \in SUBSET Nat
        /\ k \in Stages /\ mem.attempts[k] \in Nat
    BY <1>4, StageContext
  <2>2. Saved(k, inputs, r.says) \in Artifact /\ b \in Artifact
    BY <1>3, <1>6, <2>1, PlainType DEF Contents
  <2> HIDE DEF b, inputs, out
  <2>3. /\ Ended(mem, l, k, mem.attempts[k], "succeeded", inputs, out)
        /\ l.bundle = mem.bundle
    BY <1>4, <2>1, LoggedEnded DEF StageStatus
  <2>4. l \in State
    BY <2>3 DEF Ended
  <2> HIDE DEF l
  <2>5. Kept(l, t) /\ t.status = "running"
    <3>1. "running" \in RunStatus /\ "none" \in Errors
      BY DEF RunStatus, Errors
    <3> QED
      BY <2>4, <3>1 DEF Kept, State
  <2> HIDE DEF t
  <2>6. Ended(mem, t, k, mem.attempts[k], "succeeded", inputs, out) /\ t.bundle = mem.bundle
    BY <2>3, <2>5, EndedKept
  <2>7. mem' = t /\ pc' = "write" /\ then' = "stage"
    BY <1>6 DEF WriteNext
  <2>8. Grows /\ store' \in Seq(Artifact)
    BY <1>1, <1>4, <1>6, <2>2, GrowsTwo
  <2>9. t \in State /\ t.family = mem.family
    BY <2>6 DEF Ended
  <2>10. TypeOK'
    BY <1>1, <1>4, <2>7, <2>8, <2>9, StageContext, TypeKept
  <2>11. ControlOK'
    BY <1>4, <2>5, <2>7, <2>9 DEF ControlOK, Place
  <2>12. Imports
    BY <1>1, <2>1, <2>5, <2>6, <2>7 DEF Imports
  <2> QED
    BY <2>8, <2>10, <2>11, <2>12 DEF Moves, TInv, Effect
<1> QED
  BY <1>2, <1>5, <1>6

LEMMA ExportEffect ==
  ASSUME TInv, NEW k \in RemoteStages, ExportPacket(k)
  PROVE  Moves
<1> USE DEF files
<1> DEFINE n == mem.attempts[k] + 1
           c == Counted(mem, k, n)
           a == Saved(k, InputsOf(c, k), "sound")
           l == Logged(c, k, n, "waiting_manual", InputsOf(c, k), 0)
           t == [l EXCEPT !.status = "waiting_manual"]
<1>1. /\ UNCHANGED <<disk, responses, outdir, ask, disturbances>>
      /\ AtStage(k) /\ mem.stages[k] # "waiting_manual" /\ pc = "stage"
      /\ store' = Append(store, a)
      /\ packets' = packets \cup {[stage |-> k, attempt |-> n]}
      /\ mem' = t /\ pc' = "write" /\ then' = "idle"
  BY DEF ExportPacket, AtStage, WriteNext
<1>2. TypeOK /\ k \in Stages /\ mem \in State /\ n \in Nat
  BY StageContext DEF TInv
<1>3. CountsOne(mem, c, k, n)
  BY <1>2, CountedCounts
<1>4. c \in State
  BY <1>3 DEF CountsOne
<1> HIDE DEF c
<1>5. InputsOf(c, k) \in SUBSET Nat
  BY <1>2, <1>4, InputsType
<1>6. Ended(c, l, k, n, "waiting_manual", InputsOf(c, k), 0) /\ l.bundle = c.bundle
  BY <1>2, <1>4, <1>5, LoggedEnded DEF StageStatus
<1>7. l \in State
  BY <1>6 DEF Ended
<1> HIDE DEF l
<1>8. Kept(l, t) /\ t.status = "waiting_manual"
  BY <1>7, StatusKept DEF RunStatus
<1> HIDE DEF t
<1>9. Ended(c, t, k, n, "waiting_manual", InputsOf(c, k), 0) /\ t.bundle = mem.bundle
  BY <1>3, <1>6, <1>8, EndedKept DEF CountsOne
<1>10. a \in Artifact
  BY <1>2, <1>5, PlainType DEF Contents
<1> HIDE DEF a
<1>11. Grows /\ store' \in Seq(Artifact)
  BY <1>1, <1>2, <1>10, GrowsOne
<1>12. t \in State
  BY <1>9 DEF Ended
<1>13. packets' \subseteq [stage : RemoteStages, attempt : Nat]
  BY <1>1, <1>2 DEF TypeOK
<1>14. TypeOK'
  BY <1>1, <1>2, <1>11, <1>12, <1>13 DEF TypeOK
<1>15. ControlOK'
  BY <1>1, <1>8 DEF ControlOK, Place
<1>16. Exports
  BY <1>1, <1>3, <1>4, <1>5, <1>8, <1>9 DEF Exports
<1> QED
  BY <1>11, <1>14, <1>15, <1>16 DEF Moves, TInv, Effect

LEMMA CallEffect ==
  ASSUME TInv, NEW k \in RemoteStages, CallProvider(k)
  PROVE  Moves
<1> USE DEF files
<1> DEFINE n == mem.attempts[k] + 1
           c == Counted(mem, k, n)
           a == Saved(k, InputsOf(mem, k), "sound")
<1>1. /\ UNCHANGED <<disk, packets, responses, outdir, then, ask, disturbances>>
      /\ AtStage(k) /\ mem.stages[k] # "waiting_manual" /\ pc = "stage"
      /\ store' = Append(store, a)
      /\ mem' = c /\ pc' = "call"
  BY DEF CallProvider, AtStage
<1>2. /\ TypeOK /\ k \in Stages /\ mem \in State /\ n \in Nat
      /\ InputsOf(mem, k) \in SUBSET Nat
      /\ mem.family \in Families /\ mem.status = "running"
  BY <1>1, StageContext DEF TInv, ControlOK, Place
<1>3. CountsOne(mem, c, k, n) /\ c.status = mem.status
  BY <1>2, CountedCounts
<1> HIDE DEF c
<1>4. c \in State /\ c.family = mem.family
  BY <1>3 DEF CountsOne
<1>5. a \in Artifact
  BY <1>2, PlainType DEF Contents
<1> HIDE DEF a
<1>6. Grows /\ store' \in Seq(Artifact)
  BY <1>1, <1>2, <1>5, GrowsOne
<1>7. TypeOK'
  BY <1>1, <1>2, <1>4, <1>6, StageContext, TypeKept
<1>8. ControlOK'
  BY <1>1, <1>2, <1>3, <1>4 DEF ControlOK, Place
<1>9. Calls
  BY <1>1, <1>2, <1>3 DEF Calls
<1> QED
  BY <1>6, <1>7, <1>8, <1>9 DEF Moves, TInv, Effect

(* However a call ends, the stage's record is written.                     *)
LEMMA ReturnEffect ==
  ASSUME TInv, NEW k \in RemoteStages, Calling(k),
         UNCHANGED <<disk, packets, responses, outdir, ask>>,
         disturbances' \in Nat, Grows, store' \in Seq(Artifact),
         NEW st \in {"succeeded", "failed"}, NEW out \in Nat,
         Ended(mem, mem', k, mem.attempts[k], st, InputsOf(mem, k), out),
         mem'.bundle = mem.bundle, SpentIn(mem'),
         pc' = "write",
         \/ then' = "stage" /\ mem'.status = "running"
         \/ then' = "idle" /\ mem'.status = "failed"
  PROVE  Moves
<1>1. TypeOK /\ pc = "call" /\ mem.family \in Families /\ InputsOf(mem, k) \in SUBSET Nat
  BY StageContext DEF TInv, ControlOK, Place, Calling
<1>2. mem' \in State /\ mem'.family = mem.family
  BY DEF Ended
<1>3. TypeOK'
  BY <1>1, <1>2, StageContext, TypeKept
<1>4. ControlOK'
  BY <1>1, <1>2 DEF ControlOK, Place
<1>5. Returns
  BY <1>1 DEF Returns
<1> QED
  BY <1>3, <1>4, <1>5 DEF Moves, TInv, Effect

(* The state a failed attempt leaves, but for the verdict.                 *)
LEMMA FailedFields ==
  ASSUME TypeOK, NEW k \in RemoteStages, NEW l,
         l = Logged(mem, k, mem.attempts[k], "failed", InputsOf(mem, k), 0)
  PROVE  /\ l \in State
         /\ Ended(mem, l, k, mem.attempts[k], "failed", InputsOf(mem, k), 0)
         /\ l.status = mem.status /\ l.bundle = mem.bundle
<1>1. /\ Ended(mem, l, k, mem.attempts[k], "failed", InputsOf(mem, k), 0)
      /\ l.status = mem.status /\ l.bundle = mem.bundle
  BY StageContext, LoggedEnded DEF StageStatus
<1>2. l \in State
  BY <1>1 DEF Ended
<1> QED
  BY <1>1, <1>2

LEMMA AnswersEffect ==
  ASSUME TInv, NEW k \in RemoteStages, NEW c, ProviderAnswers(k, c)
  PROVE  Moves
<1> USE DEF files
<1> DEFINE inputs == InputsOf(mem, k)
           out == Len(store) + 2
           a == Saved(k, inputs, "sound")
           b == Saved(k, inputs, c)
           l == Logged(mem, k, mem.attempts[k], "succeeded", inputs, out)
           t == [l EXCEPT !.status = "running", !.error = "none"]
<1>1. /\ UNCHANGED <<disk, packets, responses, outdir, ask>>
      /\ Calling(k) /\ Disturb(c # "sound") /\ c \in AnswersTo(k)
      /\ store' = store \o <<a, b>>
      /\ mem' = t /\ pc' = "write" /\ then' = "stage"
  BY DEF ProviderAnswers, WriteNext
<1>2. /\ TypeOK /\ k \in Stages /\ mem \in State /\ mem.attempts[k] \in Nat
      /\ inputs \in SUBSET Nat /\ out \in Nat /\ disturbances \in Nat
  BY StageContext DEF TInv
<1>3. a \in Artifact /\ b \in Artifact
  BY <1>1, <1>2, AnswerType, PlainType DEF Contents
<1>4. disturbances' \in Nat
  BY <1>1, <1>2, DisturbType
<1> HIDE DEF a, b, inputs, out
<1>5. /\ Ended(mem, l, k, mem.attempts[k], "succeeded", inputs, out)
      /\ l.bundle = mem.bundle
  BY <1>2, LoggedEnded DEF StageStatus
<1>6. l \in State
  BY <1>5 DEF Ended
<1> HIDE DEF l
<1>7. Kept(l, t) /\ t.status = "running"
  <2>1. "running" \in RunStatus /\ "none" \in Errors
    BY DEF RunStatus, Errors
  <2> QED
    BY <1>6, <2>1 DEF Kept, State
<1> HIDE DEF t
<1>8. Ended(mem, t, k, mem.attempts[k], "succeeded", inputs, out) /\ t.bundle = mem.bundle
  BY <1>5, <1>7, EndedKept
<1>9. Grows /\ store' \in Seq(Artifact)
  BY <1>1, <1>2, <1>3, GrowsTwo
<1>10. SpentIn(mem')
  BY <1>1, <1>7 DEF SpentIn
<1>11. Ended(mem, mem', k, mem.attempts[k], "succeeded", InputsOf(mem, k), out)
  BY <1>1, <1>8 DEF inputs
<1> QED
  BY <1>1, <1>2, <1>4, <1>7, <1>8, <1>9, <1>10, <1>11, ReturnEffect

LEMMA MalformedEffect ==
  ASSUME TInv, NEW k \in RemoteStages, NEW received \in BOOLEAN,
         ProviderMalformed(k, received)
  PROVE  Moves
<1> USE DEF files
<1> DEFINE a == Saved(k, InputsOf(mem, k), "sound")
           l == Logged(mem, k, mem.attempts[k], "failed", InputsOf(mem, k), 0)
           s == [l EXCEPT !.error = "malformed"]
           u == [s EXCEPT !.status = "failed"]
<1>1. /\ UNCHANGED <<disk, packets, responses, outdir, ask>>
      /\ Calling(k) /\ Disturb(TRUE)
      /\ store' = Append(store, a) \/ store' = store
      /\ pc' = "write"
      /\ \/ mem.attempts[k] < MaxStageAttempts /\ mem' = s /\ then' = "stage"
         \/ ~ (mem.attempts[k] < MaxStageAttempts) /\ mem' = u /\ then' = "idle"
  BY DEF ProviderMalformed, WriteNext
<1>2. /\ TypeOK /\ k \in Stages /\ mem \in State /\ mem.attempts[k] \in Nat
      /\ InputsOf(mem, k) \in SUBSET Nat /\ disturbances \in Nat
      /\ mem.stages \in [Stages -> StageStatus]
  BY StageContext, MemType DEF TInv
<1>3. mem.status = "running"
  BY <1>1 DEF TInv, ControlOK, Place, Calling
<1>4. a \in Artifact
  BY <1>2, PlainType DEF Contents
<1> HIDE DEF a
<1>5. Grows /\ store' \in Seq(Artifact)
  BY <1>1, <1>2, <1>4, GrowsOne, GrowsNone
<1>6. disturbances' \in Nat
  BY <1>1, <1>2, DisturbType
<1>7. /\ Ended(mem, s, k, mem.attempts[k], "failed", InputsOf(mem, k), 0)
      /\ s.bundle = mem.bundle /\ s.status = mem.status /\ s.error = "malformed"
      /\ Ended(mem, u, k, mem.attempts[k], "failed", InputsOf(mem, k), 0)
      /\ u.bundle = mem.bundle /\ u.status = "failed" /\ u.error = "malformed"
  <2>1. "malformed" \in Errors /\ "failed" \in RunStatus
    BY DEF Errors, RunStatus
  <2>2. /\ l \in State
        /\ Ended(mem, l, k, mem.attempts[k], "failed", InputsOf(mem, k), 0)
        /\ l.status = mem.status /\ l.bundle = mem.bundle
    BY <1>2, <2>1, FailedFields
  <2> HIDE DEF l
  <2>3. Kept(l, s) /\ s.error = "malformed" /\ s.status = l.status
    BY <2>1, <2>2 DEF Kept, State
  <2>4. s \in State
    BY <2>3 DEF Kept
  <2> HIDE DEF s
  <2>5. Kept(s, u) /\ u.status = "failed" /\ u.error = s.error
    BY <2>1, <2>4, StatusKept
  <2> HIDE DEF u
  <2>6. /\ Ended(mem, s, k, mem.attempts[k], "failed", InputsOf(mem, k), 0)
        /\ s.bundle = mem.bundle
    BY <2>2, <2>3, EndedKept
  <2>7. /\ Ended(mem, u, k, mem.attempts[k], "failed", InputsOf(mem, k), 0)
        /\ u.bundle = mem.bundle
    BY <2>5, <2>6, EndedKept
  <2> QED
    BY <2>2, <2>3, <2>5, <2>6, <2>7
<1> HIDE DEF l, s, u
<1>8. SpentIn(mem')
  <2>1. CASE mem' = s
    BY <1>3, <1>7, <2>1 DEF SpentIn
  <2>2. CASE mem' = u /\ ~ (mem.attempts[k] < MaxStageAttempts)
    <3>1. u.stages[k] = "failed" /\ u.attempts[k] >= MaxStageAttempts
      BY <1>2, <1>7, <2>2, AttemptsAssumption DEF Ended
    <3> QED
      BY <2>2, <3>1 DEF SpentIn
  <2> QED
    BY <1>1, <2>1, <2>2
<1>9. /\ Ended(mem, mem', k, mem.attempts[k], "failed", InputsOf(mem, k), 0)
      /\ mem'.bundle = mem.bundle
      /\ \/ then' = "stage" /\ mem'.status = "running"
         \/ then' = "idle" /\ mem'.status = "failed"
  BY <1>1, <1>3, <1>7
<1> QED
  BY <1>1, <1>5, <1>6, <1>8, <1>9, ReturnEffect

LEMMA RaisesEffect ==
  ASSUME TInv, NEW k \in RemoteStages, ProviderRaises(k)
  PROVE  Moves
<1> USE DEF files
<1> DEFINE l == Logged(mem, k, mem.attempts[k], "failed", InputsOf(mem, k), 0)
           v == [l EXCEPT !.status = "failed", !.error = "provider"]
<1>1. /\ UNCHANGED <<disk, store, packets, responses, outdir, ask>>
      /\ Calling(k) /\ Disturb(TRUE)
      /\ mem' = v /\ pc' = "write" /\ then' = "idle"
  BY DEF ProviderRaises, WriteNext
<1>2. TypeOK /\ disturbances \in Nat
  BY DEF TInv, TypeOK
<1>3. Grows /\ store' \in Seq(Artifact)
  BY <1>1, <1>2, GrowsNone
<1>4. disturbances' \in Nat
  BY <1>1, <1>2, DisturbType
<1>5. /\ Ended(mem, v, k, mem.attempts[k], "failed", InputsOf(mem, k), 0)
      /\ v.bundle = mem.bundle /\ v.status = "failed" /\ v.error = "provider"
  <2>1. "provider" \in Errors /\ "failed" \in RunStatus
    BY DEF Errors, RunStatus
  <2>2. /\ l \in State
        /\ Ended(mem, l, k, mem.attempts[k], "failed", InputsOf(mem, k), 0)
        /\ l.bundle = mem.bundle
    BY <1>2, <2>1, FailedFields
  <2> HIDE DEF l
  <2>3. Kept(l, v) /\ v.status = "failed" /\ v.error = "provider"
    BY <2>1, <2>2 DEF Kept, State
  <2> HIDE DEF v
  <2> QED
    BY <2>2, <2>3, EndedKept
<1> HIDE DEF l, v
<1>6. SpentIn(mem')
  BY <1>1, <1>5 DEF SpentIn
<1> QED
  BY <1>1, <1>3, <1>4, <1>5, <1>6, ReturnEffect

LEMMA ValidateEffect ==
  ASSUME TInv, ValidateItem
  PROVE  Moves
<1> USE DEF files
<1> DEFINE inputs == InputsOf(mem, "validate")
           passed == \A i \in inputs : store[i].content = "sound"
           st == IF passed THEN "succeeded" ELSE "failed"
           out == Len(store) + 3
           l == Logged(mem, "validate", 1, st, inputs, out)
           s == [l EXCEPT !.validation = out + 1]
           u == [s EXCEPT !.error = "none"]
           v == [s EXCEPT !.status = "failed", !.error = "blocked"]
           a == Saved("validate", inputs, "sound")
           c == Saved("validate", inputs, IF passed THEN "sound" ELSE "flawed")
           d == Saved("validate", {out}, "sound")
<1>1. /\ UNCHANGED <<disk, packets, responses, outdir, ask, disturbances>>
      /\ pc = "stage" /\ pc' = "write"
      /\ \A k \in RemoteStages : mem.outputs[k] # 0
      /\ mem.outputs["validate"] = 0 \/ mem.validation = 0
      /\ store' = store \o <<a, a, c, d>>
      /\ \/ mem' = u /\ then' = "stage"
         \/ mem' = v /\ then' = "idle"
  BY DEF ValidateItem, WriteNext
<1>2. /\ TypeOK /\ mem \in State /\ mem.status = "running" /\ mem.family \in Families
      /\ "validate" \in Stages /\ 1 \in Nat
      /\ ask \in Families \cup {"any"} /\ disturbances \in Nat
  BY <1>1, MemType, StageFacts DEF TInv, ControlOK, Place, TypeOK
<1>3. inputs \in SUBSET Nat /\ out \in Nat \ {0} /\ out + 1 \in Nat /\ {out} \in SUBSET Nat
  BY <1>2, MemType
<1>4. st \in StageStatus /\ (IF passed THEN "sound" ELSE "flawed") \in Contents
  BY DEF StageStatus, Contents
<1>5. a \in Artifact /\ c \in Artifact /\ d \in Artifact
  BY <1>2, <1>3, <1>4, PlainType DEF Contents
<1> HIDE DEF inputs, passed, st, out, a, c, d
<1>6. /\ Ended(mem, l, "validate", 1, st, inputs, out)
      /\ l.status = mem.status /\ l.bundle = mem.bundle
  BY <1>2, <1>3, <1>4, LoggedEnded
<1>7. l \in State
  BY <1>6 DEF Ended
<1> HIDE DEF l
<1>8. Kept(l, s) /\ s.status = l.status
  BY <1>3, <1>7, ValidationKept
<1>9. s \in State
  BY <1>8 DEF Kept
<1> HIDE DEF s
<1>10. Kept(s, u) /\ u.status = s.status
  BY <1>9, ErrorKept DEF Errors
<1>11. Kept(s, v) /\ v.status = "failed" /\ v.error = "blocked"
  <2>1. "failed" \in RunStatus /\ "blocked" \in Errors
    BY DEF RunStatus, Errors
  <2> QED
    BY <1>9, <2>1 DEF Kept, State
<1> HIDE DEF u, v
<1>12. /\ Kept(s, mem')
       /\ \/ mem'.status = "running" /\ then' = "stage"
          \/ mem'.status = "failed" /\ mem'.error = "blocked" /\ then' = "idle"
  BY <1>1, <1>2, <1>6, <1>8, <1>10, <1>11
<1>13. Kept(l, mem')
  BY <1>8, <1>12, KeptTrans
<1>14. Ended(mem, mem', "validate", 1, st, inputs, out) /\ mem'.bundle = mem.bundle
  BY <1>6, <1>13, EndedKept
<1>15. mem' \in State /\ mem'.family = mem.family
  BY <1>14 DEF Ended
<1>16. Grows /\ store' \in Seq(Artifact)
  BY <1>1, <1>2, <1>5, GrowsFour
<1>17. TypeOK'
  BY <1>1, <1>2, <1>12, <1>15, <1>16, TypeKept
<1>18. ControlOK'
  BY <1>1, <1>2, <1>12, <1>15 DEF ControlOK, Place
<1>19. Judges
  BY <1>1, <1>3, <1>4, <1>12, <1>14 DEF Judges
<1> QED
  BY <1>16, <1>17, <1>18, <1>19 DEF Moves, TInv, Effect

LEMMA RenderEffect ==
  ASSUME TInv, RenderItem
  PROVE  Moves
<1> USE DEF files
<1> DEFINE inputs == InputsOf(mem, "render")
           out == Len(store) + 1
           l == Logged(mem, "render", 1, "succeeded", inputs, out)
           t == [l EXCEPT !.bundle = out]
           a == Saved("render", inputs, "sound")
<1>1. /\ UNCHANGED <<disk, packets, responses, then, ask, disturbances>>
      /\ pc = "stage" /\ pc' = "lineage"
      /\ mem.outputs["validate"] # 0 /\ mem.bundle = 0
      /\ outdir' = [outdir EXCEPT !.item = mem.outputs["revise"],
                                  !.validation = mem.validation]
      /\ store' = Append(store, a)
      /\ mem' = t
  BY DEF RenderItem
<1>2. /\ TypeOK /\ mem \in State /\ mem.status = "running" /\ mem.family \in Families
      /\ "render" \in Stages /\ 1 \in Nat
      /\ mem.outputs["revise"] \in Nat /\ mem.validation \in Nat
  BY <1>1, MemType, StageFacts DEF TInv, ControlOK, Place
<1>3. inputs \in SUBSET Nat /\ out \in Nat \ {0}
  BY <1>2, MemType
<1>4. a \in Artifact
  BY <1>2, <1>3, PlainType DEF Contents
<1> HIDE DEF inputs, out, a
<1>5. /\ Ended(mem, l, "render", 1, "succeeded", inputs, out)
      /\ l.status = mem.status
  BY <1>2, <1>3, LoggedEnded DEF StageStatus
<1>6. l \in State
  BY <1>5 DEF Ended
<1> HIDE DEF l
<1>7. /\ t \in State /\ t.bundle = out /\ t.status = l.status
      /\ t.mode = l.mode /\ t.family = l.family /\ t.outputs = l.outputs
      /\ t.stages = l.stages /\ t.attempts = l.attempts /\ t.history = l.history
  BY <1>3, <1>6, StateUpdates, SetBundle
<1> HIDE DEF t
<1>8. Ended(mem, t, "render", 1, "succeeded", inputs, out)
  BY <1>5, <1>7 DEF Ended
<1>9. t.family = mem.family
  BY <1>8 DEF Ended
<1>10. Grows /\ store' \in Seq(Artifact)
  BY <1>1, <1>2, <1>4, GrowsOne
<1>11. outdir' \in [item : Nat, validation : Nat, log : Seq(Record)]
  BY <1>1, <1>2 DEF TypeOK
<1>12. TypeOK'
  BY <1>1, <1>2, <1>7, <1>10, <1>11 DEF TypeOK
<1>13. ControlOK'
  BY <1>1, <1>2, <1>5, <1>7, <1>9 DEF ControlOK, Place
<1>14. Renders
  BY <1>1, <1>2, <1>3, <1>5, <1>7, <1>8 DEF Renders
<1> QED
  BY <1>10, <1>12, <1>13, <1>14 DEF Moves, TInv, Effect

LEMMA LineageEffect ==
  ASSUME TInv, RenderLineage
  PROVE  Moves
<1> USE DEF files
<1> DEFINE from == {mem.outputs[k] : k \in Stages} \cup {mem.atom, mem.validation}
           r == Saved("lineage", from, "sound")
           a == [r EXCEPT !.log = mem.history]
           t == [mem EXCEPT !.lineage = Len(store) + 1]
<1>1. /\ UNCHANGED <<disk, packets, responses, ask, disturbances>>
      /\ pc = "lineage" /\ pc' = "write" /\ then' = "stage"
      /\ outdir' = [outdir EXCEPT !.log = mem.history]
      /\ store' = Append(store, a)
      /\ mem' = t
  BY DEF RenderLineage, WriteNext
<1>2. /\ TypeOK /\ mem \in State /\ mem.status = "running" /\ mem.family \in Families
      /\ mem.history \in Seq(Record) /\ Len(store) + 1 \in Nat
  BY <1>1, MemType DEF TInv, ControlOK, Place
<1>3. from \in SUBSET Nat
  <2>1. \A k \in Stages : mem.outputs[k] \in Nat
    BY <1>2, MemType
  <2> QED
    BY <1>2, <2>1, MemType
<1>4. r \in Artifact
  <2> HIDE DEF from
  <2> QED
    BY <1>3, SavedType DEF Contents
<1> HIDE DEF from, r
<1>5. a \in Artifact
  BY <1>2, <1>4 DEF Artifact
<1> HIDE DEF a
<1>6. Kept(mem, t) /\ t.status = mem.status /\ t.error = mem.error
  BY <1>2, LineageKept
<1> HIDE DEF t
<1>7. Grows /\ store' \in Seq(Artifact)
  BY <1>1, <1>2, <1>5, GrowsOne
<1>8. outdir' \in [item : Nat, validation : Nat, log : Seq(Record)]
  BY <1>1, <1>2 DEF TypeOK
<1>9. TypeOK'
  BY <1>1, <1>2, <1>6, <1>7, <1>8 DEF TypeOK, Kept
<1>10. ControlOK'
  BY <1>1, <1>2, <1>6 DEF ControlOK, Place, Kept
<1>11. Marks
  BY <1>1, <1>2, <1>6 DEF Marks, Under, Place, SpentIn
<1> QED
  BY <1>7, <1>9, <1>10, <1>11 DEF Moves, TInv, Effect

LEMMA FinishEffect ==
  ASSUME TInv, Finish
  PROVE  Moves
<1> USE DEF files
<1> DEFINE s == [mem EXCEPT !.status = "completed"]
<1>1. /\ UNCHANGED <<disk, store, packets, responses, outdir, ask, disturbances>>
      /\ mem' = s /\ pc' = "write" /\ then' = "idle" /\ pc = "stage"
  BY DEF Finish, WriteNext
<1>2. TypeOK /\ mem \in State /\ ask \in Families \cup {"any"} /\ disturbances \in Nat
  BY MemType DEF TInv, TypeOK
<1>3. Kept(mem, s) /\ s.status = "completed" /\ Marked(mem, s)
  BY <1>2, StatusKept DEF RunStatus
<1> HIDE DEF s
<1>4. Grows /\ store' \in Seq(Artifact)
  BY <1>1, <1>2, GrowsNone
<1>5. TypeOK'
  BY <1>1, <1>2, <1>3, <1>4, TypeKept DEF Kept
<1>6. ControlOK'
  BY <1>1, <1>3 DEF ControlOK, Place
<1>7. Marks
  BY <1>1, <1>3 DEF Marks, Under, Place, SpentIn
<1> QED
  BY <1>4, <1>5, <1>6, <1>7 DEF Moves, TInv, Effect

LEMMA InvokeEffect ==
  ASSUME TInv, NEW m \in Modes, NEW f \in Families \cup {"any"}, Invoke(m, f)
  PROVE  Moves
<1> USE DEF files
<1>1. /\ UNCHANGED <<disk, store, packets, responses, outdir, disturbances>>
      /\ ask' = f
      /\ \/ /\ disk.status = "absent" /\ mem' = FreshState(m)
            /\ pc' = "write" /\ then' = "family"
         \/ /\ disk.status # "absent" /\ mem' = disk
            /\ pc' = "family" /\ UNCHANGED then
  BY DEF Invoke, WriteNext
<1>2. /\ TypeOK /\ disk \in State /\ disturbances \in Nat
      /\ then \in {"idle", "family", "atom", "blueprint", "stage"}
  BY DEF TInv, TypeOK
<1>3. FreshState(m) \in State /\ FreshState(m).status = "pending"
  BY FreshStateType, ModesAssumption DEF FreshState
<1>4. Grows /\ store' \in Seq(Artifact)
  BY <1>1, <1>2, GrowsNone
<1>5. TypeOK'
  BY <1>1, <1>2, <1>3, <1>4, TypeKept
<1>6. ControlOK'
  BY <1>1, <1>3 DEF ControlOK, Place
<1>7. Loads
  BY <1>1 DEF Loads
<1> QED
  BY <1>4, <1>5, <1>6, <1>7 DEF Moves, TInv, Effect

LEMMA RespondEffect ==
  ASSUME TInv, NEW f \in packets, NEW says \in Contents \cup {"unparsable"},
         Respond(f, says)
  PROVE  Moves
<1>1. /\ UNCHANGED <<disk, store, packets, outdir, mem, pc, then, ask>>
      /\ Disturb(says # "sound")
      /\ responses' = {r \in responses : r.stage # f.stage \/ r.attempt # f.attempt}
                        \cup {[stage |-> f.stage, attempt |-> f.attempt, says |-> says]}
  BY DEF Respond
<1>2. TypeOK /\ disturbances \in Nat /\ f \in [stage : RemoteStages, attempt : Nat]
  BY DEF TInv, TypeOK
<1>3. responses' \subseteq [stage : RemoteStages, attempt : Nat,
                            says : Contents \cup {"unparsable"}]
  <2>1. [stage |-> f.stage, attempt |-> f.attempt, says |-> says]
          \in [stage : RemoteStages, attempt : Nat, says : Contents \cup {"unparsable"}]
    BY <1>2
  <2>2. responses \subseteq [stage : RemoteStages, attempt : Nat,
                             says : Contents \cup {"unparsable"}]
    BY <1>2 DEF TypeOK
  <2> QED
    BY <1>1, <2>1, <2>2
<1>4. disturbances' \in Nat
  BY <1>1, <1>2, DisturbType
<1>5. Grows
  BY <1>1, <1>2, GrowsNone
<1>6. TypeOK'
  BY <1>1, <1>2, <1>3, <1>4 DEF TypeOK
<1>7. ControlOK'
  BY <1>1 DEF ControlOK, Place, TInv
<1>8. Stays
  BY <1>1 DEF Stays
<1> QED
  BY <1>5, <1>6, <1>7, <1>8 DEF Moves, TInv, Effect

LEMMA CrashEffect ==
  ASSUME TInv, Crash
  PROVE  Moves
<1> USE DEF files
<1>1. /\ UNCHANGED <<disk, store, packets, responses, outdir, then, ask>>
      /\ Disturb(TRUE) /\ mem' = NoState /\ pc' = "idle"
  BY DEF Crash
<1>2. /\ TypeOK /\ disturbances \in Nat /\ ask \in Families \cup {"any"}
      /\ then \in {"idle", "family", "atom", "blueprint", "stage"}
  BY DEF TInv, TypeOK
<1>3. disturbances' \in Nat
  BY <1>1, <1>2, DisturbType
<1>4. Grows /\ store' \in Seq(Artifact)
  BY <1>1, <1>2, GrowsNone
<1>5. TypeOK'
  BY <1>1, <1>2, <1>3, <1>4, FreshStateType, TypeKept
<1>6. ControlOK'
  BY <1>1 DEF ControlOK, Place
<1>7. Loads
  BY <1>1 DEF Loads
<1> QED
  BY <1>4, <1>5, <1>6, <1>7 DEF Moves, TInv, Effect

LEMMA StutterEffect ==
  ASSUME TInv, UNCHANGED vars
  PROVE  Moves
<1>1. TInv'
  BY DEF TInv, vars, files, TypeOK, ControlOK, Place
<1>2. Grows
  BY DEF Grows, vars, files, TInv, TypeOK
<1>3. Stays
  BY DEF Stays, vars
<1> QED
  BY <1>1, <1>2, <1>3 DEF Moves, Effect

(* Every step has one of the effects.                                      *)
LEMMA StepMoves == TInv /\ [Next]_vars => Moves
<1> SUFFICES ASSUME TInv, [Next]_vars PROVE Moves
  OBVIOUS
<1>1. CASE Proceed
  <2>1. ASSUME NEW k \in RemoteStages, ImportResponse(k) PROVE Moves
    <3>1. responses \subseteq [stage : RemoteStages, attempt : Nat,
                               says : Contents \cup {"unparsable"}]
      BY DEF TInv, TypeOK
    <3> QED
      BY <2>1, <3>1, ImportEffect
  <2> QED
    BY <1>1, <2>1, WritesEffect, ChooseEffect, RefuseEffect, AtomEffect,
       BlueprintEffect, AwaitEffect, ExportEffect, CallEffect, AnswersEffect,
       ValidateEffect, RenderEffect, LineageEffect, FinishEffect DEF Proceed
<1>2. ASSUME NEW m \in Modes, NEW f \in Families \cup {"any"}, Invoke(m, f) PROVE Moves
  BY <1>2, InvokeEffect
<1>3. ASSUME NEW k \in RemoteStages, NEW received \in BOOLEAN,
             ProviderMalformed(k, received)
      PROVE  Moves
  BY <1>3, MalformedEffect
<1>4. ASSUME NEW k \in RemoteStages, ProviderRaises(k) PROVE Moves
  BY <1>4, RaisesEffect
<1>5. ASSUME NEW f \in packets, NEW says \in Contents \cup {"unparsable"},
             Respond(f, says)
      PROVE  Moves
  BY <1>5, RespondEffect
<1>6. CASE Crash
  BY <1>6, CrashEffect
<1>7. CASE UNCHANGED vars
  BY <1>7, StutterEffect
<1> QED
  BY <1>1, <1>2, <1>3, <1>4, <1>5, <1>6, <1>7 DEF Next

(* No reachable state leaves the types of real_item_state.json, of the     *)
(* artifacts, of the packet and response files and of the bundle, and a    *)
(* command that is on its way has a family and says that it is running.    *)
THEOREM GauntletTypeCorrect == Spec => []TypeOK
<1>1. Init => TInv
  <2> SUFFICES ASSUME Init PROVE TInv
    OBVIOUS
  <2>1. TypeOK
    BY FreshStateType, BoundsAssumption DEF Init, TypeOK
  <2>2. ControlOK
    BY DEF Init, ControlOK, Place
  <2> QED
    BY <2>1, <2>2 DEF TInv
<1>2. TInv /\ [Next]_vars => TInv'
  BY StepMoves DEF Moves
<1>3. TInv => TypeOK
  BY DEF TInv
<1> QED
  BY <1>1, <1>2, <1>3, PTL DEF Spec


-----------------------------------------------------------------------------
(* What holds of every copy of the state, the one on disk and the one the  *)
(* command works on.                                                       *)

LEMMA EndedAt ==
  ASSUME NEW s \in State, NEW t, NEW k \in Stages, NEW n, NEW status, NEW inputs, NEW out,
         Ended(s, t, k, n, status, inputs, out)
  PROVE  /\ t.outputs[k] = out /\ t.stages[k] = status
         /\ \A j \in Stages \ {k} : t.outputs[j] = s.outputs[j] /\ t.stages[j] = s.stages[j]
         /\ t.attempts = s.attempts /\ t.family = s.family
BY StateFields DEF Ended

LEMMA CountsAt ==
  ASSUME NEW s \in State, NEW t, NEW k \in Stages, NEW n, CountsOne(s, t, k, n)
  PROVE  /\ t.attempts[k] = n
         /\ \A j \in Stages \ {k} : t.attempts[j] = s.attempts[j]
         /\ t.outputs = s.outputs /\ t.stages = s.stages /\ t.history = s.history
         /\ t.family = s.family /\ t.bundle = s.bundle /\ t \in State
BY StateFields DEF CountsOne

LEMMA FreshFields ==
  ASSUME NEW s, s = NoState \/ \E m \in Modes : s = FreshState(m)
  PROVE  /\ s \in State
         /\ \A k \in Stages : s.outputs[k] = 0 /\ s.stages[k] = "none" /\ s.attempts[k] = 0
         /\ s.history = <<>> /\ s.bundle = 0 /\ s.status # "failed"
<1>1. ASSUME NEW m
      PROVE  /\ \A k \in Stages : /\ FreshState(m).outputs[k] = 0
                                  /\ FreshState(m).stages[k] = "none"
                                  /\ FreshState(m).attempts[k] = 0
             /\ FreshState(m).history = <<>> /\ FreshState(m).bundle = 0
             /\ FreshState(m).status = "pending"
  BY DEF FreshState
<1>2. /\ NoState.outputs = FreshState("api").outputs
      /\ NoState.stages = FreshState("api").stages
      /\ NoState.attempts = FreshState("api").attempts
      /\ NoState.history = FreshState("api").history
      /\ NoState.bundle = FreshState("api").bundle
      /\ NoState.status = "absent"
  BY DEF NoState, FreshState
<1>3. CASE s = NoState
  BY <1>1, <1>2, <1>3, FreshStateType
<1>4. CASE \E m \in Modes : s = FreshState(m)
  BY <1>1, <1>4, FreshStateType, ModesAssumption
<1> QED
  BY <1>3, <1>4

(* Waiting stages have their packet.                                       *)
WaitsIn(s, files_) ==
  \A k \in RemoteStages :
    s.stages[k] = "waiting_manual" => [stage |-> k, attempt |-> s.attempts[k]] \in files_

(* The blueprint was made for the family.                                  *)
FitsIn(s, artifacts) ==
  s.outputs["item_blueprint"] # 0 =>
    /\ s.outputs["item_blueprint"] \in 1..Len(artifacts)
    /\ artifacts[s.outputs["item_blueprint"]].content = s.family
    /\ s.family \in Families

SoundIn(s, files_, artifacts) == WaitsIn(s, files_) /\ FitsIn(s, artifacts) /\ SpentIn(s)

CInv == TInv /\ SoundIn(disk, packets, store) /\ SoundIn(mem, packets, store)

LEMMA FreshSound ==
  ASSUME NEW s, s = NoState \/ \E m \in Modes : s = FreshState(m), NEW P, NEW A
  PROVE  SoundIn(s, P, A)
<1>1. \A k \in RemoteStages : s.stages[k] = "none"
  BY FreshFields, StageFacts
<1>2. s.outputs["item_blueprint"] = 0 /\ s.status # "failed"
  BY FreshFields, StageFacts
<1> QED
  BY <1>1, <1>2 DEF SoundIn, WaitsIn, FitsIn, SpentIn

(* A copy nobody touches stays sound while packets and artifacts are added. *)
LEMMA SoundLasts ==
  ASSUME TInv, Grows, NEW s, SoundIn(s, packets, store)
  PROVE  SoundIn(s, packets', store')
<1>1. WaitsIn(s, packets')
  BY DEF SoundIn, WaitsIn, Grows
<1>2. FitsIn(s, store')
  BY DEF SoundIn, FitsIn, Grows
<1> QED
  BY <1>1, <1>2 DEF SoundIn

(* Remote stages and the blueprint after a step that ends an attempt at     *)
(* another stage than the blueprint.                                       *)
LEMMA EndSound ==
  ASSUME TInv, Grows, NEW s \in State, SoundIn(s, packets, store), NEW t,
         NEW k \in Stages \ {"item_blueprint"}, NEW n, NEW status, NEW inputs, NEW out,
         Ended(s, t, k, n, status, inputs, out),
         status = "waiting_manual" => [stage |-> k, attempt |-> s.attempts[k]] \in packets',
         SpentIn(t)
  PROVE  SoundIn(t, packets', store')
<1>1. WaitsIn(t, packets')
  <2> SUFFICES ASSUME NEW j \in RemoteStages, t.stages[j] = "waiting_manual"
               PROVE  [stage |-> j, attempt |-> t.attempts[j]] \in packets'
    BY DEF WaitsIn
  <2>1. CASE j = k
    BY <2>1, EndedAt
  <2>2. CASE j # k
    <3>1. j \in Stages \ {k}
      BY <2>2, StageFacts
    <3>2. s.stages[j] = "waiting_manual" /\ t.attempts = s.attempts
      BY <3>1, EndedAt
    <3> QED
      BY <3>2, SoundLasts DEF SoundIn, WaitsIn
  <2> QED
    BY <2>1, <2>2
<1>2. FitsIn(t, store')
  <2>1. t.outputs["item_blueprint"] = s.outputs["item_blueprint"] /\ t.family = s.family
    BY EndedAt, StageFacts
  <2>2. FitsIn(s, store')
    BY SoundLasts DEF SoundIn
  <2> QED
    BY <2>1, <2>2 DEF FitsIn
<1> QED
  BY <1>1, <1>2 DEF SoundIn

LEMMA CopiesStep == CInv /\ [Next]_vars => CInv'
<1> SUFFICES ASSUME CInv, [Next]_vars PROVE CInv'
  OBVIOUS
<1>1. TInv /\ SoundIn(disk, packets, store) /\ SoundIn(mem, packets, store)
  BY DEF CInv
<1>2. Moves
  BY <1>1, StepMoves
<1>3. TInv' /\ Grows
  BY <1>2 DEF Moves
<1>4. mem \in State /\ disk \in State /\ RemoteStages \subseteq Stages \ {"item_blueprint"}
  BY <1>1, StageFacts DEF TInv, TypeOK, RemoteStages
<1>5. SoundIn(disk, packets', store') /\ SoundIn(mem, packets', store')
  BY <1>1, <1>3, SoundLasts
<1> DEFINE Goal == SoundIn(disk', packets', store') /\ SoundIn(mem', packets', store')
<1> SUFFICES Goal
  BY <1>3 DEF CInv
<1>6. CASE Writes
  BY <1>5, <1>6, FreshSound DEF Writes
<1>7. CASE Stays
  BY <1>5, <1>7 DEF Stays
<1>8. CASE Loads
  BY <1>5, <1>8, FreshSound DEF Loads
<1>9. CASE Chooses
  <2>1. mem.outputs["item_blueprint"] = 0
    BY <1>1, <1>9, FamiliesAssumption DEF Chooses, SoundIn, FitsIn
  <2>2. WaitsIn(mem', packets')
    BY <1>5, <1>9 DEF Chooses, SoundIn, WaitsIn
  <2>3. SpentIn(mem')
    BY <1>5, <1>9 DEF Chooses, SoundIn, SpentIn
  <2>4. FitsIn(mem', store')
    BY <1>9, <2>1 DEF Chooses, FitsIn
  <2> QED
    BY <1>5, <1>9, <2>2, <2>3, <2>4 DEF Chooses, SoundIn
<1>10. CASE Marks
  <2>1. WaitsIn(mem', packets')
    BY <1>5, <1>10 DEF Marks, Kept, SoundIn, WaitsIn
  <2>2. FitsIn(mem', store')
    BY <1>5, <1>10 DEF Marks, Kept, SoundIn, FitsIn
  <2>3. SpentIn(mem')
    BY <1>5, <1>10 DEF Marks, SoundIn
  <2> QED
    BY <1>5, <1>10, <2>1, <2>2, <2>3 DEF Marks, SoundIn
<1>11. CASE Drafts
  <2>1. PICK c \in State, inputs \in SUBSET Nat :
          /\ CountsOne(mem, c, "item_blueprint", 1)
          /\ Ended(c, mem', "item_blueprint", 1, "succeeded", inputs, Len(store) + 1)
    BY <1>11 DEF Drafts
  <2>2. "item_blueprint" \in Stages /\ mem.family \in Families /\ store \in Seq(Artifact)
    BY <1>1, <1>11, StageFacts DEF Drafts, TInv, TypeOK, ControlOK, Place
  <2>3. /\ mem'.outputs["item_blueprint"] = Len(store) + 1 /\ mem'.family = mem.family
        /\ mem'.attempts = c.attempts
        /\ \A j \in Stages \ {"item_blueprint"} : mem'.stages[j] = c.stages[j]
    <3>1. c.stages \in [Stages -> StageStatus] /\ c.outputs \in [Stages -> Nat]
      BY StateFields
    <3>2. c.family = mem.family
      BY <2>1 DEF CountsOne
    <3> QED
      BY <2>1, <2>2, <3>1, <3>2 DEF Ended
  <2>4. /\ c.stages = mem.stages
        /\ \A j \in Stages \ {"item_blueprint"} : c.attempts[j] = mem.attempts[j]
    <3>1. mem.attempts \in [Stages -> Nat]
      BY <1>4, StateFields
    <3> QED
      BY <2>1, <2>2, <3>1 DEF CountsOne
  <2>5. WaitsIn(mem', packets')
    BY <1>4, <1>5, <2>3, <2>4 DEF SoundIn, WaitsIn
  <2>6. FitsIn(mem', store')
    <3>1. store' = Append(store, Saved("item_blueprint", {mem.atom}, mem.family))
      BY <1>11 DEF Drafts
    <3>2. store'[Len(store) + 1] = Saved("item_blueprint", {mem.atom}, mem.family)
      BY <2>2, <3>1
    <3>3. Saved("item_blueprint", {mem.atom}, mem.family).content = mem.family
      BY DEF Saved
    <3>4. Len(store) + 1 \in 1..Len(store')
      BY <2>2, <3>1
    <3> QED
      BY <2>2, <2>3, <3>2, <3>3, <3>4 DEF FitsIn
  <2>7. SpentIn(mem')
    BY <1>11 DEF Drafts, SpentIn
  <2> QED
    BY <1>5, <1>11, <2>5, <2>6, <2>7 DEF Drafts, SoundIn
<1>12. CASE Judges
  <2>1. PICK st \in StageStatus, inputs \in SUBSET Nat, out \in Nat \ {0} :
          Ended(mem, mem', "validate", 1, st, inputs, out)
    BY <1>12 DEF Judges
  <2>2. SpentIn(mem')
    BY <1>12 DEF Judges, SpentIn
  <2>3. SoundIn(mem', packets', store')
    <3>1. "validate" \in Stages \ RemoteStages
      BY StageFacts DEF RemoteStages
    <3>2. mem'.outputs["item_blueprint"] = mem.outputs["item_blueprint"]
          /\ mem'.family = mem.family
          /\ mem'.attempts = mem.attempts
          /\ \A j \in RemoteStages : mem'.stages[j] = mem.stages[j]
      <4>1. mem.stages \in [Stages -> StageStatus] /\ mem.outputs \in [Stages -> Nat]
        BY <1>4, StateFields
      <4> QED
        BY <1>4, <2>1, <3>1, <4>1, StageFacts DEF Ended
    <3> QED
      BY <1>5, <2>2, <3>2 DEF SoundIn, WaitsIn, FitsIn
  <2> QED
    BY <1>5, <1>12, <2>3 DEF Judges
<1>13. CASE Renders
  <2>1. PICK inputs \in SUBSET Nat, out \in Nat \ {0} :
          Ended(mem, mem', "render", 1, "succeeded", inputs, out)
    BY <1>13 DEF Renders
  <2>2. SpentIn(mem')
    BY <1>13 DEF Renders, SpentIn
  <2>3. "render" \in Stages \ {"item_blueprint"}
    BY StageFacts
  <2>4. SoundIn(mem', packets', store')
    BY <1>1, <1>3, <1>4, <2>1, <2>2, <2>3, EndSound
  <2> QED
    BY <1>5, <1>13, <2>4 DEF Renders
<1>14. CASE Imports
  <2>1. PICK k \in RemoteStages, inputs \in SUBSET Nat, out \in Nat \ {0} :
          /\ Ended(mem, mem', k, mem.attempts[k], "succeeded", inputs, out)
          /\ mem'.status = "running" /\ UNCHANGED disk
    BY <1>14 DEF Imports
  <2>2. SpentIn(mem')
    BY <2>1 DEF SpentIn
  <2>3. SoundIn(mem', packets', store')
    BY <1>1, <1>3, <1>4, <2>1, <2>2, EndSound
  <2> QED
    BY <1>5, <2>1, <2>3
<1>15. CASE Exports
  <2>1. PICK k \in RemoteStages, inputs \in SUBSET Nat, c \in State :
          /\ UNCHANGED disk
          /\ CountsOne(mem, c, k, mem.attempts[k] + 1)
          /\ mem.stages[k] # "waiting_manual"
          /\ Ended(c, mem', k, mem.attempts[k] + 1, "waiting_manual", inputs, 0)
          /\ mem'.status = "waiting_manual"
          /\ [stage |-> k, attempt |-> mem.attempts[k] + 1] \in packets'
    BY <1>15 DEF Exports
  <2>2. SpentIn(mem')
    BY <2>1 DEF SpentIn
  <2>3. /\ c.attempts[k] = mem.attempts[k] + 1 /\ c.stages = mem.stages
        /\ \A j \in Stages \ {k} : c.attempts[j] = mem.attempts[j]
        /\ c.outputs = mem.outputs /\ c.family = mem.family
    BY <1>4, <2>1, CountsAt
  <2>4. WaitsIn(mem', packets')
    <3> SUFFICES ASSUME NEW j \in RemoteStages, mem'.stages[j] = "waiting_manual"
                 PROVE  [stage |-> j, attempt |-> mem'.attempts[j]] \in packets'
      BY DEF WaitsIn
    <3>1. mem'.attempts = c.attempts
      BY <2>1 DEF Ended
    <3>2. CASE j = k
      BY <2>1, <2>3, <3>1, <3>2
    <3>3. CASE j # k
      <4>1. j \in Stages \ {k} /\ k \in Stages
        BY <3>3, StageFacts
      <4>2. mem.stages[j] = "waiting_manual" /\ mem'.attempts[j] = mem.attempts[j]
        <5>1. c.stages \in [Stages -> StageStatus]
          BY StateFields
        <5> QED
          BY <2>1, <2>3, <3>1, <4>1, <5>1 DEF Ended
      <4> QED
        BY <1>5, <4>2 DEF SoundIn, WaitsIn
    <3> QED
      BY <3>2, <3>3
  <2>5. FitsIn(mem', store')
    <3>1. mem'.outputs["item_blueprint"] = mem.outputs["item_blueprint"]
          /\ mem'.family = mem.family
      BY <1>4, <2>1, <2>3, EndedAt, StageFacts
    <3> QED
      BY <1>5, <3>1 DEF SoundIn, FitsIn
  <2> QED
    BY <1>5, <2>1, <2>2, <2>4, <2>5 DEF SoundIn
<1>16. CASE Calls
  <2>1. PICK k \in RemoteStages :
          /\ UNCHANGED disk
          /\ mem.stages[k] # "waiting_manual"
          /\ CountsOne(mem, mem', k, mem.attempts[k] + 1)
          /\ mem'.status = "running"
    BY <1>16 DEF Calls
  <2>2. SpentIn(mem')
    BY <2>1 DEF SpentIn
  <2>3. /\ \A j \in Stages \ {k} : mem'.attempts[j] = mem.attempts[j]
        /\ mem'.outputs = mem.outputs /\ mem'.family = mem.family
        /\ mem'.stages = mem.stages
    <3>1. mem.attempts \in [Stages -> Nat]
      BY <1>4, StateFields
    <3> QED
      BY <1>4, <2>1, <3>1 DEF CountsOne
  <2>4. WaitsIn(mem', packets')
    BY <1>4, <1>5, <2>1, <2>3 DEF SoundIn, WaitsIn
  <2>5. FitsIn(mem', store')
    BY <1>5, <2>3 DEF SoundIn, FitsIn
  <2> QED
    BY <1>5, <2>1, <2>2, <2>4, <2>5 DEF SoundIn
<1>17. CASE Returns
  <2>1. PICK k \in RemoteStages, st \in {"succeeded", "failed"}, inputs \in SUBSET Nat,
             out \in Nat :
          /\ Ended(mem, mem', k, mem.attempts[k], st, inputs, out)
          /\ SpentIn(mem') /\ UNCHANGED disk
    BY <1>17 DEF Returns
  <2>2. SoundIn(mem', packets', store')
    BY <1>1, <1>3, <1>4, <2>1, EndSound
  <2> QED
    BY <1>5, <2>1, <2>2
<1> QED
  BY <1>2, <1>6, <1>7, <1>8, <1>9, <1>10, <1>11, <1>12, <1>13, <1>14, <1>15, <1>16, <1>17
     DEF Moves, Effect

LEMMA CopiesAlwaysSound == Spec => []CInv
<1>1. Init => CInv
  <2> SUFFICES ASSUME Init PROVE CInv
    OBVIOUS
  <2>1. disk = NoState /\ mem = NoState
    BY DEF Init
  <2>2. TypeOK /\ ControlOK
    BY FreshStateType, BoundsAssumption DEF Init, TypeOK, ControlOK, Place
  <2> QED
    BY <2>1, <2>2, FreshSound DEF CInv, TInv
<1>2. CInv /\ [Next]_vars => CInv'
  BY CopiesStep
<1> QED
  BY <1>1, <1>2, PTL DEF Spec

(* The packet a waiting stage's next command opens exists, whatever died    *)
(* between the packet file and the state write.                            *)
THEOREM WaitingAlwaysHasPacket == Spec => []WaitingHasPacket
<1>1. CInv => WaitingHasPacket
  BY DEF CInv, SoundIn, WaitsIn, WaitingHasPacket
<1> QED
  BY <1>1, CopiesAlwaysSound, PTL

(* The blueprint on record was made for the family on record, however many  *)
(* commands, asking for whatever families, the run took.                   *)
THEOREM BlueprintAlwaysFits == Spec => []BlueprintFitsFamily
<1>1. CInv => BlueprintFitsFamily
  BY DEF CInv, SoundIn, FitsIn, BlueprintFitsFamily
<1> QED
  BY <1>1, CopiesAlwaysSound, PTL

(* A run never gives up on malformed answers before a stage has used up     *)
(* its attempts, counted over all commands.                                *)
THEOREM OnlySpentRunsGiveUp == Spec => []GivesUpOnlyWhenSpent
<1>1. CInv => GivesUpOnlyWhenSpent
  BY DEF CInv, SoundIn, SpentIn, GivesUpOnlyWhenSpent
<1> QED
  BY <1>1, CopiesAlwaysSound, PTL

-----------------------------------------------------------------------------
(* The stage history as a ledger of attempts.                              *)

(* The records that say how the i-th attempt at stage k ended.             *)
EndsOf(h, k, i) ==
  {j \in DOMAIN h : h[j].stage = k /\ h[j].attempt = i /\ h[j].status # "waiting_manual"}

(* Attempts 1..e at stage k ended once each, no later one did, and every    *)
(* record of the stage is of an attempt in 1..n.                           *)
Ledger(h, k, e, n) ==
  /\ \A i \in 1..e : \E j \in DOMAIN h : EndsOf(h, k, i) = {j}
  /\ \A i \in Nat : i > e => EndsOf(h, k, i) = {}
  /\ \A j \in DOMAIN h : h[j].stage = k => h[j].attempt \in 1..n

LEMMA LedgerAppend ==
  ASSUME NEW h \in Seq(Record), NEW r, NEW k, NEW i
  PROVE  /\ DOMAIN Append(h, r) = DOMAIN h \cup {Len(h) + 1}
         /\ Len(h) + 1 \notin DOMAIN h
         /\ Append(h, r)[Len(h) + 1] = r
         /\ \A j \in DOMAIN h : Append(h, r)[j] = h[j]
         /\ r.stage = k /\ r.attempt = i /\ r.status # "waiting_manual"
              => EndsOf(Append(h, r), k, i) = EndsOf(h, k, i) \cup {Len(h) + 1}
         /\ ~ (r.stage = k /\ r.attempt = i /\ r.status # "waiting_manual")
              => EndsOf(Append(h, r), k, i) = EndsOf(h, k, i)
<1> DEFINE g == Append(h, r)
           m == Len(h) + 1
<1>1. DOMAIN g = DOMAIN h \cup {m} /\ m \notin DOMAIN h /\ g[m] = r
      /\ \A j \in DOMAIN h : g[j] = h[j]
  OBVIOUS
<1> HIDE DEF g, m
<1>2. CASE r.stage = k /\ r.attempt = i /\ r.status # "waiting_manual"
  <2>1. EndsOf(g, k, i) = EndsOf(h, k, i) \cup {m}
    BY <1>1, <1>2 DEF EndsOf
  <2> QED
    BY <1>1, <1>2, <2>1 DEF g, m
<1>3. CASE ~ (r.stage = k /\ r.attempt = i /\ r.status # "waiting_manual")
  <2>1. EndsOf(g, k, i) = EndsOf(h, k, i)
    BY <1>1, <1>3 DEF EndsOf
  <2> QED
    BY <1>1, <1>3, <2>1 DEF g, m
<1> QED
  BY <1>2, <1>3

(* A record of another stage.                                              *)
LEMMA LedgerOther ==
  ASSUME NEW h \in Seq(Record), NEW r, NEW k, r.stage # k, NEW e, NEW n,
         Ledger(h, k, e, n)
  PROVE  Ledger(Append(h, r), k, e, n)
<1> DEFINE g == Append(h, r)
           m == Len(h) + 1
<1>1. /\ DOMAIN g = DOMAIN h \cup {m} /\ g[m] = r
      /\ \A j \in DOMAIN h : g[j] = h[j]
  BY LedgerAppend
<1>2. ASSUME NEW i PROVE EndsOf(g, k, i) = EndsOf(h, k, i)
  BY LedgerAppend
<1> HIDE DEF g, m
<1>3. Ledger(g, k, e, n)
  BY <1>1, <1>2 DEF Ledger
<1> QED
  BY <1>3 DEF g

(* A packet is exported for the next attempt.                              *)
LEMMA LedgerOpens ==
  ASSUME NEW h \in Seq(Record), NEW r, NEW k, NEW n \in Nat, Ledger(h, k, n, n),
         r.stage = k, r.attempt = n + 1, r.status = "waiting_manual"
  PROVE  Ledger(Append(h, r), k, n, n + 1)
<1> DEFINE g == Append(h, r)
           m == Len(h) + 1
<1>1. /\ DOMAIN g = DOMAIN h \cup {m} /\ g[m] = r
      /\ \A j \in DOMAIN h : g[j] = h[j]
  BY LedgerAppend
<1>2. ASSUME NEW i PROVE EndsOf(g, k, i) = EndsOf(h, k, i)
  BY LedgerAppend
<1> HIDE DEF g, m
<1>3. ASSUME NEW j \in DOMAIN g, g[j].stage = k PROVE g[j].attempt \in 1..(n + 1)
  <2>1. CASE j = m
    BY <1>1, <2>1
  <2>2. CASE j # m
    <3>1. h[j].attempt \in 1..n
      BY <1>1, <1>3, <2>2 DEF Ledger
    <3> QED
      BY <1>1, <2>2, <3>1
  <2> QED
    BY <2>1, <2>2
<1>4. \A i \in 1..n : \E j \in DOMAIN g : EndsOf(g, k, i) = {j}
  BY <1>1, <1>2 DEF Ledger
<1>5. \A i \in Nat : i > n => EndsOf(g, k, i) = {}
  BY <1>2 DEF Ledger
<1>6. Ledger(g, k, n, n + 1)
  BY <1>3, <1>4, <1>5 DEF Ledger
<1> QED
  BY <1>6 DEF g

(* The attempt after the e-th ends.                                        *)
LEMMA LedgerCloses ==
  ASSUME NEW h \in Seq(Record), NEW r, NEW k, NEW e \in Nat, NEW n \in Nat,
         n \in {e, e + 1}, Ledger(h, k, e, n),
         r.stage = k, r.attempt = e + 1, r.status # "waiting_manual"
  PROVE  Ledger(Append(h, r), k, e + 1, e + 1)
<1> DEFINE g == Append(h, r)
           m == Len(h) + 1
<1>1. /\ DOMAIN g = DOMAIN h \cup {m} /\ g[m] = r
      /\ \A j \in DOMAIN h : g[j] = h[j]
  BY LedgerAppend
<1>2. ASSUME NEW i, i # e + 1 PROVE EndsOf(g, k, i) = EndsOf(h, k, i)
  BY <1>2, LedgerAppend
<1>3. EndsOf(g, k, e + 1) = {m}
  <2>1. EndsOf(h, k, e + 1) = {}
    BY DEF Ledger
  <2>2. EndsOf(g, k, e + 1) = EndsOf(h, k, e + 1) \cup {m}
    BY LedgerAppend
  <2> HIDE DEF g, m
  <2> QED
    BY <2>1, <2>2
<1> HIDE DEF g, m
<1>4. ASSUME NEW i \in 1..(e + 1) PROVE \E j \in DOMAIN g : EndsOf(g, k, i) = {j}
  <2>1. CASE i = e + 1
    BY <1>1, <1>3, <2>1
  <2>2. CASE i # e + 1
    <3>1. i \in 1..e
      BY <2>2
    <3> QED
      BY <1>1, <1>2, <2>2, <3>1 DEF Ledger
  <2> QED
    BY <2>1, <2>2
<1>5. ASSUME NEW i \in Nat, i > e + 1 PROVE EndsOf(g, k, i) = {}
  <2>1. i # e + 1 /\ i > e
    BY <1>5
  <2> QED
    BY <1>2, <2>1 DEF Ledger
<1>6. ASSUME NEW j \in DOMAIN g, g[j].stage = k PROVE g[j].attempt \in 1..(e + 1)
  <2>1. CASE j = m
    BY <1>1, <2>1
  <2>2. CASE j # m
    <3>1. h[j].attempt \in 1..n
      BY <1>1, <1>6, <2>2 DEF Ledger
    <3> QED
      BY <1>1, <2>2, <3>1
  <2> QED
    BY <2>1, <2>2
<1>7. Ledger(g, k, e + 1, e + 1)
  BY <1>4, <1>5, <1>6 DEF Ledger
<1> QED
  BY <1>7 DEF g

(* The history of a copy fits its counters: the attempt that is counted    *)
(* last is open while its packet or its call is.                           *)
BookedAt(s, k, calling) ==
  LET n == s.attempts[k]
      open == s.stages[k] = "waiting_manual"
  IN
  /\ open => n >= 1 /\ Ledger(s.history, k, n - 1, n) /\ ~ calling
  /\ calling => n >= 1 /\ Ledger(s.history, k, n - 1, n - 1)
  /\ ~ open /\ ~ calling => Ledger(s.history, k, n, n)

LInv ==
  /\ TInv
  /\ \A k \in RemoteStages : BookedAt(disk, k, FALSE) /\ BookedAt(mem, k, Calling(k))

LEMMA FreshBooked ==
  ASSUME NEW s, s = NoState \/ \E m \in Modes : s = FreshState(m), NEW k \in RemoteStages
  PROVE  BookedAt(s, k, FALSE)
<1>1. s.attempts[k] = 0 /\ s.stages[k] = "none" /\ s.history = <<>>
  BY FreshFields, StageFacts
<1>2. Ledger(<<>>, k, 0, 0)
  BY DEF Ledger, EndsOf
<1> QED
  BY <1>1, <1>2 DEF BookedAt

LEMMA SameBooked ==
  ASSUME NEW s, NEW t, NEW k, NEW calling, BookedAt(s, k, calling),
         t.attempts[k] = s.attempts[k], t.stages[k] = s.stages[k], t.history = s.history
  PROVE  BookedAt(t, k, calling)
BY DEF BookedAt

(* The ledger of stage k when an attempt at another stage is recorded.     *)
LEMMA OtherBooked ==
  ASSUME NEW s \in State, NEW c \in State, NEW t, NEW k \in Stages, NEW j \in Stages \ {k},
         NEW calling, BookedAt(s, k, calling),
         c.attempts[k] = s.attempts[k], c.stages = s.stages, c.history = s.history,
         NEW n, NEW status, NEW inputs, NEW out,
         Ended(c, t, j, n, status, inputs, out)
  PROVE  BookedAt(t, k, calling)
<1> DEFINE r == [stage |-> j, attempt |-> n, status |-> status,
                 inputs |-> inputs, output |-> out]
<1>1. t.history = Append(s.history, r) /\ s.history \in Seq(Record) /\ r.stage # k
  BY StateFields DEF Ended
<1>2. t.attempts[k] = s.attempts[k] /\ t.stages[k] = s.stages[k]
  <2>1. c.stages \in [Stages -> StageStatus]
    BY StateFields
  <2> QED
    BY <2>1 DEF Ended
<1> HIDE DEF r
<1>3. \A e, m : Ledger(s.history, k, e, m) => Ledger(t.history, k, e, m)
  BY <1>1, LedgerOther
<1> QED
  BY <1>2, <1>3 DEF BookedAt

(* At most one stage is being called.                                      *)
LEMMA OneCall ==
  ASSUME NEW j \in RemoteStages, NEW k \in RemoteStages, j # k,
         mem.outputs[j] = 0,
         \A i \in RemoteStages : Position[i] < Position[j] => mem.outputs[i] # 0
  PROVE  ~ Calling(k)
<1>1. Position[j] < Position[k] \/ Position[k] < Position[j]
  BY DEF Position, RemoteStages
<1> QED
  BY <1>1 DEF Calling

LEMMA LedgerStep == LInv /\ [Next]_vars => LInv'
<1> SUFFICES ASSUME LInv, [Next]_vars PROVE LInv'
  OBVIOUS
<1>1. TInv /\ \A k \in RemoteStages : BookedAt(disk, k, FALSE) /\ BookedAt(mem, k, Calling(k))
  BY DEF LInv
<1>2. Moves
  BY <1>1, StepMoves
<1>3. mem \in State /\ disk \in State /\ RemoteStages \subseteq Stages
  BY <1>1, StageFacts DEF TInv, TypeOK
<1> SUFFICES ASSUME NEW k \in RemoteStages
             PROVE  BookedAt(disk', k, FALSE) /\ BookedAt(mem', k, Calling(k)')
  BY <1>2 DEF LInv, Moves
<1>4. BookedAt(disk, k, FALSE) /\ BookedAt(mem, k, Calling(k)) /\ k \in Stages
  BY <1>1, <1>3
<1>5. pc # "call" => ~ Calling(k)
  BY DEF Calling
<1>6. pc' # "call" => ~ Calling(k)'
  BY DEF Calling
<1>7. ASSUME pc # "call" PROVE BookedAt(mem, k, FALSE)
  BY <1>4, <1>5, <1>7 DEF BookedAt
<1>8. ASSUME pc' # "call", BookedAt(mem', k, FALSE) PROVE BookedAt(mem', k, Calling(k)')
  BY <1>6, <1>8 DEF BookedAt
<1>9. CASE Writes
  <2>1. pc # "call" /\ pc' # "call"
    BY <1>1, <1>9 DEF Writes, TInv, TypeOK
  <2> QED
    BY <1>7, <1>8, <1>9, <2>1, FreshBooked DEF Writes
<1>10. CASE Stays
  <2>1. Calling(k)' = Calling(k)
    BY <1>10 DEF Stays, Calling
  <2> QED
    BY <1>4, <1>10, <2>1 DEF Stays
<1>11. CASE Loads
  BY <1>4, <1>8, <1>11, FreshBooked DEF Loads
<1>12. CASE Chooses \/ Marks
  <2>1. /\ pc # "call" /\ pc' # "call" /\ disk' = disk
        /\ mem'.attempts = mem.attempts /\ mem'.stages = mem.stages
        /\ mem'.history = mem.history
    BY <1>12 DEF Chooses, Marks, Kept
  <2>2. BookedAt(mem', k, FALSE)
    BY <1>7, <2>1, SameBooked
  <2> QED
    BY <1>4, <1>8, <2>1, <2>2
<1>13. CASE Drafts
  <2>1. PICK c \in State, inputs \in SUBSET Nat :
          /\ CountsOne(mem, c, "item_blueprint", 1)
          /\ Ended(c, mem', "item_blueprint", 1, "succeeded", inputs, Len(store) + 1)
    BY <1>13 DEF Drafts
  <2>2. pc # "call" /\ pc' # "call" /\ disk' = disk
    BY <1>13 DEF Drafts
  <2>3. "item_blueprint" \in Stages \ {k}
    BY StageFacts DEF RemoteStages
  <2>4. c.attempts[k] = mem.attempts[k] /\ c.stages = mem.stages /\ c.history = mem.history
    <3>1. mem.attempts \in [Stages -> Nat]
      BY <1>3, StateFields
    <3> QED
      BY <1>4, <2>1, <2>3, <3>1 DEF CountsOne
  <2>5. BookedAt(mem', k, FALSE)
    BY <1>3, <1>4, <1>7, <2>1, <2>2, <2>3, <2>4, OtherBooked
  <2> QED
    BY <1>4, <1>8, <2>2, <2>5
<1>14. CASE Judges \/ Renders
  <2>1. PICK j \in {"validate", "render"}, st \in StageStatus, inputs \in SUBSET Nat,
             out \in Nat :
          Ended(mem, mem', j, 1, st, inputs, out)
    BY <1>14 DEF Judges, Renders, StageStatus
  <2>2. pc # "call" /\ pc' # "call" /\ disk' = disk
    BY <1>14 DEF Judges, Renders
  <2>3. j \in Stages \ {k}
    BY StageFacts DEF RemoteStages
  <2>4. BookedAt(mem', k, FALSE)
    BY <1>3, <1>4, <1>7, <2>1, <2>2, <2>3, OtherBooked
  <2> QED
    BY <1>4, <1>8, <2>2, <2>4
<1>15. CASE Imports
  <2>1. PICK j \in RemoteStages, inputs \in SUBSET Nat, out \in Nat \ {0} :
          /\ AtStage(j) /\ pc' = "write" /\ disk' = disk
          /\ mem.stages[j] = "waiting_manual"
          /\ Ended(mem, mem', j, mem.attempts[j], "succeeded", inputs, out)
    BY <1>15 DEF Imports
  <2>2. pc # "call" /\ pc' # "call" /\ disk' = disk
    BY <2>1 DEF AtStage
  <2>3. CASE j # k
    <3>1. j \in Stages \ {k}
      BY <1>3, <2>3
    <3>2. BookedAt(mem', k, FALSE)
      BY <1>3, <1>4, <1>7, <2>1, <2>2, <3>1, OtherBooked
    <3> QED
      BY <1>4, <1>8, <2>2, <3>2
  <2>4. CASE j = k
    <3> DEFINE n == mem.attempts[k]
               r == [stage |-> k, attempt |-> n, status |-> "succeeded",
                     inputs |-> inputs, output |-> out]
    <3>1. n >= 1 /\ Ledger(mem.history, k, n - 1, n)
      BY <1>7, <2>1, <2>2, <2>4 DEF BookedAt
    <3>2. n \in Nat /\ n - 1 \in Nat /\ mem.history \in Seq(Record)
      BY <1>3, <1>4, <3>1, StateFields
    <3>3. /\ mem'.stages[k] = "succeeded" /\ mem'.attempts[k] = n
          /\ mem'.history = Append(mem.history, r)
      BY <1>3, <1>4, <2>1, <2>4, StateFields DEF Ended
    <3>4. r.stage = k /\ r.attempt = (n - 1) + 1 /\ r.status # "waiting_manual"
          /\ n \in {n - 1, (n - 1) + 1} /\ (n - 1) + 1 = n
      BY <3>2
    <3> HIDE DEF n, r
    <3>5. Ledger(mem'.history, k, (n - 1) + 1, (n - 1) + 1)
      BY <3>1, <3>2, <3>3, <3>4, LedgerCloses
    <3>6. BookedAt(mem', k, FALSE)
      BY <3>3, <3>4, <3>5 DEF BookedAt
    <3> QED
      BY <1>4, <1>8, <2>2, <3>6
  <2> QED
    BY <2>3, <2>4
<1>16. CASE Exports
  <2>1. PICK j \in RemoteStages, inputs \in SUBSET Nat, c \in State :
          /\ AtStage(j) /\ pc' = "write" /\ disk' = disk
          /\ mem.stages[j] # "waiting_manual"
          /\ CountsOne(mem, c, j, mem.attempts[j] + 1)
          /\ Ended(c, mem', j, mem.attempts[j] + 1, "waiting_manual", inputs, 0)
    BY <1>16 DEF Exports
  <2>2. pc # "call" /\ pc' # "call" /\ disk' = disk
    BY <2>1 DEF AtStage
  <2>3. mem.attempts \in [Stages -> Nat] /\ c.stages \in [Stages -> StageStatus]
        /\ mem.history \in Seq(Record)
    BY <1>3, StateFields
  <2>4. CASE j # k
    <3>1. j \in Stages \ {k}
      BY <1>3, <2>4
    <3>2. c.attempts[k] = mem.attempts[k] /\ c.stages = mem.stages /\ c.history = mem.history
      BY <1>4, <2>1, <2>3, <3>1 DEF CountsOne
    <3>3. BookedAt(mem', k, FALSE)
      BY <1>3, <1>4, <1>7, <2>1, <2>2, <3>1, <3>2, OtherBooked
    <3> QED
      BY <1>4, <1>8, <2>2, <3>3
  <2>5. CASE j = k
    <3> DEFINE n == mem.attempts[k]
               r == [stage |-> k, attempt |-> n + 1, status |-> "waiting_manual",
                     inputs |-> inputs, output |-> 0]
    <3>1. Ledger(mem.history, k, n, n)
      BY <1>7, <2>1, <2>2, <2>5 DEF BookedAt
    <3>2. n \in Nat
      BY <1>4, <2>3
    <3>3. c.attempts[k] = n + 1 /\ c.history = mem.history
      BY <1>4, <2>1, <2>3, <2>5 DEF CountsOne
    <3>4. /\ mem'.stages[k] = "waiting_manual" /\ mem'.attempts[k] = n + 1
          /\ mem'.history = Append(mem.history, r)
      BY <1>4, <2>1, <2>3, <2>5, <3>3 DEF Ended
    <3>5. r.stage = k /\ r.attempt = n + 1 /\ r.status = "waiting_manual"
          /\ (n + 1) - 1 = n /\ n + 1 >= 1
      BY <3>2
    <3> HIDE DEF n, r
    <3>6. Ledger(mem'.history, k, n, n + 1)
      BY <2>3, <3>1, <3>2, <3>4, <3>5, LedgerOpens
    <3>7. BookedAt(mem', k, FALSE)
      BY <3>4, <3>5, <3>6 DEF BookedAt
    <3> QED
      BY <1>4, <1>8, <2>2, <3>7
  <2> QED
    BY <2>4, <2>5
<1>17. CASE Calls
  <2>1. PICK j \in RemoteStages :
          /\ AtStage(j) /\ pc' = "call" /\ disk' = disk
          /\ mem.stages[j] # "waiting_manual"
          /\ CountsOne(mem, mem', j, mem.attempts[j] + 1)
    BY <1>17 DEF Calls
  <2>2. pc # "call"
    BY <2>1 DEF AtStage
  <2>3. mem.attempts \in [Stages -> Nat] /\ mem'.outputs = mem.outputs
    BY <1>3, <2>1, StateFields DEF CountsOne
  <2>4. CASE j # k
    <3>1. ~ Calling(k)'
      <4>1. Position[j] < Position[k] \/ Position[k] < Position[j]
        BY <2>4 DEF Position, RemoteStages
      <4> QED
        BY <2>1, <2>3, <4>1 DEF AtStage, Calling
    <3>2. /\ mem'.attempts[k] = mem.attempts[k] /\ mem'.stages = mem.stages
          /\ mem'.history = mem.history
      BY <1>3, <1>4, <2>1, <2>3, <2>4 DEF CountsOne
    <3>3. BookedAt(mem', k, FALSE)
      BY <1>7, <2>2, <3>2, SameBooked
    <3>4. BookedAt(mem', k, Calling(k)')
      BY <3>1, <3>3 DEF BookedAt
    <3> QED
      BY <1>4, <2>1, <3>4
  <2>5. CASE j = k
    <3> DEFINE n == mem.attempts[k]
    <3>1. Ledger(mem.history, k, n, n)
      BY <1>7, <2>1, <2>2, <2>5 DEF BookedAt
    <3>2. n \in Nat
      BY <1>4, <2>3
    <3>3. /\ mem'.attempts[k] = n + 1 /\ mem'.history = mem.history
          /\ mem'.stages[k] # "waiting_manual"
      BY <1>4, <2>1, <2>3, <2>5 DEF CountsOne
    <3>4. Calling(k)'
      BY <2>1, <2>3, <2>5 DEF AtStage, Calling
    <3>5. (n + 1) - 1 = n /\ n + 1 >= 1
      BY <3>2
    <3> HIDE DEF n
    <3>6. BookedAt(mem', k, Calling(k)')
      BY <3>1, <3>3, <3>4, <3>5 DEF BookedAt
    <3> QED
      BY <1>4, <2>1, <3>6
  <2> QED
    BY <2>4, <2>5
<1>18. CASE Returns
  <2>1. PICK j \in RemoteStages, st \in {"succeeded", "failed"}, inputs \in SUBSET Nat,
             out \in Nat :
          /\ Calling(j) /\ pc' = "write" /\ disk' = disk
          /\ Ended(mem, mem', j, mem.attempts[j], st, inputs, out)
    BY <1>18 DEF Returns
  <2>2. CASE j # k
    <3>1. j \in Stages \ {k}
      BY <1>3, <2>2
    <3>2. ~ Calling(k)
      BY <2>1, <2>2, OneCall DEF Calling
    <3>3. BookedAt(mem, k, FALSE)
      BY <1>4, <3>2 DEF BookedAt
    <3>4. BookedAt(mem', k, FALSE)
      BY <1>3, <1>4, <2>1, <3>1, <3>3, OtherBooked
    <3> QED
      BY <1>4, <1>8, <2>1, <3>4
  <2>3. CASE j = k
    <3> DEFINE n == mem.attempts[k]
               r == [stage |-> k, attempt |-> n, status |-> st,
                     inputs |-> inputs, output |-> out]
    <3>1. n >= 1 /\ Ledger(mem.history, k, n - 1, n - 1)
      BY <1>4, <2>1, <2>3 DEF BookedAt
    <3>2. n \in Nat /\ n - 1 \in Nat /\ mem.history \in Seq(Record)
      BY <1>3, <1>4, <3>1, StateFields
    <3>3. /\ mem'.stages[k] = st /\ mem'.attempts[k] = n
          /\ mem'.history = Append(mem.history, r)
      BY <1>3, <1>4, <2>1, <2>3, StateFields DEF Ended
    <3>4. r.stage = k /\ r.attempt = (n - 1) + 1 /\ r.status # "waiting_manual"
          /\ n - 1 \in {n - 1, (n - 1) + 1} /\ (n - 1) + 1 = n
      BY <3>2
    <3> HIDE DEF n, r
    <3>5. Ledger(mem'.history, k, (n - 1) + 1, (n - 1) + 1)
      BY <3>1, <3>2, <3>3, <3>4, LedgerCloses
    <3>6. BookedAt(mem', k, FALSE)
      BY <3>3, <3>4, <3>5 DEF BookedAt
    <3> QED
      BY <1>4, <1>8, <2>1, <3>6
  <2> QED
    BY <2>2, <2>3
<1> QED
  BY <1>2, <1>9, <1>10, <1>11, <1>12, <1>13, <1>14, <1>15, <1>16, <1>17, <1>18
     DEF Moves, Effect

(* Every counted attempt at a remote stage has exactly one record of how it *)
(* ended, unless it is the one that waits for the operator, and there is no *)
(* record of an attempt that was not counted: crashes, retries inside a     *)
(* command and retries by later commands leave no gap and no double.        *)
THEOREM AttemptsAlwaysLogged == Spec => []AttemptsAreLogged
<1>1. Init => LInv
  <2> SUFFICES ASSUME Init PROVE LInv
    OBVIOUS
  <2>1. disk = NoState /\ mem = NoState /\ pc = "idle"
    BY DEF Init
  <2>2. TypeOK /\ ControlOK
    BY FreshStateType, BoundsAssumption DEF Init, TypeOK, ControlOK, Place
  <2>3. ASSUME NEW k \in RemoteStages PROVE ~ Calling(k)
    BY <2>1 DEF Calling
  <2>4. ASSUME NEW k \in RemoteStages
        PROVE  BookedAt(disk, k, FALSE) /\ BookedAt(mem, k, Calling(k))
    BY <2>1, <2>3, FreshBooked DEF BookedAt
  <2> QED
    BY <2>2, <2>4 DEF LInv, TInv
<1>2. LInv /\ [Next]_vars => LInv'
  BY LedgerStep
<1>3. LInv => AttemptsAreLogged
  <2> SUFFICES ASSUME LInv, NEW k \in RemoteStages
               PROVE  /\ \A n \in 1..disk.attempts[k] :
                           IF disk.stages[k] = "waiting_manual" /\ n = disk.attempts[k]
                           THEN Ends(disk, k, n) = {}
                           ELSE \E h \in DOMAIN disk.history : Ends(disk, k, n) = {h}
                      /\ \A h \in DOMAIN disk.history :
                           disk.history[h].stage = k =>
                             disk.history[h].attempt \in 1..disk.attempts[k]
    BY DEF AttemptsAreLogged
  <2> DEFINE m == disk.attempts[k]
             g == disk.history
  <2>1. BookedAt(disk, k, FALSE)
    BY DEF LInv
  <2>2. m \in Nat
    <3>1. disk \in State /\ k \in Stages
      BY StageFacts DEF LInv, TInv, TypeOK
    <3> QED
      BY <3>1, StateFields
  <2>3. \A n : Ends(disk, k, n) = EndsOf(g, k, n)
    BY DEF Ends, EndsOf
  <2>4. CASE disk.stages[k] = "waiting_manual"
    <3>1. m >= 1 /\ Ledger(g, k, m - 1, m)
      BY <2>1, <2>4 DEF BookedAt
    <3> HIDE DEF m, g
    <3>2. ASSUME NEW n \in 1..m, n # m PROVE \E h \in DOMAIN g : EndsOf(g, k, n) = {h}
      <4>1. n \in 1..(m - 1)
        BY <2>2, <3>2
      <4> QED
        BY <3>1, <4>1 DEF Ledger
    <3>3. EndsOf(g, k, m) = {}
      BY <2>2, <3>1 DEF Ledger
    <3>4. \A h \in DOMAIN g : g[h].stage = k => g[h].attempt \in 1..m
      BY <3>1 DEF Ledger
    <3> QED
      BY <2>3, <2>4, <3>2, <3>3, <3>4 DEF m, g
  <2>5. CASE disk.stages[k] # "waiting_manual"
    <3>1. Ledger(g, k, m, m)
      BY <2>1, <2>5 DEF BookedAt
    <3> HIDE DEF m, g
    <3>2. /\ \A n \in 1..m : \E h \in DOMAIN g : EndsOf(g, k, n) = {h}
          /\ \A h \in DOMAIN g : g[h].stage = k => g[h].attempt \in 1..m
      BY <3>1 DEF Ledger
    <3> QED
      BY <2>3, <2>5, <3>2 DEF m, g
  <2> QED
    BY <2>4, <2>5
<1> QED
  BY <1>1, <1>2, <1>3, PTL DEF Spec

-----------------------------------------------------------------------------
(* The run implements ExamPipeline.                                        *)

Done(s) == {k \in Stages : s.outputs[k] # 0}

Published(s) == s.bundle # 0

Closed(D) == \A k \in D : Needs(k) \subseteq D

(* What the next write of the state file adds to what is on disk.          *)
SameAs(s, t) == Done(t) = Done(s) /\ Published(t) = Published(s)

Reaches(s, t) ==
  \/ SameAs(s, t)
  \/ \E k \in Stages : /\ k \notin Done(s) /\ Needs(k) \subseteq Done(s)
                       /\ Done(t) = Done(s) \cup {k}
                       /\ Published(t) = Published(s)
  \/ /\ ~ Published(s) /\ Published(t)
     /\ Needs("render") \subseteq Done(s)
     /\ Done(t) = Done(s) \cup {"render"}

PInv ==
  /\ TInv
  /\ disk.status = "absent" => disk = NoState
  /\ Closed(Done(disk))
  /\ Under => mem.outputs["item_blueprint"] # 0
  /\ pc \notin {"idle", "write", "lineage"} => SameAs(disk, mem)
  /\ pc \in {"write", "lineage"} => Reaches(disk, mem)

LEMMA NeedsAre ==
  /\ Needs("item_blueprint") = {}
  /\ Needs("validate") = {"revise", "critique"}
  /\ Needs("render") = {"revise", "validate"}
  /\ \A k \in RemoteStages : \A j \in Needs(k) :
       j = "item_blueprint" \/ (j \in RemoteStages /\ Position[j] < Position[k])
BY StageFacts DEF Needs, RemoteStages, Position

LEMMA ClosedReached ==
  ASSUME NEW s, NEW t, Reaches(s, t), Closed(Done(s))
  PROVE  Closed(Done(t))
BY DEF Reaches, SameAs, Closed

LEMMA EndedDone ==
  ASSUME NEW s \in State, NEW t, NEW k \in Stages, NEW n, NEW status, NEW inputs, NEW out,
         Ended(s, t, k, n, status, inputs, out)
  PROVE  /\ out = 0 => Done(t) = Done(s) \ {k}
         /\ out # 0 => Done(t) = Done(s) \cup {k}
<1>1. s.outputs \in [Stages -> Nat] /\ t.outputs = [s.outputs EXCEPT ![k] = out]
  BY StateFields DEF Ended
<1> QED
  BY <1>1 DEF Done

(* A remote stage's turn comes when everything it needs is done.           *)
LEMMA TurnHasNeeds ==
  ASSUME NEW k \in RemoteStages, mem.outputs["item_blueprint"] # 0, mem.outputs[k] = 0,
         \A j \in RemoteStages : Position[j] < Position[k] => mem.outputs[j] # 0
  PROVE  k \in Stages /\ k \notin Done(mem) /\ Needs(k) \subseteq Done(mem)
BY NeedsAre, StageFacts DEF Done

LEMMA EndReaches ==
  ASSUME NEW s \in State, NEW t, NEW k \in Stages, NEW n, NEW status, NEW inputs, NEW out,
         Ended(s, t, k, n, status, inputs, out), out = 0 => k \notin Done(s),
         Needs(k) \subseteq Done(s), Published(t) = Published(s)
  PROVE  Reaches(s, t)
<1>1. /\ out = 0 => Done(t) = Done(s) \ {k}
      /\ out # 0 => Done(t) = Done(s) \cup {k}
  BY EndedDone
<1>2. CASE k \in Done(s) \/ out = 0
  BY <1>1, <1>2 DEF Reaches, SameAs
<1>3. CASE k \notin Done(s) /\ out # 0
  BY <1>1, <1>3 DEF Reaches
<1> QED
  BY <1>2, <1>3

LEMMA ReachesFromSame ==
  ASSUME NEW s, NEW t, NEW u, SameAs(s, t), Reaches(t, u)
  PROVE  Reaches(s, u)
BY DEF Reaches, SameAs

LEMMA PipelineStep == PInv /\ [Next]_vars => PInv' /\ (disk' = disk \/ Reaches(disk, disk'))
<1> SUFFICES ASSUME PInv, [Next]_vars
             PROVE  PInv' /\ (disk' = disk \/ Reaches(disk, disk'))
  OBVIOUS
<1>1. TInv /\ Closed(Done(disk)) /\ (disk.status = "absent" => disk = NoState)
  BY DEF PInv
<1>2. Moves
  BY <1>1, StepMoves
<1>3. TInv'
  BY <1>2 DEF Moves
<1>4. mem \in State /\ disk \in State
  BY <1>1 DEF TInv, TypeOK
<1>5. \A k \in Stages : NoState.outputs[k] = 0 /\ NoState.bundle = 0
  BY FreshFields
<1>6. ASSUME disk' = disk, Under' => mem'.outputs["item_blueprint"] # 0,
             pc' \notin {"idle", "write", "lineage"} => SameAs(disk, mem'),
             pc' \in {"write", "lineage"} => Reaches(disk, mem')
      PROVE  PInv' /\ (disk' = disk \/ Reaches(disk, disk'))
  BY <1>1, <1>3, <1>6 DEF PInv
<1>7. CASE Writes
  <2>1. /\ pc = "write" /\ disk' = mem /\ pc' = then
        /\ then \in {"idle", "family", "atom", "blueprint", "stage"}
        /\ then # "idle" => mem' = mem
    BY <1>1, <1>7 DEF Writes, TInv, TypeOK
  <2>2. Reaches(disk, disk') /\ Closed(Done(disk'))
    BY <1>1, <2>1, ClosedReached DEF PInv
  <2>3. disk'.status # "absent"
    BY <1>1, <2>1 DEF TInv, ControlOK
  <2>4. Under' => mem'.outputs["item_blueprint"] # 0
    BY <2>1 DEF PInv, Under, Place
  <2>5. pc' # "idle" => SameAs(disk', mem')
    BY <2>1 DEF SameAs
  <2>6. pc' \notin {"write", "lineage"}
    BY <2>1
  <2> QED
    BY <1>3, <2>2, <2>3, <2>4, <2>5, <2>6 DEF PInv
<1>8. CASE Stays
  <2>1. disk' = disk /\ mem' = mem /\ pc' = pc /\ Under' = Under
    BY <1>8 DEF Stays, Under, Place
  <2> QED
    BY <1>6, <2>1 DEF PInv
<1>9. CASE Loads
  <2>1. disk' = disk
    BY <1>9 DEF Loads
  <2>2. CASE pc' = "idle" /\ mem' = NoState
    BY <1>6, <2>1, <2>2 DEF Under, Place
  <2>3. CASE /\ pc' = "write" /\ then' = "family" /\ disk.status = "absent"
             /\ \E m \in Modes : mem' = FreshState(m)
    <3>1. \A k \in Stages : mem'.outputs[k] = 0 /\ mem'.bundle = 0
      BY <2>3, FreshFields
    <3>2. SameAs(disk, mem')
      BY <1>1, <1>5, <2>3, <3>1, StageFacts DEF SameAs, Done, Published
    <3> QED
      BY <1>6, <2>1, <2>3, <3>2 DEF Under, Place, Reaches
  <2>4. CASE pc' = "family" /\ mem' = disk
    BY <1>6, <2>1, <2>4 DEF Under, Place, SameAs
  <2> QED
    BY <1>9, <2>2, <2>3, <2>4 DEF Loads
<1>10. CASE Chooses
  <2>1. /\ disk' = disk /\ pc = "family" /\ pc' = "write" /\ then' = "atom"
        /\ mem'.outputs = mem.outputs /\ mem'.bundle = mem.bundle
    BY <1>10 DEF Chooses
  <2>2. SameAs(disk, mem')
    BY <2>1 DEF PInv, SameAs, Done, Published
  <2> QED
    BY <1>6, <2>1, <2>2 DEF Under, Place, Reaches
<1>11. CASE Marks
  <2>1. /\ disk' = disk /\ mem'.outputs = mem.outputs /\ mem'.bundle = mem.bundle
        /\ pc \notin {"idle", "write"} /\ (pc = "lineage" => pc' = "write")
        /\ Under' => Under \/ mem.outputs["item_blueprint"] # 0
    BY <1>11 DEF Marks, Kept
  <2>2. SameAs(mem, mem') /\ Done(mem') = Done(mem) /\ Published(mem') = Published(mem)
    BY <2>1 DEF SameAs, Done, Published
  <2>3. Under' => mem'.outputs["item_blueprint"] # 0
    BY <2>1 DEF PInv
  <2>4. CASE pc = "lineage"
    BY <1>6, <2>1, <2>2, <2>3, <2>4 DEF PInv, Reaches, SameAs
  <2>5. CASE pc # "lineage"
    <3>1. SameAs(disk, mem')
      BY <2>1, <2>2, <2>5 DEF PInv, SameAs
    <3> QED
      BY <1>6, <2>1, <2>3, <3>1 DEF Reaches
  <2> QED
    BY <2>4, <2>5
<1>12. ASSUME disk' = disk, pc' \in {"write", "lineage"}, SameAs(disk, mem),
              Reaches(mem, mem'), Under' => mem'.outputs["item_blueprint"] # 0
       PROVE  PInv' /\ (disk' = disk \/ Reaches(disk, disk'))
  <2>1. Reaches(disk, mem')
    BY <1>12, ReachesFromSame
  <2> QED
    BY <1>6, <1>12, <2>1
<1>13. ASSUME pc = "stage" \/ pc = "call"
       PROVE  SameAs(disk, mem) /\ mem.outputs["item_blueprint"] # 0
  BY <1>13 DEF PInv, Under, Place
<1>14. CASE Drafts
  <2>1. PICK c \in State, inputs \in SUBSET Nat :
          /\ CountsOne(mem, c, "item_blueprint", 1)
          /\ Ended(c, mem', "item_blueprint", 1, "succeeded", inputs, Len(store) + 1)
    BY <1>14 DEF Drafts
  <2>2. /\ disk' = disk /\ pc = "blueprint" /\ pc' = "write" /\ mem'.bundle = mem.bundle
        /\ "item_blueprint" \in Stages /\ store \in Seq(Artifact)
    BY <1>1, <1>14, StageFacts DEF Drafts, TInv, TypeOK
  <2>3. c.outputs = mem.outputs /\ Published(c) = Published(mem)
    BY <2>1 DEF CountsOne, Published
  <2>4. SameAs(mem, c) /\ SameAs(disk, mem)
    BY <2>2, <2>3 DEF SameAs, Done, PInv
  <2>5. Published(mem') = Published(c) /\ Len(store) + 1 # 0
    BY <2>2, <2>3 DEF Published
  <2>6. Reaches(c, mem')
    BY <2>1, <2>2, <2>5, NeedsAre, EndReaches
  <2>7. mem'.outputs["item_blueprint"] # 0
    <3>1. c.outputs \in [Stages -> Nat] /\ mem'.outputs = [c.outputs EXCEPT !["item_blueprint"] = Len(store) + 1]
      BY <2>1, StateFields DEF Ended
    <3> QED
      BY <2>2, <2>5, <3>1
  <2>8. Reaches(mem, mem')
    BY <2>4, <2>6, ReachesFromSame
  <2> QED
    BY <1>12, <2>2, <2>4, <2>7, <2>8
<1>15. CASE Judges
  <2>1. PICK st \in StageStatus, inputs \in SUBSET Nat, out \in Nat \ {0} :
          Ended(mem, mem', "validate", 1, st, inputs, out)
    BY <1>15 DEF Judges
  <2>2. /\ disk' = disk /\ pc = "stage" /\ pc' = "write" /\ mem'.bundle = mem.bundle
        /\ \A k \in RemoteStages : mem.outputs[k] # 0
        /\ "validate" \in Stages
    BY <1>15, StageFacts DEF Judges
  <2>3. Needs("validate") \subseteq Done(mem)
    BY <2>2, NeedsAre, StageFacts DEF Done, RemoteStages
  <2>4. Published(mem') = Published(mem) /\ out # 0
    BY <2>2 DEF Published
  <2>5. Reaches(mem, mem')
    BY <1>4, <2>1, <2>2, <2>3, <2>4, EndReaches
  <2>6. mem'.outputs["item_blueprint"] = mem.outputs["item_blueprint"]
    BY <1>4, <2>1, <2>2, EndedAt, StageFacts
  <2> QED
    BY <1>12, <1>13, <2>2, <2>5, <2>6
<1>16. CASE Renders
  <2>1. PICK inputs \in SUBSET Nat, out \in Nat \ {0} :
          Ended(mem, mem', "render", 1, "succeeded", inputs, out)
    BY <1>16 DEF Renders
  <2>2. /\ disk' = disk /\ pc = "stage" /\ pc' = "lineage"
        /\ mem.outputs["validate"] # 0 /\ ~ Published(mem) /\ Published(mem')
        /\ "render" \in Stages /\ "validate" \in Stages /\ "item_blueprint" \in Stages
    BY <1>16, StageFacts DEF Renders, Published
  <2>3. Closed(Done(mem))
    BY <1>1, <1>13, <2>2 DEF SameAs
  <2>4. Needs("render") \subseteq Done(mem)
    <3>1. "validate" \in Done(mem)
      BY <2>2 DEF Done
    <3>2. "revise" \in Done(mem)
      BY <2>3, <3>1, NeedsAre DEF Closed
    <3> QED
      BY <3>1, <3>2, NeedsAre
  <2>5. Done(mem') = Done(mem) \cup {"render"}
    BY <1>4, <2>1, <2>2, EndedDone
  <2>6. Reaches(mem, mem')
    BY <2>2, <2>4, <2>5 DEF Reaches
  <2>7. mem'.outputs["item_blueprint"] = mem.outputs["item_blueprint"]
    <3>1. mem.outputs \in [Stages -> Nat]
      BY <1>4, StateFields
    <3> QED
      BY <2>1, <2>2, <3>1 DEF Ended
  <2> QED
    BY <1>12, <1>13, <2>2, <2>6, <2>7
<1>17. ASSUME NEW k \in RemoteStages, NEW c \in State, NEW n, NEW status, NEW inputs,
              NEW out,
              c.outputs = mem.outputs, c.bundle = mem.bundle,
              Ended(c, mem', k, n, status, inputs, out), mem'.bundle = mem.bundle,
              mem.outputs["item_blueprint"] # 0, mem.outputs[k] = 0,
              \A j \in RemoteStages : Position[j] < Position[k] => mem.outputs[j] # 0
       PROVE  Reaches(mem, mem') /\ mem'.outputs["item_blueprint"] # 0
  <2>1. k \in Stages /\ k \notin Done(mem) /\ Needs(k) \subseteq Done(mem)
    BY <1>17, TurnHasNeeds
  <2>2. Done(c) = Done(mem) /\ Published(c) = Published(mem) /\ Published(mem') = Published(mem)
    BY <1>17 DEF Done, Published
  <2>3. Reaches(c, mem')
    BY <1>17, <2>1, <2>2, EndReaches
  <2>4. Reaches(mem, mem')
    BY <2>2, <2>3, ReachesFromSame DEF SameAs
  <2>5. "item_blueprint" \in Stages \ {k}
    BY StageFacts DEF RemoteStages
  <2>6. mem'.outputs["item_blueprint"] = c.outputs["item_blueprint"]
    BY <1>17, <2>1, <2>5, EndedAt
  <2> QED
    BY <1>17, <2>4, <2>6
<1>18. CASE Imports
  <2>1. PICK k \in RemoteStages, inputs \in SUBSET Nat, out \in Nat \ {0} :
          /\ disk' = disk /\ AtStage(k) /\ pc' = "write"
          /\ Ended(mem, mem', k, mem.attempts[k], "succeeded", inputs, out)
          /\ mem'.bundle = mem.bundle
    BY <1>18 DEF Imports
  <2>2. SameAs(disk, mem) /\ mem.outputs["item_blueprint"] # 0
    BY <1>13, <2>1 DEF AtStage
  <2>3. Reaches(mem, mem') /\ mem'.outputs["item_blueprint"] # 0
    BY <1>4, <1>17, <2>1, <2>2 DEF AtStage
  <2> QED
    BY <1>12, <2>1, <2>2, <2>3
<1>19. CASE Exports
  <2>1. PICK k \in RemoteStages, inputs \in SUBSET Nat, c \in State :
          /\ disk' = disk /\ AtStage(k) /\ pc' = "write"
          /\ CountsOne(mem, c, k, mem.attempts[k] + 1)
          /\ Ended(c, mem', k, mem.attempts[k] + 1, "waiting_manual", inputs, 0)
          /\ mem'.bundle = mem.bundle
    BY <1>19 DEF Exports
  <2>2. SameAs(disk, mem) /\ mem.outputs["item_blueprint"] # 0
    BY <1>13, <2>1 DEF AtStage
  <2>3. c.outputs = mem.outputs /\ c.bundle = mem.bundle
    BY <2>1 DEF CountsOne
  <2>4. Reaches(mem, mem') /\ mem'.outputs["item_blueprint"] # 0
    BY <1>17, <2>1, <2>2, <2>3 DEF AtStage
  <2> QED
    BY <1>12, <2>1, <2>2, <2>4
<1>20. CASE Calls
  <2>1. /\ disk' = disk /\ pc = "stage" /\ pc' = "call"
        /\ mem'.outputs = mem.outputs /\ mem'.bundle = mem.bundle
    BY <1>20 DEF Calls, AtStage, CountsOne
  <2>2. SameAs(disk, mem) /\ mem.outputs["item_blueprint"] # 0
    BY <1>13, <2>1
  <2>3. SameAs(disk, mem')
    BY <2>1, <2>2 DEF SameAs, Done, Published
  <2> QED
    BY <1>6, <2>1, <2>2, <2>3
<1>21. CASE Returns
  <2>1. PICK k \in RemoteStages, st \in {"succeeded", "failed"}, inputs \in SUBSET Nat,
             out \in Nat :
          /\ disk' = disk /\ Calling(k) /\ pc' = "write"
          /\ Ended(mem, mem', k, mem.attempts[k], st, inputs, out)
          /\ mem'.bundle = mem.bundle
    BY <1>21 DEF Returns
  <2>2. SameAs(disk, mem) /\ mem.outputs["item_blueprint"] # 0
    BY <1>13, <2>1 DEF Calling
  <2>3. Reaches(mem, mem') /\ mem'.outputs["item_blueprint"] # 0
    BY <1>4, <1>17, <2>1, <2>2 DEF Calling
  <2> QED
    BY <1>12, <2>1, <2>2, <2>3
<1> QED
  BY <1>2, <1>7, <1>8, <1>9, <1>10, <1>11, <1>14, <1>15, <1>16, <1>18, <1>19, <1>20, <1>21
     DEF Moves, Effect

LEMMA PipelineInit == Init => PInv /\ Pipeline!Init
<1> SUFFICES ASSUME Init PROVE PInv /\ Pipeline!Init
  OBVIOUS
<1>1. disk = NoState /\ mem = NoState /\ pc = "idle"
  BY DEF Init
<1>2. TypeOK /\ ControlOK
  BY FreshStateType, BoundsAssumption DEF Init, TypeOK, ControlOK, Place
<1>3. Done(disk) = {} /\ ~ Published(disk)
  BY <1>1, FreshFields DEF Done, Published
<1>4. PInv
  BY <1>1, <1>2, <1>3 DEF PInv, TInv, Closed, Under, Place
<1>5. Pipeline!Init
  BY <1>3 DEF Pipeline!Init, Done, Published
<1> QED
  BY <1>4, <1>5

(* Whoever watches the state file sees ExamPipeline: stages are delivered   *)
(* one by one, each after what it is computed from, none is withdrawn, and  *)
(* the bundle is published once and last, whatever crashes, fails or is     *)
(* answered badly in between.                                              *)
THEOREM GauntletImplementsPipeline == Spec => ImplementsPipeline
<1>1. Init => PInv /\ Pipeline!Init
  BY PipelineInit
<1>2. PInv /\ [Next]_vars => PInv' /\ [Pipeline!Next]_<<{k \in Stages : disk.outputs[k] # 0}, (disk.bundle # 0)>>
  <2> SUFFICES ASSUME PInv, [Next]_vars
               PROVE  [Pipeline!Next]_<<{k \in Stages : disk.outputs[k] # 0}, (disk.bundle # 0)>>
    BY PipelineStep
  <2>1. CASE disk' = disk
    BY <2>1
  <2>2. CASE SameAs(disk, disk')
    BY <2>2 DEF SameAs, Done, Published
  <2>3. CASE \E k \in Stages : /\ k \notin Done(disk) /\ Needs(k) \subseteq Done(disk)
                               /\ Done(disk') = Done(disk) \cup {k}
                               /\ Published(disk') = Published(disk)
    BY <2>3 DEF Pipeline!Next, Pipeline!Deliver, Done, Published
  <2>4. CASE /\ ~ Published(disk) /\ Published(disk')
             /\ Needs("render") \subseteq Done(disk)
             /\ Done(disk') = Done(disk) \cup {"render"}
    BY <2>4 DEF Pipeline!Next, Pipeline!Publish, Done, Published
  <2> QED
    BY <2>1, <2>2, <2>3, <2>4, PipelineStep DEF Reaches
<1> QED
  BY <1>1, <1>2, PTL DEF Spec, ImplementsPipeline, Pipeline!Spec

-----------------------------------------------------------------------------
(* The bundle, the lineage and the state.                                  *)

BundledIn(s, o, artifacts) ==
  s.bundle # 0 =>
    /\ s.outputs["render"] # 0 /\ s.validation # 0
    /\ o = [item |-> s.outputs["revise"], validation |-> s.validation, log |-> s.history]
    /\ s.lineage \in 1..Len(artifacts)
    /\ artifacts[s.lineage].log = s.history
    /\ {s.outputs[k] : k \in Stages} \subseteq artifacts[s.lineage].from

(* Between the item and validation files and the lineage.                  *)
HalfBundled ==
  /\ disk.bundle = 0
  /\ mem.outputs["render"] # 0 /\ mem.validation # 0
  /\ outdir.item = mem.outputs["revise"] /\ outdir.validation = mem.validation

BInv ==
  /\ PInv
  /\ BundledIn(disk, outdir, store)
  /\ pc \notin {"idle", "lineage"} => BundledIn(mem, outdir, store)
  /\ pc = "lineage" => HalfBundled

LEMMA NotBundled ==
  ASSUME NEW s, s.bundle = 0, NEW o, NEW A
  PROVE  BundledIn(s, o, A)
BY DEF BundledIn

LEMMA BundledSame ==
  ASSUME NEW s, NEW t, NEW o, NEW A, BundledIn(s, o, A), t.bundle = s.bundle,
         t.outputs = s.outputs, t.history = s.history, Marked(s, t)
  PROVE  BundledIn(t, o, A)
BY DEF BundledIn, Marked

LEMMA BundledLasts ==
  ASSUME Grows, NEW s, NEW o, BundledIn(s, o, store)
  PROVE  BundledIn(s, o, store')
BY DEF BundledIn, Grows

(* A run with a bundle has an output of every stage.                       *)
LEMMA BundledIsDone ==
  ASSUME PInv, pc \notin {"idle", "lineage"}, BundledIn(mem, outdir, store), mem.bundle # 0
  PROVE  /\ \A k \in RemoteStages \cup {"item_blueprint", "validate"} : mem.outputs[k] # 0
         /\ mem.validation # 0
<1>1. Closed(Done(mem))
  <2>1. Closed(Done(disk)) /\ (SameAs(disk, mem) \/ Reaches(disk, mem))
    BY DEF PInv
  <2> QED
    BY <2>1, ClosedReached DEF SameAs
<1>2. "render" \in Done(mem) /\ mem.validation # 0
  BY StageFacts DEF BundledIn, Done
<1>3. "revise" \in Done(mem) /\ "validate" \in Done(mem)
  BY <1>1, <1>2, NeedsAre DEF Closed
<1>4. "critique" \in Done(mem)
  BY <1>1, <1>3, NeedsAre DEF Closed
<1>5. "solve" \in Needs("revise") /\ "draft_item" \in Needs("solve")
      /\ "item_blueprint" \in Needs("draft_item")
  BY StageFacts DEF Needs
<1>6. "solve" \in Done(mem) /\ "draft_item" \in Done(mem) /\ "item_blueprint" \in Done(mem)
  BY <1>1, <1>3, <1>5 DEF Closed
<1> QED
  BY <1>2, <1>3, <1>4, <1>6 DEF Done, RemoteStages

(* Only the two rendering steps write the output directory.                *)
LEMMA OtherSteps ==
  ASSUME TInv, [Next]_vars, ~ RenderItem, ~ RenderLineage
  PROVE  /\ outdir' = outdir
         /\ pc' = "lineage" => pc = "lineage" /\ UNCHANGED <<disk, mem>>
         /\ pc = "lineage" => pc' \in {"idle", "lineage"}
<1> USE DEF files, WriteNext
<1>1. CASE Proceed
  <2>1. ASSUME NEW k \in RemoteStages,
               \/ AwaitResponse(k) \/ ImportResponse(k) \/ ExportPacket(k)
               \/ CallProvider(k) \/ \E c \in Contents : ProviderAnswers(k, c)
        PROVE  outdir' = outdir /\ pc # "lineage" /\ pc' # "lineage"
    BY <2>1 DEF AwaitResponse, ImportResponse, ExportPacket, CallProvider,
       ProviderAnswers, AtStage, Calling
  <2>2. ASSUME \/ ResolveFamily \/ RefuseFamily \/ BootstrapAtom
               \/ BootstrapBlueprint \/ ValidateItem \/ Finish
        PROVE  outdir' = outdir /\ pc # "lineage" /\ pc' # "lineage"
    BY <2>2 DEF ResolveFamily, RefuseFamily, BootstrapAtom,
       BootstrapBlueprint, ValidateItem, Finish
  <2>3. ASSUME WriteState
        PROVE  outdir' = outdir /\ pc # "lineage" /\ pc' # "lineage"
    BY <2>3 DEF WriteState, TInv, TypeOK
  <2> QED
    BY <1>1, <2>1, <2>2, <2>3 DEF Proceed
<1>2. ASSUME NEW m \in Modes, NEW f \in Families \cup {"any"}, Invoke(m, f)
      PROVE  outdir' = outdir /\ pc # "lineage" /\ pc' # "lineage"
  BY <1>2 DEF Invoke
<1>3. ASSUME NEW k \in RemoteStages, NEW received \in BOOLEAN,
             ProviderMalformed(k, received) \/ ProviderRaises(k)
      PROVE  outdir' = outdir /\ pc # "lineage" /\ pc' # "lineage"
  BY <1>3 DEF ProviderMalformed, ProviderRaises, Calling
<1>4. ASSUME NEW f \in packets, NEW says \in Contents \cup {"unparsable"},
             Respond(f, says)
      PROVE  UNCHANGED <<outdir, pc, disk, mem>>
  BY <1>4 DEF Respond
<1>5. CASE Crash
  BY <1>5 DEF Crash
<1>6. CASE UNCHANGED vars
  BY <1>6 DEF vars
<1> QED
  BY <1>1, <1>2, <1>3, <1>4, <1>5, <1>6 DEF Next

LEMMA RenderBundles ==
  ASSUME BInv, PInv', RenderItem
  PROVE  BInv'
<1> USE DEF files
<1>1. /\ disk' = disk /\ pc = "stage" /\ pc' = "lineage"
      /\ mem.bundle = 0 /\ mem.validation # 0
      /\ outdir' = [outdir EXCEPT !.item = mem.outputs["revise"],
                                  !.validation = mem.validation]
  BY DEF RenderItem
<1>2. TInv /\ TypeOK /\ mem \in State
  BY DEF BInv, PInv, TInv, TypeOK
<1>3. disk.bundle = 0
  BY <1>1 DEF BInv, PInv, SameAs, Published
<1> DEFINE l == Logged(mem, "render", 1, "succeeded", InputsOf(mem, "render"), Len(store) + 1)
           t == [l EXCEPT !.bundle = Len(store) + 1]
<1>4. mem' = t
  BY DEF RenderItem
<1>5. /\ "render" \in Stages /\ "revise" \in Stages /\ 1 \in Nat /\ "succeeded" \in StageStatus
      /\ InputsOf(mem, "render") \in SUBSET Nat
      /\ Len(store) + 1 \in Nat /\ Len(store) + 1 # 0
  <2>1. "render" \in Stages /\ "revise" \in Stages
    BY StageFacts
  <2>2. Len(store) \in Nat /\ InputsOf(mem, "render") \in SUBSET Nat
    BY <1>2, <2>1, MemType
  <2> QED
    BY <2>1, <2>2 DEF StageStatus
<1>6. /\ l \in State /\ l.validation = mem.validation
      /\ l.outputs = [mem.outputs EXCEPT !["render"] = Len(store) + 1]
  <2>1. l \in State
    BY <1>2, <1>5, LoggedType
  <2>2. l.validation = mem.validation
        /\ l.outputs = [mem.outputs EXCEPT !["render"] = Len(store) + 1]
    BY <1>2, <1>5 DEF Logged, State
  <2> QED
    BY <2>1, <2>2
<1> HIDE DEF l
<1>7. t.validation = l.validation /\ t.outputs = l.outputs
  BY <1>6, SetBundle
<1> HIDE DEF t
<1>8. mem'.outputs["render"] # 0 /\ mem'.outputs["revise"] = mem.outputs["revise"]
  <2>1. mem.outputs \in [Stages -> Nat]
    BY <1>2, StateFields
  <2> QED
    BY <1>4, <1>5, <1>6, <1>7, <2>1
<1>9. outdir'.item = mem.outputs["revise"] /\ outdir'.validation = mem.validation
  BY <1>1, <1>2 DEF TypeOK
<1>10. HalfBundled'
  BY <1>1, <1>3, <1>4, <1>6, <1>7, <1>8, <1>9 DEF HalfBundled
<1>11. BundledIn(disk', outdir', store')
  BY <1>1, <1>3, NotBundled
<1> QED
  BY <1>1, <1>10, <1>11 DEF BInv

LEMMA LineageBundles ==
  ASSUME BInv, PInv', RenderLineage
  PROVE  BInv'
<1> USE DEF files
<1> DEFINE from == {mem.outputs[k] : k \in Stages} \cup {mem.atom, mem.validation}
           r == Saved("lineage", from, "sound")
           a == [r EXCEPT !.log = mem.history]
           t == [mem EXCEPT !.lineage = Len(store) + 1]
<1>1. /\ disk' = disk /\ pc = "lineage" /\ pc' = "write"
      /\ outdir' = [outdir EXCEPT !.log = mem.history]
      /\ store' = Append(store, a) /\ mem' = t
  BY DEF RenderLineage, WriteNext
<1>2. /\ TypeOK /\ mem \in State /\ HalfBundled /\ store \in Seq(Artifact)
      /\ outdir \in [item : Nat, validation : Nat, log : Seq(Record)]
  BY <1>1 DEF BInv, PInv, TInv, TypeOK
<1>3. /\ t.lineage = Len(store) + 1 /\ t.outputs = mem.outputs
      /\ t.validation = mem.validation /\ t.history = mem.history
  BY <1>2, SetLineage
<1>4. outdir' = [item |-> mem.outputs["revise"], validation |-> mem.validation,
                 log |-> mem.history]
  BY <1>1, <1>2 DEF HalfBundled
<1>5. a.log = mem.history /\ a.from = from
  BY DEF Saved
<1>6. store'[Len(store) + 1] = a /\ Len(store) + 1 \in 1..Len(store')
  <2> HIDE DEF a
  <2> QED
    BY <1>1, <1>2
<1> HIDE DEF t, a
<1>7. BundledIn(mem', outdir', store')
  <2>1. mem'.outputs["render"] # 0 /\ mem'.validation # 0
    BY <1>1, <1>2, <1>3 DEF HalfBundled
  <2>2. {mem'.outputs[k] : k \in Stages} \subseteq store'[mem'.lineage].from
    BY <1>1, <1>3, <1>5, <1>6
  <2>3. mem'.lineage \in 1..Len(store') /\ store'[mem'.lineage].log = mem'.history
    BY <1>1, <1>3, <1>5, <1>6
  <2>4. outdir' = [item |-> mem'.outputs["revise"], validation |-> mem'.validation,
                   log |-> mem'.history]
    BY <1>1, <1>3, <1>4
  <2> QED
    BY <2>1, <2>2, <2>3, <2>4 DEF BundledIn
<1>8. BundledIn(disk', outdir', store')
  BY <1>1, <1>2, NotBundled DEF HalfBundled
<1> QED
  BY <1>1, <1>7, <1>8 DEF BInv

LEMMA BundleStep == BInv /\ [Next]_vars => BInv'
<1> SUFFICES ASSUME BInv, [Next]_vars, ~ RenderItem, ~ RenderLineage, PInv' PROVE BInv'
  BY RenderBundles, LineageBundles, PipelineStep DEF BInv
<1>1. PInv /\ TInv /\ BundledIn(disk, outdir, store)
  BY DEF BInv, PInv
<1>2. Moves
  BY <1>1, StepMoves
<1>3. /\ outdir' = outdir
      /\ pc' = "lineage" => pc = "lineage" /\ UNCHANGED <<disk, mem>>
      /\ pc = "lineage" => pc' \in {"idle", "lineage"}
  BY <1>1, OtherSteps
<1>4. Grows
  BY <1>2 DEF Moves
<1>5. BundledIn(disk, outdir', store')
  BY <1>1, <1>3, <1>4, BundledLasts
<1>6. ASSUME pc \notin {"idle", "lineage"}
      PROVE  BundledIn(mem, outdir, store) /\ BundledIn(mem, outdir', store')
  BY <1>3, <1>4, <1>6, BundledLasts DEF BInv
<1>7. CASE pc' = "lineage"
  BY <1>3, <1>5, <1>7 DEF BInv, HalfBundled
<1>8. ASSUME pc' # "lineage", BundledIn(disk', outdir', store'),
             pc' # "idle" => BundledIn(mem', outdir', store')
      PROVE  BInv'
  BY <1>8 DEF BInv
<1>9. CASE pc' # "lineage" /\ pc = "lineage"
  <2>1. pc' = "idle"
    BY <1>3, <1>9
  <2>2. disk' = disk
    BY <1>2, <1>9, <2>1 DEF Moves, Effect, Writes, Stays, Loads, Chooses, Marks, Drafts,
       Judges, Renders, Imports, Exports, Calls, Returns
  <2> QED
    BY <1>5, <1>8, <2>1, <2>2
<1>10. CASE pc' # "lineage" /\ pc # "lineage"
  <2> USE <1>10
  <2>1. CASE Writes
    BY <1>6, <1>8, <2>1 DEF Writes
  <2>2. CASE Stays
    BY <1>5, <1>6, <1>8, <2>2 DEF Stays
  <2>3. CASE Loads
    <3>1. disk' = disk /\ (mem' = NoState \/ mem' = disk \/ \E m \in Modes : mem' = FreshState(m))
      BY <2>3 DEF Loads
    <3>2. BundledIn(mem', outdir', store')
      BY <1>5, <3>1, FreshFields, NotBundled
    <3> QED
      BY <1>5, <1>8, <3>1, <3>2
  <2>4. CASE Chooses \/ Marks
    <3>1. /\ disk' = disk /\ pc # "idle"
          /\ mem'.bundle = mem.bundle /\ mem'.outputs = mem.outputs
          /\ mem'.history = mem.history /\ Marked(mem, mem')
      BY <2>4 DEF Chooses, Marks, Kept
    <3>2. BundledIn(mem', outdir', store')
      BY <1>6, <3>1, BundledSame
    <3> QED
      BY <1>5, <1>8, <3>1, <3>2
  <2>5. CASE Drafts \/ Judges \/ Imports \/ Exports \/ Calls \/ Returns
    <3>1. /\ disk' = disk /\ pc # "idle" /\ mem'.bundle = mem.bundle
          /\ \/ \E k \in RemoteStages \cup {"item_blueprint", "validate"} : mem.outputs[k] = 0
             \/ mem.validation = 0
      BY <2>5 DEF Drafts, Judges, Imports, Exports, Calls, Returns, AtStage, Calling,
         CountsOne
    <3>2. mem.bundle = 0
      BY <1>1, <1>6, <3>1, BundledIsDone
    <3>3. BundledIn(mem', outdir', store')
      BY <3>1, <3>2, NotBundled
    <3> QED
      BY <1>5, <1>8, <3>1, <3>3
  <2>6. CASE Renders
    BY <2>6 DEF Renders
  <2> QED
    BY <1>2, <2>1, <2>2, <2>3, <2>4, <2>5, <2>6 DEF Moves, Effect
<1> QED
  BY <1>7, <1>9, <1>10

(* The files of the output directory, the lineage artifact and the state    *)
(* file describe the same bundle, also when a rendering was interrupted     *)
(* and repeated.                                                           *)
THEOREM BundleAlwaysMatches == Spec => []BundleMatchesState
<1>1. Init => BInv
  <2> SUFFICES ASSUME Init PROVE BInv
    OBVIOUS
  <2>1. disk = NoState /\ pc = "idle"
    BY DEF Init
  <2>2. PInv
    BY PipelineInit
  <2>3. BundledIn(disk, outdir, store)
    BY <2>1, FreshFields, NotBundled
  <2> QED
    BY <2>1, <2>2, <2>3 DEF BInv
<1>2. BInv /\ [Next]_vars => BInv'
  BY BundleStep
<1>3. BInv => BundleMatchesState
  BY DEF BInv, BundledIn, BundleMatchesState
<1> QED
  BY <1>1, <1>2, <1>3, PTL DEF Spec
=============================================================================
