----------------------- MODULE OrchestratorRuns_proofs -----------------------
(***************************************************************************)
(* More about the runs of Orchestrator, for every number of items and every *)
(* bound.  With any set of concurrent processes, a stage that waits for the *)
(* operator can always be answered.  With one command at a time the history *)
(* only grows, lineage never leaves the run, and the run implements         *)
(* ExamPipeline; concurrent commands overwrite each other's state files,    *)
(* and none of the three holds of them.                                     *)
(***************************************************************************)
EXTENDS Orchestrator_proofs

Answerable(s, pk) ==
  \A k \in Keys :
    s.stages[k] = "waiting_manual" =>
      \E f \in pk : f.key = k /\ f.attempt = s.attempts[k]

(* No packet file disappears: it may only be overwritten.                  *)
Covers(pk, pk2) ==
  \A f \in pk : \E g \in pk2 : g.key = f.key /\ g.attempt = f.attempt

(* Every copy of the state is answerable, for any may be written next.     *)
WInv ==
  /\ TypeOK
  /\ Answerable(disk, packets)
  /\ \A p \in Procs : Answerable(mem[p], packets)

LEMMA AnswerableCovers ==
  ASSUME NEW s, NEW pk, NEW pk2, Answerable(s, pk), Covers(pk, pk2)
  PROVE  Answerable(s, pk2)
BY DEF Answerable, Covers

LEMMA CoversItself == \A pk : Covers(pk, pk)
BY DEF Covers

(* s and t agree but at stage k.                                           *)
Elsewhere(s, t, k) ==
  \A j \in Keys : j # k => t.stages[j] = s.stages[j]
                           /\ t.attempts[j] = s.attempts[j]

(* A state whose stages and attempts are those of s, but at a stage that   *)
(* does not wait.                                                          *)
LEMMA AnswerableElsewhere ==
  ASSUME NEW s, NEW t, NEW k, NEW pk, Answerable(s, pk),
         Elsewhere(s, t, k), t.stages[k] # "waiting_manual"
  PROVE  Answerable(t, pk)
BY DEF Answerable, Elsewhere

LEMMA AnswerableSame ==
  ASSUME NEW s, NEW t, NEW pk, Answerable(s, pk),
         t.stages = s.stages, t.attempts = s.attempts
  PROVE  Answerable(t, pk)
BY DEF Answerable

LEMMA FreshAnswerable ==
  ASSUME NEW pk
  PROVE  /\ \A m : Answerable(FreshState(m), pk)
         /\ Answerable(NoState, pk)
BY DEF Answerable, FreshState, NoState

(* What the transformers of the state do to its stages and attempts.       *)
LEMMA CountedStages ==
  ASSUME NEW s \in State, NEW k \in Keys, NEW n \in Nat
  PROVE  /\ Counted(s, k, n).stages = s.stages
         /\ Elsewhere(s, Counted(s, k, n), k)
BY DEF Counted, State, Elsewhere

LEMMA StartedStages ==
  ASSUME NEW s \in State, NEW k \in Keys, NEW id \in Nat
  PROVE  /\ Started(s, k, id).stages = s.stages
         /\ Elsewhere(s, Started(s, k, id), k)
BY DEF Started, Counted, State, Elsewhere

LEMMA SucceededStages ==
  ASSUME NEW s \in State, NEW k \in Keys, NEW r \in Record
  PROVE  /\ Succeeded(s, k, r).stages[k] = "succeeded"
         /\ Elsewhere(s, Succeeded(s, k, r), k)
BY DEF Succeeded, State, Elsewhere

LEMMA FailedStages ==
  ASSUME NEW s \in State, NEW k \in Keys, NEW r \in Record
  PROVE  /\ Failed(s, k, r).stages[k] = "failed"
         /\ Elsewhere(s, Failed(s, k, r), k)
BY DEF Failed, State, Elsewhere

LEMMA WaitingStages ==
  ASSUME NEW s \in State, NEW k \in Keys, NEW inputs \in SUBSET Nat
  PROVE  /\ Waiting(s, k, inputs).attempts = s.attempts
         /\ Elsewhere(s, Waiting(s, k, inputs), k)
BY DEF Waiting, State, Elsewhere

(* A stage that succeeds or fails after its attempt was counted.           *)
LEMMA DoneAnswerable ==
  ASSUME NEW s \in State, NEW k \in Keys, NEW n \in Nat, NEW r \in Record,
         NEW pk, Answerable(s, pk)
  PROVE  /\ Answerable(Succeeded(s, k, r), pk)
         /\ Answerable(Failed(s, k, r), pk)
         /\ Answerable(Succeeded(Counted(s, k, n), k, r), pk)
         /\ Answerable(Failed(Counted(s, k, n), k, r), pk)
<1>1. ASSUME NEW t \in State, Elsewhere(s, t, k)
      PROVE  /\ Answerable(Succeeded(t, k, r), pk)
             /\ Answerable(Failed(t, k, r), pk)
  <2>1. ASSUME NEW u, Elsewhere(t, u, k), u.stages[k] # "waiting_manual"
        PROVE  Answerable(u, pk)
    <3>1. Elsewhere(s, u, k)
      BY <1>1, <2>1 DEF Elsewhere
    <3>2. QED
      BY <2>1, <3>1, AnswerableElsewhere
  <2>2. Answerable(Succeeded(t, k, r), pk)
    BY <2>1, SucceededStages
  <2>3. Answerable(Failed(t, k, r), pk)
    BY <2>1, FailedStages
  <2>4. QED
    BY <2>2, <2>3
<1>2. Elsewhere(s, s, k)
  BY DEF Elsewhere
<1>3. Counted(s, k, n) \in State /\ Elsewhere(s, Counted(s, k, n), k)
  BY TransformerTypes, CountedStages
<1>4. QED
  BY <1>1, <1>2, <1>3

(* A bundle, in run_exam or on demand.                                     *)
LEMMA BundleAnswerable ==
  ASSUME NEW s \in State, NEW id \in Nat, NEW pk, Answerable(s, pk)
  PROVE  Answerable(BundleOf(s, id), pk)
<1> DEFINE n == s.attempts[Assemble] + 1
           t == Counted(s, Assemble, n)
           r == StageRecord(t, Assemble, "succeeded", InputsOf(s, Assemble), 0, {}, id)
<1>1. n \in Nat
  BY KeyFacts, StateFields
<1> HIDE DEF n
<1>2. t \in State
  BY <1>1, KeyFacts, TransformerTypes
<1> HIDE DEF t
<1>3. r \in Record
  BY <1>2, KeyFacts, TransformerTypes, RecordType DEF StageStatus
<1>4. BundleOf(s, id) = Succeeded(t, Assemble, r)
  BY DEF BundleOf, t, n
<1> HIDE DEF r
<1>5. QED
  BY <1>1, <1>3, <1>4, KeyFacts, DoneAnswerable DEF t

(* A step that prepares state s for writing.                               *)
LEMMA WaitingWrite ==
  ASSUME WInv, TypeOK', NEW p \in Procs, NEW s, NEW next,
         WriteNext(p, s, next), disk' = disk, Covers(packets, packets'),
         Answerable(s, packets')
  PROVE  WInv'
<1>1. Answerable(disk', packets')
  BY AnswerableCovers DEF WInv
<1>2. \A q \in Procs : Answerable(mem'[q], packets')
  BY AnswerableCovers DEF WInv, TypeOK, WriteNext
<1>3. QED
  BY <1>1, <1>2 DEF WInv

(* A step that keeps the packets and replaces the memory of p by a state   *)
(* that can be answered.                                                   *)
LEMMA WaitingMemory ==
  ASSUME WInv, TypeOK', NEW p \in Procs, NEW s,
         mem' = [mem EXCEPT ![p] = s], packets' = packets, disk' = disk,
         Answerable(s, packets)
  PROVE  WInv'
<1>1. \A q \in Procs : Answerable(mem'[q], packets')
  BY DEF WInv, TypeOK
<1>2. QED
  BY <1>1 DEF WInv

LEMMA WaitingProceed ==
  ASSUME WInv, TypeOK', NEW p \in Procs, Proceed(p)
  PROVE  WInv'
<1>1. /\ mem[p] \in State /\ Answerable(mem[p], packets)
      /\ Len(store) + 1 \in Nat /\ cur[p] \in Keys
      /\ mem[p].stages \in [Keys -> StageStatus]
      /\ mem[p].attempts \in [Keys -> Nat]
      /\ mem[p].outputs \in [Keys -> Nat]
      /\ mem[p].prompts \in [Keys -> Nat]
  BY ProcessType DEF WInv
<1>2. CASE WriteState(p)
  <2>1. \A q \in Procs : mem'[q] = mem[q] \/ mem'[q] = NoState
    BY <1>2 DEF WriteState, WInv, TypeOK
  <2>2. disk' = mem[p] /\ packets' = packets
    BY <1>2 DEF WriteState
  <2>3. QED
    BY <2>1, <2>2, FreshAnswerable DEF WInv
<1>3. CASE Bootstrap(p)
  <2> DEFINE s == [mem[p] EXCEPT !.status = "running"]
             t == [s EXCEPT !.spec = Len(store) + 1]
  <2>1. /\ s.stages = mem[p].stages /\ s.attempts = mem[p].attempts
        /\ t.stages = mem[p].stages /\ t.attempts = mem[p].attempts
    BY <1>1 DEF State
  <2>2. \/ WriteNext(p, t, "stage")
        \/ mem' = [mem EXCEPT ![p] = s]
    BY <1>3 DEF Bootstrap
  <2>3. packets' = packets /\ disk' = disk
    BY <1>3 DEF Bootstrap
  <2> HIDE DEF s, t
  <2>4. Answerable(s, packets) /\ Answerable(t, packets)
    BY <1>1, <2>1, AnswerableSame
  <2>5. QED
    BY <2>2, <2>3, <2>4, WaitingWrite, WaitingMemory, CoversItself
<1>4. ASSUME NEW k \in Keys, AwaitManual(p, k) PROVE WInv'
  <2> DEFINE s == [mem[p] EXCEPT !.status = "waiting_manual"]
  <2>1. s.stages = mem[p].stages /\ s.attempts = mem[p].attempts
    BY <1>1 DEF State
  <2>2. WriteNext(p, s, "idle") /\ packets' = packets /\ disk' = disk
    BY <1>4 DEF AwaitManual
  <2> HIDE DEF s
  <2>3. Answerable(s, packets)
    BY <1>1, <2>1, AnswerableSame
  <2>4. QED
    BY <2>2, <2>3, WaitingWrite, CoversItself
<1>5. ASSUME NEW k \in Keys, ExportManual(p, k) PROVE WInv'
  <2> DEFINE s == Started(mem[p], k, Len(store) + 1)
             inputs == InputsOf(s, k)
             f == [key |-> k, attempt |-> s.attempts[k], inputs |-> inputs]
             t == Waiting(s, k, inputs)
  <2>1. s \in State /\ inputs \in SUBSET Nat /\ Elsewhere(mem[p], s, k)
    <3>1. s \in State
      BY <1>1, TransformerTypes
    <3>2. Elsewhere(mem[p], s, k)
      BY <1>1, StartedStages
    <3> HIDE DEF s
    <3>3. QED
      BY <3>1, <3>2, TransformerTypes
  <2>2. /\ packets' = {g \in packets : g.key # k \/ g.attempt # s.attempts[k]} \cup {f}
        /\ WriteNext(p, t, "idle") /\ disk' = disk
    BY <1>5 DEF ExportManual
  <2>3. f.key = k /\ f.attempt = s.attempts[k]
    OBVIOUS
  <2> HIDE DEF s, inputs, f
  <2>4. t.attempts = s.attempts /\ Elsewhere(s, t, k)
    BY <2>1, WaitingStages
  <2> HIDE DEF t
  <2>5. Covers(packets, packets')
    BY <2>2, <2>3 DEF Covers
  <2>6. Answerable(t, packets')
    <3>1. Elsewhere(mem[p], t, k)
      BY <2>1, <2>4 DEF Elsewhere
    <3>2. Answerable(mem[p], packets')
      BY <1>1, <2>5, AnswerableCovers
    <3>3. f \in packets' /\ f.key = k /\ f.attempt = t.attempts[k]
      BY <2>2, <2>3, <2>4
    <3>4. QED
      BY <3>1, <3>2, <3>3 DEF Answerable, Elsewhere
  <2>7. QED
    BY <2>2, <2>5, <2>6, WaitingWrite
<1>6. ASSUME NEW k \in Keys, CallProvider(p, k) PROVE WInv'
  <2> DEFINE s == Started(mem[p], k, Len(store) + 1)
  <2>1. s.stages = mem[p].stages /\ Elsewhere(mem[p], s, k)
    BY <1>1, StartedStages
  <2>2. /\ mem' = [mem EXCEPT ![p] = s] /\ packets' = packets /\ disk' = disk
        /\ mem[p].stages[k] # "waiting_manual"
    BY <1>6 DEF CallProvider
  <2> HIDE DEF s
  <2>3. Answerable(s, packets)
    BY <1>1, <2>1, <2>2, AnswerableElsewhere
  <2>4. QED
    BY <2>2, <2>3, WaitingMemory
<1>7. ASSUME NEW c \in Contents, ProviderAnswers(p, c) PROVE WInv'
  <2> DEFINE k == cur[p]
             inputs == InputsOf(mem[p], k)
             out == Len(store) + 1
             r == StageRecord(mem[p], k, "succeeded", inputs,
                              mem[p].prompts[k], {out + 1}, out)
  <2>1. r \in Record
    <3>1. inputs \in SUBSET Nat /\ out \in Nat /\ {out + 1} \in SUBSET Nat
          /\ mem[p].prompts[k] \in Nat /\ k \in Keys
      BY <1>1, TransformerTypes
    <3> HIDE DEF inputs, out, k
    <3>2. QED
      BY <1>1, <3>1, RecordType DEF StageStatus
  <2>2. WriteNext(p, Succeeded(mem[p], k, r), "stage")
        /\ packets' = packets /\ disk' = disk
    BY <1>7 DEF ProviderAnswers
  <2> HIDE DEF r
  <2>3. Answerable(Succeeded(mem[p], k, r), packets)
    BY <1>1, <2>1, DoneAnswerable
  <2>4. QED
    BY <2>2, <2>3, WaitingWrite, CoversItself
<1>8. ASSUME NEW k \in Keys, ValidateItem(p, k) PROVE WInv'
  <2> DEFINE inputs == InputsOf(mem[p], k)
             out == Len(store) + 3
             n == mem[p].attempts[k] + 1
             s == Counted(mem[p], k, n)
             bad == StageRecord(s, k, "failed", inputs, 0, {out - 2, out - 1}, out)
             good == StageRecord(s, k, "succeeded", inputs, 0, {out - 2, out - 1}, out)
  <2>1. /\ inputs \in SUBSET Nat /\ out \in Nat /\ n \in Nat
        /\ {out - 2, out - 1} \in SUBSET Nat
    <3>1. Len(store) \in Nat /\ mem[p].attempts[k] \in Nat
      BY <1>1, ProcessType DEF WInv
    <3>2. inputs \in SUBSET Nat
      BY <1>1, TransformerTypes
    <3> HIDE DEF inputs
    <3>3. QED
      BY <3>1, <3>2
  <2> HIDE DEF inputs, out, n
  <2>2. s \in State
    BY <1>1, <2>1, TransformerTypes
  <2> HIDE DEF s
  <2>3. bad \in Record /\ good \in Record
    BY <2>1, <2>2, RecordType DEF StageStatus
  <2>4. /\ packets' = packets /\ disk' = disk
        /\ \/ WriteNext(p, Failed(s, k, bad), "idle")
           \/ WriteNext(p, Succeeded(s, k, good), "stage")
    BY <1>8 DEF ValidateItem, inputs, out, n, s
  <2> HIDE DEF bad, good
  <2>5. Answerable(Failed(s, k, bad), packets)
        /\ Answerable(Succeeded(s, k, good), packets)
    BY <1>1, <2>1, <2>3, DoneAnswerable DEF s
  <2>6. QED
    BY <2>4, <2>5, WaitingWrite, CoversItself
<1>9. CASE AssembleExam(p)
  <2>1. Answerable(BundleOf(mem[p], Len(store) + 1), packets)
    BY <1>1, BundleAnswerable
  <2>2. QED
    BY <1>9, <2>1, WaitingWrite, CoversItself DEF AssembleExam
<1>10. CASE AssembleRaises(p)
  BY <1>10, FreshAnswerable, WaitingMemory DEF AssembleRaises
<1>11. CASE FinishCommand(p)
  <2> DEFINE s == [mem[p] EXCEPT !.status = "completed"]
             t == IF job[p] = ExamJob
                  THEN [s EXCEPT !.bundle = s.outputs[Assemble]] ELSE s
  <2>1. t.stages = mem[p].stages /\ t.attempts = mem[p].attempts
    BY <1>1 DEF State
  <2>2. WriteNext(p, t, "idle") /\ packets' = packets /\ disk' = disk
    BY <1>11 DEF FinishCommand
  <2> HIDE DEF t
  <2>3. Answerable(t, packets)
    BY <1>1, <2>1, AnswerableSame
  <2>4. QED
    BY <2>2, <2>3, WaitingWrite, CoversItself
<1>12. QED
  BY <1>2, <1>3, <1>4, <1>5, <1>6, <1>7, <1>8, <1>9, <1>10, <1>11 DEF Proceed

LEMMA WaitingImport ==
  ASSUME WInv, TypeOK', NEW p \in Procs, NEW f \in packets, NEW c \in Contents,
         ImportManual(p, f, c)
  PROVE  WInv'
<1> DEFINE k == f.key
           out == Len(store) + 1
           n == IF f.attempt > disk.attempts[k] THEN f.attempt ELSE disk.attempts[k]
           t == Counted(disk, k, n)
           s == [t EXCEPT !.status = "pending"]
           q == StageRecord(s, k, "succeeded", f.inputs, s.prompts[k], {out + 1}, out)
           r == [q EXCEPT !.attempt = f.attempt]
<1>1. /\ k \in Keys /\ f.attempt \in Nat /\ f.inputs \in SUBSET Nat
      /\ disk \in State /\ Len(store) \in Nat
      /\ Answerable(disk, packets)
  BY DEF WInv, TypeOK, Packet
<1>2. out \in Nat /\ {out + 1} \in SUBSET Nat
  BY <1>1
<1>3. n \in Nat
  BY <1>1, StateFields
<1> HIDE DEF n, k, out
<1>4. t \in State
  BY <1>1, <1>3, TransformerTypes
<1>5. t.stages = disk.stages /\ Elsewhere(disk, t, k)
  BY <1>1, <1>3, CountedStages
<1> HIDE DEF t
<1>6. s \in State /\ s.stages = t.stages /\ s.attempts = t.attempts
  <2>1. s \in State
    BY <1>4, StateUpdates DEF RunStatus
  <2>2. s.stages = t.stages /\ s.attempts = t.attempts
    BY <1>4 DEF State
  <2>3. QED
    BY <2>1, <2>2
<1> HIDE DEF s
<1>7. r \in Record
  <2>1. s.prompts[k] \in Nat
    BY <1>1, <1>6, StateFields
  <2>2. q \in Record
    BY <1>1, <1>2, <1>6, <2>1, RecordType DEF StageStatus
  <2> HIDE DEF q
  <2>3. QED
    BY <1>1, <2>2 DEF Record
<1>8. WriteNext(p, Succeeded(s, k, r), "idle") /\ packets' = packets /\ disk' = disk
  BY DEF ImportManual, k, out, n, t, s
<1> HIDE DEF r
<1>9. Answerable(Succeeded(s, k, r), packets)
  <2>1. Elsewhere(s, Succeeded(s, k, r), k)
        /\ Succeeded(s, k, r).stages[k] # "waiting_manual"
    BY <1>1, <1>6, <1>7, SucceededStages
  <2>2. Elsewhere(disk, Succeeded(s, k, r), k)
    BY <1>5, <1>6, <2>1 DEF Elsewhere
  <2>3. QED
    BY <1>1, <2>1, <2>2, AnswerableElsewhere
<1>10. QED
  BY <1>8, <1>9, WaitingWrite, CoversItself

LEMMA WaitingOthers ==
  ASSUME WInv, TypeOK', NEW p \in Procs
  PROVE  /\ \A keys \in Jobs, m \in Modes : Invoke(p, keys, m) => WInv'
         /\ AssembleOnDemand(p) => WInv'
         /\ ProviderFails(p) => WInv'
         /\ Crash(p) => WInv'
<1>1. ASSUME NEW keys \in Jobs, NEW m \in Modes, Invoke(p, keys, m) PROVE WInv'
  <2>1. /\ packets' = packets /\ disk' = disk
        /\ \/ WriteNext(p, FreshState(m), "bootstrap")
           \/ mem' = [mem EXCEPT ![p] = disk]
    BY <1>1 DEF Invoke
  <2>2. Answerable(FreshState(m), packets) /\ Answerable(disk, packets)
    BY FreshAnswerable DEF WInv
  <2>3. QED
    BY <2>1, <2>2, WaitingWrite, WaitingMemory, CoversItself
<1>2. ASSUME AssembleOnDemand(p) PROVE WInv'
  <2> DEFINE s == BundleOf(disk, Len(store) + 1)
             t == [s EXCEPT !.bundle = s.outputs[Assemble]]
  <2>1. disk \in State /\ Len(store) + 1 \in Nat /\ Answerable(disk, packets)
    BY DEF WInv, TypeOK
  <2>2. s \in State /\ Answerable(s, packets)
    BY <2>1, BundleOfType, BundleAnswerable
  <2>3. WriteNext(p, t, "idle") /\ packets' = packets /\ disk' = disk
    BY <1>2 DEF AssembleOnDemand
  <2> HIDE DEF s
  <2>4. t.stages = s.stages /\ t.attempts = s.attempts
    BY <2>2 DEF State
  <2> HIDE DEF t
  <2>5. Answerable(t, packets)
    BY <2>2, <2>4, AnswerableSame
  <2>6. QED
    BY <2>3, <2>5, WaitingWrite, CoversItself
<1>3. ASSUME ProviderFails(p) PROVE WInv'
  <2> DEFINE k == cur[p]
             s == mem[p]
             r == StageRecord(s, k, "failed", InputsOf(s, k), s.prompts[k], {}, 0)
  <2>1. k \in Keys /\ s \in State /\ Answerable(s, packets)
    BY ProcessType DEF WInv
  <2>2. r \in Record
    BY <2>1, StateFields, TransformerTypes, RecordType DEF StageStatus
  <2>3. WriteNext(p, Failed(s, k, r), "idle") /\ packets' = packets /\ disk' = disk
    BY <1>3 DEF ProviderFails
  <2> HIDE DEF r, k, s
  <2>4. Answerable(Failed(s, k, r), packets)
    BY <2>1, <2>2, DoneAnswerable
  <2>5. QED
    BY <2>3, <2>4, WaitingWrite, CoversItself
<1>4. ASSUME Crash(p) PROVE WInv'
  BY <1>4, FreshAnswerable, WaitingMemory DEF Crash
<1>5. QED
  BY <1>1, <1>2, <1>3, <1>4

(* A stage that waits for the operator has the packet file of the attempt  *)
(* its state counts, whatever crashes, fails or runs at the same time.     *)
THEOREM WaitingAlwaysAnswerable == Spec => []WaitingIsAnswerable
<1>1. Init => WInv
  <2> SUFFICES ASSUME Init PROVE WInv
    OBVIOUS
  <2>1. TypeOK
    BY FreshStateType, KeyFacts DEF Init, TypeOK
  <2>2. QED
    BY <2>1, FreshAnswerable DEF Init, WInv
<1>2. WInv /\ [Next]_vars => WInv'
  <2> SUFFICES ASSUME WInv, [Next]_vars PROVE WInv'
    OBVIOUS
  <2>1. TypeOK'
    BY TypeStep DEF WInv
  <2>2. CASE UNCHANGED vars
    BY <2>1, <2>2 DEF WInv, vars
  <2>3. QED
    BY <2>1, <2>2, WaitingProceed, WaitingImport, WaitingOthers DEF Next
<1>3. WInv => WaitingIsAnswerable
  BY DEF WInv, Answerable, WaitingIsAnswerable
<1>4. QED
  BY <1>1, <1>2, <1>3, PTL DEF Spec
-----------------------------------------------------------------------------
(* One command at a time.                                                  *)

Done(s) == {k \in Keys : s.outputs[k] # 0}

(* What stage k was given (inputs) holds, of each of its prerequisites, an *)
(* output that the first n records of s say it succeeded with.             *)
Backed(s, n, k, inputs) ==
  k # ExamBlueprint =>
    \A j \in Needs(k) :
      \E g \in 1..n :
        /\ s.history[g].key = j
        /\ s.history[g].status = "succeeded"
        /\ s.history[g].output \in inputs

(* LineageIsClosed for any copy of the state.                              *)
Closed(s) ==
  \A h \in DOMAIN s.history :
    Backed(s, h - 1, s.history[h].key, s.history[h].inputs)

(* The history of t continues that of s.                                   *)
Continues(s, t) ==
  /\ Len(t.history) >= Len(s.history)
  /\ \A h \in DOMAIN s.history : t.history[h] = s.history[h]

SameProgress(s, t) ==
  /\ t.history = s.history
  /\ t.outputs = s.outputs
  /\ t.bundle = s.bundle

(* To replace s by t delivers a stage whose prerequisites were delivered,  *)
(* publishes the bundle, or changes neither.                               *)
Advances(s, t) ==
  \/ /\ Done(t) = Done(s)
     /\ (t.bundle # 0) = (s.bundle # 0)
  \/ \E k \in Keys \ Done(s) :
       /\ Needs(k) \subseteq Done(s)
       /\ Done(t) = Done(s) \cup {k}
       /\ (t.bundle # 0) = (s.bundle # 0)
  \/ /\ s.bundle = 0 /\ t.bundle # 0
     /\ Needs(Assemble) \subseteq Done(s)
     /\ Done(t) = Done(s) \cup {Assemble}

(* A state a command may write over s.                                     *)
Successor(s, t) ==
  /\ t.status # "absent"
  /\ Closed(t)
  /\ Continues(s, t)
  /\ Advances(s, t)

(* The running command's copy is the state file's, but for what it is      *)
(* about to write; a packet file names outputs the state file explains.    *)
OnlyCommand(p) ==
  /\ pc[p] \in {"bootstrap", "stage", "call"} =>
       /\ mem[p].status # "absent"
       /\ SameProgress(disk, mem[p])
  /\ pc[p] = "write" => Successor(disk, mem[p])
  /\ pc[p] = "call" => Needs(cur[p]) \subseteq Done(mem[p])

PacketsBacked ==
  \A f \in packets :
    /\ Needs(f.key) \subseteq Done(disk)
    /\ Backed(disk, Len(disk.history), f.key, f.inputs)

SInv ==
  /\ IInv
  /\ disk.status = "absent" => disk = NoState
  /\ Closed(disk)
  /\ PacketsBacked
  /\ \A p \in Procs : OnlyCommand(p)

(* A stage a command has to ensure comes after the ones it is computed     *)
(* from, and the command has to ensure those as well.                      *)
LEMMA StageNeeds ==
  ASSUME NEW keys \in Jobs, NEW k \in keys, NEW j \in Needs(k)
  PROVE  j \in keys /\ Precedes(j, k)
<1>1. k \in Keys /\ j \in Keys /\ Feeds(j, k)
  BY KeyFacts DEF Needs
<1>2. k # ExamBlueprint
  BY <1>1 DEF Feeds, ExamBlueprint, Assemble, FeedsInItem
<1>3. CASE j = ExamBlueprint
  <2>1. ExamBlueprint \in keys
    BY KeyFacts DEF Jobs, PlanJob, DraftJob, ExamJob
  <2>2. QED
    BY <1>2, <1>3, <2>1 DEF Precedes
<1>4. CASE k = Assemble
  <2>1. j # Assemble
    BY <1>1, <1>4 DEF Feeds, Assemble, ExamBlueprint, FeedsInItem
  <2>2. Precedes(j, k)
    BY <1>4, <2>1 DEF Precedes
  <2>3. keys = Keys
    BY <1>4, LocalJobs DEF Remote, Assemble
  <2>4. QED
    BY <1>1, <2>2, <2>3
<1>5. CASE j # ExamBlueprint /\ k # Assemble
  <2>1. j[2] = k[2] /\ <<j[1], k[1]>> \in FeedsInItem
    BY <1>1, <1>5 DEF Feeds
  <2>2. k \in ItemKeys
    BY <1>1, <1>2, <1>5 DEF Keys
  <2>3. j # Assemble
    BY <2>1 DEF Assemble, FeedsInItem
  <2>4. j \in ItemKeys
    BY <1>1, <1>5, <2>3 DEF Keys
  <2>5. Position[j[1]] < Position[k[1]]
    BY <2>1 DEF Position, FeedsInItem
  <2>6. j # k
    BY <2>1 DEF FeedsInItem
  <2>7. Precedes(j, k)
    BY <2>1, <2>2, <2>4, <2>5, <2>6 DEF Precedes
  <2>8. CASE keys = Keys
    BY <1>1, <2>7, <2>8
  <2>9. ASSUME NEW i \in Items, keys = DraftJob(i) PROVE j \in keys
    <3>1. k = <<"item_blueprint", i>> \/ k = <<"draft_item", i>>
      BY <1>2, <2>9 DEF DraftJob
    <3>2. j[1] = "item_blueprint" /\ j[2] = i
      BY <2>1, <3>1 DEF FeedsInItem
    <3>3. j = <<"item_blueprint", i>>
      BY <2>4, <3>2 DEF ItemKeys
    <3>4. QED
      BY <2>9, <3>3 DEF DraftJob
  <2>10. keys # PlanJob
    BY <1>2 DEF PlanJob
  <2>11. QED
    BY <2>7, <2>8, <2>9, <2>10 DEF Jobs, ExamJob
<1>6. QED
  BY <1>3, <1>4, <1>5

(* The loop comes to a stage once all its prerequisites have an output.    *)
LEMMA StageIsReady ==
  ASSUME TypeOK, ControlOK, NEW p \in Procs, NEW k, AtStage(p, k)
  PROVE  /\ k \in Keys \ Done(mem[p])
         /\ Needs(k) \subseteq Done(mem[p])
<1>1. job[p] \in Jobs /\ k \in job[p] /\ job[p] \subseteq Keys
  BY KeyFacts DEF AtStage, ControlOK
<1>2. k \in Keys \ Done(mem[p])
  BY <1>1 DEF AtStage, Done
<1>3. ASSUME NEW j \in Needs(k) PROVE j \in Done(mem[p])
  <2>1. j \in job[p] /\ Precedes(j, k)
    BY <1>1, StageNeeds
  <2>2. QED
    BY <1>1, <2>1 DEF AtStage, Done
<1>4. QED
  BY <1>2, <1>3

(* A stage computed from the outputs of a state is backed by its history.  *)
LEMMA InputsBacked ==
  ASSUME NEW st, NEW s \in State, Coherent(s, st), NEW k \in Keys,
         Needs(k) \subseteq Done(s)
  PROVE  Backed(s, Len(s.history), k, InputsOf(s, k))
<1> SUFFICES ASSUME k # ExamBlueprint, NEW j \in Needs(k)
             PROVE  \E g \in 1..Len(s.history) :
                      /\ s.history[g].key = j
                      /\ s.history[g].status = "succeeded"
                      /\ s.history[g].output \in InputsOf(s, k)
  BY DEF Backed
<1>1. j \in Keys /\ s.outputs[j] # 0 /\ Explained(s, st, j)
  BY DEF Done, Coherent
<1>2. PICK h \in DOMAIN s.history :
        IsSuccess(s, j, h) /\ s.history[h].output = s.outputs[j]
  BY <1>1 DEF Explained
<1>3. s.outputs[j] \in InputsOf(s, k)
  BY DEF InputsOf
<1>4. h \in 1..Len(s.history)
  BY StateFields
<1>5. QED
  BY <1>2, <1>3, <1>4 DEF IsSuccess

(* What backs an input goes on to do so.                                   *)
LEMMA BackedLater ==
  ASSUME NEW s \in State, NEW t, Continues(s, t), NEW n \in Nat, NEW m \in Nat,
         n <= m, n <= Len(s.history), NEW k, NEW inputs, Backed(s, n, k, inputs)
  PROVE  Backed(t, m, k, inputs)
<1>1. \A g \in 1..n : g \in 1..m /\ t.history[g] = s.history[g]
  <2>1. Len(s.history) \in Nat /\ DOMAIN s.history = 1..Len(s.history)
    BY StateFields
  <2>2. QED
    BY <2>1 DEF Continues
<1>2. QED
  BY <1>1 DEF Backed

LEMMA SameContinues ==
  ASSUME NEW s \in State, NEW t, t.history = s.history
  PROVE  /\ Continues(s, t)
         /\ Closed(s) => Closed(t)
<1>1. Len(s.history) \in Nat
  BY StateFields
<1>2. Continues(s, t)
  BY <1>1 DEF Continues
<1>3. Closed(s) => Closed(t)
  BY DEF Closed, Backed
<1>4. QED
  BY <1>2, <1>3

LEMMA NoteContinues ==
  ASSUME NEW s \in State, Closed(s), NEW t, NEW r \in Record,
         t.history = Append(s.history, r),
         Backed(s, Len(s.history), r.key, r.inputs)
  PROVE  Continues(s, t) /\ Closed(t)
<1> DEFINE n == Len(s.history)
<1>1. /\ n \in Nat /\ DOMAIN s.history = 1..n
      /\ Len(t.history) = n + 1 /\ DOMAIN t.history = 1..n + 1
      /\ \A h \in 1..n : t.history[h] = s.history[h]
      /\ t.history[n + 1] = r
  BY StateFields
<1> HIDE DEF n
<1>2. Continues(s, t)
  BY <1>1 DEF Continues, n
<1>3. ASSUME NEW h \in DOMAIN t.history
      PROVE  Backed(t, h - 1, t.history[h].key, t.history[h].inputs)
  <2>1. CASE h \in 1..n
    <3>1. Backed(s, h - 1, s.history[h].key, s.history[h].inputs)
      BY <1>1, <2>1 DEF Closed
    <3>2. h - 1 \in Nat /\ h - 1 <= n /\ t.history[h] = s.history[h]
      BY <1>1, <2>1
    <3>3. QED
      BY <1>2, <3>1, <3>2, BackedLater DEF n
  <2>2. CASE h = n + 1
    <3>1. h - 1 = n
      BY <1>1, <2>2
    <3>2. Backed(t, n, r.key, r.inputs)
      BY <1>1, <1>2, BackedLater DEF n
    <3>3. QED
      BY <1>1, <2>2, <3>1, <3>2
  <2>3. QED
    BY <1>1, <2>1, <2>2
<1>4. QED
  BY <1>2, <1>3 DEF Closed

-----------------------------------------------------------------------------
(* The states a command writes.  d is the state file, s the command's copy *)
(* before the step.                                                        *)

LEMMA SuccessorSame ==
  ASSUME NEW d \in State, Closed(d), NEW t, SameProgress(d, t),
         t.status # "absent"
  PROVE  Successor(d, t)
BY SameContinues DEF SameProgress, Successor, Advances, Done

LEMMA SuccessorNote ==
  ASSUME NEW d \in State, Closed(d), NEW t, t.status # "absent",
         t.outputs = d.outputs, t.bundle = d.bundle, NEW r \in Record,
         t.history = Append(d.history, r),
         Backed(d, Len(d.history), r.key, r.inputs)
  PROVE  Successor(d, t)
BY NoteContinues DEF Successor, Advances, Done

LEMMA DoneAfter ==
  ASSUME NEW d \in State, NEW t, NEW k \in Keys, NEW id \in Nat, id # 0,
         t.outputs = [d.outputs EXCEPT ![k] = id]
  PROVE  Done(t) = Done(d) \cup {k}
<1>1. d.outputs \in [Keys -> Nat]
  BY StateFields
<1>2. \A j \in Keys : t.outputs[j] = IF j = k THEN id ELSE d.outputs[j]
  BY <1>1
<1>3. QED
  BY <1>2 DEF Done

LEMMA SuccessorDelivers ==
  ASSUME NEW d \in State, Closed(d), NEW t, t.status # "absent",
         NEW k \in Keys, Needs(k) \subseteq Done(d),
         NEW r \in Record, r.output # 0,
         t.outputs = [d.outputs EXCEPT ![k] = r.output], t.bundle = d.bundle,
         t.history = Append(d.history, r),
         Backed(d, Len(d.history), r.key, r.inputs)
  PROVE  Successor(d, t)
<1>1. r.output \in Nat
  BY DEF Record
<1>2. Done(t) = Done(d) \cup {k}
  BY <1>1, DoneAfter
<1>3. Advances(d, t)
  BY <1>2 DEF Advances
<1>4. QED
  BY <1>3, NoteContinues DEF Successor

(* A stage's record, and what it is worth to the history before it.        *)
LEMMA SucceededFollows ==
  ASSUME NEW d \in State, Closed(d), NEW s \in State, SameProgress(d, s),
         s.status # "absent", NEW k \in Keys, Needs(k) \subseteq Done(d),
         NEW r \in Record, r.key = k, r.output # 0,
         Backed(d, Len(d.history), k, r.inputs)
  PROVE  Successor(d, Succeeded(s, k, r))
<1> DEFINE t == Succeeded(s, k, r)
<1>1. /\ t.outputs = [d.outputs EXCEPT ![k] = r.output]
      /\ t.history = Append(d.history, r)
      /\ t.bundle = d.bundle
  BY TransformerFields DEF SameProgress
<1>2. t.status = s.status
  BY DEF Succeeded, State
<1> HIDE DEF t
<1>3. Successor(d, t)
  BY <1>1, <1>2, SuccessorDelivers
<1>4. QED
  BY <1>3 DEF t

LEMMA FailedFollows ==
  ASSUME NEW d \in State, Closed(d), NEW s \in State, SameProgress(d, s),
         NEW k \in Keys, NEW r \in Record, r.key = k,
         Backed(d, Len(d.history), k, r.inputs)
  PROVE  Successor(d, Failed(s, k, r))
<1> DEFINE t == Failed(s, k, r)
<1>1. /\ t.outputs = d.outputs
      /\ t.history = Append(d.history, r)
      /\ t.bundle = d.bundle
  BY TransformerFields DEF SameProgress
<1>2. t.status = "failed"
  BY DEF Failed, State
<1> HIDE DEF t
<1>3. Successor(d, t)
  BY <1>1, <1>2, SuccessorNote
<1>4. QED
  BY <1>3 DEF t

LEMMA WaitingFollows ==
  ASSUME NEW d \in State, Closed(d), NEW s \in State, SameProgress(d, s),
         NEW k \in Keys, NEW inputs \in SUBSET Nat,
         Backed(d, Len(d.history), k, inputs)
  PROVE  Successor(d, Waiting(s, k, inputs))
<1> DEFINE t == Waiting(s, k, inputs)
           r == StageRecord(s, k, "waiting_manual", inputs, s.prompts[k], {}, 0)
<1>1. r \in Record
  BY StateFields, RecordType DEF StageStatus
<1>2. r.key = k /\ r.inputs = inputs
  BY DEF StageRecord
<1> HIDE DEF r
<1>3. /\ t.outputs = d.outputs
      /\ t.history = Append(d.history, r)
      /\ t.bundle = d.bundle
      /\ t.status = "waiting_manual"
  BY DEF Waiting, State, SameProgress, r
<1> HIDE DEF t
<1>4. Successor(d, t)
  BY <1>1, <1>2, <1>3, SuccessorNote
<1>5. QED
  BY <1>4 DEF t

(* Counting an attempt changes nothing a reader of the run looks at.       *)
LEMMA CountedSame ==
  ASSUME NEW d, NEW s \in State, SameProgress(d, s), NEW k \in Keys
  PROVE  /\ \A n \in Nat : /\ SameProgress(d, Counted(s, k, n))
                           /\ Counted(s, k, n).status = s.status
         /\ \A id \in Nat : /\ SameProgress(d, Started(s, k, id))
                            /\ Started(s, k, id).status = s.status
<1>1. ASSUME NEW n \in Nat
      PROVE  /\ SameProgress(d, Counted(s, k, n))
             /\ Counted(s, k, n).status = s.status
  BY DEF Counted, State, SameProgress
<1>2. ASSUME NEW id \in Nat
      PROVE  /\ SameProgress(d, Started(s, k, id))
             /\ Started(s, k, id).status = s.status
  BY DEF Started, Counted, State, SameProgress
<1>3. QED
  BY <1>1, <1>2

LEMMA BundleOfFollows ==
  ASSUME NEW st, NEW d \in State, Closed(d), NEW s \in State, SameProgress(d, s),
         Coherent(s, st), s.status # "absent",
         Needs(Assemble) \subseteq Done(d), NEW id \in Nat, id # 0
  PROVE  Successor(d, BundleOf(s, id))
<1> DEFINE n == s.attempts[Assemble] + 1
           t == Counted(s, Assemble, n)
           inputs == InputsOf(s, Assemble)
           r == StageRecord(t, Assemble, "succeeded", inputs, 0, {}, id)
<1>1. n \in Nat
  BY KeyFacts, StateFields
<1> HIDE DEF n
<1>2. t \in State /\ SameProgress(d, t) /\ t.status # "absent"
  BY <1>1, KeyFacts, TransformerTypes, CountedSame
<1>3. inputs \in SUBSET Nat
  BY KeyFacts, TransformerTypes
<1>4. Backed(d, Len(d.history), Assemble, inputs)
  <2>1. Needs(Assemble) \subseteq Done(s) /\ s.history = d.history
    BY DEF SameProgress, Done
  <2>2. Backed(s, Len(s.history), Assemble, inputs)
    BY <2>1, KeyFacts, InputsBacked
  <2>3. QED
    BY <2>1, <2>2 DEF Backed
<1> HIDE DEF t, inputs
<1>5. r \in Record
  BY <1>2, <1>3, KeyFacts, RecordType DEF StageStatus
<1>6. r.key = Assemble /\ r.inputs = inputs /\ r.output = id
  BY DEF StageRecord
<1>7. BundleOf(s, id) = Succeeded(t, Assemble, r)
  BY DEF BundleOf, t, n, inputs
<1> HIDE DEF r
<1>8. QED
  BY <1>2, <1>4, <1>5, <1>6, <1>7, KeyFacts, SucceededFollows

-----------------------------------------------------------------------------
(* The steps of the only command.                                          *)

Alone == \A p, q \in Procs : p = q

(* What SInv says, field by field, to a step of process p.                 *)
LEMMA OnlyFacts ==
  ASSUME SInv, NEW p \in Procs
  PROVE  /\ TypeOK /\ ControlOK
         /\ disk \in State /\ mem[p] \in State
         /\ Coherent(disk, store) /\ Coherent(mem[p], store)
         /\ Closed(disk)
         /\ Len(store) \in Nat
         /\ OnlyCommand(p)
         /\ SameProgress(disk, disk)
BY ProcessType DEF SInv, IInv, TypeOK, SameProgress

(* A step of p that leaves the state file and the packets alone.           *)
LEMMA OnlyStep ==
  ASSUME Alone, SInv, IInv', NEW p \in Procs, disk' = disk,
         packets' = packets, OnlyCommand(p)'
  PROVE  SInv'
<1>1. PacketsBacked'
  BY DEF SInv, PacketsBacked, Backed, Done
<1>2. Closed(disk)'
  BY DEF SInv, Closed, Backed
<1>3. \A q \in Procs : OnlyCommand(q)'
  <2>1. \A q \in Procs : q = p
    BY DEF Alone
  <2>2. QED
    BY <2>1
<1>4. (disk.status = "absent" => disk = NoState)'
  BY DEF SInv, NoState, FreshState
<1>5. QED
  BY <1>1, <1>2, <1>3, <1>4 DEF SInv

(* Such a step that prepares a successor of the state file for writing.    *)
LEMMA OnlyWrite ==
  ASSUME Alone, SInv, IInv', NEW p \in Procs, NEW s, NEW next,
         WriteNext(p, s, next), disk' = disk, packets' = packets,
         Successor(disk, s)
  PROVE  SInv'
<1>1. pc'[p] = "write" /\ mem'[p] = s
  BY DEF WriteNext, SInv, IInv, TypeOK
<1>2. Successor(disk', mem'[p])
  BY <1>1
<1>3. OnlyCommand(p)'
  BY <1>1, <1>2 DEF OnlyCommand
<1>4. QED
  BY <1>3, OnlyStep

(* A step that returns to the idle place.                                  *)
LEMMA OnlyIdle ==
  ASSUME Alone, SInv, IInv', NEW p \in Procs,
         pc' = [pc EXCEPT ![p] = "idle"], disk' = disk, packets' = packets
  PROVE  SInv'
<1>1. pc'[p] = "idle"
  BY DEF SInv, IInv, TypeOK
<1>2. OnlyCommand(p)'
  BY <1>1 DEF OnlyCommand
<1>3. QED
  BY <1>2, OnlyStep

(* A step that goes on with a copy that shows the same progress.           *)
LEMMA OnlyGoesOn ==
  ASSUME Alone, SInv, IInv', NEW p \in Procs, NEW s, NEW next,
         next \in {"bootstrap", "stage"},
         mem' = [mem EXCEPT ![p] = s], pc' = [pc EXCEPT ![p] = next],
         disk' = disk, packets' = packets,
         SameProgress(disk, s), s.status # "absent"
  PROVE  SInv'
<1>1. pc'[p] = next /\ mem'[p] = s
  BY DEF SInv, IInv, TypeOK
<1>2. SameProgress(disk', mem'[p])
  BY <1>1
<1>3. OnlyCommand(p)'
  BY <1>1, <1>2 DEF OnlyCommand
<1>4. QED
  BY <1>3, OnlyStep

(* What is written is a successor of what it is written over.              *)
LEMMA OnlyWriteState ==
  ASSUME Alone, SInv, IInv', NEW p \in Procs, WriteState(p)
  PROVE  SInv'
<1>1. /\ disk \in State /\ disk' = mem[p] /\ packets' = packets
      /\ Successor(disk, mem[p])
  BY OnlyFacts DEF WriteState, OnlyCommand
<1>2. disk'.status # "absent" /\ Closed(disk)'
  <2>1. Closed(mem[p]) /\ mem[p].status # "absent"
    BY <1>1 DEF Successor
  <2>2. QED
    BY <1>1, <2>1 DEF Closed, Backed
<1>3. PacketsBacked'
  <2>1. Done(disk) \subseteq Done(mem[p])
    BY <1>1 DEF Successor, Advances
  <2>2. /\ Continues(disk, mem[p]) /\ Len(disk.history) \in Nat
        /\ Len(mem[p].history) \in Nat
        /\ Len(disk.history) <= Len(mem[p].history)
    BY <1>1, OnlyFacts, StateFields DEF Successor, Continues
  <2>3. ASSUME NEW f \in packets
        PROVE  /\ Needs(f.key) \subseteq Done(mem[p])
               /\ Backed(mem[p], Len(mem[p].history), f.key, f.inputs)
    <3>1. /\ Needs(f.key) \subseteq Done(disk)
          /\ Backed(disk, Len(disk.history), f.key, f.inputs)
      BY DEF SInv, PacketsBacked
    <3>2. QED
      BY <1>1, <2>1, <2>2, <3>1, BackedLater
  <2>4. QED
    BY <1>1, <2>3, SMTT(30) DEF PacketsBacked, Backed, Done
<1>4. OnlyCommand(p)'
  <2>1. pc'[p] = then[p] /\ then[p] \in {"idle", "bootstrap", "stage"}
    BY OnlyFacts DEF WriteState, TypeOK
  <2>2. then[p] # "idle" => mem'[p] = mem[p]
    BY DEF WriteState
  <2>3. then[p] # "idle" => SameProgress(disk', mem'[p])
    BY <1>1, <2>2 DEF SameProgress
  <2>4. QED
    BY <1>1, <1>2, <2>1, <2>2, <2>3 DEF OnlyCommand
<1>5. \A q \in Procs : OnlyCommand(q)'
  <2>1. \A q \in Procs : q = p
    BY DEF Alone
  <2>2. QED
    BY <1>4, <2>1
<1>6. (disk.status = "absent" => disk = NoState)'
  BY <1>2
<1>7. QED
  BY <1>2, <1>3, <1>5, <1>6 DEF SInv

LEMMA OnlyInvoke ==
  ASSUME Alone, SInv, IInv', NEW p \in Procs, NEW keys \in Jobs,
         NEW m \in Modes, Invoke(p, keys, m)
  PROVE  SInv'
<1>1. disk' = disk /\ packets' = packets
  BY DEF Invoke
<1>2. CASE disk.status = "absent" /\ WriteNext(p, FreshState(m), "bootstrap")
  <2>1. disk = NoState
    BY <1>2 DEF SInv
  <2>2. SameProgress(NoState, FreshState(m)) /\ FreshState(m).status # "absent"
    BY DEF SameProgress, NoState, FreshState
  <2>3. Successor(disk, FreshState(m))
    BY <2>1, <2>2, OnlyFacts, SuccessorSame
  <2>4. QED
    BY <1>1, <1>2, <2>3, OnlyWrite
<1>3. CASE disk.status # "absent" /\ mem' = [mem EXCEPT ![p] = disk]
           /\ pc' = [pc EXCEPT ![p] = "bootstrap"]
  BY <1>1, <1>3, OnlyFacts, OnlyGoesOn
<1>4. QED
  BY <1>2, <1>3 DEF Invoke

LEMMA OnlyBootstrap ==
  ASSUME Alone, SInv, IInv', NEW p \in Procs, Bootstrap(p)
  PROVE  SInv'
<1> DEFINE s == [mem[p] EXCEPT !.status = "running"]
           t == [s EXCEPT !.spec = Len(store) + 1]
<1>1. SameProgress(disk, mem[p]) /\ mem[p] \in State /\ Closed(disk)
  BY OnlyFacts DEF Bootstrap, OnlyCommand
<1>2. /\ SameProgress(disk, s) /\ s.status # "absent"
      /\ SameProgress(disk, t) /\ t.status # "absent"
  BY <1>1 DEF SameProgress, State
<1>3. /\ disk' = disk /\ packets' = packets
      /\ \/ WriteNext(p, t, "stage")
         \/ mem' = [mem EXCEPT ![p] = s] /\ pc' = [pc EXCEPT ![p] = "stage"]
  BY DEF Bootstrap
<1> HIDE DEF s, t
<1>4. Successor(disk, t)
  BY <1>1, <1>2, OnlyFacts, SuccessorSame
<1>5. QED
  BY <1>2, <1>3, <1>4, OnlyWrite, OnlyGoesOn

LEMMA OnlyAwaits ==
  ASSUME Alone, SInv, IInv', NEW p \in Procs, NEW k \in Keys, AwaitManual(p, k)
  PROVE  SInv'
<1> DEFINE s == [mem[p] EXCEPT !.status = "waiting_manual"]
<1>1. SameProgress(disk, mem[p]) /\ mem[p] \in State
  BY OnlyFacts DEF AwaitManual, AtStage, OnlyCommand
<1>2. SameProgress(disk, s) /\ s.status # "absent"
  BY <1>1 DEF SameProgress, State
<1>3. WriteNext(p, s, "idle") /\ disk' = disk /\ packets' = packets
  BY DEF AwaitManual
<1> HIDE DEF s
<1>4. Successor(disk, s)
  BY <1>2, OnlyFacts, SuccessorSame
<1>5. QED
  BY <1>3, <1>4, OnlyWrite

(* What a step at stage k, or in its provider call, works with.            *)
LEMMA OnlyAtWork ==
  ASSUME SInv, NEW p \in Procs, NEW k,
         AtStage(p, k) \/ (pc[p] = "call" /\ k = cur[p])
  PROVE  /\ SameProgress(disk, mem[p]) /\ mem[p].status # "absent"
         /\ k \in Keys /\ Needs(k) \subseteq Done(disk)
         /\ InputsOf(mem[p], k) \in SUBSET Nat
         /\ Backed(disk, Len(disk.history), k, InputsOf(mem[p], k))
<1>1. SameProgress(disk, mem[p]) /\ mem[p].status # "absent"
  BY OnlyFacts DEF AtStage, OnlyCommand
<1>2. k \in Keys /\ Needs(k) \subseteq Done(mem[p])
  BY OnlyFacts, ProcessType, StageIsReady DEF OnlyCommand
<1>3. Done(mem[p]) = Done(disk)
  BY <1>1 DEF SameProgress, Done
<1>4. Backed(mem[p], Len(mem[p].history), k, InputsOf(mem[p], k))
  BY <1>2, OnlyFacts, InputsBacked
<1>5. Backed(disk, Len(disk.history), k, InputsOf(mem[p], k))
  BY <1>1, <1>4 DEF SameProgress, Backed
<1>6. InputsOf(mem[p], k) \in SUBSET Nat
  BY <1>2, OnlyFacts, TransformerTypes
<1>7. QED
  BY <1>1, <1>2, <1>3, <1>5, <1>6

LEMMA OnlyExports ==
  ASSUME Alone, SInv, IInv', NEW p \in Procs, NEW k \in Keys, ExportManual(p, k)
  PROVE  SInv'
<1> DEFINE s == Started(mem[p], k, Len(store) + 1)
           inputs == InputsOf(s, k)
           f == [key |-> k, attempt |-> s.attempts[k], inputs |-> inputs]
           t == Waiting(s, k, inputs)
<1>1. /\ AtStage(p, k) /\ disk' = disk
      /\ packets' = {g \in packets : g.key # k \/ g.attempt # s.attempts[k]} \cup {f}
      /\ WriteNext(p, t, "idle")
  BY DEF ExportManual
<1>2. /\ SameProgress(disk, mem[p]) /\ Needs(k) \subseteq Done(disk)
      /\ InputsOf(mem[p], k) \in SUBSET Nat
      /\ Backed(disk, Len(disk.history), k, InputsOf(mem[p], k))
      /\ disk \in State /\ mem[p] \in State /\ Closed(disk)
      /\ Len(store) + 1 \in Nat
  BY <1>1, OnlyAtWork, OnlyFacts
<1>3. s \in State /\ SameProgress(disk, s)
  BY <1>2, TransformerTypes, CountedSame
<1>4. inputs = InputsOf(mem[p], k)
  <2>1. s.outputs = mem[p].outputs /\ s.spec = mem[p].spec
    BY <1>2, TransformerFields, ZenonT(30)
  <2> HIDE DEF s
  <2>2. QED
    BY <2>1 DEF InputsOf
<1>5. f.key = k /\ f.inputs = inputs
  OBVIOUS
<1> HIDE DEF s, inputs, f
<1>6. Successor(disk, t)
  BY <1>2, <1>3, <1>4, WaitingFollows
<1> HIDE DEF t
<1>7. pc'[p] = "write" /\ mem'[p] = t
  BY <1>1 DEF WriteNext, SInv, IInv, TypeOK
<1>8. OnlyCommand(p)'
  <2>1. Successor(disk', mem'[p])
    BY <1>1, <1>6, <1>7
  <2>2. QED
    BY <1>7, <2>1 DEF OnlyCommand
<1>9. \A q \in Procs : OnlyCommand(q)'
  <2>1. \A q \in Procs : q = p
    BY DEF Alone
  <2>2. QED
    BY <1>8, <2>1
<1>10. PacketsBacked'
  <2>1. ASSUME NEW g \in packets'
        PROVE  /\ Needs(g.key) \subseteq Done(disk)
               /\ Backed(disk, Len(disk.history), g.key, g.inputs)
    BY <1>1, <1>2, <1>4, <1>5, <2>1 DEF SInv, PacketsBacked
  <2>2. QED
    BY <1>1, <2>1 DEF PacketsBacked, Backed, Done
<1>11. Closed(disk)'
  BY <1>1, <1>2, ZenonT(30) DEF Closed, Backed
<1>12. (disk.status = "absent" => disk = NoState)'
  BY <1>1 DEF SInv, NoState, FreshState
<1>13. QED
  BY <1>9, <1>10, <1>11, <1>12 DEF SInv

LEMMA OnlyCalls ==
  ASSUME Alone, SInv, IInv', NEW p \in Procs, NEW k \in Keys, CallProvider(p, k)
  PROVE  SInv'
<1> DEFINE s == Started(mem[p], k, Len(store) + 1)
<1>1. /\ AtStage(p, k) /\ disk' = disk /\ packets' = packets
      /\ mem' = [mem EXCEPT ![p] = s]
      /\ pc' = [pc EXCEPT ![p] = "call"]
      /\ cur' = [cur EXCEPT ![p] = k]
  BY DEF CallProvider
<1>2. /\ SameProgress(disk, mem[p]) /\ Needs(k) \subseteq Done(disk)
      /\ mem[p].status # "absent" /\ mem[p] \in State /\ Len(store) + 1 \in Nat
  BY <1>1, OnlyAtWork, OnlyFacts
<1>3. SameProgress(disk, s) /\ s.status # "absent"
  BY <1>2, CountedSame
<1> HIDE DEF s
<1>4. Needs(k) \subseteq Done(s)
  BY <1>2, <1>3 DEF SameProgress, Done
<1>5. pc'[p] = "call" /\ mem'[p] = s /\ cur'[p] = k
  BY <1>1 DEF SInv, IInv, TypeOK
<1>6. SameProgress(disk', mem'[p]) /\ Needs(cur'[p]) \subseteq Done(mem'[p])
  BY <1>1, <1>3, <1>4, <1>5
<1>7. OnlyCommand(p)'
  BY <1>3, <1>5, <1>6 DEF OnlyCommand, Done
<1>8. QED
  BY <1>1, <1>7, OnlyStep

LEMMA OnlyAnswers ==
  ASSUME Alone, SInv, IInv', NEW p \in Procs, NEW c, ProviderAnswers(p, c)
  PROVE  SInv'
<1> DEFINE k == cur[p]
           s == mem[p]
           inputs == InputsOf(s, k)
           out == Len(store) + 1
           r == StageRecord(s, k, "succeeded", inputs, s.prompts[k], {out + 1}, out)
<1>1. /\ pc[p] = "call" /\ disk' = disk /\ packets' = packets
      /\ WriteNext(p, Succeeded(s, k, r), "stage")
  BY DEF ProviderAnswers
<1>2. /\ SameProgress(disk, s) /\ s.status # "absent"
      /\ k \in Keys /\ Needs(k) \subseteq Done(disk)
      /\ inputs \in SUBSET Nat
      /\ Backed(disk, Len(disk.history), k, inputs)
  BY <1>1, OnlyAtWork
<1>3. disk \in State /\ s \in State /\ Closed(disk) /\ Len(store) \in Nat
  BY OnlyFacts
<1>4. out \in Nat /\ out # 0 /\ {out + 1} \in SUBSET Nat
  BY <1>3
<1> HIDE DEF k, s, inputs, out
<1>5. r \in Record
  BY <1>2, <1>3, <1>4, StateFields, RecordType DEF StageStatus
<1>6. r.key = k /\ r.inputs = inputs /\ r.output = out
  BY DEF StageRecord
<1> HIDE DEF r
<1>7. Successor(disk, Succeeded(s, k, r))
  BY <1>2, <1>3, <1>4, <1>5, <1>6, SucceededFollows
<1>8. QED
  BY <1>1, <1>7, OnlyWrite

LEMMA OnlyFails ==
  ASSUME Alone, SInv, IInv', NEW p \in Procs, ProviderFails(p)
  PROVE  SInv'
<1> DEFINE k == cur[p]
           s == mem[p]
           inputs == InputsOf(s, k)
           r == StageRecord(s, k, "failed", inputs, s.prompts[k], {}, 0)
<1>1. /\ pc[p] = "call" /\ disk' = disk /\ packets' = packets
      /\ WriteNext(p, Failed(s, k, r), "idle")
  BY DEF ProviderFails
<1>2. /\ SameProgress(disk, s) /\ k \in Keys
      /\ inputs \in SUBSET Nat
      /\ Backed(disk, Len(disk.history), k, inputs)
  BY <1>1, OnlyAtWork
<1>3. disk \in State /\ s \in State /\ Closed(disk)
  BY OnlyFacts
<1> HIDE DEF k, s, inputs
<1>4. r \in Record
  BY <1>2, <1>3, StateFields, RecordType DEF StageStatus
<1>5. r.key = k /\ r.inputs = inputs
  BY DEF StageRecord
<1> HIDE DEF r
<1>6. Successor(disk, Failed(s, k, r))
  BY <1>2, <1>3, <1>4, <1>5, FailedFollows
<1>7. QED
  BY <1>1, <1>6, OnlyWrite

LEMMA OnlyValidates ==
  ASSUME Alone, SInv, IInv', NEW p \in Procs, NEW k \in Keys, ValidateItem(p, k)
  PROVE  SInv'
<1> DEFINE inputs == InputsOf(mem[p], k)
           out == Len(store) + 3
           n == mem[p].attempts[k] + 1
           s == Counted(mem[p], k, n)
           bad == StageRecord(s, k, "failed", inputs, 0, {out - 2, out - 1}, out)
           good == StageRecord(s, k, "succeeded", inputs, 0, {out - 2, out - 1}, out)
<1>1. /\ AtStage(p, k) /\ disk' = disk /\ packets' = packets
      /\ \/ WriteNext(p, Failed(s, k, bad), "idle")
         \/ WriteNext(p, Succeeded(s, k, good), "stage")
  BY DEF ValidateItem
<1>2. /\ SameProgress(disk, mem[p]) /\ mem[p].status # "absent"
      /\ Needs(k) \subseteq Done(disk)
      /\ inputs \in SUBSET Nat
      /\ Backed(disk, Len(disk.history), k, inputs)
  BY <1>1, OnlyAtWork
<1>3. disk \in State /\ mem[p] \in State /\ Closed(disk) /\ Len(store) \in Nat
  BY OnlyFacts
<1>4. /\ out \in Nat /\ out # 0 /\ {out - 2, out - 1} \in SUBSET Nat
      /\ n \in Nat
  <2>1. mem[p].attempts[k] \in Nat
    BY <1>3, StateFields
  <2>2. QED
    BY <1>3, <2>1
<1> HIDE DEF inputs, out, n
<1>5. s \in State /\ SameProgress(disk, s) /\ s.status # "absent"
  <2>1. s \in State
    BY <1>3, <1>4, TransformerTypes
  <2>2. SameProgress(disk, s) /\ s.status # "absent"
    BY <1>2, <1>3, <1>4, CountedSame
  <2>3. QED
    BY <2>1, <2>2
<1> HIDE DEF s
<1>6. bad \in Record /\ good \in Record
  BY <1>2, <1>4, <1>5, RecordType DEF StageStatus
<1>7. /\ bad.key = k /\ bad.inputs = inputs
      /\ good.key = k /\ good.inputs = inputs /\ good.output = out
  BY DEF StageRecord
<1> HIDE DEF bad, good
<1>8. Successor(disk, Failed(s, k, bad))
  BY <1>2, <1>3, <1>5, <1>6, <1>7, FailedFollows
<1>9. Successor(disk, Succeeded(s, k, good))
  BY <1>2, <1>3, <1>4, <1>5, <1>6, <1>7, SucceededFollows
<1>10. QED
  BY <1>1, <1>8, <1>9, OnlyWrite

LEMMA OnlyAssembles ==
  ASSUME Alone, SInv, IInv', NEW p \in Procs, AssembleExam(p)
  PROVE  SInv'
<1> DEFINE t == BundleOf(mem[p], Len(store) + 1)
<1>1. /\ AtStage(p, Assemble) /\ disk' = disk /\ packets' = packets
      /\ WriteNext(p, t, "stage")
  BY DEF AssembleExam
<1>2. /\ SameProgress(disk, mem[p]) /\ mem[p].status # "absent"
      /\ Needs(Assemble) \subseteq Done(disk)
  BY <1>1, OnlyAtWork
<1>3. Len(store) + 1 \in Nat /\ Len(store) + 1 # 0
  BY OnlyFacts
<1>4. Successor(disk, t)
  BY <1>2, <1>3, OnlyFacts, BundleOfFollows
<1> HIDE DEF t
<1>5. QED
  BY <1>1, <1>4, OnlyWrite

LEMMA OnlyFinishes ==
  ASSUME Alone, SInv, IInv', NEW p \in Procs, FinishCommand(p)
  PROVE  SInv'
<1> DEFINE s == [mem[p] EXCEPT !.status = "completed"]
           b == [s EXCEPT !.bundle = s.outputs[Assemble]]
<1>1. /\ pc[p] = "stage" /\ disk' = disk /\ packets' = packets
      /\ \/ /\ job[p] = ExamJob
            /\ \A k \in job[p] : s.outputs[k] # 0
            /\ WriteNext(p, b, "idle")
         \/ WriteNext(p, s, "idle")
  BY DEF FinishCommand
<1>2. /\ SameProgress(disk, mem[p]) /\ mem[p] \in State
      /\ disk \in State /\ Closed(disk)
  BY <1>1, OnlyFacts DEF OnlyCommand
<1>3. SameProgress(disk, s) /\ s \in State /\ s.status # "absent"
  BY <1>2 DEF SameProgress, State, RunStatus
<1> HIDE DEF s
<1>4. Successor(disk, s)
  BY <1>2, <1>3, SuccessorSame
<1>5. ASSUME job[p] = ExamJob, \A k \in job[p] : s.outputs[k] # 0
      PROVE  Successor(disk, b)
  <2>1. /\ b.outputs = disk.outputs /\ b.history = disk.history
        /\ b.bundle = disk.outputs[Assemble] /\ b.status = s.status
    BY <1>3 DEF SameProgress, State
  <2>2. Done(disk) = Keys /\ Done(b) = Keys
    BY <1>3, <1>5, <2>1 DEF ExamJob, SameProgress, Done
  <2>3. Assemble \in Keys /\ Needs(Assemble) \subseteq Keys
    BY KeyFacts
  <2>4. b.bundle # 0
    BY <2>1, <2>2, <2>3 DEF Done
  <2> HIDE DEF b
  <2>5. Advances(disk, b)
    <3>1. Done(b) = Done(disk) \cup {Assemble} /\ Done(b) = Done(disk)
          /\ Needs(Assemble) \subseteq Done(disk)
      BY <2>2, <2>3
    <3>2. CASE disk.bundle = 0
      BY <2>4, <3>1, <3>2 DEF Advances
    <3>3. CASE disk.bundle # 0
      BY <2>4, <3>1, <3>3 DEF Advances
    <3>4. QED
      BY <3>2, <3>3
  <2>6. Continues(disk, b) /\ Closed(b)
    BY <1>2, <2>1, SameContinues
  <2>7. QED
    BY <1>3, <2>1, <2>5, <2>6 DEF Successor
<1> HIDE DEF b
<1>6. QED
  BY <1>1, <1>4, <1>5, OnlyWrite

LEMMA OnlyImports ==
  ASSUME Alone, SInv, IInv', NEW p \in Procs, NEW f \in packets, NEW c,
         ImportManual(p, f, c)
  PROVE  SInv'
<1> DEFINE k == f.key
           out == Len(store) + 1
           n == IF f.attempt > disk.attempts[k] THEN f.attempt ELSE disk.attempts[k]
           t == Counted(disk, k, n)
           s == [t EXCEPT !.status = "pending"]
           q == StageRecord(s, k, "succeeded", f.inputs, s.prompts[k], {out + 1}, out)
           r == [q EXCEPT !.attempt = f.attempt]
<1>1. /\ k \in Keys /\ f.attempt \in Nat /\ f.inputs \in SUBSET Nat
      /\ disk \in State /\ Len(store) \in Nat /\ Closed(disk)
      /\ SameProgress(disk, disk)
  BY OnlyFacts DEF TypeOK, Packet
<1>2. /\ Needs(k) \subseteq Done(disk)
      /\ Backed(disk, Len(disk.history), k, f.inputs)
  BY DEF SInv, PacketsBacked
<1>3. out \in Nat /\ out # 0 /\ {out + 1} \in SUBSET Nat
  BY <1>1
<1>4. n \in Nat
  BY <1>1, StateFields
<1> HIDE DEF n, k, out
<1>5. t \in State
  BY <1>1, <1>4, TransformerTypes
<1>6. SameProgress(disk, t)
  BY <1>1, <1>4, CountedSame
<1> HIDE DEF t
<1>7. s \in State /\ SameProgress(disk, s) /\ s.status # "absent"
  <2>1. s \in State
    BY <1>5, StateUpdates DEF RunStatus
  <2>2. SameProgress(disk, s) /\ s.status # "absent"
    BY <1>5, <1>6 DEF SameProgress, State
  <2>3. QED
    BY <2>1, <2>2
<1> HIDE DEF s
<1>8. q \in Record
  <2>1. s.prompts[k] \in Nat
    BY <1>1, <1>7, StateFields
  <2>2. QED
    BY <1>1, <1>3, <1>7, <2>1, RecordType DEF StageStatus
<1>9. q.key = k /\ q.inputs = f.inputs /\ q.output = out
  BY DEF StageRecord
<1> HIDE DEF q
<1>10. r \in Record /\ r.key = k /\ r.inputs = f.inputs /\ r.output = out
  BY <1>1, <1>8, <1>9 DEF Record
<1>11. WriteNext(p, Succeeded(s, k, r), "idle") /\ packets' = packets /\ disk' = disk
  BY DEF ImportManual, k, out, n, t, s, q
<1> HIDE DEF r
<1>12. Successor(disk, Succeeded(s, k, r))
  BY <1>1, <1>2, <1>3, <1>7, <1>10, SucceededFollows
<1>13. QED
  BY <1>11, <1>12, OnlyWrite

LEMMA BundleOfFields ==
  ASSUME NEW s \in State, NEW id \in Nat
  PROVE  BundleOf(s, id).outputs = [s.outputs EXCEPT ![Assemble] = id]
<1> DEFINE n == s.attempts[Assemble] + 1
           t == Counted(s, Assemble, n)
           inputs == InputsOf(s, Assemble)
           r == StageRecord(t, Assemble, "succeeded", inputs, 0, {}, id)
<1>1. n \in Nat
  BY KeyFacts, StateFields
<1> HIDE DEF n
<1>2. t \in State /\ t.outputs = s.outputs
  BY <1>1, KeyFacts, TransformerTypes, TransformerFields
<1>3. inputs \in SUBSET Nat
  BY KeyFacts, TransformerTypes
<1> HIDE DEF t, inputs
<1>4. r \in Record
  BY <1>2, <1>3, KeyFacts, RecordType DEF StageStatus
<1>5. r.output = id
  BY DEF StageRecord
<1>6. BundleOf(s, id) = Succeeded(t, Assemble, r)
  BY DEF BundleOf, t, n, inputs
<1> HIDE DEF r
<1>7. QED
  BY <1>2, <1>4, <1>5, <1>6, KeyFacts, TransformerFields

(* Assembly on demand: there is a run, for it has validated items.         *)
LEMMA OnlyAssemblesOnDemand ==
  ASSUME Alone, SInv, IInv', NEW p \in Procs, AssembleOnDemand(p)
  PROVE  SInv'
<1> DEFINE id == Len(store) + 1
           s == BundleOf(disk, id)
           t == [s EXCEPT !.bundle = s.outputs[Assemble]]
<1>1. /\ 0 \notin InputsOf(disk, Assemble)
      /\ WriteNext(p, t, "idle") /\ disk' = disk /\ packets' = packets
  BY DEF AssembleOnDemand
<1>2. /\ disk \in State /\ Closed(disk) /\ Coherent(disk, store)
      /\ SameProgress(disk, disk) /\ id \in Nat /\ id # 0
  BY OnlyFacts
<1>3. Needs(Assemble) \subseteq Done(disk)
  <2>1. Assemble # ExamBlueprint
    BY DEF Assemble, ExamBlueprint
  <2>2. \A j \in Needs(Assemble) : disk.outputs[j] # 0
    BY <1>1, <2>1 DEF InputsOf
  <2>3. QED
    BY <2>2, KeyFacts DEF Done
<1>4. disk.status # "absent"
  <2>1. 1 \in Items
    BY NAssumption DEF Items
  <2>2. Validate(1) \in Done(disk)
    BY <1>3, <2>1, AssembleNeeds
  <2>3. disk # NoState
    BY <2>2 DEF NoState, FreshState, Done
  <2>4. QED
    BY <2>3 DEF SInv
<1> HIDE DEF id
<1>5. s \in State /\ Successor(disk, s)
  BY <1>2, <1>3, <1>4, BundleOfType, BundleOfFollows
<1>6. s.outputs = [disk.outputs EXCEPT ![Assemble] = id]
  BY <1>2, BundleOfFields
<1>7. s.outputs[Assemble] = id /\ Done(s) = Done(disk) \cup {Assemble}
  <2>1. disk.outputs \in [Keys -> Nat]
    BY <1>2, StateFields
  <2>2. s.outputs[Assemble] = id
    BY <1>6, <2>1, KeyFacts
  <2> HIDE DEF s
  <2>3. QED
    BY <1>2, <1>6, <2>2, KeyFacts, DoneAfter
<1> HIDE DEF s
<1>8. /\ t.outputs = s.outputs /\ t.history = s.history
      /\ t.status = s.status /\ t.bundle = id
  BY <1>5, <1>7 DEF State
<1> HIDE DEF t
<1>9. Continues(disk, t) /\ Closed(t) /\ t.status # "absent"
  <2>1. Continues(disk, s) /\ Closed(s) /\ s.status # "absent"
    BY <1>5 DEF Successor
  <2>2. Closed(t)
    BY <1>5, <1>8, <2>1, SameContinues
  <2>3. Continues(disk, t)
    BY <1>8, <2>1 DEF Continues
  <2>4. QED
    BY <1>8, <2>1, <2>2, <2>3
<1>10. Advances(disk, t)
  <2>1. Done(t) = Done(disk) \cup {Assemble} /\ t.bundle # 0
    BY <1>2, <1>7, <1>8 DEF Done
  <2>2. CASE disk.bundle = 0
    BY <1>3, <2>1, <2>2 DEF Advances
  <2>3. CASE disk.bundle # 0 /\ Assemble \in Done(disk)
    <3>1. Done(t) = Done(disk)
      BY <2>1, <2>3
    <3>2. QED
      BY <2>1, <2>3, <3>1 DEF Advances
  <2>4. CASE disk.bundle # 0 /\ Assemble \notin Done(disk)
    <3>1. Assemble \in Keys \ Done(disk)
      BY <2>4, KeyFacts
    <3>2. QED
      BY <1>3, <2>1, <2>4, <3>1 DEF Advances
  <2>5. QED
    BY <2>2, <2>3, <2>4
<1>11. Successor(disk, t)
  BY <1>9, <1>10 DEF Successor
<1>12. QED
  BY <1>1, <1>11, OnlyWrite

LEMMA OnlyInit == Init => SInv
<1> SUFFICES ASSUME Init PROVE SInv
  OBVIOUS
<1>1. IInv
  BY InductiveInit
<1>2. Closed(disk)
  BY DEF Init, NoState, FreshState, Closed
<1>3. PacketsBacked /\ \A p \in Procs : OnlyCommand(p)
  BY DEF Init, PacketsBacked, OnlyCommand
<1>4. disk = NoState
  BY DEF Init
<1>5. QED
  BY <1>1, <1>2, <1>3, <1>4 DEF SInv

LEMMA OnlyNext ==
  ASSUME Alone
  PROVE  SInv /\ [Next]_vars => SInv'
<1> SUFFICES ASSUME SInv, [Next]_vars PROVE SInv'
  OBVIOUS
<1>1. IInv'
  BY InductiveStep DEF SInv
<1>2. CASE UNCHANGED vars
  <2>1. /\ disk' = disk /\ packets' = packets /\ mem' = mem
        /\ pc' = pc /\ cur' = cur
    BY <1>2 DEF vars
  <2>2. ASSUME NEW p \in Procs PROVE OnlyCommand(p)'
    <3>1. OnlyCommand(p)
      BY DEF SInv
    <3>2. Successor(disk, mem[p]) => Successor(disk', mem'[p])
      BY <2>1
    <3>3. SameProgress(disk, mem[p]) => SameProgress(disk', mem'[p])
      BY <2>1
    <3>4. QED
      BY <2>1, <3>1, <3>2, <3>3 DEF OnlyCommand, Done
  <2>3. PacketsBacked'
    BY <2>1 DEF SInv, PacketsBacked, Backed, Done
  <2>4. Closed(disk)'
    BY <2>1 DEF SInv, Closed, Backed
  <2>5. (disk.status = "absent" => disk = NoState)'
    BY <2>1 DEF SInv, NoState, FreshState
  <2>6. QED
    BY <1>1, <2>2, <2>3, <2>4, <2>5 DEF SInv
<1>3. ASSUME NEW p \in Procs, Proceed(p) PROVE SInv'
  <2>1. CASE AssembleRaises(p)
    BY <1>1, <2>1, OnlyIdle DEF AssembleRaises
  <2>2. ASSUME NEW c \in Contents, ProviderAnswers(p, c) PROVE SInv'
    BY <1>1, <2>2, OnlyAnswers
  <2>3. QED
    BY <1>1, <1>3, <2>1, <2>2, OnlyWriteState, OnlyBootstrap, OnlyAwaits,
       OnlyExports, OnlyCalls, OnlyValidates, OnlyAssembles, OnlyFinishes
       DEF Proceed
<1>4. ASSUME NEW p \in Procs, NEW f \in packets, NEW c, ImportManual(p, f, c)
      PROVE  SInv'
  BY <1>1, <1>4, OnlyImports
<1>5. ASSUME NEW p \in Procs, Crash(p) PROVE SInv'
  BY <1>1, <1>5, OnlyIdle DEF Crash
<1>6. QED
  BY <1>1, <1>2, <1>3, <1>4, <1>5, OnlyInvoke, OnlyAssemblesOnDemand, OnlyFails
     DEF Next

(* The one write of the state file replaces it by a successor of it.       *)
LEMMA OnlyRewrites ==
  ASSUME SInv, [Next]_vars
  PROVE  disk' = disk \/ Successor(disk, disk')
<1>1. ASSUME NEW p \in Procs, WriteState(p) PROVE Successor(disk, disk')
  <2>1. Successor(disk, mem[p]) /\ disk' = mem[p]
    BY <1>1 DEF WriteState, SInv, OnlyCommand
  <2>2. QED
    BY <2>1
<1>2. ASSUME NEW p \in Procs, Proceed(p), ~ WriteState(p) PROVE disk' = disk
  BY <1>2 DEF Proceed, Bootstrap, AwaitManual, ExportManual, CallProvider,
              ProviderAnswers, ValidateItem, AssembleExam, AssembleRaises,
              FinishCommand
<1>3. ASSUME NEW p \in Procs,
             \/ \E keys \in Jobs, m \in Modes : Invoke(p, keys, m)
             \/ \E f \in packets, c \in Contents : ImportManual(p, f, c)
             \/ AssembleOnDemand(p)
             \/ ProviderFails(p)
             \/ Crash(p)
      PROVE  disk' = disk
  BY <1>3 DEF Invoke, ImportManual, AssembleOnDemand, ProviderFails, Crash
<1>4. QED
  BY <1>1, <1>2, <1>3 DEF Next, vars

(* With one command at a time, every input an output was computed from is  *)
(* the output of a SUCCEEDED record of the prerequisite stage, earlier in  *)
(* the same history, whatever crashes, fails or is answered again.         *)
THEOREM LineageAlwaysClosed ==
  ASSUME Alone
  PROVE  Spec => []LineageIsClosed
<1>1. SInv => LineageIsClosed
  BY DEF SInv, Closed, Backed, LineageIsClosed
<1>2. QED
  BY <1>1, OnlyInit, OnlyNext, PTL DEF Spec

(* With one command at a time, no step drops or rewrites a record that     *)
(* reached the state file.                                                 *)
THEOREM HistoryOnlyGrows ==
  ASSUME Alone
  PROVE  Spec => HistoryIsAppendOnly
<1>1. SInv /\ [Next]_vars =>
        [/\ Len(disk'.history) >= Len(disk.history)
         /\ \A h \in DOMAIN disk.history : disk'.history[h] = disk.history[h]]_disk
  BY OnlyRewrites DEF Successor, Continues
<1>2. QED
  BY <1>1, OnlyInit, OnlyNext, PTL DEF Spec, HistoryIsAppendOnly

(* With one command at a time, whoever watches the state file sees         *)
(* ExamPipeline: stages are delivered one by one, each after those it is   *)
(* computed from, none is taken back, and the bundle comes last.           *)
THEOREM RunImplementsPipeline ==
  ASSUME Alone
  PROVE  Spec => ImplementsPipeline
<1>1. Init => Pipeline!Init
  BY DEF Init, NoState, FreshState, Pipeline!Init
<1>2. SInv /\ [Next]_vars =>
        [Pipeline!Next]_<<{k \in Keys : disk.outputs[k] # 0}, (disk.bundle # 0)>>
  <2> SUFFICES ASSUME SInv, [Next]_vars
               PROVE  [Pipeline!Next]_<<{k \in Keys : disk.outputs[k] # 0}, (disk.bundle # 0)>>
    OBVIOUS
  <2>1. CASE disk' = disk
    BY <2>1
  <2>2. CASE Advances(disk, disk')
    <3>1. CASE Done(disk') = Done(disk) /\ (disk'.bundle # 0) = (disk.bundle # 0)
      BY <3>1 DEF Done
    <3>2. CASE \E k \in Keys \ Done(disk) :
                 /\ Needs(k) \subseteq Done(disk)
                 /\ Done(disk') = Done(disk) \cup {k}
                 /\ (disk'.bundle # 0) = (disk.bundle # 0)
      BY <3>2 DEF Pipeline!Next, Pipeline!Deliver, Done
    <3>3. CASE /\ disk.bundle = 0 /\ disk'.bundle # 0
               /\ Needs(Assemble) \subseteq Done(disk)
               /\ Done(disk') = Done(disk) \cup {Assemble}
      BY <3>3 DEF Pipeline!Next, Pipeline!Publish, Done
    <3>4. QED
      BY <2>2, <3>1, <3>2, <3>3 DEF Advances
  <2>3. QED
    BY <2>1, <2>2, OnlyRewrites DEF Successor
<1>3. QED
  BY <1>1, <1>2, OnlyInit, OnlyNext, PTL
     DEF Spec, ImplementsPipeline, Pipeline!Spec
=============================================================================
