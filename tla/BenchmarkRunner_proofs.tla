------------------------ MODULE BenchmarkRunner_proofs ------------------------
(***************************************************************************)
(* What holds of BenchmarkRunner for every dataset, every number of        *)
(* prompts, retries, benchmarks and disturbances: its types, the truth of  *)
(* what a report lists, and the balance of requests, records and costs;    *)
(* and, of a dataset whose comparisons reach every case, what its release  *)
(* gate says.                                                              *)
(***************************************************************************)
EXTENDS BenchmarkRunner, FiniteSetTheorems, TLAPS

-----------------------------------------------------------------------------
(* Where run_dataset is, and what the run in progress has reached there.   *)

Positions ==
  /\ pc = "call" <=> call.phase # "idle"
  /\ call.phase # "idle" => call.attempt \in 1..(MaxRetries + 1)
  /\ pc \in {"call", "filed"} => ~ Answered(State)
  /\ pc = "filed" => Case.mode = "api"
  /\ pc \in {"assemble", "render", "score"} => Sound(State)
  /\ pc \in {"render", "score"} => State.assembled > 0
  /\ pc \in {"idle", "report"} => responses = 0
  /\ pc \notin {"idle", "report"} => responses <= Len(State.answers)

(* A run one may list as succeeded or roll back to, and lists and targets  *)
(* that name no others.                                                    *)
Certified(s) == Sound(s) /\ s.assembled > 0 /\ AuditPasses(s)

Truthful(R, list) ==
  \A i \in DOMAIN list :
    /\ list[i].ok => Certified(R[list[i].run])
    /\ list[i].rollback # NoRun => Certified(R[list[i].rollback])

Targets(R, target) == \A c \in CaseNos : target[c] # NoRun => Certified(R[target[c]])

Truths ==
  /\ Truthful(runs, report.attempts)
  /\ Truthful(runs, attempts)
  /\ Targets(runs, previous)

(* Requests a run has sent in the call in progress, at most.               *)
Sent(r) ==
  IF at = r /\ pc \in {"call", "filed"}
  THEN IF pc = "filed" THEN MaxRetries + 1
       ELSE IF call.phase = "sending" THEN call.attempt - 1 ELSE call.attempt
  ELSE 0

Ended(r) == Len(runs[r].answers) + Len(runs[r].failures) + lost[r]

(* Receipts are saved between the request and the answer.                  *)
InHand(r, phase) == IF at = r /\ phase THEN 1 ELSE 0

LedgerOf(r) ==
  /\ requests[r] <= (MaxRetries + 1) * Ended(r) + Sent(r)
  /\ ModeOf(r) = "api" =>
       /\ Len(runs[r].answers) + InHand(r, pc = "filed") <= runs[r].receipts
       /\ runs[r].receipts + InHand(r, call.phase = "answered") <= requests[r]

Ledger == \A r \in RunIds : LedgerOf(r)

(* What a list says successful API runs cost, given the requests sent.     *)
Priced(sent, list) ==
  \A i \in DOMAIN list :
    list[i].ok /\ ModeOf(list[i].run) = "api" => list[i].cost \in K..sent[list[i].run]

Books == Ledger /\ Priced(requests, attempts) /\ Priced(requests, report.attempts)

PInv == TypeOK /\ Positions
IInv == PInv /\ Truths /\ Books

-----------------------------------------------------------------------------
(* Runs and their fields.                                                  *)

LEMMA RunIdFacts ==
  /\ \A c \in CaseNos : \A t \in 1..Cases[c].tries : <<c, t>> \in RunIds
  /\ \A r \in RunIds : /\ r = <<r[1], r[2]>>
                       /\ r[1] \in CaseNos
                       /\ r[2] \in 1..Cases[r[1]].tries
  /\ CaseNos = 1..Len(Cases) /\ Len(Cases) \in Nat \ {0}
  /\ NoRun \notin RunIds
<1>1. CaseNos = 1..Len(Cases) /\ Len(Cases) \in Nat \ {0}
  BY CasesAssumption DEF CaseNos
<1>2. \A c \in CaseNos : \A t \in 1..Cases[c].tries : <<c, t>> \in RunIds
  BY DEF RunIds
<1>3. \A r \in RunIds : /\ r = <<r[1], r[2]>>
                        /\ r[1] \in CaseNos
                        /\ r[2] \in 1..Cases[r[1]].tries
  BY DEF RunIds
<1>4. NoRun \notin RunIds
  BY <1>1, <1>3 DEF NoRun
<1> QED
  BY <1>1, <1>2, <1>3, <1>4

LEMMA AnswerLists ==
  \A a : a \in UNION {[1..n -> Answers] : n \in 0..K}
           <=> a \in Seq(Answers) /\ Len(a) <= K
<1>1. ASSUME NEW a, NEW n \in 0..K, a \in [1..n -> Answers]
      PROVE  a \in Seq(Answers) /\ Len(a) <= K
  BY <1>1, KAssumption
<1>2. ASSUME NEW a \in Seq(Answers), Len(a) <= K
      PROVE  a \in [1..Len(a) -> Answers] /\ Len(a) \in 0..K
  BY <1>2, KAssumption
<1> QED
  BY <1>1, <1>2

LEMMA RunFields ==
  ASSUME NEW s \in RunState
  PROVE  /\ s.answers \in Seq(Answers) /\ Len(s.answers) \in 0..K
         /\ s.waiting \in BOOLEAN
         /\ s.failures \in Seq(1..K) /\ Len(s.failures) \in Nat
         /\ s.blocked \in Nat /\ s.receipts \in Nat /\ s.assembled \in Nat
         /\ s.prompts \subseteq PromptRecords
<1>1. /\ s.answers \in UNION {[1..n -> Answers] : n \in 0..K}
      /\ s.waiting \in BOOLEAN /\ s.failures \in Seq(1..K)
      /\ s.blocked \in Nat /\ s.receipts \in Nat /\ s.assembled \in Nat
      /\ s.prompts \subseteq PromptRecords
  BY DEF RunState
<1>2. s.answers \in Seq(Answers) /\ Len(s.answers) <= K
  BY <1>1, AnswerLists
<1> QED
  BY <1>1, <1>2, KAssumption

LEMMA RunBuilt ==
  ASSUME NEW a \in Seq(Answers), Len(a) <= K, NEW w \in BOOLEAN, NEW f \in Seq(1..K),
         NEW b \in Nat, NEW p \in SUBSET PromptRecords, NEW rc \in Nat, NEW as \in Nat
  PROVE  [answers |-> a, waiting |-> w, failures |-> f, blocked |-> b,
          prompts |-> p, receipts |-> rc, assembled |-> as] \in RunState
BY AnswerLists DEF RunState

LEMMA RunIs ==
  ASSUME NEW s \in RunState
  PROVE  s = [answers |-> s.answers, waiting |-> s.waiting, failures |-> s.failures,
              blocked |-> s.blocked, prompts |-> s.prompts, receipts |-> s.receipts,
              assembled |-> s.assembled]
BY DEF RunState

(* A prompt that is due has a number, and its next attempt another.        *)
LEMMA DuePrompt ==
  ASSUME NEW s \in RunState, ~ Answered(s)
  PROVE  Due(s) \in 1..K /\ Attempt(s) \in Nat
<1>1. Due(s) \in 1..K
  BY RunFields, KAssumption DEF Due, Answered
<1>2. IsFiniteSet(DOMAIN s.failures)
  BY RunFields, FS_Interval, 0 \in Int, 1 \in Int
<1>3. IsFiniteSet({j \in DOMAIN s.failures : s.failures[j] = Due(s)})
  BY <1>2, FS_Subset
<1>4. Cardinality({j \in DOMAIN s.failures : s.failures[j] = Due(s)}) \in Nat
  BY <1>3, FS_CardinalityType
<1> QED
  BY <1>1, <1>4 DEF Attempt

LEMMA PromptedFields ==
  ASSUME NEW s \in RunState, ~ Answered(s), NEW v \in Versions
  PROVE  /\ Prompted(s, v) \in RunState
         /\ Prompted(s, v).answers = s.answers /\ Prompted(s, v).failures = s.failures
         /\ Prompted(s, v).receipts = s.receipts /\ Prompted(s, v).assembled = s.assembled
<1> DEFINE p == s.prompts \cup {<<Due(s), Attempt(s), v>>}
<1>1. p \in SUBSET PromptRecords
  BY DuePrompt, RunFields DEF PromptRecords
<1>2. Prompted(s, v) = [answers |-> s.answers, waiting |-> s.waiting,
                        failures |-> s.failures, blocked |-> s.blocked, prompts |-> p,
                        receipts |-> s.receipts, assembled |-> s.assembled]
  BY RunIs DEF Prompted
<1>3. [answers |-> s.answers, waiting |-> s.waiting,
       failures |-> s.failures, blocked |-> s.blocked, prompts |-> p,
       receipts |-> s.receipts, assembled |-> s.assembled] \in RunState
  <2>1. /\ s.answers \in Seq(Answers) /\ Len(s.answers) <= K /\ s.waiting \in BOOLEAN
        /\ s.failures \in Seq(1..K) /\ s.blocked \in Nat /\ s.receipts \in Nat
        /\ s.assembled \in Nat
    BY RunFields
  <2> QED
    BY <1>1, <2>1, RunBuilt
<1> QED
  BY <1>2, <1>3

-----------------------------------------------------------------------------
(* The end of a case and the end of a try.                                 *)

LEMMA CaseEndsHow ==
  ASSUME TypeOK, at \in RunIds, NEW a \in AttemptReport, CaseEnds(a)
  PROVE  /\ pc' \in {"run", "report"} /\ at' \in RunIds /\ responses' = 0
         /\ attempts' = Append(attempts, a) /\ attempts' \in Seq(AttemptReport)
<1>1. ASSUME at[1] < Len(Cases)
      PROVE  <<at[1] + 1, 1>> \in RunIds
  <2>1. at[1] + 1 \in CaseNos
    BY <1>1, RunIdFacts
  <2>2. 1 \in 1..Cases[at[1] + 1].tries
    BY <2>1, CasesAssumption DEF CaseNos
  <2> QED
    BY <2>1, <2>2, RunIdFacts
<1>2. Append(attempts, a) \in Seq(AttemptReport)
  BY DEF TypeOK
<1>3. CASE at[1] < Len(Cases)
  BY <1>1, <1>2, <1>3 DEF CaseEnds
<1>4. CASE ~ (at[1] < Len(Cases))
  BY <1>2, <1>4 DEF CaseEnds
<1> QED
  BY <1>3, <1>4

LEMMA TryFailsHow ==
  ASSUME TypeOK, at \in RunIds, NEW cost \in Nat, TryFails(cost)
  PROVE  /\ pc' \in {"run", "report"} /\ at' \in RunIds /\ responses' = 0
         /\ attempts' \in Seq(AttemptReport)
         /\ \/ attempts' = attempts
            \/ \E a \in AttemptReport : /\ attempts' = Append(attempts, a)
                                        /\ ~ a.ok
                                        /\ a.rollback \in {NoRun, previous[at[1]]}
<1>1. at[1] \in CaseNos /\ at[2] \in 1..Cases[at[1]].tries /\ at = <<at[1], at[2]>>
  BY RunIdFacts
<1>2. CASE at[2] < Case.tries
  <2>1. at[2] + 1 \in 1..Cases[at[1]].tries
    BY <1>1, <1>2, CasesAssumption DEF Case, CaseNos
  <2>2. <<at[1], at[2] + 1>> \in RunIds
    BY <1>1, <2>1, RunIdFacts
  <2> QED
    BY <1>2, <2>2 DEF TryFails, TypeOK
<1>3. CASE ~ (at[2] < Case.tries)
  <2> DEFINE a == [run |-> at, ok |-> FALSE, cost |-> cost,
                   rollback |-> IF Case.rollback THEN previous[at[1]] ELSE NoRun]
  <2>1. CaseEnds(a)
    BY <1>3 DEF TryFails
  <2>2. a \in AttemptReport
    BY <1>1 DEF TypeOK, AttemptReport
  <2>3. ~ a.ok /\ a.rollback \in {NoRun, previous[at[1]]}
    OBVIOUS
  <2> HIDE DEF a
  <2> QED
    BY <2>1, <2>2, <2>3, CaseEndsHow
<1> QED
  BY <1>2, <1>3

-----------------------------------------------------------------------------
(* Types and positions.                                                    *)

LEMMA PlacesInit == Init => PInv
<1> SUFFICES ASSUME Init PROVE PInv
  OBVIOUS
<1>1. NewRun \in RunState
  <2>1. /\ <<>> \in Seq(Answers) /\ Len(<<>>) <= K /\ FALSE \in BOOLEAN
        /\ <<>> \in Seq(1..K) /\ 0 \in Nat /\ {} \in SUBSET PromptRecords
    BY KAssumption
  <2> QED
    BY <2>1, RunBuilt DEF NewRun
<1>2. <<>> \in Seq(AttemptReport)
  OBVIOUS
<1>3. TypeOK
  BY <1>1, <1>2, KAssumption, MaxRetriesAssumption
     DEF Init, TypeOK, NoReport, Unwritten, Versions, Provider!Init, Provider!Idle,
         Provider!Calls, Provider!Phases
<1>4. Positions
  BY DEF Init, Positions, Provider!Init, Provider!Idle
<1> QED
  BY <1>3, <1>4 DEF PInv

(* Replacing the run in progress.                                          *)
LEMMA SavedRunIs ==
  ASSUME TypeOK, at \in RunIds, NEW s, SavedRun(s)
  PROVE  /\ runs'[at] = s
         /\ \A r \in RunIds \ {at} : runs'[r] = runs[r]
         /\ s \in RunState => runs' \in [RunIds -> RunState]
BY DEF SavedRun, TypeOK

LEMMA StartPlaces == PInv /\ Start => PInv'
<1> SUFFICES ASSUME PInv, Start PROVE PInv'
  OBVIOUS
<1>1. ASSUME NEW c \in DOMAIN report.attempts
      PROVE  report.attempts[c].run \in RunIds
  <2>1. report.attempts[c] \in AttemptReport
    BY DEF PInv, TypeOK
  <2> QED
    BY <2>1 DEF AttemptReport
<1>2. PreviousRuns(report) \in [CaseNos -> RunIds \cup {NoRun}]
  BY <1>1 DEF PreviousRuns
<1>3. <<1, 1>> \in RunIds
  <2>1. 1 \in CaseNos
    BY RunIdFacts
  <2>2. 1 \in 1..Cases[1].tries
    BY <2>1, CasesAssumption DEF CaseNos
  <2> QED
    BY <2>1, <2>2, RunIdFacts
<1>4. TypeOK'
  <2>1. CASE report.status = "torn"
    BY <2>1 DEF PInv, TypeOK, Start
  <2>2. CASE report.status # "torn"
    <3>1. /\ previous' = PreviousRuns(report) /\ at' = <<1, 1>> /\ pc' = "run"
          /\ benchmarks' = benchmarks + 1
          /\ UNCHANGED <<runs, report, attempts, responses, template, call, requests,
                         lost, disturbances>>
      BY <2>2 DEF Start
    <3>2. call.phase = "idle"
      BY DEF PInv, Positions, Start
    <3> QED
      BY <1>2, <1>3, <3>1, <3>2 DEF PInv, TypeOK
  <2> QED
    BY <2>1, <2>2
<1>5. runs[<<1, 1>>].answers \in Seq(Answers) /\ responses = 0
  BY <1>3, RunFields DEF PInv, TypeOK, Positions, Start
<1>6. Positions'
  BY <1>5 DEF PInv, Positions, Start, State
<1> QED
  BY <1>4, <1>6 DEF PInv

LEMMA ValidatePlaces == PInv /\ ValidateBlocks => PInv'
<1> SUFFICES ASSUME PInv, ValidateBlocks PROVE PInv'
  OBVIOUS
<1> DEFINE s == [State EXCEPT !.blocked = @ + 1]
<1>1. at \in RunIds /\ State \in RunState /\ responses \in Nat
  BY KAssumption DEF PInv, TypeOK, ValidateBlocks, State
<1>2. s \in RunState
  BY <1>1 DEF RunState
<1>3. runs' \in [RunIds -> RunState]
  BY <1>1, <1>2, SavedRunIs DEF PInv, ValidateBlocks
<1>4. /\ pc' \in {"run", "report"} /\ at' \in RunIds /\ responses' = 0
      /\ attempts' \in Seq(AttemptReport)
  BY <1>1, TryFailsHow DEF PInv, ValidateBlocks
<1>5. TypeOK'
  BY <1>3, <1>4, KAssumption, SMTT(30) DEF PInv, TypeOK, ValidateBlocks, Positions
<1>6. runs'[at'].answers \in Seq(Answers)
  BY <1>3, <1>4, RunFields
<1>7. Positions'
  BY <1>4, <1>6 DEF PInv, Positions, ValidateBlocks, State
<1> QED
  BY <1>5, <1>7 DEF PInv

LEMMA CompletesPlaces == PInv /\ RunCompletes => PInv'
<1> SUFFICES ASSUME PInv, RunCompletes PROVE PInv'
  OBVIOUS
<1> DEFINE s == [State EXCEPT !.assembled = IF @ = 0 THEN 1 ELSE @]
<1>1. at \in RunIds /\ State \in RunState
  BY DEF PInv, TypeOK, RunCompletes, State
<1>2. s \in RunState /\ s.answers = State.answers /\ s.assembled > 0
  BY <1>1 DEF RunState
<1>3. runs' \in [RunIds -> RunState] /\ runs'[at] = s
  BY <1>1, <1>2, SavedRunIs DEF PInv, RunCompletes
<1>4. pc' = "assemble" /\ UNCHANGED <<at, attempts, responses>>
  BY DEF RunCompletes, Goto
<1>5. TypeOK'
  BY <1>1, <1>3, <1>4 DEF PInv, TypeOK, RunCompletes, Positions
<1>6. Sound(s)
  BY <1>2 DEF RunCompletes, Sound, Answered, Blocked
<1>7. Positions'
  BY <1>2, <1>3, <1>4, <1>6 DEF PInv, Positions, RunCompletes, State
<1> QED
  BY <1>5, <1>7 DEF PInv

LEMMA ExportPlaces == PInv /\ ExportPacket => PInv'
<1> SUFFICES ASSUME PInv, ExportPacket PROVE PInv'
  OBVIOUS
<1> DEFINE p == Prompted(State, template)
           s == [p EXCEPT !.waiting = TRUE]
<1>1. at \in RunIds /\ State \in RunState /\ template \in Versions /\ ~ Answered(State)
  BY DEF PInv, TypeOK, ExportPacket, State
<1>2. p \in RunState /\ p.answers = State.answers
  BY <1>1, PromptedFields
<1>3. s \in RunState /\ s.answers = State.answers
  <2> HIDE DEF p
  <2> QED
    BY <1>2 DEF RunState
<1>4. runs' \in [RunIds -> RunState] /\ runs'[at] = s
  BY <1>1, <1>3, SavedRunIs DEF PInv, ExportPacket
<1> HIDE DEF s
<1>5. TypeOK'
  BY <1>4 DEF PInv, TypeOK, ExportPacket
<1>6. Positions'
  BY <1>3, <1>4 DEF PInv, Positions, ExportPacket, State
<1> QED
  BY <1>5, <1>6 DEF PInv

LEMMA PromptPlaces == PInv /\ Prompt => PInv'
<1> SUFFICES ASSUME PInv, Prompt PROVE PInv'
  OBVIOUS
<1>1. /\ call' = [phase |-> "sending", attempt |-> 1]
      /\ pc' = "call" /\ UNCHANGED <<at, attempts, responses, runs>>
  BY DEF Prompt, Goto, Provider!Invoke
<1>2. call' \in Provider!Calls /\ call'.attempt \in 1..(MaxRetries + 1)
  BY <1>1, MaxRetriesAssumption DEF Provider!Calls, Provider!Phases
<1>3. TypeOK'
  BY <1>1, <1>2 DEF PInv, TypeOK, Prompt
<1>4. Positions'
  BY <1>1, <1>2 DEF PInv, Positions, Prompt, State
<1> QED
  BY <1>3, <1>4 DEF PInv

LEMMA UsuallyDisturbs ==
  ASSUME TypeOK, NEW usual \in BOOLEAN, Usually(usual)
  PROVE  disturbances' \in Nat
BY DEF TypeOK, Usually, Disturb

(* One request: the call retries, answers or raises.                       *)
LEMMA RequestHow ==
  ASSUME PInv, NEW outcome \in Provider!Outcomes, Provider!Request(outcome)
  PROVE  /\ call.phase = "sending" /\ pc = "call" /\ at \in RunIds
         /\ \/ /\ call'.phase = "sending" /\ call'.attempt = call.attempt + 1
               /\ call.attempt <= MaxRetries
            \/ call'.phase \in {"answered", "raised"} /\ call'.attempt = call.attempt
         /\ call'.attempt \in 1..(MaxRetries + 1)
         /\ call' \in Provider!Calls
<1>1. /\ call.phase = "sending" /\ pc = "call" /\ at \in RunIds
      /\ call \in [phase : Provider!Phases, attempt : 0..(MaxRetries + 1)]
      /\ call.attempt \in 1..(MaxRetries + 1)
  BY DEF PInv, TypeOK, Positions, Provider!Request, Provider!Calls
<1>2. CASE outcome \in Provider!Retryable /\ call.attempt <= MaxRetries
  <2>1. call' = [call EXCEPT !.attempt = @ + 1]
    BY <1>2 DEF Provider!Request
  <2> QED
    BY <1>1, <1>2, <2>1, MaxRetriesAssumption DEF Provider!Calls
<1>3. CASE ~ (outcome \in Provider!Retryable /\ call.attempt <= MaxRetries)
  <2>1. call' = [call EXCEPT !.phase = IF outcome = "usable" THEN "answered" ELSE "raised"]
    BY <1>3 DEF Provider!Request
  <2> QED
    BY <1>1, <2>1 DEF Provider!Calls, Provider!Phases
<1> QED
  BY <1>2, <1>3

LEMMA RequestPlaces ==
  ASSUME PInv, NEW outcome \in Provider!Outcomes, SendRequest(outcome)
  PROVE  PInv'
<1>1. /\ call'.phase # "idle" /\ call'.attempt \in 1..(MaxRetries + 1)
      /\ call' \in Provider!Calls /\ pc = "call" /\ at \in RunIds
  BY RequestHow DEF SendRequest
<1>2. disturbances' \in Nat
  BY UsuallyDisturbs DEF PInv, SendRequest
<1>3. requests' \in [RunIds -> Nat]
  <2>1. requests' = [requests EXCEPT ![at] = @ + 1] /\ requests \in [RunIds -> Nat]
    BY DEF SendRequest, PInv, TypeOK
  <2> QED
    BY <1>1, <2>1
<1>4. TypeOK'
  BY <1>1, <1>2, <1>3 DEF SendRequest, PInv, TypeOK
<1>5. Positions'
  BY <1>1 DEF SendRequest, PInv, Positions, State
<1> QED
  BY <1>4, <1>5 DEF PInv

LEMMA IdleCall == Provider!Idle \in Provider!Calls /\ Provider!Idle.phase = "idle"
BY MaxRetriesAssumption DEF Provider!Idle, Provider!Calls, Provider!Phases

LEMMA FilePlaces == PInv /\ FileResponse => PInv'
<1> SUFFICES ASSUME PInv, FileResponse PROVE PInv'
  OBVIOUS
<1> DEFINE s == [State EXCEPT !.receipts = @ + 1]
<1>1. at \in RunIds /\ State \in RunState
  BY DEF PInv, TypeOK, FileResponse, State
<1>2. s \in RunState /\ s.answers = State.answers
  <2>1. State.receipts + 1 \in Nat
    BY <1>1, RunFields
  <2> QED
    BY <1>1, <2>1 DEF RunState
<1>3. runs' \in [RunIds -> RunState] /\ runs'[at] = s
  BY <1>1, <1>2, SavedRunIs DEF PInv, FileResponse
<1>4. pc' = "filed" /\ UNCHANGED <<at, attempts, responses>> /\ call' = Provider!Idle
  BY DEF FileResponse, Goto, Provider!Return
<1>5. Provider!Idle \in Provider!Calls /\ Provider!Idle.phase = "idle"
  BY IdleCall
<1> HIDE DEF s
<1>6. TypeOK'
  BY <1>1, <1>3, <1>4, <1>5 DEF PInv, TypeOK, FileResponse
<1>7. Positions'
  BY <1>2, <1>3, <1>4, <1>5 DEF PInv, Positions, FileResponse, State, Answered, Case
<1> QED
  BY <1>6, <1>7 DEF PInv

LEMMA OneMoreAnswer ==
  ASSUME NEW s \in RunState, ~ Answered(s), NEW a \in Answers
  PROVE  /\ Append(s.answers, a) \in Seq(Answers)
         /\ Len(Append(s.answers, a)) = Len(s.answers) + 1
         /\ Len(s.answers) + 1 <= K
BY RunFields, KAssumption DEF Answered

LEMMA AnsweredRun ==
  ASSUME NEW s \in RunState, ~ Answered(s), NEW a \in Answers
  PROVE  [s EXCEPT !.answers = Append(@, a)] \in RunState
<1>1. Append(s.answers, a) \in UNION {[1..n -> Answers] : n \in 0..K}
  <2>1. Append(s.answers, a) \in Seq(Answers) /\ Len(Append(s.answers, a)) <= K
    BY OneMoreAnswer
  <2> QED
    BY <2>1, AnswerLists
<1> QED
  BY <1>1 DEF RunState

LEMMA SavePlaces ==
  ASSUME PInv, NEW answer \in Answers, SaveAnswer(answer)
  PROVE  PInv'
<1> DEFINE p == Prompted(State, template)
           s == [p EXCEPT !.answers = Append(@, answer)]
<1>1. /\ at \in RunIds /\ State \in RunState /\ template \in Versions
      /\ ~ Answered(State)
  BY DEF PInv, TypeOK, Positions, SaveAnswer, State
<1>2. p \in RunState /\ p.answers = State.answers
  BY <1>1, PromptedFields
<1>3. ~ Answered(p)
  BY <1>1, <1>2 DEF Answered
<1>4. s \in RunState /\ s.answers = Append(State.answers, answer)
  <2>1. s \in RunState
    <3> HIDE DEF p
    <3> QED
      BY <1>2, <1>3, AnsweredRun
  <2>2. s.answers = Append(p.answers, answer)
    <3> HIDE DEF p
    <3> QED
      BY <1>2 DEF RunState
  <2> QED
    BY <1>2, <2>1, <2>2
<1>5. runs' \in [RunIds -> RunState] /\ runs'[at] = s
  BY <1>1, <1>4, SavedRunIs DEF PInv, SaveAnswer
<1>6. Len(s.answers) = Len(State.answers) + 1 /\ Len(State.answers) \in Nat
  BY <1>1, <1>4, OneMoreAnswer, RunFields
<1> HIDE DEF s
<1>7. pc = "filed" /\ pc' = "run" /\ UNCHANGED <<at, attempts, responses, call>>
  BY DEF SaveAnswer, Goto
<1>8. disturbances' \in Nat
  BY UsuallyDisturbs DEF PInv, SaveAnswer
<1>9. TypeOK'
  BY <1>1, <1>5, <1>7, <1>8 DEF PInv, TypeOK, SaveAnswer, Positions
<1>10. responses \in Nat
  BY KAssumption DEF PInv, TypeOK
<1>11. Positions'
  BY <1>1, <1>5, <1>6, <1>7, <1>10 DEF PInv, Positions, SaveAnswer, State
<1> QED
  BY <1>9, <1>11 DEF PInv

LEMMA ImportPlaces ==
  ASSUME PInv, NEW answer \in Answers, ImportAnswer(answer)
  PROVE  PInv'
<1> DEFINE s == [State EXCEPT !.answers = Append(@, answer), !.waiting = FALSE]
           q == [State EXCEPT !.answers = Append(@, answer)]
<1>1. at \in RunIds /\ State \in RunState /\ ~ Answered(State)
  BY DEF PInv, TypeOK, Positions, ImportAnswer, State
<1>2. q \in RunState
  BY <1>1, AnsweredRun
<1>3. s = [q EXCEPT !.waiting = FALSE] /\ q.answers = Append(State.answers, answer)
  BY <1>1 DEF RunState
<1>4. s \in RunState /\ s.answers = Append(State.answers, answer)
  <2> HIDE DEF q
  <2>1. s \in RunState /\ s.answers = q.answers
    <3>1. [q EXCEPT !.waiting = FALSE] \in RunState
      BY <1>2 DEF RunState
    <3>2. [q EXCEPT !.waiting = FALSE].answers = q.answers
      BY <1>2 DEF RunState
    <3> HIDE DEF s
    <3> QED
      BY <1>3, <3>1, <3>2
  <2> HIDE DEF s
  <2> QED
    BY <2>1, <1>3
<1>5. runs' \in [RunIds -> RunState] /\ runs'[at] = s
  BY <1>1, <1>4, SavedRunIs DEF PInv, ImportAnswer
<1>6. /\ Len(s.answers) = Len(State.answers) + 1 /\ Len(State.answers) \in Nat
      /\ Len(State.answers) + 1 <= K
  BY <1>1, <1>4, OneMoreAnswer, RunFields
<1> HIDE DEF s, q
<1>7. pc = "call" /\ pc' = "run" /\ UNCHANGED <<at, attempts>> /\ responses' = responses + 1
      /\ call' = Provider!Idle
  BY DEF ImportAnswer, Provider!Return
<1>8. disturbances' \in Nat
  BY UsuallyDisturbs DEF PInv, ImportAnswer
<1>9. responses \in Nat /\ responses <= Len(State.answers)
  BY <1>7, KAssumption DEF PInv, TypeOK, Positions
<1>10. responses' \in 0..K
  BY <1>6, <1>7, <1>9, KAssumption
<1>11. TypeOK'
  BY <1>1, <1>5, <1>7, <1>8, <1>10, IdleCall DEF PInv, TypeOK, ImportAnswer
<1>12. Positions'
  BY <1>1, <1>5, <1>6, <1>7, <1>9, IdleCall DEF PInv, Positions, State
<1> QED
  BY <1>11, <1>12 DEF PInv

LEMMA FailedFields ==
  ASSUME NEW s \in RunState, ~ Answered(s), NEW v \in Versions
  PROVE  /\ Failed(s, v) \in RunState
         /\ Failed(s, v).answers = s.answers
         /\ Len(Failed(s, v).failures) = Len(s.failures) + 1
         /\ Failed(s, v).receipts = s.receipts /\ Failed(s, v).assembled = s.assembled
<1> DEFINE p == Prompted(s, v)
<1>1. /\ p \in RunState /\ p.answers = s.answers /\ p.failures = s.failures
      /\ p.receipts = s.receipts /\ p.assembled = s.assembled
  BY PromptedFields
<1>2. Failed(s, v) = [p EXCEPT !.failures = Append(@, Due(s))]
  BY DEF Failed
<1>3. Append(p.failures, Due(s)) \in Seq(1..K)
      /\ Len(Append(p.failures, Due(s))) = Len(s.failures) + 1
  BY <1>1, DuePrompt, RunFields
<1> HIDE DEF p
<1> QED
  BY <1>1, <1>2, <1>3 DEF RunState

LEMMA RaisesPlaces == PInv /\ ProviderRaises => PInv'
<1> SUFFICES ASSUME PInv, ProviderRaises PROVE PInv'
  OBVIOUS
<1>1. /\ at \in RunIds /\ State \in RunState /\ template \in Versions
      /\ ~ Answered(State)
  BY DEF PInv, TypeOK, Positions, ProviderRaises, State
<1>2. runs' \in [RunIds -> RunState] /\ lost' \in [RunIds -> Nat]
  <2>1. CASE Case.mode = "api"
    BY <1>1, <2>1, FailedFields, SavedRunIs DEF ProviderRaises, PInv, TypeOK
  <2>2. CASE Case.mode # "api"
    BY <1>1, <2>2 DEF ProviderRaises, PInv, TypeOK
  <2> QED
    BY <2>1, <2>2
<1>3. /\ pc' \in {"run", "report"} /\ at' \in RunIds /\ responses' = 0
      /\ attempts' \in Seq(AttemptReport)
  BY <1>1, TryFailsHow DEF PInv, ProviderRaises
<1>4. call' = Provider!Idle
  BY DEF ProviderRaises, Provider!Return
<1>5. TypeOK'
  BY <1>2, <1>3, <1>4, IdleCall, KAssumption DEF PInv, TypeOK, ProviderRaises
<1>6. runs'[at'].answers \in Seq(Answers)
  BY <1>2, <1>3, RunFields
<1>7. Positions'
  BY <1>3, <1>4, <1>6, IdleCall DEF PInv, Positions, State
<1> QED
  BY <1>5, <1>7 DEF PInv

LEMMA AssemblePlaces == PInv /\ AssembleAgain => PInv'
<1> SUFFICES ASSUME PInv, AssembleAgain PROVE PInv'
  OBVIOUS
<1> DEFINE s == [State EXCEPT !.assembled = @ + 1]
<1>1. at \in RunIds /\ State \in RunState /\ Sound(State)
  BY DEF PInv, TypeOK, Positions, AssembleAgain, State
<1>2. s \in RunState /\ s.answers = State.answers /\ s.assembled > 0
  <2>1. State.assembled + 1 \in Nat /\ State.assembled + 1 > 0
    BY <1>1, RunFields
  <2> QED
    BY <1>1, <2>1 DEF RunState
<1>3. runs' \in [RunIds -> RunState] /\ runs'[at] = s
  BY <1>1, <1>2, SavedRunIs DEF PInv, AssembleAgain
<1> HIDE DEF s
<1>4. pc = "assemble" /\ pc' = "render" /\ UNCHANGED <<at, attempts, responses, call>>
  BY DEF AssembleAgain, Goto
<1>5. TypeOK'
  BY <1>1, <1>3, <1>4 DEF PInv, TypeOK, Positions, AssembleAgain
<1>6. Sound(s)
  BY <1>1, <1>2 DEF Sound, Answered, Blocked
<1>7. Positions'
  BY <1>2, <1>3, <1>4, <1>6 DEF PInv, Positions, State
<1> QED
  BY <1>5, <1>7 DEF PInv

(* After a try, wherever it goes on.                                       *)
LEMMA TriedPlaces ==
  ASSUME PInv, pc \in {"render", "score"}, at' \in RunIds, pc' \in {"run", "report"},
         responses' = 0, attempts' \in Seq(AttemptReport), disturbances' \in Nat,
         UNCHANGED <<runs, report, previous, template, call, requests, lost, benchmarks>>
  PROVE  PInv'
<1>1. call.phase = "idle"
  BY DEF PInv, Positions
<1>2. runs[at'].answers \in Seq(Answers)
  BY RunFields DEF PInv, TypeOK
<1>3. TypeOK'
  BY <1>1, KAssumption DEF PInv, TypeOK
<1>4. Positions'
  BY <1>1, <1>2 DEF PInv, Positions, State
<1> QED
  BY <1>3, <1>4 DEF PInv

LEMMA RenderPlaces == PInv /\ Render => PInv'
<1> SUFFICES ASSUME PInv, Render PROVE PInv'
  OBVIOUS
<1>1. PICK compiled \in CompileOutcomes :
        /\ IF AssertCompiled(compiled) THEN Goto("score") ELSE TryFails(responses)
        /\ Usually(AssertCompiled(compiled))
  BY DEF Render
<1>2. AssertCompiled(compiled) \in BOOLEAN
  BY DEF AssertCompiled
<1>3. disturbances' \in Nat
  BY <1>1, <1>2, UsuallyDisturbs DEF PInv
<1>4. at \in RunIds /\ responses \in Nat
  BY KAssumption DEF PInv, TypeOK, Render
<1>5. CASE AssertCompiled(compiled)
  <2>1. pc' = "score" /\ UNCHANGED <<at, attempts, responses>>
    BY <1>1, <1>5 DEF Goto
  <2>2. TypeOK'
    BY <1>3, <1>4, <2>1 DEF PInv, TypeOK, Positions, Render
  <2>3. Positions'
    BY <2>1 DEF PInv, Positions, Render, State
  <2> QED
    BY <2>2, <2>3 DEF PInv
<1>6. CASE ~ AssertCompiled(compiled)
  <2>1. TryFails(responses)
    BY <1>1, <1>6
  <2>2. /\ pc' \in {"run", "report"} /\ at' \in RunIds /\ responses' = 0
        /\ attempts' \in Seq(AttemptReport)
    BY <1>4, <2>1, TryFailsHow DEF PInv
  <2> QED
    BY <1>3, <2>2, TriedPlaces DEF Render
<1> QED
  BY <1>5, <1>6

(* A score makes the try an entry of the report, or a failure.             *)
LEMMA ScoreHow ==
  ASSUME PInv, Score
  PROVE  /\ at \in RunIds /\ State \in RunState /\ Sound(State) /\ State.assembled > 0
         /\ CostOf(State) \in Nat
         /\ AuditPasses(State) =>
              LET a == [run |-> at, ok |-> TRUE, cost |-> CostOf(State), rollback |-> NoRun]
              IN a \in AttemptReport /\ CaseEnds(a)
         /\ ~ AuditPasses(State) => TryFails(CostOf(State))
<1>1. at \in RunIds /\ State \in RunState /\ Sound(State) /\ State.assembled > 0
  BY DEF PInv, TypeOK, Positions, Score, State
<1>2. CostOf(State) \in Nat
  BY <1>1, RunFields, KAssumption DEF CostOf, PInv, TypeOK
<1>3. [run |-> at, ok |-> TRUE, cost |-> CostOf(State), rollback |-> NoRun]
        \in AttemptReport
  BY <1>1, <1>2 DEF AttemptReport
<1> QED
  BY <1>1, <1>2, <1>3 DEF Score

LEMMA ScorePlaces == PInv /\ Score => PInv'
<1> SUFFICES ASSUME PInv, Score PROVE PInv'
  OBVIOUS
<1>1. /\ pc' \in {"run", "report"} /\ at' \in RunIds /\ responses' = 0
      /\ attempts' \in Seq(AttemptReport)
  <2>1. CASE AuditPasses(State)
    BY <2>1, ScoreHow, CaseEndsHow DEF PInv
  <2>2. CASE ~ AuditPasses(State)
    BY <2>2, ScoreHow, TryFailsHow DEF PInv
  <2> QED
    BY <2>1, <2>2
<1>2. disturbances' \in Nat
  BY DEF Score, PInv, TypeOK
<1> QED
  BY <1>1, <1>2, TriedPlaces DEF Score

LEMMA WritePlaces == PInv /\ WriteReport => PInv'
<1> SUFFICES ASSUME PInv, WriteReport PROVE PInv'
  OBVIOUS
<1>1. /\ report'.attempts = attempts /\ report'.status = "written"
      /\ call.phase = "idle"
  BY DEF WriteReport, PInv, Positions
<1>2. TypeOK'
  BY <1>1, KAssumption DEF WriteReport, PInv, TypeOK
<1>3. Positions'
  BY <1>1 DEF WriteReport, PInv, Positions
<1> QED
  BY <1>2, <1>3 DEF PInv

LEMMA TornReportIs == TornReport.attempts = <<>> /\ TornReport.status = "torn"
BY DEF TornReport, Unwritten

LEMMA CrashPlaces == PInv /\ Crash => PInv'
<1> SUFFICES ASSUME PInv, Crash PROVE PInv'
  OBVIOUS
<1>1. report' = report \/ report' = TornReport
  BY DEF Crash
<1>2. report'.attempts \in Seq(AttemptReport)
      /\ report'.status \in {"absent", "torn", "written"}
  <2>1. <<>> \in Seq(AttemptReport)
    OBVIOUS
  <2> QED
    BY <1>1, <2>1, TornReportIs DEF PInv, TypeOK
<1>3. at \in RunIds /\ lost' \in [RunIds -> Nat]
  BY DEF Crash, PInv, TypeOK
<1>4. TypeOK'
  BY <1>2, <1>3, IdleCall, KAssumption DEF Crash, Disturb, PInv, TypeOK
<1>5. Positions'
  BY IdleCall DEF Crash, Positions
<1> QED
  BY <1>4, <1>5 DEF PInv

LEMMA EditPlaces == PInv /\ EditTemplate => PInv'
<1> SUFFICES ASSUME PInv, EditTemplate PROVE PInv'
  OBVIOUS
<1>1. TypeOK'
  BY DEF EditTemplate, Disturb, PInv, TypeOK, Versions
<1>2. Positions'
  BY DEF EditTemplate, PInv, Positions, State
<1> QED
  BY <1>1, <1>2 DEF PInv

LEMMA StutterPlaces == PInv /\ UNCHANGED vars => PInv'
<1> SUFFICES ASSUME PInv, UNCHANGED vars PROVE PInv'
  OBVIOUS
<1>1. TypeOK'
  BY DEF vars, PInv, TypeOK
<1>2. Positions'
  BY DEF vars, PInv, Positions, State, Case
<1> QED
  BY <1>1, <1>2 DEF PInv

LEMMA PlacesStep == PInv /\ [Next]_vars => PInv'
BY StartPlaces, ValidatePlaces, CompletesPlaces, ExportPlaces, PromptPlaces,
   RequestPlaces, FilePlaces, RaisesPlaces, SavePlaces, ImportPlaces, AssemblePlaces,
   RenderPlaces, ScorePlaces, WritePlaces, CrashPlaces, EditPlaces, StutterPlaces
   DEF Next, Work

LEMMA AlwaysInPlace == Spec => []PInv
BY PlacesInit, PlacesStep, PTL DEF Spec

(* Whatever died, failed, was retried or resumed, every file and counter   *)
(* keeps its type, and a provider call never sends more than one request   *)
(* and its retries (run_dataset, _send_request).                           *)
THEOREM BenchmarkTypeCorrect == Spec => []TypeOK
<1>1. PInv => TypeOK
  BY DEF PInv
<1> QED
  BY <1>1, AlwaysInPlace, PTL

-----------------------------------------------------------------------------
(* What is certified stays so: no step adds an answer or a prompt to a run *)
(* that is sound, or takes an assembly from it.                            *)

Kept(r) ==
  Sound(runs[r]) =>
    /\ runs'[r].answers = runs[r].answers
    /\ runs'[r].prompts = runs[r].prompts
    /\ runs'[r].assembled >= runs[r].assembled

LEMMA RunsKept ==
  ASSUME PInv, [Next]_vars, NEW r \in RunIds
  PROVE  Kept(r)
<1>1. runs[r] \in RunState /\ runs[r].assembled \in Nat
  BY RunFields DEF PInv, TypeOK
<1>2. CASE runs'[r] = runs[r]
  BY <1>1, <1>2 DEF Kept
<1>3. ASSUME ~ Sound(State), NEW s, SavedRun(s), at \in RunIds
      PROVE  Kept(r)
  <2>1. CASE r = at
    BY <1>3, <2>1 DEF Kept, State
  <2>2. CASE r # at
    BY <1>2, <1>3, <2>2, SavedRunIs DEF PInv
  <2> QED
    BY <2>1, <2>2
<1>4. ASSUME at \in RunIds, NEW n \in Nat, n >= State.assembled,
             SavedRun([State EXCEPT !.assembled = n])
      PROVE  Kept(r)
  <2> DEFINE s == [State EXCEPT !.assembled = n]
  <2>1. CASE r = at
    <3>1. runs'[r] = s /\ State \in RunState /\ State = runs[r]
      BY <1>1, <1>4, <2>1, SavedRunIs DEF PInv, State
    <3>2. /\ s.answers = State.answers /\ s.prompts = State.prompts
          /\ s.assembled = n
      BY <3>1 DEF RunState
    <3> QED
      BY <1>4, <3>1, <3>2 DEF Kept
  <2>2. CASE r # at
    BY <1>2, <1>4, <2>2, SavedRunIs DEF PInv
  <2> QED
    BY <2>1, <2>2
<1>5. CASE \/ Start \/ Prompt \/ Render \/ Score \/ WriteReport \/ Crash \/ EditTemplate
           \/ (\E outcome \in Provider!Outcomes : SendRequest(outcome))
           \/ UNCHANGED vars
  <2>1. runs' = runs
    BY <1>5 DEF Start, Prompt, Render, Score, WriteReport, Crash, EditTemplate,
                SendRequest, vars
  <2> QED
    BY <1>2, <2>1
<1>6. CASE pc \in {"call", "filed"}
           /\ (FileResponse \/ ProviderRaises
                 \/ \E answer \in Answers : SaveAnswer(answer) \/ ImportAnswer(answer))
  <2>1. ~ Sound(State) /\ at \in RunIds
    BY <1>6 DEF PInv, TypeOK, Positions, Sound
  <2>2. runs' = runs \/ \E s : SavedRun(s)
    BY <1>6 DEF FileResponse, ProviderRaises, SaveAnswer, ImportAnswer
  <2> QED
    BY <1>2, <1>3, <2>1, <2>2
<1>7. CASE ValidateBlocks \/ ExportPacket
  <2>1. ~ Sound(State) /\ at \in RunIds
    BY <1>7 DEF PInv, TypeOK, ValidateBlocks, ExportPacket, Sound
  <2>2. \E s : SavedRun(s)
    BY <1>7 DEF ValidateBlocks, ExportPacket
  <2> QED
    BY <1>3, <2>1, <2>2
<1>8. CASE RunCompletes
  <2>1. at \in RunIds /\ State \in RunState
    BY <1>8 DEF PInv, TypeOK, RunCompletes, State
  <2>2. State.assembled \in Nat
    BY <2>1, RunFields
  <2> DEFINE n == IF State.assembled = 0 THEN 1 ELSE State.assembled
  <2>3. n \in Nat /\ n >= State.assembled
    BY <2>2
  <2>4. SavedRun([State EXCEPT !.assembled = n])
    BY <1>8 DEF RunCompletes
  <2> HIDE DEF n
  <2> QED
    BY <1>4, <2>1, <2>3, <2>4
<1>9. CASE AssembleAgain
  <2>1. at \in RunIds /\ State \in RunState
    BY <1>9 DEF PInv, TypeOK, AssembleAgain, State
  <2>2. State.assembled + 1 \in Nat /\ State.assembled + 1 >= State.assembled
    BY <2>1, RunFields
  <2>3. SavedRun([State EXCEPT !.assembled = State.assembled + 1])
    BY <1>9 DEF AssembleAgain
  <2> QED
    BY <1>4, <2>1, <2>2, <2>3
<1>10. Next => \/ Start \/ Prompt \/ Render \/ Score \/ WriteReport \/ Crash \/ EditTemplate
               \/ (\E outcome \in Provider!Outcomes : SendRequest(outcome))
               \/ FileResponse \/ ProviderRaises
               \/ (\E answer \in Answers : SaveAnswer(answer) \/ ImportAnswer(answer))
               \/ ValidateBlocks \/ ExportPacket \/ RunCompletes \/ AssembleAgain
  BY DEF Next, Work
<1>11. FileResponse \/ ProviderRaises
         \/ (\E answer \in Answers : SaveAnswer(answer) \/ ImportAnswer(answer))
         => pc \in {"call", "filed"}
  BY DEF FileResponse, ProviderRaises, SaveAnswer, ImportAnswer
<1> QED
  BY <1>5, <1>6, <1>7, <1>8, <1>9, <1>10, <1>11

LEMMA CertifiedStays ==
  ASSUME PInv, [Next]_vars, NEW r \in RunIds, Certified(runs[r])
  PROVE  Certified(runs'[r])
<1>1. Kept(r) /\ Sound(runs[r]) /\ runs[r].assembled > 0 /\ AuditPasses(runs[r])
  BY RunsKept DEF Certified
<1>2. runs[r].assembled \in Nat /\ runs'[r].assembled \in Nat
  BY PlacesStep, RunFields DEF PInv, TypeOK
<1> QED
  BY <1>1, <1>2 DEF Certified, Kept, Sound, Answered, Blocked, AuditPasses

LEMMA EntryFields ==
  ASSUME NEW list \in Seq(AttemptReport), NEW i \in DOMAIN list
  PROVE  /\ list[i].run \in RunIds /\ list[i].rollback \in RunIds \cup {NoRun}
         /\ list[i].ok \in BOOLEAN /\ list[i].cost \in Nat
<1>1. list[i] \in AttemptReport
  OBVIOUS
<1> QED
  BY <1>1 DEF AttemptReport

LEMMA TruthfulStays ==
  ASSUME PInv, [Next]_vars, NEW list \in Seq(AttemptReport), Truthful(runs, list)
  PROVE  Truthful(runs', list)
BY EntryFields, CertifiedStays DEF Truthful

LEMMA TruthfulGrows ==
  ASSUME NEW R, NEW list \in Seq(AttemptReport), Truthful(R, list), NEW a,
         a.ok => Certified(R[a.run]),
         a.rollback # NoRun => Certified(R[a.rollback])
  PROVE  Truthful(R, Append(list, a))
BY DEF Truthful

LEMMA TruthsStep == PInv /\ Truths /\ [Next]_vars => Truths'
<1> SUFFICES ASSUME PInv, Truths, [Next]_vars PROVE Truths'
  OBVIOUS
<1>1. /\ Truthful(runs', report.attempts) /\ Truthful(runs', attempts)
      /\ Targets(runs', previous)
  <2>1. report.attempts \in Seq(AttemptReport) /\ attempts \in Seq(AttemptReport)
        /\ previous \in [CaseNos -> RunIds \cup {NoRun}]
    BY DEF PInv, TypeOK
  <2>2. Targets(runs', previous)
    BY <2>1, CertifiedStays DEF Truths, Targets
  <2> QED
    BY <2>1, <2>2, TruthfulStays DEF Truths
<1>2. Truthful(runs', <<>>)
  BY DEF Truthful
<1>3. CASE UNCHANGED <<report, previous>> /\ attempts' \in {attempts, <<>>}
  BY <1>1, <1>2, <1>3 DEF Truths
<1>4. CASE Start
  <2>1. Targets(runs', PreviousRuns(report))
    BY <1>1 DEF Targets, PreviousRuns, Truthful
  <2>2. UNCHANGED <<report, attempts>> /\ previous' \in {previous, PreviousRuns(report)}
    BY <1>4 DEF Start
  <2> QED
    BY <1>1, <2>1, <2>2 DEF Truths
<1>5. ASSUME at \in RunIds, NEW cost \in Nat, TryFails(cost), UNCHANGED <<report, previous>>
      PROVE  Truths'
  <2>1. at[1] \in CaseNos
    BY <1>5, RunIdFacts
  <2>2. attempts \in Seq(AttemptReport)
    BY DEF PInv, TypeOK
  <2>3. CASE attempts' = attempts
    BY <1>3, <1>5, <2>3
  <2>4. ASSUME NEW a \in AttemptReport, attempts' = Append(attempts, a), ~ a.ok,
               a.rollback \in {NoRun, previous[at[1]]}
        PROVE  Truths'
    <3>1. a.rollback # NoRun => Certified(runs'[a.rollback])
      BY <1>1, <2>1, <2>4 DEF Targets
    <3>2. Truthful(runs', Append(attempts, a))
      BY <1>1, <2>2, <2>4, <3>1, TruthfulGrows
    <3> QED
      BY <1>1, <1>5, <2>4, <3>2 DEF Truths
  <2> QED
    BY <1>5, <2>3, <2>4, TryFailsHow DEF PInv
<1>6. CASE Score
  <2>1. /\ at \in RunIds /\ UNCHANGED <<report, previous, runs>>
        /\ attempts \in Seq(AttemptReport)
    BY <1>6, ScoreHow DEF Score, PInv, TypeOK
  <2>2. CASE AuditPasses(State)
    <3> DEFINE a == [run |-> at, ok |-> TRUE, cost |-> CostOf(State), rollback |-> NoRun]
    <3>1. a \in AttemptReport /\ CaseEnds(a) /\ Certified(runs'[at])
      BY <1>6, <2>1, <2>2, ScoreHow DEF Certified, State
    <3>2. a.run = at /\ a.rollback = NoRun
      OBVIOUS
    <3> HIDE DEF a
    <3>3. attempts' = Append(attempts, a)
      BY <2>1, <3>1, CaseEndsHow DEF PInv
    <3>4. Truthful(runs', Append(attempts, a))
      BY <1>1, <2>1, <3>1, <3>2, TruthfulGrows
    <3> QED
      BY <1>1, <2>1, <3>3, <3>4 DEF Truths
  <2>3. CASE ~ AuditPasses(State)
    BY <1>5, <1>6, <2>1, <2>3, ScoreHow
  <2> QED
    BY <2>2, <2>3
<1>7. CASE WriteReport
  <2>1. report'.attempts = attempts /\ attempts' = <<>> /\ UNCHANGED previous
    BY <1>7 DEF WriteReport
  <2> QED
    BY <1>1, <1>2, <2>1 DEF Truths
<1>8. CASE Crash
  <2>1. report'.attempts \in {report.attempts, <<>>} /\ attempts' = <<>>
        /\ UNCHANGED previous
    BY <1>8, TornReportIs DEF Crash
  <2> QED
    BY <1>1, <1>2, <2>1 DEF Truths
<1>9. CASE Render
  <2>1. at \in RunIds /\ responses \in Nat /\ UNCHANGED <<report, previous>>
    BY <1>9, KAssumption DEF PInv, TypeOK, Render
  <2>2. attempts' = attempts \/ TryFails(responses)
    BY <1>9 DEF Render, Goto
  <2> QED
    BY <1>3, <1>5, <2>1, <2>2
<1>10. CASE ValidateBlocks \/ ProviderRaises
  <2>1. at \in RunIds /\ responses \in Nat /\ 0 \in Nat /\ UNCHANGED <<report, previous>>
    BY <1>10, KAssumption DEF PInv, TypeOK, ValidateBlocks, ProviderRaises
  <2>2. TryFails(responses) \/ TryFails(0)
    BY <1>10 DEF ValidateBlocks, ProviderRaises
  <2> QED
    BY <1>5, <2>1, <2>2
<1>11. CASE \/ RunCompletes \/ ExportPacket \/ Prompt \/ FileResponse \/ AssembleAgain
            \/ EditTemplate \/ UNCHANGED vars
            \/ (\E outcome \in Provider!Outcomes : SendRequest(outcome))
            \/ (\E answer \in Answers : SaveAnswer(answer) \/ ImportAnswer(answer))
  <2>1. UNCHANGED <<report, previous, attempts>>
    BY <1>11 DEF RunCompletes, ExportPacket, Prompt, FileResponse, AssembleAgain,
                 EditTemplate, vars, SendRequest, SaveAnswer, ImportAnswer, Goto
  <2> QED
    BY <1>3, <2>1
<1> QED
  BY <1>4, <1>6, <1>7, <1>8, <1>9, <1>10, <1>11 DEF Next, Work

LEMMA TruthsInit == Init => Truths
<1> SUFFICES ASSUME Init PROVE Truths
  OBVIOUS
<1>1. report.attempts = <<>> /\ attempts = <<>>
  BY DEF Init, NoReport, Unwritten
<1>2. \A c \in CaseNos : previous[c] = NoRun
  BY DEF Init
<1>3. Truthful(runs, <<>>)
  BY DEF Truthful
<1> QED
  BY <1>1, <1>2, <1>3 DEF Truths, Targets

(* A run that a report lists as succeeded, or that a failed case is rolled  *)
(* back to, is complete, valid and audited, though run ids repeat and later *)
(* benchmarks resume the very runs that earlier ones reported               *)
(* (_load_previous_attempts, _run_case).                                    *)
THEOREM ReportIsAlwaysTrue == Spec => []ReportIsTrue
<1>1. PInv /\ Truths => ReportIsTrue
  <2> SUFFICES ASSUME PInv, Truths, NEW i \in DOMAIN report.attempts,
                      NEW r \in ({report.attempts[i].rollback} \ {NoRun})
                                  \cup (IF report.attempts[i].ok
                                        THEN {report.attempts[i].run} ELSE {})
               PROVE  Certified(runs[r])
    BY DEF ReportIsTrue, Certified
  <2> QED
    BY DEF Truths, Truthful
<1>2. PInv /\ Truths /\ [Next]_vars => (PInv /\ Truths)'
  BY PlacesStep, TruthsStep
<1> QED
  BY <1>1, <1>2, PlacesInit, TruthsInit, PTL DEF Spec

-----------------------------------------------------------------------------
(* Requests, records and costs.                                            *)

LEMMA OneMoreCall ==
  ASSUME NEW q \in Nat, NEW e \in Nat, NEW sent \in Nat,
         q <= (MaxRetries + 1) * e + sent, sent <= MaxRetries + 1
  PROVE  q <= (MaxRetries + 1) * (e + 1)
<1>1. (MaxRetries + 1) * (e + 1) = (MaxRetries + 1) * e + (MaxRetries + 1)
  BY MaxRetriesAssumption
<1>2. (MaxRetries + 1) * e \in Nat
  BY MaxRetriesAssumption
<1> QED
  BY <1>1, <1>2, MaxRetriesAssumption

LEMMA CountersAreNumbers ==
  ASSUME PInv, NEW r \in RunIds
  PROVE  /\ runs[r] \in RunState /\ requests[r] \in Nat /\ lost[r] \in Nat
         /\ Len(runs[r].answers) \in Nat /\ Len(runs[r].failures) \in Nat
         /\ runs[r].receipts \in Nat /\ Ended(r) \in Nat
         /\ Sent(r) \in 0..(MaxRetries + 1)
         /\ (MaxRetries + 1) * Ended(r) \in Nat
<1>1. /\ runs[r] \in RunState /\ requests[r] \in Nat /\ lost[r] \in Nat
  BY DEF PInv, TypeOK
<1>2. /\ Len(runs[r].answers) \in Nat /\ Len(runs[r].failures) \in Nat
      /\ runs[r].receipts \in Nat
  BY <1>1, RunFields
<1>3. Ended(r) \in Nat
  <2> DEFINE a == Len(runs[r].answers)
             f == Len(runs[r].failures)
  <2>1. Ended(r) = a + f + lost[r]
    BY DEF Ended
  <2>2. a \in Nat /\ f \in Nat
    BY <1>2
  <2> HIDE DEF a, f
  <2> QED
    BY <1>1, <2>1, <2>2
<1>4. Sent(r) \in 0..(MaxRetries + 1)
  BY MaxRetriesAssumption DEF Sent, PInv, Positions
<1>5. \A e \in Nat : (MaxRetries + 1) * e \in Nat
  BY MaxRetriesAssumption
<1> QED
  BY <1>1, <1>2, <1>3, <1>4, <1>5

LEMMA EndedGrows ==
  ASSUME PInv, NEW r \in RunIds,
         LET a == Len(runs[r].answers)
             f == Len(runs[r].failures)
             fresh == <<Len(runs'[r].answers), Len(runs'[r].failures), lost'[r]>>
         IN fresh \in {<<a + 1, f, lost[r]>>, <<a, f + 1, lost[r]>>, <<a, f, lost[r] + 1>>}
  PROVE  Ended(r)' = Ended(r) + 1
<1> DEFINE a == Len(runs[r].answers)
           f == Len(runs[r].failures)
           x == Len(runs'[r].answers)
           y == Len(runs'[r].failures)
           l == lost[r]
           z == lost'[r]
<1>1. Ended(r) = a + f + l /\ Ended(r)' = x + y + z
  BY DEF Ended
<1>2. a \in Nat /\ f \in Nat /\ l \in Nat
  BY CountersAreNumbers
<1>3. \/ x = a + 1 /\ y = f /\ z = l
      \/ x = a /\ y = f + 1 /\ z = l
      \/ x = a /\ y = f /\ z = l + 1
  OBVIOUS
<1> HIDE DEF a, f, x, y, l, z
<1> QED
  BY <1>1, <1>2, <1>3

(* A run that nothing is added to, outside of a call.                      *)
LEMMA LedgerSame ==
  ASSUME PInv, PInv', NEW r \in RunIds, LedgerOf(r),
         runs'[r].answers = runs[r].answers, runs'[r].failures = runs[r].failures,
         runs'[r].receipts = runs[r].receipts,
         UNCHANGED <<requests[r], lost[r]>>,
         at # r \/ pc \notin {"call", "filed"},
         at' # r \/ pc' \notin {"call", "filed"}
  PROVE  LedgerOf(r)'
<1>1. Sent(r) = 0 /\ Sent(r)' = 0
  BY DEF Sent
<1>2. Ended(r)' = Ended(r)
  BY DEF Ended
<1>3. InHand(r, pc = "filed")' = 0 /\ InHand(r, call.phase = "answered")' = 0
  BY DEF InHand, PInv, Positions
<1>4. InHand(r, pc = "filed") = 0 /\ InHand(r, call.phase = "answered") = 0
  BY DEF InHand, PInv, Positions
<1> QED
  BY <1>1, <1>2, <1>3, <1>4 DEF LedgerOf

(* A call that is over counts among those that ended.                      *)
LEMMA LedgerCloses ==
  ASSUME PInv, PInv', NEW r \in RunIds, LedgerOf(r), Ended(r)' = Ended(r) + 1,
         UNCHANGED requests, pc' \notin {"call", "filed"},
         ModeOf(r) = "api" => /\ Len(runs'[r].answers) <= runs'[r].receipts
                              /\ runs'[r].receipts <= requests[r]
  PROVE  LedgerOf(r)'
<1>1. Sent(r)' = 0
  BY DEF Sent
<1>2. /\ requests[r] \in Nat /\ Ended(r) \in Nat /\ Sent(r) \in Nat
      /\ Sent(r) <= MaxRetries + 1
  BY CountersAreNumbers, MaxRetriesAssumption
<1>3. requests[r] <= (MaxRetries + 1) * (Ended(r) + 1)
  <2>1. requests[r] <= (MaxRetries + 1) * Ended(r) + Sent(r)
    BY DEF LedgerOf
  <2> QED
    BY <1>2, <2>1, OneMoreCall
<1>4. InHand(r, pc = "filed")' = 0 /\ InHand(r, call.phase = "answered")' = 0
  BY DEF InHand, PInv, Positions
<1>5. runs'[r] \in RunState
  BY DEF PInv, TypeOK
<1>6. Len(runs'[r].answers) \in Nat /\ runs'[r].receipts \in Nat
  BY <1>5, RunFields
<1>7. (MaxRetries + 1) * (Ended(r) + 1) \in Nat
  BY <1>2, MaxRetriesAssumption
<1> QED
  BY <1>1, <1>2, <1>3, <1>4, <1>6, <1>7 DEF LedgerOf

(* Every run but the one in progress.                                      *)
LEMMA LedgerOthers ==
  ASSUME PInv, PInv', NEW r \in RunIds, LedgerOf(r), r # at,
         runs'[r] = runs[r], UNCHANGED <<requests[r], lost[r]>>,
         at' = at \/ pc' \notin {"call", "filed"}
  PROVE  LedgerOf(r)'
BY LedgerSame

LEMMA UpdatedFields ==
  /\ \A s \in RunState : \A n : [s EXCEPT !.blocked = n].answers = s.answers
                             /\ [s EXCEPT !.blocked = n].failures = s.failures
                             /\ [s EXCEPT !.blocked = n].receipts = s.receipts
  /\ \A s \in RunState : \A n : [s EXCEPT !.assembled = n].answers = s.answers
                             /\ [s EXCEPT !.assembled = n].failures = s.failures
                             /\ [s EXCEPT !.assembled = n].receipts = s.receipts
  /\ \A s \in RunState : \A n : [s EXCEPT !.waiting = n].answers = s.answers
                             /\ [s EXCEPT !.waiting = n].failures = s.failures
                             /\ [s EXCEPT !.waiting = n].receipts = s.receipts
  /\ \A s \in RunState : \A n : [s EXCEPT !.receipts = n].answers = s.answers
                             /\ [s EXCEPT !.receipts = n].failures = s.failures
                             /\ [s EXCEPT !.receipts = n].receipts = n
  /\ \A s \in RunState : \A n : [s EXCEPT !.answers = n].answers = n
                             /\ [s EXCEPT !.answers = n].failures = s.failures
                             /\ [s EXCEPT !.answers = n].receipts = s.receipts
BY DEF RunState

(* Steps outside of a call.                                                *)
LEMMA LedgerQuiet ==
  ASSUME PInv, PInv', NEW r \in RunIds, LedgerOf(r),
         \/ Start \/ ValidateBlocks \/ RunCompletes \/ ExportPacket \/ AssembleAgain
         \/ Render \/ Score \/ WriteReport
  PROVE  LedgerOf(r)' /\ UNCHANGED requests
<1>1. /\ pc \notin {"call", "filed"} /\ UNCHANGED <<requests, lost, call>>
  BY DEF Start, ValidateBlocks, RunCompletes, ExportPacket, AssembleAgain, Render,
         Score, WriteReport
<1>2. pc' # "call" /\ pc' # "filed"
  <2>1. CASE ValidateBlocks \/ Render \/ Score
    <3>1. /\ at \in RunIds /\ responses \in Nat
      BY <2>1, KAssumption DEF PInv, TypeOK, ValidateBlocks, Render, Score
    <3>2. \/ pc' = "score"
          \/ \E cost \in Nat : TryFails(cost)
          \/ \E a \in AttemptReport : CaseEnds(a)
      <4>1. CASE ValidateBlocks
        BY <3>1, <4>1 DEF ValidateBlocks
      <4>2. CASE Render
        BY <3>1, <4>2 DEF Render, Goto
      <4>3. CASE Score
        BY <4>3, ScoreHow
      <4> QED
        BY <2>1, <4>1, <4>2, <4>3
    <3> QED
      BY <3>1, <3>2, TryFailsHow, CaseEndsHow DEF PInv
  <2>2. CASE Start \/ RunCompletes \/ ExportPacket \/ AssembleAgain \/ WriteReport
    BY <2>2, <1>1 DEF Start, RunCompletes, ExportPacket, AssembleAgain, WriteReport, Goto
  <2> QED
    BY <2>1, <2>2
<1>3. /\ runs'[r].answers = runs[r].answers /\ runs'[r].failures = runs[r].failures
      /\ runs'[r].receipts = runs[r].receipts
  <2>1. CASE Start \/ Render \/ Score \/ WriteReport
    BY <2>1 DEF Start, Render, Score, WriteReport
  <2>2. CASE ValidateBlocks \/ RunCompletes \/ ExportPacket \/ AssembleAgain
    <3>1. at \in RunIds /\ State \in RunState /\ State = runs[at] /\ template \in Versions
      BY <2>2 DEF PInv, TypeOK, ValidateBlocks, RunCompletes, ExportPacket, AssembleAgain,
                  State
    <3>2. CASE r # at
      <4>1. \E s : SavedRun(s)
        BY <2>2 DEF ValidateBlocks, RunCompletes, ExportPacket, AssembleAgain
      <4> QED
        BY <3>1, <3>2, <4>1, SavedRunIs DEF PInv
    <3>3. ASSUME r = at, NEW s, SavedRun(s), s.answers = State.answers,
                 s.failures = State.failures, s.receipts = State.receipts
          PROVE  /\ runs'[r].answers = runs[r].answers
                 /\ runs'[r].failures = runs[r].failures
                 /\ runs'[r].receipts = runs[r].receipts
      BY <3>1, <3>3, SavedRunIs DEF PInv
    <3>4. CASE ExportPacket
      <4> DEFINE p == Prompted(State, template)
      <4>1. /\ p \in RunState /\ p.answers = State.answers /\ p.failures = State.failures
            /\ p.receipts = State.receipts
        BY <3>1, <3>4, PromptedFields DEF ExportPacket
      <4>2. SavedRun([p EXCEPT !.waiting = TRUE])
        BY <3>4 DEF ExportPacket
      <4> HIDE DEF p
      <4> DEFINE q == [p EXCEPT !.waiting = TRUE]
      <4>3. /\ q.answers = State.answers /\ q.failures = State.failures
            /\ q.receipts = State.receipts /\ SavedRun(q)
        BY <4>1, <4>2, UpdatedFields
      <4> HIDE DEF q
      <4> QED
        BY <3>2, <3>3, <4>3
    <3>5. CASE ValidateBlocks \/ RunCompletes \/ AssembleAgain
      <4>1. \E n : \/ SavedRun([State EXCEPT !.blocked = n])
                   \/ SavedRun([State EXCEPT !.assembled = n])
        BY <3>5 DEF ValidateBlocks, RunCompletes, AssembleAgain
      <4>2. \E s : /\ s.answers = State.answers /\ s.failures = State.failures
                   /\ s.receipts = State.receipts /\ SavedRun(s)
        <5>1. ASSUME NEW n, SavedRun([State EXCEPT !.blocked = n])
              PROVE  \E s : /\ s.answers = State.answers /\ s.failures = State.failures
                            /\ s.receipts = State.receipts /\ SavedRun(s)
          <6> WITNESS [State EXCEPT !.blocked = n]
          <6> QED
            BY <3>1, <5>1, UpdatedFields
        <5>2. ASSUME NEW n, SavedRun([State EXCEPT !.assembled = n])
              PROVE  \E s : /\ s.answers = State.answers /\ s.failures = State.failures
                            /\ s.receipts = State.receipts /\ SavedRun(s)
          <6> WITNESS [State EXCEPT !.assembled = n]
          <6> QED
            BY <3>1, <5>2, UpdatedFields
        <5> QED
          BY <4>1, <5>1, <5>2
      <4> QED
        BY <3>2, <3>3, <4>2
    <3> QED
      BY <2>2, <3>4, <3>5
  <2> QED
    BY <2>1, <2>2
<1> QED
  BY <1>1, <1>2, <1>3, LedgerSame

(* A call begins, sends a request, is answered, ends.                      *)
LEMMA LedgerPrompt ==
  ASSUME PInv, PInv', NEW r \in RunIds, LedgerOf(r), Prompt
  PROVE  LedgerOf(r)' /\ UNCHANGED requests
<1>1. /\ pc = "run" /\ pc' = "call" /\ UNCHANGED <<at, runs, requests, lost>>
      /\ call'.phase = "sending" /\ call'.attempt = 1
  BY DEF Prompt, Goto, Provider!Invoke
<1>2. Sent(r) = 0 /\ Sent(r)' = 0 /\ Ended(r)' = Ended(r)
  BY <1>1 DEF Sent, Ended
<1>3. /\ InHand(r, pc = "filed")' = 0 /\ InHand(r, call.phase = "answered")' = 0
      /\ InHand(r, pc = "filed") = 0 /\ InHand(r, call.phase = "answered") = 0
  BY <1>1 DEF InHand, PInv, Positions
<1> QED
  BY <1>1, <1>2, <1>3 DEF LedgerOf

LEMMA LedgerRequest ==
  ASSUME PInv, PInv', NEW r \in RunIds, LedgerOf(r),
         NEW outcome \in Provider!Outcomes, SendRequest(outcome)
  PROVE  LedgerOf(r)' /\ requests'[r] \in {requests[r], requests[r] + 1}
<1>1. /\ UNCHANGED <<runs, pc, at, lost>>
      /\ requests' = [requests EXCEPT ![at] = @ + 1]
      /\ requests \in [RunIds -> Nat]
  BY DEF SendRequest, PInv, TypeOK
<1>2. CASE r # at
  BY <1>1, <1>2, LedgerOthers
<1>3. CASE r = at
  <2>1. requests'[r] = requests[r] + 1
    BY <1>1, <1>3
  <2>2. Sent(r)' = Sent(r) + 1 /\ pc = "call" /\ call.phase = "sending"
    <3>1. /\ pc = "call" /\ pc' = "call" /\ at = r /\ at' = r /\ call.phase = "sending"
          /\ call.attempt \in Nat
          /\ \/ call'.phase = "sending" /\ call'.attempt = call.attempt + 1
             \/ call'.phase \in {"answered", "raised"} /\ call'.attempt = call.attempt
      BY <1>1, <1>3, RequestHow, MaxRetriesAssumption
         DEF SendRequest, PInv, TypeOK, Provider!Calls
    <3> QED
      BY <3>1 DEF Sent
  <2>3. Ended(r)' = Ended(r)
    BY <1>1 DEF Ended
  <2>4. /\ InHand(r, pc = "filed")' = 0 /\ InHand(r, pc = "filed") = 0
        /\ InHand(r, call.phase = "answered")' \in {0, 1}
        /\ InHand(r, call.phase = "answered") = 0
    BY <1>1, <2>2 DEF InHand
  <2>5. /\ requests[r] \in Nat /\ Sent(r) \in Nat /\ runs[r].receipts \in Nat
        /\ (MaxRetries + 1) * Ended(r) \in Nat
    BY CountersAreNumbers, MaxRetriesAssumption
  <2> QED
    BY <1>1, <2>1, <2>2, <2>3, <2>4, <2>5 DEF LedgerOf
<1> QED
  BY <1>1, <1>2, <1>3

LEMMA LedgerFile ==
  ASSUME PInv, PInv', NEW r \in RunIds, LedgerOf(r), FileResponse
  PROVE  LedgerOf(r)' /\ UNCHANGED requests
<1>1. /\ pc = "call" /\ call.phase = "answered" /\ call' = Provider!Idle /\ pc' = "filed"
      /\ UNCHANGED <<at, requests, lost>> /\ at \in RunIds /\ State \in RunState
      /\ State = runs[at]
  BY DEF FileResponse, Goto, Provider!Return, PInv, TypeOK, State
<1> DEFINE s == [State EXCEPT !.receipts = State.receipts + 1]
<1>2. SavedRun(s)
  BY DEF FileResponse
<1>3. CASE r # at
  <2> HIDE DEF s
  <2> QED
    BY <1>1, <1>2, <1>3, LedgerOthers, SavedRunIs DEF PInv
<1>4. CASE r = at
  <2>1. /\ s.answers = State.answers /\ s.failures = State.failures
        /\ s.receipts = State.receipts + 1
    BY <1>1, UpdatedFields
  <2> HIDE DEF s
  <2>2. runs'[r] = s /\ runs[r] = State
    BY <1>1, <1>2, <1>4, SavedRunIs DEF PInv
  <2>3. Ended(r)' = Ended(r)
    BY <1>1, <2>1, <2>2 DEF Ended
  <2>4. Sent(r)' = MaxRetries + 1
    BY <1>1, <1>4 DEF Sent
  <2>5. /\ InHand(r, pc = "filed")' = 1 /\ InHand(r, pc = "filed") = 0
        /\ InHand(r, call.phase = "answered")' = 0
        /\ InHand(r, call.phase = "answered") = 1
    BY <1>1, <1>4, IdleCall DEF InHand
  <2>6. /\ requests[r] \in Nat /\ Sent(r) \in Nat /\ Sent(r) <= MaxRetries + 1
        /\ runs[r].receipts \in Nat /\ Len(runs[r].answers) \in Nat
        /\ (MaxRetries + 1) * Ended(r) \in Nat
    BY CountersAreNumbers, MaxRetriesAssumption
  <2> QED
    BY <1>1, <2>1, <2>2, <2>3, <2>4, <2>5, <2>6, MaxRetriesAssumption, SMTT(30) DEF LedgerOf
<1> QED
  BY <1>1, <1>3, <1>4

LEMMA LedgerSave ==
  ASSUME PInv, PInv', NEW r \in RunIds, LedgerOf(r),
         NEW answer \in Answers, SaveAnswer(answer)
  PROVE  LedgerOf(r)' /\ UNCHANGED requests
<1>1. /\ pc = "filed" /\ pc' = "run" /\ UNCHANGED <<at, requests, lost, call>>
      /\ at \in RunIds /\ State \in RunState /\ State = runs[at] /\ ~ Answered(State)
      /\ template \in Versions
  BY DEF SaveAnswer, Goto, PInv, TypeOK, Positions, State
<1> DEFINE p == Prompted(State, template)
           s == [p EXCEPT !.answers = Append(p.answers, answer)]
<1>2. SavedRun(s)
  BY DEF SaveAnswer
<1>3. CASE r # at
  <2> HIDE DEF s
  <2> QED
    BY <1>1, <1>2, <1>3, LedgerOthers, SavedRunIs DEF PInv
<1>4. CASE r = at
  <2>1. /\ p \in RunState /\ p.answers = State.answers /\ p.failures = State.failures
        /\ p.receipts = State.receipts
    BY <1>1, PromptedFields
  <2> HIDE DEF p
  <2>2. /\ s.answers = Append(State.answers, answer) /\ s.failures = State.failures
        /\ s.receipts = State.receipts
    BY <2>1, UpdatedFields
  <2> HIDE DEF s
  <2>3. runs'[r] = s /\ runs[r] = State
    BY <1>1, <1>2, <1>4, SavedRunIs DEF PInv
  <2>4. Len(s.answers) = Len(State.answers) + 1
    BY <1>1, <2>2, OneMoreAnswer
  <2>5. /\ requests[r] \in Nat /\ lost[r] \in Nat /\ runs[r].receipts \in Nat
        /\ Len(runs[r].answers) \in Nat /\ Len(runs[r].failures) \in Nat
    BY CountersAreNumbers
  <2>6. Ended(r)' = Ended(r) + 1
    BY <1>1, <2>2, <2>3, <2>4, EndedGrows
  <2>7. /\ InHand(r, pc = "filed") = 1
        /\ InHand(r, call.phase = "answered") = 0
    BY <1>1, <1>4 DEF InHand, PInv, Positions
  <2>8. ModeOf(r) = "api" => /\ Len(runs'[r].answers) <= runs'[r].receipts
                             /\ runs'[r].receipts <= requests[r]
    BY <2>2, <2>3, <2>4, <2>5, <2>7 DEF LedgerOf
  <2> QED
    BY <1>1, <2>6, <2>8, LedgerCloses
<1> QED
  BY <1>1, <1>3, <1>4

LEMMA LedgerImport ==
  ASSUME PInv, PInv', NEW r \in RunIds, LedgerOf(r),
         NEW answer \in Answers, ImportAnswer(answer)
  PROVE  LedgerOf(r)' /\ UNCHANGED requests
<1>1. /\ pc = "call" /\ pc' = "run" /\ UNCHANGED <<at, requests, lost>>
      /\ at \in RunIds /\ State \in RunState /\ State = runs[at] /\ ~ Answered(State)
      /\ Case.mode = "manual"
  BY DEF ImportAnswer, PInv, TypeOK, Positions, State
<1> DEFINE s == [State EXCEPT !.answers = Append(@, answer), !.waiting = FALSE]
<1>2. SavedRun(s)
  BY DEF ImportAnswer
<1>3. CASE r # at
  <2> HIDE DEF s
  <2> QED
    BY <1>1, <1>2, <1>3, LedgerOthers, SavedRunIs DEF PInv
<1>4. CASE r = at
  <2>1. s.answers = Append(State.answers, answer) /\ s.failures = State.failures
    BY <1>1 DEF RunState
  <2> HIDE DEF s
  <2>2. runs'[r] = s /\ runs[r] = State
    BY <1>1, <1>2, <1>4, SavedRunIs DEF PInv
  <2>3. Len(s.answers) = Len(State.answers) + 1
    BY <1>1, <2>1, OneMoreAnswer
  <2>4. /\ lost[r] \in Nat
        /\ Len(runs[r].answers) \in Nat /\ Len(runs[r].failures) \in Nat
    BY CountersAreNumbers
  <2>5. Ended(r)' = Ended(r) + 1
    BY <1>1, <2>1, <2>2, <2>3, EndedGrows
  <2>6. ModeOf(r) # "api"
    BY <1>1, <1>4 DEF ModeOf, Case
  <2> QED
    BY <1>1, <2>5, <2>6, LedgerCloses
<1> QED
  BY <1>1, <1>3, <1>4

LEMMA LedgerRaises ==
  ASSUME PInv, PInv', NEW r \in RunIds, LedgerOf(r), ProviderRaises
  PROVE  LedgerOf(r)' /\ UNCHANGED requests
<1>1. /\ pc = "call" /\ call.phase = "raised" /\ UNCHANGED requests
      /\ at \in RunIds /\ State \in RunState /\ State = runs[at] /\ ~ Answered(State)
      /\ template \in Versions
  BY DEF ProviderRaises, Provider!Return, PInv, TypeOK, Positions, State
<1>2. pc' \in {"run", "report"}
  BY <1>1, TryFailsHow DEF ProviderRaises, PInv
<1>3. \/ /\ SavedRun(Failed(State, template)) /\ UNCHANGED lost
      \/ /\ UNCHANGED runs /\ lost' = [lost EXCEPT ![at] = @ + 1]
  BY DEF ProviderRaises
<1>4. lost \in [RunIds -> Nat]
  BY DEF PInv, TypeOK
<1>5. CASE r # at
  BY <1>1, <1>2, <1>3, <1>4, <1>5, LedgerOthers, SavedRunIs DEF PInv
<1>6. CASE r = at
  <2>1. /\ requests[r] \in Nat /\ lost[r] \in Nat /\ runs[r].receipts \in Nat
        /\ Len(runs[r].answers) \in Nat /\ Len(runs[r].failures) \in Nat
    BY CountersAreNumbers
  <2>4. Ended(r)' = Ended(r) + 1 /\ UNCHANGED <<runs[r].answers, runs[r].receipts>>
    <3>1. CASE SavedRun(Failed(State, template)) /\ UNCHANGED lost
      <4>1. /\ runs'[r].answers = runs[r].answers /\ runs'[r].receipts = runs[r].receipts
            /\ Len(runs'[r].failures) = Len(runs[r].failures) + 1
        BY <1>1, <1>6, <3>1, FailedFields, SavedRunIs DEF PInv
      <4> QED
        BY <3>1, <4>1, EndedGrows
    <3>2. CASE UNCHANGED runs /\ lost' = [lost EXCEPT ![at] = @ + 1]
      <4>1. lost'[r] = lost[r] + 1 /\ runs' = runs
        BY <1>1, <1>4, <1>6, <3>2
      <4> QED
        BY <4>1, EndedGrows
    <3> QED
      BY <1>3, <3>1, <3>2
  <2>5. /\ InHand(r, pc = "filed") = 0
        /\ InHand(r, call.phase = "answered") = 0
    BY <1>1 DEF InHand
  <2>6. ModeOf(r) = "api" => /\ Len(runs'[r].answers) <= runs'[r].receipts
                             /\ runs'[r].receipts <= requests[r]
    BY <2>1, <2>4, <2>5 DEF LedgerOf
  <2> QED
    BY <1>1, <1>2, <2>4, <2>6, LedgerCloses
<1> QED
  BY <1>1, <1>5, <1>6

LEMMA LedgerCrash ==
  ASSUME PInv, PInv', NEW r \in RunIds, LedgerOf(r), Crash
  PROVE  LedgerOf(r)' /\ UNCHANGED requests
<1>1. /\ pc' = "idle" /\ UNCHANGED <<requests, runs>> /\ call' = Provider!Idle
      /\ lost \in [RunIds -> Nat]
  BY DEF Crash, PInv, TypeOK
<1>2. CASE pc \notin {"call", "filed"} \/ r # at
  <2>1. lost'[r] = lost[r]
    BY <1>1, <1>2 DEF Crash
  <2> QED
    BY <1>1, <1>2, <2>1, LedgerSame
<1>3. CASE pc \in {"call", "filed"} /\ r = at
  <2>1. lost'[r] = lost[r] + 1
    BY <1>1, <1>3 DEF Crash
  <2>2. /\ requests[r] \in Nat /\ lost[r] \in Nat /\ runs[r].receipts \in Nat
        /\ Len(runs[r].answers) \in Nat /\ Len(runs[r].failures) \in Nat
    BY CountersAreNumbers
  <2>3. Ended(r)' = Ended(r) + 1
    BY <1>1, <2>1, EndedGrows
  <2>4. /\ InHand(r, pc = "filed") \in {0, 1}
        /\ InHand(r, call.phase = "answered") \in {0, 1}
    BY DEF InHand
  <2>5. ModeOf(r) = "api" => /\ Len(runs'[r].answers) <= runs'[r].receipts
                             /\ runs'[r].receipts <= requests[r]
    BY <1>1, <2>2, <2>4 DEF LedgerOf
  <2> QED
    BY <1>1, <2>3, <2>5, LedgerCloses
<1> QED
  BY <1>1, <1>2, <1>3

LEMMA LedgerStep ==
  ASSUME PInv, Ledger, [Next]_vars
  PROVE  Ledger' /\ \A r \in RunIds : requests'[r] \in {requests[r], requests[r] + 1}
<1> SUFFICES ASSUME NEW r \in RunIds
             PROVE  LedgerOf(r)' /\ requests'[r] \in {requests[r], requests[r] + 1}
  BY DEF Ledger
<1>1. PInv' /\ LedgerOf(r)
  BY PlacesStep DEF Ledger
<1>2. CASE EditTemplate
  BY <1>1, <1>2, LedgerSame DEF EditTemplate
<1>3. CASE UNCHANGED vars
  <2>1. Ended(r)' = Ended(r) /\ Sent(r)' = Sent(r)
    BY <1>3 DEF vars, Ended, Sent
  <2>2. /\ InHand(r, pc = "filed")' = InHand(r, pc = "filed")
        /\ InHand(r, call.phase = "answered")' = InHand(r, call.phase = "answered")
    BY <1>3 DEF vars, InHand
  <2> QED
    BY <1>1, <1>3, <2>1, <2>2 DEF vars, LedgerOf
<1>4. CASE \/ Start \/ ValidateBlocks \/ RunCompletes \/ ExportPacket \/ AssembleAgain
           \/ Render \/ Score \/ WriteReport
  BY <1>1, <1>4, LedgerQuiet
<1>5. CASE Prompt \/ FileResponse \/ ProviderRaises \/ Crash
  BY <1>1, <1>5, LedgerPrompt, LedgerFile, LedgerRaises, LedgerCrash
<1>6. ASSUME NEW outcome \in Provider!Outcomes, SendRequest(outcome)
      PROVE  LedgerOf(r)' /\ requests'[r] \in {requests[r], requests[r] + 1}
  BY <1>1, <1>6, LedgerRequest
<1>7. ASSUME NEW answer \in Answers, SaveAnswer(answer) \/ ImportAnswer(answer)
      PROVE  LedgerOf(r)' /\ requests'[r] \in {requests[r], requests[r] + 1}
  BY <1>1, <1>7, LedgerSave, LedgerImport
<1> QED
  BY <1>2, <1>3, <1>4, <1>5, <1>6, <1>7 DEF Next, Work

LEMMA PricedStays ==
  ASSUME PInv, Ledger, [Next]_vars, NEW list \in Seq(AttemptReport), Priced(requests, list)
  PROVE  Priced(requests', list)
<1> SUFFICES ASSUME NEW i \in DOMAIN list, list[i].ok, ModeOf(list[i].run) = "api"
             PROVE  list[i].cost \in K..requests'[list[i].run]
  BY DEF Priced
<1>1. list[i].run \in RunIds
  BY EntryFields
<1>2. /\ requests[list[i].run] \in Nat
      /\ requests'[list[i].run] \in {requests[list[i].run], requests[list[i].run] + 1}
  BY <1>1, LedgerStep DEF PInv, TypeOK
<1>3. list[i].cost \in K..requests[list[i].run]
  BY DEF Priced
<1> QED
  BY <1>2, <1>3, KAssumption

LEMMA PricedGrows ==
  ASSUME NEW sent, NEW list \in Seq(AttemptReport), Priced(sent, list), NEW a,
         a.ok /\ ModeOf(a.run) = "api" => a.cost \in K..sent[a.run]
  PROVE  Priced(sent, Append(list, a))
BY DEF Priced

LEMMA BooksStep == PInv /\ Books /\ [Next]_vars => Books'
<1> SUFFICES ASSUME PInv, Books, [Next]_vars PROVE Books'
  OBVIOUS
<1>1. /\ Ledger' /\ Priced(requests', report.attempts) /\ Priced(requests', attempts)
      /\ report.attempts \in Seq(AttemptReport) /\ attempts \in Seq(AttemptReport)
  <2>1. report.attempts \in Seq(AttemptReport) /\ attempts \in Seq(AttemptReport)
    BY DEF PInv, TypeOK
  <2> QED
    BY <2>1, LedgerStep, PricedStays DEF Books
<1>2. Priced(requests', <<>>)
  BY DEF Priced
<1>3. CASE UNCHANGED report /\ attempts' \in {attempts, <<>>}
  BY <1>1, <1>2, <1>3 DEF Books
<1>4. ASSUME at \in RunIds, NEW cost \in Nat, TryFails(cost), UNCHANGED report
      PROVE  Books'
  <2>1. ASSUME NEW a \in AttemptReport, attempts' = Append(attempts, a), ~ a.ok
        PROVE  Books'
    <3>1. Priced(requests', Append(attempts, a))
      BY <1>1, <2>1, PricedGrows
    <3> QED
      BY <1>1, <1>4, <2>1, <3>1 DEF Books
  <2> QED
    BY <1>3, <1>4, <2>1, TryFailsHow DEF PInv
<1>5. CASE Score
  <2>1. at \in RunIds /\ UNCHANGED <<report, requests, runs>>
    BY <1>5, ScoreHow DEF Score
  <2>2. CASE AuditPasses(State)
    <3> DEFINE a == [run |-> at, ok |-> TRUE, cost |-> CostOf(State), rollback |-> NoRun]
    <3>1. a \in AttemptReport /\ CaseEnds(a)
      BY <1>5, <2>2, ScoreHow
    <3>2. a.run = at /\ a.cost = CostOf(State)
      OBVIOUS
    <3>3. ModeOf(at) = "api" => CostOf(State) \in K..requests[at]
      <4>1. /\ LedgerOf(at) /\ State = runs[at]
            /\ InHand(at, pc = "filed") \in {0, 1}
            /\ InHand(at, call.phase = "answered") \in {0, 1}
        BY <2>1 DEF Books, Ledger, State, InHand
      <4>2. Len(runs[at].answers) = K
        BY <1>5, <4>1, ScoreHow DEF Sound, Answered
      <4>3. runs[at].receipts \in Nat /\ requests[at] \in Nat
        BY <2>1, CountersAreNumbers
      <4>4. ModeOf(at) = "api" => K <= runs[at].receipts /\ runs[at].receipts <= requests[at]
        BY <4>1, <4>2, <4>3, KAssumption DEF LedgerOf
      <4> QED
        BY <4>1, <4>3, <4>4, KAssumption DEF CostOf, ModeOf, Case
    <3> HIDE DEF a
    <3>4. attempts' = Append(attempts, a)
      BY <2>1, <3>1, CaseEndsHow DEF PInv
    <3>5. Priced(requests', Append(attempts, a))
      BY <1>1, <2>1, <3>2, <3>3, PricedGrows
    <3> QED
      BY <1>1, <2>1, <3>4, <3>5 DEF Books
  <2>3. CASE ~ AuditPasses(State)
    BY <1>4, <1>5, <2>1, <2>3, ScoreHow
  <2> QED
    BY <2>2, <2>3
<1>6. CASE WriteReport
  <2>1. report'.attempts = attempts /\ attempts' = <<>>
    BY <1>6 DEF WriteReport
  <2> QED
    BY <1>1, <1>2, <2>1 DEF Books
<1>7. CASE Crash
  <2>1. report'.attempts \in {report.attempts, <<>>} /\ attempts' = <<>>
    BY <1>7, TornReportIs DEF Crash
  <2> QED
    BY <1>1, <1>2, <2>1 DEF Books
<1>8. CASE Render
  <2>1. at \in RunIds /\ responses \in Nat /\ UNCHANGED report
    BY <1>8, KAssumption DEF PInv, TypeOK, Render
  <2>2. attempts' = attempts \/ TryFails(responses)
    BY <1>8 DEF Render, Goto
  <2> QED
    BY <1>3, <1>4, <2>1, <2>2
<1>9. CASE ValidateBlocks \/ ProviderRaises
  <2>1. at \in RunIds /\ responses \in Nat /\ 0 \in Nat /\ UNCHANGED report
    BY <1>9, KAssumption DEF PInv, TypeOK, ValidateBlocks, ProviderRaises
  <2>2. TryFails(responses) \/ TryFails(0)
    BY <1>9 DEF ValidateBlocks, ProviderRaises
  <2> QED
    BY <1>4, <2>1, <2>2
<1>10. CASE \/ Start \/ RunCompletes \/ ExportPacket \/ Prompt \/ FileResponse
            \/ AssembleAgain \/ EditTemplate \/ UNCHANGED vars
            \/ (\E outcome \in Provider!Outcomes : SendRequest(outcome))
            \/ (\E answer \in Answers : SaveAnswer(answer) \/ ImportAnswer(answer))
  <2>1. UNCHANGED <<report, attempts>>
    BY <1>10 DEF Start, RunCompletes, ExportPacket, Prompt, FileResponse, AssembleAgain,
                 EditTemplate, vars, SendRequest, SaveAnswer, ImportAnswer, Goto
  <2> QED
    BY <1>3, <2>1
<1> QED
  BY <1>5, <1>6, <1>7, <1>8, <1>9, <1>10 DEF Next, Work

LEMMA BooksInit == Init => Books
<1> SUFFICES ASSUME Init PROVE Books
  OBVIOUS
<1>1. report.attempts = <<>> /\ attempts = <<>>
  BY DEF Init, NoReport, Unwritten
<1>2. Priced(requests, <<>>)
  BY DEF Priced
<1>3. ASSUME NEW r \in RunIds PROVE LedgerOf(r)
  <2>1. /\ requests[r] = 0 /\ lost[r] = 0 /\ runs[r] = NewRun
        /\ NewRun.answers = <<>> /\ NewRun.failures = <<>> /\ NewRun.receipts = 0
    BY <1>3 DEF Init, NewRun
  <2>2. Sent(r) = 0
    BY DEF Init, Sent
  <2>3. InHand(r, pc = "filed") = 0 /\ InHand(r, call.phase = "answered") = 0
    BY DEF Init, InHand, Provider!Init, Provider!Idle
  <2>4. Ended(r) = 0
    BY <2>1 DEF Ended
  <2>5. (MaxRetries + 1) * 0 = 0
    BY MaxRetriesAssumption
  <2> QED
    BY <2>1, <2>2, <2>3, <2>4, <2>5 DEF LedgerOf
<1> QED
  BY <1>1, <1>2, <1>3 DEF Books, Ledger

(* Every request belongs to an answer, a recorded failure, a call that died *)
(* with its process or the call in progress, none of which sent more than   *)
(* one and its retries; and a successful API run is billed for all its      *)
(* answers and for no more than was sent, however often it was resumed      *)
(* (_send_request, load_and_summarize).                                     *)
THEOREM AccountsAlwaysBalance == Spec => []AccountsBalance
<1>1. PInv /\ Books => AccountsBalance
  <2> SUFFICES ASSUME PInv, Books PROVE AccountsBalance
    OBVIOUS
  <2>1. ASSUME NEW r \in RunIds
        PROVE  requests[r] <= (MaxRetries + 1)
                 * (Len(runs[r].answers) + Len(runs[r].failures) + lost[r]
                      + IF at = r /\ pc \in {"call", "filed"} THEN 1 ELSE 0)
    <3>1. /\ requests[r] <= (MaxRetries + 1) * Ended(r) + Sent(r)
          /\ requests[r] \in Nat /\ Ended(r) \in Nat /\ Sent(r) \in Nat
          /\ Sent(r) <= MaxRetries + 1 /\ (MaxRetries + 1) * Ended(r) \in Nat
      BY CountersAreNumbers, MaxRetriesAssumption DEF Books, Ledger, LedgerOf
    <3> DEFINE open == IF at = r /\ pc \in {"call", "filed"} THEN 1 ELSE 0
    <3>2. CASE at = r /\ pc \in {"call", "filed"}
      <4>1. open = 1
        BY <3>2
      <4>2. requests[r] <= (MaxRetries + 1) * (Ended(r) + 1)
        BY <3>1, OneMoreCall
      <4> QED
        BY <4>1, <4>2 DEF Ended
    <3>3. CASE ~ (at = r /\ pc \in {"call", "filed"})
      <4>1. open = 0 /\ Sent(r) = 0
        BY <3>3 DEF Sent
      <4>2. requests[r] <= (MaxRetries + 1) * (Ended(r) + 0)
        BY <3>1, <4>1
      <4> QED
        BY <4>1, <4>2 DEF Ended
    <3> QED
      BY <3>2, <3>3
  <2> QED
    BY <2>1 DEF AccountsBalance, Books, Priced
<1>2. PInv /\ Books /\ [Next]_vars => (PInv /\ Books)'
  BY PlacesStep, BooksStep
<1> QED
  BY <1>1, <1>2, PlacesInit, BooksInit, PTL DEF Spec
-----------------------------------------------------------------------------
(* The release gate.  A list has one attempt for each case that is over.   *)

Named(list) == \A i \in DOMAIN list : list[i].run[1] = i

Listing ==
  /\ Named(attempts) /\ Named(report.attempts)
  /\ pc \notin {"idle", "report"} => Len(attempts) = at[1] - 1
  /\ pc = "report" => Len(attempts) = Len(Cases)
  /\ pc = "idle" => attempts = <<>>
  /\ report.status = "written" => Len(report.attempts) = Len(Cases)

LEMMA ListingEnds ==
  ASSUME PInv, Listing, pc \notin {"idle", "report"}, NEW a \in AttemptReport,
         a.run = at, CaseEnds(a), UNCHANGED report
  PROVE  Listing'
<1>1. at \in RunIds /\ at[1] \in CaseNos /\ CaseNos = 1..Len(Cases) /\ Len(Cases) \in Nat
  BY RunIdFacts DEF PInv, TypeOK
<1>2. attempts \in Seq(AttemptReport) /\ Len(attempts) = at[1] - 1 /\ Named(attempts)
  BY DEF PInv, TypeOK, Listing
<1>3. attempts' = Append(attempts, a)
  BY DEF CaseEnds
<1>4. Len(attempts') = at[1] /\ Named(attempts')
  BY <1>1, <1>2, <1>3 DEF Named
<1>5. CASE at[1] < Len(Cases)
  <2>1. pc' = "run" /\ at' = <<at[1] + 1, 1>>
    BY <1>5 DEF CaseEnds
  <2>2. at'[1] - 1 = at[1]
    BY <1>1, <2>1
  <2> QED
    BY <1>4, <2>1, <2>2 DEF Listing
<1>6. CASE ~ (at[1] < Len(Cases))
  <2>1. pc' = "report" /\ Len(attempts') = Len(Cases)
    BY <1>1, <1>4, <1>6 DEF CaseEnds
  <2> QED
    BY <1>4, <2>1 DEF Listing
<1> QED
  BY <1>5, <1>6

LEMMA ListingFails ==
  ASSUME PInv, Listing, pc \notin {"idle", "report"}, NEW cost \in Nat, TryFails(cost),
         UNCHANGED report
  PROVE  Listing'
<1>1. at \in RunIds /\ at[1] \in CaseNos
  BY RunIdFacts DEF PInv, TypeOK
<1>2. CASE at[2] < Case.tries
  <2>1. pc' = "run" /\ at' = <<at[1], at[2] + 1>> /\ UNCHANGED attempts
    BY <1>2 DEF TryFails
  <2>2. at'[1] = at[1]
    BY <2>1
  <2> QED
    BY <2>1, <2>2 DEF Listing
<1>3. CASE ~ (at[2] < Case.tries)
  <2> DEFINE a == [run |-> at, ok |-> FALSE, cost |-> cost,
                   rollback |-> IF Case.rollback THEN previous[at[1]] ELSE NoRun]
  <2>1. CaseEnds(a)
    BY <1>3 DEF TryFails
  <2>2. a \in AttemptReport /\ a.run = at
    BY <1>1 DEF PInv, TypeOK, AttemptReport
  <2> HIDE DEF a
  <2> QED
    BY <2>1, <2>2, ListingEnds
<1> QED
  BY <1>2, <1>3

LEMMA ListingInit == Init => Listing
BY DEF Init, Listing, Named, NoReport, Unwritten

LEMMA ListingStep == PInv /\ Listing /\ [Next]_vars => Listing'
<1> SUFFICES ASSUME PInv, Listing, [Next]_vars PROVE Listing'
  OBVIOUS
<1>1. CASE Start
  <2>1. CASE report.status = "torn"
    BY <1>1, <2>1 DEF Start, Listing
  <2>2. CASE report.status # "torn"
    <3>1. /\ pc = "idle" /\ pc' = "run" /\ at' = <<1, 1>> /\ UNCHANGED <<report, attempts>>
      BY <1>1, <2>2 DEF Start
    <3>2. at'[1] - 1 = 0 /\ Len(attempts) = 0
      BY <3>1 DEF Listing
    <3> QED
      BY <3>1, <3>2 DEF Listing
  <2> QED
    BY <2>1, <2>2
<1>2. CASE Score
  <2>1. pc = "score" /\ UNCHANGED report
    BY <1>2 DEF Score
  <2>2. CASE AuditPasses(State)
    <3> DEFINE a == [run |-> at, ok |-> TRUE, cost |-> CostOf(State), rollback |-> NoRun]
    <3>1. a \in AttemptReport /\ CaseEnds(a) /\ a.run = at
      BY <1>2, <2>2, ScoreHow
    <3> HIDE DEF a
    <3> QED
      BY <2>1, <3>1, ListingEnds
  <2>3. CASE ~ AuditPasses(State)
    BY <1>2, <2>1, <2>3, ScoreHow, ListingFails
  <2> QED
    BY <2>2, <2>3
<1>3. CASE WriteReport
  <2>1. /\ pc = "report" /\ pc' = "idle" /\ attempts' = <<>>
        /\ report'.attempts = attempts /\ Len(attempts) = Len(Cases)
    BY <1>3 DEF WriteReport, Listing
  <2> QED
    BY <2>1 DEF Listing, Named
<1>4. CASE Crash
  <2>1. /\ pc' = "idle" /\ attempts' = <<>> /\ report' \in {report, TornReport}
    BY <1>4 DEF Crash
  <2> QED
    BY <2>1, TornReportIs DEF Listing, Named
<1>5. CASE Render
  <2>1. pc = "render" /\ responses \in Nat /\ UNCHANGED report
    BY <1>5, KAssumption DEF Render, PInv, TypeOK
  <2>2. TryFails(responses) \/ (pc' = "score" /\ UNCHANGED <<at, attempts>>)
    BY <1>5 DEF Render, Goto
  <2> QED
    BY <2>1, <2>2, ListingFails DEF Listing
<1>6. CASE ValidateBlocks \/ ProviderRaises
  <2>1. /\ pc \in {"run", "call"} /\ responses \in Nat /\ 0 \in Nat /\ UNCHANGED report
        /\ TryFails(responses) \/ TryFails(0)
    BY <1>6, KAssumption DEF ValidateBlocks, ProviderRaises, PInv, TypeOK
  <2> QED
    BY <2>1, ListingFails
<1>7. CASE \/ RunCompletes \/ ExportPacket \/ Prompt \/ FileResponse \/ AssembleAgain
           \/ (\E outcome \in Provider!Outcomes : SendRequest(outcome))
           \/ (\E answer \in Answers : SaveAnswer(answer) \/ ImportAnswer(answer))
  <2>1. /\ pc \notin {"idle", "report"} /\ pc' \notin {"idle", "report"}
        /\ UNCHANGED <<report, attempts, at>>
    <3>1. CASE \E outcome \in Provider!Outcomes : SendRequest(outcome)
      BY <3>1, RequestHow DEF SendRequest
    <3> QED
      BY <1>7, <3>1 DEF RunCompletes, ExportPacket, Prompt, FileResponse, AssembleAgain,
                        SaveAnswer, ImportAnswer, Goto
  <2> QED
    BY <2>1 DEF Listing
<1>8. CASE EditTemplate \/ UNCHANGED vars
  <2>1. UNCHANGED <<report, attempts, at, pc>>
    BY <1>8 DEF EditTemplate, vars
  <2> QED
    BY <2>1 DEF Listing
<1> QED
  BY <1>1, <1>2, <1>3, <1>4, <1>5, <1>6, <1>7, <1>8 DEF Next, Work

-----------------------------------------------------------------------------
(* What the gate says of the attempts when the report is written.          *)

Agreed(R, list) ==
  /\ \A i \in DOMAIN list : list[i].ok
  /\ \A i, j \in DOMAIN list : R[list[i].run].answers = R[list[j].run].answers

GateInv ==
  report.status = "written" /\ report.gate => Agreed(runs, report.attempts)

(* A succeeded run is the attempt of its case.                             *)
LEMMA SucceededRuns ==
  ASSUME NEW list \in Seq(AttemptReport), Named(list), Len(list) = Len(Cases)
  PROVE  /\ SucceededIn(list) \subseteq RunIds
         /\ \A r \in SucceededIn(list) : /\ r[1] \in CaseNos /\ list[r[1]].ok
                                         /\ r = list[r[1]].run
         /\ \A c \in CaseNos : list[c].ok => list[c].run \in SucceededIn(list)
         /\ DOMAIN list = CaseNos
         /\ \A c \in CaseNos : list[c].run[1] = c
<1>1. DOMAIN list = CaseNos
  BY RunIdFacts
<1> QED
  BY <1>1, EntryFields DEF SucceededIn, Named

(* Groups of one run, and of two.                                          *)
LEMMA OnlyOne ==
  ASSUME NEW S, NEW r \in S, \A q \in S : q = r, r[1] \in Nat
  PROVE  LastOf(S) = r /\ FirstOf(S) = r
<1>1. S = {r}
  OBVIOUS
<1>2. LastOf(S) \in S /\ FirstOf(S) \in S
  <2>1. (\A q \in S : q[1] <= r[1]) /\ (\A q \in S : r[1] <= q[1])
    OBVIOUS
  <2> QED
    BY <2>1 DEF LastOf, FirstOf
<1> QED
  BY <1>2

LEMMA TwoAtLeast ==
  ASSUME NEW S, NEW u, NEW v, S \subseteq {u, v}, Cardinality(S) >= 2
  PROVE  S = {u, v} /\ u # v
<1>1. CASE \E w : S \subseteq {w}
  <2>1. PICK w : S \subseteq {w}
    BY <1>1
  <2>2. IsFiniteSet({w}) /\ Cardinality({w}) = 1
    BY FS_Singleton
  <2>3. Cardinality(S) <= 1 /\ IsFiniteSet(S)
    BY <2>1, <2>2, FS_Subset
  <2>4. Cardinality(S) \in Nat
    BY <2>3, FS_CardinalityType
  <2> QED
    BY <2>3, <2>4
<1>2. CASE ~ \E w : S \subseteq {w}
  BY <1>2
<1> QED
  BY <1>1, <1>2

LEMMA FirstOfTwo ==
  ASSUME NEW u, NEW v, u # v, u[1] \in Nat, v[1] \in Nat
  PROVE  LET f == FirstOf({u, v})
             g == FirstOf({u, v} \ {f})
         IN {f, g} = {u, v}
<1> DEFINE f == FirstOf({u, v})
           g == FirstOf({u, v} \ {f})
<1>1. \E r \in {u, v} : \A q \in {u, v} : r[1] <= q[1]
  OBVIOUS
<1>2. f \in {u, v}
  BY <1>1 DEF FirstOf
<1>3. \E w \in {u, v} : w # f /\ {u, v} \ {f} = {w}
  <2> HIDE DEF f
  <2> QED
    BY <1>2
<1>4. PICK w \in {u, v} : w # f /\ {u, v} \ {f} = {w}
  BY <1>3
<1>5. FirstOf({w}) = w
  <2>1. w[1] \in Nat /\ w \in {w} /\ \A q \in {w} : q = w
    OBVIOUS
  <2> QED
    BY <2>1, OnlyOne
<1>6. g = w
  BY <1>4, <1>5
<1>7. {f, g} = {u, v}
  <2> HIDE DEF f, g
  <2> QED
    BY <1>2, <1>4, <1>6
<1> QED
  BY <1>7

(* One attempt per case, in the order of the dataset.                      *)
Full(list) == list \in Seq(AttemptReport) /\ Named(list) /\ Len(list) = Len(Cases)

Compared(a, m, x, y) ==
  /\ Cases[a].mode = "api" /\ Cases[m].mode = "manual" /\ x # y
  /\ Cases[a].compare = Cases[m].compare /\ Cases[a].compare # "none"
  /\ Cases[x].replay = Cases[y].replay /\ Cases[x].replay # "none"
  /\ \A c \in CaseNos : /\ Cases[c].compare # "none" => c \in {a, m}
                        /\ Cases[c].replay # "none" => c \in {x, y}
  /\ CaseNos = {a, m, x, y} /\ {a, m} \cap {x, y} # {}

ModeGroup(list, g, mode) ==
  {r \in SucceededIn(list) : Cases[r[1]].compare = g /\ ModeOf(r) = mode}
ModeGroups(list) ==
  {h \in {Cases[c].compare : c \in CaseNos} \ {"none"} :
     \A mode \in {"api", "manual"} : ModeGroup(list, h, mode) # {}}

LEMMA ModePairsAre ==
  ASSUME NEW list
  PROVE  ModePairs(list) = {<<LastOf(ModeGroup(list, g, "api")),
                              LastOf(ModeGroup(list, g, "manual"))>> : g \in ModeGroups(list)}
BY DEF ModePairs, ModeGroup, ModeGroups

LEMMA TheModePair ==
  ASSUME NEW a \in CaseNos, NEW m \in CaseNos, NEW x \in CaseNos, NEW y \in CaseNos,
         Compared(a, m, x, y), NEW list, Full(list)
  PROVE  /\ ModePairs(list) # {} => list[a].ok /\ list[m].ok
         /\ list[a].ok /\ list[m].ok => ModePairs(list) = {<<list[a].run, list[m].run>>}
<1> DEFINE g == Cases[a].compare
           p == <<list[a].run, list[m].run>>
<1>1. /\ \A r \in SucceededIn(list) : /\ r[1] \in CaseNos /\ list[r[1]].ok
                                      /\ r = list[r[1]].run
      /\ \A c \in CaseNos : list[c].ok => list[c].run \in SucceededIn(list)
      /\ \A c \in CaseNos : list[c].run[1] = c
  BY SucceededRuns DEF Full
<1>2. /\ Cases[a].mode = "api" /\ Cases[m].mode = "manual" /\ a # m
      /\ Cases[m].compare = g /\ g # "none"
      /\ \A c \in CaseNos : Cases[c].compare # "none" => c \in {a, m}
  BY DEF Compared
<1>3. ModeGroups(list) \subseteq {g}
  BY <1>2 DEF ModeGroups
<1>4. /\ \A r \in ModeGroup(list, g, "api") : r = list[a].run /\ list[a].ok
      /\ \A r \in ModeGroup(list, g, "manual") : r = list[m].run /\ list[m].ok
  BY <1>1, <1>2 DEF ModeGroup, ModeOf
<1>5. ASSUME ModePairs(list) # {}
      PROVE  list[a].ok /\ list[m].ok
  <2>1. g \in ModeGroups(list)
    BY <1>3, <1>5, ModePairsAre
  <2>2. ModeGroup(list, g, "api") # {} /\ ModeGroup(list, g, "manual") # {}
    BY <2>1 DEF ModeGroups
  <2> QED
    BY <1>4, <2>2
<1>6. ASSUME list[a].ok, list[m].ok
      PROVE  ModePairs(list) = {p}
  <2>1. /\ list[a].run \in ModeGroup(list, g, "api")
        /\ list[m].run \in ModeGroup(list, g, "manual")
    BY <1>1, <1>2, <1>6 DEF ModeGroup, ModeOf
  <2>2. ModeGroups(list) = {g}
    BY <1>2, <1>3, <2>1 DEF ModeGroups
  <2>3. list[a].run[1] \in Nat /\ list[m].run[1] \in Nat
    BY <1>1, RunIdFacts
  <2>4. /\ LastOf(ModeGroup(list, g, "api")) = list[a].run
        /\ LastOf(ModeGroup(list, g, "manual")) = list[m].run
    BY <1>4, <2>1, <2>3, OnlyOne
  <2> QED
    BY <2>2, <2>4, ModePairsAre
<1> QED
  BY <1>5, <1>6

ReplayGroup(list, g) == {r \in SucceededIn(list) : Cases[r[1]].replay = g}
ReplayGroups(list) ==
  {h \in {Cases[c].replay : c \in CaseNos} \ {"none"} :
     Cardinality(ReplayGroup(list, h)) >= 2}
FirstTwo(S) == <<FirstOf(S), FirstOf(S \ {FirstOf(S)})>>

LEMMA ReplayPairsAre ==
  ASSUME NEW list
  PROVE  ReplayPairs(list) = {FirstTwo(ReplayGroup(list, g)) : g \in ReplayGroups(list)}
BY DEF ReplayPairs, ReplayGroup, ReplayGroups, FirstTwo

LEMMA TheReplayPair ==
  ASSUME NEW a \in CaseNos, NEW m \in CaseNos, NEW x \in CaseNos, NEW y \in CaseNos,
         Compared(a, m, x, y), NEW list, Full(list)
  PROVE  /\ ReplayPairs(list) # {} => list[x].ok /\ list[y].ok
         /\ list[x].ok /\ list[y].ok =>
              \/ ReplayPairs(list) = {<<list[x].run, list[y].run>>}
              \/ ReplayPairs(list) = {<<list[y].run, list[x].run>>}
<1> DEFINE g == Cases[x].replay
           u == list[x].run
           v == list[y].run
           S == ReplayGroup(list, g)
<1>1. /\ \A r \in SucceededIn(list) : /\ r[1] \in CaseNos /\ list[r[1]].ok
                                      /\ r = list[r[1]].run
      /\ \A c \in CaseNos : list[c].ok => list[c].run \in SucceededIn(list)
      /\ \A c \in CaseNos : list[c].run[1] = c
  BY SucceededRuns DEF Full
<1>2. /\ x # y /\ Cases[y].replay = g /\ g # "none"
      /\ \A c \in CaseNos : Cases[c].replay # "none" => c \in {x, y}
  BY DEF Compared
<1>3. ReplayGroups(list) \subseteq {g}
  BY <1>2 DEF ReplayGroups
<1>4. S \subseteq {u, v}
  BY <1>1, <1>2 DEF ReplayGroup
<1>5. u # v /\ u[1] \in Nat /\ v[1] \in Nat
  BY <1>1, <1>2, RunIdFacts
<1>6. (u \in S => list[x].ok) /\ (v \in S => list[y].ok)
  BY <1>1 DEF ReplayGroup
<1>7. list[x].ok /\ list[y].ok => S = {u, v}
  BY <1>1, <1>2, <1>4 DEF ReplayGroup
<1> HIDE DEF u, v, S
<1>8. FirstTwo({u, v}) \in {<<u, v>>, <<v, u>>}
  <2>1. FirstTwo({u, v}) = <<FirstTwo({u, v})[1], FirstTwo({u, v})[2]>>
    BY DEF FirstTwo
  <2>2. {FirstTwo({u, v})[1], FirstTwo({u, v})[2]} = {u, v}
    BY <1>5, FirstOfTwo DEF FirstTwo
  <2>3. \/ FirstTwo({u, v})[1] = u /\ FirstTwo({u, v})[2] = v
        \/ FirstTwo({u, v})[1] = v /\ FirstTwo({u, v})[2] = u
    BY <1>5, <2>2
  <2> QED
    BY <2>1, <2>3
<1>9. g \in ReplayGroups(list) => S = {u, v}
  <2>1. g \in ReplayGroups(list) => Cardinality(S) >= 2
    BY DEF ReplayGroups, S
  <2> QED
    BY <1>4, <2>1, TwoAtLeast, SMTT(30)
<1>10. ReplayPairs(list) \subseteq {FirstTwo(S)} /\ (g \in ReplayGroups(list)
         => ReplayPairs(list) = {FirstTwo(S)})
  BY <1>3, ReplayPairsAre DEF S
<1>11. ReplayPairs(list) # {} => g \in ReplayGroups(list)
  BY <1>3, ReplayPairsAre
<1>12. S = {u, v} => g \in ReplayGroups(list)
  <2>1. Cardinality({u, v}) = 2
    <3>1. IsFiniteSet({u}) /\ Cardinality({u}) = 1 /\ v \notin {u}
      BY <1>5, FS_Singleton
    <3>2. Cardinality({u} \cup {v}) = Cardinality({u}) + 1
      BY <3>1, FS_AddElement
    <3>3. {u} \cup {v} = {u, v}
      OBVIOUS
    <3> QED
      BY <3>1, <3>2, <3>3
  <2> QED
    BY <1>2, <2>1 DEF ReplayGroups, S
<1>13. ReplayPairs(list) # {} => list[x].ok /\ list[y].ok
  BY <1>6, <1>9, <1>11
<1>14. list[x].ok /\ list[y].ok => ReplayPairs(list) \in {{<<u, v>>}, {<<v, u>>}}
  BY <1>7, <1>8, <1>10, <1>12
<1> QED
  BY <1>13, <1>14 DEF u, v

(* Every case is in a pair and the pairs share one, so what passes has     *)
(* succeeded everywhere with the same answers.                             *)
LEMMA GateMeansAgreed ==
  ASSUME CasesAreCompared, NEW list, Full(list), GatePasses(list)
  PROVE  Agreed(runs, list)
<1>1. PICK a \in CaseNos, m \in CaseNos, x \in CaseNos, y \in CaseNos :
        Compared(a, m, x, y)
  BY DEF CasesAreCompared, Compared
<1> DEFINE R(c) == runs[list[c].run].answers
<1>2. list[a].ok /\ list[m].ok /\ list[x].ok /\ list[y].ok
  BY <1>1, TheModePair, TheReplayPair DEF GatePasses
<1>3. R(a) = R(m)
  <2>1. <<list[a].run, list[m].run>> \in ModePairs(list)
    BY <1>1, <1>2, TheModePair
  <2> QED
    BY <2>1 DEF GatePasses, Equivalent, NormalizedBundle
<1>4. R(x) = R(y)
  <2>1. \/ <<list[x].run, list[y].run>> \in ReplayPairs(list)
        \/ <<list[y].run, list[x].run>> \in ReplayPairs(list)
    BY <1>1, <1>2, TheReplayPair
  <2> QED
    BY <2>1 DEF GatePasses, Equivalent, NormalizedBundle
<1>5. CaseNos = {a, m, x, y} /\ {a, m} \cap {x, y} # {}
  BY <1>1 DEF Compared
<1>6. DOMAIN list = CaseNos
  BY SucceededRuns DEF Full
<1>7. \A c, d \in CaseNos : R(c) = R(d)
  <2> HIDE DEF R
  <2> QED
    BY <1>3, <1>4, <1>5
<1> QED
  BY <1>2, <1>5, <1>6, <1>7 DEF Agreed

LEMMA AgreedStays ==
  ASSUME PInv, [Next]_vars, NEW list \in Seq(AttemptReport), Truthful(runs, list),
         Agreed(runs, list)
  PROVE  Agreed(runs', list)
<1>1. ASSUME NEW i \in DOMAIN list
      PROVE  list[i].ok /\ runs'[list[i].run].answers = runs[list[i].run].answers
  <2>1. list[i].ok /\ list[i].run \in RunIds
    BY EntryFields DEF Agreed
  <2>2. Sound(runs[list[i].run])
    BY <2>1 DEF Truthful, Certified
  <2> QED
    BY <2>1, <2>2, RunsKept DEF Kept
<1> QED
  BY <1>1 DEF Agreed

LEMMA ReportChanges ==
  ASSUME [Next]_vars
  PROVE  WriteReport \/ UNCHANGED report \/ report' = TornReport
<1>1. Crash => UNCHANGED report \/ report' = TornReport
  BY DEF Crash
<1> QED
  BY <1>1 DEF Next, Work, Start, ValidateBlocks, RunCompletes, ExportPacket, Prompt,
              SendRequest, FileResponse, ProviderRaises, SaveAnswer, ImportAnswer,
              AssembleAgain, Render, Score, EditTemplate, vars

LEMMA GateStep ==
  ASSUME CasesAreCompared, PInv, Truths, Listing, GateInv, [Next]_vars
  PROVE  GateInv'
<1>1. CASE WriteReport
  <2>1. /\ pc = "report" /\ UNCHANGED runs
        /\ report'.attempts = attempts /\ report'.gate = GatePasses(attempts)
    BY <1>1 DEF WriteReport
  <2>2. Full(attempts)
    BY <2>1 DEF Full, Listing, PInv, TypeOK
  <2>3. GatePasses(attempts) => Agreed(runs', attempts)
    BY <2>1, <2>2, GateMeansAgreed
  <2> QED
    BY <2>1, <2>3 DEF GateInv
<1>2. CASE UNCHANGED report
  <2>1. report.attempts \in Seq(AttemptReport) /\ Truthful(runs, report.attempts)
    BY DEF PInv, TypeOK, Truths
  <2> QED
    BY <1>2, <2>1, AgreedStays DEF GateInv
<1>3. CASE report' = TornReport
  BY <1>3, TornReportIs DEF GateInv
<1>4. WriteReport \/ UNCHANGED report \/ report' = TornReport
  BY ReportChanges
<1> QED
  BY <1>1, <1>2, <1>3, <1>4

-----------------------------------------------------------------------------
(* A benchmark nothing goes wrong in.  Its runs differ only in how far      *)
(* they are, and the number of assembly records follows from the number of  *)
(* benchmarks and from whether the case's turn is over in this one.         *)

AsUsual(s) ==
  /\ \A i \in DOMAIN s.answers : s.answers[i] = Usual
  /\ s.failures = <<>> /\ s.blocked = 0
  /\ s.prompts = {<<i, 1, 1>> : i \in 1..(Len(s.answers) + IF s.waiting THEN 1 ELSE 0)}
  /\ s.waiting => ~ Answered(s)

SmoothRun(r, s) == AsUsual(s) /\ (ModeOf(r) = "api" => ~ s.waiting)
SmoothRuns == \A r \in RunIds : SmoothRun(r, runs[r])

SmoothTries ==
  /\ template = 1 /\ call.phase # "raised" /\ report.status # "torn"
  /\ pc # "idle" => at[2] = 1 /\ benchmarks > 0
  /\ pc = "call" /\ Case.mode = "manual" => State.waiting
  /\ \A i \in DOMAIN attempts : attempts[i].ok /\ attempts[i].run[2] = 1

Passed(c) ==
  \/ pc \in {"idle", "report"} \/ c < at[1]
  \/ c = at[1] /\ pc \in {"render", "score"}
AssembledAfter(n) == IF n = 0 THEN 0 ELSE n + 1
AssembledNow(c) ==
  IF Passed(c) THEN AssembledAfter(benchmarks)
  ELSE IF c = at[1] /\ pc = "assemble" THEN benchmarks ELSE AssembledAfter(benchmarks - 1)
SmoothCounts == \A c \in CaseNos : runs[<<c, 1>>].assembled = AssembledNow(c)

QuietInv ==
  /\ disturbances = 0 => SmoothRuns /\ SmoothTries /\ SmoothCounts
  /\ report.status = "written" /\ report.quiet => report.gate

LEMMA FirstTries == \A c \in CaseNos : <<c, 1>> \in RunIds
<1>1. \A c \in CaseNos : 1 \in 1..Cases[c].tries
  BY CasesAssumption DEF CaseNos
<1> QED
  BY <1>1, RunIdFacts

LEMMA AtFirstTry ==
  ASSUME PInv, SmoothTries, pc # "idle"
  PROVE  /\ at \in RunIds /\ at = <<at[1], 1>> /\ at[1] \in CaseNos /\ State = runs[at]
         /\ State \in RunState /\ benchmarks \in Nat /\ benchmarks > 0
<1>1. at \in RunIds /\ at[2] = 1 /\ benchmarks > 0 /\ benchmarks \in Nat
  BY DEF PInv, TypeOK, SmoothTries
<1>2. at = <<at[1], at[2]>> /\ at[1] \in CaseNos
  BY <1>1, RunIdFacts
<1> QED
  BY <1>1, <1>2 DEF PInv, TypeOK, State

(* Runs: what a step does to the run in progress.                          *)
LEMMA OneSmoothRun ==
  ASSUME TypeOK, at \in RunIds, SmoothRuns, NEW s, SavedRun(s), SmoothRun(at, s)
  PROVE  SmoothRuns'
BY SavedRunIs DEF SmoothRuns

LEMMA PromptsGrow ==
  ASSUME NEW n \in Nat
  PROVE  {<<i, 1, 1>> : i \in 1..n} \cup {<<n + 1, 1, 1>>} = {<<i, 1, 1>> : i \in 1..(n + 1)}
<1>1. 1..(n + 1) = (1..n) \cup {n + 1}
  OBVIOUS
<1> QED
  BY <1>1

LEMMA UsualPrompt ==
  ASSUME NEW s \in RunState, AsUsual(s), ~ s.waiting, ~ Answered(s)
  PROVE  /\ Prompted(s, 1).prompts = {<<i, 1, 1>> : i \in 1..(Len(s.answers) + 1)}
         /\ Prompted(s, 1).blocked = s.blocked /\ Prompted(s, 1).waiting = s.waiting
<1>1. Due(s) = Len(s.answers) + 1 /\ Len(s.answers) \in Nat
  BY RunFields DEF Due
<1>2. Attempt(s) = 1
  <2>1. {j \in DOMAIN s.failures : s.failures[j] = Due(s)} = {}
    BY DEF AsUsual
  <2>2. Cardinality({}) = 0
    BY FS_EmptySet
  <2> QED
    BY <2>1, <2>2 DEF Attempt
<1>3. s.prompts = {<<i, 1, 1>> : i \in 1..Len(s.answers)}
  <2>1. Len(s.answers) + (IF s.waiting THEN 1 ELSE 0) = Len(s.answers)
    BY <1>1
  <2> QED
    BY <2>1 DEF AsUsual
<1>4. s.prompts \cup {<<Due(s), Attempt(s), 1>>}
        = {<<i, 1, 1>> : i \in 1..(Len(s.answers) + 1)}
  BY <1>1, <1>2, <1>3, PromptsGrow
<1> DEFINE p == s.prompts \cup {<<Due(s), Attempt(s), 1>>}
<1>5. Prompted(s, 1) = [s EXCEPT !.prompts = p]
  BY DEF Prompted
<1> HIDE DEF p
<1>6. /\ [s EXCEPT !.prompts = p].prompts = p
      /\ [s EXCEPT !.prompts = p].blocked = s.blocked
      /\ [s EXCEPT !.prompts = p].waiting = s.waiting
  BY DEF RunState
<1> QED
  BY <1>4, <1>5, <1>6 DEF p

LEMMA UsualAnswer ==
  ASSUME NEW s \in RunState, AsUsual(s), ~ Answered(s)
  PROVE  \A i \in DOMAIN Append(s.answers, Usual) : Append(s.answers, Usual)[i] = Usual
BY RunFields DEF AsUsual

Smooth == SmoothRuns /\ SmoothTries /\ SmoothCounts

(* A run saved without a new assembly record.                              *)
LEMMA CountsUntouched ==
  ASSUME TypeOK, at \in RunIds, NEW s, SavedRun(s), s.assembled = State.assembled
  PROVE  \A c \in CaseNos : runs'[<<c, 1>>].assembled = runs[<<c, 1>>].assembled
BY SavedRunIs, FirstTries DEF State

LEMMA CountsWhileAsking ==
  ASSUME SmoothCounts, UNCHANGED <<at, benchmarks>>, {pc, pc'} \subseteq {"run", "call", "filed"},
         \A c \in CaseNos : runs'[<<c, 1>>].assembled = runs[<<c, 1>>].assembled
  PROVE  SmoothCounts'
<1>1. ASSUME NEW c \in CaseNos
      PROVE  AssembledNow(c)' = AssembledNow(c)
  BY DEF AssembledNow, Passed
<1> QED
  BY <1>1 DEF SmoothCounts

LEMMA SmoothStart == PInv /\ Listing /\ Smooth /\ Start => Smooth'
<1> SUFFICES ASSUME PInv, Listing, Smooth, Start PROVE Smooth'
  OBVIOUS
<1>1. /\ pc = "idle" /\ pc' = "run" /\ at' = <<1, 1>> /\ benchmarks' = benchmarks + 1
      /\ UNCHANGED <<runs, report, attempts, template, call>>
  BY DEF Start, Smooth, SmoothTries
<1>2. benchmarks \in Nat
  BY DEF PInv, TypeOK
<1>3. SmoothRuns'
  BY <1>1 DEF Smooth, SmoothRuns, SmoothRun
<1>4. SmoothTries'
  BY <1>1, <1>2 DEF Smooth, SmoothTries
<1>5. ASSUME NEW c \in CaseNos
      PROVE  AssembledNow(c)' = AssembledNow(c)
  <2>1. AssembledNow(c) = AssembledAfter(benchmarks)
    BY <1>1 DEF AssembledNow, Passed
  <2>2. c \in Nat /\ c >= 1
    BY RunIdFacts
  <2>3. ~ Passed(c)'
    BY <1>1, <2>2 DEF Passed
  <2>4. AssembledNow(c)' = AssembledAfter(benchmarks' - 1) /\ benchmarks' - 1 = benchmarks
    BY <1>1, <1>2, <2>3 DEF AssembledNow
  <2> QED
    BY <2>1, <2>4
<1>6. SmoothCounts'
  BY <1>1, <1>5 DEF Smooth, SmoothCounts
<1> QED
  BY <1>3, <1>4, <1>6 DEF Smooth

LEMMA NeverBlocked ==
  ASSUME NEW s \in RunState, AsUsual(s)
  PROVE  ~ Blocked(s)
BY DEF AsUsual, Blocked, Usual

LEMMA SmoothCompletes == PInv /\ Smooth /\ RunCompletes => Smooth'
<1> SUFFICES ASSUME PInv, Smooth, RunCompletes PROVE Smooth'
  OBVIOUS
<1> DEFINE s == [State EXCEPT !.assembled = IF @ = 0 THEN 1 ELSE @]
<1>1. /\ pc = "run" /\ pc' = "assemble" /\ SavedRun(s)
      /\ UNCHANGED <<at, attempts, report, template, call, benchmarks>>
  BY DEF RunCompletes, Goto
<1>2. /\ at \in RunIds /\ at = <<at[1], 1>> /\ at[1] \in CaseNos /\ State = runs[at]
      /\ State \in RunState /\ benchmarks \in Nat /\ benchmarks > 0
  BY <1>1, AtFirstTry DEF Smooth
<1>3. /\ s.answers = State.answers /\ s.failures = State.failures
      /\ s.blocked = State.blocked /\ s.prompts = State.prompts
      /\ s.waiting = State.waiting
      /\ s.assembled = IF State.assembled = 0 THEN 1 ELSE State.assembled
  BY <1>2 DEF RunState
<1> HIDE DEF s
<1>4. SmoothRuns'
  <2>1. SmoothRun(at, s)
    BY <1>2, <1>3 DEF Smooth, SmoothRuns, SmoothRun, AsUsual, Answered
  <2> QED
    BY <1>1, <1>2, <2>1, OneSmoothRun DEF PInv, Smooth
<1>5. SmoothTries'
  BY <1>1 DEF Smooth, SmoothTries
<1>6. State.assembled = AssembledAfter(benchmarks - 1)
  <2>1. State.assembled = AssembledNow(at[1])
    BY <1>2 DEF Smooth, SmoothCounts
  <2>2. at[1] \in Nat
    BY <1>2, RunIdFacts
  <2>3. AssembledNow(at[1]) = AssembledAfter(benchmarks - 1)
    BY <1>1, <2>2 DEF AssembledNow, Passed
  <2> QED
    BY <2>1, <2>3
<1>7. s.assembled = benchmarks
  BY <1>2, <1>3, <1>6 DEF AssembledAfter
<1>8. ASSUME NEW c \in CaseNos
      PROVE  runs'[<<c, 1>>].assembled = AssembledNow(c)'
  <2>1. c \in Nat /\ at[1] \in Nat
    BY <1>2, RunIdFacts
  <2>2. CASE c = at[1]
    <3>1. AssembledNow(c)' = benchmarks
      BY <1>1, <2>1, <2>2 DEF AssembledNow, Passed
    <3>2. runs'[<<c, 1>>] = s
      BY <1>1, <1>2, <2>2, SavedRunIs DEF PInv
    <3> QED
      BY <1>7, <3>1, <3>2
  <2>3. CASE c # at[1]
    <3>1. AssembledNow(c)' = AssembledNow(c)
      BY <1>1, <2>3 DEF AssembledNow, Passed
    <3>2. <<c, 1>> \in RunIds \ {at}
      BY <1>2, <2>3, FirstTries
    <3>3. runs'[<<c, 1>>] = runs[<<c, 1>>]
      BY <1>1, <1>2, <3>2, SavedRunIs DEF PInv
    <3> QED
      BY <3>1, <3>3 DEF Smooth, SmoothCounts
  <2> QED
    BY <2>2, <2>3
<1> QED
  BY <1>4, <1>5, <1>8 DEF Smooth, SmoothCounts

LEMMA SmoothAssemble == PInv /\ Smooth /\ AssembleAgain => Smooth'
<1> SUFFICES ASSUME PInv, Smooth, AssembleAgain PROVE Smooth'
  OBVIOUS
<1> DEFINE s == [State EXCEPT !.assembled = @ + 1]
<1>1. /\ pc = "assemble" /\ pc' = "render" /\ SavedRun(s)
      /\ UNCHANGED <<at, attempts, report, template, call, benchmarks>>
  BY DEF AssembleAgain, Goto
<1>2. /\ at \in RunIds /\ at = <<at[1], 1>> /\ at[1] \in CaseNos /\ State = runs[at]
      /\ State \in RunState /\ benchmarks \in Nat /\ benchmarks > 0
  BY <1>1, AtFirstTry DEF Smooth
<1>3. /\ s.answers = State.answers /\ s.failures = State.failures
      /\ s.blocked = State.blocked /\ s.prompts = State.prompts
      /\ s.waiting = State.waiting /\ s.assembled = State.assembled + 1
  BY <1>2 DEF RunState
<1> HIDE DEF s
<1>4. SmoothRuns'
  <2>1. SmoothRun(at, s)
    BY <1>2, <1>3 DEF Smooth, SmoothRuns, SmoothRun, AsUsual, Answered
  <2> QED
    BY <1>1, <1>2, <2>1, OneSmoothRun DEF PInv, Smooth
<1>5. SmoothTries'
  BY <1>1 DEF Smooth, SmoothTries
<1>6. State.assembled = benchmarks
  <2>1. State.assembled = AssembledNow(at[1])
    BY <1>2 DEF Smooth, SmoothCounts
  <2>2. at[1] \in Nat
    BY <1>2, RunIdFacts
  <2>3. AssembledNow(at[1]) = benchmarks
    BY <1>1, <2>2 DEF AssembledNow, Passed
  <2> QED
    BY <2>1, <2>3
<1>7. s.assembled = AssembledAfter(benchmarks)
  BY <1>2, <1>3, <1>6 DEF AssembledAfter
<1>8. ASSUME NEW c \in CaseNos
      PROVE  runs'[<<c, 1>>].assembled = AssembledNow(c)'
  <2>1. c \in Nat /\ at[1] \in Nat
    BY <1>2, RunIdFacts
  <2>2. CASE c = at[1]
    <3>1. AssembledNow(c)' = AssembledAfter(benchmarks)
      BY <1>1, <2>2 DEF AssembledNow, Passed
    <3>2. runs'[<<c, 1>>] = s
      BY <1>1, <1>2, <2>2, SavedRunIs DEF PInv
    <3> QED
      BY <1>7, <3>1, <3>2
  <2>3. CASE c # at[1]
    <3>1. AssembledNow(c)' = AssembledNow(c)
      BY <1>1, <2>3 DEF AssembledNow, Passed
    <3>2. <<c, 1>> \in RunIds \ {at}
      BY <1>2, <2>3, FirstTries
    <3>3. runs'[<<c, 1>>] = runs[<<c, 1>>]
      BY <1>1, <1>2, <3>2, SavedRunIs DEF PInv
    <3> QED
      BY <3>1, <3>3 DEF Smooth, SmoothCounts
  <2> QED
    BY <2>2, <2>3
<1> QED
  BY <1>4, <1>5, <1>8 DEF Smooth, SmoothCounts

(* Asking for the answers.                                                 *)
LEMMA SmoothExport == PInv /\ Smooth /\ ExportPacket => Smooth'
<1> SUFFICES ASSUME PInv, Smooth, ExportPacket PROVE Smooth'
  OBVIOUS
<1> DEFINE p == Prompted(State, 1)
           s == [p EXCEPT !.waiting = TRUE]
<1>1. /\ pc = "run" /\ pc' = "run" /\ SavedRun(s) /\ Case.mode = "manual"
      /\ ~ Answered(State) /\ ~ State.waiting
      /\ UNCHANGED <<at, attempts, report, template, call, benchmarks>>
  BY DEF ExportPacket, Smooth, SmoothTries
<1>2. /\ at \in RunIds /\ State = runs[at] /\ State \in RunState
  BY <1>1, AtFirstTry DEF Smooth
<1>3. AsUsual(State)
  BY <1>2 DEF Smooth, SmoothRuns, SmoothRun
<1>4. /\ p \in RunState /\ p.answers = State.answers /\ p.failures = State.failures
      /\ p.assembled = State.assembled /\ p.blocked = State.blocked
      /\ p.prompts = {<<i, 1, 1>> : i \in 1..(Len(State.answers) + 1)}
  BY <1>1, <1>2, <1>3, PromptedFields, UsualPrompt DEF Versions
<1>5. /\ s.answers = State.answers /\ s.failures = State.failures /\ s.waiting
      /\ s.assembled = State.assembled /\ s.blocked = State.blocked
      /\ s.prompts = {<<i, 1, 1>> : i \in 1..(Len(State.answers) + 1)}
  <2> HIDE DEF p
  <2>1. /\ s.answers = p.answers /\ s.failures = p.failures /\ s.waiting
        /\ s.assembled = p.assembled /\ s.blocked = p.blocked /\ s.prompts = p.prompts
    BY <1>4 DEF RunState
  <2> HIDE DEF s
  <2> QED
    BY <1>4, <2>1
<1> HIDE DEF s
<1>6. SmoothRuns'
  <2>1. AsUsual(s)
    <3>1. Len(s.answers) + (IF s.waiting THEN 1 ELSE 0) = Len(State.answers) + 1
      BY <1>5
    <3> QED
      BY <1>1, <1>3, <1>5, <3>1 DEF AsUsual, Answered
  <2>2. SmoothRun(at, s)
    BY <1>1, <2>1 DEF SmoothRun, ModeOf, Case
  <2> QED
    BY <1>1, <1>2, <2>2, OneSmoothRun DEF PInv, Smooth
<1>7. SmoothTries'
  BY <1>1 DEF Smooth, SmoothTries
<1>8. SmoothCounts'
  BY <1>1, <1>2, <1>5, CountsUntouched, CountsWhileAsking DEF PInv, Smooth
<1> QED
  BY <1>6, <1>7, <1>8 DEF Smooth

LEMMA SmoothPrompt == PInv /\ Smooth /\ Prompt => Smooth'
<1> SUFFICES ASSUME PInv, Smooth, Prompt PROVE Smooth'
  OBVIOUS
<1>1. /\ pc = "run" /\ pc' = "call" /\ call'.phase = "sending"
      /\ Case.mode = "manual" => State.waiting
      /\ UNCHANGED <<runs, at, attempts, report, template, benchmarks>>
  BY DEF Prompt, Goto, Provider!Invoke
<1>2. SmoothRuns' /\ SmoothTries'
  BY <1>1 DEF Smooth, SmoothRuns, SmoothRun, SmoothTries, Case, State
<1>3. SmoothCounts'
  BY <1>1, CountsWhileAsking DEF Smooth
<1> QED
  BY <1>2, <1>3 DEF Smooth

LEMMA UsuallyQuiet ==
  ASSUME TypeOK, NEW usual \in BOOLEAN, Usually(usual), disturbances = 0, disturbances' = 0
  PROVE  usual
BY DEF Usually, Disturb

LEMMA SmoothRequest ==
  ASSUME PInv, Smooth, NEW outcome \in Provider!Outcomes, SendRequest(outcome),
         disturbances = 0, disturbances' = 0
  PROVE  Smooth'
<1>1. outcome = "usable"
  BY UsuallyQuiet DEF SendRequest, PInv
<1>2. /\ pc = "call" /\ pc' = "call" /\ call.phase = "sending"
      /\ UNCHANGED <<runs, at, attempts, report, template, benchmarks>>
  BY RequestHow DEF SendRequest
<1>3. call'.phase # "raised"
  <2>1. call' = [call EXCEPT !.phase = "answered"]
    BY <1>1 DEF SendRequest, Provider!Request, Provider!Retryable
  <2> QED
    BY <2>1 DEF PInv, TypeOK, Provider!Calls
<1>4. SmoothRuns' /\ SmoothTries'
  BY <1>2, <1>3 DEF Smooth, SmoothRuns, SmoothRun, SmoothTries, Case, State
<1>5. SmoothCounts'
  BY <1>2, CountsWhileAsking DEF Smooth
<1> QED
  BY <1>4, <1>5 DEF Smooth

LEMMA SmoothFile == PInv /\ Smooth /\ FileResponse => Smooth'
<1> SUFFICES ASSUME PInv, Smooth, FileResponse PROVE Smooth'
  OBVIOUS
<1> DEFINE s == [State EXCEPT !.receipts = @ + 1]
<1>1. /\ pc = "call" /\ pc' = "filed" /\ SavedRun(s) /\ call' = Provider!Idle
      /\ UNCHANGED <<at, attempts, report, template, benchmarks>>
  BY DEF FileResponse, Goto, Provider!Return
<1>2. /\ at \in RunIds /\ State = runs[at] /\ State \in RunState
  BY <1>1, AtFirstTry DEF Smooth
<1>3. /\ s.answers = State.answers /\ s.failures = State.failures
      /\ s.blocked = State.blocked /\ s.prompts = State.prompts
      /\ s.waiting = State.waiting /\ s.assembled = State.assembled
  BY <1>2 DEF RunState
<1> HIDE DEF s
<1>4. SmoothRuns'
  <2>1. SmoothRun(at, s)
    BY <1>2, <1>3 DEF Smooth, SmoothRuns, SmoothRun, AsUsual, Answered
  <2> QED
    BY <1>1, <1>2, <2>1, OneSmoothRun DEF PInv, Smooth
<1>5. SmoothTries'
  BY <1>1, IdleCall DEF Smooth, SmoothTries
<1>6. SmoothCounts'
  BY <1>1, <1>2, <1>3, CountsUntouched, CountsWhileAsking DEF PInv, Smooth
<1> QED
  BY <1>4, <1>5, <1>6 DEF Smooth

(* A run with one more answer, that does not wait.                         *)
LEMMA UsualRunAnswered ==
  ASSUME NEW s \in RunState, AsUsual(s), ~ Answered(s), NEW t,
         t.answers = Append(s.answers, Usual), t.failures = s.failures,
         t.blocked = s.blocked, ~ t.waiting,
         t.prompts = {<<i, 1, 1>> : i \in 1..(Len(s.answers) + 1)}
  PROVE  AsUsual(t)
<1>1. Len(t.answers) = Len(s.answers) + 1 /\ Len(s.answers) \in Nat
  BY RunFields
<1>2. Len(t.answers) + (IF t.waiting THEN 1 ELSE 0) = Len(s.answers) + 1
  BY <1>1
<1>3. \A i \in DOMAIN t.answers : t.answers[i] = Usual
  BY UsualAnswer
<1> QED
  BY <1>2, <1>3 DEF AsUsual

LEMMA SmoothSave ==
  ASSUME PInv, Smooth, NEW answer \in Answers, SaveAnswer(answer),
         disturbances = 0, disturbances' = 0
  PROVE  Smooth'
<1> DEFINE p == Prompted(State, 1)
           s == [p EXCEPT !.answers = Append(@, Usual)]
<1>1. answer = Usual
  BY UsuallyQuiet DEF SaveAnswer, PInv
<1>2. /\ pc = "filed" /\ pc' = "run" /\ SavedRun(s)
      /\ UNCHANGED <<at, attempts, report, template, call, benchmarks>>
  BY <1>1 DEF SaveAnswer, Goto, Smooth, SmoothTries
<1>3. /\ at \in RunIds /\ State = runs[at] /\ State \in RunState
  BY <1>2, AtFirstTry DEF Smooth
<1>4. Case.mode = "api" /\ ~ Answered(State)
  BY <1>2 DEF PInv, Positions
<1>5. AsUsual(State) /\ ~ State.waiting
  BY <1>3, <1>4 DEF Smooth, SmoothRuns, SmoothRun, ModeOf, Case
<1>6. /\ p \in RunState /\ p.answers = State.answers /\ p.failures = State.failures
      /\ p.assembled = State.assembled /\ p.blocked = State.blocked /\ ~ p.waiting
      /\ p.prompts = {<<i, 1, 1>> : i \in 1..(Len(State.answers) + 1)}
  BY <1>3, <1>4, <1>5, PromptedFields, UsualPrompt DEF Versions
<1>7. /\ s.answers = Append(State.answers, Usual) /\ s.failures = State.failures
      /\ s.assembled = State.assembled /\ s.blocked = State.blocked /\ ~ s.waiting
      /\ s.prompts = {<<i, 1, 1>> : i \in 1..(Len(State.answers) + 1)}
  <2> HIDE DEF p
  <2>1. /\ s.answers = Append(p.answers, Usual) /\ s.failures = p.failures
        /\ s.assembled = p.assembled /\ s.blocked = p.blocked
        /\ s.waiting = p.waiting /\ s.prompts = p.prompts
    BY <1>6 DEF RunState
  <2> HIDE DEF s
  <2> QED
    BY <1>6, <2>1
<1> HIDE DEF s
<1>8. SmoothRuns'
  <2>1. AsUsual(s)
    BY <1>3, <1>4, <1>5, <1>7, UsualRunAnswered
  <2>2. SmoothRun(at, s)
    BY <1>7, <2>1 DEF SmoothRun
  <2> QED
    BY <1>2, <1>3, <2>2, OneSmoothRun DEF PInv, Smooth
<1>9. SmoothTries'
  BY <1>2 DEF Smooth, SmoothTries
<1>10. SmoothCounts'
  BY <1>2, <1>3, <1>7, CountsUntouched, CountsWhileAsking DEF PInv, Smooth
<1> QED
  BY <1>8, <1>9, <1>10 DEF Smooth

LEMMA SmoothImport ==
  ASSUME PInv, Smooth, NEW answer \in Answers, ImportAnswer(answer),
         disturbances = 0, disturbances' = 0
  PROVE  Smooth'
<1> DEFINE s == [State EXCEPT !.answers = Append(@, Usual), !.waiting = FALSE]
<1>1. answer = Usual
  BY UsuallyQuiet DEF ImportAnswer, PInv
<1>2. /\ pc = "call" /\ pc' = "run" /\ SavedRun(s) /\ Case.mode = "manual"
      /\ call' = Provider!Idle
      /\ UNCHANGED <<at, attempts, report, template, benchmarks>>
  BY <1>1 DEF ImportAnswer, Provider!Return
<1>3. /\ at \in RunIds /\ State = runs[at] /\ State \in RunState
  BY <1>2, AtFirstTry DEF Smooth
<1>4. State.waiting /\ ~ Answered(State)
  BY <1>2 DEF PInv, Positions, Smooth, SmoothTries
<1>5. AsUsual(State)
  BY <1>3 DEF Smooth, SmoothRuns, SmoothRun
<1>6. /\ s.answers = Append(State.answers, Usual) /\ s.failures = State.failures
      /\ s.assembled = State.assembled /\ s.blocked = State.blocked
      /\ s.waiting = FALSE /\ s.prompts = State.prompts
  BY <1>3 DEF RunState
<1>7. State.prompts = {<<i, 1, 1>> : i \in 1..(Len(State.answers) + 1)}
  <2>1. Len(State.answers) + (IF State.waiting THEN 1 ELSE 0) = Len(State.answers) + 1
    BY <1>4
  <2> QED
    BY <1>5, <2>1 DEF AsUsual
<1> HIDE DEF s
<1>8. SmoothRuns'
  <2>1. AsUsual(s)
    BY <1>3, <1>4, <1>5, <1>6, <1>7, UsualRunAnswered
  <2>2. SmoothRun(at, s)
    BY <1>6, <2>1 DEF SmoothRun
  <2> QED
    BY <1>2, <1>3, <2>2, OneSmoothRun DEF PInv, Smooth
<1>9. SmoothTries'
  BY <1>2, IdleCall DEF Smooth, SmoothTries
<1>10. SmoothCounts'
  BY <1>2, <1>3, <1>6, CountsUntouched, CountsWhileAsking DEF PInv, Smooth
<1> QED
  BY <1>8, <1>9, <1>10 DEF Smooth

(* The end of a case and of the benchmark.                                 *)
LEMMA SmoothRender ==
  ASSUME PInv, Smooth, Render, disturbances = 0, disturbances' = 0
  PROVE  Smooth'
<1>1. PICK compiled \in CompileOutcomes :
        /\ IF AssertCompiled(compiled) THEN Goto("score") ELSE TryFails(responses)
        /\ Usually(AssertCompiled(compiled))
  BY DEF Render
<1>2. AssertCompiled(compiled)
  <2>1. AssertCompiled(compiled) \in BOOLEAN
    BY DEF AssertCompiled
  <2> QED
    BY <1>1, <2>1, UsuallyQuiet DEF PInv
<1>3. /\ pc = "render" /\ pc' = "score"
      /\ UNCHANGED <<runs, at, attempts, report, template, call, benchmarks>>
  BY <1>1, <1>2 DEF Render, Goto
<1>4. SmoothRuns' /\ SmoothTries'
  BY <1>3 DEF Smooth, SmoothRuns, SmoothRun, SmoothTries
<1>5. ASSUME NEW c \in CaseNos
      PROVE  AssembledNow(c)' = AssembledNow(c)
  BY <1>3 DEF AssembledNow, Passed
<1>6. SmoothCounts'
  BY <1>3, <1>5 DEF Smooth, SmoothCounts
<1> QED
  BY <1>4, <1>6 DEF Smooth

LEMMA UsualRunPasses ==
  ASSUME NEW s \in RunState, AsUsual(s)
  PROVE  AuditPasses(s)
<1> DEFINE n == Len(s.answers) + IF s.waiting THEN 1 ELSE 0
<1>1. s.prompts = {<<i, 1, 1>> : i \in 1..n}
  BY DEF AsUsual
<1> HIDE DEF n
<1>2. \A p \in s.prompts : p[3] = 1
  BY <1>1
<1> QED
  BY <1>2 DEF AuditPasses

LEMMA SmoothScore == PInv /\ Listing /\ Smooth /\ Score => Smooth'
<1> SUFFICES ASSUME PInv, Listing, Smooth, Score PROVE Smooth'
  OBVIOUS
<1> DEFINE a == [run |-> at, ok |-> TRUE, cost |-> CostOf(State), rollback |-> NoRun]
<1>1. pc = "score" /\ UNCHANGED <<runs, report, template, call, benchmarks>>
  BY DEF Score
<1>2. /\ at \in RunIds /\ at = <<at[1], 1>> /\ at[1] \in CaseNos /\ State = runs[at]
      /\ State \in RunState /\ benchmarks \in Nat /\ benchmarks > 0
  BY <1>1, AtFirstTry DEF Smooth
<1>3. AuditPasses(State)
  BY <1>2, UsualRunPasses DEF Smooth, SmoothRuns, SmoothRun
<1>4. CaseEnds(a) /\ a.run[2] = 1 /\ a.ok
  <2>1. at[2] = 1
    BY <1>1 DEF Smooth, SmoothTries
  <2> QED
    BY <1>3, <2>1, ScoreHow
<1> HIDE DEF a
<1>5. SmoothRuns'
  BY <1>1 DEF Smooth, SmoothRuns, SmoothRun
<1>6. attempts' = Append(attempts, a) /\ attempts \in Seq(AttemptReport)
  BY <1>4 DEF CaseEnds, PInv, TypeOK
<1>7. \A i \in DOMAIN attempts' : attempts'[i].ok /\ attempts'[i].run[2] = 1
  BY <1>4, <1>6 DEF Smooth, SmoothTries
<1>8. \/ pc' = "run" /\ at' = <<at[1] + 1, 1>>
      \/ pc' = "report" /\ at' = at /\ at[1] = Len(Cases)
  BY <1>2, <1>4, RunIdFacts DEF CaseEnds
<1>9. at'[2] = 1
  BY <1>1, <1>8 DEF Smooth, SmoothTries
<1>10. SmoothTries'
  BY <1>1, <1>7, <1>8, <1>9 DEF Smooth, SmoothTries
<1>11. ASSUME NEW c \in CaseNos
       PROVE  AssembledNow(c)' = AssembledNow(c)
  <2>1. c \in 1..Len(Cases) /\ at[1] \in 1..Len(Cases) /\ Len(Cases) \in Nat
    BY <1>2, RunIdFacts
  <2>2. Passed(c)' <=> Passed(c)
    <3>1. CASE pc' = "report"
      BY <1>1, <1>8, <2>1, <3>1 DEF Passed
    <3>2. CASE pc' = "run" /\ at' = <<at[1] + 1, 1>>
      <4>1. at'[1] = at[1] + 1
        BY <3>2
      <4>2. (c < at[1] + 1) <=> (c < at[1] \/ c = at[1])
        BY <2>1
      <4> QED
        BY <1>1, <3>2, <4>1, <4>2 DEF Passed
    <3> QED
      BY <1>8, <3>1, <3>2
  <2>3. pc # "assemble" /\ pc' # "assemble"
    BY <1>1, <1>8
  <2> QED
    BY <1>1, <2>2, <2>3 DEF AssembledNow
<1>12. SmoothCounts'
  BY <1>1, <1>11 DEF Smooth, SmoothCounts
<1> QED
  BY <1>5, <1>10, <1>12 DEF Smooth

LEMMA SmoothWrite == PInv /\ Smooth /\ WriteReport => Smooth'
<1> SUFFICES ASSUME PInv, Smooth, WriteReport PROVE Smooth'
  OBVIOUS
<1>1. /\ pc = "report" /\ pc' = "idle" /\ attempts' = <<>> /\ report'.status = "written"
      /\ UNCHANGED <<runs, template, call, benchmarks>>
  BY DEF WriteReport
<1>2. SmoothRuns' /\ SmoothTries'
  BY <1>1 DEF Smooth, SmoothRuns, SmoothRun, SmoothTries
<1>3. ASSUME NEW c \in CaseNos
      PROVE  AssembledNow(c)' = AssembledNow(c)
  BY <1>1 DEF AssembledNow, Passed
<1>4. SmoothCounts'
  BY <1>1, <1>3 DEF Smooth, SmoothCounts
<1> QED
  BY <1>2, <1>4 DEF Smooth

LEMMA SmoothStep ==
  ASSUME PInv, Listing, Smooth, [Next]_vars, disturbances = 0, disturbances' = 0
  PROVE  Smooth'
<1>1. CASE Start \/ Score \/ WriteReport
  BY <1>1, SmoothStart, SmoothScore, SmoothWrite
<1>2. CASE RunCompletes \/ AssembleAgain \/ Render
  BY <1>2, SmoothCompletes, SmoothAssemble, SmoothRender
<1>3. CASE ExportPacket \/ Prompt \/ FileResponse
  BY <1>3, SmoothExport, SmoothPrompt, SmoothFile
<1>4. ASSUME NEW outcome \in Provider!Outcomes, SendRequest(outcome)
      PROVE  Smooth'
  BY <1>4, SmoothRequest
<1>5. ASSUME NEW answer \in Answers, SaveAnswer(answer) \/ ImportAnswer(answer)
      PROVE  Smooth'
  BY <1>5, SmoothSave, SmoothImport
<1>6. CASE ValidateBlocks
  <2>1. pc # "idle" /\ Blocked(State)
    BY <1>6 DEF ValidateBlocks
  <2>2. at \in RunIds /\ State = runs[at] /\ State \in RunState
    BY <2>1, AtFirstTry DEF Smooth
  <2>3. AsUsual(State)
    BY <2>2 DEF Smooth, SmoothRuns, SmoothRun
  <2> QED
    BY <2>1, <2>2, <2>3, NeverBlocked
<1>7. CASE ProviderRaises
  BY <1>7 DEF ProviderRaises, Provider!Return, Smooth, SmoothTries
<1>8. CASE Crash \/ EditTemplate
  BY <1>8 DEF Crash, EditTemplate, Disturb
<1>9. CASE UNCHANGED vars
  <2>1. SmoothRuns' /\ SmoothTries'
    BY <1>9 DEF vars, Smooth, SmoothRuns, SmoothRun, SmoothTries, Case, State
  <2>2. \A c \in CaseNos : AssembledNow(c)' = AssembledNow(c)
    BY <1>9 DEF vars, AssembledNow, Passed
  <2> QED
    BY <1>9, <2>1, <2>2 DEF vars, Smooth, SmoothCounts
<1> QED
  BY <1>1, <1>2, <1>3, <1>4, <1>5, <1>6, <1>7, <1>8, <1>9 DEF Next, Work

LEMMA UsualRunsAlike ==
  ASSUME PInv, SmoothRuns, SmoothCounts, pc = "report",
         NEW r \in RunIds, NEW q \in RunIds, r[2] = 1, q[2] = 1,
         Sound(runs[r]), Sound(runs[q])
  PROVE  Equivalent(r, q, TRUE) /\ Equivalent(r, q, FALSE)
<1> DEFINE s == runs[r]
           t == runs[q]
<1>1. s \in RunState /\ t \in RunState /\ AsUsual(s) /\ AsUsual(t)
  BY DEF PInv, TypeOK, SmoothRuns, SmoothRun
<1>2. Answered(s) /\ Answered(t) /\ ~ s.waiting /\ ~ t.waiting
  BY <1>1 DEF Sound, AsUsual
<1>3. s.assembled = t.assembled
  <2>1. r = <<r[1], 1>> /\ q = <<q[1], 1>> /\ r[1] \in CaseNos /\ q[1] \in CaseNos
    BY RunIdFacts
  <2>2. AssembledNow(r[1]) = AssembledAfter(benchmarks)
        /\ AssembledNow(q[1]) = AssembledAfter(benchmarks)
    BY DEF AssembledNow, Passed
  <2> QED
    BY <2>1, <2>2 DEF SmoothCounts
<1>4. s.waiting = FALSE /\ t.waiting = FALSE
  BY <1>1, <1>2, RunFields
<1>5. s.answers = t.answers
  <2>1. s.answers \in Seq(Answers) /\ t.answers \in Seq(Answers)
    BY <1>1, RunFields
  <2>2. Len(s.answers) = Len(t.answers) /\ Len(s.answers) \in Nat
    BY <1>2, <2>1 DEF Answered
  <2>3. \A i \in 1..Len(s.answers) : s.answers[i] = t.answers[i]
    BY <1>1, <2>1, <2>2 DEF AsUsual
  <2> HIDE DEF s, t
  <2> QED
    BY <2>1, <2>2, <2>3
<1>6. s.prompts = t.prompts
  BY <1>1, <1>4, <1>5 DEF AsUsual
<1>7. s.failures = t.failures /\ s.blocked = t.blocked
  BY <1>1 DEF AsUsual
<1> QED
  BY <1>3, <1>4, <1>5, <1>6, <1>7
     DEF Equivalent, NormalizedBundle, PromptSignature, LineageSignature

LEMMA QuietPasses ==
  ASSUME CasesAreCompared, PInv, Truths, Listing, Smooth, pc = "report"
  PROVE  GatePasses(attempts)
<1>1. PICK a \in CaseNos, m \in CaseNos, x \in CaseNos, y \in CaseNos :
        Compared(a, m, x, y)
  BY DEF CasesAreCompared, Compared
<1>2. Full(attempts)
  BY DEF Full, Listing, PInv, TypeOK
<1>3. DOMAIN attempts = CaseNos
  BY <1>2, SucceededRuns DEF Full
<1>4. ASSUME NEW c \in CaseNos
      PROVE  /\ attempts[c].ok /\ attempts[c].run \in RunIds /\ attempts[c].run[2] = 1
             /\ Sound(runs[attempts[c].run])
  <2>1. attempts[c].ok /\ attempts[c].run[2] = 1
    BY <1>3 DEF Smooth, SmoothTries
  <2>2. attempts[c].run \in RunIds
    BY <1>2, <1>3, EntryFields DEF Full
  <2>3. Sound(runs[attempts[c].run])
    BY <1>3, <2>1 DEF Truths, Truthful, Certified
  <2> QED
    BY <2>1, <2>2, <2>3
<1>5. ASSUME NEW c \in CaseNos, NEW d \in CaseNos
      PROVE  /\ Equivalent(attempts[c].run, attempts[d].run, TRUE)
             /\ Equivalent(attempts[c].run, attempts[d].run, FALSE)
  BY <1>4, UsualRunsAlike DEF Smooth
<1>6. ModePairs(attempts) = {<<attempts[a].run, attempts[m].run>>}
  BY <1>1, <1>2, <1>4, TheModePair
<1>7. \/ ReplayPairs(attempts) = {<<attempts[x].run, attempts[y].run>>}
      \/ ReplayPairs(attempts) = {<<attempts[y].run, attempts[x].run>>}
  BY <1>1, <1>2, <1>4, TheReplayPair
<1>8. \A p \in ModePairs(attempts) : Equivalent(p[1], p[2], FALSE)
  <2>1. Equivalent(attempts[a].run, attempts[m].run, FALSE)
    BY <1>5
  <2>2. \A p \in ModePairs(attempts) : p[1] = attempts[a].run /\ p[2] = attempts[m].run
    BY <1>6
  <2> QED
    BY <2>1, <2>2, Zenon
<1>9. \A p \in ReplayPairs(attempts) : Equivalent(p[1], p[2], TRUE)
  <2>1. /\ Equivalent(attempts[x].run, attempts[y].run, TRUE)
        /\ Equivalent(attempts[y].run, attempts[x].run, TRUE)
    BY <1>5
  <2>2. \A p \in ReplayPairs(attempts) :
          \/ p[1] = attempts[x].run /\ p[2] = attempts[y].run
          \/ p[1] = attempts[y].run /\ p[2] = attempts[x].run
    BY <1>7
  <2> QED
    BY <2>1, <2>2, Zenon
<1>10. ModePairs(attempts) # {} /\ ReplayPairs(attempts) # {}
  BY <1>6, <1>7
<1> QED
  BY <1>8, <1>9, <1>10, Zenon DEF GatePasses

LEMMA QuietStep ==
  ASSUME CasesAreCompared, PInv, Truths, Listing, QuietInv, [Next]_vars
  PROVE  QuietInv'
<1>1. disturbances' = 0 => disturbances = 0
  <2>1. disturbances' \in {disturbances, disturbances + 1}
    BY DEF Next, Work, Start, ValidateBlocks, RunCompletes, ExportPacket, Prompt,
           SendRequest, FileResponse, ProviderRaises, SaveAnswer, ImportAnswer,
           AssembleAgain, Render, Score, WriteReport, Crash, EditTemplate, Disturb,
           Usually, vars
  <2>2. disturbances \in Nat
    BY DEF PInv, TypeOK
  <2> QED
    BY <2>1, <2>2
<1>2. disturbances' = 0 => Smooth'
  BY <1>1, SmoothStep DEF QuietInv, Smooth
<1>3. CASE WriteReport
  <2>1. /\ pc = "report" /\ report'.gate = GatePasses(attempts)
        /\ report'.quiet = (disturbances = 0)
    BY <1>3 DEF WriteReport
  <2>2. disturbances = 0 => GatePasses(attempts)
    BY <2>1, QuietPasses DEF QuietInv, Smooth
  <2> QED
    BY <1>2, <2>1, <2>2 DEF QuietInv, Smooth
<1>4. CASE UNCHANGED report
  BY <1>2, <1>4 DEF QuietInv, Smooth
<1>5. CASE report' = TornReport
  BY <1>2, <1>5, TornReportIs DEF QuietInv, Smooth
<1>6. WriteReport \/ UNCHANGED report \/ report' = TornReport
  BY ReportChanges
<1> QED
  BY <1>3, <1>4, <1>5, <1>6

LEMMA QuietInit == Init => QuietInv
<1> SUFFICES ASSUME Init PROVE QuietInv
  OBVIOUS
<1>1. \A r \in RunIds : runs[r] = NewRun
  BY DEF Init
<1>2. AsUsual(NewRun) /\ ~ NewRun.waiting /\ NewRun.assembled = 0
  <2>1. /\ NewRun.answers = <<>> /\ NewRun.failures = <<>> /\ NewRun.blocked = 0
        /\ NewRun.prompts = {} /\ NewRun.waiting = FALSE /\ NewRun.assembled = 0
    BY DEF NewRun
  <2>2. Len(NewRun.answers) + (IF NewRun.waiting THEN 1 ELSE 0) = 0
    BY <2>1
  <2>3. {<<i, 1, 1>> : i \in 1..0} = {}
    OBVIOUS
  <2> QED
    BY <2>1, <2>2, <2>3 DEF AsUsual
<1>3. SmoothRuns
  BY <1>1, <1>2 DEF SmoothRuns, SmoothRun
<1>4. SmoothTries
  BY DEF Init, SmoothTries, NoReport, Unwritten, Provider!Init, Provider!Idle
<1>5. SmoothCounts
  BY <1>1, <1>2, FirstTries DEF Init, SmoothCounts, AssembledNow, Passed, AssembledAfter
<1>6. report.status # "written"
  BY DEF Init, NoReport, Unwritten
<1> QED
  BY <1>3, <1>4, <1>5, <1>6 DEF QuietInv

GateIInv == CasesAreCompared /\ PInv /\ Truths /\ Listing /\ GateInv /\ QuietInv

(* The release gate of a dataset whose comparisons reach every case: it     *)
(* passes only when all cases succeeded with the same answers, and it       *)
(* passes whenever nothing went wrong, however often the benchmark is       *)
(* repeated over the runs of the last (build_benchmark_scorecard).          *)
THEOREM GateIsAlwaysEarned == CasesAreCompared /\ Spec => []GateIsEarned
<1>1. CasesAreCompared /\ Init => GateIInv
  <2>1. Init => GateInv
    BY DEF Init, GateInv, NoReport, Unwritten
  <2> QED
    BY <2>1, PlacesInit, TruthsInit, ListingInit, QuietInit DEF GateIInv
<1>2. GateIInv /\ [Next]_vars => GateIInv'
  <2> SUFFICES ASSUME GateIInv, [Next]_vars PROVE GateIInv'
    OBVIOUS
  <2>1. CasesAreCompared'
    BY DEF GateIInv, CasesAreCompared
  <2> QED
    BY <2>1, PlacesStep, TruthsStep, ListingStep, GateStep, QuietStep DEF GateIInv
<1>3. GateIInv => GateIsEarned
  <2> SUFFICES ASSUME GateIInv, report.status = "written"
               PROVE  /\ report.gate =>
                           /\ \A i \in DOMAIN report.attempts : report.attempts[i].ok
                           /\ \A r, q \in SucceededIn(report.attempts) :
                                runs[r].answers = runs[q].answers
                      /\ report.quiet => report.gate
    BY DEF GateIsEarned
  <2> QED
    BY DEF GateIInv, GateInv, Agreed, QuietInv, SucceededIn
<1> QED
  BY <1>1, <1>2, <1>3, PTL DEF Spec
=============================================================================
