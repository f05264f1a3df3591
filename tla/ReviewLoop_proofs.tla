-------------------------- MODULE ReviewLoop_proofs --------------------------
(***************************************************************************)
(* Proofs about ReviewLoop, for every number of candidates, of slots and   *)
(* of commands.                                                            *)
(*                                                                         *)
(* A command writes each file at most once, so what the disk will hold     *)
(* when the running command is through (Later) is known when it starts and *)
(* does not change while it writes.  What an import promises is therefore  *)
(* proved once, of Later, when it begins, and holds of the files when it   *)
(* ends.                                                                   *)
(***************************************************************************)
EXTENDS ReviewLoop, FiniteSetTheorems, SequenceTheorems, WellFoundedInduction, TLAPS

-----------------------------------------------------------------------------
(* What the files hold. *)

Bundles == {Bundle(c) : c \in Cands}
PoolFiles == Bundles \cup {PoolLabels, PoolManifest, PoolAlpha, PoolReport}
ExamFiles == Names \ PoolFiles

Decided == [cand : Cands, verdict : Verdicts, mark : Marks]
Distinct(s) == \A i, j \in DOMAIN s : s[i] = s[j] => i = j
Histories == {log \in Seq(Decided) : Distinct(log)}
Reviews == UNION {[S -> Summary] : S \in SUBSET Cands}
Counts == [Summary -> Nat]
Reports == [selected : Nat, discarded : Nat, reviewed : [Verdicts -> Nat]]

Content(f) ==
  LET name == f[1]
  IN CASE name \in {"pool_review_labels", "review_labels"} -> Histories
       [] name = "candidate_bundle" -> Summary
       [] name = "candidate_pool_manifest" -> [candidates : [Cands -> Summary], eligible : Nat]
       [] name = "mini_alpha_candidate_manifest" -> [Cands -> Summary]
       [] name \in {"pool_review_feedback_report", "review_feedback_report"} -> Counts
       [] name \in {"candidate_manifest", "human_review_template"} -> Reviews
       [] name = "candidate_outcomes" -> [selected : SUBSET Cands, discarded : SUBSET Cands]
       [] name \in {"discard_rate_report", "discard_report"} -> Reports
       [] name \in {"regenerate_candidates", "mini_alpha_bundle", "exam_bundle"} -> SUBSET Cands
       [] name = "mini_alpha_manifest" -> [selected : SUBSET Cands, discard : Reports]

Written(f) == [is : {"whole"}, holds : Content(f)]
Unreadable(f) == IF f \in Logs THEN {Absent} ELSE {Absent, Torn}
Writes == UNION {{f} \X Written(f) : f \in Names}

FilesOK ==
  /\ files = [f \in Names |-> files[f]]
  /\ \A f \in Names : files[f] \in Written(f) \cup Unreadable(f)

TypeOK ==
  /\ FilesOK
  /\ ready \subseteq Cands
  /\ cmd \in [name : {"none", "build", "import_pool", "run_exam", "import_exam"},
              incoming : Seq(Label), ok : BOOLEAN]
  /\ todo \in Seq(Writes)
  /\ settled \subseteq {"pool", "exam"}
  /\ used \in [{"build", "import", "exam", "crash"} -> Nat]

-----------------------------------------------------------------------------
(* The inductive invariant. *)

(* No file is written twice. *)
Once(writes) == \A i, j \in DOMAIN writes : writes[i][1] = writes[j][1] => i = j

(* Disk F once the writes W are done. *)
After(F, W) ==
  [f \in Names |->
     IF \E i \in DOMAIN W : W[i][1] = f
     THEN W[CHOOSE i \in DOMAIN W : W[i][1] = f][2]
     ELSE F[f]]

(* The files as the running command will leave them. *)
Later == After(files, todo)

(* What the properties of ReviewLoop say of the files, said of any disk F. *)
LogOf(F, f) == IF F[f].is = "whole" THEN F[f].holds ELSE <<>>

StockOf(F) ==
  IF F[PoolManifest].is # "absent" THEN DOMAIN F[PoolManifest].holds.candidates
  ELSE {c \in Cands : F[Bundle(c)].is # "absent"}

PoolAgrees(F) ==
  LET truth == [c \in StockOf(F) |-> Latest(LogOf(F, PoolLabels), c)]
  IN /\ \A c \in StockOf(F) : F[Bundle(c)] = Whole(truth[c])
     /\ F[PoolReport] = Whole(Tally(truth))
     /\ F[PoolManifest].is # "absent" =>
          /\ F[PoolManifest] = Whole(PoolManifestOf(truth))
          /\ F[PoolAlpha] = Whole(truth)

ExamAgrees(F) ==
  LET reviews == F[Template].holds
      report == DiscardReport(F[Outcomes].holds, reviews)
  IN /\ DOMAIN reviews = F[Result].holds.selected
     /\ \A f \in {Discard, DiscardRate} : F[f] = Whole(report)
     /\ F[Result].holds.discard = report
     /\ F[Regenerate].holds = ToRegenerate(reviews)
     /\ \A c \in DOMAIN reviews \cap DOMAIN F[ExamManifest].holds :
          reviews[c] = F[ExamManifest].holds[c]

SharedOn(F) ==
  LET exam == F[ExamManifest].holds
  IN /\ \A r \in Range(LogOf(F, ExamLabels)) :
          r.cand \in DOMAIN exam => Contains(LogOf(F, PoolLabels), r)
     /\ \A c \in DOMAIN exam : F[Bundle(c)] = Whole(exam[c])

CleanOn(F) ==
  \A c \in F[Result].holds.selected :
    c \in Approved /\ Latest(LogOf(F, PoolLabels), c) # "reject"

(* The pool's manifest comes after what it points to. *)
ManifestQueued ==
  \A i \in DOMAIN todo :
    todo[i][1] = PoolManifest =>
      /\ ready = Cands
      /\ \A f \in Bundles \cup {PoolAlpha} :
           Exists(f) \/ \E j \in 1..i - 1 : todo[j][1] = f

(* What the running command promises. *)
Promises ==
  /\ cmd.name = "import_pool" /\ cmd.ok => PoolAgrees(Later)
  /\ cmd.name = "import_exam" /\ cmd.ok =>
       /\ ExamAgrees(Later)
       /\ Later[PoolManifest].is # "absent" => PoolAgrees(Later) /\ SharedOn(Later)
  /\ cmd.name = "run_exam" /\ cmd.ok /\ "pool" \in settled => CleanOn(Later)

(* What the completed imports have left, and who may disturb it. *)
Remains ==
  /\ cmd.name \in {"build", "import_pool", "import_exam"} => settled = {}
  /\ cmd.name = "run_exam" =>
       /\ settled \subseteq {"pool"}
       /\ \A i \in DOMAIN todo : todo[i][1] \in ExamFiles
  /\ "pool" \in settled => PoolCopies
  /\ "exam" \in settled => ExamCopies
  /\ {"pool", "exam"} \subseteq settled /\ Exists(PoolManifest) => VerdictsShared

LogsExtend == \A f \in Logs : IsPrefix(Log(f), LogOf(Later, f))

IInv ==
  /\ TypeOK
  /\ Once(todo)
  /\ cmd.name = "none" => Idle /\ todo = <<>>
  /\ ManifestQueued
  /\ ManifestIsLast
  /\ LogsExtend
  /\ Promises
  /\ Remains
-----------------------------------------------------------------------------
(* Numbers in order. *)

(* A set of naturals that is not empty has a least element.  The finite     *)
(* subsets of a set are well founded; the numbers below one are such a set. *)
LEMMA LeastNumber ==
  ASSUME NEW T \in SUBSET Nat, T # {}
  PROVE  \E n \in T : \A m \in T : n <= m
<1>1. PICK top \in T : TRUE
  OBVIOUS
<1> DEFINE S == 0..top
           Down == {0..m : m \in T \cap S}
           R == StrictSubsetOrdering(S)
<1>2. IsFiniteSet(S)
  BY FS_Interval
<1>3. IsWellFoundedOn(R, SUBSET S)
  BY <1>2, FS_StrictSubsetOrderingWellFounded, FS_FiniteSubsetsOfFinite
<1>4. Down \subseteq SUBSET S /\ Down # {}
  OBVIOUS
<1>5. PICK D \in Down : \A E \in Down : <<E, D>> \notin R
  <2> HIDE DEF S, Down, R
  <2> QED BY <1>3, <1>4, WFMin
<1>6. PICK n \in T \cap S : D = 0..n
  BY <1>5
<1>7. \A m \in T \cap S : ~(m < n)
  <2> SUFFICES ASSUME NEW m \in T \cap S, m < n
               PROVE  FALSE
    OBVIOUS
  <2>1. 0..m \subseteq 0..n /\ 0..m # 0..n
    OBVIOUS
  <2>2. 0..m \in Down
    OBVIOUS
  <2> QED BY <1>4, <1>5, <1>6, <2>1, <2>2 DEF StrictSubsetOrdering
<1>8. \A m \in T : n <= m
  BY <1>7
<1> QED BY <1>6, <1>8

LEMMA FiniteUpTo ==
  ASSUME NEW n \in Nat, NEW S \in SUBSET (1..n)
  PROVE  IsFiniteSet(S) /\ Cardinality(S) \in Nat
<1>1. IsFiniteSet(1..n)
  BY FS_Interval
<1>2. IsFiniteSet(S)
  BY <1>1, FS_Subset
<1> QED BY <1>2, FS_CardinalityType

Increasing(s) == \A i, j \in DOMAIN s : i < j => s[i] < s[j]

(* Every set of numbers up to n can be listed in order: a least n for which *)
(* one cannot would be of a set with n in it, whose other members can.      *)
LEMMA OrderExists ==
  \A n \in Nat : \A S \in SUBSET (1..n) :
    \E order \in [1..Cardinality(S) -> S] : Increasing(order)
<1> DEFINE Listed(S) == \E order \in [1..Cardinality(S) -> S] : Increasing(order)
           Bad == {n \in Nat : \E S \in SUBSET (1..n) : ~Listed(S)}
<1> SUFFICES ASSUME Bad # {}
             PROVE  FALSE
  OBVIOUS
<1>1. PICK n \in Bad : \A m \in Bad : n <= m
  BY LeastNumber
<1>0. n \in Nat
  BY <1>1
<1>2. PICK S \in SUBSET (1..n) : ~Listed(S)
  BY <1>1
<1>6. \A m \in Nat : m < n => \A R \in SUBSET (1..m) : Listed(R)
  <2> SUFFICES ASSUME NEW m \in Nat, m < n
               PROVE  m \notin Bad
    OBVIOUS
  <2> HIDE DEF Bad
  <2> QED BY <1>0, <1>1
<1> HIDE DEF Bad, Listed
<1>3. IsFiniteSet(S) /\ Cardinality(S) \in Nat
  BY <1>0, <1>2, FiniteUpTo
<1>4. CASE n \notin S
  <2>1. CASE n = 0
    <3>1. S = {} /\ Cardinality(S) = 0
      <4>1. S = {}
        BY <1>2, <2>1
      <4> QED BY <4>1, FS_EmptySet
    <3> DEFINE none == [k \in 1..0 |-> k]
    <3>2. none \in [1..Cardinality(S) -> S] /\ Increasing(none)
      BY <3>1 DEF Increasing
    <3> QED BY <1>2, <3>2 DEF Listed
  <2>2. CASE n > 0
    <3>1. n - 1 \in Nat /\ S \in SUBSET (1..n - 1)
      BY <1>0, <1>2, <1>4, <2>2
    <3>2. n - 1 < n
      BY <1>0
    <3> QED BY <1>2, <1>6, <3>1, <3>2
  <2> QED BY <1>0, <2>1, <2>2
<1>5. CASE n \in S
  <2> DEFINE R == S \ {n}
             k == Cardinality(R)
  <2>1. IsFiniteSet(R) /\ k \in Nat /\ Cardinality(S) = k + 1
    <3>1. IsFiniteSet(R) /\ k = Cardinality(S) - 1
      BY <1>3, <1>5, FS_RemoveElement
    <3>2. k \in Nat
      BY <3>1, FS_CardinalityType
    <3> QED BY <1>3, <3>1, <3>2
  <2>2. n - 1 \in Nat /\ R \in SUBSET (1..n - 1)
    BY <1>0, <1>2, <1>5
  <2>3. n - 1 < n
    BY <1>0
  <2>4. PICK order \in [1..k -> R] : Increasing(order)
    BY <1>6, <2>2, <2>3 DEF Listed
  <2> DEFINE longer == [i \in 1..k + 1 |-> IF i <= k THEN order[i] ELSE n]
  <2> HIDE DEF k, R
  <2>5. longer \in [1..k + 1 -> S]
    <3>1. R \subseteq S
      BY DEF R
    <3>2. \A i \in 1..k + 1 : i <= k => i \in 1..k
      BY <2>1
    <3>3. \A i \in 1..k + 1 : (IF i <= k THEN order[i] ELSE n) \in S
      BY <1>5, <2>4, <3>1, <3>2
    <3> QED BY <3>3
  <2>6. Increasing(longer)
    <3> SUFFICES ASSUME NEW i \in 1..k + 1, NEW j \in 1..k + 1, i < j
                 PROVE  longer[i] < longer[j]
      BY DEF Increasing
    <3>1. i \in 1..k /\ order[i] \in R
      BY <2>1, <2>4
    <3>2. CASE j \in 1..k
      BY <3>1, <3>2, <2>1, <2>4 DEF Increasing
    <3>3. CASE j = k + 1
      <4>1. longer[i] = order[i] /\ longer[j] = n
        BY <3>1, <3>3, <2>1
      <4>2. order[i] \in 1..n - 1
        BY <2>2, <3>1
      <4> QED BY <1>0, <4>1, <4>2
    <3> QED BY <3>2, <3>3, <2>1
  <2> QED BY <1>2, <2>1, <2>5, <2>6 DEF Listed
<1> QED BY <1>4, <1>5

(* InOrder lists a set of numbers, each once, the smaller ones first. *)
LEMMA InOrderLists ==
  ASSUME NEW n \in Nat, NEW S \in SUBSET (1..n)
  PROVE  /\ Cardinality(S) \in Nat
         /\ InOrder(S) \in [1..Cardinality(S) -> S]
         /\ Increasing(InOrder(S))
         /\ \A x \in S : \E k \in 1..Cardinality(S) : InOrder(S)[k] = x
         /\ \A i, j \in 1..Cardinality(S) : InOrder(S)[i] = InOrder(S)[j] => i = j
<1> DEFINE k == Cardinality(S)
           order == InOrder(S)
<1>1. IsFiniteSet(S) /\ k \in Nat
  BY FiniteUpTo
<1>2. order \in [1..k -> S] /\ Increasing(order)
  BY OrderExists DEF InOrder, Increasing
<1> HIDE DEF k, order
<1>3. \A i, j \in 1..k : order[i] = order[j] => i = j
  <2> SUFFICES ASSUME NEW i \in 1..k, NEW j \in 1..k, i # j
               PROVE  order[i] # order[j]
    OBVIOUS
  <2>1. order[i] \in 1..n /\ order[j] \in 1..n /\ DOMAIN order = 1..k
    BY <1>2
  <2>2. CASE i < j
    BY <1>2, <2>1, <2>2 DEF Increasing
  <2>3. CASE j < i
    BY <1>2, <2>1, <2>3 DEF Increasing
  <2> QED BY <1>1, <2>2, <2>3
<1>4. order \in Injection(1..k, S)
  BY <1>2, <1>3 DEF Injection, IsInjective
<1>5. IsFiniteSet(1..k) /\ Cardinality(1..k) = k
  BY <1>1, FS_Interval
<1>6. order \in Surjection(1..k, S)
  BY <1>1, <1>4, <1>5, FS_Injection DEF k
<1>7. \A x \in S : \E i \in 1..k : order[i] = x
  BY <1>6 DEF Surjection
<1> QED BY <1>1, <1>2, <1>3, <1>7 DEF k, order

-----------------------------------------------------------------------------
(* Label logs. *)

LEMMA ListIsSeq ==
  ASSUME NEW n \in Nat, NEW T, NEW s \in [1..n -> T]
  PROVE  s \in Seq(T) /\ Len(s) = n /\ DOMAIN s = 1..n
<1>1. s \in Seq(T)
  BY SeqDef
<1> QED BY <1>1, LenProperties

(* What is kept of a sequence: the elements at the given numbers. *)
LEMMA KeptElements ==
  ASSUME NEW T, NEW s \in Seq(T), NEW S \in SUBSET (DOMAIN s)
  PROVE  /\ Cardinality(S) \in Nat
         /\ Kept(s, S) \in Seq(T)
         /\ DOMAIN Kept(s, S) = 1..Cardinality(S)
         /\ Len(Kept(s, S)) = Cardinality(S)
         /\ \A k \in 1..Cardinality(S) :
              InOrder(S)[k] \in S /\ Kept(s, S)[k] = s[InOrder(S)[k]]
         /\ \A i \in S : \E k \in DOMAIN Kept(s, S) :
              InOrder(S)[k] = i /\ Kept(s, S)[k] = s[i]
<1> DEFINE k == Cardinality(S)
           order == InOrder(S)
<1>1. Len(s) \in Nat /\ DOMAIN s = 1..Len(s) /\ s \in [1..Len(s) -> T]
  BY LenProperties
<1>2. /\ k \in Nat
      /\ order \in [1..k -> S]
      /\ \A x \in S : \E j \in 1..k : order[j] = x
  BY <1>1, InOrderLists
<1> DEFINE kept == [j \in 1..k |-> s[order[j]]]
<1>3. Kept(s, S) = kept
  BY <1>2 DEF Kept
<1> HIDE DEF k, order
<1>4. kept \in [1..k -> T]
  BY <1>1, <1>2
<1>5. Kept(s, S) \in Seq(T) /\ Len(Kept(s, S)) = k /\ DOMAIN Kept(s, S) = 1..k
  <2> HIDE DEF kept
  <2> QED BY <1>2, <1>3, <1>4, ListIsSeq
<1>6. \A j \in 1..k : order[j] \in S /\ Kept(s, S)[j] = s[order[j]]
  BY <1>2, <1>3
<1>7. \A i \in S : \E j \in DOMAIN Kept(s, S) : order[j] = i /\ Kept(s, S)[j] = s[i]
  BY <1>2, <1>5, <1>6
<1> QED BY <1>2, <1>5, <1>6, <1>7 DEF k, order

(* The dedupe of a sequence has no element twice, and every element of it.  *)
LEMMA DedupeKeepsEach ==
  ASSUME NEW T, NEW s \in Seq(T)
  PROVE  /\ Dedupe(s) \in Seq(T)
         /\ Distinct(Dedupe(s))
         /\ Range(Dedupe(s)) = Range(s)
<1> DEFINE S == {i \in DOMAIN s : \A j \in 1..i - 1 : s[j] # s[i]}
           order == InOrder(S)
           kept == Kept(s, S)
<1>0. Dedupe(s) = kept
  BY DEF Dedupe
<1>1. Len(s) \in Nat /\ DOMAIN s = 1..Len(s) /\ s \in [1..Len(s) -> T]
  BY LenProperties
<1>2. S \in SUBSET (DOMAIN s)
  OBVIOUS
<1>3. /\ kept \in Seq(T)
      /\ DOMAIN kept = 1..Cardinality(S)
      /\ \A k \in 1..Cardinality(S) : order[k] \in S /\ kept[k] = s[order[k]]
      /\ \A i \in S : \E k \in DOMAIN kept : order[k] = i /\ kept[k] = s[i]
  <2> HIDE DEF S
  <2> QED BY <1>2, KeptElements
<1>4. \A i, j \in 1..Cardinality(S) : order[i] = order[j] => i = j
  BY <1>1, <1>2, InOrderLists
<1>5. \A i, j \in S : s[i] = s[j] => i = j
  BY <1>1
<1>6. \A i \in DOMAIN s : \E j \in S : s[j] = s[i]
  <2> SUFFICES ASSUME NEW i \in DOMAIN s
               PROVE  \E j \in S : s[j] = s[i]
    OBVIOUS
  <2> DEFINE same == {j \in DOMAIN s : s[j] = s[i]}
  <2>1. same \in SUBSET Nat /\ same # {}
    BY <1>1
  <2>2. PICK j \in same : \A m \in same : j <= m
    <3> HIDE DEF same
    <3> QED BY <2>1, LeastNumber
  <2>3. \A m \in 1..j - 1 : s[m] # s[j]
    BY <1>1, <2>2
  <2> QED BY <2>2, <2>3
<1> HIDE DEF S, order, kept
<1>7. Distinct(kept)
  BY <1>3, <1>4, <1>5 DEF Distinct
<1>8. Range(kept) = Range(s)
  <2>1. ASSUME NEW x \in Range(kept)
        PROVE  x \in Range(s)
    BY <1>2, <1>3 DEF Range
  <2>2. ASSUME NEW x \in Range(s)
        PROVE  x \in Range(kept)
    <3>1. PICK i \in DOMAIN s : s[i] = x
      BY DEF Range
    <3>2. PICK j \in S : s[j] = x
      BY <1>6, <3>1
    <3>3. PICK k \in DOMAIN kept : kept[k] = x
      BY <1>3, <3>2
    <3> QED BY <3>3 DEF Range
  <2> QED BY <2>1, <2>2
<1> QED BY <1>0, <1>3, <1>7, <1>8

(* A sequence that begins with distinct elements keeps them in place.       *)
LEMMA DedupeKeepsPrefix ==
  ASSUME NEW T, NEW s \in Seq(T), NEW n \in 0..Len(s),
         \A i, j \in 1..n : s[i] = s[j] => i = j
  PROVE  /\ n <= Len(Dedupe(s))
         /\ \A k \in 1..n : Dedupe(s)[k] = s[k]
<1> DEFINE S == {i \in DOMAIN s : \A j \in 1..i - 1 : s[j] # s[i]}
           order == InOrder(S)
           kept == Kept(s, S)
           size == Cardinality(S)
<1>0. Dedupe(s) = kept
  BY DEF Dedupe
<1>1. Len(s) \in Nat /\ DOMAIN s = 1..Len(s) /\ s \in [1..Len(s) -> T]
  BY LenProperties
<1>2. S \in SUBSET (DOMAIN s)
  OBVIOUS
<1>3. /\ Len(kept) = size
      /\ \A k \in 1..size : kept[k] = s[order[k]]
  <2> HIDE DEF S
  <2> QED BY <1>2, KeptElements
<1>4. /\ size \in Nat
      /\ order \in [1..size -> S]
      /\ Increasing(order)
      /\ \A x \in S : \E k \in 1..size : order[k] = x
  <2> HIDE DEF S
  <2> QED BY <1>1, <1>2, InOrderLists
<1>5. 1..n \subseteq S
  BY <1>1
<1> HIDE DEF S, order, kept, size
<1>6. \A k \in 1..n : k \in 1..size /\ order[k] = k
  <2> DEFINE Off == {k \in 1..n : ~(k \in 1..size /\ order[k] = k)}
  <2> SUFFICES ASSUME Off # {}
               PROVE  FALSE
    OBVIOUS
  <2>1. Off \in SUBSET Nat
    BY <1>1
  <2>2. PICK k \in Off : \A m \in Off : k <= m
    <3> HIDE DEF Off
    <3> QED BY <2>1, LeastNumber
  <2>3. k \in 1..n /\ \A m \in 1..k - 1 : m \in 1..size /\ order[m] = m
    BY <1>1, <2>2
  <2>4. PICK j \in 1..size : order[j] = k
    BY <1>4, <1>5, <2>3
  <2>5. ~(j < k)
    BY <1>4, <2>3, <2>4
  <2>6. ~(k < j)
    <3> SUFFICES ASSUME k < j
                 PROVE  FALSE
      OBVIOUS
    <3>1. k \in 1..size
      BY <1>4, <2>3
    <3>2. order[k] < k
      BY <1>4, <2>4, <3>1 DEF Increasing
    <3>3. order[k] \in 1..k - 1
      BY <1>1, <1>2, <1>4, <2>3, <3>1, <3>2
    <3>4. order[order[k]] = order[k]
      BY <2>3, <3>3
    <3>5. order[order[k]] < order[k]
      BY <1>4, <2>3, <3>1, <3>2, <3>3 DEF Increasing
    <3> QED BY <1>1, <2>3, <3>3, <3>4, <3>5
  <2>7. j = k
    BY <1>1, <1>4, <2>3, <2>5, <2>6
  <2> QED BY <2>2, <2>4, <2>7
<1>7. n <= size
  BY <1>1, <1>4, <1>6
<1> QED BY <1>0, <1>3, <1>6, <1>7

(* The labels an import adds are decided ones. *)
LEMMA ActionableDecided ==
  ASSUME NEW labels \in Seq(Label)
  PROVE  Actionable(labels) \in Seq(Decided)
<1> DEFINE S == {i \in DOMAIN labels : labels[i].verdict # "pending"}
           kept == Kept(labels, S)
<1>1. Actionable(labels) = kept
  BY DEF Actionable
<1>2. labels \in [1..Len(labels) -> Label] /\ Len(labels) \in Nat /\ DOMAIN labels = 1..Len(labels)
  BY LenProperties
<1>3. /\ Cardinality(S) \in Nat
      /\ DOMAIN kept = 1..Cardinality(S)
      /\ kept \in Seq(Label)
      /\ \A k \in 1..Cardinality(S) : InOrder(S)[k] \in S /\ kept[k] = labels[InOrder(S)[k]]
  <2>1. S \in SUBSET (DOMAIN labels)
    OBVIOUS
  <2> QED BY <2>1, KeptElements
<1>4. \A i \in S : labels[i] \in Decided
  <2> SUFFICES ASSUME NEW i \in S
               PROVE  labels[i] \in Decided
    OBVIOUS
  <2>1. labels[i] \in Label /\ labels[i].verdict # "pending"
    BY <1>2
  <2> QED BY <2>1 DEF Label, Decided
<1> HIDE DEF S, kept
<1>5. kept \in [1..Cardinality(S) -> Decided]
  <2>1. kept = [k \in 1..Cardinality(S) |-> kept[k]]
    BY <1>3, LenProperties
  <2> QED BY <1>3, <1>4, <2>1
<1> QED BY <1>1, <1>3, <1>5, ListIsSeq

(* An import keeps a log's labels where they are, adds the decided ones     *)
(* among the new labels, and nothing twice.                                 *)
LEMMA MergeGrows ==
  ASSUME NEW log \in Histories, NEW labels \in Seq(Label)
  PROVE  /\ Merge(log, labels) \in Histories
         /\ IsPrefix(log, Merge(log, labels))
         /\ Range(Actionable(labels)) \subseteq Range(Merge(log, labels))
<1> DEFINE new == Actionable(labels)
           all == log \o new
<1>1. log \in Seq(Decided) /\ Distinct(log) /\ new \in Seq(Decided)
  BY ActionableDecided DEF Histories
<1> HIDE DEF new
<1>2. /\ all \in Seq(Decided)
      /\ Len(all) = Len(log) + Len(new)
      /\ \A i \in 1..Len(log) : all[i] = log[i]
      /\ Len(log) \in 0..Len(all)
      /\ Range(new) \subseteq Range(all)
      /\ DOMAIN log = 1..Len(log)
  <2>1. Len(log) \in Nat /\ Len(new) \in Nat /\ DOMAIN log = 1..Len(log)
    BY <1>1, LenProperties
  <2>2. /\ all \in Seq(Decided)
        /\ Len(all) = Len(log) + Len(new)
        /\ \A i \in 1..Len(log) + Len(new) :
             all[i] = IF i <= Len(log) THEN log[i] ELSE new[i - Len(log)]
    BY <1>1, ConcatProperties
  <2>3. Range(all) = Range(log) \cup Range(new)
    BY <1>1, RangeConcatenation
  <2> QED BY <2>1, <2>2, <2>3
<1> HIDE DEF all
<1> DEFINE merged == Dedupe(all)
<1>3. Merge(log, labels) = merged
  BY DEF Merge, all, new
<1>4. merged \in Seq(Decided) /\ Distinct(merged) /\ Range(merged) = Range(all)
  BY <1>2, DedupeKeepsEach
<1>5. Len(log) <= Len(merged) /\ \A k \in 1..Len(log) : merged[k] = log[k]
  <2>1. \A i, j \in 1..Len(log) : all[i] = all[j] => i = j
    BY <1>1, <1>2 DEF Distinct
  <2> QED BY <1>2, <2>1, DedupeKeepsPrefix
<1> HIDE DEF merged
<1>6. IsPrefix(log, merged)
  <2>1. Len(log) \in Nat /\ Len(merged) \in Nat
    BY <1>1, <1>4, LenProperties
  <2> QED BY <1>1, <1>4, <1>5, <2>1 DEF IsPrefix
<1> QED BY <1>2, <1>3, <1>4, <1>6 DEF Histories, new

(* The latest verdict on a candidate: there is one if there is a label. *)
LEMMA LatestVerdict ==
  ASSUME NEW log \in Seq(Decided), NEW c
  PROVE  /\ Latest(log, c) \in Summary
         /\ Latest(log, c) = "none" <=> \A r \in Range(log) : r.cand # c
<1> DEFINE S == {i \in DOMAIN log : log[i].cand = c}
           reviews == Kept(log, S)
<1>1. /\ reviews \in Seq(Decided)
      /\ Len(reviews) \in Nat
      /\ DOMAIN reviews = 1..Len(reviews)
      /\ \A i \in S : \E k \in DOMAIN reviews : reviews[k] = log[i]
      /\ \A k \in DOMAIN reviews : \E i \in S : reviews[k] = log[i]
  <2>1. S \in SUBSET (DOMAIN log)
    OBVIOUS
  <2> HIDE DEF S
  <2> QED BY <2>1, KeptElements, SMTT(30)
<1>2. Latest(log, c) = IF reviews = <<>> THEN "none" ELSE reviews[Len(reviews)].verdict
  BY DEF Latest, Last
<1>3. reviews = <<>> <=> S = {}
  <2> HIDE DEF S, reviews
  <2>1. reviews = <<>> <=> Len(reviews) = 0
    BY <1>1
  <2> QED BY <1>1, <2>1
<1>4. S = {} <=> \A r \in Range(log) : r.cand # c
  BY DEF Range
<1> HIDE DEF S, reviews
<1>5. ASSUME reviews # <<>>
      PROVE  reviews[Len(reviews)].verdict \in Verdicts
  <2>1. reviews[Len(reviews)] \in Decided
    BY <1>1, <1>5, LenProperties
  <2> QED BY <2>1 DEF Decided
<1>6. "none" \notin Verdicts
  BY VerdictsAssumption
<1> QED BY <1>2, <1>3, <1>4, <1>5, <1>6 DEF Summary

(* Every decided label is added. *)
LEMMA ActionableKeeps ==
  ASSUME NEW labels \in Seq(Label), NEW i \in DOMAIN labels, labels[i].verdict # "pending"
  PROVE  labels[i] \in Range(Actionable(labels))
<1> DEFINE S == {k \in DOMAIN labels : labels[k].verdict # "pending"}
<1>1. Actionable(labels) = Kept(labels, S)
  BY DEF Actionable
<1>2. i \in S /\ S \in SUBSET (DOMAIN labels)
  OBVIOUS
<1> HIDE DEF S
<1>3. \E k \in DOMAIN Kept(labels, S) : Kept(labels, S)[k] = labels[i]
  BY <1>2, KeptElements
<1> QED BY <1>1, <1>3 DEF Range

-----------------------------------------------------------------------------
(* The files. *)

(* What each file holds. *)
LEMMA BundleContent ==
  \A c \in Cands : Bundle(c) \in Names /\ Content(Bundle(c)) = Summary
  BY DEF Content, Bundle, Names

LEMMA PoolContent ==
  /\ PoolFiles \subseteq Names
  /\ Content(PoolLabels) = Histories
  /\ Content(PoolManifest) = [candidates : [Cands -> Summary], eligible : Nat]
  /\ Content(PoolAlpha) = [Cands -> Summary]
  /\ Content(PoolReport) = Counts
<1>1. PoolFiles \subseteq Names
  BY DEF PoolFiles, Bundles, Names, Logs
<1> QED BY <1>1 DEF Content, PoolLabels, PoolManifest, PoolAlpha, PoolReport

LEMMA ExamContent ==
  /\ {ExamLabels, ExamManifest, Template, Outcomes, DiscardRate, Discard, Regenerate,
      AlphaBundle, ExamBundle, ExamReport, Result} \subseteq ExamFiles
  /\ ExamFiles \subseteq Names
  /\ Content(ExamLabels) = Histories
  /\ Content(ExamReport) = Counts
  /\ Content(ExamManifest) = Reviews /\ Content(Template) = Reviews
  /\ Content(Outcomes) = [selected : SUBSET Cands, discarded : SUBSET Cands]
  /\ Content(DiscardRate) = Reports /\ Content(Discard) = Reports
  /\ \A f \in {Regenerate, AlphaBundle, ExamBundle} : Content(f) = SUBSET Cands
  /\ Content(Result) = [selected : SUBSET Cands, discard : Reports]
<1> USE DEF ExamLabels, ExamManifest, Template, Outcomes, DiscardRate, Discard,
            Regenerate, AlphaBundle, ExamBundle, ExamReport, Result
<1>1. {ExamLabels, ExamManifest, Template, Outcomes, DiscardRate, Discard, Regenerate,
       AlphaBundle, ExamBundle, ExamReport, Result} \subseteq ExamFiles
  BY DEF ExamFiles, PoolFiles, Names, Logs, Bundles, Bundle, PoolLabels, PoolManifest,
         PoolAlpha, PoolReport
<1>2. ExamFiles \subseteq Names
  BY DEF ExamFiles
<1>3. /\ Content(ExamLabels) = Histories
      /\ Content(ExamReport) = Counts
      /\ Content(ExamManifest) = Reviews /\ Content(Template) = Reviews
  BY DEF Content
<1>4. /\ Content(Outcomes) = [selected : SUBSET Cands, discarded : SUBSET Cands]
      /\ Content(DiscardRate) = Reports /\ Content(Discard) = Reports
  BY DEF Content
<1>5. \A f \in {Regenerate, AlphaBundle, ExamBundle} : Content(f) = SUBSET Cands
  BY DEF Content
<1>6. Content(Result) = [selected : SUBSET Cands, discard : Reports]
  BY DEF Content
<1> QED BY <1>1, <1>2, <1>3, <1>4, <1>5, <1>6

(* What is read from a file that is there. *)
LEMMA FilesRead ==
  ASSUME FilesOK
  PROVE  /\ \A f \in Names : IsWhole(f) => Held(f) \in Content(f) /\ files[f] = Whole(Held(f))
         /\ \A f \in Names : ~Exists(f) => files[f] = Absent
         /\ \A f \in Names : Exists(f) /\ files[f] # Torn => IsWhole(f)
         /\ \A f \in Logs : Log(f) \in Histories /\ Log(f) \in Seq(Decided)
         /\ Torn.is = "torn" /\ Absent.is = "absent"
<1>1. \A f \in Names : files[f] \in Written(f) \cup {Absent, Torn}
  BY DEF FilesOK, Unreadable
<1>2. Torn.is = "torn" /\ Absent.is = "absent"
  BY DEF Torn, Absent
<1>3. \A f \in Names : \A r \in Written(f) :
        r.is = "whole" /\ r.holds \in Content(f) /\ r = Whole(r.holds)
  BY DEF Written, Whole
<1>4. \A f \in Names : IsWhole(f) => Held(f) \in Content(f) /\ files[f] = Whole(Held(f))
  BY <1>1, <1>2, <1>3 DEF IsWhole, Held
<1>5. \A f \in Names : ~Exists(f) => files[f] = Absent
  BY <1>1, <1>2, <1>3 DEF Exists
<1>6. \A f \in Names : Exists(f) /\ files[f] # Torn => IsWhole(f)
  BY <1>1, <1>2, <1>3 DEF Exists, IsWhole
<1>7. \A f \in Logs : Log(f) \in Histories
  <2>1. \A f \in Logs : f \in Names /\ Content(f) = Histories
    BY PoolContent, ExamContent DEF Logs, Names
  <2>2. <<>> \in Histories
    BY DEF Histories, Distinct
  <2> QED BY <1>4, <2>1, <2>2 DEF Log
<1> QED BY <1>2, <1>4, <1>5, <1>6, <1>7 DEF Histories

(* The counts the reports are made of. *)
LEMMA CountOf ==
  /\ \A S \in SUBSET Cands : Cardinality(S) \in Nat
  /\ \A reviews \in Reviews : Tally(reviews) \in Counts
<1>1. \A S \in SUBSET Cands : Cardinality(S) \in Nat
  BY PoolAssumption, FiniteUpTo DEF Cands
<1>2. ASSUME NEW reviews \in Reviews
      PROVE  Tally(reviews) \in Counts
  <2>1. \A v : {c \in DOMAIN reviews : reviews[c] = v} \in SUBSET Cands
    BY DEF Reviews
  <2> QED BY <1>1, <2>1 DEF Tally, Counts
<1> QED BY <1>1, <1>2

LEMMA ReportsCount ==
  ASSUME NEW outcomes \in [selected : SUBSET Cands, discarded : SUBSET Cands],
         NEW reviews \in Reviews
  PROVE  DiscardReport(outcomes, reviews) \in Reports
<1> DEFINE counted == [c \in outcomes.selected \cap DOMAIN reviews |-> reviews[c]]
<1>1. counted \in Reviews
  <2>1. PICK S \in SUBSET Cands : reviews \in [S -> Summary]
    BY DEF Reviews
  <2>2. outcomes.selected \cap S \in SUBSET Cands
    BY <2>1
  <2>3. counted \in [outcomes.selected \cap S -> Summary]
    BY <2>1
  <2> HIDE DEF counted
  <2> QED BY <2>2, <2>3 DEF Reviews
<1>2. Tally(counted) \in Counts
  BY <1>1, CountOf
<1>3. Verdicts \subseteq Summary
  BY DEF Summary
<1>4. [v \in Verdicts |-> Tally(counted)[v]] \in [Verdicts -> Nat]
  BY <1>2, <1>3 DEF Counts
<1>5. Cardinality(outcomes.selected) \in Nat /\ Cardinality(outcomes.discarded) \in Nat
  BY CountOf
<1> QED BY <1>4, <1>5 DEF DiscardReport, Reports

(* The pool's listing, when it can be loaded. *)
LEMMA ListingRead ==
  ASSUME FilesOK, PoolLoads
  PROVE  /\ Listing \in [DOMAIN Listing -> Summary]
         /\ DOMAIN Listing = StockOf(files)
         /\ DOMAIN Listing \subseteq Cands
         /\ Exists(PoolManifest) => DOMAIN Listing = Cands
<1>1. CASE Exists(PoolManifest)
  <2>1. IsWhole(PoolManifest) /\ PoolManifest \in Names
    BY <1>1 DEF PoolLoads, Names
  <2>2. Held(PoolManifest) \in [candidates : [Cands -> Summary], eligible : Nat]
    BY <2>1, FilesRead, PoolContent
  <2>3. Listing = Held(PoolManifest).candidates /\ Listing \in [Cands -> Summary]
    BY <1>1, <2>2 DEF Listing
  <2> QED BY <1>1, <2>3 DEF StockOf, Exists, Held
<1>2. CASE ~Exists(PoolManifest)
  <2> DEFINE stock == {d \in Cands : Exists(Bundle(d))}
  <2>1. Listing = [c \in stock |-> Held(Bundle(c))]
    BY <1>2 DEF Listing
  <2>2. \A c \in stock : Held(Bundle(c)) \in Summary
    <3> SUFFICES ASSUME NEW c \in stock
                 PROVE  Held(Bundle(c)) \in Summary
      OBVIOUS
    <3>1. Bundle(c) \in Names /\ files[Bundle(c)] # Torn
      BY <1>2, BundleContent DEF PoolLoads
    <3> QED BY <3>1, FilesRead, BundleContent
  <2>3. stock = StockOf(files)
    BY <1>2 DEF StockOf, Exists
  <2> QED BY <1>2, <2>1, <2>2, <2>3
<1> QED BY <1>1, <1>2

-----------------------------------------------------------------------------
(* Plans. *)

Plans == [writes : Seq(Writes), ok : BOOLEAN]
Targets(p) == {p.writes[i][1] : i \in DOMAIN p.writes}
Says(p, f, x) == \E i \in DOMAIN p.writes : p.writes[i] = <<f, Whole(x)>>
Orderly(p) == p \in Plans /\ Once(p.writes)

LEMMA NoWrites ==
  /\ Orderly(Nothing) /\ Nothing.ok /\ Targets(Nothing) = {}
  /\ Orderly(Raise) /\ ~Raise.ok /\ Targets(Raise) = {}
  /\ \A f, x : ~Says(Nothing, f, x) /\ ~Says(Raise, f, x)
<1>1. <<>> \in Seq(Writes) /\ DOMAIN <<>> = {}
  OBVIOUS
<1> QED BY <1>1 DEF Orderly, Plans, Once, Targets, Nothing, Raise, Says

LEMMA OneWrite ==
  ASSUME NEW f \in Names, NEW x \in Content(f)
  PROVE  /\ Orderly(Write(f, x)) /\ Write(f, x).ok
         /\ Targets(Write(f, x)) = {f}
         /\ Says(Write(f, x), f, x)
         /\ \A g, y : Says(Write(f, x), g, y) => g = f /\ y = x
<1> DEFINE entry == <<f, Whole(x)>>
           list == <<entry>>
<1>1. entry \in Writes
  BY DEF Writes, Written, Whole
<1>2. Write(f, x) = [writes |-> list, ok |-> TRUE]
  BY DEF Write
<1> HIDE DEF entry
<1>3. list \in Seq(Writes) /\ DOMAIN list = {1} /\ list[1] = entry
  BY <1>1
<1> HIDE DEF list
<1>4. Orderly(Write(f, x)) /\ Write(f, x).ok
  BY <1>2, <1>3 DEF Orderly, Plans, Once
<1>5. Targets(Write(f, x)) = {f}
  BY <1>2, <1>3 DEF Targets, entry
<1>6. Says(Write(f, x), f, x)
  <2>1. Write(f, x).writes = list
    BY <1>2
  <2>2. 1 \in DOMAIN Write(f, x).writes /\ Write(f, x).writes[1] = entry
    BY <1>3, <2>1
  <2> QED BY <2>2 DEF Says, entry
<1>7. \A g, y : Says(Write(f, x), g, y) => g = f /\ y = x
  BY <1>2, <1>3 DEF Says, entry, Whole
<1> QED BY <1>4, <1>5, <1>6, <1>7

(* One plan after another, when they share no file: the second is carried   *)
(* out when the first does not raise.                                       *)
LEMMA Joined ==
  ASSUME NEW p, NEW q, Orderly(p), Orderly(q), Targets(p) \cap Targets(q) = {}
  PROVE  /\ Orderly(p \bullet q)
         /\ (p \bullet q).ok <=> p.ok /\ q.ok
         /\ Targets(p \bullet q) \subseteq Targets(p) \cup Targets(q)
         /\ \A f, x : Says(p, f, x) => Says(p \bullet q, f, x)
         /\ \A f, x : p.ok /\ Says(q, f, x) => Says(p \bullet q, f, x)
         /\ \A f, x : Says(p \bullet q, f, x) => Says(p, f, x) \/ Says(q, f, x)
<1> DEFINE v == p.writes
           w == q.writes
           all == v \o w
           pq == p \bullet q
<1>1. p \in Plans /\ q \in Plans /\ v \in Seq(Writes) /\ w \in Seq(Writes)
  BY DEF Orderly, Plans
<1>2. CASE ~p.ok
  <2>1. pq = p
    BY <1>2 DEF \bullet
  <2> QED BY <1>2, <2>1
<1>3. CASE p.ok
  <2>1. pq = [writes |-> all, ok |-> q.ok]
    BY <1>3 DEF \bullet
  <2>2. /\ DOMAIN v = 1..Len(v) /\ DOMAIN w = 1..Len(w)
        /\ Len(v) \in Nat /\ Len(w) \in Nat
    BY <1>1, LenProperties
  <2>3. /\ all \in Seq(Writes)
        /\ DOMAIN all = 1..Len(v) + Len(w)
        /\ \A i \in DOMAIN v : i \in DOMAIN all /\ all[i] = v[i]
        /\ \A i \in DOMAIN w : i + Len(v) \in DOMAIN all /\ all[i + Len(v)] = w[i]
        /\ \A i \in DOMAIN all :
             \/ i \in DOMAIN v
             \/ i - Len(v) \in DOMAIN w /\ all[i] = w[i - Len(v)]
    <3> HIDE DEF v, w
    <3>1. /\ all \in Seq(Writes)
          /\ Len(all) = Len(v) + Len(w)
          /\ \A i \in 1..Len(v) + Len(w) : all[i] = IF i <= Len(v) THEN v[i] ELSE w[i - Len(v)]
      BY <1>1, ConcatProperties
    <3>2. DOMAIN all = 1..Len(v) + Len(w)
      BY <3>1, LenProperties
    <3> HIDE DEF all
    <3> QED BY <2>2, <3>1, <3>2
  <2>4. /\ \A i, j \in DOMAIN v : v[i][1] = v[j][1] => i = j
        /\ \A i, j \in DOMAIN w : w[i][1] = w[j][1] => i = j
        /\ \A i \in DOMAIN v, j \in DOMAIN w : v[i][1] # w[j][1]
    BY DEF Orderly, Once, Targets
  <2> HIDE DEF v, w, all
  <2>5. Once(all)
    <3> SUFFICES ASSUME NEW i \in DOMAIN all, NEW j \in DOMAIN all, all[i][1] = all[j][1]
                 PROVE  i = j
      BY DEF Once
    <3>1. CASE i \in DOMAIN v /\ j \in DOMAIN v
      BY <2>3, <2>4, <3>1
    <3>2. CASE i \notin DOMAIN v /\ j \notin DOMAIN v
      <4>1. i - Len(v) \in DOMAIN w /\ j - Len(v) \in DOMAIN w
        BY <2>3, <3>2
      <4>2. w[i - Len(v)][1] = w[j - Len(v)][1]
        BY <2>3, <3>2
      <4>3. i - Len(v) = j - Len(v)
        BY <2>4, <4>1, <4>2
      <4> QED BY <2>2, <2>3, <4>3
    <3>3. CASE (i \in DOMAIN v) # (j \in DOMAIN v)
      BY <2>3, <2>4, <3>3
    <3> QED BY <3>1, <3>2, <3>3
  <2>6. /\ pq \in Plans /\ pq.writes = all /\ pq.ok = q.ok
    BY <1>1, <2>1, <2>3 DEF Plans
  <2>7. Targets(pq) \subseteq Targets(p) \cup Targets(q)
    <3> SUFFICES ASSUME NEW i \in DOMAIN all
                 PROVE  all[i][1] \in Targets(p) \cup Targets(q)
      BY <2>6 DEF Targets
    <3>1. CASE i \in DOMAIN v
      BY <2>3, <3>1 DEF Targets, v
    <3>2. CASE i - Len(v) \in DOMAIN w /\ all[i] = w[i - Len(v)]
      BY <3>2 DEF Targets, w
    <3> QED BY <2>3, <3>1, <3>2
  <2>8. ASSUME NEW f, NEW x
        PROVE  Says(pq, f, x) <=> Says(p, f, x) \/ Says(q, f, x)
    BY <2>3, <2>6, ZenonT(30) DEF Says, v, w
  <2> HIDE DEF pq
  <2> QED BY <1>3, <2>5, <2>6, <2>7, <2>8 DEF Orderly, pq
<1> QED BY <1>2, <1>3

(* A plan carried out: each file it writes holds what it says, the others   *)
(* what they held.                                                          *)
LEMMA LeftAlone ==
  ASSUME NEW F, NEW p, NEW f \in Names, f \notin Targets(p)
  PROVE  After(F, p.writes)[f] = F[f]
BY DEF After, Targets

LEMMA CarriedOut ==
  ASSUME NEW F, NEW p, Orderly(p), NEW f \in Names, NEW x, Says(p, f, x)
  PROVE  After(F, p.writes)[f] = Whole(x)
<1> DEFINE w == p.writes
           at == CHOOSE i \in DOMAIN w : w[i][1] = f
<1>1. PICK i \in DOMAIN w : w[i] = <<f, Whole(x)>>
  BY DEF Says
<1>2. at \in DOMAIN w /\ w[at][1] = f
  BY <1>1
<1>3. at = i
  BY <1>1, <1>2 DEF Orderly, Once
<1>4. After(F, w)[f] = w[at][2]
  BY <1>1 DEF After
<1>5. w[i][2] = Whole(x)
  BY <1>1
<1> HIDE DEF at
<1> QED BY <1>3, <1>4, <1>5

(* A listing of verdicts written out, one bundle per candidate. *)
LEMMA BundleWrites ==
  ASSUME NEW S \in SUBSET Cands, NEW listing \in [S -> Summary]
  PROVE  /\ Orderly(WriteBundles(listing)) /\ WriteBundles(listing).ok
         /\ Targets(WriteBundles(listing)) = {Bundle(c) : c \in S}
         /\ \A c \in S : Says(WriteBundles(listing), Bundle(c), listing[c])
<1> DEFINE order == InOrder(S)
           size == Cardinality(S)
           list == [i \in 1..size |-> <<Bundle(order[i]), Whole(listing[order[i]])>>]
<1>1. /\ size \in Nat
      /\ order \in [1..size -> S]
      /\ \A c \in S : \E i \in 1..size : order[i] = c
      /\ \A i, j \in 1..size : order[i] = order[j] => i = j
  BY PoolAssumption, InOrderLists DEF Cands
<1> HIDE DEF order, size
<1>2. WriteBundles(listing) = [writes |-> list, ok |-> TRUE]
  BY <1>1 DEF WriteBundles, order
<1>3. \A c \in S : <<Bundle(c), Whole(listing[c])>> \in Writes
  <2> SUFFICES ASSUME NEW c \in S
               PROVE  <<Bundle(c), Whole(listing[c])>> \in Writes
    OBVIOUS
  <2>1. Bundle(c) \in Names /\ Content(Bundle(c)) = Summary
    BY BundleContent DEF Names
  <2> QED BY <2>1 DEF Writes, Written, Whole
<1>4. list \in [1..size -> Writes]
  BY <1>1, <1>3
<1>5. list \in Seq(Writes) /\ DOMAIN list = 1..size
  <2> HIDE DEF list
  <2> QED BY <1>1, <1>4, ListIsSeq
<1>6. \A i \in 1..size : list[i] = <<Bundle(order[i]), Whole(listing[order[i]])>>
  OBVIOUS
<1> HIDE DEF list
<1>7. Once(list)
  <2>1. \A c, d : Bundle(c) = Bundle(d) => c = d
    BY DEF Bundle
  <2> QED BY <1>1, <1>5, <1>6, <2>1 DEF Once
<1>8. Orderly(WriteBundles(listing)) /\ WriteBundles(listing).ok
  BY <1>2, <1>5, <1>7 DEF Orderly, Plans
<1>9. WriteBundles(listing).writes = list
  BY <1>2
<1>10. Targets(WriteBundles(listing)) = {list[i][1] : i \in 1..size}
  BY <1>5, <1>9 DEF Targets
<1>11. {list[i][1] : i \in 1..size} = {Bundle(c) : c \in S}
  BY <1>1, <1>6
<1>12. ASSUME NEW c \in S
       PROVE  Says(WriteBundles(listing), Bundle(c), listing[c])
  <2>1. PICK i \in 1..size : order[i] = c
    BY <1>1
  <2>2. i \in DOMAIN list /\ list[i] = <<Bundle(c), Whole(listing[c])>>
    BY <1>5, <1>6, <2>1
  <2> QED BY <1>9, <2>2 DEF Says
<1> QED BY <1>8, <1>10, <1>11, <1>12

LEMMA SaysTargets ==
  \A p, f, x : Says(p, f, x) => f \in Targets(p)
<1> SUFFICES ASSUME NEW p, NEW f, NEW x, Says(p, f, x)
             PROVE  f \in Targets(p)
  OBVIOUS
<1>1. PICK i \in DOMAIN p.writes : p.writes[i] = <<f, Whole(x)>>
  BY DEF Says
<1> QED BY <1>1 DEF Targets

LEMMA AddWrite ==
  ASSUME NEW p, Orderly(p), NEW f \in Names, NEW x \in Content(f), f \notin Targets(p)
  PROVE  LET q == p \bullet Write(f, x)
         IN /\ Orderly(q) /\ (q.ok <=> p.ok)
            /\ Targets(q) \subseteq Targets(p) \cup {f}
            /\ p.ok => Says(q, f, x)
            /\ \A g, y : Says(p, g, y) => Says(q, g, y)
            /\ \A g, y : Says(q, g, y) => Says(p, g, y) \/ (g = f /\ y = x)
<1> DEFINE w == Write(f, x)
<1>1. /\ Orderly(w) /\ w.ok /\ Targets(w) = {f} /\ Says(w, f, x)
      /\ \A g, y : Says(w, g, y) => g = f /\ y = x
  BY OneWrite
<1> HIDE DEF w
<1>2. Targets(p) \cap Targets(w) = {}
  BY <1>1
<1>3. LET q == p \bullet w
      IN /\ Orderly(q) /\ (q.ok <=> p.ok)
         /\ Targets(q) \subseteq Targets(p) \cup {f}
         /\ p.ok => Says(q, f, x)
         /\ \A g, y : Says(p, g, y) => Says(q, g, y)
         /\ \A g, y : Says(q, g, y) => Says(p, g, y) \/ (g = f /\ y = x)
  BY <1>1, <1>2, Joined
<1> QED BY <1>3 DEF w

(* The plan of a pool import: what it writes, and that with the manifest    *)
(* there the manifest is written, without it not.                           *)
LEMMA PoolSyncWrites ==
  ASSUME FilesOK, NEW labels \in Seq(Label),
         NEW log, log = Merge(Log(PoolLabels), labels),
         NEW updated, updated = [c \in DOMAIN Listing |-> Latest(log, c)],
         NEW plan, plan = PoolSyncPlan(labels)
  PROVE  /\ Orderly(plan)
         /\ Targets(plan) \subseteq PoolFiles
         /\ \A x : Says(plan, PoolLabels, x) => x = log
         /\ PoolManifest \in Targets(plan) => Exists(PoolManifest)
         /\ plan.ok =>
              /\ PoolLoads
              /\ Says(plan, PoolLabels, log)
              /\ \A c \in DOMAIN Listing : Says(plan, Bundle(c), updated[c])
              /\ \A c \in Cands : Bundle(c) \in Targets(plan) => c \in DOMAIN Listing
              /\ Says(plan, PoolReport, Tally(updated))
              /\ Exists(PoolManifest) =>
                   /\ Says(plan, PoolManifest, PoolManifestOf(updated))
                   /\ Says(plan, PoolAlpha, updated)
<1>1. CASE ~PoolLoads
  <2>1. plan = Raise
    BY <1>1 DEF PoolSyncPlan
  <2> QED BY <2>1, NoWrites
<1>2. CASE PoolLoads
  <2> DEFINE S == DOMAIN Listing
             alpha == [c \in DOMAIN Held(PoolAlpha) |-> Latest(log, c)]
             manifests ==
               IF ~Exists(PoolManifest) THEN Nothing
               ELSE Write(PoolManifest, PoolManifestOf(updated))
                      \bullet (IF IsWhole(PoolAlpha) THEN Write(PoolAlpha, alpha) ELSE Raise)
             p1 == Write(PoolLabels, log)
             p2 == WriteBundles(updated)
             p12 == p1 \bullet p2
             p123 == p12 \bullet manifests
  <2>1. plan = p123 \bullet Write(PoolReport, Tally(updated))
    BY <1>2 DEF PoolSyncPlan
  <2>2. log \in Histories /\ log \in Seq(Decided)
    <3>1. Log(PoolLabels) \in Histories
      BY FilesRead DEF Logs
    <3> QED BY <3>1, MergeGrows DEF Histories
  <2>3. /\ S \in SUBSET Cands /\ (Exists(PoolManifest) => S = Cands)
        /\ updated \in [S -> Summary]
    BY <1>2, <2>2, ListingRead, LatestVerdict
  <2>4. /\ {PoolLabels, PoolManifest, PoolAlpha, PoolReport} \subseteq Names
        /\ Bundles \subseteq Names
        /\ {PoolLabels, PoolManifest, PoolAlpha, PoolReport} \cap Bundles = {}
        /\ Distinct(<<PoolLabels, PoolManifest, PoolAlpha, PoolReport>>)
    BY DEF Names, Logs, PoolLabels, PoolManifest, PoolAlpha, PoolReport, Bundles, Bundle,
           Distinct
  <2>5. /\ PoolLabels \notin {PoolManifest, PoolAlpha, PoolReport}
        /\ PoolManifest \notin {PoolAlpha, PoolReport}
        /\ PoolAlpha # PoolReport
    BY DEF PoolLabels, PoolManifest, PoolAlpha, PoolReport
  <2>6. /\ Orderly(p1) /\ p1.ok /\ Targets(p1) = {PoolLabels} /\ Says(p1, PoolLabels, log)
        /\ \A x : Says(p1, PoolLabels, x) => x = log
    BY <2>2, <2>4, OneWrite, PoolContent
  <2>7. /\ Orderly(p2) /\ p2.ok /\ Targets(p2) = {Bundle(c) : c \in S}
        /\ \A c \in S : Says(p2, Bundle(c), updated[c])
        /\ Targets(p2) \subseteq Bundles
    <3>1. /\ Orderly(p2) /\ p2.ok /\ Targets(p2) = {Bundle(c) : c \in S}
          /\ \A c \in S : Says(p2, Bundle(c), updated[c])
      BY <2>3, BundleWrites
    <3>2. {Bundle(c) : c \in S} \subseteq Bundles
      BY <2>3 DEF Bundles
    <3> HIDE DEF p2
    <3> QED BY <3>1, <3>2
  <2>8. /\ Orderly(manifests) /\ Targets(manifests) \subseteq {PoolManifest, PoolAlpha}
        /\ PoolManifest \in Targets(manifests) => Exists(PoolManifest)
        /\ manifests.ok /\ Exists(PoolManifest) =>
             /\ Says(manifests, PoolManifest, PoolManifestOf(updated))
             /\ Says(manifests, PoolAlpha, updated)
    <3>1. CASE ~Exists(PoolManifest)
      BY <3>1, NoWrites
    <3>2. CASE Exists(PoolManifest)
      <4> DEFINE m == Write(PoolManifest, PoolManifestOf(updated))
      <4>1. updated \in [Cands -> Summary]
        BY <2>3, <3>2
      <4>2. PoolManifestOf(updated) \in Content(PoolManifest)
        <5>1. Eligible(updated) \in SUBSET Cands
          BY <4>1 DEF Eligible
        <5>2. Cardinality(Eligible(updated)) \in Nat
          BY <5>1, CountOf
        <5> QED BY <4>1, <5>2, PoolContent DEF PoolManifestOf
      <4>3. /\ Orderly(m) /\ m.ok /\ Targets(m) = {PoolManifest}
            /\ Says(m, PoolManifest, PoolManifestOf(updated))
        BY <2>4, <4>2, OneWrite
      <4>4. CASE ~IsWhole(PoolAlpha)
        <5>1. manifests = m \bullet Raise
          BY <3>2, <4>4
        <5> HIDE DEF m, manifests
        <5>2. Targets(m) \cap Targets(Raise) = {}
          BY NoWrites
        <5> QED BY <3>2, <4>3, <5>1, <5>2, NoWrites, Joined
      <4>5. CASE IsWhole(PoolAlpha)
        <5>1. manifests = m \bullet Write(PoolAlpha, alpha)
          BY <3>2, <4>5
        <5>2. Held(PoolAlpha) \in [Cands -> Summary]
          BY <2>4, <4>5, FilesRead, PoolContent
        <5>3. alpha = updated
          BY <2>3, <3>2, <5>2
        <5>4. alpha \in Content(PoolAlpha)
          BY <4>1, <5>3, PoolContent
        <5> HIDE DEF m, manifests, alpha
        <5>5. PoolAlpha \notin Targets(m)
          BY <2>5, <4>3
        <5> QED BY <2>4, <3>2, <4>3, <5>1, <5>3, <5>4, <5>5, AddWrite
      <4> QED BY <4>4, <4>5
    <3> QED BY <3>1, <3>2
  <2> HIDE DEF p1, p2, manifests
  <2>9. /\ Orderly(p12) /\ p12.ok
        /\ Targets(p12) \subseteq {PoolLabels} \cup Targets(p2)
        /\ Says(p12, PoolLabels, log)
        /\ \A c \in S : Says(p12, Bundle(c), updated[c])
        /\ \A x : Says(p12, PoolLabels, x) => x = log
    <3>1. Targets(p1) \cap Targets(p2) = {}
      BY <2>4, <2>6, <2>7
    <3>2. \A x : ~Says(p2, PoolLabels, x)
      BY <2>4, <2>7, SaysTargets
    <3> QED BY <2>6, <2>7, <3>1, <3>2, Joined
  <2> HIDE DEF p12
  <2>10. /\ Orderly(p123) /\ (p123.ok <=> manifests.ok)
         /\ Targets(p123) \subseteq {PoolLabels} \cup Targets(p2) \cup Targets(manifests)
         /\ \A f, x : Says(p12, f, x) => Says(p123, f, x)
         /\ \A f, x : Says(manifests, f, x) => Says(p123, f, x)
         /\ \A x : Says(p123, PoolLabels, x) => x = log
    <3>1. Targets(p12) \cap Targets(manifests) = {}
      BY <2>4, <2>5, <2>7, <2>8, <2>9
    <3>2. \A x : ~Says(manifests, PoolLabels, x)
      BY <2>5, <2>8, SaysTargets
    <3> QED BY <2>8, <2>9, <3>1, <3>2, Joined
  <2> HIDE DEF p123
  <2>11. Tally(updated) \in Content(PoolReport)
    <3>1. updated \in Reviews
      BY <2>3 DEF Reviews
    <3> QED BY <3>1, CountOf, PoolContent
  <2>12. PoolReport \notin Targets(p123)
    BY <2>4, <2>5, <2>7, <2>8, <2>10
  <2>13. /\ Orderly(plan) /\ (plan.ok <=> p123.ok)
         /\ Targets(plan) \subseteq Targets(p123) \cup {PoolReport}
         /\ plan.ok => Says(plan, PoolReport, Tally(updated))
         /\ \A f, x : Says(p123, f, x) => Says(plan, f, x)
         /\ \A f, x : Says(plan, f, x) => Says(p123, f, x) \/ f = PoolReport
    BY <2>1, <2>4, <2>10, <2>11, <2>12, AddWrite
  <2>14. Targets(plan) \subseteq PoolFiles
    BY <2>7, <2>8, <2>10, <2>13 DEF PoolFiles
  <2>15. \A x : Says(plan, PoolLabels, x) => x = log
    BY <2>5, <2>10, <2>13
  <2>16. PoolManifest \in Targets(plan) => Exists(PoolManifest)
    BY <2>4, <2>5, <2>7, <2>8, <2>10, <2>13
  <2>17. \A c \in Cands : Bundle(c) \in Targets(plan) => c \in S
    <3> SUFFICES ASSUME NEW c \in Cands, Bundle(c) \in Targets(plan)
                 PROVE  c \in S
      OBVIOUS
    <3>1. Bundle(c) \in Targets(p2)
      BY <2>4, <2>8, <2>10, <2>13 DEF Bundles
    <3>2. PICK d \in S : Bundle(c) = Bundle(d)
      BY <2>7, <3>1
    <3> QED BY <3>2 DEF Bundle
  <2> QED BY <1>2, <2>8, <2>9, <2>10, <2>13, <2>14, <2>15, <2>16, <2>17
<1> QED BY <1>1, <1>2

(* What holds of it whatever it writes.                                     *)
LEMMA PoolSyncShape ==
  ASSUME FilesOK, NEW labels \in Seq(Label)
  PROVE  /\ Orderly(PoolSyncPlan(labels))
         /\ Targets(PoolSyncPlan(labels)) \subseteq PoolFiles
         /\ \A x : Says(PoolSyncPlan(labels), PoolLabels, x) => x = Merge(Log(PoolLabels), labels)
         /\ PoolManifest \in Targets(PoolSyncPlan(labels)) => Exists(PoolManifest)
<1> DEFINE log == Merge(Log(PoolLabels), labels)
           updated == [c \in DOMAIN Listing |-> Latest(log, c)]
           plan == PoolSyncPlan(labels)
<1>1. /\ log = Merge(Log(PoolLabels), labels)
      /\ updated = [c \in DOMAIN Listing |-> Latest(log, c)]
      /\ plan = PoolSyncPlan(labels)
  OBVIOUS
<1> HIDE DEF log, updated, plan
<1>2. /\ Orderly(plan) /\ Targets(plan) \subseteq PoolFiles
      /\ \A x : Says(plan, PoolLabels, x) => x = log
      /\ PoolManifest \in Targets(plan) => Exists(PoolManifest)
  BY <1>1, PoolSyncWrites
<1> QED BY <1>1, <1>2

(* A disk on which a pool import has written what it says agrees in all its *)
(* copies of a verdict.                                                     *)
LEMMA PoolAgreesAfter ==
  ASSUME FilesOK, NEW labels \in Seq(Label), NEW plan, plan = PoolSyncPlan(labels), plan.ok,
         NEW F,
         \A f \in PoolFiles : \A x : Says(plan, f, x) => F[f] = Whole(x),
         \A f \in PoolFiles : f \notin Targets(plan) => F[f] = files[f]
  PROVE  /\ PoolAgrees(F)
         /\ LogOf(F, PoolLabels) = Merge(Log(PoolLabels), labels)
         /\ F[PoolManifest].is # "absent" <=> Exists(PoolManifest)
         /\ StockOf(F) = DOMAIN Listing
<1> DEFINE log == Merge(Log(PoolLabels), labels)
           updated == [c \in DOMAIN Listing |-> Latest(log, c)]
           S == DOMAIN Listing
<1>1. /\ PoolManifest \in Targets(plan) => Exists(PoolManifest)
      /\ PoolLoads
      /\ Says(plan, PoolLabels, log)
      /\ \A c \in S : Says(plan, Bundle(c), updated[c])
      /\ \A c \in Cands : Bundle(c) \in Targets(plan) => c \in S
      /\ Says(plan, PoolReport, Tally(updated))
      /\ Exists(PoolManifest) =>
           /\ Says(plan, PoolManifest, PoolManifestOf(updated))
           /\ Says(plan, PoolAlpha, updated)
  BY PoolSyncWrites
<1>2. S = StockOf(files) /\ S \subseteq Cands /\ (Exists(PoolManifest) => S = Cands)
  BY <1>1, ListingRead
<1>3. \A c \in S : updated[c] = Latest(log, c)
  OBVIOUS
<1>4. updated = [c \in S |-> Latest(log, c)]
  OBVIOUS
<1> HIDE DEF log, updated, S
<1>5. /\ {PoolLabels, PoolManifest, PoolAlpha, PoolReport} \subseteq PoolFiles
      /\ \A c \in Cands : Bundle(c) \in PoolFiles
  BY DEF PoolFiles, Bundles
<1>6. F[PoolLabels] = Whole(log) /\ F[PoolReport] = Whole(Tally(updated))
  BY <1>1, <1>5
<1>7. \A c \in S : F[Bundle(c)] = Whole(updated[c])
  BY <1>1, <1>2, <1>5
<1>8. \A c \in Cands : c \notin S => F[Bundle(c)] = files[Bundle(c)]
  BY <1>1, <1>5
<1>9. \A x : Whole(x).is = "whole" /\ Whole(x).holds = x
  BY DEF Whole
<1>10. LogOf(F, PoolLabels) = log
  BY <1>6, <1>9 DEF LogOf
<1>11. Exists(PoolManifest) => /\ F[PoolManifest] = Whole(PoolManifestOf(updated))
                               /\ F[PoolAlpha] = Whole(updated)
  BY <1>1, <1>5
<1>12. ~Exists(PoolManifest) => F[PoolManifest] = files[PoolManifest]
  BY <1>1, <1>5
<1>13. F[PoolManifest].is # "absent" <=> Exists(PoolManifest)
  BY <1>9, <1>11, <1>12 DEF Exists
<1>14. StockOf(F) = S
  <2>1. CASE Exists(PoolManifest)
    <3>1. F[PoolManifest].holds.candidates = updated
      BY <1>9, <1>11, <2>1 DEF PoolManifestOf
    <3>2. DOMAIN updated = S
      BY <1>4
    <3> QED BY <1>13, <2>1, <3>1, <3>2 DEF StockOf
  <2>2. CASE ~Exists(PoolManifest)
    <3>1. S = {c \in Cands : files[Bundle(c)].is # "absent"}
      BY <1>2, <2>2 DEF StockOf, Exists
    <3>2. \A c \in Cands : F[Bundle(c)].is # "absent" <=> c \in S
      BY <1>7, <1>8, <1>9, <3>1
    <3>3. StockOf(F) = {c \in Cands : F[Bundle(c)].is # "absent"}
      BY <1>13, <2>2 DEF StockOf
    <3> QED BY <1>2, <3>2, <3>3
  <2> QED BY <2>1, <2>2
<1>15. PoolAgrees(F)
  <2>1. [c \in StockOf(F) |-> Latest(LogOf(F, PoolLabels), c)] = updated
    BY <1>4, <1>10, <1>14
  <2> QED BY <1>6, <1>7, <1>11, <1>13, <1>14, <2>1 DEF PoolAgrees
<1> QED BY <1>10, <1>13, <1>14, <1>15 DEF log, S

(* What an exam import writes once it knows the verdicts. *)
LEMMA ExamRefreshWrites ==
  ASSUME FilesOK, IsWhole(ExamManifest), IsWhole(Result), NEW summary \in [Cands -> Summary],
         NEW reviews, reviews = [c \in Held(Result).selected |-> summary[c]],
         NEW report, report = DiscardReport(Held(Outcomes), reviews),
         NEW plan, plan = ExamRefreshPlan(summary)
  PROVE  /\ Orderly(plan)
         /\ Targets(plan) \subseteq {ExamManifest, Template, Discard, DiscardRate, Regenerate,
                                     ExamReport, Result}
         /\ plan.ok =>
              /\ Says(plan, ExamManifest, [c \in DOMAIN Held(ExamManifest) |-> summary[c]])
              /\ Says(plan, Template, reviews)
              /\ Says(plan, Discard, report)
              /\ Says(plan, DiscardRate, report)
              /\ Says(plan, Regenerate, ToRegenerate(reviews))
              /\ Says(plan, Result, [Held(Result) EXCEPT !.discard = report])
<1> DEFINE listed == DOMAIN Held(ExamManifest)
           reported == [c \in listed |-> IF c \in DOMAIN reviews THEN reviews[c] ELSE "none"]
           manifest == [c \in listed |-> summary[c]]
           result == [Held(Result) EXCEPT !.discard = report]
           p1 == Write(ExamManifest, manifest)
           p12 == p1 \bullet Write(Template, reviews)
           r1 == Write(Discard, report)
           r2 == r1 \bullet Write(DiscardRate, report)
           r3 == r2 \bullet Write(Regenerate, ToRegenerate(reviews))
           r4 == r3 \bullet Write(ExamReport, Tally(reported))
           r5 == r4 \bullet Write(Result, result)
           rest == IF IsWhole(Outcomes) THEN r5 ELSE Raise
<1>0. plan = p12 \bullet rest
  BY DEF ExamRefreshPlan
<1>1. {ExamManifest, Template, Outcomes, DiscardRate, Discard, Regenerate, ExamReport, Result}
        \subseteq Names
  BY ExamContent
<1>2. Held(ExamManifest) \in Reviews
  BY <1>1, FilesRead, ExamContent
<1>3. Held(Result) \in [selected : SUBSET Cands, discard : Reports]
  BY <1>1, FilesRead, ExamContent
<1>4. listed \in SUBSET Cands
  BY <1>2 DEF Reviews
<1>5. manifest \in Reviews
  <2>1. manifest \in [listed -> Summary]
    BY <1>4
  <2> HIDE DEF manifest, listed
  <2> QED BY <1>4, <2>1 DEF Reviews
<1>6. reviews \in Reviews /\ DOMAIN reviews \in SUBSET Cands
      /\ \A c \in DOMAIN reviews : reviews[c] \in Summary
  <2>1. Held(Result).selected \in SUBSET Cands
    BY <1>3
  <2>2. reviews \in [Held(Result).selected -> Summary]
    BY <2>1
  <2> QED BY <2>1, <2>2 DEF Reviews
<1>7. ToRegenerate(reviews) \in SUBSET Cands
  BY <1>6 DEF ToRegenerate
<1>8. Tally(reported) \in Counts
  <2>1. reported \in [listed -> Summary]
    BY <1>6 DEF Summary
  <2>2. reported \in Reviews
    <3> HIDE DEF reported, listed
    <3> QED BY <1>4, <2>1 DEF Reviews
  <2> QED BY <2>2, CountOf
<1>9. IsWhole(Outcomes) => report \in Reports
  <2>1. IsWhole(Outcomes) => Held(Outcomes) \in [selected : SUBSET Cands, discarded : SUBSET Cands]
    BY <1>1, FilesRead, ExamContent
  <2> QED BY <1>6, <2>1, ReportsCount
<1>10. report \in Reports => result \in [selected : SUBSET Cands, discard : Reports]
  BY <1>3
<1> HIDE DEF listed, reported, manifest, result
<1>11. /\ ExamManifest \notin {Template, Discard, DiscardRate, Regenerate, ExamReport, Result}
       /\ Template \notin {Discard, DiscardRate, Regenerate, ExamReport, Result}
       /\ Discard \notin {DiscardRate, Regenerate, ExamReport, Result}
       /\ DiscardRate \notin {Regenerate, ExamReport, Result}
       /\ Regenerate \notin {ExamReport, Result}
       /\ ExamReport # Result
  BY DEF ExamManifest, Template, Discard, DiscardRate, Regenerate, ExamReport, Result
<1>12. /\ Orderly(p1) /\ p1.ok /\ Targets(p1) = {ExamManifest}
       /\ Says(p1, ExamManifest, manifest)
  BY <1>1, <1>5, OneWrite, ExamContent
<1> HIDE DEF p1
<1>13. /\ Orderly(p12) /\ p12.ok /\ Targets(p12) \subseteq {ExamManifest, Template}
       /\ Says(p12, ExamManifest, manifest) /\ Says(p12, Template, reviews)
  BY <1>1, <1>6, <1>11, <1>12, AddWrite, ExamContent
<1>14. ASSUME IsWhole(Outcomes)
       PROVE  /\ Orderly(r5)
              /\ Targets(r5) \subseteq {Discard, DiscardRate, Regenerate, ExamReport, Result}
              /\ Says(r5, Discard, report) /\ Says(r5, DiscardRate, report)
              /\ Says(r5, Regenerate, ToRegenerate(reviews)) /\ Says(r5, Result, result)
  <2>1. report \in Reports
    BY <1>9, <1>14
  <2>2. Orderly(r1) /\ r1.ok /\ Targets(r1) = {Discard} /\ Says(r1, Discard, report)
    BY <1>1, <2>1, OneWrite, ExamContent
  <2> HIDE DEF r1
  <2>3. /\ Orderly(r2) /\ r2.ok /\ Targets(r2) \subseteq {Discard, DiscardRate}
        /\ Says(r2, DiscardRate, report)
        /\ \A g, y : Says(r1, g, y) => Says(r2, g, y)
    BY <1>1, <1>11, <2>1, <2>2, AddWrite, ExamContent
  <2> HIDE DEF r2
  <2>4. /\ Orderly(r3) /\ r3.ok /\ Targets(r3) \subseteq {Discard, DiscardRate, Regenerate}
        /\ Says(r3, Regenerate, ToRegenerate(reviews))
        /\ \A g, y : Says(r2, g, y) => Says(r3, g, y)
    BY <1>1, <1>7, <1>11, <2>3, AddWrite, ExamContent
  <2> HIDE DEF r3
  <2>5. /\ Orderly(r4) /\ r4.ok
        /\ Targets(r4) \subseteq {Discard, DiscardRate, Regenerate, ExamReport}
        /\ \A g, y : Says(r3, g, y) => Says(r4, g, y)
    BY <1>1, <1>8, <1>11, <2>4, AddWrite, ExamContent
  <2> HIDE DEF r4
  <2>6. /\ Orderly(r5)
        /\ Targets(r5) \subseteq {Discard, DiscardRate, Regenerate, ExamReport, Result}
        /\ Says(r5, Result, result)
        /\ \A g, y : Says(r4, g, y) => Says(r5, g, y)
    BY <1>1, <1>10, <1>11, <2>1, <2>5, AddWrite, ExamContent
  <2> QED BY <2>2, <2>3, <2>4, <2>5, <2>6
<1> HIDE DEF p12, r5
<1>15. CASE IsWhole(Outcomes)
  <2>1. plan = p12 \bullet r5
    BY <1>0, <1>15
  <2>2. Targets(p12) \cap Targets(r5) = {}
    BY <1>11, <1>13, <1>14, <1>15
  <2> QED BY <1>13, <1>14, <1>15, <2>1, <2>2, Joined DEF manifest, listed, result
<1>16. CASE ~IsWhole(Outcomes)
  <2>1. plan = p12 \bullet Raise
    BY <1>0, <1>16
  <2>2. Targets(p12) \cap Targets(Raise) = {}
    BY NoWrites
  <2> QED BY <1>13, <2>1, <2>2, NoWrites, Joined
<1> QED BY <1>15, <1>16

(* An exam import's copies of the verdicts summary gives. *)
WritesVerdicts(plan, summary) ==
  LET reviews == [c \in Held(Result).selected |-> summary[c]]
      report == DiscardReport(Held(Outcomes), reviews)
  IN /\ Says(plan, ExamManifest, [c \in DOMAIN Held(ExamManifest) |-> summary[c]])
     /\ Says(plan, Template, reviews)
     /\ Says(plan, Discard, report)
     /\ Says(plan, DiscardRate, report)
     /\ Says(plan, Regenerate, ToRegenerate(reviews))
     /\ Says(plan, Result, [Held(Result) EXCEPT !.discard = report])

(* The verdict on a candidate is the pool's, where it has one. *)
ExamSummary(log, listed, poolLog) ==
  [c \in Cands |->
     LET told == IF Exists(PoolManifest) THEN Latest(poolLog, c) ELSE Held(Bundle(c))
     IN IF c \in listed /\ told # "none" THEN told ELSE Latest(log, c)]

(* The plan of an exam import.  With the pool's manifest there, the pool is *)
(* told of the exam's labels on the listed candidates (forPool).            *)
LEMMA ExamSyncWrites ==
  ASSUME FilesOK, NEW labels \in Seq(Label),
         NEW log, log = Merge(Log(ExamLabels), labels),
         NEW listed, listed = DOMAIN Held(ExamManifest),
         NEW forPool, forPool = Kept(log, {i \in DOMAIN log : log[i].cand \in listed}),
         NEW pool, pool = PoolSyncPlan(forPool),
         NEW plan, plan = ExamSyncPlan(labels)
  PROVE  /\ Orderly(plan) /\ Targets(plan) \subseteq Names
         /\ \A x : Says(plan, ExamLabels, x) => x = log
         /\ \A x : Says(plan, PoolLabels, x) => x = Merge(Log(PoolLabels), forPool)
         /\ PoolManifest \in Targets(plan) => Exists(PoolManifest)
         /\ forPool \in Seq(Label)
         /\ plan.ok =>
              /\ IsWhole(ExamManifest) /\ IsWhole(Result)
              /\ Outcomes \notin Targets(plan)
              /\ Says(plan, ExamLabels, log)
              /\ Exists(PoolManifest) =>
                   /\ pool.ok
                   /\ \A f, x : Says(pool, f, x) => Says(plan, f, x)
                   /\ Targets(plan) \cap PoolFiles \subseteq Targets(pool)
              /\ WritesVerdicts(plan, ExamSummary(log, listed, Merge(Log(PoolLabels), forPool)))
<1> DEFINE poolLog == Merge(Log(PoolLabels), forPool)
           bundle == [c \in listed |-> IF Exists(PoolManifest) THEN Latest(poolLog, c)
                                       ELSE Held(Bundle(c))]
           summary == [c \in Cands |-> IF c \in listed /\ bundle[c] # "none"
                                       THEN bundle[c] ELSE Latest(log, c)]
           readable == Exists(PoolManifest) \/ \A c \in listed : IsWhole(Bundle(c))
           reviews == [c \in Held(Result).selected |-> summary[c]]
           report == DiscardReport(Held(Outcomes), reviews)
           first == Write(ExamLabels, log)
           told == IF Exists(PoolManifest) THEN pool ELSE Nothing
           both == first \bullet told
           refresh == IF readable THEN ExamRefreshPlan(summary) ELSE Raise
<1>1. /\ log \in Histories /\ log \in Seq(Decided)
      /\ Log(PoolLabels) \in Histories
  <2>1. Log(ExamLabels) \in Histories /\ Log(PoolLabels) \in Histories
    BY FilesRead DEF Logs
  <2> QED BY <2>1, MergeGrows DEF Histories
<1>2. forPool \in Seq(Label)
  <2> DEFINE S == {i \in DOMAIN log : log[i].cand \in listed}
  <2>1. S \in SUBSET (DOMAIN log)
    OBVIOUS
  <2>2. forPool \in Seq(Decided)
    <3> HIDE DEF S
    <3>1. Kept(log, S) \in Seq(Decided)
      BY <1>1, <2>1, KeptElements
    <3> QED BY <3>1 DEF S
  <2>3. Decided \subseteq Label
    BY DEF Decided, Label
  <2> QED BY <2>2, <2>3, SeqMonotonic
<1>3. poolLog \in Seq(Decided)
  BY <1>1, <1>2, MergeGrows DEF Histories
<1>4. CASE ~IsWhole(ExamManifest) \/ ~IsWhole(Result)
  <2>1. plan = Raise
    BY <1>4 DEF ExamSyncPlan
  <2> QED BY <1>2, <2>1, NoWrites
<1>5. CASE IsWhole(ExamManifest) /\ IsWhole(Result)
  <2>1. plan = both \bullet refresh
    BY <1>5 DEF ExamSyncPlan
  <2>2. listed \in SUBSET Cands
    <3>1. Held(ExamManifest) \in Reviews
      BY <1>5, FilesRead, ExamContent
    <3> QED BY <3>1 DEF Reviews
  <2>3. readable => summary \in [Cands -> Summary]
    <3> SUFFICES ASSUME readable, NEW c \in Cands
                 PROVE  (IF c \in listed /\ bundle[c] # "none"
                         THEN bundle[c] ELSE Latest(log, c)) \in Summary
      OBVIOUS
    <3>1. Latest(log, c) \in Summary /\ Latest(poolLog, c) \in Summary
      BY <1>1, <1>3, LatestVerdict
    <3>2. ASSUME c \in listed, ~Exists(PoolManifest)
          PROVE  Held(Bundle(c)) \in Summary
      BY <3>2, FilesRead, BundleContent
    <3> QED BY <3>1, <3>2
  <2>4. summary = ExamSummary(log, listed, poolLog)
    BY DEF ExamSummary
  <2> HIDE DEF bundle, summary, readable
  <2>5. /\ Orderly(first) /\ first.ok /\ Targets(first) = {ExamLabels}
        /\ Says(first, ExamLabels, log)
        /\ \A x : Says(first, ExamLabels, x) => x = log
    BY <1>1, OneWrite, ExamContent
  <2>6. /\ Orderly(told) /\ Targets(told) \subseteq PoolFiles
        /\ \A x : Says(told, PoolLabels, x) => x = poolLog
        /\ PoolManifest \in Targets(told) => Exists(PoolManifest)
    <3>1. /\ Orderly(pool) /\ Targets(pool) \subseteq PoolFiles
          /\ \A x : Says(pool, PoolLabels, x) => x = poolLog
          /\ PoolManifest \in Targets(pool) => Exists(PoolManifest)
      BY <1>2, PoolSyncShape
    <3>2. CASE Exists(PoolManifest)
      BY <3>1, <3>2
    <3>3. CASE ~Exists(PoolManifest)
      BY <3>3, NoWrites
    <3> QED BY <3>2, <3>3
  <2>7. /\ Orderly(refresh)
        /\ Targets(refresh) \subseteq {ExamManifest, Template, Discard, DiscardRate, Regenerate,
                                       ExamReport, Result}
        /\ refresh.ok =>
              /\ readable
              /\ Says(refresh, ExamManifest, [c \in listed |-> summary[c]])
              /\ Says(refresh, Template, reviews)
              /\ Says(refresh, Discard, report)
              /\ Says(refresh, DiscardRate, report)
              /\ Says(refresh, Regenerate, ToRegenerate(reviews))
              /\ Says(refresh, Result, [Held(Result) EXCEPT !.discard = report])
    <3>1. CASE readable
      BY <1>5, <2>3, <3>1, ExamRefreshWrites
    <3>2. CASE ~readable
      BY <3>2, NoWrites
    <3> QED BY <3>1, <3>2
  <2> HIDE DEF first, told, refresh
  <2>8. /\ {ExamLabels, ExamManifest, Template, Outcomes, Discard, DiscardRate, Regenerate,
            ExamReport, Result} \cap PoolFiles = {}
        /\ ExamLabels \notin {ExamManifest, Template, Discard, DiscardRate, Regenerate,
                              ExamReport, Result}
        /\ Outcomes \notin {ExamLabels, ExamManifest, Template, Discard, DiscardRate, Regenerate,
                            ExamReport, Result}
        /\ PoolLabels \in PoolFiles /\ PoolManifest \in PoolFiles
    <3>1. /\ {ExamLabels, ExamManifest, Template, Outcomes, Discard, DiscardRate, Regenerate,
            ExamReport, Result} \cap PoolFiles = {}
      BY ExamContent DEF ExamFiles
    <3>2. /\ ExamLabels \notin {ExamManifest, Template, Discard, DiscardRate, Regenerate,
                              ExamReport, Result}
          /\ Outcomes \notin {ExamLabels, ExamManifest, Template, Discard, DiscardRate,
                              Regenerate, ExamReport, Result}
      BY DEF ExamLabels, ExamManifest, Template, Outcomes, Discard, DiscardRate, Regenerate,
             ExamReport, Result
    <3> QED BY <3>1, <3>2 DEF PoolFiles
  <2>9. /\ Orderly(both) /\ (both.ok <=> told.ok)
        /\ Targets(both) \subseteq {ExamLabels} \cup Targets(told)
        /\ Says(both, ExamLabels, log)
        /\ \A f, x : Says(told, f, x) => Says(both, f, x)
        /\ \A f, x : Says(both, f, x) => Says(first, f, x) \/ Says(told, f, x)
    <3>1. Targets(first) \cap Targets(told) = {}
      BY <2>5, <2>6, <2>8
    <3> QED BY <2>5, <2>6, <3>1, Joined
  <2> HIDE DEF both
  <2>10. /\ Orderly(plan) /\ (plan.ok <=> both.ok /\ refresh.ok)
         /\ Targets(plan) \subseteq Targets(both) \cup Targets(refresh)
         /\ \A f, x : Says(both, f, x) => Says(plan, f, x)
         /\ \A f, x : both.ok /\ Says(refresh, f, x) => Says(plan, f, x)
         /\ \A f, x : Says(plan, f, x) => Says(both, f, x) \/ Says(refresh, f, x)
    <3>1. Targets(both) \cap Targets(refresh) = {}
      BY <2>6, <2>7, <2>8, <2>9
    <3> QED BY <2>1, <2>7, <2>9, <3>1, Joined
  <2>11. Targets(plan) \subseteq Names
    BY <2>6, <2>7, <2>9, <2>10, PoolContent, ExamContent
  <2>12. \A x : Says(plan, ExamLabels, x) => x = log
    BY <2>5, <2>6, <2>7, <2>8, <2>9, <2>10, SaysTargets
  <2>13. \A x : Says(plan, PoolLabels, x) => x = poolLog
    BY <2>5, <2>6, <2>7, <2>8, <2>9, <2>10, SaysTargets
  <2>14. PoolManifest \in Targets(plan) => Exists(PoolManifest)
    BY <2>6, <2>7, <2>8, <2>9, <2>10
  <2>15. ASSUME plan.ok
         PROVE  /\ Outcomes \notin Targets(plan)
                /\ Says(plan, ExamLabels, log)
                /\ Exists(PoolManifest) =>
                     /\ pool.ok
                     /\ \A f, x : Says(pool, f, x) => Says(plan, f, x)
                     /\ Targets(plan) \cap PoolFiles \subseteq Targets(pool)
    <3>1. Outcomes \notin Targets(plan)
      BY <2>6, <2>7, <2>8, <2>9, <2>10
    <3>2. Says(plan, ExamLabels, log)
      BY <2>9, <2>10
    <3>3. ASSUME Exists(PoolManifest)
          PROVE  /\ pool.ok
                 /\ \A f, x : Says(pool, f, x) => Says(plan, f, x)
                 /\ Targets(plan) \cap PoolFiles \subseteq Targets(pool)
      <4>1. told = pool
        BY <3>3 DEF told
      <4> QED BY <2>7, <2>8, <2>9, <2>10, <2>15, <4>1
    <3> QED BY <3>1, <3>2, <3>3
  <2>16. ASSUME plan.ok
         PROVE  WritesVerdicts(plan, summary)
    BY <2>7, <2>10, <2>16 DEF WritesVerdicts
  <2> HIDE DEF poolLog
  <2> QED BY <1>2, <1>5, <2>4, <2>10, <2>11, <2>12, <2>13, <2>14, <2>15, <2>16 DEF poolLog
<1> QED BY <1>4, <1>5

(* A disk on which an exam import has written what it says agrees in all    *)
(* its copies, and with the pool where the pool has a manifest.             *)
LEMMA ExamAgreesAfter ==
  ASSUME FilesOK, NEW labels \in Seq(Label), NEW plan, plan = ExamSyncPlan(labels), plan.ok,
         NEW F,
         \A f \in Names : \A x : Says(plan, f, x) => F[f] = Whole(x),
         \A f \in Names : f \notin Targets(plan) => F[f] = files[f]
  PROVE  /\ ExamAgrees(F)
         /\ F[PoolManifest].is # "absent" => PoolAgrees(F) /\ SharedOn(F)
<1> DEFINE log == Merge(Log(ExamLabels), labels)
           listed == DOMAIN Held(ExamManifest)
           forPool == Kept(log, {i \in DOMAIN log : log[i].cand \in listed})
           pool == PoolSyncPlan(forPool)
           poolLog == Merge(Log(PoolLabels), forPool)
           summary == ExamSummary(log, listed, poolLog)
<1>1. /\ PoolManifest \in Targets(plan) => Exists(PoolManifest)
      /\ forPool \in Seq(Label)
      /\ IsWhole(ExamManifest) /\ IsWhole(Result)
      /\ Outcomes \notin Targets(plan)
      /\ Says(plan, ExamLabels, log)
      /\ Exists(PoolManifest) =>
           /\ pool.ok
           /\ \A f, x : Says(pool, f, x) => Says(plan, f, x)
           /\ Targets(plan) \cap PoolFiles \subseteq Targets(pool)
      /\ WritesVerdicts(plan, summary)
  <2>1. /\ log = Merge(Log(ExamLabels), labels)
        /\ listed = DOMAIN Held(ExamManifest)
        /\ forPool = Kept(log, {i \in DOMAIN log : log[i].cand \in listed})
        /\ pool = PoolSyncPlan(forPool)
    OBVIOUS
  <2> HIDE DEF log, listed, forPool, pool
  <2> QED BY <2>1, ExamSyncWrites
<1>2. \A c \in listed \cap Cands :
        Exists(PoolManifest) =>
          summary[c] = IF Latest(poolLog, c) # "none" THEN Latest(poolLog, c)
                       ELSE Latest(log, c)
  <2> HIDE DEF log, listed, poolLog
  <2> QED BY DEF ExamSummary
<1> HIDE DEF summary
<1> DEFINE reviews == [c \in Held(Result).selected |-> summary[c]]
           report == DiscardReport(Held(Outcomes), reviews)
           manifest == [c \in listed |-> summary[c]]
           result == [Held(Result) EXCEPT !.discard = report]
<1>3. /\ Says(plan, ExamManifest, manifest)
      /\ Says(plan, Template, reviews)
      /\ Says(plan, Discard, report)
      /\ Says(plan, DiscardRate, report)
      /\ Says(plan, Regenerate, ToRegenerate(reviews))
      /\ Says(plan, Result, result)
  BY <1>1 DEF WritesVerdicts
<1>5. \A x : Whole(x).is = "whole" /\ Whole(x).holds = x
  BY DEF Whole
<1>6. /\ {ExamLabels, ExamManifest, Template, Outcomes, Discard, DiscardRate, Regenerate,
          Result} \subseteq Names
      /\ PoolFiles \subseteq Names
      /\ PoolManifest \in PoolFiles
  BY ExamContent, PoolContent DEF PoolFiles
<1>7. listed \in SUBSET Cands
  <2>1. Held(ExamManifest) \in Reviews
    BY <1>1, FilesRead, ExamContent
  <2> QED BY <2>1 DEF Reviews
<1>8. Held(Result) \in [selected : SUBSET Cands, discard : Reports]
  BY <1>1, <1>6, FilesRead, ExamContent
<1>9. result.selected = Held(Result).selected /\ result.discard = report
  BY <1>8
<1>10. DOMAIN reviews = Held(Result).selected
       /\ \A c \in DOMAIN reviews : reviews[c] = summary[c]
  OBVIOUS
<1>11. report = DiscardReport(Held(Outcomes), reviews)
  OBVIOUS
<1>12. DOMAIN manifest = listed /\ \A c \in listed : manifest[c] = summary[c]
  OBVIOUS
<1>13. \A c \in Cands : Bundle(c) \in PoolFiles
  BY DEF PoolFiles, Bundles
<1> HIDE DEF reviews, report, manifest, result
<1>14. ExamAgrees(F)
  <2>1. F[Template].holds = reviews
    BY <1>3, <1>5, <1>6
  <2>2. F[Outcomes].holds = Held(Outcomes)
    BY <1>1, <1>6 DEF Held
  <2>3. F[Discard] = Whole(report) /\ F[DiscardRate] = Whole(report)
    BY <1>3, <1>6
  <2>4. F[Result].holds = result
    BY <1>3, <1>5, <1>6
  <2>5. F[Regenerate].holds = ToRegenerate(reviews)
    BY <1>3, <1>5, <1>6
  <2>6. F[ExamManifest].holds = manifest
    BY <1>3, <1>5, <1>6
  <2> QED BY <1>9, <1>10, <1>11, <1>12, <2>1, <2>2, <2>3, <2>4, <2>5, <2>6 DEF ExamAgrees
<1>15. ASSUME F[PoolManifest].is # "absent"
       PROVE  PoolAgrees(F) /\ SharedOn(F)
  <2>1. Exists(PoolManifest)
    BY <1>1, <1>6, <1>15 DEF Exists
  <2>2. /\ \A f \in PoolFiles : \A x : Says(pool, f, x) => F[f] = Whole(x)
        /\ \A f \in PoolFiles : f \notin Targets(pool) => F[f] = files[f]
    BY <1>1, <1>6, <2>1
  <2>3. pool.ok
    BY <1>1, <2>1
  <2> HIDE DEF forPool, log, listed
  <2>4. /\ PoolAgrees(F)
        /\ LogOf(F, PoolLabels) = poolLog
        /\ StockOf(F) = DOMAIN Listing
    BY <1>1, <2>2, <2>3, PoolAgreesAfter
  <2>5. DOMAIN Listing = Cands
    <3>1. PoolLoads
      <4> DEFINE updated == [c \in DOMAIN Listing |-> Latest(poolLog, c)]
      <4> HIDE DEF updated
      <4> QED BY <1>1, <2>3, PoolSyncWrites DEF updated
    <3> QED BY <2>1, <3>1, ListingRead
  <2> HIDE DEF pool
  <2>6. LogOf(F, ExamLabels) = log /\ F[ExamManifest].holds = manifest
    BY <1>1, <1>3, <1>5, <1>6 DEF LogOf
  <2>7. log \in Seq(Decided) /\ poolLog \in Seq(Decided)
        /\ Range(Actionable(forPool)) \subseteq Range(poolLog)
    <3>1. Log(ExamLabels) \in Histories /\ Log(PoolLabels) \in Histories
      BY FilesRead DEF Logs
    <3>2. log \in Histories
      BY <3>1, MergeGrows DEF log
    <3> QED BY <1>1, <3>1, <3>2, MergeGrows DEF Histories
  <2>8. \A r \in Range(log) : r.cand \in listed => r \in Range(poolLog)
    <3> SUFFICES ASSUME NEW r \in Range(log), r.cand \in listed
                 PROVE  r \in Range(Actionable(forPool))
      BY <2>7
    <3> DEFINE S == {i \in DOMAIN log : log[i].cand \in listed}
    <3>1. PICK i \in DOMAIN log : log[i] = r
      BY DEF Range
    <3>2. i \in S /\ S \in SUBSET (DOMAIN log)
      BY <3>1
    <3>3. forPool = Kept(log, S)
      BY DEF forPool
    <3> HIDE DEF S
    <3>4. PICK k \in DOMAIN forPool : forPool[k] = r
      BY <2>7, <3>1, <3>2, <3>3, KeptElements
    <3>5. r \in Decided /\ r.verdict # "pending"
      <4>1. r \in Decided
        BY <2>7, <3>1, LenProperties
      <4> QED BY <4>1, VerdictsAssumption DEF Decided
    <3> QED BY <1>1, <3>4, <3>5, ActionableKeeps
  <2>9. \A r \in Range(log) : r.cand \in listed => Contains(poolLog, r)
    <3> SUFFICES ASSUME NEW r \in Range(log), r.cand \in listed
                 PROVE  Contains(poolLog, r)
      OBVIOUS
    <3>1. r \in Range(poolLog)
      BY <2>8
    <3>2. PICK k \in DOMAIN poolLog : poolLog[k] = r
      BY <3>1 DEF Range
    <3>3. k \in 1..Len(poolLog)
      BY <2>7, LenProperties
    <3> QED BY <3>2, <3>3 DEF Contains
  <2>10. \A c \in listed : manifest[c] = Latest(poolLog, c)
    <3> SUFFICES ASSUME NEW c \in listed
                 PROVE  manifest[c] = Latest(poolLog, c)
      OBVIOUS
    <3>1. CASE Latest(poolLog, c) # "none"
      BY <1>2, <1>7, <1>12, <2>1, <3>1
    <3>2. CASE Latest(poolLog, c) = "none"
      <4>1. \A r \in Range(poolLog) : r.cand # c
        BY <2>7, <3>2, LatestVerdict
      <4>2. \A r \in Range(log) : r.cand # c
        BY <2>8, <4>1
      <4>3. Latest(log, c) = "none"
        BY <2>7, <4>2, LatestVerdict
      <4> QED BY <1>2, <1>7, <1>12, <2>1, <3>2, <4>3
    <3> QED BY <3>1, <3>2
  <2>11. \A c \in listed : F[Bundle(c)] = Whole(manifest[c])
    <3> SUFFICES ASSUME NEW c \in listed
                 PROVE  F[Bundle(c)] = Whole(manifest[c])
      OBVIOUS
    <3>1. c \in StockOf(F)
      BY <1>7, <2>4, <2>5
    <3> QED BY <2>4, <2>10, <3>1 DEF PoolAgrees
  <2> QED BY <1>12, <2>4, <2>6, <2>9, <2>11 DEF SharedOn
<1> QED BY <1>14, <1>15

(* The plan of an exam run: files of the exam only, and none of its labels. *)
LEMMA RunWrites ==
  ASSUME FilesOK, NEW chosen \in Selections, NEW reviews \in [chosen -> Summary],
         NEW plan, plan = ExamPlan(chosen, reviews)
  PROVE  /\ Orderly(plan)
         /\ Targets(plan) \subseteq ExamFiles \ {ExamLabels}
         /\ plan.ok =>
              /\ PoolLoads
              /\ chosen \subseteq Eligible(Listing)
              /\ \E report : Says(plan, Result, [selected |-> chosen, discard |-> report])
<1> DEFINE outcomes == [selected |-> chosen, discarded |-> DOMAIN Listing \ Eligible(Listing)]
           report == DiscardReport(outcomes, reviews)
           result == [selected |-> chosen, discard |-> report]
           p1 == Write(ExamManifest, Listing)
           p2 == p1 \bullet (IF chosen = {} THEN Raise ELSE Nothing)
           p3 == p2 \bullet Write(Template, reviews)
           p4 == p3 \bullet Write(DiscardRate, report)
           p5 == p4 \bullet Write(Outcomes, outcomes)
           p6 == p5 \bullet Write(Regenerate, ToRegenerate(reviews))
           p7 == p6 \bullet Write(AlphaBundle, chosen)
           p8 == p7 \bullet Write(Result, result)
           p9 == p8 \bullet Write(ExamBundle, chosen)
<1>1. CASE ~PoolLoads \/ Cardinality(Eligible(Listing)) < SlotCount
  <2>1. plan = Raise
    BY <1>1 DEF ExamPlan
  <2> QED BY <2>1, NoWrites
<1>2. CASE PoolLoads /\ ~(Cardinality(Eligible(Listing)) < SlotCount)
  <2>1. plan = p9 \bullet Write(Discard, report)
    BY <1>2 DEF ExamPlan
  <2>2. Listing \in Reviews /\ DOMAIN Listing \in SUBSET Cands
    BY <1>2, ListingRead DEF Reviews
  <2>3. chosen \subseteq Eligible(Listing) /\ chosen \in SUBSET Cands
    <3>1. Eligible(Listing) \subseteq DOMAIN Listing
      BY DEF Eligible
    <3> QED BY <1>2, <2>2, <3>1 DEF Selections
  <2>4. reviews \in Reviews /\ ToRegenerate(reviews) \in SUBSET Cands
    BY <2>3 DEF Reviews, ToRegenerate
  <2>5. outcomes \in [selected : SUBSET Cands, discarded : SUBSET Cands]
    BY <2>2, <2>3
  <2>6. report \in Reports
    BY <2>4, <2>5, ReportsCount
  <2>7. result \in [selected : SUBSET Cands, discard : Reports]
    BY <2>3, <2>6
  <2> HIDE DEF outcomes, report, result
  <2>8. {ExamManifest, Template, DiscardRate, Outcomes, Regenerate, AlphaBundle, Result,
         ExamBundle, Discard} \subseteq Names
    BY ExamContent
  <2>9. /\ Template # ExamManifest
        /\ DiscardRate \notin {ExamManifest, Template}
        /\ Outcomes \notin {ExamManifest, Template, DiscardRate}
        /\ Regenerate \notin {ExamManifest, Template, DiscardRate, Outcomes}
        /\ AlphaBundle \notin {ExamManifest, Template, DiscardRate, Outcomes, Regenerate}
        /\ Result \notin {ExamManifest, Template, DiscardRate, Outcomes, Regenerate, AlphaBundle}
        /\ ExamBundle \notin {ExamManifest, Template, DiscardRate, Outcomes, Regenerate,
                              AlphaBundle, Result}
        /\ Discard \notin {ExamManifest, Template, DiscardRate, Outcomes, Regenerate,
                           AlphaBundle, Result, ExamBundle}
    BY DEF ExamManifest, Template, DiscardRate, Outcomes, Regenerate, AlphaBundle, Result,
           ExamBundle, Discard
  <2>10. Orderly(p1) /\ p1.ok /\ Targets(p1) = {ExamManifest}
    BY <2>2, <2>8, OneWrite, ExamContent
  <2> HIDE DEF p1
  <2>11. Orderly(p2) /\ Targets(p2) \subseteq {ExamManifest}
    <3>1. CASE chosen = {}
      <4>1. p2 = p1 \bullet Raise /\ Targets(p1) \cap Targets(Raise) = {}
        BY <3>1, NoWrites
      <4> QED BY <2>10, <4>1, NoWrites, Joined
    <3>2. CASE chosen # {}
      <4>1. p2 = p1 \bullet Nothing /\ Targets(p1) \cap Targets(Nothing) = {}
        BY <3>2, NoWrites
      <4> QED BY <2>10, <4>1, NoWrites, Joined
    <3> QED BY <3>1, <3>2
  <2> HIDE DEF p2
  <2>12. Orderly(p3) /\ (p3.ok <=> p2.ok) /\ Targets(p3) \subseteq {ExamManifest, Template}
    BY <2>4, <2>8, <2>9, <2>11, AddWrite, ExamContent
  <2> HIDE DEF p3
  <2>13. /\ Orderly(p4) /\ (p4.ok <=> p2.ok)
         /\ Targets(p4) \subseteq {ExamManifest, Template, DiscardRate}
    BY <2>6, <2>8, <2>9, <2>12, AddWrite, ExamContent
  <2> HIDE DEF p4
  <2>14. /\ Orderly(p5) /\ (p5.ok <=> p2.ok)
         /\ Targets(p5) \subseteq {ExamManifest, Template, DiscardRate, Outcomes}
    BY <2>5, <2>8, <2>9, <2>13, AddWrite, ExamContent
  <2> HIDE DEF p5
  <2>15. /\ Orderly(p6) /\ (p6.ok <=> p2.ok)
         /\ Targets(p6) \subseteq {ExamManifest, Template, DiscardRate, Outcomes, Regenerate}
    BY <2>4, <2>8, <2>9, <2>14, AddWrite, ExamContent
  <2> HIDE DEF p6
  <2>16. /\ Orderly(p7) /\ (p7.ok <=> p2.ok)
         /\ Targets(p7) \subseteq {ExamManifest, Template, DiscardRate, Outcomes, Regenerate,
                                   AlphaBundle}
    BY <2>3, <2>8, <2>9, <2>15, AddWrite, ExamContent
  <2> HIDE DEF p7
  <2>17. /\ Orderly(p8) /\ (p8.ok <=> p2.ok)
         /\ Targets(p8) \subseteq {ExamManifest, Template, DiscardRate, Outcomes, Regenerate,
                                   AlphaBundle, Result}
         /\ p2.ok => Says(p8, Result, result)
    BY <2>7, <2>8, <2>9, <2>16, AddWrite, ExamContent
  <2> HIDE DEF p8
  <2>18. /\ Orderly(p9) /\ (p9.ok <=> p2.ok)
         /\ Targets(p9) \subseteq {ExamManifest, Template, DiscardRate, Outcomes, Regenerate,
                                   AlphaBundle, Result, ExamBundle}
         /\ p2.ok => Says(p9, Result, result)
    BY <2>3, <2>8, <2>9, <2>17, AddWrite, ExamContent
  <2> HIDE DEF p9
  <2>19. /\ Orderly(plan) /\ (plan.ok <=> p2.ok)
         /\ Targets(plan) \subseteq {ExamManifest, Template, DiscardRate, Outcomes, Regenerate,
                                     AlphaBundle, Result, ExamBundle, Discard}
         /\ p2.ok => Says(plan, Result, result)
    BY <2>1, <2>6, <2>8, <2>9, <2>18, AddWrite, ExamContent
  <2>20. {ExamManifest, Template, DiscardRate, Outcomes, Regenerate, AlphaBundle, Result,
          ExamBundle, Discard} \subseteq ExamFiles \ {ExamLabels}
    <3>1. ExamLabels \notin {ExamManifest, Template, DiscardRate, Outcomes, Regenerate,
                             AlphaBundle, Result, ExamBundle, Discard}
      BY DEF ExamLabels, ExamManifest, Template, DiscardRate, Outcomes, Regenerate,
             AlphaBundle, Result, ExamBundle, Discard
    <3> QED BY <3>1, ExamContent
  <2>21. plan.ok => \E r : Says(plan, Result, [selected |-> chosen, discard |-> r])
    BY <2>19 DEF result
  <2> QED BY <1>2, <2>3, <2>19, <2>20, <2>21
<1> QED BY <1>1, <1>2

(* The plan of a build: the manifest only when there is a bundle of every   *)
(* candidate, and after all of them.                                        *)
ManifestAfterAll(writes) ==
  \A i \in DOMAIN writes :
    writes[i][1] = PoolManifest =>
      \A f \in Bundles \cup {PoolAlpha} : \E j \in 1..i - 1 : writes[j][1] = f

LEMMA BuildWrites ==
  ASSUME NEW ends \in [Cands -> {"over", "waiting", "missing"}],
         NEW plan, plan = BuildPlan(ends)
  PROVE  /\ Orderly(plan)
         /\ Targets(plan) \subseteq Bundles \cup {PoolAlpha, PoolManifest}
         /\ PoolManifest \in Targets(plan) => Built(ends) = Cands
         /\ ManifestAfterAll(plan.writes)
<1> DEFINE fresh == [c \in Built(ends) |-> "none"]
           bundles == WriteBundles(fresh)
           m == Write(PoolManifest, PoolManifestOf(fresh))
           both == Write(PoolAlpha, fresh) \bullet m
           conclude == IF Reached(ends) # Cands THEN Raise
                       ELSE IF Built(ends) # Cands THEN Nothing
                       ELSE IF Cardinality(Eligible(fresh)) < SlotCount THEN Raise
                       ELSE both
<1>0. plan = bundles \bullet conclude
  BY DEF BuildPlan
<1>1. Built(ends) \in SUBSET Cands /\ fresh \in [Built(ends) -> Summary]
  BY DEF Built, Reached, Summary
<1>2. DOMAIN fresh = Built(ends)
  OBVIOUS
<1> HIDE DEF fresh
<1>3. /\ Orderly(bundles) /\ bundles.ok
      /\ Targets(bundles) = {Bundle(c) : c \in Built(ends)}
  BY <1>1, BundleWrites
<1>4. {Bundle(c) : c \in Built(ends)} \subseteq Bundles
  BY <1>1 DEF Bundles
<1>5. /\ PoolAlpha \notin Bundles /\ PoolManifest \notin Bundles /\ PoolAlpha # PoolManifest
      /\ PoolAlpha \in Names /\ PoolManifest \in Names
  BY DEF Bundles, Bundle, PoolAlpha, PoolManifest, Names
<1> HIDE DEF bundles
<1>6. CASE conclude \in {Raise, Nothing}
  <2>1. Targets(conclude) = {} /\ Orderly(conclude)
    BY <1>6, NoWrites
  <2>2. Orderly(plan) /\ Targets(plan) \subseteq Bundles
    <3>1. Targets(bundles) \cap Targets(conclude) = {}
      BY <2>1
    <3> HIDE DEF conclude
    <3> QED BY <1>0, <1>3, <1>4, <2>1, <3>1, Joined
  <2>3. PoolManifest \notin Targets(plan)
    BY <1>5, <2>2
  <2>4. ManifestAfterAll(plan.writes)
    BY <2>3 DEF ManifestAfterAll, Targets
  <2> QED BY <2>2, <2>3, <2>4
<1>7. CASE conclude = both /\ Built(ends) = Cands
  <2>1. fresh \in Content(PoolAlpha)
    BY <1>1, <1>7, PoolContent
  <2>2. PoolManifestOf(fresh) \in Content(PoolManifest)
    <3>1. Eligible(fresh) \in SUBSET Cands
      BY <1>1, <1>2 DEF Eligible
    <3>2. Cardinality(Eligible(fresh)) \in Nat
      BY <3>1, CountOf
    <3> QED BY <1>1, <1>7, <3>2, PoolContent DEF PoolManifestOf
  <2>3. /\ Orderly(both) /\ Targets(both) \subseteq {PoolAlpha, PoolManifest}
    <3>1. /\ Orderly(Write(PoolAlpha, fresh)) /\ Targets(Write(PoolAlpha, fresh)) = {PoolAlpha}
      BY <1>5, <2>1, OneWrite
    <3>2. PoolManifest \notin Targets(Write(PoolAlpha, fresh))
      BY <1>5, <3>1
    <3> QED BY <1>5, <2>2, <3>1, <3>2, AddWrite
  <2>4. Orderly(plan) /\ Targets(plan) \subseteq Bundles \cup {PoolAlpha, PoolManifest}
    <3>1. Targets(bundles) \cap Targets(both) = {}
      BY <1>3, <1>4, <1>5, <2>3
    <3>2. plan = bundles \bullet both
      BY <1>0, <1>7
    <3> HIDE DEF both
    <3> QED BY <1>3, <1>4, <2>3, <3>1, <3>2, Joined
  <2> DEFINE v == bundles.writes
             a == <<PoolAlpha, Whole(fresh)>>
             b == <<PoolManifest, Whole(PoolManifestOf(fresh))>>
             u == <<a>> \o <<b>>
             w == v \o u
  <2>5. plan.writes = w
    <3>1. both.writes = u
      BY DEF \bullet, Write
    <3>2. plan = bundles \bullet both
      BY <1>0, <1>7
    <3> HIDE DEF both, u
    <3>3. plan.writes = bundles.writes \o both.writes
      <4>1. plan = [writes |-> bundles.writes \o both.writes, ok |-> both.ok]
        <5>1. bundles \bullet both
                = IF bundles.ok THEN [writes |-> bundles.writes \o both.writes, ok |-> both.ok]
                  ELSE bundles
          BY DEF \bullet
        <5>2. bundles.ok
          BY <1>3
        <5> QED BY <3>2, <5>1, <5>2
      <4> DEFINE joined == bundles.writes \o both.writes
      <4>2. plan = [writes |-> joined, ok |-> both.ok]
        BY <4>1
      <4> HIDE DEF joined
      <4>3. plan.writes = joined
        BY <4>2
      <4> QED BY <4>3 DEF joined
    <3> QED BY <3>1, <3>3
  <2>6. /\ v \in Seq(Writes) /\ u \in Seq(Writes)
        /\ Len(v) \in Nat /\ DOMAIN v = 1..Len(v)
        /\ Len(u) = 2 /\ u[1][1] = PoolAlpha /\ u[2][1] = PoolManifest
    <3>1. v \in Seq(Writes)
      BY <1>3 DEF Orderly, Plans
    <3>2. a \in Writes /\ a[1] = PoolAlpha
      BY <1>5, <2>1 DEF Writes, Written, Whole
    <3>3. b \in Writes /\ b[1] = PoolManifest
      BY <1>5, <2>2 DEF Writes, Written, Whole
    <3> HIDE DEF v, a, b
    <3>4. <<a>> \in Seq(Writes) /\ <<b>> \in Seq(Writes)
      BY <3>2, <3>3
    <3>5. u \in Seq(Writes) /\ Len(u) = 2 /\ u[1] = a /\ u[2] = b
      BY <3>2, <3>3, <3>4, ConcatProperties
    <3>6. Len(v) \in Nat /\ DOMAIN v = 1..Len(v)
      BY <3>1, LenProperties
    <3> HIDE DEF u
    <3> QED BY <3>1, <3>2, <3>3, <3>5, <3>6
  <2>7. \A f \in Bundles : \E j \in 1..Len(v) : v[j][1] = f
    <3> SUFFICES ASSUME NEW f \in Bundles
                 PROVE  \E j \in 1..Len(v) : v[j][1] = f
      OBVIOUS
    <3>1. f \in Targets(bundles)
      BY <1>3, <1>7 DEF Bundles
    <3> QED BY <2>6, <3>1 DEF Targets
  <2>8. \A j \in 1..Len(v) : v[j][1] # PoolManifest
    BY <1>3, <1>4, <1>5, <2>6 DEF Targets
  <2> HIDE DEF v, u
  <2>9. /\ DOMAIN w = 1..Len(v) + 2
        /\ \A j \in 1..Len(v) : w[j] = v[j]
        /\ w[Len(v) + 1][1] = PoolAlpha
        /\ w[Len(v) + 2][1] = PoolManifest
    <3>1. /\ w \in Seq(Writes) /\ Len(w) = Len(v) + 2
          /\ \A i \in 1..Len(v) + 2 : w[i] = IF i <= Len(v) THEN v[i] ELSE u[i - Len(v)]
      <4>1. /\ v \o u \in Seq(Writes) /\ Len(v \o u) = Len(v) + Len(u)
            /\ \A i \in 1..Len(v) + Len(u) :
                 (v \o u)[i] = IF i <= Len(v) THEN v[i] ELSE u[i - Len(v)]
        BY <2>6, ConcatProperties
      <4>2. w = v \o u
        OBVIOUS
      <4> HIDE DEF w
      <4> QED BY <2>6, <4>1, <4>2
    <3>2. DOMAIN w = 1..Len(v) + 2
      BY <3>1, LenProperties
    <3> HIDE DEF w
    <3>3. w[Len(v) + 1] = u[1]
      BY <2>6, <3>1
    <3>4. w[Len(v) + 2] = u[2]
      BY <2>6, <3>1
    <3> QED BY <2>6, <3>1, <3>2, <3>3, <3>4
  <2> HIDE DEF w
  <2>10. ManifestAfterAll(w)
    <3> SUFFICES ASSUME NEW i \in DOMAIN w, w[i][1] = PoolManifest,
                        NEW f \in Bundles \cup {PoolAlpha}
                 PROVE  \E j \in 1..i - 1 : w[j][1] = f
      BY DEF ManifestAfterAll
    <3>1. i = Len(v) + 2
      <4>1. i \in 1..Len(v) \/ i = Len(v) + 1 \/ i = Len(v) + 2
        BY <2>6, <2>9
      <4>2. i \notin 1..Len(v)
        BY <2>8, <2>9
      <4>3. i # Len(v) + 1
        BY <1>5, <2>9
      <4> QED BY <4>1, <4>2, <4>3
    <3>2. CASE f = PoolAlpha
      <4>1. Len(v) + 1 \in 1..i - 1
        BY <2>6, <3>1
      <4> QED BY <2>9, <3>2, <4>1
    <3>3. CASE f \in Bundles
      <4>1. PICK j \in 1..Len(v) : v[j][1] = f
        BY <2>7, <3>3
      <4>2. j \in 1..i - 1 /\ w[j][1] = f
        BY <2>6, <2>9, <3>1, <4>1
      <4> QED BY <4>2
    <3> QED BY <3>2, <3>3
  <2> QED BY <1>7, <2>4, <2>5, <2>10
<1> QED BY <1>6, <1>7
-----------------------------------------------------------------------------
(* The disk, now and later. *)

(* What the properties say of the files they say of the disk. *)
LEMMA DiskIsFiles ==
  /\ \A f : Log(f) = LogOf(files, f)
  /\ DOMAIN Listing = StockOf(files)
  /\ PoolCopies <=> PoolAgrees(files)
  /\ ExamCopies <=> ExamAgrees(files)
  /\ VerdictsShared <=> SharedOn(files)
  /\ CleanSelection <=> CleanOn(files)
<1>1. \A f : Log(f) = LogOf(files, f)
  BY DEF Log, LogOf, IsWhole, Held
<1>2. DOMAIN Listing = StockOf(files)
  BY DEF Listing, StockOf, Exists, Held
<1>3. PoolCopies <=> PoolAgrees(files)
  BY <1>1, <1>2 DEF PoolCopies, PoolAgrees, Exists
<1>4. ExamCopies <=> ExamAgrees(files)
  BY DEF ExamCopies, ExamAgrees, Held
<1>5. VerdictsShared <=> SharedOn(files)
  BY <1>1 DEF VerdictsShared, SharedOn, Held
<1>6. CleanSelection <=> CleanOn(files)
  BY <1>1 DEF CleanSelection, CleanOn, Held
<1> QED BY <1>1, <1>2, <1>3, <1>4, <1>5, <1>6

LEMMA DiskIsFilesNext ==
  /\ \A f : Log(f)' = LogOf(files', f)
  /\ PoolCopies' <=> PoolAgrees(files')
  /\ ExamCopies' <=> ExamAgrees(files')
  /\ VerdictsShared' <=> SharedOn(files')
<1>1. \A f : Log(f)' = LogOf(files', f)
  BY DEF Log, LogOf, IsWhole, Held
<1>2. DOMAIN Listing' = StockOf(files')
  BY DEF Listing, StockOf, Exists, Held
<1>3. PoolCopies' <=> PoolAgrees(files')
  BY <1>1, <1>2 DEF PoolCopies, PoolAgrees, Exists
<1>4. ExamCopies' <=> ExamAgrees(files')
  BY DEF ExamCopies, ExamAgrees, Held
<1>5. VerdictsShared' <=> SharedOn(files')
  BY <1>1 DEF VerdictsShared, SharedOn, Held
<1> QED BY <1>1, <1>3, <1>4, <1>5

(* The pool's copies are in the pool's files. *)
LEMMA PoolFrame ==
  ASSUME NEW F, NEW G, StockOf(F) \subseteq Cands, \A f \in PoolFiles : F[f] = G[f]
  PROVE  PoolAgrees(F) => PoolAgrees(G)
<1>1. /\ F[PoolLabels] = G[PoolLabels] /\ F[PoolManifest] = G[PoolManifest]
      /\ F[PoolAlpha] = G[PoolAlpha] /\ F[PoolReport] = G[PoolReport]
      /\ \A c \in Cands : F[Bundle(c)] = G[Bundle(c)]
  BY DEF PoolFiles, Bundles
<1>2. StockOf(F) = StockOf(G) /\ LogOf(F, PoolLabels) = LogOf(G, PoolLabels)
  BY <1>1 DEF StockOf, LogOf
<1> QED BY <1>1, <1>2 DEF PoolAgrees

LEMMA StockIsOfCands ==
  ASSUME FilesOK, PoolAgrees(files)
  PROVE  StockOf(files) \subseteq Cands
<1>1. CASE files[PoolManifest].is # "absent"
  <2>1. files[PoolManifest].is = "whole"
    BY <1>1 DEF PoolAgrees, Whole
  <2>2. Held(PoolManifest) \in [candidates : [Cands -> Summary], eligible : Nat]
    <3>1. PoolManifest \in Names
      BY PoolContent DEF PoolFiles
    <3>2. Held(PoolManifest) \in Content(PoolManifest)
      BY <2>1, <3>1, FilesRead DEF IsWhole
    <3> QED BY <3>2, PoolContent
  <2>3. DOMAIN Held(PoolManifest).candidates = Cands
    BY <2>2
  <2> QED BY <1>1, <2>3 DEF StockOf, Held
<1>2. CASE files[PoolManifest].is = "absent"
  BY <1>2 DEF StockOf
<1> QED BY <1>1, <1>2

(* With nothing left to write, the disk is what it will be. *)
LEMMA NothingLeft ==
  ASSUME FilesOK
  PROVE  After(files, <<>>) = files
<1>1. After(files, <<>>) = [f \in Names |-> files[f]]
  BY DEF After
<1> QED BY <1>1 DEF FilesOK

LEMMA NothingLeftNext ==
  ASSUME FilesOK'
  PROVE  After(files', <<>>) = files'
<1>1. After(files', <<>>) = [f \in Names |-> files'[f]]
  BY DEF After
<1>2. files' = [f \in Names |-> files'[f]]
  BY DEF FilesOK
<1> QED BY <1>1, <1>2

(* A write brings the disk closer to what it will be, and changes nothing   *)
(* about that.                                                              *)
LEMMA OneLess ==
  ASSUME FilesOK, todo \in Seq(Writes), Once(todo), todo # <<>>,
         NEW F, F = [files EXCEPT ![Head(todo)[1]] = Head(todo)[2]]
  PROVE  /\ Head(todo)[1] \in Names /\ Head(todo)[2] \in Written(Head(todo)[1])
         /\ Once(Tail(todo)) /\ Tail(todo) \in Seq(Writes)
         /\ Later[Head(todo)[1]] = Head(todo)[2]
         /\ After(F, Tail(todo)) = Later
         /\ DOMAIN Tail(todo) = 1..Len(todo) - 1
         /\ \A i \in 1..Len(todo) - 1 : Tail(todo)[i] = todo[i + 1]
         /\ Head(todo) = todo[1] /\ Len(todo) \in Nat \ {0} /\ DOMAIN todo = 1..Len(todo)
<1> DEFINE h == Head(todo)
           t == Tail(todo)
<1>1. /\ h = todo[1] /\ t \in Seq(Writes) /\ Len(todo) \in Nat \ {0}
      /\ DOMAIN todo = 1..Len(todo)
      /\ Len(t) = Len(todo) - 1
      /\ \A i \in 1..Len(todo) - 1 : t[i] = todo[i + 1]
  BY HeadTailProperties, EmptySeq, LenProperties
<1>2. DOMAIN t = 1..Len(todo) - 1
  BY <1>1, LenProperties
<1>3. \A i \in 1..Len(todo) : todo[i] \in Writes
  BY ElementOfSeq
<1>4. h[1] \in Names /\ h[2] \in Written(h[1])
  BY <1>1, <1>3 DEF Writes
<1> HIDE DEF h, t
<1>5. Once(t)
  <2> SUFFICES ASSUME NEW i \in DOMAIN t, NEW j \in DOMAIN t, t[i][1] = t[j][1]
               PROVE  i = j
    BY DEF Once
  <2>1. /\ i + 1 \in DOMAIN todo /\ j + 1 \in DOMAIN todo
        /\ todo[i + 1] = t[i] /\ todo[j + 1] = t[j]
    BY <1>1, <1>2
  <2>2. i + 1 = j + 1
    BY <2>1 DEF Once
  <2> QED BY <1>2, <2>2
<1>6. F = [files EXCEPT ![h[1]] = h[2]] /\ files = [f \in Names |-> files[f]]
  BY DEF h, FilesOK
<1>7. \A i \in 1..Len(todo) - 1 : t[i][1] # h[1]
  <2> SUFFICES ASSUME NEW i \in 1..Len(todo) - 1, t[i][1] = h[1]
               PROVE  FALSE
    OBVIOUS
  <2>1. todo[i + 1][1] = todo[1][1] /\ i + 1 \in DOMAIN todo /\ 1 \in DOMAIN todo
    BY <1>1
  <2> QED BY <2>1 DEF Once
<1>8. \A f \in Names : After(F, t)[f] = Later[f]
  <2> TAKE f \in Names
  <2>1. CASE \E i \in DOMAIN t : t[i][1] = f
    <3>1. PICK i \in DOMAIN t : t[i][1] = f
      BY <2>1
    <3>2. i + 1 \in DOMAIN todo /\ todo[i + 1][1] = f /\ todo[i + 1] = t[i]
      BY <1>1, <1>2, <3>1
    <3>3. (CHOOSE j \in DOMAIN t : t[j][1] = f) = i
      BY <1>5, <3>1 DEF Once
    <3>4. (CHOOSE j \in DOMAIN todo : todo[j][1] = f) = i + 1
      BY <3>2 DEF Once
    <3>5. After(F, t)[f] = t[i][2]
      BY <3>1, <3>3 DEF After
    <3>6. Later[f] = todo[i + 1][2]
      BY <3>2, <3>4 DEF Later, After
    <3> QED BY <3>2, <3>5, <3>6
  <2>2. CASE f = h[1]
    <3>1. After(F, t)[f] = F[f]
      BY <1>2, <1>7, <2>2 DEF After
    <3>2. F[f] = h[2]
      BY <1>6, <2>2
    <3>3. 1 \in DOMAIN todo /\ todo[1][1] = f
      BY <1>1, <2>2
    <3>4. (CHOOSE j \in DOMAIN todo : todo[j][1] = f) = 1
      BY <3>3 DEF Once
    <3>5. Later[f] = todo[1][2]
      BY <3>3, <3>4 DEF Later, After
    <3> QED BY <1>1, <3>1, <3>2, <3>5
  <2>3. CASE f # h[1] /\ ~\E i \in DOMAIN t : t[i][1] = f
    <3>1. After(F, t)[f] = F[f]
      BY <2>3 DEF After
    <3>2. F[f] = files[f]
      BY <1>6, <2>3
    <3>3. ~\E i \in DOMAIN todo : todo[i][1] = f
      <4> SUFFICES ASSUME NEW i \in DOMAIN todo, todo[i][1] = f
                   PROVE  FALSE
        OBVIOUS
      <4>1. CASE i = 1
        BY <1>1, <2>3, <4>1
      <4>2. CASE i # 1
        <5>1. i - 1 \in 1..Len(todo) - 1 /\ (i - 1) + 1 = i
          BY <1>1, <4>2
        <5>2. t[i - 1] = todo[i]
          BY <1>1, <5>1
        <5> QED BY <1>2, <2>3, <5>1, <5>2
      <4> QED BY <4>1, <4>2
    <3>4. Later[f] = files[f]
      BY <3>3 DEF Later, After
    <3> QED BY <3>1, <3>2, <3>4
  <2> QED BY <2>1, <2>2, <2>3
<1>9. After(F, t) = Later
  <2>1. After(F, t) = [f \in Names |-> After(F, t)[f]] /\ Later = [f \in Names |-> Later[f]]
    BY DEF After, Later
  <2> QED BY <1>8, <2>1
<1>10. Later[h[1]] = h[2]
  <2>1. After(F, t)[h[1]] = F[h[1]]
    BY <1>2, <1>4, <1>7 DEF After
  <2>2. F[h[1]] = h[2]
    BY <1>4, <1>6
  <2> QED BY <1>9, <2>1, <2>2
<1> QED BY <1>1, <1>2, <1>4, <1>5, <1>9, <1>10 DEF h, t

LEMMA PrefixOfItself == \A f \in Logs : FilesOK => IsPrefix(Log(f), Log(f))
<1> SUFFICES ASSUME NEW f \in Logs, FilesOK
             PROVE  IsPrefix(Log(f), Log(f))
  OBVIOUS
<1>1. Log(f) \in Seq(Decided)
  BY FilesRead
<1> HIDE DEF Log
<1>2. Len(Log(f)) \in Nat
  BY <1>1, LenProperties
<1> QED BY <1>2 DEF IsPrefix
-----------------------------------------------------------------------------
(* Commands begin. *)

(* What is known of every file's place. *)
LEMMA Places ==
  /\ PoolLabels \in PoolFiles /\ PoolManifest \in PoolFiles
  /\ ExamLabels \in ExamFiles /\ Result \in ExamFiles
  /\ PoolFiles \subseteq Names /\ ExamFiles \subseteq Names
  /\ \A f \in ExamFiles : f \notin PoolFiles
  /\ Logs \subseteq Names /\ Logs = {PoolLabels, ExamLabels}
BY PoolContent, ExamContent DEF PoolFiles, ExamFiles, Logs, Names

(* A command that only adds to the label logs, as it begins. *)
LEMMA Begins ==
  ASSUME IInv, NEW plan, Orderly(plan),
         NEW name \in {"build", "import_pool", "run_exam", "import_exam"},
         NEW incoming \in Seq(Label),
         Begin(name, incoming, plan),
         \A f \in Logs : \A x : Says(plan, f, x) => IsPrefix(Log(f), x)
  PROVE  /\ FilesOK' /\ files' = files
         /\ cmd' \in [name : {"none", "build", "import_pool", "run_exam", "import_exam"},
                      incoming : Seq(Label), ok : BOOLEAN]
         /\ cmd'.name = name /\ cmd'.ok = plan.ok
         /\ todo' = plan.writes /\ todo' \in Seq(Writes)
         /\ Once(todo)'
         /\ Later' = After(files, plan.writes)
         /\ LogsExtend'
<1>1. /\ files' = files /\ todo' = plan.writes
      /\ cmd' = [name |-> name, incoming |-> incoming, ok |-> plan.ok]
  BY DEF Begin
<1>2. plan.writes \in Seq(Writes) /\ plan.ok \in BOOLEAN /\ Once(plan.writes)
  BY DEF Orderly, Plans
<1>3. FilesOK'
  BY <1>1 DEF IInv, TypeOK, FilesOK
<1>4. /\ cmd' \in [name : {"none", "build", "import_pool", "run_exam", "import_exam"},
                   incoming : Seq(Label), ok : BOOLEAN]
      /\ cmd'.name = name /\ cmd'.ok = plan.ok
  BY <1>1, <1>2
<1>5. Once(todo)'
  BY <1>1, <1>2 DEF Once
<1>6. Later' = After(files, plan.writes)
  BY <1>1 DEF Later
<1>7. LogsExtend'
  <2> SUFFICES ASSUME NEW f \in Logs
               PROVE  IsPrefix(Log(f), LogOf(After(files, plan.writes), f))
    <3>1. \A f \in Logs : Log(f)' = Log(f)
      BY <1>1 DEF Log, IsWhole, Held
    <3> QED BY <1>6, <3>1 DEF LogsExtend
  <2>1. f \in Names
    BY Places
  <2>2. CASE f \notin Targets(plan)
    <3>1. After(files, plan.writes)[f] = files[f]
      BY <2>1, <2>2, LeftAlone
    <3>2. LogOf(After(files, plan.writes), f) = Log(f)
      BY <3>1 DEF LogOf, Log, IsWhole, Held
    <3> QED BY <3>2, PrefixOfItself DEF IInv, TypeOK
  <2>3. CASE f \in Targets(plan)
    <3>1. PICK i \in DOMAIN plan.writes : plan.writes[i][1] = f
      BY <2>3 DEF Targets
    <3>2. plan.writes[i] \in Writes
      BY <1>2, <3>1, ElementOfSeq, LenProperties
    <3>3. PICK x : plan.writes[i] = <<f, Whole(x)>>
      <4>1. PICK r \in Written(f) : plan.writes[i] = <<f, r>>
        BY <3>1, <3>2 DEF Writes
      <4>2. r = Whole(r.holds)
        BY DEF Written, Whole
      <4> QED BY <4>1, <4>2
    <3>4. Says(plan, f, x)
      BY <3>1, <3>3 DEF Says
    <3>5. After(files, plan.writes)[f] = Whole(x)
      BY <2>1, <3>4, CarriedOut
    <3>6. LogOf(After(files, plan.writes), f) = x
      BY <3>5 DEF LogOf, Whole
    <3> QED BY <3>4, <3>6
  <2> QED BY <2>2, <2>3
<1> QED BY <1>1, <1>2, <1>3, <1>4, <1>5, <1>6, <1>7

(* The use of a budget. *)
LEMMA UseCounts ==
  ASSUME used \in [{"build", "import", "exam", "crash"} -> Nat],
         NEW what \in {"build", "import", "exam", "crash"}, NEW max, Use(what, max)
  PROVE  used' \in [{"build", "import", "exam", "crash"} -> Nat]
BY DEF Use

(* Where there is a manifest, it may be written again. *)
LEMMA ManifestAgain ==
  ASSUME IInv, files' = files, ready' = ready,
         PoolManifest \in {todo'[i][1] : i \in DOMAIN todo'} => Exists(PoolManifest)
  PROVE  ManifestQueued'
<1> SUFFICES ASSUME NEW i \in DOMAIN todo', todo'[i][1] = PoolManifest
             PROVE  /\ ready' = Cands
                    /\ \A f \in Bundles \cup {PoolAlpha} : Exists(f)'
  BY DEF ManifestQueued
<1>1. Exists(PoolManifest)
  OBVIOUS
<1>2. ready = Cands /\ Exists(PoolAlpha) /\ \A c \in Cands : Exists(Bundle(c))
  BY <1>1 DEF IInv, ManifestIsLast
<1>3. \A f \in Bundles \cup {PoolAlpha} : Exists(f)
  BY <1>2 DEF Bundles
<1> QED BY <1>2, <1>3 DEF Exists

LEMMA ManifestStays ==
  ASSUME IInv, files' = files, ready \subseteq ready', ready' \subseteq Cands
  PROVE  ManifestIsLast'
BY DEF IInv, ManifestIsLast, Exists

(* CandidatePoolBuilder.build begins. *)
LEMMA BuildKeeps == IInv /\ Build => IInv'
<1> SUFFICES ASSUME IInv, Build
             PROVE  IInv'
  OBVIOUS
<1>1. PICK ends \in [Cands -> {"over", "waiting", "missing"}] :
        /\ Begin("build", <<>>, BuildPlan(ends))
        /\ ready' = ready \cup Built(ends)
        /\ settled' = {}
        /\ Use("build", MaxBuilds)
  BY DEF Build
<1> DEFINE plan == BuildPlan(ends)
<1>2. /\ Orderly(plan)
      /\ Targets(plan) \subseteq Bundles \cup {PoolAlpha, PoolManifest}
      /\ PoolManifest \in Targets(plan) => Built(ends) = Cands
      /\ ManifestAfterAll(plan.writes)
  BY BuildWrites
<1>3. Begin("build", <<>>, plan)
  BY <1>1
<1> HIDE DEF plan
<1>4. \A f \in Logs : f \notin Targets(plan)
  BY <1>2 DEF Logs, Bundles, Bundle, PoolAlpha, PoolManifest, PoolLabels, ExamLabels
<1>5. \A f \in Logs : \A x : Says(plan, f, x) => IsPrefix(Log(f), x)
  BY <1>4, SaysTargets
<1>6. <<>> \in Seq(Label)
  OBVIOUS
<1>7. /\ FilesOK' /\ files' = files
      /\ cmd' \in [name : {"none", "build", "import_pool", "run_exam", "import_exam"},
                   incoming : Seq(Label), ok : BOOLEAN]
      /\ cmd'.name = "build"
      /\ todo' = plan.writes /\ todo' \in Seq(Writes)
      /\ Once(todo)'
      /\ LogsExtend'
  BY <1>2, <1>3, <1>5, <1>6, Begins
<1>8. ready' \subseteq Cands /\ ready \subseteq ready'
  BY <1>1 DEF IInv, TypeOK, Built, Reached
<1>9. TypeOK'
  <2>1. used' \in [{"build", "import", "exam", "crash"} -> Nat]
    BY <1>1, UseCounts DEF IInv, TypeOK
  <2> QED BY <1>1, <1>7, <1>8, <2>1 DEF TypeOK
<1>10. ManifestQueued'
  <2> SUFFICES ASSUME NEW i \in DOMAIN todo', todo'[i][1] = PoolManifest
               PROVE  /\ ready' = Cands
                      /\ \A f \in Bundles \cup {PoolAlpha} : \E j \in 1..i - 1 : todo'[j][1] = f
    BY DEF ManifestQueued
  <2>1. PoolManifest \in Targets(plan)
    BY <1>7 DEF Targets
  <2>2. \A f \in Bundles \cup {PoolAlpha} : \E j \in 1..i - 1 : plan.writes[j][1] = f
    BY <1>2, <1>7 DEF ManifestAfterAll
  <2> QED BY <1>1, <1>2, <1>7, <1>8, <2>1, <2>2
<1>11. ManifestIsLast'
  BY <1>7, <1>8, ManifestStays
<1>12. Promises'
  BY <1>7 DEF Promises
<1>13. Remains'
  BY <1>1, <1>7 DEF Remains
<1>14. (cmd.name = "none" => Idle /\ todo = <<>>)'
  BY <1>7
<1> QED BY <1>7, <1>9, <1>10, <1>11, <1>12, <1>13, <1>14 DEF IInv
(* sync_candidate_pool_reviews begins. *)
LEMMA ImportPoolKeeps == IInv /\ ImportPool => IInv'
<1> SUFFICES ASSUME IInv, ImportPool
             PROVE  IInv'
  OBVIOUS
<1>1. PICK label \in Label :
        /\ Begin("import_pool", <<label>>, PoolSyncPlan(<<label>>))
        /\ settled' = {}
        /\ Use("import", MaxImports)
        /\ ready' = ready
  BY DEF ImportPool
<1> DEFINE labels == <<label>>
           plan == PoolSyncPlan(labels)
           log == Merge(Log(PoolLabels), labels)
           updated == [c \in DOMAIN Listing |-> Latest(log, c)]
           F == After(files, plan.writes)
<1>2. labels \in Seq(Label) /\ Begin("import_pool", labels, plan)
  BY <1>1
<1>3. FilesOK
  BY DEF IInv, TypeOK
<1>4. plan = PoolSyncPlan(labels) /\ log = Merge(Log(PoolLabels), labels)
      /\ updated = [c \in DOMAIN Listing |-> Latest(log, c)]
      /\ F = After(files, plan.writes)
  OBVIOUS
<1> HIDE DEF labels, plan, log, updated, F
<1>5. /\ Orderly(plan)
      /\ Targets(plan) \subseteq PoolFiles
      /\ \A x : Says(plan, PoolLabels, x) => x = log
      /\ PoolManifest \in Targets(plan) => Exists(PoolManifest)
  BY <1>2, <1>3, <1>4, PoolSyncWrites
<1>6. \A f \in Logs : \A x : Says(plan, f, x) => IsPrefix(Log(f), x)
  <2>1. Log(PoolLabels) \in Histories
    BY <1>3, Places, FilesRead
  <2>2. IsPrefix(Log(PoolLabels), log)
    BY <1>2, <1>4, <2>1, MergeGrows
  <2>3. ExamLabels \notin Targets(plan)
    BY <1>5, Places
  <2> QED BY <1>5, <2>2, <2>3, Places, SaysTargets
<1>7. /\ FilesOK' /\ files' = files
      /\ cmd' \in [name : {"none", "build", "import_pool", "run_exam", "import_exam"},
                   incoming : Seq(Label), ok : BOOLEAN]
      /\ cmd'.name = "import_pool" /\ cmd'.ok = plan.ok
      /\ todo' = plan.writes /\ todo' \in Seq(Writes)
      /\ Once(todo)'
      /\ Later' = F
      /\ LogsExtend'
  BY <1>2, <1>4, <1>5, <1>6, Begins
<1>8. TypeOK'
  <2>1. used' \in [{"build", "import", "exam", "crash"} -> Nat]
    BY <1>1, UseCounts DEF IInv, TypeOK
  <2> QED BY <1>1, <1>7, <2>1 DEF IInv, TypeOK
<1>9. ManifestQueued'
  <2>1. PoolManifest \in {todo'[i][1] : i \in DOMAIN todo'} => Exists(PoolManifest)
    BY <1>5, <1>7 DEF Targets
  <2> QED BY <1>1, <1>7, <2>1, ManifestAgain
<1>10. ManifestIsLast'
  BY <1>1, <1>7, ManifestStays DEF IInv, TypeOK
<1>11. Promises'
  <2>1. ASSUME plan.ok
        PROVE  PoolAgrees(F)
    <3>1. \A f \in PoolFiles : \A x : Says(plan, f, x) => F[f] = Whole(x)
      <4> SUFFICES ASSUME NEW f \in PoolFiles, NEW x, Says(plan, f, x)
                   PROVE  F[f] = Whole(x)
        OBVIOUS
      <4> QED BY <1>4, <1>5, Places, CarriedOut
    <3>2. \A f \in PoolFiles : f \notin Targets(plan) => F[f] = files[f]
      BY <1>4, Places, LeftAlone
    <3> QED BY <1>2, <1>3, <1>4, <2>1, <3>1, <3>2, PoolAgreesAfter
  <2> QED BY <1>7, <2>1 DEF Promises
<1>12. Remains'
  BY <1>1, <1>7 DEF Remains
<1>13. (cmd.name = "none" => Idle /\ todo = <<>>)'
  BY <1>7
<1> QED BY <1>7, <1>8, <1>9, <1>10, <1>11, <1>12, <1>13 DEF IInv

(* sync_generated_exam_reviews begins. *)
LEMMA ImportExamKeeps == IInv /\ ImportExam => IInv'
<1> SUFFICES ASSUME IInv, ImportExam
             PROVE  IInv'
  OBVIOUS
<1>1. PICK label \in Label :
        /\ Begin("import_exam", <<label>>, ExamSyncPlan(<<label>>))
        /\ settled' = {}
        /\ Use("import", MaxImports)
        /\ ready' = ready
  BY DEF ImportExam
<1> DEFINE labels == <<label>>
           plan == ExamSyncPlan(labels)
           log == Merge(Log(ExamLabels), labels)
           listed == DOMAIN Held(ExamManifest)
           forPool == Kept(log, {i \in DOMAIN log : log[i].cand \in listed})
           pool == PoolSyncPlan(forPool)
           F == After(files, plan.writes)
<1>2. labels \in Seq(Label) /\ Begin("import_exam", labels, plan)
  BY <1>1
<1>3. FilesOK
  BY DEF IInv, TypeOK
<1>4. /\ plan = ExamSyncPlan(labels) /\ log = Merge(Log(ExamLabels), labels)
      /\ listed = DOMAIN Held(ExamManifest)
      /\ forPool = Kept(log, {i \in DOMAIN log : log[i].cand \in listed})
      /\ pool = PoolSyncPlan(forPool)
      /\ F = After(files, plan.writes)
  OBVIOUS
<1> HIDE DEF labels, plan, log, listed, forPool, pool, F
<1>5. /\ Orderly(plan)
      /\ \A x : Says(plan, ExamLabels, x) => x = log
      /\ \A x : Says(plan, PoolLabels, x) => x = Merge(Log(PoolLabels), forPool)
      /\ PoolManifest \in Targets(plan) => Exists(PoolManifest)
      /\ forPool \in Seq(Label)
  BY <1>2, <1>3, <1>4, ExamSyncWrites
<1>6. \A f \in Logs : \A x : Says(plan, f, x) => IsPrefix(Log(f), x)
  <2>1. Log(PoolLabels) \in Histories /\ Log(ExamLabels) \in Histories
    BY <1>3, Places, FilesRead
  <2>2. IsPrefix(Log(ExamLabels), log)
    BY <1>2, <1>4, <2>1, MergeGrows
  <2>3. IsPrefix(Log(PoolLabels), Merge(Log(PoolLabels), forPool))
    BY <1>5, <2>1, MergeGrows
  <2> QED BY <1>5, <2>2, <2>3, Places
<1>7. /\ FilesOK' /\ files' = files
      /\ cmd' \in [name : {"none", "build", "import_pool", "run_exam", "import_exam"},
                   incoming : Seq(Label), ok : BOOLEAN]
      /\ cmd'.name = "import_exam" /\ cmd'.ok = plan.ok
      /\ todo' = plan.writes /\ todo' \in Seq(Writes)
      /\ Once(todo)'
      /\ Later' = F
      /\ LogsExtend'
  BY <1>2, <1>4, <1>5, <1>6, Begins
<1>8. TypeOK'
  <2>1. used' \in [{"build", "import", "exam", "crash"} -> Nat]
    BY <1>1, UseCounts DEF IInv, TypeOK
  <2> QED BY <1>1, <1>7, <2>1 DEF IInv, TypeOK
<1>9. ManifestQueued'
  <2>1. PoolManifest \in {todo'[i][1] : i \in DOMAIN todo'} => Exists(PoolManifest)
    BY <1>5, <1>7 DEF Targets
  <2> QED BY <1>1, <1>7, <2>1, ManifestAgain
<1>10. ManifestIsLast'
  BY <1>1, <1>7, ManifestStays DEF IInv, TypeOK
<1>11. Promises'
  <2>1. ASSUME plan.ok
        PROVE  /\ ExamAgrees(F)
               /\ F[PoolManifest].is # "absent" => PoolAgrees(F) /\ SharedOn(F)
    <3>1. \A f \in Names : \A x : Says(plan, f, x) => F[f] = Whole(x)
      <4> SUFFICES ASSUME NEW f \in Names, NEW x, Says(plan, f, x)
                   PROVE  F[f] = Whole(x)
        OBVIOUS
      <4> QED BY <1>4, <1>5, CarriedOut
    <3>2. \A f \in Names : f \notin Targets(plan) => F[f] = files[f]
      BY <1>4, LeftAlone
    <3> QED BY <1>2, <1>3, <1>4, <2>1, <3>1, <3>2, ExamAgreesAfter
  <2> QED BY <1>7, <2>1 DEF Promises
<1>12. Remains'
  BY <1>1, <1>7 DEF Remains
<1>13. (cmd.name = "none" => Idle /\ todo = <<>>)'
  BY <1>7
<1> QED BY <1>7, <1>8, <1>9, <1>10, <1>11, <1>12, <1>13 DEF IInv
(* What agrees in all copies is safe to select from.                        *)
LEMMA CleanListing ==
  ASSUME FilesOK, PoolLoads, PoolCopies
  PROVE  \A c \in Eligible(Listing) :
           c \in Approved /\ Latest(Log(PoolLabels), c) # "reject"
<1> SUFFICES ASSUME NEW c \in Eligible(Listing)
             PROVE  c \in Approved /\ Latest(Log(PoolLabels), c) # "reject"
  OBVIOUS
<1>1. c \in DOMAIN Listing /\ c \in Approved /\ Listing[c] # "reject"
  BY DEF Eligible
<1>2. Listing[c] = Latest(Log(PoolLabels), c)
  <2> DEFINE truth == [d \in DOMAIN Listing |-> Latest(Log(PoolLabels), d)]
  <2>1. truth[c] = Latest(Log(PoolLabels), c) /\ DOMAIN truth = DOMAIN Listing
    BY <1>1
  <2>2. /\ files[Bundle(c)] = Whole(truth[c])
        /\ Exists(PoolManifest) => files[PoolManifest] = Whole(PoolManifestOf(truth))
    BY <1>1, <2>1 DEF PoolCopies
  <2> HIDE DEF truth
  <2>3. CASE Exists(PoolManifest)
    <3>1. Listing = Held(PoolManifest).candidates
      BY <2>3 DEF Listing
    <3>2. Held(PoolManifest).candidates = truth
      BY <2>2, <2>3 DEF Held, Whole, PoolManifestOf
    <3> QED BY <2>1, <3>1, <3>2
  <2>4. CASE ~Exists(PoolManifest)
    <3>1. Listing = [d \in {e \in Cands : Exists(Bundle(e))} |-> Held(Bundle(d))]
      BY <2>4 DEF Listing
    <3>2. Listing[c] = Held(Bundle(c))
      BY <1>1, <3>1
    <3>3. Held(Bundle(c)) = truth[c]
      BY <2>2 DEF Held, Whole
    <3> QED BY <2>1, <3>2, <3>3
  <2> QED BY <2>3, <2>4
<1> QED BY <1>1, <1>2

(* GeneratedExamPipeline.run begins. *)
LEMMA RunExamKeeps == IInv /\ RunExam => IInv'
<1> SUFFICES ASSUME IInv, RunExam
             PROVE  IInv'
  OBVIOUS
<1>1. PICK chosen \in Selections :
        \E reviews \in [chosen -> Summary] :
          /\ Begin("run_exam", <<>>, ExamPlan(chosen, reviews))
          /\ settled' = settled \ {"exam"}
          /\ Use("exam", MaxExams)
          /\ ready' = ready
  BY DEF RunExam
<1>2. PICK reviews \in [chosen -> Summary] :
          /\ Begin("run_exam", <<>>, ExamPlan(chosen, reviews))
          /\ settled' = settled \ {"exam"}
          /\ Use("exam", MaxExams)
          /\ ready' = ready
  BY <1>1
<1> DEFINE plan == ExamPlan(chosen, reviews)
           F == After(files, plan.writes)
<1>3. FilesOK
  BY DEF IInv, TypeOK
<1>4. /\ Orderly(plan)
      /\ Targets(plan) \subseteq ExamFiles \ {ExamLabels}
      /\ plan.ok =>
           /\ PoolLoads
           /\ chosen \subseteq Eligible(Listing)
           /\ \E report : Says(plan, Result, [selected |-> chosen, discard |-> report])
  BY <1>3, RunWrites
<1>5. Begin("run_exam", <<>>, plan) /\ F = After(files, plan.writes)
  BY <1>2
<1> HIDE DEF plan, F
<1>6. \A f \in Logs : f \notin Targets(plan)
  BY <1>4, Places
<1>7. \A f \in Logs : \A x : Says(plan, f, x) => IsPrefix(Log(f), x)
  BY <1>6, SaysTargets
<1>8. <<>> \in Seq(Label)
  OBVIOUS
<1>9. /\ FilesOK' /\ files' = files
      /\ cmd' \in [name : {"none", "build", "import_pool", "run_exam", "import_exam"},
                   incoming : Seq(Label), ok : BOOLEAN]
      /\ cmd'.name = "run_exam" /\ cmd'.ok = plan.ok
      /\ todo' = plan.writes /\ todo' \in Seq(Writes)
      /\ Once(todo)'
      /\ Later' = F
      /\ LogsExtend'
  BY <1>4, <1>5, <1>7, <1>8, Begins
<1>10. TypeOK'
  <2>1. used' \in [{"build", "import", "exam", "crash"} -> Nat]
    BY <1>2, UseCounts DEF IInv, TypeOK
  <2> QED BY <1>2, <1>9, <2>1 DEF IInv, TypeOK
<1>11. ManifestQueued'
  <2>1. PoolManifest \in {todo'[i][1] : i \in DOMAIN todo'} => Exists(PoolManifest)
    BY <1>4, <1>9, Places DEF Targets
  <2> QED BY <1>2, <1>9, <2>1, ManifestAgain
<1>12. ManifestIsLast'
  BY <1>2, <1>9, ManifestStays DEF IInv, TypeOK
<1>13. Promises'
  <2>1. ASSUME plan.ok, "pool" \in settled
        PROVE  CleanOn(F)
    <3>1. PoolCopies
      BY <2>1 DEF IInv, Remains
    <3>2. \A c \in chosen : c \in Approved /\ Latest(Log(PoolLabels), c) # "reject"
      BY <1>3, <1>4, <2>1, <3>1, CleanListing
    <3>3. PICK report : Says(plan, Result, [selected |-> chosen, discard |-> report])
      BY <1>4, <2>1
    <3>4. F[Result] = Whole([selected |-> chosen, discard |-> report])
      <4> DEFINE result == [selected |-> chosen, discard |-> report]
      <4>1. Says(plan, Result, result) /\ Result \in Names /\ Orderly(plan)
        BY <1>4, <3>3, Places
      <4> HIDE DEF result
      <4>2. F[Result] = Whole(result)
        BY <1>5, <4>1, CarriedOut
      <4> QED BY <4>2 DEF result
    <3>5. F[Result].holds.selected = chosen
      BY <3>4 DEF Whole
    <3>6. F[PoolLabels] = files[PoolLabels]
      BY <1>5, <1>6, Places, LeftAlone
    <3>7. LogOf(F, PoolLabels) = Log(PoolLabels)
      BY <3>6 DEF LogOf, Log, IsWhole, Held
    <3> QED BY <3>2, <3>5, <3>7 DEF CleanOn
  <2> QED BY <1>2, <1>9, <2>1 DEF Promises
<1>14. Remains'
  <2>1. settled' \subseteq {"pool"}
    BY <1>2 DEF IInv, TypeOK
  <2>2. \A i \in DOMAIN todo' : todo'[i][1] \in ExamFiles
    BY <1>4, <1>9 DEF Targets
  <2>3. ASSUME "pool" \in settled'
        PROVE  PoolCopies'
    <3>1. PoolCopies
      BY <1>2, <2>3 DEF IInv, Remains
    <3> QED BY <1>9, <3>1, DiskIsFiles, DiskIsFilesNext
  <2> QED BY <1>9, <2>1, <2>2, <2>3 DEF Remains
<1>15. (cmd.name = "none" => Idle /\ todo = <<>>)'
  BY <1>9
<1> QED BY <1>9, <1>10, <1>11, <1>12, <1>13, <1>14, <1>15 DEF IInv

-----------------------------------------------------------------------------
(* Commands go on. *)

(* While anything is left to write, only a pool that an exam run reads is   *)
(* settled, and the run leaves its files alone.                             *)
LEMMA PoolKept ==
  ASSUME IInv, todo # <<>>, settled' = settled,
         \A f \in Names : f # Head(todo)[1] => files'[f] = files[f]
  PROVE  /\ "exam" \notin settled'
         /\ "pool" \in settled' => PoolCopies'
<1>1. FilesOK /\ todo \in Seq(Writes) /\ Remains
      /\ cmd.name \in {"none", "build", "import_pool", "run_exam", "import_exam"}
  BY DEF IInv, TypeOK
<1>2. cmd.name # "none"
  BY DEF IInv
<1>3. "exam" \notin settled
  BY <1>1, <1>2 DEF Remains
<1>4. ASSUME "pool" \in settled
      PROVE  PoolCopies'
  <2>1. cmd.name = "run_exam"
    BY <1>1, <1>2, <1>4 DEF Remains
  <2>2. Head(todo)[1] \in ExamFiles
    <3>1. Head(todo) = todo[1] /\ 1 \in DOMAIN todo
      BY <1>1, HeadTailProperties, EmptySeq, LenProperties
    <3> QED BY <1>1, <2>1, <3>1 DEF Remains
  <2>3. \A f \in PoolFiles : files[f] = files'[f]
    BY <2>2, Places
  <2>4. PoolAgrees(files)
    BY <1>1, <1>4, DiskIsFiles DEF Remains
  <2>5. StockOf(files) \subseteq Cands
    BY <1>1, <2>4, StockIsOfCands
  <2>6. PoolAgrees(files')
    BY <2>3, <2>4, <2>5, PoolFrame
  <2> QED BY <2>6, DiskIsFilesNext
<1> QED BY <1>3, <1>4
LEMMA WriteNextKeeps == IInv /\ WriteNext => IInv'
<1> SUFFICES ASSUME IInv, WriteNext
             PROVE  IInv'
  OBVIOUS
<1> DEFINE f == Head(todo)[1]
           r == Head(todo)[2]
<1>1. /\ todo # <<>> /\ files' = [files EXCEPT ![f] = r] /\ todo' = Tail(todo)
      /\ ready' = ready /\ cmd' = cmd /\ settled' = settled /\ used' = used
  BY DEF WriteNext
<1>2. FilesOK /\ todo \in Seq(Writes) /\ Once(todo)
  BY DEF IInv, TypeOK
<1>3. /\ f \in Names /\ r \in Written(f)
      /\ Once(todo') /\ todo' \in Seq(Writes)
      /\ Later[f] = r
      /\ After(files', todo') = Later
      /\ DOMAIN todo' = 1..Len(todo) - 1
      /\ \A i \in 1..Len(todo) - 1 : todo'[i] = todo[i + 1]
      /\ f = todo[1][1] /\ Len(todo) \in Nat \ {0} /\ DOMAIN todo = 1..Len(todo)
  BY <1>1, <1>2, OneLess
<1> HIDE DEF f, r
<1>4. /\ files'[f] = r
      /\ \A g \in Names : g # f => files'[g] = files[g]
      /\ files' = [g \in Names |-> files'[g]]
  BY <1>1, <1>2, <1>3 DEF FilesOK
<1>5. FilesOK'
  <2>1. \A g \in Names : files'[g] \in Written(g) \cup Unreadable(g)
    BY <1>2, <1>3, <1>4 DEF FilesOK
  <2> QED BY <1>4, <2>1 DEF FilesOK
<1>6. TypeOK'
  BY <1>1, <1>3, <1>5 DEF IInv, TypeOK
<1>7. Once(todo)'
  BY <1>3 DEF Once
<1>8. Later' = Later
  BY <1>3 DEF Later
<1>9. (cmd.name = "none" => Idle /\ todo = <<>>)'
  <2>1. cmd.name # "none"
    BY <1>1 DEF IInv
  <2> QED BY <1>1, <2>1
<1>10. \A g \in Names : Exists(g) => Exists(g)'
  <2>1. r.is # "absent"
    BY <1>3 DEF Written
  <2> QED BY <1>4, <2>1 DEF Exists
<1>11. \A g \in Names : g = f => Exists(g)'
  <2>1. r.is = "whole"
    BY <1>3 DEF Written
  <2> QED BY <1>4, <2>1 DEF Exists
<1>12. {PoolManifest, PoolAlpha} \subseteq Names /\ Bundles \subseteq Names
  BY DEF Names, Bundles
<1>13. ManifestQueued'
  <2> SUFFICES ASSUME NEW i \in DOMAIN todo', todo'[i][1] = PoolManifest
               PROVE  /\ ready' = Cands
                      /\ \A g \in Bundles \cup {PoolAlpha} :
                           Exists(g)' \/ \E j \in 1..i - 1 : todo'[j][1] = g
    BY DEF ManifestQueued
  <2>1. i \in 1..Len(todo) - 1 /\ i + 1 \in DOMAIN todo /\ todo[i + 1][1] = PoolManifest
    BY <1>3
  <2>2. /\ ready = Cands
        /\ \A g \in Bundles \cup {PoolAlpha} :
             Exists(g) \/ \E j \in 1..(i + 1) - 1 : todo[j][1] = g
    BY <2>1 DEF IInv, ManifestQueued
  <2>3. ASSUME NEW g \in Bundles \cup {PoolAlpha}, ~Exists(g)'
        PROVE  \E j \in 1..i - 1 : todo'[j][1] = g
    <3>1. ~Exists(g) /\ g # f
      BY <1>10, <1>11, <1>12, <2>3
    <3>2. PICK j \in 1..(i + 1) - 1 : todo[j][1] = g
      BY <2>2, <3>1
    <3>3. j # 1
      BY <1>3, <3>1, <3>2
    <3>4. j - 1 \in 1..i - 1 /\ j - 1 \in 1..Len(todo) - 1 /\ (j - 1) + 1 = j
      BY <1>3, <2>1, <3>2, <3>3
    <3>5. todo'[j - 1] = todo[j]
      BY <1>3, <3>4
    <3> QED BY <3>2, <3>4, <3>5
  <2> QED BY <1>1, <2>2, <2>3
<1>14. ManifestIsLast'
  <2> SUFFICES ASSUME Exists(PoolManifest)'
               PROVE  /\ ready = Cands
                      /\ \A g \in Bundles \cup {PoolAlpha} : Exists(g)'
    BY <1>1 DEF ManifestIsLast, Exists, Bundles
  <2>1. CASE f = PoolManifest
    <3>1. 1 \in DOMAIN todo /\ todo[1][1] = PoolManifest
      BY <1>3, <2>1
    <3>2. /\ ready = Cands
          /\ \A g \in Bundles \cup {PoolAlpha} :
               Exists(g) \/ \E j \in 1..1 - 1 : todo[j][1] = g
      BY <3>1 DEF IInv, ManifestQueued
    <3>3. \A g \in Bundles \cup {PoolAlpha} : Exists(g)
      BY <3>2
    <3> QED BY <1>10, <1>12, <3>2, <3>3
  <2>2. CASE f # PoolManifest
    <3>1. Exists(PoolManifest)
      BY <1>4, <1>12, <2>2 DEF Exists
    <3>2. ready = Cands /\ \A g \in Bundles \cup {PoolAlpha} : Exists(g)
      BY <3>1 DEF IInv, ManifestIsLast, Bundles
    <3> QED BY <1>10, <1>12, <3>2
  <2> QED BY <2>1, <2>2
<1>15. LogsExtend'
  <2> SUFFICES ASSUME NEW g \in Logs
               PROVE  IsPrefix(Log(g)', LogOf(Later', g))
    BY DEF LogsExtend
  <2>1. CASE g = f
    <3>1. LogOf(Later', g) = LogOf(files', g)
      BY <1>3, <1>4, <1>8, <2>1 DEF LogOf
    <3>2. LogOf(files', g) = Log(g)'
      BY DiskIsFilesNext
    <3>3. IsPrefix(Log(g)', Log(g)')
      <4>1. r.is = "whole" /\ r.holds \in Histories
        BY <1>3, <2>1, PoolContent, ExamContent DEF Written, Logs
      <4>2. Log(g)' = r.holds
        BY <1>4, <2>1, <4>1 DEF Log, IsWhole, Held
      <4>3. r.holds \in Seq(Decided) /\ Len(r.holds) \in Nat
        BY <4>1, LenProperties DEF Histories
      <4>4. IsPrefix(r.holds, r.holds)
        BY <4>3 DEF IsPrefix
      <4> QED BY <4>2, <4>4
    <3> QED BY <3>1, <3>2, <3>3
  <2>2. CASE g # f
    <3>1. Log(g)' = Log(g)
      BY <1>4, <2>2, Places DEF Log, IsWhole, Held
    <3> QED BY <1>8, <3>1 DEF IInv, LogsExtend
  <2> QED BY <2>1, <2>2
<1>16. Promises'
  BY <1>1, <1>8 DEF IInv, Promises
<1>17. Remains'
  <2>1. "exam" \notin settled' /\ ("pool" \in settled' => PoolCopies')
    BY <1>1, <1>4, PoolKept DEF f
  <2>2. cmd'.name \in {"build", "import_pool", "import_exam"} => settled' = {}
    BY <1>1 DEF IInv, Remains
  <2>3. ASSUME cmd'.name = "run_exam"
        PROVE  /\ settled' \subseteq {"pool"}
               /\ \A i \in DOMAIN todo' : todo'[i][1] \in ExamFiles
    <3>1. settled \subseteq {"pool"} /\ \A i \in DOMAIN todo : todo[i][1] \in ExamFiles
      BY <1>1, <2>3 DEF IInv, Remains
    <3>2. \A i \in DOMAIN todo' : i + 1 \in DOMAIN todo /\ todo'[i] = todo[i + 1]
      BY <1>3
    <3> QED BY <1>1, <3>1, <3>2
  <2> QED BY <2>1, <2>2, <2>3 DEF Remains
<1> QED BY <1>6, <1>7, <1>9, <1>13, <1>14, <1>15, <1>16, <1>17 DEF IInv

LEMMA FinishKeeps == IInv /\ Finish => IInv'
<1> SUFFICES ASSUME IInv, Finish
             PROVE  IInv'
  OBVIOUS
<1>1. /\ todo = <<>> /\ cmd' = NoCmd /\ files' = files /\ ready' = ready
      /\ todo' = todo /\ used' = used
  BY DEF Finish
<1>2. settled' = CASE cmd.ok /\ cmd.name = "import_pool" -> {"pool"}
                   [] cmd.ok /\ cmd.name = "import_exam" ->
                        {"exam"} \cup IF Exists(PoolManifest) THEN {"pool"} ELSE {}
                   [] OTHER -> settled
  BY DEF Finish
<1>3. FilesOK
  BY DEF IInv, TypeOK
<1>4. Later = files /\ Later' = files'
  BY <1>1, <1>3, NothingLeft DEF Later
<1>5. FilesOK'
  BY <1>1, <1>3 DEF FilesOK
<1>6. \/ cmd.ok /\ cmd.name = "import_pool" /\ settled' = {"pool"}
      \/ /\ cmd.ok /\ cmd.name = "import_exam"
         /\ settled' = {"exam"} \cup IF Exists(PoolManifest) THEN {"pool"} ELSE {}
      \/ settled' = settled
  BY <1>2
<1>7. settled' \subseteq {"pool", "exam"}
  BY <1>6 DEF IInv, TypeOK
<1>8. TypeOK'
  <2>1. cmd' \in [name : {"none", "build", "import_pool", "run_exam", "import_exam"},
                  incoming : Seq(Label), ok : BOOLEAN]
    BY <1>1 DEF NoCmd
  <2> QED BY <1>1, <1>5, <1>7, <2>1 DEF IInv, TypeOK
<1>9. Once(todo)' /\ (cmd.name = "none" => Idle /\ todo = <<>>)'
  BY <1>1 DEF IInv, Once, Idle
<1>10. ManifestQueued'
  BY <1>1 DEF ManifestQueued
<1>11. ManifestIsLast'
  BY <1>1 DEF IInv, ManifestIsLast, Exists
<1>12. LogsExtend'
  <2> SUFFICES ASSUME NEW g \in Logs
               PROVE  IsPrefix(Log(g)', LogOf(Later', g))
    BY DEF LogsExtend
  <2>1. LogOf(Later', g) = Log(g) /\ Log(g)' = Log(g)
    BY <1>1, <1>4 DEF LogOf, Log, IsWhole, Held
  <2> QED BY <1>3, <2>1, PrefixOfItself
<1>13. Promises'
  BY <1>1 DEF Promises, NoCmd
<1>14. /\ "pool" \in settled' => PoolAgrees(files)
       /\ "exam" \in settled' => ExamAgrees(files)
       /\ {"pool", "exam"} \subseteq settled' /\ Exists(PoolManifest) => SharedOn(files)
  <2>1. CASE cmd.ok /\ cmd.name = "import_pool" /\ settled' = {"pool"}
    BY <1>4, <2>1 DEF IInv, Promises
  <2>2. CASE /\ cmd.ok /\ cmd.name = "import_exam"
             /\ settled' = {"exam"} \cup IF Exists(PoolManifest) THEN {"pool"} ELSE {}
    <3>1. /\ ExamAgrees(files)
          /\ Exists(PoolManifest) => PoolAgrees(files) /\ SharedOn(files)
      BY <1>4, <2>2 DEF IInv, Promises, Exists
    <3>2. "pool" \in settled' => Exists(PoolManifest)
      BY <2>2
    <3> QED BY <3>1, <3>2
  <2>3. CASE settled' = settled
    BY <2>3, DiskIsFiles DEF IInv, Remains
  <2> QED BY <1>6, <2>1, <2>2, <2>3
<1>15. Remains'
  <2>1. /\ PoolCopies' <=> PoolAgrees(files)
        /\ ExamCopies' <=> ExamAgrees(files)
        /\ VerdictsShared' <=> SharedOn(files)
        /\ Exists(PoolManifest)' <=> Exists(PoolManifest)
    BY <1>1, DiskIsFilesNext DEF Exists
  <2>2. cmd'.name = "none"
    BY <1>1 DEF NoCmd
  <2> QED BY <1>14, <2>1, <2>2 DEF Remains
<1> QED BY <1>8, <1>9, <1>10, <1>11, <1>12, <1>13, <1>15 DEF IInv
LEMMA CrashKeeps == IInv /\ Crash => IInv'
<1> SUFFICES ASSUME IInv, Crash
             PROVE  IInv'
  OBVIOUS
<1> DEFINE f == Head(todo)[1]
           emptied == IF f \in Logs THEN Whole(<<>>) ELSE Torn
<1>1. /\ todo # <<>> /\ files' \in {files, [files EXCEPT ![f] = emptied]}
      /\ cmd' = NoCmd /\ todo' = <<>> /\ Use("crash", MaxCrashes)
      /\ ready' = ready /\ settled' = settled
  BY DEF Crash
<1>2. FilesOK /\ todo \in Seq(Writes) /\ Once(todo)
  BY DEF IInv, TypeOK
<1>3. f \in Names /\ 1 \in DOMAIN todo /\ f = todo[1][1]
  <2>1. /\ Head(todo)[1] \in Names /\ Head(todo) = todo[1]
        /\ Len(todo) \in Nat \ {0} /\ DOMAIN todo = 1..Len(todo)
    BY <1>1, <1>2, OneLess
  <2> QED BY <2>1
<1>4. /\ emptied \in Written(f) \cup Unreadable(f)
      /\ emptied.is # "absent"
  <2>1. CASE f \in Logs
    <3>1. Content(f) = Histories
      BY <2>1, PoolContent, ExamContent DEF Logs
    <3>2. <<>> \in Histories
      BY DEF Histories, Distinct
    <3> QED BY <2>1, <3>1, <3>2 DEF Written, Whole
  <2>2. CASE f \notin Logs
    BY <2>2 DEF Unreadable, Torn
  <2> QED BY <2>1, <2>2
<1> HIDE DEF f, emptied
<1>5. /\ files'[f] \in {files[f], emptied}
      /\ \A g \in Names : g # f => files'[g] = files[g]
      /\ files' = [g \in Names |-> files'[g]]
  BY <1>1, <1>2, <1>3 DEF FilesOK
<1>6. FilesOK'
  <2>1. \A g \in Names : files'[g] \in Written(g) \cup Unreadable(g)
    BY <1>2, <1>4, <1>5 DEF FilesOK
  <2> QED BY <1>5, <2>1 DEF FilesOK
<1>7. TypeOK'
  <2>1. cmd' \in [name : {"none", "build", "import_pool", "run_exam", "import_exam"},
                  incoming : Seq(Label), ok : BOOLEAN]
    BY <1>1 DEF NoCmd
  <2>2. todo' \in Seq(Writes)
    BY <1>1
  <2>3. used' \in [{"build", "import", "exam", "crash"} -> Nat]
    BY <1>1, UseCounts DEF IInv, TypeOK
  <2> QED BY <1>1, <1>6, <2>1, <2>2, <2>3 DEF IInv, TypeOK
<1>8. Once(todo)' /\ (cmd.name = "none" => Idle /\ todo = <<>>)'
  BY <1>1 DEF Once, Idle
<1>9. ManifestQueued'
  BY <1>1 DEF ManifestQueued
<1>10. \A g \in Names : Exists(g) => Exists(g)'
  BY <1>4, <1>5 DEF Exists
<1>11. {PoolManifest, PoolAlpha} \subseteq Names /\ Bundles \subseteq Names
  BY DEF Names, Bundles
<1>12. ManifestIsLast'
  <2> SUFFICES ASSUME Exists(PoolManifest)'
               PROVE  /\ ready = Cands
                      /\ \A g \in Bundles \cup {PoolAlpha} : Exists(g)'
    BY <1>1 DEF ManifestIsLast, Exists, Bundles
  <2>1. CASE f = PoolManifest
    <3>1. /\ ready = Cands
          /\ \A g \in Bundles \cup {PoolAlpha} :
               Exists(g) \/ \E j \in 1..1 - 1 : todo[j][1] = g
      BY <1>3, <2>1 DEF IInv, ManifestQueued
    <3>2. \A g \in Bundles \cup {PoolAlpha} : Exists(g)
      BY <3>1
    <3> QED BY <1>10, <1>11, <3>1, <3>2
  <2>2. CASE f # PoolManifest
    <3>1. Exists(PoolManifest)
      BY <1>5, <1>11, <2>2 DEF Exists
    <3>2. ready = Cands /\ \A g \in Bundles \cup {PoolAlpha} : Exists(g)
      BY <3>1 DEF IInv, ManifestIsLast, Bundles
    <3> QED BY <1>10, <1>11, <3>2
  <2> QED BY <2>1, <2>2
<1>13. LogsExtend'
  <2> SUFFICES ASSUME NEW g \in Logs
               PROVE  IsPrefix(Log(g)', LogOf(Later', g))
    BY DEF LogsExtend
  <2>1. Later' = files'
    BY <1>1, <1>6, NothingLeftNext DEF Later
  <2>2. LogOf(Later', g) = Log(g)'
    BY <2>1, DiskIsFilesNext
  <2>3. Log(g)' = Log(g) \/ Log(g)' = <<>>
    <3>1. g \in Names
      BY Places
    <3>2. files'[g] \in {files[g], emptied}
      BY <1>5, <3>1
    <3>3. CASE files'[g] = files[g]
      BY <3>3 DEF Log, IsWhole, Held
    <3>4. CASE files'[g] = emptied /\ g = f
      BY <3>4 DEF Log, IsWhole, Held, emptied, Whole
    <3> QED BY <1>5, <3>1, <3>3, <3>4
  <2>4. IsPrefix(Log(g)', Log(g)')
    <3>1. IsPrefix(Log(g), Log(g))
      BY <1>2, PrefixOfItself
    <3>2. IsPrefix(<<>>, <<>>)
      BY DEF IsPrefix
    <3> QED BY <2>3, <3>1, <3>2
  <2> QED BY <2>2, <2>4
<1>14. Promises'
  BY <1>1 DEF Promises, NoCmd
<1>15. Remains'
  <2>1. "exam" \notin settled' /\ ("pool" \in settled' => PoolCopies')
    BY <1>1, <1>5, PoolKept DEF f
  <2>2. cmd'.name = "none"
    BY <1>1 DEF NoCmd
  <2> QED BY <2>1, <2>2 DEF Remains
<1> QED BY <1>7, <1>8, <1>9, <1>12, <1>13, <1>14, <1>15 DEF IInv

LEMMA InitHolds == Init => IInv
<1> SUFFICES ASSUME Init
             PROVE  IInv
  OBVIOUS
<1>1. /\ files = [f \in Names |-> Absent] /\ ready = {} /\ cmd = NoCmd
      /\ todo = <<>> /\ settled = {}
      /\ used = [build |-> 0, import |-> 0, exam |-> 0, crash |-> 0]
  BY DEF Init
<1>2. FilesOK
  BY <1>1 DEF FilesOK, Unreadable
<1>3. used \in [{"build", "import", "exam", "crash"} -> Nat]
  BY <1>1
<1>4. TypeOK
  BY <1>1, <1>2, <1>3 DEF TypeOK, NoCmd
<1>5. Once(todo) /\ (cmd.name = "none" => Idle /\ todo = <<>>) /\ ManifestQueued
  BY <1>1 DEF Once, Idle, ManifestQueued
<1>6. ManifestIsLast
  <2>1. PoolManifest \in Names
    BY Places
  <2> QED BY <1>1, <2>1 DEF ManifestIsLast, Exists, Absent
<1>7. LogsExtend
  <2>1. Later = files
    BY <1>1, <1>2, NothingLeft DEF Later
  <2>2. \A f \in Logs : LogOf(Later, f) = Log(f)
    BY <2>1, DiskIsFiles
  <2> QED BY <1>2, <2>2, PrefixOfItself DEF LogsExtend
<1>8. Promises /\ Remains
  BY <1>1 DEF Promises, Remains, NoCmd
<1> QED BY <1>4, <1>5, <1>6, <1>7, <1>8 DEF IInv

-----------------------------------------------------------------------------
(* The theorems. *)

LEMMA IInvIsKept == IInv /\ [Next]_vars => IInv'
<1> SUFFICES ASSUME IInv, [Next]_vars
             PROVE  IInv'
  OBVIOUS
<1>1. CASE UNCHANGED vars
  <2>1. /\ files' = files /\ ready' = ready /\ cmd' = cmd /\ todo' = todo
        /\ settled' = settled /\ used' = used
    BY <1>1 DEF vars
  <2>2. TypeOK' /\ Once(todo)' /\ (cmd.name = "none" => Idle /\ todo = <<>>)'
    BY <2>1 DEF IInv, TypeOK, FilesOK, Once, Idle
  <2>3. ManifestQueued' /\ ManifestIsLast'
    BY <2>1 DEF IInv, ManifestQueued, ManifestIsLast, Exists
  <2>4. LogsExtend'
    BY <2>1 DEF IInv, LogsExtend, Later, Log, IsWhole, Held
  <2>5. Promises'
    BY <2>1 DEF IInv, Promises, Later
  <2>6. Remains'
    <3>1. /\ PoolCopies' <=> PoolCopies
          /\ ExamCopies' <=> ExamCopies
          /\ VerdictsShared' <=> VerdictsShared
          /\ Exists(PoolManifest)' <=> Exists(PoolManifest)
      BY <2>1, DiskIsFiles, DiskIsFilesNext DEF Exists
    <3> QED BY <2>1, <3>1 DEF IInv, Remains
  <2> QED BY <2>2, <2>3, <2>4, <2>5, <2>6 DEF IInv
<1>2. CASE Build
  BY <1>2, BuildKeeps
<1>3. CASE ImportPool
  BY <1>3, ImportPoolKeeps
<1>4. CASE RunExam
  BY <1>4, RunExamKeeps
<1>5. CASE ImportExam
  BY <1>5, ImportExamKeeps
<1>6. CASE WriteNext
  BY <1>6, WriteNextKeeps
<1>7. CASE Finish
  BY <1>7, FinishKeeps
<1>8. CASE Crash
  BY <1>8, CrashKeeps
<1> QED BY <1>1, <1>2, <1>3, <1>4, <1>5, <1>6, <1>7, <1>8 DEF Next

LEMMA AlwaysIInv == Spec => []IInv
BY InitHolds, IInvIsKept, PTL DEF Spec

(* Every file is absent, cut off, or holds what its reader expects: logs    *)
(* are decided labels without duplicates, reports count, manifests list     *)
(* candidates (review_ops.py, generated_exam.py, candidate_pool.py).        *)
THEOREM ReviewFilesWellFormed == Spec => []TypeOK
<1>1. IInv => TypeOK
  BY DEF IInv
<1> QED BY <1>1, AlwaysIInv, PTL

(* Once an import has completed, all copies of a verdict agree in the pool  *)
(* and in the exam, whatever was interrupted before it                      *)
(* (sync_candidate_pool_reviews, sync_generated_exam_reviews).              *)
THEOREM CopiesAlwaysAgree == Spec => []CopiesAgree
<1>1. IInv => CopiesAgree
  BY DEF IInv, Remains, CopiesAgree
<1> QED BY <1>1, AlwaysIInv, PTL

(* After a completed exam import the pool has every label of the exam, and  *)
(* the exam's manifest shows the pool's verdicts                            *)
(* (sync_generated_exam_reviews).                                           *)
THEOREM ExamVerdictsAlwaysReachPool == Spec => []ExamVerdictsReachPool
<1>1. IInv => ExamVerdictsReachPool
  BY DEF IInv, Remains, ExamVerdictsReachPool
<1> QED BY <1>1, AlwaysIInv, PTL

(* No exam run on a pool whose last import completed takes a candidate that *)
(* the pool's labels reject (GeneratedExamPipeline.run).                    *)
THEOREM RejectedIsNeverSelected == Spec => []NoRejectedInExam
<1>1. IInv => NoRejectedInExam
  <2> SUFFICES ASSUME IInv, "pool" \in settled, cmd.name = "run_exam", todo = <<>>, cmd.ok
               PROVE  CleanSelection
    BY DEF NoRejectedInExam
  <2>1. CleanOn(Later)
    BY DEF IInv, Promises
  <2>2. Later = files
    BY NothingLeft DEF Later, IInv, TypeOK
  <2> QED BY <2>1, <2>2, DiskIsFiles
<1> QED BY <1>1, AlwaysIInv, PTL

(* Where the pool's manifest is, everything it points to is, whenever a     *)
(* build or an import was cut off (CandidatePoolBuilder.build).             *)
THEOREM ManifestIsAlwaysLast == Spec => []ManifestIsLast
<1>1. IInv => ManifestIsLast
  BY DEF IInv
<1> QED BY <1>1, AlwaysIInv, PTL

(* A step appends to a label log or leaves it, except a crash in the middle *)
(* of its rewriting, which empties it (merge_human_review_records and       *)
(* write_human_review_records).                                             *)
THEOREM VerdictsAreHistory == Spec => HistoryGrows
<1> DEFINE Grows(f) ==
      \/ IsPrefix(Log(f), Log(f)')
      \/ todo # <<>> /\ Head(todo)[1] = f /\ todo' = <<>> /\ cmd' = NoCmd
           /\ Log(f)' = <<>>
<1>1. ASSUME IInv, [Next]_vars, NEW f \in Logs
      PROVE  Grows(f)
  <2>1. FilesOK /\ todo \in Seq(Writes) /\ Once(todo) /\ f \in Names
    BY <1>1, Places DEF IInv, TypeOK
  <2>2. IsPrefix(Log(f), Log(f))
    BY <2>1, PrefixOfItself
  <2>3. CASE files' = files
    <3>1. Log(f)' = Log(f)
      BY <2>3 DEF Log, IsWhole, Held
    <3> QED BY <2>2, <3>1
  <2>4. CASE WriteNext
    <3> DEFINE h == Head(todo)[1]
               r == Head(todo)[2]
    <3>1. todo # <<>> /\ files' = [files EXCEPT ![h] = r]
      BY <2>4 DEF WriteNext
    <3>2. h \in Names /\ Later[h] = r
      BY <2>1, <3>1, OneLess
    <3> HIDE DEF h, r
    <3>3. CASE f = h
      <4>1. Later[f] = files'[f]
        BY <2>1, <3>1, <3>2, <3>3 DEF FilesOK
      <4>2. LogOf(Later, f) = Log(f)'
        BY <4>1 DEF LogOf, Log, IsWhole, Held
      <4>3. IsPrefix(Log(f), LogOf(Later, f))
        BY <1>1 DEF IInv, LogsExtend
      <4> QED BY <4>2, <4>3
    <3>4. CASE f # h
      <4>1. files'[f] = files[f]
        BY <2>1, <3>1, <3>4 DEF FilesOK
      <4>2. Log(f)' = Log(f)
        BY <4>1 DEF Log, IsWhole, Held
      <4> QED BY <2>2, <4>2
    <3> QED BY <3>3, <3>4
  <2>5. CASE Crash
    <3> DEFINE h == Head(todo)[1]
               emptied == IF h \in Logs THEN Whole(<<>>) ELSE Torn
    <3>1. /\ todo # <<>> /\ todo' = <<>> /\ cmd' = NoCmd
          /\ files' = files \/ files' = [files EXCEPT ![h] = emptied]
      BY <2>5 DEF Crash
    <3>2. CASE files' = [files EXCEPT ![h] = emptied] /\ f = h
      <4>1. files'[f] = Whole(<<>>)
        BY <1>1, <2>1, <3>2 DEF FilesOK
      <4>2. Log(f)' = <<>>
        BY <4>1 DEF Log, IsWhole, Held, Whole
      <4> QED BY <3>1, <3>2, <4>2
    <3>3. CASE files' = [files EXCEPT ![h] = emptied] /\ f # h
      <4> HIDE DEF h, emptied
      <4>1. files'[f] = files[f]
        BY <2>1, <3>3 DEF FilesOK
      <4>2. Log(f)' = Log(f)
        BY <4>1 DEF Log, IsWhole, Held
      <4> QED BY <2>2, <4>2
    <3> QED BY <2>3, <3>1, <3>2, <3>3
  <2>6. CASE Build \/ ImportPool \/ RunExam \/ ImportExam \/ Finish \/ UNCHANGED vars
    BY <2>3, <2>6 DEF Build, ImportPool, RunExam, ImportExam, Finish, Begin, vars
  <2> QED BY <1>1, <2>4, <2>5, <2>6 DEF Next
<1>2. IInv /\ [Next]_vars => [\A f \in Logs : Grows(f)]_vars
  BY <1>1
<1> QED BY <1>2, AlwaysIInv, PTL DEF Spec, HistoryGrows
====
