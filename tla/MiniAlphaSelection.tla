------------------------- MODULE MiniAlphaSelection -------------------------
(***************************************************************************)
(* The choice of one candidate per slot in src/assembly/mini_alpha.py,     *)
(* _select_candidates: a depth-first search that prunes by the best        *)
(* assignment so far and by a memo of the sets of candidates it has been   *)
(* at, with the least penalty it came there with.                          *)
(*                                                                         *)
(* A pool is what the search can tell of the candidates and slots: their   *)
(* profiles, the penalty of adding one candidate to another (Hard when     *)
(* they are too similar; similarity ratios are not symmetric), the item    *)
(* numbers they come from and the review penalty.  One step is one turn of *)
(* the loop over the ranked candidates of a slot, with the call of dfs it  *)
(* leads to up to that call's own loop.                                    *)
(***************************************************************************)
EXTENDS Integers, Sequences, FiniteSets, SequencesExt

CONSTANTS
  NumCands, NumSlots,   (* candidates and slots, numbered                  *)
  Profiles,             (* domain, difficulty, format and score together   *)
  Hard,                 (* the overlap of a hard collision                 *)
  Pools                 (* the pools the search is run on                  *)

ASSUME SizesAssumption == {NumCands, NumSlots} \subseteq Nat \ {0}
Cands == 1..NumCands
Slots == 1..NumSlots

(* Item number 0: the candidate does not say.  Slots are sampled from       *)
(* different items.                                                         *)
Pool == [profile : [Cands -> Profiles], wanted : [Slots -> Profiles],
         overlap : [Cands -> [Cands -> Nat]], itemNo : [Cands -> Nat],
         review : [Cands -> Nat]]

ASSUME PoolsAssumption ==
  \A p \in Pools : p \in Pool /\ \A c \in Cands : p.overlap[c][c] = Hard

VARIABLES
  pool,      (* the candidates and slots; never changes                    *)
  status,    (* "start", "searching", "done" or "raised"                   *)
  order,     (* search_slots                                               *)
  chosen,    (* candidates of the first slots of order                     *)
  costs,     (* penalty of each open call of dfs                           *)
  ranked,    (* what each open call has still to try                       *)
  best,      (* best_assignment with its penalty; no assignment: <<>>      *)
  seen       (* seen_penalties; the index is the number of used candidates *)

vars == <<pool, status, order, chosen, costs, ranked, best, seen>>

-----------------------------------------------------------------------------
(* Penalties. *)

Compatible(slot) == {c \in Cands : pool.profile[c] = pool.wanted[slot]}

Distance(c, slot) ==
  IF pool.itemNo[c] = 0 THEN 0
  ELSE IF pool.itemNo[c] < slot THEN slot - pool.itemNo[c] ELSE pool.itemNo[c] - slot

Collides(c, selected) == \E d \in selected : pool.overlap[c][d] = Hard

(* _overlap_penalty: 0 with a hard collision. *)
OverlapPenalty(c, selected, slot) ==
  IF Collides(c, selected) THEN 0
  ELSE Distance(c, slot) + MapThenSumSet(LAMBDA d : pool.overlap[c][d], selected)

(* The order of trying: by review penalty, then overlap, distance and id.   *)
Key(c, selected, slot) ==
  <<pool.review[c], OverlapPenalty(c, selected, slot), Distance(c, slot), c>>

Below(a, b) == \E i \in DOMAIN a : a[i] < b[i] /\ \A j \in 1..(i - 1) : a[j] = b[j]

Sorted(S, Rank(_)) ==
  CHOOSE q \in [1..Cardinality(S) -> S] :
    \A i \in DOMAIN q : \A j \in 1..(i - 1) : Below(Rank(q[j]), Rank(q[i]))

Ranked(selected, slot) == Sorted(Compatible(slot), LAMBDA c : Key(c, selected, slot))

(* Slots with few compatible candidates first. *)
SearchOrder == Sorted(Slots, LAMBDA s : <<Cardinality(Compatible(s)), s>>)

-----------------------------------------------------------------------------
(* The search. *)

Init ==
  /\ pool \in Pools
  /\ status = "start"
  /\ order = <<>> /\ chosen = <<>> /\ costs = <<>> /\ ranked = <<>>
  /\ best = [assignment |-> <<>>, penalty |-> 0]
  /\ seen = << >>

NoBest == best.assignment = <<>>

(* A slot without a compatible candidate raises; else dfs is called at 0.   *)
Start ==
  /\ status = "start"
  /\ IF \E slot \in Slots : Compatible(slot) = {}
     THEN /\ status' = "raised"
          /\ UNCHANGED <<order, costs, ranked, seen>>
     ELSE /\ status' = "searching"
          /\ order' = SearchOrder
          /\ costs' = <<0>>
          /\ ranked' = <<Ranked({}, SearchOrder[1])>>
          /\ seen' = [used \in {{}} |-> 0]
  /\ UNCHANGED <<pool, chosen, best>>

Slot == order[Len(chosen) + 1]
Candidate == Head(Last(ranked))
Used == Range(chosen)
NextCost == Last(costs) + OverlapPenalty(Candidate, Used, Slot)

Trying == status = "searching" /\ ranked # <<>> /\ Last(ranked) # <<>>

Tried == Append(Front(ranked), Tail(Last(ranked)))

(* Skipped, or dfs is called and returns at once.                           *)
Usable == Candidate \notin Used /\ ~Collides(Candidate, Used)

(* Mutant of Pruned: a set of candidates is tried once, whatever it cost. *)
PrunedOnceSeen ==
  \/ ~NoBest /\ NextCost >= best.penalty
  \/ Used \cup {Candidate} \in DOMAIN seen

Pruned ==
  \/ ~NoBest /\ NextCost >= best.penalty
  \/ Used \cup {Candidate} \in DOMAIN seen
       /\ NextCost >= seen[Used \cup {Candidate}]

PassOver ==
  /\ Trying
  /\ ~Usable \/ Pruned
  /\ ranked' = Tried
  /\ UNCHANGED <<pool, status, order, chosen, costs, best, seen>>

Remember ==
  seen' = [used \in {Used \cup {Candidate}} \cup DOMAIN seen |->
             IF used = Used \cup {Candidate} THEN NextCost ELSE seen[used]]

(* The last slot is filled: the best assignment so far. *)
Improve ==
  /\ Trying
  /\ Usable /\ ~Pruned
  /\ Len(chosen) + 1 = NumSlots
  /\ best' = [assignment |-> Append(chosen, Candidate), penalty |-> NextCost]
  /\ ranked' = Tried
  /\ Remember
  /\ UNCHANGED <<pool, status, order, chosen, costs>>

Descend ==
  /\ Trying
  /\ Usable /\ ~Pruned
  /\ Len(chosen) + 1 < NumSlots
  /\ chosen' = Append(chosen, Candidate)
  /\ costs' = Append(costs, NextCost)
  /\ ranked' = Append(Tried, Ranked(Used \cup {Candidate}, order[Len(chosen) + 2]))
  /\ Remember
  /\ UNCHANGED <<pool, status, order, best>>

Return ==
  /\ status = "searching"
  /\ Last(ranked) = <<>>
  /\ ranked' = Front(ranked)
  /\ costs' = Front(costs)
  /\ chosen' = IF chosen = <<>> THEN <<>> ELSE Front(chosen)
  /\ status' = IF Len(ranked) > 1 THEN "searching"
               ELSE IF NoBest THEN "raised" ELSE "done"
  /\ UNCHANGED <<pool, order, best, seen>>

Next == Start \/ PassOver \/ Improve \/ Descend \/ Return

Spec == Init /\ [][Next]_vars

-----------------------------------------------------------------------------
(* What is to be selected: an assignment of distinct compatible candidates  *)
(* to slots, without hard collisions, and of least penalty.                 *)

(* A slot with the slots that are filled before it.                         *)
SlotPairs ==
  {<<order[p[1]], order[p[2]]>> : p \in {q \in (DOMAIN order) \X (DOMAIN order) : q[1] > q[2]}}

Assignments ==
  {a \in [Slots -> Cands] :
     /\ IsInjective(a)
     /\ \A s \in Slots : a[s] \in Compatible(s)
     /\ \A p \in SlotPairs : pool.overlap[a[p[1]]][a[p[2]]] # Hard}

Penalty(a) ==
  MapThenSumSet(LAMBDA s : Distance(a[s], s), Slots)
    + MapThenSumSet(LAMBDA p : pool.overlap[a[p[1]]][a[p[2]]], SlotPairs)

Best == [s \in Slots |-> best.assignment[CHOOSE i \in DOMAIN order : order[i] = s]]

-----------------------------------------------------------------------------
(* Properties. *)

(* What the search has found so far could be used, and costs what it says:  *)
(* every slot has a compatible candidate of its own, no two of them collide *)
(* (_overlap_penalty returns penalty 0 with a collision), and the penalty   *)
(* added up candidate by candidate (the penalty argument of dfs) is the     *)
(* penalty of the assignment as a whole, whatever the order of the slots.   *)
FoundIsSound ==
  ~NoBest => Best \in Assignments /\ best.penalty = Penalty(Best)

(* What is found is sound, and pruning loses nothing, although the memo     *)
(* knows which candidates were used and not for which slots                 *)
(* (seen_penalties): when the search ends no assignment has a lower         *)
(* penalty, and "Unable to find an assignment" is raised only when there is *)
(* none.                                                                    *)
SearchIsExact ==
  /\ FoundIsSound
  /\ status = "done" => \A a \in Assignments : best.penalty <= Penalty(a)
  /\ status = "raised" => Assignments = {}
=============================================================================
