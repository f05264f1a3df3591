------------------------ MODULE MCMiniAlphaSelection ------------------------
(* MiniAlphaSelection on the pools of three candidates for three slots.    *)
EXTENDS MiniAlphaSelection

CONSTANTS p1, p2

WithSelf(o) == [c \in Cands |-> [d \in Cands |-> IF c = d THEN Hard ELSE o[<<c, d>>]]]
Others == {p \in Cands \X Cands : p[1] # p[2]}

(* Every candidate fits every slot: all overlaps, which may differ by       *)
(* direction, item numbers 1 and 3, and candidate 1 approved or to be       *)
(* revised.                                                                 *)
Interchangeable ==
  {[profile |-> [c \in Cands |-> p1], wanted |-> [s \in Slots |-> p1],
    overlap |-> WithSelf(o), itemNo |-> i, review |-> [c \in Cands |-> IF c = 1 THEN r ELSE 0]] :
     o \in [Others -> {0, 1, Hard}], i \in [Cands -> {1, 3}], r \in {0, 150}}

(* Two profiles in any way, overlaps none or hard for the three pairs, and  *)
(* candidates that do not say which item they come from but for the third.  *)
Profiled ==
  {[profile |-> f, wanted |-> w,
    overlap |-> WithSelf([p \in Others |-> o[p[1] + p[2] - 2]]),
    itemNo |-> [c \in Cands |-> IF c = 3 THEN i ELSE 0], review |-> [c \in Cands |-> 0]] :
     f \in [Cands -> {p1, p2}], w \in [Slots -> {p1, p2}],
     o \in [1..3 -> {0, Hard}], i \in {0, 1}}

MCPools == Interchangeable \cup Profiled
=============================================================================
