------------------------- MODULE MCCuratedBatches -------------------------
(* CuratedBatches with a table of texts and a registry of families. *)
EXTENDS CuratedBatches

Text(item, linted, builds, topic, forms, steps) ==
  [item |-> item, schema |-> linted \/ builds, linted |-> linted, builds |-> builds,
   topic |-> topic, forms |-> forms, steps |-> steps]
Step(label, moves) == [label |-> label, moves |-> moves]

(* Two revisions of item A; an item B whose step is the same atom as A's; an *)
(* ambiguous, a lint-failing, a graphless and a malformed text.              *)
MCContent ==
  <<Text("A", TRUE, TRUE, "log", {"choice"}, {Step("merge", {"filter"})}),
    Text("A", TRUE, TRUE, "log", {"choice"}, {Step("merge", {"other"}), Step("check", {"filter"})}),
    Text("B", TRUE, TRUE, "log", {"short"}, {Step("merge", {"domain"})}),
    Text("C", FALSE, TRUE, "area", {"choice"}, {Step("area", {"split"})}),
    Text("C", TRUE, FALSE, "area", {"choice"}, {Step("area", {"split"})}),
    Text("C", FALSE, FALSE, "area", {"choice"}, {})>>

HandWrittenBatches(ids, versions, lists, jsonl, zones) ==
  {[jsonl |-> jsonl, items |-> l, manifest |-> Manifest(id, v, c, c # 0 /\ z, l)] :
     id \in ids, v \in versions, c \in Stamps, z \in zones, l \in lists}
MCHandWritten ==
  <<HandWrittenBatches({1}, {2, 3}, {<<1>>, <<2, 1>>}, FALSE, {TRUE}),
    HandWrittenBatches({1, 2}, {2}, {<<1>>}, FALSE, BOOLEAN)
      \cup HandWrittenBatches({2}, {2}, {<<3>>}, TRUE, {TRUE})>>
(* Three batches of one item each: a text, its revision, the text again. *)
MCReissued ==
  <<HandWrittenBatches({1}, {1, 2, 3}, {<<1>>}, FALSE, {TRUE}),
    HandWrittenBatches({2}, {1, 2, 3}, {<<2>>}, FALSE, {TRUE}),
    HandWrittenBatches({3}, {1, 2, 3}, {<<1>>}, FALSE, {TRUE})>>
MCLists == {<<>>, <<2>>, <<1, 1>>, <<4, 3>>, <<5>>, <<6>>}
MCTemplates == {<<>>, <<3>>}
MCOutputs == <<"item_cards", "atoms">>

MCRegistry ==
  [log_filter |-> [topics |-> {"log"}, forms |-> {"choice"}, moves |-> {"filter"}, item |-> 1],
   log_short |-> [topics |-> {"log"}, forms |-> {"short"}, moves |-> {}, item |-> 2],
   area_split |-> [topics |-> {"area"}, forms |-> {"choice"}, moves |-> {}, item |-> 2]]
MCFamilies == DOMAIN MCRegistry
=============================================================================
