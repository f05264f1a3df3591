--------------------------- MODULE FamilyRegistry ---------------------------
(***************************************************************************)
(* The real-item families of src/orchestrator/families/base.py: which      *)
(* family an atom is given, what the coverage report says about it, and    *)
(* how a blueprint finds its family again.  All of it is computed from the *)
(* registry, a constant; CuratedBatches applies it to distilled atoms.     *)
(*                                                                         *)
(* An atom has a topic, a label, canonical moves and allowed answer forms; *)
(* of a blueprint's skill tags only the family tags are kept.              *)
(***************************************************************************)
EXTENDS Integers, FiniteSets

CONSTANTS
  Families,     (* family ids                                               *)
  Registry,     (* family -> [topics, forms, moves, item]; moves is {} when *)
                (* the family has no matcher of its own                     *)
  Refused       (* RealItemFamilySelectionError                             *)

ASSUME FamiliesAssumption == IsFiniteSet(Families)
ASSUME RefusedAssumption == Refused \notin Families
ASSUME RegistryAssumption ==
  \A f \in Families : Registry[f].topics # {} /\ Registry[f].forms # {}

(* matches_atom, with the matcher atom_has_any_move. *)
MatchesAtom(f, atom) ==
  /\ atom.topic \in Registry[f].topics
  /\ atom.forms \cap Registry[f].forms # {}
  /\ Registry[f].moves # {} => atom.moves \cap Registry[f].moves # {}

Matches(atom) == {f \in Families : MatchesAtom(f, atom)}

(* Mutant of SelectForAtom: the first of several matches is taken. *)
SelectFirstMatch(atom) ==
  IF Matches(atom) = {} THEN Refused ELSE CHOOSE f \in Matches(atom) : TRUE

(* select_for_atom: one match or an error. *)
SelectForAtom(atom) ==
  IF Cardinality(Matches(atom)) = 1 THEN CHOOSE f \in Matches(atom) : TRUE ELSE Refused

(* select_for_atom with a family_id. *)
SelectRequested(atom, family) ==
  IF family \in Families /\ MatchesAtom(family, atom) THEN family ELSE Refused

(* classify_atom_support: the families left after the last test that left *)
(* any, and why the atom is unsupported.                                   *)
Support(families, reason) == [families |-> families, reason |-> reason]

ClassifyAtomSupport(atom) ==
  LET topic == {f \in Families : atom.topic \in Registry[f].topics}
      answer == {f \in topic : atom.forms \cap Registry[f].forms # {}}
      matched == {f \in answer : MatchesAtom(f, atom)}
  IN IF topic = {} THEN Support({}, "topic_not_supported")
     ELSE IF answer = {} THEN Support(topic, "answer_form_not_supported")
     ELSE IF matched = {} THEN Support(answer, "family_matcher_not_satisfied")
     ELSE IF Cardinality(matched) > 1 THEN Support(matched, "ambiguous_family_match")
     ELSE Support(matched, "supported")

(* coverage_report: the mapped atoms with their family, the others. *)
CoverageReport(atoms) ==
  LET support == [a \in atoms |-> ClassifyAtomSupport(a)]
      mapped == {a \in atoms : support[a].reason = "supported"}
      ambiguous == {a \in atoms : support[a].reason = "ambiguous_family_match"}
  IN [mappings |-> {<<a, CHOOSE f \in support[a].families : TRUE>> : a \in mapped},
      ambiguous |-> ambiguous,
      unmatched |-> atoms \ (mapped \cup ambiguous)]

-----------------------------------------------------------------------------
(* Blueprints. *)

(* The blueprint a family builds: its slot of the spec, and its own tag. *)
BuildBlueprint(f) == [item |-> Registry[f].item, tags |-> {f}]

(* resolve_for_blueprint, with extract_blueprint_family_id: conflicting     *)
(* tags, an unknown tag or a foreign slot are refused, and without a tag    *)
(* the slot must decide.                                                    *)
ResolveForBlueprint(blueprint) ==
  LET ofSlot == {f \in Families : Registry[f].item = blueprint.item}
      candidates == IF blueprint.tags = {} THEN ofSlot ELSE blueprint.tags
  IN IF Cardinality(candidates) = 1 /\ candidates \subseteq ofSlot
     THEN CHOOSE f \in candidates : TRUE
     ELSE Refused
=============================================================================
