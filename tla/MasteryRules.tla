---------------------------- MODULE MasteryRules ----------------------------
(***************************************************************************)
(* The pure rules of the learning model: how a skill's counters become a   *)
(* mastery label (classifyMastery), how far in the future a mistake is     *)
(* scheduled (reviewDelay) and how one review moves a mistake              *)
(* (ReviewOutcome).  The wording of the reason that accompanies a label is *)
(* left out.  Accuracies are compared by cross multiplication; the code    *)
(* compares a correctly rounded float64 quotient with the same decimal     *)
(* literals, which decides alike.                                          *)
(***************************************************************************)
EXTENDS Integers

(* accuracy >= pct / 100, for seen > 0 *)
AccuracyAtLeast(seen, correct, pct) == 100 * correct >= pct * seen

Classify(seen, correct) ==
  IF seen = 0 THEN "not_started"
  ELSE IF seen < 3 THEN "introduced"
  ELSE IF AccuracyAtLeast(seen, correct, 90) /\ seen >= 5 THEN "mastered"
  ELSE IF AccuracyAtLeast(seen, correct, 70) THEN "developing"
  ELSE IF AccuracyAtLeast(seen, correct, 40) THEN "practicing"
  ELSE "needs_review"

(* The order a student reads the assessed labels in: the further the       *)
(* better.  Not in the code, which only names the labels.                  *)
LabelRank(label) ==
  CASE label = "needs_review" -> 1
    [] label = "practicing"   -> 2
    [] label = "developing"   -> 3
    [] label = "mastered"     -> 4
    [] OTHER                  -> 0

-----------------------------------------------------------------------------

MistakeStates == {"new", "reviewing_soon", "reviewing_later", "stabilizing",
                  "mastered"}

(* Hours until a mistake made `count' times comes back. *)
ReviewDelay(count) ==
  IF count <= 1 THEN 24 ELSE IF count = 2 THEN 12 ELSE 4

(* The state a correct review answer leads to. *)
Promote(state) ==
  CASE state \in {"new", "reviewing_soon"} -> "reviewing_later"
    [] state = "reviewing_later"           -> "stabilizing"
    [] OTHER                               -> "mastered"

(* Hours until the next review after one that led to `newState'. *)
NextDelay(newState, count) ==
  CASE newState = "reviewing_later" -> 72
    [] newState = "stabilizing"     -> 168
    [] OTHER                        -> ReviewDelay(count + 1)
=============================================================================
