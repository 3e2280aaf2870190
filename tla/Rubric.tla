------------------------------- MODULE Rubric -------------------------------
(***************************************************************************)
(* The scoring rubric (judge/rubric.py): the convex combination of six     *)
(* axes, the score ceilings the judges attach, and the public verdict.     *)
(*                                                                         *)
(* Exact arithmetic.  A judge's score is an integer number of points; the  *)
(* code averages two of them (protocol) and sometimes four (Judge C), so   *)
(* an axis is kept in quarter points (0 .. FullAxis) and a score, its      *)
(* weights being percentages, in 1/400 of a point (0 .. FullScore).        *)
(***************************************************************************)
EXTENDS Integers

QuarterPoints == 4                      \* quarter points in a point
Point         == 100 * QuarterPoints    \* score units in a point
FullAxis      == 100 * QuarterPoints
FullScore     == 100 * Point

Axes == {"protocol", "gold_graph", "correctness", "gap_resistance",
         "novelty", "clarity"}

(* WEIGHTS, in percent *)
Weight == [protocol |-> 20, gold_graph |-> 25, correctness |-> 25,
           gap_resistance |-> 15, novelty |-> 10, clarity |-> 5]

(* RubricCaps, in score units; NotBinding is the 100-point audit-only cap  *)
(* of an inconclusive Judge B.                                             *)
DQ_VALUE                  == 0
SURVEY_ONLY               == 45 * Point
KEY_LEMMA_UNPROVED        == 65 * Point
FATAL_GAP                 == 70 * Point
MEDIUM_CONTAMINATION_RISK == 80 * Point
NotBinding                == 100 * Point

CapValues == {DQ_VALUE, SURVEY_ONLY, KEY_LEMMA_UNPROVED, FATAL_GAP,
              MEDIUM_CONTAMINATION_RISK, NotBinding}

(* A plausible bug: "flagged: judge B reports moderate post-cutoff risk"   *)
(* is taken for contamination.                                             *)
SaysJudgeB == {"phrase_bank", "b_major", "b_contaminated_not_ranked", "b_moderate"}

(* A cap's reason is free text in the code; here it is the sentence's name.*)
(* The three sets say which sentences contain the words verdict_from looks *)
(* for ("disqualified", "contamin", "schema" or "missing").                *)
(* "b_disqualify" is the text "judge B recommended action: disqualify",    *)
(* in which none of the words occurs.                                      *)
SaysDisqualified == {"cited_outside_corpus"}
SaysContamin     == {"phrase_bank", "b_major", "b_contaminated_not_ranked", "e_leak"}
SaysMissing      == {"missing_outputs"}
SaysNothing      == {"survey_only", "b_moderate", "b_disqualify", "b_inconclusive",
                     "d_fatal", "d_major"}
Reasons == SaysDisqualified \cup SaysContamin \cup SaysMissing \cup SaysNothing

Cap == [reason : Reasons, cap : CapValues]

Verdicts == {"DISQUALIFIED", "CONTAMINATED", "FAILED", "FLAGGED", "RANKED"}

-----------------------------------------------------------------------------
(* A plausible bug: no upper bound. *)
ClampBelow(v, top) == IF v < 0 THEN 0 ELSE v

(* max(0.0, min(100.0, v)) *)
Clamp(v, top) == IF v < 0 THEN 0 ELSE IF v > top THEN top ELSE v

weighted_score(sub) ==
  LET part(axis) == Weight[axis] * Clamp(sub[axis], FullAxis)
  IN  part("protocol") + part("gold_graph") + part("correctness")
        + part("gap_resistance") + part("novelty") + part("clarity")

(* min(c.cap for c in caps) *)
LowestCap(caps) ==
  CHOOSE v \in {c.cap : c \in caps} : \A c \in caps : v <= c.cap

(* A plausible bug: the caps are applied one by one to the weighted score, *)
(* and the last (here: the kindest) one stays.                             *)
FinalOfLastCap(weighted, caps) ==
  LET last == CHOOSE v \in {c.cap : c \in caps} : \A c \in caps : v >= c.cap
  IN  IF caps # {} /\ last < weighted THEN last ELSE weighted

(* apply_rubric's final score: the weighted score under the lowest cap *)
FinalScore(weighted, caps) ==
  IF caps # {} /\ LowestCap(caps) < weighted THEN LowestCap(caps) ELSE weighted

(* A plausible bug: a cap equal to the weighted score does not bind.       *)
StrictlyBinding(weighted, caps) == {c \in caps : c.cap < weighted}

(* apply_rubric's applied caps: those at or below the weighted score *)
BindingCaps(weighted, caps) == {c \in caps : c.cap <= weighted}

Mentions(caps, words) == \E c \in caps : c.reason \in words

(* verdict_from: the first rule that applies, top to bottom *)
verdict_from(final, caps) ==
  IF Mentions(caps, SaysDisqualified) THEN "DISQUALIFIED"
  ELSE IF Mentions(caps, SaysContamin) THEN "CONTAMINATED"
  ELSE IF Mentions(caps, SaysMissing) THEN "FAILED"
  ELSE IF final = DQ_VALUE THEN "DISQUALIFIED"
  ELSE IF caps # {} THEN "FLAGGED"
  ELSE "RANKED"
=============================================================================
