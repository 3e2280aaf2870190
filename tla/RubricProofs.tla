---------------------------- MODULE RubricProofs ----------------------------
(***************************************************************************)
(* Facts about the rubric, for every set of caps and every subscore; what  *)
(* is proved about the judges and about the leaderboard rests on them.     *)
(***************************************************************************)
EXTENDS Rubric, TLAPS

(* Clamping keeps a number between zero and the top (rubric.py:68).        *)
LEMMA ClampInRange ==
  ASSUME NEW v \in Int, NEW top \in Nat
  PROVE  Clamp(v, top) \in 0 .. top
BY DEF Clamp

(* A weighted score is between zero and the full score: the weights are    *)
(* percentages that add up to 100 (rubric.py:26-33, 60-70).                *)
LEMMA WeightedScoreInRange ==
  \A sub : sub \in [Axes -> Int] => weighted_score(sub) \in 0 .. FullScore
<1>1. SUFFICES ASSUME NEW sub, sub \in [Axes -> Int]
               PROVE  weighted_score(sub) \in 0 .. FullScore
  OBVIOUS
<1>2. FullAxis = 400 /\ FullScore = 40000
  BY DEF FullAxis, FullScore, Point, QuarterPoints
<1>3. \A axis \in Axes : Clamp(sub[axis], FullAxis) \in 0 .. 400
  <2>1. TAKE axis \in Axes
  <2>2. FullAxis \in Nat /\ sub[axis] \in Int
    BY <1>1, <1>2
  <2>3. Clamp(sub[axis], FullAxis) \in 0 .. FullAxis
    BY <2>2, ClampInRange
  <2>4. QED
    BY <2>3, <1>2
<1>4. PICK p \in 0 .. 400 : p = Clamp(sub["protocol"], FullAxis)
  BY <1>3 DEF Axes
<1>5. PICK g \in 0 .. 400 : g = Clamp(sub["gold_graph"], FullAxis)
  BY <1>3 DEF Axes
<1>6. PICK s \in 0 .. 400 : s = Clamp(sub["correctness"], FullAxis)
  BY <1>3 DEF Axes
<1>7. PICK r \in 0 .. 400 : r = Clamp(sub["gap_resistance"], FullAxis)
  BY <1>3 DEF Axes
<1>8. PICK n \in 0 .. 400 : n = Clamp(sub["novelty"], FullAxis)
  BY <1>3 DEF Axes
<1>9. PICK y \in 0 .. 400 : y = Clamp(sub["clarity"], FullAxis)
  BY <1>3 DEF Axes
<1> DEFINE total == 20 * p + 25 * g + 25 * s + 15 * r + 10 * n + 5 * y
<1>10. weighted_score(sub) = total
  BY <1>4, <1>5, <1>6, <1>7, <1>8, <1>9 DEF weighted_score, Weight
<1>11. total \in 0 .. 40000
  OBVIOUS
<1> HIDE DEF total
<1>12. QED
  BY <1>2, <1>10, <1>11

(* The lowest of a non-empty set of caps is one of them and below the      *)
(* others (rubric.py:81).                                                  *)
LEMMA LowestCapIsLowest ==
  ASSUME NEW caps \in SUBSET Cap, caps # {}
  PROVE  /\ \E k \in caps : k.cap = LowestCap(caps)
         /\ \A k \in caps : LowestCap(caps) <= k.cap
         /\ LowestCap(caps) \in CapValues
<1> DEFINE S == {k.cap : k \in caps}
<1>1. CapValues = {0, 18000, 26000, 28000, 32000, 40000}
  BY DEF CapValues, DQ_VALUE, SURVEY_ONLY, KEY_LEMMA_UNPROVED, FATAL_GAP,
         MEDIUM_CONTAMINATION_RISK, NotBinding, Point, QuarterPoints
<1>2. S \subseteq CapValues /\ S # {}
  BY DEF Cap
<1>3. \E v \in S : \A w \in S : v <= w
  <2> HIDE DEF S
  <2>1. SUFFICES ASSUME \A v \in S : \E w \in S : ~ (v <= w)
                 PROVE  FALSE
    OBVIOUS
  <2>2. 0 \notin S
    BY <2>1, <1>1, <1>2
  <2>3. 18000 \notin S
    BY <2>1, <2>2, <1>1, <1>2
  <2>4. 26000 \notin S
    BY <2>1, <2>2, <2>3, <1>1, <1>2
  <2>5. 28000 \notin S
    BY <2>1, <2>2, <2>3, <2>4, <1>1, <1>2
  <2>6. 32000 \notin S
    BY <2>1, <2>2, <2>3, <2>4, <2>5, <1>1, <1>2
  <2>7. 40000 \notin S
    BY <2>1, <2>2, <2>3, <2>4, <2>5, <2>6, <1>1, <1>2
  <2>8. PICK v \in S : TRUE
    BY <1>2
  <2>9. v \in {0, 18000, 26000, 28000, 32000, 40000}
    BY <1>1, <1>2
  <2>10. QED
    BY <2>2, <2>3, <2>4, <2>5, <2>6, <2>7, <2>9
<1>4. \E v \in S : \A k \in caps : v <= k.cap
  BY <1>3
<1>5. LowestCap(caps) \in S /\ \A k \in caps : LowestCap(caps) <= k.cap
  BY <1>4 DEF LowestCap
<1>6. QED
  BY <1>2, <1>5

(* The final score is in range, at or below the weighted score and every   *)
(* cap, and one of them (rubric.py:73-87).                                 *)
LEMMA FinalScoreIsBounded ==
  ASSUME NEW caps \in SUBSET Cap, NEW weighted \in 0 .. FullScore
  PROVE  /\ FinalScore(weighted, caps) \in 0 .. FullScore
         /\ FinalScore(weighted, caps) <= weighted
         /\ \A k \in caps : FinalScore(weighted, caps) <= k.cap
         /\ \/ FinalScore(weighted, caps) = weighted
            \/ \E k \in caps : FinalScore(weighted, caps) = k.cap
<1>1. FullScore \in Nat /\ CapValues \subseteq Nat
  BY DEF FullScore, CapValues, DQ_VALUE, SURVEY_ONLY, KEY_LEMMA_UNPROVED, FATAL_GAP,
         MEDIUM_CONTAMINATION_RISK, NotBinding, Point, QuarterPoints
<1>2. CASE caps = {}
  BY <1>1, <1>2 DEF FinalScore
<1>3. CASE caps # {}
  <2> DEFINE lowest == LowestCap(caps)
  <2>1. PICK k0 \in caps : k0.cap = lowest
    BY <1>3, LowestCapIsLowest
  <2>2. /\ lowest \in CapValues
        /\ \A k \in caps : lowest <= k.cap
    BY <1>3, LowestCapIsLowest
  <2>3. \A k \in caps : k.cap \in Nat
    BY <1>1 DEF Cap
  <2>4. FinalScore(weighted, caps) = IF lowest < weighted THEN lowest ELSE weighted
    BY <1>3 DEF FinalScore
  <2>5. lowest \in Nat
    BY <2>2, <1>1
  <2> HIDE DEF lowest
  <2>6. CASE lowest < weighted
    BY <2>1, <2>2, <2>4, <2>5, <2>6, <1>1
  <2>7. CASE ~ (lowest < weighted)
    BY <2>2, <2>3, <2>4, <2>5, <2>7, <1>1
  <2>8. QED
    BY <2>6, <2>7
<1>4. QED
  BY <1>2, <1>3

(* The verdict is one of five, and what it is worth: RANKED exactly when   *)
(* there is no cap and a score above zero, FLAGGED only with a cap and a   *)
(* score above zero (rubric.py:90-103).                                    *)
LEMMA VerdictMeaning ==
  ASSUME NEW final, NEW caps
  PROVE  /\ verdict_from(final, caps) \in Verdicts
         /\ verdict_from(final, caps) = "RANKED" <=> caps = {} /\ final # DQ_VALUE
         /\ verdict_from(final, caps) = "FLAGGED" => caps # {} /\ final # DQ_VALUE
<1>1. caps = {} => /\ ~ Mentions(caps, SaysDisqualified)
                  /\ ~ Mentions(caps, SaysContamin)
                  /\ ~ Mentions(caps, SaysMissing)
  BY DEF Mentions
<1>2. QED
  BY <1>1 DEF verdict_from, Verdicts
=============================================================================
