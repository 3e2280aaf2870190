------------------------- MODULE EvaluationContract -------------------------
(***************************************************************************)
(* What one evaluation promises the leaderboard, whatever the judges do:   *)
(* it ends at most once, either with a published score or with nothing,    *)
(* and a published score is the weighted score under every ceiling, with a *)
(* verdict no kinder than the ceilings allow.                              *)
(***************************************************************************)
EXTENDS Rubric

CONSTANT None

VARIABLES
  status,     \* "running", "published" or "failed"
  published   \* None, or the score made public

contractVars == <<status, published>>

Score == [weighted : 0 .. FullScore, ceilings : SUBSET CapValues,
          final : 0 .. FullScore, verdict : Verdicts]

NotRanked == {"DISQUALIFIED", "CONTAMINATED", "FAILED"}

Sound(p) ==
  /\ p.final <= p.weighted
  /\ \A c \in p.ceilings : p.final <= c
  /\ p.final = p.weighted \/ p.final \in p.ceilings
  /\ DQ_VALUE \in p.ceilings => p.verdict \in NotRanked
  /\ p.verdict = "RANKED" <=> p.ceilings = {} /\ p.final > 0
  /\ p.verdict = "FLAGGED" => p.ceilings # {} /\ p.final > 0

Init == status = "running" /\ published = None

Publish ==
  /\ status = "running"
  /\ status' = "published"
  /\ published' \in Score
  /\ Sound(published')

GiveUp ==
  /\ status = "running"
  /\ status' = "failed"
  /\ UNCHANGED published

Next == Publish \/ GiveUp

Spec == Init /\ [][Next]_contractVars
=============================================================================
