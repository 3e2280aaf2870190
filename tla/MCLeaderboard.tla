--------------------------- MODULE MCLeaderboard ----------------------------
(***************************************************************************)
(* Instance of Leaderboard for TLC: a baseline, whose reports carry no     *)
(* name, and a named harness of two versions.                              *)
(***************************************************************************)
EXTENDS Leaderboard, TLC

MCSubmissions == {1, 2}

MCManifests ==
  (1 :> {[name |-> NoName, version |-> 0]})
    @@ (2 :> {[name |-> 2, version |-> v] : v \in {1, 2}})

Caps(reason) == {[reason |-> reason, cap |-> DQ_VALUE]}

MCOutcomes ==
  {[weighted |-> 80 * Point, caps |-> {}],
   [weighted |-> 90 * Point, caps |-> Caps("e_leak")],
   [weighted |-> 0, caps |-> Caps("missing_outputs")]}

MCStrays ==
  {<<>>,
   ([top |-> 1, dir |-> 0] :> Garbage),
   ([top |-> 2, dir |-> Flat] :> Broken)}
=============================================================================
