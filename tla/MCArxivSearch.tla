--------------------------- MODULE MCArxivSearch ----------------------------
(***************************************************************************)
(* Instance of ArxivSearch for TLC: two queries over six papers.  A        *)
(* revision takes paper 2 out of the first feed and brings paper 4 into    *)
(* the second; 3 is blocklisted, 6 is from the day of the cutoff, the      *)
(* second version of 5 has an entry that does not parse.                   *)
(***************************************************************************)
EXTENDS ArxivSearch, TLC

MCPapers == 1 .. 6

MCReleased ==
  (1 :> <<0>>) @@ (2 :> <<0, 2>>) @@ (3 :> <<0>>) @@ (4 :> <<1, 1>>) @@ (5 :> <<1, 3>>)
    @@ (6 :> <<3>>)

V(p, v) == [paper |-> p, version |-> v]

MCQueries == <<"broad", "narrow">>

MCMatches ==
  [q \in {"broad", "narrow"} |->
     IF q = "broad" THEN {V(1, 1), V(2, 1), V(3, 1), V(4, 1), V(4, 2), V(5, 1), V(5, 2), V(6, 1)}
                    ELSE {V(2, 1), V(2, 2), V(4, 2), V(5, 1)}]

MCUnparsable == {V(5, 2)}
=============================================================================
