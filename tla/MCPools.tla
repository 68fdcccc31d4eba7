-------------------------------- MODULE MCPools --------------------------------
(* Three lanes, each a session of two or three requests, on one prefill     *)
(* worker and two decode workers.                                           *)
EXTENDS Pools, TLC

CONSTANTS r1, r2, r3, r4, r5, r6, s1, s2, s3, p1, d1, d2

(* r3 does not fit a decode rank, r5 no prefill rank.                      *)
Agents == {r1, r2, r3, r4, r5, r6}
Sessions == {s1, s2, s3}
AgentTree == r1 :> s1 @@ r2 :> s1 @@ r3 :> s2 @@ r4 :> s3 @@ r5 :> s3 @@ r6 :> s1
AgentIsl == r1 :> 2 @@ r2 :> 3 @@ r3 :> 4 @@ r4 :> 3 @@ r5 :> 6 @@ r6 :> 4
AgentOsl == r1 :> 2 @@ r2 :> 1 @@ r3 :> 7 @@ r4 :> 4 @@ r5 :> 1 @@ r6 :> 3
AgentBefore == r1 :> {} @@ r2 :> {r1} @@ r3 :> {} @@ r4 :> {} @@ r5 :> {r4} @@ r6 :> {r1}

TwoDecode == 0 :> <<p1>> @@ 1 :> <<d1, d2>>
OneRank == 0 :> 1 @@ 1 :> 1
TwoRanks == 0 :> 2 @@ 1 :> 1
Rooms == 0 :> 5 @@ 1 :> 9
Seqs == 0 :> 2 @@ 1 :> 1
Toks == 0 :> 3 @@ 1 :> 4
=============================================================================
