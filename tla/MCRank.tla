------------------------------- MODULE MCRank -------------------------------
(* Workloads of MCKvTree under the scheduler.                              *)
EXTENDS Rank, TLC

CONSTANTS s1, s2   \* two sessions

(* Two sessions of two turns. *)
Chat == {"a", "b", "c", "d"}
ChatPlayOf == [a |-> s1, b |-> s1, c |-> s2, d |-> s2]
ChatPrompt == [a |-> <<1, 2>>, b |-> <<1, 2, 3>>, c |-> <<7>>, d |-> <<7, 8>>]
ChatOsl == [a |-> 3, b |-> 1, c |-> 4, d |-> 2]
ChatBefore == [a |-> {}, b |-> {"a"}, c |-> {}, d |-> {"c"}]

(* ... and requests with prompts of their own, one too large for the pools. *)
Crowd == Chat \cup {"e", "x"}
CrowdPlayOf == ChatPlayOf @@ [e |-> s2, x |-> s1]
CrowdPrompt == ChatPrompt @@ [e |-> <<20, 21, 22>>, x |-> <<50, 51, 52, 53, 54, 55, 56>>]
CrowdOsl == ChatOsl @@ [e |-> 3, x |-> 1]
CrowdBefore == ChatBefore @@ [e |-> {"a"}, x |-> {}]

(* Two agents share a prefix at the same time; another session competes.   *)
Fork == {"a", "b", "d"}
ForkPlayOf == [a |-> s1, b |-> s1, d |-> s2]
ForkPrompt == [a |-> <<1, 2>>, b |-> <<1, 3, 4, 5>>, d |-> <<7>>]
ForkOsl == [a |-> 3, b |-> 1, d |-> 4]
ForkBefore == [r \in Fork |-> {}]

(* One request that takes the whole pool. *)
Solo == {"a"}
SoloPlayOf == [a |-> s1]
SoloPrompt == [a |-> <<1, 2, 3>>]
SoloOsl == [a |-> 3]
SoloBefore == [a |-> {}]

(* A turn that extends the one before it, in a pool they barely fit.       *)
Turn == {"a", "b"}
TurnPlayOf == [r \in Turn |-> s1]
TurnPrompt == [a |-> <<1, 2>>, b |-> <<1, 2, 3>>]
TurnOsl == [a |-> 4, b |-> 1]
TurnBefore == [a |-> {}, b |-> {"a"}]

WholeIsl == [r \in Reqs |-> Len(Prompt[r]) * BlockSize]

Tiers1 == 0 :> 6
Tight == 0 :> 5
Tiers2 == 0 :> 5 @@ 1 :> 6
=============================================================================
