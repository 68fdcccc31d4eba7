------------------------------ MODULE MCKvTree ------------------------------
(* Workloads and pools for the model checking of KvTree.                   *)
EXTENDS KvTree, TLC

CONSTANTS
  s1, s2,            \* two sessions
  MaxPreemptions   \* bound: preemptions_ of a run

VARIABLE preemptions   \* preemptions_

(* The scheduler may preempt at will here, so that the number is bounded.  *)
BoundedInit == Init /\ preemptions = 0

BoundedNext ==
  \/ /\ EnsureFree \/ Admission \/ Pass \/ \E n \in live : Expire(n)
     /\ UNCHANGED preemptions
  \/ /\ preemptions < MaxPreemptions
     /\ Preempt
     /\ preemptions' = preemptions + 1

BoundedSpec == BoundedInit /\ [][BoundedNext]_<<vars, preemptions>>

(* Two sessions of two turns each; a turn follows the one before it.       *)
FourReqs == {"a", "b", "c", "d"}
ChainPlayOf == [a |-> s1, b |-> s1, c |-> s2, d |-> s2]
ChainPrompt == [a |-> <<1, 2>>, b |-> <<1, 2, 3>>, c |-> <<7>>, d |-> <<7, 8>>]
ChainOsl == [a |-> 3, b |-> 1, c |-> 1, d |-> 2]
ChainBefore == [a |-> {}, b |-> {"a"}, c |-> {}, d |-> {"c"}]

(* A session of three turns and another session. *)
LongPlayOf == [a |-> s1, b |-> s1, c |-> s1, d |-> s2]
LongPrompt == [a |-> <<1>>, b |-> <<1, 2>>, c |-> <<1, 2, 3>>, d |-> <<7, 8, 9>>]
LongOsl == [a |-> 1, b |-> 1, c |-> 1, d |-> 1]
LongBefore == [a |-> {}, b |-> {"a"}, c |-> {"b"}, d |-> {}]

(* Three agents of one session that share a prefix at the same time.       *)
ForkReqs == {"a", "b", "c"}
ForkPlayOf == [r \in ForkReqs |-> s1]
ForkPrompt == [a |-> <<1, 2>>, b |-> <<1, 2, 3>>, c |-> <<1, 4>>]
ForkOsl == [a |-> 2, b |-> 1, c |-> 2]
ForkBefore == [r \in ForkReqs |-> {}]

(* Isl of a trace that keeps to in_tokens = hash_count * block_size. *)
WholeIsl == [r \in Reqs |-> Len(Prompt[r]) * BlockSize]

OneTier == 0 :> 4
TwoTiers == 0 :> 5 @@ 1 :> 3
SmallTiers == 0 :> 4 @@ 1 :> 2
ThreeTiers == 0 :> 3 @@ 1 :> 1 @@ 2 :> 4
=============================================================================
