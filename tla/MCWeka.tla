------------------------------- MODULE MCWeka -------------------------------
(* Recorded traces of up to six requests in time order.                    *)
EXTENDS WekaGraph, TLC

(* Prefixes of one session; two that fork after the first block.           *)
Hashes == {<<1>>, <<1, 2>>, <<1, 3>>, <<1, 2, 4>>, <<9>>}

Request(oi, t, api, h, m, out) ==
  [oi |-> oi, t |-> t, api |-> api, h |-> h, model |-> m, in |-> 4 * Len(h), out |-> out]

Inner(t, api, h) == Request(0, t, api, h, 1, 1)

(* One list of five requests, some still running when the next one starts. *)
Flattened ==
  {[normals |-> {Request(i, i, api[i], h[i], 1, 1) : i \in 1 .. 5}, subagents |-> <<>>] :
     h \in [1 .. 5 -> Hashes], api \in {<<0, 3, 3, 0, 0>>, <<4, 4, 4, 4, 4>>}}

(* Pauses longer than SeamMaxGap, two models, a title before the session   *)
(* that may be long, requests without hashes.                              *)
Odd ==
  {[normals |-> {Request(i, 3 * i, 1, h[i], m[i], IF i = 1 THEN out ELSE 1) : i \in 1 .. 4},
    subagents |-> <<>>] :
     h \in [1 .. 4 -> {<<>>, <<1>>, <<1, 3>>, <<1, 2, 4>>, <<9>>, <<9, 1>>}],
     m \in {<<1, 1, 1, 1>>, <<1, 2, 1, 2>>, <<1, 2, 2, 1>>}, out \in {1, 3}}

(* Groups at a place of their own, before, between or after three turns,   *)
(* with requests of absolute or relative time and a duration or none; one  *)
(* that ends at once starts with the turn before it.                       *)
Group(at, dur, reqs) ==
  [oi |-> at, t |-> IF dur = 0 THEN at - 1 ELSE at, dur |-> dur, reqs |-> reqs]

Nested ==
  {[normals |-> {Request(i, i, 0, <<1, 2>>, 1, 1) : i \in {2, 4, 6}},
    subagents |-> <<Group(at[1], dur, reqs), Group(at[2], -1, <<>>)>>] :
     at \in {<<1, 3>>, <<3, 3>>, <<3, 5>>, <<5, 7>>}, dur \in {-1, 0, 3},
     reqs \in {<<Inner(0, 1, h[1]), Inner(t, 1, h[2]), Inner(7, 0, h[3])>> :
                 t \in {1, 2, 5}, h \in [1 .. 3 -> Hashes \cup {<<>>}]}}

MCRaws == Flattened \cup Odd \cup Nested

(* A turn without hashes between two that are, and a group after it.       *)
MCHashless ==
  {[normals |-> {Request(i, i, 0, IF i = e THEN <<>> ELSE h[i], 1, 1) : i \in {0, 2, 4, 6}},
    subagents |-> <<Group(at, 0, <<Inner(0, 0, <<7>>)>>)>>] :
     e \in {2, 4, 6}, at \in {1, 3, 5}, h \in [{0, 2, 4, 6} -> {<<1>>, <<1, 2>>, <<1, 3>>, <<9>>}]}
=============================================================================
