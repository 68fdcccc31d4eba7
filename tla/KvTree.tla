------------------------------- MODULE KvTree -------------------------------
(***************************************************************************)
(* The KV cache of one rank (`Unit` of engine.cpp): the radix tree of      *)
(* cached prefixes, its pins, its storage tiers and the token accounting,  *)
(* together with what a request of an aggregated pool does to it from      *)
(* admission to completion.                                                *)
(*                                                                         *)
(* The engine is single threaded.  A handler that calls ensure_free() may  *)
(* evict any number of nodes, and evict() calls ensure_free() for the next *)
(* tier: `stack` is that chain of calls and `op` the handler that made the *)
(* first one.  While `op` is not NoOp only the eviction loop and the rest  *)
(* of that handler can run.                                                *)
(*                                                                         *)
(* Which request is served next is the scheduler's choice (module Rank);   *)
(* here any request may take its next step.  Data that is abstracted: the  *)
(* LRU order (ensure_free takes any node of the tier's LRU set), the clock *)
(* (a node is past its residency limit or not), link times.                *)
(***************************************************************************)
EXTENDS Integers, FiniteSets, Sequences, FiniteSetsExt

CONSTANTS
  Reqs,         \* requests routed to this rank
  Plays,        \* session trees; the root node of a tree has the tree's name
  NodeIds,      \* ids of the other nodes
  None,         \* -1 in the code
  PlayOf,       \* Req::play
  Prompt,       \* hash ids of a request's prompt, in order
  Isl, Osl,     \* Req::isl, Req::osl
  Before,       \* requests that complete before this one arrives
  BlockSize,    \* tokens of a block
  NTiers, Cap,  \* Pool::ntiers, Unit::cap (tier 0 is HBM)
  ChunkTokens,  \* StackSpec::chunk_tokens
  Nextn,        \* StackSpec::mtp_nextn
  Residency     \* StackSpec::residency_limit_s > 0

Tiers == 0 .. NTiers - 1
Nodes == Plays \cup NodeIds

(* Hash ids are chained: equal ids stand at the same position behind the  *)
(* same prefix (docs/design/workload-and-metrics.md, tests/engine_test.cpp).*)
ASSUME ReqsAssumption ==
  /\ IsFiniteSet(Reqs)
  /\ None \notin Nodes
  /\ None \notin Reqs
  /\ Plays \cap NodeIds = {}
  /\ PlayOf \in [Reqs -> Plays]
  /\ Before \in [Reqs -> SUBSET Reqs]
  /\ Isl \in [Reqs -> Nat] /\ Osl \in [Reqs -> Nat]

ASSUME PromptAssumption ==
  \A r, s \in Reqs :
    /\ Len(Prompt[r]) > 0
    /\ \A i \in 1 .. Len(Prompt[r]), j \in 1 .. Len(Prompt[s]) :
         Prompt[r][i] = Prompt[s][j] =>
           i = j /\ \A k \in 1 .. i : Prompt[r][k] = Prompt[s][k]

(* in_tokens = hash_count * block_size (trace.h:25).                       *)
ASSUME IslAssumption ==
  /\ Prompt \in [Reqs -> Seq(Nat)]
  /\ \A r \in Reqs : Isl[r] = Len(Prompt[r]) * BlockSize

ASSUME PoolAssumption ==
  /\ NTiers \in Nat \ {0}
  /\ Cap \in [Tiers -> Nat]
  /\ BlockSize \in Nat \ {0}
  /\ ChunkTokens \in Nat \ {0}
  /\ Nextn \in Nat
  /\ Residency \in BOOLEAN

VARIABLES
  live,     \* nodes in the tree, the roots aside
  parent,   \* Node::parent
  above,    \* every node the loops over Node::parent visit from a node
  blocks,   \* Node::hash_begin, nblocks: the hash ids a node holds
  tail,     \* Node::tail: generated tokens behind the last block
  tier,     \* Node::tier
  pins,     \* Node::pins
  lru,      \* nodes with Node::in_lru (the set of tier t holds those of tier t)
  used,     \* Unit::used
  st,       \* Req::st
  hit,      \* Req::hit_node
  own,      \* Req::own_node
  hitLen,   \* Req::hit_blocks
  left,     \* Req::prefill_left
  gen,      \* Req::generated
  alloc,    \* Req::alloc
  pend,     \* tokens of the request in the pass that is running
  op,       \* the handler in ensure_free(0, op.tok)
  stack,    \* the nodes evict() is making room for, one per tier from 0 down
  bulk      \* bulk_inflight_ less the write-backs under way

shape == <<live, parent, above, blocks>>
tree == <<shape, tail, tier, pins, lru>>
count == <<hitLen, left, gen, alloc, pend>>
reqv == <<st, hit, own, count>>
vars == <<tree, used, reqv, op, stack, bulk>>

NoOp == [kind |-> "none", req |-> None, blocks |-> 0, tok |-> 0]

Idle == op.kind = "none"

-----------------------------------------------------------------------------
(* The radix tree.                                                         *)

Down(n) == {m \in live : n \in above[m]}

Tokens(n) == Len(blocks[n]) * BlockSize + tail[n]

TokensOf(S) == MapThenSumSet(Tokens, S)

(* Mutants of Evictable: the pin test or the test of the children dropped. *)
EvictablePinned(n) == n \in live /\ \A c \in live : parent[c] = n => tier[c] > tier[n]
EvictableInner(n) == n \in live /\ pins[n] = 0

(* A node may be evicted when nothing pins it and its children, if any,    *)
(* are already in slower tiers.                                            *)
Evictable(n) ==
  /\ n \in live
  /\ pins[n] = 0
  /\ \A c \in live : parent[c] = n => tier[c] > tier[n]

(* Mutants: nodes that are gone stay listed; nodes never come back. *)
LruKeepsGone(gone, touched) == lru' = (lru \ touched) \cup {n \in touched : Evictable(n)'}
LruOnlyErases(gone, touched) == lru' = lru \ (gone \cup touched)

(* lru_erase of the nodes in `gone`, lru_update of the nodes in `touched`. *)
LruUpdate(gone, touched) ==
  lru' = (lru \ (gone \cup touched)) \cup {n \in touched : Evictable(n)'}

(* remove_subtree: the nodes below n are freed with it, whatever their     *)
(* pins; a freed id is as new_node hands it out again.                     *)
RemoveSubtree(n) ==
  LET D == {n} \cup Down(n) IN
  /\ live' = live \ D
  /\ parent' = [m \in Nodes |-> IF m \in D THEN None ELSE parent[m]]
  /\ above' = [m \in Nodes |-> IF m \in D THEN {} ELSE above[m]]
  /\ blocks' = [m \in Nodes |-> IF m \in D THEN <<>> ELSE blocks[m]]
  /\ tail' = [m \in Nodes |-> IF m \in D THEN 0 ELSE tail[m]]
  /\ tier' = [m \in Nodes |-> IF m \in D THEN 0 ELSE tier[m]]
  /\ pins' = [m \in Nodes |-> IF m \in D THEN 0 ELSE pins[m]]
  /\ used' = [t \in Tiers |-> used[t] - TokensOf({m \in D : tier[m] = t})]
  /\ LruUpdate(D, {parent[n]})

(* What lookup() can return for the prompt H of a play: the node where the *)
(* walk stopped, the blocks matched inside it and the blocks matched in    *)
(* all.  Siblings that start with the same block exist when two requests   *)
(* computed it at the same time; the walk takes one of them.               *)
StartsAt(n, H, i) == Len(blocks[n]) > 0 /\ blocks[n][1] = H[i]

Common(n, H, i) ==
  Max({k \in 1 .. Min({Len(blocks[n]), Len(H) - i + 1}) :
         blocks[n][k] = H[i + k - 1]})

Ends(n, H, pos) ==
  pos = Len(H) \/ ~ \E c \in live : parent[c] = n /\ StartsAt(c, H, pos + 1)

Match(n, H, i) == [node |-> n, off |-> Common(n, H, i), blocks |-> i - 1 + Common(n, H, i)]

Matches(p, H) ==
  UNION {{Match(n, H, i) : i \in {j \in 1 .. Len(H) : StartsAt(n, H, j)}} :
           n \in {m \in live : p \in above[m]}}

Lookup(p, H) ==
  (IF Ends(p, H, 0) THEN {[node |-> p, off |-> 0, blocks |-> 0]} ELSE {})
  \cup
  {h \in Matches(p, H) : h.off < Len(blocks[h.node]) \/ Ends(h.node, H, h.blocks)}

(* Mutant: the last block is counted as computed, and its node kept as hit. *)
BackOffCount(h, H) == IF h.blocks < Len(H) THEN h ELSE [h EXCEPT !.blocks = @ - 1]

(* The last block of a prompt that is cached whole is computed again.      *)
BackOff(h, H) ==
  IF h.blocks < Len(H) THEN h
  ELSE IF h.off > 1 THEN [h EXCEPT !.off = @ - 1, !.blocks = @ - 1]
  ELSE LET p == parent[h.node]
       IN [node |-> p, off |-> Len(blocks[p]), blocks |-> h.blocks - 1]

Chain(n) == {n} \cup above[n]

(* Hit::lower *)
Lower(n) == \E m \in Chain(n) : tier[m] > 0

(* Mutant: nodes that are in HBM already are loaded too. *)
LowerChainWhole(n) == Chain(n)

LowerChain(n) == {m \in Chain(n) : tier[m] > 0}

(* Mutant: the request's own node is not unpinned. *)
HoldsHit(r, n) == IF hit[r] = n THEN 1 ELSE 0

(* unpin, of every node a request holds. *)
Holds(r, n) == (IF hit[r] = n THEN 1 ELSE 0) + (IF own[r] = n THEN 1 ELSE 0)

Unpin(r) == pins' = [n \in Nodes |-> pins[n] - Holds(r, n)]

(* The handler that is interrupted by ensure_free(0, tok).                 *)
Call(kind, r, b, tok) ==
  /\ op' = [kind |-> kind, req |-> r, blocks |-> b, tok |-> tok]
  /\ stack' = <<>>

Return == op' = NoOp /\ stack' = <<>>

-----------------------------------------------------------------------------
(* ensure_free and evict.                                                  *)

(* The innermost call: ensure_free(depth, demand).                         *)
Depth == Len(stack)

Victim == stack[Depth]

Demanded == IF Depth = 0 THEN op.tok ELSE Tokens(Victim)

Short == used[Depth] + Demanded > Cap[Depth]

Candidates == {n \in lru : tier[n] = Depth}

(* The loop of ensure_free ended: with enough room, or without a victim.   *)
Enough == ~ Idle /\ ~ Short
Failed == ~ Idle /\ Short /\ Candidates = {}

(* evict(v) asks the next tier for room. *)
EvictDown(v) ==
  /\ ~ Idle /\ Short
  /\ v \in Candidates
  /\ Depth + 1 < NTiers
  /\ stack' = Append(stack, v)
  /\ UNCHANGED <<tree, used, reqv, op, bulk>>

(* evict(v) in the slowest tier. *)
EvictLast(v) ==
  /\ ~ Idle /\ Short
  /\ v \in Candidates
  /\ Depth + 1 = NTiers
  /\ RemoveSubtree(v)
  /\ UNCHANGED <<reqv, op, stack, bulk>>

(* The next tier has room: the victim moves there. *)
Offload ==
  /\ Depth > 0 /\ Enough
  /\ tier' = [tier EXCEPT ![Victim] = Depth]
  /\ used' = [used EXCEPT ![Depth - 1] = @ - Tokens(Victim), ![Depth] = @ + Tokens(Victim)]
  /\ stack' = SubSeq(stack, 1, Depth - 1)
  /\ UNCHANGED <<shape, tail, pins, reqv, op, bulk>>
  /\ LruUpdate({Victim}, {Victim, parent[Victim]})

(* The next tier has no room: the victim is dropped. *)
Drop ==
  /\ Depth > 0 /\ Failed
  /\ RemoveSubtree(Victim)
  /\ stack' = SubSeq(stack, 1, Depth - 1)
  /\ UNCHANGED <<reqv, op, bulk>>

(* lookup() drops a node that is past its residency limit.  The router and *)
(* the admission of any request of the play look up.                       *)
Expire(n) ==
  /\ Idle /\ Residency
  /\ n \in live /\ blocks[n] # <<>>
  /\ \A m \in {n} \cup Down(n) : pins[m] = 0
  /\ RemoveSubtree(n)
  /\ UNCHANGED <<reqv, op, stack, bulk>>

-----------------------------------------------------------------------------
(* admit_prefill.                                                          *)

OutputKv(r) == Max({0, gen[r] - 1})

Serving(r) == st[r] \in {"prefill", "decode"}

Queued(r) == st[r] = "queued" /\ \A b \in Before[r] : st[b] = "done"

(* The test form_batch makes before it admits a request. *)
Fits(r) == Isl[r] + Max({0, Osl[r] - 1}) <= Cap[0]

Waiting(r) == Queued(r) /\ Fits(r)

(* reject *)
Reject(r) ==
  /\ Idle /\ Queued(r) /\ ~ Fits(r)
  /\ st' = [st EXCEPT ![r] = "done"]
  /\ UNCHANGED <<tree, used, hit, own, count, op, stack, bulk>>

(* Part of the prefix is in a slower tier: the whole chain is pinned and   *)
(* room is made for what has to move up.                                   *)
BeginLoad(r, h) ==
  /\ Idle /\ Waiting(r)
  /\ Lower(h.node)
  /\ hit' = [hit EXCEPT ![r] = h.node]
  /\ pins' = [n \in Nodes |-> IF n \in Chain(h.node) THEN pins[n] + 1 ELSE pins[n]]
  /\ Call("load", r, h.blocks, TokensOf(LowerChain(h.node)))
  /\ UNCHANGED <<shape, tail, tier, used, st, own, count, bulk>>
  /\ LruUpdate({}, Chain(h.node))

LoadBlocked ==
  LET h == hit[op.req] IN
  /\ op.kind = "load" /\ Depth = 0 /\ Failed
  /\ pins' = [n \in Nodes |-> IF n \in Chain(h) THEN pins[n] - 1 ELSE pins[n]]
  /\ hit' = [hit EXCEPT ![op.req] = None]
  /\ Return
  /\ UNCHANGED <<shape, tail, tier, used, st, own, count, bulk>>
  /\ LruUpdate({}, Chain(h))

(* Each tier that holds part of the prefix queues a transfer of its own;   *)
(* one completion event is pushed for all of them.                         *)
LoadStart ==
  LET h == hit[op.req]
      L == LowerChain(h)
  IN
  /\ op.kind = "load" /\ Depth = 0 /\ Enough
  /\ used' = [t \in Tiers |-> IF t = 0 THEN used[0] + TokensOf(L)
                              ELSE used[t] - TokensOf({n \in L : tier[n] = t})]
  /\ tier' = [n \in Nodes |-> IF n \in L THEN 0 ELSE tier[n]]
  /\ pins' = [n \in Nodes |-> IF n \in above[h] THEN pins[n] - 1 ELSE pins[n]]
  /\ bulk' = bulk + Cardinality({tier[n] : n \in L})
  /\ st' = [st EXCEPT ![op.req] = "loading"]
  /\ Return
  /\ UNCHANGED <<shape, tail, hit, own, count>>
  /\ LruUpdate({}, Chain(h))

(* EvTransfer / XferLoad *)
LoadDone(r) ==
  /\ Idle /\ st[r] = "loading"
  /\ Unpin(r)
  /\ hit' = [hit EXCEPT ![r] = None]
  /\ st' = [st EXCEPT ![r] = "queued"]
  /\ bulk' = bulk - 1
  /\ UNCHANGED <<shape, tail, tier, used, own, count, op, stack>>
  /\ LruUpdate({}, {hit[r]})

Demand(r, b) == Isl[r] - b * BlockSize + OutputKv(r)

(* pin_hit, the match ending at the end of a node (or at the root). *)
PinWhole(r, h, chunk) ==
  /\ Idle /\ Waiting(r)
  /\ ~ Lower(h.node)
  /\ h.node \in Plays \/ h.off = Len(blocks[h.node])
  /\ pins' = [pins EXCEPT ![h.node] = @ + 1]
  /\ hit' = [hit EXCEPT ![r] = h.node]
  /\ Call("admit", r, h.blocks, Min({chunk, Demand(r, h.blocks)}))
  /\ UNCHANGED <<shape, tail, tier, used, st, own, count, bulk>>
  /\ LruUpdate({}, {h.node})

(* pin_hit, the match ending inside node n: split() puts a new node with   *)
(* the matched blocks above it; n keeps its pins, its tail and the rest.   *)
PinSplit(r, h, up, chunk) ==
  /\ Idle /\ Waiting(r)
  /\ ~ Lower(h.node)
  /\ h.node \in live /\ h.off < Len(blocks[h.node])
  /\ up \in NodeIds \ live
  /\ LET n == h.node IN
       /\ live' = live \cup {up}
       /\ parent' = [parent EXCEPT ![up] = parent[n], ![n] = up]
       /\ above' = [m \in Nodes |-> IF m = up THEN above[n]
                                    ELSE IF m \in {n} \cup Down(n) THEN above[m] \cup {up}
                                    ELSE above[m]]
       /\ blocks' = [blocks EXCEPT ![up] = SubSeq(blocks[n], 1, h.off),
                                   ![n] = SubSeq(@, h.off + 1, Len(@))]
       /\ tier' = [tier EXCEPT ![up] = tier[n]]
       /\ tail' = [tail EXCEPT ![up] = 0]
       /\ pins' = [pins EXCEPT ![up] = 1]
  /\ hit' = [hit EXCEPT ![r] = up]
  /\ Call("admit", r, h.blocks, Min({chunk, Demand(r, h.blocks)}))
  /\ UNCHANGED <<used, st, own, count, bulk>>
  /\ LruUpdate({}, {up})

(* The request waits and owns nothing. *)
AdmitBlocked ==
  /\ op.kind = "admit" /\ Depth = 0 /\ Failed
  /\ Unpin(op.req)
  /\ hit' = [hit EXCEPT ![op.req] = None]
  /\ Return
  /\ UNCHANGED <<shape, tail, tier, used, st, own, count, bulk>>
  /\ LruUpdate({}, {hit[op.req]})

AdmitOk ==
  /\ op.kind = "admit" /\ Depth = 0 /\ Enough
  /\ hitLen' = [hitLen EXCEPT ![op.req] = op.blocks]
  /\ left' = [left EXCEPT ![op.req] = Demand(op.req, op.blocks)]
  /\ st' = [st EXCEPT ![op.req] = "prefill"]
  /\ Return
  /\ UNCHANGED <<tree, used, hit, own, gen, alloc, pend, bulk>>

-----------------------------------------------------------------------------
(* Passes: the tokens a request gets in a pass, and what the pass leaves.  *)

(* add_prefill_chunk, add_decodes *)
BeginGrow(r, tok) ==
  /\ Idle /\ Serving(r)
  /\ Call("grow", r, 0, tok)
  /\ UNCHANGED <<tree, used, reqv, bulk>>

GrowFailed ==
  /\ op.kind = "grow" /\ Depth = 0 /\ Failed
  /\ Return
  /\ UNCHANGED <<tree, used, reqv, bulk>>

GrowOk ==
  /\ op.kind = "grow" /\ Depth = 0 /\ Enough
  /\ used' = [used EXCEPT ![0] = @ + op.tok]
  /\ alloc' = [alloc EXCEPT ![op.req] = @ + op.tok]
  /\ pend' = [pend EXCEPT ![op.req] = op.tok]
  /\ Return
  /\ UNCHANGED <<tree, st, hit, own, hitLen, left, gen, bulk>>

(* commit_pass for a prefill chunk that leaves more to compute. *)
CommitChunk(r) ==
  /\ Idle /\ st[r] = "prefill" /\ pend[r] > 0 /\ pend[r] < left[r]
  /\ left' = [left EXCEPT ![r] = @ - pend[r]]
  /\ pend' = [pend EXCEPT ![r] = 0]
  /\ UNCHANGED <<tree, used, st, hit, own, hitLen, gen, alloc, op, stack, bulk>>

(* commit_pass for the last chunk: insert_child puts the computed blocks   *)
(* below the hit node (whose tail, if any, moves to a child of its own),   *)
(* and a request of one token is finished at once.                         *)
CommitPrefill(r, id, t) ==
  LET h == hit[r]
      g == Max({gen[r], 1})
      fin == g >= Osl[r]
      moved == tail[h] > 0
      new == IF moved THEN {id, t} ELSE {id}
  IN
  /\ Idle /\ st[r] = "prefill" /\ pend[r] = left[r] /\ pend[r] > 0
  /\ {id, t} \subseteq NodeIds \ live
  /\ moved <=> id # t
  /\ live' = live \cup new
  /\ parent' = [n \in Nodes |-> IF n \in new THEN h ELSE parent[n]]
  /\ above' = [n \in Nodes |-> IF n \in new THEN Chain(h) ELSE above[n]]
  /\ blocks' = [blocks EXCEPT ![id] = SubSeq(Prompt[r], hitLen[r] + 1, Len(Prompt[r]))]
  /\ tail' = [n \in Nodes |-> IF n = id THEN (IF fin THEN g - 1 ELSE 0)
                              ELSE IF n = t THEN tail[h]
                              ELSE IF n = h THEN 0 ELSE tail[n]]
  /\ tier' = [n \in Nodes |-> IF n = id THEN 0 ELSE IF n = t THEN tier[h] ELSE tier[n]]
  /\ pins' = [n \in Nodes |-> IF n = id THEN (IF fin THEN 0 ELSE 1)
                              ELSE IF n = t THEN 0
                              ELSE IF n = h /\ fin THEN pins[h] - 1 ELSE pins[n]]
  /\ gen' = [gen EXCEPT ![r] = g]
  /\ left' = [left EXCEPT ![r] = 0]
  /\ pend' = [pend EXCEPT ![r] = 0]
  /\ own' = [own EXCEPT ![r] = IF fin THEN None ELSE id]
  /\ hit' = [hit EXCEPT ![r] = IF fin THEN None ELSE h]
  /\ st' = [st EXCEPT ![r] = IF fin THEN "done" ELSE "decode"]
  /\ UNCHANGED <<used, hitLen, alloc, op, stack, bulk>>
  /\ LruUpdate({}, {h} \cup new)

(* commit_pass for a decode: the tokens that were not accepted are given   *)
(* back.                                                                   *)
CommitDecode(r, produced) ==
  /\ Idle /\ st[r] = "decode" /\ pend[r] > 0
  /\ gen[r] + produced < Osl[r]
  /\ used' = [used EXCEPT ![0] = @ - (pend[r] - produced)]
  /\ alloc' = [alloc EXCEPT ![r] = @ - (pend[r] - produced)]
  /\ gen' = [gen EXCEPT ![r] = @ + produced]
  /\ pend' = [pend EXCEPT ![r] = 0]
  /\ UNCHANGED <<tree, st, hit, own, hitLen, left, op, stack, bulk>>

(* ... and finish() once the last token is out: the generated tokens stay  *)
(* as the tail of the request's node.                                      *)
CommitLast(r, produced) ==
  /\ Idle /\ st[r] = "decode" /\ pend[r] > 0
  /\ gen[r] + produced = Osl[r]
  /\ used' = [used EXCEPT ![0] = @ - (pend[r] - produced)]
  /\ alloc' = [alloc EXCEPT ![r] = @ - (pend[r] - produced)]
  /\ gen' = [gen EXCEPT ![r] = Osl[r]]
  /\ pend' = [pend EXCEPT ![r] = 0]
  /\ tail' = [tail EXCEPT ![own[r]] = Osl[r] - 1]
  /\ Unpin(r)
  /\ own' = [own EXCEPT ![r] = None]
  /\ hit' = [hit EXCEPT ![r] = None]
  /\ st' = [st EXCEPT ![r] = "done"]
  /\ UNCHANGED <<shape, tier, hitLen, left, op, stack, bulk>>
  /\ LruUpdate({}, {own[r], hit[r]})

-----------------------------------------------------------------------------
(* preempt: the request returns to the queue and gives its tokens back,    *)
(* those of its node excepted when another request uses that node.         *)

(* Mutant: a preempted request keeps its count of allocated tokens. *)
RequeueAllocated(r) ==
  /\ st' = [st EXCEPT ![r] = "queued"]
  /\ hit' = [hit EXCEPT ![r] = None] /\ own' = [own EXCEPT ![r] = None]
  /\ left' = [left EXCEPT ![r] = Isl[r] + OutputKv(r)]
  /\ UNCHANGED <<hitLen, gen, pend, alloc>>

Requeue(r) ==
  /\ st' = [st EXCEPT ![r] = "queued"]
  /\ hit' = [hit EXCEPT ![r] = None]
  /\ own' = [own EXCEPT ![r] = None]
  /\ alloc' = [alloc EXCEPT ![r] = 0]
  /\ left' = [left EXCEPT ![r] = Isl[r] + OutputKv(r)]
  /\ UNCHANGED <<hitLen, gen, pend>>

Shared(n) == pins[n] > 1 \/ \E c \in live : parent[c] = n

Preempting(r) == Idle /\ Serving(r)

PreemptKeep(r) ==
  /\ Preempting(r)
  /\ own[r] # None /\ Shared(own[r])
  /\ used' = [used EXCEPT ![0] = @ - (alloc[r] - Tokens(own[r]))]
  /\ Unpin(r)
  /\ Requeue(r)
  /\ UNCHANGED <<shape, tail, tier, op, stack, bulk>>
  /\ LruUpdate({}, {own[r], hit[r]})

(* drop_node_unaccounted *)
PreemptDrop(r) ==
  LET o == own[r] IN
  /\ Preempting(r)
  /\ o # None /\ ~ Shared(o)
  /\ used' = [used EXCEPT ![0] = @ - alloc[r]]
  /\ live' = live \ {o}
  /\ parent' = [parent EXCEPT ![o] = None]
  /\ above' = [above EXCEPT ![o] = {}]
  /\ blocks' = [blocks EXCEPT ![o] = <<>>]
  /\ tail' = [tail EXCEPT ![o] = 0]
  /\ tier' = [tier EXCEPT ![o] = 0]
  /\ pins' = [n \in Nodes |-> IF n = o THEN 0 ELSE pins[n] - Holds(r, n)]
  /\ Requeue(r)
  /\ UNCHANGED <<op, stack, bulk>>
  /\ LruUpdate({o}, {parent[o], hit[r]})

PreemptPrefill(r) ==
  /\ Preempting(r)
  /\ own[r] = None
  /\ used' = [used EXCEPT ![0] = @ - alloc[r]]
  /\ Unpin(r)
  /\ Requeue(r)
  /\ UNCHANGED <<shape, tail, tier, op, stack, bulk>>
  /\ LruUpdate({}, {hit[r]})

-----------------------------------------------------------------------------

Init ==
  /\ live = {}
  /\ parent = [n \in Nodes |-> None]
  /\ above = [n \in Nodes |-> {}]
  /\ blocks = [n \in Nodes |-> <<>>]
  /\ tail = [n \in Nodes |-> 0]
  /\ tier = [n \in Nodes |-> 0]
  /\ pins = [n \in Nodes |-> IF n \in Plays THEN 1 ELSE 0]
  /\ lru = {}
  /\ used = [t \in Tiers |-> 0]
  /\ st = [r \in Reqs |-> "queued"]
  /\ hit = [r \in Reqs |-> None]
  /\ own = [r \in Reqs |-> None]
  /\ hitLen = [r \in Reqs |-> 0]
  /\ left = Isl
  /\ gen = [r \in Reqs |-> 0]
  /\ alloc = [r \in Reqs |-> 0]
  /\ pend = [r \in Reqs |-> 0]
  /\ op = NoOp
  /\ stack = <<>>
  /\ bulk = 0

Hits(r) == {BackOff(h, Prompt[r]) : h \in Lookup(PlayOf[r], Prompt[r])}

(* ids that new_node may hand out: any free one is as good as another. *)
Free == NodeIds \ live
FirstFree(S) == CHOOSE n \in Free \ S : TRUE

EnsureFree ==
  \/ \E v \in lru : EvictDown(v) \/ EvictLast(v)
  \/ Offload
  \/ Drop

Admission ==
  \/ \E r \in Reqs : \E h \in Hits(r) :
       \/ BeginLoad(r, h)
       \/ \E chunk \in 1 .. ChunkTokens :
            \/ PinWhole(r, h, chunk)
            \/ Free # {} /\ PinSplit(r, h, FirstFree({}), chunk)
  \/ LoadStart \/ LoadBlocked \/ AdmitOk \/ AdmitBlocked
  \/ \E r \in Reqs : LoadDone(r) \/ Reject(r)

(* The tokens a pass may ask for: a chunk of the prefill, or those of one  *)
(* decode step; a request is in a pass once.                               *)
Asks(r, tok) ==
  /\ pend[r] = 0
  /\ IF st[r] = "prefill" THEN tok <= left[r] /\ tok <= ChunkTokens ELSE tok = 1 + Nextn

Pass ==
  \/ \E r \in Reqs : \E tok \in 1 .. Max({ChunkTokens, 1 + Nextn}) :
       Asks(r, tok) /\ BeginGrow(r, tok)
  \/ GrowOk \/ GrowFailed
  \/ \E r \in Reqs : CommitChunk(r)
  \/ \E r \in Reqs :
       LET id == FirstFree({}) IN
       \/ Cardinality(Free) > 0 /\ CommitPrefill(r, id, id)
       \/ Cardinality(Free) > 1 /\ CommitPrefill(r, id, FirstFree({id}))
  \/ \E r \in Reqs : \E k \in 1 .. 1 + Nextn : CommitDecode(r, k) \/ CommitLast(r, k)

(* ... and one that is in the pass is not preempted. *)
Preempt ==
  \E r \in Reqs :
    pend[r] = 0 /\ (PreemptKeep(r) \/ PreemptDrop(r) \/ PreemptPrefill(r))

Next ==
  \/ EnsureFree
  \/ Admission
  \/ Pass
  \/ Preempt
  \/ \E n \in live : Expire(n)

Spec == Init /\ [][Next]_vars

-----------------------------------------------------------------------------
(* Properties.                                                             *)

(* Every variable has its type; a free node is as new_node returns it. *)
TypeOK ==
  /\ live \subseteq NodeIds
  /\ parent \in [Nodes -> Nodes \cup {None}]
  /\ above \in [Nodes -> SUBSET Nodes]
  /\ \A n \in Nodes : blocks[n] \in Seq(Nat)
  /\ tail \in [Nodes -> Nat]
  /\ tier \in [Nodes -> Tiers]
  /\ pins \in [Nodes -> Nat]
  /\ lru \subseteq live
  /\ used \in [Tiers -> Int]
  /\ st \in [Reqs -> {"queued", "loading", "prefill", "decode", "done"}]
  /\ hit \in [Reqs -> Nodes \cup {None}]
  /\ own \in [Reqs -> NodeIds \cup {None}]
  /\ op \in [kind : {"none", "admit", "load", "grow"}, req : Reqs \cup {None}, blocks : Nat, tok : Int]
  /\ stack \in Seq(NodeIds)
  /\ \A r \in Reqs : /\ gen[r] \in Nat
                     /\ {hitLen[r], left[r], alloc[r], pend[r]} \subseteq Int

(* Node::pins counts the holders of a node and nothing else: the root's    *)
(* own pin, the requests whose hit_node or own_node it is, and the load    *)
(* whose prefix is being protected.                                        *)
HeldAt(f, n) == Cardinality({r \in Reqs : f[r] = n})

PinHolders(n) == HeldAt(hit, n) + HeldAt(own, n)

ChainPin(n) == IF op.kind = "load" /\ n \in above[hit[op.req]] THEN 1 ELSE 0

PinsExact ==
  \A n \in Nodes : pins[n] = PinHolders(n) + ChainPin(n) + (IF n \in Plays THEN 1 ELSE 0)

(* A node a request holds is in the tree: eviction, offload, expiry and    *)
(* preemption never free it.                                               *)
HeldLive ==
  \A r \in Reqs : hit[r] \in live \cup Plays \cup {None} /\ own[r] \in live \cup {None}

(* The whole prefix of a request being served stays in HBM: a pin on its   *)
(* last node is enough to keep the nodes above it from being moved.        *)
HeldInHbm ==
  \A r \in Reqs : Serving(r) =>
    /\ \A n \in Chain(hit[r]) : tier[n] = 0
    /\ own[r] # None => \A n \in Chain(own[r]) : tier[n] = 0

(* A node is never in a slower tier than a node below it. *)
TierOrder == \A n \in live : parent[n] \in live => tier[parent[n]] <= tier[n]

(* The hit of a request being served is exactly the part of its prompt it  *)
(* will not compute, and its own node ends exactly where its prompt ends,  *)
(* however often the nodes were split since.                               *)
BlocksOn(n) == UNION {{blocks[m][i] : i \in 1 .. Len(blocks[m])} : m \in Chain(n)}

HeldPrefix ==
  \A r \in Reqs : Serving(r) =>
    /\ BlocksOn(hit[r]) = {Prompt[r][i] : i \in 1 .. hitLen[r]}
    /\ own[r] # None => BlocksOn(own[r]) = {Prompt[r][i] : i \in 1 .. Len(Prompt[r])}

(* The LRU sets hold exactly the nodes that may be evicted: lru_update was *)
(* called everywhere it had to be.                                         *)
LruExact == lru = {n \in live : Evictable(n)}

(* Unit::used is what is stored: the nodes of the tier and, in HBM, what   *)
(* requests allocated and have not yet handed to a node.                   *)
Resident(t) == TokensOf({n \in live : tier[n] = t})

Private(r) ==
  IF ~ Serving(r) THEN 0
  ELSE alloc[r] - (IF own[r] = None THEN 0 ELSE (Len(Prompt[r]) - hitLen[r]) * BlockSize)

Stored(t) == Resident(t) + (IF t = 0 THEN MapThenSumSet(Private, Reqs) ELSE 0)

UsedExact == \A t \in Tiers : used[t] = Stored(t)

(* What is stored in a tier never exceeds the tier. *)
NoOvercommit == \A t \in Tiers : Stored(t) <= Cap[t]

(* bulk_inflight_ returns to zero when no transfer is under way. *)
BulkExact == bulk = Cardinality({r \in Reqs : st[r] = "loading"})

-----------------------------------------------------------------------------
(* The inductive invariant behind PinsExact, HeldLive, HeldInHbm,          *)
(* TierOrder and LruExact (proved in KvTreeProofs).                        *)

(* The tree: `above` is closed, and between a node and one above it there  *)
(* is a child of the latter; tiers only get slower on the way down.        *)
TreeOK ==
  /\ live \subseteq NodeIds
  /\ parent \in [Nodes -> Nodes \cup {None}]
  /\ above \in [Nodes -> SUBSET Nodes]
  /\ tier \in [Nodes -> Tiers]
  /\ pins \in [Nodes -> Int]
  /\ \A n \in Plays : above[n] = {} /\ tier[n] = 0
  /\ \A n \in live :
       /\ above[n] = Chain(parent[n])
       /\ above[n] \subseteq live \cup Plays
       /\ n \notin above[n]
       /\ \A a \in above[n] :
            /\ above[a] \subseteq above[n]
            /\ tier[a] <= tier[n]
            /\ \E c \in live : c \in Chain(n) /\ parent[c] = a

(* Who holds nodes, and that all of a held prefix is in HBM, unless it is  *)
(* being loaded: then it is pinned node by node.                           *)
HoldOK ==
  /\ st \in [Reqs -> {"queued", "loading", "prefill", "decode", "done"}]
  /\ hit \in [Reqs -> Nodes \cup {None}]
  /\ own \in [Reqs -> NodeIds \cup {None}]
  /\ \A r \in Reqs :
       /\ hit[r] # None <=> \/ st[r] \in {"loading", "prefill", "decode"}
                            \/ op.kind \in {"load", "admit"} /\ op.req = r
       /\ own[r] # None <=> st[r] = "decode"
       /\ hit[r] # None /\ ~ (op.kind = "load" /\ op.req = r) =>
            \A n \in Chain(hit[r]) : tier[n] = 0
       /\ own[r] # None => \A n \in Chain(own[r]) : tier[n] = 0

(* The handler that waits for room, and the victims on their way down:     *)
(* they stay evictable while room is made for them below.                  *)
CallOK ==
  /\ op.kind \in {"none", "admit", "load", "grow"}
  /\ op.kind # "none" => op.req \in Reqs
  /\ op.kind \in {"admit", "load"} => st[op.req] = "queued"
  /\ op.kind = "none" => stack = <<>>
  /\ stack \in Seq(NodeIds)
  /\ Len(stack) < NTiers
  /\ \A i \in 1 .. Len(stack) : stack[i] \in lru /\ tier[stack[i]] = i - 1

IInv == TreeOK /\ HoldOK /\ CallOK /\ HeldLive /\ PinsExact /\ LruExact

=============================================================================
