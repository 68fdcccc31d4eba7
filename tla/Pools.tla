--------------------------------- MODULE Pools ---------------------------------
(***************************************************************************)
(* Prefill/decode disaggregation (engine.cpp with mapping.disaggregated):  *)
(* the two pools of workers, the router, and the delivery of a request's   *)
(* KV from a prefill rank to a decode rank.                                *)
(*                                                                         *)
(* Neither pool keeps prefixes here (prefix_cache off, or the prefill side *)
(* without reuse and kv_delivery = "full"), so that what a rank stores are *)
(* the tokens of its requests; the cache of a rank is module KvTree.       *)
(* Chunked prefill.  Passes and transfers take some time, as long as they  *)
(* like; transfers to one decode worker end in the order they started.     *)
(*                                                                         *)
(* The engine handles one event at a time: `todo` is what the handler that *)
(* runs still has to do, and no event is taken before it is empty.         *)
(***************************************************************************)
EXTENDS Integers, Sequences, FiniteSets, FiniteSetsExt, SequencesExt

CONSTANTS
  Reqs, Trees,   \* requests, and the session trees they are of
  TreeOf,        \* Req::play
  Before,        \* requests that complete before this one arrives
  Isl, Osl,      \* Req::isl, Req::osl
  None,          \* -1 in the code
  Workers,       \* Pool::workers of pool 0 (prefill) and pool 1 (decode), in order
  Dp,            \* PoolSpec::attention_dp: the ranks of a worker
  Cap,           \* Unit::cap[0]
  SeqCap,        \* prefill_max_seqs, max_num_seqs
  TokCap,        \* prefill_max_tokens, max_num_batched_tokens
  ChunkTokens,   \* StackSpec::chunk_tokens
  Nextn,         \* StackSpec::mtp_nextn
  KvAware,       \* mapping.routing = "kv_aware"
  Overlap        \* StackSpec::overlap_bulk

Pool == {0, 1}
Prefill == 0
Decode == 1

WorkersOf(p) == Range(Workers[p])
AllWorkers == WorkersOf(0) \cup WorkersOf(1)
PoolOf(w) == IF w \in WorkersOf(Prefill) THEN Prefill ELSE Decode

(* A rank is its worker and its place there. *)
Ranks(p) == WorkersOf(p) \X (1 .. Dp[p])
Units == Ranks(Prefill) \cup Ranks(Decode)

ASSUME PoolsAssumption ==
  /\ IsFiniteSet(Reqs) /\ IsFiniteSet(Trees)
  /\ TreeOf \in [Reqs -> Trees]
  /\ Before \in [Reqs -> SUBSET Reqs]
  /\ Isl \in [Reqs -> Nat \ {0}] /\ Osl \in [Reqs -> Nat \ {0}]
  /\ WorkersOf(Prefill) \cap WorkersOf(Decode) = {}
  /\ None \notin AllWorkers /\ None \notin Units
  /\ \A p \in Pool : /\ Len(Workers[p]) \in Nat \ {0} /\ DOMAIN Workers[p] = 1 .. Len(Workers[p])
                     /\ Dp[p] \in Nat \ {0} /\ Cap[p] \in Nat
                     /\ SeqCap[p] \in Nat \ {0} /\ TokCap[p] \in Nat /\ TokCap[p] > Nextn
  /\ ChunkTokens \in Nat \ {0} /\ Nextn \in Nat
  /\ KvAware \in BOOLEAN /\ Overlap \in BOOLEAN

VARIABLES
  st,         \* Req::st
  unit,       \* Req::unit
  decUnit,    \* Req::dec_unit
  left,       \* Req::prefill_left
  gen,        \* Req::generated
  alloc,      \* Req::alloc
  decAlloc,   \* Req::dec_alloc
  used,       \* Unit::used[0]
  running,    \* Unit::running
  waiting,    \* Unit::waiting
  decWaiting, \* Unit::dec_waiting
  busy,       \* Worker::busy
  batch,      \* Worker::batch, one rank after the other
  xfers,      \* deliveries under way to a worker, in the order they end
  rr,         \* Pool::rr
  sticky,     \* Play::sticky_worker
  trees,      \* Worker::trees
  remaining,  \* Play::remaining
  todo        \* the rest of the handler: a stack of its calls and loops

req == <<st, unit, decUnit, left, gen, alloc, decAlloc>>
rank == <<used, running, waiting, decWaiting>>
worker == <<busy, batch, xfers>>
router == <<rr, sticky, trees>>
poolvars == <<req, rank, worker, router, remaining, todo>>

-----------------------------------------------------------------------------
(* The handler under way.                                                  *)

Call(do, w, k) == [do |-> do, w |-> w, rank |-> k, i |-> 1, budget |-> TokCap[PoolOf(w)], seqs |-> 0]

Try(w) == Call("try", w, 1)

Idle == todo = <<>>

At(do) == ~ Idle /\ Head(todo).do = do

W == Head(todo).w
U == <<W, Head(todo).rank>>
I == Head(todo).i
P == PoolOf(W)

Becomes(call) == todo' = <<call>> \o Tail(todo)

(* Mutant: new requests before the continuing sequences. *)
LoopsAdmitFirst(p) == IF p = Prefill THEN <<"prefill", "admit", "close">> ELSE <<"dec_admit", "decode", "close">>

(* The loops of form_batch on a rank: add_prefills in the prefill pool,    *)
(* where nothing decodes, and add_decodes in the decode pool, where        *)
(* nothing waits for a prefill.                                            *)
Loops(p) == IF p = Prefill THEN <<"prefill", "admit", "close">> ELSE <<"decode", "dec_admit", "close">>

LoopEnds ==
  LET L == Loops(P)
      next == L[1 + CHOOSE j \in DOMAIN L : L[j] = Head(todo).do]
  IN Becomes([Head(todo) EXCEPT !.do = next, !.i = 1])

-----------------------------------------------------------------------------
(* route and pick_unit.                                                    *)

(* The k-th worker from rr on. *)
FromRr(p, k) == Workers[p][1 + ((rr[p] + k) % Len(Workers[p]))]

Advanced(p) == [rr EXCEPT ![p] = (@ + 1) % Len(Workers[p])]

ByHistory(p) == KvAware /\ Len(Workers[p]) > 1

(* Fewest live trees, ties round-robin. *)
LeastLoaded(p) ==
  LET n == 0 .. Len(Workers[p]) - 1
      fewest == Min({trees[w] : w \in WorkersOf(p)})
  IN FromRr(p, Min({k \in n : trees[FromRr(p, k)] = fewest}))

(* route(p, r) returns w. *)
Routed(p, r, w) ==
  LET t == TreeOf[r] IN
  \/ /\ ~ ByHistory(p)
     /\ w = FromRr(p, 0)
     /\ rr' = Advanced(p)
     /\ UNCHANGED <<sticky, trees>>
  \/ /\ ByHistory(p) /\ sticky[t][p] # None
     /\ w = sticky[t][p]
     /\ UNCHANGED router
  \/ /\ ByHistory(p) /\ sticky[t][p] = None
     /\ w = LeastLoaded(p)
     /\ rr' = Advanced(p)
     /\ sticky' = [sticky EXCEPT ![t][p] = w]
     /\ trees' = [trees EXCEPT ![w] = @ + 1]

(* Unit::active *)
Active(u) == Len(running[u]) + Len(waiting[u]) + Len(decWaiting[u])

(* pick_unit: the rank with the fewest requests, the first one of those.   *)
Picked(p, w) ==
  LET fewest == Min({Active(<<w, k>>) : k \in 1 .. Dp[p]})
  IN <<w, Min({k \in 1 .. Dp[p] : Active(<<w, k>>) = fewest})>>

-----------------------------------------------------------------------------
(* after_done: the last request of a tree takes it off its workers.        *)

(* Mutant: the tree stays counted on its decode worker. *)
LeavesOneWorker(t, w) == IF sticky[t][Prefill] = w THEN 1 ELSE 0
LeavesWorker(t, w) == IF \E p \in Pool : sticky[t][p] = w THEN 1 ELSE 0

AfterDone(r) ==
  LET t == TreeOf[r] IN
  /\ remaining' = [remaining EXCEPT ![t] = @ - 1]
  /\ trees' = [w \in AllWorkers |-> trees[w] - (IF remaining[t] = 1 THEN LeavesWorker(t, w) ELSE 0)]
  /\ UNCHANGED <<rr, sticky>>

Rejected(r) ==
  /\ st' = [st EXCEPT ![r] = "done"]
  /\ AfterDone(r)

-----------------------------------------------------------------------------
(* try_start_pass and form_batch.                                          *)

(* queue_transfer: without overlap a worker computes nothing while KV is   *)
(* delivered to it.                                                        *)
Blocked(w) == ~ Overlap /\ w \in WorkersOf(Decode) /\ xfers[w] # <<>>

TryStart ==
  /\ At("try")
  /\ IF busy[W] \/ Blocked(W)
       THEN todo' = Tail(todo) /\ UNCHANGED batch
       ELSE /\ Becomes(Call(Head(Loops(P)), W, 1))
            /\ batch' = [batch EXCEPT ![W] = <<>>]
  /\ UNCHANGED <<req, rank, busy, xfers, router, remaining>>

Taken(tok) == [Head(todo) EXCEPT !.budget = @ - tok, !.seqs = @ + 1, !.i = @ + 1]

Entry(r, u, tok) == [req |-> r, unit |-> u, tokens |-> tok]

(* add_prefill_chunk *)
Open == Head(todo).budget > 0 /\ Head(todo).seqs < SeqCap[Prefill]

Chunk(r) == Min({left[r], ChunkTokens, Head(todo).budget})

PrefillChunk ==
  LET r == running[U][I]
      fits == used[U] + Chunk(r) <= Cap[Prefill]
      tok == IF fits THEN Chunk(r) ELSE 0
  IN
  /\ At("prefill") /\ I <= Len(running[U]) /\ Open
  /\ used' = [used EXCEPT ![U] = @ + tok]
  /\ alloc' = [alloc EXCEPT ![r] = @ + tok]
  /\ IF fits
       THEN /\ batch' = [batch EXCEPT ![W] = Append(@, Entry(r, U, tok))]
            /\ Becomes(Taken(tok))
       ELSE /\ Becomes([Head(todo) EXCEPT !.i = @ + 1])
            /\ UNCHANGED batch
  /\ UNCHANGED <<st, unit, decUnit, left, gen, decAlloc, running, waiting, decWaiting, busy, xfers, router, remaining>>

PrefillsEnd ==
  /\ At("prefill") /\ (I > Len(running[U]) \/ ~ Open)
  /\ LoopEnds
  /\ UNCHANGED <<req, rank, worker, router, remaining>>

(* The prefill pool needs room for the prompt only. *)
RejectPrefill ==
  LET r == Head(waiting[U]) IN
  /\ At("admit") /\ waiting[U] # <<>> /\ Open
  /\ Isl[r] > Cap[Prefill]
  /\ Rejected(r)
  /\ waiting' = [waiting EXCEPT ![U] = Tail(@)]
  /\ UNCHANGED <<unit, decUnit, left, gen, alloc, decAlloc, used, running, decWaiting, worker, todo>>

(* admit_prefill, and the first chunk. *)
AdmitPrefill ==
  LET r == Head(waiting[U])
      tok == Chunk(r)
  IN
  /\ At("admit") /\ waiting[U] # <<>> /\ Open
  /\ Isl[r] <= Cap[Prefill] /\ used[U] + tok <= Cap[Prefill]
  /\ st' = [st EXCEPT ![r] = "prefill"]
  /\ used' = [used EXCEPT ![U] = @ + tok]
  /\ alloc' = [alloc EXCEPT ![r] = tok]
  /\ running' = [running EXCEPT ![U] = Append(@, r)]
  /\ waiting' = [waiting EXCEPT ![U] = Tail(@)]
  /\ batch' = [batch EXCEPT ![W] = Append(@, Entry(r, U, tok))]
  /\ Becomes(Taken(tok))
  /\ UNCHANGED <<unit, decUnit, left, gen, decAlloc, decWaiting, busy, xfers, router, remaining>>

AdmissionsEnd ==
  LET r == Head(waiting[U]) IN
  /\ At("admit")
  /\ \/ waiting[U] = <<>> \/ ~ Open
     \/ waiting[U] # <<>> /\ Isl[r] <= Cap[Prefill] /\ used[U] + Chunk(r) > Cap[Prefill]
  /\ LoopEnds
  /\ UNCHANGED <<req, rank, worker, router, remaining>>

(* add_decodes: a step takes one token and the draft tokens; the room was  *)
(* reserved at admission.                                                  *)
Step == 1 + Nextn

Slot == Head(todo).budget >= Step /\ Head(todo).seqs < SeqCap[Decode]

DecodeStep ==
  /\ At("decode") /\ I <= Len(running[U]) /\ Slot
  /\ batch' = [batch EXCEPT ![W] = Append(@, Entry(running[U][I], U, Step))]
  /\ Becomes(Taken(Step))
  /\ UNCHANGED <<req, rank, busy, xfers, router, remaining>>

DecodesEnd ==
  /\ At("decode") /\ (I > Len(running[U]) \/ ~ Slot)
  /\ LoopEnds
  /\ UNCHANGED <<req, rank, worker, router, remaining>>

(* delivered + osl - 1: the whole context is delivered. *)
Need(r) == Isl[r] + Osl[r] - 1

RejectDecode ==
  LET r == Head(decWaiting[U]) IN
  /\ At("dec_admit") /\ decWaiting[U] # <<>> /\ Slot
  /\ Need(r) > Cap[Decode]
  /\ Rejected(r)
  /\ decWaiting' = [decWaiting EXCEPT ![U] = Tail(@)]
  /\ UNCHANGED <<unit, decUnit, left, gen, alloc, decAlloc, used, running, waiting, worker, todo>>

AdmitDecode ==
  LET r == Head(decWaiting[U]) IN
  /\ At("dec_admit") /\ decWaiting[U] # <<>> /\ Slot
  /\ used[U] + Need(r) <= Cap[Decode]
  /\ st' = [st EXCEPT ![r] = "decode"]
  /\ used' = [used EXCEPT ![U] = @ + Need(r)]
  /\ decAlloc' = [decAlloc EXCEPT ![r] = Need(r)]
  /\ running' = [running EXCEPT ![U] = Append(@, r)]
  /\ decWaiting' = [decWaiting EXCEPT ![U] = Tail(@)]
  /\ batch' = [batch EXCEPT ![W] = Append(@, Entry(r, U, Step))]
  /\ Becomes(Taken(Step))
  /\ UNCHANGED <<unit, decUnit, left, gen, alloc, waiting, busy, xfers, router, remaining>>

DecAdmissionsEnd ==
  LET r == Head(decWaiting[U]) IN
  /\ At("dec_admit")
  /\ \/ decWaiting[U] = <<>> \/ ~ Slot
     \/ decWaiting[U] # <<>> /\ Need(r) <= Cap[Decode] /\ used[U] + Need(r) > Cap[Decode]
  /\ LoopEnds
  /\ UNCHANGED <<req, rank, worker, router, remaining>>

(* The rank's batch is empty although requests run on it: the youngest is  *)
(* preempted, and the batch formed again.                                  *)
Formed(u) == {i \in DOMAIN batch[W] : batch[W][i].unit = u} # {}

Preempt ==
  LET r == Last(running[U]) IN
  /\ At("close") /\ ~ Formed(U) /\ running[U] # <<>>
  /\ st' = [st EXCEPT ![r] = "queued"]
  /\ left' = [left EXCEPT ![r] = Isl[r]]
  /\ used' = [used EXCEPT ![U] = @ - alloc[r]]
  /\ alloc' = [alloc EXCEPT ![r] = 0]
  /\ running' = [running EXCEPT ![U] = Front(@)]
  /\ waiting' = [waiting EXCEPT ![U] = <<r>> \o @]
  /\ Becomes(Call(Head(Loops(P)), W, Head(todo).rank))
  /\ UNCHANGED <<unit, decUnit, gen, decAlloc, decWaiting, worker, router, remaining>>

NextRank ==
  /\ At("close") /\ (Formed(U) \/ running[U] = <<>>)
  /\ Head(todo).rank < Dp[P]
  /\ Becomes(Call(Head(Loops(P)), W, Head(todo).rank + 1))
  /\ UNCHANGED <<req, rank, worker, router, remaining>>

(* The pass starts unless it is empty. *)
StartPass ==
  /\ At("close") /\ (Formed(U) \/ running[U] = <<>>)
  /\ Head(todo).rank = Dp[P]
  /\ busy' = [busy EXCEPT ![W] = batch[W] # <<>>]
  /\ todo' = Tail(todo)
  /\ UNCHANGED <<req, rank, batch, xfers, router, remaining>>

FormBatch ==
  \/ TryStart
  \/ PrefillChunk \/ PrefillsEnd \/ RejectPrefill \/ AdmitPrefill \/ AdmissionsEnd
  \/ DecodeStep \/ DecodesEnd \/ RejectDecode \/ AdmitDecode \/ DecAdmissionsEnd
  \/ Preempt \/ NextRank \/ StartPass

-----------------------------------------------------------------------------
(* The events.                                                             *)

(* on_ready, enqueue *)
Arrive(r) ==
  /\ Idle
  /\ st[r] = "pending" /\ \A b \in Before[r] : st[b] = "done"
  /\ \E w \in WorkersOf(Prefill) :
       /\ Routed(Prefill, r, w)
       /\ LET u == Picked(Prefill, w) IN
            /\ unit' = [unit EXCEPT ![r] = u]
            /\ waiting' = [waiting EXCEPT ![u] = Append(@, r)]
       /\ todo' = <<Try(w)>>
  /\ st' = [st EXCEPT ![r] = "queued"]
  /\ UNCHANGED <<decUnit, left, gen, alloc, decAlloc, used, running, decWaiting, worker, remaining>>

(* EvPass: commit_pass, one request of the batch after the other, then     *)
(* try_start_pass.                                                         *)
PassEnds(w) ==
  /\ Idle /\ busy[w]
  /\ todo' = <<Call("commit", w, 1), Try(w)>>
  /\ busy' = [busy EXCEPT ![w] = FALSE]
  /\ UNCHANGED <<req, rank, batch, xfers, router, remaining>>

Committing(do) == At("commit") /\ I <= Len(batch[W]) /\ st[batch[W][I].req] = do

Committed == Becomes([Head(todo) EXCEPT !.i = @ + 1])

CommitChunk ==
  LET b == batch[W][I] IN
  /\ Committing("prefill")
  /\ b.tokens < left[b.req]
  /\ left' = [left EXCEPT ![b.req] = @ - b.tokens]
  /\ Committed
  /\ UNCHANGED <<st, unit, decUnit, gen, alloc, decAlloc, rank, worker, router, remaining>>

(* Mutant: the prefill side lets go of the last chunk only. *)
ReleasedChunk(r) == [used EXCEPT ![unit[r]] = @ - Min({alloc[r], ChunkTokens})]

(* release_prefill_side *)
Released(r) == [used EXCEPT ![unit[r]] = @ - alloc[r]]

(* finish, of a request of one token. *)
CommitShort ==
  LET r == batch[W][I].req IN
  /\ Committing("prefill")
  /\ batch[W][I].tokens = left[r] /\ Osl[r] = 1
  /\ left' = [left EXCEPT ![r] = 0]
  /\ gen' = [gen EXCEPT ![r] = 1]
  /\ st' = [st EXCEPT ![r] = "done"]
  /\ used' = Released(r)
  /\ AfterDone(r)
  /\ Committed
  /\ UNCHANGED <<unit, decUnit, alloc, decAlloc, running, waiting, decWaiting, worker>>

(* start_delivery: the decode worker is chosen now, and stays chosen.      *)
StartDelivery ==
  LET r == batch[W][I].req IN
  /\ Committing("prefill")
  /\ batch[W][I].tokens = left[r] /\ Osl[r] > 1
  /\ left' = [left EXCEPT ![r] = 0]
  /\ gen' = [gen EXCEPT ![r] = 1]
  /\ st' = [st EXCEPT ![r] = "delivering"]
  /\ \E w \in WorkersOf(Decode) :
       /\ Routed(Decode, r, w)
       /\ decUnit' = [decUnit EXCEPT ![r] = Picked(Decode, w)]
       /\ xfers' = [xfers EXCEPT ![w] = Append(@, r)]
  /\ Committed
  /\ UNCHANGED <<unit, alloc, decAlloc, rank, busy, batch, remaining>>

CommitDecode ==
  LET r == batch[W][I].req IN
  /\ Committing("decode")
  /\ \E produced \in 1 .. Step :
       /\ gen[r] + produced < Osl[r]
       /\ gen' = [gen EXCEPT ![r] = @ + produced]
  /\ Committed
  /\ UNCHANGED <<st, unit, decUnit, left, alloc, decAlloc, rank, worker, router, remaining>>

(* finish, on the decode side. *)
CommitLast ==
  LET r == batch[W][I].req IN
  /\ Committing("decode")
  /\ gen[r] + Step >= Osl[r]
  /\ gen' = [gen EXCEPT ![r] = Osl[r]]
  /\ st' = [st EXCEPT ![r] = "done"]
  /\ used' = [used EXCEPT ![decUnit[r]] = @ - decAlloc[r]]
  /\ AfterDone(r)
  /\ Committed
  /\ UNCHANGED <<unit, decUnit, left, alloc, decAlloc, running, waiting, decWaiting, worker>>

StillServed(run) ==
  FoldLeft(LAMBDA kept, r : IF st[r] \in {"prefill", "decode"} THEN Append(kept, r) ELSE kept, <<>>, run)

(* Requests that are no longer computed on the worker leave running.       *)
CommitEnds ==
  /\ At("commit") /\ I > Len(batch[W])
  /\ running' = [u \in Units |->
                   IF u[1] = W THEN StillServed(running[u]) ELSE running[u]]
  /\ todo' = Tail(todo)
  /\ UNCHANGED <<req, used, waiting, decWaiting, worker, router, remaining>>

(* Mutant: the prefill worker is not woken. *)
WokenDecode(r) == <<Try(decUnit[r][1])>>

Woken(r) == <<Try(unit[r][1]), Try(decUnit[r][1])>>

(* EvTransfer / XferDeliver: the prefill side is released, the request     *)
(* waits on its decode rank, and both workers try to start a pass.         *)
Deliver(w) ==
  LET r == Head(xfers[w])
      u == decUnit[r]
  IN
  /\ Idle /\ xfers[w] # <<>>
  /\ xfers' = [xfers EXCEPT ![w] = Tail(@)]
  /\ used' = Released(r)
  /\ st' = [st EXCEPT ![r] = "dec_queued"]
  /\ decWaiting' = [decWaiting EXCEPT ![u] = Append(@, r)]
  /\ todo' = Woken(r)
  /\ UNCHANGED <<unit, decUnit, left, gen, alloc, decAlloc, running, waiting, busy, batch, router, remaining>>

Commit ==
  CommitChunk \/ CommitShort \/ StartDelivery \/ CommitDecode \/ CommitLast \/ CommitEnds

-----------------------------------------------------------------------------

PoolsInit ==
  /\ st = [r \in Reqs |-> "pending"]
  /\ unit = [r \in Reqs |-> None] /\ decUnit = [r \in Reqs |-> None]
  /\ left = Isl
  /\ gen = [r \in Reqs |-> 0]
  /\ alloc = [r \in Reqs |-> 0] /\ decAlloc = [r \in Reqs |-> 0]
  /\ used = [u \in Units |-> 0]
  /\ running = [u \in Units |-> <<>>]
  /\ waiting = [u \in Units |-> <<>>]
  /\ decWaiting = [u \in Units |-> <<>>]
  /\ busy = [w \in AllWorkers |-> FALSE]
  /\ batch = [w \in AllWorkers |-> <<>>]
  /\ xfers = [w \in WorkersOf(Decode) |-> <<>>]
  /\ rr = [p \in Pool |-> 0]
  /\ sticky = [t \in Trees |-> [p \in Pool |-> None]]
  /\ trees = [w \in AllWorkers |-> 0]
  /\ remaining = [t \in Trees |-> Cardinality({r \in Reqs : TreeOf[r] = t})]
  /\ todo = <<>>

PoolsNext ==
  \/ FormBatch
  \/ Commit
  \/ \E r \in Reqs : Arrive(r)
  \/ \E w \in AllWorkers : PassEnds(w)
  \/ \E w \in WorkersOf(Decode) : Deliver(w)

PoolsSpec == PoolsInit /\ [][PoolsNext]_poolvars

-----------------------------------------------------------------------------
(* Properties.                                                             *)

(* A request's tokens are stored on one side: on its prefill rank from the *)
(* first chunk until they are delivered, and on its decode rank, the whole *)
(* output included, from admission until the end.  Nothing is left behind  *)
(* on a rank, given back twice, or promised beyond what the rank has.      *)
Holding(u) == {r \in Reqs : unit[r] = u /\ st[r] \in {"prefill", "delivering"}}
Reserving(u) == {r \in Reqs : decUnit[r] = u /\ st[r] = "decode"}
Sum(amount, S) == MapThenSumSet(LAMBDA r : amount[r], S)

RoomExact ==
  /\ \A u \in Ranks(Prefill) : used[u] = Sum(alloc, Holding(u))
  /\ \A u \in Ranks(Decode) : used[u] = Sum(decAlloc, Reserving(u))
  /\ \A r \in Reqs : /\ st[r] = "delivering" => alloc[r] = Isl[r]
                     /\ st[r] = "decode" => decAlloc[r] = Isl[r] + Osl[r] - 1
  /\ \A p \in Pool : \A u \in Ranks(p) : used[u] <= Cap[p]

(* A sequence that was admitted to a decode rank is computed in every pass *)
(* of its worker until it ends: new ones only get the slots that are left. *)
KeepSlots ==
  \A w \in WorkersOf(Decode) : busy[w] =>
    {batch[w][i].req : i \in DOMAIN batch[w]} = {r \in Reqs : st[r] = "decode" /\ decUnit[r][1] = w}

(* Worker::trees counts the live trees whose requests go to the worker:    *)
(* none is forgotten when it ends, and no tree has two workers in a pool.  *)
Live(p, w) == {t \in Trees : remaining[t] > 0 /\ sticky[t][p] = w}

TreesExact ==
  \A p \in Pool : ByHistory(p) =>
    /\ \A w \in WorkersOf(p) : trees[w] = Cardinality(Live(p, w))
    /\ \A r \in Reqs :
         LET u == IF p = Prefill THEN unit[r] ELSE decUnit[r]
         IN u # None => u[1] = sticky[TreeOf[r]][p]

(* With no pass and no delivery under way, nothing is going to start a     *)
(* rank again: then no request is left on any of them.                     *)
RestedEmpty ==
  Idle /\ (\A w \in AllWorkers : ~ busy[w]) /\ (\A w \in WorkersOf(Decode) : xfers[w] = <<>>) =>
    \A r \in Reqs : st[r] \in {"pending", "done"}

(* A request is preempted when nothing else on the rank will free space    *)
(* (comment at engine.cpp:1252).                                           *)
PreemptLast ==
  [][\A r \in Reqs : st[r] = "prefill" /\ st'[r] = "queued" =>
       ~ \E d \in Reqs : unit[d] = unit[r] /\ st[d] = "delivering"]_poolvars

=============================================================================
