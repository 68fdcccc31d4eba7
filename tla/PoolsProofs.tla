---------------------------- MODULE PoolsProofs ----------------------------
(***************************************************************************)
(* Proofs about module Pools, for any requests, workers, ranks and limits: *)
(* the room of a rank is accounted for on both sides of a delivery, decode *)
(* sequences keep their slots, live trees are counted, and a rank that has *)
(* something to compute is going to be tried.                              *)
(***************************************************************************)
EXTENDS Pools, Facts

-----------------------------------------------------------------------------
(* The inductive invariant behind RoomExact, KeepSlots, TreesExact and     *)
(* RestedEmpty.                                                            *)

Forming == ~ Idle /\ Head(todo).do \notin {"try", "commit"}

InCommit(w) == At("commit") /\ W = w

CallType ==
  [do : {"try", "commit", "prefill", "admit", "decode", "dec_admit", "close"}, w : AllWorkers,
   rank : Nat, i : Nat \ {0}, budget : Nat, seqs : Nat]

States == {"pending", "queued", "prefill", "delivering", "dec_queued", "decode", "done"}

PoolsTypeOK ==
  /\ st \in [Reqs -> States]
  /\ unit \in [Reqs -> Ranks(Prefill) \cup {None}] /\ decUnit \in [Reqs -> Ranks(Decode) \cup {None}]
  /\ left \in [Reqs -> Nat] /\ gen \in [Reqs -> Nat]
  /\ alloc \in [Reqs -> Nat] /\ decAlloc \in [Reqs -> Nat]
  /\ used \in [Units -> Int]
  /\ running \in [Units -> Seq(Reqs)] /\ waiting \in [Units -> Seq(Reqs)]
  /\ decWaiting \in [Units -> Seq(Reqs)]
  /\ busy \in [AllWorkers -> BOOLEAN]
  /\ batch \in [AllWorkers -> Seq([req : Reqs, unit : Units, tokens : Nat])]
  /\ xfers \in [WorkersOf(Decode) -> Seq(Reqs)]
  /\ rr \in [Pool -> Nat]
  /\ sticky \in [Trees -> [Pool -> AllWorkers \cup {None}]]
  /\ trees \in [AllWorkers -> Nat] /\ remaining \in [Trees -> Nat]
  /\ todo \in Seq(CallType)

(* A handler is at one call, after which it may try one more worker; it    *)
(* tries the worker of a pass that it commits.                             *)
HandlerOK ==
  /\ Len(todo) <= 2
  /\ \A i \in DOMAIN todo : i > 1 => todo[i].do = "try" /\ todo[i].rank = 1
  /\ ~ Idle => Head(todo).rank \in 1 .. Dp[P]
  /\ At("prefill") \/ At("admit") => P = Prefill
  /\ At("decode") \/ At("dec_admit") => P = Decode
  /\ Forming \/ At("commit") => ~ busy[W]
  /\ At("commit") => Len(todo) = 2 /\ todo[2].w = W

(* The state of a request tells the one queue that holds it; running also  *)
(* holds what has just been committed.                                     *)
Queued(u) == {r \in Reqs : st[r] = "queued" /\ unit[r] = u}
DecQueued(u) == {r \in Reqs : st[r] = "dec_queued" /\ decUnit[r] = u}
Sent(w) == {r \in Reqs : st[r] = "delivering" /\ decUnit[r][1] = w}
Served(u) ==
  {r \in Reqs : (st[r] = "prefill" /\ unit[r] = u) \/ (st[r] = "decode" /\ decUnit[r] = u)}

Held(s, X) == IsInjective(s) /\ \A r \in Reqs : Contains(s, r) <=> r \in X

QueueOK ==
  /\ \A r \in Reqs : /\ st[r] \in States \ {"pending", "done"} => unit[r] # None
                     /\ st[r] \in {"delivering", "dec_queued", "decode"} => decUnit[r] # None
  /\ \A u \in Units :
       /\ Held(waiting[u], Queued(u)) /\ Held(decWaiting[u], DecQueued(u)) /\ IsInjective(running[u])
       /\ \A r \in Reqs : /\ r \in Served(u) => Contains(running[u], r)
                          /\ Contains(running[u], r) /\ r \notin Served(u) =>
                               InCommit(u[1]) /\ st[r] \in {"delivering", "done"}
  /\ \A w \in WorkersOf(Decode) : Held(xfers[w], Sent(w))

(* The entries of the batch of w that are still to be committed.           *)
Pass(w) ==
  {i \in DOMAIN batch[w] : busy[w] \/ (Forming /\ W = w) \/ (InCommit(w) /\ i >= I)}

(* A request is in a pass once, on its rank, and for what its prefill has  *)
(* left.                                                                   *)
BatchOK ==
  \A w \in AllWorkers : \A i \in Pass(w) :
    LET b == batch[w][i] IN
    /\ b.unit[1] = w
    /\ \/ PoolOf(w) = Prefill /\ st[b.req] = "prefill" /\ unit[b.req] = b.unit /\ b.tokens \in 1 .. left[b.req]
       \/ PoolOf(w) = Decode /\ st[b.req] = "decode" /\ decUnit[b.req] = b.unit
    /\ \A j \in Pass(w) : batch[w][j].req = b.req => i = j

InPass(r) == \E w \in AllWorkers : \E i \in Pass(w) : batch[w][i].req = r

(* What a request that is prefilled has stored: what it has computed, and  *)
(* what is in the pass.                                                    *)
StoredOK ==
  /\ \A r \in Reqs :
       /\ st[r] \in {"pending", "queued"} => left[r] = Isl[r]
       /\ st[r] = "prefill" => left[r] \in 1 .. Isl[r]
       /\ st[r] = "prefill" /\ ~ InPass(r) => alloc[r] = Isl[r] - left[r]
  /\ \A w \in WorkersOf(Prefill) : \A i \in Pass(w) :
       LET b == batch[w][i] IN alloc[b.req] = Isl[b.req] - left[b.req] + b.tokens

Computed(u) == {batch[u[1]][i].req : i \in {j \in DOMAIN batch[u[1]] : batch[u[1]][j].unit = u}}

(* A decode rank has the slots for all that it runs, and has given them to *)
(* the first ones already.                                                 *)
Fits(n) == n <= SeqCap[Decode] /\ n * Step <= TokCap[Decode]

SlotsOK ==
  /\ \A u \in Ranks(Decode) : Fits(Len(running[u]))
  /\ Forming /\ P = Decode =>
       /\ \A k \in 1 .. Head(todo).rank - 1 : Computed(<<W, k>>) = Reserving(<<W, k>>)
       /\ At("decode") => /\ I <= Len(running[U]) + 1
                          /\ Computed(U) = {running[U][j] : j \in 1 .. I - 1}
                          /\ Head(todo).seqs = I - 1 /\ Head(todo).budget = TokCap[P] - (I - 1) * Step
       /\ At("dec_admit") => /\ Head(todo).seqs = Len(running[U])
                             /\ Head(todo).budget = TokCap[P] - Len(running[U]) * Step
       /\ ~ At("decode") => Computed(U) = Reserving(U)

(* How far form_batch got on a prefill rank.                               *)
LoopOK ==
  Forming =>
    /\ \A i \in DOMAIN batch[W] : batch[W][i].unit[2] <= Head(todo).rank
    /\ At("prefill") => \A r \in Computed(U) : \E j \in 1 .. I - 1 : j \in DOMAIN running[U] /\ running[U][j] = r
    /\ At("prefill") \/ At("admit") =>
         Computed(U) # {} \/ (Head(todo).seqs = 0 /\ Head(todo).budget = TokCap[P])

(* The live trees of every worker are counted, and a tree is live as long  *)
(* as it has a request to end.                                             *)
CountOK ==
  /\ \A t \in Trees : remaining[t] = Cardinality({r \in Reqs : TreeOf[r] = t /\ st[r] # "done"})
  /\ \A p \in Pool : /\ \A w \in WorkersOf(p) : trees[w] = Cardinality(Live(p, w))
                     /\ \A t \in Trees : sticky[t][p] # None => sticky[t][p] \in WorkersOf(p) /\ ByHistory(p)

(* A rank that has nothing to compute, except prompts that wait for the    *)
(* room of a delivery.                                                     *)
Rests(u) ==
  /\ running[u] = <<>> /\ decWaiting[u] = <<>>
  /\ waiting[u] # <<>> => \E r \in Reqs : st[r] = "delivering" /\ unit[r] = u

(* Nothing to compute is left on a worker that nobody is going to try.     *)
RestOK ==
  /\ \A w \in AllWorkers :
       ~ busy[w] /\ ~ Blocked(w) /\ (\A i \in DOMAIN todo : todo[i].w # w) =>
         \A k \in 1 .. Dp[PoolOf(w)] : Rests(<<w, k>>)
  /\ Forming => \A k \in 1 .. Head(todo).rank - 1 : Computed(<<W, k>>) # {} \/ Rests(<<W, k>>)
  /\ At("close") /\ Computed(U) = {} /\ running[U] = <<>> => Rests(U)

PoolsInv ==
  /\ PoolsTypeOK /\ HandlerOK /\ QueueOK /\ BatchOK /\ StoredOK /\ SlotsOK /\ LoopOK
  /\ CountOK /\ RestOK /\ RoomExact /\ KeepSlots /\ TreesExact

-----------------------------------------------------------------------------
(* Workers, ranks and pools.                                               *)

(* Each pool has a worker, and each worker ranks.                          *)
LEMMA WorkersAre ==
  ASSUME NEW p \in Pool
  PROVE  /\ Len(Workers[p]) \in Nat \ {0} /\ DOMAIN Workers[p] = 1 .. Len(Workers[p])
         /\ \A i \in 1 .. Len(Workers[p]) : Workers[p][i] \in WorkersOf(p)
         /\ IsFiniteSet(WorkersOf(p)) /\ WorkersOf(p) # {} /\ WorkersOf(p) \subseteq AllWorkers
         /\ Dp[p] \in Nat \ {0} /\ Cap[p] \in Nat /\ SeqCap[p] \in Nat \ {0}
         /\ TokCap[p] \in Nat /\ TokCap[p] >= Step
PROOF
  <1>1. /\ Len(Workers[p]) \in Nat \ {0} /\ DOMAIN Workers[p] = 1 .. Len(Workers[p])
        /\ Dp[p] \in Nat \ {0} /\ Cap[p] \in Nat /\ SeqCap[p] \in Nat \ {0}
        /\ TokCap[p] \in Nat /\ TokCap[p] > Nextn /\ Nextn \in Nat
    BY PoolsAssumption
  <1>2. \A i \in 1 .. Len(Workers[p]) : Workers[p][i] \in WorkersOf(p)
    BY <1>1 DEF WorkersOf, Range
  <1>3. IsFiniteSet(WorkersOf(p))
    <2> DEFINE D == 1 .. Len(Workers[p])
    <2>1. IsFiniteSet(D)
      BY <1>1, FS_Interval
    <2> DEFINE g == [i \in D |-> Workers[p][i]]
    <2>2. g \in Surjection(D, WorkersOf(p))
      BY <1>1 DEF Surjection, WorkersOf, Range
    <2> QED
      BY <2>1, <2>2, FS_Surjection
  <1>4. WorkersOf(p) # {}
    <2>1. 1 \in 1 .. Len(Workers[p])
      BY <1>1
    <2> QED
      BY <1>2, <2>1
  <1>5. WorkersOf(p) \subseteq AllWorkers
    BY DEF AllWorkers, Pool
  <1>6. TokCap[p] >= Step
    BY <1>1 DEF Step
  <1> QED
    BY <1>1, <1>2, <1>3, <1>4, <1>5, <1>6

(* The pool of a worker.                                                   *)
LEMMA PoolIs ==
  /\ \A w \in AllWorkers : PoolOf(w) \in Pool /\ w \in WorkersOf(PoolOf(w))
  /\ \A p \in Pool : \A w \in WorkersOf(p) : PoolOf(w) = p
PROOF
  <1>1. WorkersOf(Prefill) \cap WorkersOf(Decode) = {}
    BY PoolsAssumption
  <1> QED
    BY <1>1 DEF PoolOf, Pool, Prefill, Decode, AllWorkers

(* A rank is one of a worker.                                              *)
LEMMA UnitIs ==
  /\ \A u \in Units : /\ u = <<u[1], u[2]>> /\ u[1] \in AllWorkers
                      /\ u[2] \in 1 .. Dp[PoolOf(u[1])] /\ u \in Ranks(PoolOf(u[1]))
  /\ \A w \in AllWorkers : \A k \in 1 .. Dp[PoolOf(w)] : <<w, k>> \in Ranks(PoolOf(w))
  /\ \A p \in Pool : Ranks(p) \subseteq Units /\ \A u \in Ranks(p) : PoolOf(u[1]) = p
  /\ \A u \in Ranks(Prefill) : u \notin Ranks(Decode)
PROOF
  <1>1. \A p \in Pool : Ranks(p) \subseteq Units
    BY DEF Units, Pool, Prefill, Decode
  <1>2. \A p \in Pool : \A u \in Ranks(p) :
          u = <<u[1], u[2]>> /\ u[1] \in WorkersOf(p) /\ u[2] \in 1 .. Dp[p]
    BY DEF Ranks
  <1>3. \A p \in Pool : \A u \in Ranks(p) : PoolOf(u[1]) = p /\ u[1] \in AllWorkers
    BY <1>2, PoolIs, WorkersAre
  <1>4. \A u \in Units : \E p \in Pool : u \in Ranks(p)
    BY DEF Units, Pool, Prefill, Decode
  <1>5. \A w \in AllWorkers : \A k \in 1 .. Dp[PoolOf(w)] : <<w, k>> \in Ranks(PoolOf(w))
    BY PoolIs DEF Ranks
  <1>6. \A u \in Ranks(Prefill) : u \notin Ranks(Decode)
    <2>1. Prefill \in Pool /\ Decode \in Pool /\ Prefill # Decode
      BY DEF Prefill, Decode, Pool
    <2> QED
      BY <1>3, <2>1
  <1> QED
    BY <1>1, <1>2, <1>3, <1>4, <1>5, <1>6

-----------------------------------------------------------------------------
(* The handler under way.                                                  *)

(* The call that a handler is at.                                          *)
LEMMA CallIs ==
  ASSUME PoolsTypeOK, HandlerOK, ~ Idle
  PROVE  /\ Head(todo) \in CallType /\ Len(todo) \in {1, 2} /\ DOMAIN todo = 1 .. Len(todo)
         /\ Head(todo) = todo[1]
         /\ W \in AllWorkers /\ P \in Pool /\ W \in WorkersOf(P) /\ P = PoolOf(W)
         /\ Head(todo).rank \in 1 .. Dp[P] /\ U \in Ranks(P) /\ U \in Units
         /\ U[1] = W /\ U[2] = Head(todo).rank
         /\ I \in Nat \ {0} /\ Head(todo).budget \in Nat /\ Head(todo).seqs \in Nat
         /\ Head(todo).rank \in Nat
PROOF
  <1>1. todo \in Seq(CallType) /\ todo # <<>> /\ Len(todo) <= 2
    BY DEF PoolsTypeOK, HandlerOK, Idle
  <1>2. Head(todo) \in CallType /\ Head(todo) = todo[1]
    BY <1>1, HeadTailProperties
  <1>3. Len(todo) \in Nat /\ DOMAIN todo = 1 .. Len(todo) /\ Len(todo) # 0
    BY <1>1, LenProperties, EmptySeq
  <1>4. /\ Head(todo).w \in AllWorkers /\ Head(todo).i \in Nat \ {0} /\ Head(todo).budget \in Nat
        /\ Head(todo).seqs \in Nat /\ Head(todo).rank \in Nat
    BY <1>2 DEF CallType
  <1>5. P \in Pool /\ W \in WorkersOf(P)
    BY <1>4, PoolIs DEF P, W
  <1>6. Head(todo).rank \in 1 .. Dp[P]
    BY DEF HandlerOK
  <1>7. U \in Ranks(P) /\ U \in Units /\ U[1] = W /\ U[2] = Head(todo).rank
    BY <1>4, <1>5, <1>6, UnitIs DEF U, W, P
  <1> QED
    BY <1>1, <1>2, <1>3, <1>4, <1>5, <1>6, <1>7 DEF W, I, P

(* A call gives way to the next one of the same handler.                   *)
LEMMA BecomesIs ==
  ASSUME PoolsTypeOK, HandlerOK, ~ Idle, NEW call \in CallType, Becomes(call)
  PROVE  /\ todo' \in Seq(CallType) /\ todo' # <<>> /\ Head(todo') = call
         /\ Len(todo') = Len(todo) /\ DOMAIN todo' = DOMAIN todo
         /\ todo'[1] = call /\ \A i \in DOMAIN todo : i > 1 => todo'[i] = todo[i]
PROOF
  <1>1. todo \in Seq(CallType) /\ todo # <<>>
    BY DEF PoolsTypeOK, Idle
  <1> DEFINE t == Tail(todo)
  <1>2. t \in Seq(CallType) /\ Len(t) = Len(todo) - 1 /\ \A i \in 1 .. Len(todo) - 1 : t[i] = todo[i + 1]
    BY <1>1, HeadTailProperties
  <1>3. Len(todo) \in Nat \ {0} /\ DOMAIN todo = 1 .. Len(todo)
    BY <1>1, LenProperties, EmptySeq
  <1>4. todo' = <<call>> \o t
    BY DEF Becomes
  <1> HIDE DEF t
  <1>5. /\ todo' \in Seq(CallType) /\ Len(todo') = Len(t) + 1 /\ todo'[1] = call
        /\ DOMAIN todo' = 1 .. Len(t) + 1
        /\ \A i \in 1 .. Len(t) : todo'[i + 1] = t[i]
    BY <1>2, <1>4, PushFront
  <1>6. \A i \in DOMAIN todo : i > 1 => todo'[i] = todo[i]
    <2> SUFFICES ASSUME NEW i \in 1 .. Len(todo), i > 1
                 PROVE  todo'[i] = todo[i]
      BY <1>3
    <2>1. i - 1 \in 1 .. Len(t) /\ (i - 1) + 1 = i
      BY <1>2, <1>3
    <2>2. todo'[(i - 1) + 1] = t[i - 1] /\ t[i - 1] = todo[(i - 1) + 1]
      BY <1>2, <1>5, <2>1
    <2> QED
      BY <2>1, <2>2
  <1>7. todo' # <<>>
    BY <1>2, <1>3, <1>5
  <1>8. Head(todo') = call
    BY <1>5, <1>7, HeadTailProperties
  <1> QED
    BY <1>2, <1>3, <1>5, <1>6, <1>7, <1>8

(* A call is over.                                                         *)
LEMMA PoppedIs ==
  ASSUME PoolsTypeOK, HandlerOK, ~ Idle, todo' = Tail(todo)
  PROVE  /\ todo' \in Seq(CallType) /\ Len(todo') <= 2
         /\ \A i \in DOMAIN todo' : /\ todo'[i].do = "try" /\ todo'[i].rank = 1
                                   /\ i + 1 \in DOMAIN todo /\ todo'[i] = todo[i + 1]
         /\ todo' # <<>> => Head(todo').do = "try" /\ Head(todo') = todo[2] /\ 2 \in DOMAIN todo
         /\ \A i \in DOMAIN todo : i = 1 \/ \E j \in DOMAIN todo' : todo'[j] = todo[i]
PROOF
  <1>1. todo \in Seq(CallType) /\ todo # <<>> /\ Len(todo) <= 2 /\ \A i \in DOMAIN todo : i > 1 => todo[i].do = "try" /\ todo[i].rank = 1
    BY DEF PoolsTypeOK, Idle, HandlerOK
  <1>2. todo' \in Seq(CallType) /\ Len(todo') = Len(todo) - 1 /\ \A i \in 1 .. Len(todo) - 1 : todo'[i] = todo[i + 1]
    BY <1>1, HeadTailProperties
  <1>3. Len(todo) \in Nat \ {0} /\ DOMAIN todo = 1 .. Len(todo) /\ DOMAIN todo' = 1 .. Len(todo')
    BY <1>1, <1>2, LenProperties, EmptySeq
  <1>4. ASSUME NEW i \in DOMAIN todo'
        PROVE  /\ todo'[i].do = "try" /\ todo'[i].rank = 1
               /\ i + 1 \in DOMAIN todo /\ todo'[i] = todo[i + 1]
    <2>1. i \in 1 .. Len(todo) - 1 /\ i + 1 \in DOMAIN todo /\ i + 1 > 1
      BY <1>2, <1>3
    <2> QED
      BY <1>1, <1>2, <2>1
  <1>5. ASSUME todo' # <<>>
        PROVE  Head(todo').do = "try" /\ Head(todo') = todo[2] /\ 2 \in DOMAIN todo
    <2>1. Head(todo') = todo'[1] /\ Len(todo') # 0
      BY <1>2, <1>5, HeadTailProperties, EmptySeq
    <2>2. 1 \in DOMAIN todo' /\ 1 + 1 = 2
      BY <1>2, <1>3, <2>1
    <2> QED
      BY <1>4, <2>1, <2>2
  <1>6. ASSUME NEW i \in DOMAIN todo, i # 1
        PROVE  \E j \in DOMAIN todo' : todo'[j] = todo[i]
    <2>1. i - 1 \in DOMAIN todo' /\ (i - 1) + 1 = i
      BY <1>2, <1>3, <1>6
    <2> QED
      BY <1>4, <2>1
  <1> QED
    BY <1>1, <1>2, <1>3, <1>4, <1>5, <1>6
(* Nobody in the handler tries w.                                          *)
Untried(w) == \A i \in DOMAIN todo : todo[i].w # w

(* The handler goes on with another call for the same worker.              *)
LEMMA NextCall ==
  ASSUME PoolsTypeOK, HandlerOK, ~ Idle, NEW call \in CallType, Becomes(call), call.w = W,
         call.rank \in 1 .. Dp[P], ~ busy'[W],
         call.do \in {"prefill", "admit"} => P = Prefill,
         call.do \in {"decode", "dec_admit"} => P = Decode,
         call.do = "commit" => At("commit")
  PROVE  /\ HandlerOK' /\ todo' \in Seq(CallType) /\ ~ Idle' /\ Head(todo') = call
         /\ W' = W /\ P' = P /\ U' = <<W, call.rank>> /\ I' = call.i
         /\ \A d : At(d)' <=> call.do = d
         /\ Forming' <=> call.do \notin {"try", "commit"}
         /\ \A w : InCommit(w)' <=> call.do = "commit" /\ w = W
         /\ \A w : Untried(w)' => Untried(w)
PROOF
  <1>1. /\ todo' \in Seq(CallType) /\ todo' # <<>> /\ Head(todo') = call
        /\ Len(todo') = Len(todo) /\ DOMAIN todo' = DOMAIN todo
        /\ todo'[1] = call /\ \A i \in DOMAIN todo : i > 1 => todo'[i] = todo[i]
    BY BecomesIs
  <1>2. /\ W' = W /\ U' = <<W, call.rank>> /\ I' = call.i /\ ~ Idle'
    BY <1>1 DEF W, U, I, Idle
  <1>3. P' = P
    BY <1>2 DEF P
  <1>4. \A d : At(d)' <=> call.do = d
    BY <1>1, <1>2 DEF At
  <1>5. Forming' <=> call.do \notin {"try", "commit"}
    BY <1>1, <1>2 DEF Forming
  <1>6. \A w : InCommit(w)' <=> call.do = "commit" /\ w = W
    BY <1>2, <1>4 DEF InCommit
  <1>7. DOMAIN todo = 1 .. Len(todo) /\ Len(todo) \in {1, 2} /\ Head(todo) = todo[1]
    BY CallIs
  <1>8. ASSUME NEW w, Untried(w)'
        PROVE  Untried(w)
    <2>1. ASSUME NEW i \in DOMAIN todo
          PROVE  todo[i].w # w
      <3>1. CASE i = 1
        BY <1>1, <1>7, <1>8, <2>1, <3>1 DEF Untried, W
      <3>2. CASE i # 1
        BY <1>1, <1>7, <1>8, <2>1, <3>2 DEF Untried
      <3> QED
        BY <3>1, <3>2
    <2> QED
      BY <2>1 DEF Untried
  <1>9. HandlerOK'
    <2>1. Len(todo') <= 2 /\ \A i \in DOMAIN todo' : i > 1 => todo'[i].do = "try" /\ todo'[i].rank = 1
      BY <1>1, <1>7 DEF HandlerOK
    <2>2. (~ Idle => Head(todo).rank \in 1 .. Dp[P])'
      BY <1>1, <1>3
    <2>3. (At("prefill") \/ At("admit") => P = Prefill)' /\ (At("decode") \/ At("dec_admit") => P = Decode)'
      BY <1>3, <1>4
    <2>4. (Forming \/ At("commit") => ~ busy[W])'
      BY <1>2
    <2>5. (At("commit") => Len(todo) = 2 /\ todo[2].w = W)'
      <3> SUFFICES ASSUME call.do = "commit"
                   PROVE  Len(todo') = 2 /\ todo'[2].w = W'
        BY <1>4
      <3>1. Len(todo) = 2 /\ todo[2].w = W
        BY DEF HandlerOK
      <3> QED
        BY <1>1, <1>2, <1>7, <3>1
    <2> QED
      BY <2>1, <2>2, <2>3, <2>4, <2>5 DEF HandlerOK
  <1> QED
    BY <1>1, <1>2, <1>3, <1>4, <1>5, <1>6, <1>8, <1>9

(* A call is over, and the handler tries another worker or ends.           *)
LEMMA PopCall ==
  ASSUME PoolsTypeOK, HandlerOK, ~ Idle, todo' = Tail(todo)
  PROVE  /\ HandlerOK' /\ todo' \in Seq(CallType)
         /\ \A d : At(d)' => d = "try"
         /\ ~ Forming' /\ \A w : ~ InCommit(w)'
         /\ \A w : Untried(w)' /\ w # W => Untried(w)
PROOF
  <1>1. /\ todo' \in Seq(CallType) /\ Len(todo') <= 2
        /\ \A i \in DOMAIN todo' : /\ todo'[i].do = "try" /\ todo'[i].rank = 1
                                  /\ i + 1 \in DOMAIN todo /\ todo'[i] = todo[i + 1]
        /\ todo' # <<>> => Head(todo').do = "try"
        /\ \A i \in DOMAIN todo : i = 1 \/ \E j \in DOMAIN todo' : todo'[j] = todo[i]
    BY PoppedIs
  <1>2. \A d : At(d)' => d = "try"
    BY <1>1 DEF At, Idle
  <1>3. ~ Forming' /\ \A w : ~ InCommit(w)'
    BY <1>1, <1>2 DEF Forming, InCommit, Idle
  <1>4. ASSUME NEW w, Untried(w)', w # W
        PROVE  Untried(w)
    <2>1. Head(todo) = todo[1]
      BY CallIs
    <2>2. \A j \in DOMAIN todo' : todo'[j].w # w
      BY <1>4 DEF Untried
    <2> QED
      BY <1>1, <1>4, <2>1, <2>2 DEF Untried, W
  <1>5. (~ Idle)' => (Head(todo).rank \in 1 .. Dp[P])'
    <2> SUFFICES ASSUME todo' # <<>>
                 PROVE  Head(todo').rank \in 1 .. Dp[PoolOf(Head(todo').w)]
      BY DEF Idle, P, W
    <2>1. Head(todo') = todo[2] /\ 2 \in DOMAIN todo
      BY PoppedIs
    <2>2. Head(todo').rank = 1
      BY <2>1 DEF HandlerOK
    <2>3. Head(todo') \in CallType
      BY <1>1, HeadTailProperties
    <2>4. Head(todo').w \in AllWorkers
      BY <2>3 DEF CallType
    <2>5. Dp[PoolOf(Head(todo').w)] \in Nat \ {0}
      BY <2>4, PoolIs, WorkersAre
    <2> QED
      BY <2>2, <2>5
  <1> QED
    BY <1>1, <1>2, <1>3, <1>4, <1>5 DEF HandlerOK
(* Calls.                                                                  *)
LEMMA CallType1 ==
  ASSUME NEW do \in {"try", "commit", "prefill", "admit", "decode", "dec_admit", "close"},
         NEW w \in AllWorkers, NEW k \in Nat
  PROVE  /\ Call(do, w, k) \in CallType
         /\ Call(do, w, k).do = do /\ Call(do, w, k).w = w /\ Call(do, w, k).rank = k
         /\ Call(do, w, k).i = 1 /\ Call(do, w, k).seqs = 0
         /\ Call(do, w, k).budget = TokCap[PoolOf(w)]
PROOF
  <1>1. TokCap[PoolOf(w)] \in Nat
    BY PoolIs, WorkersAre
  <1> QED
    BY <1>1 DEF Call, CallType

(* Steps of a loop: the next request, with or without an entry for it.     *)
LEMMA CallMoves ==
  ASSUME PoolsTypeOK, HandlerOK, ~ Idle
  PROVE  LET c == Head(todo)
             d == [c EXCEPT !.i = @ + 1]
         IN /\ d \in CallType /\ d.do = c.do /\ d.w = W /\ d.rank = c.rank /\ d.i = I + 1
            /\ d.budget = c.budget /\ d.seqs = c.seqs
            /\ \A tok \in Nat : tok <= c.budget =>
                 /\ Taken(tok) \in CallType /\ Taken(tok).do = c.do /\ Taken(tok).w = W
                 /\ Taken(tok).rank = c.rank /\ Taken(tok).i = I + 1
                 /\ Taken(tok).budget = c.budget - tok /\ Taken(tok).seqs = c.seqs + 1
PROOF
  <1> DEFINE c == Head(todo)
  <1>1. c \in CallType
    BY CallIs
  <1>2. c.i \in Nat \ {0} /\ c.budget \in Nat /\ c.seqs \in Nat
    BY <1>1 DEF CallType
  <1>3. c = [do |-> c.do, w |-> c.w, rank |-> c.rank, i |-> c.i, budget |-> c.budget, seqs |-> c.seqs]
    BY <1>1 DEF CallType
  <1> HIDE DEF c
  <1>4. [c EXCEPT !.i = @ + 1] =
          [do |-> c.do, w |-> c.w, rank |-> c.rank, i |-> c.i + 1, budget |-> c.budget, seqs |-> c.seqs]
    BY <1>3
  <1>5. [c EXCEPT !.i = @ + 1] \in CallType
    BY <1>1, <1>2, <1>4 DEF CallType
  <1>6. ASSUME NEW tok \in Nat, tok <= c.budget
        PROVE  /\ Taken(tok) = [do |-> c.do, w |-> c.w, rank |-> c.rank, i |-> c.i + 1,
                                budget |-> c.budget - tok, seqs |-> c.seqs + 1]
               /\ Taken(tok) \in CallType
    <2> DEFINE x == [c EXCEPT !.budget = @ - tok]
               y == [x EXCEPT !.seqs = @ + 1]
               z == [y EXCEPT !.i = @ + 1]
    <2>3. x = [do |-> c.do, w |-> c.w, rank |-> c.rank, i |-> c.i, budget |-> c.budget - tok, seqs |-> c.seqs]
      BY <1>3
    <2>4. Taken(tok) = z
      BY Zenon DEF Taken, c
    <2> HIDE DEF x
    <2>5. y = [do |-> c.do, w |-> c.w, rank |-> c.rank, i |-> c.i, budget |-> c.budget - tok, seqs |-> c.seqs + 1]
      BY <2>3
    <2> HIDE DEF y
    <2>6. z = [do |-> c.do, w |-> c.w, rank |-> c.rank, i |-> c.i + 1, budget |-> c.budget - tok, seqs |-> c.seqs + 1]
      BY <2>5
    <2>1. Taken(tok) = [do |-> c.do, w |-> c.w, rank |-> c.rank, i |-> c.i + 1,
                        budget |-> c.budget - tok, seqs |-> c.seqs + 1]
      BY <2>4, <2>6, Zenon
    <2>2. c.budget - tok \in Nat /\ c.seqs + 1 \in Nat /\ c.i + 1 \in Nat \ {0}
      BY <1>2, <1>6
    <2> QED
      BY <1>1, <2>1, <2>2 DEF CallType
  <1> QED
    BY <1>4, <1>5, <1>6 DEF c, W, I

(* The loop after one that ends.                                           *)
Following == [prefill |-> "admit", admit |-> "close", decode |-> "dec_admit", dec_admit |-> "close"]

(* What the next loop of form_batch starts with.                           *)
LEMMA LoopEndsIs ==
  ASSUME PoolsTypeOK, HandlerOK, LoopEnds, NEW do \in {"prefill", "admit", "decode", "dec_admit"}, At(do)
  PROVE  LET d == [Head(todo) EXCEPT !.do = Following[do], !.i = 1]
         IN /\ d \in CallType /\ d.do = Following[do] /\ d.w = W /\ d.rank = Head(todo).rank /\ d.i = 1
            /\ d.budget = Head(todo).budget /\ d.seqs = Head(todo).seqs
            /\ Becomes(d)
PROOF
  <1> DEFINE c == Head(todo)
             L == Loops(P)
             at == CHOOSE j \in DOMAIN L : L[j] = c.do
             n == Following[do]
  <1>1. ~ Idle /\ c.do = do
    BY DEF At
  <1>2. c \in CallType
    BY <1>1, CallIs
  <1>3. L = IF do \in {"prefill", "admit"} THEN <<"prefill", "admit", "close">> ELSE <<"decode", "dec_admit", "close">>
    BY DEF Loops, HandlerOK, Prefill, Decode
  <1>4. DOMAIN L = 1 .. 3
    BY <1>3
  <1>5. L[1 + at] = n
    <2>1. \E j \in DOMAIN L : L[j] = c.do
      <3>1. L[1] = c.do \/ L[2] = c.do
        BY <1>1, <1>3
      <3> QED
        BY <1>4, <3>1
    <2>2. at \in 1 .. 3 /\ L[at] = do
      BY <1>1, <1>4, <2>1
    <2> HIDE DEF at
    <2>3. at \in {1, 2}
      BY <1>3, <2>2
    <2> QED
      BY <1>3, <2>2, <2>3 DEF Following
  <1>6. Becomes([c EXCEPT !.do = n, !.i = 1])
    BY <1>5 DEF LoopEnds
  <1> HIDE DEF L, at
  <1>7. c = [do |-> c.do, w |-> c.w, rank |-> c.rank, i |-> c.i, budget |-> c.budget, seqs |-> c.seqs]
    BY <1>2 DEF CallType
  <1>8. n \in {"admit", "close", "dec_admit"}
    BY DEF Following
  <1> HIDE DEF c, n
  <1>9. [c EXCEPT !.do = n, !.i = 1] =
          [do |-> n, w |-> c.w, rank |-> c.rank, i |-> 1, budget |-> c.budget, seqs |-> c.seqs]
    <2> DEFINE x == [c EXCEPT !.do = n]
               y == [x EXCEPT !.i = 1]
    <2>1. x = [do |-> n, w |-> c.w, rank |-> c.rank, i |-> c.i, budget |-> c.budget, seqs |-> c.seqs]
      BY <1>7
    <2>2. [c EXCEPT !.do = n, !.i = 1] = y
      BY Zenon
    <2> HIDE DEF x
    <2>3. y = [do |-> n, w |-> c.w, rank |-> c.rank, i |-> 1, budget |-> c.budget, seqs |-> c.seqs]
      BY <2>1
    <2> QED
      BY <2>2, <2>3, Zenon
  <1>10. [c EXCEPT !.do = n, !.i = 1] \in CallType
    BY <1>2, <1>8, <1>9 DEF CallType
  <1> QED
    BY <1>6, <1>9, <1>10 DEF c, n, W

(* With no handler under way.                                              *)
LEMMA IdleIs ==
  ASSUME Idle
  PROVE  ~ Forming /\ (\A w : ~ InCommit(w)) /\ (\A d : ~ At(d)) /\ \A w : Untried(w)
PROOF
  <1>1. DOMAIN todo = {}
    BY DEF Idle
  <1> QED
    BY <1>1 DEF Forming, InCommit, At, Untried

(* A handler that starts.                                                  *)
LEMMA NewHandler ==
  ASSUME NEW c \in CallType, NEW d \in CallType, todo' \in {<<c>>, <<c, d>>},
         c.do \in {"try", "commit"}, c.rank = 1, d.do = "try", d.rank = 1,
         c.do = "commit" => ~ busy'[c.w] /\ todo' = <<c, d>> /\ d.w = c.w
  PROVE  /\ HandlerOK' /\ todo' \in Seq(CallType) /\ ~ Forming' /\ ~ Idle'
         /\ \A k : At(k)' <=> k = c.do
         /\ \A w : InCommit(w)' <=> c.do = "commit" /\ w = c.w
         /\ W' = c.w /\ I' = c.i
         /\ \A w : Untried(w)' => w # c.w /\ (Len(todo') = 2 => w # d.w)
PROOF
  <1>1. todo' \in Seq(CallType)
    <2>1. <<c>> \in Seq(CallType) /\ <<c, d>> \in Seq(CallType)
      OBVIOUS
    <2> QED
      BY <2>1
  <1>2. /\ Len(todo') \in {1, 2} /\ todo'[1] = c /\ todo' # <<>>
        /\ Len(todo') = 2 => todo'[2] = d
    <2>1. CASE todo' = <<c>>
      BY <2>1
    <2>2. CASE todo' = <<c, d>>
      BY <2>2
    <2> QED
      BY <2>1, <2>2
  <1>3. DOMAIN todo' = 1 .. Len(todo') /\ Head(todo') = c
    BY <1>1, <1>2, LenProperties, HeadTailProperties
  <1>4. ~ Idle' /\ W' = c.w /\ I' = c.i /\ \A k : At(k)' <=> k = c.do
    BY <1>2, <1>3 DEF Idle, W, I, At
  <1>5. ~ Forming' /\ \A w : InCommit(w)' <=> c.do = "commit" /\ w = c.w
    BY <1>3, <1>4 DEF Forming, InCommit
  <1>6. ASSUME NEW w, Untried(w)'
        PROVE  w # c.w /\ (Len(todo') = 2 => w # d.w)
    <2>1. 1 \in DOMAIN todo' /\ (Len(todo') = 2 => 2 \in DOMAIN todo')
      BY <1>2, <1>3
    <2> QED
      BY <1>2, <1>6, <2>1 DEF Untried
  <1>7. c.w \in AllWorkers
    BY DEF CallType
  <1>8. Dp[PoolOf(c.w)] \in Nat \ {0}
    BY <1>7, PoolIs, WorkersAre
  <1>9. HandlerOK'
    <2>1. \A i \in DOMAIN todo' : i > 1 => todo'[i].do = "try" /\ todo'[i].rank = 1
      BY <1>2, <1>3
    <2>2. (~ Idle => Head(todo).rank \in 1 .. Dp[P])'
      BY <1>3, <1>4, <1>8 DEF P
    <2>3. (Forming \/ At("commit") => ~ busy[W])'
      BY <1>4, <1>5
    <2>4. (At("prefill") \/ At("admit") => P = Prefill)' /\ (At("decode") \/ At("dec_admit") => P = Decode)'
      BY <1>4
    <2>5. Len(todo') <= 2
      <3>1. \A n \in {1, 2} : n <= 2
        OBVIOUS
      <3> QED
        BY <1>2, <3>1, Zenon
    <2>6. (At("commit") => Len(todo) = 2 /\ todo[2].w = W)'
      <3> SUFFICES ASSUME c.do = "commit"
                   PROVE  Len(todo') = 2 /\ todo'[2].w = W'
        BY <1>4
      <3>1. todo' = <<c, d>> /\ d.w = c.w
        OBVIOUS
      <3> QED
        BY <1>4, <3>1
    <2> QED
      BY <2>1, <2>2, <2>3, <2>4, <2>5, <2>6 DEF HandlerOK
  <1> QED
    BY <1>1, <1>4, <1>5, <1>6, <1>9

-----------------------------------------------------------------------------
(* Passes: the entries that are still to be committed.                     *)

(* What form_batch puts in a batch.                                        *)
Tickets == [req : Reqs, unit : Units, tokens : Nat]

(* An entry of a pass.                                                     *)
LEMMA EntryIs ==
  ASSUME PoolsTypeOK, NEW w \in AllWorkers
  PROVE  /\ batch[w] \in Seq(Tickets) /\ DOMAIN batch[w] = 1 .. Len(batch[w]) /\ Len(batch[w]) \in Nat
         /\ \A i \in DOMAIN batch[w] :
              /\ i \in Nat \ {0} /\ batch[w][i] \in Tickets
              /\ batch[w][i].req \in Reqs /\ batch[w][i].unit \in Units /\ batch[w][i].tokens \in Nat
         /\ Pass(w) \subseteq DOMAIN batch[w]
PROOF
  <1>1. batch[w] \in Seq(Tickets)
    BY DEF PoolsTypeOK, Tickets
  <1>2. Len(batch[w]) \in Nat /\ DOMAIN batch[w] = 1 .. Len(batch[w])
    BY <1>1, LenProperties
  <1>3. \A i \in 1 .. Len(batch[w]) : batch[w][i] \in Tickets
    BY <1>1, ElementOfSeq
  <1>4. \A e \in Tickets : e.req \in Reqs /\ e.unit \in Units /\ e.tokens \in Nat
    BY DEF Tickets
  <1>5. \A i \in 1 .. Len(batch[w]) : i \in Nat \ {0}
    BY <1>2
  <1>6. Pass(w) \subseteq DOMAIN batch[w]
    BY DEF Pass
  <1> QED
    BY <1>1, <1>2, <1>3, <1>4, <1>5, <1>6

(* A request that is in a pass is computed by the worker it is on, once.   *)
LEMMA OneEntry ==
  ASSUME PoolsTypeOK, BatchOK
  PROVE  /\ \A r : InPass(r) => r \in Reqs /\ st[r] \in {"prefill", "decode"}
         /\ \A w, v \in AllWorkers : \A i \in Pass(w), j \in Pass(v) :
              batch[w][i].req = batch[v][j].req => w = v /\ i = j
         /\ \A w \in AllWorkers : \A i \in Pass(w) :
              LET b == batch[w][i] IN
              /\ b.req \in Reqs /\ b.unit \in Units /\ b.unit[1] = w /\ b.req \in Served(b.unit) /\ InPass(b.req)
              /\ st[b.req] = "prefill" => unit[b.req] = b.unit /\ w \in WorkersOf(Prefill) /\ b.tokens \in 1 .. left[b.req]
              /\ st[b.req] = "decode" => decUnit[b.req] = b.unit /\ w \in WorkersOf(Decode)
              /\ st[b.req] \in {"prefill", "decode"}
PROOF
  <1>1. ASSUME NEW w \in AllWorkers, NEW i \in Pass(w)
        PROVE  LET b == batch[w][i] IN
               /\ b.req \in Reqs /\ b.unit \in Units /\ b.unit[1] = w /\ b.req \in Served(b.unit) /\ InPass(b.req)
               /\ st[b.req] = "prefill" => unit[b.req] = b.unit /\ w \in WorkersOf(Prefill) /\ b.tokens \in 1 .. left[b.req]
               /\ st[b.req] = "decode" => decUnit[b.req] = b.unit /\ w \in WorkersOf(Decode)
               /\ st[b.req] \in {"prefill", "decode"}
    <2> DEFINE b == batch[w][i]
    <2>1. b.req \in Reqs /\ b.unit \in Units
      BY EntryIs
    <2>2. InPass(b.req)
      BY DEF InPass
    <2>3. /\ b.unit[1] = w
          /\ \/ PoolOf(w) = Prefill /\ st[b.req] = "prefill" /\ unit[b.req] = b.unit /\ b.tokens \in 1 .. left[b.req]
             \/ PoolOf(w) = Decode /\ st[b.req] = "decode" /\ decUnit[b.req] = b.unit
      BY DEF BatchOK
    <2>4. w \in WorkersOf(PoolOf(w))
      BY PoolIs
    <2> HIDE DEF b
    <2>5. b.req \in Served(b.unit)
      BY <2>1, <2>3 DEF Served
    <2>6. CASE PoolOf(w) = Prefill /\ st[b.req] = "prefill" /\ unit[b.req] = b.unit /\ b.tokens \in 1 .. left[b.req]
      BY <2>1, <2>2, <2>3, <2>4, <2>5, <2>6 DEF b
    <2>7. CASE PoolOf(w) = Decode /\ st[b.req] = "decode" /\ decUnit[b.req] = b.unit
      BY <2>1, <2>2, <2>3, <2>4, <2>5, <2>7 DEF b
    <2> QED
      BY <2>3, <2>6, <2>7
  <1>2. \A r : InPass(r) => r \in Reqs /\ st[r] \in {"prefill", "decode"}
    BY <1>1 DEF InPass
  <1>3. ASSUME NEW w \in AllWorkers, NEW v \in AllWorkers, NEW i \in Pass(w), NEW j \in Pass(v),
               batch[w][i].req = batch[v][j].req
        PROVE  w = v /\ i = j
    <2> DEFINE b == batch[w][i]
               c == batch[v][j]
    <2>1. b.unit[1] = w /\ c.unit[1] = v /\ b.req = c.req /\ st[b.req] \in {"prefill", "decode"}
      BY <1>1, <1>3
    <2>2. (st[b.req] = "prefill" => unit[b.req] = b.unit) /\ (st[b.req] = "decode" => decUnit[b.req] = b.unit)
      BY <1>1
    <2>3. (st[c.req] = "prefill" => unit[c.req] = c.unit) /\ (st[c.req] = "decode" => decUnit[c.req] = c.unit)
      BY <1>1
    <2>4. w = v
      <3> HIDE DEF b, c
      <3> QED
        BY <2>1, <2>2, <2>3
    <2>5. j \in Pass(w) /\ batch[w][j].req = batch[w][i].req
      BY <1>3, <2>4
    <2> QED
      BY <2>4, <2>5 DEF BatchOK
  <1> QED
    BY <1>1, <1>2, <1>3

(* While a batch is formed, all of it is to be committed.                  *)
LEMMA FormingIs ==
  ASSUME PoolsTypeOK, HandlerOK, Forming
  PROVE  /\ ~ Idle /\ W \in AllWorkers /\ ~ busy[W] /\ ~ At("commit") /\ ~ At("try")
         /\ Pass(W) = DOMAIN batch[W] /\ \A w : ~ InCommit(w)
         /\ At("prefill") \/ At("admit") \/ At("decode") \/ At("dec_admit") \/ At("close")
         /\ P = Prefill \/ P = Decode
PROOF
  <1>1. ~ Idle /\ ~ At("commit") /\ ~ At("try")
    BY DEF Forming, At
  <1>2. W \in AllWorkers /\ Head(todo) \in CallType /\ P \in Pool
    BY <1>1, CallIs
  <1>3. ~ busy[W]
    BY DEF HandlerOK
  <1>4. Pass(W) = DOMAIN batch[W]
    BY DEF Pass
  <1>5. At("prefill") \/ At("admit") \/ At("decode") \/ At("dec_admit") \/ At("close")
    BY <1>1, <1>2 DEF At, CallType
  <1> QED
    BY <1>1, <1>2, <1>3, <1>4, <1>5 DEF InCommit, Pool, Prefill, Decode

(* A step of forming a batch that leaves it as it is.                      *)
LEMMA PassesForm ==
  ASSUME PoolsTypeOK, HandlerOK, Forming, (~ Idle)', Forming', W' = W, UNCHANGED <<batch, busy>>
  PROVE  /\ \A w : Pass(w)' = Pass(w) /\ \A r : InPass(r)' <=> InPass(r)
         /\ \A u : Computed(u)' = Computed(u)
PROOF
  <1>1. ~ At("commit") /\ ~ At("commit")'
    BY DEF Forming, At
  <1>2. ASSUME NEW w
        PROVE  Pass(w)' = Pass(w)
    BY <1>1 DEF Pass, InCommit
  <1>3. \A r : InPass(r)' <=> InPass(r)
    BY <1>2 DEF InPass
  <1>4. \A u : Computed(u)' = Computed(u)
    BY DEF Computed
  <1> QED
    BY <1>2, <1>3, <1>4

(* The entry of a request is pushed on the batch of its rank's worker.     *)
LEMMA EntryPushed ==
  ASSUME PoolsTypeOK, HandlerOK, Forming, (~ Idle)', Forming', W' = W, busy' = busy,
         NEW e \in Tickets, e.unit[1] = W, batch' = [batch EXCEPT ![W] = Append(@, e)]
  PROVE  /\ batch' \in [AllWorkers -> Seq(Tickets)]
         /\ LET n == Len(batch[W]) + 1 IN
            /\ Pass(W)' = Pass(W) \cup {n} /\ n \notin Pass(W) /\ batch'[W][n] = e
            /\ DOMAIN batch'[W] = DOMAIN batch[W] \cup {n} /\ n \in Nat \ {0}
         /\ \A i \in DOMAIN batch[W] : batch'[W][i] = batch[W][i]
         /\ \A w \in AllWorkers \ {W} : Pass(w)' = Pass(w) /\ batch'[w] = batch[w]
         /\ \A r : InPass(r)' <=> InPass(r) \/ r = e.req
         /\ \A u \in Units : u # e.unit => Computed(u)' = Computed(u)
         /\ Computed(e.unit)' = Computed(e.unit) \cup {e.req}
PROOF
  <1> DEFINE n == Len(batch[W]) + 1
             s == batch[W]
             t == Append(s, e)
  <1>1. W \in AllWorkers /\ Pass(W) = DOMAIN batch[W] /\ ~ At("commit")
    BY FormingIs
  <1>2. s \in Seq(Tickets) /\ DOMAIN s = 1 .. Len(s) /\ Len(s) \in Nat
    BY <1>1, EntryIs
  <1>3. batch \in [AllWorkers -> Seq(Tickets)]
    BY DEF PoolsTypeOK, Tickets
  <1>4. batch'[W] = t /\ \A w \in AllWorkers \ {W} : batch'[w] = batch[w]
    BY <1>1, <1>3
  <1>5. t \in Seq(Tickets) /\ DOMAIN t = 1 .. Len(s) + 1 /\ t[n] = e /\ \A i \in 1 .. Len(s) : t[i] = s[i]
    <2> HIDE DEF s
    <2> QED
      BY <1>2, PushBack DEF n, s
  <1>6. batch' \in [AllWorkers -> Seq(Tickets)]
    BY <1>1, <1>3, <1>5
  <1> HIDE DEF t
  <1>7. DOMAIN t = DOMAIN s \cup {n} /\ n \notin DOMAIN s /\ n \in Nat \ {0}
    <2> HIDE DEF s
    <2>1. n = Len(s) + 1
      BY DEF n, s
    <2>2. \A k \in Nat : 1 .. k + 1 = (1 .. k) \cup {k + 1} /\ k + 1 \notin 1 .. k /\ k + 1 \in Nat \ {0}
      OBVIOUS
    <2> QED
      BY <1>2, <1>5, <2>1, <2>2
  <1> HIDE DEF n
  <1>8. Pass(W)' = Pass(W) \cup {n}
    <2>1. Pass(W)' = DOMAIN batch'[W]
      BY DEF Pass
    <2> QED
      BY <1>1, <1>4, <1>7, <2>1
  <1>9. ~ At("commit")'
    BY DEF Forming, At
  <1>10. ASSUME NEW w \in AllWorkers \ {W}
         PROVE  Pass(w)' = Pass(w)
    BY <1>1, <1>4, <1>9 DEF Pass, InCommit
  <1>11. \A i \in DOMAIN s : batch'[W][i] = s[i]
    BY <1>2, <1>4, <1>5
  <1>12. \A r : InPass(r)' <=> InPass(r) \/ r = e.req
    <2>1. ASSUME NEW r, InPass(r)'
          PROVE  InPass(r) \/ r = e.req
      <3>1. PICK w \in AllWorkers : \E i \in Pass(w)' : batch'[w][i].req = r
        BY <2>1 DEF InPass
      <3>2. PICK i \in Pass(w)' : batch'[w][i].req = r
        BY <3>1
      <3>3. CASE w # W
        BY <1>4, <1>10, <3>2, <3>3 DEF InPass
      <3>4. CASE w = W /\ i # n
        BY <1>1, <1>8, <1>11, <3>2, <3>4 DEF InPass
      <3>5. CASE w = W /\ i = n
        BY <1>4, <1>5, <3>2, <3>5
      <3> QED
        BY <3>3, <3>4, <3>5
    <2>2. ASSUME NEW r, InPass(r)
          PROVE  InPass(r)'
      <3>1. PICK w \in AllWorkers : \E i \in Pass(w) : batch[w][i].req = r
        BY <2>2 DEF InPass
      <3>2. PICK i \in Pass(w) : batch[w][i].req = r
        BY <3>1
      <3>3. CASE w # W
        BY <1>4, <1>10, <3>2, <3>3 DEF InPass
      <3>4. CASE w = W
        BY <1>1, <1>8, <1>11, <3>2, <3>4 DEF InPass
      <3> QED
        BY <3>3, <3>4
    <2>3. InPass(e.req)'
      BY <1>1, <1>4, <1>5, <1>8 DEF InPass
    <2> QED
      BY <2>1, <2>2, <2>3
  <1>13. ASSUME NEW u \in Units
         PROVE  Computed(u)' = IF u = e.unit THEN Computed(u) \cup {e.req} ELSE Computed(u)
    <2>1. CASE u[1] # W
      <3>1. batch'[u[1]] = batch[u[1]]
        BY <1>4, <2>1, UnitIs
      <3> QED
        BY <2>1, <3>1 DEF Computed
    <2>2. CASE u[1] = W
      BY <1>4, <1>5, <1>7, <1>11, <2>2 DEF Computed
    <2> QED
      BY <2>1, <2>2
  <1>14. e.unit \in Units
    BY DEF Tickets
  <1> QED
    BY <1>1, <1>4, <1>5, <1>6, <1>7, <1>8, <1>10, <1>11, <1>12, <1>13, <1>14 DEF n

(* The entry at hand is committed, and the next one is at hand.            *)
LEMMA EntryCommitted ==
  ASSUME PoolsTypeOK, HandlerOK, BatchOK, At("commit"), I \in DOMAIN batch[W],
         At("commit")', W' = W, I' = I + 1, UNCHANGED <<batch, busy>>
  PROVE  /\ I \in Pass(W) /\ batch[W][I].req \in Reqs /\ InPass(batch[W][I].req)
         /\ \A w \in AllWorkers : Pass(w)' \subseteq Pass(w)
         /\ \A r : InPass(r)' <=> InPass(r) /\ r # batch[W][I].req
         /\ \A w : InCommit(w)' <=> InCommit(w)
PROOF
  <1>1. W \in AllWorkers /\ I \in Nat \ {0} /\ ~ Idle
    BY CallIs DEF At
  <1>2. ~ Forming /\ ~ Forming'
    BY DEF Forming, At
  <1>3. \A w : (InCommit(w) <=> w = W) /\ (InCommit(w)' <=> w = W)
    BY DEF InCommit
  <1>4. I \in Pass(W)
    BY <1>1, <1>3 DEF Pass
  <1>5. ASSUME NEW w \in AllWorkers
        PROVE  /\ Pass(w)' \subseteq Pass(w) /\ (w # W => Pass(w)' = Pass(w))
               /\ (w = W => Pass(w)' = Pass(w) \ {I})
    <2>0. \A i \in DOMAIN batch[w] : i \in Nat
      BY EntryIs
    <2>1. CASE w # W
      BY <1>2, <1>3, <2>1 DEF Pass
    <2>2. CASE w = W
      <3>1. ~ busy[W]
        BY DEF HandlerOK
      <3>2. Pass(W) = {i \in DOMAIN batch[W] : i >= I} /\ Pass(W)' = {i \in DOMAIN batch[W] : i >= I + 1}
        BY <1>2, <1>3, <3>1 DEF Pass
      <3>3. \A i \in Nat : i >= I + 1 <=> i >= I /\ i # I
        BY <1>1
      <3> QED
        BY <2>0, <2>2, <3>2, <3>3
    <2> QED
      BY <2>1, <2>2
  <1>6. batch[W][I].req \in Reqs /\ InPass(batch[W][I].req)
    BY <1>1, <1>4, OneEntry
  <1>7. \A r : InPass(r)' <=> InPass(r) /\ r # batch[W][I].req
    <2>1. ASSUME NEW r, InPass(r)'
          PROVE  InPass(r) /\ r # batch[W][I].req
      <3>1. PICK w \in AllWorkers : \E i \in Pass(w)' : batch'[w][i].req = r
        BY <2>1 DEF InPass
      <3>2. PICK i \in Pass(w)' : batch[w][i].req = r
        BY <3>1
      <3>3. i \in Pass(w) /\ (w = W => i # I)
        BY <1>5, <3>2
      <3>4. r # batch[W][I].req
        <4>1. \A j \in Pass(W) : batch[w][i].req = batch[W][j].req => w = W /\ i = j
          BY <1>1, <3>3, OneEntry
        <4> QED
          BY <1>4, <3>2, <3>3, <4>1
      <3> QED
        BY <3>2, <3>3, <3>4 DEF InPass
    <2>2. ASSUME NEW r, InPass(r), r # batch[W][I].req
          PROVE  InPass(r)'
      <3>1. PICK w \in AllWorkers : \E i \in Pass(w) : batch[w][i].req = r
        BY <2>2 DEF InPass
      <3>2. PICK i \in Pass(w) : batch[w][i].req = r
        BY <3>1
      <3>3. i \in Pass(w)'
        BY <1>5, <2>2, <3>2
      <3> QED
        BY <3>2, <3>3 DEF InPass
    <2> QED
      BY <2>1, <2>2
  <1> QED
    BY <1>3, <1>4, <1>5, <1>6, <1>7

(* Entries of other requests are what they were.                           *)
LEMMA BatchStays ==
  ASSUME PoolsTypeOK, BatchOK,
         \A w \in AllWorkers : Pass(w)' \subseteq Pass(w) /\ \A i \in Pass(w)' : batch'[w][i] = batch[w][i],
         \A r : InPass(r)' => st'[r] = st[r] /\ unit'[r] = unit[r] /\ decUnit'[r] = decUnit[r] /\ left'[r] = left[r]
  PROVE  BatchOK'
PROOF
  <1> SUFFICES ASSUME NEW w \in AllWorkers, NEW i \in Pass(w)'
               PROVE  LET b == batch[w][i] IN
                      /\ b.unit[1] = w
                      /\ \/ PoolOf(w) = Prefill /\ st'[b.req] = "prefill" /\ unit'[b.req] = b.unit /\ b.tokens \in 1 .. left'[b.req]
                         \/ PoolOf(w) = Decode /\ st'[b.req] = "decode" /\ decUnit'[b.req] = b.unit
                      /\ \A j \in Pass(w)' : batch'[w][j].req = b.req => i = j
    BY DEF BatchOK
  <1> DEFINE b == batch[w][i]
  <1>1. i \in Pass(w) /\ batch'[w][i] = b
    OBVIOUS
  <1>2. InPass(b.req)'
    BY <1>1 DEF InPass
  <1>3. /\ st'[b.req] = st[b.req] /\ unit'[b.req] = unit[b.req] /\ decUnit'[b.req] = decUnit[b.req]
        /\ left'[b.req] = left[b.req]
    BY <1>2
  <1>4. /\ b.unit[1] = w
        /\ \/ PoolOf(w) = Prefill /\ st[b.req] = "prefill" /\ unit[b.req] = b.unit /\ b.tokens \in 1 .. left[b.req]
           \/ PoolOf(w) = Decode /\ st[b.req] = "decode" /\ decUnit[b.req] = b.unit
        /\ \A j \in Pass(w) : batch[w][j].req = b.req => i = j
    BY <1>1 DEF BatchOK
  <1>5. \A j \in Pass(w)' : j \in Pass(w) /\ batch'[w][j] = batch[w][j]
    OBVIOUS
  <1> HIDE DEF b
  <1>6. \A j \in Pass(w)' : batch'[w][j].req = b.req => i = j
    BY <1>4, <1>5
  <1> QED
    BY <1>3, <1>4, <1>6 DEF b

(* The batch with one more entry, of a request that has none.              *)
LEMMA BatchGrows ==
  ASSUME PoolsTypeOK, HandlerOK, BatchOK, Forming, (~ Idle)', Forming', W' = W, busy' = busy,
         NEW e \in Tickets, e.unit[1] = W, batch' = [batch EXCEPT ![W] = Append(@, e)], ~ InPass(e.req),
         \/ P = Prefill /\ st'[e.req] = "prefill" /\ unit'[e.req] = e.unit /\ e.tokens \in 1 .. left'[e.req]
         \/ P = Decode /\ st'[e.req] = "decode" /\ decUnit'[e.req] = e.unit,
         \A r : r # e.req => st'[r] = st[r] /\ unit'[r] = unit[r] /\ decUnit'[r] = decUnit[r] /\ left'[r] = left[r]
  PROVE  BatchOK'
PROOF
  <1> DEFINE n == Len(batch[W]) + 1
  <1>1. /\ Pass(W)' = Pass(W) \cup {n} /\ n \notin Pass(W) /\ batch'[W][n] = e
        /\ \A i \in DOMAIN batch[W] : batch'[W][i] = batch[W][i]
        /\ \A w \in AllWorkers \ {W} : Pass(w)' = Pass(w) /\ batch'[w] = batch[w]
    BY EntryPushed
  <1>2. W \in AllWorkers /\ Pass(W) = DOMAIN batch[W] /\ PoolOf(W) = P
    BY FormingIs DEF P
  <1>3. \A w \in AllWorkers : \A i \in Pass(w) : batch'[w][i] = batch[w][i] /\ batch[w][i].req # e.req
    <2>1. \A w \in AllWorkers : \A i \in Pass(w) : batch'[w][i] = batch[w][i]
      BY <1>1, <1>2
    <2> QED
      BY <2>1 DEF InPass
  <1> HIDE DEF n
  <1> SUFFICES ASSUME NEW w \in AllWorkers, NEW i \in Pass(w)'
               PROVE  LET b == batch'[w][i] IN
                      /\ b.unit[1] = w
                      /\ \/ PoolOf(w) = Prefill /\ st'[b.req] = "prefill" /\ unit'[b.req] = b.unit /\ b.tokens \in 1 .. left'[b.req]
                         \/ PoolOf(w) = Decode /\ st'[b.req] = "decode" /\ decUnit'[b.req] = b.unit
                      /\ \A j \in Pass(w)' : batch'[w][j].req = b.req => i = j
    BY DEF BatchOK
  <1>4. CASE i \in Pass(w)
    <2> DEFINE b == batch[w][i]
    <2>1. batch'[w][i] = b /\ b.req # e.req
      BY <1>3, <1>4
    <2>2. /\ st'[b.req] = st[b.req] /\ unit'[b.req] = unit[b.req] /\ decUnit'[b.req] = decUnit[b.req]
          /\ left'[b.req] = left[b.req]
      BY <2>1
    <2>3. /\ b.unit[1] = w
          /\ \/ PoolOf(w) = Prefill /\ st[b.req] = "prefill" /\ unit[b.req] = b.unit /\ b.tokens \in 1 .. left[b.req]
             \/ PoolOf(w) = Decode /\ st[b.req] = "decode" /\ decUnit[b.req] = b.unit
          /\ \A j \in Pass(w) : batch[w][j].req = b.req => i = j
      BY <1>4 DEF BatchOK
    <2> HIDE DEF b
    <2>4. \A j \in Pass(w)' : batch'[w][j].req = b.req => i = j
      <3>1. \A j \in Pass(w)' : j \in Pass(w) \/ (w = W /\ j = n)
        BY <1>1
      <3> QED
        BY <1>1, <1>3, <2>1, <2>3, <3>1
    <2> QED
      BY <2>1, <2>2, <2>3, <2>4
  <1>5. CASE i \notin Pass(w)
    <2>1. w = W /\ i = n /\ batch'[w][i] = e
      BY <1>1, <1>5
    <2>2. ASSUME NEW j \in Pass(w)', batch'[w][j].req = e.req
          PROVE  i = j
      <3>1. j \in Pass(W) => batch'[W][j].req # e.req
        BY <1>2, <1>3
      <3> QED
        BY <1>1, <2>1, <2>2, <3>1
    <2> QED
      BY <1>2, <2>1, <2>2
  <1> QED
    BY <1>4, <1>5

(* What a request that is not done with its prefill has stored.            *)
Stored(r) ==
  /\ st[r] \in {"pending", "queued"} => left[r] = Isl[r]
  /\ st[r] = "prefill" => left[r] \in 1 .. Isl[r]
  /\ st[r] = "prefill" /\ ~ InPass(r) => alloc[r] = Isl[r] - left[r]

(* The tokens of an entry are stored, but are not computed yet.            *)
StoredIn(w) ==
  \A i \in Pass(w) : LET b == batch[w][i] IN alloc[b.req] = Isl[b.req] - left[b.req] + b.tokens

(* Requests in no pass of which nothing changes have stored what they had, *)
(* and those in one too.                                                   *)
LEMMA StoredStays ==
  ASSUME PoolsTypeOK, StoredOK,
         \A w \in AllWorkers : Pass(w)' \subseteq Pass(w) /\ \A i \in Pass(w)' : batch'[w][i] = batch[w][i],
         \A r : InPass(r)' => left'[r] = left[r] /\ alloc'[r] = alloc[r],
         \A r \in Reqs : \/ Stored(r)'
                         \/ /\ st'[r] = st[r] /\ left'[r] = left[r] /\ alloc'[r] = alloc[r]
                            /\ (InPass(r)' <=> InPass(r))
  PROVE  StoredOK'
PROOF
  <1>1. ASSUME NEW r \in Reqs
        PROVE  Stored(r)'
    <2>1. Stored(r)
      BY DEF StoredOK, Stored
    <2> QED
      BY <2>1 DEF Stored
  <1>2. ASSUME NEW w \in WorkersOf(Prefill)
        PROVE  StoredIn(w)'
    <2> SUFFICES ASSUME NEW i \in Pass(w)'
                 PROVE  alloc'[batch'[w][i].req] = Isl[batch'[w][i].req] - left'[batch'[w][i].req] + batch'[w][i].tokens
      BY DEF StoredIn
    <2>1. w \in AllWorkers
      BY WorkersAre DEF Pool, Prefill
    <2>2. i \in Pass(w) /\ batch'[w][i] = batch[w][i]
      BY <2>1
    <2> DEFINE b == batch[w][i]
    <2>3. \E v \in AllWorkers : \E j \in Pass(v)' : batch'[v][j].req = b.req
      BY <2>1, <2>2
    <2>4. alloc[b.req] = Isl[b.req] - left[b.req] + b.tokens
      BY <2>2 DEF StoredOK
    <2>5. PICK r : r = b.req
      OBVIOUS
    <2>6. InPass(r)'
      BY <2>3, <2>5 DEF InPass
    <2>7. left'[r] = left[r] /\ alloc'[r] = alloc[r]
      BY <2>6
    <2> QED
      BY <2>2, <2>4, <2>5, <2>7
  <1> QED
    BY <1>1, <1>2 DEF StoredOK, Stored, StoredIn

(* A new entry, of a request that now has stored what the entry computes.  *)
LEMMA StoredGrows ==
  ASSUME PoolsTypeOK, HandlerOK, BatchOK, StoredOK, Forming, (~ Idle)', Forming', W' = W, busy' = busy,
         NEW e \in Tickets, e.unit[1] = W, batch' = [batch EXCEPT ![W] = Append(@, e)], ~ InPass(e.req),
         P = Prefill => alloc'[e.req] = Isl[e.req] - left'[e.req] + e.tokens,
         \A r : r # e.req => st'[r] = st[r] /\ left'[r] = left[r] /\ alloc'[r] = alloc[r],
         Stored(e.req)'
  PROVE  StoredOK'
PROOF
  <1> DEFINE n == Len(batch[W]) + 1
  <1>1. /\ Pass(W)' = Pass(W) \cup {n} /\ n \notin Pass(W) /\ batch'[W][n] = e
        /\ \A i \in DOMAIN batch[W] : batch'[W][i] = batch[W][i]
        /\ \A w \in AllWorkers \ {W} : Pass(w)' = Pass(w) /\ batch'[w] = batch[w]
        /\ \A r : InPass(r)' <=> InPass(r) \/ r = e.req
    BY EntryPushed
  <1>2. W \in AllWorkers /\ Pass(W) = DOMAIN batch[W] /\ PoolOf(W) = P
    BY FormingIs DEF P
  <1> HIDE DEF n
  <1>3. ASSUME NEW r \in Reqs
        PROVE  Stored(r)'
    <2>1. CASE r = e.req
      BY <2>1
    <2>2. CASE r # e.req
      <3>1. st'[r] = st[r] /\ left'[r] = left[r] /\ alloc'[r] = alloc[r] /\ (InPass(r)' <=> InPass(r))
        BY <1>1, <2>2
      <3> QED
        BY <3>1 DEF StoredOK, Stored
    <2> QED
      BY <2>1, <2>2
  <1>4. ASSUME NEW w \in WorkersOf(Prefill)
        PROVE  StoredIn(w)'
    <2> SUFFICES ASSUME NEW i \in Pass(w)'
                 PROVE  alloc'[batch'[w][i].req] = Isl[batch'[w][i].req] - left'[batch'[w][i].req] + batch'[w][i].tokens
      BY DEF StoredIn
    <2>1. w \in AllWorkers /\ PoolOf(w) = Prefill
      BY WorkersAre, PoolIs DEF Pool, Prefill
    <2>2. CASE i \in Pass(w)
      <3> DEFINE b == batch[w][i]
      <3>1. batch'[w][i] = b
        BY <1>1, <1>2, <2>1, <2>2
      <3>2. b.req # e.req
        BY <2>1, <2>2 DEF InPass
      <3>3. alloc[b.req] = Isl[b.req] - left[b.req] + b.tokens
        BY <2>2 DEF StoredOK
      <3> HIDE DEF b
      <3> QED
        BY <3>1, <3>2, <3>3
    <2>3. CASE i \notin Pass(w)
      <3>1. w = W /\ i = n
        BY <1>1, <2>1, <2>3
      <3>2. batch'[w][i] = e /\ P = Prefill
        BY <1>1, <1>2, <2>1, <3>1
      <3> QED
        BY <3>2
    <2> QED
      BY <2>2, <2>3
  <1> QED
    BY <1>3, <1>4 DEF StoredOK, Stored, StoredIn

-----------------------------------------------------------------------------
(* Live trees.                                                             *)

(* The requests of a tree that are still to end.                           *)
Undone(t) == {r \in Reqs : TreeOf[r] = t /\ st[r] # "done"}

(* Nobody ends and no tree gets a worker: the counts are right still.      *)
LEMMA CountStays ==
  ASSUME CountOK, UNCHANGED <<sticky, trees, remaining>>, \A r \in Reqs : st'[r] = "done" <=> st[r] = "done"
  PROVE  CountOK'
PROOF
  <1>1. \A t : Undone(t)' = Undone(t)
    BY DEF Undone
  <1>2. \A p, w : Live(p, w)' = Live(p, w)
    BY DEF Live
  <1>3. \A t \in Trees : remaining'[t] = Cardinality(Undone(t)')
    BY <1>1 DEF CountOK, Undone
  <1>4. ASSUME NEW p \in Pool, NEW w \in WorkersOf(p)
        PROVE  trees'[w] = Cardinality(Live(p, w)')
    BY <1>2 DEF CountOK
  <1>5. ASSUME NEW p \in Pool, NEW t \in Trees, sticky'[t][p] # None
        PROVE  sticky'[t][p] \in WorkersOf(p) /\ ByHistory(p)
    BY <1>5 DEF CountOK
  <1>6. \A p : ByHistory(p)' <=> ByHistory(p)
    BY DEF ByHistory
  <1> QED
    BY <1>3, <1>4, <1>5, <1>6 DEF CountOK, Undone

(* The requests of a tree are on its workers still, and a new one is.      *)
LEMMA HomesStay ==
  ASSUME PoolsTypeOK, TreesExact, CountOK',
         \A p \in Pool, t \in Trees : sticky[t][p] # None => sticky'[t][p] = sticky[t][p],
         \A r \in Reqs : \/ unit'[r] = unit[r]
                         \/ ByHistory(Prefill) => unit'[r][1] = sticky'[TreeOf[r]][Prefill],
         \A r \in Reqs : \/ decUnit'[r] = decUnit[r]
                         \/ ByHistory(Decode) => decUnit'[r][1] = sticky'[TreeOf[r]][Decode]
  PROVE  TreesExact'
PROOF
  <1> SUFFICES ASSUME NEW p \in Pool, ByHistory(p)
               PROVE  /\ \A w \in WorkersOf(p) : trees'[w] = Cardinality(Live(p, w)')
                      /\ \A r \in Reqs :
                           LET u == IF p = Prefill THEN unit'[r] ELSE decUnit'[r]
                           IN u # None => u[1] = sticky'[TreeOf[r]][p]
    BY DEF TreesExact, ByHistory
  <1>1. \A w \in WorkersOf(p) : trees'[w] = Cardinality(Live(p, w)')
    BY DEF CountOK
  <1> DEFINE On(r) == IF p = Prefill THEN unit[r] ELSE decUnit[r]
             OnNext(r) == IF p = Prefill THEN unit'[r] ELSE decUnit'[r]
  <1>2. ASSUME NEW r \in Reqs, OnNext(r) # None
        PROVE  OnNext(r)[1] = sticky'[TreeOf[r]][p]
    <2>1. \/ OnNext(r) = On(r)
          \/ OnNext(r)[1] = sticky'[TreeOf[r]][p]
      BY DEF Pool, Prefill, Decode
    <2>2. CASE OnNext(r) = On(r)
      <3>1. On(r)[1] = sticky[TreeOf[r]][p]
        BY <1>2, <2>2 DEF TreesExact
      <3>2. On(r) \in Ranks(p)
        BY <1>2, <2>2 DEF PoolsTypeOK, Pool, Prefill, Decode
      <3>3. On(r)[1] \in AllWorkers
        BY <3>2, UnitIs
      <3>4. On(r)[1] # None
        BY <3>3, PoolsAssumption
      <3>5. TreeOf[r] \in Trees
        BY PoolsAssumption
      <3> QED
        BY <2>2, <3>1, <3>4, <3>5
    <2> QED
      BY <2>1, <2>2
  <1> QED
    BY <1>1, <1>2

(* A request ends, with its tree if it is the last one of it.              *)
LEMMA CountDone ==
  ASSUME PoolsTypeOK, CountOK, TreesExact, NEW r \in Reqs, st[r] # "done",
         st' = [st EXCEPT ![r] = "done"], AfterDone(r), UNCHANGED <<unit, decUnit>>
  PROVE  /\ CountOK' /\ TreesExact'
         /\ trees' \in [AllWorkers -> Nat] /\ remaining' \in [Trees -> Nat]
         /\ rr' \in [Pool -> Nat] /\ sticky' \in [Trees -> [Pool -> AllWorkers \cup {None}]]
PROOF
  <1> DEFINE t == TreeOf[r]
  <1>1. t \in Trees /\ IsFiniteSet(Reqs) /\ IsFiniteSet(Trees)
    BY PoolsAssumption
  <1>2. /\ remaining' = [remaining EXCEPT ![t] = @ - 1]
        /\ trees' = [w \in AllWorkers |-> trees[w] - (IF remaining[t] = 1 THEN LeavesWorker(t, w) ELSE 0)]
        /\ sticky' = sticky /\ rr' = rr
    BY DEF AfterDone
  <1>3. /\ remaining \in [Trees -> Nat] /\ trees \in [AllWorkers -> Nat] /\ rr \in [Pool -> Nat]
        /\ sticky \in [Trees -> [Pool -> AllWorkers \cup {None}]] /\ st \in [Reqs -> States]
    BY DEF PoolsTypeOK
  <1> HIDE DEF t
  <1>4. ASSUME NEW y \in Trees
        PROVE  IsFiniteSet(Undone(y)) /\ remaining[y] = Cardinality(Undone(y))
    BY <1>1, FS_Subset DEF CountOK, Undone
  <1>5. Undone(t)' = Undone(t) \ {r} /\ r \in Undone(t)
    BY <1>1, <1>3 DEF Undone, t
  <1>6. \A y \in Trees \ {t} : Undone(y)' = Undone(y)
    BY <1>3 DEF Undone, t
  <1>7. Cardinality(Undone(t)) \in Nat \ {0} /\ Cardinality(Undone(t) \ {r}) = Cardinality(Undone(t)) - 1
    <2>1. IsFiniteSet(Undone(t))
      BY <1>1, <1>4
    <2>2. Cardinality(Undone(t) \ {r}) = Cardinality(Undone(t)) - 1
      BY <1>5, <2>1, FS_RemoveElement
    <2>3. Undone(t) # {}
      BY <1>5
    <2>4. Cardinality(Undone(t)) \in Nat /\ Cardinality(Undone(t)) # 0
      BY <2>1, <2>3, FS_CardinalityType, FS_EmptySet
    <2> QED
      BY <2>2, <2>4
  <1>8. remaining'[t] = remaining[t] - 1 /\ \A y \in Trees \ {t} : remaining'[y] = remaining[y]
    BY <1>1, <1>2, <1>3
  <1>9. remaining' \in [Trees -> Nat] /\ \A y \in Trees : remaining'[y] = Cardinality(Undone(y)')
    <2>1. ASSUME NEW y \in Trees
          PROVE  remaining'[y] = Cardinality(Undone(y)') /\ remaining'[y] \in Nat
      <3>1. CASE y = t
        <4>1. remaining[t] = Cardinality(Undone(t))
          BY <1>1, <1>4
        <4> QED
          BY <1>5, <1>7, <1>8, <3>1, <4>1
      <3>2. CASE y # t
        BY <1>3, <1>4, <1>6, <1>8, <3>2
      <3> QED
        BY <3>1, <3>2
    <2>2. remaining' = [y \in Trees |-> remaining'[y]]
      BY <1>2, <1>3
    <2> QED
      BY <2>1, <2>2
  <1>10. ASSUME NEW p \in Pool, NEW w \in WorkersOf(p)
         PROVE  trees'[w] = Cardinality(Live(p, w)') /\ trees'[w] \in Nat
    <2> DEFINE L == Live(p, w)
    <2>1. w \in AllWorkers /\ trees[w] = Cardinality(L) /\ trees[w] \in Nat
      BY <1>3, WorkersAre DEF CountOK
    <2>2. IsFiniteSet(L)
      BY <1>1, FS_Subset DEF Live
    <2>3. trees'[w] = trees[w] - (IF remaining[t] = 1 THEN LeavesWorker(t, w) ELSE 0)
      BY <1>2, <2>1
    <2>4. LeavesWorker(t, w) = IF sticky[t][p] = w THEN 1 ELSE 0
      <3>1. ASSUME NEW q \in Pool, sticky[t][q] = w
            PROVE  q = p
        <4>1. w # None
          BY <2>1, PoolsAssumption
        <4>2. w \in WorkersOf(q)
          BY <1>1, <3>1, <4>1 DEF CountOK
        <4> QED
          BY <4>2, PoolIs
      <3>2. (\E q \in Pool : sticky[t][q] = w) <=> sticky[t][p] = w
        BY <3>1
      <3> QED
        BY <3>2 DEF LeavesWorker
    <2>5. remaining[t] \in Nat
      BY <1>1, <1>3
    <2>6. CASE remaining[t] = 1 /\ sticky[t][p] = w
      <3>1. t \in L /\ Live(p, w)' = L \ {t}
        <4>1. remaining'[t] = 0
          BY <1>8, <2>6
        <4> QED
          BY <1>1, <1>2, <1>8, <2>6, <4>1 DEF Live
      <3>2. Cardinality(L \ {t}) = Cardinality(L) - 1
        BY <2>2, <3>1, FS_RemoveElement
      <3>3. trees'[w] = trees[w] - 1
        BY <2>3, <2>4, <2>6
      <3>4. Cardinality(L \ {t}) \in Nat
        BY <2>2, FS_Subset, FS_CardinalityType
      <3> HIDE DEF L
      <3> QED
        BY <2>1, <3>1, <3>2, <3>3, <3>4
    <2>7. CASE ~ (remaining[t] = 1 /\ sticky[t][p] = w)
      <3>1. Live(p, w)' = L
        <4>1. ASSUME NEW y \in Trees, sticky[y][p] = w
              PROVE  remaining'[y] > 0 <=> remaining[y] > 0
          <5>1. CASE y = t
            <6>1. remaining[t] # 1
              BY <2>7, <4>1, <5>1
            <6>2. remaining[t] = Cardinality(Undone(t))
              BY <1>1, <1>4
            <6> QED
              BY <1>7, <1>8, <5>1, <6>1, <6>2
          <5>2. CASE y # t
            BY <1>8, <5>2
          <5> QED
            BY <5>1, <5>2
        <4> QED
          BY <1>2, <4>1 DEF Live
      <3>2. trees'[w] = trees[w]
        BY <2>1, <2>3, <2>4, <2>7
      <3> QED
        BY <2>1, <3>1, <3>2
    <2> QED
      BY <2>6, <2>7
  <1>11. trees' \in [AllWorkers -> Nat]
    <2>1. \A w \in AllWorkers : trees'[w] \in Nat
      BY <1>10, PoolIs
    <2>2. trees' = [w \in AllWorkers |-> trees'[w]]
      BY <1>2
    <2> QED
      BY <2>1, <2>2
  <1>12. CountOK'
    <2>1. \A p \in Pool, y \in Trees : sticky'[y][p] # None => sticky'[y][p] \in WorkersOf(p) /\ ByHistory(p)
      BY <1>2 DEF CountOK
    <2>2. \A p : ByHistory(p)' <=> ByHistory(p)
      BY DEF ByHistory
    <2> QED
      BY <1>9, <1>10, <2>1, <2>2 DEF CountOK, Undone
  <1>13. TreesExact'
    BY <1>2, <1>12, HomesStay
  <1> QED
    BY <1>2, <1>3, <1>9, <1>11, <1>12, <1>13

(* A request is routed to a worker, which is its tree's from now on.       *)
LEMMA CountRouted ==
  ASSUME PoolsTypeOK, CountOK, NEW p \in Pool, NEW r \in Reqs, st[r] # "done", NEW w \in WorkersOf(p),
         Routed(p, r, w), UNCHANGED remaining, \A x \in Reqs : st'[x] = "done" <=> st[x] = "done"
  PROVE  /\ CountOK'
         /\ trees' \in [AllWorkers -> Nat]
         /\ rr' \in [Pool -> Nat] /\ sticky' \in [Trees -> [Pool -> AllWorkers \cup {None}]]
         /\ \A q \in Pool, t \in Trees : sticky[t][q] # None => sticky'[t][q] = sticky[t][q]
         /\ ByHistory(p) => sticky'[TreeOf[r]][p] = w
PROOF
  <1> DEFINE t == TreeOf[r]
  <1>1. t \in Trees /\ IsFiniteSet(Reqs) /\ IsFiniteSet(Trees) /\ w \in AllWorkers /\ w # None
    BY PoolsAssumption, WorkersAre
  <1>2. /\ remaining \in [Trees -> Nat] /\ trees \in [AllWorkers -> Nat] /\ rr \in [Pool -> Nat]
        /\ sticky \in [Trees -> [Pool -> AllWorkers \cup {None}]]
    BY DEF PoolsTypeOK
  <1>3. Advanced(p) \in [Pool -> Nat]
    <2>1. Len(Workers[p]) \in Nat \ {0}
      BY WorkersAre
    <2>2. \A n \in Nat, m \in Nat \ {0} : (n + 1) % m \in Nat
      OBVIOUS
    <2>3. (rr[p] + 1) % Len(Workers[p]) \in Nat
      BY <1>2, <2>1, <2>2
    <2> QED
      BY <1>2, <2>3 DEF Advanced
  <1>4. CASE UNCHANGED <<sticky, trees>> /\ (ByHistory(p) => sticky[t][p] = w) /\ rr' \in {rr, Advanced(p)}
    <2>1. CountOK'
      BY <1>4, CountStays
    <2> QED
      BY <1>2, <1>3, <1>4, <2>1
  <1>5. CASE /\ ByHistory(p) /\ sticky[t][p] = None /\ rr' = Advanced(p)
             /\ sticky' = [sticky EXCEPT ![t][p] = w] /\ trees' = [trees EXCEPT ![w] = @ + 1]
    <2> HIDE DEF t
    <2>1. sticky' \in [Trees -> [Pool -> AllWorkers \cup {None}]] /\ trees' \in [AllWorkers -> Nat]
      BY <1>1, <1>2, <1>5
    <2>2. sticky'[t][p] = w /\ \A q \in Pool, y \in Trees : y # t \/ q # p => sticky'[y][q] = sticky[y][q]
      BY <1>1, <1>2, <1>5
    <2>3. trees'[w] = trees[w] + 1 /\ \A v \in AllWorkers : v # w => trees'[v] = trees[v]
      BY <1>1, <1>2, <1>5
    <2>4. remaining[t] > 0
      <3>1. r \in Undone(t) /\ IsFiniteSet(Undone(t))
        BY <1>1, FS_Subset DEF Undone, t
      <3>2. Cardinality(Undone(t)) \in Nat /\ Cardinality(Undone(t)) # 0
        BY <3>1, FS_CardinalityType, FS_EmptySet
      <3>3. remaining[t] = Cardinality(Undone(t))
        BY <1>1 DEF CountOK, Undone
      <3> QED
        BY <3>2, <3>3
    <2>5. ASSUME NEW q \in Pool, NEW v \in WorkersOf(q)
          PROVE  trees'[v] = Cardinality(Live(q, v)')
      <3>1. v \in AllWorkers /\ trees[v] = Cardinality(Live(q, v)) /\ trees[v] \in Nat
        BY <1>2, WorkersAre DEF CountOK
      <3>2. CASE v = w
        <4>1. q = p
          BY <3>2, PoolIs
        <4>2. t \notin Live(q, v) /\ Live(q, v)' = Live(q, v) \cup {t}
          BY <1>1, <1>5, <2>2, <2>4, <3>2, <4>1 DEF Live
        <4>3. IsFiniteSet(Live(q, v))
          BY <1>1, FS_Subset DEF Live
        <4>4. Cardinality(Live(q, v) \cup {t}) = Cardinality(Live(q, v)) + 1
          BY <4>2, <4>3, FS_AddElement
        <4> QED
          BY <2>3, <3>1, <3>2, <4>2, <4>4
      <3>3. CASE v # w
        <4>1. v # None
          BY <3>1, PoolsAssumption
        <4>2. Live(q, v)' = Live(q, v)
          BY <1>1, <1>5, <2>2, <3>3, <4>1 DEF Live
        <4> QED
          BY <2>3, <3>1, <3>3, <4>2
      <3> QED
        BY <3>2, <3>3
    <2>6. \A y \in Trees : remaining'[y] = Cardinality(Undone(y)')
      <3>1. \A y \in Trees : Undone(y)' = Undone(y)
        BY DEF Undone
      <3> QED
        BY <3>1 DEF CountOK, Undone
    <2>7. \A q \in Pool, y \in Trees : sticky'[y][q] # None => sticky'[y][q] \in WorkersOf(q) /\ ByHistory(q)
      BY <1>5, <2>2 DEF CountOK
    <2>8. \A q : ByHistory(q)' <=> ByHistory(q)
      BY DEF ByHistory
    <2>9. CountOK'
      BY <2>5, <2>6, <2>7, <2>8 DEF CountOK, Undone
    <2>10. \A q \in Pool, y \in Trees : sticky[y][q] # None => sticky'[y][q] = sticky[y][q]
      BY <1>5, <2>2
    <2> QED
      BY <1>3, <1>5, <2>1, <2>2, <2>9, <2>10 DEF t
  <1>6. \/ UNCHANGED <<sticky, trees>> /\ (ByHistory(p) => sticky[t][p] = w) /\ rr' \in {rr, Advanced(p)}
        \/ /\ ByHistory(p) /\ sticky[t][p] = None /\ rr' = Advanced(p)
           /\ sticky' = [sticky EXCEPT ![t][p] = w] /\ trees' = [trees EXCEPT ![w] = @ + 1]
    BY DEF Routed, router
  <1> QED
    BY <1>4, <1>5, <1>6

-----------------------------------------------------------------------------
(* Room.                                                                   *)

(* What a request takes of the room of a rank.                             *)
Share(u, r) ==
  IF u \in Ranks(Prefill) THEN (IF r \in Holding(u) THEN alloc[r] ELSE 0)
  ELSE (IF r \in Reserving(u) THEN decAlloc[r] ELSE 0)

(* The sum of Pools is the one the lemmas of Facts are   about.           *)
LEMMA SumIs ==
  ASSUME NEW w, NEW S
  PROVE  Sum(w, S) = SumOver(w, S)
PROOF
  BY DEF Sum, SumOver

(* One term of a sum changes, appears or goes away.                        *)
LEMMA SumStep ==
  ASSUME NEW w, NEW v, NEW S, NEW T, IsFiniteSet(S), IsFiniteSet(T), NEW x, S \ {x} = T \ {x},
         \A y \in S : w[y] \in Int, \A y \in T : v[y] \in Int, \A y \in S \ {x} : v[y] = w[y]
  PROVE  SumOver(v, T) = SumOver(w, S) - (IF x \in S THEN w[x] ELSE 0) + (IF x \in T THEN v[x] ELSE 0)
PROOF
  <1> DEFINE R == S \ {x}
  <1>1. IsFiniteSet(R)
    BY FS_Subset
  <1>2. SumOver(w, R) = SumOver(v, R)
    BY <1>1, SumSame
  <1>3. SumOver(w, S) = SumOver(w, R) + (IF x \in S THEN w[x] ELSE 0) /\ SumOver(w, R) \in Int
    <2>1. SumOver(w, R) \in Int
      BY <1>1, SumInt
    <2>2. CASE x \in S
      BY <2>1, <2>2, SumTakeOut
    <2>3. CASE x \notin S
      <3>1. R = S
        BY <2>3
      <3> HIDE DEF R
      <3> QED
        BY <2>1, <2>3, <3>1
    <2> QED
      BY <2>2, <2>3
  <1>4. SumOver(v, T) = SumOver(v, R) + (IF x \in T THEN v[x] ELSE 0)
    <2>1. SumOver(v, R) \in Int /\ R = T \ {x}
      BY <1>2, <1>3
    <2>2. CASE x \in T
      <3>1. SumOver(v, T) = SumOver(v, T \ {x}) + v[x]
        BY <2>2, SumTakeOut
      <3>2. SumOver(v, T) = SumOver(v, R) + v[x]
        BY <2>1, <3>1
      <3> HIDE DEF R
      <3> QED
        BY <2>2, <3>2
    <2>3. CASE x \notin T
      <3>1. R = T
        BY <2>1, <2>3
      <3>2. SumOver(v, R) \in Int
        BY <2>1
      <3> HIDE DEF R
      <3> QED
        BY <2>3, <3>1, <3>2
    <2> QED
      BY <2>2, <2>3
  <1>5. (IF x \in S THEN w[x] ELSE 0) \in Int /\ (IF x \in T THEN v[x] ELSE 0) \in Int
    OBVIOUS
  <1> HIDE DEF R
  <1>6. \A a, b, c, d, e \in Int : a = b + c /\ d = b + e => d = a - c + e
    OBVIOUS
  <1>7. SumOver(v, T) \in Int /\ SumOver(w, S) \in Int
    BY <1>2, <1>3, <1>4, <1>5
  <1> QED
    BY <1>2, <1>3, <1>4, <1>5, <1>6, <1>7

(* The room of a rank is what its requests take of it.                     *)
LEMMA RoomIs ==
  ASSUME PoolsTypeOK, RoomExact
  PROVE  /\ \A u \in Ranks(Prefill) : /\ used[u] = SumOver(alloc, Holding(u)) /\ used[u] <= Cap[Prefill]
                                      /\ Holding(u) = {} => used[u] = 0
         /\ \A u \in Ranks(Decode) : /\ used[u] = SumOver(decAlloc, Reserving(u)) /\ used[u] <= Cap[Decode]
                                     /\ Reserving(u) = {} => used[u] = 0
         /\ \A u \in Units : used[u] <= Cap[PoolOf(u[1])] /\ used[u] \in Int
PROOF
  <1>1. /\ \A u \in Ranks(Prefill) : used[u] = SumOver(alloc, Holding(u))
        /\ \A u \in Ranks(Decode) : used[u] = SumOver(decAlloc, Reserving(u))
    BY SumIs DEF RoomExact
  <1>2. \A p \in Pool : \A u \in Ranks(p) : used[u] <= Cap[p]
    BY DEF RoomExact
  <1>3. SumOver(alloc, {}) = 0 /\ SumOver(decAlloc, {}) = 0
    BY SumEmpty
  <1>4. \A u \in Units : used[u] <= Cap[PoolOf(u[1])] /\ used[u] \in Int
    BY <1>2, UnitIs, PoolIs DEF PoolsTypeOK
  <1> QED
    BY <1>1, <1>2, <1>3, <1>4 DEF Pool, Prefill, Decode

(* What one request takes changes, and the room of the ranks with it.      *)
LEMMA RoomStep ==
  ASSUME PoolsTypeOK, RoomExact, alloc' \in [Reqs -> Nat], decAlloc' \in [Reqs -> Nat],
         used' \in [Units -> Int], NEW r \in Reqs,
         \A x \in Reqs \ {r} : /\ st'[x] = st[x] /\ unit'[x] = unit[x] /\ decUnit'[x] = decUnit[x]
                               /\ alloc'[x] = alloc[x] /\ decAlloc'[x] = decAlloc[x],
         \A u \in Units : used'[u] = used[u] - Share(u, r) + Share(u, r)',
         \A u \in Units : used'[u] <= used[u] \/ used'[u] <= Cap[PoolOf(u[1])],
         st'[r] = "delivering" => alloc'[r] = Isl[r],
         st'[r] = "decode" => decAlloc'[r] = Isl[r] + Osl[r] - 1
  PROVE  RoomExact'
PROOF
  <1>0. IsFiniteSet(Reqs) /\ alloc \in [Reqs -> Nat] /\ decAlloc \in [Reqs -> Nat]
    BY PoolsAssumption DEF PoolsTypeOK
  <1>1. ASSUME NEW u \in Ranks(Prefill)
        PROVE  used'[u] = SumOver(alloc', Holding(u)')
    <2> DEFINE S == Holding(u)
               T == Holding(u)'
    <2>1. IsFiniteSet(S) /\ IsFiniteSet(T) /\ S \subseteq Reqs /\ T \subseteq Reqs
      BY <1>0, FS_Subset DEF Holding
    <2>2. S \ {r} = T \ {r}
      BY DEF Holding
    <2>3. u \in Units /\ used[u] = SumOver(alloc, S)
      BY UnitIs, RoomIs DEF Pool, Prefill
    <2>4. Share(u, r) = (IF r \in S THEN alloc[r] ELSE 0) /\ Share(u, r)' = (IF r \in T THEN alloc'[r] ELSE 0)
      BY DEF Share
    <2> HIDE DEF S, T
    <2>5. SumOver(alloc', T) = SumOver(alloc, S) - (IF r \in S THEN alloc[r] ELSE 0) + (IF r \in T THEN alloc'[r] ELSE 0)
      <3>1. \A y \in S \ {r} : alloc'[y] = alloc[y]
        BY <2>1
      <3>2. (\A y \in S : alloc[y] \in Int) /\ \A y \in T : alloc'[y] \in Int
        BY <1>0, <2>1
      <3> QED
        BY <2>1, <2>2, <3>1, <3>2, SumStep
    <2>6. used'[u] = used[u] - Share(u, r) + Share(u, r)'
      BY <2>3
    <2> QED
      BY <2>3, <2>4, <2>5, <2>6 DEF T
  <1>2. ASSUME NEW u \in Ranks(Decode)
        PROVE  used'[u] = SumOver(decAlloc', Reserving(u)')
    <2> DEFINE S == Reserving(u)
               T == Reserving(u)'
    <2>1. IsFiniteSet(S) /\ IsFiniteSet(T) /\ S \subseteq Reqs /\ T \subseteq Reqs
      BY <1>0, FS_Subset DEF Reserving
    <2>2. S \ {r} = T \ {r}
      BY DEF Reserving
    <2>3. u \in Units /\ used[u] = SumOver(decAlloc, S) /\ u \notin Ranks(Prefill)
      BY UnitIs, RoomIs DEF Pool, Decode
    <2>4. Share(u, r) = (IF r \in S THEN decAlloc[r] ELSE 0) /\ Share(u, r)' = (IF r \in T THEN decAlloc'[r] ELSE 0)
      BY <2>3 DEF Share
    <2> HIDE DEF S, T
    <2>5. SumOver(decAlloc', T) = SumOver(decAlloc, S) - (IF r \in S THEN decAlloc[r] ELSE 0) + (IF r \in T THEN decAlloc'[r] ELSE 0)
      <3>1. \A y \in S \ {r} : decAlloc'[y] = decAlloc[y]
        BY <2>1
      <3>2. (\A y \in S : decAlloc[y] \in Int) /\ \A y \in T : decAlloc'[y] \in Int
        BY <1>0, <2>1
      <3> QED
        BY <2>1, <2>2, <3>1, <3>2, SumStep
    <2>6. used'[u] = used[u] - Share(u, r) + Share(u, r)'
      BY <2>3
    <2> QED
      BY <2>3, <2>4, <2>5, <2>6 DEF T
  <1>3. ASSUME NEW p \in Pool, NEW u \in Ranks(p)
        PROVE  used'[u] <= Cap[p]
    <2>1. u \in Units /\ PoolOf(u[1]) = p
      BY UnitIs
    <2>2. used[u] <= Cap[p] /\ used[u] \in Int /\ Cap[p] \in Nat /\ used'[u] \in Int
      BY <2>1, RoomIs, WorkersAre
    <2>3. used'[u] <= used[u] \/ used'[u] <= Cap[p]
      BY <2>1
    <2> QED
      BY <2>2, <2>3
  <1>4. ASSUME NEW x \in Reqs
        PROVE  /\ st'[x] = "delivering" => alloc'[x] = Isl[x]
               /\ st'[x] = "decode" => decAlloc'[x] = Isl[x] + Osl[x] - 1
    <2>1. CASE x = r
      BY <2>1
    <2>2. CASE x # r
      BY <2>2 DEF RoomExact
    <2> QED
      BY <2>1, <2>2
  <1>5. /\ \A u \in Ranks(Prefill) : used'[u] = Sum(alloc', Holding(u)')
        /\ \A u \in Ranks(Decode) : used'[u] = Sum(decAlloc', Reserving(u)')
    BY <1>1, <1>2, SumIs
  <1> QED
    BY <1>3, <1>4, <1>5 DEF RoomExact

(* Nothing that takes room changes.                                        *)
LEMMA RoomStays ==
  ASSUME PoolsTypeOK, RoomExact, UNCHANGED <<used, alloc, decAlloc>>,
         \A u \in Ranks(Prefill) : Holding(u)' = Holding(u),
         \A u \in Ranks(Decode) : Reserving(u)' = Reserving(u),
         \A r \in Reqs : st'[r] \in {"delivering", "decode"} => st[r] = st'[r] \/ (st'[r] = "delivering" /\ alloc[r] = Isl[r])
  PROVE  RoomExact'
PROOF
  <1>1. \A u \in Ranks(Prefill) : used'[u] = SumOver(alloc', Holding(u)')
    BY RoomIs
  <1>2. \A u \in Ranks(Decode) : used'[u] = SumOver(decAlloc', Reserving(u)')
    BY RoomIs
  <1>3. \A p \in Pool : \A u \in Ranks(p) : used'[u] <= Cap[p]
    BY DEF RoomExact
  <1>4. ASSUME NEW x \in Reqs
        PROVE  /\ st'[x] = "delivering" => alloc'[x] = Isl[x]
               /\ st'[x] = "decode" => decAlloc'[x] = Isl[x] + Osl[x] - 1
    BY DEF RoomExact
  <1>5. /\ \A u \in Ranks(Prefill) : used'[u] = Sum(alloc', Holding(u)')
        /\ \A u \in Ranks(Decode) : used'[u] = Sum(decAlloc', Reserving(u)')
    BY <1>1, <1>2, SumIs
  <1> QED
    BY <1>3, <1>4, <1>5 DEF RoomExact

-----------------------------------------------------------------------------
(* Queues.                                                                 *)

(* A queue that holds a set of requests gains one, or loses its first one. *)
LEMMA HeldPush ==
  ASSUME NEW s \in Seq(Reqs), NEW X, Held(s, X), NEW r \in Reqs, r \notin X
  PROVE  /\ Append(s, r) \in Seq(Reqs) /\ Held(Append(s, r), X \cup {r})
         /\ <<r>> \o s \in Seq(Reqs) /\ Held(<<r>> \o s, X \cup {r})
PROOF
  <1>1. IsInjective(s) /\ (\A x \in Reqs : Contains(s, x) <=> x \in X) /\ ~ Contains(s, r)
    BY DEF Held
  <1>2. /\ Append(s, r) \in Seq(Reqs) /\ IsInjective(Append(s, r))
        /\ \A y : Contains(Append(s, r), y) <=> y = r \/ Contains(s, y)
    BY <1>1, PushBack
  <1>3. /\ <<r>> \o s \in Seq(Reqs) /\ IsInjective(<<r>> \o s)
        /\ \A y : Contains(<<r>> \o s, y) <=> y = r \/ Contains(s, y)
    BY <1>1, PushFront
  <1> DEFINE a == Append(s, r)
             b == <<r>> \o s
  <1> HIDE DEF a, b
  <1>4. Held(a, X \cup {r})
    BY <1>1, <1>2 DEF Held, a
  <1>5. Held(b, X \cup {r})
    BY <1>1, <1>3 DEF Held, b
  <1> QED
    BY <1>2, <1>3, <1>4, <1>5 DEF a, b

(* The front of a queue leaves it.                                         *)
LEMMA HeldPop ==
  ASSUME NEW s \in Seq(Reqs), s # <<>>, NEW X, Held(s, X)
  PROVE  Head(s) \in Reqs /\ Head(s) \in X /\ Tail(s) \in Seq(Reqs) /\ Held(Tail(s), X \ {Head(s)})
PROOF
  <1>1. IsInjective(s) /\ (\A x \in Reqs : Contains(s, x) <=> x \in X)
    BY DEF Held
  <1> DEFINE t == Tail(s)
             h == Head(s)
  <1>2. /\ t \in Seq(Reqs) /\ h \in Reqs /\ Contains(s, h) /\ IsInjective(t)
        /\ \A y : Contains(t, y) <=> y # h /\ Contains(s, y)
    BY <1>1, PopFront
  <1> HIDE DEF t, h
  <1>3. Held(t, X \ {h})
    BY <1>1, <1>2 DEF Held
  <1> QED
    BY <1>1, <1>2, <1>3 DEF t, h

(* A queue of nobody is empty, and only that.                              *)
LEMMA HeldEmpty ==
  ASSUME NEW s \in Seq(Reqs), NEW X \in SUBSET Reqs, Held(s, X)
  PROVE  s = <<>> <=> X = {}
PROOF
  <1>1. \A x \in Reqs : Contains(s, x) <=> x \in X
    BY DEF Held
  <1>2. ASSUME s # <<>>
        PROVE  X # {}
    BY <1>2, HeldPop
  <1>3. ASSUME s = <<>>
        PROVE  X = {}
    BY <1>1, <1>3, EmptyQueue
  <1> QED
    BY <1>2, <1>3

(* Every request that has a rank is where its state says.                  *)
LEMMA QueueIs ==
  ASSUME PoolsTypeOK, QueueOK
  PROVE  /\ \A r \in Reqs : /\ st[r] \in States \ {"pending", "done"} => unit[r] \in Ranks(Prefill)
                            /\ st[r] \in {"delivering", "dec_queued", "decode"} => decUnit[r] \in Ranks(Decode)
         /\ \A u \in Units :
              /\ waiting[u] \in Seq(Reqs) /\ decWaiting[u] \in Seq(Reqs) /\ running[u] \in Seq(Reqs)
              /\ Held(waiting[u], Queued(u)) /\ Held(decWaiting[u], DecQueued(u)) /\ IsInjective(running[u])
              /\ \A r \in Reqs : /\ r \in Served(u) => Contains(running[u], r)
                                 /\ Contains(running[u], r) /\ r \notin Served(u) =>
                                      InCommit(u[1]) /\ st[r] \in {"delivering", "done"}
         /\ \A w \in WorkersOf(Decode) : xfers[w] \in Seq(Reqs) /\ Held(xfers[w], Sent(w))
         /\ \A u \in Ranks(Prefill) : decWaiting[u] = <<>> /\ Served(u) = {r \in Reqs : st[r] = "prefill" /\ unit[r] = u}
         /\ \A u \in Ranks(Decode) : waiting[u] = <<>> /\ Served(u) = Reserving(u)
PROOF
  <1>1. ASSUME NEW r \in Reqs
        PROVE  /\ st[r] \in States \ {"pending", "done"} => unit[r] \in Ranks(Prefill)
               /\ st[r] \in {"delivering", "dec_queued", "decode"} => decUnit[r] \in Ranks(Decode)
    BY DEF QueueOK, PoolsTypeOK
  <1>2. ASSUME NEW u \in Units
        PROVE  /\ waiting[u] \in Seq(Reqs) /\ decWaiting[u] \in Seq(Reqs) /\ running[u] \in Seq(Reqs)
               /\ Held(waiting[u], Queued(u)) /\ Held(decWaiting[u], DecQueued(u)) /\ IsInjective(running[u])
               /\ \A r \in Reqs : /\ r \in Served(u) => Contains(running[u], r)
                                  /\ Contains(running[u], r) /\ r \notin Served(u) =>
                                       InCommit(u[1]) /\ st[r] \in {"delivering", "done"}
    BY DEF QueueOK, PoolsTypeOK
  <1>3. \A w \in WorkersOf(Decode) : xfers[w] \in Seq(Reqs) /\ Held(xfers[w], Sent(w))
    BY DEF QueueOK, PoolsTypeOK
  <1>4. \A u \in Ranks(Prefill) : u \in Units /\ u \notin Ranks(Decode)
    BY UnitIs DEF Pool, Prefill
  <1>5. \A u \in Ranks(Decode) : u \in Units /\ u \notin Ranks(Prefill)
    BY UnitIs DEF Pool, Decode
  <1>6. ASSUME NEW u \in Ranks(Prefill)
        PROVE  decWaiting[u] = <<>> /\ Served(u) = {r \in Reqs : st[r] = "prefill" /\ unit[r] = u}
    <2>1. DecQueued(u) = {}
      BY <1>1, <1>4 DEF DecQueued
    <2>2. Served(u) = {r \in Reqs : st[r] = "prefill" /\ unit[r] = u}
      BY <1>1, <1>4 DEF Served
    <2>3. decWaiting[u] \in Seq(Reqs) /\ Held(decWaiting[u], {})
      BY <1>2, <1>4, <2>1
    <2> QED
      BY <2>2, <2>3, HeldEmpty
  <1>7. ASSUME NEW u \in Ranks(Decode)
        PROVE  waiting[u] = <<>> /\ Served(u) = Reserving(u)
    <2>1. Queued(u) = {}
      BY <1>1, <1>5 DEF Queued, States
    <2>2. Served(u) = Reserving(u)
      BY <1>1, <1>5 DEF Served, Reserving, States
    <2>3. waiting[u] \in Seq(Reqs) /\ Held(waiting[u], {})
      BY <1>2, <1>5, <2>1
    <2> QED
      BY <2>2, <2>3, HeldEmpty
  <1> QED
    BY <1>1, <1>2, <1>3, <1>6, <1>7

(* Nothing that the queues are about changes.                              *)
LEMMA QueuesStay ==
  ASSUME QueueOK, UNCHANGED <<st, unit, decUnit, waiting, decWaiting, running, xfers>>,
         \A w : InCommit(w) => InCommit(w)'
  PROVE  QueueOK'
PROOF
  <1>1. \A u : Queued(u)' = Queued(u) /\ DecQueued(u)' = DecQueued(u) /\ Served(u)' = Served(u)
    BY DEF Queued, DecQueued, Served
  <1>2. \A w : Sent(w)' = Sent(w)
    BY DEF Sent
  <1>3. \A s, X : Held(s, X)' <=> Held(s, X)
    BY DEF Held
  <1>4. \A r \in Reqs : /\ st'[r] \in States \ {"pending", "done"} => unit'[r] # None
                        /\ st'[r] \in {"delivering", "dec_queued", "decode"} => decUnit'[r] # None
    BY DEF QueueOK
  <1>5. ASSUME NEW u \in Units
        PROVE  /\ Held(waiting[u], Queued(u))' /\ Held(decWaiting[u], DecQueued(u))' /\ IsInjective(running'[u])
               /\ \A r \in Reqs : /\ r \in Served(u)' => Contains(running'[u], r)
                                  /\ Contains(running'[u], r) /\ r \notin Served(u)' =>
                                       InCommit(u[1])' /\ st'[r] \in {"delivering", "done"}
    BY <1>1 DEF QueueOK, Held
  <1>6. \A w \in WorkersOf(Decode) : Held(xfers[w], Sent(w))'
    BY <1>2 DEF QueueOK, Held
  <1> QED
    BY <1>4, <1>5, <1>6 DEF QueueOK

-----------------------------------------------------------------------------
(* What the rest of the invariant is about stays.                          *)

(* The decode sequences of a worker that computes are the same.            *)
LEMMA KeepStays ==
  ASSUME KeepSlots,
         \A w \in WorkersOf(Decode) : busy'[w] =>
           /\ busy[w] /\ batch'[w] = batch[w]
           /\ \A r \in Reqs : st'[r] = "decode" /\ decUnit'[r][1] = w <=> st[r] = "decode" /\ decUnit[r][1] = w
  PROVE  KeepSlots'
PROOF
  <1> SUFFICES ASSUME NEW w \in WorkersOf(Decode), busy'[w]
               PROVE  {batch'[w][i].req : i \in DOMAIN batch'[w]} = {r \in Reqs : st'[r] = "decode" /\ decUnit'[r][1] = w}
    BY DEF KeepSlots
  <1>1. {batch[w][i].req : i \in DOMAIN batch[w]} = {r \in Reqs : st[r] = "decode" /\ decUnit[r][1] = w}
    BY DEF KeepSlots
  <1>2. {r \in Reqs : st'[r] = "decode" /\ decUnit'[r][1] = w} = {r \in Reqs : st[r] = "decode" /\ decUnit[r][1] = w}
    OBVIOUS
  <1> QED
    BY <1>1, <1>2

(* No decode rank is at work on its batch.                                 *)
LEMMA SlotsStay ==
  ASSUME SlotsOK, \A u \in Ranks(Decode) : running'[u] = running[u], Forming' => P' = Prefill
  PROVE  SlotsOK'
PROOF
  <1>1. \A u \in Ranks(Decode) : Fits(Len(running'[u]))
    BY DEF SlotsOK
  <1>2. Prefill # Decode
    BY DEF Prefill, Decode
  <1>3. \A n : Fits(n)' <=> Fits(n)
    BY DEF Fits, Step
  <1> QED
    BY <1>1, <1>2, <1>3 DEF SlotsOK

(* Something of a rank is under way to the decode pool.                    *)
Delivered(u) == \E r \in Reqs : st[r] = "delivering" /\ unit[r] = u

(* A rank that rests does so as long as its queues stay and the requests   *)
(* whose room it waits for are delivered.                                  *)
LEMMA RestsStays ==
  ASSUME NEW u, Rests(u), running'[u] = running[u], decWaiting'[u] = decWaiting[u], waiting'[u] = waiting[u],
         \A r \in Reqs : st[r] = "delivering" /\ unit[r] = u => st'[r] = "delivering" /\ unit'[r] = u
  PROVE  Rests(u)'
PROOF
  <1>1. running[u] = <<>> /\ decWaiting[u] = <<>> /\ (waiting[u] # <<>> => Delivered(u))
    BY DEF Rests, Delivered
  <1>2. Delivered(u) => Delivered(u)'
    BY DEF Delivered
  <1> QED
    BY <1>1, <1>2 DEF Rests, Delivered

(* Steps after which no batch is formed.                                   *)
LEMMA RestElse ==
  ASSUME RestOK, ~ Forming',
         \A w \in AllWorkers : ~ busy'[w] /\ ~ Blocked(w)' /\ Untried(w)' =>
           \/ /\ ~ busy[w] /\ ~ Blocked(w) /\ Untried(w)
              /\ \A k \in 1 .. Dp[PoolOf(w)] : Rests(<<w, k>>) => Rests(<<w, k>>)'
           \/ \A k \in 1 .. Dp[PoolOf(w)] : Rests(<<w, k>>)'
  PROVE  RestOK'
PROOF
  <1>1. ~ At("close")'
    BY DEF Forming, At
  <1>2. ASSUME NEW w \in AllWorkers, ~ busy'[w], ~ Blocked(w)', Untried(w)', NEW k \in 1 .. Dp[PoolOf(w)]
        PROVE  Rests(<<w, k>>)'
    <2>1. CASE \A j \in 1 .. Dp[PoolOf(w)] : Rests(<<w, j>>)'
      BY <2>1
    <2>2. CASE /\ ~ busy[w] /\ ~ Blocked(w) /\ Untried(w)
               /\ \A j \in 1 .. Dp[PoolOf(w)] : Rests(<<w, j>>) => Rests(<<w, j>>)'
      <3>1. Rests(<<w, k>>)
        BY <2>2 DEF RestOK, Untried
      <3> QED
        BY <2>2, <3>1
    <2> QED
      BY <1>2, <2>1, <2>2
  <1> QED
    BY <1>1, <1>2 DEF RestOK, Untried

(* Steps of forming a batch on one rank.                                   *)
LEMMA RestForming ==
  ASSUME PoolsTypeOK, HandlerOK, RestOK, Forming, (~ Idle)', Forming', W' = W, P' = P, U' = U,
         Head(todo').rank = Head(todo).rank,
         UNCHANGED <<busy, xfers>>, \A w : Untried(w)' => Untried(w) /\ w # W,
         \A u \in Units \ {U} : /\ running'[u] = running[u] /\ waiting'[u] = waiting[u] /\ decWaiting'[u] = decWaiting[u]
                                /\ Computed(u)' = Computed(u),
         \A r \in Reqs : st[r] = "delivering" => st'[r] = "delivering" /\ unit'[r] = unit[r],
         At("close")' /\ Computed(U)' = {} /\ running'[U] = <<>> => Rests(U)'
  PROVE  RestOK'
PROOF
  <1>1. ASSUME NEW u \in Units \ {U}, Rests(u)
        PROVE  Rests(u)'
    BY <1>1, RestsStays
  <1>2. W \in AllWorkers /\ P = PoolOf(W) /\ U = <<W, Head(todo).rank>> /\ Head(todo).rank \in 1 .. Dp[P] /\ Dp[P] \in Nat
    BY FormingIs, CallIs, WorkersAre DEF U
  <1>3. ASSUME NEW w \in AllWorkers, ~ busy'[w], ~ Blocked(w)', Untried(w)', NEW k \in 1 .. Dp[PoolOf(w)]
        PROVE  Rests(<<w, k>>)'
    <2>1. Untried(w) /\ w # W
      BY <1>3
    <2>2. ~ busy[w] /\ ~ Blocked(w)
      BY <1>3 DEF Blocked
    <2>3. Rests(<<w, k>>)
      BY <2>1, <2>2 DEF RestOK, Untried
    <2>4. <<w, k>> \in Units \ {U}
      BY <1>2, <2>1, UnitIs, PoolIs
    <2> QED
      BY <1>1, <2>3, <2>4
  <1>4. ASSUME NEW k \in 1 .. Head(todo).rank - 1
        PROVE  Computed(<<W, k>>)' # {} \/ Rests(<<W, k>>)'
    <2>1. k \in 1 .. Dp[PoolOf(W)] /\ k # Head(todo).rank
      BY <1>2
    <2>2. <<W, k>> \in Units \ {U}
      BY <1>2, <2>1, UnitIs, PoolIs
    <2>3. Computed(<<W, k>>) # {} \/ Rests(<<W, k>>)
      BY DEF RestOK
    <2>4. PICK u : u = <<W, k>>
      OBVIOUS
    <2>5. Computed(u)' # {} \/ Rests(u)'
      BY <1>1, <2>2, <2>3, <2>4
    <2>6. u = <<W', k>>
      BY <2>4
    <2> QED
      BY <2>5, <2>6
  <1>5. ASSUME NEW w \in AllWorkers, ~ busy'[w], ~ Blocked(w)', \A i \in DOMAIN todo' : todo'[i].w # w
        PROVE  \A k \in 1 .. Dp[PoolOf(w)] : Rests(<<w, k>>)'
    <2>1. Untried(w)'
      BY <1>5 DEF Untried
    <2> QED
      BY <1>3, <1>5, <2>1
  <1>6. (Forming => \A k \in 1 .. Head(todo).rank - 1 : Computed(<<W, k>>) # {} \/ Rests(<<W, k>>))'
    BY <1>4
  <1>7. (At("close") /\ Computed(U) = {} /\ running[U] = <<>> => Rests(U))'
    OBVIOUS
  <1> QED
    BY <1>5, <1>6, <1>7 DEF RestOK

(* A call for the rank at hand.                                            *)
LEMMA FormStep ==
  ASSUME PoolsTypeOK, HandlerOK, Forming, NEW call \in CallType, Becomes(call), busy' = busy,
         call.w = W, call.rank = Head(todo).rank, call.do \notin {"try", "commit"},
         call.do \in {"prefill", "admit"} => P = Prefill,
         call.do \in {"decode", "dec_admit"} => P = Decode
  PROVE  /\ HandlerOK' /\ todo' \in Seq(CallType) /\ (~ Idle)' /\ Forming' /\ Head(todo') = call
         /\ W' = W /\ P' = P /\ U' = U /\ I' = call.i /\ Head(todo').rank = Head(todo).rank
         /\ \A d : At(d)' <=> call.do = d
         /\ \A w : ~ InCommit(w) /\ ~ InCommit(w)'
         /\ \A w : Untried(w)' => Untried(w) /\ w # W
PROOF
  <1>1. ~ Idle /\ W \in AllWorkers /\ ~ busy[W] /\ \A w : ~ InCommit(w)
    BY FormingIs
  <1>2. Head(todo).rank \in 1 .. Dp[P]
    BY <1>1, CallIs
  <1>3. call.rank \in 1 .. Dp[P] /\ ~ busy'[W] /\ (call.do = "commit" => At("commit"))
    BY <1>1, <1>2
  <1>4. /\ HandlerOK' /\ todo' \in Seq(CallType) /\ (~ Idle)' /\ Head(todo') = call
        /\ W' = W /\ P' = P /\ U' = <<W, call.rank>> /\ I' = call.i
        /\ \A d : At(d)' <=> call.do = d
        /\ Forming' <=> call.do \notin {"try", "commit"}
        /\ \A w : InCommit(w)' <=> call.do = "commit" /\ w = W
        /\ \A w : Untried(w)' => Untried(w)
    BY <1>1, <1>3, NextCall
  <1>5. U' = U
    BY <1>4 DEF U
  <1>6. ASSUME NEW w, Untried(w)'
        PROVE  w # W
    <2>1. 1 \in DOMAIN todo' /\ todo'[1] = call
      <3>1. DOMAIN todo' = DOMAIN todo /\ todo'[1] = call
        BY <1>1, BecomesIs
      <3>2. 1 \in DOMAIN todo
        BY <1>1, CallIs
      <3> QED
        BY <3>1, <3>2
    <2> QED
      BY <1>6, <2>1 DEF Untried
  <1> QED
    BY <1>1, <1>4, <1>5, <1>6

(* Only the handler goes on.                                               *)
Quiet == UNCHANGED <<st, unit, decUnit, left, gen, alloc, decAlloc, used, running, waiting, decWaiting,
                     busy, batch, xfers, rr, sticky, trees, remaining>>

(* A step that only goes on with the handler.                              *)
LEMMA OnlyCall ==
  ASSUME PoolsInv, Forming, Quiet, NEW call \in CallType, Becomes(call),
         call.w = W, call.rank = Head(todo).rank, call.do \notin {"try", "commit"},
         call.do \in {"prefill", "admit"} => P = Prefill,
         call.do \in {"decode", "dec_admit"} => P = Decode,
         SlotsOK', LoopOK', RestOK'
  PROVE  PoolsInv'
PROOF
  <1>1. /\ PoolsTypeOK /\ HandlerOK /\ QueueOK /\ BatchOK /\ StoredOK /\ SlotsOK /\ LoopOK
        /\ CountOK /\ RestOK /\ RoomExact /\ KeepSlots /\ TreesExact
    BY DEF PoolsInv
  <1>2. /\ HandlerOK' /\ todo' \in Seq(CallType) /\ (~ Idle)' /\ Forming'
        /\ W' = W /\ \A w : ~ InCommit(w) /\ ~ InCommit(w)'
    BY <1>1, FormStep DEF Quiet
  <1>3. PoolsTypeOK'
    BY <1>1, <1>2 DEF PoolsTypeOK, Quiet
  <1>4. QueueOK'
    BY <1>1, <1>2, QueuesStay DEF Quiet
  <1>5. (\A w : Pass(w)' = Pass(w)) /\ \A r : InPass(r)' <=> InPass(r)
    BY <1>1, <1>2, PassesForm DEF Quiet
  <1>6. BatchOK'
    BY <1>1, <1>5, BatchStays DEF Quiet
  <1>7. StoredOK'
    BY <1>1, <1>5, StoredStays DEF Quiet
  <1>8. CountOK'
    BY <1>1, CountStays DEF Quiet
  <1>9. TreesExact'
    BY <1>1, <1>8, HomesStay DEF Quiet
  <1>10. KeepSlots'
    BY <1>1, KeepStays DEF Quiet
  <1>11. RoomExact'
    <2>1. \A u : Holding(u)' = Holding(u) /\ Reserving(u)' = Reserving(u)
      BY DEF Holding, Reserving, Quiet
    <2> QED
      BY <1>1, <2>1, RoomStays DEF Quiet
  <1> QED
    BY <1>2, <1>3, <1>4, <1>6, <1>7, <1>8, <1>9, <1>10, <1>11 DEF PoolsInv

-----------------------------------------------------------------------------
(* Loops that end.                                                         *)

(* What runs on the rank at hand, and what of it is in the batch.          *)
LEMMA RunningIs ==
  ASSUME PoolsInv, Forming
  PROVE  /\ PoolsTypeOK /\ HandlerOK /\ QueueOK /\ BatchOK /\ StoredOK /\ SlotsOK /\ LoopOK
         /\ CountOK /\ RestOK /\ RoomExact /\ KeepSlots /\ TreesExact
         /\ running[U] \in Seq(Reqs) /\ IsInjective(running[U])
         /\ DOMAIN running[U] = 1 .. Len(running[U]) /\ Len(running[U]) \in Nat
         /\ \A i \in 1 .. Len(running[U]) : running[U][i] \in Served(U)
         /\ \A r \in Served(U) : r \in Reqs /\ \E i \in 1 .. Len(running[U]) : running[U][i] = r
         /\ \A i, j \in 1 .. Len(running[U]) : running[U][i] = running[U][j] => i = j
         /\ running[U] = <<>> <=> Served(U) = {}
         /\ Computed(U) \subseteq Served(U)
         /\ \A r \in Served(U) : InPass(r) => r \in Computed(U)
         /\ U \in Units /\ U \in Ranks(P) /\ U[1] = W
PROOF
  <1>1. /\ PoolsTypeOK /\ HandlerOK /\ QueueOK /\ BatchOK /\ StoredOK /\ SlotsOK /\ LoopOK
        /\ CountOK /\ RestOK /\ RoomExact /\ KeepSlots /\ TreesExact
    BY DEF PoolsInv
  <1>2. ~ Idle /\ (\A w : ~ InCommit(w)) /\ W \in AllWorkers /\ Pass(W) = DOMAIN batch[W]
    BY <1>1, FormingIs
  <1>3. U \in Units /\ U \in Ranks(P) /\ U[1] = W
    BY <1>1, <1>2, CallIs
  <1>4. /\ running[U] \in Seq(Reqs) /\ IsInjective(running[U])
        /\ \A r \in Reqs : Contains(running[U], r) <=> r \in Served(U)
    BY <1>1, <1>2, <1>3, QueueIs
  <1>5. /\ DOMAIN running[U] = 1 .. Len(running[U]) /\ Len(running[U]) \in Nat
        /\ \A i \in 1 .. Len(running[U]) : running[U][i] \in Reqs
    BY <1>4, LenProperties, ElementOfSeq
  <1>6. Served(U) \subseteq Reqs
    BY DEF Served
  <1>7. \A i \in 1 .. Len(running[U]) : running[U][i] \in Served(U)
    BY <1>4, <1>5 DEF Contains
  <1>8. \A r \in Served(U) : r \in Reqs /\ \E i \in 1 .. Len(running[U]) : running[U][i] = r
    BY <1>4, <1>5, <1>6 DEF Contains
  <1>9. \A i, j \in 1 .. Len(running[U]) : running[U][i] = running[U][j] => i = j
    BY <1>4, <1>5 DEF IsInjective
  <1>10. running[U] = <<>> <=> Served(U) = {}
    <2>1. Held(running[U], Served(U))
      BY <1>4 DEF Held
    <2> QED
      BY <1>4, <1>6, <2>1, HeldEmpty
  <1>11. Computed(U) \subseteq Served(U)
    <2> SUFFICES ASSUME NEW i \in DOMAIN batch[U[1]], batch[U[1]][i].unit = U
                 PROVE  batch[U[1]][i].req \in Served(U)
      BY DEF Computed
    <2>1. i \in Pass(W)
      BY <1>2, <1>3
    <2> QED
      BY <1>1, <1>2, <1>3, <2>1, OneEntry
  <1>12. ASSUME NEW r \in Served(U), InPass(r)
         PROVE  r \in Computed(U)
    <2>1. PICK w \in AllWorkers : \E i \in Pass(w) : batch[w][i].req = r
      BY <1>12 DEF InPass
    <2>2. PICK i \in Pass(w) : batch[w][i].req = r
      BY <2>1
    <2> DEFINE b == batch[w][i]
    <2>3. b.unit[1] = w /\ st[r] \in {"prefill", "decode"}
          /\ (st[r] = "prefill" => unit[r] = b.unit) /\ (st[r] = "decode" => decUnit[r] = b.unit)
      BY <1>1, <2>2, OneEntry
    <2> HIDE DEF b
    <2>4. b.unit = U
      BY <2>3 DEF Served
    <2>5. w = W /\ i \in DOMAIN batch[U[1]]
      BY <1>2, <1>3, <2>3, <2>4
    <2> QED
      BY <1>3, <2>2, <2>4, <2>5 DEF Computed, b
  <1> QED
    BY <1>1, <1>3, <1>4, <1>5, <1>7, <1>8, <1>9, <1>10, <1>11, <1>12

(* The least of three lengths.                                             *)
LEMMA LeastOf ==
  ASSUME NEW a \in Nat, NEW b \in Nat, NEW c \in Nat
  PROVE  /\ Min({a, b, c}) \in Nat /\ Min({a, b, c}) <= a /\ Min({a, b, c}) <= b /\ Min({a, b, c}) <= c
         /\ a > 0 /\ b > 0 /\ c > 0 => Min({a, b, c}) > 0
PROOF
  <1> DEFINE S == {a, b, c}
  <1>1. IsFiniteSet(S)
    <2>1. IsFiniteSet({a})
      BY FS_Singleton
    <2>2. IsFiniteSet({a} \cup {b})
      BY <2>1, FS_AddElement
    <2>3. IsFiniteSet(({a} \cup {b}) \cup {c})
      BY <2>2, FS_AddElement
    <2>4. S = ({a} \cup {b}) \cup {c}
      OBVIOUS
    <2> QED
      BY <2>3, <2>4
  <1>2. S \in SUBSET Int /\ S # {}
    OBVIOUS
  <1>3. Min(S) \in S /\ \A y \in S : Min(S) <= y
    <2> HIDE DEF S
    <2> QED
      BY <1>1, <1>2, LeastGreatest
  <1> DEFINE m == Min(S)
  <1>4. m \in S /\ \A y \in S : m <= y
    BY <1>3
  <1> HIDE DEF m
  <1>5. /\ m \in Nat /\ m <= a /\ m <= b /\ m <= c
        /\ a > 0 /\ b > 0 /\ c > 0 => m > 0
    BY <1>4
  <1> QED
    BY <1>5 DEF m

(* The loop over the running prefills ends.                                *)
LEMMA PrefillsEndSafe ==
  ASSUME PoolsInv, PrefillsEnd
  PROVE  PoolsInv'
PROOF
  <1> DEFINE d == [Head(todo) EXCEPT !.do = Following["prefill"], !.i = 1]
  <1>1. At("prefill") /\ LoopEnds /\ Quiet /\ Forming
    BY DEF PrefillsEnd, Quiet, req, rank, worker, router, At, Forming
  <1>2. PoolsTypeOK /\ HandlerOK /\ SlotsOK /\ LoopOK /\ RestOK
    BY DEF PoolsInv
  <1>3. /\ d \in CallType /\ d.do = "admit" /\ d.w = W /\ d.rank = Head(todo).rank /\ d.i = 1
        /\ d.budget = Head(todo).budget /\ d.seqs = Head(todo).seqs
        /\ Becomes(d)
    BY <1>1, <1>2, LoopEndsIs DEF Following
  <1> HIDE DEF d
  <1>4. P = Prefill
    BY <1>1, <1>2 DEF HandlerOK
  <1>5. /\ HandlerOK' /\ (~ Idle)' /\ Forming' /\ Head(todo') = d
        /\ W' = W /\ P' = P /\ U' = U /\ Head(todo').rank = Head(todo).rank
        /\ \A k : At(k)' <=> k = "admit"
        /\ \A w : Untried(w)' => Untried(w) /\ w # W
    BY <1>1, <1>2, <1>3, <1>4, FormStep DEF Quiet
  <1>6. \A u : Computed(u)' = Computed(u)
    BY <1>1, <1>2, <1>5, PassesForm DEF Quiet
  <1>7. SlotsOK'
    BY <1>1, <1>2, <1>4, <1>5, SlotsStay DEF Quiet
  <1>8. LoopOK'
    BY <1>1, <1>2, <1>3, <1>5, <1>6 DEF LoopOK, Quiet
  <1>9. RestOK'
    BY <1>1, <1>2, <1>5, <1>6, RestForming DEF Quiet
  <1> QED
    BY <1>1, <1>3, <1>4, <1>7, <1>8, <1>9, OnlyCall

(* The loop over the waiting prompts ends: nothing waits, or the batch has *)
(* an entry of the rank, or there is no room before a delivery ends.       *)
LEMMA AdmissionsEndSafe ==
  ASSUME PoolsInv, AdmissionsEnd
  PROVE  PoolsInv'
PROOF
  <1> DEFINE d == [Head(todo) EXCEPT !.do = Following["admit"], !.i = 1]
  <1>1. At("admit") /\ LoopEnds /\ Quiet /\ Forming
    BY DEF AdmissionsEnd, Quiet, req, rank, worker, router, At, Forming
  <1>2. PoolsTypeOK /\ HandlerOK /\ SlotsOK /\ LoopOK /\ RestOK
    BY DEF PoolsInv
  <1>3. /\ d \in CallType /\ d.do = "close" /\ d.w = W /\ d.rank = Head(todo).rank /\ d.i = 1
        /\ d.budget = Head(todo).budget /\ d.seqs = Head(todo).seqs
        /\ Becomes(d)
    BY <1>1, <1>2, LoopEndsIs DEF Following
  <1> HIDE DEF d
  <1>4. P = Prefill
    BY <1>1, <1>2 DEF HandlerOK
  <1>5. /\ HandlerOK' /\ (~ Idle)' /\ Forming' /\ Head(todo') = d
        /\ W' = W /\ P' = P /\ U' = U /\ Head(todo').rank = Head(todo).rank
        /\ \A k : At(k)' <=> k = "close"
        /\ \A w : Untried(w)' => Untried(w) /\ w # W
    BY <1>1, <1>2, <1>3, <1>4, FormStep DEF Quiet
  <1>6. \A u : Computed(u)' = Computed(u)
    BY <1>1, <1>2, <1>5, PassesForm DEF Quiet
  <1>7. SlotsOK'
    BY <1>1, <1>2, <1>4, <1>5, SlotsStay DEF Quiet
  <1>8. LoopOK'
    BY <1>1, <1>2, <1>3, <1>5, <1>6 DEF LoopOK, Quiet
  <1>9. ASSUME Computed(U) = {}, running[U] = <<>>
        PROVE  Rests(U)
    <2>1. QueueOK /\ RoomExact /\ U \in Ranks(Prefill) /\ U \in Units /\ Served(U) = {} /\ StoredOK
      BY <1>1, <1>4, <1>9, RunningIs
    <2>2. decWaiting[U] = <<>> /\ Served(U) = {r \in Reqs : st[r] = "prefill" /\ unit[r] = U}
      BY <1>2, <2>1, QueueIs
    <2>3. Open
      <3>1. Head(todo).seqs = 0 /\ Head(todo).budget = TokCap[Prefill]
        BY <1>1, <1>2, <1>4, <1>9 DEF LoopOK
      <3>2. TokCap[Prefill] \in Nat /\ SeqCap[Prefill] \in Nat \ {0} /\ TokCap[Prefill] > Nextn /\ Nextn \in Nat
        BY PoolsAssumption DEF Prefill, Pool
      <3> QED
        BY <3>1, <3>2 DEF Open
    <2>4. ASSUME waiting[U] # <<>>
          PROVE  Delivered(U)
      <3> DEFINE r == Head(waiting[U])
      <3>1. Isl[r] <= Cap[Prefill] /\ used[U] + Chunk(r) > Cap[Prefill]
        BY <2>3, <2>4 DEF AdmissionsEnd
      <3>2. r \in Reqs /\ r \in Queued(U)
        <4>1. waiting[U] \in Seq(Reqs) /\ Held(waiting[U], Queued(U))
          BY <1>2, <2>1, QueueIs
        <4> QED
          BY <2>4, <4>1, HeldPop
      <3> HIDE DEF r
      <3>3. left[r] = Isl[r] /\ left[r] \in Nat
        BY <1>2, <2>1, <3>2 DEF StoredOK, Queued, PoolsTypeOK
      <3>4. Chunk(r) \in Nat /\ Chunk(r) <= left[r]
        <4>1. ChunkTokens \in Nat /\ Head(todo).budget \in Nat
          BY <1>1, <1>2, CallIs, PoolsAssumption DEF At
        <4> QED
          BY <3>3, <4>1, LeastOf DEF Chunk
      <3>5. Cap[Prefill] \in Nat /\ used[U] \in Int
        BY <1>2, <2>1, RoomIs, WorkersAre DEF Pool, Prefill
      <3>6. used[U] # 0
        BY <3>1, <3>3, <3>4, <3>5
      <3>7. Holding(U) # {}
        BY <1>2, <2>1, <3>6, RoomIs
      <3> QED
        BY <2>1, <2>2, <3>7 DEF Holding, Delivered
    <2> QED
      BY <1>9, <2>2, <2>4 DEF Rests, Delivered
  <1>10. RestOK'
    <2>1. Rests(U) => Rests(U)'
      <3>1. PICK u : u = U
        OBVIOUS
      <3>2. Rests(u) => Rests(u)'
        BY <1>1, RestsStays DEF Quiet
      <3> QED
        BY <1>5, <3>1, <3>2
    <2> QED
      BY <1>1, <1>2, <1>5, <1>6, <1>9, <2>1, RestForming DEF Quiet
  <1> QED
    BY <1>1, <1>3, <1>4, <1>7, <1>8, <1>10, OnlyCall

(* Fewer sequences fit where more do.                                      *)
LEMMA FewerFit ==
  ASSUME NEW n \in Nat, Fits(n), NEW m \in Nat, m <= n
  PROVE  /\ Fits(m) /\ Step \in Nat \ {0}
         /\ m * Step \in Nat /\ (m + 1) * Step = m * Step + Step
         /\ m + 1 <= n => m * Step + Step <= TokCap[Decode]
         /\ TokCap[Decode] \in Nat /\ SeqCap[Decode] \in Nat
PROOF
  <1>1. Step \in Nat \ {0}
    BY PoolsAssumption DEF Step
  <1>2. \A a, b, s \in Nat : a <= b => a * s <= b * s
    OBVIOUS
  <1>3. \A a, s \in Nat : a * s \in Nat /\ (a + 1) * s = a * s + s
    OBVIOUS
  <1>4. TokCap[Decode] \in Nat /\ SeqCap[Decode] \in Nat
    BY WorkersAre DEF Pool, Decode
  <1>5. n <= SeqCap[Decode] /\ n * Step <= TokCap[Decode]
    BY DEF Fits
  <1>6. m * Step <= n * Step /\ m * Step \in Nat /\ n * Step \in Nat /\ (m + 1) * Step = m * Step + Step
    BY <1>1, <1>2, <1>3
  <1>7. Fits(m)
    BY <1>4, <1>5, <1>6 DEF Fits
  <1>8. ASSUME m + 1 <= n
        PROVE  m * Step + Step <= TokCap[Decode]
    <2>1. (m + 1) * Step <= n * Step
      BY <1>1, <1>2, <1>8
    <2> QED
      BY <1>1, <1>4, <1>5, <1>6, <2>1
  <1> QED
    BY <1>1, <1>4, <1>6, <1>7, <1>8

(* The loop over the decode sequences ends after the last one.             *)
LEMMA DecodesEndSafe ==
  ASSUME PoolsInv, DecodesEnd
  PROVE  PoolsInv'
PROOF
  <1> DEFINE d == [Head(todo) EXCEPT !.do = Following["decode"], !.i = 1]
             n == Len(running[U])
  <1>1. At("decode") /\ LoopEnds /\ Quiet /\ Forming
    BY DEF DecodesEnd, Quiet, req, rank, worker, router, At, Forming
  <1>2. PoolsTypeOK /\ HandlerOK /\ SlotsOK /\ LoopOK /\ RestOK
    BY DEF PoolsInv
  <1>3. /\ d \in CallType /\ d.do = "dec_admit" /\ d.w = W /\ d.rank = Head(todo).rank /\ d.i = 1
        /\ d.budget = Head(todo).budget /\ d.seqs = Head(todo).seqs
        /\ Becomes(d)
    BY <1>1, <1>2, LoopEndsIs DEF Following
  <1> HIDE DEF d
  <1>4. P = Decode /\ Prefill # Decode
    BY <1>1, <1>2 DEF HandlerOK, Prefill, Decode
  <1>5. /\ HandlerOK' /\ (~ Idle)' /\ Forming' /\ Head(todo') = d
        /\ W' = W /\ P' = P /\ U' = U /\ Head(todo').rank = Head(todo).rank
        /\ \A k : At(k)' <=> k = "dec_admit"
        /\ \A w : Untried(w)' => Untried(w) /\ w # W
    BY <1>1, <1>2, <1>3, <1>4, FormStep DEF Quiet
  <1>6. \A u : Computed(u)' = Computed(u)
    BY <1>1, <1>2, <1>5, PassesForm DEF Quiet
  <1>7. U \in Ranks(Decode) /\ QueueOK /\ n \in Nat
    BY <1>1, <1>4, RunningIs
  <1>8. Fits(n)
    BY <1>2, <1>7 DEF SlotsOK
  <1>9. /\ I <= n + 1 /\ I \in Nat \ {0}
        /\ Computed(U) = {running[U][j] : j \in 1 .. I - 1}
        /\ Head(todo).seqs = I - 1 /\ Head(todo).budget = TokCap[P] - (I - 1) * Step
    <2>1. I \in Nat \ {0}
      BY <1>1, <1>2, CallIs DEF At
    <2> QED
      BY <1>1, <1>2, <1>4, <2>1 DEF SlotsOK
  <1>10. I = n + 1
    <2> SUFFICES ASSUME I <= n
                 PROVE  FALSE
      BY <1>7, <1>9
    <2>1. Head(todo).budget < Step \/ Head(todo).seqs >= SeqCap[Decode]
      <3>1. ~ Slot
        BY <1>7, <1>9 DEF DecodesEnd
      <3>2. Head(todo).budget \in Nat /\ Head(todo).seqs \in Nat
        BY <1>1, <1>2, CallIs DEF At
      <3>3. Step \in Nat /\ SeqCap[Decode] \in Nat
        BY <1>7, <1>8, FewerFit
      <3> QED
        BY <3>1, <3>2, <3>3 DEF Slot
    <2> DEFINE m == I - 1
    <2>2. m \in Nat /\ m <= n /\ m + 1 <= n
      BY <1>7, <1>9
    <2>3. Head(todo).seqs = m /\ Head(todo).budget = TokCap[Decode] - m * Step
      BY <1>4, <1>9
    <2> HIDE DEF m
    <2>4. /\ m * Step \in Nat /\ m * Step + Step <= TokCap[Decode] /\ Step \in Nat
          /\ TokCap[Decode] \in Nat /\ SeqCap[Decode] \in Nat
      BY <1>7, <1>8, <2>2, FewerFit
    <2>5. m < SeqCap[Decode]
      <3>1. n <= SeqCap[Decode]
        BY <1>8 DEF Fits
      <3> QED
        BY <1>7, <2>2, <2>4, <3>1
    <2>6. Head(todo).budget >= Step
      BY <2>3, <2>4
    <2> QED
      BY <2>1, <2>2, <2>3, <2>4, <2>5, <2>6
  <1>11. Computed(U) = Reserving(U)
    <2>1. Served(U) = Reserving(U)
      BY <1>2, <1>7, QueueIs
    <2>2. Computed(U) = {running[U][j] : j \in 1 .. n}
      BY <1>7, <1>9, <1>10
    <2>3. /\ \A i \in 1 .. n : running[U][i] \in Served(U)
          /\ \A r \in Served(U) : \E i \in 1 .. n : running[U][i] = r
      BY <1>1, RunningIs
    <2> HIDE DEF n
    <2> QED
      BY <2>1, <2>2, <2>3
  <1>12. SlotsOK'
    <2>1. \A u : Computed(u)' = Computed(u) /\ Reserving(u)' = Reserving(u)
      BY <1>1, <1>6 DEF Quiet, Reserving
    <2>2. \A u \in Ranks(Decode) : Fits(Len(running'[u]))
      BY <1>1, <1>2 DEF SlotsOK, Quiet
    <2>3. \A k \in 1 .. Head(todo).rank - 1 : Computed(<<W, k>>)' = Reserving(<<W, k>>)'
      <3>1. \A k \in 1 .. Head(todo).rank - 1 : Computed(<<W, k>>) = Reserving(<<W, k>>)
        BY <1>1, <1>2, <1>4 DEF SlotsOK
      <3>2. ASSUME NEW k \in 1 .. Head(todo).rank - 1
            PROVE  Computed(<<W, k>>)' = Reserving(<<W, k>>)'
        <4>1. PICK u : u = <<W, k>>
          OBVIOUS
        <4>2. Computed(u)' = Reserving(u)' /\ u = <<W', k>>
          BY <1>5, <2>1, <3>1, <4>1
        <4> QED
          BY <4>2
      <3> QED
        BY <3>2
    <2>4. Head(todo').seqs = Len(running'[U']) /\ Head(todo').budget = TokCap[P'] - Len(running'[U']) * Step
      BY <1>1, <1>3, <1>5, <1>7, <1>9, <1>10 DEF Quiet
    <2>5. Computed(U)' = Reserving(U)'
      <3>1. PICK u : u = U
        OBVIOUS
      <3>2. Computed(u)' = Reserving(u)'
        BY <1>11, <2>1, <3>1
      <3> QED
        BY <1>5, <3>1, <3>2
    <2>6. (\A k \in 1 .. Head(todo).rank - 1 : Computed(<<W, k>>) = Reserving(<<W, k>>))'
      BY <1>5, <2>3
    <2>7. \A k : Fits(k)' <=> Fits(k)
      BY DEF Fits, Step
    <2> QED
      BY <1>5, <2>2, <2>4, <2>5, <2>6, <2>7 DEF SlotsOK, Step
  <1>13. LoopOK'
    BY <1>1, <1>2, <1>3, <1>5, <1>6 DEF LoopOK, Quiet
  <1>14. RestOK'
    BY <1>1, <1>2, <1>5, <1>6, RestForming DEF Quiet
  <1> QED
    BY <1>1, <1>3, <1>4, <1>12, <1>13, <1>14, OnlyCall

(* The loop over the requests that wait for a decode rank ends: none       *)
(* waits, or something decodes on the rank.                                *)
LEMMA DecAdmissionsEndSafe ==
  ASSUME PoolsInv, DecAdmissionsEnd
  PROVE  PoolsInv'
PROOF
  <1> DEFINE d == [Head(todo) EXCEPT !.do = Following["dec_admit"], !.i = 1]
  <1>1. At("dec_admit") /\ LoopEnds /\ Quiet /\ Forming
    BY DEF DecAdmissionsEnd, Quiet, req, rank, worker, router, At, Forming
  <1>2. PoolsTypeOK /\ HandlerOK /\ SlotsOK /\ LoopOK /\ RestOK
    BY DEF PoolsInv
  <1>3. /\ d \in CallType /\ d.do = "close" /\ d.w = W /\ d.rank = Head(todo).rank /\ d.i = 1
        /\ d.budget = Head(todo).budget /\ d.seqs = Head(todo).seqs
        /\ Becomes(d)
    BY <1>1, <1>2, LoopEndsIs DEF Following
  <1> HIDE DEF d
  <1>4. P = Decode /\ Prefill # Decode
    BY <1>1, <1>2 DEF HandlerOK, Prefill, Decode
  <1>5. /\ HandlerOK' /\ (~ Idle)' /\ Forming' /\ Head(todo') = d
        /\ W' = W /\ P' = P /\ U' = U /\ Head(todo').rank = Head(todo).rank
        /\ \A k : At(k)' <=> k = "close"
        /\ \A w : Untried(w)' => Untried(w) /\ w # W
    BY <1>1, <1>2, <1>3, <1>4, FormStep DEF Quiet
  <1>6. \A u : Computed(u)' = Computed(u)
    BY <1>1, <1>2, <1>5, PassesForm DEF Quiet
  <1>7. U \in Ranks(Decode) /\ QueueOK /\ RoomExact /\ (running[U] = <<>> => Served(U) = {})
    BY <1>1, <1>4, RunningIs
  <1>8. waiting[U] = <<>> /\ Served(U) = Reserving(U)
    BY <1>2, <1>7, QueueIs
  <1>9. SlotsOK'
    <2>1. \A u : Computed(u)' = Computed(u) /\ Reserving(u)' = Reserving(u)
      BY <1>1, <1>6 DEF Quiet, Reserving
    <2>2. \A u \in Ranks(Decode) : Fits(Len(running'[u]))
      BY <1>1, <1>2 DEF SlotsOK, Quiet
    <2>3. ~ At("decode")
      BY <1>1 DEF At
    <2>4. /\ \A k \in 1 .. Head(todo).rank - 1 : Computed(<<W, k>>) = Reserving(<<W, k>>)
          /\ Computed(U) = Reserving(U)
      BY <1>1, <1>2, <1>4, <2>3 DEF SlotsOK
    <2>5. ASSUME NEW k \in 1 .. Head(todo).rank - 1
          PROVE  Computed(<<W, k>>)' = Reserving(<<W, k>>)'
      <3>1. PICK u : u = <<W, k>>
        OBVIOUS
      <3>2. Computed(u)' = Reserving(u)' /\ u = <<W', k>>
        BY <1>5, <2>1, <2>4, <3>1
      <3> QED
        BY <3>2
    <2>6. Computed(U)' = Reserving(U)'
      <3>1. PICK u : u = U
        OBVIOUS
      <3>2. Computed(u)' = Reserving(u)'
        BY <2>1, <2>4, <3>1
      <3> QED
        BY <1>5, <3>1, <3>2
    <2>7. (\A k \in 1 .. Head(todo).rank - 1 : Computed(<<W, k>>) = Reserving(<<W, k>>))'
      BY <1>5, <2>5
    <2>8. \A k : Fits(k)' <=> Fits(k)
      BY DEF Fits, Step
    <2> QED
      BY <1>5, <2>2, <2>6, <2>7, <2>8 DEF SlotsOK
  <1>10. LoopOK'
    BY <1>1, <1>2, <1>3, <1>5, <1>6 DEF LoopOK, Quiet
  <1>11. ASSUME running[U] = <<>>
         PROVE  Rests(U)
    <2>1. Slot
      <3>1. Head(todo).seqs = 0 /\ Head(todo).budget = TokCap[Decode] - 0 * Step
        BY <1>1, <1>2, <1>4, <1>11, EmptyQueue DEF SlotsOK
      <3>2. TokCap[Decode] \in Nat /\ SeqCap[Decode] \in Nat \ {0} /\ TokCap[Decode] >= Step
        BY WorkersAre DEF Decode, Pool
      <3>3. Step \in Nat
        BY PoolsAssumption DEF Step
      <3> QED
        BY <3>1, <3>2, <3>3 DEF Slot
    <2>2. used[U] = 0 /\ Cap[Decode] \in Nat
      <3>1. Reserving(U) = {}
        BY <1>7, <1>8, <1>11
      <3> QED
        BY <1>2, <1>7, <3>1, RoomIs, WorkersAre DEF Pool, Decode
    <2>3. decWaiting[U] = <<>>
      <3> SUFFICES ASSUME decWaiting[U] # <<>>
                   PROVE  FALSE
        OBVIOUS
      <3> DEFINE r == Head(decWaiting[U])
      <3>1. Need(r) <= Cap[Decode] /\ used[U] + Need(r) > Cap[Decode]
        BY <2>1 DEF DecAdmissionsEnd
      <3>2. r \in Reqs
        <4>1. U \in Units
          BY <1>1, RunningIs
        <4>2. decWaiting[U] \in Seq(Reqs) /\ Held(decWaiting[U], DecQueued(U))
          BY <1>2, <1>7, <4>1, QueueIs
        <4> QED
          BY <4>2, HeldPop
      <3> HIDE DEF r
      <3>3. Need(r) \in Int
        BY <3>2, PoolsAssumption DEF Need
      <3> QED
        BY <2>2, <3>1, <3>3
    <2> QED
      BY <1>8, <1>11, <2>3 DEF Rests
  <1>12. RestOK'
    <2>1. Rests(U) => Rests(U)'
      <3>1. PICK u : u = U
        OBVIOUS
      <3>2. Rests(u) => Rests(u)'
        BY <1>1, RestsStays DEF Quiet
      <3> QED
        BY <1>5, <3>1, <3>2
    <2> QED
      BY <1>1, <1>2, <1>5, <1>6, <1>11, <2>1, RestForming DEF Quiet
  <1> QED
    BY <1>1, <1>3, <1>4, <1>9, <1>10, <1>12, OnlyCall

-----------------------------------------------------------------------------
(* Entries for the batch.                                                  *)

(* An entry pushed for the rank at hand: the ranks before it have theirs.  *)
LEMMA EntryIn ==
  ASSUME NEW r \in Reqs, NEW u \in Units, NEW tok \in Nat
  PROVE  /\ Entry(r, u, tok) \in Tickets
         /\ Entry(r, u, tok).req = r /\ Entry(r, u, tok).unit = u /\ Entry(r, u, tok).tokens = tok
PROOF
  BY DEF Entry, Tickets

(* A chunk is some of what the prefill has left, within the budget.        *)
LEMMA ChunkIs ==
  ASSUME NEW r, left[r] \in Nat \ {0}, Head(todo).budget \in Nat \ {0}
  PROVE  Chunk(r) \in 1 .. left[r] /\ Chunk(r) \in Nat \ {0} /\ Chunk(r) <= Head(todo).budget
PROOF
  <1>1. PICK a, b, c : a = left[r] /\ b = ChunkTokens /\ c = Head(todo).budget
    OBVIOUS
  <1>2. a \in Nat /\ b \in Nat /\ c \in Nat /\ a > 0 /\ b > 0 /\ c > 0
    BY <1>1, PoolsAssumption
  <1>3. PICK m : m = Min({a, b, c})
    OBVIOUS
  <1>4. m \in Nat /\ m <= a /\ m <= b /\ m <= c /\ m > 0
    BY <1>2, <1>3, LeastOf
  <1>5. m \in 1 .. a /\ m \in Nat \ {0}
    BY <1>2, <1>4
  <1>6. Chunk(r) = m
    BY <1>1, <1>3 DEF Chunk
  <1> QED
    BY <1>1, <1>4, <1>5, <1>6

(* No pass of another worker is touched by the one that forms a batch.     *)
LEMMA KeepForming ==
  ASSUME PoolsTypeOK, HandlerOK, KeepSlots, Forming, busy' = busy,
         \A w \in AllWorkers \ {W} : batch'[w] = batch[w],
         \A r \in Reqs : \/ decUnit'[r] = decUnit[r] /\ (st'[r] = "decode" <=> st[r] = "decode")
                         \/ decUnit'[r] = decUnit[r] /\ decUnit[r][1] = W
  PROVE  KeepSlots'
PROOF
  <1>1. ~ busy[W]
    BY FormingIs
  <1>2. \A w \in WorkersOf(Decode) : w \in AllWorkers
    BY DEF AllWorkers, Decode
  <1>3. \A w \in WorkersOf(Decode) : busy'[w] => busy[w] /\ w # W
    BY <1>1
  <1>4. \A w \in WorkersOf(Decode) : busy'[w] =>
          /\ busy[w] /\ batch'[w] = batch[w]
          /\ \A r \in Reqs : st'[r] = "decode" /\ decUnit'[r][1] = w <=> st[r] = "decode" /\ decUnit[r][1] = w
    BY <1>2, <1>3
  <1> QED
    BY <1>4, KeepStays

(* A prefill goes on: its next chunk, if there is room for it.             *)
LEMMA PrefillChunkSafe ==
  ASSUME PoolsInv, PrefillChunk
  PROVE  PoolsInv'
PROOF
  <1>0. PICK r : r = running[U][I]
    OBVIOUS
  <1> DEFINE fits == used[U] + Chunk(r) <= Cap[Prefill]
  <1>00. PICK tok : tok = IF fits THEN Chunk(r) ELSE 0
    OBVIOUS
  <1>1. /\ At("prefill") /\ Forming /\ I <= Len(running[U]) /\ Head(todo).budget > 0
        /\ used' = [used EXCEPT ![U] = @ + tok] /\ alloc' = [alloc EXCEPT ![r] = @ + tok]
        /\ IF fits
             THEN batch' = [batch EXCEPT ![W] = Append(@, Entry(r, U, tok))] /\ Becomes(Taken(tok))
             ELSE Becomes([Head(todo) EXCEPT !.i = @ + 1]) /\ UNCHANGED batch
        /\ UNCHANGED <<st, unit, decUnit, left, gen, decAlloc, running, waiting, decWaiting, busy, xfers, rr, sticky, trees, remaining>>
    BY <1>0, <1>00 DEF PrefillChunk, router, At, Forming, Open
  <1>2. /\ PoolsTypeOK /\ HandlerOK /\ QueueOK /\ BatchOK /\ StoredOK /\ SlotsOK /\ LoopOK
        /\ CountOK /\ RestOK /\ RoomExact /\ KeepSlots /\ TreesExact
    BY DEF PoolsInv
  <1>3. P = Prefill /\ ~ Idle
    BY <1>1, <1>2 DEF HandlerOK, At
  <1>4. /\ I \in Nat \ {0} /\ Head(todo).budget \in Nat /\ Head(todo).do = "prefill"
        /\ U \in Ranks(Prefill) /\ U \in Units /\ U[1] = W /\ U[2] = Head(todo).rank /\ W \in AllWorkers
    BY <1>1, <1>2, <1>3, CallIs DEF At
  <1>5. r \in Served(U) /\ r \in Reqs /\ I \in 1 .. Len(running[U])
    <2>1. I \in 1 .. Len(running[U])
      BY <1>1, <1>4, RunningIs
    <2> QED
      BY <1>0, <1>1, <2>1, RunningIs
  <1>6. ~ InPass(r)
    <2> SUFFICES ASSUME InPass(r)
                 PROVE  FALSE
      OBVIOUS
    <2>1. r \in Computed(U)
      BY <1>1, <1>5, RunningIs
    <2>2. \E j \in 1 .. I - 1 : j \in DOMAIN running[U] /\ running[U][j] = r
      BY <1>1, <1>2, <2>1 DEF LoopOK
    <2>3. PICK j \in 1 .. I - 1 : j \in DOMAIN running[U] /\ running[U][j] = r
      BY <2>2
    <2>4. j \in 1 .. Len(running[U]) /\ j # I
      BY <1>1, <1>4, <2>3, RunningIs
    <2> QED
      BY <1>0, <1>1, <1>5, <2>3, <2>4, RunningIs
  <1>7. /\ st[r] = "prefill" /\ unit[r] = U /\ left[r] \in 1 .. Isl[r] /\ Isl[r] \in Nat
        /\ alloc[r] = Isl[r] - left[r]
    <2>1. st[r] = "prefill" /\ unit[r] = U
      <3>1. Served(U) = {x \in Reqs : st[x] = "prefill" /\ unit[x] = U}
        BY <1>2, <1>4, QueueIs
      <3> QED
        BY <1>5, <3>1
    <2> QED
      BY <1>2, <1>5, <1>6, <2>1, PoolsAssumption DEF StoredOK
  <1>8. Chunk(r) \in 1 .. left[r] /\ Chunk(r) \in Nat /\ Chunk(r) <= Head(todo).budget
    <2>1. left[r] \in Nat \ {0} /\ Head(todo).budget \in Nat \ {0}
      BY <1>1, <1>4, <1>7
    <2> QED
      BY <2>1, ChunkIs
  <1>9. used[U] \in Int /\ alloc[r] \in Nat /\ used \in [Units -> Int] /\ alloc \in [Reqs -> Nat] /\ decAlloc \in [Reqs -> Nat]
    BY <1>2, <1>4, <1>5 DEF PoolsTypeOK
  <1>10. CASE ~ fits
    <2> DEFINE d == [Head(todo) EXCEPT !.i = @ + 1]
    <2>1. Quiet /\ Becomes(d)
      <3>1. tok = 0
        BY <1>00, <1>10
      <3>2. used' = used /\ alloc' = alloc
        BY <1>1, <1>9, <3>1
      <3> QED
        BY <1>1, <1>10, <3>2 DEF Quiet
    <2>2. /\ d \in CallType /\ d.do = "prefill" /\ d.w = W /\ d.rank = Head(todo).rank /\ d.i = I + 1
          /\ d.budget = Head(todo).budget /\ d.seqs = Head(todo).seqs
      BY <1>2, <1>3, <1>4, CallMoves
    <2> HIDE DEF d, fits
    <2>3. /\ HandlerOK' /\ (~ Idle)' /\ Forming' /\ Head(todo') = d
          /\ W' = W /\ P' = P /\ U' = U /\ I' = I + 1 /\ Head(todo').rank = Head(todo).rank
          /\ \A k : At(k)' <=> k = "prefill"
          /\ \A w : Untried(w)' => Untried(w) /\ w # W
      BY <1>1, <1>2, <1>3, <2>1, <2>2, FormStep DEF Quiet
    <2>4. \A u : Computed(u)' = Computed(u)
      BY <1>1, <1>2, <2>1, <2>3, PassesForm DEF Quiet
    <2>5. SlotsOK'
      BY <1>2, <1>3, <2>1, <2>3, SlotsStay DEF Quiet
    <2>6. LoopOK'
      <3>1. /\ \A i \in DOMAIN batch[W] : batch[W][i].unit[2] <= Head(todo).rank
            /\ \A x \in Computed(U) : \E j \in 1 .. I - 1 : j \in DOMAIN running[U] /\ running[U][j] = x
            /\ Computed(U) # {} \/ (Head(todo).seqs = 0 /\ Head(todo).budget = TokCap[P])
        BY <1>1, <1>2 DEF LoopOK
      <3>2. 1 .. I - 1 \subseteq 1 .. (I + 1) - 1
        BY <1>4
      <3> QED
        BY <2>1, <2>2, <2>3, <2>4, <3>1, <3>2 DEF LoopOK, Quiet
    <2>7. RestOK'
      BY <1>1, <1>2, <2>1, <2>3, <2>4, RestForming DEF Quiet
    <2> QED
      BY <1>1, <1>3, <2>1, <2>2, <2>5, <2>6, <2>7, OnlyCall
  <1>11. CASE fits
    <2> DEFINE d == Taken(tok)
    <2>0. PICK e : e = Entry(r, U, tok)
      OBVIOUS
    <2>1. tok = Chunk(r) /\ tok \in Nat /\ used[U] + tok <= Cap[Prefill]
      BY <1>00, <1>8, <1>11
    <2>2. Becomes(d) /\ batch' = [batch EXCEPT ![W] = Append(@, e)]
      BY <1>1, <1>11, <2>0
    <2> HIDE DEF fits
    <2>3. e \in Tickets /\ e.req = r /\ e.unit = U /\ e.tokens = tok
      BY <1>4, <1>5, <2>0, <2>1, EntryIn
    <2>4. /\ d \in CallType /\ d.do = "prefill" /\ d.w = W /\ d.rank = Head(todo).rank /\ d.i = I + 1
      BY <1>2, <1>3, <1>4, <1>8, <2>1, CallMoves
    <2> HIDE DEF d
    <2>5. /\ HandlerOK' /\ todo' \in Seq(CallType) /\ (~ Idle)' /\ Forming' /\ Head(todo') = d
          /\ W' = W /\ P' = P /\ U' = U /\ I' = I + 1 /\ Head(todo').rank = Head(todo).rank
          /\ \A k : At(k)' <=> k = "prefill"
          /\ \A w : ~ InCommit(w) /\ ~ InCommit(w)'
          /\ \A w : Untried(w)' => Untried(w) /\ w # W
      BY <1>1, <1>2, <1>3, <2>2, <2>4, FormStep
    <2>6. /\ batch' \in [AllWorkers -> Seq(Tickets)]
          /\ LET n == Len(batch[W]) + 1 IN
             /\ batch'[W][n] = e /\ DOMAIN batch'[W] = DOMAIN batch[W] \cup {n}
          /\ \A i \in DOMAIN batch[W] : batch'[W][i] = batch[W][i]
          /\ \A w \in AllWorkers \ {W} : batch'[w] = batch[w]
          /\ \A x : InPass(x)' <=> InPass(x) \/ x = e.req
          /\ \A u \in Units : u # e.unit => Computed(u)' = Computed(u)
          /\ Computed(e.unit)' = Computed(e.unit) \cup {e.req}
      BY <1>1, <1>2, <1>4, <2>2, <2>3, <2>5, EntryPushed
    <2>7. used'[U] = used[U] + tok /\ alloc'[r] = alloc[r] + tok
          /\ used' \in [Units -> Int] /\ alloc' \in [Reqs -> Nat]
          /\ (\A u \in Units \ {U} : used'[u] = used[u]) /\ \A x \in Reqs \ {r} : alloc'[x] = alloc[x]
      BY <1>1, <1>4, <1>5, <1>9, <2>1
    <2>8. PoolsTypeOK'
      BY <1>1, <1>2, <2>5, <2>6, <2>7 DEF PoolsTypeOK, Tickets
    <2>9. QueueOK'
      BY <1>1, <1>2, <2>5, QueuesStay
    <2>10. BatchOK'
      BY <1>1, <1>2, <1>3, <1>4, <1>6, <1>7, <1>8, <2>1, <2>2, <2>3, <2>5, BatchGrows
    <2>11. StoredOK'
      <3>1. InPass(r)'
        BY <2>3, <2>6
      <3>2. Stored(r)'
        BY <1>1, <1>7, <3>1 DEF Stored
      <3>3. alloc'[r] = Isl[r] - left'[r] + tok
        BY <1>1, <1>7, <2>1, <2>7
      <3>4. \A x : x # r => st'[x] = st[x] /\ left'[x] = left[x] /\ alloc'[x] = alloc[x]
        BY <1>1, <1>9
      <3> QED
        BY <1>1, <1>2, <1>4, <1>6, <2>2, <2>3, <2>5, <3>2, <3>3, <3>4, StoredGrows
    <2>12. CountOK'
      BY <1>1, <1>2, CountStays
    <2>13. TreesExact'
      BY <1>1, <1>2, <2>12, HomesStay
    <2>14. KeepSlots'
      BY <1>1, <1>2, <2>6, KeepForming
    <2>15. RoomExact'
      <3>1. \A x \in Reqs \ {r} : /\ st'[x] = st[x] /\ unit'[x] = unit[x] /\ decUnit'[x] = decUnit[x]
                                  /\ alloc'[x] = alloc[x] /\ decAlloc'[x] = decAlloc[x]
        BY <1>1, <2>7
      <3>2. ASSUME NEW u \in Units
            PROVE  used'[u] = used[u] - Share(u, r) + Share(u, r)'
        <4>1. CASE u = U
          <5>1. Share(U, r) = alloc[r]
            BY <1>4, <1>5, <1>7 DEF Share, Holding
          <5>2. Share(u, r)' = alloc'[r]
            BY <1>1, <1>4, <1>5, <1>7, <4>1 DEF Share, Holding
          <5> QED
            BY <1>9, <2>1, <2>7, <4>1, <5>1, <5>2
        <4>2. CASE u # U
          <5>1. Share(u, r) = 0 /\ Share(u, r)' = 0
            BY <1>1, <1>7, <4>2 DEF Share, Holding, Reserving
          <5> QED
            BY <1>9, <2>7, <4>2, <5>1
        <4> QED
          BY <4>1, <4>2
      <3>3. PoolOf(U[1]) = Prefill
        BY <1>3, <1>4 DEF P
      <3>4. \A u \in Units : used'[u] <= used[u] \/ used'[u] <= Cap[PoolOf(u[1])]
        BY <1>9, <2>1, <2>7, <3>3
      <3>5. st'[r] = "prefill" /\ decAlloc' \in [Reqs -> Nat]
        BY <1>1, <1>7, <1>9
      <3> QED
        BY <1>2, <1>5, <2>7, <3>1, <3>2, <3>4, <3>5, RoomStep
    <2>16. SlotsOK'
      BY <1>1, <1>2, <1>3, <2>5, SlotsStay
    <2>17. LoopOK'
      <3>1. /\ \A i \in DOMAIN batch[W] : batch[W][i].unit[2] <= Head(todo).rank
            /\ \A x \in Computed(U) : \E j \in 1 .. I - 1 : j \in DOMAIN running[U] /\ running[U][j] = x
        BY <1>1, <1>2 DEF LoopOK
      <3>2. \A i \in DOMAIN batch'[W] : batch'[W][i].unit[2] <= Head(todo).rank
        <4>1. U[2] <= Head(todo).rank
          <5>1. Head(todo).rank \in Nat
            BY <1>2, <1>3, CallIs
          <5> QED
            BY <1>4, <5>1
        <4> QED
          BY <2>3, <2>6, <3>1, <4>1
      <3>3. Computed(U)' = Computed(U) \cup {r}
        <4>1. PICK u : u = U
          OBVIOUS
        <4>2. Computed(u)' = Computed(u) \cup {r}
          BY <2>3, <2>6, <4>1
        <4> QED
          BY <2>5, <4>1, <4>2
      <3>4. \A x \in Computed(U)' : \E j \in 1 .. (I + 1) - 1 : j \in DOMAIN running'[U] /\ running'[U][j] = x
        <4>1. 1 .. I - 1 \subseteq 1 .. (I + 1) - 1 /\ I \in 1 .. (I + 1) - 1
          BY <1>4
        <4>2. I \in DOMAIN running[U] /\ running[U][I] = r
          BY <1>0, <1>5, <1>1, RunningIs
        <4> QED
          BY <1>1, <3>1, <3>3, <4>1, <4>2
      <3> QED
        BY <2>5, <3>2, <3>3, <3>4 DEF LoopOK
    <2>18. RestOK'
      <3>1. \A u \in Units \ {U} : Computed(u)' = Computed(u)
        BY <2>3, <2>6
      <3> QED
        BY <1>1, <1>2, <2>5, <3>1, RestForming
    <2> QED
      BY <2>5, <2>8, <2>9, <2>10, <2>11, <2>12, <2>13, <2>14, <2>15, <2>16, <2>17, <2>18 DEF PoolsInv
  <1> QED
    BY <1>10, <1>11

(* A request starts to run on the rank at hand.                            *)
LEMMA RunsMore ==
  ASSUME PoolsInv, Forming, NEW r \in Reqs, r \notin Served(U),
         running' = [running EXCEPT ![U] = Append(@, r)],
         \A u \in Units : Served(u)' = IF u = U THEN Served(u) \cup {r} ELSE Served(u)
  PROVE  /\ running' \in [Units -> Seq(Reqs)]
         /\ \A u \in Units : /\ IsInjective(running'[u])
                             /\ \A x \in Reqs : Contains(running'[u], x) <=> x \in Served(u)'
         /\ Len(running'[U]) = Len(running[U]) + 1
         /\ \A u \in Units \ {U} : running'[u] = running[u]
PROOF
  <1>1. PoolsTypeOK /\ HandlerOK /\ QueueOK /\ U \in Units /\ U[1] = W /\ running \in [Units -> Seq(Reqs)]
    BY RunningIs DEF PoolsTypeOK
  <1>2. \A w : ~ InCommit(w)
    BY <1>1, FormingIs
  <1>3. \A u \in Units : /\ running[u] \in Seq(Reqs) /\ IsInjective(running[u])
                         /\ \A x \in Reqs : Contains(running[u], x) <=> x \in Served(u)
    BY <1>1, <1>2, QueueIs
  <1>4. running'[U] = Append(running[U], r) /\ \A u \in Units \ {U} : running'[u] = running[u]
    BY <1>1
  <1>5. PICK s : s = running[U]
    OBVIOUS
  <1>6. /\ Append(s, r) \in Seq(Reqs) /\ Len(Append(s, r)) = Len(s) + 1
        /\ (\A y : Contains(Append(s, r), y) <=> y = r \/ Contains(s, y)) /\ IsInjective(Append(s, r))
    BY <1>1, <1>3, <1>5, PushBack
  <1>7. running' \in [Units -> Seq(Reqs)]
    BY <1>1, <1>5, <1>6
  <1>8. \A u \in Units : /\ IsInjective(running'[u])
                         /\ \A x \in Reqs : Contains(running'[u], x) <=> x \in Served(u)'
    <2> SUFFICES ASSUME NEW u \in Units
                 PROVE  /\ IsInjective(running'[u])
                        /\ \A x \in Reqs : Contains(running'[u], x) <=> x \in Served(u)'
      OBVIOUS
    <2>1. CASE u = U
      <3>1. Served(u)' = Served(U) \cup {r}
        BY <2>1
      <3>2. running'[u] = Append(s, r)
        BY <1>4, <1>5, <2>1
      <3> QED
        BY <1>1, <1>3, <1>5, <1>6, <3>1, <3>2
    <2>2. CASE u # U
      BY <1>3, <1>4, <2>2
    <2> QED
      BY <2>1, <2>2
  <1> QED
    BY <1>4, <1>5, <1>6, <1>7, <1>8

(* A queue that holds a set next is right if that is who is in it then.    *)
LEMMA HeldNext ==
  ASSUME NEW t, NEW X, Held(t, X)
  PROVE  /\ \A u : waiting'[u] = t /\ Queued(u)' = X => Held(waiting[u], Queued(u))'
         /\ \A u : decWaiting'[u] = t /\ DecQueued(u)' = X => Held(decWaiting[u], DecQueued(u))'
         /\ \A w : xfers'[w] = t /\ Sent(w)' = X => Held(xfers[w], Sent(w))'
PROOF
  <1>1. IsInjective(t) /\ \A r \in Reqs : Contains(t, r) <=> r \in X
    BY DEF Held
  <1>2. ASSUME NEW u, waiting'[u] = t, Queued(u)' = X
        PROVE  Held(waiting[u], Queued(u))'
    BY <1>1, <1>2 DEF Held
  <1>3. ASSUME NEW u, decWaiting'[u] = t, DecQueued(u)' = X
        PROVE  Held(decWaiting[u], DecQueued(u))'
    BY <1>1, <1>3 DEF Held
  <1>4. ASSUME NEW w, xfers'[w] = t, Sent(w)' = X
        PROVE  Held(xfers[w], Sent(w))'
    BY <1>1, <1>4 DEF Held
  <1> QED
    BY <1>2, <1>3, <1>4

(* The first waiting prompt that fits is admitted, with its first chunk.   *)
LEMMA AdmitPrefillSafe ==
  ASSUME PoolsInv, AdmitPrefill
  PROVE  PoolsInv'
PROOF
  <1>0. PICK r : r = Head(waiting[U])
    OBVIOUS
  <1>00. PICK tok : tok = Chunk(r)
    OBVIOUS
  <1>000. PICK e : e = Entry(r, U, tok)
    OBVIOUS
  <1> DEFINE d == Taken(tok)
  <1>1. /\ At("admit") /\ Forming /\ waiting[U] # <<>> /\ Head(todo).budget > 0
        /\ used[U] + tok <= Cap[Prefill]
        /\ st' = [st EXCEPT ![r] = "prefill"]
        /\ used' = [used EXCEPT ![U] = @ + tok] /\ alloc' = [alloc EXCEPT ![r] = tok]
        /\ running' = [running EXCEPT ![U] = Append(@, r)]
        /\ waiting' = [waiting EXCEPT ![U] = Tail(@)]
        /\ batch' = [batch EXCEPT ![W] = Append(@, e)] /\ Becomes(d)
        /\ UNCHANGED <<unit, decUnit, left, gen, decAlloc, decWaiting, busy, xfers, rr, sticky, trees, remaining>>
    BY <1>0, <1>00, <1>000 DEF AdmitPrefill, router, At, Forming, Open
  <1>2. /\ PoolsTypeOK /\ HandlerOK /\ QueueOK /\ BatchOK /\ StoredOK /\ SlotsOK /\ LoopOK
        /\ CountOK /\ RestOK /\ RoomExact /\ KeepSlots /\ TreesExact
    BY DEF PoolsInv
  <1>3. P = Prefill /\ ~ Idle
    BY <1>1, <1>2 DEF HandlerOK, At
  <1>4. /\ I \in Nat \ {0} /\ Head(todo).budget \in Nat /\ Head(todo).do = "admit"
        /\ U \in Ranks(Prefill) /\ U \in Units /\ U[1] = W /\ U[2] = Head(todo).rank /\ W \in AllWorkers
    BY <1>1, <1>2, <1>3, CallIs DEF At
  <1>5. PICK s : s = waiting[U]
    OBVIOUS
  <1>6. /\ s \in Seq(Reqs) /\ Held(s, Queued(U)) /\ r \in Reqs /\ r \in Queued(U)
        /\ Tail(s) \in Seq(Reqs) /\ Held(Tail(s), Queued(U) \ {r})
    <2>1. s \in Seq(Reqs) /\ Held(s, Queued(U)) /\ s # <<>> /\ r = Head(s)
      BY <1>0, <1>1, <1>2, <1>4, <1>5, QueueIs
    <2> QED
      BY <2>1, HeldPop
  <1>7. st[r] = "queued" /\ unit[r] = U
    BY <1>6 DEF Queued
  <1>8. ~ InPass(r)
    BY <1>2, <1>7, OneEntry
  <1>9. left[r] = Isl[r] /\ Isl[r] \in Nat \ {0} /\ left[r] \in Nat \ {0}
    BY <1>2, <1>6, <1>7, PoolsAssumption DEF StoredOK
  <1>10. tok \in 1 .. left[r] /\ tok \in Nat /\ tok <= Head(todo).budget
    BY <1>00, <1>1, <1>4, <1>9, ChunkIs
  <1>11. /\ used[U] \in Int /\ used \in [Units -> Int] /\ alloc \in [Reqs -> Nat] /\ decAlloc \in [Reqs -> Nat]
         /\ st \in [Reqs -> States] /\ waiting \in [Units -> Seq(Reqs)]
    BY <1>2, <1>4 DEF PoolsTypeOK
  <1>12. e \in Tickets /\ e.req = r /\ e.unit = U /\ e.tokens = tok
    BY <1>000, <1>4, <1>6, <1>10, EntryIn
  <1>13. /\ d \in CallType /\ d.do = "admit" /\ d.w = W /\ d.rank = Head(todo).rank /\ d.i = I + 1
    BY <1>2, <1>3, <1>4, <1>10, CallMoves
  <1> HIDE DEF d
  <1>14. /\ HandlerOK' /\ todo' \in Seq(CallType) /\ (~ Idle)' /\ Forming' /\ Head(todo') = d
         /\ W' = W /\ P' = P /\ U' = U /\ Head(todo').rank = Head(todo).rank
         /\ \A k : At(k)' <=> k = "admit"
         /\ \A w : ~ InCommit(w) /\ ~ InCommit(w)'
         /\ \A w : Untried(w)' => Untried(w) /\ w # W
    BY <1>1, <1>2, <1>3, <1>13, FormStep
  <1>15. /\ batch' \in [AllWorkers -> Seq(Tickets)]
         /\ LET n == Len(batch[W]) + 1 IN
            /\ batch'[W][n] = e /\ DOMAIN batch'[W] = DOMAIN batch[W] \cup {n}
         /\ \A i \in DOMAIN batch[W] : batch'[W][i] = batch[W][i]
         /\ \A w \in AllWorkers \ {W} : batch'[w] = batch[w]
         /\ \A x : InPass(x)' <=> InPass(x) \/ x = e.req
         /\ \A u \in Units : u # e.unit => Computed(u)' = Computed(u)
         /\ Computed(e.unit)' = Computed(e.unit) \cup {e.req}
    BY <1>1, <1>2, <1>4, <1>12, <1>14, EntryPushed
  <1>16. /\ used'[U] = used[U] + tok /\ alloc'[r] = tok /\ st'[r] = "prefill"
         /\ used' \in [Units -> Int] /\ alloc' \in [Reqs -> Nat] /\ st' \in [Reqs -> States]
         /\ waiting' \in [Units -> Seq(Reqs)] /\ waiting'[U] = Tail(s)
         /\ \A u \in Units \ {U} : used'[u] = used[u] /\ waiting'[u] = waiting[u]
         /\ \A x : x # r => alloc'[x] = alloc[x] /\ st'[x] = st[x]
    BY <1>1, <1>4, <1>5, <1>6, <1>10, <1>11 DEF States
  <1>17. \A u \in Units : Served(u)' = IF u = U THEN Served(u) \cup {r} ELSE Served(u)
    BY <1>1, <1>6, <1>7, <1>16 DEF Served
  <1>18. /\ running' \in [Units -> Seq(Reqs)]
         /\ \A u \in Units : /\ IsInjective(running'[u])
                             /\ \A x \in Reqs : Contains(running'[u], x) <=> x \in Served(u)'
         /\ \A u \in Units \ {U} : running'[u] = running[u]
    <2>1. r \notin Served(U)
      BY <1>7 DEF Served
    <2> QED
      BY <1>1, <1>6, <1>17, <2>1, RunsMore
  <1>19. PoolsTypeOK'
    BY <1>1, <1>2, <1>14, <1>15, <1>16, <1>18 DEF PoolsTypeOK, Tickets
  <1>20. QueueOK'
    <2>1. \A x \in Reqs : /\ st'[x] \in States \ {"pending", "done"} => unit'[x] # None
                          /\ st'[x] \in {"delivering", "dec_queued", "decode"} => decUnit'[x] # None
      <3>1. unit[r] # None
        BY <1>2, <1>6, <1>7 DEF QueueOK, States
      <3> QED
        BY <1>1, <1>2, <1>16, <3>1 DEF QueueOK
    <2>2. \A u \in Units : /\ Queued(u)' = IF u = U THEN Queued(u) \ {r} ELSE Queued(u)
                           /\ DecQueued(u)' = DecQueued(u)
      BY <1>1, <1>6, <1>7, <1>16 DEF Queued, DecQueued
    <2>3. \A w : Sent(w)' = Sent(w)
      BY <1>1, <1>7, <1>16 DEF Sent
    <2>4. ASSUME NEW u \in Units
          PROVE  Held(waiting[u], Queued(u))' /\ Held(decWaiting[u], DecQueued(u))'
      <3>1. Held(waiting[u], Queued(u)) /\ Held(decWaiting[u], DecQueued(u))
        BY <1>2 DEF QueueOK
      <3>2. Held(decWaiting[u], DecQueued(u))'
        BY <1>1, <2>2, <3>1, HeldNext
      <3>3. Held(waiting[u], Queued(u))'
        <4>1. CASE u = U
          BY <1>6, <1>16, <2>2, <4>1, HeldNext
        <4>2. CASE u # U
          BY <1>16, <2>2, <3>1, <4>2, HeldNext
        <4> QED
          BY <4>1, <4>2
      <3> QED
        BY <3>2, <3>3
    <2>5. \A w \in WorkersOf(Decode) : Held(xfers[w], Sent(w))'
      BY <1>1, <1>2, <2>3 DEF QueueOK, Held
    <2> QED
      BY <1>18, <2>1, <2>4, <2>5 DEF QueueOK
  <1>21. BatchOK'
    BY <1>1, <1>2, <1>3, <1>4, <1>7, <1>8, <1>10, <1>12, <1>14, <1>16, BatchGrows
  <1>22. StoredOK'
    <2>1. Stored(r)'
      BY <1>1, <1>9, <1>12, <1>15, <1>16 DEF Stored
    <2>2. alloc'[r] = Isl[r] - left'[r] + tok
      BY <1>1, <1>9, <1>10, <1>16
    <2> QED
      BY <1>1, <1>2, <1>4, <1>8, <1>12, <1>14, <1>16, <2>1, <2>2, StoredGrows
  <1>23. CountOK'
    BY <1>1, <1>2, <1>7, <1>16, CountStays
  <1>24. TreesExact'
    BY <1>1, <1>2, <1>23, HomesStay
  <1>25. KeepSlots'
    BY <1>1, <1>2, <1>7, <1>15, <1>16, KeepForming
  <1>26. RoomExact'
    <2>1. \A x \in Reqs \ {r} : /\ st'[x] = st[x] /\ unit'[x] = unit[x] /\ decUnit'[x] = decUnit[x]
                                /\ alloc'[x] = alloc[x] /\ decAlloc'[x] = decAlloc[x]
      BY <1>1, <1>16
    <2>2. ASSUME NEW u \in Units
          PROVE  used'[u] = used[u] - Share(u, r) + Share(u, r)'
      <3>1. Share(u, r) = 0
        BY <1>7 DEF Share, Holding, Reserving
      <3>2. Share(u, r)' = IF u = U THEN tok ELSE 0
        BY <1>1, <1>4, <1>6, <1>7, <1>16 DEF Share, Holding, Reserving
      <3> QED
        BY <1>4, <1>10, <1>11, <1>16, <3>1, <3>2
    <2>3. PoolOf(U[1]) = Prefill
      BY <1>3, <1>4 DEF P
    <2>4. \A u \in Units : used'[u] <= used[u] \/ used'[u] <= Cap[PoolOf(u[1])]
      BY <1>1, <1>11, <1>16, <2>3
    <2>5. decAlloc' \in [Reqs -> Nat]
      BY <1>1, <1>11
    <2> QED
      BY <1>2, <1>6, <1>16, <2>1, <2>2, <2>4, <2>5, RoomStep
  <1>27. SlotsOK'
    <2>1. \A u \in Ranks(Decode) : u \in Units \ {U}
      BY <1>4, UnitIs DEF Pool, Decode
    <2> QED
      BY <1>2, <1>3, <1>14, <1>18, <2>1, SlotsStay
  <1>28. LoopOK'
    <2>1. \A i \in DOMAIN batch[W] : batch[W][i].unit[2] <= Head(todo).rank
      BY <1>1, <1>2 DEF LoopOK
    <2>2. \A i \in DOMAIN batch'[W] : batch'[W][i].unit[2] <= Head(todo).rank
      <3>1. Head(todo).rank \in Nat
        BY <1>2, <1>3, CallIs
      <3> QED
        BY <1>4, <1>12, <1>15, <2>1, <3>1
    <2>3. Computed(U)' # {}
      <3>1. PICK u : u = U
        OBVIOUS
      <3>2. Computed(u)' # {}
        BY <1>12, <1>15, <3>1
      <3> QED
        BY <1>14, <3>1, <3>2
    <2> QED
      BY <1>14, <2>2, <2>3 DEF LoopOK
  <1>29. RestOK'
    <2>1. \A u \in Units \ {U} : Computed(u)' = Computed(u)
      BY <1>12, <1>15
    <2> QED
      BY <1>1, <1>2, <1>7, <1>14, <1>16, <1>18, <2>1, RestForming
  <1> QED
    BY <1>14, <1>19, <1>20, <1>21, <1>22, <1>23, <1>24, <1>25, <1>26, <1>27, <1>28, <1>29 DEF PoolsInv

(* The ranks before the one at hand have their decode sequences computed   *)
(* still.                                                                  *)
LEMMA SlotsBefore ==
  ASSUME PoolsTypeOK, HandlerOK, SlotsOK, Forming, P = Decode, W' = W, Head(todo').rank = Head(todo).rank,
         \A u \in Units \ {U} : Computed(u)' = Computed(u) /\ Reserving(u)' = Reserving(u)
  PROVE  (\A k \in 1 .. Head(todo).rank - 1 : Computed(<<W, k>>) = Reserving(<<W, k>>))'
PROOF
  <1>1. \A k \in 1 .. Head(todo).rank - 1 : Computed(<<W, k>>) = Reserving(<<W, k>>)
    BY DEF SlotsOK
  <1>2. W \in AllWorkers /\ P = PoolOf(W) /\ U = <<W, Head(todo).rank>> /\ Head(todo).rank \in 1 .. Dp[P] /\ Dp[P] \in Nat
    BY FormingIs, CallIs, WorkersAre DEF U
  <1>3. ASSUME NEW k \in 1 .. Head(todo).rank - 1
        PROVE  Computed(<<W, k>>)' = Reserving(<<W, k>>)'
    <2>1. k \in 1 .. Dp[PoolOf(W)] /\ k # Head(todo).rank
      BY <1>2
    <2>2. <<W, k>> \in Units \ {U}
      BY <1>2, <2>1, UnitIs, PoolIs
    <2>3. PICK u : u = <<W, k>>
      OBVIOUS
    <2>4. Computed(u)' = Reserving(u)' /\ u = <<W', k>>
      BY <1>1, <2>2, <2>3
    <2> QED
      BY <2>4
  <1> QED
    BY <1>3

(* A decode sequence takes its step.                                       *)
LEMMA DecodeStepSafe ==
  ASSUME PoolsInv, DecodeStep
  PROVE  PoolsInv'
PROOF
  <1>0. PICK r : r = running[U][I]
    OBVIOUS
  <1>00. PICK e : e = Entry(r, U, Step)
    OBVIOUS
  <1> DEFINE d == Taken(Step)
             n == Len(running[U])
  <1>1. /\ At("decode") /\ Forming /\ I <= n /\ Slot
        /\ batch' = [batch EXCEPT ![W] = Append(@, e)] /\ Becomes(d)
        /\ UNCHANGED <<st, unit, decUnit, left, gen, alloc, decAlloc, used, running, waiting, decWaiting,
                       busy, xfers, rr, sticky, trees, remaining>>
    BY <1>0, <1>00 DEF DecodeStep, req, rank, router, At, Forming
  <1>2. /\ PoolsTypeOK /\ HandlerOK /\ QueueOK /\ BatchOK /\ StoredOK /\ SlotsOK /\ LoopOK
        /\ CountOK /\ RestOK /\ RoomExact /\ KeepSlots /\ TreesExact
    BY DEF PoolsInv
  <1>3. P = Decode /\ ~ Idle /\ Prefill # Decode
    BY <1>1, <1>2 DEF HandlerOK, At, Prefill, Decode
  <1>4. /\ I \in Nat \ {0} /\ Head(todo).budget \in Nat /\ Head(todo).seqs \in Nat /\ Head(todo).do = "decode"
        /\ U \in Ranks(Decode) /\ U \in Units /\ U[1] = W /\ U[2] = Head(todo).rank /\ W \in AllWorkers
    BY <1>1, <1>2, <1>3, CallIs DEF At
  <1>5. r \in Served(U) /\ r \in Reqs /\ I \in 1 .. n /\ n \in Nat
    <2>1. I \in 1 .. n /\ n \in Nat
      BY <1>1, <1>4, RunningIs
    <2> QED
      BY <1>0, <1>1, <2>1, RunningIs
  <1>6. st[r] = "decode" /\ decUnit[r] = U
    <2>1. Served(U) = Reserving(U)
      BY <1>2, <1>4, QueueIs
    <2> QED
      BY <1>5, <2>1 DEF Reserving
  <1>7. /\ Computed(U) = {running[U][j] : j \in 1 .. I - 1}
        /\ Head(todo).seqs = I - 1 /\ Head(todo).budget = TokCap[P] - (I - 1) * Step
    BY <1>1, <1>2, <1>3 DEF SlotsOK
  <1>8. ~ InPass(r)
    <2> SUFFICES ASSUME InPass(r)
                 PROVE  FALSE
      OBVIOUS
    <2>1. r \in Computed(U)
      BY <1>1, <1>5, RunningIs
    <2>2. PICK j \in 1 .. I - 1 : running[U][j] = r
      BY <1>7, <2>1
    <2>3. j \in 1 .. n /\ j # I
      BY <1>5, <2>2
    <2> QED
      BY <1>0, <1>1, <1>5, <2>2, <2>3, RunningIs
  <1>9. Step \in Nat /\ Step <= Head(todo).budget
    <2>1. Step \in Nat
      BY PoolsAssumption DEF Step
    <2> QED
      BY <1>1, <1>4, <2>1 DEF Slot
  <1>10. e \in Tickets /\ e.req = r /\ e.unit = U /\ e.tokens = Step
    BY <1>00, <1>4, <1>5, <1>9, EntryIn
  <1>11. /\ d \in CallType /\ d.do = "decode" /\ d.w = W /\ d.rank = Head(todo).rank /\ d.i = I + 1
         /\ d.budget = Head(todo).budget - Step /\ d.seqs = Head(todo).seqs + 1
    BY <1>2, <1>3, <1>4, <1>9, CallMoves
  <1> HIDE DEF d
  <1>12. /\ HandlerOK' /\ todo' \in Seq(CallType) /\ (~ Idle)' /\ Forming' /\ Head(todo') = d
         /\ W' = W /\ P' = P /\ U' = U /\ I' = I + 1 /\ Head(todo').rank = Head(todo).rank
         /\ \A k : At(k)' <=> k = "decode"
         /\ \A w : ~ InCommit(w) /\ ~ InCommit(w)'
         /\ \A w : Untried(w)' => Untried(w) /\ w # W
    BY <1>1, <1>2, <1>3, <1>11, FormStep
  <1>13. /\ batch' \in [AllWorkers -> Seq(Tickets)]
         /\ LET m == Len(batch[W]) + 1 IN
            /\ batch'[W][m] = e /\ DOMAIN batch'[W] = DOMAIN batch[W] \cup {m}
         /\ \A i \in DOMAIN batch[W] : batch'[W][i] = batch[W][i]
         /\ \A w \in AllWorkers \ {W} : batch'[w] = batch[w]
         /\ \A x : InPass(x)' <=> InPass(x) \/ x = e.req
         /\ \A u \in Units : u # e.unit => Computed(u)' = Computed(u)
         /\ Computed(e.unit)' = Computed(e.unit) \cup {e.req}
    BY <1>1, <1>2, <1>4, <1>10, <1>12, EntryPushed
  <1>14. PoolsTypeOK'
    BY <1>1, <1>2, <1>12, <1>13 DEF PoolsTypeOK, Tickets
  <1>15. QueueOK'
    BY <1>1, <1>2, <1>12, QueuesStay
  <1>16. BatchOK'
    BY <1>1, <1>2, <1>3, <1>4, <1>6, <1>8, <1>10, <1>12, BatchGrows
  <1>17. StoredOK'
    <2>1. Stored(r)'
      BY <1>1, <1>6 DEF Stored
    <2> QED
      BY <1>1, <1>2, <1>3, <1>4, <1>8, <1>10, <1>12, <2>1, StoredGrows
  <1>18. CountOK'
    BY <1>1, <1>2, CountStays
  <1>19. TreesExact'
    BY <1>1, <1>2, <1>18, HomesStay
  <1>20. KeepSlots'
    BY <1>1, <1>2, <1>13, KeepForming
  <1>21. RoomExact'
    <2>1. \A u : Holding(u)' = Holding(u) /\ Reserving(u)' = Reserving(u)
      BY <1>1 DEF Holding, Reserving
    <2> QED
      BY <1>1, <1>2, <2>1, RoomStays
  <1>22. SlotsOK'
    <2>1. \A u \in Ranks(Decode) : Fits(Len(running'[u]))
      BY <1>1, <1>2 DEF SlotsOK
    <2>2. \A u \in Units \ {U} : Computed(u)' = Computed(u) /\ Reserving(u)' = Reserving(u)
      BY <1>1, <1>10, <1>13 DEF Reserving
    <2>3. (\A k \in 1 .. Head(todo).rank - 1 : Computed(<<W, k>>) = Reserving(<<W, k>>))'
      BY <1>1, <1>2, <1>3, <1>12, <2>2, SlotsBefore
    <2>4. I + 1 <= n + 1 /\ Head(todo').seqs = (I + 1) - 1
      BY <1>1, <1>4, <1>5, <1>7, <1>11, <1>12
    <2>5. Head(todo').budget = TokCap[P] - ((I + 1) - 1) * Step
      <3>1. PICK m : m = I - 1
        OBVIOUS
      <3>2. m \in Nat /\ m <= n /\ (I + 1) - 1 = m + 1 /\ Fits(n)
        BY <1>2, <1>4, <1>5, <2>1, <3>1 DEF SlotsOK
      <3>3. (m + 1) * Step = m * Step + Step /\ m * Step \in Nat
        BY <1>5, <3>2, FewerFit
      <3>4. Head(todo').budget = TokCap[P] - m * Step - Step
        BY <1>7, <1>11, <1>12, <3>1
      <3>5. TokCap[P] \in Nat
        BY <1>3, WorkersAre DEF Decode, Pool
      <3>6. \A a, b, c \in Nat : a - b - c = a - (b + c)
        OBVIOUS
      <3>7. TokCap[P] - m * Step - Step = TokCap[P] - (m * Step + Step)
        BY <1>9, <3>3, <3>5, <3>6
      <3> QED
        BY <3>2, <3>3, <3>4, <3>7
    <2>6. Computed(U)' = {running[U][j] : j \in 1 .. (I + 1) - 1}
      <3>1. PICK u : u = U
        OBVIOUS
      <3>2. Computed(u)' = Computed(u) \cup {r}
        BY <1>10, <1>13, <3>1
      <3>3. Computed(U)' = Computed(U) \cup {r}
        BY <1>12, <3>1, <3>2
      <3>4. 1 .. (I + 1) - 1 = (1 .. I - 1) \cup {I}
        BY <1>4
      <3> QED
        BY <1>0, <1>7, <3>3, <3>4
    <2>7. \A k : Fits(k)' <=> Fits(k)
      BY DEF Fits, Step
    <2>8. (At("decode") => /\ I <= Len(running[U]) + 1
                           /\ Computed(U) = {running[U][j] : j \in 1 .. I - 1}
                           /\ Head(todo).seqs = I - 1 /\ Head(todo).budget = TokCap[P] - (I - 1) * Step)'
      BY <1>1, <1>12, <2>4, <2>5, <2>6 DEF Step
    <2>9. At("decode")' /\ ~ At("dec_admit")'
      BY <1>12
    <2> QED
      BY <2>1, <2>3, <2>7, <2>8, <2>9 DEF SlotsOK
  <1>23. LoopOK'
    <2>1. \A i \in DOMAIN batch[W] : batch[W][i].unit[2] <= Head(todo).rank
      BY <1>1, <1>2 DEF LoopOK
    <2>2. \A i \in DOMAIN batch'[W] : batch'[W][i].unit[2] <= Head(todo).rank
      <3>1. Head(todo).rank \in Nat
        BY <1>2, <1>3, CallIs
      <3> QED
        BY <1>4, <1>10, <1>13, <2>1, <3>1
    <2> QED
      BY <1>12, <2>2 DEF LoopOK
  <1>24. RestOK'
    <2>1. \A u \in Units \ {U} : Computed(u)' = Computed(u)
      BY <1>10, <1>13
    <2> QED
      BY <1>1, <1>2, <1>12, <2>1, RestForming
  <1> QED
    BY <1>12, <1>14, <1>15, <1>16, <1>17, <1>18, <1>19, <1>20, <1>21, <1>22, <1>23, <1>24 DEF PoolsInv

(* The first request that fits the decode rank is admitted, with its step. *)
LEMMA AdmitDecodeSafe ==
  ASSUME PoolsInv, AdmitDecode
  PROVE  PoolsInv'
PROOF
  <1>0. PICK r : r = Head(decWaiting[U])
    OBVIOUS
  <1>00. PICK e : e = Entry(r, U, Step)
    OBVIOUS
  <1> DEFINE d == Taken(Step)
             n == Len(running[U])
  <1>1. /\ At("dec_admit") /\ Forming /\ decWaiting[U] # <<>> /\ Slot
        /\ used[U] + Need(r) <= Cap[Decode]
        /\ st' = [st EXCEPT ![r] = "decode"]
        /\ used' = [used EXCEPT ![U] = @ + Need(r)] /\ decAlloc' = [decAlloc EXCEPT ![r] = Need(r)]
        /\ running' = [running EXCEPT ![U] = Append(@, r)]
        /\ decWaiting' = [decWaiting EXCEPT ![U] = Tail(@)]
        /\ batch' = [batch EXCEPT ![W] = Append(@, e)] /\ Becomes(d)
        /\ UNCHANGED <<unit, decUnit, left, gen, alloc, waiting, busy, xfers, rr, sticky, trees, remaining>>
    BY <1>0, <1>00 DEF AdmitDecode, router, At, Forming
  <1>2. /\ PoolsTypeOK /\ HandlerOK /\ QueueOK /\ BatchOK /\ StoredOK /\ SlotsOK /\ LoopOK
        /\ CountOK /\ RestOK /\ RoomExact /\ KeepSlots /\ TreesExact
    BY DEF PoolsInv
  <1>3. P = Decode /\ ~ Idle /\ Prefill # Decode
    BY <1>1, <1>2 DEF HandlerOK, At, Prefill, Decode
  <1>4. /\ I \in Nat \ {0} /\ Head(todo).budget \in Nat /\ Head(todo).seqs \in Nat /\ Head(todo).do = "dec_admit"
        /\ U \in Ranks(Decode) /\ U \in Units /\ U[1] = W /\ U[2] = Head(todo).rank /\ W \in AllWorkers
    BY <1>1, <1>2, <1>3, CallIs DEF At
  <1>5. PICK s : s = decWaiting[U]
    OBVIOUS
  <1>6. /\ s \in Seq(Reqs) /\ Held(s, DecQueued(U)) /\ r \in Reqs /\ r \in DecQueued(U)
        /\ Tail(s) \in Seq(Reqs) /\ Held(Tail(s), DecQueued(U) \ {r})
    <2>1. s \in Seq(Reqs) /\ Held(s, DecQueued(U)) /\ s # <<>> /\ r = Head(s)
      BY <1>0, <1>1, <1>2, <1>4, <1>5, QueueIs
    <2> QED
      BY <2>1, HeldPop
  <1>7. st[r] = "dec_queued" /\ decUnit[r] = U
    BY <1>6 DEF DecQueued
  <1>8. ~ InPass(r)
    BY <1>2, <1>7, OneEntry
  <1>9. /\ Step \in Nat /\ Step <= Head(todo).budget /\ Head(todo).seqs < SeqCap[Decode]
        /\ Need(r) \in Nat /\ Need(r) = Isl[r] + Osl[r] - 1
    <2>1. Step \in Nat
      BY PoolsAssumption DEF Step
    <2>2. Isl[r] \in Nat \ {0} /\ Osl[r] \in Nat \ {0}
      BY <1>6, PoolsAssumption
    <2> QED
      BY <1>1, <1>4, <2>1, <2>2 DEF Slot, Need
  <1>10. PICK need : need = Need(r)
    OBVIOUS
  <1>11. /\ used[U] \in Int /\ used \in [Units -> Int] /\ alloc \in [Reqs -> Nat] /\ decAlloc \in [Reqs -> Nat]
         /\ st \in [Reqs -> States] /\ decWaiting \in [Units -> Seq(Reqs)]
    BY <1>2, <1>4 DEF PoolsTypeOK
  <1>12. e \in Tickets /\ e.req = r /\ e.unit = U /\ e.tokens = Step
    BY <1>00, <1>4, <1>6, <1>9, EntryIn
  <1>13. /\ d \in CallType /\ d.do = "dec_admit" /\ d.w = W /\ d.rank = Head(todo).rank /\ d.i = I + 1
         /\ d.budget = Head(todo).budget - Step /\ d.seqs = Head(todo).seqs + 1
    BY <1>2, <1>3, <1>4, <1>9, CallMoves
  <1> HIDE DEF d
  <1>14. /\ HandlerOK' /\ todo' \in Seq(CallType) /\ (~ Idle)' /\ Forming' /\ Head(todo') = d
         /\ W' = W /\ P' = P /\ U' = U /\ Head(todo').rank = Head(todo).rank
         /\ \A k : At(k)' <=> k = "dec_admit"
         /\ \A w : ~ InCommit(w) /\ ~ InCommit(w)'
         /\ \A w : Untried(w)' => Untried(w) /\ w # W
    BY <1>1, <1>2, <1>3, <1>13, FormStep
  <1>15. /\ batch' \in [AllWorkers -> Seq(Tickets)]
         /\ LET m == Len(batch[W]) + 1 IN
            /\ batch'[W][m] = e /\ DOMAIN batch'[W] = DOMAIN batch[W] \cup {m}
         /\ \A i \in DOMAIN batch[W] : batch'[W][i] = batch[W][i]
         /\ \A w \in AllWorkers \ {W} : batch'[w] = batch[w]
         /\ \A x : InPass(x)' <=> InPass(x) \/ x = e.req
         /\ \A u \in Units : u # e.unit => Computed(u)' = Computed(u)
         /\ Computed(e.unit)' = Computed(e.unit) \cup {e.req}
    BY <1>1, <1>2, <1>4, <1>12, <1>14, EntryPushed
  <1>16. /\ used'[U] = used[U] + need /\ decAlloc'[r] = need /\ st'[r] = "decode"
         /\ used' \in [Units -> Int] /\ decAlloc' \in [Reqs -> Nat] /\ st' \in [Reqs -> States]
         /\ decWaiting' \in [Units -> Seq(Reqs)] /\ decWaiting'[U] = Tail(s)
         /\ \A u \in Units \ {U} : used'[u] = used[u] /\ decWaiting'[u] = decWaiting[u]
         /\ \A x : x # r => decAlloc'[x] = decAlloc[x] /\ st'[x] = st[x]
    <2>1. used'[U] = used[U] + need /\ used' \in [Units -> Int]
      <3>1. used' = [used EXCEPT ![U] = used[U] + need] /\ need \in Nat
        BY <1>1, <1>9, <1>10
      <3> QED
        BY <1>4, <1>11, <3>1
    <2>2. decAlloc'[r] = need /\ decAlloc' \in [Reqs -> Nat]
      <3>1. decAlloc' = [decAlloc EXCEPT ![r] = need] /\ need \in Nat
        BY <1>1, <1>9, <1>10
      <3> QED
        BY <1>6, <1>11, <3>1
    <2>3. st'[r] = "decode" /\ st' \in [Reqs -> States]
      BY <1>1, <1>6, <1>11 DEF States
    <2>4. decWaiting' \in [Units -> Seq(Reqs)] /\ decWaiting'[U] = Tail(s)
      BY <1>1, <1>4, <1>5, <1>6, <1>11
    <2>5. \A u \in Units \ {U} : used'[u] = used[u] /\ decWaiting'[u] = decWaiting[u]
      BY <1>1, <1>11
    <2>6. \A x : x # r => decAlloc'[x] = decAlloc[x] /\ st'[x] = st[x]
      BY <1>1
    <2> QED
      BY <2>1, <2>2, <2>3, <2>4, <2>5, <2>6
  <1>17. \A u \in Units : Served(u)' = IF u = U THEN Served(u) \cup {r} ELSE Served(u)
    BY <1>1, <1>6, <1>7, <1>16 DEF Served
  <1>18. /\ running' \in [Units -> Seq(Reqs)]
         /\ \A u \in Units : /\ IsInjective(running'[u])
                             /\ \A x \in Reqs : Contains(running'[u], x) <=> x \in Served(u)'
         /\ \A u \in Units \ {U} : running'[u] = running[u]
         /\ Len(running'[U]) = n + 1
    <2>1. r \notin Served(U)
      BY <1>7 DEF Served
    <2> QED
      BY <1>1, <1>6, <1>17, <2>1, RunsMore
  <1>19. PoolsTypeOK'
    BY <1>1, <1>2, <1>14, <1>15, <1>16, <1>18 DEF PoolsTypeOK, Tickets
  <1>20. QueueOK'
    <2>1. \A x \in Reqs : /\ st'[x] \in States \ {"pending", "done"} => unit'[x] # None
                          /\ st'[x] \in {"delivering", "dec_queued", "decode"} => decUnit'[x] # None
      <3>1. unit[r] # None /\ decUnit[r] # None
        BY <1>2, <1>6, <1>7 DEF QueueOK, States
      <3> QED
        BY <1>1, <1>2, <1>16, <3>1 DEF QueueOK
    <2>2. \A u \in Units : /\ DecQueued(u)' = IF u = U THEN DecQueued(u) \ {r} ELSE DecQueued(u)
                           /\ Queued(u)' = Queued(u)
      BY <1>1, <1>6, <1>7, <1>16 DEF Queued, DecQueued
    <2>3. \A w : Sent(w)' = Sent(w)
      BY <1>1, <1>7, <1>16 DEF Sent
    <2>4. ASSUME NEW u \in Units
          PROVE  Held(waiting[u], Queued(u))' /\ Held(decWaiting[u], DecQueued(u))'
      <3>1. Held(waiting[u], Queued(u)) /\ Held(decWaiting[u], DecQueued(u))
        BY <1>2 DEF QueueOK
      <3>2. Held(waiting[u], Queued(u))'
        BY <1>1, <2>2, <3>1, HeldNext
      <3>3. Held(decWaiting[u], DecQueued(u))'
        <4>1. CASE u = U
          BY <1>6, <1>16, <2>2, <4>1, HeldNext
        <4>2. CASE u # U
          BY <1>16, <2>2, <3>1, <4>2, HeldNext
        <4> QED
          BY <4>1, <4>2
      <3> QED
        BY <3>2, <3>3
    <2>5. \A w \in WorkersOf(Decode) : Held(xfers[w], Sent(w))'
      BY <1>1, <1>2, <2>3 DEF QueueOK, Held
    <2> QED
      BY <1>18, <2>1, <2>4, <2>5 DEF QueueOK
  <1>21. BatchOK'
    BY <1>1, <1>2, <1>3, <1>4, <1>7, <1>8, <1>12, <1>14, <1>16, BatchGrows
  <1>22. StoredOK'
    <2>1. Stored(r)'
      BY <1>1, <1>16 DEF Stored
    <2> QED
      BY <1>1, <1>2, <1>3, <1>4, <1>8, <1>12, <1>14, <1>16, <2>1, StoredGrows
  <1>23. CountOK'
    BY <1>1, <1>2, <1>7, <1>16, CountStays
  <1>24. TreesExact'
    BY <1>1, <1>2, <1>23, HomesStay
  <1>25. KeepSlots'
    BY <1>1, <1>2, <1>4, <1>7, <1>15, <1>16, KeepForming
  <1>26. RoomExact'
    <2>1. \A x \in Reqs \ {r} : /\ st'[x] = st[x] /\ unit'[x] = unit[x] /\ decUnit'[x] = decUnit[x]
                                /\ alloc'[x] = alloc[x] /\ decAlloc'[x] = decAlloc[x]
      BY <1>1, <1>16
    <2>2. ASSUME NEW u \in Units
          PROVE  used'[u] = used[u] - Share(u, r) + Share(u, r)'
      <3>1. Share(u, r) = 0
        BY <1>7 DEF Share, Holding, Reserving
      <3>2. U \notin Ranks(Prefill)
        BY <1>4, UnitIs
      <3>3. Share(u, r)' = IF u = U THEN need ELSE 0
        BY <1>1, <1>4, <1>6, <1>7, <1>16, <3>2 DEF Share, Holding, Reserving
      <3> QED
        BY <1>4, <1>9, <1>10, <1>11, <1>16, <3>1, <3>3
    <2>3. PoolOf(U[1]) = Decode
      BY <1>3, <1>4 DEF P
    <2>4. \A u \in Units : used'[u] <= used[u] \/ used'[u] <= Cap[PoolOf(u[1])]
      BY <1>1, <1>10, <1>11, <1>16, <2>3
    <2>5. alloc' \in [Reqs -> Nat] /\ decAlloc'[r] = Isl[r] + Osl[r] - 1
      BY <1>1, <1>9, <1>10, <1>11, <1>16
    <2> QED
      BY <1>2, <1>6, <1>16, <2>1, <2>2, <2>4, <2>5, RoomStep
  <1>27. SlotsOK'
    <2>0. ~ At("decode")
      BY <1>1 DEF At
    <2>1. /\ Head(todo).seqs = n /\ Head(todo).budget = TokCap[P] - n * Step /\ Computed(U) = Reserving(U)
          /\ Fits(n)
      BY <1>1, <1>2, <1>3, <1>4, <2>0 DEF SlotsOK
    <2>2. \A u \in Units : Reserving(u)' = IF u = U THEN Reserving(u) \cup {r} ELSE Reserving(u)
      BY <1>1, <1>6, <1>7, <1>16 DEF Reserving
    <2>3. \A u \in Units \ {U} : Computed(u)' = Computed(u) /\ Reserving(u)' = Reserving(u)
      BY <1>12, <1>15, <2>2
    <2>4. (\A k \in 1 .. Head(todo).rank - 1 : Computed(<<W, k>>) = Reserving(<<W, k>>))'
      BY <1>1, <1>2, <1>3, <1>14, <2>3, SlotsBefore
    <2>5. n \in Nat /\ TokCap[P] \in Nat /\ SeqCap[P] \in Nat
      BY <1>1, <1>3, RunningIs, WorkersAre DEF Pool, Decode
    <2>6. n * Step \in Nat /\ (n + 1) * Step = n * Step + Step
      BY <2>1, <2>5, FewerFit
    <2>7. Head(todo').seqs = n + 1 /\ Head(todo').budget = TokCap[P] - (n + 1) * Step
      <3>1. Head(todo').budget = TokCap[P] - n * Step - Step
        BY <1>13, <1>14, <2>1
      <3>2. \A a, b, c \in Nat : a - b - c = a - (b + c)
        OBVIOUS
      <3>3. TokCap[P] - n * Step - Step = TokCap[P] - (n * Step + Step)
        BY <1>9, <2>5, <2>6, <3>2
      <3> QED
        BY <1>13, <1>14, <2>1, <2>6, <3>1, <3>3
    <2>8. Fits(n + 1)
      <3>1. \A a, b, c \in Nat : b <= a - c => c + b <= a
        OBVIOUS
      <3>2. n * Step + Step <= TokCap[P]
        BY <1>9, <2>1, <2>5, <2>6, <3>1
      <3>3. n + 1 <= SeqCap[Decode]
        BY <1>3, <1>9, <2>1, <2>5
      <3> QED
        BY <1>3, <2>6, <3>2, <3>3 DEF Fits
    <2>9. \A u \in Ranks(Decode) : Fits(Len(running'[u]))
      <3>1. \A u \in Ranks(Decode) : u \in Units
        BY UnitIs DEF Decode, Pool
      <3> QED
        BY <1>2, <1>18, <2>8, <3>1 DEF SlotsOK
    <2>10. Computed(U)' = Reserving(U)'
      <3>1. PICK u : u = U
        OBVIOUS
      <3>2. Computed(u)' = Reserving(u)'
        BY <1>4, <1>12, <1>15, <2>1, <2>2, <3>1
      <3> QED
        BY <1>14, <3>1, <3>2
    <2>11. \A k : Fits(k)' <=> Fits(k)
      BY DEF Fits, Step
    <2>12. (At("dec_admit") => /\ Head(todo).seqs = Len(running[U])
                               /\ Head(todo).budget = TokCap[P] - Len(running[U]) * Step)'
      BY <1>14, <1>18, <2>7 DEF Step
    <2>13. ~ At("decode")'
      BY <1>14
    <2> QED
      BY <2>4, <2>9, <2>10, <2>11, <2>12, <2>13 DEF SlotsOK
  <1>28. LoopOK'
    <2>1. \A i \in DOMAIN batch[W] : batch[W][i].unit[2] <= Head(todo).rank
      BY <1>1, <1>2 DEF LoopOK
    <2>2. \A i \in DOMAIN batch'[W] : batch'[W][i].unit[2] <= Head(todo).rank
      <3>1. Head(todo).rank \in Nat
        BY <1>2, <1>3, CallIs
      <3> QED
        BY <1>4, <1>12, <1>15, <2>1, <3>1
    <2> QED
      BY <1>14, <2>2 DEF LoopOK
  <1>29. RestOK'
    <2>1. \A u \in Units \ {U} : Computed(u)' = Computed(u)
      BY <1>12, <1>15
    <2> QED
      BY <1>1, <1>2, <1>7, <1>14, <1>16, <1>18, <2>1, RestForming
  <1> QED
    BY <1>14, <1>19, <1>20, <1>21, <1>22, <1>23, <1>24, <1>25, <1>26, <1>27, <1>28, <1>29 DEF PoolsInv

-----------------------------------------------------------------------------
(* Requests that no rank can hold.                                         *)

(* A step that leaves the handler where it is.                             *)
LEMMA SameCall ==
  ASSUME PoolsTypeOK, HandlerOK, ~ Idle, UNCHANGED <<todo, busy>>
  PROVE  /\ HandlerOK' /\ (~ Idle)' /\ W' = W /\ P' = P /\ U' = U /\ I' = I
         /\ \A d : At(d)' <=> At(d)
         /\ Forming' <=> Forming
         /\ \A w : InCommit(w)' <=> InCommit(w)
         /\ \A w : Untried(w)' => Untried(w) /\ w # W
PROOF
  <1>1. (~ Idle)' /\ W' = W /\ P' = P /\ U' = U /\ I' = I
    BY DEF Idle, W, P, U, I
  <1>2. \A d : At(d)' <=> At(d)
    BY DEF At, Idle
  <1>3. Forming' <=> Forming
    BY DEF Forming, Idle
  <1>4. \A w : InCommit(w)' <=> InCommit(w)
    BY <1>1, <1>2 DEF InCommit
  <1>5. ASSUME NEW w, Untried(w)'
        PROVE  Untried(w) /\ w # W
    <2>1. Untried(w)
      BY <1>5 DEF Untried
    <2>2. 1 \in DOMAIN todo /\ Head(todo) = todo[1]
      BY CallIs
    <2> QED
      BY <2>1, <2>2 DEF Untried, W
  <1>6. HandlerOK'
    BY <1>1, <1>2, <1>3 DEF HandlerOK
  <1> QED
    BY <1>1, <1>2, <1>3, <1>4, <1>5, <1>6

(* A request that runs nowhere ends, while a batch is formed.              *)
LEMMA RejectSafe ==
  ASSUME PoolsInv, Forming, At("admit") \/ At("dec_admit"), NEW r \in Reqs, st[r] \in {"queued", "dec_queued"}, Rejected(r),
         UNCHANGED <<unit, decUnit, left, gen, alloc, decAlloc, used, running, busy, batch, xfers, todo>>,
         waiting' \in [Units -> Seq(Reqs)], decWaiting' \in [Units -> Seq(Reqs)],
         \A u \in Units : Held(waiting[u], Queued(u))' /\ Held(decWaiting[u], DecQueued(u))',
         \A u \in Units \ {U} : waiting'[u] = waiting[u] /\ decWaiting'[u] = decWaiting[u]
  PROVE  PoolsInv'
PROOF
  <1>1. /\ st' = [st EXCEPT ![r] = "done"] /\ AfterDone(r)
        /\ UNCHANGED <<unit, decUnit, left, gen, alloc, decAlloc, used, running, busy, batch, xfers, todo>>
    BY DEF Rejected
  <1>2. /\ PoolsTypeOK /\ HandlerOK /\ QueueOK /\ BatchOK /\ StoredOK /\ SlotsOK /\ LoopOK
        /\ CountOK /\ RestOK /\ RoomExact /\ KeepSlots /\ TreesExact
    BY DEF PoolsInv
  <1>3. /\ HandlerOK' /\ (~ Idle)' /\ W' = W /\ P' = P /\ U' = U /\ Forming'
        /\ \A d : At(d)' <=> At(d)
        /\ \A w : ~ InCommit(w) /\ ~ InCommit(w)'
        /\ \A w : Untried(w)' => Untried(w) /\ w # W
    BY <1>1, <1>2, FormingIs, SameCall
  <1>4. ~ InPass(r)
    BY <1>2, OneEntry
  <1>5. st'[r] = "done" /\ (\A x \in Reqs \ {r} : st'[x] = st[x]) /\ st' \in [Reqs -> States]
    BY <1>1, <1>2 DEF PoolsTypeOK, States
  <1>6. /\ CountOK' /\ TreesExact'
        /\ trees' \in [AllWorkers -> Nat] /\ remaining' \in [Trees -> Nat]
        /\ rr' \in [Pool -> Nat] /\ sticky' \in [Trees -> [Pool -> AllWorkers \cup {None}]]
    BY <1>1, <1>2, CountDone
  <1>7. /\ \A w : Pass(w)' = Pass(w)
        /\ \A x : InPass(x)' <=> InPass(x)
        /\ \A u : Computed(u)' = Computed(u)
    BY <1>1, <1>2, <1>3, PassesForm
  <1>8. PoolsTypeOK'
    BY <1>1, <1>2, <1>5, <1>6 DEF PoolsTypeOK
  <1>9. QueueOK'
    <2>1. \A x \in Reqs : /\ st'[x] \in States \ {"pending", "done"} => unit'[x] # None
                          /\ st'[x] \in {"delivering", "dec_queued", "decode"} => decUnit'[x] # None
      BY <1>1, <1>2, <1>5 DEF QueueOK
    <2>2. \A u : Served(u)' = Served(u)
      BY <1>1, <1>5 DEF Served
    <2>3. \A w : Sent(w)' = Sent(w)
      BY <1>1, <1>5 DEF Sent
    <2>4. ASSUME NEW u \in Units
          PROVE  /\ IsInjective(running'[u])
                 /\ \A x \in Reqs : /\ x \in Served(u)' => Contains(running'[u], x)
                                    /\ Contains(running'[u], x) => x \in Served(u)'
      BY <1>1, <1>2, <1>3, <2>2, QueueIs
    <2>5. \A w \in WorkersOf(Decode) : Held(xfers[w], Sent(w))'
      BY <1>1, <1>2, <2>3 DEF QueueOK, Held
    <2> QED
      BY <2>1, <2>4, <2>5 DEF QueueOK
  <1>10. BatchOK'
    <2>1. \A x : InPass(x)' => st'[x] = st[x] /\ unit'[x] = unit[x] /\ decUnit'[x] = decUnit[x] /\ left'[x] = left[x]
      BY <1>1, <1>2, <1>4, <1>5, <1>7, OneEntry
    <2> QED
      BY <1>1, <1>2, <1>7, <2>1, BatchStays
  <1>11. StoredOK'
    <2>1. Stored(r)'
      BY <1>5 DEF Stored
    <2> QED
      BY <1>1, <1>2, <1>5, <1>7, <2>1, StoredStays
  <1>12. KeepSlots'
    BY <1>1, <1>2, <1>5, KeepForming
  <1>13. \A u : Holding(u)' = Holding(u) /\ Reserving(u)' = Reserving(u)
    BY <1>1, <1>5 DEF Holding, Reserving
  <1>14. RoomExact'
    BY <1>1, <1>2, <1>5, <1>13, RoomStays
  <1>15. SlotsOK'
    <2>1. \A u \in Ranks(Decode) : Fits(Len(running'[u]))
      BY <1>1, <1>2 DEF SlotsOK
    <2>2. CASE P = Prefill
      BY <1>1, <1>2, <1>3, <2>2, SlotsStay
    <2>3. CASE P = Decode
      <3>1. (\A k \in 1 .. Head(todo).rank - 1 : Computed(<<W, k>>) = Reserving(<<W, k>>))'
        BY <1>1, <1>2, <1>3, <1>7, <1>13, <2>3, SlotsBefore
      <3>2. ~ At("decode")
        BY DEF At
      <3>3. /\ At("dec_admit") => /\ Head(todo).seqs = Len(running[U])
                                  /\ Head(todo).budget = TokCap[P] - Len(running[U]) * Step
            /\ Computed(U) = Reserving(U)
        BY <1>2, <2>3, <3>2 DEF SlotsOK
      <3>4. Computed(U)' = Reserving(U)'
        <4>1. PICK u : u = U
          OBVIOUS
        <4>2. Computed(u)' = Reserving(u)'
          BY <1>7, <1>13, <3>3, <4>1
        <4> QED
          BY <1>3, <4>1, <4>2
      <3>5. (At("dec_admit") => /\ Head(todo).seqs = Len(running[U])
                                /\ Head(todo).budget = TokCap[P] - Len(running[U]) * Step)'
        BY <1>1, <1>3, <3>3 DEF Step
      <3>6. \A k : Fits(k)' <=> Fits(k)
        BY DEF Fits, Step
      <3> QED
        BY <1>3, <2>1, <3>1, <3>2, <3>4, <3>5, <3>6 DEF SlotsOK
    <2> QED
      BY <1>2, <2>2, <2>3, FormingIs
  <1>16. LoopOK'
    <2>1. ~ At("prefill")
      BY DEF At
    <2>2. /\ \A i \in DOMAIN batch[W] : batch[W][i].unit[2] <= Head(todo).rank
          /\ At("admit") => Computed(U) # {} \/ (Head(todo).seqs = 0 /\ Head(todo).budget = TokCap[P])
      BY <1>2 DEF LoopOK
    <2>3. Computed(U)' = Computed(U)
      <3>1. PICK u : u = U
        OBVIOUS
      <3>2. Computed(u)' = Computed(u)
        BY <1>7
      <3> QED
        BY <1>3, <3>1, <3>2
    <2>4. (\A i \in DOMAIN batch[W] : batch[W][i].unit[2] <= Head(todo).rank)'
      BY <1>1, <1>3, <2>2
    <2>5. (At("admit") => Computed(U) # {} \/ (Head(todo).seqs = 0 /\ Head(todo).budget = TokCap[P]))'
      BY <1>1, <1>3, <2>2, <2>3
    <2>6. ~ At("prefill")'
      BY <1>3, <2>1
    <2> QED
      BY <2>4, <2>5, <2>6 DEF LoopOK
  <1>17. RestOK'
    <2>1. ~ At("close")'
      BY <1>3 DEF At
    <2>2. Head(todo').rank = Head(todo).rank
      BY <1>1
    <2>3. \A x \in Reqs : st[x] = "delivering" => st'[x] = "delivering" /\ unit'[x] = unit[x]
      BY <1>1, <1>5
    <2> QED
      BY <1>1, <1>2, <1>3, <1>7, <2>1, <2>2, <2>3, RestForming
  <1> QED
    BY <1>3, <1>6, <1>8, <1>9, <1>10, <1>11, <1>12, <1>14, <1>15, <1>16, <1>17 DEF PoolsInv

(* A prompt longer than a prefill rank, and a request longer than a decode *)
(* rank.                                                                   *)
LEMMA RejectPrefillSafe ==
  ASSUME PoolsInv, RejectPrefill
  PROVE  PoolsInv'
PROOF
  <1>0. PICK r : r = Head(waiting[U])
    OBVIOUS
  <1>1. /\ At("admit") /\ Forming /\ waiting[U] # <<>> /\ Rejected(r)
        /\ waiting' = [waiting EXCEPT ![U] = Tail(@)]
        /\ UNCHANGED <<unit, decUnit, left, gen, alloc, decAlloc, used, running, decWaiting, busy, batch, xfers, todo>>
    BY <1>0 DEF RejectPrefill, worker, At, Forming
  <1>2. PoolsTypeOK /\ HandlerOK /\ QueueOK /\ U \in Units
    BY <1>1, RunningIs
  <1>3. PICK s : s = waiting[U]
    OBVIOUS
  <1>4. /\ s \in Seq(Reqs) /\ Held(s, Queued(U)) /\ r \in Reqs /\ r \in Queued(U)
        /\ Tail(s) \in Seq(Reqs) /\ Held(Tail(s), Queued(U) \ {r})
    <2>1. s \in Seq(Reqs) /\ Held(s, Queued(U)) /\ s # <<>> /\ r = Head(s)
      BY <1>0, <1>1, <1>2, <1>3, QueueIs
    <2> QED
      BY <2>1, HeldPop
  <1>5. st[r] = "queued" /\ unit[r] = U
    BY <1>4 DEF Queued
  <1>6. st'[r] = "done" /\ \A x \in Reqs \ {r} : st'[x] = st[x]
    BY <1>1, <1>2, <1>4 DEF Rejected, PoolsTypeOK
  <1>7. /\ waiting' \in [Units -> Seq(Reqs)] /\ waiting'[U] = Tail(s) /\ decWaiting' \in [Units -> Seq(Reqs)]
        /\ \A u \in Units \ {U} : waiting'[u] = waiting[u] /\ decWaiting'[u] = decWaiting[u]
    BY <1>1, <1>2, <1>3, <1>4 DEF PoolsTypeOK
  <1>8. \A u : Queued(u)' = (IF u = U THEN Queued(u) \ {r} ELSE Queued(u)) /\ DecQueued(u)' = DecQueued(u)
    BY <1>1, <1>4, <1>5, <1>6 DEF Queued, DecQueued
  <1>9. ASSUME NEW u \in Units
        PROVE  Held(waiting[u], Queued(u))' /\ Held(decWaiting[u], DecQueued(u))'
    <2>1. Held(waiting[u], Queued(u)) /\ Held(decWaiting[u], DecQueued(u))
      BY <1>2 DEF QueueOK
    <2>2. Held(decWaiting[u], DecQueued(u))'
      BY <1>1, <1>8, <2>1, HeldNext
    <2>3. CASE u = U
      BY <1>4, <1>7, <1>8, <2>2, <2>3, HeldNext
    <2>4. CASE u # U
      BY <1>7, <1>8, <2>1, <2>2, <2>4, HeldNext
    <2> QED
      BY <2>3, <2>4
  <1> QED
    BY <1>1, <1>4, <1>5, <1>7, <1>9, RejectSafe

(* A delivery that no decode rank could ever hold is rejected.             *)
LEMMA RejectDecodeSafe ==
  ASSUME PoolsInv, RejectDecode
  PROVE  PoolsInv'
PROOF
  <1>0. PICK r : r = Head(decWaiting[U])
    OBVIOUS
  <1>1. /\ At("dec_admit") /\ Forming /\ decWaiting[U] # <<>> /\ Rejected(r)
        /\ decWaiting' = [decWaiting EXCEPT ![U] = Tail(@)]
        /\ UNCHANGED <<unit, decUnit, left, gen, alloc, decAlloc, used, running, waiting, busy, batch, xfers, todo>>
    BY <1>0 DEF RejectDecode, worker, At, Forming
  <1>2. PoolsTypeOK /\ HandlerOK /\ QueueOK /\ U \in Units
    BY <1>1, RunningIs
  <1>3. PICK s : s = decWaiting[U]
    OBVIOUS
  <1>4. /\ s \in Seq(Reqs) /\ Held(s, DecQueued(U)) /\ r \in Reqs /\ r \in DecQueued(U)
        /\ Tail(s) \in Seq(Reqs) /\ Held(Tail(s), DecQueued(U) \ {r})
    <2>1. s \in Seq(Reqs) /\ Held(s, DecQueued(U)) /\ s # <<>> /\ r = Head(s)
      BY <1>0, <1>1, <1>2, <1>3, QueueIs
    <2> QED
      BY <2>1, HeldPop
  <1>5. st[r] = "dec_queued" /\ decUnit[r] = U
    BY <1>4 DEF DecQueued
  <1>6. st'[r] = "done" /\ \A x \in Reqs \ {r} : st'[x] = st[x]
    BY <1>1, <1>2, <1>4 DEF Rejected, PoolsTypeOK
  <1>7. /\ decWaiting' \in [Units -> Seq(Reqs)] /\ decWaiting'[U] = Tail(s) /\ waiting' \in [Units -> Seq(Reqs)]
        /\ \A u \in Units \ {U} : waiting'[u] = waiting[u] /\ decWaiting'[u] = decWaiting[u]
    BY <1>1, <1>2, <1>3, <1>4 DEF PoolsTypeOK
  <1>8. \A u : DecQueued(u)' = (IF u = U THEN DecQueued(u) \ {r} ELSE DecQueued(u)) /\ Queued(u)' = Queued(u)
    BY <1>1, <1>4, <1>5, <1>6 DEF Queued, DecQueued
  <1>9. ASSUME NEW u \in Units
        PROVE  Held(waiting[u], Queued(u))' /\ Held(decWaiting[u], DecQueued(u))'
    <2>1. Held(waiting[u], Queued(u)) /\ Held(decWaiting[u], DecQueued(u))
      BY <1>2 DEF QueueOK
    <2>2. Held(waiting[u], Queued(u))'
      BY <1>1, <1>8, <2>1, HeldNext
    <2>3. CASE u = U
      BY <1>4, <1>7, <1>8, <2>2, <2>3, HeldNext
    <2>4. CASE u # U
      BY <1>7, <1>8, <2>1, <2>2, <2>4, HeldNext
    <2> QED
      BY <2>3, <2>4
  <1> QED
    BY <1>1, <1>4, <1>5, <1>7, <1>9, RejectSafe

-----------------------------------------------------------------------------
(* The end of form_batch on a rank.                                        *)

(* A rank whose batch is empty runs nothing of a decode worker's, since    *)
(* there everything that runs has a slot.                                  *)
LEMMA FormedIs ==
  ASSUME PoolsInv, Forming, At("close")
  PROVE  /\ Formed(U) <=> Computed(U) # {}
         /\ ~ Formed(U) => /\ P = Decode => Served(U) = {}
                           /\ \A r \in Served(U) : st[r] = "prefill" /\ unit[r] = U /\ ~ InPass(r) /\ P = Prefill
PROOF
  <1>1. /\ PoolsTypeOK /\ HandlerOK /\ QueueOK /\ SlotsOK /\ U \in Ranks(P) /\ U[1] = W
        /\ \A r \in Served(U) : InPass(r) => r \in Computed(U)
    BY RunningIs
  <1>2. Formed(U) <=> Computed(U) # {}
    BY <1>1 DEF Formed, Computed
  <1>3. ASSUME P = Decode, ~ Formed(U)
        PROVE  Served(U) = {}
    <2>1. Computed(U) = Reserving(U)
      <3>1. ~ At("decode")
        BY DEF At
      <3> QED
        BY <1>1, <1>3, <3>1 DEF SlotsOK
    <2>2. Served(U) = Reserving(U)
      BY <1>1, <1>3, QueueIs
    <2> QED
      BY <1>2, <1>3, <2>1, <2>2
  <1>4. ASSUME ~ Formed(U), NEW r \in Served(U)
        PROVE  st[r] = "prefill" /\ unit[r] = U /\ ~ InPass(r) /\ P = Prefill
    <2>1. P = Prefill
      BY <1>1, <1>3, <1>4, FormingIs
    <2>2. Served(U) = {x \in Reqs : st[x] = "prefill" /\ unit[x] = U}
      BY <1>1, <2>1, QueueIs
    <2> QED
      BY <1>1, <1>2, <1>4, <2>1, <2>2
  <1> QED
    BY <1>2, <1>3, <1>4

(* The youngest request of a rank goes back to the head of its queue.      *)
LEMMA PreemptSafe ==
  ASSUME PoolsInv, Preempt
  PROVE  PoolsInv'
PROOF
  <1>0. PICK r : r = Last(running[U])
    OBVIOUS
  <1>000. PICK d : d = Call(Head(Loops(P)), W, Head(todo).rank)
    OBVIOUS
  <1>1. /\ At("close") /\ Forming /\ ~ Formed(U) /\ running[U] # <<>>
        /\ st' = [st EXCEPT ![r] = "queued"]
        /\ left' = [left EXCEPT ![r] = Isl[r]]
        /\ used' = [used EXCEPT ![U] = @ - alloc[r]] /\ alloc' = [alloc EXCEPT ![r] = 0]
        /\ running' = [running EXCEPT ![U] = Front(@)]
        /\ waiting' = [waiting EXCEPT ![U] = <<r>> \o @]
        /\ Becomes(d)
        /\ UNCHANGED <<unit, decUnit, gen, decAlloc, decWaiting, busy, batch, xfers, rr, sticky, trees, remaining>>
    BY <1>0, <1>000 DEF Preempt, router, worker, At, Forming
  <1>2. /\ PoolsTypeOK /\ HandlerOK /\ QueueOK /\ BatchOK /\ StoredOK /\ SlotsOK /\ LoopOK
        /\ CountOK /\ RestOK /\ RoomExact /\ KeepSlots /\ TreesExact
    BY DEF PoolsInv
  <1>3. PICK s : s = running[U]
    OBVIOUS
  <1>4. /\ s \in Seq(Reqs) /\ IsInjective(s) /\ U \in Units /\ U \in Ranks(P) /\ U[1] = W
        /\ \A i \in 1 .. Len(s) : s[i] \in Served(U)
    BY <1>1, <1>3, RunningIs
  <1>5. /\ Front(s) \in Seq(Reqs) /\ r \in Reqs /\ Contains(s, r) /\ IsInjective(Front(s))
        /\ \A y : Contains(Front(s), y) <=> y # r /\ Contains(s, y)
    BY <1>0, <1>1, <1>3, <1>4, PopBack
  <1>6. r \in Served(U)
    <2>1. DOMAIN s = 1 .. Len(s)
      BY <1>4, LenProperties
    <2> QED
      BY <1>4, <1>5, <2>1 DEF Contains
  <1>7. /\ st[r] = "prefill" /\ unit[r] = U /\ ~ InPass(r) /\ P = Prefill
        /\ Computed(U) = {}
    BY <1>1, <1>6, FormedIs
  <1>8. U \in Ranks(Prefill) /\ ~ Idle /\ Head(todo).rank \in 1 .. Dp[P] /\ Head(todo).rank \in Nat
        /\ W \in AllWorkers /\ P = PoolOf(W)
    BY <1>1, <1>2, <1>4, <1>7, CallIs DEF At
  <1>9. /\ d \in CallType /\ d.do = "prefill" /\ d.w = W /\ d.rank = Head(todo).rank /\ d.i = 1
        /\ d.budget = TokCap[P] /\ d.seqs = 0
    <2>1. Head(Loops(P)) = "prefill"
      BY <1>7 DEF Loops
    <2> QED
      BY <1>000, <1>8, <2>1, CallType1
  <1>14. /\ HandlerOK' /\ todo' \in Seq(CallType) /\ (~ Idle)' /\ Forming' /\ Head(todo') = d
         /\ W' = W /\ P' = P /\ U' = U /\ Head(todo').rank = Head(todo).rank
         /\ \A k : At(k)' <=> k = "prefill"
         /\ \A w : ~ InCommit(w) /\ ~ InCommit(w)'
         /\ \A w : Untried(w)' => Untried(w) /\ w # W
    BY <1>1, <1>2, <1>7, <1>9, FormStep
  <1>15. /\ \A w : Pass(w)' = Pass(w)
         /\ \A x : InPass(x)' <=> InPass(x)
         /\ \A u : Computed(u)' = Computed(u)
    BY <1>1, <1>2, <1>14, PassesForm
  <1>11. /\ used[U] \in Int /\ used \in [Units -> Int] /\ alloc \in [Reqs -> Nat] /\ decAlloc \in [Reqs -> Nat]
         /\ left \in [Reqs -> Nat] /\ alloc[r] \in Nat /\ running \in [Units -> Seq(Reqs)]
         /\ st \in [Reqs -> States] /\ waiting \in [Units -> Seq(Reqs)] /\ Isl[r] \in Nat \ {0}
    BY <1>2, <1>4, <1>5, PoolsAssumption DEF PoolsTypeOK
  <1>12. PICK t : t = waiting[U]
    OBVIOUS
  <1>13. /\ t \in Seq(Reqs) /\ <<r>> \o t \in Seq(Reqs) /\ Held(<<r>> \o t, Queued(U) \cup {r})
    <2>1. Held(t, Queued(U)) /\ t \in Seq(Reqs)
      BY <1>2, <1>4, <1>11, <1>12 DEF QueueOK
    <2>2. r \notin Queued(U)
      BY <1>7 DEF Queued
    <2> QED
      BY <1>5, <2>1, <2>2, HeldPush
  <1>16. /\ used'[U] = used[U] - alloc[r] /\ alloc'[r] = 0 /\ st'[r] = "queued" /\ left'[r] = Isl[r]
         /\ used' \in [Units -> Int] /\ alloc' \in [Reqs -> Nat] /\ st' \in [Reqs -> States]
         /\ left' \in [Reqs -> Nat]
         /\ waiting' \in [Units -> Seq(Reqs)] /\ waiting'[U] = <<r>> \o t
         /\ running' \in [Units -> Seq(Reqs)] /\ running'[U] = Front(s)
         /\ \A u \in Units \ {U} : used'[u] = used[u] /\ waiting'[u] = waiting[u] /\ running'[u] = running[u]
         /\ \A x : x # r => alloc'[x] = alloc[x] /\ st'[x] = st[x] /\ left'[x] = left[x]
    <2>1. /\ used'[U] = used[U] - alloc[r] /\ alloc'[r] = 0 /\ st'[r] = "queued" /\ left'[r] = Isl[r]
          /\ used' \in [Units -> Int] /\ alloc' \in [Reqs -> Nat] /\ left' \in [Reqs -> Nat]
      <3>1. used'[U] = used[U] - alloc[r] /\ used' \in [Units -> Int]
        <4>1. PICK a : a = alloc[r]
          OBVIOUS
        <4>2. a \in Nat /\ used' = [used EXCEPT ![U] = used[U] - a]
          BY <1>1, <1>11, <4>1
        <4>3. used'[U] = used[U] - a
          BY <1>4, <1>11, <4>2
        <4>4. used' \in [Units -> Int]
          BY <1>4, <1>11, <4>2
        <4> QED
          BY <4>1, <4>3, <4>4
      <3>2. alloc'[r] = 0 /\ alloc' \in [Reqs -> Nat]
        BY <1>1, <1>5, <1>11
      <3>3. st'[r] = "queued"
        BY <1>1, <1>5, <1>11
      <3>4. left'[r] = Isl[r] /\ left' \in [Reqs -> Nat]
        BY <1>1, <1>5, <1>11
      <3> QED
        BY <3>1, <3>2, <3>3, <3>4
    <2>2. st' \in [Reqs -> States]
      BY <1>1, <1>5, <1>11 DEF States
    <2>3. /\ waiting' \in [Units -> Seq(Reqs)] /\ waiting'[U] = <<r>> \o t
      BY <1>1, <1>4, <1>11, <1>12, <1>13
    <2>4. /\ running' \in [Units -> Seq(Reqs)] /\ running'[U] = Front(s)
      BY <1>1, <1>3, <1>4, <1>5, <1>11
    <2>5. \A u \in Units \ {U} : used'[u] = used[u] /\ waiting'[u] = waiting[u] /\ running'[u] = running[u]
      BY <1>1, <1>11
    <2>6. \A x : x # r => alloc'[x] = alloc[x] /\ st'[x] = st[x] /\ left'[x] = left[x]
      BY <1>1
    <2> QED
      BY <2>1, <2>2, <2>3, <2>4, <2>5, <2>6
  <1>17. \A u \in Units : Served(u)' = IF u = U THEN Served(u) \ {r} ELSE Served(u)
    BY <1>1, <1>6, <1>7, <1>16 DEF Served
  <1>19. PoolsTypeOK'
    BY <1>1, <1>2, <1>14, <1>16 DEF PoolsTypeOK
  <1>20. QueueOK'
    <2>1. \A x \in Reqs : /\ st'[x] \in States \ {"pending", "done"} => unit'[x] # None
                          /\ st'[x] \in {"delivering", "dec_queued", "decode"} => decUnit'[x] # None
      <3>1. unit[r] # None
        BY <1>2, <1>5, <1>7 DEF QueueOK, States
      <3> QED
        BY <1>1, <1>2, <1>16, <3>1 DEF QueueOK
    <2>2. \A u \in Units : /\ Queued(u)' = IF u = U THEN Queued(u) \cup {r} ELSE Queued(u)
                           /\ DecQueued(u)' = DecQueued(u)
      BY <1>1, <1>5, <1>7, <1>16 DEF Queued, DecQueued
    <2>3. \A w : Sent(w)' = Sent(w)
      BY <1>1, <1>7, <1>16 DEF Sent
    <2>4. ASSUME NEW u \in Units
          PROVE  Held(waiting[u], Queued(u))' /\ Held(decWaiting[u], DecQueued(u))'
      <3>1. Held(waiting[u], Queued(u)) /\ Held(decWaiting[u], DecQueued(u))
        BY <1>2 DEF QueueOK
      <3>2. Held(decWaiting[u], DecQueued(u))'
        BY <1>1, <2>2, <3>1, HeldNext
      <3>3. Held(waiting[u], Queued(u))'
        <4>1. CASE u = U
          BY <1>13, <1>16, <2>2, <4>1, HeldNext
        <4>2. CASE u # U
          BY <1>16, <2>2, <3>1, <4>2, HeldNext
        <4> QED
          BY <4>1, <4>2
      <3> QED
        BY <3>2, <3>3
    <2>5. \A w \in WorkersOf(Decode) : Held(xfers[w], Sent(w))'
      BY <1>1, <1>2, <2>3 DEF QueueOK, Held
    <2>6. ASSUME NEW u \in Units
          PROVE  /\ IsInjective(running'[u])
                 /\ \A x \in Reqs : Contains(running'[u], x) <=> x \in Served(u)'
      <3>1. /\ IsInjective(running[u])
            /\ \A x \in Reqs : Contains(running[u], x) <=> x \in Served(u)
        BY <1>2, <1>14, QueueIs
      <3>2. CASE u = U
        BY <1>3, <1>5, <1>16, <1>17, <3>1, <3>2
      <3>3. CASE u # U
        BY <1>16, <1>17, <3>1, <3>3
      <3> QED
        BY <3>2, <3>3
    <2> QED
      BY <2>1, <2>4, <2>5, <2>6 DEF QueueOK
  <1>21. BatchOK'
    <2>1. \A x : InPass(x)' => st'[x] = st[x] /\ unit'[x] = unit[x] /\ decUnit'[x] = decUnit[x] /\ left'[x] = left[x]
      BY <1>1, <1>7, <1>15, <1>16
    <2> QED
      BY <1>1, <1>2, <1>15, <2>1, BatchStays
  <1>22. StoredOK'
    <2>1. Stored(r)'
      BY <1>16 DEF Stored
    <2>2. \A x : InPass(x)' => left'[x] = left[x] /\ alloc'[x] = alloc[x]
      BY <1>7, <1>15, <1>16
    <2> QED
      BY <1>1, <1>2, <1>15, <1>16, <2>1, <2>2, StoredStays
  <1>23. CountOK'
    BY <1>1, <1>2, <1>7, <1>16, CountStays
  <1>24. TreesExact'
    BY <1>1, <1>2, <1>23, HomesStay
  <1>25. KeepSlots'
    BY <1>1, <1>2, <1>7, <1>16, KeepForming
  <1>26. RoomExact'
    <2>1. \A x \in Reqs \ {r} : /\ st'[x] = st[x] /\ unit'[x] = unit[x] /\ decUnit'[x] = decUnit[x]
                                /\ alloc'[x] = alloc[x] /\ decAlloc'[x] = decAlloc[x]
      BY <1>1, <1>16
    <2>2. ASSUME NEW u \in Units
          PROVE  used'[u] = used[u] - Share(u, r) + Share(u, r)'
      <3>1. Share(u, r)' = 0
        BY <1>16 DEF Share, Holding, Reserving
      <3>2. Share(u, r) = IF u = U THEN alloc[r] ELSE 0
        BY <1>5, <1>7, <1>8 DEF Share, Holding, Reserving
      <3> QED
        BY <1>11, <1>16, <3>1, <3>2
    <2>3. used'[U] <= used[U]
      <3>1. PICK a, b, c : a = alloc[r] /\ b = used[U] /\ c = used'[U]
        OBVIOUS
      <3>2. a \in Nat /\ b \in Int /\ c = b - a
        BY <1>11, <1>16, <3>1
      <3>3. c <= b
        BY <3>2
      <3> QED
        BY <3>1, <3>3
    <2>4. \A u \in Units : used'[u] <= used[u] \/ used'[u] <= Cap[PoolOf(u[1])]
      <3> SUFFICES ASSUME NEW u \in Units
                   PROVE  used'[u] <= used[u]
        OBVIOUS
      <3>1. used[u] \in Int
        BY <1>11
      <3>2. u # U => used'[u] = used[u]
        BY <1>16
      <3> QED
        BY <2>3, <3>1, <3>2
    <2>5. decAlloc' \in [Reqs -> Nat]
      BY <1>1, <1>11
    <2> QED
      BY <1>2, <1>5, <1>16, <2>1, <2>2, <2>4, <2>5, RoomStep
  <1>27. SlotsOK'
    <2>1. \A u \in Ranks(Decode) : u \in Units \ {U}
      BY <1>8, UnitIs DEF Pool, Decode
    <2> QED
      BY <1>2, <1>7, <1>14, <1>16, <2>1, SlotsStay
  <1>28. LoopOK'
    <2>1. \A i \in DOMAIN batch[W] : batch[W][i].unit[2] <= Head(todo).rank
      BY <1>1, <1>2 DEF LoopOK
    <2>2. \A i \in DOMAIN batch'[W] : batch'[W][i].unit[2] <= Head(todo).rank
      BY <1>1, <2>1
    <2>3. Computed(U)' = {}
      <3>1. PICK u : u = U
        OBVIOUS
      <3>2. Computed(u)' = {}
        BY <1>7, <1>15, <3>1
      <3> QED
        BY <1>14, <3>1, <3>2
    <2>4. Head(todo').seqs = 0 /\ Head(todo').budget = TokCap[P']
      BY <1>9, <1>14
    <2> QED
      BY <1>14, <2>2, <2>3, <2>4 DEF LoopOK
  <1>29. RestOK'
    BY <1>1, <1>2, <1>7, <1>14, <1>15, <1>16, RestForming
  <1> QED
    BY <1>14, <1>19, <1>20, <1>21, <1>22, <1>23, <1>24, <1>25, <1>26, <1>27, <1>28, <1>29 DEF PoolsInv

(* What a step of the handler leaves alone when it only moves on.          *)
Still == UNCHANGED <<st, unit, decUnit, left, gen, alloc, decAlloc, used, running, waiting, decWaiting,
                     xfers, rr, sticky, trees, remaining>>

(* A step that turns a batch into a pass, or a pass into what is to be     *)
(* committed, leaves the requests as they are.                             *)
LEMMA SamePass ==
  ASSUME PoolsInv, Still, busy' \in [AllWorkers -> BOOLEAN], batch' \in [AllWorkers -> Seq(Tickets)],
         todo' \in Seq(CallType), \A w : InCommit(w) => InCommit(w)',
         \A w \in AllWorkers : Pass(w)' = Pass(w) /\ \A i \in Pass(w) : batch'[w][i] = batch[w][i],
         HandlerOK', SlotsOK', LoopOK', RestOK', KeepSlots'
  PROVE  PoolsInv'
PROOF
  <1>1. /\ PoolsTypeOK /\ HandlerOK /\ QueueOK /\ BatchOK /\ StoredOK /\ SlotsOK /\ LoopOK
        /\ CountOK /\ RestOK /\ RoomExact /\ KeepSlots /\ TreesExact
    BY DEF PoolsInv
  <1>3. PoolsTypeOK'
    BY <1>1 DEF PoolsTypeOK, Still, Tickets
  <1>4. QueueOK'
    BY <1>1, QueuesStay DEF Still
  <1>5. \A r : InPass(r)' <=> InPass(r)
    BY DEF InPass
  <1>6. BatchOK'
    BY <1>1, <1>5, BatchStays DEF Still
  <1>7. StoredOK'
    BY <1>1, <1>5, StoredStays DEF Still
  <1>8. CountOK'
    BY <1>1, CountStays DEF Still
  <1>9. TreesExact'
    BY <1>1, <1>8, HomesStay DEF Still
  <1>11. RoomExact'
    <2>1. \A u : Holding(u)' = Holding(u) /\ Reserving(u)' = Reserving(u)
      BY DEF Holding, Reserving, Still
    <2> QED
      BY <1>1, <2>1, RoomStays DEF Still
  <1> QED
    BY <1>3, <1>4, <1>6, <1>7, <1>8, <1>9, <1>11 DEF PoolsInv

(* Nothing of a rank after the one at hand is in the batch.                *)
LEMMA NextRankEmpty ==
  ASSUME PoolsInv, Forming, At("close")
  PROVE  Computed(<<W, Head(todo).rank + 1>>) = {}
PROOF
  <1>1. PoolsTypeOK /\ HandlerOK /\ LoopOK /\ ~ Idle
    BY FormingIs DEF PoolsInv
  <1>2. Head(todo).rank \in Nat /\ W \in AllWorkers
    BY <1>1, CallIs
  <1>3. \A i \in DOMAIN batch[W] : batch[W][i].unit[2] <= Head(todo).rank
    BY <1>1 DEF LoopOK
  <1>4. \A i \in DOMAIN batch[W] : batch[W][i].unit # <<W, Head(todo).rank + 1>>
    BY <1>2, <1>3
  <1> QED
    BY <1>4 DEF Computed

(* form_batch goes on with the next rank of the worker.                    *)
LEMMA NextRankSafe ==
  ASSUME PoolsInv, NextRank
  PROVE  PoolsInv'
PROOF
  <1>000. PICK n : n = Head(todo).rank + 1
    OBVIOUS
  <1>0. PICK d : d = Call(Head(Loops(P)), W, n)
    OBVIOUS
  <1>1. /\ At("close") /\ Forming /\ (Formed(U) \/ running[U] = <<>>) /\ Head(todo).rank < Dp[P]
        /\ Becomes(d) /\ Still /\ busy' = busy /\ batch' = batch
    BY <1>0, <1>000 DEF NextRank, Still, req, rank, router, worker, At, Forming
  <1>2. /\ PoolsTypeOK /\ HandlerOK /\ QueueOK /\ BatchOK /\ StoredOK /\ SlotsOK /\ LoopOK
        /\ CountOK /\ RestOK /\ RoomExact /\ KeepSlots /\ TreesExact
    BY DEF PoolsInv
  <1>3. /\ ~ Idle /\ W \in AllWorkers /\ P = PoolOf(W) /\ P \in Pool /\ Dp[P] \in Nat
        /\ Head(todo).rank \in 1 .. Dp[P] /\ n \in 1 .. Dp[P] /\ n \in Nat
        /\ ~ busy[W] /\ (P = Prefill \/ P = Decode) /\ \A w : ~ InCommit(w)
    <2>1. /\ ~ Idle /\ ~ busy[W] /\ (P = Prefill \/ P = Decode) /\ \A w : ~ InCommit(w)
      BY <1>1, <1>2, FormingIs
    <2>2. W \in AllWorkers /\ P = PoolOf(W) /\ P \in Pool /\ Head(todo).rank \in 1 .. Dp[P]
      BY <1>2, <2>1, CallIs
    <2>3. Dp[P] \in Nat
      BY <2>2, WorkersAre
    <2> QED
      BY <1>000, <1>1, <2>1, <2>2, <2>3
  <1>4. /\ d \in CallType /\ d.do = Head(Loops(P)) /\ d.w = W /\ d.rank = n /\ d.i = 1
        /\ d.budget = TokCap[P] /\ d.seqs = 0
        /\ d.do = (IF P = Prefill THEN "prefill" ELSE "decode") /\ Prefill # Decode
    <2>1. Head(Loops(P)) = IF P = Prefill THEN "prefill" ELSE "decode"
      BY DEF Loops
    <2>2. Head(Loops(P)) \in {"try", "commit", "prefill", "admit", "decode", "dec_admit", "close"}
      BY <2>1
    <2> QED
      BY <1>0, <1>3, <2>1, <2>2, CallType1 DEF Prefill, Decode
  <1>5. /\ HandlerOK' /\ todo' \in Seq(CallType) /\ (~ Idle)' /\ Head(todo') = d
        /\ W' = W /\ P' = P /\ U' = <<W, n>> /\ I' = 1
        /\ (\A k : At(k)' <=> d.do = k)
        /\ Forming' /\ \A w : Untried(w)' => Untried(w)
    <2>1. /\ ~ busy'[W] /\ d.rank \in 1 .. Dp[P] /\ d.do \notin {"try", "commit"}
          /\ (d.do \in {"prefill", "admit"} => P = Prefill)
          /\ (d.do \in {"decode", "dec_admit"} => P = Decode)
      BY <1>1, <1>3, <1>4
    <2> QED
      BY <1>1, <1>2, <1>3, <1>4, <2>1, NextCall
  <1>6. \A w : Untried(w)' => w # W
    <2>1. 1 \in DOMAIN todo' /\ todo'[1] = d
      BY <1>1, <1>2, <1>3, <1>4, BecomesIs, CallIs
    <2> QED
      BY <1>4, <2>1 DEF Untried
  <1>7. /\ \A w : Pass(w)' = Pass(w)
        /\ \A u : Computed(u)' = Computed(u)
    BY <1>1, <1>2, <1>5, PassesForm
  <1>8. Computed(<<W, n>>) = {}
    BY <1>000, <1>1, NextRankEmpty
  <1>9. Computed(U)' = {}
    <2>1. PICK u : u = <<W, n>>
      OBVIOUS
    <2>2. Computed(u)' = {} /\ u = U'
      BY <1>5, <1>7, <1>8, <2>1
    <2> QED
      BY <2>2
  <1>10. SlotsOK'
    <2>1. \A u \in Ranks(Decode) : Fits(Len(running'[u]))
      BY <1>1, <1>2 DEF SlotsOK, Still
    <2>2. CASE P = Prefill
      BY <1>1, <1>2, <1>5, <2>2, SlotsStay DEF Still
    <2>3. CASE P = Decode
      <3>1. \A k \in 1 .. n - 1 : Computed(<<W, k>>) = Reserving(<<W, k>>)
        <4>1. \A k \in 1 .. Head(todo).rank - 1 : Computed(<<W, k>>) = Reserving(<<W, k>>)
          BY <1>1, <1>2, <2>3 DEF SlotsOK
        <4>2. Computed(U) = Reserving(U)
          <5>1. ~ At("decode")
            BY <1>1 DEF At
          <5> QED
            BY <1>1, <1>2, <2>3, <5>1 DEF SlotsOK
        <4> QED
          BY <1>000, <1>3, <4>1, <4>2 DEF U
      <3>2. \A u : Computed(u)' = Computed(u) /\ Reserving(u)' = Reserving(u)
        BY <1>1, <1>7 DEF Still, Reserving
      <3>3. ASSUME NEW k \in 1 .. n - 1
            PROVE  Computed(<<W, k>>)' = Reserving(<<W, k>>)'
        <4>1. PICK u : u = <<W, k>>
          OBVIOUS
        <4>2. Computed(u)' = Reserving(u)' /\ u = <<W', k>>
          BY <1>5, <3>1, <3>2, <4>1
        <4> QED
          BY <4>2
      <3>4. (\A k \in 1 .. Head(todo).rank - 1 : Computed(<<W, k>>) = Reserving(<<W, k>>))'
        BY <1>4, <1>5, <3>3
      <3>5. Len(running'[U']) \in Nat
        <4>1. <<W, n>> \in Units
          BY <1>3, UnitIs
        <4>2. running'[U'] \in Seq(Reqs)
          BY <1>1, <1>2, <1>5, <4>1 DEF PoolsTypeOK, Still
        <4> QED
          BY <4>2, LenProperties
      <3>6. 0 * Step = 0 /\ TokCap[Decode] - 0 * Step = TokCap[Decode]
        <4>1. Step \in Nat /\ TokCap[Decode] \in Nat
          BY PoolsAssumption DEF Step, Pool, Decode
        <4> QED
          BY <4>1
      <3>7. /\ I' <= Len(running'[U']) + 1
            /\ {running'[U'][j] : j \in 1 .. I' - 1} = {}
            /\ Head(todo').seqs = I' - 1 /\ Head(todo').budget = TokCap[P'] - (I' - 1) * Step
        BY <1>4, <1>5, <2>3, <3>5, <3>6
      <3>8. At("decode")' /\ ~ At("dec_admit")'
        BY <1>4, <1>5, <2>3
      <3>9. \A k : Fits(k)' <=> Fits(k)
        BY DEF Fits, Step
      <3> QED
        BY <1>5, <1>9, <2>1, <3>4, <3>7, <3>8, <3>9 DEF SlotsOK, Step
    <2> QED
      BY <1>3, <2>2, <2>3
  <1>11. LoopOK'
    <2>1. \A i \in DOMAIN batch[W] : batch[W][i].unit[2] <= Head(todo).rank /\ batch[W][i].unit[2] \in Nat
      <3>1. \A i \in DOMAIN batch[W] : batch[W][i].unit \in Units
        BY <1>2, <1>3, EntryIs
      <3>2. \A u \in Units : u[2] \in Nat
        BY UnitIs
      <3> QED
        BY <1>1, <1>2, <3>1, <3>2 DEF LoopOK
    <2>2. \A i \in DOMAIN batch'[W'] : batch'[W'][i].unit[2] <= Head(todo').rank
      BY <1>000, <1>1, <1>3, <1>4, <1>5, <2>1
    <2>3. Head(todo').seqs = 0 /\ Head(todo').budget = TokCap[P']
      BY <1>4, <1>5
    <2> QED
      BY <1>9, <2>2, <2>3 DEF LoopOK
  <1>12. RestOK'
    <2>1. \A u : Rests(u) => Rests(u)'
      BY <1>1 DEF Rests, Still
    <2>2. ASSUME NEW w \in AllWorkers, ~ busy'[w], ~ Blocked(w)', \A i \in DOMAIN todo' : todo'[i].w # w
          PROVE  \A k \in 1 .. Dp[PoolOf(w)] : Rests(<<w, k>>)'
      <3>1. Untried(w)
        BY <1>5, <2>2 DEF Untried
      <3>2. ~ busy[w] /\ ~ Blocked(w)
        BY <1>1, <2>2 DEF Blocked, Still
      <3> QED
        BY <1>2, <2>1, <3>1, <3>2 DEF RestOK, Untried
    <2>3. \A k \in 1 .. n - 1 : Computed(<<W, k>>) # {} \/ Rests(<<W, k>>)
      <3>1. \A k \in 1 .. Head(todo).rank - 1 : Computed(<<W, k>>) # {} \/ Rests(<<W, k>>)
        BY <1>1, <1>2 DEF RestOK
      <3>2. Computed(U) # {} \/ Rests(U)
        <4>1. Formed(U) => Computed(U) # {}
          BY <1>1, FormedIs
        <4> QED
          BY <1>1, <1>2, <4>1 DEF RestOK
      <3>3. \A k \in 1 .. n - 1 : k \in 1 .. Head(todo).rank - 1 \/ k = Head(todo).rank
        BY <1>000, <1>3
      <3>4. U = <<W, Head(todo).rank>>
        BY DEF U
      <3> QED
        BY <3>1, <3>2, <3>3, <3>4
    <2>4. ASSUME NEW k \in 1 .. n - 1
          PROVE  Computed(<<W, k>>)' # {} \/ Rests(<<W, k>>)'
      <3>1. PICK u : u = <<W, k>>
        OBVIOUS
      <3>2. (Computed(u)' # {} \/ Rests(u)') /\ u = <<W', k>>
        BY <1>5, <1>7, <2>1, <2>3, <3>1
      <3> QED
        BY <3>2
    <2>5. (Forming => \A k \in 1 .. Head(todo).rank - 1 : Computed(<<W, k>>) # {} \/ Rests(<<W, k>>))'
      BY <1>4, <1>5, <2>4
    <2>6. (At("close") /\ Computed(U) = {} /\ running[U] = <<>> => Rests(U))'
      BY <1>4, <1>5
    <2> QED
      BY <2>2, <2>5, <2>6 DEF RestOK
  <1>13. KeepSlots'
    BY <1>1, <1>2, KeepStays DEF Still
  <1>14. busy' \in [AllWorkers -> BOOLEAN] /\ batch' \in [AllWorkers -> Seq(Tickets)]
    BY <1>1, <1>2 DEF PoolsTypeOK, Tickets
  <1> QED
    BY <1>1, <1>3, <1>5, <1>7, <1>10, <1>11, <1>12, <1>13, <1>14, SamePass

(* A worker that computes, or that KV is delivered to, is not started.     *)
LEMMA TryPassesSafe ==
  ASSUME PoolsInv, At("try"), busy[W] \/ Blocked(W), todo' = Tail(todo), Still, UNCHANGED <<busy, batch>>
  PROVE  PoolsInv'
PROOF
  <1>2. /\ PoolsTypeOK /\ HandlerOK /\ QueueOK /\ BatchOK /\ StoredOK /\ SlotsOK /\ LoopOK
        /\ CountOK /\ RestOK /\ RoomExact /\ KeepSlots /\ TreesExact
    BY DEF PoolsInv
  <1>3. ~ Idle /\ ~ Forming /\ \A w : ~ InCommit(w)
    BY DEF At, Forming, InCommit
  <1>4. /\ HandlerOK' /\ todo' \in Seq(CallType) /\ ~ Forming' /\ (\A w : ~ InCommit(w)')
        /\ \A w : Untried(w)' /\ w # W => Untried(w)
    BY <1>2, <1>3, PopCall
  <1>5. \A w \in AllWorkers : Pass(w)' = Pass(w) /\ \A i \in Pass(w) : batch'[w][i] = batch[w][i]
    BY <1>3, <1>4 DEF Pass
  <1>6. SlotsOK'
    BY <1>2, <1>4, SlotsStay DEF Still
  <1>7. LoopOK'
    BY <1>4 DEF LoopOK
  <1>8. RestOK'
    <2>1. \A u : Rests(u) => Rests(u)'
      BY DEF Rests, Still
    <2>2. \A w : Blocked(w)' = Blocked(w)
      BY DEF Blocked, Still
    <2> QED
      BY <1>2, <1>4, <2>1, <2>2, RestElse
  <1>9. KeepSlots'
    BY <1>2, KeepStays DEF Still
  <1>10. busy' \in [AllWorkers -> BOOLEAN] /\ batch' \in [AllWorkers -> Seq(Tickets)]
    BY <1>2 DEF PoolsTypeOK, Tickets
  <1> QED
    BY <1>3, <1>4, <1>5, <1>6, <1>7, <1>8, <1>9, <1>10, SamePass

(* The first rank of a worker.                                             *)
LEMMA TryFormsSafe ==
  ASSUME PoolsInv, At("try"), ~ busy[W], Becomes(Call(Head(Loops(P)), W, 1)), Still, busy' = busy,
         batch' = [batch EXCEPT ![W] = <<>>]
  PROVE  PoolsInv'
PROOF
  <1>0. PICK d : d = Call(Head(Loops(P)), W, 1)
    OBVIOUS
  <1>1. Becomes(d)
    BY <1>0
  <1>2. /\ PoolsTypeOK /\ HandlerOK /\ QueueOK /\ BatchOK /\ StoredOK /\ SlotsOK /\ LoopOK
        /\ CountOK /\ RestOK /\ RoomExact /\ KeepSlots /\ TreesExact
    BY DEF PoolsInv
  <1>3. /\ ~ Idle /\ ~ Forming /\ (\A w : ~ InCommit(w))
        /\ W \in AllWorkers /\ P = PoolOf(W) /\ P \in Pool /\ 1 \in 1 .. Dp[P]
        /\ (P = Prefill \/ P = Decode)
    <2>1. ~ Idle /\ ~ Forming /\ (\A w : ~ InCommit(w))
      BY DEF At, Forming, InCommit
    <2>2. W \in AllWorkers /\ P = PoolOf(W) /\ P \in Pool
      BY <1>2, <2>1, CallIs
    <2>3. Dp[P] \in Nat \ {0}
      BY <2>2, WorkersAre
    <2> QED
      BY <2>1, <2>2, <2>3 DEF Pool, Prefill, Decode
  <1>4. /\ d \in CallType /\ d.do = Head(Loops(P)) /\ d.w = W /\ d.rank = 1 /\ d.i = 1
        /\ d.budget = TokCap[P] /\ d.seqs = 0
        /\ d.do = (IF P = Prefill THEN "prefill" ELSE "decode") /\ Prefill # Decode
    <2>1. Head(Loops(P)) = IF P = Prefill THEN "prefill" ELSE "decode"
      BY DEF Loops
    <2>2. Head(Loops(P)) \in {"try", "commit", "prefill", "admit", "decode", "dec_admit", "close"}
      BY <2>1
    <2> QED
      BY <1>0, <1>3, <2>1, <2>2, CallType1 DEF Prefill, Decode
  <1>5. /\ HandlerOK' /\ todo' \in Seq(CallType) /\ (~ Idle)' /\ Head(todo') = d
        /\ W' = W /\ P' = P /\ U' = <<W, 1>> /\ I' = 1
        /\ (\A k : At(k)' <=> d.do = k)
        /\ Forming' /\ (\A w : ~ InCommit(w)') /\ \A w : Untried(w)' => Untried(w)
    <2>1. /\ ~ busy'[W] /\ d.rank \in 1 .. Dp[P] /\ d.do \notin {"try", "commit"}
          /\ (d.do \in {"prefill", "admit"} => P = Prefill)
          /\ (d.do \in {"decode", "dec_admit"} => P = Decode)
      BY <1>3, <1>4
    <2> QED
      BY <1>1, <1>2, <1>3, <1>4, <2>1, NextCall
  <1>6. /\ batch' \in [AllWorkers -> Seq(Tickets)] /\ batch'[W] = <<>> /\ DOMAIN batch'[W] = {}
        /\ \A w \in AllWorkers \ {W} : batch'[w] = batch[w]
    <2>1. batch \in [AllWorkers -> Seq(Tickets)] /\ <<>> \in Seq(Tickets) /\ DOMAIN <<>> = {}
      BY <1>2, EmptyQueue DEF PoolsTypeOK, Tickets
    <2> QED
      BY <1>3, <2>1
  <1>7. ASSUME NEW w \in AllWorkers
        PROVE  Pass(w)' = Pass(w) /\ \A i \in Pass(w) : batch'[w][i] = batch[w][i]
    <2>1. CASE w = W
      <3>1. Pass(w) = {}
        BY <1>3, <2>1 DEF Pass
      <3>2. Pass(w)' = {}
        BY <1>6, <2>1 DEF Pass
      <3> QED
        BY <3>1, <3>2
    <2>2. CASE w # W
      BY <1>3, <1>5, <1>6, <2>2 DEF Pass
    <2> QED
      BY <2>1, <2>2
  <1>9. Computed(U)' = {}
    BY <1>5, <1>6 DEF Computed
  <1>10. SlotsOK'
    <2>1. \A u \in Ranks(Decode) : Fits(Len(running'[u]))
      BY <1>2 DEF SlotsOK, Still
    <2>2. CASE P = Prefill
      BY <1>2, <1>5, <2>2, SlotsStay DEF Still
    <2>3. CASE P = Decode
      <3>4. (\A k \in 1 .. Head(todo).rank - 1 : Computed(<<W, k>>) = Reserving(<<W, k>>))'
        BY <1>4, <1>5
      <3>5. Len(running'[U']) \in Nat
        <4>1. <<W, 1>> \in Units
          BY <1>3, UnitIs
        <4>2. running'[U'] \in Seq(Reqs)
          BY <1>2, <1>5, <4>1 DEF PoolsTypeOK, Still
        <4> QED
          BY <4>2, LenProperties
      <3>6. 0 * Step = 0 /\ TokCap[Decode] - 0 * Step = TokCap[Decode]
        <4>1. Step \in Nat /\ TokCap[Decode] \in Nat
          BY PoolsAssumption DEF Step, Pool, Decode
        <4> QED
          BY <4>1
      <3>7. /\ I' <= Len(running'[U']) + 1
            /\ {running'[U'][j] : j \in 1 .. I' - 1} = {}
            /\ Head(todo').seqs = I' - 1 /\ Head(todo').budget = TokCap[P'] - (I' - 1) * Step
        BY <1>4, <1>5, <2>3, <3>5, <3>6
      <3>8. At("decode")' /\ ~ At("dec_admit")'
        BY <1>4, <1>5, <2>3
      <3>9. \A k : Fits(k)' <=> Fits(k)
        BY DEF Fits, Step
      <3> QED
        BY <1>5, <1>9, <2>1, <3>4, <3>7, <3>8, <3>9 DEF SlotsOK, Step
    <2> QED
      BY <1>3, <2>2, <2>3
  <1>11. LoopOK'
    BY <1>4, <1>5, <1>6, <1>9 DEF LoopOK
  <1>12. RestOK'
    <2>2. ASSUME NEW w \in AllWorkers, ~ busy'[w], ~ Blocked(w)', \A i \in DOMAIN todo' : todo'[i].w # w
          PROVE  \A k \in 1 .. Dp[PoolOf(w)] : Rests(<<w, k>>)'
      <3>1. Untried(w)
        BY <1>5, <2>2 DEF Untried
      <3>2. ~ busy[w] /\ ~ Blocked(w)
        BY <2>2 DEF Blocked, Still
      <3>3. \A u : Rests(u) => Rests(u)'
        BY DEF Rests, Still
      <3> QED
        BY <1>2, <3>1, <3>2, <3>3 DEF RestOK, Untried
    <2>5. (Forming => \A k \in 1 .. Head(todo).rank - 1 : Computed(<<W, k>>) # {} \/ Rests(<<W, k>>))'
      BY <1>4, <1>5
    <2>6. (At("close") /\ Computed(U) = {} /\ running[U] = <<>> => Rests(U))'
      BY <1>4, <1>5
    <2> QED
      BY <2>2, <2>5, <2>6 DEF RestOK
  <1>13. KeepSlots'
    <2>1. \A w \in WorkersOf(Decode) : w \in AllWorkers
      BY DEF AllWorkers, Decode
    <2>2. \A w \in AllWorkers : busy'[w] => w # W
      OBVIOUS
    <2> QED
      BY <1>2, <1>6, <2>1, <2>2, KeepStays DEF Still
  <1>14. busy' \in [AllWorkers -> BOOLEAN]
    BY <1>2 DEF PoolsTypeOK
  <1> QED
    BY <1>3, <1>5, <1>6, <1>7, <1>10, <1>11, <1>12, <1>13, <1>14, SamePass

(* try_start_pass leaves a worker alone that is busy or blocked, and forms a *)
(* batch on any other.                                                     *)
LEMMA TryStartSafe ==
  ASSUME PoolsInv, TryStart
  PROVE  PoolsInv'
PROOF
  <1>1. /\ At("try") /\ Still /\ busy' = busy
        /\ \/ (busy[W] \/ Blocked(W)) /\ todo' = Tail(todo) /\ batch' = batch
           \/ /\ ~ busy[W] /\ Becomes(Call(Head(Loops(P)), W, 1))
              /\ batch' = [batch EXCEPT ![W] = <<>>]
    BY DEF TryStart, Still, req, rank, router
  <1> QED
    BY <1>1, TryPassesSafe, TryFormsSafe

(* A decode pass has every sequence of the worker; a worker that has       *)
(* nothing to compute rests.                                               *)
LEMMA StartPassSafe ==
  ASSUME PoolsInv, StartPass
  PROVE  PoolsInv'
PROOF
  <1>1. /\ At("close") /\ Forming /\ (Formed(U) \/ running[U] = <<>>) /\ Head(todo).rank = Dp[P]
        /\ todo' = Tail(todo) /\ Still /\ batch' = batch
        /\ busy' = [busy EXCEPT ![W] = batch[W] # <<>>]
    BY DEF StartPass, Still, req, rank, router, worker, At, Forming
  <1>2. /\ PoolsTypeOK /\ HandlerOK /\ QueueOK /\ BatchOK /\ StoredOK /\ SlotsOK /\ LoopOK
        /\ CountOK /\ RestOK /\ RoomExact /\ KeepSlots /\ TreesExact
    BY DEF PoolsInv
  <1>3. /\ ~ Idle /\ W \in AllWorkers /\ P = PoolOf(W) /\ P \in Pool /\ Dp[P] \in Nat \ {0} /\ U = <<W, Dp[P]>>
        /\ ~ busy[W] /\ (\A w : ~ InCommit(w)) /\ Pass(W) = DOMAIN batch[W]
    <2>1. /\ ~ Idle /\ W \in AllWorkers /\ ~ busy[W] /\ (\A w : ~ InCommit(w)) /\ Pass(W) = DOMAIN batch[W]
      BY <1>1, <1>2, FormingIs
    <2>2. P = PoolOf(W) /\ P \in Pool
      BY <1>2, <2>1, CallIs
    <2> QED
      BY <1>1, <2>1, <2>2, WorkersAre DEF U
  <1>4. /\ HandlerOK' /\ todo' \in Seq(CallType) /\ ~ Forming' /\ (\A w : ~ InCommit(w)')
        /\ \A w : Untried(w)' /\ w # W => Untried(w)
    BY <1>1, <1>2, <1>3, PopCall
  <1>5. /\ busy' \in [AllWorkers -> BOOLEAN] /\ busy'[W] = (batch[W] # <<>>)
        /\ \A w \in AllWorkers \ {W} : busy'[w] = busy[w]
    BY <1>1, <1>2, <1>3 DEF PoolsTypeOK
  <1>6. batch[W] = <<>> => DOMAIN batch[W] = {}
    BY EmptyQueue
  <1>7. ASSUME NEW w \in AllWorkers
        PROVE  Pass(w)' = Pass(w) /\ \A i \in Pass(w) : batch'[w][i] = batch[w][i]
    <2>1. CASE w = W
      BY <1>1, <1>3, <1>4, <1>5, <1>6, <2>1 DEF Pass
    <2>2. CASE w # W
      BY <1>1, <1>3, <1>4, <1>5, <2>2 DEF Pass
    <2> QED
      BY <1>1, <2>1, <2>2
  <1>8. SlotsOK'
    BY <1>1, <1>2, <1>4, SlotsStay DEF Still
  <1>9. LoopOK'
    BY <1>4 DEF LoopOK
  <1>10. \A k \in 1 .. Dp[P] : k \in 1 .. Head(todo).rank - 1 \/ <<W, k>> = U
    BY <1>1, <1>3
  <1>11. RestOK'
    <2>1. \A u : Rests(u) => Rests(u)'
      BY <1>1 DEF Rests, Still
    <2>2. \A w : Blocked(w)' = Blocked(w)
      BY <1>1 DEF Blocked, Still
    <2>3. ASSUME ~ busy'[W], NEW k \in 1 .. Dp[P]
          PROVE  Rests(<<W, k>>)
      <3>1. \A u : u[1] = W => Computed(u) = {}
        BY <1>5, <1>6, <2>3 DEF Computed
      <3>2. Computed(<<W, k>>) = {} /\ Computed(U) = {}
        BY <1>3, <3>1
      <3>3. running[U] = <<>>
        BY <1>1, <3>2, FormedIs
      <3>4. Rests(U)
        BY <1>1, <1>2, <3>2, <3>3 DEF RestOK
      <3>5. k \in 1 .. Head(todo).rank - 1 => Rests(<<W, k>>)
        BY <1>1, <1>2, <3>2 DEF RestOK
      <3> QED
        BY <1>10, <3>4, <3>5
    <2>4. ASSUME NEW w \in AllWorkers, ~ busy'[w], ~ Blocked(w)', Untried(w)'
          PROVE  \/ /\ ~ busy[w] /\ ~ Blocked(w) /\ Untried(w)
                    /\ \A k \in 1 .. Dp[PoolOf(w)] : Rests(<<w, k>>) => Rests(<<w, k>>)'
                 \/ \A k \in 1 .. Dp[PoolOf(w)] : Rests(<<w, k>>)'
      <3>1. CASE w = W
        BY <1>3, <2>1, <2>3, <2>4, <3>1
      <3>2. CASE w # W
        BY <1>4, <1>5, <2>1, <2>2, <2>4, <3>2
      <3> QED
        BY <3>1, <3>2
    <2> QED
      BY <1>2, <1>4, <2>4, RestElse
  <1>12. KeepSlots'
    <2> SUFFICES ASSUME NEW w \in WorkersOf(Decode), busy'[w]
                 PROVE  {batch[w][i].req : i \in DOMAIN batch[w]} = {r \in Reqs : st[r] = "decode" /\ decUnit[r][1] = w}
      BY <1>1 DEF KeepSlots, Still
    <2>1. w \in AllWorkers
      BY DEF AllWorkers, Decode
    <2>2. CASE w # W
      BY <1>2, <1>5, <2>1, <2>2 DEF KeepSlots
    <2>3. CASE w = W
      <3>1. P = Decode
        BY <1>3, <2>3, PoolIs DEF Pool, Decode
      <3>2. ASSUME NEW k \in 1 .. Dp[P]
            PROVE  Computed(<<W, k>>) = Reserving(<<W, k>>)
        <4>1. ~ At("decode")
          BY <1>1 DEF At
        <4>2. Computed(U) = Reserving(U)
          BY <1>1, <1>2, <3>1, <4>1 DEF SlotsOK
        <4>3. k \in 1 .. Head(todo).rank - 1 => Computed(<<W, k>>) = Reserving(<<W, k>>)
          BY <1>1, <1>2, <3>1 DEF SlotsOK
        <4> QED
          BY <1>10, <4>2, <4>3
      <3>3. ASSUME NEW i \in DOMAIN batch[w]
            PROVE  batch[w][i].req \in Reqs /\ st[batch[w][i].req] = "decode" /\ decUnit[batch[w][i].req][1] = w
        <4>1. i \in Pass(w)
          BY <1>3, <2>3
        <4>2. ~ w \in WorkersOf(Prefill)
          BY <2>3, <3>1, PoolIs, <1>3 DEF Pool, Prefill, Decode
        <4> QED
          BY <1>2, <2>1, <4>1, <4>2, OneEntry
      <3>4. ASSUME NEW r \in Reqs, st[r] = "decode", decUnit[r][1] = w
            PROVE  \E i \in DOMAIN batch[w] : batch[w][i].req = r
        <4>1. decUnit[r] \in Ranks(Decode)
          BY <1>2, <3>4, QueueIs
        <4>2. decUnit[r] = <<W, decUnit[r][2]>> /\ decUnit[r][2] \in 1 .. Dp[P]
          BY <1>3, <2>3, <3>4, <4>1, UnitIs DEF Pool, Decode
        <4>3. PICK k \in 1 .. Dp[P] : decUnit[r] = <<W, k>>
          BY <4>2
        <4>4. r \in Computed(<<W, k>>)
          BY <3>2, <3>4, <4>3 DEF Reserving
        <4> QED
          BY <2>3, <4>4 DEF Computed
      <3> QED
        BY <3>3, <3>4
    <2> QED
      BY <2>2, <2>3
  <1>13. batch' \in [AllWorkers -> Seq(Tickets)]
    BY <1>1, <1>2 DEF PoolsTypeOK, Tickets
  <1> QED
    BY <1>1, <1>3, <1>4, <1>5, <1>7, <1>8, <1>9, <1>11, <1>12, <1>13, SamePass

-----------------------------------------------------------------------------
(* commit_pass.                                                            *)

(* The entry that is committed: it is in no pass after that, and the       *)
(* worker is tried when its batch is committed.                            *)
LEMMA CommitIs ==
  ASSUME PoolsInv, At("commit"), I <= Len(batch[W]), Committed, UNCHANGED <<batch, busy>>,
         NEW b, b = batch[W][I]
  PROVE  /\ HandlerOK' /\ todo' \in Seq(CallType) /\ ~ Forming' /\ InCommit(W)
         /\ \A w : InCommit(w)' <=> InCommit(w)
         /\ \A w : Untried(w)' => Untried(w) /\ w # W
         /\ W \in AllWorkers /\ ~ busy[W]
         /\ b.req \in Reqs /\ b.unit \in Units /\ b.unit[1] = W /\ InPass(b.req) /\ b.req \in Served(b.unit)
         /\ b.tokens \in Nat
         /\ st[b.req] = "prefill" => /\ unit[b.req] = b.unit /\ b.unit \in Ranks(Prefill) /\ b.tokens \in 1 .. left[b.req]
                                     /\ alloc[b.req] = Isl[b.req] - left[b.req] + b.tokens
         /\ st[b.req] = "decode" => decUnit[b.req] = b.unit /\ b.unit \in Ranks(Decode)
         /\ \A w \in AllWorkers : Pass(w)' \subseteq Pass(w)
         /\ \A x : InPass(x)' <=> InPass(x) /\ x # b.req
PROOF
  <1> DEFINE d == [Head(todo) EXCEPT !.i = @ + 1]
  <1>1. /\ PoolsTypeOK /\ HandlerOK /\ QueueOK /\ BatchOK /\ StoredOK /\ ~ Idle
    BY DEF PoolsInv, At
  <1>2. /\ d \in CallType /\ d.do = "commit" /\ d.w = W /\ d.rank = Head(todo).rank /\ d.i = I + 1
        /\ Head(todo).rank \in 1 .. Dp[P] /\ W \in AllWorkers /\ I \in Nat \ {0}
    BY <1>1, CallMoves, CallIs DEF At
  <1>3. Becomes(d)
    BY DEF Committed
  <1> HIDE DEF d
  <1>4. ~ busy[W] /\ Len(todo) = 2 /\ todo[2].w = W
    BY <1>1 DEF HandlerOK
  <1>5. /\ HandlerOK' /\ todo' \in Seq(CallType)
        /\ W' = W /\ I' = I + 1 /\ At("commit")' /\ ~ Forming'
        /\ \A w : InCommit(w)' <=> w = W
        /\ \A w : Untried(w)' => Untried(w)
    BY <1>1, <1>2, <1>3, <1>4, NextCall
  <1>6. ~ Untried(W)
    <2>1. 2 \in DOMAIN todo
      BY <1>1, <1>4, CallIs
    <2> QED
      BY <1>4, <2>1 DEF Untried
  <1>7. I \in DOMAIN batch[W]
    BY <1>1, <1>2, EntryIs
  <1>8. /\ I \in Pass(W) /\ InPass(b.req)
        /\ \A w \in AllWorkers : Pass(w)' \subseteq Pass(w)
        /\ \A x : InPass(x)' <=> InPass(x) /\ x # b.req
        /\ \A w : InCommit(w)' <=> InCommit(w)
    BY <1>1, <1>5, <1>7, EntryCommitted
  <1>9. /\ b.req \in Reqs /\ b.unit \in Units /\ b.unit[1] = W /\ b.req \in Served(b.unit)
        /\ st[b.req] = "prefill" => unit[b.req] = b.unit /\ W \in WorkersOf(Prefill) /\ b.tokens \in 1 .. left[b.req]
        /\ st[b.req] = "decode" => decUnit[b.req] = b.unit /\ W \in WorkersOf(Decode)
    BY <1>1, <1>2, <1>8, OneEntry
  <1>10. b.tokens \in Nat
    BY <1>1, <1>2, <1>7, EntryIs
  <1>11. b.unit \in Ranks(PoolOf(W))
    BY <1>9, UnitIs
  <1>12. /\ W \in WorkersOf(Prefill) => PoolOf(W) = Prefill
         /\ W \in WorkersOf(Decode) => PoolOf(W) = Decode
    BY PoolIs DEF Pool, Prefill, Decode
  <1>13. st[b.req] = "prefill" => alloc[b.req] = Isl[b.req] - left[b.req] + b.tokens
    BY <1>1, <1>8, <1>9 DEF StoredOK
  <1> QED
    BY <1>2, <1>4, <1>5, <1>6, <1>8, <1>9, <1>10, <1>11, <1>12, <1>13

(* A step that leaves the queues as they are wakes nobody and puts nobody  *)
(* to rest.                                                                *)
LEMMA RestCommit ==
  ASSUME RestOK, ~ Forming', busy' = busy, \A w : Untried(w)' => Untried(w), \A w : Blocked(w) => Blocked(w)',
         UNCHANGED <<running, waiting, decWaiting>>,
         \A r \in Reqs : st[r] = "delivering" => st'[r] = "delivering" /\ unit'[r] = unit[r]
  PROVE  RestOK'
PROOF
  <1>1. \A u : Rests(u) => Rests(u)'
    BY RestsStays
  <1> QED
    BY <1>1, RestElse

(* A step that commits a part of a request.                                *)
LEMMA CommitPart ==
  ASSUME PoolsInv, At("commit"), I <= Len(batch[W]), Committed,
         NEW b, b = batch[W][I],
         UNCHANGED <<st, unit, decUnit, alloc, decAlloc, used, running, waiting, decWaiting, busy, batch, xfers,
                     rr, sticky, trees, remaining>>,
         left' \in [Reqs -> Nat], gen' \in [Reqs -> Nat], \A x \in Reqs : x # b.req => left'[x] = left[x],
         st[b.req] = "prefill" => left'[b.req] \in 1 .. Isl[b.req] /\ alloc[b.req] = Isl[b.req] - left'[b.req]
  PROVE  PoolsInv'
PROOF
  <1>2. /\ PoolsTypeOK /\ HandlerOK /\ QueueOK /\ BatchOK /\ StoredOK /\ SlotsOK /\ LoopOK
        /\ CountOK /\ RestOK /\ RoomExact /\ KeepSlots /\ TreesExact
    BY DEF PoolsInv
  <1>3. /\ HandlerOK' /\ todo' \in Seq(CallType) /\ ~ Forming'
        /\ \A w : InCommit(w)' <=> InCommit(w)
        /\ \A w : Untried(w)' => Untried(w)
        /\ b.req \in Reqs /\ st[b.req] \in {"prefill", "decode"} /\ InPass(b.req)
        /\ \A w \in AllWorkers : Pass(w)' \subseteq Pass(w)
        /\ \A x : InPass(x)' <=> InPass(x) /\ x # b.req
    BY <1>2, CommitIs, OneEntry
  <1>4. \A x : InPass(x) => x \in Reqs
    BY <1>2, OneEntry
  <1>5. PoolsTypeOK'
    BY <1>2, <1>3 DEF PoolsTypeOK
  <1>6. QueueOK'
    BY <1>2, <1>3, QueuesStay
  <1>7. BatchOK'
    BY <1>2, <1>3, <1>4, BatchStays
  <1>8. StoredOK'
    <2>1. Stored(b.req)'
      BY <1>3 DEF Stored
    <2> QED
      BY <1>2, <1>3, <1>4, <2>1, StoredStays
  <1>9. CountOK'
    BY <1>2, CountStays
  <1>10. TreesExact'
    BY <1>2, <1>9, HomesStay
  <1>11. KeepSlots'
    BY <1>2, KeepStays
  <1>12. RoomExact'
    <2>1. \A u : Holding(u)' = Holding(u) /\ Reserving(u)' = Reserving(u)
      BY DEF Holding, Reserving
    <2> QED
      BY <1>2, <2>1, RoomStays
  <1>13. SlotsOK'
    BY <1>2, <1>3, SlotsStay
  <1>14. LoopOK'
    BY <1>3 DEF LoopOK
  <1>15. RestOK'
    <2>1. \A w : Blocked(w) => Blocked(w)'
      BY DEF Blocked
    <2> QED
      BY <1>2, <1>3, <2>1, RestCommit
  <1> QED
    BY <1>3, <1>5, <1>6, <1>7, <1>8, <1>9, <1>10, <1>11, <1>12, <1>13, <1>14, <1>15 DEF PoolsInv

(* A chunk that is not the last one is committed.                          *)
LEMMA CommitChunkSafe ==
  ASSUME PoolsInv, CommitChunk
  PROVE  PoolsInv'
PROOF
  <1>0. PICK b : b = batch[W][I]
    OBVIOUS
  <1>1. /\ At("commit") /\ I <= Len(batch[W]) /\ st[b.req] = "prefill" /\ b.tokens < left[b.req] /\ Committed
        /\ left' = [left EXCEPT ![b.req] = @ - b.tokens]
        /\ UNCHANGED <<st, unit, decUnit, gen, alloc, decAlloc, used, running, waiting, decWaiting, busy, batch, xfers,
                       rr, sticky, trees, remaining>>
    BY <1>0 DEF CommitChunk, Committing, rank, worker, router
  <1>2. /\ b.req \in Reqs /\ b.tokens \in 1 .. left[b.req] /\ b.tokens \in Nat
        /\ alloc[b.req] = Isl[b.req] - left[b.req] + b.tokens
    BY <1>0, <1>1, CommitIs
  <1>3. /\ left \in [Reqs -> Nat] /\ gen \in [Reqs -> Nat] /\ left[b.req] \in 1 .. Isl[b.req] /\ Isl[b.req] \in Nat
    <2>1. PoolsTypeOK /\ StoredOK
      BY DEF PoolsInv
    <2> QED
      BY <1>1, <1>2, <2>1, PoolsAssumption DEF PoolsTypeOK, StoredOK
  <1>4. left[b.req] - b.tokens \in 1 .. Isl[b.req] /\ left[b.req] - b.tokens \in Nat
    BY <1>1, <1>2, <1>3
  <1>5. /\ left' \in [Reqs -> Nat] /\ left'[b.req] = left[b.req] - b.tokens
        /\ \A x \in Reqs : x # b.req => left'[x] = left[x]
    BY <1>1, <1>2, <1>3, <1>4
  <1>6. alloc[b.req] = Isl[b.req] - left'[b.req]
    BY <1>2, <1>3, <1>5
  <1>7. gen' \in [Reqs -> Nat]
    BY <1>1, <1>3
  <1>8. /\ left' \in [Reqs -> Nat] /\ \A x \in Reqs : x # b.req => left'[x] = left[x]
        /\ left'[b.req] \in 1 .. Isl[b.req]
    BY <1>4, <1>5
  <1>9. /\ At("commit") /\ I <= Len(batch[W]) /\ Committed
        /\ UNCHANGED <<st, unit, decUnit, alloc, decAlloc, used, running, waiting, decWaiting, busy, batch, xfers,
                       rr, sticky, trees, remaining>>
    BY <1>1
  <1> QED
    BY <1>0, <1>6, <1>7, <1>8, <1>9, CommitPart

(* A decode step that is not the last one is committed.                    *)
LEMMA CommitDecodeSafe ==
  ASSUME PoolsInv, CommitDecode
  PROVE  PoolsInv'
PROOF
  <1>0. PICK b : b = batch[W][I]
    OBVIOUS
  <1>1. /\ At("commit") /\ I <= Len(batch[W]) /\ st[b.req] = "decode" /\ Committed
        /\ \E produced \in 1 .. Step : gen' = [gen EXCEPT ![b.req] = @ + produced]
        /\ UNCHANGED <<st, unit, decUnit, left, alloc, decAlloc, used, running, waiting, decWaiting, busy, batch, xfers,
                       rr, sticky, trees, remaining>>
    BY <1>0 DEF CommitDecode, Committing, rank, worker, router
  <1>2. left \in [Reqs -> Nat] /\ gen \in [Reqs -> Nat]
    BY DEF PoolsInv, PoolsTypeOK
  <1>3. gen' \in [Reqs -> Nat] /\ left' \in [Reqs -> Nat]
    <2>1. PICK produced \in 1 .. Step : gen' = [gen EXCEPT ![b.req] = @ + produced]
      BY <1>1
    <2>2. produced \in Nat
      OBVIOUS
    <2>3. \A x \in Reqs : gen[x] + produced \in Nat
      BY <1>2, <2>2
    <2>4. gen' \in [Reqs -> Nat]
      BY <1>2, <2>1, <2>3
    <2> QED
      BY <1>1, <1>2, <2>4
  <1> QED
    BY <1>0, <1>1, <1>3, CommitPart

(* A request ends, and gives back what it has of the room of its rank.     *)
LEMMA FinishSafe ==
  ASSUME PoolsInv, At("commit"), I <= Len(batch[W]), Committed,
         NEW b, b = batch[W][I], NEW n, n = IF st[b.req] = "prefill" THEN alloc[b.req] ELSE decAlloc[b.req],
         st' = [st EXCEPT ![b.req] = "done"], AfterDone(b.req),
         used' = [used EXCEPT ![b.unit] = @ - n],
         UNCHANGED <<unit, decUnit, alloc, decAlloc, running, waiting, decWaiting, busy, batch, xfers>>,
         left' \in [Reqs -> Nat], gen' \in [Reqs -> Nat], \A x \in Reqs : x # b.req => left'[x] = left[x]
  PROVE  PoolsInv'
PROOF
  <1>2. /\ PoolsTypeOK /\ HandlerOK /\ QueueOK /\ BatchOK /\ StoredOK /\ SlotsOK /\ LoopOK
        /\ CountOK /\ RestOK /\ RoomExact /\ KeepSlots /\ TreesExact
    BY DEF PoolsInv
  <1>3. /\ HandlerOK' /\ todo' \in Seq(CallType) /\ ~ Forming'
        /\ (\A w : InCommit(w)' <=> InCommit(w)) /\ InCommit(W)
        /\ \A w : Untried(w)' => Untried(w)
        /\ W \in AllWorkers /\ ~ busy[W]
        /\ b.req \in Reqs /\ b.unit \in Units /\ b.unit[1] = W /\ InPass(b.req) /\ b.req \in Served(b.unit)
        /\ st[b.req] = "prefill" => unit[b.req] = b.unit /\ b.unit \in Ranks(Prefill)
        /\ st[b.req] = "decode" => decUnit[b.req] = b.unit /\ b.unit \in Ranks(Decode)
        /\ \A w \in AllWorkers : Pass(w)' \subseteq Pass(w)
        /\ \A x : InPass(x)' <=> InPass(x) /\ x # b.req
    BY <1>2, CommitIs
  <1>4. \A x : InPass(x) => x \in Reqs /\ st[x] \in {"prefill", "decode"}
    BY <1>2, OneEntry
  <1>5. PICK r \in Reqs : r = b.req
    BY <1>3
  <1>6. PICK v \in Units : v = b.unit
    BY <1>3
  <1>7. /\ st[r] \in {"prefill", "decode"} /\ InPass(r) /\ r \in Served(v)
        /\ (st[r] = "prefill" => unit[r] = v /\ v \in Ranks(Prefill) /\ n = alloc[r])
        /\ (st[r] = "decode" => decUnit[r] = v /\ v \in Ranks(Decode) /\ n = decAlloc[r])
        /\ n \in Nat /\ used \in [Units -> Int] /\ alloc \in [Reqs -> Nat] /\ decAlloc \in [Reqs -> Nat]
    <2>1. used \in [Units -> Int] /\ alloc \in [Reqs -> Nat] /\ decAlloc \in [Reqs -> Nat]
      BY <1>2 DEF PoolsTypeOK
    <2> QED
      BY <1>3, <1>4, <1>5, <1>6, <2>1
  <1>8. st'[r] = "done" /\ (\A x \in Reqs \ {r} : st'[x] = st[x]) /\ st' \in [Reqs -> States]
    BY <1>2, <1>5 DEF PoolsTypeOK, States
  <1>9. /\ used'[v] = used[v] - n /\ used' \in [Units -> Int]
        /\ \A u \in Units \ {v} : used'[u] = used[u]
    BY <1>6, <1>7
  <1>10. /\ CountOK' /\ TreesExact'
         /\ trees' \in [AllWorkers -> Nat] /\ remaining' \in [Trees -> Nat]
         /\ rr' \in [Pool -> Nat] /\ sticky' \in [Trees -> [Pool -> AllWorkers \cup {None}]]
    BY <1>2, <1>5, <1>7, CountDone
  <1>11. PoolsTypeOK'
    BY <1>2, <1>3, <1>8, <1>9, <1>10 DEF PoolsTypeOK
  <1>12. QueueOK'
    <2>1. \A x \in Reqs : /\ st'[x] \in States \ {"pending", "done"} => unit'[x] # None
                          /\ st'[x] \in {"delivering", "dec_queued", "decode"} => decUnit'[x] # None
      BY <1>2, <1>8 DEF QueueOK
    <2>2. \A u : Queued(u)' = Queued(u) /\ DecQueued(u)' = DecQueued(u)
      BY <1>7, <1>8 DEF Queued, DecQueued
    <2>3. \A w : Sent(w)' = Sent(w)
      BY <1>7, <1>8 DEF Sent
    <2>4. \A u \in Units : Held(waiting[u], Queued(u))' /\ Held(decWaiting[u], DecQueued(u))'
      BY <1>2, <2>2 DEF QueueOK, Held
    <2>5. \A w \in WorkersOf(Decode) : Held(xfers[w], Sent(w))'
      BY <1>2, <2>3 DEF QueueOK, Held
    <2>6. \A u \in Units : Served(u)' = Served(u) \ {r} /\ (r \in Served(u) => u[1] = W)
      <3>1. \A u : Served(u)' = Served(u) \ {r}
        BY <1>8 DEF Served
      <3>2. \A u : r \in Served(u) => u = v
        BY <1>7 DEF Served
      <3> QED
        BY <1>3, <1>6, <3>1, <3>2
    <2>7. ASSUME NEW u \in Units
          PROVE  /\ IsInjective(running'[u])
                 /\ \A x \in Reqs : /\ x \in Served(u)' => Contains(running'[u], x)
                                    /\ Contains(running'[u], x) /\ x \notin Served(u)' =>
                                         InCommit(u[1])' /\ st'[x] \in {"delivering", "done"}
      <3>1. /\ IsInjective(running[u])
            /\ \A x \in Reqs : /\ x \in Served(u) => Contains(running[u], x)
                               /\ Contains(running[u], x) /\ x \notin Served(u) =>
                                    InCommit(u[1]) /\ st[x] \in {"delivering", "done"}
        BY <1>2, QueueIs
      <3>2. ASSUME NEW x \in Reqs, Contains(running[u], x), x \notin Served(u)'
            PROVE  InCommit(u[1])' /\ st'[x] \in {"delivering", "done"}
        <4>1. CASE x = r /\ r \in Served(u)
          BY <1>3, <1>8, <2>6, <4>1
        <4>2. CASE x \notin Served(u)
          <5>1. x # r
            BY <1>7, <3>1, <3>2, <4>2
          <5> QED
            BY <1>3, <1>8, <3>1, <3>2, <4>2, <5>1
        <4> QED
          BY <2>6, <3>2, <4>1, <4>2
      <3> QED
        BY <2>6, <3>1, <3>2
    <2> QED
      BY <2>1, <2>4, <2>5, <2>7 DEF QueueOK
  <1>13. BatchOK'
    <2>1. \A x : InPass(x)' => st'[x] = st[x] /\ unit'[x] = unit[x] /\ decUnit'[x] = decUnit[x] /\ left'[x] = left[x]
      BY <1>3, <1>4, <1>5, <1>8
    <2> QED
      BY <1>2, <1>3, <2>1, BatchStays
  <1>14. StoredOK'
    <2>1. Stored(r)'
      BY <1>8 DEF Stored
    <2> QED
      BY <1>2, <1>3, <1>4, <1>5, <1>8, <2>1, StoredStays
  <1>15. KeepSlots'
    <2>1. ASSUME NEW w \in WorkersOf(Decode), busy'[w]
          PROVE  \A x \in Reqs : st'[x] = "decode" /\ decUnit'[x][1] = w <=> st[x] = "decode" /\ decUnit[x][1] = w
      <3>1. w # W
        BY <1>3, <2>1
      <3>2. st[r] = "decode" => decUnit[r][1] = W
        BY <1>3, <1>6, <1>7
      <3> QED
        BY <1>8, <3>1, <3>2
    <2> QED
      BY <1>2, <2>1, KeepStays
  <1>16. RoomExact'
    <2>1. \A x \in Reqs \ {r} : /\ st'[x] = st[x] /\ unit'[x] = unit[x] /\ decUnit'[x] = decUnit[x]
                                /\ alloc'[x] = alloc[x] /\ decAlloc'[x] = decAlloc[x]
      BY <1>8
    <2>2. ASSUME NEW u \in Units
          PROVE  used'[u] = used[u] - Share(u, r) + Share(u, r)'
      <3>1. Share(u, r)' = 0
        BY <1>8 DEF Share, Holding, Reserving
      <3>2. Share(u, r) = IF u = v THEN n ELSE 0
        <4>1. CASE st[r] = "prefill"
          BY <1>7, <4>1, UnitIs DEF Share, Holding, Reserving
        <4>2. CASE st[r] = "decode"
          <5>1. v \notin Ranks(Prefill)
            BY <1>7, <4>2, UnitIs
          <5> QED
            BY <1>7, <4>2, <5>1 DEF Share, Holding, Reserving
        <4> QED
          BY <1>7, <4>1, <4>2
      <3>3. used[u] \in Int /\ n \in Int
        BY <1>7
      <3>4. CASE u = v
        <4>1. used'[u] = used[u] - n /\ Share(u, r) = n
          BY <1>9, <3>2, <3>4
        <4> QED
          BY <3>1, <3>3, <4>1
      <3>5. CASE u # v
        <4>1. used'[u] = used[u] /\ Share(u, r) = 0
          BY <1>9, <3>2, <3>5
        <4> QED
          BY <3>1, <3>3, <4>1
      <3> QED
        BY <3>4, <3>5
    <2>3. used'[v] <= used[v]
      <3>1. used[v] \in Int /\ n \in Nat
        BY <1>7
      <3> QED
        BY <1>9, <3>1
    <2>4. \A u \in Units : used'[u] <= used[u] \/ used'[u] <= Cap[PoolOf(u[1])]
      <3> SUFFICES ASSUME NEW u \in Units
                   PROVE  used'[u] <= used[u]
        OBVIOUS
      <3>1. used[u] \in Int /\ (u # v => used'[u] = used[u])
        BY <1>7, <1>9
      <3> QED
        BY <2>3, <3>1
    <2>5. alloc' \in [Reqs -> Nat] /\ decAlloc' \in [Reqs -> Nat]
      BY <1>7
    <2>6. st'[r] # "delivering" /\ st'[r] # "decode"
      BY <1>8
    <2> QED
      BY <1>2, <1>9, <2>1, <2>2, <2>4, <2>5, <2>6, RoomStep
  <1>17. SlotsOK'
    BY <1>2, <1>3, SlotsStay
  <1>18. LoopOK'
    BY <1>3 DEF LoopOK
  <1>19. RestOK'
    <2>1. \A w : Blocked(w) => Blocked(w)'
      BY DEF Blocked
    <2>2. \A x \in Reqs : st[x] = "delivering" => st'[x] = "delivering" /\ unit'[x] = unit[x]
      BY <1>7, <1>8
    <2> QED
      BY <1>2, <1>3, <2>1, <2>2, RestCommit
  <1> QED
    BY <1>3, <1>10, <1>11, <1>12, <1>13, <1>14, <1>15, <1>16, <1>17, <1>18, <1>19 DEF PoolsInv

(* A request of one token ends with its prefill.                           *)
LEMMA CommitShortSafe ==
  ASSUME PoolsInv, CommitShort
  PROVE  PoolsInv'
PROOF
  <1>0. PICK b : b = batch[W][I]
    OBVIOUS
  <1>1. /\ At("commit") /\ I <= Len(batch[W]) /\ st[b.req] = "prefill" /\ Committed
        /\ left' = [left EXCEPT ![b.req] = 0] /\ gen' = [gen EXCEPT ![b.req] = 1]
        /\ st' = [st EXCEPT ![b.req] = "done"]
        /\ used' = [used EXCEPT ![unit[b.req]] = @ - alloc[b.req]]
        /\ AfterDone(b.req)
        /\ UNCHANGED <<unit, decUnit, alloc, decAlloc, running, waiting, decWaiting, busy, batch, xfers>>
    BY <1>0 DEF CommitShort, Committing, worker, Released
  <1>2. unit[b.req] = b.unit /\ b.req \in Reqs
    BY <1>0, <1>1, CommitIs
  <1>3. left \in [Reqs -> Nat] /\ gen \in [Reqs -> Nat]
    BY DEF PoolsInv, PoolsTypeOK
  <1>4. left' \in [Reqs -> Nat] /\ gen' \in [Reqs -> Nat] /\ \A x \in Reqs : x # b.req => left'[x] = left[x]
    BY <1>1, <1>2, <1>3
  <1>5. PICK n : n = alloc[b.req]
    OBVIOUS
  <1>6. used' = [used EXCEPT ![b.unit] = @ - n]
    BY <1>1, <1>2, <1>5
  <1> QED
    BY <1>0, <1>1, <1>4, <1>5, <1>6, FinishSafe

(* The last token of a request is produced.                                *)
LEMMA CommitLastSafe ==
  ASSUME PoolsInv, CommitLast
  PROVE  PoolsInv'
PROOF
  <1>0. PICK b : b = batch[W][I]
    OBVIOUS
  <1>1. /\ At("commit") /\ I <= Len(batch[W]) /\ st[b.req] = "decode" /\ Committed
        /\ gen' = [gen EXCEPT ![b.req] = Osl[b.req]]
        /\ st' = [st EXCEPT ![b.req] = "done"]
        /\ used' = [used EXCEPT ![decUnit[b.req]] = @ - decAlloc[b.req]]
        /\ AfterDone(b.req)
        /\ UNCHANGED <<unit, decUnit, left, alloc, decAlloc, running, waiting, decWaiting, busy, batch, xfers>>
    BY <1>0 DEF CommitLast, Committing, worker
  <1>2. decUnit[b.req] = b.unit /\ b.req \in Reqs
    BY <1>0, <1>1, CommitIs
  <1>3. left \in [Reqs -> Nat] /\ gen \in [Reqs -> Nat] /\ Osl[b.req] \in Nat
    BY <1>2, PoolsAssumption DEF PoolsInv, PoolsTypeOK
  <1>4. left' \in [Reqs -> Nat] /\ gen' \in [Reqs -> Nat] /\ \A x \in Reqs : x # b.req => left'[x] = left[x]
    BY <1>1, <1>2, <1>3
  <1>5. PICK n : n = decAlloc[b.req]
    OBVIOUS
  <1>6. used' = [used EXCEPT ![b.unit] = @ - n] /\ st[b.req] # "prefill"
    BY <1>1, <1>2, <1>5
  <1> QED
    BY <1>0, <1>1, <1>4, <1>5, <1>6, FinishSafe

(* pick_unit answers with a rank of the worker.                            *)
LEMMA PickedIs ==
  ASSUME PoolsTypeOK, NEW p \in Pool, NEW w \in WorkersOf(p)
  PROVE  Picked(p, w) \in Ranks(p) /\ Picked(p, w)[1] = w
PROOF
  <1> DEFINE K == 1 .. Dp[p]
             A == {Active(<<w, k>>) : k \in K}
             least == {k \in K : Active(<<w, k>>) = Min(A)}
  <1>1. Dp[p] \in Nat \ {0} /\ PoolOf(w) = p /\ w \in AllWorkers
    BY WorkersAre, PoolIs
  <1>2. ASSUME NEW k \in K
        PROVE  Active(<<w, k>>) \in Int
    <2>1. <<w, k>> \in Units
      BY <1>1, UnitIs
    <2>2. PICK u \in Units : u = <<w, k>>
      BY <2>1
    <2>3. running[u] \in Seq(Reqs) /\ waiting[u] \in Seq(Reqs) /\ decWaiting[u] \in Seq(Reqs)
      BY DEF PoolsTypeOK
    <2>4. Active(u) \in Int
      BY <2>3, LenProperties DEF Active
    <2> QED
      BY <2>2, <2>4
  <1>3. IsFiniteSet(K) /\ K \in SUBSET Int /\ 1 \in K
    <2>1. IsFiniteSet(K)
      BY <1>1, FS_Interval
    <2>2. K \in SUBSET Int /\ 1 \in K
      BY <1>1
    <2> QED
      BY <2>1, <2>2
  <1>4. IsFiniteSet(A)
    <2> DEFINE f == [k \in K |-> Active(<<w, k>>)]
    <2>1. f \in Surjection(K, A)
      BY DEF Surjection
    <2> QED
      BY <1>3, <2>1, FS_Surjection
  <1>5. A \in SUBSET Int /\ A # {}
    BY <1>2, <1>3
  <1>6. Min(A) \in A
    <2> HIDE DEF A, K
    <2> QED
      BY <1>4, <1>5, LeastGreatest
  <1>7. least # {} /\ least \in SUBSET K
    <2> HIDE DEF K
    <2> QED
      BY <1>6
  <1>8. least \in SUBSET Int /\ IsFiniteSet(least)
    BY <1>3, <1>7, FS_Subset
  <1>9. Min(least) \in K
    <2> HIDE DEF least, K
    <2>1. Min(least) \in least
      BY <1>7, <1>8, LeastGreatest
    <2> QED
      BY <1>7, <2>1
  <1>10. Picked(p, w) = <<w, Min(least)>>
    BY DEF Picked
  <1> HIDE DEF least
  <1> QED
    BY <1>1, <1>9, <1>10 DEF Ranks

(* A request whose prompt is computed leaves for a decode rank, and keeps  *)
(* its room until it gets there.                                           *)
LEMMA StartDeliverySafe ==
  ASSUME PoolsInv, StartDelivery
  PROVE  PoolsInv'
PROOF
  <1>0. PICK b : b = batch[W][I]
    OBVIOUS
  <1>1. /\ At("commit") /\ I <= Len(batch[W]) /\ st[b.req] = "prefill" /\ b.tokens = left[b.req] /\ Committed
        /\ left' = [left EXCEPT ![b.req] = 0] /\ gen' = [gen EXCEPT ![b.req] = 1]
        /\ st' = [st EXCEPT ![b.req] = "delivering"]
        /\ \E w \in WorkersOf(Decode) :
             /\ Routed(Decode, b.req, w)
             /\ decUnit' = [decUnit EXCEPT ![b.req] = Picked(Decode, w)]
             /\ xfers' = [xfers EXCEPT ![w] = Append(@, b.req)]
        /\ UNCHANGED <<unit, alloc, decAlloc, used, running, waiting, decWaiting, busy, batch, remaining>>
    BY <1>0 DEF StartDelivery, Committing, rank
  <1>2. /\ PoolsTypeOK /\ HandlerOK /\ QueueOK /\ BatchOK /\ StoredOK /\ SlotsOK /\ LoopOK
        /\ CountOK /\ RestOK /\ RoomExact /\ KeepSlots /\ TreesExact
    BY DEF PoolsInv
  <1>3. /\ HandlerOK' /\ todo' \in Seq(CallType) /\ ~ Forming'
        /\ (\A w : InCommit(w)' <=> InCommit(w)) /\ InCommit(W)
        /\ \A w : Untried(w)' => Untried(w)
        /\ b.req \in Reqs /\ b.unit \in Units /\ b.unit[1] = W /\ InPass(b.req) /\ b.req \in Served(b.unit)
        /\ unit[b.req] = b.unit /\ b.tokens \in 1 .. left[b.req]
        /\ alloc[b.req] = Isl[b.req] - left[b.req] + b.tokens
        /\ \A w \in AllWorkers : Pass(w)' \subseteq Pass(w)
        /\ \A x : InPass(x)' <=> InPass(x) /\ x # b.req
    BY <1>0, <1>1, <1>2, CommitIs
  <1>4. \A x : InPass(x) => x \in Reqs /\ st[x] \in {"prefill", "decode"}
    BY <1>2, OneEntry
  <1>5. PICK r \in Reqs : r = b.req
    BY <1>3
  <1>6. PICK w \in WorkersOf(Decode) : /\ Routed(Decode, r, w)
                                       /\ decUnit' = [decUnit EXCEPT ![r] = Picked(Decode, w)]
                                       /\ xfers' = [xfers EXCEPT ![w] = Append(@, r)]
    BY <1>1, <1>5
  <1>7. PICK v : v = Picked(Decode, w)
    OBVIOUS
  <1>8. v \in Ranks(Decode) /\ v[1] = w /\ v # None /\ Decode \in Pool
    <2>1. Decode \in Pool
      BY DEF Decode, Pool
    <2>2. v \in Ranks(Decode) /\ v[1] = w
      BY <1>2, <1>7, <2>1, PickedIs
    <2>3. v \in Units /\ None \notin Units
      BY <2>1, <2>2, UnitIs, PoolsAssumption
    <2> QED
      BY <2>1, <2>2, <2>3
  <1>9. st[r] = "prefill" /\ alloc[r] = Isl[r]
    <2>1. left[r] \in Nat /\ Isl[r] \in Nat
      BY <1>2, PoolsAssumption DEF PoolsTypeOK
    <2> QED
      BY <1>1, <1>3, <1>5, <2>1
  <1>10. /\ st'[r] = "delivering" /\ (\A x \in Reqs \ {r} : st'[x] = st[x]) /\ st' \in [Reqs -> States]
    BY <1>1, <1>2, <1>5 DEF PoolsTypeOK, States
  <1>11. /\ left' \in [Reqs -> Nat] /\ gen' \in [Reqs -> Nat]
         /\ \A x \in Reqs : x # r => left'[x] = left[x]
    <2>1. left \in [Reqs -> Nat] /\ gen \in [Reqs -> Nat]
      BY <1>2 DEF PoolsTypeOK
    <2> QED
      BY <1>1, <1>5, <2>1
  <1>12. /\ decUnit'[r] = v /\ decUnit' \in [Reqs -> Ranks(Decode) \cup {None}]
         /\ \A x \in Reqs : x # r => decUnit'[x] = decUnit[x]
    <2>1. decUnit \in [Reqs -> Ranks(Decode) \cup {None}]
      BY <1>2 DEF PoolsTypeOK
    <2> QED
      BY <1>6, <1>7, <1>8, <2>1
  <1>13. PICK s : s = xfers[w]
    OBVIOUS
  <1>14. /\ s \in Seq(Reqs) /\ Held(s, Sent(w))
    BY <1>2, <1>13 DEF PoolsTypeOK, QueueOK
  <1>15. r \notin Sent(w) /\ Append(s, r) \in Seq(Reqs) /\ Held(Append(s, r), Sent(w) \cup {r})
    <2>1. r \notin Sent(w)
      BY <1>9 DEF Sent
    <2> QED
      BY <1>14, <2>1, HeldPush
  <1>16. /\ xfers' \in [WorkersOf(Decode) -> Seq(Reqs)] /\ xfers'[w] = Append(s, r)
         /\ \A k \in WorkersOf(Decode) \ {w} : xfers'[k] = xfers[k]
    <2>1. xfers \in [WorkersOf(Decode) -> Seq(Reqs)]
      BY <1>2 DEF PoolsTypeOK
    <2> QED
      BY <1>6, <1>13, <1>15, <2>1
  <1>17. \A x \in Reqs : st'[x] = "done" <=> st[x] = "done"
    BY <1>9, <1>10
  <1>18. /\ CountOK'
         /\ trees' \in [AllWorkers -> Nat]
         /\ rr' \in [Pool -> Nat] /\ sticky' \in [Trees -> [Pool -> AllWorkers \cup {None}]]
         /\ \A q \in Pool, t \in Trees : sticky[t][q] # None => sticky'[t][q] = sticky[t][q]
         /\ ByHistory(Decode) => sticky'[TreeOf[r]][Decode] = w
    BY <1>1, <1>2, <1>6, <1>8, <1>9, <1>17, CountRouted
  <1>19. PoolsTypeOK'
    BY <1>1, <1>2, <1>3, <1>10, <1>11, <1>12, <1>16, <1>18 DEF PoolsTypeOK
  <1>20. TreesExact'
    <2>1. \A x \in Reqs : \/ decUnit'[x] = decUnit[x]
                          \/ ByHistory(Decode) => decUnit'[x][1] = sticky'[TreeOf[x]][Decode]
      BY <1>8, <1>12, <1>18
    <2> QED
      BY <1>1, <1>2, <1>18, <2>1, HomesStay
  <1>21. QueueOK'
    <2>1. \A x \in Reqs : /\ st'[x] \in States \ {"pending", "done"} => unit'[x] # None
                          /\ st'[x] \in {"delivering", "dec_queued", "decode"} => decUnit'[x] # None
      <3>1. unit[r] # None
        BY <1>2, <1>9 DEF QueueOK, States
      <3> QED
        BY <1>1, <1>2, <1>8, <1>10, <1>12, <3>1 DEF QueueOK
    <2>2. \A u : Queued(u)' = Queued(u) /\ DecQueued(u)' = DecQueued(u)
      BY <1>1, <1>9, <1>10, <1>12 DEF Queued, DecQueued
    <2>3. \A k : Sent(k)' = IF k = w THEN Sent(k) \cup {r} ELSE Sent(k)
      BY <1>8, <1>9, <1>10, <1>12 DEF Sent
    <2>4. \A u \in Units : Held(waiting[u], Queued(u))' /\ Held(decWaiting[u], DecQueued(u))'
      BY <1>1, <1>2, <2>2 DEF QueueOK, Held
    <2>5. ASSUME NEW k \in WorkersOf(Decode)
          PROVE  Held(xfers[k], Sent(k))'
      <3>1. CASE k = w
        BY <1>15, <1>16, <2>3, <3>1, HeldNext
      <3>2. CASE k # w
        <4>1. Held(xfers[k], Sent(k))
          BY <1>2 DEF QueueOK
        <4> QED
          BY <1>16, <2>3, <3>2, <4>1, HeldNext
      <3> QED
        BY <3>1, <3>2
    <2>6. \A u \in Units : Served(u)' = Served(u) \ {r} /\ (r \in Served(u) => u[1] = W)
      <3>1. \A u : Served(u)' = Served(u) \ {r}
        BY <1>1, <1>10, <1>12 DEF Served
      <3>2. \A u : r \in Served(u) => u = b.unit
        BY <1>3, <1>5, <1>9 DEF Served
      <3> QED
        BY <1>3, <3>1, <3>2
    <2>7. ASSUME NEW u \in Units
          PROVE  /\ IsInjective(running'[u])
                 /\ \A x \in Reqs : /\ x \in Served(u)' => Contains(running'[u], x)
                                    /\ Contains(running'[u], x) /\ x \notin Served(u)' =>
                                         InCommit(u[1])' /\ st'[x] \in {"delivering", "done"}
      <3>1. /\ IsInjective(running[u])
            /\ \A x \in Reqs : /\ x \in Served(u) => Contains(running[u], x)
                               /\ Contains(running[u], x) /\ x \notin Served(u) =>
                                    InCommit(u[1]) /\ st[x] \in {"delivering", "done"}
        BY <1>2, QueueIs
      <3>2. ASSUME NEW x \in Reqs, Contains(running[u], x), x \notin Served(u)'
            PROVE  InCommit(u[1])' /\ st'[x] \in {"delivering", "done"}
        <4>1. CASE x = r /\ r \in Served(u)
          BY <1>3, <1>10, <2>6, <4>1
        <4>2. CASE x \notin Served(u)
          <5>1. x # r
            BY <1>9, <3>1, <3>2, <4>2
          <5> QED
            BY <1>3, <1>10, <3>1, <3>2, <4>2, <5>1
        <4> QED
          BY <2>6, <3>2, <4>1, <4>2
      <3> QED
        BY <1>1, <2>6, <3>1, <3>2
    <2> QED
      BY <2>1, <2>4, <2>5, <2>7 DEF QueueOK
  <1>22. BatchOK'
    <2>1. \A x : InPass(x)' => st'[x] = st[x] /\ unit'[x] = unit[x] /\ decUnit'[x] = decUnit[x] /\ left'[x] = left[x]
      BY <1>1, <1>3, <1>4, <1>5, <1>10, <1>11, <1>12
    <2> QED
      BY <1>1, <1>2, <1>3, <2>1, BatchStays
  <1>23. StoredOK'
    <2>1. Stored(r)'
      BY <1>10 DEF Stored
    <2>2. \A x : InPass(x)' => left'[x] = left[x] /\ alloc'[x] = alloc[x]
      BY <1>1, <1>3, <1>4, <1>5, <1>11
    <2> QED
      BY <1>1, <1>2, <1>3, <1>5, <1>10, <1>11, <2>1, <2>2, StoredStays
  <1>24. KeepSlots'
    <2>1. \A x \in Reqs : \A k : st'[x] = "decode" /\ decUnit'[x][1] = k <=> st[x] = "decode" /\ decUnit[x][1] = k
      BY <1>9, <1>10, <1>12
    <2> QED
      BY <1>1, <1>2, <2>1, KeepStays
  <1>25. RoomExact'
    <2>1. \A u : Holding(u)' = Holding(u)
      BY <1>1, <1>9, <1>10 DEF Holding
    <2>2. \A u : Reserving(u)' = Reserving(u)
      BY <1>9, <1>10, <1>12 DEF Reserving
    <2>3. \A x \in Reqs : st'[x] \in {"delivering", "decode"} =>
                            st[x] = st'[x] \/ (st'[x] = "delivering" /\ alloc[x] = Isl[x])
      BY <1>9, <1>10
    <2> QED
      BY <1>1, <1>2, <2>1, <2>2, <2>3, RoomStays
  <1>26. SlotsOK'
    BY <1>1, <1>2, <1>3, SlotsStay
  <1>27. LoopOK'
    BY <1>3 DEF LoopOK
  <1>28. RestOK'
    <2>1. ASSUME NEW k, Blocked(k)
          PROVE  Blocked(k)'
      <3>1. CASE k = w
        <4>1. xfers'[k] # <<>>
          BY <1>5, <1>14, <1>16, <3>1, PushBack, EmptyQueue
        <4> QED
          BY <2>1, <4>1 DEF Blocked
      <3>2. CASE k # w
        BY <1>16, <2>1, <3>2 DEF Blocked
      <3> QED
        BY <3>1, <3>2
    <2>2. \A x \in Reqs : st[x] = "delivering" => st'[x] = "delivering" /\ unit'[x] = unit[x]
      BY <1>1, <1>10
    <2> QED
      BY <1>1, <1>2, <1>3, <2>1, <2>2, RestCommit
  <1> QED
    BY <1>3, <1>18, <1>19, <1>20, <1>21, <1>22, <1>23, <1>24, <1>25, <1>26, <1>27, <1>28 DEF PoolsInv

(* What is left of running are the requests of it that are computed, each  *)
(* once.                                                                   *)
LEMMA StillServedIs ==
  ASSUME NEW run \in Seq(Reqs)
  PROVE  LET kept == StillServed(run) IN
         /\ kept \in Seq(Reqs)
         /\ \A r : Contains(kept, r) <=> Contains(run, r) /\ st[r] \in {"prefill", "decode"}
         /\ IsInjective(run) => IsInjective(kept)
PROOF
  <1> DEFINE D == DOMAIN run
             K == {r \in Reqs : st[r] \in {"prefill", "decode"}}
             Eq(g) == g = [u \in SUBSET D |->
                             IF u = {} THEN <<>>
                             ELSE IF st[run[Max(u)]] \in {"prefill", "decode"}
                                    THEN Append(g[u \ {Max(u)}], run[Max(u)])
                             ELSE g[u \ {Max(u)}]]
             f == CHOOSE g : Eq(g)
  <1>1. D = 1 .. Len(run) /\ Len(run) \in Nat /\ IsFiniteSet(D) /\ \A i \in D : run[i] \in Reqs
    BY LenProperties, ElementOfSeq, FS_Interval
  <1>2. StillServed(run) = f[D]
    BY DEF StillServed, FoldLeft, MapThenFoldSet
  <1>3. ASSUME NEW u \in SUBSET D, u # {}
        PROVE  st[run[Max(u)]] \in {"prefill", "decode"} <=> run[Max(u)] \in K
    <2>1. u \in SUBSET Int /\ IsFiniteSet(u)
      BY <1>1, FS_Subset
    <2>2. Max(u) \in D
      BY <1>3, <2>1, LeastGreatest
    <2> QED
      BY <1>1, <2>2
  <1>4. ASSUME NEW g
        PROVE  Eq(g) <=> FiltersUp(g, run, K, D)
    <2>1. [u \in SUBSET D |->
             IF u = {} THEN <<>>
             ELSE IF st[run[Max(u)]] \in {"prefill", "decode"}
                    THEN Append(g[u \ {Max(u)}], run[Max(u)])
             ELSE g[u \ {Max(u)}]]
          = [u \in SUBSET D |->
               IF u = {} THEN <<>>
               ELSE IF run[Max(u)] \in K THEN Append(g[u \ {Max(u)}], run[Max(u)])
               ELSE g[u \ {Max(u)}]]
      <3> HIDE DEF K, D
      <3> QED
        BY <1>3
    <2> HIDE DEF K, D
    <2> QED
      BY <2>1 DEF FiltersUp
  <1> HIDE DEF Eq
  <1>5. \E g : Eq(g)
    <2>1. D \in SUBSET Int
      BY <1>1
    <2> HIDE DEF K, D
    <2> QED
      BY <1>1, <1>4, <2>1, FiltersExist
  <1>6. FiltersUp(f, run, K, D)
    <2> HIDE DEF K, D
    <2> QED
      BY <1>4, <1>5
  <1> HIDE DEF f
  <1>7. /\ f[D] \in Seq(Reqs)
        /\ \A r : Contains(f[D], r) <=> r \in K /\ Contains(run, r)
        /\ IsInjective(run) => IsInjective(f[D])
    <2> HIDE DEF K
    <2> QED
      BY <1>6, FiltersKeep
  <1>8. \A r : Contains(run, r) => r \in Reqs
    BY <1>1 DEF Contains
  <1> QED
    BY <1>2, <1>7, <1>8

(* A sequence without repetitions is no longer than one that has all of it.*)
LEMMA NoLonger ==
  ASSUME NEW S, NEW s \in Seq(S), NEW t \in Seq(S), IsInjective(s), \A x : Contains(s, x) => Contains(t, x)
  PROVE  Len(s) <= Len(t) /\ Len(s) \in Nat /\ Len(t) \in Nat
PROOF
  <1> DEFINE m == Len(s)
             n == Len(t)
             f == [i \in 1 .. m |-> CHOOSE j \in 1 .. n : t[j] = s[i]]
  <1>1. m \in Nat /\ n \in Nat /\ DOMAIN s = 1 .. m /\ DOMAIN t = 1 .. n
    BY LenProperties
  <1>2. ASSUME NEW i \in 1 .. m
        PROVE  f[i] \in 1 .. n /\ t[f[i]] = s[i]
    <2>1. \E j \in 1 .. n : t[j] = s[i]
      BY <1>1 DEF Contains
    <2> QED
      BY <2>1
  <1>3. f \in Injection(1 .. m, 1 .. n)
    <2>1. f \in [1 .. m -> 1 .. n]
      BY <1>2
    <2>2. ASSUME NEW i \in 1 .. m, NEW j \in 1 .. m, f[i] = f[j]
          PROVE  i = j
      <3>1. s[i] = s[j]
        BY <1>2, <2>2
      <3> QED
        BY <1>1, <3>1 DEF IsInjective
    <2> HIDE DEF f
    <2>3. DOMAIN f = 1 .. m
      BY <2>1
    <2> QED
      BY <2>1, <2>2, <2>3 DEF Injection, IsInjective
  <1> HIDE DEF f, m, n
  <1>4. IsFiniteSet(1 .. n) /\ Cardinality(1 .. n) = n /\ Cardinality(1 .. m) = m
    BY <1>1, FS_Interval
  <1>5. Cardinality(1 .. m) <= Cardinality(1 .. n)
    BY <1>3, <1>4, FS_Injection
  <1> QED
    BY <1>1, <1>4, <1>5 DEF m, n

(* What has just been committed leaves running.                            *)
LEMMA CommitEndsSafe ==
  ASSUME PoolsInv, CommitEnds
  PROVE  PoolsInv'
PROOF
  <1>1. /\ At("commit") /\ I > Len(batch[W]) /\ todo' = Tail(todo)
        /\ running' = [u \in Units |-> IF u[1] = W THEN StillServed(running[u]) ELSE running[u]]
        /\ UNCHANGED <<st, unit, decUnit, left, gen, alloc, decAlloc, used, waiting, decWaiting, busy, batch, xfers,
                       rr, sticky, trees, remaining>>
    BY DEF CommitEnds, req, worker, router
  <1>2. /\ PoolsTypeOK /\ HandlerOK /\ QueueOK /\ BatchOK /\ StoredOK /\ SlotsOK /\ LoopOK
        /\ CountOK /\ RestOK /\ RoomExact /\ KeepSlots /\ TreesExact
    BY DEF PoolsInv
  <1>3. /\ ~ Idle /\ ~ Forming /\ W \in AllWorkers /\ I \in Nat
        /\ ~ busy[W] /\ Len(todo) = 2 /\ todo[2].w = W
        /\ \A w : InCommit(w) <=> w = W
    <2>1. ~ Idle /\ ~ Forming /\ \A w : InCommit(w) <=> w = W
      BY <1>1 DEF At, Forming, InCommit
    <2>2. W \in AllWorkers /\ I \in Nat
      BY <1>2, <2>1, CallIs
    <2> QED
      BY <1>1, <1>2, <2>1, <2>2 DEF HandlerOK
  <1>4. /\ HandlerOK' /\ todo' \in Seq(CallType) /\ ~ Forming' /\ (\A w : ~ InCommit(w)')
        /\ \A w : Untried(w)' /\ w # W => Untried(w)
    BY <1>1, <1>2, <1>3, PopCall
  <1>5. \A w : Untried(w)' => w # W
    <2>1. 2 \in DOMAIN todo
      <3>1. DOMAIN todo = 1 .. Len(todo)
        BY <1>2, <1>3, CallIs
      <3> QED
        BY <1>3, <3>1
    <2>2. \E j \in DOMAIN todo' : todo'[j] = todo[2]
      BY <1>1, <1>2, <1>3, <2>1, PoppedIs
    <2> QED
      BY <1>3, <2>2 DEF Untried
  <1>6. \A w \in AllWorkers : Pass(w)' = Pass(w)
    <2>1. Pass(W) = {}
      <3>1. DOMAIN batch[W] = 1 .. Len(batch[W]) /\ Len(batch[W]) \in Nat
        BY <1>2, <1>3, EntryIs
      <3>2. \A i \in 1 .. Len(batch[W]) : ~ i >= I
        BY <1>1, <1>3, <3>1
      <3> QED
        BY <1>3, <3>1, <3>2 DEF Pass
    <2>2. \A w \in AllWorkers : w = W => Pass(w)' = {}
      BY <1>1, <1>3, <1>4 DEF Pass
    <2>3. \A w \in AllWorkers : w # W => Pass(w)' = Pass(w)
      BY <1>1, <1>3, <1>4 DEF Pass
    <2> QED
      BY <2>1, <2>2, <2>3
  <1>7. \A x : InPass(x)' <=> InPass(x)
    BY <1>1, <1>6 DEF InPass
  <1>8. ASSUME NEW u \in Units
        PROVE  /\ running[u] \in Seq(Reqs) /\ running'[u] \in Seq(Reqs) /\ IsInjective(running'[u])
               /\ \A x : Contains(running'[u], x) => Contains(running[u], x)
               /\ \A x \in Reqs : Contains(running'[u], x) <=> x \in Served(u)
    <2>1. /\ running[u] \in Seq(Reqs) /\ IsInjective(running[u])
          /\ \A x \in Reqs : /\ x \in Served(u) => Contains(running[u], x)
                             /\ Contains(running[u], x) /\ x \notin Served(u) =>
                                  InCommit(u[1]) /\ st[x] \in {"delivering", "done"}
      BY <1>2, QueueIs
    <2>2. PICK run \in Seq(Reqs) : run = running[u]
      BY <2>1
    <2>3. CASE u[1] = W
      <3>1. PICK kept : kept = StillServed(run)
        OBVIOUS
      <3>2. /\ kept \in Seq(Reqs) /\ IsInjective(kept)
            /\ \A x : Contains(kept, x) <=> Contains(run, x) /\ st[x] \in {"prefill", "decode"}
        BY <2>1, <2>2, <3>1, StillServedIs
      <3>3. running'[u] = kept
        BY <1>1, <2>2, <2>3, <3>1
      <3>4. \A x \in Served(u) : st[x] \in {"prefill", "decode"}
        BY DEF Served
      <3>5. \A x \in Reqs : Contains(kept, x) <=> x \in Served(u)
        BY <2>1, <2>2, <3>2, <3>4
      <3> QED
        BY <2>2, <3>2, <3>3, <3>5
    <2>4. CASE u[1] # W
      BY <1>1, <1>3, <2>1, <2>4
    <2> QED
      BY <2>3, <2>4
  <1>9. PoolsTypeOK'
    <2>1. running' \in [Units -> Seq(Reqs)]
      <3>1. DOMAIN running' = Units
        BY <1>1
      <3>2. running' = [u \in Units |-> running'[u]]
        BY <1>1
      <3> QED
        BY <1>8, <3>2
    <2> QED
      BY <1>1, <1>2, <1>4, <2>1 DEF PoolsTypeOK
  <1>10. QueueOK'
    <2>1. \A x \in Reqs : /\ st'[x] \in States \ {"pending", "done"} => unit'[x] # None
                          /\ st'[x] \in {"delivering", "dec_queued", "decode"} => decUnit'[x] # None
      BY <1>1, <1>2 DEF QueueOK
    <2>2. \A u : Queued(u)' = Queued(u) /\ DecQueued(u)' = DecQueued(u) /\ Served(u)' = Served(u)
      BY <1>1 DEF Queued, DecQueued, Served
    <2>3. \A w : Sent(w)' = Sent(w)
      BY <1>1 DEF Sent
    <2>4. \A u \in Units : Held(waiting[u], Queued(u))' /\ Held(decWaiting[u], DecQueued(u))'
      BY <1>1, <1>2, <2>2 DEF QueueOK, Held
    <2>5. \A w \in WorkersOf(Decode) : Held(xfers[w], Sent(w))'
      BY <1>1, <1>2, <2>3 DEF QueueOK, Held
    <2> QED
      BY <1>8, <2>1, <2>2, <2>4, <2>5 DEF QueueOK
  <1>11. BatchOK'
    BY <1>1, <1>2, <1>6, BatchStays
  <1>12. StoredOK'
    BY <1>1, <1>2, <1>6, <1>7, StoredStays
  <1>13. CountOK'
    BY <1>1, <1>2, CountStays
  <1>14. TreesExact'
    BY <1>1, <1>2, <1>13, HomesStay
  <1>15. KeepSlots'
    BY <1>1, <1>2, KeepStays
  <1>16. RoomExact'
    <2>1. \A u : Holding(u)' = Holding(u) /\ Reserving(u)' = Reserving(u)
      BY <1>1 DEF Holding, Reserving
    <2> QED
      BY <1>1, <1>2, <2>1, RoomStays
  <1>17. SlotsOK'
    <2>1. ASSUME NEW u \in Ranks(Decode)
          PROVE  Fits(Len(running'[u]))
      <3>1. u \in Units
        BY UnitIs DEF Pool, Decode
      <3>2. PICK s \in Seq(Reqs), t \in Seq(Reqs) :
              /\ s = running'[u] /\ t = running[u] /\ IsInjective(s) /\ \A x : Contains(s, x) => Contains(t, x)
        BY <1>8, <3>1
      <3>3. Len(s) <= Len(t) /\ Len(s) \in Nat /\ Len(t) \in Nat
        BY <3>2, NoLonger
      <3>4. Fits(Len(t))
        BY <1>2, <3>2 DEF SlotsOK
      <3>5. Fits(Len(s))
        BY <3>3, <3>4, FewerFit
      <3> QED
        BY <3>2, <3>5
    <2>2. \A k : Fits(k)' <=> Fits(k)
      BY DEF Fits, Step
    <2> QED
      BY <1>4, <2>1, <2>2 DEF SlotsOK
  <1>18. LoopOK'
    BY <1>4 DEF LoopOK
  <1>19. RestOK'
    <2>1. ASSUME NEW w \in AllWorkers, ~ busy'[w], ~ Blocked(w)', Untried(w)'
          PROVE  /\ ~ busy[w] /\ ~ Blocked(w) /\ Untried(w)
                 /\ \A k \in 1 .. Dp[PoolOf(w)] : Rests(<<w, k>>) => Rests(<<w, k>>)'
      <3>1. w # W
        BY <1>5, <2>1
      <3>2. Untried(w) /\ ~ busy[w] /\ ~ Blocked(w)
        BY <1>1, <1>4, <2>1, <3>1 DEF Blocked
      <3>3. ASSUME NEW k \in 1 .. Dp[PoolOf(w)], Rests(<<w, k>>)
            PROVE  Rests(<<w, k>>)'
        <4>0. <<w, k>> \in Units
          BY UnitIs, PoolIs
        <4>1. PICK u \in Units : u = <<w, k>>
          BY <4>0
        <4>2. running'[u] = running[u]
          BY <1>1, <3>1, <4>1
        <4>3. Rests(u)'
          BY <1>1, <3>3, <4>1, <4>2, RestsStays
        <4> QED
          BY <4>1, <4>3
      <3> QED
        BY <3>2, <3>3
    <2> QED
      BY <1>2, <1>4, <2>1, RestElse
  <1> QED
    BY <1>4, <1>9, <1>10, <1>11, <1>12, <1>13, <1>14, <1>15, <1>16, <1>17, <1>18, <1>19 DEF PoolsInv

-----------------------------------------------------------------------------
(* The events.                                                             *)

(* A worker that is tried is a call of its own.                            *)
LEMMA TryIs ==
  ASSUME NEW w \in AllWorkers
  PROVE  /\ Try(w) \in CallType /\ Try(w).do = "try" /\ Try(w).w = w /\ Try(w).rank = 1 /\ Try(w).i = 1
         /\ Call("commit", w, 1) \in CallType /\ Call("commit", w, 1).do = "commit" /\ Call("commit", w, 1).w = w
         /\ Call("commit", w, 1).rank = 1 /\ Call("commit", w, 1).i = 1
PROOF
  <1>1. 1 \in Nat /\ "try" # "commit"
    OBVIOUS
  <1>2. /\ Call("try", w, 1) \in CallType /\ Call("try", w, 1).do = "try" /\ Call("try", w, 1).w = w
        /\ Call("try", w, 1).rank = 1 /\ Call("try", w, 1).i = 1
    BY <1>1, CallType1
  <1>3. /\ Call("commit", w, 1) \in CallType /\ Call("commit", w, 1).do = "commit" /\ Call("commit", w, 1).w = w
        /\ Call("commit", w, 1).rank = 1 /\ Call("commit", w, 1).i = 1
    BY <1>1, CallType1
  <1> QED
    BY <1>2, <1>3 DEF Try

(* No batch is formed and none is committed before an event, nor after it, *)
(* unless the event is the end of a pass.                                  *)
LEMMA EventPasses ==
  ASSUME Idle, ~ Forming', \A w : ~ InCommit(w)', UNCHANGED <<busy, batch>>
  PROVE  (\A w : Pass(w)' = Pass(w)) /\ \A r : InPass(r)' <=> InPass(r)
PROOF
  <1>1. \A w : Pass(w)' = Pass(w)
    BY IdleIs DEF Pass
  <1> QED
    BY <1>1 DEF InPass

(* A request arrives on a prefill rank.                                    *)
LEMMA ArriveSafe ==
  ASSUME PoolsInv, NEW r \in Reqs, Arrive(r)
  PROVE  PoolsInv'
PROOF
  <1>1. PICK w \in WorkersOf(Prefill) :
          /\ Routed(Prefill, r, w)
          /\ unit' = [unit EXCEPT ![r] = Picked(Prefill, w)]
          /\ waiting' = [waiting EXCEPT ![Picked(Prefill, w)] = Append(@, r)]
          /\ todo' = <<Try(w)>>
    BY DEF Arrive
  <1>2. /\ Idle /\ st[r] = "pending" /\ st' = [st EXCEPT ![r] = "queued"]
        /\ UNCHANGED <<decUnit, left, gen, alloc, decAlloc, used, running, decWaiting, busy, batch, xfers, remaining>>
    BY DEF Arrive, worker
  <1>3. /\ PoolsTypeOK /\ HandlerOK /\ QueueOK /\ BatchOK /\ StoredOK /\ SlotsOK /\ LoopOK
        /\ CountOK /\ RestOK /\ RoomExact /\ KeepSlots /\ TreesExact
    BY DEF PoolsInv
  <1>4. PICK v : v = Picked(Prefill, w)
    OBVIOUS
  <1>5. /\ v \in Ranks(Prefill) /\ v[1] = w /\ v # None /\ Prefill \in Pool /\ v \in Units /\ w \in AllWorkers
    <2>1. Prefill \in Pool
      BY DEF Prefill, Pool
    <2>2. v \in Ranks(Prefill) /\ v[1] = w
      BY <1>3, <1>4, <2>1, PickedIs
    <2>3. v \in Units /\ None \notin Units
      BY <2>1, <2>2, UnitIs, PoolsAssumption
    <2>4. w \in AllWorkers
      BY <2>1, WorkersAre
    <2> QED
      BY <2>1, <2>2, <2>3, <2>4
  <1>6. PICK c : c = Try(w)
    OBVIOUS
  <1>7. /\ HandlerOK' /\ todo' \in Seq(CallType) /\ ~ Forming' /\ (\A k : ~ InCommit(k)')
        /\ \A k : Untried(k)' => k # w
    <2>1. c \in CallType /\ c.do = "try" /\ c.w = w /\ c.rank = 1
      BY <1>5, <1>6, TryIs
    <2>2. todo' \in {<<c>>, <<c, c>>}
      BY <1>1, <1>6
    <2> QED
      BY <2>1, <2>2, NewHandler
  <1>8. (\A k : Pass(k)' = Pass(k)) /\ \A x : InPass(x)' <=> InPass(x)
    BY <1>2, <1>7, EventPasses
  <1>9. /\ st'[r] = "queued" /\ (\A x \in Reqs \ {r} : st'[x] = st[x]) /\ st' \in [Reqs -> States]
        /\ unit'[r] = v /\ (\A x \in Reqs \ {r} : unit'[x] = unit[x])
        /\ unit' \in [Reqs -> Ranks(Prefill) \cup {None}]
    <2>1. st \in [Reqs -> States] /\ unit \in [Reqs -> Ranks(Prefill) \cup {None}]
      BY <1>3 DEF PoolsTypeOK
    <2>2. st'[r] = "queued" /\ (\A x \in Reqs \ {r} : st'[x] = st[x]) /\ st' \in [Reqs -> States]
      BY <1>2, <2>1 DEF States
    <2>3. /\ unit'[r] = v /\ (\A x \in Reqs \ {r} : unit'[x] = unit[x])
          /\ unit' \in [Reqs -> Ranks(Prefill) \cup {None}]
      BY <1>1, <1>4, <1>5, <2>1
    <2> QED
      BY <2>2, <2>3
  <1>10. PICK s : s = waiting[v]
    OBVIOUS
  <1>11. s \in Seq(Reqs) /\ Append(s, r) \in Seq(Reqs) /\ Held(Append(s, r), Queued(v) \cup {r})
    <2>1. s \in Seq(Reqs) /\ Held(s, Queued(v))
      BY <1>3, <1>5, <1>10, QueueIs
    <2>2. r \notin Queued(v)
      BY <1>2 DEF Queued
    <2> QED
      BY <2>1, <2>2, HeldPush
  <1>12. /\ waiting' \in [Units -> Seq(Reqs)] /\ waiting'[v] = Append(s, r)
         /\ \A u \in Units \ {v} : waiting'[u] = waiting[u]
    <2>1. waiting \in [Units -> Seq(Reqs)]
      BY <1>3 DEF PoolsTypeOK
    <2> QED
      BY <1>1, <1>4, <1>5, <1>10, <1>11, <2>1
  <1>13. \A x \in Reqs : st'[x] = "done" <=> st[x] = "done"
    BY <1>2, <1>9
  <1>14. /\ CountOK'
         /\ trees' \in [AllWorkers -> Nat]
         /\ rr' \in [Pool -> Nat] /\ sticky' \in [Trees -> [Pool -> AllWorkers \cup {None}]]
         /\ \A q \in Pool, t \in Trees : sticky[t][q] # None => sticky'[t][q] = sticky[t][q]
         /\ ByHistory(Prefill) => sticky'[TreeOf[r]][Prefill] = w
    BY <1>1, <1>2, <1>3, <1>5, <1>13, CountRouted
  <1>15. PoolsTypeOK'
    BY <1>2, <1>3, <1>7, <1>9, <1>12, <1>14 DEF PoolsTypeOK
  <1>16. TreesExact'
    <2>1. \A x \in Reqs : \/ unit'[x] = unit[x]
                          \/ ByHistory(Prefill) => unit'[x][1] = sticky'[TreeOf[x]][Prefill]
      BY <1>5, <1>9, <1>14
    <2> QED
      BY <1>2, <1>3, <1>14, <2>1, HomesStay
  <1>17. QueueOK'
    <2>1. \A x \in Reqs : /\ st'[x] \in States \ {"pending", "done"} => unit'[x] # None
                          /\ st'[x] \in {"delivering", "dec_queued", "decode"} => decUnit'[x] # None
      BY <1>2, <1>3, <1>5, <1>9 DEF QueueOK
    <2>2. \A u : /\ Queued(u)' = IF u = v THEN Queued(u) \cup {r} ELSE Queued(u)
                 /\ DecQueued(u)' = DecQueued(u) /\ Served(u)' = Served(u)
      <3>1. \A u : Queued(u)' = IF u = v THEN Queued(u) \cup {r} ELSE Queued(u)
        BY <1>2, <1>9 DEF Queued
      <3>2. \A u : DecQueued(u)' = DecQueued(u)
        BY <1>2, <1>9 DEF DecQueued
      <3>3. \A u : Served(u)' = Served(u)
        BY <1>2, <1>9 DEF Served
      <3> QED
        BY <3>1, <3>2, <3>3
    <2>3. \A k : Sent(k)' = Sent(k)
      BY <1>2, <1>9 DEF Sent
    <2>4. ASSUME NEW u \in Units
          PROVE  Held(waiting[u], Queued(u))' /\ Held(decWaiting[u], DecQueued(u))'
      <3>1. Held(waiting[u], Queued(u)) /\ Held(decWaiting[u], DecQueued(u))
        BY <1>3 DEF QueueOK
      <3>2. Held(decWaiting[u], DecQueued(u))'
        BY <1>2, <2>2, <3>1, HeldNext
      <3>3. CASE u = v
        BY <1>11, <1>12, <2>2, <3>2, <3>3, HeldNext
      <3>4. CASE u # v
        BY <1>12, <2>2, <3>1, <3>2, <3>4, HeldNext
      <3> QED
        BY <3>3, <3>4
    <2>5. \A k \in WorkersOf(Decode) : Held(xfers[k], Sent(k))'
      BY <1>2, <1>3, <2>3 DEF QueueOK, Held
    <2>6. ASSUME NEW u \in Units
          PROVE  /\ IsInjective(running'[u])
                 /\ \A x \in Reqs : Contains(running'[u], x) <=> x \in Served(u)'
      BY <1>2, <1>3, <2>2, QueueIs, IdleIs
    <2> QED
      BY <2>1, <2>4, <2>5, <2>6 DEF QueueOK
  <1>18. ~ InPass(r)
    BY <1>2, <1>3, OneEntry
  <1>19. BatchOK'
    <2>1. \A x : InPass(x) => x \in Reqs \ {r}
      BY <1>3, <1>18, OneEntry
    <2> QED
      BY <1>2, <1>3, <1>8, <1>9, <2>1, BatchStays
  <1>20. StoredOK'
    <2>1. Stored(r)'
      BY <1>2, <1>3, <1>9 DEF Stored, StoredOK
    <2> QED
      BY <1>2, <1>3, <1>8, <1>9, <2>1, StoredStays
  <1>21. KeepSlots'
    <2>1. \A x \in Reqs : st'[x] = "decode" <=> st[x] = "decode"
      BY <1>2, <1>9
    <2> QED
      BY <1>2, <1>3, <2>1, KeepStays
  <1>22. RoomExact'
    <2>1. \A u : Holding(u)' = Holding(u)
      BY <1>2, <1>9 DEF Holding
    <2>2. \A u : Reserving(u)' = Reserving(u)
      BY <1>2, <1>9 DEF Reserving
    <2>3. \A x \in Reqs : st'[x] \in {"delivering", "decode"} => st[x] = st'[x]
      BY <1>9
    <2> QED
      BY <1>2, <1>3, <2>1, <2>2, <2>3, RoomStays
  <1>23. SlotsOK'
    BY <1>2, <1>3, <1>7, SlotsStay
  <1>24. LoopOK'
    BY <1>7 DEF LoopOK
  <1>25. RestOK'
    <2>1. ASSUME NEW k \in AllWorkers, ~ busy'[k], ~ Blocked(k)', Untried(k)'
          PROVE  /\ ~ busy[k] /\ ~ Blocked(k) /\ Untried(k)
                 /\ \A j \in 1 .. Dp[PoolOf(k)] : Rests(<<k, j>>) => Rests(<<k, j>>)'
      <3>1. k # w
        BY <1>7, <2>1
      <3>2. Untried(k) /\ ~ busy[k] /\ ~ Blocked(k)
        BY <1>2, <2>1, IdleIs DEF Blocked
      <3>3. ASSUME NEW j \in 1 .. Dp[PoolOf(k)], Rests(<<k, j>>)
            PROVE  Rests(<<k, j>>)'
        <4>0. <<k, j>> \in Units
          BY UnitIs, PoolIs
        <4>1. PICK u \in Units : u = <<k, j>>
          BY <4>0
        <4>2. u # v
          BY <1>5, <3>1, <4>1
        <4>3. \A x \in Reqs : st[x] = "delivering" => st'[x] = "delivering" /\ unit'[x] = unit[x]
          BY <1>2, <1>9
        <4>4. Rests(u)'
          BY <1>2, <1>12, <3>3, <4>1, <4>2, <4>3, RestsStays
        <4> QED
          BY <4>1, <4>4
      <3> QED
        BY <3>2, <3>3
    <2> QED
      BY <1>3, <1>7, <2>1, RestElse
  <1> QED
    BY <1>7, <1>14, <1>15, <1>16, <1>17, <1>19, <1>20, <1>21, <1>22, <1>23, <1>24, <1>25 DEF PoolsInv

(* A pass ends, and is committed next.                                     *)
LEMMA PassEndsSafe ==
  ASSUME PoolsInv, NEW w \in AllWorkers, PassEnds(w)
  PROVE  PoolsInv'
PROOF
  <1>1. /\ Idle /\ busy[w] /\ todo' = <<Call("commit", w, 1), Try(w)>> /\ busy' = [busy EXCEPT ![w] = FALSE]
        /\ batch' = batch /\ Still
    BY DEF PassEnds, Still, req, rank, router
  <1>2. /\ PoolsTypeOK /\ HandlerOK /\ QueueOK /\ BatchOK /\ StoredOK /\ SlotsOK /\ LoopOK
        /\ CountOK /\ RestOK /\ RoomExact /\ KeepSlots /\ TreesExact
    BY DEF PoolsInv
  <1>3. PICK c, d : c = Call("commit", w, 1) /\ d = Try(w)
    OBVIOUS
  <1>4. busy' \in [AllWorkers -> BOOLEAN] /\ ~ busy'[w] /\ \A k \in AllWorkers \ {w} : busy'[k] = busy[k]
    BY <1>1, <1>2 DEF PoolsTypeOK
  <1>5. /\ HandlerOK' /\ todo' \in Seq(CallType) /\ ~ Forming'
        /\ (\A k : InCommit(k)' <=> k = w) /\ I' = 1
        /\ \A k : Untried(k)' => k # w
    <2>1. /\ c \in CallType /\ c.do = "commit" /\ c.w = w /\ c.rank = 1 /\ c.i = 1
          /\ d \in CallType /\ d.do = "try" /\ d.w = w /\ d.rank = 1
      BY <1>3, TryIs
    <2>2. todo' = <<c, d>>
      BY <1>1, <1>3
    <2>3. todo' \in {<<c>>, <<c, d>>}
      BY <2>2
    <2> QED
      BY <1>4, <2>1, <2>2, <2>3, NewHandler
  <1>6. ASSUME NEW k \in AllWorkers
        PROVE  Pass(k)' = Pass(k) /\ \A i \in Pass(k) : batch'[k][i] = batch[k][i]
    <2>1. \A i \in DOMAIN batch[k] : i \in Nat /\ i >= 1
      <3>1. DOMAIN batch[k] = 1 .. Len(batch[k]) /\ Len(batch[k]) \in Nat
        BY <1>2, EntryIs
      <3> QED
        BY <3>1
    <2>2. CASE k = w
      <3>1. Pass(k) = DOMAIN batch[k]
        BY <1>1, <2>2 DEF Pass
      <3>2. Pass(k)' = DOMAIN batch[k]
        BY <1>1, <1>5, <2>1, <2>2 DEF Pass
      <3> QED
        BY <1>1, <3>1, <3>2
    <2>3. CASE k # w
      BY <1>1, <1>4, <1>5, <2>3, IdleIs DEF Pass
    <2> QED
      BY <2>2, <2>3
  <1>7. SlotsOK'
    BY <1>1, <1>2, <1>5, SlotsStay DEF Still
  <1>8. LoopOK'
    BY <1>5 DEF LoopOK
  <1>9. RestOK'
    <2>1. \A u : Rests(u) => Rests(u)'
      BY <1>1 DEF Rests, Still
    <2>2. ASSUME NEW k \in AllWorkers, ~ busy'[k], ~ Blocked(k)', Untried(k)'
          PROVE  ~ busy[k] /\ ~ Blocked(k) /\ Untried(k)
      BY <1>1, <1>4, <1>5, <2>2, IdleIs DEF Blocked, Still
    <2> QED
      BY <1>2, <1>5, <2>1, <2>2, RestElse
  <1>10. KeepSlots'
    <2>1. \A k \in WorkersOf(Decode) : busy'[k] => busy[k]
      BY <1>1, <1>4 DEF AllWorkers, Decode
    <2> QED
      BY <1>1, <1>2, <2>1, KeepStays DEF Still
  <1>11. batch' \in [AllWorkers -> Seq(Tickets)] /\ \A k : ~ InCommit(k)
    BY <1>1, <1>2, IdleIs DEF PoolsTypeOK, Tickets
  <1> QED
    BY <1>1, <1>4, <1>5, <1>6, <1>7, <1>8, <1>9, <1>10, <1>11, SamePass

(* The KV of a request is on its decode rank: the prefill rank gets its    *)
(* room back.                                                              *)
LEMMA DeliverSafe ==
  ASSUME PoolsInv, NEW w \in WorkersOf(Decode), Deliver(w)
  PROVE  PoolsInv'
PROOF
  <1>0. PICK r : r = Head(xfers[w])
    OBVIOUS
  <1>1. /\ Idle /\ xfers[w] # <<>> /\ xfers' = [xfers EXCEPT ![w] = Tail(@)]
        /\ used' = [used EXCEPT ![unit[r]] = @ - alloc[r]]
        /\ st' = [st EXCEPT ![r] = "dec_queued"]
        /\ decWaiting' = [decWaiting EXCEPT ![decUnit[r]] = Append(@, r)]
        /\ todo' = <<Try(unit[r][1]), Try(decUnit[r][1])>>
        /\ UNCHANGED <<unit, decUnit, left, gen, alloc, decAlloc, running, waiting, busy, batch, rr, sticky, trees, remaining>>
    BY <1>0 DEF Deliver, Released, Woken, router
  <1>2. /\ PoolsTypeOK /\ HandlerOK /\ QueueOK /\ BatchOK /\ StoredOK /\ SlotsOK /\ LoopOK
        /\ CountOK /\ RestOK /\ RoomExact /\ KeepSlots /\ TreesExact
    BY DEF PoolsInv
  <1>3. PICK s : s = xfers[w]
    OBVIOUS
  <1>4. /\ r \in Reqs /\ r \in Sent(w) /\ Tail(s) \in Seq(Reqs) /\ Held(Tail(s), Sent(w) \ {r})
    <2>1. s \in Seq(Reqs) /\ Held(s, Sent(w)) /\ s # <<>> /\ r = Head(s)
      BY <1>0, <1>1, <1>2, <1>3, QueueIs
    <2> QED
      BY <2>1, HeldPop
  <1>5. st[r] = "delivering" /\ decUnit[r][1] = w
    BY <1>4 DEF Sent
  <1>6. PICK u, v : u = unit[r] /\ v = decUnit[r]
    OBVIOUS
  <1>7. /\ u \in Ranks(Prefill) /\ v \in Ranks(Decode) /\ u \in Units /\ v \in Units /\ v[1] = w
        /\ u[1] \in AllWorkers /\ w \in AllWorkers /\ unit[r] = u /\ decUnit[r] = v
        /\ v \notin Ranks(Prefill)
    <2>1. u \in Ranks(Prefill) /\ v \in Ranks(Decode)
      BY <1>2, <1>4, <1>5, <1>6, QueueIs DEF States
    <2>2. u \in Units /\ v \in Units
      BY <2>1, UnitIs DEF Pool, Prefill, Decode
    <2> QED
      BY <1>5, <1>6, <2>1, <2>2, UnitIs
  <1>8. PICK c, d : c = Try(u[1]) /\ d = Try(w)
    OBVIOUS
  <1>9. /\ HandlerOK' /\ todo' \in Seq(CallType) /\ ~ Forming' /\ (\A k : ~ InCommit(k)')
        /\ \A k : Untried(k)' => k # u[1] /\ k # w
    <2>1. /\ c \in CallType /\ c.do = "try" /\ c.w = u[1] /\ c.rank = 1
          /\ d \in CallType /\ d.do = "try" /\ d.w = w /\ d.rank = 1
      BY <1>7, <1>8, TryIs
    <2>2. todo' = <<c, d>>
      BY <1>1, <1>7, <1>8
    <2>3. todo' \in {<<c>>, <<c, d>>} /\ Len(todo') = 2
      BY <2>2
    <2> QED
      BY <2>1, <2>3, NewHandler
  <1>10. (\A k : Pass(k)' = Pass(k)) /\ \A x : InPass(x)' <=> InPass(x)
    BY <1>1, <1>9, EventPasses
  <1>11. /\ st'[r] = "dec_queued" /\ (\A x \in Reqs \ {r} : st'[x] = st[x]) /\ st' \in [Reqs -> States]
    BY <1>1, <1>2, <1>4 DEF PoolsTypeOK, States
  <1>12. /\ used \in [Units -> Int] /\ alloc \in [Reqs -> Nat] /\ decAlloc \in [Reqs -> Nat]
         /\ alloc[r] \in Nat /\ used[u] \in Int
    BY <1>2, <1>4, <1>7 DEF PoolsTypeOK
  <1>13. /\ used'[u] = used[u] - alloc[r] /\ used' \in [Units -> Int]
         /\ \A k \in Units \ {u} : used'[k] = used[k]
    BY <1>1, <1>6, <1>7, <1>12
  <1>14. /\ xfers' \in [WorkersOf(Decode) -> Seq(Reqs)] /\ xfers'[w] = Tail(s)
         /\ \A k \in WorkersOf(Decode) \ {w} : xfers'[k] = xfers[k]
    <2>1. xfers \in [WorkersOf(Decode) -> Seq(Reqs)]
      BY <1>2 DEF PoolsTypeOK
    <2> QED
      BY <1>1, <1>3, <1>4, <2>1
  <1>15. PICK t : t = decWaiting[v]
    OBVIOUS
  <1>16. t \in Seq(Reqs) /\ Append(t, r) \in Seq(Reqs) /\ Held(Append(t, r), DecQueued(v) \cup {r})
    <2>1. t \in Seq(Reqs) /\ Held(t, DecQueued(v))
      BY <1>2, <1>7, <1>15, QueueIs
    <2>2. r \notin DecQueued(v)
      BY <1>5 DEF DecQueued
    <2> QED
      BY <1>4, <2>1, <2>2, HeldPush
  <1>17. /\ decWaiting' \in [Units -> Seq(Reqs)] /\ decWaiting'[v] = Append(t, r)
         /\ \A k \in Units \ {v} : decWaiting'[k] = decWaiting[k]
    <2>1. decWaiting \in [Units -> Seq(Reqs)]
      BY <1>2 DEF PoolsTypeOK
    <2> QED
      BY <1>1, <1>7, <1>15, <1>16, <2>1
  <1>18. PoolsTypeOK'
    BY <1>1, <1>2, <1>9, <1>11, <1>13, <1>14, <1>17 DEF PoolsTypeOK
  <1>19. QueueOK'
    <2>1. \A x \in Reqs : /\ st'[x] \in States \ {"pending", "done"} => unit'[x] # None
                          /\ st'[x] \in {"delivering", "dec_queued", "decode"} => decUnit'[x] # None
      BY <1>1, <1>2, <1>5, <1>11 DEF QueueOK, States
    <2>2. \A k : /\ DecQueued(k)' = IF k = v THEN DecQueued(k) \cup {r} ELSE DecQueued(k)
                 /\ Queued(k)' = Queued(k) /\ Served(k)' = Served(k)
      <3>1. \A k : DecQueued(k)' = IF k = v THEN DecQueued(k) \cup {r} ELSE DecQueued(k)
        BY <1>1, <1>4, <1>7, <1>11 DEF DecQueued
      <3>2. \A k : Queued(k)' = Queued(k)
        BY <1>1, <1>5, <1>11 DEF Queued
      <3>3. \A k : Served(k)' = Served(k)
        BY <1>1, <1>5, <1>11 DEF Served
      <3> QED
        BY <3>1, <3>2, <3>3
    <2>3. \A k : Sent(k)' = IF k = w THEN Sent(k) \ {r} ELSE Sent(k)
      BY <1>1, <1>5, <1>11 DEF Sent
    <2>4. ASSUME NEW k \in Units
          PROVE  Held(waiting[k], Queued(k))' /\ Held(decWaiting[k], DecQueued(k))'
      <3>1. Held(waiting[k], Queued(k)) /\ Held(decWaiting[k], DecQueued(k))
        BY <1>2 DEF QueueOK
      <3>2. Held(waiting[k], Queued(k))'
        BY <1>1, <2>2, <3>1, HeldNext
      <3>3. CASE k = v
        BY <1>16, <1>17, <2>2, <3>2, <3>3, HeldNext
      <3>4. CASE k # v
        BY <1>17, <2>2, <3>1, <3>2, <3>4, HeldNext
      <3> QED
        BY <3>3, <3>4
    <2>5. ASSUME NEW k \in WorkersOf(Decode)
          PROVE  Held(xfers[k], Sent(k))'
      <3>1. CASE k = w
        BY <1>4, <1>14, <2>3, <3>1, HeldNext
      <3>2. CASE k # w
        <4>1. Held(xfers[k], Sent(k))
          BY <1>2 DEF QueueOK
        <4> QED
          BY <1>14, <2>3, <3>2, <4>1, HeldNext
      <3> QED
        BY <3>1, <3>2
    <2>6. ASSUME NEW k \in Units
          PROVE  /\ IsInjective(running'[k])
                 /\ \A x \in Reqs : Contains(running'[k], x) <=> x \in Served(k)'
      BY <1>1, <1>2, <2>2, QueueIs, IdleIs
    <2> QED
      BY <2>1, <2>4, <2>5, <2>6 DEF QueueOK
  <1>20. BatchOK'
    <2>1. \A x : InPass(x) => x \in Reqs \ {r}
      BY <1>2, <1>5, OneEntry
    <2> QED
      BY <1>1, <1>2, <1>10, <1>11, <2>1, BatchStays
  <1>21. StoredOK'
    <2>1. Stored(r)'
      BY <1>11 DEF Stored
    <2> QED
      BY <1>1, <1>2, <1>10, <1>11, <2>1, StoredStays
  <1>22. CountOK'
    BY <1>1, <1>2, <1>5, <1>11, CountStays
  <1>23. TreesExact'
    BY <1>1, <1>2, <1>22, HomesStay
  <1>24. KeepSlots'
    <2>1. \A x \in Reqs : st'[x] = "decode" <=> st[x] = "decode"
      BY <1>5, <1>11
    <2> QED
      BY <1>1, <1>2, <2>1, KeepStays
  <1>25. RoomExact'
    <2>1. \A x \in Reqs \ {r} : /\ st'[x] = st[x] /\ unit'[x] = unit[x] /\ decUnit'[x] = decUnit[x]
                                /\ alloc'[x] = alloc[x] /\ decAlloc'[x] = decAlloc[x]
      BY <1>1, <1>11
    <2>2. ASSUME NEW k \in Units
          PROVE  used'[k] = used[k] - Share(k, r) + Share(k, r)'
      <3>1. Share(k, r)' = 0
        BY <1>11 DEF Share, Holding, Reserving
      <3>2. Share(k, r) = IF k = u THEN alloc[r] ELSE 0
        BY <1>4, <1>5, <1>7 DEF Share, Holding, Reserving
      <3>3. used[k] \in Int
        BY <1>12
      <3>4. CASE k = u
        <4>1. used'[k] = used[k] - alloc[r] /\ Share(k, r) = alloc[r]
          BY <1>13, <3>2, <3>4
        <4> QED
          BY <1>12, <3>1, <3>3, <4>1
      <3>5. CASE k # u
        <4>1. used'[k] = used[k] /\ Share(k, r) = 0
          BY <1>13, <3>2, <3>5
        <4> QED
          BY <3>1, <3>3, <4>1
      <3> QED
        BY <3>4, <3>5
    <2>3. used'[u] <= used[u]
      BY <1>12, <1>13
    <2>4. \A k \in Units : used'[k] <= used[k] \/ used'[k] <= Cap[PoolOf(k[1])]
      <3> SUFFICES ASSUME NEW k \in Units
                   PROVE  used'[k] <= used[k]
        OBVIOUS
      <3>1. used[k] \in Int /\ (k # u => used'[k] = used[k])
        BY <1>12, <1>13
      <3> QED
        BY <2>3, <3>1
    <2>5. alloc' \in [Reqs -> Nat] /\ decAlloc' \in [Reqs -> Nat]
      BY <1>1, <1>12
    <2>6. st'[r] # "delivering" /\ st'[r] # "decode"
      BY <1>11
    <2> QED
      BY <1>2, <1>4, <1>13, <2>1, <2>2, <2>4, <2>5, <2>6, RoomStep
  <1>26. SlotsOK'
    BY <1>1, <1>2, <1>9, SlotsStay
  <1>27. LoopOK'
    BY <1>9 DEF LoopOK
  <1>28. RestOK'
    <2>1. ASSUME NEW k \in AllWorkers, ~ busy'[k], ~ Blocked(k)', Untried(k)'
          PROVE  /\ ~ busy[k] /\ ~ Blocked(k) /\ Untried(k)
                 /\ \A j \in 1 .. Dp[PoolOf(k)] : Rests(<<k, j>>) => Rests(<<k, j>>)'
      <3>1. k # w /\ k # u[1]
        BY <1>9, <2>1
      <3>2. Untried(k) /\ ~ busy[k]
        BY <1>1, <2>1, IdleIs
      <3>3. ~ Blocked(k)
        BY <1>14, <2>1, <3>1 DEF Blocked
      <3>4. ASSUME NEW j \in 1 .. Dp[PoolOf(k)], Rests(<<k, j>>)
            PROVE  Rests(<<k, j>>)'
        <4>0. <<k, j>> \in Units
          BY UnitIs, PoolIs
        <4>1. PICK n \in Units : n = <<k, j>>
          BY <4>0
        <4>2. n # v /\ n # u
          BY <1>7, <3>1, <4>1
        <4>3. \A x \in Reqs : st[x] = "delivering" /\ unit[x] = n => st'[x] = "delivering" /\ unit'[x] = n
          BY <1>1, <1>7, <1>11, <4>2
        <4>4. Rests(n)'
          BY <1>1, <1>17, <3>4, <4>1, <4>2, <4>3, RestsStays
        <4> QED
          BY <4>1, <4>4
      <3> QED
        BY <3>2, <3>3, <3>4
    <2> QED
      BY <1>2, <1>9, <2>1, RestElse
  <1> QED
    BY <1>9, <1>18, <1>19, <1>20, <1>21, <1>22, <1>23, <1>24, <1>25, <1>26, <1>27, <1>28 DEF PoolsInv

-----------------------------------------------------------------------------
(* The theorems.                                                           *)

(* The engine starts with every request pending and every rank empty.      *)
LEMMA PoolsInitSafe ==
  ASSUME PoolsInit
  PROVE  PoolsInv
PROOF
  <1>1. /\ Idle /\ todo = <<>> /\ todo \in Seq(CallType) /\ DOMAIN todo = {} /\ Len(todo) = 0
        /\ ~ Forming /\ (\A w : ~ InCommit(w)) /\ \A d : ~ At(d)
    <2>1. Idle /\ todo = <<>>
      BY DEF PoolsInit, Idle
    <2> QED
      BY <2>1, IdleIs, EmptyQueue
  <1>2. /\ st = [r \in Reqs |-> "pending"] /\ unit = [r \in Reqs |-> None] /\ decUnit = [r \in Reqs |-> None]
        /\ left = Isl /\ gen = [r \in Reqs |-> 0] /\ alloc = [r \in Reqs |-> 0] /\ decAlloc = [r \in Reqs |-> 0]
        /\ used = [u \in Units |-> 0] /\ running = [u \in Units |-> <<>>]
        /\ waiting = [u \in Units |-> <<>>] /\ decWaiting = [u \in Units |-> <<>>]
        /\ busy = [w \in AllWorkers |-> FALSE] /\ batch = [w \in AllWorkers |-> <<>>]
        /\ xfers = [w \in WorkersOf(Decode) |-> <<>>] /\ rr = [p \in Pool |-> 0]
        /\ sticky = [t \in Trees |-> [p \in Pool |-> None]] /\ trees = [w \in AllWorkers |-> 0]
        /\ remaining = [t \in Trees |-> Cardinality({r \in Reqs : TreeOf[r] = t})]
    BY DEF PoolsInit
  <1> DEFINE Of(t) == {r \in Reqs : TreeOf[r] = t}
  <1>3. \A t \in Trees : remaining[t] = Cardinality(Of(t)) /\ remaining[t] \in Nat
    <2>1. \A t : IsFiniteSet(Of(t))
      BY PoolsAssumption, FS_Subset
    <2> QED
      BY <1>2, <2>1, FS_CardinalityType
  <1>4. PoolsTypeOK
    <2>1. /\ \A S : <<>> \in Seq(S)
          /\ Isl \in [Reqs -> Nat]
      BY EmptyQueue, PoolsAssumption
    <2>2. st \in [Reqs -> States]
      BY <1>2 DEF States
    <2>3. remaining \in [Trees -> Nat]
      BY <1>2, <1>3
    <2>4. sticky \in [Trees -> [Pool -> AllWorkers \cup {None}]]
      BY <1>2
    <2>5. /\ unit \in [Reqs -> Ranks(Prefill) \cup {None}] /\ decUnit \in [Reqs -> Ranks(Decode) \cup {None}]
          /\ left \in [Reqs -> Nat] /\ gen \in [Reqs -> Nat] /\ alloc \in [Reqs -> Nat] /\ decAlloc \in [Reqs -> Nat]
          /\ used \in [Units -> Int]
      BY <1>2, <2>1
    <2>6. /\ running \in [Units -> Seq(Reqs)] /\ waiting \in [Units -> Seq(Reqs)] /\ decWaiting \in [Units -> Seq(Reqs)]
          /\ busy \in [AllWorkers -> BOOLEAN] /\ xfers \in [WorkersOf(Decode) -> Seq(Reqs)]
      BY <1>2, <2>1
    <2>7. /\ batch \in [AllWorkers -> Seq([req : Reqs, unit : Units, tokens : Nat])]
          /\ rr \in [Pool -> Nat] /\ trees \in [AllWorkers -> Nat]
      BY <1>2, <2>1
    <2> QED
      BY <1>1, <2>2, <2>3, <2>4, <2>5, <2>6, <2>7 DEF PoolsTypeOK
  <1>5. HandlerOK
    BY <1>1 DEF HandlerOK
  <1>6. QueueOK
    <2>1. \A u : Queued(u) = {} /\ DecQueued(u) = {} /\ Served(u) = {} /\ Sent(u) = {}
      BY <1>2 DEF Queued, DecQueued, Served, Sent
    <2>2. Held(<<>>, {})
      BY EmptyQueue DEF Held
    <2>3. \A x \in Reqs : st[x] = "pending"
      BY <1>2
    <2>4. \A u \in Units : waiting[u] = <<>> /\ decWaiting[u] = <<>> /\ running[u] = <<>>
      BY <1>2
    <2>5. \A w \in WorkersOf(Decode) : xfers[w] = <<>>
      BY <1>2
    <2> QED
      BY <2>1, <2>2, <2>3, <2>4, <2>5, EmptyQueue DEF QueueOK
  <1>7. \A w \in AllWorkers : Pass(w) = {}
    BY <1>2, EmptyQueue DEF Pass
  <1>8. BatchOK
    BY <1>7 DEF BatchOK
  <1>9. StoredOK
    <2>1. \A w \in WorkersOf(Prefill) : w \in AllWorkers
      BY DEF AllWorkers, Prefill
    <2>2. \A r \in Reqs : st[r] = "pending" /\ left[r] = Isl[r]
      BY <1>2
    <2> QED
      BY <1>7, <2>1, <2>2 DEF StoredOK
  <1>10. SlotsOK
    <2>1. ASSUME NEW u \in Ranks(Decode)
          PROVE  Fits(Len(running[u]))
      <3>1. u \in Units
        BY UnitIs DEF Pool, Decode
      <3>2. Len(running[u]) = 0
        BY <1>2, <3>1, EmptyQueue
      <3>3. SeqCap[Decode] \in Nat /\ TokCap[Decode] \in Nat /\ Step \in Nat
        BY PoolsAssumption DEF Pool, Decode, Step
      <3>4. 0 * Step = 0
        BY <3>3
      <3> QED
        BY <3>2, <3>3, <3>4 DEF Fits
    <2> QED
      BY <1>1, <2>1 DEF SlotsOK
  <1>11. LoopOK
    BY <1>1 DEF LoopOK
  <1>12. \A p \in Pool : \A w \in WorkersOf(p) : w \in AllWorkers /\ trees[w] = 0 /\ Live(p, w) = {}
    <2> SUFFICES ASSUME NEW p \in Pool, NEW w \in WorkersOf(p)
                 PROVE  w \in AllWorkers /\ trees[w] = 0 /\ Live(p, w) = {}
      OBVIOUS
    <2>1. w \in AllWorkers
      BY WorkersAre
    <2>2. w # None
      BY <2>1, PoolsAssumption
    <2> QED
      BY <1>2, <2>1, <2>2 DEF Live
  <1>13. CountOK
    <2>1. \A t \in Trees : remaining[t] = Cardinality({r \in Reqs : TreeOf[r] = t /\ st[r] # "done"})
      <3> SUFFICES ASSUME NEW t \in Trees
                   PROVE  remaining[t] = Cardinality({r \in Reqs : TreeOf[r] = t /\ st[r] # "done"})
        OBVIOUS
      <3>1. {r \in Reqs : TreeOf[r] = t /\ st[r] # "done"} = {r \in Reqs : TreeOf[r] = t}
        BY <1>2
      <3> QED
        BY <1>2, <3>1
    <2>2. \A p \in Pool, t \in Trees : sticky[t][p] = None
      BY <1>2
    <2> QED
      BY <1>12, <2>1, <2>2, FS_EmptySet DEF CountOK
  <1>14. TreesExact
    <2>1. \A r \in Reqs : unit[r] = None /\ decUnit[r] = None
      BY <1>2
    <2> QED
      BY <1>12, <2>1, FS_EmptySet DEF TreesExact
  <1>15. KeepSlots
    <2>1. \A w \in WorkersOf(Decode) : ~ busy[w]
      BY <1>2 DEF AllWorkers, Decode
    <2> QED
      BY <2>1 DEF KeepSlots
  <1>16. RoomExact
    <2>1. \A u : Holding(u) = {} /\ Reserving(u) = {}
      BY <1>2 DEF Holding, Reserving
    <2>2. \A a : Sum(a, {}) = 0
      BY SumIs, SumEmpty
    <2>3. \A p \in Pool : \A u \in Ranks(p) : u \in Units /\ used[u] = 0 /\ Cap[p] \in Nat
      BY <1>2, UnitIs, WorkersAre
    <2>4. \A u \in Units : used[u] = 0
      BY <1>2
    <2>5. Prefill \in Pool /\ Decode \in Pool
      BY DEF Pool, Prefill, Decode
    <2>6. \A r \in Reqs : st[r] = "pending"
      BY <1>2
    <2>7. \A p \in Pool : \A u \in Ranks(p) : used[u] <= Cap[p]
      BY <2>3
    <2>8. /\ \A u \in Ranks(Prefill) : used[u] = Sum(alloc, Holding(u))
          /\ \A u \in Ranks(Decode) : used[u] = Sum(decAlloc, Reserving(u))
      BY <2>1, <2>2, <2>3, <2>5
    <2> QED
      BY <2>6, <2>7, <2>8 DEF RoomExact
  <1>17. RestOK
    <2>1. \A u \in Units : Rests(u)
      BY <1>2 DEF Rests
    <2>2. \A w \in AllWorkers : \A k \in 1 .. Dp[PoolOf(w)] : <<w, k>> \in Units
      BY UnitIs, PoolIs
    <2> QED
      BY <1>1, <2>1, <2>2 DEF RestOK
  <1> QED
    BY <1>4, <1>5, <1>6, <1>8, <1>9, <1>10, <1>11, <1>13, <1>14, <1>15, <1>16, <1>17 DEF PoolsInv

(* Every action keeps the invariant.                                       *)
LEMMA PoolsNextSafe ==
  ASSUME PoolsInv, PoolsNext
  PROVE  PoolsInv'
PROOF
  <1>1. CASE FormBatch
    BY <1>1, TryStartSafe, PrefillChunkSafe, PrefillsEndSafe, RejectPrefillSafe, AdmitPrefillSafe, AdmissionsEndSafe,
       DecodeStepSafe, DecodesEndSafe, RejectDecodeSafe, AdmitDecodeSafe, DecAdmissionsEndSafe,
       PreemptSafe, NextRankSafe, StartPassSafe DEF FormBatch
  <1>2. CASE Commit
    BY <1>2, CommitChunkSafe, CommitShortSafe, StartDeliverySafe, CommitDecodeSafe, CommitLastSafe, CommitEndsSafe DEF Commit
  <1>3. ASSUME NEW r \in Reqs, Arrive(r)
        PROVE  PoolsInv'
    BY <1>3, ArriveSafe
  <1>4. ASSUME NEW w \in AllWorkers, PassEnds(w)
        PROVE  PoolsInv'
    BY <1>4, PassEndsSafe
  <1>5. ASSUME NEW w \in WorkersOf(Decode), Deliver(w)
        PROVE  PoolsInv'
    BY <1>5, DeliverSafe
  <1> QED
    BY <1>1, <1>2, <1>3, <1>4, <1>5 DEF PoolsNext

(* Nothing in the invariant looks beyond the variables.                    *)
LEMMA PoolsStutterSafe ==
  ASSUME PoolsInv, UNCHANGED poolvars
  PROVE  PoolsInv'
PROOF
  <1>1. /\ Still /\ busy' = busy /\ batch' = batch /\ todo' = todo
    BY DEF poolvars, req, rank, worker, router, Still
  <1>2. /\ PoolsTypeOK /\ HandlerOK /\ QueueOK /\ BatchOK /\ StoredOK /\ SlotsOK /\ LoopOK
        /\ CountOK /\ RestOK /\ RoomExact /\ KeepSlots /\ TreesExact
    BY DEF PoolsInv
  <1>3. /\ Idle' <=> Idle
        /\ Forming' <=> Forming
        /\ W' = W /\ P' = P /\ U' = U /\ I' = I /\ Head(todo') = Head(todo)
        /\ \A d : At(d)' <=> At(d)
        /\ \A w : InCommit(w)' <=> InCommit(w)
    BY <1>1 DEF Idle, Forming, W, P, U, I, At, InCommit
  <1>4. /\ \A w : Pass(w)' = Pass(w)
        /\ \A u : Computed(u)' = Computed(u) /\ Reserving(u)' = Reserving(u)
        /\ \A u : Rests(u)' = Rests(u)
        /\ \A w : Blocked(w)' = Blocked(w)
    BY <1>1, <1>3 DEF Pass, Computed, Reserving, Rests, Blocked, Still
  <1>5. HandlerOK'
    BY <1>1, <1>2, <1>3 DEF HandlerOK
  <1>6. SlotsOK' /\ LoopOK' /\ RestOK' /\ KeepSlots'
    <2>0. Computed(U)' = Computed(U) /\ Reserving(U)' = Reserving(U) /\ Rests(U)' = Rests(U)
      <3>1. PICK u : u = U
        OBVIOUS
      <3>2. Computed(u)' = Computed(u) /\ Reserving(u)' = Reserving(u) /\ Rests(u)' = Rests(u) /\ u = U'
        BY <1>3, <1>4, <3>1
      <3> QED
        BY <3>1, <3>2
    <2>1. SlotsOK'
      <3>1. CASE ~ (Forming /\ P = Decode)
        <4>1. \A u \in Ranks(Decode) : Fits(Len(running[u]))'
          BY <1>1, <1>2 DEF SlotsOK, Still, Fits, Step
        <4> QED
          BY <1>3, <3>1, <4>1 DEF SlotsOK
      <3>2. CASE Forming /\ P = Decode
        <4>1. (\A k \in 1 .. Head(todo).rank - 1 : Computed(<<W, k>>) = Reserving(<<W, k>>))'
          BY <1>2, <1>3, <1>4, <3>2, SlotsBefore
        <4>2. \A u \in Ranks(Decode) : Fits(Len(running[u]))'
          BY <1>1, <1>2 DEF SlotsOK, Still, Fits, Step
        <4>3. running' = running
          BY <1>1 DEF Still
        <4>4. /\ At("decode") => /\ I <= Len(running[U]) + 1
                                 /\ Computed(U) = {running[U][j] : j \in 1 .. I - 1}
                                 /\ Head(todo).seqs = I - 1 /\ Head(todo).budget = TokCap[P] - (I - 1) * Step
              /\ At("dec_admit") => /\ Head(todo).seqs = Len(running[U])
                                    /\ Head(todo).budget = TokCap[P] - Len(running[U]) * Step
              /\ ~ At("decode") => Computed(U) = Reserving(U)
          BY <1>2, <3>2 DEF SlotsOK
        <4>5. (/\ At("decode") => /\ I <= Len(running[U]) + 1
                                  /\ Computed(U) = {running[U][j] : j \in 1 .. I - 1}
                                  /\ Head(todo).seqs = I - 1 /\ Head(todo).budget = TokCap[P] - (I - 1) * Step
               /\ At("dec_admit") => /\ Head(todo).seqs = Len(running[U])
                                     /\ Head(todo).budget = TokCap[P] - Len(running[U]) * Step
               /\ ~ At("decode") => Computed(U) = Reserving(U))'
          BY <1>3, <2>0, <4>3, <4>4 DEF Step
        <4> QED
          BY <4>1, <4>2, <4>5 DEF SlotsOK
      <3> QED
        BY <3>1, <3>2
    <2>2. LoopOK'
      BY <1>1, <1>2, <1>3, <2>0 DEF LoopOK, Still
    <2>3. RestOK'
      <3>1. (\A w \in AllWorkers :
               ~ busy[w] /\ ~ Blocked(w) /\ (\A i \in DOMAIN todo : todo[i].w # w) =>
                 \A k \in 1 .. Dp[PoolOf(w)] : Rests(<<w, k>>))'
        BY <1>1, <1>2, <1>4 DEF RestOK
      <3>2. ASSUME Forming, NEW k \in 1 .. Head(todo).rank - 1
            PROVE  Computed(<<W, k>>)' # {} \/ Rests(<<W, k>>)'
        <4>1. PICK u : u = <<W, k>>
          OBVIOUS
        <4>2. Computed(u) # {} \/ Rests(u)
          BY <1>2, <3>2, <4>1 DEF RestOK
        <4>3. (Computed(u)' # {} \/ Rests(u)') /\ u = <<W', k>>
          BY <1>3, <1>4, <4>1, <4>2
        <4> QED
          BY <4>3
      <3>3. (Forming => \A k \in 1 .. Head(todo).rank - 1 : Computed(<<W, k>>) # {} \/ Rests(<<W, k>>))'
        BY <1>3, <3>2
      <3>4. (At("close") /\ Computed(U) = {} /\ running[U] = <<>> => Rests(U))'
        BY <1>1, <1>2, <1>3, <2>0 DEF RestOK, Still
      <3> QED
        BY <3>1, <3>3, <3>4 DEF RestOK
    <2>4. KeepSlots'
      BY <1>1, <1>2 DEF KeepSlots, Still
    <2> QED
      BY <2>1, <2>2, <2>3, <2>4
  <1>7. busy' \in [AllWorkers -> BOOLEAN] /\ batch' \in [AllWorkers -> Seq(Tickets)] /\ todo' \in Seq(CallType)
    BY <1>1, <1>2 DEF PoolsTypeOK, Tickets
  <1> QED
    BY <1>1, <1>3, <1>4, <1>5, <1>6, <1>7, SamePass

(* The invariant that the properties rest on.                              *)
THEOREM PoolsInvariant ==
  PoolsSpec => []PoolsInv
PROOF
  <1>1. PoolsInit => PoolsInv
    BY PoolsInitSafe
  <1>2. PoolsInv /\ [PoolsNext]_poolvars => PoolsInv'
    BY PoolsNextSafe, PoolsStutterSafe
  <1> QED
    BY <1>1, <1>2, PTL DEF PoolsSpec

(* Every variable has the type that the code gives it, at every step of a  *)
(* handler (types of engine.cpp:118-206).                                  *)
THEOREM PoolsTypes ==
  PoolsSpec => []PoolsTypeOK
PROOF
  <1>1. PoolsInv => PoolsTypeOK
    BY DEF PoolsInv
  <1> QED
    BY <1>1, PoolsInvariant, PTL

(* A rank accounts for what its requests have stored or reserved there and *)
(* for nothing else, and never for more than it has: the room of a request *)
(* is given back once, on the rank that gave it (release_prefill_side,     *)
(* finish, preempt).                                                       *)
THEOREM RoomTheorem ==
  PoolsSpec => []RoomExact
PROOF
  <1>1. PoolsInv => RoomExact
    BY DEF PoolsInv
  <1> QED
    BY <1>1, PoolsInvariant, PTL

(* A pass of a decode worker computes every sequence that was admitted to  *)
(* its ranks: no admission takes a slot of one that runs (add_decodes).    *)
THEOREM KeepSlotsTheorem ==
  PoolsSpec => []KeepSlots
PROOF
  <1>1. PoolsInv => KeepSlots
    BY DEF PoolsInv
  <1> QED
    BY <1>1, PoolsInvariant, PTL

(* The router's count of live trees is exact, and the requests of a tree   *)
(* stay on the worker that its first one got (route, after_done).          *)
THEOREM TreesTheorem ==
  PoolsSpec => []TreesExact
PROOF
  <1>1. PoolsInv => TreesExact
    BY DEF PoolsInv
  <1> QED
    BY <1>1, PoolsInvariant, PTL

(* When no pass and no delivery is under way and no handler runs, nothing  *)
(* is going to try a worker again, and no request is left on one.          *)
THEOREM RestedTheorem ==
  PoolsSpec => []RestedEmpty
PROOF
  <1>1. PoolsInv => RestedEmpty
    <2> SUFFICES ASSUME PoolsInv, Idle, \A w \in AllWorkers : ~ busy[w], \A w \in WorkersOf(Decode) : xfers[w] = <<>>,
                        NEW r \in Reqs, st[r] \notin {"pending", "done"}
                 PROVE  FALSE
      BY DEF RestedEmpty
    <2>1. PoolsTypeOK /\ QueueOK /\ RestOK
      BY DEF PoolsInv
    <2>2. \A u \in Units : Rests(u)
      <3>1. \A w \in AllWorkers : Untried(w) /\ ~ Blocked(w)
        BY IdleIs DEF Blocked
      <3>2. \A w \in AllWorkers : \A k \in 1 .. Dp[PoolOf(w)] : Rests(<<w, k>>)
        BY <2>1, <3>1 DEF RestOK, Untried
      <3> QED
        BY <3>2, UnitIs
    <2>3. \A x \in Reqs : st[x] # "delivering"
      <3> SUFFICES ASSUME NEW x \in Reqs, st[x] = "delivering"
                   PROVE  FALSE
        OBVIOUS
      <3>1. decUnit[x] \in Ranks(Decode)
        BY <2>1, QueueIs
      <3>2. PICK w \in WorkersOf(Decode) : decUnit[x][1] = w
        BY <3>1 DEF Ranks
      <3>3. x \in Sent(w)
        BY <3>2 DEF Sent
      <3>4. Contains(xfers[w], x)
        BY <2>1, <3>3, QueueIs DEF Held
      <3> QED
        BY <3>4, EmptyQueue
    <2>4. \A u \in Units : waiting[u] = <<>> /\ decWaiting[u] = <<>> /\ running[u] = <<>>
      BY <2>2, <2>3 DEF Rests
    <2>5. /\ unit[r] \in Units
          /\ st[r] \in {"dec_queued", "decode"} => decUnit[r] \in Units
      <3>1. st[r] \in States
        BY <2>1 DEF PoolsTypeOK
      <3> QED
        BY <2>1, <3>1, QueueIs, UnitIs DEF Pool, Prefill, Decode
    <2>6. \A u \in Units : r \notin Queued(u) /\ r \notin DecQueued(u) /\ r \notin Served(u)
      <3> SUFFICES ASSUME NEW u \in Units
                   PROVE  r \notin Queued(u) /\ r \notin DecQueued(u) /\ r \notin Served(u)
        OBVIOUS
      <3>1. Held(waiting[u], Queued(u)) /\ Held(decWaiting[u], DecQueued(u)) /\ (r \in Served(u) => Contains(running[u], r))
        BY <2>1, QueueIs
      <3> QED
        BY <2>4, <3>1, EmptyQueue DEF Held
    <2>7. st[r] \in {"queued", "prefill", "dec_queued", "decode"}
      <3>1. st[r] \in States
        BY <2>1 DEF PoolsTypeOK
      <3> QED
        BY <2>3, <3>1 DEF States
    <2> QED
      BY <2>5, <2>6, <2>7 DEF Queued, DecQueued, Served
  <1> QED
    BY <1>1, PoolsInvariant, PTL
=============================================================================
