----------------------------- MODULE RankProofs -----------------------------
(***************************************************************************)
(* Proofs about the scheduler of a rank: every step of it is one that      *)
(* KvTree allows, so that all that is proved of KvTree holds under it; its *)
(* queues lose and double no request; and a batch keeps its limits and the *)
(* tokens of its requests, whatever is preempted while it is formed.       *)
(***************************************************************************)
EXTENDS Rank, KvTreeProofs

-----------------------------------------------------------------------------
(* The inductive invariant behind QueuesExact, BatchValid, AdmittedFits    *)
(* and ImplementsKvTree.                                                   *)

(* What form_batch can still have to do. *)
Programs ==
  {<<"decode", "prefill", "admit">>, <<"decode", "fallback">>, <<"prefill", "admit", "fallback">>,
   <<"prefill", "admit">>, <<"admit", "fallback">>, <<"admit">>, <<"chunk", "admit", "fallback">>,
   <<"chunk", "admit">>, <<"decode">>, <<"commit">>, <<>>}

(* Running holds the requests being served, in the middle of commit_pass   *)
(* also those that are finished.                                           *)
QueueOK ==
  /\ running \in Seq(Reqs) /\ waiting \in Seq(Reqs)
  /\ IsInjective(running) /\ IsInjective(waiting)
  /\ \A i \in DOMAIN waiting : st[waiting[i]] = "queued"
  /\ \A i \in DOMAIN running : Serving(running[i]) \/ (In("commit") /\ st[running[i]] = "done")
  /\ \A r \in Reqs : Serving(r) => Contains(running, r)

(* While a batch is formed, what it holds is gone from the budget.         *)
BatchOK ==
  /\ batch \in Seq([req : Reqs, tokens : Nat, prefill : BOOLEAN])
  /\ busy \in BOOLEAN
  /\ BatchValid
  /\ busy => batch # <<>>
  /\ (~ form.on /\ batch # <<>>) => busy
  /\ In("commit") => busy
  /\ form.on /\ ~ In("commit") =>
       form.seqs = Len(batch) /\ form.budget + BatchTokens = TokCap

(* How far form_batch got: requests its loops have not reached yet are in  *)
(* no pass, and the one it has just admitted fits.                         *)
LoopOK ==
  /\ form \in [todo : Programs, on : BOOLEAN, i : Nat, budget : 0 .. TokCap,
               seqs : 0 .. SeqCap, decoding : BOOLEAN, short : BOOLEAN]
  /\ form.on /\ ~ In("commit") => form.i > 0
  /\ form.short => In("decode") /\ Idle
  /\ In("decode") => \A k \in DOMAIN running :
       pend[running[k]] > 0 => k < form.i /\ st[running[k]] = "decode"
  /\ In("prefill") => \A k \in DOMAIN running :
       pend[running[k]] > 0 /\ st[running[k]] = "prefill" => k < form.i
  /\ In("chunk") =>
       /\ running # <<>> /\ form.i = Len(running) /\ ~ Full
       /\ st[running[form.i]] = "prefill" /\ pend[running[form.i]] = 0
       /\ op.kind \in {"none", "grow"} /\ stack = <<>>
       /\ used[0] + Chunk(running[form.i]) <= Cap[0]

(* The handler that waits for room is the one form_batch has called.       *)
CallerOK ==
  /\ ~ Idle => form.on
  /\ Idle => op = NoOp
  /\ op.kind \in {"load", "admit"} =>
       In("admit") /\ waiting # <<>> /\ op.req = Head(waiting) /\ ~ Full
  /\ op.kind = "admit" =>
       op.tok = Min({Min({ChunkTokens, form.budget}), Demand(op.req, op.blocks)})
  /\ op.kind = "grow" =>
       /\ form.i \in DOMAIN running /\ op.req = running[form.i]
       /\ pend[op.req] = 0 /\ op.tok <= form.budget /\ form.seqs < SeqCap
       /\ \/ In("decode") /\ st[op.req] = "decode"
          \/ In("prefill") /\ st[op.req] = "prefill"
          \/ In("chunk") /\ st[op.req] = "prefill" /\ op.tok = Chunk(op.req)

RInv == PInv /\ QueueOK /\ BatchOK /\ LoopOK /\ CallerOK

-----------------------------------------------------------------------------
(* Facts about the operators of the model.                                 *)

(* What is left of running are the requests of it that are served, each    *)
(* once.                                                                   *)
LEMMA StillServedRight ==
  ASSUME NEW run \in Seq(Reqs), NEW state
  PROVE  LET kept == StillServed(run, state) IN
         /\ kept \in Seq(Reqs)
         /\ \A r : Contains(kept, r) <=> Contains(run, r) /\ state[r] \in {"prefill", "decode"}
         /\ IsInjective(run) => IsInjective(kept)
PROOF
  <1> DEFINE D == DOMAIN run
             K == {r \in Reqs : state[r] \in {"prefill", "decode"}}
             Eq(g) == g = [u \in SUBSET D |->
                             IF u = {} THEN <<>>
                             ELSE IF state[run[Max(u)]] \in {"prefill", "decode"}
                                    THEN Append(g[u \ {Max(u)}], run[Max(u)])
                             ELSE g[u \ {Max(u)}]]
             f == CHOOSE g : Eq(g)
  <1>1. D = 1 .. Len(run) /\ Len(run) \in Nat /\ IsFiniteSet(D) /\ \A i \in D : run[i] \in Reqs
    BY LenProperties, ElementOfSeq, FS_Interval
  <1>2. StillServed(run, state) = f[D]
    BY DEF StillServed, FoldLeft, MapThenFoldSet
  <1>3. ASSUME NEW u \in SUBSET D, u # {}
        PROVE  state[run[Max(u)]] \in {"prefill", "decode"} <=> run[Max(u)] \in K
    <2>1. u \in SUBSET Int /\ IsFiniteSet(u)
      BY <1>1, FS_Subset
    <2>2. Max(u) \in D
      BY <1>3, <2>1, LeastGreatest
    <2> QED
      BY <1>1, <2>2
  <1>4. ASSUME NEW g
        PROVE  Eq(g) <=> FiltersUp(g, run, K, D)
    <2>1. [u \in SUBSET D |->
             IF u = {} THEN <<>>
             ELSE IF state[run[Max(u)]] \in {"prefill", "decode"}
                    THEN Append(g[u \ {Max(u)}], run[Max(u)])
             ELSE g[u \ {Max(u)}]]
          = [u \in SUBSET D |->
               IF u = {} THEN <<>>
               ELSE IF run[Max(u)] \in K THEN Append(g[u \ {Max(u)}], run[Max(u)])
               ELSE g[u \ {Max(u)}]]
      <3> HIDE DEF K, D
      <3> QED
        BY <1>3
    <2> HIDE DEF K, D
    <2> QED
      BY <2>1 DEF FiltersUp
  <1> HIDE DEF Eq
  <1>5. \E g : Eq(g)
    <2>1. D \in SUBSET Int
      BY <1>1
    <2> HIDE DEF K, D
    <2> QED
      BY <1>1, <1>4, <2>1, FiltersExist
  <1>6. FiltersUp(f, run, K, D)
    <2> HIDE DEF K, D
    <2> QED
      BY <1>4, <1>5
  <1> HIDE DEF f
  <1>7. /\ f[D] \in Seq(Reqs)
        /\ \A r : Contains(f[D], r) <=> r \in K /\ Contains(run, r)
        /\ IsInjective(run) => IsInjective(f[D])
    <2> HIDE DEF K
    <2> QED
      BY <1>6, FiltersKeep
  <1>8. \A r : Contains(run, r) => r \in Reqs
    BY <1>1 DEF Contains
  <1> QED
    BY <1>2, <1>7, <1>8

(* The tokens of the entries of a batch, one after the other.              *)
Amounts(b) == [i \in DOMAIN b |-> b[i].tokens]

Tickets == Seq([req : Reqs, tokens : Nat, prefill : BOOLEAN])

TokensIn(b) == FoldSeq(LAMBDA e, n : e.tokens + n, 0, b)

(* The tokens of a batch are the sum of the amounts of its entries.        *)
LEMMA TokensInSum ==
  ASSUME NEW b \in Tickets
  PROVE  TokensIn(b) = SeqSum(Amounts(b)) /\ Amounts(b) \in Seq(Int) /\ TokensIn(b) \in Int
PROOF
  <1> DEFINE D == DOMAIN b
             w == Amounts(b)
             Eq(g) == g = [s \in SUBSET D |->
                             IF s = {} THEN 0
                             ELSE b[CHOOSE x \in s : TRUE].tokens + g[s \ {CHOOSE x \in s : TRUE}]]
             f == CHOOSE g : Eq(g)
  <1>1. D = 1 .. Len(b) /\ Len(b) \in Nat /\ IsFiniteSet(D)
    BY LenProperties, FS_Interval DEF Tickets
  <1>2. \A i \in D : b[i].tokens \in Nat
    <2>1. \A i \in D : b[i] \in [req : Reqs, tokens : Nat, prefill : BOOLEAN]
      BY <1>1, ElementOfSeq DEF Tickets
    <2> QED
      BY <2>1
  <1>3. w \in Seq(Int) /\ DOMAIN w = D
    BY <1>1, <1>2 DEF Amounts
  <1>4. TokensIn(b) = f[D]
    BY DEF TokensIn, FoldSeq, FoldFunction, FoldFunctionOnSet, MapThenFoldSet
  <1>5. \A s \in SUBSET D : s # {} => w[Pick(s)] = b[CHOOSE x \in s : TRUE].tokens
    BY PickIn DEF Pick, Amounts
  <1>6. ASSUME NEW g
        PROVE  Eq(g) <=> SumsUp(g, w, D)
    <2> HIDE DEF w, D
    <2>1. [s \in SUBSET D |->
             IF s = {} THEN 0
             ELSE b[CHOOSE x \in s : TRUE].tokens + g[s \ {CHOOSE x \in s : TRUE}]]
          = [s \in SUBSET D |-> IF s = {} THEN 0 ELSE w[Pick(s)] + g[s \ {Pick(s)}]]
      BY <1>5 DEF Pick
    <2> QED
      BY <2>1 DEF SumsUp
  <1> HIDE DEF Eq, w
  <1>7. \E g : Eq(g)
    BY <1>1, <1>6, SumsExist
  <1>8. Eq(f)
    BY <1>7
  <1>9. SumsUp(f, w, D)
    BY <1>6, <1>8
  <1> HIDE DEF f
  <1>10. TokensIn(b) = SeqSum(w)
    BY <1>1, <1>3, <1>4, <1>9, SumValue DEF SeqSum
  <1>11. SeqSum(w) \in Int
    BY <1>3, SeqSumInt
  <1> QED
    BY <1>3, <1>10, <1>11 DEF w

(* An entry more adds its tokens.                                          *)
LEMMA TokensInAppend ==
  ASSUME NEW b \in Tickets, NEW e \in [req : Reqs, tokens : Nat, prefill : BOOLEAN]
  PROVE  Append(b, e) \in Tickets /\ TokensIn(Append(b, e)) = TokensIn(b) + e.tokens
PROOF
  <1>1. /\ Append(b, e) \in Tickets /\ Len(Append(b, e)) = Len(b) + 1
        /\ \A i \in 1 .. Len(b) : Append(b, e)[i] = b[i]
        /\ Append(b, e)[Len(b) + 1] = e
    BY AppendProperties DEF Tickets
  <1>2. /\ DOMAIN b = 1 .. Len(b) /\ Len(b) \in Nat
        /\ DOMAIN Append(b, e) = 1 .. Len(b) + 1
    BY <1>1, LenProperties DEF Tickets
  <1>3. e.tokens \in Int
    OBVIOUS
  <1>4. /\ Amounts(b) \in Seq(Int) /\ TokensIn(b) = SeqSum(Amounts(b))
        /\ Amounts(Append(b, e)) \in Seq(Int)
        /\ TokensIn(Append(b, e)) = SeqSum(Amounts(Append(b, e)))
    BY <1>1, TokensInSum
  <1>5. Amounts(Append(b, e)) = Append(Amounts(b), e.tokens)
    <2> DEFINE u == Amounts(Append(b, e))
               v == Append(Amounts(b), e.tokens)
    <2>1. /\ v \in Seq(Int) /\ Len(v) = Len(Amounts(b)) + 1
          /\ \A i \in 1 .. Len(Amounts(b)) : v[i] = Amounts(b)[i]
          /\ v[Len(Amounts(b)) + 1] = e.tokens
      BY <1>3, <1>4, AppendProperties
    <2>2. Len(Amounts(b)) = Len(b) /\ Len(u) = Len(b) + 1
      BY <1>2, <1>4, LenProperties DEF Amounts
    <2>3. \A i \in 1 .. Len(b) : u[i] = b[i].tokens /\ Amounts(b)[i] = b[i].tokens
      BY <1>1, <1>2 DEF Amounts
    <2>4. u[Len(b) + 1] = e.tokens
      BY <1>1, <1>2 DEF Amounts
    <2>5. \A i \in 1 .. Len(b) + 1 : i \in 1 .. Len(b) \/ i = Len(b) + 1
      BY <1>2
    <2>6. \A i \in 1 .. Len(u) : u[i] = v[i]
      <3> HIDE DEF u, v
      <3> QED
        BY <2>1, <2>2, <2>3, <2>4, <2>5
    <2>7. u \in Seq(Int)
      BY <1>4
    <2> HIDE DEF u, v
    <2>8. u = v
      BY <2>1, <2>2, <2>6, <2>7, SeqEqual
    <2> QED
      BY <2>8 DEF u, v
  <1> QED
    BY <1>1, <1>3, <1>4, <1>5, SeqSumAppend

(* The tokens without the first entry.                                     *)
LEMMA TokensInTail ==
  ASSUME NEW b \in Tickets, b # <<>>
  PROVE  Tail(b) \in Tickets /\ TokensIn(b) = b[1].tokens + TokensIn(Tail(b))
PROOF
  <1>1. /\ Tail(b) \in Tickets /\ Len(Tail(b)) = Len(b) - 1
        /\ \A i \in 1 .. Len(Tail(b)) : Tail(b)[i] = b[i + 1]
    BY HeadTailProperties DEF Tickets
  <1>2. /\ DOMAIN b = 1 .. Len(b) /\ Len(b) \in Nat \ {0}
        /\ DOMAIN Tail(b) = 1 .. Len(b) - 1
    BY <1>1, LenProperties, EmptySeq DEF Tickets
  <1>3. /\ Amounts(b) \in Seq(Int) /\ TokensIn(b) = SeqSum(Amounts(b))
        /\ Amounts(Tail(b)) \in Seq(Int)
        /\ TokensIn(Tail(b)) = SeqSum(Amounts(Tail(b)))
    BY <1>1, TokensInSum
  <1>4. Len(Amounts(b)) = Len(b) /\ Len(Amounts(Tail(b))) = Len(b) - 1
    BY <1>2, <1>3, LenProperties DEF Amounts
  <1>5. Amounts(b) # <<>> /\ Amounts(b)[1] = b[1].tokens
    <2>1. Amounts(b)[1] = b[1].tokens
      BY <1>2 DEF Amounts
    <2> QED
      BY <1>2, <1>4, <2>1, EmptySeq
  <1>6. Amounts(Tail(b)) = Tail(Amounts(b))
    <2> DEFINE u == Amounts(Tail(b))
               v == Tail(Amounts(b))
    <2>1. /\ v \in Seq(Int) /\ Len(v) = Len(b) - 1
          /\ \A i \in 1 .. Len(b) - 1 : v[i] = Amounts(b)[i + 1]
      BY <1>3, <1>4, <1>5, HeadTailProperties
    <2>2. \A i \in 1 .. Len(b) - 1 : u[i] = b[i + 1].tokens /\ Amounts(b)[i + 1] = b[i + 1].tokens
      BY <1>1, <1>2 DEF Amounts
    <2>3. u \in Seq(Int) /\ Len(u) = Len(b) - 1
      BY <1>3, <1>4
    <2> HIDE DEF u, v
    <2>4. u = v
      BY <2>1, <2>2, <2>3, SeqEqual
    <2> QED
      BY <2>4 DEF u, v
  <1> QED
    BY <1>1, <1>3, <1>5, <1>6, SeqSumTail

(* An empty batch has no tokens.                                           *)
LEMMA TokensInNone ==
  TokensIn(<<>>) = 0
PROOF
  <1>1. <<>> \in Tickets /\ DOMAIN <<>> = {}
    BY DEF Tickets
  <1>2. Amounts(<<>>) = <<>>
    BY <1>1 DEF Amounts
  <1> QED
    BY <1>1, <1>2, TokensInSum, SeqSumEmpty

(* The requests of running the loop over it still has to visit.            *)
LEMMA TodoLeast ==
  ASSUME Len(running) \in Nat, form.i \in Nat \ {0}, NEW x, Todo(x) # {}
  PROVE  /\ Min(Todo(x)) \in 1 .. Len(running) /\ Min(Todo(x)) >= form.i
         /\ st[running[Min(Todo(x))]] = x
PROOF
  <1>1. Todo(x) \subseteq 1 .. Len(running)
    BY DEF Todo
  <1>2. IsFiniteSet(Todo(x)) /\ Todo(x) \in SUBSET Int
    <2>1. IsFiniteSet(1 .. Len(running)) /\ 1 .. Len(running) \subseteq Int
      BY FS_Interval
    <2> QED
      BY <1>1, <2>1, FS_Subset
  <1>3. Min(Todo(x)) \in Todo(x)
    BY <1>2, LeastGreatest
  <1> QED
    BY <1>1, <1>3 DEF Todo

(* The decode that is preempted is in running, behind the one at i.        *)
LEMMA YoungerLast ==
  ASSUME Len(running) \in Nat, form.i \in Nat, Younger # {}
  PROVE  /\ Max(Younger) \in 1 .. Len(running) /\ Max(Younger) > form.i
         /\ st[running[Max(Younger)]] = "decode"
PROOF
  <1>1. Younger \subseteq 1 .. Len(running)
    BY DEF Younger
  <1>2. IsFiniteSet(Younger) /\ Younger \in SUBSET Int
    <2>1. IsFiniteSet(1 .. Len(running)) /\ 1 .. Len(running) \subseteq Int
      BY FS_Interval
    <2> QED
      BY <1>1, <2>1, FS_Subset
  <1>3. Max(Younger) \in Younger
    BY <1>2, LeastGreatest
  <1> QED
    BY <1>1, <1>3 DEF Younger

(* A chunk is what is left, the chunk size or the budget, whichever is     *)
(* least.                                                                  *)
LEMMA ThreeNumbers ==
  ASSUME NEW a \in Int, NEW b \in Int, NEW c \in Int
  PROVE  /\ Min({a, b, c}) \in {a, b, c}
         /\ Min({a, b, c}) <= a /\ Min({a, b, c}) <= b /\ Min({a, b, c}) <= c
PROOF
  <1> DEFINE S == {a, b, c}
  <1>1. S \in SUBSET Int /\ S # {}
    OBVIOUS
  <1>2. IsFiniteSet(S)
    <2>1. IsFiniteSet(({a} \cup {b}) \cup {c})
      BY FS_Singleton, FS_Union
    <2>2. ({a} \cup {b}) \cup {c} = S
      OBVIOUS
    <2> QED
      BY <2>1, <2>2
  <1>3. Min(S) \in S /\ \A y \in S : Min(S) <= y
    <2> HIDE DEF S
    <2> QED
      BY <1>1, <1>2, LeastGreatest
  <1> QED
    BY <1>3

-----------------------------------------------------------------------------
(* What the invariant says of the state a step starts from.                *)

(* The types of the queues, of the batch and of the record of form_batch.  *)
LEMMA RankTypes ==
  ASSUME RInv
  PROVE  /\ running \in Seq(Reqs) /\ Len(running) \in Nat /\ DOMAIN running = 1 .. Len(running)
         /\ waiting \in Seq(Reqs) /\ Len(waiting) \in Nat /\ DOMAIN waiting = 1 .. Len(waiting)
         /\ \A k \in 1 .. Len(running) : running[k] \in Reqs
         /\ \A k \in 1 .. Len(waiting) : waiting[k] \in Reqs
         /\ batch \in Tickets /\ Len(batch) \in Nat /\ DOMAIN batch = 1 .. Len(batch)
         /\ \A k \in 1 .. Len(batch) : /\ batch[k] \in [req : Reqs, tokens : Nat, prefill : BOOLEAN]
                                       /\ batch[k].req \in Reqs /\ batch[k].tokens \in Nat
         /\ form \in [todo : Programs, on : BOOLEAN, i : Nat, budget : 0 .. TokCap,
                      seqs : 0 .. SeqCap, decoding : BOOLEAN, short : BOOLEAN]
         /\ form.i \in Nat /\ form.budget \in Nat /\ form.seqs \in Nat
         /\ SeqCap \in Nat /\ TokCap \in Nat
PROOF
  <1>1. running \in Seq(Reqs) /\ waiting \in Seq(Reqs) /\ batch \in Tickets
    BY DEF RInv, QueueOK, BatchOK, Tickets
  <1>2. /\ Len(running) \in Nat /\ DOMAIN running = 1 .. Len(running)
        /\ Len(waiting) \in Nat /\ DOMAIN waiting = 1 .. Len(waiting)
        /\ Len(batch) \in Nat /\ DOMAIN batch = 1 .. Len(batch)
    BY <1>1, LenProperties DEF Tickets
  <1>3. /\ \A k \in 1 .. Len(running) : running[k] \in Reqs
        /\ \A k \in 1 .. Len(waiting) : waiting[k] \in Reqs
    BY <1>1, ElementOfSeq
  <1>4. \A k \in 1 .. Len(batch) : batch[k] \in [req : Reqs, tokens : Nat, prefill : BOOLEAN]
    BY <1>1, ElementOfSeq DEF Tickets
  <1>5. \A k \in 1 .. Len(batch) : batch[k].req \in Reqs /\ batch[k].tokens \in Nat
    BY <1>4
  <1>6. form \in [todo : Programs, on : BOOLEAN, i : Nat, budget : 0 .. TokCap,
                  seqs : 0 .. SeqCap, decoding : BOOLEAN, short : BOOLEAN]
    BY DEF RInv, LoopOK
  <1>7. SeqCap \in Nat /\ TokCap \in Nat
    BY CapsAssumption
  <1>8. form.i \in Nat /\ form.budget \in 0 .. TokCap /\ form.seqs \in 0 .. SeqCap
    BY <1>6
  <1> QED
    BY <1>1, <1>2, <1>3, <1>4, <1>5, <1>6, <1>7, <1>8

(* The types of what the scheduler reads of the cache.                     *)
LEMMA CacheTypes ==
  ASSUME RInv
  PROVE  /\ st \in [Reqs -> {"queued", "loading", "prefill", "decode", "done"}]
         /\ pend \in [Reqs -> Nat] /\ left \in [Reqs -> Nat]
         /\ gen \in [Reqs -> Nat] /\ hitLen \in [Reqs -> Nat]
         /\ used \in [Tiers -> Int]
         /\ \A r \in Reqs : st[r] = "prefill" => left[r] > 0
         /\ op \in [kind : {"none", "admit", "load", "grow"}, req : Reqs \cup {None},
                    blocks : Nat, tok : Int]
         /\ ~ Idle => op.req \in Reqs
         /\ op.kind \in {"admit", "grow"} => op.tok > 0
         /\ op.kind \in {"admit", "load"} => st[op.req] = "queued"
         /\ Idle => stack = <<>>
         /\ stack \in Seq(NodeIds)
         /\ ChunkTokens \in Nat \ {0} /\ Nextn \in Nat
PROOF
  <1>1. PInv
    BY DEF RInv
  <1> QED
    BY <1>1, PoolAssumption DEF PInv, IInv, CountOK, HoldOK, CallOK, Idle

(* Heads and tails of the programs of form_batch.                          *)
LEMMA OnePart ==
  \A a : <<a>> # <<>> /\ Head(<<a>>) = a /\ Tail(<<a>>) = <<>> /\ Len(<<a>>) = 1
PROOF
  OBVIOUS

(* A program of two loops.                                                 *)
LEMMA TwoParts ==
  ASSUME NEW a, NEW b
  PROVE  /\ <<a, b>> # <<>> /\ Head(<<a, b>>) = a /\ Tail(<<a, b>>) = <<b>>
         /\ Len(<<a, b>>) = 2 /\ <<a, b>>[2] = b
         /\ <<a>> \o <<b>> = <<a, b>>
PROOF
  <1>1. <<a, b>> # <<>> /\ Head(<<a, b>>) = a
    OBVIOUS
  <1>2. Tail(<<a, b>>) = <<b>>
    OBVIOUS
  <1>3. Len(<<a, b>>) = 2 /\ <<a, b>>[1] = a /\ <<a, b>>[2] = b
    OBVIOUS
  <1>4. <<a>> \o <<b>> = <<a, b>>
    <2> DEFINE S == {a, b}
               l == <<a>> \o <<b>>
    <2>1. <<a>> \in Seq(S) /\ <<b>> \in Seq(S) /\ <<a, b>> \in Seq(S)
      OBVIOUS
    <2>2. Len(<<a>>) = 1 /\ Len(<<b>>) = 1 /\ <<a>>[1] = a /\ <<b>>[1] = b
      OBVIOUS
    <2> HIDE DEF S
    <2>3. /\ l \in Seq(S) /\ Len(l) = Len(<<a>>) + Len(<<b>>)
          /\ \A k \in 1 .. Len(<<a>>) + Len(<<b>>) :
               l[k] = IF k <= Len(<<a>>) THEN <<a>>[k] ELSE <<b>>[k - Len(<<a>>)]
      BY <2>1, ConcatProperties
    <2>4. Len(l) = 2 /\ l[1] = a /\ l[2] = b
      BY <2>2, <2>3
    <2>5. \A k \in 1 .. 2 : k = 1 \/ k = 2
      OBVIOUS
    <2> HIDE DEF l
    <2>6. l = <<a, b>>
      BY <1>3, <2>1, <2>3, <2>4, <2>5, SeqEqual
    <2> QED
      BY <2>6 DEF l
  <1> QED
    BY <1>1, <1>2, <1>3, <1>4

(* A program of three loops.                                               *)
LEMMA ThreeParts ==
  ASSUME NEW a, NEW b, NEW c
  PROVE  /\ <<a, b, c>> # <<>> /\ Head(<<a, b, c>>) = a /\ Tail(<<a, b, c>>) = <<b, c>>
         /\ Len(<<a, b, c>>) = 3 /\ <<a, b, c>>[2] = b
         /\ <<a>> \o <<b, c>> = <<a, b, c>>
PROOF
  <1>1. <<a, b, c>> # <<>> /\ Head(<<a, b, c>>) = a
    OBVIOUS
  <1>2. Len(<<a, b, c>>) = 3 /\ <<a, b, c>>[1] = a /\ <<a, b, c>>[2] = b /\ <<a, b, c>>[3] = c
    OBVIOUS
  <1> DEFINE S == {a, b, c}
  <1>3. <<a>> \in Seq(S) /\ <<b, c>> \in Seq(S) /\ <<a, b, c>> \in Seq(S)
    OBVIOUS
  <1>4. Len(<<a>>) = 1 /\ Len(<<b, c>>) = 2 /\ <<a>>[1] = a /\ <<b, c>>[1] = b /\ <<b, c>>[2] = c
    OBVIOUS
  <1> HIDE DEF S
  <1>5. Tail(<<a, b, c>>) = <<b, c>>
    <2> DEFINE l == Tail(<<a, b, c>>)
    <2>1. /\ l \in Seq(S) /\ Len(l) = Len(<<a, b, c>>) - 1
          /\ \A k \in 1 .. Len(l) : l[k] = <<a, b, c>>[k + 1]
      BY <1>1, <1>3, HeadTailProperties
    <2>2. Len(l) = 2 /\ l[1] = b /\ l[2] = c
      BY <1>2, <2>1
    <2>3. \A k \in 1 .. 2 : k = 1 \/ k = 2
      OBVIOUS
    <2> HIDE DEF l
    <2>4. l = <<b, c>>
      BY <1>3, <1>4, <2>1, <2>2, <2>3, SeqEqual
    <2> QED
      BY <2>4 DEF l
  <1>6. <<a>> \o <<b, c>> = <<a, b, c>>
    <2> DEFINE l == <<a>> \o <<b, c>>
    <2>1. /\ l \in Seq(S) /\ Len(l) = Len(<<a>>) + Len(<<b, c>>)
          /\ \A k \in 1 .. Len(<<a>>) + Len(<<b, c>>) :
               l[k] = IF k <= Len(<<a>>) THEN <<a>>[k] ELSE <<b, c>>[k - Len(<<a>>)]
      BY <1>3, ConcatProperties
    <2>2. Len(l) = 3 /\ l[1] = a /\ l[2] = b /\ l[3] = c
      BY <1>4, <2>1
    <2>3. \A k \in 1 .. 3 : k = 1 \/ k = 2 \/ k = 3
      OBVIOUS
    <2> HIDE DEF l
    <2>4. l = <<a, b, c>>
      BY <1>2, <1>3, <2>1, <2>2, <2>3, SeqEqual
    <2> QED
      BY <2>4 DEF l
  <1> QED
    BY <1>1, <1>2, <1>5, <1>6

(* Where form_batch is.                                                    *)
LEMMA ProgramParts ==
  ASSUME form.todo \in Programs
  PROVE  /\ form.todo = <<>> \/ Head(form.todo) \in {"decode", "prefill", "admit", "chunk", "commit"}
         /\ form.todo # <<>> /\ Head(form.todo) = "chunk" =>
              Tail(form.todo) \in Programs /\ Tail(form.todo) # <<>> /\ Head(Tail(form.todo)) = "admit"
         /\ form.todo # <<>> /\ Head(form.todo) = "admit" => <<"chunk">> \o form.todo \in Programs
PROOF
  <1>1. CASE form.todo = <<"decode", "prefill", "admit">>
    <2>1. form.todo # <<>> /\ Head(form.todo) = "decode" /\ Tail(form.todo) = <<"prefill", "admit">> /\ Len(form.todo) = 3
          /\ form.todo[2] = "prefill"
      BY <1>1, ThreeParts
    <2> QED
      BY <1>1, <2>1 DEF Programs
  <1>2. CASE form.todo = <<"decode", "fallback">>
    <2>1. form.todo # <<>> /\ Head(form.todo) = "decode" /\ Tail(form.todo) = <<"fallback">> /\ Len(form.todo) = 2
          /\ form.todo[2] = "fallback"
      BY <1>2, TwoParts
    <2> QED
      BY <1>2, <2>1 DEF Programs
  <1>3. CASE form.todo = <<"prefill", "admit", "fallback">>
    <2>1. form.todo # <<>> /\ Head(form.todo) = "prefill" /\ Tail(form.todo) = <<"admit", "fallback">> /\ Len(form.todo) = 3
          /\ form.todo[2] = "admit"
      BY <1>3, ThreeParts
    <2> QED
      BY <1>3, <2>1 DEF Programs
  <1>4. CASE form.todo = <<"prefill", "admit">>
    <2>1. form.todo # <<>> /\ Head(form.todo) = "prefill" /\ Tail(form.todo) = <<"admit">> /\ Len(form.todo) = 2
          /\ form.todo[2] = "admit"
      BY <1>4, TwoParts
    <2> QED
      BY <1>4, <2>1 DEF Programs
  <1>5. CASE form.todo = <<"admit", "fallback">>
    <2>1. form.todo # <<>> /\ Head(form.todo) = "admit" /\ Tail(form.todo) = <<"fallback">> /\ Len(form.todo) = 2
          /\ form.todo[2] = "fallback"
      BY <1>5, TwoParts
    <2>2. <<"chunk">> \o form.todo = <<"chunk", "admit", "fallback">>
      BY <1>5, ThreeParts
    <2> QED
      BY <1>5, <2>1, <2>2 DEF Programs
  <1>6. CASE form.todo = <<"admit">>
    <2>1. form.todo # <<>> /\ Head(form.todo) = "admit" /\ Tail(form.todo) = <<>> /\ Len(form.todo) = 1
      BY <1>6, OnePart
    <2>2. <<"chunk">> \o form.todo = <<"chunk", "admit">>
      BY <1>6, TwoParts
    <2> QED
      BY <1>6, <2>1, <2>2 DEF Programs
  <1>7. CASE form.todo = <<"chunk", "admit", "fallback">>
    <2>1. form.todo # <<>> /\ Head(form.todo) = "chunk" /\ Tail(form.todo) = <<"admit", "fallback">> /\ Len(form.todo) = 3
          /\ form.todo[2] = "admit"
      BY <1>7, ThreeParts
    <2>2. Tail(form.todo) # <<>> /\ Head(Tail(form.todo)) = "admit"
      BY <2>1, TwoParts
    <2> QED
      BY <1>7, <2>1, <2>2 DEF Programs
  <1>8. CASE form.todo = <<"chunk", "admit">>
    <2>1. form.todo # <<>> /\ Head(form.todo) = "chunk" /\ Tail(form.todo) = <<"admit">> /\ Len(form.todo) = 2
          /\ form.todo[2] = "admit"
      BY <1>8, TwoParts
    <2>2. Tail(form.todo) # <<>> /\ Head(Tail(form.todo)) = "admit"
      BY <2>1, OnePart
    <2> QED
      BY <1>8, <2>1, <2>2 DEF Programs
  <1>9. CASE form.todo = <<"decode">>
    <2>1. form.todo # <<>> /\ Head(form.todo) = "decode" /\ Tail(form.todo) = <<>> /\ Len(form.todo) = 1
      BY <1>9, OnePart
    <2> QED
      BY <1>9, <2>1 DEF Programs
  <1>10. CASE form.todo = <<"commit">>
    <2>1. form.todo # <<>> /\ Head(form.todo) = "commit" /\ Tail(form.todo) = <<>> /\ Len(form.todo) = 1
      BY <1>10, OnePart
    <2> QED
      BY <1>10, <2>1 DEF Programs
  <1> QED
    BY <1>1, <1>2, <1>3, <1>4, <1>5, <1>6, <1>7, <1>8, <1>9, <1>10 DEF Programs

(* After a loop comes the next one, or the fallback to the decodes of an   *)
(* empty batch.                                                            *)
NextProgram(b) ==
  IF Len(form.todo) > 1 /\ form.todo[2] = "fallback"
    THEN (IF b = <<>> THEN <<"decode">> ELSE <<>>)
  ELSE Tail(form.todo)

(* When a loop ends, what is left to do is one of the programs, too.       *)
LEMMA EndedProgram ==
  ASSUME form.todo \in Programs, form.todo # <<>>, Head(form.todo) # "commit",
         Head(form.todo) # "chunk", NEW b
  PROVE  /\ NextProgram(b) \in Programs
         /\ NextProgram(b) # <<>> => Head(NextProgram(b)) \in {"decode", "prefill", "admit"}
         /\ NextProgram(b) # <<>> /\ Head(NextProgram(b)) = "decode" => b = <<>>
         /\ NextProgram(b) # <<>> /\ Head(NextProgram(b)) = "prefill" => Head(form.todo) = "decode"
PROOF
  <1>1. CASE form.todo = <<"decode", "prefill", "admit">>
    <2>1. form.todo # <<>> /\ Head(form.todo) = "decode" /\ Tail(form.todo) = <<"prefill", "admit">> /\ Len(form.todo) = 3
          /\ form.todo[2] = "prefill"
      BY <1>1, ThreeParts
    <2>2. NextProgram(b) = <<"prefill", "admit">>
      BY <2>1 DEF NextProgram
    <2> QED
      BY <2>1, <2>2, TwoParts DEF Programs
  <1>2. CASE form.todo = <<"decode", "fallback">>
    <2>1. form.todo # <<>> /\ Head(form.todo) = "decode" /\ Tail(form.todo) = <<"fallback">> /\ Len(form.todo) = 2
          /\ form.todo[2] = "fallback"
      BY <1>2, TwoParts
    <2>2. NextProgram(b) = IF b = <<>> THEN <<"decode">> ELSE <<>>
      BY <2>1 DEF NextProgram
    <2> QED
      BY <2>2, OnePart DEF Programs
  <1>3. CASE form.todo = <<"prefill", "admit", "fallback">>
    <2>1. form.todo # <<>> /\ Head(form.todo) = "prefill" /\ Tail(form.todo) = <<"admit", "fallback">> /\ Len(form.todo) = 3
          /\ form.todo[2] = "admit"
      BY <1>3, ThreeParts
    <2>2. NextProgram(b) = <<"admit", "fallback">>
      BY <2>1 DEF NextProgram
    <2> QED
      BY <2>1, <2>2, TwoParts DEF Programs
  <1>4. CASE form.todo = <<"prefill", "admit">>
    <2>1. form.todo # <<>> /\ Head(form.todo) = "prefill" /\ Tail(form.todo) = <<"admit">> /\ Len(form.todo) = 2
          /\ form.todo[2] = "admit"
      BY <1>4, TwoParts
    <2>2. NextProgram(b) = <<"admit">>
      BY <2>1 DEF NextProgram
    <2> QED
      BY <2>1, <2>2, OnePart DEF Programs
  <1>5. CASE form.todo = <<"admit", "fallback">>
    <2>1. form.todo # <<>> /\ Head(form.todo) = "admit" /\ Tail(form.todo) = <<"fallback">> /\ Len(form.todo) = 2
          /\ form.todo[2] = "fallback"
      BY <1>5, TwoParts
    <2>2. NextProgram(b) = IF b = <<>> THEN <<"decode">> ELSE <<>>
      BY <2>1 DEF NextProgram
    <2> QED
      BY <2>2, OnePart DEF Programs
  <1>6. CASE form.todo = <<"admit">>
    <2>1. form.todo # <<>> /\ Head(form.todo) = "admit" /\ Tail(form.todo) = <<>> /\ Len(form.todo) = 1
      BY <1>6, OnePart
    <2>2. NextProgram(b) = <<>>
      BY <2>1 DEF NextProgram
    <2> QED
      BY <2>1, <2>2 DEF Programs
  <1>7. CASE form.todo = <<"chunk", "admit", "fallback">>
    <2>1. form.todo # <<>> /\ Head(form.todo) = "chunk" /\ Tail(form.todo) = <<"admit", "fallback">> /\ Len(form.todo) = 3
          /\ form.todo[2] = "admit"
      BY <1>7, ThreeParts
    <2> QED
      BY <2>1
  <1>8. CASE form.todo = <<"chunk", "admit">>
    <2>1. form.todo # <<>> /\ Head(form.todo) = "chunk" /\ Tail(form.todo) = <<"admit">> /\ Len(form.todo) = 2
          /\ form.todo[2] = "admit"
      BY <1>8, TwoParts
    <2> QED
      BY <2>1
  <1>9. CASE form.todo = <<"decode">>
    <2>1. form.todo # <<>> /\ Head(form.todo) = "decode" /\ Tail(form.todo) = <<>> /\ Len(form.todo) = 1
      BY <1>9, OnePart
    <2>2. NextProgram(b) = <<>>
      BY <2>1 DEF NextProgram
    <2> QED
      BY <2>1, <2>2 DEF Programs
  <1>10. CASE form.todo = <<"commit">>
    <2>1. form.todo # <<>> /\ Head(form.todo) = "commit" /\ Tail(form.todo) = <<>> /\ Len(form.todo) = 1
      BY <1>10, OnePart
    <2> QED
      BY <2>1
  <1> QED
    BY <1>1, <1>2, <1>3, <1>4, <1>5, <1>6, <1>7, <1>8, <1>9, <1>10 DEF Programs

(* A rank that has no batch has no tokens in a pass.                       *)
LEMMA NoBatch ==
  ASSUME RInv, batch = <<>>
  PROVE  \A r \in Reqs : pend[r] = 0
PROOF
  <1>1. DOMAIN batch = {}
    BY RankTypes
  <1>2. \A r \in Reqs : ~ pend[r] > 0
    BY <1>1 DEF RInv, BatchOK, BatchValid
  <1> QED
    BY <1>2, CacheTypes

-----------------------------------------------------------------------------
(* The scheduler drives the cache as KvTree allows.                        *)

(* The scheduler asks for tokens as a pass of the cache may.               *)
LEMMA GrowSteps ==
  ASSUME RInv, DecodeGrow \/ PrefillGrow \/ FirstChunk
  PROVE  \E r \in Reqs : \E tok \in 1 .. Max({ChunkTokens, 1 + Nextn}) :
           Asks(r, tok) /\ BeginGrow(r, tok)
PROOF
  <1>1. /\ Len(running) \in Nat /\ \A k \in 1 .. Len(running) : running[k] \in Reqs
        /\ DOMAIN running = 1 .. Len(running)
        /\ form.i \in Nat /\ form.budget \in Nat /\ form.on \in BOOLEAN
    BY RankTypes
  <1>2. /\ pend \in [Reqs -> Nat] /\ left \in [Reqs -> Nat]
        /\ \A r \in Reqs : st[r] = "prefill" => left[r] > 0
        /\ ChunkTokens \in Nat \ {0} /\ Nextn \in Nat
    BY CacheTypes
  <1>3. \A t \in Nat : t <= ChunkTokens \/ t <= 1 + Nextn => t <= Max({ChunkTokens, 1 + Nextn})
    <2> DEFINE a == ChunkTokens
               b == 1 + Nextn
    <2>1. a \in Int /\ b \in Int
      BY <1>2
    <2> HIDE DEF a, b
    <2>2. Max({a, b}) \in {a, b} /\ Max({a, b}) >= a /\ Max({a, b}) >= b
      BY <2>1, TwoNumbers
    <2>3. \A t \in Nat : t <= a \/ t <= b => t <= Max({a, b})
      BY <2>1, <2>2
    <2> QED
      BY <2>3 DEF a, b
  <1>4. Max({ChunkTokens, 1 + Nextn}) \in Int
    <2> DEFINE a == ChunkTokens
               b == 1 + Nextn
    <2>1. a \in Int /\ b \in Int
      BY <1>2
    <2> HIDE DEF a, b
    <2>2. Max({a, b}) \in Int
      BY <2>1, TwoNumbers
    <2> QED
      BY <2>2 DEF a, b
  <1>5. form.on /\ ~ In("commit") => form.i # 0
    BY <1>1 DEF RInv, LoopOK
  <1>6. ASSUME NEW r \in Reqs, st[r] = "prefill", ~ Full
        PROVE  Chunk(r) \in Nat \ {0} /\ Chunk(r) <= left[r] /\ Chunk(r) <= ChunkTokens
               /\ Chunk(r) <= form.budget
    <2> DEFINE a == left[r]
               b == ChunkTokens
               c == form.budget
    <2>1. a \in Nat \ {0} /\ b \in Nat \ {0} /\ c \in Nat \ {0}
      BY <1>1, <1>2, <1>6 DEF Full
    <2>2. Chunk(r) = Min({a, b, c})
      BY DEF Chunk
    <2> HIDE DEF a, b, c
    <2>3. a \in Int /\ b \in Int /\ c \in Int
      BY <2>1
    <2>4. /\ Min({a, b, c}) \in {a, b, c}
          /\ Min({a, b, c}) <= a /\ Min({a, b, c}) <= b /\ Min({a, b, c}) <= c
      BY <2>3, ThreeNumbers
    <2>5. Chunk(r) \in Nat \ {0} /\ Chunk(r) <= a /\ Chunk(r) <= b /\ Chunk(r) <= c
      BY <2>1, <2>2, <2>4
    <2> QED
      BY <2>5 DEF a, b, c
  <1>7. CASE DecodeGrow
    <2> DEFINE j == Min(Todo("decode"))
    <2>1. In("decode") /\ Todo("decode") # {} /\ BeginGrow(running[j], 1 + Nextn)
      BY <1>7 DEF DecodeGrow
    <2>2. form.i # 0
      BY <1>5, <2>1 DEF In
    <2>3. j \in 1 .. Len(running) /\ j >= form.i /\ st[running[j]] = "decode"
      BY <1>1, <2>1, <2>2, TodoLeast
    <2>4. pend[running[j]] > 0 => j < form.i
      BY <1>1, <2>1, <2>3 DEF RInv, LoopOK
    <2> HIDE DEF j
    <2>5. running[j] \in Reqs /\ pend[running[j]] = 0
      BY <1>1, <1>2, <2>3, <2>4
    <2>6. 1 + Nextn \in 1 .. Max({ChunkTokens, 1 + Nextn})
      BY <1>2, <1>3, <1>4
    <2> QED
      BY <2>1, <2>3, <2>5, <2>6 DEF Asks
  <1>8. CASE PrefillGrow
    <2> DEFINE j == Min(Todo("prefill"))
    <2>1. In("prefill") /\ Todo("prefill") # {} /\ ~ Full /\ BeginGrow(running[j], Chunk(running[j]))
      BY <1>8 DEF PrefillGrow
    <2>2. form.i # 0
      BY <1>5, <2>1 DEF In
    <2>3. j \in 1 .. Len(running) /\ j >= form.i /\ st[running[j]] = "prefill"
      BY <1>1, <2>1, <2>2, TodoLeast
    <2>4. pend[running[j]] > 0 => j < form.i
      BY <1>1, <2>1, <2>3 DEF RInv, LoopOK
    <2> HIDE DEF j
    <2>5. running[j] \in Reqs /\ pend[running[j]] = 0
      BY <1>1, <1>2, <2>3, <2>4
    <2>6. Chunk(running[j]) \in 1 .. Max({ChunkTokens, 1 + Nextn})
      <3>1. Chunk(running[j]) \in Nat \ {0} /\ Chunk(running[j]) <= ChunkTokens
        BY <1>6, <2>1, <2>3, <2>5
      <3> QED
        BY <1>3, <1>4, <3>1
    <2> QED
      BY <1>6, <2>1, <2>3, <2>5, <2>6 DEF Asks
  <1>9. CASE FirstChunk
    <2> DEFINE j == form.i
    <2>1. In("chunk") /\ BeginGrow(running[j], Chunk(running[j]))
      BY <1>9 DEF FirstChunk
    <2>2. /\ running # <<>> /\ j = Len(running) /\ ~ Full
          /\ st[running[j]] = "prefill" /\ pend[running[j]] = 0
      BY <2>1 DEF RInv, LoopOK
    <2>3. j \in 1 .. Len(running)
      BY <2>2, RankTypes, EmptySeq
    <2> HIDE DEF j
    <2>4. running[j] \in Reqs
      BY <1>1, <2>3
    <2>5. Chunk(running[j]) \in 1 .. Max({ChunkTokens, 1 + Nextn})
      <3>1. Chunk(running[j]) \in Nat \ {0} /\ Chunk(running[j]) <= ChunkTokens
        BY <1>6, <2>2, <2>4
      <3> QED
        BY <1>3, <1>4, <3>1
    <2> QED
      BY <1>6, <2>1, <2>2, <2>4, <2>5 DEF Asks
  <1> QED
    BY <1>7, <1>8, <1>9

(* Whom form_batch preempts has no tokens in the pass.                     *)
LEMMA PreemptSteps ==
  ASSUME RInv, DecodePreempt \/ FormAgain
  PROVE  Preempt
PROOF
  <1>1. /\ Len(running) \in Nat /\ \A k \in 1 .. Len(running) : running[k] \in Reqs
        /\ DOMAIN running = 1 .. Len(running)
        /\ form.i \in Nat
    BY RankTypes
  <1>2. pend \in [Reqs -> Nat]
    BY CacheTypes
  <1>3. CASE DecodePreempt
    <2> DEFINE j == Max(Younger)
    <2>1. In("decode") /\ Younger # {} /\ Preempted(running[j])
      BY <1>3 DEF DecodePreempt
    <2>2. j \in 1 .. Len(running) /\ j > form.i
      BY <1>1, <2>1, YoungerLast
    <2>3. pend[running[j]] > 0 => j < form.i
      BY <1>1, <2>1, <2>2 DEF RInv, LoopOK
    <2> HIDE DEF j
    <2>4. running[j] \in Reqs /\ pend[running[j]] = 0
      BY <1>1, <1>2, <2>2, <2>3
    <2> QED
      BY <2>1, <2>4 DEF Preempt, Preempted
  <1>4. CASE FormAgain
    <2>1. running # <<>> /\ batch = <<>> /\ Preempted(Last(running))
      BY <1>4 DEF FormAgain, Stalled
    <2>2. Last(running) \in Reqs
      BY <1>1, <2>1, RankTypes, EmptySeq DEF Last
    <2>3. pend[Last(running)] = 0
      BY <2>1, <2>2, NoBatch
    <2> QED
      BY <2>1, <2>2, <2>3 DEF Preempt, Preempted
  <1> QED
    BY <1>3, <1>4

(* Admission is the admission of the cache.                                *)
LEMMA AdmitSteps ==
  ASSUME RInv, RejectFront \/ AdmitFront \/ FrontLoading \/ FrontBlocked \/ FrontAdmitted
  PROVE  Admission
PROOF
  <1>1. waiting # <<>> => Head(waiting) \in Reqs
    BY RankTypes, HeadTailProperties
  <1>2. CASE RejectFront
    BY <1>1, <1>2 DEF RejectFront, Admission
  <1>3. CASE AdmitFront
    <2> DEFINE r == Head(waiting)
               chunk == Min({ChunkTokens, form.budget})
    <2>1. r \in Reqs /\ ~ Full
      BY <1>1, <1>3 DEF AdmitFront
    <2>2. chunk \in 1 .. ChunkTokens
      <3> DEFINE a == ChunkTokens
                 b == form.budget
      <3>1. a \in Nat \ {0} /\ b \in Nat \ {0}
        BY <2>1, RankTypes, CacheTypes DEF Full
      <3> HIDE DEF a, b
      <3>2. a \in Int /\ b \in Int
        BY <3>1
      <3>3. Min({a, b}) \in {a, b} /\ Min({a, b}) <= a
        BY <3>2, TwoNumbers
      <3>4. Min({a, b}) \in 1 .. a
        BY <3>1, <3>3
      <3> QED
        BY <3>4 DEF a, b
    <2>3. PICK h \in Hits(r) :
            BeginLoad(r, h) \/ PinWhole(r, h, chunk) \/ (Free # {} /\ PinSplit(r, h, FirstFree({}), chunk))
      BY <1>3 DEF AdmitFront
    <2> HIDE DEF r, chunk
    <2> QED
      BY <2>1, <2>2, <2>3 DEF Admission
  <1>4. CASE FrontLoading \/ FrontBlocked \/ FrontAdmitted
    BY <1>4 DEF FrontLoading, FrontBlocked, FrontAdmitted, Admission
  <1> QED
    BY <1>2, <1>3, <1>4

(* Every step of the scheduler is a step of the cache, or none.            *)
LEMMA StepImplements ==
  ASSUME RInv, [RankNext]_rankvars
  PROVE  [Next]_vars
PROOF
  <1>1. CASE Evict
    BY <1>1 DEF Evict, Next, EnsureFree
  <1>2. CASE DecodeGrow \/ PrefillGrow \/ FirstChunk
    BY <1>2, GrowSteps DEF Next, Pass
  <1>3. CASE DecodeGrowFailed \/ PrefillGrowFailed \/ Batched
    BY <1>3 DEF DecodeGrowFailed, PrefillGrowFailed, Batched, Next, Pass
  <1>4. CASE DecodePreempt \/ FormAgain
    BY <1>4, PreemptSteps DEF Next
  <1>5. CASE DecodeSkip \/ DecodesEnd \/ PrefillsEnd \/ AdmissionsEnd \/ StartPass
    BY <1>5 DEF DecodeSkip, DecodesEnd, PrefillsEnd, AdmissionsEnd, StartPass
  <1>6. CASE RejectFront \/ AdmitFront \/ FrontLoading \/ FrontBlocked \/ FrontAdmitted
    BY <1>6, AdmitSteps DEF Next
  <1>7. CASE Commit
    <2>1. Head(batch).req \in Reqs
      <3>1. batch # <<>> /\ batch \in Tickets
        BY <1>7, RankTypes DEF Commit, RInv, BatchOK
      <3>2. Head(batch) \in [req : Reqs, tokens : Nat, prefill : BOOLEAN]
        BY <3>1, HeadTailProperties DEF Tickets
      <3> QED
        BY <3>2
    <2>2. Committed(Head(batch).req)
      BY <1>7 DEF Commit
    <2> QED
      BY <2>1, <2>2 DEF Committed, Next, Pass
  <1>8. ASSUME NEW r \in Reqs, Arrive(r)
        PROVE  [Next]_vars
    BY <1>8 DEF Arrive
  <1>9. ASSUME NEW r \in Reqs, Loaded(r)
        PROVE  [Next]_vars
    BY <1>9 DEF Loaded, Next, Admission
  <1>10. CASE Written
    BY <1>10 DEF Written
  <1>11. CASE Lapse
    BY <1>11 DEF Lapse, Next
  <1>12. CASE UNCHANGED rankvars
    BY <1>12 DEF rankvars
  <1> QED
    BY <1>1, <1>2, <1>3, <1>4, <1>5, <1>6, <1>7, <1>8, <1>9, <1>10, <1>11, <1>12
       DEF RankNext, FormBatch
-----------------------------------------------------------------------------
(* The invariant of the scheduler: facts used for every step.              *)

(* The tokens of the batch, now and after the step.                        *)
LEMMA BatchTokensIs ==
  BatchTokens = TokensIn(batch) /\ BatchTokens' = TokensIn(batch')
PROOF
  BY DEF BatchTokens, TokensIn, FoldSeq, FoldFunction, FoldFunctionOnSet, MapThenFoldSet

(* Who is in the queues, and who is in the pass.                           *)
LEMMA Queued2 ==
  ASSUME RInv
  PROVE  /\ IsInjective(running) /\ IsInjective(waiting)
         /\ \A y : Contains(running, y) =>
              y \in Reqs /\ (Serving(y) \/ (In("commit") /\ st[y] = "done"))
         /\ \A y : Contains(waiting, y) => y \in Reqs /\ st[y] = "queued"
         /\ \A r \in Reqs : Serving(r) => Contains(running, r)
PROOF
  <1>1. QueueOK /\ DOMAIN running = 1 .. Len(running) /\ DOMAIN waiting = 1 .. Len(waiting)
    BY RankTypes DEF RInv
  <1>2. ASSUME NEW y, Contains(running, y)
        PROVE  y \in Reqs /\ (Serving(y) \/ (In("commit") /\ st[y] = "done"))
    <2>1. PICK i \in 1 .. Len(running) : running[i] = y
      BY <1>2 DEF Contains
    <2> QED
      BY <1>1, <2>1, RankTypes DEF QueueOK
  <1>3. ASSUME NEW y, Contains(waiting, y)
        PROVE  y \in Reqs /\ st[y] = "queued"
    <2>1. PICK i \in 1 .. Len(waiting) : waiting[i] = y
      BY <1>3 DEF Contains
    <2> QED
      BY <1>1, <2>1, RankTypes DEF QueueOK
  <1> QED
    BY <1>1, <1>2, <1>3 DEF QueueOK

(* QueueOK after a step, from who is where.                                *)
LEMMA QueuesNow ==
  ASSUME running' \in Seq(Reqs), waiting' \in Seq(Reqs),
         IsInjective(running'), IsInjective(waiting'),
         \A y \in Reqs : Contains(running', y) =>
           st'[y] \in {"prefill", "decode"} \/ (In("commit")' /\ st'[y] = "done"),
         \A y \in Reqs : Contains(waiting', y) => st'[y] = "queued",
         \A r \in Reqs : st'[r] \in {"prefill", "decode"} => Contains(running', r)
  PROVE  QueueOK'
PROOF
  <1>1. /\ DOMAIN running' = 1 .. Len(running') /\ DOMAIN waiting' = 1 .. Len(waiting')
        /\ \A i \in 1 .. Len(running') : running'[i] \in Reqs /\ Contains(running', running'[i])
        /\ \A i \in 1 .. Len(waiting') : waiting'[i] \in Reqs /\ Contains(waiting', waiting'[i])
    BY LenProperties, ElementOfSeq DEF Contains
  <1>2. \A i \in DOMAIN waiting' : st'[waiting'[i]] = "queued"
    BY <1>1
  <1>3. \A i \in DOMAIN running' :
          st'[running'[i]] \in {"prefill", "decode"} \/ (In("commit")' /\ st'[running'[i]] = "done")
    BY <1>1
  <1> QED
    BY <1>2, <1>3 DEF QueueOK, Serving

(* The requests that hold tokens of a pass are those of the batch.         *)
LEMMA InPass ==
  ASSUME RInv
  PROVE  /\ \A i \in 1 .. Len(batch) :
              /\ pend[batch[i].req] = batch[i].tokens /\ pend[batch[i].req] > 0
              /\ st[batch[i].req] = (IF batch[i].prefill THEN "prefill" ELSE "decode")
              /\ \A j \in 1 .. Len(batch) : batch[i].req = batch[j].req => i = j
         /\ \A r \in Reqs : pend[r] > 0 =>
              /\ Serving(r) /\ Contains(running, r)
              /\ \E i \in 1 .. Len(batch) : batch[i].req = r
PROOF
  <1>1. BatchValid /\ DOMAIN batch = 1 .. Len(batch)
    BY RankTypes DEF RInv, BatchOK
  <1>2. \A i \in 1 .. Len(batch) :
          /\ pend[batch[i].req] = batch[i].tokens /\ pend[batch[i].req] > 0
          /\ st[batch[i].req] = (IF batch[i].prefill THEN "prefill" ELSE "decode")
          /\ Contains(running, batch[i].req)
          /\ \A j \in 1 .. Len(batch) : batch[i].req = batch[j].req => i = j
    BY <1>1 DEF BatchValid
  <1>3. \A r \in Reqs : pend[r] > 0 => \E i \in 1 .. Len(batch) : batch[i].req = r
    BY <1>1 DEF BatchValid
  <1> QED
    BY <1>2, <1>3 DEF Serving

(* Nothing is done to the requests of a batch while others are moved.      *)
LEMMA ValidStays ==
  ASSUME RInv, UNCHANGED <<batch, pend>>,
         \A r \in Reqs : pend[r] > 0 => st'[r] = st[r] /\ Contains(running', r)
  PROVE  BatchValid'
PROOF
  <1>1. BatchValid /\ DOMAIN batch = 1 .. Len(batch) /\ \A k \in 1 .. Len(batch) : batch[k].req \in Reqs
    BY RankTypes DEF RInv, BatchOK
  <1>2. BatchTokens' = BatchTokens
    BY BatchTokensIs
  <1>3. \A i \in DOMAIN batch : pend[batch[i].req] > 0
    BY <1>1, InPass
  <1>4. /\ \A i, j \in DOMAIN batch : batch[i].req = batch[j].req => i = j
        /\ \A i \in DOMAIN batch :
             /\ pend[batch[i].req] = batch[i].tokens /\ batch[i].tokens > 0
             /\ Contains(running', batch[i].req)
             /\ st'[batch[i].req] = (IF batch[i].prefill THEN "prefill" ELSE "decode")
        /\ Len(batch) <= SeqCap
        /\ BatchTokens <= TokCap
        /\ \A r \in Reqs : pend[r] > 0 => \E i \in DOMAIN batch : batch[i].req = r
    BY <1>1, <1>3 DEF BatchValid
  <1> QED
    BY <1>2, <1>4 DEF BatchValid

(* A step that leaves batch and budget alone keeps BatchOK.                *)
LEMMA BatchStays ==
  ASSUME RInv, UNCHANGED <<batch, pend, busy>>,
         \A r \in Reqs : pend[r] > 0 => st'[r] = st[r] /\ Contains(running', r),
         form'.on = form.on, form'.budget = form.budget, form'.seqs = form.seqs,
         In("commit")' <=> In("commit")
  PROVE  BatchOK'
PROOF
  <1>1. BatchValid'
    BY ValidStays
  <1>2. BatchTokens' = BatchTokens
    BY BatchTokensIs
  <1>3. BatchOK
    BY DEF RInv
  <1> QED
    BY <1>1, <1>2, <1>3 DEF BatchOK

(* A step that leaves queues and states alone keeps QueueOK.               *)
LEMMA QueuesStay ==
  ASSUME RInv, UNCHANGED <<running, waiting, st>>, In("commit")' <=> In("commit")
  PROVE  QueueOK' /\ \A r \in Reqs : pend[r] > 0 => st'[r] = st[r] /\ Contains(running', r)
PROOF
  <1>1. QueueOK
    BY DEF RInv
  <1>2. \A r : Serving(r)' <=> Serving(r)
    BY DEF Serving
  <1>3. QueueOK'
    <2>1. IsInjective(running') /\ IsInjective(waiting')
      BY <1>1 DEF QueueOK
    <2> QED
      BY <1>1, <1>2, <2>1 DEF QueueOK
  <1> QED
    BY <1>3, InPass

(* The record of form_batch.                                               *)
FormType == [todo : Programs, on : BOOLEAN, i : Nat, budget : 0 .. TokCap,
             seqs : 0 .. SeqCap, decoding : BOOLEAN, short : BOOLEAN]

(* A record with fields of the right types is one of form_batch.           *)
LEMMA FormIs ==
  ASSUME NEW l \in Programs, NEW o \in BOOLEAN, NEW i \in Nat, NEW b \in 0 .. TokCap,
         NEW s \in 0 .. SeqCap, NEW d \in BOOLEAN, NEW h \in BOOLEAN
  PROVE  [todo |-> l, on |-> o, i |-> i, budget |-> b, seqs |-> s, decoding |-> d, short |-> h]
           \in FormType
PROOF
  BY DEF FormType

(* ... and so is one whose fields are known one by one.                    *)
LEMMA FormWhole ==
  ASSUME NEW f, f = [todo |-> f.todo, on |-> f.on, i |-> f.i, budget |-> f.budget,
                     seqs |-> f.seqs, decoding |-> f.decoding, short |-> f.short],
         f.todo \in Programs, f.on \in BOOLEAN, f.i \in Nat, f.budget \in 0 .. TokCap,
         f.seqs \in 0 .. SeqCap, f.decoding \in BOOLEAN, f.short \in BOOLEAN
  PROVE  f \in FormType
PROOF
  <1> DEFINE l == f.todo
             o == f.on
             i == f.i
             b == f.budget
             s == f.seqs
             d == f.decoding
             h == f.short
  <1>1. /\ f = [todo |-> l, on |-> o, i |-> i, budget |-> b, seqs |-> s, decoding |-> d, short |-> h]
        /\ l \in Programs /\ o \in BOOLEAN /\ i \in Nat /\ b \in 0 .. TokCap
        /\ s \in 0 .. SeqCap /\ d \in BOOLEAN /\ h \in BOOLEAN
    BY Zenon
  <1> HIDE DEF l, o, i, b, s, d, h
  <1> QED
    BY <1>1, FormIs

(* form_batch from its top.                                                *)
LEMMA OpenedRight ==
  ASSUME NEW run, NEW state
  PROVE  /\ Opened(run, state) \in FormType
         /\ Opened(run, state).on = TRUE /\ Opened(run, state).i = 1
         /\ Opened(run, state).budget = TokCap /\ Opened(run, state).seqs = 0
         /\ Opened(run, state).short = FALSE
         /\ Opened(run, state).todo # <<>>
         /\ Head(Opened(run, state).todo) \in {"decode", "prefill"}
PROOF
  <1> DEFINE d == Decoding(run, state)
             l == IF Interval > 1 /\ d /\ since + 1 < Interval
                    THEN <<"decode", "fallback">>
                  ELSE IF Mix /\ ~ (Interval > 1 /\ d)
                    THEN <<"decode", "prefill", "admit">>
                  ELSE <<"prefill", "admit", "fallback">>
  <1>1. TokCap \in 0 .. TokCap /\ 0 \in 0 .. SeqCap
    BY CapsAssumption
  <1>2. l = <<"decode", "fallback">> \/ l = <<"decode", "prefill", "admit">> \/ l = <<"prefill", "admit", "fallback">>
    OBVIOUS
  <1>3. Opened(run, state)
          = [todo |-> l, on |-> TRUE, i |-> 1, budget |-> TokCap, seqs |-> 0,
             decoding |-> d, short |-> FALSE]
    BY DEF Opened
  <1>4. d \in BOOLEAN
    BY DEF Decoding
  <1> HIDE DEF d, l
  <1>5. l \in Programs
    BY <1>2 DEF Programs
  <1>6. l # <<>> /\ Head(l) \in {"decode", "prefill"}
    BY <1>2, TwoParts, ThreeParts
  <1>7. Opened(run, state) \in FormType
    BY <1>1, <1>3, <1>4, <1>5, FormIs, ZenonT(30)
  <1>8. /\ Opened(run, state).todo = l /\ Opened(run, state).on = TRUE /\ Opened(run, state).i = 1
        /\ Opened(run, state).budget = TokCap /\ Opened(run, state).seqs = 0
        /\ Opened(run, state).short = FALSE
    BY <1>3
  <1> QED
    BY <1>6, <1>7, <1>8

(* The record of a form_batch that does not run.                           *)
LEMMA OffRight ==
  /\ Off \in FormType
  /\ Off.on = FALSE /\ Off.short = FALSE
PROOF
  <1>1. 0 \in 0 .. TokCap /\ 0 \in 0 .. SeqCap
    BY CapsAssumption
  <1>2. <<>> \in Programs
    BY DEF Programs
  <1>3. Off \in FormType
    BY <1>1, <1>2, FormIs DEF Off
  <1> QED
    BY <1>3 DEF Off

(* A handler ends with no pass under way, or forms a new batch.            *)
LEMMA Started ==
  ASSUME batch' = <<>>, busy' = FALSE, op' = NoOp, \A r \in Reqs : pend'[r] = 0,
         running' \in Seq(Reqs), form' = Off \/ form' = Opened(running', st')
  PROVE  BatchOK' /\ LoopOK' /\ CallerOK' /\ ~ In("commit")'
PROOF
  <1>1. /\ form' \in FormType
        /\ form'.short = FALSE
        /\ form'.on => /\ form'.i = 1 /\ form'.budget = TokCap /\ form'.seqs = 0
                       /\ Head(form'.todo) \in {"decode", "prefill"}
    <2>1. CASE form' = Off
      BY <2>1, OffRight
    <2>2. CASE form' = Opened(running', st')
      BY <2>2, OpenedRight
    <2> QED
      BY <2>1, <2>2
  <1>2. ~ In("commit")' /\ ~ In("chunk")' /\ ~ In("admit")'
    BY <1>1 DEF In
  <1>3. BatchTokens' = 0 /\ DOMAIN batch' = {} /\ Len(batch') = 0
    BY BatchTokensIs, TokensInNone, EmptyQueue
  <1>4. BatchValid'
    BY <1>3, CapsAssumption DEF BatchValid
  <1>5. BatchOK'
    <2>1. batch' \in Seq([req : Reqs, tokens : Nat, prefill : BOOLEAN])
      BY EmptyQueue
    <2>2. form'.on => form'.seqs = Len(batch') /\ form'.budget + BatchTokens' = TokCap
      BY <1>1, <1>3, CapsAssumption
    <2>3. busy' \in BOOLEAN /\ ~ busy' /\ batch' = <<>>
      OBVIOUS
    <2> QED
      BY <1>2, <1>4, <2>1, <2>2, <2>3 DEF BatchOK
  <1>6. LoopOK'
    <2>1. \A k \in DOMAIN running' : running'[k] \in Reqs
      BY LenProperties, ElementOfSeq
    <2>2. \A k \in DOMAIN running' : ~ pend'[running'[k]] > 0
      BY <2>1
    <2>3. form'.on => form'.i > 0
      BY <1>1
    <2> QED
      BY <1>1, <1>2, <2>2, <2>3 DEF LoopOK, FormType
  <1>7. CallerOK'
    BY DEF CallerOK, NoOp, Idle
  <1> QED
    BY <1>2, <1>5, <1>6, <1>7

(* An event that lets a worker try to start a pass.                        *)
LEMMA Tried ==
  ASSUME RInv, ~ form.on, UNCHANGED <<batch, pend, busy, op>>, running' \in Seq(Reqs),
         \A r \in Reqs : pend[r] > 0 => st'[r] = st[r] /\ Contains(running', r),
         form' = IF busy' \/ blocked' THEN Off ELSE Opened(running', st')
  PROVE  BatchOK' /\ LoopOK' /\ CallerOK' /\ ~ In("commit")'
PROOF
  <1>1. op = NoOp /\ busy \in BOOLEAN
    BY DEF RInv, CallerOK, BatchOK, Idle
  <1>2. CASE ~ busy
    <2>1. batch = <<>>
      BY <1>2 DEF RInv, BatchOK
    <2>2. \A r \in Reqs : pend[r] = 0
      BY <2>1, NoBatch
    <2> QED
      BY <1>1, <1>2, <2>1, <2>2, Started
  <1>3. CASE busy
    <2>1. form' = Off /\ ~ form'.on
      BY <1>3, OffRight
    <2>2. ~ In("commit")' /\ ~ In("decode")' /\ ~ In("prefill")' /\ ~ In("chunk")'
      BY <2>1 DEF In
    <2>3. BatchValid'
      BY ValidStays
    <2>4. BatchOK'
      BY <1>3, <2>1, <2>2, <2>3 DEF RInv, BatchOK
    <2>5. LoopOK'
      BY <2>1, <2>2, OffRight DEF LoopOK, FormType
    <2>6. CallerOK'
      BY <1>1 DEF CallerOK, NoOp, Idle
    <2> QED
      BY <2>2, <2>4, <2>5, <2>6
  <1> QED
    BY <1>1, <1>2, <1>3

(* A loop of form_batch ends.                                              *)
LEMMA LoopEnds ==
  ASSUME RInv, form' = Ended(form, batch), form.on, form.todo # <<>>,
         Head(form.todo) \in {"decode", "prefill", "admit"},
         UNCHANGED <<running, waiting, batch, busy, st, pend>>, op' = NoOp
  PROVE  QueueOK' /\ BatchOK' /\ LoopOK' /\ CallerOK'
PROOF
  <1>1. /\ form'.i = 1 /\ form'.short = FALSE /\ form'.on = form.on
        /\ form'.budget = form.budget /\ form'.seqs = form.seqs
        /\ form'.decoding = form.decoding
        /\ form'.todo = NextProgram(batch)
        /\ form' = [todo |-> form'.todo, on |-> form'.on, i |-> form'.i, budget |-> form'.budget,
                    seqs |-> form'.seqs, decoding |-> form'.decoding, short |-> form'.short]
    BY RankTypes DEF Ended, NextProgram
  <1>2. form.todo \in Programs
    BY RankTypes
  <1>3. /\ form'.todo \in Programs
        /\ form'.todo # <<>> => Head(form'.todo) \in {"decode", "prefill", "admit"}
        /\ form'.todo # <<>> /\ Head(form'.todo) = "decode" => batch = <<>>
        /\ form'.todo # <<>> /\ Head(form'.todo) = "prefill" => Head(form.todo) = "decode"
    BY <1>1, <1>2, EndedProgram
  <1>4. ~ In("commit")' /\ ~ In("commit") /\ ~ In("chunk")'
    BY <1>3 DEF In
  <1>5. QueueOK' /\ \A r \in Reqs : pend[r] > 0 => st'[r] = st[r] /\ Contains(running', r)
    BY <1>4, QueuesStay
  <1>6. BatchOK'
    BY <1>1, <1>4, <1>5, BatchStays
  <1>7. LoopOK'
    <2>1. form' \in FormType
      <3>1. /\ form.on \in BOOLEAN /\ form.budget \in 0 .. TokCap /\ form.seqs \in 0 .. SeqCap
            /\ form.decoding \in BOOLEAN
        BY RankTypes
      <3>2. form'.todo \in Programs /\ form'.i \in Nat
        BY <1>1, <1>3
      <3>3. form'.on \in BOOLEAN
        BY <1>1, <3>1, Zenon
      <3>4. form'.decoding \in BOOLEAN
        BY <1>1, <3>1, Zenon
      <3>5. form'.short \in BOOLEAN
        BY <1>1
      <3>6. form'.budget \in 0 .. TokCap /\ form'.seqs \in 0 .. SeqCap
        BY <1>1, <3>1
      <3> QED
        BY <1>1, <3>2, <3>3, <3>4, <3>5, <3>6, FormWhole
    <2>2. ASSUME In("decode")', NEW k \in DOMAIN running
          PROVE  ~ pend[running[k]] > 0
      BY <1>3, <2>2, NoBatch, RankTypes DEF In
    <2>3. ASSUME In("prefill")', NEW k \in DOMAIN running, pend[running[k]] > 0
          PROVE  st[running[k]] = "decode"
      <3>1. In("decode")
        BY <1>3, <2>3 DEF In
      <3> QED
        BY <2>3, <3>1 DEF RInv, LoopOK
    <2>4. form'.i > 0
      BY <1>1
    <2> QED
      BY <1>1, <1>4, <2>1, <2>2, <2>3, <2>4 DEF LoopOK, FormType
  <1>8. CallerOK'
    BY DEF CallerOK, NoOp, Idle
  <1> QED
    BY <1>5, <1>6, <1>7, <1>8
(* The scheduler's part of the invariant.                                  *)
Sched == QueueOK /\ BatchOK /\ LoopOK /\ CallerOK

(* A loop moves on.                                                        *)
LEMMA FormMoves ==
  ASSUME RInv, NEW j \in Nat, NEW h \in BOOLEAN,
         \/ form' = [form EXCEPT !.i = j] /\ h = form.short
         \/ form' = [form EXCEPT !.short = h] /\ j = form.i
         \/ form' = [form EXCEPT !.short = h, !.i = j]
  PROVE  /\ form' \in FormType /\ form'.i = j /\ form'.short = h
         /\ form'.on = form.on /\ form'.todo = form.todo
         /\ form'.budget = form.budget /\ form'.seqs = form.seqs
         /\ \A l : In(l)' <=> In(l)
PROOF
  <1>1. /\ form.todo \in Programs /\ form.i \in Nat /\ form.budget \in 0 .. TokCap
        /\ form.seqs \in 0 .. SeqCap
    BY RankTypes
  <1>2. form.on \in BOOLEAN /\ form.decoding \in BOOLEAN
    BY RankTypes
  <1>3. form = [todo |-> form.todo, on |-> form.on, i |-> form.i, budget |-> form.budget,
                seqs |-> form.seqs, decoding |-> form.decoding, short |-> form.short]
    BY RankTypes
  <1> DEFINE l == form.todo
             o == form.on
             b == form.budget
             s == form.seqs
             d == form.decoding
  <1>4. form' = [todo |-> l, on |-> o, i |-> j, budget |-> b, seqs |-> s, decoding |-> d, short |-> h]
    BY <1>3
  <1>5. l \in Programs /\ b \in 0 .. TokCap /\ s \in 0 .. SeqCap /\ o \in BOOLEAN /\ d \in BOOLEAN
    BY <1>1, <1>2, Zenon
  <1>6. /\ form'.todo = l /\ form'.on = o /\ form'.i = j /\ form'.budget = b
        /\ form'.seqs = s /\ form'.short = h
    <2> HIDE DEF l, o, b, s, d
    <2> QED
      BY <1>4
  <1>7. form' \in FormType
    <2> HIDE DEF l, o, b, s, d
    <2> QED
      BY <1>4, <1>5, FormIs
  <1>8. form'.on = form.on /\ form'.todo = form.todo /\ form'.budget = form.budget /\ form'.seqs = form.seqs
    BY <1>6, Zenon DEF l, o, b, s
  <1>9. \A x : In(x)' <=> In(x)
    BY <1>8, Zenon DEF In
  <1> QED
    BY <1>6, <1>7, <1>8, <1>9

(* The loops only look at the requests they have not reached yet.          *)
LEMMA LoopMoves ==
  ASSUME RInv, form' \in FormType, form'.i >= form.i, form'.on = form.on, form'.todo = form.todo,
         UNCHANGED <<running, st, pend>>, ~ In("chunk"),
         form'.short => In("decode") /\ Idle'
  PROVE  LoopOK'
PROOF
  <1>1. \A x : In(x)' <=> In(x)
    BY Zenon DEF In
  <1>2. form'.on /\ ~ In("commit")' => form'.i > 0
    <2>1. form.on /\ ~ In("commit") => form.i > 0
      BY DEF RInv, LoopOK
    <2>2. form.i \in Nat /\ form'.i \in Nat
      BY RankTypes DEF FormType
    <2> QED
      BY <1>1, <2>1, <2>2
  <1>3. form.i \in Nat /\ form'.i \in Nat /\ DOMAIN running = 1 .. Len(running) /\ Len(running) \in Nat
    BY RankTypes DEF FormType
  <1>4. In("decode")' => \A k \in DOMAIN running' :
          pend'[running'[k]] > 0 => k < form'.i /\ st'[running'[k]] = "decode"
    <2>1. In("decode") => \A k \in DOMAIN running :
            pend[running[k]] > 0 => k < form.i /\ st[running[k]] = "decode"
      BY DEF RInv, LoopOK
    <2> QED
      BY <1>1, <1>3, <2>1
  <1>5. In("prefill")' => \A k \in DOMAIN running' :
          pend'[running'[k]] > 0 /\ st'[running'[k]] = "prefill" => k < form'.i
    <2>1. In("prefill") => \A k \in DOMAIN running :
            pend[running[k]] > 0 /\ st[running[k]] = "prefill" => k < form.i
      BY DEF RInv, LoopOK
    <2> QED
      BY <1>1, <1>3, <2>1
  <1>6. ~ In("chunk")'
    BY <1>1
  <1> QED
    BY <1>1, <1>2, <1>4, <1>5, <1>6 DEF LoopOK, FormType

(* One loop at a time.                                                     *)
LEMMA OneLoop ==
  /\ \A x, y : In(x) /\ In(y) => x = y
  /\ \A x : In(x) => form.on /\ form.todo # <<>> /\ Head(form.todo) = x
PROOF
  BY DEF In

(* A decode asks for its tokens.                                           *)
LEMMA StepDecodeGrow ==
  ASSUME RInv, DecodeGrow
  PROVE  Sched'
PROOF
  <1> DEFINE j == Min(Todo("decode"))
             r == running[j]
             tok == 1 + Nextn
  <1>1. /\ In("decode") /\ ~ form.short /\ Todo("decode") # {} /\ DecodeRoom
        /\ BeginGrow(r, tok) /\ form' = [form EXCEPT !.i = j] /\ UNCHANGED queues
    BY DEF DecodeGrow
  <1>2. ~ In("commit") /\ ~ In("chunk") /\ ~ In("admit") /\ ~ In("prefill")
    BY <1>1 DEF In
  <1>3. form.i \in Nat \ {0} /\ Len(running) \in Nat /\ DOMAIN running = 1 .. Len(running)
    <2>1. form.on /\ ~ In("commit") => form.i > 0
      BY DEF RInv, LoopOK
    <2> QED
      BY <1>1, <1>2, <2>1, RankTypes DEF In
  <1>4. j \in 1 .. Len(running) /\ j >= form.i /\ st[r] = "decode"
    BY <1>1, <1>3, TodoLeast
  <1>5. pend[r] > 0 => j < form.i
    BY <1>1, <1>3, <1>4 DEF RInv, LoopOK
  <1> HIDE DEF j
  <1>6. r \in Reqs /\ pend[r] = 0 /\ j \in Nat
    <2>1. r \in Reqs /\ j \in Nat
      BY <1>3, <1>4, RankTypes
    <2>2. pend[r] \in Nat /\ ~ pend[r] > 0
      BY <1>3, <1>4, <1>5, <2>1, CacheTypes, SMTT(30)
    <2> QED
      BY <2>1, <2>2
  <1>7. /\ op' = [kind |-> "grow", req |-> r, blocks |-> 0, tok |-> tok]
        /\ UNCHANGED <<st, pend, left, gen>>
    BY <1>1 DEF BeginGrow, Call, reqv, count
  <1>8. UNCHANGED <<running, waiting, batch, busy>>
    BY <1>1 DEF queues
  <1>9. /\ form' \in FormType /\ form'.i = j /\ form'.short = form.short
        /\ form'.on = form.on /\ form'.todo = form.todo
        /\ form'.budget = form.budget /\ form'.seqs = form.seqs
        /\ \A l : In(l)' <=> In(l)
    <2>1. form.short \in BOOLEAN
      BY RankTypes
    <2> QED
      BY <1>1, <1>6, <2>1, FormMoves
  <1>10. QueueOK' /\ BatchOK'
    BY <1>7, <1>8, <1>9, QueuesStay, BatchStays
  <1>11. LoopOK'
    BY <1>1, <1>2, <1>4, <1>7, <1>8, <1>9, LoopMoves
  <1>12. CallerOK'
    <2>1. op'.kind = "grow" /\ op'.req = r /\ op'.tok = tok
      BY <1>7
    <2>2. form.on
      BY <1>1 DEF In
    <2>3. tok <= form.budget /\ form.seqs < SeqCap
      BY <1>1, RankTypes, CacheTypes DEF DecodeRoom
    <2>4. form'.i \in DOMAIN running' /\ op'.req = running'[form'.i]
      BY <1>3, <1>4, <1>8, <1>9, <2>1
    <2>5. pend'[op'.req] = 0 /\ op'.tok <= form'.budget /\ form'.seqs < SeqCap
          /\ In("decode")' /\ st'[op'.req] = "decode"
      BY <1>1, <1>4, <1>6, <1>7, <1>9, <2>1, <2>3
    <2>6. form'.on
      BY <1>9, <2>2
    <2> QED
      BY <2>1, <2>4, <2>5, <2>6 DEF CallerOK, Idle
  <1> QED
    BY <1>10, <1>11, <1>12 DEF Sched
(* What a chunk is bounded by.                                             *)
LEMMA ChunkRight ==
  ASSUME RInv, NEW r \in Reqs, st[r] = "prefill", ~ Full
  PROVE  Chunk(r) \in Nat \ {0} /\ Chunk(r) <= left[r] /\ Chunk(r) <= ChunkTokens
         /\ Chunk(r) <= form.budget /\ form.seqs < SeqCap
PROOF
  <1> DEFINE a == left[r]
             b == ChunkTokens
             c == form.budget
  <1>1. a \in Nat \ {0} /\ b \in Nat \ {0} /\ c \in Nat \ {0}
    <2>1. left[r] \in Nat /\ left[r] > 0
      BY CacheTypes
    <2>2. ChunkTokens \in Nat \ {0}
      BY CacheTypes
    <2>3. form.budget \in Nat /\ form.budget # 0
      BY RankTypes DEF Full
    <2> QED
      BY <2>1, <2>2, <2>3
  <1>2. Chunk(r) = Min({a, b, c})
    BY DEF Chunk
  <1>3. form.seqs < SeqCap
    BY RankTypes DEF Full
  <1> HIDE DEF a, b, c
  <1>4. a \in Int /\ b \in Int /\ c \in Int
    BY <1>1
  <1>5. /\ Min({a, b, c}) \in {a, b, c}
        /\ Min({a, b, c}) <= a /\ Min({a, b, c}) <= b /\ Min({a, b, c}) <= c
    BY <1>4, ThreeNumbers
  <1>6. Chunk(r) \in Nat \ {0} /\ Chunk(r) <= a /\ Chunk(r) <= b /\ Chunk(r) <= c
    BY <1>1, <1>2, <1>5
  <1> QED
    BY <1>3, <1>6 DEF a, b, c

(* A prefill asks for its next chunk.                                      *)
LEMMA StepPrefillGrow ==
  ASSUME RInv, PrefillGrow
  PROVE  Sched'
PROOF
  <1> DEFINE j == Min(Todo("prefill"))
             r == running[j]
  <1>1. /\ In("prefill") /\ Todo("prefill") # {} /\ ~ Full
        /\ BeginGrow(r, Chunk(r)) /\ form' = [form EXCEPT !.i = j] /\ UNCHANGED queues
    BY DEF PrefillGrow
  <1>2. ~ In("commit") /\ ~ In("chunk") /\ ~ In("admit") /\ ~ In("decode")
    BY <1>1 DEF In
  <1>3. form.i \in Nat \ {0} /\ Len(running) \in Nat /\ DOMAIN running = 1 .. Len(running)
    <2>1. form.on /\ ~ In("commit") => form.i > 0
      BY DEF RInv, LoopOK
    <2> QED
      BY <1>1, <1>2, <2>1, RankTypes DEF In
  <1>4. j \in 1 .. Len(running) /\ j >= form.i /\ st[r] = "prefill"
    BY <1>1, <1>3, TodoLeast
  <1>5. pend[r] > 0 => j < form.i
    BY <1>1, <1>3, <1>4 DEF RInv, LoopOK
  <1> HIDE DEF j
  <1>6. r \in Reqs /\ pend[r] = 0 /\ j \in Nat
    <2>1. r \in Reqs /\ j \in Nat
      BY <1>3, <1>4, RankTypes
    <2>2. pend[r] \in Nat /\ ~ pend[r] > 0
      BY <1>3, <1>4, <1>5, <2>1, CacheTypes, SMTT(30)
    <2> QED
      BY <2>1, <2>2
  <1> DEFINE tok == Chunk(r)
  <1>7. /\ op' = [kind |-> "grow", req |-> r, blocks |-> 0, tok |-> tok]
        /\ UNCHANGED <<st, pend, left, gen>>
    BY <1>1 DEF BeginGrow, Call, reqv, count
  <1>8. UNCHANGED <<running, waiting, batch, busy>>
    BY <1>1 DEF queues
  <1>9. /\ form' \in FormType /\ form'.i = j /\ form'.short = form.short
        /\ form'.on = form.on /\ form'.todo = form.todo
        /\ form'.budget = form.budget /\ form'.seqs = form.seqs
        /\ \A l : In(l)' <=> In(l)
    <2>1. form.short \in BOOLEAN
      BY RankTypes
    <2> QED
      BY <1>1, <1>6, <2>1, FormMoves
  <1>10. QueueOK' /\ BatchOK'
    BY <1>7, <1>8, <1>9, QueuesStay, BatchStays
  <1>11. LoopOK'
    <2>1. ~ form.short
      BY <1>2 DEF RInv, LoopOK
    <2> QED
      BY <1>1, <1>2, <1>4, <1>7, <1>8, <1>9, <2>1, LoopMoves
  <1>12. CallerOK'
    <2>1. op'.kind = "grow" /\ op'.req = r /\ op'.tok = tok
      BY <1>7
    <2>2. form.on
      BY <1>1 DEF In
    <2>3. tok <= form.budget /\ form.seqs < SeqCap
      BY <1>1, <1>4, <1>6, ChunkRight
    <2>4. form'.i \in DOMAIN running' /\ op'.req = running'[form'.i]
      BY <1>3, <1>4, <1>8, <1>9, <2>1
    <2>5. pend'[op'.req] = 0 /\ op'.tok <= form'.budget /\ form'.seqs < SeqCap
          /\ In("prefill")' /\ st'[op'.req] = "prefill"
      BY <1>1, <1>4, <1>6, <1>7, <1>9, <2>1, <2>3
    <2>6. form'.on
      BY <1>9, <2>2
    <2> QED
      BY <2>1, <2>4, <2>5, <2>6 DEF CallerOK, Idle
  <1> QED
    BY <1>10, <1>11, <1>12 DEF Sched

(* The request just admitted asks for its first chunk.                     *)
LEMMA StepFirstChunk ==
  ASSUME RInv, FirstChunk
  PROVE  Sched'
PROOF
  <1> DEFINE r == running[form.i]
             tok == Chunk(r)
  <1>1. In("chunk") /\ BeginGrow(r, tok) /\ UNCHANGED <<queues, form>>
    BY DEF FirstChunk
  <1>2. ~ In("commit") /\ ~ In("decode") /\ ~ In("admit") /\ ~ In("prefill")
    BY <1>1 DEF In
  <1>3. /\ running # <<>> /\ form.i = Len(running) /\ ~ Full
        /\ st[r] = "prefill" /\ pend[r] = 0
        /\ used[0] + Chunk(r) <= Cap[0]
    BY <1>1 DEF RInv, LoopOK
  <1>4. form.i \in 1 .. Len(running) /\ DOMAIN running = 1 .. Len(running) /\ r \in Reqs
    BY <1>3, RankTypes, EmptySeq
  <1>5. /\ op' = [kind |-> "grow", req |-> r, blocks |-> 0, tok |-> tok] /\ stack' = <<>>
        /\ UNCHANGED <<st, pend, left, gen, used>>
    BY <1>1 DEF BeginGrow, Call, reqv, count
  <1>6. UNCHANGED <<running, waiting, batch, busy, form>>
    BY <1>1 DEF queues
  <1>7. \A l : In(l)' <=> In(l)
    BY <1>6 DEF In
  <1>8. QueueOK' /\ BatchOK'
    BY <1>5, <1>6, <1>7, QueuesStay, BatchStays
  <1>9. op'.kind = "grow" /\ op'.req = r /\ op'.tok = tok
    BY <1>5
  <1>10. Chunk(op.req)' = Chunk(r) /\ Chunk(running[form.i])' = Chunk(r)
    BY <1>5, <1>6, <1>9 DEF Chunk
  <1>11. tok <= form.budget /\ form.seqs < SeqCap
    BY <1>3, <1>4, ChunkRight
  <1> HIDE DEF tok
  <1>12. LoopOK'
    <2>1. LoopOK /\ ~ form.short
      BY <1>2 DEF RInv, LoopOK
    <2>2. Full' <=> Full
      BY <1>6 DEF Full
    <2>3. (used[0] + Chunk(running[form.i]) <= Cap[0])'
      BY <1>3, <1>5, <1>10
    <2> QED
      BY <1>1, <1>2, <1>3, <1>5, <1>6, <1>7, <1>9, <2>1, <2>2, <2>3 DEF LoopOK
  <1>13. CallerOK'
    <2>1. form'.on
      BY <1>1, <1>6 DEF In
    <2>2. form'.i \in DOMAIN running' /\ op'.req = running'[form'.i]
      BY <1>4, <1>6, <1>9
    <2>3. pend'[op'.req] = 0 /\ op'.tok <= form'.budget /\ form'.seqs < SeqCap
      BY <1>3, <1>5, <1>6, <1>9, <1>11
    <2>4. In("chunk")' /\ st'[op'.req] = "prefill" /\ (op.tok = Chunk(op.req))'
      BY <1>1, <1>3, <1>5, <1>7, <1>9, <1>10 DEF tok
    <2> QED
      BY <1>9, <2>1, <2>2, <2>3, <2>4 DEF CallerOK, Idle
  <1> QED
    BY <1>8, <1>12, <1>13 DEF Sched

(* No room: the next request is tried, or a younger decode makes room.     *)
LEMMA StepGrowFailed ==
  ASSUME RInv, DecodeGrowFailed \/ PrefillGrowFailed
  PROVE  Sched'
PROOF
  <1>1. /\ GrowFailed /\ UNCHANGED queues
        /\ \/ In("decode") /\ form' = [form EXCEPT !.short = TRUE]
           \/ In("prefill") /\ form' = [form EXCEPT !.i = @ + 1]
    BY DEF DecodeGrowFailed, PrefillGrowFailed
  <1>2. op' = NoOp /\ UNCHANGED <<st, pend>>
    BY <1>1 DEF GrowFailed, Return, reqv, count
  <1>3. UNCHANGED <<running, waiting, batch, busy>>
    BY <1>1 DEF queues
  <1>4. ~ Idle
    BY <1>1 DEF GrowFailed, Failed
  <1>5. ~ form.short /\ form.i \in Nat
    BY <1>4, RankTypes DEF RInv, LoopOK
  <1>6. /\ form' \in FormType /\ form'.i >= form.i
        /\ form'.on = form.on /\ form'.todo = form.todo
        /\ form'.budget = form.budget /\ form'.seqs = form.seqs
        /\ form'.short => In("decode")
        /\ \A l : In(l)' <=> In(l)
    <2>1. CASE In("decode") /\ form' = [form EXCEPT !.short = TRUE]
      <3> DEFINE i == form.i
      <3>1. i \in Nat /\ TRUE \in BOOLEAN
        BY <1>5
      <3>2. /\ form' \in FormType /\ form'.i = i
            /\ form'.on = form.on /\ form'.todo = form.todo
            /\ form'.budget = form.budget /\ form'.seqs = form.seqs
            /\ \A l : In(l)' <=> In(l)
        BY <2>1, <3>1, FormMoves
      <3> QED
        BY <2>1, <3>1, <3>2
    <2>2. CASE In("prefill") /\ form' = [form EXCEPT !.i = @ + 1]
      <3> DEFINE i == form.i + 1
                 h == form.short
      <3>1. i \in Nat /\ h \in BOOLEAN /\ form' = [form EXCEPT !.i = i]
        BY <1>5, <2>2, RankTypes
      <3>2. /\ form' \in FormType /\ form'.i = i /\ form'.short = h
            /\ form'.on = form.on /\ form'.todo = form.todo
            /\ form'.budget = form.budget /\ form'.seqs = form.seqs
            /\ \A l : In(l)' <=> In(l)
        <4> HIDE DEF i
        <4> QED
          BY <3>1, FormMoves
      <3> QED
        BY <1>5, <3>1, <3>2
    <2> QED
      BY <1>1, <2>1, <2>2
  <1>7. QueueOK' /\ BatchOK'
    BY <1>2, <1>3, <1>6, QueuesStay, BatchStays
  <1>8. Idle'
    BY <1>2 DEF Idle, NoOp
  <1>9. ~ In("chunk")
    BY <1>1 DEF In
  <1>10. LoopOK'
    BY <1>2, <1>3, <1>6, <1>8, <1>9, LoopMoves
  <1>11. CallerOK'
    BY <1>2, <1>8 DEF CallerOK, NoOp
  <1> QED
    BY <1>7, <1>10, <1>11 DEF Sched

(* A decode that found no room is left out.                                *)
LEMMA StepDecodeSkip ==
  ASSUME RInv, DecodeSkip
  PROVE  Sched'
PROOF
  <1> DEFINE i == form.i + 1
  <1>1. /\ In("decode") /\ form' = [form EXCEPT !.short = FALSE, !.i = i]
        /\ UNCHANGED <<vars, queues>>
    BY DEF DecodeSkip
  <1>2. UNCHANGED <<st, pend, op, running, waiting, batch, busy>>
    BY <1>1 DEF vars, reqv, count, queues
  <1>3. i \in Nat /\ FALSE \in BOOLEAN /\ form.i \in Nat /\ i >= form.i
    BY RankTypes
  <1> HIDE DEF i
  <1>4. /\ form' \in FormType /\ form'.i = i /\ form'.short = FALSE
        /\ form'.on = form.on /\ form'.todo = form.todo
        /\ form'.budget = form.budget /\ form'.seqs = form.seqs
        /\ \A l : In(l)' <=> In(l)
    BY <1>1, <1>3, FormMoves
  <1>5. QueueOK' /\ BatchOK'
    BY <1>2, <1>4, QueuesStay, BatchStays
  <1>6. ~ In("chunk") /\ ~ In("admit") /\ ~ In("prefill")
    BY <1>1 DEF In
  <1>7. LoopOK'
    BY <1>2, <1>3, <1>4, <1>6, LoopMoves
  <1>8. op = NoOp
    <2>1. Idle
      BY DEF DecodeSkip, RInv, LoopOK
    <2> QED
      BY <2>1 DEF RInv, CallerOK
  <1>9. CallerOK'
    BY <1>2, <1>8 DEF CallerOK, NoOp, Idle
  <1> QED
    BY <1>5, <1>7, <1>9 DEF Sched

(* The loops end.                                                          *)
LEMMA StepLoopEnds ==
  ASSUME RInv, DecodesEnd \/ PrefillsEnd \/ AdmissionsEnd \/ FrontBlocked
  PROVE  Sched'
PROOF
  <1>1. CASE DecodesEnd \/ PrefillsEnd \/ AdmissionsEnd
    <2>1. /\ In("decode") \/ In("prefill") \/ In("admit")
          /\ Idle /\ form' = Ended(form, batch) /\ UNCHANGED <<vars, queues>>
      BY <1>1 DEF DecodesEnd, PrefillsEnd, AdmissionsEnd
    <2>2. UNCHANGED <<st, pend, op, running, waiting, batch, busy>>
      BY <2>1 DEF vars, reqv, count, queues
    <2>3. op = NoOp
      BY <2>1 DEF RInv, CallerOK
    <2>4. form.on /\ form.todo # <<>> /\ Head(form.todo) \in {"decode", "prefill", "admit"}
      BY <2>1 DEF In
    <2> QED
      BY <2>1, <2>2, <2>3, <2>4, LoopEnds DEF Sched
  <1>2. CASE FrontBlocked
    <2>1. (LoadBlocked \/ AdmitBlocked) /\ form' = Ended(form, batch) /\ UNCHANGED queues
      BY <1>2 DEF FrontBlocked
    <2>2. op' = NoOp /\ UNCHANGED <<st, pend>> /\ op.kind \in {"load", "admit"}
      BY <2>1 DEF LoadBlocked, AdmitBlocked, Return, count
    <2>3. UNCHANGED <<running, waiting, batch, busy>>
      BY <2>1 DEF queues
    <2>4. In("admit")
      BY <2>2 DEF RInv, CallerOK
    <2>5. form.on /\ form.todo # <<>> /\ Head(form.todo) \in {"decode", "prefill", "admit"}
      BY <2>4 DEF In
    <2> QED
      BY <2>1, <2>2, <2>3, <2>5, LoopEnds DEF Sched
  <1> QED
    BY <1>1, <1>2
(* The handler keeps waiting while room is made for it.                    *)
LEMMA CallerStays ==
  ASSUME RInv, UNCHANGED <<op, form, running, waiting, st, pend, left, gen>>
  PROVE  CallerOK'
PROOF
  <1>1. CallerOK
    BY DEF RInv
  <1>2. \A l : In(l)' <=> In(l)
    BY DEF In
  <1>3. (Full' <=> Full) /\ (Idle' <=> Idle)
    BY DEF Full, Idle
  <1>4. Demand(op.req, op.blocks)' = Demand(op.req, op.blocks)
    BY DEF Demand, OutputKv
  <1>5. Chunk(op.req)' = Chunk(op.req)
    BY DEF Chunk
  <1>6. op.kind \in {"load", "admit"} =>
          In("admit") /\ waiting # <<>> /\ op.req = Head(waiting) /\ ~ Full
    BY <1>1 DEF CallerOK
  <1>7. op.kind = "admit" =>
          op.tok = Min({Min({ChunkTokens, form.budget}), Demand(op.req, op.blocks)})
    BY <1>1 DEF CallerOK
  <1>8. op.kind = "grow" =>
          /\ form.i \in DOMAIN running /\ op.req = running[form.i]
          /\ pend[op.req] = 0 /\ op.tok <= form.budget /\ form.seqs < SeqCap
          /\ \/ In("decode") /\ st[op.req] = "decode"
             \/ In("prefill") /\ st[op.req] = "prefill"
             \/ In("chunk") /\ st[op.req] = "prefill" /\ op.tok = Chunk(op.req)
    BY <1>1 DEF CallerOK
  <1>9. (~ Idle => form.on) /\ (Idle => op = NoOp)
    BY <1>1 DEF CallerOK
  <1>10. (op.kind \in {"load", "admit"} =>
           In("admit") /\ waiting # <<>> /\ op.req = Head(waiting) /\ ~ Full)'
    BY <1>2, <1>3, <1>6
  <1>11. (op.kind = "admit" =>
           op.tok = Min({Min({ChunkTokens, form.budget}), Demand(op.req, op.blocks)}))'
    BY <1>4, <1>7
  <1>12. (op.kind = "grow" =>
           /\ form.i \in DOMAIN running /\ op.req = running[form.i]
           /\ pend[op.req] = 0 /\ op.tok <= form.budget /\ form.seqs < SeqCap
           /\ \/ In("decode") /\ st[op.req] = "decode"
              \/ In("prefill") /\ st[op.req] = "prefill"
              \/ In("chunk") /\ st[op.req] = "prefill" /\ op.tok = Chunk(op.req))'
    BY <1>2, <1>5, <1>8
  <1>13. ((~ Idle => form.on) /\ (Idle => op = NoOp))'
    BY <1>3, <1>9 DEF NoOp
  <1> QED
    BY <1>10, <1>11, <1>12, <1>13 DEF CallerOK

(* No room has to be made for a first chunk.                               *)
LEMMA NoEviction ==
  ASSUME RInv, In("chunk"), Evict
  PROVE  FALSE
PROOF
  <1>1. /\ form.i = Len(running) /\ running # <<>>
        /\ op.kind \in {"none", "grow"} /\ stack = <<>>
        /\ used[0] + Chunk(running[form.i]) <= Cap[0]
    BY DEF RInv, LoopOK
  <1>2. ~ Idle
    BY DEF Evict, EvictDown, EvictLast, Offload, Drop, Enough, Failed
  <1>3. op.kind = "grow"
    BY <1>1, <1>2 DEF Idle
  <1>4. op.req = running[form.i] /\ op.tok = Chunk(op.req)
    <2>1. ~ In("decode") /\ ~ In("prefill")
      BY DEF In
    <2> QED
      BY <1>3, <2>1 DEF RInv, CallerOK
  <1>5. Depth = 0
    BY <1>1, EmptyQueue DEF Depth
  <1>6. Cap[0] \in Nat /\ used[0] \in Int /\ op.tok \in Int
    BY HbmTier, PoolAssumption, CacheTypes
  <1>7. ~ Short
    BY <1>1, <1>4, <1>5, <1>6 DEF Short, Demanded
  <1> QED
    BY <1>5, <1>7 DEF Evict, EvictDown, EvictLast, Offload, Drop

(* Room is made for the request that waits.                                *)
LEMMA StepEvict ==
  ASSUME RInv, Evict
  PROVE  Sched'
PROOF
  <1>1. UNCHANGED <<st, pend, left, gen, op>>
    BY DEF Evict, Offload, Drop, EvictDown, EvictLast, reqv, count
  <1>2. UNCHANGED <<running, waiting, batch, busy, form>>
    BY DEF Evict
  <1>3. ~ In("chunk")
    BY NoEviction
  <1>4. ~ Idle
    BY DEF Evict, EvictDown, EvictLast, Offload, Drop, Enough, Failed
  <1>5. ~ form.short
    BY <1>4 DEF RInv, LoopOK
  <1>6. In("commit")' <=> In("commit")
    BY <1>2 DEF In
  <1>7. QueueOK' /\ BatchOK'
    BY <1>1, <1>2, <1>6, QueuesStay, BatchStays
  <1>8. form \in FormType /\ form.i <= form.i
    BY RankTypes DEF FormType
  <1>9. LoopOK'
    BY <1>1, <1>2, <1>3, <1>5, <1>8, LoopMoves
  <1>10. CallerOK'
    BY <1>1, <1>2, CallerStays
  <1> QED
    BY <1>7, <1>9, <1>10 DEF Sched

(* A node expires.                                                         *)
LEMMA StepLapse ==
  ASSUME RInv, Lapse
  PROVE  Sched'
PROOF
  <1>1. UNCHANGED <<st, pend, left, gen, op>>
    BY DEF Lapse, Expire, reqv, count
  <1>2. UNCHANGED <<running, waiting, batch, busy, form>>
    BY DEF Lapse, queues
  <1>3. ~ In("chunk") /\ ~ In("decode")
    BY DEF Lapse, In
  <1>4. ~ form.short
    BY <1>3 DEF RInv, LoopOK
  <1>5. In("commit")' <=> In("commit")
    BY <1>2 DEF In
  <1>6. QueueOK' /\ BatchOK'
    BY <1>1, <1>2, <1>5, QueuesStay, BatchStays
  <1>7. form \in FormType /\ form.i <= form.i
    BY RankTypes DEF FormType
  <1>8. LoopOK'
    BY <1>1, <1>2, <1>3, <1>4, <1>7, LoopMoves
  <1>9. CallerOK'
    BY <1>1, <1>2, CallerStays
  <1> QED
    BY <1>6, <1>8, <1>9 DEF Sched

(* A step that changes nothing.                                            *)
LEMMA StepNothing ==
  ASSUME RInv, UNCHANGED rankvars
  PROVE  Sched'
PROOF
  <1>1. UNCHANGED <<st, pend, left, gen, op, used, stack>>
    BY DEF rankvars, vars, reqv, count
  <1>2. UNCHANGED <<running, waiting, batch, busy, form>>
    BY DEF rankvars, queues
  <1>3. \A l : In(l)' <=> In(l)
    BY <1>2 DEF In
  <1>4. QueueOK' /\ BatchOK'
    BY <1>1, <1>2, <1>3, QueuesStay, BatchStays
  <1>5. LoopOK'
    <2>1. LoopOK
      BY DEF RInv
    <2>2. Chunk(running[form.i])' = Chunk(running[form.i])
      BY <1>1, <1>2 DEF Chunk
    <2>3. (Full' <=> Full) /\ (Idle' <=> Idle)
      BY <1>1, <1>2 DEF Full, Idle
    <2> QED
      BY <1>1, <1>2, <1>3, <2>1, <2>2, <2>3 DEF LoopOK
  <1>6. CallerOK'
    BY <1>1, <1>2, CallerStays
  <1> QED
    BY <1>4, <1>5, <1>6 DEF Sched

(* A request gets its tokens and joins the batch.                          *)
LEMMA StepBatched ==
  ASSUME RInv, Batched
  PROVE  Sched'
PROOF
  <1> DEFINE r == op.req
             n == op.tok
             e == [req |-> r, tokens |-> n, prefill |-> st[r] = "prefill"]
  <1>1. /\ GrowOk /\ batch' = Append(batch, e)
        /\ UNCHANGED <<running, waiting, busy, since, blocked>>
    BY DEF Batched
  <1>2. op.kind = "grow" /\ ~ Idle
    BY <1>1 DEF GrowOk, Idle
  <1>3. op' = NoOp /\ pend' = [pend EXCEPT ![r] = n] /\ UNCHANGED <<st, left, gen>>
    BY <1>1 DEF GrowOk, Return
  <1>4. /\ form.i \in DOMAIN running /\ r = running[form.i]
        /\ pend[r] = 0 /\ n <= form.budget /\ form.seqs < SeqCap
        /\ \/ In("decode") /\ st[r] = "decode"
           \/ In("prefill") /\ st[r] = "prefill"
           \/ In("chunk") /\ st[r] = "prefill"
    BY <1>2 DEF RInv, CallerOK
  <1>5. /\ r \in Reqs /\ n \in Nat \ {0} /\ e \in [req : Reqs, tokens : Nat, prefill : BOOLEAN]
        /\ e.req = r /\ e.tokens = n /\ (e.prefill <=> st[r] = "prefill")
    <2>1. r \in Reqs /\ n \in Nat \ {0}
      BY <1>2, CacheTypes
    <2> HIDE DEF r, n
    <2> QED
      BY <2>1
  <1> HIDE DEF r, n
  <1>6. /\ pend'[r] = n /\ \A x \in Reqs : x # r => pend'[x] = pend[x]
        /\ \A x \in Reqs : pend[x] \in Nat
    BY <1>3, <1>5, CacheTypes
  <1>7. form.on /\ form.todo # <<>> /\ Head(form.todo) \in {"decode", "prefill", "chunk"}
        /\ ~ In("commit")
    BY <1>4 DEF In
  <1> DEFINE more == IF Head(form.todo) = "chunk" THEN Tail(form.todo) ELSE form.todo
             left0 == form.budget - n
             seqs0 == form.seqs + 1
             i0 == form.i + 1
             on0 == form.on
             d0 == form.decoding
             h0 == form.short
  <1>8. /\ form.todo \in Programs /\ form.i \in Nat /\ form.budget \in 0 .. TokCap
        /\ form.seqs \in 0 .. SeqCap /\ SeqCap \in Nat /\ TokCap \in Nat
    BY RankTypes, CapsAssumption
  <1>9. more \in Programs /\ (Head(form.todo) = "chunk" => more # <<>> /\ Head(more) = "admit")
    BY <1>7, <1>8, ProgramParts
  <1>10. left0 \in 0 .. TokCap /\ seqs0 \in 0 .. SeqCap /\ i0 \in Nat /\ i0 = form.i + 1
    BY <1>4, <1>5, <1>8
  <1>11. on0 \in BOOLEAN /\ d0 \in BOOLEAN /\ h0 \in BOOLEAN
    BY RankTypes
  <1>12. form' = [todo |-> more, on |-> on0, i |-> i0, budget |-> left0, seqs |-> seqs0,
                  decoding |-> d0, short |-> h0]
    <2>1. form = [todo |-> form.todo, on |-> form.on, i |-> form.i, budget |-> form.budget,
                  seqs |-> form.seqs, decoding |-> form.decoding, short |-> form.short]
      BY RankTypes
    <2> QED
      BY <2>1 DEF Batched, n
  <1>13. form' \in FormType
    <2> HIDE DEF more, left0, seqs0, i0, on0, d0, h0
    <2> QED
      BY <1>9, <1>10, <1>11, <1>12, FormIs
  <1>14. /\ form'.todo = more /\ form'.i = i0 /\ form'.budget = left0 /\ form'.seqs = seqs0
         /\ form'.on = on0 /\ form'.short = h0
    <2> HIDE DEF more, left0, seqs0, i0, on0, d0, h0
    <2> QED
      BY <1>12
  <1>15. form'.on /\ ~ form'.short
    <2>1. ~ h0
      BY <1>2 DEF RInv, LoopOK
    <2> HIDE DEF more, left0, seqs0, i0
    <2> QED
      BY <1>7, <1>14, <2>1
  <1>16. /\ ~ In("commit")' /\ ~ In("chunk")'
         /\ In("decode")' => In("decode")
         /\ In("prefill")' => In("prefill")
    <2>1. form'.todo # <<>> /\ (Head(form.todo) = "chunk" => Head(form'.todo) = "admit")
          /\ (Head(form.todo) # "chunk" => form'.todo = form.todo)
      BY <1>7, <1>9, <1>14
    <2> HIDE DEF more
    <2> QED
      BY <1>7, <2>1 DEF In
  <1> HIDE DEF more, on0, d0, h0
  <1>17. QueueOK'
    BY <1>1, <1>3, <1>7, <1>16, QueuesStay
  <1>18. DOMAIN running = 1 .. Len(running) /\ \A k \in 1 .. Len(running) : running[k] \in Reqs
    BY RankTypes
  <1>19. BatchOK'
    <2> HIDE DEF e
    <2>1. /\ batch \in Tickets /\ DOMAIN batch = 1 .. Len(batch) /\ Len(batch) \in Nat
          /\ \A k \in 1 .. Len(batch) : batch[k].req \in Reqs
      BY RankTypes
    <2>2. /\ batch' \in Tickets /\ Len(batch') = Len(batch) + 1 /\ batch'[Len(batch) + 1] = e
          /\ DOMAIN batch' = 1 .. Len(batch) + 1
          /\ \A i \in 1 .. Len(batch) : batch'[i] = batch[i]
      BY <1>1, <1>5, <2>1, PushBack DEF Tickets
    <2>3. \A i \in 1 .. Len(batch) : batch[i].req # r
      BY <1>4, InPass
    <2>4. \A i \in 1 .. Len(batch) + 1 : i \in 1 .. Len(batch) \/ i = Len(batch) + 1
      BY <2>1
    <2>5. \A i, j \in DOMAIN batch' : batch'[i].req = batch'[j].req => i = j
      BY <1>5, <2>1, <2>2, <2>3, <2>4, InPass
    <2>6. ASSUME NEW i \in DOMAIN batch'
          PROVE  /\ pend'[batch'[i].req] = batch'[i].tokens /\ batch'[i].tokens > 0
                 /\ Contains(running', batch'[i].req)
                 /\ st'[batch'[i].req] = (IF batch'[i].prefill THEN "prefill" ELSE "decode")
      <3>1. CASE i \in 1 .. Len(batch)
        <4>1. batch[i].req \in Reqs /\ batch[i].req # r /\ batch'[i] = batch[i]
          BY <2>1, <2>2, <2>3, <3>1
        <4>2. /\ pend[batch[i].req] = batch[i].tokens /\ pend[batch[i].req] > 0
              /\ st[batch[i].req] = (IF batch[i].prefill THEN "prefill" ELSE "decode")
              /\ Contains(running, batch[i].req)
          BY <3>1, <4>1, InPass
        <4>3. pend'[batch[i].req] = pend[batch[i].req]
          BY <1>6, <4>1
        <4> QED
          BY <1>1, <1>3, <4>1, <4>2, <4>3
      <3>2. CASE i = Len(batch) + 1
        <4>1. Contains(running, r)
          BY <1>4, <1>18 DEF Contains
        <4>2. pend'[r] = n /\ n > 0
          BY <1>5, <1>6
        <4>3. st[r] = (IF e.prefill THEN "prefill" ELSE "decode")
          BY <1>4, <1>5
        <4> QED
          BY <1>1, <1>3, <1>5, <2>2, <3>2, <4>1, <4>2, <4>3
      <3> QED
        BY <2>2, <2>4, <3>1, <3>2
    <2>7. form.seqs = Len(batch) /\ form.budget + BatchTokens = TokCap
      BY <1>7 DEF RInv, BatchOK
    <2>8. BatchTokens' = BatchTokens + n /\ BatchTokens \in Int
      BY <1>1, <1>5, <2>1, BatchTokensIs, TokensInAppend, TokensInSum
    <2>9. Len(batch') <= SeqCap /\ BatchTokens' <= TokCap
      <3>1. Len(batch') = seqs0
        BY <2>2, <2>7
      <3>2. left0 + BatchTokens' = TokCap
        BY <1>5, <1>8, <2>7, <2>8
      <3> HIDE DEF left0, seqs0
      <3> QED
        BY <1>8, <1>10, <2>8, <3>1, <3>2
    <2>10. ASSUME NEW x \in Reqs, pend'[x] > 0
           PROVE  \E i \in DOMAIN batch' : batch'[i].req = x
      <3>1. CASE x = r
        BY <1>5, <2>1, <2>2, <3>1
      <3>2. CASE x # r
        <4>1. pend[x] > 0
          BY <1>6, <2>10, <3>2
        <4>2. PICK i \in 1 .. Len(batch) : batch[i].req = x
          BY <4>1, InPass
        <4> QED
          BY <2>1, <2>2, <4>2
      <3> QED
        BY <3>1, <3>2
    <2>11. BatchValid'
      BY <2>5, <2>6, <2>9, <2>10 DEF BatchValid
    <2>12. batch' # <<>>
      BY <2>1, <2>2, EmptyQueue
    <2>13. form'.seqs = Len(batch') /\ form'.budget + BatchTokens' = TokCap
      BY <1>5, <1>8, <1>14, <2>1, <2>2, <2>7, <2>8
    <2>14. busy' \in BOOLEAN
      BY <1>1 DEF RInv, BatchOK
    <2> QED
      BY <1>15, <1>16, <2>2, <2>11, <2>12, <2>13, <2>14 DEF BatchOK, Tickets
  <1>20. LoopOK'
    <2>1. form'.i > 0
      BY <1>8, <1>10, <1>14
    <2>2. IsInjective(running)
      BY Queued2
    <2>3. \A k \in DOMAIN running : k # form.i => running[k] \in Reqs /\ running[k] # r
      BY <1>4, <1>18, <2>2 DEF IsInjective
    <2>4. \A k \in DOMAIN running : k # form.i => pend'[running[k]] = pend[running[k]]
      BY <1>6, <2>3
    <2>5. \A k \in DOMAIN running : (k < form.i \/ k = form.i) => k < i0
      BY <1>8, <1>18
    <2>6. In("decode")' => \A k \in DOMAIN running :
            pend'[running[k]] > 0 => k < i0 /\ st[running[k]] = "decode"
      <3>1. In("decode") => \A k \in DOMAIN running :
              pend[running[k]] > 0 => k < form.i /\ st[running[k]] = "decode"
        BY DEF RInv, LoopOK
      <3>2. In("decode") => st[r] = "decode"
        BY <1>4 DEF In
      <3> QED
        BY <1>4, <1>16, <2>4, <2>5, <3>1, <3>2
    <2>7. In("prefill")' => \A k \in DOMAIN running :
            pend'[running[k]] > 0 /\ st[running[k]] = "prefill" => k < i0
      <3>1. In("prefill") => \A k \in DOMAIN running :
              pend[running[k]] > 0 /\ st[running[k]] = "prefill" => k < form.i
        BY DEF RInv, LoopOK
      <3> QED
        BY <1>16, <2>4, <2>5, <3>1
    <2> HIDE DEF i0, left0, seqs0
    <2> QED
      BY <1>1, <1>3, <1>13, <1>14, <1>15, <1>16, <2>1, <2>6, <2>7 DEF LoopOK, FormType
  <1>21. CallerOK'
    BY <1>3 DEF CallerOK, NoOp, Idle
  <1> QED
    BY <1>17, <1>19, <1>20, <1>21 DEF Sched
(* The front of the queue is looked at.                                    *)
LEMMA StepAdmitFront ==
  ASSUME RInv, AdmitFront
  PROVE  Sched'
PROOF
  <1> DEFINE r == Head(waiting)
             chunk == Min({ChunkTokens, form.budget})
  <1>1. In("admit") /\ waiting # <<>> /\ ~ Full /\ UNCHANGED <<queues, form>>
    BY DEF AdmitFront
  <1>2. PICK h \in Hits(r) :
          BeginLoad(r, h) \/ PinWhole(r, h, chunk) \/ (Free # {} /\ PinSplit(r, h, FirstFree({}), chunk))
    BY DEF AdmitFront
  <1>3. UNCHANGED <<st, pend, left, gen>>
    BY <1>2 DEF BeginLoad, PinWhole, PinSplit, count
  <1>4. /\ op'.req = r /\ op'.kind \in {"load", "admit"}
        /\ op'.kind = "admit" => op'.tok = Min({chunk, Demand(r, op'.blocks)})
    <2> DEFINE b == h.blocks
               t == TokensOf(LowerChain(h.node))
               q == r
               d == Demand(r, b)
               m == Min({chunk, d})
    <2>1. \/ op' = [kind |-> "load", req |-> q, blocks |-> b, tok |-> t]
          \/ op' = [kind |-> "admit", req |-> q, blocks |-> b, tok |-> m]
      BY <1>2 DEF BeginLoad, PinWhole, PinSplit, Call
    <2> HIDE DEF b, t, q, m
    <2>2. /\ op'.req = q /\ op'.kind \in {"load", "admit"}
          /\ op'.kind = "admit" => op'.tok = m /\ op'.blocks = b
      BY <2>1
    <2> QED
      BY <2>2 DEF q, m
  <1> HIDE DEF chunk
  <1>5. UNCHANGED <<running, waiting, batch, busy, form>>
    BY <1>1 DEF queues
  <1>6. \A l : In(l)' <=> In(l)
    BY <1>5 DEF In
  <1>7. QueueOK' /\ BatchOK'
    BY <1>3, <1>5, <1>6, QueuesStay, BatchStays
  <1>8. ~ In("chunk") /\ ~ In("decode")
    BY <1>1 DEF In
  <1>9. LoopOK'
    <2>1. form \in FormType /\ form.i <= form.i
      BY RankTypes DEF FormType
    <2>2. ~ form.short
      BY <1>8 DEF RInv, LoopOK
    <2> QED
      BY <1>3, <1>5, <1>8, <2>1, <2>2, LoopMoves
  <1>10. CallerOK'
    <2>1. Demand(op.req, op.blocks)' = Demand(r, op'.blocks)
      BY <1>3, <1>4 DEF Demand, OutputKv
    <2>2. (op.kind = "admit" =>
             op.tok = Min({Min({ChunkTokens, form.budget}), Demand(op.req, op.blocks)}))'
      BY <1>4, <1>5, <2>1 DEF chunk
    <2>3. op'.kind # "grow" /\ op'.kind # "none"
      BY <1>4
    <2>4. (In("admit") /\ waiting # <<>> /\ op.req = Head(waiting) /\ ~ Full)'
      BY <1>1, <1>4, <1>5, <1>6 DEF Full
    <2>5. form'.on
      BY <1>1, <1>5 DEF In
    <2> QED
      BY <2>2, <2>3, <2>4, <2>5 DEF CallerOK, Idle
  <1> QED
    BY <1>7, <1>9, <1>10 DEF Sched

(* The front leaves the queue, rejected or to load its prefix.             *)
LEMMA StepFrontGone ==
  ASSUME RInv, RejectFront \/ FrontLoading
  PROVE  Sched'
PROOF
  <1> DEFINE r == Head(waiting)
  <1>1. /\ In("admit") /\ waiting # <<>> /\ ~ Full /\ waiting' = Tail(waiting)
        /\ UNCHANGED <<running, busy, batch, form, pend>>
        /\ op' = NoOp
        /\ st[r] = "queued"
        /\ \/ st' = [st EXCEPT ![r] = "done"]
           \/ st' = [st EXCEPT ![r] = "loading"]
    <2>1. CASE RejectFront
      <3>1. Idle => op = NoOp
        BY DEF RInv, CallerOK
      <3> QED
        BY <2>1, <3>1 DEF RejectFront, Reject, Queued, count
    <2>2. CASE FrontLoading
      <3>1. op.kind = "load"
        BY <2>2 DEF FrontLoading, LoadStart
      <3>2. In("admit") /\ waiting # <<>> /\ op.req = r /\ ~ Full
        BY <3>1 DEF RInv, CallerOK
      <3>3. st[r] = "queued"
        BY <3>1, <3>2, CacheTypes
      <3>4. op' = NoOp /\ st' = [st EXCEPT ![r] = "loading"] /\ UNCHANGED pend
        BY <2>2, <3>2 DEF FrontLoading, LoadStart, Return, count
      <3> QED
        BY <2>2, <3>2, <3>3, <3>4 DEF FrontLoading
    <2> QED
      BY <2>1, <2>2
  <1>2. waiting \in Seq(Reqs) /\ running \in Seq(Reqs)
    BY RankTypes
  <1>3. /\ waiting' \in Seq(Reqs) /\ r \in Reqs /\ IsInjective(waiting')
        /\ \A y : Contains(waiting', y) <=> y # r /\ Contains(waiting, y)
    BY <1>1, <1>2, Queued2, PopFront
  <1>4. \A l : In(l)' <=> In(l)
    BY <1>1 DEF In
  <1>5. ~ In("commit") /\ ~ In("chunk") /\ ~ In("decode") /\ ~ In("prefill")
    BY <1>1 DEF In
  <1>6. /\ \A x \in Reqs : x # r => st'[x] = st[x]
        /\ st'[r] \in {"done", "loading"}
    BY <1>1, <1>3, CacheTypes
  <1> HIDE DEF r
  <1>7. QueueOK'
    <2>1. \A y \in Reqs : Contains(running', y) => st'[y] \in {"prefill", "decode"}
      <3>1. \A y \in Reqs : Contains(running, y) => st[y] \in {"prefill", "decode"}
        BY <1>5, Queued2 DEF Serving
      <3> QED
        BY <1>1, <1>6, <3>1
    <2>2. \A y \in Reqs : Contains(waiting', y) => st'[y] = "queued"
      BY <1>3, <1>6, Queued2
    <2>3. \A y \in Reqs : st'[y] \in {"prefill", "decode"} => Contains(running', y)
      BY <1>1, <1>6, Queued2 DEF Serving
    <2> QED
      BY <1>1, <1>2, <1>3, <2>1, <2>2, <2>3, Queued2, QueuesNow
  <1>8. BatchOK'
    <2>1. \A x \in Reqs : pend[x] > 0 => st'[x] = st[x] /\ Contains(running', x)
      <3>1. \A x \in Reqs : pend[x] > 0 => x # r
        BY <1>1, <1>3, InPass DEF Serving
      <3> QED
        BY <1>1, <1>6, <3>1, InPass
    <2> QED
      BY <1>1, <1>4, <2>1, BatchStays
  <1>9. LoopOK'
    <2>1. form \in FormType
      BY RankTypes DEF FormType
    <2>2. ~ form.short
      BY <1>5 DEF RInv, LoopOK
    <2>3. form.on /\ ~ In("commit") => form.i > 0
      BY DEF RInv, LoopOK
    <2> QED
      BY <1>1, <1>4, <1>5, <2>1, <2>2, <2>3 DEF LoopOK, FormType
  <1>10. CallerOK'
    BY <1>1 DEF CallerOK, NoOp, Idle
  <1> QED
    BY <1>7, <1>8, <1>9, <1>10 DEF Sched

(* A first chunk takes no more than what admission made room for.          *)
LEMMA SameMin ==
  ASSUME NEW a \in Int, NEW b \in Int, NEW c \in Int
  PROVE  Min({c, a, b}) = Min({Min({a, b}), c})
PROOF
  <1> DEFINE m == Min({a, b})
  <1>1. m \in {a, b} /\ m <= a /\ m <= b
    BY TwoNumbers
  <1>2. m \in Int
    BY <1>1
  <1> HIDE DEF m
  <1>3. Min({m, c}) \in {m, c} /\ Min({m, c}) <= m /\ Min({m, c}) <= c
    BY <1>2, TwoNumbers
  <1>4. /\ Min({c, a, b}) \in {c, a, b}
        /\ Min({c, a, b}) <= c /\ Min({c, a, b}) <= a /\ Min({c, a, b}) <= b
    BY ThreeNumbers
  <1>5. Min({c, a, b}) = Min({m, c})
    BY <1>1, <1>2, <1>3, <1>4
  <1> QED
    BY <1>5 DEF m

(* The request in front of waiting moves to running, and is due its first  *)
(* chunk.                                                                  *)
LEMMA StepFrontAdmitted ==
  ASSUME RInv, FrontAdmitted
  PROVE  Sched'
PROOF
  <1> DEFINE r == Head(waiting)
             n == Len(running)
             d == Demand(r, op.blocks)
  <1>1. /\ AdmitOk /\ waiting' = Tail(waiting) /\ running' = Append(running, r)
        /\ UNCHANGED <<busy, batch, since, blocked>>
    BY DEF FrontAdmitted
  <1>2. op.kind = "admit"
    BY <1>1 DEF AdmitOk
  <1>3. In("admit") /\ waiting # <<>> /\ op.req = r /\ ~ Full
    BY <1>2 DEF RInv, CallerOK
  <1>4. op.tok = Min({Min({ChunkTokens, form.budget}), d})
    BY <1>2, <1>3 DEF RInv, CallerOK
  <1>5. op' = NoOp /\ stack' = <<>> /\ st' = [st EXCEPT ![r] = "prefill"]
        /\ left' = [left EXCEPT ![r] = d] /\ UNCHANGED <<pend, gen, used>>
    BY <1>1, <1>3 DEF AdmitOk, Return
  <1>6. running \in Seq(Reqs) /\ waiting \in Seq(Reqs) /\ n \in Nat /\ DOMAIN running = 1 .. n
    BY RankTypes
  <1>7. /\ waiting' \in Seq(Reqs) /\ r \in Reqs /\ IsInjective(waiting')
        /\ \A y : Contains(waiting', y) <=> y # r /\ Contains(waiting, y)
        /\ Contains(waiting, r)
    BY <1>1, <1>3, <1>6, Queued2, PopFront
  <1>8. st[r] = "queued"
    BY <1>7, Queued2
  <1>9. ~ In("commit") /\ ~ In("chunk") /\ ~ In("decode") /\ ~ In("prefill")
    BY <1>3 DEF In
  <1>10. ~ Contains(running, r)
    BY <1>8, <1>9, Queued2 DEF Serving
  <1>11. /\ running' \in Seq(Reqs) /\ Len(running') = n + 1 /\ running'[n + 1] = r
         /\ DOMAIN running' = 1 .. n + 1 /\ IsInjective(running')
         /\ \A y : Contains(running', y) <=> y = r \/ Contains(running, y)
    BY <1>1, <1>6, <1>7, <1>10, Queued2, PushBack
  <1>12. /\ \A x \in Reqs : x # r => st'[x] = st[x]
         /\ st'[r] = "prefill" /\ left'[r] = d
    BY <1>5, <1>7, CacheTypes
  <1>13. pend[r] = 0
    <2>1. ~ pend[r] > 0 /\ pend[r] \in Nat
      BY <1>7, <1>8, InPass, CacheTypes DEF Serving
    <2> QED
      BY <2>1
  <1>14. /\ form.todo \in Programs /\ form.i \in Nat /\ form.budget \in 0 .. TokCap
         /\ form.seqs \in 0 .. SeqCap
    BY RankTypes
  <1> DEFINE more == <<"chunk">> \o form.todo
             i0 == Len(running')
             b0 == form.budget
             s0 == form.seqs
             on0 == form.on
             d0 == form.decoding
             h0 == form.short
  <1>15. form' = [todo |-> more, on |-> on0, i |-> i0, budget |-> b0, seqs |-> s0,
                  decoding |-> d0, short |-> h0]
    <2>1. form = [todo |-> form.todo, on |-> form.on, i |-> form.i, budget |-> form.budget,
                  seqs |-> form.seqs, decoding |-> form.decoding, short |-> form.short]
      BY RankTypes
    <2> QED
      BY <2>1 DEF FrontAdmitted
  <1>16. more \in Programs /\ more # <<>> /\ Head(more) = "chunk"
    <2>1. form.todo # <<>> /\ Head(form.todo) = "admit"
      BY <1>3 DEF In
    <2>2. more \in Programs
      BY <1>14, <2>1, ProgramParts
    <2>3. form.todo = <<"admit", "fallback">> \/ form.todo = <<"admit">>
      BY <1>14, <2>1, OnePart, TwoParts, ThreeParts DEF Programs
    <2>4. more = <<"chunk", "admit", "fallback">> \/ more = <<"chunk", "admit">>
      <3>1. <<"chunk">> \o <<"admit", "fallback">> = <<"chunk", "admit", "fallback">>
        BY ThreeParts
      <3>2. <<"chunk">> \o <<"admit">> = <<"chunk", "admit">>
        BY TwoParts
      <3> QED
        BY <2>3, <3>1, <3>2
    <2> HIDE DEF more
    <2> QED
      BY <2>2, <2>4, TwoParts, ThreeParts
  <1>17. on0 \in BOOLEAN /\ d0 \in BOOLEAN /\ h0 \in BOOLEAN /\ on0 /\ ~ h0
    <2>1. on0
      BY <1>3 DEF In
    <2>2. ~ h0
      BY <1>9 DEF RInv, LoopOK
    <2> QED
      BY <2>1, <2>2, RankTypes
  <1>18. i0 \in Nat \ {0} /\ i0 = n + 1 /\ b0 \in 0 .. TokCap /\ s0 \in 0 .. SeqCap
    BY <1>6, <1>11, <1>14
  <1>19. form' \in FormType
    <2> HIDE DEF more, i0, b0, s0, on0, d0, h0
    <2> QED
      BY <1>15, <1>16, <1>17, <1>18, FormIs
  <1>20. /\ form'.todo = more /\ form'.i = i0 /\ form'.budget = b0 /\ form'.seqs = s0
         /\ form'.on = on0 /\ form'.short = h0
    <2> HIDE DEF more, i0, b0, s0, on0, d0, h0
    <2> QED
      BY <1>15
  <1>21. form'.on /\ ~ form'.short /\ form'.on = form.on
    <2> HIDE DEF more, i0
    <2> QED
      BY <1>17, <1>20
  <1>22. In("chunk")' /\ ~ In("commit")' /\ ~ In("decode")' /\ ~ In("prefill")'
    <2> HIDE DEF more
    <2> QED
      BY <1>16, <1>20, <1>21 DEF In
  <1> HIDE DEF more, on0, d0, h0, r, n
  <1>23. QueueOK'
    <2>1. \A y \in Reqs : Contains(running', y) => st'[y] \in {"prefill", "decode"}
      <3>1. \A y \in Reqs : Contains(running, y) => st[y] \in {"prefill", "decode"}
        BY <1>9, Queued2 DEF Serving
      <3> QED
        BY <1>11, <1>12, <3>1
    <2>2. \A y \in Reqs : Contains(waiting', y) => st'[y] = "queued"
      BY <1>7, <1>12, Queued2
    <2>3. \A y \in Reqs : st'[y] \in {"prefill", "decode"} => Contains(running', y)
      BY <1>11, <1>12, Queued2 DEF Serving
    <2> QED
      BY <1>7, <1>11, <2>1, <2>2, <2>3, QueuesNow
  <1>24. BatchOK'
    <2>1. \A x \in Reqs : pend[x] > 0 => st'[x] = st[x] /\ Contains(running', x)
      <3>1. \A x \in Reqs : pend[x] > 0 => x # r
        BY <1>13
      <3> QED
        BY <1>11, <1>12, <3>1, InPass
    <2>2. form'.budget = form.budget /\ form'.seqs = form.seqs
      BY <1>20
    <2> QED
      BY <1>1, <1>5, <1>9, <1>21, <1>22, <2>1, <2>2, BatchStays
  <1>25. LoopOK'
    <2>1. running'[form'.i] = r /\ form'.i = Len(running') /\ form'.i > 0
      BY <1>6, <1>11, <1>18, <1>20 DEF n
    <2>2. running' # <<>>
      <3>1. Len(running') # 0
        BY <1>18
      <3> QED
        BY <3>1, EmptyQueue
    <2>3. ~ Full'
      BY <1>3, <1>20 DEF Full
    <2>4. st'[running'[form'.i]] = "prefill" /\ pend'[running'[form'.i]] = 0
      BY <1>5, <1>12, <1>13, <2>1
    <2>5. op'.kind \in {"none", "grow"} /\ stack' = <<>>
      BY <1>5 DEF NoOp
    <2>6. (used[0] + Chunk(running[form.i]) <= Cap[0])'
      <3>1. Chunk(running[form.i])' = Min({d, ChunkTokens, form.budget})
        BY <1>12, <1>20, <2>1 DEF Chunk
      <3>2. ChunkTokens \in Int /\ form.budget \in Int /\ d \in Int
        <4>1. d \in Nat
          <5>1. CountOK /\ op.blocks \in Nat /\ op.blocks < Len(Prompt[op.req])
            BY <1>2, CacheTypes DEF RInv, PInv, PathOK
          <5> QED
            BY <1>3, <1>7, <5>1, DemandRight
        <4> HIDE DEF d
        <4> QED
          BY <1>14, <4>1, CacheTypes
      <3>3. Chunk(running[form.i])' = op.tok
        <4> HIDE DEF d
        <4> QED
          BY <1>4, <3>1, <3>2, SameMin
      <3>4. ~ Short /\ Depth = 0
        BY <1>1 DEF AdmitOk, Enough
      <3>5. Cap[0] \in Nat /\ used[0] \in Int /\ op.tok \in Int
        BY HbmTier, PoolAssumption, CacheTypes
      <3>6. used[0] + op.tok <= Cap[0]
        BY <3>4, <3>5 DEF Short, Demanded
      <3> QED
        BY <1>5, <3>3, <3>6
    <2> QED
      BY <1>19, <1>21, <1>22, <2>1, <2>2, <2>3, <2>4, <2>5, <2>6 DEF LoopOK, FormType
  <1>26. CallerOK'
    BY <1>5 DEF CallerOK, NoOp, Idle
  <1> QED
    BY <1>23, <1>24, <1>25, <1>26 DEF Sched
(* Preemption takes a request that is served to the front of the queue.    *)
LEMMA PreemptEffect ==
  ASSUME RInv, NEW r \in Reqs, Preempted(r)
  PROVE  /\ Idle /\ op = NoOp /\ Serving(r)
         /\ st' = [st EXCEPT ![r] = "queued"] /\ UNCHANGED <<pend, op, stack>>
         /\ st'[r] = "queued" /\ \A x \in Reqs : x # r => st'[x] = st[x]
PROOF
  <1>1. /\ Idle /\ Serving(r)
        /\ st' = [st EXCEPT ![r] = "queued"] /\ UNCHANGED <<pend, op, stack>>
    BY DEF Preempted, PreemptKeep, PreemptDrop, PreemptPrefill, Preempting, Requeue
  <1>2. op = NoOp
    BY <1>1 DEF RInv, CallerOK
  <1> QED
    BY <1>1, <1>2, CacheTypes

(* A preempted request moves from running to the front of waiting.         *)
LEMMA PreemptQueues ==
  ASSUME RInv, NEW r \in Reqs, Serving(r), ~ In("commit"), ~ In("commit")',
         st'[r] = "queued", \A x \in Reqs : x # r => st'[x] = st[x],
         running' \in Seq(Reqs), IsInjective(running'),
         \A y : Contains(running', y) <=> y # r /\ Contains(running, y),
         waiting' = <<r>> \o waiting
  PROVE  QueueOK' /\ \A x \in Reqs : pend[x] > 0 /\ x # r => st'[x] = st[x] /\ Contains(running', x)
PROOF
  <1>1. ~ Contains(waiting, r)
    BY Queued2 DEF Serving
  <1>2. waiting \in Seq(Reqs)
    BY RankTypes
  <1>3. /\ waiting' \in Seq(Reqs) /\ IsInjective(waiting')
        /\ \A y : Contains(waiting', y) <=> y = r \/ Contains(waiting, y)
    BY <1>1, <1>2, Queued2, PushFront
  <1>4. \A y \in Reqs : Contains(running', y) => st'[y] \in {"prefill", "decode"}
    <2>1. \A y \in Reqs : Contains(running, y) => st[y] \in {"prefill", "decode"}
      BY Queued2 DEF Serving
    <2> QED
      BY <2>1
  <1>5. \A y \in Reqs : Contains(waiting', y) => st'[y] = "queued"
    BY <1>3, Queued2
  <1>6. \A y \in Reqs : st'[y] \in {"prefill", "decode"} => Contains(running', y)
    BY Queued2 DEF Serving
  <1>7. QueueOK'
    BY <1>3, <1>4, <1>5, <1>6, QueuesNow
  <1> QED
    BY <1>7, InPass

(* A younger decode makes room for an older one.                           *)
LEMMA StepDecodePreempt ==
  ASSUME RInv, DecodePreempt
  PROVE  Sched'
PROOF
  <1> DEFINE j == Max(Younger)
             r == running[j]
  <1>1. /\ In("decode") /\ Younger # {} /\ Preempted(r)
        /\ running' = RemoveAt(running, j) /\ waiting' = <<r>> \o waiting
        /\ form' = [form EXCEPT !.short = FALSE]
        /\ UNCHANGED <<busy, batch, since, blocked>>
    BY DEF DecodePreempt
  <1>2. /\ running \in Seq(Reqs) /\ form.i \in Nat /\ Len(running) \in Nat
        /\ DOMAIN running = 1 .. Len(running)
    BY RankTypes
  <1>3. j \in 1 .. Len(running) /\ j > form.i
    BY <1>1, <1>2, YoungerLast
  <1> HIDE DEF j
  <1>4. r \in Reqs
    BY <1>3, RankTypes
  <1>5. pend[r] = 0
    <2>1. pend[r] > 0 => j < form.i
      BY <1>1, <1>2, <1>3 DEF RInv, LoopOK
    <2>2. ~ j < form.i
      BY <1>2, <1>3
    <2>3. pend[r] \in Nat
      BY <1>4, CacheTypes
    <2> QED
      BY <2>1, <2>2, <2>3
  <1>6. /\ Idle /\ op = NoOp /\ Serving(r) /\ UNCHANGED <<pend, op, stack>>
        /\ st'[r] = "queued" /\ \A x \in Reqs : x # r => st'[x] = st[x]
    BY <1>1, <1>4, PreemptEffect, SMTT(30)
  <1>7. IsInjective(running)
    BY Queued2
  <1>8. /\ running' \in Seq(Reqs) /\ Len(running') = Len(running) - 1 /\ IsInjective(running')
        /\ DOMAIN running' = 1 .. Len(running) - 1
        /\ \A k \in 1 .. Len(running) - 1 : running'[k] = IF k < j THEN running[k] ELSE running[k + 1]
        /\ \A y : Contains(running', y) <=> y # r /\ Contains(running, y)
    BY <1>1, <1>2, <1>3, <1>7, Erase, ZenonT(30)
  <1>9. /\ form' \in FormType /\ form'.i = form.i /\ form'.short = FALSE
        /\ form'.on = form.on /\ form'.todo = form.todo
        /\ form'.budget = form.budget /\ form'.seqs = form.seqs
        /\ \A l : In(l)' <=> In(l)
    <2> DEFINE i == form.i
    <2>1. FALSE \in BOOLEAN /\ i \in Nat
      BY <1>2
    <2>2. /\ form' \in FormType /\ form'.i = i /\ form'.short = FALSE
          /\ form'.on = form.on /\ form'.todo = form.todo
          /\ form'.budget = form.budget /\ form'.seqs = form.seqs
          /\ \A l : In(l)' <=> In(l)
      BY <1>1, <2>1, FormMoves
    <2> QED
      BY <2>2
  <1>10. ~ In("commit") /\ ~ In("chunk") /\ ~ In("prefill")
    BY <1>1 DEF In
  <1>11. ~ In("commit")' /\ ~ In("chunk")' /\ ~ In("prefill")'
    BY <1>9, <1>10
  <1> HIDE DEF r
  <1>12. QueueOK' /\ \A x \in Reqs : pend[x] > 0 /\ x # r => st'[x] = st[x] /\ Contains(running', x)
    BY <1>1, <1>4, <1>6, <1>8, <1>10, <1>11, PreemptQueues
  <1>13. BatchOK'
    <2>1. \A x \in Reqs : pend[x] > 0 => st'[x] = st[x] /\ Contains(running', x)
      <3>1. \A x \in Reqs : pend[x] > 0 => x # r
        BY <1>5
      <3> QED
        BY <1>12, <3>1
    <2> QED
      BY <1>1, <1>6, <1>9, <1>10, <1>11, <2>1, BatchStays
  <1>14. LoopOK'
    <2>1. ASSUME NEW k \in 1 .. Len(running) - 1, pend[running'[k]] > 0
          PROVE  k < form.i /\ st'[running'[k]] = "decode"
      <3>1. \A m \in 1 .. Len(running) :
              pend[running[m]] > 0 => m < form.i /\ st[running[m]] = "decode"
        BY <1>1, <1>2 DEF RInv, LoopOK
      <3>2. k < j
        <4>1. SUFFICES ASSUME ~ k < j PROVE FALSE
          OBVIOUS
        <4>2. running'[k] = running[k + 1] /\ k + 1 \in 1 .. Len(running)
          BY <1>2, <1>8, <4>1
        <4>3. k + 1 < form.i
          BY <2>1, <3>1, <4>2
        <4> QED
          BY <1>2, <1>3, <4>1, <4>3
      <3>3. running'[k] = running[k] /\ k \in 1 .. Len(running)
        BY <1>2, <1>8, <3>2
      <3>4. running[k] \in Reqs /\ running[k] # r
        BY <1>5, <2>1, <3>3, RankTypes
      <3>5. k < form.i /\ st[running[k]] = "decode"
        BY <2>1, <3>1, <3>3
      <3> QED
        BY <1>6, <3>3, <3>4, <3>5
    <2>2. In("decode")' => \A k \in DOMAIN running' :
            pend'[running'[k]] > 0 => k < form'.i /\ st'[running'[k]] = "decode"
      BY <1>6, <1>8, <1>9, <2>1
    <2>3. form'.on /\ ~ In("commit")' => form'.i > 0
      <3>1. form.on /\ ~ In("commit") => form.i > 0
        BY DEF RInv, LoopOK
      <3> QED
        BY <1>9, <1>10, <3>1
    <2> QED
      BY <1>9, <1>11, <2>2, <2>3 DEF LoopOK, FormType
  <1>15. CallerOK'
    BY <1>6 DEF CallerOK, NoOp, Idle
  <1> QED
    BY <1>12, <1>13, <1>14, <1>15 DEF Sched

(* The batch is formed again without the youngest request.                 *)
LEMMA StepFormAgain ==
  ASSUME RInv, FormAgain
  PROVE  Sched'
PROOF
  <1> DEFINE r == Last(running)
  <1>1. /\ form.todo = <<>> /\ batch = <<>> /\ running # <<>> /\ Preempted(r)
        /\ running' = Front(running) /\ waiting' = <<r>> \o waiting /\ batch' = <<>>
        /\ form' = Opened(running', st') /\ UNCHANGED busy
    BY DEF FormAgain, Formed, Stalled
  <1>2. running \in Seq(Reqs)
    BY RankTypes
  <1>3. /\ running' \in Seq(Reqs) /\ r \in Reqs /\ IsInjective(running')
        /\ \A y : Contains(running', y) <=> y # r /\ Contains(running, y)
    BY <1>1, <1>2, Queued2, PopBack
  <1> HIDE DEF r
  <1>4. /\ op = NoOp /\ Serving(r) /\ UNCHANGED <<pend, op, stack>>
        /\ st'[r] = "queued" /\ \A x \in Reqs : x # r => st'[x] = st[x]
    BY <1>1, <1>3, PreemptEffect
  <1>5. \A x \in Reqs : pend[x] = 0
    BY <1>1, NoBatch
  <1>6. busy' = FALSE
    <2>1. busy \in BOOLEAN /\ ~ busy
      BY <1>1 DEF RInv, BatchOK
    <2> QED
      BY <1>1, <2>1
  <1>7. BatchOK' /\ LoopOK' /\ CallerOK' /\ ~ In("commit")'
    BY <1>1, <1>3, <1>4, <1>5, <1>6, Started
  <1>8. ~ In("commit")
    BY <1>1 DEF In
  <1>9. QueueOK'
    BY <1>1, <1>3, <1>4, <1>7, <1>8, PreemptQueues
  <1> QED
    BY <1>7, <1>9 DEF Sched

(* form_batch ends, and a pass starts if its batch is not empty.           *)
LEMMA StepStartPass ==
  ASSUME RInv, StartPass
  PROVE  Sched'
PROOF
  <1>1. /\ form.todo = <<>> /\ Idle /\ form' = Off /\ busy' = (batch # <<>>)
        /\ UNCHANGED <<vars, running, waiting, batch, blocked>>
    BY DEF StartPass, Formed
  <1>2. UNCHANGED <<st, pend, op>>
    BY <1>1 DEF vars, reqv, count
  <1>3. form' \in FormType /\ ~ form'.on /\ ~ form'.short
    BY <1>1, OffRight
  <1>4. ~ In("commit") /\ ~ In("commit")' /\ ~ In("decode")' /\ ~ In("prefill")' /\ ~ In("chunk")'
    BY <1>1, <1>3 DEF In
  <1>5. QueueOK' /\ \A x \in Reqs : pend[x] > 0 => st'[x] = st[x] /\ Contains(running', x)
    BY <1>1, <1>2, <1>4, QueuesStay
  <1>6. BatchValid'
    BY <1>1, <1>2, <1>5, ValidStays
  <1>7. BatchOK'
    <2>1. busy' \in BOOLEAN /\ (busy' <=> batch # <<>>)
      BY <1>1
    <2>2. batch' \in Seq([req : Reqs, tokens : Nat, prefill : BOOLEAN])
      BY <1>1, RankTypes DEF Tickets
    <2> QED
      BY <1>1, <1>3, <1>4, <1>6, <2>1, <2>2 DEF BatchOK
  <1>8. LoopOK'
    BY <1>3, <1>4 DEF LoopOK, FormType
  <1>9. CallerOK'
    <2>1. op = NoOp
      BY <1>1 DEF RInv, CallerOK
    <2> QED
      BY <1>2, <2>1 DEF CallerOK, NoOp, Idle
  <1> QED
    BY <1>5, <1>7, <1>8, <1>9 DEF Sched

(* The events.                                                             *)
LEMMA StepArrive ==
  ASSUME RInv, NEW r \in Reqs, Arrive(r)
  PROVE  Sched'
PROOF
  <1>1. /\ ~ form.on /\ st[r] = "queued" /\ ~ Contains(waiting, r)
        /\ waiting' = Append(waiting, r)
        /\ UNCHANGED <<vars, running, busy, batch, blocked>>
        /\ form' = IF busy' \/ blocked' THEN Off ELSE Opened(running', st')
    BY DEF Arrive, Queued, TryStart
  <1>2. UNCHANGED <<st, pend, op>>
    BY <1>1 DEF vars, reqv, count
  <1>3. waiting \in Seq(Reqs) /\ running \in Seq(Reqs)
    BY RankTypes
  <1>4. /\ waiting' \in Seq(Reqs) /\ IsInjective(waiting')
        /\ \A y : Contains(waiting', y) <=> y = r \/ Contains(waiting, y)
    BY <1>1, <1>3, Queued2, PushBack
  <1>5. BatchOK' /\ LoopOK' /\ CallerOK' /\ ~ In("commit")'
    <2>1. \A x \in Reqs : pend[x] > 0 => st'[x] = st[x] /\ Contains(running', x)
      BY <1>1, <1>2, InPass
    <2> QED
      BY <1>1, <1>2, <1>3, <2>1, Tried
  <1>6. ~ In("commit")
    BY <1>1 DEF In
  <1>7. QueueOK'
    <2>1. \A y \in Reqs : Contains(running', y) => st'[y] \in {"prefill", "decode"}
      BY <1>1, <1>2, <1>6, Queued2 DEF Serving
    <2>2. \A y \in Reqs : Contains(waiting', y) => st'[y] = "queued"
      BY <1>1, <1>2, <1>4, Queued2
    <2>3. \A y \in Reqs : st'[y] \in {"prefill", "decode"} => Contains(running', y)
      BY <1>1, <1>2, Queued2 DEF Serving
    <2> QED
      BY <1>1, <1>3, <1>4, <2>1, <2>2, <2>3, Queued2, QueuesNow
  <1> QED
    BY <1>5, <1>7 DEF Sched

(* A load is over, its request waits in front.                             *)
LEMMA StepLoaded ==
  ASSUME RInv, NEW r \in Reqs, Loaded(r)
  PROVE  Sched'
PROOF
  <1>1. /\ ~ form.on /\ st[r] = "loading" /\ st' = [st EXCEPT ![r] = "queued"]
        /\ waiting' = <<r>> \o waiting
        /\ UNCHANGED <<pend, op, running, busy, batch>>
        /\ form' = IF busy' \/ blocked' THEN Off ELSE Opened(running', st')
    BY DEF Loaded, LoadDone, TryStart, count
  <1>2. waiting \in Seq(Reqs) /\ running \in Seq(Reqs)
    BY RankTypes
  <1>3. ~ Contains(waiting, r)
    BY <1>1, Queued2
  <1>4. /\ waiting' \in Seq(Reqs) /\ IsInjective(waiting')
        /\ \A y : Contains(waiting', y) <=> y = r \/ Contains(waiting, y)
    BY <1>1, <1>2, <1>3, Queued2, PushFront
  <1>5. st'[r] = "queued" /\ \A x \in Reqs : x # r => st'[x] = st[x]
    BY <1>1, CacheTypes
  <1>6. ~ In("commit")
    BY <1>1 DEF In
  <1>7. \A y \in Reqs : Contains(running, y) => y # r /\ st[y] \in {"prefill", "decode"}
    BY <1>1, <1>6, Queued2 DEF Serving
  <1>8. BatchOK' /\ LoopOK' /\ CallerOK' /\ ~ In("commit")'
    <2>1. \A x \in Reqs : pend[x] > 0 => st'[x] = st[x] /\ Contains(running', x)
      BY <1>1, <1>5, <1>7, InPass
    <2> QED
      BY <1>1, <1>2, <2>1, Tried
  <1>9. QueueOK'
    <2>1. \A y \in Reqs : Contains(running', y) => st'[y] \in {"prefill", "decode"}
      BY <1>1, <1>5, <1>7
    <2>2. \A y \in Reqs : Contains(waiting', y) => st'[y] = "queued"
      BY <1>4, <1>5, Queued2
    <2>3. \A y \in Reqs : st'[y] \in {"prefill", "decode"} => Contains(running', y)
      BY <1>1, <1>5, Queued2 DEF Serving
    <2> QED
      BY <1>1, <1>2, <1>4, <2>1, <2>2, <2>3, Queued2, QueuesNow
  <1> QED
    BY <1>8, <1>9 DEF Sched

(* A write-back is over.                                                   *)
LEMMA StepWritten ==
  ASSUME RInv, Written
  PROVE  Sched'
PROOF
  <1>1. /\ ~ form.on /\ UNCHANGED <<vars, running, waiting, busy, batch>>
        /\ form' = IF busy' \/ blocked' THEN Off ELSE Opened(running', st')
    BY DEF Written, TryStart
  <1>2. UNCHANGED <<st, pend, op>>
    BY <1>1 DEF vars, reqv, count
  <1>3. \A x \in Reqs : pend[x] > 0 => st'[x] = st[x] /\ Contains(running', x)
    BY <1>1, <1>2, InPass
  <1>4. BatchOK' /\ LoopOK' /\ CallerOK' /\ ~ In("commit")'
    BY <1>1, <1>2, <1>3, RankTypes, Tried
  <1>5. ~ In("commit")
    BY <1>1 DEF In
  <1>6. QueueOK'
    BY <1>1, <1>2, <1>4, <1>5, QueuesStay
  <1> QED
    BY <1>4, <1>6 DEF Sched
(* The pass is over.                                                       *)
LEMMA CommitEffect ==
  ASSUME RInv, NEW r \in Reqs, Committed(r)
  PROVE  /\ op' = NoOp /\ Serving(r)
         /\ pend'[r] = 0 /\ \A x \in Reqs : x # r => pend'[x] = pend[x]
         /\ st'[r] \in {"prefill", "decode", "done"}
         /\ \A x \in Reqs : x # r => st'[x] = st[x]
PROOF
  <1> DEFINE Done(x) == /\ Idle /\ st[r] \in {"prefill", "decode"}
                        /\ pend' = [pend EXCEPT ![r] = 0] /\ op' = op
                        /\ st' = st \/ st' = [st EXCEPT ![r] = x]
                        /\ x \in {"decode", "done"}
  <1>1. \E x : Done(x)
    <2>1. CASE CommitChunk(r)
      <3>1. Done("done")
        BY <2>1 DEF CommitChunk
      <3> QED
        BY <3>1
    <2>2. ASSUME NEW id, NEW t, CommitPrefill(r, id, t)
          PROVE  \E x : Done(x)
      <3> DEFINE x == IF Max({gen[r], 1}) >= Osl[r] THEN "done" ELSE "decode"
      <3>1. x \in {"decode", "done"}
        OBVIOUS
      <3>2. /\ Idle /\ st[r] = "prefill" /\ st' = [st EXCEPT ![r] = x]
            /\ pend' = [pend EXCEPT ![r] = 0] /\ op' = op
        BY <2>2 DEF CommitPrefill
      <3> HIDE DEF x
      <3>3. Done(x)
        BY <3>1, <3>2
      <3> QED
        BY <3>3
    <2>3. ASSUME NEW k, CommitDecode(r, k) \/ CommitLast(r, k)
          PROVE  \E x : Done(x)
      <3>1. Done("done")
        BY <2>3 DEF CommitDecode, CommitLast
      <3> QED
        BY <3>1
    <2> QED
      BY <2>1, <2>2, <2>3 DEF Committed
  <1>2. PICK x : Done(x)
    BY <1>1
  <1>3. op = NoOp
    BY <1>2 DEF RInv, CallerOK
  <1>4. Serving(r)
    BY <1>2 DEF Serving
  <1>5. pend'[r] = 0 /\ \A y \in Reqs : y # r => pend'[y] = pend[y]
    BY <1>2, CacheTypes
  <1>6. st'[r] \in {"prefill", "decode", "done"} /\ \A y \in Reqs : y # r => st'[y] = st[y]
    <2>1. CASE st' = st
      BY <1>2, <2>1
    <2>2. CASE st' = [st EXCEPT ![r] = x]
      BY <1>2, <2>2, CacheTypes
    <2> QED
      BY <1>2, <2>1, <2>2
  <1> QED
    BY <1>2, <1>3, <1>4, <1>5, <1>6

(* A request of the batch is committed; the last one ends the pass.        *)
LEMMA StepCommit ==
  ASSUME RInv, Commit
  PROVE  Sched'
PROOF
  <1> DEFINE r == Head(batch).req
             n == Len(batch)
  <1>1. busy /\ Committed(r) /\ batch' = Tail(batch) /\ UNCHANGED waiting
    BY DEF Commit
  <1>2. batch # <<>> /\ batch \in Tickets
    BY <1>1, RankTypes DEF RInv, BatchOK
  <1>3. /\ n \in Nat \ {0} /\ DOMAIN batch = 1 .. n /\ r = batch[1].req
        /\ \A k \in 1 .. n : batch[k].req \in Reqs /\ batch[k].tokens \in Nat
        /\ 1 \in 1 .. n
    <2>1. n \in Nat \ {0}
      BY <1>2, EmptySeq DEF Tickets
    <2>2. Head(batch) = batch[1]
      OBVIOUS
    <2> QED
      BY <2>1, <2>2, RankTypes
  <1>4. /\ batch' \in Tickets /\ Len(batch') = n - 1
        /\ \A k \in 1 .. n - 1 : batch'[k] = batch[k + 1]
    BY <1>1, <1>2, HeadTailProperties DEF Tickets
  <1> HIDE DEF r, n
  <1>5. DOMAIN batch' = 1 .. n - 1
    BY <1>4, LenProperties DEF Tickets
  <1>6. r \in Reqs
    BY <1>3
  <1>7. /\ op' = NoOp /\ Serving(r)
        /\ pend'[r] = 0 /\ \A x \in Reqs : x # r => pend'[x] = pend[x]
        /\ st'[r] \in {"prefill", "decode", "done"}
        /\ \A x \in Reqs : x # r => st'[x] = st[x]
    BY <1>1, <1>6, CommitEffect
  <1>8. /\ \A i \in 1 .. n :
             /\ pend[batch[i].req] = batch[i].tokens /\ pend[batch[i].req] > 0
             /\ st[batch[i].req] = (IF batch[i].prefill THEN "prefill" ELSE "decode")
             /\ \A j \in 1 .. n : batch[i].req = batch[j].req => i = j
        /\ \A x \in Reqs : pend[x] > 0 =>
             /\ Serving(x) /\ Contains(running, x)
             /\ \E i \in 1 .. n : batch[i].req = x
    BY InPass DEF n
  <1>9. Contains(running, r)
    BY <1>6, <1>7, Queued2
  <1>10. \A y \in Reqs : Contains(waiting, y) => y # r /\ st[y] = "queued"
    BY <1>7, Queued2 DEF Serving
  <1>11. \A y \in Reqs : Contains(waiting', y) => st'[y] = "queued"
    BY <1>1, <1>7, <1>10
  <1>12. CallerOK'
    BY <1>7 DEF CallerOK, NoOp, Idle
  <1>13. running \in Seq(Reqs) /\ waiting \in Seq(Reqs)
    BY RankTypes
  <1>14. CASE n > 1
    <2>1. form' = [Off EXCEPT !.on = TRUE, !.todo = <<"commit">>] /\ UNCHANGED <<running, busy>>
      BY <1>14 DEF Commit, n
    <2>2. /\ form' = [todo |-> <<"commit">>, on |-> TRUE, i |-> 0, budget |-> 0, seqs |-> 0,
                      decoding |-> FALSE, short |-> FALSE]
      BY <2>1 DEF Off
    <2>3. form'.todo = <<"commit">> /\ form'.on /\ ~ form'.short
      BY <2>2
    <2>4. form' \in FormType
      <3>1. <<"commit">> \in Programs
        BY DEF Programs
      <3>2. 0 \in 0 .. TokCap /\ 0 \in 0 .. SeqCap
        BY CapsAssumption
      <3> QED
        BY <2>2, <3>1, <3>2, FormIs
    <2>5. In("commit")' /\ ~ In("decode")' /\ ~ In("prefill")' /\ ~ In("chunk")'
      BY <2>3, OnePart DEF In
    <2>6. QueueOK'
      <3>1. \A y \in Reqs : Contains(running', y) =>
              st'[y] \in {"prefill", "decode"} \/ (In("commit")' /\ st'[y] = "done")
        BY <1>7, <2>1, <2>5, Queued2 DEF Serving
      <3>2. \A y \in Reqs : st'[y] \in {"prefill", "decode"} => Contains(running', y)
        BY <1>7, <1>9, <2>1, Queued2 DEF Serving
      <3> QED
        BY <1>1, <1>11, <1>13, <2>1, <3>1, <3>2, Queued2, QueuesNow
    <2>7. BatchValid'
      <3>1. ASSUME NEW k \in 1 .. n - 1
            PROVE  /\ k + 1 \in 1 .. n /\ batch'[k] = batch[k + 1]
                   /\ batch[k + 1].req \in Reqs /\ batch[k + 1].req # r
        <4>1. k + 1 \in 1 .. n /\ k + 1 # 1
          BY <1>3
        <4> QED
          BY <1>3, <1>4, <1>8, <4>1
      <3>2. \A i, j \in DOMAIN batch' : batch'[i].req = batch'[j].req => i = j
        <4>1. ASSUME NEW i \in 1 .. n - 1, NEW j \in 1 .. n - 1, batch'[i].req = batch'[j].req
              PROVE  i = j
          <5>1. i + 1 \in 1 .. n /\ j + 1 \in 1 .. n /\ batch[i + 1].req = batch[j + 1].req
            BY <3>1, <4>1
          <5>2. i + 1 = j + 1
            BY <1>8, <5>1
          <5> QED
            BY <1>3, <5>2
        <4> QED
          BY <1>5, <4>1
      <3>3. ASSUME NEW i \in DOMAIN batch'
            PROVE  /\ pend'[batch'[i].req] = batch'[i].tokens /\ batch'[i].tokens > 0
                   /\ Contains(running', batch'[i].req)
                   /\ st'[batch'[i].req] = (IF batch'[i].prefill THEN "prefill" ELSE "decode")
        <4> DEFINE e == batch[i + 1]
        <4>1. /\ i + 1 \in 1 .. n /\ batch'[i] = e /\ e.req \in Reqs /\ e.req # r
          BY <1>5, <3>1
        <4>2. /\ pend[e.req] = e.tokens /\ pend[e.req] > 0
              /\ st[e.req] = (IF e.prefill THEN "prefill" ELSE "decode")
          BY <1>8, <4>1
        <4> HIDE DEF e
        <4>3. pend'[e.req] = pend[e.req] /\ st'[e.req] = st[e.req] /\ Contains(running, e.req)
          BY <1>7, <1>8, <4>1, <4>2
        <4> QED
          BY <2>1, <4>1, <4>2, <4>3
      <3>4. Len(batch') <= SeqCap /\ BatchTokens' <= TokCap
        <4>1. Len(batch) <= SeqCap /\ BatchTokens <= TokCap
          BY DEF RInv, BatchOK, BatchValid
        <4>2. BatchTokens = batch[1].tokens + BatchTokens' /\ BatchTokens' \in Int
          BY <1>1, <1>2, <1>4, BatchTokensIs, TokensInTail, TokensInSum
        <4>3. batch[1].tokens \in Nat /\ SeqCap \in Nat /\ TokCap \in Nat
          BY <1>3, CapsAssumption
        <4>4. n - 1 <= SeqCap
          BY <1>3, <4>1, <4>3 DEF n
        <4> QED
          BY <1>4, <4>1, <4>2, <4>3, <4>4
      <3>5. ASSUME NEW x \in Reqs, pend'[x] > 0
            PROVE  \E i \in DOMAIN batch' : batch'[i].req = x
        <4>1. x # r
          BY <1>7, <3>5
        <4>2. pend[x] > 0
          BY <1>7, <3>5, <4>1
        <4>3. PICK i \in 1 .. n : batch[i].req = x
          BY <1>8, <4>2
        <4>4. i # 1
          BY <1>3, <4>1, <4>3
        <4>5. i - 1 \in 1 .. n - 1 /\ i - 1 + 1 = i
          BY <1>3, <4>4
        <4> QED
          BY <1>4, <1>5, <4>3, <4>5
      <3> QED
        BY <3>2, <3>3, <3>4, <3>5 DEF BatchValid
    <2>8. BatchOK'
      <3>1. batch' # <<>>
        <4>1. Len(batch') # 0
          BY <1>3, <1>4, <1>14
        <4> QED
          BY <4>1, EmptyQueue
      <3>2. busy' \in BOOLEAN /\ busy'
        BY <1>1, <2>1 DEF RInv, BatchOK
      <3> QED
        BY <1>4, <2>5, <2>7, <3>1, <3>2 DEF BatchOK, Tickets
    <2>9. LoopOK'
      BY <2>3, <2>4, <2>5 DEF LoopOK, FormType
    <2> QED
      BY <1>12, <2>6, <2>8, <2>9 DEF Sched
  <1>15. CASE n = 1
    <2>1. /\ running' = StillServed(running, st') /\ busy' = FALSE
          /\ form' = IF busy' \/ blocked' THEN Off ELSE Opened(running', st')
      BY <1>15 DEF Commit, TryStart, n
    <2>2. /\ running' \in Seq(Reqs) /\ IsInjective(running')
          /\ \A y : Contains(running', y) <=> Contains(running, y) /\ st'[y] \in {"prefill", "decode"}
      BY <1>13, <2>1, Queued2, StillServedRight
    <2>3. batch' = <<>>
      <3>1. Len(batch') = 0
        BY <1>4, <1>15
      <3> QED
        BY <1>4, <3>1, EmptySeq DEF Tickets
    <2>4. \A x \in Reqs : pend'[x] = 0
      <3>1. ASSUME NEW x \in Reqs, x # r
            PROVE  pend'[x] = 0
        <4>1. ~ pend[x] > 0
          <5>1. SUFFICES ASSUME pend[x] > 0 PROVE FALSE
            OBVIOUS
          <5>2. PICK i \in 1 .. n : batch[i].req = x
            BY <1>8, <5>1
          <5>3. i = 1
            BY <1>15
          <5> QED
            BY <1>3, <3>1, <5>2, <5>3
        <4>2. pend[x] \in Nat /\ pend'[x] = pend[x]
          BY <1>7, <3>1, CacheTypes
        <4> QED
          BY <4>1, <4>2
      <3> QED
        BY <1>7, <3>1
    <2>5. BatchOK' /\ LoopOK' /\ ~ In("commit")'
      BY <1>7, <2>1, <2>2, <2>3, <2>4, Started
    <2>6. QueueOK'
      <3>1. \A y \in Reqs : st'[y] \in {"prefill", "decode"} => Contains(running', y)
        BY <1>7, <1>9, <2>2, Queued2 DEF Serving
      <3> QED
        BY <1>1, <1>11, <1>13, <2>2, <3>1, Queued2, QueuesNow
    <2> QED
      BY <1>12, <2>5, <2>6 DEF Sched
  <1> QED
    BY <1>3, <1>14, <1>15
-----------------------------------------------------------------------------
(* The theorems.                                                           *)

(* Every step of the scheduler keeps the invariant.                        *)
LEMMA StepSched ==
  ASSUME RInv, [RankNext]_rankvars
  PROVE  Sched'
PROOF
  <1>1. CASE Evict
    BY <1>1, StepEvict
  <1>2. CASE DecodeGrow \/ PrefillGrow \/ FirstChunk
    BY <1>2, StepDecodeGrow, StepPrefillGrow, StepFirstChunk
  <1>3. CASE DecodeGrowFailed \/ PrefillGrowFailed \/ Batched
    BY <1>3, StepGrowFailed, StepBatched
  <1>4. CASE DecodePreempt \/ FormAgain
    BY <1>4, StepDecodePreempt, StepFormAgain
  <1>5. CASE DecodeSkip \/ DecodesEnd \/ PrefillsEnd \/ AdmissionsEnd \/ FrontBlocked \/ StartPass
    BY <1>5, StepDecodeSkip, StepLoopEnds, StepStartPass
  <1>6. CASE RejectFront \/ AdmitFront \/ FrontLoading \/ FrontAdmitted
    BY <1>6, StepFrontGone, StepAdmitFront, StepFrontAdmitted
  <1>7. CASE Commit
    BY <1>7, StepCommit
  <1>8. ASSUME NEW r \in Reqs, Arrive(r) \/ Loaded(r)
        PROVE  Sched'
    BY <1>8, StepArrive, StepLoaded
  <1>9. CASE Written
    BY <1>9, StepWritten
  <1>10. CASE Lapse
    BY <1>10, StepLapse
  <1>11. CASE UNCHANGED rankvars
    BY <1>11, StepNothing
  <1> QED
    BY <1>1, <1>2, <1>3, <1>4, <1>5, <1>6, <1>7, <1>8, <1>9, <1>10, <1>11
       DEF RankNext, FormBatch

(* The order in which the first requests are queued: each once.            *)
LEMMA FirstQueue ==
  ASSUME NEW S, IsFiniteSet(S), NEW q \in SetToAllKPermutations(S)
  PROVE  q \in Seq(S) /\ IsInjective(q)
PROOF
  <1>1. PICK s \in SUBSET S : q \in SetToSeqs(s)
    BY DEF SetToAllKPermutations
  <1>2. Cardinality(s) \in Nat
    BY FS_Subset, FS_CardinalityType
  <1> DEFINE n == Cardinality(s)
  <1>3. q \in [1 .. n -> s] /\ \A i, j \in 1 .. n : q[i] = q[j] => i = j
    BY <1>1 DEF SetToSeqs
  <1> HIDE DEF n
  <1>4. DOMAIN q = 1 .. n /\ \A i \in 1 .. n : q[i] \in S
    BY <1>3
  <1>5. IsInjective(q)
    BY <1>3, <1>4, Zenon DEF IsInjective
  <1>6. q \in [1 .. n -> S]
    BY <1>3, <1>4
  <1>7. n \in Nat
    BY <1>2 DEF n
  <1>8. q \in Seq(S)
    BY <1>6, <1>7, SeqDef
  <1> QED
    BY <1>5, <1>8

(* The invariant holds of an idle rank with the first requests queued.     *)
LEMMA InitRInv ==
  RankInit => RInv
PROOF
  <1> SUFFICES ASSUME RankInit PROVE RInv
    OBVIOUS
  <1>1. PInv
    BY InitPInv DEF RankInit
  <1>2. /\ op = NoOp /\ \A r \in Reqs : pend[r] = 0 /\ st[r] = "queued"
        /\ running = <<>> /\ batch = <<>> /\ busy = FALSE /\ form = Opened(running, st)
    BY DEF RankInit, Init
  <1>3. /\ form \in FormType /\ form.short = FALSE
        /\ form.on = TRUE /\ form.i = 1 /\ form.budget = TokCap /\ form.seqs = 0
        /\ Head(form.todo) \in {"decode", "prefill"}
    BY <1>2, OpenedRight
  <1>4. ~ In("commit") /\ ~ In("chunk") /\ ~ In("admit")
    BY <1>3 DEF In
  <1>5. waiting \in Seq(Reqs) /\ IsInjective(waiting)
    <2> DEFINE S == {r \in Reqs : Before[r] = {}}
    <2>1. IsFiniteSet(S) /\ S \subseteq Reqs
      BY ReqsAssumption, FS_Subset
    <2>2. waiting \in SetToAllKPermutations(S)
      BY DEF RankInit
    <2> HIDE DEF S
    <2>3. waiting \in Seq(S) /\ IsInjective(waiting)
      BY <2>1, <2>2, FirstQueue
    <2> QED
      BY <2>1, <2>3
  <1>6. QueueOK
    <2>1. running \in Seq(Reqs) /\ IsInjective(running) /\ DOMAIN running = {}
      BY <1>2, EmptyQueue
    <2>2. \A i \in DOMAIN waiting : st[waiting[i]] = "queued"
      BY <1>2, <1>5, LenProperties, ElementOfSeq
    <2> QED
      BY <1>2, <1>5, <2>1, <2>2 DEF QueueOK, Serving
  <1>7. BatchTokens = 0 /\ DOMAIN batch = {} /\ Len(batch) = 0
    BY <1>2, BatchTokensIs, TokensInNone, EmptyQueue
  <1>8. BatchValid
    BY <1>2, <1>7, CapsAssumption DEF BatchValid
  <1>9. BatchOK
    <2>1. batch \in Seq([req : Reqs, tokens : Nat, prefill : BOOLEAN])
      BY <1>2, EmptyQueue
    <2>2. form.seqs = Len(batch) /\ form.budget + BatchTokens = TokCap
      BY <1>3, <1>7, CapsAssumption
    <2>3. busy \in BOOLEAN /\ ~ busy /\ batch = <<>>
      BY <1>2
    <2> QED
      BY <1>3, <1>4, <1>8, <2>1, <2>2, <2>3 DEF BatchOK
  <1>10. LoopOK
    <2>1. DOMAIN running = {} /\ form.i > 0
      BY <1>2, <1>3, EmptyQueue
    <2> QED
      BY <1>3, <1>4, <2>1 DEF LoopOK, FormType
  <1>11. CallerOK
    BY <1>2 DEF CallerOK, NoOp, Idle
  <1> QED
    BY <1>1, <1>6, <1>9, <1>10, <1>11 DEF RInv

(* Every step, and every step that changes nothing, keeps the invariant.   *)
THEOREM StepRInv ==
  RInv /\ [RankNext]_rankvars => RInv' /\ [Next]_vars
PROOF
  <1> SUFFICES ASSUME RInv, [RankNext]_rankvars
               PROVE  RInv' /\ [Next]_vars
    OBVIOUS
  <1>1. [Next]_vars
    BY StepImplements
  <1>2. PInv'
    BY <1>1, StepPInv DEF RInv
  <1>3. Sched'
    BY StepSched
  <1> QED
    BY <1>1, <1>2, <1>3 DEF RInv, Sched

(* The invariant holds of every behaviour of the scheduler.                *)
THEOREM RankInvariant ==
  RankSpec => []RInv
PROOF
  BY InitRInv, StepRInv, PTL DEF RankSpec

(* The scheduler drives the cache only as the specification of the cache   *)
(* allows: every behaviour of a rank is one of KvTree, whose theorems hold *)
(* of it.                                                                  *)
THEOREM RankRefines ==
  RankSpec => ImplementsKvTree
PROOF
  <1>1. RankInit => Init
    BY DEF RankInit
  <1> QED
    BY <1>1, InitRInv, StepRInv, PTL DEF RankSpec, ImplementsKvTree, Spec

(* No request is lost between the queues of a rank or in two of them, for  *)
(* every workload, whatever is preempted, loaded, rejected and committed.  *)
THEOREM QueuesTheorem ==
  RankSpec => []QueuesExact
PROOF
  <1>1. RInv => QueuesExact
    <2> SUFFICES ASSUME RInv PROVE QueuesExact
      OBVIOUS
    <2>1. QueueOK
      BY DEF RInv
    <2>2. ASSUME ~ form.on
          PROVE  Range(running) = {r \in Reqs : Serving(r)}
      <3>1. ~ In("commit")
        BY <2>2 DEF In
      <3>2. \A y : Contains(running, y) <=> y \in Reqs /\ Serving(y)
        BY <3>1, Queued2
      <3>3. \A y : Contains(running, y) <=> y \in Range(running)
        BY <2>1, LenProperties DEF Contains, Range, QueueOK
      <3> QED
        BY <3>2, <3>3
    <2> QED
      BY <2>1, <2>2 DEF QueuesExact, QueueOK
  <1> QED
    BY <1>1, RankInvariant, PTL

(* A batch is what it was when it was formed until its pass ends: its      *)
(* requests are distinct, in running, hold their tokens, and keep within   *)
(* the limits of a pass.                                                   *)
THEOREM BatchTheorem ==
  RankSpec => []BatchValid
PROOF
  <1>1. RInv => BatchValid
    BY DEF RInv, BatchOK
  <1> QED
    BY <1>1, RankInvariant, PTL

(* The room admission made is there when the first chunk takes it.         *)
THEOREM AdmittedTheorem ==
  RankSpec => []AdmittedFits
PROOF
  <1>1. RInv => AdmittedFits
    <2> SUFFICES ASSUME RInv, In("chunk") PROVE ~ Short
      BY DEF AdmittedFits
    <2> DEFINE r == running[form.i]
    <2>1. /\ running # <<>> /\ form.i = Len(running) /\ ~ Full
          /\ st[r] = "prefill" /\ op.kind \in {"none", "grow"} /\ stack = <<>>
          /\ used[0] + Chunk(r) <= Cap[0]
      BY DEF RInv, LoopOK
    <2>2. r \in Reqs
      BY <2>1, RankTypes, ElementOfSeq, LenProperties, EmptySeq
    <2>3. ASSUME op.kind = "none"
          PROVE  op.tok = 0
      <3>1. op = NoOp
        BY <2>3 DEF RInv, CallerOK, Idle
      <3> QED
        BY <3>1 DEF NoOp
    <2>4. ASSUME op.kind = "grow"
          PROVE  op.tok = Chunk(r)
      <3>1. In("chunk") => ~ In("decode") /\ ~ In("prefill")
        BY DEF In
      <3> QED
        BY <2>4, <3>1 DEF RInv, CallerOK
    <2> HIDE DEF r
    <2>5. op.tok = 0 \/ op.tok = Chunk(r)
      BY <2>1, <2>3, <2>4
    <2>6. Depth = 0 /\ Demanded = op.tok
      BY <2>1 DEF Depth, Demanded
    <2>7. ~ used[0] + op.tok > Cap[0]
      <3> DEFINE c == Chunk(r)
      <3>1. c \in Nat /\ used[0] + c <= Cap[0] /\ (op.tok = 0 \/ op.tok = c)
        BY <2>1, <2>2, <2>5, ChunkRight
      <3>2. used[0] \in Int /\ Cap[0] \in Int
        BY PoolAssumption, CacheTypes DEF Tiers
      <3> HIDE DEF c
      <3> QED
        BY <3>1, <3>2
    <2> QED
      BY <2>6, <2>7 DEF Short
  <1> QED
    BY <1>1, RankInvariant, PTL

=============================================================================
