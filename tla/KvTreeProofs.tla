---------------------------- MODULE KvTreeProofs ----------------------------
(***************************************************************************)
(* Proofs about KvTree for every workload and pool.  First its counts: the *)
(* children, the pins and the eviction order of the nodes, and the         *)
(* references to them (IInv).  Then what is stored (PInv): the types of    *)
(* what is counted, and that the nodes held for a request carry its prompt *)
(* and nothing else, however often the nodes above them were split, moved  *)
(* or freed.                                                               *)
(***************************************************************************)
EXTENDS KvTree, Facts

-----------------------------------------------------------------------------
(* Facts about the operators of the model.                                 *)

Is(a, b) == IF a = b THEN 1 ELSE 0

(* Changing the value of one request changes a count of requests by it.    *)
LEMMA CountExcept ==
  ASSUME NEW A, NEW B, NEW r, IsFiniteSet(A), B \ {r} = A \ {r}
  PROVE  Cardinality(B) = Cardinality(A) - (IF r \in A THEN 1 ELSE 0) + (IF r \in B THEN 1 ELSE 0)
PROOF
  <1>1. Cardinality(A) \in Nat
    BY FS_CardinalityType
  <1>2. CASE r \in B
    <2>1. B = A \cup {r}
      BY <1>2
    <2> QED
      BY <1>1, <1>2, <2>1, FS_AddElement
  <1>3. CASE r \notin B
    <2>1. B = A \ {r}
      BY <1>3
    <2> QED
      BY <1>1, <1>3, <2>1, FS_RemoveElement
  <1> QED
    BY <1>2, <1>3

(* A count of holders is a number, and zero when nobody holds the node.    *)
LEMMA HeldAtCount ==
  ASSUME NEW f, NEW n
  PROVE  /\ HeldAt(f, n) \in Nat
         /\ HeldAt(f, n) = 0 <=> \A s \in Reqs : f[s] # n
PROOF
  <1> DEFINE A == {s \in Reqs : f[s] = n}
  <1>1. IsFiniteSet(A)
    BY FS_Subset, ReqsAssumption
  <1>2. Cardinality(A) = 0 <=> A = {}
    BY <1>1, FS_EmptySet
  <1>3. Cardinality(A) \in Nat
    BY <1>1, FS_CardinalityType
  <1>4. (\A s \in Reqs : f[s] # n) <=> A = {}
    OBVIOUS
  <1> QED
    BY <1>2, <1>3, <1>4 DEF HeldAt

(* lru_update keeps the LRU sets exact when it is called for every node    *)
(* whose evictability a step changes.                                      *)
LEMMA LruStep ==
  ASSUME LruExact, NEW gone, NEW touched, LruUpdate(gone, touched),
         (gone \ touched) \cap live' = {},
         \A n \in Nodes \ (gone \cup touched) : Evictable(n) <=> Evictable(n)',
         live \subseteq Nodes, live' \subseteq Nodes
  PROVE  LruExact'
PROOF
  <1>1. lru' = (lru \ (gone \cup touched)) \cup {n \in touched : Evictable(n)'}
    BY DEF LruUpdate
  <1>2. \A n \in Nodes : Evictable(n) => n \in live
    BY DEF Evictable
  <1>3. \A n \in Nodes : Evictable(n)' => n \in live'
    BY DEF Evictable
  <1>4. \A n : Evictable(n)' => n \in live'
    BY DEF Evictable
  <1>5. lru = {n \in live : Evictable(n)}
    BY DEF LruExact
  <1>6. lru' = {n \in live' : Evictable(n)'}
    BY <1>1, <1>2, <1>3, <1>4, <1>5
  <1> QED
    BY <1>6 DEF LruExact

(* The same of the holders by hit_node and own_node together.              *)
LEMMA PinHoldersCount ==
  ASSUME NEW n
  PROVE  /\ PinHolders(n) \in Nat
         /\ PinHolders(n) = 0 <=> \A r \in Reqs : hit[r] # n /\ own[r] # n
PROOF
  BY HeldAtCount DEF PinHolders

(* A node nobody pins has no holder of any kind; pins are never negative.  *)
LEMMA HolderPins ==
  ASSUME PinsExact, NEW n \in Nodes
  PROVE  /\ pins[n] \in Nat
         /\ pins[n] = 0 => /\ ChainPin(n) = 0
                          /\ \A r \in Reqs : hit[r] # n /\ own[r] # n
PROOF
  <1>1. pins[n] = PinHolders(n) + ChainPin(n) + (IF n \in Plays THEN 1 ELSE 0)
    BY DEF PinsExact
  <1>2. ChainPin(n) \in Nat
    BY DEF ChainPin
  <1> QED
    BY <1>1, <1>2, PinHoldersCount

(* An evictable node is not on the prefix of anyone: a holder below it     *)
(* would keep the node between them in HBM, or would have pinned it.       *)
LEMMA Unheld ==
  ASSUME IInv, NEW n \in live, Evictable(n), NEW r \in Reqs
  PROVE  /\ hit[r] # None => n \notin Chain(hit[r])
         /\ own[r] # None => n \notin Chain(own[r])
PROOF
  <1> USE DEF Nodes
  <1>0. n \in Nodes /\ tier[n] \in Nat /\ pins[n] = 0 /\ ~ n \in Plays
    BY ReqsAssumption DEF IInv, TreeOK, Evictable, Tiers
  <1>1. ChainPin(n) = 0 /\ hit[r] # n /\ own[r] # n
    BY <1>0, HolderPins DEF IInv
  <1>2. ASSUME NEW h \in live \cup Plays, n \in above[h], \A m \in Chain(h) : tier[m] = 0
        PROVE  FALSE
    <2>1. h \in live
      BY <1>2 DEF IInv, TreeOK
    <2>2. PICK c \in live : c \in Chain(h) /\ parent[c] = n
      BY <1>2, <2>1 DEF IInv, TreeOK
    <2>3. tier[c] > tier[n]
      BY <2>2 DEF Evictable
    <2> QED
      BY <1>0, <1>2, <2>2, <2>3
  <1>3. ASSUME hit[r] # None, n \in Chain(hit[r])
        PROVE  FALSE
    <2>1. n \in above[hit[r]]
      BY <1>1, <1>3 DEF Chain
    <2>2. hit[r] \in live \cup Plays
      BY <1>3 DEF IInv, HeldLive
    <2>3. ~ (op.kind = "load" /\ op.req = r)
      BY <1>1, <2>1 DEF ChainPin
    <2> QED
      BY <1>2, <1>3, <2>1, <2>2, <2>3 DEF IInv, HoldOK
  <1>4. ASSUME own[r] # None, n \in Chain(own[r])
        PROVE  FALSE
    <2>1. n \in above[own[r]]
      BY <1>1, <1>4 DEF Chain
    <2>2. own[r] \in live
      BY <1>4 DEF IInv, HeldLive
    <2> QED
      BY <1>2, <1>4, <2>1, <2>2 DEF IInv, HoldOK
  <1> QED
    BY <1>3, <1>4

(* ... and so is everything below it unpinned.                             *)
LEMMA UnpinnedBelow ==
  ASSUME IInv, NEW n \in live, Evictable(n), NEW m \in {n} \cup Down(n)
  PROVE  pins[m] = 0
PROOF
  <1>0. m \in live /\ m \in Nodes /\ (m = n \/ n \in above[m])
    BY DEF IInv, TreeOK, Nodes, Down
  <1>1. SUFFICES ASSUME pins[m] # 0 PROVE FALSE
    OBVIOUS
  <1>2. m \notin Plays
    BY <1>0, ReqsAssumption DEF IInv, TreeOK
  <1>3. pins[m] = PinHolders(m) + ChainPin(m)
    <2>1. ChainPin(m) \in Nat /\ PinHolders(m) \in Nat
      BY PinHoldersCount DEF ChainPin
    <2> QED
      BY <1>0, <1>2, <2>1 DEF IInv, PinsExact
  <1>4. CASE \E r \in Reqs : hit[r] = m \/ own[r] = m
    <2>1. PICK r \in Reqs : hit[r] = m \/ own[r] = m
      BY <1>4
    <2>2. m # None
      BY <1>0, ReqsAssumption
    <2> QED
      BY <1>0, <2>1, <2>2, Unheld DEF Chain
  <1>5. CASE \A r \in Reqs : hit[r] # m /\ own[r] # m
    <2>1. PinHolders(m) = 0
      BY <1>5, PinHoldersCount
    <2>2. ChainPin(m) # 0
      BY <1>1, <1>3, <2>1
    <2>3. op.kind = "load" /\ m \in above[hit[op.req]]
      BY <2>2 DEF ChainPin
    <2>4. op.req \in Reqs /\ hit[op.req] # None
      BY <2>3 DEF IInv, CallOK, HoldOK
    <2>5. hit[op.req] \in live
      BY <2>3, <2>4 DEF IInv, HeldLive, TreeOK
    <2>6. n \in above[hit[op.req]]
      BY <1>0, <2>3, <2>5 DEF IInv, TreeOK
    <2> QED
      BY <2>4, <2>6, Unheld DEF Chain
  <1> QED
    BY <1>4, <1>5

-----------------------------------------------------------------------------
(* A tree stays a tree when nodes go together with all that is below them. *)
LEMMA Freed ==
  ASSUME TreeOK, NEW D, D \subseteq live, live' = live \ D,
         \A m \in live \ D : above[m] \cap D = {},
         parent' \in [Nodes -> Nodes \cup {None}],
         above' \in [Nodes -> SUBSET Nodes],
         tier' \in [Nodes -> Tiers],
         pins' \in [Nodes -> Int],
         \A m \in Nodes \ D : /\ parent'[m] = parent[m]
                              /\ above'[m] = above[m]
                              /\ tier'[m] = tier[m]
  PROVE  TreeOK'
PROOF
  <1>1. D \subseteq live /\ live \subseteq NodeIds /\ live \subseteq Nodes /\ D \cap Plays = {}
    BY ReqsAssumption DEF TreeOK, Nodes
  <1>2. \A m \in Plays : above'[m] = {} /\ tier'[m] = 0
    BY <1>1 DEF TreeOK, Nodes
  <1>3. ASSUME NEW m \in live'
        PROVE  /\ above'[m] = {parent'[m]} \cup above'[parent'[m]]
               /\ above'[m] \subseteq live' \cup Plays
               /\ m \notin above'[m]
               /\ \A a \in above'[m] :
                    /\ above'[a] \subseteq above'[m]
                    /\ tier'[a] <= tier'[m]
                    /\ \E c \in live' : c \in {m} \cup above'[m] /\ parent'[c] = a
    <2>1. m \in live \ D /\ m \in Nodes
      BY <1>1
    <2>2. above'[m] = above[m] /\ parent'[m] = parent[m] /\ tier'[m] = tier[m]
      BY <2>1
    <2>3. /\ above[m] = Chain(parent[m])
          /\ above[m] \subseteq live \cup Plays
          /\ m \notin above[m]
      BY <2>1 DEF TreeOK
    <2>4. above[m] \subseteq live' \cup Plays
      BY <2>1, <2>3
    <2>5. ASSUME NEW a \in above[m]
          PROVE  /\ above'[a] \subseteq above[m]
                 /\ tier'[a] <= tier[m]
                 /\ \E c \in live' : c \in Chain(m) /\ parent'[c] = a
      <3>1. a \in Nodes \ D
        BY <1>1, <2>1, <2>3 DEF Nodes
      <3>2. above'[a] = above[a] /\ tier'[a] = tier[a]
        BY <3>1
      <3>3. PICK c \in live : c \in Chain(m) /\ parent[c] = a
        BY <2>1 DEF TreeOK
      <3>4. c \in live \ D /\ c \in Nodes
        BY <1>1, <2>1, <3>3 DEF Chain
      <3>5. c \in live' /\ parent'[c] = a
        BY <3>3, <3>4
      <3> QED
        BY <2>1, <3>2, <3>3, <3>5 DEF TreeOK
    <2>6. parent[m] \in Nodes \ D
      BY <1>1, <2>1, <2>3 DEF Chain, Nodes
    <2>7. {parent[m]} \cup above'[parent[m]] = Chain(parent[m])
      BY <2>6 DEF Chain
    <2> QED
      BY <2>2, <2>3, <2>4, <2>5, <2>7 DEF Chain
  <1> QED
    BY <1>1, <1>2, <1>3 DEF TreeOK, Chain

(* Freeing a subtree nobody pins (evict in the slowest tier, a victim that *)
(* finds no room below, expiry) keeps the tree, the holders and the pins.  *)
LEMMA Removal ==
  ASSUME IInv, NEW n \in live, RemoveSubtree(n),
         \A m \in {n} \cup Down(n) : pins[m] = 0,
         st' = st, hit' = hit, own' = own, op' = op
  PROVE  /\ TreeOK' /\ HoldOK' /\ HeldLive' /\ PinsExact' /\ LruExact'
         /\ \A w \in lru \ ({n} \cup Down(n)) : w \in lru' /\ tier'[w] = tier[w]
PROOF
  <1> DEFINE D == {n} \cup Down(n)
  <1>1. /\ live' = live \ D
        /\ parent' = [m \in Nodes |-> IF m \in D THEN None ELSE parent[m]]
        /\ above' = [m \in Nodes |-> IF m \in D THEN {} ELSE above[m]]
        /\ tier' = [m \in Nodes |-> IF m \in D THEN 0 ELSE tier[m]]
        /\ pins' = [m \in Nodes |-> IF m \in D THEN 0 ELSE pins[m]]
        /\ LruUpdate(D, {parent[n]})
    BY DEF RemoveSubtree
  <1>2. D \subseteq live /\ live \subseteq NodeIds /\ live \subseteq Nodes /\ D \cap Plays = {}
    BY ReqsAssumption DEF Down, IInv, TreeOK, Nodes
  <1>3. \A m \in live \ D : above[m] \cap D = {}
    BY DEF Down, IInv, TreeOK
  <1>4. \A r \in Reqs : hit[r] \notin D /\ own[r] \notin D
    BY <1>2, HolderPins DEF IInv
  <1>5. \A m \in D : ChainPin(m) = 0
    BY <1>2, HolderPins DEF IInv
  <1>6. \A m \in Nodes \ D : Chain(m)' = Chain(m)
    BY <1>1 DEF Chain
  <1> HIDE DEF D
  <1>7. TreeOK'
    <2>1. /\ parent' \in [Nodes -> Nodes \cup {None}]
          /\ above' \in [Nodes -> SUBSET Nodes]
          /\ tier' \in [Nodes -> Tiers]
          /\ pins' \in [Nodes -> Int]
      BY <1>1, <1>2, PoolAssumption DEF IInv, TreeOK, Tiers
    <2>2. \A m \in Nodes \ D : parent'[m] = parent[m] /\ above'[m] = above[m] /\ tier'[m] = tier[m]
      BY <1>1
    <2> QED
      BY <1>1, <1>2, <1>3, <2>1, <2>2, Freed DEF IInv
  <1>8. HeldLive'
    BY <1>1, <1>4 DEF IInv, HeldLive
  <1>9. HoldOK'
    <2>1. ASSUME NEW h \in Nodes \ D, \A m \in Chain(h) : tier[m] = 0, h \in live \cup Plays
          PROVE  \A m \in Chain(h)' : tier'[m] = 0
      <3>1. Chain(h) \subseteq Nodes
        BY <1>2, <2>1 DEF Chain, IInv, TreeOK
      <3> QED
        BY <1>1, <1>6, <2>1, <3>1
    <2>2. \A r \in Reqs : /\ hit[r] # None => hit[r] \in (live \cup Plays) \ D
                          /\ own[r] # None => own[r] \in (live \cup Plays) \ D
      BY <1>4 DEF IInv, HeldLive
    <2>3. live \cup Plays \subseteq Nodes
      BY <1>2 DEF Nodes
    <2> QED
      BY <2>1, <2>2, <2>3 DEF IInv, HoldOK
  <1>10. PinsExact'
    <2>1. ASSUME NEW m \in Nodes
          PROVE  ChainPin(m)' = ChainPin(m)
      <3>1. CASE op.kind = "load"
        <4>1. op.req \in Reqs /\ hit[op.req] # None
          BY <3>1 DEF IInv, CallOK, HoldOK
        <4>2. hit[op.req] \in Nodes \ D
          BY <1>2, <1>4, <4>1 DEF IInv, HeldLive, Nodes
        <4>3. above'[hit[op.req]] = above[hit[op.req]]
          BY <1>1, <4>2
        <4> QED
          BY <4>3 DEF ChainPin
      <3> QED
        BY <3>1 DEF ChainPin
    <2>2. \A m : PinHolders(m)' = PinHolders(m)
      BY DEF PinHolders
    <2>3. \A m \in D : PinHolders(m) = 0
      BY <1>4, PinHoldersCount
    <2> QED
      BY <1>1, <1>2, <1>5, <2>1, <2>2, <2>3 DEF IInv, PinsExact
  <1>11. \A m \in Nodes \ (D \cup {parent[n]}) : Evictable(m) <=> Evictable(m)'
    <2>1. ASSUME NEW m \in live \ D, NEW c \in live, parent[c] = m, c # n
          PROVE  c \notin D
      <3>1. above[c] = Chain(m)
        BY <2>1 DEF IInv, TreeOK
      <3> QED
        BY <2>1, <3>1 DEF D, Down, Chain
    <2> QED
      BY <1>1, <1>2, <2>1 DEF Evictable
  <1>12. LruExact'
    BY <1>1, <1>2, <1>11, LruStep DEF IInv
  <1>13. ASSUME NEW w \in lru \ D
         PROVE  w \in lru' /\ tier'[w] = tier[w]
    <2>1. w \in live /\ w \in live' /\ w \in Nodes /\ Evictable(w)
      BY <1>1, <1>2 DEF IInv, LruExact
    <2>2. Evictable(w)'
      BY <1>1, <1>2, <2>1 DEF Evictable
    <2> QED
      BY <1>1, <1>12, <2>1, <2>2 DEF LruExact
  <1> QED
    BY <1>7, <1>8, <1>9, <1>10, <1>12, <1>13 DEF D

(* A node of the LRU set is evictable, and what is below it in the tree is *)
(* in slower tiers.                                                        *)
LEMMA LruNode ==
  ASSUME IInv, NEW v \in lru
  PROVE  /\ v \in live /\ Evictable(v)
         /\ \A m \in Down(v) : tier[m] > tier[v]
PROOF
  <1>1. v \in live /\ Evictable(v)
    BY DEF IInv, LruExact
  <1>2. ASSUME NEW m \in Down(v)
        PROVE  tier[m] > tier[v]
    <2>1. m \in live /\ v \in above[m] /\ m \in Nodes /\ v \in Nodes
      BY <1>1 DEF Down, IInv, TreeOK, Nodes
    <2>2. PICK c \in live : c \in Chain(m) /\ parent[c] = v
      BY <2>1 DEF IInv, TreeOK
    <2>3. c \in Nodes
      BY <2>2 DEF IInv, TreeOK, Nodes
    <2>4. tier[c] > tier[v]
      BY <1>1, <2>2 DEF Evictable
    <2>5. tier[c] <= tier[m] /\ tier[m] \in Int /\ tier[c] \in Int /\ tier[v] \in Int
      BY <2>1, <2>2, <2>3 DEF Chain, IInv, TreeOK, Tiers
    <2> QED
      BY <2>4, <2>5
  <1> QED
    BY <1>1, <1>2

-----------------------------------------------------------------------------
(* ensure_free and evict.                                                  *)

(* A victim joins the chain of evict() calls; nothing else changes.        *)
LEMMA StepEvictDown ==
  ASSUME IInv, NEW v \in lru, EvictDown(v)
  PROVE  IInv'
PROOF
  <1>1. /\ UNCHANGED <<live, parent, above, tier, pins, lru, st, hit, own, op>>
        /\ stack' = Append(stack, v)
        /\ tier[v] = Len(stack) /\ Len(stack) + 1 < NTiers /\ op.kind # "none"
    BY DEF EvictDown, tree, shape, reqv, Candidates, Depth, Idle
  <1>2. v \in NodeIds
    BY LruNode DEF IInv, TreeOK
  <1>3. CallOK'
    BY <1>1, <1>2, PoolAssumption DEF IInv, CallOK
  <1>4. /\ TreeOK' /\ HeldLive' /\ LruExact'
    BY <1>1 DEF IInv, TreeOK, Chain, HeldLive, LruExact, Evictable
  <1>5. HoldOK'
    BY <1>1 DEF IInv, HoldOK, Chain
  <1>6. PinsExact'
    BY <1>1 DEF IInv, PinsExact, PinHolders, ChainPin
  <1> QED
    BY <1>3, <1>4, <1>5, <1>6 DEF IInv

(* A victim of the slowest tier is freed, and no other victim with it.     *)
LEMMA StepEvictLast ==
  ASSUME IInv, NEW v \in lru, EvictLast(v)
  PROVE  IInv'
PROOF
  <1>1. /\ UNCHANGED <<st, hit, own, op, stack>> /\ RemoveSubtree(v) /\ tier[v] = Len(stack)
    BY DEF EvictLast, reqv, Candidates, Depth
  <1>2. v \in live /\ \A m \in {v} \cup Down(v) : pins[m] = 0
    BY LruNode, UnpinnedBelow
  <1>3. /\ TreeOK' /\ HoldOK' /\ HeldLive' /\ PinsExact' /\ LruExact'
        /\ \A w \in lru \ ({v} \cup Down(v)) : w \in lru' /\ tier'[w] = tier[w]
    BY <1>1, <1>2, Removal
  <1>4. ASSUME NEW i \in 1 .. Len(stack)
        PROVE  stack[i] \notin {v} \cup Down(v)
    <2>1. stack \in Seq(NodeIds) /\ tier[stack[i]] = i - 1
      BY DEF IInv, CallOK
    <2>2. tier[stack[i]] < tier[v]
      BY <1>1, <2>1
    <2>3. \A m \in Down(v) : tier[m] > tier[v] /\ tier[m] \in Nat
      BY LruNode DEF Down, IInv, TreeOK, Nodes, Tiers
    <2> QED
      BY <1>1, <2>1, <2>2, <2>3
  <1>5. CallOK'
    BY <1>1, <1>3, <1>4 DEF IInv, CallOK
  <1> QED
    BY <1>3, <1>5 DEF IInv

(* No evict() is under way.                                                *)
LEMMA EmptyStack ==
  /\ <<>> \in Seq(NodeIds) /\ Len(<<>>) < NTiers
  /\ 1 .. Len(<<>>) = {}
PROOF
  BY PoolAssumption, EmptySeq

(* The node evict() is making room for, at the top of the stack.           *)
LEMMA VictimNode ==
  ASSUME IInv, Depth > 0
  PROVE  /\ Depth \in Nat /\ Depth < NTiers
         /\ Victim \in lru /\ tier[Victim] = Depth - 1
         /\ SubSeq(stack, 1, Depth - 1) \in Seq(NodeIds)
         /\ Len(SubSeq(stack, 1, Depth - 1)) = Depth - 1
         /\ \A i \in 1 .. Depth - 1 :
              /\ SubSeq(stack, 1, Depth - 1)[i] = stack[i]
              /\ stack[i] \in lru /\ tier[stack[i]] = i - 1
              /\ stack[i] \notin {Victim} \cup Down(Victim)
PROOF
  <1>1. /\ stack \in Seq(NodeIds) /\ Depth \in Nat /\ Depth < NTiers
        /\ \A i \in 1 .. Depth : stack[i] \in lru /\ tier[stack[i]] = i - 1
    BY DEF IInv, CallOK, Depth
  <1>2. /\ SubSeq(stack, 1, Depth - 1) \in Seq(NodeIds)
        /\ Len(SubSeq(stack, 1, Depth - 1)) = Depth - 1
        /\ \A i \in 1 .. Depth - 1 : SubSeq(stack, 1, Depth - 1)[i] = stack[i]
    <2>1. \A i \in 1 .. Depth - 1 : stack[i] \in NodeIds
      BY <1>1 DEF Depth
    <2>2. Depth - 1 \in Nat
      BY <1>1
    <2> QED
      BY <2>1, <2>2, SubSeqProperties
  <1>3. Victim \in lru /\ tier[Victim] = Depth - 1
    BY <1>1 DEF Victim
  <1>4. ASSUME NEW i \in 1 .. Depth - 1
        PROVE  stack[i] \notin {Victim} \cup Down(Victim)
    <2>1. tier[stack[i]] < tier[Victim]
      BY <1>1, <1>3
    <2> QED
      BY <1>1, <1>3, <2>1, LruNode
  <1> QED
    BY <1>1, <1>2, <1>3, <1>4

(* A victim that finds no room below is freed with what is below it.       *)
LEMMA StepDrop ==
  ASSUME IInv, Drop
  PROVE  IInv'
PROOF
  <1>1. /\ UNCHANGED <<st, hit, own, op>> /\ RemoveSubtree(Victim)
        /\ Depth > 0 /\ stack' = SubSeq(stack, 1, Depth - 1) /\ op.kind # "none"
    BY DEF Drop, reqv, Failed, Idle
  <1>2. Victim \in live /\ \A m \in {Victim} \cup Down(Victim) : pins[m] = 0
    BY <1>1, VictimNode, LruNode, UnpinnedBelow
  <1>3. /\ TreeOK' /\ HoldOK' /\ HeldLive' /\ PinsExact' /\ LruExact'
        /\ \A w \in lru \ ({Victim} \cup Down(Victim)) : w \in lru' /\ tier'[w] = tier[w]
    BY <1>1, <1>2, Removal
  <1>4. /\ stack' \in Seq(NodeIds) /\ Len(stack') < NTiers
        /\ \A i \in 1 .. Len(stack') : stack'[i] \in lru' /\ tier'[stack'[i]] = i - 1
    BY <1>1, <1>3, VictimNode, PoolAssumption
  <1>5. CallOK'
    BY <1>1, <1>4 DEF IInv, CallOK
  <1> QED
    BY <1>3, <1>5 DEF IInv

(* An expired subtree nobody pins is freed.                                *)
LEMMA StepExpire ==
  ASSUME IInv, NEW n \in live, Expire(n)
  PROVE  IInv'
PROOF
  <1>1. /\ UNCHANGED <<st, hit, own, op, stack>> /\ RemoveSubtree(n)
        /\ \A m \in {n} \cup Down(n) : pins[m] = 0 /\ op.kind = "none"
    BY DEF Expire, reqv, Idle
  <1>2. /\ TreeOK' /\ HoldOK' /\ HeldLive' /\ PinsExact' /\ LruExact'
    BY <1>1, Removal
  <1>3. stack = <<>> /\ op.kind = "none"
    BY <1>1 DEF IInv, CallOK
  <1>4. CallOK'
    BY <1>1, <1>3, EmptyStack DEF CallOK
  <1> QED
    BY <1>2, <1>4 DEF IInv

(* The victim moves down a tier: the nodes below it are further down.      *)
LEMMA StepOffload ==
  ASSUME IInv, Offload
  PROVE  IInv'
PROOF
  <1> DEFINE v == Victim
             d == Depth
  <1>1. /\ UNCHANGED <<live, parent, above, pins, st, hit, own, op>>
        /\ tier' = [tier EXCEPT ![v] = d] /\ LruUpdate({v}, {v, parent[v]})
        /\ d > 0 /\ stack' = SubSeq(stack, 1, d - 1) /\ op.kind # "none"
    BY DEF Offload, reqv, shape, Enough, Idle
  <1>2. /\ d \in Nat /\ d < NTiers /\ v \in lru /\ tier[v] = d - 1
        /\ stack' \in Seq(NodeIds) /\ Len(stack') = d - 1
        /\ \A i \in 1 .. d - 1 :
             /\ stack'[i] = stack[i]
             /\ stack[i] \in lru /\ tier[stack[i]] = i - 1
             /\ stack[i] \notin {v} \cup Down(v)
    BY <1>1, VictimNode
  <1> HIDE DEF v, d
  <1>3. v \in live /\ Evictable(v) /\ \A m \in Down(v) : tier[m] > tier[v]
    BY <1>2, LruNode
  <1>4. live \subseteq Nodes /\ v \in Nodes /\ v \notin Plays
    BY <1>3, ReqsAssumption DEF IInv, TreeOK, Nodes
  <1>5. /\ tier' \in [Nodes -> Tiers]
        /\ \A m \in Nodes \ {v} : tier'[m] = tier[m]
        /\ tier'[v] = d
        /\ \A m \in Nodes : tier[m] \in Nat
    BY <1>1, <1>2, <1>4, PoolAssumption DEF IInv, TreeOK, Tiers
  <1>6. TreeOK'
    <2>1. ASSUME NEW m \in live, NEW a \in above[m]
          PROVE  tier'[a] <= tier'[m]
      <3>1. a \in Nodes /\ m \in Nodes /\ tier[a] <= tier[m] /\ a # m
        BY <1>4, <2>1 DEF IInv, TreeOK, Nodes
      <3>2. CASE a = v
        <4>1. m \in Down(v)
          BY <2>1, <3>2 DEF Down
        <4> QED
          BY <1>2, <1>3, <1>5, <3>1, <3>2, <4>1
      <3>3. CASE a # v
        BY <1>2, <1>5, <3>1, <3>3
      <3> QED
        BY <3>2, <3>3
    <2>2. \A n \in Plays : tier'[n] = 0
      BY <1>4, <1>5 DEF IInv, TreeOK, Nodes
    <2> QED
      BY <1>1, <1>5, <2>1, <2>2 DEF IInv, TreeOK, Chain
  <1>7. HoldOK'
    <2>1. \A r \in Reqs : /\ hit[r] # None => v \notin Chain(hit[r]) /\ Chain(hit[r]) \subseteq Nodes
                          /\ own[r] # None => v \notin Chain(own[r]) /\ Chain(own[r]) \subseteq Nodes
      BY <1>3, Unheld DEF IInv, HoldOK, TreeOK, Chain, Nodes
    <2> QED
      BY <1>1, <1>5, <2>1 DEF IInv, HoldOK, Chain
  <1>8. HeldLive' /\ PinsExact'
    BY <1>1 DEF IInv, HeldLive, PinsExact, PinHolders, ChainPin
  <1>9. LruExact'
    <2>1. \A n \in Nodes \ {v, parent[v]} : Evictable(n) <=> Evictable(n)'
      BY <1>1, <1>4, <1>5 DEF Evictable
    <2> QED
      BY <1>1, <1>4, <2>1, LruStep DEF IInv
  <1>10. ASSUME NEW w \in lru, w # v
         PROVE  w \in lru' /\ tier'[w] = tier[w]
    <2>1. w \in live /\ Evictable(w) /\ w \in Nodes
      BY <1>4, <1>10, LruNode
    <2>2. \A c \in Nodes : tier'[c] >= tier[c] /\ tier[c] \in Nat /\ tier'[c] \in Nat
      BY <1>2, <1>4, <1>5
    <2>3. tier'[w] = tier[w]
      BY <1>5, <1>10, <2>1
    <2>4. ASSUME NEW c \in live, parent[c] = w
          PROVE  tier'[c] > tier'[w]
      <3>1. tier[c] > tier[w] /\ c \in Nodes
        BY <1>4, <2>1, <2>4 DEF Evictable
      <3> QED
        BY <2>1, <2>2, <2>3, <3>1
    <2>5. Evictable(w)'
      BY <1>1, <2>1, <2>4 DEF Evictable
    <2> QED
      BY <1>1, <1>9, <2>1, <2>3, <2>5 DEF LruExact
  <1>11. CallOK'
    <2>1. \A i \in 1 .. d - 1 : stack'[i] \in lru' /\ tier'[stack'[i]] = i - 1
      BY <1>2, <1>10
    <2> QED
      BY <1>1, <1>2, <2>1, PoolAssumption DEF IInv, CallOK
  <1> QED
    BY <1>6, <1>7, <1>8, <1>9, <1>11 DEF IInv

(* ensure_free() and evict(), whatever the tiers, keep the invariant.      *)
THEOREM StepEnsureFree ==
  ASSUME IInv, EnsureFree
  PROVE  IInv'
PROOF
  BY StepEvictDown, StepEvictLast, StepOffload, StepDrop DEF EnsureFree

-----------------------------------------------------------------------------
(* Steps that change holders and pins, and leave the tree alone.           *)

(* The count of a node's holders when only request r changes what it holds. *)
LEMMA HoldersBoth ==
  ASSUME NEW r \in Reqs, NEW n,
         \A s \in Reqs \ {r} : hit'[s] = hit[s],
         \A s \in Reqs \ {r} : own'[s] = own[s]
  PROVE  PinHolders(n)' = PinHolders(n) - Is(hit[r], n) + Is(hit'[r], n)
                                        - Is(own[r], n) + Is(own'[r], n)
PROOF
  <1> DEFINE H == {s \in Reqs : hit[s] = n}
             K == {s \in Reqs : hit'[s] = n}
             P == {s \in Reqs : own[s] = n}
             Q == {s \in Reqs : own'[s] = n}
  <1>1. PinHolders(n) = Cardinality(H) + Cardinality(P)
    BY DEF PinHolders, HeldAt
  <1>2. PinHolders(n)' = Cardinality(K) + Cardinality(Q)
    BY DEF PinHolders, HeldAt
  <1>3. IsFiniteSet(H) /\ IsFiniteSet(P)
    BY FS_Subset, ReqsAssumption
  <1>4. /\ (r \in H <=> hit[r] = n) /\ (r \in K <=> hit'[r] = n)
        /\ (r \in P <=> own[r] = n) /\ (r \in Q <=> own'[r] = n)
    OBVIOUS
  <1>5. K \ {r} = H \ {r}
    OBVIOUS
  <1>6. Q \ {r} = P \ {r}
    OBVIOUS
  <1> HIDE DEF H, K, P, Q
  <1>7. Cardinality(K) = Cardinality(H) - Is(hit[r], n) + Is(hit'[r], n)
    BY <1>3, <1>4, <1>5, CountExcept DEF Is
  <1>8. Cardinality(Q) = Cardinality(P) - Is(own[r], n) + Is(own'[r], n)
    BY <1>3, <1>4, <1>6, CountExcept DEF Is
  <1>9. Cardinality(H) \in Nat /\ Cardinality(P) \in Nat
    BY <1>3, FS_CardinalityType
  <1> QED
    BY <1>1, <1>2, <1>7, <1>8, <1>9 DEF Is

(* ... and when it changes its hit_node only.                              *)
LEMMA HoldersHit ==
  ASSUME NEW r \in Reqs, NEW n, own' = own,
         \A s \in Reqs \ {r} : hit'[s] = hit[s]
  PROVE  PinHolders(n)' = PinHolders(n) - Is(hit[r], n) + Is(hit'[r], n)
PROOF
  <1>1. PinHolders(n) \in Nat
    BY PinHoldersCount
  <1>2. PinHolders(n)' = PinHolders(n) - Is(hit[r], n) + Is(hit'[r], n)
                                       - Is(own[r], n) + Is(own'[r], n)
    BY HoldersBoth
  <1> QED
    BY <1>1, <1>2 DEF Is

(* The tree and the LRU sets when only pins of updated nodes change.       *)
LEMMA PinStep ==
  ASSUME IInv, UNCHANGED <<live, parent, above, tier>>,
         NEW T, LruUpdate({}, T),
         pins' \in [Nodes -> Int], \A n \in Nodes \ T : pins'[n] = pins[n]
  PROVE  TreeOK' /\ LruExact'
PROOF
  <1>1. TreeOK'
    BY DEF IInv, TreeOK, Chain
  <1>2. \A n \in Nodes \ ({} \cup T) : Evictable(n) <=> Evictable(n)'
    BY DEF Evictable
  <1>3. live \subseteq Nodes /\ live' \subseteq Nodes
    BY DEF IInv, TreeOK, Nodes
  <1>4. LruExact'
    BY <1>2, <1>3, LruStep DEF IInv
  <1> QED
    BY <1>1, <1>4

(* A lookup ends at a node of the tree or at the root.                     *)
LEMMA HitsNode ==
  ASSUME IInv, NEW r \in Reqs, NEW h \in Hits(r)
  PROVE  h.node \in live \cup Plays
PROOF
  <1> DEFINE H == Prompt[r]
             p == PlayOf[r]
  <1>1. p \in Plays /\ Len(H) > 0
    BY ReqsAssumption, PromptAssumption
  <1>2. PICK g \in Lookup(p, H) : h = BackOff(g, H)
    BY DEF Hits
  <1>3. CASE g = [node |-> p, off |-> 0, blocks |-> 0]
    BY <1>1, <1>2, <1>3 DEF BackOff
  <1>4. CASE g \in Matches(p, H)
    <2>1. PICK n \in live, i \in 1 .. Len(H) : g = Match(n, H, i)
      BY <1>4 DEF Matches
    <2>2. h.node \in {n, parent[n]}
      BY <1>2, <2>1 DEF BackOff, Match
    <2>3. parent[n] \in live \cup Plays
      BY DEF IInv, TreeOK, Chain
    <2> QED
      BY <2>2, <2>3
  <1> QED
    BY <1>2, <1>3, <1>4 DEF Lookup

(* What is above a node in the tree, and what its tiers are.               *)
LEMMA ChainNodes ==
  ASSUME IInv, NEW h \in live \cup Plays
  PROVE  /\ h \in Nodes /\ h # None /\ h \notin above[h]
         /\ Chain(h) \subseteq live \cup Plays /\ Chain(h) \subseteq Nodes
         /\ \A n \in Chain(h) : tier[n] \in Tiers /\ Chain(n) \subseteq Chain(h)
PROOF
  BY ReqsAssumption DEF IInv, TreeOK, Chain, Nodes

(* The chain of a prefix in a slower tier is pinned, node by node.         *)
LEMMA StepBeginLoad ==
  ASSUME IInv, NEW r \in Reqs, NEW h \in Hits(r), BeginLoad(r, h)
  PROVE  IInv'
PROOF
  <1> DEFINE k == h.node
  <1>1. /\ UNCHANGED <<live, parent, above, tier, st, own>>
        /\ op.kind = "none" /\ st[r] = "queued"
        /\ hit' = [hit EXCEPT ![r] = k]
        /\ pins' = [n \in Nodes |-> IF n \in Chain(k) THEN pins[n] + 1 ELSE pins[n]]
        /\ op'.kind = "load" /\ op'.req = r /\ stack' = <<>>
        /\ LruUpdate({}, Chain(k))
    BY DEF BeginLoad, Idle, Waiting, Queued, Call, shape
  <1>2. k \in live \cup Plays
    BY HitsNode
  <1> HIDE DEF k
  <1>3. TreeOK' /\ LruExact'
    <2>1. pins' \in [Nodes -> Int] /\ \A n \in Nodes \ Chain(k) : pins'[n] = pins[n]
      BY <1>1 DEF IInv, TreeOK
    <2> QED
      BY <1>1, <2>1, PinStep
  <1>4. hit[r] = None
    BY <1>1 DEF IInv, HoldOK
  <1>5. hit'[r] = k /\ \A s \in Reqs \ {r} : hit'[s] = hit[s]
    BY <1>1 DEF IInv, HoldOK
  <1>6. HoldOK' /\ HeldLive'
    <2>1. k \in Nodes /\ k # None
      BY <1>2, ChainNodes
    <2>2. hit' \in [Reqs -> Nodes \cup {None}]
      BY <1>1, <2>1 DEF IInv, HoldOK
    <2>3. HeldLive'
      BY <1>1, <1>2, <1>5 DEF IInv, HeldLive
    <2>4. HoldOK'
      BY <1>1, <1>5, <2>1, <2>2 DEF IInv, HoldOK, Chain
    <2> QED
      BY <2>3, <2>4
  <1>7. CallOK'
    BY <1>1, EmptyStack DEF IInv, CallOK
  <1>8. ASSUME NEW n \in Nodes
        PROVE  pins'[n] = PinHolders(n)' + ChainPin(n)' + (IF n \in Plays THEN 1 ELSE 0)
    <2>1. PinHolders(n)' = PinHolders(n) - Is(hit[r], n) + Is(hit'[r], n)
      BY <1>1, <1>5, HoldersHit
    <2>2. Is(hit[r], n) = 0
      BY <1>4, ReqsAssumption DEF Is
    <2>3. ChainPin(n) = 0 /\ ChainPin(n)' = IF n \in above[k] THEN 1 ELSE 0
      BY <1>1, <1>5 DEF ChainPin
    <2>4. pins[n] = PinHolders(n) + ChainPin(n) + (IF n \in Plays THEN 1 ELSE 0)
      BY DEF IInv, PinsExact
    <2>5. PinHolders(n) \in Nat
      BY PinHoldersCount
    <2>6. k \notin above[k]
      BY <1>2, ChainNodes
    <2>7. pins'[n] = pins[n] + (IF n = k \/ n \in above[k] THEN 1 ELSE 0)
      BY <1>1, <2>4, <2>5, <2>3 DEF Chain
    <2> QED
      BY <1>5, <2>1, <2>2, <2>3, <2>4, <2>5, <2>6, <2>7 DEF Is
  <1>9. PinsExact'
    BY <1>8 DEF PinsExact
  <1> QED
    BY <1>3, <1>6, <1>7, <1>9 DEF IInv

(* A step that leaves the tree, the holders and the pins alone.            *)
LEMMA SameTree ==
  ASSUME IInv, UNCHANGED <<live, parent, above, tier, pins, lru, hit, own>>,
         op.kind # "load", op'.kind # "load"
  PROVE  TreeOK' /\ LruExact' /\ HeldLive' /\ PinsExact'
PROOF
  <1>1. TreeOK' /\ LruExact' /\ HeldLive'
    BY DEF IInv, TreeOK, Chain, LruExact, Evictable, HeldLive
  <1>2. PinsExact'
    BY DEF IInv, PinsExact, PinHolders, HeldAt, ChainPin
  <1> QED
    BY <1>1, <1>2

(* A pass asks for tokens, gets them, or finds no room.                    *)
LEMMA StepGrow ==
  ASSUME IInv, \/ \E r \in Reqs, tok \in Int : BeginGrow(r, tok)
               \/ GrowFailed \/ GrowOk
  PROVE  IInv'
PROOF
  <1>1. /\ UNCHANGED <<live, parent, above, tier, pins, lru, hit, own, st>>
        /\ op.kind \notin {"load", "admit"} /\ op'.kind \in {"none", "grow"}
        /\ op'.kind = "grow" => op'.req \in Reqs
        /\ stack' = <<>>
    <2>1. CASE \E r \in Reqs, tok \in Int : BeginGrow(r, tok)
      BY <2>1 DEF BeginGrow, Serving, Call, Idle, tree, shape, reqv
    <2>2. CASE GrowFailed
      BY <2>2 DEF GrowFailed, Return, NoOp, tree, shape, reqv
    <2>3. CASE GrowOk
      BY <2>3 DEF GrowOk, Return, NoOp, tree, shape
    <2> QED
      BY <2>1, <2>2, <2>3
  <1>2. TreeOK' /\ LruExact' /\ HeldLive' /\ PinsExact'
    BY <1>1, SameTree
  <1>3. HoldOK'
    BY <1>1 DEF IInv, HoldOK, Chain
  <1>4. CallOK'
    BY <1>1, EmptyStack DEF CallOK
  <1> QED
    BY <1>2, <1>3, <1>4 DEF IInv

(* Commits that leave the tree alone, and rejection.                       *)
LEMMA StepCompute ==
  ASSUME IInv, NEW r \in Reqs,
         \/ CommitChunk(r)
         \/ \E k \in Int : CommitDecode(r, k)
         \/ Reject(r)
  PROVE  IInv'
PROOF
  <1>1. /\ UNCHANGED <<live, parent, above, tier, pins, lru, hit, own, op, stack>>
        /\ op.kind = "none"
        /\ st' = st \/ (st[r] = "queued" /\ st' = [st EXCEPT ![r] = "done"])
    BY DEF CommitChunk, CommitDecode, Reject, Queued, Idle, tree, shape
  <1>2. TreeOK' /\ LruExact' /\ HeldLive' /\ PinsExact'
    BY <1>1, SameTree
  <1>3. HoldOK'
    BY <1>1 DEF IInv, HoldOK, Chain
  <1>4. CallOK'
    BY <1>1 DEF IInv, CallOK
  <1> QED
    BY <1>2, <1>3, <1>4 DEF IInv

(* The request joins the batch with the pin it has.                        *)
LEMMA StepAdmitOk ==
  ASSUME IInv, AdmitOk
  PROVE  IInv'
PROOF
  <1>1. /\ UNCHANGED <<live, parent, above, tier, pins, lru, hit, own>>
        /\ op.kind = "admit" /\ op'.kind = "none" /\ stack' = <<>>
        /\ st' = [st EXCEPT ![op.req] = "prefill"]
    BY DEF AdmitOk, Return, NoOp, tree, shape
  <1>2. op.req \in Reqs /\ st[op.req] = "queued"
    BY <1>1 DEF IInv, CallOK
  <1>3. TreeOK' /\ LruExact' /\ HeldLive' /\ PinsExact'
    BY <1>1, SameTree
  <1>4. HoldOK'
    BY <1>1, <1>2 DEF IInv, HoldOK, Chain
  <1>5. CallOK'
    BY <1>1, EmptyStack DEF CallOK
  <1> QED
    BY <1>3, <1>4, <1>5 DEF IInv

(* pin_hit without a split.                                                *)
LEMMA StepPinWhole ==
  ASSUME IInv, NEW r \in Reqs, NEW h \in Hits(r), NEW chunk, PinWhole(r, h, chunk)
  PROVE  IInv'
PROOF
  <1> DEFINE k == h.node
  <1>1. /\ UNCHANGED <<live, parent, above, tier, st, own>>
        /\ op.kind = "none" /\ st[r] = "queued"
        /\ \A n \in Chain(k) : ~ tier[n] > 0
        /\ hit' = [hit EXCEPT ![r] = k]
        /\ pins' = [pins EXCEPT ![k] = @ + 1]
        /\ op'.kind = "admit" /\ op'.req = r /\ stack' = <<>>
        /\ LruUpdate({}, {k})
    BY DEF PinWhole, Idle, Waiting, Queued, Call, shape, Lower
  <1>2. k \in live \cup Plays
    BY HitsNode
  <1> HIDE DEF k
  <1>3. /\ k \in Nodes /\ k # None /\ \A n \in Chain(k) : tier[n] = 0
        /\ \A n \in Nodes : pins[n] \in Int /\ pins'[n] = pins[n] + Is(k, n)
        /\ pins' \in [Nodes -> Int]
    BY <1>1, <1>2, ChainNodes DEF Tiers, IInv, TreeOK, Is
  <1>4. TreeOK' /\ LruExact'
    <2>1. \A n \in Nodes \ {k} : pins'[n] = pins[n]
      BY <1>3 DEF Is
    <2> QED
      BY <1>1, <1>3, <2>1, PinStep
  <1>5. hit[r] = None /\ hit'[r] = k /\ \A s \in Reqs \ {r} : hit'[s] = hit[s]
    BY <1>1 DEF IInv, HoldOK
  <1>6. HoldOK' /\ HeldLive'
    <2>1. hit' \in [Reqs -> Nodes \cup {None}]
      BY <1>1, <1>3 DEF IInv, HoldOK
    <2>2. HeldLive'
      BY <1>1, <1>2, <1>5 DEF IInv, HeldLive
    <2>3. HoldOK'
      BY <1>1, <1>3, <1>5, <2>1 DEF IInv, HoldOK, Chain
    <2> QED
      BY <2>2, <2>3
  <1>7. CallOK'
    BY <1>1, EmptyStack DEF IInv, CallOK
  <1>8. ASSUME NEW n \in Nodes
        PROVE  pins'[n] = PinHolders(n)' + ChainPin(n)' + (IF n \in Plays THEN 1 ELSE 0)
    <2>1. PinHolders(n)' = PinHolders(n) - Is(hit[r], n) + Is(hit'[r], n)
      BY <1>1, <1>5, HoldersHit
    <2>2. Is(hit[r], n) = 0
      BY <1>5, ReqsAssumption DEF Is
    <2>3. ChainPin(n) = 0 /\ ChainPin(n)' = 0
      BY <1>1 DEF ChainPin
    <2>4. pins[n] = PinHolders(n) + ChainPin(n) + (IF n \in Plays THEN 1 ELSE 0)
      BY DEF IInv, PinsExact
    <2>5. PinHolders(n) \in Nat
      BY PinHoldersCount
    <2> QED
      BY <1>3, <1>5, <2>1, <2>2, <2>3, <2>4, <2>5 DEF Is
  <1>9. PinsExact'
    BY <1>8 DEF PinsExact
  <1> QED
    BY <1>4, <1>6, <1>7, <1>9 DEF IInv

(* A request lets go of its hit and of its own node, if it has one.        *)
LEMMA Released ==
  ASSUME IInv, NEW r \in Reqs, hit[r] # None, op.kind # "load",
         UNCHANGED <<live, parent, above, tier>>,
         Unpin(r),
         hit' = [hit EXCEPT ![r] = None], own' = [own EXCEPT ![r] = None],
         NEW w \in {"queued", "done"}, st' = [st EXCEPT ![r] = w],
         NEW T, LruUpdate({}, T), hit[r] \in T, own[r] \in T \cup {None},
         op.kind = "none" \/ op.req = r,
         op'.kind = "none", stack' = <<>>
  PROVE  IInv'
PROOF
  <1>0. /\ pins' \in [Nodes -> Int]
        /\ \A n \in Nodes : pins'[n] = pins[n] - Is(hit[r], n) - Is(own[r], n)
    <2>1. \A n \in Nodes : pins[n] \in Int /\ Is(hit[r], n) \in Int /\ Is(own[r], n) \in Int
      BY DEF IInv, TreeOK, Is
    <2>2. \A n \in Nodes : Holds(r, n) = Is(hit[r], n) + Is(own[r], n)
      BY DEF Holds, Is
    <2> QED
      BY <2>1, <2>2 DEF Unpin
  <1>1. TreeOK' /\ LruExact'
    <2>1. \A n \in Nodes \ T : pins[n] \in Int /\ Is(hit[r], n) = 0 /\ Is(own[r], n) = 0
      BY ReqsAssumption DEF Is, IInv, TreeOK
    <2>2. \A n \in Nodes \ T : pins'[n] = pins[n]
      BY <1>0, <2>1
    <2> QED
      BY <1>0, <2>2, PinStep
  <1>2. /\ hit'[r] = None /\ own'[r] = None
        /\ \A s \in Reqs \ {r} : hit'[s] = hit[s]
        /\ \A s \in Reqs \ {r} : own'[s] = own[s]
    BY DEF IInv, HoldOK
  <1>3. HeldLive'
    BY <1>2 DEF IInv, HeldLive
  <1>4. HoldOK'
    BY <1>2 DEF IInv, HoldOK, Chain
  <1>5. CallOK'
    BY EmptyStack DEF CallOK
  <1>6. ASSUME NEW n \in Nodes
        PROVE  pins'[n] = PinHolders(n)' + ChainPin(n)' + (IF n \in Plays THEN 1 ELSE 0)
    <2>1. PinHolders(n)' = PinHolders(n) - Is(hit[r], n) + Is(hit'[r], n)
                                         - Is(own[r], n) + Is(own'[r], n)
      BY <1>2, HoldersBoth
    <2>2. Is(hit'[r], n) = 0 /\ Is(own'[r], n) = 0
      BY <1>2, ReqsAssumption DEF Is
    <2>3. ChainPin(n) = 0 /\ ChainPin(n)' = 0
      BY DEF ChainPin
    <2>4. pins[n] = PinHolders(n) + ChainPin(n) + (IF n \in Plays THEN 1 ELSE 0)
      BY DEF IInv, PinsExact
    <2>5. PinHolders(n) \in Nat
      BY PinHoldersCount
    <2> QED
      BY <1>0, <2>1, <2>2, <2>3, <2>4, <2>5 DEF Is
  <1>7. PinsExact'
    BY <1>6 DEF PinsExact
  <1> QED
    BY <1>1, <1>3, <1>4, <1>5, <1>7 DEF IInv

(* No room for the first chunk: the hit is unpinned.                       *)
LEMMA StepAdmitBlocked ==
  ASSUME IInv, AdmitBlocked
  PROVE  IInv'
PROOF
  <1> DEFINE r == op.req
  <1>1. /\ UNCHANGED <<live, parent, above, tier, st, own>>
        /\ op.kind = "admit" /\ op'.kind = "none" /\ stack' = <<>>
        /\ Unpin(r)
        /\ hit' = [hit EXCEPT ![r] = None]
        /\ LruUpdate({}, {hit[r]})
    BY DEF AdmitBlocked, Return, NoOp, shape
  <1>2. r \in Reqs /\ st[r] = "queued" /\ hit[r] # None /\ own[r] = None
    BY <1>1 DEF IInv, CallOK, HoldOK
  <1> HIDE DEF r
  <1>4. st' = [st EXCEPT ![r] = "queued"] /\ own' = [own EXCEPT ![r] = None]
    BY <1>1, <1>2 DEF IInv, HoldOK
  <1> QED
    BY <1>1, <1>2, <1>4, Released DEF r

(* The load ends: the request returns to the queue and lets its hit go.    *)
LEMMA StepLoadDone ==
  ASSUME IInv, NEW r \in Reqs, LoadDone(r)
  PROVE  IInv'
PROOF
  <1>1. /\ UNCHANGED <<live, parent, above, tier, own, op, stack>>
        /\ op.kind = "none" /\ st[r] = "loading"
        /\ Unpin(r)
        /\ hit' = [hit EXCEPT ![r] = None]
        /\ st' = [st EXCEPT ![r] = "queued"]
        /\ LruUpdate({}, {hit[r]})
    BY DEF LoadDone, Idle, shape
  <1>2. hit[r] # None /\ own[r] = None /\ stack' = <<>>
    BY <1>1 DEF IInv, CallOK, HoldOK
  <1>4. own' = [own EXCEPT ![r] = None]
    BY <1>1, <1>2 DEF IInv, HoldOK
  <1> QED
    BY <1>1, <1>2, <1>4, Released

(* finish() of a decode.                                                   *)
LEMMA StepCommitLast ==
  ASSUME IInv, NEW r \in Reqs, NEW k, CommitLast(r, k)
  PROVE  IInv'
PROOF
  <1>1. /\ UNCHANGED <<live, parent, above, tier, op, stack>>
        /\ op.kind = "none" /\ st[r] = "decode"
        /\ Unpin(r)
        /\ hit' = [hit EXCEPT ![r] = None] /\ own' = [own EXCEPT ![r] = None]
        /\ st' = [st EXCEPT ![r] = "done"]
        /\ LruUpdate({}, {own[r], hit[r]})
    BY DEF CommitLast, Idle, shape
  <1>2. /\ hit[r] # None /\ own[r] # None /\ stack' = <<>>
        /\ hit[r] \in Nodes /\ own[r] \in Nodes
    BY <1>1 DEF IInv, CallOK, HoldOK, Nodes
  <1> QED
    BY <1>1, <1>2, Released

(* preempt() of a decode whose node others use.                            *)
LEMMA StepPreemptKeep ==
  ASSUME IInv, NEW r \in Reqs, PreemptKeep(r)
  PROVE  IInv'
PROOF
  <1>1. /\ UNCHANGED <<live, parent, above, tier, op, stack>>
        /\ op.kind = "none" /\ own[r] # None
        /\ Unpin(r)
        /\ hit' = [hit EXCEPT ![r] = None] /\ own' = [own EXCEPT ![r] = None]
        /\ st' = [st EXCEPT ![r] = "queued"]
        /\ LruUpdate({}, {own[r], hit[r]})
    BY DEF PreemptKeep, Preempting, Serving, Requeue, Idle, shape
  <1>2. /\ hit[r] # None /\ stack' = <<>>
        /\ hit[r] \in Nodes /\ own[r] \in Nodes
    BY <1>1 DEF IInv, CallOK, HoldOK, Nodes
  <1> QED
    BY <1>1, <1>2, Released

(* preempt() of a prefill.                                                 *)
LEMMA StepPreemptPrefill ==
  ASSUME IInv, NEW r \in Reqs, PreemptPrefill(r)
  PROVE  IInv'
PROOF
  <1>1. /\ UNCHANGED <<live, parent, above, tier, op, stack>>
        /\ op.kind = "none" /\ own[r] = None /\ st[r] \in {"prefill", "decode"}
        /\ Unpin(r)
        /\ hit' = [hit EXCEPT ![r] = None] /\ own' = [own EXCEPT ![r] = None]
        /\ st' = [st EXCEPT ![r] = "queued"]
        /\ LruUpdate({}, {hit[r]})
    BY DEF PreemptPrefill, Preempting, Serving, Requeue, Idle, shape
  <1>2. hit[r] # None /\ stack' = <<>> /\ hit[r] \in Nodes
    BY <1>1 DEF IInv, CallOK, HoldOK
  <1> QED
    BY <1>1, <1>2, Released

(* The load finds no room: the pins of the whole chain are given back.     *)
LEMMA StepLoadBlocked ==
  ASSUME IInv, LoadBlocked
  PROVE  IInv'
PROOF
  <1> DEFINE r == op.req
             h == hit[r]
  <1>1. /\ UNCHANGED <<live, parent, above, tier, st, own>>
        /\ op.kind = "load" /\ op'.kind = "none" /\ stack' = <<>>
        /\ pins' = [n \in Nodes |-> IF n \in Chain(h) THEN pins[n] - 1 ELSE pins[n]]
        /\ hit' = [hit EXCEPT ![r] = None]
        /\ LruUpdate({}, Chain(h))
    BY DEF LoadBlocked, Return, NoOp, shape
  <1>2. r \in Reqs /\ st[r] = "queued" /\ h # None /\ h \in live \cup Plays
    BY <1>1 DEF IInv, CallOK, HoldOK, HeldLive
  <1>3. TreeOK' /\ LruExact'
    <2>1. pins' \in [Nodes -> Int] /\ \A n \in Nodes \ Chain(h) : pins'[n] = pins[n]
      BY <1>1 DEF IInv, TreeOK
    <2> HIDE DEF h
    <2> QED
      BY <1>1, <2>1, PinStep
  <1>4. hit'[r] = None /\ \A s \in Reqs \ {r} : hit'[s] = hit[s]
    BY <1>1, <1>2 DEF IInv, HoldOK
  <1>5. HeldLive' /\ CallOK'
    BY <1>1, <1>4, EmptyStack DEF IInv, HeldLive, CallOK
  <1>6. HoldOK'
    <2>1. hit' \in [Reqs -> Nodes \cup {None}]
      BY <1>1 DEF IInv, HoldOK
    <2> QED
      BY <1>1, <1>2, <1>4, <2>1 DEF IInv, HoldOK, Chain
  <1>7. ASSUME NEW n \in Nodes
        PROVE  pins'[n] = PinHolders(n)' + ChainPin(n)' + (IF n \in Plays THEN 1 ELSE 0)
    <2> HIDE DEF r
    <2>1. PinHolders(n)' = PinHolders(n) - Is(hit[r], n) + Is(hit'[r], n)
      BY <1>1, <1>2, <1>4, HoldersHit
    <2>2. Is(hit'[r], n) = 0
      BY <1>4, ReqsAssumption DEF Is
    <2>3. ChainPin(n) = (IF n \in above[h] THEN 1 ELSE 0) /\ ChainPin(n)' = 0
      BY <1>1 DEF ChainPin, r
    <2>4. pins[n] = PinHolders(n) + ChainPin(n) + (IF n \in Plays THEN 1 ELSE 0)
      BY DEF IInv, PinsExact
    <2>5. PinHolders(n) \in Nat
      BY PinHoldersCount
    <2>6. h \notin above[h]
      BY <1>2, ChainNodes
    <2>7. pins'[n] = pins[n] - (IF n = h \/ n \in above[h] THEN 1 ELSE 0)
      BY <1>1, <2>4, <2>5, <2>3 DEF Chain
    <2> QED
      BY <2>1, <2>2, <2>3, <2>4, <2>5, <2>6, <2>7 DEF Is
  <1>8. PinsExact'
    BY <1>7 DEF PinsExact
  <1> QED
    BY <1>3, <1>5, <1>6, <1>8 DEF IInv

(* The prefix moves to HBM: nodes only get faster, and whole chains do.    *)
LEMMA StepLoadStart ==
  ASSUME IInv, LoadStart
  PROVE  IInv'
PROOF
  <1> DEFINE r == op.req
             h == hit[r]
  <1>1. /\ UNCHANGED <<live, parent, above, hit, own>>
        /\ op.kind = "load" /\ op'.kind = "none" /\ stack' = <<>>
        /\ tier' = [n \in Nodes |-> IF n \in LowerChain(h) THEN 0 ELSE tier[n]]
        /\ pins' = [n \in Nodes |-> IF n \in above[h] THEN pins[n] - 1 ELSE pins[n]]
        /\ st' = [st EXCEPT ![r] = "loading"]
        /\ LruUpdate({}, Chain(h))
    BY DEF LoadStart, Return, NoOp, shape
  <1>2. r \in Reqs /\ st[r] = "queued" /\ h # None /\ h \in live \cup Plays
    BY <1>1 DEF IInv, CallOK, HoldOK, HeldLive
  <1> HIDE DEF h
  <1>3. \A n \in Nodes : tier[n] \in Nat
    BY DEF IInv, TreeOK, Tiers
  <1>4. \A n \in Nodes : tier'[n] = IF n \in Chain(h) THEN 0 ELSE tier[n]
    BY <1>1, <1>3 DEF LowerChain
  <1>5. TreeOK'
    <2>1. tier' \in [Nodes -> Tiers] /\ pins' \in [Nodes -> Int]
      BY <1>1, PoolAssumption DEF IInv, TreeOK, Tiers
    <2>2. \A n \in Plays : tier'[n] = 0
      BY <1>4 DEF IInv, TreeOK, Nodes
    <2>3. ASSUME NEW n \in live, NEW a \in above[n]
          PROVE  tier'[a] <= tier'[n]
      <3>1. n \in Nodes /\ a \in Nodes /\ tier[a] <= tier[n]
        BY <2>3 DEF IInv, TreeOK, Nodes
      <3>2. n \in Chain(h) => a \in Chain(h)
        <4>1. n \in Chain(h) => Chain(n) \subseteq Chain(h)
          BY <1>2, ChainNodes
        <4> QED
          BY <2>3, <4>1 DEF Chain
      <3> QED
        BY <1>3, <1>4, <3>1, <3>2
    <2> QED
      BY <1>1, <2>1, <2>2, <2>3 DEF IInv, TreeOK, Chain
  <1>6. LruExact'
    <2>1. ASSUME NEW n \in Nodes \ Chain(h)
          PROVE  Evictable(n) <=> Evictable(n)'
      <3>1. pins'[n] = pins[n] /\ tier'[n] = tier[n]
        BY <1>1, <1>4 DEF Chain
      <3>2. ASSUME NEW c \in live, parent[c] = n
            PROVE  tier'[c] = tier[c]
        <4>1. above[c] = Chain(n) /\ c \in Nodes
          BY <3>2 DEF IInv, TreeOK, Nodes
        <4>2. c \notin Chain(h)
          <5>1. c \in Chain(h) => Chain(c) \subseteq Chain(h)
            BY <1>2, ChainNodes
          <5> QED
            BY <4>1, <5>1 DEF Chain
        <4> QED
          BY <1>4, <4>1, <4>2
      <3> QED
        BY <1>1, <3>1, <3>2 DEF Evictable
    <2>2. live \subseteq Nodes /\ live' \subseteq Nodes
      BY <1>1 DEF IInv, TreeOK, Nodes
    <2> DEFINE T == Chain(h)
    <2>3. LruUpdate({}, T) /\ \A n \in Nodes \ ({} \cup T) : Evictable(n) <=> Evictable(n)'
      BY <1>1, <2>1
    <2> HIDE DEF T
    <2> QED
      BY <2>2, <2>3, LruStep DEF IInv
  <1>7. HeldLive' /\ CallOK'
    BY <1>1, EmptyStack DEF IInv, HeldLive, CallOK
  <1>8. HoldOK'
    <2>1. \A g \in live \cup Plays : (\A n \in Chain(g) : tier[n] = 0) => \A n \in Chain(g) : tier'[n] = 0
      BY <1>4, ChainNodes
    <2>2. \A n \in Chain(h) : tier'[n] = 0
      BY <1>2, <1>4, ChainNodes
    <2>3. \A s \in Reqs : /\ hit[s] # None => hit[s] \in live \cup Plays
                          /\ own[s] # None => own[s] \in live \cup Plays
      BY DEF IInv, HeldLive
    <2>4. \A n : Chain(n)' = Chain(n)
      BY <1>1 DEF Chain
    <2>5. \A s \in Reqs : hit'[s] # None => \A n \in Chain(hit'[s]) : tier'[n] = 0
      BY <1>1, <2>1, <2>2, <2>3 DEF IInv, HoldOK, h
    <2>6. \A s \in Reqs : own'[s] # None => \A n \in Chain(own'[s]) : tier'[n] = 0
      BY <1>1, <2>1, <2>3 DEF IInv, HoldOK
    <2> QED
      BY <1>1, <1>2, <2>4, <2>5, <2>6 DEF IInv, HoldOK
  <1>9. ASSUME NEW n \in Nodes
        PROVE  pins'[n] = PinHolders(n)' + ChainPin(n)' + (IF n \in Plays THEN 1 ELSE 0)
    <2>1. PinHolders(n)' = PinHolders(n) /\ PinHolders(n) \in Nat
      BY <1>1, PinHoldersCount DEF PinHolders
    <2>3. ChainPin(n) = (IF n \in above[h] THEN 1 ELSE 0) /\ ChainPin(n)' = 0
      BY <1>1 DEF ChainPin, h
    <2>4. pins[n] = PinHolders(n) + ChainPin(n) + (IF n \in Plays THEN 1 ELSE 0)
      BY DEF IInv, PinsExact
    <2> QED
      BY <1>1, <2>1, <2>3, <2>4
  <1>10. PinsExact'
    BY <1>9 DEF PinsExact
  <1> QED
    BY <1>5, <1>6, <1>7, <1>8, <1>10 DEF IInv

(* The only holder of a node is known by the count of its pins.            *)
LEMMA OnlyHolder ==
  ASSUME PinsExact, NEW r \in Reqs, own[r] \in Nodes \ Plays, ~ pins[own[r]] > 1
  PROVE  /\ \A s \in Reqs : hit[s] # own[r]
         /\ \A s \in Reqs \ {r} : own[s] # own[r]
         /\ ChainPin(own[r]) = 0
PROOF
  <1> DEFINE n == own[r]
             A == {s \in Reqs : own[s] = n}
  <1>1. pins[n] = HeldAt(hit, n) + HeldAt(own, n) + ChainPin(n)
    <2>1. ChainPin(n) \in Nat /\ HeldAt(hit, n) \in Nat /\ HeldAt(own, n) \in Nat
      BY HeldAtCount DEF ChainPin
    <2> QED
      BY <2>1 DEF PinsExact, PinHolders
  <1>2. ChainPin(n) \in Nat /\ HeldAt(hit, n) \in Nat /\ HeldAt(own, n) \in Nat
    BY HeldAtCount DEF ChainPin
  <1>3. HeldAt(own, n) # 0
    BY HeldAtCount
  <1>4. HeldAt(own, n) = 1 /\ HeldAt(hit, n) = 0 /\ ChainPin(n) = 0
    BY <1>1, <1>2, <1>3
  <1>5. \A s \in Reqs : hit[s] # n
    BY <1>4, HeldAtCount
  <1>6. IsFiniteSet(A)
    BY FS_Subset, ReqsAssumption
  <1>7. Cardinality(A) = 1
    BY <1>4 DEF HeldAt
  <1>8. PICK x : A = {x}
    BY <1>6, <1>7, FS_Singleton
  <1>9. \A s \in Reqs \ {r} : own[s] # n
    BY <1>8
  <1> QED
    BY <1>4, <1>5, <1>9

(* A preempted decode drops its node: a leaf nobody else holds.            *)
LEMMA StepPreemptDrop ==
  ASSUME IInv, NEW r \in Reqs, PreemptDrop(r)
  PROVE  IInv'
PROOF
  <1> DEFINE o == own[r]
  <1>1. /\ UNCHANGED <<op, stack>> /\ op.kind = "none" /\ st[r] \in {"prefill", "decode"}
        /\ o # None /\ ~ pins[o] > 1 /\ \A c \in live : parent[c] # o
        /\ live' = live \ {o}
        /\ parent' = [parent EXCEPT ![o] = None]
        /\ above' = [above EXCEPT ![o] = {}]
        /\ tier' = [tier EXCEPT ![o] = 0]
        /\ pins' = [n \in Nodes |-> IF n = o THEN 0 ELSE pins[n] - Holds(r, n)]
        /\ st' = [st EXCEPT ![r] = "queued"]
        /\ hit' = [hit EXCEPT ![r] = None] /\ own' = [own EXCEPT ![r] = None]
        /\ LruUpdate({o}, {parent[o], hit[r]})
    BY DEF PreemptDrop, Preempting, Serving, Requeue, Shared, Idle
  <1>2. /\ o \in live /\ o \in Nodes \ Plays /\ o \in NodeIds
        /\ hit[r] # None /\ hit[r] \in Nodes /\ stack = <<>>
    BY <1>1, ReqsAssumption DEF IInv, TreeOK, HeldLive, HoldOK, CallOK, Nodes
  <1>3. /\ \A s \in Reqs : hit[s] # o
        /\ \A s \in Reqs \ {r} : own[s] # o
    BY <1>1, <1>2, OnlyHolder DEF IInv
  <1>4. /\ hit'[r] = None /\ own'[r] = None
        /\ \A s \in Reqs \ {r} : hit'[s] = hit[s]
        /\ \A s \in Reqs \ {r} : own'[s] = own[s]
    BY <1>1 DEF IInv, HoldOK
  <1> HIDE DEF o
  <1>5. \A m \in live \ {o} : above[m] \cap {o} = {}
    <2>1. SUFFICES ASSUME NEW m \in live, o \in above[m]
                   PROVE  FALSE
      OBVIOUS
    <2>2. PICK c \in live : parent[c] = o
      BY <2>1 DEF IInv, TreeOK
    <2> QED
      BY <1>1, <2>2
  <1>6. /\ parent' \in [Nodes -> Nodes \cup {None}]
        /\ above' \in [Nodes -> SUBSET Nodes]
        /\ tier' \in [Nodes -> Tiers]
        /\ \A m \in Nodes \ {o} : parent'[m] = parent[m] /\ above'[m] = above[m] /\ tier'[m] = tier[m]
    BY <1>1, <1>2, PoolAssumption DEF IInv, TreeOK, Tiers
  <1>7. /\ pins' \in [Nodes -> Int]
        /\ \A n \in Nodes \ {o} : pins'[n] = pins[n] - Is(hit[r], n)
        /\ pins'[o] = 0
    <2>1. \A n \in Nodes : pins[n] \in Int /\ Holds(r, n) \in Int
      BY DEF IInv, TreeOK, Holds
    <2>2. \A n \in Nodes \ {o} : Holds(r, n) = Is(hit[r], n)
      BY DEF Holds, Is, o
    <2> QED
      BY <1>1, <1>2, <2>1, <2>2
  <1>8. TreeOK'
    <2> DEFINE D == {o}
    <2>1. /\ D \subseteq live /\ live' = live \ D
          /\ \A m \in live \ D : above[m] \cap D = {}
          /\ \A m \in Nodes \ D : parent'[m] = parent[m] /\ above'[m] = above[m] /\ tier'[m] = tier[m]
      BY <1>1, <1>2, <1>5, <1>6
    <2> HIDE DEF D
    <2> QED
      BY <1>6, <1>7, <2>1, Freed DEF IInv
  <1>9. HeldLive'
    BY <1>1, <1>3, <1>4 DEF IInv, HeldLive
  <1>11. HoldOK'
    <2>1. ASSUME NEW g \in (live \cup Plays) \ {o}, \A m \in Chain(g) : tier[m] = 0
          PROVE  \A m \in {g} \cup above'[g] : tier'[m] = 0
      <3>1. g \in Nodes \ {o} /\ Chain(g) \subseteq Nodes
        BY <2>1, ChainNodes
      <3>2. o \notin Chain(g)
        BY <1>5, <1>2, <2>1, <3>1 DEF Chain, IInv, TreeOK
      <3> QED
        BY <1>6, <2>1, <3>1, <3>2 DEF Chain
    <2>2. \A s \in Reqs \ {r} : /\ hit[s] # None => hit[s] \in (live \cup Plays) \ {o}
                                /\ own[s] # None => own[s] \in (live \cup Plays) \ {o}
      BY <1>3 DEF IInv, HeldLive
    <2>3. \A s \in Reqs \ {r} :
            /\ hit'[s] # None => \A m \in {hit'[s]} \cup above'[hit'[s]] : tier'[m] = 0
            /\ own'[s] # None => \A m \in {own'[s]} \cup above'[own'[s]] : tier'[m] = 0
      BY <1>1, <1>4, <2>1, <2>2 DEF IInv, HoldOK
    <2>4. /\ hit' \in [Reqs -> Nodes \cup {None}]
          /\ own' \in [Reqs -> NodeIds \cup {None}]
          /\ st' \in [Reqs -> {"queued", "loading", "prefill", "decode", "done"}]
          /\ st'[r] = "queued" /\ \A s \in Reqs \ {r} : st'[s] = st[s]
      BY <1>1 DEF IInv, HoldOK
    <2>5. ASSUME NEW s \in Reqs
          PROVE  /\ hit'[s] # None <=> \/ st'[s] \in {"loading", "prefill", "decode"}
                                       \/ op'.kind \in {"load", "admit"} /\ op'.req = s
                 /\ own'[s] # None <=> st'[s] = "decode"
      BY <1>1, <1>4, <2>4 DEF IInv, HoldOK
    <2> QED
      BY <1>1, <1>4, <2>3, <2>4, <2>5 DEF HoldOK, Chain
  <1>12. CallOK'
    BY <1>1, <1>2, EmptyStack DEF CallOK
  <1>13. ASSUME NEW n \in Nodes
        PROVE  pins'[n] = PinHolders(n)' + ChainPin(n)' + (IF n \in Plays THEN 1 ELSE 0)
    <2>1. PinHolders(n)' = PinHolders(n) - Is(hit[r], n) + Is(hit'[r], n)
                                         - Is(own[r], n) + Is(own'[r], n)
      BY <1>4, HoldersBoth
    <2>2. Is(hit'[r], n) = 0 /\ Is(own'[r], n) = 0
      BY <1>4, ReqsAssumption DEF Is
    <2>3. ChainPin(n) = 0 /\ ChainPin(n)' = 0
      BY <1>1 DEF ChainPin
    <2>4. pins[n] = PinHolders(n) + ChainPin(n) + (IF n \in Plays THEN 1 ELSE 0)
      BY DEF IInv, PinsExact
    <2>5. PinHolders(n) \in Nat /\ PinHolders(n)' \in Nat
      BY PinHoldersCount, HeldAtCount DEF PinHolders
    <2>6. CASE n = o
      <3>1. \A s \in Reqs : hit'[s] # n /\ own'[s] # n
        BY <1>2, <1>3, <1>4, <2>6, ReqsAssumption
      <3>2. HeldAt(hit', n) = 0 /\ HeldAt(own', n) = 0
        BY <3>1, HeldAtCount
      <3>3. PinHolders(n)' = 0
        BY <3>2 DEF PinHolders
      <3> QED
        BY <1>2, <1>7, <2>3, <2>6, <3>3
    <2>7. CASE n # o
      BY <1>7, <2>1, <2>2, <2>3, <2>4, <2>5, <2>7 DEF Is, o
    <2> QED
      BY <2>6, <2>7
  <1>14. PinsExact'
    BY <1>13 DEF PinsExact
  <1>15. LruExact'
    <2>1. \A n \in Nodes \ {o, parent[o], hit[r]} : Evictable(n) <=> Evictable(n)'
      <3>1. \A n \in Nodes \ {o, hit[r]} : pins'[n] = pins[n]
        BY <1>7 DEF Is, IInv, TreeOK
      <3>2. live \subseteq Nodes
        BY DEF IInv, TreeOK, Nodes
      <3> QED
        BY <1>1, <1>6, <3>1, <3>2 DEF Evictable
    <2>2. live \subseteq Nodes /\ live' \subseteq Nodes /\ o \notin live'
      BY <1>1 DEF IInv, TreeOK, Nodes
    <2> QED
      BY <1>1, <2>1, <2>2, LruStep DEF IInv
  <1> QED
    BY <1>8, <1>9, <1>11, <1>12, <1>14, <1>15 DEF IInv

(* split() of node n: the new node stands between n and its parent, and    *)
(* joins the chain of n and of everything below n.                         *)
LEMMA Inserted ==
  ASSUME IInv, NEW n \in live, NEW up \in NodeIds \ live,
         live' = live \cup {up},
         parent' \in [Nodes -> Nodes \cup {None}],
         parent'[up] = parent[n], parent'[n] = up,
         \A m \in Nodes \ {n, up} : parent'[m] = parent[m],
         above' \in [Nodes -> SUBSET Nodes],
         above'[up] = above[n],
         \A m \in Nodes \ {up} :
           above'[m] = above[m] \cup (IF m \in {n} \cup Down(n) THEN {up} ELSE {}),
         tier' \in [Nodes -> Tiers],
         tier'[up] = tier[n], \A m \in Nodes \ {up} : tier'[m] = tier[m],
         pins' \in [Nodes -> Int]
  PROVE  /\ TreeOK'
         /\ \A m \in live \cup Plays :
              Chain(m)' = Chain(m) \cup (IF n \in Chain(m) THEN {up} ELSE {})
PROOF
  <1>1. /\ live \subseteq Nodes /\ up \in Nodes /\ up \notin Plays /\ n \in Nodes /\ n # up
        /\ n \notin Plays /\ parent[n] \in live \cup Plays
    BY ReqsAssumption DEF IInv, TreeOK, Nodes, Chain
  <1>5. ASSUME NEW m \in live \cup Plays
        PROVE  /\ above'[m] = above[m] \cup (IF n \in Chain(m) THEN {up} ELSE {})
               /\ up \notin Chain(m) /\ Chain(m) \subseteq live \cup Plays
    <2>1. m \in Nodes /\ m # up /\ up \notin Chain(m) /\ Chain(m) \subseteq live \cup Plays
      BY <1>1, ChainNodes
    <2>2. n \in Chain(m) <=> m \in {n} \cup Down(n)
      BY <1>1 DEF Chain, Down, IInv, TreeOK
    <2> QED
      BY <2>1, <2>2
  <1>6. \A m \in live \cup Plays : Chain(m)' = Chain(m) \cup (IF n \in Chain(m) THEN {up} ELSE {})
    BY <1>5 DEF Chain
  <1>7. above'[up] = above[n] /\ n \notin above[n] /\ above[n] \subseteq live \cup Plays
    BY <1>1 DEF IInv, TreeOK
  <1>9. ASSUME NEW a \in above[n]
        PROVE  above'[a] = above[a] /\ a # n /\ a # up
    <2>1. above[a] \subseteq above[n] /\ a \in live \cup Plays
      BY <1>7, <1>9 DEF IInv, TreeOK
    <2>2. n \notin Chain(a) /\ a # n
      BY <1>7, <1>9, <2>1 DEF Chain
    <2>3. above'[a] = above[a] \cup (IF n \in Chain(a) THEN {up} ELSE {})
      BY <1>5, <2>1
    <2> QED
      BY <1>1, <2>1, <2>2, <2>3
  (* A child on the way from a node to one above it: split puts `up` in    *)
  (* the place of n.                                                       *)
  <1>10. ASSUME NEW m \in live, NEW a \in above[m]
         PROVE  \E c \in live' : c \in {m} \cup above'[m] /\ parent'[c] = a
    <2>1. PICK c \in live : c \in Chain(m) /\ parent[c] = a
      BY <1>10 DEF IInv, TreeOK
    <2>2. CASE c = n
      BY <1>5, <2>1, <2>2
    <2>3. CASE c # n
      BY <1>1, <1>5, <2>1, <2>3 DEF Chain
    <2> QED
      BY <2>2, <2>3
  <1>11. ASSUME NEW m \in live'
         PROVE  /\ above'[m] = {parent'[m]} \cup above'[parent'[m]]
                /\ above'[m] \subseteq live' \cup Plays
                /\ m \notin above'[m]
                /\ \A a \in above'[m] :
                     /\ above'[a] \subseteq above'[m]
                     /\ tier'[a] <= tier'[m]
                     /\ \E c \in live' : c \in {m} \cup above'[m] /\ parent'[c] = a
    <2>1. CASE m = up
      <3>1. above[n] = Chain(parent[n])
        BY DEF IInv, TreeOK
      <3>2. above'[parent[n]] = above[parent[n]]
        BY <1>9, <3>1 DEF Chain
      <3>3. ASSUME NEW a \in above[n]
            PROVE  /\ above[a] \subseteq above[n] /\ tier'[a] <= tier'[up]
                   /\ \E c \in live' : c \in {up} \cup above[n] /\ parent'[c] = a
        <4>1. above[a] \subseteq above[n] /\ tier[a] <= tier[n] /\ a \in Nodes
          BY <1>1, <3>3 DEF IInv, TreeOK, Nodes
        <4>2. tier'[a] <= tier'[up]
          BY <1>9, <4>1
        <4>3. PICK c \in live : c \in Chain(n) /\ parent[c] = a
          BY <3>3 DEF IInv, TreeOK
        <4>4. CASE c = n
          BY <4>1, <4>2, <4>3, <4>4
        <4>5. CASE c # n
          <5>1. c \in live' /\ c \in above[n] /\ c \in Nodes \ {n, up}
            BY <1>1, <4>3, <4>5 DEF Chain
          <5> QED
            BY <4>1, <4>2, <4>3, <5>1
        <4> QED
          BY <4>4, <4>5
      <3> QED
        BY <1>5, <1>7, <1>9, <2>1, <3>1, <3>2, <3>3 DEF Chain
    <2>2. CASE m \in live
      <3>1. /\ above[m] = Chain(parent[m]) /\ m \notin above[m] /\ m \in Nodes
            /\ above[m] \subseteq live \cup Plays /\ parent[m] \in live \cup Plays
        BY <1>1, <2>2 DEF IInv, TreeOK, Chain
      <3>2. above'[m] = above[m] \cup (IF n \in Chain(m) THEN {up} ELSE {})
        BY <1>5, <2>2
      <3>3. above'[m] = {parent'[m]} \cup above'[parent'[m]]
        <4>1. CASE m = n
          BY <1>7, <3>2, <4>1 DEF Chain
        <4>2. CASE m # n
          <5>1. n \in Chain(m) <=> n \in Chain(parent[m])
            BY <3>1, <4>2 DEF Chain
          <5>2. parent'[m] = parent[m]
            BY <1>1, <2>2, <3>1, <4>2
          <5>3. above'[parent[m]] = above[parent[m]] \cup (IF n \in Chain(parent[m]) THEN {up} ELSE {})
            BY <1>5, <3>1
          <5> QED
            BY <3>1, <3>2, <5>1, <5>2, <5>3 DEF Chain
        <4> QED
          BY <4>1, <4>2
      <3>4. above'[m] \subseteq live' \cup Plays /\ m \notin above'[m]
        BY <2>2, <3>1, <3>2
      <3>5. ASSUME NEW a \in above[m]
            PROVE  above'[a] \subseteq above'[m] /\ tier'[a] <= tier'[m]
        <4>1. above[a] \subseteq above[m] /\ tier[a] <= tier[m] /\ a \in live \cup Plays /\ a \in Nodes
          BY <1>1, <2>2, <3>5 DEF IInv, TreeOK, Nodes
        <4>2. above'[a] = above[a] \cup (IF n \in Chain(a) THEN {up} ELSE {})
          BY <1>5, <4>1
        <4>3. n \in Chain(a) => n \in Chain(m)
          BY <3>5, <4>1 DEF Chain
        <4>4. tier'[a] = tier[a] /\ tier'[m] = tier[m]
          BY <1>5, <2>2, <3>1, <4>1 DEF Chain
        <4> QED
          BY <3>2, <4>1, <4>2, <4>3, <4>4
      <3>6. ASSUME n \in Chain(m)
            PROVE  /\ above'[up] \subseteq above'[m] /\ tier'[up] <= tier'[m]
                   /\ \E c \in live' : c \in {m} \cup above'[m] /\ parent'[c] = up
        <4>1. above[n] \subseteq above[m] /\ tier[n] <= tier[m]
          BY <1>1, <2>2, <3>1, <3>6 DEF IInv, TreeOK, Chain, Tiers
        <4>2. tier'[m] = tier[m]
          BY <2>2, <3>1
        <4>3. n \in live' /\ n \in {m} \cup above'[m] /\ parent'[n] = up
          BY <3>2, <3>6 DEF Chain
        <4> QED
          BY <1>7, <3>2, <4>1, <4>2, <4>3
      <3> QED
        BY <1>10, <2>2, <3>2, <3>3, <3>4, <3>5, <3>6
    <2> QED
      BY <2>1, <2>2
  <1>12. \A m \in Plays : above'[m] = {} /\ tier'[m] = 0
    <2>1. \A m \in Plays : m \in Nodes /\ above[m] = {} /\ tier[m] = 0 /\ m # n /\ m # up
      BY <1>1 DEF IInv, TreeOK, Nodes
    <2> QED
      BY <1>5, <2>1 DEF Chain
  <1>13. TreeOK'
    BY <1>11, <1>12 DEF TreeOK, Chain, IInv
  <1> QED
    BY <1>6, <1>13

(* A node that is not in the tree has no pins.                             *)
LEMMA FreeNode ==
  ASSUME IInv, op.kind = "none", NEW n \in NodeIds \ live
  PROVE  /\ n \in Nodes /\ n \notin Plays /\ n # None
         /\ \A r \in Reqs : hit[r] # n /\ own[r] # n
         /\ pins[n] = 0 /\ PinHolders(n) = 0
PROOF
  <1>1. n \in Nodes /\ n \notin Plays /\ n # None
    BY ReqsAssumption DEF Nodes
  <1>2. \A r \in Reqs : hit[r] # n /\ own[r] # n
    BY <1>1 DEF IInv, HeldLive
  <1>3. PinHolders(n) = 0 /\ ChainPin(n) = 0
    BY <1>2, PinHoldersCount DEF ChainPin
  <1> QED
    BY <1>1, <1>2, <1>3 DEF IInv, PinsExact

(* pin_hit with a split: the request holds the new upper part.             *)
LEMMA StepPinSplit ==
  ASSUME IInv, NEW r \in Reqs, NEW h \in Hits(r), NEW up, NEW chunk,
         PinSplit(r, h, up, chunk)
  PROVE  IInv'
PROOF
  <1> DEFINE n == h.node
  <1>1. /\ UNCHANGED <<st, own>>
        /\ op.kind = "none" /\ st[r] = "queued"
        /\ n \in live /\ up \in NodeIds \ live
        /\ \A m \in Chain(n) : ~ tier[m] > 0
        /\ live' = live \cup {up}
        /\ parent' = [parent EXCEPT ![up] = parent[n], ![n] = up]
        /\ above' = [m \in Nodes |-> IF m = up THEN above[n]
                                     ELSE IF m \in {n} \cup Down(n) THEN above[m] \cup {up}
                                     ELSE above[m]]
        /\ tier' = [tier EXCEPT ![up] = tier[n]]
        /\ pins' = [pins EXCEPT ![up] = 1]
        /\ hit' = [hit EXCEPT ![r] = up]
        /\ op'.kind = "admit" /\ op'.req = r /\ stack' = <<>>
        /\ LruUpdate({}, {up})
    BY DEF PinSplit, Idle, Waiting, Queued, Call, Lower
  <1> HIDE DEF n
  <1>2. /\ live \subseteq Nodes /\ up \in Nodes /\ up \notin Plays /\ n \in Nodes /\ n # up
        /\ up # None /\ pins[up] = 0 /\ PinHolders(up) = 0 /\ parent[n] \in Nodes
        /\ \A m \in Chain(n) : m \in Nodes /\ tier[m] = 0
    BY <1>1, FreeNode, ChainNodes DEF IInv, TreeOK, Nodes, Chain, Tiers
  <1>3. /\ parent' \in [Nodes -> Nodes \cup {None}]
        /\ parent'[up] = parent[n] /\ parent'[n] = up
        /\ \A m \in Nodes \ {n, up} : parent'[m] = parent[m]
    <2>1. parent \in [Nodes -> Nodes \cup {None}]
      BY DEF IInv, TreeOK
    <2>2. parent' = [parent EXCEPT ![up] = parent[n], ![n] = up]
      BY <1>1
    <2> QED
      BY <1>2, <2>1, <2>2
  <1>4. /\ tier' \in [Nodes -> Tiers]
        /\ tier'[up] = tier[n] /\ \A m \in Nodes \ {up} : tier'[m] = tier[m]
    BY <1>1, <1>2 DEF IInv, TreeOK
  <1>5. /\ pins' \in [Nodes -> Int]
        /\ pins'[up] = 1 /\ \A m \in Nodes \ {up} : pins'[m] = pins[m]
    BY <1>1, <1>2 DEF IInv, TreeOK
  <1>6. /\ above'[up] = above[n]
        /\ \A m \in Nodes \ {up} :
             above'[m] = above[m] \cup (IF m \in {n} \cup Down(n) THEN {up} ELSE {})
        /\ above' \in [Nodes -> SUBSET Nodes]
    <2>1. /\ above'[up] = above[n] /\ above[n] \subseteq Nodes
          /\ \A m \in Nodes \ {up} :
               above'[m] = above[m] \cup (IF m \in {n} \cup Down(n) THEN {up} ELSE {})
      BY <1>1, <1>2 DEF IInv, TreeOK
    <2>2. \A m \in Nodes : above[m] \subseteq Nodes
      BY DEF IInv, TreeOK
    <2>3. \A m \in Nodes : above'[m] \subseteq Nodes
      BY <1>2, <2>1, <2>2
    <2>4. above' = [m \in Nodes |-> above'[m]]
      BY <1>1
    <2> QED
      BY <2>1, <2>3, <2>4
  <1>7. /\ TreeOK'
        /\ \A m \in live \cup Plays :
             Chain(m)' = Chain(m) \cup (IF n \in Chain(m) THEN {up} ELSE {})
    <2>1. n \in live /\ up \in NodeIds \ live /\ live' = live \cup {up}
      BY <1>1
    <2>2. pins' \in [Nodes -> Int]
      BY <1>5
    <2> QED
      BY <2>1, <2>2, <1>3, <1>4, <1>6, Inserted
  <1>8. hit[r] = None /\ hit'[r] = up /\ \A s \in Reqs \ {r} : hit'[s] = hit[s]
    BY <1>1 DEF IInv, HoldOK
  <1>9. HeldLive'
    BY <1>1, <1>8 DEF IInv, HeldLive
  <1>10. HoldOK'
    <2>1. hit' \in [Reqs -> Nodes \cup {None}]
      BY <1>1, <1>2 DEF IInv, HoldOK
    <2>2. ASSUME NEW g \in live \cup Plays, \A m \in Chain(g) : tier[m] = 0
          PROVE  \A m \in {g} \cup above'[g] : tier'[m] = 0
      <3>1. \A m \in Chain(g) : m \in Nodes /\ m # up
        BY <1>1, <1>2, <2>2, ChainNodes
      <3>2. {g} \cup above'[g] = Chain(g) \cup (IF n \in Chain(g) THEN {up} ELSE {})
        BY <1>7, <2>2 DEF Chain
      <3> QED
        BY <1>4, <2>2, <3>1, <3>2
    <2>3. \A m \in {up} \cup above'[up] : tier'[m] = 0
      <3>1. above[n] \subseteq Chain(n) /\ n \in Chain(n) /\ up \notin Chain(n)
        BY <1>1, <1>2, ChainNodes DEF Chain
      <3> QED
        BY <1>2, <1>4, <1>6, <3>1
    <2>4. \A s \in Reqs : /\ hit[s] # None => hit[s] \in live \cup Plays
                          /\ own[s] # None => own[s] \in live \cup Plays
      BY DEF IInv, HeldLive
    <2>5. \A s \in Reqs :
            /\ hit'[s] # None => \A m \in {hit'[s]} \cup above'[hit'[s]] : tier'[m] = 0
            /\ own'[s] # None => \A m \in {own'[s]} \cup above'[own'[s]] : tier'[m] = 0
      BY <1>1, <1>8, <2>2, <2>3, <2>4, ZenonT(30) DEF IInv, HoldOK
    <2>6. \A s \in Reqs :
            /\ hit'[s] # None <=> \/ st'[s] \in {"loading", "prefill", "decode"}
                                  \/ op'.kind \in {"load", "admit"} /\ op'.req = s
            /\ own'[s] # None <=> st'[s] = "decode"
      BY <1>1, <1>2, <1>8 DEF IInv, HoldOK
    <2> QED
      BY <1>1, <2>1, <2>5, <2>6 DEF IInv, HoldOK, Chain
  <1>11. CallOK'
    BY <1>1, EmptyStack DEF IInv, CallOK
  <1>12. ASSUME NEW m \in Nodes
        PROVE  pins'[m] = PinHolders(m)' + ChainPin(m)' + (IF m \in Plays THEN 1 ELSE 0)
    <2>1. PinHolders(m)' = PinHolders(m) - Is(hit[r], m) + Is(hit'[r], m)
      BY <1>1, <1>8, HoldersHit
    <2>2. Is(hit[r], m) = 0 /\ Is(hit'[r], m) = IF m = up THEN 1 ELSE 0
      BY <1>8, ReqsAssumption DEF Is
    <2>3. ChainPin(m) = 0 /\ ChainPin(m)' = 0
      BY <1>1 DEF ChainPin
    <2>4. pins[m] = PinHolders(m) + ChainPin(m) + (IF m \in Plays THEN 1 ELSE 0)
      BY DEF IInv, PinsExact
    <2>5. PinHolders(m) \in Nat
      BY PinHoldersCount
    <2> QED
      BY <1>2, <1>5, <2>1, <2>2, <2>3, <2>4, <2>5
  <1>13. PinsExact'
    BY <1>12 DEF PinsExact
  <1>14. LruExact'
    <2>1. ASSUME NEW m \in Nodes \ {up}
          PROVE  Evictable(m) <=> Evictable(m)'
      <3>1. pins'[m] = pins[m] /\ tier'[m] = tier[m] /\ (m \in live <=> m \in live')
        BY <1>1, <1>4, <1>5
      <3>2. ASSUME \A c \in live : parent[c] = m => tier[c] > tier[m], NEW c \in live',
                   parent'[c] = m
            PROVE  tier'[c] > tier[m]
        <4>1. CASE c = up
          BY <1>1, <1>3, <1>4, <3>2, <4>1
        <4>2. CASE c # up
          <5>1. c \in live /\ c # n /\ c \in Nodes
            BY <1>1, <1>2, <1>3, <2>1, <3>2, <4>2
          <5> QED
            BY <1>3, <1>4, <3>2, <4>2, <5>1
        <4> QED
          BY <4>1, <4>2
      <3>3. ASSUME \A c \in live' : parent'[c] = m => tier'[c] > tier'[m], NEW c \in live,
                   parent[c] = m
            PROVE  tier[c] > tier[m]
        <4>1. CASE c = n
          BY <1>1, <1>3, <1>4, <3>1, <3>3, <4>1
        <4>2. CASE c # n
          <5>1. c \in live' /\ parent'[c] = m /\ tier'[c] = tier[c]
            BY <1>1, <1>2, <1>3, <1>4, <3>3, <4>2
          <5> QED
            BY <3>1, <3>3, <5>1
        <4> QED
          BY <4>1, <4>2
      <3> QED
        BY <3>1, <3>2, <3>3 DEF Evictable
    <2>2. live \subseteq Nodes /\ live' \subseteq Nodes
      BY <1>1, <1>2
    <2> QED
      BY <1>1, <2>1, <2>2, LruStep DEF IInv
  <1> QED
    BY <1>7, <1>9, <1>10, <1>11, <1>13, <1>14 DEF IInv

(* insert_child: leaves below a node whose whole chain is in HBM.          *)
LEMMA Leaves ==
  ASSUME TreeOK, NEW h \in live \cup Plays, NEW new, new \subseteq NodeIds \ live,
         h \notin new, \A m \in Chain(h) : tier[m] = 0,
         live' = live \cup new,
         parent' \in [Nodes -> Nodes \cup {None}],
         above' \in [Nodes -> SUBSET Nodes],
         tier' \in [Nodes -> Tiers],
         pins' \in [Nodes -> Int],
         \A m \in new : parent'[m] = h /\ above'[m] = Chain(h) /\ tier'[m] = 0,
         \A m \in Nodes \ new : /\ parent'[m] = parent[m]
                                /\ above'[m] = above[m]
                                /\ tier'[m] = tier[m]
  PROVE  TreeOK'
PROOF
  <1>1. /\ live \subseteq Nodes \ new /\ Plays \subseteq Nodes \ new /\ new \subseteq Nodes
        /\ live' \subseteq NodeIds
    BY ReqsAssumption DEF TreeOK, Nodes
  <1>2. \A m \in live \cup Plays : Chain(m) \subseteq live \cup Plays
    BY DEF TreeOK, Chain
  <1>3. \A m \in Plays : above'[m] = {} /\ tier'[m] = 0
    BY <1>1 DEF TreeOK
  <1>4. ASSUME NEW m \in live'
        PROVE  /\ above'[m] = {parent'[m]} \cup above'[parent'[m]]
               /\ above'[m] \subseteq live' \cup Plays
               /\ m \notin above'[m]
               /\ \A a \in above'[m] :
                    /\ above'[a] \subseteq above'[m]
                    /\ tier'[a] <= tier'[m]
                    /\ \E c \in live' : c \in {m} \cup above'[m] /\ parent'[c] = a
    <2>1. CASE m \in new
      <3>1. above'[h] = above[h] /\ \A a \in Chain(h) : above'[a] = above[a] /\ tier'[a] = 0
        BY <1>1, <1>2
      <3>2. ASSUME NEW a \in Chain(h)
            PROVE  above[a] \subseteq Chain(h)
        BY <3>2 DEF TreeOK, Chain
      <3>3. ASSUME NEW a \in Chain(h)
            PROVE  \E c \in live' : c \in {m} \cup Chain(h) /\ parent'[c] = a
        <4>1. CASE a = h
          BY <2>1, <4>1
        <4>2. CASE a # h
          <5>1. h \in live /\ a \in above[h]
            BY <3>3, <4>2 DEF Chain, TreeOK
          <5>2. PICK c \in live : c \in Chain(h) /\ parent[c] = a
            BY <5>1 DEF TreeOK
          <5> QED
            BY <1>1, <5>2
        <4> QED
          BY <4>1, <4>2
      <3>4. m \notin Chain(h) /\ Chain(h) \subseteq live' \cup Plays
        BY <1>1, <1>2, <2>1
      <3> QED
        BY <2>1, <3>1, <3>2, <3>3, <3>4 DEF Chain, Tiers
    <2>2. CASE m \in live
      <3>1. above'[m] = above[m] /\ parent'[m] = parent[m] /\ tier'[m] = tier[m]
        BY <1>1, <2>2
      <3>2. /\ above[m] = Chain(parent[m]) /\ m \notin above[m]
            /\ above[m] \subseteq live \cup Plays /\ parent[m] \in live \cup Plays
        BY <2>2 DEF TreeOK, Chain
      <3>3. above'[parent[m]] = above[parent[m]]
        BY <1>1, <3>2
      <3>4. ASSUME NEW a \in above[m]
            PROVE  /\ above'[a] \subseteq above[m]
                   /\ tier'[a] <= tier[m]
                   /\ \E c \in live' : c \in {m} \cup above[m] /\ parent'[c] = a
        <4>1. above'[a] = above[a] /\ tier'[a] = tier[a]
          BY <1>1, <3>2, <3>4
        <4>2. PICK c \in live : c \in Chain(m) /\ parent[c] = a
          BY <2>2, <3>4 DEF TreeOK
        <4>3. c \in live' /\ parent'[c] = a
          BY <1>1, <4>2
        <4> QED
          BY <2>2, <3>4, <4>1, <4>2, <4>3 DEF TreeOK, Chain
      <3> QED
        BY <3>1, <3>2, <3>3, <3>4 DEF Chain
    <2> QED
      BY <2>1, <2>2
  <1> QED
    BY <1>1, <1>3, <1>4 DEF TreeOK, Chain

(* The last chunk of a prefill: the computed blocks, and the tail the hit  *)
(* node had, become leaves below the hit.                                  *)
LEMMA StepCommitPrefill ==
  ASSUME IInv, NEW r \in Reqs, NEW id, NEW t, CommitPrefill(r, id, t)
  PROVE  IInv'
PROOF
  <1> DEFINE h == hit[r]
             fin == Max({gen[r], 1}) >= Osl[r]
             new == IF tail[h] > 0 THEN {id, t} ELSE {id}
  <1>1. /\ UNCHANGED <<op, stack>> /\ op.kind = "none" /\ st[r] = "prefill"
        /\ {id, t} \subseteq NodeIds \ live
        /\ tail[h] > 0 <=> id # t
        /\ live' = live \cup new
        /\ parent' = [n \in Nodes |-> IF n \in new THEN h ELSE parent[n]]
        /\ above' = [n \in Nodes |-> IF n \in new THEN Chain(h) ELSE above[n]]
        /\ tier' = [n \in Nodes |-> IF n = id THEN 0 ELSE IF n = t THEN tier[h] ELSE tier[n]]
        /\ pins' = [n \in Nodes |-> IF n = id THEN (IF fin THEN 0 ELSE 1)
                                    ELSE IF n = t THEN 0
                                    ELSE IF n = h /\ fin THEN pins[h] - 1 ELSE pins[n]]
        /\ own' = [own EXCEPT ![r] = IF fin THEN None ELSE id]
        /\ hit' = [hit EXCEPT ![r] = IF fin THEN None ELSE h]
        /\ st' = [st EXCEPT ![r] = IF fin THEN "done" ELSE "decode"]
        /\ LruUpdate({}, {h} \cup new)
    BY DEF CommitPrefill, Idle
  <1>2. new = {id, t}
    BY <1>1
  <1>3. /\ h # None /\ h \in live \cup Plays /\ own[r] = None /\ stack = <<>>
        /\ \A m \in Chain(h) : tier[m] = 0
    BY <1>1 DEF IInv, HoldOK, HeldLive, CallOK
  <1> HIDE DEF h, new, fin
  <1>4. /\ live \subseteq Nodes \ new /\ Plays \subseteq Nodes \ new /\ new \subseteq Nodes
        /\ h \in Nodes \ new /\ Chain(h) \subseteq Nodes /\ id \in new /\ id # None
    BY <1>1, <1>2, <1>3, ReqsAssumption, ChainNodes DEF IInv, TreeOK, Nodes
  <1>5. \A n \in new : /\ pins[n] = 0 /\ PinHolders(n) = 0
                       /\ \A s \in Reqs : hit[s] # n /\ own[s] # n
    BY <1>1, <1>2, FreeNode
  <1>6. /\ parent' \in [Nodes -> Nodes \cup {None}]
        /\ above' \in [Nodes -> SUBSET Nodes]
        /\ \A m \in new : parent'[m] = h /\ above'[m] = Chain(h)
        /\ \A m \in Nodes \ new : parent'[m] = parent[m] /\ above'[m] = above[m]
    BY <1>1, <1>4 DEF IInv, TreeOK
  <1>7. /\ tier' \in [Nodes -> Tiers]
        /\ \A m \in new : tier'[m] = 0
        /\ \A m \in Nodes \ new : tier'[m] = tier[m]
    <2>1. tier[h] = 0
      BY <1>3 DEF Chain
    <2>2. 0 \in Tiers /\ tier \in [Nodes -> Tiers]
      BY PoolAssumption DEF Tiers, IInv, TreeOK
    <2>3. \A n \in Nodes : tier'[n] = IF n \in new THEN 0 ELSE tier[n]
      BY <1>1, <1>2, <2>1
    <2>4. tier' = [n \in Nodes |-> tier'[n]]
      BY <1>1
    <2> QED
      BY <1>4, <2>2, <2>3, <2>4
  <1>8. /\ pins' \in [Nodes -> Int]
        /\ pins'[id] = IF fin THEN 0 ELSE 1
        /\ \A m \in new \ {id} : pins'[m] = 0
        /\ \A m \in Nodes \ new : pins'[m] = pins[m] - (IF m = h /\ fin THEN 1 ELSE 0)
    <2>1. \A m \in Nodes : pins[m] \in Int
      BY DEF IInv, TreeOK
    <2> QED
      BY <1>1, <1>2, <1>4, <2>1
  <1>9. TreeOK'
    <2>1. TreeOK /\ h \in live \cup Plays /\ \A m \in Chain(h) : tier[m] = 0
      BY <1>3 DEF IInv
    <2>2. new \subseteq NodeIds \ live /\ h \notin new /\ live' = live \cup new
      BY <1>1, <1>2, <1>4
    <2>3. /\ \A m \in new : parent'[m] = h /\ above'[m] = Chain(h) /\ tier'[m] = 0
          /\ \A m \in Nodes \ new : /\ parent'[m] = parent[m]
                                   /\ above'[m] = above[m]
                                   /\ tier'[m] = tier[m]
      BY <1>6, <1>7
    <2>4. /\ parent' \in [Nodes -> Nodes \cup {None}]
          /\ above' \in [Nodes -> SUBSET Nodes]
          /\ tier' \in [Nodes -> Tiers]
          /\ pins' \in [Nodes -> Int]
      BY <1>6, <1>7, <1>8
    <2> QED
      BY <2>1, <2>2, <2>3, <2>4, Leaves
  <1>10. /\ hit'[r] = (IF fin THEN None ELSE h) /\ own'[r] = (IF fin THEN None ELSE id)
         /\ st'[r] = (IF fin THEN "done" ELSE "decode")
         /\ \A s \in Reqs \ {r} : hit'[s] = hit[s] /\ own'[s] = own[s] /\ st'[s] = st[s]
    BY <1>1 DEF IInv, HoldOK
  <1>11. HeldLive'
    BY <1>1, <1>3, <1>4, <1>10 DEF IInv, HeldLive
  <1>12. HoldOK'
    <2>1. /\ hit' \in [Reqs -> Nodes \cup {None}]
          /\ own' \in [Reqs -> NodeIds \cup {None}]
          /\ st' \in [Reqs -> {"queued", "loading", "prefill", "decode", "done"}]
      BY <1>1, <1>4 DEF IInv, HoldOK
    <2>2. ASSUME NEW g \in live \cup Plays, \A m \in Chain(g) : tier[m] = 0
          PROVE  \A m \in {g} \cup above'[g] : tier'[m] = 0
      <3>1. g \in Nodes \ new /\ Chain(g) \subseteq live \cup Plays
        BY <1>4, ChainNodes
      <3> QED
        BY <1>4, <1>6, <1>7, <2>2, <3>1 DEF Chain
    <2>3. \A m \in {id} \cup above'[id] : tier'[m] = 0
      <3>1. Chain(h) \subseteq Nodes \ new
        BY <1>3, <1>4, ChainNodes
      <3> QED
        BY <1>3, <1>4, <1>6, <1>7, <3>1
    <2>4. \A s \in Reqs : /\ hit[s] # None => hit[s] \in live \cup Plays
                          /\ own[s] # None => own[s] \in live \cup Plays
      BY DEF IInv, HeldLive
    <2>5. \A s \in Reqs :
            /\ hit'[s] # None => \A m \in {hit'[s]} \cup above'[hit'[s]] : tier'[m] = 0
            /\ own'[s] # None => \A m \in {own'[s]} \cup above'[own'[s]] : tier'[m] = 0
      <3>1. \A m \in {h} \cup above'[h] : tier'[m] = 0
        BY <1>3, <2>2
      <3>2. \A s \in Reqs : ~ (op.kind = "load" /\ op.req = s)
        BY <1>1
      <3> QED
        BY <1>10, <2>2, <2>3, <2>4, <3>1, <3>2 DEF IInv, HoldOK
    <2>6. \A s \in Reqs :
            /\ hit'[s] # None <=> \/ st'[s] \in {"loading", "prefill", "decode"}
                                  \/ op'.kind \in {"load", "admit"} /\ op'.req = s
            /\ own'[s] # None <=> st'[s] = "decode"
      BY <1>1, <1>3, <1>4, <1>10 DEF IInv, HoldOK
    <2> QED
      BY <1>1, <2>1, <2>5, <2>6 DEF HoldOK, Chain
  <1>13. CallOK'
    BY <1>1, <1>3, EmptyStack DEF CallOK
  <1>14. ASSUME NEW n \in Nodes
         PROVE  pins'[n] = PinHolders(n)' + ChainPin(n)' + (IF n \in Plays THEN 1 ELSE 0)
    <2>1. PinHolders(n)' = PinHolders(n) - Is(hit[r], n) + Is(hit'[r], n)
                                         - Is(own[r], n) + Is(own'[r], n)
      BY <1>10, HoldersBoth
    <2>2. Is(own[r], n) = 0 /\ Is(hit[r], n) = Is(h, n) /\ Is(None, n) = 0
      BY <1>3, ReqsAssumption DEF Is, h
    <2>3. ChainPin(n) = 0 /\ ChainPin(n)' = 0
      BY <1>1 DEF ChainPin
    <2>4. pins[n] = PinHolders(n) + ChainPin(n) + (IF n \in Plays THEN 1 ELSE 0)
      BY DEF IInv, PinsExact
    <2>5. PinHolders(n) \in Nat
      BY PinHoldersCount
    <2>6. PinHolders(n)' = PinHolders(n) - (IF n = h /\ fin THEN 1 ELSE 0)
                                         + (IF n = id /\ ~ fin THEN 1 ELSE 0)
      BY <1>4, <1>10, <2>1, <2>2, <2>5 DEF Is
    <2>7. CASE n \in new
      BY <1>4, <1>5, <1>8, <2>3, <2>6, <2>7
    <2>8. CASE n \notin new
      BY <1>4, <1>8, <2>3, <2>4, <2>5, <2>6, <2>8
    <2> QED
      BY <2>7, <2>8
  <1>15. PinsExact'
    BY <1>14 DEF PinsExact
  <1>16. LruExact'
    <2> DEFINE T == {h} \cup new
    <2>1. ASSUME NEW m \in Nodes \ T
          PROVE  Evictable(m) <=> Evictable(m)'
      <3>1. pins'[m] = pins[m] /\ tier'[m] = tier[m] /\ (m \in live <=> m \in live')
        BY <1>1, <1>7, <1>8 DEF IInv, TreeOK
      <3>2. \A c \in live : parent'[c] = parent[c] /\ tier'[c] = tier[c] /\ c \in live'
        BY <1>1, <1>4, <1>6, <1>7
      <3>3. \A c \in live' \ live : parent'[c] # m
        BY <1>1, <1>6
      <3> QED
        BY <3>1, <3>2, <3>3 DEF Evictable
    <2>2. live \subseteq Nodes /\ live' \subseteq Nodes /\ LruUpdate({}, T)
      BY <1>1, <1>4
    <2>3. \A m \in Nodes \ ({} \cup T) : Evictable(m) <=> Evictable(m)'
      BY <2>1
    <2> HIDE DEF T
    <2> QED
      BY <2>2, <2>3, LruStep DEF IInv
  <1> QED
    BY <1>9, <1>11, <1>12, <1>13, <1>15, <1>16 DEF IInv

-----------------------------------------------------------------------------
(* The theorems.                                                           *)

(* The empty cache satisfies the invariant.                                *)
LEMMA InitIInv ==
  Init => IInv
PROOF
  <1> SUFFICES ASSUME Init PROVE IInv
    OBVIOUS
  <1>1. /\ live = {} /\ lru = {} /\ op.kind = "none" /\ stack = <<>>
        /\ parent \in [Nodes -> Nodes \cup {None}]
        /\ above = [n \in Nodes |-> {}]
        /\ tier = [n \in Nodes |-> 0]
        /\ pins = [n \in Nodes |-> IF n \in Plays THEN 1 ELSE 0]
        /\ \A r \in Reqs : st[r] = "queued" /\ hit[r] = None /\ own[r] = None
        /\ st \in [Reqs -> {"queued", "loading", "prefill", "decode", "done"}]
        /\ hit \in [Reqs -> Nodes \cup {None}]
        /\ own \in [Reqs -> NodeIds \cup {None}]
    BY DEF Init, NoOp
  <1>2. TreeOK
    BY <1>1, PoolAssumption DEF TreeOK, Tiers, Nodes
  <1>3. HoldOK
    BY <1>1 DEF HoldOK
  <1>4. CallOK
    BY <1>1, EmptyStack DEF CallOK
  <1>5. HeldLive
    BY <1>1 DEF HeldLive
  <1>6. PinsExact
    <2>1. \A n \in Nodes : PinHolders(n) = 0 /\ ChainPin(n) = 0
      BY <1>1, PinHoldersCount, ReqsAssumption DEF ChainPin
    <2> QED
      BY <1>1, <2>1 DEF PinsExact
  <1>7. LruExact
    BY <1>1 DEF LruExact
  <1> QED
    BY <1>2, <1>3, <1>4, <1>5, <1>6, <1>7 DEF IInv

(* Admission, whatever the router's choice: a load is started, blocked or  *)
(* completed, a prefix is pinned, the request is admitted, sent back or    *)
(* rejected.                                                               *)
LEMMA StepAdmission ==
  ASSUME IInv, Admission
  PROVE  IInv'
PROOF
  <1>1. CASE \E r \in Reqs : \E h \in Hits(r) : BeginLoad(r, h)
    BY <1>1, StepBeginLoad
  <1>2. CASE \E r \in Reqs : \E h \in Hits(r) : \E chunk \in 1 .. ChunkTokens : PinWhole(r, h, chunk)
    BY <1>2, StepPinWhole
  <1>3. CASE \E r \in Reqs : \E h \in Hits(r) : \E chunk \in 1 .. ChunkTokens :
               PinSplit(r, h, FirstFree({}), chunk)
    BY <1>3, StepPinSplit
  <1>4. CASE LoadStart \/ LoadBlocked \/ AdmitOk \/ AdmitBlocked
    BY <1>4, StepLoadStart, StepLoadBlocked, StepAdmitOk, StepAdmitBlocked
  <1>5. CASE \E r \in Reqs : LoadDone(r) \/ Reject(r)
    BY <1>5, StepLoadDone, StepCompute
  <1> QED
    BY <1>1, <1>2, <1>3, <1>4, <1>5 DEF Admission

(* Passes: tokens are allocated, a pass is committed, a request finishes.  *)
LEMMA StepPass ==
  ASSUME IInv, Pass
  PROVE  IInv'
PROOF
  <1>1. CASE \E r \in Reqs : \E tok \in 1 .. Max({ChunkTokens, 1 + Nextn}) :
               Asks(r, tok) /\ BeginGrow(r, tok)
    <2>1. PICK r \in Reqs, tok \in 1 .. Max({ChunkTokens, 1 + Nextn}) : BeginGrow(r, tok)
      BY <1>1
    <2>2. tok \in Int
      OBVIOUS
    <2> QED
      BY <2>1, <2>2, StepGrow
  <1>2. CASE GrowOk \/ GrowFailed
    BY <1>2, StepGrow
  <1>3. CASE \E r \in Reqs : CommitChunk(r)
    BY <1>3, StepCompute
  <1>4. CASE \E r \in Reqs, id, t \in NodeIds : CommitPrefill(r, id, t)
    BY <1>4, StepCommitPrefill
  <1>5. CASE \E r \in Reqs : \E k \in 1 .. 1 + Nextn : CommitDecode(r, k)
    <2>1. PICK r \in Reqs, k \in 1 .. 1 + Nextn : CommitDecode(r, k)
      BY <1>5
    <2>2. k \in Int
      OBVIOUS
    <2> QED
      BY <2>1, <2>2, StepCompute
  <1>6. CASE \E r \in Reqs : \E k \in 1 .. 1 + Nextn : CommitLast(r, k)
    BY <1>6, StepCommitLast
  <1>7. \A r, id, t : CommitPrefill(r, id, t) => id \in NodeIds /\ t \in NodeIds
    BY DEF CommitPrefill
  <1> QED
    BY <1>1, <1>2, <1>3, <1>4, <1>5, <1>6, <1>7 DEF Pass

(* IInv is inductive.                                                      *)
THEOREM StepIInv ==
  IInv /\ [Next]_vars => IInv'
PROOF
  <1> SUFFICES ASSUME IInv, [Next]_vars
               PROVE  IInv'
    OBVIOUS
  <1>1. CASE EnsureFree
    BY <1>1, StepEnsureFree
  <1>2. CASE Admission
    BY <1>2, StepAdmission
  <1>3. CASE Pass
    BY <1>3, StepPass
  <1>4. CASE Preempt
    BY <1>4, StepPreemptKeep, StepPreemptDrop, StepPreemptPrefill DEF Preempt
  <1>5. CASE \E n \in live : Expire(n)
    BY <1>5, StepExpire
  <1>6. CASE UNCHANGED vars
    <2>1. UNCHANGED <<live, parent, above, tier, pins, lru, st, hit, own, op, stack>>
      BY <1>6 DEF vars, tree, shape, reqv
    <2>2. TreeOK' /\ LruExact' /\ HeldLive'
      BY <2>1 DEF IInv, TreeOK, Chain, LruExact, Evictable, HeldLive
    <2>3. HoldOK' /\ CallOK'
      BY <2>1 DEF IInv, HoldOK, CallOK, Chain
    <2>4. PinsExact'
      BY <2>1 DEF IInv, PinsExact, PinHolders, HeldAt, ChainPin
    <2> QED
      BY <2>2, <2>3, <2>4 DEF IInv
  <1> QED
    BY <1>1, <1>2, <1>3, <1>4, <1>5, <1>6 DEF Next

(* The strengthening holds in every reachable state of every workload.     *)
THEOREM KvInvariant ==
  Spec => []IInv
PROOF
  BY InitIInv, StepIInv, PTL DEF Spec

(* Node::pins (engine.cpp:66) is the number of the node's holders: no pin  *)
(* is leaked and none is given back twice, over admissions, splits, loads, *)
(* preemptions and completions in any order.                               *)
THEOREM PinsTheorem ==
  Spec => []PinsExact
PROOF
  <1>1. IInv => PinsExact
    BY DEF IInv
  <1> QED
    BY <1>1, KvInvariant, PTL

(* evict(), expiry and preempt() never free a node a request holds.        *)
THEOREM HeldTheorem ==
  Spec => []HeldLive
PROOF
  <1>1. IInv => HeldLive
    BY DEF IInv
  <1> QED
    BY <1>1, KvInvariant, PTL

(* lru_update (engine.cpp:675) is called wherever evictability changes.    *)
THEOREM LruTheorem ==
  Spec => []LruExact
PROOF
  <1>1. IInv => LruExact
    BY DEF IInv
  <1> QED
    BY <1>1, KvInvariant, PTL

(* Nothing above or at the nodes of a request that is served ever leaves   *)
(* HBM, though only its last node is pinned.                               *)
THEOREM HbmTheorem ==
  Spec => []HeldInHbm
PROOF
  <1>1. IInv => HeldInHbm
    <2> SUFFICES ASSUME IInv, NEW r \in Reqs, Serving(r)
                 PROVE  /\ \A n \in Chain(hit[r]) : tier[n] = 0
                        /\ own[r] # None => \A n \in Chain(own[r]) : tier[n] = 0
      BY DEF HeldInHbm
    <2>1. hit[r] # None /\ ~ (op.kind = "load" /\ op.req = r)
      BY DEF Serving, IInv, HoldOK, CallOK
    <2> QED
      BY <2>1 DEF IInv, HoldOK
  <1> QED
    BY <1>1, KvInvariant, PTL

(* Offloading goes leaves first and loading root first: tiers never get    *)
(* faster on the way down.                                                 *)
THEOREM TierTheorem ==
  Spec => []TierOrder
PROOF
  <1>1. IInv => TierOrder
    BY DEF IInv, TreeOK, TierOrder, Chain
  <1> QED
    BY <1>1, KvInvariant, PTL

-----------------------------------------------------------------------------
(* The inductive invariant behind TypeOK, HeldPrefix and BulkExact.       *)

(* The counts and the type of everything that is counted; a request that   *)
(* is being computed has something left to compute.                        *)
CountOK ==
  /\ IsFiniteSet(live)
  /\ blocks \in [Nodes -> Seq(Nat)] /\ tail \in [Nodes -> Nat]
  /\ used \in [Tiers -> Int]
  /\ gen \in [Reqs -> Nat] /\ hitLen \in [Reqs -> Nat] /\ left \in [Reqs -> Nat]
  /\ alloc \in [Reqs -> Int] /\ pend \in [Reqs -> Nat]
  /\ op \in [kind : {"none", "admit", "load", "grow"}, req : Reqs \cup {None}, blocks : Nat, tok : Int]
  /\ op.kind \in {"admit", "grow"} => op.tok > 0
  /\ \A r \in Reqs : st[r] = "prefill" => left[r] > 0

(* A node holds a piece of some prompt, of which the nodes above it hold   *)
(* all that comes before; so do the nodes held for a request, of its own   *)
(* prompt, the request that is being admitted included.                    *)
PromptIds(r, j) == {Prompt[r][k] : k \in 1 .. j}

Piece(n, r, i, j) ==
  /\ i <= j
  /\ blocks[n] = SubSeq(Prompt[r], i + 1, j)
  /\ BlocksOn(parent[n]) = PromptIds(r, i)

PathOK ==
  /\ \A n \in Nodes \ live : blocks[n] = <<>>
  /\ \A n \in live : \E r \in Reqs : \E i, j \in 0 .. Len(Prompt[r]) : Piece(n, r, i, j)
  /\ HeldPrefix
  /\ \A r \in Reqs : Serving(r) => hitLen[r] < Len(Prompt[r])
  /\ op.kind = "admit" =>
       /\ op.blocks < Len(Prompt[op.req])
       /\ BlocksOn(hit[op.req]) = PromptIds(op.req, op.blocks)

(* The load that waits for room has something to load.                     *)
LoadOK == op.kind = "load" => Lower(hit[op.req])

PInv == IInv /\ CountOK /\ PathOK /\ LoadOK

-----------------------------------------------------------------------------
(* What a path of the tree holds.                                          *)

(* the first k blocks of a node                                            *)
Upto(n, k) == {blocks[n][m] : m \in 1 .. k}

(* A prompt is a sequence of block ids that is not empty.                  *)
LEMMA PromptType ==
  ASSUME NEW r \in Reqs
  PROVE  /\ Prompt[r] \in Seq(Nat) /\ Len(Prompt[r]) \in Nat \ {0}
         /\ \A k \in 1 .. Len(Prompt[r]) : Prompt[r][k] \in Nat
PROOF
  <1>1. Prompt[r] \in Seq(Nat) /\ Len(Prompt[r]) > 0
    BY IslAssumption, PromptAssumption
  <1> QED
    BY <1>1, LenProperties, ElementOfSeq

(* Hash ids are chained: where two prompts meet, they are equal up to      *)
(* there.                                                                  *)
LEMMA PromptsMeet ==
  ASSUME NEW r \in Reqs, NEW s \in Reqs,
         NEW i \in 1 .. Len(Prompt[r]), NEW j \in 1 .. Len(Prompt[s]),
         Prompt[r][i] = Prompt[s][j]
  PROVE  i = j /\ \A k \in 0 .. i : PromptIds(r, k) = PromptIds(s, k)
PROOF
  <1>1. i = j /\ \A k \in 1 .. i : Prompt[r][k] = Prompt[s][k]
    BY PromptAssumption
  <1>2. ASSUME NEW k \in 0 .. i
        PROVE  PromptIds(r, k) = PromptIds(s, k)
    <2>1. \A m \in 1 .. k : Prompt[r][m] = Prompt[s][m]
      BY <1>1
    <2> QED
      BY <2>1 DEF PromptIds
  <1> QED
    BY <1>1, <1>2

(* The ids of a prompt up to j are those up to i and the ones between.     *)
LEMMA PromptParts ==
  ASSUME NEW r \in Reqs, NEW i \in Nat, NEW j \in Nat, i <= j
  PROVE  PromptIds(r, j) = PromptIds(r, i) \cup {Prompt[r][i + k] : k \in 1 .. j - i}
PROOF
  <1>1. ASSUME NEW x \in PromptIds(r, j)
        PROVE  x \in PromptIds(r, i) \cup {Prompt[r][i + k] : k \in 1 .. j - i}
    <2>1. PICK k \in 1 .. j : x = Prompt[r][k]
      BY DEF PromptIds
    <2>2. CASE k <= i
      BY <2>1, <2>2 DEF PromptIds
    <2>3. CASE k > i
      <3>1. k - i \in 1 .. j - i /\ i + (k - i) = k
        BY <2>3
      <3> QED
        BY <2>1, <3>1
    <2> QED
      BY <2>2, <2>3
  <1>2. ASSUME NEW x \in PromptIds(r, i) \cup {Prompt[r][i + k] : k \in 1 .. j - i}
        PROVE  x \in PromptIds(r, j)
    <2>1. CASE x \in PromptIds(r, i)
      BY <2>1 DEF PromptIds
    <2>2. CASE x \in {Prompt[r][i + k] : k \in 1 .. j - i}
      <3>1. PICK k \in 1 .. j - i : x = Prompt[r][i + k]
        BY <2>2
      <3>2. i + k \in 1 .. j
        OBVIOUS
      <3> QED
        BY <3>1, <3>2 DEF PromptIds
    <2> QED
      BY <2>1, <2>2
  <1> QED
    BY <1>1, <1>2

(* A path ends with the blocks of its last node; a root holds none.        *)
LEMMA BlocksAbove ==
  ASSUME TreeOK, NEW n \in live
  PROVE  BlocksOn(n) = Upto(n, Len(blocks[n])) \cup BlocksOn(parent[n])
PROOF
  <1>1. Chain(n) = {n} \cup Chain(parent[n])
    BY DEF TreeOK, Chain
  <1> QED
    BY <1>1 DEF BlocksOn, Upto

(* Nothing is stored at the root of a play.                                *)
LEMMA BlocksRoot ==
  ASSUME TreeOK, NEW n \in Plays, blocks[n] = <<>>
  PROVE  BlocksOn(n) = {}
PROOF
  <1>1. Chain(n) = {n}
    BY DEF TreeOK, Chain
  <1>2. 1 .. Len(blocks[n]) = {}
    BY EmptySeq
  <1> QED
    BY <1>1, <1>2 DEF BlocksOn

(* What a piece of a prompt is made of.                                    *)
LEMMA PieceOf ==
  ASSUME TreeOK, NEW n \in live, NEW r \in Reqs,
         NEW i \in 0 .. Len(Prompt[r]), NEW j \in 0 .. Len(Prompt[r]), Piece(n, r, i, j)
  PROVE  /\ Len(blocks[n]) = j - i
         /\ \A k \in 1 .. j - i : blocks[n][k] = Prompt[r][i + k]
         /\ BlocksOn(n) = PromptIds(r, j)
         /\ \A k \in 0 .. j - i :
              PromptIds(r, i + k) = BlocksOn(parent[n]) \cup Upto(n, k)
PROOF
  <1>1. i \in Nat /\ j \in Nat /\ i <= j /\ i + 1 \in 1 .. Len(Prompt[r]) + 1 /\ j <= Len(Prompt[r])
    BY PromptType DEF Piece
  <1>2. Len(blocks[n]) = j - i /\ \A k \in 1 .. j - i : blocks[n][k] = Prompt[r][i + k]
    <2>1. i + 1 \in 1 .. Len(Prompt[r]) + 1 /\ j \in (i + 1) - 1 .. Len(Prompt[r])
      BY <1>1, PromptType
    <2>2. /\ Len(SubSeq(Prompt[r], i + 1, j)) = j - (i + 1) + 1
          /\ \A k \in 1 .. j - (i + 1) + 1 : SubSeq(Prompt[r], i + 1, j)[k] = Prompt[r][(i + 1) + k - 1]
      BY <2>1, PromptType, SubSeqProperties
    <2>3. j - (i + 1) + 1 = j - i /\ \A k \in Int : (i + 1) + k - 1 = i + k
      BY <1>1
    <2> QED
      BY <2>2, <2>3 DEF Piece
  <1>3. ASSUME NEW k \in 0 .. j - i
        PROVE  PromptIds(r, i + k) = BlocksOn(parent[n]) \cup Upto(n, k)
    <2>1. PromptIds(r, i + k) = PromptIds(r, i) \cup {Prompt[r][i + m] : m \in 1 .. (i + k) - i}
      <3>1. i + k \in Nat /\ i <= i + k
        BY <1>1
      <3> QED
        BY <1>1, <3>1, PromptParts
    <2>2. (i + k) - i = k /\ \A m \in 1 .. k : blocks[n][m] = Prompt[r][i + m]
      BY <1>1, <1>2
    <2>3. {Prompt[r][i + m] : m \in 1 .. (i + k) - i} = Upto(n, k)
      BY <2>2 DEF Upto
    <2> QED
      BY <2>1, <2>3 DEF Piece
  <1>4. BlocksOn(n) = PromptIds(r, j)
    <2>1. j - i \in 0 .. j - i /\ i + (j - i) = j
      BY <1>1
    <2>2. PromptIds(r, j) = BlocksOn(parent[n]) \cup Upto(n, j - i)
      BY <1>3, <2>1
    <2> QED
      BY <1>2, <2>2, BlocksAbove
  <1> QED
    BY <1>2, <1>3, <1>4

-----------------------------------------------------------------------------
(* What lookup() finds.                                                    *)

(* h is a match of the first h.blocks blocks of the prompt of r: at the    *)
(* end of a node (or at a root), or h.off blocks into a node.              *)
Matched(r, h) ==
  /\ h.node \in live \cup Plays
  /\ h.blocks \in 0 .. Len(Prompt[r])
  /\ h.node \in Plays \/ h.off = Len(blocks[h.node]) => BlocksOn(h.node) = PromptIds(r, h.blocks)
  /\ h.node \in live /\ h.off < Len(blocks[h.node]) =>
       /\ h.off \in Nat
       /\ PromptIds(r, h.blocks) = BlocksOn(parent[h.node]) \cup Upto(h.node, h.off)

(* The parent of a node of the tree is one, or a root.                     *)
LEMMA ParentNode ==
  ASSUME TreeOK, NEW n \in live
  PROVE  parent[n] \in live \cup Plays
PROOF
  BY DEF TreeOK, Chain

(* The walk down a node that starts with the next block of the prompt: the *)
(* blocks that agree are the first ones, and their number Common.          *)
LEMMA CommonRight ==
  ASSUME TreeOK, PathOK, NEW r \in Reqs, NEW n \in live,
         NEW i \in 1 .. Len(Prompt[r]), StartsAt(n, Prompt[r], i),
         NEW c, c = Common(n, Prompt[r], i)
  PROVE  /\ c \in 1 .. Len(blocks[n]) /\ i - 1 + c <= Len(Prompt[r])
         /\ BlocksOn(parent[n]) = PromptIds(r, i - 1)
         /\ \A k \in 0 .. c :
              PromptIds(r, i - 1 + k) = BlocksOn(parent[n]) \cup Upto(n, k)
         /\ c = Len(blocks[n]) => BlocksOn(n) = PromptIds(r, i - 1 + c)
PROOF
  <1> DEFINE L == Len(Prompt[r])
             M == Min({Len(blocks[n]), L - i + 1})
             K == {k \in 1 .. M : blocks[n][k] = Prompt[r][i + k - 1]}
  <1>0. PICK s \in Reqs : \E a, b \in 0 .. Len(Prompt[s]) : Piece(n, s, a, b)
    BY DEF PathOK
  <1>1. PICK a \in 0 .. Len(Prompt[s]), b \in 0 .. Len(Prompt[s]) : Piece(n, s, a, b)
    BY <1>0
  <1>2. /\ Len(blocks[n]) = b - a
        /\ \A k \in 1 .. b - a : blocks[n][k] = Prompt[s][a + k]
        /\ BlocksOn(n) = PromptIds(s, b)
        /\ \A k \in 0 .. b - a :
             PromptIds(s, a + k) = BlocksOn(parent[n]) \cup Upto(n, k)
        /\ BlocksOn(parent[n]) = PromptIds(s, a)
    <2>1. BlocksOn(parent[n]) = PromptIds(s, a)
      BY <1>1 DEF Piece
    <2>2. a \in 0 .. Len(Prompt[s]) /\ b \in 0 .. Len(Prompt[s]) /\ Piece(n, s, a, b)
      BY <1>1
    <2>3. Len(blocks[n]) = b - a
      BY <2>2, PieceOf
    <2>6. BlocksOn(n) = PromptIds(s, b)
      BY <2>2, PieceOf
    <2>4. \A k \in 1 .. b - a : blocks[n][k] = Prompt[s][a + k]
      BY <2>2, PieceOf
    <2>5. \A k \in 0 .. b - a : PromptIds(s, a + k) = BlocksOn(parent[n]) \cup Upto(n, k)
      BY <2>2, PieceOf
    <2> QED
      BY <2>1, <2>3, <2>4, <2>5, <2>6
  <1>3. a \in Nat /\ b \in Nat /\ b <= Len(Prompt[s]) /\ L \in Nat /\ Len(Prompt[s]) \in Nat
    BY <1>1, PromptType
  <1>4. b - a > 0 /\ Prompt[s][a + 1] = Prompt[r][i]
    <2>1. b - a > 0 /\ blocks[n][1] = Prompt[r][i]
      BY <1>2 DEF StartsAt
    <2> QED
      BY <1>2, <1>3, <2>1
  <1>5. i = a + 1
    <2>1. a + 1 \in 1 .. Len(Prompt[s])
      BY <1>3, <1>4
    <2> QED
      BY <1>4, <2>1, PromptsMeet
  <1>6. M \in Nat /\ 1 <= M /\ M <= b - a /\ M <= L - i + 1
    <2> DEFINE T == {Len(blocks[n]), L - i + 1}
    <2>1. T \in SUBSET Int /\ T # {}
      BY <1>2, <1>3
    <2>2. IsFiniteSet(T)
      <3>1. IsFiniteSet({Len(blocks[n])} \cup {L - i + 1})
        BY FS_Singleton, FS_Union
      <3>2. {Len(blocks[n])} \cup {L - i + 1} = T
        OBVIOUS
      <3> QED
        BY <3>1, <3>2
    <2>3. M \in T /\ \A y \in T : M <= y
      <3> HIDE DEF T
      <3>1. Min(T) \in T /\ \A y \in T : Min(T) <= y
        BY <2>1, <2>2, LeastGreatest
      <3> QED
        BY <3>1 DEF T
    <2>4. M \in {b - a, L - i + 1} /\ M <= b - a /\ M <= L - i + 1
      <3> HIDE DEF M
      <3> QED
        BY <1>2, <2>3
    <2> HIDE DEF M
    <2> QED
      BY <1>3, <1>4, <2>4
  <1> HIDE DEF M
  <1>7. K \in SUBSET Int /\ IsFiniteSet(K) /\ 1 \in K
    <2>1. i + 1 - 1 = i /\ 1 \in 1 .. M
      BY <1>3, <1>6
    <2>2. blocks[n][1] = Prompt[r][i + 1 - 1]
      BY <2>1 DEF StartsAt
    <2>3. K \subseteq 1 .. M /\ IsFiniteSet(1 .. M)
      BY <1>6, FS_Interval
    <2>4. IsFiniteSet(K)
      BY <2>3, FS_Subset
    <2> QED
      BY <2>1, <2>2, <2>3, <2>4
  <1>8. c \in K
    <2>1. c = Max(K)
      BY DEF Common, M
    <2> HIDE DEF K
    <2> QED
      BY <1>7, <2>1, LeastGreatest
  <1>9. c \in Int /\ 1 <= c /\ c <= b - a /\ c <= L - i + 1 /\ Prompt[s][a + c] = Prompt[r][i + c - 1]
    <2>1. c \in 1 .. M /\ blocks[n][c] = Prompt[r][i + c - 1]
      BY <1>8
    <2>2. c \in 1 .. b - a /\ c <= L - i + 1
      BY <1>3, <1>6, <2>1, SMTT(30)
    <2>3. blocks[n][c] = Prompt[s][a + c]
      BY <1>2, <2>2
    <2> QED
      BY <2>1, <2>2, <2>3
  <1>10. \A k \in 0 .. a + c : PromptIds(s, k) = PromptIds(r, k)
    <2>1. a + c \in 1 .. Len(Prompt[s]) /\ i + c - 1 \in 1 .. Len(Prompt[r]) /\ Prompt[s][a + c] = Prompt[r][i + c - 1]
      BY <1>3, <1>5, <1>9, SMTT(30)
    <2> HIDE DEF L
    <2> QED
      BY <2>1, PromptsMeet
  <1>11. \A k \in 0 .. c : i - 1 + k = a + k /\ a + k \in 0 .. a + c /\ k \in 0 .. b - a
    BY <1>3, <1>5, <1>9
  <1>12. i - 1 + c = a + c /\ i - 1 = a /\ a \in 0 .. a + c /\ a + c \in 0 .. a + c
    BY <1>3, <1>5, <1>9
  <1>13. c = b - a => a + c = b
    BY <1>3, <1>9
  <1>14. c \in 1 .. b - a /\ i - 1 + c <= Len(Prompt[r])
    BY <1>3, <1>5, <1>9
  <1>15. \A k \in 0 .. c : PromptIds(r, i - 1 + k) = BlocksOn(parent[n]) \cup Upto(n, k)
    <2> TAKE k \in 0 .. c
    <2>1. i - 1 + k = a + k /\ a + k \in 0 .. a + c /\ k \in 0 .. b - a
      BY <1>11
    <2>2. PromptIds(s, a + k) = BlocksOn(parent[n]) \cup Upto(n, k)
      BY <1>2, <2>1
    <2>3. PromptIds(s, a + k) = PromptIds(r, a + k)
      BY <1>10, <2>1
    <2> QED
      BY <2>1, <2>2, <2>3
  <1>16. BlocksOn(parent[n]) = PromptIds(r, i - 1)
    BY <1>2, <1>10, <1>12
  <1>17. c = Len(blocks[n]) => BlocksOn(n) = PromptIds(r, i - 1 + c)
    BY <1>2, <1>10, <1>12, <1>13
  <1> QED
    BY <1>2, <1>14, <1>15, <1>16, <1>17

(* What lookup() returns before the last block is taken back.              *)
LEMMA LookupRight ==
  ASSUME TreeOK, PathOK, NEW r \in Reqs, NEW h \in Lookup(PlayOf[r], Prompt[r])
  PROVE  \/ h.node = PlayOf[r] /\ h.off = 0 /\ h.blocks = 0
         \/ /\ h = [node |-> h.node, off |-> h.off, blocks |-> h.blocks]
            /\ h.node \in live /\ h.off \in 1 .. Len(blocks[h.node])
            /\ h.blocks \in 1 .. Len(Prompt[r]) /\ h.off <= h.blocks
            /\ BlocksOn(parent[h.node]) = PromptIds(r, h.blocks - h.off)
            /\ PromptIds(r, h.blocks) = BlocksOn(parent[h.node]) \cup Upto(h.node, h.off)
            /\ PromptIds(r, h.blocks - 1) = BlocksOn(parent[h.node]) \cup Upto(h.node, h.off - 1)
            /\ h.off = Len(blocks[h.node]) => BlocksOn(h.node) = PromptIds(r, h.blocks)
PROOF
  <1> DEFINE H == Prompt[r]
             p == PlayOf[r]
  <1>1. h = [node |-> p, off |-> 0, blocks |-> 0] \/ h \in Matches(p, H)
    <2> HIDE DEF p, H
    <2>1. h \in Lookup(p, H)
      BY DEF p, H
    <2> QED
      BY <2>1 DEF Lookup
  <1>2. CASE h \in Matches(p, H)
    <2>1. PICK n \in live : h \in {Match(n, H, i) : i \in {j \in 1 .. Len(H) : StartsAt(n, H, j)}}
      <3> HIDE DEF p, H
      <3> QED
        BY <1>2 DEF Matches
    <2>2. PICK i \in 1 .. Len(H) : StartsAt(n, H, i) /\ h = Match(n, H, i)
      BY <2>1
    <2> DEFINE c == Common(n, H, i)
    <2>3. h.node = n /\ h.off = c /\ h.blocks = i - 1 + c
          /\ h = [node |-> h.node, off |-> h.off, blocks |-> h.blocks]
      BY <2>2 DEF Match
    <2>4. /\ c \in 1 .. Len(blocks[n]) /\ i - 1 + c <= Len(H)
          /\ BlocksOn(parent[n]) = PromptIds(r, i - 1)
          /\ \A k \in 0 .. c : PromptIds(r, i - 1 + k) = BlocksOn(parent[n]) \cup Upto(n, k)
          /\ c = Len(blocks[n]) => BlocksOn(n) = PromptIds(r, i - 1 + c)
      <3> HIDE DEF c
      <3>1. c = Common(n, Prompt[r], i)
        BY DEF c
      <3> QED
        BY <2>2, <3>1, CommonRight
    <2> HIDE DEF c
    <2>5. Len(H) \in Nat
      BY PromptType
    <2> HIDE DEF H, p
    <2>6. /\ i - 1 + c \in 1 .. Len(H) /\ c <= i - 1 + c
          /\ (i - 1 + c) - c = i - 1 /\ (i - 1 + c) - 1 = i - 1 + (c - 1)
          /\ c - 1 \in 0 .. c /\ c \in 0 .. c
      BY <2>4, <2>5
    <2>7. PromptIds(r, i - 1 + c) = BlocksOn(parent[n]) \cup Upto(n, c)
      BY <2>4, <2>6
    <2>8. PromptIds(r, i - 1 + (c - 1)) = BlocksOn(parent[n]) \cup Upto(n, c - 1)
      BY <2>4, <2>6
    <2>9. h.blocks \in 1 .. Len(H) /\ h.off <= h.blocks /\ h.off \in 1 .. Len(blocks[h.node])
      BY <2>3, <2>4, <2>6
    <2> QED
      BY <2>2, <2>3, <2>4, <2>6, <2>7, <2>8, <2>9 DEF H
  <1> QED
    BY <1>1, <1>2

(* What admission gets: a match that leaves at least one block.            *)
LEMMA HitsRight ==
  ASSUME TreeOK, PathOK, NEW r \in Reqs, NEW h \in Hits(r)
  PROVE  Matched(r, h) /\ h.blocks < Len(Prompt[r])
PROOF
  <1>1. PICK g \in Lookup(PlayOf[r], Prompt[r]) : h = BackOff(g, Prompt[r])
    BY DEF Hits
  <1>2. Len(Prompt[r]) \in Nat \ {0}
    BY PromptType
  <1>3. CASE g.node = PlayOf[r] /\ g.off = 0 /\ g.blocks = 0
    <2>1. h = g /\ PlayOf[r] \in Plays
      BY <1>1, <1>2, <1>3, ReqsAssumption DEF BackOff
    <2>2. BlocksOn(PlayOf[r]) = {} /\ PromptIds(r, 0) = {}
      <3>1. PlayOf[r] \in Nodes \ live
        BY <2>1, ReqsAssumption DEF TreeOK, Nodes
      <3> QED
        BY <2>1, <3>1, BlocksRoot DEF PathOK, PromptIds
    <2>3. h.node \notin live
      BY <1>3, <2>1, ReqsAssumption DEF TreeOK
    <2>4. h.node = PlayOf[r] /\ h.blocks = 0 /\ 0 \in 0 .. Len(Prompt[r]) /\ 0 < Len(Prompt[r])
      BY <1>2, <1>3, <2>1
    <2>5. BlocksOn(h.node) = PromptIds(r, h.blocks)
      BY <2>2, <2>4
    <2> QED
      BY <2>1, <2>3, <2>4, <2>5 DEF Matched
  <1>4. CASE /\ g = [node |-> g.node, off |-> g.off, blocks |-> g.blocks]
             /\ g.node \in live /\ g.off \in 1 .. Len(blocks[g.node])
             /\ g.blocks \in 1 .. Len(Prompt[r]) /\ g.off <= g.blocks
             /\ BlocksOn(parent[g.node]) = PromptIds(r, g.blocks - g.off)
             /\ PromptIds(r, g.blocks) = BlocksOn(parent[g.node]) \cup Upto(g.node, g.off)
             /\ PromptIds(r, g.blocks - 1) = BlocksOn(parent[g.node]) \cup Upto(g.node, g.off - 1)
             /\ g.off = Len(blocks[g.node]) => BlocksOn(g.node) = PromptIds(r, g.blocks)
    <2>1. g.node \notin Plays
      BY <1>4, ReqsAssumption DEF TreeOK
    <2>2. CASE g.blocks < Len(Prompt[r])
      <3>1. h = g
        BY <1>1, <2>2 DEF BackOff
      <3>2. g.off \in Nat /\ g.blocks \in 0 .. Len(Prompt[r])
        BY <1>2, <1>4
      <3>3. g.off = Len(blocks[g.node]) => BlocksOn(g.node) = PromptIds(r, g.blocks)
        BY <1>4
      <3>4. g.node \in live /\ PromptIds(r, g.blocks) = BlocksOn(parent[g.node]) \cup Upto(g.node, g.off)
        BY <1>4
      <3>5. Matched(r, g)
        BY <2>1, <3>2, <3>3, <3>4 DEF Matched
      <3> QED
        BY <2>2, <3>1, <3>5
    <2>3. CASE ~ (g.blocks < Len(Prompt[r])) /\ g.off > 1
      <3>1. h = [g EXCEPT !.off = @ - 1, !.blocks = @ - 1]
        BY <1>1, <2>3 DEF BackOff
      <3>2. h.node = g.node /\ h.off = g.off - 1 /\ h.blocks = g.blocks - 1
        BY <1>4, <3>1
      <3>3. h.off \in Nat /\ h.off # Len(blocks[g.node]) /\ h.blocks \in 0 .. Len(Prompt[r])
            /\ h.blocks < Len(Prompt[r])
        BY <1>2, <1>4, <3>2
      <3> QED
        BY <1>4, <2>1, <3>2, <3>3 DEF Matched
    <2>4. CASE ~ (g.blocks < Len(Prompt[r])) /\ ~ g.off > 1
      <3> DEFINE q == parent[g.node]
      <3>1. h = [node |-> q, off |-> Len(blocks[q]), blocks |-> g.blocks - 1]
        BY <1>1, <2>4 DEF BackOff
      <3>2. h.node = q /\ h.off = Len(blocks[q]) /\ h.blocks = g.blocks - 1 /\ q \in live \cup Plays
        BY <1>4, <3>1, ParentNode
      <3>3. g.off = 1
        BY <1>4, <2>4
      <3>4. BlocksOn(q) = PromptIds(r, h.blocks)
        BY <1>4, <3>2, <3>3
      <3>5. h.blocks \in 0 .. Len(Prompt[r]) /\ h.blocks < Len(Prompt[r])
        BY <1>2, <1>4, <3>2
      <3> HIDE DEF q
      <3> USE ReqsAssumption
      <3>6. ~ (h.node \in live /\ h.off < Len(blocks[h.node]))
        <4> SUFFICES ASSUME h.node \in live
                     PROVE  ~ h.off < Len(blocks[h.node])
          OBVIOUS
        <4>1. Len(blocks[q]) \in Int
          <5>1. PICK s \in Reqs : \E i, j \in 0 .. Len(Prompt[s]) : Piece(q, s, i, j)
            BY <3>2 DEF PathOK
          <5>2. PICK i \in 0 .. Len(Prompt[s]), j \in 0 .. Len(Prompt[s]) : Piece(q, s, i, j)
            BY <5>1
          <5>3. Len(blocks[q]) = j - i
            BY <3>2, <5>2, PieceOf
          <5> QED
            BY <5>2, <5>3
        <4> QED
          BY <3>2, <4>1
      <3>7. h.node \in Plays \/ h.off = Len(blocks[h.node]) => BlocksOn(h.node) = PromptIds(r, h.blocks)
        BY <3>2, <3>4
      <3>8. h.node \in live \cup Plays
        BY <3>2
      <3> QED
        BY <3>5, <3>6, <3>7, <3>8 DEF Matched
    <2> QED
      BY <2>2, <2>3, <2>4
  <1> QED
    BY <1>1, <1>3, <1>4, LookupRight

-----------------------------------------------------------------------------
(* Steps that leave the paths they do not free alone.                      *)

(* What PathOK says of one request, and of the one that is admitted.       *)
HolderPath(r) ==
  /\ hit[r] \in live \cup Plays
  /\ hitLen[r] < Len(Prompt[r])
  /\ BlocksOn(hit[r]) = PromptIds(r, hitLen[r])
  /\ own[r] # None => own[r] \in live /\ BlocksOn(own[r]) = PromptIds(r, Len(Prompt[r]))

AdmitPath ==
  /\ hit[op.req] \in live \cup Plays
  /\ op.blocks < Len(Prompt[op.req])
  /\ BlocksOn(hit[op.req]) = PromptIds(op.req, op.blocks)

(* What is known of the nodes held for a request that is served or         *)
(* admitted.                                                               *)
LEMMA HolderNow ==
  ASSUME IInv, PathOK
  PROVE  /\ \A r \in Reqs : Serving(r) => HolderPath(r)
         /\ op.kind = "admit" => AdmitPath
PROOF
  <1>1. ASSUME NEW r \in Reqs, Serving(r)
        PROVE  HolderPath(r)
    <2>1. hit[r] # None /\ hit[r] \in live \cup Plays \cup {None} /\ own[r] \in live \cup {None}
      BY <1>1 DEF IInv, HoldOK, HeldLive, Serving
    <2> QED
      BY <1>1, <2>1 DEF PathOK, HeldPrefix, HolderPath, PromptIds
  <1>2. ASSUME op.kind = "admit"
        PROVE  AdmitPath
    <2>1. op.req \in Reqs
      BY <1>2 DEF IInv, CallOK
    <2>2. hit[op.req] # None
      BY <1>2, <2>1 DEF IInv, HoldOK
    <2>3. hit[op.req] \in live \cup Plays
      BY <2>1, <2>2 DEF IInv, HeldLive
    <2> QED
      BY <1>2, <2>3 DEF PathOK, AdmitPath
  <1> QED
    BY <1>1, <1>2

(* The nodes of D are freed and nothing below them is left; a request that *)
(* is served afterwards holds nodes that stay.                             *)
LEMMA PathKept ==
  ASSUME TreeOK, PathOK, NEW D \in SUBSET live, live' = live \ D,
         \A m \in live \ D : above[m] \cap D = {},
         \A m \in Nodes \ D : /\ parent'[m] = parent[m]
                              /\ above'[m] = above[m]
                              /\ blocks'[m] = blocks[m],
         \A m \in D : blocks'[m] = <<>>,
         \A r \in Reqs : Serving(r)' =>
           /\ hit'[r] \in (live \cup Plays) \ D
           /\ hitLen'[r] < Len(Prompt[r])
           /\ BlocksOn(hit'[r]) = PromptIds(r, hitLen'[r])
           /\ own'[r] # None => /\ own'[r] \in live \ D
                               /\ BlocksOn(own'[r]) = PromptIds(r, Len(Prompt[r])),
         op'.kind = "admit" =>
           /\ hit'[op'.req] \in (live \cup Plays) \ D
           /\ op'.blocks < Len(Prompt[op'.req])
           /\ BlocksOn(hit'[op'.req]) = PromptIds(op'.req, op'.blocks)
  PROVE  PathOK'
PROOF
  <1>1. live \subseteq Nodes /\ Plays \subseteq Nodes /\ Plays \cap live = {}
    BY ReqsAssumption DEF TreeOK, Nodes
  <1>2. ASSUME NEW m \in (live \cup Plays) \ D
        PROVE  BlocksOn(m)' = BlocksOn(m)
    <2>1. Chain(m) \cap D = {} /\ Chain(m) \subseteq Nodes
      BY <1>1 DEF TreeOK, Chain
    <2>2. Chain(m)' = Chain(m)
      BY <1>1 DEF Chain
    <2>3. \A n \in Chain(m) : blocks'[n] = blocks[n]
      BY <2>1
    <2> QED
      BY <2>2, <2>3 DEF BlocksOn
  <1>3. \A n \in Nodes \ live' : blocks'[n] = <<>>
    BY DEF PathOK
  <1>4. ASSUME NEW n \in live'
        PROVE  \E r \in Reqs : \E i, j \in 0 .. Len(Prompt[r]) : Piece(n, r, i, j)'
    <2>1. PICK r \in Reqs : \E i, j \in 0 .. Len(Prompt[r]) : Piece(n, r, i, j)
      BY DEF PathOK
    <2>2. PICK i \in 0 .. Len(Prompt[r]), j \in 0 .. Len(Prompt[r]) : Piece(n, r, i, j)
      BY <2>1
    <2>3. parent[n] \in (live \cup Plays) \ D
      <3>1. parent[n] \in Chain(n) \cap above[n] /\ parent[n] \in live \cup Plays
        BY DEF TreeOK, Chain
      <3> QED
        BY <3>1
    <2>4. blocks'[n] = blocks[n] /\ parent'[n] = parent[n]
      BY <1>1
    <2>5. BlocksOn(parent[n])' = BlocksOn(parent[n])
      BY <1>2, <2>3, <2>4
    <2>6. Piece(n, r, i, j)'
      BY <2>2, <2>4, <2>5 DEF Piece, PromptIds
    <2> QED
      BY <2>2, <2>6
  <1>5. \A r \in Reqs : Serving(r)' =>
          /\ hitLen'[r] < Len(Prompt[r])
          /\ BlocksOn(hit[r])' = PromptIds(r, hitLen'[r])
          /\ own'[r] # None => BlocksOn(own[r])' = PromptIds(r, Len(Prompt[r]))
    BY <1>2
  <1>6. op'.kind = "admit" => /\ op'.blocks < Len(Prompt[op'.req])
                              /\ BlocksOn(hit[op.req])' = PromptIds(op'.req, op'.blocks)
    BY <1>2
  <1> QED
    BY <1>3, <1>4, <1>5, <1>6 DEF PathOK, HeldPrefix, PromptIds

(* ... of a step that frees nothing.                                       *)
LEMMA PathSame ==
  ASSUME TreeOK, PathOK, UNCHANGED shape,
         \A r \in Reqs : Serving(r)' =>
           /\ hit'[r] \in live \cup Plays
           /\ hitLen'[r] < Len(Prompt[r])
           /\ BlocksOn(hit'[r]) = PromptIds(r, hitLen'[r])
           /\ own'[r] # None => /\ own'[r] \in live
                               /\ BlocksOn(own'[r]) = PromptIds(r, Len(Prompt[r])),
         op'.kind = "admit" =>
           /\ hit'[op'.req] \in live \cup Plays
           /\ op'.blocks < Len(Prompt[op'.req])
           /\ BlocksOn(hit'[op'.req]) = PromptIds(op'.req, op'.blocks)
  PROVE  PathOK'
PROOF
  <1> DEFINE D == {}
  <1>1. D \in SUBSET live /\ live' = live \ D /\ live \ D = live /\ Nodes \ D = Nodes
        /\ (live \cup Plays) \ D = live \cup Plays
    BY DEF shape
  <1>2. \A m \in live \ D : above[m] \cap D = {}
    OBVIOUS
  <1>3. \A m \in Nodes \ D : parent'[m] = parent[m] /\ above'[m] = above[m] /\ blocks'[m] = blocks[m]
    BY DEF shape
  <1>4. \A m \in D : blocks'[m] = <<>>
    OBVIOUS
  <1> HIDE DEF D
  <1> QED
    BY <1>1, <1>2, <1>3, <1>4, PathKept

(* Requests that are served go on holding what they hold, or stop.         *)
LEMMA PathStays ==
  ASSUME IInv, PathOK, UNCHANGED shape,
         \A r \in Reqs : Serving(r)' =>
           /\ Serving(r)
           /\ hit'[r] = hit[r] /\ own'[r] = own[r] /\ hitLen'[r] = hitLen[r],
         op'.kind # "admit" \/ (op' = op /\ hit' = hit)
  PROVE  PathOK'
PROOF
  <1>1. \A r \in Reqs : Serving(r)' =>
           /\ hit'[r] \in live \cup Plays
           /\ hitLen'[r] < Len(Prompt[r])
           /\ BlocksOn(hit'[r]) = PromptIds(r, hitLen'[r])
           /\ own'[r] # None => /\ own'[r] \in live
                               /\ BlocksOn(own'[r]) = PromptIds(r, Len(Prompt[r]))
    BY HolderNow DEF HolderPath
  <1>2. op'.kind = "admit" =>
           /\ hit'[op'.req] \in live \cup Plays
           /\ op'.blocks < Len(Prompt[op'.req])
           /\ BlocksOn(hit'[op'.req]) = PromptIds(op'.req, op'.blocks)
    BY HolderNow DEF AdmitPath
  <1> QED
    BY <1>1, <1>2, PathSame DEF IInv

-----------------------------------------------------------------------------
(* PathOK, step by step.                                                   *)

(* Eviction and expiry free nodes nobody holds.                            *)
LEMMA PathRemoval ==
  ASSUME IInv, PathOK, NEW n \in live, RemoveSubtree(n),
         \A m \in {n} \cup Down(n) : pins[m] = 0, UNCHANGED <<reqv, op>>
  PROVE  PathOK'
PROOF
  <1> DEFINE D == {n} \cup Down(n)
  <1>1. D \in SUBSET live /\ live \subseteq Nodes
    BY DEF Down, IInv, TreeOK, Nodes
  <1>2. live' = live \ D
    BY DEF RemoveSubtree
  <1>3. \A m \in Nodes \ D : parent'[m] = parent[m] /\ above'[m] = above[m] /\ blocks'[m] = blocks[m]
    BY DEF RemoveSubtree
  <1>4. \A m \in D : blocks'[m] = <<>>
    BY <1>1 DEF RemoveSubtree
  <1>5. \A m \in live \ D : above[m] \cap D = {}
    BY <1>1 DEF Down, IInv, TreeOK
  <1>6. \A r \in Reqs : hit[r] \notin D /\ own[r] \notin D
    <2> SUFFICES ASSUME NEW r \in Reqs, NEW m \in D
                 PROVE  hit[r] # m /\ own[r] # m
      OBVIOUS
    <2>1. m \in Nodes /\ pins[m] = 0
      BY <1>1
    <2> QED
      BY <2>1, HolderPins DEF IInv
  <1>7. UNCHANGED <<st, hit, own, hitLen, op>>
    BY DEF reqv, count
  <1> HIDE DEF D
  <1>8. \A r \in Reqs : Serving(r)' => HolderPath(r)
    BY <1>7, HolderNow DEF Serving
  <1>9. \A r \in Reqs : Serving(r)' =>
           /\ hit'[r] \in (live \cup Plays) \ D
           /\ hitLen'[r] < Len(Prompt[r])
           /\ BlocksOn(hit'[r]) = PromptIds(r, hitLen'[r])
           /\ own'[r] # None => /\ own'[r] \in live \ D
                               /\ BlocksOn(own'[r]) = PromptIds(r, Len(Prompt[r]))
    BY <1>6, <1>7, <1>8 DEF HolderPath
  <1>10. op'.kind = "admit" =>
           /\ hit'[op'.req] \in (live \cup Plays) \ D
           /\ op'.blocks < Len(Prompt[op'.req])
           /\ BlocksOn(hit'[op'.req]) = PromptIds(op'.req, op'.blocks)
    BY <1>6, <1>7, HolderNow DEF AdmitPath, IInv, CallOK
  <1> QED
    BY <1>1, <1>2, <1>3, <1>4, <1>5, <1>9, <1>10, PathKept DEF IInv

(* Eviction keeps the paths.                                               *)
LEMMA PathEnsureFree ==
  ASSUME IInv, PathOK, EnsureFree
  PROVE  PathOK'
PROOF
  <1>1. ASSUME NEW v \in lru, EvictDown(v)
        PROVE  PathOK'
    BY <1>1, PathStays DEF EvictDown, tree, shape, reqv, count, Serving
  <1>2. ASSUME NEW v \in lru, EvictLast(v)
        PROVE  PathOK'
    <2>1. v \in live /\ \A m \in {v} \cup Down(v) : pins[m] = 0
      BY LruNode, UnpinnedBelow
    <2>2. RemoveSubtree(v) /\ UNCHANGED <<reqv, op>>
      BY <1>2 DEF EvictLast
    <2> QED
      BY <2>1, <2>2, PathRemoval
  <1>3. CASE Offload
    BY <1>3, PathStays DEF Offload, shape, reqv, count, Serving
  <1>4. CASE Drop
    <2>1. Victim \in lru /\ RemoveSubtree(Victim) /\ UNCHANGED <<reqv, op>>
      BY <1>4, VictimNode DEF Drop
    <2>2. Victim \in live /\ \A m \in {Victim} \cup Down(Victim) : pins[m] = 0
      BY <2>1, LruNode, UnpinnedBelow
    <2> QED
      BY <2>1, <2>2, PathRemoval
  <1> QED
    BY <1>1, <1>2, <1>3, <1>4 DEF EnsureFree

(* Expiry keeps the paths.                                                 *)
LEMMA PathExpire ==
  ASSUME IInv, PathOK, NEW n \in live, Expire(n)
  PROVE  PathOK'
PROOF
  BY PathRemoval DEF Expire

(* Loads, refused admissions, passes and preemptions that keep the node.   *)
LEMMA PathHandlers ==
  ASSUME IInv, PathOK,
         \/ \E r \in Reqs : \E h : BeginLoad(r, h)
         \/ LoadStart \/ LoadBlocked \/ AdmitBlocked
         \/ \E r \in Reqs : LoadDone(r) \/ Reject(r)
         \/ \E r \in Reqs : \E tok : BeginGrow(r, tok)
         \/ GrowOk \/ GrowFailed
         \/ \E r \in Reqs : CommitChunk(r)
         \/ \E r \in Reqs : \E k : CommitDecode(r, k) \/ CommitLast(r, k)
         \/ \E r \in Reqs : PreemptKeep(r) \/ PreemptPrefill(r)
  PROVE  PathOK'
PROOF
  <1>1. op.kind = "none" \/ op.req \in Reqs
    BY DEF IInv, CallOK
  <1>2. op.kind \in {"load", "admit"} => st[op.req] = "queued"
    BY DEF IInv, CallOK
  <1>3. st \in [Reqs -> {"queued", "loading", "prefill", "decode", "done"}]
        /\ hit \in [Reqs -> Nodes \cup {None}] /\ own \in [Reqs -> NodeIds \cup {None}]
    BY DEF IInv, HoldOK
  <1> USE DEF shape, tree, count, reqv, Serving, Call, Return, NoOp
  <1>4. ASSUME NEW r \in Reqs, NEW h, BeginLoad(r, h)
        PROVE  PathOK'
    BY <1>3, <1>4, PathStays DEF BeginLoad, Waiting, Queued
  <1>5. CASE LoadStart
    BY <1>1, <1>2, <1>3, <1>5, PathStays DEF LoadStart
  <1>6. CASE LoadBlocked
    BY <1>1, <1>2, <1>3, <1>6, PathStays DEF LoadBlocked
  <1>7. CASE AdmitBlocked
    BY <1>1, <1>2, <1>3, <1>7, PathStays DEF AdmitBlocked
  <1>8. ASSUME NEW r \in Reqs, LoadDone(r) \/ Reject(r)
        PROVE  PathOK'
    BY <1>3, <1>8, PathStays DEF LoadDone, Reject, Queued, Idle
  <1>9. ASSUME NEW r \in Reqs, NEW tok, BeginGrow(r, tok)
        PROVE  PathOK'
    BY <1>9, PathStays DEF BeginGrow
  <1>10. CASE GrowOk \/ GrowFailed
    BY <1>10, PathStays DEF GrowOk, GrowFailed
  <1>11. ASSUME NEW r \in Reqs, CommitChunk(r)
         PROVE  PathOK'
    BY <1>11, PathStays DEF CommitChunk, Idle
  <1>12. ASSUME NEW r \in Reqs, NEW k, CommitDecode(r, k)
         PROVE  PathOK'
    BY <1>12, PathStays DEF CommitDecode, Idle
  <1>13. ASSUME NEW r \in Reqs, NEW k, CommitLast(r, k)
         PROVE  PathOK'
    BY <1>3, <1>13, PathStays DEF CommitLast, Idle
  <1>14. ASSUME NEW r \in Reqs, PreemptKeep(r) \/ PreemptPrefill(r)
         PROVE  PathOK'
    BY <1>3, <1>14, PathStays DEF PreemptKeep, PreemptPrefill, Preempting, Requeue, Idle
  <1> QED
    BY <1>4, <1>5, <1>6, <1>7, <1>8, <1>9, <1>10, <1>11, <1>12, <1>13, <1>14

(* A node that preempt() frees is used by nobody else and has no children. *)
LEMMA PathPreemptDrop ==
  ASSUME IInv, PathOK, CountOK, NEW r \in Reqs, PreemptDrop(r)
  PROVE  PathOK'
PROOF
  <1> DEFINE o == own[r]
             D == {o}
  <1>1. o \in live /\ o \in Nodes \ Plays /\ ~ pins[o] > 1 /\ ~ \E c \in live : parent[c] = o
    BY ReqsAssumption DEF PreemptDrop, Shared, IInv, HeldLive, TreeOK, Nodes
  <1>2. /\ \A s \in Reqs : hit[s] # o
        /\ \A s \in Reqs \ {r} : own[s] # o
    BY <1>1, OnlyHolder DEF IInv
  <1>3. \A m \in live \ D : above[m] \cap D = {}
    <2> SUFFICES ASSUME NEW m \in live, o \in above[m]
                 PROVE  FALSE
      OBVIOUS
    <2>1. \E c \in live : parent[c] = o
      BY DEF IInv, TreeOK
    <2> QED
      BY <1>1, <2>1
  <1>4. live' = live \ D /\ D \in SUBSET live
    BY <1>1 DEF PreemptDrop
  <1>5. \A m \in Nodes \ D : parent'[m] = parent[m] /\ above'[m] = above[m] /\ blocks'[m] = blocks[m]
    BY DEF PreemptDrop
  <1>6. \A m \in D : blocks'[m] = <<>>
    <2>1. blocks' = [blocks EXCEPT ![o] = <<>>] /\ DOMAIN blocks = Nodes
      BY DEF PreemptDrop, CountOK
    <2> QED
      BY <1>1, <2>1
  <1>7. /\ st' = [st EXCEPT ![r] = "queued"]
        /\ hit' = [hit EXCEPT ![r] = None] /\ own' = [own EXCEPT ![r] = None]
        /\ hitLen' = hitLen /\ op' = op /\ op.kind = "none"
    BY DEF PreemptDrop, Requeue, Preempting, Idle
  <1>8. st \in [Reqs -> {"queued", "loading", "prefill", "decode", "done"}]
        /\ hit \in [Reqs -> Nodes \cup {None}] /\ own \in [Reqs -> NodeIds \cup {None}]
    BY DEF IInv, HoldOK
  <1>9. ASSUME NEW s \in Reqs, Serving(s)'
        PROVE  /\ s # r /\ HolderPath(s)
               /\ hit'[s] = hit[s] /\ own'[s] = own[s] /\ hitLen'[s] = hitLen[s]
    <2>1. s # r /\ st'[s] = st[s]
      BY <1>7, <1>8, <1>9 DEF Serving
    <2> QED
      BY <1>7, <1>8, <1>9, <2>1, HolderNow DEF Serving
  <1> HIDE DEF o
  <1>10. \A s \in Reqs : Serving(s)' =>
           /\ hit'[s] \in (live \cup Plays) \ D
           /\ hitLen'[s] < Len(Prompt[s])
           /\ BlocksOn(hit'[s]) = PromptIds(s, hitLen'[s])
           /\ own'[s] # None => /\ own'[s] \in live \ D
                               /\ BlocksOn(own'[s]) = PromptIds(s, Len(Prompt[s]))
    BY <1>2, <1>9 DEF HolderPath
  <1> HIDE DEF D
  <1> QED
    BY <1>3, <1>4, <1>5, <1>6, <1>7, <1>10, PathKept DEF IInv

(* Admission: the request holds the match it was found, and computes the   *)
(* rest.                                                                   *)
LEMMA PathPinWhole ==
  ASSUME IInv, PathOK, NEW r \in Reqs, NEW h \in Hits(r), NEW chunk, PinWhole(r, h, chunk)
  PROVE  PathOK'
PROOF
  <1>1. Matched(r, h) /\ h.blocks < Len(Prompt[r])
    BY HitsRight DEF IInv
  <1>2. /\ UNCHANGED <<shape, st, own, hitLen>> /\ st[r] = "queued"
        /\ hit' = [hit EXCEPT ![r] = h.node]
        /\ op'.req = r /\ op'.blocks = h.blocks
    BY DEF PinWhole, Call, count, Waiting, Queued
  <1>3. BlocksOn(h.node) = PromptIds(r, h.blocks) /\ h.node \in live \cup Plays
    BY <1>1 DEF PinWhole, Matched
  <1>4. hit \in [Reqs -> Nodes \cup {None}]
    BY DEF IInv, HoldOK
  <1>5. ASSUME NEW s \in Reqs, Serving(s)'
        PROVE  s # r /\ hit'[s] = hit[s] /\ HolderPath(s)
    <2>1. s # r /\ Serving(s)
      BY <1>2, <1>5 DEF Serving
    <2> QED
      BY <1>2, <1>4, <2>1, HolderNow
  <1>6. \A s \in Reqs : Serving(s)' =>
           /\ hit'[s] \in live \cup Plays
           /\ hitLen'[s] < Len(Prompt[s])
           /\ BlocksOn(hit'[s]) = PromptIds(s, hitLen'[s])
           /\ own'[s] # None => /\ own'[s] \in live
                               /\ BlocksOn(own'[s]) = PromptIds(s, Len(Prompt[s]))
    BY <1>2, <1>5 DEF HolderPath
  <1>7. /\ hit'[op'.req] \in live \cup Plays
        /\ op'.blocks < Len(Prompt[op'.req])
        /\ BlocksOn(hit'[op'.req]) = PromptIds(op'.req, op'.blocks)
    BY <1>1, <1>2, <1>3, <1>4
  <1> QED
    BY <1>2, <1>6, <1>7, PathSame DEF IInv

(* An admitted request has the hit its admission has found.                *)
LEMMA PathAdmitOk ==
  ASSUME IInv, PathOK, CountOK, AdmitOk
  PROVE  PathOK'
PROOF
  <1> DEFINE r == op.req
  <1>1. /\ UNCHANGED <<shape, hit, own>> /\ op.kind = "admit" /\ op'.kind = "none"
        /\ st' = [st EXCEPT ![r] = "prefill"]
        /\ hitLen' = [hitLen EXCEPT ![r] = op.blocks]
    BY DEF AdmitOk, tree, Return, NoOp
  <1>2. r \in Reqs /\ st[r] = "queued" /\ AdmitPath
    BY <1>1, HolderNow DEF IInv, CallOK
  <1>3. st \in [Reqs -> {"queued", "loading", "prefill", "decode", "done"}]
        /\ hitLen \in [Reqs -> Nat] /\ (own[r] # None <=> st[r] = "decode")
    BY <1>2 DEF IInv, HoldOK, CountOK
  <1>4. ASSUME NEW s \in Reqs, Serving(s)', s # r
        PROVE  HolderPath(s) /\ hitLen'[s] = hitLen[s]
    BY <1>1, <1>3, <1>4, HolderNow DEF Serving
  <1>5. hitLen'[r] = op.blocks /\ own[r] = None
    BY <1>1, <1>2, <1>3
  <1>6. ASSUME NEW s \in Reqs, Serving(s)'
        PROVE  /\ hit'[s] \in live \cup Plays
               /\ hitLen'[s] < Len(Prompt[s])
               /\ BlocksOn(hit'[s]) = PromptIds(s, hitLen'[s])
               /\ own'[s] # None => /\ own'[s] \in live
                                   /\ BlocksOn(own'[s]) = PromptIds(s, Len(Prompt[s]))
    <2>1. CASE s = r
      BY <1>1, <1>2, <1>5, <2>1 DEF AdmitPath
    <2>2. CASE s # r
      BY <1>1, <1>4, <1>6, <2>2 DEF HolderPath
    <2> QED
      BY <2>1, <2>2
  <1> HIDE DEF r
  <1> QED
    BY <1>1, <1>6, PathSame DEF IInv

(* A part of a part of a sequence.                                         *)
LEMMA PartValues ==
  ASSUME NEW S, NEW q \in Seq(S), NEW i \in Nat, NEW j \in Nat, i <= j, j <= Len(q)
  PROVE  /\ SubSeq(q, i + 1, j) \in Seq(S) /\ Len(SubSeq(q, i + 1, j)) = j - i
         /\ \A k \in 1 .. j - i : SubSeq(q, i + 1, j)[k] = q[i + k] /\ q[i + k] \in S
PROOF
  <1>1. Len(q) \in Nat /\ \A k \in 1 .. Len(q) : q[k] \in S
    BY LenProperties, ElementOfSeq
  <1>2. i + 1 \in Int /\ j \in Int /\ \A k \in i + 1 .. j : q[k] \in S
    BY <1>1
  <1>3. /\ SubSeq(q, i + 1, j) \in Seq(S)
        /\ Len(SubSeq(q, i + 1, j)) = IF i + 1 <= j THEN j - (i + 1) + 1 ELSE 0
        /\ \A k \in 1 .. j - (i + 1) + 1 : SubSeq(q, i + 1, j)[k] = q[(i + 1) + k - 1]
    BY <1>2, SubSeqProperties
  <1>4. /\ j - (i + 1) + 1 = j - i /\ (~ (i + 1 <= j) => j - i = 0)
        /\ \A k \in 1 .. j - i : (i + 1) + k - 1 = i + k /\ i + k \in 1 .. Len(q)
    BY <1>1
  <1>5. Len(SubSeq(q, i + 1, j)) = j - i
    BY <1>3, <1>4
  <1>6. \A k \in 1 .. j - i : SubSeq(q, i + 1, j)[k] = q[i + k] /\ q[i + k] \in S
    BY <1>1, <1>3, <1>4
  <1> QED
    BY <1>3, <1>5, <1>6

(* A part of a part of a prompt is a part of the prompt.                   *)
LEMMA PartOfPart ==
  ASSUME NEW S, NEW q \in Seq(S), NEW i \in Nat, NEW j \in Nat, i <= j, j <= Len(q),
         NEW c \in Nat, NEW d \in Nat, c <= d, d <= j - i
  PROVE  SubSeq(SubSeq(q, i + 1, j), c + 1, d) = SubSeq(q, i + c + 1, i + d)
PROOF
  <1> DEFINE p == SubSeq(q, i + 1, j)
             x == SubSeq(p, c + 1, d)
             y == SubSeq(q, (i + c) + 1, i + d)
  <1>1. /\ p \in Seq(S) /\ Len(p) = j - i
        /\ \A k \in 1 .. j - i : p[k] = q[i + k]
    BY PartValues
  <1> HIDE DEF p
  <1>2. /\ x \in Seq(S) /\ Len(x) = d - c
        /\ \A k \in 1 .. d - c : x[k] = p[c + k]
    BY <1>1, PartValues
  <1>3. i + c \in Nat /\ i + d \in Nat /\ i + c <= i + d /\ i + d <= Len(q)
        /\ (i + d) - (i + c) = d - c /\ i + c + 1 = (i + c) + 1
    BY LenProperties
  <1>4. /\ y \in Seq(S) /\ Len(y) = (i + d) - (i + c)
        /\ \A k \in 1 .. (i + d) - (i + c) : y[k] = q[(i + c) + k]
    BY <1>3, PartValues
  <1>5. ASSUME NEW k \in 1 .. d - c
        PROVE  x[k] = y[k]
    <2>1. c + k \in 1 .. j - i /\ i + (c + k) = (i + c) + k /\ k \in 1 .. (i + d) - (i + c)
      OBVIOUS
    <2>2. x[k] = p[c + k] /\ p[c + k] = q[i + (c + k)]
      BY <1>1, <1>2, <2>1
    <2>3. y[k] = q[(i + c) + k]
      BY <1>4, <2>1
    <2> QED
      BY <2>1, <2>2, <2>3
  <1>6. Len(x) = Len(y) /\ \A k \in 1 .. Len(x) : x[k] = y[k]
    BY <1>2, <1>3, <1>4, <1>5
  <1>7. x \in Seq(S) /\ y \in Seq(S)
    BY <1>2, <1>4
  <1> HIDE DEF x, y
  <1>8. x = y
    BY <1>6, <1>7, SeqEqual
  <1> QED
    BY <1>3, <1>8 DEF x, y, p

(* split(): the blocks of node n are now those of n and of the node above  *)
(* it; no path holds anything else than before.                            *)
LEMMA SplitPaths ==
  ASSUME TreeOK, PathOK, NEW n \in live, NEW up \in NodeIds \ live,
         NEW off \in Nat, off <= Len(blocks[n]),
         live' = live \cup {up},
         parent'[up] = parent[n], parent'[n] = up,
         \A m \in Nodes \ {n, up} : parent'[m] = parent[m],
         above'[up] = above[n],
         \A m \in Nodes \ {up} :
           above'[m] = above[m] \cup (IF m \in {n} \cup Down(n) THEN {up} ELSE {}),
         blocks'[up] = SubSeq(blocks[n], 1, off),
         blocks'[n] = SubSeq(blocks[n], off + 1, Len(blocks[n])),
         \A m \in Nodes \ {n, up} : blocks'[m] = blocks[m]
  PROVE  /\ \A m \in live \cup Plays : BlocksOn(m)' = BlocksOn(m)
         /\ BlocksOn(up)' = BlocksOn(parent[n]) \cup Upto(n, off)
         /\ \A m \in Nodes \ live' : blocks'[m] = <<>>
         /\ \A m \in live' : \E s \in Reqs : \E i, j \in 0 .. Len(Prompt[s]) : Piece(m, s, i, j)'
PROOF
  <1>1. /\ live \subseteq Nodes \ {up} /\ Plays \subseteq Nodes \ {up} /\ Plays \cap live = {}
        /\ up \in Nodes /\ n # up /\ n \in Nodes
    BY ReqsAssumption DEF TreeOK, Nodes
  <1>2. /\ parent[n] \in live \cup Plays /\ n \notin above[n] /\ up \notin above[n]
        /\ above[n] = Chain(parent[n]) /\ above[n] \subseteq live \cup Plays
    BY <1>1, ParentNode DEF TreeOK
  <1>3. PICK s \in Reqs : \E i, j \in 0 .. Len(Prompt[s]) : Piece(n, s, i, j)
    BY DEF PathOK
  <1>4. PICK i \in 0 .. Len(Prompt[s]), j \in 0 .. Len(Prompt[s]) : Piece(n, s, i, j)
    BY <1>3
  <1>5. /\ Prompt[s] \in Seq(Nat) /\ Len(Prompt[s]) \in Nat
        /\ i \in Nat /\ j \in Nat /\ i <= j /\ j <= Len(Prompt[s])
        /\ blocks[n] = SubSeq(Prompt[s], i + 1, j)
    BY <1>4, PromptType DEF Piece
  <1>6. BlocksOn(parent[n]) = PromptIds(s, i)
    BY <1>4 DEF Piece
  <1>7. Len(blocks[n]) = j - i /\ blocks[n] \in Seq(Nat)
        /\ \A k \in 1 .. j - i : blocks[n][k] = Prompt[s][i + k]
    <2>1. /\ SubSeq(Prompt[s], i + 1, j) \in Seq(Nat)
          /\ Len(SubSeq(Prompt[s], i + 1, j)) = j - i
          /\ \A k \in 1 .. j - i : SubSeq(Prompt[s], i + 1, j)[k] = Prompt[s][i + k]
      BY <1>5, PartValues, SMTT(30)
    <2> QED
      BY <1>5, <2>1, Zenon
  <1> DEFINE l == Len(blocks[n])
  <1>15. l = j - i /\ off <= l
    BY <1>7
  <1>16. off <= j - i /\ (i + off) - i = off /\ \A k \in 1 .. off : k \in 1 .. j - i
    <2> HIDE DEF l
    <2> QED
      BY <1>5, <1>15
  <1>8. /\ blocks'[up] = SubSeq(Prompt[s], i + 1, i + off)
        /\ blocks'[n] = SubSeq(Prompt[s], (i + off) + 1, j)
        /\ i + off \in 0 .. Len(Prompt[s]) /\ i + off <= j /\ i <= i + off
    <2>1. off <= j - i /\ 0 <= off /\ i + 0 + 1 = i + 1 /\ 0 + 1 = 1 /\ i + (j - i) = j
          /\ j - i \in Nat /\ j - i <= j - i /\ i + off + 1 = (i + off) + 1
          /\ i + off \in 0 .. Len(Prompt[s]) /\ i + off <= j /\ i <= i + off
      BY <1>5, <1>16
    <2>2. SubSeq(blocks[n], 0 + 1, off) = SubSeq(Prompt[s], i + 0 + 1, i + off)
      BY <1>5, <2>1, PartOfPart
    <2>3. SubSeq(blocks[n], off + 1, j - i) = SubSeq(Prompt[s], i + off + 1, i + (j - i))
      BY <1>5, <2>1, PartOfPart
    <2> QED
      BY <1>7, <2>1, <2>2, <2>3
  <1>17. PromptIds(s, i + off) = BlocksOn(parent[n]) \cup Upto(n, off)
    <2>1. off \in 0 .. j - i
      BY <1>5, <1>16
    <2>2. \A k \in 0 .. j - i : PromptIds(s, i + k) = BlocksOn(parent[n]) \cup Upto(n, k)
      BY <1>4, PieceOf
    <2> QED
      BY <2>1, <2>2
  <1>9. \A m \in above[n] : blocks'[m] = blocks[m]
    BY <1>1, <1>2
  <1>10. BlocksOn(up)' = BlocksOn(parent[n]) \cup Upto(n, off)
    <2>1. Chain(up)' = {up} \cup Chain(parent[n])
      BY <1>2 DEF Chain
    <2>2. Len(blocks'[up]) = off /\ \A k \in 1 .. off : blocks'[up][k] = blocks[n][k]
      <3>1. /\ Len(SubSeq(Prompt[s], i + 1, i + off)) = (i + off) - i
            /\ \A k \in 1 .. (i + off) - i : SubSeq(Prompt[s], i + 1, i + off)[k] = Prompt[s][i + k]
        BY <1>5, <1>8, PartValues
      <3> QED
        BY <1>7, <1>8, <1>16, <3>1
    <2>3. {blocks'[up][k] : k \in 1 .. Len(blocks'[up])} = Upto(n, off)
      BY <2>2, SMTT(30) DEF Upto
    <2>4. \A m \in Chain(parent[n]) : blocks'[m] = blocks[m]
      BY <1>2, <1>9
    <2>5. BlocksOn(up)' = {blocks'[up][k] : k \in 1 .. Len(blocks'[up])} \cup BlocksOn(parent[n])
      <3> DEFINE Ids(m) == {blocks[m][k] : k \in 1 .. Len(blocks[m])}
                 New(m) == {blocks'[m][k] : k \in 1 .. Len(blocks'[m])}
      <3>1. BlocksOn(up)' = UNION {New(m) : m \in Chain(up)'}
        BY DEF BlocksOn
      <3>2. BlocksOn(parent[n]) = UNION {Ids(m) : m \in Chain(parent[n])}
        BY DEF BlocksOn
      <3>3. \A m \in Chain(parent[n]) : New(m) = Ids(m)
        BY <2>4
      <3> HIDE DEF Ids, New
      <3>4. BlocksOn(up)' = New(up) \cup BlocksOn(parent[n])
        BY <2>1, <3>1, <3>2, <3>3
      <3> QED
        BY <3>4 DEF New
    <2> QED
      BY <2>3, <2>5
  <1>11. {blocks'[n][k] : k \in 1 .. Len(blocks'[n])} \cup Upto(n, off) = Upto(n, Len(blocks[n]))
    <2>1. /\ Len(blocks'[n]) = j - (i + off)
          /\ \A k \in 1 .. j - (i + off) : blocks'[n][k] = Prompt[s][(i + off) + k]
      <3>1. i + off \in Nat
        BY <1>8
      <3>2. /\ Len(SubSeq(Prompt[s], (i + off) + 1, j)) = j - (i + off)
            /\ \A k \in 1 .. j - (i + off) : SubSeq(Prompt[s], (i + off) + 1, j)[k] = Prompt[s][(i + off) + k]
        BY <1>5, <1>8, <3>1, PartValues
      <3> QED
        BY <1>8, <3>2
    <2>2. \A k \in 1 .. j - (i + off) : /\ off + k \in 1 .. j - i
                                        /\ i + (off + k) = (i + off) + k
      BY <1>5
    <2>3. \A k \in 1 .. j - (i + off) : blocks'[n][k] = blocks[n][off + k]
      BY <1>7, <2>1, <2>2
    <2>4. ASSUME NEW x \in Upto(n, Len(blocks[n]))
          PROVE  x \in {blocks'[n][k] : k \in 1 .. Len(blocks'[n])} \cup Upto(n, off)
      <3>1. PICK k \in 1 .. j - i : x = blocks[n][k]
        BY <1>7 DEF Upto
      <3>2. CASE k <= off
        BY <3>1, <3>2 DEF Upto
      <3>3. CASE k > off
        <4>1. k - off \in 1 .. j - (i + off) /\ off + (k - off) = k
          BY <1>5, <3>3
        <4>2. blocks'[n][k - off] = x
          BY <2>3, <3>1, <4>1
        <4>3. k - off \in 1 .. Len(blocks'[n])
          BY <2>1, <4>1
        <4> QED
          BY <4>2, <4>3
      <3>4. k <= off \/ k > off
        OBVIOUS
      <3> QED
        BY <3>2, <3>3, <3>4
    <2>5. ASSUME NEW x \in {blocks'[n][k] : k \in 1 .. Len(blocks'[n])} \cup Upto(n, off)
          PROVE  x \in Upto(n, Len(blocks[n]))
      <3>1. CASE x \in Upto(n, off)
        BY <1>7, <3>1 DEF Upto
      <3>2. CASE x \in {blocks'[n][k] : k \in 1 .. Len(blocks'[n])}
        <4>1. PICK k \in 1 .. j - (i + off) : x = blocks'[n][k]
          BY <2>1, <3>2
        <4> QED
          BY <1>7, <2>2, <2>3, <4>1 DEF Upto
      <3> QED
        BY <3>1, <3>2
    <2> QED
      BY <2>4, <2>5
  <1>12. ASSUME NEW m \in live \cup Plays
         PROVE  BlocksOn(m)' = BlocksOn(m)
    <2>1. m \in Nodes \ {up} /\ up \notin Chain(m) /\ Chain(m) \subseteq Nodes
      BY <1>1 DEF Chain, TreeOK
    <2>2. n \in Chain(m) <=> m \in {n} \cup Down(n)
      BY <1>1 DEF Chain, Down, TreeOK
    <2>3. CASE n \notin Chain(m)
      <3>1. Chain(m)' = Chain(m) /\ \A x \in Chain(m) : blocks'[x] = blocks[x]
        BY <2>1, <2>2, <2>3 DEF Chain
      <3> QED
        BY <3>1 DEF BlocksOn
    <2>4. CASE n \in Chain(m)
      <3> DEFINE C == Chain(m) \ {n}
                 B(x) == {blocks[x][k] : k \in 1 .. Len(blocks[x])}
                 Bn(x) == {blocks'[x][k] : k \in 1 .. Len(blocks'[x])}
      <3>1. Chain(m)' = C \cup {n, up} /\ Chain(m) = C \cup {n}
        BY <2>1, <2>2, <2>4 DEF Chain
      <3>2. \A x \in C : blocks'[x] = blocks[x]
        BY <2>1
      <3>3. BlocksOn(m)' = (UNION {Bn(x) : x \in C}) \cup Bn(n) \cup Bn(up)
        <4>1. BlocksOn(m)' = UNION {Bn(x) : x \in Chain(m)'}
          BY DEF BlocksOn
        <4> HIDE DEF Bn, C
        <4> QED
          BY <3>1, <4>1
      <3>4. BlocksOn(m) = (UNION {B(x) : x \in C}) \cup B(n)
        BY <3>1 DEF BlocksOn
      <3>5. {Bn(x) : x \in C} = {B(x) : x \in C}
        BY <3>2
      <3>6. Bn(up) = Upto(n, off)
        <4>1. /\ Len(blocks'[up]) = (i + off) - i /\ (i + off) - i = off
              /\ \A k \in 1 .. (i + off) - i : blocks'[up][k] = Prompt[s][i + k]
          BY <1>5, <1>8, PartValues
        <4>2. \A k \in 1 .. off : k \in 1 .. j - i
          BY <1>7
        <4>3. \A k \in 1 .. off : blocks'[up][k] = blocks[n][k]
          BY <1>7, <4>1, <4>2
        <4> QED
          BY <4>1, <4>3 DEF Upto
      <3>7. B(n) = Upto(n, Len(blocks[n]))
        BY DEF Upto
      <3>8. Bn(n) \cup Upto(n, off) = Upto(n, Len(blocks[n]))
        BY <1>11
      <3>9. UNION {Bn(x) : x \in C} = UNION {B(x) : x \in C}
        BY <3>5
      <3> HIDE DEF C, B, Bn
      <3> QED
        BY <3>3, <3>4, <3>6, <3>7, <3>8, <3>9
    <2> QED
      BY <2>3, <2>4
  <1>13. \A m \in Nodes \ live' : blocks'[m] = <<>>
    BY <1>1 DEF PathOK
  <1>14. ASSUME NEW m \in live'
         PROVE  \E q \in Reqs : \E a, b \in 0 .. Len(Prompt[q]) : Piece(m, q, a, b)'
    <2>1. CASE m = up
      <3>1. BlocksOn(parent[m])' = PromptIds(s, i)
        <4>1. parent'[m] = parent[n]
          BY <2>1
        <4>2. BlocksOn(parent[m])' = BlocksOn(parent[n])
          BY <1>2, <1>12, <4>1
        <4> QED
          BY <1>6, <4>2
      <3>2. Piece(m, s, i, i + off)'
        BY <1>8, <2>1, <3>1 DEF Piece, PromptIds
      <3> QED
        BY <1>4, <1>8, <3>2
    <2>2. CASE m = n
      <3>1. BlocksOn(parent[m])' = PromptIds(s, i + off)
        <4>1. parent'[m] = up
          BY <2>2
        <4>2. BlocksOn(parent[m])' = BlocksOn(parent[n]) \cup Upto(n, off)
          BY <1>10, <4>1
        <4> QED
          BY <1>17, <4>2
      <3>2. Piece(m, s, i + off, j)'
        BY <1>8, <2>2, <3>1 DEF Piece, PromptIds
      <3> QED
        BY <1>4, <1>8, <3>2
    <2>3. CASE m \notin {n, up}
      <3>1. m \in live /\ parent'[m] = parent[m] /\ blocks'[m] = blocks[m] /\ parent[m] \in live \cup Plays
        BY <1>1, <2>3, ParentNode
      <3>2. PICK q \in Reqs : \E a, b \in 0 .. Len(Prompt[q]) : Piece(m, q, a, b)
        BY <3>1 DEF PathOK
      <3>3. PICK a \in 0 .. Len(Prompt[q]), b \in 0 .. Len(Prompt[q]) : Piece(m, q, a, b)
        BY <3>2
      <3>4. BlocksOn(parent[m])' = BlocksOn(parent[m])
        BY <1>12, <3>1
      <3>5. Piece(m, q, a, b)'
        BY <3>1, <3>3, <3>4 DEF Piece, PromptIds
      <3> QED
        BY <3>3, <3>5
    <2> QED
      BY <2>1, <2>2, <2>3
  <1> QED
    BY <1>10, <1>12, <1>13, <1>14

(* An admission that splits a node keeps the paths of all requests.        *)
LEMMA PathPinSplit ==
  ASSUME IInv, PathOK, CountOK, NEW r \in Reqs, NEW h \in Hits(r), NEW up, NEW chunk,
         PinSplit(r, h, up, chunk)
  PROVE  PathOK'
PROOF
  <1> DEFINE n == h.node
             off == h.off
  <1>1. /\ UNCHANGED <<st, own, hitLen>> /\ st[r] = "queued"
        /\ n \in live /\ up \in NodeIds \ live
        /\ off < Len(blocks[n])
        /\ live' = live \cup {up}
        /\ parent' = [parent EXCEPT ![up] = parent[n], ![n] = up]
        /\ above' = [m \in Nodes |-> IF m = up THEN above[n]
                                     ELSE IF m \in {n} \cup Down(n) THEN above[m] \cup {up}
                                     ELSE above[m]]
        /\ blocks' = [blocks EXCEPT ![up] = SubSeq(blocks[n], 1, off),
                                    ![n] = SubSeq(@, off + 1, Len(@))]
        /\ hit' = [hit EXCEPT ![r] = up]
        /\ op'.kind = "admit" /\ op'.req = r /\ op'.blocks = h.blocks
    BY DEF PinSplit, Waiting, Queued, Call, count
  <1>2. Matched(r, h) /\ h.blocks < Len(Prompt[r])
    BY HitsRight DEF IInv
  <1>3. off \in Nat /\ PromptIds(r, h.blocks) = BlocksOn(parent[n]) \cup Upto(n, off)
    BY <1>1, <1>2 DEF Matched
  <1> HIDE DEF n, off
  <1>4. /\ live \subseteq Nodes /\ up \in Nodes /\ n \in Nodes /\ n # up /\ up \notin live \cup Plays
        /\ parent \in [Nodes -> Nodes \cup {None}] /\ blocks \in [Nodes -> Seq(Nat)]
        /\ hit \in [Reqs -> Nodes \cup {None}]
    BY <1>1, ReqsAssumption DEF IInv, TreeOK, HoldOK, CountOK, Nodes
  <1>5. /\ parent'[up] = parent[n] /\ parent'[n] = up
        /\ \A m \in Nodes \ {n, up} : parent'[m] = parent[m]
    BY <1>1, <1>4
  <1>6. /\ blocks'[up] = SubSeq(blocks[n], 1, off)
        /\ blocks'[n] = SubSeq(blocks[n], off + 1, Len(blocks[n]))
        /\ \A m \in Nodes \ {n, up} : blocks'[m] = blocks[m]
    BY <1>1, <1>4
  <1>7. /\ above'[up] = above[n]
        /\ \A m \in Nodes \ {up} :
             above'[m] = above[m] \cup (IF m \in {n} \cup Down(n) THEN {up} ELSE {})
    BY <1>1, <1>4 DEF IInv, TreeOK
  <1>8. off <= Len(blocks[n]) /\ TreeOK
    <2>1. Len(blocks[n]) \in Nat
      BY <1>4, LenProperties
    <2> QED
      BY <1>1, <1>3, <2>1 DEF IInv
  <1>9. /\ \A m \in live \cup Plays : BlocksOn(m)' = BlocksOn(m)
        /\ BlocksOn(up)' = BlocksOn(parent[n]) \cup Upto(n, off)
        /\ \A m \in Nodes \ live' : blocks'[m] = <<>>
        /\ \A m \in live' : \E s \in Reqs : \E i, j \in 0 .. Len(Prompt[s]) : Piece(m, s, i, j)'
    BY <1>1, <1>3, <1>5, <1>6, <1>7, <1>8, SplitPaths
  <1>10. ASSUME NEW s \in Reqs, Serving(s)'
         PROVE  /\ hitLen'[s] < Len(Prompt[s])
                /\ BlocksOn(hit[s])' = PromptIds(s, hitLen'[s])
                /\ own'[s] # None => BlocksOn(own[s])' = PromptIds(s, Len(Prompt[s]))
    <2>1. s # r /\ Serving(s)
      BY <1>1, <1>10 DEF Serving
    <2>2. hit'[s] = hit[s] /\ own'[s] = own[s] /\ hitLen'[s] = hitLen[s]
      BY <1>1, <1>4, <2>1
    <2>3. HolderPath(s)
      BY <2>1, HolderNow
    <2>4. BlocksOn(hit[s])' = BlocksOn(hit[s])
      BY <1>9, <2>2, <2>3 DEF HolderPath
    <2>5. own[s] # None => BlocksOn(own[s])' = BlocksOn(own[s])
      BY <1>9, <2>2, <2>3 DEF HolderPath
    <2> QED
      BY <2>2, <2>3, <2>4, <2>5 DEF HolderPath
  <1>11. /\ op'.blocks < Len(Prompt[op'.req])
         /\ BlocksOn(hit[op.req])' = PromptIds(op'.req, op'.blocks)
    <2>1. hit'[op'.req] = up
      BY <1>1, <1>4
    <2>2. BlocksOn(hit[op.req])' = BlocksOn(parent[n]) \cup Upto(n, off)
      BY <1>9, <2>1
    <2> QED
      BY <1>1, <1>2, <1>3, <2>2
  <1> QED
    BY <1>9, <1>10, <1>11 DEF PathOK, HeldPrefix, PromptIds

(* The computed blocks stand below the hit; a tail that moves away holds   *)
(* no block.                                                               *)
LEMMA PathCommitPrefill ==
  ASSUME IInv, PathOK, CountOK, NEW r \in Reqs, NEW id, NEW t, CommitPrefill(r, id, t)
  PROVE  PathOK'
PROOF
  <1> DEFINE h == hit[r]
             fin == Max({gen[r], 1}) >= Osl[r]
             new == IF tail[h] > 0 THEN {id, t} ELSE {id}
  <1>1. /\ UNCHANGED <<op, hitLen>> /\ op.kind = "none" /\ st[r] = "prefill"
        /\ {id, t} \subseteq NodeIds \ live
        /\ tail[h] > 0 <=> id # t
        /\ live' = live \cup new
        /\ parent' = [n \in Nodes |-> IF n \in new THEN h ELSE parent[n]]
        /\ above' = [n \in Nodes |-> IF n \in new THEN Chain(h) ELSE above[n]]
        /\ blocks' = [blocks EXCEPT ![id] = SubSeq(Prompt[r], hitLen[r] + 1, Len(Prompt[r]))]
        /\ own' = [own EXCEPT ![r] = IF fin THEN None ELSE id]
        /\ hit' = [hit EXCEPT ![r] = IF fin THEN None ELSE h]
        /\ st' = [st EXCEPT ![r] = IF fin THEN "done" ELSE "decode"]
    BY DEF CommitPrefill, Idle
  <1>2. new = {id, t}
    BY <1>1
  <1>3. HolderPath(r) /\ h \in live \cup Plays
    BY <1>1, HolderNow DEF Serving, HolderPath
  <1> HIDE DEF h, new, fin
  <1>4. /\ live \subseteq Nodes \ new /\ Plays \subseteq Nodes \ new /\ new \subseteq Nodes
        /\ h \in Nodes \ new /\ Chain(h) \subseteq Nodes \ new /\ id \in new /\ id # None
        /\ Plays \cap live = {}
    BY <1>1, <1>2, <1>3, ReqsAssumption DEF IInv, TreeOK, Nodes, Chain
  <1>5. /\ hitLen[r] \in Nat /\ Len(Prompt[r]) \in Nat /\ hitLen[r] < Len(Prompt[r])
        /\ Prompt[r] \in Seq(Nat) /\ BlocksOn(h) = PromptIds(r, hitLen[r])
    BY <1>3, PromptType DEF CountOK, HolderPath, h
  <1>13. PICK c : c = hitLen[r]
    OBVIOUS
  <1>14. PICK d : d = Len(Prompt[r])
    OBVIOUS
  <1>15. c \in Nat /\ d \in Nat /\ c <= d /\ d <= Len(Prompt[r]) /\ c \in 0 .. d /\ d \in 0 .. d
    BY <1>5, <1>13, <1>14
  <1>6. /\ blocks'[id] = SubSeq(Prompt[r], hitLen[r] + 1, Len(Prompt[r]))
        /\ \A m \in Nodes \ {id} : blocks'[m] = blocks[m]
    BY <1>1, <1>4 DEF CountOK
  <1>7. ASSUME NEW m \in live \cup Plays
        PROVE  BlocksOn(m)' = BlocksOn(m)
    <2>1. m \in Nodes \ new /\ Chain(m) \subseteq Nodes \ new
      BY <1>4 DEF IInv, TreeOK, Chain
    <2>2. Chain(m)' = Chain(m)
      BY <1>1, <2>1 DEF Chain
    <2>3. \A x \in Chain(m) : blocks'[x] = blocks[x]
      BY <1>4, <1>6, <2>1
    <2> QED
      BY <2>2, <2>3 DEF BlocksOn
  <1>8. BlocksOn(id)' = PromptIds(r, Len(Prompt[r]))
    <2>1. Chain(id)' = {id} \cup Chain(h)
      BY <1>1, <1>4 DEF Chain
    <2>2. \A x \in Chain(h) : blocks'[x] = blocks[x]
      BY <1>4, <1>6
    <2>3. BlocksOn(id)' = {blocks'[id][k] : k \in 1 .. Len(blocks'[id])} \cup BlocksOn(h)
      BY <2>1, <2>2 DEF BlocksOn
    <2>4. /\ Len(blocks'[id]) = Len(Prompt[r]) - hitLen[r]
          /\ \A k \in 1 .. Len(Prompt[r]) - hitLen[r] : blocks'[id][k] = Prompt[r][hitLen[r] + k]
      <3>1. /\ Len(SubSeq(Prompt[r], c + 1, d)) = d - c
            /\ \A k \in 1 .. d - c : SubSeq(Prompt[r], c + 1, d)[k] = Prompt[r][c + k]
        BY <1>5, <1>15, PartValues
      <3> QED
        BY <1>6, <1>13, <1>14, <3>1
    <2>5. {blocks'[id][k] : k \in 1 .. Len(blocks'[id])}
            = {Prompt[r][hitLen[r] + k] : k \in 1 .. Len(Prompt[r]) - hitLen[r]}
      BY <2>4
    <2>6. PromptIds(r, Len(Prompt[r])) = PromptIds(r, hitLen[r])
            \cup {Prompt[r][hitLen[r] + k] : k \in 1 .. Len(Prompt[r]) - hitLen[r]}
      <3>1. PromptIds(r, d) = PromptIds(r, c) \cup {Prompt[r][c + k] : k \in 1 .. d - c}
        BY <1>15, PromptParts
      <3> QED
        BY <1>13, <1>14, <3>1
    <2> QED
      BY <1>5, <2>3, <2>5, <2>6
  <1>9. \A n \in Nodes \ live' : blocks'[n] = <<>>
    BY <1>1, <1>4, <1>6 DEF PathOK
  <1>10. ASSUME NEW m \in live'
         PROVE  \E q \in Reqs : \E a, b \in 0 .. Len(Prompt[q]) : Piece(m, q, a, b)'
    <2>1. ASSUME m \in new
          PROVE  BlocksOn(parent[m])' = PromptIds(r, hitLen[r])
      <3>1. parent'[m] = h
        BY <1>1, <1>4, <2>1
      <3>2. BlocksOn(parent[m])' = BlocksOn(h)
        BY <1>3, <1>7, <3>1
      <3> QED
        BY <1>5, <3>2
    <2>2. CASE m = id
      <3>1. BlocksOn(parent[m])' = PromptIds(r, c) /\ blocks'[m] = SubSeq(Prompt[r], c + 1, d)
        BY <1>4, <1>6, <1>13, <1>14, <2>1, <2>2
      <3>2. Piece(m, r, c, d)'
        BY <1>15, <3>1 DEF Piece, PromptIds
      <3> QED
        BY <1>14, <1>15, <3>2
    <2>3. CASE m = t /\ m # id
      <3>1. blocks'[m] = <<>>
        BY <1>1, <1>2, <1>4, <1>6, <2>3 DEF PathOK
      <3>2. SubSeq(Prompt[r], c + 1, c) = <<>>
        BY <1>15, SubSeqEmpty
      <3>3. BlocksOn(parent[m])' = PromptIds(r, c)
        BY <1>2, <1>13, <2>1, <2>3
      <3>4. Piece(m, r, c, c)'
        BY <1>15, <3>1, <3>2, <3>3 DEF Piece, PromptIds
      <3> QED
        BY <1>14, <1>15, <3>4
    <2>4. CASE m \notin new
      <3>1. m \in live /\ m \in Nodes
        BY <1>1, <1>4, <2>4
      <3>2. parent'[m] = parent[m] /\ blocks'[m] = blocks[m] /\ parent[m] \in live \cup Plays
        BY <1>1, <1>4, <1>6, <2>4, <3>1, ParentNode DEF IInv
      <3>3. PICK q \in Reqs : \E a, b \in 0 .. Len(Prompt[q]) : Piece(m, q, a, b)
        BY <3>1 DEF PathOK
      <3>4. PICK a \in 0 .. Len(Prompt[q]), b \in 0 .. Len(Prompt[q]) : Piece(m, q, a, b)
        BY <3>3
      <3>5. BlocksOn(parent[m])' = BlocksOn(parent[m])
        BY <1>7, <3>2
      <3>6. Piece(m, q, a, b)'
        BY <3>2, <3>4, <3>5 DEF Piece, PromptIds
      <3> QED
        BY <3>4, <3>6
    <2> QED
      BY <1>2, <2>2, <2>3, <2>4
  <1>11. hit \in [Reqs -> Nodes \cup {None}] /\ own \in [Reqs -> NodeIds \cup {None}]
         /\ st \in [Reqs -> {"queued", "loading", "prefill", "decode", "done"}]
    BY DEF IInv, HoldOK
  <1>12. ASSUME NEW s \in Reqs, Serving(s)'
         PROVE  /\ hitLen'[s] < Len(Prompt[s])
                /\ BlocksOn(hit[s])' = PromptIds(s, hitLen'[s])
                /\ own'[s] # None => BlocksOn(own[s])' = PromptIds(s, Len(Prompt[s]))
    <2>1. CASE s = r
      <3>1. ~ fin
        BY <1>1, <1>11, <1>12, <2>1 DEF Serving
      <3>2. hit'[s] = h /\ own'[s] = id
        BY <1>1, <1>11, <2>1, <3>1
      <3>3. BlocksOn(hit[s])' = BlocksOn(h) /\ BlocksOn(own[s])' = PromptIds(r, Len(Prompt[r]))
        BY <1>3, <1>7, <1>8, <3>2
      <3> QED
        BY <1>1, <1>5, <2>1, <3>3
    <2>2. CASE s # r
      <3>1. hit'[s] = hit[s] /\ own'[s] = own[s] /\ hitLen'[s] = hitLen[s] /\ Serving(s)
        BY <1>1, <1>11, <1>12, <2>2 DEF Serving
      <3>2. HolderPath(s)
        BY <3>1, HolderNow
      <3>3. BlocksOn(hit[s])' = BlocksOn(hit[s])
        BY <1>7, <3>1, <3>2 DEF HolderPath
      <3>4. own[s] # None => BlocksOn(own[s])' = BlocksOn(own[s])
        BY <1>7, <3>1, <3>2 DEF HolderPath
      <3> QED
        BY <3>1, <3>2, <3>3, <3>4 DEF HolderPath
    <2> QED
      BY <2>1, <2>2
  <1> QED
    BY <1>1, <1>9, <1>10, <1>12 DEF PathOK, HeldPrefix, PromptIds

(* Every step keeps PathOK.                                                *)
LEMMA StepPath ==
  ASSUME IInv, PathOK, CountOK, Next
  PROVE  PathOK'
PROOF
  <1>1. CASE EnsureFree
    BY <1>1, PathEnsureFree
  <1>2. CASE Admission
    <2>1. ASSUME NEW r \in Reqs, NEW h \in Hits(r), BeginLoad(r, h)
          PROVE  PathOK'
      BY <2>1, PathHandlers
    <2>2. ASSUME NEW r \in Reqs, NEW h \in Hits(r), NEW chunk, PinWhole(r, h, chunk)
          PROVE  PathOK'
      BY <2>2, PathPinWhole
    <2>3. ASSUME NEW r \in Reqs, NEW h \in Hits(r), NEW chunk, PinSplit(r, h, FirstFree({}), chunk)
          PROVE  PathOK'
      BY <2>3, PathPinSplit
    <2>4. CASE LoadStart \/ LoadBlocked \/ AdmitBlocked \/ \E r \in Reqs : LoadDone(r) \/ Reject(r)
      BY <2>4, PathHandlers
    <2>5. CASE AdmitOk
      BY <2>5, PathAdmitOk
    <2> QED
      BY <1>2, <2>1, <2>2, <2>3, <2>4, <2>5 DEF Admission
  <1>3. CASE Pass
    <2>1. CASE \/ \E r \in Reqs : \E tok : BeginGrow(r, tok)
               \/ GrowOk \/ GrowFailed
               \/ \E r \in Reqs : CommitChunk(r)
               \/ \E r \in Reqs : \E k : CommitDecode(r, k) \/ CommitLast(r, k)
      BY <2>1, PathHandlers
    <2>2. ASSUME NEW r \in Reqs, NEW id, NEW t, CommitPrefill(r, id, t)
          PROVE  PathOK'
      BY <2>2, PathCommitPrefill
    <2> QED
      BY <1>3, <2>1, <2>2 DEF Pass
  <1>4. CASE Preempt
    <2>1. ASSUME NEW r \in Reqs, PreemptKeep(r) \/ PreemptPrefill(r)
          PROVE  PathOK'
      BY <2>1, PathHandlers
    <2>2. ASSUME NEW r \in Reqs, PreemptDrop(r)
          PROVE  PathOK'
      BY <2>2, PathPreemptDrop
    <2> QED
      BY <1>4, <2>1, <2>2 DEF Preempt
  <1>5. CASE \E n \in live : Expire(n)
    BY <1>5, PathExpire
  <1> QED
    BY <1>1, <1>2, <1>3, <1>4, <1>5 DEF Next

-----------------------------------------------------------------------------
(* The loads.                                                              *)

(* What is removed belongs to no load.                                     *)
LEMMA LoadRemoval ==
  ASSUME IInv, LoadOK, NEW n \in lru, RemoveSubtree(n), UNCHANGED <<hit, op>>
  PROVE  LoadOK'
PROOF
  <1> SUFFICES ASSUME op.kind = "load"
               PROVE  Lower(hit[op.req])'
    BY DEF LoadOK
  <1> DEFINE h == hit[op.req]
  <1>1. op.req \in Reqs /\ h # None
    BY DEF IInv, CallOK, HoldOK
  <1>2. n \in live /\ n \notin Chain(h)
    BY <1>1, LruNode, Unheld
  <1>3. h \in live \cup Plays
    BY <1>1 DEF IInv, HeldLive
  <1>4. Chain(h) \cap ({n} \cup Down(n)) = {} /\ Chain(h) \subseteq Nodes
    <2>1. \A m \in Chain(h) : above[m] \subseteq Chain(h)
      BY <1>3 DEF IInv, TreeOK, Chain
    <2> QED
      BY <1>2, <1>3, <2>1, ChainNodes DEF Down
  <1>5. Chain(h)' = Chain(h) /\ \A m \in Chain(h) : tier'[m] = tier[m]
    BY <1>4 DEF RemoveSubtree, Chain
  <1> QED
    BY <1>5 DEF LoadOK, Lower

(* Every step keeps what the load under way has to load.                   *)
LEMMA StepLoad ==
  ASSUME IInv, LoadOK, Next
  PROVE  LoadOK'
PROOF
  <1>1. ASSUME NEW v \in lru, EvictDown(v)
        PROVE  LoadOK'
    BY <1>1 DEF EvictDown, LoadOK, Lower, Chain, tree, shape, reqv
  <1>2. ASSUME NEW v \in lru, EvictLast(v)
        PROVE  LoadOK'
    BY <1>2, LoadRemoval DEF EvictLast, reqv
  <1>3. CASE Offload
    <2>1. Depth > 0 /\ Depth \in Nat /\ UNCHANGED <<above, hit, op>>
          /\ tier' = [tier EXCEPT ![Victim] = Depth]
      BY <1>3, VictimNode DEF Offload, shape, reqv
    <2>2. \A m : tier[m] > 0 /\ m \in Nodes => tier'[m] > 0
      BY <2>1 DEF IInv, TreeOK
    <2>3. ASSUME op.kind = "load"
          PROVE  Chain(hit[op.req]) \subseteq Nodes
      <3>1. hit[op.req] \in live \cup Plays
        BY <2>3 DEF IInv, CallOK, HoldOK, HeldLive
      <3> QED
        BY <3>1, ChainNodes
    <2> QED
      BY <2>1, <2>2, <2>3 DEF LoadOK, Lower, Chain
  <1>4. CASE Drop
    BY <1>4, LoadRemoval, VictimNode DEF Drop, reqv
  <1>5. ASSUME NEW r \in Reqs, NEW h \in Hits(r), BeginLoad(r, h)
        PROVE  LoadOK'
    BY <1>5 DEF BeginLoad, LoadOK, Lower, Chain, shape, Call, IInv, HoldOK
  <1>6. CASE op'.kind # "load"
    BY <1>6 DEF LoadOK
  <1>7. CASE ~ EnsureFree /\ ~ \E r \in Reqs : \E h \in Hits(r) : BeginLoad(r, h)
    <2>1. CASE Admission
      <3>1. ASSUME NEW r \in Reqs, NEW h, NEW up, NEW chunk, PinWhole(r, h, chunk) \/ PinSplit(r, h, up, chunk)
            PROVE  op'.kind # "load"
        BY <3>1 DEF PinWhole, PinSplit, Call
      <3>2. ASSUME LoadStart \/ LoadBlocked \/ AdmitOk \/ AdmitBlocked
            PROVE  op'.kind # "load"
        BY <3>2 DEF LoadStart, LoadBlocked, AdmitOk, AdmitBlocked, Return, NoOp
      <3>3. ASSUME NEW r \in Reqs, LoadDone(r) \/ Reject(r)
            PROVE  op'.kind # "load"
        BY <3>3 DEF LoadDone, Reject, Idle
      <3>4. ASSUME NEW r \in Reqs, NEW h \in Hits(r), BeginLoad(r, h)
            PROVE  op'.kind # "load"
        BY <1>7, <3>4
      <3>5. op'.kind # "load"
        BY <2>1, <3>1, <3>2, <3>3, <3>4 DEF Admission
      <3> QED
        BY <3>5 DEF LoadOK
    <2>2. CASE Pass
      <3>1. ASSUME NEW r \in Reqs, NEW tok, BeginGrow(r, tok)
            PROVE  op'.kind # "load"
        BY <3>1 DEF BeginGrow, Call
      <3>2. ASSUME GrowOk \/ GrowFailed
            PROVE  op'.kind # "load"
        BY <3>2 DEF GrowOk, GrowFailed, Return, NoOp
      <3>3. ASSUME NEW r \in Reqs, CommitChunk(r)
            PROVE  op'.kind # "load"
        BY <3>3 DEF CommitChunk, Idle
      <3>4. ASSUME NEW r \in Reqs, NEW id, NEW t, CommitPrefill(r, id, t)
            PROVE  op'.kind # "load"
        BY <3>4 DEF CommitPrefill, Idle
      <3>5. ASSUME NEW r \in Reqs, NEW k, CommitDecode(r, k) \/ CommitLast(r, k)
            PROVE  op'.kind # "load"
        BY <3>5 DEF CommitDecode, CommitLast, Idle
      <3>6. op'.kind # "load"
        BY <2>2, <3>1, <3>2, <3>3, <3>4, <3>5 DEF Pass
      <3> QED
        BY <3>6 DEF LoadOK
    <2>3. CASE Preempt
      BY <1>6, <2>3 DEF Preempt, PreemptKeep, PreemptDrop, PreemptPrefill, Preempting, Idle
    <2>4. CASE \E n \in live : Expire(n)
      BY <1>6, <2>4 DEF Expire, Idle
    <2> QED
      BY <1>7, <2>1, <2>2, <2>3, <2>4 DEF Next
  <1> QED
    BY <1>1, <1>2, <1>3, <1>4, <1>5, <1>7 DEF EnsureFree

-----------------------------------------------------------------------------
(* The counts.                                                             *)

(* The tokens of a set of nodes are a sum over the set.                    *)
LEMMA TokensSum ==
  ASSUME NEW S, IsFiniteSet(S)
  PROVE  TokensOf(S) = SumOver([n \in S |-> Tokens(n)], S)
PROOF
  <1> DEFINE w == [n \in S |-> Tokens(n)]
             Eq(g) == g = [s \in SUBSET S |->
                             IF s = {} THEN 0
                             ELSE Tokens(CHOOSE x \in s : TRUE) + g[s \ {CHOOSE x \in s : TRUE}]]
             f == CHOOSE g : Eq(g)
  <1>1. TokensOf(S) = f[S]
    BY DEF TokensOf, MapThenSumSet, MapThenFoldSet
  <1>2. \A s \in SUBSET S : s # {} => w[Pick(s)] = Tokens(CHOOSE x \in s : TRUE)
    BY PickIn DEF Pick
  <1>3. ASSUME NEW g
        PROVE  Eq(g) <=> SumsUp(g, w, S)
    <2> HIDE DEF w
    <2>1. [s \in SUBSET S |->
             IF s = {} THEN 0
             ELSE Tokens(CHOOSE x \in s : TRUE) + g[s \ {CHOOSE x \in s : TRUE}]]
          = [s \in SUBSET S |-> IF s = {} THEN 0 ELSE w[Pick(s)] + g[s \ {Pick(s)}]]
      BY <1>2 DEF Pick
    <2> QED
      BY <2>1 DEF SumsUp
  <1> HIDE DEF Eq, w
  <1>4. \E g : Eq(g)
    BY <1>3, SumsExist
  <1>5. Eq(f)
    BY <1>4
  <1>6. SumsUp(f, w, S)
    BY <1>3, <1>5
  <1> HIDE DEF f
  <1> QED
    BY <1>1, <1>6, SumValue DEF w

(* The tokens of nodes are integers, and so is their sum.                  *)
LEMMA TokensInt ==
  ASSUME CountOK, NEW S \in SUBSET Nodes, IsFiniteSet(S)
  PROVE  TokensOf(S) \in Int
PROOF
  <1>1. \A n \in S : Tokens(n) \in Int
    <2>1. \A n \in S : Len(blocks[n]) \in Nat /\ tail[n] \in Nat
      BY LenProperties DEF CountOK
    <2> QED
      BY <2>1, PoolAssumption DEF Tokens
  <1> DEFINE w == [n \in S |-> Tokens(n)]
  <1>2. \A n \in S : w[n] \in Int
    BY <1>1
  <1> HIDE DEF w
  <1>3. SumOver(w, S) \in Int
    BY <1>2, SumInt
  <1> QED
    BY <1>3, TokensSum DEF w

(* Max and Min of two numbers.                                             *)
LEMMA TwoNumbers ==
  ASSUME NEW a \in Int, NEW b \in Int
  PROVE  /\ Max({a, b}) \in {a, b} /\ Max({a, b}) >= a /\ Max({a, b}) >= b
         /\ Min({a, b}) \in {a, b} /\ Min({a, b}) <= a /\ Min({a, b}) <= b
PROOF
  <1> DEFINE S == {a, b}
  <1>1. S \in SUBSET Int /\ S # {}
    OBVIOUS
  <1>2. IsFiniteSet(S)
    <2>1. IsFiniteSet({a} \cup {b})
      BY FS_Singleton, FS_Union
    <2>2. {a} \cup {b} = S
      OBVIOUS
    <2> QED
      BY <2>1, <2>2
  <1>3. /\ Min(S) \in S /\ \A y \in S : Min(S) <= y
        /\ Max(S) \in S /\ \A y \in S : Max(S) >= y
    <2> HIDE DEF S
    <2> QED
      BY <1>1, <1>2, LeastGreatest
  <1> QED
    BY <1>3

(* An admission asks for at least one token.                               *)
LEMMA DemandRight ==
  ASSUME CountOK, NEW r \in Reqs
  PROVE  /\ Isl[r] \in Nat /\ Isl[r] > 0 /\ Osl[r] \in Nat /\ OutputKv(r) \in Nat
         /\ \A b \in Nat : b < Len(Prompt[r]) => Demand(r, b) \in Nat /\ Demand(r, b) > 0
PROOF
  <1>1. gen[r] \in Nat
    BY DEF CountOK
  <1>2. OutputKv(r) \in Nat
    <2>2. 0 \in Int /\ gen[r] - 1 \in Int
      BY <1>1
    <2>1. Max({0, gen[r] - 1}) \in {0, gen[r] - 1} /\ Max({0, gen[r] - 1}) >= 0
      BY <2>2, TwoNumbers
    <2> QED
      BY <1>1, <2>1 DEF OutputKv
  <1>3. /\ Len(Prompt[r]) \in Nat \ {0} /\ BlockSize \in Nat \ {0}
        /\ Isl[r] = Len(Prompt[r]) * BlockSize /\ Isl[r] \in Nat /\ Osl[r] \in Nat
    BY PromptType, PoolAssumption, IslAssumption, ReqsAssumption
  <1>4. \A b, l, z \in Nat : b < l /\ z > 0 => l * z - b * z > 0 /\ l * z - b * z \in Nat
    <2> SUFFICES ASSUME NEW b \in Nat, NEW l \in Nat, NEW z \in Nat, b < l, z > 0
                 PROVE  l * z - b * z > 0 /\ l * z - b * z \in Nat
      OBVIOUS
    <2>1. (l - b) * z = l * z - b * z
      OBVIOUS
    <2>2. (l - b) \in Nat /\ l - b >= 1 /\ z >= 1
      OBVIOUS
    <2>3. \A x, y \in Nat : x >= 1 /\ y >= 1 => x * y >= 1 /\ x * y \in Nat
      OBVIOUS
    <2> QED
      BY <2>1, <2>2, <2>3
  <1>5. ASSUME NEW b \in Nat, b < Len(Prompt[r])
        PROVE  Demand(r, b) \in Nat /\ Demand(r, b) > 0
    <2>1. Len(Prompt[r]) * BlockSize - b * BlockSize > 0 /\ Len(Prompt[r]) * BlockSize - b * BlockSize \in Nat
      <3>1. Len(Prompt[r]) \in Nat /\ BlockSize \in Nat /\ BlockSize > 0
        BY <1>3
      <3> QED
        BY <1>4, <1>5, <3>1, Zenon
    <2> DEFINE d == Isl[r] - b * BlockSize
    <2>2. d \in Nat /\ d > 0 /\ Demand(r, b) = d + OutputKv(r)
      BY <1>3, <2>1 DEF Demand
    <2> HIDE DEF d
    <2> QED
      BY <1>2, <2>2
  <1>6. Isl[r] > 0
    <2>1. \A x, y \in Nat : x >= 1 /\ y >= 1 => x * y >= 1
      OBVIOUS
    <2>2. Len(Prompt[r]) >= 1 /\ BlockSize >= 1
      BY <1>3
    <2> QED
      BY <1>3, <2>1, <2>2
  <1> QED
    BY <1>2, <1>3, <1>5, <1>6

(* The counts when a subtree is removed.                                   *)
LEMMA CountRemoval ==
  ASSUME IInv, CountOK, NEW n \in live, RemoveSubtree(n), UNCHANGED <<reqv, op>>
  PROVE  CountOK'
PROOF
  <1> DEFINE D == {n} \cup Down(n)
  <1>1. D \subseteq live /\ live \subseteq Nodes /\ IsFiniteSet(live)
    BY DEF Down, IInv, TreeOK, Nodes, CountOK
  <1>2. \A t \in Tiers : TokensOf({m \in D : tier[m] = t}) \in Int
    <2> SUFFICES ASSUME NEW t \in Tiers
                 PROVE  TokensOf({m \in D : tier[m] = t}) \in Int
      OBVIOUS
    <2> DEFINE S == {m \in D : tier[m] = t}
    <2>1. S \subseteq live /\ S \in SUBSET Nodes
      BY <1>1
    <2> HIDE DEF S
    <2>2. IsFiniteSet(S)
      BY <1>1, <2>1, FS_Subset
    <2>3. TokensOf(S) \in Int
      BY <2>1, <2>2, TokensInt
    <2> QED
      BY <2>3 DEF S
  <1>3. used' = [t \in Tiers |-> used[t] - TokensOf({m \in D : tier[m] = t})] /\ live' = live \ D
    BY DEF RemoveSubtree
  <1>4. used' \in [Tiers -> Int]
    <2> DEFINE x(t) == TokensOf({m \in D : tier[m] = t})
    <2>1. used' = [t \in Tiers |-> used[t] - x(t)] /\ \A t \in Tiers : x(t) \in Int
      BY <1>2, <1>3
    <2> HIDE DEF x
    <2> QED
      BY <2>1 DEF CountOK
  <1>5. IsFiniteSet(live')
    BY <1>1, <1>3, FS_Subset
  <1>6. blocks' \in [Nodes -> Seq(Nat)] /\ tail' \in [Nodes -> Nat]
    <2>1. <<>> \in Seq(Nat)
      BY EmptySeq
    <2> QED
      BY <2>1 DEF RemoveSubtree, CountOK
  <1>7. UNCHANGED <<st, gen, hitLen, left, alloc, pend, op>>
    BY DEF reqv, count
  <1> QED
    BY <1>4, <1>5, <1>6, <1>7 DEF CountOK

(* The counts when room is made.                                           *)
LEMMA CountEnsureFree ==
  ASSUME IInv, CountOK, EnsureFree
  PROVE  CountOK'
PROOF
  <1>1. ASSUME NEW v \in lru, EvictDown(v)
        PROVE  CountOK'
    BY <1>1 DEF EvictDown, CountOK, tree, shape, reqv, count
  <1>2. ASSUME NEW v \in lru, EvictLast(v)
        PROVE  CountOK'
    BY <1>2, LruNode, CountRemoval DEF EvictLast
  <1>3. CASE Offload
    <2>1. Victim \in Nodes /\ Depth \in Nat
      BY <1>3, VictimNode, LruNode DEF Offload, IInv, TreeOK, Nodes
    <2>2. Tokens(Victim) \in Int
      <3>1. Len(blocks[Victim]) \in Nat /\ tail[Victim] \in Nat
        BY <2>1, LenProperties DEF CountOK
      <3> QED
        BY <3>1, PoolAssumption DEF Tokens
    <2>3. used' \in [Tiers -> Int]
      <3> DEFINE x == Tokens(Victim)
      <3>1. used' = [used EXCEPT ![Depth - 1] = @ - x, ![Depth] = @ + x]
        BY <1>3 DEF Offload
      <3>2. used \in [Tiers -> Int] /\ x \in Int
        BY <2>2 DEF CountOK
      <3>3. Depth \in Tiers /\ Depth - 1 \in Tiers /\ Depth - 1 # Depth
        BY <1>3, VictimNode, PoolAssumption DEF Offload, Tiers
      <3> HIDE DEF x
      <3> DEFINE d == Depth
      <3> HIDE DEF d
      <3>4. used' = [used EXCEPT ![d - 1] = used[d - 1] - x, ![d] = used[d] + x]
        BY <3>1, <3>2, <3>3 DEF d
      <3>5. d \in Tiers /\ d - 1 \in Tiers
        BY <3>3 DEF d
      <3> QED
        BY <3>2, <3>4, <3>5
    <2> QED
      BY <1>3, <2>3 DEF Offload, CountOK, shape, reqv, count
  <1>4. CASE Drop
    BY <1>4, VictimNode, LruNode, CountRemoval DEF Drop
  <1> QED
    BY <1>1, <1>2, <1>3, <1>4 DEF EnsureFree

(* The tokens a load moves up.                                             *)
LEMMA LowerInt ==
  ASSUME IInv, CountOK, NEW h \in live \cup Plays
  PROVE  /\ LowerChain(h) \subseteq live /\ LowerChain(h) \in SUBSET Nodes
         /\ IsFiniteSet(LowerChain(h))
         /\ \A S \in SUBSET LowerChain(h) : TokensOf(S) \in Int
PROOF
  <1>1. LowerChain(h) \subseteq live /\ LowerChain(h) \in SUBSET Nodes
    <2>1. \A m \in Plays : tier[m] = 0
      BY DEF IInv, TreeOK
    <2> QED
      BY <2>1, ChainNodes DEF LowerChain
  <1>2. IsFiniteSet(LowerChain(h))
    BY <1>1, FS_Subset DEF CountOK
  <1>3. \A S \in SUBSET LowerChain(h) : S \in SUBSET Nodes /\ IsFiniteSet(S)
    BY <1>1, <1>2, FS_Subset
  <1> QED
    BY <1>1, <1>2, <1>3, TokensInt

(* The counts when a load begins, starts, waits or is done.                *)
LEMMA CountLoads ==
  ASSUME IInv, PathOK, CountOK,
         \/ \E r \in Reqs : \E h \in Hits(r) : BeginLoad(r, h)
         \/ LoadStart \/ LoadBlocked \/ AdmitBlocked
         \/ \E r \in Reqs : LoadDone(r) \/ Reject(r)
  PROVE  CountOK'
PROOF
  <1>1. st \in [Reqs -> {"queued", "loading", "prefill", "decode", "done"}]
    BY DEF IInv, HoldOK
  <1> USE DEF shape, tree, count, reqv
  <1>2. ASSUME NEW r \in Reqs, NEW h \in Hits(r), BeginLoad(r, h)
        PROVE  CountOK'
    <2>1. h.node \in live \cup Plays /\ h.blocks \in Nat
      BY HitsRight DEF Matched, IInv
    <2>2. TokensOf(LowerChain(h.node)) \in Int
      BY <2>1, LowerInt
    <2>3. op' \in [kind : {"none", "admit", "load", "grow"}, req : Reqs \cup {None}, blocks : Nat, tok : Int]
          /\ op'.kind = "load"
      BY <1>2, <2>1, <2>2 DEF BeginLoad, Call
    <2> QED
      BY <1>2, <2>3 DEF BeginLoad, CountOK
  <1>3. CASE LoadStart
    <2> DEFINE h == hit[op.req]
               L == LowerChain(h)
    <2>1. h \in live \cup Plays /\ op.req \in Reqs
      BY <1>3 DEF LoadStart, IInv, CallOK, HoldOK, HeldLive
    <2>2. \A S \in SUBSET L : TokensOf(S) \in Int
      BY <2>1, LowerInt
    <2>3. used' = [t \in Tiers |-> IF t = 0 THEN used[0] + TokensOf(L)
                                   ELSE used[t] - TokensOf({n \in L : tier[n] = t})]
          /\ st' = [st EXCEPT ![op.req] = "loading"]
      BY <1>3 DEF LoadStart
    <2>4. used' \in [Tiers -> Int]
      <3>1. used \in [Tiers -> Int] /\ 0 \in Tiers
        BY PoolAssumption DEF CountOK, Tiers
      <3>2. TokensOf(L) \in Int /\ \A t \in Tiers : TokensOf({n \in L : tier[n] = t}) \in Int
        BY <2>2
      <3> HIDE DEF L
      <3> QED
        BY <2>3, <3>1, <3>2
    <2>5. \A r \in Reqs : st'[r] = "prefill" => st[r] = "prefill"
      BY <1>1, <2>1, <2>3
    <2> QED
      BY <1>3, <2>4, <2>5 DEF LoadStart, CountOK, Return, NoOp
  <1>4. CASE LoadBlocked
    BY <1>4 DEF LoadBlocked, CountOK, Return, NoOp
  <1>5. CASE AdmitBlocked
    BY <1>5 DEF AdmitBlocked, CountOK, Return, NoOp
  <1>6. ASSUME NEW r \in Reqs, LoadDone(r) \/ Reject(r)
        PROVE  CountOK'
    <2>1. \A s \in Reqs : st'[s] = "prefill" => st[s] = "prefill"
      BY <1>1, <1>6 DEF LoadDone, Reject
    <2> QED
      BY <1>6, <2>1 DEF LoadDone, Reject, CountOK
  <1> QED
    BY <1>2, <1>3, <1>4, <1>5, <1>6

(* The counts when a request is admitted, waits or is rejected.            *)
LEMMA CountAdmission ==
  ASSUME IInv, PathOK, CountOK,
         \/ \E r \in Reqs : \E h \in Hits(r) : \E chunk \in 1 .. ChunkTokens :
              PinWhole(r, h, chunk) \/ \E up : PinSplit(r, h, up, chunk)
         \/ AdmitOk
  PROVE  CountOK'
PROOF
  <1> USE DEF shape, tree, count, reqv
  <1>1. ASSUME NEW r \in Reqs, NEW h \in Hits(r), NEW chunk \in 1 .. ChunkTokens,
               op' = [kind |-> "admit", req |-> r, blocks |-> h.blocks, tok |-> Min({chunk, Demand(r, h.blocks)})]
        PROVE  /\ op' \in [kind : {"none", "admit", "load", "grow"}, req : Reqs \cup {None}, blocks : Nat, tok : Int]
               /\ op'.tok > 0
    <2>1. h.blocks \in Nat /\ h.blocks < Len(Prompt[r])
      BY HitsRight DEF Matched, IInv
    <2>2. Demand(r, h.blocks) \in Nat /\ Demand(r, h.blocks) > 0
      BY <2>1, DemandRight
    <2>3. chunk \in Int /\ Demand(r, h.blocks) \in Int /\ chunk > 0
      BY <2>2, PoolAssumption
    <2> DEFINE m == Min({chunk, Demand(r, h.blocks)})
    <2>4. m \in {chunk, Demand(r, h.blocks)}
      BY <2>3, TwoNumbers
    <2>5. m \in Int /\ m > 0
      BY <2>2, <2>3, <2>4
    <2> HIDE DEF m
    <2>6. op' = [kind |-> "admit", req |-> r, blocks |-> h.blocks, tok |-> m]
      BY <1>1 DEF m
    <2> QED
      BY <2>1, <2>5, <2>6
  <1>2. ASSUME NEW r \in Reqs, NEW h \in Hits(r), NEW chunk \in 1 .. ChunkTokens, PinWhole(r, h, chunk)
        PROVE  CountOK'
    BY <1>1, <1>2 DEF PinWhole, Call, CountOK
  <1>3. ASSUME NEW r \in Reqs, NEW h \in Hits(r), NEW chunk \in 1 .. ChunkTokens, NEW up, PinSplit(r, h, up, chunk)
        PROVE  CountOK'
    <2>1. /\ op' \in [kind : {"none", "admit", "load", "grow"}, req : Reqs \cup {None}, blocks : Nat, tok : Int]
          /\ op'.tok > 0
      BY <1>1, <1>3 DEF PinSplit, Call
    <2>2. IsFiniteSet(live')
      BY <1>3, FS_AddElement DEF PinSplit, CountOK
    <2>3. blocks' \in [Nodes -> Seq(Nat)]
      <3> DEFINE n == h.node
                 q == blocks[n]
      <3>1. n \in Nodes /\ h.off < Len(q) /\ h.off \in Nat /\ blocks \in [Nodes -> Seq(Nat)]
        BY <1>3, HitsRight DEF PinSplit, Matched, IInv, TreeOK, Nodes, CountOK
      <3>2. q \in Seq(Nat) /\ Len(q) \in Nat
        BY <3>1, LenProperties
      <3> HIDE DEF n
      <3>3. SubSeq(q, 0 + 1, h.off) \in Seq(Nat) /\ SubSeq(q, h.off + 1, Len(q)) \in Seq(Nat)
        <4>1. h.off <= Len(q) /\ 0 <= h.off /\ 0 \in Nat /\ Len(q) <= Len(q)
          BY <3>1, <3>2
        <4> HIDE DEF q
        <4> QED
          BY <3>1, <3>2, <4>1, PartValues
      <3>4. blocks' = [blocks EXCEPT ![up] = SubSeq(q, 1, h.off), ![n] = SubSeq(@, h.off + 1, Len(@))]
            /\ up # n
        BY <1>3 DEF PinSplit, n
      <3>5. blocks' = [blocks EXCEPT ![up] = SubSeq(q, 1, h.off), ![n] = SubSeq(q, h.off + 1, Len(q))]
        BY <3>1, <3>4
      <3>6. 0 + 1 = 1
        OBVIOUS
      <3> HIDE DEF q
      <3> QED
        BY <3>1, <3>3, <3>5, <3>6
    <2>4. tail' \in [Nodes -> Nat]
      BY <1>3 DEF PinSplit, CountOK
    <2> QED
      BY <1>3, <2>1, <2>2, <2>3, <2>4 DEF PinSplit, CountOK
  <1>4. CASE AdmitOk
    <2>1. op.req \in Reqs /\ op.blocks \in Nat /\ op.blocks < Len(Prompt[op.req])
      BY <1>4 DEF AdmitOk, IInv, CallOK, PathOK, CountOK
    <2> DEFINE d == Demand(op.req, op.blocks)
    <2>2. d \in Nat /\ d > 0
      BY <2>1, DemandRight
    <2> HIDE DEF d
    <2>3. left' = [left EXCEPT ![op.req] = d] /\ hitLen' = [hitLen EXCEPT ![op.req] = op.blocks]
          /\ st' = [st EXCEPT ![op.req] = "prefill"]
      BY <1>4 DEF AdmitOk, d
    <2>4. left \in [Reqs -> Nat] /\ hitLen \in [Reqs -> Nat] /\ \A r \in Reqs : st[r] = "prefill" => left[r] > 0
      BY DEF CountOK
    <2>5. left' \in [Reqs -> Nat] /\ hitLen' \in [Reqs -> Nat]
          /\ \A r \in Reqs : st'[r] = "prefill" => left'[r] > 0
      BY <2>1, <2>2, <2>3, <2>4 DEF IInv, HoldOK
    <2> QED
      BY <1>4, <2>5 DEF AdmitOk, CountOK, Return, NoOp
  <1> QED
    BY <1>2, <1>3, <1>4

(* There is a tier 0, and what is used of it is an integer.                *)
LEMMA HbmTier ==
  /\ 0 \in Tiers
  /\ \A x \in Int : used \in [Tiers -> Int] => used[0] + x \in Int /\ used[0] - x \in Int
PROOF
  BY PoolAssumption DEF Tiers

(* The counts when a pass takes or gives back tokens.                      *)
LEMMA CountPasses ==
  ASSUME IInv, CountOK,
         \/ \E r \in Reqs : \E tok \in 1 .. Max({ChunkTokens, 1 + Nextn}) : BeginGrow(r, tok)
         \/ GrowOk \/ GrowFailed
         \/ \E r \in Reqs : CommitChunk(r)
         \/ \E r \in Reqs : \E k \in 1 .. 1 + Nextn : CommitDecode(r, k) \/ CommitLast(r, k)
  PROVE  CountOK'
PROOF
  <1>1. st \in [Reqs -> {"queued", "loading", "prefill", "decode", "done"}]
    BY DEF IInv, HoldOK
  <1> USE DEF shape, tree, count, reqv
  <1>2. ASSUME NEW r \in Reqs, NEW tok \in 1 .. Max({ChunkTokens, 1 + Nextn}), BeginGrow(r, tok)
        PROVE  CountOK'
    <2>1. tok \in Int /\ tok > 0
      OBVIOUS
    <2>2. op' = [kind |-> "grow", req |-> r, blocks |-> 0, tok |-> tok]
      BY <1>2 DEF BeginGrow, Call
    <2> QED
      BY <1>2, <2>1, <2>2 DEF BeginGrow, CountOK
  <1>3. CASE GrowFailed
    BY <1>3 DEF GrowFailed, CountOK, Return, NoOp
  <1>4. CASE GrowOk
    <2>1. op.req \in Reqs /\ op.tok \in Int /\ op.tok > 0
      BY <1>4 DEF GrowOk, CountOK, IInv, CallOK
    <2>2. /\ used' = [used EXCEPT ![0] = @ + op.tok]
          /\ alloc' = [alloc EXCEPT ![op.req] = @ + op.tok]
          /\ pend' = [pend EXCEPT ![op.req] = op.tok]
      BY <1>4 DEF GrowOk
    <2>3. used' \in [Tiers -> Int] /\ alloc' \in [Reqs -> Int] /\ pend' \in [Reqs -> Nat]
      <3>1. used' \in [Tiers -> Int]
        BY <2>1, <2>2, HbmTier DEF CountOK
      <3>2. alloc' \in [Reqs -> Int]
        BY <2>1, <2>2 DEF CountOK
      <3>3. pend' \in [Reqs -> Nat]
        BY <2>1, <2>2 DEF CountOK
      <3> QED
        BY <3>1, <3>2, <3>3
    <2> QED
      BY <1>4, <2>3, SMTT(30) DEF GrowOk, CountOK, Return, NoOp
  <1>5. ASSUME NEW r \in Reqs, CommitChunk(r)
        PROVE  CountOK'
    <2>3. left[r] \in Nat /\ pend[r] \in Nat /\ left \in [Reqs -> Nat] /\ pend[r] < left[r]
      BY <1>5 DEF CommitChunk, CountOK
    <2>4. left[r] - pend[r] \in Nat /\ left[r] - pend[r] > 0
      BY <2>3
    <2>1. left' = [left EXCEPT ![r] = left[r] - pend[r]] /\ pend' = [pend EXCEPT ![r] = 0]
          /\ left[r] - pend[r] \in Nat /\ left[r] - pend[r] > 0
      BY <1>5, <2>3, <2>4 DEF CommitChunk
    <2>2. left' \in [Reqs -> Nat] /\ pend' \in [Reqs -> Nat] /\ \A s \in Reqs : st[s] = "prefill" => left'[s] > 0
      BY <2>1 DEF CountOK
    <2> QED
      BY <1>5, <2>2 DEF CommitChunk, CountOK
  <1>6. ASSUME NEW r \in Reqs, NEW k \in 1 .. 1 + Nextn, CommitDecode(r, k) \/ CommitLast(r, k)
        PROVE  CountOK'
    <2>1. k \in Nat /\ k > 0
      BY PoolAssumption
    <2>2. /\ gen[r] \in Nat /\ pend[r] \in Nat /\ Osl[r] \in Nat
      BY ReqsAssumption DEF CountOK
    <2>3. /\ used' = [used EXCEPT ![0] = @ - (pend[r] - k)]
          /\ alloc' = [alloc EXCEPT ![r] = @ - (pend[r] - k)]
          /\ pend' = [pend EXCEPT ![r] = 0]
          /\ gen' = [gen EXCEPT ![r] = gen[r] + k]
      BY <1>6, <2>2 DEF CommitDecode, CommitLast, CountOK
    <2>4. used' \in [Tiers -> Int] /\ alloc' \in [Reqs -> Int] /\ pend' \in [Reqs -> Nat] /\ gen' \in [Reqs -> Nat]
      <3> DEFINE d == pend[r] - k
      <3>1. d \in Int /\ gen[r] + k \in Nat
        BY <2>1, <2>2
      <3>2. used' = [used EXCEPT ![0] = @ - d] /\ alloc' = [alloc EXCEPT ![r] = @ - d]
        BY <2>3
      <3> HIDE DEF d
      <3>3. used' \in [Tiers -> Int]
        BY <3>1, <3>2, HbmTier DEF CountOK
      <3>4. alloc' \in [Reqs -> Int]
        <4>3. alloc \in [Reqs -> Int] /\ alloc[r] \in Int
          BY DEF CountOK
        <4>1. alloc \in [Reqs -> Int] /\ alloc[r] - d \in Int
          BY <3>1, <4>3
        <4>2. alloc' = [alloc EXCEPT ![r] = alloc[r] - d]
          BY <3>2
        <4> QED
          BY <4>1, <4>2
      <3>5. pend' \in [Reqs -> Nat] /\ gen' \in [Reqs -> Nat]
        BY <2>3, <3>1 DEF CountOK
      <3> QED
        BY <3>3, <3>4, <3>5
    <2>5. tail' \in [Nodes -> Nat]
      <3>1. CASE CommitLast(r, k)
        <4>1. tail' = [tail EXCEPT ![own[r]] = Osl[r] - 1] /\ gen[r] + k = Osl[r]
          BY <3>1 DEF CommitLast
        <4>2. Osl[r] - 1 \in Nat
          BY <2>1, <2>2, <4>1
        <4> QED
          BY <4>1, <4>2 DEF CountOK
      <3>2. CASE CommitDecode(r, k)
        BY <3>2 DEF CommitDecode, CountOK
      <3> QED
        BY <1>6, <3>1, <3>2
    <2>6. \A s \in Reqs : st'[s] = "prefill" => st[s] = "prefill"
      BY <1>1, <1>6 DEF CommitDecode, CommitLast
    <2> QED
      BY <1>6, <2>4, <2>5, <2>6, ZenonT(30) DEF CommitDecode, CommitLast, CountOK
  <1> QED
    BY <1>2, <1>3, <1>4, <1>5, <1>6

(* The counts when a prefill ends.                                         *)
LEMMA CountCommitPrefill ==
  ASSUME IInv, PathOK, CountOK, NEW r \in Reqs, NEW id, NEW t, CommitPrefill(r, id, t)
  PROVE  CountOK'
PROOF
  <1> DEFINE h == hit[r]
             g == Max({gen[r], 1})
             fin == g >= Osl[r]
             new == IF tail[h] > 0 THEN {id, t} ELSE {id}
  <1>1. /\ UNCHANGED <<op, hitLen, used, alloc>> /\ st[r] = "prefill"
        /\ {id, t} \subseteq NodeIds \ live
        /\ tail[h] > 0 <=> id # t
        /\ live' = live \cup new
        /\ blocks' = [blocks EXCEPT ![id] = SubSeq(Prompt[r], hitLen[r] + 1, Len(Prompt[r]))]
        /\ tail' = [n \in Nodes |-> IF n = id THEN (IF fin THEN g - 1 ELSE 0)
                                    ELSE IF n = t THEN tail[h]
                                    ELSE IF n = h THEN 0 ELSE tail[n]]
        /\ gen' = [gen EXCEPT ![r] = g]
        /\ left' = [left EXCEPT ![r] = 0]
        /\ pend' = [pend EXCEPT ![r] = 0]
        /\ st' = [st EXCEPT ![r] = IF fin THEN "done" ELSE "decode"]
    BY DEF CommitPrefill
  <1>2. g \in Nat /\ g >= 1
    <2>1. gen[r] \in Int /\ 1 \in Int /\ gen[r] \in Nat
      BY DEF CountOK
    <2>2. g \in {gen[r], 1} /\ g >= 1
      BY <2>1, TwoNumbers
    <2> HIDE DEF g
    <2> QED
      BY <2>1, <2>2
  <1>3. IsFiniteSet(live')
    <2>1. new = {id} \cup {t}
      BY <1>1
    <2> HIDE DEF new
    <2>2. IsFiniteSet(live \cup new)
      BY <2>1, FS_Singleton, FS_Union DEF CountOK
    <2> QED
      BY <1>1, <2>2
  <1>4. h \in Nodes
    BY <1>1, HolderNow DEF Serving, HolderPath, IInv, TreeOK, Nodes
  <1> HIDE DEF h, g, fin, new
  <1>5. tail' \in [Nodes -> Nat]
    <2>1. tail[h] \in Nat /\ g - 1 \in Nat
      BY <1>2, <1>4 DEF CountOK
    <2> QED
      BY <1>1, <2>1 DEF CountOK
  <1>6. blocks' \in [Nodes -> Seq(Nat)]
    <2>1. hitLen[r] \in Nat /\ hitLen[r] < Len(Prompt[r]) /\ Prompt[r] \in Seq(Nat) /\ Len(Prompt[r]) \in Nat
      BY <1>1, HolderNow, PromptType DEF CountOK, Serving, HolderPath
    <2>2. hitLen[r] <= Len(Prompt[r]) /\ Len(Prompt[r]) <= Len(Prompt[r])
      BY <2>1
    <2>3. SubSeq(Prompt[r], hitLen[r] + 1, Len(Prompt[r])) \in Seq(Nat)
      BY <2>1, <2>2, PartValues
    <2> QED
      BY <1>1, <2>3 DEF CountOK
  <1>7. /\ gen' \in [Reqs -> Nat] /\ left' \in [Reqs -> Nat] /\ pend' \in [Reqs -> Nat]
        /\ \A s \in Reqs : st'[s] = "prefill" => left'[s] > 0
    BY <1>1, <1>2 DEF CountOK, IInv, HoldOK
  <1> QED
    BY <1>1, <1>3, <1>5, <1>6, <1>7 DEF CountOK

(* The counts when a request is preempted.                                 *)
LEMMA CountPreempt ==
  ASSUME IInv, CountOK, NEW r \in Reqs, PreemptKeep(r) \/ PreemptDrop(r) \/ PreemptPrefill(r)
  PROVE  CountOK'
PROOF
  <1>1. UNCHANGED <<hitLen, gen, pend, op>> /\ Requeue(r)
    BY DEF PreemptKeep, PreemptDrop, PreemptPrefill, Requeue
  <1>2. /\ st' = [st EXCEPT ![r] = "queued"] /\ alloc' = [alloc EXCEPT ![r] = 0]
        /\ left' = [left EXCEPT ![r] = Isl[r] + OutputKv(r)]
    BY <1>1 DEF Requeue
  <1>3. Isl[r] + OutputKv(r) \in Nat
    BY DemandRight
  <1>4. /\ alloc' \in [Reqs -> Int] /\ left' \in [Reqs -> Nat]
        /\ \A s \in Reqs : st'[s] = "prefill" => left'[s] > 0
    <2>1. left \in [Reqs -> Nat] /\ alloc \in [Reqs -> Int] /\ \A s \in Reqs : st[s] = "prefill" => left[s] > 0
      BY DEF CountOK
    <2> QED
      BY <1>2, <1>3, <2>1 DEF IInv, HoldOK
  <1>5. used' \in [Tiers -> Int]
    <2>1. \E x \in Int : used' = [used EXCEPT ![0] = @ - x]
      <3>1. alloc[r] \in Int
        BY DEF CountOK
      <3>2. CASE PreemptKeep(r)
        <4> DEFINE o == own[r]
        <4>1. o \in Nodes
          BY <3>2 DEF PreemptKeep, IInv, HoldOK, Nodes
        <4>2. Len(blocks[o]) \in Nat /\ tail[o] \in Nat
          BY <4>1, LenProperties DEF CountOK
        <4>3. Tokens(o) \in Int
          <5> HIDE DEF o
          <5> QED
            BY <4>2, PoolAssumption DEF Tokens
        <4>4. alloc[r] - Tokens(o) \in Int
          BY <3>1, <4>3
        <4> QED
          BY <3>2, <4>4 DEF PreemptKeep
      <3>3. CASE PreemptDrop(r) \/ PreemptPrefill(r)
        BY <3>1, <3>3 DEF PreemptDrop, PreemptPrefill
      <3> QED
        BY <3>2, <3>3
    <2> QED
      BY <2>1, HbmTier DEF CountOK
  <1>6. IsFiniteSet(live') /\ blocks' \in [Nodes -> Seq(Nat)] /\ tail' \in [Nodes -> Nat]
    <2>1. CASE PreemptDrop(r)
      <3>1. live' = live \ {own[r]} /\ blocks' = [blocks EXCEPT ![own[r]] = <<>>]
            /\ tail' = [tail EXCEPT ![own[r]] = 0]
        BY <2>1 DEF PreemptDrop
      <3>2. IsFiniteSet(live \ {own[r]}) /\ <<>> \in Seq(Nat)
        BY FS_Subset, EmptySeq DEF CountOK
      <3> QED
        BY <3>1, <3>2 DEF CountOK
    <2>2. CASE PreemptKeep(r) \/ PreemptPrefill(r)
      BY <2>2 DEF PreemptKeep, PreemptPrefill, CountOK, shape
    <2> QED
      BY <2>1, <2>2
  <1> QED
    BY <1>1, <1>4, <1>5, <1>6 DEF CountOK

(* Every step keeps the types of the counts.                               *)
LEMMA StepCount ==
  ASSUME IInv, PathOK, CountOK, Next
  PROVE  CountOK'
PROOF
  <1>1. CASE EnsureFree
    BY <1>1, CountEnsureFree
  <1>2. CASE Admission
    <2>1. CASE \/ \E r \in Reqs : \E h \in Hits(r) : BeginLoad(r, h)
               \/ LoadStart \/ LoadBlocked \/ AdmitBlocked
               \/ \E r \in Reqs : LoadDone(r) \/ Reject(r)
      BY <2>1, CountLoads
    <2>2. CASE \/ \E r \in Reqs : \E h \in Hits(r) : \E chunk \in 1 .. ChunkTokens :
                    PinWhole(r, h, chunk) \/ \E up : PinSplit(r, h, up, chunk)
               \/ AdmitOk
      BY <2>2, CountAdmission
    <2> QED
      BY <1>2, <2>1, <2>2 DEF Admission
  <1>3. CASE Pass
    <2>1. CASE \/ \E r \in Reqs : \E tok \in 1 .. Max({ChunkTokens, 1 + Nextn}) : BeginGrow(r, tok)
               \/ GrowOk \/ GrowFailed
               \/ \E r \in Reqs : CommitChunk(r)
               \/ \E r \in Reqs : \E k \in 1 .. 1 + Nextn : CommitDecode(r, k) \/ CommitLast(r, k)
      BY <2>1, CountPasses
    <2>2. ASSUME NEW r \in Reqs, NEW id, NEW t, CommitPrefill(r, id, t)
          PROVE  CountOK'
      BY <2>2, CountCommitPrefill
    <2> QED
      BY <1>3, <2>1, <2>2 DEF Pass
  <1>4. CASE Preempt
    BY <1>4, CountPreempt DEF Preempt
  <1>5. CASE \E n \in live : Expire(n)
    BY <1>5, CountRemoval DEF Expire
  <1> QED
    BY <1>1, <1>2, <1>3, <1>4, <1>5 DEF Next

-----------------------------------------------------------------------------
(* The theorems.                                                           *)

(* The invariant holds of an empty cache with every request queued.        *)
LEMMA InitPInv ==
  Init => PInv
PROOF
  <1> SUFFICES ASSUME Init PROVE PInv
    OBVIOUS
  <1>1. IInv
    BY InitIInv
  <1>2. CountOK
    <2>1. IsFiniteSet(live) /\ <<>> \in Seq(Nat)
      BY FS_EmptySet, EmptySeq DEF Init
    <2>2. /\ Isl \in [Reqs -> Nat] /\ 0 \in Tiers
      BY ReqsAssumption, PoolAssumption DEF Tiers
    <2>3. /\ blocks \in [Nodes -> Seq(Nat)] /\ tail \in [Nodes -> Nat] /\ used \in [Tiers -> Int]
          /\ gen \in [Reqs -> Nat] /\ hitLen \in [Reqs -> Nat] /\ left \in [Reqs -> Nat]
          /\ alloc \in [Reqs -> Int] /\ pend \in [Reqs -> Nat]
      BY <2>1, <2>2 DEF Init
    <2>4. /\ op \in [kind : {"none", "admit", "load", "grow"}, req : Reqs \cup {None}, blocks : Nat, tok : Int]
          /\ op.kind = "none"
      BY DEF Init, NoOp
    <2>5. \A r \in Reqs : st[r] # "prefill"
      BY DEF Init
    <2> QED
      BY <2>1, <2>3, <2>4, <2>5 DEF CountOK
  <1>3. PathOK
    BY DEF Init, PathOK, HeldPrefix, Serving, NoOp
  <1>4. LoadOK
    BY DEF Init, LoadOK, NoOp
  <1> QED
    BY <1>1, <1>2, <1>3, <1>4 DEF PInv

(* Every step, and every step that changes nothing, keeps the invariant.   *)
THEOREM StepPInv ==
  PInv /\ [Next]_vars => PInv'
PROOF
  <1> SUFFICES ASSUME PInv, [Next]_vars PROVE PInv'
    OBVIOUS
  <1>1. IInv'
    BY StepIInv DEF PInv
  <1>2. CASE Next
    BY <1>1, <1>2, StepCount, StepPath, StepLoad DEF PInv
  <1>3. CASE UNCHANGED vars
    <2>1. UNCHANGED <<live, parent, above, blocks, tail, tier, used, st, hit, own, hitLen, left, gen, alloc, pend, op>>
      BY <1>3 DEF vars, tree, shape, reqv, count
    <2>2. CountOK'
      BY <2>1 DEF PInv, CountOK
    <2>3. LoadOK'
      BY <2>1 DEF PInv, LoadOK, Lower, Chain
    <2>4. PathOK'
      <3>1. op'.kind # "admit" \/ (op' = op /\ hit' = hit)
        BY <2>1
      <3>2. \A r \in Reqs : Serving(r)' => /\ Serving(r)
              /\ hit'[r] = hit[r] /\ own'[r] = own[r] /\ hitLen'[r] = hitLen[r]
        BY <2>1 DEF Serving
      <3> QED
        BY <2>1, <3>1, <3>2, PathStays DEF PInv, shape
    <2> QED
      BY <1>1, <2>2, <2>3, <2>4 DEF PInv
  <1> QED
    BY <1>2, <1>3

(* The invariant holds of every behaviour.                                 *)
THEOREM PrefixInvariant ==
  Spec => []PInv
PROOF
  BY InitPInv, StepPInv, PTL DEF Spec

(* TypeOK: every count stays a number of the code's kind - the tokens a    *)
(* request has left to compute never get negative - and every node that is *)
(* held, evicted or listed is one.                                         *)
THEOREM TypeTheorem ==
  Spec => []TypeOK
PROOF
  <1>1. PInv => TypeOK
    <2> SUFFICES ASSUME PInv PROVE TypeOK
      OBVIOUS
    <2>1. \A n \in Nodes : pins[n] \in Nat
      BY HolderPins DEF PInv, IInv
    <2>2. pins \in [Nodes -> Nat]
      BY <2>1 DEF PInv, IInv, TreeOK
    <2>3. lru \subseteq live
      BY DEF PInv, IInv, LruExact
    <2>4. \A n \in Nodes : blocks[n] \in Seq(Nat)
      BY DEF PInv, CountOK
    <2>5. \A r \in Reqs : /\ gen[r] \in Nat
                          /\ {hitLen[r], left[r], alloc[r], pend[r]} \subseteq Int
      BY DEF PInv, CountOK
    <2> QED
      BY <2>2, <2>3, <2>4, <2>5 DEF TypeOK, PInv, IInv, TreeOK, HoldOK, CallOK, CountOK
  <1> QED
    BY <1>1, PrefixInvariant, PTL

(* HeldPrefix: the hit of a request being served is the part of its prompt *)
(* it does not compute, and its own node ends where the prompt ends, for   *)
(* every workload, however the tree was split meanwhile.                   *)
THEOREM PrefixTheorem ==
  Spec => []HeldPrefix
PROOF
  <1>1. PInv => HeldPrefix
    BY DEF PInv, PathOK
  <1> QED
    BY <1>1, PrefixInvariant, PTL

(* A load whose prefix is in one slower tier queues one transfer.          *)
LEMMA OneTransfer ==
  ASSUME PInv, LoadStart, NTiers <= 2
  PROVE  bulk' = bulk + 1
PROOF
  <1> DEFINE h == hit[op.req]
             L == LowerChain(h)
             T == {tier[n] : n \in L}
  <1>1. h \in live \cup Plays /\ Lower(h)
    BY DEF LoadStart, PInv, LoadOK, IInv, CallOK, HoldOK, HeldLive
  <1>2. \A n \in L : tier[n] = 1
    <2>1. \A n \in L : tier[n] \in Tiers /\ tier[n] > 0
      BY <1>1, ChainNodes DEF LowerChain, PInv
    <2>2. \A x \in Tiers : x > 0 => x = 1
      BY PoolAssumption DEF Tiers
    <2> QED
      BY <2>1, <2>2
  <1>3. L # {}
    BY <1>1 DEF Lower, LowerChain
  <1>4. T = {1}
    BY <1>2, <1>3
  <1>5. bulk' = bulk + Cardinality(T)
    BY DEF LoadStart
  <1> HIDE DEF T
  <1> QED
    BY <1>4, <1>5, FS_Singleton

Loads == {r \in Reqs : st[r] = "loading"}

(* BulkExact: with one tier below HBM, the count of transfers under way is *)
(* that of the loads, so that it is back at zero when all have come. (With *)
(* more tiers it is not.)                                                  *)
THEOREM BulkTheorem ==
  ASSUME NTiers <= 2
  PROVE  Spec => []BulkExact
PROOF
  <1>1. Init => BulkExact
    <2> SUFFICES ASSUME Init PROVE BulkExact
      OBVIOUS
    <2>1. {r \in Reqs : st[r] = "loading"} = {}
      BY DEF Init
    <2> QED
      BY <2>1, FS_EmptySet DEF Init, BulkExact
  <1>2. PInv /\ BulkExact /\ [Next]_vars => BulkExact'
    <2> SUFFICES ASSUME PInv, BulkExact, [Next]_vars PROVE BulkExact'
      OBVIOUS
    <2>1. IsFiniteSet(Loads) /\ bulk = Cardinality(Loads)
      BY FS_Subset, ReqsAssumption DEF Loads, BulkExact
    <2>2. st \in [Reqs -> {"queued", "loading", "prefill", "decode", "done"}]
      BY DEF PInv, IInv, HoldOK
    <2>3. ASSUME bulk' = bulk, \A r \in Reqs : st'[r] = "loading" <=> st[r] = "loading"
          PROVE  BulkExact'
      BY <2>1, <2>3 DEF Loads, BulkExact
    <2>4. CASE LoadStart
      <3>1. op.req \in Reqs /\ st[op.req] = "queued" /\ st' = [st EXCEPT ![op.req] = "loading"]
        BY <2>4 DEF LoadStart, PInv, IInv, CallOK
      <3>2. {r \in Reqs : st'[r] = "loading"} = Loads \cup {op.req} /\ op.req \notin Loads
        BY <2>2, <3>1 DEF Loads
      <3>3. bulk' = bulk + 1
        BY <2>4, OneTransfer
      <3>4. Cardinality(Loads \cup {op.req}) = Cardinality(Loads) + 1
        BY <2>1, <3>2, FS_AddElement
      <3> QED
        BY <2>1, <3>2, <3>3, <3>4 DEF BulkExact
    <2>5. ASSUME NEW r \in Reqs, LoadDone(r)
          PROVE  BulkExact'
      <3>1. st[r] = "loading" /\ st' = [st EXCEPT ![r] = "queued"] /\ bulk' = bulk - 1
        BY <2>5 DEF LoadDone
      <3>2. {s \in Reqs : st'[s] = "loading"} = Loads \ {r} /\ r \in Loads
        BY <2>2, <3>1 DEF Loads
      <3>3. Cardinality(Loads \ {r}) = Cardinality(Loads) - 1
        BY <2>1, <3>2, FS_RemoveElement
      <3> QED
        BY <2>1, <3>1, <3>2, <3>3 DEF BulkExact
    <2>6. CASE EnsureFree
      BY <2>3, <2>6 DEF EnsureFree, EvictDown, EvictLast, Offload, Drop, reqv
    <2>7. CASE Admission
      <3> USE DEF count
      <3>1. ASSUME NEW r \in Reqs, NEW h, NEW up, NEW chunk,
                   BeginLoad(r, h) \/ PinWhole(r, h, chunk) \/ PinSplit(r, h, up, chunk)
            PROVE  BulkExact'
        BY <2>3, <3>1 DEF BeginLoad, PinWhole, PinSplit
      <3>2. CASE LoadBlocked \/ AdmitBlocked
        BY <2>3, <3>2 DEF LoadBlocked, AdmitBlocked
      <3>3. CASE AdmitOk
        BY <2>2, <2>3, <3>3 DEF AdmitOk, PInv, IInv, CallOK
      <3>4. ASSUME NEW r \in Reqs, Reject(r)
            PROVE  BulkExact'
        BY <2>2, <2>3, <3>4 DEF Reject, Queued
      <3> QED
        BY <2>4, <2>5, <2>7, <3>1, <3>2, <3>3, <3>4 DEF Admission
    <2>8. CASE Pass
      <3>1. ASSUME NEW r \in Reqs, NEW tok, BeginGrow(r, tok)
            PROVE  BulkExact'
        BY <2>3, <3>1 DEF BeginGrow, reqv
      <3>2. CASE GrowOk \/ GrowFailed
        BY <2>3, <3>2 DEF GrowOk, GrowFailed, reqv
      <3>3. ASSUME NEW r \in Reqs, CommitChunk(r)
            PROVE  BulkExact'
        BY <2>3, <3>3 DEF CommitChunk
      <3>4. ASSUME NEW r \in Reqs, NEW id, NEW t, CommitPrefill(r, id, t)
            PROVE  BulkExact'
        BY <2>2, <2>3, <3>4 DEF CommitPrefill
      <3>5. ASSUME NEW r \in Reqs, NEW k, CommitDecode(r, k) \/ CommitLast(r, k)
            PROVE  BulkExact'
        BY <2>2, <2>3, <3>5 DEF CommitDecode, CommitLast
      <3> QED
        BY <2>8, <3>1, <3>2, <3>3, <3>4, <3>5 DEF Pass
    <2>9. CASE Preempt
      BY <2>2, <2>3, <2>9 DEF Preempt, PreemptKeep, PreemptDrop, PreemptPrefill, Preempting, Serving, Requeue
    <2>10. CASE \E n \in live : Expire(n)
      BY <2>3, <2>10 DEF Expire, reqv
    <2>11. CASE UNCHANGED vars
      BY <2>3, <2>11 DEF vars, reqv
    <2> QED
      BY <2>6, <2>7, <2>8, <2>9, <2>10, <2>11 DEF Next
  <1> QED
    BY <1>1, <1>2, PrefixInvariant, PTL DEF Spec

=============================================================================
