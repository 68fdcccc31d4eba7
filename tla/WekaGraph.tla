----------------------------- MODULE WekaGraph -----------------------------
(***************************************************************************)
(* How a recorded session becomes a dependency graph (weka_graph.cpp): the *)
(* agents that were flattened into one list are told apart by their block  *)
(* hashes, and every agent is tied to the turns of the main one; and what  *)
(* the statistics of a trace count in it (trace.cpp).                      *)
(*                                                                         *)
(* A recorded request is [oi, t, api, h, model, in, out]: its place in the *)
(* file, start and duration (0 when it is not a number), block hashes,     *)
(* model and token counts.  Times are whole numbers and kEps is dropped.   *)
(* Chains are numbered from 1 and 0 stands for the -1 of the code, but for *)
(* `outer`, where -1 is itself.  Labels of agents are left out.            *)
(***************************************************************************)
EXTENDS Integers, FiniteSets, SequencesExt, FiniteSetsExt

CONSTANTS
  Raws,                    \* recorded traces: [normals, subagents]
  SeamMaxGap,              \* kSeamMaxGapSeconds
  SeamMinOverlapDiv,       \* 1 / kSeamMinOverlapRatio
  AuxIslDiv,               \* 1 / kAuxIslRatio
  AuxIslFloor,             \* kAuxIslFloor
  AuxReductionOslMax,      \* kAuxReductionOslMax
  AuxReductionRatio,       \* kAuxReductionRatio
  WorkerGroupMin,          \* kWorkerGroupMin
  TitleGenMaxOutputTokens  \* kTitleGenMaxOutputTokens

ASSUME WekaAssumption ==
  {SeamMaxGap, SeamMinOverlapDiv, AuxIslDiv, AuxIslFloor, AuxReductionOslMax,
   AuxReductionRatio, WorkerGroupMin, TitleGenMaxOutputTokens} \subseteq Nat \ {0}

-----------------------------------------------------------------------------
(* Requests                                                                *)

End(r) == r.t + r.api

Lcp(a, b) == Len(LongestCommonPrefix({a, b}))

ByTime(a, b) == a.t < b.t \/ (a.t = b.t /\ a.oi < b.oi)
ByPlace(a, b) == a.oi < b.oi

(* The elements of a set in the order of Before, which is total on it. *)
Ordered(S, Before(_, _)) ==
  [i \in 1 .. Cardinality(S) |->
     CHOOSE x \in S : Cardinality({y \in S : Before(y, x)}) = i - 1]

-----------------------------------------------------------------------------
(* Phase 1: each request extends a chain or opens one.                     *)

(* A chain was forked after request `outer`, with which its first request  *)
(* shares `depth` blocks; `into` is the chain it was spliced into.         *)
NewChain == [reqs |-> <<>>, outer |-> -1, depth |-> 0, into |-> 0]

Hashed(c) == {i \in DOMAIN c.reqs : c.reqs[i].h # <<>>}
LastHashed(c) == c.reqs[Max(Hashed(c))]
TailHash(c) == IF Hashed(c) = {} THEN <<>> ELSE LastHashed(c).h

(* Mutant: a turn may start while the tail of its chain is still running. *)
ExtendsEarly(c, r) ==
  /\ Hashed(c) # {}
  /\ IsPrefix(TailHash(c), r.h)
  /\ LastHashed(c).model = r.model

Extends(c, r) ==
  /\ Hashed(c) # {}
  /\ IsPrefix(TailHash(c), r.h)
  /\ LastHashed(c).model = r.model
  /\ End(LastHashed(c)) <= r.t

ExtensionTarget(chains, r) ==
  LET fit == {k \in DOMAIN chains : Extends(chains[k], r)}
      longest == {k \in fit : \A j \in fit : Len(TailHash(chains[j])) <= Len(TailHash(chains[k]))}
  IN IF fit = {} THEN 0 ELSE Min(longest)

MaxLcpChain(chains, r) ==
  LET d(k) == Lcp(TailHash(chains[k]), r.h)
      n(k) == Len(TailHash(chains[k]))
      sharing == {k \in DOMAIN chains : d(k) > 0}
      Beats(k, j) == \/ d(k) > d(j)
                     \/ d(k) = d(j) /\ n(k) > n(j)
                     \/ d(k) = d(j) /\ n(k) = n(j) /\ k < j
  IN IF sharing = {} THEN 0
     ELSE CHOOSE k \in sharing : \A j \in sharing \ {k} : Beats(k, j)

Appended(chains, k, r) == [chains EXCEPT ![k].reqs = Append(@, r)]

(* r extends no chain; parent is the one it has most in common with. *)
Opened(chains, parent, r) ==
  IF parent # 0
    THEN Append(chains, [NewChain EXCEPT
           !.reqs = <<r>>,
           !.outer = LastHashed(chains[parent]).oi,
           !.depth = Lcp(TailHash(chains[parent]), r.h)])
  ELSE IF \A k \in DOMAIN chains : Hashed(chains[k]) = {} THEN Appended(chains, 1, r)
  ELSE Append(chains, [NewChain EXCEPT !.reqs = <<r>>])

Placed(chains, to, r) ==
  IF to # 0 THEN Appended(chains, to, r)
  ELSE Opened(chains, MaxLcpChain(chains, r), r)

Classify(chains, r) ==
  IF chains = <<>> THEN <<[NewChain EXCEPT !.reqs = <<r>>]>>
  ELSE IF r.h = <<>> THEN Appended(chains, 1, r)
  ELSE Placed(chains, ExtensionTarget(chains, r), r)

-----------------------------------------------------------------------------
(* Phase 2: a fork after the last request of a chain may be its next turn. *)

(* chain_of_request behind the aliases of spliced chains. *)
OwnerOf(chains, oi) ==
  CHOOSE k \in DOMAIN chains :
    chains[k].into = 0 /\ \E i \in DOMAIN chains[k].reqs : chains[k].reqs[i].oi = oi

(* forks_by_tail[fo], without the chains that are spliced. *)
Registered(chains, fo) ==
  {k \in DOMAIN chains : chains[k].depth > 0 /\ chains[k].outer = fo /\ chains[k].into = 0}

Continues(c, tail) ==
  LET first == c.reqs[1] IN
  /\ End(tail) <= first.t
  /\ first.model = tail.model
  /\ first.t - End(tail) > SeamMaxGap => SeamMinOverlapDiv * c.depth >= Len(tail.h)

(* elect_continuation *)
Elected(chains, registered, tail) ==
  LET able == {k \in registered : Continues(chains[k], tail)}
      Beats(k, j) ==
        LET c == chains[k]
            b == chains[j] IN
        \/ c.depth > b.depth
        \/ c.depth = b.depth /\ c.reqs[1].t < b.reqs[1].t
        \/ c.depth = b.depth /\ c.reqs[1].t = b.reqs[1].t /\ k < j
  IN IF able = {} THEN 0 ELSE CHOOSE k \in able : \A j \in able \ {k} : Beats(k, j)

(* rekey_leftover_forks: the forks that were not elected hang on the new   *)
(* tail where they share blocks with it.                                   *)
Rekeyed(chains, left, tail) ==
  [k \in DOMAIN chains |->
     LET d == Lcp(tail.h, chains[k].reqs[1].h) IN
     IF k \in left /\ d > 0
       THEN [chains[k] EXCEPT !.outer = tail.oi, !.depth = d]
     ELSE chains[k]]

(* Mutant: the chain that was spliced stays a chain of its own. *)
SplicedTwice(chains, own, e) == [chains EXCEPT ![own].reqs = @ \o chains[e].reqs]

Spliced(chains, own, e) ==
  [chains EXCEPT ![own].reqs = @ \o chains[e].reqs, ![e].into = own]

RECURSIVE ResolveSeams(_, _)
ResolveSeams(chains, keys) ==
  LET fo == Min(keys)
      own == OwnerOf(chains, fo)
      registered == Registered(chains, fo)
      e == Elected(chains, registered, LastHashed(chains[own]))
      spliced == Spliced(chains, own, e)
      tail == LastHashed(spliced[own])
      rekeyed == Rekeyed(spliced, registered \ {e}, tail)
  IN IF keys = {} THEN chains
     ELSE IF LastHashed(chains[own]).oi # fo \/ e = 0
       THEN ResolveSeams(chains, keys \ {fo})
     ELSE ResolveSeams(rekeyed,
            (keys \ {fo}) \cup (IF rekeyed = spliced THEN {} ELSE {tail.oi}))

SeamsResolved(chains) ==
  ResolveSeams(chains, {chains[k].outer : k \in {j \in DOMAIN chains : chains[j].depth > 0}})

(* The chain of the first request is the main one. *)
Detection(chains, first) ==
  LET main == OwnerOf(chains, first.oi)
      workers == {chains[k] : k \in {j \in DOMAIN chains \ {main} : chains[j].into = 0}}
  IN [main |-> chains[main].reqs,
      workers |-> Ordered(workers, LAMBDA c, d : ByTime(c.reqs[1], d.reqs[1]))]

DetectOrdered(order) == Detection(SeamsResolved(FoldLeft(Classify, <<>>, order)), order[1])

(* detect_agent_chains, of at least one request *)
Detect(items) == DetectOrdered(Ordered(items, ByTime))

-----------------------------------------------------------------------------
(* Worker groups: forks of one tail whose lifetimes overlap.               *)

Start(c) == c.reqs[1].t
Finish(c) == Max({End(c.reqs[i]) : i \in DOMAIN c.reqs})

(* Mutant: only the chain that started last is still running. *)
SweptLast(s, c) ==
  LET joined == \E a \in s.active : Finish(a) > Start(c)
      home == CHOOSE comp \in s.comps : s.active \subseteq comp
  IN [active |-> {c},
      comps |-> IF ~ joined THEN s.comps \cup {{c}}
                ELSE (s.comps \ {home}) \cup {home \cup {c}}]

(* overlap_components: a sweep over the starts; what is still running then *)
(* is in one component.  comps is the partition the union-find stands for. *)
Swept(s, c) ==
  LET active == {a \in s.active : Finish(a) > Start(c)}
      top == CHOOSE a \in active : \A b \in active : Finish(a) <= Finish(b)
      home == CHOOSE comp \in s.comps : top \in comp
  IN [active |-> active \cup {c},
      comps |-> IF active = {} THEN s.comps \cup {{c}}
                ELSE (s.comps \ {home}) \cup {home \cup {c}}]

OverlapComponents(chains) ==
  FoldLeft(LAMBDA s, c : Swept(s, c), [active |-> {}, comps |-> {}],
           Ordered(chains, LAMBDA c, d : ByTime(c.reqs[1], d.reqs[1]))).comps

(* worker_group_assignment: the members of all groups. *)
InGroup(workers) ==
  LET forked == {c \in Range(workers) : c.depth > 0}
      Siblings(o) == {c \in forked : c.outer = o}
      comps == UNION {OverlapComponents(Siblings(c.outer)) : c \in forked}
  IN UNION {comp \in comps : Cardinality(comp) >= WorkerGroupMin}

-----------------------------------------------------------------------------
(* Kinds of agents                                                         *)

PeakIsl(reqs) == Max({reqs[i].in : i \in DOMAIN reqs})

IsAuxChain(reqs, main) ==
  /\ Len(reqs) = 1
  /\ \/ reqs[1].model # main[1].model
     \/ reqs[1].in < Max({AuxIslFloor, PeakIsl(main) \div AuxIslDiv})

IsReductionChain(reqs) ==
  /\ Len(reqs) = 1
  /\ 0 < reqs[1].out /\ reqs[1].out < AuxReductionOslMax
  /\ reqs[1].in >= AuxIslFloor
  /\ reqs[1].in > AuxReductionRatio * reqs[1].out

KindOf(c, det) ==
  IF IsAuxChain(c.reqs, det.main) \/ IsReductionChain(c.reqs) THEN "aux"
  ELSE IF c \in InGroup(det.workers) THEN "group"
  ELSE "independent"

(* split_off_preamble: the first request, when it has nothing in common    *)
(* with the others (a call for a title).                                   *)
Preamble(items) ==
  LET lead == Ordered(items, ByTime)[1]
      rest == items \ {lead}
  IN IF /\ Cardinality(items) > 1
        /\ lead.h # <<>>
        /\ \A o \in rest : Lcp(lead.h, o.h) = 0
        /\ \/ lead.out <= TitleGenMaxOutputTokens
           \/ \A o \in rest : Range(lead.h) \cap Range(o.h) = {}
     THEN {lead} ELSE {}

(* Mutant: the preamble is split off and forgotten. *)
WithoutPreamble(main, preamble) == main

(* The main chain with the preamble back in its place. *)
WithPreamble(main, preamble) ==
  IF preamble = {} THEN main ELSE Ordered(Range(main) \cup preamble, ByTime)

Chain(kind, reqs) == [kind |-> kind, reqs |-> reqs]

WorkerChains(det) ==
  [i \in DOMAIN det.workers |-> Chain(KindOf(det.workers[i], det), det.workers[i].reqs)]

-----------------------------------------------------------------------------
(* expand_subagent                                                         *)

(* A request that starts before its group has a time relative to it. *)
Normalized(sa) ==
  {[oi |-> i, t |-> IF sa.reqs[i].t < sa.t THEN sa.t + sa.reqs[i].t ELSE sa.reqs[i].t,
    api |-> sa.reqs[i].api, h |-> sa.reqs[i].h, model |-> sa.reqs[i].model,
    in |-> sa.reqs[i].in, out |-> sa.reqs[i].out] : i \in DOMAIN sa.reqs}

Expanded(det, preamble) ==
  <<Chain("subagent", WithPreamble(det.main, preamble))>> \o WorkerChains(det)

ExpandItems(items, preamble) ==
  IF items = {} THEN <<Chain("subagent", <<>>)>>
  ELSE Expanded(Detect(items \ preamble), preamble)

ExpandSubagent(sa) ==
  LET items == Normalized(sa) IN ExpandItems(items, Preamble(items))

(* A duration of -1 was not recorded. *)
SaEndSeconds(sa) ==
  IF sa.dur >= 0 THEN sa.t + sa.dur
  ELSE Max({sa.t} \cup {End(r) : r \in Normalized(sa)})

-----------------------------------------------------------------------------
(* Builder: requests and edges are numbered as they are added; those of    *)
(* the main agent come first.                                              *)

PrecedingPos(main, before, default) ==
  Max({default} \cup {p \in DOMAIN main : main[p].oi < before})

(* Mutant: a turn that stands before the agent may join it. *)
JoinAnywhere(main, after, end) ==
  LET later == {p \in DOMAIN main : main[p].t >= end} IN
  IF later = {} THEN 0
  ELSE CHOOSE p \in later : \A o \in later : main[p].oi <= main[o].oi

JoinPos(main, after, end) ==
  LET later == {p \in DOMAIN main : main[p].oi > after /\ main[p].t >= end} IN
  IF later = {} THEN 0
  ELSE CHOOSE p \in later : \A o \in later : main[p].oi <= main[o].oi

Edge(from, to, kind) == [from |-> from, to |-> to, kind |-> kind]

(* add_chain and attach: marker is the place of a subagent, or -1; pre is  *)
(* the turn before the chain, 0 for the main chain, join the turn after.   *)
AddChain(g, agent, reqs, marker, pre, join) ==
  LET n == Len(g.requests)
      last == n + Len(reqs)
  IN [agents |-> Append(g.agents, agent),
      requests |-> g.requests \o
        [i \in DOMAIN reqs |->
           [agent |-> Len(g.agents) + 1, r |-> reqs[i],
            outer |-> IF marker >= 0 THEN marker ELSE reqs[i].oi]],
      edges |-> g.edges \cup {Edge(i, i + 1, "sequential") : i \in n + 1 .. last - 1}
        \cup (IF pre = 0 \/ reqs = <<>> THEN {}
              ELSE IF join = 0 THEN {Edge(pre, n + 1, "background")}
              ELSE {Edge(pre, n + 1, "spawn"), Edge(last, join, "join")})]

Agent(parent, kind, background, index) ==
  [parent |-> parent, kind |-> kind, background |-> background, chain_index |-> index]

EmptyGraph == [agents |-> <<>>, requests |-> <<>>, edges |-> {}]

AddChains(g, chains, marker, pre, join) ==
  LET root == Len(g.agents) + 1
      Add(gr, i) ==
        AddChain(gr, Agent(IF i = 1 THEN 1 ELSE root, chains[i].kind, join = 0, i - 1),
                 chains[i].reqs, marker, pre, join)
  IN FoldLeft(Add, g, [i \in DOMAIN chains |-> i])

AddSubagent(main, g, sa) ==
  LET pre == PrecedingPos(main, sa.oi, 0) IN
  IF pre = 0 THEN g
  ELSE AddChains(g, ExpandSubagent(sa), sa.oi, pre, JoinPos(main, sa.oi, SaEndSeconds(sa)))

AddFlat(main, g, chain) ==
  LET outer == chain.reqs[1].oi
      join == JoinPos(main, outer, Finish(chain))
  IN AddChain(g, Agent(1, chain.kind, join = 0, 0), chain.reqs, -1,
              PrecedingPos(main, outer, 1), join)

Assembled(main, flat, subagents) ==
  LET start == AddChain(EmptyGraph, Agent(0, "main", FALSE, 0), main, -1, 0, 0)
      nested == FoldLeft(LAMBDA g, sa : AddSubagent(main, g, sa), start, subagents)
  IN FoldLeft(LAMBDA g, c : AddFlat(main, g, c), nested, flat)

(* A list without workers is kept as it was recorded. *)
BuildFrom(det, preamble, read) ==
  IF Cardinality(read.normals) > 1 /\ det.workers # <<>>
    THEN Assembled(WithPreamble(det.main, preamble), WorkerChains(det), read.subagents)
  ELSE Assembled(Ordered(read.normals, ByPlace), <<>>, read.subagents)

BuildSplit(read, preamble) == BuildFrom(Detect(read.normals \ preamble), preamble, read)

BuildTrace(read) == BuildSplit(read, Preamble(read.normals))

-----------------------------------------------------------------------------
(* Statistics of a graph.  Its requests stand agent by agent; an ideal     *)
(* cache sees them in the order of their recorded starts.                  *)

ReplayOrder(g) ==
  LET Key(i) == LET q == g.requests[i] IN <<q.r.t, q.outer, g.agents[q.agent].chain_index, i>>
      Before(i, j) == \E n \in 1 .. 4 : /\ Key(i)[n] < Key(j)[n]
                                       /\ \A m \in 1 .. n - 1 : Key(i)[m] = Key(j)[m]
  IN Ordered(DOMAIN g.requests, Before)

(* Mutant: only the request before is remembered. *)
CountPrefixHitsLast(g) ==
  LET Known(seen, h) == Max({n \in 0 .. Len(h) : \A i \in 1 .. n : h[i] \in seen})
      Count(c, i) == LET h == g.requests[i].r.h IN
        [seen |-> Range(h), hits |-> c.hits + Known(c.seen, h), total |-> c.total + Len(h)]
  IN FoldLeft(Count, [seen |-> {}, hits |-> 0, total |-> 0], ReplayOrder(g))

(* A request hits the leading blocks that any earlier one had. *)
CountPrefixHits(g) ==
  LET Known(seen, h) == Max({n \in 0 .. Len(h) : \A i \in 1 .. n : h[i] \in seen})
      Count(c, i) == LET h == g.requests[i].r.h IN
        [seen |-> c.seen \cup Range(h), hits |-> c.hits + Known(c.seen, h),
         total |-> c.total + Len(h)]
  IN FoldLeft(Count, [seen |-> {}, hits |-> 0, total |-> 0], ReplayOrder(g))

(* compute_stats of one trace *)
Stats(g) ==
  LET Kind(a) == g.agents[a].kind
      inner == {i \in DOMAIN g.requests :
                  LET a == g.requests[i].agent IN
                  \/ Kind(a) = "subagent"
                  \/ g.agents[a].parent > 0 /\ Kind(g.agents[a].parent) = "subagent"}
      c == CountPrefixHits(g)
  IN [groups |-> Cardinality({a \in DOMAIN g.agents : Kind(a) = "subagent"}),
      turns |-> Len(g.requests) - Cardinality(inner), inner |-> Cardinality(inner),
      hits |-> c.hits, total |-> c.total]

-----------------------------------------------------------------------------
(* One trace is read and built.                                            *)

VARIABLES
  raw,     \* the recorded trace
  graph    \* what build_trace returned for it; EmptyGraph before

wekavars == <<raw, graph>>

WekaInit == raw \in Raws /\ graph = EmptyGraph

Build ==
  /\ graph = EmptyGraph
  /\ graph' = BuildTrace(raw)
  /\ UNCHANGED raw

WekaSpec == WekaInit /\ [][Build]_wekavars

-----------------------------------------------------------------------------
(* Properties.  They are of files in which requests stand in time order.   *)

Built == graph # EmptyGraph
Ids == DOMAIN graph.requests
MainTurns == {i \in Ids : graph.requests[i].agent = 1}

(* No recorded request is lost or doubled on its way through the split of  *)
(* the preamble, the chains, their seams and the groups: each is one node  *)
(* of the graph, but for those of groups with no turn before them.         *)
(* (weka_graph.cpp build_trace, expand_subagent, resolve_seams)            *)
EachOnce ==
  LET Kept == {k \in DOMAIN raw.subagents :
                 \E i \in MainTurns : graph.requests[i].outer < raw.subagents[k].oi}
      Recorded == {<<r.oi, r>> : r \in raw.normals} \cup
        UNION {{<<raw.subagents[k].oi, r>> : r \in Normalized(raw.subagents[k])} : k \in Kept}
  IN Built =>
       /\ Len(graph.requests) = Cardinality(Recorded)
       /\ {<<graph.requests[i].outer, graph.requests[i].r>> : i \in Ids} = Recorded

(* A turn that follows another of its agent was recorded after the end of  *)
(* that one, with the same model and a prefix in common, so that replaying *)
(* them one after the other serializes nothing that ran in parallel; only  *)
(* a preamble stands alone before the first turn.                          *)
(* (weka_graph.cpp find_extension_target, elect_continuation, rekey)       *)
TurnsFollow ==
  \A e \in graph.edges :
    LET a == graph.requests[e.from]
        b == graph.requests[e.to] IN
    (e.kind = "sequential" /\ a.r.h # <<>> /\ b.r.h # <<>>) =>
       \/ a.r.model = b.r.model /\ End(a.r) <= b.r.t /\ Lcp(a.r.h, b.r.h) > 0
       \/ \A i \in Ids : graph.requests[i].agent = a.agent => i >= e.from

ChainsOf(det) == Range(det.workers) \cup {[NewChain EXCEPT !.reqs = det.main]}

Linked(S, T) ==
  \E c \in S, d \in T :
    \/ ByTime(c.reqs[1], d.reqs[1]) /\ Finish(c) > Start(d)
    \/ ByTime(d.reqs[1], c.reqs[1]) /\ Finish(d) > Start(c)

Components(chains, comps) ==
  /\ UNION comps = chains
  /\ \A S, T \in comps : S # T => S \cap T = {} /\ ~ Linked(S, T)
  /\ \A S \in comps : \A T \in SUBSET S \ {{}, S} : Linked(T, S \ T)

(* The sweep over a group of chains finds the connected components of the  *)
(* relation "still running when the other starts": no link leaves one, and *)
(* none can be parted.  (weka_graph.cpp overlap_components)                *)
ComponentsExact ==
  LET Exact(chains) == Components(chains, OverlapComponents(chains)) IN
  Built => Exact(ChainsOf(Detect(raw.normals \ Preamble(raw.normals))))

(* The ideal hit rate and the counts that are compared with the published  *)
(* ones.  A walk that only knows which hashes it has seen computes every   *)
(* block once, since a hash stands for the whole prefix that ends in it,   *)
(* so that the rate does not depend on how requests that start at the same *)
(* time are ordered; and the turns are counted right although they have    *)
(* become agents of their own.  (trace.cpp count_prefix_hits, compute_stats)*)
StatsExact ==
  LET h(i) == graph.requests[i].r.h
      Chained == \A i, j \in Ids : \A m \in DOMAIN h(i), n \in DOMAIN h(j) :
                   h(i)[m] = h(j)[n] => SubSeq(h(i), 1, m) = SubSeq(h(j), 1, n)
      stats == Stats(graph)
  IN Built =>
       /\ stats.turns = Cardinality(raw.normals)
       /\ stats.turns + stats.inner = Len(graph.requests)
       /\ Chained => stats.hits = stats.total - Cardinality(UNION {Range(h(i)) : i \in Ids})

(* Every set of requests has one that waits for none of the others, or the *)
(* replay of the session never ends (engine.cpp arms a request when its    *)
(* last predecessor is done).  (weka_graph.cpp preceding_pos, join_pos)    *)
Acyclic ==
  \A S \in SUBSET Ids \ {{}} :
    \E i \in S : \A e \in graph.edges : ~ (e.to = i /\ e.from \in S)

(* The same where every turn of the list has block hashes.                 *)
AcyclicHashed == (\A r \in raw.normals : r.h # <<>>) => Acyclic
=============================================================================
