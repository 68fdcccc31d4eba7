# TLA+ models of DLsim

DLsim replays recorded agent sessions against a simulated inference system. Recorded sessions become
graphs of requests (`src/trace`), measured operator tables price them (`src/perfdata`), a solver searches
designs that meet a target (`src/solver`), and many simulations run in parallel (`src/cli`). The core is the state
engine, `src/src/engine/engine.cpp`: a single-threaded discrete-event simulator that decides which
requests every worker computes in every pass, where the KV cache of every session lies, and when the
next request of every session starts. Results are compared with published measurements, so that a
token that is counted twice, a request that is never served or a timer that fires late does not crash
anything: it silently changes a number. This directory models these parts in TLA+, checks the models
with TLC and proves the invariants of the KV cache, of the scheduler, of the replay, of the two pools of a disaggregated
deployment, of the trace cache, of the parallel evaluation and of the solver with TLAPS.

Source files are named without their directory: `engine.cpp` is `src/engine/engine.cpp`, and so on. A line number
without a file is one of `engine.cpp`.

## The system

| component | state | operations | interacts with |
| --- | --- | --- | --- |
| KV cache of a rank | `Node` (radix tree, pins, tier, tail, LRU membership), `Unit::used`, `lru`, the KV fields of `Req` | `lookup`, `pin_hit`, `split`, `insert_child`, `ensure_free`, `evict`, `remove_subtree`, `admit_prefill`, `preempt`, the KV part of `commit_pass` and `finish` | called by the scheduler and the router; queues transfers |
| scheduler of a rank | `Unit::running`, `waiting`, `since_prefill`, `loading`, `Worker::busy`, `batch`, `blocked_until` | `enqueue`, `try_start_pass`, `form_batch`, `commit_pass`, `reject`, the events `EvPass`, `EvTransfer`, `EvReady` | calls the cache; ends requests (`after_done`) |
| replay of session trees | `Play`, the dependency fields of `Req`, `timers_`, `warm_timers_`, `timer_offset_`, the phase | `run`, `start_play`, `on_ready`, `after_done`, `push_timer`, `cap_tree_idle`, the hand-off, the idle shift, `EvEnd` | hands requests to the scheduler, learns of their end |
| P/D disaggregation | `dec_waiting`, `dec_alloc`, `delivered`, deliveries under way | `start_delivery`, `release_prefill_side`, decode admission, `XferDeliver` | two pools of workers, one clock |
| routing | `Pool::rr`, `Play::sticky_worker`, `Worker::trees` | `route`, `pick_unit`, the counts in `after_done` | looks up every rank's cache |
| trace reconstruction | chains while they are built | `weka_graph.cpp`: preamble, chains, seams, kinds, groups, edges | produces the dependency graph the replay follows |
| trace cache, statistics | a cache file per file name | `trace.cpp`: `load`, `load_cache`, `save_cache`, `compute_stats` | processes share the file |
| solver | the evaluated grid, pairs, solutions | `solver.cpp`: grid, screening, bisection, optimum, Pareto front | calls the simulator as a function |
| operator tables | `memo_`, `cache_` under one mutex | `measured.cpp`: `query`, `table`, `resolve`, `query_rows`, `query_gemm` | shared by the parallel evaluations |
| command line | the tasks of `evaluate_points` | launch, drain | threads that share the tables |
| metrics, step latency, model, fabric, configuration, tools | none | formulas, parsing, reports | |

What is hard about it:

* Nothing runs in parallel, but handlers call each other deeply: `ensure_free` evicts, `evict` calls
  `ensure_free` for the next tier, and both run in the middle of an admission, a load or a batch that
  holds node ids it has just looked up.
* One node is held by several requests for different reasons, is split while it is held, and is given
  back in six different ways. The accounting is spread over a dozen increments and decrements.
* A rank that has nothing to compute is started again only by an arrival or the end of a transfer.
  Whether a waiting request is ever served depends on who was preempted, and on who holds the room.
* Timers are re-armed in place by a version number, shifted as a whole by an offset, and capped per
  tree; the three mechanisms read each other's fields.
* The replay starts in the middle of every tree and changes its rules at the end of the warmup.
* Agents that were flattened into one list are told apart by block hashes alone, and chains that were opened
  early are spliced into others late, while the edges of a group are placed by two different orders.
* Parallel evaluations share a memo and the tables read so far; the lock is given up between a look-up and the
  insertion.
* The trace cache is written in place through a buffer, without a lock or a rename: a process may die at any cell, the
  disk may be full at any flush, and nobody looks whether the last one succeeded.

Within one simulation there are no threads, messages or restarts: hazards of those kinds arise only in the trace
cache and in `evaluate_points`.

## Modules

| module | models | abstract over |
| --- | --- | --- |
| `KvTree` | the KV cache of one rank of an aggregated pool, and what a request does to it from admission to its end; *any* scheduler | LRU order, clock, link times |
| `Rank` | the scheduler, on top of `KvTree` (`EXTENDS`): each of its steps takes steps of `KvTree` or leaves the cache alone | how long passes and transfers last |
| `DagReplay` | what the replay promises: every request once, after those it depends on, one live tree per lane, warmup first | timers altogether |
| `Replay` | the replay with its timers and caps, an implementation of `DagReplay` | the service of a request (a time between 1 and `MaxService`) |
| `Pools` | the two pools of a disaggregated deployment, the router, and deliveries between them | prefix caches, link times |
| `WekaGraph` | how a recorded session becomes a dependency graph, and the statistics of it | labels, `kEps` |
| `Evaluation` | the threads of `evaluate_points`, the memo and the tables they share, and which table answers a query | what a table answers (a parameter) |
| `OpTables` | how a table answers: lanes, interpolation, extrapolation, GEMM sites; the parameter of `Evaluation` (`EXTENDS`) | the square-root scale, notes |
| `Solver` | `solve` from grid to solutions | the simulator (a function), the Jacobian |
| `TraceStore` | `load` and its cache file, with buffer, crashes and a full disk | JSON, what is in a trace |
| `MC...` | workloads for TLC | |
| `...Proofs` | the inductive invariant of the module of that name, and the proofs | |
| `Facts` | lemmas about smallest and largest elements, sums and products over sets, numbers in a mixed radix, and the operators on sequences that the queues are built from | |

### KvTree

The tree of `Node`s is `live` (ids in use), `parent`, `above` (everything the loops over
`Node::parent` visit from a node), `blocks`, `tail`, `tier`, `pins` and `lru`; the roots of a session's
tree are named after the session and are there from the start, as `root_of` makes them on demand and
never frees them. `used` is `Unit::used`. Of a `Req` there are `st`, `hit`, `own`, `hitLen`, `left`,
`gen`, `alloc`, and the tokens of the pass under way in `pend`.

`ensure_free` is the one place where the model has to cut a handler into steps, because the number of
evictions is not known: `op` is the handler that called it (`admit`, `load`, `grow`) and `stack` the
victims of the nested calls, one per tier. While `op` is not `NoOp` only the eviction loop
(`EvictDown`, `EvictLast`, `Offload`, `Drop`) and the rest of that handler (`AdmitOk`/`AdmitBlocked`,
`LoadStart`/`LoadBlocked`, `GrowOk`/`GrowFailed`) are enabled. Everything else is one action per
handler or per branch of it: `BeginLoad`, `PinWhole`, `PinSplit` (the hit ends inside a node),
`LoadDone`, `CommitChunk`, `CommitPrefill` (with `insert_child` and, for a request of one token,
`finish`), `CommitDecode`, `CommitLast` (`finish`), `PreemptKeep`/`PreemptDrop`/`PreemptPrefill`,
`Expire` (what `lookup` does to a node past its residency limit), `Reject`.

The LRU *order* is left out: `ensure_free` takes any node of the tier's LRU set. This makes the model
more general than the code, and spares it the clock. `lookup` returns any of the matches it could find
when siblings start with the same block, as which one comes first depends on their age.

Hash ids are chained: equal ids stand at the same place behind the same prefix. The docs measure this on
the data set and the code relies on it; it is `PromptAssumption`.

### Rank

`form` is the handler under way: the loops `form_batch` still has to run (`todo`), the index in `running`,
the budget that is left. `Opened` decides the loops as the code does from `prefill_interval`,
`mix_prefill_decode` and whether anything decodes; `"fallback"` stands for the second call of
`add_decodes` on an empty batch. An event is taken only when `form` is `Off`, as the engine is single
threaded. `try_start_pass` (`TryStart`) does nothing on a worker that is busy or blocked. Of the transfers
only their effect is kept: `blocked` is set when one starts (unless it takes no time or the stack overlaps
transfers), and a completion may end it; a write-back of any worker makes every worker try.

### Replay and DagReplay

Time is discrete. The end of a request is drawn when it starts, and the event loop takes completions and
timers in the order of their times. `tm` holds what `push_timer` writes: `due`, `base` (`due_base`),
`armed` (`pending_timer`), `ver` (`timer_ver`) and the two heaps. `Capped` is `cap_tree_idle`, `Shifted`
the idle shift at the end of an iteration, `HandOff` the end of the warmup, `Complete` the end of a request
with the whole of `after_done`: successors, tree cap, next play. `Init` is `start_play` of the first play
of every lane, from any snapshot in `TStars`.

Left out: a write-back under way (it only postpones the idle shift), `request_overhead_ms`, and plays
without any request to run. Ties between timers are taken in either order.

### Pools

A rank is its worker and its place there. `todo` is the stack of what the handler under way still has to do: try a
worker, run the loops of `form_batch` on each of its ranks, commit the entries of its batch. No event (`Arrive`,
`PassEnds`, `Deliver`) is taken before it is empty. `Loops` is the order in which `form_batch` runs them on either
side: a decode rank first continues its sequences and gives new ones what is left. `StartDelivery` is
`start_delivery` with the routing of the decode side, `Deliver` the event `XferDeliver`: release the prefill side,
queue on the decode rank, wake both workers (`Woken`). `route` is `Routed`: round robin, or, with `kv_aware` routing
in pools that keep no prefixes, the worker of the session, else the one with the fewest live trees.

The ranks keep no prefixes, so that what they store are the tokens of requests; the cache of a rank is `KvTree`. What
couples the two, the prefix a decode rank keeps pinned for a delivery (`dec_hit_node`), is left out.

### WekaGraph

`Build` applies `build_trace` to a recorded session, as one pure function: `Preamble`, then `Detect` (each request
extends a chain, forks from one or opens one, in time order; then the seams are spliced), `KindOf` and `InGroup` (the
sweep over overlapping agents), `ExpandSubagent` for recorded groups, and the edges of `AddChain`. The containers of
the code become folds over sequences of chain records. `Stats` is what `compute_stats` and `count_prefix_hits` count.

### Evaluation and OpTables

A node of the trie is the set of rows with the keys on the way to it, so that `Resolve` is one operator over the axes
that are left, bracketing each axis, extrapolating beyond its edge, and marking the answer. `Located` and
`MergedTable` are the choice of the system, the version and the files; `QueryRows` the selection of lanes;
`QueryGemm` the transfer between sites (of sites at the same distance the nearest four are taken in the order of the map,
where `std::sort` leaves it open). Around this, `Ask`, `ReadTable` and `Remember` are the three places where
`query` holds the mutex, and `Launch` and `Drain` the loop of `evaluate_points`. A missing file throws in the task, and
the error leaves `evaluate_points` when the task is drained.

### Solver

The forward function is a parameter; a state machine follows `solve` through its loops: `VisitNode` (screening and the
neighbours of kept nodes), `RunCandidate`, `SweepAxis` with the monotonicity of the axis, `TakeNode` and `Bisect`
over the pairs of neighbours that differ, `Select`, and `Sense`. A coordinate is a whole number of tolerances of the
bisection. `Accepted` is the check of the objectives before anything is run (196-199); another query is `"refused"`.

A run gives all metrics the query names. A screen gives those in `query.screen`; `meets_targets` goes through the targets
in their order, and throws (`ScreenThrows`) when it comes to one whose metric is not there before it has found one that is
missed. The screen of `cmd_solve` gives `sessions_capacity` only (main.cpp:541), which its runs do not give, so that no query
of the command line has targets that both a run and the screen know; the examples set `screen: false`.

### TraceStore

A cache file is a sequence of cells (header, then one per trace). A process reads the cache cell by cell and decides
(`Choose`), or parses the source and writes a new one: `WriteCell` is `fwrite`, which fills the buffer of stdio; `Flush`
takes a cell from the buffer to the disk, at any time before the file is closed; `Close` is `fclose`. `room` says whether
the disk takes what is written, and changes at any time (`DiskTurns`). Without room an `fwrite` may fail, which `raw`
reports (`WriteFails`); what `fclose` cannot flush is lost, and `load` returns all the same, as the code does not look at
its result (224). A short write that leaves part of a cell is one that leaves it out, as a reader finds the file too short
either way. `Crash` ends a process anywhere, `Replace` is the owner of the source file. The code takes a source of the
same path and size for the same; `StoreAssumption` gives different contents different sizes.

## Properties and runs

Passing runs, all of them complete (no state constraint):

| run | instance | states | checks |
| --- | --- | --- | --- |
| `kv_chain` | 2 sessions x 2 turns, tiers of 5 and 3 tokens, one draft token, expiry, at most 2 preemptions | 16 thousand | `TypeOK PinsExact HeldLive TierOrder LruExact UsedExact BulkExact` |
| `kv_fork` | 3 requests of one session with overlapping prompts at once, tiers of 4 and 2 | 176 thousand | `IInv HeldInHbm HeldPrefix` |
| `rank_offload` | 6 requests, one too large, tiers of 5 and 6, mixed batches of at most 3 tokens, expiry, blocking transfers | 158 thousand | `QueuesExact BatchValid NotStuck AdmittedFits ImplementsKvTree` |
| `rank_served` | 2 sessions x 2 turns, two tiers, prefill interval 2 | 1.2 thousand | `Served` |
| `replay` | 2 lanes, a tree with a subagent join and a short one, snapshots at 2 or 3, both idle caps, at most 8 plays | 17 thousand | `TimerExact PredsExact CountersExact OneLivePlay TreeGapCapped ImplementsDag Drains` |
| `pools` | 3 sessions of 6 requests, one prefill worker of 2 ranks, 2 decode workers, one request too large for each side | 482 thousand | `RoomExact KeepSlots TreesExact RestedEmpty` |
| `weka` | all sessions of 5 requests over 5 prefixes, of 4 odd ones (pauses, two models, no hashes, titles), and with 2 nested groups | 44 thousand | `EachOnce TurnsFollow ComponentsExact StatsExact AcyclicHashed` |
| `tables` | ragged and whole tables of a 3 x 3 grid, lanes with gaps, GEMM sites, and 3 points evaluated one or two at a time on shared tables | 45 thousand | `AnswersPure SourceTruthful GridAnswers NobodyStuck` |
| `solver` | 2 continuous variables and a choice, 64 feasible sets, 3 kinds of query and 2 that are refused, no screen, one of both metrics, and one that lacks a metric | 90 thousand | `BoundaryFound NoneBetter` |
| `store` | 2 paths with one cache file, 3 contents, 4 loads, 2 replacements, a crash anywhere, a disk that gets full or free at any time | 180 thousand | `LoadedRight LeavesCache` |

* `PinsExact`: `Node::pins` is the number of its holders (the root's own pin, `hit_node`, `own_node`, the
  chain of a load), no more and no less. `HeldLive`: no held node is freed. `HeldInHbm`: everything above a
  held node is in HBM; this is what makes it safe to pin the last node of a prefix only, and it rests on
  `TierOrder`. `HeldPrefix`: through all splits, a hit is exactly the part of the prompt that will not be
  computed, and a request's own node ends where its prompt ends.
* `LruExact`: `lru_update` was called wherever it had to be. `UsedExact`: `Unit::used` is what is stored.
  `BulkExact`: `bulk_inflight_` returns to zero.
* `QueuesExact`, `BatchValid`: the moves between `waiting`, `running`, loading and the batch lose or double
  nothing, and what is in a pass is still there when the pass ends. `AdmittedFits`: `form_batch` ignores the
  result of the first chunk of an admitted request; it cannot fail. `NotStuck`: a rank that nothing will start
  again has no work. `Served`: every request is served or rejected.
* `ImplementsKvTree`: `Rank` refines `KvTree`, so that what is proved of `KvTree` for any scheduler holds
  under this one.
* `TimerExact`: until the end, exactly the requests that are due have exactly one live timer. `PredsExact`,
  `CountersExact`: `preds_left`, `in_flight` and `remaining` mean what the code takes them to mean.
  `OneLivePlay`, `TreeGapCapped`, `ImplementsDag`, `Drains`.
* `RoomExact`: a request's tokens are stored on one side at a time, exactly, and never beyond the room there is.
  `KeepSlots`: a sequence that was admitted to decode is in every pass of its worker. `TreesExact`: the counts the
  router compares are the live trees of each worker. `RestedEmpty`: with no pass and no delivery under way no request
  is left on any rank; it fails as soon as `Deliver` wakes only one of its two workers.
* `EachOnce`: no recorded request is lost or doubled in preamble, seams and groups. `TurnsFollow`: turns put in sequence
  did not run beside each other, have the same model and share a prefix. `ComponentsExact`: the sweep over overlaps
  finds exactly the connected components. `StatsExact`: the counts are those of the recording, and the ideal hit rate
  is that of a walk that only knows the set of hashes seen, so that it does not depend on the order of ties.
  `AcyclicHashed`: the replay of a session all of whose turns have hashes can always go on.
* `AnswersPure`: each thread gets the answers it would get alone, whatever the others do, and the results stand in
  the order of the points. `SourceTruthful`: "measured" is a row, "interpolated" is within the range and the values of
  the rows. `GridAnswers`: a table without holes answers everything within its range. `NobodyStuck`: an evaluation
  ends, with an error or with all its answers.
* `BoundaryFound`: between any two neighbours of which one meets the targets there is a solution, within the
  tolerance of a point that does not, although the screen may have dropped a node. `NoneBetter`: nothing on the
  grid is better than what is returned.
* `LoadedRight`: a load returns what the file held at some time since the call, whatever earlier calls have left behind.
  `LeavesCache`: a load that returns leaves a cache of what it returned, but for one case: it wrote the cache itself
  and the disk was full when it closed it (`store_full`).

`RankTypeOK`, `ReplayTypeOK` and `PoolsTypeOK` state the types of the three modules; the runs leave them out, as a value
outside its type breaks one of the invariants above or stops TLC. The latter two are proved.

Two runs show a disagreement between the code and its documentation (`findings` in `PROJECT.json` quotes the lines):

| run | shows |
| --- | --- |
| `rank_fork` (`NoOvercommit`: what a tier stores fits it) | `preempt` gives back the tokens of a node that was split since: `used` is too small from then on, and the rank stores more than it has |
| `weka_cycle` (`Acyclic`) | a turn without hashes joins a chain that is spliced behind later turns; a group is spawned by a turn of a later position than the one it joins, and the edges form a cycle: the tree never ends and its lane stops |

### Further configurations

These configurations are kept for reference. Each checks one property that a doc, a comment or a test states, and TLC
finds it violated by what the code does; the passing runs check the property, or its neighbours, where the case does
not arise.

| configuration | shows |
| --- | --- |
| `kv_bulk` (`BulkExact`) | a load from two slower tiers counts two transfers (987) and completes one (1445): the system idle cap (250) is off for the rest of the run |
| `rank_tail` (`NotStuck`) | a turn that fits the pool, but not beside the tail of the node it extends and itself pins (831), waits forever on an idle rank |
| `rank_livelock` (`Served`) | two prefills that do not fit together: the younger is preempted (1256), admitted first, preempted again |
| `rank_nextn` (`Served`) | the test for oversized requests (1206) leaves out the draft tokens a decode step asks for (1132) |
| `replay_idle` (`IdleGapCapped`) | the system idle cap measures the gap to a stale timer (251) |
| `replay_cap` (`CapAdvances`) | the tree idle cap computes with times from before an idle shift (407) and moves timers into the future |
| `pools_preempt` (`PreemptLast`) | a prefill is preempted although a delivery under way is about to free room on its rank; the comment at 1252 says nothing else would |
| `tables_lines` (`BetweenLines`) | on lines that end at different steps an answer between two lines lies outside the answers on them (measured.cpp:173); the docs (operator-latency.md:48) extrapolate each line first |
| `tables_point` (`AnswersNumbers`) | a GEMM site with a single row answers larger sizes with a supported answer that is not a number (measured.cpp:253, 268) |
| `tables_digits` (`AnswersPure`) | numbers that agree in six digits share a key of the memo (measured.cpp:587): the answer depends on which was asked first |
| `store_race` (`LoadedRight`) | a second process truncates the cache while the first writes it (trace.cpp:200); the gap reads as zeros, which are accepted as empty traces |
| `store_full` (`CacheWritten`) | the disk is full when the cache is closed; the result of `fclose` is ignored (trace.cpp:224), so that `load` returns without an error and without the cache that the first load is said to write (README.md:28) |

`BulkExact`, `NotStuck`, `Served`, `AnswersPure` and `LoadedRight` are therefore checked by passing runs on workloads
that avoid the case (two tiers, room for a tail, prefills that fit together, short numbers, one process at a time), and
`LeavesCache` is `CacheWritten` without the case of `store_full`. A passing run says nothing of the case it avoids: the
hazards of `kv_bulk` (engine.cpp:987), `rank_livelock` (1258), `rank_nextn` (1206), `rank_tail` (1003), `replay_cap` (404)
and `replay_idle` (251) stand in `PROJECT.json` without a property.

### Bounds

* Capacities of 3 to 6 tokens of one-token blocks are just below what the workloads want at once, so that
  admission, growth, loads and decodes all fail and succeed, with and without evictions; every action and every
  branch of the next-state relations is taken in some passing run.
* Prompts of one to three blocks give a hit of nothing, of a whole node, of part of a node, and of the whole
  prompt (the back-off). Blocks are one token: a larger `BlockSize` only scales the numbers.
* Two slower tiers occur in `kv_bulk` only; two tiers already have the recursion of `evict` (offload, and drop
  when the next tier is full). The proofs cover any number.
* `MaxPreemptions = 2` bounds `MCKvTree`, where any request may be preempted at any time: one preemption,
  and a second one of the same request or of another. `Rank` needs no such bound.
* `NodeIds` is larger than any run needs; an id is reused after it is freed.
* `MaxPlays = 8` plays and a service time of at most 2 in `replay` within a duration of 6 let every lane start
  several plays; `Complete` is disabled beyond it, which no behaviour within the duration reaches for long.
* In `pools`, rooms of 5 and 9 tokens, one or two slots and chunks of 2 make admission, the chunk of a running prefill and
  decode admission fail and succeed; two ranks of one worker share a pass, and two decode workers make the router choose.
* `weka` enumerates all assignments of five prefixes, which fork after the first block, to five requests: enough for a
  fork, a seam, a second candidate for the seam, and a chain left over. The thresholds of the code are scaled down
  (`SeamMaxGap` and the others are CONSTANTS).
* `tables` covers subsets of 3, 4, 6, 8 or 9 places of a 3 x 3 grid, asked on, between and beyond its lines; three
  points of one or two queries each let two threads meet in every order of `Ask`, `ReadTable` and `Remember`.
* `solver` has 3 nodes per axis, or 4 behind the screen, 2 to 5 tolerances apart; boxes of metrics that rise, that
  fall, and one that does neither. The screen that lacks the second metric throws at the first node that meets the first
  target, and not where none does.
* `store` bounds calls (4) and replacements (2), and not how often the disk gets full: a cache left by a crash, one of another path, and an outdated one can follow
  each other. `Parallel = 1`: one process at a time.
* `since_prefill` is counted up to `Interval`, which is all the code compares it with.

Deadlock is not checked: a simulation, an evaluation or a load ends when nothing is left to do. `NotStuck`, `RestedEmpty`,
`NobodyStuck` and `Drains` say that it does not end early.

### Fairness

`Rank!Fairness`: handlers run to their end (`WF` of `FormBatch`, they are finite code), a pass and a blocking
transfer end (`WF` of `Commit` and of the `Written` that unblocks), and a request that may arrive or a load under
way is taken eventually however many passes come first (`SF` of `Arrive`, `Loaded`): each has a finite time in
the heap, and passes take time. `Replay!FairSpec`: the loop of `run` goes on while it has something to take. The other
specifications state no fairness: they are checked for safety, and what must not be left behind (`RestedEmpty`,
`NobodyStuck`) is an invariant of the states in which nothing is under way.

## Proofs

Proved for all values of the constants that the `ASSUME`s of the modules allow:

| module | theorem | statement |
| --- | --- | --- |
| `KvTreeProofs` | `StepIInv`, `KvInvariant` | `IInv` is inductive; `Spec => []IInv` |
| | `PinsTheorem`, `HeldTheorem`, `LruTheorem`, `HbmTheorem`, `TierTheorem` | `PinsExact`, `HeldLive`, `LruExact`, `HeldInHbm`, `TierOrder` |
| | `StepPInv`, `PrefixInvariant` | `PInv` is inductive; `Spec => []PInv` |
| | `TypeTheorem`, `PrefixTheorem`, `BulkTheorem` | `TypeOK`, `HeldPrefix`, and `BulkExact` if `NTiers <= 2` |
| `RankProofs` | `StepRInv`, `RankInvariant` | `RInv` is inductive; `RankSpec => []RInv` |
| | `RankRefines` | `RankSpec => ImplementsKvTree` |
| | `QueuesTheorem`, `BatchTheorem`, `AdmittedTheorem` | `QueuesExact`, `BatchValid`, `AdmittedFits` |
| `ReplayProofs` | `ReplayInvariant`, `ReplayTypesTheorem` | `ReplayInv`; `ReplayTypeOK` |
| | `TimerTheorem`, `PredsTheorem`, `CountersTheorem`, `OneLiveTheorem` | `TimerExact`, `PredsExact`, `CountersExact`, `OneLivePlay` |
| | `TreeGapTheorem` | `TreeGapCapped` |
| | `DagTheorem` | `Spec => ImplementsDag` |
| `PoolsProofs` | `PoolsInvariant`, `PoolsTypes` | `PoolsInv`; `PoolsTypeOK` |
| | `RoomTheorem`, `KeepSlotsTheorem` | `RoomExact`, `KeepSlots` |
| | `TreesTheorem`, `RestedTheorem` | `TreesExact`, `RestedEmpty` |
| `TraceStoreProofs` | `StepSInv`, `StoreInvariant` | `SInv` is inductive if `Parallel = 1` |
| | `LoadedTheorem`, `LeavesTheorem` | `LoadedRight`, and the action property `LeavesCache` (which excepts a full disk at the close), if `Parallel = 1` |
| `EvaluationProofs` | `EvalInvariant`, `PureTheorem` | `EvalInv` and `AnswersPure`, if `ToldApart` |
| | `LaunchedInvariant`, `StuckTheorem` | `LaunchedInv`; `NobodyStuck` |
| `SolverProofs` | `GridInvariant`, `SweepInvariant` | `GridInv` and `SweepInv`, if `Optimistic` |
| | `BoundaryTheorem` | `BoundaryFound`, if `Optimistic` |
| | `NoneBetterTheorem` | `NoneBetter`, if `Measured` and `Optimistic` |

None of the properties is inductive. `IInv` stands in `KvTree` and is checked by `kv_fork`; the other invariants open the
modules with the proofs. A module that extends one of these and the MC module of the same component lets TLC check them on the
instances of the runs, where it finds them to hold.

### The KV cache: pins, tiers, LRU sets

A node that is evicted has no pin, and all its children are in slower tiers (`LruExact`). A held node is pinned
(`PinsExact`) and in HBM, so that no node above it can be evictable: the child on the way down to it is in HBM too. For
this, `IInv` needs

* `TreeOK`: `above` is the closure of `parent`, between a node and one above it there is a child of the latter,
  and tiers only get slower downwards. Without the middle part one could not step from a held node to the child
  that protects the node above it.
* `HoldOK`: which states of a request hold which nodes, and that the chain of a held node is in HBM, except while
  it is being loaded, when it is pinned node by node.
* `CallOK`: the handler that is interrupted is one that may be, and the victims on `stack` stay in the LRU
  set of their tier while room is made below. This is the recursion of `evict`: it does not disturb its caller.

The lemmas come first: counting holders (`CountExcept`, `HeldAtCount`, `PinHoldersCount`, `HolderPins`), what a
change means for the LRU sets (`LruStep`, `LruNode`), removal (`Freed`, `Removal`), releasing (`Released`,
`OnlyHolder`), and inserting (`Inserted` above a node, `Leaves` below one). Then one lemma per action, and
`StepIInv` puts them together. `InitIInv` is the base.

### The KV cache: prompts and counts

`HeldPrefix` says what a request's hit is; that a split, an insertion or a removal leaves it so depends on what the nodes
of *others* hold. `PathOK` says it of every node: it holds a piece of some prompt, of which the nodes above it hold all that
comes before. As hash ids are chained (`PromptAssumption`), two prompts that share a block share all before it
(`PromptsMeet`), hence what `lookup` has matched is a prefix of the prompt it was asked for (`LookupRight`), a split
at any place gives two such pieces (`SplitPaths`), and the tokens left to compute are never negative. `CountOK` has
the types of the counts, which need the sign of what is summed (`TokensSum`); `LoadOK` says that a load that waits for
room has something to load. `BulkTheorem` needs `NTiers <= 2`: with one slower tier a load is one transfer
(`OneTransfer`); `kv_bulk` shows that with two it is not so.

### The scheduler

`RInv` is `PInv` and what ties the handler under way to the queues, the batch and the cache: `QueueOK` (the queues hold
every request once, in the state of the queue), `BatchOK` (the budget is what the batch has left over), `LoopOK` (requests
that the loops have not reached yet are in no pass; the one just admitted fits) and `CallerOK` (the call of
`ensure_free` that waits is the one `form_batch` made, for the tokens it computed from a budget that has not changed
since). Each step is then shown to be a step of `KvTree` or one that leaves the cache alone (`StepImplements`), so that
`PInv` is kept by `StepPInv` and every theorem about `KvTree` holds of the cache under this scheduler. `AdmittedFits`
is a part of `LoopOK`; `BatchValid` needs both, since a preemption takes a request that may not be in the batch.

### The replay

`ReplayInv` adds to the four properties that it contains what makes them survive a step: `TimersOK` (each heap has the
timers of its class, at most one of each version, none newer than the request's), `ArmedOK` (a request is armed exactly
when its latest version is in a heap), `PlaysOK` (plays start in order, and of one that has not started all is as at
first), `StatesOK` (a request that has started waits for nobody; the armed ones are those that are due). Arming, re-arming
and firing are reduced to three lemmas on the heaps (`PushKeeps`, `FiredIs`, `TimersGo`), so that the tree cap, the
idle shift, the hand-off and the ends of requests, which all re-arm, need no argument of their own. The end of a request
is the largest step: its lemmas treat types, timers, plays, predecessors, states, counters and lanes one by one.

`TreeGapCapped` needs `GapInv`: the latest timer of a request is stored no later than its due time plus the *present* offset,
which the idle shift only moves forward. That a new play has a request that starts at once (`FirstRoot`) needs
`TimesAssumption`. The refinement maps a request to `"away"`, `"warm"`, `"idle"`, `"run"` or `"done"` and a lane to the latest of
its plays; it needs `LatestInv` (an earlier play of a lane has nothing left) and `WarmInv` (what a warmup request
waits for is in the warmup too: the classes follow the order of time). At the hand-off nothing of the warmup is left
(`WarmupOver`): the first warmup request left would have nothing to wait for, hence a timer, but the heap is empty.

### The two pools

A handler of the disaggregated deployment is many steps of `Pools`, so that `PoolsInv` has to say what holds half way through
one. `HandlerOK` knows the stack: one call, and at most one more worker to try after it. The other parts are

* `QueueOK`: the state of a request tells the one queue that has it. While `commit_pass` walks over the batch, what it
  has just finished or sent is still in `running`; that is the only exception.
* `BatchOK`: the entries of a pass *that are still to be committed* (`Pass`) are of requests in service, on their rank, each
  once. The entries before them may be of requests that are done or elsewhere by now.
* `StoredOK`: a prefill that is in no pass has stored what it has computed, one in a pass what it will have computed. A
  preempted prefill therefore gives back exactly what it took.
* `SlotsOK`: a decode rank that has computed none, some or all of its sequences still has slots for the rest, as all that
  run fit it (`Fits`). It is what makes `KeepSlots` true of the batch before the loop over the sequences has ended.
* `LoopOK`: a prefill rank whose batch is empty has its whole budget, hence an admission that fails then fails for room.
* `CountOK`: `remaining` and `trees` are cardinalities, also while the end of a request is between the two.
* `RestOK`: on a worker that is not busy, not blocked and not going to be tried, each rank rests (`Rests`): nothing runs,
  nothing waits for decode, and prompts wait only if a delivery from this rank is under way, whose arrival wakes it.

`RoomExact` is about sums over sets of requests, of which one term changes at a time (`SumStep`, `RoomStep`). Each part has
a lemma that says which changes leave it alone (`BatchStays`, `StoredStays`, `CountStays`, `RestsStays`, ...), so that an
action has to treat only what it touches. `RestedEmpty` follows from `RestOK` and `QueueOK`: with no delivery under way
and nothing to try, all queues are empty.

### The trace cache

`SInv`: each cache file is a first part of the cache of *some* content of *some* path of its name (`CachesOK`), and
what a load has read, or has flushed, is what stands in the file (`LoadsOK`); what it has written beyond that is in its
buffer. A header names path and size, so that a
cache that is complete for its header and fits the source is the right one (`Accepted`), whoever wrote it and wherever a writer
before that died or lost its buffer. `LeavesCache` follows as `Close` without a full disk finds the buffer flushed
(`Flushed`) and all cells written, so that the file is the whole image. `Parallel = 1` is a hypothesis of the theorems because the statement is false without it: `store_race`.

### The parallel evaluation

`EvalInv` says of everything that is shared that it is what the files say: a table in `cache_` is the merge of its sources
(`CacheOK`), and what the memo holds under a key is the answer to the query with that key (`MemoOK`), whoever wrote it; of
every task that what it has been answered, and the answer it is about to remember, are those it would get alone (`TaskOK`).
The lock is given up between a look-up and the insertion, so that two threads may remember the same query: `emplace` keeps
the first answer, and `MemoOK` makes them equal. `ToldApart`, that no two queries of a scenario have the same key, is a
hypothesis because the statement is false without it: `tables_digits`. What a table answers is a parameter
(`RowsAnswer`), so that `PureTheorem` holds for any way to answer from rows.

`NobodyStuck` needs less: the points launched, drained and pending (`LaunchedInv`), for any memo. A pool that is not full
and has points left launches; one that is full, or has launched all, drains the first one pending, or waits for a task that runs.

### The solver

Both properties compare the result with *all* nodes of the grid, and the solver never runs those that a constraint rules out
or the screen drops. `GridInv` says what the grid may leave out: once the loop has passed a node that meets the query, it and
its neighbours have been run or are candidates (`Covered`), and what is recorded of a node is its run or that a constraint
rules it out (`GridOK`). `Optimistic`, that a screen passes whatever meets the targets, as far as it gives their metrics, is
what the closed-form screen is for; one that is not would drop a solution. A query that is refused, or a solve that the
screen ends by an exception, has no result to speak of, and the invariants say nothing of it.

For `BoundaryFound`, `SweepInv` says of every pair of neighbours the loops have passed that it has its solution if it differs
(`Swept`, `Found`), and of a bisection that it keeps a point that meets the query and one that does not, both between the
pair (`Bisected`). On an axis that is not monotone the node of the grid is taken, and `monotone` is false from then on. The
pairs are counted line after line, so that every two neighbours must be reached by some count: that the digits of a number in
a mixed radix take all values is `AllCounted` of `Facts`, on which `Counted` and `PairCounted` rest. The neighbours that the
screen adds to its candidates are needed here: a pair of which only one node passes the screen is still compared. The runs for
the sensitivities only add to the cache (`RunsKept`).

For `NoneBetter` the invariant of the grid suffices. `Measured`: the objectives are numbers. The optimum then exists since a
nonempty set of integers that are values of finitely many runs has a least one, and every run is dominated by one of the front,
or on it, for dominance on a finite set is well founded.

### What the proofs assume

* `KvTree`: `Reqs` is finite, names are disjoint, prompts are not empty and chained, `in_tokens` is the length of the hash list
  in blocks (`IslAssumption`), there is at least one tier; `Rank`: limits are positive.
* `Replay`: recorded times and delays are natural numbers; an edge joins two requests of the trace, and no pair has two edges;
  the snapshot is not behind the last request of any trace (`EdgesAssumption`, as `start_play` draws it between the
  first and the last time). `TimesAssumption`, that a request depends on earlier ones, or on ones before it that start at
  the same time, is used for `TreeGapTheorem` and `DagTheorem` only; `weka_cycle` builds a trace where it fails.
* `Pools`: `Reqs` and `Trees` are finite, prompts and outputs have at least one token, the two pools have different workers, each
  pool has a worker and each worker a rank, a rank computes at least one sequence, and a pass has room for one decode
  step (`TokCap[p] > Nextn`): with a smaller limit the loop over the decode sequences (1137) would compute none of them.
* `Evaluation`: there is at least one job (273), and the points of a scenario are sequences of queries.
* `Solver`: an axis is a list of integer choices or two integer bounds, a grid has at least one node per axis, and
  objectives are a sequence of names. How many there are is the business of `Accepted`.
* `TraceStore`: different contents have different sizes, as the code tells a cache from an outdated one by the size alone.

### What is only model-checked

* Liveness (`Served`, `Drains`): the prover has no `ENABLED`.
* `UsedExact`: it is false for some workloads (the preemption of a request whose own node was split, `rank_fork`), so that it
  can only be proved for behaviours without such a split. `NotStuck` and `Served` likewise fail on some workloads.
* `PreemptLast` of `Pools` is false: `pools_preempt`.
* `WekaGraph`, `OpTables`: pure functions defined by recursion and folds over data. What they compute for every
  input needs an induction the provers cannot do.

## Not modelled

* The prefix caches of disaggregated pools, and with them `kv_delivery = "missing"`, `dec_hit_node` and the scores of
  `kv_aware` routing that look up cached prefixes: they compose `KvTree` on several ranks with `Pools`, whose product is
  far beyond TLC; each side is modelled on its own.
* Prefill without chunks, several ranks of one worker in `Rank`, `request_overhead_ms`, plays without a request.
* Pass pricing, step latency, fabric, model description, metrics, calibration and the numbers of the sensitivity
  analysis: floating-point formulas without state, where a model would repeat the code.
* `harness_rng.cpp`: a bit-exact copy of a generator, tested against recorded values; `t_star` is any instant in `Replay`.
* Parsing, formatting, binary tables, reports, `trace_dump`, import and reference tools.

What is left to prove: `UsedExact` of `KvTree` for behaviours in which no request's own node is split, and `NotStuck` of `Rank` for
workloads without a tail (`rank_tail`).

## Running

    tlc -config kv_chain.cfg MCKvTree
    tlc -config rank_offload.cfg MCRank
    tlc -config replay.cfg MCReplay
    tlc -config pools.cfg MCPools
    tlc -config store.cfg MCTraceStore
    tlapm KvTreeProofs.tla      (and likewise every other module with proofs)

Every other `.cfg` belongs to the MC module of its prefix (`kv_`, `rank_`, `replay_`,
`pools`, `weka`, `tables`, `solver`, `store`). Operators commented as
*mutants* stand next to the definition they vary; they are part of no specification, and `PROJECT.json` says which
property each of them breaks.
