------------------------------- MODULE Replay -------------------------------
(***************************************************************************)
(* The replay of session trees (engine.cpp: run, start_play, on_ready,     *)
(* after_done, the timers and the two idle caps), with the service of a    *)
(* request reduced to the time it ends.                                    *)
(*                                                                         *)
(* Time is discrete.  `ends` of a request is picked when it starts, so     *)
(* that the event loop takes completions and timers in the order of their  *)
(* times, as the two heaps of the code do; ties between timers are taken   *)
(* in either order.  Left out: write-backs under way (they only postpone   *)
(* the idle shift), request_overhead_ms, plays without any request to run. *)
(***************************************************************************)
EXTENDS Integers, Sequences, FiniteSets, FiniteSetsExt

CONSTANTS
  NLanes,      \* RunSpec::concurrency
  Traces,      \* a sequence of [t, agent, edges]: request times, agents, and
               \* dependencies [from, to, delay]
  TStars,      \* snapshot instants t_star may be
  WarmBudget,  \* RunSpec::warmup_requests_per_lane
  Duration,    \* RunSpec::duration_s
  IdleShift,   \* RunSpec::idle_shift_s
  TreeCap,     \* RunSpec::trace_idle_gap_cap_s
  MaxService,  \* bound: a request is served in 1 .. MaxService
  MaxPlays     \* bound: plays started

Lanes == 1 .. NLanes
Plays == 1 .. MaxPlays

(* The sampler takes the traces in order and wraps. *)
Trace(p) == Traces[((p - 1) % Len(Traces)) + 1]

Ids == 1 .. Max({Len(Traces[k].t) : k \in DOMAIN Traces})
OfPlay(p) == DOMAIN Trace(p).t
Reqs == {x \in Plays \X Ids : x[2] \in OfPlay(x[1])}

TimeOf(p, i) == Trace(p).t[i]
FirstTime(p) == Min({TimeOf(p, i) : i \in OfPlay(p)})

ASSUME ReplayAssumption ==
  /\ NLanes \in Nat \ {0} /\ MaxPlays \in Nat /\ MaxPlays >= NLanes
  /\ MaxService \in Nat \ {0} /\ TStars \subseteq Nat
  /\ WarmBudget \in Nat /\ Duration \in Nat /\ IdleShift \in Nat /\ TreeCap \in Nat
  /\ Len(Traces) > 0
  /\ Traces \in Seq([t : Seq(Nat), agent : Seq(Nat),
                     edges : SUBSET [from : Nat, to : Nat, delay : Nat]])

(* Dependencies are between requests of the trace, at most one from one    *)
(* request to another (weka_graph.cpp build_trace).                        *)
ASSUME EdgesAssumption ==
  \A k \in DOMAIN Traces :
    /\ Len(Traces[k].t) > 0
    /\ \E i \in DOMAIN Traces[k].t : \A s \in TStars : s <= Traces[k].t[i]
    /\ IsFiniteSet(Traces[k].edges)
    /\ \A e \in Traces[k].edges :
         {e.from, e.to} \subseteq DOMAIN Traces[k].t /\ e.from # e.to
    /\ \A e, f \in Traces[k].edges : e.from = f.from /\ e.to = f.to => e = f

(* A request depends on earlier ones, or on those before it in the trace   *)
(* when they start together (weka_cycle shows a trace where it does not).  *)
ASSUME TimesAssumption ==
  \A k \in DOMAIN Traces : \A e \in Traces[k].edges :
    \/ Traces[k].t[e.from] < Traces[k].t[e.to]
    \/ Traces[k].t[e.from] = Traces[k].t[e.to] /\ e.from < e.to

VARIABLES
  now, t0,     \* now_, t0_
  phase,       \* "warmup", "profile" (profiling_) or "ended" (ended_)
  offset,      \* timer_offset_
  lane,        \* Play::lane, 0 for a play that has not started
  class,       \* cls of start_play: 0 profiling, 1 primer, 2 skipped, 3 follow-on
  st,          \* Req::st: "pending", "active", "done"
  preds,       \* Req::preds_left
  ready,       \* Req::ready
  ends,        \* the time at which an active request ends, else 0
  inFlight,    \* Play::in_flight
  remaining,   \* Play::remaining
  tm           \* due, base, armed, ver of each request (Req::due, due_base,
               \* pending_timer, timer_ver); main, warm: the two timer heaps

play == <<lane, class, st, preds, ready, ends, inFlight, remaining>>
replayvars == <<now, t0, phase, offset, play, tm>>

Active == {r \in Reqs : st[r] = "active"}

Warmup(c) == c \in {1, 3}

-----------------------------------------------------------------------------
(* Timers.                                                                 *)

(* push_timer for the requests of S, at the times of `at`. *)
Push(m, c, S, at, clock) ==
  LET warm == {r \in S : Warmup(c[r])}
      Timers(T, shift) == {[stored |-> at[r] + shift, req |-> r, ver |-> m.ver[r] + 1] : r \in T}
  IN [due   |-> [r \in Reqs |-> IF r \in S THEN at[r] ELSE m.due[r]],
      base  |-> [r \in Reqs |-> IF r \in S THEN clock ELSE m.base[r]],
      armed |-> m.armed \cup S,
      ver   |-> [r \in Reqs |-> IF r \in S THEN m.ver[r] + 1 ELSE m.ver[r]],
      main  |-> m.main \cup Timers(S \ warm, offset),
      warm  |-> m.warm \cup Timers(warm, 0)]

(* Mutant: a timer that fired stays pending. *)
FiredStays(e) == [tm EXCEPT !.main = @ \ {e}, !.warm = @ \ {e}]

(* The timers after e has fired.  due and due_base are read of armed       *)
(* requests only: they are 0 in others.                                    *)
Fired(e) ==
  [due   |-> [tm.due EXCEPT ![e.req] = 0],
   base  |-> [tm.base EXCEPT ![e.req] = 0],
   armed |-> tm.armed \ {e.req},
   ver   |-> tm.ver,
   main  |-> tm.main \ {e},
   warm  |-> tm.warm \ {e}]

(* cap_tree_idle for each of the plays P. *)
Pending(m, p) == {r \in Reqs : r[1] = p /\ r \in m.armed /\ ~ Warmup(class[r])}

(* Mutant: a tree is capped when it waits twice the cap. *)
CappedLate(m, P, clock) ==
  LET over(p) == Min({m.due[r] : r \in Pending(m, p)}) - clock - TreeCap
      S == UNION {Pending(m, p) : p \in {x \in P : TreeCap > 0 /\ Pending(m, x) # {} /\ over(x) > TreeCap}}
  IN Push(m, class, S, [r \in S |-> m.due[r] - over(r[1])], clock)

Capped(m, P, clock) ==
  LET over(p) == Min({m.due[r] : r \in Pending(m, p)}) - clock - TreeCap
      late == {p \in P : TreeCap > 0 /\ Pending(m, p) # {} /\ over(p) > 0}
      S == UNION {Pending(m, p) : p \in late}
  IN Push(m, class, S, [r \in S |-> m.due[r] - over(r[1])], clock)

(* Mutant: timer_ver is not compared. *)
StaleNever(e) == FALSE

Stale(e) == e.ver # tm.ver[e.req]

(* The times of the events in the main heap. *)
Endings == {ends[r] : r \in Active}

(* Mutant: of two timers of the same time neither is first. *)
EarliestStrict(S) == {e \in S : \A f \in S \ {e} : e.stored < f.stored}

Earliest(S) == {e \in S : \A f \in S : e.stored <= f.stored}

(* Mutant: timers of requests that are no part of the warmup fire in it. *)
TakesTimerWarm(e) ==
  /\ phase # "ended"
  /\ e \in Earliest(tm.main)
  /\ \A t \in Endings : e.stored - offset < t

(* The timer e is taken before any other timer and any event. *)
TakesTimer(e) ==
  /\ phase = "profile"
  /\ e \in Earliest(tm.main)
  /\ \A t \in Endings : e.stored - offset < t
  /\ e.stored - offset <= t0 + Duration

Later(t) == Max({now, t})

(* The idle shift at the end of an iteration of the event loop. *)
Shifted(m, clock, idle) ==
  LET next == Min({e.stored : e \in m.main}) - offset IN
  IF phase = "profile" /\ idle /\ m.main # {} /\ next - clock > IdleShift
    THEN offset + next - clock - IdleShift
    ELSE offset

-----------------------------------------------------------------------------
(* start_play.                                                             *)

(* The classes of the requests of a first play whose snapshot is at s: the *)
(* last request of an agent before s is a primer if the agent goes on, the *)
(* others before s are skipped, the next WarmBudget ones warm the cache.   *)
Classes(p, s) ==
  LET I == OfPlay(p)
      before == {i \in I : TimeOf(p, i) < s}
      agent(i) == Trace(p).agent[i]
      primers == {i \in before : /\ \A j \in before : agent(j) = agent(i) => j <= i
                                 /\ \E j \in I \ before : agent(j) = agent(i)}
      ahead(i) == {j \in I \ before : \/ TimeOf(p, j) < TimeOf(p, i)
                                      \/ TimeOf(p, j) = TimeOf(p, i) /\ j < i}
  IN [i \in Ids |->
        IF i \notin I THEN 2
        ELSE IF i \in primers THEN 1
        ELSE IF i \in before THEN 2
        ELSE IF Cardinality(ahead(i)) < WarmBudget THEN 3 ELSE 0]

Edges(p, c, i) ==
  {e \in Trace(p).edges : e.to = i /\ c[<<p, i>>] \notin {1, 2} /\ c[<<p, e.from>>] # 2}

(* Roots: the requests of p whose timer is armed when the play starts. *)
Roots(p, c) == {r \in Reqs : r[1] = p /\ c[r] \in {0, 3} /\ Edges(p, c, r[2]) = {}}

(* A first play: skipped requests leave their successors the time they     *)
(* would have waited at the snapshot.                                      *)
FirstAt(p, i, c, s) == IF c[<<p, i>>] = 3 THEN 0 ELSE Max({0, TimeOf(p, i) - s})

(* Mutant: a play is given the number of the last one. *)
NextPlaySame == Cardinality({p \in Plays : lane[p] # 0})

NextPlay == Cardinality({p \in Plays : lane[p] # 0}) + 1

(* Mutant: the requests of a new play do not count their predecessors. *)
FreshNever(r) == FALSE

Fresh(r) == r[1] = NextPlay

-----------------------------------------------------------------------------

(* on_ready *)
Start(r, t) ==
  /\ st' = [st EXCEPT ![r] = "active"]
  /\ \E d \in 1 .. MaxService : ends' = [ends EXCEPT ![r] = t + d]
  /\ inFlight' = [inFlight EXCEPT ![r[1]] = @ + 1]
  /\ UNCHANGED <<lane, class, preds, ready, remaining>>

(* The warmup loop takes warmup timers first. *)
WarmTimer(e) ==
  /\ phase = "warmup"
  /\ e \in Earliest(tm.warm)
  /\ \A t \in Endings : e.stored <= t
  /\ now' = Later(e.stored)
  /\ tm' = Fired(e)
  /\ Start(e.req, now')
  /\ UNCHANGED <<t0, phase, offset>>

Timer(e) ==
  /\ TakesTimer(e) /\ ~ Stale(e)
  /\ now' = Later(e.stored - offset)
  /\ tm' = Fired(e)
  /\ Start(e.req, now')
  /\ UNCHANGED <<t0, phase, offset>>

(* A timer the tree idle cap has moved is skipped. *)
StaleTimer(e) ==
  /\ TakesTimer(e) /\ Stale(e)
  /\ tm' = [tm EXCEPT !.main = @ \ {e}]
  /\ UNCHANGED <<now, t0, phase, offset, play>>

(* The end of a request, and after_done: the successors, the idle cap of   *)
(* the tree, and the next play of the lane when the tree is over.          *)
Complete(r) ==
  LET p == r[1]
      t == Later(ends[r])
      out == {e \in Trace(p).edges : e.from = r[2] /\ class[<<p, e.to>>] \notin {1, 2}}
      succ == {<<p, e.to>> : e \in out}
      into(x) == CHOOSE e \in out : e.to = x[2]
      ready1 == [x \in Reqs |->
                   IF x \in succ
                     THEN Max({ready[x], IF Warmup(class[x]) THEN t ELSE t + into(x).delay})
                     ELSE ready[x]]
      armed == {x \in succ : preds[x] = 1 /\ phase # "ended"}
      tm1 == Push(tm, class, armed, ready1, t)
      tm2 == IF inFlight[p] = 1 /\ phase # "warmup" THEN Capped(tm1, {p}, t) ELSE tm1
      next == remaining[p] = 1 /\ phase # "ended"
      roots == IF next THEN Roots(NextPlay, class) ELSE {}
      tm3 == Push(tm2, class, roots,
                  [x \in roots |-> t + TimeOf(x[1], x[2]) - FirstTime(x[1])], t)
  IN
  /\ r \in Active /\ ends[r] = Min(Endings)
  /\ phase = "warmup" => \A e \in tm.warm : e.stored > ends[r]
  /\ phase = "profile" => /\ ends[r] <= t0 + Duration
                          /\ \A e \in tm.main : e.stored - offset >= ends[r]
  /\ next => NextPlay <= MaxPlays
  /\ now' = t
  /\ st' = [st EXCEPT ![r] = "done"]
  /\ ends' = [ends EXCEPT ![r] = 0]
  /\ ready' = ready1
  /\ lane' = IF next THEN [lane EXCEPT ![NextPlay] = lane[p]] ELSE lane
  /\ preds' = [x \in Reqs |->
                 IF x \in succ THEN preds[x] - 1
                 ELSE IF next /\ Fresh(x) THEN Cardinality(Edges(NextPlay, class, x[2]))
                 ELSE preds[x]]
  /\ inFlight' = [inFlight EXCEPT ![p] = @ - 1]
  /\ remaining' = [x \in Plays |->
                     IF x = p THEN remaining[p] - 1
                     ELSE IF next /\ x = NextPlay THEN Cardinality(OfPlay(x))
                     ELSE remaining[x]]
  /\ tm' = tm3
  /\ offset' = Shifted(tm3, t, Active = {r})
  /\ UNCHANGED <<t0, phase, class>>

(* The hand-off: the streams keep the waits they had left, the earliest    *)
(* of them fires at once, and idle trees are capped.                       *)
HandOff ==
  LET wait(r) == tm.due[r] - tm.base[r]
      S == UNION {Pending(tm, p) : p \in Plays}
      first == Min({wait(r) : r \in S})
      tm1 == Push(tm, class, S, [r \in S |-> now + wait(r) - first], now)
  IN
  /\ phase = "warmup" /\ Active = {} /\ tm.warm = {}
  /\ t0' = now
  /\ phase' = "profile"
  /\ tm' = Capped(tm1, {p \in Plays : lane[p] # 0 /\ inFlight[p] = 0}, now)
  /\ UNCHANGED <<now, offset, play>>

(* EvEnd, after the completions and timers of the same time. *)
End ==
  /\ phase = "profile"
  /\ \A t \in Endings : t > t0 + Duration
  /\ \A e \in tm.main : e.stored - offset > t0 + Duration
  /\ now' = Later(t0 + Duration)
  /\ phase' = "ended"
  /\ tm' = [tm EXCEPT !.main = {}]
  /\ UNCHANGED <<t0, offset, play>>

NoTimers == [due |-> [r \in Reqs |-> 0], base |-> [r \in Reqs |-> 0],
             armed |-> {}, ver |-> [r \in Reqs |-> 0],
             main |-> {}, warm |-> {}]

(* run() starts a play on every lane at time 0; primers are dispatched at  *)
(* once.                                                                   *)
Init ==
  \E s \in [Lanes -> TStars] :
  LET opened(r) == r[1] \in Lanes
      skipped(x) == {e \in Trace(x[1]).edges : e.to = x[2] /\ class[<<x[1], e.from>>] = 2}
      roots == UNION {Roots(p, class) : p \in Lanes}
  IN
  /\ now = 0 /\ t0 = 0 /\ phase = "warmup" /\ offset = 0
  /\ lane = [p \in Plays |-> IF p \in Lanes THEN p ELSE 0]
  /\ class = [r \in Reqs |-> IF opened(r) THEN Classes(r[1], s[r[1]])[r[2]] ELSE 0]
  /\ st = [r \in Reqs |-> IF class[r] = 1 THEN "active" ELSE "pending"]
  /\ \E d \in [Active -> 1 .. MaxService] :
       ends = [r \in Reqs |-> IF r \in Active THEN d[r] ELSE 0]
  /\ preds = [r \in Reqs |-> IF opened(r) THEN Cardinality(Edges(r[1], class, r[2])) ELSE 0]
  /\ ready = [r \in Reqs |-> IF opened(r) /\ class[r] = 0 /\ skipped(r) # {}
                               THEN Max({0, TimeOf(r[1], r[2]) - s[r[1]]}) ELSE 0]
  /\ inFlight = [p \in Plays |-> Cardinality({r \in Active : r[1] = p})]
  /\ remaining = [p \in Plays |->
                    IF p \in Lanes THEN Cardinality({i \in OfPlay(p) : class[<<p, i>>] # 2}) ELSE 0]
  /\ tm = Push(NoTimers, class, roots,
               [r \in roots |-> Max({FirstAt(r[1], r[2], class, s[r[1]]), ready[r]})], 0)

Next ==
  \/ \E e \in tm.warm : WarmTimer(e)
  \/ \E e \in tm.main : Timer(e) \/ StaleTimer(e)
  \/ \E r \in Active : Complete(r)
  \/ HandOff
  \/ End

Spec == Init /\ [][Next]_replayvars

(* The event loop goes on while a heap holds anything. *)
FairSpec == Spec /\ WF_replayvars(Next)

-----------------------------------------------------------------------------
(* Properties.                                                             *)

Started(r) == lane[r[1]] # 0

Due(r) == Started(r) /\ st[r] = "pending" /\ preds[r] = 0 /\ class[r] # 2

Live(r) == {e \in tm.main \cup tm.warm : e.req = r /\ ~ Stale(e)}

(* Every variable has its type. *)
Entries == [stored : Int, req : Reqs, ver : Nat]

TmType ==
  [due : [Reqs -> Int], base : [Reqs -> Nat], armed : SUBSET Reqs, ver : [Reqs -> Nat],
   main : SUBSET Entries, warm : SUBSET Entries]

ReplayTypeOK ==
  /\ now \in Nat /\ t0 \in Nat /\ offset \in Nat
  /\ phase \in {"warmup", "profile", "ended"}
  /\ lane \in [Plays -> Lanes \cup {0}]
  /\ class \in [Reqs -> 0 .. 3]
  /\ st \in [Reqs -> {"pending", "active", "done"}]
  /\ inFlight \in [Plays -> Nat] /\ remaining \in [Plays -> Nat]
  /\ preds \in [Reqs -> Nat] /\ ready \in [Reqs -> Nat] /\ ends \in [Reqs -> Nat]
  /\ tm \in TmType

(* No wake-up is lost or doubled, however often the idle caps re-arm a     *)
(* timer: until the end, a request whose predecessors are done and that    *)
(* has not started has exactly one live timer in the heaps, others none.   *)
TimerExact ==
  phase # "ended" =>
    \A r \in Reqs : /\ Cardinality(Live(r)) = (IF Due(r) THEN 1 ELSE 0)
                     /\ r \in tm.armed <=> Due(r)

(* preds_left counts the predecessors still to end, also across the        *)
(* snapshot (skipped ones never end) and the warmup (primers do not wait). *)
PredsExact ==
  \A r \in Reqs : Started(r) =>
    preds[r] = Cardinality({e \in Edges(r[1], class, r[2]) : st[<<r[1], e.from>>] # "done"})

(* Play::in_flight and Play::remaining are what they stand for: the tree   *)
(* idle cap and the next play of a lane depend on them.                    *)
CountersExact ==
  \A p \in Plays :
    /\ inFlight[p] = Cardinality({r \in Active : r[1] = p})
    /\ lane[p] # 0 =>
         remaining[p] = Cardinality({r \in Reqs : r[1] = p /\ class[r] # 2 /\ st[r] # "done"})

(* Each lane has one live tree until the run ends. *)
OneLivePlay ==
  phase # "ended" =>
    \A l \in Lanes : Cardinality({p \in Plays : lane[p] = l /\ remaining[p] > 0}) = 1

(* "once a tree has nothing in flight, its earliest pending timer is       *)
(* advanced to at most cap seconds from now".                              *)
TreeGapCapped ==
  phase = "profile" /\ TreeCap > 0 =>
    \A p \in Plays : inFlight[p] = 0 /\ Pending(tm, p) # {} =>
      \E r \in Pending(tm, p) : \E e \in Live(r) : e.stored - offset - now <= TreeCap

(* The replay implements DagReplay. *)
DagState ==
  [x \in Plays \X Ids |->
     IF x \notin Reqs THEN "away"
     ELSE IF lane[x[1]] = 0 \/ class[x] = 2 THEN "away"
     ELSE IF st[x] = "active" THEN "run"
     ELSE IF st[x] = "done" THEN "done"
     ELSE IF Warmup(class[x]) THEN "warm" ELSE "idle"]

Dag == INSTANCE DagReplay WITH
  Needs <- [x \in Plays \X Ids |->
              {e.from : e \in {f \in Trace(x[1]).edges : f.to = x[2]}}],
  state <- DagState,
  open <- [l \in Lanes |-> Max({p \in Plays : lane[p] = l})],
  warm <- (phase = "warmup")

ImplementsDag == Dag!DagSpec

(* The run ends, with nothing left in flight. *)
Drains == <>[](phase = "ended" /\ Active = {})

(* The idle gap of the whole system is capped: with nothing in flight the  *)
(* next timer is never further away than idle_shift_s.                     *)
IdleGapCapped ==
  [][phase = "profile" /\ phase' = "profile" /\ Active = {}
       => now' - now <= IdleShift]_replayvars

(* The per-tree cap only advances timers: the end of a request never makes *)
(* a waiting request fire later.                                           *)
CapAdvances ==
  [][phase = "profile" /\ phase' = "profile" =>
       \A r \in tm.armed \cap tm'.armed :
         \A e \in Live(r), f \in Live(r)' : f.stored - offset' <= e.stored - offset]_replayvars

=============================================================================
