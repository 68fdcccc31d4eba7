---------------------------- MODULE ReplayProofs ----------------------------
(***************************************************************************)
(* Proofs about module Replay, for any traces, number of lanes, times of   *)
(* service and caps: no wake-up of a request is lost or doubled, and the   *)
(* counts that the replay goes by are exact.                               *)
(***************************************************************************)
EXTENDS Replay, Facts

-----------------------------------------------------------------------------
(* The inductive invariant behind the safety properties.                   *)

TimersOf(m) == m.main \cup m.warm

(* A heap has the timers of its class, with at most one of each version; a *)
(* request is armed when its latest version is in a heap.  Nothing re-arms *)
(* a timer of the warmup, which is why the warmup loop need not compare    *)
(* versions.                                                               *)
TimersOK(m) ==
  /\ IsFiniteSet(m.main)
  /\ \A e \in m.main : ~ Warmup(class[e.req])
  /\ \A e \in m.warm : Warmup(class[e.req]) /\ e.ver = m.ver[e.req]
  /\ \A e \in TimersOf(m) : e.ver <= m.ver[e.req]
  /\ \A e, f \in TimersOf(m) : e.req = f.req /\ e.ver = f.ver => e = f

ArmedOK(m) ==
  \A r \in Reqs : r \in m.armed <=> (\E e \in TimersOf(m) : e.req = r /\ e.ver = m.ver[r])

(* Plays start in order; of one that has not, all is as at first.          *)
PlaysOK ==
  /\ \A p \in Plays : lane[p] # 0 <=> p < NextPlay
  /\ \A r \in Reqs : ~ Started(r) => st[r] = "pending" /\ preds[r] = 0 /\ class[r] = 0

(* A request that has started has no predecessors to wait for.             *)
StatesOK ==
  \A r \in Reqs : /\ st[r] # "pending" => class[r] # 2 /\ preds[r] = 0
                  /\ class[r] = 1 => st[r] # "pending"
                  /\ phase # "ended" => (r \in tm.armed <=> Due(r))

ReplayInv ==
  /\ ReplayTypeOK /\ TimersOK(tm) /\ (phase # "ended" => ArmedOK(tm))
  /\ PlaysOK /\ StatesOK /\ PredsExact /\ CountersExact /\ OneLivePlay

(* Shifts move timers forward, and a tree with nothing in flight is        *)
(* capped.                                                                 *)
DueOK(m) ==
  \A e \in m.main : e.ver = m.ver[e.req] => e.stored <= m.due[e.req] + offset

GapInv ==
  /\ DueOK(tm)
  /\ phase = "profile" /\ TreeCap > 0 =>
       \A p \in Plays : inFlight[p] = 0 /\ Pending(tm, p) # {} =>
         \E r \in Pending(tm, p) : tm.due[r] <= now + TreeCap

(* What a request of the warmup needs is part of the warmup.               *)
WarmInv ==
  \A r \in Reqs : class[r] = 3 =>
    \A e \in Edges(r[1], class, r[2]) : Warmup(class[<<r[1], e.from>>])

(* The play of a lane that goes on is its latest.                          *)
LatestInv ==
  /\ \A l \in Lanes : \E p \in Plays : lane[p] = l
  /\ \A p, q \in Plays : lane[p] # 0 /\ lane[p] = lane[q] /\ p < q => remaining[p] = 0

-----------------------------------------------------------------------------
(* Traces, requests and edges.                                             *)

(* The values of a function on a finite set.                               *)
LEMMA ValuesFinite ==
  ASSUME NEW S, IsFiniteSet(S), NEW f
  PROVE  IsFiniteSet({f[x] : x \in S})
PROOF
  <1> DEFINE T == {f[x] : x \in S}
             g == [x \in S |-> f[x]]
  <1>1. g \in Surjection(S, T)
    BY DEF Surjection
  <1> QED
    BY <1>1, FS_Surjection

(* Each trace is one of recorded requests.                                 *)
LEMMA TracesAre ==
  /\ Len(Traces) \in Nat /\ Len(Traces) > 0 /\ DOMAIN Traces = 1 .. Len(Traces)
  /\ \A k \in DOMAIN Traces :
       /\ Traces[k].t \in Seq(Nat) /\ Len(Traces[k].t) \in Nat
       /\ \A e \in Traces[k].edges : e.delay \in Nat
PROOF
  <1> DEFINE R == [t : Seq(Nat), agent : Seq(Nat), edges : SUBSET [from : Nat, to : Nat, delay : Nat]]
  <1>1. Traces \in Seq(R) /\ Len(Traces) \in Nat /\ Len(Traces) > 0 /\ DOMAIN Traces = 1 .. Len(Traces)
    BY ReplayAssumption, LenProperties
  <1> HIDE DEF R
  <1>2. \A k \in DOMAIN Traces : Traces[k] \in R
    BY <1>1, ElementOfSeq
  <1>3. \A k \in DOMAIN Traces : Traces[k].t \in Seq(Nat)
    BY <1>2 DEF R
  <1>4. \A k \in DOMAIN Traces : \A e \in Traces[k].edges : e.delay \in Nat
    BY <1>2 DEF R
  <1> QED
    BY <1>1, <1>3, <1>4, LenProperties

(* Places in any trace.                                                    *)
LEMMA IdsAre ==
  /\ IsFiniteSet(Ids)
  /\ \A k \in DOMAIN Traces : 1 .. Len(Traces[k].t) \subseteq Ids
PROOF
  <1> DEFINE f == [k \in DOMAIN Traces |-> Len(Traces[k].t)]
             L == {Len(Traces[k].t) : k \in DOMAIN Traces}
  <1>1. IsFiniteSet(DOMAIN Traces) /\ 1 \in DOMAIN Traces
    BY TracesAre, FS_Interval
  <1>2. IsFiniteSet({f[k] : k \in DOMAIN Traces})
    BY <1>1, ValuesFinite
  <1>3. L = {f[k] : k \in DOMAIN Traces}
    OBVIOUS
  <1>4. L \in SUBSET Int /\ L # {}
    <2>1. \A k \in DOMAIN Traces : Len(Traces[k].t) \in Int
      BY TracesAre
    <2>2. Len(Traces[1].t) \in L
      BY <1>1
    <2> QED
      BY <2>1, <2>2
  <1>5. Max(L) \in L /\ \A y \in L : Max(L) >= y
    BY <1>2, <1>3, <1>4, LeastGreatest
  <1>6. Ids = 1 .. Max(L)
    BY DEF Ids
  <1>7. \A k \in DOMAIN Traces : Len(Traces[k].t) \in L
    OBVIOUS
  <1> HIDE DEF f, L
  <1>8. Max(L) \in Int
    BY <1>4, <1>5
  <1>9. \A k \in DOMAIN Traces : Len(Traces[k].t) \in Int /\ Len(Traces[k].t) <= Max(L)
    BY <1>4, <1>5, <1>7, <1>8
  <1>10. IsFiniteSet(1 .. Max(L))
    BY <1>8, FS_Interval
  <1>11. \A k \in DOMAIN Traces : 1 .. Len(Traces[k].t) \subseteq 1 .. Max(L)
    BY <1>8, <1>9
  <1> QED
    BY <1>6, <1>10, <1>11

(* The trace of a play.                                                    *)
LEMMA TraceIs ==
  ASSUME NEW p \in Plays
  PROVE  /\ \E k \in DOMAIN Traces : Trace(p) = Traces[k]
         /\ OfPlay(p) = 1 .. Len(Trace(p).t) /\ Len(Trace(p).t) \in Nat
         /\ OfPlay(p) # {} /\ IsFiniteSet(OfPlay(p)) /\ OfPlay(p) \subseteq Ids
         /\ \A i \in OfPlay(p) : TimeOf(p, i) \in Nat
PROOF
  <1> DEFINE k == ((p - 1) % Len(Traces)) + 1
  <1>1. p \in Nat /\ p > 0
    BY ReplayAssumption DEF Plays
  <1>2. k \in DOMAIN Traces /\ Trace(p) = Traces[k]
    BY <1>1, TracesAre DEF Trace
  <1> HIDE DEF k
  <1>3. Trace(p).t \in Seq(Nat) /\ Len(Trace(p).t) \in Nat /\ Len(Trace(p).t) > 0
    BY <1>2, TracesAre, EdgesAssumption
  <1>4. OfPlay(p) = 1 .. Len(Trace(p).t)
    BY <1>3, LenProperties DEF OfPlay
  <1>5. OfPlay(p) # {} /\ IsFiniteSet(OfPlay(p))
    <2>1. 1 \in OfPlay(p)
      BY <1>3, <1>4
    <2>2. IsFiniteSet(1 .. Len(Trace(p).t))
      BY <1>3, FS_Interval
    <2> QED
      BY <1>4, <2>1, <2>2
  <1>6. OfPlay(p) \subseteq Ids
    BY <1>2, <1>4, IdsAre
  <1>7. \A i \in OfPlay(p) : TimeOf(p, i) \in Nat
    BY <1>3, <1>4, ElementOfSeq DEF TimeOf
  <1> QED
    BY <1>2, <1>3, <1>4, <1>5, <1>6, <1>7

(* Requests are pairs of a play and a place in its trace.                  *)
LEMMA ReqIs ==
  /\ \A r \in Reqs : r = <<r[1], r[2]>> /\ r[1] \in Plays /\ r[2] \in OfPlay(r[1]) /\ r[2] \in Ids
  /\ \A p \in Plays : \A i \in OfPlay(p) : <<p, i>> \in Reqs
PROOF
  BY TraceIs DEF Reqs

(* There are finitely many.                                                *)
LEMMA ReqsFinite == IsFiniteSet(Reqs) /\ IsFiniteSet(Plays)
PROOF
  <1>1. IsFiniteSet(Plays)
    BY ReplayAssumption, FS_Interval DEF Plays
  <1>2. IsFiniteSet(Plays \X Ids)
    BY <1>1, IdsAre, FS_Product
  <1>3. Reqs \subseteq Plays \X Ids
    BY DEF Reqs
  <1> QED
    BY <1>1, <1>2, <1>3, FS_Subset

(* The dependencies of a trace.                                            *)
LEMMA EdgeIs ==
  ASSUME NEW p \in Plays
  PROVE  /\ IsFiniteSet(Trace(p).edges)
         /\ \A e \in Trace(p).edges :
              /\ e.from \in OfPlay(p) /\ e.to \in OfPlay(p) /\ e.from # e.to /\ e.delay \in Nat
              /\ <<p, e.from>> \in Reqs /\ <<p, e.to>> \in Reqs
         /\ \A e, f \in Trace(p).edges : e.from = f.from /\ e.to = f.to => e = f
PROOF
  <1>1. PICK k \in DOMAIN Traces : Trace(p) = Traces[k]
    BY TraceIs
  <1>2. OfPlay(p) = DOMAIN Traces[k].t
    BY <1>1 DEF OfPlay
  <1>3. \A e \in Trace(p).edges :
          e.from \in OfPlay(p) /\ e.to \in OfPlay(p) /\ e.from # e.to /\ e.delay \in Nat
    BY <1>1, <1>2, TracesAre, EdgesAssumption
  <1> QED
    BY <1>1, <1>3, EdgesAssumption, ReqIs

-----------------------------------------------------------------------------
(* Timers.                                                                 *)

(* The fields of the timers.                                               *)
LEMMA TmIs ==
  ASSUME NEW m \in TmType
  PROVE  /\ m.due \in [Reqs -> Int] /\ m.base \in [Reqs -> Nat] /\ m.armed \in SUBSET Reqs
         /\ m.ver \in [Reqs -> Nat] /\ m.main \in SUBSET Entries /\ m.warm \in SUBSET Entries
         /\ \A e \in TimersOf(m) : /\ e \in Entries /\ e.req \in Reqs /\ e.ver \in Nat
                                   /\ e.stored \in Int
PROOF
  <1>1. /\ m.due \in [Reqs -> Int] /\ m.base \in [Reqs -> Nat] /\ m.armed \in SUBSET Reqs
        /\ m.ver \in [Reqs -> Nat] /\ m.main \in SUBSET Entries /\ m.warm \in SUBSET Entries
    BY DEF TmType
  <1>2. \A e \in Entries : e.req \in Reqs /\ e.ver \in Nat /\ e.stored \in Int
    BY DEF Entries
  <1> QED
    BY <1>1, <1>2 DEF TimersOf

(* Entries with the same fields are the same.                              *)
LEMMA SameEntry ==
  ASSUME NEW e \in Entries, NEW f \in Entries, e.stored = f.stored, e.req = f.req, e.ver = f.ver
  PROVE  e = f
PROOF
  BY DEF Entries

(* What push_timer does to each field.                                     *)
LEMMA PushFields ==
  ASSUME NEW m, NEW c, NEW S, NEW at, NEW clock
  PROVE  LET n == Push(m, c, S, at, clock) IN
         /\ n.due = [r \in Reqs |-> IF r \in S THEN at[r] ELSE m.due[r]]
         /\ n.base = [r \in Reqs |-> IF r \in S THEN clock ELSE m.base[r]]
         /\ n.armed = m.armed \cup S
         /\ n.ver = [r \in Reqs |-> IF r \in S THEN m.ver[r] + 1 ELSE m.ver[r]]
         /\ n.main = m.main \cup {[stored |-> at[r] + offset, req |-> r, ver |-> m.ver[r] + 1] :
                                    r \in S \ {x \in S : Warmup(c[x])}}
         /\ n.warm = m.warm \cup {[stored |-> at[r] + 0, req |-> r, ver |-> m.ver[r] + 1] :
                                    r \in {x \in S : Warmup(c[x])}}
         /\ n = [due |-> n.due, base |-> n.base, armed |-> n.armed, ver |-> n.ver,
                 main |-> n.main, warm |-> n.warm]
PROOF
  BY DEF Push

(* The times at which requests S are to wake up, and what pushing timers   *)
(* for them makes of the timers m.                                         *)
Times(S, at) == \A r \in S : at[r] \in Int

Pushed(m, n, S, at) ==
  /\ n \in TmType
  /\ n.armed = m.armed \cup S /\ m.main \subseteq n.main /\ m.warm \subseteq n.warm
  /\ \A r \in Reqs : /\ n.ver[r] = IF r \in S THEN m.ver[r] + 1 ELSE m.ver[r]
                     /\ n.due[r] = IF r \in S THEN at[r] ELSE m.due[r]
  /\ \A e \in n.main : e \in m.main \/ /\ e.req \in S /\ ~ Warmup(class[e.req])
                                       /\ e.ver = m.ver[e.req] + 1
                                       /\ e.stored = at[e.req] + offset
  /\ \A e \in n.warm : e \in m.warm \/ /\ e.req \in S /\ Warmup(class[e.req])
                                       /\ e.ver = m.ver[e.req] + 1
                                       /\ e.stored = at[e.req] + 0
  /\ \A r \in S : \E e \in TimersOf(n) : e.req = r /\ e.ver = m.ver[r] + 1

(* Their types stay.                                                       *)
LEMMA PushIs ==
  ASSUME NEW m \in TmType, NEW S \in SUBSET Reqs, NEW at, Times(S, at),
         NEW clock, clock \in Nat, offset \in Nat
  PROVE  Pushed(m, Push(m, class, S, at, clock), S, at)
PROOF
  <1> DEFINE new(r, s) == [stored |-> at[r] + s, req |-> r, ver |-> m.ver[r] + 1]
             W == {x \in S : Warmup(class[x])}
             n == Push(m, class, S, at, clock)
  <1>1. /\ n.due = [r \in Reqs |-> IF r \in S THEN at[r] ELSE m.due[r]]
        /\ n.base = [r \in Reqs |-> IF r \in S THEN clock ELSE m.base[r]]
        /\ n.armed = m.armed \cup S
        /\ n.ver = [r \in Reqs |-> IF r \in S THEN m.ver[r] + 1 ELSE m.ver[r]]
        /\ n.main = m.main \cup {new(r, offset) : r \in S \ W}
        /\ n.warm = m.warm \cup {new(r, 0) : r \in W}
        /\ n = [due |-> n.due, base |-> n.base, armed |-> n.armed, ver |-> n.ver,
                main |-> n.main, warm |-> n.warm]
    BY PushFields
  <1>2. /\ m.due \in [Reqs -> Int] /\ m.base \in [Reqs -> Nat] /\ m.armed \in SUBSET Reqs
        /\ m.ver \in [Reqs -> Nat] /\ m.main \in SUBSET Entries /\ m.warm \in SUBSET Entries
    BY TmIs
  <1>3. W \subseteq S /\ \A r \in S : r \in W <=> Warmup(class[r])
    OBVIOUS
  <1>4. \A r \in S : \A s \in Nat : /\ new(r, s) \in Entries /\ new(r, s).req = r
                                    /\ new(r, s).ver = m.ver[r] + 1 /\ new(r, s).stored = at[r] + s
    BY <1>2 DEF Entries, Times
  <1> HIDE DEF new, W, n
  <1>5. n.due \in [Reqs -> Int] /\ n.base \in [Reqs -> Nat] /\ n.armed \in SUBSET Reqs
    BY <1>1, <1>2 DEF Times
  <1>6. n.ver \in [Reqs -> Nat]
    BY <1>1, <1>2
  <1>7. n.main \in SUBSET Entries /\ n.warm \in SUBSET Entries
    <2>1. \A r \in S : new(r, offset) \in Entries /\ new(r, 0) \in Entries
      BY <1>4
    <2>2. n.main \in SUBSET Entries
      BY <1>1, <1>2, <2>1
    <2>3. n.warm \in SUBSET Entries
      BY <1>1, <1>2, <1>3, <2>1
    <2> QED
      BY <2>2, <2>3
  <1>8. n \in TmType
    BY <1>1, <1>5, <1>6, <1>7 DEF TmType
  <1>9. \A r \in Reqs : /\ n.ver[r] = IF r \in S THEN m.ver[r] + 1 ELSE m.ver[r]
                        /\ n.due[r] = IF r \in S THEN at[r] ELSE m.due[r]
    BY <1>1
  <1>10. \A e \in n.main : e \in m.main \/ /\ e.req \in S /\ ~ Warmup(class[e.req])
                                           /\ e.ver = m.ver[e.req] + 1
                                           /\ e.stored = at[e.req] + offset
    BY <1>1, <1>3, <1>4
  <1>11. \A e \in n.warm : e \in m.warm \/ /\ e.req \in S /\ Warmup(class[e.req])
                                           /\ e.ver = m.ver[e.req] + 1
                                           /\ e.stored = at[e.req] + 0
    BY <1>1, <1>3, <1>4
  <1>12. \A r \in S : \E e \in TimersOf(n) : e.req = r /\ e.ver = m.ver[r] + 1
    <2> SUFFICES ASSUME NEW r \in S
                 PROVE  \E e \in TimersOf(n) : e.req = r /\ e.ver = m.ver[r] + 1
      OBVIOUS
    <2>1. CASE r \in W
      <3>1. new(r, 0) \in TimersOf(n)
        BY <1>1, <2>1 DEF TimersOf
      <3> QED
        BY <1>4, <3>1
    <2>2. CASE r \notin W
      <3>1. new(r, offset) \in TimersOf(n)
        BY <1>1, <2>2 DEF TimersOf
      <3> QED
        BY <1>4, <3>1
    <2> QED
      BY <2>1, <2>2
  <1>13. n.armed = m.armed \cup S /\ m.main \subseteq n.main /\ m.warm \subseteq n.warm
    BY <1>1
  <1>14. Pushed(m, n, S, at)
    BY <1>8, <1>9, <1>10, <1>11, <1>12, <1>13 DEF Pushed
  <1> QED
    BY <1>14 DEF n

(* Pushing timers keeps them in order, if no request of the warmup has one *)
(* already.                                                                *)
LEMMA PushKeeps ==
  ASSUME NEW m \in TmType, NEW S \in SUBSET Reqs, NEW at, NEW n \in TmType, Pushed(m, n, S, at),
         TimersOK(m), \A e \in m.warm : e.req \notin S
  PROVE  TimersOK(n) /\ (ArmedOK(m) => ArmedOK(n))
PROOF
  <1>1. /\ n \in TmType
        /\ n.armed = m.armed \cup S /\ m.main \subseteq n.main /\ m.warm \subseteq n.warm
        /\ \A r \in Reqs : n.ver[r] = IF r \in S THEN m.ver[r] + 1 ELSE m.ver[r]
        /\ \A e \in n.main : e \in m.main \/ /\ e.req \in S /\ ~ Warmup(class[e.req])
                                             /\ e.ver = m.ver[e.req] + 1
                                             /\ e.stored = at[e.req] + offset
        /\ \A e \in n.warm : e \in m.warm \/ /\ e.req \in S /\ Warmup(class[e.req])
                                             /\ e.ver = m.ver[e.req] + 1
                                             /\ e.stored = at[e.req] + 0
        /\ \A r \in S : \E e \in TimersOf(n) : e.req = r /\ e.ver = m.ver[r] + 1
    BY DEF Pushed
  <1>2. /\ m.armed \in SUBSET Reqs /\ m.ver \in [Reqs -> Nat]
        /\ \A e \in TimersOf(m) : e \in Entries /\ e.req \in Reqs /\ e.ver \in Nat
    BY TmIs
  <1>3. \A e \in TimersOf(n) : e \in Entries /\ e.req \in Reqs /\ e.ver \in Nat
    BY <1>1, TmIs
  <1>4. /\ \A e \in m.main : ~ Warmup(class[e.req])
        /\ \A e \in m.warm : Warmup(class[e.req]) /\ e.ver = m.ver[e.req]
        /\ \A e \in TimersOf(m) : e.ver <= m.ver[e.req]
        /\ \A e, f \in TimersOf(m) : e.req = f.req /\ e.ver = f.ver => e = f
    BY DEF TimersOK
  <1>5. \A e \in n.main : ~ Warmup(class[e.req])
    BY <1>1, <1>4
  <1>6. \A e \in n.warm : Warmup(class[e.req]) /\ e.ver = n.ver[e.req]
    <2> SUFFICES ASSUME NEW e \in n.warm
                 PROVE  Warmup(class[e.req]) /\ e.ver = n.ver[e.req]
      OBVIOUS
    <2>1. e.req \in Reqs
      BY <1>3 DEF TimersOf
    <2> QED
      BY <1>1, <1>4, <2>1
  <1>7. \A e \in TimersOf(n) : e \in TimersOf(m) \/ (e.req \in S /\ e.ver = m.ver[e.req] + 1)
    BY <1>1 DEF TimersOf
  <1>8. \A e \in TimersOf(n) : e.ver <= n.ver[e.req]
    <2> SUFFICES ASSUME NEW e \in TimersOf(n)
                 PROVE  e.ver <= n.ver[e.req]
      OBVIOUS
    <2>1. e.req \in Reqs /\ e.ver \in Nat /\ m.ver[e.req] \in Nat
      BY <1>2, <1>3
    <2>2. n.ver[e.req] = IF e.req \in S THEN m.ver[e.req] + 1 ELSE m.ver[e.req]
      BY <1>1, <2>1
    <2> QED
      BY <1>4, <1>7, <2>1, <2>2
  <1>9. ASSUME NEW e \in TimersOf(n), NEW f \in TimersOf(n), e.req = f.req, e.ver = f.ver
        PROVE  e = f
    <2>1. e \in Entries /\ f \in Entries /\ e.req \in Reqs /\ m.ver[e.req] \in Nat /\ e.ver \in Nat
      BY <1>2, <1>3
    <2>2. CASE e \in TimersOf(m)
      <3>1. f \in TimersOf(m)
        BY <1>4, <1>7, <1>9, <2>1, <2>2
      <3> QED
        BY <1>4, <1>9, <2>2, <3>1
    <2>3. CASE e \notin TimersOf(m)
      <3>1. e.ver = m.ver[e.req] + 1
        BY <1>7, <2>3
      <3>2. f \notin TimersOf(m)
        <4>1. f \in TimersOf(m) => f.ver <= m.ver[f.req]
          BY <1>4
        <4>2. f.ver = m.ver[e.req] + 1 /\ f.req = e.req
          BY <1>9, <3>1
        <4> QED
          BY <2>1, <4>1, <4>2
      <3>3. e \notin m.main /\ e \notin m.warm /\ f \notin m.main /\ f \notin m.warm
        BY <2>3, <3>2 DEF TimersOf
      <3>4. CASE Warmup(class[e.req])
        <4>1. e \in n.warm /\ f \in n.warm
          BY <1>5, <1>9, <3>4 DEF TimersOf
        <4>2. e.stored = f.stored
          BY <1>1, <1>9, <3>3, <4>1
        <4> QED
          BY <1>9, <2>1, <4>2, SameEntry
      <3>5. CASE ~ Warmup(class[e.req])
        <4>1. e \in n.main /\ f \in n.main
          BY <1>6, <1>9, <3>5 DEF TimersOf
        <4>2. e.stored = f.stored
          BY <1>1, <1>9, <3>3, <4>1
        <4> QED
          BY <1>9, <2>1, <4>2, SameEntry
      <3> QED
        BY <3>4, <3>5
    <2> QED
      BY <2>2, <2>3
  <1>10. ASSUME ArmedOK(m), NEW r \in Reqs
         PROVE  r \in n.armed <=> (\E e \in TimersOf(n) : e.req = r /\ e.ver = n.ver[r])
    <2>1. r \in m.armed <=> (\E e \in TimersOf(m) : e.req = r /\ e.ver = m.ver[r])
      BY <1>10 DEF ArmedOK
    <2>2. CASE r \in S
      <3>1. n.ver[r] = m.ver[r] + 1 /\ r \in n.armed
        BY <1>1, <2>2
      <3> QED
        BY <1>1, <2>2, <3>1
    <2>3. CASE r \notin S
      <3>1. n.ver[r] = m.ver[r] /\ (r \in n.armed <=> r \in m.armed)
        BY <1>1, <2>3
      <3>2. \A e \in TimersOf(n) : e.req = r => e \in TimersOf(m)
        BY <1>7, <2>3
      <3>3. TimersOf(m) \subseteq TimersOf(n)
        BY <1>1 DEF TimersOf
      <3> QED
        BY <2>1, <3>1, <3>2, <3>3
    <2> QED
      BY <2>2, <2>3
  <1>11. TimersOK(n)
    <2> DEFINE N == n.main \ m.main
               f == [e \in N |-> e.req]
    <2>1. \A e \in N : e.req \in S /\ e.ver = m.ver[e.req] + 1
      BY <1>1
    <2>2. \A e, g \in N : e.req = g.req => e = g
      BY <1>9, <2>1 DEF TimersOf
    <2>3. f \in Injection(N, Reqs)
      BY <2>1, <2>2 DEF Injection, IsInjective
    <2>4. IsFiniteSet(N)
      BY <2>3, ReqsFinite, FS_Injection
    <2>5. IsFiniteSet(m.main)
      BY DEF TimersOK
    <2>6. n.main \subseteq m.main \cup N
      OBVIOUS
    <2>7. IsFiniteSet(n.main)
      BY <2>4, <2>5, <2>6, FS_Union, FS_Subset
    <2> QED
      BY <1>5, <1>6, <1>8, <1>9, <2>7 DEF TimersOK
  <1>12. ArmedOK(m) => ArmedOK(n)
    BY <1>10 DEF ArmedOK
  <1> QED
    BY <1>11, <1>12

-----------------------------------------------------------------------------
(* A timer fires.                                                          *)

(* The clock moves forward.                                                *)
LEMMA LaterIs ==
  ASSUME now \in Nat, NEW t \in Int
  PROVE  Later(t) \in Nat /\ Later(t) >= now /\ Later(t) >= t
PROOF
  <1>1. IsFiniteSet({now, t}) /\ {now, t} \in SUBSET Int /\ {now, t} # {}
    BY FS_Singleton, FS_AddElement, IsFiniteSet({now} \cup {t}), {now, t} = {now} \cup {t}
  <1>2. Max({now, t}) \in {now, t} /\ \A y \in {now, t} : Max({now, t}) >= y
    BY <1>1, LeastGreatest
  <1> QED
    BY <1>2 DEF Later

(* What the firing of a timer does to each field.                          *)
LEMMA FiredIs ==
  ASSUME tm \in TmType, NEW e \in TimersOf(tm)
  PROVE  /\ Fired(e) \in TmType
         /\ Fired(e).armed = tm.armed \ {e.req} /\ Fired(e).ver = tm.ver
         /\ Fired(e).main = tm.main \ {e} /\ Fired(e).warm = tm.warm \ {e}
PROOF
  <1>1. /\ tm.due \in [Reqs -> Int] /\ tm.base \in [Reqs -> Nat] /\ tm.armed \in SUBSET Reqs
        /\ tm.ver \in [Reqs -> Nat] /\ tm.main \in SUBSET Entries /\ tm.warm \in SUBSET Entries
    BY TmIs
  <1>2. /\ [tm.due EXCEPT ![e.req] = 0] \in [Reqs -> Int]
        /\ [tm.base EXCEPT ![e.req] = 0] \in [Reqs -> Nat]
        /\ tm.armed \ {e.req} \in SUBSET Reqs
        /\ tm.main \ {e} \in SUBSET Entries /\ tm.warm \ {e} \in SUBSET Entries
    <2>1. [tm.due EXCEPT ![e.req] = 0] \in [Reqs -> Int]
      <3>1. 0 \in Int
        OBVIOUS
      <3> QED
        BY <1>1, <3>1, Zenon
    <2>2. [tm.base EXCEPT ![e.req] = 0] \in [Reqs -> Nat]
      BY <1>1
    <2>3. tm.armed \ {e.req} \in SUBSET Reqs
      BY <1>1
    <2>4. tm.main \ {e} \in SUBSET Entries /\ tm.warm \ {e} \in SUBSET Entries
      BY <1>1
    <2> QED
      BY <2>1, <2>2, <2>3, <2>4
  <1>3. Fired(e) \in TmType
    BY <1>1, <1>2 DEF Fired, TmType
  <1> QED
    BY <1>3 DEF Fired

(* Timers that go leave the others in order.                               *)
LEMMA TimersGo ==
  ASSUME NEW m, NEW n, TimersOK(m), n.ver = m.ver, n.main \subseteq m.main, n.warm \subseteq m.warm
  PROVE  TimersOK(n)
PROOF
  <1>1. TimersOf(n) \subseteq TimersOf(m)
    BY DEF TimersOf
  <1>2. IsFiniteSet(m.main)
    BY DEF TimersOK
  <1>3. IsFiniteSet(n.main)
    BY <1>2, FS_Subset
  <1> QED
    BY <1>1, <1>3 DEF TimersOK

(* A live timer is that of a request that is due.                          *)
LEMMA LiveDue ==
  ASSUME ReplayInv, phase # "ended", NEW e \in TimersOf(tm), e.ver = tm.ver[e.req]
  PROVE  /\ e.req \in Reqs /\ e.req \in tm.armed /\ Due(e.req)
         /\ \A f \in TimersOf(tm) : f.req = e.req /\ f.ver = tm.ver[e.req] => f = e
PROOF
  <1>1. tm \in TmType /\ TimersOK(tm) /\ ArmedOK(tm) /\ StatesOK
    BY DEF ReplayInv, ReplayTypeOK
  <1>2. e.req \in Reqs
    BY <1>1, TmIs
  <1>3. e.req \in tm.armed
    BY <1>1, <1>2 DEF ArmedOK
  <1>4. Due(e.req)
    BY <1>1, <1>2, <1>3 DEF StatesOK
  <1> QED
    BY <1>1, <1>2, <1>3, <1>4 DEF TimersOK

(* The request of a live timer starts.                                     *)
LEMMA RunKeeps ==
  ASSUME ReplayInv, phase # "ended", NEW e \in TimersOf(tm), e.ver = tm.ver[e.req],
         now' \in Nat, tm' = Fired(e), Start(e.req, now'), UNCHANGED <<t0, phase, offset>>
  PROVE  ReplayInv'
PROOF
  <1> DEFINE r == e.req
  <1>1. /\ tm \in TmType /\ TimersOK(tm) /\ ArmedOK(tm) /\ StatesOK /\ PlaysOK
        /\ PredsExact /\ CountersExact /\ OneLivePlay /\ ReplayTypeOK
    BY DEF ReplayInv, ReplayTypeOK
  <1>2. /\ r \in Reqs /\ r \in tm.armed /\ Due(r)
        /\ \A f \in TimersOf(tm) : f.req = r /\ f.ver = tm.ver[r] => f = e
    BY LiveDue
  <1>3. /\ tm' \in TmType /\ tm'.armed = tm.armed \ {r} /\ tm'.ver = tm.ver
        /\ tm'.main = tm.main \ {e} /\ tm'.warm = tm.warm \ {e}
    BY <1>1, FiredIs
  <1>4. /\ st' = [st EXCEPT ![r] = "active"]
        /\ inFlight' = [inFlight EXCEPT ![r[1]] = inFlight[r[1]] + 1]
        /\ UNCHANGED <<lane, class, preds, ready, remaining, t0, phase, offset>>
    BY DEF Start
  <1>5. PICK d \in 1 .. MaxService : ends' = [ends EXCEPT ![r] = now' + d]
    BY DEF Start
  <1>6. st[r] = "pending" /\ lane[r[1]] # 0 /\ preds[r] = 0 /\ class[r] # 2
    BY <1>2 DEF Due, Started
  <1>7. e.req = r /\ e.ver = tm.ver[r]
    OBVIOUS
  <1> HIDE DEF r
  <1>8. r[1] \in Plays
    BY <1>2, ReqIs
  <1>9. st \in [Reqs -> {"pending", "active", "done"}]
    BY <1>1 DEF ReplayTypeOK
  <1>10. /\ st'[r] = "active" /\ \A x \in Reqs : x # r => st'[x] = st[x]
         /\ \A x \in Reqs : st'[x] = "done" <=> st[x] = "done"
    BY <1>2, <1>4, <1>6, <1>9
  <1>11. NextPlay' = NextPlay
    BY <1>4 DEF NextPlay
  <1>12. ReplayTypeOK'
    <2>1. inFlight \in [Plays -> Nat] /\ ends \in [Reqs -> Nat]
      BY <1>1 DEF ReplayTypeOK
    <2>2. st' \in [Reqs -> {"pending", "active", "done"}]
      BY <1>4, <1>9
    <2>3. inFlight' \in [Plays -> Nat]
      <3>1. inFlight[r[1]] + 1 \in Nat
        BY <1>8, <2>1
      <3> QED
        BY <1>4, <2>1, <3>1, Zenon
    <2>4. now' + d \in Nat
      <3>1. MaxService \in Nat
        BY ReplayAssumption
      <3>2. d \in Nat
        BY <3>1
      <3>3. \A a, b \in Nat : a + b \in Nat
        OBVIOUS
      <3>4. now' \in Nat
        OBVIOUS
      <3> QED
        BY <3>2, <3>3, <3>4, Zenon
    <2>5. ends' \in [Reqs -> Nat]
      BY <1>5, <2>1, <2>4
    <2> QED
      BY <1>1, <1>3, <1>4, <2>2, <2>3, <2>5 DEF ReplayTypeOK
  <1>13. TimersOK(tm)'
    <2>1. TimersOK(tm')
      BY <1>1, <1>3, TimersGo
    <2> QED
      BY <1>4, <2>1 DEF TimersOK, TimersOf, Warmup
  <1>14. ArmedOK(tm)'
    <2> SUFFICES ASSUME NEW x \in Reqs
                 PROVE  x \in tm'.armed <=> (\E f \in TimersOf(tm)' : f.req = x /\ f.ver = tm'.ver[x])
      BY DEF ArmedOK
    <2>1. TimersOf(tm)' = TimersOf(tm) \ {e}
      BY <1>3 DEF TimersOf
    <2>2. x \in tm.armed <=> (\E f \in TimersOf(tm) : f.req = x /\ f.ver = tm.ver[x])
      BY <1>1 DEF ArmedOK
    <2> QED
      BY <1>2, <1>3, <1>7, <2>1, <2>2
  <1>15. PlaysOK'
    BY <1>1, <1>4, <1>6, <1>10, <1>11 DEF PlaysOK, Started
  <1>16. StatesOK'
    <2> SUFFICES ASSUME NEW x \in Reqs
                 PROVE  /\ st'[x] # "pending" => class[x] # 2 /\ preds[x] = 0
                        /\ class[x] = 1 => st'[x] # "pending"
                        /\ phase # "ended" => (x \in tm'.armed <=> Due(x)')
      BY <1>4 DEF StatesOK
    <2>1. /\ st[x] # "pending" => class[x] # 2 /\ preds[x] = 0
          /\ class[x] = 1 => st[x] # "pending"
          /\ phase # "ended" => (x \in tm.armed <=> Due(x))
      BY <1>1 DEF StatesOK
    <2>2. Due(x)' <=> Started(x) /\ st'[x] = "pending" /\ preds[x] = 0 /\ class[x] # 2
      BY <1>4 DEF Due, Started
    <2> QED
      BY <1>3, <1>6, <1>10, <2>1, <2>2 DEF Due
  <1>17. PredsExact'
    <2>1. \A x \in Reqs : \A f \in Edges(x[1], class, x[2]) :
            <<x[1], f.from>> \in Reqs /\ (st'[<<x[1], f.from>>] = "done" <=> st[<<x[1], f.from>>] = "done")
      BY <1>10, EdgeIs, ReqIs DEF Edges
    <2>2. \A x \in Reqs : {f \in Edges(x[1], class, x[2]) : st'[<<x[1], f.from>>] # "done"}
                          = {f \in Edges(x[1], class, x[2]) : st[<<x[1], f.from>>] # "done"}
      BY <2>1
    <2> QED
      BY <1>1, <1>4, <2>2 DEF PredsExact, Started
  <1>18. CountersExact'
    <2> SUFFICES ASSUME NEW p \in Plays
                 PROVE  /\ inFlight'[p] = Cardinality({x \in Active' : x[1] = p})
                        /\ lane[p] # 0 =>
                             remaining[p] = Cardinality({x \in Reqs : x[1] = p /\ class[x] # 2
                                                                      /\ st'[x] # "done"})
      BY <1>4 DEF CountersExact
    <2>1. /\ inFlight[p] = Cardinality({x \in Active : x[1] = p})
          /\ lane[p] # 0 => remaining[p] = Cardinality({x \in Reqs : x[1] = p /\ class[x] # 2
                                                                     /\ st[x] # "done"})
      BY <1>1 DEF CountersExact
    <2>2. {x \in Reqs : x[1] = p /\ class[x] # 2 /\ st'[x] # "done"}
          = {x \in Reqs : x[1] = p /\ class[x] # 2 /\ st[x] # "done"}
      BY <1>10
    <2>3. Active' = Active \cup {r} /\ r \notin Active
      BY <1>2, <1>6, <1>10 DEF Active
    <2>4. IsFiniteSet({x \in Active : x[1] = p})
      BY ReqsFinite, FS_Subset DEF Active
    <2>5. CASE p = r[1]
      <3>1. {x \in Active' : x[1] = p} = {x \in Active : x[1] = p} \cup {r}
        BY <2>3, <2>5
      <3>2. Cardinality({x \in Active' : x[1] = p}) = Cardinality({x \in Active : x[1] = p}) + 1
        BY <2>3, <2>4, <3>1, FS_AddElement
      <3>3. inFlight'[p] = inFlight[p] + 1
        BY <1>1, <1>4, <1>8, <2>5 DEF ReplayTypeOK
      <3> QED
        BY <2>1, <2>2, <3>2, <3>3
    <2>6. CASE p # r[1]
      <3>1. {x \in Active' : x[1] = p} = {x \in Active : x[1] = p}
        BY <2>3, <2>6
      <3>2. inFlight'[p] = inFlight[p]
        BY <1>1, <1>4, <1>8, <2>6 DEF ReplayTypeOK
      <3> QED
        BY <2>1, <2>2, <3>1, <3>2
    <2> QED
      BY <2>5, <2>6
  <1>19. OneLivePlay'
    BY <1>1, <1>4 DEF OneLivePlay
  <1> QED
    BY <1>12, <1>13, <1>14, <1>15, <1>16, <1>17, <1>18, <1>19 DEF ReplayInv

(* Timers may change as long as no request gains or loses its own.         *)
LEMMA TimersChange ==
  ASSUME ReplayInv, UNCHANGED play, now' \in Nat, t0' \in Nat, offset' \in Nat,
         phase' \in {"warmup", "profile", "ended"}, tm' \in TmType, TimersOK(tm)',
         phase' # "ended" => phase # "ended" /\ ArmedOK(tm)' /\ tm'.armed = tm.armed
  PROVE  ReplayInv'
PROOF
  <1>1. /\ StatesOK /\ PlaysOK /\ PredsExact /\ CountersExact /\ OneLivePlay /\ ReplayTypeOK
    BY DEF ReplayInv
  <1>2. UNCHANGED <<lane, class, st, preds, ready, ends, inFlight, remaining>>
    BY DEF play
  <1>3. ReplayTypeOK'
    BY <1>1, <1>2 DEF ReplayTypeOK
  <1>4. PlaysOK'
    BY <1>1, <1>2 DEF PlaysOK, NextPlay, Started
  <1>5. StatesOK'
    BY <1>1, <1>2 DEF StatesOK, Due, Started
  <1>6. PredsExact'
    BY <1>1, <1>2 DEF PredsExact, Started
  <1>7. CountersExact'
    BY <1>1, <1>2 DEF CountersExact, Active
  <1>8. OneLivePlay'
    BY <1>1, <1>2 DEF OneLivePlay
  <1>9. phase' # "ended" => ArmedOK(tm)'
    OBVIOUS
  <1> QED
    BY <1>3, <1>4, <1>5, <1>6, <1>7, <1>8, <1>9 DEF ReplayInv

(* A timer of the warmup fires.                                            *)
LEMMA WarmTimerKeeps ==
  ASSUME ReplayInv, NEW e \in tm.warm, WarmTimer(e)
  PROVE  ReplayInv'
PROOF
  <1>1. e \in TimersOf(tm) /\ e.ver = tm.ver[e.req]
    BY DEF ReplayInv, TimersOK, TimersOf
  <1>2. now \in Nat /\ e.stored \in Int
    BY <1>1, TmIs DEF ReplayInv, ReplayTypeOK
  <1>3. now' \in Nat
    BY <1>2, LaterIs DEF WarmTimer
  <1> QED
    BY <1>1, <1>3, RunKeeps DEF WarmTimer

(* A timer fires.                                                          *)
LEMMA TimerKeeps ==
  ASSUME ReplayInv, NEW e \in tm.main, Timer(e)
  PROVE  ReplayInv'
PROOF
  <1>1. e \in TimersOf(tm) /\ e.ver = tm.ver[e.req] /\ phase # "ended"
    BY DEF Timer, TakesTimer, Stale, TimersOf
  <1>2. now \in Nat /\ e.stored \in Int /\ offset \in Nat
    BY <1>1, TmIs DEF ReplayInv, ReplayTypeOK
  <1>3. now' \in Nat
    <2>1. now' = Later(e.stored - offset) /\ e.stored - offset \in Int
      BY <1>2 DEF Timer
    <2> QED
      BY <1>2, <2>1, LaterIs
  <1> QED
    BY <1>1, <1>3, RunKeeps DEF Timer

(* A timer that is not live is taken from the heap.                        *)
LEMMA StaleTimerKeeps ==
  ASSUME ReplayInv, NEW e \in tm.main, StaleTimer(e)
  PROVE  ReplayInv'
PROOF
  <1>1. ReplayTypeOK /\ TimersOK(tm) /\ (phase # "ended" => ArmedOK(tm))
    BY DEF ReplayInv
  <1>2. /\ UNCHANGED <<now, t0, phase, offset, play>> /\ e.ver # tm.ver[e.req]
        /\ tm' = [tm EXCEPT !.main = tm.main \ {e}] /\ phase # "ended"
    BY DEF StaleTimer, Stale, TakesTimer
  <1>3. /\ tm.due \in [Reqs -> Int] /\ tm.base \in [Reqs -> Nat] /\ tm.armed \in SUBSET Reqs
        /\ tm.ver \in [Reqs -> Nat] /\ tm.main \in SUBSET Entries /\ tm.warm \in SUBSET Entries
    BY <1>1, TmIs DEF ReplayTypeOK
  <1>4. tm' \in TmType
    <2>1. tm.main \ {e} \in SUBSET Entries
      BY <1>3
    <2>2. tm \in TmType
      BY <1>1 DEF ReplayTypeOK
    <2> QED
      BY <1>2, <2>1, <2>2 DEF TmType
  <1>5. /\ tm'.main = tm.main \ {e} /\ tm'.warm = tm.warm /\ tm'.ver = tm.ver
        /\ tm'.armed = tm.armed
    BY <1>1, <1>2 DEF ReplayTypeOK, TmType
  <1>6. UNCHANGED class
    BY <1>2 DEF play
  <1>7. TimersOK(tm)'
    <2>1. TimersOK(tm')
      BY <1>1, <1>5, TimersGo
    <2> QED
      BY <1>6, <2>1 DEF TimersOK, TimersOf, Warmup
  <1>8. ArmedOK(tm)'
    <2> SUFFICES ASSUME NEW x \in Reqs
                 PROVE  x \in tm'.armed <=> (\E f \in TimersOf(tm)' : f.req = x /\ f.ver = tm'.ver[x])
      BY DEF ArmedOK
    <2>1. x \in tm.armed <=> (\E f \in TimersOf(tm) : f.req = x /\ f.ver = tm.ver[x])
      BY <1>1, <1>2 DEF ArmedOK
    <2>2. \A f : f \in TimersOf(tm) /\ f # e => f \in TimersOf(tm)'
      BY <1>5 DEF TimersOf
    <2>3. \A f : f \in TimersOf(tm)' => f \in TimersOf(tm)
      BY <1>5 DEF TimersOf
    <2> QED
      BY <1>2, <1>5, <2>1, <2>2, <2>3
  <1>9. now' \in Nat /\ t0' \in Nat /\ offset' \in Nat /\ phase' \in {"warmup", "profile", "ended"}
    BY <1>1, <1>2 DEF ReplayTypeOK
  <1> QED
    BY <1>2, <1>4, <1>5, <1>7, <1>8, <1>9, TimersChange

(* The end of the run.                                                     *)
LEMMA EndKeeps ==
  ASSUME ReplayInv, End
  PROVE  ReplayInv'
PROOF
  <1>1. ReplayTypeOK /\ TimersOK(tm)
    BY DEF ReplayInv
  <1>2. /\ UNCHANGED <<t0, offset, play>> /\ phase' = "ended"
        /\ tm' = [tm EXCEPT !.main = {}] /\ now' = Later(t0 + Duration)
    BY DEF End
  <1>3. tm \in TmType
    BY <1>1 DEF ReplayTypeOK
  <1>4. tm' \in TmType
    <2>1. {} \in SUBSET Entries
      OBVIOUS
    <2> QED
      BY <1>2, <1>3, <2>1 DEF TmType
  <1>5. tm'.main = {} /\ tm'.warm = tm.warm /\ tm'.ver = tm.ver
    BY <1>2, <1>3 DEF TmType
  <1>6. UNCHANGED class
    BY <1>2 DEF play
  <1>7. TimersOK(tm)'
    <2>1. TimersOK(tm')
      BY <1>1, <1>5, TimersGo
    <2> QED
      BY <1>6, <2>1 DEF TimersOK, TimersOf, Warmup
  <1>8. now' \in Nat
    <2>1. t0 + Duration \in Int /\ now \in Nat
      BY <1>1, ReplayAssumption DEF ReplayTypeOK
    <2> QED
      BY <1>2, <2>1, LaterIs
  <1>9. t0' \in Nat /\ offset' \in Nat
    BY <1>1, <1>2 DEF ReplayTypeOK
  <1> QED
    BY <1>2, <1>4, <1>7, <1>8, <1>9, TimersChange

-----------------------------------------------------------------------------
(* The idle caps.                                                          *)

(* The least due time of the waiting requests of a play is that of one.    *)
LEMMA PendingLeast ==
  ASSUME NEW m \in TmType, NEW p \in Plays, Pending(m, p) # {}
  PROVE  /\ Min({m.due[r] : r \in Pending(m, p)}) \in Int
         /\ \E r \in Pending(m, p) : m.due[r] = Min({m.due[x] : x \in Pending(m, p)})
PROOF
  <1> DEFINE D == {m.due[r] : r \in Pending(m, p)}
  <1>1. m.due \in [Reqs -> Int]
    BY TmIs
  <1>2. Pending(m, p) \subseteq Reqs
    BY DEF Pending
  <1>3. IsFiniteSet(Pending(m, p))
    BY <1>2, ReqsFinite, FS_Subset
  <1>4. IsFiniteSet(D)
    BY <1>3, ValuesFinite
  <1>5. D \in SUBSET Int /\ D # {}
    BY <1>1, <1>2
  <1>6. Min(D) \in D
    BY <1>4, <1>5, LeastGreatest
  <1> QED
    BY <1>5, <1>6

(* Capping plays re-arms waiting requests of theirs only, and leaves one   *)
(* of each that is due within the cap.                                     *)
LEMMA CappedIs ==
  ASSUME NEW m \in TmType, NEW P \in SUBSET Plays, NEW clock \in Nat, offset \in Nat
  PROVE  \E S \in SUBSET m.armed : \E at :
           /\ Pushed(m, Capped(m, P, clock), S, at) /\ Times(S, at)
           /\ \A r \in S : r[1] \in P /\ ~ Warmup(class[r])
           /\ TreeCap > 0 => \A p \in P : Pending(m, p) # {} =>
                \E r \in Pending(m, p) : Capped(m, P, clock).due[r] <= clock + TreeCap
PROOF
  <1> DEFINE over(p) == Min({m.due[r] : r \in Pending(m, p)}) - clock - TreeCap
             late == {p \in P : TreeCap > 0 /\ Pending(m, p) # {} /\ over(p) > 0}
             S == UNION {Pending(m, p) : p \in late}
             at == [r \in S |-> m.due[r] - over(r[1])]
             n == Capped(m, P, clock)
  <1>1. n = Push(m, class, S, at, clock)
    BY DEF Capped
  <1>2. m.due \in [Reqs -> Int] /\ m.armed \in SUBSET Reqs /\ TreeCap \in Nat
    BY TmIs, ReplayAssumption
  <1>3. \A p \in Plays : Pending(m, p) # {} =>
          /\ over(p) \in Int
          /\ \E r \in Pending(m, p) : m.due[r] - clock - TreeCap = over(p)
    <2> SUFFICES ASSUME NEW p \in Plays, Pending(m, p) # {}
                 PROVE  /\ over(p) \in Int
                        /\ \E r \in Pending(m, p) : m.due[r] - clock - TreeCap = over(p)
      OBVIOUS
    <2>1. Min({m.due[r] : r \in Pending(m, p)}) \in Int
      BY PendingLeast
    <2>2. PICK r \in Pending(m, p) : m.due[r] = Min({m.due[x] : x \in Pending(m, p)})
      BY PendingLeast
    <2>3. m.due[r] - clock - TreeCap = over(p)
      BY <2>2
    <2>4. over(p) \in Int
      BY <1>2, <2>1
    <2> QED
      BY <2>3, <2>4
  <1>4. \A r \in S : r \in m.armed /\ r \in Reqs /\ r[1] \in late /\ ~ Warmup(class[r])
    BY DEF Pending
  <1>5. S \in SUBSET Reqs /\ S \in SUBSET m.armed
    BY <1>4
  <1>6. \A p \in late : p \in P /\ p \in Plays /\ Pending(m, p) # {} /\ Pending(m, p) \subseteq S
    OBVIOUS
  <1>7. \A r \in S : at[r] = m.due[r] - over(r[1])
    OBVIOUS
  <1>8. \A p \in P : TreeCap > 0 /\ Pending(m, p) # {} /\ p \notin late => ~ (over(p) > 0)
    OBVIOUS
  <1>9. \A p \in P : \A r \in Pending(m, p) : r[1] = p /\ r \in Reqs
    BY DEF Pending
  <1> HIDE DEF S, at, late, over, n
  <1>10. \A r \in S : at[r] \in Int
    BY <1>2, <1>3, <1>4, <1>6, <1>7
  <1>11. Times(S, at)
    BY <1>10 DEF Times
  <1>12. Pushed(m, n, S, at)
    BY <1>1, <1>5, <1>11, PushIs
  <1>13. \A r \in Reqs : n.due[r] = IF r \in S THEN at[r] ELSE m.due[r]
    BY <1>12 DEF Pushed
  <1>14. ASSUME TreeCap > 0, NEW p \in P, Pending(m, p) # {}
         PROVE  \E r \in Pending(m, p) : n.due[r] <= clock + TreeCap
    <2>1. PICK r \in Pending(m, p) : m.due[r] - clock - TreeCap = over(p)
      BY <1>3, <1>14
    <2>2. over(p) \in Int
      BY <1>3, <1>14
    <2>3. r \in Reqs /\ r[1] = p /\ m.due[r] \in Int
      BY <1>2, <1>9
    <2>4. CASE p \in late
      <3>1. r \in S
        BY <1>6, <2>4
      <3>2. n.due[r] = m.due[r] - over(p)
        BY <1>7, <1>13, <2>3, <3>1
      <3>3. n.due[r] <= clock + TreeCap
        BY <1>2, <2>1, <2>2, <2>3, <3>2
      <3> QED
        BY <3>3
    <2>5. CASE p \notin late
      <3>1. r \notin S
        BY <1>4, <2>3, <2>5
      <3>2. n.due[r] = m.due[r]
        BY <1>13, <2>3, <3>1
      <3>3. ~ (over(p) > 0)
        BY <1>8, <1>14, <2>5
      <3>4. n.due[r] <= clock + TreeCap
        BY <1>2, <2>1, <2>2, <2>3, <3>2, <3>3
      <3> QED
        BY <3>4
    <2> QED
      BY <2>4, <2>5
  <1>15. \A r \in S : r[1] \in P /\ ~ Warmup(class[r])
    BY <1>4, <1>6
  <1> QED
    BY <1>5, <1>11, <1>12, <1>14, <1>15 DEF n

(* Capping keeps the timers in order and armed.                            *)
LEMMA CappedKeeps ==
  ASSUME NEW m \in TmType, NEW P \in SUBSET Plays, NEW clock \in Nat, offset \in Nat, TimersOK(m)
  PROVE  LET n == Capped(m, P, clock) IN
         /\ n \in TmType /\ n.armed = m.armed /\ n.warm = m.warm
         /\ TimersOK(n) /\ (ArmedOK(m) => ArmedOK(n))
PROOF
  <1> DEFINE n == Capped(m, P, clock)
  <1>1. PICK S \in SUBSET m.armed : \E at : Pushed(m, n, S, at) /\ \A r \in S : ~ Warmup(class[r])
    BY CappedIs
  <1>2. PICK at : Pushed(m, n, S, at)
    BY <1>1
  <1> HIDE DEF n
  <1>3. m.armed \in SUBSET Reqs
    BY TmIs
  <1>4. /\ n \in TmType /\ n.armed = m.armed \cup S /\ m.warm \subseteq n.warm
        /\ \A e \in n.warm : e \in m.warm \/ (e.req \in S /\ Warmup(class[e.req]))
    BY <1>2 DEF Pushed
  <1>5. \A r \in S : ~ Warmup(class[r])
    BY <1>1
  <1>6. n.warm = m.warm /\ n.armed = m.armed
    BY <1>4, <1>5
  <1>7. \A e \in m.warm : e.req \notin S
    BY <1>5 DEF TimersOK
  <1>8. S \in SUBSET Reqs
    BY <1>3
  <1>9. TimersOK(n) /\ (ArmedOK(m) => ArmedOK(n))
    BY <1>2, <1>4, <1>7, <1>8, PushKeeps
  <1> QED
    BY <1>4, <1>6, <1>9 DEF n

(* The timers that the hand-off re-arms: the waiting requests of all plays.*)
AllPending(m) == UNION {Pending(m, p) : p \in Plays}

(* ... have times.                                                         *)
LEMMA HandOffTimes ==
  ASSUME tm \in TmType, now \in Nat
  PROVE  LET wait(r) == tm.due[r] - tm.base[r]
             S == AllPending(tm)
             first == Min({wait(r) : r \in S})
             at == [r \in S |-> now + wait(r) - first]
         IN  /\ Times(S, at)
             /\ S # {} => /\ first \in Int
                          /\ \E r \in S : wait(r) = first
PROOF
  <1> DEFINE wait(r) == tm.due[r] - tm.base[r]
             S == AllPending(tm)
             W == {wait(r) : r \in S}
             at == [r \in S |-> now + wait(r) - Min(W)]
  <1>1. \A r \in S : r \in Reqs
    BY DEF Pending, AllPending
  <1>2. \A r \in Reqs : wait(r) \in Int
    <2>1. tm.due \in [Reqs -> Int] /\ tm.base \in [Reqs -> Nat]
      BY TmIs
    <2> QED
      BY <2>1
  <1>3. \A r \in S : at[r] = now + wait(r) - Min(W)
    OBVIOUS
  <1>4. W \in SUBSET Int
    BY <1>1, <1>2
  <1>5. S # {} => W # {}
    OBVIOUS
  <1>6. IsFiniteSet(W)
    <2> DEFINE g == [r \in S |-> wait(r)]
    <2>1. IsFiniteSet(S)
      BY <1>1, ReqsFinite, FS_Subset
    <2>2. IsFiniteSet({g[r] : r \in S})
      BY <2>1, ValuesFinite
    <2>3. {g[r] : r \in S} = W
      OBVIOUS
    <2> QED
      BY <2>2, <2>3
  <1>7. \A w \in W : \E r \in S : wait(r) = w
    OBVIOUS
  <1>8. S # {} => Min(W) \in W
    BY <1>4, <1>5, <1>6, LeastGreatest
  <1> HIDE DEF at, W, wait, S
  <1>9. S # {} => Min(W) \in Int /\ \E r \in S : wait(r) = Min(W)
    BY <1>4, <1>7, <1>8
  <1>10. Times(S, at)
    <2> SUFFICES ASSUME NEW r \in S
                 PROVE  at[r] \in Int
      BY DEF Times
    <2>1. wait(r) \in Int /\ Min(W) \in Int
      BY <1>1, <1>2, <1>9
    <2> QED
      BY <1>3, <2>1
  <1> QED
    BY <1>9, <1>10 DEF at, W, wait, S

(* The hand-off.                                                           *)
LEMMA HandOffKeeps ==
  ASSUME ReplayInv, HandOff
  PROVE  ReplayInv'
PROOF
  <1> DEFINE wait(r) == tm.due[r] - tm.base[r]
             S == AllPending(tm)
             at == [r \in S |-> now + wait(r) - Min({wait(x) : x \in S})]
             m == Push(tm, class, S, at, now)
             P == {p \in Plays : lane[p] # 0 /\ inFlight[p] = 0}
  <1>1. ReplayTypeOK /\ TimersOK(tm) /\ (phase # "ended" => ArmedOK(tm))
    BY DEF ReplayInv
  <1>2. tm \in TmType /\ now \in Nat /\ offset \in Nat
    BY <1>1 DEF ReplayTypeOK
  <1>3. Times(S, at)
    BY <1>2, HandOffTimes
  <1>4. tm' = Capped(m, P, now)
    BY DEF HandOff, AllPending
  <1>5. P \in SUBSET Plays
    OBVIOUS
  <1>6. /\ phase = "warmup" /\ phase' = "profile" /\ tm.warm = {} /\ t0' = now
        /\ UNCHANGED <<now, offset, play>>
    BY DEF HandOff
  <1>7. \A r \in S : r \in Reqs /\ r \in tm.armed
    BY DEF Pending, AllPending
  <1> HIDE DEF S, at, m, P
  <1>8. S \in SUBSET Reqs
    BY <1>7
  <1>9. Pushed(tm, m, S, at)
    BY <1>2, <1>3, <1>8, PushIs DEF m
  <1>10. m \in TmType /\ m.armed = tm.armed
    BY <1>7, <1>9 DEF Pushed
  <1>11. TimersOK(m) /\ ArmedOK(m)
    BY <1>1, <1>2, <1>6, <1>8, <1>9, <1>10, PushKeeps
  <1>12. tm' \in TmType /\ tm'.armed = m.armed /\ TimersOK(tm') /\ ArmedOK(tm')
    BY <1>2, <1>4, <1>5, <1>10, <1>11, CappedKeeps
  <1>13. UNCHANGED class
    BY <1>6 DEF play
  <1>14. TimersOK(tm)'
    BY <1>12, <1>13 DEF TimersOK, TimersOf, Warmup
  <1>15. ArmedOK(tm)'
    BY <1>12 DEF ArmedOK, TimersOf
  <1>16. now' \in Nat /\ t0' \in Nat /\ offset' \in Nat
    BY <1>2, <1>6
  <1> QED
    BY <1>6, <1>10, <1>12, <1>14, <1>15, <1>16, TimersChange

-----------------------------------------------------------------------------
(* The end of a request.                                                   *)

(* The dependencies that a request still waits for.                        *)
Waits(x) == {e \in Edges(x[1], class, x[2]) : st[<<x[1], e.from>>] # "done"}

(* Of the end of request r: the dependencies on it, the requests that have *)
(* them, those that wait for nothing else, and the requests of the next    *)
(* play that wait for nothing.                                             *)
Out(r) == {e \in Trace(r[1]).edges : e.from = r[2] /\ class[<<r[1], e.to>>] \notin {1, 2}}
Succ(r) == {<<r[1], e.to>> : e \in Out(r)}
Woken(r) == {x \in Succ(r) : preds[x] = 1 /\ phase # "ended"}
NextStarts(r) == remaining[r[1]] = 1 /\ phase # "ended"
NextRoots(r) == IF NextStarts(r) THEN Roots(NextPlay, class) ELSE {}

(* They are finitely many.                                                 *)
LEMMA WaitsFinite ==
  ASSUME NEW x \in Reqs
  PROVE  IsFiniteSet(Waits(x)) /\ IsFiniteSet(Edges(x[1], class, x[2]))
PROOF
  <1>1. IsFiniteSet(Trace(x[1]).edges)
    BY ReqIs, EdgeIs
  <1>2. Edges(x[1], class, x[2]) \subseteq Trace(x[1]).edges
    BY DEF Edges
  <1>3. Waits(x) \subseteq Trace(x[1]).edges
    BY <1>2 DEF Waits
  <1> QED
    BY <1>1, <1>2, <1>3, FS_Subset

(* A request in service waits for nothing.                                 *)
LEMMA ActiveIs ==
  ASSUME ReplayInv, NEW r \in Active
  PROVE  /\ r \in Reqs /\ st[r] = "active" /\ r[1] \in Plays /\ Started(r)
         /\ class[r] # 2 /\ preds[r] = 0 /\ (phase # "ended" => r \notin tm.armed)
PROOF
  <1>1. r \in Reqs /\ st[r] = "active"
    BY DEF Active
  <1>2. StatesOK /\ PlaysOK
    BY DEF ReplayInv
  <1>3. Started(r)
    BY <1>1, <1>2 DEF PlaysOK
  <1>4. ~ Due(r)
    BY <1>1 DEF Due
  <1>5. class[r] # 2 /\ preds[r] = 0 /\ (phase # "ended" => r \notin tm.armed)
    BY <1>1, <1>2, <1>4 DEF StatesOK
  <1> QED
    BY <1>1, <1>3, <1>5, ReqIs

(* The requests that depend on it wait, and not for a time.                *)
LEMMA SuccIs ==
  ASSUME ReplayInv, NEW r \in Active, NEW x \in Succ(r)
  PROVE  /\ x \in Reqs /\ x # r /\ x[1] = r[1] /\ Started(x) /\ class[x] \notin {1, 2}
         /\ st[x] = "pending" /\ preds[x] \in Nat /\ preds[x] > 0
         /\ phase # "ended" => x \notin tm.armed
         /\ \E e \in Waits(x) : \A f \in Waits(x) : <<x[1], f.from>> = r <=> f = e
PROOF
  <1>1. PICK e \in Out(r) : x = <<r[1], e.to>>
    BY DEF Succ
  <1>2. /\ r \in Reqs /\ st[r] = "active" /\ r[1] \in Plays /\ Started(r) /\ class[r] # 2
    BY ActiveIs
  <1>3. /\ e \in Trace(r[1]).edges /\ e.from = r[2] /\ class[x] \notin {1, 2}
    BY <1>1 DEF Out
  <1>4. /\ x \in Reqs /\ e.from # e.to
        /\ \A f, g \in Trace(r[1]).edges : f.from = g.from /\ f.to = g.to => f = g
    BY <1>1, <1>2, <1>3, EdgeIs
  <1>5. x[1] = r[1] /\ x[2] = e.to /\ r = <<r[1], r[2]>>
    BY <1>1, <1>2, ReqIs
  <1>6. x # r
    BY <1>3, <1>4, <1>5
  <1>7. e \in Edges(x[1], class, x[2])
    BY <1>2, <1>3, <1>4, <1>5, ReqIs DEF Edges
  <1>8. e \in Waits(x)
    BY <1>2, <1>3, <1>5, <1>7 DEF Waits
  <1>9. Started(x)
    BY <1>2, <1>5 DEF Started
  <1>10. preds[x] = Cardinality(Waits(x))
    BY <1>4, <1>9 DEF ReplayInv, PredsExact, Waits
  <1>11. IsFiniteSet(Waits(x))
    BY <1>4, WaitsFinite
  <1>12. preds[x] \in Nat /\ preds[x] # 0
    BY <1>8, <1>10, <1>11, FS_CardinalityType, FS_EmptySet
  <1>13. st[x] = "pending"
    BY <1>4, <1>12 DEF ReplayInv, StatesOK
  <1>14. phase # "ended" => x \notin tm.armed
    BY <1>4, <1>12 DEF ReplayInv, StatesOK, Due
  <1>15. ASSUME NEW f \in Waits(x), <<x[1], f.from>> = r
         PROVE  f = e
    <2>1. f \in Trace(r[1]).edges /\ f.to = x[2]
      BY <1>5 DEF Waits, Edges
    <2>2. f.from = r[2]
      BY <1>15
    <2> QED
      BY <1>3, <1>4, <1>5, <2>1, <2>2
  <1>16. <<x[1], e.from>> = r
    BY <1>3, <1>5
  <1> QED
    BY <1>3, <1>4, <1>5, <1>6, <1>8, <1>9, <1>12, <1>13, <1>14, <1>15, <1>16

(* Other requests do not wait for it.                                      *)
LEMMA OthersIs ==
  ASSUME ReplayInv, NEW r \in Active, NEW x \in Reqs, x \notin Succ(r), NEW f \in Waits(x)
  PROVE  <<x[1], f.from>> # r
PROOF
  <1>1. f \in Trace(x[1]).edges /\ f.to = x[2] /\ class[<<x[1], x[2]>>] \notin {1, 2}
    BY DEF Waits, Edges
  <1>2. x = <<x[1], x[2]>>
    BY ReqIs
  <1> SUFFICES ASSUME <<x[1], f.from>> = r
               PROVE  FALSE
    OBVIOUS
  <1>3. x[1] = r[1] /\ f.from = r[2]
    OBVIOUS
  <1>4. f \in Out(r)
    BY <1>1, <1>3 DEF Out
  <1>5. x \in Succ(r)
    BY <1>1, <1>2, <1>3, <1>4 DEF Succ
  <1> QED
    BY <1>5

(* The next play.                                                          *)
LEMMA NextIs ==
  ASSUME ReplayInv
  PROVE  /\ NextPlay \in Nat /\ NextPlay > 0
         /\ NextPlay \in Plays => lane[NextPlay] = 0
         /\ \A x \in Roots(NextPlay, class) :
              /\ x \in Reqs /\ x[1] = NextPlay /\ NextPlay \in Plays
              /\ ~ Started(x) /\ class[x] = 0 /\ st[x] = "pending" /\ preds[x] = 0
PROOF
  <1>1. NextPlay \in Nat /\ NextPlay > 0
    <2>1. IsFiniteSet({p \in Plays : lane[p] # 0})
      BY ReqsFinite, FS_Subset
    <2> QED
      BY <2>1, FS_CardinalityType DEF NextPlay
  <1>2. NextPlay \in Plays => lane[NextPlay] = 0
    BY <1>1 DEF ReplayInv, PlaysOK
  <1>3. ASSUME NEW x \in Roots(NextPlay, class)
        PROVE  /\ x \in Reqs /\ x[1] = NextPlay /\ NextPlay \in Plays
               /\ ~ Started(x) /\ class[x] = 0 /\ st[x] = "pending" /\ preds[x] = 0
    <2>1. x \in Reqs /\ x[1] = NextPlay
      BY DEF Roots
    <2>2. NextPlay \in Plays
      BY <2>1, ReqIs
    <2>3. ~ Started(x)
      BY <1>2, <2>1, <2>2 DEF Started
    <2> QED
      BY <2>1, <2>2, <2>3 DEF ReplayInv, PlaysOK
  <1> QED
    BY <1>1, <1>2, <1>3

(* The greater of two numbers.                                             *)
LEMMA MaxOfTwo ==
  ASSUME NEW a \in Nat, NEW b \in Nat
  PROVE  Max({a, b}) \in Nat /\ Max({a, b}) >= a /\ Max({a, b}) >= b
PROOF
  <1>1. IsFiniteSet({a, b}) /\ {a, b} \in SUBSET Int /\ {a, b} # {}
    BY FS_Singleton, FS_AddElement, IsFiniteSet({a} \cup {b}), {a, b} = {a} \cup {b}
  <1>2. Max({a, b}) \in {a, b} /\ \A y \in {a, b} : Max({a, b}) >= y
    BY <1>1, LeastGreatest
  <1> QED
    BY <1>2

(* The first request of a play.                                            *)
LEMMA FirstTimeIs ==
  ASSUME NEW p \in Plays
  PROVE  /\ FirstTime(p) \in Nat
         /\ \E i \in OfPlay(p) : TimeOf(p, i) = FirstTime(p)
         /\ \A i \in OfPlay(p) : FirstTime(p) <= TimeOf(p, i)
PROOF
  <1> DEFINE T == {TimeOf(p, i) : i \in OfPlay(p)}
             g == [i \in OfPlay(p) |-> TimeOf(p, i)]
  <1>1. OfPlay(p) # {} /\ IsFiniteSet(OfPlay(p)) /\ \A i \in OfPlay(p) : TimeOf(p, i) \in Nat
    BY TraceIs
  <1>2. IsFiniteSet({g[i] : i \in OfPlay(p)})
    BY <1>1, ValuesFinite
  <1>3. {g[i] : i \in OfPlay(p)} = T
    OBVIOUS
  <1>4. T \in SUBSET Int /\ T # {}
    BY <1>1
  <1>5. Min(T) \in T /\ \A y \in T : Min(T) <= y
    BY <1>2, <1>3, <1>4, LeastGreatest
  <1>6. FirstTime(p) = Min(T)
    BY DEF FirstTime
  <1>7. \A y \in T : \E i \in OfPlay(p) : TimeOf(p, i) = y
    OBVIOUS
  <1>8. \A i \in OfPlay(p) : TimeOf(p, i) \in T
    OBVIOUS
  <1> HIDE DEF T
  <1> QED
    BY <1>1, <1>5, <1>6, <1>7, <1>8

(* The order of the requests of a play: by time, then by place.            *)
Before(p, j, i) ==
  \/ TimeOf(p, j) < TimeOf(p, i)
  \/ TimeOf(p, j) = TimeOf(p, i) /\ j < i

(* Any requests of a play have a first one.                                *)
LEMMA FirstOf ==
  ASSUME NEW p \in Plays, NEW S \in SUBSET OfPlay(p), S # {}
  PROVE  \E i \in S : /\ \A j \in S : ~ Before(p, j, i)
                      /\ \A j \in S : TimeOf(p, i) <= TimeOf(p, j)
PROOF
  <1> DEFINE T == {TimeOf(p, i) : i \in S}
             g == [i \in S |-> TimeOf(p, i)]
             F == {i \in S : TimeOf(p, i) = Min(T)}
  <1>1. IsFiniteSet(OfPlay(p)) /\ OfPlay(p) \subseteq Nat /\ \A i \in OfPlay(p) : TimeOf(p, i) \in Nat
    BY TraceIs
  <1>2. IsFiniteSet(S)
    BY <1>1, FS_Subset
  <1>3. IsFiniteSet({g[i] : i \in S})
    BY <1>2, ValuesFinite
  <1>4. {g[i] : i \in S} = T
    OBVIOUS
  <1>5. T \in SUBSET Int /\ T # {}
    BY <1>1
  <1>6. Min(T) \in T /\ \A y \in T : Min(T) <= y
    BY <1>3, <1>4, <1>5, LeastGreatest
  <1>7. F \in SUBSET Int /\ F # {} /\ F \subseteq S
    <2>1. S \subseteq Int
      BY <1>1
    <2>2. PICK i \in S : TimeOf(p, i) = Min(T)
      BY <1>6, Zenon
    <2>3. i \in F
      BY <2>2, Zenon
    <2> QED
      BY <2>1, <2>3
  <1>8. IsFiniteSet(F)
    BY <1>2, <1>7, FS_Subset
  <1>9. Min(F) \in F /\ \A y \in F : Min(F) <= y
    BY <1>7, <1>8, LeastGreatest
  <1>10. Min(F) \in S /\ TimeOf(p, Min(F)) = Min(T)
    BY <1>9
  <1>11. \A j \in S : TimeOf(p, Min(F)) <= TimeOf(p, j)
    BY <1>6, <1>10
  <1>12. ASSUME NEW j \in S, Before(p, j, Min(F))
         PROVE  FALSE
    <2>1. TimeOf(p, j) \in Nat /\ TimeOf(p, Min(F)) \in Nat /\ j \in Nat /\ Min(F) \in Nat
      BY <1>1, <1>10
    <2>2. TimeOf(p, j) = TimeOf(p, Min(F)) /\ j < Min(F)
      BY <1>11, <1>12, <2>1 DEF Before
    <2>3. j \in F
      BY <1>10, <2>2
    <2> HIDE DEF F
    <2> QED
      BY <1>9, <2>1, <2>2, <2>3
  <1> QED
    BY <1>10, <1>11, <1>12

(* What a request depends on comes before it.                              *)
LEMMA EdgeBefore ==
  ASSUME NEW p \in Plays, NEW e \in Trace(p).edges
  PROVE  Before(p, e.from, e.to)
PROOF
  <1>1. PICK k \in DOMAIN Traces : Trace(p) = Traces[k]
    BY TraceIs
  <1> QED
    <2>1. e \in Traces[k].edges
      BY <1>1
    <2>2. \/ Trace(p).t[e.from] < Trace(p).t[e.to]
          \/ Trace(p).t[e.from] = Trace(p).t[e.to] /\ e.from < e.to
      BY <1>1, <2>1, TimesAssumption, Zenon
    <2> QED
      BY <2>2 DEF Before, TimeOf

(* The times at which requests become ready are times.                     *)
LEMMA ReadyIs ==
  ASSUME ReplayInv, NEW r \in Active, Complete(r)
  PROVE  ready' \in [Reqs -> Nat] /\ now' = Later(ends[r]) /\ now' \in Nat /\ now' >= now
PROOF
  <1> DEFINE t == Later(ends[r])
             into(x) == CHOOSE e \in Out(r) : e.to = x[2]
             wait(x) == IF Warmup(class[x]) THEN t ELSE t + into(x).delay
  <1>1. now' = t
    BY DEF Complete
  <1>2. ready' = [x \in Reqs |-> IF x \in Succ(r) THEN Max({ready[x], wait(x)}) ELSE ready[x]]
    BY DEF Complete, Out, Succ
  <1>3. now \in Nat /\ ready \in [Reqs -> Nat] /\ ends[r] \in Nat
    BY ActiveIs DEF ReplayInv, ReplayTypeOK
  <1>4. t \in Nat /\ t >= now
    BY <1>3, LaterIs
  <1>5. ASSUME NEW x \in Succ(r)
        PROVE  into(x).delay \in Nat
    <2>1. PICK e \in Out(r) : x = <<r[1], e.to>>
      BY DEF Succ
    <2>2. e.to = x[2]
      BY <2>1
    <2>3. into(x) \in Out(r)
      BY <2>2
    <2> QED
      BY <2>3, ActiveIs, EdgeIs DEF Out
  <1> HIDE DEF t, into
  <1>6. \A x \in Succ(r) : wait(x) \in Nat
    BY <1>4, <1>5
  <1> HIDE DEF wait
  <1>7. \A x \in Reqs : (IF x \in Succ(r) THEN Max({ready[x], wait(x)}) ELSE ready[x]) \in Nat
    BY <1>3, <1>6, MaxOfTwo
  <1>8. ready' \in [Reqs -> Nat]
    BY <1>2, <1>7
  <1> QED
    BY <1>1, <1>4, <1>8 DEF t

(* What the end of a request does to the timers.                           *)
CompleteSteps(r, m1, m2, at) ==
  /\ Pushed(tm, m1, Woken(r), ready')
  /\ m2 = IF inFlight[r[1]] = 1 /\ phase # "warmup" THEN Capped(m1, {r[1]}, now') ELSE m1
  /\ Pushed(m2, tm', NextRoots(r), at)
  /\ \A x \in NextRoots(r) : at[x] = now' + TimeOf(x[1], x[2]) - FirstTime(x[1])

(* It pushes, caps and pushes.                                             *)
LEMMA CompleteTimers ==
  ASSUME ReplayInv, NEW r \in Active, Complete(r)
  PROVE  \E m1 \in TmType, m2 \in TmType : \E at : CompleteSteps(r, m1, m2, at)
PROOF
  <1> DEFINE m1 == Push(tm, class, Woken(r), ready', now')
             m2 == IF inFlight[r[1]] = 1 /\ phase # "warmup" THEN Capped(m1, {r[1]}, now') ELSE m1
             at == [x \in NextRoots(r) |-> now' + TimeOf(x[1], x[2]) - FirstTime(x[1])]
  <1>1. tm \in TmType /\ offset \in Nat
    BY DEF ReplayInv, ReplayTypeOK
  <1>2. tm' = Push(m2, class, NextRoots(r), at, now')
    BY DEF Complete, NextRoots, NextStarts, Woken, Succ, Out
  <1>3. \A x \in NextRoots(r) : at[x] = now' + TimeOf(x[1], x[2]) - FirstTime(x[1])
    OBVIOUS
  <1>4. ready' \in [Reqs -> Nat] /\ now' \in Nat
    BY ReadyIs
  <1>5. Woken(r) \in SUBSET Reqs
    BY SuccIs DEF Woken
  <1>6. Times(Woken(r), ready')
    BY <1>4, <1>5 DEF Times
  <1>7. NextRoots(r) \in SUBSET Reqs
    BY NextIs DEF NextRoots
  <1>8. \A x \in Reqs : TimeOf(x[1], x[2]) \in Nat /\ FirstTime(x[1]) \in Nat
    BY ReqIs, TraceIs, FirstTimeIs
  <1>9. m2 = IF inFlight[r[1]] = 1 /\ phase # "warmup" THEN Capped(m1, {r[1]}, now') ELSE m1
    OBVIOUS
  <1>10. m1 = Push(tm, class, Woken(r), ready', now')
    OBVIOUS
  <1> HIDE DEF m1, m2, at
  <1>11. \A x \in NextRoots(r) : at[x] \in Int
    BY <1>3, <1>4, <1>7, <1>8
  <1>12. Times(NextRoots(r), at)
    BY <1>11 DEF Times
  <1>13. Pushed(tm, m1, Woken(r), ready')
    BY <1>1, <1>4, <1>5, <1>6, <1>10, PushIs
  <1>14. m1 \in TmType
    BY <1>13 DEF Pushed
  <1>15. m2 \in TmType
    <2>1. {r[1]} \in SUBSET Plays
      BY ActiveIs
    <2>2. \E S \in SUBSET m1.armed : \E a : Pushed(m1, Capped(m1, {r[1]}, now'), S, a)
      BY <1>1, <1>4, <1>14, <2>1, CappedIs
    <2>3. Capped(m1, {r[1]}, now') \in TmType
      BY <2>2 DEF Pushed
    <2> QED
      BY <1>9, <1>14, <2>3
  <1>16. Pushed(m2, tm', NextRoots(r), at)
    BY <1>1, <1>2, <1>4, <1>7, <1>12, <1>15, PushIs
  <1>17. CompleteSteps(r, m1, m2, at)
    BY <1>3, <1>9, <1>13, <1>16 DEF CompleteSteps
  <1> QED
    BY <1>14, <1>15, <1>17

(* The timers stay in order, and those of the woken requests and of the    *)
(* next play are armed.                                                    *)
LEMMA CompleteArms ==
  ASSUME ReplayInv, NEW r \in Active, Complete(r)
  PROVE  /\ tm' \in TmType /\ tm'.armed = tm.armed \cup Woken(r) \cup NextRoots(r)
         /\ TimersOK(tm') /\ (phase # "ended" => ArmedOK(tm'))
PROOF
  <1>1. PICK m1 \in TmType, m2 \in TmType : \E at : CompleteSteps(r, m1, m2, at)
    BY CompleteTimers
  <1>2. PICK at : CompleteSteps(r, m1, m2, at)
    BY <1>1
  <1>3. tm \in TmType /\ TimersOK(tm) /\ (phase # "ended" => ArmedOK(tm)) /\ offset \in Nat
    BY DEF ReplayInv, ReplayTypeOK
  <1>4. Pushed(tm, m1, Woken(r), ready') /\ Pushed(m2, tm', NextRoots(r), at)
    BY <1>2 DEF CompleteSteps
  <1>5. m1.armed = tm.armed \cup Woken(r) /\ tm' \in TmType /\ tm'.armed = m2.armed \cup NextRoots(r)
    BY <1>4 DEF Pushed
  <1>6. \A x \in Woken(r) : x \in Reqs /\ x \notin tm.armed /\ phase # "ended"
    BY SuccIs DEF Woken
  <1>7. \A x \in NextRoots(r) : x \in Reqs /\ class[x] = 0
    BY NextIs DEF NextRoots
  <1>8. \A e \in tm.warm : e.req \notin Woken(r)
    <2> SUFFICES ASSUME NEW e \in tm.warm, e.req \in Woken(r)
                 PROVE  FALSE
      OBVIOUS
    <2>1. phase # "ended" /\ e.req \in Reqs /\ e.req \notin tm.armed
      BY <1>6
    <2>2. e.ver = tm.ver[e.req] /\ e \in TimersOf(tm)
      BY <1>3 DEF TimersOK, TimersOf
    <2> QED
      BY <1>3, <2>1, <2>2 DEF ArmedOK
  <1>9. TimersOK(m1) /\ (ArmedOK(tm) => ArmedOK(m1))
    <2>1. Woken(r) \in SUBSET Reqs
      BY <1>6
    <2> QED
      BY <1>3, <1>4, <1>8, <2>1, PushKeeps
  <1>10. m2.armed = m1.armed /\ TimersOK(m2) /\ (ArmedOK(m1) => ArmedOK(m2))
    <2>1. now' \in Nat /\ {r[1]} \in SUBSET Plays
      BY ReadyIs, ActiveIs
    <2>2. /\ Capped(m1, {r[1]}, now').armed = m1.armed /\ TimersOK(Capped(m1, {r[1]}, now'))
          /\ ArmedOK(m1) => ArmedOK(Capped(m1, {r[1]}, now'))
      BY <1>3, <1>9, <2>1, CappedKeeps
    <2> QED
      BY <1>2, <1>9, <2>2 DEF CompleteSteps
  <1>11. TimersOK(tm') /\ (ArmedOK(m2) => ArmedOK(tm'))
    <2>1. NextRoots(r) \in SUBSET Reqs
      BY <1>7
    <2>2. \A e \in m2.warm : e.req \notin NextRoots(r)
      BY <1>7, <1>10 DEF TimersOK, Warmup
    <2> QED
      BY <1>4, <1>5, <1>10, <2>1, <2>2, PushKeeps
  <1> QED
    BY <1>3, <1>5, <1>9, <1>10, <1>11

(* What the end of a request does to the rest of the state.                *)
LEMMA CompleteIs ==
  ASSUME ReplayInv, NEW r \in Active, Complete(r)
  PROVE  /\ st' = [st EXCEPT ![r] = "done"] /\ ends' = [ends EXCEPT ![r] = 0]
         /\ lane' = IF NextStarts(r) THEN [lane EXCEPT ![NextPlay] = lane[r[1]]] ELSE lane
         /\ preds' = [x \in Reqs |->
                        IF x \in Succ(r) THEN preds[x] - 1
                        ELSE IF NextStarts(r) /\ x[1] = NextPlay
                               THEN Cardinality(Edges(NextPlay, class, x[2]))
                               ELSE preds[x]]
         /\ inFlight' = [inFlight EXCEPT ![r[1]] = inFlight[r[1]] - 1]
         /\ remaining' = [x \in Plays |->
                            IF x = r[1] THEN remaining[r[1]] - 1
                            ELSE IF NextStarts(r) /\ x = NextPlay THEN Cardinality(OfPlay(x))
                            ELSE remaining[x]]
         /\ offset' = Shifted(tm', now', Active = {r})
         /\ UNCHANGED <<t0, phase, class>>
         /\ NextStarts(r) => NextPlay \in Plays /\ lane[NextPlay] = 0 /\ NextPlay # r[1]
PROOF
  <1>1. /\ st' = [st EXCEPT ![r] = "done"] /\ ends' = [ends EXCEPT ![r] = 0]
        /\ lane' = IF NextStarts(r) THEN [lane EXCEPT ![NextPlay] = lane[r[1]]] ELSE lane
        /\ inFlight' = [inFlight EXCEPT ![r[1]] = inFlight[r[1]] - 1]
        /\ UNCHANGED <<t0, phase, class>>
    BY DEF Complete, NextStarts
  <1>2. preds' = [x \in Reqs |->
                    IF x \in Succ(r) THEN preds[x] - 1
                    ELSE IF NextStarts(r) /\ x[1] = NextPlay
                           THEN Cardinality(Edges(NextPlay, class, x[2]))
                           ELSE preds[x]]
    BY DEF Complete, NextStarts, Fresh, Succ, Out
  <1>3. remaining' = [x \in Plays |->
                        IF x = r[1] THEN remaining[r[1]] - 1
                        ELSE IF NextStarts(r) /\ x = NextPlay THEN Cardinality(OfPlay(x))
                        ELSE remaining[x]]
    BY DEF Complete, NextStarts
  <1>4. offset' = Shifted(tm', now', Active = {r})
    <2>1. now' = Later(ends[r])
      BY ReadyIs
    <2> QED
      BY <2>1, Zenon DEF Complete
  <1>5. NextStarts(r) => NextPlay \in Plays /\ lane[NextPlay] = 0 /\ NextPlay # r[1]
    <2>1. NextStarts(r) => NextPlay <= MaxPlays
      BY DEF Complete, NextStarts
    <2>2. NextPlay \in Nat /\ NextPlay > 0 /\ (NextPlay \in Plays => lane[NextPlay] = 0)
      BY NextIs
    <2>3. lane[r[1]] # 0 /\ MaxPlays \in Nat
      BY ActiveIs, ReplayAssumption DEF Started
    <2> QED
      BY <2>1, <2>2, <2>3 DEF Plays
  <1> QED
    BY <1>1, <1>2, <1>3, <1>4, <1>5

(* The offset only grows.                                                  *)
LEMMA ShiftedIs ==
  ASSUME NEW m \in TmType, IsFiniteSet(m.main), offset \in Nat, NEW clock \in Nat,
         NEW idle \in BOOLEAN
  PROVE  Shifted(m, clock, idle) \in Nat /\ Shifted(m, clock, idle) >= offset
PROOF
  <1> DEFINE T == {e.stored : e \in m.main}
             g == [e \in m.main |-> e.stored]
             next == Min(T) - offset
  <1>1. \A e \in m.main : e.stored \in Int
    BY TmIs DEF TimersOf
  <1>2. IsFiniteSet({g[e] : e \in m.main})
    BY ValuesFinite
  <1>3. {g[e] : e \in m.main} = T
    OBVIOUS
  <1>4. T \in SUBSET Int
    BY <1>1
  <1>5. m.main # {} => T # {}
    OBVIOUS
  <1>6. m.main # {} => Min(T) \in Int
    BY <1>2, <1>3, <1>4, <1>5, LeastGreatest
  <1>7. IdleShift \in Nat
    BY ReplayAssumption
  <1>8. Shifted(m, clock, idle) =
          IF phase = "profile" /\ idle /\ m.main # {} /\ next - clock > IdleShift
            THEN offset + next - clock - IdleShift ELSE offset
    BY DEF Shifted
  <1> HIDE DEF T
  <1> QED
    BY <1>6, <1>7, <1>8

(* Which plays have started afterwards.                                    *)
LEMMA CompletePlays ==
  ASSUME ReplayInv, NEW r \in Active, Complete(r)
  PROVE  /\ \A x \in Reqs : Started(x)' <=> Started(x) \/ (NextStarts(r) /\ x[1] = NextPlay)
         /\ NextStarts(r) => \A x \in Reqs : x[1] = NextPlay =>
              x # r /\ x \notin Succ(r) /\ ~ Started(x) /\ class[x] = 0 /\ st[x] = "pending"
         /\ \A x \in Reqs : /\ x # r => st'[x] = st[x]
                            /\ st'[x] # "done" <=> st[x] # "done" /\ x # r
         /\ st'[r] = "done"
         /\ PlaysOK'
PROOF
  <1>1. /\ st' = [st EXCEPT ![r] = "done"]
        /\ lane' = IF NextStarts(r) THEN [lane EXCEPT ![NextPlay] = lane[r[1]]] ELSE lane
        /\ UNCHANGED class
        /\ NextStarts(r) => NextPlay \in Plays /\ lane[NextPlay] = 0 /\ NextPlay # r[1]
    BY CompleteIs
  <1>2. preds' = [x \in Reqs |->
                    IF x \in Succ(r) THEN preds[x] - 1
                    ELSE IF NextStarts(r) /\ x[1] = NextPlay
                           THEN Cardinality(Edges(NextPlay, class, x[2]))
                           ELSE preds[x]]
    BY CompleteIs
  <1>3. /\ r \in Reqs /\ st[r] = "active" /\ r[1] \in Plays /\ Started(r)
    BY ActiveIs
  <1>4. st \in [Reqs -> {"pending", "active", "done"}] /\ lane \in [Plays -> Lanes \cup {0}]
    BY DEF ReplayInv, ReplayTypeOK
  <1>5. \A x \in Reqs : x[1] \in Plays
    BY ReqIs
  <1>6. PlaysOK
    BY DEF ReplayInv
  <1>7. \A p \in Plays : lane'[p] # 0 <=> lane[p] # 0 \/ (NextStarts(r) /\ p = NextPlay)
    <2>1. lane[r[1]] # 0
      BY <1>3 DEF Started
    <2> QED
      BY <1>1, <1>4, <2>1
  <1>8. \A x \in Reqs : Started(x)' <=> Started(x) \/ (NextStarts(r) /\ x[1] = NextPlay)
    BY <1>5, <1>7 DEF Started
  <1>9. ASSUME NextStarts(r), NEW x \in Reqs, x[1] = NextPlay
        PROVE  x # r /\ x \notin Succ(r) /\ ~ Started(x) /\ class[x] = 0 /\ st[x] = "pending"
    <2>1. ~ Started(x)
      BY <1>1, <1>9 DEF Started
    <2>2. x # r
      BY <1>1, <1>9
    <2>3. x \notin Succ(r)
      BY <2>1, SuccIs
    <2> QED
      BY <1>6, <2>1, <2>2, <2>3 DEF PlaysOK
  <1>10. \A x \in Reqs : /\ x # r => st'[x] = st[x]
                         /\ st'[x] # "done" <=> st[x] # "done" /\ x # r
    BY <1>1, <1>3, <1>4
  <1>11. st'[r] = "done"
    BY <1>1, <1>3, <1>4
  <1>12. NextPlay' = IF NextStarts(r) THEN NextPlay + 1 ELSE NextPlay
    <2>1. {p \in Plays : lane'[p] # 0} =
            IF NextStarts(r) THEN {p \in Plays : lane[p] # 0} \cup {NextPlay} ELSE {p \in Plays : lane[p] # 0}
      BY <1>1, <1>7
    <2>2. IsFiniteSet({p \in Plays : lane[p] # 0})
      BY ReqsFinite, FS_Subset
    <2>3. NextStarts(r) => NextPlay \notin {p \in Plays : lane[p] # 0}
      BY <1>1
    <2>4. NextStarts(r) => Cardinality({p \in Plays : lane'[p] # 0})
                           = Cardinality({p \in Plays : lane[p] # 0}) + 1
      BY <2>1, <2>2, <2>3, FS_AddElement
    <2>5. NextPlay' = Cardinality({p \in Plays : lane'[p] # 0}) + 1
      BY DEF NextPlay, Plays
    <2> QED
      BY <2>1, <2>4, <2>5 DEF NextPlay
  <1>13. \A p \in Plays : lane'[p] # 0 <=> p < NextPlay'
    <2>1. \A p \in Plays : lane[p] # 0 <=> p < NextPlay
      BY <1>6 DEF PlaysOK
    <2>2. \A p \in Plays : p \in Nat
      BY ReplayAssumption DEF Plays
    <2>3. NextPlay \in Nat
      BY NextIs
    <2> QED
      BY <1>7, <1>12, <2>1, <2>2, <2>3
  <1>14. ASSUME NEW x \in Reqs, ~ Started(x)'
         PROVE  st'[x] = "pending" /\ preds'[x] = 0 /\ class'[x] = 0
    <2>1. ~ Started(x) /\ ~ (NextStarts(r) /\ x[1] = NextPlay)
      BY <1>8, <1>14
    <2>2. x # r
      BY <1>3, <2>1
    <2>3. x \notin Succ(r)
      BY <2>1, SuccIs
    <2>4. st[x] = "pending" /\ preds[x] = 0 /\ class[x] = 0
      BY <1>6, <2>1 DEF PlaysOK
    <2> QED
      BY <1>1, <1>2, <1>10, <2>1, <2>2, <2>3, <2>4
  <1>15. PlaysOK'
    BY <1>13, <1>14 DEF PlaysOK, Started
  <1> QED
    BY <1>8, <1>9, <1>10, <1>11, <1>15

(* Of those that wait, each waits for one less.                            *)
LEMMA CompletePreds ==
  ASSUME ReplayInv, NEW r \in Active, Complete(r)
  PROVE  PredsExact'
PROOF
  <1> SUFFICES ASSUME NEW x \in Reqs, Started(x)'
               PROVE  preds'[x] = Cardinality(Waits(x)')
    BY DEF PredsExact, Waits
  <1>1. UNCHANGED class
    BY CompleteIs
  <1>2. preds' = [y \in Reqs |->
                    IF y \in Succ(r) THEN preds[y] - 1
                    ELSE IF NextStarts(r) /\ y[1] = NextPlay
                           THEN Cardinality(Edges(NextPlay, class, y[2]))
                           ELSE preds[y]]
    BY CompleteIs
  <1>3. \A y \in Reqs : st'[y] # "done" <=> st[y] # "done" /\ y # r
    BY CompletePlays
  <1>4. \A f \in Edges(x[1], class, x[2]) : <<x[1], f.from>> \in Reqs
    BY ReqIs, EdgeIs DEF Edges
  <1>5. Waits(x)' = {f \in Edges(x[1], class, x[2]) : st'[<<x[1], f.from>>] # "done"}
    BY <1>1 DEF Waits
  <1>6. Waits(x)' = {f \in Waits(x) : <<x[1], f.from>> # r}
    BY <1>3, <1>4, <1>5 DEF Waits
  <1>7. Started(x) => preds[x] = Cardinality(Waits(x))
    BY DEF ReplayInv, PredsExact, Waits
  <1>8. CASE x \in Succ(r)
    <2>1. PICK e \in Waits(x) : \A f \in Waits(x) : <<x[1], f.from>> = r <=> f = e
      BY <1>8, SuccIs
    <2>2. Waits(x)' = Waits(x) \ {e}
      BY <1>6, <2>1
    <2>3. Cardinality(Waits(x) \ {e}) = Cardinality(Waits(x)) - 1
      BY <2>1, WaitsFinite, FS_RemoveElement
    <2>4. preds[x] = Cardinality(Waits(x))
      BY <1>7, <1>8, SuccIs
    <2> QED
      BY <1>2, <1>8, <2>2, <2>3, <2>4
  <1>9. CASE x \notin Succ(r) /\ ~ (NextStarts(r) /\ x[1] = NextPlay)
    <2>1. Waits(x)' = Waits(x)
      BY <1>6, <1>9, OthersIs
    <2>2. Started(x)
      BY <1>9, CompletePlays
    <2> QED
      BY <1>2, <1>7, <1>9, <2>1, <2>2
  <1>10. CASE x \notin Succ(r) /\ NextStarts(r) /\ x[1] = NextPlay
    <2>1. \A f \in Edges(x[1], class, x[2]) :
            st[<<x[1], f.from>>] = "pending" /\ <<x[1], f.from>> # r
      BY <1>4, <1>10, CompletePlays
    <2>2. Waits(x)' = Edges(x[1], class, x[2])
      BY <1>3, <1>4, <1>5, <2>1
    <2> QED
      BY <1>2, <1>10, <2>2
  <1> QED
    BY <1>8, <1>9, <1>10

(* Exactly the requests that are due are armed.                            *)
LEMMA CompleteStates ==
  ASSUME ReplayInv, NEW r \in Active, Complete(r)
  PROVE  StatesOK'
PROOF
  <1>1. UNCHANGED <<class, phase>>
    BY CompleteIs
  <1>2. preds' = [y \in Reqs |->
                    IF y \in Succ(r) THEN preds[y] - 1
                    ELSE IF NextStarts(r) /\ y[1] = NextPlay
                           THEN Cardinality(Edges(NextPlay, class, y[2]))
                           ELSE preds[y]]
    BY CompleteIs
  <1>3. /\ r \in Reqs /\ st[r] = "active" /\ class[r] # 2 /\ preds[r] = 0
        /\ phase # "ended" => r \notin tm.armed
    BY ActiveIs
  <1>4. tm'.armed = tm.armed \cup Woken(r) \cup NextRoots(r)
    BY CompleteArms
  <1>5. ASSUME NEW x \in Reqs
        PROVE  /\ st'[x] # "pending" => class[x] # 2 /\ preds'[x] = 0
               /\ class[x] = 1 => st'[x] # "pending"
               /\ phase # "ended" => (x \in tm'.armed <=> Due(x)')
    <2>1. /\ st[x] # "pending" => class[x] # 2 /\ preds[x] = 0
          /\ class[x] = 1 => st[x] # "pending"
          /\ phase # "ended" => (x \in tm.armed <=> Due(x))
      BY DEF ReplayInv, StatesOK
    <2>2. Due(x)' <=> Started(x)' /\ st'[x] = "pending" /\ preds'[x] = 0 /\ class[x] # 2
      BY <1>1 DEF Due
    <2>3. Started(x)' <=> Started(x) \/ (NextStarts(r) /\ x[1] = NextPlay)
      BY CompletePlays
    <2>4. x # r => st'[x] = st[x]
      BY CompletePlays
    <2>5. CASE x \in Succ(r)
      <3>1. /\ x # r /\ Started(x) /\ class[x] \notin {1, 2} /\ st[x] = "pending"
            /\ preds[x] \in Nat /\ preds[x] > 0 /\ (phase # "ended" => x \notin tm.armed)
        BY <2>5, SuccIs
      <3>2. preds'[x] = preds[x] - 1
        BY <1>2, <2>5
      <3>3. x \notin NextRoots(r)
        BY <3>1, NextIs DEF NextRoots
      <3>4. phase # "ended" => (x \in Woken(r) <=> preds[x] = 1)
        BY <2>5 DEF Woken
      <3>5. phase # "ended" => (x \in tm'.armed <=> preds'[x] = 0)
        BY <1>4, <3>1, <3>2, <3>3, <3>4
      <3> QED
        BY <2>2, <2>3, <2>4, <3>1, <3>5
    <2>6. CASE NextStarts(r) /\ x[1] = NextPlay
      <3>1. x # r /\ x \notin Succ(r) /\ ~ Started(x) /\ class[x] = 0 /\ st[x] = "pending"
        BY <2>6, CompletePlays
      <3>2. preds'[x] = Cardinality(Edges(NextPlay, class, x[2]))
        BY <1>2, <2>6, <3>1
      <3>3. preds'[x] = 0 <=> Edges(NextPlay, class, x[2]) = {}
        BY <2>6, <3>2, WaitsFinite, FS_EmptySet
      <3>4. x \in NextRoots(r) <=> preds'[x] = 0
        BY <2>6, <3>1, <3>3 DEF NextRoots, Roots
      <3>5. x \notin Woken(r)
        BY <3>1 DEF Woken
      <3>6. phase # "ended" => x \notin tm.armed
        BY <2>1, <3>1 DEF Due
      <3> QED
        BY <1>4, <2>2, <2>3, <2>4, <2>6, <3>1, <3>4, <3>5, <3>6
    <2>7. CASE x = r
      <3>1. x \notin Succ(r) /\ ~ (NextStarts(r) /\ x[1] = NextPlay)
        BY <2>7, SuccIs, CompletePlays
      <3>2. preds'[x] = 0
        BY <1>2, <1>3, <2>7, <3>1
      <3>3. st'[x] = "done"
        BY <2>7, CompletePlays
      <3>4. x \notin NextRoots(r)
        BY <3>1, NextIs DEF NextRoots
      <3>5. phase # "ended" => x \notin tm'.armed
        BY <1>3, <1>4, <2>7, <3>1, <3>4 DEF Woken
      <3> QED
        BY <1>3, <2>2, <2>7, <3>2, <3>3, <3>5
    <2>8. CASE x # r /\ x \notin Succ(r) /\ ~ (NextStarts(r) /\ x[1] = NextPlay)
      <3>1. preds'[x] = preds[x] /\ st'[x] = st[x]
        BY <1>2, <2>4, <2>8
      <3>2. x \notin NextRoots(r)
        BY <2>8, NextIs DEF NextRoots
      <3>3. x \notin Woken(r)
        BY <2>8 DEF Woken
      <3>4. Due(x)' <=> Due(x)
        BY <2>2, <2>3, <2>8, <3>1 DEF Due
      <3> QED
        BY <1>4, <2>1, <3>1, <3>2, <3>3, <3>4
    <2> QED
      BY <2>5, <2>6, <2>7, <2>8
  <1> QED
    BY <1>1, <1>5 DEF StatesOK

(* The requests of a play are as many as their places.                     *)
LEMMA PlayCount ==
  ASSUME NEW p \in Plays, NEW I \in SUBSET OfPlay(p)
  PROVE  LET S == {x \in Reqs : x[1] = p /\ x[2] \in I} IN
         IsFiniteSet(S) /\ Cardinality(S) = Cardinality(I)
PROOF
  <1> DEFINE S == {x \in Reqs : x[1] = p /\ x[2] \in I}
             f == [i \in I |-> <<p, i>>]
  <1>1. \A i \in I : <<p, i>> \in S
    BY ReqIs
  <1>2. \A x \in S : x[2] \in I /\ x = <<p, x[2]>>
    BY ReqIs
  <1> HIDE DEF S
  <1>3. f \in [I -> S]
    BY <1>1
  <1>4. \A x \in S : f[x[2]] = x
    BY <1>2
  <1>5. f \in Surjection(I, S)
    BY <1>2, <1>3, <1>4 DEF Surjection
  <1>6. f \in Injection(I, S)
    BY <1>3 DEF Injection, IsInjective
  <1>7. IsFiniteSet(I)
    BY TraceIs, FS_Subset
  <1> QED
    BY <1>5, <1>6, <1>7, FS_Surjection DEF S

(* The requests of a play that are still to end.                           *)
Left(p) == {x \in Reqs : x[1] = p /\ class[x] # 2 /\ st[x] # "done"}

(* The count of a play that has a request in service is not zero.          *)
LEMMA LeftIs ==
  ASSUME ReplayInv, NEW r \in Active
  PROVE  /\ r[1] \in Plays /\ r \in Left(r[1]) /\ remaining[r[1]] \in Nat /\ remaining[r[1]] > 0
         /\ inFlight[r[1]] \in Nat /\ inFlight[r[1]] > 0 /\ inFlight[r[1]] - 1 \in Nat
PROOF
  <1> DEFINE F == {x \in Active : x[1] = r[1]}
  <1>1. r \in Reqs /\ st[r] = "active" /\ r[1] \in Plays /\ Started(r) /\ class[r] # 2
    BY ActiveIs
  <1>2. r \in Left(r[1]) /\ IsFiniteSet(Left(r[1]))
    BY <1>1, ReqsFinite, FS_Subset DEF Left
  <1>3. remaining[r[1]] = Cardinality(Left(r[1]))
    BY <1>1 DEF ReplayInv, CountersExact, Left, Started
  <1>4. remaining[r[1]] \in Nat /\ remaining[r[1]] > 0
    BY <1>2, <1>3, FS_CardinalityType, FS_EmptySet
  <1>5. r \in F /\ IsFiniteSet(F)
    BY ReqsFinite, FS_Subset DEF Active
  <1>6. inFlight[r[1]] = Cardinality(F)
    BY <1>1 DEF ReplayInv, CountersExact
  <1>7. inFlight[r[1]] \in Nat /\ inFlight[r[1]] # 0
    BY <1>5, <1>6, FS_CardinalityType, FS_EmptySet
  <1>8. inFlight[r[1]] - 1 \in Nat /\ inFlight[r[1]] > 0
    BY <1>7
  <1> QED
    BY <1>1, <1>2, <1>4, <1>7, <1>8

(* The counts stay exact.                                                  *)
LEMMA CompleteCounters ==
  ASSUME ReplayInv, NEW r \in Active, Complete(r)
  PROVE  CountersExact'
PROOF
  <1>1. /\ inFlight' = [inFlight EXCEPT ![r[1]] = inFlight[r[1]] - 1]
        /\ UNCHANGED class
    BY CompleteIs
  <1>2. remaining' = [x \in Plays |->
                        IF x = r[1] THEN remaining[r[1]] - 1
                        ELSE IF NextStarts(r) /\ x = NextPlay THEN Cardinality(OfPlay(x))
                        ELSE remaining[x]]
    BY CompleteIs
  <1>3. inFlight \in [Plays -> Nat]
    BY DEF ReplayInv, ReplayTypeOK
  <1>4. r \in Reqs /\ r[1] \in Plays /\ Started(r)
    BY ActiveIs
  <1>5. \A x \in Reqs : (st'[x] # "done" <=> st[x] # "done" /\ x # r) /\ (x # r => st'[x] = st[x])
    BY CompletePlays
  <1>6. st'[r] = "done" /\ st[r] = "active"
    BY CompletePlays, ActiveIs
  <1>7. Active' = Active \ {r}
    BY <1>5, <1>6 DEF Active
  <1> SUFFICES ASSUME NEW p \in Plays
               PROVE  /\ inFlight'[p] = Cardinality({x \in Active' : x[1] = p})
                      /\ lane'[p] # 0 => remaining'[p] = Cardinality(Left(p)')
    BY DEF CountersExact, Left, Plays
  <1>8. /\ inFlight[p] = Cardinality({x \in Active : x[1] = p})
        /\ lane[p] # 0 => remaining[p] = Cardinality(Left(p))
    BY DEF ReplayInv, CountersExact, Left
  <1>9. IsFiniteSet({x \in Active : x[1] = p}) /\ IsFiniteSet(Left(p))
    BY ReqsFinite, FS_Subset DEF Active, Left
  <1>10. inFlight'[p] = Cardinality({x \in Active' : x[1] = p})
    <2>1. CASE p = r[1]
      <3>1. {x \in Active' : x[1] = p} = {x \in Active : x[1] = p} \ {r}
        BY <1>7
      <3>2. r \in {x \in Active : x[1] = p}
        BY <2>1
      <3>3. Cardinality({x \in Active' : x[1] = p}) = Cardinality({x \in Active : x[1] = p}) - 1
        BY <1>9, <3>1, <3>2, FS_RemoveElement
      <3>4. inFlight'[p] = inFlight[p] - 1
        BY <1>1, <1>3, <2>1
      <3> QED
        BY <1>8, <3>3, <3>4
    <2>2. CASE p # r[1]
      <3>1. {x \in Active' : x[1] = p} = {x \in Active : x[1] = p}
        BY <1>7, <2>2
      <3>2. inFlight'[p] = inFlight[p]
        BY <1>1, <1>3, <2>2
      <3> QED
        BY <1>8, <3>1, <3>2
    <2> QED
      BY <2>1, <2>2
  <1>11. Left(p)' = {x \in Reqs : x[1] = p /\ class[x] # 2 /\ st'[x] # "done"}
    BY <1>1 DEF Left
  <1>12. Left(p)' = Left(p) \ {r}
    BY <1>5, <1>11 DEF Left
  <1>13. lane'[p] # 0 => remaining'[p] = Cardinality(Left(p)')
    <2>1. CASE p = r[1]
      <3>1. r \in Left(p)
        BY <2>1, LeftIs
      <3>2. Cardinality(Left(p) \ {r}) = Cardinality(Left(p)) - 1
        BY <1>9, <3>1, FS_RemoveElement
      <3>3. remaining'[p] = remaining[p] - 1
        BY <1>2, <2>1
      <3>4. lane[p] # 0
        BY <1>4, <2>1 DEF Started
      <3> QED
        BY <1>8, <1>12, <3>2, <3>3, <3>4
    <2>2. CASE p # r[1] /\ ~ (NextStarts(r) /\ p = NextPlay)
      <3>1. Left(p)' = Left(p)
        BY <1>12, <2>2 DEF Left
      <3>2. remaining'[p] = remaining[p]
        BY <1>2, <2>2
      <3>3. lane' = IF NextStarts(r) THEN [lane EXCEPT ![NextPlay] = lane[r[1]]] ELSE lane
        BY CompleteIs
      <3>4. lane'[p] = lane[p]
        <4>1. lane \in [Plays -> Lanes \cup {0}]
          BY DEF ReplayInv, ReplayTypeOK
        <4> QED
          BY <2>2, <3>3, <4>1
      <3> QED
        BY <1>8, <3>1, <3>2, <3>4
    <2>3. CASE p # r[1] /\ NextStarts(r) /\ p = NextPlay
      <3>1. remaining'[p] = Cardinality(OfPlay(p))
        BY <1>2, <2>3
      <3>2. \A x \in Reqs : x[1] = p => class[x] = 0 /\ st[x] = "pending" /\ x # r
        BY <2>3, CompletePlays
      <3>3. Left(p)' = {x \in Reqs : x[1] = p /\ x[2] \in OfPlay(p)}
        BY <1>5, <1>11, <3>2, ReqIs
      <3>4. Cardinality({x \in Reqs : x[1] = p /\ x[2] \in OfPlay(p)}) = Cardinality(OfPlay(p))
        BY PlayCount
      <3> QED
        BY <3>1, <3>3, <3>4
    <2> QED
      BY <2>1, <2>2, <2>3
  <1> QED
    BY <1>10, <1>13

(* A lane whose tree is over has the next one.                             *)
LEMMA CompleteOne ==
  ASSUME ReplayInv, NEW r \in Active, Complete(r)
  PROVE  OneLivePlay'
PROOF
  <1> DEFINE L(l) == {p \in Plays : lane[p] = l /\ remaining[p] > 0}
             M(l) == {p \in Plays : lane'[p] = l /\ remaining'[p] > 0}
             np == NextPlay
             q == r[1]
  <1>1. UNCHANGED phase
    BY CompleteIs
  <1> SUFFICES ASSUME phase # "ended", NEW l \in Lanes
               PROVE  Cardinality(M(l)) = 1
    BY <1>1 DEF OneLivePlay, Lanes, Plays
  <1>2. /\ lane' = IF NextStarts(r) THEN [lane EXCEPT ![np] = lane[q]] ELSE lane
        /\ NextStarts(r) => np \in Plays /\ lane[np] = 0 /\ np # q
    BY CompleteIs
  <1>3. remaining' = [x \in Plays |->
                        IF x = q THEN remaining[q] - 1
                        ELSE IF NextStarts(r) /\ x = np THEN Cardinality(OfPlay(x))
                        ELSE remaining[x]]
    BY CompleteIs
  <1>4. /\ q \in Plays /\ remaining[q] \in Nat /\ remaining[q] > 0 /\ lane[q] # 0
    BY LeftIs, ActiveIs DEF Started
  <1>5. lane \in [Plays -> Lanes \cup {0}] /\ remaining \in [Plays -> Nat] /\ 0 \notin Lanes
    BY DEF ReplayInv, ReplayTypeOK, Lanes
  <1>6. NextStarts(r) <=> remaining[q] = 1
    BY DEF NextStarts
  <1>7. Cardinality(L(l)) = 1
    BY DEF ReplayInv, OneLivePlay
  <1>8. NextStarts(r) => Cardinality(OfPlay(np)) \in Nat /\ Cardinality(OfPlay(np)) > 0
    BY <1>2, TraceIs, FS_CardinalityType, FS_EmptySet
  <1> HIDE DEF np, q
  <1>9. CASE ~ NextStarts(r)
    <2>1. lane' = lane
      BY <1>2, <1>9
    <2>2. \A x \in Plays : remaining'[x] = IF x = q THEN remaining[q] - 1 ELSE remaining[x]
      BY <1>3, <1>9
    <2>3. remaining[q] - 1 > 0
      BY <1>4, <1>6, <1>9
    <2>4. M(l) = L(l)
      BY <1>4, <2>1, <2>2, <2>3
    <2> QED
      BY <1>7, <2>4
  <1>10. CASE NextStarts(r) /\ l = lane[q]
    <2>1. L(l) = {q}
      <3>1. IsFiniteSet(L(l))
        BY ReqsFinite, FS_Subset
      <3>2. \E x : L(l) = {x}
        BY <1>7, <3>1, FS_Singleton
      <3>3. q \in L(l)
        BY <1>4, <1>10
      <3> QED
        BY <3>2, <3>3
    <2>2. lane'[np] = l /\ \A x \in Plays : x # np => lane'[x] = lane[x]
      BY <1>2, <1>5, <1>10
    <2>3. /\ remaining'[np] > 0 /\ ~ (remaining'[q] > 0)
          /\ \A x \in Plays : x # np /\ x # q => remaining'[x] = remaining[x]
      BY <1>2, <1>3, <1>4, <1>6, <1>8, <1>10
    <2>4. \A x \in Plays : x # np /\ x # q => x \notin M(l)
      BY <2>1, <2>2, <2>3
    <2>5. np \in M(l) /\ q \notin M(l)
      BY <1>2, <1>10, <2>2, <2>3
    <2>6. M(l) = {np}
      BY <2>4, <2>5
    <2> QED
      BY <2>6, FS_Singleton
  <1>11. CASE NextStarts(r) /\ l # lane[q]
    <2>1. /\ lane'[np] # l /\ lane[np] # l
          /\ \A x \in Plays : x # np => lane'[x] = lane[x]
      BY <1>2, <1>5, <1>11
    <2>2. \A x \in Plays : x # np /\ x # q => remaining'[x] = remaining[x]
      BY <1>3
    <2>3. lane[q] # l /\ lane'[q] # l
      BY <1>2, <1>4, <1>11, <2>1
    <2>4. M(l) = L(l)
      BY <2>1, <2>2, <2>3
    <2> QED
      BY <1>7, <2>4
  <1> QED
    BY <1>9, <1>10, <1>11

(* The types of what changes.                                              *)
LEMMA CompleteTypes ==
  ASSUME ReplayInv, NEW r \in Active, Complete(r)
  PROVE  ReplayTypeOK'
PROOF
  <1>1. ReplayTypeOK
    BY DEF ReplayInv
  <1>2. r \in Reqs /\ r[1] \in Plays
    BY ActiveIs
  <1>3. /\ st' = [st EXCEPT ![r] = "done"] /\ ends' = [ends EXCEPT ![r] = 0]
        /\ lane' = IF NextStarts(r) THEN [lane EXCEPT ![NextPlay] = lane[r[1]]] ELSE lane
        /\ inFlight' = [inFlight EXCEPT ![r[1]] = inFlight[r[1]] - 1]
        /\ offset' = Shifted(tm', now', Active = {r})
        /\ UNCHANGED <<t0, phase, class>>
    BY CompleteIs
  <1>4. preds' = [x \in Reqs |->
                    IF x \in Succ(r) THEN preds[x] - 1
                    ELSE IF NextStarts(r) /\ x[1] = NextPlay
                           THEN Cardinality(Edges(NextPlay, class, x[2]))
                           ELSE preds[x]]
    BY CompleteIs
  <1>5. remaining' = [x \in Plays |->
                        IF x = r[1] THEN remaining[r[1]] - 1
                        ELSE IF NextStarts(r) /\ x = NextPlay THEN Cardinality(OfPlay(x))
                        ELSE remaining[x]]
    BY CompleteIs
  <1>6. ready' \in [Reqs -> Nat] /\ now' \in Nat
    BY ReadyIs
  <1>7. tm' \in TmType /\ TimersOK(tm')
    BY CompleteArms
  <1>8. offset' \in Nat
    <2>1. IsFiniteSet(tm'.main)
      BY <1>7 DEF TimersOK
    <2>2. offset \in Nat
      BY <1>1 DEF ReplayTypeOK
    <2> QED
      BY <1>3, <1>6, <1>7, <2>1, <2>2, ShiftedIs
  <1>9. st' \in [Reqs -> {"pending", "active", "done"}]
    BY <1>1, <1>3 DEF ReplayTypeOK
  <1>10. ends' \in [Reqs -> Nat]
    BY <1>1, <1>3 DEF ReplayTypeOK
  <1>11. lane' \in [Plays -> Lanes \cup {0}]
    BY <1>1, <1>2, <1>3 DEF ReplayTypeOK
  <1>12. inFlight' \in [Plays -> Nat]
    <2>1. inFlight[r[1]] - 1 \in Nat
      BY LeftIs
    <2>2. inFlight \in [Plays -> Nat]
      BY <1>1 DEF ReplayTypeOK
    <2> QED
      BY <1>3, <2>1, <2>2, Zenon
  <1>13. remaining' \in [Plays -> Nat]
    <2>1. remaining[r[1]] - 1 \in Nat
      BY LeftIs
    <2>2. remaining \in [Plays -> Nat]
      BY <1>1 DEF ReplayTypeOK
    <2>3. \A x \in Plays : Cardinality(OfPlay(x)) \in Nat
      BY TraceIs, FS_CardinalityType
    <2> QED
      BY <1>5, <2>1, <2>2, <2>3
  <1>14. preds' \in [Reqs -> Nat]
    <2>1. \A x \in Succ(r) : preds[x] - 1 \in Nat
      BY SuccIs
    <2>2. preds \in [Reqs -> Nat]
      BY <1>1 DEF ReplayTypeOK
    <2>3. \A x \in Reqs : x[1] = NextPlay => Cardinality(Edges(NextPlay, class, x[2])) \in Nat
      BY WaitsFinite, FS_CardinalityType
    <2> QED
      BY <1>4, <2>1, <2>2, <2>3
  <1> QED
    BY <1>1, <1>3, <1>6, <1>7, <1>8, <1>9, <1>10, <1>11, <1>12, <1>13, <1>14 DEF ReplayTypeOK

(* The end of a request.                                                   *)
LEMMA CompleteKeeps ==
  ASSUME ReplayInv, NEW r \in Active, Complete(r)
  PROVE  ReplayInv'
PROOF
  <1>1. UNCHANGED <<class, phase>>
    BY CompleteIs
  <1>2. TimersOK(tm') /\ (phase # "ended" => ArmedOK(tm'))
    BY CompleteArms
  <1>3. TimersOK(tm)'
    BY <1>1, <1>2 DEF TimersOK, TimersOf, Warmup
  <1>4. phase' # "ended" => ArmedOK(tm)'
    BY <1>1, <1>2 DEF ArmedOK, TimersOf
  <1>5. ReplayTypeOK'
    BY CompleteTypes
  <1>6. PlaysOK'
    BY CompletePlays
  <1>7. StatesOK'
    BY CompleteStates
  <1>8. PredsExact'
    BY CompletePreds
  <1>9. CountersExact'
    BY CompleteCounters
  <1>10. OneLivePlay'
    BY CompleteOne
  <1> QED
    BY <1>3, <1>4, <1>5, <1>6, <1>7, <1>8, <1>9, <1>10 DEF ReplayInv

-----------------------------------------------------------------------------
(* The start of the run.                                                   *)

(* A time that is not before the start.                                    *)
LEMMA NotBefore ==
  ASSUME NEW b \in Int
  PROVE  Max({0, b}) \in Nat
PROOF
  <1>1. IsFiniteSet({0, b}) /\ {0, b} \in SUBSET Int /\ {0, b} # {}
    BY FS_Singleton, FS_AddElement, IsFiniteSet({0} \cup {b}), {0, b} = {0} \cup {b}
  <1>2. Max({0, b}) \in {0, b} /\ \A y \in {0, b} : Max({0, b}) >= y
    BY <1>1, LeastGreatest
  <1> QED
    BY <1>2

(* Where the requests of a first play are put.                             *)
LEMMA ClassesAre ==
  ASSUME NEW p \in Plays, NEW t
  PROVE  /\ \A i \in Ids : Classes(p, t)[i] \in {0, 1, 2, 3}
         /\ \A i \in OfPlay(p) : ~ (TimeOf(p, i) < t) => Classes(p, t)[i] \in {0, 3}
PROOF
  <1> DEFINE before == {i \in OfPlay(p) : TimeOf(p, i) < t}
             agent(i) == Trace(p).agent[i]
             primers == {i \in before :
                           /\ \A j \in before : agent(j) = agent(i) => j <= i
                           /\ \E j \in OfPlay(p) \ before : agent(j) = agent(i)}
             ahead(i) == {j \in OfPlay(p) \ before :
                            \/ TimeOf(p, j) < TimeOf(p, i)
                            \/ TimeOf(p, j) = TimeOf(p, i) /\ j < i}
  <1>1. Classes(p, t) = [i \in Ids |->
                           IF i \notin OfPlay(p) THEN 2
                           ELSE IF i \in primers THEN 1
                           ELSE IF i \in before THEN 2
                           ELSE IF Cardinality(ahead(i)) < WarmBudget THEN 3 ELSE 0]
    BY DEF Classes
  <1>2. \A i \in primers : i \in before
    OBVIOUS
  <1>3. \A i \in before : TimeOf(p, i) < t
    OBVIOUS
  <1>4. OfPlay(p) \subseteq Ids
    BY TraceIs
  <1> HIDE DEF before, primers, ahead
  <1>5. \A i \in Ids : Classes(p, t)[i] \in {0, 1, 2, 3}
    BY <1>1
  <1>6. \A i \in OfPlay(p) : ~ (TimeOf(p, i) < t) => Classes(p, t)[i] \in {0, 3}
    BY <1>1, <1>2, <1>3, <1>4
  <1> QED
    BY <1>5, <1>6

(* The initial state, without the times.                                   *)
InitAs(s, at) ==
  /\ now = 0 /\ t0 = 0 /\ phase = "warmup" /\ offset = 0
  /\ lane = [p \in Plays |-> IF p \in Lanes THEN p ELSE 0]
  /\ class = [r \in Reqs |-> IF r[1] \in Lanes THEN Classes(r[1], s[r[1]])[r[2]] ELSE 0]
  /\ st = [r \in Reqs |-> IF class[r] = 1 THEN "active" ELSE "pending"]
  /\ preds = [r \in Reqs |-> IF r[1] \in Lanes THEN Cardinality(Edges(r[1], class, r[2])) ELSE 0]
  /\ inFlight = [p \in Plays |-> Cardinality({r \in Active : r[1] = p})]
  /\ remaining = [p \in Plays |->
                    IF p \in Lanes THEN Cardinality({i \in OfPlay(p) : class[<<p, i>>] # 2}) ELSE 0]
  /\ ready \in [Reqs -> Nat] /\ ends \in [Reqs -> Nat]
  /\ LET roots == UNION {Roots(p, class) : p \in Lanes} IN
     Pushed(NoTimers, tm, roots, at) /\ Times(roots, at)

(* No timers at all.                                                       *)
LEMMA NoTimersOK ==
  /\ NoTimers \in TmType /\ TimersOK(NoTimers) /\ ArmedOK(NoTimers)
  /\ NoTimers.armed = {} /\ NoTimers.warm = {} /\ NoTimers.main = {}
PROOF
  <1>1. NoTimers.main = {} /\ NoTimers.warm = {} /\ NoTimers.armed = {}
    BY DEF NoTimers
  <1>2. [r \in Reqs |-> 0] \in [Reqs -> Int] /\ [r \in Reqs |-> 0] \in [Reqs -> Nat]
    OBVIOUS
  <1>3. {} \in SUBSET Reqs /\ {} \in SUBSET Entries
    OBVIOUS
  <1>4. NoTimers \in TmType
    BY <1>2, <1>3 DEF NoTimers, TmType
  <1>5. TimersOf(NoTimers) = {}
    BY <1>1 DEF TimersOf
  <1>6. TimersOK(NoTimers)
    BY <1>1, <1>5, FS_EmptySet DEF TimersOK
  <1>7. ArmedOK(NoTimers)
    BY <1>1, <1>5 DEF ArmedOK
  <1> QED
    BY <1>1, <1>4, <1>6, <1>7

(* The initial state is one.                                               *)
LEMMA InitIs ==
  ASSUME Init
  PROVE  \E s \in [Lanes -> TStars] : \E at : InitAs(s, at)
PROOF
  <1>1. PICK s \in [Lanes -> TStars] :
    LET opened(r) == r[1] \in Lanes
        skipped(x) == {e \in Trace(x[1]).edges : e.to = x[2] /\ class[<<x[1], e.from>>] = 2}
        roots == UNION {Roots(p, class) : p \in Lanes}
    IN
    /\ now = 0 /\ t0 = 0 /\ phase = "warmup" /\ offset = 0
    /\ lane = [p \in Plays |-> IF p \in Lanes THEN p ELSE 0]
    /\ class = [r \in Reqs |-> IF opened(r) THEN Classes(r[1], s[r[1]])[r[2]] ELSE 0]
    /\ st = [r \in Reqs |-> IF class[r] = 1 THEN "active" ELSE "pending"]
    /\ \E d \in [Active -> 1 .. MaxService] :
         ends = [r \in Reqs |-> IF r \in Active THEN d[r] ELSE 0]
    /\ preds = [r \in Reqs |-> IF opened(r) THEN Cardinality(Edges(r[1], class, r[2])) ELSE 0]
    /\ ready = [r \in Reqs |-> IF opened(r) /\ class[r] = 0 /\ skipped(r) # {}
                                 THEN Max({0, TimeOf(r[1], r[2]) - s[r[1]]}) ELSE 0]
    /\ inFlight = [p \in Plays |-> Cardinality({r \in Active : r[1] = p})]
    /\ remaining = [p \in Plays |->
                      IF p \in Lanes THEN Cardinality({i \in OfPlay(p) : class[<<p, i>>] # 2}) ELSE 0]
    /\ tm = Push(NoTimers, class, roots,
                 [r \in roots |-> Max({FirstAt(r[1], r[2], class, s[r[1]]), ready[r]})], 0)
    BY DEF Init
  <1> DEFINE skipped(x) == {e \in Trace(x[1]).edges : e.to = x[2] /\ class[<<x[1], e.from>>] = 2}
             roots == UNION {Roots(p, class) : p \in Lanes}
             at == [r \in roots |-> Max({FirstAt(r[1], r[2], class, s[r[1]]), ready[r]})]
  <1>2. \A r \in roots : r \in Reqs /\ r[1] \in Lanes
    BY DEF Roots
  <1>3. \A r \in Reqs : r[1] \in Lanes => TimeOf(r[1], r[2]) - s[r[1]] \in Int
    <2>1. \A p \in Lanes : s[p] \in Nat
      BY ReplayAssumption
    <2>2. \A r \in Reqs : TimeOf(r[1], r[2]) \in Nat
      BY ReqIs, TraceIs
    <2> QED
      BY <2>1, <2>2
  <1>4. ready = [r \in Reqs |-> IF r[1] \in Lanes /\ class[r] = 0 /\ skipped(r) # {}
                                 THEN Max({0, TimeOf(r[1], r[2]) - s[r[1]]}) ELSE 0]
    BY <1>1
  <1>5. tm = Push(NoTimers, class, roots, at, 0)
    BY <1>1
  <1>6. \A r \in roots : at[r] = Max({FirstAt(r[1], r[2], class, s[r[1]]), ready[r]})
    OBVIOUS
  <1> HIDE DEF skipped, roots, at
  <1>7. ready \in [Reqs -> Nat]
    BY <1>3, <1>4, NotBefore
  <1>8. ends \in [Reqs -> Nat]
    <2>1. PICK d \in [Active -> 1 .. MaxService] :
            ends = [r \in Reqs |-> IF r \in Active THEN d[r] ELSE 0]
      BY <1>1
    <2>2. \A k \in 1 .. MaxService : k \in Nat
      BY ReplayAssumption
    <2>3. \A r \in Active : d[r] \in Nat
      BY <2>2
    <2> QED
      BY <2>1, <2>3
  <1>9. \A r \in roots : FirstAt(r[1], r[2], class, s[r[1]]) \in Nat
    BY <1>2, <1>3, NotBefore DEF FirstAt
  <1>10. Times(roots, at)
    <2> SUFFICES ASSUME NEW r \in roots
                 PROVE  at[r] \in Int
      BY DEF Times
    <2>1. FirstAt(r[1], r[2], class, s[r[1]]) \in Nat /\ ready[r] \in Nat
      BY <1>2, <1>7, <1>9
    <2>2. Max({FirstAt(r[1], r[2], class, s[r[1]]), ready[r]}) \in Nat
      BY <2>1, MaxOfTwo
    <2> QED
      BY <1>6, <2>2
  <1>11. Pushed(NoTimers, tm, roots, at)
    <2>1. NoTimers \in TmType /\ roots \in SUBSET Reqs /\ offset \in Nat /\ 0 \in Nat
      BY <1>1, <1>2, NoTimersOK
    <2> QED
      BY <1>5, <1>10, <2>1, PushIs
  <1>12. InitAs(s, at)
    BY <1>1, <1>7, <1>8, <1>10, <1>11 DEF InitAs, roots
  <1> QED
    BY <1>12

(* The first play of every lane has a request to run.                      *)
LEMMA FirstPlays ==
  ASSUME NEW s \in [Lanes -> TStars], NEW at, InitAs(s, at)
  PROVE  /\ Lanes \subseteq Plays /\ class \in [Reqs -> 0 .. 3]
         /\ \A p \in Lanes : \E i \in OfPlay(p) : class[<<p, i>>] # 2
PROOF
  <1>1. Lanes \subseteq Plays
    BY ReplayAssumption DEF Lanes, Plays
  <1>2. class = [r \in Reqs |-> IF r[1] \in Lanes THEN Classes(r[1], s[r[1]])[r[2]] ELSE 0]
    BY DEF InitAs
  <1>3. class \in [Reqs -> 0 .. 3]
    <2>1. \A r \in Reqs : r[1] \in Plays /\ r[2] \in Ids
      BY ReqIs
    <2>2. \A r \in Reqs : Classes(r[1], s[r[1]])[r[2]] \in {0, 1, 2, 3}
      BY <2>1, ClassesAre
    <2>3. \A r \in Reqs : Classes(r[1], s[r[1]])[r[2]] \in 0 .. 3
      BY <2>2
    <2> QED
      BY <1>2, <2>3
  <1>4. ASSUME NEW p \in Lanes
        PROVE  \E i \in OfPlay(p) : class[<<p, i>>] # 2
    <2>1. p \in Plays /\ s[p] \in TStars /\ s[p] \in Nat
      BY <1>1, ReplayAssumption
    <2>2. PICK k \in DOMAIN Traces : Trace(p) = Traces[k]
      BY <2>1, TraceIs
    <2>3. PICK i \in DOMAIN Traces[k].t : \A t \in TStars : t <= Traces[k].t[i]
      BY EdgesAssumption
    <2>4. i \in OfPlay(p) /\ TimeOf(p, i) = Traces[k].t[i]
      BY <2>2 DEF OfPlay, TimeOf
    <2>5. s[p] <= TimeOf(p, i) /\ TimeOf(p, i) \in Nat
      BY <2>1, <2>3, <2>4, TraceIs
    <2>6. Classes(p, s[p])[i] \in {0, 3}
      BY <2>1, <2>4, <2>5, ClassesAre
    <2>7. <<p, i>> \in Reqs
      BY <2>1, <2>4, ReqIs
    <2>8. class[<<p, i>>] = Classes(p, s[p])[i]
      BY <1>2, <2>7
    <2> QED
      BY <2>4, <2>6, <2>8
  <1> QED
    BY <1>1, <1>3, <1>4

(* The invariant holds at the start.                                       *)
LEMMA InitInv ==
  ASSUME Init
  PROVE  ReplayInv
PROOF
  <1>1. PICK s \in [Lanes -> TStars] : \E at : InitAs(s, at)
    BY InitIs
  <1>2. PICK at : InitAs(s, at)
    BY <1>1
  <1> DEFINE roots == UNION {Roots(p, class) : p \in Lanes}
  <1>3. /\ now = 0 /\ t0 = 0 /\ phase = "warmup" /\ offset = 0
        /\ lane = [p \in Plays |-> IF p \in Lanes THEN p ELSE 0]
        /\ class = [r \in Reqs |-> IF r[1] \in Lanes THEN Classes(r[1], s[r[1]])[r[2]] ELSE 0]
        /\ st = [r \in Reqs |-> IF class[r] = 1 THEN "active" ELSE "pending"]
        /\ preds = [r \in Reqs |-> IF r[1] \in Lanes THEN Cardinality(Edges(r[1], class, r[2])) ELSE 0]
        /\ inFlight = [p \in Plays |-> Cardinality({r \in Active : r[1] = p})]
        /\ remaining = [p \in Plays |->
                          IF p \in Lanes THEN Cardinality({i \in OfPlay(p) : class[<<p, i>>] # 2})
                                         ELSE 0]
        /\ ready \in [Reqs -> Nat] /\ ends \in [Reqs -> Nat]
        /\ Pushed(NoTimers, tm, roots, at)
    BY <1>2 DEF InitAs
  <1>4. /\ Lanes \subseteq Plays /\ class \in [Reqs -> 0 .. 3]
        /\ \A p \in Lanes : \E i \in OfPlay(p) : class[<<p, i>>] # 2
    BY <1>2, FirstPlays
  <1>5. \A p \in Lanes : p # 0
    BY DEF Lanes
  <1>6. \A x \in roots : x \in Reqs
    BY DEF Roots
  <1>7. \A x \in Reqs : x \in roots <=> /\ x[1] \in Lanes /\ class[x] \in {0, 3}
                                        /\ Edges(x[1], class, x[2]) = {}
    BY DEF Roots
  <1> HIDE DEF roots
  <1>8. \A x \in Reqs : Started(x) <=> x[1] \in Lanes
    BY <1>3, <1>5, ReqIs DEF Started
  <1>9. tm \in TmType /\ tm.armed = roots
    BY <1>3, NoTimersOK DEF Pushed
  <1>10. TimersOK(tm) /\ ArmedOK(tm)
    <2>1. roots \in SUBSET Reqs /\ \A e \in NoTimers.warm : e.req \notin roots
      BY <1>6, NoTimersOK
    <2> QED
      BY <1>3, <1>9, <2>1, NoTimersOK, PushKeeps
  <1>11. ReplayTypeOK
    <2>1. lane \in [Plays -> Lanes \cup {0}]
      BY <1>3
    <2>2. st \in [Reqs -> {"pending", "active", "done"}]
      BY <1>3
    <2>3. preds \in [Reqs -> Nat]
      BY <1>3, WaitsFinite, FS_CardinalityType
    <2>4. inFlight \in [Plays -> Nat]
      <3>1. \A p \in Plays : IsFiniteSet({r \in Active : r[1] = p})
        BY ReqsFinite, FS_Subset DEF Active
      <3> QED
        BY <1>3, <3>1, FS_CardinalityType
    <2>5. remaining \in [Plays -> Nat]
      <3>1. \A p \in Plays : IsFiniteSet({i \in OfPlay(p) : class[<<p, i>>] # 2})
        BY TraceIs, FS_Subset
      <3> QED
        BY <1>3, <3>1, FS_CardinalityType
    <2> QED
      BY <1>3, <1>4, <1>9, <2>1, <2>2, <2>3, <2>4, <2>5 DEF ReplayTypeOK
  <1>12. \A x \in Reqs : preds[x] = 0 <=> (x[1] \in Lanes => Edges(x[1], class, x[2]) = {})
    BY <1>3, WaitsFinite, FS_EmptySet
  <1>13. StatesOK
    <2> SUFFICES ASSUME NEW x \in Reqs
                 PROVE  /\ st[x] # "pending" => class[x] # 2 /\ preds[x] = 0
                        /\ class[x] = 1 => st[x] # "pending"
                        /\ x \in tm.armed <=> Due(x)
      BY DEF StatesOK
    <2>1. st[x] = IF class[x] = 1 THEN "active" ELSE "pending"
      BY <1>3
    <2>2. class[x] \in 0 .. 3
      BY <1>4
    <2>3. class[x] = 1 => Edges(x[1], class, x[2]) = {}
      BY ReqIs DEF Edges
    <2>4. class[x] \in {0, 3} <=> class[x] # 1 /\ class[x] # 2
      BY <2>2
    <2>5. x \in tm.armed <=> Due(x)
      BY <1>7, <1>8, <1>9, <1>12, <2>1, <2>4 DEF Due
    <2> QED
      BY <1>12, <2>1, <2>3, <2>5
  <1>14. PlaysOK
    <2>1. {p \in Plays : lane[p] # 0} = Lanes
      BY <1>3, <1>4, <1>5
    <2>2. Cardinality(Lanes) = NLanes /\ NLanes \in Nat
      BY ReplayAssumption, FS_Interval DEF Lanes
    <2>3. NextPlay = NLanes + 1
      BY <2>1, <2>2 DEF NextPlay
    <2>4. \A p \in Plays : p \in Nat /\ p > 0
      BY ReplayAssumption DEF Plays
    <2>5. \A p \in Plays : lane[p] # 0 <=> p < NextPlay
      <3>1. \A p \in Plays : lane[p] # 0 <=> p \in Lanes
        BY <1>3, <1>5
      <3>2. \A p \in Plays : p \in Lanes <=> p < NLanes + 1
        BY <2>2, <2>4 DEF Lanes
      <3> QED
        BY <2>3, <3>1, <3>2
    <2>6. \A x \in Reqs : ~ Started(x) => st[x] = "pending" /\ preds[x] = 0 /\ class[x] = 0
      BY <1>3, <1>8
    <2> QED
      BY <2>5, <2>6 DEF PlaysOK
  <1>15. PredsExact
    <2> SUFFICES ASSUME NEW x \in Reqs, Started(x)
                 PROVE  preds[x] = Cardinality(Waits(x))
      BY DEF PredsExact, Waits
    <2>1. \A f \in Edges(x[1], class, x[2]) : <<x[1], f.from>> \in Reqs
      BY ReqIs, EdgeIs DEF Edges
    <2>2. Waits(x) = Edges(x[1], class, x[2])
      BY <1>3, <2>1 DEF Waits
    <2> QED
      BY <1>3, <1>8, <2>2
  <1>16. CountersExact
    <2> SUFFICES ASSUME NEW p \in Plays, lane[p] # 0
                 PROVE  remaining[p] = Cardinality(Left(p))
      BY <1>3 DEF CountersExact, Left
    <2>1. p \in Lanes
      BY <1>3
    <2> DEFINE I == {i \in OfPlay(p) : class[<<p, i>>] # 2}
    <2>2. Left(p) = {x \in Reqs : x[1] = p /\ x[2] \in I}
      <3>1. \A x \in Reqs : st[x] # "done"
        BY <1>3
      <3>2. \A x \in Reqs : x[1] = p => (class[x] # 2 <=> x[2] \in I)
        BY ReqIs
      <3> QED
        BY <3>1, <3>2 DEF Left
    <2>3. Cardinality({x \in Reqs : x[1] = p /\ x[2] \in I}) = Cardinality(I)
      BY PlayCount
    <2> QED
      BY <1>3, <2>1, <2>2, <2>3
  <1>17. OneLivePlay
    <2> SUFFICES ASSUME NEW l \in Lanes
                 PROVE  Cardinality({p \in Plays : lane[p] = l /\ remaining[p] > 0}) = 1
      BY DEF OneLivePlay
    <2>1. \A p \in Plays : lane[p] = l <=> p = l
      BY <1>3, <1>4, <1>5
    <2>2. {i \in OfPlay(l) : class[<<l, i>>] # 2} # {}
      BY <1>4
    <2>3. IsFiniteSet({i \in OfPlay(l) : class[<<l, i>>] # 2})
      BY <1>4, TraceIs, FS_Subset
    <2>4. remaining[l] = Cardinality({i \in OfPlay(l) : class[<<l, i>>] # 2})
      BY <1>3, <1>4
    <2>5. remaining[l] > 0
      <3>1. remaining[l] \in Nat
        BY <2>3, <2>4, FS_CardinalityType
      <3>2. remaining[l] # 0
        BY <2>2, <2>3, <2>4, FS_EmptySet
      <3> QED
        BY <3>1, <3>2
    <2>6. {p \in Plays : lane[p] = l /\ remaining[p] > 0} = {l}
      BY <1>4, <2>1, <2>5
    <2> QED
      BY <2>6, FS_Singleton
  <1> QED
    BY <1>10, <1>11, <1>13, <1>14, <1>15, <1>16, <1>17 DEF ReplayInv

-----------------------------------------------------------------------------
(* What the replay keeps.                                                  *)

(* The invariant holds throughout.                                         *)
THEOREM ReplayInvariant == Spec => []ReplayInv
PROOF
  <1>1. Init => ReplayInv
    BY InitInv
  <1>2. ReplayInv /\ [Next]_replayvars => ReplayInv'
    <2> SUFFICES ASSUME ReplayInv, [Next]_replayvars
                 PROVE  ReplayInv'
      OBVIOUS
    <2>1. CASE \E e \in tm.warm : WarmTimer(e)
      BY <2>1, WarmTimerKeeps
    <2>2. CASE \E e \in tm.main : Timer(e)
      BY <2>2, TimerKeeps
    <2>3. CASE \E e \in tm.main : StaleTimer(e)
      BY <2>3, StaleTimerKeeps
    <2>4. CASE \E r \in Active : Complete(r)
      BY <2>4, CompleteKeeps
    <2>5. CASE HandOff
      BY <2>5, HandOffKeeps
    <2>6. CASE End
      BY <2>6, EndKeeps
    <2>7. CASE UNCHANGED replayvars
      <3>1. UNCHANGED <<now, t0, phase, offset, play, tm>>
        BY <2>7 DEF replayvars
      <3>2. ReplayTypeOK /\ TimersOK(tm) /\ (phase # "ended" => ArmedOK(tm))
        BY DEF ReplayInv
      <3>3. TimersOK(tm)' /\ (phase # "ended" => ArmedOK(tm)')
        BY <3>1, <3>2 DEF TimersOK, ArmedOK, TimersOf, Warmup, play
      <3> QED
        BY <3>1, <3>2, <3>3, TimersChange DEF ReplayTypeOK
    <2> QED
      BY <2>1, <2>2, <2>3, <2>4, <2>5, <2>6, <2>7 DEF Next
  <1> QED
    BY <1>1, <1>2, PTL DEF Spec

(* Every variable keeps its type: no count goes below zero, and the clock  *)
(* and the shift of the timers stay natural numbers.                       *)
THEOREM ReplayTypesTheorem == Spec => []ReplayTypeOK
PROOF
  <1>1. ReplayInv => ReplayTypeOK
    BY DEF ReplayInv
  <1> QED
    BY <1>1, ReplayInvariant, PTL

(* A request has one live timer if it is armed, else none.                 *)
LEMMA LiveIs ==
  ASSUME ReplayInv, phase # "ended", NEW r \in Reqs
  PROVE  /\ r \in tm.armed => \E e \in TimersOf(tm) : Live(r) = {e}
         /\ r \notin tm.armed => Live(r) = {}
PROOF
  <1>1. TimersOK(tm) /\ ArmedOK(tm)
    BY DEF ReplayInv
  <1>2. \A e : e \in Live(r) <=> e \in TimersOf(tm) /\ e.req = r /\ e.ver = tm.ver[r]
    BY DEF Live, Stale, TimersOf
  <1>3. r \in tm.armed <=> (\E e \in TimersOf(tm) : e.req = r /\ e.ver = tm.ver[r])
    BY <1>1 DEF ArmedOK
  <1>4. \A e, f \in Live(r) : e = f
    BY <1>1, <1>2 DEF TimersOK
  <1>5. ASSUME r \in tm.armed
        PROVE  \E e \in TimersOf(tm) : Live(r) = {e}
    <2>1. PICK e \in TimersOf(tm) : e.req = r /\ e.ver = tm.ver[r]
      BY <1>3, <1>5
    <2>2. Live(r) = {e}
      BY <1>2, <1>4, <2>1
    <2> QED
      BY <2>2
  <1>6. r \notin tm.armed => Live(r) = {}
    BY <1>2, <1>3
  <1> QED
    BY <1>5, <1>6

(* No wake-up is lost or doubled: until the end, exactly the requests that *)
(* are due have a live timer, and one only, however often the idle caps    *)
(* re-arm them (engine.cpp: push_timer, cap_tree_idle, run).               *)
THEOREM TimerTheorem == Spec => []TimerExact
PROOF
  <1>1. ReplayInv => TimerExact
    <2> SUFFICES ASSUME ReplayInv, phase # "ended", NEW r \in Reqs
                 PROVE  /\ Cardinality(Live(r)) = (IF Due(r) THEN 1 ELSE 0)
                        /\ r \in tm.armed <=> Due(r)
      BY DEF TimerExact
    <2>1. r \in tm.armed <=> Due(r)
      BY DEF ReplayInv, StatesOK
    <2>2. r \in tm.armed => Cardinality(Live(r)) = 1
      BY LiveIs, FS_Singleton
    <2>3. r \notin tm.armed => Cardinality(Live(r)) = 0
      BY LiveIs, FS_EmptySet
    <2> QED
      BY <2>1, <2>2, <2>3
  <1> QED
    BY <1>1, ReplayInvariant, PTL

(* preds_left is the number of predecessors still to end, across the       *)
(* snapshot and the warmup (engine.cpp: start_play, after_done).           *)
THEOREM PredsTheorem == Spec => []PredsExact
PROOF
  <1>1. ReplayInv => PredsExact
    BY DEF ReplayInv
  <1> QED
    BY <1>1, ReplayInvariant, PTL

(* in_flight and remaining of a play are what they stand for (engine.cpp:  *)
(* on_ready, after_done).                                                  *)
THEOREM CountersTheorem == Spec => []CountersExact
PROOF
  <1>1. ReplayInv => CountersExact
    BY DEF ReplayInv
  <1> QED
    BY <1>1, ReplayInvariant, PTL

(* Until the run ends each lane has one tree that is not over (engine.cpp: *)
(* after_done).                                                            *)
THEOREM OneLiveTheorem == Spec => []OneLivePlay
PROOF
  <1>1. ReplayInv => OneLivePlay
    BY DEF ReplayInv
  <1> QED
    BY <1>1, ReplayInvariant, PTL

-----------------------------------------------------------------------------
(* The idle cap of a tree.                                                 *)

(* A pushed timer is stored at its due time.                               *)
LEMMA PushedDue ==
  ASSUME NEW m \in TmType, NEW n, NEW S \in SUBSET Reqs, NEW at, Pushed(m, n, S, at),
         Times(S, at), offset \in Nat, TimersOK(m), DueOK(m)
  PROVE  DueOK(n)
PROOF
  <1> SUFFICES ASSUME NEW e \in n.main, e.ver = n.ver[e.req]
               PROVE  e.stored <= n.due[e.req] + offset
    BY DEF DueOK
  <1>1. n \in TmType
    BY DEF Pushed
  <1>2. e.req \in Reqs /\ e.stored \in Int /\ e.ver \in Nat
    BY <1>1, TmIs DEF TimersOf
  <1>3. /\ n.ver[e.req] = IF e.req \in S THEN m.ver[e.req] + 1 ELSE m.ver[e.req]
        /\ n.due[e.req] = IF e.req \in S THEN at[e.req] ELSE m.due[e.req]
    BY <1>2 DEF Pushed
  <1>4. e \in m.main \/ (e.req \in S /\ e.stored = at[e.req] + offset)
    BY DEF Pushed
  <1>5. m.ver[e.req] \in Nat
    BY <1>2, TmIs
  <1>6. CASE e \in m.main
    <2>1. e.ver <= m.ver[e.req]
      BY <1>6 DEF TimersOK, TimersOf
    <2>2. e.req \notin S
      BY <1>2, <1>3, <1>5, <2>1
    <2> QED
      BY <1>3, <1>6, <2>2 DEF DueOK
  <1>7. CASE e.req \in S /\ e.stored = at[e.req] + offset
    <2>1. at[e.req] \in Int
      BY <1>7 DEF Times
    <2> QED
      BY <1>3, <1>7, <2>1
  <1> QED
    BY <1>4, <1>6, <1>7

(* So is one that a cap re-arms.                                           *)
LEMMA CappedDue ==
  ASSUME NEW m \in TmType, NEW P \in SUBSET Plays, NEW clock \in Nat, offset \in Nat,
         TimersOK(m), DueOK(m)
  PROVE  DueOK(Capped(m, P, clock))
PROOF
  <1>1. PICK S \in SUBSET m.armed : \E at : Pushed(m, Capped(m, P, clock), S, at) /\ Times(S, at)
    BY CappedIs
  <1>2. PICK at : Pushed(m, Capped(m, P, clock), S, at) /\ Times(S, at)
    BY <1>1
  <1>3. S \in SUBSET Reqs
    BY TmIs
  <1> QED
    BY <1>2, <1>3, PushedDue

(* The first request of a new play wakes up at once.                       *)
LEMMA FirstRoot ==
  ASSUME ReplayInv, NextPlay \in Plays
  PROVE  \E x \in Roots(NextPlay, class) : TimeOf(x[1], x[2]) = FirstTime(x[1])
PROOF
  <1> DEFINE p == NextPlay
  <1>1. PICK i \in OfPlay(p) : /\ \A j \in OfPlay(p) : ~ Before(p, j, i)
                               /\ TimeOf(p, i) = FirstTime(p)
    <2>1. OfPlay(p) # {} /\ \A i \in OfPlay(p) : TimeOf(p, i) \in Nat
      BY TraceIs
    <2>2. PICK i \in OfPlay(p) : /\ \A j \in OfPlay(p) : ~ Before(p, j, i)
                                 /\ \A j \in OfPlay(p) : TimeOf(p, i) <= TimeOf(p, j)
      BY <2>1, FirstOf
    <2>3. PICK j \in OfPlay(p) : TimeOf(p, j) = FirstTime(p)
      BY FirstTimeIs
    <2>4. TimeOf(p, i) <= FirstTime(p) /\ FirstTime(p) <= TimeOf(p, i)
      BY <2>2, <2>3, FirstTimeIs
    <2>5. FirstTime(p) \in Nat /\ TimeOf(p, i) \in Nat
      BY <2>1, FirstTimeIs
    <2> QED
      BY <2>2, <2>4, <2>5
  <1>2. <<p, i>> \in Reqs
    BY ReqIs
  <1>3. class[<<p, i>>] = 0
    <2>1. ~ Started(<<p, i>>)
      BY NextIs DEF Started
    <2> QED
      BY <1>2, <2>1 DEF ReplayInv, PlaysOK
  <1>4. Edges(p, class, i) = {}
    <2> SUFFICES ASSUME NEW e \in Trace(p).edges, e.to = i
                 PROVE  FALSE
      BY DEF Edges
    <2>1. e.from \in OfPlay(p)
      BY EdgeIs
    <2> QED
      BY <1>1, <2>1, EdgeBefore
  <1>5. <<p, i>> \in Roots(p, class)
    BY <1>2, <1>3, <1>4 DEF Roots
  <1> QED
    BY <1>1, <1>5

(* A play whose requests wait while none of it is in flight.               *)
Idle(m, p) == inFlight[p] = 0 /\ Pending(m, p) # {}
Soon(m, p, clock) == \E r \in Pending(m, p) : m.due[r] <= clock + TreeCap

(* The firing of a timer.                                                  *)
LEMMA RunGap ==
  ASSUME ReplayInv, phase # "ended", GapInv, NEW e \in TimersOf(tm), e.ver = tm.ver[e.req],
         now' \in Nat, now' >= now, tm' = Fired(e), Start(e.req, now'),
         UNCHANGED <<t0, phase, offset>>
  PROVE  GapInv'
PROOF
  <1> DEFINE r == e.req
  <1>1. /\ r \in Reqs /\ \A f \in TimersOf(tm) : f.req = r /\ f.ver = tm.ver[r] => f = e
    BY LiveDue
  <1>2. tm \in TmType /\ now \in Nat /\ inFlight \in [Plays -> Nat] /\ TreeCap \in Nat
    BY ReplayAssumption DEF ReplayInv, ReplayTypeOK
  <1>3. /\ tm'.armed = tm.armed \ {r} /\ tm'.ver = tm.ver /\ tm'.main = tm.main \ {e}
    BY <1>2, FiredIs
  <1>4. tm.due \in [Reqs -> Int]
    BY <1>2, TmIs
  <1>5. \A x \in Reqs : x # r => tm'.due[x] = tm.due[x]
    BY <1>4 DEF Fired
  <1>6. /\ inFlight' = [inFlight EXCEPT ![r[1]] = inFlight[r[1]] + 1]
        /\ UNCHANGED <<class, phase, offset>>
    BY DEF Start
  <1> HIDE DEF r
  <1>7. r[1] \in Plays
    BY <1>1, ReqIs
  <1>8. DueOK(tm)'
    <2> SUFFICES ASSUME NEW f \in tm'.main, f.ver = tm'.ver[f.req]
                 PROVE  f.stored <= tm'.due[f.req] + offset
      BY <1>6 DEF DueOK
    <2>1. f \in tm.main /\ f # e /\ f \in TimersOf(tm) /\ f.req \in Reqs /\ f.ver = tm.ver[f.req]
      BY <1>2, <1>3, TmIs DEF TimersOf
    <2>2. f.req # r
      BY <1>1, <2>1
    <2> QED
      BY <1>5, <2>1, <2>2 DEF GapInv, DueOK
  <1>9. ASSUME phase = "profile", TreeCap > 0, NEW p \in Plays, inFlight'[p] = 0,
               Pending(tm, p)' # {}
        PROVE  \E x \in Pending(tm, p)' : tm'.due[x] <= now' + TreeCap
    <2>1. p # r[1]
      BY <1>2, <1>6, <1>7, <1>9
    <2>2. inFlight[p] = 0
      BY <1>2, <1>6, <1>9, <2>1
    <2>3. Pending(tm, p)' = Pending(tm, p)
      BY <1>3, <1>6, <2>1 DEF Pending, Warmup
    <2>4. PICK x \in Pending(tm, p) : tm.due[x] <= now + TreeCap
      BY <1>9, <2>2, <2>3 DEF GapInv
    <2>5. x \in Reqs /\ x # r /\ tm.due[x] \in Int
      BY <1>4, <2>1 DEF Pending
    <2>6. tm'.due[x] <= now' + TreeCap
      BY <1>2, <1>5, <2>4, <2>5
    <2> QED
      BY <2>3, <2>6
  <1> QED
    BY <1>6, <1>8, <1>9 DEF GapInv

(* Timers that go.                                                         *)
LEMMA GoGap ==
  ASSUME ReplayInv, GapInv, UNCHANGED <<now, offset, phase, class, inFlight>>,
         tm'.main \subseteq tm.main, tm'.ver = tm.ver, tm'.due = tm.due, tm'.armed = tm.armed
  PROVE  GapInv'
PROOF
  <1>1. DueOK(tm)'
    BY DEF GapInv, DueOK
  <1>2. ASSUME phase = "profile", TreeCap > 0, NEW p \in Plays, inFlight'[p] = 0,
               Pending(tm, p)' # {}
        PROVE  \E x \in Pending(tm, p)' : tm'.due[x] <= now' + TreeCap
    <2>1. Pending(tm, p)' = Pending(tm, p)
      BY DEF Pending, Warmup
    <2>2. PICK x \in Pending(tm, p) : tm.due[x] <= now + TreeCap
      BY <1>2, <2>1 DEF GapInv
    <2> QED
      BY <2>1, <2>2
  <1> QED
    BY <1>1, <1>2 DEF GapInv

(* The hand-off caps all plays that have nothing in flight.                *)
LEMMA HandOffGap ==
  ASSUME ReplayInv, GapInv, HandOff
  PROVE  GapInv'
PROOF
  <1> DEFINE wait(r) == tm.due[r] - tm.base[r]
             S == AllPending(tm)
             at == [r \in S |-> now + wait(r) - Min({wait(x) : x \in S})]
             m == Push(tm, class, S, at, now)
             P == {p \in Plays : lane[p] # 0 /\ inFlight[p] = 0}
  <1>1. tm \in TmType /\ now \in Nat /\ offset \in Nat /\ TimersOK(tm) /\ StatesOK
    BY DEF ReplayInv, ReplayTypeOK
  <1>2. Times(S, at)
    BY <1>1, HandOffTimes
  <1>3. tm' = Capped(m, P, now)
    BY DEF HandOff, AllPending
  <1>4. /\ phase = "warmup" /\ tm.warm = {} /\ UNCHANGED <<now, offset, inFlight, class>>
    BY DEF HandOff, play
  <1>5. \A r \in S : r \in Reqs /\ r \in tm.armed
    BY DEF Pending, AllPending
  <1>6. \A p \in Plays : p \in P <=> lane[p] # 0 /\ inFlight[p] = 0
    OBVIOUS
  <1> HIDE DEF S, at, m, P
  <1>7. S \in SUBSET Reqs
    BY <1>5
  <1>8. Pushed(tm, m, S, at)
    BY <1>1, <1>2, <1>7, PushIs DEF m
  <1>9. m \in TmType /\ m.armed = tm.armed
    BY <1>5, <1>8 DEF Pushed
  <1>10. TimersOK(m) /\ DueOK(m)
    BY <1>1, <1>2, <1>4, <1>7, <1>8, <1>9, PushKeeps, PushedDue DEF GapInv
  <1>11. P \in SUBSET Plays
    BY DEF P
  <1>12. DueOK(tm') /\ tm'.armed = m.armed
    BY <1>1, <1>3, <1>9, <1>10, <1>11, CappedDue, CappedKeeps
  <1>13. DueOK(tm)'
    BY <1>4, <1>12 DEF DueOK
  <1>14. ASSUME TreeCap > 0, NEW p \in Plays, inFlight'[p] = 0, Pending(tm, p)' # {}
         PROVE  \E x \in Pending(tm, p)' : tm'.due[x] <= now' + TreeCap
    <2>1. Pending(tm, p)' = Pending(m, p)
      BY <1>4, <1>12 DEF Pending, Warmup
    <2>2. PICK x \in Pending(m, p) : TRUE
      BY <1>14, <2>1
    <2>3. x \in Reqs /\ x \in tm.armed /\ x[1] = p
      BY <1>9 DEF Pending
    <2>4. lane[p] # 0
      BY <1>1, <1>4, <2>3 DEF StatesOK, Due, Started
    <2>5. p \in P
      BY <1>4, <1>6, <1>14, <2>4
    <2>6. \E y \in Pending(m, p) : tm'.due[y] <= now + TreeCap
      BY <1>1, <1>3, <1>9, <1>11, <1>14, <2>1, <2>5, CappedIs
    <2> QED
      BY <1>4, <2>1, <2>6
  <1> QED
    BY <1>13, <1>14 DEF GapInv

(* Requests of other plays.                                                *)
Elsewhere(S, p) == \A x \in S : x[1] # p

(* Pushing timers of other requests leaves one due.                        *)
LEMMA PushedOther ==
  ASSUME NEW m \in TmType, NEW n, NEW S \in SUBSET Reqs, NEW at, Pushed(m, n, S, at),
         NEW p \in Plays, Elsewhere(S, p)
  PROVE  /\ Pending(n, p) = Pending(m, p)
         /\ \A x \in Pending(m, p) : n.due[x] = m.due[x]
PROOF
  <1>1. n.armed = m.armed \cup S /\ \A x \in Reqs : n.due[x] = IF x \in S THEN at[x] ELSE m.due[x]
    BY DEF Pushed
  <1>2. Pending(n, p) = Pending(m, p)
    BY <1>1 DEF Pending, Elsewhere
  <1>3. \A x \in Pending(m, p) : x \in Reqs /\ x[1] = p
    BY DEF Pending
  <1> QED
    BY <1>1, <1>2, <1>3 DEF Elsewhere

(* The end of a request caps its play.                                     *)
LEMMA CompleteGap ==
  ASSUME ReplayInv, GapInv, NEW r \in Active, Complete(r)
  PROVE  GapInv'
PROOF
  <1>1. PICK m1 \in TmType, m2 \in TmType : \E at : CompleteSteps(r, m1, m2, at)
    BY CompleteTimers
  <1>2. PICK at : CompleteSteps(r, m1, m2, at)
    BY <1>1
  <1>3. tm \in TmType /\ TimersOK(tm) /\ offset \in Nat /\ now \in Nat /\ TreeCap \in Nat
    BY ReplayAssumption DEF ReplayInv, ReplayTypeOK
  <1>4. /\ Pushed(tm, m1, Woken(r), ready') /\ Pushed(m2, tm', NextRoots(r), at)
        /\ m2 = IF inFlight[r[1]] = 1 /\ phase # "warmup" THEN Capped(m1, {r[1]}, now') ELSE m1
        /\ \A x \in NextRoots(r) : at[x] = now' + TimeOf(x[1], x[2]) - FirstTime(x[1])
    BY <1>2 DEF CompleteSteps
  <1>5. ready' \in [Reqs -> Nat] /\ now' \in Nat /\ now' >= now
    BY ReadyIs
  <1>6. /\ inFlight' = [inFlight EXCEPT ![r[1]] = inFlight[r[1]] - 1]
        /\ offset' = Shifted(tm', now', Active = {r}) /\ UNCHANGED <<t0, phase, class>>
        /\ NextStarts(r) => NextPlay \in Plays /\ lane[NextPlay] = 0 /\ NextPlay # r[1]
    BY CompleteIs
  <1>7. r[1] \in Plays /\ inFlight \in [Plays -> Nat]
    BY ActiveIs DEF ReplayInv, ReplayTypeOK
  <1>8. \A x \in Woken(r) : x \in Reqs /\ x[1] = r[1] /\ x \notin tm.armed /\ phase # "ended"
    BY SuccIs DEF Woken
  <1>9. \A x \in NextRoots(r) : /\ x \in Reqs /\ x[1] = NextPlay /\ class[x] = 0
                                /\ NextStarts(r) /\ NextPlay \in Plays
    BY NextIs DEF NextRoots
  <1>10. Woken(r) \in SUBSET Reqs /\ NextRoots(r) \in SUBSET Reqs /\ {r[1]} \in SUBSET Plays
    BY <1>7, <1>8, <1>9
  <1>11. Times(Woken(r), ready')
    BY <1>5, <1>10 DEF Times
  <1>12. Times(NextRoots(r), at)
    <2>1. \A x \in Reqs : TimeOf(x[1], x[2]) \in Nat /\ FirstTime(x[1]) \in Nat
      BY ReqIs, TraceIs, FirstTimeIs
    <2>2. \A x \in NextRoots(r) : at[x] \in Int
      BY <1>4, <1>5, <1>10, <2>1
    <2> QED
      BY <2>2 DEF Times
  <1>13. TimersOK(m1)
    <2>1. ASSUME NEW e \in tm.warm, e.req \in Woken(r)
          PROVE  FALSE
      <3>1. e.ver = tm.ver[e.req] /\ e \in TimersOf(tm)
        BY <1>3 DEF TimersOK, TimersOf
      <3>2. e.req \in Reqs /\ e.req \notin tm.armed /\ phase # "ended"
        BY <1>8, <2>1
      <3> QED
        BY <3>1, <3>2 DEF ReplayInv, ArmedOK
    <2> QED
      BY <1>3, <1>4, <1>10, <2>1, PushKeeps
  <1>14. DueOK(m1)
    BY <1>3, <1>4, <1>10, <1>11, PushedDue DEF GapInv
  <1>15. TimersOK(m2) /\ DueOK(m2)
    <2>1. /\ TimersOK(Capped(m1, {r[1]}, now')) /\ DueOK(Capped(m1, {r[1]}, now'))
      BY <1>3, <1>5, <1>10, <1>13, <1>14, CappedKeeps, CappedDue
    <2> QED
      BY <1>4, <1>13, <1>14, <2>1
  <1>16. DueOK(tm')
    BY <1>3, <1>4, <1>10, <1>12, <1>15, PushedDue
  <1>17. tm' \in TmType /\ TimersOK(tm')
    BY CompleteArms
  <1>18. offset' \in Nat /\ offset' >= offset
    <2>1. IsFiniteSet(tm'.main)
      BY <1>17 DEF TimersOK
    <2> QED
      BY <1>3, <1>5, <1>6, <1>17, <2>1, ShiftedIs
  <1>19. DueOK(tm)'
    <2> SUFFICES ASSUME NEW e \in tm'.main, e.ver = tm'.ver[e.req]
                 PROVE  e.stored <= tm'.due[e.req] + offset'
      BY DEF DueOK
    <2>1. e.stored \in Int /\ e.req \in Reqs
      BY <1>17, TmIs DEF TimersOf
    <2>2. tm'.due[e.req] \in Int
      BY <1>17, <2>1, TmIs
    <2>3. e.stored <= tm'.due[e.req] + offset
      BY <1>16 DEF DueOK
    <2> QED
      BY <1>3, <1>18, <2>1, <2>2, <2>3
  <1>20. Pushed(tm, m1, Woken(r), ready') /\ Pushed(m2, tm', NextRoots(r), at)
    BY <1>4
  <1>21. ASSUME phase = "profile", TreeCap > 0, NEW p \in Plays, inFlight'[p] = 0,
                Pending(tm, p)' # {}
         PROVE  \E x \in Pending(tm, p)' : tm'.due[x] <= now' + TreeCap
    <2>1. Pending(tm, p)' = Pending(tm', p)
      BY <1>6 DEF Pending, Warmup
    <2>2. CASE p = r[1]
      <3>1. inFlight[p] = 1
        BY <1>6, <1>7, <1>21, <2>2
      <3>2. m2 = Capped(m1, {p}, now')
        BY <1>4, <1>21, <2>2, <3>1
      <3>3. Elsewhere(NextRoots(r), p)
        BY <1>6, <1>9, <2>2 DEF Elsewhere
      <3>4. Pending(tm', p) = Pending(m2, p) /\ \A x \in Pending(m2, p) : tm'.due[x] = m2.due[x]
        BY <1>10, <1>20, <3>3, PushedOther
      <3>5. Pending(m2, p) = Pending(m1, p)
        <4>1. m2.armed = m1.armed
          BY <1>3, <1>5, <1>10, <1>13, <2>2, <3>2, CappedKeeps
        <4> QED
          BY <4>1 DEF Pending
      <3>6. \E x \in Pending(m1, p) : m2.due[x] <= now' + TreeCap
        <4>1. \A x \in {p} : Pending(m1, x) # {} => \E y \in Pending(m1, x) : m2.due[y] <= now' + TreeCap
          BY <1>3, <1>5, <1>10, <1>21, <2>2, <3>2, CappedIs
        <4> QED
          BY <1>21, <2>1, <3>4, <3>5, <4>1
      <3> QED
        BY <2>1, <3>4, <3>5, <3>6
    <2>3. CASE p # r[1] /\ NextStarts(r) /\ p = NextPlay
      <3>1. PICK x \in Roots(NextPlay, class) : TimeOf(x[1], x[2]) = FirstTime(x[1])
        BY <1>6, <2>3, FirstRoot
      <3>2. x \in NextRoots(r) /\ x \in Reqs /\ x[1] = p /\ class[x] = 0
        BY <1>9, <2>3, <3>1 DEF NextRoots
      <3>3. FirstTime(x[1]) \in Nat
        BY <3>2, FirstTimeIs
      <3>4. at[x] = now'
        BY <1>4, <1>5, <3>1, <3>2, <3>3
      <3>5. tm'.due[x] = at[x] /\ x \in tm'.armed
        BY <1>4, <3>2 DEF Pushed
      <3>6. x \in Pending(tm', p)
        BY <3>2, <3>5 DEF Pending, Warmup
      <3>7. tm'.due[x] <= now' + TreeCap
        <4>1. \A a, b \in Nat : a <= a + b
          OBVIOUS
        <4>2. now' <= now' + TreeCap
          BY <1>3, <1>5, <4>1
        <4> QED
          BY <3>4, <3>5, <4>2
      <3> QED
        BY <2>1, <3>6, <3>7
    <2>4. CASE p # r[1] /\ ~ (NextStarts(r) /\ p = NextPlay)
      <3>1. Elsewhere(NextRoots(r), p)
        BY <1>9, <2>4 DEF Elsewhere
      <3>2. Elsewhere(Woken(r), p)
        BY <1>8, <2>4 DEF Elsewhere
      <3>3. Pending(m1, p) = Pending(tm, p) /\ \A x \in Pending(tm, p) : m1.due[x] = tm.due[x]
        BY <1>3, <1>10, <1>20, <3>2, PushedOther
      <3>4. Pending(m2, p) = Pending(m1, p) /\ \A x \in Pending(m1, p) : m2.due[x] = m1.due[x]
        <4>1. CASE m2 = m1
          BY <4>1
        <4>2. CASE m2 = Capped(m1, {r[1]}, now')
          <5>1. PICK S \in SUBSET m1.armed : \E a : Pushed(m1, m2, S, a) /\ \A x \in S : x[1] \in {r[1]}
            BY <1>3, <1>5, <1>10, <4>2, CappedIs
          <5>2. PICK a : Pushed(m1, m2, S, a)
            BY <5>1
          <5>3. S \in SUBSET Reqs
            BY TmIs
          <5>4. Elsewhere(S, p)
            BY <2>4, <5>1 DEF Elsewhere
          <5> QED
            BY <5>2, <5>3, <5>4, PushedOther
        <4> QED
          BY <1>4, <4>1, <4>2
      <3>5. Pending(tm', p) = Pending(m2, p) /\ \A x \in Pending(m2, p) : tm'.due[x] = m2.due[x]
        BY <1>10, <1>20, <3>1, PushedOther
      <3>6. inFlight[p] = 0
        BY <1>6, <1>7, <1>21, <2>4
      <3>7. PICK x \in Pending(tm, p) : tm.due[x] <= now + TreeCap
        BY <1>21, <2>1, <3>3, <3>4, <3>5, <3>6 DEF GapInv
      <3>8. tm'.due[x] = tm.due[x] /\ x \in Pending(tm', p)
        BY <3>3, <3>4, <3>5
      <3>9. tm.due[x] \in Int
        <4>1. x \in Reqs
          BY DEF Pending
        <4> QED
          BY <1>3, <4>1, TmIs
      <3>10. tm'.due[x] <= now' + TreeCap
        BY <1>3, <1>5, <3>7, <3>8, <3>9
      <3> QED
        BY <2>1, <3>8, <3>10
    <2> QED
      BY <2>2, <2>3, <2>4
  <1> QED
    BY <1>6, <1>19, <1>21 DEF GapInv

(* Steps that leave the plays alone.                                       *)
LEMMA StillGap ==
  ASSUME ReplayInv, GapInv, UNCHANGED replayvars
  PROVE  GapInv'
PROOF
  <1>1. UNCHANGED <<now, offset, phase, class, inFlight, tm>>
    BY DEF replayvars, play
  <1>2. /\ tm'.main \subseteq tm.main /\ tm'.ver = tm.ver /\ tm'.due = tm.due
        /\ tm'.armed = tm.armed
    BY <1>1
  <1> QED
    BY <1>1, <1>2, GoGap

(* Every step keeps the trees capped.                                      *)
LEMMA NextGap ==
  ASSUME ReplayInv, GapInv, [Next]_replayvars
  PROVE  GapInv'
PROOF
  <1>1. ASSUME NEW e \in tm.warm, WarmTimer(e)
        PROVE  GapInv'
    <2>1. e \in TimersOf(tm) /\ e.ver = tm.ver[e.req] /\ phase # "ended"
      BY <1>1 DEF ReplayInv, TimersOK, TimersOf, WarmTimer
    <2>2. now \in Nat /\ e.stored \in Int
      BY <2>1, TmIs DEF ReplayInv, ReplayTypeOK
    <2>3. now' \in Nat /\ now' >= now
      BY <1>1, <2>2, LaterIs DEF WarmTimer
    <2> QED
      BY <1>1, <2>1, <2>3, RunGap DEF WarmTimer
  <1>2. ASSUME NEW e \in tm.main, Timer(e)
        PROVE  GapInv'
    <2>1. e \in TimersOf(tm) /\ e.ver = tm.ver[e.req] /\ phase # "ended"
      BY <1>2 DEF Timer, TakesTimer, Stale, TimersOf
    <2>2. now \in Nat /\ e.stored - offset \in Int /\ now' = Later(e.stored - offset)
      BY <1>2, <2>1, TmIs DEF ReplayInv, ReplayTypeOK, Timer
    <2>3. now' \in Nat /\ now' >= now
      BY <2>2, LaterIs
    <2> QED
      BY <1>2, <2>1, <2>3, RunGap DEF Timer
  <1>3. ASSUME NEW e \in tm.main, StaleTimer(e)
        PROVE  GapInv'
    <2>1. /\ UNCHANGED <<now, offset, phase, class, inFlight>>
          /\ tm' = [tm EXCEPT !.main = tm.main \ {e}]
      BY <1>3 DEF StaleTimer, play
    <2>2. tm \in TmType
      BY DEF ReplayInv, ReplayTypeOK
    <2>3. /\ tm'.main \subseteq tm.main /\ tm'.ver = tm.ver /\ tm'.due = tm.due
          /\ tm'.armed = tm.armed
      BY <2>1, <2>2 DEF TmType
    <2> QED
      BY <2>1, <2>3, GoGap
  <1>4. ASSUME End
        PROVE  GapInv'
    <2>1. tm' = [tm EXCEPT !.main = {}] /\ phase' = "ended"
      BY <1>4 DEF End
    <2>2. tm \in TmType
      BY DEF ReplayInv, ReplayTypeOK
    <2>3. tm'.main = {}
      BY <2>1, <2>2 DEF TmType
    <2> QED
      BY <2>1, <2>3 DEF GapInv, DueOK
  <1>5. CASE UNCHANGED replayvars
    BY <1>5, StillGap
  <1> QED
    BY <1>1, <1>2, <1>3, <1>4, <1>5, CompleteGap, HandOffGap DEF Next

(* While the run is measured, a tree with nothing in flight whose requests *)
(* wait has one that wakes up within the cap, the latest timers pushed     *)
(* included (engine.cpp: cap_tree_idle, run).                              *)
THEOREM TreeGapTheorem == Spec => []TreeGapCapped
PROOF
  <1>1. Init => GapInv
    <2> SUFFICES ASSUME Init
                 PROVE  GapInv
      OBVIOUS
    <2>1. PICK s \in [Lanes -> TStars] : \E at : InitAs(s, at)
      BY InitIs
    <2>2. PICK at : InitAs(s, at)
      BY <2>1
    <2> DEFINE roots == UNION {Roots(p, class) : p \in Lanes}
    <2>3. Pushed(NoTimers, tm, roots, at) /\ Times(roots, at) /\ offset \in Nat /\ phase = "warmup"
      BY <2>2 DEF InitAs
    <2>4. roots \in SUBSET Reqs
      BY DEF Roots
    <2>5. DueOK(NoTimers)
      BY NoTimersOK DEF DueOK
    <2> HIDE DEF roots
    <2>6. DueOK(tm)
      BY <2>3, <2>4, <2>5, NoTimersOK, PushedDue
    <2> QED
      BY <2>3, <2>6 DEF GapInv
  <1>2. ReplayInv /\ GapInv /\ [Next]_replayvars => GapInv'
    BY NextGap
  <1>3. ReplayInv /\ GapInv => TreeGapCapped
    <2> SUFFICES ASSUME ReplayInv, GapInv, phase = "profile", TreeCap > 0,
                        NEW p \in Plays, inFlight[p] = 0, Pending(tm, p) # {}
                 PROVE  \E r \in Pending(tm, p) : \E e \in Live(r) :
                          e.stored - offset - now <= TreeCap
      BY DEF TreeGapCapped
    <2>1. PICK r \in Pending(tm, p) : tm.due[r] <= now + TreeCap
      BY DEF GapInv
    <2>2. r \in Reqs /\ r \in tm.armed /\ ~ Warmup(class[r])
      BY DEF Pending
    <2>3. PICK e \in TimersOf(tm) : Live(r) = {e}
      BY <2>2, LiveIs
    <2>4. e.req = r /\ e.ver = tm.ver[r]
      BY <2>3 DEF Live, Stale
    <2>5. tm \in TmType /\ now \in Nat /\ offset \in Nat /\ TreeCap \in Nat /\ TimersOK(tm)
      BY ReplayAssumption DEF ReplayInv, ReplayTypeOK
    <2>6. e \in tm.main
      BY <2>2, <2>4, <2>5 DEF TimersOK, TimersOf
    <2>7. e.stored <= tm.due[r] + offset
      BY <2>4, <2>6 DEF GapInv, DueOK
    <2>8. e.stored \in Int /\ tm.due[r] \in Int
      BY <2>2, <2>5, TmIs
    <2>9. e.stored - offset - now <= TreeCap
      BY <2>1, <2>5, <2>7, <2>8
    <2> QED
      BY <2>3, <2>9
  <1> QED
    BY <1>1, <1>2, <1>3, ReplayInvariant, PTL DEF Spec

-----------------------------------------------------------------------------
(* Lanes and the warmup.                                                   *)

(* Classes and, but for the end of a request, lanes do not change.         *)
LEMMA NextClass ==
  ASSUME [Next]_replayvars
  PROVE  /\ UNCHANGED class
         /\ UNCHANGED <<lane, remaining>> \/ \E r \in Active : Complete(r)
PROOF
  <1>1. ASSUME NEW e, WarmTimer(e) \/ Timer(e)
        PROVE  UNCHANGED <<class, lane, remaining>>
    BY <1>1 DEF WarmTimer, Timer, Start
  <1>2. ASSUME NEW e, StaleTimer(e)
        PROVE  UNCHANGED <<class, lane, remaining>>
    BY <1>2 DEF StaleTimer, play
  <1>3. ASSUME NEW r, Complete(r)
        PROVE  UNCHANGED class
    BY <1>3 DEF Complete
  <1>4. HandOff \/ End => UNCHANGED <<class, lane, remaining>>
    BY DEF HandOff, End, play
  <1>5. UNCHANGED replayvars => UNCHANGED <<class, lane, remaining>>
    BY DEF replayvars, play
  <1> QED
    BY <1>1, <1>2, <1>3, <1>4, <1>5 DEF Next

(* A new play starts on the lane of one that is over.                      *)
LEMMA CompleteLatest ==
  ASSUME ReplayInv, LatestInv, NEW r \in Active, Complete(r)
  PROVE  LatestInv'
PROOF
  <1>1. /\ lane' = IF NextStarts(r) THEN [lane EXCEPT ![NextPlay] = lane[r[1]]] ELSE lane
        /\ NextStarts(r) => NextPlay \in Plays /\ lane[NextPlay] = 0 /\ NextPlay # r[1]
    BY CompleteIs
  <1>2. remaining' = [x \in Plays |->
                        IF x = r[1] THEN remaining[r[1]] - 1
                        ELSE IF NextStarts(r) /\ x = NextPlay THEN Cardinality(OfPlay(x))
                        ELSE remaining[x]]
    BY CompleteIs
  <1>3. /\ r[1] \in Plays /\ remaining[r[1]] \in Nat /\ remaining[r[1]] > 0 /\ lane[r[1]] # 0
    BY LeftIs, ActiveIs DEF Started
  <1>4. /\ lane \in [Plays -> Lanes \cup {0}] /\ remaining \in [Plays -> Nat] /\ 0 \notin Lanes
    BY DEF ReplayInv, ReplayTypeOK, Lanes
  <1>5. \A p \in Plays : p \in Nat
    BY ReplayAssumption DEF Plays
  <1>6. \A p \in Plays : lane[p] # 0 <=> p < NextPlay
    BY DEF ReplayInv, PlaysOK
  <1>7. ASSUME NEW l \in Lanes
        PROVE  \E p \in Plays : lane'[p] = l
    <2>1. PICK p \in Plays : lane[p] = l
      BY DEF LatestInv
    <2>2. lane'[p] = lane[p]
      BY <1>1, <1>4, <2>1
    <2> QED
      BY <2>1, <2>2
  <1>8. ASSUME NEW p \in Plays, NEW q \in Plays, lane'[p] # 0, lane'[p] = lane'[q], p < q
        PROVE  remaining'[p] = 0
    <2>1. CASE ~ NextStarts(r)
      <3>1. lane[p] # 0 /\ lane[p] = lane[q] /\ remaining[p] = 0
        BY <1>1, <1>8, <2>1 DEF LatestInv
      <3>2. p # r[1]
        BY <1>3, <3>1
      <3> QED
        BY <1>2, <2>1, <3>1, <3>2
    <2>2. CASE NextStarts(r)
      <3>1. NextPlay \in Nat /\ p \in Nat /\ q \in Nat
        BY <1>5, NextIs
      <3>2. \A x \in Plays : lane'[x] = IF x = NextPlay THEN lane[r[1]] ELSE lane[x]
        BY <1>1, <1>4, <2>2
      <3>3. q <= NextPlay
        <4>1. lane'[q] # 0
          BY <1>8
        <4> QED
          BY <1>6, <3>1, <3>2, <4>1
      <3>4. p # NextPlay
        BY <1>8, <3>1, <3>3
      <3>5. lane'[p] = lane[p]
        BY <3>2, <3>4
      <3>6. CASE q = NextPlay
        <4>1. lane[p] = lane[r[1]]
          BY <1>8, <3>2, <3>5, <3>6
        <4>2. CASE p = r[1]
          BY <1>2, <2>2, <4>2 DEF NextStarts
        <4>3. CASE p # r[1]
          <5> DEFINE L == {x \in Plays : lane[x] = lane[r[1]] /\ remaining[x] > 0}
          <5>1. lane[r[1]] \in Lanes
            BY <1>3, <1>4
          <5>2. Cardinality(L) = 1
            BY <2>2, <5>1 DEF ReplayInv, OneLivePlay, NextStarts
          <5>3. IsFiniteSet(L)
            BY ReqsFinite, FS_Subset
          <5>4. \E x : L = {x}
            BY <5>2, <5>3, FS_Singleton
          <5>5. r[1] \in L
            BY <1>3
          <5>6. p \notin L
            BY <4>3, <5>4, <5>5
          <5>7. ~ (remaining[p] > 0) /\ remaining[p] \in Nat
            BY <1>4, <4>1, <5>6
          <5>8. remaining'[p] = remaining[p]
            BY <1>2, <3>4, <4>3
          <5> QED
            BY <5>7, <5>8
        <4> QED
          BY <4>2, <4>3
      <3>7. CASE q # NextPlay
        <4>1. lane[p] # 0 /\ lane[p] = lane[q]
          BY <1>8, <3>2, <3>5, <3>7
        <4>2. remaining[p] = 0
          BY <1>8, <4>1 DEF LatestInv
        <4>3. p # r[1]
          BY <1>3, <4>2
        <4> QED
          BY <1>2, <3>4, <4>2, <4>3
      <3> QED
        BY <3>6, <3>7
    <2> QED
      BY <2>1, <2>2
  <1> QED
    BY <1>7, <1>8 DEF LatestInv, Lanes, Plays

(* Of two requests behind the snapshot the earlier one warms the cache     *)
(* first.                                                                  *)
LEMMA ClassesOrder ==
  ASSUME NEW p \in Plays, NEW t, NEW i \in OfPlay(p), NEW j \in OfPlay(p),
         Before(p, j, i), Classes(p, t)[i] = 3
  PROVE  Classes(p, t)[j] # 0
PROOF
  <1> DEFINE before == {k \in OfPlay(p) : TimeOf(p, k) < t}
             agent(k) == Trace(p).agent[k]
             primers == {k \in before :
                           /\ \A h \in before : agent(h) = agent(k) => h <= k
                           /\ \E h \in OfPlay(p) \ before : agent(h) = agent(k)}
             ahead(k) == {h \in OfPlay(p) \ before :
                            \/ TimeOf(p, h) < TimeOf(p, k)
                            \/ TimeOf(p, h) = TimeOf(p, k) /\ h < k}
  <1>1. Classes(p, t) = [k \in Ids |->
                           IF k \notin OfPlay(p) THEN 2
                           ELSE IF k \in primers THEN 1
                           ELSE IF k \in before THEN 2
                           ELSE IF Cardinality(ahead(k)) < WarmBudget THEN 3 ELSE 0]
    BY DEF Classes
  <1>2. /\ i \in Ids /\ j \in Ids /\ IsFiniteSet(OfPlay(p))
        /\ \A k \in OfPlay(p) : TimeOf(p, k) \in Nat /\ k \in Nat
    BY TraceIs
  <1>3. ahead(j) \subseteq ahead(i)
    BY <1>2 DEF Before
  <1>4. ahead(i) \subseteq OfPlay(p)
    OBVIOUS
  <1> HIDE DEF before, primers, ahead
  <1>5. Cardinality(ahead(i)) < WarmBudget
    BY <1>1, <1>2
  <1>6. /\ Cardinality(ahead(j)) \in Nat /\ Cardinality(ahead(i)) \in Nat
        /\ Cardinality(ahead(j)) <= Cardinality(ahead(i))
    BY <1>2, <1>3, <1>4, FS_Subset, FS_CardinalityType
  <1>7. Cardinality(ahead(j)) < WarmBudget
    BY <1>5, <1>6, ReplayAssumption
  <1> QED
    BY <1>1, <1>2, <1>7

(* Lanes and classes at the start.                                         *)
LEMMA InitLanes ==
  ASSUME Init
  PROVE  WarmInv /\ LatestInv
PROOF
  <1>1. PICK s \in [Lanes -> TStars] : \E at : InitAs(s, at)
    BY InitIs
  <1>2. PICK at : InitAs(s, at)
    BY <1>1
  <1>3. /\ lane = [p \in Plays |-> IF p \in Lanes THEN p ELSE 0]
        /\ class = [r \in Reqs |-> IF r[1] \in Lanes THEN Classes(r[1], s[r[1]])[r[2]] ELSE 0]
    BY <1>2 DEF InitAs
  <1>4. Lanes \subseteq Plays /\ class \in [Reqs -> 0 .. 3]
    BY <1>2, FirstPlays
  <1>5. LatestInv
    BY <1>3, <1>4 DEF LatestInv, Lanes
  <1>6. ASSUME NEW r \in Reqs, class[r] = 3, NEW e \in Edges(r[1], class, r[2])
        PROVE  Warmup(class[<<r[1], e.from>>])
    <2> DEFINE p == r[1]
               y == <<r[1], e.from>>
    <2>1. p \in Plays /\ r[2] \in OfPlay(p)
      BY ReqIs
    <2>2. e \in Trace(p).edges /\ e.to = r[2] /\ class[y] # 2
      BY DEF Edges
    <2>3. e.from \in OfPlay(p) /\ y \in Reqs
      BY <2>1, <2>2, EdgeIs
    <2>4. p \in Lanes /\ class[r] = Classes(p, s[p])[r[2]] /\ class[y] = Classes(p, s[p])[e.from]
      BY <1>3, <1>6, <2>3
    <2>5. Before(p, e.from, r[2])
      BY <2>1, <2>2, EdgeBefore
    <2>6. class[y] # 0
      BY <1>6, <2>1, <2>3, <2>4, <2>5, ClassesOrder
    <2>7. class[y] \in 0 .. 3
      BY <1>4, <2>3
    <2> QED
      BY <2>2, <2>6, <2>7 DEF Warmup
  <1>7. WarmInv
    BY <1>6 DEF WarmInv
  <1> QED
    BY <1>5, <1>7

(* ... and afterwards.                                                     *)
LEMMA LanesInvariant == Spec => [](WarmInv /\ LatestInv)
PROOF
  <1>1. Init => WarmInv /\ LatestInv
    BY InitLanes
  <1>2. ReplayInv /\ WarmInv /\ LatestInv /\ [Next]_replayvars => (WarmInv /\ LatestInv)'
    <2> SUFFICES ASSUME ReplayInv, WarmInv, LatestInv, [Next]_replayvars
                 PROVE  WarmInv' /\ LatestInv'
      OBVIOUS
    <2>1. UNCHANGED class
      BY NextClass
    <2>2. WarmInv'
      BY <2>1 DEF WarmInv, Edges
    <2>3. CASE UNCHANGED <<lane, remaining>>
      BY <2>2, <2>3 DEF LatestInv
    <2>4. CASE \E r \in Active : Complete(r)
      BY <2>2, <2>4, CompleteLatest
    <2> QED
      BY <2>3, <2>4, NextClass
  <1> QED
    BY <1>1, <1>2, ReplayInvariant, PTL DEF Spec

-----------------------------------------------------------------------------
(* The replay implements DagReplay.                                        *)

(* The play that a lane is at.                                             *)
OpenOf(l) == Max({p \in Plays : lane[p] = l})

(* It is the latest of the lane, and the one that goes on.                 *)
LEMMA OpenIs ==
  ASSUME ReplayInv, LatestInv, NEW l \in Lanes
  PROVE  /\ OpenOf(l) \in Plays /\ lane[OpenOf(l)] = l
         /\ \A p \in Plays : lane[p] = l => p <= OpenOf(l)
         /\ \A p \in Plays : lane[p] = l /\ remaining[p] > 0 => OpenOf(l) = p
PROOF
  <1> DEFINE S == {p \in Plays : lane[p] = l}
  <1>1. \A p \in Plays : p \in Nat
    BY ReplayAssumption DEF Plays
  <1>2. S \in SUBSET Int /\ IsFiniteSet(S)
    BY <1>1, ReqsFinite, FS_Subset
  <1>3. S # {}
    BY DEF LatestInv
  <1>4. Max(S) \in S /\ \A y \in S : Max(S) >= y
    BY <1>2, <1>3, LeastGreatest
  <1>5. OpenOf(l) = Max(S)
    BY DEF OpenOf
  <1> HIDE DEF OpenOf
  <1>6. OpenOf(l) \in Plays /\ lane[OpenOf(l)] = l /\ OpenOf(l) \in Nat
    BY <1>1, <1>4, <1>5
  <1>7. \A p \in Plays : lane[p] = l => p <= OpenOf(l)
    BY <1>1, <1>4, <1>5, <1>6
  <1>8. ASSUME NEW p \in Plays, lane[p] = l, remaining[p] > 0
        PROVE  OpenOf(l) = p
    <2>1. l # 0
      BY DEF Lanes
    <2>2. ~ (p < OpenOf(l))
      <3>1. p < OpenOf(l) => remaining[p] = 0
        BY <1>6, <1>8, <2>1 DEF LatestInv
      <3> QED
        BY <1>8, <3>1
    <2> QED
      BY <1>1, <1>6, <1>7, <1>8, <2>2
  <1> QED
    BY <1>6, <1>7, <1>8

(* What DagReplay sees of a request.                                       *)
Shown(x) ==
  IF x \notin Reqs THEN "away"
  ELSE IF lane[x[1]] = 0 \/ class[x] = 2 THEN "away"
  ELSE IF st[x] = "active" THEN "run"
  ELSE IF st[x] = "done" THEN "done"
  ELSE IF Warmup(class[x]) THEN "warm" ELSE "idle"

(* The mapped state is what is shown.                                      *)
LEMMA DagStateIs ==
  /\ DagState = [x \in Plays \X Ids |-> Shown(x)]
  /\ \A p \in Plays : \A i \in Ids : DagState[<<p, i>>] = Shown(<<p, i>>)
PROOF
  BY DEF DagState, Shown

(* A step that starts or ends a request is seen as that.                   *)
LEMMA DagStateChange ==
  ASSUME ReplayInv, NEW r \in Reqs, UNCHANGED <<lane, class>>, Started(r), class[r] # 2,
         NEW v \in {"active", "done"}, st' = [st EXCEPT ![r] = v]
  PROVE  DagState' = [DagState EXCEPT ![<<r[1], r[2]>>] = IF v = "active" THEN "run" ELSE "done"]
PROOF
  <1> DEFINE w == IF v = "active" THEN "run" ELSE "done"
  <1>1. r = <<r[1], r[2]>> /\ r \in Plays \X Ids
    BY ReqIs
  <1>2. st \in [Reqs -> {"pending", "active", "done"}]
    BY DEF ReplayInv, ReplayTypeOK
  <1>3. \A x \in Plays \X Ids : Shown(x)' = IF x = r THEN w ELSE Shown(x)
    <2> SUFFICES ASSUME NEW x \in Plays \X Ids
                 PROVE  Shown(x)' = IF x = r THEN w ELSE Shown(x)
      OBVIOUS
    <2>1. CASE x = r
      <3>1. st'[x] = v
        BY <1>2, <2>1
      <3> QED
        BY <2>1, <3>1 DEF Shown, Started
    <2>2. CASE x # r
      <3>1. x \in Reqs => st'[x] = st[x]
        BY <1>2, <2>2
      <3> QED
        BY <2>2, <3>1 DEF Shown, Warmup
    <2> QED
      BY <2>1, <2>2
  <1>4. DagState' = [x \in Plays \X Ids |-> Shown(x)']
    BY DEF DagState, Shown, Plays
  <1>5. DagState = [x \in Plays \X Ids |-> Shown(x)]
    BY DagStateIs
  <1> HIDE DEF w
  <1>6. DagState' = [DagState EXCEPT ![r] = w]
    BY <1>1, <1>3, <1>4, <1>5
  <1> QED
    BY <1>1, <1>6 DEF w

(* What a request of a play needs.                                         *)
DagNeeds == [x \in Plays \X Ids |-> {e.from : e \in {f \in Trace(x[1]).edges : f.to = x[2]}}]

(* A request that is due has all that it needs.                            *)
LEMMA DueNeeds ==
  ASSUME ReplayInv, NEW r \in Reqs, Due(r), NEW j \in DagNeeds[<<r[1], r[2]>>]
  PROVE  DagState[<<r[1], j>>] \in {"away", "done"}
PROOF
  <1>1. r = <<r[1], r[2]>> /\ r[1] \in Plays /\ r[2] \in Ids
    BY ReqIs
  <1>2. PICK e \in Trace(r[1]).edges : e.to = r[2] /\ j = e.from
    BY <1>1 DEF DagNeeds
  <1>3. <<r[1], j>> \in Reqs /\ j \in Ids
    BY <1>1, <1>2, EdgeIs, ReqIs
  <1>4. class[r] \notin {1, 2} /\ preds[r] = 0 /\ Started(r)
    BY DEF Due, ReplayInv, StatesOK
  <1>5. class[<<r[1], j>>] # 2 => st[<<r[1], j>>] = "done"
    <2> SUFFICES ASSUME class[<<r[1], j>>] # 2, st[<<r[1], j>>] # "done"
                 PROVE  FALSE
      OBVIOUS
    <2>1. e \in Edges(r[1], class, r[2])
      BY <1>1, <1>2, <1>4 DEF Edges
    <2>2. e \in Waits(r)
      BY <1>2, <2>1 DEF Waits
    <2>3. preds[r] = Cardinality(Waits(r))
      BY <1>4 DEF ReplayInv, PredsExact, Waits
    <2> QED
      BY <1>4, <2>2, <2>3, WaitsFinite, FS_EmptySet
  <1>6. DagState[<<r[1], j>>] = Shown(<<r[1], j>>)
    BY <1>1, <1>3, DagStateIs
  <1> QED
    BY <1>3, <1>5, <1>6 DEF Shown

(* A request that is due is of the play that its lane is at.               *)
LEMMA DueOpen ==
  ASSUME ReplayInv, LatestInv, NEW r \in Reqs, Started(r), st[r] # "done", class[r] # 2
  PROVE  lane[r[1]] \in Lanes /\ r[1] = OpenOf(lane[r[1]])
PROOF
  <1>1. r[1] \in Plays
    BY ReqIs
  <1>2. lane[r[1]] # 0 /\ lane[r[1]] \in Lanes
    BY <1>1 DEF Started, ReplayInv, ReplayTypeOK
  <1>3. r \in Left(r[1]) /\ IsFiniteSet(Left(r[1]))
    BY ReqsFinite, FS_Subset DEF Left
  <1>4. remaining[r[1]] = Cardinality(Left(r[1]))
    BY <1>1, <1>2 DEF ReplayInv, CountersExact, Left
  <1>5. remaining[r[1]] \in Nat /\ remaining[r[1]] # 0
    BY <1>3, <1>4, FS_CardinalityType, FS_EmptySet
  <1>6. remaining[r[1]] > 0
    BY <1>5
  <1> QED
    BY <1>1, <1>2, <1>6, OpenIs

(* The start of a request is a step of DagReplay.                          *)
LEMMA RunDag ==
  ASSUME ReplayInv, LatestInv, phase # "ended", NEW e \in TimersOf(tm), e.ver = tm.ver[e.req],
         Start(e.req, now'), UNCHANGED phase, phase = "warmup" => Warmup(class[e.req])
  PROVE  Dag!DagNext
PROOF
  <1> DEFINE r == e.req
             p == r[1]
             i == r[2]
  <1>1. r \in Reqs /\ Due(r)
    BY LiveDue
  <1>2. /\ st' = [st EXCEPT ![r] = "active"] /\ UNCHANGED <<lane, class>>
    BY DEF Start
  <1>3. st[r] = "pending" /\ Started(r) /\ class[r] # 2
    BY <1>1 DEF Due
  <1>4. phase = "warmup" => Warmup(class[r])
    OBVIOUS
  <1> HIDE DEF r
  <1>5. r = <<p, i>> /\ p \in Plays /\ i \in Ids
    BY <1>1, ReqIs
  <1>6. DagState' = [DagState EXCEPT ![<<p, i>>] = "run"]
    BY <1>1, <1>2, <1>3, DagStateChange
  <1>7. DagState[<<p, i>>] \in (IF phase = "warmup" THEN {"warm"} ELSE {"warm", "idle"})
    <2>1. DagState[<<p, i>>] = Shown(r)
      BY <1>5, DagStateIs
    <2> QED
      BY <1>1, <1>3, <1>4, <2>1 DEF Shown, Started
  <1>8. p \in {OpenOf(l) : l \in Lanes}
    BY <1>1, <1>3, DueOpen
  <1>9. \A j \in DagNeeds[<<p, i>>] : DagState[<<p, j>>] \in {"away", "done"}
    BY <1>1, DueNeeds
  <1> HIDE DEF p, i
  <1>10. Dag!Run(p, i)
    <2>1. UNCHANGED <<[l \in Lanes |-> Max({x \in Plays : lane[x] = l})], (phase = "warmup")>>
      BY <1>2
    <2>2. p \in {[l \in Lanes |-> Max({x \in Plays : lane[x] = l})][k] : k \in Lanes}
      BY <1>8 DEF OpenOf
    <2> QED
      BY <1>6, <1>7, <1>9, <2>1, <2>2 DEF Dag!Run, Dag!Opened, DagNeeds
  <1> QED
    BY <1>5, <1>10 DEF Dag!DagNext

(* The end of a request is one, the start of the next play included.       *)
LEMMA FinishDag ==
  ASSUME ReplayInv, LatestInv, NEW r \in Active, Complete(r)
  PROVE  Dag!DagNext
PROOF
  <1> DEFINE p == r[1]
             i == r[2]
             q == NextPlay
             l == lane[r[1]]
             opens == [k \in Lanes |-> Max({x \in Plays : lane[x] = k})]
  <1>1. r \in Reqs /\ st[r] = "active" /\ p \in Plays /\ Started(r) /\ class[r] # 2
    BY ActiveIs
  <1>2. r = <<p, i>> /\ i \in Ids
    BY <1>1, ReqIs
  <1>3. /\ st' = [st EXCEPT ![r] = "done"] /\ UNCHANGED <<phase, class>>
        /\ lane' = IF NextStarts(r) THEN [lane EXCEPT ![NextPlay] = lane[r[1]]] ELSE lane
        /\ NextStarts(r) => NextPlay \in Plays /\ lane[NextPlay] = 0 /\ NextPlay # r[1]
    BY CompleteIs
  <1>4. DagState[<<p, i>>] = "run"
    <2>1. DagState[<<p, i>>] = Shown(r)
      BY <1>1, <1>2, DagStateIs
    <2> QED
      BY <1>1, <2>1 DEF Shown, Started
  <1>5. CASE ~ NextStarts(r)
    <2>1. UNCHANGED lane
      BY <1>3, <1>5
    <2>2. DagState' = [DagState EXCEPT ![<<p, i>>] = "done"]
      BY <1>1, <1>3, <2>1, DagStateChange
    <2>3. Dag!Finish(p, i)
      BY <1>3, <1>4, <2>1, <2>2 DEF Dag!Finish
    <2> QED
      BY <1>1, <1>2, <2>3 DEF Dag!DagNext
  <1>6. CASE NextStarts(r)
    <2>1. l \in Lanes /\ p = OpenOf(l)
      BY <1>1, DueOpen
    <2>2. /\ lane \in [Plays -> Lanes \cup {0}] /\ 0 \notin Lanes
          /\ \A x \in Plays : x \in Nat /\ (lane[x] # 0 <=> x < NextPlay)
      BY ReplayAssumption DEF ReplayInv, ReplayTypeOK, Lanes, PlaysOK, Plays
    <2>3. \A j \in Ids \ {i} : DagState[<<p, j>>] \in {"away", "done"}
      <3> SUFFICES ASSUME NEW j \in Ids \ {i}
                   PROVE  DagState[<<p, j>>] \in {"away", "done"}
        OBVIOUS
      <3>1. DagState[<<p, j>>] = Shown(<<p, j>>)
        BY <1>1, DagStateIs
      <3>2. <<p, j>> \notin Left(p)
        <4>1. r \in Left(p) /\ IsFiniteSet(Left(p))
          BY ReqsFinite, FS_Subset, LeftIs DEF Left
        <4>2. remaining[p] = Cardinality(Left(p))
          BY <1>1 DEF ReplayInv, CountersExact, Left, Started
        <4>3. Cardinality(Left(p)) = 1
          BY <1>6, <4>2 DEF NextStarts
        <4>4. \E x : Left(p) = {x}
          BY <4>1, <4>3, FS_Singleton
        <4>5. <<p, j>> # r
          BY <1>2
        <4> QED
          BY <4>1, <4>4, <4>5
      <3>3. <<p, j>> \in Reqs => class[<<p, j>>] = 2 \/ st[<<p, j>>] = "done"
        BY <3>2 DEF Left
      <3> QED
        BY <3>1, <3>3 DEF Shown
    <2>4. \A j \in Ids : DagState[<<q, j>>] = "away"
      <3> SUFFICES ASSUME NEW j \in Ids
                   PROVE  DagState[<<q, j>>] = "away"
        OBVIOUS
      <3>1. DagState[<<q, j>>] = Shown(<<q, j>>)
        BY <1>3, <1>6, DagStateIs
      <3> QED
        BY <1>3, <1>6, <3>1 DEF Shown
    <2>5. \A x \in Plays : lane'[x] = IF x = q THEN l ELSE lane[x]
      BY <1>3, <1>6, <2>2
    <2>6. opens' = [opens EXCEPT ![l] = q]
      <3>1. \A k \in Lanes : k # l => {x \in Plays : lane'[x] = k} = {x \in Plays : lane[x] = k}
        BY <1>3, <1>6, <2>2, <2>5
      <3>2. Max({x \in Plays : lane'[x] = l}) = q
        <4> DEFINE S == {x \in Plays : lane'[x] = l}
        <4>1. q \in S
          BY <1>3, <1>6, <2>5
        <4>2. q \in Nat /\ \A x \in S : x \in Nat /\ x <= q
          <5>1. q \in Nat
            BY <1>3, <1>6, <2>2
          <5>2. ASSUME NEW x \in S
                PROVE  x \in Nat /\ x <= q
            <6>1. x = q \/ x < q
              BY <2>1, <2>2, <2>5
            <6> QED
              BY <2>2, <5>1, <6>1
          <5> QED
            BY <5>1, <5>2
        <4>3. S \in SUBSET Plays
          OBVIOUS
        <4> HIDE DEF S, q
        <4>4. S \in SUBSET Int /\ S # {} /\ IsFiniteSet(S)
          <5>1. IsFiniteSet(S)
            BY <4>3, ReqsFinite, FS_Subset
          <5>2. \A x \in S : x \in Int
            BY <4>2
          <5> QED
            BY <4>1, <5>1, <5>2
        <4>5. Max(S) \in S /\ \A y \in S : Max(S) >= y
          BY <4>4, LeastGreatest
        <4>6. Max(S) \in Nat /\ Max(S) <= q /\ Max(S) >= q
          BY <4>1, <4>2, <4>5
        <4>7. Max(S) = q
          BY <4>2, <4>6
        <4> QED
          BY <4>7 DEF S, q
      <3>3. opens' = [k \in Lanes |-> Max({x \in Plays : lane'[x] = k})]
        BY DEF Lanes, Plays
      <3> QED
        BY <2>1, <3>1, <3>2, <3>3
    <2>7. DagState' = [x \in Plays \X Ids |->
                         IF x = <<p, i>> THEN "done"
                         ELSE IF x[1] = q /\ x[2] \in OfPlay(q) THEN "idle" ELSE DagState[x]]
      <3>1. DagState' = [x \in Plays \X Ids |-> Shown(x)']
        BY DEF DagState, Shown, Plays
      <3>2. ASSUME NEW x \in Plays \X Ids
            PROVE  Shown(x)' = IF x = <<p, i>> THEN "done"
                               ELSE IF x[1] = q /\ x[2] \in OfPlay(q) THEN "idle" ELSE Shown(x)
        <4>1. st \in [Reqs -> {"pending", "active", "done"}]
          BY DEF ReplayInv, ReplayTypeOK
        <4>2. \A y \in Reqs : y # r => st'[y] = st[y]
          BY <1>3, <4>1
        <4>3. x = <<x[1], x[2]>> /\ x[1] \in Plays
          OBVIOUS
        <4>4. CASE x = r
          <5>1. st'[x] = "done"
            BY <1>1, <1>3, <4>1, <4>4
          <5>2. lane'[x[1]] # 0
            BY <1>1, <1>3, <1>6, <2>5, <4>4 DEF Started
          <5> QED
            BY <1>1, <1>2, <1>3, <4>4, <5>1, <5>2 DEF Shown
        <4>5. CASE x # r /\ x[1] = q /\ x[2] \in OfPlay(q)
          <5>1. x \in Reqs
            BY <4>3, <4>5, ReqIs
          <5>2. class[x] = 0 /\ st[x] = "pending"
            BY <1>6, <4>5, <5>1, CompletePlays
          <5>3. lane'[x[1]] # 0
            BY <1>1, <2>5, <4>3, <4>5 DEF Started
          <5>4. st'[x] = "pending"
            BY <4>2, <4>5, <5>1, <5>2
          <5> QED
            BY <1>2, <1>3, <4>5, <5>1, <5>2, <5>3, <5>4 DEF Shown, Warmup
        <4>6. CASE x # r /\ x[1] = q /\ x[2] \notin OfPlay(q)
          <5>1. x \notin Reqs
            BY <4>6, ReqIs
          <5> QED
            BY <1>2, <4>6, <5>1 DEF Shown
        <4>7. CASE x # r /\ x[1] # q
          <5>1. lane'[x[1]] = lane[x[1]]
            BY <2>5, <4>3, <4>7
          <5>2. x \in Reqs => st'[x] = st[x]
            BY <4>2, <4>7
          <5> QED
            BY <1>2, <1>3, <4>7, <5>1, <5>2 DEF Shown, Warmup
        <4> QED
          BY <4>4, <4>5, <4>6, <4>7
      <3>3. \A x \in Plays \X Ids : DagState[x] = Shown(x)
        BY DagStateIs
      <3> QED
        BY <3>1, <3>2, <3>3
    <2>8. OfPlay(q) \in SUBSET Ids
      BY <1>3, <1>6, TraceIs
    <2>9. opens[l] = p
      BY <2>1 DEF OpenOf
    <2>10. UNCHANGED (phase = "warmup")
      BY <1>3
    <2>11. Dag!FinishLast(p, i, l, q)
      <3> HIDE DEF p, i, l, q
      <3> QED
        BY <1>4, <2>3, <2>4, <2>6, <2>7, <2>8, <2>9, <2>10 DEF Dag!FinishLast
    <2> QED
      BY <1>1, <1>2, <1>3, <1>6, <2>1, <2>11 DEF Dag!DagNext
  <1> QED
    BY <1>5, <1>6

(* At the hand-off nothing of the warmup is left: of the requests that     *)
(* would be, the first one has a timer.                                    *)
LEMMA WarmupOver ==
  ASSUME ReplayInv, WarmInv, phase # "ended", Active = {}, tm.warm = {}
  PROVE  \A x \in Plays \X Ids : DagState[x] \notin {"warm", "run"}
PROOF
  <1> DEFINE W == {x \in Reqs : Started(x) /\ class[x] = 3 /\ st[x] = "pending"}
  <1>1. /\ tm \in TmType /\ TimersOK(tm) /\ ArmedOK(tm) /\ StatesOK /\ PlaysOK
        /\ class \in [Reqs -> 0 .. 3] /\ st \in [Reqs -> {"pending", "active", "done"}]
    BY DEF ReplayInv, ReplayTypeOK
  <1>2. W = {}
    <2> SUFFICES ASSUME W # {}
                 PROVE  FALSE
      OBVIOUS
    <2>1. PICK w \in W : TRUE
      OBVIOUS
    <2>2. w \in Reqs /\ w = <<w[1], w[2]>> /\ w[1] \in Plays /\ w[2] \in OfPlay(w[1])
      BY ReqIs
    <2> DEFINE p == w[1]
               I == {i \in OfPlay(p) : <<p, i>> \in W}
    <2>3. I \in SUBSET OfPlay(p) /\ I # {}
      BY <2>2
    <2>4. PICK i \in I : \A j \in I : ~ Before(p, j, i)
      <3> HIDE DEF I, W
      <3> QED
        BY <2>2, <2>3, FirstOf
    <2> DEFINE x == <<p, i>>
    <2>8. x \in Reqs /\ Started(x) /\ class[x] = 3 /\ st[x] = "pending"
      OBVIOUS
    <2>9. Waits(x) = {}
      <3> SUFFICES ASSUME NEW e \in Waits(x)
                   PROVE  FALSE
        OBVIOUS
      <3> DEFINE y == <<x[1], e.from>>
      <3>1. e \in Edges(x[1], class, x[2]) /\ st[y] # "done"
        BY DEF Waits
      <3>2. e \in Trace(x[1]).edges /\ e.to = x[2]
        BY <3>1 DEF Edges
      <3>3. y \in Reqs /\ x[1] \in Plays
        BY <2>8, <3>2, ReqIs, EdgeIs
      <3>4. Warmup(class[y])
        BY <2>8, <3>1 DEF WarmInv
      <3>5. st[y] = "pending"
        BY <1>1, <3>1, <3>3 DEF Active
      <3>6. class[y] = 3
        BY <1>1, <3>3, <3>4, <3>5 DEF StatesOK, Warmup
      <3>7. Started(y)
        BY <2>8 DEF Started
      <3>8. e.from \in I
        BY <3>2, <3>3, <3>5, <3>6, <3>7, EdgeIs
      <3>9. Before(p, e.from, i)
        BY <3>2, <3>3, EdgeBefore
      <3> QED
        BY <2>4, <3>8, <3>9
    <2>10. preds[x] = 0
      <3>1. preds[x] = Cardinality(Waits(x))
        BY <2>8 DEF ReplayInv, PredsExact, Waits
      <3> QED
        BY <2>9, <3>1, FS_EmptySet
    <2>11. x \in tm.armed
      BY <1>1, <2>8, <2>10 DEF StatesOK, Due
    <2>12. PICK e \in TimersOf(tm) : e.req = x
      BY <1>1, <2>8, <2>11 DEF ArmedOK
    <2> QED
      BY <1>1, <2>8, <2>12 DEF TimersOK, TimersOf, Warmup
  <1> HIDE DEF W
  <1>3. ASSUME NEW x \in Plays \X Ids
        PROVE  Shown(x) \notin {"warm", "run"}
    <2>1. x \in Reqs => st[x] # "active"
      BY DEF Active
    <2>2. x \in Reqs /\ Started(x) /\ class[x] = 3 => st[x] # "pending"
      BY <1>2 DEF W
    <2>3. x \in Reqs /\ class[x] = 1 => st[x] # "pending"
      BY <1>1 DEF StatesOK
    <2>4. x \in Reqs => st[x] \in {"pending", "active", "done"}
      BY <1>1
    <2> QED
      BY <2>1, <2>2, <2>3, <2>4 DEF Shown, Warmup, Started
  <1> QED
    BY <1>3, DagStateIs

(* Steps that DagReplay does not see.                                      *)
LEMMA StutterDag ==
  ASSUME UNCHANGED play, phase' = phase \/ (phase # "warmup" /\ phase' # "warmup")
  PROVE  UNCHANGED <<DagState, [l \in Lanes |-> Max({p \in Plays : lane[p] = l})],
                     (phase = "warmup")>>
PROOF
  <1>1. UNCHANGED <<lane, class, st>>
    BY DEF play
  <1>2. UNCHANGED DagState
    BY <1>1 DEF DagState, Warmup
  <1> QED
    BY <1>1, <1>2

(* The initial states map to initial states.                               *)
LEMMA InitDag ==
  ASSUME Init, ReplayInv, LatestInv
  PROVE  Dag!DagInit
PROOF
  <1> DEFINE opens == [l \in Lanes |-> Max({p \in Plays : lane[p] = l})]
  <1>1. PICK s \in [Lanes -> TStars] : \E at : InitAs(s, at)
    BY InitIs
  <1>2. PICK at : InitAs(s, at)
    BY <1>1
  <1>3. /\ lane = [p \in Plays |-> IF p \in Lanes THEN p ELSE 0] /\ phase = "warmup"
        /\ st = [r \in Reqs |-> IF class[r] = 1 THEN "active" ELSE "pending"]
    BY <1>2 DEF InitAs
  <1>4. \A l \in Lanes : opens[l] \in Plays /\ opens[l] = l
    <2>1. \A l \in Lanes : opens[l] = OpenOf(l)
      BY DEF OpenOf
    <2>2. \A l \in Lanes : OpenOf(l) \in Plays /\ lane[OpenOf(l)] = l
      BY OpenIs
    <2> HIDE DEF opens
    <2>3. \A l \in Lanes : l # 0
      BY DEF Lanes
    <2> QED
      BY <1>3, <2>1, <2>2, <2>3
  <1>5. \A x \in Plays \X Ids : Shown(x) \in {"away", "warm", "idle", "run"}
    BY <1>3 DEF Shown
  <1>6. DagState \in [Plays \X Ids -> {"away", "warm", "idle", "run"}]
    BY <1>5, DagStateIs
  <1>7. ASSUME NEW p \in Plays, p \notin {opens[l] : l \in Lanes}, NEW i \in Ids
        PROVE  DagState[<<p, i>>] = "away"
    <2>1. p \notin Lanes
      BY <1>4, <1>7
    <2>2. lane[p] = 0
      BY <1>3, <2>1
    <2>3. DagState[<<p, i>>] = Shown(<<p, i>>)
      BY DagStateIs
    <2> QED
      BY <2>2, <2>3 DEF Shown
  <1>8. opens \in [Lanes -> Plays] /\ \A k, l \in Lanes : opens[k] = opens[l] => k = l
    BY <1>4
  <1> QED
    BY <1>3, <1>6, <1>7, <1>8 DEF Dag!DagInit, Dag!Opened

(* Whatever the timers do, the replay implements DagReplay: requests run   *)
(* once, after what they need, in plays that their lane is at, and only    *)
(* those of the warmup run before it is over (engine.cpp: run, on_ready,   *)
(* after_done).                                                            *)
THEOREM DagTheorem == Spec => ImplementsDag
PROOF
  <1> DEFINE dagvars == <<DagState, [l \in Lanes |-> Max({p \in Plays : lane[p] = l})],
                          (phase = "warmup")>>
  <1>1. Init /\ ReplayInv /\ LatestInv => Dag!DagInit
    BY InitDag
  <1>2. ReplayInv /\ WarmInv /\ LatestInv /\ [Next]_replayvars
          => [Dag!DagNext]_(Dag!dagvars)
    <2> SUFFICES ASSUME ReplayInv, WarmInv, LatestInv, [Next]_replayvars
                 PROVE  Dag!DagNext \/ UNCHANGED dagvars
      BY DEF Dag!dagvars
    <2>1. ASSUME NEW e \in tm.warm, WarmTimer(e)
          PROVE  Dag!DagNext
      <3>1. e \in TimersOf(tm) /\ e.ver = tm.ver[e.req] /\ Warmup(class[e.req])
        BY DEF ReplayInv, TimersOK, TimersOf
      <3> QED
        BY <2>1, <3>1, RunDag DEF WarmTimer
    <2>2. ASSUME NEW e \in tm.main, Timer(e)
          PROVE  Dag!DagNext
      <3>1. e \in TimersOf(tm) /\ e.ver = tm.ver[e.req] /\ phase = "profile"
        BY <2>2 DEF Timer, TakesTimer, Stale, TimersOf
      <3> QED
        BY <2>2, <3>1, RunDag DEF Timer
    <2>3. ASSUME NEW e \in tm.main, StaleTimer(e)
          PROVE  UNCHANGED dagvars
      BY <2>3, StutterDag DEF StaleTimer
    <2>4. ASSUME HandOff
          PROVE  Dag!DagNext
      <3>1. /\ phase = "warmup" /\ phase' = "profile" /\ Active = {} /\ tm.warm = {}
            /\ UNCHANGED play
        BY <2>4 DEF HandOff
      <3>2. \A x \in Plays \X Ids : DagState[x] \notin {"warm", "run"}
        BY <3>1, WarmupOver
      <3>3. UNCHANGED <<lane, class, st>>
        BY <3>1 DEF play
      <3>4. UNCHANGED DagState
        BY <3>3 DEF DagState, Warmup
      <3>5. Dag!EndWarmup
        BY <3>1, <3>2, <3>3, <3>4 DEF Dag!EndWarmup
      <3> QED
        BY <3>5 DEF Dag!DagNext
    <2>5. ASSUME End
          PROVE  UNCHANGED dagvars
      BY <2>5, StutterDag DEF End
    <2>6. ASSUME UNCHANGED replayvars
          PROVE  UNCHANGED dagvars
      <3>1. UNCHANGED <<play, phase>>
        BY <2>6 DEF replayvars
      <3> QED
        BY <3>1, StutterDag
    <2> QED
      BY <2>1, <2>2, <2>3, <2>4, <2>5, <2>6, FinishDag DEF Next
  <1> QED
    BY <1>1, <1>2, ReplayInvariant, LanesInvariant, PTL DEF Spec, ImplementsDag, Dag!DagSpec

=============================================================================
