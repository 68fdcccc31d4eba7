-------------------------- MODULE TraceStoreProofs --------------------------
(***************************************************************************)
(* Proofs about module TraceStore: processes that load one after the other *)
(* get what the file held, and leave it in the cache, whatever processes   *)
(* that died or found no room have left there.                             *)
(***************************************************************************)
EXTENDS TraceStore, TLAPS, FiniteSetTheorems, SequenceTheorems

-----------------------------------------------------------------------------
(* The inductive invariant behind LoadedRight and LeavesCache, of          *)
(* processes that load one after the other.                                *)

(* s is a first part of t. *)
PartOf(s, t) == Len(s) <= Len(t) /\ \A i \in 1 .. Len(s) : s[i] = t[i]

Cells ==
  {Header(path, Size[c], Traces[c]) : path \in Paths, c \in Contents}
  \cup UNION {{TraceCell(c, i) : i \in 1 .. Traces[c]} : c \in Contents}

ProcType ==
  [pc : {"idle", "read", "parse", "open", "write", "done", "failed"}, path : Paths \cup {"none"},
   size : Nat, cells : Seq(Cells), at : Nat \ {0}, out : Nat, ts : Seq(Cells),
   during : SUBSET Contents]

(* A cache file is a first part of the cache of some traces, for some path *)
(* that has this cache.                                                    *)
CachesOK ==
  \A n \in Names : cache[n] # <<>> =>
    \E path \in Paths, c \in Contents : PartOf(cache[n], Image(path, c))

OneLoads == \A p, q \in Procs : Loading(p) /\ Loading(q) => p = q

(* How far a load got. *)
LoadsOK ==
  \A p \in Procs :
    LET q == proc[p] IN
    /\ Loading(p) => /\ q.path \in Paths /\ source[q.path] \in q.during
                     /\ \E c \in q.during : q.size = Size[c]
    /\ q.pc = "read" => PartOf(q.cells, File(p)) /\ Len(q.cells) = q.at - 1
    /\ q.pc \in {"open", "write"} =>
         \E c \in q.during : q.cells = Image(q.path, c) /\ q.ts = Parsed(c)
    /\ q.pc = "write" => /\ q.out < q.at /\ q.at <= Len(q.cells) + 1
                         /\ Len(File(p)) = q.out /\ PartOf(File(p), q.cells)

SInv ==
  /\ source \in [Paths -> Contents]
  /\ cache \in [Names -> Seq(Cells)]
  /\ proc \in [Procs -> ProcType]
  /\ CachesOK /\ OneLoads /\ LoadsOK /\ LoadedRight

-----------------------------------------------------------------------------
(* Cells.                                                                  *)

(* The cache of some traces: a header, then the traces.                    *)
LEMMA ImageIs ==
  ASSUME NEW path \in Paths, NEW c \in Contents
  PROVE  /\ Traces[c] \in Nat /\ Size[c] \in Nat
         /\ Image(path, c) \in Seq(Cells) /\ Parsed(c) \in Seq(Cells)
         /\ Len(Image(path, c)) = 1 + Traces[c] /\ Len(Parsed(c)) = Traces[c]
         /\ Image(path, c)[1] = Header(path, Size[c], Traces[c])
         /\ \A i \in 1 .. Traces[c] : Image(path, c)[i + 1] = Parsed(c)[i]
PROOF
  <1>1. Traces[c] \in Nat /\ Size[c] \in Nat
    BY StoreAssumption
  <1> DEFINE n == Traces[c]
             h == Header(path, Size[c], n)
             t == Parsed(c)
  <1>2. h \in Cells
    BY DEF Cells
  <1>3. \A i \in 1 .. n : TraceCell(c, i) \in Cells
    BY DEF Cells
  <1>4. t \in [1 .. n -> Cells]
    BY <1>3 DEF Parsed
  <1>5. Image(path, c) = <<h>> \o t
    BY DEF Image
  <1>6. n \in Nat
    BY <1>1
  <1> HIDE DEF n, h, t
  <1>7. t \in Seq(Cells) /\ Len(t) = n
    BY <1>4, <1>6
  <1>8. <<h>> \in Seq(Cells) /\ Len(<<h>>) = 1 /\ <<h>>[1] = h
    BY <1>2
  <1>9. /\ <<h>> \o t \in Seq(Cells) /\ Len(<<h>> \o t) = 1 + n
        /\ (<<h>> \o t)[1] = h /\ \A i \in 1 .. n : (<<h>> \o t)[i + 1] = t[i]
    BY <1>6, <1>7, <1>8, ConcatProperties
  <1> QED
    BY <1>1, <1>5, <1>7, <1>9 DEF n, h, t

(* Sequences of which each is a first part of the other.                   *)
LEMMA SameCells ==
  ASSUME NEW S, NEW s \in Seq(S), NEW t \in Seq(S), Len(s) = Len(t), PartOf(s, t)
  PROVE  s = t
PROOF
  BY SeqEqual, LenProperties DEF PartOf

(* What a reader finds out about a part of a cache.                        *)
LEMMA PartOfImage ==
  ASSUME NEW path \in Paths, NEW c \in Contents, NEW s \in Seq(Cells), s # <<>>,
         PartOf(s, Image(path, c))
  PROVE  /\ s[1].kind = "header" /\ s[1].path = path
         /\ s[1].size = Size[c] /\ s[1].count = Traces[c]
         /\ Len(s) > Traces[c] => s = Image(path, c) /\ Tail(s) = Parsed(c)
PROOF
  <1>1. Len(s) \in Nat /\ Len(s) > 0
    BY EmptySeq, LenProperties
  <1>2. s[1] = Header(path, Size[c], Traces[c])
    BY <1>1, ImageIs DEF PartOf
  <1>3. ASSUME Len(s) > Traces[c]
        PROVE  s = Image(path, c) /\ Tail(s) = Parsed(c)
    <2> DEFINE m == Image(path, c)
               t == Parsed(c)
               n == Traces[c]
    <2>1. m \in Seq(Cells) /\ Len(m) = 1 + n /\ t \in Seq(Cells) /\ Len(t) = n /\ n \in Nat
      BY ImageIs
    <2>2. \A i \in 1 .. n : m[i + 1] = t[i]
      BY ImageIs
    <2>3. Len(s) = Len(m) /\ PartOf(s, m)
      BY <1>1, <1>3, <2>1 DEF PartOf
    <2> HIDE DEF m, t, n
    <2>4. s = m
      BY <2>1, <2>3, SameCells
    <2>5. /\ Tail(m) \in Seq(Cells) /\ Len(Tail(m)) = n
          /\ \A i \in 1 .. n : Tail(m)[i] = m[i + 1]
      BY <1>1, <2>1, <2>4, HeadTailProperties
    <2>6. Tail(m) = t
      BY <2>1, <2>2, <2>5, SeqEqual
    <2> QED
      BY <2>4, <2>6 DEF m, t
  <1> QED
    BY <1>2, <1>3 DEF Header

(* A write behind the last cell.                                           *)
LEMMA WrittenNext ==
  ASSUME NEW s \in Seq(Cells), NEW t \in Seq(Cells), PartOf(s, t),
         NEW k \in Nat, k = Len(s) + 1, k <= Len(t)
  PROVE  /\ Written(s, k, t[k]) \in Seq(Cells) /\ Len(Written(s, k, t[k])) = k
         /\ PartOf(Written(s, k, t[k]), t)
PROOF
  <1> DEFINE w == Written(s, k, t[k])
  <1>1. Len(s) \in Nat /\ Len(t) \in Nat /\ k \in 1 .. Len(t)
    BY LenProperties
  <1>2. w = [i \in 1 .. k |-> IF i = k THEN t[k] ELSE IF i <= Len(s) THEN s[i] ELSE Zeros]
    BY <1>1 DEF Written
  <1>3. \A i \in 1 .. k : w[i] = t[i]
    BY <1>1, <1>2, SMTT(30) DEF PartOf
  <1>4. \A i \in 1 .. k : t[i] \in Cells
    BY <1>1, ElementOfSeq
  <1>5. w \in [1 .. k -> Cells]
    BY <1>2, <1>3, <1>4
  <1> HIDE DEF w
  <1>6. w \in Seq(Cells) /\ Len(w) = k
    BY <1>5
  <1> QED
    BY <1>1, <1>3, <1>6 DEF PartOf, w

(* One cell more is read.                                                  *)
LEMMA ReadNext ==
  ASSUME NEW s \in Seq(Cells), NEW t \in Seq(Cells), PartOf(s, t),
         NEW k \in Nat, k = Len(s) + 1, k <= Len(t)
  PROVE  Append(s, t[k]) \in Seq(Cells) /\ Len(Append(s, t[k])) = k /\ PartOf(Append(s, t[k]), t)
PROOF
  <1>1. Len(s) \in Nat /\ Len(t) \in Nat /\ k \in 1 .. Len(t)
    BY LenProperties
  <1>2. t[k] \in Cells
    BY <1>1, ElementOfSeq
  <1>3. /\ Append(s, t[k]) \in Seq(Cells) /\ Len(Append(s, t[k])) = k
        /\ Append(s, t[k])[k] = t[k]
        /\ \A i \in 1 .. Len(s) : Append(s, t[k])[i] = s[i]
    BY <1>2, AppendProperties
  <1> QED
    BY <1>1, <1>3 DEF PartOf
-----------------------------------------------------------------------------
(* A load moves on.                                                        *)

LoadPcs == {"read", "parse", "open", "write"}

(* LoadsOK and LoadedRight of one process, that has the record q and the   *)
(* cache file.                                                             *)
Right(q, file) ==
  /\ q.pc \in LoadPcs => /\ q.path \in Paths /\ source[q.path] \in q.during
                         /\ \E c \in q.during : q.size = Size[c]
  /\ q.pc = "read" => PartOf(q.cells, file) /\ Len(q.cells) = q.at - 1
  /\ q.pc \in {"open", "write"} =>
       \E c \in q.during : q.cells = Image(q.path, c) /\ q.ts = Parsed(c)
  /\ q.pc = "write" => /\ q.out < q.at /\ q.at <= Len(q.cells) + 1
                       /\ Len(file) = q.out /\ PartOf(file, q.cells)
  /\ q.pc = "done" => \E c \in q.during : q.ts = Parsed(c)

(* What is known of a process that loads: the others do not.               *)
LEMMA LoadNow ==
  ASSUME SInv, NEW p \in Procs
  PROVE  /\ proc[p] \in ProcType /\ Right(proc[p], File(p))
         /\ Loading(p) => /\ CacheOf[proc[p].path] \in Names
                          /\ File(p) \in Seq(Cells)
                          /\ \A x \in Procs : Loading(x) => x = p
PROOF
  <1>1. proc[p] \in ProcType
    BY DEF SInv
  <1>2. Right(proc[p], File(p))
    BY DEF SInv, LoadsOK, LoadedRight, Right, LoadPcs, Loading
  <1>3. ASSUME Loading(p)
        PROVE  /\ CacheOf[proc[p].path] \in Names
               /\ File(p) \in Seq(Cells)
               /\ \A x \in Procs : Loading(x) => x = p
    <2>1. proc[p].path \in Paths
      BY <1>3 DEF SInv, LoadsOK
    <2>2. CacheOf[proc[p].path] \in Names
      BY <2>1, StoreAssumption
    <2> QED
      BY <1>3, <2>2 DEF SInv, File, OneLoads
  <1> QED
    BY <1>1, <1>2, <1>3

(* A step of the only process that loads keeps the invariant if it leaves  *)
(* this process right.                                                     *)
LEMMA Moved ==
  ASSUME SInv, NEW p \in Procs, NEW q \in ProcType, proc' = [proc EXCEPT ![p] = q],
         \A x \in Procs : Loading(x) => x = p,
         UNCHANGED source, cache' \in [Names -> Seq(Cells)], CachesOK',
         Right(q, cache'[CacheOf[q.path]])
  PROVE  SInv'
PROOF
  <1>1. proc \in [Procs -> ProcType]
    BY DEF SInv
  <1>2. proc' \in [Procs -> ProcType] /\ proc'[p] = q
        /\ \A x \in Procs : x # p => proc'[x] = proc[x]
    BY <1>1
  <1>3. \A x \in Procs : Loading(x)' => x = p
    BY <1>2 DEF Loading
  <1>4. OneLoads'
    BY <1>3 DEF OneLoads
  <1>5. ASSUME NEW x \in Procs, x # p
        PROVE  /\ ~ (proc'[x].pc \in LoadPcs)
               /\ proc'[x].pc = "done" => \E c \in proc'[x].during : proc'[x].ts = Parsed(c)
    BY <1>2, <1>3, <1>5 DEF SInv, LoadedRight, Loading, LoadPcs
  <1>6. source' = source /\ File(p)' = cache'[CacheOf[q.path]]
    BY <1>2 DEF File
  <1>7. LoadsOK'
    <2> SUFFICES ASSUME NEW x \in Procs
                 PROVE  /\ Loading(x)' => /\ proc'[x].path \in Paths
                                          /\ source'[proc'[x].path] \in proc'[x].during
                                          /\ \E c \in proc'[x].during : proc'[x].size = Size[c]
                        /\ proc'[x].pc = "read" =>
                             PartOf(proc'[x].cells, File(x)') /\ Len(proc'[x].cells) = proc'[x].at - 1
                        /\ proc'[x].pc \in {"open", "write"} =>
                             \E c \in proc'[x].during :
                               proc'[x].cells = Image(proc'[x].path, c) /\ proc'[x].ts = Parsed(c)
                        /\ proc'[x].pc = "write" =>
                             /\ proc'[x].out < proc'[x].at /\ proc'[x].at <= Len(proc'[x].cells) + 1
                             /\ Len(File(x)') = proc'[x].out /\ PartOf(File(x)', proc'[x].cells)
      BY DEF LoadsOK
    <2>1. CASE x # p
      BY <1>5, <2>1 DEF LoadPcs, Loading
    <2>2. CASE x = p
      BY <1>2, <1>6, <2>2 DEF Right, LoadPcs, Loading
    <2> QED
      BY <2>1, <2>2
  <1>8. LoadedRight'
    BY <1>2, <1>5 DEF LoadedRight, Right
  <1>9. source' \in [Paths -> Contents]
    BY DEF SInv
  <1> QED
    BY <1>2, <1>4, <1>7, <1>8, <1>9 DEF SInv

(* The caches, when none is written.                                       *)
LEMMA CachesStay ==
  ASSUME SInv, UNCHANGED cache
  PROVE  cache' \in [Names -> Seq(Cells)] /\ CachesOK'
PROOF
  BY DEF SInv, CachesOK

(* The record of a process.                                                *)
Whole(q) ==
  q = [pc |-> q.pc, path |-> q.path, size |-> q.size, cells |-> q.cells,
       at |-> q.at, out |-> q.out, ts |-> q.ts, during |-> q.during]

(* Its fields have their types.                                            *)
LEMMA ProcFields ==
  ASSUME NEW q \in ProcType
  PROVE  /\ Whole(q)
         /\ q.pc \in {"idle", "read", "parse", "open", "write", "done", "failed"}
         /\ q.path \in Paths \cup {"none"} /\ q.size \in Nat /\ q.cells \in Seq(Cells)
         /\ q.at \in Nat /\ q.at > 0 /\ q.out \in Nat
         /\ q.ts \in Seq(Cells) /\ q.during \in SUBSET Contents
PROOF
  BY DEF ProcType, Whole

(* ... and a record whose fields have these types is one.                  *)
LEMMA ProcWhole ==
  ASSUME NEW q, Whole(q),
         q.pc \in {"idle", "read", "parse", "open", "write", "done", "failed"},
         q.path \in Paths \cup {"none"}, q.size \in Nat, q.cells \in Seq(Cells),
         q.at \in Nat, q.at > 0, q.out \in Nat,
         q.ts \in Seq(Cells), q.during \in SUBSET Contents
  PROVE  q \in ProcType
PROOF
  <1>1. ASSUME NEW a \in {"idle", "read", "parse", "open", "write", "done", "failed"},
               NEW b \in Paths \cup {"none"}, NEW c \in Nat, NEW d \in Seq(Cells),
               NEW e \in Nat \ {0}, NEW h \in Nat, NEW f \in Seq(Cells), NEW g \in SUBSET Contents
        PROVE  [pc |-> a, path |-> b, size |-> c, cells |-> d, at |-> e, out |-> h, ts |-> f,
                during |-> g]
                 \in ProcType
    BY DEF ProcType
  <1> DEFINE a == q.pc
             b == q.path
             c == q.size
             d == q.cells
             e == q.at
             h == q.out
             f == q.ts
             g == q.during
  <1>2. /\ a \in {"idle", "read", "parse", "open", "write", "done", "failed"}
        /\ b \in Paths \cup {"none"} /\ c \in Nat /\ d \in Seq(Cells)
        /\ e \in Nat \ {0} /\ h \in Nat /\ f \in Seq(Cells) /\ g \in SUBSET Contents
    OBVIOUS
  <1>3. q = [pc |-> a, path |-> b, size |-> c, cells |-> d, at |-> e, out |-> h, ts |-> f,
             during |-> g]
    BY DEF Whole
  <1> HIDE DEF a, b, c, d, e, h, f, g
  <1> QED
    BY <1>1, <1>2, <1>3

(* One field of it is set.                                                 *)
LEMMA SetOne ==
  ASSUME NEW q, Whole(q), NEW x
  PROVE  /\ [q EXCEPT !.pc = x] = [pc |-> x, path |-> q.path, size |-> q.size, cells |-> q.cells,
                                   at |-> q.at, out |-> q.out, ts |-> q.ts, during |-> q.during]
         /\ [q EXCEPT !.path = x] = [pc |-> q.pc, path |-> x, size |-> q.size, cells |-> q.cells,
                                     at |-> q.at, out |-> q.out, ts |-> q.ts, during |-> q.during]
         /\ [q EXCEPT !.size = x] = [pc |-> q.pc, path |-> q.path, size |-> x, cells |-> q.cells,
                                     at |-> q.at, out |-> q.out, ts |-> q.ts, during |-> q.during]
         /\ [q EXCEPT !.cells = x] = [pc |-> q.pc, path |-> q.path, size |-> q.size, cells |-> x,
                                      at |-> q.at, out |-> q.out, ts |-> q.ts, during |-> q.during]
         /\ [q EXCEPT !.at = x] = [pc |-> q.pc, path |-> q.path, size |-> q.size, cells |-> q.cells,
                                   at |-> x, out |-> q.out, ts |-> q.ts, during |-> q.during]
         /\ [q EXCEPT !.out = x] = [pc |-> q.pc, path |-> q.path, size |-> q.size, cells |-> q.cells,
                                    at |-> q.at, out |-> x, ts |-> q.ts, during |-> q.during]
         /\ [q EXCEPT !.ts = x] = [pc |-> q.pc, path |-> q.path, size |-> q.size, cells |-> q.cells,
                                   at |-> q.at, out |-> q.out, ts |-> x, during |-> q.during]
         /\ [q EXCEPT !.during = x] = [pc |-> q.pc, path |-> q.path, size |-> q.size,
                                       cells |-> q.cells, at |-> q.at, out |-> q.out, ts |-> q.ts,
                                       during |-> x]
PROOF
  BY DEF Whole

(* The fields that a step of load sets together.                           *)
LEMMA SetCellsAt ==
  ASSUME NEW q, Whole(q), NEW x, NEW y
  PROVE  [q EXCEPT !.cells = x, !.at = y]
           = [pc |-> q.pc, path |-> q.path, size |-> q.size, cells |-> x,
              at |-> y, out |-> q.out, ts |-> q.ts, during |-> q.during]
PROOF
  <1> DEFINE r == [q EXCEPT !.cells = x]
  <1>1. r = [pc |-> q.pc, path |-> q.path, size |-> q.size, cells |-> x,
             at |-> q.at, out |-> q.out, ts |-> q.ts, during |-> q.during]
    BY SetOne
  <1> HIDE DEF r
  <1>2. [r EXCEPT !.at = y]
          = [pc |-> q.pc, path |-> q.path, size |-> q.size, cells |-> x,
             at |-> y, out |-> q.out, ts |-> q.ts, during |-> q.during]
    BY <1>1
  <1> QED
    BY <1>2, Zenon DEF r

(* ... and the place in load with the next cell and those that are out,    *)
LEMMA SetPcAtOut ==
  ASSUME NEW q, Whole(q), NEW x, NEW y, NEW z
  PROVE  [q EXCEPT !.pc = x, !.at = y, !.out = z]
           = [pc |-> x, path |-> q.path, size |-> q.size, cells |-> q.cells,
              at |-> y, out |-> z, ts |-> q.ts, during |-> q.during]
PROOF
  <1> DEFINE r == [q EXCEPT !.pc = x]
             s == [r EXCEPT !.at = y]
  <1>1. r = [pc |-> x, path |-> q.path, size |-> q.size, cells |-> q.cells,
             at |-> q.at, out |-> q.out, ts |-> q.ts, during |-> q.during]
    BY SetOne
  <1> HIDE DEF r
  <1>2. s = [pc |-> x, path |-> q.path, size |-> q.size, cells |-> q.cells,
             at |-> y, out |-> q.out, ts |-> q.ts, during |-> q.during]
    BY <1>1
  <1> HIDE DEF s
  <1>3. [s EXCEPT !.out = z]
          = [pc |-> x, path |-> q.path, size |-> q.size, cells |-> q.cells,
             at |-> y, out |-> z, ts |-> q.ts, during |-> q.during]
    BY <1>2
  <1> QED
    BY <1>3, Zenon DEF r, s

(* ... or with the traces,                                                 *)
LEMMA SetPcTs ==
  ASSUME NEW q, Whole(q), NEW x, NEW y
  PROVE  [q EXCEPT !.pc = x, !.ts = y]
           = [pc |-> x, path |-> q.path, size |-> q.size, cells |-> q.cells,
              at |-> q.at, out |-> q.out, ts |-> y, during |-> q.during]
PROOF
  <1> DEFINE r == [q EXCEPT !.pc = x]
  <1>1. r = [pc |-> x, path |-> q.path, size |-> q.size, cells |-> q.cells,
             at |-> q.at, out |-> q.out, ts |-> q.ts, during |-> q.during]
    BY SetOne
  <1> HIDE DEF r
  <1>2. [r EXCEPT !.ts = y]
          = [pc |-> x, path |-> q.path, size |-> q.size, cells |-> q.cells,
             at |-> q.at, out |-> q.out, ts |-> y, during |-> q.during]
    BY <1>1
  <1> QED
    BY <1>2, Zenon DEF r

(* The record of a call.                                                   *)
LEMMA Called ==
  ASSUME NEW path, NEW n, NEW d
  PROVE  [Idle EXCEPT !.pc = "read", !.path = path, !.size = n, !.during = d]
           = [pc |-> "read", path |-> path, size |-> n, cells |-> <<>>,
              at |-> 1, out |-> 0, ts |-> <<>>, during |-> d]
PROOF
  <1> DEFINE i == Idle
             q == [i EXCEPT !.pc = "read"]
             r == [q EXCEPT !.path = path]
             s == [r EXCEPT !.size = n]
  <1>1. Whole(i) /\ i.cells = <<>> /\ i.at = 1 /\ i.out = 0 /\ i.ts = <<>>
    BY DEF Whole, Idle
  <1> HIDE DEF i
  <1>2. q = [pc |-> "read", path |-> i.path, size |-> i.size, cells |-> i.cells,
             at |-> i.at, out |-> i.out, ts |-> i.ts, during |-> i.during]
    BY <1>1, SetOne
  <1> HIDE DEF q
  <1>4. r = [pc |-> "read", path |-> path, size |-> i.size, cells |-> i.cells,
             at |-> i.at, out |-> i.out, ts |-> i.ts, during |-> i.during]
    BY <1>2
  <1> HIDE DEF r
  <1>6. s = [pc |-> "read", path |-> path, size |-> n, cells |-> i.cells,
             at |-> i.at, out |-> i.out, ts |-> i.ts, during |-> i.during]
    BY <1>4
  <1> HIDE DEF s
  <1>8. [s EXCEPT !.during = d]
          = [pc |-> "read", path |-> path, size |-> n, cells |-> i.cells,
             at |-> i.at, out |-> i.out, ts |-> i.ts, during |-> d]
    BY <1>6
  <1>10. [Idle EXCEPT !.pc = "read", !.path = path, !.size = n, !.during = d]
           = [s EXCEPT !.during = d]
    BY Zenon DEF i, q, r, s
  <1> QED
    BY <1>1, <1>8, <1>10

(* A call: nobody else loads, and nothing is read yet.                     *)
LEMMA StepStart ==
  ASSUME SInv, Parallel = 1, NEW p \in Procs, NEW path \in Paths, Start(p, path)
  PROVE  SInv'
PROOF
  <1> DEFINE q == [pc |-> "read", path |-> path, size |-> Size[source[path]], cells |-> <<>>,
                   at |-> 1, out |-> 0, ts |-> <<>>, during |-> {source[path]}]
  <1>1. proc' = [proc EXCEPT ![p] = q] /\ UNCHANGED <<source, cache>>
    <2> DEFINE s == Size[source[path]]
               d == {source[path]}
    <2>1. UNCHANGED <<source, cache>>
      BY DEF Start
    <2>2. proc' = [proc EXCEPT ![p] = [Idle EXCEPT !.pc = "read", !.path = path,
                                                   !.size = s, !.during = d]]
      BY DEF Start
    <2> HIDE DEF s, d
    <2>3. [Idle EXCEPT !.pc = "read", !.path = path, !.size = s, !.during = d]
            = [pc |-> "read", path |-> path, size |-> s, cells |-> <<>>,
               at |-> 1, out |-> 0, ts |-> <<>>, during |-> d]
      BY Called
    <2> QED
      BY <2>1, <2>2, <2>3 DEF s, d
  <1>2. source[path] \in Contents /\ Size[source[path]] \in Nat
    BY StoreAssumption DEF SInv
  <1>3. <<>> \in Seq(Cells) /\ Len(<<>>) = 0
    BY EmptySeq
  <1>4. q \in ProcType
    <2> DEFINE s == Size[source[path]]
               d == {source[path]}
    <2>1. s \in Nat /\ d \in SUBSET Contents
      BY <1>2
    <2> HIDE DEF s, d
    <2> DEFINE n == [pc |-> "read", path |-> path, size |-> s, cells |-> <<>>,
                     at |-> 1, out |-> 0, ts |-> <<>>, during |-> d]
    <2>2. /\ n.pc = "read" /\ n.path = path /\ n.size = s /\ n.cells = <<>>
          /\ n.at = 1 /\ n.out = 0 /\ n.ts = <<>> /\ n.during = d
      OBVIOUS
    <2>3. Whole(n)
      BY DEF Whole
    <2> HIDE DEF n
    <2>4. /\ n.pc \in {"idle", "read", "parse", "open", "write", "done", "failed"}
          /\ n.path \in Paths \cup {"none"} /\ n.size \in Nat /\ n.cells \in Seq(Cells)
          /\ n.at \in Nat /\ n.at > 0 /\ n.out \in Nat /\ n.ts \in Seq(Cells) /\ n.during \in SUBSET Contents
      BY <1>3, <2>1, <2>2
    <2>5. n \in ProcType
      BY <2>3, <2>4, ProcWhole
    <2> QED
      BY <2>5 DEF n, s, d
  <1>5. \A x \in Procs : ~ Loading(x)
    <2> DEFINE L == {x \in Procs : Loading(x)}
    <2>1. IsFiniteSet(L)
      BY StoreAssumption, FS_Subset
    <2>2. Cardinality(L) < 1
      BY DEF Start
    <2>3. Cardinality(L) \in Nat
      BY <2>1, FS_CardinalityType
    <2>4. L = {}
      BY <2>1, <2>2, <2>3, FS_EmptySet
    <2> QED
      BY <2>4
  <1>6. Right(q, cache'[CacheOf[q.path]])
    BY <1>1, <1>2, <1>3 DEF Right, PartOf
  <1> HIDE DEF q
  <1> QED
    BY <1>1, <1>4, <1>5, <1>6, CachesStay, Moved

(* One more cell is read, or the cache is given up.                        *)
LEMMA StepReadCell ==
  ASSUME SInv, NEW p \in Procs, ReadCell(p)
  PROVE  SInv'
PROOF
  <1> DEFINE q == proc[p]
             file == File(p)
  <1>1. q.pc = "read" /\ Loading(p) /\ UNCHANGED <<source, cache>>
    BY DEF ReadCell, Loading
  <1>2. /\ q \in ProcType /\ Right(q, file) /\ file \in Seq(Cells)
        /\ \A x \in Procs : Loading(x) => x = p
    BY <1>1, LoadNow
  <1>3. /\ PartOf(q.cells, file) /\ Len(q.cells) = q.at - 1
        /\ q.path \in Paths /\ source[q.path] \in q.during
        /\ \E c \in q.during : q.size = Size[c]
    BY <1>1, <1>2 DEF Right, LoadPcs
  <1>4. file = cache'[CacheOf[q.path]]
    BY <1>1 DEF File
  <1>5. proc \in [Procs -> ProcType]
    BY DEF SInv
  <1> HIDE DEF q, file
  <1>6. CASE q.at > Len(file) \/ (q.at = 1 /\ file[1].kind # "header")
    <2> DEFINE n == [q EXCEPT !.pc = "parse"]
    <2>1. proc' = [proc EXCEPT ![p] = n]
      BY <1>5, <1>6 DEF ReadCell, Goto, q, file
    <2>2. n = [pc |-> "parse", path |-> q.path, size |-> q.size, cells |-> q.cells,
               at |-> q.at, out |-> q.out, ts |-> q.ts, during |-> q.during]
      BY <1>2, ProcFields, SetOne
    <2> HIDE DEF n
    <2>3. n \in ProcType
      BY <1>2, <2>2, ProcFields, ProcWhole DEF Whole
    <2>4. Right(n, file)
      BY <1>1, <1>3, <2>2 DEF Right, LoadPcs
    <2>5. n.path = q.path
      BY <2>2
    <2> HIDE DEF n
    <2> QED
      BY <1>1, <1>2, <1>4, <2>1, <2>3, <2>4, <2>5, CachesStay, Moved
  <1>7. CASE ~ (q.at > Len(file) \/ (q.at = 1 /\ file[1].kind # "header"))
    <2>1. /\ Whole(q) /\ q.cells \in Seq(Cells) /\ q.at \in Nat /\ q.at > 0 /\ q.out \in Nat
          /\ q.path \in Paths \cup {"none"} /\ q.size \in Nat
          /\ q.ts \in Seq(Cells) /\ q.during \in SUBSET Contents
      BY <1>2, ProcFields
    <2>2. Len(file) \in Nat /\ Len(q.cells) \in Nat
      BY <1>2, <2>1, LenProperties
    <2>3. q.at <= Len(file) /\ q.at = Len(q.cells) + 1
      BY <1>3, <1>7, <2>1, <2>2
    <2> DEFINE a == Append(q.cells, file[q.at])
               k == q.at + 1
               n == [q EXCEPT !.cells = a, !.at = k]
    <2>4. proc' = [proc EXCEPT ![p] = n]
      BY <1>5, <1>7 DEF ReadCell, q, file
    <2>5. a \in Seq(Cells) /\ Len(a) = q.at /\ PartOf(a, file)
      BY <1>2, <1>3, <2>1, <2>3, ReadNext
    <2>6. k \in Nat /\ k > 0 /\ k = q.at + 1
      BY <2>1
    <2> HIDE DEF a, k
    <2>7. n = [pc |-> q.pc, path |-> q.path, size |-> q.size, cells |-> a,
               at |-> k, out |-> q.out, ts |-> q.ts, during |-> q.during]
      BY <2>1, SetCellsAt
    <2> HIDE DEF n
    <2>8. /\ n.pc = "read" /\ n.path = q.path /\ n.size = q.size /\ n.cells = a
          /\ n.at = k /\ n.out = q.out /\ n.ts = q.ts /\ n.during = q.during /\ Whole(n)
      BY <1>1, <2>7 DEF Whole
    <2>9. n \in ProcType
      BY <2>1, <2>5, <2>6, <2>8, ProcWhole
    <2>10. Right(n, file)
      BY <1>3, <2>1, <2>5, <2>6, <2>8 DEF Right, LoadPcs
    <2> QED
      BY <1>1, <1>2, <1>4, <2>4, <2>8, <2>9, <2>10, CachesStay, Moved
  <1> QED
    BY <1>6, <1>7

(* A cache that is accepted is whole, and of a content the file had since  *)
(* the call.                                                               *)
LEMMA Accepted ==
  ASSUME SInv, NEW p \in Procs, proc[p].pc = "read", ~ Wanted(proc[p].cells),
         Accepts(proc[p].cells[1], proc[p].path, proc[p].size)
  PROVE  \E c \in proc[p].during : /\ Tail(proc[p].cells) = Parsed(c)
                                   /\ File(p) = Image(proc[p].path, c)
PROOF
  <1> DEFINE q == proc[p]
             file == File(p)
  <1>1. /\ q \in ProcType /\ Right(q, file) /\ file \in Seq(Cells)
        /\ CacheOf[q.path] \in Names
    BY LoadNow DEF Loading
  <1>2. /\ PartOf(q.cells, file) /\ q.path \in Paths
        /\ \E c \in q.during : q.size = Size[c]
    BY <1>1 DEF Right, LoadPcs
  <1>3. q.cells \in Seq(Cells) /\ q.during \in SUBSET Contents
    BY <1>1, ProcFields
  <1>4. q.cells # <<>> /\ Len(q.cells) \in Nat /\ Len(file) \in Nat
    BY <1>1, <1>3, LenProperties DEF Wanted
  <1>5. file # <<>>
    BY <1>2, <1>3, <1>4, EmptySeq DEF PartOf
  <1>6. PICK path \in Paths, c \in Contents : PartOf(file, Image(path, c))
    BY <1>1, <1>5 DEF SInv, CachesOK, File
  <1>7. q.cells[1].path = q.path /\ q.cells[1].size = q.size /\ ~ Len(q.cells) <= q.cells[1].count
    BY DEF Accepts, Wanted
  <1> HIDE DEF q, file
  <1>8. PartOf(q.cells, Image(path, c))
    BY <1>2, <1>4, <1>6, ImageIs DEF PartOf
  <1>9. /\ q.cells[1].path = path /\ q.cells[1].size = Size[c] /\ q.cells[1].count = Traces[c]
        /\ Len(q.cells) > Traces[c] => q.cells = Image(path, c) /\ Tail(q.cells) = Parsed(c)
    BY <1>3, <1>4, <1>8, PartOfImage
  <1>10. c \in q.during /\ path = q.path
    BY <1>2, <1>3, <1>7, <1>9, StoreAssumption
  <1>11. Traces[c] \in Nat
    BY ImageIs
  <1>12. Len(q.cells) > Traces[c]
    BY <1>4, <1>7, <1>9, <1>11
  <1>13. Len(file) > Traces[c]
    BY <1>2, <1>4, <1>11, <1>12 DEF PartOf
  <1>14. file = Image(path, c)
    BY <1>1, <1>5, <1>6, <1>13, PartOfImage
  <1> QED
    BY <1>9, <1>10, <1>12, <1>14 DEF q, file

(* The cache that is read belongs to the file, or it is not used.          *)
LEMMA StepChoose ==
  ASSUME SInv, NEW p \in Procs, Choose(p)
  PROVE  SInv'
PROOF
  <1> DEFINE q == proc[p]
             file == File(p)
  <1>1. q.pc = "read" /\ Loading(p) /\ UNCHANGED <<source, cache>> /\ ~ Wanted(q.cells)
    BY DEF Choose, Loading
  <1>2. /\ q \in ProcType /\ Right(q, file) /\ file \in Seq(Cells)
        /\ \A x \in Procs : Loading(x) => x = p
    BY <1>1, LoadNow
  <1>3. file = cache'[CacheOf[q.path]]
    BY <1>1 DEF File
  <1>4. CASE Accepts(q.cells[1], q.path, q.size)
    <2> DEFINE t == Tail(q.cells)
               n == [q EXCEPT !.pc = "done", !.ts = t]
    <2>1. proc' = [proc EXCEPT ![p] = n]
      BY <1>4 DEF Choose
    <2>2. \E c \in q.during : t = Parsed(c)
      BY <1>1, <1>4, Accepted
    <2> HIDE DEF q, file, t
    <2>3. /\ Whole(q) /\ q.cells \in Seq(Cells) /\ q.at \in Nat /\ q.at > 0 /\ q.out \in Nat
          /\ q.path \in Paths \cup {"none"} /\ q.size \in Nat
          /\ q.ts \in Seq(Cells) /\ q.during \in SUBSET Contents
      BY <1>2, ProcFields
    <2>4. t \in Seq(Cells)
      BY <1>2, <2>2, <2>3, ImageIs, <1>1 DEF Right, LoadPcs
    <2>5. n = [pc |-> "done", path |-> q.path, size |-> q.size, cells |-> q.cells,
               at |-> q.at, out |-> q.out, ts |-> t, during |-> q.during]
      BY <2>3, SetPcTs
    <2> HIDE DEF n
    <2>6. /\ n.pc = "done" /\ n.path = q.path /\ n.size = q.size /\ n.cells = q.cells
          /\ n.at = q.at /\ n.out = q.out /\ n.ts = t /\ n.during = q.during /\ Whole(n)
      BY <2>5 DEF Whole
    <2>7. n \in ProcType
      BY <2>3, <2>4, <2>6, ProcWhole
    <2>8. Right(n, file)
      BY <2>2, <2>6 DEF Right, LoadPcs
    <2> QED
      BY <1>1, <1>2, <1>3, <2>1, <2>6, <2>7, <2>8, CachesStay, Moved
  <1>5. CASE ~ Accepts(q.cells[1], q.path, q.size)
    <2> DEFINE n == [q EXCEPT !.pc = "parse"]
    <2>1. proc' = [proc EXCEPT ![p] = n]
      BY <1>5 DEF Choose
    <2> HIDE DEF q, file
    <2>2. /\ Whole(q) /\ q.cells \in Seq(Cells) /\ q.at \in Nat /\ q.at > 0 /\ q.out \in Nat
          /\ q.path \in Paths \cup {"none"} /\ q.size \in Nat
          /\ q.ts \in Seq(Cells) /\ q.during \in SUBSET Contents
      BY <1>2, ProcFields
    <2>3. n = [pc |-> "parse", path |-> q.path, size |-> q.size, cells |-> q.cells,
               at |-> q.at, out |-> q.out, ts |-> q.ts, during |-> q.during]
      BY <2>2, SetOne
    <2> HIDE DEF n
    <2>4. /\ n.pc = "parse" /\ n.path = q.path /\ n.size = q.size /\ n.cells = q.cells
          /\ n.at = q.at /\ n.out = q.out /\ n.ts = q.ts /\ n.during = q.during /\ Whole(n)
      BY <2>3 DEF Whole
    <2>5. n \in ProcType
      BY <2>2, <2>4, ProcWhole
    <2>6. Right(n, file)
      BY <1>1, <1>2, <2>4 DEF Right, LoadPcs
    <2> QED
      BY <1>1, <1>2, <1>3, <2>1, <2>4, <2>5, <2>6, CachesStay, Moved
  <1> QED
    BY <1>4, <1>5

(* The traces are those the file holds now.                                *)
LEMMA StepParse ==
  ASSUME SInv, NEW p \in Procs, Parse(p)
  PROVE  SInv'
PROOF
  <1> DEFINE q == proc[p]
             file == File(p)
             c == source[q.path]
             m == Image(q.path, c)
             t == Parsed(c)
             n == [q EXCEPT !.pc = "open", !.cells = m, !.ts = t]
  <1>1. q.pc = "parse" /\ Loading(p) /\ UNCHANGED <<source, cache>> /\ proc' = [proc EXCEPT ![p] = n]
    BY DEF Parse, Loading
  <1>2. /\ q \in ProcType /\ Right(q, file)
        /\ \A x \in Procs : Loading(x) => x = p
    BY <1>1, LoadNow
  <1>3. file = cache'[CacheOf[q.path]]
    BY <1>1 DEF File
  <1>4. /\ Whole(q) /\ q.cells \in Seq(Cells) /\ q.at \in Nat /\ q.at > 0 /\ q.out \in Nat
        /\ q.path \in Paths \cup {"none"} /\ q.size \in Nat
        /\ q.ts \in Seq(Cells) /\ q.during \in SUBSET Contents
    BY <1>2, ProcFields
  <1>5. /\ q.path \in Paths /\ c \in q.during /\ c \in Contents
        /\ \E d \in q.during : q.size = Size[d]
    BY <1>1, <1>2, <1>4 DEF Right, LoadPcs
  <1>6. m \in Seq(Cells) /\ t \in Seq(Cells)
    BY <1>5, ImageIs
  <1>7. \E d \in q.during : m = Image(q.path, d) /\ t = Parsed(d)
    BY <1>5
  <1>8. source[q.path] \in q.during
    BY <1>5
  <1> HIDE DEF q, file, c, m, t
  <1>9. n = [pc |-> "open", path |-> q.path, size |-> q.size, cells |-> m,
             at |-> q.at, out |-> q.out, ts |-> t, during |-> q.during]
    <2> DEFINE r == [q EXCEPT !.pc = "open"]
               s == [r EXCEPT !.cells = m]
    <2>1. r = [pc |-> "open", path |-> q.path, size |-> q.size, cells |-> q.cells,
               at |-> q.at, out |-> q.out, ts |-> q.ts, during |-> q.during]
      BY <1>4, SetOne
    <2> HIDE DEF r
    <2>2. s = [pc |-> "open", path |-> q.path, size |-> q.size, cells |-> m,
               at |-> q.at, out |-> q.out, ts |-> q.ts, during |-> q.during]
      BY <2>1
    <2> HIDE DEF s
    <2>3. [s EXCEPT !.ts = t]
            = [pc |-> "open", path |-> q.path, size |-> q.size, cells |-> m,
               at |-> q.at, out |-> q.out, ts |-> t, during |-> q.during]
      BY <2>2
    <2> QED
      BY <2>3, Zenon DEF r, s, n
  <1> HIDE DEF n
  <1>10. /\ n.pc = "open" /\ n.path = q.path /\ n.size = q.size /\ n.cells = m
         /\ n.at = q.at /\ n.out = q.out /\ n.ts = t /\ n.during = q.during /\ Whole(n)
    BY <1>9 DEF Whole
  <1>11. n \in ProcType
    BY <1>4, <1>6, <1>10, ProcWhole
  <1>12. Right(n, file)
    BY <1>5, <1>7, <1>8, <1>10 DEF Right, LoadPcs
  <1> QED
    BY <1>1, <1>2, <1>3, <1>10, <1>11, <1>12, CachesStay, Moved

(* A cache that is written holds a first part of the cache of some traces. *)
LEMMA CacheSet ==
  ASSUME SInv, NEW n \in Names, NEW s \in Seq(Cells), cache' = [cache EXCEPT ![n] = s],
         s # <<>> => \E path \in Paths, c \in Contents : PartOf(s, Image(path, c))
  PROVE  cache' \in [Names -> Seq(Cells)] /\ CachesOK' /\ cache'[n] = s
PROOF
  <1>1. cache \in [Names -> Seq(Cells)]
    BY DEF SInv
  <1>2. /\ cache' \in [Names -> Seq(Cells)] /\ cache'[n] = s
        /\ \A m \in Names : m # n => cache'[m] = cache[m]
    BY <1>1
  <1>3. ASSUME NEW m \in Names, cache'[m] # <<>>
        PROVE  \E path \in Paths, c \in Contents : PartOf(cache'[m], Image(path, c))
    <2>1. CASE m = n
      BY <1>2, <1>3, <2>1
    <2>2. CASE m # n
      BY <1>2, <1>3, <2>2 DEF SInv, CachesOK
    <2> QED
      BY <2>1, <2>2
  <1> QED
    BY <1>2, <1>3 DEF CachesOK

(* The file is cut to nothing.                                             *)
LEMMA StepOpen ==
  ASSUME SInv, NEW p \in Procs, Open(p)
  PROVE  SInv'
PROOF
  <1> DEFINE q == proc[p]
             n == [q EXCEPT !.pc = "write", !.at = 1, !.out = 0]
             name == CacheOf[q.path]
  <1>1. q.pc = "open" /\ Loading(p) /\ UNCHANGED source
        /\ cache' = [cache EXCEPT ![name] = <<>>] /\ proc \in [Procs -> ProcType]
    BY DEF Open, Loading, SInv
  <1>2. proc' = [proc EXCEPT ![p] = n]
    BY <1>1 DEF Open
  <1>3. /\ q \in ProcType /\ Right(q, File(p)) /\ name \in Names
        /\ \A x \in Procs : Loading(x) => x = p
    BY <1>1, LoadNow
  <1>4. <<>> \in Seq(Cells) /\ Len(<<>>) = 0
    BY EmptySeq
  <1>5. cache' \in [Names -> Seq(Cells)] /\ CachesOK' /\ cache'[name] = <<>>
    BY <1>1, <1>3, <1>4, CacheSet
  <1> HIDE DEF q
  <1>6. /\ Whole(q) /\ q.cells \in Seq(Cells) /\ q.at \in Nat /\ q.at > 0 /\ q.out \in Nat
        /\ q.path \in Paths \cup {"none"} /\ q.size \in Nat
        /\ q.ts \in Seq(Cells) /\ q.during \in SUBSET Contents
    BY <1>3, ProcFields
  <1>7. n = [pc |-> "write", path |-> q.path, size |-> q.size, cells |-> q.cells,
             at |-> 1, out |-> 0, ts |-> q.ts, during |-> q.during]
    BY <1>6, SetPcAtOut
  <1> HIDE DEF n
  <1>8. /\ n.pc = "write" /\ n.path = q.path /\ n.size = q.size /\ n.cells = q.cells
        /\ n.at = 1 /\ n.out = 0 /\ n.ts = q.ts /\ n.during = q.during /\ Whole(n)
    BY <1>7 DEF Whole
  <1>9. n \in ProcType
    BY <1>6, <1>8, ProcWhole
  <1>10. Len(q.cells) \in Nat
    BY <1>6, LenProperties
  <1>11. PartOf(<<>>, q.cells)
    BY <1>4, <1>10 DEF PartOf
  <1>12. Right(n, <<>>)
    BY <1>1, <1>3, <1>4, <1>8, <1>10, <1>11 DEF Right, LoadPcs
  <1> QED
    BY <1>1, <1>2, <1>3, <1>5, <1>8, <1>9, <1>12, Moved

(* What is known of a process that writes its cache.                       *)
LEMMA Writing ==
  ASSUME SInv, NEW p \in Procs, proc[p].pc = "write"
  PROVE  LET q == proc[p]
             file == File(p) IN
         /\ Loading(p) /\ proc \in [Procs -> ProcType]
         /\ q \in ProcType /\ file \in Seq(Cells) /\ CacheOf[q.path] \in Names
         /\ \A x \in Procs : Loading(x) => x = p
         /\ q.path \in Paths /\ source[q.path] \in q.during
         /\ \E c \in q.during : q.size = Size[c]
         /\ \E c \in q.during : q.cells = Image(q.path, c) /\ q.ts = Parsed(c)
         /\ q.out < q.at /\ q.at <= Len(q.cells) + 1
         /\ Len(file) = q.out /\ PartOf(file, q.cells)
         /\ Len(file) \in Nat /\ Len(q.cells) \in Nat
PROOF
  <1> DEFINE q == proc[p]
             file == File(p)
  <1>1. Loading(p) /\ proc \in [Procs -> ProcType]
    BY DEF Loading, SInv
  <1>2. /\ q \in ProcType /\ Right(q, file) /\ file \in Seq(Cells) /\ CacheOf[q.path] \in Names
        /\ \A x \in Procs : Loading(x) => x = p
    BY <1>1, LoadNow
  <1>3. /\ q.path \in Paths /\ source[q.path] \in q.during
        /\ \E c \in q.during : q.size = Size[c]
        /\ \E c \in q.during : q.cells = Image(q.path, c) /\ q.ts = Parsed(c)
        /\ q.out < q.at /\ q.at <= Len(q.cells) + 1
        /\ Len(file) = q.out /\ PartOf(file, q.cells)
    BY <1>2 DEF Right, LoadPcs
  <1>4. q.cells \in Seq(Cells)
    BY <1>2, ProcFields
  <1>5. Len(file) \in Nat /\ Len(q.cells) \in Nat
    BY <1>2, <1>4, LenProperties
  <1> QED
    BY <1>1, <1>2, <1>3, <1>5

(* One more cell is in the buffer.                                         *)
LEMMA StepWriteCell ==
  ASSUME SInv, NEW p \in Procs, WriteCell(p)
  PROVE  SInv'
PROOF
  <1> DEFINE q == proc[p]
             file == File(p)
             k == q.at + 1
             n == [q EXCEPT !.at = k]
  <1>1. q.pc = "write" /\ ~ Complete(q) /\ UNCHANGED <<source, cache>>
    BY DEF WriteCell
  <1>2. /\ Loading(p) /\ proc \in [Procs -> ProcType]
        /\ q \in ProcType /\ file \in Seq(Cells)
        /\ \A x \in Procs : Loading(x) => x = p
        /\ q.path \in Paths /\ source[q.path] \in q.during
        /\ \E c \in q.during : q.size = Size[c]
        /\ \E c \in q.during : q.cells = Image(q.path, c) /\ q.ts = Parsed(c)
        /\ q.out < q.at /\ q.at <= Len(q.cells) + 1
        /\ Len(file) = q.out /\ PartOf(file, q.cells) /\ Len(q.cells) \in Nat
    BY <1>1, Writing
  <1>3. file = cache'[CacheOf[q.path]]
    BY <1>1 DEF File
  <1>4. proc' = [proc EXCEPT ![p] = n]
    BY <1>2 DEF WriteCell
  <1> HIDE DEF q, file
  <1>5. /\ Whole(q) /\ q.cells \in Seq(Cells) /\ q.at \in Nat /\ q.at > 0 /\ q.out \in Nat
        /\ q.path \in Paths \cup {"none"} /\ q.size \in Nat
        /\ q.ts \in Seq(Cells) /\ q.during \in SUBSET Contents
    BY <1>2, ProcFields
  <1>6. k \in Nat /\ k > 0 /\ q.out < k /\ k <= Len(q.cells) + 1
    BY <1>1, <1>2, <1>5 DEF Complete
  <1> HIDE DEF k
  <1>7. n = [pc |-> q.pc, path |-> q.path, size |-> q.size, cells |-> q.cells,
             at |-> k, out |-> q.out, ts |-> q.ts, during |-> q.during]
    BY <1>5, SetOne
  <1> HIDE DEF n
  <1>8. /\ n.pc = "write" /\ n.path = q.path /\ n.size = q.size /\ n.cells = q.cells
        /\ n.at = k /\ n.out = q.out /\ n.ts = q.ts /\ n.during = q.during /\ Whole(n)
    BY <1>1, <1>7 DEF Whole, q
  <1>9. n \in ProcType
    BY <1>5, <1>6, <1>8, ProcWhole
  <1>10. Right(n, file)
    BY <1>2, <1>6, <1>8 DEF Right, LoadPcs
  <1> QED
    BY <1>1, <1>2, <1>3, <1>4, <1>8, <1>9, <1>10, CachesStay, Moved

(* One more cell is in the file.                                           *)
LEMMA StepFlush ==
  ASSUME SInv, NEW p \in Procs, Flush(p)
  PROVE  SInv'
PROOF
  <1> DEFINE q == proc[p]
             file == File(p)
             name == CacheOf[q.path]
             k == q.out + 1
             w == Written(file, k, q.cells[k])
             n == [q EXCEPT !.out = k]
  <1>1. q.pc = "write" /\ ~ Flushed(q) /\ UNCHANGED source
    BY DEF Flush
  <1>2. /\ Loading(p) /\ proc \in [Procs -> ProcType]
        /\ q \in ProcType /\ file \in Seq(Cells) /\ name \in Names
        /\ \A x \in Procs : Loading(x) => x = p
        /\ q.path \in Paths /\ source[q.path] \in q.during
        /\ \E c \in q.during : q.size = Size[c]
        /\ \E c \in q.during : q.cells = Image(q.path, c) /\ q.ts = Parsed(c)
        /\ q.out < q.at /\ q.at <= Len(q.cells) + 1
        /\ Len(file) = q.out /\ PartOf(file, q.cells) /\ Len(q.cells) \in Nat
    BY <1>1, Writing
  <1>3. file = cache[name]
    BY DEF File
  <1>4. cache' = [cache EXCEPT ![name] = w] /\ proc' = [proc EXCEPT ![p] = n]
    BY <1>2, <1>3 DEF Flush
  <1> HIDE DEF q, file, name
  <1>5. /\ Whole(q) /\ q.cells \in Seq(Cells) /\ q.at \in Nat /\ q.at > 0 /\ q.out \in Nat
        /\ q.path \in Paths \cup {"none"} /\ q.size \in Nat
        /\ q.ts \in Seq(Cells) /\ q.during \in SUBSET Contents
    BY <1>2, ProcFields
  <1>6. k \in Nat /\ k = Len(file) + 1 /\ k < q.at /\ k <= Len(q.cells)
    BY <1>1, <1>2, <1>5 DEF Flushed
  <1> HIDE DEF k
  <1>7. w \in Seq(Cells) /\ Len(w) = k /\ PartOf(w, q.cells)
    BY <1>2, <1>5, <1>6, WrittenNext
  <1> HIDE DEF w
  <1>8. \E path \in Paths, c \in Contents : PartOf(w, Image(path, c))
    BY <1>2, <1>5, <1>7
  <1>9. cache' \in [Names -> Seq(Cells)] /\ CachesOK' /\ cache'[name] = w
    BY <1>2, <1>4, <1>7, <1>8, CacheSet
  <1>10. n = [pc |-> q.pc, path |-> q.path, size |-> q.size, cells |-> q.cells,
              at |-> q.at, out |-> k, ts |-> q.ts, during |-> q.during]
    BY <1>5, SetOne
  <1> HIDE DEF n
  <1>11. /\ n.pc = "write" /\ n.path = q.path /\ n.size = q.size /\ n.cells = q.cells
         /\ n.at = q.at /\ n.out = k /\ n.ts = q.ts /\ n.during = q.during /\ Whole(n)
    BY <1>1, <1>10 DEF Whole, q
  <1>12. n \in ProcType
    BY <1>5, <1>6, <1>11, ProcWhole
  <1>13. Right(n, w)
    BY <1>2, <1>6, <1>7, <1>11 DEF Right, LoadPcs
  <1>14. cache'[CacheOf[n.path]] = w
    BY <1>9, <1>11 DEF name
  <1> QED
    BY <1>1, <1>2, <1>4, <1>9, <1>12, <1>13, <1>14, Moved

(* The cache is closed.                                                    *)
LEMMA StepClose ==
  ASSUME SInv, NEW p \in Procs, Close(p)
  PROVE  SInv'
PROOF
  <1> DEFINE q == proc[p]
             file == File(p)
             n == [q EXCEPT !.pc = "done"]
  <1>1. q.pc = "write" /\ UNCHANGED <<source, cache>>
    BY DEF Close
  <1>2. /\ Loading(p) /\ proc \in [Procs -> ProcType]
        /\ q \in ProcType /\ \A x \in Procs : Loading(x) => x = p
        /\ \E c \in q.during : q.cells = Image(q.path, c) /\ q.ts = Parsed(c)
    BY <1>1, Writing
  <1>3. proc' = [proc EXCEPT ![p] = n]
    BY <1>2 DEF Close, Goto
  <1>4. file = cache'[CacheOf[q.path]]
    BY <1>1 DEF File
  <1> HIDE DEF q, file
  <1>5. /\ Whole(q) /\ q.cells \in Seq(Cells) /\ q.at \in Nat /\ q.at > 0 /\ q.out \in Nat
        /\ q.path \in Paths \cup {"none"} /\ q.size \in Nat
        /\ q.ts \in Seq(Cells) /\ q.during \in SUBSET Contents
    BY <1>2, ProcFields
  <1>6. n = [pc |-> "done", path |-> q.path, size |-> q.size, cells |-> q.cells,
             at |-> q.at, out |-> q.out, ts |-> q.ts, during |-> q.during]
    BY <1>5, SetOne
  <1> HIDE DEF n
  <1>7. /\ n.pc = "done" /\ n.path = q.path /\ n.size = q.size /\ n.cells = q.cells
        /\ n.at = q.at /\ n.out = q.out /\ n.ts = q.ts /\ n.during = q.during /\ Whole(n)
    BY <1>6 DEF Whole
  <1>8. n \in ProcType
    BY <1>5, <1>7, ProcWhole
  <1>9. Right(n, file)
    BY <1>2, <1>7 DEF Right, LoadPcs
  <1> QED
    BY <1>1, <1>2, <1>3, <1>4, <1>7, <1>8, <1>9, CachesStay, Moved

(* A load that gives up, with an error or because its process died, is     *)
(* none any more; what it wrote stays a part of a cache.                   *)
LEMMA Ended ==
  ASSUME SInv, NEW p \in Procs, Loading(p), NEW q \in ProcType, q.pc \in {"idle", "failed"},
         proc' = [proc EXCEPT ![p] = q], UNCHANGED <<source, cache>>
  PROVE  SInv'
PROOF
  <1>1. \A x \in Procs : Loading(x) => x = p
    BY LoadNow
  <1>2. Right(q, cache'[CacheOf[q.path]])
    BY DEF Right, LoadPcs
  <1> QED
    BY <1>1, <1>2, CachesStay, Moved

(* The error of fopen, or of a write.                                      *)
LEMMA StepFails ==
  ASSUME SInv, NEW p \in Procs, OpenFails(p) \/ WriteFails(p)
  PROVE  SInv'
PROOF
  <1> DEFINE q == proc[p]
             n == [q EXCEPT !.pc = "failed"]
  <1>1. /\ Loading(p) /\ UNCHANGED <<source, cache>> /\ proc' = [proc EXCEPT ![p] = n]
        /\ q \in ProcType
    BY DEF OpenFails, WriteFails, Goto, Loading, SInv
  <1> HIDE DEF q
  <1>2. /\ Whole(q) /\ q.cells \in Seq(Cells) /\ q.at \in Nat /\ q.at > 0 /\ q.out \in Nat
        /\ q.path \in Paths \cup {"none"} /\ q.size \in Nat
        /\ q.ts \in Seq(Cells) /\ q.during \in SUBSET Contents
    BY <1>1, ProcFields
  <1>3. n = [pc |-> "failed", path |-> q.path, size |-> q.size, cells |-> q.cells,
             at |-> q.at, out |-> q.out, ts |-> q.ts, during |-> q.during]
    BY <1>2, SetOne
  <1> HIDE DEF n
  <1>4. /\ n.pc = "failed" /\ n.path = q.path /\ n.size = q.size /\ n.cells = q.cells
        /\ n.at = q.at /\ n.out = q.out /\ n.ts = q.ts /\ n.during = q.during /\ Whole(n)
    BY <1>3 DEF Whole
  <1>5. n \in ProcType
    BY <1>2, <1>4, ProcWhole
  <1> QED
    BY <1>1, <1>4, <1>5, Ended

(* The record of a process that is not in load.                            *)
LEMMA IdleType == Idle \in ProcType /\ Idle.pc = "idle"
PROOF
  <1> DEFINE i == Idle
  <1>1. <<>> \in Seq(Cells)
    BY EmptySeq
  <1>2. /\ i.pc = "idle" /\ i.path = "none" /\ i.size = 0 /\ i.cells = <<>> /\ i.at = 1 /\ i.out = 0
        /\ i.ts = <<>> /\ i.during = {} /\ Whole(i)
    BY DEF Idle, Whole
  <1> HIDE DEF i
  <1>3. /\ i.pc \in {"idle", "read", "parse", "open", "write", "done", "failed"}
        /\ i.path \in Paths \cup {"none"} /\ i.size \in Nat /\ i.cells \in Seq(Cells)
        /\ i.at \in Nat /\ i.at > 0 /\ i.out \in Nat /\ i.ts \in Seq(Cells) /\ i.during \in SUBSET Contents
    BY <1>1, <1>2
  <1>4. i \in ProcType
    BY <1>2, <1>3, ProcWhole
  <1> QED
    BY <1>2, <1>4 DEF i

(* A process dies.                                                         *)
LEMMA StepCrash ==
  ASSUME SInv, NEW p \in Procs, Crash(p)
  PROVE  SInv'
PROOF
  BY IdleType, Ended DEF Crash

(* A file is replaced: every load of it may return what it holds now.      *)
LEMMA StepReplace ==
  ASSUME SInv, NEW path \in Paths, NEW c \in Contents, Replace(path, c)
  PROVE  SInv'
PROOF
  <1>1. /\ source' = [source EXCEPT ![path] = c] /\ cache' = cache
        /\ source \in [Paths -> Contents]
        /\ cache \in [Names -> Seq(Cells)] /\ proc \in [Procs -> ProcType]
    BY DEF Replace, SInv
  <1>2. source' \in [Paths -> Contents] /\ source'[path] = c
        /\ \A x \in Paths : x # path => source'[x] = source[x]
    BY <1>1
  <1>3. ASSUME NEW x \in Procs
        PROVE  /\ proc'[x] \in ProcType /\ proc'[x].pc = proc[x].pc
               /\ proc'[x].path = proc[x].path /\ proc'[x].size = proc[x].size
               /\ proc'[x].cells = proc[x].cells /\ proc'[x].at = proc[x].at
               /\ proc'[x].out = proc[x].out /\ proc'[x].ts = proc[x].ts
               /\ proc[x].during \subseteq proc'[x].during
               /\ Loading(x) /\ proc[x].path = path => c \in proc'[x].during
    <2> DEFINE q == proc[x]
               d == q.during \cup {c}
               n == [q EXCEPT !.during = d]
    <2>1. proc'[x] = IF Loading(x) /\ q.path = path THEN n ELSE q
      BY DEF Replace
    <2>2. q \in ProcType
      BY <1>1
    <2> HIDE DEF q
    <2>3. /\ Whole(q) /\ q.cells \in Seq(Cells) /\ q.at \in Nat /\ q.at > 0 /\ q.out \in Nat
          /\ q.path \in Paths \cup {"none"} /\ q.size \in Nat
          /\ q.ts \in Seq(Cells) /\ q.during \in SUBSET Contents
          /\ q.pc \in {"idle", "read", "parse", "open", "write", "done", "failed"}
      BY <2>2, ProcFields
    <2>4. d \in SUBSET Contents /\ q.during \subseteq d /\ c \in d
      BY <2>3
    <2> HIDE DEF d
    <2>5. n = [pc |-> q.pc, path |-> q.path, size |-> q.size, cells |-> q.cells,
               at |-> q.at, out |-> q.out, ts |-> q.ts, during |-> d]
      BY <2>3, SetOne
    <2> HIDE DEF n
    <2>6. /\ n.pc = q.pc /\ n.path = q.path /\ n.size = q.size /\ n.cells = q.cells
          /\ n.at = q.at /\ n.out = q.out /\ n.ts = q.ts /\ n.during = d /\ Whole(n)
      BY <2>5 DEF Whole
    <2>7. n \in ProcType
      BY <2>3, <2>4, <2>6, ProcWhole
    <2>8. CASE Loading(x) /\ q.path = path
      <3>1. proc'[x] = n
        BY <2>1, <2>8
      <3> QED
        BY <2>4, <2>6, <2>7, <3>1 DEF q
    <2>9. CASE ~ (Loading(x) /\ q.path = path)
      <3>1. proc'[x] = q
        BY <2>1, <2>9
      <3> QED
        BY <2>2, <2>9, <3>1 DEF q
    <2> QED
      BY <2>8, <2>9
  <1>4. proc' \in [Procs -> ProcType]
    <2>1. \E f : proc' = [x \in Procs |-> f[x]]
      <3>1. proc' = [x \in Procs |-> proc'[x]]
        BY DEF Replace
      <3> QED
        BY <3>1
    <2> QED
      BY <1>3, <2>1
  <1>5. \A x \in Procs : (Loading(x)' <=> Loading(x)) /\ File(x)' = File(x)
    BY <1>1, <1>3 DEF Loading, File
  <1>6. CachesOK' /\ OneLoads'
    BY <1>1, <1>5 DEF SInv, CachesOK, OneLoads
  <1>7. LoadsOK'
    <2> SUFFICES ASSUME NEW x \in Procs
                 PROVE  /\ Loading(x)' => /\ proc'[x].path \in Paths
                                          /\ source'[proc'[x].path] \in proc'[x].during
                                          /\ \E d \in proc'[x].during : proc'[x].size = Size[d]
                        /\ proc'[x].pc = "read" =>
                             PartOf(proc'[x].cells, File(x)') /\ Len(proc'[x].cells) = proc'[x].at - 1
                        /\ proc'[x].pc \in {"open", "write"} =>
                             \E d \in proc'[x].during :
                               proc'[x].cells = Image(proc'[x].path, d) /\ proc'[x].ts = Parsed(d)
                        /\ proc'[x].pc = "write" =>
                             /\ proc'[x].out < proc'[x].at /\ proc'[x].at <= Len(proc'[x].cells) + 1
                             /\ Len(File(x)') = proc'[x].out /\ PartOf(File(x)', proc'[x].cells)
      BY DEF LoadsOK
    <2>1. ASSUME Loading(x)
          PROVE  /\ proc'[x].path \in Paths /\ source'[proc'[x].path] \in proc'[x].during
                 /\ \E d \in proc'[x].during : proc'[x].size = Size[d]
      <3>1. proc[x].path \in Paths /\ source[proc[x].path] \in proc[x].during
            /\ \E d \in proc[x].during : proc[x].size = Size[d]
        BY <2>1 DEF SInv, LoadsOK
      <3>2. source'[proc[x].path] \in proc'[x].during
        BY <1>2, <1>3, <2>1, <3>1
      <3> QED
        BY <1>3, <3>1, <3>2
    <2>2. proc'[x].pc = "read" =>
            PartOf(proc'[x].cells, File(x)') /\ Len(proc'[x].cells) = proc'[x].at - 1
      BY <1>3, <1>5 DEF SInv, LoadsOK
    <2>3. proc'[x].pc \in {"open", "write"} =>
            \E d \in proc'[x].during :
              proc'[x].cells = Image(proc'[x].path, d) /\ proc'[x].ts = Parsed(d)
      BY <1>3 DEF SInv, LoadsOK
    <2>4. proc'[x].pc = "write" =>
            /\ proc'[x].out < proc'[x].at /\ proc'[x].at <= Len(proc'[x].cells) + 1
            /\ Len(File(x)') = proc'[x].out /\ PartOf(File(x)', proc'[x].cells)
      BY <1>3, <1>5 DEF SInv, LoadsOK
    <2> QED
      BY <1>5, <2>1, <2>2, <2>3, <2>4
  <1>8. LoadedRight'
    BY <1>3 DEF SInv, LoadedRight
  <1> QED
    BY <1>1, <1>2, <1>4, <1>6, <1>7, <1>8 DEF SInv

(* Nothing is loaded yet.                                                  *)
LEMMA InitSInv ==
  ASSUME StoreInit
  PROVE  SInv
PROOF
  <1>1. <<>> \in Seq(Cells)
    BY EmptySeq
  <1>2. /\ source \in [Paths -> Contents]
        /\ cache \in [Names -> Seq(Cells)] /\ \A n \in Names : cache[n] = <<>>
    BY <1>1 DEF StoreInit
  <1>3. proc \in [Procs -> ProcType] /\ \A p \in Procs : proc[p].pc = "idle"
    BY IdleType DEF StoreInit
  <1> QED
    BY <1>2, <1>3 DEF SInv, CachesOK, OneLoads, LoadsOK, LoadedRight, Loading

(* Every step keeps the invariant.                                         *)
LEMMA StepSInv ==
  ASSUME SInv, Parallel = 1, [StoreNext]_storevars
  PROVE  SInv'
PROOF
  <1>1. CASE UNCHANGED storevars
    BY <1>1 DEF storevars, SInv, CachesOK, OneLoads, LoadsOK, LoadedRight, Loading, File
  <1>2. ASSUME NEW p \in Procs, NEW path \in Paths, Start(p, path)
        PROVE  SInv'
    BY <1>2, StepStart
  <1>3. ASSUME NEW p \in Procs,
               ReadCell(p) \/ Choose(p) \/ Parse(p) \/ Open(p) \/ OpenFails(p)
                 \/ WriteCell(p) \/ Flush(p) \/ WriteFails(p) \/ Close(p) \/ Crash(p)
        PROVE  SInv'
    BY <1>3, StepReadCell, StepChoose, StepParse, StepOpen, StepFails, StepWriteCell, StepFlush,
       StepClose, StepCrash
  <1>4. ASSUME NEW path \in Paths, NEW c \in Contents, Replace(path, c)
        PROVE  SInv'
    BY <1>4, StepReplace
  <1>5. CASE DiskTurns
    BY <1>5 DEF DiskTurns, SInv, CachesOK, OneLoads, LoadsOK, LoadedRight, Loading, File
  <1> QED
    BY <1>1, <1>2, <1>3, <1>4, <1>5 DEF StoreNext

-----------------------------------------------------------------------------
(* What is proved of the trace cache.                                      *)

(* Whatever processes that died or found no room have left, a cache file   *)
(* is a first part of the cache of some traces, as long as processes load  *)
(* one after the other.                                                    *)
THEOREM StoreInvariant ==
  ASSUME Parallel = 1
  PROVE  StoreSpec => []SInv
PROOF
  <1>1. StoreInit => SInv
    BY InitSInv
  <1>2. SInv /\ [StoreNext]_storevars => SInv'
    BY StepSInv
  <1> QED
    BY <1>1, <1>2, PTL DEF StoreSpec

(* A load returns what the file held at some time since the call.          *)
(* (trace.cpp load, load_cache)                                            *)
THEOREM LoadedTheorem ==
  ASSUME Parallel = 1
  PROVE  StoreSpec => []LoadedRight
PROOF
  <1>1. SInv => LoadedRight
    BY DEF SInv
  <1> QED
    BY <1>1, StoreInvariant, PTL

(* A load that ends leaves a cache of what it returned.                    *)
LEMMA LeavesNow ==
  ASSUME SInv, Parallel = 1, [StoreNext]_storevars, NEW p \in Procs, Loading(p),
         proc'[p].pc = "done", proc[p].pc = "write" => room
  PROVE  Cached(p)'
PROOF
  <1> DEFINE q == proc[p]
             file == File(p)
  <1>0. proc \in [Procs -> ProcType] /\ q.pc \in LoadPcs
    BY DEF SInv, Loading, LoadPcs
  <1>1. /\ q \in ProcType /\ file \in Seq(Cells)
        /\ \A x \in Procs : Loading(x) => x = p
    BY LoadNow
  <1>2. Whole(q) /\ q.cells \in Seq(Cells) /\ q.at \in Nat /\ q.out \in Nat
    BY <1>1, ProcFields
  <1>3. CASE Choose(p)
    <2>1. q.pc = "read" /\ ~ Wanted(q.cells) /\ cache' = cache
      BY <1>3 DEF Choose
    <2>2. Accepts(q.cells[1], q.path, q.size)
      <3> SUFFICES ASSUME ~ Accepts(q.cells[1], q.path, q.size)
                   PROVE  FALSE
        OBVIOUS
      <3>1. proc'[p] = [q EXCEPT !.pc = "parse"]
        BY <1>0, <1>3 DEF Choose
      <3>2. [q EXCEPT !.pc = "parse"].pc = "parse"
        BY <1>1 DEF ProcType
      <3> QED
        BY <3>1, <3>2
    <2>3. \E c \in q.during : Tail(q.cells) = Parsed(c) /\ file = Image(q.path, c)
      BY <2>1, <2>2, Accepted
    <2> DEFINE t == Tail(q.cells)
               n == [q EXCEPT !.pc = "done", !.ts = t]
    <2>4. proc'[p] = n
      BY <1>0, <1>3, <2>2 DEF Choose
    <2> HIDE DEF t
    <2>5. n.ts = t /\ n.path = q.path /\ n.during = q.during
      BY <1>2, SetPcTs
    <2> HIDE DEF n
    <2>6. File(p)' = file
      BY <2>1, <2>4, <2>5 DEF File
    <2> QED
      BY <2>3, <2>4, <2>5, <2>6 DEF Cached, t
  <1>4. CASE Close(p)
    <2>1. q.pc = "write" /\ Complete(q) /\ cache' = cache /\ Flushed(q)
      BY <1>4 DEF Close
    <2>2. /\ \E c \in q.during : q.cells = Image(q.path, c) /\ q.ts = Parsed(c)
          /\ q.at <= Len(q.cells) + 1 /\ Len(file) = q.out /\ PartOf(file, q.cells)
          /\ Len(q.cells) \in Nat
      BY <2>1, Writing
    <2>3. Len(file) = Len(q.cells)
      BY <1>2, <2>1, <2>2 DEF Complete, Flushed
    <2>4. file = q.cells
      BY <1>1, <1>2, <2>2, <2>3, SameCells
    <2> DEFINE n == [q EXCEPT !.pc = "done"]
    <2>5. proc'[p] = n
      BY <1>0, <1>4 DEF Close, Goto
    <2>6. n.ts = q.ts /\ n.path = q.path /\ n.during = q.during
      BY <1>2, SetOne
    <2> HIDE DEF n
    <2>7. File(p)' = file
      BY <2>1, <2>5, <2>6 DEF File
    <2> QED
      BY <2>2, <2>4, <2>5, <2>6, <2>7 DEF Cached
  <1>5. ASSUME NEW x \in Procs, x # p,
               ReadCell(x) \/ Choose(x) \/ Parse(x) \/ Open(x) \/ OpenFails(x) \/ WriteCell(x)
                 \/ Flush(x) \/ WriteFails(x) \/ Close(x) \/ Crash(x)
        PROVE  FALSE
    <2>1. Loading(x)
      BY <1>5 DEF ReadCell, Choose, Parse, Open, OpenFails, WriteCell, Flush, WriteFails, Close,
                  Crash, Loading
    <2> QED
      BY <1>1, <1>5, <2>1
  <1>6. ASSUME NEW x \in Procs, NEW path \in Paths, Start(x, path)
        PROVE  FALSE
    <2>1. x # p
      BY <1>6 DEF Start
    <2>2. proc'[p] = proc[p]
      BY <1>0, <1>6, <2>1 DEF Start
    <2> QED
      BY <1>0, <2>2 DEF LoadPcs
  <1>7. ASSUME ReadCell(p) \/ Parse(p) \/ Open(p) \/ OpenFails(p) \/ WriteCell(p) \/ Flush(p)
                 \/ WriteFails(p) \/ Crash(p)
        PROVE  FALSE
    <2>1. CASE ReadCell(p)
      BY <1>0, <1>1, <2>1, ZenonT(30) DEF ReadCell, Goto, ProcType
    <2>2. CASE Parse(p)
      BY <1>0, <1>1, <2>2 DEF Parse, ProcType
    <2>3. CASE Open(p)
      BY <1>0, <1>1, <2>3 DEF Open, ProcType
    <2>4. CASE OpenFails(p) \/ WriteFails(p)
      BY <1>0, <1>1, <2>4 DEF OpenFails, WriteFails, Goto, ProcType
    <2>5. CASE WriteCell(p)
      BY <1>0, <1>1, <2>5 DEF WriteCell, ProcType
    <2>6. CASE Flush(p)
      BY <1>0, <1>1, <2>6 DEF Flush, ProcType
    <2>7. CASE Crash(p)
      BY <1>0, <2>7, IdleType DEF Crash
    <2> QED
      BY <1>7, <2>1, <2>2, <2>3, <2>4, <2>5, <2>6, <2>7
  <1>8. ASSUME NEW path \in Paths, NEW c \in Contents, Replace(path, c)
        PROVE  FALSE
    BY <1>0, <1>1, <1>8 DEF Replace, ProcType, LoadPcs
  <1>9. CASE UNCHANGED storevars \/ DiskTurns
    BY <1>0, <1>9 DEF storevars, DiskTurns, LoadPcs
  <1> QED
    BY <1>3, <1>4, <1>5, <1>6, <1>7, <1>8, <1>9 DEF StoreNext

(* A load that returns leaves a cache of what it returned, unless the disk *)
(* was full when it closed the cache that it wrote.                        *)
(* (trace.cpp load, load_cache, save_cache)                                *)
THEOREM LeavesTheorem ==
  ASSUME Parallel = 1
  PROVE  StoreSpec => LeavesCache
PROOF
  <1>1. SInv /\ [StoreNext]_storevars =>
          [\A p \in Procs :
             /\ Loading(p) /\ proc'[p].pc = "done"
             /\ proc[p].pc = "write" => room
             => Cached(p)']_storevars
    BY LeavesNow
  <1> QED
    BY <1>1, StoreInvariant, PTL DEF StoreSpec, LeavesCache
=============================================================================
