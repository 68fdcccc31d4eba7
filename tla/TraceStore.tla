----------------------------- MODULE TraceStore -----------------------------
(***************************************************************************)
(* How traces come from a file or from its cache (trace.cpp load, with     *)
(* load_cache, load_weka and save_cache).  The cache is written in place,  *)
(* so that a process that dies, or finds no room, leaves a part of it.     *)
(*                                                                         *)
(* A file of recorded traces has a content, of which the size and the      *)
(* number of traces are known.  A cache file is a sequence of cells: the   *)
(* magic, path, size and count, then one cell for each trace.  A cell is   *)
(* written into the buffer of stdio first, and reaches the file when this  *)
(* is flushed, a cell at a time; of a cell of which only a part is there   *)
(* a reader says that the file ends before it.  Bytes that were never      *)
(* written between others read as zeros: an empty trace, but no magic.     *)
(***************************************************************************)
EXTENDS Integers, FiniteSets, Sequences

CONSTANTS
  Procs,        \* processes that call load, again after they ended or died
  Paths,        \* jsonl_path
  Names,        \* cache files
  CacheOf,      \* cache_path of each path: only the file name counts
  Contents,     \* what may stand in a file of recorded traces
  Size,         \* its size
  Traces,       \* the number of its traces
  Parallel,     \* processes that load at the same time
  MaxLoads,     \* bound: calls of load
  MaxReplaced   \* bound: times a file is replaced

(* A cache is told from an outdated one by the size alone. *)
ASSUME StoreAssumption ==
  /\ IsFiniteSet(Procs)
  /\ CacheOf \in [Paths -> Names]
  /\ Size \in [Contents -> Nat] /\ Traces \in [Contents -> Nat]
  /\ \A c, d \in Contents : Size[c] = Size[d] => c = d

VARIABLES
  source,     \* the content of each path
  cache,      \* the cells of each cache file; none where there is no file
  proc,       \* where each process is in load
  room,       \* the disk takes what is written
  loads,      \* calls so far
  replaced    \* replacements so far

storevars == <<source, cache, proc, room, loads, replaced>>

-----------------------------------------------------------------------------
(* Cells                                                                   *)

Header(path, size, count) == [kind |-> "header", path |-> path, size |-> size, count |-> count]
TraceCell(c, i) == [kind |-> "trace", of |-> c, at |-> i]
Zeros == [kind |-> "zeros"]

(* The traces of a content, and the cache of them. *)
Parsed(c) == [i \in 1 .. Traces[c] |-> TraceCell(c, i)]
Image(path, c) == <<Header(path, Size[c], Traces[c])>> \o Parsed(c)

(* A write at a place behind the end leaves zeros in between. *)
Written(cells, at, cell) ==
  [i \in 1 .. IF at > Len(cells) THEN at ELSE Len(cells) |->
     IF i = at THEN cell ELSE IF i <= Len(cells) THEN cells[i] ELSE Zeros]

-----------------------------------------------------------------------------
(* load: size is file_size of the path, cells what was read of the cache   *)
(* or is to be written, at the next cell to be read or written, out the    *)
(* cells that left the buffer; during holds what the file had since the    *)
(* call.                                                                   *)

Idle == [pc |-> "idle", path |-> "none", size |-> 0, cells |-> <<>>, at |-> 1, out |-> 0,
         ts |-> <<>>, during |-> {}]

Loading(p) == proc[p].pc \in {"read", "parse", "open", "write"}

StoreInit ==
  /\ source \in [Paths -> Contents]
  /\ cache = [n \in Names |-> <<>>]
  /\ proc = [p \in Procs |-> Idle]
  /\ room \in BOOLEAN
  /\ loads = 0 /\ replaced = 0

File(p) == cache[CacheOf[proc[p].path]]
Goto(p, pc) == proc' = [proc EXCEPT ![p].pc = pc]

(* load up to the opening of the cache. *)
Start(p, path) ==
  /\ loads < MaxLoads
  /\ ~ Loading(p) /\ Cardinality({q \in Procs : Loading(q)}) < Parallel
  /\ loads' = loads + 1
  /\ proc' = [proc EXCEPT ![p] =
       [Idle EXCEPT !.pc = "read", !.path = path, !.size = Size[source[path]],
                    !.during = {source[path]}]]
  /\ UNCHANGED <<source, cache, room, replaced>>

(* Mutant: the path alone decides. *)
AcceptsPath(head, path, size) == head.path = path

Accepts(head, path, size) == head.path = path /\ head.size = size

(* The cells that are still to be read, of a cache with a magic. *)
Wanted(cells) == cells # <<>> => Len(cells) <= cells[1].count

(* load_cache: a cache without the magic, or one that ends too soon, is    *)
(* as good as none.                                                        *)
ReadCell(p) ==
  LET q == proc[p]
      file == File(p) IN
  /\ q.pc = "read" /\ Wanted(q.cells)
  /\ IF q.at > Len(file) \/ (q.at = 1 /\ file[1].kind # "header")
       THEN Goto(p, "parse")
     ELSE proc' = [proc EXCEPT ![p].cells = Append(@, file[q.at]), ![p].at = @ + 1]
  /\ UNCHANGED <<source, cache, room, loads, replaced>>

(* load: the cache was read to its end. *)
Choose(p) ==
  LET q == proc[p] IN
  /\ q.pc = "read" /\ ~ Wanted(q.cells)
  /\ proc' = [proc EXCEPT ![p] = IF Accepts(q.cells[1], q.path, q.size)
                                   THEN [q EXCEPT !.pc = "done", !.ts = Tail(q.cells)]
                                 ELSE [q EXCEPT !.pc = "parse"]]
  /\ UNCHANGED <<source, cache, room, loads, replaced>>

(* load_weka: the file is read at once. *)
Parse(p) ==
  LET q == proc[p]
      c == source[q.path] IN
  /\ q.pc = "parse"
  /\ proc' = [proc EXCEPT ![p] = [q EXCEPT !.pc = "open", !.cells = Image(q.path, c),
                                           !.ts = Parsed(c)]]
  /\ UNCHANGED <<source, cache, room, loads, replaced>>

(* save_cache: fopen cuts the file to nothing, and the buffer is empty.    *)
Open(p) ==
  /\ proc[p].pc = "open"
  /\ cache' = [cache EXCEPT ![CacheOf[proc[p].path]] = <<>>]
  /\ proc' = [proc EXCEPT ![p].pc = "write", ![p].at = 1, ![p].out = 0]
  /\ UNCHANGED <<source, room, loads, replaced>>

(* The cache cannot be opened: the error leaves load, although the traces  *)
(* are there.                                                              *)
OpenFails(p) ==
  /\ proc[p].pc = "open"
  /\ Goto(p, "failed")
  /\ UNCHANGED <<source, cache, room, loads, replaced>>

(* Mutant: the last trace is left out. *)
AllButLast(q) == q.at = Len(q.cells)

(* All cells are written, be it into the buffer. *)
Complete(q) == q.at > Len(q.cells)

(* Nothing is left in the buffer. *)
Flushed(q) == q.out = q.at - 1

(* fwrite takes the next cell into the buffer.                             *)
WriteCell(p) ==
  /\ proc[p].pc = "write" /\ ~ Complete(proc[p])
  /\ proc' = [proc EXCEPT ![p].at = @ + 1]
  /\ UNCHANGED <<source, cache, room, loads, replaced>>

(* A cell leaves the buffer: there is no room for the next one in it, or   *)
(* the file is being closed.                                               *)
Flush(p) ==
  LET q == proc[p] IN
  /\ q.pc = "write" /\ ~ Flushed(q) /\ room
  /\ cache' = [cache EXCEPT ![CacheOf[q.path]] = Written(@, q.out + 1, q.cells[q.out + 1])]
  /\ proc' = [proc EXCEPT ![p].out = @ + 1]
  /\ UNCHANGED <<source, room, loads, replaced>>

(* An fwrite that has to flush reports that it cannot, and raw throws; the *)
(* buffer is lost.                                                         *)
WriteFails(p) ==
  /\ proc[p].pc = "write" /\ ~ Complete(proc[p]) /\ ~ room
  /\ Goto(p, "failed")
  /\ UNCHANGED <<source, cache, room, loads, replaced>>

(* fclose flushes what is left.  Nobody looks at its result: what the disk *)
(* does not take is lost, and load returns.                                *)
Close(p) ==
  /\ proc[p].pc = "write" /\ Complete(proc[p])
  /\ Flushed(proc[p]) \/ ~ room
  /\ Goto(p, "done")
  /\ UNCHANGED <<source, cache, room, loads, replaced>>

(* A process dies; what has reached the disk stays there. *)
Crash(p) ==
  /\ Loading(p)
  /\ proc' = [proc EXCEPT ![p] = Idle]
  /\ UNCHANGED <<source, cache, room, loads, replaced>>

(* The user puts other traces in the place of a file. *)
Replace(path, c) ==
  /\ replaced < MaxReplaced /\ source[path] # c
  /\ source' = [source EXCEPT ![path] = c]
  /\ replaced' = replaced + 1
  /\ proc' = [p \in Procs |-> IF Loading(p) /\ proc[p].path = path
                                THEN [proc[p] EXCEPT !.during = @ \cup {c}] ELSE proc[p]]
  /\ UNCHANGED <<cache, room, loads>>

(* The disk is full, or others have made room.                             *)
DiskTurns ==
  /\ room' = ~ room
  /\ UNCHANGED <<source, cache, proc, loads, replaced>>

StoreNext ==
  \/ \E p \in Procs :
       \/ \E path \in Paths : Start(p, path)
       \/ ReadCell(p) \/ Choose(p) \/ Parse(p)
       \/ Open(p) \/ OpenFails(p)
       \/ WriteCell(p) \/ Flush(p) \/ WriteFails(p) \/ Close(p)
       \/ Crash(p)
  \/ \E path \in Paths, c \in Contents : Replace(path, c)
  \/ DiskTurns

StoreSpec == StoreInit /\ [][StoreNext]_storevars

-----------------------------------------------------------------------------
(* Properties                                                              *)

(* A load returns what the file held at some time since the call, whatever *)
(* earlier calls for this path or for one of the same file name have left  *)
(* in the cache.  (trace.cpp load, load_cache; trace_test.cpp:181)         *)
LoadedRight ==
  \A p \in Procs : proc[p].pc = "done" => \E c \in proc[p].during : proc[p].ts = Parsed(c)

(* The traces of a load stand in the cache of its path, and are what the   *)
(* file held at some time since the call.                                  *)
Cached(p) ==
  \E c \in proc[p].during : proc[p].ts = Parsed(c) /\ File(p) = Image(proc[p].path, c)

(* A load that returns leaves a cache of what it returned, whatever it has *)
(* found there, but for one case: it wrote the cache itself, and the disk  *)
(* was full when it closed it.  (trace.cpp load, load_cache, save_cache)   *)
LeavesCache ==
  [][\A p \in Procs :
       /\ Loading(p) /\ proc'[p].pc = "done"
       /\ proc[p].pc = "write" => room
       => Cached(p)']_storevars

(* A load that returns leaves a cache, for the next loads to be quick.     *)
(* (README.md:28; trace.cpp:224)                                           *)
CacheWritten ==
  [][\A p \in Procs : Loading(p) /\ proc'[p].pc = "done" => Cached(p)']_storevars

=============================================================================
