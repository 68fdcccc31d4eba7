----------------------------- MODULE Evaluation -----------------------------
(***************************************************************************)
(* The parallel evaluation of points (cli/main.cpp, evaluate_points) and   *)
(* the tables, caches and locks that its tasks share (perfdata/            *)
(* measured.cpp, MeasuredTables).  How a table answers a query is          *)
(* RowsAnswer; module OpTables has what query_rows does.                   *)
(*                                                                         *)
(* A row is [cat, num, lat]: its categorical and numeric keys by column    *)
(* and its latency.  All sources of a table have the same columns.  Notes  *)
(* are left out.                                                           *)
(***************************************************************************)
EXTENDS Integers, FiniteSets, SequencesExt, FiniteSetsExt, TLC

CONSTANTS
  Scenarios,            \* [aliases, files, slots, specs, points, jobs]
  RowsAnswer(_, _, _)   \* query_rows: of a table, a query and the spec of its device

(* evaluate_points makes at least one job of g_jobs (273).                 *)
ASSUME ScenariosAssumption ==
  \A s \in Scenarios :
    /\ s.jobs \in Nat \ {0}
    /\ s.points \in Seq(Range(s.points))
    /\ \A i \in DOMAIN s.points : s.points[i] \in Seq(Range(s.points[i]))

NaN == -1             \* latencies are not negative
None == 0             \* a version that is not given; versions are positive
Current == -1
Previous == -2
Next_ == -3

(* fmt: six significant digits. *)
Fmt(v) ==
  LET unit == IF v < 1000000 THEN 1 ELSE IF v < 10000000 THEN 10 ELSE 100
  IN ((v + unit \div 2) \div unit) * unit

Answer(source, ms) == [source |-> source, ms |-> ms]
Unsupported == Answer("unsupported", NaN)

-----------------------------------------------------------------------------
(* MeasuredTables                                                          *)

System(sc, device) ==
  IF device \in DOMAIN sc.specs /\ sc.specs[device].tables # "" THEN sc.specs[device].tables
  ELSE device

Spec_(sc, device) ==
  IF device \in DOMAIN sc.specs THEN sc.specs[device]
  ELSE [framework |-> "", versions |-> [f \in {} |-> None], tables |-> "", flops |-> 0, bandwidth |-> 1]

Versions(sc, system, framework, table) ==
  {a.version : a \in {x \in Range(sc.aliases) :
     x.system = system /\ x.framework = framework /\ x.table = table}}

ResolveVersion(sc, system, framework, version) ==
  IF version > None THEN version
  ELSE IF <<system, framework>> \notin DOMAIN sc.slots THEN None
  ELSE LET slot == sc.slots[<<system, framework>>] IN
       CASE version = Current -> slot.current
         [] version = Previous -> slot.previous
         [] version = Next_ -> slot.next
         [] OTHER -> None

(* The place of the table of a query among the aliases, 0 when there is    *)
(* none: the framework and the version are those of the query, or those of *)
(* the device, or the latest version there is.                             *)
Located(sc, device, q) ==
  LET system == System(sc, device)
      spec == Spec_(sc, device)
      framework == IF q.framework # "" THEN q.framework ELSE spec.framework
      latest == Max({None} \cup Versions(sc, system, framework, q.op))
      given == IF q.version # None THEN q.version
               ELSE IF framework \in DOMAIN spec.versions THEN spec.versions[framework]
               ELSE latest
      version == ResolveVersion(sc, system, framework, given)
      fits == {i \in DOMAIN sc.aliases :
                 LET a == sc.aliases[i] IN
                 <<a.system, a.framework, a.version, a.table>> =
                   <<system, framework, version, q.op>>}
  IN IF framework = "" THEN 0 ELSE Max({0} \cup fits)

(* The keys of a row as they are printed. *)
RowKey(r) == <<r.cat, [a \in DOMAIN r.num |-> Fmt(r.num[a])]>>

(* The first row of each key is kept. *)
Kept(rows, i) == \A j \in DOMAIN rows : j < i => RowKey(rows[j]) # RowKey(rows[i])

(* The rows of the sources of a table in their order; a source may be      *)
(* limited to some lanes.                                                  *)
MergedTable(sc, alias) ==
  LET Rows(src) == SelectSeq(sc.files[src.path], LAMBDA r :
                     \/ src.lanes = {}
                     \/ "kernel_source" \in DOMAIN r.cat /\ r.cat["kernel_source"] \in src.lanes)
      rows == FlattenSeq([i \in DOMAIN alias.sources |-> Rows(alias.sources[i])])
  IN {[cat |-> rows[i].cat, num |-> rows[i].num, lat |-> rows[i].lat, n |-> i] :
        i \in {j \in DOMAIN rows : Kept(rows, j)}}

(* Mutant: the device is left out. *)
MemoKeyNoDevice(device, q) == <<"", [q EXCEPT !.num = [a \in DOMAIN q.num |-> Fmt(q.num[a])]]>>

(* The key of the memo. *)
MemoKey(device, q) == <<device, [q EXCEPT !.num = [a \in DOMAIN q.num |-> Fmt(q.num[a])]]>>

-----------------------------------------------------------------------------
(* Points are evaluated in tasks of their own, at most `jobs` at a time,   *)
(* and taken in order.  A point is a sequence of <<device, query>>.        *)

VARIABLES
  sc,       \* the scenario
  memo,     \* memo_
  cache,    \* cache_: alias -> merged table
  task,     \* the launched points: [pc, answers]
  out,      \* the answers of the points that were drained
  failed    \* a task has thrown and evaluate_points with it

opvars == <<sc, memo, cache, task, out, failed>>

(* emplace: what is there already stays. *)
Emplaced(f, key, value) ==
  [k \in DOMAIN f \cup {key} |-> IF k \in DOMAIN f THEN f[k] ELSE value]

Query(i) == sc.points[i][Len(task[i].answers) + 1]
Pending == Len(task) - Len(out)

OpInit ==
  /\ sc \in Scenarios
  /\ memo = <<>>
  /\ cache = <<>>
  /\ task = <<>>
  /\ out = <<>>
  /\ failed = FALSE

Asks(i) == task[i].pc = "ask" /\ Len(task[i].answers) < Len(sc.points[i])
Done(i) == task[i].pc = "ask" /\ Len(task[i].answers) = Len(sc.points[i])

(* query: the memo is read under the lock. *)
Ask(i) ==
  /\ Asks(i)
  /\ LET key == MemoKey(Query(i)[1], Query(i)[2]) IN
     IF key \in DOMAIN memo
       THEN task' = [task EXCEPT ![i].answers = Append(@, memo[key])]
     ELSE task' = [task EXCEPT ![i].pc = "table"]
  /\ UNCHANGED <<sc, memo, cache, out, failed>>

(* table: read and merged under the lock, once; a file may be missing. *)
ReadTable(i) ==
  LET alias == Located(sc, Query(i)[1], Query(i)[2]) IN
  /\ task[i].pc = "table"
  /\ IF alias = 0 \/ alias \in DOMAIN cache
       THEN task' = [task EXCEPT ![i].pc = "rows"] /\ UNCHANGED cache
     ELSE IF \E src \in Range(sc.aliases[alias].sources) : src.path \notin DOMAIN sc.files
       THEN task' = [task EXCEPT ![i].pc = "thrown"] /\ UNCHANGED cache
     ELSE /\ task' = [task EXCEPT ![i].pc = "rows"]
          /\ cache' = Emplaced(cache, alias, MergedTable(sc, sc.aliases[alias]))
  /\ UNCHANGED <<sc, memo, out, failed>>

(* The answer is worked out without the lock and put in the memo under it, *)
(* where another task may have put its own.                                *)
Remembered(i, key, answer) ==
  /\ memo' = Emplaced(memo, key, answer)
  /\ task' = [task EXCEPT ![i] = [pc |-> "ask", answers |-> Append(@.answers, answer)]]

Remember(i) ==
  LET device == Query(i)[1]
      q == Query(i)[2]
      Answered(alias) ==
        IF alias = 0 THEN Unsupported ELSE RowsAnswer(cache[alias], q, Spec_(sc, device))
  IN /\ task[i].pc = "rows"
     /\ Remembered(i, MemoKey(device, q), Answered(Located(sc, device, q)))
     /\ UNCHANGED <<sc, cache, out, failed>>

(* evaluate_points: the window is full, or all points are launched. *)
Launches == Len(task) < Len(sc.points) /\ Pending < sc.jobs

Launch ==
  /\ ~ failed /\ Launches
  /\ task' = Append(task, [pc |-> "ask", answers |-> <<>>])
  /\ UNCHANGED <<sc, memo, cache, out, failed>>

(* Mutant: the loop ends with the last launch. *)
DrainsFull == Pending = sc.jobs

Drains == Pending = sc.jobs \/ Len(task) = Len(sc.points)
Over(i) == Done(i) \/ task[i].pc = "thrown"

Drain ==
  LET i == Len(out) + 1 IN
  /\ ~ failed
  /\ Pending > 0 /\ Drains
  /\ \/ Done(i) /\ out' = Append(out, task[i].answers) /\ UNCHANGED failed
     \/ task[i].pc = "thrown" /\ failed' = TRUE /\ UNCHANGED out
  /\ UNCHANGED <<sc, memo, cache, task>>

Run(i) == Ask(i) \/ ReadTable(i) \/ Remember(i)

OpNext == Launch \/ Drain \/ \E i \in DOMAIN task : Run(i)

OpSpec == OpInit /\ [][OpNext]_opvars

-----------------------------------------------------------------------------
(* Properties                                                              *)

(* The answer of a query on its own. *)
Reference(device, q) ==
  LET alias == Located(sc, device, q) IN
  IF alias = 0 THEN Unsupported
  ELSE RowsAnswer(MergedTable(sc, sc.aliases[alias]), q, Spec_(sc, device))

(* The newest answer of each task. *)
Asked == {<<i, Len(task[i].answers)>> : i \in {k \in DOMAIN task : task[k].answers # <<>>}}
At_(ij) == sc.points[ij[1]][ij[2]]
Given(ij) == task[ij[1]].answers[ij[2]]

Readable(device, q) ==
  LET alias == Located(sc, device, q) IN
  alias # 0 => \A src \in Range(sc.aliases[alias].sources) : src.path \in DOMAIN sc.files

(* Whatever the tasks do at the same time, each gets the answers it would  *)
(* get alone, none where a file is missing, and the results stand in the   *)
(* order of the points.                                                    *)
(* (measured.cpp query, table; main.cpp evaluate_points)                   *)
AnswersPure ==
  /\ \A ij \in Asked : LET device == At_(ij)[1]
                           q == At_(ij)[2] IN
       Readable(device, q) /\ Given(ij) = Reference(device, q)
  /\ \A i \in DOMAIN out : Len(out[i]) = Len(sc.points[i]) /\ out[i] = task[i].answers

(* Nobody waits for ever: until each point has its answers, or the error   *)
(* of one has ended the evaluation, a task is at work, or the loop can go  *)
(* on.  No step can be repeated, so that every evaluation ends.            *)
(* (main.cpp evaluate_points, measured.cpp query)                          *)
NobodyStuck ==
  \/ failed \/ Len(out) = Len(sc.points)
  \/ \E i \in DOMAIN task : ~ Over(i)
  \/ Launches
  \/ Pending > 0 /\ Drains /\ Over(Len(out) + 1)

=============================================================================
