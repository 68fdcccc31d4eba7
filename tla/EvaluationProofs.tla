-------------------------- MODULE EvaluationProofs --------------------------
(***************************************************************************)
(* Proofs about module Evaluation, for any tables, points and number of    *)
(* jobs, and whatever query_rows computes: tasks that share the memo and   *)
(* the tables get the answers they would get alone, and nobody is left     *)
(* waiting.                                                                *)
(***************************************************************************)
EXTENDS Evaluation, TLAPS, SequenceTheorems

(* The queries of a scenario, each with its device.                        *)
Queries(s) == UNION {Range(s.points[i]) : i \in DOMAIN s.points}

(* Queries that are printed alike are the same query: fmt tells the        *)
(* numbers of a scenario apart (the configuration tables_digits shows what *)
(* happens otherwise).                                                     *)
ToldApart ==
  \A s \in Scenarios : \A x, y \in Queries(s) :
    MemoKey(x[1], x[2]) = MemoKey(y[1], y[2]) => x = y

-----------------------------------------------------------------------------
(* The inductive invariant behind AnswersPure and NobodyStuck.             *)

(* What the queries of the scenario, and the n-th one of point i, are      *)
(* answered alone.                                                         *)
Replies == {Reference(x[1], x[2]) : x \in {y \in Queries(sc) : Readable(y[1], y[2])}}

Alone(i, n) == Reference(sc.points[i][n][1], sc.points[i][n][2])

(* A task has the answers to the first queries of its point, and goes on   *)
(* with the next one; the rows it is about to ask are there.               *)
TaskOK(i, t) ==
  LET n == Len(t.answers)
      x == sc.points[i][n + 1]
  IN /\ n \in 0 .. Len(sc.points[i])
     /\ t.answers = [m \in 1 .. n |-> Alone(i, m)]
     /\ \A m \in 1 .. n : Readable(sc.points[i][m][1], sc.points[i][m][2])
     /\ t.pc # "ask" => n < Len(sc.points[i])
     /\ t.pc = "rows" => Located(sc, x[1], x[2]) \in {0} \cup DOMAIN cache

Tasks == [pc : {"ask", "table", "rows", "thrown"}, answers : Seq(Replies)]

(* What tasks have left behind for each other.                             *)
CacheOK ==
  \A a \in DOMAIN cache :
    /\ cache[a] = MergedTable(sc, sc.aliases[a])
    /\ \A src \in Range(sc.aliases[a].sources) : src.path \in DOMAIN sc.files

MemoOK ==
  \A x \in Queries(sc) : MemoKey(x[1], x[2]) \in DOMAIN memo =>
    memo[MemoKey(x[1], x[2])] = Reference(x[1], x[2]) /\ Readable(x[1], x[2])

(* Points are launched and drained in order, at most `jobs` at a time.     *)
WindowOK ==
  /\ Len(out) <= Len(task) /\ Len(task) <= Len(sc.points) /\ Len(task) - Len(out) <= sc.jobs
  /\ \A i \in DOMAIN out : out[i] = task[i].answers /\ Done(i)

EvalInv ==
  /\ sc \in Scenarios
  /\ task \in Seq(Tasks) /\ out \in Seq(Seq(Replies))
  /\ \A i \in DOMAIN task : TaskOK(i, task[i])
  /\ CacheOK /\ MemoOK /\ WindowOK

-----------------------------------------------------------------------------

(* The points of the scenario and their queries.                           *)
LEMMA PointsAre ==
  ASSUME sc \in Scenarios
  PROVE  /\ sc.jobs \in Nat \ {0} /\ Len(sc.points) \in Nat /\ DOMAIN sc.points = 1 .. Len(sc.points)
         /\ \A i \in DOMAIN sc.points :
              /\ Len(sc.points[i]) \in Nat /\ DOMAIN sc.points[i] = 1 .. Len(sc.points[i])
              /\ \A n \in 1 .. Len(sc.points[i]) :
                   sc.points[i][n] \in Queries(sc)
PROOF
  <1>1. /\ sc.jobs \in Nat \ {0} /\ sc.points \in Seq(Range(sc.points))
        /\ \A i \in DOMAIN sc.points : sc.points[i] \in Seq(Range(sc.points[i]))
    BY ScenariosAssumption
  <1>2. /\ Len(sc.points) \in Nat /\ DOMAIN sc.points = 1 .. Len(sc.points)
        /\ \A i \in DOMAIN sc.points :
             Len(sc.points[i]) \in Nat /\ DOMAIN sc.points[i] = 1 .. Len(sc.points[i])
    BY <1>1, LenProperties
  <1>3. ASSUME NEW i \in DOMAIN sc.points, NEW n \in 1 .. Len(sc.points[i])
        PROVE  sc.points[i][n] \in Queries(sc)
    <2>1. sc.points[i][n] \in Range(sc.points[i])
      BY <1>2 DEF Range
    <2> QED
      BY <2>1 DEF Queries
  <1> QED
    BY <1>1, <1>2, <1>3

(* A task that has not all its answers asks the next query of its point.   *)
LEMMA QueryIs ==
  ASSUME EvalInv, NEW i \in DOMAIN task, Len(task[i].answers) < Len(sc.points[i])
  PROVE  /\ task[i].answers \in Seq(Replies) /\ Len(task[i].answers) \in Nat
         /\ i \in DOMAIN sc.points
         /\ Query(i) \in Queries(sc) /\ Query(i) = sc.points[i][Len(task[i].answers) + 1]
         /\ Reference(Query(i)[1], Query(i)[2]) = Alone(i, Len(task[i].answers) + 1)
         /\ Len(task[i].answers) + 1 \in 1 .. Len(sc.points[i])
PROOF
  <1>1. /\ task \in Seq(Tasks)
        /\ sc \in Scenarios /\ Len(task) <= Len(sc.points)
    BY DEF EvalInv, WindowOK
  <1>2. /\ Len(task) \in Nat /\ DOMAIN task = 1 .. Len(task)
        /\ task[i] \in Tasks
    BY <1>1, LenProperties, ElementOfSeq
  <1>3. task[i].answers \in Seq(Replies) /\ Len(task[i].answers) \in Nat
    BY <1>2, LenProperties DEF Tasks
  <1>4. i \in DOMAIN sc.points
    BY <1>1, <1>2, PointsAre
  <1>5. Len(task[i].answers) + 1 \in 1 .. Len(sc.points[i])
    BY <1>1, <1>3, <1>4, PointsAre
  <1>6. Query(i) = sc.points[i][Len(task[i].answers) + 1]
    BY DEF Query
  <1> QED
    BY <1>1, <1>3, <1>4, <1>5, <1>6, PointsAre DEF Alone

(* What a query is answered alone depends on the scenario only.            *)
LEMMA AloneStays ==
  ASSUME UNCHANGED sc
  PROVE  /\ \A x, y : Reference(x, y)' = Reference(x, y) /\ (Readable(x, y)' <=> Readable(x, y))
         /\ \A i, n : Alone(i, n)' = Alone(i, n)
         /\ Queries(sc)' = Queries(sc) /\ Replies' = Replies /\ Tasks' = Tasks
PROOF
  <1>1. \A x, y : Reference(x, y)' = Reference(x, y)
    BY DEF Reference
  <1>2. \A x, y : Readable(x, y)' <=> Readable(x, y)
    BY DEF Readable
  <1>3. \A i, n : Alone(i, n)' = Alone(i, n)
    BY <1>1 DEF Alone
  <1>4. Queries(sc)' = Queries(sc)
    OBVIOUS
  <1>5. Replies' = Replies
    BY <1>1, <1>2, <1>4 DEF Replies
  <1>6. Tasks' = Tasks
    BY <1>5 DEF Tasks
  <1> QED
    BY <1>1, <1>2, <1>3, <1>4, <1>5, <1>6

(* The memo is as it was, or has the answer to one more query.             *)
LEMMA MemoStays ==
  ASSUME UNCHANGED <<sc, memo>>, MemoOK
  PROVE  MemoOK'
PROOF
  BY AloneStays DEF MemoOK

(* A task that does not move keeps what it has.                            *)
LEMMA TaskStays ==
  ASSUME NEW k, TaskOK(k, task[k]), task'[k] = task[k], UNCHANGED sc,
         DOMAIN cache \subseteq DOMAIN cache'
  PROVE  TaskOK(k, task[k])'
PROOF
  <1> DEFINE n == Len(task[k].answers)
             x == sc.points[k][n + 1]
  <1>1. /\ n \in 0 .. Len(sc.points[k])
        /\ task[k].answers = [m \in 1 .. n |-> Alone(k, m)]
        /\ \A m \in 1 .. n : Readable(sc.points[k][m][1], sc.points[k][m][2])
        /\ task[k].pc # "ask" => n < Len(sc.points[k])
        /\ task[k].pc = "rows" => Located(sc, x[1], x[2]) \in {0} \cup DOMAIN cache
    BY DEF TaskOK
  <1>2. /\ task'[k].answers = [m \in 1 .. n |-> Alone(k, m)']
        /\ \A m \in 1 .. n : Readable(sc.points[k][m][1], sc.points[k][m][2])'
    BY <1>1, AloneStays
  <1>3. n = Len(task'[k].answers)
    OBVIOUS
  <1>4. /\ n \in 0 .. Len(sc'.points[k])
        /\ task'[k].pc # "ask" => n < Len(sc'.points[k])
    BY <1>1
  <1>5. task'[k].pc = "rows" =>
          Located(sc', sc'.points[k][n + 1][1], sc'.points[k][n + 1][2]) \in {0} \cup DOMAIN cache'
    BY <1>1
  <1> HIDE DEF n
  <1> QED
    BY <1>2, <1>3, <1>4, <1>5 DEF TaskOK

(* A task goes on that has not all its answers yet.                        *)
LEMMA TaskStep ==
  ASSUME EvalInv, NEW i \in DOMAIN task, Len(task[i].answers) < Len(sc.points[i]),
         NEW t \in Tasks, TaskOK(i, t)', task' = [task EXCEPT ![i] = t], UNCHANGED <<sc, out>>,
         CacheOK', MemoOK', DOMAIN cache \subseteq DOMAIN cache'
  PROVE  EvalInv'
PROOF
  <1>1. /\ sc \in Scenarios /\ task \in Seq(Tasks) /\ out \in Seq(Seq(Replies)) /\ WindowOK
        /\ \A k \in DOMAIN task : TaskOK(k, task[k])
    BY DEF EvalInv
  <1>2. DOMAIN task = 1 .. Len(task) /\ Len(task) \in Nat /\ DOMAIN out = 1 .. Len(out) /\ Len(out) \in Nat
    BY <1>1, LenProperties
  <1>3. /\ task' \in Seq(Tasks) /\ Len(task') = Len(task) /\ DOMAIN task' = DOMAIN task
        /\ task'[i] = t /\ \A k \in DOMAIN task : k # i => task'[k] = task[k]
    BY <1>1, <1>2, ExceptSeq, LenProperties
  <1>4. task' \in Seq(Tasks)' /\ out' \in Seq(Seq(Replies))'
    BY <1>1, <1>3, AloneStays
  <1>5. \A k \in DOMAIN task' : TaskOK(k, task[k])'
    <2> SUFFICES ASSUME NEW k \in DOMAIN task'
                 PROVE  TaskOK(k, task[k])'
      OBVIOUS
    <2>1. CASE k = i
      <3>1. \A u : u = task'[k] /\ u = t => TaskOK(k, u)' 
        BY <2>1
      <3> QED
        BY <1>3, <2>1, <3>1 DEF TaskOK
    <2>2. CASE k # i
      <3>1. TaskOK(k, task[k]) /\ task'[k] = task[k]
        BY <1>1, <1>3, <2>2
      <3> QED
        BY <3>1, TaskStays
    <2> QED
      BY <2>1, <2>2
  <1>6. i \notin DOMAIN out
    BY <1>1, <1>2, QueryIs, PointsAre DEF WindowOK, Done
  <1>7. WindowOK'
    <2>1. \A k \in DOMAIN out : k \in DOMAIN task /\ k # i
      BY <1>1, <1>2, <1>6 DEF WindowOK
    <2> QED
      BY <1>1, <1>3, <2>1 DEF WindowOK, Done
  <1> QED
    BY <1>1, <1>4, <1>5, <1>7 DEF EvalInv

(* The next query of a task is answered as it would be alone.              *)
LEMMA Answered ==
  ASSUME EvalInv, NEW i \in DOMAIN task, Len(task[i].answers) < Len(sc.points[i]),
         NEW t, t = [pc |-> "ask", answers |-> Append(task[i].answers, Reference(Query(i)[1], Query(i)[2]))],
         Readable(Query(i)[1], Query(i)[2]), UNCHANGED sc
  PROVE  t \in Tasks /\ TaskOK(i, t)'
PROOF
  <1> DEFINE n == Len(task[i].answers)
  <1>1. /\ task[i].answers \in Seq(Replies) /\ n \in Nat /\ i \in DOMAIN sc.points
        /\ Query(i) = sc.points[i][n + 1] /\ n + 1 \in 1 .. Len(sc.points[i])
        /\ Reference(Query(i)[1], Query(i)[2]) = Alone(i, n + 1)
    BY QueryIs
  <1>2. /\ TaskOK(i, task[i]) /\ sc \in Scenarios
    BY DEF EvalInv
  <1>3. Alone(i, n + 1) \in Replies /\ Len(sc.points[i]) \in Nat
    <2>1. Query(i) \in Queries(sc) /\ Readable(Query(i)[1], Query(i)[2])
      BY QueryIs
    <2> QED
      BY <1>1, <1>2, <2>1, PointsAre DEF Replies
  <1>4. /\ t.pc = "ask" /\ t.answers = Append(task[i].answers, Alone(i, n + 1))
        /\ t = [pc |-> "ask", answers |-> t.answers]
    BY <1>1
  <1>5. /\ t.answers \in Seq(Replies) /\ Len(t.answers) = n + 1 /\ DOMAIN t.answers = 1 .. n + 1
        /\ t.answers[n + 1] = Alone(i, n + 1)
        /\ \A m \in 1 .. n : t.answers[m] = task[i].answers[m]
    BY <1>1, <1>3, <1>4, AppendProperties, LenProperties
  <1>6. t \in Tasks
    BY <1>4, <1>5 DEF Tasks
  <1>7. \A m \in 1 .. n : task[i].answers[m] = Alone(i, m) /\ Readable(sc.points[i][m][1], sc.points[i][m][2])
    BY <1>2 DEF TaskOK
  <1>8. \A m \in 1 .. n + 1 : m = n + 1 \/ m \in 1 .. n
    BY <1>1
  <1>9. \A m \in 1 .. n + 1 : t.answers[m] = Alone(i, m) /\ Readable(sc.points[i][m][1], sc.points[i][m][2])
    BY <1>1, <1>5, <1>7, <1>8
  <1>10. t.answers = [m \in 1 .. n + 1 |-> Alone(i, m)']
    BY <1>5, <1>9, AloneStays
  <1>11. \A m \in 1 .. n + 1 : Readable(sc.points[i][m][1], sc.points[i][m][2])'
    BY <1>9, AloneStays
  <1>12. n + 1 \in 0 .. Len(sc.points[i])
    BY <1>1, <1>3
  <1> HIDE DEF n
  <1> QED
    BY <1>4, <1>5, <1>6, <1>10, <1>11, <1>12 DEF TaskOK

(* A task goes on with the same query.                                     *)
LEMMA Moved ==
  ASSUME EvalInv, NEW i \in DOMAIN task, Len(task[i].answers) < Len(sc.points[i]),
         NEW p \in {"table", "rows", "thrown"}, NEW t, t = [pc |-> p, answers |-> task[i].answers],
         p = "rows" => Located(sc, Query(i)[1], Query(i)[2]) \in {0} \cup DOMAIN cache',
         UNCHANGED sc
  PROVE  t \in Tasks /\ TaskOK(i, t)'
PROOF
  <1> DEFINE n == Len(task[i].answers)
  <1>1. /\ task[i].answers \in Seq(Replies) /\ Query(i) = sc.points[i][n + 1]
    BY QueryIs
  <1>2. TaskOK(i, task[i])
    BY DEF EvalInv
  <1>3. t \in Tasks /\ t.answers = task[i].answers /\ t.pc = p
    BY <1>1 DEF Tasks
  <1>4. /\ n \in 0 .. Len(sc.points[i]) /\ task[i].answers = [m \in 1 .. n |-> Alone(i, m)]
        /\ \A m \in 1 .. n : Readable(sc.points[i][m][1], sc.points[i][m][2])
    BY <1>2 DEF TaskOK
  <1>5. /\ t.answers = [m \in 1 .. n |-> Alone(i, m)']
        /\ \A m \in 1 .. n : Readable(sc.points[i][m][1], sc.points[i][m][2])'
    BY <1>3, <1>4, AloneStays
  <1> HIDE DEF n
  <1>6. n = Len(t.answers)
    BY <1>3 DEF n
  <1>7. n < Len(sc.points[i])
    BY DEF n
  <1> QED
    BY <1>1, <1>3, <1>4, <1>5, <1>6, <1>7 DEF TaskOK

(* query: the memo has what the query is answered alone.                   *)
LEMMA AskSafe ==
  ASSUME EvalInv, NEW i \in DOMAIN task, Ask(i)
  PROVE  EvalInv'
PROOF
  <1> DEFINE x == Query(i)
             key == MemoKey(x[1], x[2])
  <1>1. /\ TaskOK(i, task[i]) /\ sc \in Scenarios /\ task \in Seq(Tasks) /\ MemoOK /\ CacheOK
    BY DEF EvalInv
  <1>2. task[i] \in Tasks
    BY <1>1, ElementOfSeq, LenProperties
  <1>3. /\ task[i].pc = "ask" /\ Len(task[i].answers) < Len(sc.points[i]) /\ UNCHANGED <<sc, memo, cache, out>>
    BY DEF Ask, Asks
  <1>4. x \in Queries(sc)
    BY <1>3, QueryIs
  <1>5. MemoOK' /\ CacheOK'
    BY <1>1, <1>3, MemoStays DEF CacheOK
  <1>6. CASE key \in DOMAIN memo
    <2>1. memo[key] = Reference(x[1], x[2]) /\ Readable(x[1], x[2])
      BY <1>1, <1>4, <1>6 DEF MemoOK
    <2>2. PICK t : t = [pc |-> "ask", answers |-> Append(task[i].answers, Reference(x[1], x[2]))]
      OBVIOUS
    <2>3. task' = [task EXCEPT ![i] = t]
      <3>1. task' = [task EXCEPT ![i].answers = Append(@, memo[key])]
        BY <1>6 DEF Ask
      <3>2. \A v : [task[i] EXCEPT !.answers = v] = [pc |-> "ask", answers |-> v]
        BY <1>2, <1>3 DEF Tasks
      <3>3. task' = [task EXCEPT ![i] = [task[i] EXCEPT !.answers = Append(task[i].answers, memo[key])]]
        BY <3>1
      <3> QED
        BY <2>1, <2>2, <3>2, <3>3
    <2>4. t \in Tasks /\ TaskOK(i, t)'
      BY <1>3, <2>1, <2>2, Answered
    <2> QED
      BY <1>3, <1>5, <2>3, <2>4, TaskStep
  <1>7. CASE key \notin DOMAIN memo
    <2>1. PICK t : t = [pc |-> "table", answers |-> task[i].answers]
      OBVIOUS
    <2>2. task' = [task EXCEPT ![i] = t]
      <3>1. task' = [task EXCEPT ![i].pc = "table"]
        BY <1>7 DEF Ask
      <3>2. [task[i] EXCEPT !.pc = "table"] = t
        BY <1>2, <2>1 DEF Tasks
      <3> QED
        BY <3>1, <3>2
    <2>3. t \in Tasks /\ TaskOK(i, t)'
      BY <1>1, <1>2, <1>3, <2>1, Moved
    <2> QED
      BY <1>3, <1>5, <2>2, <2>3, TaskStep
  <1> QED
    BY <1>6, <1>7

(* table: what is cached is the merged table of the alias.                 *)
LEMMA ReadTableSafe ==
  ASSUME EvalInv, NEW i \in DOMAIN task, ReadTable(i)
  PROVE  EvalInv'
PROOF
  <1> DEFINE alias == Located(sc, Query(i)[1], Query(i)[2])
             merged == MergedTable(sc, sc.aliases[alias])
  <1>1. /\ TaskOK(i, task[i]) /\ sc \in Scenarios /\ task \in Seq(Tasks) /\ MemoOK /\ CacheOK
    BY DEF EvalInv
  <1>2. task[i] \in Tasks
    BY <1>1, ElementOfSeq, LenProperties
  <1>3. task[i].pc = "table" /\ UNCHANGED <<sc, memo, out>>
    BY DEF ReadTable
  <1>4. Len(task[i].answers) < Len(sc.points[i])
    BY <1>1, <1>3 DEF TaskOK
  <1>5. MemoOK'
    BY <1>1, <1>3, MemoStays
  <1>6. \A p : [task[i] EXCEPT !.pc = p] = [pc |-> p, answers |-> task[i].answers]
    BY <1>2 DEF Tasks
  <1>7. ASSUME NEW p \in {"rows", "thrown"}, task' = [task EXCEPT ![i].pc = p], CacheOK',
               DOMAIN cache \subseteq DOMAIN cache', p = "rows" => alias \in {0} \cup DOMAIN cache'
        PROVE  EvalInv'
    <2>1. PICK t : t = [pc |-> p, answers |-> task[i].answers]
      OBVIOUS
    <2>2. task' = [task EXCEPT ![i] = [task[i] EXCEPT !.pc = p]]
      BY <1>7
    <2>3. task' = [task EXCEPT ![i] = t]
      BY <1>6, <2>1, <2>2
    <2>4. t \in Tasks /\ TaskOK(i, t)'
      BY <1>3, <1>4, <1>7, <2>1, Moved
    <2> QED
      BY <1>3, <1>4, <1>5, <1>7, <2>3, <2>4, TaskStep
  <1>8. CASE UNCHANGED cache
    <2>1. CacheOK'
      BY <1>1, <1>3, <1>8 DEF CacheOK
    <2>2. \/ task' = [task EXCEPT ![i].pc = "rows"] /\ alias \in {0} \cup DOMAIN cache
          \/ task' = [task EXCEPT ![i].pc = "thrown"]
          \/ alias \notin {0} \cup DOMAIN cache /\ cache' = Emplaced(cache, alias, merged)
      BY DEF ReadTable
    <2>3. alias \in DOMAIN Emplaced(cache, alias, merged)
      BY DEF Emplaced
    <2> QED
      BY <1>7, <1>8, <2>1, <2>2, <2>3
  <1>9. CASE cache' # cache
    <2>1. /\ task' = [task EXCEPT ![i].pc = "rows"] /\ alias \notin DOMAIN cache
          /\ \A src \in Range(sc.aliases[alias].sources) : src.path \in DOMAIN sc.files
          /\ cache' = Emplaced(cache, alias, merged)
      BY <1>9 DEF ReadTable
    <2>2. /\ DOMAIN cache' = DOMAIN cache \cup {alias} /\ cache'[alias] = merged
          /\ \A a \in DOMAIN cache : cache'[a] = cache[a]
      <3> HIDE DEF merged, alias
      <3> QED
        BY <2>1 DEF Emplaced
    <2>3. CacheOK'
      <3> SUFFICES ASSUME NEW a \in DOMAIN cache'
                   PROVE  /\ cache'[a] = MergedTable(sc, sc.aliases[a])
                          /\ \A src \in Range(sc.aliases[a].sources) : src.path \in DOMAIN sc.files
        BY <1>3 DEF CacheOK
      <3>1. CASE a = alias
        BY <2>1, <2>2, <3>1
      <3>2. CASE a \in DOMAIN cache
        BY <1>1, <2>2, <3>2 DEF CacheOK
      <3> QED
        BY <2>2, <3>1, <3>2
    <2> QED
      BY <1>7, <2>1, <2>2, <2>3
  <1> QED
    BY <1>8, <1>9

(* query: what is remembered is what the query is answered alone; an       *)
(* answer that another task has remembered stays.                          *)
LEMMA RememberSafe ==
  ASSUME ToldApart, EvalInv, NEW i \in DOMAIN task, Remember(i)
  PROVE  EvalInv'
PROOF
  <1> DEFINE x == Query(i)
             alias == Located(sc, x[1], x[2])
             key == MemoKey(x[1], x[2])
             answer == IF alias = 0 THEN Unsupported
                       ELSE RowsAnswer(cache[alias], x[2], Spec_(sc, x[1]))
  <1>1. /\ TaskOK(i, task[i]) /\ sc \in Scenarios /\ task \in Seq(Tasks) /\ MemoOK /\ CacheOK
    BY DEF EvalInv
  <1>2. /\ task[i].pc = "rows" /\ UNCHANGED <<sc, cache, out>>
        /\ memo' = Emplaced(memo, key, answer)
        /\ task' = [task EXCEPT ![i] = [pc |-> "ask", answers |-> Append(task[i].answers, answer)]]
    BY DEF Remember, Remembered
  <1>3. /\ Len(task[i].answers) < Len(sc.points[i])
        /\ x = sc.points[i][Len(task[i].answers) + 1]
        /\ alias \in {0} \cup DOMAIN cache
    BY <1>1, <1>2 DEF TaskOK, Query
  <1>4. x \in Queries(sc)
    BY <1>3, QueryIs
  <1>5. answer = Reference(x[1], x[2]) /\ Readable(x[1], x[2])
    <2>1. CASE alias = 0
      BY <2>1 DEF Reference, Readable
    <2>2. CASE alias # 0
      <3>1. /\ cache[alias] = MergedTable(sc, sc.aliases[alias])
            /\ \A src \in Range(sc.aliases[alias].sources) : src.path \in DOMAIN sc.files
        BY <1>1, <1>3, <2>2 DEF CacheOK
      <3> QED
        BY <2>2, <3>1 DEF Reference, Readable
    <2> QED
      BY <2>1, <2>2
  <1>6. /\ DOMAIN memo' = DOMAIN memo \cup {key} /\ \A k \in DOMAIN memo : memo'[k] = memo[k]
        /\ key \notin DOMAIN memo => memo'[key] = answer
    <2> HIDE DEF key, answer
    <2> QED
      BY <1>2 DEF Emplaced
  <1>7. MemoOK'
    <2> SUFFICES ASSUME NEW y \in Queries(sc), MemoKey(y[1], y[2]) \in DOMAIN memo'
                 PROVE  memo'[MemoKey(y[1], y[2])] = Reference(y[1], y[2]) /\ Readable(y[1], y[2])
      BY <1>2, AloneStays DEF MemoOK
    <2>1. CASE MemoKey(y[1], y[2]) \in DOMAIN memo
      BY <1>1, <1>6, <2>1 DEF MemoOK
    <2>2. CASE MemoKey(y[1], y[2]) \notin DOMAIN memo
      <3>1. MemoKey(y[1], y[2]) = key
        BY <1>6, <2>2
      <3>2. y = x
        BY <1>1, <1>4, <3>1 DEF ToldApart
      <3> QED
        BY <1>5, <1>6, <2>2, <3>1, <3>2
    <2> QED
      BY <2>1, <2>2
  <1>8. CacheOK'
    BY <1>1, <1>2 DEF CacheOK
  <1>9. PICK t : t = [pc |-> "ask", answers |-> Append(task[i].answers, Reference(x[1], x[2]))]
    OBVIOUS
  <1>10. t \in Tasks /\ TaskOK(i, t)'
    BY <1>2, <1>3, <1>5, <1>9, Answered
  <1>11. task' = [task EXCEPT ![i] = t]
    BY <1>2, <1>5, <1>9
  <1> HIDE DEF x, alias, key, answer
  <1> QED
    BY <1>2, <1>3, <1>7, <1>8, <1>10, <1>11, TaskStep

(* evaluate_points: the task of the next point begins with its first query. *)
LEMMA LaunchSafe ==
  ASSUME EvalInv, Launch
  PROVE  EvalInv'
PROOF
  <1> DEFINE t == [pc |-> "ask", answers |-> <<>>]
  <1>1. /\ sc \in Scenarios /\ task \in Seq(Tasks) /\ out \in Seq(Seq(Replies)) /\ WindowOK
        /\ \A k \in DOMAIN task : TaskOK(k, task[k])
        /\ MemoOK /\ CacheOK
    BY DEF EvalInv
  <1>2. /\ task' = Append(task, t) /\ UNCHANGED <<sc, memo, cache, out>>
        /\ Len(task) < Len(sc.points) /\ Len(task) - Len(out) < sc.jobs
    BY DEF Launch, Launches, Pending
  <1>3. /\ Len(task) \in Nat /\ DOMAIN task = 1 .. Len(task) /\ Len(out) \in Nat
        /\ DOMAIN out = 1 .. Len(out) /\ sc.jobs \in Nat
    BY <1>1, LenProperties, PointsAre
  <1>4. t \in Tasks /\ t.answers = <<>> /\ t.pc = "ask"
    BY DEF Tasks
  <1>5. /\ task' \in Seq(Tasks) /\ Len(task') = Len(task) + 1 /\ DOMAIN task' = 1 .. Len(task) + 1
        /\ task'[Len(task) + 1] = t /\ \A k \in DOMAIN task : task'[k] = task[k]
    BY <1>1, <1>2, <1>3, <1>4, AppendProperties, LenProperties
  <1>6. task' \in Seq(Tasks)' /\ out' \in Seq(Seq(Replies))'
    BY <1>1, <1>2, <1>5, AloneStays
  <1>7. MemoOK' /\ CacheOK'
    BY <1>1, <1>2, MemoStays DEF CacheOK
  <1>8. \A k \in DOMAIN task' : TaskOK(k, task[k])'
    <2> SUFFICES ASSUME NEW k \in DOMAIN task'
                 PROVE  TaskOK(k, task[k])'
      OBVIOUS
    <2>1. CASE k = Len(task) + 1
      <3>1. task'[k].answers = <<>> /\ task'[k].pc = "ask" /\ Len(<<>>) = 0
        BY <1>4, <1>5, <2>1
      <3>2. Len(sc.points[k]) \in Nat
        BY <1>1, <1>2, <1>3, <2>1, PointsAre
      <3>3. <<>> = [m \in 1 .. 0 |-> Alone(k, m)']
        OBVIOUS
      <3>4. \A m \in 1 .. 0 : FALSE
        OBVIOUS
      <3> QED
        BY <1>2, <3>1, <3>2, <3>3, <3>4 DEF TaskOK
    <2>2. CASE k \in DOMAIN task
      <3>1. TaskOK(k, task[k]) /\ task'[k] = task[k]
        BY <1>1, <1>5, <2>2
      <3> QED
        BY <1>2, <3>1, TaskStays
    <2> QED
      BY <1>3, <1>5, <2>1, <2>2
  <1>9. WindowOK'
    <2>1. \A k \in DOMAIN out : k \in DOMAIN task
      BY <1>1, <1>3 DEF WindowOK
    <2>2. Len(task') <= Len(sc.points) /\ Len(task') - Len(out) <= sc.jobs /\ Len(out) <= Len(task')
      BY <1>1, <1>2, <1>3, <1>5, PointsAre DEF WindowOK
    <2> QED
      BY <1>1, <1>2, <1>5, <2>1, <2>2 DEF WindowOK, Done
  <1> QED
    BY <1>1, <1>2, <1>6, <1>7, <1>8, <1>9 DEF EvalInv

(* evaluate_points: the results stand in the order of the points.          *)
LEMMA DrainSafe ==
  ASSUME EvalInv, Drain
  PROVE  EvalInv'
PROOF
  <1> DEFINE i == Len(out) + 1
  <1>1. /\ sc \in Scenarios /\ task \in Seq(Tasks) /\ out \in Seq(Seq(Replies)) /\ WindowOK
        /\ \A k \in DOMAIN task : TaskOK(k, task[k])
        /\ MemoOK /\ CacheOK
    BY DEF EvalInv
  <1>2. /\ UNCHANGED <<sc, memo, cache, task>> /\ Len(task) - Len(out) > 0
        /\ \/ Done(i) /\ out' = Append(out, task[i].answers)
           \/ UNCHANGED out
    BY DEF Drain, Pending
  <1>3. /\ Len(task) \in Nat /\ DOMAIN task = 1 .. Len(task) /\ Len(out) \in Nat
        /\ DOMAIN out = 1 .. Len(out)
    BY <1>1, LenProperties
  <1>4. i \in DOMAIN task /\ task[i].answers \in Seq(Replies)
    <2>1. i \in DOMAIN task
      BY <1>2, <1>3
    <2>2. task[i] \in Tasks
      BY <1>1, <2>1, ElementOfSeq, <1>3
    <2> QED
      BY <2>1, <2>2 DEF Tasks
  <1>5. task' \in Seq(Tasks)'
    BY <1>1, <1>2, AloneStays
  <1>6. MemoOK' /\ CacheOK'
    BY <1>1, <1>2, MemoStays DEF CacheOK
  <1>7. \A k \in DOMAIN task' : TaskOK(k, task[k])'
    BY <1>1, <1>2, TaskStays
  <1>8. out' \in Seq(Seq(Replies))' /\ WindowOK'
    <2>1. CASE UNCHANGED out
      BY <1>1, <1>2, <2>1, AloneStays DEF WindowOK, Done
    <2>2. CASE Done(i) /\ out' = Append(out, task[i].answers)
      <3>1. /\ out' \in Seq(Seq(Replies)) /\ Len(out') = Len(out) + 1 /\ DOMAIN out' = 1 .. Len(out) + 1
            /\ out'[i] = task[i].answers /\ \A k \in DOMAIN out : out'[k] = out[k]
        BY <1>1, <1>3, <1>4, <2>2, AppendProperties, LenProperties
      <3>2. \A k \in DOMAIN out' : out'[k] = task[k].answers /\ Done(k)
        <4> SUFFICES ASSUME NEW k \in DOMAIN out'
                     PROVE  out'[k] = task[k].answers /\ Done(k)
          OBVIOUS
        <4>1. CASE k = i
          BY <2>2, <3>1, <4>1
        <4>2. CASE k \in DOMAIN out
          BY <1>1, <3>1, <4>2 DEF WindowOK
        <4> QED
          BY <1>3, <3>1, <4>1, <4>2
      <3>3. /\ Len(out') <= Len(task) /\ Len(task) - Len(out') <= sc.jobs
        BY <1>1, <1>2, <1>3, <3>1, PointsAre DEF WindowOK
      <3> QED
        BY <1>1, <1>2, <3>1, <3>2, <3>3, AloneStays DEF WindowOK, Done
    <2> QED
      BY <1>2, <2>1, <2>2
  <1> QED
    BY <1>1, <1>2, <1>5, <1>6, <1>7, <1>8 DEF EvalInv

(* No step of a task or of the loop disturbs the invariant.                *)
THEOREM EvalInvariant ==
  ASSUME ToldApart
  PROVE  OpSpec => []EvalInv
PROOF
  <1>1. OpInit => EvalInv
    <2> SUFFICES ASSUME OpInit
                 PROVE  EvalInv
      OBVIOUS
    <2>1. sc \in Scenarios /\ memo = <<>> /\ cache = <<>> /\ task = <<>> /\ out = <<>>
      BY DEF OpInit
    <2>2. Len(<<>>) = 0 /\ DOMAIN <<>> = {} /\ \A S : <<>> \in Seq(S)
      BY EmptySeq
    <2>3. CacheOK /\ MemoOK
      BY <2>1, <2>2 DEF CacheOK, MemoOK
    <2>4. WindowOK
      BY <2>1, <2>2, PointsAre DEF WindowOK
    <2> QED
      BY <2>1, <2>2, <2>3, <2>4 DEF EvalInv
  <1>2. EvalInv /\ [OpNext]_opvars => EvalInv'
    <2> SUFFICES ASSUME EvalInv, [OpNext]_opvars
                 PROVE  EvalInv'
      OBVIOUS
    <2>1. CASE Launch
      BY <2>1, LaunchSafe
    <2>2. CASE Drain
      BY <2>2, DrainSafe
    <2>3. ASSUME NEW i \in DOMAIN task, Run(i)
          PROVE  EvalInv'
      BY <2>3, AskSafe, ReadTableSafe, RememberSafe DEF Run
    <2>4. CASE UNCHANGED opvars
      <3>1. /\ sc \in Scenarios /\ task \in Seq(Tasks) /\ out \in Seq(Seq(Replies)) /\ WindowOK
            /\ \A k \in DOMAIN task : TaskOK(k, task[k])
            /\ MemoOK /\ CacheOK
        BY DEF EvalInv
      <3>2. UNCHANGED <<sc, memo, cache, task, out>>
        BY <2>4 DEF opvars
      <3>3. MemoOK' /\ CacheOK'
        BY <3>1, <3>2, MemoStays DEF CacheOK
      <3>4. \A k \in DOMAIN task' : TaskOK(k, task[k])'
        BY <3>1, <3>2, TaskStays
      <3>5. WindowOK'
        BY <3>1, <3>2 DEF WindowOK, Done
      <3>6. task' \in Seq(Tasks)' /\ out' \in Seq(Seq(Replies))'
        BY <3>1, <3>2, AloneStays
      <3> QED
        BY <3>1, <3>2, <3>3, <3>4, <3>5, <3>6 DEF EvalInv
    <2> QED
      BY <2>1, <2>2, <2>3, <2>4 DEF OpNext
  <1> QED
    BY <1>1, <1>2, PTL DEF OpSpec

(* Whatever the tasks do at the same time, each gets the answers it would  *)
(* get alone, none where a file is missing, and the results stand in the   *)
(* order of the points (AnswersPure): for any tables, any answer           *)
(* query_rows may give, any points and any number of jobs, as long as      *)
(* queries that differ are printed differently.                            *)
THEOREM PureTheorem ==
  ASSUME ToldApart
  PROVE  OpSpec => []AnswersPure
PROOF
  <1>1. EvalInv => AnswersPure
    <2> SUFFICES ASSUME EvalInv
                 PROVE  AnswersPure
      OBVIOUS
    <2>1. /\ sc \in Scenarios /\ task \in Seq(Tasks) /\ WindowOK
          /\ \A k \in DOMAIN task : TaskOK(k, task[k])
      BY DEF EvalInv
    <2>2. ASSUME NEW i \in DOMAIN task, task[i].answers # <<>>
          PROVE  /\ Readable(sc.points[i][Len(task[i].answers)][1], sc.points[i][Len(task[i].answers)][2])
                 /\ task[i].answers[Len(task[i].answers)] = Alone(i, Len(task[i].answers))
      <3> DEFINE n == Len(task[i].answers)
      <3>1. /\ n \in 0 .. Len(sc.points[i])
            /\ task[i].answers = [m \in 1 .. n |-> Alone(i, m)]
            /\ \A m \in 1 .. n : Readable(sc.points[i][m][1], sc.points[i][m][2])
        BY <2>1, <2>2 DEF TaskOK
      <3>2. task[i].answers \in Seq(Replies)
        <4>1. task[i] \in Tasks
          BY <2>1, ElementOfSeq, LenProperties
        <4> QED
          BY <4>1 DEF Tasks
      <3>3. n \in 1 .. n
        BY <2>2, <3>2, EmptySeq, LenProperties
      <3> HIDE DEF n
      <3>4. task[i].answers[n] = Alone(i, n)
        BY <3>1, <3>3
      <3> QED
        BY <3>1, <3>3, <3>4 DEF n
    <2>3. \A ij \in Asked : Readable(At_(ij)[1], At_(ij)[2]) /\ Given(ij) = Reference(At_(ij)[1], At_(ij)[2])
      BY <2>2 DEF Asked, At_, Given, Alone
    <2>4. \A i \in DOMAIN out : Len(out[i]) = Len(sc.points[i]) /\ out[i] = task[i].answers
      BY <2>1 DEF WindowOK, Done
    <2> QED
      BY <2>3, <2>4 DEF AnswersPure
  <1> QED
    BY <1>1, EvalInvariant, PTL

-----------------------------------------------------------------------------
(* What NobodyStuck rests on holds whatever fmt prints.                    *)

(* No more points are drained than launched, nor launched than there are,  *)
(* and no more than `jobs` are pending.                                    *)
LaunchedInv ==
  /\ sc \in Scenarios
  /\ task \in Seq(Range(task)) /\ out \in Seq(Range(out))
  /\ Len(out) <= Len(task) /\ Len(task) <= Len(sc.points) /\ Len(task) - Len(out) <= sc.jobs

(* A sequence is one of its own elements.                                  *)
LEMMA SeqOfItself ==
  ASSUME NEW S, NEW s \in Seq(S)
  PROVE  s \in Seq(Range(s))
PROOF
  <1>1. Len(s) \in Nat /\ DOMAIN s = 1 .. Len(s) /\ s \in [1 .. Len(s) -> S]
    BY LenProperties
  <1>2. s \in [1 .. Len(s) -> Range(s)]
    BY <1>1 DEF Range
  <1> QED
    BY <1>1, <1>2, SeqDef

(* The loop goes on until it has launched and drained every point.         *)
THEOREM LaunchedInvariant == OpSpec => []LaunchedInv
PROOF
  <1>1. OpInit => LaunchedInv
    <2> SUFFICES ASSUME OpInit
                 PROVE  LaunchedInv
      OBVIOUS
    <2>1. sc \in Scenarios /\ task = <<>> /\ out = <<>>
      BY DEF OpInit
    <2>2. Len(<<>>) = 0 /\ \A S : <<>> \in Seq(S)
      BY EmptySeq
    <2> QED
      BY <2>1, <2>2, PointsAre DEF LaunchedInv
  <1>2. LaunchedInv /\ [OpNext]_opvars => LaunchedInv'
    <2> SUFFICES ASSUME LaunchedInv, [OpNext]_opvars
                 PROVE  LaunchedInv'
      OBVIOUS
    <2>1. /\ sc \in Scenarios /\ task \in Seq(Range(task)) /\ out \in Seq(Range(out))
          /\ Len(out) <= Len(task) /\ Len(task) <= Len(sc.points) /\ Len(task) - Len(out) <= sc.jobs
      BY DEF LaunchedInv
    <2>2. /\ Len(task) \in Nat /\ Len(out) \in Nat /\ Len(sc.points) \in Nat /\ sc.jobs \in Nat
      BY <2>1, LenProperties, PointsAre
    <2>3. CASE Launch
      <3>1. /\ task' = Append(task, [pc |-> "ask", answers |-> <<>>]) /\ UNCHANGED <<sc, out>>
            /\ Len(task) < Len(sc.points) /\ Len(task) - Len(out) < sc.jobs
        BY <2>3 DEF Launch, Launches, Pending
      <3> DEFINE t == [pc |-> "ask", answers |-> <<>>]
                 S == Range(task) \cup {t}
      <3>2. task \in Seq(S) /\ t \in S
        BY <2>1, SeqMonotonic
      <3>3. task' \in Seq(S) /\ Len(task') = Len(task) + 1
        BY <3>1, <3>2, AppendProperties
      <3>4. task' \in Seq(Range(task'))
        BY <3>3, SeqOfItself
      <3> QED
        BY <2>1, <2>2, <3>1, <3>3, <3>4 DEF LaunchedInv
    <2>4. CASE Drain
      <3>1. /\ UNCHANGED <<sc, task>> /\ Len(task) - Len(out) > 0
            /\ out' = Append(out, task[Len(out) + 1].answers) \/ UNCHANGED out
        BY <2>4 DEF Drain, Pending
      <3>2. CASE UNCHANGED out
        BY <2>1, <3>1, <3>2 DEF LaunchedInv
      <3>3. CASE out' = Append(out, task[Len(out) + 1].answers)
        <4> DEFINE v == task[Len(out) + 1].answers
                   S == Range(out) \cup {v}
        <4>1. out \in Seq(S) /\ v \in S
          BY <2>1, SeqMonotonic
        <4>2. out' \in Seq(S) /\ Len(out') = Len(out) + 1
          BY <3>3, <4>1, AppendProperties
        <4>3. out' \in Seq(Range(out'))
          BY <4>2, SeqOfItself
        <4> QED
          BY <2>1, <2>2, <3>1, <4>2, <4>3 DEF LaunchedInv
      <3> QED
        BY <3>1, <3>2, <3>3
    <2>5. ASSUME NEW i \in DOMAIN task, Run(i)
          PROVE  LaunchedInv'
      <3>1. UNCHANGED <<sc, out>> /\ \E t : task' = [task EXCEPT ![i] = t]
        BY <2>5 DEF Run, Ask, ReadTable, Remember, Remembered
      <3>2. PICK t : task' = [task EXCEPT ![i] = t]
        BY <3>1
      <3> DEFINE S == Range(task) \cup {t}
      <3>3. task \in Seq(S) /\ t \in S
        BY <2>1, SeqMonotonic
      <3>4. task' \in Seq(S) /\ Len(task') = Len(task)
        BY <3>2, <3>3, ExceptSeq, LenProperties
      <3>5. task' \in Seq(Range(task'))
        BY <3>4, SeqOfItself
      <3> QED
        BY <2>1, <3>1, <3>4, <3>5 DEF LaunchedInv
    <2>6. CASE UNCHANGED opvars
      BY <2>1, <2>6 DEF LaunchedInv, opvars
    <2> QED
      BY <2>3, <2>4, <2>5, <2>6 DEF OpNext
  <1> QED
    BY <1>1, <1>2, PTL DEF OpSpec

(* Nobody waits for ever (NobodyStuck): until each point has its answers,  *)
(* or the error of one has ended the evaluation, a task is at work, or the *)
(* loop can launch the next point or take the results of one.              *)
THEOREM StuckTheorem == OpSpec => []NobodyStuck
PROOF
  <1>1. LaunchedInv => NobodyStuck
    <2> SUFFICES ASSUME LaunchedInv, Len(out) # Len(sc.points), ~ Launches,
                        \A i \in DOMAIN task : Over(i)
                 PROVE  Pending > 0 /\ Drains /\ Over(Len(out) + 1)
      BY DEF NobodyStuck
    <2>1. /\ sc \in Scenarios /\ task \in Seq(Range(task)) /\ out \in Seq(Range(out))
          /\ Len(out) <= Len(task) /\ Len(task) <= Len(sc.points) /\ Len(task) - Len(out) <= sc.jobs
      BY DEF LaunchedInv
    <2>2. /\ Len(task) \in Nat /\ Len(out) \in Nat /\ Len(sc.points) \in Nat /\ sc.jobs \in Nat \ {0}
          /\ DOMAIN task = 1 .. Len(task)
      BY <2>1, LenProperties, PointsAre
    <2>3. Len(task) = Len(sc.points) \/ Len(task) - Len(out) = sc.jobs
      BY <2>1, <2>2 DEF Launches, Pending
    <2>4. Pending > 0 /\ Drains
      BY <2>1, <2>2, <2>3 DEF Pending, Drains
    <2>5. Len(out) + 1 \in DOMAIN task
      BY <2>2, <2>4 DEF Pending
    <2> QED
      BY <2>4, <2>5
  <1> QED
    BY <1>1, LaunchedInvariant, PTL

=============================================================================
