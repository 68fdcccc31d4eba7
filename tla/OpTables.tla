------------------------------ MODULE OpTables ------------------------------
(***************************************************************************)
(* How a measured operator table answers a query (perfdata/measured.cpp,   *)
(* query_rows and what it calls), for the tasks of Evaluation.             *)
(*                                                                         *)
(* Latencies are whole numbers, a quotient is rounded down, and the        *)
(* square-root scale of the context tables is left out: it keeps a value   *)
(* between its neighbours.                                                 *)
(***************************************************************************)
EXTENDS Evaluation

-----------------------------------------------------------------------------
(* resolve: a node of the trie is the set of rows with the keys on the way *)
(* to it; axes is the nesting order, pt the point that is asked for.       *)

Found(ms, used) == [ok |-> TRUE, ms |-> ms, used |-> used]
Missing == [ok |-> FALSE, ms |-> NaN, used |-> FALSE]

(* Mutant: what lies beyond the edge counts as interpolated. *)
ExtrapolatedPlain(ms) == Found(ms, FALSE)

Extrapolated(ms) == Found(ms, TRUE)

Keys(rows, a) == {r.num[a] : r \in rows}
At(rows, a, k) == {r \in rows : r.num[a] = k}
First(rows) == CHOOSE r \in rows : \A o \in rows : r.n <= o.n

Tokens == {"num_tokens", "m", "message_size"}

(* walk_to_step and the largest step there; -1 when a key is absent. *)
Edge(rows, axes, d, pt) ==
  LET sd == CHOOSE i \in d .. Len(axes) : axes[i] = "step"
      there == {r \in rows : \A i \in d .. sd - 1 : r.num[axes[i]] = pt[axes[i]]}
  IN IF ~ \E i \in d .. Len(axes) : axes[i] = "step" THEN -1
     ELSE Max({-1} \cup Keys(there, "step"))

(* From a to b in the ratio of `part` to `whole`. *)
Line(a, b, part, whole) == a + ((b - a) * part) \div whole
Rising(a, b, part, whole) == IF b > a THEN b + ((b - a) * part) \div whole ELSE b

(* Mutant: a latency that falls with the key is taken for a gap. *)
BetweenRising(lo, hi, part, whole) ==
  IF lo.ok /\ hi.ok /\ lo.ms <= hi.ms
    THEN Found(Line(lo.ms, hi.ms, part, whole), lo.used \/ hi.used)
  ELSE Missing

Between(lo, hi, part, whole) ==
  IF lo.ok /\ hi.ok THEN Found(Line(lo.ms, hi.ms, part, whole), lo.used \/ hi.used)
  ELSE Missing

RECURSIVE Resolve(_, _, _, _, _), RatioExtrapolate(_, _, _, _, _, _)

(* The reference line is the longest one, the nearest of those. *)
RatioExtrapolate(rows, axes, d, pt, rule, key) ==
  LET a == axes[d]
      E(k) == Edge(At(rows, a, k), axes, d + 1, pt)
      Dist(k) == IF k > key THEN k - key ELSE key - k
      longer == {k \in Keys(rows, a) : E(k) > E(key)}
      ref == CHOOSE k \in longer : \A o \in longer \ {k} :
               \/ E(k) > E(o)
               \/ E(k) = E(o) /\ Dist(k) < Dist(o)
               \/ E(k) = E(o) /\ Dist(k) = Dist(o) /\ k < o
      T(k, s) == Resolve(At(rows, a, k), axes, d + 1, [pt EXCEPT !["step"] = s], rule)
      here == T(key, E(key))
      there == T(ref, E(key))
      beyond == T(ref, pt["step"])
  IN IF longer = {} THEN Missing
     ELSE IF ~ (here.ok /\ there.ok /\ beyond.ok) \/ there.ms <= 0 THEN Missing
     ELSE Extrapolated((here.ms * beyond.ms) \div there.ms)

(* Beyond the largest key of an axis. *)
Beyond(rows, axes, d, pt, rule) ==
  LET a == axes[d]
      c == pt[a]
      keys == Keys(rows, a)
      Sub(k) == Resolve(At(rows, a, k), axes, d + 1, pt, rule)
      top == Max(keys)
      next == Max(keys \ {top})
      able == {k \in keys : Sub(k).ok}
      edge == Max(able)
      half == {k \in able : 2 * k <= edge}
      From(k, e) == Extrapolated(Rising(Sub(k).ms, Sub(e).ms, c - e, e - k))
  IN IF rule.order /\ a \in Tokens /\ Cardinality(keys) >= 2
       THEN IF Sub(top).ok /\ Sub(next).ok THEN From(next, top) ELSE Missing
     ELSE IF ~ rule.order \/ ~ rule.seq \/ a # "step" THEN Missing
     ELSE IF able = {} \/ half = {} THEN Missing
     ELSE From(Max(half), edge)

Resolve(rows, axes, d, pt, rule) ==
  IF d > Len(axes) THEN Found(First(rows).lat, FALSE)
  ELSE
  LET a == axes[d]
      c == pt[a]
      keys == Keys(rows, a)
      Sub(k) == Resolve(At(rows, a, k), axes, d + 1, pt, rule)
      end == Edge(At(rows, a, c), axes, d + 1, pt)
      ratio == RatioExtrapolate(rows, axes, d, pt, rule, c)
      short == rule.order /\ rule.seq /\ a = rule.line /\ end >= 0 /\ pt["step"] > end
      lo == Max({k \in keys : k < c})
      hi == Min({k \in keys : k > c})
  IN CASE c \in keys -> IF short /\ ratio.ok THEN ratio ELSE Sub(c)
       [] c < Min(keys) -> Missing
       [] c > Max(keys) -> Beyond(rows, axes, d, pt, rule)
       [] OTHER -> Between(Sub(lo), Sub(hi), c - lo, hi - lo)

-----------------------------------------------------------------------------
(* query_gemm: n and k are powers of two, given by their exponents, and a  *)
(* site has one row for each m.                                            *)

SiteDistance == 2
SiteCount == 4

Curve(rows, site) ==
  [m \in {r.num["m"] : r \in {x \in rows : <<x.num["n"], x.num["k"]>> = site}} |->
     (CHOOSE r \in rows : <<r.num["n"], r.num["k"]>> = site /\ r.num["m"] = m).lat]

OnCurve(curve, m) ==
  LET ms == DOMAIN curve
      top == Max(ms)
      next == Max(ms \ {top})
      lo == Max({x \in ms : x < m})
      hi == Min({x \in ms : x > m})
  IN CASE m \in ms -> Found(curve[m], FALSE)
       [] m < Min(ms) -> Found(NaN, FALSE)
       [] m > top /\ Cardinality(ms) < 2 -> Found(NaN, FALSE)
       [] m > top /\ Cardinality(ms) >= 2 ->
            Extrapolated(Rising(curve[next], curve[top], m - top, top - next))
       [] OTHER -> Found(Line(curve[lo], curve[hi], m - lo, hi - lo), FALSE)

(* gemm_sol_ms *)
SolMs(spec, m, site) ==
  LET n == 2 ^ site[1]
      k == 2 ^ site[2] IN
  Max({(2 * m * n * k) \div spec.flops, (m * n + m * k + n * k) \div spec.bandwidth})

Distance2(s, t) == (s[1] - t[1]) ^ 2 + (s[2] - t[2]) ^ 2

(* Sites at the same distance are taken in the order of a std::map of them. *)
Nearer(s, t, site) ==
  LET d == Distance2(s, site)
      e == Distance2(t, site)
  IN d < e \/ (d = e /\ (s[1] < t[1] \/ (s[1] = t[1] /\ s[2] < t[2])))

(* The nearest sites, each with the weight 1 / d^2 and its utilization. *)
Transfer(sites, curves, spec, m, site) ==
  LET near == {s \in sites : m >= Min(DOMAIN curves[s])
                            /\ Distance2(s, site) <= SiteDistance ^ 2}
      picked == {s \in near : Cardinality({t \in near : Nearer(t, s, site)}) < SiteCount}
      usable == {s \in picked : OnCurve(curves[s], m).ms > 0 /\ SolMs(spec, m, s) > 0}
      W(s) == 4 \div Distance2(s, site)
      U(s) == (W(s) * SolMs(spec, m, s) * 1000) \div OnCurve(curves[s], m).ms
  IN IF usable = {} THEN Missing
     ELSE Found((SolMs(spec, m, site) * MapThenSumSet(W, usable) * 1000) \div MapThenSumSet(U, usable),
                \E s \in picked : OnCurve(curves[s], m).used)

QueryGemm(rows, q, spec) ==
  LET site == <<q.num["n"], q.num["k"]>>
      sites == {<<r.num["n"], r.num["k"]>> : r \in rows}
      curves == [s \in sites |-> Curve(rows, s)]
      m == q.num["m"]
  IN IF site \in sites
       THEN IF m < Min(DOMAIN curves[site]) THEN Missing ELSE OnCurve(curves[site], m)
     ELSE IF spec.flops = 0 \/ SolMs(spec, m, site) = 0 THEN Missing
     ELSE Transfer(sites, curves, spec, m, site)

-----------------------------------------------------------------------------
(* query_rows                                                              *)

(* axis_depth: the nesting order for interpolation, and that for lines. *)
Depth(a, order) ==
  CASE a = "step" -> IF order THEN 3 ELSE 1
    [] a \in {"isl", "seq_len"} -> 2
    [] a = "batch_size" -> IF order THEN 1 ELSE 4
    [] a \in Tokens -> 3
    [] OTHER -> 0

Nested(axes, order) == SetToSortSeq(axes, LAMBDA a, b : Depth(a, order) < Depth(b, order))

(* attention_kind of a table: "none", "generation", "context" with a rule  *)
(* for the sequence axis, "other" without.                                 *)
Rule(kind, order) ==
  [order |-> order, seq |-> kind \in {"generation", "context"},
   line |-> IF kind = "generation" THEN "batch_size" ELSE ""]

Either(first, second) == IF first.ok THEN first ELSE second

Resolved(rows, q) ==
  LET Along(order) == Resolve(rows, Nested(DOMAIN q.num, order), 1, q.num, Rule(q.kind, order))
  IN Either(Along(FALSE), Along(TRUE))

Sourced(res) ==
  IF ~ res.ok THEN Unsupported
  ELSE Answer(IF res.used THEN "extrapolated" ELSE "interpolated", res.ms)

Lanes(rows) == {r.cat["kernel_source"] : r \in {x \in rows : "kernel_source" \in DOMAIN x.cat}}

(* The rows a query selects; "*" stands for every lane. *)
Selected(rows, q) ==
  {r \in rows : \A c \in DOMAIN q.cat :
     (c = "kernel_source" /\ q.cat[c] = "*") \/ r.cat[c] = q.cat[c]}

(* A column that the query does not give has one value in the rows. *)
Unique(rows, q) ==
  \A r, o \in rows :
    /\ \A c \in DOMAIN r.cat \ DOMAIN q.cat : r.cat[c] = o.cat[c]
    /\ \A a \in DOMAIN r.num \ DOMAIN q.num : r.num[a] = o.num[a]

Hits(rows, q) == {r \in rows : \A a \in DOMAIN q.num : r.num[a] = q.num[a]}

QueryLane(table, q, spec) ==
  LET rows == Selected(table, q) IN
  IF rows = {} \/ ~ Unique(rows, q) THEN Unsupported
  ELSE IF Hits(rows, q) # {} THEN Answer("measured", First(Hits(rows, q)).lat)
  ELSE IF q.op = "gemm" THEN Sourced(QueryGemm(rows, q, spec))
  ELSE Sourced(Resolved(rows, q))

InLane(q, lane) ==
  [q EXCEPT !.cat = [c \in DOMAIN q.cat \cup {"kernel_source"} |->
                       IF c = "kernel_source" THEN lane ELSE q.cat[c]]]

(* The fastest lane, or else what the union of them answers. *)
Fastest(answers, together) ==
  IF answers = {} THEN together
  ELSE CHOOSE a \in answers : \A b \in answers : a.ms <= b.ms

QueryRows(table, q, spec) ==
  LET Known(r) == DOMAIN q.cat \subseteq DOMAIN r.cat /\ DOMAIN q.num \subseteq DOMAIN r.num
      lanes == IF "kernel_source" \in DOMAIN q.cat THEN {} ELSE Lanes(Selected(table, q))
      Alone(lane) == QueryLane(table, InLane(q, lane), spec)
  IN IF table = {} \/ ~ \A r \in table : Known(r) THEN Unsupported
     ELSE IF Cardinality(lanes) < 2 THEN QueryLane(table, q, spec)
     ELSE Fastest({Alone(lane) : lane \in lanes} \ {Unsupported}, Alone("*"))

-----------------------------------------------------------------------------
(* Properties                                                              *)

(* Of the rows a query may draw on. *)
Basis(ij) ==
  LET q == At_(ij)[2]
      alias == Located(sc, At_(ij)[1], q)
  IN IF alias = 0 THEN {} ELSE Selected(MergedTable(sc, sc.aliases[alias]), q)

InRange(rows, num) ==
  \A a \in DOMAIN num : Min(Keys(rows, a)) <= num[a] /\ num[a] <= Max(Keys(rows, a))

(* The source tells how far to trust an answer: a measured one is that of  *)
(* a row, an interpolated one lies within the range and the values of the  *)
(* rows, and a query out of their range is never called interpolated.      *)
(* (measured.cpp resolve, query_rows)                                      *)
SourceTruthful ==
  \A ij \in Asked :
    LET rows == Basis(ij)
        a == Given(ij)
        num == At_(ij)[2].num
        lats == {r.lat : r \in rows}
    IN /\ a.source = "measured" => \E r \in Hits(rows, At_(ij)[2]) : r.lat = a.ms
       /\ a.source = "interpolated" /\ At_(ij)[2].op # "gemm" =>
            InRange(rows, num) /\ Min(lats) <= a.ms /\ a.ms <= Max(lats)

(* On a whole grid of one lane every query within its range is answered.   *)
(* (measured.cpp resolve: no bracket of a whole grid is left open)         *)
GridAnswers ==
  \A ij \in Asked :
    LET rows == Basis(ij)
        q == At_(ij)[2]
        Whole == \A f \in [DOMAIN q.num -> UNION {Keys(rows, a) : a \in DOMAIN q.num}] :
                   (\A a \in DOMAIN q.num : f[a] \in Keys(rows, a)) =>
                     \E r \in rows : \A a \in DOMAIN q.num : r.num[a] = f[a]
    IN rows # {} /\ q.op # "gemm" /\ Unique(rows, q) /\ Whole /\ InRange(rows, q.num) =>
         Given(ij).source \in {"measured", "interpolated"}

(* An answer between two grid lines lies between the answers on them.      *)
(* (operator-latency.md:48: each line is extrapolated, then interpolated)  *)
BetweenLines ==
  \A ij \in Asked :
    LET rows == Basis(ij)
        q == At_(ij)[2]
        b == q.num["batch_size"]
        keys == Keys(rows, "batch_size")
        lo == Max({k \in keys : k < b})
        hi == Min({k \in keys : k > b})
        On(k) == Reference(At_(ij)[1], [q EXCEPT !.num["batch_size"] = k])
    IN rows # {} /\ q.kind = "generation" /\ b \notin keys /\ Min(keys) < b /\ b < Max(keys)
         /\ Given(ij) # Unsupported /\ On(lo) # Unsupported /\ On(hi) # Unsupported =>
         Min({On(lo).ms, On(hi).ms}) <= Given(ij).ms /\ Given(ij).ms <= Max({On(lo).ms, On(hi).ms})

(* A supported answer is a number.                                         *)
(* (measured.cpp query_gemm: the curve of a site with one point)           *)
AnswersNumbers == \A ij \in Asked : Given(ij).source # "unsupported" => Given(ij).ms # NaN

=============================================================================
