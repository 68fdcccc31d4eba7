------------------------------ MODULE MCTables ------------------------------
(* Small tables asked for one point each, and parallel points.             *)
EXTENDS OpTables

Row(cat, num, lat) == [cat |-> cat, num |-> num, lat |-> lat]
Ask_(op, kind, num, cat) ==
  [op |-> op, kind |-> kind, num |-> num, cat |-> cat, framework |-> "", version |-> None]
NoCat == [c \in {} |-> ""]
In(lane) == [kernel_source |-> lane]
Alias(system, version, table, sources) ==
  [system |-> system, framework |-> "fw", version |-> version, table |-> table, sources |-> sources]
Source(path, lanes) == [path |-> path, lanes |-> lanes]
Device(tables, versions) ==
  [framework |-> "fw", versions |-> versions, tables |-> tables, flops |-> 8, bandwidth |-> 2]
NoVersions == [f \in {} |-> None]

(* One table of one device, asked for one point after the other. *)
Single(op, rows, qs) ==
  [aliases |-> <<Alias("d", 1, op, <<Source("f", {})>>)>>,
   files |-> [f |-> rows], slots |-> [s \in {} |-> {}], specs |-> [d |-> Device("", NoVersions)],
   points |-> <<[i \in DOMAIN qs |-> <<"d", qs[i]>>]>>, jobs |-> 1]

Listed(rows) == FoldSet(LAMBDA r, s : Append(s, r), <<>>, rows)
Rows(places, lat) == Listed({Row(NoCat, num, lat[num]) : num \in places})

(* Lines of two or three batch sizes that end at different steps.          *)
Grid == [batch_size : {1, 4, 6}, step : {2, 4, 8}]
Lats ==
  {[num \in Grid |-> 12 * num.batch_size + 6 * num.step],
   [num \in Grid |-> IF num.step = 8 THEN 30 ELSE 60 - 3 * num.batch_size + num.step]}

Pairs(bs, ss) == [i \in 1 .. Len(bs) * Len(ss) |->
  [batch_size |-> bs[((i - 1) % Len(bs)) + 1], step |-> ss[((i - 1) \div Len(bs)) + 1]]]

Ragged(kinds, places, batches) ==
  {Single("t", Rows(rows, lat),
          [i \in DOMAIN Pairs(batches, <<1, 3, 8, 12>>) |->
             Ask_("t", kind, Pairs(batches, <<1, 3, 8, 12>>)[i], NoCat)]) :
     rows \in places, lat \in Lats, kind \in kinds}

Lines ==
  Ragged({"generation"}, {p \in SUBSET Grid : Cardinality(p) \in {4, 6, 9}}, <<3, 4, 5>>)
    \cup Ragged({"context", "other"}, {p \in SUBSET Grid : Cardinality(p) \in {3, 8, 9}}, <<1, 4, 5, 7>>)

(* Four token counts, in lanes that may leave a gap between them.          *)
Laned ==
  {Single("t", [i \in 1 .. 4 |-> Row(In(lane[i]), [num_tokens |-> 2 * i], lat[i])],
          [n \in 1 .. 9 |-> Ask_("t", "none", [num_tokens |-> n], cat)]) :
     lane \in [1 .. 4 -> {"a", "b"}], lat \in {<<4, 8, 12, 2>>, <<9, 6, 6, 6>>},
     cat \in {NoCat, In("a"), In("*"), In("c")}}

(* Sites of two or three points; a known site and an unknown one.          *)
Gemm ==
  {Single("gemm",
          Listed({Row(NoCat, [m |-> s[1], n |-> s[2], k |-> s[2]], 2 * s[1] + 10 * s[2]) : s \in places}),
          [i \in 1 .. 8 |-> Ask_("gemm", "none",
             [m |-> <<1, 4, 6, 16>>[((i - 1) % 4) + 1], n |-> 2 + i \div 5, k |-> 2 + i \div 5], NoCat)]) :
     places \in {p \in SUBSET ({2, 4, 8} \X {1, 2, 4}) :
                   \A s \in p : Cardinality({t \in p : t[2] = s[2]}) > 1}}

(* Two devices, one of which uses the tables of the other; a table of two  *)
(* sources, versions by name or by default, and a file that is missing.    *)
Q(version, n) == [Ask_("t", "none", [num_tokens |-> n], NoCat) EXCEPT !.version = version]

Shared(first, files, versions) ==
  {[aliases |-> <<Alias("d", 1, "t", <<Source("f", {})>>),
                  Alias("d", 2, "t", <<Source("f", {"a"}), Source("g", {"a"})>>),
                  Alias("e", 1, "t", <<Source("h", {})>>)>>,
    files |-> files,
    slots |-> (<<"d", "fw">> :> [current |-> 2, previous |-> 1, next |-> 3]),
    specs |-> [d |-> Device("", "fw" :> Previous), x |-> Device("d", NoVersions), e |-> Device("", NoVersions)],
    points |-> << <<<<d[1], Q(v[1], first)>>, <<d[2], Q(v[2], 3)>>>>,
                  <<<<d[2], Q(v[1], first)>>>>,
                  <<<<d[1], Q(v[1], first + 1)>>, <<"e", Q(None, 3)>>>> >>,
    jobs |-> jobs] :
     d \in {<<"d", "x">>, <<"x", "d">>, <<"e", "d">>, <<"y", "d">>},
     v \in versions, jobs \in {1, 2}}

TokenRows(lane, ns, lat) == [i \in DOMAIN ns |-> Row(In(lane), [num_tokens |-> ns[i]], lat + i)]

Parallel ==
  UNION {Shared(2, files, {<<Current, None>>, <<None, Next_>>, <<1, 2>>}) :
    files \in {[f |-> TokenRows("a", <<2, 4>>, 10), g |-> TokenRows("a", <<4, 6>>, 20),
                h |-> TokenRows("b", <<2, 6>>, 30)],
               [f |-> TokenRows("a", <<2, 4>>, 10), h |-> TokenRows("b", <<2, 6>>, 30)]}}

MCScenarios == Lines \cup Laned \cup Gemm \cup Parallel

(* Off the lines of a table whose lines end at different steps.            *)
MCOffLines == Ragged({"generation"}, SUBSET Grid, <<5>>)

(* Sites of one point.                                                     *)
MCGemmPoints ==
  {Single("gemm", <<Row(NoCat, [m |-> 4, n |-> 1, k |-> 1], 7)>>,
          [m \in 1 .. 60 |-> Ask_("gemm", "none", [m |-> m, n |-> 1, k |-> 1], NoCat)])}

(* Two numbers of tokens that are printed alike.                           *)
MCDigits ==
  Shared(1999999, [f |-> TokenRows("a", <<2, 2000000>>, 10), g |-> TokenRows("a", <<2, 3000000>>, 20),
                   h |-> TokenRows("b", <<2, 6000000>>, 30)], {<<Current, None>>, <<1, 2>>})
=============================================================================
