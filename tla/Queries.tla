------------------------------ MODULE Queries ------------------------------
(***************************************************************************)
(* The dashboard's questions about the past: the search grammar and the    *)
(* history query (internal/db/search.go, db.go), the rankings and the      *)
(* campaigns (internal/db/analytics.go, internal/intel/campaign.go) and    *)
(* the metric aggregates (internal/metrics/metrics.go).  Each is written   *)
(* as the code computes it and compared with what its answer should be,    *)
(* over every small table.  SQLite's part (placeholders, GROUP BY, ORDER   *)
(* BY, LIMIT) is modelled by its meaning.                                  *)
(***************************************************************************)
EXTENDS Integers, SequencesExt, FiniteSetsExt

CONSTANTS
    MaxTable,       \* rows of a table
    MaxTokens,      \* terms of a search
    DefaultLimit,   \* DefaultHistoryLimit
    MaxLimit        \* MaxHistoryLimit

VARIABLES
    question,       \* which of the queries is asked: "campaigns", "history", ...
    table,          \* the rows it is asked of
    asked           \* its parameters, a set of at most one

queryVars == <<question, table, asked>>

-----------------------------------------------------------------------------
(* Campaigns: union-find over fingerprints.                                *)

\* find, with path halving: the root, and the parents it leaves.
RECURSIVE find(_, _)
find(parent, x) ==
    IF parent[x] = x THEN [root |-> x, parent |-> parent]
    ELSE LET p == [parent EXCEPT ![x] = parent[parent[x]]] IN find(p, p[x])

\* Plausible bug: the second fingerprint is hung below the first, roots or not.
unionShallow(parent, a, b) == [parent EXCEPT ![b] = a]

\* union: the smaller root wins.
union(parent, a, b) ==
    LET ra == find(parent, a)
        rb == find(ra.parent, b)
    IN [rb.parent EXCEPT ![Max({ra.root, rb.root})] = Min({ra.root, rb.root})]

\* Cluster's first loop: parent grows as fingerprints are met.
Parents(rows) ==
    LET Meet(parent, a, f) == union([x \in DOMAIN parent \cup {f} |-> IF x \in DOMAIN parent THEN parent[x] ELSE x], a, f)
        Row(parent, r) == FoldLeft(LAMBDA p, f : Meet(p, r.fp[1], f), parent, r.fp)
    IN FoldLeft(Row, [x \in {} |-> x], rows)

\* Cluster's second loop and its selection: one group per root.
Cluster(rows, minIPs) ==
    LET parent == Parents(rows)
        Root(r) == find(parent, r.fp[1]).root
        roots == {Root(r) : r \in {x \in Range(rows) : x.fp # <<>>}}
        Group(root) ==
            LET mine == {i \in DOMAIN rows : rows[i].fp # <<>> /\ Root(rows[i]) = root}
            IN [id |-> root, rows |-> mine, ips |-> {rows[i].ip : i \in mine}]
    IN {g \in {Group(root) : root \in roots} : Cardinality(g.ips) >= minIPs}

-----------------------------------------------------------------------------
(* Search and history.                                                     *)

\* Tokens by what ParseQuery tells apart; val 0 stands for an empty or unparsable one.
Tokens == [dash : BOOLEAN, key : {"", "port", "ip"}, val : 1 .. 2]
          \cup {[dash |-> FALSE, key |-> "port", val |-> 0], [dash |-> FALSE, key |-> "bogus", val |-> 1]}

\* textCond looks for the value in several columns (here: two), keyCond in one.
Cond(t) == [key |-> t.key, neg |-> t.dash,
            columns |-> IF t.key = "" THEN <<"port", "ip">> ELSE <<t.key>>,
            args |-> IF t.key = "" THEN <<t.val, t.val>> ELSE <<t.val>>]

\* A bad value or an unknown key fails the whole search.
ParseQuery(toks) ==
    IF \E i \in DOMAIN toks : toks[i].val = 0 \/ toks[i].key = "bogus" THEN {}
    ELSE {[i \in DOMAIN toks |-> Cond(toks[i])]}

Alone(c) == c.key = "" \/ c.neg

Flat(seqs) == FoldLeft(LAMBDA a, b : a \o b, <<>>, seqs)

\* The conditions by clause: one per negated or free-text term, then one per key, in
\* the order the keys appear.
Grouped(conds) ==
    LET positive == SelectSeq(conds, LAMBDA c : ~Alone(c))
        keys == FoldLeft(LAMBDA ks, c : IF c.key \in Range(ks) THEN ks ELSE Append(ks, c.key), <<>>, positive)
        alone == SelectSeq(conds, Alone)
    IN [i \in DOMAIN alone |-> <<alone[i]>>]
       \o [i \in DOMAIN keys |-> SelectSeq(positive, LAMBDA c : c.key = keys[i])]

\* A clause of the WHERE is a disjunction over its placeholders' columns.
Clause(conds) == [neg |-> Head(conds).neg, columns |-> Flat([i \in DOMAIN conds |-> conds[i].columns])]

Args(conds) == Flat([i \in DOMAIN conds |-> conds[i].args])

\* Plausible bug: the arguments stay in the order of the terms.
whereForUngrouped(conds) ==
    [sql |-> [i \in DOMAIN Grouped(conds) |-> Clause(Grouped(conds)[i])], args |-> Args(conds)]

\* whereFor: clauses, and their arguments in the same order.
whereFor(conds) ==
    [sql |-> [i \in DOMAIN Grouped(conds) |-> Clause(Grouped(conds)[i])],
     args |-> Args(Flat(Grouped(conds)))]

\* SQLite binds the arguments to the placeholders from left to right.
Satisfies(row, where) ==
    LET Before(i) == Len(Flat([j \in 1 .. i - 1 |-> where.sql[j].columns]))
        Holds(i) == \E k \in DOMAIN where.sql[i].columns :
                        row[where.sql[i].columns[k]] = where.args[Before(i) + k]
    IN \A i \in DOMAIN where.sql : where.sql[i].neg # Holds(i)

\* The ports of a service name; an unknown one has none.
ServicePorts == [any |-> <<>>, web |-> <<2, 3>>, none |-> <<>>]

\* QueryHistory: the filter fields, then the conditions of the search, one list of
\* clauses and one of arguments; LIMIT and OFFSET count from the newest row.
QueryHistory(rows, f, conds) ==
    LET ports == ServicePorts[f.service]
        service == [sql |-> IF ports = <<>> THEN <<>>
                            ELSE <<[neg |-> FALSE, columns |-> [i \in DOMAIN ports |-> "port"]]>>,
                    args |-> ports]
        search == whereFor(conds)
        where == [sql |-> service.sql \o search.sql, args |-> service.args \o search.args]
        limit == IF f.limit <= 0 THEN DefaultLimit ELSE Min({f.limit, MaxLimit})
        offset == Max({f.offset, 0})
        newest == Reverse(SelectSeq([i \in DOMAIN rows |-> i], LAMBDA i : Satisfies(rows[i], where)))
    IN IF f.service = "none" THEN <<>>
       ELSE Reverse(SubSeq(newest, offset + 1, Min({offset + limit, Len(newest)})))

-----------------------------------------------------------------------------
(* Rankings.                                                               *)

\* count descending, then key.
Ranked(items) == SetToSortSeq(items, LAMBDA x, y : x.count > y.count \/ (x.count = y.count /\ x.key < y.key))

Top(s, limit) == SubSeq(s, 1, Min({limit, Len(s)}))

\* Plausible bug: addresses of the previous period count as well.
CountTagMixed(a, r) ==
    IF r.age = 0 THEN [a EXCEPT !.count = @ + 1, !.ips = @ \cup {r.ip}]
    ELSE [a EXCEPT !.prev = @ + 1, !.ips = @ \cup {r.ip}]

\* The body of topTags' loop, for one tag of one row.
CountTag(a, r) ==
    IF r.age = 0 THEN [a EXCEPT !.count = @ + 1, !.ips = @ \cup {r.ip}]
    ELSE [a EXCEPT !.prev = @ + 1]

\* topTags scans the rows of both periods and counts in maps.
topTags(rows, limit) ==
    LET scanned == SelectSeq(rows, LAMBDA r : r.tags # {} /\ r.age <= 1)
        Acc(t) == FoldLeft(CountTag, [key |-> t, count |-> 0, prev |-> 0, ips |-> {}],
                           SelectSeq(scanned, LAMBDA r : t \in r.tags))
    IN Top(Ranked({a \in {Acc(t) : t \in UNION {r.tags : r \in Range(scanned)}} : a.count # 0}), limit)

\* TopN lets SQLite group: the same for a column, where a row has one key.
TopN(rows, limit) ==
    LET Of(k, age) == {i \in DOMAIN rows : k \in rows[i].tags /\ rows[i].age = age}
        Item(k) == [key |-> k, count |-> Cardinality(Of(k, 0)), prev |-> Cardinality(Of(k, 1)),
                    ips |-> {rows[i].ip : i \in Of(k, 0)}]
    IN Top(Ranked({Item(k) : k \in {x \in UNION {r.tags : r \in Range(rows)} : Of(x, 0) # {}}}), limit)

-----------------------------------------------------------------------------
(* Metric aggregates.  Times are in half hours, buckets in hours.          *)

\* from is truncated to its hour, to reaches the end of its own; {} is no bound.
InRange(bucket, q) ==
    /\ \A t \in q.from : bucket >= t \div 2
    /\ \A t \in q.to : bucket < (t \div 2) + 1

QueryMetrics(rows, q) == SelectSeq(rows, LAMBDA r : InRange(r.bucket, q))

\* m[k] += v on a map without k.
Plus(m, k, v) == [x \in DOMAIN m \cup {k} |-> (IF x \in DOMAIN m THEN m[x] ELSE 0) + (IF x = k THEN v ELSE 0)]

ValueAt(m, k) == IF k \in DOMAIN m THEN m[k] ELSE 0

\* The loop of HandleMetrics.
Aggregate(rows) ==
    LET none == [x \in {} |-> 0]
        Add(a, r) ==
            [a EXCEPT !.series = Plus(@, <<r.name, r.port, r.cc>>, r.value),
                      !.time = IF r.name = "connections" THEN Plus(@, r.bucket, r.value) ELSE @,
                      !.ips = IF r.name = "unique_ips" THEN Plus(@, r.bucket, r.value) ELSE @,
                      !.bans = IF r.name = "bans" THEN Plus(@, r.bucket, r.value) ELSE @,
                      !.ports = IF r.name = "connections" THEN Plus(@, <<r.port, r.bucket>>, r.value) ELSE @,
                      !.countries = IF r.name = "connections" /\ r.cc # "" THEN Plus(@, <<r.cc, r.bucket>>, r.value) ELSE @]
    IN FoldLeft(Add, [series |-> none, time |-> none, ips |-> none, bans |-> none,
                      ports |-> none, countries |-> none], rows)

\* Plausible bug: an hour without connections has no bucket.
AllBucketsOfTime(a) == DOMAIN a.time

AllBuckets(a) == DOMAIN a.time \cup DOMAIN a.ips \cup DOMAIN a.bans

\* The response: series, one entry per hour, and the timelines.
HandleMetrics(rows, q) ==
    LET a == Aggregate(QueryMetrics(rows, q))
    IN [series |-> a.series, ports |-> a.ports, countries |-> a.countries,
        buckets |-> [b \in AllBuckets(a) |-> [connections |-> ValueAt(a.time, b), unique_ips |-> ValueAt(a.ips, b),
                                             bans |-> ValueAt(a.bans, b)]]]

\* GET /metrics: the series, per name.
HandleMetricsPrometheus(rows, q, name) ==
    LET s == Aggregate(QueryMetrics(rows, q)).series
    IN MapThenSumSet(LAMBDA k : s[k], {k \in DOMAIN s : k[1] = name})

-----------------------------------------------------------------------------
(* The tables and the parameters.                                          *)

Rows ==
    [campaigns |-> [ip : 1 .. 2, fp : {<<>>, <<2>>} \cup {<<a, b>> : a, b \in 1 .. 4}],
     history   |-> [ip : 1 .. 2, port : 1 .. 2],
     ranking   |-> [tags : SUBSET {1, 2}, ip : 1 .. 2, age : 0 .. 2],
     metrics   |-> {r \in [name : {"connections", "unique_ips", "bans"}, port : {22, 80}, cc : {"", "NL"},
                           bucket : 1 .. 2, value : {2}] :
                      r.name # "connections" => r.port = 22 /\ r.cc = ""}]

Parameters ==
    [history |-> [toks : UNION {[1 .. n -> Tokens] : n \in 0 .. MaxTokens}, service : {"any", "web", "none"},
                  limit : {0, 1, MaxLimit + 1}, offset : {-1, 1}],
     metrics |-> [from : {{}, {3}}, to : {{}, {2}, {3}}]]

\* Rows of the largest table, per question.
Size == [campaigns |-> MaxTable, history |-> 4, ranking |-> MaxTable, metrics |-> MaxTable]

QueryInit ==
    /\ question \in {"campaigns", "history", "ranking", "metrics"}
    /\ table = <<>> /\ asked = {}

\* A row is stored.  A metric is one row per name, labels and bucket; the history
\* is one with every kind of row.
Store ==
    /\ asked = {} /\ Len(table) < Size[question]
    /\ \E r \in Rows[question] :
          /\ question = "metrics" => \A i \in DOMAIN table : [table[i] EXCEPT !.value = r.value] # r
          /\ question = "history" => r = [ip |-> 1 + (Len(table) % 2), port |-> 1 + (Len(table) \div 2)]
          /\ table' = Append(table, r)
    /\ UNCHANGED <<question, asked>>

Ask ==
    /\ asked = {} /\ question \in DOMAIN Parameters
    /\ Len(table) = Size[question]
    /\ \E q \in Parameters[question] : asked' = {q}
    /\ UNCHANGED <<question, table>>

QueryNext == Store \/ Ask

-----------------------------------------------------------------------------
\* Cluster's campaigns are the connected components of "shares a fingerprint" with
\* enough addresses ("two events sharing any fingerprint are one campaign"), and a
\* campaign is named after its smallest fingerprint, whatever the order of the rows.
CampaignsExact ==
    question = "campaigns" =>
        LET with == {i \in DOMAIN table : table[i].fp # <<>>}
            Fps(S) == UNION {Range(table[i].fp) : i \in S}
            Linked(S) == \A i \in with : i \in S <=> Range(table[i].fp) \cap Fps(S) # {}
            Whole(S) == S # {} /\ Linked(S) /\ \A T \in SUBSET S : T # {} /\ Linked(T) => T = S
        IN Cluster(table, 2) =
             {g \in {[id |-> Min(Fps(S)), rows |-> S, ips |-> {table[i].ip : i \in S}] : S \in {T \in SUBSET with : Whole(T)}} :
                Cardinality(g.ips) >= 2}

\* QueryHistory returns exactly the rows that satisfy every negated and free-text
\* term, one of the terms of each key and the service, although all of them share one
\* positional argument list: the newest of them, after the offset, oldest first.
HistoryExact ==
    \A q \in asked : question = "history" =>
        LET Has(r, t) == IF t.key = "" THEN t.val \in {r.ip, r.port} ELSE r[t.key] = t.val
            Terms(k) == {t \in Range(q.toks) : t.key = k /\ ~t.dash}
            Wanted(r) == /\ \A t \in Range(q.toks) : t.dash => ~Has(r, t)
                         /\ \A t \in Terms("") : Has(r, t)
                         /\ \A k \in {"ip", "port"} : Terms(k) = {} \/ \E t \in Terms(k) : Has(r, t)
                         /\ q.service # "any" => r.port \in Range(ServicePorts[q.service])
            Newer(i) == {j \in DOMAIN table : j > i /\ Wanted(table[j])}
            limit == IF q.limit = 0 THEN DefaultLimit ELSE Min({q.limit, MaxLimit})
            offset == Max({q.offset, 0})
            wanted == {i \in DOMAIN table : /\ Wanted(table[i]) /\ Cardinality(Newer(i)) >= offset
                                            /\ Cardinality(Newer(i)) < offset + limit}
        IN \A conds \in ParseQuery(q.toks) :
             QueryHistory(table, q, conds) = SetToSortSeq(wanted, LAMBDA i, j : i < j)

\* The ranking that topTags accumulates in maps, with its two periods, is the one that
\* TopN has SQLite compute for the other dimensions.
RankingsAgree ==
    question = "ranking" => \A limit \in 1 .. 2 : topTags(table, limit) = TopN(table, limit)

\* The hours of the /api/metrics timeline, its port timelines and /metrics add up to
\* the same totals, those of the stored rows from the hour of from to the hour of to.
MetricsAddUp ==
    \A q \in asked : question = "metrics" =>
        LET r == HandleMetrics(table, q)
            mine == {i \in DOMAIN table : /\ \A t \in q.from : table[i].bucket >= t \div 2
                                          /\ \A t \in q.to : table[i].bucket <= t \div 2}
            Stored(name) == MapThenSumSet(LAMBDA i : table[i].value, {i \in mine : table[i].name = name})
            PerBucket(name) == MapThenSumSet(LAMBDA b : r.buckets[b][name], DOMAIN r.buckets)
        IN /\ \A name \in {"connections", "unique_ips", "bans"} :
                 /\ PerBucket(name) = Stored(name)
                 /\ HandleMetricsPrometheus(table, q, name) = Stored(name)
           /\ MapThenSumSet(LAMBDA k : r.ports[k], DOMAIN r.ports) = Stored("connections")

=============================================================================
