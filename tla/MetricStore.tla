---------------------------- MODULE MetricStore ----------------------------
(***************************************************************************)
(* internal/metrics and the metrics table: hourly counters accumulated in  *)
(* memory by the workers, flushed to SQLite, and rebuilt from the events   *)
(* table by BackfillMetrics when a process starts with an empty table.     *)
(* The model follows one label set of connections_total and unique_ips.    *)
(***************************************************************************)
EXTENDS Naturals, FiniteSets, FiniteSetsExt

CONSTANTS
    Worker,      \* pipeline workers
    Visitor,     \* source addresses
    Hours,       \* bound on the clock, in hour buckets
    MaxCaptured, \* bound on the events
    MaxRuns      \* bound on the processes

ASSUME MetricAssumption == {Hours, MaxCaptured, MaxRuns} \subseteq Nat \ {0}

Hour == 1 .. Hours

VARIABLES
    hour,       \* currentBucket()
    recording,  \* per worker: {} or the event of a Record that has read the clock
    counters,   \* deltas since the last flush
    ipSets,
    snap,       \* {} or what a flush took and has not yet written
    connRow, uniqRow,  \* the metrics table; 0: no row
    stored,     \* the events table
    runs, running,   \* processes so far; whether one runs
    captured,   \* ghost: the events so far; hour is the time of the event and bucket the
                \* hour in which Record was called
    lost,       \* ghost: some event will never be counted
    shaky       \* ghost: hours of which some address may be missing from unique_ips

metricVars == <<hour, recording, counters, ipSets, snap, connRow, uniqRow, stored, runs, running,
                captured, lost, shaky>>

Zero == [h \in Hour |-> 0]
NoIps == [h \in Hour |-> {}]

MetricInit ==
    /\ hour = 1 /\ recording = [w \in Worker |-> {}]
    /\ counters = Zero /\ ipSets = NoIps /\ snap = {}
    /\ connRow = Zero /\ uniqRow = Zero
    /\ stored = {} /\ runs = 0 /\ running = FALSE
    /\ captured = {} /\ lost = FALSE /\ shaky = {}

Ips(events) == {e.ip : e \in events}
At(h) == {e \in stored : e.hour = h}
In(h) == {e \in captured : e.bucket = h}
MaxNat(a, b) == IF a > b THEN a ELSE b

\* Plausible bug: the check for an empty table is forgotten.
BackfillAlways ==
    /\ connRow' = [h \in Hour |-> connRow[h] + Cardinality(At(h))]
    /\ uniqRow' = [h \in Hour |-> MaxNat(uniqRow[h], Cardinality(Ips(At(h))))]
    /\ UNCHANGED <<lost, shaky>>

\* BackfillMetrics: one transaction, and only into an empty table.  A failure is logged.
BackfillMetrics ==
    \/ /\ connRow = Zero /\ uniqRow = Zero
       /\ connRow' = [h \in Hour |-> Cardinality(At(h))]
       /\ uniqRow' = [h \in Hour |-> Cardinality(Ips(At(h)))]
       /\ lost' = (stored # captured)
       /\ shaky' = {h \in Hour : h = hour \/ At(h) # In(h)}
    \/ /\ connRow # Zero
       /\ UNCHANGED <<connRow, uniqRow, lost, shaky>>
    \/ /\ connRow = Zero /\ captured # {}
       /\ lost' = TRUE /\ shaky' = Hour
       /\ UNCHANGED <<connRow, uniqRow>>

\* New: the backfill comes before the cache exists.
StartMetrics ==
    /\ ~running /\ runs < MaxRuns /\ runs' = runs + 1 /\ running' = TRUE
    /\ BackfillMetrics
    /\ UNCHANGED <<hour, recording, counters, ipSets, snap, stored, captured>>

\* A worker processes an event, of this hour or queued at the end of the last: the row
\* reaches the events table or is dropped, and Record reads the clock.
RecordBegins(w, e) ==
    /\ running /\ recording[w] = {} /\ e.n <= MaxCaptured
    /\ captured' = captured \cup {e}
    /\ stored' \in {stored, stored \cup {e}}
    /\ recording' = [recording EXCEPT ![w] = {e}]
    /\ UNCHANGED <<hour, counters, ipSets, snap, connRow, uniqRow, runs, running, lost, shaky>>

NewEvents ==
    {[n |-> Cardinality(captured) + 1, ip |-> ip, hour |-> h, bucket |-> hour] :
        ip \in Visitor, h \in {hour, hour - 1} \cap Hour}

\* Record under the lock.  When the hour has ended since it read the clock, a flush may
\* have forgotten the addresses of the bucket.
RecordEnds(w) ==
    \E e \in recording[w] :
        /\ counters' = [counters EXCEPT ![e.bucket] = @ + 1]
        /\ ipSets' = [ipSets EXCEPT ![e.bucket] = @ \cup {e.ip}]
        /\ recording' = [recording EXCEPT ![w] = {}]
        /\ shaky' = IF e.bucket # hour THEN shaky \cup {e.bucket} ELSE shaky
        /\ UNCHANGED <<hour, snap, connRow, uniqRow, stored, runs, running, captured, lost>>

\* flush under the lock: the counters move to a snapshot and past hours are forgotten.
FlushTake ==
    /\ running /\ snap = {} /\ counters # Zero
    /\ snap' = {[conn |-> counters, uniq |-> [h \in Hour |-> Cardinality(ipSets[h])]]}
    /\ counters' = Zero
    /\ ipSets' = [h \in Hour |-> IF h = hour THEN ipSets[h] ELSE {}]
    /\ UNCHANGED <<hour, recording, connRow, uniqRow, stored, runs, running, captured, lost, shaky>>

\* Plausible bug: unique_ips is added like a counter.
UpsertAdding(s) ==
    /\ connRow' = [h \in Hour |-> connRow[h] + s.conn[h]]
    /\ uniqRow' = [h \in Hour |-> uniqRow[h] + s.uniq[h]]

\* UpsertMetrics: one transaction, adding the deltas and keeping the larger unique_ips.
UpsertMetrics(s) ==
    /\ connRow' = [h \in Hour |-> connRow[h] + s.conn[h]]
    /\ uniqRow' = [h \in Hour |-> MaxNat(uniqRow[h], s.uniq[h])]

\* flush after the lock; an error is logged and the snapshot is gone.
FlushWrite ==
    /\ \E s \in snap :
         \/ UpsertMetrics(s) /\ UNCHANGED <<lost, shaky>>
         \/ lost' = TRUE /\ shaky' = Hour /\ UNCHANGED <<connRow, uniqRow>>
    /\ snap' = {}
    /\ UNCHANGED <<hour, recording, counters, ipSets, stored, runs, running, captured>>

\* The process ends, in a crash or, once the workers are done and all is flushed, in Run.
StopMetrics ==
    /\ running /\ running' = FALSE
    /\ recording' = [w \in Worker |-> {}] /\ counters' = Zero /\ ipSets' = NoIps /\ snap' = {}
    /\ LET unsaved == snap # {} \/ counters # Zero \/ \E w \in Worker : recording[w] # {}
       IN  /\ lost' = (lost \/ unsaved)
           /\ shaky' = IF unsaved THEN Hour ELSE shaky \cup {hour}
    /\ UNCHANGED <<hour, connRow, uniqRow, stored, runs, captured>>

\* PruneEvents deletes the events of the oldest hours; the metrics are retained.
Prune ==
    /\ running
    /\ \E h \in Hour : h < hour /\ At(h) # {} /\ stored' = {e \in stored : e.hour > h}
    /\ UNCHANGED <<hour, recording, counters, ipSets, snap, connRow, uniqRow, runs, running,
                   captured, lost, shaky>>

NextHour ==
    /\ hour < Hours /\ hour' = hour + 1
    /\ UNCHANGED <<recording, counters, ipSets, snap, connRow, uniqRow, stored, runs, running,
                   captured, lost, shaky>>

MetricNext ==
    \/ StartMetrics \/ FlushTake \/ FlushWrite \/ StopMetrics \/ Prune \/ NextHour
    \/ \E w \in Worker : RecordEnds(w) \/ \E e \in NewEvents : RecordBegins(w, e)

MetricSpec == MetricInit /\ [][MetricNext]_metricVars

-----------------------------------------------------------------------------
\* What the table holds or a flush is about to add.
Total(row, field(_)) ==
    MapThenSumSet(LAMBDA h : row[h] + MapThenSumSet(LAMBDA s : field(s)[h], snap), Hour)

\* "This is idempotent": over restarts, crashes, backfills, pruning and hours that end in
\* the middle of a Record, no connection is counted twice, and each is counted once
\* unless a crash, a failed write or a dropped row lost it.
CountedExactly ==
    LET counted == Total(connRow, LAMBDA s : s.conn)
                     + MapThenSumSet(LAMBDA h : counters[h], Hour)
                     + Cardinality(UNION {recording[w] : w \in Worker})
    IN  /\ counted <= Cardinality(captured)
        /\ running /\ ~lost => counted = Cardinality(captured)

\* "the count can only grow within an hour": unique_ips is never larger than the number of
\* addresses of the hour, and equal to it once flushed, unless the hour saw a restart, a
\* loss, or a Record that came after the hour had ended.
UniqueExact ==
    \A h \in Hour :
        /\ uniqRow[h] <= Cardinality(Ips(In(h) \cup {e \in captured : e.hour = h}))
        /\ h \notin shaky /\ running /\ snap = {} /\ counters = Zero
             /\ (\A w \in Worker : recording[w] = {}) =>
               uniqRow[h] = Cardinality(Ips(In(h)))

=============================================================================
