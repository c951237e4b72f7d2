------------------------------ MODULE Pipeline ------------------------------
(***************************************************************************)
(* The capture pipeline and its shutdown: the capture handlers of          *)
(* internal/services, the XDP event channel, App.Submit, the workers and   *)
(* App.process, the batch writer of internal/db, the metrics cache, and    *)
(* the order in which App.Run takes all of them down.                      *)
(*                                                                         *)
(* A capture is a model value, and the state says where each one is.  What *)
(* matters of a channel is what it holds and whether it is full or closed; *)
(* the order within it is left out, as several workers take from the queue *)
(* at once.                                                                *)
(***************************************************************************)
EXTENDS Naturals, FiniteSets

CONSTANTS
    Conn,       \* captures of ServeTCP and ServeUDP, which Env.Run waits for
    Http,       \* captures of HTTP handlers, which Env.Run does not wait for
    Xdp,        \* events of the perf reader
    QueueSize, EventChSize, InsertQSize, BatchMax,
    Workers,    \* number of worker goroutines
    MaxFaults   \* bound on failed database transactions

Capture == Conn \cup Http \cup Xdp

ASSUME PipelineAssumption ==
    /\ QueueSize \in Nat \ {0} /\ EventChSize \in Nat \ {0} /\ InsertQSize \in Nat \ {0}
    /\ BatchMax \in Nat \ {0} /\ Workers \in Nat \ {0} /\ MaxFaults \in Nat
    /\ IsFiniteSet(Capture)

VARIABLES
    ctxDone,    \* the context of Run is cancelled
    listening,  \* some listener accepts
    reader,     \* the perf reader: "on", "closing" (Stop closed it) or "off"
    pump,       \* pumpEBPF is running
    stage,      \* where Run is
    qclosed,    \* the queue is closed
    at,         \* where each capture is
    saved,      \* how far the database is with each capture
    writer,     \* the writeLoop goroutine: "recv", "drain", "flush", "last" or "exit"
    insertOpen, \* insertQ is open
    dbOpen,     \* the SQL handle is open
    counters,   \* captures counted in the metrics cache and not flushed
    snap,       \* per flush: the counters it took and has not written
    metrics,    \* captures counted in the metrics table
    faults

vars == <<ctxDone, listening, reader, pump, stage, qclosed, at, saved, writer, insertOpen,
          dbOpen, counters, snap, metrics, faults>>
runVars == <<ctxDone, listening, stage, qclosed>>
xdpVars == <<reader, pump>>
dbVars == <<saved, writer, insertOpen, dbOpen>>
metricVars == <<counters, snap, metrics>>

In(place) == {c \in Capture : at[c] = place}
Busy == {c \in Capture : at[c] \in {"insert", "count"}}
Saving(place) == {c \in Capture : saved[c] = place}
Move(c, place) == at' = [at EXCEPT ![c] = place]

Init ==
    /\ ctxDone = FALSE
    /\ listening = TRUE
    /\ pump \in BOOLEAN                \* XDP is attached or not
    /\ reader = IF pump THEN "on" ELSE "off"
    /\ stage = "serve"
    /\ qclosed = FALSE
    /\ at = [c \in Capture |-> "idle"]
    /\ saved = [c \in Capture |-> "no"]
    /\ writer = "recv"
    /\ insertOpen = TRUE
    /\ dbOpen = TRUE
    /\ counters = {}
    /\ snap = [f \in {"loop", "close"} |-> {}]
    /\ metrics = {}
    /\ faults = 0

-----------------------------------------------------------------------------
(* Captures arrive *)

\* A connection or datagram is accepted.
Accept(c) ==
    /\ c \notin Xdp /\ at[c] = "idle" /\ listening
    /\ Move(c, "open")
    /\ UNCHANGED <<runVars, xdpVars, dbVars, metricVars, faults>>

\* App.Submit, under the read lock of qmu.
Submit(c) ==
    Move(c, IF qclosed THEN "late"
            ELSE IF Cardinality(In("queue")) < QueueSize THEN "queue"
            ELSE "dropped")

\* A handler is done and hands over its capture, unless it panicked.
HandlerSubmit(c) ==
    /\ at[c] = "open"
    /\ Submit(c) \/ (c \in Conn /\ Move(c, "aborted"))
    /\ UNCHANGED <<runVars, xdpVars, dbVars, metricVars, faults>>

\* startEventReader: one perf record; no room in EventCh loses it.
ReadEvent(c) ==
    /\ c \in Xdp /\ at[c] = "idle" /\ reader # "off"
    /\ Move(c, IF Cardinality(In("eventCh")) < EventChSize THEN "eventCh" ELSE "lost")
    /\ UNCHANGED <<runVars, xdpVars, dbVars, metricVars, faults>>

\* startEventReader returns, because Stop closed the reader or on an error.
ReaderExit ==
    /\ reader # "off"
    /\ reader' = "off"
    /\ UNCHANGED <<pump, at, runVars, dbVars, metricVars, faults>>

\* pumpEBPF: an event is skipped (banned, or its port has a listener) or submitted.
PumpEvent(c) ==
    /\ pump /\ at[c] = "eventCh"
    /\ Move(c, "skipped") \/ Submit(c)
    /\ UNCHANGED <<runVars, xdpVars, dbVars, metricVars, faults>>

\* Plausible bug: the pump ends with the channel only, not with the context.
PumpExitOnClose ==
    /\ pump
    /\ reader = "off" /\ In("eventCh") = {}
    /\ pump' = FALSE
    /\ UNCHANGED <<reader, at, runVars, dbVars, metricVars, faults>>

\* pumpEBPF returns.
PumpExit ==
    /\ pump
    /\ ctxDone \/ (reader = "off" /\ In("eventCh") = {})
    /\ pump' = FALSE
    /\ UNCHANGED <<reader, at, runVars, dbVars, metricVars, faults>>

-----------------------------------------------------------------------------
(* App.worker and App.process *)

\* A worker takes a capture.  Limiter.Record may refuse a TCP source; UDP is not
\* limited.  Enrichment and Broadcast (module Hub) change nothing here.
Dequeue(c) ==
    /\ at[c] = "queue" /\ Cardinality(Busy) < Workers
    /\ Move(c, "rejected") \/ Move(c, "insert")
    /\ UNCHANGED <<runVars, xdpVars, dbVars, metricVars, faults>>

\* EventDB.Insert: never blocks; a send on the closed insertQ would panic.
Insert(c) ==
    /\ at[c] = "insert"
    /\ Move(c, "count")
    /\ saved' = [saved EXCEPT ![c] =
                    IF ~insertOpen THEN "panic"
                    ELSE IF Cardinality(Saving("insertQ")) < InsertQSize THEN "insertQ"
                    ELSE "overflow"]
    /\ UNCHANGED <<writer, insertOpen, dbOpen, runVars, xdpVars, metricVars, faults>>

\* Metrics.Record, and process returns.
Count(c) ==
    /\ at[c] = "count"
    /\ Move(c, "handled")
    /\ counters' = counters \cup {c}
    /\ UNCHANGED <<snap, metrics, runVars, xdpVars, dbVars, faults>>

-----------------------------------------------------------------------------
(* EventDB.writeLoop *)

Batch == Saving("batch")

\* Receive: the first event of a batch is waited for, the others are not.
WriterReceive(c) ==
    /\ writer \in {"recv", "drain"} /\ saved[c] = "insertQ"
    /\ saved' = [saved EXCEPT ![c] = "batch"]
    /\ writer' = IF Cardinality(Batch) + 1 < BatchMax THEN "drain" ELSE "flush"
    /\ UNCHANGED <<at, insertOpen, dbOpen, runVars, xdpVars, metricVars, faults>>

\* insertQ is empty: write the batch, for the last time if it is closed.
WriterEmpty ==
    /\ writer = "drain" \/ (writer = "recv" /\ ~insertOpen)
    /\ Saving("insertQ") = {}
    /\ writer' = IF insertOpen THEN "flush" ELSE "last"
    /\ UNCHANGED <<at, saved, insertOpen, dbOpen, runVars, xdpVars, metricVars, faults>>

\* Plausible bug: rows that failed stay in the slice and are written with the next batch.
FlushBatchAgain ==
    /\ writer \in {"flush", "last"}
    /\ writer' = IF writer = "flush" THEN "recv" ELSE "exit"
    /\ \E ok \in SUBSET (Batch \cup Saving("failed")) :
          /\ Batch \subseteq ok \/ faults < MaxFaults
          /\ faults' = IF Batch \subseteq ok THEN faults ELSE faults + 1
          /\ saved' = [c \in Capture |-> IF c \in ok THEN "row"
                                         ELSE IF c \in Batch THEN "failed"
                                         ELSE saved[c]]
    /\ UNCHANGED <<at, insertOpen, dbOpen, runVars, xdpVars, metricVars>>

\* flushBatch: one transaction.  It may fail, or some of its inserts may.
FlushBatch ==
    /\ writer \in {"flush", "last"}
    /\ writer' = IF writer = "flush" THEN "recv" ELSE "exit"
    /\ \E ok \in SUBSET Batch :
          /\ ok = Batch \/ faults < MaxFaults
          /\ faults' = IF ok = Batch THEN faults ELSE faults + 1
          /\ saved' = [c \in Capture |-> IF c \in ok THEN "row"
                                         ELSE IF c \in Batch THEN "failed"
                                         ELSE saved[c]]
    /\ UNCHANGED <<at, insertOpen, dbOpen, runVars, xdpVars, metricVars>>

-----------------------------------------------------------------------------
(* metrics.Cache *)

\* flush, under the lock: take the counters.
FlushTake(f) ==
    /\ snap' = [snap EXCEPT ![f] = counters]
    /\ counters' = {}

\* flush, after the lock: UpsertMetrics, which fails on a closed database.
FlushWrite(f) ==
    /\ snap' = [snap EXCEPT ![f] = {}]
    /\ \/ dbOpen /\ metrics' = metrics \cup snap[f] /\ UNCHANGED faults
       \/ ~dbOpen /\ UNCHANGED <<metrics, faults>>
       \/ faults < MaxFaults /\ faults' = faults + 1 /\ UNCHANGED metrics

\* flushLoop, which runs for as long as the process does.
LoopTake ==
    /\ snap["loop"] = {} /\ counters # {}
    /\ FlushTake("loop")
    /\ UNCHANGED <<at, metrics, runVars, xdpVars, dbVars, faults>>

LoopWrite ==
    /\ snap["loop"] # {}
    /\ FlushWrite("loop")
    /\ UNCHANGED <<at, counters, runVars, xdpVars, dbVars>>

-----------------------------------------------------------------------------
(* App.Run *)

\* SIGTERM, or the dashboard server fails.
Cancel ==
    /\ ~ctxDone
    /\ ctxDone' = TRUE
    /\ UNCHANGED <<listening, stage, qclosed, at, xdpVars, dbVars, metricVars, faults>>

\* The listeners' own goroutines close them.
CloseListeners ==
    /\ ctxDone /\ listening
    /\ listening' = FALSE
    /\ UNCHANGED <<ctxDone, stage, qclosed, at, xdpVars, dbVars, metricVars, faults>>

\* Run goes from one stage to the next.
Step(from, to) ==
    /\ stage = from
    /\ stage' = to
    /\ UNCHANGED <<ctxDone, listening, at, faults>>

\* Env.Run returns: listeners closed, ServeTCP and ServeUDP handlers done.
ServeReturn ==
    /\ ctxDone /\ ~listening /\ In("open") \cap Conn = {}
    /\ Step("serve", "background")
    /\ UNCHANGED <<qclosed, xdpVars, dbVars, metricVars>>

\* bg.Wait()
BackgroundDone ==
    /\ ~pump
    /\ Step("background", "ebpf")
    /\ UNCHANGED <<qclosed, xdpVars, dbVars, metricVars>>

\* Manager.Stop closes the perf reader and does not wait for its goroutine.
StopEBPF ==
    /\ Step("ebpf", "queue")
    /\ reader' = IF reader = "on" THEN "closing" ELSE reader
    /\ UNCHANGED <<qclosed, pump, dbVars, metricVars>>

\* qclosed is set and the queue closed under the write lock of qmu.
CloseQueue ==
    /\ Step("queue", "workers")
    /\ qclosed' = TRUE
    /\ UNCHANGED <<xdpVars, dbVars, metricVars>>

\* workers.Wait(): each has left its loop over the closed queue.
WorkersDone ==
    /\ In("queue") \cup Busy = {}
    /\ Step("workers", "metrics")
    /\ UNCHANGED <<qclosed, xdpVars, dbVars, metricVars>>

\* Metrics.Close: one more flush.
MetricsTake ==
    /\ Step("metrics", "flush")
    /\ FlushTake("close")
    /\ UNCHANGED <<qclosed, metrics, xdpVars, dbVars>>

MetricsWrite ==
    /\ stage = "flush" /\ stage' = "db"
    /\ FlushWrite("close")
    /\ UNCHANGED <<ctxDone, listening, qclosed, at, counters, xdpVars, dbVars>>

\* EventDB.Close: close insertQ ...
CloseInsertQ ==
    /\ Step("db", "drain")
    /\ insertOpen' = FALSE
    /\ UNCHANGED <<qclosed, saved, writer, dbOpen, xdpVars, metricVars>>

\* ... wait for the writer, and close the handle; Run returns.
CloseDB ==
    /\ writer = "exit"
    /\ Step("drain", "done")
    /\ dbOpen' = FALSE
    /\ UNCHANGED <<qclosed, saved, writer, insertOpen, xdpVars, metricVars>>

RunStep ==
    \/ ServeReturn \/ BackgroundDone \/ StopEBPF \/ CloseQueue \/ WorkersDone
    \/ MetricsTake \/ MetricsWrite \/ CloseInsertQ \/ CloseDB

Returned == stage = "done" /\ UNCHANGED vars

WorkerStep == \E c \in Capture : Dequeue(c) \/ Insert(c) \/ Count(c)
WriterStep == WriterEmpty \/ FlushBatch \/ \E c \in Capture : WriterReceive(c)

Next ==
    \/ \E c \in Capture : Accept(c) \/ HandlerSubmit(c) \/ ReadEvent(c) \/ PumpEvent(c)
    \/ ReaderExit \/ PumpExit
    \/ WorkerStep \/ WriterStep
    \/ LoopTake \/ LoopWrite
    \/ Cancel \/ CloseListeners \/ RunStep \/ Returned

Spec == Init /\ [][Next]_vars

\* Goroutines that can run do run; sessions end by their deadlines.  Nothing is
\* assumed of peers, of the signal, or of the perf reader.
FairSpec ==
    /\ Spec
    /\ WF_vars(WorkerStep) /\ WF_vars(WriterStep) /\ WF_vars(RunStep)
    /\ WF_vars(CloseListeners) /\ WF_vars(PumpExit)
    /\ \A c \in Capture : WF_vars(HandlerSubmit(c))

-----------------------------------------------------------------------------
(* Properties *)

\* No worker ever sends on the closed insertQ, whatever the shutdown races with:
\* process never panics, and the writer never writes to a closed handle.
NoSendOnClosed ==
    /\ Saving("panic") = {}
    /\ ~insertOpen => In("queue") \cup Busy = {}
    /\ ~dbOpen => writer = "exit"

\* Graceful shutdown: when Run returns every capture that entered the queue has
\* been processed, and the database is done with every processed one; the only
\* ones without a row were refused by a full insertQ or a failed transaction.
DrainedAtReturn ==
    stage = "done" =>
        /\ In("queue") \cup Busy = {}
        /\ \A c \in Capture :
              at[c] = "handled" <=> saved[c] \in {"row", "overflow", "failed"}
        /\ MaxFaults = 0 => Saving("failed") = {}

\* A counted capture is in the cache, in one flush or in the table, never in two
\* places: no interleaving of the flush loop and Metrics.Close counts it twice.
CountedOnce ==
    /\ \A f \in {"loop", "close"} : snap[f] \cap (counters \cup metrics) = {}
    /\ counters \cap metrics = {} /\ snap["loop"] \cap snap["close"] = {}

\* Cancelling the context makes Run return, however the queues stand.
RunReturns == ctxDone ~> stage = "done"

\* "Close stops the flush loop and performs a final flush": when Run returns,
\* and no transaction failed, the metrics table counts every processed capture.
MetricsFlushed == stage = "done" => In("handled") \subseteq metrics

-----------------------------------------------------------------------------
(* What the pipeline implements *)

\* The fate of a capture, in the terms of module Ledger.
FateOf(place, kept) ==
    CASE place \in {"idle", "open", "eventCh"} -> "new"
      [] place \in {"queue", "insert"} -> "pending"
      [] place \in {"count", "handled"} /\ kept = "row" -> "stored"
      [] place \in {"count", "handled"} /\ kept \in {"overflow", "failed"} -> "lost"
      [] place \in {"count", "handled"} /\ kept \notin {"row", "overflow", "failed"} -> "pending"
      [] place = "rejected" -> "limited"
      [] OTHER -> "refused"

Fate == [c \in Capture |-> FateOf(at[c], saved[c])]

L == INSTANCE Ledger WITH fate <- Fate, open <- dbOpen

\* The pipeline with its queues, workers, batch writer and shutdown keeps the ledger:
\* a capture App.Submit took is settled exactly once, and EventDB.Close returns only
\* when all of them are.
ImplementsLedger == L!LedgerSpec

=============================================================================
