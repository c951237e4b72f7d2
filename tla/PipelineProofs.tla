--------------------------- MODULE PipelineProofs ---------------------------
(***************************************************************************)
(* Proofs, for any captures, queue sizes and number of workers, that the   *)
(* shutdown of the pipeline never sends on a closed channel, that it       *)
(* returns drained, that no capture is counted twice, and that with its    *)
(* queues, workers, batches and shutdown it implements the one-fate ledger *)
(* of module Ledger; and that the files the workers export to hold the     *)
(* newest events without a gap.                                            *)
(***************************************************************************)
EXTENDS Pipeline, Export, TLAPS

-----------------------------------------------------------------------------
(* The shutdown of the pipeline *)

\* The types the proofs need.
Typed ==
    /\ at \in [Capture -> {"idle", "open", "eventCh", "queue", "insert", "count", "lost", "skipped",
                            "dropped", "late", "rejected", "aborted", "handled"}]
    /\ saved \in [Capture -> {"no", "insertQ", "batch", "row", "overflow", "failed", "panic"}]
    /\ stage \in {"serve", "background", "ebpf", "queue", "workers", "metrics", "flush", "db",
                   "drain", "done"}
    /\ writer \in {"recv", "drain", "flush", "last", "exit"}

\* What is closed follows from where Run is.
Closings ==
    /\ stage \in {"workers", "metrics", "flush", "db", "drain", "done"} => qclosed
    /\ ~insertOpen <=> stage \in {"drain", "done"}
    /\ ~dbOpen <=> stage = "done"

\* Once the workers were waited for, the queue is empty and nobody is in process.
Quiet ==
    stage \in {"metrics", "flush", "db", "drain", "done"} =>
        \A c \in Capture : at[c] \notin {"queue", "insert", "count"}

\* The writer leaves its loop only over a closed and empty insertQ, after its batch.
WriterDone ==
    /\ writer \in {"last", "exit"} => ~insertOpen /\ \A c \in Capture : saved[c] # "insertQ"
    /\ writer = "exit" => \A c \in Capture : saved[c] # "batch"
    /\ stage = "done" => writer = "exit"

\* The database knows the captures whose Insert has returned, and no Insert panicked.
Known == \A c \in Capture : /\ saved[c] # "no" <=> at[c] \in {"count", "handled"}
                            /\ saved[c] # "panic"

\* Only a fault fails an insert.
FaultsCounted ==
    /\ faults \in Nat /\ faults <= MaxFaults
    /\ (\E c \in Capture : saved[c] = "failed") => faults > 0

\* Only captures that left process are counted.
CountedHandled == \A c \in counters \cup metrics \cup snap["loop"] \cup snap["close"] : c \in Capture /\ at[c] = "handled"

\* What every step of the pipeline keeps.
DrainInv == Typed /\ Closings /\ Quiet /\ WriterDone /\ Known /\ FaultsCounted

\* What the counters and their snapshots hold.
CountInv == /\ snap \in [{"loop", "close"} -> SUBSET Capture] /\ counters \subseteq Capture
            /\ CountedHandled /\ CountedOnce

-----------------------------------------------------------------------------
\* Every step keeps the drain invariant.
LEMMA DrainStep ==
    ASSUME DrainInv, [Next]_vars
    PROVE  DrainInv'
<1> USE DEF DrainInv
<1>1. ASSUME NEW c \in Capture, Accept(c) PROVE DrainInv'
  <2>1. Typed' BY <1>1 DEF Typed, Accept, Move, runVars, xdpVars, dbVars, metricVars
  <2>2. Closings' BY <1>1 DEF Closings, Accept, Move, runVars, xdpVars, dbVars, metricVars
  <2>3. Quiet' BY <1>1 DEF Typed, Closings, Quiet, Accept, Move, runVars, xdpVars, dbVars, metricVars
  <2>4. WriterDone' BY <1>1 DEF Typed, Closings, Quiet, WriterDone, Accept, Move, runVars, xdpVars, dbVars, metricVars
  <2>5. Known' BY <1>1 DEF Typed, Closings, Quiet, Known, Accept, Move, runVars, xdpVars, dbVars, metricVars
  <2>6. FaultsCounted' BY <1>1 DEF Typed, FaultsCounted, Accept, Move, runVars, xdpVars, dbVars, metricVars
  <2>7. QED BY <2>1, <2>2, <2>3, <2>4, <2>5, <2>6
<1>2. ASSUME NEW c \in Capture, HandlerSubmit(c) PROVE DrainInv'
  <2>1. Typed' BY <1>2 DEF Typed, HandlerSubmit, Submit, Move, runVars, xdpVars, dbVars, metricVars
  <2>2. Closings' BY <1>2 DEF Closings, HandlerSubmit, Submit, Move, runVars, xdpVars, dbVars, metricVars
  <2>3. Quiet' BY <1>2 DEF Typed, Closings, Quiet, HandlerSubmit, Submit, Move, runVars, xdpVars, dbVars, metricVars
  <2>4. WriterDone' BY <1>2 DEF Typed, Closings, Quiet, WriterDone, HandlerSubmit, Submit, Move, runVars, xdpVars, dbVars, metricVars
  <2>5. Known' BY <1>2 DEF Typed, Closings, Quiet, Known, HandlerSubmit, Submit, Move, runVars, xdpVars, dbVars, metricVars
  <2>6. FaultsCounted' BY <1>2 DEF Typed, FaultsCounted, HandlerSubmit, Submit, Move, runVars, xdpVars, dbVars, metricVars
  <2>7. QED BY <2>1, <2>2, <2>3, <2>4, <2>5, <2>6
<1>3. ASSUME NEW c \in Capture, ReadEvent(c) PROVE DrainInv'
  <2>1. Typed' BY <1>3 DEF Typed, ReadEvent, Move, runVars, xdpVars, dbVars, metricVars
  <2>2. Closings' BY <1>3 DEF Closings, ReadEvent, Move, runVars, xdpVars, dbVars, metricVars
  <2>3. Quiet' BY <1>3 DEF Typed, Closings, Quiet, ReadEvent, Move, runVars, xdpVars, dbVars, metricVars
  <2>4. WriterDone' BY <1>3 DEF Typed, Closings, Quiet, WriterDone, ReadEvent, Move, runVars, xdpVars, dbVars, metricVars
  <2>5. Known' BY <1>3 DEF Typed, Closings, Quiet, Known, ReadEvent, Move, runVars, xdpVars, dbVars, metricVars
  <2>6. FaultsCounted' BY <1>3 DEF Typed, FaultsCounted, ReadEvent, Move, runVars, xdpVars, dbVars, metricVars
  <2>7. QED BY <2>1, <2>2, <2>3, <2>4, <2>5, <2>6
<1>4. ASSUME NEW c \in Capture, PumpEvent(c) PROVE DrainInv'
  <2>1. Typed' BY <1>4 DEF Typed, PumpEvent, Submit, Move, runVars, xdpVars, dbVars, metricVars
  <2>2. Closings' BY <1>4 DEF Closings, PumpEvent, Submit, Move, runVars, xdpVars, dbVars, metricVars
  <2>3. Quiet' BY <1>4 DEF Typed, Closings, Quiet, PumpEvent, Submit, Move, runVars, xdpVars, dbVars, metricVars
  <2>4. WriterDone' BY <1>4 DEF Typed, Closings, Quiet, WriterDone, PumpEvent, Submit, Move, runVars, xdpVars, dbVars, metricVars
  <2>5. Known' BY <1>4 DEF Typed, Closings, Quiet, Known, PumpEvent, Submit, Move, runVars, xdpVars, dbVars, metricVars
  <2>6. FaultsCounted' BY <1>4 DEF Typed, FaultsCounted, PumpEvent, Submit, Move, runVars, xdpVars, dbVars, metricVars
  <2>7. QED BY <2>1, <2>2, <2>3, <2>4, <2>5, <2>6
<1>5. ASSUME NEW c \in Capture, Dequeue(c) PROVE DrainInv'
  <2>1. Typed' BY <1>5 DEF Typed, Dequeue, Move, runVars, xdpVars, dbVars, metricVars
  <2>2. Closings' BY <1>5 DEF Closings, Dequeue, Move, runVars, xdpVars, dbVars, metricVars
  <2>3. Quiet' BY <1>5 DEF Typed, Closings, Quiet, Dequeue, Move, runVars, xdpVars, dbVars, metricVars
  <2>4. WriterDone' BY <1>5 DEF Typed, Closings, Quiet, WriterDone, Dequeue, Move, runVars, xdpVars, dbVars, metricVars
  <2>5. Known' BY <1>5 DEF Typed, Closings, Quiet, Known, Dequeue, Move, runVars, xdpVars, dbVars, metricVars
  <2>6. FaultsCounted' BY <1>5 DEF Typed, FaultsCounted, Dequeue, Move, runVars, xdpVars, dbVars, metricVars
  <2>7. QED BY <2>1, <2>2, <2>3, <2>4, <2>5, <2>6
<1>6. ASSUME NEW c \in Capture, Insert(c) PROVE DrainInv'
  <2>1. Typed' BY <1>6 DEF Typed, Insert, Move, runVars, xdpVars, dbVars, metricVars
  <2>2. Closings' BY <1>6 DEF Closings, Insert, Move, runVars, xdpVars, dbVars, metricVars
  <2>3. Quiet' BY <1>6 DEF Typed, Closings, Quiet, Insert, Move, runVars, xdpVars, dbVars, metricVars
  <2>4. WriterDone' BY <1>6 DEF Typed, Closings, Quiet, WriterDone, Insert, Move, runVars, xdpVars, dbVars, metricVars
  <2>5. Known' BY <1>6 DEF Typed, Closings, Quiet, Known, Insert, Move, runVars, xdpVars, dbVars, metricVars
  <2>6. FaultsCounted' BY <1>6 DEF Typed, FaultsCounted, Insert, Move, runVars, xdpVars, dbVars, metricVars
  <2>7. QED BY <2>1, <2>2, <2>3, <2>4, <2>5, <2>6
<1>7. ASSUME NEW c \in Capture, Count(c) PROVE DrainInv'
  <2>1. Typed' BY <1>7 DEF Typed, Count, Move, runVars, xdpVars, dbVars, metricVars
  <2>2. Closings' BY <1>7 DEF Closings, Count, Move, runVars, xdpVars, dbVars, metricVars
  <2>3. Quiet' BY <1>7 DEF Typed, Closings, Quiet, Count, Move, runVars, xdpVars, dbVars, metricVars
  <2>4. WriterDone' BY <1>7 DEF Typed, Closings, Quiet, WriterDone, Count, Move, runVars, xdpVars, dbVars, metricVars
  <2>5. Known' BY <1>7 DEF Typed, Closings, Quiet, Known, Count, Move, runVars, xdpVars, dbVars, metricVars
  <2>6. FaultsCounted' BY <1>7 DEF Typed, FaultsCounted, Count, Move, runVars, xdpVars, dbVars, metricVars
  <2>7. QED BY <2>1, <2>2, <2>3, <2>4, <2>5, <2>6
<1>8. ASSUME NEW c \in Capture, WriterReceive(c) PROVE DrainInv'
  <2>1. Typed' BY <1>8 DEF Typed, WriterReceive, runVars, xdpVars, dbVars, metricVars
  <2>2. Closings' BY <1>8 DEF Closings, WriterReceive, runVars, xdpVars, dbVars, metricVars
  <2>3. Quiet' BY <1>8 DEF Typed, Closings, Quiet, WriterReceive, runVars, xdpVars, dbVars, metricVars
  <2>4. WriterDone' BY <1>8 DEF Typed, Closings, Quiet, WriterDone, WriterReceive, runVars, xdpVars, dbVars, metricVars
  <2>5. Known' BY <1>8 DEF Typed, Closings, Quiet, Known, WriterReceive, runVars, xdpVars, dbVars, metricVars
  <2>6. FaultsCounted' BY <1>8 DEF Typed, FaultsCounted, WriterReceive, runVars, xdpVars, dbVars, metricVars
  <2>7. QED BY <2>1, <2>2, <2>3, <2>4, <2>5, <2>6
<1>9. CASE ReaderExit
  BY <1>9 DEF Typed, Closings, Quiet, WriterDone, Known, FaultsCounted, ReaderExit, runVars, xdpVars, dbVars, metricVars, vars
<1>10. CASE PumpExit
  BY <1>10 DEF Typed, Closings, Quiet, WriterDone, Known, FaultsCounted, PumpExit, runVars, xdpVars, dbVars, metricVars, vars
<1>11. CASE WriterEmpty
  <2>1. Typed' BY <1>11 DEF Typed, WriterEmpty, runVars, xdpVars, dbVars, metricVars
  <2>2. Closings' BY <1>11 DEF Closings, WriterEmpty, runVars, xdpVars, dbVars, metricVars
  <2>3. Quiet' BY <1>11 DEF Typed, Closings, Quiet, WriterEmpty, runVars, xdpVars, dbVars, metricVars
  <2>4. WriterDone' BY <1>11 DEF Typed, Closings, Quiet, WriterDone, Saving, WriterEmpty, runVars, xdpVars, dbVars, metricVars
  <2>5. Known' BY <1>11 DEF Typed, Closings, Quiet, Known, WriterEmpty, runVars, xdpVars, dbVars, metricVars
  <2>6. FaultsCounted' BY <1>11, PipelineAssumption DEF Typed, FaultsCounted, WriterEmpty, runVars, xdpVars, dbVars, metricVars
  <2>7. QED BY <2>1, <2>2, <2>3, <2>4, <2>5, <2>6
<1>12. CASE FlushBatch
  <2>1. Typed' BY <1>12 DEF Typed, FlushBatch, Batch, Saving, runVars, xdpVars, dbVars, metricVars
  <2>2. Closings' BY <1>12 DEF Closings, FlushBatch, Batch, Saving, runVars, xdpVars, dbVars, metricVars
  <2>3. Quiet' BY <1>12 DEF Typed, Closings, Quiet, FlushBatch, Batch, Saving, runVars, xdpVars, dbVars, metricVars
  <2>4. WriterDone' BY <1>12 DEF Typed, Closings, Quiet, WriterDone, FlushBatch, Batch, Saving, runVars, xdpVars, dbVars, metricVars
  <2>5. Known' BY <1>12 DEF Typed, Closings, Quiet, Known, FlushBatch, Batch, Saving, runVars, xdpVars, dbVars, metricVars
  <2>6. FaultsCounted' BY <1>12, PipelineAssumption DEF Typed, FaultsCounted, FlushBatch, Batch, Saving, runVars, xdpVars, dbVars, metricVars
  <2>7. QED BY <2>1, <2>2, <2>3, <2>4, <2>5, <2>6
<1>13. CASE LoopTake
  BY <1>13 DEF Typed, Closings, Quiet, WriterDone, Known, FaultsCounted, LoopTake, FlushTake, runVars, xdpVars, dbVars, metricVars, vars
<1>14. CASE LoopWrite
  <2>1. Typed' BY <1>14 DEF Typed, LoopWrite, FlushWrite, runVars, xdpVars, dbVars, metricVars
  <2>2. Closings' BY <1>14 DEF Closings, LoopWrite, FlushWrite, runVars, xdpVars, dbVars, metricVars
  <2>3. Quiet' BY <1>14 DEF Typed, Closings, Quiet, LoopWrite, FlushWrite, runVars, xdpVars, dbVars, metricVars
  <2>4. WriterDone' BY <1>14 DEF Typed, Closings, Quiet, WriterDone, LoopWrite, FlushWrite, runVars, xdpVars, dbVars, metricVars
  <2>5. Known' BY <1>14 DEF Typed, Closings, Quiet, Known, LoopWrite, FlushWrite, runVars, xdpVars, dbVars, metricVars
  <2>6. FaultsCounted' BY <1>14, PipelineAssumption DEF Typed, FaultsCounted, LoopWrite, FlushWrite, runVars, xdpVars, dbVars, metricVars
  <2>7. QED BY <2>1, <2>2, <2>3, <2>4, <2>5, <2>6
<1>15. CASE Cancel
  BY <1>15 DEF Typed, Closings, Quiet, WriterDone, Known, FaultsCounted, Cancel, runVars, xdpVars, dbVars, metricVars, vars
<1>16. CASE CloseListeners
  BY <1>16 DEF Typed, Closings, Quiet, WriterDone, Known, FaultsCounted, CloseListeners, runVars, xdpVars, dbVars, metricVars, vars
<1>17. CASE ServeReturn
  BY <1>17 DEF Typed, Closings, Quiet, WriterDone, Known, FaultsCounted, ServeReturn, Step, runVars, xdpVars, dbVars, metricVars, vars
<1>18. CASE BackgroundDone
  BY <1>18 DEF Typed, Closings, Quiet, WriterDone, Known, FaultsCounted, BackgroundDone, Step, runVars, xdpVars, dbVars, metricVars, vars
<1>19. CASE StopEBPF
  BY <1>19 DEF Typed, Closings, Quiet, WriterDone, Known, FaultsCounted, StopEBPF, Step, runVars, xdpVars, dbVars, metricVars, vars
<1>20. CASE CloseQueue
  <2>1. Typed' BY <1>20 DEF Typed, CloseQueue, Step, runVars, xdpVars, dbVars, metricVars
  <2>2. Closings' BY <1>20 DEF Closings, CloseQueue, Step, runVars, xdpVars, dbVars, metricVars
  <2>3. Quiet' BY <1>20 DEF Typed, Closings, Quiet, CloseQueue, Step, runVars, xdpVars, dbVars, metricVars
  <2>4. WriterDone' BY <1>20 DEF Typed, Closings, Quiet, WriterDone, CloseQueue, Step, runVars, xdpVars, dbVars, metricVars
  <2>5. Known' BY <1>20 DEF Typed, Closings, Quiet, Known, CloseQueue, Step, runVars, xdpVars, dbVars, metricVars
  <2>6. FaultsCounted' BY <1>20, PipelineAssumption DEF Typed, FaultsCounted, CloseQueue, Step, runVars, xdpVars, dbVars, metricVars
  <2>7. QED BY <2>1, <2>2, <2>3, <2>4, <2>5, <2>6
<1>21. CASE WorkersDone
  <2>1. Typed' BY <1>21 DEF Typed, WorkersDone, Step, In, Busy, runVars, xdpVars, dbVars, metricVars
  <2>2. Closings' BY <1>21 DEF Closings, WorkersDone, Step, In, Busy, runVars, xdpVars, dbVars, metricVars
  <2>3. Quiet' BY <1>21 DEF Typed, Closings, Quiet, WorkersDone, Step, In, Busy, runVars, xdpVars, dbVars, metricVars
  <2>4. WriterDone' BY <1>21 DEF Typed, Closings, Quiet, WriterDone, WorkersDone, Step, In, Busy, runVars, xdpVars, dbVars, metricVars
  <2>5. Known' BY <1>21 DEF Typed, Closings, Quiet, Known, WorkersDone, Step, In, Busy, runVars, xdpVars, dbVars, metricVars
  <2>6. FaultsCounted' BY <1>21, PipelineAssumption DEF Typed, FaultsCounted, WorkersDone, Step, In, Busy, runVars, xdpVars, dbVars, metricVars
  <2>7. QED BY <2>1, <2>2, <2>3, <2>4, <2>5, <2>6
<1>22. CASE MetricsTake
  <2>1. Typed' BY <1>22 DEF Typed, MetricsTake, FlushTake, Step, runVars, xdpVars, dbVars, metricVars
  <2>2. Closings' BY <1>22 DEF Closings, MetricsTake, FlushTake, Step, runVars, xdpVars, dbVars, metricVars
  <2>3. Quiet' BY <1>22 DEF Typed, Closings, Quiet, MetricsTake, FlushTake, Step, runVars, xdpVars, dbVars, metricVars
  <2>4. WriterDone' BY <1>22 DEF Typed, Closings, Quiet, WriterDone, MetricsTake, FlushTake, Step, runVars, xdpVars, dbVars, metricVars
  <2>5. Known' BY <1>22 DEF Typed, Closings, Quiet, Known, MetricsTake, FlushTake, Step, runVars, xdpVars, dbVars, metricVars
  <2>6. FaultsCounted' BY <1>22, PipelineAssumption DEF Typed, FaultsCounted, MetricsTake, FlushTake, Step, runVars, xdpVars, dbVars, metricVars
  <2>7. QED BY <2>1, <2>2, <2>3, <2>4, <2>5, <2>6
<1>23. CASE MetricsWrite
  <2>1. Typed' BY <1>23 DEF Typed, MetricsWrite, FlushWrite, runVars, xdpVars, dbVars, metricVars
  <2>2. Closings' BY <1>23 DEF Closings, MetricsWrite, FlushWrite, runVars, xdpVars, dbVars, metricVars
  <2>3. Quiet' BY <1>23 DEF Typed, Closings, Quiet, MetricsWrite, FlushWrite, runVars, xdpVars, dbVars, metricVars
  <2>4. WriterDone' BY <1>23 DEF Typed, Closings, Quiet, WriterDone, MetricsWrite, FlushWrite, runVars, xdpVars, dbVars, metricVars
  <2>5. Known' BY <1>23 DEF Typed, Closings, Quiet, Known, MetricsWrite, FlushWrite, runVars, xdpVars, dbVars, metricVars
  <2>6. FaultsCounted' BY <1>23, PipelineAssumption DEF Typed, FaultsCounted, MetricsWrite, FlushWrite, runVars, xdpVars, dbVars, metricVars
  <2>7. QED BY <2>1, <2>2, <2>3, <2>4, <2>5, <2>6
<1>24. CASE CloseInsertQ
  <2>1. Typed' BY <1>24 DEF Typed, CloseInsertQ, Step, runVars, xdpVars, dbVars, metricVars
  <2>2. Closings' BY <1>24 DEF Closings, CloseInsertQ, Step, runVars, xdpVars, dbVars, metricVars
  <2>3. Quiet' BY <1>24 DEF Typed, Closings, Quiet, CloseInsertQ, Step, runVars, xdpVars, dbVars, metricVars
  <2>4. WriterDone' BY <1>24 DEF Typed, Closings, Quiet, WriterDone, CloseInsertQ, Step, runVars, xdpVars, dbVars, metricVars
  <2>5. Known' BY <1>24 DEF Typed, Closings, Quiet, Known, CloseInsertQ, Step, runVars, xdpVars, dbVars, metricVars
  <2>6. FaultsCounted' BY <1>24, PipelineAssumption DEF Typed, FaultsCounted, CloseInsertQ, Step, runVars, xdpVars, dbVars, metricVars
  <2>7. QED BY <2>1, <2>2, <2>3, <2>4, <2>5, <2>6
<1>25. CASE CloseDB
  <2>1. Typed' BY <1>25 DEF Typed, CloseDB, Step, runVars, xdpVars, dbVars, metricVars
  <2>2. Closings' BY <1>25 DEF Closings, CloseDB, Step, runVars, xdpVars, dbVars, metricVars
  <2>3. Quiet' BY <1>25 DEF Typed, Closings, Quiet, CloseDB, Step, runVars, xdpVars, dbVars, metricVars
  <2>4. WriterDone' BY <1>25 DEF Typed, Closings, Quiet, WriterDone, CloseDB, Step, runVars, xdpVars, dbVars, metricVars
  <2>5. Known' BY <1>25 DEF Typed, Closings, Quiet, Known, CloseDB, Step, runVars, xdpVars, dbVars, metricVars
  <2>6. FaultsCounted' BY <1>25, PipelineAssumption DEF Typed, FaultsCounted, CloseDB, Step, runVars, xdpVars, dbVars, metricVars
  <2>7. QED BY <2>1, <2>2, <2>3, <2>4, <2>5, <2>6
<1>26. CASE Returned
  BY <1>26 DEF Typed, Closings, Quiet, WriterDone, Known, FaultsCounted, Returned, runVars, xdpVars, dbVars, metricVars, vars
<1>27. CASE UNCHANGED vars
  BY <1>27 DEF Typed, Closings, Quiet, WriterDone, Known, FaultsCounted, vars
<1>28. QED
  BY <1>1, <1>2, <1>3, <1>4, <1>5, <1>6, <1>7, <1>8, <1>9, <1>10, <1>11, <1>12, <1>13, <1>14, <1>15, <1>16, <1>17, <1>18, <1>19, <1>20, <1>21, <1>22, <1>23, <1>24, <1>25, <1>26, <1>27 DEF Next, WorkerStep, WriterStep, RunStep

\* Every step keeps the counted captures in one place.
LEMMA CountStep ==
    ASSUME Typed, CountInv, [Next]_vars
    PROVE  CountInv'
<1> USE DEF Typed, CountInv, CountedHandled, CountedOnce
<1>1. ASSUME NEW c \in Capture, Accept(c) PROVE CountInv'
  BY <1>1 DEF Accept, Move, metricVars
<1>2. ASSUME NEW c \in Capture, HandlerSubmit(c) PROVE CountInv'
  BY <1>2 DEF HandlerSubmit, Submit, Move, metricVars
<1>3. ASSUME NEW c \in Capture, ReadEvent(c) PROVE CountInv'
  BY <1>3 DEF ReadEvent, Move, metricVars
<1>4. ASSUME NEW c \in Capture, PumpEvent(c) PROVE CountInv'
  BY <1>4 DEF PumpEvent, Submit, Move, metricVars
<1>5. ASSUME NEW c \in Capture, Dequeue(c) PROVE CountInv'
  BY <1>5 DEF Dequeue, Move, metricVars
<1>6. ASSUME NEW c \in Capture, Insert(c) PROVE CountInv'
  BY <1>6 DEF Insert, Move, metricVars
<1>7. ASSUME NEW c \in Capture, Count(c) PROVE CountInv'
  BY <1>7 DEF Count, Move, metricVars
<1>8. ASSUME NEW c \in Capture, WriterReceive(c) PROVE CountInv'
  BY <1>8 DEF WriterReceive, metricVars
<1>9. CASE ReaderExit
  BY <1>9 DEF ReaderExit, metricVars, vars
<1>10. CASE PumpExit
  BY <1>10 DEF PumpExit, metricVars, vars
<1>11. CASE WriterEmpty
  BY <1>11 DEF WriterEmpty, metricVars, vars
<1>12. CASE FlushBatch
  BY <1>12 DEF FlushBatch, Batch, Saving, metricVars, vars
<1>13. CASE LoopTake
  BY <1>13 DEF LoopTake, FlushTake, metricVars, vars
<1>14. CASE LoopWrite
  BY <1>14 DEF LoopWrite, FlushWrite, metricVars, vars
<1>15. CASE Cancel
  BY <1>15 DEF Cancel, metricVars, vars
<1>16. CASE CloseListeners
  BY <1>16 DEF CloseListeners, metricVars, vars
<1>17. CASE ServeReturn
  BY <1>17 DEF ServeReturn, Step, metricVars, vars
<1>18. CASE BackgroundDone
  BY <1>18 DEF BackgroundDone, Step, metricVars, vars
<1>19. CASE StopEBPF
  BY <1>19 DEF StopEBPF, Step, metricVars, vars
<1>20. CASE CloseQueue
  BY <1>20 DEF CloseQueue, Step, metricVars, vars
<1>21. CASE WorkersDone
  BY <1>21 DEF WorkersDone, Step, In, Busy, metricVars, vars
<1>22. CASE MetricsTake
  BY <1>22 DEF MetricsTake, FlushTake, Step, metricVars, vars
<1>23. CASE MetricsWrite
  BY <1>23 DEF MetricsWrite, FlushWrite, metricVars, vars
<1>24. CASE CloseInsertQ
  BY <1>24 DEF CloseInsertQ, Step, metricVars, vars
<1>25. CASE CloseDB
  BY <1>25 DEF CloseDB, Step, metricVars, vars
<1>26. CASE Returned
  BY <1>26 DEF Returned, metricVars, vars
<1>27. CASE UNCHANGED vars
  BY <1>27 DEF vars
<1>28. QED
  BY <1>1, <1>2, <1>3, <1>4, <1>5, <1>6, <1>7, <1>8, <1>9, <1>10, <1>11, <1>12, <1>13, <1>14, <1>15, <1>16, <1>17, <1>18, <1>19, <1>20, <1>21, <1>22, <1>23, <1>24, <1>25, <1>26, <1>27 DEF Next, WorkerStep, WriterStep, RunStep

\* The two invariants of shutdown hold throughout.
LEMMA DrainInvariant == Spec => []DrainInv
<1>1. Init => DrainInv
  BY PipelineAssumption DEF Init, DrainInv, Typed, Closings, Quiet, WriterDone, Known, FaultsCounted
<1>2. QED
  BY <1>1, DrainStep, PTL DEF Spec

-----------------------------------------------------------------------------
\* The order in which App.Run closes things never lets a worker send on the closed
\* insertQ, nor the writer use a closed handle, for any number of workers and captures.
THEOREM NeverSendsOnClosed == Spec => []NoSendOnClosed
<1>1. DrainInv => NoSendOnClosed
  BY DEF DrainInv, Typed, Closings, Quiet, WriterDone, Known, NoSendOnClosed, Saving, In, Busy
<1>2. QED
  BY <1>1, DrainInvariant, PTL

\* When App.Run returns, the database is done with every capture the workers processed,
\* whatever the queue sizes.
THEOREM ReturnsDrained == Spec => []DrainedAtReturn
<1>1. DrainInv => DrainedAtReturn
  BY DEF DrainInv, Typed, Closings, Quiet, WriterDone, Known, FaultsCounted, DrainedAtReturn,
         Saving, In, Busy
<1>2. QED
  BY <1>1, DrainInvariant, PTL

\* The flush loop and the last flush of Metrics.Close never count a capture twice.
THEOREM NeverCountedTwice == Spec => []CountedOnce
<1>1. Init => CountInv
  BY DEF Init, CountInv, CountedHandled, CountedOnce
<1>2. CountInv => CountedOnce
  BY DEF CountInv
<1>3. DrainInv => Typed
  BY DEF DrainInv
<1>4. QED
  BY <1>1, <1>2, <1>3, CountStep, DrainInvariant, PTL DEF Spec

-----------------------------------------------------------------------------
(* The pipeline implements the ledger *)

\* The fate of one capture follows from its place and from what the database did.
LEMMA FateValues ==
    ASSUME NEW p, NEW s
    PROVE  /\ p \in {"idle", "open", "eventCh"} => FateOf(p, s) = "new"
           /\ p \in {"queue", "insert"} => FateOf(p, s) = "pending"
           /\ p \in {"count", "handled"} /\ s = "row" => FateOf(p, s) = "stored"
           /\ p \in {"count", "handled"} /\ s \in {"overflow", "failed"} => FateOf(p, s) = "lost"
           /\ p \in {"count", "handled"} /\ s \in {"no", "insertQ", "batch", "panic"} => FateOf(p, s) = "pending"
           /\ p = "rejected" => FateOf(p, s) = "limited"
           /\ p \in {"lost", "skipped", "dropped", "late", "aborted"} => FateOf(p, s) = "refused"
BY DEF FateOf

\* A step that leaves every fate and the handle alone is a stutter of the ledger.
LEMMA FateStutter ==
    ASSUME \A c \in Capture : FateOf(at'[c], saved'[c]) = FateOf(at[c], saved[c]), dbOpen' = dbOpen
    PROVE  UNCHANGED L!ledgerVars
BY DEF L!ledgerVars, Fate

\* A step that moves one capture from one fate to another.
LEMMA FateMove ==
    ASSUME Typed, NEW c \in Capture, NEW place, at' = [at EXCEPT ![c] = place], saved' = saved
    PROVE  Fate' = [Fate EXCEPT ![c] = FateOf(place, saved[c])]
<1>1. \A x \in Capture : at'[x] = IF x = c THEN place ELSE at[x]
  BY DEF Typed
<1>2. \A x \in Capture : FateOf(at'[x], saved'[x]) = IF x = c THEN FateOf(place, saved[c])
                                                 ELSE FateOf(at[x], saved[x])
  BY <1>1
<1>3. Fate' = [x \in Capture |-> IF x = c THEN FateOf(place, saved[c]) ELSE FateOf(at[x], saved[x])]
  BY <1>2 DEF Fate
<1>4. QED
  BY <1>3 DEF Fate

-----------------------------------------------------------------------------
\* Every step of the pipeline is a step of the ledger or changes no fate.
LEMMA LedgerStep ==
    ASSUME DrainInv, DrainInv', [Next]_vars
    PROVE  [L!LedgerNext]_(L!ledgerVars)
<1> USE DEF DrainInv
<1> DEFINE Goal == [L!LedgerNext]_(L!ledgerVars)
<1>1. ASSUME NEW c \in Capture, Accept(c) PROVE Goal
  <2>1. \A x \in Capture : FateOf(at'[x], saved'[x]) = FateOf(at[x], saved[x])
    BY <1>1, FateValues DEF Typed, Accept, Move, dbVars
  <2>2. dbOpen' = dbOpen
    BY <1>1 DEF Accept, dbVars
  <2>3. QED
    BY <2>1, <2>2, FateStutter
<1>2. ASSUME NEW c \in Capture, Count(c) PROVE Goal
  <2>1. \A x \in Capture : FateOf(at'[x], saved'[x]) = FateOf(at[x], saved[x])
    BY <1>2, FateValues DEF Typed, Count, Move, dbVars
  <2>2. dbOpen' = dbOpen
    BY <1>2 DEF Count, dbVars
  <2>3. QED
    BY <2>1, <2>2, FateStutter
<1>3. ASSUME NEW c \in Capture, WriterReceive(c) PROVE Goal
  <2>1. \A x \in Capture : FateOf(at'[x], saved'[x]) = FateOf(at[x], saved[x])
    BY <1>3, FateValues DEF Typed, WriterReceive, dbVars
  <2>2. dbOpen' = dbOpen
    BY <1>3 DEF WriterReceive, dbVars
  <2>3. QED
    BY <2>1, <2>2, FateStutter
<1>4. ASSUME NEW c \in Capture, HandlerSubmit(c) PROVE Goal
  <2>1. PICK place \in {"late", "queue", "dropped", "aborted"} :
              /\ at' = [at EXCEPT ![c] = place]
              /\ place = "queue" => ~qclosed
    BY <1>4 DEF HandlerSubmit, Submit, Move
  <2>2. saved' = saved /\ dbOpen' = dbOpen /\ Fate[c] = "new"
    BY <1>4, FateValues DEF HandlerSubmit, dbVars, Fate
  <2>3. Fate' = [Fate EXCEPT ![c] = FateOf(place, saved[c])]
    BY <2>1, <2>2, FateMove
  <2>4. CASE place = "queue"
    <3>1. dbOpen
      BY <2>1, <2>4 DEF Typed, Closings
    <3>2. L!Take(c)
      BY <2>2, <2>3, <2>4, <3>1, FateValues DEF L!Take
    <3>3. QED
      BY <3>2 DEF L!LedgerNext
  <2>5. CASE place # "queue"
    <3>1. L!Refuse(c)
      BY <2>1, <2>2, <2>3, <2>5, FateValues DEF L!Refuse
    <3>2. QED
      BY <3>1 DEF L!LedgerNext
  <2>6. QED
    BY <2>4, <2>5
<1>5. ASSUME NEW c \in Capture, PumpEvent(c) PROVE Goal
  <2>1. PICK place \in {"late", "queue", "dropped", "skipped"} :
              /\ at' = [at EXCEPT ![c] = place]
              /\ place = "queue" => ~qclosed
    BY <1>5 DEF PumpEvent, Submit, Move
  <2>2. saved' = saved /\ dbOpen' = dbOpen /\ Fate[c] = "new"
    BY <1>5, FateValues DEF PumpEvent, dbVars, Fate
  <2>3. Fate' = [Fate EXCEPT ![c] = FateOf(place, saved[c])]
    BY <2>1, <2>2, FateMove
  <2>4. CASE place = "queue"
    <3>1. dbOpen
      BY <2>1, <2>4 DEF Typed, Closings
    <3>2. L!Take(c)
      BY <2>2, <2>3, <2>4, <3>1, FateValues DEF L!Take
    <3>3. QED
      BY <3>2 DEF L!LedgerNext
  <2>5. CASE place # "queue"
    <3>1. L!Refuse(c)
      BY <2>1, <2>2, <2>3, <2>5, FateValues DEF L!Refuse
    <3>2. QED
      BY <3>1 DEF L!LedgerNext
  <2>6. QED
    BY <2>4, <2>5
<1>6. ASSUME NEW c \in Capture, ReadEvent(c) PROVE Goal
  <2>1. PICK place \in {"eventCh", "lost"} : at' = [at EXCEPT ![c] = place]
    BY <1>6 DEF ReadEvent, Move
  <2>2. saved' = saved /\ dbOpen' = dbOpen /\ Fate[c] = "new"
    BY <1>6, FateValues DEF ReadEvent, dbVars, Fate
  <2>3. Fate' = [Fate EXCEPT ![c] = FateOf(place, saved[c])]
    BY <2>1, <2>2, FateMove
  <2>4. CASE place = "lost"
    <3>1. L!Refuse(c)
      BY <2>2, <2>3, <2>4, FateValues DEF L!Refuse
    <3>2. QED
      BY <3>1 DEF L!LedgerNext
  <2>5. CASE place = "eventCh"
    <3>1. \A x \in Capture : FateOf(at'[x], saved'[x]) = FateOf(at[x], saved[x])
      BY <1>6, <2>1, <2>2, <2>5, FateValues DEF Typed, ReadEvent
    <3>2. QED
      BY <2>2, <3>1, FateStutter
  <2>6. QED
    BY <2>1, <2>4, <2>5
<1>7. ASSUME NEW c \in Capture, Dequeue(c) PROVE Goal
  <2>1. dbOpen /\ dbOpen' = dbOpen
    BY <1>7 DEF Typed, Closings, Quiet, WriterDone, Dequeue, Move, dbVars, runVars
  <2>2. \A x \in Capture : \/ FateOf(at'[x], saved'[x]) = FateOf(at[x], saved[x])
                           \/ /\ FateOf(at[x], saved[x]) = "pending"
                              /\ FateOf(at'[x], saved'[x]) \in {"stored", "lost", "limited"}
    BY <1>7, FateValues DEF Typed, Closings, Quiet, Known, Dequeue, Move, dbVars
  <2>3. L!Settle
    BY <2>1, <2>2 DEF L!Settle, Fate
  <2>4. QED
    BY <2>3 DEF L!LedgerNext
<1>8. ASSUME NEW c \in Capture, Insert(c) PROVE Goal
  <2>1. dbOpen /\ dbOpen' = dbOpen
    BY <1>8 DEF Typed, Closings, Quiet, WriterDone, Insert, Move, dbVars, runVars
  <2>2. \A x \in Capture : \/ FateOf(at'[x], saved'[x]) = FateOf(at[x], saved[x])
                           \/ /\ FateOf(at[x], saved[x]) = "pending"
                              /\ FateOf(at'[x], saved'[x]) \in {"stored", "lost", "limited"}
    BY <1>8, FateValues DEF Typed, Closings, Quiet, Known, Insert, Move, dbVars
  <2>3. L!Settle
    BY <2>1, <2>2 DEF L!Settle, Fate
  <2>4. QED
    BY <2>3 DEF L!LedgerNext
<1>9. CASE FlushBatch
  <2>1. dbOpen /\ dbOpen' = dbOpen
    BY <1>9 DEF Typed, Closings, Quiet, WriterDone, FlushBatch, Batch, Saving, dbVars, runVars
  <2>2. \A x \in Capture : \/ FateOf(at'[x], saved'[x]) = FateOf(at[x], saved[x])
                           \/ /\ FateOf(at[x], saved[x]) = "pending"
                              /\ FateOf(at'[x], saved'[x]) \in {"stored", "lost", "limited"}
    <3>1. /\ at' = at
          /\ \A x \in Capture : \/ saved'[x] = saved[x]
                                \/ saved[x] = "batch" /\ saved'[x] \in {"row", "failed"}
      BY <1>9 DEF FlushBatch, Batch, Saving
    <3>2. QED
      BY <3>1, FateValues DEF Typed, Closings, Known
  <2>3. L!Settle
    BY <2>1, <2>2 DEF L!Settle, Fate
  <2>4. QED
    BY <2>3 DEF L!LedgerNext
<1>10. CASE ReaderExit
  BY <1>10, FateStutter DEF ReaderExit, dbVars, vars
<1>11. CASE PumpExit
  BY <1>11, FateStutter DEF PumpExit, dbVars, vars
<1>12. CASE WriterEmpty
  BY <1>12, FateStutter DEF WriterEmpty, dbVars, vars
<1>13. CASE LoopTake
  BY <1>13, FateStutter DEF LoopTake, FlushTake, dbVars, vars
<1>14. CASE LoopWrite
  BY <1>14, FateStutter DEF LoopWrite, FlushWrite, dbVars, vars
<1>15. CASE Cancel
  BY <1>15, FateStutter DEF Cancel, dbVars, vars
<1>16. CASE CloseListeners
  BY <1>16, FateStutter DEF CloseListeners, dbVars, vars
<1>17. CASE ServeReturn
  BY <1>17, FateStutter DEF ServeReturn, Step, dbVars, vars
<1>18. CASE BackgroundDone
  BY <1>18, FateStutter DEF BackgroundDone, Step, dbVars, vars
<1>19. CASE StopEBPF
  BY <1>19, FateStutter DEF StopEBPF, Step, dbVars, vars
<1>20. CASE CloseQueue
  BY <1>20, FateStutter DEF CloseQueue, Step, dbVars, vars
<1>21. CASE WorkersDone
  BY <1>21, FateStutter DEF WorkersDone, Step, In, Busy, dbVars, vars
<1>22. CASE MetricsTake
  BY <1>22, FateStutter DEF MetricsTake, FlushTake, Step, dbVars, vars
<1>23. CASE MetricsWrite
  BY <1>23, FateStutter DEF MetricsWrite, FlushWrite, dbVars, vars
<1>24. CASE CloseInsertQ
  BY <1>24, FateStutter DEF CloseInsertQ, Step, dbVars, vars
<1>25. CASE Returned
  BY <1>25, FateStutter DEF Returned, dbVars, vars
<1>26. CASE CloseDB
  <2>1. dbOpen /\ dbOpen' = FALSE /\ at' = at /\ saved' = saved
    BY <1>26 DEF CloseDB, Step, Closings
  <2>2. \A x \in Capture : FateOf(at[x], saved[x]) # "pending"
    BY <1>26, FateValues DEF CloseDB, Step, Typed, Quiet, WriterDone, Known
  <2>3. L!Close
    BY <2>1, <2>2 DEF L!Close, Fate
  <2>4. QED
    BY <2>3 DEF L!LedgerNext
<1>27. CASE UNCHANGED vars
  BY <1>27, FateStutter DEF vars
<1>28. QED
  BY <1>1, <1>2, <1>3, <1>4, <1>5, <1>6, <1>7, <1>8, <1>9, <1>10, <1>11, <1>12, <1>13, <1>14, <1>15, <1>16, <1>17, <1>18, <1>19, <1>20, <1>21, <1>22, <1>23, <1>24, <1>25, <1>26, <1>27 DEF Next, WorkerStep, WriterStep, RunStep

\* The pipeline keeps the ledger: what App.Submit takes is settled exactly once, and
\* EventDB.Close ends App.Run only when nothing taken is unsettled.
THEOREM PipelineKeepsLedger == Spec => ImplementsLedger
<1>1. Init => L!LedgerInit
  BY FateValues DEF Init, L!LedgerInit, Fate
<1>2. DrainInv /\ DrainInv' /\ [Next]_vars => [L!LedgerNext]_(L!ledgerVars)
  BY LedgerStep
<1>3. QED
  BY <1>1, <1>2, DrainInvariant, PTL DEF Spec, ImplementsLedger, L!LedgerSpec

-----------------------------------------------------------------------------
(* The export files *)

\* A line of the file.
LineRecords == [event : Nat, size : Nat]

\* s holds, in order and once each, the events from its first one to w, but those of g.
Contiguous(s, w, g) ==
    /\ s \in Seq(LineRecords) /\ w \in Nat /\ g \subseteq 1 .. w
    /\ \A i \in 1 .. Len(s) : s[i].event \in (1 .. w) \ g
    /\ \A i, j \in 1 .. Len(s) : i < j => s[i].event < s[j].event
    /\ \A e \in (1 .. w) \ g :
         s # <<>> /\ s[1].event <= e => \E i \in 1 .. Len(s) : s[i].event = e

\* What a reader of both files finds.
All == Content("path.1") \o Content("path")

\* The two files hold a run of consecutive events that ends with the last one written.
ExportInv ==
    /\ Content("path") \in Seq(LineRecords) /\ Content("path.1") \in Seq(LineRecords)
    /\ Contiguous(All, written, gaps)

\* A line that is appended is the newest.
LEMMA AppendLine ==
    ASSUME NEW s, NEW w, NEW g, Contiguous(s, w, g), NEW r \in LineRecords, r.event = w + 1
    PROVE  Contiguous(Append(s, r), w + 1, g)
<1> DEFINE t == Append(s, r)
<1>1. /\ t \in Seq(LineRecords) /\ Len(t) = Len(s) + 1 /\ Len(s) \in Nat /\ w \in Nat
      /\ t[Len(s) + 1] = r /\ \A i \in 1 .. Len(s) : t[i] = s[i]
  BY DEF Contiguous
<1>2. g \subseteq 1 .. (w + 1) /\ w + 1 \notin g
  BY DEF Contiguous
<1>3. \A i \in 1 .. Len(s) : t[i].event \in (1 .. w) \ g
  BY <1>1 DEF Contiguous
<1>4. \A i \in 1 .. Len(t) : t[i].event \in (1 .. (w + 1)) \ g
  BY <1>1, <1>2, <1>3
<1>5. ASSUME NEW i \in 1 .. Len(t), NEW j \in 1 .. Len(t), i < j
      PROVE  t[i].event < t[j].event
  <2>1. i \in 1 .. Len(s)
    BY <1>1, <1>5
  <2>2. CASE j = Len(s) + 1
    BY <1>1, <1>3, <2>1, <2>2
  <2>3. CASE j # Len(s) + 1
    <3>1. j \in 1 .. Len(s)
      BY <1>1, <2>3
    <3>2. QED
      BY <1>1, <1>5, <2>1, <3>1 DEF Contiguous
  <2>4. QED
    BY <2>2, <2>3
<1>6. ASSUME NEW e \in (1 .. (w + 1)) \ g, t[1].event <= e
      PROVE  \E i \in 1 .. Len(t) : t[i].event = e
  <2>1. CASE e = w + 1
    BY <1>1, <2>1
  <2>2. CASE e # w + 1
    <3>1. e \in (1 .. w) \ g
      BY <1>1, <2>2
    <3>2. s # <<>> /\ 1 \in 1 .. Len(s)
      <4>1. ASSUME s = <<>> PROVE FALSE
        BY <1>1, <1>6, <3>1, <4>1
      <4>2. QED
        BY <1>1, <4>1
    <3>3. PICK i \in 1 .. Len(s) : s[i].event = e
      BY <1>1, <1>6, <3>1, <3>2 DEF Contiguous
    <3>4. QED
      BY <1>1, <3>3
  <2>3. QED
    BY <2>1, <2>2
<1>7. w + 1 \in Nat
  BY <1>1
<1> HIDE DEF t
<1>8. Contiguous(t, w + 1, g)
  BY <1>1, <1>2, <1>4, <1>5, <1>6, <1>7 DEF Contiguous
<1>9. QED
  BY <1>8 DEF t

\* What a rotation leaves is the newer of the two files.
LEMMA DropOldFile ==
    ASSUME NEW a \in Seq(LineRecords), NEW b \in Seq(LineRecords), NEW w, NEW g,
           Contiguous(a \o b, w, g)
    PROVE  Contiguous(b, w, g)
<1> DEFINE s == a \o b
<1>1. /\ Len(a) \in Nat /\ Len(b) \in Nat /\ Len(s) = Len(a) + Len(b)
      /\ \A i \in 1 .. Len(b) : s[Len(a) + i] = b[i]
  OBVIOUS
<1>2. \A i \in 1 .. Len(b) : Len(a) + i \in 1 .. Len(s)
  BY <1>1
<1>3. Contiguous(s, w, g)
  OBVIOUS
<1> HIDE DEF s
<1>4. \A i \in 1 .. Len(b) : b[i].event \in (1 .. w) \ g
  BY <1>1, <1>2, <1>3 DEF Contiguous
<1>5. ASSUME NEW i \in 1 .. Len(b), NEW j \in 1 .. Len(b), i < j
      PROVE  b[i].event < b[j].event
  <2>1. Len(a) + i < Len(a) + j
    BY <1>1, <1>5
  <2>2. s[Len(a) + i].event < s[Len(a) + j].event
    BY <1>2, <1>3, <2>1 DEF Contiguous
  <2>3. QED
    BY <1>1, <2>2
<1>6. ASSUME NEW e \in (1 .. w) \ g, b # <<>>, b[1].event <= e
      PROVE  \E i \in 1 .. Len(b) : b[i].event = e
  <2>1. /\ 1 \in 1 .. Len(b) /\ s # <<>> /\ 1 \in 1 .. Len(s) /\ s[Len(a) + 1] = b[1]
        /\ Len(a) + 1 \in 1 .. Len(s)
    <3>1. 1 \in 1 .. Len(b)
      BY <1>1, <1>6
    <3>2. Len(s) # 0
      BY <1>1, <3>1
    <3>3. QED
      BY <1>1, <1>2, <3>1, <3>2
  <2>2. s[1].event <= s[Len(a) + 1].event /\ s[1].event \in Nat /\ w \in Nat /\ b[1].event \in Nat
    <3>1. s[1].event \in Nat /\ w \in Nat /\ b[1].event \in Nat
      BY <1>3, <1>4, <2>1 DEF Contiguous
    <3>2. CASE Len(a) = 0
      BY <3>1, <3>2
    <3>3. CASE Len(a) # 0
      <4>1. 1 < Len(a) + 1
        BY <1>1, <3>3
      <4>2. s[1].event < s[Len(a) + 1].event
        BY <1>3, <2>1, <4>1 DEF Contiguous
      <4>3. QED
        BY <2>1, <3>1, <4>2
    <3>4. QED
      BY <3>1, <3>2, <3>3
  <2>3. s[1].event <= e
    BY <1>6, <2>1, <2>2
  <2>4. PICK i \in 1 .. Len(s) : s[i].event = e
    BY <1>3, <1>6, <2>1, <2>3 DEF Contiguous
  <2>5. ~(i < Len(a) + 1)
    <3>1. ASSUME i < Len(a) + 1 PROVE FALSE
      <4>1. s[i].event < s[Len(a) + 1].event
        BY <1>3, <2>1, <2>4, <3>1 DEF Contiguous
      <4>2. QED
        BY <1>6, <2>1, <2>2, <2>4, <4>1
    <3>2. QED
      BY <3>1
  <2>6. i - Len(a) \in 1 .. Len(b) /\ s[i] = b[i - Len(a)]
    <3>1. i - Len(a) \in 1 .. Len(b) /\ Len(a) + (i - Len(a)) = i
      BY <1>1, <2>4, <2>5
    <3>2. QED
      BY <1>1, <3>1
  <2>7. QED
    BY <2>4, <2>6
<1>7. QED
  BY <1>3, <1>4, <1>5, <1>6 DEF Contiguous

\* An event that is dropped is a gap.
LEMMA DropEvent ==
    ASSUME NEW s, NEW w, NEW g, Contiguous(s, w, g)
    PROVE  Contiguous(s, w + 1, g \cup {w + 1})
<1>1. /\ w \in Nat /\ w + 1 \in Nat /\ g \subseteq 1 .. w
      /\ (1 .. (w + 1)) \ (g \cup {w + 1}) = (1 .. w) \ g
      /\ g \cup {w + 1} \subseteq 1 .. (w + 1)
  BY DEF Contiguous
<1>2. QED
  BY <1>1 DEF Contiguous

\* The lines a Write can add, and files as sequences of lines.
LEMMA LineTyped ==
    ASSUME NEW n \in LineSize, written \in Nat
    PROVE  Line(n) \in LineRecords /\ Line(n).event = written + 1
BY ExportAssumption DEF Line, LineRecords

\* Every call of Write, every way it fails, and every end of the process keep the invariant.
LEMMA ExportStep ==
    ASSUME ExportInv, [ExportNext]_exportVars
    PROVE  ExportInv'
<1> DEFINE A == Content("path.1")
           B == Content("path")
<1>1. A \in Seq(LineRecords) /\ B \in Seq(LineRecords) /\ Contiguous(A \o B, written, gaps)
      /\ written \in Nat
  BY DEF ExportInv, All, Contiguous
<1>2. ASSUME UNCHANGED <<A, B>>, UNCHANGED <<written, gaps>> PROVE ExportInv'
  BY <1>1, <1>2 DEF ExportInv, All
<1>3. ASSUME UNCHANGED <<A, B>>, written' = written + 1, Dropped PROVE ExportInv'
  <2>1. Contiguous(A \o B, written', gaps')
    BY <1>1, <1>3, DropEvent DEF Dropped
  <2>2. QED
    BY <1>1, <1>3, <2>1 DEF ExportInv, All
<1>4. CASE open
  <2>1. A' = A /\ B' = B
    BY <1>4 DEF open, Put, Content
  <2>2. QED
    BY <1>2, <1>4, <2>1 DEF open
<1>5. CASE CloseExport \/ UNCHANGED exportVars
  <2>1. UNCHANGED <<A, B>> /\ UNCHANGED <<written, gaps>>
    BY <1>5 DEF CloseExport, exportVars, Content
  <2>2. QED
    BY <1>2, <2>1
<1>6. ASSUME NEW n \in LineSize, WriteLine(n) PROVE ExportInv'
  <2>1. CASE Dropped /\ UNCHANGED lines
    <3>1. UNCHANGED <<A, B>>
      BY <2>1 DEF Content
    <3>2. QED
      BY <1>3, <1>6, <2>1, <3>1 DEF WriteLine
  <2>2. CASE lines' = Put("path", Append(B, Line(n))) /\ UNCHANGED gaps
    <3>1. A' = A /\ B' = Append(B, Line(n))
      BY <2>2 DEF Put, Content
    <3>2. Line(n) \in LineRecords /\ Line(n).event = written + 1
      BY <1>1, LineTyped
    <3> HIDE DEF A, B
    <3>3. A \o Append(B, Line(n)) = Append(A \o B, Line(n)) /\ Append(B, Line(n)) \in Seq(LineRecords)
      BY <1>1, <3>2
    <3>4. Contiguous(A' \o B', written', gaps')
      BY <1>1, <1>6, <2>2, <3>1, <3>2, <3>3, AppendLine DEF WriteLine
    <3>5. QED
      BY <1>1, <3>1, <3>3, <3>4 DEF ExportInv, All, A, B
  <2>3. QED
    BY <1>6, <2>1, <2>2 DEF WriteLine
<1>7. ASSUME NEW n \in LineSize, WriteRotating(n) PROVE ExportInv'
  <2>1. CASE Dropped /\ UNCHANGED lines
    <3>1. UNCHANGED <<A, B>>
      BY <2>1 DEF Content
    <3>2. QED
      BY <1>3, <1>7, <2>1, <3>1 DEF WriteRotating
  <2>2. CASE /\ lines' = [p \in {"path", "path.1"} |-> IF p = "path" THEN <<Line(n)>> ELSE B]
             /\ UNCHANGED gaps
    <3>1. A' = B /\ B' = <<Line(n)>>
      BY <2>2 DEF Content
    <3>2. Line(n) \in LineRecords /\ Line(n).event = written + 1
      BY <1>1, LineTyped
    <3> HIDE DEF A, B
    <3>3. B \o <<Line(n)>> = Append(B, Line(n)) /\ <<Line(n)>> \in Seq(LineRecords)
      BY <1>1, <3>2
    <3>4. Contiguous(B, written, gaps)
      BY <1>1, DropOldFile
    <3>5. Contiguous(A' \o B', written', gaps')
      BY <1>7, <2>2, <3>1, <3>2, <3>3, <3>4, AppendLine DEF WriteRotating
    <3>6. QED
      BY <1>1, <3>1, <3>3, <3>5 DEF ExportInv, All, A, B
  <2>3. CASE Dropped /\ lines' = [p \in {"path.1"} |-> B]
    <3>1. A' = B /\ B' = <<>>
      BY <2>3 DEF Content
    <3> HIDE DEF A, B
    <3>2. Contiguous(B, written', gaps')
      BY <1>1, <1>7, <2>3, DropOldFile, DropEvent DEF WriteRotating, Dropped
    <3>3. B \o <<>> = B /\ <<>> \in Seq(LineRecords)
      BY <1>1
    <3>4. QED
      BY <1>1, <3>1, <3>2, <3>3 DEF ExportInv, All, A, B
  <2>4. QED
    BY <1>7, <2>1, <2>2, <2>3 DEF WriteRotating
<1>8. QED
  BY <1>4, <1>5, <1>6, <1>7 DEF ExportNext, Write

\* The events of a contiguous sequence are what the export promises.
LEMMA InvGivesContiguous == ExportInv => ExportContiguous
<1>1. SUFFICES ASSUME ExportInv PROVE ExportContiguous
  OBVIOUS
<1>2. Contiguous(All, written, gaps)
  BY <1>1 DEF ExportInv
<1>3. Exported = [i \in 1 .. Len(All) |-> All[i].event]
  BY DEF Exported, All
<1>4. All \in Seq(LineRecords) /\ Len(All) \in Nat
  BY <1>2 DEF Contiguous
<1>5. /\ Exported \in Seq(Nat) /\ Len(Exported) = Len(All) /\ DOMAIN Exported = 1 .. Len(All)
      /\ \A i \in 1 .. Len(All) : Exported[i] = All[i].event
  <2>1. \A i \in 1 .. Len(All) : All[i].event \in Nat
    BY <1>2 DEF Contiguous
  <2>2. Exported \in [1 .. Len(All) -> Nat]
    BY <1>3, <2>1
  <2>3. QED
    BY <1>3, <1>4, <2>2
<1>6. ASSUME NEW i \in 2 .. Len(Exported) PROVE Exported[i - 1] < Exported[i]
  <2>1. i - 1 \in 1 .. Len(All) /\ i \in 1 .. Len(All) /\ i - 1 < i
    BY <1>4, <1>5
  <2>2. All[i - 1].event < All[i].event
    BY <1>2, <2>1 DEF Contiguous
  <2>3. QED
    BY <1>5, <2>1, <2>2
<1>7. ASSUME Exported # <<>>
      PROVE  (Exported[1] .. written) \ gaps = Range(Exported)
  <2>1. 1 \in 1 .. Len(All) /\ All # <<>>
    BY <1>4, <1>5, <1>7
  <2>2. ASSUME NEW e \in (Exported[1] .. written) \ gaps PROVE e \in Range(Exported)
    <3>1. e \in (1 .. written) \ gaps /\ All[1].event <= e
      BY <1>2, <1>5, <2>1, <2>2 DEF Contiguous
    <3>2. PICK i \in 1 .. Len(All) : All[i].event = e
      BY <1>2, <2>1, <3>1 DEF Contiguous
    <3>3. QED
      BY <1>5, <3>2 DEF Range
  <2>3. ASSUME NEW i \in 1 .. Len(All) PROVE Exported[i] \in (Exported[1] .. written) \ gaps
    <3>1. All[i].event \in (1 .. written) \ gaps /\ All[1].event \in 1 .. written /\ written \in Nat
      BY <1>2, <2>1 DEF Contiguous
    <3>2. All[1].event <= All[i].event
      BY <1>2, <1>4, <2>1, <3>1 DEF Contiguous
    <3>3. QED
      BY <1>5, <2>1, <3>1, <3>2
  <2>4. QED
    BY <1>5, <2>2, <2>3 DEF Range
<1>8. QED
  BY <1>6, <1>7 DEF ExportContiguous

\* Across rotations, failed rotations and restarts the two files hold the newest events in
\* order, once each, without a gap but those of calls that failed.
THEOREM ExportContiguousTheorem == ExportSpec => []ExportContiguous
<1>1. ExportInit => ExportInv
  <2>1. SUFFICES ASSUME ExportInit PROVE ExportInv
    OBVIOUS
  <2>2. Content("path") = <<>> /\ Content("path.1") = <<>> /\ written = 0 /\ gaps = {}
    BY <2>1 DEF ExportInit, Content
  <2>3. <<>> \in Seq(LineRecords) /\ <<>> \o <<>> = <<>> /\ Len(<<>>) = 0
    OBVIOUS
  <2>4. Contiguous(<<>>, 0, {})
    BY <2>3 DEF Contiguous
  <2>5. QED
    BY <2>2, <2>3, <2>4 DEF ExportInv, All
<1>2. QED
  BY <1>1, ExportStep, InvGivesContiguous, PTL DEF ExportSpec

=============================================================================
