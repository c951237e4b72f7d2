------------------------------- MODULE Export -------------------------------
(***************************************************************************)
(* internal/app/export.go: the JSONL export.  Events are numbered in the   *)
(* order of the calls of Write, which hold the lock; an event has a size,  *)
(* its line length.  The two files survive a restart, and a file is the    *)
(* sequence of the events in it.                                           *)
(***************************************************************************)
EXTENDS Naturals, Sequences, Functions

CONSTANTS
    LineSize,    \* the sizes of events
    MaxBytes,
    MaxWrites,   \* bound on the calls of Write
    MaxIOFaults  \* bound on the failed system calls and the ends of the process

ASSUME ExportAssumption ==
    /\ LineSize \subseteq Nat \ {0} /\ MaxBytes \in Nat \ {0}
    /\ {MaxWrites, MaxIOFaults} \subseteq Nat

VARIABLES
    lines,    \* path -> the lines of the file there; a missing file is not in the domain
    exporter, \* "closed", "open", "broken" (bufio keeps its first error), "rotating" (the
              \* file is closed and its name was not freed), "stuck" (renamed, not reopened)
    size,     \* exporter.size
    written,  \* calls of Write so far
    ioFaults,
    gaps      \* ghost: events that were dropped

exportVars == <<lines, exporter, size, written, ioFaults, gaps>>

ExportInit ==
    /\ lines = [p \in {} |-> <<>>] /\ exporter = "closed" /\ size = 0
    /\ written = 0 /\ ioFaults = 0 /\ gaps = {}

Content(p) == IF p \in DOMAIN lines THEN lines[p] ELSE <<>>

Bytes(s) == SumFunction([i \in DOMAIN s |-> s[i].size])

IOFault == ioFaults < MaxIOFaults /\ ioFaults' = ioFaults + 1

\* lines with the file at path p replaced.
Put(p, s) == [q \in DOMAIN lines \cup {p} |-> IF q = p THEN s ELSE lines[q]]

\* Plausible bug: O_TRUNC instead of O_APPEND.
openTruncated ==
    /\ exporter = "closed"
    /\ lines' = Put("path", <<>>) /\ size' = 0 /\ exporter' = "open"
    /\ UNCHANGED <<written, ioFaults, gaps>>

\* newExporter in a new process: the file is appended to.
open ==
    /\ exporter = "closed"
    /\ lines' = Put("path", Content("path")) /\ size' = Bytes(Content("path"))
    /\ exporter' = "open"
    /\ UNCHANGED <<written, ioFaults, gaps>>

fits(n) == size + n <= MaxBytes

Line(n) == [event |-> written + 1, size |-> n]

Dropped == gaps' = gaps \cup {written + 1}

\* Write of an event that fits: appended and flushed, or lost with an error that bufio
\* returns again until the next rotation (the line it tore is not told from a missing
\* one).  After a failed rotation the file is closed, and every write is lost.
WriteLine(n) ==
    /\ fits(n) /\ written' = written + 1
    /\ \/ /\ exporter = "open"
          /\ lines' = Put("path", Append(Content("path"), Line(n)))
          /\ size' = size + n
          /\ UNCHANGED <<exporter, ioFaults, gaps>>
       \/ /\ exporter = "open" /\ IOFault /\ Dropped
          /\ exporter' = "broken" /\ size' = size + n /\ UNCHANGED lines
       \/ /\ exporter # "open" /\ Dropped
          /\ size' \in {size + 1, size + n} /\ UNCHANGED <<lines, exporter, ioFaults>>

\* Write of an event that does not fit: rotate, then the event opens the new file.  An
\* event is dropped when the rename or the open fails; after a failed open the name is
\* missing, so every later rename fails too.
WriteRotating(n) ==
    /\ ~fits(n) /\ written' = written + 1
    /\ \/ /\ exporter # "stuck"
          /\ lines' = [p \in {"path", "path.1"} |->
                         IF p = "path" THEN <<Line(n)>> ELSE Content("path")]
          /\ size' = n /\ exporter' = "open" /\ UNCHANGED <<ioFaults, gaps>>
       \/ /\ exporter # "stuck" /\ IOFault /\ Dropped
          /\ exporter' = "rotating" /\ UNCHANGED <<lines, size>>
       \/ /\ exporter # "stuck" /\ IOFault /\ Dropped
          /\ lines' = [p \in {"path.1"} |-> Content("path")]
          /\ exporter' = "stuck" /\ UNCHANGED size
       \/ /\ exporter = "stuck" /\ Dropped
          /\ UNCHANGED <<lines, size, exporter, ioFaults>>

Write(n) ==
    /\ exporter # "closed" /\ written < MaxWrites
    /\ WriteLine(n) \/ WriteRotating(n)

\* Close, or a crash of the process; every line has been flushed.
CloseExport ==
    /\ exporter # "closed" /\ exporter' = "closed" /\ IOFault
    /\ UNCHANGED <<lines, size, written, gaps>>

ExportNext == open \/ CloseExport \/ \E n \in LineSize : Write(n)

ExportSpec == ExportInit /\ [][ExportNext]_exportVars

-----------------------------------------------------------------------------
Exported == [i \in 1 .. Len(Content("path.1") \o Content("path")) |->
                (Content("path.1") \o Content("path"))[i].event]

\* "appends every event as one JSON object per line": across rotations, failed rotations
\* and restarts, the two files read one after the other are the newest events in order,
\* without a duplicate, and with no gap but the events dropped by a call that failed.
ExportContiguous ==
    /\ \A i \in 2 .. Len(Exported) : Exported[i - 1] < Exported[i]
    /\ Exported # <<>> => (Exported[1] .. written) \ gaps = Range(Exported)

=============================================================================
