------------------------------- MODULE Kernel -------------------------------
(***************************************************************************)
(* The XDP side: ebpf.Manager (Start, Stop, Ban, Unban, ReloadAllowFile,   *)
(* the perf reader), the XDP program that decides each packet from the     *)
(* maps, and the pump of internal/app that turns observed packets into     *)
(* events unless a Go listener reports them.  A packet is a new connection *)
(* from an address to a port, sent once.                                   *)
(***************************************************************************)
EXTENDS Naturals, Sequences, FiniteSets, Functions

CONSTANTS
    Addr,         \* source addresses
    Listened,     \* ports in services.ListenedPorts
    Bound,        \* those of them whose Go listener could bind
    OtherPorts,   \* ports without a listener
    MgmtPorts,    \* management ports
    Packets,      \* the packets that arrive: records [id, src, port]
    PerfMax,      \* capacity of the perf buffer
    ChMax,        \* capacity of EventCh
    KMaxTime,     \* bound on the clock
    MaxEdits      \* bound on changes of the allow file, bans and reloads

ASSUME KernelAssumption ==
    /\ Bound \subseteq Listened /\ Listened \cap OtherPorts = {}
    /\ {PerfMax, ChMax} \subseteq Nat \ {0} /\ {KMaxTime, MaxEdits} \subseteq Nat

VARIABLES
    kNow,      \* bpf_ktime_get_ns, in ticks
    active,    \* Manager.active
    attached,  \* the XDP program is on the interface
    allowMap,  \* mgmt_allow_ips_map
    banMap,    \* ban_map: set of [src, port, until]
    allowFile, \* the allow file: {set of addresses}, or {} when it can not be read
    reload,    \* ReloadAllowFile: "idle", "cleared" or "loading"
    toPut,     \* the addresses it still has to put
    lastLoad,  \* (history) what the last load was to put, or {} after a failure
    perf,      \* the perf buffer
    ch,        \* EventCh
    reader,    \* startEventReader: "off", "run", "done"
    pump,      \* pumpEBPF: "run", "done"
    fate,      \* (history) what became of each packet
    byPump,    \* (history) packets submitted by the pump
    byListener,\* (history) packets that reached a listener, which reports them
    kDone,     \* the context of pumpEBPF is cancelled
    edits

kernelVars == <<kNow, active, attached, allowMap, banMap, allowFile, reload, toPut, lastLoad, perf, ch,
                reader, pump, fate, byPump, byListener, kDone, edits>>
mapVars == <<allowMap, banMap, allowFile, reload, toPut, lastLoad, edits>>
flowVars == <<kDone, perf, ch, reader, pump, fate, byPump, byListener>>

KernelInit ==
    /\ kNow = 0 /\ active = FALSE /\ attached = FALSE
    /\ allowMap = {} /\ banMap = {} /\ allowFile = {{}} /\ reload = "idle" /\ toPut = {}
    /\ lastLoad = {}
    /\ perf = <<>> /\ ch = <<>> /\ reader = "off" /\ pump = "run"
    /\ fate = [p \in Packets |-> "unsent"] /\ byPump = {} /\ byListener = {}
    /\ kDone = FALSE /\ edits = 0

-----------------------------------------------------------------------------
(* ebpf.Manager *)

\* loadAllowFile at start: a file that can not be read is not fatal.  Any other failure
\* closes the objects again and leaves the manager inactive for good.
StartXDP ==
    /\ reader = "off" /\ ~active /\ ~kDone
    /\ active' = TRUE /\ attached' = TRUE /\ reader' = "run"
    /\ allowMap' = UNION allowFile /\ lastLoad' = UNION allowFile
    /\ UNCHANGED <<kNow, banMap, allowFile, reload, toPut, perf, ch, pump, fate, byPump, byListener, kDone, edits>>

\* Stop: active is swapped, the reader closed, the program detached, the maps dropped.  Run
\* calls it once the pump has returned; a reload under way fails at its next map operation.
StopXDP ==
    /\ kDone /\ pump = "done" /\ active
    /\ active' = FALSE /\ attached' = FALSE /\ perf' = <<>>
    /\ allowMap' = {} /\ banMap' = {} /\ lastLoad' = {} /\ reload' = "idle" /\ toPut' = {}
    /\ UNCHANGED <<kNow, allowFile, ch, reader, pump, fate, byPump, byListener, kDone, edits>>

\* Ban puts or refreshes an entry that ends at the uptime plus the duration.
Ban(src, port) ==
    /\ active /\ edits < MaxEdits /\ edits' = edits + 1
    /\ \E d \in 1..2 : banMap' = {b \in banMap : b.src # src \/ b.port # port}
                                 \cup {[src |-> src, port |-> port, until |-> kNow + d]}
    /\ UNCHANGED <<kNow, active, attached, allowMap, allowFile, reload, toPut, lastLoad, flowVars>>

Unban(src, port) ==
    /\ active
    /\ banMap' = {b \in banMap : b.src # src \/ b.port # port}
    /\ UNCHANGED <<kNow, active, attached, allowMap, allowFile, reload, toPut, lastLoad, edits, flowVars>>

\* The operator changes or removes the allow file.
EditFile ==
    /\ edits < MaxEdits /\ edits' = edits + 1
    /\ allowFile' \in {{}} \cup {{s} : s \in SUBSET Addr}
    /\ UNCHANGED <<kNow, active, attached, allowMap, banMap, reload, toPut, lastLoad, flowVars>>

\* clearMap.
clearMap == allowMap' = {}

\* ReloadAllowFile clears the map, then opens the file and puts its addresses one by one;
\* packets are decided in between.
ReloadAllowFile ==
    /\ active /\ reload = "idle"
    /\ edits < MaxEdits /\ edits' = edits + 1
    /\ clearMap
    /\ reload' = "cleared"
    /\ UNCHANGED <<kNow, active, attached, banMap, allowFile, toPut, lastLoad, flowVars>>

OpenFile ==
    /\ reload = "cleared"
    /\ lastLoad' = UNION allowFile /\ toPut' = UNION allowFile
    /\ reload' = IF UNION allowFile = {} THEN "idle" ELSE "loading"
    /\ UNCHANGED <<kNow, active, attached, allowMap, banMap, allowFile, edits, flowVars>>

PutAddr ==
    /\ reload = "loading"
    /\ \E a \in toPut :
         /\ allowMap' = allowMap \cup {a}
         /\ toPut' = toPut \ {a}
         /\ reload' = IF toPut = {a} THEN "idle" ELSE "loading"
    /\ UNCHANGED <<kNow, active, attached, banMap, allowFile, lastLoad, edits, flowVars>>

-----------------------------------------------------------------------------
(* xdp_capture, the listener, the perf reader and the pump *)

\* Plausible bug: the end of a ban is not looked at.
BannedForever(p) == \E b \in banMap : b.src = p.src /\ b.port = p.port

isBanned(p) == \E b \in banMap : b.src = p.src /\ b.port = p.port /\ kNow < b.until

\* Management ports and addresses bypass bans and events.
verdict(p) ==
    IF ~attached \/ p.port \in MgmtPorts \/ p.src \in allowMap THEN "silent"
    ELSE IF isBanned(p) THEN "drop" ELSE "pass"

Packet(p) ==
    /\ fate[p] = "unsent"
    /\ fate' = [fate EXCEPT ![p] = verdict(p)]
    /\ perf' = IF verdict(p) # "silent" /\ Len(perf) < PerfMax THEN Append(perf, p) ELSE perf
    /\ byListener' = IF verdict(p) # "drop" /\ p.port \in Bound THEN byListener \cup {p}
                     ELSE byListener
    /\ UNCHANGED <<kNow, active, attached, mapVars, kDone, ch, reader, pump, byPump>>

\* startEventReader hands an event on without blocking; it ends and closes the channel
\* when Stop has closed the reader, or on any other read error.
ReadEvent ==
    /\ reader = "run" /\ perf # <<>>
    /\ perf' = Tail(perf)
    /\ ch' = IF Len(ch) < ChMax THEN Append(ch, Head(perf)) ELSE ch
    /\ UNCHANGED <<kNow, active, attached, mapVars, kDone, reader, pump, fate, byPump, byListener>>

ReaderEnds ==
    /\ reader = "run" /\ ~active
    /\ reader' = "done"
    /\ UNCHANGED <<kNow, active, attached, mapVars, kDone, perf, ch, pump, fate, byPump, byListener>>

ReaderFails ==
    /\ reader = "run" /\ edits < MaxEdits /\ edits' = edits + 1
    /\ reader' = "done"
    /\ UNCHANGED <<kNow, active, attached, allowMap, banMap, allowFile, reload, toPut, lastLoad, kDone, perf, ch,
                   pump, fate, byPump, byListener>>

\* Plausible bug: only dropped packets are left out.
SkipDropped(p) == fate[p] = "drop"

\* Dropped packets, and those of ports with a Go listener, are left to others.
skipped(p) == fate[p] = "drop" \/ p.port \in Listened

\* One event taken from EventCh by pumpEBPF.
PumpEvent ==
    /\ pump = "run" /\ ch # <<>>
    /\ ch' = Tail(ch)
    /\ byPump' = IF skipped(Head(ch)) THEN byPump ELSE byPump \cup {Head(ch)}
    /\ UNCHANGED <<kNow, active, attached, mapVars, kDone, perf, reader, pump, fate, byListener>>

\* Plausible bug: the pump stops with the reader, whatever is left in the channel.
PumpEndsEarly ==
    /\ pump = "run" /\ (kDone \/ reader = "done")
    /\ pump' = "done"
    /\ UNCHANGED <<kNow, active, attached, mapVars, kDone, perf, ch, reader, fate, byPump, byListener>>

\* The channel is closed and empty, or the context is done.
PumpEnds ==
    /\ pump = "run" /\ (kDone \/ (reader = "done" /\ ch = <<>>))
    /\ pump' = "done"
    /\ UNCHANGED <<kNow, active, attached, mapVars, kDone, perf, ch, reader, fate, byPump, byListener>>

KCancel ==
    /\ ~kDone /\ kDone' = TRUE
    /\ UNCHANGED <<kNow, active, attached, mapVars, perf, ch, reader, pump, fate, byPump, byListener>>

KTick ==
    /\ kNow < KMaxTime /\ kNow' = kNow + 1
    /\ UNCHANGED <<active, attached, mapVars, flowVars>>

KernelNext ==
    \/ StartXDP \/ StopXDP \/ EditFile \/ ReloadAllowFile \/ OpenFile \/ PutAddr
    \/ \E p \in Packets : Packet(p) \/ Ban(p.src, p.port) \/ Unban(p.src, p.port)
    \/ ReadEvent \/ ReaderEnds \/ ReaderFails \/ PumpEvent \/ PumpEnds \/ KCancel \/ KTick

\* The perf reader and the pump run whenever they can.
KernelPrompt == ReadEvent \/ ReaderEnds \/ PumpEvent \/ PumpEnds

KernelSpec == KernelInit /\ [][KernelNext]_kernelVars /\ WF_kernelVars(KernelPrompt)

-----------------------------------------------------------------------------
\* A packet is dropped only while a ban of its address and port runs, and never if its
\* source is in the allow file as last loaded, save while a reload is refilling the map.
DropStep == \A p \in Packets :
    fate[p] = "unsent" /\ fate'[p] = "drop" =>
       /\ p.src \notin lastLoad \/ reload # "idle"
       /\ \E b \in banMap : b.src = p.src /\ b.port = p.port /\ b.until > kNow

DropsJustified == [][DropStep]_kernelVars

\* No connection is reported twice: what a listener reports the pump leaves out.
ReportedOnce == byPump \cap byListener = {}

\* A connection that the program passed and whose event reached EventCh is reported by
\* the pump if no listener is configured for its port, even after the reader has failed,
\* unless the server stops first.
ObservedReported == \A p \in Packets :
    (p \in Range(ch) /\ fate[p] = "pass" /\ p.port \in OtherPorts) ~> (p \in byPump \/ kDone)

=============================================================================
