---------------------------- MODULE ScanTracker ----------------------------
(***************************************************************************)
(* internal/ratelimit/scanner.go: detection of port scanners.  The entries  *)
(* of different source addresses are independent, so the module follows    *)
(* one.  Record, ActiveScanners and the sweep read the clock before they   *)
(* take the lock, so a call may run with a time that is already past.      *)
(* Time 0 is Go's zero time; the clock starts later.                       *)
(***************************************************************************)
EXTENDS Naturals, FiniteSets

CONSTANTS
    Port,
    ScanPortThreshold, ScanWindow, ScanDisplayDuration,
    MaxSkew,   \* the longest wait for the lock
    ScanMaxTime    \* bound on the clock

ASSUME ScanAssumption ==
    /\ IsFiniteSet(Port) /\ ScanPortThreshold \in Nat \ {0}
    /\ ScanWindow \in Nat /\ ScanDisplayDuration \in Nat
    /\ MaxSkew \in Nat /\ ScanMaxTime \in Nat

VARIABLES
    scanNow,
    entry,      \* the scanState, or NoEntry
    seen,       \* ghost: the latest hit of each port
    confirmed   \* ghost: the time of the last Record that found a scanner

scanVars == <<scanNow, entry, seen, confirmed>>

\* portHits as a function on all ports, 0 for a port that is not in the map.
Blank == [hits |-> [p \in Port |-> 0], detectedAt |-> 0, expiresAt |-> 0, lastSeenAt |-> 0]
NoEntry == [Blank EXCEPT !.hits = [p \in {} |-> 0]]
Present == entry # NoEntry

Hit(h) == {p \in DOMAIN h : h[p] # 0}

\* The hits that are not before the cutoff t - ScanWindow.
Keep(h, t) == [p \in DOMAIN h |-> IF h[p] + ScanWindow < t THEN 0 ELSE h[p]]

\* What time.Now() may have returned to a call that now holds the lock.
ReadTime == {t \in 1 .. scanNow : t + MaxSkew >= scanNow}

ScanInit ==
    /\ scanNow = 1
    /\ entry = NoEntry
    /\ seen = [p \in Port |-> 0]
    /\ confirmed = 0

\* Plausible bug: stale hits are left in the map.
ObserveAllPorts(p, t) ==
    LET s == IF Present THEN entry ELSE Blank
    IN  [s EXCEPT !.hits[p] = t, !.lastSeenAt = t]

\* The scanState after a hit on port p by a call that read the time t.
ObservePort(p, t) ==
    LET s == IF Present THEN entry ELSE Blank
    IN  [s EXCEPT !.hits = [Keep(s.hits, t) EXCEPT ![p] = t], !.lastSeenAt = t]

Scanning(s) == Cardinality(Hit(s.hits)) >= ScanPortThreshold

\* The part of Record that is about the ghosts.
Note(p, t, s) ==
    /\ seen' = [seen EXCEPT ![p] = IF t > @ THEN t ELSE @]
    /\ confirmed' = IF Scanning(s) THEN t ELSE confirmed
    /\ UNCHANGED scanNow

\* Plausible bug: only the first detection sets the expiry.
RecordNoExtend(p, t) ==
    LET s == ObservePort(p, t)
    IN  /\ entry' = IF Scanning(s) /\ s.detectedAt = 0
                    THEN [s EXCEPT !.detectedAt = t, !.expiresAt = t + ScanDisplayDuration]
                    ELSE s
        /\ Note(p, t, s)

Record(p, t) ==
    LET s == ObservePort(p, t)
    IN  /\ entry' = IF Scanning(s)
                    THEN [s EXCEPT !.detectedAt = IF @ = 0 THEN t ELSE @,
                                   !.expiresAt = t + ScanDisplayDuration]
                    ELSE s
        /\ Note(p, t, s)

\* One sweep of gcLoop.
GC(t) ==
    LET h == Keep(entry.hits, t)
    IN  /\ Present
        /\ entry' = IF entry.expiresAt # 0 /\ t > entry.expiresAt /\ Hit(h) = {}
                    THEN NoEntry
                    ELSE [entry EXCEPT !.hits = h]
        /\ UNCHANGED <<scanNow, seen, confirmed>>

\* ActiveScanners lists the address, for a call that read the time t.
Listed(t) == Present /\ entry.detectedAt # 0 /\ t <= entry.expiresAt

ScanTick ==
    /\ scanNow < ScanMaxTime
    /\ scanNow' = scanNow + 1
    /\ UNCHANGED <<entry, seen, confirmed>>

ScanNext ==
    \/ \E t \in ReadTime : GC(t) \/ \E p \in Port : Record(p, t)
    \/ ScanTick

ScanSpec == ScanInit /\ [][ScanNext]_scanVars

\* gcLoop sweeps again and again.
ScanFairSpec == ScanSpec /\ WF_scanVars(GC(scanNow)) /\ WF_scanVars(ScanTick)

-----------------------------------------------------------------------------
(* Properties *)

\* "distinct destination ports an IP must hit within ScanWindow": Record reports
\* a scanner only if that many ports were hit in the window before its time, and
\* does so if that many were hit in the window with the wait for the lock to
\* spare, whatever the sweep and the earlier calls evicted.
DetectionStep == \A p \in Port, t \in ReadTime :
    Record(p, t) =>
       LET scanner == Scanning(ObservePort(p, t))
           Since(x) == {q \in Port : seen'[q] # 0 /\ seen'[q] + ScanWindow >= x}
       IN  /\ scanner => Cardinality(Since(t)) >= ScanPortThreshold
           /\ Cardinality(Since(scanNow + MaxSkew)) >= ScanPortThreshold => scanner

DetectionExact == [][DetectionStep]_scanVars

\* "Always extend the expiry whenever we confirm scanning activity": the address
\* is listed for ScanDisplayDuration after the last confirmation, and no longer,
\* although the sweep runs in between and the entry may be deleted and made anew.
ListedExact ==
    Listed(scanNow) <=> confirmed # 0 /\ scanNow <= confirmed + ScanDisplayDuration

\* "evicts entries that are fully expired and have no recent activity, keeping
\* memory bounded": an entry that is not listed and whose hits are all out of the
\* window does not stay.
IdleEntryEvicted ==
    ~<>[](/\ Present
          /\ ~Listed(scanNow)
          /\ \A p \in Port : seen[p] + ScanWindow < scanNow)

=============================================================================
