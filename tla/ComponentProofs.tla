-------------------------- MODULE ComponentProofs ---------------------------
(***************************************************************************)
(* Proofs about the components that stand by themselves, for all values of *)
(* their constants: a source is listed as a scanner exactly as long as it  *)
(* should be, the process exits after Run, only a guarded request changes  *)
(* a ban, a lookup never reads a closed GeoLite2 reader, a migration and a *)
(* certificate pair survive crashes, the kernel program drops only what is *)
(* banned and reports a connection once, and the page keeps one stream.    *)
(***************************************************************************)
EXTENDS ScanTracker, Process, Dashboard, Geo, DataDir, Kernel, WebClient, TLAPS

-----------------------------------------------------------------------------
(* ScanTracker *)

\* The records of the tracker's map.
ScanEntries == [hits : [Port -> Nat], detectedAt : Nat, expiresAt : Nat, lastSeenAt : Nat]

\* The types; no hit and no confirmation lies in the future.
ScanTypeOK ==
    /\ scanNow \in Nat \ {0}
    /\ Present => entry \in ScanEntries
    /\ seen \in [Port -> Nat] /\ \A q \in Port : seen[q] <= scanNow
    /\ confirmed \in Nat /\ confirmed <= scanNow

\* The entry holds no hit that did not happen.  A hit it has lost, or holds with an
\* earlier time than the latest, is out of the window: no more than the wait for the
\* lock separates the two.
HitKept(q) ==
    /\ Present => entry.hits[q] <= seen[q]
    /\ \/ seen[q] = 0 \/ seen[q] + ScanWindow < scanNow + MaxSkew
       \/ Present /\ entry.hits[q] # 0 /\ seen[q] <= entry.hits[q] + MaxSkew

\* Every port satisfies HitKept.
HitsInv == \A q \in Port : HitKept(q)

\* An entry that was ever confirmed carries the expiry of the last confirmation; one
\* that was not, or no entry at all, means that the last one is over.
ExpiryInv ==
    IF Present /\ entry.detectedAt # 0
    THEN confirmed # 0 /\ entry.expiresAt = confirmed + ScanDisplayDuration
    ELSE /\ Present => entry.expiresAt = 0
         /\ confirmed # 0 => confirmed + ScanDisplayDuration < scanNow

\* The inductive invariant of ScanTracker.
ScanInv == ScanTypeOK /\ HitsInv /\ ExpiryInv

\* What Keep leaves of the hits.
LEMMA KeepHits ==
    ASSUME NEW h \in [Port -> Nat], NEW t \in Nat
    PROVE  /\ Keep(h, t) \in [Port -> Nat]
           /\ \A q \in Port : Keep(h, t)[q] = IF h[q] + ScanWindow < t THEN 0 ELSE h[q]
BY ScanAssumption DEF Keep

\* The entry that Record works on: blank, or the one in the map.
LEMMA ObservedEntry ==
    ASSUME ScanInv, NEW p \in Port, NEW t \in ReadTime
    PROVE  LET s == ObservePort(p, t)
               old(q) == IF Present THEN entry.hits[q] ELSE 0
           IN  /\ s \in ScanEntries
               /\ \A q \in Port : s.hits[q] = IF q = p THEN t
                                              ELSE IF old(q) + ScanWindow < t THEN 0 ELSE old(q)
               /\ s.detectedAt = IF Present THEN entry.detectedAt ELSE 0
               /\ s.expiresAt = IF Present THEN entry.expiresAt ELSE 0
<1> DEFINE s == IF Present THEN entry ELSE Blank
<1>1. t \in Nat
  BY DEF ReadTime, ScanInv, ScanTypeOK
<1>2. s \in ScanEntries /\ \A q \in Port : s.hits[q] = IF Present THEN entry.hits[q] ELSE 0
  BY DEF ScanInv, ScanTypeOK, ScanEntries, Blank
<1>3. /\ s.detectedAt = IF Present THEN entry.detectedAt ELSE 0
      /\ s.expiresAt = IF Present THEN entry.expiresAt ELSE 0
  BY DEF Blank
<1>4. s.hits \in [Port -> Nat]
  BY <1>2 DEF ScanEntries
<1> DEFINE k == Keep(s.hits, t)
           h == [k EXCEPT ![p] = t]
<1>5. /\ k \in [Port -> Nat]
      /\ \A q \in Port : k[q] = IF s.hits[q] + ScanWindow < t THEN 0 ELSE s.hits[q]
  <2> HIDE DEF s
  <2> QED  BY <1>1, <1>4, KeepHits
<1> HIDE DEF s, k
<1>6. /\ h \in [Port -> Nat]
      /\ \A q \in Port : h[q] = IF q = p THEN t ELSE k[q]
  BY <1>1, <1>5
<1> HIDE DEF h
<1>7. LET o == [s EXCEPT !.hits = h, !.lastSeenAt = t]
      IN  /\ o \in ScanEntries /\ o.hits = h
          /\ o.detectedAt = s.detectedAt /\ o.expiresAt = s.expiresAt
  BY <1>1, <1>2, <1>6 DEF ScanEntries
<1>8. ObservePort(p, t) = [s EXCEPT !.hits = h, !.lastSeenAt = t]
  BY DEF ObservePort, s, k, h
<1>9. QED
  BY <1>2, <1>3, <1>5, <1>6, <1>7, <1>8

\* A hit on a port makes an entry that is present.
LEMMA EntryPresent ==
    ASSUME NEW e \in ScanEntries, NEW p \in Port
    PROVE  e # NoEntry
<1>1. DOMAIN e.hits = Port
  BY DEF ScanEntries
<1>2. DOMAIN NoEntry.hits = {}
  BY DEF NoEntry, Blank
<1>3. QED
  BY <1>1, <1>2

\* Record keeps the invariant, whatever time it read.
LEMMA RecordKeeps ==
    ASSUME ScanInv, NEW p \in Port, NEW t \in ReadTime, Record(p, t)
    PROVE  ScanInv'
<1> USE ScanAssumption
<1> DEFINE s == ObservePort(p, t)
           old(q) == IF Present THEN entry.hits[q] ELSE 0
<1>1. /\ s \in ScanEntries
      /\ \A q \in Port : s.hits[q] = IF q = p THEN t
                                     ELSE IF old(q) + ScanWindow < t THEN 0 ELSE old(q)
      /\ s.detectedAt = IF Present THEN entry.detectedAt ELSE 0
      /\ s.expiresAt = IF Present THEN entry.expiresAt ELSE 0
  BY ObservedEntry
<1>2. t \in Nat \ {0} /\ t <= scanNow /\ scanNow <= t + MaxSkew /\ scanNow \in Nat
  BY DEF ReadTime, ScanInv, ScanTypeOK
<1>3. /\ scanNow' = scanNow
      /\ seen' = [seen EXCEPT ![p] = IF t > @ THEN t ELSE @]
      /\ confirmed' = IF Scanning(s) THEN t ELSE confirmed
      /\ entry' = IF Scanning(s)
                  THEN [s EXCEPT !.detectedAt = IF @ = 0 THEN t ELSE @,
                                 !.expiresAt = t + ScanDisplayDuration]
                  ELSE s
  BY DEF Record, Note
<1> HIDE DEF s
<1>4. /\ entry' \in ScanEntries /\ entry'.hits = s.hits
      /\ IF Scanning(s)
         THEN entry'.detectedAt # 0 /\ entry'.expiresAt = t + ScanDisplayDuration
         ELSE entry'.detectedAt = s.detectedAt /\ entry'.expiresAt = s.expiresAt
  <2>1. CASE Scanning(s)
    <3> DEFINE d == IF s.detectedAt = 0 THEN t ELSE s.detectedAt
               x == t + ScanDisplayDuration
    <3>1. entry' = [s EXCEPT !.detectedAt = d, !.expiresAt = x]
      BY <2>1, <1>3
    <3>2. d \in Nat \ {0} /\ x \in Nat
      BY <1>1, <1>2 DEF ScanEntries
    <3> HIDE DEF d
    <3>3. /\ entry' \in ScanEntries /\ entry'.hits = s.hits
          /\ entry'.detectedAt = d /\ entry'.expiresAt = x
      <4> HIDE DEF x
      <4> QED  BY <3>1, <3>2, <1>1 DEF ScanEntries
    <3> QED
      BY <2>1, <3>2, <3>3
  <2>2. CASE ~Scanning(s)
    BY <2>2, <1>1, <1>3
  <2>3. QED
    BY <2>1, <2>2
<1>5. Present'
  BY <1>4, EntryPresent DEF Present, NoEntry, Blank
<1>6. ScanTypeOK'
  BY <1>2, <1>3, <1>4 DEF ScanInv, ScanTypeOK
<1>7. HitsInv'
  <2> SUFFICES ASSUME NEW q \in Port PROVE HitKept(q)'
    BY DEF HitsInv
  <2>1. seen[q] \in Nat /\ seen'[q] = IF q = p /\ t > seen[q] THEN t ELSE seen[q]
    BY <1>3 DEF ScanInv, ScanTypeOK
  <2>2. Present => entry.hits[q] \in Nat
    BY DEF ScanInv, ScanTypeOK, ScanEntries
  <2>3. CASE q = p
    <3>1. entry'.hits[q] = t
      BY <2>3, <1>1, <1>4
    <3>2. seen[q] <= scanNow
      BY DEF ScanInv, ScanTypeOK
    <3> QED
      BY <1>2, <1>3, <1>5, <2>1, <2>3, <3>1, <3>2 DEF HitKept
  <2>4. CASE q # p
    <3>1. entry'.hits[q] = IF old(q) + ScanWindow < t THEN 0 ELSE old(q)
      BY <2>4, <1>1, <1>4
    <3>2. seen'[q] = seen[q] /\ scanNow' = scanNow
      BY <2>1, <2>4, <1>3
    <3>3. /\ Present => entry.hits[q] <= seen[q]
          /\ \/ seen[q] = 0 \/ seen[q] + ScanWindow < scanNow + MaxSkew
             \/ Present /\ entry.hits[q] # 0 /\ seen[q] <= entry.hits[q] + MaxSkew
      BY DEF ScanInv, HitsInv, HitKept
    <3> QED
      BY <1>2, <1>5, <2>1, <2>2, <3>1, <3>2, <3>3 DEF HitKept
  <2>5. QED
    BY <2>3, <2>4
<1>8. ExpiryInv'
  BY <1>1, <1>2, <1>3, <1>4, <1>5 DEF ScanInv, ExpiryInv
<1>9. QED
  BY <1>6, <1>7, <1>8 DEF ScanInv

\* A sweep keeps it, although it may delete the entry.
LEMMA SweepKeeps ==
    ASSUME ScanInv, NEW t \in ReadTime, GC(t)
    PROVE  ScanInv'
<1> USE ScanAssumption
<1> DEFINE h == Keep(entry.hits, t)
<1>1. t \in Nat /\ t <= scanNow /\ scanNow \in Nat \ {0}
  BY DEF ReadTime, ScanInv, ScanTypeOK
<1>2. Present /\ entry \in ScanEntries /\ entry.hits \in [Port -> Nat]
  BY DEF GC, ScanInv, ScanTypeOK, ScanEntries
<1>3. /\ h \in [Port -> Nat]
      /\ \A q \in Port : h[q] = IF entry.hits[q] + ScanWindow < t THEN 0 ELSE entry.hits[q]
  BY <1>1, <1>2, KeepHits
<1>4. UNCHANGED <<scanNow, seen, confirmed>>
  BY DEF GC
<1> HIDE DEF h
<1>5. CASE entry.expiresAt # 0 /\ t > entry.expiresAt /\ Hit(h) = {}
  <2>1. entry' = NoEntry /\ ~Present'
    BY <1>5 DEF GC, h, Present, NoEntry, Blank
  <2>2. ScanTypeOK'
    BY <2>1, <1>4 DEF ScanInv, ScanTypeOK
  <2>3. HitsInv'
    <3> SUFFICES ASSUME NEW q \in Port PROVE HitKept(q)'
      BY DEF HitsInv
    <3>1. h[q] = 0
      BY <1>3, <1>5 DEF Hit
    <3>2. seen[q] \in Nat /\ entry.hits[q] \in Nat
      BY <1>2 DEF ScanInv, ScanTypeOK
    <3>3. \/ seen[q] = 0 \/ seen[q] + ScanWindow < scanNow + MaxSkew
          \/ entry.hits[q] # 0 /\ seen[q] <= entry.hits[q] + MaxSkew
      BY DEF ScanInv, HitsInv, HitKept
    <3> QED
      BY <1>1, <1>3, <1>4, <2>1, <3>1, <3>2, <3>3 DEF HitKept
  <2>4. ExpiryInv'
    BY <1>1, <1>2, <1>4, <1>5, <2>1 DEF ScanInv, ExpiryInv, ScanTypeOK
  <2>5. QED
    BY <2>2, <2>3, <2>4 DEF ScanInv
<1>6. CASE ~(entry.expiresAt # 0 /\ t > entry.expiresAt /\ Hit(h) = {})
  <2>1. entry' = [entry EXCEPT !.hits = h]
    BY <1>6 DEF GC, h
  <2>2. /\ entry' \in ScanEntries /\ entry'.hits = h
        /\ entry'.detectedAt = entry.detectedAt /\ entry'.expiresAt = entry.expiresAt
    BY <1>2, <1>3, <2>1 DEF ScanEntries
  <2>3. Present'
    <3>1. CASE Port = {}
      <4>1. h = entry.hits
        BY <1>2, <1>3, <3>1
      <4>2. entry' = entry
        BY <1>2, <2>1, <4>1 DEF ScanEntries
      <4> QED
        BY <1>2, <4>2 DEF Present, NoEntry, Blank
    <3>2. CASE Port # {}
      BY <2>2, <3>2, EntryPresent DEF Present, NoEntry, Blank
    <3> QED
      BY <3>1, <3>2
  <2>4. ScanTypeOK'
    BY <1>4, <2>2 DEF ScanInv, ScanTypeOK
  <2>5. HitsInv'
    <3> SUFFICES ASSUME NEW q \in Port PROVE HitKept(q)'
      BY DEF HitsInv
    <3>1. seen[q] \in Nat /\ entry.hits[q] \in Nat
      BY <1>2 DEF ScanInv, ScanTypeOK
    <3>2. /\ entry.hits[q] <= seen[q]
          /\ \/ seen[q] = 0 \/ seen[q] + ScanWindow < scanNow + MaxSkew
             \/ entry.hits[q] # 0 /\ seen[q] <= entry.hits[q] + MaxSkew
      BY <1>2 DEF ScanInv, HitsInv, HitKept
    <3>3. entry'.hits[q] = IF entry.hits[q] + ScanWindow < t THEN 0 ELSE entry.hits[q]
      BY <1>3, <2>2
    <3> QED
      BY <1>1, <1>4, <2>3, <3>1, <3>2, <3>3 DEF HitKept
  <2>6. ExpiryInv'
    BY <1>2, <1>4, <2>2, <2>3 DEF ScanInv, ExpiryInv
  <2>7. QED
    BY <2>4, <2>5, <2>6 DEF ScanInv
<1>7. QED
  BY <1>5, <1>6

\* The invariant holds whatever the order of connections, sweeps and ticks.
THEOREM ScanInvariant == ScanSpec => []ScanInv
<1> USE ScanAssumption
<1>1. ScanInit => ScanInv
  <2> SUFFICES ASSUME ScanInit PROVE ScanInv
    OBVIOUS
  <2>1. ~Present
    BY DEF ScanInit, Present
  <2>2. ScanTypeOK
    BY <2>1 DEF ScanInit, ScanTypeOK
  <2>3. HitsInv
    BY <2>1 DEF ScanInit, HitsInv, HitKept
  <2>4. QED
    BY <2>1, <2>2, <2>3 DEF ScanInit, ScanInv, ExpiryInv
<1>2. ScanInv /\ [ScanNext]_scanVars => ScanInv'
  <2> SUFFICES ASSUME ScanInv, [ScanNext]_scanVars PROVE ScanInv'
    OBVIOUS
  <2>1. ASSUME NEW t \in ReadTime, GC(t) PROVE ScanInv'
    BY <2>1, SweepKeeps
  <2>2. ASSUME NEW t \in ReadTime, NEW p \in Port, Record(p, t) PROVE ScanInv'
    BY <2>2, RecordKeeps
  <2>3. CASE ScanTick
    <3>1. scanNow \in Nat /\ scanNow' = scanNow + 1 /\ UNCHANGED <<entry, seen, confirmed>>
      BY <2>3 DEF ScanTick, ScanInv, ScanTypeOK
    <3>2. Present' <=> Present
      BY <3>1 DEF Present, NoEntry, Blank
    <3>3. ScanTypeOK'
      BY <3>1, <3>2 DEF ScanInv, ScanTypeOK
    <3>4. HitsInv'
      BY <3>1, <3>2 DEF ScanInv, ScanTypeOK, HitsInv, HitKept
    <3>5. ExpiryInv'
      BY <3>1, <3>2 DEF ScanInv, ScanTypeOK, ExpiryInv
    <3>6. QED
      BY <3>3, <3>4, <3>5 DEF ScanInv
  <2>4. CASE UNCHANGED scanVars
    <3>1. Present' <=> Present
      BY <2>4 DEF scanVars, Present, NoEntry, Blank
    <3> QED
      BY <2>4, <3>1 DEF scanVars, ScanInv, ScanTypeOK, HitsInv, HitKept, ExpiryInv
  <2>5. QED
    BY <2>1, <2>2, <2>3, <2>4 DEF ScanNext
<1>3. QED
  BY <1>1, <1>2, PTL DEF ScanSpec

\* A source is listed exactly until ScanDisplayDuration after its last confirmation:
\* Record, the sweep and the list agree, for any ports, windows and durations.
THEOREM ListedExactTheorem == ScanSpec => []ListedExact
<1>1. ScanInv => ListedExact
  BY ScanAssumption DEF ScanInv, ScanTypeOK, ExpiryInv, ListedExact, Listed
<1>2. QED
  BY <1>1, ScanInvariant, PTL

\* The ports that Record counts lie between two sets of ports the source really hit:
\* all those it hit in the window whatever the wait for the lock, and only those it hit
\* in the window of the time Record read.
PortsCounted ==
    \A p \in Port : \A t \in ReadTime :
        Record(p, t) =>
            LET Since(x) == {q \in Port : seen'[q] # 0 /\ seen'[q] + ScanWindow >= x}
                counted == Hit(ObservePort(p, t).hits)
            IN  Since(scanNow + MaxSkew) \subseteq counted /\ counted \subseteq Since(t)

\* A source is found a scanner for the ports it hit, and for all of them: the argument
\* behind DetectionExact, before the ports are counted.
THEOREM PortsCountedTheorem == ScanSpec => [][PortsCounted]_scanVars
<1>1. ScanInv => PortsCounted
  <2> SUFFICES ASSUME ScanInv, NEW p \in Port, NEW t \in ReadTime, Record(p, t)
               PROVE  LET Since(x) == {q \in Port : seen'[q] # 0 /\ seen'[q] + ScanWindow >= x}
                          counted == Hit(ObservePort(p, t).hits)
                      IN  Since(scanNow + MaxSkew) \subseteq counted /\ counted \subseteq Since(t)
    BY DEF PortsCounted
  <2> DEFINE h == ObservePort(p, t).hits
             old(q) == IF Present THEN entry.hits[q] ELSE 0
             Since(x) == {q \in Port : seen'[q] # 0 /\ seen'[q] + ScanWindow >= x}
  <2>1. /\ h \in [Port -> Nat]
        /\ \A q \in Port : h[q] = IF q = p THEN t
                                   ELSE IF old(q) + ScanWindow < t THEN 0 ELSE old(q)
    BY ObservedEntry DEF ScanEntries
  <2>2. t \in Nat \ {0} /\ t <= scanNow /\ scanNow <= t + MaxSkew /\ scanNow \in Nat
    BY ScanAssumption DEF ReadTime, ScanInv, ScanTypeOK
  <2>3. /\ seen' \in [Port -> Nat]
        /\ \A q \in Port : seen'[q] = IF q = p /\ t > seen[q] THEN t ELSE seen[q]
    BY <2>2 DEF Record, Note, ScanInv, ScanTypeOK
  <2>4. \A q \in Port : old(q) \in Nat /\ seen[q] \in Nat /\ seen[q] <= scanNow
    BY DEF ScanInv, ScanTypeOK, ScanEntries
  <2>5. \A q \in Port : /\ old(q) <= seen[q]
                        /\ \/ seen[q] = 0 \/ seen[q] + ScanWindow < scanNow + MaxSkew
                           \/ old(q) # 0 /\ seen[q] <= old(q) + MaxSkew
    BY <2>4 DEF ScanInv, HitsInv, HitKept
  <2> HIDE DEF h, old
  <2>6. Hit(h) = {q \in Port : h[q] # 0}
    BY <2>1 DEF Hit
  <2>7. Hit(h) \subseteq Since(t)
    BY <2>1, <2>2, <2>3, <2>4, <2>5, <2>6, ScanAssumption
  <2>8. Since(scanNow + MaxSkew) \subseteq Hit(h)
    BY <2>1, <2>2, <2>3, <2>4, <2>5, <2>6, ScanAssumption
  <2>9. QED
    BY <2>7, <2>8 DEF h
<1>2. QED
  BY <1>1, ScanInvariant, PTL DEF ScanSpec

-----------------------------------------------------------------------------
(* Process *)

\* run waits for the server alone only after App.Run has returned.
ProcInv ==
    /\ waited \in Nat
    /\ main = "waitServer" => app = "returned"
    /\ ExitAfterRun

\* The process ends only after App.Run has returned, or when the shutdown that a signal began
\* has taken DrainMax.
THEOREM ExitAfterRunTheorem == ProcSpec => []ExitAfterRun
<1>1. ProcInit => ProcInv
  BY DEF ProcInit, ProcInv, ExitAfterRun
<1>2. ASSUME ProcInv, [ProcNext]_procVars PROVE ProcInv'
  <2> USE ProcessAssumption DEF ProcInv, ExitAfterRun
  <2>1. CASE Signal \/ ServeFails \/ ServeStops \/ ServeReturns \/ Hup \/ HupDone
    BY <1>2, <2>1 DEF Signal, ServeFails, ServeStops, ServeReturns, Hup, HupDone
  <2>2. CASE AppReturns
    BY <1>2, <2>2 DEF AppReturns
  <2>3. CASE SelectServer \/ SelectApp \/ SelectDone
    BY <1>2, <2>3 DEF SelectServer, SelectApp, SelectDone
  <2>4. CASE Exit
    BY <1>2, <2>4 DEF Exit
  <2>5. CASE GiveUp
    BY <1>2, <2>5 DEF GiveUp
  <2>6. CASE ProcTick
    BY <1>2, <2>6 DEF ProcTick
  <2>7. CASE UNCHANGED procVars
    BY <1>2, <2>7 DEF procVars
  <2>8. QED
    BY <1>2, <2>1, <2>2, <2>3, <2>4, <2>5, <2>6, <2>7 DEF ProcNext, ProcPrompt
<1>3. ProcInv => ExitAfterRun
  BY DEF ProcInv
<1>4. QED
  BY <1>1, <1>2, <1>3, PTL DEF ProcSpec

-----------------------------------------------------------------------------
(* Dashboard *)

\* A request that passes the middleware passes each of its three checks.
LEMMA GatePasses ==
    ASSUME NEW r, Gate(r) = "pass"
    PROVE  hostCheck(r) /\ originCheck(r) /\ basicAuth(r)
BY DEF Gate

\* The dashboard changes bans only on a JSON POST that is not cross-site, from an
\* authenticated client or, without authentication, to a host name that cannot be rebound.
THEOREM BansGuardedTheorem == DashSpec => BansGuarded
<1> DEFINE Guarded == \E r \in request : /\ r.method = "POST" /\ r.json /\ r.origin # "other"
                                         /\ IF auth THEN r.creds = "right" ELSE r.host = "known"
<1>1. ASSUME [RequestNext \/ TraceNext]_dashVars, banned' # banned PROVE Guarded
  <2>1. handleBan
    <3>1. ASSUME TraceNext PROVE banned' = banned
      BY <3>1 DEF TraceNext, TraceWork, StartTrace, Exits, CtxDone, RunStarts, SendHop, Abort,
                  ScanEnds, Stream, StreamEnds, Scan, Refused, SetTrace
    <3>2. ASSUME Arrive \/ Refuse \/ ServeRead \/ Sent \/ UNCHANGED dashVars PROVE banned' = banned
      BY <3>2 DEF Arrive, Refuse, ServeRead, Sent, dashVars
    <3>3. QED
      BY <1>1, <3>1, <3>2 DEF RequestNext
  <2>2. PICK r \in request : /\ Gate(r) = "pass" /\ r.path \in {"ban", "unban"}
                             /\ r.method = "POST"
    BY <1>1, <2>1 DEF handleBan
  <2>3. hostCheck(r) /\ originCheck(r) /\ basicAuth(r)
    BY <2>2, GatePasses
  <2>4. QED
    BY <2>2, <2>3 DEF hostCheck, originCheck, basicAuth
<1>2. [RequestNext \/ TraceNext]_dashVars => [banned' # banned => Guarded]_dashVars
  BY <1>1
<1>3. QED
  BY <1>2, PTL DEF DashSpec, BansGuarded

-----------------------------------------------------------------------------
(* Geo *)

\* A reader is open until Grace after it was replaced, and a lookup on it began before
\* that; the installed one has no time to be closed yet.
GeoInv ==
    /\ geoNow \in 0 .. GeoMaxTime
    /\ \A r \in DOMAIN readers : readers[r] \in Nat
    /\ \A r \in city : r \in DOMAIN readers /\ readers[r] = Never
    /\ using = [l \in Looker |-> using[l]]
    /\ \A l \in Looker : \A u \in using[l] :
         /\ u.from \in 0 .. geoNow
         /\ u.reader \in DOMAIN readers
         /\ u.from + Grace <= readers[u.reader]

\* The numbers the constants are.
LEMMA GeoConstants ==
    Grace \in Nat /\ LookupMax \in Nat /\ GeoMaxTime \in Nat /\ LookupMax < Grace /\ Never \in Nat
    /\ Never = GeoMaxTime + Grace + 1
BY GeoAssumption DEF Never

\* A reader that stays open for the grace period outlasts a lookup that is not too long.
LEMMA GraceOutlasts ==
    ASSUME NEW now \in Nat, NEW from \in Nat, NEW due \in Nat,
           from <= now, from + Grace <= due, (now + 1) - from <= LookupMax
    PROVE  due > now + 1 /\ from \in 0 .. now + 1
BY GeoConstants

\* GeoLocator.swap: whatever reader is installed, the lookups in progress keep theirs for
\* the grace period.
LEMMA SwapKeeps ==
    ASSUME GeoInv, NEW new, swap(new), UNCHANGED <<geoNow, using>>
    PROVE  GeoInv'
<1>1. /\ Grace \in Nat /\ GeoMaxTime \in Nat /\ Never \in Nat /\ Never = GeoMaxTime + Grace + 1
      /\ geoNow \in 0 .. GeoMaxTime
  BY GeoConstants DEF GeoInv
<1>2. /\ city' = new /\ DOMAIN readers' = DOMAIN readers \cup new
      /\ \A r \in DOMAIN readers \cup new :
           readers'[r] = IF r \in new THEN Never
                         ELSE IF r \in city THEN geoNow + Grace ELSE readers[r]
  BY DEF swap
<1>3. \A r \in DOMAIN readers' : readers'[r] \in Nat
  BY <1>1, <1>2 DEF GeoInv
<1>4. \A r \in city' : r \in DOMAIN readers' /\ readers'[r] = Never
  BY <1>2
<1>5. ASSUME NEW l \in Looker, NEW u \in using'[l]
      PROVE  /\ u.from \in 0 .. geoNow' /\ u.reader \in DOMAIN readers'
             /\ u.from + Grace <= readers'[u.reader]
  <2>1. /\ u.from \in 0 .. geoNow /\ u.reader \in DOMAIN readers
        /\ u.from + Grace <= readers[u.reader]
    BY <1>5 DEF GeoInv
  <2>2. QED
    BY <1>1, <1>2, <2>1
<1>6. Never' = Never
  BY DEF Never
<1>7. QED
  BY <1>1, <1>3, <1>4, <1>5, <1>6 DEF GeoInv

\* Every step keeps the invariant: swaps, lookups, crashes and the timers that close
\* what was replaced.
LEMMA GeoStep ==
    ASSUME GeoInv, [GeoNext]_geoVars
    PROVE  GeoInv'
<1>1. CASE Open \/ CloseGeo
  BY <1>1, SwapKeeps DEF Open, CloseGeo
<1>2. CASE Reload
  <2>1. CASE swap(NewReader)
    BY <1>2, <2>1, SwapKeeps DEF Reload
  <2>2. CASE UNCHANGED <<city, readers, opened>>
    BY <1>2, <2>2 DEF Reload, GeoInv, Never
  <2>3. QED
    BY <1>2, <2>1, <2>2 DEF Reload
<1>3. CASE Ensure \/ Refresh \/ WriteMeta \/ Publish \/ UNCHANGED geoVars
  <2>1. UNCHANGED <<geoNow, city, readers, using>>
    BY <1>3 DEF Ensure, Refresh, WriteMeta, Publish, geoVars
  <2>2. QED
    BY <2>1 DEF GeoInv, Never
<1>4. CASE Crash
  <2>1. /\ city' = {} /\ readers' = [v \in {} |-> 0] /\ using' = [l \in Looker |-> {}]
        /\ geoNow' = geoNow
    BY <1>4 DEF Crash
  <2>2. QED
    BY <2>1 DEF GeoInv
<1>5. ASSUME NEW l \in Looker, LookupGeo(l) PROVE GeoInv'
  <2>1. /\ using' = [using EXCEPT ![l] = {[reader |-> r, from |-> geoNow] : r \in city}]
        /\ UNCHANGED <<geoNow, city, readers>>
    BY <1>5 DEF LookupGeo
  <2>2. ASSUME NEW k \in Looker, NEW u \in using'[k]
        PROVE  /\ u.from \in 0 .. geoNow' /\ u.reader \in DOMAIN readers'
               /\ u.from + Grace <= readers'[u.reader]
    <3>1. CASE k = l
      <4>1. PICK r \in city : u = [reader |-> r, from |-> geoNow]
        BY <2>1, <2>2, <3>1 DEF GeoInv
      <4>2. u.reader = r /\ u.from = geoNow /\ r \in DOMAIN readers /\ readers[r] = Never
        BY <4>1 DEF GeoInv
      <4>3. QED
        BY <2>1, <4>2, GeoConstants DEF GeoInv
    <3>2. CASE k # l
      <4>1. u \in using[k]
        BY <2>1, <2>2, <3>2 DEF GeoInv
      <4>2. QED
        BY <2>1, <4>1 DEF GeoInv
    <3>3. QED
      BY <3>1, <3>2
  <2>3. using' = [k \in Looker |-> using'[k]]
    BY <2>1 DEF GeoInv
  <2>4. QED
    BY <2>1, <2>2, <2>3 DEF GeoInv, Never
<1>6. ASSUME NEW l \in Looker, LookupEnds(l) PROVE GeoInv'
  <2>1. using' = [using EXCEPT ![l] = {}] /\ UNCHANGED <<geoNow, city, readers>>
    BY <1>6 DEF LookupEnds
  <2>2. \A k \in Looker : using'[k] \subseteq using[k]
    BY <2>1 DEF GeoInv
  <2>3. using' = [k \in Looker |-> using'[k]]
    BY <2>1 DEF GeoInv
  <2>4. QED
    BY <2>1, <2>2, <2>3 DEF GeoInv, Never
<1>7. CASE GeoTick
  <2>1. /\ geoNow < GeoMaxTime /\ geoNow' = geoNow + 1 /\ UNCHANGED <<city, using>>
        /\ \A l \in Looker : \A u \in using[l] : geoNow' - u.from <= LookupMax
        /\ readers' = [r \in {q \in DOMAIN readers : readers[q] > geoNow'} |-> readers[r]]
    BY <1>7 DEF GeoTick
  <2>a. /\ DOMAIN readers' = {q \in DOMAIN readers : readers[q] > geoNow'}
        /\ \A r \in DOMAIN readers' : readers'[r] = readers[r]
    BY <2>1
  <2>2. geoNow' \in 0 .. GeoMaxTime
    BY <2>1, GeoConstants DEF GeoInv
  <2>3. \A r \in city' : r \in DOMAIN readers' /\ readers'[r] = Never
    BY <2>1, <2>a, GeoConstants DEF GeoInv
  <2>4. ASSUME NEW l \in Looker, NEW u \in using'[l]
        PROVE  /\ u.from \in 0 .. geoNow' /\ u.reader \in DOMAIN readers'
               /\ u.from + Grace <= readers'[u.reader]
    <3>1. /\ u.from \in 0 .. geoNow /\ u.reader \in DOMAIN readers
          /\ u.from + Grace <= readers[u.reader] /\ readers[u.reader] \in Nat
          /\ geoNow' - u.from <= LookupMax /\ geoNow \in 0 .. GeoMaxTime
      BY <2>1, <2>4 DEF GeoInv
    <3>2. readers[u.reader] > geoNow' /\ u.from \in 0 .. geoNow'
      <4>1. geoNow \in Nat /\ u.from \in Nat /\ u.from <= geoNow
        BY <3>1
      <4>2. (geoNow + 1) - u.from <= LookupMax
        BY <2>1, <3>1
      <4>3. QED
        BY <2>1, <3>1, <4>1, <4>2, GraceOutlasts
    <3>3. QED
      BY <2>1, <2>a, <3>1, <3>2
  <2>5. QED
    BY <2>1, <2>a, <2>2, <2>3, <2>4 DEF GeoInv, Never
<1>8. QED
  BY <1>1, <1>2, <1>3, <1>4, <1>5, <1>6, <1>7 DEF GeoNext, GeoWork

\* No lookup in progress uses a reader that an update has closed: the grace period is longer
\* than a lookup.
THEOREM NoClosedReaderTheorem == GeoSpec => []NoClosedReader
<1>1. GeoInitAt("start") => GeoInv
  BY GeoConstants DEF GeoInitAt, GeoInv
<1>2. GeoInv => NoClosedReader
  BY DEF GeoInv, NoClosedReader
<1>3. QED
  BY <1>1, <1>2, GeoStep, PTL DEF GeoSpec

-----------------------------------------------------------------------------
(* DataDir *)

\* What is committed is what user_version says; a database without a version is a
\* subset of the first one.
Committed ==
    /\ version \in 0 .. 3
    /\ version = 0 => schema \subseteq Baseline /\ ports = "text"
    /\ version > 0 => schema = SchemaOf(version) /\ ports = PortsOf(version)

\* The transaction starts from the committed state and ends in that of the next version.
TxOk(t) ==
    /\ t = [to |-> t.to, version |-> t.version, schema |-> t.schema,
            events |-> t.events, ports |-> t.ports]
    /\ t.to = version + 1 /\ version < Latest
    /\ t.events = events
    /\ t.version \in {version, t.to}
    /\ ~Applied(t) => t.schema = schema /\ t.ports = ports
    /\ Applied(t) => t.schema = SchemaOf(t.to) /\ t.ports = PortsOf(t.to)

\* What every step of DataDir keeps.
DirInv == Committed /\ RowsKept /\ \A t \in tx : TxOk(t)

\* The statements of a migration lead from the state of one version to that of the next.
LEMMA UpResult ==
    ASSUME Committed, NEW t, TxOk(t), ~Applied(t)
    PROVE  /\ up(t) = [to |-> t.to, version |-> t.version, schema |-> SchemaOf(t.to),
                       events |-> t.events, ports |-> PortsOf(t.to)]
           /\ t.to \in 1 .. 3
<1>1. t.to \in 1 .. 3 /\ version = t.to - 1
  BY DEF Committed, TxOk, Applied, Latest
<1>2. CASE t.to = 1
  <2>1. up(t) = [t EXCEPT !.schema = t.schema \cup Baseline]
    BY <1>2 DEF up
  <2>2. t.schema \cup Baseline = SchemaOf(t.to) /\ t.ports = PortsOf(t.to)
    BY <1>1, <1>2 DEF Committed, TxOk, Applied, SchemaOf, PortsOf
  <2>3. QED
    BY <1>1, <2>1, <2>2 DEF TxOk, Applied
<1>3. CASE t.to = 2
  <2>1. up(t) = [t EXCEPT !.ports = "integer"]
    BY <1>3 DEF up
  <2>2. t.schema = SchemaOf(t.to) /\ "integer" = PortsOf(t.to)
    BY <1>1, <1>3 DEF Committed, TxOk, Applied, SchemaOf, PortsOf
  <2>3. QED
    BY <1>1, <2>1, <2>2 DEF TxOk, Applied
<1>4. CASE t.to = 3
  <2>1. up(t) = [t EXCEPT !.schema = t.schema \cup Intel]
    BY <1>4 DEF up
  <2>2. t.schema \cup Intel = SchemaOf(t.to) /\ t.ports = PortsOf(t.to)
    BY <1>1, <1>4 DEF Committed, TxOk, Applied, SchemaOf, PortsOf
  <2>3. QED
    BY <1>1, <2>1, <2>2 DEF TxOk, Applied
<1>5. QED
  BY <1>1, <1>2, <1>3, <1>4

\* Every step, crashes included, keeps the invariant.
LEMMA DirStep ==
    ASSUME DirInv, [DirNext]_dirVars
    PROVE  DirInv'
<1>1. CASE Begin
  <2>1. UNCHANGED <<version, schema, events, ports, oldEvents>>
    BY <1>1 DEF Begin
  <2> DEFINE r == [to |-> version + 1, version |-> version,
                   schema |-> schema, events |-> events, ports |-> ports]
  <2>a. tx' = {r} /\ version < Latest
    BY <1>1 DEF Begin
  <2>b. TxOk(r)
    <3>1. version \in 0 .. 3
      BY DEF DirInv, Committed
    <3>2. ~Applied(r)
      BY <3>1 DEF Applied
    <3>3. QED
      BY <2>a, <3>2 DEF TxOk
  <2>2. \A t \in tx' : TxOk(t)'
    BY <2>1, <2>a, <2>b DEF TxOk, Applied
  <2>3. QED
    BY <2>1, <2>2 DEF DirInv, Committed, RowsKept
<1>2. CASE Apply
  <2>1. UNCHANGED <<version, schema, events, ports, oldEvents>>
    BY <1>2 DEF Apply
  <2>2. PICK t \in tx : ~Applied(t) /\ tx' = {[up(t) EXCEPT !.version = t.to]}
    BY <1>2 DEF Apply
  <2>3. TxOk(t) /\ up(t) = [to |-> t.to, version |-> t.version, schema |-> SchemaOf(t.to),
                            events |-> t.events, ports |-> PortsOf(t.to)]
    BY <2>2, UpResult DEF DirInv
  <2> DEFINE r == [to |-> t.to, version |-> t.to, schema |-> SchemaOf(t.to),
                   events |-> t.events, ports |-> PortsOf(t.to)]
  <2>4. [up(t) EXCEPT !.version = t.to] = r
    BY <2>3
  <2>a. TxOk(r)
    BY <2>3 DEF TxOk, Applied
  <2>b. tx' = {r}
    BY <2>2, <2>4
  <2>5. \A x \in tx' : TxOk(x)'
    BY <2>1, <2>a, <2>b DEF TxOk, Applied
  <2>6. QED
    BY <2>1, <2>5 DEF DirInv, Committed, RowsKept
<1>3. CASE Commit
  <2>1. PICK t \in tx : /\ Applied(t)
                        /\ version' = t.version /\ schema' = t.schema
                        /\ events' = t.events /\ ports' = t.ports
    BY <1>3 DEF Commit
  <2>2. TxOk(t) /\ tx' = {} /\ oldEvents' = oldEvents
    BY <1>3, <2>1 DEF DirInv, Commit
  <2>3. version' \in 1 .. 3 /\ schema' = SchemaOf(version') /\ ports' = PortsOf(version')
    <3>1. /\ t.version = t.to /\ t.to = version + 1 /\ version < 3
          /\ t.schema = SchemaOf(t.to) /\ t.ports = PortsOf(t.to)
      BY <2>1, <2>2 DEF TxOk, Applied, Latest
    <3>2. version \in 0 .. 3
      BY DEF DirInv, Committed
    <3>3. QED
      BY <2>1, <3>1, <3>2
  <2>4. Committed'
    BY <2>3 DEF Committed, SchemaOf, PortsOf
  <2>5. RowsKept'
    BY <2>1, <2>2 DEF TxOk, Applied, DirInv, RowsKept
  <2>6. QED
    BY <2>2, <2>4, <2>5 DEF DirInv
<1>4. CASE RestartDir \/ Rollback
  BY <1>4 DEF RestartDir, Rollback, DirInv, Committed, RowsKept
<1>5. CASE Opened \/ UNCHANGED dirVars \/ \E l \in Listener : Certify(l)
  <2>1. UNCHANGED <<version, schema, events, ports, tx, oldEvents>>
    BY <1>5 DEF Opened, dirVars, dbState, Certify, LoadPair, TruncateCert, WriteCert, TruncateKey,
                WriteKey, WriteFails
  <2>2. QED
    BY <2>1 DEF DirInv, Committed, RowsKept, TxOk, Applied
<1>6. QED
  BY <1>1, <1>2, <1>3, <1>4, <1>5 DEF DirNext, Migrate

\* The invariant holds throughout.
LEMMA DirInvariant == DirSpec => []DirInv
<1>1. DirInitFor(OldDatabases, {Id}, "migrating") => DirInv
  <2>1. SUFFICES ASSUME DirInitFor(OldDatabases, {Id}, "migrating") PROVE DirInv
    OBVIOUS
  <2>2. PICK d \in OldDatabases : version = d.version /\ schema = d.schema /\ ports = d.ports
    BY <2>1 DEF DirInitFor
  <2>3. Committed
    BY <2>2 DEF OldDatabases, Committed, SchemaOf, PortsOf, Baseline
  <2>4. QED
    BY <2>1, <2>3 DEF DirInitFor, DirInv, RowsKept
<1>2. QED
  BY <1>1, DirStep, PTL DEF DirSpec

-----------------------------------------------------------------------------
\* Wherever the process crashes in migrate, and however often, the committed schema is
\* that of user_version.
THEOREM MigrationsAtomic == DirSpec => []SchemaMatchesVersion
<1>1. DirInv => SchemaMatchesVersion
  BY DEF DirInv, Committed, SchemaMatchesVersion
<1>2. QED
  BY <1>1, DirInvariant, PTL

\* No migration, and no crash in one, loses or adds an event row.
THEOREM MigrationsKeepRows == DirSpec => []RowsKept
<1>1. DirInv => RowsKept
  BY DEF DirInv
<1>2. QED
  BY <1>1, DirInvariant, PTL

\* loadOrCreateCert never replaces a complete pair that no listener is writing, and every
\* listener that loads then gets it, for any number of listeners.
THEOREM CompletePairStays == DirSpec => CertStable
<1> DEFINE Complete == certFile = keyFile /\ certFile # 0 /\ \A l \in Listener : ~Generating(l)
           Stays == /\ certFile' = certFile /\ keyFile' = keyFile
                    /\ \A l \in Listener : tls[l].at = "load" => tls'[l].pair \in {0, certFile}
           Typed == tls = [l \in Listener |-> tls[l]] /\ \A l \in Listener : tls[l].at = "load" => tls[l].pair = 0
<1>1. DirInitFor(OldDatabases, {Id}, "migrating") => Typed
  <2>1. DirInitFor(OldDatabases, {Id}, "migrating") => tls = NoCert
    BY DEF DirInitFor
  <2>2. tls = NoCert => Typed
    BY DEF NoCert
  <2>3. QED
    BY <2>1, <2>2
<1>2. ASSUME Typed, [DirNext]_dirVars
      PROVE  Typed' /\ (Complete => Stays)
  <2>1. ASSUME NEW l \in Listener, LoadPair(l) PROVE Typed' /\ (Complete => Stays)
    BY <1>2, <2>1 DEF LoadPair
  <2>2. ASSUME NEW l \in Listener, TruncateCert(l) PROVE Typed' /\ (Complete => Stays)
    BY <1>2, <2>2 DEF TruncateCert, Step, Generating
  <2>3. ASSUME NEW l \in Listener, WriteCert(l) PROVE Typed' /\ (Complete => Stays)
    BY <1>2, <2>3 DEF WriteCert, Step, Generating
  <2>4. ASSUME NEW l \in Listener, TruncateKey(l) PROVE Typed' /\ (Complete => Stays)
    BY <1>2, <2>4 DEF TruncateKey, Step, Generating
  <2>5. ASSUME NEW l \in Listener, WriteKey(l) PROVE Typed' /\ (Complete => Stays)
    BY <1>2, <2>5 DEF WriteKey, Step, Generating
  <2>6. ASSUME NEW l \in Listener, WriteFails(l) PROVE Typed' /\ (Complete => Stays)
    BY <1>2, <2>6 DEF WriteFails, Step, Generating
  <2>7. CASE RestartDir
    BY <1>2, <2>7 DEF RestartDir, NoCert
  <2>8. CASE Rollback \/ Begin \/ Apply \/ Commit \/ Opened \/ UNCHANGED dirVars
    <3>1. UNCHANGED <<certFile, keyFile, tls>>
      BY <2>8 DEF Rollback, Begin, Apply, Commit, Opened, dirVars, certState
    <3>2. QED
      BY <1>2, <3>1
  <2>9. QED
    BY <1>2, <2>1, <2>2, <2>3, <2>4, <2>5, <2>6, <2>7, <2>8 DEF DirNext, Migrate, Certify
<1>3. Typed /\ [DirNext]_dirVars => Typed' /\ [Complete => Stays]_dirVars
  BY <1>2
<1>4. QED
  BY <1>1, <1>3, PTL DEF DirSpec, CertStable

-----------------------------------------------------------------------------
(* Kernel *)

\* Between reloads the map holds at least what the last load was to put; while one
\* runs, what is missing is still to be put.
AllowInv ==
    /\ reload = "idle" => lastLoad \subseteq allowMap
    /\ reload = "loading" => lastLoad \subseteq allowMap \cup toPut

\* Who reports a connection depends on its port alone.
ReporterInv ==
    /\ \A p \in byPump : p.port \notin Listened
    /\ \A p \in byListener : p.port \in Bound

\* The inductive invariant of Kernel.
KernelInv == fate \in [Packets -> {"unsent", "silent", "drop", "pass"}] /\ AllowInv /\ ReporterInv

\* The invariant holds through reloads of the allow file, bans, and the end of the reader.
THEOREM KernelInvariant == KernelSpec => []KernelInv
<1>1. KernelInit => KernelInv
  BY DEF KernelInit, KernelInv, AllowInv, ReporterInv
<1>2. KernelInv /\ [KernelNext]_kernelVars => KernelInv'
  <2> SUFFICES ASSUME KernelInv, [KernelNext]_kernelVars PROVE KernelInv'
    OBVIOUS
  <2> USE DEF KernelInv
  <2>1. CASE StartXDP
    BY <2>1 DEF StartXDP, AllowInv, ReporterInv
  <2>2. CASE StopXDP
    BY <2>2 DEF StopXDP, AllowInv, ReporterInv
  <2>3. CASE EditFile
    BY <2>3 DEF EditFile, flowVars, AllowInv, ReporterInv
  <2>4. CASE ReloadAllowFile
    BY <2>4 DEF ReloadAllowFile, flowVars, AllowInv, ReporterInv
  <2>5. CASE OpenFile
    BY <2>5 DEF OpenFile, flowVars, AllowInv, ReporterInv
  <2>6. CASE PutAddr
    <3>1. AllowInv'
      BY <2>6 DEF PutAddr, AllowInv
    <3> QED
      BY <2>6, <3>1 DEF PutAddr, flowVars, ReporterInv
  <2>7. ASSUME NEW p \in Packets, Packet(p) PROVE KernelInv'
    <3>1. UNCHANGED mapVars /\ UNCHANGED byPump
      BY <2>7 DEF Packet
    <3>2. AllowInv'
      BY <3>1 DEF AllowInv, mapVars
    <3>3. ReporterInv'
      BY <2>7, <3>1 DEF Packet, ReporterInv
    <3>4. verdict(p) \in {"silent", "drop", "pass"}
      BY DEF verdict
    <3>5. fate' \in [Packets -> {"unsent", "silent", "drop", "pass"}]
      BY <2>7, <3>4 DEF Packet
    <3> QED
      BY <3>2, <3>3, <3>5
  <2>8. ASSUME NEW p \in Packets, Ban(p.src, p.port) \/ Unban(p.src, p.port) PROVE KernelInv'
    BY <2>8 DEF Ban, Unban, flowVars, AllowInv, ReporterInv
  <2>9. CASE PumpEvent
    <3>1. UNCHANGED <<mapVars, fate, byListener>>
      BY <2>9 DEF PumpEvent
    <3>2. ReporterInv'
      BY <2>9, <3>1 DEF PumpEvent, skipped, ReporterInv
    <3> QED
      BY <3>1, <3>2 DEF mapVars, AllowInv
  <2>10. CASE ReadEvent \/ ReaderEnds \/ PumpEnds \/ KCancel
    BY <2>10 DEF ReadEvent, ReaderEnds, PumpEnds, KCancel, mapVars, AllowInv, ReporterInv
  <2>11. CASE ReaderFails
    BY <2>11 DEF ReaderFails, AllowInv, ReporterInv
  <2>12. CASE KTick
    BY <2>12 DEF KTick, mapVars, flowVars, AllowInv, ReporterInv
  <2>13. CASE UNCHANGED kernelVars
    BY <2>13 DEF kernelVars, AllowInv, ReporterInv
  <2>14. QED
    BY <2>1, <2>2, <2>3, <2>4, <2>5, <2>6, <2>7, <2>8, <2>9, <2>10, <2>11, <2>12, <2>13
    DEF KernelNext
<1>3. QED
  BY <1>1, <1>2, PTL DEF KernelSpec

\* No connection is reported by both its listener and the pump, for any ports.
THEOREM ReportedOnceTheorem == KernelSpec => []ReportedOnce
<1>1. KernelInv => ReportedOnce
  BY KernelAssumption DEF KernelInv, ReporterInv, ReportedOnce
<1>2. QED
  BY <1>1, KernelInvariant, PTL

\* XDP drops a packet only under a ban in force, and never one from an address of the
\* allow file as loaded outside a reload, however edits, bans and packets interleave.
THEOREM DropsJustifiedTheorem == KernelSpec => DropsJustified
<1>1. KernelInv /\ [KernelNext]_kernelVars => [DropStep]_kernelVars
  <2> SUFFICES ASSUME KernelInv, KernelNext, NEW p \in Packets,
                      fate[p] = "unsent", fate'[p] = "drop"
               PROVE  /\ p.src \notin lastLoad \/ reload # "idle"
                      /\ \E b \in banMap : b.src = p.src /\ b.port = p.port /\ b.until > kNow
    BY DEF DropStep
  <2>1. fate' # fate
    OBVIOUS
  <2>2. PICK q \in Packets : Packet(q)
    BY <2>1 DEF KernelNext, StartXDP, StopXDP, EditFile, ReloadAllowFile, OpenFile, PutAddr, Ban,
      Unban, ReadEvent, ReaderEnds, ReaderFails, PumpEvent, PumpEnds, KCancel, KTick, flowVars
  <2>3. q = p /\ verdict(p) = "drop"
    BY <2>2 DEF Packet, KernelInv
  <2>4. p.src \notin allowMap /\ isBanned(p)
    BY <2>3 DEF verdict
  <2>5. p.src \notin lastLoad \/ reload # "idle"
    BY <2>4 DEF KernelInv, AllowInv
  <2>6. QED
    BY <2>4, <2>5 DEF isBanned
<1>2. QED
  BY <1>1, KernelInvariant, PTL DEF KernelSpec, DropsJustified

-----------------------------------------------------------------------------
(* WebClient *)

\* ws.ts connect, with no socket of its own: one socket, no retry.
LEMMA ConnectAlone ==
    ASSUME OneStream, NEW w, w = "none", NEW h, connect(w, h)
    PROVE  OneStream'
<1>1. sock' = "connecting" /\ wsTimer' = FALSE /\ wsStale' = wsStale + (IF w = "none" THEN 0 ELSE 1)
  BY DEF connect
<1>2. wsStale' = 0
  BY <1>1 DEF OneStream
<1>3. (sock' = "none") = wsTimer'
  BY <1>1
<1>4. QED
  BY <1>2, <1>3 DEF OneStream

\* ws.ts: one socket or one pending retry, never both and never neither, and no abandoned
\* socket stays open, whatever the order of losses, retries and toggles.
THEOREM OneStreamTheorem == ClientSpec => []OneStream
<1>1. ClientInit => OneStream
  BY DEF ClientInit, OneStream
<1>2. ASSUME OneStream, [StreamNext \/ PanelNext]_clientVars PROVE OneStream'
  <2> USE DEF OneStream
  <2>1. CASE OnOpen \/ SetPaused \/ PageTick
    BY <1>2, <2>1 DEF OnOpen, SetPaused, PageTick
  <2>2. CASE OnClose
    BY <1>2, <2>2 DEF OnClose
  <2>3. CASE TimerFires
    <3>1. sock = "none"
      BY <1>2, <2>3 DEF TimerFires
    <3>2. QED
      BY <1>2, <2>3, <3>1, ConnectAlone DEF TimerFires
  <2>4. CASE NoiseToggle
    BY <1>2, <2>4, ConnectAlone DEF NoiseToggle
  <2>5. ASSUME NEW h \in 1 .. 2, SliderFires(h) PROVE OneStream'
    BY <1>2, <2>5, ConnectAlone DEF SliderFires
  <2>6. ASSUME NEW p \in DstPort, NEW t \in 0 .. pageNow, OnMessage(p, t) PROVE OneStream'
    BY <1>2, <2>6 DEF OnMessage
  <2>7. CASE PanelNext \/ UNCHANGED clientVars
    BY <1>2, <2>7 DEF PanelNext, clientVars, streamVars
  <2>8. QED
    BY <1>2, <2>1, <2>2, <2>3, <2>4, <2>5, <2>6, <2>7 DEF StreamNext
<1>3. QED
  BY <1>1, <1>2, PTL DEF ClientSpec

=============================================================================
