-------------------------------- MODULE Geo --------------------------------
(***************************************************************************)
(* internal/geo: one GeoLite2 database, its file refreshed from upstream   *)
(* by RefreshLoop and its readers swapped under lookups in progress.  A    *)
(* database is its version.  fetch renames the verified download into      *)
(* place and then writes the validators of the next conditional request to *)
(* the .meta file; the process may crash between the two.                  *)
(***************************************************************************)
EXTENDS Naturals, FiniteSets

CONSTANTS
    Looker,        \* goroutines that call Lookup
    Versions,      \* bound on the versions upstream publishes
    Grace,         \* swap: ticks before a replaced reader is closed
    LookupMax,     \* ticks a lookup takes at most; less than Grace
    MaxFaults,     \* bound on the failed downloads, reloads and writes and the crashes
    GeoMaxTime     \* bound on the clock

ASSUME GeoAssumption ==
    /\ {Versions, Grace} \subseteq Nat \ {0}
    /\ {LookupMax, MaxFaults, GeoMaxTime} \subseteq Nat
    /\ LookupMax < Grace

VARIABLES
    geoNow,
    upstream,  \* the version the URL serves
    file,      \* the version of the file at Path; 0: missing
    meta,      \* the version the .meta file describes; 0: none
    phase,     \* of the process: see the actions
    got,       \* the version fetch has downloaded
    opened,    \* readers opened so far, which tells them apart
    city,      \* GeoLocator.city: a set of at most one reader
    readers,   \* the open readers, and when they are to be closed
    using,     \* per looker: the reader of the lookup in progress and when it began
    faults,
    skewed     \* ghost: the last reload failed

geoVars == <<geoNow, upstream, file, meta, phase, got, city, readers, opened, using, faults, skewed>>

GeoInitAt(p) ==
    /\ geoNow = 0 /\ upstream = 1 /\ file = 0 /\ meta = 0 /\ phase = p /\ got = 0
    /\ city = {} /\ readers = [v \in {} |-> 0] /\ using = [l \in Looker |-> {}]
    /\ faults = 0 /\ skewed = FALSE /\ opened = 0

Fault == faults < MaxFaults /\ faults' = faults + 1

Never == GeoMaxTime + Grace + 1

\* Plausible bug: the replaced reader is closed at once.
swapNow(next) ==
    /\ city' = next
    /\ readers' = [r \in next |-> Never]
    /\ opened' = opened + Cardinality(next)

\* Install a reader, or none; the previous one is closed Grace later.
swap(next) ==
    /\ city' = next
    /\ readers' = [r \in DOMAIN readers \cup next |->
                     IF r \in next THEN Never ELSE IF r \in city THEN geoNow + Grace ELSE readers[r]]
    /\ opened' = opened + Cardinality(next)

\* fetch: the verified download is renamed to Path.
Place(v) == file' = v /\ got' = v /\ UNCHANGED meta

\* fetch: the validators, a write whose failure is ignored; what a torn
\* write leaves is no JSON and counts as no validators.
WriteMeta ==
    /\ phase \in {"ensured", "fetched"}
    /\ phase' = IF phase = "ensured" THEN "open" ELSE "reload"
    /\ \/ meta' = got /\ UNCHANGED faults
       \/ Fault /\ meta' \in {meta, 0}
    /\ UNCHANGED <<geoNow, upstream, file, got, city, readers, opened, using, skewed>>

\* Ensure: an existing file is used as it is, a missing one is downloaded; New fails when
\* that does.
Ensure ==
    /\ phase = "start"
    /\ \/ file # 0 /\ phase' = "open" /\ UNCHANGED <<file, meta, got, faults>>
       \/ file = 0 /\ phase' = "ensured" /\ Place(upstream) /\ UNCHANGED faults
       \/ file = 0 /\ Fault /\ UNCHANGED <<phase, file, meta, got>>
    /\ UNCHANGED <<geoNow, upstream, city, readers, opened, using, skewed>>

\* geoip2.Open of the file.
NewReader == {[version |-> file, n |-> opened]}

\* NewGeoLocator.
Open ==
    /\ phase = "open"
    /\ phase' = "idle" /\ skewed' = FALSE
    /\ swap(NewReader)
    /\ UNCHANGED <<geoNow, upstream, file, meta, got, using, faults>>

\* Plausible bug: nothing is requested while there are no validators.
RefreshKnown ==
    /\ phase = "idle" /\ meta \notin {0, upstream}
    /\ phase' = "fetched" /\ Place(upstream)
    /\ UNCHANGED <<geoNow, upstream, city, readers, opened, using, faults, skewed>>

\* RefreshLoop's tick: a conditional request.  Upstream answers "not modified" when it
\* still has the version that .meta describes; the download may fail or be rejected.
Refresh ==
    /\ phase = "idle" /\ meta # upstream
    /\ \/ phase' = "fetched" /\ Place(upstream) /\ UNCHANGED faults
       \/ Fault /\ UNCHANGED <<phase, file, got, meta>>
    /\ UNCHANGED <<geoNow, upstream, city, readers, opened, using, skewed>>

\* onUpdate: ReloadCity.  A failure is logged, and the old reader stays.
Reload ==
    /\ phase = "reload"
    /\ phase' = "idle"
    /\ \/ swap(NewReader) /\ skewed' = FALSE /\ UNCHANGED faults
       \/ Fault /\ skewed' = TRUE /\ UNCHANGED <<city, readers, opened>>
    /\ UNCHANGED <<geoNow, upstream, file, meta, got, using>>

\* Run has waited for the refresh loop.
CloseGeo ==
    /\ phase = "idle" /\ phase' = "closed"
    /\ swap({})
    /\ UNCHANGED <<geoNow, upstream, file, meta, got, using, faults, skewed>>

Crash ==
    /\ phase # "start" /\ Fault
    /\ phase' = "start" /\ city' = {} /\ readers' = [v \in {} |-> 0]
    /\ using' = [l \in Looker |-> {}]
    /\ UNCHANGED <<geoNow, upstream, file, meta, got, opened, skewed>>

\* A lookup loads the pointer, and fails when it is nil; then it reads the file.
LookupGeo(l) ==
    /\ using[l] = {} /\ city # {}
    /\ using' = [using EXCEPT ![l] = {[reader |-> r, from |-> geoNow] : r \in city}]
    /\ UNCHANGED <<geoNow, upstream, file, meta, phase, got, city, readers, opened, faults, skewed>>

LookupEnds(l) ==
    /\ using[l] # {}
    /\ using' = [using EXCEPT ![l] = {}]
    /\ UNCHANGED <<geoNow, upstream, file, meta, phase, got, city, readers, opened, faults, skewed>>

Publish ==
    /\ upstream < Versions /\ upstream' = upstream + 1
    /\ UNCHANGED <<geoNow, file, meta, phase, got, city, readers, opened, using, faults, skewed>>

\* Time passes, and the timers of swap close what is due.
GeoTick ==
    /\ geoNow < GeoMaxTime /\ geoNow' = geoNow + 1
    /\ \A l \in Looker : \A u \in using[l] : geoNow' - u.from <= LookupMax
    /\ readers' = [r \in {q \in DOMAIN readers : readers[q] > geoNow'} |-> readers[r]]
    /\ UNCHANGED <<upstream, file, meta, phase, got, city, opened, using, faults, skewed>>

GeoWork == Ensure \/ Open \/ Refresh \/ WriteMeta \/ Reload

GeoNext ==
    \/ GeoWork \/ CloseGeo \/ Crash \/ Publish \/ GeoTick
    \/ \E l \in Looker : LookupGeo(l) \/ LookupEnds(l)

\* The ticker fires and the process is restarted after a crash.
GeoSpec == GeoInitAt("start") /\ [][GeoNext]_geoVars /\ WF_geoVars(GeoWork)

-----------------------------------------------------------------------------
\* "closes the previous one after a grace period so in-flight lookups finish safely":
\* no lookup in progress uses a reader that has been closed.
NoClosedReader == \A l \in Looker : \A u \in using[l] : u.reader \in DOMAIN readers

\* When upstream stops publishing and the faults stop, the file becomes the version
\* upstream serves, or the process is closed.
FileCatchesUp == <>[](phase = "closed" \/ file = upstream)

=============================================================================
