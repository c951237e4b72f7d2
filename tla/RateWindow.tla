----------------------------- MODULE RateWindow -----------------------------
(***************************************************************************)
(* The decision of Limiter.Record (internal/ratelimit/ratelimit.go) whether *)
(* to ban a key: a one-second window for floods, a long window for slow    *)
(* sources, the sweep that forgets idle keys, and the clearing of a key    *)
(* that an operator unbans.  Every key has its own rateState, so the module *)
(* follows one.                                                            *)
(*                                                                         *)
(* An event is its position in `log', the times at which the shard's       *)
(* critical section ran; a window is a set of events.  Timestamps enter a  *)
(* slice in order, so dropping the stale prefix drops the stale events.    *)
(* A key without a rateState and one with an empty rateState behave alike. *)
(***************************************************************************)
EXTENDS Naturals, Sequences, FiniteSets

CONSTANTS
    RateThreshold,   \* events per Second above which a key is flooding
    SustainWindow,   \* how long it must flood to be banned
    VolumeThreshold, \* events per VolumeWindow that ban a key
    VolumeWindow,
    GCMaxAge,        \* rateGC forgets keys idle for longer
    Second,          \* ticks per second
    MaxTime,         \* bound on the clock
    MaxEvents,       \* bound on the events
    MaxPassed        \* bound on Record calls between the ban check and the shard

ASSUME WindowAssumption ==
    /\ RateThreshold \in Nat \ {0}
    /\ VolumeThreshold \in Nat \ {0}
    /\ SustainWindow \in Nat /\ VolumeWindow \in Nat /\ Second \in Nat \ {0}
    /\ GCMaxAge \in Nat /\ GCMaxAge >= VolumeWindow
    /\ MaxTime \in Nat /\ MaxEvents \in Nat /\ MaxPassed \in Nat

VARIABLES
    now,
    log,        \* ghost: the time of every event
    rate,       \* the key's rateState
    cleared,    \* ghost: events up to this one were forgotten on purpose
    banned,     \* the key is in the ban map
    passed,     \* Record calls that saw no ban and have yet to lock the shard
    clearing,   \* ManualUnban has lifted the ban and will clear the rateState
    reason      \* ghost: what the last event led to

vars == <<now, log, rate, cleared, banned, passed, clearing, reason>>

-----------------------------------------------------------------------------
\* timestamps, volumeTimestamps and highSince (the event that set it, or 0)
NoRate == [ts |-> {}, vol |-> {}, high |-> 0]

\* The events of a window that are not before the cutoff.
Recent(l, w, age) == {i \in w : l[i] + age >= now}

Init ==
    /\ now = 0
    /\ log = <<>>
    /\ rate = NoRate
    /\ cleared = 0
    /\ banned = FALSE
    /\ passed = 0
    /\ clearing = FALSE
    /\ reason = "none"

\* Record: the ban check under the read lock.
RecordCheck ==
    /\ ~banned
    /\ passed < MaxPassed
    /\ passed' = passed + 1
    /\ UNCHANGED <<now, log, rate, cleared, banned, clearing, reason>>

\* Plausible bug: highSince is kept when the rate falls again.
ObserveSticky(l, e) ==
    LET ts == Recent(l, rate.ts \cup {e}, Second)
    IN  [ts   |-> ts,
         vol  |-> Recent(l, rate.vol \cup {e}, VolumeWindow),
         high |-> IF Cardinality(ts) > RateThreshold /\ rate.high = 0 THEN e ELSE rate.high]

\* The rateState an event leaves behind, before the checks for a ban.
Observe(l, e) ==
    LET ts == Recent(l, rate.ts \cup {e}, Second)
    IN  [ts   |-> ts,
         vol  |-> Recent(l, rate.vol \cup {e}, VolumeWindow),
         high |-> IF Cardinality(ts) <= RateThreshold THEN 0
                  ELSE IF rate.high = 0 THEN e ELSE rate.high]

Flooded(l, st) == st.high # 0 /\ now - l[st.high] >= SustainWindow

\* Record's critical section on the shard.  A key to be banned loses its
\* rateState; ban() then puts it in the ban map.
Judge ==
    LET l  == Append(log, now)
        st == Observe(l, Len(l))
        why == IF Flooded(l, st) THEN "flood"
               ELSE IF Cardinality(st.vol) >= VolumeThreshold THEN "volume"
               ELSE "pass"
    IN  /\ Len(log) < MaxEvents
        /\ passed' = passed - 1
        /\ log' = l
        /\ reason' = why
        /\ IF why = "pass"
           THEN rate' = st /\ UNCHANGED <<cleared, banned>>
           ELSE rate' = NoRate /\ cleared' = Len(l) /\ banned' = TRUE
        /\ UNCHANGED <<now, clearing>>

RecordEvent == passed > 0 /\ Judge

\* ManualBan leaves the rateState alone.
ManualBan ==
    /\ ~banned
    /\ banned' = TRUE
    /\ UNCHANGED <<now, log, rate, cleared, passed, clearing, reason>>

\* scheduleUnban leaves the rateState alone, too.
ScheduleUnban ==
    /\ banned
    /\ banned' = FALSE
    /\ UNCHANGED <<now, log, rate, cleared, passed, clearing, reason>>

\* ManualUnban: first the ban map, then the rateState.
ManualUnban ==
    /\ banned /\ ~clearing
    /\ banned' = FALSE
    /\ clearing' = TRUE
    /\ UNCHANGED <<now, log, rate, cleared, passed, reason>>

ClearRate ==
    /\ clearing
    /\ clearing' = FALSE
    /\ rate' = NoRate
    /\ cleared' = Len(log)
    /\ UNCHANGED <<now, log, banned, passed, reason>>

\* Plausible bug: the sweep looks at the one-second window only.
RateGCShort ==
    /\ rate # NoRate
    /\ \A i \in rate.ts : log[i] + Second < now
    /\ rate' = NoRate
    /\ UNCHANGED <<now, log, cleared, banned, passed, clearing, reason>>

\* rateGC deletes the rateState of a key whose last event is older than
\* GCMaxAge; the cutoff is computed once, before the sweep of the shards.
RateGC ==
    /\ rate # NoRate
    /\ \E read \in 0 .. now :
          \A i \in rate.ts \cup rate.vol : log[i] + GCMaxAge < read
    /\ rate' = NoRate
    /\ UNCHANGED <<now, log, cleared, banned, passed, clearing, reason>>

Tick ==
    /\ now < MaxTime
    /\ now' = now + 1
    /\ UNCHANGED <<log, rate, cleared, banned, passed, clearing, reason>>

Next ==
    \/ RecordCheck \/ RecordEvent
    \/ ManualBan \/ ScheduleUnban \/ ManualUnban \/ ClearRate
    \/ RateGC
    \/ Tick

Spec == Init /\ [][Next]_vars

-----------------------------------------------------------------------------
(* Properties *)

Event == 1 .. Len(log)

\* The windows hold events, in the order of the log.
TypeOK ==
    /\ now \in Nat
    /\ log \in Seq(Nat)
    /\ rate \in [ts : SUBSET Event, vol : SUBSET Event, high : Event \cup {0}]
    /\ cleared \in 0 .. Len(log)
    /\ banned \in BOOLEAN /\ clearing \in BOOLEAN
    /\ passed \in Nat
    /\ reason \in {"none", "pass", "flood", "volume"}

\* The events that count, by the definition of the two rules: those since the
\* last ban or unban cleared the key, up to event j and no older than age.
Counted(l, from, j, age) == {i \in from + 1 .. j : l[i] + age >= l[j]}

\* "30 or more events within any rolling 10-minute window": an event leads to a
\* volume ban exactly when, with it, that many events of the last VolumeWindow
\* count (and no flood ban came first), although windows are pruned, keys are
\* swept by rateGC and operators ban and unban in between.
VolumeBanExact ==
    [][log' # log =>
         LET j == Len(log')
         IN  (reason' = "volume") <=>
               /\ Cardinality(Counted(log', cleared, j, VolumeWindow)) >= VolumeThreshold
               /\ reason' # "flood"]_vars

\* When both windows allow the volume rule's events to pass at the pace of one
\* per second, as the shipped constants do (30 events, 10-minute windows), the
\* volume ban always comes first: the flood rule of Record never bans.
FloodBanUnreachable ==
    (Second * VolumeThreshold <= SustainWindow /\ Second * VolumeThreshold <= VolumeWindow)
        => reason # "flood"

=============================================================================
