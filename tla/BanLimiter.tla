----------------------------- MODULE BanLimiter -----------------------------
(***************************************************************************)
(* The ban life cycle of internal/ratelimit/ratelimit.go: the in-memory    *)
(* ban map, the goroutines that lift a ban after its cooldown, and the     *)
(* goroutines that copy every change to the banned_ips table (db/db.go)    *)
(* and to the kernel's ban_map (ebpf/manager.go), over crashes and         *)
(* restarts of the process.                                                *)
(*                                                                         *)
(* A ban entry carries a ghost identity `id' (the code compares no such    *)
(* thing): it tells one ban of a key from the next one.  Whether Record's  *)
(* two windows ask for a ban is a free choice here; module RateWindow      *)
(* models the windows themselves.                                          *)
(***************************************************************************)
EXTENDS Naturals, FiniteSets

CONSTANTS
    Key,            \* ip:port pairs (ipPortKey)
    Worker,         \* goroutines that call Record or ManualBan
    Cooldown,       \* BanCooldown, in ticks
    TicksPerSecond, \* RFC3339 keeps whole seconds only
    EbpfActive,     \* ebpfMgr # nil and IsActive()
    MaxTime,        \* bound: calls start, and the clock runs freely, before it
    MaxBans,        \* bound: calls start while fewer bans were made
    MaxCrashes,     \* bound: crashes of the process
    MaxFaults       \* bound: failing database or kernel calls

ASSUME LimiterAssumption ==
    /\ Cooldown \in Nat \ {0}
    /\ TicksPerSecond \in Nat \ {0}
    /\ EbpfActive \in BOOLEAN
    /\ MaxTime \in Nat /\ MaxBans \in Nat /\ MaxCrashes \in Nat /\ MaxFaults \in Nat

VARIABLES
    now,        \* the clock, in ticks
    phase,      \* "up", "down", or "loading": between query and use in LoadBans
    bans,       \* rl.bans: the entry of each key, NoBan when absent
    timers,     \* goroutines asleep in scheduleUnban
    calls,      \* Record and ManualBan calls in progress
    tasks,      \* goroutines that will write to the database or the kernel
    rows,       \* table banned_ips, NoBan when there is no row
    kmap,       \* ban_map: expiry per key, 0 when absent
    loaded,     \* LoadBans: the rows LoadActiveBans returned
    nextId,     \* ghost: identity of the next ban
    miscounted, \* ghost: onBan was called for a ban that the call did not make
    crashes, faults,
    unbanned,   \* ghost: keys an operator unbanned since the process started
    disturbed,  \* ghost: keys whose writes overlapped, failed or were lost
    atCrash     \* ghost: the ban map when the process died

vars == <<now, phase, bans, timers, calls, tasks, rows, kmap, loaded, nextId,
          miscounted, crashes, faults, unbanned, disturbed, atCrash>>

-----------------------------------------------------------------------------
Entry == [id : Nat, expiresAt : Nat]
NoBan == [id |-> 0, expiresAt |-> 0]
Timer == [key : Key, id : Nat, due : Nat]
Task  == [op : {"persist", "expire", "kban", "kunban"}, key : Key, entry : Entry]
Call  == [w : Worker, at : {"window", "insert", "spawn"},
          key : Key, since : Nat, entry : Entry]

\* expiresAt.UTC().Format(time.RFC3339): the fraction of a second is cut off.
RFC3339(t) == (t \div TicksPerSecond) * TicksPerSecond

PendingOn(k) == {t \in tasks : t.key = k}
SpawningOn(k) == {c \in calls : c.key = k /\ c.at = "spawn"}

\* No goroutine has a write for k still to do.
Quiet(k) == PendingOn(k) = {} /\ SpawningOn(k) = {}

\* The writes that one change of k's ban sends off, each in its own goroutine.
Writes(k, db, kernel, e) ==
    {[op |-> db, key |-> k, entry |-> e]} \cup
    (IF EbpfActive THEN {[op |-> kernel, key |-> k, entry |-> e]} ELSE {})

Free(w) == \A c \in calls : c.w # w
CallsMayStart == phase = "up" /\ now < MaxTime /\ nextId <= MaxBans
Banned(k) == bans[k] # NoBan

-----------------------------------------------------------------------------
Init ==
    /\ now = 0
    /\ phase = "up"
    /\ bans = [k \in Key |-> NoBan]
    /\ timers = {} /\ calls = {} /\ tasks = {}
    /\ rows = [k \in Key |-> NoBan]
    /\ kmap = [k \in Key |-> 0]
    /\ loaded = {}
    /\ nextId = 1
    /\ miscounted = FALSE
    /\ crashes = 0 /\ faults = 0
    /\ unbanned = {} /\ disturbed = {}
    /\ atCrash = [k \in Key |-> NoBan]

-----------------------------------------------------------------------------
(* Record *)

\* Record's check under the read lock; a banned key returns false at once.
RecordCheck(w, k) ==
    /\ CallsMayStart /\ Free(w)
    /\ ~Banned(k)
    /\ calls' = calls \cup {[w |-> w, at |-> "window", key |-> k,
                             since |-> 0, entry |-> NoBan]}
    /\ UNCHANGED <<now, phase, bans, timers, tasks, rows, kmap, loaded, nextId,
                   miscounted, crashes, faults, unbanned, disturbed, atCrash>>

\* The shard's critical section finds both windows below their thresholds.
RecordPass(c) ==
    /\ c.at = "window"
    /\ calls' = calls \ {c}
    /\ UNCHANGED <<now, phase, bans, timers, tasks, rows, kmap, loaded, nextId,
                   miscounted, crashes, faults, unbanned, disturbed, atCrash>>

\* ... or it finds one exceeded, and Record goes on to ban().
RecordTrip(c) ==
    /\ c.at = "window"
    /\ calls' = (calls \ {c}) \cup {[c EXCEPT !.at = "insert", !.since = now]}
    /\ UNCHANGED <<now, phase, bans, timers, tasks, rows, kmap, loaded, nextId,
                   miscounted, crashes, faults, unbanned, disturbed, atCrash>>

(* ManualBan: the check, and onBan("manual") before ban() *)
ManualBan(w, k) ==
    /\ CallsMayStart /\ Free(w)
    /\ ~Banned(k)
    /\ calls' = calls \cup {[w |-> w, at |-> "insert", key |-> k,
                             since |-> now, entry |-> NoBan]}
    /\ UNCHANGED <<now, phase, bans, timers, tasks, rows, kmap, loaded, nextId,
                   miscounted, crashes, faults, unbanned, disturbed, atCrash>>

(* ban *)

\* ban() finds that another call has banned the key already, and returns to a
\* Record that goes on to call onBan, or to a ManualBan that did so before.
BanExists(c) ==
    /\ c.at = "insert"
    /\ Banned(c.key)
    /\ calls' = calls \ {c}
    /\ miscounted' = TRUE
    /\ UNCHANGED <<now, phase, bans, timers, tasks, rows, kmap, loaded, nextId,
                   crashes, faults, unbanned, disturbed, atCrash>>

\* The insert itself.  ExpiresAt comes from a time.Now() read before the lock.
Insert(c, read) ==
    LET e == [id |-> nextId, expiresAt |-> read + Cooldown]
    IN  /\ bans' = [bans EXCEPT ![c.key] = e]
        /\ calls' = (calls \ {c}) \cup {[c EXCEPT !.at = "spawn", !.since = 0, !.entry = e]}
        /\ nextId' = nextId + 1
        /\ UNCHANGED <<now, phase, timers, tasks, rows, kmap, loaded, miscounted,
                       crashes, faults, unbanned, disturbed, atCrash>>

BanInsert(c) ==
    /\ c.at = "insert"
    /\ ~Banned(c.key)
    /\ \E read \in c.since .. now : Insert(c, read)

\* A change of k's ban is made while writes of an earlier one are under way.
Overlap(k, busy) == IF busy THEN disturbed \cup {k} ELSE disturbed

\* After the lock: the goroutines that persist, tell the kernel, and sleep.
SpawnWith(c, sleepers) ==
    /\ c.at = "spawn"
    /\ calls' = calls \ {c}
    /\ disturbed' = Overlap(c.key, PendingOn(c.key) # {} \/ SpawningOn(c.key) # {c})
    /\ tasks' = tasks \cup Writes(c.key, "persist", "kban", c.entry)
    /\ timers' = timers \cup sleepers
    /\ UNCHANGED <<now, phase, bans, rows, kmap, loaded, nextId, miscounted,
                   crashes, faults,
                   unbanned, atCrash>>

\* Plausible bug: no goroutine is left to lift the ban.
BanSpawnNoTimer(c) == SpawnWith(c, {})

BanSpawn(c) ==
    SpawnWith(c, {[key |-> c.key, id |-> c.entry.id, due |-> now + Cooldown]})

(* scheduleUnban and ManualUnban *)

\* Remove the key's entry and send off the deletes, whoever asked for it.
Lift(k) ==
    /\ disturbed' = Overlap(k, ~Quiet(k))
    /\ tasks' = tasks \cup Writes(k, "expire", "kunban", bans[k])
    /\ bans' = [bans EXCEPT ![k] = NoBan]

\* scheduleUnban wakes up and removes whatever entry the key has by now.
ScheduleUnban(t) ==
    /\ now >= t.due
    /\ timers' = timers \ {t}
    /\ IF Banned(t.key) THEN Lift(t.key) ELSE UNCHANGED <<bans, tasks, disturbed>>
    /\ UNCHANGED <<now, phase, calls, rows, kmap, loaded, nextId, miscounted, crashes,
                   faults, unbanned, atCrash>>

ManualUnban(k) ==
    /\ phase = "up"
    /\ Banned(k)
    /\ Lift(k)
    /\ unbanned' = unbanned \cup {k}
    /\ UNCHANGED <<now, phase, timers, calls, rows, kmap, loaded, nextId, miscounted,
                   crashes, faults, atCrash>>

-----------------------------------------------------------------------------
(* The writing goroutines *)

\* Plausible bug: a plain INSERT, which leaves a row that is there already.
PersistBanNoReplace(k, e) ==
    IF rows[k] # NoBan THEN rows
    ELSE [rows EXCEPT ![k] = [id |-> e.id, expiresAt |-> RFC3339(e.expiresAt)]]

\* INSERT OR REPLACE INTO banned_ips
PersistBan(k, e) ==
    [rows EXCEPT ![k] = [id |-> e.id, expiresAt |-> RFC3339(e.expiresAt)]]

\* DELETE FROM banned_ips
ExpireBan(k) == [rows EXCEPT ![k] = NoBan]

\* Manager.Ban: the expiry counts from the moment the kernel map is written.
KernelBan(k) == [kmap EXCEPT ![k] = now + Cooldown]

\* Manager.Unban: deleting an absent entry is no error.
KernelUnban(k) == [kmap EXCEPT ![k] = 0]

RunTask(t) ==
    /\ tasks' = tasks \ {t}
    /\ \/ t.op = "persist" /\ rows' = PersistBan(t.key, t.entry) /\ UNCHANGED kmap
       \/ t.op = "expire"  /\ rows' = ExpireBan(t.key)           /\ UNCHANGED kmap
       \/ t.op = "kban"    /\ kmap' = KernelBan(t.key)           /\ UNCHANGED rows
       \/ t.op = "kunban"  /\ kmap' = KernelUnban(t.key)         /\ UNCHANGED rows
    /\ UNCHANGED <<now, phase, bans, timers, calls, loaded, nextId, miscounted, crashes,
                   faults, unbanned, disturbed, atCrash>>

\* The write fails: it is logged and never tried again.
FailTask(t) ==
    /\ faults < MaxFaults
    /\ faults' = faults + 1
    /\ tasks' = tasks \ {t}
    /\ disturbed' = disturbed \cup {t.key}
    /\ UNCHANGED <<now, phase, bans, timers, calls, rows, kmap, loaded, nextId,
                   miscounted, crashes, unbanned, atCrash>>

-----------------------------------------------------------------------------
(* The end of the process and LoadBans *)

\* Memory, goroutines and the kernel's maps die with the process.
Crash ==
    /\ phase # "down" /\ crashes < MaxCrashes
    /\ crashes' = crashes + 1
    /\ phase' = "down"
    /\ bans' = [k \in Key |-> NoBan]
    /\ timers' = {} /\ calls' = {} /\ tasks' = {} /\ loaded' = {}
    /\ kmap' = [k \in Key |-> 0]
    /\ unbanned' = {}
    /\ disturbed' = disturbed \cup {k \in Key : ~Quiet(k)}
    /\ atCrash' = IF phase = "up" THEN bans ELSE atCrash
    /\ UNCHANGED <<now, rows, nextId, miscounted, faults>>

\* LoadActiveBans: WHERE expires_at > now, both cut to whole seconds.
LoadQuery ==
    /\ phase = "down"
    /\ phase' = "loading"
    /\ loaded' = {k \in Key : rows[k] # NoBan /\ rows[k].expiresAt > RFC3339(now)}
    /\ UNCHANGED <<now, bans, timers, calls, tasks, rows, kmap, nextId, miscounted,
                   crashes, faults, unbanned, disturbed, atCrash>>

\* The query fails and the limiter starts with no bans.
LoadFail ==
    /\ phase = "down" /\ faults < MaxFaults
    /\ faults' = faults + 1
    /\ phase' = "up"
    /\ disturbed' = disturbed \cup {k \in Key : rows[k] # NoBan}
    /\ UNCHANGED <<now, bans, timers, calls, tasks, rows, kmap, loaded, nextId,
                   miscounted, crashes, unbanned, atCrash>>

\* Rows that have expired since the query are deleted, the others seed the ban
\* map, a goroutine to lift each, and the kernel (refused for the keys in bad).
LoadWith(live, bad) ==
    /\ phase = "loading"
    /\ bad # {} => EbpfActive /\ faults < MaxFaults
    /\ phase' = "up"
    /\ loaded' = {}
    /\ bans' = [k \in Key |-> IF k \in live THEN rows[k] ELSE NoBan]
    /\ timers' = {[key |-> k, id |-> rows[k].id, due |-> rows[k].expiresAt] : k \in live}
    /\ tasks' = {[op |-> "expire", key |-> k, entry |-> rows[k]] : k \in loaded \ live}
    /\ kmap' = [k \in Key |->
                  IF EbpfActive /\ k \in live \ bad /\ rows[k].expiresAt > now
                  THEN rows[k].expiresAt ELSE 0]
    /\ faults' = IF bad = {} THEN faults ELSE faults + 1
    /\ disturbed' = disturbed \cup bad
    /\ UNCHANGED <<now, calls, rows, nextId, miscounted, crashes, unbanned, atCrash>>

Unexpired == {k \in loaded : rows[k].expiresAt >= now}

\* Plausible bug: a restarted process forgets the bans in their last second.
LoadBansEarlyExpiry ==
    LET live == {k \in loaded : rows[k].expiresAt > now + TicksPerSecond}
    IN  \E bad \in SUBSET live : LoadWith(live, bad)

LoadBans == \E bad \in SUBSET Unexpired : LoadWith(Unexpired, bad)

-----------------------------------------------------------------------------
\* Time passes.  From MaxTime on it only runs to let sleeping timers wake.
Tick ==
    /\ now < MaxTime \/ (timers # {} /\ calls = {} /\ \A t \in timers : t.due > now)
    /\ now' = now + 1
    /\ UNCHANGED <<phase, bans, timers, calls, tasks, rows, kmap, loaded, nextId,
                   miscounted, crashes, faults, unbanned, disturbed, atCrash>>

\* The bounded history is over; nothing is left to do.
Finished ==
    /\ phase = "up" /\ now >= MaxTime
    /\ timers = {} /\ calls = {} /\ tasks = {}
    /\ UNCHANGED vars

Next ==
    \/ \E w \in Worker, k \in Key : RecordCheck(w, k) \/ ManualBan(w, k)
    \/ \E c \in calls : \/ RecordPass(c) \/ RecordTrip(c)
                        \/ BanExists(c) \/ BanInsert(c) \/ BanSpawn(c)
    \/ \E t \in timers : ScheduleUnban(t)
    \/ \E k \in Key : ManualUnban(k)
    \/ \E t \in tasks : RunTask(t) \/ FailTask(t)
    \/ Crash \/ LoadQuery \/ LoadFail \/ LoadBans
    \/ Tick
    \/ Finished

Spec == Init /\ [][Next]_vars

\* Goroutines get to run, timers wake, and time goes on.
Fairness ==
    /\ WF_vars(Tick)
    /\ \A w \in Worker : WF_vars(\E c \in calls : /\ c.w = w
                              /\ \/ RecordPass(c) \/ RecordTrip(c)
                                 \/ BanExists(c) \/ BanInsert(c) \/ BanSpawn(c))
    /\ \A k \in Key : WF_vars(\E t \in timers : t.key = k /\ ScheduleUnban(t))

FairSpec == Spec /\ Fairness

-----------------------------------------------------------------------------
(* Properties *)

\* Every variable of the limiter keeps its type.
TypeOK ==
    /\ now \in Nat
    /\ phase \in {"up", "down", "loading"}
    /\ bans \in [Key -> Entry]
    /\ timers \subseteq Timer /\ calls \subseteq Call /\ tasks \subseteq Task
    /\ rows \in [Key -> Entry]
    /\ kmap \in [Key -> Nat]
    /\ loaded \subseteq Key
    /\ nextId \in Nat \ {0}
    /\ miscounted \in BOOLEAN
    /\ crashes \in Nat /\ faults \in Nat
    /\ unbanned \subseteq Key /\ disturbed \subseteq Key
    /\ atCrash \in [Key -> Entry]

\* scheduleUnban is the only way a ban ends by itself: every entry of the ban
\* map has a goroutine of its own asleep, or a ban() call that is about to
\* start it, whatever races, unbans and restarts came before.
BanHasTimer ==
    \A k \in Key : Banned(k) =>
        \/ \E t \in timers : t.key = k /\ t.id = bans[k].id
        \/ \E c \in SpawningOn(k) : c.entry = bans[k]

\* As long as no operator has unbanned the key in this process, a ban that
\* scheduleUnban removes has lasted until its ExpiresAt.
UnbanNotEarly ==
    [][\A k \in Key :
         (Banned(k) /\ bans'[k] = NoBan /\ phase' = "up" /\ k \notin unbanned')
            => now >= bans[k].expiresAt]_vars

\* If the writes of a key's changes never overlapped, failed or were lost,
\* then once they are done the table and the kernel agree with the ban map:
\* a ban has its row and is dropped by the kernel for at least as long; a key
\* without a ban has no row that a restart would load, and no kernel entry.
SyncedWhenQuiet ==
    \A k \in Key \ disturbed : phase = "up" /\ Quiet(k) =>
        IF Banned(k)
        THEN /\ rows[k].id = bans[k].id
             /\ rows[k].expiresAt = RFC3339(bans[k].expiresAt)
             /\ EbpfActive /\ bans[k].expiresAt > now => kmap[k] >= bans[k].expiresAt
        ELSE /\ rows[k] # NoBan => rows[k].expiresAt <= now
             /\ kmap[k] = 0

\* LoadBans brings back exactly what was banned when the process died: an
\* undisturbed ban with time left (in whole seconds) is in force again with
\* the expiry it had, and no key comes back banned that was not.
RestartRestoresBans ==
    [][phase = "loading" /\ phase' = "up" =>
         \A k \in Key \ disturbed :
            /\ RFC3339(atCrash[k].expiresAt) > now => bans'[k].id = atCrash[k].id
            /\ bans'[k] # NoBan => bans'[k].id = atCrash[k].id]_vars

\* Every ban ends, in memory, whatever happens to the process.
EveryBanEnds ==
    \A k \in Key, i \in 1 .. MaxBans + Cardinality(Worker) :
        (bans[k].id = i) ~> (bans[k].id # i)

-----------------------------------------------------------------------------
(* Claims of the source's comments that the code does not keep *)

\* "ManualBan immediately bans ip:port for the standard BanCooldown duration"
\* (and ban() does the same for Record): a ban that a timer removes has lasted
\* until its ExpiresAt, even if an earlier ban of the key was lifted by hand.
BanLastsCooldown ==
    [][\A k \in Key :
         (Banned(k) /\ bans'[k] = NoBan /\ timers' # timers /\ phase' = "up")
            => now >= bans[k].expiresAt]_vars

\* "It is both held in memory and persisted to the banned_ips table": once
\* every write of a banned key is done, the row in the table is the ban's.
BansArePersisted ==
    \A k \in Key : phase = "up" /\ Quiet(k) /\ Banned(k) => rows[k].id = bans[k].id

\* "onBan is called (non-blocking) when a ban is created", and ManualBan
\* "Returns false if the IP+port is already banned": a call that reports a ban
\* has made one.
OnBanMeansBan == ~miscounted

=============================================================================
