------------------------ MODULE BanLimiterSyncProofs ------------------------
(***************************************************************************)
(* The banned_ips table and the XDP ban_map follow the ban map, and a      *)
(* restart restores it, for any keys, goroutines, cooldown and bounds.     *)
(***************************************************************************)
EXTENDS BanLimiterProofs

\* A row that no restart will load from now on.
Expired(e) == e = NoBan \/ e.expiresAt <= now

\* The row of a key is that of an entry, its expiry as the database stores it.
RowOf(k, e) == rows[k].id = e.id /\ rows[k].expiresAt = RFC3339(e.expiresAt)

\* A write for the key is still to be done.
Waiting(k, op) == \E t \in tasks : t.key = k /\ t.op = op

\* Where the writes of an undisturbed key's last change stand.
Settling(k) ==
    IF Banned(k) /\ SpawningOn(k) = {}
    THEN /\ \A t \in PendingOn(k) : t.op \in {"persist", "kban"} /\ t.entry = bans[k]
         /\ Waiting(k, "persist") \/ RowOf(k, bans[k])
         /\ EbpfActive /\ bans[k].expiresAt > now =>
               Waiting(k, "kban") \/ kmap[k] >= bans[k].expiresAt
    ELSE /\ \A t \in PendingOn(k) : t.op \in {"expire", "kunban"}
         /\ Waiting(k, "expire") \/ Expired(rows[k])
         /\ Waiting(k, "kunban") \/ kmap[k] = 0
         /\ ~Banned(k) => SpawningOn(k) = {}
         /\ \A c, d \in SpawningOn(k) : c = d /\ c.entry = bans[k]

\* After a crash the table still tells what was banned when it happened.
Recoverable(k) ==
    IF atCrash[k] # NoBan THEN RowOf(k, atCrash[k])
                          ELSE Expired(rows[k]) /\ k \notin loaded

\* What is true of an undisturbed key, whatever the process does.
Synced(k) == IF phase = "up" THEN Settling(k) ELSE Recoverable(k)

\* It is true of every undisturbed key.
SyncedEach == \A k \in Key \ disturbed : Synced(k)

\* The rows a query skipped have expired.
QueryComplete == phase = "loading" => \A k \in Key \ loaded : Expired(rows[k])

\* Stored expiries are whole seconds.
WholeSeconds == \A k \in Key : RFC3339(rows[k].expiresAt) = rows[k].expiresAt

\* Nothing goes to a kernel that has no XDP program.
KernelUnused ==
    ~EbpfActive => /\ \A k \in Key : kmap[k] = 0
                   /\ \A t \in tasks : t.op \in {"persist", "expire"}

\* What every step keeps of the memory, the database and the kernel.
SyncInv == TimerInv /\ SyncedEach /\ QueryComplete /\ WholeSeconds /\ KernelUnused

-----------------------------------------------------------------------------
(* The table and the kernel follow the ban map *)

\* Every step leaves the kernel map alone when there is no XDP program.
LEMMA KernelUnusedStep ==
    TimerInv /\ KernelUnused /\ [Next]_vars => KernelUnused'
<1> SUFFICES ASSUME TimerInv, KernelUnused, [Next]_vars, ~EbpfActive
             PROVE  /\ \A k \in Key : kmap'[k] = 0
                    /\ \A t \in tasks' : t.op \in {"persist", "expire"}
  BY DEF KernelUnused
<1>1. /\ \A k \in Key : kmap[k] = 0
      /\ \A t \in tasks : t.op \in {"persist", "expire"}
  BY DEF KernelUnused
<1>2. CASE UNCHANGED <<kmap, tasks>>
  BY <1>1, <1>2
<1>3. ASSUME NEW c \in calls, BanSpawn(c)
      PROVE  KernelUnused'
  BY <1>1, <1>3 DEF BanSpawn, SpawnWith, Writes, KernelUnused
<1>4. ASSUME NEW t \in timers, ScheduleUnban(t)
      PROVE  KernelUnused'
  BY <1>1, <1>4 DEF ScheduleUnban, Lift, Writes, KernelUnused
<1>5. ASSUME NEW k \in Key, ManualUnban(k)
      PROVE  KernelUnused'
  BY <1>1, <1>5 DEF ManualUnban, Lift, Writes, KernelUnused
<1>6. ASSUME NEW t \in tasks, RunTask(t) \/ FailTask(t)
      PROVE  KernelUnused'
  BY <1>1, <1>6 DEF RunTask, FailTask, KernelUnused
<1>7. CASE Crash
  BY <1>1, <1>7 DEF Crash
<1>8. CASE LoadBans
  BY <1>1, <1>8 DEF LoadBans, LoadWith
<1>9. QED
  BY <1>2, <1>3, <1>4, <1>5, <1>6, <1>7, <1>8
  DEF Next, RecordCheck, ManualBan, RecordPass, RecordTrip, BanExists, BanInsert,
      Insert, LoadQuery, LoadFail, Tick, Finished, vars, KernelUnused

\* Every step keeps the stored expiries in whole seconds.
LEMMA WholeSecondsStep ==
    TimerInv /\ WholeSeconds /\ [Next]_vars => WholeSeconds'
<1> SUFFICES ASSUME TimerInv, WholeSeconds, [Next]_vars
             PROVE  WholeSeconds'
  OBVIOUS
<1>1. CASE UNCHANGED rows
  BY <1>1 DEF WholeSeconds, RFC3339
<1>2. ASSUME NEW t \in tasks, RunTask(t)
      PROVE  WholeSeconds'
  <2>1. t.key \in Key /\ t.entry.expiresAt \in Nat
    BY DEF TimerInv, TypeOK, Task, Entry
  <2> DEFINE e == [id |-> t.entry.id, expiresAt |-> RFC3339(t.entry.expiresAt)]
  <2>2. RFC3339(e.expiresAt) = e.expiresAt
    BY <2>1, RFC3339Facts
  <2>3. RFC3339(NoBan.expiresAt) = NoBan.expiresAt
    <3>1. RFC3339(0) \in Nat /\ RFC3339(0) <= 0
      BY RFC3339Facts
    <3>2. QED
      BY <3>1 DEF NoBan
  <2>4. \/ rows' = rows
        \/ rows' = [rows EXCEPT ![t.key] = e]
        \/ rows' = [rows EXCEPT ![t.key] = NoBan]
    BY <1>2 DEF RunTask, PersistBan, ExpireBan
  <2> HIDE DEF e
  <2>5. \A k \in Key : RFC3339(rows'[k].expiresAt) = rows'[k].expiresAt
    BY <2>1, <2>2, <2>3, <2>4 DEF WholeSeconds, TimerInv, TypeOK
  <2>6. QED
    BY <2>5 DEF WholeSeconds, RFC3339
<1>3. QED
  BY <1>1, <1>2
  DEF Next, RecordCheck, ManualBan, RecordPass, RecordTrip, BanExists, BanInsert,
      Insert, BanSpawn, SpawnWith, ScheduleUnban, ManualUnban, FailTask, Crash,
      LoadQuery, LoadFail, LoadBans, LoadWith, Tick, Finished, vars

\* Every step keeps the result of the query of a load complete.
LEMMA QueryCompleteStep ==
    TimerInv /\ QueryComplete /\ [Next]_vars => QueryComplete'
<1> SUFFICES ASSUME TimerInv, QueryComplete, [Next]_vars, phase' = "loading",
                    NEW k \in Key, k \notin loaded'
             PROVE  Expired(rows[k])'
  BY DEF QueryComplete
<1>1. now \in Nat /\ rows[k].expiresAt \in Nat
  BY DEF TimerInv, TypeOK, Entry
<1>2. CASE LoadQuery
  <2>1. rows[k] = NoBan \/ rows[k].expiresAt <= RFC3339(now)
    BY <1>1, <1>2, RFC3339Facts DEF LoadQuery
  <2>2. QED
    BY <1>1, <1>2, <2>1, RFC3339Facts DEF LoadQuery, Expired
<1>3. CASE phase = "loading"
  <2>1. Expired(rows[k]) \/ k \in loaded
    BY <1>3 DEF QueryComplete
  <2>2. UNCHANGED <<rows, loaded>> /\ now' \in {now, now + 1}
    BY <1>3
    DEF TimerInv, DownIsEmpty, Next, RecordCheck, ManualBan, CallsMayStart, ManualUnban,
        Crash, LoadQuery, LoadFail, LoadBans, LoadWith, Tick, Finished, vars
  <2>3. QED
    BY <1>1, <2>1, <2>2 DEF Expired
<1>4. QED
  BY <1>2, <1>3
  DEF TimerInv, DownIsEmpty, Next, RecordCheck, ManualBan, RecordPass, RecordTrip,
      BanExists, BanInsert, Insert, BanSpawn, SpawnWith, ScheduleUnban, ManualUnban,
      RunTask, FailTask, Crash, LoadFail, LoadBans, LoadWith, Tick, Finished, vars

\* A change of a ban sends off a database write and, with XDP, a kernel write.
LEMMA WritesFacts ==
    ASSUME NEW k, NEW db, NEW kernel, NEW e
    PROVE  /\ \A t \in Writes(k, db, kernel, e) :
                 t.key = k /\ t.op \in {db, kernel} /\ t.entry = e
           /\ \E t \in Writes(k, db, kernel, e) : t.key = k /\ t.op = db
           /\ EbpfActive => \E t \in Writes(k, db, kernel, e) : t.key = k /\ t.op = kernel
<1> DEFINE d == [op |-> db, key |-> k, entry |-> e]
           n == [op |-> kernel, key |-> k, entry |-> e]
<1>1. d.key = k /\ d.op = db /\ n.key = k /\ n.op = kernel
  OBVIOUS
<1>2. d \in Writes(k, db, kernel, e) /\ (EbpfActive => n \in Writes(k, db, kernel, e))
  BY DEF Writes
<1>3. \A t \in Writes(k, db, kernel, e) : t = d \/ t = n
  BY DEF Writes
<1>4. QED
  BY <1>1, <1>2, <1>3

\* Every step keeps every undisturbed key synced.
LEMMA SyncedStep == SyncInv /\ [Next]_vars => SyncedEach'
<1> SUFFICES ASSUME SyncInv, [Next]_vars, NEW k \in Key, k \notin disturbed'
             PROVE  Synced(k)'
  BY DEF SyncedEach
<1> USE DEF SyncInv, TimerInv
<1>1. /\ now \in Nat /\ bans[k] \in Entry /\ rows[k] \in Entry /\ kmap[k] \in Nat
      /\ bans[k].expiresAt \in Nat /\ rows[k].expiresAt \in Nat /\ NoBan.expiresAt = 0
  BY DEF TypeOK, Entry, NoBan
<1>2. k \notin disturbed => Synced(k)
  BY DEF SyncedEach
\* Writes and changes of other keys, and the passage of time.
<1>3. ASSUME Synced(k), phase' = phase, now' \in {now, now + 1},
             UNCHANGED <<atCrash, loaded>>,
             bans'[k] = bans[k], rows'[k] = rows[k], kmap'[k] = kmap[k],
             \A t : t.key = k => (t \in tasks' <=> t \in tasks),
             \A c : c.key = k /\ c.at = "spawn" => (c \in calls' <=> c \in calls)
      PROVE  Synced(k)'
  <2>1. SpawningOn(k)' = SpawningOn(k) /\ PendingOn(k)' = PendingOn(k)
    BY <1>3 DEF SpawningOn, PendingOn
  <2>2. \A op : Waiting(k, op)' <=> Waiting(k, op)
    BY <1>3 DEF Waiting
  <2>3. Expired(rows[k]) => Expired(rows[k])'
    BY <1>1, <1>3 DEF Expired
  <2>4. bans'[k].expiresAt > now' => bans[k].expiresAt > now
    BY <1>1, <1>3
  <2>5. \A e : RowOf(k, e)' <=> RowOf(k, e)
    BY <1>3 DEF RowOf, RFC3339
  <2>6. CASE phase = "up"
    <3>1. Settling(k) /\ (Banned(k)' <=> Banned(k))
      BY <1>3, <2>6 DEF Synced, Banned
    <3>2. CASE Banned(k) /\ SpawningOn(k) = {}
      <4>1. \A t \in PendingOn(k)' : t.op \in {"persist", "kban"} /\ t.entry = bans'[k]
        BY <1>3, <2>1, <3>1, <3>2 DEF Settling
      <4>2. Waiting(k, "persist")' \/ RowOf(k, bans[k])'
        BY <1>3, <2>2, <2>5, <3>1, <3>2 DEF Settling
      <4>3. EbpfActive /\ bans'[k].expiresAt > now' =>
               Waiting(k, "kban")' \/ kmap'[k] >= bans'[k].expiresAt
        BY <1>3, <2>2, <2>4, <3>1, <3>2 DEF Settling
      <4>4. QED
        BY <1>3, <2>1, <2>6, <3>1, <3>2, <4>1, <4>2, <4>3 DEF Synced, Settling
    <3>3. CASE ~(Banned(k) /\ SpawningOn(k) = {})
      <4>1. /\ \A t \in PendingOn(k)' : t.op \in {"expire", "kunban"}
            /\ \A c, d \in SpawningOn(k)' : c = d /\ c.entry = bans'[k]
        BY <1>3, <2>1, <3>1, <3>3 DEF Settling
      <4>2. Waiting(k, "expire")' \/ Expired(rows[k])'
        BY <2>2, <2>3, <3>1, <3>3 DEF Settling
      <4>3. Waiting(k, "kunban")' \/ kmap'[k] = 0
        BY <1>3, <2>2, <3>1, <3>3 DEF Settling
      <4>4. ~Banned(k)' => SpawningOn(k)' = {}
        BY <2>1, <3>1, <3>3 DEF Settling
      <4>5. QED
        BY <1>3, <2>1, <2>6, <3>1, <3>3, <4>1, <4>2, <4>3, <4>4 DEF Synced, Settling
    <3>4. QED
      BY <3>2, <3>3
  <2>7. CASE phase # "up"
    BY <1>3, <2>3, <2>5, <2>7 DEF Synced, Recoverable
  <2>8. QED
    BY <2>6, <2>7
<1>4. ASSUME NEW w \in Worker, NEW j \in Key, RecordCheck(w, j) \/ ManualBan(w, j)
      PROVE  Synced(k)'
  <2>1. \A c : c.at = "spawn" => (c \in calls' <=> c \in calls)
    BY <1>4 DEF RecordCheck, ManualBan
  <2>2. UNCHANGED <<now, phase, bans, tasks, rows, kmap, loaded, disturbed, atCrash>>
    BY <1>4 DEF RecordCheck, ManualBan
  <2>3. Synced(k)
    BY <1>2, <2>2
  <2>4. QED
    BY <1>3, <2>1, <2>2, <2>3
<1>5. ASSUME NEW c \in calls, RecordPass(c) \/ RecordTrip(c) \/ BanExists(c)
      PROVE  Synced(k)'
  BY <1>2, <1>3, <1>5 DEF RecordPass, RecordTrip, BanExists, TypeOK, Call
<1>6. ASSUME NEW c \in calls, BanInsert(c)
      PROVE  Synced(k)'
  <2>1. PICK read \in c.since .. now : Insert(c, read)
    BY <1>6 DEF BanInsert
  <2> DEFINE e == [id |-> nextId, expiresAt |-> read + Cooldown]
             d == [c EXCEPT !.at = "spawn", !.since = 0, !.entry = e]
  <2>2. /\ d.key = c.key /\ d.at = "spawn" /\ d.entry = e
        /\ c.at = "insert" /\ c.key \in Key
    BY <1>6 DEF TypeOK, Call, BanInsert
  <2>3. /\ bans' = [bans EXCEPT ![c.key] = e]
        /\ calls' = (calls \ {c}) \cup {d}
        /\ UNCHANGED <<now, phase, tasks, rows, kmap, loaded, disturbed, atCrash>>
    BY <2>1 DEF Insert
  <2>4. e # NoBan
    BY DEF NoBan, TypeOK
  <2> HIDE DEF d, e
  <2>5. Synced(k)
    BY <1>2, <2>3
  <2>6. CASE k # c.key
    BY <1>3, <2>2, <2>3, <2>5, <2>6 DEF TypeOK
  <2>7. CASE k = c.key
    <3>1. phase = "up" /\ ~Banned(k)
      BY <1>6, <2>7 DEF DownIsEmpty, BanInsert
    <3>2. Settling(k) /\ SpawningOn(k) = {}
      BY <2>5, <3>1 DEF Synced, Settling
    <3>3. SpawningOn(k)' = {d} /\ bans'[k] = e
      BY <2>2, <2>3, <2>7, <3>2 DEF SpawningOn, TypeOK
    <3>4. PendingOn(k)' = PendingOn(k) /\ \A op : Waiting(k, op)' <=> Waiting(k, op)
      BY <2>3 DEF PendingOn, Waiting
    <3>5. Expired(rows[k])' <=> Expired(rows[k])
      BY <2>3 DEF Expired
    <3>6. Banned(k)'
      BY <2>4, <3>3 DEF Banned
    <3>7. Settling(k)'
      BY <2>2, <2>3, <3>1, <3>2, <3>3, <3>4, <3>5, <3>6 DEF Settling
    <3>8. QED
      BY <2>3, <3>1, <3>7 DEF Synced
  <2>8. QED
    BY <2>6, <2>7
<1>7. ASSUME NEW c \in calls, BanSpawn(c)
      PROVE  Synced(k)'
  <2>1. /\ calls' = calls \ {c} /\ c.at = "spawn" /\ c.key \in Key
        /\ tasks' = tasks \cup Writes(c.key, "persist", "kban", c.entry)
        /\ disturbed' = Overlap(c.key, PendingOn(c.key) # {} \/ SpawningOn(c.key) # {c})
        /\ UNCHANGED <<now, phase, bans, rows, kmap, loaded, atCrash>>
    BY <1>7 DEF BanSpawn, SpawnWith, TypeOK, Call
  <2>2. \A t \in Writes(c.key, "persist", "kban", c.entry) :
            t.key = c.key /\ t.op \in {"persist", "kban"} /\ t.entry = c.entry
    BY WritesFacts
  <2>3. Synced(k)
    BY <1>2, <2>1 DEF Overlap
  <2>4. CASE k # c.key
    BY <1>3, <2>1, <2>2, <2>3, <2>4
  <2>5. CASE k = c.key
    <3>1. phase = "up" /\ PendingOn(k) = {} /\ SpawningOn(k) = {c}
      BY <2>1, <2>5 DEF DownIsEmpty, Overlap
    <3>2. Banned(k) /\ c.entry = bans[k]
      BY <2>3, <3>1 DEF Synced, Settling
    <3>3. SpawningOn(k)' = {} /\ Banned(k)'
      BY <2>1, <3>1, <3>2 DEF SpawningOn, Banned
    <3>4. \A t \in PendingOn(k)' : t.op \in {"persist", "kban"} /\ t.entry = bans'[k]
      BY <2>1, <2>2, <3>1, <3>2 DEF PendingOn
    <3>5. Waiting(k, "persist")' /\ (EbpfActive => Waiting(k, "kban")')
      BY <2>1, <2>5, WritesFacts DEF Waiting
    <3>6. Settling(k)'
      BY <3>3, <3>4, <3>5 DEF Settling
    <3>7. QED
      BY <2>1, <3>1, <3>6 DEF Synced
  <2>6. QED
    BY <2>4, <2>5
<1>8. ASSUME NEW j \in Key, Banned(j), Lift(j), phase = "up",
             UNCHANGED <<now, phase, calls, rows, kmap, loaded, atCrash>>
      PROVE  Synced(k)'
  <2>1. \A t \in Writes(j, "expire", "kunban", bans[j]) :
            t.key = j /\ t.op \in {"expire", "kunban"}
    BY WritesFacts
  <2>2. Synced(k)
    BY <1>2, <1>8 DEF Lift, Overlap
  <2>3. CASE k # j
    <3>1. bans'[k] = bans[k]
      BY <1>8, <2>3 DEF Lift, TypeOK
    <3>2. \A t : t.key = k => (t \in tasks' <=> t \in tasks)
      BY <1>8, <2>1, <2>3 DEF Lift
    <3>3. QED
      BY <1>3, <1>8, <2>2, <3>1, <3>2
  <2>4. CASE k = j
    <3>1. PendingOn(k) = {} /\ SpawningOn(k) = {}
      BY <1>8, <2>4 DEF Lift, Overlap, Quiet
    <3>2. bans'[k] = NoBan /\ tasks' = tasks \cup Writes(k, "expire", "kunban", bans[k])
      BY <1>8, <2>4 DEF Lift, TypeOK
    <3>3. SpawningOn(k)' = {} /\ ~Banned(k)'
      BY <1>8, <3>1, <3>2 DEF SpawningOn, Banned
    <3>4. \A t \in PendingOn(k)' : t.op \in {"expire", "kunban"}
      BY <2>1, <2>4, <3>1, <3>2 DEF PendingOn
    <3>5. Waiting(k, "expire")' /\ (EbpfActive => Waiting(k, "kunban")')
      BY <3>2, WritesFacts DEF Waiting
    <3>6. ~EbpfActive => kmap'[k] = 0
      BY <1>8 DEF KernelUnused
    <3>7. Settling(k)'
      BY <3>3, <3>4, <3>5, <3>6 DEF Settling
    <3>8. QED
      BY <1>8, <3>7 DEF Synced
  <2>5. QED
    BY <2>3, <2>4
<1>9. ASSUME NEW t \in timers, ScheduleUnban(t)
      PROVE  Synced(k)'
  <2>1. t.key \in Key /\ phase = "up"
    BY DEF TypeOK, Timer, DownIsEmpty
  <2>2. CASE Banned(t.key)
    BY <1>8, <1>9, <2>1, <2>2 DEF ScheduleUnban
  <2>3. CASE ~Banned(t.key)
    BY <1>2, <1>3, <1>9, <2>3 DEF ScheduleUnban
  <2>4. QED
    BY <2>2, <2>3
<1>10. ASSUME NEW j \in Key, ManualUnban(j)
       PROVE  Synced(k)'
  BY <1>8, <1>10 DEF ManualUnban
<1>11. ASSUME NEW t \in tasks, RunTask(t)
       PROVE  Synced(k)'
  <2>1. /\ tasks' = tasks \ {t}
        /\ t.key \in Key /\ t.entry.expiresAt \in Nat /\ phase = "up"
        /\ UNCHANGED <<now, phase, bans, calls, loaded, disturbed, atCrash>>
    BY <1>11 DEF RunTask, TypeOK, Task, Entry, DownIsEmpty
  <2>2. Synced(k)
    BY <1>2, <2>1
  <2>3. CASE k # t.key
    BY <1>3, <1>11, <2>1, <2>2, <2>3
    DEF RunTask, PersistBan, ExpireBan, KernelBan, KernelUnban, TypeOK
  <2>4. CASE k = t.key
    <3>1. Settling(k) /\ t \in PendingOn(k)
      BY <2>1, <2>2, <2>4 DEF Synced, PendingOn
    <3>2. /\ SpawningOn(k)' = SpawningOn(k) /\ Banned(k)' = Banned(k)
          /\ PendingOn(k)' \subseteq PendingOn(k)
      BY <2>1 DEF SpawningOn, Banned, PendingOn
    <3>3. \A op : op # t.op => (Waiting(k, op)' <=> Waiting(k, op))
      BY <2>1 DEF Waiting
    <3>4. CASE Banned(k) /\ SpawningOn(k) = {}
      <4>1. t.op \in {"persist", "kban"} /\ t.entry = bans[k]
        BY <3>1, <3>4 DEF Settling
      <4>2. CASE t.op = "persist"
        <5>1. RowOf(k, bans[k])' /\ kmap' = kmap
          <6>1. rows' = PersistBan(k, bans[k]) /\ kmap' = kmap
            BY <1>11, <2>4, <4>1, <4>2 DEF RunTask
          <6>2. /\ rows'[k].id = bans[k].id
                /\ rows'[k].expiresAt = RFC3339(bans[k].expiresAt)
            BY <6>1 DEF PersistBan, TypeOK
          <6>3. QED
            BY <2>1, <6>1, <6>2 DEF RowOf, RFC3339
        <5>2. Waiting(k, "kban")' <=> Waiting(k, "kban")
          BY <3>3, <4>2
        <5>3. Settling(k)'
          BY <2>1, <3>1, <3>2, <3>4, <5>1, <5>2 DEF Settling
        <5>4. QED
          BY <2>1, <5>3 DEF Synced
      <4>3. CASE t.op = "kban"
        <5>1. rows' = rows /\ kmap'[k] = now + Cooldown
          BY <1>11, <2>4, <4>3 DEF RunTask, KernelBan, TypeOK
        <5>2. kmap'[k] >= bans[k].expiresAt
          BY <1>1, <5>1, LimiterAssumption DEF ExpiryBounded
        <5>3. Waiting(k, "persist")' <=> Waiting(k, "persist")
          BY <3>3, <4>3
        <5>4. RowOf(k, bans[k])' <=> RowOf(k, bans[k])
          BY <2>1, <5>1 DEF RowOf, RFC3339
        <5>5. Settling(k)'
          BY <2>1, <3>1, <3>2, <3>4, <5>2, <5>3, <5>4 DEF Settling
        <5>6. QED
          BY <2>1, <5>5 DEF Synced
      <4>4. QED
        BY <4>1, <4>2, <4>3
    <3>5. CASE ~(Banned(k) /\ SpawningOn(k) = {})
      <4>1. t.op \in {"expire", "kunban"}
        BY <3>1, <3>5 DEF Settling
      <4>2. ~(Banned(k)' /\ SpawningOn(k)' = {})
        BY <3>2, <3>5
      <4>3. /\ \A u \in PendingOn(k)' : u.op \in {"expire", "kunban"}
            /\ ~Banned(k)' => SpawningOn(k)' = {}
            /\ \A c, d \in SpawningOn(k)' : c = d /\ c.entry = bans'[k]
        BY <2>1, <3>1, <3>2, <3>5 DEF Settling
      <4>4. CASE t.op = "expire"
        <5>1. Expired(rows[k])' /\ kmap' = kmap
          BY <1>11, <2>4, <4>4 DEF RunTask, ExpireBan, Expired, TypeOK
        <5>2. Waiting(k, "kunban")' <=> Waiting(k, "kunban")
          BY <3>3, <4>4
        <5>3. Settling(k)'
          <6>1. Waiting(k, "kunban")' \/ kmap'[k] = 0
            BY <3>1, <3>5, <5>1, <5>2 DEF Settling
          <6>2. QED
            BY <4>2, <4>3, <5>1, <6>1 DEF Settling
        <5>4. QED
          BY <2>1, <5>3 DEF Synced
      <4>5. CASE t.op = "kunban"
        <5>1. rows' = rows /\ kmap'[k] = 0
          BY <1>11, <2>4, <4>5 DEF RunTask, KernelUnban, TypeOK
        <5>2. Waiting(k, "expire")' <=> Waiting(k, "expire")
          BY <3>3, <4>5
        <5>3. Expired(rows[k])' <=> Expired(rows[k])
          BY <2>1, <5>1 DEF Expired
        <5>4. Settling(k)'
          <6>1. Waiting(k, "expire")' \/ Expired(rows[k])'
            BY <3>1, <3>5, <5>2, <5>3 DEF Settling
          <6>2. QED
            BY <4>2, <4>3, <5>1, <6>1 DEF Settling
        <5>5. QED
          BY <2>1, <5>4 DEF Synced
      <4>6. QED
        BY <4>1, <4>4, <4>5
    <3>6. QED
      BY <3>4, <3>5
  <2>5. QED
    BY <2>3, <2>4
<1>12. ASSUME NEW t \in tasks, FailTask(t)
       PROVE  Synced(k)'
  BY <1>2, <1>3, <1>12 DEF FailTask
<1>13. CASE Crash
  <2>1. Synced(k) /\ phase' = "down" /\ k \notin loaded' /\ UNCHANGED <<now, rows>>
    BY <1>2, <1>13 DEF Crash
  <2>2. \A e : RowOf(k, e)' <=> RowOf(k, e)
    BY <2>1 DEF RowOf, RFC3339
  <2>3. Expired(rows[k])' <=> Expired(rows[k])
    BY <2>1 DEF Expired
  <2>4. CASE phase = "up"
    <3>1. Settling(k) /\ PendingOn(k) = {} /\ SpawningOn(k) = {} /\ atCrash' = bans
      BY <1>13, <2>1, <2>4 DEF Crash, Quiet, Synced
    <3>2. \A op : ~Waiting(k, op)
      BY <3>1 DEF Waiting, PendingOn
    <3>3. Recoverable(k)'
      BY <2>1, <2>2, <2>3, <3>1, <3>2 DEF Settling, Recoverable, Banned
    <3>4. QED
      BY <2>1, <3>3 DEF Synced
  <2>5. CASE phase # "up"
    BY <1>13, <2>1, <2>2, <2>3, <2>5 DEF Crash, Synced, Recoverable
  <2>6. QED
    BY <2>4, <2>5
<1>14. CASE LoadQuery
  <2>1. Recoverable(k) /\ phase' = "loading" /\ UNCHANGED <<now, rows, atCrash>>
    BY <1>2, <1>14 DEF LoadQuery, Synced
  <2>2. ASSUME rows[k] # NoBan, rows[k].expiresAt <= now
        PROVE  k \notin loaded'
    <3>1. RFC3339(rows[k].expiresAt) <= RFC3339(now)
      BY <1>1, <2>2, RFC3339Facts
    <3>2. rows[k].expiresAt <= RFC3339(now)
      BY <3>1 DEF WholeSeconds
    <3>3. QED
      BY <1>1, <1>14, <3>2, RFC3339Facts DEF LoadQuery
  <2>3. Expired(rows[k]) => k \notin loaded'
    BY <1>14, <2>2 DEF Expired, LoadQuery
  <2>4. Recoverable(k)'
    BY <2>1, <2>3 DEF Recoverable, RowOf, Expired, RFC3339
  <2>5. QED
    BY <2>1, <2>4 DEF Synced
<1>15. CASE LoadFail
  <2>1. phase' = "up" /\ rows'[k] = NoBan /\ bans'[k] = NoBan /\ kmap'[k] = 0
    BY <1>15 DEF LoadFail, DownIsEmpty
  <2>2. SpawningOn(k)' = {} /\ PendingOn(k)' = {}
    BY <1>15 DEF LoadFail, DownIsEmpty, SpawningOn, PendingOn
  <2>3. QED
    BY <2>1, <2>2 DEF Synced, Settling, Banned, Expired
<1>16. CASE LoadBans
  <2>1. PICK bad \in SUBSET Unexpired : LoadWith(Unexpired, bad)
    BY <1>16 DEF LoadBans
  <2>2. /\ phase' = "up" /\ k \notin bad /\ rows' = rows /\ now' = now
        /\ phase = "loading" /\ calls' = {}
    BY <2>1 DEF LoadWith, DownIsEmpty
  <2>3. SpawningOn(k)' = {}
    BY <2>2 DEF SpawningOn
  <2>7. \A t \in tasks' : t.op = "expire" /\ t.key \notin Unexpired
    <3>1. tasks' = {[op |-> "expire", key |-> j, entry |-> rows[j]] : j \in loaded \ Unexpired}
      BY <2>1 DEF LoadWith
    <3>2. \A t \in {[op |-> "expire", key |-> j, entry |-> rows[j]] : j \in loaded \ Unexpired} :
            t.op = "expire" /\ t.key \notin Unexpired
      OBVIOUS
    <3>3. QED
      BY <3>1, <3>2
  <2>4. CASE k \in Unexpired
    <3>1. bans'[k] = rows[k] /\ rows[k] # NoBan
      BY <2>1, <2>4 DEF LoadWith, Unexpired, LoadedRows
    <3>2. PendingOn(k)' = {}
      BY <2>4, <2>7 DEF PendingOn
    <3>3. RowOf(k, bans[k])'
      BY <2>2, <3>1 DEF RowOf, WholeSeconds, RFC3339
    <3>4. EbpfActive /\ bans'[k].expiresAt > now' => kmap'[k] >= bans'[k].expiresAt
      <4>1. k \in Unexpired \ bad
        BY <2>2, <2>4
      <4>2. EbpfActive /\ rows[k].expiresAt > now => kmap'[k] = rows[k].expiresAt
        BY <2>1, <4>1 DEF LoadWith
      <4>3. QED
        BY <1>1, <2>2, <3>1, <4>2
    <3>5. Settling(k)'
      BY <2>3, <3>1, <3>2, <3>3, <3>4 DEF Settling, Banned
    <3>6. QED
      BY <2>2, <3>5 DEF Synced
  <2>5. CASE k \notin Unexpired
    <3>1. bans'[k] = NoBan /\ kmap'[k] = 0
      BY <2>1, <2>5 DEF LoadWith
    <3>2. \A t \in PendingOn(k)' : t.op = "expire"
      BY <2>7 DEF PendingOn
    <3>3. Expired(rows[k])'
      <4>1. Expired(rows[k])
        BY <1>1, <2>2, <2>5 DEF QueryComplete, Expired, Unexpired
      <4>2. QED
        BY <2>2, <4>1 DEF Expired
    <3>4. Settling(k)'
      BY <2>3, <3>1, <3>2, <3>3 DEF Settling, Banned
    <3>5. QED
      BY <2>2, <3>4 DEF Synced
  <2>6. QED
    BY <2>4, <2>5
<1>17. CASE Tick \/ UNCHANGED vars
  BY <1>2, <1>3, <1>17 DEF Tick, vars
<1>18. QED
  BY <1>4, <1>5, <1>6, <1>7, <1>9, <1>10, <1>11, <1>12, <1>13, <1>14, <1>15, <1>16,
     <1>17 DEF Next, Finished

\* SyncInv holds in every reachable state.
LEMMA SyncInvAlways == Spec => []SyncInv
<1>1. Init => SyncInv
  <2> SUFFICES ASSUME Init, TimerInv
               PROVE  SyncInv
    BY TimerInvInit
  <2>1. \A k \in Key : bans[k] = NoBan /\ rows[k] = NoBan /\ kmap[k] = 0
    BY DEF Init
  <2>2. SyncedEach
    BY <2>1 DEF Init, SyncedEach, Synced, Settling, Banned, PendingOn, SpawningOn, Expired
  <2>3. RFC3339(0) = 0
    BY RFC3339Facts
  <2>4. WholeSeconds
    <3>1. NoBan.expiresAt = 0
      BY DEF NoBan
    <3>2. QED
      BY <2>1, <2>3, <3>1 DEF WholeSeconds
  <2>5. QueryComplete /\ KernelUnused
    BY <2>1 DEF Init, QueryComplete, KernelUnused
  <2>6. QED
    BY <2>2, <2>4, <2>5 DEF SyncInv
<1>2. SyncInv /\ [Next]_vars => SyncInv'
  <2>1. TimerInv /\ [Next]_vars => TimerInv'
    BY TimerInvStep
  <2>2. QED
    BY <2>1, SyncedStep, QueryCompleteStep, WholeSecondsStep, KernelUnusedStep DEF SyncInv
<1>3. QED
  BY <1>1, <1>2, PTL DEF Spec

\* Once a key's writes are done, the banned_ips table and the XDP ban_map agree
\* with the ban map, unless two changes of the key overlapped or a write failed.
THEOREM SyncedWhenQuietAlways == Spec => []SyncedWhenQuiet
<1>1. SyncInv => SyncedWhenQuiet
  <2> SUFFICES ASSUME SyncInv, NEW k \in Key \ disturbed, phase = "up", Quiet(k)
               PROVE  IF Banned(k)
                      THEN /\ rows[k].id = bans[k].id
                           /\ rows[k].expiresAt = RFC3339(bans[k].expiresAt)
                           /\ EbpfActive /\ bans[k].expiresAt > now
                                 => kmap[k] >= bans[k].expiresAt
                      ELSE /\ rows[k] # NoBan => rows[k].expiresAt <= now
                           /\ kmap[k] = 0
    BY DEF SyncedWhenQuiet
  <2>1. Settling(k) /\ SpawningOn(k) = {} /\ PendingOn(k) = {}
    BY DEF SyncInv, SyncedEach, Synced, Quiet
  <2>2. \A op : ~Waiting(k, op)
    BY <2>1 DEF Waiting, PendingOn
  <2>3. QED
    BY <2>1, <2>2 DEF Settling, RowOf, Expired
<1>2. QED
  BY <1>1, SyncInvAlways, PTL

\* LoadBans brings back the bans that were in force when the process died, with
\* the identity and expiry they had, and no others, for every key whose writes
\* neither overlapped nor failed nor were cut off by the crash.
THEOREM RestartRestores == Spec => RestartRestoresBans
<1> DEFINE Restored ==
      phase = "loading" /\ phase' = "up" =>
         \A k \in Key \ disturbed :
            /\ RFC3339(atCrash[k].expiresAt) > now => bans'[k].id = atCrash[k].id
            /\ bans'[k] # NoBan => bans'[k].id = atCrash[k].id
<1>1. SyncInv /\ [Next]_vars => [Restored]_vars
  <2> SUFFICES ASSUME SyncInv, Next, phase = "loading", phase' = "up",
                      NEW k \in Key, k \notin disturbed
               PROVE  /\ RFC3339(atCrash[k].expiresAt) > now => bans'[k].id = atCrash[k].id
                      /\ bans'[k] # NoBan => bans'[k].id = atCrash[k].id
    OBVIOUS
  <2> USE DEF SyncInv, TimerInv
  <2>1. LoadBans
    BY DEF DownIsEmpty, Next, RecordCheck, ManualBan, CallsMayStart, ManualUnban, Crash,
           LoadQuery, LoadFail, Tick, Finished, vars
  <2>2. PICK bad \in SUBSET Unexpired : LoadWith(Unexpired, bad)
    BY <2>1 DEF LoadBans
  <2>3. bans'[k] = IF k \in Unexpired THEN rows[k] ELSE NoBan
    BY <2>2 DEF LoadWith
  <2>4. Recoverable(k)
    BY DEF SyncedEach, Synced
  <2>5. ASSUME bans'[k] # NoBan
        PROVE  bans'[k].id = atCrash[k].id
    BY <2>3, <2>4, <2>5 DEF Recoverable, RowOf, Unexpired
  <2>6. ASSUME RFC3339(atCrash[k].expiresAt) > now
        PROVE  bans'[k].id = atCrash[k].id
    <3>1. RFC3339(0) = 0 /\ NoBan.expiresAt = 0 /\ now \in Nat /\ rows[k].expiresAt \in Nat
      BY RFC3339Facts DEF NoBan, TypeOK, Entry
    <3>2. atCrash[k] # NoBan
      BY <2>6, <3>1
    <3>3. rows[k].id = atCrash[k].id /\ rows[k].expiresAt > now
      BY <2>4, <2>6, <3>2 DEF Recoverable, RowOf
    <3>4. k \in Unexpired
      BY <3>1, <3>3 DEF QueryComplete, Expired, Unexpired
    <3>5. QED
      BY <2>3, <3>3, <3>4
  <2>7. QED
    BY <2>5, <2>6
<1>2. QED
  BY <1>1, SyncInvAlways, PTL DEF Spec, RestartRestoresBans

=============================================================================
