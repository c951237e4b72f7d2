-------------------------- MODULE BanLimiterProofs --------------------------
(***************************************************************************)
(* Proofs about the bans, for any keys, goroutines, cooldown and bounds:   *)
(* the type correctness of BanLimiter, that every ban has a goroutine that *)
(* will lift it, and that without an operator's unban a timer lifts only   *)
(* the ban it was made for.                                                *)
(***************************************************************************)
EXTENDS BanLimiter, TLAPS

-----------------------------------------------------------------------------
(* Every ban is lifted *)

\* Integer division, as the expiry format uses it.
LEMMA DivFacts ==
    ASSUME NEW n \in Nat \ {0}, NEW t \in Nat
    PROVE  /\ t \div n \in Nat
           /\ (t \div n) * n <= t
           /\ t < (t \div n) * n + n
OBVIOUS

\* The division undoes a multiplication, so cutting off twice changes nothing.
LEMMA DivMul ==
    ASSUME NEW n \in Nat \ {0}, NEW q \in Nat
    PROVE  (q * n) \div n = q
OBVIOUS

\* Division by a positive number is monotone.
LEMMA DivMono ==
    ASSUME NEW n \in Nat \ {0}, NEW s \in Nat, NEW t \in Nat, s <= t
    PROVE  s \div n <= t \div n
OBVIOUS

\* What the properties need of RFC3339: it is a whole second not after t, and
\* cutting off is monotone and idempotent.
LEMMA RFC3339Facts ==
    ASSUME NEW t \in Nat
    PROVE  /\ RFC3339(t) \in Nat
           /\ RFC3339(t) <= t
           /\ RFC3339(RFC3339(t)) = RFC3339(t)
           /\ \A s \in Nat : s <= t => RFC3339(s) <= RFC3339(t)
<1>1. TicksPerSecond \in Nat \ {0}
  BY LimiterAssumption
<1>2. t \div TicksPerSecond \in Nat
  BY <1>1, DivFacts
<1>3. RFC3339(t) \in Nat /\ RFC3339(t) <= t
  BY <1>1, <1>2, DivFacts DEF RFC3339
<1>4. RFC3339(RFC3339(t)) = RFC3339(t)
  BY <1>1, <1>2, DivMul DEF RFC3339
<1>5. ASSUME NEW s \in Nat, s <= t
      PROVE  RFC3339(s) <= RFC3339(t)
  <2>1. s \div TicksPerSecond \in Nat /\ s \div TicksPerSecond <= t \div TicksPerSecond
    BY <1>1, <1>5, DivFacts, DivMono
  <2>2. QED
    BY <1>1, <1>2, <2>1 DEF RFC3339
<1>6. QED
  BY <1>3, <1>4, <1>5

-----------------------------------------------------------------------------
(* Type correctness *)

\* The entry of no ban is an entry.
LEMMA NoBanType == NoBan \in Entry
BY DEF NoBan, Entry

\* Every step keeps the types.
LEMMA TypeStep == TypeOK /\ [Next]_vars => TypeOK'
<1> SUFFICES ASSUME TypeOK, [Next]_vars
             PROVE  TypeOK'
  OBVIOUS
<1> USE LimiterAssumption, NoBanType
<1>1. ASSUME NEW w \in Worker, NEW k \in Key, RecordCheck(w, k)
      PROVE  TypeOK'
  BY <1>1 DEF TypeOK, RecordCheck, Call
<1>2. ASSUME NEW w \in Worker, NEW k \in Key, ManualBan(w, k)
      PROVE  TypeOK'
  BY <1>2 DEF TypeOK, ManualBan, Call
<1>3. ASSUME NEW c \in calls, RecordPass(c)
      PROVE  TypeOK'
  BY <1>3 DEF TypeOK, RecordPass
<1>4. ASSUME NEW c \in calls, RecordTrip(c)
      PROVE  TypeOK'
  BY <1>4 DEF TypeOK, RecordTrip, Call
<1>5. ASSUME NEW c \in calls, BanExists(c)
      PROVE  TypeOK'
  BY <1>5 DEF TypeOK, BanExists
<1>6. ASSUME NEW c \in calls, BanInsert(c)
      PROVE  TypeOK'
  <2>1. PICK read \in c.since .. now : Insert(c, read)
    BY <1>6 DEF BanInsert
  <2>2. c \in Call /\ read \in Nat
    BY DEF TypeOK, Call
  <2> DEFINE e == [id |-> nextId, expiresAt |-> read + Cooldown]
  <2>3. e \in Entry
    BY <2>2 DEF TypeOK, Entry
  <2>4. [c EXCEPT !.at = "spawn", !.since = 0, !.entry = e] \in Call
    BY <2>2, <2>3 DEF Call
  <2>5. bans' \in [Key -> Entry]
    BY <2>1, <2>2, <2>3 DEF TypeOK, Insert, Call
  <2>6. calls' \subseteq Call
    BY <2>1, <2>4 DEF TypeOK, Insert
  <2>7. QED
    BY <2>1, <2>5, <2>6 DEF TypeOK, Insert
<1>7. ASSUME NEW c \in calls, BanSpawn(c)
      PROVE  TypeOK'
  <2>1. c \in Call
    BY DEF TypeOK
  <2>2. Writes(c.key, "persist", "kban", c.entry) \subseteq Task
    BY <2>1 DEF Writes, Task, Call
  <2>3. [key |-> c.key, id |-> c.entry.id, due |-> now + Cooldown] \in Timer
    BY <2>1 DEF Timer, Call, Entry, TypeOK
  <2>4. QED
    BY <1>7, <2>1, <2>2, <2>3 DEF TypeOK, BanSpawn, SpawnWith, Overlap, Call
<1>8. ASSUME NEW k \in Key, Lift(k)
      PROVE  /\ tasks' \subseteq Task
             /\ disturbed' \subseteq Key
             /\ bans' \in [Key -> Entry]
  <2>1. Writes(k, "expire", "kunban", bans[k]) \subseteq Task
    BY DEF Writes, Task, TypeOK
  <2>2. QED
    BY <1>8, <2>1 DEF TypeOK, Lift, Overlap
<1>9. ASSUME NEW t \in timers, ScheduleUnban(t)
      PROVE  TypeOK'
  <2>1. t.key \in Key
    BY DEF TypeOK, Timer
  <2>2. CASE Banned(t.key)
    BY <1>8, <1>9, <2>1, <2>2 DEF TypeOK, ScheduleUnban
  <2>3. CASE ~Banned(t.key)
    BY <1>9, <2>3 DEF TypeOK, ScheduleUnban
  <2>4. QED
    BY <2>2, <2>3
<1>10. ASSUME NEW k \in Key, ManualUnban(k)
       PROVE  TypeOK'
  BY <1>8, <1>10 DEF TypeOK, ManualUnban
<1>11. ASSUME NEW t \in tasks, RunTask(t)
       PROVE  TypeOK'
  <2>1. t.key \in Key /\ t.entry \in Entry
    BY DEF TypeOK, Task
  <2>2. [id |-> t.entry.id, expiresAt |-> RFC3339(t.entry.expiresAt)] \in Entry
    BY <2>1, RFC3339Facts DEF Entry
  <2>3. rows' \in [Key -> Entry] /\ kmap' \in [Key -> Nat]
    BY <1>11, <2>1, <2>2
    DEF TypeOK, RunTask, PersistBan, ExpireBan, KernelBan, KernelUnban
  <2>4. QED
    BY <1>11, <2>3 DEF TypeOK, RunTask
<1>12. ASSUME NEW t \in tasks, FailTask(t)
       PROVE  TypeOK'
  BY <1>12 DEF TypeOK, FailTask, Task
<1>13. CASE Crash
  BY <1>13 DEF TypeOK, Crash
<1>14. CASE LoadQuery
  BY <1>14 DEF TypeOK, LoadQuery
<1>15. CASE LoadFail
  BY <1>15 DEF TypeOK, LoadFail
<1>16. CASE LoadBans
  <2>1. PICK bad \in SUBSET Unexpired : LoadWith(Unexpired, bad)
    BY <1>16 DEF LoadBans
  <2>2. Unexpired \subseteq Key
    BY DEF Unexpired, TypeOK
  <2>3. timers' \subseteq Timer
    BY <2>1, <2>2 DEF LoadWith, TypeOK, Timer, Entry
  <2>4. tasks' \subseteq Task
    BY <2>1 DEF LoadWith, TypeOK, Task
  <2>5. kmap' \in [Key -> Nat]
    BY <2>1, <2>2 DEF LoadWith, TypeOK, Entry
  <2>6. QED
    BY <2>1, <2>2, <2>3, <2>4, <2>5 DEF LoadWith, TypeOK
<1>17. CASE Tick
  BY <1>17 DEF TypeOK, Tick
<1>18. CASE UNCHANGED vars
  BY <1>18 DEF TypeOK, vars
<1>19. QED
  BY <1>1, <1>2, <1>3, <1>4, <1>5, <1>6, <1>7, <1>9, <1>10, <1>11, <1>12, <1>13,
     <1>14, <1>15, <1>16, <1>17, <1>18 DEF Next, Finished

\* The initial state has the types.
LEMMA TypeInit == Init => TypeOK
<1> SUFFICES ASSUME Init
             PROVE  TypeOK
  OBVIOUS
<1>1. [k \in Key |-> NoBan] \in [Key -> Entry]
  BY NoBanType
<1>2. [k \in Key |-> 0] \in [Key -> Nat]
  OBVIOUS
<1>3. /\ bans \in [Key -> Entry] /\ rows \in [Key -> Entry]
      /\ atCrash \in [Key -> Entry] /\ kmap \in [Key -> Nat]
  BY <1>1, <1>2 DEF Init
<1>4. miscounted \in BOOLEAN
  BY Zenon DEF Init
<1>5. /\ timers \subseteq Timer /\ calls \subseteq Call /\ tasks \subseteq Task
      /\ loaded \subseteq Key /\ unbanned \subseteq Key /\ disturbed \subseteq Key
  BY DEF Init
<1>6. /\ now \in Nat /\ nextId \in Nat \ {0} /\ crashes \in Nat /\ faults \in Nat
      /\ phase \in {"up", "down", "loading"}
  BY DEF Init
<1>7. QED
  BY <1>3, <1>4, <1>5, <1>6 DEF TypeOK

\* Every variable of the limiter keeps its type, in every behaviour.
THEOREM TypeCorrect == Spec => []TypeOK
BY TypeInit, TypeStep, PTL DEF Spec

-----------------------------------------------------------------------------
(* Every ban has a goroutine that will lift it *)

\* Every step, restarts included, keeps a timer for every ban in memory.
LEMMA BanHasTimerStep == TypeOK /\ BanHasTimer /\ [Next]_vars => BanHasTimer'
<1> SUFFICES ASSUME TypeOK, BanHasTimer, [Next]_vars
             PROVE  BanHasTimer'
  OBVIOUS
<1> USE DEF BanHasTimer, Banned, SpawningOn
<1>1. ASSUME NEW w \in Worker, NEW k \in Key, RecordCheck(w, k) \/ ManualBan(w, k)
      PROVE  BanHasTimer'
  BY <1>1 DEF RecordCheck, ManualBan
<1>2. ASSUME NEW c \in calls, RecordPass(c) \/ RecordTrip(c) \/ BanExists(c)
      PROVE  BanHasTimer'
  BY <1>2 DEF RecordPass, RecordTrip, BanExists
<1>3. ASSUME NEW c \in calls, BanInsert(c)
      PROVE  BanHasTimer'
  <2>1. PICK read \in c.since .. now : Insert(c, read)
    BY <1>3 DEF BanInsert
  <2> DEFINE e == [id |-> nextId, expiresAt |-> read + Cooldown]
             d == [c EXCEPT !.at = "spawn", !.since = 0, !.entry = e]
  <2>2. /\ d.key = c.key /\ d.at = "spawn" /\ d.entry = e
        /\ c.at = "insert" /\ c.key \in Key
    BY <1>3 DEF TypeOK, Call, BanInsert
  <2>3. /\ bans' = [bans EXCEPT ![c.key] = e]
        /\ calls' = (calls \ {c}) \cup {d}
        /\ timers' = timers
    BY <2>1 DEF Insert
  <2> HIDE DEF d, e
  <2> SUFFICES ASSUME NEW k \in Key, bans'[k] # NoBan
               PROVE  \/ \E t \in timers' : t.key = k /\ t.id = bans'[k].id
                      \/ \E b \in calls' : b.key = k /\ b.at = "spawn" /\ b.entry = bans'[k]
    OBVIOUS
  <2>4. CASE k = c.key
    BY <2>2, <2>3, <2>4 DEF TypeOK
  <2>5. CASE k # c.key
    BY <2>2, <2>3, <2>5 DEF TypeOK
  <2>6. QED
    BY <2>4, <2>5
<1>4. ASSUME NEW c \in calls, BanSpawn(c)
      PROVE  BanHasTimer'
  <2> DEFINE u == [key |-> c.key, id |-> c.entry.id, due |-> now + Cooldown]
  <2>1. /\ calls' = calls \ {c} /\ bans' = bans
        /\ timers' = timers \cup {u}
    BY <1>4 DEF BanSpawn, SpawnWith
  <2>2. u.key = c.key /\ u.id = c.entry.id
    OBVIOUS
  <2> HIDE DEF u
  <2>3. QED
    BY <2>1, <2>2
<1>5. ASSUME NEW t \in timers, ScheduleUnban(t)
      PROVE  BanHasTimer'
  BY <1>5 DEF ScheduleUnban, Lift, TypeOK, Timer
<1>6. ASSUME NEW k \in Key, ManualUnban(k)
      PROVE  BanHasTimer'
  BY <1>6 DEF ManualUnban, Lift, TypeOK
<1>7. ASSUME NEW t \in tasks, RunTask(t) \/ FailTask(t)
      PROVE  BanHasTimer'
  BY <1>7 DEF RunTask, FailTask
<1>8. CASE Crash \/ LoadQuery \/ LoadFail
  BY <1>8 DEF Crash, LoadQuery, LoadFail
<1>9. CASE LoadBans
  <2>1. PICK bad \in SUBSET Unexpired : LoadWith(Unexpired, bad)
    BY <1>9 DEF LoadBans
  <2> SUFFICES ASSUME NEW k \in Key, bans'[k] # NoBan
               PROVE  \E t \in timers' : t.key = k /\ t.id = bans'[k].id
    OBVIOUS
  <2>2. k \in Unexpired /\ bans'[k] = rows[k]
    BY <2>1 DEF LoadWith
  <2>3. [key |-> k, id |-> rows[k].id, due |-> rows[k].expiresAt] \in timers'
    BY <2>1, <2>2 DEF LoadWith
  <2>4. QED
    BY <2>2, <2>3
<1>10. CASE Tick \/ UNCHANGED vars
  BY <1>10 DEF Tick, vars
<1>11. QED
  BY <1>1, <1>2, <1>3, <1>4, <1>5, <1>6, <1>7, <1>8, <1>9, <1>10 DEF Next, Finished

\* No interleaving of Record, ManualBan, ManualUnban, timers and restarts leaves
\* a key banned with no goroutine to lift the ban.
THEOREM BanHasTimerAlways == Spec => []BanHasTimer
<1>1. Init => BanHasTimer
  BY DEF Init, BanHasTimer, Banned
<1>2. QED
  BY <1>1, BanHasTimerStep, TypeCorrect, PTL DEF Spec

-----------------------------------------------------------------------------
(* No ban is lifted early *)

\* A ban expires at most one cooldown from now, also one being set up.
ExpiryBounded ==
    /\ \A k \in Key : /\ bans[k].expiresAt <= now + Cooldown
                      /\ rows[k].expiresAt <= now + Cooldown
    /\ \A c \in calls : c.entry.expiresAt <= now + Cooldown
    /\ \A t \in tasks : t.entry.expiresAt <= now + Cooldown

\* A key has one goroutine that will lift its ban (asleep, or about to be
\* started), none without a ban, and it does not wake before the ban expires.
OneTimer(k) ==
    /\ ~Banned(k) => SpawningOn(k) = {} /\ \A t \in timers : t.key # k
    /\ \A t \in timers : t.key = k =>
          /\ t.due >= bans[k].expiresAt
          /\ SpawningOn(k) = {}
          /\ \A u \in timers : u.key = k => u = t
    /\ \A c, d \in SpawningOn(k) : c = d /\ c.entry = bans[k]

\* That is so as long as no operator has interfered.
OneTimerEach == \A k \in Key \ unbanned : OneTimer(k)

\* While the process is not up it holds nothing in memory or in the kernel.
DownIsEmpty ==
    phase # "up" =>
        /\ timers = {} /\ calls = {} /\ tasks = {} /\ unbanned = {}
        /\ \A k \in Key : bans[k] = NoBan /\ kmap[k] = 0

\* LoadActiveBans returns rows, and they are used up once LoadBans is done.
LoadedRows ==
    /\ phase # "loading" => loaded = {}
    /\ \A k \in loaded : rows[k] # NoBan

\* What every step keeps of the bans, their rows and their timers.
TimerInv == TypeOK /\ ExpiryBounded /\ OneTimerEach /\ DownIsEmpty /\ LoadedRows

-----------------------------------------------------------------------------
(* Expiries are bounded; a process that is not up holds nothing *)

\* Every step keeps every expiry within Cooldown of the present.
LEMMA ExpiryStep == TypeOK /\ ExpiryBounded /\ [Next]_vars => ExpiryBounded'
<1> SUFFICES ASSUME TypeOK, ExpiryBounded, [Next]_vars
             PROVE  ExpiryBounded'
  OBVIOUS
<1> USE LimiterAssumption DEF ExpiryBounded
<1>1. NoBan.expiresAt = 0
  BY DEF NoBan
<1>2. ASSUME NEW w \in Worker, NEW k \in Key, RecordCheck(w, k) \/ ManualBan(w, k)
      PROVE  ExpiryBounded'
  BY <1>1, <1>2 DEF RecordCheck, ManualBan, TypeOK
<1>3. ASSUME NEW c \in calls, RecordPass(c) \/ RecordTrip(c) \/ BanExists(c)
      PROVE  ExpiryBounded'
  BY <1>3 DEF RecordPass, RecordTrip, BanExists, TypeOK, Call
<1>4. ASSUME NEW c \in calls, BanInsert(c)
      PROVE  ExpiryBounded'
  <2>1. PICK read \in c.since .. now : Insert(c, read)
    BY <1>4 DEF BanInsert
  <2> DEFINE e == [id |-> nextId, expiresAt |-> read + Cooldown]
             d == [c EXCEPT !.at = "spawn", !.since = 0, !.entry = e]
  <2>2. e.expiresAt <= now + Cooldown /\ d.entry = e /\ c.key \in Key
    BY DEF TypeOK, Call
  <2>3. /\ bans' = [bans EXCEPT ![c.key] = e]
        /\ calls' = (calls \ {c}) \cup {d}
        /\ UNCHANGED <<now, rows, tasks>>
    BY <2>1 DEF Insert
  <2> HIDE DEF d, e
  <2>4. QED
    BY <2>2, <2>3 DEF TypeOK
<1>5. ASSUME NEW c \in calls, BanSpawn(c)
      PROVE  ExpiryBounded'
  <2> DEFINE new == Writes(c.key, "persist", "kban", c.entry)
  <2>1. /\ tasks' = tasks \cup new /\ calls' = calls \ {c}
        /\ UNCHANGED <<now, bans, rows>>
    BY <1>5 DEF BanSpawn, SpawnWith
  <2>2. \A t \in new : t.entry = c.entry
    BY DEF Writes
  <2> HIDE DEF new
  <2>3. QED
    BY <2>1, <2>2
<1>6. ASSUME NEW k \in Key, Lift(k), UNCHANGED <<now, rows, calls>>
      PROVE  ExpiryBounded'
  BY <1>1, <1>6 DEF Lift, Writes, TypeOK
<1>7. ASSUME NEW t \in timers, ScheduleUnban(t)
      PROVE  ExpiryBounded'
  <2>1. t.key \in Key
    BY DEF TypeOK, Timer
  <2>2. CASE Banned(t.key)
    BY <1>6, <1>7, <2>1, <2>2 DEF ScheduleUnban
  <2>3. CASE ~Banned(t.key)
    BY <1>7, <2>3 DEF ScheduleUnban
  <2>4. QED
    BY <2>2, <2>3
<1>8. ASSUME NEW k \in Key, ManualUnban(k)
      PROVE  ExpiryBounded'
  BY <1>6, <1>8 DEF ManualUnban
<1>9. ASSUME NEW t \in tasks, RunTask(t)
      PROVE  ExpiryBounded'
  <2>1. t.key \in Key /\ t.entry \in Entry /\ t.entry.expiresAt \in Nat
    BY DEF TypeOK, Task, Entry
  <2>2. RFC3339(t.entry.expiresAt) <= now + Cooldown
    BY <2>1, RFC3339Facts DEF TypeOK
  <2>3. \A k \in Key : rows'[k].expiresAt <= now + Cooldown
    BY <1>1, <1>9, <2>1, <2>2 DEF RunTask, PersistBan, ExpireBan, TypeOK
  <2>4. QED
    BY <1>9, <2>3 DEF RunTask
<1>10. ASSUME NEW t \in tasks, FailTask(t)
       PROVE  ExpiryBounded'
  BY <1>10 DEF FailTask
<1>11. CASE Crash \/ LoadQuery \/ LoadFail
  BY <1>1, <1>11 DEF Crash, LoadQuery, LoadFail, TypeOK
<1>12. CASE LoadBans
  BY <1>1, <1>12 DEF LoadBans, LoadWith, TypeOK
<1>13. CASE Tick
  BY <1>13 DEF Tick, TypeOK, Entry, Call, Task
<1>14. CASE UNCHANGED vars
  BY <1>14 DEF vars
<1>15. QED
  BY <1>2, <1>3, <1>4, <1>5, <1>7, <1>8, <1>9, <1>10, <1>11, <1>12, <1>13, <1>14
  DEF Next, Finished

\* A process that is down has nothing in memory.
LEMMA DownStep == TypeOK /\ DownIsEmpty /\ [Next]_vars => DownIsEmpty'
<1> SUFFICES ASSUME TypeOK, DownIsEmpty, [Next]_vars
             PROVE  DownIsEmpty'
  OBVIOUS
<1> USE DEF DownIsEmpty
<1>1. ASSUME NEW w \in Worker, NEW k \in Key, RecordCheck(w, k) \/ ManualBan(w, k)
      PROVE  DownIsEmpty'
  BY <1>1 DEF RecordCheck, ManualBan, CallsMayStart
<1>2. ASSUME NEW c \in calls
      PROVE  phase = "up"
  OBVIOUS
<1>3. ASSUME NEW c \in calls, \/ RecordPass(c) \/ RecordTrip(c) \/ BanExists(c)
                             \/ BanInsert(c) \/ BanSpawn(c)
      PROVE  phase' = phase
  BY <1>3 DEF RecordPass, RecordTrip, BanExists, BanInsert, Insert, BanSpawn, SpawnWith
<1>4. ASSUME NEW t \in timers, ScheduleUnban(t)
      PROVE  phase' = "up"
  BY <1>4 DEF ScheduleUnban
<1>5. ASSUME NEW k \in Key, ManualUnban(k)
      PROVE  phase' = "up"
  BY <1>5 DEF ManualUnban
<1>6. ASSUME NEW t \in tasks, RunTask(t) \/ FailTask(t)
      PROVE  phase' = "up"
  BY <1>6 DEF RunTask, FailTask
<1>7. CASE Crash
  BY <1>7 DEF Crash
<1>8. CASE LoadQuery
  BY <1>8 DEF LoadQuery
<1>9. CASE LoadFail \/ LoadBans
  BY <1>9 DEF LoadFail, LoadBans, LoadWith
<1>10. CASE Tick \/ UNCHANGED vars
  BY <1>10 DEF Tick, vars
<1>11. QED
  BY <1>1, <1>2, <1>3, <1>4, <1>5, <1>6, <1>7, <1>8, <1>9, <1>10 DEF Next, Finished

\* Every step keeps a row for every key that a load is still to take in.
LEMMA LoadedStep == TypeOK /\ DownIsEmpty /\ LoadedRows /\ [Next]_vars => LoadedRows'
<1> SUFFICES ASSUME TypeOK, DownIsEmpty, LoadedRows, [Next]_vars
             PROVE  LoadedRows'
  OBVIOUS
<1> USE DEF LoadedRows
<1>1. ASSUME NEW w \in Worker, NEW k \in Key, RecordCheck(w, k) \/ ManualBan(w, k)
      PROVE  LoadedRows'
  BY <1>1 DEF RecordCheck, ManualBan
<1>2. ASSUME NEW c \in calls, \/ RecordPass(c) \/ RecordTrip(c) \/ BanExists(c)
                             \/ BanInsert(c) \/ BanSpawn(c)
      PROVE  LoadedRows'
  BY <1>2 DEF RecordPass, RecordTrip, BanExists, BanInsert, Insert, BanSpawn, SpawnWith
<1>3. ASSUME NEW t \in timers, ScheduleUnban(t)
      PROVE  LoadedRows'
  BY <1>3 DEF ScheduleUnban
<1>4. ASSUME NEW k \in Key, ManualUnban(k)
      PROVE  LoadedRows'
  BY <1>4 DEF ManualUnban
<1>5. ASSUME NEW t \in tasks, RunTask(t) \/ FailTask(t)
      PROVE  LoadedRows'
  BY <1>5 DEF RunTask, FailTask, DownIsEmpty
<1>6. CASE Crash \/ LoadQuery \/ LoadFail \/ LoadBans
  BY <1>6 DEF Crash, LoadQuery, LoadFail, LoadBans, LoadWith
<1>7. CASE Tick \/ UNCHANGED vars
  BY <1>7 DEF Tick, vars
<1>8. QED
  BY <1>1, <1>2, <1>3, <1>4, <1>5, <1>6, <1>7 DEF Next, Finished

-----------------------------------------------------------------------------
(* Without an operator's unban, a timer lifts only the ban it was made for *)

\* Every step keeps one timer for a ban that nobody lifted.
LEMMA OneTimerStep == TimerInv /\ [Next]_vars => OneTimerEach'
<1> SUFFICES ASSUME TimerInv, [Next]_vars, NEW k \in Key, k \notin unbanned'
             PROVE  OneTimer(k)'
  BY DEF OneTimerEach
<1> USE DEF TimerInv
\* What changes the unbanned keys, bans, timers or calls of another key leaves
\* this one alone.
<1>1. CASE /\ OneTimer(k)
           /\ bans'[k] = bans[k]
           /\ \A t : t.key = k => (t \in timers' <=> t \in timers)
           /\ \A c : c.key = k /\ c.at = "spawn" => (c \in calls' <=> c \in calls)
  BY <1>1 DEF OneTimer, Banned, SpawningOn
<1>2. k \notin unbanned => OneTimer(k)
  BY DEF OneTimerEach
<1>3. ASSUME NEW w \in Worker, NEW j \in Key, RecordCheck(w, j) \/ ManualBan(w, j)
      PROVE  OneTimer(k)'
  <2>1. UNCHANGED <<bans, timers, unbanned>>
    BY <1>3 DEF RecordCheck, ManualBan
  <2>2. \A d : d.at = "spawn" => (d \in calls' <=> d \in calls)
    <3> DEFINE a == [w |-> w, at |-> "window", key |-> j, since |-> 0, entry |-> NoBan]
               b == [w |-> w, at |-> "insert", key |-> j, since |-> now, entry |-> NoBan]
    <3>1. calls' = calls \cup {a} \/ calls' = calls \cup {b}
      BY <1>3 DEF RecordCheck, ManualBan
    <3>2. a.at # "spawn" /\ b.at # "spawn"
      OBVIOUS
    <3> HIDE DEF a, b
    <3>3. QED
      BY <3>1, <3>2
  <2>3. QED
    BY <1>1, <1>2, <2>1, <2>2
<1>4. ASSUME NEW c \in calls, RecordPass(c) \/ RecordTrip(c) \/ BanExists(c)
      PROVE  OneTimer(k)'
  <2>1. UNCHANGED <<bans, timers, unbanned>>
    BY <1>4 DEF RecordPass, RecordTrip, BanExists
  <2>2. c \in Call /\ c.at # "spawn"
    BY <1>4 DEF RecordPass, RecordTrip, BanExists, TypeOK
  <2>3. \A d : d.at = "spawn" => (d \in calls' <=> d \in calls)
    <3>1. CASE calls' = calls \ {c}
      BY <2>2, <3>1
    <3>2. CASE RecordTrip(c)
      <4>1. [c EXCEPT !.at = "insert", !.since = now].at = "insert"
        BY <2>2 DEF Call
      <4>2. QED
        BY <2>2, <3>2, <4>1 DEF RecordTrip
    <3>3. QED
      BY <1>4, <3>1, <3>2 DEF RecordPass, BanExists
  <2>4. QED
    BY <1>1, <1>2, <2>1, <2>3
<1>5. ASSUME NEW c \in calls, BanInsert(c)
      PROVE  OneTimer(k)'
  <2>1. PICK read \in c.since .. now : Insert(c, read)
    BY <1>5 DEF BanInsert
  <2> DEFINE e == [id |-> nextId, expiresAt |-> read + Cooldown]
             d == [c EXCEPT !.at = "spawn", !.since = 0, !.entry = e]
  <2>2. /\ d.key = c.key /\ d.at = "spawn" /\ d.entry = e
        /\ c.at = "insert" /\ c.key \in Key
    BY <1>5 DEF TypeOK, Call, BanInsert
  <2>3. /\ bans' = [bans EXCEPT ![c.key] = e]
        /\ calls' = (calls \ {c}) \cup {d}
        /\ UNCHANGED <<timers, unbanned>>
    BY <2>1 DEF Insert
  <2>4. e # NoBan
    BY DEF NoBan, TypeOK
  <2> HIDE DEF d, e
  <2>5. OneTimer(k)
    BY <1>2, <2>3
  <2>6. CASE k # c.key
    BY <1>1, <2>2, <2>3, <2>5, <2>6 DEF TypeOK
  <2>7. CASE k = c.key
    <3>1. SpawningOn(k) = {} /\ \A t \in timers : t.key # k
      BY <1>5, <2>5, <2>7 DEF OneTimer, BanInsert
    <3>2. SpawningOn(k)' = {d}
      BY <2>2, <2>3, <2>7, <3>1 DEF SpawningOn
    <3>3. bans'[k] = e
      BY <2>2, <2>3, <2>7 DEF TypeOK
    <3>4. QED
      BY <2>2, <2>3, <2>4, <3>1, <3>2, <3>3 DEF OneTimer, Banned
  <2>8. QED
    BY <2>6, <2>7
<1>6. ASSUME NEW c \in calls, BanSpawn(c)
      PROVE  OneTimer(k)'
  <2> DEFINE u == [key |-> c.key, id |-> c.entry.id, due |-> now + Cooldown]
  <2>1. /\ calls' = calls \ {c}
        /\ timers' = timers \cup {u}
        /\ UNCHANGED <<bans, unbanned>>
        /\ c.at = "spawn"
    BY <1>6 DEF BanSpawn, SpawnWith
  <2>2. u.key = c.key /\ u.due = now + Cooldown
    OBVIOUS
  <2> HIDE DEF u
  <2>3. OneTimer(k)
    BY <1>2, <2>1
  <2>4. CASE k # c.key
    BY <1>1, <2>1, <2>2, <2>3, <2>4
  <2>5. CASE k = c.key
    <3>1. c \in SpawningOn(k) /\ c.entry = bans[k]
      BY <2>1, <2>3, <2>5 DEF OneTimer, SpawningOn
    <3>2. SpawningOn(k)' = {} /\ Banned(k)
      BY <2>1, <2>3, <3>1 DEF OneTimer, SpawningOn
    <3>3. \A t \in timers : t.key # k
      BY <2>3, <3>1 DEF OneTimer
    <3>4. u.due >= bans[k].expiresAt
      BY <2>2, <3>1, LimiterAssumption DEF ExpiryBounded, TypeOK, Entry
    <3>5. QED
      BY <2>1, <2>2, <3>2, <3>3, <3>4 DEF OneTimer, Banned
  <2>6. QED
    BY <2>4, <2>5
<1>7. ASSUME NEW t \in timers, ScheduleUnban(t)
      PROVE  OneTimer(k)'
  <2>1. t.key \in Key /\ OneTimer(k)
    BY <1>2, <1>7 DEF ScheduleUnban, TypeOK, Timer
  <2>2. CASE k # t.key
    BY <1>1, <1>7, <2>1, <2>2 DEF ScheduleUnban, Lift, TypeOK
  <2>3. CASE k = t.key
    <3>1. Banned(k) /\ SpawningOn(k) = {} /\ \A u \in timers : u.key = k => u = t
      BY <2>1, <2>3 DEF OneTimer
    <3>2. /\ timers' = timers \ {t} /\ calls' = calls
          /\ bans'[k] = NoBan
      BY <1>7, <2>3, <3>1 DEF ScheduleUnban, Lift, TypeOK
    <3>3. QED
      BY <3>1, <3>2 DEF OneTimer, Banned, SpawningOn
  <2>4. QED
    BY <2>2, <2>3
<1>8. ASSUME NEW j \in Key, ManualUnban(j)
      PROVE  OneTimer(k)'
  <2>1. k # j /\ OneTimer(k)
    BY <1>2, <1>8 DEF ManualUnban
  <2>2. QED
    BY <1>1, <1>8, <2>1 DEF ManualUnban, Lift, TypeOK
<1>9. ASSUME NEW t \in tasks, RunTask(t) \/ FailTask(t)
      PROVE  OneTimer(k)'
  BY <1>1, <1>2, <1>9 DEF RunTask, FailTask
<1>10. CASE Crash
  BY <1>10 DEF Crash, OneTimer, Banned, SpawningOn
<1>11. CASE LoadQuery \/ LoadFail
  BY <1>1, <1>2, <1>11 DEF LoadQuery, LoadFail
<1>12. CASE LoadBans
  <2>1. PICK bad \in SUBSET Unexpired : LoadWith(Unexpired, bad)
    BY <1>12 DEF LoadBans
  <2>2. calls' = {}
    BY <2>1 DEF LoadWith, DownIsEmpty
  <2>3. ASSUME NEW t \in timers', t.key = k
        PROVE  /\ t.id = rows[k].id /\ t.due = rows[k].expiresAt
               /\ t = [key |-> k, id |-> rows[k].id, due |-> rows[k].expiresAt]
               /\ k \in Unexpired
    <3>1. timers' = {[key |-> j, id |-> rows[j].id, due |-> rows[j].expiresAt] :
                       j \in Unexpired}
      BY <2>1 DEF LoadWith
    <3>2. PICK j \in Unexpired :
              t = [key |-> j, id |-> rows[j].id, due |-> rows[j].expiresAt]
      BY <3>1
    <3>3. j = k
      BY <2>3, <3>2
    <3>4. QED
      BY <3>2, <3>3
  <2>4. k \in Unexpired => bans'[k] = rows[k]
    BY <2>1 DEF LoadWith
  <2>5. SpawningOn(k)' = {}
    BY <2>2 DEF SpawningOn
  <2>6. k \in Unexpired => rows[k] # NoBan /\ rows[k].expiresAt \in Nat
    BY DEF Unexpired, LoadedRows, TypeOK, Entry
  <2>7. \A t, u \in timers' : t.key = k /\ u.key = k => u = t
    BY <2>3
  <2>8. \A t \in timers' : t.key = k => Banned(k)' /\ t.due >= bans'[k].expiresAt
    BY <2>3, <2>4, <2>6 DEF Banned
  <2>9. QED
    BY <2>5, <2>7, <2>8 DEF OneTimer
<1>13. CASE Tick \/ UNCHANGED vars
  BY <1>1, <1>2, <1>13 DEF Tick, vars
<1>14. QED
  BY <1>3, <1>4, <1>5, <1>6, <1>7, <1>8, <1>9, <1>10, <1>11, <1>12, <1>13
  DEF Next, Finished

\* The initial state satisfies TimerInv.
LEMMA TimerInvInit == Init => TimerInv
<1> SUFFICES ASSUME Init
             PROVE  TimerInv
  OBVIOUS
<1>1. \A k \in Key : bans[k] = NoBan /\ rows[k] = NoBan /\ kmap[k] = 0
  BY DEF Init
<1>2. NoBan.expiresAt = 0 /\ 0 <= now + Cooldown
  BY LimiterAssumption DEF NoBan, Init
<1>3. ExpiryBounded
  BY <1>1, <1>2 DEF ExpiryBounded, Init
<1>4. OneTimerEach
  BY <1>1 DEF OneTimerEach, OneTimer, SpawningOn, Banned, Init
<1>5. DownIsEmpty /\ LoadedRows
  BY DEF DownIsEmpty, LoadedRows, Init
<1>6. QED
  BY TypeInit, <1>3, <1>4, <1>5 DEF TimerInv

\* Every step keeps TimerInv.
LEMMA TimerInvStep == TimerInv /\ [Next]_vars => TimerInv'
BY TypeStep, ExpiryStep, DownStep, LoadedStep, OneTimerStep DEF TimerInv

\* TimerInv holds in every reachable state.
LEMMA TimerInvAlways == Spec => []TimerInv
BY TimerInvInit, TimerInvStep, PTL DEF Spec

\* A ban that scheduleUnban removes has lasted until its ExpiresAt, in every
\* process in which no operator has unbanned that key before.
THEOREM NoEarlyUnban == Spec => UnbanNotEarly
<1> DEFINE Kept ==
      \A k \in Key :
         (Banned(k) /\ bans'[k] = NoBan /\ phase' = "up" /\ k \notin unbanned')
            => now >= bans[k].expiresAt
<1>1. TimerInv /\ [Next]_vars => [Kept]_vars
  <2> SUFFICES ASSUME TimerInv, Next, NEW k \in Key, Banned(k), bans'[k] = NoBan,
                      phase' = "up", k \notin unbanned'
               PROVE  now >= bans[k].expiresAt
    OBVIOUS
  <2>1. phase = "up"
    BY DEF TimerInv, DownIsEmpty, Banned
  <2>2. ASSUME NEW t \in timers, ScheduleUnban(t)
        PROVE  now >= bans[k].expiresAt
    <3>1. t.key = k
      BY <2>2 DEF ScheduleUnban, Lift, TimerInv, TypeOK, Timer, Banned
    <3>2. OneTimer(k)
      BY <2>2 DEF ScheduleUnban, TimerInv, OneTimerEach
    <3>3. now >= t.due /\ t.due >= bans[k].expiresAt
      BY <2>2, <3>1, <3>2 DEF ScheduleUnban, OneTimer
    <3>4. now \in Nat /\ t.due \in Nat /\ bans[k].expiresAt \in Nat
      BY DEF TimerInv, TypeOK, Timer, Entry
    <3>5. QED
      BY <3>3, <3>4
  <2>3. ASSUME NEW j \in Key, ManualUnban(j)
        PROVE  FALSE
    BY <2>3 DEF ManualUnban, Lift, TimerInv, TypeOK, Banned
  <2>4. ASSUME NEW c \in calls, BanInsert(c)
        PROVE  FALSE
    <3>1. PICK read \in c.since .. now : Insert(c, read)
      BY <2>4 DEF BanInsert
    <3>2. nextId # 0 /\ NoBan.id = 0
      BY DEF TimerInv, TypeOK, NoBan
    <3> DEFINE e == [id |-> nextId, expiresAt |-> read + Cooldown]
    <3>3. e.id = nextId
      OBVIOUS
    <3>4. bans' = [bans EXCEPT ![c.key] = e] /\ bans \in [Key -> Entry]
      BY <3>1 DEF Insert, TimerInv, TypeOK
    <3> HIDE DEF e
    <3>5. QED
      BY <3>2, <3>3, <3>4 DEF Banned
  <2>5. ASSUME bans' = bans
        PROVE  FALSE
    BY <2>5 DEF Banned
  <2>6. QED
    BY <2>1, <2>2, <2>3, <2>4, <2>5
    DEF Next, RecordCheck, ManualBan, RecordPass, RecordTrip, BanExists, BanSpawn,
        SpawnWith, RunTask, FailTask, Crash, LoadQuery, LoadFail, LoadBans, LoadWith,
        Tick, Finished, vars
<1>2. QED
  BY <1>1, TimerInvAlways, PTL DEF Spec, UnbanNotEarly

=============================================================================
