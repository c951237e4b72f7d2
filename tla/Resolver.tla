------------------------------ MODULE Resolver ------------------------------
(***************************************************************************)
(* internal/intel/resolver.go: the background enrichment of source         *)
(* addresses.  Workers of the pipeline call Lookup, which queues a miss;   *)
(* one goroutine resolves the queue, reading and writing the ip_intel      *)
(* table, and fills the cache.  What is known of an address is abstracted  *)
(* to the time it was learnt, Info.Updated; an optional value is a set of  *)
(* at most one.  A restart keeps the table only.                           *)
(***************************************************************************)
EXTENDS Integers, Sequences, FiniteSets, Functions

CONSTANTS
    Ip,
    Public,        \* the addresses publicIP accepts
    CacheTTL, StoreTTL,
    MaxCache, QueueSize,
    ResMaxTime,    \* bound on the clock
    MaxRestarts    \* bound on the restarts

ASSUME ResolverAssumption ==
    /\ Public \subseteq Ip
    /\ {CacheTTL, StoreTTL, MaxCache, QueueSize} \subseteq Nat \ {0}

VARIABLES
    resNow,
    cache,     \* address -> {} or {Updated}
    queued,
    work,      \* the channel
    resolving, \* {} or what resolve was called with and found in the table
    intel,     \* the ip_intel table
    resDone,   \* Close has been called
    restarts

resVars == <<resNow, cache, queued, work, resolving, intel, resDone, restarts>>

NoInfo == [ip \in Ip |-> {}]

ResInit ==
    /\ resNow = 0 /\ cache = NoInfo /\ queued = {} /\ work = <<>> /\ resolving = {}
    /\ intel = NoInfo /\ resDone = FALSE /\ restarts = 0

Cached(ip) == \E updated \in cache[ip] : resNow - updated < CacheTTL

\* Plausible bug: the queued mark is forgotten.
LookupUnmarked(ip) ==
    /\ ~Cached(ip) /\ ip \in Public \ queued /\ Len(work) < QueueSize
    /\ work' = Append(work, ip)
    /\ UNCHANGED <<resNow, cache, queued, resolving, intel, resDone, restarts>>

\* A miss of a public address that is not waiting, when the queue has room; every other
\* Lookup changes nothing.
Lookup(ip) ==
    /\ ~Cached(ip) /\ ip \in Public \ queued /\ Len(work) < QueueSize
    /\ work' = Append(work, ip)
    /\ queued' = queued \cup {ip}
    /\ UNCHANGED <<resNow, cache, resolving, intel, resDone, restarts>>

\* loop receives an address; resolve keeps a row younger than StoreTTL as it is, and
\* otherwise asks the network.
Take ==
    /\ work # <<>> /\ resolving = {}
    /\ LET ip    == Head(work)
           known == {t \in intel[ip] : resNow - t < StoreTTL}
       IN  resolving' = {[ip |-> ip, new |-> known = {},
                          updated |-> IF known = {} THEN {resNow} ELSE known]}
    /\ work' = Tail(work)
    /\ UNCHANGED <<resNow, cache, queued, intel, resDone, restarts>>

\* resolve returns: what is new goes to the table (a failed write is ignored) and the
\* result to the cache, which is emptied first when it is full.
Resolved(r) ==
    /\ intel' \in {intel, IF r.new THEN [intel EXCEPT ![r.ip] = r.updated] ELSE intel}
    /\ LET full == Cardinality({ip \in Ip : cache[ip] # {}}) >= MaxCache
       IN  cache' = [(IF full THEN NoInfo ELSE cache) EXCEPT ![r.ip] = r.updated]
    /\ queued' = queued \ {r.ip}
    /\ resolving' = {}
    /\ UNCHANGED <<resNow, work, resDone, restarts>>

CloseResolver ==
    /\ ~resDone /\ resDone' = TRUE
    /\ UNCHANGED <<resNow, cache, queued, work, resolving, intel, restarts>>

\* A crash, or a new process after Close.
Restart ==
    /\ restarts < MaxRestarts /\ restarts' = restarts + 1
    /\ cache' = NoInfo /\ queued' = {} /\ work' = <<>> /\ resolving' = {}
    /\ resDone' = FALSE
    /\ UNCHANGED <<resNow, intel>>

\* A tick is hours; resolve returns within its timeouts, seconds.
ResTick ==
    /\ resolving = {}
    /\ resNow < ResMaxTime /\ resNow' = resNow + 1
    /\ UNCHANGED <<cache, queued, work, resolving, intel, resDone, restarts>>

\* The worker; once Close has been called it may stop instead of receiving.
ResWork == Take \/ \E r \in resolving : Resolved(r)

ResNext ==
    \/ \E ip \in Ip : Lookup(ip)
    \/ ResWork \/ CloseResolver \/ Restart \/ ResTick

\* The requests of resolve have timeouts, so it returns.
ResSpec == ResInit /\ [][ResNext]_resVars /\ WF_resVars(~resDone /\ ResWork)

-----------------------------------------------------------------------------
\* The set of marks and the channel agree: an address is marked exactly while it waits
\* or is being resolved, and never waits twice, so a miss can never be suppressed for
\* good nor the queue be filled by one address.
QueuedExact ==
    /\ queued = Range(work) \cup {r.ip : r \in resolving}
    /\ IsInjective(work)
    /\ \A r \in resolving : r.ip \notin Range(work)
    /\ Len(work) <= QueueSize

=============================================================================
