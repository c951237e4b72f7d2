----------------------------- MODULE Dashboard -----------------------------
(***************************************************************************)
(* The dashboard server (internal/server/server.go): the middleware that   *)
(* every request passes, the one operation that changes the sensor (ban    *)
(* and unban), and traceroute, which runs a child process in a bounded     *)
(* number of slots and streams its hops over a channel                     *)
(* (internal/traceroute/traceroute.go).  The live feed is module LiveFeed. *)
(***************************************************************************)
EXTENDS Naturals, FiniteSets

CONSTANTS
    Tracer,     \* requests that may ask for a traceroute at the same time
    MaxTraces,  \* cap(traceSem): 2
    MaxHops,    \* hops a child prints, 20
    HopBuffer   \* cap(hopCh): 32

ASSUME DashAssumption == MaxTraces \in Nat \ {0} /\ MaxHops \in Nat /\ HopBuffer \in Nat \ {0}

VARIABLES
    auth,       \* AuthEnabled
    request,    \* the request being served, if any
    reply,      \* what it was answered
    banned,     \* whether the address of the request is banned
    sem,        \* len(traceSem)
    trace       \* per tracer: handler, runner, hops in hopCh and printed, child, context

dashVars == <<auth, request, reply, banned, sem, trace>>

Requests ==
    [method : {"GET", "POST"}, path : {"healthz", "read", "ban", "unban"},
     host : {"known", "foreign"}, origin : {"none", "same", "allowed", "other"},
     json : BOOLEAN, creds : {"none", "wrong", "right"}, valid : BOOLEAN]

NoTrace == [handler |-> "none", runner |-> "none", hops |-> 0, printed |-> 0,
            child |-> "none", ctx |-> "live"]

DashInit ==
    /\ auth \in BOOLEAN /\ request = {} /\ reply = {} /\ banned = FALSE
    /\ sem = 0 /\ trace = [t \in Tracer |-> NoTrace]

-----------------------------------------------------------------------------
\* hostAllowed only matters without authentication.
hostCheck(r) == auth \/ r.host = "known"

\* Plausible bug: either an acceptable origin or a JSON body is enough.
originCheckEither(r) == \/ r.method = "GET"
                        \/ r.origin # "other"
                        \/ r.json

\* A method other than GET, HEAD or OPTIONS needs a matching Origin, if it has one,
\* and a JSON body.
originCheck(r) == \/ r.method = "GET"
                  \/ r.origin # "other" /\ r.json

basicAuth(r) == ~auth \/ r.path = "healthz" \/ r.creds = "right"

\* The answer of the middleware, in its order, or "pass".
Gate(r) ==
    CASE ~hostCheck(r) -> "403"
      [] hostCheck(r) /\ ~originCheck(r) -> IF r.origin = "other" THEN "403" ELSE "415"
      [] hostCheck(r) /\ originCheck(r) /\ ~basicAuth(r) -> "401"
      [] OTHER -> "pass"

Arrive ==
    /\ request = {} /\ reply = {}
    /\ \E r \in Requests : request' = {r}
    /\ UNCHANGED <<auth, reply, banned, sem, trace>>

Answer(status) ==
    /\ reply' = {status} /\ UNCHANGED <<auth, request, sem, trace>>

Refuse ==
    /\ reply = {}
    /\ \E r \in request : Gate(r) # "pass" /\ Answer(Gate(r))
    /\ UNCHANGED banned

\* handleHistory and the other queries: 400 for a bad parameter, 500 when the store
\* fails or the handler panics (recoverMW).
ServeRead ==
    /\ reply = {}
    /\ \E r \in request :
          /\ Gate(r) = "pass" /\ r.path \in {"healthz", "read"}
          /\ \/ r.valid /\ Answer("200")
             \/ ~r.valid /\ r.path = "read" /\ Answer("400")
             \/ r.path = "read" /\ Answer("500")
    /\ UNCHANGED banned

\* handleBan: ManualBan and ManualUnban (module BanLimiter) say whether they changed
\* the entry.
handleBan ==
    /\ reply = {}
    /\ \E r \in request :
          /\ Gate(r) = "pass" /\ r.path \in {"ban", "unban"}
          /\ \/ r.method # "POST" /\ Answer("405") /\ UNCHANGED banned
             \/ r.method = "POST" /\ ~r.valid /\ Answer("400") /\ UNCHANGED banned
             \/ /\ r.method = "POST" /\ r.valid
                /\ banned' = (r.path = "ban")
                /\ Answer(CASE banned' # banned -> "200"
                            [] r.path = "ban" /\ banned -> "409"
                            [] OTHER -> "404")

Sent ==
    /\ reply # {} /\ request' = {} /\ reply' = {}
    /\ UNCHANGED <<auth, banned, sem, trace>>

-----------------------------------------------------------------------------
SetTrace(t, r) == trace' = [trace EXCEPT ![t] = r] /\ UNCHANGED <<auth, request, reply, banned>>

\* handleTraceroute takes a slot or answers 429, and starts traceroute.Run.
StartTrace(t) ==
    /\ trace[t].handler = "none"
    /\ IF sem < MaxTraces
       THEN sem' = sem + 1 /\ SetTrace(t, [NoTrace EXCEPT !.handler = "ranging", !.runner = "starting"])
       ELSE sem' = sem /\ SetTrace(t, [NoTrace EXCEPT !.handler = "refused"])

Refused(t) ==
    /\ trace[t].handler = "refused" /\ SetTrace(t, NoTrace) /\ UNCHANGED sem

\* The client goes away or 60 seconds pass; CommandContext kills the child.
CtxDone(t) ==
    /\ trace[t].handler = "ranging" /\ trace[t].ctx = "live"
    /\ SetTrace(t, [trace[t] EXCEPT !.ctx = "done",
                                    !.child = IF @ = "running" THEN "killed" ELSE @])
    /\ UNCHANGED sem

\* Plausible bug: close(ch) only where the scan ends.
RunStartsUnclosed(t) ==
    /\ trace[t].runner = "starting"
    /\ \/ SetTrace(t, [trace[t] EXCEPT !.runner = "gone"])
       \/ /\ trace[t].ctx = "live"
          /\ SetTrace(t, [trace[t] EXCEPT !.runner = "scanning", !.child = "running"])
    /\ UNCHANGED sem

\* No tool or no start: the deferred close still runs.
RunStarts(t) ==
    /\ trace[t].runner = "starting"
    /\ \/ SetTrace(t, [trace[t] EXCEPT !.runner = "closed"])
       \/ /\ trace[t].ctx = "live"
          /\ SetTrace(t, [trace[t] EXCEPT !.runner = "scanning", !.child = "running"])
    /\ UNCHANGED sem

\* A line with a new public address: its hop is to be sent.
Scan(t) ==
    /\ trace[t].runner = "scanning" /\ trace[t].child \in {"running", "killed"}
    /\ trace[t].printed < MaxHops
    /\ SetTrace(t, [trace[t] EXCEPT !.runner = "sending", !.printed = @ + 1])
    /\ UNCHANGED sem

Exits(t) ==
    /\ trace[t].child = "running"
    /\ SetTrace(t, [trace[t] EXCEPT !.child = "exited"])
    /\ UNCHANGED sem

SendHop(t) ==
    /\ trace[t].runner = "sending" /\ trace[t].hops < HopBuffer
    /\ SetTrace(t, [trace[t] EXCEPT !.runner = "scanning", !.hops = @ + 1])
    /\ UNCHANGED sem

\* case <-ctx.Done(): Kill, and return without Wait: the child stays a zombie.
Abort(t) ==
    /\ trace[t].runner = "sending" /\ trace[t].ctx = "done"
    /\ SetTrace(t, [trace[t] EXCEPT !.runner = "closed", !.child = "zombie"])
    /\ UNCHANGED sem

\* End of output: Wait reaps the child.
ScanEnds(t) ==
    /\ trace[t].runner = "scanning" /\ trace[t].child \in {"exited", "killed"}
    /\ SetTrace(t, [trace[t] EXCEPT !.runner = "closed", !.child = "reaped"])
    /\ UNCHANGED sem

Stream(t) ==
    /\ trace[t].handler = "ranging" /\ trace[t].hops > 0
    /\ SetTrace(t, [trace[t] EXCEPT !.hops = @ - 1])
    /\ UNCHANGED sem

\* The range ends: "event: done", and the deferred receive frees the slot.
StreamEnds(t) ==
    /\ trace[t].handler = "ranging" /\ trace[t].hops = 0 /\ trace[t].runner = "closed"
    /\ sem' = sem - 1 /\ SetTrace(t, NoTrace)

TraceWork(t) ==
    \/ CtxDone(t) \/ RunStarts(t) \/ SendHop(t) \/ Abort(t) \/ ScanEnds(t)
    \/ Stream(t) \/ StreamEnds(t) \/ Scan(t) \/ Refused(t)

RequestNext == Arrive \/ Refuse \/ ServeRead \/ handleBan \/ Sent

TraceNext == \E t \in Tracer : StartTrace(t) \/ Exits(t) \/ TraceWork(t)

\* Handlers and runners go on, and the deadline comes; a child may hang.
DashSpec ==
    /\ DashInit /\ [][RequestNext \/ TraceNext]_dashVars
    /\ \A t \in Tracer : WF_dashVars(TraceWork(t))

-----------------------------------------------------------------------------
\* Bans change only on a JSON POST that is not cross-site, from an authenticated
\* client or, without authentication, to a host name that cannot be rebound
\* (hostCheck, originCheck and basicAuth together).
BansGuarded ==
    [][banned' # banned =>
         \E r \in request : /\ r.method = "POST" /\ r.json /\ r.origin # "other"
                            /\ IF auth THEN r.creds = "right" ELSE r.host = "known"]_dashVars

\* Every traceroute ends and gives its slot back, whether its child cannot be started,
\* exits, hangs until the deadline, or is abandoned by its client.
TraceEnds == \A t \in Tracer : trace[t].handler = "ranging" ~> trace[t].handler = "none"

=============================================================================
