------------------------------ MODULE Sessions ------------------------------
(***************************************************************************)
(* The TCP side of internal/services: the guarded listeners with their     *)
(* common pool of connection slots, the sessions of the emulators with     *)
(* their deadlines, and the HTTP and HTTPS listeners.                      *)
(*                                                                         *)
(* Time advances in ticks of ten seconds.  A handler's own code takes no   *)
(* time, so Tick waits for every handler that can run, every read whose    *)
(* deadline has passed and every sleep that is over.                       *)
(***************************************************************************)
EXTENDS Dialogues, FiniteSets

CONSTANTS
    Conn,          \* connections that clients make
    Kinds,         \* Kinds[c]: the services a connection may reach
    MaxConns,      \* capacity of Env.sem
    ConnDeadline,  \* connDeadline, in ticks
    VncWindow,     \* vncTarpitWindow, in ticks
    HoldMax,       \* longest hold of the VNC tarpit, in ticks
    LastArrival,   \* bound: no connection arrives later
    MaxTime,       \* bound on the clock
    MaxPanics      \* bound on handler panics

ASSUME SessionsAssumption ==
    /\ {MaxConns, ConnDeadline, VncWindow, HoldMax} \subseteq Nat \ {0}
    /\ {LastArrival, MaxTime, MaxPanics} \subseteq Nat
    /\ \A c \in Conn : Kinds[c] \subseteq TcpKinds \cup {"http", "https"}

VARIABLES
    now,        \* the clock
    ctxDone,    \* the context of Env.Run is cancelled
    listening,  \* the listeners accept
    serving,    \* http.Server.Serve runs (its return closes tlsListener.done)
    sem,        \* slots in use: len(Env.sem)
    conn,       \* the connections
    vncSeen,    \* vncSeenIPs for the one source address: {} or {the time of its last visit}
    panics

sessVars == <<now, ctxDone, listening, serving, sem, conn, vncSeen, panics>>

(* A connection: at is where its goroutine is, deadline the read deadline (0 is the      *)
(* past), until the end of a sleep, held whether closing it will still release a slot,   *)
(* captured the number of events it has produced, heard (history) what its client sent.  *)
Fresh == [at |-> "idle", d |-> Start("banner"), deadline |-> 0, until |-> 0, since |-> 0,
          ended |-> 0, held |-> FALSE, unblocked |-> FALSE, served |-> FALSE, captured |-> 0,
          end |-> "", heard |-> <<>>]

SessInit ==
    /\ now = 0 /\ ctxDone = FALSE /\ listening = TRUE /\ serving = TRUE
    /\ sem = 0 /\ conn = [c \in Conn |-> Fresh] /\ vncSeen = {} /\ panics = 0

IsWeb(c) == conn[c].d.kind \in {"http", "https"}
Open(c) == conn[c].at \notin {"idle", "closed"}

\* The ticks for which the handler sets the read deadline before its next read, or 0 if
\* it relies on the deadline it has.
Arm(d) ==
    CASE d.kind \in LineKinds \cup {"postgres", "mysql", "mqtt", "rdp", "sip", "banner"} -> 1
      [] d.kind \in {"vnc", "lightning", "minecraft"} /\ d.stage \in {"start", "tarpit"} -> 1
      [] d.kind = "telnet" /\ d.stage = "start" -> 2
      [] OTHER -> 0

\* Plausible bug: every Close gives a slot back.
ReleaseAlways(c) == sem' = sem - 1

\* slotConn.Close: the first Close of an accepted connection releases its slot.
Release(c) == sem' = IF conn[c].held THEN sem - 1 ELSE sem

\* The connection is closed with how it ended and the number of events it produced.
Closed(c, end, captured) ==
    [conn[c] EXCEPT !.at = "closed", !.held = FALSE, !.end = end, !.ended = now,
                    !.captured = captured, !.deadline = 0, !.until = 0, !.heard = <<>>,
                    !.d = [Start(@.kind) EXCEPT !.stage = conn[c].d.stage]]

-----------------------------------------------------------------------------
(* guardListener.Accept: a banned peer, or one that finds no free slot, is closed. *)

Refuse(c) ==
    /\ listening /\ conn[c].at = "idle" /\ now <= LastArrival
    /\ conn' = [conn EXCEPT ![c].at = "closed", ![c].end = "refused"]
    /\ UNCHANGED <<now, ctxDone, listening, serving, sem, vncSeen, panics>>

acquire == sem < MaxConns /\ sem' = sem + 1

vncIsRepeat(seen) == \E t \in seen : now - t < VncWindow

Accept(c) ==
    /\ listening /\ conn[c].at = "idle" /\ now <= LastArrival
    /\ acquire
    /\ \E kind \in Kinds[c] :
         LET repeat == kind = "vnc" /\ vncIsRepeat(vncSeen)
             d == [Start(kind) EXCEPT !.stage = IF repeat THEN "tarpit" ELSE "start"]
             at == CASE kind = "http" -> "header" [] kind = "https" -> "prepare" [] OTHER -> "run"
             limit == IF kind \in TcpKinds THEN ConnDeadline ELSE 1
         IN  /\ conn' = [conn EXCEPT ![c] =
                   [Fresh EXCEPT !.at = at, !.d = d, !.held = TRUE, !.since = now,
                                 !.deadline = now + limit]]
             /\ vncSeen' = IF kind = "vnc" THEN {now} ELSE vncSeen
    /\ UNCHANGED <<now, ctxDone, listening, serving, panics>>

pruneVNCSeen ==
    /\ vncSeen # {} /\ ~ctxDone
    /\ vncSeen' = {t \in vncSeen : t >= now - VncWindow}
    /\ UNCHANGED <<now, ctxDone, listening, serving, sem, conn, panics>>

-----------------------------------------------------------------------------
(* The goroutine of serveTCP and the handler it runs. *)

Block(c) ==
    /\ conn[c].at = "run" /\ conn[c].d.next = "read"
    /\ conn' = [conn EXCEPT ![c].at = "read",
                            ![c].deadline = IF Arm(conn[c].d) > 0 THEN now + Arm(conn[c].d) ELSE @]
    /\ UNCHANGED <<now, ctxDone, listening, serving, sem, vncSeen, panics>>

\* A read returns what the client sent, with or without an error; a read that would
\* touch a connection past its deadline returns only the error.
Receive(c) ==
    /\ conn[c].at = "read"
    /\ \E m \in Vocabulary(conn[c].d.kind) \cup {Nothing}, err \in BOOLEAN :
         /\ now < conn[c].deadline \/ conn[c].d.kind \in Buffered
         /\ conn' = [conn EXCEPT ![c].at = "run", ![c].d = After(@, m, err),
                                 ![c].heard = IF m = Nothing THEN @ ELSE Append(@, m)]
    /\ UNCHANGED <<now, ctxDone, listening, serving, sem, vncSeen, panics>>

Expire(c) ==
    /\ conn[c].at = "read" /\ conn[c].deadline <= now
    /\ conn' = [conn EXCEPT ![c].at = "run", ![c].d = After(@, Nothing, TRUE)]
    /\ UNCHANGED <<now, ctxDone, listening, serving, sem, vncSeen, panics>>

\* time.Sleep: one second in telnetHandler, 10 to 30 seconds in handleVNCConn.
Sleep(c) ==
    /\ conn[c].at = "run" /\ conn[c].d.next = "sleep"
    /\ \E hold \in IF conn[c].d.kind = "vnc" THEN 1..HoldMax ELSE 0..1 :
         conn' = [conn EXCEPT ![c].at = "sleep", ![c].until = now + hold]
    /\ UNCHANGED <<now, ctxDone, listening, serving, sem, vncSeen, panics>>

Wake(c) ==
    /\ conn[c].at = "sleep" /\ conn[c].until <= now
    /\ conn' = [conn EXCEPT ![c].at = "run", ![c].d = AfterSleep(@)]
    /\ UNCHANGED <<now, ctxDone, listening, serving, sem, vncSeen, panics>>

\* The deferred Close of handleMinecraftConn, before serveTCP captures and closes.
CloseInHandler(c) ==
    /\ conn[c].at = "run" /\ conn[c].d.next = "done"
    /\ conn[c].d.kind = "minecraft" /\ conn[c].held
    /\ Release(c)
    /\ conn' = [conn EXCEPT ![c].held = FALSE]
    /\ UNCHANGED <<now, ctxDone, listening, serving, vncSeen, panics>>

\* The handler has returned: Capture, then the deferred Close.
Return(c) ==
    /\ conn[c].at = "run" /\ conn[c].d.next = "done"
    /\ conn[c].d.kind = "minecraft" => ~conn[c].held
    /\ Release(c)
    /\ conn' = [conn EXCEPT ![c] = Closed(c, "served", conn[c].captured + 1)]
    /\ UNCHANGED <<now, ctxDone, listening, serving, vncSeen, panics>>

\* A panic is recovered after the handler: nothing is captured, Close still runs.
Panic(c) ==
    /\ conn[c].at = "run" /\ panics < MaxPanics
    /\ panics' = panics + 1
    /\ Release(c)
    /\ conn' = [conn EXCEPT ![c] = Closed(c, "panic", conn[c].captured)]
    /\ UNCHANGED <<now, ctxDone, listening, serving, vncSeen>>

\* context.AfterFunc: the deadline moves to the past, once, until a handler sets it again.
Unblock(c) ==
    /\ ctxDone /\ Open(c) /\ ~IsWeb(c) /\ ~conn[c].unblocked
    /\ conn' = [conn EXCEPT ![c].deadline = 0, ![c].unblocked = TRUE]
    /\ UNCHANGED <<now, ctxDone, listening, serving, sem, vncSeen, panics>>

-----------------------------------------------------------------------------
(* tlsListener.prepare and serveHTTP. *)

\* A ClientHello was read: the connection waits to be accepted by Serve.
PrepareHello(c) ==
    /\ conn[c].at = "prepare" /\ now < conn[c].deadline
    /\ conn' = [conn EXCEPT ![c].at = "handoff"]
    /\ UNCHANGED <<now, ctxDone, listening, serving, sem, vncSeen, panics>>

\* Nothing, or something that is no ClientHello, came: Close, then Capture.
PrepareRefuse(c) ==
    /\ conn[c].at = "prepare"
    /\ Release(c)
    /\ conn' = [conn EXCEPT ![c] = Closed(c, "served", conn[c].captured + 1)]
    /\ UNCHANGED <<now, ctxDone, listening, serving, vncSeen, panics>>

\* tlsListener.Accept takes it; ConnContext stores its connState.
Handoff(c) ==
    /\ conn[c].at = "handoff" /\ serving
    /\ conn' = [conn EXCEPT ![c].at = "header", ![c].deadline = now + 1]
    /\ UNCHANGED <<now, ctxDone, listening, serving, sem, vncSeen, panics>>

\* Plausible bug: prepare only waits for Accept, not for the end of the listener.
AbandonNever(c) == FALSE /\ UNCHANGED sessVars

\* The listener was closed while prepare was at work: Close, nothing captured.
Abandon(c) ==
    /\ conn[c].at = "handoff" /\ ~serving
    /\ Release(c)
    /\ conn' = [conn EXCEPT ![c] = Closed(c, "abandoned", conn[c].captured)]
    /\ UNCHANGED <<now, ctxDone, listening, serving, vncSeen, panics>>

\* Plausible bug: the handler forgets to mark the connection.
RequestUnmarked(c) ==
    /\ conn[c].at = "header" /\ now < conn[c].deadline
    /\ conn' = [conn EXCEPT ![c].at = "body", ![c].deadline = @ + 1]
    /\ UNCHANGED <<now, ctxDone, listening, serving, sem, vncSeen, panics>>

\* httpHandler: a valid request marks the connection as served; the body is read
\* until ReadTimeout.
Request(c) ==
    /\ conn[c].at = "header" /\ now < conn[c].deadline
    /\ conn' = [conn EXCEPT ![c].at = "body", ![c].served = TRUE, ![c].deadline = @ + 1]
    /\ UNCHANGED <<now, ctxDone, listening, serving, sem, vncSeen, panics>>

\* The rest of httpHandler: the request is captured, whole or not.
Respond(c) ==
    /\ conn[c].at = "body"
    /\ conn' = [conn EXCEPT ![c].at = "closing", ![c].captured = @ + 1]
    /\ UNCHANGED <<now, ctxDone, listening, serving, sem, vncSeen, panics>>

\* net/http recovers a panic of the handler, which had marked the connection.
RequestPanic(c) ==
    /\ conn[c].at = "body" /\ panics < MaxPanics
    /\ panics' = panics + 1
    /\ conn' = [conn EXCEPT ![c].at = "closing"]
    /\ UNCHANGED <<now, ctxDone, listening, serving, sem, vncSeen>>

\* A failed handshake, an invalid request, a timeout, a hang-up or Shutdown closes a
\* connection that made no request.
HeaderFail(c) ==
    /\ conn[c].at = "header"
    /\ conn' = [conn EXCEPT ![c].at = "closing"]
    /\ UNCHANGED <<now, ctxDone, listening, serving, sem, vncSeen, panics>>

\* net/http closes the connection and calls ConnState, which captures a connection
\* that was never served.
StateClosed(c) ==
    /\ conn[c].at = "closing"
    /\ Release(c)
    /\ conn' = [conn EXCEPT ![c] =
            Closed(c, IF conn[c].served /\ conn[c].captured = 0 THEN "panic" ELSE "served",
                   IF conn[c].served THEN conn[c].captured ELSE conn[c].captured + 1)]
    /\ UNCHANGED <<now, ctxDone, listening, serving, vncSeen, panics>>

-----------------------------------------------------------------------------
Cancel ==
    /\ ~ctxDone /\ ctxDone' = TRUE
    /\ UNCHANGED <<now, listening, serving, sem, conn, vncSeen, panics>>

\* The goroutine of listenTCP.
CloseListener ==
    /\ ctxDone /\ listening /\ listening' = FALSE
    /\ UNCHANGED <<now, ctxDone, serving, sem, conn, vncSeen, panics>>

\* srv.Serve returns and closes the listener it was given.
ServeReturn ==
    /\ ~listening /\ serving /\ serving' = FALSE
    /\ UNCHANGED <<now, ctxDone, listening, sem, conn, vncSeen, panics>>

Due(c) ==
    \/ conn[c].at \in {"run", "handoff", "closing"}
    \/ conn[c].at \in {"read", "prepare", "header", "body"} /\ conn[c].deadline <= now
    \/ conn[c].at = "sleep" /\ conn[c].until <= now
    \/ ctxDone /\ Open(c) /\ ~IsWeb(c) /\ ~conn[c].unblocked

Tick ==
    /\ now < MaxTime /\ \A c \in Conn : ~Due(c)
    /\ now' = now + 1
    /\ UNCHANGED <<ctxDone, listening, serving, sem, conn, vncSeen, panics>>

Session(c) ==
    \/ Block(c) \/ Expire(c) \/ Sleep(c) \/ Wake(c) \/ CloseInHandler(c) \/ Return(c)
    \/ Unblock(c) \/ Handoff(c) \/ Abandon(c) \/ StateClosed(c)

Timeout(c) == conn[c].deadline <= now /\ (PrepareRefuse(c) \/ HeaderFail(c) \/ Respond(c))

SessNext ==
    \/ \E c \in Conn :
         \/ Refuse(c) \/ Accept(c) \/ Receive(c) \/ Panic(c) \/ Session(c)
         \/ PrepareHello(c) \/ PrepareRefuse(c) \/ HeaderFail(c)
         \/ Request(c) \/ Respond(c) \/ RequestPanic(c)
    \/ pruneVNCSeen \/ Cancel \/ CloseListener \/ ServeReturn \/ Tick

\* What happens without a client: goroutines run, timers fire, time passes.
Prompt ==
    \/ CloseListener \/ ServeReturn \/ Tick
    \/ \E c \in Conn : Session(c) \/ Timeout(c)

\* The scheduler and the clock do not stand still.  Nothing is assumed of clients, of
\* panics or of a cancellation.
SessSpec == SessInit /\ [][SessNext]_sessVars /\ WF_sessVars(Prompt)

-----------------------------------------------------------------------------
\* The slots in use are exactly the connections that were accepted and not yet closed,
\* whichever way they end: returned, closed by the handler itself and then again by
\* serveTCP, panicked, refused by the TLS listener, or closed by net/http.
SlotsExact ==
    /\ sem = Cardinality({c \in Conn : conn[c].held})
    /\ \A c \in Conn : conn[c].held => Open(c)
    /\ \A c \in Conn : Open(c) /\ ~conn[c].held => conn[c].d.kind = "minecraft"

\* Every connection that was let in is captured exactly once, by the handler, by the TLS
\* listener or by the ConnState callback, unless its handler panicked or the listener
\* was closed before the HTTP server could take it.
CapturedOnce ==
    \A c \in Conn :
        /\ conn[c].captured <= 1
        /\ conn[c].at = "closed" =>
             conn[c].captured = IF conn[c].end \in {"refused", "panic", "abandoned"} THEN 0 ELSE 1
        /\ conn[c].end = "abandoned" => ctxDone

\* Words of a message that can be a user name or a secret.
Words(m) == {m.cmd, m.user, m.secret}

\* A reported credential is one the client gave: its secret (if any) in some message, its user in
\* that message or an earlier one, and in the protocols with USER and PASS the user of
\* the last USER.  The protocols that take a secret at any time report every secret.
CredsAsSent ==
    \A c \in Conn : LET d == conn[c].d
                        h == conn[c].heard IN
        /\ \A i \in DOMAIN d.creds : \E j \in 0..Len(h) :
             /\ d.creds[i].secret = "" \/ (j > 0 /\ d.creds[i].secret \in Words(h[j]))
             /\ \/ d.creds[i].user \in {"", "default"}
                \/ \E k \in 1..j : /\ d.creds[i].user \in Words(h[k])
                                   /\ \A l \in k+1..j : h[l].cmd # "USER"
        /\ d.kind \in {"ftp", "pop3", "redis", "ssh"} =>
             Len(d.creds) = Cardinality({j \in DOMAIN h : h[j].secret # ""})

\* The longest a session of a kind lasts, in ticks.
Limit(kind) ==
    CASE kind \in LineKinds -> SessionLines
      [] kind = "telnet" -> 3 * LoginRounds
      [] kind = "ssh" -> ConnDeadline
      [] kind = "postgres" -> StartupMessages + 1
      [] kind = "sip" -> SipMessages
      [] kind = "vnc" -> 1 + HoldMax
      [] kind \in {"mysql", "mqtt", "rdp", "http"} -> 2
      [] kind = "https" -> 3
      [] OTHER -> 1

\* No client can keep a slot longer than the limit of the service it talks to, however
\* slowly it sends: each handler's rounds times the deadline it sets for a round.
SlotHeldBounded ==
    \A c \in Conn : conn[c].at # "idle" =>
        (IF Open(c) THEN now ELSE conn[c].ended) - conn[c].since <= Limit(conn[c].d.kind)

\* Every connection that was let in is closed, and gives back its slot, without help of
\* the client, also when the server stops.
SessionsEnd == \A c \in Conn : Open(c) ~> conn[c].at = "closed"

=============================================================================
