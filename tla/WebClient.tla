----------------------------- MODULE WebClient -----------------------------
(***************************************************************************)
(* The dashboard's live page, in the browser: the reconnecting WebSocket   *)
(* (web/src/lib/ws.ts), the window of events it feeds (lib/store.ts),      *)
(* pause, noise toggle and time slider (pages/live.ts), and the ban panel  *)
(* that polls /api/banned (panels/banned.ts).  Every handler runs to its   *)
(* end before the next one, as in the browser.  What is drawn (arcs, log   *)
(* rows, last-seen list, port counts) is left out.                         *)
(***************************************************************************)
EXTENDS Naturals, Sequences, FiniteSets

CONSTANTS
    DstPort,    \* the ports of the events
    ObservedPort, \* the ports without a listener, whose events are of kind observed
    PauseMax,   \* PAUSE_BUFFER_MAX
    MaxFrames,  \* bound on the frames of one connection
    PageMaxTime,  \* bound on the page's clock, in hours
    MaxBreaks,  \* bound on lost connections and on the user's reloads
    MaxBanFlips,  \* bound on the changes of the server's ban
    Call        \* the requests to /api/banned that can be under way at once

ASSUME ClientAssumption == PauseMax \in Nat \ {0} /\ ObservedPort \subseteq DstPort

VARIABLES
    sock,       \* this.ws: "none", "connecting" or "open"
    wsStale,    \* sockets left open that this.ws no longer names
    wsTimer,    \* this.timer is pending
    wsHours,    \* the hours of the stream
    breaks,     \* losses and reloads so far
    frames,     \* the frames of this connection, as they came
    page,       \* LiveState: the events and the hours of the window
    paused,
    pauseBuffer,
    hideNoise,
    pageNow,
    bans,       \* whether the server has the ban
    banSet,     \* whether the panel's set has it
    banCall,    \* each request: "idle", "sent", or the answer on its way
    banToggle,  \* the call of a toggle under way: "idle", "ban" or "unban"
    banFlips

streamVars == <<sock, wsStale, wsTimer, wsHours, breaks, frames, page, paused, pauseBuffer,
                hideNoise, pageNow>>

panelVars == <<bans, banSet, banCall, banToggle, banFlips>>

clientVars == <<streamVars, panelVars>>

----------------------------------------------------------------------------
(* lib/store.ts *)

createLiveState(h) == [events |-> <<>>, hours |-> h]

\* Written without subtraction: the event is older than the window.
Expired(st, ev, now) == ev.time + st.hours < now

evictExpired(st, now) ==
    LET heads == {i \in 0..Len(st.events) : \A j \in 1..i : Expired(st, st.events[j], now)}
        k     == CHOOSE i \in heads : \A j \in heads : j <= i
    IN  [st EXCEPT !.events = SubSeq(@, k + 1, Len(@))]

recordEvent(st, ev, now) == evictExpired([st EXCEPT !.events = Append(@, ev)], now)

\* pages/live.ts process: what the event does to the state.
process(st, ev, noNoise, now) ==
    IF noNoise /\ ev.noise THEN st ELSE recordEvent(st, ev, now)

----------------------------------------------------------------------------
(* lib/ws.ts, and resetAll of pages/live.ts *)

\* Plausible bug: what a pause held back survives the reconnect.
connectKeepingBuffer(w, h) ==
    /\ sock' = "connecting"
    /\ wsStale' = wsStale + (IF w = "none" THEN 0 ELSE 1)
    /\ wsTimer' = FALSE
    /\ wsHours' = h
    /\ frames' = <<>>
    /\ page' = createLiveState(h)
    /\ UNCHANGED pauseBuffer

\* connect with this.ws = w: onReset, and a socket that is connecting.
connect(w, h) ==
    /\ sock' = "connecting"
    /\ wsStale' = wsStale + (IF w = "none" THEN 0 ELSE 1)
    /\ wsTimer' = FALSE
    /\ wsHours' = h
    /\ frames' = <<>>
    /\ page' = createLiveState(h)
    /\ pauseBuffer' = <<>>

ClientInit ==
    /\ sock = "connecting" /\ wsStale = 0 /\ wsTimer = FALSE /\ wsHours = 1
    /\ breaks = 0 /\ frames = <<>> /\ page = createLiveState(1)
    /\ paused = FALSE /\ pauseBuffer = <<>> /\ hideNoise = TRUE /\ pageNow = 0
    /\ bans = FALSE /\ banSet = FALSE /\ banFlips = 0
    /\ banCall = [c \in Call |-> "idle"] /\ banToggle = "idle"

OnOpen ==
    /\ sock = "connecting"
    /\ sock' = "open"
    /\ UNCHANGED <<wsStale, wsTimer, wsHours, breaks, frames, page, paused, pauseBuffer, hideNoise, pageNow>>

\* The connection fails or is lost: onclose (onerror only closes), or a constructor that throws.
OnClose ==
    /\ sock # "none" /\ breaks < MaxBreaks
    /\ sock' = "none"
    /\ wsTimer' = TRUE
    /\ breaks' = breaks + 1
    /\ UNCHANGED <<wsStale, wsHours, frames, page, paused, pauseBuffer, hideNoise, pageNow>>

\* The retry's timeout: connect, with the hours the stream has by now.
TimerFires ==
    /\ wsTimer
    /\ connect(sock, wsHours)
    /\ UNCHANGED <<breaks, paused, hideNoise, pageNow>>

\* Plausible bug: the pending retry is not cleared.
ReloadKeepingTimer ==
    /\ breaks < MaxBreaks
    /\ sock' = "connecting" /\ wsTimer' = wsTimer /\ wsStale' = wsStale /\ wsHours' = wsHours
    /\ frames' = <<>> /\ page' = createLiveState(page.hours) /\ pauseBuffer' = <<>>
    /\ breaks' = breaks + 1
    /\ hideNoise' = ~hideNoise
    /\ UNCHANGED <<paused, pageNow>>

\* reload, from the noise button: closeSocket has dropped this.ws and the timer is cleared.
NoiseToggle ==
    /\ breaks < MaxBreaks
    /\ connect("none", wsHours)
    /\ breaks' = breaks + 1
    /\ hideNoise' = ~hideNoise
    /\ UNCHANGED <<paused, pageNow>>

\* The slider's timeout: state.hours, then setHours.
SliderFires(h) ==
    /\ breaks < MaxBreaks
    /\ h # page.hours
    /\ connect("none", h)
    /\ breaks' = breaks + 1
    /\ UNCHANGED <<paused, hideNoise, pageNow>>

\* onEvent: a frame of the replay, or of the live feed, which may be late.
OnMessage(p, t) ==
    /\ sock = "open" /\ Len(frames) < MaxFrames
    /\ LET ev  == [n |-> Len(frames) + 1, port |-> p, noise |-> p \in ObservedPort, time |-> t]
           buf == Append(pauseBuffer, ev)
           over == IF Len(buf) > PauseMax THEN Len(buf) - PauseMax ELSE 0
       IN  /\ frames' = Append(frames, ev)
           /\ IF paused
              THEN pauseBuffer' = SubSeq(buf, over + 1, Len(buf)) /\ UNCHANGED page
              ELSE page' = process(page, ev, hideNoise, pageNow) /\ UNCHANGED pauseBuffer
    /\ UNCHANGED <<sock, wsStale, wsTimer, wsHours, breaks, paused, hideNoise, pageNow>>

SetPaused ==
    /\ paused' = ~paused
    /\ IF paused
       THEN /\ LET drained[i \in 0..Len(pauseBuffer)] ==
                     IF i = 0 THEN page
                     ELSE process(drained[i - 1], pauseBuffer[i], hideNoise, pageNow)
               IN  page' = drained[Len(pauseBuffer)]
            /\ pauseBuffer' = <<>>
       ELSE UNCHANGED <<page, pauseBuffer>>
    /\ UNCHANGED <<sock, wsStale, wsTimer, wsHours, breaks, frames, hideNoise, pageNow>>

PageTick ==
    /\ pageNow < PageMaxTime
    /\ pageNow' = pageNow + 1
    /\ UNCHANGED <<sock, wsStale, wsTimer, wsHours, breaks, frames, page, paused, pauseBuffer, hideNoise>>

StreamNext ==
    /\ UNCHANGED panelVars
    /\ \/ OnOpen \/ OnClose \/ TimerFires \/ NoiseToggle \/ SetPaused \/ PageTick
       \/ \E h \in 1..2 : SliderFires(h)
       \/ \E p \in DstPort, t \in 0..pageNow : OnMessage(p, t)

----------------------------------------------------------------------------
(* panels/banned.ts *)

\* The interval's refresh, or the first one.
PollBans(c) ==
    /\ banCall[c] = "idle"
    /\ banCall' = [banCall EXCEPT ![c] = "sent"]
    /\ UNCHANGED <<bans, banSet, banToggle, banFlips>>

\* The server answers with the bans it has now.
ServeBans(c) ==
    /\ banCall[c] = "sent"
    /\ banCall' = [banCall EXCEPT ![c] = IF bans THEN "banned" ELSE "clear"]
    /\ UNCHANGED <<bans, banSet, banToggle, banFlips>>

\* Plausible bug: the set is not cleared first.
ApplyBansAdding(c) ==
    /\ banCall[c] \in {"banned", "clear"}
    /\ banSet' = (banSet \/ banCall[c] = "banned")
    /\ banCall' = [banCall EXCEPT ![c] = "idle"]
    /\ UNCHANGED <<bans, banToggle, banFlips>>

\* refresh resumes after its await: the set becomes what the answer says.
ApplyBans(c) ==
    /\ banCall[c] \in {"banned", "clear"}
    /\ banSet' = (banCall[c] = "banned")
    /\ banCall' = [banCall EXCEPT ![c] = "idle"]
    /\ UNCHANGED <<bans, banToggle, banFlips>>

\* A request that fails: refresh keeps the previous set.
CallFails(c) ==
    /\ banCall[c] # "idle" /\ banFlips < MaxBanFlips
    /\ banCall' = [banCall EXCEPT ![c] = "idle"]
    /\ banFlips' = banFlips + 1
    /\ UNCHANGED <<bans, banSet, banToggle>>

\* The click chooses by the set the panel has now.
Toggle ==
    /\ banToggle = "idle" /\ banFlips < MaxBanFlips
    /\ banToggle' = IF banSet THEN "unban" ELSE "ban"
    /\ banFlips' = banFlips + 1
    /\ UNCHANGED <<bans, banSet, banCall>>

\* The call succeeds or fails; then toggle refreshes.
ToggleDone(c) ==
    /\ banToggle # "idle" /\ banCall[c] = "idle"
    /\ bans' \in {bans, banToggle = "ban"}
    /\ banToggle' = "idle"
    /\ banCall' = [banCall EXCEPT ![c] = "sent"]
    /\ UNCHANGED <<banSet, banFlips>>

\* A ban of the server's own, an expiry, or another operator.
ServerFlips ==
    /\ banFlips < MaxBanFlips
    /\ bans' = ~bans
    /\ banFlips' = banFlips + 1
    /\ UNCHANGED <<banSet, banCall, banToggle>>

PanelNext ==
    /\ UNCHANGED streamVars
    /\ \/ Toggle \/ ServerFlips
       \/ \E c \in Call : PollBans(c) \/ ServeBans(c) \/ ApplyBans(c) \/ CallFails(c) \/ ToggleDone(c)

\* The page's two parts; the browser runs the handlers of both.
ClientSpec ==
    /\ ClientInit /\ [][StreamNext \/ PanelNext]_clientVars
    /\ \A c \in Call : WF_panelVars(PollBans(c) \/ ServeBans(c) \/ ApplyBans(c))
    /\ WF_panelVars(\E c \in Call : ToggleDone(c))

----------------------------------------------------------------------------
(* Properties *)

\* ws.ts keeps one way forward: either one socket or one pending retry, never both, never
\* neither, and no socket that this.ws no longer names stays open, whatever order losses,
\* retries, noise toggles and slider moves come in.
OneStream == (sock = "none") = wsTimer /\ wsStale = 0

\* What the page has, shown or buffered, is this connection's frames in the order they came,
\* once each, and no hidden noise; a frame is missing only if it is noise, or too old, or
\* PAUSE_BUFFER_MAX newer ones pushed it out of the pause buffer.
ShownExact ==
    LET kept == page.events \o pauseBuffer
        In(n) == \E i \in DOMAIN kept : kept[i] = frames[n]
    IN  /\ \A i \in DOMAIN kept : kept[i].n \in DOMAIN frames /\ kept[i] = frames[kept[i].n]
        /\ \A i, j \in DOMAIN kept : i < j => kept[i].n < kept[j].n
        /\ \A i \in DOMAIN page.events : ~(hideNoise /\ page.events[i].noise)
        /\ \A n \in DOMAIN frames :
              \/ In(n)
              \/ hideNoise /\ frames[n].noise
              \/ Expired(page, frames[n], pageNow)
              \/ n + PauseMax <= Len(frames)

\* Once the server's bans settle, the panel shows them: every answer on its way, however
\* old, is applied, and the poll brings a newer one.
PanelConverges == <>[](banSet = bans)

=============================================================================
