------------------------------ MODULE LiveFeed ------------------------------
(***************************************************************************)
(* The live feed of the dashboard (Server.handleWS): a client subscribes   *)
(* to the hub, is sent the stored history, then the events its channel has *)
(* buffered and those to come.  Workers broadcast an event before they     *)
(* hand it to the database, whose writer commits it some time later.       *)
(***************************************************************************)
EXTENDS Hub

CONSTANTS
    InsertQSize,   \* capacity of EventDB.insertQ
    MaxReplay      \* maxReplayEvents

ASSUME FeedAssumption == InsertQSize \in Nat \ {0} /\ MaxReplay \in Nat \ {0}

VARIABLES
    insertQ,  \* events waiting for the writer
    rows,     \* the events table, in the order of the ids
    ws        \* per client: where its handler is and what it replays; ghosts: the events
              \* broadcast and not yet stored when it subscribed nor when it read the
              \* history (early), the rows beyond the limit (trimmed)

feedVars == <<hubVars, insertQ, rows, ws>>

FeedInit ==
    /\ HubInit
    /\ insertQ = <<>> /\ rows = [i \in 1..count |-> i]
    /\ ws = [s \in Sub |-> [at |-> "new", replay |-> <<>>, early |-> {}, trimmed |-> {}]]

Capture(c) == Broadcast(c) /\ UNCHANGED <<insertQ, rows, ws>>

Deliver(c, s) == Send(c, s) /\ UNCHANGED <<insertQ, rows, ws>>

\* Broadcast returns and DB.Insert queues the event, or drops it when the queue is full.
Insert(c) ==
    /\ Return(c)
    /\ insertQ' = IF Len(insertQ) < InsertQSize THEN Append(insertQ, casting[c].ev) ELSE insertQ
    /\ UNCHANGED <<rows, ws>>

\* flushBatch commits a batch, or loses it.
Flush ==
    /\ \E n \in 1..Len(insertQ) :
         /\ insertQ' = SubSeq(insertQ, n + 1, Len(insertQ))
         /\ rows' \in {rows, rows \o SubSeq(insertQ, 1, n)}
    /\ UNCHANGED <<hubVars, ws>>

\* Plausible bug: the history is loaded before the channel exists.
ConnectLate(s) ==
    /\ ws[s].at = "new"
    /\ IF ws[s].replay = <<>>
       THEN /\ ws' = [ws EXCEPT ![s].replay = rows] /\ UNCHANGED hubVars
       ELSE /\ Subscribe(s)
            /\ ws' = [ws EXCEPT ![s].at = "replay", ![s].early = 1..count \ Range(rows)]
    /\ UNCHANGED <<insertQ, rows>>

\* handleWS up to Subscribe.
Connect(s) ==
    /\ ws[s].at = "new"
    /\ Subscribe(s)
    /\ ws' = [ws EXCEPT ![s].at = "load", ![s].early = 1..count \ Range(rows)]
    /\ UNCHANGED <<insertQ, rows>>

\* LoadHistorySince: the newest rows, oldest first.  A failed query is only logged, and
\* the client gets no history.
Load(s) ==
    /\ ws[s].at = "load"
    /\ \E most \in {0, MaxReplay} :
         LET cut == IF Len(rows) > most THEN Len(rows) - most ELSE 0
         IN  ws' = [ws EXCEPT ![s] = [at |-> "replay",
                                      replay |-> SubSeq(rows, cut + 1, Len(rows)),
                                      early |-> @.early \ Range(rows),
                                      trimmed |-> Range(SubSeq(rows, 1, cut))]]
    /\ UNCHANGED <<hubVars, insertQ, rows>>

\* The history has been written to the client.
Replayed(s) ==
    /\ ws[s].at = "replay"
    /\ ws' = [ws EXCEPT ![s].at = "live"]
    /\ UNCHANGED <<hubVars, insertQ, rows>>

Live(s) == ws[s].at = "live" /\ Receive(s) /\ UNCHANGED <<insertQ, rows, ws>>

\* A write or a ping fails, or the client hangs up.
Leave(s) ==
    /\ ws[s].at \in {"load", "replay", "live"}
    /\ Unsubscribe(s)
    /\ ws' = [ws EXCEPT ![s].at = "gone"]
    /\ UNCHANGED <<insertQ, rows>>

FeedNext ==
    \/ \E s \in Sub : Connect(s) \/ Load(s) \/ Replayed(s) \/ Live(s) \/ Leave(s)
    \/ \E c \in Caster : Capture(c) \/ Insert(c) \/ \E s \in Sub : Deliver(c, s)
    \/ Flush

\* Workers run to the end of what they are doing.
FeedPrompt == \E c \in Caster : Insert(c) \/ \E s \in Sub : Deliver(c, s)

FeedSpec == FeedInit /\ [][FeedNext]_feedVars /\ WF_feedVars(FeedPrompt)

-----------------------------------------------------------------------------
\* "Subscribe first so live events buffer while history replays": a connected client has
\* been or will be sent every event, replayed or live.  The only gaps are events broadcast
\* before it subscribed that were not yet stored when the history was read (never stored,
\* or stored too late), events its full channel missed, and rows beyond the limit.
FeedHasNoGap ==
    \A s \in Sub : ws[s].at \in {"replay", "live"} =>
        1..count \subseteq Range(ws[s].replay) \cup Range(Seen(s)) \cup UnderWay(s)
                            \cup missed[s] \cup ws[s].early \cup ws[s].trimmed

=============================================================================
