-------------------------------- MODULE Hub --------------------------------
(***************************************************************************)
(* internal/hub/hub.go: the fan-out of live events to subscriber channels  *)
(* and the ring buffer of recent events.  Broadcast is called by several   *)
(* pipeline workers at once; it records the event and copies the           *)
(* subscriber set under the lock, and sends after releasing it.            *)
(***************************************************************************)
EXTENDS Integers, Sequences, FiniteSets, Functions

CONSTANTS
    Caster,           \* goroutines that call Broadcast
    Sub,              \* subscriber channels
    HistorySize,
    SubscriberBuffer,
    MaxSeeds,         \* bound on the events Seed receives at start-up
    MaxEvents         \* bound on the events, seeded ones included

ASSUME HubAssumption ==
    /\ HistorySize \in Nat \ {0} /\ SubscriberBuffer \in Nat \ {0}
    /\ MaxSeeds \in Nat /\ MaxEvents \in Nat /\ MaxSeeds <= MaxEvents

VARIABLES
    ring, next, full, \* the ring buffer, indexed from 0
    subscribers,
    buf,              \* the channel of each subscriber
    casting,          \* per caster: the event, and the channels left to send to
    count,            \* events so far; an event is its number
    since,            \* ghost: events so far when each subscriber subscribed
    closed,           \* ghost: channels whose Unsubscribe has returned
    received,         \* ghost: what each subscriber took from its channel
    missed            \* ghost: events dropped because the channel was full

hubVars == <<ring, next, full, subscribers, buf, casting, count, since,
             closed, received, missed>>

Idle == [ev |-> 0, left |-> {}]

-----------------------------------------------------------------------------
\* The ring after one more event.
Push(r, ev) ==
    [ring |-> [r.ring EXCEPT ![r.next] = ev],
     next |-> IF r.next + 1 = HistorySize THEN 0 ELSE r.next + 1,
     full |-> r.full \/ r.next + 1 = HistorySize]

Ring == [ring |-> ring, next |-> next, full |-> full]

EmptyRing == [ring |-> [j \in 0 .. HistorySize - 1 |-> 0], next |-> 0, full |-> FALSE]

\* The rings on the way, when events are pushed one by one on an empty one.
Pushed(events) ==
    LET after[i \in 0 .. Len(events)] ==
            IF i = 0 THEN EmptyRing ELSE Push(after[i - 1], events[i])
    IN  after

\* The newest HistorySize events.
Newest(events) ==
    IF Len(events) > HistorySize
    THEN SubSeq(events, Len(events) - HistorySize + 1, Len(events))
    ELSE events

Seed(events) == Pushed(Newest(events))[Len(Newest(events))]

\* Plausible bug: the two halves of a full ring are not swapped.
SnapshotUnrotated == [i \in 1 .. (IF full THEN HistorySize ELSE next) |-> ring[i - 1]]

\* The oldest first.
Snapshot ==
    IF ~full THEN [i \in 1 .. next |-> ring[i - 1]]
    ELSE [i \in 1 .. HistorySize - next |-> ring[next + i - 1]] \o
         [i \in 1 .. next |-> ring[i - 1]]

HubInit ==
    /\ count \in 0 .. MaxSeeds
    /\ LET r == Seed([i \in 1 .. count |-> i])
       IN  ring = r.ring /\ next = r.next /\ full = r.full
    /\ subscribers = {}
    /\ buf = [s \in Sub |-> <<>>]
    /\ casting = [c \in Caster |-> Idle]
    /\ since = [s \in Sub |-> 0]
    /\ closed = {}
    /\ received = [s \in Sub |-> <<>>]
    /\ missed = [s \in Sub |-> {}]

Subscribe(s) ==
    /\ s \notin subscribers \cup closed
    /\ subscribers' = subscribers \cup {s}
    /\ since' = [since EXCEPT ![s] = count]
    /\ UNCHANGED <<ring, next, full, buf, casting, count, closed, received,
                   missed>>

Unsubscribe(s) ==
    /\ s \in subscribers
    /\ subscribers' = subscribers \ {s}
    /\ closed' = closed \cup {s}
    /\ UNCHANGED <<since, ring, next, full, buf, casting, count, received, missed>>

\* Broadcast under the lock: push, and copy the subscriber set.
Broadcast(c) ==
    /\ casting[c] = Idle /\ count < MaxEvents
    /\ LET ev == count + 1
           r  == Push(Ring, ev)
       IN  /\ count' = ev
           /\ ring' = r.ring /\ next' = r.next /\ full' = r.full
           /\ casting' = [casting EXCEPT ![c] = [ev |-> ev, left |-> subscribers]]
    /\ UNCHANGED <<since, subscribers, buf, closed, received, missed>>

\* Plausible bug: the channel is not taken off the list.
SendTwice(c, s) ==
    /\ s \in casting[c].left
    /\ Len(buf[s]) < SubscriberBuffer
    /\ buf' = [buf EXCEPT ![s] = Append(@, casting[c].ev)]
    /\ UNCHANGED <<since, ring, next, full, subscribers, casting, count, closed,
                   received, missed>>

\* Broadcast after the lock: one send, skipped when the channel is full.
Send(c, s) ==
    /\ s \in casting[c].left
    /\ casting' = [casting EXCEPT ![c].left = @ \ {s}]
    /\ IF Len(buf[s]) < SubscriberBuffer
       THEN buf' = [buf EXCEPT ![s] = Append(@, casting[c].ev)] /\ UNCHANGED missed
       ELSE missed' = [missed EXCEPT ![s] = @ \cup {casting[c].ev}] /\ UNCHANGED buf
    /\ UNCHANGED <<since, ring, next, full, subscribers, count, closed, received>>

\* Broadcast returns.
Return(c) ==
    /\ casting[c] # Idle /\ casting[c].left = {}
    /\ casting' = [casting EXCEPT ![c] = Idle]
    /\ UNCHANGED <<since, ring, next, full, subscribers, buf, count, closed,
                   received, missed>>

\* The subscriber's goroutine takes the next event; it is gone once it
\* has unsubscribed.
Receive(s) ==
    /\ s \in subscribers /\ buf[s] # <<>>
    /\ received' = [received EXCEPT ![s] = Append(@, Head(buf[s]))]
    /\ buf' = [buf EXCEPT ![s] = Tail(@)]
    /\ UNCHANGED <<since, ring, next, full, subscribers, casting, count, closed,
                   missed>>

HubNext ==
    \/ \E s \in Sub : Subscribe(s) \/ Unsubscribe(s) \/ Receive(s)
    \/ \E c \in Caster : Broadcast(c) \/ Return(c) \/ \E s \in Sub : Send(c, s)
    \/ count = MaxEvents /\ UNCHANGED hubVars

\* Broadcast runs to its end; nothing else is assumed of anybody.
HubSpec ==
    /\ HubInit /\ [][HubNext]_hubVars
    /\ \A c \in Caster : WF_hubVars(Return(c) \/ \E s \in Sub : Send(c, s))

-----------------------------------------------------------------------------
(* Properties *)

\* /api/recent: whatever the number of events seeded and pushed, Snapshot is
\* the newest HistorySize of them, oldest first (events are numbered in the
\* order of the lock).
SnapshotIsTail ==
    LET n == IF count > HistorySize THEN HistorySize ELSE count
    IN  Snapshot = [i \in 1 .. n |-> count - n + i]

\* What subscriber s has been or will be sent: taken, waiting or under way.
Seen(s) == received[s] \o buf[s]
UnderWay(s) == {casting[c].ev : c \in {d \in Caster : s \in casting[d].left}}

\* Every event broadcast while a channel is subscribed is accounted for exactly
\* once: taken from the channel, waiting in it, about to be sent by a Broadcast
\* in progress, or missed because the channel was full.  No earlier event is
\* ever sent to it.
EachEventOnce ==
    \A s \in subscribers :
        /\ IsInjective(Seen(s))
        /\ Range(Seen(s)) \cup UnderWay(s) \cup missed[s] = since[s] + 1 .. count
        /\ Range(Seen(s)) \cap (UnderWay(s) \cup missed[s]) = {}
        /\ UnderWay(s) \cap missed[s] = {}

\* "broadcast never sends to it after this returns": once Unsubscribe has
\* returned, nothing is put on the channel.
NoSendAfterUnsubscribe == [][\A s \in closed : Len(buf'[s]) <= Len(buf[s])]_hubVars

=============================================================================
