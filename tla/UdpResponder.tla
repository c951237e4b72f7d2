---------------------------- MODULE UdpResponder ----------------------------
(***************************************************************************)
(* serveUDP: the loop that reads the datagrams of one port, records each   *)
(* of them and answers some, with the fixed-window limiter of its replies. *)
(* A datagram is its source, its size and the replies its handler would    *)
(* offer; a reply is its size.                                             *)
(***************************************************************************)
EXTENDS Naturals, Sequences, FiniteSets, FiniteSetsExt

CONSTANTS
    Src,         \* source addresses
    Size,        \* sizes of datagrams
    ReplyBurst,  \* udpReplyBurst
    ReplyWindow, \* udpReplyWindow, in ticks
    LimiterMax,  \* udpLimiterMax
    UdpMaxTime,  \* bound on the clock
    MaxDatagrams \* bound on the datagrams received

ASSUME UdpAssumption ==
    /\ {ReplyBurst, ReplyWindow, LimiterMax} \subseteq Nat \ {0}
    /\ {UdpMaxTime, MaxDatagrams} \subseteq Nat /\ Size \subseteq Nat

VARIABLES
    uNow,      \* the clock
    slots,     \* replyLimiter.m: source -> [start, n]
    received,  \* datagrams read, each of them recorded
    replies,   \* (history) the times of the replies to each source
    bytesIn,   \* (history) bytes received from each source
    bytesOut,  \* (history) bytes sent to each source
    resetAt    \* (history) when the table was last thrown away

udpVars == <<uNow, slots, received, replies, bytesIn, bytesOut, resetAt>>

UdpInit ==
    /\ uNow = 0 /\ slots = <<>> /\ received = 0 /\ resetAt = {}
    /\ replies = [s \in Src |-> <<>>] /\ bytesIn = [s \in Src |-> 0]
    /\ bytesOut = [s \in Src |-> 0]

\* The replies the handlers offer, by size: none (ntpUDP, ssdpUDP, a capture-only port,
\* a handler that panicked), one (the ERROR of memcachedUDP), a short one before or after
\* a longer one (memcachedUDP get and version), full and compact (sipUDP).
Offers == {<<>>, <<2>>, <<1, 2>>, <<3, 2>>}

\* fit: the first candidate no larger than the request, or none (0).
fit(req, offers) ==
    LET fitting == {i \in DOMAIN offers : offers[i] > 0 /\ offers[i] <= req}
    IN  IF fitting = {} THEN 0 ELSE offers[Min(fitting)]

\* Plausible bug: handlers offer their fullest reply and nothing measures it.
AnswerUnmeasured(req, offers) == IF offers = <<>> THEN 0 ELSE Head(offers)

\* What serveUDP would send: the reply of the handler if replyAllowed.
answer(req, offers) ==
    LET reply == fit(req, offers) IN IF reply > 0 /\ reply <= req THEN reply ELSE 0

table == IF Cardinality(DOMAIN slots) >= LimiterMax THEN <<>> ELSE slots

\* Plausible bug: a refused reply opens a new window.
AllowSliding(s) ==
    LET fresh == s \notin DOMAIN table \/ uNow - table[s].start > ReplyWindow
                                      \/ table[s].n >= ReplyBurst
        n == IF fresh THEN 1 ELSE table[s].n + 1
    IN  [ok    |-> n <= ReplyBurst,
         slots |-> [x \in DOMAIN table \cup {s} |->
                      IF x # s THEN table[x]
                      ELSE IF fresh THEN [start |-> uNow, n |-> 1] ELSE [table[s] EXCEPT !.n = n]]]

\* replyLimiter.allow: its verdict and the table after it.
allow(s) ==
    LET fresh == s \notin DOMAIN table \/ uNow - table[s].start > ReplyWindow
        n == IF fresh THEN 1 ELSE table[s].n + 1
    IN  [ok    |-> n <= ReplyBurst,
         slots |-> [x \in DOMAIN table \cup {s} |->
                      IF x # s THEN table[x]
                      ELSE IF fresh THEN [start |-> uNow, n |-> 1] ELSE [table[s] EXCEPT !.n = n]]]

\* One turn of the loop of serveUDP.
Datagram(s, req, offers) ==
    LET reply == answer(req, offers)
        verdict == allow(s) IN
    /\ received < MaxDatagrams
    /\ received' = received + 1
    /\ bytesIn' = [bytesIn EXCEPT ![s] = @ + req]
    /\ IF reply = 0 THEN UNCHANGED <<slots, replies, bytesOut, resetAt>>
       ELSE /\ slots' = verdict.slots
            /\ resetAt' = IF table # slots THEN {uNow} ELSE resetAt
            /\ IF verdict.ok
               THEN /\ replies' = [replies EXCEPT ![s] = Append(@, uNow)]
                    /\ bytesOut' = [bytesOut EXCEPT ![s] = @ + reply]
               ELSE UNCHANGED <<replies, bytesOut>>
    /\ UNCHANGED uNow

UdpTick ==
    /\ uNow < UdpMaxTime /\ uNow' = uNow + 1
    /\ UNCHANGED <<slots, received, replies, bytesIn, bytesOut, resetAt>>

UdpNext ==
    \/ \E s \in Src, req \in Size, offers \in Offers : Datagram(s, req, offers)
    \/ UdpTick

UdpSpec == UdpInit /\ [][UdpNext]_udpVars

-----------------------------------------------------------------------------
\* emu_udp.go: "the sensor can not amplify traffic": over any run, what is sent to a
\* source is no more than what was received in its name.
NoAmplification == \A s \in Src : bytesOut[s] <= bytesIn[s]

\* "Replies are rate limited per source address": the windows of the limiter are fixed, so
\* in any stretch as long as a window a source gets at most two bursts (the reply two
\* bursts after another comes more than a window later), unless the table overflowed and
\* was thrown away in between.
ReplyRate ==
    \A s \in Src : \A i \in DOMAIN replies[s] :
        i + 2 * ReplyBurst <= Len(replies[s]) =>
            \/ replies[s][i + 2 * ReplyBurst] > replies[s][i] + ReplyWindow
            \/ \E r \in resetAt : r >= replies[s][i]

=============================================================================
