--------------------------- MODULE SessionsProofs ---------------------------
(***************************************************************************)
(* The slots, the captured events and the time limits of the sessions, for *)
(* any connections, messages and limits.                                   *)
(***************************************************************************)
EXTENDS DialoguesProofs, FiniteSetTheorems

\* A step of one connection keeps the invariant when it keeps what is known of that
\* connection and the semaphore follows its slot.
LEMMA StepOne ==
    ASSUME SessInv, NEW c \in Conn, NEW r, ConnOK(r, now), conn' = [conn EXCEPT ![c] = r],
           UNCHANGED <<now, ctxDone, listening, serving>>, r.end = "abandoned" => ctxDone,
           \/ sem' = sem /\ r.held = conn[c].held
           \/ sem' = sem + 1 /\ r.held = TRUE /\ conn[c].held = FALSE
           \/ r.held = FALSE /\ sem' = IF conn[c].held THEN sem - 1 ELSE sem
    PROVE  SessInv'
<1>1. r.held \in BOOLEAN /\ \A b \in Conn : conn[b].held \in BOOLEAN
  BY DEF SessInv, ConnOK, ConnRecords
<1>2. DOMAIN conn' = Conn /\ conn'[c] = r /\ \A b \in Conn \ {c} : conn'[b] = conn[b]
  BY DEF SessInv
<1>3. \A b \in Conn : ConnOK(conn'[b], now) /\ (conn'[b].end = "abandoned" => ctxDone)
  BY <1>2 DEF SessInv
<1>4. IsFiniteSet(Held) /\ sem = Cardinality(Held)
  BY DEF SessInv
<1>5. IsFiniteSet(Held') /\ sem' = Cardinality(Held')
  <2>1. CASE sem' = sem /\ r.held = conn[c].held
    <3>1. Held' = Held
      BY <1>2, <2>1 DEF Held
    <3> QED
      BY <1>4, <2>1, <3>1
  <2>2. CASE sem' = sem + 1 /\ r.held = TRUE /\ conn[c].held = FALSE
    <3>1. Held' = Held \cup {c} /\ c \notin Held
      BY <1>2, <2>2 DEF Held
    <3> QED
      BY <1>4, <2>2, <3>1, FS_AddElement
  <2>3. CASE r.held = FALSE /\ conn[c].held = TRUE /\ sem' = sem - 1
    <3>1. Held' = Held \ {c} /\ c \in Held
      BY <1>2, <2>3 DEF Held
    <3> QED
      BY <1>4, <2>3, <3>1, FS_RemoveElement
  <2>4. CASE r.held = FALSE /\ conn[c].held = FALSE /\ sem' = sem
    <3>1. Held' = Held
      BY <1>2, <2>4 DEF Held
    <3> QED
      BY <1>4, <2>4, <3>1
  <2> QED
    BY <1>1, <2>1, <2>2, <2>3, <2>4
<1>6. QED
  BY <1>2, <1>3, <1>5 DEF SessInv

\* Any of the ways in which a connection is closed.
LEMMA CloseStep ==
    ASSUME SessInv, NEW c \in Conn, conn[c].at \in {"run", "prepare", "handoff", "closing"},
           UNCHANGED <<now, ctxDone, listening, serving>>, Release(c),
           NEW end \in {"served", "panic", "abandoned"}, end = "abandoned" => ctxDone,
           conn' = [conn EXCEPT ![c] = Closed(c, end, Events(end))]
    PROVE  SessInv'
<1> DEFINE r == Closed(c, end, Events(end))
<1>1. now \in Nat /\ ConnOK(conn[c], now)
  BY DEF SessInv
<1>2. r = ClosedRecord(conn[c], now, end)
  BY DEF Closed, ClosedRecord
<1>3. ConnOK(r, now) /\ r.held = FALSE /\ r.end = end
  <2> DEFINE o == conn[c]
  <2>1. ConnOK(o, now) /\ o.at \in {"run", "prepare", "handoff", "closing"}
    BY <1>1
  <2> HIDE DEF o, r
  <2>2. ConnOK(ClosedRecord(o, now, end), now)
    BY <1>1, <2>1, ClosedOK
  <2>3. ClosedRecord(o, now, end).held = FALSE /\ ClosedRecord(o, now, end).end = end
    BY <1>1, <2>1, ClosedOK
  <2>4. r = ClosedRecord(o, now, end)
    BY <1>2 DEF o
  <2> QED
    BY <2>2, <2>3, <2>4
<1> HIDE DEF r
<1>4. conn' = [conn EXCEPT ![c] = r] /\ sem' = IF conn[c].held THEN sem - 1 ELSE sem
  BY DEF r, Release
<1>5. QED
  BY <1>3, <1>4, StepOne

\* The steps of the TCP handlers.
LEMMA HandlerSteps ==
    ASSUME SessInv, NEW c \in Conn
    PROVE  /\ Block(c) \/ Receive(c) \/ Expire(c) \/ Sleep(c) \/ Wake(c) => SessInv'
           /\ CloseInHandler(c) \/ Return(c) \/ Panic(c) \/ Unblock(c) => SessInv'
<1> DEFINE r == conn[c]
<1>1. now \in Nat /\ ConnOK(r, now) /\ r \in ConnRecords /\ DOMAIN conn = Conn
      /\ (r.end = "abandoned" => ctxDone)
  BY DEF SessInv, ConnOK
<1>2. ASSUME Block(c) PROVE SessInv'
  <2> DEFINE x == IF Arm(r.d) > 0 THEN now + Arm(r.d) ELSE r.deadline
             q == [r EXCEPT !.at = "read", !.deadline = x]
  <2>1. conn' = [conn EXCEPT ![c] = q] /\ r.at = "run" /\ r.d.next = "read"
    BY <1>1, <1>2 DEF Block
  <2>2. ConnOK(q, now)
    BY <1>1, <2>1, BlockOK
  <2> HIDE DEF x
  <2>3. q.held = r.held /\ q.end = r.end
    BY <1>1 DEF ConnRecords
  <2> HIDE DEF q
  <2> QED
    BY <1>1, <1>2, <2>1, <2>2, <2>3, StepOne DEF Block
<1>3. ASSUME NEW m \in Messages, NEW err \in BOOLEAN, NEW h \in Seq(Messages), r.at = "read",
             conn' = [conn EXCEPT ![c] = [r EXCEPT !.at = "run", !.d = After(r.d, m, err),
                                                   !.heard = h]],
             UNCHANGED <<now, ctxDone, listening, serving, sem>>
      PROVE  SessInv'
  <2> DEFINE e == After(r.d, m, err)
             q == [r EXCEPT !.at = "run", !.d = e, !.heard = h]
  <2>1. ConnOK(q, now)
    BY <1>1, <1>3, ReadOK
  <2> HIDE DEF e
  <2>2. q.held = r.held /\ q.end = r.end
    BY <1>1 DEF ConnRecords
  <2>3. conn' = [conn EXCEPT ![c] = q]
    BY <1>3 DEF e
  <2> HIDE DEF q
  <2> QED
    BY <1>1, <1>3, <2>1, <2>2, <2>3, StepOne
<1>4. ASSUME Receive(c) PROVE SessInv'
  <2>1. PICK m \in Vocabulary(r.d.kind) \cup {Nothing}, err \in BOOLEAN :
          conn' = [conn EXCEPT ![c].at = "run", ![c].d = After(@, m, err),
                               ![c].heard = IF m = Nothing THEN @ ELSE Append(@, m)]
    BY <1>4 DEF Receive
  <2> DEFINE h == IF m = Nothing THEN r.heard ELSE Append(r.heard, m)
  <2>2. m \in Messages
    BY VocabularyTyped
  <2>3. h \in Seq(Messages)
    <3>1. r.heard \in Seq(Messages)
      BY <1>1 DEF ConnRecords
    <3> QED
      BY <2>2, <3>1
  <2>4. conn' = [conn EXCEPT ![c] = [r EXCEPT !.at = "run", !.d = After(r.d, m, err),
                                              !.heard = h]]
    BY <1>1, <2>1 DEF ConnRecords
  <2> HIDE DEF h
  <2> QED
    BY <1>3, <1>4, <2>2, <2>3, <2>4 DEF Receive
<1>5. ASSUME Expire(c) PROVE SessInv'
  <2> DEFINE h == r.heard
  <2>1. Nothing \in Messages /\ h \in Seq(Messages)
    BY <1>1, VocabularyTyped DEF ConnRecords
  <2>2. conn' = [conn EXCEPT ![c] = [r EXCEPT !.at = "run", !.d = After(r.d, Nothing, TRUE),
                                              !.heard = h]]
    BY <1>1, <1>5 DEF Expire, ConnRecords
  <2> HIDE DEF h
  <2> QED
    BY <1>3, <1>5, <2>1, <2>2 DEF Expire
<1>6. ASSUME Sleep(c) PROVE SessInv'
  <2>1. PICK hold \in IF r.d.kind = "vnc" THEN 1..HoldMax ELSE 0..1 :
          conn' = [conn EXCEPT ![c].at = "sleep", ![c].until = now + hold]
    BY <1>6 DEF Sleep
  <2>2. hold \in Nat /\ hold <= IF r.d.kind = "vnc" THEN HoldMax ELSE 1
    BY DialogueConstants
  <2> DEFINE q == [r EXCEPT !.at = "sleep", !.until = now + hold]
  <2>3. conn' = [conn EXCEPT ![c] = q] /\ r.at = "run" /\ r.d.next = "sleep"
    BY <1>1, <1>6, <2>1 DEF Sleep
  <2>4. ConnOK(q, now)
    BY <1>1, <2>2, <2>3, SleepOK
  <2>5. q.held = r.held /\ q.end = r.end
    BY <1>1 DEF ConnRecords
  <2> HIDE DEF q
  <2> QED
    BY <1>1, <1>6, <2>3, <2>4, <2>5, StepOne DEF Sleep
<1>7. ASSUME Wake(c) PROVE SessInv'
  <2> DEFINE e == AfterSleep(r.d)
             q == [r EXCEPT !.at = "run", !.d = e]
  <2>1. conn' = [conn EXCEPT ![c] = q] /\ r.at = "sleep"
    BY <1>1, <1>7 DEF Wake
  <2>2. ConnOK(q, now)
    BY <1>1, <2>1, WakeOK
  <2> HIDE DEF e
  <2>3. q.held = r.held /\ q.end = r.end
    BY <1>1 DEF ConnRecords
  <2> HIDE DEF q
  <2> QED
    BY <1>1, <1>7, <2>1, <2>2, <2>3, StepOne DEF Wake
<1>8. ASSUME CloseInHandler(c) PROVE SessInv'
  <2> DEFINE q == [r EXCEPT !.held = FALSE]
  <2>1. conn' = [conn EXCEPT ![c] = q] /\ r.at = "run" /\ r.d.kind = "minecraft"
    BY <1>1, <1>8 DEF CloseInHandler
  <2>2. /\ q \in ConnRecords /\ q.at = "run" /\ q.d = r.d /\ q.since = r.since
        /\ q.held = FALSE /\ q.deadline = r.deadline
        /\ q.served = r.served /\ q.captured = r.captured /\ q.end = r.end
    BY <1>1, <2>1 DEF ConnRecords
  <2> HIDE DEF q
  <2>3. SlotOK(q) /\ CaptureOK(q) /\ TimeOK(q, now)
    BY <1>1, <2>1, <2>2 DEF ConnOK, SlotOK, CaptureOK, TimeOK
  <2>4. ConnOK(q, now)
    BY <2>2, <2>3 DEF ConnOK
  <2> QED
    BY <1>1, <1>8, <2>1, <2>2, <2>4, StepOne DEF CloseInHandler, Release
<1>9. ASSUME Return(c) PROVE SessInv'
  <2>1. r.at = "run" /\ r.captured = 0
    BY <1>1, <1>9 DEF Return, ConnOK, CaptureOK
  <2>2. conn' = [conn EXCEPT ![c] = Closed(c, "served", Events("served"))]
    BY <1>9, <2>1 DEF Return, Events
  <2> QED
    BY <1>9, <2>1, <2>2, CloseStep DEF Return
<1>10. ASSUME Panic(c) PROVE SessInv'
  <2>1. r.at = "run" /\ r.captured = 0
    BY <1>1, <1>10 DEF Panic, ConnOK, CaptureOK
  <2>2. conn' = [conn EXCEPT ![c] = Closed(c, "panic", Events("panic"))]
    BY <1>10, <2>1 DEF Panic, Events
  <2> QED
    BY <1>10, <2>1, <2>2, CloseStep DEF Panic
<1>11. ASSUME Unblock(c) PROVE SessInv'
  <2> DEFINE q == [r EXCEPT !.deadline = 0, !.unblocked = TRUE]
  <2>1. conn' = [conn EXCEPT ![c] = q] /\ r.at \notin {"idle", "closed"}
        /\ r.d.kind \notin {"http", "https"}
    BY <1>1, <1>11 DEF Unblock, Open, IsWeb
  <2>2. /\ q \in ConnRecords /\ q.at = r.at /\ q.d = r.d /\ q.since = r.since
        /\ q.held = r.held /\ q.deadline = 0 /\ q.until = r.until
        /\ q.served = r.served /\ q.captured = r.captured /\ q.end = r.end
    BY <1>1, <2>1 DEF ConnRecords
  <2> HIDE DEF q
  <2>3. SlotOK(q) /\ CaptureOK(q)
    BY <1>1, <2>1, <2>2 DEF ConnOK, SlotOK, CaptureOK
  <2>4. TimeOK(q, now)
    <3>1. r.since \in Nat /\ r.d \in DialogueRecords
      BY <1>1 DEF ConnRecords
    <3>2. DialogueOK(r.d) => ReadEnd(r.d) \in Nat
      BY <3>1, LimitFacts
    <3>3. r.at \in {"run", "read"} => 0 <= r.since + ReadEnd(r.d)
      BY <1>1, <3>1, <3>2 DEF ConnOK, TimeOK
    <3>4. r.at \in {"run", "read", "sleep"}
      BY <1>1, <2>1 DEF ConnOK, ConnRecords, Places, TimeOK
    <3>5. TimeOK(r, now)
      BY <1>1 DEF ConnOK
    <3> QED
      BY <2>2, <3>3, <3>4, <3>5 DEF TimeOK
  <2>5. ConnOK(q, now)
    BY <2>1, <2>2, <2>3, <2>4 DEF ConnOK
  <2> QED
    BY <1>1, <1>11, <2>1, <2>2, <2>5, StepOne DEF Unblock
<1>12. QED
  BY <1>2, <1>4, <1>5, <1>6, <1>7, <1>8, <1>9, <1>10, <1>11

\* The steps of the HTTP and HTTPS servers.
LEMMA WebSteps ==
    ASSUME SessInv, NEW c \in Conn
    PROVE  /\ PrepareHello(c) \/ PrepareRefuse(c) \/ Handoff(c) \/ Abandon(c) => SessInv'
           /\ Request(c) \/ Respond(c) \/ RequestPanic(c) \/ HeaderFail(c) => SessInv'
           /\ StateClosed(c) => SessInv'
<1> DEFINE r == conn[c]
<1>1. now \in Nat /\ ConnOK(r, now) /\ r \in ConnRecords /\ DOMAIN conn = Conn
      /\ (r.end = "abandoned" => ctxDone)
  BY DEF SessInv, ConnOK
<1>2. ASSUME NEW q, ConnOK(q, now), q.held = r.held, q.end = r.end,
             conn' = [conn EXCEPT ![c] = q], UNCHANGED <<now, ctxDone, listening, serving, sem>>
      PROVE  SessInv'
  BY <1>1, <1>2, StepOne
<1>3. ASSUME PrepareHello(c) PROVE SessInv'
  <2> DEFINE q == [r EXCEPT !.at = "handoff"]
  <2>1. conn' = [conn EXCEPT ![c] = q] /\ r.at = "prepare"
    BY <1>1, <1>3 DEF PrepareHello
  <2>2. ConnOK(q, now)
    BY <1>1, <2>1, WebOK
  <2>3. q.held = r.held /\ q.end = r.end
    BY <1>1 DEF ConnRecords
  <2> HIDE DEF q
  <2> QED
    BY <1>2, <1>3, <2>1, <2>2, <2>3 DEF PrepareHello
<1>4. ASSUME PrepareRefuse(c) PROVE SessInv'
  <2>1. r.at = "prepare" /\ r.captured = 0
    BY <1>1, <1>4 DEF PrepareRefuse, ConnOK, CaptureOK
  <2>2. conn' = [conn EXCEPT ![c] = Closed(c, "served", Events("served"))]
    BY <1>4, <2>1 DEF PrepareRefuse, Events
  <2> QED
    BY <1>4, <2>1, <2>2, CloseStep DEF PrepareRefuse
<1>5. ASSUME Handoff(c) PROVE SessInv'
  <2> DEFINE q == [r EXCEPT !.at = "header", !.deadline = now + 1]
  <2>1. conn' = [conn EXCEPT ![c] = q] /\ r.at = "handoff"
    BY <1>1, <1>5 DEF Handoff
  <2>2. ConnOK(q, now)
    BY <1>1, <2>1, WebOK
  <2>3. q.held = r.held /\ q.end = r.end
    BY <1>1 DEF ConnRecords
  <2> HIDE DEF q
  <2> QED
    BY <1>2, <1>5, <2>1, <2>2, <2>3 DEF Handoff
<1>6. ASSUME Abandon(c) PROVE SessInv'
  <2>1. r.at = "handoff" /\ r.captured = 0 /\ ctxDone
    BY <1>1, <1>6 DEF Abandon, ConnOK, CaptureOK, SessInv
  <2>2. conn' = [conn EXCEPT ![c] = Closed(c, "abandoned", Events("abandoned"))]
    BY <1>6, <2>1 DEF Abandon, Events
  <2> QED
    BY <1>6, <2>1, <2>2, CloseStep DEF Abandon
<1>7. ASSUME Request(c) PROVE SessInv'
  <2> DEFINE q == [r EXCEPT !.at = "body", !.served = TRUE, !.deadline = r.deadline + 1]
  <2>1. conn' = [conn EXCEPT ![c] = q] /\ r.at = "header"
    BY <1>1, <1>7 DEF Request
  <2>2. ConnOK(q, now)
    BY <1>1, <2>1, WebOK
  <2>3. q.held = r.held /\ q.end = r.end
    BY <1>1 DEF ConnRecords
  <2> HIDE DEF q
  <2> QED
    BY <1>2, <1>7, <2>1, <2>2, <2>3 DEF Request
<1>8. ASSUME Respond(c) PROVE SessInv'
  <2> DEFINE q == [r EXCEPT !.at = "closing", !.captured = r.captured + 1]
  <2>1. conn' = [conn EXCEPT ![c] = q] /\ r.at = "body"
    BY <1>1, <1>8 DEF Respond
  <2>2. ConnOK(q, now)
    BY <1>1, <2>1, WebOK
  <2>3. q.held = r.held /\ q.end = r.end
    BY <1>1 DEF ConnRecords
  <2> HIDE DEF q
  <2> QED
    BY <1>2, <1>8, <2>1, <2>2, <2>3 DEF Respond
<1>9. ASSUME RequestPanic(c) \/ HeaderFail(c) PROVE SessInv'
  <2> DEFINE q == [r EXCEPT !.at = "closing"]
  <2>1. conn' = [conn EXCEPT ![c] = q] /\ r.at \in {"header", "body"}
    BY <1>1, <1>9 DEF RequestPanic, HeaderFail
  <2>2. ConnOK(q, now)
    BY <1>1, <2>1, WebOK
  <2>3. q.held = r.held /\ q.end = r.end
    BY <1>1 DEF ConnRecords
  <2> HIDE DEF q
  <2> QED
    BY <1>2, <1>9, <2>1, <2>2, <2>3 DEF RequestPanic, HeaderFail
<1>10. ASSUME StateClosed(c) PROVE SessInv'
  <2> DEFINE end == IF r.served /\ r.captured = 0 THEN "panic" ELSE "served"
             captured == IF r.served THEN r.captured ELSE r.captured + 1
  <2>1. r.at = "closing" /\ (r.captured = 0 \/ (r.captured = 1 /\ r.served))
    BY <1>1, <1>10 DEF StateClosed, ConnOK, CaptureOK
  <2>2. end \in {"panic", "served"} /\ captured = Events(end)
    BY <2>1 DEF Events
  <2>3. conn' = [conn EXCEPT ![c] = Closed(c, end, Events(end))]
    BY <1>10, <2>2 DEF StateClosed
  <2> HIDE DEF end, captured
  <2>4. CASE end = "panic"
    <3>1. conn' = [conn EXCEPT ![c] = Closed(c, "panic", Events("panic"))]
      BY <2>3, <2>4
    <3> QED
      BY <1>10, <2>1, <3>1, CloseStep DEF StateClosed
  <2>5. CASE end = "served"
    <3>1. conn' = [conn EXCEPT ![c] = Closed(c, "served", Events("served"))]
      BY <2>3, <2>5
    <3> QED
      BY <1>10, <2>1, <3>1, CloseStep DEF StateClosed
  <2> QED
    BY <2>2, <2>4, <2>5
<1>11. QED
  BY <1>3, <1>4, <1>5, <1>6, <1>7, <1>8, <1>9, <1>10

\* A connection is refused or accepted.
LEMMA ArrivalSteps ==
    ASSUME SessInv, NEW c \in Conn
    PROVE  Refuse(c) \/ Accept(c) => SessInv'
<1> DEFINE r == conn[c]
<1>1. now \in Nat /\ ConnOK(r, now) /\ DOMAIN conn = Conn
  BY DEF SessInv
<1>2. ASSUME Refuse(c) PROVE SessInv'
  <2> DEFINE q == [r EXCEPT !.at = "closed", !.end = "refused"]
  <2>1. conn' = [conn EXCEPT ![c] = q] /\ r = Fresh
    BY <1>1, <1>2 DEF Refuse, ConnOK
  <2>2. /\ q \in ConnRecords /\ q.at = "closed" /\ q.end = "refused" /\ q.held = FALSE
        /\ q.captured = 0 /\ q.since = 0 /\ q.ended = 0 /\ r.held = FALSE
    BY <2>1, FreshFields DEF ConnRecords, Places
  <2> HIDE DEF q
  <2>3. Limit(q.d.kind) \in Nat
    BY DialogueConstants DEF Limit
  <2>4. ConnOK(q, now)
    BY <2>2, <2>3 DEF ConnOK, SlotOK, CaptureOK, TimeOK
  <2> QED
    BY <1>2, <2>1, <2>2, <2>4, StepOne DEF Refuse
<1>3. ASSUME Accept(c) PROVE SessInv'
  <2> DEFINE Stage(kind) == IF kind = "vnc" /\ vncIsRepeat(vncSeen) THEN "tarpit" ELSE "start"
  <2>1. PICK kind \in Kinds[c] : conn' = [conn EXCEPT ![c] = AcceptedRecord(now, kind, Stage(kind))]
    BY <1>3 DEF Accept, AcceptedRecord, FirstPlace, FirstLimit
  <2>2. kind \in TcpKinds \cup {"http", "https"}
    BY SessionsAssumption
  <2> DEFINE stage == Stage(kind)
             q == AcceptedRecord(now, kind, stage)
  <2>3. stage \in {"start", "tarpit"} /\ (stage = "tarpit" => kind = "vnc")
    OBVIOUS
  <2>4. conn' = [conn EXCEPT ![c] = q]
    BY <2>1
  <2> HIDE DEF stage
  <2>6. ConnOK(q, now) /\ q.held = TRUE /\ q.end = ""
    BY <1>1, <2>2, <2>3, AcceptOK
  <2> HIDE DEF q
  <2>7. r.held = FALSE /\ sem' = sem + 1
    BY <1>1, <1>3, FreshFields DEF Accept, acquire, ConnOK
  <2> QED
    BY <1>3, <2>4, <2>6, <2>7, StepOne DEF Accept
<1>4. QED
  BY <1>2, <1>3

\* Time passes only where no deadline does: no connection outlasts its limit.
LEMMA TickStep ==
    ASSUME SessInv, Tick
    PROVE  SessInv'
<1>1. now \in Nat /\ now' = now + 1 /\ conn' = conn /\ Held' = Held
  BY DEF SessInv, Tick, Held
<1>2. ASSUME NEW c \in Conn PROVE ConnOK(conn[c], now + 1)
  <2> DEFINE r == conn[c]
  <2>1. ConnOK(r, now) /\ ~Due(c)
    BY DEF SessInv, Tick
  <2>2. /\ r.at \notin {"run", "handoff", "closing"}
        /\ r.at \in {"read", "prepare", "header", "body"} => ~(r.deadline <= now)
        /\ r.at = "sleep" => ~(r.until <= now)
    BY <2>1 DEF Due
  <2>3. r.deadline \in Nat /\ r.until \in Nat /\ r.since \in Nat
    BY <2>1 DEF ConnOK, ConnRecords
  <2> HIDE DEF r
  <2>4. r.d \in DialogueRecords /\ (DialogueOK(r.d) => ReadEnd(r.d) \in Nat)
    BY <2>1, LimitFacts DEF ConnOK, ConnRecords
  <2>5. SleepEnd(r.d) \in Nat /\ HeaderEnd(r.d.kind) \in Nat
    BY <2>4, DialogueConstants DEF SleepEnd, HeaderEnd, DialogueRecords
  <2>6. TimeOK(r, now + 1)
    <3>1. TimeOK(r, now)
      BY <2>1 DEF ConnOK
    <3>2. CASE r.at = "read"
      <4>1. /\ DialogueOK(r.d) /\ r.d.next = "read" /\ r.deadline <= r.since + ReadEnd(r.d)
            /\ now + 1 <= r.deadline
        BY <1>1, <2>2, <2>3, <3>1, <3>2 DEF TimeOK
      <4>2. now + 1 <= r.since + ReadEnd(r.d)
        BY <1>1, <2>3, <2>4, <4>1
      <4> QED
        BY <3>2, <4>1, <4>2 DEF TimeOK
    <3>3. CASE r.at = "sleep"
      <4>1. /\ DialogueOK(r.d) /\ r.d.next = "sleep" /\ r.until <= r.since + SleepEnd(r.d)
            /\ now + 1 <= r.until
        BY <1>1, <2>2, <2>3, <3>1, <3>3 DEF TimeOK
      <4>2. now + 1 <= r.since + SleepEnd(r.d)
        BY <1>1, <2>3, <2>5, <4>1
      <4> QED
        BY <3>3, <4>1, <4>2 DEF TimeOK
    <3>4. CASE r.at = "prepare"
      BY <1>1, <2>2, <2>3, <3>1, <3>4 DEF TimeOK
    <3>5. CASE r.at = "header"
      BY <1>1, <2>2, <2>3, <2>5, <3>1, <3>5 DEF TimeOK
    <3>6. CASE r.at = "body"
      BY <1>1, <2>2, <2>3, <2>5, <3>1, <3>6 DEF TimeOK
    <3>7. CASE r.at \in {"idle", "closed"}
      BY <3>1, <3>7 DEF TimeOK
    <3> QED
      BY <2>1, <2>2, <3>2, <3>3, <3>4, <3>5, <3>6, <3>7 DEF ConnOK, ConnRecords, Places
  <2>7. ConnOK(r, now + 1)
    BY <2>1, <2>6 DEF ConnOK
  <2> QED
    BY <2>7 DEF r
<1>3. QED
  BY <1>1, <1>2 DEF SessInv, Tick

\* Sessions: the inductive invariant holds of every behaviour.
THEOREM SessionsInvariant == SessSpec => []SessInv
<1>1. SessInit => SessInv
  <2> SUFFICES ASSUME SessInit PROVE SessInv
    OBVIOUS
  <2>1. ConnOK(Fresh, 0)
    BY FreshFields DEF ConnOK, SlotOK, CaptureOK, TimeOK
  <2>2. Held = {}
    BY FreshFields DEF SessInit, Held
  <2> QED
    BY <2>1, <2>2, FS_EmptySet, FreshFields DEF SessInit, SessInv
<1>2. SessInv /\ [SessNext]_sessVars => SessInv'
  <2> SUFFICES ASSUME SessInv, [SessNext]_sessVars PROVE SessInv'
    OBVIOUS
  <2>1. ASSUME NEW c \in Conn,
               \/ Refuse(c) \/ Accept(c) \/ Receive(c) \/ Panic(c) \/ Session(c)
               \/ PrepareHello(c) \/ PrepareRefuse(c) \/ HeaderFail(c)
               \/ Request(c) \/ Respond(c) \/ RequestPanic(c)
        PROVE  SessInv'
    BY <2>1, HandlerSteps, WebSteps, ArrivalSteps DEF Session
  <2>2. CASE Tick
    BY <2>2, TickStep
  <2>3. ASSUME UNCHANGED <<now, sem, conn>>,
               ctxDone => ctxDone', ctxDone' \/ listening', listening' => serving'
        PROVE  SessInv'
    BY <2>3 DEF SessInv, Held
  <2>4. CASE pruneVNCSeen \/ Cancel \/ CloseListener \/ ServeReturn \/ UNCHANGED sessVars
    BY <2>3, <2>4 DEF pruneVNCSeen, Cancel, CloseListener, ServeReturn, sessVars, SessInv
  <2> QED
    BY <2>1, <2>2, <2>4 DEF SessNext
<1>3. QED
  BY <1>1, <1>2, PTL DEF SessSpec

\* The semaphore of the guarded listeners counts exactly the connections that hold a slot,
\* whichever way they end: returned, closed twice, panicked, refused or closed by net/http.
THEOREM SlotsTheorem == SessSpec => []SlotsExact
<1>1. SessInv => SlotsExact
  BY DEF SessInv, SlotsExact, Held, ConnOK, SlotOK, Open
<1>2. QED
  BY <1>1, SessionsInvariant, PTL

\* A connection is captured at most once, and exactly once when it ends, unless it was
\* refused, its handler panicked or the shutdown abandoned it.
THEOREM CapturedTheorem == SessSpec => []CapturedOnce
<1>1. SessInv => CapturedOnce
  <2> SUFFICES ASSUME SessInv, NEW c \in Conn
               PROVE  /\ conn[c].captured <= 1
                      /\ conn[c].at = "closed" =>
                           conn[c].captured = IF conn[c].end \in {"refused", "panic", "abandoned"} THEN 0 ELSE 1
                      /\ conn[c].end = "abandoned" => ctxDone
    BY DEF CapturedOnce
  <2>1. conn[c] \in ConnRecords /\ CaptureOK(conn[c]) /\ (conn[c].end = "abandoned" => ctxDone)
    BY DEF SessInv, ConnOK
  <2>2. conn[c].captured \in {0, 1}
    BY <2>1 DEF CaptureOK, ConnRecords, Places
  <2>3. conn[c].captured <= 1
    BY <2>2
  <2> QED
    BY <2>1, <2>3 DEF CaptureOK
<1>2. QED
  BY <1>1, SessionsInvariant, PTL

\* No connection outlasts the limit of its protocol, however slowly its client writes.
THEOREM HeldTheorem == SessSpec => []SlotHeldBounded
<1>1. SessInv => SlotHeldBounded
  <2> SUFFICES ASSUME SessInv, NEW c \in Conn, conn[c].at # "idle"
               PROVE  (IF Open(c) THEN now ELSE conn[c].ended) - conn[c].since
                          <= Limit(conn[c].d.kind)
    BY DEF SlotHeldBounded
  <2> DEFINE r == conn[c]
             kind == r.d.kind
  <2>1. now \in Nat /\ r \in ConnRecords /\ TimeOK(r, now)
    BY DEF SessInv, ConnOK
  <2>2. r.since \in Nat /\ r.ended \in Nat /\ r.d \in DialogueRecords /\ r.at \in Places
    BY <2>1 DEF ConnRecords
  <2>3. Limit(kind) \in Nat
    BY DialogueConstants DEF Limit
  <2>4. CASE r.at = "closed"
    <3>1. r.ended <= r.since + Limit(kind)
      BY <2>1, <2>4 DEF TimeOK
    <3> QED
      BY <2>2, <2>3, <2>4, <3>1 DEF Open
  <2>5. ASSUME r.at # "closed" PROVE now <= r.since + Limit(kind)
    <3>1. CASE r.at = "run"
      <4>1. DialogueOK(r.d) /\ now <= r.since + Elapsed(r.d)
        BY <2>1, <3>1 DEF TimeOK
      <4>2. Elapsed(r.d) \in Nat /\ Elapsed(r.d) <= Limit(kind)
        BY <2>2, <4>1, LimitFacts
      <4> QED
        BY <2>1, <2>2, <2>3, <4>1, <4>2
    <3>2. CASE r.at = "read"
      <4>1. DialogueOK(r.d) /\ r.d.next = "read" /\ now <= r.since + ReadEnd(r.d)
        BY <2>1, <3>2 DEF TimeOK
      <4>2. ReadEnd(r.d) \in Nat /\ ReadEnd(r.d) <= Limit(kind)
        BY <2>2, <4>1, LimitFacts
      <4> QED
        BY <2>1, <2>2, <2>3, <4>1, <4>2
    <3>3. CASE r.at = "sleep"
      <4>1. DialogueOK(r.d) /\ r.d.next = "sleep" /\ now <= r.since + SleepEnd(r.d) /\ r.d.n \in Nat
        BY <2>1, <2>2, <3>3 DEF TimeOK, DialogueRecords
      <4>2. SleepEnd(r.d) <= Limit(kind)
        BY <2>2, <4>1, SleepEndLimit
      <4>3. SleepEnd(r.d) \in Nat
        BY <2>2, <4>1, SleepEndLimit
      <4> QED
        BY <2>1, <2>2, <2>3, <4>1, <4>2, <4>3
    <3>4. CASE r.at \in {"prepare", "handoff"}
      <4>1. now <= r.since + 1 /\ kind = "https"
        BY <2>1, <3>4 DEF TimeOK
      <4>2. Limit("https") = 3
        BY DEF Limit, LineKinds
      <4> QED
        BY <2>1, <2>2, <4>1, <4>2
    <3>5. CASE r.at \in {"header", "body", "closing"}
      <4>1. kind \in {"http", "https"}
        BY <2>1, <3>5 DEF TimeOK
      <4>2. Limit(kind) = HeaderEnd(kind) + 1 /\ HeaderEnd(kind) \in Nat
        BY <4>1, WebLimit
      <4>3. \/ now <= r.since + HeaderEnd(kind) \/ now <= r.since + HeaderEnd(kind) + 1
            \/ now <= r.since + Limit(kind)
        BY <2>1, <3>5 DEF TimeOK
      <4> QED
        BY <2>1, <2>2, <4>2, <4>3
    <3> QED
      BY <2>2, <2>5, <3>1, <3>2, <3>3, <3>4, <3>5 DEF Places
  <2>6. CASE r.at # "closed"
    <3>1. Open(c)
      BY <2>6 DEF Open
    <3> QED
      BY <2>1, <2>2, <2>3, <2>5, <2>6, <3>1
  <2> QED
    BY <2>4, <2>6
<1>2. QED
  BY <1>1, SessionsInvariant, PTL

=============================================================================
