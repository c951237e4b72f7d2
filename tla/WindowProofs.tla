---------------------------- MODULE WindowProofs ----------------------------
(***************************************************************************)
(* Proofs about the windows that bound rates, for all values of the        *)
(* constants: UDP replies are bounded in size and in rate; the rate        *)
(* windows of the ban limiter decide as the definition of the volume rule  *)
(* says, and the flood rule is dead under the shipped proportions.         *)
(***************************************************************************)
EXTENDS RateWindow, UdpResponder, FiniteSetTheorems, TLAPS

-----------------------------------------------------------------------------
(* UdpResponder *)

\* The records of the reply table.
ReplySlots == [start : Nat, n : Nat \ {0}]

\* The types; nothing in the table or in the ghosts lies in the future.
UdpTypeOK ==
    /\ uNow \in Nat
    /\ DOMAIN slots \subseteq Src
    /\ \A s \in DOMAIN slots : slots[s] \in ReplySlots /\ slots[s].start <= uNow
    /\ replies \in [Src -> Seq(Nat)]
    /\ bytesIn \in [Src -> Nat] /\ bytesOut \in [Src -> Nat]
    /\ resetAt \in SUBSET Nat
    /\ \A r \in resetAt : r <= uNow

\* The replies to a source after which the table was thrown away, by index.
Excused(s) == {i \in 1..Len(replies[s]) : \E r \in resetAt : r >= replies[s][i]}

\* The replies that the open window of a source has allowed.
Spent(s) == IF slots[s].n <= ReplyBurst THEN slots[s].n ELSE ReplyBurst

\* How the replies at the times R, those in E excused, lie about a window that was opened
\* at start and has allowed m of them: the last m are in the window, those before them
\* older than it, and those a burst before these older by a whole window.
Windowed(R, E, start, m) ==
    /\ m <= Len(R)
    /\ \A i \in (1..Len(R)) \ E :
         /\ R[i] <= start + ReplyWindow
         /\ i <= Len(R) - m => R[i] < start
         /\ i <= Len(R) - m - ReplyBurst => R[i] + ReplyWindow < start

\* What the table says of the replies sent to a source.
SlotInv(s) ==
    /\ \A i \in 1..Len(replies[s]) : replies[s][i] <= uNow
    /\ IF s \in DOMAIN slots
       THEN Windowed(replies[s], Excused(s), slots[s].start, Spent(s))
       ELSE 1..Len(replies[s]) \subseteq Excused(s)

\* The inductive invariant of UdpResponder.
UdpInv == UdpTypeOK /\ NoAmplification /\ ReplyRate /\ \A s \in Src : SlotInv(s)

\* A reply is measured against its request.
LEMMA AnswerFits ==
    ASSUME NEW req \in Nat, NEW offers \in Offers
    PROVE  answer(req, offers) \in Nat /\ answer(req, offers) <= req
<1> DEFINE fitting == {i \in DOMAIN offers : offers[i] > 0 /\ offers[i] <= req}
<1>1. fitting \subseteq 1..2 /\ \A i \in DOMAIN offers : offers[i] \in Nat
  BY DEF Offers
<1>2. ASSUME fitting # {} PROVE offers[Min(fitting)] \in Nat
  <2>1. \E i \in fitting : \A j \in fitting : i <= j
    <3>1. CASE 1 \in fitting
      BY <3>1, <1>1
    <3>2. CASE 1 \notin fitting
      BY <3>2, <1>1, <1>2
    <3> QED
      BY <3>1, <3>2
  <2> HIDE DEF fitting
  <2>2. Min(fitting) \in fitting
    BY <2>1 DEF Min
  <2> QED
    BY <1>1, <2>2 DEF fitting
<1>3. fit(req, offers) \in Nat
  BY <1>2 DEF fit
<1>4. QED
  BY <1>3 DEF answer

\* The numbers the constants are.
LEMMA UdpConstants == /\ ReplyBurst \in Nat /\ ReplyBurst >= 1
                      /\ ReplyWindow \in Nat /\ Size \subseteq Nat
BY UdpAssumption

\* A first window, after nothing or a reset.
LEMMA FirstWindow ==
    ASSUME NEW R \in Seq(Nat), NEW E, 1..Len(R) \subseteq E, NEW t \in Nat
    PROVE  Windowed(Append(R, t), E, t, 1)
BY UdpConstants DEF Windowed

\* A new window, opened when the last one is over.
LEMMA NewWindow ==
    ASSUME NEW R \in Seq(Nat), NEW E, NEW start \in Nat, NEW m \in 1..ReplyBurst,
           Windowed(R, E, start, m), NEW t \in Nat, t > start + ReplyWindow
    PROVE  Windowed(Append(R, t), E, t, 1)
<1> DEFINE A == Append(R, t)
<1>1. Len(R) \in Nat /\ Len(A) = Len(R) + 1 /\ A[Len(R) + 1] = t
  OBVIOUS
<1>2. \A i \in 1..Len(R) : A[i] = R[i] /\ R[i] \in Nat
  OBVIOUS
<1>3. ASSUME NEW i \in (1..Len(A)) \ E
      PROVE  /\ A[i] <= t + ReplyWindow
             /\ i <= Len(A) - 1 => A[i] < t
             /\ i <= Len(A) - 1 - ReplyBurst => A[i] + ReplyWindow < t
  <2> HIDE DEF A
  <2>1. CASE i = Len(R) + 1
    BY <1>1, <2>1, UdpConstants
  <2>2. CASE i \in 1..Len(R)
    <3>1. /\ R[i] <= start + ReplyWindow
          /\ i <= Len(R) - m => R[i] < start
      BY <2>2, <1>3 DEF Windowed
    <3>2. A[i] = R[i] /\ R[i] \in Nat
      BY <1>2, <2>2
    <3>3. A[i] < t /\ (i <= Len(R) - m => A[i] + ReplyWindow < t)
      BY <3>1, <3>2, UdpConstants, SMTT(30)
    <3>4. i <= Len(A) - 1 - ReplyBurst => i <= Len(R) - m
      BY <1>1, <2>2, UdpConstants
    <3> QED
      BY <3>2, <3>3, <3>4, UdpConstants
  <2> QED
    BY <1>1, <2>1, <2>2
<1>4. 1 <= Len(A)
  BY <1>1
<1> HIDE DEF A
<1>5. QED
  BY <1>3, <1>4 DEF Windowed, A

\* One more reply in the open window.
LEMMA SameWindow ==
    ASSUME NEW R \in Seq(Nat), NEW E, NEW start \in Nat, NEW m \in 1..ReplyBurst,
           Windowed(R, E, start, m), NEW t \in Nat, t <= start + ReplyWindow
    PROVE  Windowed(Append(R, t), E, start, m + 1)
<1> DEFINE A == Append(R, t)
<1>1. Len(R) \in Nat /\ Len(A) = Len(R) + 1 /\ A[Len(R) + 1] = t
  OBVIOUS
<1>2. \A i \in 1..Len(R) : A[i] = R[i] /\ R[i] \in Nat
  OBVIOUS
<1>3. ASSUME NEW i \in (1..Len(A)) \ E
      PROVE  /\ A[i] <= start + ReplyWindow
             /\ i <= Len(A) - (m + 1) => A[i] < start
             /\ i <= Len(A) - (m + 1) - ReplyBurst => A[i] + ReplyWindow < start
  <2> HIDE DEF A
  <2>1. CASE i = Len(R) + 1
    BY <1>1, <2>1, UdpConstants
  <2>2. CASE i \in 1..Len(R)
    <3>1. /\ R[i] <= start + ReplyWindow
          /\ i <= Len(R) - m => R[i] < start
          /\ i <= Len(R) - m - ReplyBurst => R[i] + ReplyWindow < start
      BY <2>2, <1>3 DEF Windowed
    <3> QED
      BY <1>1, <1>2, <2>2, <3>1, UdpConstants, SMTT(30)
  <2> QED
    BY <1>1, <2>1, <2>2
<1>4. m + 1 <= Len(A)
  BY <1>1 DEF Windowed
<1> HIDE DEF A
<1>5. QED
  BY <1>3, <1>4 DEF Windowed, A

\* What allow does to the table.
LEMMA AllowStep ==
    ASSUME UdpTypeOK, NEW s \in Src
    PROVE  LET v == allow(s)
               fresh == s \notin DOMAIN table \/ uNow - table[s].start > ReplyWindow
           IN  /\ DOMAIN v.slots = DOMAIN table \cup {s}
               /\ \A x \in DOMAIN table : x # s => v.slots[x] = table[x]
               /\ v.slots[s] \in ReplySlots
               /\ v.slots[s].start = IF fresh THEN uNow ELSE table[s].start
               /\ v.slots[s].n = IF fresh THEN 1 ELSE table[s].n + 1
               /\ v.ok <=> v.slots[s].n <= ReplyBurst
<1> DEFINE fresh == s \notin DOMAIN table \/ uNow - table[s].start > ReplyWindow
           n == IF fresh THEN 1 ELSE table[s].n + 1
           new == IF fresh THEN [start |-> uNow, n |-> 1] ELSE [table[s] EXCEPT !.n = n]
<1>1. s \in DOMAIN table => table[s] \in ReplySlots
  BY DEF table, UdpTypeOK
<1>2. /\ new \in ReplySlots /\ new.n = n
      /\ new.start = IF fresh THEN uNow ELSE table[s].start
  <2>1. CASE fresh
    BY <2>1 DEF ReplySlots, UdpTypeOK
  <2>2. CASE ~fresh
    BY <1>1, <2>2 DEF ReplySlots
  <2> QED
    BY <2>1, <2>2
<1>3. /\ allow(s).ok = (n <= ReplyBurst)
      /\ allow(s).slots = [x \in DOMAIN table \cup {s} |-> IF x # s THEN table[x] ELSE new]
  BY DEF allow
<1> HIDE DEF new
<1>4. /\ DOMAIN allow(s).slots = DOMAIN table \cup {s} /\ allow(s).slots[s] = new
      /\ \A x \in DOMAIN table : x # s => allow(s).slots[x] = table[x]
  BY <1>3
<1>5. QED
  BY <1>2, <1>3, <1>4

\* A datagram that is not answered, or whose answer is refused or sent, keeps the invariant.
LEMMA DatagramKeeps ==
    ASSUME UdpInv, NEW s \in Src, NEW req \in Size, NEW offers \in Offers,
           Datagram(s, req, offers)
    PROVE  UdpInv'
<1> DEFINE reply == answer(req, offers)
           fresh == s \notin DOMAIN table \/ uNow - table[s].start > ReplyWindow
           R == replies[s]
           L == Len(replies[s])
<1>1. req \in Nat /\ reply \in Nat /\ reply <= req
  BY AnswerFits, UdpConstants
<1>2. uNow \in Nat /\ uNow' = uNow /\ bytesIn' = [bytesIn EXCEPT ![s] = @ + req]
  BY DEF Datagram, UdpInv, UdpTypeOK
<1> HIDE DEF reply
<1>3. CASE reply = 0
  <2>1. UNCHANGED <<slots, replies, bytesOut, resetAt>>
    BY <1>3 DEF Datagram, reply
  <2>2. UdpTypeOK'
    BY <1>1, <1>2, <2>1 DEF UdpInv, UdpTypeOK
  <2>3. NoAmplification'
    BY <1>1, <1>2, <2>1 DEF UdpInv, UdpTypeOK, NoAmplification
  <2>4. ReplyRate'
    BY <2>1 DEF UdpInv, ReplyRate
  <2>5. \A x \in Src : SlotInv(x)'
    BY <1>2, <2>1 DEF UdpInv, SlotInv, Windowed, Excused, Spent
  <2>6. QED
    BY <2>2, <2>3, <2>4, <2>5 DEF UdpInv
<1>4. CASE reply # 0
  <2>1. /\ DOMAIN slots' = DOMAIN table \cup {s}
        /\ \A x \in DOMAIN table : x # s => slots'[x] = table[x]
        /\ slots'[s] \in ReplySlots
        /\ slots'[s].start = IF fresh THEN uNow ELSE table[s].start
        /\ slots'[s].n = IF fresh THEN 1 ELSE table[s].n + 1
    <3>1. slots' = allow(s).slots
      BY <1>4 DEF Datagram, reply
    <3> QED
      BY <3>1, AllowStep DEF UdpInv
  <2>2. IF slots'[s].n <= ReplyBurst
        THEN /\ replies' = [replies EXCEPT ![s] = Append(@, uNow)]
             /\ bytesOut' = [bytesOut EXCEPT ![s] = @ + reply]
        ELSE UNCHANGED <<replies, bytesOut>>
    <3>1. slots' = allow(s).slots
      BY <1>4 DEF Datagram, reply
    <3>2. allow(s).ok <=> slots'[s].n <= ReplyBurst
      BY <3>1, AllowStep DEF UdpInv
    <3> QED
      BY <1>4, <3>2 DEF Datagram, reply
  <2>3. \/ table = slots /\ resetAt' = resetAt
        \/ DOMAIN table = {} /\ resetAt' = {uNow}
    BY <1>4 DEF Datagram, reply, table
  <2>4. \A x \in Src : /\ replies[x] \in Seq(Nat) /\ Len(replies[x]) \in Nat
                       /\ \A i \in 1..Len(replies[x]) :
                             replies[x][i] \in Nat /\ replies[x][i] <= uNow
    <3> TAKE x \in Src
    <3>1. replies[x] \in Seq(Nat)
      BY DEF UdpInv, UdpTypeOK
    <3>2. SlotInv(x)
      BY DEF UdpInv
    <3> QED
      BY <3>1, <3>2 DEF SlotInv
  <2>5. \A x \in Src : Excused(x) \subseteq Excused(x)'
    <3> SUFFICES ASSUME NEW x \in Src, NEW i \in 1..Len(replies[x]),
                        NEW r \in resetAt, r >= replies[x][i]
                 PROVE  i \in Excused(x)'
      BY DEF Excused
    <3>1. /\ replies'[x][i] = replies[x][i] /\ i \in 1..Len(replies'[x])
          /\ replies[x][i] \in Nat /\ replies[x][i] <= uNow
      <4>1. replies[x] \in Seq(Nat) /\ replies[x][i] \in Nat /\ replies[x][i] <= uNow
        BY <2>4
      <4>2. replies'[x] = replies[x] \/ replies'[x] = Append(replies[x], uNow)
        BY <2>2 DEF UdpInv, UdpTypeOK
      <4>3. CASE replies'[x] = replies[x]
        BY <4>1, <4>3
      <4>4. CASE replies'[x] = Append(replies[x], uNow)
        BY <1>2, <4>1, <4>4
      <4> QED
        BY <4>2, <4>3, <4>4
    <3>2. \E q \in resetAt' : q >= replies[x][i]
      BY <1>2, <2>3, <3>1
    <3> QED
      BY <3>1, <3>2 DEF Excused
  <2>6. /\ slots'[s].n \in Nat \ {0} /\ slots'[s].start \in Nat /\ slots'[s].start <= uNow
        /\ ~fresh => uNow <= table[s].start + ReplyWindow
    <3>1. s \in DOMAIN table => table[s] \in ReplySlots /\ table[s].start <= uNow
      BY DEF UdpInv, UdpTypeOK, table
    <3> QED
      BY <1>2, <2>1, <3>1, UdpConstants DEF ReplySlots
  <2>7. UdpTypeOK'
    <3>1. DOMAIN slots' \subseteq Src
      BY <2>1, <2>3 DEF UdpInv, UdpTypeOK
    <3>2. \A x \in DOMAIN slots' : slots'[x] \in ReplySlots /\ slots'[x].start <= uNow
      BY <2>1, <2>3, <2>6 DEF UdpInv, UdpTypeOK
    <3>3. replies' \in [Src -> Seq(Nat)] /\ bytesOut' \in [Src -> Nat]
      <4>1. replies \in [Src -> Seq(Nat)] /\ bytesOut \in [Src -> Nat]
        BY DEF UdpInv, UdpTypeOK
      <4>2. Append(replies[s], uNow) \in Seq(Nat) /\ bytesOut[s] + reply \in Nat
        BY <1>1, <1>2, <4>1
      <4> QED
        BY <2>2, <4>1, <4>2
    <3>4. bytesIn' \in [Src -> Nat]
      BY <1>1, <1>2 DEF UdpInv, UdpTypeOK
    <3>5. resetAt' \in SUBSET Nat /\ \A r \in resetAt' : r <= uNow
      <4>1. resetAt \in SUBSET Nat /\ \A r \in resetAt : r <= uNow
        BY DEF UdpInv, UdpTypeOK
      <4>2. CASE resetAt' = resetAt
        BY <4>1, <4>2
      <4>3. CASE resetAt' = {uNow}
        BY <1>2, <4>3
      <4> QED
        BY <2>3, <4>2, <4>3
    <3> QED
      BY <1>2, <3>1, <3>2, <3>3, <3>4, <3>5 DEF UdpTypeOK
  <2>8. NoAmplification'
    <3> SUFFICES ASSUME NEW x \in Src PROVE bytesOut'[x] <= bytesIn'[x]
      BY DEF NoAmplification
    <3>1. bytesOut[x] \in Nat /\ bytesIn[x] \in Nat /\ bytesOut[x] <= bytesIn[x]
      BY DEF UdpInv, UdpTypeOK, NoAmplification
    <3>2. bytesIn'[x] = IF x = s THEN bytesIn[x] + req ELSE bytesIn[x]
      BY <1>2 DEF UdpInv, UdpTypeOK
    <3>3. bytesOut'[x] = bytesOut[x] \/ (x = s /\ bytesOut'[x] = bytesOut[x] + reply)
      BY <2>2 DEF UdpInv, UdpTypeOK
    <3> QED
      BY <1>1, <3>1, <3>2, <3>3
  <2>9. ASSUME NEW x \in Src, x # s
        PROVE  SlotInv(x)'
    <3>1. replies'[x] = replies[x] /\ SlotInv(x)
      BY <2>2, <2>9 DEF UdpInv, UdpTypeOK
    <3>2. CASE table = slots
      <4>1. /\ x \in DOMAIN slots' <=> x \in DOMAIN slots
            /\ x \in DOMAIN slots => slots'[x] = slots[x]
        BY <2>1, <2>9, <3>2
      <4> QED
        BY <1>2, <2>5, <3>1, <4>1 DEF SlotInv, Windowed, Spent
    <3>3. CASE DOMAIN table = {} /\ resetAt' = {uNow}
      <4>1. x \notin DOMAIN slots'
        BY <2>1, <2>9, <3>3
      <4> QED
        BY <1>2, <2>4, <3>1, <3>3, <4>1 DEF SlotInv, Excused
    <3> QED
      BY <2>3, <3>2, <3>3
  <2>10. replies'[s] = IF slots'[s].n <= ReplyBurst THEN Append(R, uNow) ELSE R
    BY <2>2 DEF UdpInv, UdpTypeOK
  <2>11. Windowed(replies'[s], Excused(s)', slots'[s].start, Spent(s)')
    <3>1. SlotInv(s) /\ R \in Seq(Nat) /\ Excused(s) \subseteq Excused(s)'
      BY <2>4, <2>5 DEF UdpInv
    <3>2. CASE s \notin DOMAIN table
      <4>1. slots'[s].n = 1 /\ slots'[s].start = uNow /\ replies'[s] = Append(R, uNow)
        BY <2>1, <2>10, <3>2, UdpConstants
      <4>2. Spent(s)' = 1
        BY <4>1, UdpConstants DEF Spent
      <4>3. 1..Len(R) \subseteq Excused(s)'
        <5>1. CASE table = slots
          BY <3>1, <3>2, <5>1 DEF SlotInv
        <5>2. CASE resetAt' = {uNow}
          BY <1>2, <2>4, <3>1, <4>1, <5>2 DEF Excused
        <5> QED
          BY <2>3, <5>1, <5>2
      <4> QED
        BY <1>2, <3>1, <4>1, <4>2, <4>3, FirstWindow
    <3>3. CASE s \in DOMAIN table
      <4>1. /\ table = slots /\ slots[s].start \in Nat /\ slots[s].n \in Nat \ {0}
            /\ Spent(s) \in 1..ReplyBurst
        BY <2>3, <3>3, UdpConstants DEF UdpInv, UdpTypeOK, ReplySlots, Spent
      <4>2. Windowed(R, Excused(s)', slots[s].start, Spent(s))
        BY <3>1, <3>3, <4>1 DEF SlotInv, Windowed
      <4>3. CASE uNow - slots[s].start > ReplyWindow
        <5>1. slots'[s].n = 1 /\ slots'[s].start = uNow /\ replies'[s] = Append(R, uNow)
          BY <2>1, <2>10, <4>1, <4>3, UdpConstants
        <5>2. Spent(s)' = 1
          BY <5>1, UdpConstants DEF Spent
        <5>3. uNow > slots[s].start + ReplyWindow
          BY <1>2, <4>1, <4>3, UdpConstants
        <5> QED
          BY <1>2, <3>1, <4>1, <4>2, <5>1, <5>2, <5>3, NewWindow
      <4>4. CASE ~(uNow - slots[s].start > ReplyWindow)
        <5>1. slots'[s].n = slots[s].n + 1 /\ slots'[s].start = slots[s].start
          BY <2>1, <3>3, <4>1, <4>4
        <5>2. uNow <= slots[s].start + ReplyWindow
          BY <1>2, <4>1, <4>4, UdpConstants
        <5>3. CASE slots'[s].n <= ReplyBurst
          <6>1. Spent(s)' = Spent(s) + 1 /\ replies'[s] = Append(R, uNow)
            BY <2>10, <4>1, <5>1, <5>3, UdpConstants DEF Spent
          <6> QED
            BY <1>2, <3>1, <4>1, <4>2, <5>1, <5>2, <6>1, SameWindow
        <5>4. CASE ~(slots'[s].n <= ReplyBurst)
          <6>1. Spent(s)' = Spent(s) /\ replies'[s] = R
            BY <2>10, <4>1, <5>1, <5>4, UdpConstants DEF Spent
          <6> QED
            BY <4>2, <5>1, <6>1
        <5> QED
          BY <5>3, <5>4
      <4> QED
        BY <4>3, <4>4
    <3> QED
      BY <3>2, <3>3
  <2>12. SlotInv(s)'
    <3>1. \A i \in 1..Len(replies'[s]) : replies'[s][i] <= uNow
      BY <1>2, <2>4, <2>10
    <3> QED
      BY <1>2, <2>1, <2>11, <3>1 DEF SlotInv
  <2>13. ReplyRate'
    <3> SUFFICES ASSUME NEW x \in Src, NEW i \in DOMAIN replies'[x],
                        i + 2 * ReplyBurst <= Len(replies'[x])
                 PROVE  \/ replies'[x][i + 2 * ReplyBurst] > replies'[x][i] + ReplyWindow
                        \/ i \in Excused(x)'
      BY DEF ReplyRate, Excused
    <3>1. replies[x] \in Seq(Nat) /\ Len(replies[x]) \in Nat
      BY <2>4
    <3>2. ASSUME i + 2 * ReplyBurst <= Len(replies[x])
          PROVE  \/ replies[x][i + 2 * ReplyBurst] > replies[x][i] + ReplyWindow
                 \/ i \in Excused(x)'
      <4>1. i \in 1..Len(replies'[x])
        BY <2>7 DEF UdpTypeOK
      <4>2. i \in DOMAIN replies[x]
        <5>1. i <= Len(replies[x])
          <6> DEFINE k == Len(replies[x])
          <6>1. k \in Nat /\ i \in Nat /\ i + 2 * ReplyBurst <= k
            BY <3>1, <3>2, <4>1
          <6> HIDE DEF k
          <6>2. i <= k
            BY <6>1, UdpConstants
          <6> QED
            BY <6>2 DEF k
        <5>2. DOMAIN replies[x] = 1..Len(replies[x])
          BY <3>1
        <5>3. i \in 1..Len(replies[x])
          BY <3>1, <4>1, <5>1
        <5> QED
          BY <5>2, <5>3
      <4>3. \/ replies[x][i + 2 * ReplyBurst] > replies[x][i] + ReplyWindow
            \/ i \in Excused(x)
        BY <3>2, <4>2 DEF UdpInv, ReplyRate, Excused
      <4> QED
        BY <2>5, <4>3
    <3>3. CASE replies'[x] = replies[x]
      BY <3>2, <3>3
    <3>4. CASE x = s /\ replies'[x] = Append(R, uNow)
      <4>1. /\ Len(replies'[x]) = L + 1 /\ replies'[x][L + 1] = uNow
            /\ \A j \in 1..L : replies'[x][j] = R[j]
            /\ i \in 1..L + 1 /\ L \in Nat
        BY <1>2, <3>1, <3>4
      <4> HIDE DEF L
      <4>2. CASE i + 2 * ReplyBurst <= L
        <5>1. i \in 1..L /\ i + 2 * ReplyBurst \in 1..L
          BY <4>1, <4>2, UdpConstants
        <5> QED
          BY <3>2, <3>4, <4>1, <4>2, <5>1 DEF L
      <4>3. CASE i + 2 * ReplyBurst = L + 1
        <5>1. Spent(s)' \in 1..ReplyBurst
          BY <2>6, UdpConstants DEF Spent
        <5>2. Len(replies'[s]) = L + 1 /\ L \in Nat /\ i \in 1..L + 1
          BY <3>4, <4>1
        <5>3. i \in 1..Len(replies'[s]) /\ i <= Len(replies'[s]) - Spent(s)' - ReplyBurst
          <6>1. \A n \in 1..ReplyBurst : i <= (L + 1) - n - ReplyBurst
            BY <4>3, <5>2, UdpConstants
          <6>2. i <= (L + 1) - Spent(s)' - ReplyBurst
            BY <5>1, <6>1
          <6> QED
            BY <5>2, <6>2
        <5>4. i \in Excused(s)' \/ replies'[s][i] + ReplyWindow < slots'[s].start
          BY <2>11, <5>3 DEF Windowed
        <5>5. replies'[s] \in Seq(Nat)
          BY <2>7 DEF UdpTypeOK
        <5>6. replies'[s][i] \in Nat
          BY <5>3, <5>5
        <5>7. replies'[s][i + 2 * ReplyBurst] = uNow
          BY <3>4, <4>1, <4>3
        <5>8. i \in Excused(s)' \/ uNow > replies'[s][i] + ReplyWindow
          BY <1>2, <2>6, <5>4, <5>6, UdpConstants
        <5> QED
          BY <3>4, <5>7, <5>8
      <4> QED
        BY <4>1, <4>2, <4>3, UdpConstants
    <3> QED
      BY <2>2, <2>10, <3>3, <3>4 DEF UdpInv, UdpTypeOK
  <2>14. QED
    BY <2>7, <2>8, <2>9, <2>12, <2>13 DEF UdpInv
<1>5. QED
  BY <1>3, <1>4

\* The invariant holds for any sources, sizes, offers, windows and table resets.
THEOREM UdpInvariant == UdpSpec => []UdpInv
<1>1. UdpInit => UdpInv
  <2> SUFFICES ASSUME UdpInit PROVE UdpInv
    OBVIOUS
  <2>1. DOMAIN slots = {}
    BY DEF UdpInit
  <2>2. UdpTypeOK
    BY <2>1 DEF UdpInit, UdpTypeOK
  <2>3. NoAmplification /\ ReplyRate /\ \A s \in Src : SlotInv(s)
    BY <2>1 DEF UdpInit, NoAmplification, ReplyRate, SlotInv
  <2> QED
    BY <2>2, <2>3 DEF UdpInv
<1>2. UdpInv /\ [UdpNext]_udpVars => UdpInv'
  <2> SUFFICES ASSUME UdpInv, [UdpNext]_udpVars PROVE UdpInv'
    OBVIOUS
  <2>1. ASSUME NEW s \in Src, NEW req \in Size, NEW offers \in Offers, Datagram(s, req, offers)
        PROVE  UdpInv'
    BY <2>1, DatagramKeeps
  <2>2. CASE UdpTick
    <3>1. /\ uNow \in Nat /\ uNow' = uNow + 1
          /\ UNCHANGED <<slots, received, replies, bytesIn, bytesOut, resetAt>>
      BY <2>2 DEF UdpTick, UdpInv, UdpTypeOK
    <3>2. UdpTypeOK'
      BY <3>1 DEF UdpInv, UdpTypeOK, ReplySlots
    <3>3. NoAmplification' /\ ReplyRate'
      BY <3>1 DEF UdpInv, NoAmplification, ReplyRate
    <3>4. \A s \in Src : SlotInv(s)'
      <4> SUFFICES ASSUME NEW s \in Src PROVE SlotInv(s)'
        OBVIOUS
      <4>1. replies[s] \in Seq(Nat) /\ SlotInv(s)
        BY DEF UdpInv, UdpTypeOK
      <4>2. Excused(s)' = Excused(s) /\ (s \in DOMAIN slots => Spent(s)' = Spent(s))
        BY <3>1 DEF Excused, Spent
      <4>3. \A i \in 1..Len(replies[s]) : replies[s][i] <= uNow + 1
        BY <3>1, <4>1 DEF SlotInv
      <4> QED
        BY <3>1, <4>1, <4>2, <4>3 DEF SlotInv
    <3> QED
      BY <3>2, <3>3, <3>4 DEF UdpInv
  <2>3. CASE UNCHANGED udpVars
    BY <2>3 DEF udpVars, UdpInv, UdpTypeOK, NoAmplification, ReplyRate, SlotInv, Windowed, Excused, Spent
  <2>4. QED
    BY <2>1, <2>2, <2>3 DEF UdpNext
<1>3. QED
  BY <1>1, <1>2, PTL DEF UdpSpec

\* No source is ever sent more bytes than it sent: replies are no amplification.
THEOREM NoAmplificationTheorem == UdpSpec => []NoAmplification
<1>1. UdpInv => NoAmplification
  BY DEF UdpInv
<1>2. QED
  BY <1>1, UdpInvariant, PTL

\* A source gets at most two bursts of replies in any window, wherever it lies, until
\* the full table is reset.
THEOREM ReplyRateTheorem == UdpSpec => []ReplyRate
<1>1. UdpInv => ReplyRate
  BY DEF UdpInv
<1>2. QED
  BY <1>1, UdpInvariant, PTL

-----------------------------------------------------------------------------
(* RateWindow *)

\* Events happen in the order of the log, none in the future.
LogOrdered ==
    /\ \A i \in Event : log[i] <= now
    /\ \A i, j \in Event : i <= j => log[i] <= log[j]

\* The windows hold no event from before the last clearing ...
SinceCleared ==
    /\ \A i \in rate.ts \cup rate.vol : i > cleared
    /\ rate.high # 0 => rate.high > cleared

\* ... and every later event that is still inside the volume window.
NothingForgotten ==
    \A i \in Event : i > cleared /\ log[i] + VolumeWindow >= now => i \in rate.vol

\* What every step of the rate limiter keeps.
WindowInv == TypeOK /\ LogOrdered /\ SinceCleared /\ NothingForgotten

\* VolumeThreshold events at most a second apart fit into either window.
Proportions ==
    Second * VolumeThreshold <= SustainWindow /\ Second * VolumeThreshold <= VolumeWindow

\* Since highSince was set, no two events were more than a second apart, and all
\* of them are in the volume window, which is not full.
FloodPaced ==
    /\ Cardinality(rate.vol) < VolumeThreshold
    /\ rate.high # 0 =>
          /\ rate.high .. Len(log) \subseteq rate.vol
          /\ log[Len(log)] <= log[rate.high] + Second * (Len(log) - rate.high)

\* What the absence of a flood verdict needs besides WindowInv.
FloodInv == Proportions => FloodPaced /\ reason # "flood"

-----------------------------------------------------------------------------
\* One more event: the log keeps its elements and gains the present time.
LEMMA AppendNow ==
    ASSUME TypeOK
    PROVE  LET l == Append(log, now)
           IN  /\ l \in Seq(Nat) /\ Len(l) = Len(log) + 1 /\ Len(log) \in Nat
               /\ l[Len(l)] = now
               /\ \A i \in Event : l[i] = log[i] /\ i \in 1 .. Len(l) /\ log[i] \in Nat
               /\ \A i \in 1 .. Len(l) : i \in Event \/ i = Len(l)
BY DEF TypeOK, Event

\* The rateState after one more event.
LEMMA ObserveFacts ==
    ASSUME TypeOK
    PROVE  LET l == Append(log, now)
               st == Observe(l, Len(l))
           IN  /\ st.ts = Recent(l, rate.ts \cup {Len(l)}, Second)
               /\ st.vol = Recent(l, rate.vol \cup {Len(l)}, VolumeWindow)
               /\ st.high = IF Cardinality(st.ts) <= RateThreshold THEN 0
                            ELSE IF rate.high = 0 THEN Len(l) ELSE rate.high
               /\ st \in [ts : SUBSET (1 .. Len(l)), vol : SUBSET (1 .. Len(l)),
                          high : (1 .. Len(l)) \cup {0}]
<1> DEFINE l == Append(log, now)
           st == Observe(l, Len(l))
<1>1. /\ st.ts = Recent(l, rate.ts \cup {Len(l)}, Second)
      /\ st.vol = Recent(l, rate.vol \cup {Len(l)}, VolumeWindow)
      /\ st.high = IF Cardinality(st.ts) <= RateThreshold THEN 0
                   ELSE IF rate.high = 0 THEN Len(l) ELSE rate.high
      /\ st = [ts |-> st.ts, vol |-> st.vol, high |-> st.high]
  BY DEF Observe
<1>2. /\ Len(l) \in 1 .. Len(l) /\ Event \subseteq 1 .. Len(l)
      /\ rate.ts \subseteq Event /\ rate.vol \subseteq Event /\ rate.high \in Event \cup {0}
  BY AppendNow DEF TypeOK, Event
<1> HIDE DEF l, st
<1>3. st.ts \subseteq 1 .. Len(l) /\ st.vol \subseteq 1 .. Len(l)
  BY <1>1, <1>2 DEF Recent
<1>4. st.high \in (1 .. Len(l)) \cup {0}
  BY <1>1, <1>2
<1>5. QED
  BY <1>1, <1>3, <1>4 DEF l, st

\* The blank entry is an entry.
LEMMA NoRateType == NoRate \in [ts : SUBSET Event, vol : SUBSET Event, high : Event \cup {0}]
BY DEF NoRate

\* What the shard's critical section does, without its LETs.
LEMMA RecordEventFacts ==
    ASSUME RecordEvent
    PROVE  LET l == Append(log, now)
               st == Observe(l, Len(l))
           IN  /\ log' = l /\ now' = now
               /\ \/ /\ reason' = "flood" /\ Flooded(l, st)
                     /\ rate' = NoRate /\ cleared' = Len(l)
                  \/ /\ reason' = "volume" /\ ~Flooded(l, st)
                     /\ Cardinality(st.vol) >= VolumeThreshold
                     /\ rate' = NoRate /\ cleared' = Len(l)
                  \/ /\ reason' = "pass" /\ ~Flooded(l, st)
                     /\ ~(Cardinality(st.vol) >= VolumeThreshold)
                     /\ rate' = st /\ cleared' = cleared
BY DEF RecordEvent, Judge

\* Every step of RateWindow keeps the types.
LEMMA WindowTypeStep == TypeOK /\ [Next]_vars => TypeOK'
<1> SUFFICES ASSUME TypeOK, [Next]_vars
             PROVE  TypeOK'
  OBVIOUS
<1> USE WindowAssumption
<1>1. CASE RecordCheck
  BY <1>1 DEF TypeOK, Event, RecordCheck
<1>2. CASE RecordEvent
  <2> DEFINE l == Append(log, now)
             st == Observe(l, Len(l))
  <2>1. /\ l \in Seq(Nat) /\ Len(l) \in Nat /\ Len(l) = Len(log) + 1 /\ Len(log) \in Nat
        /\ st \in [ts : SUBSET (1 .. Len(l)), vol : SUBSET (1 .. Len(l)),
                   high : (1 .. Len(l)) \cup {0}]
    BY AppendNow, ObserveFacts
  <2>2. /\ log' = l /\ now' = now /\ (rate' = NoRate \/ rate' = st)
        /\ cleared' \in {cleared, Len(l)} /\ reason' \in {"pass", "flood", "volume"}
    BY <1>2, RecordEventFacts
  <2>3. passed' \in Nat /\ clearing' = clearing
    BY <1>2 DEF TypeOK, RecordEvent, Judge
  <2>6. banned' \in BOOLEAN
    BY <1>2, Zenon DEF TypeOK, RecordEvent, Judge
  <2> HIDE DEF l, st
  <2>4. rate' \in [ts : SUBSET Event', vol : SUBSET Event', high : Event' \cup {0}]
    <3>1. Event' = 1 .. Len(l)
      BY <2>2 DEF Event
    <3>2. NoRate \in [ts : SUBSET Event', vol : SUBSET Event', high : Event' \cup {0}]
      BY DEF NoRate
    <3>3. QED
      BY <2>1, <2>2, <3>1, <3>2
  <2>5. QED
    BY <2>1, <2>2, <2>3, <2>4, <2>6 DEF TypeOK
<1>3. CASE ManualBan \/ ScheduleUnban \/ ManualUnban
  BY <1>3 DEF TypeOK, Event, ManualBan, ScheduleUnban, ManualUnban
<1>4. CASE ClearRate
  <2>1. rate' \in [ts : SUBSET Event', vol : SUBSET Event', high : Event' \cup {0}]
    BY <1>4 DEF ClearRate, Event, NoRate
  <2>2. cleared' \in 0 .. Len(log') /\ log' = log
    BY <1>4 DEF ClearRate, TypeOK
  <2>3. clearing' \in BOOLEAN
    BY <1>4, Zenon DEF ClearRate
  <2>4. QED
    BY <1>4, <2>1, <2>2, <2>3 DEF TypeOK, ClearRate
<1>5. CASE RateGC
  <2>1. rate' \in [ts : SUBSET Event', vol : SUBSET Event', high : Event' \cup {0}]
    BY <1>5 DEF RateGC, Event, NoRate
  <2>2. QED
    BY <1>5, <2>1 DEF TypeOK, RateGC
<1>6. CASE Tick
  BY <1>6 DEF TypeOK, Event, Tick
<1>7. CASE UNCHANGED vars
  BY <1>7 DEF TypeOK, Event, vars
<1>8. QED
  BY <1>1, <1>2, <1>3, <1>4, <1>5, <1>6, <1>7 DEF Next

\* Every step of RateWindow, the sweep included, keeps WindowInv.
LEMMA WindowStep == WindowInv /\ [Next]_vars => WindowInv'
<1> SUFFICES ASSUME WindowInv, [Next]_vars
             PROVE  WindowInv'
  OBVIOUS
<1>1. TypeOK /\ TypeOK'
  BY WindowTypeStep DEF WindowInv
<1> USE WindowAssumption
<1>2. CASE UNCHANGED <<now, log, rate, cleared>>
  BY <1>1, <1>2 DEF WindowInv, LogOrdered, SinceCleared, NothingForgotten, Event
<1>3. CASE RecordEvent
  <2> DEFINE l == Append(log, now)
             e == Len(l)
             st == Observe(l, e)
  <2>1. /\ e = Len(log) + 1 /\ Len(log) \in Nat /\ l[e] = now /\ now \in Nat
        /\ \A i \in Event : l[i] = log[i] /\ log[i] \in Nat /\ i < e
        /\ \A i \in 1 .. e : i \in Event \/ i = e
    <3>1. now \in Nat
      BY <1>1 DEF TypeOK
    <3>2. /\ e = Len(log) + 1 /\ Len(log) \in Nat /\ l[e] = now
          /\ \A i \in Event : l[i] = log[i] /\ log[i] \in Nat
          /\ \A i \in 1 .. e : i \in Event \/ i = e
      BY <1>1, AppendNow
    <3>3. \A i \in Event : i < e
      BY <3>2 DEF Event
    <3>4. QED
      BY <3>1, <3>2, <3>3
  <2>2. /\ st.ts = Recent(l, rate.ts \cup {e}, Second)
        /\ st.vol = Recent(l, rate.vol \cup {e}, VolumeWindow)
        /\ st.high \in {0, e, rate.high}
    BY <1>1, ObserveFacts
  <2>3. /\ log' = l /\ now' = now
        /\ \/ rate' = NoRate /\ cleared' = e
           \/ rate' = st /\ cleared' = cleared
    BY <1>3, RecordEventFacts
  <2>4. Event' = 1 .. e /\ cleared \in 0 .. Len(log)
    BY <1>1, <2>3 DEF Event, TypeOK
  <2> HIDE DEF l, e, st
  <2>5. LogOrdered'
    BY <2>1, <2>3, <2>4 DEF WindowInv, LogOrdered
  <2>6. CASE rate' = NoRate /\ cleared' = e
    BY <1>1, <2>1, <2>4, <2>5, <2>6
    DEF WindowInv, SinceCleared, NothingForgotten, NoRate
  <2>7. CASE rate' = st /\ cleared' = cleared
    <3>1. SinceCleared'
      BY <2>1, <2>2, <2>4, <2>7 DEF WindowInv, SinceCleared, Recent
    <3>2. NothingForgotten'
      BY <2>1, <2>2, <2>3, <2>4, <2>7 DEF WindowInv, NothingForgotten, Recent
    <3>3. QED
      BY <1>1, <2>5, <3>1, <3>2 DEF WindowInv
  <2>8. QED
    BY <2>3, <2>6, <2>7
<1>4. CASE ClearRate
  BY <1>1, <1>4
  DEF WindowInv, LogOrdered, SinceCleared, NothingForgotten, ClearRate, NoRate, Event, TypeOK
<1>5. CASE RateGC
  <2>1. PICK read \in 0 .. now :
            \A i \in rate.ts \cup rate.vol : log[i] + GCMaxAge < read
    BY <1>5 DEF RateGC
  <2>2. \A i \in Event : i > cleared => log[i] + VolumeWindow < now
    <3> SUFFICES ASSUME NEW i \in Event, i > cleared, ~(log[i] + VolumeWindow < now)
                 PROVE  FALSE
      OBVIOUS
    <3>1. log[i] \in Nat /\ now \in Nat /\ read \in Nat /\ read <= now
      <4>1. now \in Nat /\ log \in Seq(Nat)
        BY <1>1 DEF TypeOK
      <4>2. QED
        BY <4>1 DEF Event
    <3>2. i \in rate.vol
      BY <3>1 DEF WindowInv, NothingForgotten
    <3>3. QED
      BY <2>1, <3>1, <3>2
  <2>3. NothingForgotten'
    <3>1. now \in Nat /\ log \in Seq(Nat)
      BY <1>1 DEF TypeOK
    <3>2. \A i \in Event : log[i] \in Nat
      BY <3>1 DEF Event
    <3>3. \A i \in Event : i > cleared => ~(log[i] + VolumeWindow >= now)
      BY <2>2, <3>1, <3>2
    <3>4. QED
      BY <1>5, <3>3 DEF RateGC, NothingForgotten, Event
  <2>4. SinceCleared' /\ LogOrdered'
    BY <1>5 DEF WindowInv, LogOrdered, SinceCleared, RateGC, NoRate, Event
  <2>5. QED
    BY <1>1, <2>3, <2>4 DEF WindowInv
<1>6. CASE Tick
  <2>1. LogOrdered'
    BY <1>1, <1>6 DEF WindowInv, LogOrdered, Tick, Event, TypeOK
  <2>2. SinceCleared'
    BY <1>1, <1>6 DEF WindowInv, SinceCleared, Tick, Event, TypeOK
  <2>3. NothingForgotten'
    BY <1>1, <1>6 DEF WindowInv, NothingForgotten, Tick, Event, TypeOK
  <2>4. QED
    BY <1>1, <2>1, <2>2, <2>3 DEF WindowInv
<1>7. QED
  BY <1>2, <1>3, <1>4, <1>5, <1>6
  DEF Next, RecordCheck, ManualBan, ScheduleUnban, ManualUnban, vars

\* A new limiter satisfies WindowInv.
LEMMA WindowInit == Init => WindowInv
<1> SUFFICES ASSUME Init
             PROVE  WindowInv
  OBVIOUS
<1>1. Event = {} /\ Len(log) = 0
  BY DEF Init, Event
<1>2. banned \in BOOLEAN /\ clearing \in BOOLEAN
  BY Zenon DEF Init
<1>3. rate \in [ts : SUBSET Event, vol : SUBSET Event, high : Event \cup {0}]
  BY NoRateType DEF Init
<1>4. TypeOK
  BY <1>1, <1>2, <1>3 DEF Init, TypeOK
<1>5. LogOrdered /\ SinceCleared /\ NothingForgotten
  BY <1>1 DEF Init, LogOrdered, SinceCleared, NothingForgotten, NoRate
<1>6. QED
  BY <1>4, <1>5 DEF WindowInv

\* WindowInv holds whatever the order of events, sweeps and ticks.
LEMMA WindowInvAlways == Spec => []WindowInv
BY WindowInit, WindowStep, PTL DEF Spec

-----------------------------------------------------------------------------
(* The volume rule *)

\* Whatever was pruned, swept, banned and unbanned before, Record places a
\* volume ban exactly when VolumeThreshold events of the last VolumeWindow count.
THEOREM VolumeBanExactAlways == Spec => VolumeBanExact
<1> DEFINE Exact ==
      log' # log =>
         LET j == Len(log')
         IN  (reason' = "volume") <=>
               /\ Cardinality(Counted(log', cleared, j, VolumeWindow)) >= VolumeThreshold
               /\ reason' # "flood"
<1>1. WindowInv /\ [Next]_vars => [Exact]_vars
  <2> SUFFICES ASSUME WindowInv, Next, log' # log
               PROVE  Exact
    OBVIOUS
  <2>1. RecordEvent
    BY DEF Next, RecordCheck, ManualBan, ScheduleUnban, ManualUnban, ClearRate, RateGC, Tick
  <2> DEFINE l == Append(log, now)
             e == Len(l)
             st == Observe(l, e)
  <2>2. /\ e = Len(log) + 1 /\ Len(log) \in Nat /\ l[e] = now /\ now \in Nat
        /\ \A i \in Event : l[i] = log[i] /\ log[i] \in Nat
        /\ cleared \in 0 .. Len(log) /\ rate.vol \subseteq Event
    BY AppendNow DEF Event, TypeOK, WindowInv
  <2>3. st.vol = Recent(l, rate.vol \cup {e}, VolumeWindow)
    BY ObserveFacts DEF WindowInv
  <2>4. /\ log' = l
        /\ \/ reason' = "flood"
           \/ reason' = "volume" /\ Cardinality(st.vol) >= VolumeThreshold
           \/ reason' = "pass" /\ ~(Cardinality(st.vol) >= VolumeThreshold)
    BY <2>1, RecordEventFacts
  <2> HIDE DEF l, e, st
  <2>5. st.vol = Counted(l, cleared, e, VolumeWindow)
    <3>1. ASSUME NEW i \in cleared + 1 .. e, l[i] + VolumeWindow >= l[e]
          PROVE  i \in st.vol
      BY <2>2, <2>3, <3>1 DEF Recent, WindowInv, NothingForgotten, Event
    <3>2. ASSUME NEW i \in st.vol
          PROVE  i \in cleared + 1 .. e /\ l[i] + VolumeWindow >= l[e]
      BY <2>2, <2>3, <3>2 DEF Recent, WindowInv, SinceCleared, Event
    <3>3. QED
      BY <3>1, <3>2 DEF Counted
  <2>6. QED
    BY <2>4, <2>5 DEF e
<1>2. QED
  BY <1>1, WindowInvAlways, PTL DEF Spec, VolumeBanExact

-----------------------------------------------------------------------------
(* The flood rule under the shipped proportions *)

\* Multiplication by a natural number is monotone.
LEMMA ScaleMono ==
    ASSUME NEW a \in Nat, NEW b \in Nat, NEW c \in Nat, b <= c
    PROVE  a * b <= a * c /\ a * b \in Nat /\ a * c \in Nat
OBVIOUS

\* Multiplication distributes over one more.
LEMMA ScaleStep ==
    ASSUME NEW a \in Nat, NEW b \in Nat
    PROVE  a * (b + 1) = a * b + a
OBVIOUS

\* Record never answers flood: the volume rule comes first.
LEMMA FloodEvent ==
    ASSUME WindowInv, FloodPaced, Proportions, RecordEvent
    PROVE  FloodPaced' /\ reason' # "flood"
<1> DEFINE l == Append(log, now)
           e == Len(l)
           n == Len(log)
           st == Observe(l, e)
           h == rate.high
<1> USE WindowAssumption
<1>1. /\ e = n + 1 /\ n \in Nat /\ l[e] = now /\ now \in Nat
      /\ \A i \in Event : l[i] = log[i] /\ log[i] \in Nat
      /\ rate.ts \subseteq Event /\ rate.vol \subseteq Event /\ h \in Event \cup {0}
      /\ Event = 1 .. n
  BY AppendNow DEF Event, TypeOK, WindowInv
<1>2. /\ st.ts = Recent(l, rate.ts \cup {e}, Second)
      /\ st.vol = Recent(l, rate.vol \cup {e}, VolumeWindow)
      /\ st.high = IF Cardinality(st.ts) <= RateThreshold THEN 0
                   ELSE IF h = 0 THEN e ELSE h
  BY ObserveFacts DEF WindowInv
<1>3. /\ log' = l /\ now' = now
      /\ \/ reason' = "flood" /\ Flooded(l, st)
         \/ reason' = "volume" /\ rate' = NoRate
         \/ /\ reason' = "pass" /\ rate' = st
            /\ ~(Cardinality(st.vol) >= VolumeThreshold)
  BY RecordEventFacts
<1> HIDE DEF l, e, n, st, h
<1>4. /\ Second * VolumeThreshold \in Nat /\ Second * VolumeThreshold >= Second
      /\ Second * VolumeThreshold <= SustainWindow
      /\ Second * VolumeThreshold <= VolumeWindow
  <2>1. Second * 1 <= Second * VolumeThreshold /\ Second * VolumeThreshold \in Nat
    BY ScaleMono
  <2>2. QED
    BY <2>1 DEF Proportions
<1>5. IsFiniteSet(rate.vol) /\ IsFiniteSet(st.vol) /\ IsFiniteSet(st.ts)
  <2>1. IsFiniteSet(1 .. e)
    BY <1>1, FS_Interval
  <2>2. rate.vol \subseteq 1 .. e /\ st.vol \subseteq 1 .. e /\ st.ts \subseteq 1 .. e
    BY <1>1, <1>2 DEF Recent
  <2>3. QED
    BY <2>1, <2>2, FS_Subset
\* If highSince stays set, the event comes within a second of the one before.
<1>6. ASSUME st.high # 0, h # 0
      PROVE  /\ now <= log[n] + Second
             /\ now <= log[h] + Second * (e - h)
             /\ Second * (e - h) < Second * VolumeThreshold
             /\ \A i \in h .. e : i \in st.vol
  <2>1. h \in 1 .. n /\ n \in Event /\ h \in Event
    BY <1>1, <1>6
  <2>2. PICK i \in st.ts : i # e
    <3> SUFFICES ASSUME st.ts \subseteq {e}
                 PROVE  FALSE
      OBVIOUS
    <3>1. IsFiniteSet({e}) /\ Cardinality({e}) = 1
      BY FS_Singleton
    <3>2. Cardinality(st.ts) <= 1 /\ Cardinality(st.ts) \in Nat
      BY <1>5, <3>1, FS_Subset, FS_CardinalityType
    <3>3. QED
      BY <1>2, <1>6, <3>2
  <2>3. i \in Event /\ log[i] + Second >= now /\ log[i] <= log[n]
    BY <1>1, <1>2, <2>1, <2>2 DEF Recent, WindowInv, LogOrdered
  <2>4. now <= log[n] + Second
    BY <1>1, <2>1, <2>3
  <2>5. log[n] <= log[h] + Second * (n - h)
    BY <1>6 DEF FloodPaced, h, n
  <2>6. Second * (e - h) = Second * (n - h) + Second /\ Second * (n - h) \in Nat
    BY <1>1, <2>1, ScaleStep, ScaleMono
  <2>7. now <= log[h] + Second * (e - h)
    BY <1>1, <2>1, <2>4, <2>5, <2>6
  <2>8. e - h < VolumeThreshold
    <3>1. h .. n \subseteq rate.vol
      BY <1>6 DEF FloodPaced, h, n
    <3>2. Cardinality(h .. n) = n - h + 1
      <4>1. h \in Int /\ n \in Int /\ ~(h > n)
        BY <1>1, <2>1
      <4>2. QED
        BY <4>1, FS_Interval
    <3>3. Cardinality(h .. n) <= Cardinality(rate.vol) /\ Cardinality(rate.vol) \in Nat
      BY <1>5, <3>1, FS_Subset, FS_CardinalityType
    <3>4. QED
      BY <1>1, <2>1, <3>2, <3>3 DEF FloodPaced
  <2>9. Second * (e - h) < Second * VolumeThreshold
    <3>1. e - h \in Nat /\ (e - h) + 1 <= VolumeThreshold
      BY <1>1, <2>1, <2>8
    <3>2. Second * ((e - h) + 1) <= Second * VolumeThreshold
      BY <3>1, ScaleMono
    <3>3. Second * ((e - h) + 1) = Second * (e - h) + Second /\ Second * (e - h) \in Nat
      BY <3>1, ScaleStep, ScaleMono
    <3>4. QED
      BY <1>4, <3>2, <3>3
  <2>10. ASSUME NEW j \in h .. e
         PROVE  j \in st.vol
    <3>1. j = e \/ (j \in h .. n /\ j \in Event)
      BY <1>1, <2>1
    <3>2. CASE j = e
      BY <1>1, <1>2, <3>2 DEF Recent
    <3>3. CASE j \in h .. n /\ j \in Event
      <4>1. j \in rate.vol
        BY <1>6, <3>3 DEF FloodPaced, h, n
      <4>2. log[h] <= log[j]
        BY <1>1, <2>1, <3>3 DEF WindowInv, LogOrdered
      <4>3. Second * (e - h) \in Nat
        BY <1>1, <2>1, ScaleMono
      <4>4. log[j] + VolumeWindow >= now
        <5>1. log[h] \in Nat /\ log[j] \in Nat
          BY <1>1, <2>1, <3>3
        <5> DEFINE p == Second * (e - h)
                   q == Second * VolumeThreshold
        <5>2. p \in Nat /\ q \in Nat /\ now <= log[h] + p /\ p < q /\ q <= VolumeWindow
          BY <1>4, <2>7, <2>9, <4>3
        <5> HIDE DEF p, q
        <5>3. QED
          BY <1>1, <4>2, <5>1, <5>2
      <4>5. QED
        BY <1>1, <1>2, <3>3, <4>1, <4>4 DEF Recent
    <3>4. QED
      BY <3>1, <3>2, <3>3
  <2>11. QED
    BY <2>4, <2>7, <2>9, <2>10
<1>7. st.high # 0 => st.high = e \/ (st.high = h /\ h # 0)
  BY <1>2
<1>8. ~Flooded(l, st)
  <2>1. CASE st.high = e
    BY <1>1, <1>4, <2>1 DEF Flooded
  <2>2. CASE st.high # 0 /\ st.high = h /\ h # 0
    <3>1. l[h] = log[h] /\ log[h] \in Nat /\ Second * (e - h) \in Nat
      BY <1>1, <2>2, ScaleMono
    <3>2. now < log[h] + SustainWindow
      <4> DEFINE p == Second * (e - h)
                 q == Second * VolumeThreshold
      <4>1. p \in Nat /\ q \in Nat /\ now <= log[h] + p /\ p < q /\ q <= SustainWindow
        BY <1>4, <1>6, <2>2, <3>1
      <4> HIDE DEF p, q
      <4>2. QED
        BY <1>1, <3>1, <4>1
    <3>3. QED
      BY <1>1, <2>2, <3>1, <3>2 DEF Flooded
  <2>3. QED
    BY <1>7, <2>1, <2>2 DEF Flooded
<1>9. CASE rate' = NoRate /\ reason' = "volume"
  <2>1. rate'.vol = {} /\ rate'.high = 0
    BY <1>9 DEF NoRate
  <2>2. QED
    BY <1>9, <2>1, FS_EmptySet DEF FloodPaced
<1>10. CASE rate' = st /\ reason' = "pass" /\ ~(Cardinality(st.vol) >= VolumeThreshold)
  <2>1. Cardinality(rate'.vol) < VolumeThreshold
    BY <1>5, <1>10, FS_CardinalityType
  <2>2. ASSUME st.high # 0
        PROVE  /\ st.high .. e \subseteq st.vol
               /\ l[e] <= l[st.high] + Second * (e - st.high)
    <3>1. CASE st.high = e
      <4>1. e .. e = {e} /\ e \in st.vol /\ Second * (e - e) = 0
        BY <1>1, <1>2 DEF Recent
      <4>2. QED
        BY <1>1, <3>1, <4>1
    <3>2. CASE st.high = h /\ h # 0
      BY <1>1, <1>6, <2>2, <3>2
    <3>3. QED
      BY <1>7, <2>2, <3>1, <3>2
  <2>3. Len(log') = e
    BY <1>3 DEF e
  <2>4. QED
    BY <1>3, <1>10, <2>1, <2>2, <2>3 DEF FloodPaced
<1>11. QED
  BY <1>3, <1>8, <1>9, <1>10

\* Every step keeps FloodInv.
LEMMA FloodStep == WindowInv /\ FloodInv /\ [Next]_vars => FloodInv'
<1> SUFFICES ASSUME WindowInv, FloodInv, [Next]_vars, Proportions
             PROVE  FloodPaced' /\ reason' # "flood"
  BY DEF FloodInv, Proportions
<1>1. FloodPaced /\ reason # "flood"
  BY DEF FloodInv
<1>2. CASE RecordEvent
  BY <1>1, <1>2, FloodEvent
<1>3. CASE UNCHANGED <<log, rate, reason>>
  BY <1>1, <1>3 DEF FloodPaced
<1>4. CASE rate' = NoRate /\ reason' = reason
  <2>1. rate'.vol = {} /\ rate'.high = 0
    BY <1>4 DEF NoRate
  <2>2. QED
    BY <1>1, <1>4, <2>1, FS_EmptySet, WindowAssumption DEF FloodPaced
<1>5. QED
  BY <1>2, <1>3, <1>4
  DEF Next, RecordCheck, ManualBan, ScheduleUnban, ManualUnban, ClearRate, RateGC, Tick, vars

\* With windows at least VolumeThreshold seconds long, as in the shipped
\* constants, Record's flood rule never bans: the volume rule is always first.
THEOREM FloodNeverBans == Spec => []FloodBanUnreachable
<1>1. Init => FloodInv
  <2> SUFFICES ASSUME Init
               PROVE  FloodPaced /\ reason # "flood"
    BY DEF FloodInv
  <2>1. rate.vol = {} /\ rate.high = 0
    BY DEF Init, NoRate
  <2>2. QED
    BY <2>1, FS_EmptySet, WindowAssumption DEF Init, FloodPaced
<1>2. FloodInv => FloodBanUnreachable
  BY DEF FloodInv, Proportions, FloodBanUnreachable
<1>3. QED
  BY <1>1, <1>2, FloodStep, WindowInvAlways, PTL DEF Spec

=============================================================================
