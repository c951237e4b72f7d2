----------------------------- MODULE FeedProofs -----------------------------
(***************************************************************************)
(* Proofs about what a dashboard client is shown, for any number of        *)
(* subscribers and events and any sizes of the ring and the channels:      *)
(* Snapshot returns the newest events in order, a subscriber is sent every *)
(* event once, and no event falls between the replayed history and the     *)
(* live events; and that the resolver's marks and its queue agree.         *)
(***************************************************************************)
EXTENDS LiveFeed, Resolver, SequenceTheorems, WellFoundedInduction, TLAPS

-----------------------------------------------------------------------------
(* The ring *)

\* A set of natural numbers that is not empty has a least element: what induction needs.
LEMMA Least ==
    ASSUME NEW T \in SUBSET Nat, T # {}
    PROVE  \E x \in T : \A y \in T : ~(y < x)
<1>1. IsWellFoundedOn(OpToRel(<, Nat), Nat)
  BY NatLessThanWellFounded
<1>2. \E x \in T : \A y \in T : <<y, x>> \notin OpToRel(<, Nat)
  BY <1>1, WFMin
<1>3. QED
  BY <1>2 DEF OpToRel

\* The ring after the first i of at most HistorySize events.
Filled(e, i) ==
    [ring |-> [j \in 0 .. HistorySize - 1 |-> IF j < i THEN e[j + 1] ELSE 0],
     next |-> IF i = HistorySize THEN 0 ELSE i,
     full |-> i = HistorySize]

\* One push fills one more slot.
LEMMA PushFills ==
    ASSUME NEW e \in Seq(Nat), Len(e) <= HistorySize, NEW i \in 1 .. Len(e)
    PROVE  Push(Filled(e, i - 1), e[i]) = Filled(e, i)
<1> DEFINE old == [j \in 0 .. HistorySize - 1 |-> IF j < i - 1 THEN e[j + 1] ELSE 0]
           new == [j \in 0 .. HistorySize - 1 |-> IF j < i THEN e[j + 1] ELSE 0]
<1>1. /\ HistorySize \in Nat /\ Len(e) \in Nat /\ i \in Nat /\ i - 1 \in 0 .. HistorySize - 1
      /\ i - 1 # HistorySize /\ (i - 1) + 1 = i
  BY HubAssumption
<1>2. Filled(e, i - 1) = [ring |-> old, next |-> i - 1, full |-> FALSE]
  BY <1>1 DEF Filled
<1>3. [old EXCEPT ![i - 1] = e[i]] = new
  <2>1. \A j \in 0 .. HistorySize - 1 : [old EXCEPT ![i - 1] = e[i]][j] = new[j]
    BY <1>1
  <2>2. QED
    BY <2>1
<1> HIDE DEF old, new
<1>4. Push(Filled(e, i - 1), e[i]) =
        [ring |-> new, next |-> IF i = HistorySize THEN 0 ELSE i, full |-> i = HistorySize]
  <2> DEFINE r == Filled(e, i - 1)
  <2>1. r.ring = old /\ r.next = i - 1 /\ r.full = FALSE
    BY <1>2
  <2>2. Push(r, e[i]) =
          [ring |-> [r.ring EXCEPT ![r.next] = e[i]],
           next |-> IF r.next + 1 = HistorySize THEN 0 ELSE r.next + 1,
           full |-> r.full \/ r.next + 1 = HistorySize]
    BY DEF Push
  <2> HIDE DEF r
  <2>3. [r.ring EXCEPT ![r.next] = e[i]] = new /\ r.next + 1 = i
    BY <1>1, <1>3, <2>1
  <2>4. (r.full \/ r.next + 1 = HistorySize) = (i = HistorySize)
    BY <2>1, <2>3
  <2>5. QED
    BY <2>2, <2>3, <2>4 DEF r
<1>5. QED
  BY <1>4 DEF Filled, new

\* Seed: pushing at most HistorySize events one by one fills the ring with them.
LEMMA PushedFills ==
    ASSUME NEW e \in Seq(Nat), Len(e) <= HistorySize
    PROVE  Pushed(e)[Len(e)] = Filled(e, Len(e))
<1> DEFINE F == Pushed(e)
           C == [i \in 0 .. Len(e) |-> Filled(e, i)]
<1>1. Filled(e, 0) = EmptyRing
  <2>1. [j \in 0 .. HistorySize - 1 |-> IF j < 0 THEN e[j + 1] ELSE 0]
          = [j \in 0 .. HistorySize - 1 |-> 0]
    BY HubAssumption
  <2>2. QED
    BY <2>1, HubAssumption DEF Filled, EmptyRing
<1>2. Len(e) \in Nat /\ \A i \in 0 .. Len(e) : i # 0 => i \in 1 .. Len(e) /\ i - 1 \in 0 .. Len(e)
  OBVIOUS
<1>3. \A i \in 0 .. Len(e) :
        C[i] = IF i = 0 THEN EmptyRing ELSE Push(C[i - 1], e[i])
  BY <1>1, <1>2, PushFills
<1>4. C = [i \in 0 .. Len(e) |-> IF i = 0 THEN EmptyRing ELSE Push(C[i - 1], e[i])]
  BY <1>3
<1>5. \E f : f = [i \in 0 .. Len(e) |-> IF i = 0 THEN EmptyRing ELSE Push(f[i - 1], e[i])]
  <2> HIDE DEF C
  <2>1. QED
    BY <1>4
<1>6. F = CHOOSE f :
            f = [i \in 0 .. Len(e) |-> IF i = 0 THEN EmptyRing ELSE Push(f[i - 1], e[i])]
  BY DEF Pushed
<1> HIDE DEF F
<1>7. F = [i \in 0 .. Len(e) |-> IF i = 0 THEN EmptyRing ELSE Push(F[i - 1], e[i])]
  BY <1>5, <1>6
<1>8. \A i \in 0 .. Len(e) : F[i] = IF i = 0 THEN EmptyRing ELSE Push(F[i - 1], e[i])
  <2> DEFINE G == [i \in 0 .. Len(e) |-> IF i = 0 THEN EmptyRing ELSE Push(F[i - 1], e[i])]
  <2>1. \A i \in 0 .. Len(e) : G[i] = IF i = 0 THEN EmptyRing ELSE Push(F[i - 1], e[i])
    OBVIOUS
  <2>2. F = G
    BY <1>7
  <2> HIDE DEF G
  <2>3. QED
    BY <2>1, <2>2
<1> DEFINE T == {i \in 0 .. Len(e) : F[i] # Filled(e, i)}
<1>9. T = {}
  <2>1. SUFFICES ASSUME T # {} PROVE FALSE
    OBVIOUS
  <2>2. PICK x \in T : \A y \in T : ~(y < x)
    <3>1. T \in SUBSET Nat
      BY <1>2
    <3> HIDE DEF T
    <3>2. QED
      BY <2>1, <3>1, Least
  <2>3. x \in 0 .. Len(e) /\ F[x] # Filled(e, x)
    OBVIOUS
  <2>4. x # 0
    BY <1>1, <1>8, <2>3
  <2>5. x \in 1 .. Len(e) /\ x - 1 \in 0 .. Len(e) /\ x - 1 < x
    BY <1>2, <2>3, <2>4
  <2>6. F[x - 1] = Filled(e, x - 1)
    BY <2>2, <2>5
  <2>7. F[x] = Push(F[x - 1], e[x])
    BY <1>8, <2>3, <2>4
  <2>8. QED
    BY <2>3, <2>5, <2>6, <2>7, PushFills
<1>10. QED
  BY <1>2, <1>9 DEF F

\* A ring g, next slot x, that holds the newest of n events, the last one just before x.
RingHolds(g, x, f, n) ==
    /\ n \in Nat /\ x \in 0 .. HistorySize - 1 /\ f \in BOOLEAN
    /\ g \in [0 .. HistorySize - 1 -> Nat]
    /\ ~f => n = x
    /\ f => n >= HistorySize
    /\ \A j \in 0 .. x - 1 : g[j] = n - x + j + 1
    /\ f => \A j \in x .. HistorySize - 1 : g[j] = n - x + j + 1 - HistorySize

\* One more event, and next does not come back to 0.
LEMMA RingAdvances ==
    ASSUME NEW g, NEW x, NEW f, NEW n, RingHolds(g, x, f, n), x + 1 # HistorySize
    PROVE  RingHolds([g EXCEPT ![x] = n + 1], x + 1, f, n + 1)
<1> DEFINE h == [g EXCEPT ![x] = n + 1]
<1>1. /\ HistorySize \in Nat \ {0} /\ n \in Nat /\ x \in 0 .. HistorySize - 1
      /\ g \in [0 .. HistorySize - 1 -> Nat] /\ x + 1 \in 0 .. HistorySize - 1
  BY HubAssumption DEF RingHolds
<1>2. /\ h \in [0 .. HistorySize - 1 -> Nat] /\ h[x] = n + 1
      /\ \A j \in 0 .. HistorySize - 1 : j # x => h[j] = g[j]
  BY <1>1
<1> HIDE DEF h
<1>3. \A j \in 0 .. (x + 1) - 1 : h[j] = (n + 1) - (x + 1) + j + 1
  <2>1. SUFFICES ASSUME NEW j \in 0 .. (x + 1) - 1 PROVE h[j] = n - x + j + 1
    BY <1>1
  <2>2. CASE j = x
    BY <1>1, <1>2, <2>2
  <2>3. CASE j # x
    <3>1. j \in 0 .. x - 1 /\ j \in 0 .. HistorySize - 1
      BY <1>1, <2>3
    <3>2. QED
      BY <1>2, <2>3, <3>1 DEF RingHolds
  <2>4. QED
    BY <2>2, <2>3
<1>4. ASSUME f, NEW j \in x + 1 .. HistorySize - 1
      PROVE  h[j] = (n + 1) - (x + 1) + j + 1 - HistorySize
  <2>1. j \in x .. HistorySize - 1 /\ j \in 0 .. HistorySize - 1 /\ j # x
    BY <1>1
  <2>2. h[j] = n - x + j + 1 - HistorySize
    BY <1>2, <1>4, <2>1 DEF RingHolds
  <2>3. QED
    BY <1>1, <2>1, <2>2
<1>5. /\ f \in BOOLEAN /\ (~f => n + 1 = x + 1) /\ (f => n + 1 >= HistorySize)
      /\ n + 1 \in Nat
  BY <1>1 DEF RingHolds
<1>6. RingHolds(h, x + 1, f, n + 1)
  BY <1>1, <1>2, <1>3, <1>4, <1>5 DEF RingHolds
<1>7. QED
  BY <1>6 DEF h

\* One more event in the last slot: the ring is full and next comes back to 0.
LEMMA RingWraps ==
    ASSUME NEW g, NEW x, NEW f, NEW n, RingHolds(g, x, f, n), x + 1 = HistorySize
    PROVE  RingHolds([g EXCEPT ![x] = n + 1], 0, TRUE, n + 1)
<1> DEFINE h == [g EXCEPT ![x] = n + 1]
<1>1. /\ HistorySize \in Nat \ {0} /\ n \in Nat /\ x \in 0 .. HistorySize - 1
      /\ g \in [0 .. HistorySize - 1 -> Nat] /\ 0 \in 0 .. HistorySize - 1
  BY HubAssumption DEF RingHolds
<1>2. /\ h \in [0 .. HistorySize - 1 -> Nat] /\ h[x] = n + 1
      /\ \A j \in 0 .. HistorySize - 1 : j # x => h[j] = g[j]
  BY <1>1
<1> HIDE DEF h
<1>3. ASSUME NEW j \in 0 .. HistorySize - 1
      PROVE  h[j] = (n + 1) - 0 + j + 1 - HistorySize
  <2>1. CASE j = x
    BY <1>1, <1>2, <2>1
  <2>2. CASE j # x
    <3>1. j \in 0 .. x - 1
      BY <1>1, <2>2
    <3>2. h[j] = n - x + j + 1
      BY <1>2, <2>2, <3>1 DEF RingHolds
    <3>3. QED
      BY <1>1, <3>2
  <2>3. QED
    BY <2>1, <2>2
<1>4. n + 1 >= HistorySize /\ n + 1 \in Nat /\ 0 .. 0 - 1 = {}
  BY <1>1 DEF RingHolds
<1>5. RingHolds(h, 0, TRUE, n + 1)
  BY <1>1, <1>2, <1>3, <1>4 DEF RingHolds
<1>6. QED
  BY <1>5 DEF h

\* Seed: a ring filled with the newest of the events 1 to n.
LEMMA SeedHolds ==
    ASSUME NEW n \in Nat
    PROVE  LET r == Seed([i \in 1 .. n |-> i]) IN RingHolds(r.ring, r.next, r.full, n)
<1> DEFINE all == [i \in 1 .. n |-> i]
           m == IF n > HistorySize THEN HistorySize ELSE n
           e == Newest(all)
<1>1. HistorySize \in Nat \ {0} /\ all \in Seq(Nat) /\ Len(all) = n
  BY HubAssumption
<1>2. m \in 0 .. HistorySize /\ m \in Nat /\ n - m \in Nat /\ (m < HistorySize => m = n)
  BY <1>1
<1>3. e \in Seq(Nat) /\ Len(e) = m /\ \A i \in 1 .. m : e[i] = n - m + i
  <2>1. CASE n > HistorySize
    <3>1. e = SubSeq(all, n - HistorySize + 1, n) /\ m = HistorySize
      BY <1>1, <2>1 DEF Newest
    <3>2. /\ SubSeq(all, n - HistorySize + 1, n) \in Seq(Nat)
          /\ Len(SubSeq(all, n - HistorySize + 1, n)) = HistorySize
          /\ \A i \in 1 .. HistorySize :
               SubSeq(all, n - HistorySize + 1, n)[i] = n - HistorySize + i
      BY <1>1, <2>1
    <3> HIDE DEF e, m, all
    <3>3. QED
      BY <3>1, <3>2
  <2>2. CASE ~(n > HistorySize)
    BY <1>1, <2>2 DEF Newest
  <2>3. QED
    BY <2>1, <2>2
<1> HIDE DEF all, m, e
<1>4. Seed(all) = Filled(e, m)
  BY <1>2, <1>3, PushedFills, HubAssumption DEF Seed, e
<1> DEFINE g == [j \in 0 .. HistorySize - 1 |-> IF j < m THEN e[j + 1] ELSE 0]
<1>5. g \in [0 .. HistorySize - 1 -> Nat] /\ \A j \in 0 .. m - 1 : g[j] = n - m + j + 1
  <2>1. \A j \in 0 .. HistorySize - 1 : j < m => j + 1 \in 1 .. m /\ e[j + 1] = n - m + j + 1
    BY <1>1, <1>2, <1>3
  <2>2. \A j \in 0 .. HistorySize - 1 : j < m => e[j + 1] \in Nat
    BY <1>1, <1>2, <2>1
  <2>3. \A j \in 0 .. m - 1 : j \in 0 .. HistorySize - 1 /\ j < m
    BY <1>1, <1>2
  <2>4. QED
    BY <2>1, <2>2, <2>3
<1> HIDE DEF g
<1>6. CASE m = HistorySize
  <2>1. Filled(e, m) = [ring |-> g, next |-> 0, full |-> TRUE]
    BY <1>6 DEF Filled, g
  <2>2. \A j \in 0 .. HistorySize - 1 : g[j] = n - 0 + j + 1 - HistorySize
    BY <1>1, <1>5, <1>6
  <2>3. n >= HistorySize /\ 0 \in 0 .. HistorySize - 1 /\ 0 .. 0 - 1 = {}
    BY <1>1, <1>2, <1>6
  <2>4. RingHolds(g, 0, TRUE, n)
    BY <1>5, <2>2, <2>3 DEF RingHolds
  <2>5. QED
    <3> DEFINE r == Seed(all)
    <3>1. r.ring = g /\ r.next = 0 /\ r.full = TRUE
      BY <1>4, <2>1
    <3> HIDE DEF r
    <3>2. RingHolds(r.ring, r.next, r.full, n)
      BY <3>1, <2>4
    <3>3. QED
      BY <3>2 DEF r, all
<1>7. CASE m # HistorySize
  <2>1. Filled(e, m) = [ring |-> g, next |-> m, full |-> FALSE]
    BY <1>7 DEF Filled, g
  <2>2. n = m /\ m \in 0 .. HistorySize - 1
    BY <1>1, <1>2, <1>7
  <2>3. RingHolds(g, m, FALSE, n)
    BY <1>5, <2>2 DEF RingHolds
  <2>4. QED
    <3> DEFINE r == Seed(all)
    <3>1. r.ring = g /\ r.next = m /\ r.full = FALSE
      BY <1>4, <2>1
    <3> HIDE DEF r
    <3>2. RingHolds(r.ring, r.next, r.full, n)
      BY <3>1, <2>3
    <3>3. QED
      BY <3>2 DEF r, all
<1>8. QED
  BY <1>6, <1>7

\* Two sequences that are the halves of a third one make it up.
LEMMA TwoHalves ==
    ASSUME NEW a \in Seq(Nat), NEW b \in Seq(Nat), NEW t \in Seq(Nat),
           Len(t) = Len(a) + Len(b), \A i \in 1 .. Len(a) : a[i] = t[i],
           \A i \in 1 .. Len(b) : b[i] = t[Len(a) + i]
    PROVE  a \o b = t
<1> DEFINE c == a \o b
<1>1. /\ c \in Seq(Nat) /\ Len(c) = Len(a) + Len(b)
      /\ \A i \in 1 .. Len(a) + Len(b) : c[i] = IF i <= Len(a) THEN a[i] ELSE b[i - Len(a)]
  BY ConcatProperties
<1> HIDE DEF c
<1>2. Len(a) \in Nat /\ Len(b) \in Nat
  OBVIOUS
<1>3. ASSUME NEW i \in 1 .. Len(c) PROVE c[i] = t[i]
  <2>1. CASE i <= Len(a)
    <3>1. i \in 1 .. Len(a) /\ i \in 1 .. Len(a) + Len(b)
      BY <1>1, <1>2, <2>1
    <3>2. QED
      BY <1>1, <2>1, <3>1
  <2>2. CASE i > Len(a)
    <3>1. i - Len(a) \in 1 .. Len(b) /\ Len(a) + (i - Len(a)) = i
      BY <1>1, <1>2, <2>2
    <3>2. c[i] = b[i - Len(a)]
      BY <1>1, <1>2, <2>2
    <3>3. QED
      BY <3>1, <3>2
  <2>3. QED
    BY <1>1, <1>2, <2>1, <2>2
<1>4. c = t
  BY <1>1, <1>3, SeqEqual
<1>5. QED
  BY <1>4 DEF c

\* Snapshot of such a ring: the newest HistorySize events, oldest first.
LEMMA SnapshotReads ==
    ASSUME RingHolds(ring, next, full, count)
    PROVE  SnapshotIsTail
<1>1. /\ HistorySize \in Nat \ {0} /\ count \in Nat /\ next \in 0 .. HistorySize - 1
      /\ full \in BOOLEAN
      /\ ~full => count = next
      /\ full => count >= HistorySize
      /\ \A j \in 0 .. next - 1 : ring[j] = count - next + j + 1
      /\ full => \A j \in next .. HistorySize - 1 : ring[j] = count - next + j + 1 - HistorySize
  BY HubAssumption DEF RingHolds
<1>2. CASE ~full
  <2>1. Snapshot = [i \in 1 .. next |-> ring[i - 1]]
    BY <1>2 DEF Snapshot
  <2>2. \A i \in 1 .. next : ring[i - 1] = count - count + i
    BY <1>1, <1>2
  <2>3. (IF count > HistorySize THEN HistorySize ELSE count) = count /\ count = next
    BY <1>1, <1>2
  <2>4. QED
    BY <2>1, <2>2, <2>3 DEF SnapshotIsTail
<1>3. CASE full
  <2> DEFINE a == [i \in 1 .. HistorySize - next |-> ring[next + i - 1]]
             b == [i \in 1 .. next |-> ring[i - 1]]
             t == [i \in 1 .. HistorySize |-> count - HistorySize + i]
  <2>1. Snapshot = a \o b
    BY <1>3 DEF Snapshot
  <2>2. \A i \in 1 .. HistorySize - next : ring[next + i - 1] = count - HistorySize + i
    BY <1>1, <1>3
  <2>3. \A i \in 1 .. next : ring[i - 1] = count - HistorySize + (HistorySize - next + i)
    BY <1>1
  <2>4. /\ a \in Seq(Nat) /\ Len(a) = HistorySize - next
        /\ \A i \in 1 .. HistorySize - next : a[i] = count - HistorySize + i
    BY <1>1, <1>3, <2>2
  <2>5. /\ b \in Seq(Nat) /\ Len(b) = next
        /\ \A i \in 1 .. next : b[i] = count - HistorySize + (HistorySize - next + i)
    BY <1>1, <1>3, <2>3
  <2>6. t \in Seq(Nat) /\ Len(t) = HistorySize /\ \A i \in 1 .. HistorySize : t[i] = count - HistorySize + i
    BY <1>1, <1>3
  <2> HIDE DEF a, b, t
  <2>7. Len(t) = Len(a) + Len(b) /\ \A i \in 1 .. Len(a) : a[i] = t[i]
    BY <1>1, <2>4, <2>5, <2>6
  <2>8. ASSUME NEW i \in 1 .. Len(b) PROVE b[i] = t[Len(a) + i]
    <3>1. Len(a) + i \in 1 .. HistorySize /\ i \in 1 .. next /\ Len(a) + i = HistorySize - next + i
      BY <1>1, <2>4, <2>5
    <3>2. QED
      BY <2>5, <2>6, <3>1
  <2>9. a \o b = t
    BY <2>4, <2>5, <2>6, <2>7, <2>8, TwoHalves
  <2>10. (IF count > HistorySize THEN HistorySize ELSE count) = HistorySize
    BY <1>1, <1>3
  <2>11. QED
    BY <2>1, <2>9, <2>10 DEF SnapshotIsTail, t
<1>4. QED
  BY <1>1, <1>2, <1>3

\* /api/recent: Snapshot is the newest HistorySize events, oldest first, whatever was seeded
\* and however often the ring has wrapped.
THEOREM SnapshotTheorem == HubSpec => []SnapshotIsTail
<1>1. HubInit => RingHolds(ring, next, full, count)
  <2>1. SUFFICES ASSUME HubInit PROVE RingHolds(ring, next, full, count)
    OBVIOUS
  <2> DEFINE r == Seed([i \in 1 .. count |-> i])
  <2>2. count \in Nat /\ ring = r.ring /\ next = r.next /\ full = r.full
    BY <2>1, HubAssumption DEF HubInit
  <2>3. RingHolds(r.ring, r.next, r.full, count)
    BY <2>2, SeedHolds
  <2> HIDE DEF r
  <2>4. QED
    BY <2>2, <2>3
<1>2. RingHolds(ring, next, full, count) /\ [HubNext]_hubVars => RingHolds(ring, next, full, count)'
  <2>1. SUFFICES ASSUME RingHolds(ring, next, full, count), [HubNext]_hubVars PROVE RingHolds(ring, next, full, count)'
    OBVIOUS
  <2>2. ASSUME NEW c \in Caster, Broadcast(c) PROVE RingHolds(ring, next, full, count)'
    <3>1. /\ count' = count + 1 /\ ring' = [ring EXCEPT ![next] = count + 1]
          /\ next' = IF next + 1 = HistorySize THEN 0 ELSE next + 1
          /\ full' = (full \/ next + 1 = HistorySize)
      BY <2>2 DEF Broadcast, Push, Ring
    <3>2. full \in BOOLEAN
      BY <2>1 DEF RingHolds
    <3>3. CASE next + 1 = HistorySize
      <4>1. next' = 0 /\ full' = TRUE
        BY <3>1, <3>3
      <4>2. RingHolds([ring EXCEPT ![next] = count + 1], 0, TRUE, count + 1)
        BY <2>1, <3>3, RingWraps
      <4>3. QED
        BY <3>1, <4>1, <4>2
    <3>4. CASE next + 1 # HistorySize
      <4>1. next' = next + 1 /\ full' = full
        BY <3>1, <3>2, <3>4
      <4>2. RingHolds([ring EXCEPT ![next] = count + 1], next + 1, full, count + 1)
        BY <2>1, <3>4, RingAdvances
      <4>3. QED
        BY <3>1, <4>1, <4>2
    <3>5. QED
      BY <3>3, <3>4
  <2>3. (\E c \in Caster : Broadcast(c)) \/ UNCHANGED <<ring, next, full, count>>
    BY <2>1 DEF HubNext, hubVars, Subscribe, Unsubscribe, Receive, Return, Send
  <2>4. ASSUME UNCHANGED <<ring, next, full, count>> PROVE RingHolds(ring, next, full, count)'
    BY <2>1, <2>4 DEF RingHolds
  <2>5. QED
    BY <2>2, <2>3, <2>4
<1>3. QED
  BY <1>1, <1>2, SnapshotReads, PTL DEF HubSpec

-----------------------------------------------------------------------------
(* The hub and the feed *)

\* A sequence stays without a duplicate when something that is not in it is appended.
LEMMA AppendDistinct ==
    ASSUME NEW S, NEW s \in Seq(S), NEW x \in S, IsInjective(s), x \notin Range(s)
    PROVE  /\ Append(s, x) \in Seq(S)
           /\ IsInjective(Append(s, x))
           /\ Range(Append(s, x)) = Range(s) \cup {x}
           /\ Len(Append(s, x)) = Len(s) + 1
<1> DEFINE t == Append(s, x)
<1>1. /\ t \in Seq(S) /\ Len(t) = Len(s) + 1 /\ DOMAIN t = 1 .. (Len(s) + 1)
      /\ DOMAIN s = 1 .. Len(s) /\ Len(s) \in Nat
      /\ t[Len(s) + 1] = x
      /\ \A i \in 1 .. Len(s) : t[i] = s[i]
  OBVIOUS
<1>2. \A i \in 1 .. Len(s) : s[i] # x
  BY <1>1 DEF Range
<1>3. IsInjective(t)
  BY <1>1, <1>2 DEF IsInjective
<1>4. Range(t) = Range(s) \cup {x}
  <2>1. Range(t) \subseteq Range(s) \cup {x}
    BY <1>1 DEF Range
  <2>2. Range(s) \subseteq Range(t)
    BY <1>1 DEF Range
  <2>3. x \in Range(t)
    BY <1>1 DEF Range
  <2>4. QED
    BY <2>1, <2>2, <2>3
<1>5. QED
  BY <1>1, <1>3, <1>4

\* Appending to the second of two sequences appends to their concatenation.
LEMMA AppendConcat ==
    ASSUME NEW S, NEW s \in Seq(S), NEW t \in Seq(S), NEW x \in S
    PROVE  s \o Append(t, x) = Append(s \o t, x) /\ s \o t \in Seq(S)
<1>1. Append(t, x) = t \o <<x>>
  BY AppendIsConcat
<1>2. s \o t \in Seq(S) /\ <<x>> \in Seq(S)
  OBVIOUS
<1>3. Append(s \o t, x) = (s \o t) \o <<x>>
  BY <1>2, AppendIsConcat
<1>4. s \o (t \o <<x>>) = (s \o t) \o <<x>>
  BY <1>2, ConcatAssociative
<1>5. QED
  BY <1>1, <1>2, <1>3, <1>4

-----------------------------------------------------------------------------
(* Hub *)

\* The types of what a subscriber sees.
HubTypeOK ==
    /\ count \in Nat
    /\ subscribers \subseteq Sub
    /\ buf \in [Sub -> Seq(Nat)] /\ received \in [Sub -> Seq(Nat)]
    /\ since \in [Sub -> Nat] /\ missed \in [Sub -> SUBSET Nat]
    /\ casting \in [Caster -> [ev : Nat, left : SUBSET Sub]]

\* Two Broadcasts under way have different events, none of them in the future.
CastsDistinct ==
    /\ \A c \in Caster : casting[c].ev <= count /\ (casting[c].left # {} => casting[c].ev # 0)
    /\ \A c, d \in Caster : casting[c].ev = casting[d].ev /\ casting[c].ev # 0 => c = d

\* A channel that was never subscribed has not been sent anything.
Untouched(s) ==
    /\ received[s] = <<>> /\ buf[s] = <<>> /\ missed[s] = {}
    /\ \A c \in Caster : s \notin casting[c].left

\* Every event since the subscription is accounted for once.
Accounted(s) ==
    /\ since[s] <= count
    /\ IsInjective(Seen(s))
    /\ Range(Seen(s)) \cup UnderWay(s) \cup missed[s] = since[s] + 1 .. count
    /\ Range(Seen(s)) \cap (UnderWay(s) \cup missed[s]) = {}
    /\ UnderWay(s) \cap missed[s] = {}

\* The inductive invariant.
HubInv ==
    /\ HubTypeOK /\ CastsDistinct
    /\ \A s \in Sub \ (subscribers \cup closed) : Untouched(s)
    /\ \A s \in subscribers : Accounted(s)

\* What the next channel receive takes is appended to what was taken.
LEMMA TakeHead ==
    ASSUME NEW p \in Seq(Nat), NEW q \in Seq(Nat), q # <<>>
    PROVE  /\ Append(p, Head(q)) \o Tail(q) = p \o q
           /\ Append(p, Head(q)) \in Seq(Nat) /\ Tail(q) \in Seq(Nat)
<1>1. Len(q) \in Nat /\ Len(q) >= 1 /\ Head(q) \in Nat /\ Head(q) = q[1] /\ Tail(q) \in Seq(Nat)
  OBVIOUS
<1>2. q = <<Head(q)>> \o Tail(q)
  <2>1. 1 \in 1 .. Len(q) /\ Len(q) \in 1 .. Len(q)
    BY <1>1
  <2>2. SubSeq(q, 1, Len(q)) = <<q[1]>> \o SubSeq(q, 1 + 1, Len(q))
    BY <2>1, SubSeqRecursiveFirst
  <2>3. QED
    BY <1>1, <2>2, SubSeqFull, TailIsSubSeq
<1>3. Append(p, Head(q)) = p \o <<Head(q)>> /\ Append(p, Head(q)) \in Seq(Nat)
  BY <1>1, AppendIsConcat
<1>4. (p \o <<Head(q)>>) \o Tail(q) = p \o (<<Head(q)>> \o Tail(q))
  <2>1. <<Head(q)>> \in Seq(Nat)
    BY <1>1
  <2>2. QED
    BY <1>1, <2>1, ConcatAssociative
<1>5. QED
  BY <1>1, <1>2, <1>3, <1>4

\* What a channel was sent depends on nothing else.
LEMMA AccountedSame ==
    ASSUME HubTypeOK, NEW s \in Sub, Accounted(s), UNCHANGED <<Seen(s), since[s], missed[s], count>>,
           UnderWay(s)' = UnderWay(s)
    PROVE  Accounted(s)'
BY DEF Accounted

\* Subscribe: nothing is owed to the new channel yet.
LEMMA SubscribeKeeps ==
    ASSUME HubInv, NEW q \in Sub, Subscribe(q)
    PROVE  HubInv'
<1>1. /\ q \notin subscribers \cup closed /\ subscribers' = subscribers \cup {q}
      /\ since' = [since EXCEPT ![q] = count]
      /\ UNCHANGED <<buf, casting, count, closed, received, missed>>
  BY DEF Subscribe
<1>2. HubTypeOK' /\ CastsDistinct'
  BY <1>1 DEF HubInv, HubTypeOK, CastsDistinct
<1>3. \A s \in Sub \ (subscribers \cup closed)' : Untouched(s)'
  BY <1>1 DEF HubInv, Untouched
<1>4. \A s \in Sub : UnderWay(s)' = UnderWay(s) /\ Seen(s)' = Seen(s)
  BY <1>1 DEF UnderWay, Seen
<1>5. ASSUME NEW s \in subscribers', s # q PROVE Accounted(s)'
  <2>1. s \in subscribers /\ s \in Sub /\ Accounted(s) /\ HubTypeOK /\ since'[s] = since[s]
    BY <1>1, <1>5 DEF HubInv, HubTypeOK
  <2>2. QED
    BY <1>1, <1>4, <2>1 DEF Accounted
<1>6. Accounted(q)'
  <2>1. Untouched(q) /\ count \in Nat /\ since'[q] = count
    BY <1>1 DEF HubInv, HubTypeOK
  <2>2. UnderWay(q) = {} /\ missed'[q] = {}
    BY <1>1, <2>1 DEF Untouched, UnderWay
  <2>3. Seen(q) = <<>> /\ Range(<<>>) = {} /\ IsInjective(<<>>)
    BY <2>1 DEF Untouched, Seen, Range, IsInjective
  <2>4. count + 1 .. count = {}
    BY <2>1
  <2>5. QED
    BY <1>1, <1>4, <2>1, <2>2, <2>3, <2>4 DEF Accounted
<1>7. QED
  BY <1>1, <1>2, <1>3, <1>5, <1>6 DEF HubInv

\* Broadcast under the lock: the event is under way to every subscriber.
LEMMA BroadcastKeeps ==
    ASSUME HubInv, NEW c \in Caster, Broadcast(c)
    PROVE  HubInv'
<1> DEFINE ev == count + 1
<1>1. /\ casting[c] = Idle /\ count' = ev
      /\ casting' = [casting EXCEPT ![c] = [ev |-> ev, left |-> subscribers]]
      /\ UNCHANGED <<since, subscribers, buf, closed, received, missed>>
  BY DEF Broadcast
<1>2. count \in Nat /\ casting[c].left = {} /\ subscribers \subseteq Sub
  BY <1>1 DEF HubInv, HubTypeOK, Idle
<1>3. /\ casting'[c].ev = ev /\ casting'[c].left = subscribers
      /\ \A d \in Caster : d # c => casting'[d] = casting[d]
  BY <1>1 DEF HubInv, HubTypeOK
<1>4. HubTypeOK'
  BY <1>1, <1>2 DEF HubInv, HubTypeOK
<1>5. CastsDistinct'
  <2>1. \A d \in Caster : casting[d].ev \in Nat /\ casting[d].ev <= count
    BY DEF HubInv, HubTypeOK, CastsDistinct
  <2>2. QED
    BY <1>1, <1>2, <1>3, <2>1 DEF HubInv, CastsDistinct
<1>6. \A s \in Sub \ (subscribers \cup closed)' : Untouched(s)'
  BY <1>1, <1>3 DEF HubInv, Untouched
<1>7. ASSUME NEW s \in subscribers' PROVE Accounted(s)'
  <2>1. s \in subscribers /\ s \in Sub /\ Accounted(s)
    BY <1>1, <1>2, <1>7 DEF HubInv
  <2>2. UnderWay(s)' = UnderWay(s) \cup {ev}
    <3>1. \A d \in Caster : s \in casting'[d].left <=> s \in casting[d].left \/ d = c
      BY <1>2, <1>3, <2>1
    <3>2. UnderWay(s)' \subseteq UnderWay(s) \cup {ev}
      BY <1>3, <3>1 DEF UnderWay
    <3>3. UnderWay(s) \cup {ev} \subseteq UnderWay(s)'
      BY <1>2, <1>3, <3>1 DEF UnderWay
    <3>4. QED
      BY <3>2, <3>3
  <2>3. Seen(s)' = Seen(s) /\ missed'[s] = missed[s] /\ since'[s] = since[s]
    BY <1>1 DEF Seen
  <2>4. since[s] \in Nat /\ since[s] <= count
    BY <2>1 DEF HubInv, HubTypeOK, Accounted
  <2>5. /\ since[s] + 1 .. ev = (since[s] + 1 .. count) \cup {ev}
        /\ ev \notin since[s] + 1 .. count /\ since[s] <= ev
    BY <1>2, <2>4
  <2>6. ev \notin Range(Seen(s)) /\ ev \notin missed[s]
    BY <2>1, <2>5 DEF Accounted
  <2>7. QED
    BY <1>1, <2>1, <2>2, <2>3, <2>5, <2>6 DEF Accounted
<1>8. QED
  BY <1>1, <1>4, <1>5, <1>6, <1>7 DEF HubInv

\* Broadcast after the lock: one send moves the event from under way to the channel, or to
\* those missed, of one subscriber; it changes nothing for the others.
LEMMA SendKeeps ==
    ASSUME HubInv, NEW c \in Caster, NEW q \in Sub, Send(c, q)
    PROVE  HubInv'
<1> DEFINE ev == casting[c].ev
<1>1. /\ q \in casting[c].left
      /\ casting' = [casting EXCEPT ![c].left = casting[c].left \ {q}]
      /\ UNCHANGED <<since, subscribers, count, closed, received>>
      /\ \/ buf' = [buf EXCEPT ![q] = Append(buf[q], ev)] /\ missed' = missed
         \/ missed' = [missed EXCEPT ![q] = missed[q] \cup {ev}] /\ buf' = buf
  BY DEF Send
<1>2. /\ ev \in Nat /\ buf[q] \in Seq(Nat) /\ received[q] \in Seq(Nat)
      /\ casting[c] = [ev |-> ev, left |-> casting[c].left]
  BY DEF HubInv, HubTypeOK
<1>3. /\ casting'[c].ev = ev /\ casting'[c].left = casting[c].left \ {q}
      /\ \A d \in Caster : d # c => casting'[d] = casting[d]
  BY <1>1 DEF HubInv, HubTypeOK
<1>4. HubTypeOK'
  <2>1. casting' \in [Caster -> [ev : Nat, left : SUBSET Sub]]
    BY <1>1 DEF HubInv, HubTypeOK
  <2>2. buf' \in [Sub -> Seq(Nat)] /\ missed' \in [Sub -> SUBSET Nat]
    <3>1. buf \in [Sub -> Seq(Nat)] /\ missed \in [Sub -> SUBSET Nat]
      BY DEF HubInv, HubTypeOK
    <3>2. Append(buf[q], ev) \in Seq(Nat) /\ missed[q] \cup {ev} \in SUBSET Nat
      BY <1>2, <3>1
    <3> HIDE DEF ev
    <3>3. QED
      BY <1>1, <3>1, <3>2
  <2>3. QED
    BY <1>1, <2>1, <2>2 DEF HubInv, HubTypeOK
<1>5. CastsDistinct'
  BY <1>1, <1>3 DEF HubInv, CastsDistinct
<1>6. ASSUME NEW s \in Sub, s # q
      PROVE  UNCHANGED <<Seen(s), missed[s], buf[s]>> /\ UnderWay(s)' = UnderWay(s)
  <2>1. UNCHANGED <<Seen(s), missed[s], buf[s]>>
    BY <1>1, <1>6 DEF Seen, HubInv, HubTypeOK
  <2>2. \A d \in Caster : /\ casting'[d].ev = casting[d].ev
                          /\ s \in casting'[d].left <=> s \in casting[d].left
    BY <1>3, <1>6
  <2>3. UnderWay(s)' = UnderWay(s)
    BY <2>2 DEF UnderWay
  <2>4. QED
    BY <2>1, <2>3
<1>7. ASSUME NEW s \in Sub \ (subscribers \cup closed)' PROVE Untouched(s)'
  <2>1. Untouched(s) /\ s # q
    BY <1>1, <1>7 DEF HubInv, Untouched
  <2>2. QED
    BY <1>1, <1>3, <1>6, <2>1 DEF Untouched
<1>8. ASSUME NEW s \in subscribers', s # q PROVE Accounted(s)'
  <2>1. s \in Sub /\ Accounted(s) /\ since'[s] = since[s] /\ count' = count
    BY <1>1, <1>8 DEF HubInv, HubTypeOK
  <2>2. QED
    BY <1>6, <1>8, <2>1 DEF Accounted
<1>9. ASSUME q \in subscribers PROVE Accounted(q)'
  <2>1. Accounted(q) /\ since'[q] = since[q] /\ count' = count
    BY <1>1, <1>9 DEF HubInv
  <2>2. UnderWay(q)' = UnderWay(q) \ {ev} /\ ev \in UnderWay(q)
    <3>1. \A d \in Caster : /\ casting'[d].ev = casting[d].ev
                            /\ q \in casting'[d].left <=> q \in casting[d].left /\ d # c
      BY <1>3
    <3>2. \A d \in Caster : casting[d].ev = ev => d = c
      BY <1>1 DEF HubInv, CastsDistinct
    <3>3. ev \in UnderWay(q)
      BY <1>1 DEF UnderWay
    <3>4. UnderWay(q)' \subseteq UnderWay(q) \ {ev}
      BY <3>1, <3>2 DEF UnderWay
    <3>5. UnderWay(q) \ {ev} \subseteq UnderWay(q)'
      BY <3>1, <3>2 DEF UnderWay
    <3>6. QED
      BY <3>3, <3>4, <3>5
  <2> HIDE DEF ev
  <2>3. CASE buf' = [buf EXCEPT ![q] = Append(buf[q], ev)] /\ missed' = missed
    <3>1. Seen(q)' = received[q] \o Append(buf[q], ev)
      BY <1>1, <2>3 DEF Seen, HubInv, HubTypeOK
    <3>2. received[q] \o Append(buf[q], ev) = Append(Seen(q), ev) /\ Seen(q) \in Seq(Nat)
      <4>1. \A r, b \in Seq(Nat), x \in Nat :
              r \o Append(b, x) = Append(r \o b, x) /\ r \o b \in Seq(Nat)
        BY AppendConcat
      <4>2. QED
        BY <1>2, <4>1, Zenon DEF Seen
    <3>3. IsInjective(Seen(q)) /\ ev \notin Range(Seen(q)) /\ ev \notin missed[q]
      BY <2>1, <2>2 DEF Accounted
    <3>4. IsInjective(Seen(q)') /\ Range(Seen(q)') = Range(Seen(q)) \cup {ev}
      BY <1>2, <3>1, <3>2, <3>3, AppendDistinct
    <3>5. QED
      BY <2>1, <2>2, <2>3, <3>3, <3>4 DEF Accounted
  <2>4. CASE missed' = [missed EXCEPT ![q] = missed[q] \cup {ev}] /\ buf' = buf
    <3>1. Seen(q)' = Seen(q) /\ missed'[q] = missed[q] \cup {ev}
      BY <1>1, <2>4 DEF Seen, HubInv, HubTypeOK
    <3>2. QED
      BY <2>1, <2>2, <3>1 DEF Accounted
  <2>5. QED
    BY <1>1, <2>3, <2>4 DEF ev
<1>10. QED
  BY <1>1, <1>4, <1>5, <1>7, <1>8, <1>9 DEF HubInv

\* Every step of the hub keeps the invariant.
LEMMA HubStep ==
    ASSUME HubInv, [HubNext]_hubVars
    PROVE  HubInv'
<1>1. ASSUME NEW s \in Sub, Subscribe(s) PROVE HubInv'
  BY <1>1, SubscribeKeeps
<1>2. ASSUME NEW q \in Sub, Unsubscribe(q) PROVE HubInv'
  <2>1. /\ subscribers' = subscribers \ {q} /\ closed' = closed \cup {q} /\ q \in subscribers
        /\ UNCHANGED <<since, buf, casting, count, received, missed>>
    BY <1>2 DEF Unsubscribe
  <2>2. \A s \in Sub : UNCHANGED <<Seen(s), UnderWay(s)>>
    BY <2>1 DEF Seen, UnderWay
  <2>3. HubTypeOK' /\ CastsDistinct'
    BY <2>1 DEF HubInv, HubTypeOK, CastsDistinct
  <2>4. \A s \in Sub \ (subscribers \cup closed)' : Untouched(s)'
    BY <2>1 DEF HubInv, Untouched
  <2>5. \A s \in subscribers' : Accounted(s)'
    BY <2>1, <2>2 DEF HubInv, HubTypeOK, Accounted
  <2>6. QED
    BY <2>3, <2>4, <2>5 DEF HubInv
<1>3. ASSUME NEW q \in Sub, Receive(q) PROVE HubInv'
  <2>1. /\ q \in subscribers /\ buf[q] # <<>>
        /\ received' = [received EXCEPT ![q] = Append(received[q], Head(buf[q]))]
        /\ buf' = [buf EXCEPT ![q] = Tail(buf[q])]
        /\ UNCHANGED <<since, subscribers, casting, count, closed, missed>>
    BY <1>3 DEF Receive
  <2>2. buf[q] \in Seq(Nat) /\ received[q] \in Seq(Nat)
    BY DEF HubInv, HubTypeOK
  <2>3. /\ Append(received[q], Head(buf[q])) \o Tail(buf[q]) = received[q] \o buf[q]
        /\ Append(received[q], Head(buf[q])) \in Seq(Nat) /\ Tail(buf[q]) \in Seq(Nat)
    BY <2>1, <2>2, TakeHead
  <2>4. \A s \in Sub : Seen(s)' = Seen(s) /\ UnderWay(s)' = UnderWay(s)
    BY <2>1, <2>3 DEF Seen, UnderWay, HubInv, HubTypeOK
  <2>5. HubTypeOK' /\ CastsDistinct'
    BY <2>1, <2>3 DEF HubInv, HubTypeOK, CastsDistinct
  <2>6. \A s \in Sub \ (subscribers \cup closed)' : Untouched(s)'
    BY <2>1 DEF HubInv, HubTypeOK, Untouched
  <2>7. \A s \in subscribers' : Accounted(s)'
    BY <2>1, <2>4 DEF HubInv, HubTypeOK, Accounted
  <2>8. QED
    BY <2>5, <2>6, <2>7 DEF HubInv
<1>4. ASSUME NEW c \in Caster, Broadcast(c) PROVE HubInv'
  BY <1>4, BroadcastKeeps
<1>5. ASSUME NEW c \in Caster, NEW s \in Sub, Send(c, s) PROVE HubInv'
  BY <1>5, SendKeeps
<1>6. ASSUME NEW c \in Caster, Return(c) PROVE HubInv'
  <2>1. /\ casting[c].left = {} /\ casting' = [casting EXCEPT ![c] = Idle]
        /\ UNCHANGED <<since, subscribers, buf, count, closed, received, missed>>
    BY <1>6 DEF Return
  <2>2. /\ casting'[c].ev = 0 /\ casting'[c].left = {}
        /\ \A d \in Caster : d # c => casting'[d] = casting[d]
    BY <2>1 DEF HubInv, HubTypeOK, Idle
  <2>3. \A s \in Sub : UnderWay(s)' = UnderWay(s) /\ Seen(s)' = Seen(s)
    BY <2>1, <2>2 DEF UnderWay, Seen
  <2>4. HubTypeOK'
    BY <2>1 DEF HubInv, HubTypeOK, Idle
  <2>5. CastsDistinct'
    BY <2>1, <2>2 DEF HubInv, HubTypeOK, CastsDistinct
  <2>6. \A s \in Sub \ (subscribers \cup closed)' : Untouched(s)'
    BY <2>1, <2>2 DEF HubInv, Untouched
  <2>7. \A s \in subscribers' : Accounted(s)'
    BY <2>1, <2>3 DEF HubInv, HubTypeOK, Accounted
  <2>8. QED
    BY <2>4, <2>5, <2>6, <2>7 DEF HubInv
<1>7. CASE UNCHANGED hubVars
  <2>1. /\ HubTypeOK' /\ CastsDistinct'
        /\ UNCHANGED <<subscribers, closed, since, count, missed>>
    BY <1>7 DEF hubVars, HubInv, HubTypeOK, CastsDistinct
  <2>2. \A s \in Sub : UNCHANGED <<Seen(s), UnderWay(s)>> /\ (Untouched(s) => Untouched(s)')
    BY <1>7 DEF hubVars, Seen, UnderWay, Untouched
  <2>3. \A s \in subscribers' : Accounted(s)'
    BY <2>1, <2>2 DEF HubInv, HubTypeOK, Accounted
  <2>4. QED
    BY <2>1, <2>2, <2>3 DEF HubInv
<1>8. QED
  BY <1>1, <1>2, <1>3, <1>4, <1>5, <1>6, <1>7 DEF HubNext

\* The invariant holds at start-up.
LEMMA HubStart == HubInit => HubInv
<1>1. SUFFICES ASSUME HubInit PROVE HubInv
  OBVIOUS
<1>2. /\ count \in Nat /\ subscribers = {} /\ buf = [s \in Sub |-> <<>>]
      /\ casting = [c \in Caster |-> Idle] /\ since = [s \in Sub |-> 0] /\ closed = {}
      /\ received = [s \in Sub |-> <<>>] /\ missed = [s \in Sub |-> {}]
  BY <1>1, HubAssumption DEF HubInit
<1>3. HubTypeOK
  BY <1>2 DEF HubTypeOK, Idle
<1>4. CastsDistinct
  BY <1>2 DEF CastsDistinct, Idle
<1>5. \A s \in Sub : Untouched(s)
  BY <1>2 DEF Untouched, Idle
<1>6. QED
  BY <1>2, <1>3, <1>4, <1>5 DEF HubInv

\* A subscriber is sent every event broadcast while it is subscribed exactly once, or the
\* hub knows that its channel was full, for any number of workers that broadcast at once.
THEOREM EachEventOnceTheorem == HubSpec => []EachEventOnce
<1>1. HubInv => EachEventOnce
  BY DEF HubInv, Accounted, EachEventOnce
<1>2. QED
  BY <1>1, HubStart, HubStep, PTL DEF HubSpec

-----------------------------------------------------------------------------
(* The live feed *)

\* The rows a client's history is read from, and what it replays of them, hold every event
\* broadcast before it subscribed, but for those not stored yet and those beyond the limit.
HistoryOK(s) ==
    /\ ws[s].at \in {"load", "replay", "live"} => s \in subscribers
    /\ ws[s].at = "load" => 1..since[s] \subseteq ws[s].early \cup Range(rows)
    /\ ws[s].at \in {"replay", "live"} =>
         1..since[s] \subseteq Range(ws[s].replay) \cup ws[s].early \cup ws[s].trimmed

\* The types of the tables and of what each client replays.
FeedTypeOK ==
    /\ rows \in Seq(Nat) /\ insertQ \in Seq(Nat)
    /\ ws \in [Sub -> [at : {"new", "load", "replay", "live", "gone"}, replay : Seq(Nat),
                       early : SUBSET Nat, trimmed : SUBSET Nat]]

\* The inductive invariant: the history of each client joins the events of its channel.
FeedInv == HubInv /\ FeedTypeOK /\ \A s \in Sub : HistoryOK(s)

\* A sequence cut in two has the elements of both parts.
LEMMA CutRange ==
    ASSUME NEW S, NEW s \in Seq(S), NEW n \in 0..Len(s)
    PROVE  /\ SubSeq(s, 1, n) \in Seq(S) /\ SubSeq(s, n + 1, Len(s)) \in Seq(S)
           /\ Range(s) \subseteq Range(SubSeq(s, 1, n)) \cup Range(SubSeq(s, n + 1, Len(s)))
<1> DEFINE a == SubSeq(s, 1, n)
           b == SubSeq(s, n + 1, Len(s))
<1>1. /\ a \in Seq(S) /\ b \in Seq(S) /\ Len(a) = n /\ Len(b) = Len(s) - n
      /\ \A i \in 1..n : a[i] = s[i]
      /\ \A i \in 1..(Len(s) - n) : b[i] = s[n + i]
  OBVIOUS
<1>2. DOMAIN s = 1..Len(s) /\ DOMAIN a = 1..n /\ DOMAIN b = 1..(Len(s) - n) /\ Len(s) \in Nat
  BY <1>1
<1> HIDE DEF a, b
<1>3. ASSUME NEW i \in 1..Len(s) PROVE s[i] \in Range(a) \cup Range(b)
  <2>1. CASE i <= n
    BY <1>1, <1>2, <2>1 DEF Range
  <2>2. CASE i > n
    <3>1. i - n \in 1..(Len(s) - n) /\ n + (i - n) = i
      BY <1>2, <2>2
    <3>2. QED
      BY <1>1, <1>2, <3>1 DEF Range
  <2>3. QED
    BY <1>2, <2>1, <2>2
<1>4. Range(s) \subseteq Range(a) \cup Range(b)
  BY <1>2, <1>3 DEF Range
<1>5. QED
  BY <1>1, <1>4 DEF a, b

\* A concatenation keeps the elements of its first part.
LEMMA ConcatRange ==
    ASSUME NEW S, NEW s \in Seq(S), NEW t \in Seq(S)
    PROVE  s \o t \in Seq(S) /\ Range(s) \subseteq Range(s \o t)
<1>1. /\ s \o t \in Seq(S) /\ Len(s \o t) = Len(s) + Len(t) /\ Len(s) \in Nat /\ Len(t) \in Nat
      /\ \A i \in 1..Len(s) : (s \o t)[i] = s[i]
      /\ DOMAIN s = 1..Len(s) /\ DOMAIN (s \o t) = 1..Len(s \o t)
  OBVIOUS
<1>2. QED
  BY <1>1 DEF Range

\* A step of the feed is a step of the hub, or leaves the hub alone.
LEMMA FeedIsHub ==
    ASSUME [FeedNext]_feedVars
    PROVE  [HubNext]_hubVars
BY DEF FeedNext, feedVars, Connect, Load, Replayed, Live, Leave, Capture, Insert, Deliver,
       Flush, HubNext, hubVars

\* A step that changes neither the clients nor what was known of the history keeps it.
LEMMA HistorySame ==
    ASSUME NEW s \in Sub, HistoryOK(s), ws'[s] = ws[s], since'[s] = since[s],
           Range(rows) \subseteq Range(rows'), s \in subscribers => s \in subscribers'
    PROVE  HistoryOK(s)'
BY DEF HistoryOK


\* Every step of the feed keeps its invariant.
LEMMA FeedStep ==
    ASSUME FeedInv, [FeedNext]_feedVars
    PROVE  FeedInv'
<1> USE DEF FeedInv
<1>1. HubInv'
  BY FeedIsHub, HubStep
<1>2. /\ rows \in Seq(Nat) /\ insertQ \in Seq(Nat) /\ \A s \in Sub : HistoryOK(s)
      /\ ws \in [Sub -> [at : {"new", "load", "replay", "live", "gone"}, replay : Seq(Nat),
                         early : SUBSET Nat, trimmed : SUBSET Nat]]
      /\ count \in Nat /\ since \in [Sub -> Nat]
  BY DEF FeedTypeOK, HubInv, HubTypeOK
<1>3. ASSUME NEW q \in Sub, Connect(q) PROVE FeedTypeOK' /\ \A s \in Sub : HistoryOK(s)'
  <2>1. /\ subscribers' = subscribers \cup {q} /\ since' = [since EXCEPT ![q] = count]
        /\ ws' = [ws EXCEPT ![q].at = "load", ![q].early = 1..count \ Range(rows)]
        /\ insertQ' = insertQ /\ rows' = rows
    BY <1>3 DEF Connect, Subscribe
  <2>2. 1..count \ Range(rows) \in SUBSET Nat
    BY <1>2
  <2>3. FeedTypeOK'
    BY <1>2, <2>1, <2>2 DEF FeedTypeOK
  <2>4. ASSUME NEW s \in Sub, s # q PROVE HistoryOK(s)'
    <3>1. ws'[s] = ws[s] /\ since'[s] = since[s]
      BY <1>2, <2>1, <2>4
    <3>2. QED
      BY <1>2, <2>1, <3>1, HistorySame
  <2>5. HistoryOK(q)'
    <3>1. /\ ws'[q].at = "load" /\ ws'[q].early = 1..count \ Range(rows)
          /\ since'[q] = count /\ q \in subscribers'
      BY <1>2, <2>1
    <3>2. QED
      BY <2>1, <3>1 DEF HistoryOK
  <2>6. QED
    BY <2>3, <2>4, <2>5
<1>4. ASSUME NEW q \in Sub, Load(q) PROVE FeedTypeOK' /\ \A s \in Sub : HistoryOK(s)'
  <2>1. PICK most \in {0, MaxReplay} :
          LET cut == IF Len(rows) > most THEN Len(rows) - most ELSE 0
          IN  ws' = [ws EXCEPT ![q] = [at |-> "replay",
                                       replay |-> SubSeq(rows, cut + 1, Len(rows)),
                                       early |-> @.early \ Range(rows),
                                       trimmed |-> Range(SubSeq(rows, 1, cut))]]
    BY <1>4 DEF Load
  <2> DEFINE cut == IF Len(rows) > most THEN Len(rows) - most ELSE 0
             older == SubSeq(rows, 1, cut)
             newer == SubSeq(rows, cut + 1, Len(rows))
             after == [at |-> "replay", replay |-> newer, early |-> ws[q].early \ Range(rows),
                       trimmed |-> Range(older)]
  <2>2. /\ ws' = [ws EXCEPT ![q] = after] /\ ws[q].at = "load"
        /\ UNCHANGED <<rows, insertQ, since, subscribers>>
    BY <1>4, <2>1 DEF Load, hubVars
  <2>3. cut \in 0..Len(rows)
    BY <1>2, <2>1, FeedAssumption
  <2> HIDE DEF cut
  <2>4. /\ older \in Seq(Nat) /\ newer \in Seq(Nat)
        /\ Range(rows) \subseteq Range(older) \cup Range(newer)
    BY <1>2, <2>3, CutRange
  <2> HIDE DEF older, newer
  <2>5. Range(older) \in SUBSET Nat
    BY <2>4 DEF Range
  <2>6. ws'[q] = after /\ \A s \in Sub : s # q => ws'[s] = ws[s]
    BY <1>2, <2>2
  <2>7. FeedTypeOK'
    <3>1. after \in [at : {"new", "load", "replay", "live", "gone"}, replay : Seq(Nat),
                     early : SUBSET Nat, trimmed : SUBSET Nat]
      BY <1>2, <2>4, <2>5
    <3> HIDE DEF after
    <3>2. QED
      BY <1>2, <2>2, <3>1 DEF FeedTypeOK
  <2>8. \A s \in Sub : s # q => HistoryOK(s)'
    BY <1>2, <2>2, <2>6, HistorySame
  <2>9. HistoryOK(q)'
    <3>1. /\ ws'[q].at = "replay" /\ ws'[q].replay = newer /\ ws'[q].trimmed = Range(older)
          /\ ws'[q].early = ws[q].early \ Range(rows)
      <4>1. /\ after.at = "replay" /\ after.replay = newer /\ after.trimmed = Range(older)
            /\ after.early = ws[q].early \ Range(rows)
        OBVIOUS
      <4> HIDE DEF after
      <4>2. QED
        BY <2>6, <4>1
    <3>2. q \in subscribers' /\ 1..since'[q] \subseteq ws[q].early \cup Range(rows)
      BY <1>2, <2>2 DEF HistoryOK
    <3>3. QED
      BY <2>4, <3>1, <3>2 DEF HistoryOK
  <2>10. QED
    BY <2>7, <2>8, <2>9
<1>5. ASSUME NEW q \in Sub, Replayed(q) PROVE FeedTypeOK' /\ \A s \in Sub : HistoryOK(s)'
  <2>1. /\ ws[q].at = "replay" /\ ws' = [ws EXCEPT ![q].at = "live"]
        /\ UNCHANGED <<rows, insertQ, since, subscribers>>
    BY <1>5 DEF Replayed, hubVars
  <2>2. FeedTypeOK'
    BY <1>2, <2>1 DEF FeedTypeOK
  <2>3. ws'[q] = [ws[q] EXCEPT !.at = "live"] /\ \A s \in Sub : s # q => ws'[s] = ws[s]
    BY <1>2, <2>1
  <2>4. \A s \in Sub : s # q => HistoryOK(s)'
    BY <1>2, <2>1, <2>3, HistorySame
  <2>5. HistoryOK(q)'
    BY <1>2, <2>1, <2>3 DEF HistoryOK
  <2>6. QED
    BY <2>2, <2>4, <2>5
<1>6. ASSUME NEW q \in Sub, Leave(q) PROVE FeedTypeOK' /\ \A s \in Sub : HistoryOK(s)'
  <2>1. /\ ws' = [ws EXCEPT ![q].at = "gone"] /\ subscribers' = subscribers \ {q}
        /\ UNCHANGED <<rows, insertQ, since>>
    BY <1>6 DEF Leave, Unsubscribe
  <2>2. FeedTypeOK'
    BY <1>2, <2>1 DEF FeedTypeOK
  <2>3. ws'[q].at = "gone" /\ \A s \in Sub : s # q => ws'[s] = ws[s]
    BY <1>2, <2>1
  <2>4. \A s \in Sub : s # q => HistoryOK(s)'
    BY <1>2, <2>1, <2>3, HistorySame
  <2>5. HistoryOK(q)'
    BY <2>3 DEF HistoryOK
  <2>6. QED
    BY <2>2, <2>4, <2>5
<1>7. ASSUME Flush PROVE FeedTypeOK' /\ \A s \in Sub : HistoryOK(s)'
  <2>1. PICK n \in 1..Len(insertQ) :
          /\ insertQ' = SubSeq(insertQ, n + 1, Len(insertQ))
          /\ rows' \in {rows, rows \o SubSeq(insertQ, 1, n)}
    BY <1>7 DEF Flush
  <2>2. UNCHANGED <<ws, since, subscribers>>
    BY <1>7 DEF Flush, hubVars
  <2>3. n \in 0..Len(insertQ)
    BY <1>2, <2>1
  <2>4. SubSeq(insertQ, 1, n) \in Seq(Nat) /\ insertQ' \in Seq(Nat)
    BY <1>2, <2>1, <2>3, CutRange
  <2>5. rows' \in Seq(Nat) /\ Range(rows) \subseteq Range(rows')
    <3>1. /\ rows \o SubSeq(insertQ, 1, n) \in Seq(Nat)
          /\ Range(rows) \subseteq Range(rows \o SubSeq(insertQ, 1, n))
      BY <1>2, <2>4, ConcatRange
    <3>2. QED
      BY <1>2, <2>1, <3>1
  <2>6. FeedTypeOK'
    BY <1>2, <2>2, <2>4, <2>5 DEF FeedTypeOK
  <2>7. QED
    BY <1>2, <2>2, <2>5, <2>6, HistorySame
<1>8. ASSUME NEW c \in Caster, Insert(c) PROVE FeedTypeOK' /\ \A s \in Sub : HistoryOK(s)'
  <2>1. /\ insertQ' \in {insertQ, Append(insertQ, casting[c].ev)}
        /\ UNCHANGED <<rows, ws, since, subscribers>>
    BY <1>8 DEF Insert, Return
  <2>2. casting[c].ev \in Nat
    BY DEF HubInv, HubTypeOK
  <2>3. insertQ' \in Seq(Nat)
    <3>1. Append(insertQ, casting[c].ev) \in Seq(Nat)
      BY <1>2, <2>2, AppendIsConcat
    <3>2. QED
      BY <1>2, <2>1, <3>1
  <2>4. QED
    BY <1>2, <2>1, <2>3, HistorySame DEF FeedTypeOK
<1>9. ASSUME UNCHANGED <<insertQ, rows, ws, since, subscribers>>
      PROVE  FeedTypeOK' /\ \A s \in Sub : HistoryOK(s)'
  BY <1>2, <1>9, HistorySame DEF FeedTypeOK
<1>10. \/ \E s \in Sub : Connect(s) \/ Load(s) \/ Replayed(s) \/ Leave(s)
       \/ Flush \/ \E c \in Caster : Insert(c)
       \/ UNCHANGED <<insertQ, rows, ws, since, subscribers>>
  BY DEF FeedNext, feedVars, hubVars, Live, Receive, Capture, Broadcast, Deliver, Send
<1>11. QED
  BY <1>1, <1>3, <1>4, <1>5, <1>6, <1>7, <1>8, <1>9, <1>10

\* handleWS: a client that subscribes before it reads the history misses no event between
\* the replay and the live events.
THEOREM FeedHasNoGapTheorem == FeedSpec => []FeedHasNoGap
<1>1. FeedInit => FeedInv
  <2>1. SUFFICES ASSUME FeedInit PROVE FeedInv
    OBVIOUS
  <2>2. HubInv
    BY <2>1, HubStart DEF FeedInit
  <2>3. /\ count \in Nat /\ insertQ = <<>> /\ rows = [i \in 1..count |-> i]
        /\ ws = [s \in Sub |-> [at |-> "new", replay |-> <<>>, early |-> {}, trimmed |-> {}]]
    BY <2>1, <2>2 DEF FeedInit, HubInv, HubTypeOK
  <2>4. FeedTypeOK
    BY <2>3 DEF FeedTypeOK
  <2>5. QED
    BY <2>2, <2>3, <2>4 DEF FeedInv, HistoryOK
<1>2. FeedInv => FeedHasNoGap
  <2>1. SUFFICES ASSUME FeedInv, NEW s \in Sub, ws[s].at \in {"replay", "live"},
                        NEW e \in 1..count
                 PROVE  e \in Range(ws[s].replay) \cup Range(Seen(s)) \cup UnderWay(s)
                               \cup missed[s] \cup ws[s].early \cup ws[s].trimmed
    BY DEF FeedHasNoGap
  <2>2. /\ 1..since[s] \subseteq Range(ws[s].replay) \cup ws[s].early \cup ws[s].trimmed
        /\ s \in subscribers
    BY <2>1 DEF FeedInv, HistoryOK
  <2>3. Range(Seen(s)) \cup UnderWay(s) \cup missed[s] = since[s] + 1 .. count
    BY <2>1, <2>2 DEF FeedInv, HubInv, Accounted
  <2>4. since[s] \in Nat /\ count \in Nat
    BY <2>1 DEF FeedInv, HubInv, HubTypeOK
  <2>5. e \in 1..since[s] \/ e \in since[s] + 1 .. count
    BY <2>4
  <2>6. QED
    BY <2>2, <2>3, <2>5
<1>3. QED
  BY <1>1, <1>2, FeedStep, PTL DEF FeedSpec

-----------------------------------------------------------------------------
(* Resolver *)

\* QueuedExact, with what is needed of the types and of the single worker: it resolves
\* one address at a time.
ResInv ==
    /\ work \in Seq(Ip)
    /\ \A r, s \in resolving : r = s
    /\ QueuedExact

\* Receiving takes the first address out of the set of those that wait.
LEMMA TailDistinct ==
    ASSUME NEW s \in Seq(Ip), s # <<>>, IsInjective(s)
    PROVE  /\ Tail(s) \in Seq(Ip)
           /\ IsInjective(Tail(s))
           /\ Range(s) = Range(Tail(s)) \cup {Head(s)}
           /\ Head(s) \notin Range(Tail(s))
           /\ Len(Tail(s)) <= Len(s)
<1> DEFINE t == Tail(s)
<1>1. /\ t \in Seq(Ip) /\ Len(s) \in Nat /\ Len(s) >= 1
      /\ DOMAIN s = 1 .. Len(s) /\ DOMAIN t = 1 .. (Len(s) - 1) /\ Len(t) = Len(s) - 1
      /\ \A i \in 1 .. (Len(s) - 1) : t[i] = s[i + 1]
      /\ Head(s) = s[1]
  OBVIOUS
<1>2. \A i, j \in 1 .. Len(s) : s[i] = s[j] => i = j
  BY <1>1 DEF IsInjective
<1>3. IsInjective(t)
  <2>1. \A i, j \in 1 .. (Len(s) - 1) : t[i] = t[j] => i + 1 = j + 1
    BY <1>1, <1>2
  <2>2. QED
    BY <1>1, <2>1 DEF IsInjective
<1>4. Head(s) \notin Range(t)
  BY <1>1, <1>2 DEF Range
<1>5. Range(s) = Range(t) \cup {Head(s)}
  <2>1. Range(t) \cup {Head(s)} \subseteq Range(s)
    BY <1>1 DEF Range
  <2>2. ASSUME NEW i \in 1 .. Len(s) PROVE s[i] \in Range(t) \cup {Head(s)}
    <3>1. CASE i = 1
      BY <1>1, <3>1
    <3>2. CASE i # 1
      <4>1. i - 1 \in 1 .. (Len(s) - 1) /\ t[i - 1] = s[i]
        BY <1>1, <3>2
      <4>2. QED
        BY <1>1, <4>1 DEF Range
    <3>3. QED
      BY <3>1, <3>2
  <2>3. QED
    BY <1>1, <2>1, <2>2 DEF Range
<1>6. QED
  BY <1>1, <1>3, <1>4, <1>5

\* An empty channel holds no address.
LEMMA NothingWaits ==
    /\ <<>> \in Seq(Ip) /\ Len(<<>>) <= QueueSize
    /\ Range(<<>>) = {} /\ IsInjective(<<>>)
<1>1. <<>> \in Seq(Ip) /\ Len(<<>>) = 0 /\ DOMAIN <<>> = {}
  OBVIOUS
<1>2. Range(<<>>) = {} /\ IsInjective(<<>>)
  BY <1>1 DEF Range, IsInjective
<1>3. QED
  BY <1>1, <1>2, ResolverAssumption

\* Every step of Lookup, loop, Close, the clock and a restart keeps the invariant.
LEMMA ResStep ==
    ASSUME ResInv, [ResNext]_resVars
    PROVE  ResInv'
<1> USE ResolverAssumption
<1>1. ASSUME NEW ip \in Ip, Lookup(ip)
      PROVE  ResInv'
  <2>1. /\ ip \notin queued /\ Len(work) < QueueSize
        /\ work' = Append(work, ip) /\ queued' = queued \cup {ip} /\ resolving' = resolving
    BY <1>1 DEF Lookup
  <2>2. ip \notin Range(work) /\ \A r \in resolving : r.ip # ip
    BY <2>1 DEF ResInv, QueuedExact
  <2>3. work' \in Seq(Ip) /\ IsInjective(work') /\ Range(work') = Range(work) \cup {ip}
        /\ Len(work') = Len(work) + 1
    BY <2>1, <2>2, AppendDistinct DEF ResInv, QueuedExact
  <2>4. Len(work') <= QueueSize
    BY <2>1, <2>3 DEF ResInv
  <2>5. queued' = Range(work') \cup {r.ip : r \in resolving'}
    BY <2>1, <2>3 DEF ResInv, QueuedExact
  <2>6. \A r \in resolving' : r.ip \notin Range(work')
    BY <2>1, <2>2, <2>3 DEF ResInv, QueuedExact
  <2>7. QED
    BY <2>1, <2>3, <2>4, <2>5, <2>6 DEF ResInv, QueuedExact
<1>2. CASE Take
  <2>1. /\ work # <<>> /\ resolving = {} /\ work' = Tail(work) /\ queued' = queued
    BY <1>2 DEF Take
  <2>2. PICK new, updated : resolving' = {[ip |-> Head(work), new |-> new, updated |-> updated]}
    BY <1>2 DEF Take
  <2>3. /\ work' \in Seq(Ip) /\ IsInjective(work')
        /\ Range(work) = Range(work') \cup {Head(work)} /\ Head(work) \notin Range(work')
        /\ Len(work') <= Len(work)
    BY <2>1, TailDistinct DEF ResInv, QueuedExact
  <2>4. {r.ip : r \in resolving'} = {Head(work)}
    BY <2>2
  <2>5. queued' = Range(work') \cup {r.ip : r \in resolving'}
    BY <2>1, <2>3, <2>4 DEF ResInv, QueuedExact
  <2>6. Len(work') <= QueueSize
    <3>1. Len(work) <= QueueSize /\ work \in Seq(Ip)
      BY DEF ResInv, QueuedExact
    <3>2. Len(work) \in Nat /\ Len(work') \in Nat
      BY <2>3, <3>1
    <3>3. QED
      BY <2>3, <3>1, <3>2
  <2>7. \A r \in resolving' : r.ip \notin Range(work')
    BY <2>2, <2>3
  <2>8. \A r, s \in resolving' : r = s
    BY <2>2
  <2>9. QED
    BY <2>3, <2>5, <2>6, <2>7, <2>8 DEF ResInv, QueuedExact
<1>3. ASSUME NEW r \in resolving, Resolved(r)
      PROVE  ResInv'
  <2>1. resolving' = {} /\ work' = work /\ queued' = queued \ {r.ip}
    BY <1>3 DEF Resolved
  <2>2. {s.ip : s \in resolving} = {r.ip}
    BY <1>3 DEF ResInv
  <2>3. queued' = Range(work')
    BY <1>3, <2>1, <2>2 DEF ResInv, QueuedExact
  <2>4. QED
    BY <2>1, <2>3 DEF ResInv, QueuedExact
<1>4. CASE Restart
  <2>1. work' = <<>> /\ queued' = {} /\ resolving' = {}
    BY <1>4 DEF Restart
  <2>2. QED
    BY <2>1, NothingWaits DEF ResInv, QueuedExact
<1>5. CASE CloseResolver \/ ResTick \/ UNCHANGED resVars
  <2>1. UNCHANGED <<work, queued, resolving>>
    BY <1>5 DEF CloseResolver, ResTick, resVars
  <2>2. QED
    BY <2>1 DEF ResInv, QueuedExact
<1>6. QED
  BY <1>1, <1>2, <1>3, <1>4, <1>5 DEF ResNext, ResWork

-----------------------------------------------------------------------------
\* An address is marked as queued exactly while it waits in the channel or is being
\* resolved, and waits at most once, whatever the order of Lookup, the loop and restarts.
THEOREM MarksMatchQueue == ResSpec => []QueuedExact
<1>1. ResInit => ResInv
  BY NothingWaits DEF ResInit, ResInv, QueuedExact
<1>2. ResInv => QueuedExact
  BY DEF ResInv
<1>3. QED
  BY <1>1, <1>2, ResStep, PTL DEF ResSpec

=============================================================================
