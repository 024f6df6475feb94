-------------------------- MODULE CollectionProofs --------------------------
(*************************************************************************)
(* What the collectors put into their bounded lists they take out again: *)
(* the live queue of a chain serves each pool in its order and starves   *)
(* none (LiveQueue), and the buffered writer of a market stream loses    *)
(* nothing on the way to the database (MarketWriter).  What the recent   *)
(* scan certifies of a pool's blocks it holds (LiveMarket).              *)
(*************************************************************************)
EXTENDS LiveQueue, MarketWriter, LiveMarket, FiniteSetTheorems,
        SequenceTheorems, WellFoundedInduction, TLAPS

-----------------------------------------------------------------------------
(* Numbers and lists.                                                       *)

\* A set of numbers that is not empty has a lowest one, and Min is it.
LEMMA MinIs ==
  ASSUME NEW S, S \subseteq Nat, S # {}
  PROVE  Min(S) \in S /\ \A y \in S : Min(S) <= y
<1>1. IsWellFoundedOn(OpToRel(<, Nat), Nat)
  BY NatLessThanWellFounded
<1>2. PICK x \in S : \A y \in S : ~(<<y, x>> \in OpToRel(<, Nat))
  BY <1>1, WFMin
<1>3. \A y \in S : x <= y
  <2> TAKE y \in S
  <2>1. y \in Nat /\ x \in Nat
    OBVIOUS
  <2>2. ~(<<y, x>> \in OpToRel(<, Nat))
    BY <1>2
  <2> QED
    BY <2>1, <2>2 DEF OpToRel
<1> QED
  BY <1>3 DEF Min

\* A bounded one has a highest, at the lowest distance from the bound.
LEMMA MaxIs ==
  ASSUME NEW n \in Nat, NEW S, S \subseteq 0..n, S # {}
  PROVE  Max(S) \in S /\ \A y \in S : Max(S) >= y
<1> DEFINE D == {n - x : x \in S}
<1>1. D # {} /\ D \subseteq Nat
  <2>1. \A x \in S : n - x \in Nat
    OBVIOUS
  <2> QED
    BY <2>1
<1>2. PICK d \in D : \A e \in D : d <= e
  <2> HIDE DEF D
  <2> QED
    BY <1>1, MinIs
<1>3. PICK x \in S : d = n - x
  BY <1>2
<1>4. \A y \in S : x >= y
  <2> TAKE y \in S
  <2>1. n - y \in D
    OBVIOUS
  <2>2. d <= n - y
    BY <1>2, <2>1
  <2> QED
    BY <1>3, <2>2
<1> QED
  BY <1>4 DEF Max

\* A sequence without its i-th element.
LEMMA RemoveAtIs ==
  ASSUME NEW T, NEW s \in Seq(T), NEW i \in DOMAIN s
  PROVE  /\ RemoveAt(s, i) \in Seq(T)
         /\ Len(RemoveAt(s, i)) = Len(s) - 1
         /\ \A k \in 1..(Len(s) - 1) : RemoveAt(s, i)[k] = IF k < i THEN s[k] ELSE s[k + 1]
<1>1. i \in 1..Len(s) /\ Len(s) \in Nat
  OBVIOUS
<1> DEFINE a == SubSeq(s, 1, i - 1)
           b == SubSeq(s, i + 1, Len(s))
<1>2. a \in Seq(T) /\ Len(a) = i - 1 /\ \A k \in 1..(i - 1) : a[k] = s[k]
  BY <1>1
<1>3. b \in Seq(T) /\ Len(b) = Len(s) - i /\ \A k \in 1..(Len(s) - i) : b[k] = s[k + i]
  BY <1>1
<1> HIDE DEF a, b
<1>4. RemoveAt(s, i) = a \o b
  BY DEF RemoveAt, a, b
<1> QED
  BY <1>1, <1>2, <1>3, <1>4

\* Appending keeps what is there.
LEMMA AppendIs ==
  ASSUME NEW T, NEW s \in Seq(T), NEW e \in T
  PROVE  /\ Append(s, e) \in Seq(T)
         /\ Len(Append(s, e)) = Len(s) + 1
         /\ \A k \in 1..(Len(s) + 1) : Append(s, e)[k] = IF k <= Len(s) THEN s[k] ELSE e
OBVIOUS

\* What a sequence holds, appended to, joined and split.
LEMMA RangesOf ==
  ASSUME NEW T, NEW s \in Seq(T)
  PROVE  /\ Range(s) \subseteq T
         /\ s = <<>> <=> Range(s) = {}
         /\ \A e \in T : Append(s, e) \in Seq(T) /\ Range(Append(s, e)) = Range(s) \cup {e}
         /\ \A t \in Seq(T) : s \o t \in Seq(T) /\ Range(s \o t) = Range(s) \cup Range(t)
<1>1. Range(s) \subseteq T
  BY DEF Range
<1>2. s = <<>> <=> Range(s) = {}
  <2>1. Len(s) # 0 => 1 \in DOMAIN s /\ s[1] \in Range(s)
    BY DEF Range
  <2>2. s = <<>> => Range(s) = {}
    BY DEF Range
  <2> QED
    BY <2>1, <2>2
<1>3. ASSUME NEW e \in T
      PROVE  Append(s, e) \in Seq(T) /\ Range(Append(s, e)) = Range(s) \cup {e}
  <2> DEFINE u == Append(s, e)
  <2>1. /\ u \in Seq(T) /\ Len(u) = Len(s) + 1 /\ Len(s) \in Nat
        /\ \A k \in 1..(Len(s) + 1) : u[k] = IF k <= Len(s) THEN s[k] ELSE e
    BY AppendIs
  <2> HIDE DEF u
  <2>2. Range(u) \subseteq Range(s) \cup {e}
    BY <2>1 DEF Range
  <2>3. Range(s) \subseteq Range(u) /\ e \in Range(u)
    BY <2>1 DEF Range
  <2> QED
    BY <2>1, <2>2, <2>3 DEF u
<1>4. ASSUME NEW t \in Seq(T)
      PROVE  s \o t \in Seq(T) /\ Range(s \o t) = Range(s) \cup Range(t)
  <2> DEFINE u == s \o t
  <2>1. /\ u \in Seq(T) /\ Len(u) = Len(s) + Len(t) /\ Len(s) \in Nat /\ Len(t) \in Nat
        /\ \A k \in 1..Len(s) : u[k] = s[k]
        /\ \A k \in 1..Len(t) : u[Len(s) + k] = t[k]
    OBVIOUS
  <2> HIDE DEF u
  <2>2. Range(u) \subseteq Range(s) \cup Range(t)
    <3> SUFFICES ASSUME NEW k \in 1..Len(u)
                 PROVE  u[k] \in Range(s) \cup Range(t)
      BY <2>1 DEF Range
    <3>1. CASE k <= Len(s)
      BY <2>1, <3>1 DEF Range
    <3>2. CASE k > Len(s)
      <4>1. k - Len(s) \in 1..Len(t) /\ u[k] = t[k - Len(s)]
        BY <2>1, <3>2
      <4> QED
        BY <4>1 DEF Range
    <3> QED
      BY <2>1, <3>1, <3>2
  <2>3. Range(s) \subseteq Range(u)
    BY <2>1 DEF Range
  <2>4. Range(t) \subseteq Range(u)
    <3> SUFFICES ASSUME NEW k \in 1..Len(t)
                 PROVE  t[k] \in Range(u)
      BY <2>1 DEF Range
    <3>1. Len(s) + k \in DOMAIN u /\ u[Len(s) + k] = t[k]
      BY <2>1
    <3> QED
      BY <3>1 DEF Range
  <2> QED
    BY <2>1, <2>2, <2>3, <2>4 DEF u
<1> QED
  BY <1>1, <1>2, <1>3, <1>4

LEMMA EmptyList ==
  ASSUME NEW T
  PROVE  <<>> \in Seq(T) /\ Range(<<>>) = {}
<1>1. <<>> \in Seq(T)
  OBVIOUS
<1> QED
  BY <1>1, RangesOf

LEMMA SplitIs ==
  ASSUME NEW T, NEW s \in Seq(T), NEW n \in 1..Len(s)
  PROVE  /\ SubSeq(s, 1, n) \in Seq(T) /\ SubSeq(s, n + 1, Len(s)) \in Seq(T)
         /\ Len(SubSeq(s, n + 1, Len(s))) <= Len(s)
         /\ Range(SubSeq(s, 1, n)) \cup Range(SubSeq(s, n + 1, Len(s))) = Range(s)
<1> DEFINE a == SubSeq(s, 1, n)
           b == SubSeq(s, n + 1, Len(s))
<1>1. /\ a \in Seq(T) /\ Len(a) = n /\ n \in Nat /\ Len(s) \in Nat
      /\ \A k \in 1..n : a[k] = s[k]
  OBVIOUS
<1>2. /\ b \in Seq(T) /\ Len(b) = Len(s) - n
      /\ \A k \in 1..(Len(s) - n) : b[k] = s[k + n]
  OBVIOUS
<1> HIDE DEF a, b
<1>3. Range(a) \subseteq Range(s) /\ Range(b) \subseteq Range(s)
  <2>1. Range(a) \subseteq Range(s)
    BY <1>1 DEF Range
  <2>2. \A k \in 1..Len(b) : k + n \in 1..Len(s) /\ b[k] = s[k + n]
    BY <1>1, <1>2
  <2>3. Range(b) \subseteq Range(s)
    <3>1. DOMAIN s = 1..Len(s) /\ DOMAIN b = 1..Len(b)
      BY <1>2
    <3> QED
      BY <2>2, <3>1 DEF Range
  <2> QED
    BY <2>1, <2>3
<1>4. Range(s) \subseteq Range(a) \cup Range(b)
  <2> SUFFICES ASSUME NEW k \in 1..Len(s)
               PROVE  s[k] \in Range(a) \cup Range(b)
    BY DEF Range
  <2>1. CASE k <= n
    BY <1>1, <2>1 DEF Range
  <2>2. CASE k > n
    <3>1. k - n \in 1..(Len(s) - n) /\ b[k - n] = s[k]
      BY <1>1, <1>2, <2>2
    <3> QED
      BY <3>1, <1>2 DEF Range
  <2> QED
    BY <1>1, <2>1, <2>2
<1>5. Len(b) <= Len(s)
  BY <1>1, <1>2
<1>6. Range(a) \cup Range(b) = Range(s)
  BY <1>3, <1>4
<1>7. a \in Seq(T) /\ b \in Seq(T) /\ Len(b) <= Len(s) /\ Range(a) \cup Range(b) = Range(s)
  BY <1>1, <1>2, <1>5, <1>6
<1> QED
  BY <1>7, Zenon DEF a, b

-----------------------------------------------------------------------------
(* The bounded queue of live events (LiveQueue).                            *)

\* What waits of a pool waits in the order of its numbers, behind the event at
\* work or kept apart, and no number is ahead of what the node has sent.
OrderInv ==
  /\ busy = NoEvent \/ retry = NoEvent
  /\ \A i, j \in DOMAIN queue : i < j /\ queue[i].pool = queue[j].pool => queue[i].n < queue[j].n
  /\ \A i \in DOMAIN queue : queue[i].n <= sent[queue[i].pool]
  /\ \A e \in {busy, retry} \ {NoEvent} : e.n <= sent[e.pool]
  /\ PoolOrder

\* Whoever passes over a cold event is counted in the burst.
BurstInv == passed <= burst /\ passed <= BurstMax

QueueInv == QueueTypeOK /\ OrderInv /\ BurstInv

\* The selected event is the oldest of its pool; a watched one is taken past a
\* cold one only within the burst.
LEMMA SelectedIs ==
  ASSUME QueueTypeOK, queue # <<>>
  PROVE  /\ Selected \in Heads
         /\ Hot(Selected) /\ Cold # {} => burst < BurstMax
<1> USE QueueAssumption
<1>1. 1 \in DOMAIN queue
  BY DEF QueueTypeOK
<1>2. 1 \in Heads
  BY <1>1 DEF Heads
<1>3. Heads \subseteq Nat /\ Heads \subseteq DOMAIN queue
  BY DEF Heads, QueueTypeOK
<1>4. Cold \subseteq Heads /\ \A i \in Cold : ~Hot(i)
  BY DEF Cold
<1>5. Removal # 0 => Removal \in Heads
  <2> DEFINE S == {i \in Heads : queue[i].removed}
  <2>1. S # {} => Min(S) \in S
    <3> HIDE DEF S
    <3>1. S \subseteq Nat
      BY <1>3 DEF S
    <3> QED
      BY <3>1, MinIs
  <2> QED
    BY <2>1 DEF Removal, FirstOf
<1>6. Cold # {} => Min(Cold) \in Cold
  <2>1. Cold \subseteq Nat
    BY <1>3, <1>4
  <2> QED
    BY <2>1, MinIs
<1>7. Heads \ Cold # {} => Min(Heads \ Cold) \in Heads \ Cold
  <2> DEFINE S == Heads \ Cold
  <2>1. S \subseteq Nat
    BY <1>3
  <2> HIDE DEF S
  <2>2. S # {} => Min(S) \in S
    BY <2>1, MinIs
  <2> QED
    BY <2>2 DEF S
<1>8. burst \in Nat /\ BurstMax \in Nat
  BY DEF QueueTypeOK
<1>9. CASE watched = {}
  <2>1. Selected = 1 /\ ~Hot(1)
    BY <1>9 DEF Selected, Hot
  <2> QED
    BY <2>1, <1>2
<1>10. CASE watched # {} /\ Removal # 0 /\ RemovalFirst(Removal)
  <2>1. Selected = Removal
    BY <1>10 DEF Selected
  <2> QED
    BY <2>1, <1>5, <1>10 DEF RemovalFirst
<1>11. CASE watched # {} /\ ~(Removal # 0 /\ RemovalFirst(Removal)) /\ burst >= BurstMax /\ Cold # {}
  <2>1. Selected = Min(Cold)
    BY <1>11 DEF Selected
  <2> QED
    BY <2>1, <1>4, <1>6, <1>11
<1>12. CASE watched # {} /\ ~(Removal # 0 /\ RemovalFirst(Removal)) /\ ~(burst >= BurstMax /\ Cold # {})
  <2>1. Selected = IF Heads \ Cold # {} THEN Min(Heads \ Cold) ELSE 1
    BY <1>12 DEF Selected
  <2>2. Selected \in Heads
    BY <2>1, <1>2, <1>7
  <2> QED
    BY <2>2, <1>8, <1>12
<1> QED
  BY <1>9, <1>10, <1>11, <1>12

LEMMA TakeLiveKeeps == QueueInv /\ TakeLive => QueueInv'
<1> SUFFICES ASSUME QueueInv, TakeLive
             PROVE  QueueInv'
  OBVIOUS
<1> USE QueueAssumption DEF QueueInv
<1> DEFINE s == Selected
<1>1. s \in Heads /\ (Hot(s) /\ Cold # {} => burst < BurstMax)
  BY SelectedIs DEF TakeLive
<1>2. s \in DOMAIN queue /\ \A j \in 1..s - 1 : queue[j].pool # queue[s].pool
  BY <1>1 DEF Heads
<1> HIDE DEF s
<1>3. /\ busy = NoEvent /\ retry = NoEvent /\ retry' = NoEvent /\ busy' = queue[s]
      /\ queue' = RemoveAt(queue, s) /\ sent' = sent /\ watched' = watched /\ link' = link
      /\ burst' = IF Hot(s) THEN burst + 1 ELSE 0
      /\ passed' = IF ~Hot(s) THEN 0 ELSE IF Cold # {} THEN passed + 1 ELSE passed
  BY DEF TakeLive, s
<1>4. queue \in Seq(LiveEvents) /\ Len(queue) <= QueueMax /\ queue[s] \in LiveEvents /\ Len(queue) \in Nat
  BY <1>2 DEF QueueTypeOK
<1>5. /\ queue' \in Seq(LiveEvents) /\ Len(queue') = Len(queue) - 1
      /\ \A k \in 1..(Len(queue) - 1) : queue'[k] = IF k < s THEN queue[k] ELSE queue[k + 1]
  BY <1>2, <1>3, <1>4, RemoveAtIs
<1> DEFINE old(k) == IF k < s THEN k ELSE k + 1
<1>6. \A k \in DOMAIN queue' : /\ old(k) \in DOMAIN queue /\ old(k) # s /\ queue'[k] = queue[old(k)]
  BY <1>2, <1>4, <1>5
<1>7. \A k, l \in DOMAIN queue' : k < l => old(k) < old(l)
  BY <1>2, <1>4, <1>5
<1> HIDE DEF old
<1>8. QueueTypeOK'
  BY <1>3, <1>4, <1>5 DEF QueueTypeOK
<1>9. BurstInv'
  <2>1. burst \in Nat /\ passed \in Nat /\ passed <= burst /\ passed <= BurstMax /\ BurstMax \in Nat
    BY DEF QueueTypeOK, BurstInv
  <2> QED
    BY <2>1, <1>1, <1>3 DEF BurstInv
<1>10. OrderInv'
  <2>1. busy' = NoEvent \/ retry' = NoEvent
    BY <1>3
  <2>2. \A i, j \in DOMAIN queue' : i < j /\ queue'[i].pool = queue'[j].pool => queue'[i].n < queue'[j].n
    BY <1>6, <1>7 DEF OrderInv
  <2>3. \A i \in DOMAIN queue' : queue'[i].n <= sent'[queue'[i].pool]
    BY <1>3, <1>6 DEF OrderInv
  <2>4. \A e \in {busy', retry'} \ {NoEvent} : e = queue[s]
    BY <1>3
  <2>5. queue[s].n <= sent[queue[s].pool]
    BY <1>2 DEF OrderInv
  <2>6. \A i \in DOMAIN queue' : queue'[i].pool = queue[s].pool => queue'[i].n > queue[s].n
    <3> SUFFICES ASSUME NEW i \in DOMAIN queue', queue'[i].pool = queue[s].pool
                 PROVE  queue'[i].n > queue[s].n
      OBVIOUS
    <3>1. old(i) \in DOMAIN queue /\ old(i) # s /\ queue'[i] = queue[old(i)]
      BY <1>6
    <3>2. s < old(i)
      BY <1>2, <1>4, <3>1
    <3>3. queue[s].n < queue[old(i)].n
      BY <1>2, <3>1, <3>2 DEF OrderInv
    <3>4. queue[s] \in LiveEvents /\ queue[old(i)] \in LiveEvents
      BY <1>2, <1>4, <3>1
    <3>5. queue[s].n \in Nat /\ queue[old(i)].n \in Nat
      BY <3>4 DEF LiveEvents
    <3> QED
      BY <3>1, <3>3, <3>5
  <2> QED
    BY <1>3, <2>1, <2>2, <2>3, <2>4, <2>5, <2>6 DEF OrderInv, PoolOrder
<1> QED
  BY <1>8, <1>9, <1>10

LEMMA ArriveKeeps ==
  ASSUME QueueInv, NEW p \in Pools, NEW removed \in BOOLEAN, Arrive(p, removed)
  PROVE  QueueInv'
<1> USE QueueAssumption DEF QueueInv
<1> DEFINE e == [pool |-> p, n |-> sent[p] + 1, removed |-> removed]
<1>1. /\ sent' = [sent EXCEPT ![p] = @ + 1] /\ sent[p] < MaxEvents
      /\ retry' = retry /\ busy' = busy /\ watched' = watched /\ burst' = burst /\ passed' = passed
  BY DEF Arrive
<1>2. /\ sent \in [Pools -> 0..MaxEvents] /\ queue \in Seq(LiveEvents) /\ Len(queue) \in Nat
      /\ {retry, busy} \subseteq LiveEvents \cup {NoEvent} /\ burst \in Nat /\ passed \in Nat
  BY DEF QueueTypeOK
<1>3. sent' \in [Pools -> 0..MaxEvents] /\ sent'[p] = sent[p] + 1
  BY <1>1, <1>2
<1>4. \A q \in Pools : sent[q] <= sent'[q]
  BY <1>1, <1>2
<1>5. e \in LiveEvents
  BY <1>1, <1>2 DEF LiveEvents
<1>6. BurstInv'
  BY <1>1 DEF BurstInv
<1>7. \A f \in {busy', retry'} \ {NoEvent} : f.n <= sent[f.pool] /\ f.n <= sent'[f.pool] /\ f.pool \in Pools /\ f.n \in Nat
  <2> SUFFICES ASSUME NEW f \in {busy, retry} \ {NoEvent}
               PROVE  f.n <= sent[f.pool] /\ f.n <= sent'[f.pool] /\ f.pool \in Pools /\ f.n \in Nat
    BY <1>1
  <2>1. f \in LiveEvents
    BY <1>2
  <2>2. f.pool \in Pools /\ f.n \in Nat /\ f.n <= sent[f.pool]
    BY <2>1 DEF LiveEvents, OrderInv
  <2>3. sent[f.pool] \in Nat /\ sent'[f.pool] \in Nat /\ sent[f.pool] <= sent'[f.pool]
    BY <2>2, <1>2, <1>3, <1>4
  <2> QED
    BY <2>2, <2>3
<1>8. \A i \in DOMAIN queue : /\ queue[i].pool \in Pools /\ queue[i].n \in Nat
                              /\ queue[i].n <= sent[queue[i].pool] /\ queue[i].n <= sent'[queue[i].pool]
  <2> TAKE i \in DOMAIN queue
  <2>1. queue[i] \in LiveEvents
    BY <1>2
  <2>2. queue[i].pool \in Pools /\ queue[i].n \in Nat /\ queue[i].n <= sent[queue[i].pool]
    BY <2>1 DEF LiveEvents, OrderInv
  <2>3. sent[queue[i].pool] \in Nat /\ sent'[queue[i].pool] \in Nat
    BY <2>2, <1>2, <1>3
  <2> QED
    BY <2>2, <2>3, <1>4
<1>9. CASE ~Room
  <2>1. queue' = queue /\ link' = "down"
    BY <1>9 DEF Arrive
  <2>2. QueueTypeOK'
    BY <2>1, <1>1, <1>3 DEF QueueTypeOK
  <2>3. OrderInv'
    BY <2>1, <1>1, <1>7, <1>8 DEF OrderInv, PoolOrder
  <2> QED
    BY <2>2, <2>3, <1>6
<1>10. CASE Room
  <2> HIDE DEF e
  <2>1. queue' = Append(queue, e) /\ link' = link
    BY <1>10 DEF Arrive, e
  <2>2. /\ queue' \in Seq(LiveEvents) /\ Len(queue') = Len(queue) + 1
        /\ \A k \in 1..(Len(queue) + 1) : queue'[k] = IF k <= Len(queue) THEN queue[k] ELSE e
    BY <2>1, <1>2, <1>5, AppendIs
  <2>3. QueueTypeOK'
    BY <2>1, <2>2, <1>1, <1>3, <1>10 DEF QueueTypeOK, Room
  <2>4. \A k \in DOMAIN queue' : \/ k \in DOMAIN queue /\ queue'[k] = queue[k]
                                 \/ k = Len(queue) + 1 /\ queue'[k] = e
    BY <2>2, <1>2
  <2>5. e.pool = p /\ e.n = sent[p] + 1
    BY DEF e
  <2>6. sent[p] \in Nat
    BY <1>2
  <2>7. \A i, j \in DOMAIN queue' : i < j /\ queue'[i].pool = queue'[j].pool => queue'[i].n < queue'[j].n
    <3> SUFFICES ASSUME NEW i \in DOMAIN queue', NEW j \in DOMAIN queue', i < j,
                        queue'[i].pool = queue'[j].pool
                 PROVE  queue'[i].n < queue'[j].n
      OBVIOUS
    <3>1. i \in DOMAIN queue /\ queue'[i] = queue[i]
      BY <2>2, <2>4, <1>2
    <3>2. CASE j \in DOMAIN queue /\ queue'[j] = queue[j]
      BY <3>1, <3>2 DEF OrderInv
    <3>3. CASE queue'[j] = e
      BY <3>1, <3>3, <2>5, <2>6, <1>8
    <3> QED
      BY <3>2, <3>3, <2>4
  <2>8. \A i \in DOMAIN queue' : queue'[i].n <= sent'[queue'[i].pool]
    BY <2>4, <2>5, <2>6, <1>3, <1>8
  <2>9. PoolOrder'
    <3> SUFFICES ASSUME NEW f \in {busy', retry'} \ {NoEvent}, NEW i \in DOMAIN queue',
                        queue'[i].pool = f.pool
                 PROVE  queue'[i].n > f.n
      BY DEF PoolOrder
    <3>1. CASE i \in DOMAIN queue /\ queue'[i] = queue[i]
      BY <3>1, <1>1 DEF OrderInv, PoolOrder
    <3>2. CASE queue'[i] = e
      BY <3>2, <1>7, <2>5, <2>6
    <3> QED
      BY <3>1, <3>2, <2>4
  <2>10. OrderInv'
    BY <2>7, <2>8, <2>9, <1>1, <1>7 DEF OrderInv
  <2> QED
    BY <2>3, <2>10, <1>6
<1> QED
  BY <1>9, <1>10

\* Every other step leaves the queue and its numbers alone.
LEMMA QueueStep == QueueInv /\ [QueueNext]_queueVars => QueueInv'
<1> SUFFICES ASSUME QueueInv, [QueueNext]_queueVars
             PROVE  QueueInv'
  OBVIOUS
<1> USE QueueAssumption
<1>1. ASSUME NEW p \in Pools, NEW removed \in BOOLEAN, Arrive(p, removed)
      PROVE  QueueInv'
  BY <1>1, ArriveKeeps
<1>2. CASE TakeLive
  BY <1>2, TakeLiveKeeps
<1>3. ASSUME NEW pools \in SUBSET Pools, RefreshWatches(pools)
      PROVE  QueueInv'
  BY <1>3 DEF RefreshWatches, QueueInv, QueueTypeOK, OrderInv, PoolOrder, BurstInv
<1>4. CASE Disconnect \/ Connect \/ Subscribe
  BY <1>4 DEF Disconnect, Connect, Subscribe, QueueInv, QueueTypeOK, OrderInv, PoolOrder, BurstInv
<1>5. CASE TakeRetry
  BY <1>5 DEF TakeRetry, QueueInv, QueueTypeOK, OrderInv, PoolOrder, BurstInv
<1>6. CASE Processed
  BY <1>6 DEF Processed, QueueInv, QueueTypeOK, OrderInv, PoolOrder, BurstInv
<1>7. CASE FailLive
  BY <1>7 DEF FailLive, QueueInv, QueueTypeOK, OrderInv, PoolOrder, BurstInv
<1>8. CASE UNCHANGED queueVars
  BY <1>8 DEF queueVars, QueueInv, QueueTypeOK, OrderInv, PoolOrder, BurstInv
<1> QED
  BY <1>1, <1>2, <1>3, <1>4, <1>5, <1>6, <1>7, <1>8 DEF QueueNext

\* The events of a pool are processed in the order of their arrival, a failed
\* one again before its successors, and no unwatched pool is passed over by
\* more than one burst (take_live_event, process_queued), for any pools,
\* lengths of queue and burst, and any number of events and faults.
THEOREM PoolsServed == QueueSpec => []QueueFair
<1>1. QueueInit => QueueInv
  BY QueueAssumption DEF QueueInit, QueueInv, QueueTypeOK, OrderInv, PoolOrder, BurstInv
<1>2. QueueInv => QueueFair
  BY DEF QueueInv, OrderInv, BurstInv, QueueFair, ColdNotStarved
<1> QED
  BY <1>1, <1>2, QueueStep, PTL DEF QueueSpec

\* Type invariant; the queue never exceeds its limit.
THEOREM QueueTypes == QueueSpec => []QueueTypeOK
<1>1. QueueInit => QueueInv
  BY QueueAssumption DEF QueueInit, QueueInv, QueueTypeOK, OrderInv, PoolOrder, BurstInv
<1>2. QueueInv => QueueTypeOK
  BY DEF QueueInv
<1> QED
  BY <1>1, <1>2, QueueStep, PTL DEF QueueSpec

-----------------------------------------------------------------------------
(* The buffered writer (MarketWriter).                                      *)

Clocks == {"price", "statistics"}
Waiting == Range(pending) \cup Range(inbox)

\* Where the task stands says which of its lists can hold anything.
PhaseInv ==
  /\ pc \notin {"flush", "last"} => todo = {}
  /\ pc \in {"idle", "stopped"} => pending = <<>>
  /\ pc \in {"last", "stopped"} => inbox = <<>>

\* Of each clock: nothing is newer than what was accepted; the newest accepted
\* time is stored or waits; an attempt covers what the batch has of it.
NewestInv ==
  \A f \in Clocks :
    /\ quote[f] <= accepted.quote[f]
    /\ \A q \in QuotesOf(Waiting \cup todo) : q[f] <= accepted.quote[f]
    /\ quote[f] = accepted.quote[f] \/ \E q \in QuotesOf(Waiting) : q[f] = accepted.quote[f]
    /\ pc \in {"flush", "last"} =>
         \A q \in QuotesOf(Range(pending)) : q[f] <= quote[f] \/ \E r \in QuotesOf(todo) : q[f] <= r[f]

TradesInv ==
  /\ accepted.trades \subseteq announced \cup TradesOf(Waiting)
  /\ pc \in {"flush", "last"} => TradesOf(Range(pending)) \subseteq announced \cup TradesOf(todo)
  /\ trades \subseteq announced
  /\ cut = {}

\* What is removed for its age is over a day old.
AgeInv == retention = "expired" => \A i \in candidates : i <= cutoff

MarketInv == MarketTypeOK /\ PhaseInv /\ NewestInv /\ TradesInv /\ AgeInv

LEMMA MessageIs ==
  ASSUME NEW m \in Messages
  PROVE  \/ IsTrade(m) /\ m \in TradeMessages /\ m.trade \in 1..MaxTrades
         \/ ~IsTrade(m) /\ m \in QuoteMessages /\ m.quote \in Quotes /\ m.quote.price > 0
BY DEF Messages, TradeMessages, QuoteMessages, IsTrade

\* The trades and the quotes of a set of messages, and of the union of two.
LEMMA MessagesOf ==
  ASSUME NEW A \in SUBSET Messages
  PROVE  /\ TradesOf(A) \subseteq 1..MaxTrades
         /\ QuotesOf(A) \subseteq {q \in Quotes : q.price > 0}
         /\ \A B : /\ TradesOf(A \cup B) = TradesOf(A) \cup TradesOf(B)
                   /\ QuotesOf(A \cup B) = QuotesOf(A) \cup QuotesOf(B)
<1>1. TradesOf(A) \subseteq 1..MaxTrades
  BY MessageIs DEF TradesOf
<1>2. QuotesOf(A) \subseteq {q \in Quotes : q.price > 0}
  BY MessageIs DEF QuotesOf
<1>3. ASSUME NEW B
      PROVE  /\ TradesOf(A \cup B) = TradesOf(A) \cup TradesOf(B)
             /\ QuotesOf(A \cup B) = QuotesOf(A) \cup QuotesOf(B)
  BY DEF TradesOf, QuotesOf
<1> QED
  BY <1>1, <1>2, <1>3

LEMMA NoMessages == TradesOf({}) = {} /\ QuotesOf({}) = {}
BY DEF TradesOf, QuotesOf

\* Each clock of a quote is a number, and two quotes with the same clocks are
\* the same.
LEMMA ClocksOf ==
  ASSUME NEW q \in Quotes
  PROVE  /\ \A f \in Clocks : q[f] \in 0..MaxClock
         /\ \A r \in Quotes : (\A f \in Clocks : q[f] = r[f]) => q = r
<1>1. q.price \in 0..MaxClock /\ q.statistics \in 0..MaxClock
  BY DEF Quotes
<1>2. \A f \in Clocks : q[f] \in 0..MaxClock
  BY <1>1 DEF Clocks
<1>3. ASSUME NEW r \in Quotes, \A f \in Clocks : q[f] = r[f]
      PROVE  q = r
  <2>1. q.price = r.price /\ q.statistics = r.statistics
    BY <1>3 DEF Clocks
  <2> QED
    BY <2>1 DEF Quotes
<1> QED
  BY <1>2, <1>3

\* A merge takes the later of each clock, whatever is left out for its age.
LEMMA StoredIs ==
  ASSUME NEW old \in Quotes, NEW new \in Quotes, MaxClock \in Nat
  PROVE  /\ StoredQuote(old, new) \in Quotes
         /\ \A f \in Clocks : StoredQuote(old, new)[f] = Later(new[f], old[f])
<1>1. /\ old.price \in 0..MaxClock /\ old.statistics \in 0..MaxClock
      /\ new.price \in 0..MaxClock /\ new.statistics \in 0..MaxClock
  BY DEF Quotes
<1> DEFINE m == MergeQuote(old, new)
<1>2. /\ m \in Quotes /\ m.price = Later(new.price, old.price)
      /\ m.statistics = Later(new.statistics, old.statistics)
  BY <1>1 DEF MergeQuote, Quotes, Later
<1> HIDE DEF m
<1>3. CASE old.price > new.price /\ old.statistics >= new.statistics
  <2>1. StoredQuote(old, new) = old
    BY <1>3 DEF StoredQuote
  <2>2. Later(new.price, old.price) = old.price /\ Later(new.statistics, old.statistics) = old.statistics
    BY <1>1, <1>3 DEF Later
  <2> QED
    BY <2>1, <2>2 DEF Clocks
<1>4. CASE ~(old.price > new.price /\ old.statistics >= new.statistics)
  <2>1. StoredQuote(old, new) = m
    BY <1>4 DEF StoredQuote, m
  <2> QED
    BY <2>1, <1>2 DEF Clocks
<1> QED
  BY <1>3, <1>4

\* The merged quote has the newest of each clock, and each from one of them.
LEMMA MergedIs ==
  ASSUME NEW S, S \subseteq {q \in Quotes : q.price > 0}, S # {}, MaxClock \in Nat
  PROVE  /\ Merged(S) \in Quotes /\ Merged(S).price > 0
         /\ \A f \in Clocks : /\ \E q \in S : Merged(S)[f] = q[f]
                              /\ \A q \in S : q[f] <= Merged(S)[f]
<1> DEFINE P == {q.price : q \in S}
           R == {q.statistics : q \in S}
<1>1. P \subseteq 0..MaxClock /\ R \subseteq 0..MaxClock /\ P # {} /\ R # {}
  BY DEF Quotes
<1>2. Merged(S) = [price |-> Max(P), statistics |-> Max(R)]
  BY DEF Merged
<1>3. \A q \in S : q.price \in P /\ q.statistics \in R /\ q.price > 0
  OBVIOUS
<1>4. (\A x \in P : \E q \in S : x = q.price) /\ (\A x \in R : \E q \in S : x = q.statistics)
  OBVIOUS
<1> HIDE DEF P, R
<1>5. Max(P) \in P /\ (\A x \in P : Max(P) >= x) /\ Max(R) \in R /\ (\A x \in R : Max(R) >= x)
  BY <1>1, MaxIs
<1>6. Merged(S) \in Quotes
  <2>1. Max(P) \in 0..MaxClock /\ Max(R) \in 0..MaxClock
    BY <1>1, <1>5
  <2> QED
    BY <2>1, <1>2 DEF Quotes
<1>7. Merged(S).price = Max(P) /\ Merged(S).statistics = Max(R)
  BY <1>2
<1>8. \A f \in Clocks : \E q \in S : Merged(S)[f] = q[f]
  BY <1>4, <1>5, <1>7 DEF Clocks
<1>9. \A f \in Clocks : \A q \in S : q[f] <= Merged(S)[f]
  BY <1>1, <1>3, <1>5, <1>7 DEF Clocks
<1>10. Merged(S).price > 0
  BY <1>3, <1>4, <1>5, <1>7
<1> QED
  BY <1>6, <1>8, <1>9, <1>10

\* Coalescing a backlog keeps its trades and the newest of each clock.
LEMMA CoalescedIs ==
  ASSUME NEW A \in SUBSET Messages, MaxClock \in Nat
  PROVE  /\ Coalesced(A) \subseteq Messages
         /\ TradesOf(Coalesced(A)) = TradesOf(A)
         /\ \A f \in Clocks :
              /\ \A q \in QuotesOf(A) : \E r \in QuotesOf(Coalesced(A)) : q[f] <= r[f]
              /\ \A r \in QuotesOf(Coalesced(A)) : \E q \in QuotesOf(A) : r[f] = q[f]
<1> DEFINE T == {m \in A : IsTrade(m)}
           Q == QuotesOf(A)
           n == [quote |-> Merged(Q)]
<1>1. T \subseteq Messages /\ TradesOf(T) = TradesOf(A) /\ QuotesOf(T) = {}
  BY DEF TradesOf, QuotesOf
<1>2. Q \subseteq {q \in Quotes : q.price > 0}
  BY MessagesOf
<1> HIDE DEF T, Q
<1>3. CASE Q = {}
  <2>1. Coalesced(A) = T
    BY <1>3 DEF Coalesced, T, Q
  <2>2. QuotesOf(A) = {}
    BY <1>3 DEF Q
  <2> QED
    BY <2>1, <2>2, <1>1
<1>4. CASE Q # {}
  <2>1. /\ Merged(Q) \in Quotes /\ Merged(Q).price > 0
        /\ \A f \in Clocks : /\ \E q \in Q : Merged(Q)[f] = q[f]
                             /\ \A q \in Q : q[f] <= Merged(Q)[f]
    BY <1>2, <1>4, MergedIs
  <2>2. n \in Messages /\ ~IsTrade(n) /\ n.quote = Merged(Q)
    BY <2>1 DEF Messages, QuoteMessages, IsTrade
  <2>3. Coalesced(A) = T \cup {n}
    BY <1>4 DEF Coalesced, T, Q
  <2>4. TradesOf({n}) = {} /\ QuotesOf({n}) = {Merged(Q)}
    BY <2>2 DEF TradesOf, QuotesOf
  <2> HIDE DEF n
  <2>5. /\ TradesOf(T \cup {n}) = TradesOf(T) \cup TradesOf({n})
        /\ QuotesOf(T \cup {n}) = QuotesOf(T) \cup QuotesOf({n})
    BY <1>1, MessagesOf
  <2>6. TradesOf(Coalesced(A)) = TradesOf(A) /\ QuotesOf(Coalesced(A)) = {Merged(Q)}
    BY <2>3, <2>4, <2>5, <1>1
  <2>7. Coalesced(A) \subseteq Messages
    BY <2>2, <2>3, <1>1
  <2> QED
    BY <2>1, <2>6, <2>7 DEF Q
<1> QED
  BY <1>3, <1>4

\* A transaction of part of the messages: the stored quote has no older clock
\* than before and than they have, and none that was not there or is theirs.
LEMMA WriteIs ==
  ASSUME MarketTypeOK, NEW part \in SUBSET Messages, WritePart(part)
  PROVE  /\ quote' \in Quotes
         /\ \A f \in Clocks :
              /\ quote[f] <= quote'[f] /\ \A q \in QuotesOf(part) : q[f] <= quote'[f]
              /\ quote'[f] = quote[f] \/ \E q \in QuotesOf(part) : quote'[f] = q[f]
<1> USE MarketAssumption
<1>1. quote \in Quotes /\ MaxClock \in Nat
  BY DEF MarketTypeOK
<1>2. \A f \in Clocks : quote[f] \in 0..MaxClock
  BY <1>1, ClocksOf
<1> DEFINE Q == QuotesOf(part)
<1>3. Q \subseteq {q \in Quotes : q.price > 0}
  BY MessagesOf
<1>4. quote' = IF Q = {} THEN quote ELSE StoredQuote(quote, Merged(Q))
  BY DEF WritePart
<1> HIDE DEF Q
<1>5. CASE Q = {}
  BY <1>1, <1>2, <1>4, <1>5 DEF Q
<1>6. CASE Q # {}
  <2>1. /\ Merged(Q) \in Quotes
        /\ \A f \in Clocks : /\ \E q \in Q : Merged(Q)[f] = q[f]
                             /\ \A q \in Q : q[f] <= Merged(Q)[f]
    BY <1>1, <1>3, <1>6, MergedIs
  <2> DEFINE m == Merged(Q)
  <2>2. \A f \in Clocks : m[f] \in 0..MaxClock
    BY <2>1, ClocksOf
  <2>3. \A q \in Q : \A f \in Clocks : q[f] \in 0..MaxClock
    BY <1>3, ClocksOf
  <2>4. quote' \in Quotes /\ \A f \in Clocks : quote'[f] = Later(m[f], quote[f])
    BY <1>1, <1>4, <1>6, <2>1, StoredIs
  <2> HIDE DEF m
  <2>5. ASSUME NEW f \in Clocks
        PROVE  /\ quote[f] <= quote'[f] /\ m[f] <= quote'[f]
               /\ quote'[f] = quote[f] \/ quote'[f] = m[f]
    BY <1>1, <1>2, <2>2, <2>4 DEF Later
  <2>6. ASSUME NEW f \in Clocks
        PROVE  /\ \A q \in Q : q[f] <= quote'[f]
               /\ quote'[f] = quote[f] \/ \E q \in Q : quote'[f] = q[f]
    <3>1. (\E q \in Q : m[f] = q[f]) /\ \A q \in Q : q[f] <= m[f]
      BY <2>1 DEF m
    <3>2. quote'[f] \in 0..MaxClock
      BY <2>4, ClocksOf
    <3> QED
      BY <1>1, <2>2, <2>3, <2>5, <3>1, <3>2
  <2> QED
    BY <2>4, <2>5, <2>6 DEF Q
<1> QED
  BY <1>5, <1>6

\* What the types say of the lists.
LEMMA ListsOf ==
  ASSUME MarketTypeOK
  PROVE  /\ Range(pending) \subseteq Messages /\ Range(inbox) \subseteq Messages
         /\ Waiting \subseteq Messages /\ todo \subseteq Messages
         /\ QuotesOf(Waiting) = QuotesOf(Range(pending)) \cup QuotesOf(Range(inbox))
         /\ TradesOf(Waiting) = TradesOf(Range(pending)) \cup TradesOf(Range(inbox))
         /\ QuotesOf(Waiting \cup todo) = QuotesOf(Waiting) \cup QuotesOf(todo)
         /\ \A q \in QuotesOf(Waiting \cup todo) : \A f \in Clocks : q[f] \in 0..MaxClock
         /\ MaxClock \in Nat
         /\ \A f \in Clocks : quote[f] \in 0..MaxClock /\ accepted.quote[f] \in 0..MaxClock
<1>1. Range(pending) \subseteq Messages /\ Range(inbox) \subseteq Messages /\ todo \subseteq Messages
  BY RangesOf DEF MarketTypeOK
<1>2. Waiting \subseteq Messages
  BY <1>1 DEF Waiting
<1>3. /\ QuotesOf(Waiting) = QuotesOf(Range(pending)) \cup QuotesOf(Range(inbox))
      /\ TradesOf(Waiting) = TradesOf(Range(pending)) \cup TradesOf(Range(inbox))
  BY <1>1, MessagesOf DEF Waiting
<1>4. QuotesOf(Waiting \cup todo) = QuotesOf(Waiting) \cup QuotesOf(todo)
  BY <1>2, MessagesOf
<1>5. QuotesOf(Waiting \cup todo) \subseteq Quotes
  <2>1. Waiting \cup todo \in SUBSET Messages
    BY <1>1, <1>2
  <2> QED
    BY <2>1, MessagesOf
<1>6. \A q \in QuotesOf(Waiting \cup todo) : \A f \in Clocks : q[f] \in 0..MaxClock
  BY <1>5, ClocksOf
<1>7. quote \in Quotes /\ accepted.quote \in Quotes
  BY DEF MarketTypeOK
<1>8. \A f \in Clocks : quote[f] \in 0..MaxClock /\ accepted.quote[f] \in 0..MaxClock
  BY <1>7, ClocksOf
<1> QED
  BY <1>1, <1>2, <1>3, <1>4, <1>6, <1>8, MarketAssumption

LEMMA OfferKeeps ==
  ASSUME MarketInv, NEW m \in Messages, Offer(m)
  PROVE  MarketInv'
<1> USE DEF MarketInv
<1>1. /\ inbox' = Append(inbox, m) /\ pending' = pending /\ todo' = todo /\ pc' = pc /\ trades' = trades
      /\ announced' = announced /\ quote' = quote /\ cut' = cut
      /\ retention' = retention /\ cutoff' = cutoff /\ candidates' = candidates
      /\ pc \notin {"last", "stopped"} /\ Len(inbox) < Capacity
      /\ accepted' = IF IsTrade(m) THEN [accepted EXCEPT !.trades = @ \cup {m.trade}]
                     ELSE [accepted EXCEPT !.quote = [price |-> Later(@.price, m.quote.price),
                                                      statistics |-> Later(@.statistics, m.quote.statistics)]]
  BY DEF Offer, retentionVars
<1>2. inbox \in Seq(Messages) /\ accepted \in [trades : SUBSET (1..MaxTrades), quote : Quotes]
  BY DEF MarketTypeOK
<1>3. /\ inbox' \in Seq(Messages) /\ Len(inbox') = Len(inbox) + 1 /\ Len(inbox) \in Nat
      /\ Range(inbox') = Range(inbox) \cup {m}
  BY <1>1, <1>2, RangesOf, AppendIs
<1>4. Waiting' = Waiting \cup {m}
  BY <1>1, <1>3 DEF Waiting
<1>5. /\ Waiting \subseteq Messages /\ todo \subseteq Messages
      /\ QuotesOf(Waiting \cup todo) = QuotesOf(Waiting) \cup QuotesOf(todo)
      /\ \A q \in QuotesOf(Waiting \cup todo) : \A f \in Clocks : q[f] \in 0..MaxClock
      /\ MaxClock \in Nat
      /\ \A f \in Clocks : quote[f] \in 0..MaxClock /\ accepted.quote[f] \in 0..MaxClock
  BY ListsOf
<1>6. /\ QuotesOf(Waiting') = QuotesOf(Waiting) \cup QuotesOf({m})
      /\ TradesOf(Waiting') = TradesOf(Waiting) \cup TradesOf({m})
      /\ QuotesOf(Waiting' \cup todo') = QuotesOf(Waiting \cup todo) \cup QuotesOf({m})
  <2>1. /\ QuotesOf(Waiting') = QuotesOf(Waiting) \cup QuotesOf({m})
        /\ TradesOf(Waiting') = TradesOf(Waiting) \cup TradesOf({m})
    BY <1>4, <1>5, MessagesOf
  <2>2. Waiting' \cup todo' = (Waiting \cup todo) \cup {m} /\ Waiting \cup todo \subseteq Messages
    BY <1>1, <1>4, <1>5
  <2>3. QuotesOf((Waiting \cup todo) \cup {m}) = QuotesOf(Waiting \cup todo) \cup QuotesOf({m})
    BY <2>2, MessagesOf
  <2> QED
    BY <2>1, <2>2, <2>3
<1>7. PhaseInv' /\ AgeInv'
  BY <1>1 DEF PhaseInv, AgeInv
<1>8. Len(inbox') <= Capacity
  BY <1>1, <1>3, MarketAssumption
<1>9. CASE IsTrade(m)
  <2>1. m.trade \in 1..MaxTrades /\ TradesOf({m}) = {m.trade} /\ QuotesOf({m}) = {}
    BY <1>9, MessageIs DEF TradesOf, QuotesOf
  <2>2. accepted'.trades = accepted.trades \cup {m.trade} /\ accepted'.quote = accepted.quote
    BY <1>1, <1>2, <1>9
  <2>3. accepted' \in [trades : SUBSET (1..MaxTrades), quote : Quotes]
    BY <1>1, <1>2, <1>9, <2>1
  <2>4. MarketTypeOK'
    BY <2>3, <1>1, <1>3, <1>8 DEF MarketTypeOK
  <2>5. NewestInv'
    BY <2>1, <2>2, <1>1, <1>6 DEF NewestInv
  <2>6. TradesInv'
    BY <2>1, <2>2, <1>1, <1>6 DEF TradesInv
  <2> QED
    BY <2>4, <2>5, <2>6, <1>7
<1>10. CASE ~IsTrade(m)
  <2>1. m.quote \in Quotes /\ TradesOf({m}) = {} /\ QuotesOf({m}) = {m.quote}
    BY <1>10, MessageIs DEF TradesOf, QuotesOf
  <2> DEFINE a == accepted.quote
             n == [price |-> Later(a.price, m.quote.price), statistics |-> Later(a.statistics, m.quote.statistics)]
  <2>2. a \in Quotes
    BY <1>2
  <2>3. n \in Quotes /\ \A f \in Clocks : n[f] = Later(a[f], m.quote[f])
    <3>1. /\ a.price \in 0..MaxClock /\ a.statistics \in 0..MaxClock
          /\ m.quote.price \in 0..MaxClock /\ m.quote.statistics \in 0..MaxClock
      BY <2>1, <2>2 DEF Quotes
    <3> QED
      BY <3>1 DEF Quotes, Later, Clocks
  <2>4. accepted'.trades = accepted.trades /\ accepted'.quote = n
    BY <1>1, <1>2, <1>10
  <2>5. accepted' \in [trades : SUBSET (1..MaxTrades), quote : Quotes]
    <3>1. accepted' = [accepted EXCEPT !.quote = n]
      BY <1>1, <1>2, <1>10
    <3> QED
      BY <3>1, <1>2, <2>3
  <2> HIDE DEF a, n
  <2>6. MarketTypeOK'
    BY <2>5, <1>1, <1>3, <1>8 DEF MarketTypeOK
  <2>7. TradesInv'
    BY <2>1, <2>4, <1>1, <1>6 DEF TradesInv
  <2>8. ASSUME NEW f \in Clocks
        PROVE  /\ a[f] \in 0..MaxClock /\ m.quote[f] \in 0..MaxClock /\ n[f] = Later(a[f], m.quote[f])
               /\ a[f] <= n[f] /\ m.quote[f] <= n[f] /\ (n[f] = a[f] \/ n[f] = m.quote[f])
    <3>1. a[f] \in 0..MaxClock /\ m.quote[f] \in 0..MaxClock
      BY <2>1, <2>2, ClocksOf
    <3> QED
      BY <3>1, <2>3, <1>5 DEF Later
  <2>9. NewestInv'
    <3> SUFFICES ASSUME NEW f \in Clocks
                 PROVE  /\ quote[f] <= n[f]
                        /\ \A q \in QuotesOf(Waiting \cup todo) \cup {m.quote} : q[f] <= n[f]
                        /\ quote[f] = n[f] \/ \E q \in QuotesOf(Waiting) \cup {m.quote} : q[f] = n[f]
      BY <2>1, <2>4, <1>1, <1>6 DEF NewestInv
    <3>1. /\ quote[f] <= a[f] /\ \A q \in QuotesOf(Waiting \cup todo) : q[f] <= a[f]
          /\ quote[f] = a[f] \/ \E q \in QuotesOf(Waiting) : q[f] = a[f]
      BY DEF NewestInv, a
    <3>2. n[f] \in 0..MaxClock
      BY <2>3, ClocksOf
    <3>3. quote[f] \in 0..MaxClock
      BY <1>5
    <3>4. quote[f] <= n[f]
      BY <3>1, <3>2, <3>3, <2>8, <1>5
    <3>5. \A q \in QuotesOf(Waiting \cup todo) \cup {m.quote} : q[f] <= n[f]
      <4> TAKE q \in QuotesOf(Waiting \cup todo) \cup {m.quote}
      <4>1. CASE q = m.quote
        BY <4>1, <2>8
      <4>2. CASE q \in QuotesOf(Waiting \cup todo)
        <5>1. q[f] \in 0..MaxClock /\ q[f] <= a[f]
          BY <4>2, <3>1, <1>5
        <5> QED
          BY <5>1, <3>2, <2>8, <1>5
      <4> QED
        BY <4>1, <4>2
    <3>6. quote[f] = n[f] \/ \E q \in QuotesOf(Waiting) \cup {m.quote} : q[f] = n[f]
      BY <3>1, <2>8
    <3> QED
      BY <3>4, <3>5, <3>6
  <2> QED
    BY <2>6, <2>7, <2>9, <1>7
<1> QED
  BY <1>9, <1>10

\* Gathering moves messages from one list to the other.
LEMMA TakeBatchKeeps == MarketInv /\ TakeBatch => MarketInv'
<1> SUFFICES ASSUME MarketInv, TakeBatch
             PROVE  MarketInv'
  OBVIOUS
<1> USE DEF MarketInv
<1>1. PICK n \in 1..Len(inbox) : /\ pending' = pending \o SubSeq(inbox, 1, n)
                                 /\ inbox' = SubSeq(inbox, n + 1, Len(inbox))
  BY DEF TakeBatch, retentionVars
<1>2. /\ pc \in {"idle", "taken"} /\ pc' = "taken" /\ todo' = todo /\ trades' = trades /\ cut' = cut
      /\ announced' = announced /\ quote' = quote /\ accepted' = accepted
      /\ retention' = retention /\ cutoff' = cutoff /\ candidates' = candidates
  BY DEF TakeBatch, retentionVars
<1>3. inbox \in Seq(Messages) /\ pending \in Seq(Messages) /\ Len(inbox) <= Capacity /\ Len(inbox) \in Nat
  BY DEF MarketTypeOK
<1> DEFINE a == SubSeq(inbox, 1, n)
<1>4. /\ a \in Seq(Messages) /\ inbox' \in Seq(Messages) /\ Len(inbox') <= Len(inbox)
      /\ Range(a) \cup Range(inbox') = Range(inbox)
  BY <1>1, <1>3, SplitIs
<1>5. pending' \in Seq(Messages) /\ Range(pending') = Range(pending) \cup Range(a)
  <2>1. pending' = pending \o a
    BY <1>1
  <2> HIDE DEF a
  <2> QED
    BY <2>1, <1>3, <1>4, RangesOf
<1> HIDE DEF a
<1>6. Waiting' = Waiting
  BY <1>4, <1>5 DEF Waiting
<1>7. Len(inbox') <= Capacity
  <2>1. Len(inbox') \in Nat /\ Capacity \in Nat
    BY <1>4, MarketAssumption
  <2> QED
    BY <2>1, <1>3, <1>4
<1>8. MarketTypeOK'
  BY <1>2, <1>4, <1>5, <1>7 DEF MarketTypeOK
<1>9. PhaseInv' /\ AgeInv'
  BY <1>2 DEF PhaseInv, AgeInv
<1>10. NewestInv'
  BY <1>2, <1>6 DEF NewestInv
<1>11. TradesInv'
  BY <1>2, <1>6 DEF TradesInv
<1> QED
  BY <1>8, <1>9, <1>10, <1>11

\* An attempt starts with all of the batch, of each clock the newest.
LEMMA FlushKeeps == MarketInv /\ FlushBatch => MarketInv'
<1> SUFFICES ASSUME MarketInv, FlushBatch
             PROVE  MarketInv'
  OBVIOUS
<1> USE DEF MarketInv
<1> DEFINE A == Range(pending)
<1>1. /\ pc = "taken" /\ pc' = "flush" /\ inbox' = inbox /\ pending' = pending /\ trades' = trades
      /\ announced' = announced /\ quote' = quote /\ accepted' = accepted
      /\ retention' = retention /\ cutoff' = cutoff /\ candidates' = candidates
      /\ cut' = cut /\ todo' \in {A, Coalesced(A)}
  BY DEF FlushBatch, retentionVars
<1>2. /\ A \subseteq Messages /\ Waiting \subseteq Messages /\ QuotesOf(A) \subseteq QuotesOf(Waiting)
      /\ MaxClock \in Nat
      /\ \A q \in QuotesOf(Waiting) : \A f \in Clocks : q[f] \in 0..MaxClock
  BY ListsOf
<1>3. /\ todo' \subseteq Messages /\ TradesOf(todo') = TradesOf(A)
      /\ \A f \in Clocks : /\ \A q \in QuotesOf(A) : \E r \in QuotesOf(todo') : q[f] <= r[f]
                           /\ \A r \in QuotesOf(todo') : \E q \in QuotesOf(A) : r[f] = q[f]
  <2>1. CASE todo' = A
    BY <2>1, <1>2
  <2>2. CASE todo' = Coalesced(A)
    BY <2>2, <1>2, CoalescedIs
  <2> QED
    BY <2>1, <2>2, <1>1
<1>4. Waiting' = Waiting
  BY <1>1 DEF Waiting
<1>5. QuotesOf(Waiting' \cup todo') = QuotesOf(Waiting) \cup QuotesOf(todo')
  BY <1>2, <1>4, MessagesOf
<1> HIDE DEF A
<1>6. NewestInv'
  <2> SUFFICES ASSUME NEW f \in Clocks
               PROVE  /\ quote[f] <= accepted.quote[f]
                      /\ \A q \in QuotesOf(Waiting) \cup QuotesOf(todo') : q[f] <= accepted.quote[f]
                      /\ quote[f] = accepted.quote[f] \/ \E q \in QuotesOf(Waiting) : q[f] = accepted.quote[f]
                      /\ \A q \in QuotesOf(A) : \E r \in QuotesOf(todo') : q[f] <= r[f]
    BY <1>1, <1>4, <1>5 DEF NewestInv, A
  <2>1. /\ quote[f] <= accepted.quote[f]
        /\ quote[f] = accepted.quote[f] \/ \E q \in QuotesOf(Waiting) : q[f] = accepted.quote[f]
        /\ \A q \in QuotesOf(Waiting) : q[f] <= accepted.quote[f]
    BY ListsOf DEF NewestInv
  <2> QED
    BY <2>1, <1>2, <1>3
<1>7. TradesInv'
  BY <1>1, <1>3, <1>4 DEF TradesInv, A
<1>8. MarketTypeOK' /\ PhaseInv' /\ AgeInv'
  BY <1>1, <1>3 DEF MarketTypeOK, PhaseInv, AgeInv
<1> QED
  BY <1>6, <1>7, <1>8

\* A commit leaves the batch until nothing of it is to be done.
LEMMA CommitKeeps == MarketInv /\ CommitPart => MarketInv'
<1> SUFFICES ASSUME MarketInv, CommitPart
             PROVE  MarketInv'
  OBVIOUS
<1> USE DEF MarketInv
<1>1. PICK part \in SUBSET todo : part # {} /\ WritePart(part) /\ todo' = todo \ part
  BY DEF CommitPart
<1>2. /\ pc \in {"flush", "last"} /\ inbox' = inbox /\ accepted' = accepted /\ cut' = cut
      /\ retention' \in {"off", "due"} /\ cutoff' = cutoff /\ candidates' = candidates
      /\ pending' = IF todo' = {} THEN <<>> ELSE pending
      /\ pc' = IF todo' # {} THEN pc ELSE IF pc = "last" THEN "stopped" ELSE "idle"
  BY DEF CommitPart, Kept
<1>3. /\ Range(pending) \subseteq Messages /\ Range(inbox) \subseteq Messages
      /\ Waiting \subseteq Messages /\ todo \subseteq Messages
      /\ QuotesOf(Waiting) = QuotesOf(Range(pending)) \cup QuotesOf(Range(inbox))
      /\ TradesOf(Waiting) = TradesOf(Range(pending)) \cup TradesOf(Range(inbox))
      /\ QuotesOf(Waiting \cup todo) = QuotesOf(Waiting) \cup QuotesOf(todo)
      /\ \A q \in QuotesOf(Waiting \cup todo) : \A f \in Clocks : q[f] \in 0..MaxClock
      /\ MaxClock \in Nat
      /\ \A f \in Clocks : quote[f] \in 0..MaxClock /\ accepted.quote[f] \in 0..MaxClock
  BY ListsOf
<1>4. part \subseteq Messages /\ todo' \subseteq Messages
  BY <1>1, <1>3
<1>5. /\ QuotesOf(todo) = QuotesOf(part) \cup QuotesOf(todo')
      /\ TradesOf(todo) = TradesOf(part) \cup TradesOf(todo')
  <2>1. todo = part \cup todo'
    BY <1>1
  <2> QED
    BY <2>1, <1>4, MessagesOf
<1>6. /\ quote' \in Quotes
      /\ \A f \in Clocks :
           /\ quote[f] <= quote'[f] /\ \A q \in QuotesOf(part) : q[f] <= quote'[f]
           /\ quote'[f] = quote[f] \/ \E q \in QuotesOf(part) : quote'[f] = q[f]
  BY <1>1, <1>4, WriteIs
<1>7. trades' = trades \cup TradesOf(part) /\ announced' = announced \cup (TradesOf(part) \ trades)
  BY <1>1 DEF WritePart
<1>8. TradesOf(part) \subseteq 1..MaxTrades
  BY <1>4, MessagesOf
<1>9. announced' = announced \cup TradesOf(part)
  BY <1>7 DEF TradesInv
<1>10. /\ pending' \in Seq(Messages)
       /\ Waiting' = IF todo' = {} THEN Range(inbox) ELSE Waiting
       /\ QuotesOf(Range(pending')) \subseteq QuotesOf(Range(pending))
  <2>1. <<>> \in Seq(Messages) /\ Range(<<>>) = {}
    BY EmptyList
  <2>2. QuotesOf({}) = {}
    BY NoMessages
  <2> QED
    BY <2>1, <2>2, <1>2 DEF Waiting, MarketTypeOK
<1>11. QuotesOf(Waiting' \cup todo') = QuotesOf(Waiting') \cup QuotesOf(todo')
  <2>1. Waiting' \subseteq Messages
    BY <1>3, <1>10
  <2> QED
    BY <2>1, <1>4, MessagesOf
<1>12. MarketTypeOK'
  BY <1>2, <1>4, <1>6, <1>7, <1>8, <1>9, <1>10 DEF MarketTypeOK
<1>13. PhaseInv' /\ AgeInv'
  BY <1>2 DEF PhaseInv, AgeInv
<1>14. ASSUME NEW f \in Clocks
       PROVE  /\ quote'[f] \in 0..MaxClock /\ quote'[f] <= accepted.quote[f]
              /\ todo' = {} => \A q \in QuotesOf(Range(pending)) : q[f] <= quote'[f]
              /\ todo' # {} => \A q \in QuotesOf(Range(pending)) :
                                 q[f] <= quote'[f] \/ \E r \in QuotesOf(todo') : q[f] <= r[f]
  <2>1. quote'[f] \in 0..MaxClock
    BY <1>6, ClocksOf
  <2>2. quote[f] <= accepted.quote[f] /\ \A q \in QuotesOf(part) : q[f] <= accepted.quote[f]
    BY <1>3, <1>5 DEF NewestInv
  <2>3. quote'[f] <= accepted.quote[f]
    <3>1. CASE quote'[f] = quote[f]
      BY <3>1, <2>2
    <3>2. CASE \E q \in QuotesOf(part) : quote'[f] = q[f]
      BY <3>2, <2>2
    <3> QED
      BY <3>1, <3>2, <1>6
  <2>4. ASSUME NEW q \in QuotesOf(Range(pending))
        PROVE  q[f] <= quote'[f] \/ \E r \in QuotesOf(todo') : q[f] <= r[f]
    <3>1. q[f] \in 0..MaxClock
      BY <1>3
    <3>2. CASE q[f] <= quote[f]
      BY <3>1, <3>2, <2>1, <1>3, <1>6
    <3>3. CASE \E r \in QuotesOf(todo) : q[f] <= r[f]
      <4>1. PICK r \in QuotesOf(todo) : q[f] <= r[f]
        BY <3>3
      <4>2. r[f] \in 0..MaxClock
        BY <1>3
      <4>3. CASE r \in QuotesOf(part)
        <5>1. r[f] <= quote'[f]
          BY <4>3, <1>6
        <5> QED
          BY <5>1, <4>1, <4>2, <3>1, <2>1, <1>3
      <4> QED
        BY <4>1, <4>3, <1>5
    <3> QED
      BY <3>2, <3>3, <1>2 DEF NewestInv
  <2>5. todo' = {} => QuotesOf(todo') = {}
    BY NoMessages
  <2> QED
    BY <2>1, <2>3, <2>4, <2>5
<1>15. NewestInv'
  <2> SUFFICES ASSUME NEW f \in Clocks
               PROVE  /\ quote'[f] <= accepted.quote[f]
                      /\ \A q \in QuotesOf(Waiting') \cup QuotesOf(todo') : q[f] <= accepted.quote[f]
                      /\ quote'[f] = accepted.quote[f] \/ \E q \in QuotesOf(Waiting') : q[f] = accepted.quote[f]
                      /\ pc' \in {"flush", "last"} =>
                           \A q \in QuotesOf(Range(pending')) :
                             q[f] <= quote'[f] \/ \E r \in QuotesOf(todo') : q[f] <= r[f]
    BY <1>2, <1>11 DEF NewestInv
  <2>1. QuotesOf(Waiting') \subseteq QuotesOf(Waiting)
    BY <1>3, <1>10
  <2>2. \A q \in QuotesOf(Waiting') \cup QuotesOf(todo') : q[f] <= accepted.quote[f]
    BY <2>1, <1>3, <1>5 DEF NewestInv
  <2>3. quote'[f] = accepted.quote[f] \/ \E q \in QuotesOf(Waiting') : q[f] = accepted.quote[f]
    <3>1. CASE quote[f] = accepted.quote[f]
      BY <3>1, <1>3, <1>6, <1>14
    <3>2. CASE quote[f] # accepted.quote[f]
      <4>1. PICK q \in QuotesOf(Waiting) : q[f] = accepted.quote[f]
        BY <3>2 DEF NewestInv
      <4>2. CASE todo' # {} \/ q \in QuotesOf(Range(inbox))
        BY <4>1, <4>2, <1>3, <1>10
      <4>3. CASE todo' = {} /\ q \in QuotesOf(Range(pending))
        BY <4>1, <4>3, <1>3, <1>14
      <4> QED
        BY <4>2, <4>3, <1>3
    <3> QED
      BY <3>1, <3>2
  <2>4. pc' \in {"flush", "last"} => todo' # {} /\ pending' = pending
    BY <1>2
  <2> QED
    BY <2>2, <2>3, <2>4, <1>14
<1>16. TradesInv'
  <2>1. TradesOf(Range(pending)) \subseteq announced' \cup TradesOf(todo')
    BY <1>2, <1>5, <1>9 DEF TradesInv
  <2>2. todo' = {} => TradesOf(todo') = {}
    BY NoMessages
  <2>3. accepted.trades \subseteq announced' \cup TradesOf(Waiting')
    BY <2>1, <2>2, <1>3, <1>9, <1>10 DEF TradesInv
  <2>4. pc' \in {"flush", "last"} => pending' = pending
    BY <1>2
  <2> QED
    BY <2>1, <2>3, <2>4, <1>2, <1>7, <1>9 DEF TradesInv
<1> QED
  BY <1>12, <1>13, <1>15, <1>16

\* A stop makes one last attempt of all that was put.
LEMMA StopKeeps == MarketInv /\ StopWriter => MarketInv'
<1> SUFFICES ASSUME MarketInv, StopWriter
             PROVE  MarketInv'
  OBVIOUS
<1> USE DEF MarketInv
<1>1. /\ pc' = IF todo' = {} THEN "stopped" ELSE "last"
      /\ pending' = pending \o inbox /\ inbox' = <<>> /\ todo' = Range(pending') /\ trades' = trades
      /\ announced' = announced /\ quote' = quote /\ accepted' = accepted /\ cut' = cut
      /\ retention' = "off" /\ cutoff' = cutoff /\ candidates' = {}
  BY DEF StopWriter
<1>2. pending \in Seq(Messages) /\ inbox \in Seq(Messages)
  BY DEF MarketTypeOK
<1>3. pending' \in Seq(Messages) /\ Range(pending') = Waiting
  BY <1>1, <1>2, RangesOf DEF Waiting
<1>4. inbox' \in Seq(Messages) /\ Range(inbox') = {} /\ Len(inbox') <= Capacity
  BY <1>1, EmptyList, MarketAssumption
<1>5. Waiting' = Waiting /\ todo' = Waiting /\ Waiting \subseteq Messages
  BY <1>1, <1>3, <1>4, ListsOf DEF Waiting
<1>6. todo' = {} => pending' = <<>>
  BY <1>1, <1>3, RangesOf
<1>7. MarketTypeOK'
  BY <1>1, <1>3, <1>4, <1>5 DEF MarketTypeOK
<1>8. PhaseInv' /\ AgeInv'
  BY <1>1, <1>6 DEF PhaseInv, AgeInv
<1>9. \A q \in QuotesOf(Waiting) : \A f \in Clocks : q[f] \in 0..MaxClock /\ q[f] <= accepted.quote[f]
  BY ListsOf DEF NewestInv
<1>10. NewestInv'
  <2>1. QuotesOf(Waiting' \cup todo') = QuotesOf(Waiting)
    BY <1>5
  <2>2. \A f \in Clocks : \A q \in QuotesOf(Range(pending')) : \E r \in QuotesOf(todo') : q[f] <= r[f]
    BY <1>3, <1>5, <1>9, MarketAssumption
  <2> QED
    BY <2>1, <2>2, <1>1, <1>5, <1>9 DEF NewestInv
<1>11. TradesInv'
  BY <1>1, <1>3, <1>5 DEF TradesInv
<1> QED
  BY <1>7, <1>8, <1>10, <1>11

\* A process that lost its lists owes what is stored.
LEMMA LossKeeps == MarketInv /\ (StopFails \/ RestartWriter) => MarketInv'
<1> SUFFICES ASSUME MarketInv, StopFails \/ RestartWriter
             PROVE  MarketInv'
  OBVIOUS
<1> USE DEF MarketInv
<1>1. /\ inbox' = <<>> /\ pending' = <<>> /\ todo' = {} /\ pc' \in {"idle", "stopped"}
      /\ retention' = "off" /\ cutoff' = cutoff /\ candidates' \subseteq candidates
      /\ accepted' = [trades |-> announced, quote |-> quote]
      /\ trades' = trades /\ announced' = announced /\ quote' = quote /\ cut' = cut
  BY DEF StopFails, RestartWriter, PhaseInv, retentionVars
<1>2. inbox' \in Seq(Messages) /\ pending' \in Seq(Messages) /\ Len(inbox') <= Capacity /\ Waiting' = {}
  BY <1>1, EmptyList, MarketAssumption DEF Waiting
<1>3. QuotesOf(Waiting' \cup todo') = {} /\ TradesOf(Waiting') = {}
  BY <1>1, <1>2, NoMessages
<1>4. accepted'.quote = quote' /\ accepted'.trades = announced'
  BY <1>1
<1>5. MarketTypeOK'
  BY <1>1, <1>2 DEF MarketTypeOK
<1>6. PhaseInv' /\ AgeInv'
  BY <1>1 DEF PhaseInv, AgeInv
<1>7. NewestInv'
  <2>1. \A f \in Clocks : quote[f] <= quote[f]
    BY ListsOf
  <2> QED
    BY <2>1, <1>1, <1>3, <1>4 DEF NewestInv
<1>8. TradesInv'
  BY <1>1, <1>3, <1>4 DEF TradesInv
<1> QED
  BY <1>5, <1>6, <1>7, <1>8

\* A pass takes rows for their age or, by the boundary read in the removal's own
\* transaction, for their rank.
LEMMA RetentionKeeps ==
  MarketInv /\ (ChooseExpired \/ PruneExpired \/ ChooseRows \/ PruneRows \/ EndRetention) => MarketInv'
<1> SUFFICES ASSUME MarketInv, ChooseExpired \/ PruneExpired \/ ChooseRows \/ PruneRows \/ EndRetention
             PROVE  MarketInv'
  OBVIOUS
<1> USE DEF MarketInv
<1>1. /\ inbox' = inbox /\ pending' = pending /\ todo' = todo /\ pc' = pc /\ announced' = announced
      /\ quote' = quote /\ accepted' = accepted
  BY DEF ChooseExpired, PruneExpired, ChooseRows, PruneRows, EndRetention
<1>2. trades' \subseteq trades /\ cut' = {}
  <2>1. CASE ChooseExpired \/ ChooseRows \/ EndRetention
    BY <2>1 DEF ChooseExpired, ChooseRows, EndRetention, TradesInv
  <2>2. CASE PruneExpired
    <3>1. PICK rows \in SUBSET candidates : Expel(rows)
      BY <2>2 DEF PruneExpired
    <3>2. \A i \in rows \cap trades : ~(i > cutoff)
      <4>1. \A i \in rows : i \in Int /\ i <= cutoff /\ cutoff \in Int
        BY <2>2, MarketAssumption DEF PruneExpired, AgeInv, MarketTypeOK
      <4> QED
        BY <4>1
    <3> QED
      BY <3>1, <3>2 DEF Expel, TradesInv
  <2>3. CASE PruneRows
    <3>1. PICK rows \in SUBSET candidates : Expel(Excess(rows, trades))
      BY <2>3 DEF PruneRows
    <3>2. \A i \in Excess(rows, trades) : Beyond(i, trades)
      BY DEF Excess
    <3> QED
      BY <3>1, <3>2 DEF Expel, TradesInv
  <2> QED
    BY <2>1, <2>2, <2>3
<1>3. /\ retention' \in {"off", "due", "expired", "excess"} /\ cutoff' \in 0..MaxTrades
      /\ candidates' \subseteq 1..MaxTrades
  <2>1. cutoff \in 0..MaxTrades /\ cutoff..MaxTrades \subseteq 0..MaxTrades /\ trades \subseteq 1..MaxTrades
    BY MarketAssumption DEF MarketTypeOK
  <2> QED
    BY <2>1 DEF ChooseExpired, PruneExpired, ChooseRows, PruneRows, EndRetention, MarketTypeOK
<1>4. AgeInv'
  BY DEF ChooseExpired, PruneExpired, ChooseRows, PruneRows, EndRetention, AgeInv
<1>5. Waiting' = Waiting
  BY <1>1 DEF Waiting
<1>6. MarketTypeOK'
  BY <1>1, <1>2, <1>3 DEF MarketTypeOK
<1>7. PhaseInv'
  BY <1>1 DEF PhaseInv
<1>8. NewestInv'
  BY <1>1, <1>5 DEF NewestInv
<1>9. TradesInv'
  BY <1>1, <1>2, <1>5 DEF TradesInv
<1> QED
  BY <1>4, <1>6, <1>7, <1>8, <1>9

LEMMA MarketStep == MarketInv /\ [MarketNext]_marketVars => MarketInv'
<1> SUFFICES ASSUME MarketInv, [MarketNext]_marketVars
             PROVE  MarketInv'
  OBVIOUS
<1>1. ASSUME NEW m \in Messages, Offer(m)
      PROVE  MarketInv'
  BY <1>1, OfferKeeps
<1>2. CASE TakeBatch \/ FlushBatch \/ CommitPart
  BY <1>2, TakeBatchKeeps, FlushKeeps, CommitKeeps
<1>3. CASE FlushFails
  <2>1. /\ todo' = {} /\ pc' = "taken" /\ inbox' = inbox /\ pending' = pending /\ trades' = trades
        /\ announced' = announced /\ quote' = quote /\ accepted' = accepted /\ cut' = cut
        /\ retention' = retention /\ cutoff' = cutoff /\ candidates' = candidates
    BY <1>3 DEF FlushFails, retentionVars
  <2>2. Waiting' = Waiting
    BY <2>1 DEF Waiting
  <2>3. QuotesOf(Waiting' \cup todo') \subseteq QuotesOf(Waiting \cup todo)
    BY <2>1, <2>2 DEF QuotesOf
  <2>4. NewestInv'
    BY <2>1, <2>2, <2>3 DEF MarketInv, NewestInv
  <2>5. TradesInv'
    BY <2>1, <2>2 DEF MarketInv, TradesInv
  <2>6. MarketTypeOK' /\ PhaseInv' /\ AgeInv'
    BY <2>1 DEF MarketInv, MarketTypeOK, PhaseInv, AgeInv
  <2> QED
    BY <2>4, <2>5, <2>6 DEF MarketInv
<1>4. CASE StopWriter
  BY <1>4, StopKeeps
<1>5. CASE StopFails \/ RestartWriter
  BY <1>5, LossKeeps
<1>6. CASE ChooseExpired \/ PruneExpired \/ ChooseRows \/ PruneRows \/ EndRetention
  BY <1>6, RetentionKeeps
<1>7. CASE (\E i \in 1..MaxTrades : Retract(i)) \/ UNCHANGED marketVars
  <2>1. /\ trades' \subseteq trades /\ todo' = todo /\ pc' = pc
        /\ retention' = retention /\ cutoff' = cutoff /\ candidates' = candidates
        /\ inbox' = inbox /\ pending' = pending
        /\ announced' = announced /\ quote' = quote /\ accepted' = accepted /\ cut' = cut
    BY <1>7 DEF Retract, marketVars, retentionVars
  <2>2. Waiting' = Waiting
    BY <2>1 DEF Waiting
  <2>3. NewestInv'
    BY <2>1, <2>2 DEF MarketInv, NewestInv
  <2>4. TradesInv'
    BY <2>1, <2>2 DEF MarketInv, TradesInv
  <2>5. MarketTypeOK' /\ PhaseInv' /\ AgeInv'
    BY <2>1 DEF MarketInv, MarketTypeOK, PhaseInv, AgeInv
  <2> QED
    BY <2>3, <2>4, <2>5 DEF MarketInv
<1> QED
  BY <1>1, <1>2, <1>3, <1>4, <1>5, <1>6, <1>7 DEF MarketNext

LEMMA MarketBegins == MarketInit => MarketInv
<1> SUFFICES ASSUME MarketInit
             PROVE  MarketInv
  OBVIOUS
<1> USE MarketAssumption
<1>1. /\ inbox = <<>> /\ pending = <<>> /\ todo = {} /\ pc = "idle" /\ trades = {} /\ announced = {}
      /\ quote = NoQuote /\ retention = "off" /\ cutoff = 0 /\ candidates = {} /\ cut = {}
      /\ accepted = [trades |-> {}, quote |-> NoQuote]
  BY DEF MarketInit
<1>2. inbox \in Seq(Messages) /\ pending \in Seq(Messages) /\ Len(inbox) <= Capacity /\ Waiting = {}
  BY <1>1, EmptyList DEF Waiting
<1>3. NoQuote \in Quotes
  BY DEF NoQuote, Quotes
<1>4. MarketTypeOK
  BY <1>1, <1>2, <1>3 DEF MarketTypeOK
<1>5. QuotesOf(Waiting \cup todo) = {}
  BY <1>1, <1>2, NoMessages
<1>6. NewestInv
  <2>1. accepted.quote = quote /\ \A f \in Clocks : quote[f] \in 0..MaxClock
    BY <1>1, <1>3, ClocksOf
  <2> QED
    BY <2>1, <1>1, <1>5 DEF NewestInv
<1>7. PhaseInv /\ TradesInv /\ AgeInv
  BY <1>1 DEF PhaseInv, TradesInv, AgeInv
<1> QED
  BY <1>4, <1>6, <1>7 DEF MarketInv

\* Whatever is batched, fails, is replayed, stopped or lost with the process:
\* once the queue is written the stored quote has the newest accepted time of
\* both clocks and every accepted trade is announced; of the last day retention
\* takes none of the newest trades (MarketStreamProcessor), for any sizes of
\* queue, batch and transaction and any number of messages and faults.
THEOREM MarketKept == MarketSpec => []WriterKeeps
<1>1. MarketInv => WriterKeeps
  <2> SUFFICES ASSUME MarketInv
               PROVE  WriterKeeps
    OBVIOUS
  <2>1. ASSUME Written
        PROVE  quote = accepted.quote /\ accepted.trades \subseteq announced
    <3>1. Waiting = {}
      BY <2>1, EmptyList DEF Written, Waiting
    <3>2. TradesOf(Waiting) = {} /\ QuotesOf(Waiting) = {}
      BY <3>1, NoMessages
    <3>3. \A f \in Clocks : quote[f] = accepted.quote[f]
      BY <3>2 DEF MarketInv, NewestInv
    <3>4. quote \in Quotes /\ accepted.quote \in Quotes
      BY DEF MarketInv, MarketTypeOK
    <3>5. quote = accepted.quote
      BY <3>3, <3>4, ClocksOf
    <3> QED
      BY <3>2, <3>5 DEF MarketInv, TradesInv
  <2> QED
    BY <2>1 DEF WriterKeeps, MarketInv, TradesInv
<1> QED
  BY <1>1, MarketBegins, MarketStep, PTL DEF MarketSpec

\* Type invariant of the writer; its queue never exceeds its limit.
THEOREM MarketTypes == MarketSpec => []MarketTypeOK
<1>1. MarketInv => MarketTypeOK
  BY DEF MarketInv
<1> QED
  BY <1>1, MarketBegins, MarketStep, PTL DEF MarketSpec

-----------------------------------------------------------------------------
(* The recent proofs of hot pools.  A block whose hash is canonical has the *)
(* ancestors it had when it was read, so what was certified of its range    *)
(* stays true; and only blocks that were replaced for good are retracted.   *)

Known == (1..Tip) \X (0..forks)
Proofs == [hash : Known, from : 1..Tip, ok : BOOLEAN, bases : SUBSET Bases, coverageFrom : 1..Tip]
ScanPhases == {"page", "anchor", "fetch", "process", "verify", "sweep", "persist"}
ScanRecords ==
  [pc : ScanPhases, head : 1..Tip, generation : 0..generation,
   current : [HotPools -> Proofs \cup {Nil}], todo : SUBSET HotPools, pages : Nat,
   canonical : SUBSET Known, used : Int, pools : SUBSET HotPools, from : Nat, to : 0..Tip,
   before : Known \cup {Nil}, logs : SUBSET (HotPools \X Known), left : Int,
   rows : SUBSET (HotPools \X Known)]

ScanShape == scan # Nil =>
  /\ scan \in ScanRecords
  /\ scan.pc # "page" => 1 <= scan.from /\ scan.from <= scan.to
  /\ scan.pc \notin {"page", "anchor"} => scan.before \in Known /\ Height(scan.before) = scan.to
  /\ \A p \in HotPools : scan.current[p] # Nil => proof[p] \in Proofs

NodeShape ==
  /\ recentChain \in [1..Tip -> 0..forks] /\ Tip \in 1..MaxTip /\ forks \in 0..MaxForks
  /\ orphaned \subseteq Known
TapeShape ==
  /\ raw \subseteq HotPools \X Known /\ done \subseteq raw
  /\ recentTrades \subseteq HotPools \X Bases \X Known
ChoiceShape ==
  /\ selected \in [HotPools -> SUBSET Bases] /\ generation \in 0..MaxSelections /\ moved \in BOOLEAN
  /\ lock = Nil \/ lock \in 1..Tip
ProofShape == proof \in [HotPools -> Proofs \cup {Nil}]
RecentShape == NodeShape /\ TapeShape /\ ChoiceShape /\ ProofShape /\ ScanShape

\* What a proof says, of the chain as it is.
Has(p, base, h) == <<p, base, At(h)>> \in recentTrades
Covered(p, bases, from, to) ==
  \A h \in from..to : <<p, At(h)>> \notin Quiet => \A base \in bases : Has(p, base, h)
Exact(p, q) == q # Nil /\ q.ok /\ Canonical(q.hash) =>
  Covered(p, q.bases, q.from, Height(q.hash)) /\ Covered(p, q.bases, q.coverageFrom, Height(q.hash))

ProofsInv == \A p \in HotPools : Exact(p, proof[p])
SnapshotInv == scan # Nil => \A p \in HotPools : Exact(p, scan.current[p])

\* Nobody retracts a canonical block.
ReplacedInv == \A b \in orphaned : ~Canonical(b)
SweepInv == scan # Nil => \A log \in scan.rows : ~Canonical(BlockOf(log))

\* What was compared is canonical as long as the comparison is relied on.
AnchorInv ==
  /\ \A b \in Compared : Canonical(b)
  /\ scan # Nil /\ scan.pc \in {"anchor", "fetch"} =>
       \A p \in scan.pools : HoldsProof(p) => scan.current[p].hash \in scan.canonical

\* The page, as long as the end of its range is canonical: earlier proofs cover
\* what it joins, its logs are those of the range, and they became trades.
Past(phases) == scan # Nil /\ scan.pc \in phases /\ Canonical(scan.before)
JoinInv == Past({"fetch", "process", "verify", "sweep", "persist"}) =>
  \A p \in scan.pools : HoldsProof(p) =>
    \A h \in scan.current[p].coverageFrom..Height(scan.current[p].hash) :
      h <= scan.to /\ <<p, At(h)>> \notin Quiet => \A base \in scan.current[p].bases : Has(p, base, h)
LogsInv == Past({"process", "verify", "sweep", "persist"}) =>
  scan.logs = Swaps(scan.pools, scan.from, scan.to)
VerifiedInv == Past({"sweep", "persist"}) /\ scan.generation = generation =>
  \A log \in scan.logs : \A base \in selected[log[1]] : <<log[1], base, BlockOf(log)>> \in recentTrades

PageInv == SnapshotInv /\ SweepInv /\ AnchorInv /\ JoinInv /\ LogsInv /\ VerifiedInv
RecentInv == RecentShape /\ ProofsInv /\ ReplacedInv /\ PageInv

LEMMA LeastOfTwo == ASSUME NEW a \in Int, NEW b \in Int PROVE Min({a, b}) = IF a <= b THEN a ELSE b
<1>1. \E x \in {a, b} : \A y \in {a, b} : x <= y
  OBVIOUS
<1> QED
  BY <1>1 DEF Min

LEMMA GreatestOfTwo == ASSUME NEW a \in Int, NEW b \in Int PROVE Max({a, b}) = IF a <= b THEN b ELSE a
<1>1. \E x \in {a, b} : \A y \in {a, b} : x >= y
  OBVIOUS
<1> QED
  BY <1>1 DEF Max

LEMMA RecentBegins == ASSUME LiveAssumption, RecentInit PROVE RecentInv
<1> USE DEF LiveAssumption, RecentInit
<1>1. Tip = 1 /\ DOMAIN recentChain = 1..1 /\ recentChain[1] = 0 /\ recentChain \in [1..1 -> {0}]
  BY DEF Tip
<1>2. NodeShape
  BY <1>1 DEF NodeShape
<1>3. TapeShape /\ ChoiceShape /\ ProofShape /\ ScanShape
  <2>1. TapeShape /\ ProofShape /\ ScanShape
    BY DEF TapeShape, ProofShape, ScanShape
  <2>2. selected \in [HotPools -> SUBSET Bases]
    <3>1. PICK b \in Bases : selected = [p \in HotPools |-> {b}]
      OBVIOUS
    <3> QED
      BY <3>1
  <2>3. generation \in 0..MaxSelections /\ lock = Nil
    OBVIOUS
  <2>5. moved \in BOOLEAN
    OBVIOUS
  <2>4. ChoiceShape
    BY <2>2, <2>3, <2>5, Zenon DEF ChoiceShape
  <2> QED
    BY <2>1, <2>4
<1>4. ProofsInv /\ ReplacedInv
  BY DEF ProofsInv, Exact, ReplacedInv
<1>5. PageInv
  BY DEF PageInv, SnapshotInv, SweepInv, AnchorInv, JoinInv, LogsInv, VerifiedInv, Past, Compared
<1> QED
  BY <1>2, <1>3, <1>4, <1>5 DEF RecentInv, RecentShape

-----------------------------------------------------------------------------
\* The chain may move on under what is kept, a block never comes back; trades of
\* blocks that stay are not lost.
Onward == \A b \in Known : Canonical(b)' => Canonical(b) /\ \A h \in 1..Height(b) : At(h)' = At(h)
TradesStay == \A p \in HotPools, base \in Bases, h \in 1..Tip :
  At(h)' = At(h) /\ Has(p, base, h) => Has(p, base, h)'

LEMMA ExactStays ==
  ASSUME NodeShape, Onward, TradesStay, NEW p \in HotPools, NEW q \in Proofs \cup {Nil}, Exact(p, q)
  PROVE  Exact(p, q)'
<1> SUFFICES ASSUME q # Nil, q.ok, Canonical(q.hash)'
             PROVE  /\ Covered(p, q.bases, q.from, Height(q.hash))'
                    /\ Covered(p, q.bases, q.coverageFrom, Height(q.hash))'
  BY DEF Exact
<1>1. /\ q \in Proofs /\ q.hash \in Known /\ q.bases \subseteq Bases
      /\ q.from \in 1..Tip /\ q.coverageFrom \in 1..Tip
  BY DEF Proofs
<1>2. Canonical(q.hash) /\ Height(q.hash) \in 1..Tip /\ \A h \in 1..Height(q.hash) : At(h)' = At(h)
  BY <1>1 DEF Onward, Known, Height
<1>3. /\ Covered(p, q.bases, q.from, Height(q.hash))
      /\ Covered(p, q.bases, q.coverageFrom, Height(q.hash))
  BY <1>2 DEF Exact
<1>4. Tip \in Nat
  BY DEF NodeShape
<1>5. ASSUME NEW from \in 1..Tip, Covered(p, q.bases, from, Height(q.hash))
      PROVE  Covered(p, q.bases, from, Height(q.hash))'
  <2> SUFFICES ASSUME NEW h \in from..Height(q.hash), <<p, At(h)'>> \notin Quiet, NEW base \in q.bases
               PROVE  Has(p, base, h)'
    BY DEF Covered
  <2>1. h \in 1..Height(q.hash) /\ h \in 1..Tip
    BY <1>2, <1>4
  <2>2. At(h)' = At(h)
    BY <1>2, <2>1
  <2>3. Has(p, base, h)
    BY <1>5, <2>2 DEF Covered
  <2> QED
    BY <1>1, <2>1, <2>2, <2>3 DEF TradesStay
<1> QED
  BY <1>1, <1>3, <1>5

LEMMA ProofsStay ==
  ASSUME RecentShape, ProofsInv, Onward, TradesStay, UNCHANGED proof
  PROVE  ProofsInv'
<1> SUFFICES ASSUME NEW p \in HotPools PROVE Exact(p, proof[p])'
  BY DEF ProofsInv
<1>1. proof[p] \in Proofs \cup {Nil} /\ Exact(p, proof[p])
  BY DEF RecentShape, ProofShape, ProofsInv
<1>2. \A q \in Proofs \cup {Nil} : Exact(p, q) => Exact(p, q)'
  BY ExactStays DEF RecentShape
<1>3. proof'[p] = proof[p]
  OBVIOUS
<1> QED
  BY <1>1, <1>2, <1>3 DEF Exact, Covered

LEMMA StillStays ==
  ASSUME UNCHANGED <<recentChain, recentTrades>>
  PROVE  Onward /\ TradesStay
BY DEF Onward, TradesStay, Canonical, At, Tip, Has

LEMMA StoredStays ==
  ASSUME RecentShape, NEW log \in HotPools \X Known, Stored(log), UNCHANGED recentChain
  PROVE  Onward /\ TradesStay
<1>1. recentTrades \subseteq recentTrades' /\ Tip' = Tip /\ \A h : At(h)' = At(h)
  BY DEF Stored, Tip, At
<1>2. \A b : Canonical(b)' <=> Canonical(b)
  BY DEF Canonical, At, Tip
<1> QED
  BY <1>1, <1>2 DEF Onward, TradesStay, Has

LEMMA StoredShape ==
  ASSUME RecentShape, NEW log \in HotPools \X Known, Stored(log), UNCHANGED <<recentChain, forks, lock>>
  PROVE  TapeShape'
<1>1. Known' = Known /\ selected[log[1]] \subseteq Bases /\ log[1] \in HotPools /\ BlockOf(log) \in Known
  BY DEF Known, Tip, RecentShape, ChoiceShape, BlockOf
<1>2. raw' \subseteq HotPools \X Known /\ done' \subseteq raw'
  BY DEF Stored, RecentShape, TapeShape
<1>3. recentTrades' \subseteq HotPools \X Bases \X Known
  BY <1>1 DEF Stored, RecentShape, TapeShape
<1> QED
  BY <1>1, <1>2, <1>3 DEF TapeShape

LEMMA RetractedStays ==
  ASSUME RecentShape, NEW b, ~Canonical(b), Retracted(b), UNCHANGED recentChain
  PROVE  Onward /\ TradesStay
<1>1. Tip' = Tip /\ (\A h : At(h)' = At(h)) /\ Tip \in Nat
  BY DEF Tip, At, RecentShape, NodeShape
<1>2. \A c : Canonical(c)' <=> Canonical(c)
  BY DEF Canonical, At, Tip
<1>3. \A h \in 1..Tip : At(h) # b
  BY <1>1 DEF Canonical, At, Height
<1>4. \A p, base, h : <<p, base, At(h)>>[3] = At(h)
  OBVIOUS
<1>5. TradesStay
  BY <1>1, <1>3, <1>4 DEF TradesStay, Has, Retracted
<1> QED
  BY <1>1, <1>2, <1>5 DEF Onward

LEMMA RetractedShape ==
  ASSUME RecentShape, NEW b, Retracted(b), UNCHANGED <<recentChain, forks, choice>>
  PROVE  TapeShape' /\ ChoiceShape'
<1>1. Known' = Known /\ Tip' = Tip /\ Tip \in Nat
  BY DEF Known, Tip, RecentShape, NodeShape
<1>2. TapeShape'
  BY <1>1 DEF Retracted, RecentShape, TapeShape
<1>3. lock' = Nil \/ lock' \in 1..Tip
  <2>1. ASSUME NEW log \in raw, BlockOf(log) = b PROVE Height(b) \in 1..Tip
    BY <2>1 DEF RecentShape, TapeShape, BlockOf, Known, Height
  <2> QED
    BY <2>1 DEF Retracted
<1>4. moved' \in BOOLEAN
  BY Zenon DEF Retracted
<1> QED
  BY <1>1, <1>2, <1>3, <1>4 DEF ChoiceShape, choice, RecentShape

\* What a page relies on survives a step that leaves the scan alone.
LEMMA PageStays ==
  ASSUME RecentShape, PageInv, Onward, TradesStay, UNCHANGED scan,
         \A b \in Compared : Canonical(b)',
         generation' = generation => selected' = selected, generation' \in Nat, generation <= generation'
  PROVE  PageInv'
<1> SUFFICES ASSUME scan # Nil PROVE PageInv'
  BY DEF PageInv, SnapshotInv, SweepInv, AnchorInv, JoinInv, LogsInv, VerifiedInv, Past, Compared
<1>0. scan \in ScanRecords /\ Tip \in Nat /\ scan.pc \in ScanPhases /\ scan.from \in Nat /\ scan.to \in Nat
      /\ scan.to <= Tip /\ scan.rows \subseteq HotPools \X Known /\ scan.pools \subseteq HotPools
  BY DEF RecentShape, ScanShape, ScanRecords, NodeShape
<1>1. SnapshotInv'
  <2> SUFFICES ASSUME NEW p \in HotPools PROVE Exact(p, scan.current[p])'
    BY DEF SnapshotInv
  <2>1. scan.current[p] \in Proofs \cup {Nil} /\ Exact(p, scan.current[p])
    BY <1>0 DEF ScanRecords, PageInv, SnapshotInv
  <2>2. \A q \in Proofs \cup {Nil} : Exact(p, q) => Exact(p, q)'
    BY ExactStays DEF RecentShape
  <2> QED
    BY <2>1, <2>2 DEF Exact, Covered
<1>2. SweepInv'
  <2> SUFFICES ASSUME NEW log \in scan.rows PROVE ~Canonical(BlockOf(log))'
    BY DEF SweepInv
  <2>1. BlockOf(log) \in Known
    BY <1>0 DEF BlockOf
  <2> QED
    BY <2>1 DEF Onward, PageInv, SweepInv, Canonical
<1>3. AnchorInv'
  <2>1. \A b \in Compared' : Canonical(b)'
    BY DEF Compared
  <2> QED
    BY <2>1 DEF AnchorInv, PageInv, HoldsProof, Compared
\* The end of the range is where it was, so is what lies below it.
<1>4. ASSUME NEW ps, ps \subseteq ScanPhases \ {"page", "anchor"}, Past(ps)'
      PROVE  Past(ps) /\ (\A h \in 1..scan.to : At(h)' = At(h)) /\ 1 <= scan.from
  <2>1. scan.pc \in ps /\ Canonical(scan.before)'
    BY <1>4 DEF Past, Canonical
  <2>2. scan.before \in Known /\ Height(scan.before) = scan.to /\ 1 <= scan.from
    BY <1>4, <2>1 DEF RecentShape, ScanShape
  <2> QED
    BY <2>1, <2>2 DEF Onward, Past
<1>5. JoinInv'
  <2> SUFFICES ASSUME Past({"fetch", "process", "verify", "sweep", "persist"})',
                      NEW p \in scan.pools, HoldsProof(p),
                      NEW h \in scan.current[p].coverageFrom..Height(scan.current[p].hash),
                      h <= scan.to, <<p, At(h)'>> \notin Quiet, NEW base \in scan.current[p].bases
               PROVE  Has(p, base, h)'
    BY DEF JoinInv, HoldsProof
  <2>1. Past({"fetch", "process", "verify", "sweep", "persist"}) /\ \A i \in 1..scan.to : At(i)' = At(i)
    BY <1>4 DEF ScanPhases
  <2>2. scan.current[p] \in Proofs
    BY <1>0 DEF ScanRecords, HoldsProof
  <2>3. h \in 1..scan.to /\ h \in 1..Tip /\ base \in Bases
    BY <1>0, <2>2 DEF Proofs, Known, Height
  <2>4. Has(p, base, h)
    BY <2>1, <2>3 DEF PageInv, JoinInv
  <2> QED
    BY <1>0, <2>1, <2>3, <2>4 DEF TradesStay
<1>6. LogsInv'
  <2> SUFFICES ASSUME Past({"process", "verify", "sweep", "persist"})'
               PROVE  scan.logs = Swaps(scan.pools, scan.from, scan.to)'
    BY DEF LogsInv
  <2>1. /\ Past({"process", "verify", "sweep", "persist"})
        /\ (\A i \in 1..scan.to : At(i)' = At(i)) /\ 1 <= scan.from
    BY <1>4 DEF ScanPhases
  <2>2. \A h \in scan.from..scan.to : At(h)' = At(h)
    BY <1>0, <2>1
  <2>3. Swaps(scan.pools, scan.from, scan.to)' = Swaps(scan.pools, scan.from, scan.to)
    BY <2>2 DEF Swaps
  <2> QED
    BY <2>1, <2>3 DEF PageInv, LogsInv
<1>7. VerifiedInv'
  <2> SUFFICES ASSUME Past({"sweep", "persist"})', scan.generation = generation',
                      NEW log \in scan.logs, NEW base \in selected'[log[1]]
               PROVE  <<log[1], base, BlockOf(log)>> \in recentTrades'
    BY DEF VerifiedInv
  <2>1. Past({"sweep", "persist"}) /\ (\A i \in 1..scan.to : At(i)' = At(i)) /\ 1 <= scan.from
    BY <1>4 DEF ScanPhases
  <2>2. generation' = generation /\ selected' = selected
    <3>1. scan.generation <= generation /\ scan.generation \in Int /\ generation \in Int
      BY <1>0 DEF ScanRecords, RecentShape, ChoiceShape
    <3> QED
      BY <3>1
  <2>3. <<log[1], base, BlockOf(log)>> \in recentTrades
    BY <2>1, <2>2 DEF PageInv, VerifiedInv
  <2>4. log \in Swaps(scan.pools, scan.from, scan.to)
    BY <2>1 DEF PageInv, LogsInv, Past
  <2>5. PICK h \in scan.from..scan.to : log \in scan.pools \X {At(h)}
    BY <2>4 DEF Swaps
  <2>6. log[1] \in HotPools /\ BlockOf(log) = At(h) /\ h \in 1..Tip /\ At(h)' = At(h)
    BY <1>0, <2>1, <2>5 DEF BlockOf
  <2>7. base \in Bases
    BY <2>2, <2>6 DEF RecentShape, ChoiceShape
  <2> QED
    BY <2>3, <2>6, <2>7 DEF TradesStay, Has
<1> QED
  BY <1>1, <1>2, <1>3, <1>5, <1>6, <1>7 DEF PageInv

-----------------------------------------------------------------------------
(* The node.                                                                *)

LEMMA NodeKeeps ==
  ASSUME RecentInv, NodeShape', Tip <= Tip', forks <= forks', Onward, ReplacedInv',
         \A b \in Compared : Canonical(b)',
         UNCHANGED <<choice, moved, tape, proof, lock, scan>>
  PROVE  RecentInv'
<1>1. Known \subseteq Known' /\ Proofs \subseteq Proofs' /\ Tip \in Nat /\ Tip' \in Nat
  <2>1. Tip \in Nat /\ Tip' \in Nat /\ forks \in Nat /\ forks' \in Nat
    BY DEF RecentInv, RecentShape, NodeShape
  <2>2. Known \subseteq Known' /\ 1..Tip \subseteq 1..Tip'
    BY <2>1 DEF Known
  <2> QED
    BY <2>1, <2>2 DEF Proofs
<1>2. RecentShape'
  <2>1. TapeShape' /\ ChoiceShape'
    BY <1>1 DEF RecentInv, RecentShape, TapeShape, ChoiceShape, tape, choice
  <2>2. ProofShape'
    BY <1>1 DEF RecentInv, RecentShape, ProofShape
  <2>3. ScanShape'
    <3> SUFFICES ASSUME scan # Nil PROVE ScanShape'
      BY DEF ScanShape
    <3>1. scan \in ScanRecords
      BY DEF RecentInv, RecentShape, ScanShape
    <3>2. generation' = generation
      BY DEF choice
    <3>3. scan \in ScanRecords'
      BY <1>1, <3>1, <3>2 DEF ScanRecords
    <3> QED
      BY <1>1, <3>3 DEF RecentInv, RecentShape, ScanShape
  <2> QED
    BY <2>1, <2>2, <2>3 DEF RecentShape
<1>3. TradesStay
  BY DEF TradesStay, Has, tape
<1>4. ProofsInv' /\ PageInv'
  <2>1. generation' = generation /\ selected' = selected /\ generation \in Nat
    BY DEF choice, RecentInv, RecentShape, ChoiceShape
  <2> QED
    BY <1>3, <2>1, ProofsStay, PageStays DEF RecentInv
<1> QED
  BY <1>2, <1>4 DEF RecentInv

LEMMA MineKeeps == ASSUME LiveAssumption, RecentInv, Mine PROVE RecentInv'
<1>1. /\ recentChain \in [1..Tip -> 0..forks] /\ Tip \in Nat \ {0} /\ forks \in 0..MaxForks
      /\ orphaned \subseteq Known /\ MaxTip \in Nat
  BY DEF RecentInv, RecentShape, NodeShape, LiveAssumption
<1>2. recentChain \in Seq(0..forks) /\ recentChain[Tip] \in 0..forks
  BY <1>1 DEF Tip
<1>3. Tip' = Tip + 1 /\ Tip + 1 <= MaxTip /\ recentChain' \in Seq(0..forks)
      /\ \A h \in 1..Tip : recentChain'[h] = recentChain[h]
  BY <1>1, <1>2 DEF Mine, Tip
<1>4. recentChain' \in [1..Tip' -> 0..forks]
  BY <1>3, LenProperties DEF Tip
<1>5. forks' = forks /\ orphaned' = orphaned /\ UNCHANGED <<choice, moved, tape, proof, lock, scan>>
  BY DEF Mine
<1>6. \A h \in 1..Tip : At(h)' = At(h)
  BY <1>3 DEF At
<1>7. \A b \in Known : Height(b) \in 1..Tip /\ (Canonical(b)' <=> Canonical(b))
  BY <1>1, <1>3, <1>6 DEF Known, Height, Canonical
<1>8. Onward
  BY <1>1, <1>6, <1>7 DEF Onward
<1>9. NodeShape'
  BY <1>1, <1>3, <1>4, <1>5 DEF NodeShape, Known
<1>10. ReplacedInv'
  BY <1>1, <1>5, <1>7 DEF ReplacedInv, RecentInv
<1>11. \A b \in Compared : Canonical(b)'
  <2>1. Compared \subseteq Known
    BY DEF Compared, RecentInv, RecentShape, ScanShape, ScanRecords
  <2> QED
    BY <1>7, <2>1 DEF RecentInv, PageInv, AnchorInv
<1> QED
  BY <1>1, <1>3, <1>5, <1>6, <1>8, <1>9, <1>10, <1>11, NodeKeeps

\* Without the race no anchor is replaced that is still relied on.
LEMMA ReorganiseKeeps ==
  ASSUME LiveAssumption, AnchorRace = FALSE, RecentInv, NEW n \in 1..MaxTip, Reorganise(n)
  PROVE  RecentInv'
<1>1. /\ recentChain \in [1..Tip -> 0..forks] /\ Tip \in 1..MaxTip /\ forks \in Nat /\ forks < MaxForks
      /\ orphaned \subseteq Known /\ MaxTip \in Nat /\ MaxForks \in Nat /\ n \in 2..Tip
  BY DEF RecentInv, RecentShape, NodeShape, LiveAssumption, Reorganise
<1>2. recentChain' = [i \in 1..Tip |-> IF i >= n THEN forks + 1 ELSE recentChain[i]] /\ forks' = forks + 1
  BY DEF Reorganise
<1>3. recentChain' \in [1..Tip -> 0..forks'] /\ Tip \in Nat
  BY <1>1, <1>2
<1>4. Tip' = Tip
  <2>1. recentChain' \in Seq(0..forks')
    BY <1>3, SeqDef
  <2>2. Tip' \in Nat /\ DOMAIN recentChain' = 1..Tip'
    BY <2>1, LenProperties DEF Tip
  <2>3. 1..Tip' = 1..Tip
    BY <1>3, <2>2
  <2> QED
    BY <1>1, <2>2, <2>3
<1>5. UNCHANGED <<choice, moved, tape, proof, lock, scan>>
      /\ orphaned' = orphaned \cup {At(i) : i \in n..Tip}
  BY DEF Reorganise
<1>6. \A h \in 1..Tip : h < n => At(h)' = At(h)
  BY <1>1, <1>2 DEF At
<1>7. \A h \in n..Tip : At(h)' = <<h, forks + 1>>
  BY <1>1, <1>2 DEF At
<1>8. \A b \in Known : Height(b) \in 1..Tip /\ b[2] \in 0..forks
                       /\ (Canonical(b)' <=> Canonical(b) /\ Height(b) < n)
  <2> SUFFICES ASSUME NEW b \in Known
               PROVE  /\ Height(b) \in 1..Tip /\ b[2] \in 0..forks
                      /\ (Canonical(b)' <=> Canonical(b) /\ Height(b) < n)
    OBVIOUS
  <2>1. Height(b) \in 1..Tip /\ b[2] \in 0..forks
    BY DEF Known, Height
  <2>2. CASE Height(b) < n
    BY <1>1, <1>4, <1>6, <2>1, <2>2 DEF Canonical
  <2>3. CASE Height(b) >= n
    <3>1. At(Height(b))' = <<Height(b), forks + 1>>
      BY <1>1, <1>7, <2>1, <2>3
    <3>2. b # <<Height(b), forks + 1>>
      BY <1>1, <2>1
    <3> QED
      BY <1>1, <2>1, <2>3, <3>1, <3>2 DEF Canonical
  <2> QED
    BY <1>1, <2>1, <2>2, <2>3
<1>9. Onward
  BY <1>1, <1>6, <1>8 DEF Onward
<1>10. \A i \in n..Tip : At(i) \in Known /\ Height(At(i)) = i
  BY <1>1 DEF At, Known, Height
<1>11. NodeShape'
  <2>1. Known \subseteq Known'
    BY <1>1, <1>2, <1>4 DEF Known
  <2>2. orphaned' \subseteq Known'
    BY <1>1, <1>5, <1>10, <2>1
  <2> QED
    BY <1>1, <1>2, <1>3, <1>4, <2>2 DEF NodeShape
<1>12. ReplacedInv'
  <2> SUFFICES ASSUME NEW b \in orphaned' PROVE ~Canonical(b)'
    BY DEF ReplacedInv
  <2>1. CASE b \in orphaned
    BY <1>1, <1>8, <2>1 DEF RecentInv, ReplacedInv
  <2>2. ASSUME NEW i \in n..Tip, b = At(i) PROVE ~Canonical(b)'
    BY <1>1, <1>8, <1>10, <2>2
  <2> QED
    BY <1>5, <2>1, <2>2
<1>13. \A b \in Compared : Canonical(b)'
  <2>1. Compared \subseteq Known
    BY DEF Compared, RecentInv, RecentShape, ScanShape, ScanRecords
  <2>2. \A b \in Compared : ~(n <= Height(b))
    BY DEF Reorganise
  <2>3. \A b \in Compared : Canonical(b)
    BY DEF RecentInv, PageInv, AnchorInv
  <2> QED
    BY <1>1, <1>8, <2>1, <2>2, <2>3
<1> QED
  BY <1>1, <1>2, <1>4, <1>5, <1>9, <1>11, <1>12, <1>13, NodeKeeps

-----------------------------------------------------------------------------
(* Logs, removals and the catalogue, beside the scan.                       *)

LEMMA ScanShapeStays ==
  ASSUME RecentShape, UNCHANGED <<recentChain, forks, scan>>, generation' \in Nat, generation <= generation',
         \A p \in HotPools : proof[p] \in Proofs => proof'[p] \in Proofs
  PROVE  ScanShape'
<1> SUFFICES ASSUME scan # Nil PROVE ScanShape'
  BY DEF ScanShape
<1>1. Tip' = Tip /\ Known' = Known /\ Proofs' = Proofs
  BY DEF Tip, Known, Proofs
<1>2. scan \in ScanRecords /\ generation \in Nat
  BY DEF RecentShape, ScanShape, ChoiceShape
<1>3. 0..generation \subseteq 0..generation'
  BY <1>2
<1>4. scan \in ScanRecords'
  BY <1>1, <1>2, <1>3 DEF ScanRecords
<1> QED
  BY <1>1, <1>4 DEF RecentShape, ScanShape

\* A step beside the scan that leaves the chain alone.
LEMMA BesideKeeps ==
  ASSUME RecentInv, UNCHANGED <<recentChain, forks, scan>>, orphaned' \subseteq orphaned, TradesStay,
         TapeShape', ChoiceShape', ProofShape', ProofsInv',
         generation <= generation', generation' = generation => selected' = selected,
         \A p \in HotPools : proof[p] \in Proofs => proof'[p] \in Proofs
  PROVE  RecentInv'
<1>1. Tip' = Tip /\ Known' = Known /\ \A b : Canonical(b)' <=> Canonical(b)
  BY DEF Tip, Known, Canonical, At
<1>2. Onward
  BY DEF Onward, Canonical, At, Tip
<1>3. NodeShape' /\ ReplacedInv'
  BY <1>1 DEF RecentInv, RecentShape, NodeShape, ReplacedInv
<1>4. generation' \in Nat
  BY DEF ChoiceShape
<1>5. ScanShape'
  BY <1>4, ScanShapeStays DEF RecentInv
<1>6. PageInv'
  <2>1. \A b \in Compared : Canonical(b)'
    BY <1>1 DEF RecentInv, PageInv, AnchorInv
  <2> QED
    BY <1>2, <1>4, <2>1, PageStays DEF RecentInv
<1> QED
  BY <1>3, <1>5, <1>6 DEF RecentInv, RecentShape

LEMMA LiveLogKeeps ==
  ASSUME RecentInv, NEW p \in HotPools, NEW h \in 1..MaxTip, LiveLog(p, h) PROVE RecentInv'
<1>1. /\ h \in 1..Tip /\ Stored(<<p, At(h)>>)
      /\ UNCHANGED <<recentChain, forks, orphaned, choice, moved, proof, lock, scan>>
  BY DEF LiveLog, recentChainVars
<1>2. <<p, At(h)>> \in HotPools \X Known
  BY <1>1 DEF At, Known, RecentInv, RecentShape, NodeShape
<1> DEFINE log == <<p, At(h)>>
<1> HIDE DEF log
<1>3. log \in HotPools \X Known /\ Stored(log)
  BY <1>1, <1>2 DEF log
<1>4. Onward /\ TradesStay /\ TapeShape'
  BY <1>1, <1>3, StoredStays, StoredShape DEF RecentInv
<1>5. ChoiceShape' /\ ProofShape' /\ Proofs' = Proofs /\ generation \in Nat
  BY <1>1 DEF choice, RecentInv, RecentShape, ChoiceShape, ProofShape, Proofs, Known, Tip
<1>6. ProofsInv'
  BY <1>1, <1>4, ProofsStay DEF RecentInv
<1>7. generation' = generation /\ selected' = selected
  BY <1>1 DEF choice
<1> QED
  BY <1>1, <1>4, <1>5, <1>6, <1>7, BesideKeeps

LEMMA RemovalKeeps ==
  ASSUME RecentInv, NEW b, AnnouncedRemoval(b) PROVE RecentInv'
<1>1. b \in orphaned /\ Retracted(b) /\ UNCHANGED <<recentChain, forks, choice, proof, scan>>
      /\ orphaned' \subseteq orphaned
  BY DEF AnnouncedRemoval
<1>2. ~Canonical(b)
  BY <1>1 DEF RecentInv, ReplacedInv
<1>3. Onward /\ TradesStay
  BY <1>1, <1>2, RetractedStays DEF RecentInv
<1>4. TapeShape' /\ ChoiceShape'
  BY <1>1, RetractedShape DEF RecentInv
<1>5. ProofShape' /\ generation \in Nat
  BY <1>1 DEF RecentInv, RecentShape, ChoiceShape, ProofShape, Proofs, Known, Tip
<1>6. ProofsInv'
  BY <1>1, <1>3, ProofsStay DEF RecentInv
<1>7. generation' = generation /\ selected' = selected
  BY <1>1 DEF choice
<1> QED
  BY <1>1, <1>3, <1>4, <1>5, <1>6, <1>7, BesideKeeps

\* A proof that is withdrawn states nothing.
LEMMA WithdrawnIs ==
  ASSUME RecentShape, NEW p \in HotPools, proof[p] \in Proofs
  PROVE  /\ Invalid(p)[p] = [proof[p] EXCEPT !.ok = FALSE]
         /\ Invalid(p)[p] \in Proofs /\ Invalid(p)[p].ok = FALSE
<1>1. Invalid(p)[p] = [proof[p] EXCEPT !.ok = FALSE]
  BY DEF Invalid, RecentShape, ProofShape
<1>2. [proof[p] EXCEPT !.ok = FALSE] \in Proofs /\ [proof[p] EXCEPT !.ok = FALSE].ok = FALSE
  BY DEF Proofs
<1> QED
  BY <1>1, <1>2

LEMMA InvalidateKeeps == ASSUME RecentInv, InvalidateProofs PROVE RecentInv'
<1>1. UNCHANGED <<recentChain, forks, orphaned, choice, moved, tape, scan>> /\ lock' = Nil
  BY DEF InvalidateProofs, recentChainVars
<1>2. \A p \in HotPools : proof'[p] = proof[p] \/ (proof[p] \in Proofs /\ proof'[p] = Invalid(p)[p])
  BY DEF InvalidateProofs, RecentInv, RecentShape, ProofShape
<1>3. \A p \in HotPools : proof[p] \in Proofs => Invalid(p)[p] \in Proofs /\ Invalid(p)[p].ok = FALSE
  BY WithdrawnIs DEF RecentInv
<1>4. Proofs' = Proofs
  BY <1>1 DEF Proofs, Known, Tip
<1>5. ProofShape'
  <2>1. proof' = [p \in HotPools |-> proof'[p]]
    BY DEF InvalidateProofs
  <2>2. \A p \in HotPools : proof'[p] \in Proofs \cup {Nil}
    BY <1>2, <1>3 DEF RecentInv, RecentShape, ProofShape
  <2> QED
    BY <1>4, <2>1, <2>2 DEF ProofShape
<1>6. Onward /\ TradesStay
  BY <1>1, StillStays DEF tape
<1>7. ProofsInv'
  <2> SUFFICES ASSUME NEW p \in HotPools PROVE Exact(p, proof[p])'
    BY DEF ProofsInv
  <2>1. CASE proof'[p] = proof[p]
    <3>1. \A q \in Proofs \cup {Nil} : Exact(p, q) => Exact(p, q)'
      BY <1>6, ExactStays DEF RecentInv, RecentShape
    <3>2. proof[p] \in Proofs \cup {Nil} /\ Exact(p, proof[p])
      BY DEF RecentInv, RecentShape, ProofShape, ProofsInv
    <3> QED
      BY <2>1, <3>1, <3>2 DEF Exact, Covered
  <2>2. CASE proof'[p].ok = FALSE
    BY <2>2 DEF Exact
  <2> QED
    BY <1>2, <1>3, <2>1, <2>2
<1>8. TapeShape' /\ ChoiceShape' /\ generation \in Nat /\ generation' = generation /\ selected' = selected
  BY <1>1 DEF RecentInv, RecentShape, TapeShape, ChoiceShape, tape, choice, Known, Tip
<1> QED
  BY <1>1, <1>2, <1>3, <1>5, <1>6, <1>7, <1>8, BesideKeeps

LEMMA RefreshKeeps ==
  ASSUME LiveAssumption, RecentInv, NEW chosen \in [HotPools -> SUBSET Bases], RefreshCatalogue(chosen)
  PROVE  RecentInv'
<1>1. /\ UNCHANGED <<recentChain, forks, orphaned, moved, raw, recentTrades, proof, lock, scan>>
      /\ selected' = chosen /\ generation' = generation + 1 /\ generation < MaxSelections /\ done' \subseteq done
  BY DEF RefreshCatalogue, recentChainVars
<1>2. generation \in Nat /\ MaxSelections \in Nat
  BY DEF RecentInv, RecentShape, ChoiceShape, LiveAssumption
<1>3. Onward /\ TradesStay
  BY <1>1, StillStays
<1>4. Known' = Known /\ Tip' = Tip /\ Proofs' = Proofs
  BY <1>1 DEF Known, Tip, Proofs
<1>5. TapeShape'
  BY <1>1, <1>4 DEF RecentInv, RecentShape, TapeShape
<1>6. ChoiceShape'
  <2>1. generation' \in 0..MaxSelections
    BY <1>1, <1>2
  <2> QED
    BY <1>1, <1>4, <2>1, Zenon DEF RecentInv, RecentShape, ChoiceShape
<1>7. ProofShape'
  BY <1>1, <1>4 DEF RecentInv, RecentShape, ProofShape
<1>8. ProofsInv'
  BY <1>1, <1>3, ProofsStay DEF RecentInv
<1>9. generation <= generation' /\ generation' # generation
  BY <1>1, <1>2
<1> QED
  BY <1>1, <1>3, <1>5, <1>6, <1>7, <1>8, <1>9, BesideKeeps

-----------------------------------------------------------------------------
(* The scan.                                                                *)

LEMMA StillIs ==
  ASSUME UNCHANGED <<recentChain, forks>>
  PROVE  /\ Tip' = Tip /\ Known' = Known /\ Proofs' = Proofs
         /\ \A h : At(h)' = At(h)
         /\ \A b : Canonical(b)' <=> Canonical(b)
         /\ \A pools, from, to : Swaps(pools, from, to)' = Swaps(pools, from, to)
BY DEF Tip, Known, Proofs, At, Canonical, Swaps

LEMMA ScanStepKeeps ==
  ASSUME RecentInv, UNCHANGED <<recentChain, forks, orphaned, choice, tape, proof, lock>>, moved' \in BOOLEAN,
         ScanShape', PageInv'
  PROVE  RecentInv'
<1>1. Tip' = Tip /\ Known' = Known /\ Proofs' = Proofs /\ \A b : Canonical(b)' <=> Canonical(b)
  BY StillIs
<1>2. NodeShape' /\ TapeShape' /\ ProofShape' /\ ReplacedInv'
  BY <1>1 DEF RecentInv, RecentShape, NodeShape, TapeShape, ProofShape, ReplacedInv, tape
<1>3. ChoiceShape'
  BY <1>1, Zenon DEF RecentInv, RecentShape, ChoiceShape, choice
<1>4. ProofsInv'
  BY StillStays, ProofsStay DEF RecentInv, tape
<1> QED
  BY <1>2, <1>3, <1>4 DEF RecentInv, RecentShape

LEMMA RaiseKeeps ==
  ASSUME RecentInv, Raise, UNCHANGED <<recentChain, forks, orphaned, choice, tape>>, lock' = Nil \/ lock' = lock,
         ProofShape', ProofsInv'
  PROVE  RecentInv'
<1>1. Tip' = Tip /\ Known' = Known /\ \A b : Canonical(b)' <=> Canonical(b)
  BY StillIs
<1>2. NodeShape' /\ TapeShape' /\ ReplacedInv'
  BY <1>1 DEF RecentInv, RecentShape, NodeShape, TapeShape, ReplacedInv, tape
<1>3. moved' \in BOOLEAN
  BY Zenon DEF Raise
<1>4. ChoiceShape'
  BY <1>1, <1>3, Zenon DEF RecentInv, RecentShape, ChoiceShape, choice
<1>5. ScanShape' /\ PageInv'
  BY DEF Raise, ScanShape, PageInv, SnapshotInv, SweepInv, AnchorInv, JoinInv, LogsInv, VerifiedInv, Past, Compared
<1> QED
  BY <1>2, <1>4, <1>5 DEF RecentInv, RecentShape

\* ... with nothing but the scan ended.
LEMMA RaiseStillKeeps ==
  ASSUME RecentInv, Raise, UNCHANGED <<recentChain, forks, orphaned, choice, tape, proof>>,
         lock' = Nil \/ lock' = lock
  PROVE  RecentInv'
<1>1. ProofShape'
  BY StillIs DEF RecentInv, RecentShape, ProofShape
<1>2. ProofsInv'
  BY StillStays, ProofsStay DEF RecentInv, tape
<1> QED
  BY <1>1, <1>2, RaiseKeeps

LEMMA AnchorLostKeeps ==
  ASSUME RecentInv, NEW p \in HotPools, AnchorLost(p) PROVE RecentInv'
<1>1. scan # Nil /\ HoldsProof(p) /\ proof' = Invalid(p) /\ Raise
      /\ UNCHANGED <<recentChain, forks, orphaned, choice, tape, lock>>
  BY DEF AnchorLost, recentChainVars
<1>2. proof[p] \in Proofs
  BY <1>1 DEF HoldsProof, RecentInv, RecentShape, ScanShape
<1>3. Invalid(p)[p] \in Proofs /\ Invalid(p)[p].ok = FALSE
  BY <1>2, WithdrawnIs DEF RecentInv
<1>4. \A q \in HotPools : q # p => proof'[q] = proof[q]
  BY <1>1 DEF Invalid, RecentInv, RecentShape, ProofShape
<1>5. ProofShape'
  <2>1. Proofs' = Proofs
    BY <1>1, StillIs
  <2>2. proof' = [q \in HotPools |-> proof'[q]]
    BY <1>1 DEF Invalid, RecentInv, RecentShape, ProofShape
  <2>3. \A q \in HotPools : proof'[q] \in Proofs \cup {Nil}
    BY <1>1, <1>3, <1>4 DEF RecentInv, RecentShape, ProofShape
  <2> QED
    BY <2>1, <2>2, <2>3 DEF ProofShape
<1>6. ProofsInv'
  <2> SUFFICES ASSUME NEW q \in HotPools PROVE Exact(q, proof[q])'
    BY DEF ProofsInv
  <2>1. CASE q = p
    BY <1>1, <1>3, <2>1 DEF Exact
  <2>2. CASE q # p
    <3>1. \A r \in Proofs \cup {Nil} : Exact(q, r) => Exact(q, r)'
      BY <1>1, StillStays, ExactStays DEF RecentInv, RecentShape, tape
    <3>2. proof[q] \in Proofs \cup {Nil} /\ Exact(q, proof[q]) /\ proof'[q] = proof[q]
      BY <1>4, <2>2 DEF RecentInv, RecentShape, ProofShape, ProofsInv
    <3> QED
      BY <3>1, <3>2 DEF Exact, Covered
  <2> QED
    BY <2>1, <2>2
<1> QED
  BY <1>1, <1>5, <1>6, RaiseKeeps

LEMMA StartScanKeeps == ASSUME RecentInv, StartScan PROVE RecentInv'
<1>1. /\ scan' = [pc |-> "page", head |-> Tip, generation |-> generation, current |-> proof,
                  todo |-> Chosen, pages |-> 0, canonical |-> {}, used |-> 0, pools |-> {},
                  from |-> 0, to |-> 0, before |-> Nil, logs |-> {}, left |-> 0, rows |-> {}]
      /\ UNCHANGED <<recentChain, forks, orphaned, choice, moved, tape, proof, lock>>
  BY DEF StartScan, recentChainVars
<1>2. Tip' = Tip /\ Known' = Known /\ Proofs' = Proofs /\ generation' = generation
  BY <1>1, StillIs DEF choice
<1>3. Tip \in 1..Tip /\ generation \in 0..generation /\ 0 \in 0..Tip
  BY DEF RecentInv, RecentShape, NodeShape, ChoiceShape
<1>4. proof \in [HotPools -> Proofs \cup {Nil}] /\ Chosen \subseteq HotPools
  BY DEF RecentInv, RecentShape, ProofShape, Chosen
<1>5. scan' \in ScanRecords
  BY <1>1, <1>3, <1>4 DEF ScanRecords, ScanPhases
<1>6. ScanShape'
  <2>1. \A p \in HotPools : scan'.current[p] # Nil => proof'[p] \in Proofs
    BY <1>1, <1>4
  <2> QED
    BY <1>1, <1>2, <1>5, <2>1 DEF ScanShape, ScanRecords
<1>7. SnapshotInv'
  <2>1. ProofsInv'
    BY <1>1, StillStays, ProofsStay DEF RecentInv, tape
  <2> QED
    BY <1>1, <2>1 DEF SnapshotInv, ProofsInv, Exact, Covered
<1>8. SweepInv' /\ AnchorInv' /\ JoinInv' /\ LogsInv' /\ VerifiedInv'
  BY <1>1 DEF SweepInv, AnchorInv, JoinInv, LogsInv, VerifiedInv, Past, Compared
<1>9. moved' \in BOOLEAN
  BY <1>1 DEF RecentInv, RecentShape, ChoiceShape
<1> QED
  BY <1>1, <1>6, <1>7, <1>8, <1>9, ScanStepKeeps DEF PageInv

LEMMA SnapshotStays ==
  ASSUME RecentShape, SnapshotInv, Onward, TradesStay, scan # Nil, scan'.current = scan.current
  PROVE  SnapshotInv'
<1> SUFFICES ASSUME NEW p \in HotPools PROVE Exact(p, scan.current[p])'
  BY DEF SnapshotInv
<1>1. scan.current[p] \in Proofs \cup {Nil} /\ Exact(p, scan.current[p])
  BY DEF RecentShape, ScanShape, ScanRecords, SnapshotInv
<1>2. \A q \in Proofs \cup {Nil} : Exact(p, q) => Exact(p, q)'
  BY ExactStays DEF RecentShape
<1> QED
  BY <1>1, <1>2 DEF Exact, Covered

\* The fields of a scan at work.
LEMMA ScanFields ==
  ASSUME RecentShape, scan # Nil
  PROVE  /\ scan \in ScanRecords /\ Tip \in Nat \ {0}
         /\ scan.head \in 1..Tip /\ scan.from \in Nat /\ scan.to \in Nat /\ scan.to <= Tip
         /\ scan.pools \subseteq HotPools /\ scan.todo \subseteq HotPools
         /\ scan.canonical \subseteq Known /\ scan.pages \in Nat /\ scan.used \in Int /\ scan.left \in Int
BY DEF RecentShape, ScanShape, ScanRecords, NodeShape

LEMMA AnchorIs ==
  ASSUME RecentShape, scan # Nil, \A b \in scan.canonical : Canonical(b), NEW h \in 1..Tip
  PROVE  Canonical(AnchorOf(h))
<1> DEFINE known == {b \in scan.canonical : Height(b) = h}
<1>1. CASE known = {}
  <2>1. AnchorOf(h) = At(h)
    BY <1>1 DEF AnchorOf
  <2>2. Tip \in Nat
    BY DEF RecentShape, NodeShape
  <2> QED
    BY <2>1, <2>2 DEF Canonical, At, Height
<1>2. CASE known # {}
  <2>1. AnchorOf(h) \in known
    BY <1>2 DEF AnchorOf
  <2> QED
    BY <2>1
<1> QED
  BY <1>1, <1>2

LEMMA FirstBlockIs ==
  ASSUME LiveAssumption, RecentShape, scan # Nil, NEW p \in HotPools
  PROVE  FirstBlock(p) \in 1..scan.head
<1>1. scan.head \in Nat \ {0} /\ Lookback \in Nat
  BY ScanFields DEF LiveAssumption
<1>2. Max({1, scan.head - Lookback}) \in 1..scan.head
  BY <1>1, GreatestOfTwo
<1>3. ASSUME HoldsProof(p)
      PROVE  Min({Height(scan.current[p].hash) + 1, scan.head}) \in 1..scan.head
  <2>1. scan.current[p] \in Proofs
    BY <1>3, ScanFields DEF HoldsProof, ScanRecords
  <2>2. Height(scan.current[p].hash) \in 1..Tip
    BY <2>1 DEF Proofs, Known, Height
  <2>3. Height(scan.current[p].hash) + 1 \in Nat \ {0}
    BY <2>2, ScanFields
  <2> QED
    BY <1>1, <2>3, LeastOfTwo
<1> QED
  BY <1>2, <1>3 DEF FirstBlock

LEMMA StartPageKeeps ==
  ASSUME LiveAssumption, RecentInv, NEW pools \in SUBSET HotPools, StartPage(pools) PROVE RecentInv'
<1>1. /\ scan # Nil /\ scan.pc = "page" /\ scan.todo # {} /\ moved' = FALSE
      /\ UNCHANGED <<recentChain, forks, orphaned, choice, tape, proof, lock>>
      /\ \A p \in pools : HoldsProof(p) => Anchor(p) = scan.current[p].hash
  BY DEF StartPage, Still, recentChainVars
<1>2. PICK from \in {FirstBlock(p) : p \in pools} :
        scan' = [scan EXCEPT !.pc = "anchor", !.pools = pools, !.todo = @ \ pools, !.pages = @ + 1,
                   !.from = from, !.to = Min({scan.head, from + RangeBlocks - 1}),
                   !.canonical = @ \cup {Anchor(p) : p \in {q \in pools : HoldsProof(q)}}]
  BY DEF StartPage
<1> DEFINE to == Min({scan.head, from + RangeBlocks - 1})
           seen == scan.canonical \cup {Anchor(p) : p \in {q \in pools : HoldsProof(q)}}
<1>3. from \in 1..scan.head /\ scan.head \in 1..Tip /\ Tip \in Nat /\ RangeBlocks \in Nat \ {0}
  BY <1>1, FirstBlockIs, ScanFields DEF RecentInv, LiveAssumption
<1>4. to \in from..scan.head /\ to \in 0..Tip /\ from \in Nat /\ from <= to
  BY <1>3, LeastOfTwo
<1>5. \A b \in scan.canonical : Canonical(b)
  BY <1>1 DEF RecentInv, PageInv, AnchorInv, Compared
<1>6. ASSUME NEW p \in pools, HoldsProof(p)
      PROVE  Anchor(p) = scan.current[p].hash /\ Anchor(p) \in Known /\ Canonical(Anchor(p))
  <2>1. scan.current[p] \in Proofs
    BY <1>1, <1>6, ScanFields DEF HoldsProof, ScanRecords, RecentInv
  <2>2. scan.current[p].hash \in Known /\ Height(scan.current[p].hash) \in 1..Tip
    BY <2>1 DEF Proofs, Known, Height
  <2>3. Canonical(Anchor(p))
    BY <1>1, <1>5, <2>2, AnchorIs DEF Anchor, RecentInv
  <2> QED
    BY <1>1, <1>6, <2>2, <2>3
<1>7. seen \subseteq Known /\ (\A b \in seen : Canonical(b))
      /\ \A p \in pools : HoldsProof(p) => scan.current[p].hash \in seen
  BY <1>1, <1>5, <1>6, ScanFields DEF RecentInv
<1> HIDE DEF to, seen
<1>8. scan' = [scan EXCEPT !.pc = "anchor", !.pools = pools, !.todo = @ \ pools, !.pages = @ + 1,
                 !.from = from, !.to = to, !.canonical = seen]
  BY <1>2 DEF to, seen
<1>9. scan \in ScanRecords
  BY <1>1, ScanFields DEF RecentInv
<1>10. /\ scan'.pc = "anchor" /\ scan'.pools = pools /\ scan'.from = from /\ scan'.to = to
       /\ scan'.canonical = seen /\ scan'.current = scan.current /\ scan'.rows = scan.rows
  BY <1>8, <1>9 DEF ScanRecords
<1>11. scan' \in ScanRecords
  <2>1. "anchor" \in ScanPhases /\ scan.todo \ pools \subseteq HotPools /\ scan.pages + 1 \in Nat
    BY <1>1, ScanFields DEF ScanPhases, RecentInv
  <2> QED
    BY <1>4, <1>7, <1>8, <1>9, <2>1 DEF ScanRecords
<1>12. Tip' = Tip /\ Known' = Known /\ Proofs' = Proofs /\ generation' = generation
       /\ \A b : Canonical(b)' <=> Canonical(b)
  BY <1>1, StillIs DEF choice
<1>13. ScanShape'
  <2>1. ScanRecords' = ScanRecords
    BY <1>12 DEF ScanRecords
  <2>2. \A p \in HotPools : scan'.current[p] # Nil => proof'[p] \in Proofs'
    BY <1>1, <1>10, <1>12 DEF ScanShape, RecentInv, RecentShape
  <2> QED
    BY <1>3, <1>4, <1>10, <1>11, <2>1, <2>2 DEF ScanShape
<1>14. SnapshotInv'
  BY <1>1, <1>10, StillStays, SnapshotStays DEF RecentInv, PageInv, tape
<1>15. SweepInv'
  BY <1>1, <1>10, <1>12 DEF RecentInv, PageInv, SweepInv
<1>16. AnchorInv'
  <2>1. \A b \in Compared' : Canonical(b)'
    BY <1>7, <1>10, <1>12 DEF Compared
  <2>2. \A p \in scan'.pools : HoldsProof(p)' => scan'.current[p].hash \in scan'.canonical
    BY <1>7, <1>10 DEF HoldsProof
  <2> QED
    BY <2>1, <2>2 DEF AnchorInv
<1>17. JoinInv' /\ LogsInv' /\ VerifiedInv'
  BY <1>10 DEF JoinInv, LogsInv, VerifiedInv, Past
<1>18. moved' \in BOOLEAN
  BY <1>1
<1> QED
  BY <1>1, <1>13, <1>14, <1>15, <1>16, <1>17, <1>18, ScanStepKeeps DEF PageInv

LEMMA EndScanKeeps == ASSUME RecentInv, EndScan PROVE RecentInv'
BY RaiseStillKeeps DEF EndScan, Still, recentChainVars

LEMMA ReadAnchorKeeps == ASSUME RecentInv, ReadAnchor PROVE RecentInv'
<1>1. /\ scan # Nil /\ scan.pc = "anchor" /\ scan' = [scan EXCEPT !.pc = "fetch", !.before = At(scan.to)]
      /\ UNCHANGED <<recentChain, forks, orphaned, choice, moved, tape, proof, lock>>
  BY DEF ReadAnchor, ScanSame, Still, recentChainVars
<1>2. scan \in ScanRecords /\ scan.to \in 1..Tip /\ 1 <= scan.from /\ scan.from <= scan.to
  BY <1>1, ScanFields DEF RecentInv, RecentShape, ScanShape
<1>3. At(scan.to) \in Known /\ Height(At(scan.to)) = scan.to
  BY <1>2 DEF At, Known, Height, RecentInv, RecentShape, NodeShape
<1>4. /\ scan'.pc = "fetch" /\ scan'.before = At(scan.to) /\ scan'.pools = scan.pools /\ scan'.from = scan.from
      /\ scan'.to = scan.to /\ scan'.canonical = scan.canonical /\ scan'.current = scan.current
      /\ scan'.rows = scan.rows /\ scan' \in ScanRecords
  BY <1>1, <1>2, <1>3 DEF ScanRecords, ScanPhases
<1>5. Tip' = Tip /\ Known' = Known /\ Proofs' = Proofs /\ generation' = generation
      /\ (\A b : Canonical(b)' <=> Canonical(b)) /\ \A h : At(h)' = At(h)
  BY <1>1, StillIs DEF choice
<1>6. ScanShape'
  BY <1>1, <1>2, <1>3, <1>4, <1>5 DEF ScanShape, ScanRecords, RecentInv, RecentShape
<1>7. SnapshotInv' /\ SweepInv'
  <2>1. SnapshotInv'
    BY <1>1, <1>4, StillStays, SnapshotStays DEF RecentInv, PageInv, tape
  <2> QED
    BY <1>1, <1>4, <1>5, <2>1 DEF RecentInv, PageInv, SweepInv
<1>8. AnchorInv'
  BY <1>1, <1>4, <1>5 DEF RecentInv, PageInv, AnchorInv, Compared, HoldsProof
<1>9. JoinInv'
  <2> SUFFICES ASSUME NEW p \in scan.pools, HoldsProof(p),
                      NEW h \in scan.current[p].coverageFrom..Height(scan.current[p].hash),
                      <<p, At(h)>> \notin Quiet, NEW base \in scan.current[p].bases
               PROVE  Has(p, base, h)
    BY <1>1, <1>4, <1>5 DEF JoinInv, HoldsProof, Has, tape
  <2>1. p \in HotPools /\ scan.current[p].hash \in scan.canonical
    BY <1>1, ScanFields DEF RecentInv, PageInv, AnchorInv
  <2>2. Canonical(scan.current[p].hash)
    BY <1>1, <2>1 DEF RecentInv, PageInv, AnchorInv, Compared
  <2> QED
    BY <1>1, <2>1, <2>2 DEF RecentInv, PageInv, SnapshotInv, Exact, Covered, HoldsProof
<1>10. LogsInv' /\ VerifiedInv'
  BY <1>4 DEF LogsInv, VerifiedInv, Past
<1>11. moved' \in BOOLEAN
  BY <1>1 DEF RecentInv, RecentShape, ChoiceShape
<1> QED
  BY <1>1, <1>6, <1>7, <1>8, <1>9, <1>10, <1>11, ScanStepKeeps DEF PageInv

LEMMA FetchKeeps == ASSUME LiveAssumption, RecentInv, FetchLogs PROVE RecentInv'
<1> DEFINE logs == Swaps(scan.pools, scan.from, scan.to)
           middle == scan.from + (scan.to - scan.from) \div 2
<1>1. /\ scan # Nil /\ scan.pc = "fetch"
      /\ UNCHANGED <<recentChain, forks, orphaned, choice, moved, tape, proof, lock>>
      /\ \/ scan' = [scan EXCEPT !.pc = "process", !.logs = logs, !.left = EventBudget - scan.used]
         \/ scan' = [scan EXCEPT !.pc = "anchor", !.to = middle]
  BY DEF FetchLogs, ScanSame, Still, recentChainVars
<1>2. scan \in ScanRecords /\ scan.to \in 1..Tip /\ 1 <= scan.from /\ scan.from <= scan.to
  BY <1>1, ScanFields DEF RecentInv, RecentShape, ScanShape
<1>3. Tip' = Tip /\ Known' = Known /\ Proofs' = Proofs /\ generation' = generation
      /\ (\A b : Canonical(b)' <=> Canonical(b)) /\ (\A h : At(h)' = At(h))
      /\ \A pools, from, to : Swaps(pools, from, to)' = Swaps(pools, from, to)
  BY <1>1, StillIs DEF choice
<1>4. ScanRecords' = ScanRecords
  BY <1>3 DEF ScanRecords
<1>5. moved' \in BOOLEAN
  BY <1>1 DEF RecentInv, RecentShape, ChoiceShape
<1>6. CASE scan' = [scan EXCEPT !.pc = "process", !.logs = logs, !.left = EventBudget - scan.used]
  <2>1. logs \in SUBSET (HotPools \X Known)
    <3>1. \A h \in scan.from..scan.to : At(h) \in Known
      BY <1>1, <1>2, ScanFields DEF At, Known, RecentInv, RecentShape, NodeShape
    <3> QED
      BY <1>1, <3>1, ScanFields DEF Swaps, RecentInv
  <2> HIDE DEF logs
  <2>2. /\ scan'.pc = "process" /\ scan'.before = scan.before /\ scan'.pools = scan.pools
        /\ scan'.from = scan.from /\ scan'.to = scan.to /\ scan'.canonical = scan.canonical
        /\ scan'.current = scan.current /\ scan'.rows = scan.rows /\ scan'.logs = logs
        /\ scan'.todo = scan.todo
    BY <1>2, <1>6 DEF ScanRecords
  <2>3. scan' \in ScanRecords
    <3>1. "process" \in ScanPhases /\ EventBudget - scan.used \in Int
      BY <1>1, ScanFields DEF ScanPhases, RecentInv, LiveAssumption
    <3> QED
      BY <1>2, <1>6, <2>1, <3>1 DEF ScanRecords
  <2>4. ScanShape'
    <3>1. scan.before \in Known /\ Height(scan.before) = scan.to
          /\ \A p \in HotPools : scan.current[p] # Nil => proof[p] \in Proofs
      BY <1>1 DEF RecentInv, RecentShape, ScanShape
    <3> QED
      BY <1>1, <1>2, <1>3, <1>4, <2>2, <2>3, <3>1 DEF ScanShape, Height
  <2>5. SnapshotInv' /\ SweepInv'
    <3>1. SnapshotInv'
      BY <1>1, <2>2, StillStays, SnapshotStays DEF RecentInv, PageInv, tape
    <3> QED
      BY <1>1, <1>3, <2>2, <3>1 DEF RecentInv, PageInv, SweepInv
  <2>6. AnchorInv'
    BY <1>1, <1>3, <2>2 DEF RecentInv, PageInv, AnchorInv, Compared
  <2>7. JoinInv'
    BY <1>1, <1>3, <2>2 DEF RecentInv, PageInv, JoinInv, Past, HoldsProof, Has, tape
  <2>8. LogsInv'
    <3>1. Swaps(scan.pools, scan.from, scan.to)' = logs
      BY <1>3, <2>2 DEF logs, Swaps
    <3> QED
      BY <2>2, <3>1 DEF LogsInv
  <2>9. VerifiedInv'
    BY <2>2 DEF VerifiedInv, Past
  <2> QED
    BY <1>1, <1>5, <2>4, <2>5, <2>6, <2>7, <2>8, <2>9, ScanStepKeeps DEF PageInv
<1>7. CASE scan' = [scan EXCEPT !.pc = "anchor", !.to = middle]
  <2>1. middle \in scan.from..scan.to /\ middle \in 0..Tip
    BY <1>1, <1>2, ScanFields DEF RecentInv
  <2> HIDE DEF middle
  <2>2. /\ scan'.pc = "anchor" /\ scan'.pools = scan.pools /\ scan'.from = scan.from /\ scan'.to = middle
        /\ scan'.canonical = scan.canonical /\ scan'.current = scan.current /\ scan'.rows = scan.rows
    BY <1>2, <1>7 DEF ScanRecords
  <2>3. scan' \in ScanRecords
    BY <1>2, <1>7, <2>1 DEF ScanRecords, ScanPhases
  <2>4. ScanShape'
    <3>1. \A p \in HotPools : scan.current[p] # Nil => proof[p] \in Proofs
      BY <1>1 DEF RecentInv, RecentShape, ScanShape
    <3> QED
      BY <1>1, <1>2, <1>3, <1>4, <2>1, <2>2, <2>3, <3>1 DEF ScanShape
  <2>5. SnapshotInv' /\ SweepInv'
    <3>1. SnapshotInv'
      BY <1>1, <2>2, StillStays, SnapshotStays DEF RecentInv, PageInv, tape
    <3> QED
      BY <1>1, <1>3, <2>2, <3>1 DEF RecentInv, PageInv, SweepInv
  <2>6. AnchorInv'
    BY <1>1, <1>3, <2>2 DEF RecentInv, PageInv, AnchorInv, Compared, HoldsProof
  <2>7. JoinInv' /\ LogsInv' /\ VerifiedInv'
    BY <2>2 DEF JoinInv, LogsInv, VerifiedInv, Past
  <2> QED
    BY <1>1, <1>5, <2>4, <2>5, <2>6, <2>7, ScanStepKeeps DEF PageInv
<1> QED
  BY <1>1, <1>6, <1>7

\* A step of a page behind its fetch that changes no more of the scan than its
\* phase and what no later step relies on.
LEMMA LaterPhaseKeeps ==
  ASSUME RecentInv, scan # Nil, scan' \in ScanRecords, scan.pc \notin {"page", "anchor", "fetch"},
         scan'.pc \in {"page", "process", "verify", "sweep", "persist"},
         scan'.current = scan.current, scan'.canonical = scan.canonical, scan'.todo = scan.todo,
         scan'.pools = scan.pools, scan'.from = scan.from, scan'.to = scan.to, scan'.before = scan.before,
         scan'.logs = scan.logs, scan'.generation = scan.generation,
         UNCHANGED <<recentChain, forks, orphaned, choice, proof>>, TapeShape', ChoiceShape',
         TradesStay, SweepInv', VerifiedInv'
  PROVE  RecentInv'
<1>1. Tip' = Tip /\ Known' = Known /\ Proofs' = Proofs /\ generation' = generation
      /\ (\A b : Canonical(b)' <=> Canonical(b)) /\ (\A h : At(h)' = At(h))
      /\ \A pools, from, to : Swaps(pools, from, to)' = Swaps(pools, from, to)
  BY StillIs DEF choice
<1>2. ScanRecords' = ScanRecords
  BY <1>1 DEF ScanRecords
<1>3. scan \in ScanRecords /\ Tip \in Nat /\ scan.pools \subseteq HotPools /\ scan.to \in Nat /\ scan.to <= Tip
  BY ScanFields DEF RecentInv
<1>4. Onward
  BY <1>1 DEF Onward
<1>5. NodeShape' /\ ProofShape' /\ ReplacedInv' /\ ProofsInv'
  <2>1. NodeShape' /\ ProofShape' /\ ReplacedInv'
    BY <1>1 DEF RecentInv, RecentShape, NodeShape, ProofShape, ReplacedInv
  <2> QED
    BY <1>4, <2>1, ProofsStay DEF RecentInv
<1>6. ScanShape'
  <2>1. /\ scan.before \in Known /\ Height(scan.before) = scan.to /\ 1 <= scan.from /\ scan.from <= scan.to
        /\ \A p \in HotPools : scan.current[p] # Nil => proof[p] \in Proofs
    BY DEF RecentInv, RecentShape, ScanShape
  <2> QED
    BY <1>1, <1>2, <2>1 DEF ScanShape, Height
<1>7. SnapshotInv'
  BY <1>4, SnapshotStays DEF RecentInv, PageInv
<1>8. AnchorInv'
  BY <1>1 DEF RecentInv, PageInv, AnchorInv, Compared
<1>past. scan.pc \in {"process", "verify", "sweep", "persist"}
  BY <1>3 DEF ScanRecords, ScanPhases
<1>9. JoinInv'
  <2> SUFFICES ASSUME Canonical(scan.before), NEW p \in scan.pools, HoldsProof(p),
                      NEW h \in scan.current[p].coverageFrom..Height(scan.current[p].hash),
                      h <= scan.to, <<p, At(h)>> \notin Quiet, NEW base \in scan.current[p].bases
               PROVE  Has(p, base, h)'
    BY <1>1 DEF JoinInv, HoldsProof, Past
  <2>1. scan.current[p] \in Proofs
    BY <1>3 DEF ScanRecords, HoldsProof
  <2>2. h \in 1..Tip /\ base \in Bases /\ p \in HotPools
    BY <1>3, <2>1 DEF Proofs, Known, Height
  <2>3. Has(p, base, h)
    BY <1>past DEF RecentInv, PageInv, JoinInv, Past
  <2> QED
    BY <1>1, <2>2, <2>3 DEF TradesStay
<1>10. LogsInv'
  <2> SUFFICES ASSUME Canonical(scan.before)
               PROVE  scan.logs = Swaps(scan.pools, scan.from, scan.to)
    BY <1>1 DEF LogsInv, Past, Swaps
  <2> QED
    BY <1>past DEF RecentInv, PageInv, LogsInv, Past
<1> QED
  BY <1>5, <1>6, <1>7, <1>8, <1>9, <1>10 DEF RecentInv, RecentShape, PageInv

LEMMA ProcessKeeps == ASSUME RecentInv, ProcessNext PROVE RecentInv'
<1>1. /\ scan # Nil /\ scan.pc = "process"
      /\ UNCHANGED <<recentChain, forks, orphaned, choice, moved, proof, lock>>
  BY DEF ProcessNext, recentChainVars
<1>2. PICK log \in scan.logs \ done :
        Stored(log) /\ scan' = [scan EXCEPT !.used = @ + 1, !.left = @ - 1]
  BY DEF ProcessNext
<1>3. scan \in ScanRecords /\ scan.logs \subseteq HotPools \X Known /\ scan.used \in Int /\ scan.left \in Int
  BY <1>1, ScanFields DEF RecentInv, ScanRecords
<1>4. log \in HotPools \X Known
  BY <1>2, <1>3
<1>5. TapeShape' /\ TradesStay
  BY <1>1, <1>2, <1>4, StoredShape, StoredStays DEF RecentInv
<1>6. ChoiceShape'
  BY <1>1, StillIs, Zenon DEF RecentInv, RecentShape, ChoiceShape, choice
<1>7. /\ scan' \in ScanRecords /\ scan'.pc = scan.pc /\ scan'.current = scan.current
      /\ scan'.canonical = scan.canonical /\ scan'.todo = scan.todo /\ scan'.pools = scan.pools
      /\ scan'.from = scan.from /\ scan'.to = scan.to /\ scan'.before = scan.before
      /\ scan'.logs = scan.logs /\ scan'.rows = scan.rows /\ scan'.generation = scan.generation
  <2> DEFINE u == scan.used + 1
             l == scan.left - 1
  <2>1. u \in Int /\ l \in Int
    BY <1>3
  <2>2. scan' = [scan EXCEPT !.used = u, !.left = l]
    BY <1>2, Zenon
  <2> HIDE DEF u, l
  <2> QED
    BY <1>3, <2>1, <2>2 DEF ScanRecords
<1>8. SweepInv'
  BY <1>1, <1>7, StillIs DEF RecentInv, PageInv, SweepInv
<1>9. VerifiedInv'
  BY <1>1, <1>7 DEF VerifiedInv, Past
<1> QED
  BY <1>1, <1>5, <1>6, <1>7, <1>8, <1>9, LaterPhaseKeeps

\* The steps of a page that change neither tape nor proofs.
LEMMA PhaseKeeps ==
  ASSUME RecentInv, scan # Nil, scan.pc \in {"process", "verify", "sweep"},
         NEW phase \in {"page", "verify", "sweep", "persist"}, NEW rows \in SUBSET (HotPools \X Known),
         scan' = [scan EXCEPT !.pc = phase, !.rows = rows], UNCHANGED moved, Still,
         \A log \in rows : ~Canonical(BlockOf(log)), VerifiedInv'
  PROVE  RecentInv'
<1>1. UNCHANGED <<recentChain, forks, orphaned, choice, moved, tape, proof, lock>>
  BY DEF Still, recentChainVars
<1>2. scan \in ScanRecords
  BY ScanFields DEF RecentInv
<1>3. /\ scan' \in ScanRecords /\ scan'.pc = phase /\ scan'.current = scan.current
      /\ scan'.canonical = scan.canonical /\ scan'.todo = scan.todo /\ scan'.pools = scan.pools
      /\ scan'.from = scan.from /\ scan'.to = scan.to /\ scan'.before = scan.before
      /\ scan'.logs = scan.logs /\ scan'.rows = rows /\ scan'.generation = scan.generation
  BY <1>2 DEF ScanRecords, ScanPhases
<1>4. TapeShape' /\ ChoiceShape' /\ TradesStay
  <2>1. TapeShape'
    BY <1>1, StillIs DEF RecentInv, RecentShape, TapeShape, tape
  <2>2. ChoiceShape'
    BY <1>1, StillIs, Zenon DEF RecentInv, RecentShape, ChoiceShape, choice
  <2> QED
    BY <1>1, <2>1, <2>2, StillStays DEF tape
<1>5. SweepInv'
  BY <1>1, <1>3, StillIs DEF SweepInv
<1> QED
  BY <1>1, <1>3, <1>4, <1>5, LaterPhaseKeeps

LEMMA SettleKeeps == ASSUME RecentInv, Settle PROVE RecentInv'
<1> DEFINE phase == IF scan.logs \subseteq done THEN "verify" ELSE "page"
<1>1. scan # Nil /\ scan.pc = "process" /\ scan' = [scan EXCEPT !.pc = phase] /\ Still /\ UNCHANGED moved
  BY DEF Settle, ScanSame
<1>2. scan \in ScanRecords /\ scan.rows \in SUBSET (HotPools \X Known)
  BY <1>1, ScanFields DEF RecentInv, ScanRecords
<1>3. phase \in {"verify", "page"}
  OBVIOUS
<1> HIDE DEF phase
<1>4. scan' = [scan EXCEPT !.pc = phase, !.rows = scan.rows]
  BY <1>1, <1>2 DEF ScanRecords
<1>5. \A log \in scan.rows : ~Canonical(BlockOf(log))
  BY <1>1 DEF RecentInv, PageInv, SweepInv
<1>6. VerifiedInv'
  <2>1. scan'.pc = phase
    BY <1>1, <1>2 DEF ScanRecords
  <2> QED
    BY <1>3, <2>1 DEF VerifiedInv, Past
<1> QED
  BY <1>1, <1>2, <1>3, <1>4, <1>5, <1>6, PhaseKeeps

\* Where the end of the range has not changed the logs are those of the range,
\* so what is stored of it with another hash was replaced.
LEMMA VerifyKeeps == ASSUME RecentInv, VerifyTrades PROVE RecentInv'
<1>1. scan # Nil /\ scan.pc = "verify" /\ Still
  BY DEF VerifyTrades
<1>2. CASE Raise
  BY <1>1, <1>2, RaiseStillKeeps DEF Still, recentChainVars
<1>3. ASSUME SameEnd,
             \A log \in scan.logs : \A base \in selected[log[1]] :
               <<log[1], base, BlockOf(log)>> \in recentTrades,
             scan' = [scan EXCEPT !.pc = "sweep", !.rows = OrphanRows], UNCHANGED moved
      PROVE  RecentInv'
  <2>1. scan \in ScanRecords /\ scan.before \in Known /\ Height(scan.before) = scan.to /\ scan.to \in 1..Tip
        /\ 1 <= scan.from /\ scan.to \in Nat /\ Tip \in Nat /\ scan.from \in Nat
    BY <1>1, ScanFields DEF RecentInv, RecentShape, ScanShape
  <2>2. Canonical(scan.before)
    BY <1>3, <2>1 DEF SameEnd, Canonical
  <2>3. scan.logs = Swaps(scan.pools, scan.from, scan.to)
    BY <1>1, <2>2 DEF RecentInv, PageInv, LogsInv, Past
  <2>4. OrphanRows \in SUBSET (HotPools \X Known)
    BY DEF OrphanRows, RecentInv, RecentShape, TapeShape
  <2>5. ASSUME NEW h \in scan.from..scan.to PROVE Hash(h) = At(h)
    <3> DEFINE found == {BlockOf(log) : log \in scan.logs} \cap ({h} \X (0..MaxForks))
    <3>1. \A b \in found : b = At(h)
      <4> SUFFICES ASSUME NEW log \in scan.logs, BlockOf(log)[1] = h PROVE BlockOf(log) = At(h)
        OBVIOUS
      <4>1. PICK i \in scan.from..scan.to : log \in scan.pools \X {At(i)}
        BY <2>3 DEF Swaps
      <4> QED
        BY <4>1 DEF BlockOf, At
    <3>2. CASE found = {}
      BY <3>2 DEF Hash
    <3>3. CASE found # {}
      <4>1. Hash(h) \in found
        BY <3>3 DEF Hash
      <4> QED
        BY <3>1, <4>1
    <3> QED
      BY <3>2, <3>3
  <2>6. \A log \in OrphanRows : ~Canonical(BlockOf(log))
    BY <2>5 DEF OrphanRows, Canonical
  <2>7. VerifiedInv'
    <3>1. scan'.logs = scan.logs
      BY <1>3, <2>1 DEF ScanRecords
    <3> QED
      BY <1>1, <1>3, <3>1 DEF VerifiedInv, Still, choice, tape
  <2> QED
    BY <1>1, <1>3, <2>4, <2>6, <2>7, PhaseKeeps
<1> QED
  BY <1>2, <1>3 DEF VerifyTrades

LEMMA SweepKeeps == ASSUME RecentInv, SweepOrphan PROVE RecentInv'
<1>1. scan # Nil /\ scan.pc = "sweep" /\ UNCHANGED <<recentChain, forks, orphaned, choice, proof>>
  BY DEF SweepOrphan, recentChainVars
<1>2. PICK log \in scan.rows : Retracted(BlockOf(log)) /\ scan' = [scan EXCEPT !.rows = @ \ {log}]
  BY DEF SweepOrphan
<1>3. ~Canonical(BlockOf(log))
  BY <1>1 DEF RecentInv, PageInv, SweepInv
<1>4. TapeShape' /\ ChoiceShape' /\ TradesStay
  BY <1>1, <1>2, <1>3, RetractedStays, RetractedShape DEF RecentInv
<1>5. scan \in ScanRecords
  BY <1>1, ScanFields DEF RecentInv
<1>6. /\ scan' \in ScanRecords /\ scan'.pc = scan.pc /\ scan'.current = scan.current
      /\ scan'.canonical = scan.canonical /\ scan'.todo = scan.todo /\ scan'.pools = scan.pools
      /\ scan'.from = scan.from /\ scan'.to = scan.to /\ scan'.before = scan.before
      /\ scan'.logs = scan.logs /\ scan'.rows \subseteq scan.rows /\ scan'.generation = scan.generation
  BY <1>2, <1>5 DEF ScanRecords
<1>7. SweepInv'
  BY <1>1, <1>6, StillIs DEF RecentInv, PageInv, SweepInv, BlockOf
<1>8. VerifiedInv'
  <2>1. \A h : At(h)' = At(h)
    BY <1>1, StillIs
  <2> SUFFICES ASSUME Canonical(scan.before), scan.generation = generation,
                      NEW l \in scan.logs, NEW base \in selected[l[1]]
               PROVE  <<l[1], base, BlockOf(l)>> \in recentTrades'
    BY <1>1, <1>6, StillIs DEF VerifiedInv, Past, choice
  <2>2. <<l[1], base, BlockOf(l)>> \in recentTrades /\ l \in Swaps(scan.pools, scan.from, scan.to)
    BY <1>1 DEF RecentInv, PageInv, VerifiedInv, LogsInv, Past
  <2>3. PICK h \in scan.from..scan.to : l \in scan.pools \X {At(h)}
    BY <2>2 DEF Swaps
  <2>4. h \in 1..Tip /\ l[1] \in HotPools /\ BlockOf(l) = At(h)
    BY <1>1, <2>3, ScanFields DEF BlockOf, RecentInv, RecentShape, ScanShape
  <2>5. base \in Bases
    BY <2>4 DEF RecentInv, RecentShape, ChoiceShape
  <2> QED
    BY <1>4, <2>1, <2>2, <2>4, <2>5 DEF TradesStay, Has
<1> QED
  BY <1>1, <1>4, <1>5, <1>6, <1>7, <1>8, LaterPhaseKeeps

LEMMA RecheckKeeps == ASSUME RecentInv, Recheck PROVE RecentInv'
<1>1. scan # Nil /\ scan.pc = "sweep" /\ Still
  BY DEF Recheck
<1>2. CASE Raise
  BY <1>1, <1>2, RaiseStillKeeps DEF Still, recentChainVars
<1>3. ASSUME SameEnd, scan' = [scan EXCEPT !.pc = "persist", !.before = At(scan.to)], UNCHANGED moved
      PROVE  RecentInv'
  <2>1. scan \in ScanRecords /\ scan.rows \in SUBSET (HotPools \X Known)
    BY <1>1, ScanFields DEF RecentInv, ScanRecords
  <2>2. scan' = [scan EXCEPT !.pc = "persist", !.rows = scan.rows]
    BY <1>3, <2>1 DEF SameEnd, ScanRecords
  <2>3. \A log \in scan.rows : ~Canonical(BlockOf(log))
    BY <1>1 DEF RecentInv, PageInv, SweepInv
  <2>4. VerifiedInv'
    <3>1. scan'.logs = scan.logs /\ scan'.before = scan.before /\ scan'.generation = scan.generation
      BY <2>1, <2>2 DEF ScanRecords
    <3>2. UNCHANGED <<recentChain, forks, choice, tape>>
      BY <1>1 DEF Still, recentChainVars
    <3> QED
      BY <1>1, <3>1, <3>2, StillIs DEF RecentInv, PageInv, VerifiedInv, Past, choice, tape
  <2> QED
    BY <1>1, <1>3, <2>1, <2>2, <2>3, <2>4, PhaseKeeps
<1> QED
  BY <1>2, <1>3 DEF Recheck

\* A page joins its range to the coverage of a proof it follows without a gap.
LEMMA PersistedExact ==
  ASSUME RecentInv, scan # Nil, scan.pc = "persist", scan.generation = generation, NEW p \in scan.pools,
         NEW q, q = [hash |-> scan.before, from |-> scan.from, ok |-> TRUE, bases |-> selected[p],
                     coverageFrom |-> IF Contiguous(p) THEN scan.current[p].coverageFrom ELSE scan.from]
  PROVE  q \in Proofs /\ Exact(p, q)
<1>1. /\ scan \in ScanRecords /\ scan.before \in Known /\ Height(scan.before) = scan.to /\ p \in HotPools
      /\ scan.from \in 1..Tip /\ scan.to \in 1..Tip /\ scan.from <= scan.to /\ Tip \in Nat
  BY ScanFields DEF RecentInv, RecentShape, ScanShape
<1>2. selected[p] \subseteq Bases
  BY <1>1 DEF RecentInv, RecentShape, ChoiceShape
<1>3. ASSUME Contiguous(p)
      PROVE  /\ scan.current[p] \in Proofs /\ scan.current[p].coverageFrom \in 1..Tip
             /\ Height(scan.current[p].hash) \in 1..Tip
             /\ scan.from <= Height(scan.current[p].hash) + 1 /\ scan.current[p].bases = selected[p]
  <2>1. scan.current[p] \in Proofs
    BY <1>1, <1>3 DEF Contiguous, HoldsProof, ScanRecords
  <2> QED
    BY <1>3, <2>1 DEF Contiguous, Proofs, Known, Height
<1>4. q.coverageFrom = IF Contiguous(p) THEN scan.current[p].coverageFrom ELSE scan.from
  OBVIOUS
<1>5. q.hash = scan.before /\ q.from = scan.from /\ q.bases = selected[p]
  OBVIOUS
<1>6. q \in Proofs
  <2>1. q.coverageFrom \in 1..Tip
    BY <1>1, <1>3, <1>4
  <2> QED
    BY <1>1, <1>2, <2>1 DEF Proofs
<1>7. SUFFICES ASSUME Canonical(scan.before)
               PROVE  /\ Covered(p, selected[p], scan.from, scan.to)
                      /\ Covered(p, selected[p], q.coverageFrom, scan.to)
  BY <1>1, <1>5, <1>6 DEF Exact
<1>8. ASSUME NEW h \in scan.from..scan.to, <<p, At(h)>> \notin Quiet, NEW base \in selected[p]
      PROVE  Has(p, base, h)
  <2>1. <<p, At(h)>> \in Swaps(scan.pools, scan.from, scan.to)
    BY <1>8 DEF Swaps
  <2>2. <<p, At(h)>> \in scan.logs
    BY <1>7, <2>1 DEF RecentInv, PageInv, LogsInv, Past
  <2>3. \A log \in scan.logs : \A b \in selected[log[1]] : <<log[1], b, BlockOf(log)>> \in recentTrades
    BY <1>7 DEF RecentInv, PageInv, VerifiedInv, Past
  <2> QED
    BY <1>8, <2>2, <2>3 DEF Has, BlockOf
<1>9. CASE Contiguous(p)
  <2> SUFFICES ASSUME NEW h \in scan.current[p].coverageFrom..scan.to, <<p, At(h)>> \notin Quiet,
                      NEW base \in selected[p]
               PROVE  Has(p, base, h)
    BY <1>4, <1>8, <1>9 DEF Covered
  <2>1. CASE h < scan.from
    <3>1. h \in scan.current[p].coverageFrom..Height(scan.current[p].hash) /\ h <= scan.to
      BY <1>1, <1>3, <1>9, <2>1
    <3>2. HoldsProof(p) /\ base \in scan.current[p].bases
      BY <1>3, <1>9 DEF Contiguous
    <3> QED
      BY <1>7, <3>1, <3>2 DEF RecentInv, PageInv, JoinInv, Past
  <2>2. CASE h >= scan.from
    BY <1>1, <1>3, <1>8, <1>9, <2>2
  <2> QED
    BY <1>1, <1>3, <1>9, <2>1, <2>2
<1> QED
  BY <1>4, <1>8, <1>9 DEF Covered

LEMMA PersistKeeps == ASSUME RecentInv, PersistProofs PROVE RecentInv'
<1>1. /\ scan # Nil /\ scan.pc = "persist"
      /\ UNCHANGED <<recentChain, forks, orphaned, choice, tape, lock>>
  BY DEF PersistProofs, recentChainVars
<1>2. CASE Raise /\ UNCHANGED proof
  BY <1>1, <1>2, RaiseStillKeeps
<1>3. CASE ~(Raise /\ UNCHANGED proof)
  <2>1. /\ StillCurrent /\ scan' = [scan EXCEPT !.pc = "page"] /\ UNCHANGED moved
        /\ proof' = [p \in HotPools |-> IF p \notin scan.pools THEN proof[p] ELSE
             [hash |-> scan.before, from |-> scan.from, ok |-> TRUE, bases |-> selected[p],
              coverageFrom |-> IF Contiguous(p) THEN scan.current[p].coverageFrom ELSE scan.from]]
    BY <1>3 DEF PersistProofs
  <2>2. scan.generation = generation
    BY <2>1 DEF StillCurrent
  <2>3. /\ Tip' = Tip /\ Known' = Known /\ Proofs' = Proofs
        /\ \A b : Canonical(b)' <=> Canonical(b)
    BY <1>1, StillIs
  <2>4. Onward /\ TradesStay
    BY <1>1, StillStays DEF tape
  <2>5. \A p \in HotPools, q \in Proofs \cup {Nil} : Exact(p, q) => Exact(p, q)'
    BY <2>4, ExactStays DEF RecentInv, RecentShape
  <2>6. ASSUME NEW p \in HotPools
        PROVE  /\ proof'[p] \in Proofs \cup {Nil} /\ Exact(p, proof'[p])
               /\ proof[p] \in Proofs \/ p \in scan.pools => proof'[p] \in Proofs
    <3>1. CASE p \in scan.pools
      BY <1>1, <2>1, <2>2, <3>1, PersistedExact
    <3>2. CASE p \notin scan.pools
      BY <2>1, <3>2 DEF RecentInv, RecentShape, ProofShape, ProofsInv
    <3> QED
      BY <3>1, <3>2
  <2>7. ProofShape'
    <3>1. proof' = [p \in HotPools |-> proof'[p]]
      BY <2>1
    <3> QED
      BY <2>3, <2>6, <3>1 DEF ProofShape
  <2>8. ProofsInv'
    <3> SUFFICES ASSUME NEW p \in HotPools PROVE Exact(p, proof[p])'
      BY DEF ProofsInv
    <3>1. \A q : q = proof'[p] /\ q \in Proofs \cup {Nil} /\ Exact(p, q) => Exact(p, proof[p])'
      BY <2>5 DEF Exact, Covered
    <3> QED
      BY <2>6, <3>1
  <2>9. scan \in ScanRecords
    BY <1>1, ScanFields DEF RecentInv
  <2>10. /\ scan' \in ScanRecords /\ scan'.pc = "page" /\ scan'.current = scan.current
         /\ scan'.canonical = scan.canonical /\ scan'.todo = scan.todo /\ scan'.rows = scan.rows
    BY <2>1, <2>9 DEF ScanRecords, ScanPhases
  <2>11. ScanShape'
    <3>1. ScanRecords' = ScanRecords
      BY <1>1, <2>3 DEF ScanRecords, choice
    <3>2. \A p \in HotPools : scan.current[p] # Nil => proof'[p] \in Proofs
      BY <1>1, <2>6 DEF RecentInv, RecentShape, ScanShape
    <3> QED
      BY <2>3, <2>10, <3>1, <3>2 DEF ScanShape
  <2>12. NodeShape' /\ TapeShape' /\ ReplacedInv'
    BY <1>1, <2>3 DEF RecentInv, RecentShape, NodeShape, TapeShape, ReplacedInv, tape
  <2>13. ChoiceShape'
    BY <1>1, <2>1, <2>3, Zenon DEF RecentInv, RecentShape, ChoiceShape, choice
  <2>14. SnapshotInv'
    BY <1>1, <2>4, <2>10, SnapshotStays DEF RecentInv, PageInv
  <2>15. SweepInv'
    BY <1>1, <2>3, <2>10 DEF RecentInv, PageInv, SweepInv
  <2>16. AnchorInv'
    <3>1. Compared' \subseteq Compared
      BY <1>1, <2>10 DEF Compared
    <3> QED
      BY <2>3, <2>10, <3>1 DEF RecentInv, PageInv, AnchorInv
  <2>17. JoinInv' /\ LogsInv' /\ VerifiedInv'
    BY <2>10 DEF JoinInv, LogsInv, VerifiedInv, Past
  <2> QED
    BY <2>7, <2>8, <2>11, <2>12, <2>13, <2>14, <2>15, <2>16, <2>17 DEF RecentInv, RecentShape, PageInv
<1> QED
  BY <1>2, <1>3

-----------------------------------------------------------------------------
(* Every step keeps the invariant.                                          *)

LEMMA RecentStep ==
  ASSUME LiveAssumption, AnchorRace = FALSE, RecentInv, [RecentNext]_recentVars PROVE RecentInv'
<1>1. CASE Mine
  BY <1>1, MineKeeps
<1>2. ASSUME NEW h \in 1..MaxTip, Reorganise(h) PROVE RecentInv'
  BY <1>2, ReorganiseKeeps
<1>3. ASSUME NEW p \in HotPools, NEW h \in 1..MaxTip, LiveLog(p, h) PROVE RecentInv'
  BY <1>3, LiveLogKeeps
<1>4. ASSUME NEW b \in Blocks, AnnouncedRemoval(b) PROVE RecentInv'
  BY <1>4, RemovalKeeps
<1>5. CASE InvalidateProofs
  BY <1>5, InvalidateKeeps
<1>6. ASSUME NEW chosen \in [HotPools -> SUBSET Bases], RefreshCatalogue(chosen) PROVE RecentInv'
  BY <1>6, RefreshKeeps
<1>7. CASE StartScan
  BY <1>7, StartScanKeeps
<1>8. ASSUME NEW pools \in SUBSET HotPools, StartPage(pools) PROVE RecentInv'
  BY <1>8, StartPageKeeps
<1>9. ASSUME NEW p \in HotPools, AnchorLost(p) PROVE RecentInv'
  BY <1>9, AnchorLostKeeps
<1>10. CASE EndScan \/ ReadAnchor \/ FetchLogs
  BY <1>10, EndScanKeeps, ReadAnchorKeeps, FetchKeeps
<1>11. CASE ProcessNext \/ Settle \/ VerifyTrades
  BY <1>11, ProcessKeeps, SettleKeeps, VerifyKeeps
<1>12. CASE SweepOrphan \/ Recheck \/ PersistProofs
  BY <1>12, SweepKeeps, RecheckKeeps, PersistKeeps
<1>13. CASE ScanFails \/ Restart
  BY <1>13, RaiseStillKeeps DEF ScanFails, Restart, recentChainVars
<1>14. CASE UNCHANGED recentVars
  <2>1. UNCHANGED <<recentChain, forks, orphaned, choice, moved, tape, proof, lock, scan>>
    BY <1>14 DEF recentVars, recentChainVars
  <2>2. TapeShape' /\ ChoiceShape' /\ ProofShape'
    <3>1. TapeShape' /\ ProofShape'
      BY <2>1, StillIs DEF RecentInv, RecentShape, TapeShape, ProofShape, tape
    <3>2. ChoiceShape'
      BY <2>1, StillIs, Zenon DEF RecentInv, RecentShape, ChoiceShape, choice
    <3> QED
      BY <3>1, <3>2
  <2>3. TradesStay /\ ProofsInv'
    BY <2>1, StillStays, ProofsStay DEF RecentInv, tape
  <2>4. generation' = generation /\ selected' = selected /\ generation \in Nat
    BY <2>1 DEF choice, RecentInv, RecentShape, ChoiceShape
  <2> QED
    BY <2>1, <2>2, <2>3, <2>4, BesideKeeps
<1> QED
  BY <1>1, <1>2, <1>3, <1>4, <1>5, <1>6, <1>7, <1>8, <1>9, <1>10, <1>11, <1>12, <1>13, <1>14
     DEF RecentNext

\* What the invariant says of proofs, their bounds and types.
LEMMA RecentInvMeans == ASSUME LiveAssumption, RecentInv PROVE ProofExact /\ RecentTypeOK
<1>1. /\ Tip \in 1..MaxTip /\ MaxTip \in Nat /\ forks \in 0..MaxForks /\ MaxForks \in Nat
      /\ Known \subseteq Blocks
  BY DEF RecentInv, RecentShape, NodeShape, LiveAssumption, Known, Blocks
<1>2. ASSUME NEW p \in HotPools, proof[p] # Nil
      PROVE  /\ proof[p] \in Proofs /\ proof[p].hash \in Known
             /\ {proof[p].from, proof[p].coverageFrom} \subseteq 1..Tip
             /\ \A from : Covered(p, proof[p].bases, from, Height(proof[p].hash)) => Holds(p, from)
  <2>1. proof[p] \in Proofs
    BY <1>2 DEF RecentInv, RecentShape, ProofShape
  <2> QED
    BY <2>1 DEF Proofs, Covered, Holds, Has
<1>3. ProofExact
  BY <1>2 DEF ProofExact, RecentInv, ProofsInv, Exact
<1>4. RecentTypeOK
  <2>1. Len(recentChain) \in 1..MaxTip /\ selected \in [HotPools -> SUBSET Bases] /\ generation \in 0..MaxSelections
    BY <1>1 DEF Tip, RecentInv, RecentShape, ChoiceShape
  <2>2. moved \in BOOLEAN /\ (lock = Nil \/ lock \in 1..Tip)
    BY Zenon DEF RecentInv, RecentShape, ChoiceShape
  <2>3. done \subseteq raw /\ raw \subseteq HotPools \X Blocks /\ recentTrades \subseteq HotPools \X Bases \X Blocks
    BY <1>1 DEF RecentInv, RecentShape, TapeShape
  <2>4. \A p \in HotPools : proof[p] # Nil =>
          proof[p].hash \in Blocks /\ {proof[p].from, proof[p].coverageFrom} \subseteq 1..MaxTip
    BY <1>1, <1>2
  <2>5. orphaned \subseteq Blocks
    BY <1>1 DEF RecentInv, RecentShape, NodeShape
  <2>6. scan # Nil => scan.pc \in ScanPhases
    BY DEF RecentInv, RecentShape, ScanShape, ScanRecords
  <2>7. lock = Nil \/ lock \in 1..MaxTip
    BY <1>1, <2>2
  <2> QED
    BY <2>1, <2>2, <2>3, <2>4, <2>5, <2>6, <2>7, Zenon DEF RecentTypeOK, ScanPhases
<1> QED
  BY <1>3, <1>4

\* Without the race on a compared anchor, a proof whose end is canonical never
\* lacks a trade of the range or of the coverage it claims (scan_recent_pools).
THEOREM RecentProofsExact ==
  ASSUME LiveAssumption, AnchorRace = FALSE PROVE RecentSpec => []ProofExact
<1>1. RecentInit => RecentInv
  BY RecentBegins
<1>2. RecentInv /\ [RecentNext]_recentVars => RecentInv'
  BY RecentStep
<1>3. RecentInv => ProofExact
  BY RecentInvMeans
<1> QED
  BY <1>1, <1>2, <1>3, PTL DEF RecentSpec

\* The variables of the recent scan keep their types.
THEOREM RecentTypes ==
  ASSUME LiveAssumption, AnchorRace = FALSE PROVE RecentSpec => []RecentTypeOK
<1>1. RecentInit => RecentInv
  BY RecentBegins
<1>2. RecentInv /\ [RecentNext]_recentVars => RecentInv'
  BY RecentStep
<1>3. RecentInv => RecentTypeOK
  BY RecentInvMeans
<1> QED
  BY <1>1, <1>2, <1>3, PTL DEF RecentSpec
=============================================================================
