-------------------------- MODULE EventStreamProofs --------------------------
(***************************************************************************)
(* No tab misses an event (NoGap of EventStream), for any number of tabs,  *)
(* ids, sizes of queues, pages and batches, and any number of faults - as  *)
(* long as retention deletes ids in order (StampLag = 0) and does not      *)
(* commit between the two statements of one page (~PruneInPage).  The run  *)
(* over EventStream_race.cfg shows that the second is needed.              *)
(***************************************************************************)
EXTENDS EventStream, SequenceTheorems, FiniteSetTheorems, TLAPS

-----------------------------------------------------------------------------
(* The inductive invariant.                                                 *)

\* The journal keeps every committed id from its lowest one on, the tailer's
\* cursor included, and the id being written lies above all of them.
JournalInv ==
  /\ committed \subseteq 1..allocated
  /\ inflight \subseteq {allocated} \ committed
  /\ \A i \in committed, j \in journal : j <= i => i \in journal
  /\ \A i \in committed \ journal : i < tailCursor
  /\ tailCursor = 0 \/ tailCursor \in journal
  /\ journal = {} \/ \E top \in journal : \A i \in journal : i <= top
  /\ snapshot <= Cursor

\* A batch of the tailer holds every committed id between its cursor and the
\* batch's last id.
TailInv ==
  /\ Ascending(tailRows)
  /\ \A k \in DOMAIN tailRows :
       /\ tailRows[k] \in journal /\ tailRows[k] > tailCursor
       /\ \A i \in committed : tailCursor < i /\ i <= tailRows[k] => i \in ToSet(tailRows)

\* What a queue holds: ids below the tailer's cursor in order, or the closing
\* mark of a subscriber that was dropped.
QueueInv(c) ==
  IF c \in subscribed
  THEN Ascending(queue[c]) /\ \A k \in DOMAIN queue[c] : queue[c][k] \in committed /\ queue[c][k] <= tailCursor
  ELSE \A k \in DOMAIN queue[c] : queue[c][k] = Closing

\* The event i is among the first n frames on the wire.
Sent(c, i, n) == \E p \in 1..n : wire[c][p] = Frame("event", i)

\* Every event of the subscription between the page's cursor and `to` is among
\* the first n frames.
Covered(c, to, n) ==
  \A i \in committed : Visible(c, i) /\ lastEventId[c] < i /\ i <= to => Sent(c, i, n)

\* A frame that moves the page's cursor comes behind all events it passes; a
\* reset is the last frame but for the end.
WireInv(c) ==
  \A k \in DOMAIN wire[c] :
    /\ wire[c][k].type \in {"event", "checkpoint"} =>
         wire[c][k].id <= Cursor /\ Covered(c, wire[c][k].id, k)
    /\ wire[c][k].type = "reset" => \A l \in k + 1..Len(wire[c]) : wire[c][l].type = "end"

\* What an open response has passed is on the wire, and what it has not is
\* still ahead: in the journal, or in its queue.
ConnInv(c) ==
  conn[c].mode # "closed" =>
    /\ phase[c] = "open"
    /\ conn[c].seen <= Cursor /\ conn[c].upper <= Cursor
    /\ \A k \in DOMAIN wire[c] : wire[c][k].type \in {"event", "checkpoint"}
    /\ Covered(c, conn[c].seen, Len(wire[c]))
    /\ conn[c].mode \in {"replay", "rows"} => conn[c].seen <= conn[c].upper
    /\ conn[c].mode = "rows" => \A i \in committed : conn[c].seen < i => i \in journal
    /\ conn[c].mode = "live" => conn[c].upper <= conn[c].seen
    /\ conn[c].mode # "opening" /\ c \in subscribed =>
         \A i \in committed :
           conn[c].upper < i /\ i <= tailCursor => i <= conn[c].seen \/ i \in ToSet(queue[c])

\* The page itself.
PageInv(c) ==
  /\ lastEventId[c] <= Cursor
  /\ phase[c] = "boot" => wire[c] = <<>> /\ conn[c].mode = "closed"
  /\ phase[c] # "boot" =>
       \A i \in committed : i <= lastEventId[c] => i \in reflected[c] \/ ~Visible(c, i)

ClientInv(c) == QueueInv(c) /\ WireInv(c) /\ ConnInv(c) /\ PageInv(c)

StreamInv == TypeOK /\ JournalInv /\ TailInv /\ \A c \in Clients : ClientInv(c)

-----------------------------------------------------------------------------
(* Operators.                                                               *)

\* cursor() returns the highest id when there is one.
LEMMA HighestTop ==
  ASSUME NEW S \in SUBSET Nat, NEW top \in S, \A i \in S : i <= top
  PROVE  Highest(S) = top
<1>1. \A x \in S : (\A y \in S : x >= y) <=> x = top
  OBVIOUS
<1>2. Max(S) = top
  BY <1>1 DEF Max
<1> QED  BY <1>2 DEF Highest

\* Ascending rows end with the highest of them.
LEMMA LastTop ==
  ASSUME NEW s \in Seq(Nat), s # <<>>, Ascending(s)
  PROVE  Len(s) \in DOMAIN s /\ Last(s) = s[Len(s)] /\ \A k \in DOMAIN s : s[k] <= s[Len(s)]
<1>1. DOMAIN s = 1..Len(s) /\ Len(s) \in Nat \ {0}
  BY LenProperties, EmptySeq
<1>2. \A k \in DOMAIN s : s[k] \in Nat
  BY <1>1, ElementOfSeq
<1>3. Len(s) \in DOMAIN s /\ Last(s) = s[Len(s)]
  BY <1>1 DEF Last
<1>4. ASSUME NEW k \in DOMAIN s  PROVE s[k] <= s[Len(s)]
  <2>1. k = Len(s) \/ s[k] < s[Len(s)]
    BY <1>1, <1>3 DEF Ascending
  <2> QED  BY <2>1, <1>2, <1>3
<1> QED  BY <1>3, <1>4

\* What ORDER BY id LIMIT n returns: ids in order, and none left out below any
\* of them.
LEMMA FirstIdsFirst ==
  ASSUME NEW S \in SUBSET Nat, NEW n \in Nat \ {0}, NEW s \in FirstIds(S, n)
  PROVE  /\ s \in Seq(S) /\ s \in Seq(Nat) /\ Ascending(s) /\ Len(s) <= n
         /\ s = <<>> => S = {}
         /\ \A i \in S, k \in DOMAIN s : i <= s[k] => i \in ToSet(s)
<1>1. PICK m \in 0..n : s \in [1..m -> S]
  BY DEF FirstIds, BoundedSeq, SeqOf
<1>2. s \in Seq(S) /\ Len(s) = m /\ DOMAIN s = 1..m
  BY <1>1, SeqDef, LenProperties
<1>3. s \in Seq(Nat)
  BY <1>2, SeqMonotonic
<1>4. Ascending(s) /\ \A i \in S : i \in ToSet(s) \/ (Len(s) = n /\ \A j \in ToSet(s) : j < i)
  BY DEF FirstIds
<1>5. ASSUME s = <<>>, NEW i \in S  PROVE FALSE
  <2>1. ToSet(s) = {} /\ Len(s) = 0
    BY <1>5 DEF ToSet
  <2> QED  BY <2>1, <1>4
<1>6. ASSUME NEW i \in S, NEW k \in DOMAIN s, i <= s[k]  PROVE i \in ToSet(s)
  <2>1. s[k] \in ToSet(s) /\ s[k] \in Nat
    BY <1>1 DEF ToSet
  <2> QED  BY <2>1, <1>4, <1>6
<1> QED  BY <1>2, <1>3, <1>4, <1>5, <1>6

\* A queue or a wire without its head.
LEMMA TailParts ==
  ASSUME NEW S, NEW s \in Seq(S), s # <<>>
  PROVE  /\ Tail(s) \in Seq(S) /\ Len(Tail(s)) = Len(s) - 1
         /\ DOMAIN Tail(s) = 1..Len(s) - 1 /\ \A k \in DOMAIN Tail(s) : Tail(s)[k] = s[k + 1] /\ k + 1 \in DOMAIN s
         /\ DOMAIN s = 1..Len(s) /\ 1 \in DOMAIN s /\ Head(s) = s[1] /\ Len(s) \in Nat \ {0}
BY HeadTailProperties, LenProperties, EmptySeq

\* A queue or a wire with more behind it.
LEMMA ConcatParts ==
  ASSUME NEW S, NEW s \in Seq(S), NEW t \in Seq(S)
  PROVE  /\ s \o t \in Seq(S) /\ Len(s) \in Nat /\ Len(t) \in Nat
         /\ DOMAIN (s \o t) = 1..Len(s) + Len(t) /\ Len(s \o t) = Len(s) + Len(t)
         /\ DOMAIN s = 1..Len(s) /\ DOMAIN t = 1..Len(t)
         /\ \A k \in 1..Len(s) : (s \o t)[k] = s[k]
         /\ \A k \in 1..Len(t) : (s \o t)[Len(s) + k] = t[k]
<1>1. DOMAIN s = 1..Len(s) /\ DOMAIN t = 1..Len(t) /\ Len(s) \in Nat /\ Len(t) \in Nat
  BY LenProperties
<1>2. /\ s \o t \in Seq(S) /\ Len(s \o t) = Len(s) + Len(t)
      /\ \A k \in 1..Len(s) + Len(t) : (s \o t)[k] = IF k <= Len(s) THEN s[k] ELSE t[k - Len(s)]
  BY ConcatProperties
<1>3. DOMAIN (s \o t) = 1..Len(s \o t)
  BY <1>2, LenProperties
<1> QED  BY <1>1, <1>2, <1>3

-----------------------------------------------------------------------------
(* The journal.                                                             *)

\* Where the journal's head lies.
CursorOK ==
  /\ Cursor \in Nat
  /\ journal = {} => Cursor = 0
  /\ journal # {} => Cursor \in journal
  /\ \A i \in committed : i <= Cursor
  /\ tailCursor <= Cursor

LEMMA CursorTop == TypeOK /\ JournalInv => CursorOK
<1> SUFFICES ASSUME TypeOK, JournalInv  PROVE CursorOK
  OBVIOUS
<1>1. journal \in SUBSET Nat /\ committed \in SUBSET Nat /\ 0 \notin committed /\ journal \subseteq committed /\ tailCursor \in Nat
  BY DEF TypeOK, Ids
<1>2. CASE journal = {}
  <2>1. Cursor = 0 /\ tailCursor = 0
    BY <1>2 DEF JournalInv, Cursor, Highest
  <2> QED  BY <1>1, <1>2, <2>1 DEF JournalInv, CursorOK
<1>3. CASE journal # {}
  <2>1. PICK top \in journal : \A i \in journal : i <= top
    BY <1>3 DEF JournalInv
  <2>2. Cursor = top
    BY <1>1, <2>1, HighestTop DEF Cursor
  <2>3. tailCursor <= top
    BY <1>1, <2>1 DEF JournalInv
  <2>4. \A i \in committed : i <= top
    BY <1>1, <2>1, <2>3 DEF JournalInv
  <2> QED  BY <1>1, <1>3, <2>1, <2>2, <2>3, <2>4 DEF CursorOK
<1> QED  BY <1>2, <1>3

\* With an `at` in the order of the ids a pass deletes the lowest ids.
LEMMA PruneLowest ==
  ASSUME TypeOK, StampLag = 0, NEW S \in Prunable(tailCursor)
  PROVE  /\ S \subseteq journal /\ \A i \in S : i < tailCursor
         /\ \A i \in S, j \in journal : j < i => j \in S
<1>1. S \subseteq journal /\ \A i \in S : i < tailCursor
  BY DEF Prunable
<1>2. ASSUME NEW i \in S, NEW j \in journal, j < i, j \notin S  PROVE FALSE
  <2> DEFINE below == {k \in journal \ S : k < i}
  <2>1. Cardinality(below) <= 0
    <3>1. Cardinality({k \in journal \ S : k < i}) <= StampLag
      BY DEF Prunable
    <3> QED  BY <3>1
  <2>2. i \in Nat /\ \A k \in journal : k \in Nat
    BY <1>1 DEF TypeOK, Ids
  <2>3. below \in SUBSET Nat /\ \A k \in below : k <= i
    BY <2>2
  <2> HIDE DEF below
  <2>4. IsFiniteSet(below)
    BY <2>2, <2>3, FS_BoundedSetOfNaturals
  <2>5. below = {}
    BY <2>1, <2>4, FS_EmptySet, FS_CardinalityType
  <2> QED  BY <1>2, <2>5 DEF below
<1> QED  BY <1>1, <1>2

-----------------------------------------------------------------------------
(* A tab that stands still while the journal goes on.                       *)

Conns == [mode : {"closed", "opening", "replay", "rows", "live"},
          upper : 0..MaxId, seen : 0..MaxId, owed : BOOLEAN]

ClientType(c) ==
  /\ conn[c] \in Conns /\ queue[c] \in Seq(0..MaxId) /\ Len(queue[c]) <= QueueMax
  /\ wire[c] \in Seq(Frames) /\ phase[c] \in {"boot", "connect", "open"}
  /\ lastEventId[c] \in 0..MaxId /\ reflected[c] \in SUBSET Ids

LEMMA TypesOfClient ==
  ASSUME TypeOK, NEW c \in Clients  PROVE ClientType(c)
BY DEF TypeOK, ClientType, Conns

\* The journal only moves on above its head, and keeps the rows a page of c is
\* about to read.
Onward(c) ==
  /\ Cursor' \in Nat /\ Cursor <= Cursor' /\ committed \subseteq committed'
  /\ \A i \in committed' \ committed : i \in Nat /\ i > Cursor /\ i \in journal'
  /\ \A i \in committed : audience'[i] = audience[i]
  /\ conn[c].mode = "rows" => journal \subseteq journal'

ClientStill(c) ==
  /\ conn'[c] = conn[c] /\ queue'[c] = queue[c] /\ wire'[c] = wire[c]
  /\ phase'[c] = phase[c] /\ lastEventId'[c] = lastEventId[c] /\ reflected'[c] = reflected[c]
  /\ c \in subscribed' <=> c \in subscribed

\* The same of the next state, for an id that need not be of that state.
SentNext(c, i, n) == \E p \in 1..n : wire'[c][p] = Frame("event", i)
CoveredNext(c, to, n) ==
  \A i \in committed' : c \in audience'[i] /\ lastEventId'[c] < i /\ i <= to => SentNext(c, i, n)

LEMMA NextCovered ==
  ASSUME NEW c \in Clients
  PROVE  /\ WireInv(c)' <=>
              \A k \in DOMAIN wire'[c] :
                /\ wire'[c][k].type \in {"event", "checkpoint"} =>
                     wire'[c][k].id <= Cursor' /\ CoveredNext(c, wire'[c][k].id, k)
                /\ wire'[c][k].type = "reset" => \A l \in k + 1..Len(wire'[c]) : wire'[c][l].type = "end"
         /\ Covered(c, conn[c].seen, Len(wire[c]))' <=> CoveredNext(c, conn'[c].seen, Len(wire'[c]))
BY DEF WireInv, Covered, CoveredNext, Sent, SentNext, Visible, Frame

LEMMA CoveredOnward ==
  ASSUME TypeOK, CursorOK, NEW c \in Clients, Onward(c), NEW to \in Nat, to <= Cursor, NEW n \in Nat,
         wire'[c] = wire[c], lastEventId'[c] = lastEventId[c], Covered(c, to, n)
  PROVE  CoveredNext(c, to, n)
<1> SUFFICES ASSUME NEW i \in committed', c \in audience'[i], lastEventId[c] < i, i <= to
             PROVE  SentNext(c, i, n)
  BY DEF CoveredNext
<1>1. i \in committed
  BY DEF Onward, CursorOK
<1>2. Visible(c, i)
  BY <1>1 DEF Onward, Visible
<1> QED  BY <1>1, <1>2 DEF Covered, Sent, SentNext

LEMMA ClientCalm ==
  ASSUME TypeOK, CursorOK, NEW c \in Clients, ClientInv(c), Onward(c), ClientStill(c),
         tailCursor' = tailCursor
  PROVE  ClientInv(c)'
<1> USE DEF ClientStill
<1>1. /\ ClientType(c) /\ DOMAIN wire[c] = 1..Len(wire[c]) /\ Len(wire[c]) \in Nat
      /\ \A k \in DOMAIN wire[c] : wire[c][k].id \in Nat
      /\ conn[c].seen \in Nat /\ conn[c].upper \in Nat /\ lastEventId[c] \in Nat /\ tailCursor \in Nat
  <2>1. ClientType(c)
    BY TypesOfClient
  <2>2. DOMAIN wire[c] = 1..Len(wire[c]) /\ Len(wire[c]) \in Nat
    BY <2>1, LenProperties DEF ClientType
  <2>3. \A k \in DOMAIN wire[c] : wire[c][k] \in Frames
    BY <2>1, <2>2, ElementOfSeq DEF ClientType
  <2> QED  BY <2>1, <2>2, <2>3 DEF ClientType, Conns, Frames, TypeOK
<1>2. \A i \in committed' : i \in Nat /\ (i <= Cursor => i \in committed)
  BY DEF Onward, CursorOK, TypeOK, Ids
<1>3. QueueInv(c)'
  BY DEF QueueInv, ClientInv, Onward
<1>4. WireInv(c)'
  <2> SUFFICES ASSUME NEW k \in DOMAIN wire[c]
               PROVE  /\ wire[c][k].type \in {"event", "checkpoint"} =>
                           wire[c][k].id <= Cursor' /\ CoveredNext(c, wire[c][k].id, k)
                      /\ wire[c][k].type = "reset" => \A l \in k + 1..Len(wire[c]) : wire[c][l].type = "end"
    BY NextCovered
  <2>1. CASE wire[c][k].type \in {"event", "checkpoint"}
    <3>1. wire[c][k].id <= Cursor /\ Covered(c, wire[c][k].id, k)
      BY <2>1 DEF ClientInv, WireInv
    <3>2. CoveredNext(c, wire[c][k].id, k)
      BY <1>1, <3>1, CoveredOnward
    <3>3. wire[c][k].id <= Cursor'
      BY <1>1, <3>1 DEF Onward, CursorOK
    <3> QED  BY <2>1, <3>2, <3>3
  <2> QED  BY <2>1 DEF ClientInv, WireInv
<1>5. ConnInv(c)'
  <2> SUFFICES ASSUME conn[c].mode # "closed"  PROVE ConnInv(c)'
    BY DEF ConnInv
  <2> USE DEF ClientInv, ConnInv
  <2>1. conn[c].seen <= Cursor' /\ conn[c].upper <= Cursor'
    BY <1>1 DEF Onward, CursorOK
  <2>2. Covered(c, conn[c].seen, Len(wire[c]))'
    <3>1. CoveredNext(c, conn[c].seen, Len(wire[c]))
      BY <1>1, CoveredOnward
    <3> QED  BY <3>1, NextCovered
  <2>3. conn[c].mode = "rows" => \A i \in committed' : conn[c].seen < i => i \in journal'
    BY DEF Onward
  <2>4. conn[c].mode # "opening" /\ c \in subscribed =>
          \A i \in committed' : conn[c].upper < i /\ i <= tailCursor => i <= conn[c].seen \/ i \in ToSet(queue[c])
    BY <1>1, <1>2 DEF CursorOK
  <2> QED  BY <2>1, <2>2, <2>3, <2>4
<1>6. PageInv(c)'
  <2>1. lastEventId[c] <= Cursor' /\ lastEventId[c] <= Cursor
    BY <1>1 DEF ClientInv, PageInv, Onward, CursorOK
  <2>2. ASSUME phase[c] # "boot", NEW i \in committed', i <= lastEventId[c]
        PROVE  i \in reflected[c] \/ ~Visible(c, i)'
    <3>1. i \in committed
      BY <1>1, <1>2, <2>1, <2>2 DEF CursorOK
    <3> QED  BY <2>2, <3>1 DEF ClientInv, PageInv, Onward, Visible
  <2> QED  BY <2>1, <2>2 DEF ClientInv, PageInv
<1> QED  BY <1>3, <1>4, <1>5, <1>6 DEF ClientInv

-----------------------------------------------------------------------------
(* The writers of the journal, and the tailer's read.                       *)

LEMMA StreamFacts ==
  ASSUME StreamAssumption, StreamInv
  PROVE  /\ TypeOK /\ JournalInv /\ TailInv /\ CursorOK /\ Cursor \in 0..MaxId
         /\ allocated \in Nat /\ tailCursor \in Nat /\ snapshot \in Nat
         /\ committed \in SUBSET Nat /\ journal \subseteq committed
         /\ \A k \in DOMAIN tailRows : tailRows[k] \in Nat
<1>1. TypeOK /\ JournalInv /\ TailInv
  BY DEF StreamInv
<1>2. CursorOK
  BY <1>1, CursorTop
<1>3. allocated \in Nat /\ tailCursor \in Nat /\ snapshot \in Nat /\ committed \in SUBSET Nat /\ journal \subseteq committed
  BY <1>1 DEF TypeOK, Ids
<1>4. Cursor \in 0..MaxId
  BY <1>1, <1>2, <1>3 DEF CursorOK, TypeOK, Ids, StreamAssumption
<1>5. \A k \in DOMAIN tailRows : tailRows[k] \in Nat
  BY <1>1, <1>3 DEF TailInv
<1> QED  BY <1>1, <1>2, <1>3, <1>4, <1>5

\* Nothing of a tab changes.
LEMMA JournalStep ==
  ASSUME StreamInv, TypeOK', JournalInv', TailInv',
         UNCHANGED <<tailCursor, subscribed, queue, conn, wire, pageVars>>,
         \A c \in Clients : Onward(c)
  PROVE  StreamInv'
<1>1. CursorOK
  BY CursorTop DEF StreamInv
<1>2. \A c \in Clients : ClientStill(c)
  BY DEF ClientStill, pageVars
<1>3. \A c \in Clients : ClientInv(c)'
  BY <1>1, <1>2, ClientCalm DEF StreamInv
<1> QED  BY <1>3 DEF StreamInv

LEMMA AllocateKeeps == ASSUME StreamAssumption, StreamInv, AllocateEvent  PROVE StreamInv'
<1> USE DEF AllocateEvent, hubVars, pageVars
<1>1. /\ TypeOK /\ JournalInv /\ TailInv /\ CursorOK /\ Cursor \in 0..MaxId
      /\ allocated \in Nat /\ tailCursor \in Nat /\ snapshot \in Nat
      /\ committed \in SUBSET Nat /\ journal \subseteq committed
      /\ \A k \in DOMAIN tailRows : tailRows[k] \in Nat
  BY StreamFacts
<1>2. allocated + 1 \in Ids /\ allocated + 1 \notin committed
  BY <1>1 DEF JournalInv, TypeOK, Ids, StreamAssumption
<1>3. PICK who \in SUBSET Clients : audience' = [audience EXCEPT ![allocated + 1] = who]
  OBVIOUS
<1>4. audience' \in [Ids -> SUBSET Clients] /\ \A i \in committed : audience'[i] = audience[i]
  BY <1>1, <1>2, <1>3 DEF TypeOK
<1>5. TypeOK'
  <2>1. allocated' \in 0..MaxId /\ inflight' \in SUBSET Ids
    BY <1>1, <1>2 DEF TypeOK, Ids
  <2> QED  BY <1>1, <1>4, <2>1 DEF TypeOK
<1>6. JournalInv'
  BY <1>1, <1>2 DEF JournalInv, Cursor
<1>7. TailInv'
  BY <1>1 DEF TailInv
<1>8. \A c \in Clients : Onward(c)
  BY <1>1, <1>4 DEF Onward, Cursor, CursorOK
<1> QED  BY <1>5, <1>6, <1>7, <1>8, JournalStep DEF pageVars

LEMMA EndKeeps == ASSUME StreamAssumption, StreamInv, EndTransaction  PROVE StreamInv'
<1> USE DEF EndTransaction, hubVars, pageVars
<1>1. /\ TypeOK /\ JournalInv /\ TailInv /\ CursorOK /\ Cursor \in 0..MaxId
      /\ allocated \in Nat /\ tailCursor \in Nat /\ snapshot \in Nat
      /\ committed \in SUBSET Nat /\ journal \subseteq committed
      /\ \A k \in DOMAIN tailRows : tailRows[k] \in Nat
  BY StreamFacts
<1>2. PICK i \in inflight :
        /\ inflight' = inflight \ {i}
        /\ \/ journal' = journal \cup {i} /\ committed' = committed \cup {i}
           \/ UNCHANGED <<journal, committed>>
        /\ UNCHANGED <<allocated, audience, snapshot, hubVars, wire, pageVars, faults>>
  OBVIOUS
<1>3. i = allocated /\ i \notin committed /\ i \in Ids /\ i \in Nat
  BY <1>1 DEF JournalInv, TypeOK, Ids
<1>4. TypeOK'
  BY <1>1, <1>2, <1>3 DEF TypeOK
<1>5. CASE UNCHANGED <<journal, committed>>
  <2>1. JournalInv'
    BY <1>1, <1>2, <1>5 DEF JournalInv, Cursor
  <2>2. TailInv'
    BY <1>1, <1>2, <1>5 DEF TailInv
  <2>3. \A c \in Clients : Onward(c)
    BY <1>1, <1>2, <1>5 DEF Onward, Cursor, CursorOK
  <2> QED  BY <1>2, <1>4, <2>1, <2>2, <2>3, JournalStep
<1>6. CASE journal' = journal \cup {i} /\ committed' = committed \cup {i}
  <2>1. \A j \in committed : j < i
    BY <1>1, <1>3 DEF JournalInv
  <2>2. Cursor < i
    <3>1. Cursor = 0 \/ Cursor \in committed
      BY <1>1 DEF CursorOK
    <3>2. i > 0
      BY <1>3 DEF Ids
    <3> QED  BY <3>1, <3>2, <2>1
  <2>3. Cursor' = i
    <3>1. journal' \in SUBSET Nat /\ i \in journal' /\ \A j \in journal' : j <= i
      BY <1>1, <1>3, <1>6, <2>1
    <3> QED  BY <3>1, HighestTop DEF Cursor
  <2>4. JournalInv'
    <3>1. committed' \subseteq 1..allocated' /\ inflight' \subseteq {allocated'} \ committed'
      BY <1>1, <1>2, <1>3, <1>6 DEF JournalInv, Ids
    <3>2. \A k \in committed', j \in journal' : j <= k => k \in journal'
      BY <1>1, <1>3, <1>6, <2>1 DEF JournalInv
    <3>3. \A k \in committed' \ journal' : k < tailCursor'
      BY <1>1, <1>2, <1>6 DEF JournalInv
    <3>4. tailCursor' = 0 \/ tailCursor' \in journal'
      BY <1>1, <1>2, <1>6 DEF JournalInv
    <3>5. \E top \in journal' : \A k \in journal' : k <= top
      BY <1>1, <1>3, <1>6, <2>1
    <3>6. snapshot' <= Cursor'
      BY <1>1, <1>2, <1>3, <2>2, <2>3 DEF JournalInv, CursorOK, TypeOK
    <3> QED  BY <3>1, <3>2, <3>3, <3>4, <3>5, <3>6 DEF JournalInv
  <2>5. TailInv'
    <3>1. \A k \in DOMAIN tailRows : tailRows[k] < i /\ tailRows[k] \in Nat
      BY <1>1, <2>1 DEF TailInv
    <3> QED  BY <1>1, <1>2, <1>3, <1>6, <3>1 DEF TailInv
  <2>6. \A c \in Clients : Onward(c)
    BY <1>1, <1>2, <1>3, <1>6, <2>2, <2>3 DEF Onward, CursorOK
  <2> QED  BY <1>2, <1>4, <2>4, <2>5, <2>6, JournalStep
<1> QED  BY <1>2, <1>5, <1>6

LEMMA PruneKeeps ==
  ASSUME StreamAssumption, StampLag = 0, PruneInPage = FALSE, StreamInv, Prune  PROVE StreamInv'
<1> USE DEF Prune, hubVars, pageVars
<1>1. /\ TypeOK /\ JournalInv /\ TailInv /\ CursorOK /\ Cursor \in 0..MaxId
      /\ allocated \in Nat /\ tailCursor \in Nat /\ snapshot \in Nat
      /\ committed \in SUBSET Nat /\ journal \subseteq committed
      /\ \A k \in DOMAIN tailRows : tailRows[k] \in Nat
  BY StreamFacts
<1>2. PICK S \in Prunable(tailCursor) : journal' = journal \ S
  OBVIOUS
<1>3. /\ S \subseteq journal /\ \A i \in S : i < tailCursor
      /\ \A i \in S, j \in journal : j < i => j \in S
  BY <1>1, PruneLowest
<1>4. TypeOK'
  BY <1>1, <1>2 DEF TypeOK
<1>5. journal' # {} => Cursor \in journal' /\ Cursor' = Cursor
  <2> SUFFICES ASSUME journal' # {}  PROVE Cursor \in journal' /\ Cursor' = Cursor
    OBVIOUS
  <2>1. Cursor \in journal
    BY <1>1, <1>2 DEF CursorOK
  <2>2. Cursor \notin S
    BY <1>1, <1>3 DEF CursorOK
  <2>3. \A j \in journal' : j <= Cursor
    BY <1>1, <1>2 DEF CursorOK
  <2>4. journal' \in SUBSET Nat
    BY <1>1, <1>2
  <2> QED  BY <1>2, <2>1, <2>2, <2>3, <2>4, HighestTop DEF Cursor
<1>6. journal' = {} => journal = {}
  <2>1. ASSUME journal' = {}, journal # {}  PROVE FALSE
    <3>1. Cursor \in S
      BY <1>1, <1>2, <2>1 DEF CursorOK
    <3> QED  BY <1>1, <1>3, <3>1 DEF CursorOK
  <2> QED  BY <2>1
<1>7. Cursor' = Cursor
  BY <1>5, <1>6 DEF Cursor
<1>8. JournalInv'
  <2>1. \A i \in committed', j \in journal' : j <= i => i \in journal'
    <3> SUFFICES ASSUME NEW i \in committed, NEW j \in journal', j <= i  PROVE i \in journal'
      OBVIOUS
    <3>1. j \in journal /\ j \notin S /\ i \in journal
      BY <1>1, <1>2 DEF JournalInv
    <3>2. i \notin S
      BY <1>1, <1>3, <3>1
    <3> QED  BY <1>2, <3>1, <3>2
  <2>2. \A i \in committed' \ journal' : i < tailCursor'
    BY <1>1, <1>2, <1>3 DEF JournalInv
  <2>3. tailCursor' = 0 \/ tailCursor' \in journal'
    BY <1>1, <1>2, <1>3 DEF JournalInv
  <2>4. journal' = {} \/ \E top \in journal' : \A i \in journal' : i <= top
    BY <1>1, <1>2, <1>5 DEF CursorOK
  <2>5. /\ committed' \subseteq 1..allocated' /\ inflight' \subseteq {allocated'} \ committed'
        /\ snapshot' <= Cursor'
    BY <1>1, <1>7 DEF JournalInv
  <2> QED  BY <2>1, <2>2, <2>3, <2>4, <2>5 DEF JournalInv
<1>9. TailInv'
  <2>1. \A k \in DOMAIN tailRows : tailRows[k] \in journal'
    <3> SUFFICES ASSUME NEW k \in DOMAIN tailRows  PROVE tailRows[k] \in journal'
      OBVIOUS
    <3>1. tailRows[k] \in journal /\ tailRows[k] > tailCursor
      BY <1>1 DEF TailInv
    <3>2. \A i \in S : i < tailCursor /\ i \in Nat
      BY <1>1, <1>3
    <3>3. tailRows[k] \notin S
      BY <1>1, <3>1, <3>2
    <3> QED  BY <1>2, <3>1, <3>3
  <2> QED  BY <1>1, <2>1 DEF TailInv
<1>10. \A c \in Clients : Onward(c)
  BY <1>1, <1>7 DEF Onward, CursorOK
<1> QED  BY <1>4, <1>8, <1>9, <1>10, JournalStep

LEMMA PublishKeeps == ASSUME StreamAssumption, StreamInv, PublishSnapshot  PROVE StreamInv'
<1> USE DEF PublishSnapshot, journalVars, hubVars, pageVars
<1>1. /\ TypeOK /\ JournalInv /\ TailInv /\ CursorOK /\ Cursor \in 0..MaxId
      /\ allocated \in Nat /\ tailCursor \in Nat /\ snapshot \in Nat
      /\ committed \in SUBSET Nat /\ journal \subseteq committed
      /\ \A k \in DOMAIN tailRows : tailRows[k] \in Nat
  BY StreamFacts
<1>2. Cursor' = Cursor
  BY DEF Cursor
<1>3. snapshot' \in 0..MaxId /\ snapshot' <= Cursor
  BY <1>1 DEF StreamAssumption
<1>4. TypeOK' /\ JournalInv' /\ TailInv' /\ \A c \in Clients : Onward(c)
  BY <1>1, <1>2, <1>3 DEF TypeOK, JournalInv, TailInv, Onward, CursorOK
<1> QED  BY <1>4, JournalStep

\* _tail_rows reads the lowest rows above the cursor.
LEMMA TailReadKeeps == ASSUME StreamAssumption, StreamInv, TailRead  PROVE StreamInv'
<1> USE DEF TailRead, journalVars, pageVars
<1>1. /\ TypeOK /\ JournalInv /\ TailInv /\ CursorOK /\ Cursor \in 0..MaxId
      /\ allocated \in Nat /\ tailCursor \in Nat /\ snapshot \in Nat
      /\ committed \in SUBSET Nat /\ journal \subseteq committed
      /\ \A k \in DOMAIN tailRows : tailRows[k] \in Nat
  BY StreamFacts
<1> DEFINE ahead == {i \in journal : i > tailCursor}
<1>2. ahead \in SUBSET Nat /\ TailSize \in Nat \ {0} /\ tailRows' \in FirstIds(ahead, TailSize)
  BY <1>1 DEF StreamAssumption
<1>3. ahead \subseteq Ids
  BY <1>1 DEF TypeOK
<1>4. \A i \in committed : i > tailCursor => i \in ahead
  BY <1>1 DEF JournalInv
<1> HIDE DEF ahead
<1>5. /\ tailRows' \in Seq(ahead) /\ Ascending(tailRows')
      /\ \A i \in ahead, k \in DOMAIN tailRows' : i <= tailRows'[k] => i \in ToSet(tailRows')
  BY <1>2, FirstIdsFirst
<1>6. tailRows' \in Seq(Ids)
  BY <1>3, <1>5, SeqMonotonic
<1>7. \A k \in DOMAIN tailRows' : tailRows'[k] \in ahead
  BY <1>5, LenProperties, ElementOfSeq
<1>8. TypeOK'
  BY <1>1, <1>6 DEF TypeOK
<1>9. TailInv'
  <2>1. \A k \in DOMAIN tailRows' : tailRows'[k] \in journal /\ tailRows'[k] > tailCursor
    BY <1>7 DEF ahead
  <2> QED  BY <1>4, <1>5, <2>1 DEF TailInv
<1>10. JournalInv' /\ \A c \in Clients : Onward(c)
  BY <1>1 DEF JournalInv, Onward, Cursor, CursorOK
<1> QED  BY <1>8, <1>9, <1>10, JournalStep

-----------------------------------------------------------------------------
(* The tailer's fan-out, and the restart of its process.                    *)

LEMMA AppendAscending ==
  ASSUME NEW s \in Seq(Nat), NEW t \in Seq(Nat), Ascending(s), Ascending(t),
         \A j \in DOMAIN s, k \in DOMAIN t : s[j] < t[k]
  PROVE  /\ Ascending(s \o t)
         /\ \A x : x \in ToSet(s \o t) <=> x \in ToSet(s) \/ x \in ToSet(t)
<1>1. /\ Len(s) \in Nat /\ Len(t) \in Nat /\ DOMAIN (s \o t) = 1..Len(s) + Len(t)
      /\ DOMAIN s = 1..Len(s) /\ DOMAIN t = 1..Len(t)
      /\ \A k \in 1..Len(s) : (s \o t)[k] = s[k]
      /\ \A k \in 1..Len(t) : (s \o t)[Len(s) + k] = t[k]
  BY ConcatParts
<1>2. \A k \in DOMAIN (s \o t) : \/ k \in DOMAIN s /\ (s \o t)[k] = s[k]
                                 \/ k > Len(s) /\ k - Len(s) \in DOMAIN t /\ (s \o t)[k] = t[k - Len(s)]
  <2> SUFFICES ASSUME NEW k \in 1..Len(s) + Len(t), k > Len(s)
               PROVE  k - Len(s) \in 1..Len(t) /\ (s \o t)[k] = t[k - Len(s)]
    BY <1>1
  <2>1. k - Len(s) \in 1..Len(t) /\ Len(s) + (k - Len(s)) = k
    BY <1>1
  <2> QED  BY <1>1, <2>1
<1>3. Ascending(s \o t)
  <2> SUFFICES ASSUME NEW j \in DOMAIN (s \o t), NEW k \in DOMAIN (s \o t), j < k
               PROVE  (s \o t)[j] < (s \o t)[k]
    BY DEF Ascending
  <2>1. CASE k \in DOMAIN s
    BY <1>1, <2>1 DEF Ascending
  <2>2. CASE k \notin DOMAIN s /\ j \in DOMAIN s
    BY <1>1, <1>2, <2>2
  <2>3. CASE k \notin DOMAIN s /\ j \notin DOMAIN s
    <3>1. /\ k - Len(s) \in DOMAIN t /\ (s \o t)[k] = t[k - Len(s)]
          /\ j - Len(s) \in DOMAIN t /\ (s \o t)[j] = t[j - Len(s)]
      BY <1>2, <2>3
    <3>2. j - Len(s) < k - Len(s)
      BY <1>1
    <3> QED  BY <3>1, <3>2 DEF Ascending
  <2> QED  BY <2>1, <2>2, <2>3
<1>4. ASSUME NEW x  PROVE x \in ToSet(s \o t) <=> x \in ToSet(s) \/ x \in ToSet(t)
  <2>1. ASSUME x \in ToSet(s)  PROVE x \in ToSet(s \o t)
    BY <1>1, <2>1 DEF ToSet
  <2>2. ASSUME x \in ToSet(t)  PROVE x \in ToSet(s \o t)
    <3>1. PICK k \in DOMAIN t : x = t[k]
      BY <2>2 DEF ToSet
    <3>2. Len(s) + k \in DOMAIN (s \o t) /\ (s \o t)[Len(s) + k] = x
      BY <1>1, <3>1
    <3> QED  BY <3>2 DEF ToSet
  <2>3. ASSUME x \in ToSet(s \o t)  PROVE x \in ToSet(s) \/ x \in ToSet(t)
    <3>1. PICK k \in DOMAIN (s \o t) : x = (s \o t)[k]
      BY <2>3 DEF ToSet
    <3> QED  BY <1>2, <3>1 DEF ToSet
  <2> QED  BY <2>1, <2>2, <2>3
<1> QED  BY <1>3, <1>4

\* What _fanout does to one subscriber.
LEMMA FanoutClient ==
  ASSUME StreamAssumption, StreamInv, Fanout, NEW c \in Clients
  PROVE  ClientInv(c)' /\ queue'[c] \in Seq(0..MaxId) /\ Len(queue'[c]) <= QueueMax
<1>1. /\ TypeOK /\ JournalInv /\ TailInv /\ CursorOK /\ Cursor \in 0..MaxId
      /\ tailCursor \in Nat /\ committed \in SUBSET Nat /\ journal \subseteq committed
      /\ \A k \in DOMAIN tailRows : tailRows[k] \in Nat
  BY StreamFacts
<1>2. ClientInv(c) /\ ClientType(c)
  BY <1>1, TypesOfClient DEF StreamInv
<1>3. tailRows \in Seq(Nat) /\ tailRows \in Seq(0..MaxId) /\ queue[c] \in Seq(0..MaxId) /\ queue[c] \in Seq(Nat)
  <2>1. tailRows \in Seq(Ids) /\ Ids \subseteq Nat /\ Ids \subseteq 0..MaxId /\ 0..MaxId \subseteq Nat
    BY <1>1 DEF TypeOK, Ids
  <2> QED  BY <1>2, <2>1, SeqMonotonic DEF ClientType
<1>4. /\ Len(tailRows) \in DOMAIN tailRows /\ tailCursor' = tailRows[Len(tailRows)]
      /\ \A k \in DOMAIN tailRows : tailRows[k] <= tailCursor' /\ tailRows[k] > tailCursor
      /\ tailCursor' \in Nat /\ tailCursor < tailCursor' /\ Ascending(tailRows)
  <2>1. /\ Len(tailRows) \in DOMAIN tailRows /\ Last(tailRows) = tailRows[Len(tailRows)]
        /\ \A k \in DOMAIN tailRows : tailRows[k] <= tailRows[Len(tailRows)]
    BY <1>1, <1>3, LastTop DEF Fanout, TailInv
  <2>2. tailCursor' = tailRows[Len(tailRows)]
    BY <2>1 DEF Fanout
  <2> QED  BY <1>1, <2>1, <2>2 DEF TailInv
<1>5. /\ UNCHANGED <<journal, committed, audience, conn, wire, phase, lastEventId, reflected>>
      /\ Cursor' = Cursor
  BY DEF Fanout, journalVars, pageVars, Cursor
<1> DEFINE full == Len(queue[c]) + Len(tailRows) > QueueMax
<1>6. /\ c \in subscribed /\ full => queue'[c] = <<Closing>> /\ c \notin subscribed'
      /\ c \in subscribed /\ ~full => queue'[c] = queue[c] \o tailRows /\ c \in subscribed'
      /\ c \notin subscribed => queue'[c] = queue[c] /\ c \notin subscribed'
  BY DEF Fanout
<1>7. Len(queue[c]) \in Nat /\ Len(tailRows) \in Nat
  BY <1>3, LenProperties
<1> HIDE DEF full
<1>8. queue'[c] \in Seq(0..MaxId) /\ Len(queue'[c]) <= QueueMax
  <2>1. CASE c \in subscribed /\ full
    <3>1. <<Closing>> \in Seq(0..MaxId) /\ Len(<<Closing>>) = 1
      BY DEF Closing, StreamAssumption
    <3>2. 1 <= QueueMax
      BY DEF StreamAssumption
    <3>3. queue'[c] = <<Closing>>
      BY <1>6, <2>1
    <3> QED  BY <3>1, <3>2, <3>3
  <2>2. CASE c \in subscribed /\ ~full
    <3>1. queue[c] \o tailRows \in Seq(0..MaxId) /\ Len(queue[c] \o tailRows) = Len(queue[c]) + Len(tailRows)
      BY <1>3, ConcatParts
    <3>2. Len(queue[c]) + Len(tailRows) <= QueueMax
      BY <1>7, <2>2 DEF full, StreamAssumption
    <3> QED  BY <1>6, <2>2, <3>1, <3>2
  <2>3. CASE c \notin subscribed
    BY <1>2, <1>6, <2>3 DEF ClientType
  <2> QED  BY <2>1, <2>2, <2>3
<1>9. ASSUME c \in subscribed, ~full
      PROVE  /\ Ascending(queue'[c])
             /\ \A x : x \in ToSet(queue'[c]) <=> x \in ToSet(queue[c]) \/ x \in ToSet(tailRows)
  <2>1. Ascending(queue[c]) /\ \A j \in DOMAIN queue[c] : queue[c][j] \in Nat /\ queue[c][j] <= tailCursor
    BY <1>1, <1>2, <1>9 DEF ClientInv, QueueInv
  <2>2. \A j \in DOMAIN queue[c], k \in DOMAIN tailRows : queue[c][j] < tailRows[k]
    BY <1>1, <1>4, <2>1
  <2> QED  BY <1>3, <1>4, <1>6, <1>9, <2>1, <2>2, AppendAscending
<1>10. QueueInv(c)'
  <2>1. CASE c \in subscribed /\ full
    BY <1>6, <2>1 DEF QueueInv
  <2>2. CASE c \in subscribed /\ ~full
    <3>1. \A x \in ToSet(queue[c]) : x \in committed /\ x <= tailCursor'
      <4> SUFFICES ASSUME NEW k \in DOMAIN queue[c]  PROVE queue[c][k] \in committed /\ queue[c][k] <= tailCursor'
        BY DEF ToSet
      <4>1. queue[c][k] \in committed /\ queue[c][k] <= tailCursor
        BY <1>2, <2>2 DEF ClientInv, QueueInv
      <4>2. queue[c][k] \in Nat
        BY <1>1, <4>1
      <4> QED  BY <1>1, <1>4, <4>1, <4>2
    <3>2. \A x \in ToSet(tailRows) : x \in committed /\ x <= tailCursor'
      BY <1>1, <1>4 DEF TailInv, ToSet
    <3>3. \A k \in DOMAIN queue'[c] : queue'[c][k] \in ToSet(queue'[c])
      BY DEF ToSet
    <3> QED  BY <1>5, <1>6, <1>9, <2>2, <3>1, <3>2, <3>3 DEF QueueInv
  <2>3. CASE c \notin subscribed
    BY <1>2, <1>6, <2>3 DEF ClientInv, QueueInv
  <2> QED  BY <2>1, <2>2, <2>3
<1>11. WireInv(c)' /\ PageInv(c)'
  BY <1>2, <1>5 DEF ClientInv, WireInv, PageInv, Covered, Sent, Visible
<1>12. ConnInv(c)'
  <2>1. ASSUME conn[c].mode # "closed", conn[c].mode # "opening", c \in subscribed',
               NEW i \in committed, conn[c].upper < i, i <= tailCursor', i > conn[c].seen
        PROVE  i \in ToSet(queue'[c])
    <3>1. c \in subscribed /\ ~full
      BY <1>6, <2>1
    <3>2. CASE i <= tailCursor
      <4>1. conn[c].seen \in Nat /\ i \in Nat
        BY <1>1, <1>2 DEF ClientType, Conns
      <4>2. i <= conn[c].seen \/ i \in ToSet(queue[c])
        BY <1>2, <2>1, <3>1, <3>2 DEF ClientInv, ConnInv
      <4> QED  BY <1>9, <2>1, <3>1, <4>1, <4>2
    <3>3. CASE tailCursor < i
      <4>1. i \in ToSet(tailRows)
        BY <1>1, <1>4, <2>1, <3>3 DEF TailInv
      <4> QED  BY <1>9, <3>1, <4>1
    <3> QED  BY <1>1, <3>2, <3>3
  <2>2. \A i \in committed : i \in Nat /\ (conn[c].seen \in Nat => i <= conn[c].seen \/ i > conn[c].seen)
    BY <1>1
  <2>3. conn[c].seen \in Nat
    BY <1>2 DEF ClientType, Conns
  <2> SUFFICES ASSUME conn[c].mode # "closed"  PROVE ConnInv(c)'
    BY <1>5 DEF ConnInv
  <2>4. conn[c].mode # "opening" /\ c \in subscribed' =>
         \A i \in committed : conn[c].upper < i /\ i <= tailCursor' => i <= conn[c].seen \/ i \in ToSet(queue'[c])
    BY <2>1, <2>2, <2>3
  <2> QED  BY <1>2, <1>5, <2>4 DEF ClientInv, ConnInv, Covered, Sent, Visible
<1> QED  BY <1>8, <1>10, <1>11, <1>12 DEF ClientInv

LEMMA FanoutKeeps == ASSUME StreamAssumption, StreamInv, Fanout  PROVE StreamInv'
<1> USE DEF Fanout, journalVars, pageVars
<1>1. /\ TypeOK /\ JournalInv /\ TailInv /\ CursorOK /\ Cursor \in 0..MaxId
      /\ tailCursor \in Nat /\ committed \in SUBSET Nat /\ journal \subseteq committed
      /\ \A k \in DOMAIN tailRows : tailRows[k] \in Nat
  BY StreamFacts
<1>2. tailCursor' \in journal /\ tailCursor < tailCursor'
  <2>1. tailRows \in Seq(Ids) /\ Ids \subseteq Nat
    BY <1>1 DEF TypeOK, Ids
  <2>2. tailRows \in Seq(Nat)
    BY <2>1, SeqMonotonic
  <2>3. Len(tailRows) \in DOMAIN tailRows /\ Last(tailRows) = tailRows[Len(tailRows)]
    BY <1>1, <2>2, LastTop DEF TailInv
  <2> QED  BY <1>1, <2>3 DEF TailInv
<1>3. JournalInv'
  BY <1>1, <1>2 DEF JournalInv, Cursor
<1>4. TailInv'
  BY DEF TailInv, Ascending
<1>5. \A c \in Clients : ClientInv(c)' /\ queue'[c] \in Seq(0..MaxId) /\ Len(queue'[c]) <= QueueMax
  BY FanoutClient
<1>6. TypeOK'
  <2>1. tailCursor' \in 0..MaxId /\ tailRows' \in Seq(Ids) /\ subscribed' \in SUBSET Clients
    BY <1>1, <1>2 DEF TypeOK, Ids
  <2>2. queue' \in [Clients -> Seq(0..MaxId)]
    BY <1>5
  <2> QED  BY <1>1, <1>5, <2>1, <2>2 DEF TypeOK
<1> QED  BY <1>3, <1>4, <1>5, <1>6 DEF StreamInv

\* start_hub begins at the journal's head; every response is gone.
LEMMA RestartKeeps == ASSUME StreamAssumption, StreamInv, RestartApi  PROVE StreamInv'
<1> USE DEF RestartApi, journalVars
<1>1. /\ TypeOK /\ JournalInv /\ CursorOK /\ Cursor \in 0..MaxId
      /\ tailCursor \in Nat /\ committed \in SUBSET Nat /\ journal \subseteq committed
  BY StreamFacts
<1>2. /\ conn' = [c \in Clients |-> Closed] /\ subscribed' = {}
      /\ queue' = [c \in Clients |-> <<>>] /\ wire' = [c \in Clients |-> <<>>]
  BY <1>1 DEF CloseConnections, TypeOK
<1>3. Cursor' = Cursor
  BY DEF Cursor
<1>4. TypeOK'
  <2>1. Closed \in Conns /\ <<>> \in Seq(0..MaxId) /\ <<>> \in Seq(Frames) /\ <<>> \in Seq(Ids) /\ Len(<<>>) <= QueueMax
    BY DEF Closed, Conns, StreamAssumption
  <2>2. /\ conn' \in [Clients -> Conns] /\ queue' \in [Clients -> Seq(0..MaxId)] /\ wire' \in [Clients -> Seq(Frames)]
        /\ \A c \in Clients : Len(queue'[c]) <= QueueMax
    BY <1>2, <2>1
  <2>3. faults' \in 0..MaxFaults
    BY <1>1 DEF TypeOK, Fault, StreamAssumption
  <2>4. phase' \in [Clients -> {"boot", "connect", "open"}]
    <3>1. \A c \in Clients : (IF phase[c] = "open" THEN "connect" ELSE phase[c]) \in {"boot", "connect", "open"}
      BY <1>1 DEF TypeOK
    <3> QED  BY <3>1
  <2> QED  BY <1>1, <1>2, <2>1, <2>2, <2>3, <2>4 DEF TypeOK, Conns
<1>5. JournalInv'
  <2>1. tailCursor' = 0 \/ tailCursor' \in journal
    BY <1>1 DEF CursorOK
  <2>2. \A i \in committed \ journal : i < tailCursor'
    <3> SUFFICES ASSUME NEW i \in committed \ journal  PROVE i < Cursor
      OBVIOUS
    <3>1. (i <= Cursor /\ i # Cursor) \/ journal = {}
      BY <1>1 DEF CursorOK
    <3>2. CASE journal = {}
      <4>1. i < tailCursor /\ tailCursor = 0
        BY <1>1, <3>2 DEF JournalInv
      <4> QED  BY <1>1, <4>1
    <3> QED  BY <1>1, <3>1, <3>2
  <2> QED  BY <1>1, <1>3, <2>1, <2>2 DEF JournalInv
<1>6. TailInv'
  BY DEF TailInv, Ascending
<1>7. ASSUME NEW c \in Clients  PROVE ClientInv(c)'
  <2>1. ClientInv(c) /\ ClientType(c)
    BY <1>1, TypesOfClient DEF StreamInv
  <2>2. QueueInv(c)' /\ WireInv(c)'
    BY <1>2 DEF QueueInv, WireInv
  <2>3. ConnInv(c)'
    BY <1>2 DEF ConnInv, Closed
  <2>4. phase'[c] = IF phase[c] = "open" THEN "connect" ELSE phase[c]
    OBVIOUS
  <2>5. PageInv(c)'
    BY <1>2, <1>3, <2>1, <2>4 DEF ClientInv, PageInv, Visible, Closed
  <2> QED  BY <2>2, <2>3, <2>5 DEF ClientInv
<1> QED  BY <1>4, <1>5, <1>6, <1>7 DEF StreamInv

-----------------------------------------------------------------------------
(* A step of one tab.                                                       *)

OnlyOf(c) ==
  /\ UNCHANGED <<journalVars, snapshot, tailCursor, tailRows>>
  /\ conn' = [conn EXCEPT ![c] = conn'[c]] /\ queue' = [queue EXCEPT ![c] = queue'[c]]
  /\ wire' = [wire EXCEPT ![c] = wire'[c]] /\ phase' = [phase EXCEPT ![c] = phase'[c]]
  /\ lastEventId' = [lastEventId EXCEPT ![c] = lastEventId'[c]]
  /\ reflected' = [reflected EXCEPT ![c] = reflected'[c]]
  /\ subscribed' \in SUBSET Clients /\ \A d \in Clients \ {c} : d \in subscribed' <=> d \in subscribed
  /\ faults' \in 0..MaxFaults

LEMMA OnlyStep ==
  ASSUME StreamAssumption, StreamInv, NEW c \in Clients, OnlyOf(c), ClientType(c)', ClientInv(c)'
  PROVE  StreamInv'
<1>1. TypeOK /\ JournalInv /\ TailInv /\ CursorOK
  BY StreamFacts
<1>2. Cursor' = Cursor
  BY DEF OnlyOf, journalVars, Cursor
<1>3. ASSUME NEW d \in Clients \ {c}  PROVE ClientInv(d)'
  <2>1. ClientStill(d)
    BY <1>1 DEF OnlyOf, ClientStill, TypeOK
  <2>2. Onward(d) /\ tailCursor' = tailCursor
    BY <1>1, <1>2 DEF OnlyOf, Onward, CursorOK, journalVars
  <2> QED  BY <1>1, <2>1, <2>2, ClientCalm DEF StreamInv
<1>4. TypeOK'
  <2>1. conn' \in [Clients -> Conns] /\ queue' \in [Clients -> Seq(0..MaxId)] /\ wire' \in [Clients -> Seq(Frames)]
    BY <1>1 DEF OnlyOf, ClientType, TypeOK, Conns
  <2>2. /\ phase' \in [Clients -> {"boot", "connect", "open"}] /\ lastEventId' \in [Clients -> 0..MaxId]
        /\ reflected' \in [Clients -> SUBSET Ids]
    BY <1>1 DEF OnlyOf, ClientType, TypeOK
  <2>3. \A d \in Clients : Len(queue'[d]) <= QueueMax
    BY <1>1 DEF OnlyOf, ClientType, TypeOK
  <2> QED  BY <1>1, <2>1, <2>2, <2>3 DEF OnlyOf, TypeOK, journalVars, Conns
<1>5. JournalInv' /\ TailInv'
  BY <1>1, <1>2 DEF OnlyOf, JournalInv, TailInv, journalVars
<1> QED  BY <1>3, <1>4, <1>5 DEF StreamInv

LEMMA EmptyParts ==
  ASSUME StreamAssumption
  PROVE  <<>> \in Seq(0..MaxId) /\ <<>> \in Seq(Frames) /\ Len(<<>>) = 0 /\ 0 <= QueueMax /\ DOMAIN <<>> = {}
BY DEF StreamAssumption

LEMMA ConnMade ==
  ASSUME NEW mode \in {"closed", "opening", "replay", "rows", "live"},
         NEW upper \in 0..MaxId, NEW seen \in 0..MaxId, NEW owed \in BOOLEAN
  PROVE  [mode |-> mode, upper |-> upper, seen |-> seen, owed |-> owed] \in Conns
BY DEF Conns

\* What is known of a tab before its step.
LEMMA TabFacts ==
  ASSUME StreamAssumption, StreamInv, NEW c \in Clients
  PROVE  /\ ClientType(c) /\ QueueInv(c) /\ WireInv(c) /\ ConnInv(c) /\ PageInv(c)
         /\ conn[c].seen \in Nat /\ conn[c].upper \in Nat /\ lastEventId[c] \in Nat
         /\ conn[c].seen \in 0..MaxId /\ conn[c].upper \in 0..MaxId /\ conn[c].owed \in BOOLEAN
         /\ DOMAIN wire[c] = 1..Len(wire[c]) /\ Len(wire[c]) \in Nat
         /\ \A k \in DOMAIN wire[c] : wire[c][k] \in Frames /\ wire[c][k].id \in Nat
         /\ conn[c] = [mode |-> conn[c].mode, upper |-> conn[c].upper, seen |-> conn[c].seen, owed |-> conn[c].owed]
<1>1. ClientType(c) /\ ClientInv(c)
  BY TypesOfClient DEF StreamInv
<1>2. DOMAIN wire[c] = 1..Len(wire[c]) /\ Len(wire[c]) \in Nat
  BY <1>1, LenProperties DEF ClientType
<1>3. \A k \in DOMAIN wire[c] : wire[c][k] \in Frames
  BY <1>1, <1>2, ElementOfSeq DEF ClientType
<1>4. conn[c] = [mode |-> conn[c].mode, upper |-> conn[c].upper, seen |-> conn[c].seen, owed |-> conn[c].owed]
  BY <1>1 DEF ClientType, Conns
<1> QED  BY <1>1, <1>2, <1>3, <1>4 DEF ClientInv, ClientType, Conns, Frames

-----------------------------------------------------------------------------
(* The wire: frames are sent behind those on it and read from its head.     *)

Sending(c, frames) ==
  /\ frames \in Seq(Frames) /\ wire'[c] = wire[c] \o frames
  /\ lastEventId'[c] = lastEventId[c] /\ UNCHANGED journalVars

LEMMA CoveredSend ==
  ASSUME StreamAssumption, StreamInv, NEW c \in Clients, NEW frames, Sending(c, frames),
         NEW to, NEW n \in 0..Len(wire[c]), NEW m \in Nat, n <= m, Covered(c, to, n)
  PROVE  CoveredNext(c, to, m)
<1>1. wire[c] \in Seq(Frames) /\ frames \in Seq(Frames)
  BY TabFacts DEF ClientType, Sending
<1>2. Len(wire[c]) \in Nat /\ \A p \in 1..Len(wire[c]) : wire'[c][p] = wire[c][p]
  BY <1>1, ConcatParts DEF Sending
<1> SUFFICES ASSUME NEW i \in committed, Visible(c, i), lastEventId[c] < i, i <= to
             PROVE  SentNext(c, i, m)
  BY DEF CoveredNext, Sending, journalVars, Visible
<1>3. PICK p \in 1..n : wire[c][p] = Frame("event", i)
  BY DEF Covered, Sent
<1>4. p \in 1..m /\ wire'[c][p] = wire[c][p]
  BY <1>2
<1> QED  BY <1>3, <1>4 DEF SentNext

LEMMA WireSend ==
  ASSUME StreamAssumption, StreamInv, NEW c \in Clients, NEW frames, Sending(c, frames),
         conn[c].mode # "closed",
         \A k \in DOMAIN frames :
           /\ frames[k].type \in {"event", "checkpoint"} =>
                frames[k].id <= Cursor /\ CoveredNext(c, frames[k].id, Len(wire[c]) + k)
           /\ frames[k].type = "reset" => \A l \in k + 1..Len(frames) : frames[l].type = "end"
  PROVE  /\ WireInv(c)' /\ wire'[c] \in Seq(Frames) /\ Len(wire'[c]) = Len(wire[c]) + Len(frames)
         /\ (\A k \in DOMAIN frames : frames[k].type \in {"event", "checkpoint"}) =>
              \A k \in DOMAIN wire'[c] : wire'[c][k].type \in {"event", "checkpoint"}
<1> DEFINE L == Len(wire[c])
<1>1. /\ wire[c] \in Seq(Frames) /\ frames \in Seq(Frames) /\ WireInv(c)
      /\ \A k \in DOMAIN wire[c] : wire[c][k].type \in {"event", "checkpoint"}
  BY TabFacts DEF ClientType, Sending, ConnInv
<1>2. /\ wire'[c] \in Seq(Frames) /\ L \in Nat /\ Len(frames) \in Nat
      /\ DOMAIN wire'[c] = 1..L + Len(frames) /\ Len(wire'[c]) = L + Len(frames)
      /\ DOMAIN wire[c] = 1..L /\ DOMAIN frames = 1..Len(frames)
      /\ \A k \in 1..L : wire'[c][k] = wire[c][k]
      /\ \A k \in 1..Len(frames) : wire'[c][L + k] = frames[k]
  BY <1>1, ConcatParts DEF Sending
<1>3. Cursor' = Cursor
  BY DEF Sending, journalVars, Cursor
<1> HIDE DEF L
<1>4. \A k \in 1..L + Len(frames) : k > L => k - L \in 1..Len(frames) /\ wire'[c][k] = frames[k - L]
  <2> SUFFICES ASSUME NEW k \in 1..L + Len(frames), k > L
               PROVE  k - L \in 1..Len(frames) /\ wire'[c][k] = frames[k - L]
    OBVIOUS
  <2>1. k - L \in 1..Len(frames) /\ L + (k - L) = k
    BY <1>2
  <2> QED  BY <1>2, <2>1
<1>5. ASSUME NEW k \in 1..L
      PROVE  /\ wire'[c][k].type \in {"event", "checkpoint"}
             /\ wire'[c][k].id <= Cursor' /\ CoveredNext(c, wire'[c][k].id, k)
  <2>1. wire[c][k].type \in {"event", "checkpoint"} /\ wire'[c][k] = wire[c][k]
    BY <1>1, <1>2
  <2>2. wire[c][k].id <= Cursor /\ Covered(c, wire[c][k].id, k)
    BY <1>1, <1>2, <2>1 DEF WireInv
  <2>3. k \in 0..Len(wire[c]) /\ k \in Nat
    BY <1>2 DEF L
  <2>4. CoveredNext(c, wire[c][k].id, k)
    BY <2>2, <2>3, CoveredSend
  <2>5. CoveredNext(c, wire'[c][k].id, k)
    BY <2>1, <2>4
  <2> QED  BY <1>3, <2>1, <2>2, <2>5
<1>6. ASSUME NEW k \in 1..L + Len(frames), k > L
      PROVE  /\ wire'[c][k].type \in {"event", "checkpoint"} =>
                  wire'[c][k].id <= Cursor' /\ CoveredNext(c, wire'[c][k].id, k)
             /\ wire'[c][k].type = "reset" => \A l \in k + 1..L + Len(frames) : wire'[c][l].type = "end"
  <2>1. k - L \in 1..Len(frames) /\ wire'[c][k] = frames[k - L] /\ L + (k - L) = k
    BY <1>2, <1>4, <1>6
  <2>2. ASSUME frames[k - L].type \in {"event", "checkpoint"}
        PROVE  frames[k - L].id <= Cursor /\ CoveredNext(c, frames[k - L].id, k)
    <3>1. frames[k - L].id <= Cursor /\ CoveredNext(c, frames[k - L].id, Len(wire[c]) + (k - L))
      BY <1>2, <2>1, <2>2
    <3> QED  BY <2>1, <3>1 DEF L
  <2>3. CoveredNext(c, frames[k - L].id, k) => CoveredNext(c, wire'[c][k].id, k)
    BY <2>1
  <2>4. ASSUME frames[k - L].type = "reset", NEW l \in k + 1..L + Len(frames)  PROVE wire'[c][l].type = "end"
    <3>1. l > L /\ l \in 1..L + Len(frames) /\ l - L \in (k - L) + 1..Len(frames)
      BY <1>2, <1>6
    <3>2. frames[l - L].type = "end"
      BY <1>2, <2>1, <2>4, <3>1
    <3> QED  BY <1>4, <3>1, <3>2
  <2> QED  BY <1>3, <2>1, <2>2, <2>3, <2>4
<1>7. WireInv(c)'
  <2> SUFFICES ASSUME NEW k \in 1..L + Len(frames)
               PROVE  /\ wire'[c][k].type \in {"event", "checkpoint"} =>
                           wire'[c][k].id <= Cursor' /\ CoveredNext(c, wire'[c][k].id, k)
                      /\ wire'[c][k].type = "reset" => \A l \in k + 1..L + Len(frames) : wire'[c][l].type = "end"
    BY <1>2, NextCovered
  <2>1. CASE k <= L
    <3>1. k \in 1..L
      BY <1>2, <2>1
    <3> QED  BY <1>5, <3>1
  <2>2. CASE k > L
    BY <1>6, <2>2
  <2> QED  BY <1>2, <2>1, <2>2
<1>8. ASSUME \A k \in DOMAIN frames : frames[k].type \in {"event", "checkpoint"}, NEW k \in DOMAIN wire'[c]
      PROVE  wire'[c][k].type \in {"event", "checkpoint"}
  <2>1. CASE k \in 1..L
    BY <1>5, <2>1
  <2>2. CASE k \notin 1..L
    <3>1. k - L \in 1..Len(frames) /\ wire'[c][k] = frames[k - L]
      BY <1>2, <1>4, <2>2
    <3> QED  BY <1>2, <1>8, <3>1
  <2> QED  BY <2>1, <2>2
<1> QED  BY <1>2, <1>7, <1>8 DEF L

\* The browser reads the head, and an event it reads does not lie above its
\* cursor then.
LEMMA WireRead ==
  ASSUME StreamAssumption, StreamInv, NEW c \in Clients, UNCHANGED journalVars,
         wire[c] # <<>>, wire'[c] = Tail(wire[c]),
         lastEventId'[c] \in Nat, lastEventId[c] <= lastEventId'[c],
         Head(wire[c]).type = "event" => Head(wire[c]).id <= lastEventId'[c]
  PROVE  /\ WireInv(c)' /\ wire'[c] \in Seq(Frames) /\ Len(wire'[c]) = Len(wire[c]) - 1
         /\ \A k \in DOMAIN wire'[c] : k + 1 \in DOMAIN wire[c] /\ wire'[c][k] = wire[c][k + 1]
         /\ \A to : Covered(c, to, Len(wire[c])) => CoveredNext(c, to, Len(wire'[c]))
<1>1. /\ wire[c] \in Seq(Frames) /\ WireInv(c) /\ lastEventId[c] \in Nat
      /\ \A k \in DOMAIN wire[c] : wire[c][k] \in Frames
  BY TabFacts DEF ClientType
<1>2. /\ wire'[c] \in Seq(Frames) /\ Len(wire'[c]) = Len(wire[c]) - 1
      /\ DOMAIN wire'[c] = 1..Len(wire[c]) - 1 /\ Len(wire[c]) \in Nat \ {0} /\ DOMAIN wire[c] = 1..Len(wire[c])
      /\ \A k \in DOMAIN wire'[c] : wire'[c][k] = wire[c][k + 1] /\ k + 1 \in DOMAIN wire[c]
      /\ Head(wire[c]) = wire[c][1]
  BY <1>1, TailParts
<1>3. committed \in SUBSET Nat
  BY StreamFacts
<1>4. ASSUME NEW to, NEW n \in 1..Len(wire[c]), Covered(c, to, n)  PROVE CoveredNext(c, to, n - 1)
  <2> SUFFICES ASSUME NEW i \in committed, Visible(c, i), lastEventId'[c] < i, i <= to
               PROVE  SentNext(c, i, n - 1)
    BY DEF CoveredNext, journalVars, Visible
  <2>1. lastEventId[c] < i
    BY <1>1, <1>3
  <2>2. PICK p \in 1..n : wire[c][p] = Frame("event", i)
    BY <1>4, <2>1 DEF Covered, Sent
  <2>3. p # 1
    <3> SUFFICES ASSUME p = 1  PROVE FALSE
      OBVIOUS
    <3>1. Head(wire[c]).type = "event" /\ Head(wire[c]).id = i
      BY <1>2, <2>2 DEF Frame
    <3> QED  BY <1>3, <3>1
  <2>4. p - 1 \in 1..n - 1 /\ p - 1 \in DOMAIN wire'[c] /\ (p - 1) + 1 = p
    BY <1>2, <2>3
  <2>5. wire'[c][p - 1] = wire[c][p]
    BY <1>2, <2>4
  <2> QED  BY <2>2, <2>4, <2>5 DEF SentNext
<1>5. Cursor' = Cursor
  BY DEF journalVars, Cursor
<1>6. WireInv(c)'
  <2> SUFFICES ASSUME NEW k \in DOMAIN wire'[c]
               PROVE  /\ wire'[c][k].type \in {"event", "checkpoint"} =>
                           wire'[c][k].id <= Cursor' /\ CoveredNext(c, wire'[c][k].id, k)
                      /\ wire'[c][k].type = "reset" => \A l \in k + 1..Len(wire'[c]) : wire'[c][l].type = "end"
    BY NextCovered
  <2>1. wire'[c][k] = wire[c][k + 1] /\ k + 1 \in DOMAIN wire[c] /\ k \in Nat
    BY <1>2
  <2>2. ASSUME wire'[c][k].type \in {"event", "checkpoint"}
        PROVE  wire'[c][k].id <= Cursor' /\ CoveredNext(c, wire'[c][k].id, k)
    <3>1. wire[c][k + 1].id <= Cursor /\ Covered(c, wire[c][k + 1].id, k + 1)
      BY <1>1, <2>1, <2>2 DEF WireInv
    <3>2. CoveredNext(c, wire[c][k + 1].id, (k + 1) - 1)
      BY <1>2, <1>4, <2>1, <3>1
    <3>3. CoveredNext(c, wire'[c][k].id, k)
      BY <2>1, <3>2
    <3> QED  BY <1>5, <2>1, <3>1, <3>3
  <2>3. ASSUME wire'[c][k].type = "reset", NEW l \in k + 1..Len(wire'[c])  PROVE wire'[c][l].type = "end"
    <3>1. l \in DOMAIN wire'[c] /\ l + 1 \in (k + 1) + 1..Len(wire[c])
      BY <1>2, <2>1
    <3>2. wire[c][l + 1].type = "end"
      BY <1>1, <2>1, <2>3, <3>1 DEF WireInv
    <3> QED  BY <1>2, <3>1, <3>2
  <2> QED  BY <2>2, <2>3
<1>7. ASSUME NEW to, Covered(c, to, Len(wire[c]))  PROVE CoveredNext(c, to, Len(wire'[c]))
  <2>1. CoveredNext(c, to, Len(wire[c]) - 1)
    BY <1>2, <1>4, <1>7
  <2> QED  BY <1>2, <2>1
<1> QED  BY <1>2, <1>6, <1>7

-----------------------------------------------------------------------------
(* The response: frames().                                                  *)

LEMMA SubscribeKeeps ==
  ASSUME StreamAssumption, StreamInv, NEW c \in Clients, Subscribe(c)  PROVE StreamInv'
<1> USE DEF Subscribe, journalVars
<1>1. TypeOK /\ CursorOK /\ tailCursor \in Nat
  BY StreamFacts
<1>2. ClientType(c) /\ PageInv(c) /\ lastEventId[c] \in Nat
  BY TabFacts
<1>3. /\ conn'[c] = [mode |-> "opening", upper |-> 0, seen |-> lastEventId[c], owed |-> FALSE]
      /\ queue'[c] = <<>> /\ wire'[c] = <<>> /\ phase'[c] = "open"
      /\ lastEventId' = lastEventId /\ reflected' = reflected /\ Cursor' = Cursor
      /\ committed' = committed /\ audience' = audience /\ phase[c] # "boot"
  BY <1>1 DEF TypeOK, Closed, Cursor
<1>4. OnlyOf(c)
  BY <1>1, <1>3 DEF OnlyOf, TypeOK
<1> HIDE DEF Subscribe
<1>5. ClientType(c)'
  <2>1. conn'[c] \in Conns
    <3>1. 0 \in 0..MaxId /\ lastEventId[c] \in 0..MaxId /\ FALSE \in BOOLEAN
      BY <1>2 DEF ClientType, StreamAssumption
    <3> QED  BY <1>3, <3>1, ConnMade
  <2>2. queue'[c] \in Seq(0..MaxId) /\ Len(queue'[c]) <= QueueMax /\ wire'[c] \in Seq(Frames)
    BY <1>3, EmptyParts
  <2> QED  BY <1>2, <1>3, <2>1, <2>2 DEF ClientType
<1>6. QueueInv(c)' /\ WireInv(c)'
  BY <1>3, EmptyParts DEF QueueInv, WireInv, Ascending
<1>7. ConnInv(c)'
  <2>1. Covered(c, conn[c].seen, Len(wire[c]))'
    <3>1. CoveredNext(c, conn'[c].seen, Len(wire'[c]))
      <4> SUFFICES ASSUME NEW i \in committed, lastEventId[c] < i, i <= lastEventId[c]  PROVE FALSE
        BY <1>3 DEF CoveredNext
      <4>1. i \in Nat
        BY StreamFacts
      <4> QED  BY <1>2, <4>1
    <3> QED  BY <3>1, NextCovered
  <2>2. /\ conn'[c].mode = "opening" /\ conn'[c].upper = 0 /\ conn'[c].seen = lastEventId[c]
        /\ \A k \in DOMAIN wire'[c] : wire'[c][k].type \in {"event", "checkpoint"}
    BY <1>3, EmptyParts
  <2>3. lastEventId[c] <= Cursor' /\ 0 <= Cursor'
    BY <1>1, <1>2, <1>3 DEF PageInv, CursorOK
  <2> QED  BY <1>3, <2>1, <2>2, <2>3 DEF ConnInv
<1>8. PageInv(c)'
  BY <1>2, <1>3 DEF PageInv, Visible
<1> QED  BY <1>4, <1>5, <1>6, <1>7, <1>8, OnlyStep DEF ClientInv

\* A step that moves nothing of the tab but where its response is.
LEMMA ConnStep ==
  ASSUME StreamAssumption, StreamInv, NEW c \in Clients,
         UNCHANGED <<journalVars, snapshot, tailCursor, tailRows, subscribed, queue, wire, pageVars, faults>>,
         conn'[c] \in Conns, conn' = [conn EXCEPT ![c] = conn'[c]], ConnInv(c)'
  PROVE  StreamInv'
<1> USE DEF journalVars, pageVars
<1>1. TypeOK /\ ClientType(c) /\ QueueInv(c) /\ WireInv(c) /\ PageInv(c) /\ ConnInv(c)
  BY StreamFacts, TabFacts
<1>2. Cursor' = Cursor
  BY DEF Cursor
<1>3. OnlyOf(c) /\ ClientType(c)'
  BY <1>1, <1>2 DEF OnlyOf, ClientType, TypeOK
<1>4. QueueInv(c)' /\ WireInv(c)'
  BY <1>1, <1>2 DEF QueueInv, WireInv, Covered, Sent, Visible
<1>5. PageInv(c)'
  <2>1. phase[c] = "boot" => conn'[c].mode = "closed"
    BY DEF ConnInv
  <2> QED  BY <1>1, <1>2, <2>1 DEF PageInv, Visible
<1> QED  BY <1>3, <1>4, <1>5, OnlyStep DEF ClientInv

LEMMA ReadUpperKeeps ==
  ASSUME StreamAssumption, StreamInv, NEW c \in Clients, ReadUpper(c)  PROVE StreamInv'
<1> USE DEF ReadUpper, journalVars, pageVars
<1>1. TypeOK /\ CursorOK /\ Cursor \in 0..MaxId /\ tailCursor \in Nat /\ committed \in SUBSET Nat
  BY StreamFacts
<1>2. /\ ClientType(c) /\ ConnInv(c)
      /\ conn[c] = [mode |-> conn[c].mode, upper |-> conn[c].upper, seen |-> conn[c].seen, owed |-> conn[c].owed]
  BY TabFacts
<1>3. /\ conn'[c].mode = "replay" /\ conn'[c].upper = Cursor
      /\ conn'[c].seen = conn[c].seen /\ conn'[c].owed = conn[c].owed
  BY <1>1, <1>2 DEF TypeOK
<1>4. conn'[c] \in Conns /\ conn' = [conn EXCEPT ![c] = conn'[c]]
  BY <1>1, <1>2 DEF TypeOK, Conns
<1>5. /\ Cursor' = Cursor
      /\ UNCHANGED <<committed, audience, tailCursor, subscribed, queue, wire, phase, lastEventId>>
  BY DEF Cursor
<1>6. ConnInv(c)'
  <2>1. conn[c].seen <= Cursor /\ phase[c] = "open" /\ Covered(c, conn[c].seen, Len(wire[c]))
        /\ \A k \in DOMAIN wire[c] : wire[c][k].type \in {"event", "checkpoint"}
    BY <1>2 DEF ConnInv
  <2>2. Covered(c, conn[c].seen, Len(wire[c]))'
    BY <1>3, <1>5, <2>1 DEF Covered, Sent, Visible
  <2>3. \A i \in committed : ~(Cursor < i)
    BY <1>1 DEF CursorOK
  <2> HIDE DEF ReadUpper
  <2> QED  BY <1>1, <1>3, <1>5, <2>1, <2>2, <2>3 DEF ConnInv
<1> QED  BY <1>4, <1>6, ConnStep

\* A cursor inside the journal: everything above it is still there.
LEMMA ReplayCheckKeeps ==
  ASSUME StreamAssumption, StreamInv, NEW c \in Clients, ReplayCheck(c)  PROVE StreamInv'
<1> USE DEF ReplayCheck, journalVars, pageVars
<1>1. TypeOK /\ JournalInv /\ CursorOK /\ Cursor \in 0..MaxId /\ tailCursor \in Nat /\ committed \in SUBSET Nat /\ journal \subseteq committed
  BY StreamFacts
<1>2. /\ ClientType(c) /\ ConnInv(c) /\ conn[c].seen \in Nat /\ conn[c].upper \in Nat
      /\ conn[c] = [mode |-> conn[c].mode, upper |-> conn[c].upper, seen |-> conn[c].seen, owed |-> conn[c].owed]
  BY TabFacts
<1>3. /\ conn'[c].mode = "rows" /\ conn'[c].upper = conn[c].upper
      /\ conn'[c].seen = conn[c].seen /\ conn'[c].owed = conn[c].owed
  <2>1. conn[c].upper <= Cursor
    BY <1>2 DEF ConnInv
  <2>2. (IF Cursor < conn[c].upper THEN Cursor ELSE conn[c].upper) = conn[c].upper
    BY <1>1, <1>2, <2>1
  <2>3. conn' = [conn EXCEPT ![c].mode = "rows", ![c].upper = conn[c].upper]
    BY <2>2
  <2> QED  BY <1>1, <1>2, <2>3 DEF TypeOK
<1>4. conn'[c] \in Conns /\ conn' = [conn EXCEPT ![c] = conn'[c]]
  BY <1>1, <1>2 DEF TypeOK, Conns
<1>5. Cursor' = Cursor
  BY DEF Cursor
<1>6. ASSUME NEW i \in committed, conn[c].seen < i  PROVE i \in journal
  <2>1. CASE journal = {}
    BY <1>1, <2>1 DEF JournalInv
  <2>2. CASE journal # {}
    <3>1. PICK j \in journal : ~(conn[c].seen < j - 1)
      BY <2>2 DEF CursorExpired
    <3>2. j <= i /\ j \in Nat
      BY <1>1, <1>2, <1>6, <3>1
    <3> QED  BY <1>1, <3>2 DEF JournalInv
  <2> QED  BY <2>1, <2>2
<1>7. ConnInv(c)'
  <2>1. Covered(c, conn[c].seen, Len(wire[c]))'
    BY <1>2, <1>3 DEF ConnInv, Covered, Sent, Visible
  <2> QED  BY <1>2, <1>3, <1>5, <1>6, <2>1 DEF ConnInv
<1> QED  BY <1>4, <1>7, ConnStep

LEMMA ReplayResetKeeps ==
  ASSUME StreamAssumption, StreamInv, NEW c \in Clients, ReplayReset(c)  PROVE StreamInv'
<1> USE DEF ReplayReset, journalVars, pageVars
<1>1. TypeOK /\ CursorOK /\ Cursor \in 0..MaxId
  BY StreamFacts
<1>2. ClientType(c) /\ PageInv(c) /\ ConnInv(c) /\ WireInv(c)
  BY TabFacts
<1> DEFINE frames == <<Frame("reset", Cursor), Frame("end", 0)>>
<1>3. /\ frames \in Seq(Frames) /\ DOMAIN frames = 1..2 /\ Len(frames) = 2
      /\ frames[1].type = "reset" /\ frames[2].type = "end"
  BY <1>1 DEF Frame, Frames, StreamAssumption
<1>4. /\ conn'[c] = Closed /\ queue'[c] = <<>> /\ wire'[c] = wire[c] \o frames /\ c \notin subscribed'
      /\ Cursor' = Cursor /\ Sending(c, frames)
  BY <1>1, <1>3 DEF TypeOK, Send, Cursor, Sending
<1> HIDE DEF frames
<1>5. WireInv(c)' /\ wire'[c] \in Seq(Frames)
  <2>1. \A k \in DOMAIN frames :
           /\ frames[k].type \in {"event", "checkpoint"} =>
                frames[k].id <= Cursor /\ CoveredNext(c, frames[k].id, Len(wire[c]) + k)
           /\ frames[k].type = "reset" => \A l \in k + 1..Len(frames) : frames[l].type = "end"
    BY <1>3
  <2> QED  BY <1>4, <2>1, WireSend
<1>6. OnlyOf(c)
  <2>1. wire' = [wire EXCEPT ![c] = wire[c] \o frames]
    BY DEF Send, frames
  <2> QED  BY <1>1, <1>4, <2>1 DEF OnlyOf, TypeOK
<1>7. ClientType(c)'
  <2>1. conn'[c] \in Conns
    BY <1>4 DEF Closed, Conns, StreamAssumption
  <2>2. queue'[c] \in Seq(0..MaxId) /\ Len(queue'[c]) <= QueueMax
    BY <1>4, EmptyParts
  <2> QED  BY <1>2, <1>5, <2>1, <2>2 DEF ClientType
<1>8. QueueInv(c)' /\ ConnInv(c)'
  BY <1>4 DEF QueueInv, ConnInv, Closed
<1>9. PageInv(c)'
  BY <1>2, <1>4 DEF PageInv, ConnInv, Visible, Closed
<1> QED  BY <1>5, <1>6, <1>7, <1>8, <1>9, OnlyStep DEF ClientInv

LEMMA CheckpointKeeps ==
  ASSUME StreamAssumption, StreamInv, NEW c \in Clients, Checkpoint(c)  PROVE StreamInv'
<1> USE DEF Checkpoint, journalVars, pageVars
<1>1. TypeOK /\ CursorOK /\ Cursor \in 0..MaxId
  BY StreamFacts
<1>2. /\ ClientType(c) /\ QueueInv(c) /\ PageInv(c) /\ ConnInv(c) /\ WireInv(c)
      /\ conn[c] = [mode |-> conn[c].mode, upper |-> conn[c].upper, seen |-> conn[c].seen, owed |-> conn[c].owed]
      /\ Len(wire[c]) \in Nat
      /\ conn[c].seen \in 0..MaxId /\ conn[c].upper \in 0..MaxId
  BY TabFacts
<1> DEFINE frames == <<Frame("checkpoint", conn[c].seen)>>
<1>3. /\ frames \in Seq(Frames) /\ DOMAIN frames = 1..1 /\ Len(frames) = 1
      /\ frames[1].type = "checkpoint" /\ frames[1].id = conn[c].seen
  BY <1>2 DEF Frame, Frames, ClientType, Conns
<1>4. /\ conn'[c] = [mode |-> "live", upper |-> conn[c].upper, seen |-> conn[c].seen, owed |-> FALSE]
      /\ wire'[c] = wire[c] \o frames /\ Cursor' = Cursor /\ Sending(c, frames)
  BY <1>1, <1>2, <1>3 DEF TypeOK, Send, Cursor, Sending
<1>5. wire' = [wire EXCEPT ![c] = wire[c] \o frames]
  BY DEF Send
<1> HIDE DEF frames
<1>6. CoveredNext(c, conn[c].seen, Len(wire[c]) + 1)
  <2>1. Covered(c, conn[c].seen, Len(wire[c]))
    BY <1>2 DEF ConnInv
  <2>2. Len(wire[c]) \in 0..Len(wire[c]) /\ Len(wire[c]) + 1 \in Nat /\ Len(wire[c]) <= Len(wire[c]) + 1
    BY <1>2
  <2> QED  BY <1>4, <2>1, <2>2, CoveredSend
<1>7. /\ WireInv(c)' /\ wire'[c] \in Seq(Frames) /\ Len(wire'[c]) = Len(wire[c]) + 1
      /\ \A k \in DOMAIN wire'[c] : wire'[c][k].type \in {"event", "checkpoint"}
  <2>1. \A k \in DOMAIN frames :
           /\ frames[k].type \in {"event", "checkpoint"}
           /\ frames[k].id <= Cursor /\ CoveredNext(c, frames[k].id, Len(wire[c]) + k)
    BY <1>2, <1>3, <1>6 DEF ConnInv
  <2> QED  BY <1>3, <1>4, <2>1, WireSend
<1>8. OnlyOf(c)
  BY <1>1, <1>4, <1>5 DEF OnlyOf, TypeOK
<1>9. ClientType(c)' /\ QueueInv(c)'
  <2>1. conn'[c] \in Conns
    BY <1>2, <1>4, ConnMade
  <2>2. QueueInv(c)'
    BY <1>2 DEF QueueInv
  <2> QED  BY <1>2, <1>7, <2>1, <2>2 DEF ClientType
<1>10. ConnInv(c)'
  <2>1. Covered(c, conn[c].seen, Len(wire[c]))'
    <3>1. CoveredNext(c, conn'[c].seen, Len(wire'[c]))
      BY <1>4, <1>6, <1>7
    <3> QED  BY <3>1, NextCovered
  <2> QED  BY <1>2, <1>4, <1>7, <2>1 DEF ConnInv
<1>11. PageInv(c)'
  BY <1>2, <1>4 DEF PageInv, ConnInv, Visible
<1> QED  BY <1>7, <1>8, <1>9, <1>10, <1>11, OnlyStep DEF ClientInv

LEMMA QueueParts ==
  ASSUME NEW s \in Seq(0..MaxId), s # <<>>
  PROVE  /\ Tail(s) \in Seq(0..MaxId) /\ Len(Tail(s)) = Len(s) - 1 /\ Len(s) \in Nat
         /\ 1 \in DOMAIN s /\ Head(s) = s[1] /\ Head(s) \in 0..MaxId
         /\ \A k \in DOMAIN Tail(s) : Tail(s)[k] = s[k + 1] /\ k + 1 \in DOMAIN s
         /\ Ascending(s) => Ascending(Tail(s))
         /\ \A x \in ToSet(s) : x = Head(s) \/ x \in ToSet(Tail(s))
         /\ Ascending(s) => \A x \in ToSet(s) : Head(s) <= x
<1>1. /\ Tail(s) \in Seq(0..MaxId) /\ Len(Tail(s)) = Len(s) - 1 /\ Len(s) \in Nat \ {0}
      /\ DOMAIN Tail(s) = 1..Len(s) - 1 /\ DOMAIN s = 1..Len(s)
      /\ 1 \in DOMAIN s /\ Head(s) = s[1]
      /\ \A k \in DOMAIN Tail(s) : Tail(s)[k] = s[k + 1] /\ k + 1 \in DOMAIN s
  BY TailParts
<1>2. \A k \in DOMAIN s : s[k] \in 0..MaxId
  BY <1>1, ElementOfSeq
<1>3. Ascending(s) => Ascending(Tail(s))
  <2> SUFFICES ASSUME Ascending(s), NEW j \in DOMAIN Tail(s), NEW k \in DOMAIN Tail(s), j < k
               PROVE  Tail(s)[j] < Tail(s)[k]
    BY DEF Ascending
  <2>1. j + 1 \in DOMAIN s /\ k + 1 \in DOMAIN s /\ j + 1 < k + 1
    BY <1>1
  <2> QED  BY <1>1, <2>1 DEF Ascending
<1>4. ASSUME NEW x \in ToSet(s)  PROVE x = Head(s) \/ x \in ToSet(Tail(s))
  <2>1. PICK k \in DOMAIN s : x = s[k]
    BY DEF ToSet
  <2>2. CASE k # 1
    <3>1. k - 1 \in DOMAIN Tail(s) /\ (k - 1) + 1 = k
      BY <1>1, <2>2
    <3>2. Tail(s)[k - 1] = x
      BY <1>1, <2>1, <3>1
    <3> QED  BY <3>1, <3>2 DEF ToSet
  <2> QED  BY <1>1, <2>1, <2>2
<1>5. ASSUME Ascending(s), NEW k \in DOMAIN s  PROVE Head(s) <= s[k]
  <2>1. k = 1 \/ s[1] < s[k]
    BY <1>1, <1>5 DEF Ascending
  <2> QED  BY <1>1, <1>2, <2>1
<1>6. Ascending(s) => \A x \in ToSet(s) : Head(s) <= x
  BY <1>5 DEF ToSet
<1> QED  BY <1>1, <1>2, <1>3, <1>4, <1>6

\* A page of the replay: what it passes is sent or not of the subscription.
LEMMA ReplayRowsKeeps ==
  ASSUME StreamAssumption, StreamInv, NEW c \in Clients, ReplayRows(c)  PROVE StreamInv'
<1>1. TypeOK /\ JournalInv /\ CursorOK /\ Cursor \in 0..MaxId /\ committed \in SUBSET Nat /\ journal \subseteq committed
  BY StreamFacts
<1>2. /\ ClientType(c) /\ QueueInv(c) /\ PageInv(c) /\ ConnInv(c) /\ WireInv(c)
      /\ conn[c].seen \in Nat /\ conn[c].upper \in Nat /\ lastEventId[c] \in Nat
      /\ conn[c].seen \in 0..MaxId /\ conn[c].upper \in 0..MaxId /\ conn[c].owed \in BOOLEAN
      /\ conn[c] = [mode |-> conn[c].mode, upper |-> conn[c].upper, seen |-> conn[c].seen, owed |-> conn[c].owed]
      /\ Len(wire[c]) \in Nat
  BY TabFacts
<1> DEFINE S == {i \in journal : conn[c].seen < i /\ i <= conn[c].upper}
<1>3. PICK page \in FirstIds(S, PageSize) :
        \E shown \in InOrder({i \in ToSet(page) : Visible(c, i)}, PageSize) :
          LET reached == IF page = <<>> THEN conn[c].upper ELSE Last(page)
              events == [n \in DOMAIN shown |-> Frame("event", shown[n])]
          IN /\ Send(c, IF shown = page THEN events ELSE Append(events, Frame("checkpoint", reached)))
             /\ conn' = [conn EXCEPT ![c].seen = reached,
                                     ![c].mode = IF reached >= conn[c].upper THEN "live" ELSE "replay"]
  BY DEF ReplayRows
<1> DEFINE reached == IF page = <<>> THEN conn[c].upper ELSE Last(page)
<1> DEFINE events(s) == [n \in DOMAIN s |-> Frame("event", s[n])]
<1>4. PICK shown \in InOrder({i \in ToSet(page) : Visible(c, i)}, PageSize) :
        /\ Send(c, IF shown = page THEN events(shown) ELSE Append(events(shown), Frame("checkpoint", reached)))
        /\ conn' = [conn EXCEPT ![c].seen = reached,
                                ![c].mode = IF reached >= conn[c].upper THEN "live" ELSE "replay"]
  BY <1>3
<1> DEFINE frames == IF shown = page THEN events(shown) ELSE Append(events(shown), Frame("checkpoint", reached))
           mode == IF reached >= conn[c].upper THEN "live" ELSE "replay"
           L == Len(wire[c])
           N == Len(shown)
<1>5. /\ conn[c].mode = "rows" /\ conn[c].seen <= conn[c].upper /\ conn[c].upper <= Cursor
      /\ \A i \in committed : conn[c].seen < i => i \in journal
  BY <1>2 DEF ReplayRows, ConnInv
<1>6. /\ UNCHANGED <<journalVars, snapshot, tailCursor, tailRows, subscribed, queue, pageVars, faults>>
      /\ wire' = [wire EXCEPT ![c] = wire[c] \o frames]
  BY <1>4 DEF ReplayRows, Send
<1>7. S \in SUBSET Nat /\ S \subseteq Ids /\ PageSize \in Nat \ {0}
  BY <1>1 DEF TypeOK, StreamAssumption
<1>8. \A i \in committed : conn[c].seen < i /\ i <= conn[c].upper => i \in S
  BY <1>5
<1>9. \A i \in S : conn[c].seen < i /\ i <= conn[c].upper
  OBVIOUS
<1> HIDE DEF S
<1>10. /\ page \in Seq(S) /\ page \in Seq(Nat) /\ Ascending(page) /\ (page = <<>> => S = {})
       /\ \A i \in S, k \in DOMAIN page : i <= page[k] => i \in ToSet(page)
  BY <1>7, FirstIdsFirst
<1>11. \A k \in DOMAIN page : page[k] \in S
  BY <1>10, LenProperties, ElementOfSeq
<1>12. /\ reached \in 0..MaxId /\ conn[c].seen <= reached /\ reached <= conn[c].upper
       /\ \A i \in committed : conn[c].seen < i /\ i <= reached => i \in ToSet(page)
       /\ \A k \in DOMAIN page : page[k] <= reached
  <2>1. CASE page = <<>>
    BY <1>2, <1>5, <1>8, <1>10, <2>1, EmptyParts
  <2>2. CASE page # <<>>
    <3>1. Len(page) \in DOMAIN page /\ Last(page) = page[Len(page)] /\ \A k \in DOMAIN page : page[k] <= page[Len(page)]
      BY <1>10, <2>2, LastTop
    <3>2. reached = page[Len(page)] /\ reached \in S
      BY <1>11, <2>2, <3>1
    <3>3. reached \in Ids /\ conn[c].seen < reached /\ reached <= conn[c].upper
      BY <1>7, <1>9, <3>2
    <3>4. ASSUME NEW i \in committed, conn[c].seen < i, i <= reached  PROVE i \in ToSet(page)
      <4>1. i <= conn[c].upper /\ i \in Nat /\ MaxId \in Nat
        BY <1>1, <1>2, <3>3, <3>4 DEF Ids, StreamAssumption
      <4> QED  BY <1>8, <1>10, <3>1, <3>2, <3>4, <4>1
    <3> QED  BY <1>2, <3>1, <3>2, <3>3, <3>4 DEF Ids, StreamAssumption
  <2> QED  BY <2>1, <2>2
<1> HIDE DEF reached
<1>13. /\ shown \in Seq(Ids) /\ Ascending(shown) /\ DOMAIN shown = 1..N /\ N \in Nat
       /\ ToSet(shown) = {i \in ToSet(page) : Visible(c, i)}
       /\ \A k \in DOMAIN shown : shown[k] \in Ids /\ shown[k] \in Nat /\ shown[k] <= reached
  <2>1. PICK n \in 0..PageSize : shown \in [1..n -> {i \in ToSet(page) : Visible(c, i)}]
    BY <1>4 DEF InOrder, BoundedSeq, SeqOf
  <2>2. \A i \in ToSet(page) : i \in Ids /\ i <= reached
    BY <1>7, <1>11, <1>12 DEF ToSet
  <2>3. n \in Nat /\ shown \in [1..n -> Ids]
    BY <1>7, <2>1, <2>2
  <2>4. shown \in Seq(Ids) /\ N = n /\ DOMAIN shown = 1..N
    BY <2>3, SeqDef, LenProperties
  <2>5. Ascending(shown) /\ ToSet(shown) = {i \in ToSet(page) : Visible(c, i)}
    BY <1>4 DEF InOrder
  <2>6. \A k \in DOMAIN shown : shown[k] \in ToSet(page)
    BY <2>1
  <2> QED  BY <2>2, <2>3, <2>4, <2>5, <2>6 DEF Ids
<1>14. events(shown) \in Seq(Frames) /\ Len(events(shown)) = N /\ \A k \in 1..N : events(shown)[k] = Frame("event", shown[k])
  <2>1. \A k \in 1..N : Frame("event", shown[k]) \in Frames
    BY <1>13 DEF Frame, Frames, Ids
  <2>2. events(shown) \in [1..N -> Frames]
    BY <1>13, <2>1
  <2> QED  BY <1>13, <2>2, SeqDef, LenProperties
<1> HIDE DEF events
<1>15. /\ frames \in Seq(Frames) /\ DOMAIN frames = 1..Len(frames) /\ N <= Len(frames) /\ Len(frames) \in Nat
       /\ \A k \in 1..N : frames[k] = Frame("event", shown[k])
       /\ \A k \in DOMAIN frames : k > N => frames[k] = Frame("checkpoint", reached)
  <2>1. CASE shown = page
    BY <1>13, <1>14, <2>1, LenProperties
  <2>2. CASE shown # page
    <3>1. Frame("checkpoint", reached) \in Frames
      BY <1>12 DEF Frame, Frames
    <3>2. /\ Append(events(shown), Frame("checkpoint", reached)) \in Seq(Frames)
          /\ Len(Append(events(shown), Frame("checkpoint", reached))) = N + 1
          /\ \A k \in 1..N : Append(events(shown), Frame("checkpoint", reached))[k] = events(shown)[k]
          /\ Append(events(shown), Frame("checkpoint", reached))[N + 1] = Frame("checkpoint", reached)
      BY <1>14, <3>1, AppendProperties
    <3>3. frames \in Seq(Frames) /\ Len(frames) = N + 1 /\ frames[N + 1] = Frame("checkpoint", reached)
          /\ \A k \in 1..N : frames[k] = Frame("event", shown[k])
      BY <1>14, <2>2, <3>2
    <3>4. DOMAIN frames = 1..N + 1
      BY <3>3, LenProperties
    <3> QED  BY <1>13, <3>3, <3>4
  <2> QED  BY <2>1, <2>2
<1> HIDE DEF frames
<1>16. wire'[c] = wire[c] \o frames /\ Sending(c, frames) /\ Cursor' = Cursor
  <2>1. wire'[c] = wire[c] \o frames
    BY <1>1, <1>6 DEF TypeOK
  <2> QED  BY <1>6, <1>15, <2>1 DEF Sending, Cursor, journalVars, pageVars
<1>17. ASSUME NEW to, to <= reached, to \in Nat, NEW m \in Nat, \A k \in DOMAIN shown : shown[k] <= to => k <= m
       PROVE  CoveredNext(c, to, L + m)
  <2> SUFFICES ASSUME NEW i \in committed, Visible(c, i), lastEventId[c] < i, i <= to
               PROVE  SentNext(c, i, L + m)
    BY <1>16 DEF CoveredNext, Sending, journalVars, Visible
  <2>1. i \in Nat /\ L \in Nat
    BY <1>1, <1>2
  <2>2. CASE i <= conn[c].seen
    <3>1. Covered(c, conn[c].seen, Len(wire[c])) /\ Len(wire[c]) \in 0..Len(wire[c]) /\ L + m \in Nat /\ Len(wire[c]) <= L + m
      BY <1>2, <1>5 DEF ConnInv
    <3>2. CoveredNext(c, conn[c].seen, L + m)
      BY <1>16, <3>1, CoveredSend
    <3>3. c \in audience'[i] /\ lastEventId'[c] < i /\ i \in committed'
      BY <1>16 DEF Sending, journalVars, Visible
    <3> QED  BY <2>2, <3>2, <3>3 DEF CoveredNext
  <2>3. CASE conn[c].seen < i
    <3>1. i <= reached
      BY <1>12, <1>17, <2>1
    <3>2. i \in ToSet(shown)
      BY <1>12, <1>13, <2>3, <3>1
    <3>3. PICK k \in DOMAIN shown : i = shown[k]
      BY <3>2 DEF ToSet
    <3>4. k \in 1..N /\ k <= m /\ k \in 1..Len(frames)
      BY <1>13, <1>15, <1>17, <3>3
    <3>5. wire'[c][L + k] = frames[k]
      <4>1. wire[c] \in Seq(Frames)
        BY <1>2 DEF ClientType
      <4>2. \A q \in 1..Len(frames) : (wire[c] \o frames)[Len(wire[c]) + q] = frames[q]
        BY <1>15, <4>1, ConcatParts
      <4> QED  BY <1>16, <3>4, <4>2
    <3>6. L + k \in 1..L + m
      BY <2>1, <3>4
    <3> QED  BY <1>15, <3>3, <3>4, <3>5, <3>6 DEF SentNext
  <2> QED  BY <1>2, <2>1, <2>2, <2>3
<1>18. CoveredNext(c, reached, L + Len(frames))
  <2>1. \A k \in DOMAIN shown : shown[k] <= reached => k <= Len(frames)
    BY <1>13, <1>15
  <2>2. reached \in Nat /\ reached <= reached /\ Len(frames) \in Nat
    BY <1>12, <1>15
  <2> QED  BY <1>17, <2>1, <2>2
<1>19. ASSUME NEW k \in DOMAIN frames
       PROVE  /\ frames[k].type \in {"event", "checkpoint"}
              /\ frames[k].id <= Cursor /\ CoveredNext(c, frames[k].id, L + k)
  <2>1. CASE k \in 1..N
    <3>1. frames[k].type = "event" /\ frames[k].id = shown[k]
      <4>1. frames[k] = Frame("event", shown[k])
        BY <1>15, <2>1
      <4> HIDE DEF N, L
      <4> QED  BY <4>1 DEF Frame
    <3>2. \A j \in DOMAIN shown : shown[j] <= shown[k] => j <= k
      BY <1>13, <2>1 DEF Ascending
    <3>3. CoveredNext(c, shown[k], L + k)
      BY <1>13, <1>17, <2>1, <3>2
    <3>4. shown[k] <= Cursor
      BY <1>1, <1>2, <1>5, <1>12, <1>13, <2>1
    <3> QED  BY <3>1, <3>3, <3>4
  <2>2. CASE k \notin 1..N
    <3>1. k > N /\ k \in Nat
      BY <1>13, <1>15, <2>2
    <3>2. frames[k].type = "checkpoint" /\ frames[k].id = reached
      BY <1>15, <3>1 DEF Frame
    <3>3. \A j \in DOMAIN shown : shown[j] <= reached => j <= k
      BY <1>13, <3>1
    <3>4. CoveredNext(c, reached, L + k)
      <4>1. reached \in Nat /\ reached <= reached
        BY <1>12
      <4> QED  BY <1>17, <3>1, <3>3, <4>1
    <3>5. reached <= Cursor
      BY <1>1, <1>2, <1>5, <1>12
    <3> QED  BY <3>2, <3>4, <3>5
  <2> QED  BY <2>1, <2>2
<1>20. /\ WireInv(c)' /\ wire'[c] \in Seq(Frames) /\ Len(wire'[c]) = L + Len(frames)
       /\ \A k \in DOMAIN wire'[c] : wire'[c][k].type \in {"event", "checkpoint"}
  <2>1. conn[c].mode # "closed"
    BY <1>5
  <2> QED  BY <1>16, <1>19, <2>1, WireSend
<1>21. /\ conn'[c] = [mode |-> mode, upper |-> conn[c].upper, seen |-> reached, owed |-> conn[c].owed]
       /\ mode \in {"live", "replay"} /\ (mode = "live" => conn[c].upper <= reached)
       /\ conn' = [conn EXCEPT ![c] = conn'[c]]
  <2>1. conn'[c] = [conn[c] EXCEPT !.seen = reached, !.mode = mode]
    BY <1>1, <1>4 DEF TypeOK
  <2> QED  BY <1>1, <1>2, <1>4, <1>12, <2>1 DEF TypeOK
<1> HIDE DEF mode
<1>22. /\ conn'[c].mode = mode /\ conn'[c].upper = conn[c].upper /\ conn'[c].seen = reached
       /\ conn'[c] \in Conns
  BY <1>2, <1>12, <1>21, ConnMade
<1>23. OnlyOf(c)
  BY <1>1, <1>6, <1>16, <1>21 DEF OnlyOf, TypeOK, pageVars
<1>24. ClientType(c)' /\ QueueInv(c)' /\ PageInv(c)'
  <2>1. UNCHANGED <<queue, subscribed, phase, lastEventId, reflected, committed, audience, tailCursor>>
    BY <1>6 DEF pageVars, journalVars
  <2>2. ClientType(c)' /\ QueueInv(c)'
    BY <1>2, <1>20, <1>22, <2>1 DEF ClientType, QueueInv
  <2>3. phase[c] # "boot"
    BY <1>2, <1>5 DEF ConnInv
  <2> QED  BY <1>2, <1>16, <2>1, <2>2, <2>3 DEF PageInv, Visible
<1>25. ConnInv(c)'
  <2>1. UNCHANGED <<queue, subscribed, phase, committed, tailCursor, journal>>
    BY <1>6 DEF pageVars, journalVars
  <2>2. CoveredNext(c, conn'[c].seen, Len(wire'[c]))
    BY <1>18, <1>20, <1>22
  <2>3. reached <= Cursor' /\ conn[c].upper <= Cursor'
    BY <1>1, <1>2, <1>5, <1>12, <1>16
  <2>4. ASSUME c \in subscribed, NEW i \in committed, conn[c].upper < i, i <= tailCursor
        PROVE  i <= reached \/ i \in ToSet(queue[c])
    <3>1. i <= conn[c].seen \/ i \in ToSet(queue[c])
      BY <1>2, <1>5, <2>4 DEF ConnInv
    <3> QED  BY <1>1, <1>2, <1>12, <3>1
  <2>5. phase'[c] = "open" /\ (mode = "replay" => reached <= conn[c].upper) /\ (mode = "live" => conn[c].upper <= reached)
        /\ mode # "rows" /\ Covered(c, conn[c].seen, Len(wire[c]))'
    BY <1>2, <1>5, <1>12, <1>21, <2>1, <2>2, NextCovered DEF ConnInv
  <2> QED  BY <1>20, <1>21, <1>22, <2>1, <2>3, <2>4, <2>5 DEF ConnInv
<1> QED  BY <1>20, <1>23, <1>24, <1>25, OnlyStep DEF ClientInv

\* One queued item.
LEMMA ServeLiveKeeps ==
  ASSUME StreamAssumption, StreamInv, NEW c \in Clients, ServeLive(c)  PROVE StreamInv'
<1>1. /\ TypeOK /\ CursorOK /\ Cursor \in 0..MaxId /\ tailCursor \in Nat /\ committed \in SUBSET Nat
      /\ 0 \notin committed
  <2>1. TypeOK /\ CursorOK /\ Cursor \in 0..MaxId /\ tailCursor \in Nat /\ committed \in SUBSET Nat
    BY StreamFacts
  <2>2. 0 \notin committed
    BY <2>1 DEF TypeOK, Ids
  <2> QED  BY <2>1, <2>2
<1>2. /\ ClientType(c) /\ QueueInv(c) /\ PageInv(c) /\ ConnInv(c) /\ WireInv(c)
      /\ conn[c].seen \in Nat /\ conn[c].upper \in Nat /\ lastEventId[c] \in Nat
      /\ conn[c].seen \in 0..MaxId /\ conn[c].upper \in 0..MaxId /\ conn[c].owed \in BOOLEAN
      /\ conn[c] = [mode |-> conn[c].mode, upper |-> conn[c].upper, seen |-> conn[c].seen, owed |-> conn[c].owed]
      /\ Len(wire[c]) \in Nat
  BY TabFacts
<1> DEFINE i == Head(queue[c])
           rest == Tail(queue[c])
           L == Len(wire[c])
<1>3. conn[c].mode = "live" /\ queue[c] # <<>> /\ queue[c] \in Seq(0..MaxId)
  BY <1>2 DEF ServeLive, ClientType
<1>4. /\ rest \in Seq(0..MaxId) /\ Len(rest) = Len(queue[c]) - 1 /\ Len(queue[c]) \in Nat
      /\ 1 \in DOMAIN queue[c] /\ i = queue[c][1] /\ i \in 0..MaxId
      /\ \A k \in DOMAIN rest : rest[k] = queue[c][k + 1] /\ k + 1 \in DOMAIN queue[c]
      /\ Ascending(queue[c]) => Ascending(rest)
      /\ \A x \in ToSet(queue[c]) : x = i \/ x \in ToSet(rest)
      /\ Ascending(queue[c]) => \A x \in ToSet(queue[c]) : i <= x
  BY <1>3, QueueParts
<1>5. /\ UNCHANGED <<journalVars, snapshot, tailCursor, tailRows, pageVars, faults>>
      /\ queue'[c] = rest /\ queue' = [queue EXCEPT ![c] = rest]
  BY <1>1 DEF ServeLive, TypeOK
<1>6. \/ /\ i = Closing
         /\ Send(c, <<Frame("end", 0)>>)
         /\ conn' = [conn EXCEPT ![c] = Closed]
         /\ subscribed' = subscribed \ {c}
      \/ /\ i # Closing /\ i <= conn[c].seen
         /\ UNCHANGED <<wire, conn, subscribed>>
      \/ /\ i # Closing /\ i > conn[c].seen /\ Visible(c, i)
         /\ Send(c, <<Frame("event", i)>>)
         /\ conn' = [conn EXCEPT ![c].seen = i, ![c].owed = FALSE]
         /\ UNCHANGED subscribed
      \/ /\ i # Closing /\ i > conn[c].seen /\ ~Visible(c, i)
         /\ conn' = [conn EXCEPT ![c].seen = i, ![c].owed = TRUE]
         /\ UNCHANGED <<wire, subscribed>>
  BY DEF ServeLive
<1> HIDE DEF i, rest
<1>7. /\ c \in subscribed => i \in committed /\ i # Closing /\ i <= tailCursor /\ Ascending(queue[c])
      /\ c \notin subscribed => i = Closing
  BY <1>1, <1>2, <1>4 DEF QueueInv, Closing
<1>8. subscribed' = subscribed
  BY <1>6, <1>7
<1>9. QueueInv(c)' /\ Len(rest) <= QueueMax /\ Cursor' = Cursor
  <2>1. Len(rest) <= QueueMax
    BY <1>2, <1>4 DEF ClientType, StreamAssumption
  <2>2. QueueInv(c)'
    <3>1. \A k \in DOMAIN rest : rest[k] = queue[c][k + 1] /\ k + 1 \in DOMAIN queue[c]
      BY <1>4
    <3> QED  BY <1>2, <1>4, <1>5, <1>8, <3>1 DEF QueueInv, journalVars
  <2> QED  BY <1>5, <2>1, <2>2 DEF Cursor, journalVars
<1>10. ASSUME c \in subscribed, NEW j \in committed, conn[c].upper < j, j <= tailCursor
       PROVE  j <= conn[c].seen \/ j = i \/ j \in ToSet(rest)
  <2>1. j <= conn[c].seen \/ j \in ToSet(queue[c])
    BY <1>2, <1>3, <1>10 DEF ConnInv
  <2> QED  BY <1>4, <2>1
<1>11. ASSUME i # Closing, i > conn[c].seen, NEW j \in committed, conn[c].seen < j, j <= i
       PROVE  j = i
  <2>1. c \in subscribed /\ i \in Nat /\ i <= tailCursor /\ j \in Nat /\ conn[c].upper <= conn[c].seen
    BY <1>1, <1>2, <1>3, <1>4, <1>7, <1>11 DEF ConnInv
  <2>2. j \in ToSet(queue[c])
    <3>1. conn[c].upper < j /\ j <= tailCursor /\ ~(j <= conn[c].seen)
      BY <1>1, <1>2, <1>11, <2>1
    <3> QED  BY <1>2, <1>3, <1>11, <2>1, <3>1 DEF ConnInv
  <2>3. i <= j
    BY <1>4, <1>7, <2>1, <2>2
  <2> QED  BY <1>11, <2>1, <2>3
<1>12. SUFFICES /\ conn'[c] \in Conns /\ conn' = [conn EXCEPT ![c] = conn'[c]]
                /\ wire'[c] \in Seq(Frames) /\ wire' = [wire EXCEPT ![c] = wire'[c]]
                /\ WireInv(c)' /\ ConnInv(c)'
  <2>1. UNCHANGED <<phase, lastEventId, reflected, committed, audience>>
    BY <1>5 DEF pageVars, journalVars
  <2>2. ClientType(c)'
    BY <1>2, <1>4, <1>5, <1>9, <1>12, <2>1 DEF ClientType
  <2>3. OnlyOf(c)
    BY <1>1, <1>5, <1>8, <1>12, <2>1 DEF OnlyOf, TypeOK
  <2>4. PageInv(c)'
    <3>1. phase[c] # "boot"
      BY <1>2, <1>3 DEF ConnInv
    <3> QED  BY <1>2, <1>9, <2>1, <3>1 DEF PageInv, Visible
  <2> QED  BY <1>9, <1>12, <2>2, <2>3, <2>4, OnlyStep DEF ClientInv
<1>13. /\ conn[c].seen <= Cursor /\ conn[c].upper <= Cursor /\ Covered(c, conn[c].seen, L) /\ phase[c] = "open"
       /\ \A k \in DOMAIN wire[c] : wire[c][k].type \in {"event", "checkpoint"}
       /\ phase' = phase /\ lastEventId' = lastEventId /\ committed' = committed /\ audience' = audience
       /\ tailCursor' = tailCursor /\ conn[c].upper <= conn[c].seen /\ UNCHANGED journalVars
  BY <1>2, <1>3, <1>5 DEF ConnInv, pageVars, journalVars
<1>14. CASE i = Closing
  <2> DEFINE frames == <<Frame("end", 0)>>
  <2>1. wire' = [wire EXCEPT ![c] = wire[c] \o frames] /\ conn' = [conn EXCEPT ![c] = Closed]
    BY <1>6, <1>14 DEF Send
  <2>2. wire'[c] = wire[c] \o frames /\ conn'[c] = Closed /\ Closed.mode = "closed"
    BY <1>1, <2>1 DEF TypeOK, Closed
  <2>3. /\ frames \in Seq(Frames) /\ DOMAIN frames = 1..1 /\ Len(frames) = 1 /\ frames[1].type = "end"
    BY DEF Frame, Frames, StreamAssumption
  <2> HIDE DEF frames
  <2>4. Sending(c, frames)
    BY <1>13, <2>2, <2>3 DEF Sending
  <2>5. WireInv(c)' /\ wire'[c] \in Seq(Frames)
    BY <1>3, <2>3, <2>4, WireSend
  <2>6. conn'[c] \in Conns
    BY <2>2 DEF Closed, Conns, StreamAssumption
  <2> QED  BY <2>1, <2>2, <2>5, <2>6 DEF ConnInv
<1>15. CASE i # Closing /\ i <= conn[c].seen
  <2>1. UNCHANGED <<wire, conn, subscribed>>
    BY <1>1, <1>2, <1>4, <1>6, <1>15
  <2>2. ASSUME c \in subscribed, NEW j \in committed, conn[c].upper < j, j <= tailCursor
        PROVE  j <= conn[c].seen \/ j \in ToSet(rest)
    BY <1>10, <1>15, <2>2
  <2>3. WireInv(c)' /\ Covered(c, conn[c].seen, Len(wire[c]))'
    BY <1>2, <1>9, <1>13, <2>1 DEF WireInv, Covered, Sent, Visible
  <2>4. ConnInv(c)'
    BY <1>3, <1>5, <1>8, <1>9, <1>13, <2>1, <2>2, <2>3 DEF ConnInv
  <2>5. conn' = [conn EXCEPT ![c] = conn'[c]] /\ wire' = [wire EXCEPT ![c] = wire'[c]]
    BY <1>1, <2>1 DEF TypeOK
  <2> QED  BY <1>2, <2>1, <2>3, <2>4, <2>5 DEF ClientType
<1>16. ASSUME i # Closing, i > conn[c].seen, NEW owed \in BOOLEAN,
              conn' = [conn EXCEPT ![c].seen = i, ![c].owed = owed],
              WireInv(c)', CoveredNext(c, i, Len(wire'[c])), wire' = [wire EXCEPT ![c] = wire'[c]],
              wire'[c] \in Seq(Frames), \A k \in DOMAIN wire'[c] : wire'[c][k].type \in {"event", "checkpoint"}
       PROVE  /\ conn'[c] \in Conns /\ conn' = [conn EXCEPT ![c] = conn'[c]]
              /\ wire'[c] \in Seq(Frames) /\ wire' = [wire EXCEPT ![c] = wire'[c]]
              /\ WireInv(c)' /\ ConnInv(c)'
  <2>1. /\ conn'[c] = [mode |-> "live", upper |-> conn[c].upper, seen |-> i, owed |-> owed]
        /\ conn' = [conn EXCEPT ![c] = conn'[c]]
    <3>1. conn'[c] = [conn[c] EXCEPT !.seen = i, !.owed = owed]
      BY <1>1, <1>16 DEF TypeOK
    <3> QED  BY <1>1, <1>2, <1>3, <1>16, <3>1 DEF TypeOK
  <2>2. conn'[c] \in Conns /\ conn'[c].mode = "live" /\ conn'[c].upper = conn[c].upper /\ conn'[c].seen = i
    BY <1>2, <1>4, <2>1, ConnMade
  <2>3. i <= Cursor /\ conn[c].upper <= i /\ i \in Nat /\ c \in subscribed
    BY <1>1, <1>2, <1>4, <1>7, <1>13, <1>16 DEF CursorOK
  <2>4. ASSUME NEW j \in committed, conn[c].upper < j, j <= tailCursor
        PROVE  j <= i \/ j \in ToSet(rest)
    <3>1. j <= conn[c].seen \/ j = i \/ j \in ToSet(rest)
      BY <1>10, <2>3, <2>4
    <3> QED  BY <1>1, <1>2, <1>16, <2>3, <3>1
  <2>5. Covered(c, conn[c].seen, Len(wire[c]))'
    BY <1>16, <2>2, NextCovered
  <2>6. ConnInv(c)'
    BY <1>5, <1>9, <1>13, <1>16, <2>2, <2>3, <2>4, <2>5 DEF ConnInv
  <2> QED  BY <1>16, <2>1, <2>2, <2>6
<1>17. CASE i # Closing /\ i > conn[c].seen /\ Visible(c, i)
  <2> DEFINE frames == <<Frame("event", i)>>
  <2>1. wire' = [wire EXCEPT ![c] = wire[c] \o frames] /\ conn' = [conn EXCEPT ![c].seen = i, ![c].owed = FALSE]
    <3>1. ~(i <= conn[c].seen)
      BY <1>2, <1>4, <1>17
    <3>2. Send(c, <<Frame("event", i)>>) /\ conn' = [conn EXCEPT ![c].seen = i, ![c].owed = FALSE]
      BY <1>6, <1>17, <3>1
    <3> QED  BY <3>2 DEF Send
  <2>2. wire'[c] = wire[c] \o frames
    BY <1>1, <2>1 DEF TypeOK
  <2>3. /\ frames \in Seq(Frames) /\ DOMAIN frames = 1..1 /\ Len(frames) = 1
        /\ frames[1] = Frame("event", i) /\ frames[1].type = "event" /\ frames[1].id = i
    BY <1>4 DEF Frame, Frames
  <2> HIDE DEF frames
  <2>4. Sending(c, frames)
    BY <1>13, <2>2, <2>3 DEF Sending
  <2>5. wire'[c][L + 1] = Frame("event", i)
    <3>1. wire[c] \in Seq(Frames)
      BY <1>2 DEF ClientType
    <3>2. frames \in Seq(Frames) /\ 1 \in 1..Len(frames)
      BY <2>3
    <3>3. \A k \in 1..Len(frames) : (wire[c] \o frames)[Len(wire[c]) + k] = frames[k]
      BY <3>1, <3>2, ConcatParts
    <3> QED  BY <2>2, <2>3, <3>2, <3>3
  <2>6. CoveredNext(c, i, L + 1)
    <3> SUFFICES ASSUME NEW j \in committed, Visible(c, j), lastEventId[c] < j, j <= i
                 PROVE  SentNext(c, j, L + 1)
      BY <1>13 DEF CoveredNext, Visible
    <3>1. CASE j <= conn[c].seen
      <4>1. Len(wire[c]) \in 0..Len(wire[c]) /\ L + 1 \in Nat /\ Len(wire[c]) <= L + 1
        BY <1>2
      <4>2. CoveredNext(c, conn[c].seen, L + 1)
        BY <1>13, <2>4, <4>1, CoveredSend
      <4> QED  BY <1>13, <3>1, <4>2 DEF CoveredNext, Visible
    <3>2. CASE conn[c].seen < j
      <4>1. j = i
        BY <1>11, <1>17, <3>2
      <4>2. L + 1 \in 1..L + 1
        BY <1>2
      <4> QED  BY <2>5, <4>1, <4>2 DEF SentNext
    <3> QED  BY <1>1, <1>2, <3>1, <3>2
  <2>7. i <= Cursor
    BY <1>1, <1>7, <1>17 DEF CursorOK
  <2>8. /\ WireInv(c)' /\ wire'[c] \in Seq(Frames) /\ Len(wire'[c]) = L + 1
        /\ \A k \in DOMAIN wire'[c] : wire'[c][k].type \in {"event", "checkpoint"}
    <3>1. \A k \in DOMAIN frames :
            /\ frames[k].type \in {"event", "checkpoint"}
            /\ frames[k].id <= Cursor /\ CoveredNext(c, frames[k].id, Len(wire[c]) + k)
      BY <2>3, <2>6, <2>7
    <3> QED  BY <1>3, <2>3, <2>4, <3>1, WireSend
  <2>9. wire' = [wire EXCEPT ![c] = wire'[c]] /\ CoveredNext(c, i, Len(wire'[c]))
    BY <2>1, <2>2, <2>6, <2>8
  <2> QED  BY <1>16, <1>17, <2>1, <2>8, <2>9
<1>18. CASE i # Closing /\ i > conn[c].seen /\ ~Visible(c, i)
  <2>1. conn' = [conn EXCEPT ![c].seen = i, ![c].owed = TRUE] /\ wire' = wire
    BY <1>1, <1>2, <1>4, <1>6, <1>18
  <2>2. WireInv(c)'
    BY <1>2, <1>9, <1>13, <2>1 DEF WireInv, Covered, Sent, Visible
  <2>3. CoveredNext(c, i, L)
    <3> SUFFICES ASSUME NEW j \in committed, Visible(c, j), lastEventId[c] < j, j <= i
                 PROVE  SentNext(c, j, L)
      BY <1>13 DEF CoveredNext, Visible
    <3>1. j <= conn[c].seen
      <4>1. conn[c].seen < j => j = i
        BY <1>11, <1>18
      <4> QED  BY <1>1, <1>2, <1>18, <4>1
    <3> QED  BY <1>13, <2>1, <3>1 DEF Covered, Sent, SentNext
  <2>4. wire' = [wire EXCEPT ![c] = wire'[c]] /\ wire'[c] \in Seq(Frames) /\ wire'[c] = wire[c]
    BY <1>1, <1>2, <2>1 DEF TypeOK, ClientType
  <2> QED  BY <1>13, <1>16, <1>18, <2>1, <2>2, <2>3, <2>4
<1> QED
  <2>1. i \in Nat
    BY <1>4, <1>7 DEF StreamAssumption
  <2> QED  BY <1>2, <1>14, <1>15, <1>17, <1>18, <2>1

-----------------------------------------------------------------------------
(* The browser: connectStream and handleStreamEvent.                        *)

\* Where the page's cursor goes, and what the page shows then.
LEMMA SnapshotPage ==
  ASSUME StreamAssumption, StreamInv, NEW c \in Clients, TakeSnapshot(c), UNCHANGED journalVars
  PROVE  /\ lastEventId'[c] = snapshot /\ reflected'[c] = 1..snapshot
         /\ lastEventId'[c] \in 0..MaxId /\ reflected'[c] \in SUBSET Ids
         /\ lastEventId' = [lastEventId EXCEPT ![c] = lastEventId'[c]]
         /\ reflected' = [reflected EXCEPT ![c] = reflected'[c]]
         /\ lastEventId'[c] <= Cursor'
         /\ \A i \in committed' : i <= lastEventId'[c] => i \in reflected'[c]
<1> USE DEF TakeSnapshot, journalVars
<1>1. TypeOK /\ JournalInv /\ snapshot \in 0..MaxId /\ committed \in SUBSET Ids
  BY StreamFacts DEF TypeOK
<1>2. lastEventId'[c] = snapshot /\ reflected'[c] = 1..snapshot
  BY <1>1 DEF TypeOK
<1>3. 1..snapshot \in SUBSET Ids
  BY <1>1 DEF Ids, StreamAssumption
<1>4. snapshot <= Cursor'
  BY <1>1 DEF JournalInv, Cursor
<1>5. \A i \in committed : i <= snapshot => i \in 1..snapshot
  BY <1>1 DEF Ids, StreamAssumption
<1> QED  BY <1>1, <1>2, <1>3, <1>4, <1>5

LEMMA BootstrapKeeps ==
  ASSUME StreamAssumption, StreamInv, NEW c \in Clients, Bootstrap(c)  PROVE StreamInv'
<1>1. TypeOK
  BY StreamFacts
<1>2. ClientType(c) /\ QueueInv(c) /\ PageInv(c)
  BY TabFacts
<1>3. /\ phase[c] = "boot" /\ phase' = [phase EXCEPT ![c] = "connect"] /\ TakeSnapshot(c)
      /\ UNCHANGED <<journalVars, snapshot, hubVars, wire, faults>> /\ phase'[c] = "connect"
  BY <1>1 DEF Bootstrap, TypeOK
<1>4. /\ lastEventId'[c] \in 0..MaxId /\ reflected'[c] \in SUBSET Ids
      /\ lastEventId' = [lastEventId EXCEPT ![c] = lastEventId'[c]]
      /\ reflected' = [reflected EXCEPT ![c] = reflected'[c]]
      /\ lastEventId'[c] <= Cursor'
      /\ \A i \in committed' : i <= lastEventId'[c] => i \in reflected'[c]
  BY <1>3, SnapshotPage
<1>5. wire[c] = <<>> /\ conn[c].mode = "closed"
  BY <1>2, <1>3 DEF PageInv
<1>6. OnlyOf(c)
  BY <1>1, <1>3, <1>4 DEF OnlyOf, TypeOK, hubVars
<1>7. ClientType(c)'
  BY <1>2, <1>3, <1>4 DEF ClientType, hubVars
<1>8. QueueInv(c)' /\ WireInv(c)' /\ ConnInv(c)'
  BY <1>2, <1>3, <1>5, EmptyParts DEF QueueInv, WireInv, ConnInv, hubVars, journalVars
<1>9. PageInv(c)'
  BY <1>3, <1>4 DEF PageInv
<1> QED  BY <1>6, <1>7, <1>8, <1>9, OnlyStep DEF ClientInv

\* Reading an event or a checkpoint: every event the frame passes is applied,
\* shown already or not of the subscription.
LEMMA ReadKeeps ==
  ASSUME StreamAssumption, StreamInv, NEW c \in Clients,
         wire[c] # <<>>, Head(wire[c]).type \in {"event", "checkpoint"}, phase[c] = "open", ReadFrame(c),
         UNCHANGED <<journalVars, snapshot, hubVars, phase, faults>>,
         lastEventId' = [lastEventId EXCEPT ![c] = IF Head(wire[c]).id <= @ THEN @ ELSE Head(wire[c]).id],
         reflected' = [reflected EXCEPT ![c] = reflected'[c]], reflected'[c] \in SUBSET Ids,
         reflected[c] \subseteq reflected'[c],
         Head(wire[c]).type = "event" =>
           Head(wire[c]).id <= lastEventId[c] \/ Head(wire[c]).id \in reflected'[c]
  PROVE  StreamInv'
<1> DEFINE at == Head(wire[c]).id
<1>1. TypeOK /\ CursorOK /\ Cursor \in 0..MaxId /\ committed \in SUBSET Nat
  BY StreamFacts
<1>2. /\ ClientType(c) /\ QueueInv(c) /\ PageInv(c) /\ ConnInv(c) /\ WireInv(c)
      /\ conn[c].seen \in Nat /\ lastEventId[c] \in Nat
      /\ \A k \in DOMAIN wire[c] : wire[c][k] \in Frames
  BY TabFacts
<1>3. /\ 1 \in DOMAIN wire[c] /\ Head(wire[c]) = wire[c][1] /\ at \in 0..MaxId /\ at \in Nat
      /\ wire'[c] = Tail(wire[c]) /\ wire' = [wire EXCEPT ![c] = wire'[c]]
  <2>1. 1 \in DOMAIN wire[c] /\ Head(wire[c]) = wire[c][1]
    BY <1>2, TailParts DEF ClientType
  <2>2. wire[c][1] \in Frames
    BY <1>2, <2>1
  <2>3. wire'[c] = Tail(wire[c]) /\ wire' = [wire EXCEPT ![c] = wire'[c]]
    BY <1>1 DEF ReadFrame, TypeOK
  <2> QED  BY <2>1, <2>2, <2>3 DEF Frames, StreamAssumption
<1>4. at <= Cursor /\ Covered(c, at, 1)
  BY <1>2, <1>3 DEF WireInv
<1> HIDE DEF at
<1>5. /\ lastEventId'[c] \in 0..MaxId /\ lastEventId'[c] \in Nat
      /\ lastEventId[c] <= lastEventId'[c] /\ at <= lastEventId'[c]
      /\ (lastEventId'[c] = lastEventId[c] \/ (lastEventId'[c] = at /\ lastEventId[c] < at))
      /\ lastEventId' = [lastEventId EXCEPT ![c] = lastEventId'[c]]
  <2>1. /\ lastEventId'[c] = IF at <= lastEventId[c] THEN lastEventId[c] ELSE at
        /\ lastEventId' = [lastEventId EXCEPT ![c] = lastEventId'[c]]
    BY <1>1 DEF TypeOK, at
  <2>2. lastEventId[c] \in 0..MaxId
    BY <1>2 DEF ClientType
  <2> QED  BY <1>2, <1>3, <2>1, <2>2
<1>6. /\ WireInv(c)' /\ wire'[c] \in Seq(Frames)
      /\ \A k \in DOMAIN wire'[c] : k + 1 \in DOMAIN wire[c] /\ wire'[c][k] = wire[c][k + 1]
      /\ \A to : Covered(c, to, Len(wire[c])) => CoveredNext(c, to, Len(wire'[c]))
  <2>1. Head(wire[c]).id <= lastEventId'[c]
    BY <1>5 DEF at
  <2> QED  BY <1>3, <1>5, <2>1, WireRead
<1>7. Cursor' = Cursor /\ UNCHANGED <<committed, audience, journal, tailCursor, subscribed, queue, conn, phase>>
  BY DEF Cursor, journalVars, hubVars
<1>8. PageInv(c)'
  <2>1. lastEventId'[c] <= Cursor'
    BY <1>2, <1>4, <1>5, <1>7 DEF PageInv
  <2>2. ASSUME NEW i \in committed, i <= lastEventId'[c], Visible(c, i)  PROVE i \in reflected'[c]
    <3>1. CASE i <= lastEventId[c]
      BY <1>2, <2>2, <3>1 DEF PageInv
    <3>2. CASE lastEventId[c] < i
      <4>1. i <= at
        BY <1>1, <1>2, <1>3, <1>5, <2>2, <3>2
      <4>2. PICK p \in 1..1 : wire[c][p] = Frame("event", i)
        BY <1>4, <2>2, <3>2, <4>1 DEF Covered, Sent
      <4>3. Head(wire[c]) = Frame("event", i)
        BY <1>3, <4>2
      <4>4. Head(wire[c]).type = "event" /\ Head(wire[c]).id = i
        BY <4>3 DEF Frame
      <4>5. ~(i <= lastEventId[c])
        BY <1>1, <1>2, <3>2
      <4> QED  BY <4>4, <4>5
    <3> QED  BY <1>1, <1>2, <3>1, <3>2
  <2> QED  BY <1>7, <2>1, <2>2 DEF PageInv, Visible
<1>9. QueueInv(c)' /\ ClientType(c)'
  BY <1>2, <1>5, <1>6, <1>7 DEF QueueInv, ClientType
<1>10. ConnInv(c)'
  <2> SUFFICES ASSUME conn[c].mode # "closed"  PROVE ConnInv(c)'
    BY <1>7 DEF ConnInv
  <2>1. \A k \in DOMAIN wire'[c] : wire'[c][k].type \in {"event", "checkpoint"}
    BY <1>2, <1>6 DEF ConnInv
  <2>2. CoveredNext(c, conn'[c].seen, Len(wire'[c]))
    BY <1>2, <1>6, <1>7 DEF ConnInv
  <2>3. Covered(c, conn[c].seen, Len(wire[c]))'
    BY <2>2, NextCovered
  <2> QED  BY <1>2, <1>7, <2>1, <2>3 DEF ConnInv
<1>11. OnlyOf(c)
  BY <1>1, <1>3, <1>5 DEF OnlyOf, TypeOK, hubVars
<1> QED  BY <1>6, <1>8, <1>9, <1>10, <1>11, OnlyStep DEF ClientInv

LEMMA ReceiveEventKeeps ==
  ASSUME StreamAssumption, StreamInv, NEW c \in Clients, ReceiveEvent(c)  PROVE StreamInv'
<1> DEFINE i == Head(wire[c]).id
<1>1. TypeOK
  BY StreamFacts
<1>2. /\ ClientType(c) /\ ConnInv(c)
      /\ \A k \in DOMAIN wire[c] : wire[c][k] \in Frames
      /\ lastEventId[c] \in Nat /\ WireInv(c) /\ committed \in SUBSET Ids
  BY TabFacts, StreamFacts DEF TypeOK
<1>3. /\ wire[c] # <<>> /\ Head(wire[c]).type = "event" /\ phase[c] = "open" /\ ReadFrame(c)
      /\ UNCHANGED <<journalVars, snapshot, hubVars, phase, faults>>
      /\ IF i <= lastEventId[c] THEN UNCHANGED <<lastEventId, reflected>>
         ELSE /\ lastEventId' = [lastEventId EXCEPT ![c] = i]
              /\ reflected' = [reflected EXCEPT ![c] = @ \cup {i}]
  BY DEF ReceiveEvent, Reading
<1>4. i \in 0..MaxId
  <2>1. 1 \in DOMAIN wire[c] /\ Head(wire[c]) = wire[c][1]
    BY <1>2, <1>3, TailParts DEF ClientType
  <2> QED  BY <1>2, <2>1 DEF Frames
<1> HIDE DEF i
<1>5. lastEventId' = [lastEventId EXCEPT ![c] = IF i <= @ THEN @ ELSE i]
  BY <1>1, <1>3 DEF TypeOK
<1>6. /\ reflected' = [reflected EXCEPT ![c] = reflected'[c]] /\ reflected'[c] \in SUBSET Ids
      /\ reflected[c] \subseteq reflected'[c] /\ (i <= lastEventId[c] \/ i \in reflected'[c])
  <2>1. CASE i <= lastEventId[c]
    BY <1>1, <1>3, <2>1 DEF TypeOK
  <2>2. CASE ~(i <= lastEventId[c])
    <3>1. i \in Ids
      BY <1>2, <1>4, <2>2 DEF Ids, StreamAssumption
    <3>2. reflected' = [reflected EXCEPT ![c] = reflected[c] \cup {i}]
      BY <1>3, <2>2
    <3> QED  BY <1>1, <3>1, <3>2 DEF TypeOK
  <2> QED  BY <2>1, <2>2
<1> QED  BY <1>3, <1>5, <1>6, ReadKeeps DEF i

LEMMA ReceiveCheckpointKeeps ==
  ASSUME StreamAssumption, StreamInv, NEW c \in Clients, ReceiveCheckpoint(c)  PROVE StreamInv'
<1>1. TypeOK
  BY StreamFacts
<1>2. /\ wire[c] # <<>> /\ Head(wire[c]).type = "checkpoint" /\ phase[c] = "open" /\ ReadFrame(c)
      /\ UNCHANGED <<journalVars, snapshot, hubVars, phase, reflected, faults>>
      /\ lastEventId' = [lastEventId EXCEPT ![c] = IF Head(wire[c]).id <= @ THEN @ ELSE Head(wire[c]).id]
  BY DEF ReceiveCheckpoint, Reading
<1>3. /\ reflected' = [reflected EXCEPT ![c] = reflected'[c]] /\ reflected'[c] \in SUBSET Ids
      /\ reflected[c] \subseteq reflected'[c]
  BY <1>1, <1>2 DEF TypeOK
<1> QED  BY <1>2, <1>3, ReadKeeps

\* The frames behind a reset only end the response.
LEMMA ReceiveResetKeeps ==
  ASSUME StreamAssumption, StreamInv, NEW c \in Clients, ReceiveReset(c)  PROVE StreamInv'
<1>1. TypeOK
  BY StreamFacts
<1>2. ClientType(c) /\ QueueInv(c) /\ WireInv(c) /\ ConnInv(c) /\ PageInv(c)
  BY TabFacts
<1>3. /\ wire[c] # <<>> /\ Head(wire[c]).type = "reset" /\ phase[c] = "open" /\ TakeSnapshot(c)
      /\ UNCHANGED <<journalVars, snapshot, hubVars, phase, faults>>
      /\ wire'[c] = Tail(wire[c]) /\ wire' = [wire EXCEPT ![c] = wire'[c]]
  BY <1>1 DEF ReceiveReset, Reading, ReadFrame, TypeOK
<1>4. /\ lastEventId'[c] \in 0..MaxId /\ reflected'[c] \in SUBSET Ids
      /\ lastEventId' = [lastEventId EXCEPT ![c] = lastEventId'[c]]
      /\ reflected' = [reflected EXCEPT ![c] = reflected'[c]]
      /\ lastEventId'[c] <= Cursor'
      /\ \A i \in committed' : i <= lastEventId'[c] => i \in reflected'[c]
  BY <1>3, SnapshotPage
<1>5. /\ wire'[c] \in Seq(Frames) /\ Len(wire[c]) \in Nat
      /\ DOMAIN wire'[c] = 1..Len(wire[c]) - 1
      /\ \A k \in DOMAIN wire'[c] : wire'[c][k] = wire[c][k + 1] /\ k + 1 \in DOMAIN wire[c]
      /\ 1 \in DOMAIN wire[c] /\ Head(wire[c]) = wire[c][1] /\ DOMAIN wire[c] = 1..Len(wire[c])
  BY <1>2, <1>3, TailParts DEF ClientType
<1>6. conn[c].mode = "closed"
  BY <1>2, <1>3, <1>5 DEF ConnInv
<1>7. \A k \in DOMAIN wire'[c] : wire'[c][k].type = "end"
  <2> SUFFICES ASSUME NEW k \in DOMAIN wire'[c]  PROVE wire[c][k + 1].type = "end"
    BY <1>5
  <2>1. k + 1 \in 1 + 1..Len(wire[c])
    BY <1>5
  <2> QED  BY <1>2, <1>3, <1>5, <2>1 DEF WireInv
<1>8. OnlyOf(c)
  BY <1>1, <1>3, <1>4 DEF OnlyOf, TypeOK, hubVars
<1>9. ClientType(c)'
  BY <1>2, <1>3, <1>4, <1>5 DEF ClientType, hubVars
<1>10. QueueInv(c)' /\ WireInv(c)' /\ ConnInv(c)'
  BY <1>2, <1>3, <1>6, <1>7 DEF QueueInv, WireInv, ConnInv, hubVars, journalVars
<1>11. PageInv(c)'
  BY <1>3, <1>4 DEF PageInv
<1> QED  BY <1>8, <1>9, <1>10, <1>11, OnlyStep DEF ClientInv

LEMMA ReceiveEndKeeps ==
  ASSUME StreamAssumption, StreamInv, NEW c \in Clients, ReceiveEnd(c)  PROVE StreamInv'
<1>1. TypeOK
  BY StreamFacts
<1>2. ClientType(c) /\ QueueInv(c) /\ WireInv(c) /\ ConnInv(c) /\ PageInv(c) /\ lastEventId[c] \in Nat
  BY TabFacts
<1>3. /\ wire[c] # <<>> /\ Head(wire[c]).type = "end" /\ phase[c] = "open"
      /\ UNCHANGED <<journalVars, snapshot, hubVars, lastEventId, reflected, faults>>
      /\ wire'[c] = Tail(wire[c]) /\ wire' = [wire EXCEPT ![c] = wire'[c]]
      /\ phase'[c] = "connect" /\ phase' = [phase EXCEPT ![c] = phase'[c]]
  BY <1>1 DEF ReceiveEnd, Reading, ReadFrame, TypeOK
<1>4. conn[c].mode = "closed"
  <2>1. 1 \in DOMAIN wire[c] /\ Head(wire[c]) = wire[c][1]
    BY <1>2, <1>3, TailParts DEF ClientType
  <2> QED  BY <1>2, <1>3, <2>1 DEF ConnInv
<1>5. WireInv(c)' /\ wire'[c] \in Seq(Frames)
  <2>1. lastEventId'[c] \in Nat /\ lastEventId[c] <= lastEventId'[c] /\ UNCHANGED journalVars
    BY <1>2, <1>3
  <2> QED  BY <1>3, <2>1, WireRead
<1>6. OnlyOf(c)
  BY <1>1, <1>3 DEF OnlyOf, TypeOK, hubVars
<1>7. ClientType(c)'
  BY <1>2, <1>3, <1>5 DEF ClientType, hubVars
<1>8. QueueInv(c)' /\ ConnInv(c)'
  BY <1>2, <1>3, <1>4 DEF QueueInv, ConnInv, hubVars, journalVars
<1>9. PageInv(c)'
  BY <1>2, <1>3 DEF PageInv, Visible, Cursor, journalVars
<1> QED  BY <1>5, <1>6, <1>7, <1>8, <1>9, OnlyStep DEF ClientInv

-----------------------------------------------------------------------------
(* Faults of one tab: its connection is gone.                               *)

LEMMA CloseKeeps ==
  ASSUME StreamAssumption, StreamInv, NEW c \in Clients, Fault, CloseConnections({c}),
         UNCHANGED <<journalVars, snapshot, tailCursor, tailRows>>,
         phase'[c] \in {"boot", "connect"}, phase' = [phase EXCEPT ![c] = phase'[c]],
         lastEventId'[c] \in 0..MaxId, lastEventId' = [lastEventId EXCEPT ![c] = lastEventId'[c]],
         reflected'[c] \in SUBSET Ids, reflected' = [reflected EXCEPT ![c] = reflected'[c]],
         lastEventId'[c] <= Cursor',
         phase'[c] # "boot" =>
           \A i \in committed' : i <= lastEventId'[c] => i \in reflected'[c] \/ ~Visible(c, i)
  PROVE  StreamInv'
<1>1. TypeOK
  BY StreamFacts
<1>2. /\ conn'[c] = Closed /\ queue'[c] = <<>> /\ wire'[c] = <<>> /\ c \notin subscribed'
      /\ conn' = [conn EXCEPT ![c] = conn'[c]] /\ queue' = [queue EXCEPT ![c] = queue'[c]]
      /\ wire' = [wire EXCEPT ![c] = wire'[c]]
      /\ subscribed' \in SUBSET Clients /\ \A d \in Clients \ {c} : d \in subscribed' <=> d \in subscribed
  BY <1>1 DEF CloseConnections, TypeOK
<1>3. faults' \in 0..MaxFaults
  BY <1>1 DEF Fault, TypeOK, StreamAssumption
<1>4. OnlyOf(c)
  BY <1>2, <1>3 DEF OnlyOf
<1>5. conn'[c] \in Conns /\ conn'[c].mode = "closed"
  BY <1>2 DEF Closed, Conns, StreamAssumption
<1>6. ClientType(c)'
  BY <1>2, <1>5, EmptyParts DEF ClientType
<1>7. QueueInv(c)' /\ WireInv(c)' /\ ConnInv(c)'
  BY <1>2, <1>5, EmptyParts DEF QueueInv, WireInv, ConnInv
<1>8. PageInv(c)'
  BY <1>2, <1>5 DEF PageInv, Visible, journalVars
<1> QED  BY <1>4, <1>6, <1>7, <1>8, OnlyStep DEF ClientInv

LEMMA DisconnectKeeps ==
  ASSUME StreamAssumption, StreamInv, NEW c \in Clients, Disconnect(c)  PROVE StreamInv'
<1>1. TypeOK
  BY StreamFacts
<1>2. ClientType(c) /\ PageInv(c)
  BY TabFacts
<1>3. /\ Fault /\ CloseConnections({c}) /\ phase[c] = "open"
      /\ UNCHANGED <<journalVars, snapshot, tailCursor, tailRows, lastEventId, reflected>>
      /\ phase'[c] = "connect" /\ phase' = [phase EXCEPT ![c] = phase'[c]]
  BY <1>1 DEF Disconnect, TypeOK
<1>4. /\ lastEventId'[c] \in 0..MaxId /\ reflected'[c] \in SUBSET Ids
      /\ lastEventId' = [lastEventId EXCEPT ![c] = lastEventId'[c]]
      /\ reflected' = [reflected EXCEPT ![c] = reflected'[c]]
  BY <1>1, <1>2, <1>3 DEF ClientType, TypeOK
<1>5. /\ lastEventId'[c] <= Cursor'
      /\ \A i \in committed' : i <= lastEventId'[c] => i \in reflected'[c] \/ ~Visible(c, i)
  BY <1>2, <1>3 DEF PageInv, journalVars, Cursor
<1> QED  BY <1>3, <1>4, <1>5, CloseKeeps

LEMMA ReconcileKeeps ==
  ASSUME StreamAssumption, StreamInv, NEW c \in Clients, Reconcile(c)  PROVE StreamInv'
<1>1. TypeOK
  BY StreamFacts
<1>2. /\ Fault /\ CloseConnections({c}) /\ TakeSnapshot(c)
      /\ UNCHANGED <<journalVars, snapshot, tailCursor, tailRows>>
      /\ phase'[c] = "connect" /\ phase' = [phase EXCEPT ![c] = phase'[c]]
  BY <1>1 DEF Reconcile, TypeOK
<1>3. /\ lastEventId'[c] \in 0..MaxId /\ reflected'[c] \in SUBSET Ids
      /\ lastEventId' = [lastEventId EXCEPT ![c] = lastEventId'[c]]
      /\ reflected' = [reflected EXCEPT ![c] = reflected'[c]]
      /\ lastEventId'[c] <= Cursor'
      /\ \A i \in committed' : i <= lastEventId'[c] => i \in reflected'[c]
  BY <1>2, SnapshotPage
<1> QED  BY <1>2, <1>3, CloseKeeps

LEMMA ChangeScopeKeeps ==
  ASSUME StreamAssumption, StreamInv, NEW c \in Clients, ChangeScope(c)  PROVE StreamInv'
<1>1. TypeOK /\ Cursor \in 0..MaxId
  BY StreamFacts
<1>2. /\ Fault /\ CloseConnections({c})
      /\ UNCHANGED <<journalVars, snapshot, tailCursor, tailRows>>
      /\ phase'[c] = "boot" /\ phase' = [phase EXCEPT ![c] = phase'[c]]
      /\ lastEventId'[c] = 0 /\ lastEventId' = [lastEventId EXCEPT ![c] = lastEventId'[c]]
      /\ reflected'[c] = {} /\ reflected' = [reflected EXCEPT ![c] = reflected'[c]]
  BY <1>1 DEF ChangeScope, TypeOK
<1>3. lastEventId'[c] \in 0..MaxId /\ lastEventId'[c] <= Cursor'
  BY <1>1, <1>2 DEF StreamAssumption, journalVars, Cursor
<1> QED  BY <1>2, <1>3, CloseKeeps

-----------------------------------------------------------------------------
(* The theorem.                                                             *)

LEMMA StreamStart == ASSUME StreamAssumption, Init  PROVE StreamInv
<1> USE DEF Init
<1>1. Cursor = 0
  BY DEF Cursor, Highest
<1>2. TypeOK
  <2>1. Closed \in Conns /\ 0 \in 0..MaxId /\ 0 \in 0..MaxFaults
    BY DEF Closed, Conns, StreamAssumption
  <2>2. <<>> \in Seq(0..MaxId) /\ <<>> \in Seq(Frames) /\ <<>> \in Seq(Ids) /\ Len(<<>>) <= QueueMax
    BY EmptyParts
  <2>3. /\ conn \in [Clients -> Conns] /\ queue \in [Clients -> Seq(0..MaxId)] /\ wire \in [Clients -> Seq(Frames)]
        /\ \A c \in Clients : Len(queue[c]) <= QueueMax
    BY <2>1, <2>2
  <2>4. /\ phase \in [Clients -> {"boot", "connect", "open"}] /\ lastEventId \in [Clients -> 0..MaxId]
        /\ reflected \in [Clients -> SUBSET Ids] /\ audience \in [Ids -> SUBSET Clients]
    BY <2>1
  <2> QED  BY <2>1, <2>2, <2>3, <2>4 DEF TypeOK, Conns
<1>3. JournalInv /\ TailInv
  BY <1>1, EmptyParts DEF JournalInv, TailInv, Ascending
<1>4. ASSUME NEW c \in Clients  PROVE ClientInv(c)
  <2>1. conn[c] = Closed /\ conn[c].mode = "closed" /\ queue[c] = <<>> /\ wire[c] = <<>> /\ phase[c] = "boot"
        /\ lastEventId[c] = 0
    BY DEF Closed
  <2> QED  BY <1>1, <2>1, EmptyParts DEF ClientInv, QueueInv, WireInv, ConnInv, PageInv
<1> QED  BY <1>2, <1>3, <1>4 DEF StreamInv

LEMMA StreamStep ==
  ASSUME StreamAssumption, StampLag = 0, PruneInPage = FALSE, StreamInv, [Next]_vars
  PROVE  StreamInv'
<1>1. CASE AllocateEvent
  BY <1>1, AllocateKeeps
<1>2. CASE EndTransaction
  BY <1>2, EndKeeps
<1>3. CASE Prune
  BY <1>3, PruneKeeps
<1>4. CASE PublishSnapshot
  BY <1>4, PublishKeeps
<1>5. CASE TailRead
  BY <1>5, TailReadKeeps
<1>6. CASE Fanout
  BY <1>6, FanoutKeeps
<1>7. CASE RestartApi
  BY <1>7, RestartKeeps
<1>8. ASSUME NEW c \in Clients, Subscribe(c) \/ Serve(c) \/ Checkpoint(c)  PROVE StreamInv'
  BY <1>8, SubscribeKeeps, ReadUpperKeeps, ReplayResetKeeps, ReplayCheckKeeps, ReplayRowsKeeps, ServeLiveKeeps,
     CheckpointKeeps DEF Serve
<1>9. ASSUME NEW c \in Clients, Bootstrap(c) \/ Receive(c)  PROVE StreamInv'
  BY <1>9, BootstrapKeeps, ReceiveEventKeeps, ReceiveCheckpointKeeps, ReceiveResetKeeps, ReceiveEndKeeps DEF Receive
<1>10. ASSUME NEW c \in Clients, Disconnect(c) \/ Reconcile(c) \/ ChangeScope(c)  PROVE StreamInv'
  BY <1>10, DisconnectKeeps, ReconcileKeeps, ChangeScopeKeeps
<1>11. CASE UNCHANGED vars
  BY <1>11 DEF vars, journalVars, hubVars, pageVars, StreamInv, TypeOK, JournalInv, TailInv, ClientInv, QueueInv,
     WireInv, ConnInv, PageInv, Covered, Sent, Visible, Cursor
<1> QED  BY <1>1, <1>2, <1>3, <1>4, <1>5, <1>6, <1>7, <1>8, <1>9, <1>10, <1>11 DEF Next

\* The journal, the hub, the connections and the page keep their types,
\* whatever the sizes of queues, batches and pages.
THEOREM StreamTypes ==
  ASSUME StreamAssumption, StampLag = 0, PruneInPage = FALSE  PROVE Spec => []TypeOK
<1>1. Init => StreamInv
  BY StreamStart
<1>2. StreamInv /\ [Next]_vars => StreamInv'
  BY StreamStep
<1>3. StreamInv => TypeOK
  BY DEF StreamInv
<1> QED  BY <1>1, <1>2, <1>3, PTL DEF Spec

\* No tab misses an event: whatever was committed up to its cursor is shown by
\* its snapshot, was applied on top of it, or is not in its subscription -
\* through replay pages, the live queue, overflow, retention, resets, dropped
\* connections and restarts of the API process (replay_page, _fanout, frames()
\* and handleStreamEvent together).
THEOREM NothingMissed ==
  ASSUME StreamAssumption, StampLag = 0, PruneInPage = FALSE  PROVE Spec => []NoGap
<1>1. Init => StreamInv
  BY StreamStart
<1>2. StreamInv /\ [Next]_vars => StreamInv'
  BY StreamStep
<1>3. StreamInv => NoGap
  BY DEF StreamInv, ClientInv, PageInv, NoGap
<1> QED  BY <1>1, <1>2, <1>3, PTL DEF Spec

=============================================================================
