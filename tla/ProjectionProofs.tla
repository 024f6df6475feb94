--------------------------- MODULE ProjectionProofs ---------------------------
(***************************************************************************)
(* What a publication promises (PublicationSound of Projection), for any   *)
(* facts, publishers, number of writes, truncations and faults.            *)
(*                                                                         *)
(* A body is captured with two cursors: the last id of the outbox and the  *)
(* last id of the journal.  Facts remembered at an input cursor differ     *)
(* from the present ones only where the outbox has a later change, so a    *)
(* tick that reads those changes again reads everything - unless the       *)
(* cursor is 0 because a truncation emptied the outbox; then the input     *)
(* cursor published with the body is 0 as well and covers nothing.         *)
(*                                                                         *)
(* The derived views follow from the generations: a body newer than what   *)
(* refresh_derived has read was captured at a higher input cursor, so its  *)
(* token outlives the acknowledgement.                                     *)
(***************************************************************************)
EXTENDS Projection, SequenceTheorems, TLAPS

\* Types of what TypeOK leaves open, and bounds by the number of writes.
LogEntries == [fact : Facts, version : 1..MaxChanges]
FactEvents == [kind : {"fact"}, fact : Facts, version : 1..MaxChanges]
DeltaEvents ==
  {e \in [kind : {"delta"}, base : Nat, edits : SUBSET View, body : Bodies] :
     e.base = 0 => e.edits = View}
Stamps == Nat \X Nat \X Nat
Memories == [stamp : Stamps \cup {Nothing}, body : Bodies \cup {Nothing},
             input : 0..MaxChanges \cup {Nothing}, facts : Bodies \cup {Nothing}]
Works == [old : Rows \cup {Nothing}, high : 0..MaxChanges, cursor : Nat,
          contiguous : BOOLEAN, changes : SUBSET Facts, tapeOnly : BOOLEAN,
          previous : Bodies \cup {Nothing}, payload : Bodies]
Turns == [seen : {<<>>} \cup (View \X (0..MaxChanges)), data : 0..MaxChanges \cup {Nothing}]

Types ==
  /\ facts \in [Facts -> 0..MaxChanges] /\ log \in Seq(LogEntries)
  /\ Len(log) <= MaxChanges /\ \A f \in Facts : facts[f] <= Len(log)
  /\ changeOutbox \subseteq 1..Len(log) /\ events \in Seq(FactEvents \cup DeltaEvents)
  /\ row \in Rows \cup {Nothing} /\ bodies \in Seq(Bodies) /\ builds \in Nat
  /\ memory \in [Publishers -> Memories] /\ work \in [Publishers -> Works \cup {Nothing}]
  /\ dirty \in [View -> 0..MaxChanges \cup {Nothing}] /\ derived \in Bodies /\ turn \in Turns
  /\ truncations \in 0..MaxTruncate /\ tickFaults \in 0..MaxTickFaults

\* A fact's version is that of its latest write, and no journal event has a
\* later one.
LogInv ==
  /\ \A i \in 1..Len(log) : log[i].version <= facts[log[i].fact]
  /\ \A f \in Facts : facts[f] = 0 \/ \E i \in 1..Len(log) : log[i].fact = f /\ log[i].version = facts[f]
  /\ \A i \in 1..Len(events) : events[i].kind = "fact" => events[i].version <= facts[events[i].fact]

\* The outbox loses its lowest rows only, and its last one only to a truncation.
OutboxInv ==
  /\ \A i \in changeOutbox : \A j \in i..Len(log) : j \in changeOutbox
  /\ truncations = 0 /\ log # <<>> => Len(log) \in changeOutbox

\* The first change is gone and not by consumption alone: cursor 0 no longer
\* means that nothing was ever written.
Lost == truncations > 0 /\ log # <<>> /\ 1 \notin changeOutbox

\* Facts captured at a cursor: what differs was written after it.
Captured(body, input) ==
  \A f \in View : body[f] # facts[f] => \E i \in (input + 1)..Len(log) : log[i].fact = f

\* What a body is worth with the cursors published beside it.
Sound(body, input, cursor) ==
  /\ input <= Len(log) /\ cursor <= Len(events)
  /\ \A f \in View : body[f] <= facts[f]
  /\ Shows(body, 1..input)
  /\ ShowsEvents(body, 1..cursor) \/ (input = 0 /\ Lost)
  /\ truncations = 0 =>
       \A f \in View : body[f] = 0 \/ \E i \in 1..input : log[i].fact = f /\ log[i].version = body[f]

\* The row is the latest publication, and its body that of its revision.
RowInv ==
  /\ row = Nothing => bodies = <<>>
  /\ \A r \in Rows : row = r =>
       /\ r.built = builds /\ r.revision = Len(bodies) /\ bodies # <<>>
       /\ r.body = bodies[Len(bodies)]
       /\ Sound(r.body, r.input, r.cursor)

\* A remembered stamp is that of an older publication or of the row.
MemoryInv(m) ==
  /\ m.input # Nothing => m.facts \in Bodies /\ m.input <= Len(log) /\ Captured(m.facts, m.input)
                       /\ \A f \in View : m.facts[f] <= facts[f]
  /\ m.stamp # Nothing => row # Nothing /\ m.stamp[3] <= builds
                       /\ (m.stamp[3] = builds => m.body = row.body)

\* A tick that only has tape to consume leaves the body as good as it was.
TapeInv(w) ==
  w.tapeOnly => /\ w.old # Nothing /\ w.old.input <= w.high
                /\ \A i \in (w.old.input + 1)..w.high : log[i].fact \in Tape
                /\ w.old.cursor <= Len(events) /\ ShowsEvents(w.old.body, 1..w.old.cursor)

WorkInv(w) ==
  /\ Captured(w.payload, w.high) /\ Sound(w.payload, w.high, w.cursor)
  /\ w.previous = (IF w.old = Nothing THEN Nothing ELSE w.old.body)
  /\ TapeInv(w)

\* What refresh_derived is about to acknowledge is as new as every write up to
\* the generation it selected; what the row shows beyond that is queued under a
\* later generation.
TurnInv ==
  /\ \A f \in View : dirty[f] # Nothing => dirty[f] <= Len(log)
  /\ turn.seen # <<>> => turn.seen[2] <= Len(log)
  /\ turn.data # Nothing =>
       /\ turn.seen # <<>>
       /\ \A i \in 1..turn.seen[2] : log[i].fact = turn.seen[1] => log[i].version <= turn.data
       /\ truncations = 0 /\ row # Nothing /\ row.body[turn.seen[1]] > turn.data
            => dirty[turn.seen[1]] # Nothing /\ dirty[turn.seen[1]] > turn.seen[2]

MemoriesInv == \A p \in Publishers : \A m \in Memories : memory[p] = m => MemoryInv(m)
WorksInv == \A p \in Publishers : \A w \in Works : work[p] = w /\ w # Nothing => WorkInv(w)

PublicationInv ==
  /\ Types /\ LogInv /\ OutboxInv /\ RowInv /\ MemoriesInv /\ WorksInv
  /\ DeltaChain /\ DerivedNotBehindWhole /\ TurnInv

-----------------------------------------------------------------------------
(* The step from one state to the next as the bodies and cursors see it.    *)

\* Logs only grow, a fact changes only by an entry of the log, and what is lost
\* stays lost.
Onward ==
  /\ Len(log) <= Len(log') /\ \A i \in 1..Len(log) : log'[i] = log[i]
  /\ Len(events) <= Len(events') /\ \A i \in 1..Len(events) : events'[i] = events[i]
  /\ \A f \in Facts :
       /\ facts[f] <= facts'[f]
       /\ facts'[f] # facts[f] => \E i \in (Len(log) + 1)..Len(log') : log'[i].fact = f
  /\ truncations <= truncations' /\ (Lost => Lost')

\* A sequence and what Append does to it.
LEMMA AppendIs ==
  ASSUME NEW S, NEW s \in Seq(S), NEW x \in S
  PROVE  /\ Append(s, x) \in Seq(S) /\ Len(Append(s, x)) = Len(s) + 1 /\ Len(s) \in Nat
         /\ \A i \in 1..Len(s) : Append(s, x)[i] = s[i]
         /\ Append(s, x)[Len(s) + 1] = x
         /\ Append(s, x) # <<>>
BY AppendProperties, LenProperties

LEMMA EntryIs ==
  ASSUME Types
  PROVE  /\ Len(log) \in Nat /\ Len(events) \in Nat /\ Len(bodies) \in Nat
         /\ \A i \in 1..Len(log) : log[i] \in LogEntries
         /\ \A i \in 1..Len(events) : events[i] \in FactEvents \cup DeltaEvents
         /\ \A i \in 1..Len(bodies) : bodies[i] \in Bodies
         /\ log # <<>> <=> Len(log) > 0
BY ElementOfSeq, LenProperties, EmptySeq DEF Types

\* The outbox is a suffix of the log, so its newest id is the last write or,
\* if it is empty, 0.
LEMMA NewestIs ==
  ASSUME Types, OutboxInv
  PROVE  Newest(changeOutbox) = IF changeOutbox = {} THEN 0 ELSE Len(log)
<1>1. CASE changeOutbox = {}
  BY <1>1 DEF Newest
<1>2. CASE changeOutbox # {}
  <2>1. Len(log) \in Nat /\ changeOutbox \subseteq 1..Len(log)
    BY EntryIs DEF Types
  <2>2. PICK k \in changeOutbox : TRUE
    BY <1>2
  <2>3. Len(log) \in changeOutbox
    BY <2>1, <2>2 DEF OutboxInv
  <2>4. \A x \in changeOutbox : (\A y \in changeOutbox : x >= y) <=> x = Len(log)
    BY <2>1, <2>3
  <2>5. Max(changeOutbox) = Len(log)
    BY <2>3, <2>4 DEF Max
  <2> QED
    BY <1>2, <2>5 DEF Newest
<1> QED
  BY <1>1, <1>2

\* Facts captured at a cursor of the past are facts captured at it now.
LEMMA CapturedOnward ==
  ASSUME Types, Types', Onward, NEW body \in Bodies, NEW input \in 0..MaxChanges,
         input <= Len(log), Captured(body, input), ProjectionAssumption
  PROVE  Captured(body, input)'
<1>1. ASSUME NEW f \in View, body[f] # facts'[f]
      PROVE  \E i \in (input + 1)..Len(log') : log'[i].fact = f
  <2>1. Len(log) \in Nat /\ Len(log') \in Nat /\ input \in Nat /\ f \in Facts
    BY EntryIs DEF Types, Facts, ProjectionAssumption
  <2>2. CASE body[f] # facts[f]
    <3>1. PICK i \in (input + 1)..Len(log) : log[i].fact = f
      BY <2>2 DEF Captured
    <3>2. i \in 1..Len(log) /\ i \in (input + 1)..Len(log')
      BY <2>1, <3>1 DEF Onward
    <3>3. log'[i].fact = f
      BY <3>1, <3>2 DEF Onward
    <3> QED
      BY <3>2, <3>3
  <2>3. CASE facts'[f] # facts[f]
    <3>1. PICK i \in (Len(log) + 1)..Len(log') : log'[i].fact = f
      BY <2>1, <2>3 DEF Onward
    <3> QED
      BY <2>1, <3>1
  <2> QED
    BY <1>1, <2>2, <2>3
<1> QED
  BY <1>1 DEF Captured

LEMMA SoundOnward ==
  ASSUME Types, Types', Onward, NEW body \in Bodies, NEW input \in 0..MaxChanges,
         NEW cursor \in Nat, Sound(body, input, cursor), ProjectionAssumption
  PROVE  Sound(body, input, cursor)'
<1>1. /\ Len(log) \in Nat /\ Len(log') \in Nat /\ Len(events) \in Nat /\ Len(events') \in Nat
      /\ input \in Nat /\ input <= Len(log) /\ cursor <= Len(events)
      /\ View \subseteq Facts
  BY EntryIs DEF Types, Facts, ProjectionAssumption, Sound
<1>2. input <= Len(log') /\ cursor <= Len(events')
  BY <1>1 DEF Onward
<1>3. \A i \in 1..input : i \in 1..Len(log) /\ log'[i] = log[i]
  BY <1>1 DEF Onward
<1>4. \A i \in 1..cursor : i \in 1..Len(events) /\ events'[i] = events[i]
  BY <1>1 DEF Onward
<1>5. \A f \in View : body[f] <= facts'[f]
  <2> TAKE f \in View
  <2>1. body[f] \in Int /\ facts[f] \in Int /\ facts'[f] \in Int
    BY <1>1 DEF Types, Bodies, ProjectionAssumption
  <2>2. body[f] <= facts[f] /\ facts[f] <= facts'[f]
    BY <1>1 DEF Sound, Onward
  <2> QED
    BY <2>1, <2>2
<1>6. Shows(body, 1..input)'
  <2>1. Shows(body, 1..input)
    BY DEF Sound
  <2> QED
    BY <1>3, <2>1 DEF Shows
<1>7. ShowsEvents(body, 1..cursor)' \/ (input = 0 /\ Lost')
  <2>1. CASE ShowsEvents(body, 1..cursor)
    BY <1>4, <2>1 DEF ShowsEvents
  <2>2. CASE input = 0 /\ Lost
    BY <2>2 DEF Onward
  <2> QED
    BY <2>1, <2>2 DEF Sound
<1>8. ASSUME truncations' = 0, NEW f \in View
      PROVE  body[f] = 0 \/ \E i \in 1..input : log'[i].fact = f /\ log'[i].version = body[f]
  <2>1. truncations = 0
    BY <1>8 DEF Onward, Types, ProjectionAssumption
  <2>2. body[f] = 0 \/ \E i \in 1..input : log[i].fact = f /\ log[i].version = body[f]
    BY <2>1 DEF Sound
  <2> QED
    BY <1>3, <2>2
<1> QED
  BY <1>2, <1>5, <1>6, <1>7, <1>8 DEF Sound

LEMMA WorkOnward ==
  ASSUME Types, Types', Onward, NEW w \in Works, WorkInv(w), ProjectionAssumption
  PROVE  WorkInv(w)'
<1>1. w.payload \in Bodies /\ w.high \in 0..MaxChanges /\ w.cursor \in Nat
  BY DEF Works
<1>2. Captured(w.payload, w.high)'
  <2>1. w.high <= Len(log) /\ Captured(w.payload, w.high)
    BY DEF WorkInv, Sound
  <2> QED
    BY <1>1, <2>1, CapturedOnward
<1>3. Sound(w.payload, w.high, w.cursor)'
  BY <1>1, SoundOnward DEF WorkInv
<1>4. TapeInv(w)'
  <2> SUFFICES ASSUME w.tapeOnly
               PROVE  /\ w.old # Nothing /\ w.old.input <= w.high
                      /\ \A i \in (w.old.input + 1)..w.high : log'[i].fact \in Tape
                      /\ w.old.cursor <= Len(events')
                      /\ ShowsEvents(w.old.body, 1..w.old.cursor)'
    BY DEF TapeInv
  <2>1. /\ w.old # Nothing /\ w.old.input <= w.high
        /\ \A i \in (w.old.input + 1)..w.high : log[i].fact \in Tape
        /\ w.old.cursor <= Len(events) /\ ShowsEvents(w.old.body, 1..w.old.cursor)
    BY DEF WorkInv, TapeInv
  <2>2. w.old \in Rows /\ w.old.input \in Nat /\ w.old.cursor \in Nat
    BY <2>1 DEF Works, Rows
  <2>3. /\ Len(log) \in Nat /\ Len(events) \in Nat /\ Len(events') \in Nat /\ w.high <= Len(log)
        /\ Len(events) <= Len(events') /\ w.high \in Nat
    BY <1>1, EntryIs DEF Onward, WorkInv, Sound
  <2>4. \A i \in (w.old.input + 1)..w.high : log'[i] = log[i]
    BY <2>2, <2>3 DEF Onward
  <2>5. \A i \in 1..w.old.cursor : events'[i] = events[i]
    BY <2>1, <2>2, <2>3 DEF Onward
  <2>6. ShowsEvents(w.old.body, 1..w.old.cursor)'
    BY <2>1, <2>5 DEF ShowsEvents
  <2> QED
    BY <2>1, <2>2, <2>3, <2>4, <2>6
<1> QED
  BY <1>2, <1>3, <1>4 DEF WorkInv

-----------------------------------------------------------------------------
(* What each action does to the logs.                                       *)

LEMMA ChangeFactOnward ==
  ASSUME ProjectionAssumption, Types, LogInv, OutboxInv, NEW g \in Facts, ChangeFact(g)
  PROVE  Types' /\ Onward /\ LogInv' /\ OutboxInv'
<1> DEFINE entry == [fact |-> g, version |-> facts[g] + 1]
           event == [kind |-> "fact", fact |-> g, version |-> facts[g] + 1]
<1>1. /\ Len(log) \in Nat /\ Len(events) \in Nat /\ Len(log) < MaxChanges /\ MaxChanges \in Nat
      /\ facts \in [Facts -> 0..MaxChanges] /\ facts[g] \in 0..MaxChanges /\ facts[g] <= Len(log)
      /\ log \in Seq(LogEntries) /\ events \in Seq(FactEvents \cup DeltaEvents)
  BY EntryIs DEF Types, ChangeFact, ProjectionAssumption
<1>2. entry \in LogEntries /\ event \in FactEvents \cup DeltaEvents
  BY <1>1 DEF LogEntries, FactEvents
<1>3. /\ facts' = [facts EXCEPT ![g] = facts[g] + 1] /\ log' = Append(log, entry)
      /\ changeOutbox' = changeOutbox \cup {Len(log) + 1} /\ events' = Append(events, event)
      /\ UNCHANGED <<rowVars, memory, work, derivedVars, truncations, tickFaults>>
  BY DEF ChangeFact
<1>4. entry.fact = g /\ entry.version = facts[g] + 1
  OBVIOUS
<1>5. event.kind = "fact" /\ event.fact = g /\ event.version = facts[g] + 1
  OBVIOUS
<1> HIDE DEF entry, event
<1>6. /\ log' \in Seq(LogEntries) /\ Len(log') = Len(log) + 1
      /\ \A i \in 1..Len(log) : log'[i] = log[i]
      /\ log'[Len(log) + 1] = entry /\ log' # <<>>
  BY <1>1, <1>2, <1>3, AppendIs
<1>7. /\ events' \in Seq(FactEvents \cup DeltaEvents) /\ Len(events') = Len(events) + 1
      /\ \A i \in 1..Len(events) : events'[i] = events[i]
      /\ events'[Len(events) + 1] = event
  BY <1>1, <1>2, <1>3, AppendIs
<1>8. /\ facts' \in [Facts -> 0..MaxChanges] /\ facts'[g] = facts[g] + 1
      /\ \A f \in Facts : f # g => facts'[f] = facts[f]
      /\ \A f \in Facts : facts'[f] <= Len(log')
  <2>1. /\ facts' \in [Facts -> 0..MaxChanges] /\ facts'[g] = facts[g] + 1
        /\ \A f \in Facts : f # g => facts'[f] = facts[f]
    BY <1>1, <1>3
  <2>2. \A f \in Facts : facts[f] <= Len(log) /\ facts[f] \in Nat
    BY <1>1 DEF Types
  <2>3. ASSUME NEW f \in Facts
        PROVE  facts'[f] <= Len(log')
    <3>1. facts[f] <= Len(log) /\ facts[f] \in Nat /\ (facts'[f] = facts[f] \/ facts'[f] = facts[f] + 1)
      BY <2>1, <2>2
    <3>2. Len(log') = Len(log) + 1 /\ Len(log) \in Nat
      BY <1>1, <1>6
    <3> QED
      BY <3>1, <3>2
  <2> QED
    BY <2>1, <2>3
<1>9. Types'
  <2>1. changeOutbox' \subseteq 1..Len(log')
    <3>1. changeOutbox \subseteq 1..Len(log)
      BY DEF Types
    <3>2. Len(log') = Len(log) + 1 /\ Len(log) \in Nat /\ changeOutbox' = changeOutbox \cup {Len(log) + 1}
      BY <1>1, <1>3, <1>6
    <3>3. ASSUME NEW i \in changeOutbox'
          PROVE  i \in 1..Len(log')
      <4>1. i \in 1..Len(log) \/ i = Len(log) + 1
        BY <3>1, <3>2
      <4> QED
        BY <3>2, <4>1
    <3> QED
      BY <3>3
  <2>2. /\ row' \in Rows \cup {Nothing} /\ bodies' \in Seq(Bodies) /\ builds' \in Nat
        /\ memory' \in [Publishers -> Memories] /\ work' \in [Publishers -> Works \cup {Nothing}]
        /\ dirty' \in [View -> 0..MaxChanges \cup {Nothing}] /\ derived' \in Bodies /\ turn' \in Turns
        /\ truncations' \in 0..MaxTruncate /\ tickFaults' \in 0..MaxTickFaults
    BY <1>3 DEF Types, rowVars, derivedVars
  <2>3. Len(log') <= MaxChanges
    BY <1>1, <1>6
  <2> QED
    BY <1>6, <1>7, <1>8, <2>1, <2>2, <2>3 DEF Types
<1>10. Onward
  <2>1. Len(log) <= Len(log') /\ Len(events) <= Len(events')
    BY <1>1, <1>6, <1>7
  <2>2. ASSUME NEW f \in Facts
        PROVE  /\ facts[f] <= facts'[f]
               /\ facts'[f] # facts[f] => \E i \in (Len(log) + 1)..Len(log') : log'[i].fact = f
    <3>1. facts[f] \in Nat
      BY <1>1
    <3>2. CASE f = g
      <4>1. Len(log) + 1 \in (Len(log) + 1)..Len(log')
        BY <1>1, <1>6
      <4>2. log'[Len(log) + 1].fact = f
        BY <1>4, <1>6, <3>2
      <4> QED
        BY <1>8, <3>1, <3>2, <4>1, <4>2
    <3>3. CASE f # g
      BY <1>8, <3>1, <3>3
    <3> QED
      BY <3>2, <3>3
  <2>3. truncations <= truncations'
    BY <1>3 DEF Types, ProjectionAssumption
  <2>4. Lost => Lost'
    BY <1>1, <1>3, <1>6, EntryIs DEF Lost
  <2> QED
    BY <1>6, <1>7, <2>1, <2>2, <2>3, <2>4 DEF Onward
<1>11. LogInv'
  <2>1. ASSUME NEW i \in 1..Len(log')
        PROVE  log'[i].version <= facts'[log'[i].fact]
    <3>1. CASE i = Len(log) + 1
      BY <1>1, <1>4, <1>6, <1>8, <3>1
    <3>2. CASE i \in 1..Len(log)
      <4>1. log'[i] = log[i] /\ log[i] \in LogEntries /\ log[i].version <= facts[log[i].fact]
        BY <1>6, <3>2, EntryIs DEF LogInv
      <4>2. log[i].fact \in Facts /\ log[i].version \in Nat
        BY <4>1 DEF LogEntries
      <4>3. facts[log[i].fact] \in Nat /\ facts'[log[i].fact] \in Nat
            /\ facts[log[i].fact] <= facts'[log[i].fact]
        BY <1>1, <1>8, <1>10, <4>2 DEF Onward
      <4> QED
        BY <4>1, <4>2, <4>3
    <3> QED
      BY <1>1, <1>6, <3>1, <3>2
  <2>2. ASSUME NEW f \in Facts, facts'[f] # 0
        PROVE  \E i \in 1..Len(log') : log'[i].fact = f /\ log'[i].version = facts'[f]
    <3>1. CASE f = g
      <4>1. Len(log) + 1 \in 1..Len(log')
        BY <1>1, <1>6
      <4> QED
        BY <1>4, <1>6, <1>8, <3>1, <4>1
    <3>2. CASE f # g
      <4>1. facts'[f] = facts[f]
        BY <1>8, <3>2
      <4>2. PICK i \in 1..Len(log) : log[i].fact = f /\ log[i].version = facts[f]
        BY <2>2, <4>1 DEF LogInv
      <4>3. i \in 1..Len(log') /\ log'[i] = log[i]
        BY <1>1, <1>6
      <4> QED
        BY <4>1, <4>2, <4>3
    <3> QED
      BY <3>1, <3>2
  <2>3. ASSUME NEW i \in 1..Len(events'), events'[i].kind = "fact"
        PROVE  events'[i].version <= facts'[events'[i].fact]
    <3>1. CASE i = Len(events) + 1
      BY <1>1, <1>5, <1>7, <1>8, <3>1
    <3>2. CASE i \in 1..Len(events)
      <4>1. events'[i] = events[i] /\ events[i].kind = "fact"
        BY <1>7, <2>3, <3>2
      <4>2. events[i] \in FactEvents \cup DeltaEvents /\ events[i].version <= facts[events[i].fact]
        BY <3>2, <4>1, EntryIs DEF LogInv
      <4>3. events[i].fact \in Facts /\ events[i].version \in Nat
        BY <4>1, <4>2 DEF FactEvents, DeltaEvents
      <4>4. facts[events[i].fact] \in Nat /\ facts'[events[i].fact] \in Nat
            /\ facts[events[i].fact] <= facts'[events[i].fact]
        BY <1>1, <1>8, <1>10, <4>3 DEF Onward
      <4> QED
        BY <4>1, <4>2, <4>3, <4>4
    <3> QED
      BY <1>1, <1>7, <3>1, <3>2
  <2> QED
    BY <2>1, <2>2, <2>3 DEF LogInv
<1>12. OutboxInv'
  <2>1. ASSUME NEW i \in changeOutbox', NEW j \in i..Len(log')
        PROVE  j \in changeOutbox'
    <3>1. changeOutbox \subseteq 1..Len(log)
      BY DEF Types
    <3>2. CASE i = Len(log) + 1
      BY <1>1, <1>3, <1>6, <3>2
    <3>3. CASE i \in changeOutbox
      <4>1. j \in i..Len(log) => j \in changeOutbox
        BY <3>3 DEF OutboxInv
      <4>2. j \in i..Len(log) \/ j = Len(log) + 1
        <5>1. i \in Nat /\ Len(log) \in Nat /\ Len(log') = Len(log) + 1
          BY <1>1, <1>6, <3>1, <3>3
        <5> QED
          BY <5>1, <2>1
      <4> QED
        BY <1>3, <4>1, <4>2
    <3> QED
      BY <1>3, <3>2, <3>3
  <2>2. Len(log') \in changeOutbox'
    BY <1>3, <1>6
  <2> QED
    BY <2>1, <2>2 DEF OutboxInv
<1> QED
  BY <1>9, <1>10, <1>11, <1>12

LEMMA ShrinkOnward ==
  ASSUME ProjectionAssumption, Types, LogInv, OutboxInv, RowInv, PruneConsumed \/ TruncateOutbox
  PROVE  Types' /\ Onward /\ LogInv' /\ OutboxInv'
<1>1. /\ UNCHANGED <<facts, log, events, rowVars, memory, work, derivedVars, tickFaults>>
      /\ truncations' \in {truncations, truncations + 1} /\ truncations' \in 0..MaxTruncate
      /\ truncations <= truncations'
  BY DEF Types, ProjectionAssumption, PruneConsumed, TruncateOutbox
<1>2. PICK n \in changeOutbox :
        /\ changeOutbox' = {i \in changeOutbox : i > n}
        /\ truncations' = 0 => row # Nothing /\ n <= row.input - OutboxOverlap
  <2>1. CASE PruneConsumed
    BY <2>1 DEF PruneConsumed
  <2>2. CASE TruncateOutbox
    <3>1. truncations' # 0
      BY <2>2 DEF TruncateOutbox, Types, ProjectionAssumption
    <3> QED
      BY <2>2, <3>1 DEF TruncateOutbox
  <2> QED
    BY <2>1, <2>2
<1>3. /\ Len(log) \in Nat /\ changeOutbox \subseteq 1..Len(log) /\ changeOutbox' \subseteq changeOutbox
  BY <1>2, EntryIs DEF Types
<1>4. Types'
  <2>1. /\ facts' \in [Facts -> 0..MaxChanges] /\ log' \in Seq(LogEntries)
        /\ Len(log') <= MaxChanges /\ \A f \in Facts : facts'[f] <= Len(log')
        /\ changeOutbox' \subseteq 1..Len(log') /\ events' \in Seq(FactEvents \cup DeltaEvents)
    BY <1>1, <1>3 DEF Types
  <2>2. /\ row' \in Rows \cup {Nothing} /\ bodies' \in Seq(Bodies) /\ builds' \in Nat
        /\ memory' \in [Publishers -> Memories] /\ work' \in [Publishers -> Works \cup {Nothing}]
        /\ dirty' \in [View -> 0..MaxChanges \cup {Nothing}] /\ derived' \in Bodies /\ turn' \in Turns
        /\ tickFaults' \in 0..MaxTickFaults
    BY <1>1 DEF Types, rowVars, derivedVars
  <2> QED
    BY <1>1, <2>1, <2>2 DEF Types
<1>5. Onward
  <2>1. Lost => Lost'
    BY <1>1, <1>3, EntryIs DEF Lost, Types, ProjectionAssumption
  <2>2. \A f \in Facts : facts[f] <= facts'[f] /\ facts'[f] = facts[f]
    BY <1>1 DEF Types
  <2>3. Len(log) <= Len(log') /\ Len(events) <= Len(events')
    BY <1>1, EntryIs
  <2> QED
    BY <1>1, <2>1, <2>2, <2>3 DEF Onward
<1>6. LogInv'
  BY <1>1 DEF LogInv
<1>7. OutboxInv'
  <2>1. ASSUME NEW i \in changeOutbox', NEW j \in i..Len(log')
        PROVE  j \in changeOutbox'
    <3>1. i \in changeOutbox /\ i > n /\ i \in Nat /\ n \in Nat /\ j \in i..Len(log)
      BY <1>1, <1>2, <1>3
    <3>2. j \in changeOutbox /\ j > n
      BY <3>1 DEF OutboxInv
    <3> QED
      BY <1>2, <3>2
  <2>2. ASSUME truncations' = 0, log' # <<>>
        PROVE  Len(log') \in changeOutbox'
    <3>1. row # Nothing /\ n <= row.input - OutboxOverlap /\ truncations = 0
      BY <1>1, <1>2, <2>2 DEF Types, ProjectionAssumption
    <3>2. row \in Rows
      BY <3>1 DEF Types
    <3>3. row.input \in Nat /\ row.input <= Len(log) /\ OutboxOverlap \in Nat \ {0} /\ n \in Nat
      BY <1>3, <3>2 DEF Rows, RowInv, Sound, ProjectionAssumption
    <3>4. Len(log) \in changeOutbox
      BY <1>1, <2>2, <3>1 DEF OutboxInv
    <3>5. Len(log) > n
      BY <1>3, <3>1, <3>3
    <3> QED
      BY <1>1, <1>2, <3>4, <3>5
  <2> QED
    BY <2>1, <2>2 DEF OutboxInv
<1> QED
  BY <1>4, <1>5, <1>6, <1>7

\* Steps that write nothing but, at most, a delta.
LEMMA QuietOnward ==
  ASSUME ProjectionAssumption, Types, Types', LogInv, OutboxInv,
         UNCHANGED <<sourceVars, truncations>>,
         events' = events \/ \E e \in DeltaEvents : events' = Append(events, e)
  PROVE  Onward /\ LogInv' /\ OutboxInv'
<1>1. /\ Len(log) \in Nat /\ Len(events) \in Nat /\ facts \in [Facts -> 0..MaxChanges]
      /\ events \in Seq(FactEvents \cup DeltaEvents)
      /\ UNCHANGED <<facts, log, changeOutbox, truncations>>
      /\ truncations \in Nat
  BY EntryIs DEF Types, sourceVars, ProjectionAssumption
<1>2. /\ Len(events) <= Len(events') /\ Len(events') \in Nat
      /\ \A i \in 1..Len(events) : events'[i] = events[i]
      /\ \A i \in 1..Len(events') : i \notin 1..Len(events) => events'[i].kind # "fact"
  <2>1. CASE events' = events
    BY <1>1, <2>1
  <2>2. ASSUME NEW e \in DeltaEvents, events' = Append(events, e)
        PROVE  <1>2
    <3>1. e \in FactEvents \cup DeltaEvents /\ e.kind # "fact"
      BY DEF DeltaEvents
    <3>2. /\ Len(events') = Len(events) + 1 /\ events'[Len(events) + 1] = e
          /\ \A i \in 1..Len(events) : events'[i] = events[i]
      BY <1>1, <2>2, <3>1, AppendIs
    <3>3. ASSUME NEW i \in 1..Len(events'), i \notin 1..Len(events)
          PROVE  events'[i].kind # "fact"
      <4>1. i = Len(events) + 1
        BY <1>1, <3>2, <3>3
      <4> QED
        BY <3>1, <3>2, <4>1
    <3> QED
      BY <1>1, <3>2, <3>3
  <2> QED
    BY <2>1, <2>2
<1>3. Onward
  <2>1. Lost => Lost'
    BY <1>1 DEF Lost
  <2>2. \A f \in Facts : facts[f] <= facts'[f] /\ facts'[f] = facts[f]
    BY <1>1
  <2>3. Len(log) <= Len(log') /\ truncations <= truncations' /\ \A i \in 1..Len(log) : log'[i] = log[i]
    BY <1>1
  <2> QED
    BY <1>2, <2>1, <2>2, <2>3 DEF Onward
<1>4. LogInv'
  <2>1. ASSUME NEW i \in 1..Len(events'), events'[i].kind = "fact"
        PROVE  events'[i].version <= facts'[events'[i].fact]
    <3>1. i \in 1..Len(events) /\ events'[i] = events[i]
      BY <1>2, <2>1
    <3> QED
      BY <1>1, <2>1, <3>1 DEF LogInv
  <2> QED
    BY <1>1, <2>1 DEF LogInv
<1>5. OutboxInv'
  BY <1>1 DEF OutboxInv
<1> QED
  BY <1>3, <1>4, <1>5

-----------------------------------------------------------------------------
(* What stays true of the parts a step leaves alone.                        *)

LEMMA RowCalm ==
  ASSUME ProjectionAssumption, Types, Types', Onward, RowInv, UNCHANGED rowVars
  PROVE  RowInv'
<1>1. UNCHANGED <<row, bodies, builds>>
  BY DEF rowVars
<1>2. row = Nothing => bodies = <<>>
  BY DEF RowInv
<1>3. ASSUME NEW r \in Rows, row = r
      PROVE  /\ r.built = builds /\ r.revision = Len(bodies) /\ bodies # <<>>
             /\ r.body = bodies[Len(bodies)] /\ Sound(r.body, r.input, r.cursor)'
  <2>1. r.body \in Bodies /\ r.input \in 0..MaxChanges /\ r.cursor \in Nat
    BY DEF Rows
  <2>2. /\ r.built = builds /\ r.revision = Len(bodies) /\ bodies # <<>>
        /\ r.body = bodies[Len(bodies)] /\ Sound(r.body, r.input, r.cursor)
    BY <1>3 DEF RowInv
  <2> QED
    BY <2>1, <2>2, SoundOnward
<1> QED
  BY <1>1, <1>2, <1>3 DEF RowInv

LEMMA MemoryCalm ==
  ASSUME ProjectionAssumption, Types, Types', Onward, UNCHANGED rowVars,
         NEW m \in Memories, MemoryInv(m)
  PROVE  MemoryInv(m)'
<1>1. UNCHANGED <<row, bodies, builds>>
  BY DEF rowVars
<1>2. ASSUME m.input # Nothing
      PROVE  /\ m.facts \in Bodies /\ m.input <= Len(log') /\ Captured(m.facts, m.input)'
             /\ \A f \in View : m.facts[f] <= facts'[f]
  <2>1. /\ m.facts \in Bodies /\ m.input <= Len(log) /\ Captured(m.facts, m.input)
        /\ \A f \in View : m.facts[f] <= facts[f]
    BY <1>2 DEF MemoryInv
  <2>2. m.input \in 0..MaxChanges /\ Len(log) \in Nat /\ Len(log') \in Nat /\ Len(log) <= Len(log')
        /\ MaxChanges \in Nat
    BY <1>2, EntryIs DEF Memories, Onward, ProjectionAssumption
  <2>3. Captured(m.facts, m.input)'
    BY <2>1, <2>2, CapturedOnward
  <2>4. ASSUME NEW f \in View
        PROVE  m.facts[f] <= facts'[f]
    <3>1. f \in Facts /\ m.facts[f] \in Nat /\ facts[f] \in Nat /\ facts'[f] \in Nat
      BY <2>1, <2>2 DEF Types, Facts, Bodies
    <3> QED
      BY <2>1, <3>1 DEF Onward
  <2> QED
    BY <2>1, <2>2, <2>3, <2>4
<1> QED
  BY <1>1, <1>2 DEF MemoryInv

LEMMA NoMemoryIs == NoMemory \in Memories /\ MemoryInv(NoMemory)
  BY DEF NoMemory, Memories, MemoryInv

LEMMA DeltaCalm ==
  ASSUME ProjectionAssumption, Types, DeltaChain, bodies' = bodies,
         events' = events \/ \E e \in FactEvents : events' = Append(events, e)
  PROVE  DeltaChain'
<1>1. Deltas' = Deltas /\ \A i \in Deltas : events'[i] = events[i]
  <2>1. CASE events' = events
    BY <2>1 DEF Deltas
  <2>2. ASSUME NEW e \in FactEvents, events' = Append(events, e)
        PROVE  <1>1
    <3>1. e \in FactEvents \cup DeltaEvents /\ e.kind # "delta"
      BY DEF FactEvents
    <3>2. /\ Len(events') = Len(events) + 1 /\ events'[Len(events) + 1] = e /\ Len(events) \in Nat
          /\ \A i \in 1..Len(events) : events'[i] = events[i]
      BY <2>2, <3>1, AppendIs DEF Types
    <3>3. ASSUME NEW i \in 1..Len(events'), i \notin 1..Len(events)
          PROVE  events'[i].kind # "delta"
      <4>1. i = Len(events) + 1
        BY <3>2, <3>3
      <4> QED
        BY <3>1, <3>2, <4>1
    <3> QED
      BY <3>2, <3>3 DEF Deltas
  <2> QED
    BY <2>1, <2>2
<1>2. \A i \in Deltas : DeltaAt(i)'
  BY <1>1 DEF DeltaChain, DeltaAt
<1> QED
  BY <1>1, <1>2 DEF DeltaChain

LEMMA DerivedCalm ==
  ASSUME ProjectionAssumption, Types, Types', Onward, DerivedNotBehindWhole, TurnInv,
         UNCHANGED <<rowVars, derivedVars>>
  PROVE  DerivedNotBehindWhole' /\ TurnInv'
<1>1. UNCHANGED <<row, bodies, builds, dirty, derived, turn>>
  BY DEF rowVars, derivedVars
<1>2. truncations' = 0 => truncations = 0
  BY DEF Onward, Types, ProjectionAssumption
<1>3. DerivedNotBehindWhole'
  BY <1>1, <1>2 DEF DerivedNotBehindWhole
<1>4. Len(log) \in Nat /\ Len(log') \in Nat /\ Len(log) <= Len(log')
  BY EntryIs DEF Onward
<1>5. \A f \in View : dirty[f] # Nothing => dirty[f] <= Len(log')
  <2> SUFFICES ASSUME NEW f \in View, dirty[f] # Nothing
               PROVE  dirty[f] <= Len(log')
    OBVIOUS
  <2>1. dirty[f] \in Nat /\ dirty[f] <= Len(log)
    BY DEF TurnInv, Types
  <2> QED
    BY <1>4, <2>1
<1>6. turn.seen # <<>> => turn.seen[2] \in Nat /\ turn.seen[2] <= Len(log) /\ turn.seen[2] <= Len(log')
  <2> SUFFICES ASSUME turn.seen # <<>>
               PROVE  turn.seen[2] \in Nat /\ turn.seen[2] <= Len(log) /\ turn.seen[2] <= Len(log')
    OBVIOUS
  <2>1. turn.seen \in View \X (0..MaxChanges)
    BY DEF Types, Turns
  <2>2. turn.seen[2] \in Nat /\ turn.seen[2] <= Len(log)
    BY <2>1 DEF TurnInv
  <2> QED
    BY <1>4, <2>2
<1>7. turn.data # Nothing =>
        \A i \in 1..turn.seen[2] : log'[i].fact = turn.seen[1] => log'[i].version <= turn.data
  <2> SUFFICES ASSUME turn.data # Nothing, NEW i \in 1..turn.seen[2], log'[i].fact = turn.seen[1]
               PROVE  log'[i].version <= turn.data
    OBVIOUS
  <2>1. turn.seen # <<>>
    BY DEF TurnInv
  <2>2. i \in 1..Len(log)
    BY <1>4, <1>6, <2>1
  <2>3. log'[i] = log[i]
    BY <2>2 DEF Onward
  <2> QED
    BY <2>3 DEF TurnInv
<1>8. TurnInv'
  BY <1>1, <1>2, <1>5, <1>6, <1>7 DEF TurnInv
<1> QED
  BY <1>3, <1>8

\* A step that publishes nothing, whatever becomes of memories and ticks.
LEMMA CalmStep ==
  ASSUME ProjectionAssumption, PublicationInv, Types', Onward, UNCHANGED rowVars,
         events' = events \/ \E e \in FactEvents : events' = Append(events, e),
         \A p \in Publishers : memory'[p] = memory[p] \/ memory'[p] = NoMemory,
         \A p \in Publishers : \/ work'[p] = work[p] \/ work'[p] = Nothing
                               \/ \A w \in Works : work'[p] = w => WorkInv(w)'
  PROVE  RowInv' /\ MemoriesInv' /\ WorksInv' /\ DeltaChain'
<1>1. /\ Types /\ RowInv /\ MemoriesInv /\ WorksInv /\ DeltaChain
  BY DEF PublicationInv
<1>2. RowInv'
  BY <1>1, RowCalm
<1>3. ASSUME NEW p \in Publishers, NEW m \in Memories, memory'[p] = m
      PROVE  MemoryInv(m)'
  <2>1. MemoryInv(m)
    <3>1. CASE memory'[p] = memory[p]
      BY <1>1, <1>3, <3>1 DEF MemoriesInv
    <3>2. CASE memory'[p] = NoMemory
      <4>1. m = NoMemory
        BY <1>3, <3>2
      <4> QED
        BY <4>1, NoMemoryIs
    <3> QED
      BY <3>1, <3>2
  <2> QED
    BY <1>1, <2>1, MemoryCalm
<1>4. ASSUME NEW p \in Publishers, NEW w \in Works, work'[p] = w, w # Nothing
      PROVE  WorkInv(w)'
  <2>1. CASE work'[p] = work[p]
    <3>1. WorkInv(w)
      BY <1>1, <1>4, <2>1 DEF WorksInv
    <3> QED
      BY <1>1, <3>1, WorkOnward
  <2>2. CASE \A v \in Works : work'[p] = v => WorkInv(v)'
    BY <1>4, <2>2
  <2> QED
    BY <1>4, <2>1, <2>2
<1>5. DeltaChain'
  <2>1. bodies' = bodies
    BY DEF rowVars
  <2> QED
    BY <1>1, <2>1, DeltaCalm
<1> QED
  BY <1>2, <1>3, <1>4, <1>5 DEF MemoriesInv, WorksInv

-----------------------------------------------------------------------------
(* The read transaction of a tick.                                          *)

\* While a change is in the outbox and the watermark is contiguous, every change
\* above the watermark is in the outbox.
LEMMA ChangesAre ==
  ASSUME ProjectionAssumption, Types, OutboxInv, Contiguous(row), changeOutbox # {}
  PROVE  /\ Input(row) \in Nat
         /\ \A i \in (Input(row) + 1)..Len(log) : i \in changeOutbox /\ log[i].fact \in Changes(row)
<1>1. Input(row) \in Nat
  BY DEF Input, Types, Rows
<1>2. Len(log) \in Nat /\ changeOutbox \subseteq 1..Len(log)
  BY EntryIs DEF Types
<1>3. PICK k \in changeOutbox : k <= Input(row) + 1
  BY DEF Contiguous
<1>4. ASSUME NEW i \in (Input(row) + 1)..Len(log)
      PROVE  i \in changeOutbox /\ i > Input(row)
  <2>1. i \in k..Len(log)
    BY <1>1, <1>2, <1>3
  <2> QED
    BY <1>1, <1>2, <2>1 DEF OutboxInv
<1> QED
  BY <1>1, <1>4 DEF Changes

\* Either the facts as they are, or what was parsed under an earlier cursor 0.
LEMMA CaptureReads ==
  ASSUME ProjectionAssumption, PublicationInv, NEW p \in Publishers
  PROVE  \/ Capture(p) = [f \in View |-> facts[f]]
         \/ /\ changeOutbox = {} /\ Lost
            /\ Capture(p) \in Bodies /\ Captured(Capture(p), 0)
            /\ \A f \in View : Capture(p)[f] <= facts[f]
<1>1. Types /\ OutboxInv /\ MemoriesInv
  BY DEF PublicationInv
<1>2. CASE ~(Contiguous(row) /\ memory[p].input = Input(row))
  BY <1>2 DEF Capture
<1>3. CASE Contiguous(row) /\ memory[p].input = Input(row)
  <2>1. PICK m \in Memories : memory[p] = m
    BY <1>1 DEF Types
  <2>2. Input(row) \in Nat /\ m.input = Input(row) /\ m.input # Nothing
    BY <1>1, <1>3, <2>1 DEF Input, Types, Rows, ProjectionAssumption
  <2>3. /\ m.facts \in Bodies /\ Captured(m.facts, Input(row))
        /\ \A f \in View : m.facts[f] <= facts[f]
    BY <1>1, <2>1, <2>2 DEF MemoriesInv, MemoryInv
  <2>4. Capture(p) = [f \in View |-> IF f \in Changes(row) THEN facts[f] ELSE m.facts[f]]
    BY <1>3, <2>1 DEF Capture
  <2>5. CASE changeOutbox # {}
    <3>1. \A f \in View : f \notin Changes(row) => m.facts[f] = facts[f]
      BY <1>1, <1>3, <2>3, <2>5, ChangesAre DEF Captured
    <3> QED
      BY <2>4, <3>1
  <2>6. CASE changeOutbox = {}
    <3>1. Input(row) = 0
      BY <1>3, <2>2, <2>6 DEF Contiguous, Newest
    <3>2. Capture(p) = [f \in View |-> m.facts[f]]
      <4>1. Changes(row) = {}
        BY <2>6 DEF Changes
      <4> QED
        BY <2>4, <4>1
    <3>3. Capture(p) = m.facts
      BY <2>3, <3>2 DEF Bodies
    <3>4. CASE log = <<>>
      <4>1. Len(log) = 0
        BY <3>4, EmptySeq
      <4>2. \A f \in View : m.facts[f] = facts[f]
        BY <2>3, <3>1, <4>1 DEF Captured
      <4> QED
        BY <3>2, <4>2
    <3>5. CASE log # <<>>
      <4>1. Lost
        BY <1>1, <2>6, <3>5 DEF Lost, OutboxInv, Types, ProjectionAssumption
      <4> QED
        BY <2>3, <2>6, <3>1, <3>3, <4>1
    <3> QED
      BY <3>4, <3>5
  <2> QED
    BY <2>5, <2>6
<1> QED
  BY <1>2, <1>3

LEMMA CaptureIs ==
  ASSUME ProjectionAssumption, PublicationInv, NEW p \in Publishers
  PROVE  /\ Newest(changeOutbox) \in 0..MaxChanges /\ Capture(p) \in Bodies
         /\ Captured(Capture(p), Newest(changeOutbox))
         /\ Sound(Capture(p), Newest(changeOutbox), Len(events))
<1>1. Types /\ OutboxInv /\ LogInv
  BY DEF PublicationInv
<1>2. Newest(changeOutbox) = IF changeOutbox = {} THEN 0 ELSE Len(log)
  BY <1>1, NewestIs
<1>3. /\ Len(log) \in Nat /\ Len(events) \in Nat /\ Len(log) <= MaxChanges /\ MaxChanges \in Nat
      /\ \A f \in View : f \in Facts /\ facts[f] \in 0..MaxChanges
  BY <1>1, EntryIs DEF Types, Facts, ProjectionAssumption
<1>4. CASE Capture(p) = [f \in View |-> facts[f]]
  <2> DEFINE body == Capture(p)  high == Newest(changeOutbox)
  <2>1. body \in Bodies /\ (\A f \in View : body[f] = facts[f]) /\ high \in 0..Len(log)
    BY <1>2, <1>3, <1>4 DEF Bodies
  <2>2. truncations = 0 => high = Len(log)
    <3>1. CASE log = <<>>
      <4>1. Len(log) = 0
        BY <3>1, EmptySeq
      <4> QED
        BY <2>1, <4>1
    <3>2. CASE log # <<>>
      BY <1>1, <1>2, <3>2 DEF OutboxInv
    <3> QED
      BY <3>1, <3>2
  <2> HIDE DEF body, high
  <2>3. Captured(body, high)
    BY <2>1 DEF Captured
  <2>4. Shows(body, 1..high)
    <3>1. \A i \in 1..high : log[i].version <= facts[log[i].fact]
      BY <1>1, <1>3, <2>1 DEF LogInv
    <3>2. ASSUME NEW i \in 1..high, log[i].fact \in View
          PROVE  body[log[i].fact] >= log[i].version
      <4>1. i \in 1..Len(log) /\ log[i] \in LogEntries
        BY <1>1, <1>3, <2>1, EntryIs
      <4>2. log[i].version \in Int /\ facts[log[i].fact] \in Int
        BY <1>3, <3>2, <4>1 DEF LogEntries
      <4> QED
        BY <2>1, <3>1, <3>2, <4>2
    <3> QED
      BY <3>2 DEF Shows
  <2>5. ShowsEvents(body, 1..Len(events))
    <3>1. ASSUME NEW i \in 1..Len(events), events[i].kind = "fact", events[i].fact \in View
          PROVE  body[events[i].fact] >= events[i].version
      <4>1. events[i] \in FactEvents \cup DeltaEvents /\ events[i].version <= facts[events[i].fact]
        BY <1>1, <3>1, EntryIs DEF LogInv
      <4>2. events[i].version \in Int /\ facts[events[i].fact] \in Int
        BY <1>3, <3>1, <4>1 DEF FactEvents, DeltaEvents
      <4> QED
        BY <2>1, <3>1, <4>1, <4>2
    <3> QED
      BY <3>1 DEF ShowsEvents
  <2>6. \A f \in View : body[f] <= facts[f]
    BY <1>3, <2>1
  <2>7. truncations = 0 =>
          \A f \in View : body[f] = 0 \/ \E i \in 1..high : log[i].fact = f /\ log[i].version = body[f]
    BY <1>1, <1>3, <2>1, <2>2 DEF LogInv
  <2>8. Sound(body, high, Len(events))
    BY <1>3, <2>1, <2>4, <2>5, <2>6, <2>7 DEF Sound
  <2>9. high \in 0..MaxChanges
    BY <1>3, <2>1
  <2> QED
    BY <2>1, <2>3, <2>8, <2>9 DEF body, high
<1>5. CASE /\ changeOutbox = {} /\ Lost /\ Capture(p) \in Bodies /\ Captured(Capture(p), 0)
           /\ \A f \in View : Capture(p)[f] <= facts[f]
  <2>1. Newest(changeOutbox) = 0 /\ truncations > 0 /\ truncations \in Nat
    BY <1>1, <1>2, <1>5 DEF Lost, Types, ProjectionAssumption
  <2>2. Shows(Capture(p), 1..0)
    BY DEF Shows
  <2>3. Sound(Capture(p), 0, Len(events))
    BY <1>3, <1>5, <2>1, <2>2 DEF Sound
  <2> QED
    BY <1>3, <1>5, <2>1, <2>3
<1> QED
  BY <1>4, <1>5, CaptureReads

LEMMA BeginTickWork ==
  ASSUME ProjectionAssumption, PublicationInv, NEW p \in Publishers, BeginTick(p)
  PROVE  \E w \in Works : work' = [work EXCEPT ![p] = w] /\ WorkInv(w)
<1>1. Types /\ OutboxInv /\ RowInv /\ MemoriesInv
  BY DEF PublicationInv
<1>2. PICK stale \in BOOLEAN :
        work' = [work EXCEPT ![p] =
          [old |-> row, high |-> Newest(changeOutbox), cursor |-> Len(events),
           contiguous |-> Contiguous(row), changes |-> Changes(row),
           tapeOnly |-> row # Nothing /\ Contiguous(row) /\ ~stale
                        /\ Changes(row) # {} /\ Changes(row) \subseteq Tape,
           previous |-> Previous(p),
           payload |-> Capture(p)]]
  BY DEF BeginTick
<1> DEFINE w == [old |-> row, high |-> Newest(changeOutbox), cursor |-> Len(events),
                 contiguous |-> Contiguous(row), changes |-> Changes(row),
                 tapeOnly |-> row # Nothing /\ Contiguous(row) /\ ~stale
                              /\ Changes(row) # {} /\ Changes(row) \subseteq Tape,
                 previous |-> Previous(p),
                 payload |-> Capture(p)]
<1>3. /\ Newest(changeOutbox) \in 0..MaxChanges /\ Capture(p) \in Bodies
      /\ Captured(Capture(p), Newest(changeOutbox))
      /\ Sound(Capture(p), Newest(changeOutbox), Len(events))
  BY CaptureIs
<1>4. row \in Rows \cup {Nothing} /\ Len(events) \in Nat
  BY <1>1, EntryIs DEF Types
<1>5. Contiguous(row) \in BOOLEAN
  BY DEF Contiguous
<1>6. Changes(row) \subseteq Facts
  <2>1. \A i \in changeOutbox : i \in 1..Len(log) /\ log[i] \in LogEntries
    BY <1>1, EntryIs DEF Types
  <2> QED
    BY <2>1 DEF Changes, LogEntries
<1>7. Previous(p) = IF row = Nothing THEN Nothing ELSE row.body
  <2>1. CASE row = Nothing
    BY <2>1 DEF Previous
  <2>2. CASE row # Nothing /\ memory[p].stamp # Stamp(row)
    BY <2>2 DEF Previous
  <2>3. CASE row # Nothing /\ memory[p].stamp = Stamp(row)
    <3>1. PICK m \in Memories : memory[p] = m
      BY <1>1 DEF Types
    <3>2. PICK r \in Rows : row = r
      BY <1>4, <2>3
    <3>3. r.built = builds
      BY <1>1, <3>2 DEF RowInv
    <3>4. m.stamp \in Nat \X Nat \X Nat /\ m.stamp[3] = builds
      BY <2>3, <3>1, <3>2, <3>3 DEF Stamp, Rows
    <3>5. m.body = row.body
      BY <1>1, <3>1, <3>4 DEF MemoriesInv, MemoryInv, ProjectionAssumption
    <3> QED
      BY <2>3, <3>1, <3>5 DEF Previous
  <2> QED
    BY <2>1, <2>2, <2>3
<1>8. Previous(p) \in Bodies \cup {Nothing}
  BY <1>4, <1>7 DEF Rows
<1>9. w \in Works
  BY <1>3, <1>4, <1>5, <1>6, <1>8 DEF Works
<1>10. TapeInv(w)
  <2> SUFFICES ASSUME row # Nothing, Contiguous(row), Changes(row) # {}, Changes(row) \subseteq Tape
               PROVE  /\ row # Nothing /\ row.input <= Newest(changeOutbox)
                      /\ \A i \in (row.input + 1)..Newest(changeOutbox) : log[i].fact \in Tape
                      /\ row.cursor <= Len(events) /\ ShowsEvents(row.body, 1..row.cursor)
    BY DEF TapeInv
  <2>1. PICK r \in Rows : row = r
    BY <1>4
  <2>2. Input(row) = r.input /\ r.input \in Nat
    BY <2>1 DEF Input, Rows
  <2>3. changeOutbox # {}
    BY DEF Changes
  <2>4. Newest(changeOutbox) = Len(log)
    BY <1>1, <2>3, NewestIs
  <2>5. \A i \in (r.input + 1)..Len(log) : i \in changeOutbox /\ log[i].fact \in Tape
    BY <1>1, <2>2, <2>3, ChangesAre
  <2>6. Sound(r.body, r.input, r.cursor)
    BY <1>1, <2>1 DEF RowInv
  <2>7. ShowsEvents(r.body, 1..r.cursor)
    <3> SUFFICES ASSUME r.input = 0, Lost
                 PROVE  FALSE
      BY <2>6 DEF Sound
    <3>1. Len(log) \in Nat /\ Len(log) > 0
      BY <1>1, EntryIs DEF Lost
    <3>2. 1 \in changeOutbox
      BY <2>5, <3>1
    <3> QED
      BY <3>2 DEF Lost
  <2>8. r.input <= Newest(changeOutbox)
    BY <2>2 DEF Contiguous
  <2> QED
    BY <2>1, <2>4, <2>5, <2>6, <2>7, <2>8 DEF Sound
<1>11. WorkInv(w)
  <2>1. /\ w.payload = Capture(p) /\ w.high = Newest(changeOutbox) /\ w.cursor = Len(events)
        /\ w.previous = Previous(p) /\ w.old = row
    OBVIOUS
  <2> HIDE DEF w
  <2> QED
    BY <1>3, <1>7, <1>10, <2>1 DEF WorkInv
<1> QED
  BY <1>2, <1>9, <1>11

-----------------------------------------------------------------------------
(* A publication.                                                           *)

\* The delta of a publication.
DeltaOf(w) == [kind |-> "delta", base |-> Len(bodies),
               edits |-> {f \in View : w.previous = Nothing \/ w.previous[f] # w.payload[f]},
               body |-> w.payload]

\* What was published: a new revision with its delta, or the same body with
\* newer cursors.
Published(w) ==
  /\ builds' = builds + 1 /\ row' \in Rows
  /\ row' = [revision |-> Len(bodies'), cursor |-> w.cursor, input |-> w.high,
             built |-> builds + 1, body |-> w.payload]
  /\ w.previous = (IF row = Nothing THEN Nothing ELSE row.body)
  /\ \/ events' = events /\ bodies' = bodies /\ row # Nothing /\ row.body = w.payload
     \/ /\ events' = Append(events, DeltaOf(w)) /\ bodies' = Append(bodies, w.payload)
        /\ DeltaOf(w) \in DeltaEvents
  /\ bodies' \in Seq(Bodies) /\ Len(bodies') \in Nat /\ bodies' # <<>>
  /\ bodies'[Len(bodies')] = w.payload
  /\ dirty' = [f \in View |-> IF f \in Affected(w) THEN QueuedAt(f, w.high) ELSE dirty[f]]
  /\ dirty' \in [View -> 0..MaxChanges \cup {Nothing}]

LEMMA PublishIs ==
  ASSUME ProjectionAssumption, Types, RowInv, NEW w \in Works, WorkInv(w),
         UnchangedBase(w), WritePublication(w)
  PROVE  Published(w)
<1>1. /\ w.payload \in Bodies /\ w.high \in 0..MaxChanges /\ w.cursor \in Nat
      /\ w.previous \in Bodies \cup {Nothing} /\ row = w.old /\ MaxChanges \in Nat
  BY DEF Works, UnchangedBase, ProjectionAssumption
<1>2. w.previous = (IF row = Nothing THEN Nothing ELSE row.body)
  BY <1>1 DEF WorkInv
<1>3. /\ (IF w.old = Nothing THEN 0 ELSE w.old.revision) = Len(bodies) /\ Len(bodies) \in Nat
      /\ row # Nothing => bodies # <<>> /\ row.body = bodies[Len(bodies)]
      /\ row = Nothing <=> Len(bodies) = 0
  <2>1. CASE row = Nothing
    BY <1>1, <2>1, EntryIs, EmptySeq DEF RowInv
  <2>2. CASE row # Nothing
    <3>1. PICK r \in Rows : row = r
      BY <2>2 DEF Types
    <3>2. r.revision = Len(bodies) /\ bodies # <<>> /\ r.body = bodies[Len(bodies)]
      BY <3>1 DEF RowInv
    <3>3. bodies \in Seq(Bodies) /\ Len(bodies) # 0
      BY <3>2, EmptySeq DEF Types
    <3> QED
      BY <1>1, <2>2, <3>1, <3>2, <3>3, EntryIs
  <2> QED
    BY <2>1, <2>2
<1>4. PICK invalidating \in BOOLEAN :
        LET changed == w.previous # w.payload \/ invalidating
            base == IF w.old = Nothing THEN 0 ELSE w.old.revision
            revision == IF changed THEN base + 1 ELSE base
        IN /\ builds' = builds + 1
           /\ row' = [revision |-> revision, cursor |-> w.cursor, input |-> w.high,
                      built |-> builds + 1, body |-> w.payload]
           /\ IF changed
              THEN /\ events' = Append(events, [kind |-> "delta", base |-> base,
                          edits |-> {f \in View : w.previous = Nothing \/ w.previous[f] # w.payload[f]},
                          body |-> w.payload])
                   /\ bodies' = Append(bodies, w.payload)
              ELSE UNCHANGED <<events, bodies>>
           /\ dirty' = [f \in View |-> IF f \in Affected(w) THEN QueuedAt(f, w.high) ELSE dirty[f]]
  <2>1. \A invalidating \in (IF w.changes \cap View # {} THEN BOOLEAN ELSE {~w.contiguous}) :
          invalidating \in BOOLEAN
    BY DEF Works
  <2> QED
    BY <2>1 DEF WritePublication
<1>5. /\ builds' = builds + 1
      /\ dirty' = [f \in View |-> IF f \in Affected(w) THEN QueuedAt(f, w.high) ELSE dirty[f]]
  BY <1>4
<1>6. /\ bodies \in Seq(Bodies) /\ Append(bodies, w.payload) \in Seq(Bodies)
      /\ Len(Append(bodies, w.payload)) = Len(bodies) + 1 /\ Append(bodies, w.payload) # <<>>
      /\ Append(bodies, w.payload)[Len(bodies) + 1] = w.payload
  <2>1. bodies \in Seq(Bodies)
    BY DEF Types
  <2> QED
    BY <1>1, <2>1, AppendIs
<1>7. /\ row' = [revision |-> Len(bodies'), cursor |-> w.cursor, input |-> w.high,
                 built |-> builds + 1, body |-> w.payload]
      /\ \/ events' = events /\ bodies' = bodies /\ row # Nothing /\ row.body = w.payload
         \/ events' = Append(events, DeltaOf(w)) /\ bodies' = Append(bodies, w.payload)
  <2>1. CASE w.previous # w.payload \/ invalidating
    <3>1. /\ row' = [revision |-> Len(bodies) + 1, cursor |-> w.cursor, input |-> w.high,
                     built |-> builds + 1, body |-> w.payload]
          /\ events' = Append(events, [kind |-> "delta", base |-> Len(bodies),
                edits |-> {f \in View : w.previous = Nothing \/ w.previous[f] # w.payload[f]},
                body |-> w.payload])
          /\ bodies' = Append(bodies, w.payload)
      BY <1>3, <1>4, <2>1
    <3>2. events' = Append(events, DeltaOf(w))
      BY <3>1 DEF DeltaOf
    <3>3. Len(bodies') = Len(bodies) + 1
      BY <1>6, <3>1
    <3> QED
      BY <3>1, <3>2, <3>3
  <2>2. CASE ~(w.previous # w.payload \/ invalidating)
    <3>1. row # Nothing /\ row.body = w.payload
      <4>1. Nothing \notin Bodies
        BY DEF ProjectionAssumption
      <4> QED
        BY <1>1, <1>2, <2>2, <4>1
    <3> QED
      BY <1>3, <1>4, <2>2, <3>1
  <2> QED
    BY <2>1, <2>2
<1>8. DeltaOf(w) \in DeltaEvents
  <2>1. Len(bodies) = 0 => {f \in View : w.previous = Nothing \/ w.previous[f] # w.payload[f]} = View
    BY <1>2, <1>3
  <2> QED
    BY <1>1, <1>3, <2>1 DEF DeltaOf, DeltaEvents
<1>9. bodies' \in Seq(Bodies) /\ bodies' # <<>> /\ bodies'[Len(bodies')] = w.payload
  BY <1>3, <1>6, <1>7
<1>10. Len(bodies') \in Nat
  BY <1>9, LenProperties
<1>11. row' \in Rows
  <2>1. builds + 1 \in Nat
    BY DEF Types
  <2> QED
    BY <1>1, <1>7, <1>10, <2>1 DEF Rows
<1>12. dirty' \in [View -> 0..MaxChanges \cup {Nothing}]
  BY <1>1, <1>5 DEF QueuedAt, Types
<1> QED
  BY <1>2, <1>5, <1>7, <1>8, <1>9, <1>10, <1>11, <1>12 DEF Published

LEMMA PublishedDeltas ==
  ASSUME ProjectionAssumption, Types, RowInv, DeltaChain, NEW w \in Works, Published(w)
  PROVE  DeltaChain'
<1>1. CASE events' = events /\ bodies' = bodies
  BY <1>1, DeltaCalm
<1>2. CASE /\ events' = Append(events, DeltaOf(w)) /\ bodies' = Append(bodies, w.payload)
           /\ DeltaOf(w) \in DeltaEvents
  <2> DEFINE b == Len(bodies)
  <2>0. PICK n \in Nat : n = Len(events) + 1
    BY EntryIs
  <2>1. w.payload \in Bodies /\ bodies \in Seq(Bodies) /\ events \in Seq(FactEvents \cup DeltaEvents)
    BY DEF Works, Types
  <2>2. /\ Len(bodies') = b + 1 /\ b \in Nat /\ bodies'[b + 1] = w.payload
        /\ \A i \in 1..b : bodies'[i] = bodies[i]
    BY <1>2, <2>1, AppendIs
  <2>3. /\ Len(events') = n /\ n \in Nat /\ events'[n] = DeltaOf(w) /\ Len(events) \in Nat
        /\ \A i \in 1..Len(events) : events'[i] = events[i]
    BY <1>2, <2>0, <2>1, AppendIs
  <2>4. /\ DeltaOf(w).kind = "delta" /\ DeltaOf(w).base = b /\ DeltaOf(w).body = w.payload
        /\ DeltaOf(w).edits = {f \in View : w.previous = Nothing \/ w.previous[f] # w.payload[f]}
    BY DEF DeltaOf
  <2> HIDE DEF b
  <2>5. Deltas' = Deltas \cup {n} /\ Deltas \subseteq 1..Len(events)
    <3>1. \A i \in 1..n : i \in 1..Len(events) \/ i = n
      BY <2>0, <2>3
    <3>2. 1..Len(events) \subseteq 1..n /\ n \in 1..n
      BY <2>0, <2>3
    <3> QED
      BY <2>3, <2>4, <3>1, <3>2 DEF Deltas
  <2>6. ASSUME NEW i \in Deltas
        PROVE  /\ events'[i] = events[i] /\ events[i].base \in Nat /\ events[i].base + 1 \in 1..b
               /\ events[i].base = 0 => events[i].edits = View
    <3>1. i \in 1..Len(events) /\ events[i].kind = "delta" /\ DeltaAt(i)
      BY DEF Deltas, DeltaChain
    <3>2. events[i] \in DeltaEvents
      BY <3>1, EntryIs DEF FactEvents
    <3> QED
      BY <2>3, <3>1, <3>2 DEF DeltaAt, DeltaEvents, b
  <2>7. ASSUME NEW i \in Deltas
        PROVE  DeltaAt(i)'
    <3>1. DeltaAt(i)
      BY DEF DeltaChain
    <3>2. events[i].base + 1 \in 1..Len(bodies')
      BY <2>2, <2>6
    <3>3. bodies'[events[i].base + 1] = bodies[events[i].base + 1]
      BY <2>2, <2>6
    <3>4. CASE events[i].base = 0
      BY <2>6, <3>1, <3>2, <3>3, <3>4 DEF DeltaAt
    <3>5. CASE events[i].base # 0
      <4>1. bodies'[events[i].base] = bodies[events[i].base]
        BY <2>2, <2>6, <3>5
      <4> QED
        BY <2>6, <3>1, <3>2, <3>3, <4>1 DEF DeltaAt
    <3> QED
      BY <3>4, <3>5
  <2>8. DeltaAt(n)'
    <3> USE DEF b
    <3>1. b + 1 \in 1..Len(bodies')
      BY <2>2
    <3>2. ASSUME NEW f \in View, f \notin DeltaOf(w).edits
          PROVE  w.payload[f] = bodies'[b][f]
      <4>1. w.previous # Nothing /\ w.previous[f] = w.payload[f]
        BY <2>4, <3>2
      <4>2. row # Nothing /\ row.body[f] = w.payload[f]
        BY <4>1 DEF Published
      <4>3. PICK r \in Rows : row = r
        BY <4>2 DEF Types
      <4>4. bodies # <<>> /\ r.body = bodies[b]
        BY <4>3 DEF RowInv
      <4>5. b \in 1..b
        BY <2>1, <2>2, <4>4, EmptySeq
      <4> QED
        BY <2>2, <4>2, <4>3, <4>4, <4>5
    <3>3. \A f \in View : bodies'[b + 1][f] = w.payload[f]
      BY <2>2
    <3> SUFFICES /\ DeltaOf(w).base + 1 \in 1..Len(bodies')
                 /\ \A f \in View : bodies'[DeltaOf(w).base + 1][f] =
                      IF f \in DeltaOf(w).edits THEN DeltaOf(w).body[f] ELSE bodies'[DeltaOf(w).base][f]
      BY <2>3 DEF DeltaAt
    <3> QED
      BY <2>4, <3>1, <3>2, <3>3
  <2>9. \A i \in Deltas' : DeltaAt(i)'
    BY <2>5, <2>7, <2>8
  <2>10. ASSUME NEW r \in 1..Len(bodies')
         PROVE  \E i \in Deltas' : events'[i].base = r - 1
    <3>1. CASE r = b + 1
      BY <2>2, <2>3, <2>4, <2>5, <3>1
    <3>2. CASE r \in 1..b
      <4>1. PICK i \in Deltas : events[i].base = r - 1
        BY <3>2 DEF DeltaChain, b
      <4> QED
        BY <2>5, <2>6, <4>1
    <3> QED
      BY <2>2, <3>1, <3>2
  <2>11. ASSUME NEW i \in Deltas', NEW j \in Deltas', i < j
         PROVE  events'[i].base < events'[j].base
    <3>1. \A k \in Deltas : k \in Nat /\ k < n
      BY <2>0, <2>3, <2>5
    <3>2. CASE i \in Deltas /\ j \in Deltas
      <4>1. events'[i] = events[i] /\ events'[j] = events[j]
        BY <2>6, <3>2
      <4>2. events[i].base < events[j].base
        BY <2>11, <3>2 DEF DeltaChain
      <4> QED
        BY <4>1, <4>2
    <3>3. CASE i \in Deltas /\ j = n
      BY <2>2, <2>3, <2>4, <2>6, <3>3
    <3>4. CASE i = n
      BY <2>3, <2>5, <2>11, <3>1, <3>4
    <3> QED
      BY <2>5, <3>2, <3>3, <3>4
  <2> QED
    BY <2>9, <2>10, <2>11 DEF DeltaChain
<1> QED
  BY <1>1, <1>2 DEF Published

LEMMA PublishedDerived ==
  ASSUME ProjectionAssumption, Types, RowInv, DerivedNotBehindWhole, TurnInv,
         NEW w \in Works, WorkInv(w), Published(w),
         UNCHANGED <<log, derived, turn, truncations>>
  PROVE  DerivedNotBehindWhole' /\ TurnInv'
<1>1. /\ w.payload \in Bodies /\ w.high \in Nat /\ w.high # Nothing /\ Len(log) \in Nat
      /\ w.high <= Len(log) /\ MaxChanges \in Nat
  BY EntryIs DEF Works, WorkInv, Sound, ProjectionAssumption
<1>2. row' # Nothing /\ row'.body = w.payload
  BY DEF Published, ProjectionAssumption
<1>3. \A f \in View : dirty[f] # Nothing => dirty[f] \in Nat /\ dirty[f] <= Len(log)
  BY DEF Types, TurnInv
<1>4. ASSUME NEW f \in View, f \in Affected(w)
      PROVE  /\ dirty'[f] # Nothing /\ dirty'[f] \in Nat
             /\ dirty'[f] >= w.high /\ dirty'[f] <= Len(log)
  <2>1. dirty'[f] = QueuedAt(f, w.high)
    BY <1>4 DEF Published
  <2> QED
    BY <1>1, <1>3, <2>1 DEF QueuedAt
<1>5. ASSUME NEW f \in View, f \notin Affected(w)
      PROVE  dirty'[f] = dirty[f] /\ row # Nothing /\ row.body[f] = w.payload[f]
  <2>1. dirty'[f] = dirty[f]
    BY <1>5 DEF Published
  <2>2. w.previous # Nothing /\ w.previous[f] = w.payload[f]
    BY <1>5 DEF Affected
  <2> QED
    BY <2>1, <2>2 DEF Published
<1>6. DerivedNotBehindWhole'
  <2> SUFFICES ASSUME truncations = 0, NEW f \in View, dirty'[f] = Nothing
               PROVE  derived[f] >= w.payload[f]
    BY <1>2 DEF DerivedNotBehindWhole
  <2>1. f \notin Affected(w)
    BY <1>4
  <2> QED
    BY <1>5, <2>1 DEF DerivedNotBehindWhole
<1>7. \A f \in View : dirty'[f] # Nothing => dirty'[f] <= Len(log)
  BY <1>3, <1>4, <1>5
<1>8. ASSUME turn.data # Nothing, truncations = 0, w.payload[turn.seen[1]] > turn.data
      PROVE  dirty'[turn.seen[1]] # Nothing /\ dirty'[turn.seen[1]] > turn.seen[2]
  <2>1. /\ turn.seen # <<>>
        /\ \A i \in 1..turn.seen[2] : log[i].fact = turn.seen[1] => log[i].version <= turn.data
        /\ row # Nothing /\ row.body[turn.seen[1]] > turn.data
             => dirty[turn.seen[1]] # Nothing /\ dirty[turn.seen[1]] > turn.seen[2]
    BY <1>8 DEF TurnInv
  <2>2. turn.seen \in View \X (0..MaxChanges) /\ turn.data \in Nat
    BY <1>1, <1>8, <2>1 DEF Types, Turns
  <2>3. PICK f \in View, g \in 0..MaxChanges : turn.seen = <<f, g>>
    BY <2>2
  <2>4. turn.seen[1] = f /\ turn.seen[2] = g /\ g \in Nat
    BY <1>1, <2>3
  <2>5. CASE f \notin Affected(w)
    <3>1. dirty'[f] = dirty[f] /\ row # Nothing /\ row.body[f] = w.payload[f]
      BY <1>5, <2>5
    <3> QED
      BY <1>8, <2>1, <2>4, <3>1
  <2>6. CASE f \in Affected(w)
    <3>1. w.payload[f] # 0 /\ w.payload[f] \in Nat
      BY <1>1, <1>8, <2>2, <2>4 DEF Bodies
    <3>2. PICK i \in 1..w.high : log[i].fact = f /\ log[i].version = w.payload[f]
      BY <1>8, <3>1 DEF WorkInv, Sound
    <3>3. i \notin 1..g
      BY <1>8, <2>1, <2>2, <2>4, <3>1, <3>2
    <3>4. w.high > g
      BY <1>1, <2>4, <3>2, <3>3
    <3>5. dirty'[f] # Nothing /\ dirty'[f] \in Nat /\ dirty'[f] >= w.high
      BY <1>4, <2>6
    <3>6. dirty'[f] > g
      BY <1>1, <2>4, <3>4, <3>5
    <3> QED
      BY <2>4, <3>5, <3>6
  <2> QED
    BY <2>5, <2>6
<1>9. TurnInv'
  BY <1>2, <1>7, <1>8 DEF TurnInv
<1> QED
  BY <1>6, <1>9

LEMMA PublishedRow ==
  ASSUME ProjectionAssumption, Types, Types', Onward, NEW w \in Works, WorkInv(w), Published(w)
  PROVE  RowInv'
<1>1. w.payload \in Bodies /\ w.high \in 0..MaxChanges /\ w.cursor \in Nat
  BY DEF Works
<1>2. Sound(w.payload, w.high, w.cursor)'
  BY <1>1, SoundOnward DEF WorkInv
<1>3. row' # Nothing
  BY DEF Published, ProjectionAssumption
<1>4. ASSUME NEW r \in Rows, row' = r
      PROVE  /\ r.built = builds' /\ r.revision = Len(bodies') /\ bodies' # <<>>
             /\ r.body = bodies'[Len(bodies')] /\ Sound(r.body, r.input, r.cursor)'
  <2>1. /\ r.built = builds' /\ r.revision = Len(bodies') /\ bodies' # <<>>
        /\ r.body = bodies'[Len(bodies')]
        /\ r.body = w.payload /\ r.input = w.high /\ r.cursor = w.cursor
    BY <1>4 DEF Published
  <2> QED
    BY <1>2, <2>1
<1> QED
  BY <1>3, <1>4 DEF RowInv

LEMMA PublishedMemory ==
  ASSUME ProjectionAssumption, Types, Types', NEW w \in Works, WorkInv(w), Published(w),
         UNCHANGED sourceVars, NEW m \in Memories,
         \/ MemoryInv(m)
         \/ m = [stamp |-> Stamp(row'), body |-> w.payload, input |-> w.high, facts |-> w.payload]
  PROVE  MemoryInv(m)'
<1>1. /\ UNCHANGED <<facts, log>> /\ row' # Nothing /\ row'.body = w.payload
      /\ builds' = builds + 1 /\ builds \in Nat
  BY DEF Published, ProjectionAssumption, sourceVars, Types
<1>2. CASE MemoryInv(m)
  <2>1. m.input # Nothing => /\ m.facts \in Bodies /\ m.input <= Len(log')
                             /\ Captured(m.facts, m.input)'
                             /\ \A f \in View : m.facts[f] <= facts'[f]
    BY <1>1, <1>2 DEF MemoryInv, Captured
  <2>2. m.stamp # Nothing => m.stamp[3] \in Nat /\ m.stamp[3] <= builds
    BY <1>2 DEF MemoryInv, Memories, Stamps
  <2>3. m.stamp # Nothing => m.stamp[3] <= builds' /\ m.stamp[3] # builds'
    BY <1>1, <2>2
  <2> QED
    BY <1>1, <2>1, <2>3 DEF MemoryInv
<1>3. CASE m = [stamp |-> Stamp(row'), body |-> w.payload, input |-> w.high, facts |-> w.payload]
  <2>1. m.facts = w.payload /\ m.input = w.high /\ m.body = w.payload /\ m.stamp = Stamp(row')
    BY <1>3
  <2>2. /\ w.payload \in Bodies /\ w.high <= Len(log) /\ Captured(w.payload, w.high)
        /\ \A f \in View : w.payload[f] <= facts[f]
    BY DEF WorkInv, Sound, Works
  <2>3. Captured(m.facts, m.input)'
    BY <1>1, <2>1, <2>2 DEF Captured
  <2>4. m.stamp[3] = builds + 1
    BY <2>1 DEF Stamp, Published
  <2>5. m.stamp[3] <= builds' /\ m.body = row'.body
    BY <1>1, <2>1, <2>4
  <2> QED
    BY <1>1, <2>1, <2>2, <2>3, <2>5 DEF MemoryInv
<1> QED
  BY <1>2, <1>3

\* Committed, whether the process learns it or not.
LEMMA PublishStep ==
  ASSUME ProjectionAssumption, PublicationInv, NEW p \in Publishers,
         CommitTick(p) \/ CommitUnconfirmed(p)
  PROVE  PublicationInv'
<1>1. /\ Types /\ LogInv /\ OutboxInv /\ RowInv /\ MemoriesInv /\ WorksInv
      /\ DeltaChain /\ DerivedNotBehindWhole /\ TurnInv
  BY DEF PublicationInv
<1>2. /\ UnchangedBase(work[p]) /\ WritePublication(work[p])
      /\ work' = [work EXCEPT ![p] = Nothing]
      /\ UNCHANGED <<sourceVars, derived, turn, truncations>>
      /\ tickFaults' \in {tickFaults, tickFaults + 1} /\ tickFaults' \in 0..MaxTickFaults
  BY <1>1 DEF CommitTick, CommitUnconfirmed, TickFault, Types, ProjectionAssumption
<1>3. \/ memory' = memory
      \/ memory' = [memory EXCEPT ![p] = [stamp |-> Stamp(row'), body |-> work[p].payload,
                                          input |-> work[p].high, facts |-> work[p].payload]]
  BY DEF CommitTick, CommitUnconfirmed
<1>4. PICK w \in Works : work[p] = w /\ w # Nothing
  BY <1>1, <1>2 DEF Types, UnchangedBase
<1>5. WorkInv(w)
  BY <1>1, <1>4 DEF WorksInv
<1>6. Published(w)
  BY <1>1, <1>2, <1>4, <1>5, PublishIs
<1>7. events' = events \/ \E e \in DeltaEvents : events' = Append(events, e)
  BY <1>6 DEF Published
<1>8. [stamp |-> Stamp(row'), body |-> w.payload, input |-> w.high, facts |-> w.payload] \in Memories
  <2>1. Stamp(row') \in Stamps
    BY <1>6 DEF Published, Stamp, Stamps, Rows
  <2> QED
    BY <2>1 DEF Memories, Works
<1>9. memory' \in [Publishers -> Memories]
  <2>1. memory \in [Publishers -> Memories]
    BY <1>1 DEF Types
  <2> QED
    BY <1>3, <1>4, <1>8, <2>1
<1>10. Types'
  <2>1. events' \in Seq(FactEvents \cup DeltaEvents)
    <3>1. events \in Seq(FactEvents \cup DeltaEvents)
      BY <1>1 DEF Types
    <3>2. ASSUME NEW e \in DeltaEvents, events' = Append(events, e)
          PROVE  events' \in Seq(FactEvents \cup DeltaEvents)
      BY <3>1, <3>2, AppendProperties
    <3> QED
      BY <1>7, <3>1, <3>2
  <2>2. /\ facts' \in [Facts -> 0..MaxChanges] /\ log' \in Seq(LogEntries)
        /\ Len(log') <= MaxChanges /\ \A f \in Facts : facts'[f] <= Len(log')
        /\ changeOutbox' \subseteq 1..Len(log')
        /\ derived' \in Bodies /\ turn' \in Turns /\ truncations' \in 0..MaxTruncate
    BY <1>1, <1>2 DEF Types, sourceVars
  <2>3. /\ row' \in Rows \cup {Nothing} /\ bodies' \in Seq(Bodies) /\ builds' \in Nat
        /\ dirty' \in [View -> 0..MaxChanges \cup {Nothing}]
    BY <1>1, <1>6 DEF Published, Types
  <2>4. work' \in [Publishers -> Works \cup {Nothing}]
    BY <1>1, <1>2 DEF Types
  <2> QED
    BY <1>2, <1>9, <2>1, <2>2, <2>3, <2>4 DEF Types
<1>11. Onward /\ LogInv' /\ OutboxInv'
  BY <1>1, <1>2, <1>7, <1>10, QuietOnward
<1>12. RowInv'
  BY <1>1, <1>5, <1>6, <1>10, <1>11, PublishedRow
<1>13. MemoriesInv'
  <2> SUFFICES ASSUME NEW q \in Publishers, NEW m \in Memories, memory'[q] = m
               PROVE  MemoryInv(m)'
    BY DEF MemoriesInv
  <2>1. \/ MemoryInv(m)
        \/ m = [stamp |-> Stamp(row'), body |-> w.payload, input |-> w.high, facts |-> w.payload]
    <3>1. \/ memory'[q] = memory[q]
          \/ m = [stamp |-> Stamp(row'), body |-> w.payload, input |-> w.high, facts |-> w.payload]
      BY <1>1, <1>3, <1>4 DEF Types
    <3> QED
      BY <1>1, <3>1 DEF MemoriesInv
  <2>2. UNCHANGED sourceVars
    BY <1>2
  <2> QED
    BY <1>1, <1>5, <1>6, <1>10, <2>1, <2>2, PublishedMemory
<1>14. WorksInv'
  <2> SUFFICES ASSUME NEW q \in Publishers, NEW v \in Works, work'[q] = v, v # Nothing
               PROVE  WorkInv(v)'
    BY DEF WorksInv
  <2>1. work[q] = v
    BY <1>1, <1>2 DEF Types
  <2>2. WorkInv(v)
    BY <1>1, <2>1 DEF WorksInv
  <2> QED
    BY <1>1, <1>10, <1>11, <2>2, WorkOnward
<1>15. DeltaChain'
  BY <1>1, <1>6, PublishedDeltas
<1>16. DerivedNotBehindWhole' /\ TurnInv'
  <2>1. UNCHANGED <<log, derived, turn, truncations>>
    BY <1>2 DEF sourceVars
  <2> QED
    BY <1>1, <1>5, <1>6, <2>1, PublishedDerived
<1> QED
  BY <1>10, <1>11, <1>12, <1>13, <1>14, <1>15, <1>16 DEF PublicationInv

\* The input cursor moves past tape only.
LEMMA TapeStep ==
  ASSUME ProjectionAssumption, PublicationInv, NEW p \in Publishers, CommitTape(p)
  PROVE  PublicationInv'
<1>1. /\ Types /\ LogInv /\ OutboxInv /\ RowInv /\ MemoriesInv /\ WorksInv
      /\ DeltaChain /\ DerivedNotBehindWhole /\ TurnInv
  BY DEF PublicationInv
<1>2. /\ UnchangedBase(work[p]) /\ work[p].tapeOnly
      /\ row' = [row EXCEPT !.input = work[p].high]
      /\ memory' = [memory EXCEPT ![p].input = IF @ = Input(work[p].old) THEN work[p].high ELSE @]
      /\ work' = [work EXCEPT ![p] = Nothing]
      /\ UNCHANGED <<sourceVars, events, bodies, builds, derivedVars, truncations, tickFaults>>
  BY DEF CommitTape
<1>3. PICK w \in Works : work[p] = w /\ w # Nothing
  BY <1>1, <1>2 DEF Types, UnchangedBase
<1>4. WorkInv(w) /\ w.tapeOnly /\ row = w.old
  BY <1>1, <1>2, <1>3 DEF WorksInv, UnchangedBase
<1>5. PICK r \in Rows : row = r /\ w.old = r /\ r # Nothing
  BY <1>1, <1>4 DEF WorkInv, TapeInv, Types
<1>6. /\ r.input <= w.high /\ \A i \in (r.input + 1)..w.high : log[i].fact \in Tape
      /\ r.cursor <= Len(events) /\ ShowsEvents(r.body, 1..r.cursor)
      /\ w.high <= Len(log) /\ w.high \in 0..MaxChanges /\ w.high \in Nat /\ r.input \in Nat
      /\ Len(log) \in Nat /\ MaxChanges \in Nat
  BY <1>1, <1>4, <1>5, EntryIs DEF WorkInv, TapeInv, Sound, Works, Rows, ProjectionAssumption
<1>7. PICK s \in Rows : /\ row' = s /\ s.input = w.high /\ s.body = r.body /\ s.cursor = r.cursor
                        /\ s.revision = r.revision /\ s.built = r.built
  <2>1. \A k \in 0..MaxChanges : \A q \in Rows :
          /\ [q EXCEPT !.input = k] \in Rows
          /\ [q EXCEPT !.input = k].input = k /\ [q EXCEPT !.input = k].body = q.body
          /\ [q EXCEPT !.input = k].cursor = q.cursor
          /\ [q EXCEPT !.input = k].revision = q.revision
          /\ [q EXCEPT !.input = k].built = q.built
    BY DEF Rows
  <2>2. row' = [r EXCEPT !.input = w.high]
    BY <1>2, <1>3, <1>5
  <2>3. w.high \in 0..MaxChanges
    BY <1>6
  <2>4. /\ [r EXCEPT !.input = w.high] \in Rows
        /\ [r EXCEPT !.input = w.high].input = w.high /\ [r EXCEPT !.input = w.high].body = r.body
        /\ [r EXCEPT !.input = w.high].cursor = r.cursor
        /\ [r EXCEPT !.input = w.high].revision = r.revision
        /\ [r EXCEPT !.input = w.high].built = r.built
    BY <2>1, <2>3
  <2> QED
    BY <2>2, <2>4, Zenon
<1>8. row' # Nothing /\ row # Nothing /\ row'.body = row.body
  BY <1>5, <1>7 DEF ProjectionAssumption
<1>9. \A q \in Publishers : \A m \in Memories : memory[q] = m =>
        \E n \in Memories : /\ memory'[q] = n /\ n.stamp = m.stamp /\ n.body = m.body
                            /\ n.facts = m.facts
                            /\ n.input = m.input \/ (m.input = r.input /\ n.input = w.high)
  <2> SUFFICES ASSUME NEW q \in Publishers, NEW m \in Memories, memory[q] = m
               PROVE  \E n \in Memories :
                        /\ memory'[q] = n /\ n.stamp = m.stamp /\ n.body = m.body
                        /\ n.facts = m.facts
                        /\ n.input = m.input \/ (m.input = r.input /\ n.input = w.high)
    OBVIOUS
  <2>1. \A v \in Memories : \A k \in 0..MaxChanges \cup {Nothing} :
          /\ [v EXCEPT !.input = k] \in Memories
          /\ [v EXCEPT !.input = k].stamp = v.stamp /\ [v EXCEPT !.input = k].body = v.body
          /\ [v EXCEPT !.input = k].facts = v.facts /\ [v EXCEPT !.input = k].input = k
    BY DEF Memories
  <2>2. memory \in [Publishers -> Memories]
    BY <1>1 DEF Types
  <2>3. CASE q # p
    <3>1. memory'[q] = m
      BY <1>2, <2>2, <2>3
    <3> QED
      BY <3>1
  <2>4. CASE q = p
    <3>1. Input(work[p].old) = r.input
      BY <1>3, <1>5 DEF Input
    <3>2. PICK k : k = IF m.input = r.input THEN w.high ELSE m.input
      OBVIOUS
    <3>3. k \in 0..MaxChanges \cup {Nothing}
      BY <1>6, <3>2 DEF Memories
    <3>4. memory'[q] = [m EXCEPT !.input = k]
      BY <1>2, <1>3, <2>2, <2>4, <3>1, <3>2
    <3>5. [m EXCEPT !.input = k] \in Memories
      BY <2>1, <3>3
    <3>6. k = m.input \/ (m.input = r.input /\ k = w.high)
      BY <3>2
    <3> QED
      BY <2>1, <3>3, <3>4, <3>5, <3>6, Zenon
  <2> QED
    BY <2>3, <2>4
<1>10. Types'
  <2>1. \A q \in Publishers : memory'[q] \in Memories
    BY <1>1, <1>9 DEF Types
  <2>2. memory' \in [Publishers -> Memories]
    <3>1. DOMAIN memory' = Publishers /\ memory' = [q \in Publishers |-> memory'[q]]
      <4>1. memory \in [Publishers -> Memories]
        BY <1>1 DEF Types
      <4> QED
        BY <1>2, <4>1
    <3> QED
      BY <2>1, <3>1
  <2>3. work' \in [Publishers -> Works \cup {Nothing}]
    BY <1>1, <1>2 DEF Types
  <2>4. /\ facts' \in [Facts -> 0..MaxChanges] /\ log' \in Seq(LogEntries)
        /\ Len(log') <= MaxChanges /\ \A f \in Facts : facts'[f] <= Len(log')
        /\ changeOutbox' \subseteq 1..Len(log') /\ events' \in Seq(FactEvents \cup DeltaEvents)
        /\ bodies' \in Seq(Bodies) /\ builds' \in Nat
        /\ dirty' \in [View -> 0..MaxChanges \cup {Nothing}] /\ derived' \in Bodies /\ turn' \in Turns
        /\ truncations' \in 0..MaxTruncate /\ tickFaults' \in 0..MaxTickFaults
    BY <1>1, <1>2 DEF Types, sourceVars, derivedVars
  <2> QED
    BY <1>7, <2>2, <2>3, <2>4 DEF Types
<1>11. Onward /\ LogInv' /\ OutboxInv'
  <2>1. UNCHANGED <<sourceVars, truncations>> /\ events' = events
    BY <1>2
  <2> QED
    BY <1>1, <1>10, <2>1, QuietOnward
<1>12. RowInv'
  <2>1. /\ r.built = builds /\ r.revision = Len(bodies) /\ bodies # <<>>
        /\ r.body = bodies[Len(bodies)] /\ Sound(r.body, r.input, r.cursor)
    BY <1>1, <1>5 DEF RowInv
  <2>2. Shows(r.body, 1..w.high)
    <3> SUFFICES ASSUME NEW i \in 1..w.high, log[i].fact \in View
                 PROVE  r.body[log[i].fact] >= log[i].version
      BY DEF Shows
    <3>1. i \notin (r.input + 1)..w.high
      BY <1>6 DEF ProjectionAssumption
    <3>2. i \in 1..r.input
      BY <1>6, <3>1
    <3> QED
      BY <2>1, <3>2 DEF Sound, Shows
  <2>3. truncations = 0 =>
          \A f \in View : r.body[f] = 0 \/ \E i \in 1..w.high : log[i].fact = f /\ log[i].version = r.body[f]
    <3>1. 1..r.input \subseteq 1..w.high
      BY <1>6
    <3> QED
      BY <2>1, <3>1 DEF Sound
  <2>4. Sound(r.body, w.high, r.cursor)
    BY <1>6, <2>1, <2>2, <2>3 DEF Sound
  <2>5. Sound(r.body, w.high, r.cursor)'
    <3>1. r.body \in Bodies /\ r.cursor \in Nat
      BY DEF Rows
    <3> QED
      BY <1>1, <1>6, <1>10, <1>11, <2>4, <3>1, SoundOnward
  <2>6. ASSUME NEW t \in Rows, row' = t
        PROVE  /\ t.built = builds' /\ t.revision = Len(bodies') /\ bodies' # <<>>
               /\ t.body = bodies'[Len(bodies')] /\ Sound(t.body, t.input, t.cursor)'
    <3>1. t.body = r.body /\ t.input = w.high /\ t.cursor = r.cursor
          /\ t.built = r.built /\ t.revision = r.revision
      BY <1>7, <2>6
    <3>2. builds' = builds /\ bodies' = bodies
      BY <1>2
    <3> QED
      BY <2>1, <2>5, <3>1, <3>2
  <2> QED
    BY <1>8, <2>6 DEF RowInv
<1>13. MemoriesInv'
  <2> SUFFICES ASSUME NEW q \in Publishers, NEW n \in Memories, memory'[q] = n
               PROVE  MemoryInv(n)'
    BY DEF MemoriesInv
  <2>1. PICK m \in Memories : memory[q] = m
    BY <1>1 DEF Types
  <2>2. /\ n.stamp = m.stamp /\ n.body = m.body /\ n.facts = m.facts
        /\ n.input = m.input \/ (m.input = r.input /\ n.input = w.high)
    BY <1>9, <2>1
  <2>3. MemoryInv(m)
    BY <1>1, <2>1 DEF MemoriesInv
  <2>4. UNCHANGED <<facts, log, builds>>
    BY <1>2 DEF sourceVars
  <2>5. n.stamp # Nothing => row' # Nothing /\ n.stamp[3] <= builds'
                          /\ (n.stamp[3] = builds' => n.body = row'.body)
    BY <1>8, <2>2, <2>3, <2>4 DEF MemoryInv
  <2>6. ASSUME n.input # Nothing
        PROVE  /\ n.facts \in Bodies /\ n.input <= Len(log') /\ Captured(n.facts, n.input)'
               /\ \A f \in View : n.facts[f] <= facts'[f]
    <3>1. CASE n.input = m.input
      BY <2>2, <2>3, <2>4, <2>6, <3>1 DEF MemoryInv, Captured
    <3>2. CASE m.input = r.input /\ n.input = w.high
      <4>1. m.input # Nothing
        BY <1>6, <3>2 DEF ProjectionAssumption
      <4>2. /\ m.facts \in Bodies /\ Captured(m.facts, r.input)
            /\ \A f \in View : m.facts[f] <= facts[f]
        BY <2>3, <3>2, <4>1 DEF MemoryInv
      <4>3. ASSUME NEW f \in View, m.facts[f] # facts[f]
            PROVE  \E i \in (w.high + 1)..Len(log) : log[i].fact = f
        <5>1. PICK i \in (r.input + 1)..Len(log) : log[i].fact = f
          BY <4>2, <4>3 DEF Captured
        <5>2. i \notin (r.input + 1)..w.high
          BY <1>6, <5>1 DEF ProjectionAssumption
        <5> QED
          BY <1>6, <5>1, <5>2
      <4> QED
        BY <1>6, <2>2, <2>4, <3>2, <4>2, <4>3 DEF Captured
    <3> QED
      BY <2>2, <3>1, <3>2
  <2> QED
    BY <2>5, <2>6 DEF MemoryInv
<1>14. WorksInv'
  <2> SUFFICES ASSUME NEW q \in Publishers, NEW v \in Works, work'[q] = v, v # Nothing
               PROVE  WorkInv(v)'
    BY DEF WorksInv
  <2>1. work[q] = v
    BY <1>1, <1>2 DEF Types
  <2>2. WorkInv(v)
    BY <1>1, <2>1 DEF WorksInv
  <2> QED
    BY <1>1, <1>10, <1>11, <2>2, WorkOnward
<1>15. DeltaChain'
  <2>1. bodies' = bodies /\ events' = events
    BY <1>2
  <2> QED
    BY <1>1, <2>1, DeltaCalm
<1>16. UNCHANGED <<log, truncations, dirty, derived, turn>>
  BY <1>2 DEF sourceVars, derivedVars
<1>17. DerivedNotBehindWhole'
  BY <1>1, <1>8, <1>16 DEF DerivedNotBehindWhole
<1>18. TurnInv'
  BY <1>1, <1>8, <1>16 DEF TurnInv
<1> QED
  BY <1>10, <1>11, <1>12, <1>13, <1>14, <1>15, <1>17, <1>18 DEF PublicationInv

\* Steps of a publisher that publish nothing.
LEMMA TickStep ==
  ASSUME ProjectionAssumption, PublicationInv, NEW p \in Publishers,
         BeginTick(p) \/ AbortTick(p) \/ FailTick(p) \/ Restart(p)
  PROVE  PublicationInv'
<1>1. /\ Types /\ LogInv /\ OutboxInv /\ DerivedNotBehindWhole /\ TurnInv
  BY DEF PublicationInv
<1>2. /\ UNCHANGED <<sourceVars, events, rowVars, derivedVars, truncations>>
      /\ tickFaults' \in {tickFaults, tickFaults + 1} /\ tickFaults' \in 0..MaxTickFaults
      /\ memory' = memory \/ memory' = [memory EXCEPT ![p] = NoMemory]
  <2>1. tickFaults \in 0..MaxTickFaults /\ MaxTickFaults \in Nat
    BY <1>1 DEF Types, ProjectionAssumption
  <2>2. CASE BeginTick(p)
    BY <2>1, <2>2 DEF BeginTick
  <2>3. CASE AbortTick(p)
    BY <2>1, <2>3 DEF AbortTick
  <2>4. CASE FailTick(p)
    BY <2>1, <2>4 DEF FailTick, TickFault
  <2>5. CASE Restart(p)
    BY <2>1, <2>5 DEF Restart, TickFault
  <2> QED
    BY <2>2, <2>3, <2>4, <2>5
<1>3. \/ work' = [work EXCEPT ![p] = Nothing]
      \/ \E w \in Works : work' = [work EXCEPT ![p] = w] /\ WorkInv(w)
  <2>1. CASE BeginTick(p)
    BY <2>1, BeginTickWork
  <2>2. CASE ~BeginTick(p)
    BY <2>2 DEF AbortTick, FailTick, Restart
  <2> QED
    BY <2>1, <2>2
<1>4. Types'
  <2>1. memory' \in [Publishers -> Memories]
    BY <1>1, <1>2, NoMemoryIs DEF Types
  <2>2. work' \in [Publishers -> Works \cup {Nothing}]
    BY <1>1, <1>3 DEF Types
  <2>3. /\ facts' \in [Facts -> 0..MaxChanges] /\ log' \in Seq(LogEntries)
        /\ Len(log') <= MaxChanges /\ \A f \in Facts : facts'[f] <= Len(log')
        /\ changeOutbox' \subseteq 1..Len(log') /\ events' \in Seq(FactEvents \cup DeltaEvents)
        /\ row' \in Rows \cup {Nothing} /\ bodies' \in Seq(Bodies) /\ builds' \in Nat
        /\ dirty' \in [View -> 0..MaxChanges \cup {Nothing}] /\ derived' \in Bodies /\ turn' \in Turns
        /\ truncations' \in 0..MaxTruncate
    BY <1>1, <1>2 DEF Types, sourceVars, rowVars, derivedVars
  <2> QED
    BY <1>2, <2>1, <2>2, <2>3 DEF Types
<1>5. Onward /\ LogInv' /\ OutboxInv'
  <2>1. UNCHANGED <<sourceVars, truncations>> /\ events' = events
    BY <1>2
  <2> QED
    BY <1>1, <1>4, <2>1, QuietOnward
<1>6. \A q \in Publishers : memory'[q] = memory[q] \/ memory'[q] = NoMemory
  BY <1>1, <1>2 DEF Types
<1>7. ASSUME NEW q \in Publishers
      PROVE  \/ work'[q] = work[q] \/ work'[q] = Nothing
             \/ \A w \in Works : work'[q] = w => WorkInv(w)'
  <2>1. work \in [Publishers -> Works \cup {Nothing}]
    BY <1>1 DEF Types
  <2>2. CASE work' = [work EXCEPT ![p] = Nothing]
    BY <2>1, <2>2
  <2>3. ASSUME NEW w \in Works, work' = [work EXCEPT ![p] = w], WorkInv(w)
        PROVE  work'[q] = work[q] \/ \A v \in Works : work'[q] = v => WorkInv(v)'
    <3>1. WorkInv(w)'
      BY <1>1, <1>4, <1>5, <2>3, WorkOnward
    <3>2. work'[q] = work[q] \/ work'[q] = w
      BY <2>1, <2>3
    <3> QED
      BY <3>1, <3>2
  <2> QED
    BY <1>3, <2>2, <2>3
<1>8. RowInv' /\ MemoriesInv' /\ WorksInv' /\ DeltaChain'
  <2>1. UNCHANGED rowVars /\ events' = events
    BY <1>2
  <2> QED
    BY <1>4, <1>5, <1>6, <1>7, <2>1, CalmStep
<1>9. DerivedNotBehindWhole' /\ TurnInv'
  <2>1. UNCHANGED <<rowVars, derivedVars>>
    BY <1>2
  <2> QED
    BY <1>1, <1>4, <1>5, <2>1, DerivedCalm
<1> QED
  BY <1>4, <1>5, <1>8, <1>9 DEF PublicationInv

\* Collectors and maintenance.
LEMMA SourceStep ==
  ASSUME ProjectionAssumption, PublicationInv,
         (\E f \in Facts : ChangeFact(f)) \/ PruneConsumed \/ TruncateOutbox
  PROVE  PublicationInv'
<1>1. /\ Types /\ LogInv /\ OutboxInv /\ RowInv /\ DerivedNotBehindWhole /\ TurnInv
  BY DEF PublicationInv
<1>2. Types' /\ Onward /\ LogInv' /\ OutboxInv'
  BY <1>1, ChangeFactOnward, ShrinkOnward
<1>3. UNCHANGED <<rowVars, memory, work, derivedVars>>
  BY DEF ChangeFact, PruneConsumed, TruncateOutbox
<1>4. events' = events \/ \E e \in FactEvents : events' = Append(events, e)
  <2>1. ASSUME NEW f \in Facts, ChangeFact(f)
        PROVE  \E e \in FactEvents : events' = Append(events, e)
    <3>1. facts[f] + 1 \in 1..MaxChanges
      <4>1. facts[f] \in Nat /\ facts[f] <= Len(log) /\ Len(log) \in Nat /\ MaxChanges \in Nat
        BY <1>1, EntryIs DEF Types, ProjectionAssumption
      <4> QED
        BY <2>1, <4>1 DEF ChangeFact
    <3>2. [kind |-> "fact", fact |-> f, version |-> facts[f] + 1] \in FactEvents
      BY <3>1 DEF FactEvents
    <3> QED
      BY <2>1, <3>2 DEF ChangeFact
  <2>2. CASE PruneConsumed \/ TruncateOutbox
    BY <2>2 DEF PruneConsumed, TruncateOutbox
  <2> QED
    BY <2>1, <2>2
<1>5. RowInv' /\ MemoriesInv' /\ WorksInv' /\ DeltaChain'
  <2>1. UNCHANGED rowVars /\ memory' = memory /\ work' = work
    BY <1>3
  <2> QED
    BY <1>2, <1>4, <2>1, CalmStep
<1>6. DerivedNotBehindWhole' /\ TurnInv'
  <2>1. UNCHANGED <<rowVars, derivedVars>>
    BY <1>3
  <2> QED
    BY <1>1, <1>2, <2>1, DerivedCalm
<1> QED
  BY <1>2, <1>5, <1>6 DEF PublicationInv

\* refresh_derived.
LEMMA DeriveStep ==
  ASSUME ProjectionAssumption, PublicationInv, Derive \/ FailDerive
  PROVE  PublicationInv'
<1>1. /\ Types /\ LogInv /\ OutboxInv /\ RowInv /\ DerivedNotBehindWhole /\ TurnInv
  BY DEF PublicationInv
<1>2. /\ UNCHANGED <<sourceVars, events, rowVars, memory, work, truncations>>
      /\ tickFaults' \in {tickFaults, tickFaults + 1} /\ tickFaults' \in 0..MaxTickFaults
  BY <1>1 DEF Derive, BeginDerive, ReadDerive, AckDerive, FailDerive, TickFault, Types,
              ProjectionAssumption
<1>3. UNCHANGED <<facts, log, row, truncations>>
  BY <1>2 DEF sourceVars, rowVars
<1>4. /\ dirty \in [View -> 0..MaxChanges \cup {Nothing}] /\ derived \in Bodies /\ turn \in Turns
      /\ Len(log) \in Nat /\ MaxChanges \in Nat /\ facts \in [Facts -> 0..MaxChanges]
      /\ View \subseteq Facts
  BY <1>1, EntryIs DEF Types, Facts, ProjectionAssumption
<1>5. \A k \in 0..MaxChanges : k # Nothing /\ k \in Nat
  BY <1>4 DEF ProjectionAssumption
<1>6. \A f \in View : dirty[f] # Nothing => dirty[f] \in 0..MaxChanges /\ dirty[f] <= Len(log)
  BY <1>1, <1>4 DEF TurnInv
<1>7. NoTurn \in Turns /\ NoTurn.data = Nothing /\ NoTurn.seen = <<>>
  BY DEF NoTurn, Turns
<1> DEFINE Done == /\ dirty' \in [View -> 0..MaxChanges \cup {Nothing}] /\ derived' \in Bodies
                   /\ turn' \in Turns /\ DerivedNotBehindWhole' /\ TurnInv'
<1>8. ASSUME BeginDerive PROVE Done
  <2>1. PICK f \in View : dirty[f] # Nothing /\ turn' = [seen |-> <<f, dirty[f]>>, data |-> Nothing]
    BY <1>8 DEF BeginDerive
  <2>2. dirty' = dirty /\ derived' = derived
    BY <1>8 DEF BeginDerive
  <2>3. /\ turn' \in Turns /\ turn'.data = Nothing /\ turn'.seen = <<f, dirty[f]>>
        /\ turn'.seen[2] = dirty[f]
    BY <1>6, <2>1 DEF Turns
  <2>4. dirty' \in [View -> 0..MaxChanges \cup {Nothing}] /\ derived' \in Bodies
    BY <1>4, <2>2
  <2>5. DerivedNotBehindWhole'
    BY <1>1, <1>3, <2>2 DEF DerivedNotBehindWhole
  <2>6. TurnInv'
    BY <1>3, <1>6, <2>1, <2>2, <2>3 DEF TurnInv
  <2> QED
    BY <2>3, <2>4, <2>5, <2>6
<1>9. ASSUME ReadDerive PROVE Done
  <2>1. dirty' = dirty /\ derived' = derived /\ turn.seen # <<>> /\ turn.data = Nothing
    BY <1>9 DEF ReadDerive
  <2>2. turn.seen \in View \X (0..MaxChanges)
    BY <1>4, <2>1 DEF Turns
  <2>3. PICK f \in View, g \in 0..MaxChanges : turn.seen = <<f, g>>
    BY <2>2
  <2>4. turn.seen[1] = f /\ turn.seen[2] = g /\ g <= Len(log) /\ g \in Nat
    BY <1>1, <1>4, <2>1, <2>3 DEF TurnInv
  <2>5. \A t \in Turns : \A k \in 0..MaxChanges :
          /\ [t EXCEPT !.data = k] \in Turns
          /\ [t EXCEPT !.data = k].seen = t.seen /\ [t EXCEPT !.data = k].data = k
    BY DEF Turns
  <2>6. turn' = [turn EXCEPT !.data = facts[f]]
    BY <1>9, <2>4 DEF ReadDerive
  <2>7. facts[f] \in 0..MaxChanges
    BY <1>4
  <2>8. turn' \in Turns /\ turn'.seen = turn.seen /\ turn'.data = facts[f]
    BY <1>4, <2>5, <2>6, <2>7
  <2>9. \A i \in 1..g : log[i].fact = f => log[i].version <= facts[f]
    BY <1>1, <1>4, <2>4 DEF LogInv
  <2>10. row # Nothing => ~(row.body[f] > facts[f])
    <3> SUFFICES ASSUME row # Nothing
                 PROVE  ~(row.body[f] > facts[f])
      OBVIOUS
    <3>1. PICK r \in Rows : row = r
      BY <1>1 DEF Types
    <3>2. r.body[f] <= facts[f] /\ r.body[f] \in Nat
      BY <1>1, <1>4, <3>1 DEF RowInv, Sound, Rows, Bodies
    <3> QED
      BY <1>4, <2>7, <3>1, <3>2
  <2>11. DerivedNotBehindWhole'
    BY <1>1, <1>3, <2>1 DEF DerivedNotBehindWhole
  <2>12. TurnInv'
    BY <1>3, <1>6, <2>1, <2>4, <2>8, <2>9, <2>10 DEF TurnInv
  <2> QED
    BY <1>4, <2>1, <2>8, <2>11, <2>12
<1>10. ASSUME AckDerive PROVE Done
  <2>1. turn.data # Nothing /\ turn' = NoTurn
    BY <1>10 DEF AckDerive
  <2>2. turn.seen # <<>>
    BY <1>1, <2>1 DEF TurnInv
  <2>3. turn.seen \in View \X (0..MaxChanges) /\ turn.data \in 0..MaxChanges
    BY <1>4, <2>1, <2>2 DEF Turns
  <2>4. PICK f \in View, g \in 0..MaxChanges : turn.seen = <<f, g>>
    BY <2>3
  <2>5. turn.seen[1] = f /\ turn.seen[2] = g
    BY <2>4
  <2>6. /\ derived' = [derived EXCEPT ![f] = turn.data]
        /\ dirty' = [dirty EXCEPT ![f] = IF Cleared(f, g) THEN Nothing ELSE @]
    BY <1>10, <2>5 DEF AckDerive
  <2>7. truncations = 0 /\ row # Nothing /\ row.body[f] > turn.data
          => dirty[f] # Nothing /\ dirty[f] > g
    BY <1>1, <2>1, <2>5 DEF TurnInv
  <2>8. \A h \in View : dirty'[h] = dirty[h] \/ (h = f /\ dirty'[h] = Nothing /\ dirty[f] <= g)
    BY <1>4, <2>6 DEF Cleared
  <2>9. derived' \in Bodies /\ derived'[f] = turn.data
        /\ \A h \in View : h # f => derived'[h] = derived[h]
    BY <1>4, <2>3, <2>6 DEF Bodies
  <2>10. dirty' \in [View -> 0..MaxChanges \cup {Nothing}]
    BY <1>4, <2>6
  <2>11. DerivedNotBehindWhole'
    <3> SUFFICES ASSUME truncations = 0, row # Nothing, NEW h \in View, dirty'[h] = Nothing
                 PROVE  derived'[h] >= row.body[h]
      BY <1>3 DEF DerivedNotBehindWhole
    <3>1. CASE h # f
      <4>1. dirty[h] = Nothing
        BY <2>8, <3>1
      <4> QED
        BY <1>1, <2>9, <3>1, <4>1 DEF DerivedNotBehindWhole
    <3>2. CASE h = f
      <4>1. ~(row.body[f] > turn.data)
        <5>1. dirty[f] = Nothing \/ dirty[f] <= g
          BY <2>8, <3>2
        <5>2. dirty[f] # Nothing => dirty[f] \in Nat /\ g \in Nat
          BY <1>5, <1>6
        <5> QED
          BY <2>7, <5>1, <5>2
      <4>2. row.body[f] \in Nat
        <5>1. row \in Rows
          BY <1>1 DEF Types
        <5> QED
          BY <1>4, <5>1 DEF Rows, Bodies
      <4> QED
        BY <1>4, <2>3, <2>9, <3>2, <4>1, <4>2
    <3> QED
      BY <3>1, <3>2
  <2>12. TurnInv'
    BY <1>3, <1>6, <1>7, <2>1, <2>8 DEF TurnInv
  <2> QED
    BY <1>7, <2>1, <2>9, <2>10, <2>11, <2>12
<1>11. ASSUME FailDerive PROVE Done
  <2>1. turn' = NoTurn /\ dirty' = dirty /\ derived' = derived
    BY <1>11 DEF FailDerive
  <2>2. DerivedNotBehindWhole'
    BY <1>1, <1>3, <2>1 DEF DerivedNotBehindWhole
  <2>3. TurnInv'
    BY <1>3, <1>6, <1>7, <2>1 DEF TurnInv
  <2> QED
    BY <1>4, <1>7, <2>1, <2>2, <2>3
<1>12. Done
  BY <1>8, <1>9, <1>10, <1>11 DEF Derive
<1>13. Types'
  <2>1. /\ facts' \in [Facts -> 0..MaxChanges] /\ log' \in Seq(LogEntries)
        /\ Len(log') <= MaxChanges /\ \A f \in Facts : facts'[f] <= Len(log')
        /\ changeOutbox' \subseteq 1..Len(log') /\ events' \in Seq(FactEvents \cup DeltaEvents)
        /\ row' \in Rows \cup {Nothing} /\ bodies' \in Seq(Bodies) /\ builds' \in Nat
        /\ memory' \in [Publishers -> Memories] /\ work' \in [Publishers -> Works \cup {Nothing}]
        /\ truncations' \in 0..MaxTruncate
    BY <1>1, <1>2 DEF Types, sourceVars, rowVars
  <2> QED
    BY <1>2, <1>12, <2>1 DEF Types
<1>14. UNCHANGED <<sourceVars, truncations, rowVars>> /\ events' = events /\ memory' = memory /\ work' = work
  BY <1>2
<1>15. Onward /\ LogInv' /\ OutboxInv'
  BY <1>1, <1>13, <1>14, QuietOnward
<1>16. RowInv' /\ MemoriesInv' /\ WorksInv' /\ DeltaChain'
  BY <1>13, <1>14, <1>15, CalmStep
<1> QED
  BY <1>12, <1>13, <1>15, <1>16 DEF PublicationInv

-----------------------------------------------------------------------------
(* The theorems.                                                            *)

LEMMA InitHolds ==
  ASSUME ProjectionAssumption, PublicationInit
  PROVE  PublicationInv
<1>1. /\ facts = [f \in Facts |-> 0] /\ log = <<>> /\ changeOutbox = {} /\ events = <<>>
      /\ row = Nothing /\ bodies = <<>> /\ builds = 0
      /\ memory = [p \in Publishers |-> NoMemory] /\ work = [p \in Publishers |-> Nothing]
      /\ dirty = [f \in View |-> Nothing] /\ derived = [f \in View |-> 0] /\ turn = NoTurn
      /\ truncations = 0 /\ tickFaults = 0
  BY DEF PublicationInit
<1>2. Len(log) = 0 /\ Len(events) = 0 /\ Len(bodies) = 0
  BY <1>1, EmptySeq
<1>3. /\ MaxChanges \in Nat /\ MaxTruncate \in Nat /\ MaxTickFaults \in Nat
      /\ Nothing \notin Rows
  BY DEF ProjectionAssumption
<1>4. Types
  <2>1. /\ facts \in [Facts -> 0..MaxChanges] /\ \A f \in Facts : facts[f] <= Len(log)
        /\ Len(log) <= MaxChanges /\ changeOutbox \subseteq 1..Len(log)
    BY <1>1, <1>2, <1>3
  <2>2. log \in Seq(LogEntries) /\ events \in Seq(FactEvents \cup DeltaEvents) /\ bodies \in Seq(Bodies)
    BY <1>1, EmptySeq
  <2>3. memory \in [Publishers -> Memories] /\ work \in [Publishers -> Works \cup {Nothing}]
    BY <1>1, NoMemoryIs
  <2>4. /\ dirty \in [View -> 0..MaxChanges \cup {Nothing}] /\ derived \in Bodies
        /\ turn \in Turns
    BY <1>1, <1>3 DEF Bodies, Turns, NoTurn
  <2> QED
    BY <1>1, <1>3, <2>1, <2>2, <2>3, <2>4 DEF Types
<1>5. LogInv /\ OutboxInv
  BY <1>1, <1>2 DEF LogInv, OutboxInv
<1>6. RowInv
  BY <1>1, <1>3 DEF RowInv
<1>7. MemoriesInv
  BY <1>1, NoMemoryIs DEF MemoriesInv
<1>8. WorksInv
  BY <1>1 DEF WorksInv
<1>9. DeltaChain
  BY <1>2 DEF DeltaChain, Deltas
<1>10. DerivedNotBehindWhole
  BY <1>1 DEF DerivedNotBehindWhole
<1>11. TurnInv
  BY <1>1 DEF TurnInv, NoTurn
<1> QED
  BY <1>4, <1>5, <1>6, <1>7, <1>8, <1>9, <1>10, <1>11 DEF PublicationInv

LEMMA StutterKeeps ==
  ASSUME PublicationInv, UNCHANGED publicationVars
  PROVE  PublicationInv'
<1>1. UNCHANGED <<facts, log, changeOutbox, events, row, bodies, builds, memory, work, dirty,
                  derived, turn, truncations, tickFaults>>
  BY DEF publicationVars, sourceVars, rowVars, derivedVars
<1>2. Types' /\ LogInv' /\ OutboxInv'
  BY <1>1 DEF PublicationInv, Types, LogInv, OutboxInv
<1>3. Lost' = Lost
  BY <1>1 DEF Lost
<1>4. \A body, input, cursor : Sound(body, input, cursor) => Sound(body, input, cursor)'
  BY <1>1, <1>3 DEF Sound, Shows, ShowsEvents
<1>5. RowInv'
  BY <1>1, <1>4 DEF PublicationInv, RowInv
<1>6. MemoriesInv'
  BY <1>1 DEF PublicationInv, MemoriesInv, MemoryInv, Captured
<1>7. WorksInv'
  BY <1>1, <1>4 DEF PublicationInv, WorksInv, WorkInv, TapeInv, Captured, ShowsEvents
<1>8. DeltaChain'
  BY <1>1 DEF PublicationInv, DeltaChain, DeltaAt, Deltas
<1>9. DerivedNotBehindWhole' /\ TurnInv'
  BY <1>1 DEF PublicationInv, DerivedNotBehindWhole, TurnInv
<1> QED
  BY <1>2, <1>5, <1>6, <1>7, <1>8, <1>9 DEF PublicationInv

\* The invariant that carries what a publication promises.
THEOREM PublicationInvariant ==
  ASSUME ProjectionAssumption
  PROVE  PublicationSpec => []PublicationInv
<1>1. PublicationInit => PublicationInv
  BY InitHolds
<1>2. ASSUME PublicationInv, [PublicationNext]_publicationVars
      PROVE  PublicationInv'
  <2>1. CASE (\E f \in Facts : ChangeFact(f)) \/ PruneConsumed \/ TruncateOutbox
    BY <1>2, <2>1, SourceStep
  <2>2. ASSUME NEW p \in Publishers,
               ProjectionTick(p) \/ CommitUnconfirmed(p) \/ FailTick(p) \/ Restart(p)
        PROVE  PublicationInv'
    BY <1>2, <2>2, TickStep, TapeStep, PublishStep DEF ProjectionTick
  <2>3. CASE Derive \/ FailDerive
    BY <1>2, <2>3, DeriveStep
  <2>4. CASE UNCHANGED publicationVars
    BY <1>2, <2>4, StutterKeeps
  <2> QED
    BY <1>2, <2>1, <2>2, <2>3, <2>4 DEF PublicationNext
<1> QED
  BY <1>1, <1>2, PTL DEF PublicationSpec

\* Whatever collectors write while a projection is built and however many
\* publishers compete, crash or lose their commit's answer: the published body
\* covers its cursors, the deltas of the journal lead from each revision to the
\* next, and a view that is not queued to be derived again is not behind it
\* (projection_tick, refresh_derived).
THEOREM PublicationsSound ==
  ASSUME ProjectionAssumption
  PROVE  PublicationSpec => []PublicationSound
<1>1. ASSUME PublicationInv
      PROVE  PublicationSound
  <2>1. Types /\ RowInv /\ DeltaChain /\ DerivedNotBehindWhole
    BY <1>1 DEF PublicationInv
  <2>2. BodyCoversCursors
    <3> SUFFICES ASSUME row # Nothing
                 PROVE  /\ Shows(row.body, 1..row.input)
                        /\ row.input > 0 \/ truncations = 0 => ShowsEvents(row.body, 1..row.cursor)
      BY DEF BodyCoversCursors
    <3>1. PICK r \in Rows : row = r
      BY <2>1 DEF Types
    <3>2. Sound(r.body, r.input, r.cursor)
      BY <2>1, <3>1 DEF RowInv
    <3>3. (r.input = 0 /\ Lost) => ~(r.input > 0 \/ truncations = 0)
      BY <2>1 DEF Lost, Types, ProjectionAssumption
    <3> QED
      BY <3>1, <3>2, <3>3 DEF Sound
  <2> QED
    BY <2>1, <2>2 DEF PublicationSound
<1> QED
  BY <1>1, PublicationInvariant, PTL

\* Types of the publication's state, the revision being the number of bodies
\* ever published.
THEOREM ProjectionTypes ==
  ASSUME ProjectionAssumption
  PROVE  PublicationSpec => []PublicationTypeOK
<1>1. ASSUME PublicationInv
      PROVE  PublicationTypeOK
  <2>1. Types /\ RowInv
    BY <1>1 DEF PublicationInv
  <2>2. Len(bodies) = (IF row = Nothing THEN 0 ELSE row.revision)
    <3>1. CASE row = Nothing
      BY <2>1, <3>1, EmptySeq DEF RowInv
    <3>2. CASE row # Nothing
      BY <2>1, <3>2 DEF RowInv, Types
    <3> QED
      BY <3>1, <3>2
  <2>3. \A p \in Publishers : memory[p].body \in Bodies \cup {Nothing}
                           /\ memory[p].facts \in Bodies \cup {Nothing}
    BY <2>1 DEF Types, Memories
  <2>4. DOMAIN memory = Publishers /\ DOMAIN work = Publishers
    BY <2>1 DEF Types
  <2>5. \A i \in 1..Len(bodies) : bodies[i] \in Bodies
    BY <2>1, EntryIs
  <2> QED
    BY <2>1, <2>2, <2>3, <2>4, <2>5 DEF PublicationTypeOK, Types, LogEntries
<1> QED
  BY <1>1, PublicationInvariant, PTL
=============================================================================
