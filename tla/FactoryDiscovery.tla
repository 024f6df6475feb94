---------------------------- MODULE FactoryDiscovery ----------------------------
(***************************************************************************)
(* FactoryDiscovery (collectors/factory_discovery.py): creation events of   *)
(* pinned factories, read in ranges behind a durable cursor with anchors,   *)
(* confirmed by depth, turned into a pool and a relation, and taken back    *)
(* when their block leaves the chain.  A round may be cancelled between any *)
(* two of its writes.                                                       *)
(*                                                                         *)
(* One pool, created once on each of the two branches of the chain; an     *)
(* event is its block.  A hash is a block: its height and its branch.      *)
(***************************************************************************)
EXTENDS Integers, SequencesExt, FiniteSetsExt

CONSTANTS
  MaxHeight,      \* bound
  ForkAt,         \* where the second branch leaves the first
  CreatedAt,      \* the height of the creating block of the first branch
  MovedTo,        \* ... and of the second branch
  BatchBlocks,    \* batch_blocks
  MaxRanges,      \* max_ranges
  Confirmations,  \* confirmations
  None,
  MaxReorgs, MaxFaults  \* bounds

VARIABLES
  height, branch,  \* the chain: its length and its branch
  events,          \* factory_discovery_events
  cursor,          \* factory_discovery_cursors
  pool,            \* the pool fact: event and creationStatus
  relation,        \* the relation fact: factoryEventId and status
  round,           \* what a round of the worker holds
  reorgs, faults

\* The blocks that create the pool.
Creations == {<<CreatedAt, 0>>, <<MovedTo, 1>>}

chainVars == <<height, branch, reorgs>>
factVars == <<pool, relation>>
vars == <<chainVars, events, cursor, factVars, round, faults>>

At(h) == <<h, IF h < ForkAt THEN 0 ELSE branch>>
Canonical(b) == b[1] <= height /\ At(b[1]) = b
Idle == [step |-> "idle"]

Rows == [status : {"provisional", "confirmed", "orphaned"},
         processing : {"pending", "retry", "matched"},
         relation : BOOLEAN, retracted : BOOLEAN]
TypeOK ==
  /\ height \in 1..MaxHeight /\ branch \in {0, 1}
  /\ \A e \in Creations : events[e] \in Rows \cup {None}
  /\ cursor # None => cursor.hash[1] \in 0..MaxHeight /\ Last(cursor.anchors) = cursor.hash
  /\ pool # None => pool.event \in Creations /\ pool.creation \in {"confirmed", "orphaned"}
  /\ relation # None => relation.event \in Creations /\ relation.status \in {"verified", "invalid"}
  /\ round.step \in {"idle", "scan", "commit", "confirm", "retract", "retract pool",
                     "retracted", "process", "persist", "relate", "mark"}

Init ==
  /\ height = 1 /\ branch = 0 /\ events = [e \in Creations |-> None]
  /\ cursor = None /\ pool = None /\ relation = None
  /\ round = Idle /\ reorgs = 0 /\ faults = 0

-----------------------------------------------------------------------------
Mine ==
  /\ height < MaxHeight /\ height' = height + 1
  /\ UNCHANGED <<branch, reorgs, events, cursor, factVars, round, faults>>

\* The other branch takes over, or the first one again.
Reorganise(h) ==
  /\ reorgs < MaxReorgs /\ reorgs' = reorgs + 1
  /\ height >= ForkAt /\ h \in ForkAt..MaxHeight
  /\ branch' = 1 - branch /\ height' = h
  /\ UNCHANGED <<events, cursor, factVars, round, faults>>

-----------------------------------------------------------------------------
(* run_once.                                                                *)

\* The anchors before the last that are still canonical.
LiveAnchors(anchors) == {i \in DOMAIN anchors : i < Len(anchors) /\ Canonical(anchors[i])}

\* _rewind_if_needed: evidence above the newest live anchor is orphaned.
Rewound ==
  IF Canonical(cursor.hash) THEN UNCHANGED <<events, cursor>>
  ELSE LET i == Max(LiveAnchors(cursor.anchors))
           anchor == cursor.anchors[i]
       IN /\ cursor' = [hash |-> anchor, anchors |-> SubSeq(cursor.anchors, 1, i)]
          /\ events' = [e \in Creations |->
               IF events[e] # None /\ e[1] > anchor[1]
               THEN [events[e] EXCEPT !.status = "orphaned"] ELSE events[e]]

\* _bootstrap, once, then the rewind.
StartRound ==
  /\ round = Idle
  /\ IF cursor = None
     THEN cursor' = [hash |-> At(0), anchors |-> <<At(0)>>] /\ UNCHANGED events
     ELSE Rewound
  /\ round' = [step |-> "scan", head |-> height, left |-> MaxRanges]
  /\ UNCHANGED <<chainVars, factVars, faults>>

\* Mutant: the cursor's block is not read again after the range.
CursorTrusted == TRUE
\* The parent of the range is the cursor's block still.
CursorStands == Canonical(cursor.hash)

\* _fetch_range: the end and the cursor are canonical after the read as before.
FetchRange ==
  /\ round.step = "scan"
  /\ IF round.left = 0 \/ cursor.hash[1] >= round.head
     THEN round' = [step |-> "confirm", head |-> round.head]
     ELSE LET end == Min({round.head, cursor.hash[1] + BatchBlocks})
          IN IF end <= height /\ CursorStands
             THEN round' = [step |-> "commit", head |-> round.head, left |-> round.left,
                            end |-> At(end),
                            found |-> {e \in Creations : Canonical(e) /\ e[1] \in cursor.hash[1] + 1..end}]
             ELSE round' = Idle
  /\ UNCHANGED <<chainVars, events, cursor, factVars, faults>>

FoundStatus(e) == IF round.head - e[1] >= Confirmations THEN "confirmed" ELSE "provisional"

\* ON CONFLICT: evidence that was orphaned is processed anew.
Restated(old, status) ==
  IF old.status = "orphaned"
  THEN [status |-> status, processing |-> "pending", relation |-> FALSE, retracted |-> FALSE]
  ELSE IF old.status = "provisional" /\ status = "confirmed"
  THEN [old EXCEPT !.status = "confirmed"] ELSE old

Upserted(e) ==
  IF events[e] = None
  THEN [status |-> FoundStatus(e), processing |-> "pending", relation |-> FALSE, retracted |-> FALSE]
  ELSE Restated(events[e], FoundStatus(e))

\* _commit_range: evidence and watermark in one transaction.
CommitRange ==
  /\ round.step = "commit"
  /\ events' = [e \in Creations |-> IF e \in round.found THEN Upserted(e) ELSE events[e]]
  /\ cursor' = [hash |-> round.end, anchors |-> Append(cursor.anchors, round.end)]
  /\ round' = [step |-> "scan", head |-> round.head, left |-> round.left - 1]
  /\ UNCHANGED <<chainVars, factVars, faults>>

\* _confirm_existing
ConfirmExisting ==
  /\ round.step = "confirm"
  /\ events' = [e \in Creations |->
       IF events[e] # None /\ events[e].status = "provisional" /\ e[1] <= round.head - Confirmations
       THEN [events[e] EXCEPT !.status = "confirmed"] ELSE events[e]]
  /\ round' = [step |-> "retract"]
  /\ UNCHANGED <<chainVars, cursor, factVars, faults>>

-----------------------------------------------------------------------------
(* process_confirmed: first what has to be taken back.                      *)

ToRetract == {e \in Creations : events[e] # None /\ events[e].status = "orphaned"
                                /\ events[e].relation /\ ~events[e].retracted}
ToProcess == {e \in Creations : events[e] # None /\ events[e].status = "confirmed"
                                /\ events[e].processing \in {"pending", "retry"}}

\* _retract_orphans: the relation, the pool, then the row, each on its own.
RetractRelation ==
  /\ round.step = "retract"
  /\ IF ToRetract = {} THEN round' = [step |-> "process", todo |-> ToProcess] /\ UNCHANGED relation
     ELSE \E e \in ToRetract :
            /\ relation' = IF relation # None /\ relation.event = e
                           THEN [relation EXCEPT !.status = "invalid"] ELSE relation
            /\ round' = [step |-> "retract pool", event |-> e]
  /\ UNCHANGED <<chainVars, events, cursor, pool, faults>>

RetractPool ==
  /\ round.step = "retract pool"
  /\ pool' = IF pool # None /\ pool.event = round.event
             THEN [pool EXCEPT !.creation = "orphaned"] ELSE pool
  /\ round' = [step |-> "retracted", event |-> round.event]
  /\ UNCHANGED <<chainVars, events, cursor, relation, faults>>

MarkRetracted ==
  /\ round.step = "retracted"
  /\ events' = [events EXCEPT ![round.event].retracted = TRUE]
  /\ round' = [step |-> "retract"]
  /\ UNCHANGED <<chainVars, cursor, factVars, faults>>

\* The next confirmed event is checked against its block once more.
VerifyCreated ==
  /\ round.step = "process"
  /\ IF round.todo = {} THEN round' = Idle /\ UNCHANGED events
     ELSE \E e \in round.todo :
            IF Canonical(e)
            THEN round' = [step |-> "persist", todo |-> round.todo \ {e}, event |-> e] /\ UNCHANGED events
            ELSE /\ events' = [events EXCEPT ![e].processing = "retry"]
                 /\ round' = [round EXCEPT !.todo = @ \ {e}]
  /\ UNCHANGED <<chainVars, cursor, factVars, faults>>

\* _persist_match writes the pool and then the relation ...
PersistPool ==
  /\ round.step = "persist"
  /\ pool' = [event |-> round.event, creation |-> "confirmed"]
  /\ round' = [round EXCEPT !.step = "relate"]
  /\ UNCHANGED <<chainVars, events, cursor, relation, faults>>

PersistRelation ==
  /\ round.step = "relate"
  /\ relation' = [event |-> round.event, status |-> "verified"]
  /\ round' = [round EXCEPT !.step = "mark"]
  /\ UNCHANGED <<chainVars, events, cursor, pool, faults>>

\* ... and _mark_processing puts the relation's id on the event.
MarkMatched ==
  /\ round.step = "mark"
  /\ events' = [events EXCEPT ![round.event].processing = "matched", ![round.event].relation = TRUE]
  /\ round' = [step |-> "process", todo |-> round.todo]
  /\ UNCHANGED <<chainVars, cursor, factVars, faults>>

\* A failed read or write of one event: it is retried without a relation id.
FailEvent ==
  /\ round.step \in {"persist", "relate", "mark"}
  /\ faults < MaxFaults /\ faults' = faults + 1
  /\ events' = [events EXCEPT ![round.event].processing = "retry"]
  /\ round' = [step |-> "process", todo |-> round.todo]
  /\ UNCHANGED <<chainVars, cursor, factVars>>

\* The turn is cancelled, or the process stops.
Cancel ==
  /\ round # Idle /\ round' = Idle
  /\ faults < MaxFaults /\ faults' = faults + 1
  /\ UNCHANGED <<chainVars, events, cursor, factVars>>

Next ==
  \/ Mine \/ \E h \in ForkAt..MaxHeight : Reorganise(h)
  \/ StartRound \/ FetchRange \/ CommitRange \/ ConfirmExisting
  \/ RetractRelation \/ RetractPool \/ MarkRetracted
  \/ VerifyCreated \/ PersistPool \/ PersistRelation \/ MarkMatched
  \/ FailEvent \/ Cancel

Spec == Init /\ [][Next]_vars

-----------------------------------------------------------------------------
Live(e) == events[e] # None /\ events[e].status # "orphaned"

\* The cursor tells the truth: while its block is canonical, the evidence at or
\* below it is exactly the creations of the canonical chain, whatever reorganised
\* between the reads of a range and its commit, and after every rewind.
EvidenceExact ==
  cursor # None /\ Canonical(cursor.hash) =>
    \A e \in Creations : e[1] <= cursor.hash[1] => (Live(e) <=> Canonical(e))

\* What was done with an event fits the facts: a matched event that stands has
\* its verified relation and pool, also after it was orphaned and came back, and
\* a relation that was taken back is not shown as verified.
MatchedHasRelation ==
  round = Idle => \A e \in Creations : events[e] # None =>
    /\ Live(e) /\ events[e].processing = "matched" /\ relation.event = e
         => relation.status = "verified" /\ pool.creation = "confirmed"
    /\ events[e].retracted /\ relation.event = e => relation.status = "invalid"

\* Claimed by _retract_orphans, and false: when nothing is left to retract, no
\* relation of an orphaned creation is verified, even after a restart.
OrphansRetracted ==
  round = Idle /\ ToRetract = {} /\ relation # None /\ ~Live(relation.event)
    => relation.status = "invalid"

\* Both: the evidence is the chain's, and the relations are the evidence's.
EvidenceSound == EvidenceExact /\ MatchedHasRelation

=============================================================================
