----------------------------- MODULE PoolVerdict -----------------------------
(***************************************************************************)
(* The verdict on one pool found by an external index.  PoolGapRepair       *)
(* proves it against a block and registers pool and relation; the chain     *)
(* stream finds out that the block of the proof was reorganised away and    *)
(* quarantines both; the main round, the liquidity round and the discovery  *)
(* scan rewrite the relation in between, one of them at a time.  Every step *)
(* is one awaited read or write of the shared facts.                        *)
(***************************************************************************)
EXTENDS Integers, FiniteSets

CONSTANTS
  None,
  MaxAttempts,             \* MAX_RETRY_ATTEMPTS
  MaxForks, MaxTurns, MaxFaults  \* bounds (a turn is one visit, quote or scan)

VARIABLES
  branch,     \* the canonical branch: a proof of an older one is void
  classified, \* the counter token has independent market evidence
  pool,       \* the pool fact
  relation,   \* the relation fact
  candidate,  \* the discovery-pool-gap fact
  memory,     \* the stream's catalogue: the pool it knows, whether it knows the relation
  pending,    \* pending_pools
  covered,    \* pool-stream-coverage
  stream, repair, heavy,  \* what the three tasks are doing
  visited,    \* history: a turn wrote or blocked the relation since another task wrote a fact
  crossed,    \* history: a verdict was written while a repair was under way
  turns, faults

facts == <<pool, relation, candidate>>
streamVars == <<memory, pending, covered, stream>>
vars == <<branch, classified, facts, streamVars, repair, heavy, visited, crossed, turns, faults>>

Waiting == {"pending", "retry", "awaiting-classification"}
PoolFacts == [anchor : (0..MaxForks) \cup {None}, reorged : BOOLEAN, orphaned : BOOLEAN,
          class : {None, "stock-meme", "stock-unclassified"}]
Relations == [status : {"verified", "invalid"}, reorged : BOOLEAN, orphaned : BOOLEAN,
              liquid : BOOLEAN, level : {None, "A"}]
Candidates == [status : Waiting \cup {"registered", "needs-review", "quarantined"},
               attempts : 0..MaxAttempts]
TypeOK ==
  /\ pool \in PoolFacts \cup {None} /\ relation \in Relations \cup {None}
  /\ candidate \in Candidates /\ memory.pool \in PoolFacts \cup {None}
  /\ {pending, covered, classified, visited, crossed, memory.related} \subseteq BOOLEAN
  /\ stream \in {"idle", "retry", "pool", "relation"}
  /\ repair.step \in {"idle", "check", "pool", "relation", "mark"}
  /\ heavy.step \in {"idle", "check", "recheck", "observe", "relate", "last check",
                     "patch", "after", "block"}

\* queue_indexed_gap queues the candidate once.
Init ==
  /\ branch = 0 /\ classified = FALSE /\ pool = None /\ relation = None
  /\ candidate = [status |-> "pending", attempts |-> 0]
  /\ memory = [pool |-> None, related |-> FALSE] /\ pending = FALSE /\ covered = FALSE
  /\ stream = "idle" /\ repair = [step |-> "idle"] /\ heavy = [step |-> "idle"]
  /\ visited = FALSE /\ crossed = FALSE /\ turns = 0 /\ faults = 0

Fork ==
  /\ branch < MaxForks /\ branch' = branch + 1
  /\ UNCHANGED <<classified, facts, streamVars, repair, heavy, visited, crossed, turns, faults>>

Classify ==
  /\ ~classified /\ classified' = TRUE
  /\ UNCHANGED <<branch, facts, streamVars, repair, heavy, visited, crossed, turns, faults>>

\* The factory round takes the creation back; it shares the permit of the heavy turns.
OrphanCreation ==
  /\ heavy.step = "idle" /\ pool # None /\ ~pool.orphaned
  /\ faults < MaxFaults /\ faults' = faults + 1
  /\ pool' = [pool EXCEPT !.orphaned = TRUE]
  /\ relation' = IF relation = None THEN None
                 ELSE [relation EXCEPT !.orphaned = TRUE, !.status = "invalid", !.level = None]
  /\ visited' = FALSE
  /\ UNCHANGED <<branch, classified, candidate, streamVars, repair, heavy, crossed, turns>>

-----------------------------------------------------------------------------
(* PoolGapRepair.run_once: one candidate.                                   *)

repairSame == UNCHANGED <<branch, classified, streamVars, heavy, turns>>

\* assess_pool_relation: an eligible pair is an A when its liquidity is known.
Level(status, liquid) == IF status = "verified" /\ liquid THEN "A" ELSE None

Failed == [status |-> IF candidate.attempts + 1 >= MaxAttempts THEN "needs-review" ELSE "retry",
           attempts |-> candidate.attempts + 1]

\* verify_indexed_pool: the proof names a block that was canonical at its end.
VerifyIndexed ==
  /\ repair.step = "idle" /\ candidate.status \in Waiting
  /\ candidate.status = "awaiting-classification" => classified
  /\ repair' = [step |-> "check", anchor |-> branch]
  /\ UNCHANGED <<facts, visited, crossed, faults>> /\ repairSame

\* A provider fails: the candidate keeps its place, a bounded number of times.
VerifyFails ==
  /\ repair.step = "check" /\ repair' = [step |-> "idle"]
  /\ faults < MaxFaults /\ faults' = faults + 1
  /\ candidate' = Failed
  /\ UNCHANGED <<pool, relation, visited, crossed>> /\ repairSame

\* register_verified_pool reads pool, asset and relation ...
RegisterCheck ==
  /\ repair.step = "check"
  /\ IF (pool # None /\ pool.orphaned) \/ (classified /\ relation # None /\ relation.orphaned)
     THEN repair' = [step |-> "idle"] /\ candidate' = [candidate EXCEPT !.status = "quarantined"]
     ELSE /\ repair' = [step |-> "pool", anchor |-> repair.anchor, previous |-> relation,
                        class |-> IF classified THEN "stock-meme" ELSE "stock-unclassified"]
          /\ UNCHANGED candidate
  /\ UNCHANGED <<pool, relation, visited, crossed, faults>> /\ repairSame

\* ... writes the pool ...
RegisterPool ==
  /\ repair.step = "pool"
  /\ pool' = [anchor |-> repair.anchor, reorged |-> FALSE, class |-> repair.class,
              orphaned |-> pool # None /\ pool.orphaned]
  /\ repair' = [repair EXCEPT !.step = IF repair.class = "stock-meme" THEN "relation" ELSE "mark"]
  /\ visited' = FALSE
  /\ UNCHANGED <<relation, candidate, crossed, faults>> /\ repairSame

\* ... and the relation, on top of the one it read.
RegisterRelation ==
  /\ repair.step = "relation"
  /\ LET old == repair.previous
         liquid == old # None /\ ~old.reorged /\ old.liquid
     IN relation' = [status |-> "verified", reorged |-> FALSE, liquid |-> liquid,
                     level |-> Level("verified", liquid),
                     orphaned |-> old = None /\ relation # None /\ relation.orphaned]
  /\ repair' = [repair EXCEPT !.step = "mark"] /\ visited' = FALSE
  /\ UNCHANGED <<pool, candidate, crossed, faults>> /\ repairSame

MarkCandidate ==
  /\ repair.step = "mark" /\ repair' = [step |-> "idle"]
  /\ candidate' = [candidate EXCEPT
       !.status = IF repair.class = "stock-meme" THEN "registered" ELSE "awaiting-classification"]
  /\ UNCHANGED <<pool, relation, visited, crossed, faults>> /\ repairSame

-----------------------------------------------------------------------------
(* ChainPoolStream: catalogue and the verdict of backfill_pending_pools.    *)

Catalogue ==
  /\ stream = "idle"
  /\ memory' = [pool |-> IF pool = None \/ pool.reorged \/ pool.orphaned THEN None ELSE pool,
                related |-> relation # None]
  /\ pending' = (memory'.pool # None /\ ~covered)
  /\ UNCHANGED <<branch, classified, facts, covered, stream, repair, heavy, visited, crossed, turns, faults>>

\* The block of the proof stands: the replay goes on, and ends some time.
Backfill ==
  /\ stream = "idle" /\ pending /\ memory.pool.anchor \in {None, branch}
  /\ pending' = FALSE /\ covered' = TRUE
  /\ UNCHANGED <<branch, classified, facts, memory, stream, repair, heavy, visited, crossed, turns, faults>>

\* It does not: the candidate is to be proved anew, ...
AnchorGone ==
  /\ stream = "idle" /\ pending /\ memory.pool.anchor \notin {None, branch}
  /\ stream' = "retry"
  /\ crossed' = (crossed \/ repair.step # "idle" \/ memory.pool.anchor # pool.anchor)
  /\ UNCHANGED <<branch, classified, facts, memory, pending, covered, repair, heavy, visited, turns, faults>>

RetryCandidate ==
  /\ stream = "retry" /\ stream' = "pool"
  /\ candidate' = [candidate EXCEPT !.status = "retry"]
  /\ UNCHANGED <<branch, classified, pool, relation, memory, pending, covered, repair, heavy,
                 visited, crossed, turns, faults>>

\* ... the pool is marked, ...
QuarantinePool ==
  /\ stream = "pool" /\ stream' = "relation"
  /\ pool' = [pool EXCEPT !.reorged = TRUE] /\ visited' = FALSE
  /\ crossed' = (crossed \/ repair.step # "idle" \/ candidate.status # "retry")
  /\ UNCHANGED <<branch, classified, relation, candidate, memory, pending, covered, repair, heavy,
                 turns, faults>>

\* ... and the relations the catalogue knew.
QuarantineRelation ==
  /\ stream = "relation" /\ stream' = "idle" /\ pending' = FALSE
  /\ relation' = IF ~memory.related THEN relation
                 ELSE [relation EXCEPT !.status = "invalid", !.level = None, !.reorged = TRUE,
                                       !.liquid = FALSE]
  /\ UNCHANGED <<branch, classified, pool, candidate, memory, covered, repair, heavy, visited,
                 crossed, turns, faults>>

-----------------------------------------------------------------------------
(* One heavy turn: a visit of the main round, a quote of the liquidity      *)
(* round or a scan of the discovery round.                                  *)

heavySame == UNCHANGED <<branch, classified, candidate, streamVars, repair, crossed, faults>>

\* _pool_block_reason
Blocked(p, r) ==
  \/ p # None /\ (p.reorged \/ p.orphaned)
  \/ r # None /\ (r.reorged \/ r.orphaned)

VisitDue == relation # None
QuoteDue == relation # None /\ relation.status = "verified" /\ ~Blocked(None, relation)

StartTurn(job) ==
  /\ heavy.step = "idle" /\ turns < MaxTurns /\ turns' = turns + 1
  /\ (job = "visit" => VisitDue) /\ (job = "quote" => QuoteDue)
  /\ heavy' = [step |-> "check", job |-> job, liquid |-> relation # None /\ relation.liquid]
  /\ UNCHANGED <<pool, relation, visited>> /\ heavySame

\* _invalidate_blocked_relation reads pool and relation, and patches next.
Reorged(p, r) == (p # None /\ p.reorged) \/ (r # None /\ r.reorged)
Verdict(next) ==
  heavy' = IF ~Blocked(pool, relation) THEN next
           ELSE IF relation = None THEN [step |-> "idle"]
           ELSE [step |-> "block", reorged |-> Reorged(pool, relation)]

Block ==
  /\ heavy.step = "block" /\ heavy' = [step |-> "idle"]
  /\ relation' = [relation EXCEPT !.status = "invalid", !.level = None, !.liquid = FALSE,
                    !.reorged = @ \/ heavy.reorged, !.orphaned = @ \/ ~heavy.reorged]
  /\ visited' = TRUE
  /\ UNCHANGED <<pool, turns>> /\ heavySame

\* Before the reads of the chain, and after them.
Check(step, next) ==
  /\ heavy.step = step
  /\ IF heavy.job = "visit" THEN Verdict([heavy EXCEPT !.step = next])
     ELSE /\ heavy' = IF \/ Blocked(pool, IF heavy.job = "quote" THEN relation ELSE None)
                         \/ heavy.job = "quote" /\ relation.status # "verified"
                      THEN [step |-> "idle"] ELSE [heavy EXCEPT !.step = next]
  /\ UNCHANGED <<pool, relation, visited, turns>> /\ heavySame

\* scan_pools: the observation goes onto the pool, and reads the verdict back.
ObservePool ==
  /\ heavy.step = "observe"
  /\ pool' = IF pool = None
             THEN [anchor |-> None, reorged |-> FALSE, orphaned |-> FALSE, class |-> None]
             ELSE pool
  /\ heavy' = IF Blocked(pool', None) \/ pool'.class \notin {None, "stock-meme"}
              THEN [step |-> "idle"] ELSE [heavy EXCEPT !.step = "relate", !.liquid = relation # None /\ relation.liquid]
  /\ UNCHANGED <<relation, visited, turns>> /\ heavySame

ReadVerdict(step, next) ==
  /\ heavy.step = step /\ Verdict([heavy EXCEPT !.step = next])
  /\ UNCHANGED <<pool, relation, visited, turns>> /\ heavySame

\* What the turn writes: a visit the identity, a quote the valuation, a scan both.
\* The level is assessed from the relation as the turn read it.
Patched(valid, liquid) ==
  LET old == IF relation = None
             THEN [status |-> "verified", reorged |-> FALSE, orphaned |-> pool # None /\ pool.orphaned,
                   liquid |-> FALSE, level |-> None]
             ELSE relation
  IN [old EXCEPT !.status = IF heavy.job = "quote" THEN @ ELSE IF valid THEN "verified" ELSE "invalid",
                 !.reorged = FALSE,
                 !.liquid = @ \/ liquid,
                 !.level = Level(IF valid THEN "verified" ELSE "invalid", heavy.liquid \/ liquid)]

\* Mutant: no look back after the patch.
NoLookBack == [step |-> "idle"]
LookBack == IF heavy.job = "quote" THEN [step |-> "idle"] ELSE [heavy EXCEPT !.step = "after"]

PatchRelation(valid, liquid) ==
  /\ heavy.step = "patch"
  /\ heavy.job = "quote" => valid /\ liquid
  /\ heavy.job = "visit" => ~liquid
  /\ heavy.job = "scan" => valid
  /\ relation' = Patched(valid, liquid) /\ heavy' = LookBack
  /\ visited' = (visited \/ heavy.job # "quote")
  /\ UNCHANGED <<pool, turns>> /\ heavySame

\* Cancelled by the worker, or a read of the chain failed.
Cancel ==
  /\ heavy.step # "idle" /\ heavy' = [step |-> "idle"]
  /\ faults < MaxFaults /\ faults' = faults + 1 /\ visited' = FALSE
  /\ UNCHANGED <<branch, classified, facts, streamVars, repair, crossed, turns>>

HeavyTurn ==
  \/ \E job \in {"visit", "quote", "scan"} : StartTurn(job)
  \/ Check("check", "recheck")
  \/ heavy.step = "recheck" /\ Check("recheck", IF heavy.job = "scan" THEN "observe" ELSE "patch")
  \/ ObservePool \/ ReadVerdict("relate", "last check") \/ ReadVerdict("last check", "patch")
  \/ \E valid, liquid \in BOOLEAN : PatchRelation(valid, liquid)
  \/ heavy.step = "after" /\ Verdict([step |-> "idle"])
     /\ UNCHANGED <<pool, relation, visited, turns>> /\ heavySame
  \/ Block \/ Cancel

Next ==
  \/ Fork \/ Classify \/ OrphanCreation
  \/ VerifyIndexed \/ VerifyFails \/ RegisterCheck \/ RegisterPool \/ RegisterRelation \/ MarkCandidate
  \/ Catalogue \/ Backfill \/ AnchorGone \/ RetryCandidate \/ QuarantinePool \/ QuarantineRelation
  \/ HeavyTurn

Spec == Init /\ [][Next]_vars

-----------------------------------------------------------------------------
\* A revoked proof stays revoked: once a turn has looked at the relation after
\* the last verdict, no relation of a blocked pool is verified or carries a level,
\* whatever valuation or scan was under way when the verdict came.
BlockedStaysInvalid ==
  visited /\ heavy.step = "idle" /\ relation # None /\ Blocked(pool, relation) =>
    relation.status = "invalid" /\ relation.level = None

\* A quarantined pool is proved anew: its candidate waits for a retry, unless the
\* verdict crossed a repair that was already under way.
QuarantineRetried ==
  pool # None /\ pool.reorged /\ repair.step = "idle" /\ ~crossed =>
    candidate.status \in Waiting \cup {"needs-review", "quarantined"}

QuarantineKept == BlockedStaysInvalid /\ QuarantineRetried
=============================================================================
