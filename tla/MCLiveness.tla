----------------------------- MODULE MCLiveness -----------------------------
(***************************************************************************)
(* What must eventually happen, under the fairness of each component's     *)
(* loop. The components below share no state and call none of each other's *)
(* operations, so their product would only multiply their interleavings: a *)
(* behaviour picks one of them and lets the others stand still, and TLC    *)
(* explores each component completely.                                     *)
(***************************************************************************)
EXTENDS Integers, Sequences, FiniteSets, TLC

CONSTANTS c1, p1, t1, t2, t3, v1, p2, k1, None, Nothing

VARIABLES
  part,  \* the component of this behaviour
  facts, log, changeOutbox, events, row, bodies, builds, memory, work, dirty,
  derived, turn, truncations, tickFaults,
  allocated, inflight, journal, audience, committed, snapshot, tailCursor,
  tailRows, subscribed, queue, conn, wire, streamPhase, lastEventId,
  reflected, streamFaults,
  clock, leasePending, ahead, flush, rows, createdAt, legacy, failures,
  deltas, oldest, scope, epoch, page, buffer, floor, polls, pageCursor, open,
  drops,
  budgetPhase, ticket, file, older, permit, streak, scan, pendingIo,
  budgetFaults, bystanders, passed,
  pg, sqlite, standbyPending, counter, ranges, owner, verified, triggers,
  sqliteWrites, archive, pgOpen, job, standbyCursor, standbyFaults

viewsState ==
  <<facts, log, changeOutbox, events, row, bodies, builds, memory, work, dirty,
    derived, turn, truncations, tickFaults>>

streamState ==
  <<allocated, inflight, journal, audience, committed, snapshot, tailCursor,
    tailRows, subscribed, queue, conn, wire, streamPhase, lastEventId,
    reflected, streamFaults>>

leaseState ==
  <<clock, leasePending, ahead, flush, rows, createdAt, legacy, failures>>

pageState ==
  <<deltas, oldest, scope, epoch, page, buffer, floor, polls, pageCursor, open,
    drops>>

budgetState ==
  <<budgetPhase, ticket, file, older, permit, streak, scan, pendingIo,
    budgetFaults, bystanders, passed>>

standbyState ==
  <<pg, sqlite, standbyPending, counter, ranges, owner, verified, triggers,
    sqliteWrites, archive, pgOpen, job, standbyCursor, standbyFaults>>

Views == INSTANCE Projection WITH
  View <- {v1}, Tape <- {t1}, Publishers <- {p1, p2}, OutboxOverlap <- 1,
  MaxChanges <- 1, MaxExpiry <- 1, MaxTruncate <- 0, MaxTickFaults <- 2

Stream == INSTANCE EventStream WITH
  Clients <- {c1}, QueueMax <- 1, PageSize <- 1, TailSize <- 2, StampLag <- 0,
  PruneInPage <- FALSE, WireMax <- 2, MaxId <- 2, MaxFaults <- 1,
  phase <- streamPhase, faults <- streamFaults

Lease == INSTANCE DemandLeases WITH
  Keys <- {k1}, Lifetime <- 1, BatchSize <- 1, MaxPending <- 2, MaxClock <- 3,
  MaxFailures <- 1, pending <- leasePending

Page == INSTANCE DashboardView WITH
  Rows <- {v1}, Scopes <- {c1, p1}, BufferFrames <- 1, MaxRevision <- 3,
  MaxEpochs <- 0, MaxDrops <- 1, cursor <- pageCursor

Budget == INSTANCE BackgroundBudget WITH
  Jobs <- {c1, p1}, MaintenanceJobs <- {}, PriorityJobs <- {p1},
  Idents <- {t1, t2, t3}, MaxPriorityStreak <- 1, MaxIo <- 1, MaxFaults <- 1,
  phase <- budgetPhase, faults <- budgetFaults

Standby == INSTANCE StorageRecovery WITH
  Keys <- {k1}, MaxRow <- 2, BatchRows <- 1, MaxWrites <- 2, MaxStray <- 1,
  MaxFaults <- 1, pending <- standbyPending, cursor <- standbyCursor,
  faults <- standbyFaults

Init ==
  /\ part \in {"views", "stream", "lease", "page", "budget", "standby"}
  /\ Views!PublicationInit
  /\ Stream!Init
  /\ Lease!LeaseInit
  /\ Page!Init
  /\ Budget!Init
  /\ Standby!Init

vars == <<part, viewsState, streamState, leaseState, pageState, budgetState, standbyState>>

Next ==
  \/ part = "views" /\ Views!PublicationNext
     /\ UNCHANGED <<part, streamState, leaseState, pageState, budgetState, standbyState>>
  \/ part = "stream" /\ Stream!Next
     /\ UNCHANGED <<part, viewsState, leaseState, pageState, budgetState, standbyState>>
  \/ part = "lease" /\ Lease!LeaseNext
     /\ UNCHANGED <<part, viewsState, streamState, pageState, budgetState, standbyState>>
  \/ part = "page" /\ Page!Next
     /\ UNCHANGED <<part, viewsState, streamState, leaseState, budgetState, standbyState>>
  \/ part = "budget" /\ Budget!Next
     /\ UNCHANGED <<part, viewsState, streamState, leaseState, pageState, standbyState>>
  \/ part = "standby" /\ Standby!Next
     /\ UNCHANGED <<part, viewsState, streamState, leaseState, pageState, budgetState>>

Spec == Init /\ [][Next]_vars

Fairness ==
  /\ WF_viewsState(part = "views" /\ Views!Derive)
  /\ \A q \in {p1, p2}: WF_viewsState(part = "views" /\ Views!ProjectionTick(q))
  /\ WF_streamState(part = "stream" /\ Stream!EndTransaction)
  /\ WF_streamState(part = "stream" /\ Stream!PublishSnapshot)
  /\ WF_streamState(part = "stream" /\ Stream!TailRead)
  /\ WF_streamState(part = "stream" /\ Stream!Fanout)
  /\ WF_streamState(part = "stream" /\ Stream!Subscribe(c1))
  /\ WF_streamState(part = "stream" /\ Stream!Serve(c1))
  /\ WF_streamState(part = "stream" /\ Stream!Checkpoint(c1))
  /\ WF_streamState(part = "stream" /\ Stream!Bootstrap(c1))
  /\ WF_streamState(part = "stream" /\ Stream!Receive(c1))
  /\ WF_leaseState(part = "lease" /\ Lease!Flush)
  /\ WF_pageState(part = "page" /\ Page!CatchUp)
  /\ WF_pageState(part = "page" /\ Page!StartPoll)
  /\ WF_pageState(part = "page" /\ Page!Answer)
  /\ WF_pageState(part = "page" /\ Page!Finish)
  /\ WF_pageState(part = "page" /\ Page!OpenStream)
  /\ WF_pageState(part = "page" /\ Page!Deliver)
  /\ \A j \in {c1, p1}: WF_budgetState(part = "budget" /\ (Budget!OpenPending(j) \/ Budget!LockPending(j) \/ Budget!Publish(j)))
  /\ \A j \in {c1, p1}: SF_budgetState(part = "budget" /\ Budget!AcquirePermit(j, FALSE))
  /\ \A j \in {c1, p1}: WF_budgetState(part = "budget" /\ Budget!Scan(j))
  /\ \A j \in {c1, p1}: WF_budgetState(part = "budget" /\ Budget!Decide(j))
  /\ \A j \in {c1, p1}: WF_budgetState(part = "budget" /\ Budget!IoDone(j))
  /\ \A j \in {c1, p1}: WF_budgetState(part = "budget" /\ Budget!EndTurn(j))
  /\ \A j \in {c1, p1}: WF_budgetState(part = "budget" /\ Budget!Close(j))
  /\ SF_standbyState(part = "standby" /\ Standby!SnapshotChanges)
  /\ WF_standbyState(part = "standby" /\ Standby!ApplyChanges)
  /\ WF_standbyState(part = "standby" /\ Standby!Acknowledge)
  /\ WF_standbyState(part = "standby" /\ Standby!ReadChunk)
  /\ WF_standbyState(part = "standby" /\ Standby!CertifyChunk)
LiveSpec == Spec /\ Fairness

\* Every committed change reaches the publication and its derived view.
ChangesArrive == part = "views" => Views!ChangesArrive

\* A tab that was dropped, filtered, reset or disconnected catches up with
\* the journal.
EveryPageCatchesUp == part = "stream" => Stream!EveryPageCatchesUp

\* A running flush task stores every lease that does not lapse first.
LeaseStored == part = "lease" => Lease!LeaseStored

\* In the end the tab shows the latest revision of the page asked for.
PageCatchesUp == part = "page" => Page!PageCatchesUp

\* Every waiter that stays gets its turn, also against endless priority
\* turns.
WaiterServed == part = "budget" => Budget!WaiterServed

\* Once PostgreSQL writers stay away the standby becomes ready for the
\* barrier.
StandbyBecomesReady == part = "standby" => Standby!StandbyBecomesReady

=============================================================================
