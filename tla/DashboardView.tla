---------------------------- MODULE DashboardView ----------------------------
(***************************************************************************)
(* The dashboard page of one browser tab (stores/dashboard.js and the      *)
(* bootstrap and recovery of composables/useStream.js): snapshots arrive   *)
(* over HTTP at any time, page deltas over the stream in order, and the    *)
(* user changes the page.  Several processes answer; one may still serve   *)
(* an earlier publication while another serves the next.                   *)
(*                                                                         *)
(* Revision r of a page is built from the deltas 1..r; a delta patches or  *)
(* removes rows and names the revision it applies to.                      *)
(***************************************************************************)
EXTENDS Integers, SequencesExt

CONSTANTS
  Rows,           \* row keys of a page
  Scopes,         \* "overview", "market"
  BufferFrames,   \* MAX_REPLAY_FRAMES
  None,
  MaxRevision,    \* bound: publications
  MaxEpochs,      \* bound: page changes
  MaxDrops        \* bound: broken or reset connections

VARIABLES
  deltas,         \* what the server published: the changes of each revision
  oldest,         \* the oldest publication a process still answers with
  scope, epoch,   \* page of the stream, viewEpoch
  page,           \* snapshot: scope, revision and rows, or None
  buffer, floor,  \* recentDeltas, bufferFloorRevision
  polls,          \* pollTasks
  cursor, open,   \* lastEventId, or None until a snapshot gives one; the stream
  drops

serverVars == <<deltas, oldest>>
viewVars == <<scope, epoch>>
streamVars == <<cursor, open, drops>>
vars == <<serverVars, viewVars, page, buffer, floor, polls, streamVars>>

Latest == Len(deltas)

\* A row is the revision that wrote it and the revision it was merged at.
Written(row, r) ==
  LET touched == {q \in 1..r : deltas[q][row] # "same"}
      last == CHOOSE q \in touched : \A p \in touched : p <= q
  IN IF touched = {} THEN 0 ELSE IF deltas[last][row] = "gone" THEN None ELSE last
RowAt(row, r) == IF Written(row, r) = None THEN None ELSE [value |-> Written(row, r), stamp |-> r]
PageAt(s, r) == [scope |-> s, revision |-> r, rows |-> [row \in Rows |-> RowAt(row, r)]]

TypeOK ==
  /\ deltas \in Seq([Rows -> {"same", "put", "gone"}]) /\ Latest <= MaxRevision
  /\ oldest \in 1..Latest
  /\ scope \in Scopes /\ epoch \in 0..MaxEpochs /\ drops \in 0..MaxDrops
  /\ page # None => page.scope \in Scopes /\ page.revision \in 0..Latest
  /\ buffer \in Seq(1..Latest) /\ Len(buffer) <= BufferFrames /\ floor \in 0..Latest
  /\ \A p, q \in polls : p.epoch = q.epoch => p = q
  /\ cursor \in 0..Latest \cup {None} /\ open \in BOOLEAN

Init ==
  /\ deltas = <<[row \in Rows |-> "put"]>> /\ oldest = 1
  /\ scope = (CHOOSE s \in Scopes : TRUE) /\ epoch = 0 /\ page = None
  /\ buffer = <<>> /\ floor = 0 /\ polls = {} /\ cursor = None /\ open = FALSE /\ drops = 0

\* The server publishes a revision.
Publish ==
  /\ Latest < MaxRevision
  /\ \E d \in [Rows -> {"same", "put", "gone"}] : deltas' = Append(deltas, d)
  /\ UNCHANGED <<oldest, viewVars, page, buffer, floor, polls, streamVars>>

\* A process finishes the previous publication for a few seconds at most while
\* it prepares the next one.
CatchUp ==
  /\ oldest < Latest /\ oldest' = oldest + 1
  /\ UNCHANGED <<deltas, viewVars, page, buffer, floor, polls, streamVars>>

-----------------------------------------------------------------------------
(* acceptSnapshot and applyPageProjection.                                  *)

\* A shown row that was merged at a newer revision is not replaced.
Kept(shown, incoming, r) ==
  IF shown # None /\ incoming # None /\ shown.stamp > r THEN shown ELSE incoming
Patched(shown, r) ==
  [shown EXCEPT !.revision = r,
                !.rows = [row \in Rows |->
                  IF deltas[r][row] = "same" THEN shown.rows[row]
                  ELSE IF deltas[r][row] = "gone" THEN None
                  ELSE Kept(shown.rows[row], [value |-> r, stamp |-> r], r)]]

\* Mutant: a delta is applied over a gap.
FitsNewer(shown, r) == r > shown.revision
\* A delta fits only the revision it was built on.
Fits(shown, r) == r = shown.revision + 1

\* Buffered deltas above the snapshot are replayed in order; the first that does
\* not fit ends it.
Replayed(snapshot) ==
  FoldLeft(LAMBDA done, r :
             IF ~done.fits \/ r <= done.page.revision THEN done
             ELSE IF Fits(done.page, r) THEN [done EXCEPT !.page = Patched(@, r)]
             ELSE [done EXCEPT !.fits = FALSE],
           [page |-> snapshot, fits |-> TRUE], buffer)
Merged(snapshot) ==
  IF page = None THEN snapshot
  ELSE [snapshot EXCEPT !.rows = [row \in Rows |->
          Kept(page.rows[row], snapshot.rows[row], snapshot.revision)]]

-----------------------------------------------------------------------------
(* poll.                                                                    *)

\* A task of the same page and epoch is joined.
StartPoll ==
  /\ \A p \in polls : p.epoch # epoch
  /\ polls' = polls \cup {[epoch |-> epoch, scope |-> scope, attempt |-> 1, answer |-> None]}
  /\ UNCHANGED <<serverVars, viewVars, page, buffer, floor, streamVars>>

\* Any process answers, with the publication it serves.
AnswerPoll(p) ==
  /\ p.answer = None
  /\ \E r \in oldest..Latest : polls' = (polls \ {p}) \cup {[p EXCEPT !.answer = r]}
  /\ UNCHANGED <<serverVars, viewVars, page, buffer, floor, streamVars>>

\* Mutant: a snapshot is accepted although frames after it were dropped.
CoveredAlways(r) == r \in Nat
\* Mutant: the snapshot of the dropped frame itself is rejected.
CoveredPast(r) == r > floor
\* Does the buffer still reach down to the snapshot?
Covered(r) == r >= floor

OfThisPage(p) == p.epoch = epoch

\* An answer for an earlier page is dropped; one retry if the buffer moved on.
\* A tab without a cursor takes the snapshot's, unless the replay did not fit:
\* the page is replaced all the same.
FinishPoll(p) ==
  /\ p.answer # None
  /\ LET mine == OfThisPage(p)
         accepted == mine /\ Covered(p.answer)
         done == Replayed(Merged(PageAt(p.scope, p.answer)))
         again == mine /\ ~accepted /\ p.attempt = 1
     IN /\ page' = IF accepted THEN done.page ELSE page
        /\ cursor' = IF cursor = None /\ accepted /\ done.fits THEN p.answer ELSE cursor
        /\ polls' = (polls \ {p}) \cup
                    {[q EXCEPT !.attempt = 2, !.answer = None] : q \in {x \in {p} : again}}
  /\ UNCHANGED <<serverVars, viewVars, buffer, floor, open, drops>>

-----------------------------------------------------------------------------
(* The stream.                                                              *)

OpenStream ==
  /\ cursor # None /\ ~open /\ open' = TRUE
  /\ UNCHANGED <<serverVars, viewVars, page, buffer, floor, polls, cursor, drops>>

FloorOver(dropped) == Max({floor} \cup ToSet(dropped))

\* The oldest frames leave until the rest fits; a frame over the byte limit
\* leaves at once.
Remember(r) == \E n \in 0..Len(buffer) + 1 :
  LET frames == Append(buffer, r) IN
  /\ Len(frames) - n <= BufferFrames
  /\ buffer' = SubSeq(frames, n + 1, Len(frames))
  /\ floor' = FloorOver(SubSeq(frames, 1, n))

\* A delta that does not fit makes the tab start over from a new snapshot.
Deliver ==
  /\ open /\ cursor < Latest
  /\ Remember(cursor + 1)
  /\ LET r == cursor + 1
         known == page.scope # scope \/ r <= page.revision
     IN /\ page' = IF ~known /\ Fits(page, r) THEN Patched(page, r) ELSE page
        /\ cursor' = IF known \/ Fits(page, r) THEN r ELSE None
        /\ open' = (known \/ Fits(page, r))
  /\ UNCHANGED <<serverVars, viewVars, polls, drops>>

Disconnect ==
  /\ open /\ drops < MaxDrops /\ drops' = drops + 1
  /\ open' = FALSE
  /\ UNCHANGED <<serverVars, viewVars, page, buffer, floor, polls, cursor>>

\* A reset frame: the cursor is taken from a new snapshot.
ResetStream ==
  /\ open /\ drops < MaxDrops /\ drops' = drops + 1
  /\ open' = FALSE /\ cursor' = None
  /\ UNCHANGED <<serverVars, viewVars, page, buffer, floor, polls>>

\* setProjectionScope, after the stream of the old page was aborted.
ChangePage(s) ==
  /\ s # scope /\ epoch < MaxEpochs
  /\ scope' = s /\ epoch' = epoch + 1
  /\ buffer' = <<>> /\ floor' = 0
  /\ cursor' = None /\ open' = FALSE
  /\ UNCHANGED <<serverVars, page, polls, drops>>

Answer == \E p \in polls : AnswerPoll(p)
Finish == \E p \in polls : FinishPoll(p)

Next ==
  \/ Publish \/ CatchUp
  \/ StartPoll \/ Answer \/ Finish
  \/ OpenStream \/ Deliver \/ Disconnect \/ ResetStream
  \/ \E s \in Scopes : ChangePage(s)

\* Processes catch up and answer; the tab polls without a cursor, and again and
\* again by a timer.
Fairness ==
  /\ WF_vars(CatchUp) /\ WF_vars(StartPoll) /\ WF_vars(Answer) /\ WF_vars(Finish)
  /\ WF_vars(OpenStream) /\ WF_vars(Deliver)
Spec == Init /\ [][Next]_vars
LiveSpec == Spec /\ Fairness

-----------------------------------------------------------------------------
(* Properties.                                                              *)

\* Every row is shown as it was at the revision the page names, or at the later
\* one it was merged at: answers that step back, buffered deltas and rows kept
\* from before leave no row older than its page, and none that was removed by
\* then.  And while the tab streams, its page is the one asked for and holds
\* every frame that the buffer has dropped.
PageConsistent ==
  /\ page # None => \A row \in Rows :
       LET shown == page.rows[row] IN
       IF shown = None THEN Written(row, page.revision) = None
       ELSE shown.value = Written(row, Max({page.revision, shown.stamp}))
  /\ cursor # None => page.scope = scope /\ page.revision >= floor

\* In the end the tab shows the latest revision of the page asked for.
PageCatchesUp == []<>(page # None /\ page.scope = scope /\ page.revision = Latest)

=============================================================================
