--------------------------- MODULE SocialMentions ----------------------------
(*************************************************************************)
(* Mentions of assets by one listed account of X (product_social.py).    *)
(* The worker polls: it claims the account's timeline, or a post whose   *)
(* last check is a day old, under a lease and with its cost charged to   *)
(* the day's budget, reads one page, and commits facts and checkpoint    *)
(* together.  The API looks up a post on request, in steps of its own.   *)
(*                                                                       *)
(* A post is its number; the timeline lists the newest first, below a    *)
(* page token and above since_id.  What a post mentions and at which     *)
(* price is left out: a mention is that the facts of the post are stored.*)
(*************************************************************************)
EXTENDS Integers, FiniteSets, FiniteSetsExt

CONSTANTS
  None,
  PageSize,    \* posts of a page (5 in the code)
  PageCost,    \* units charged for a page (5); a single post costs one
  PollLimit,   \* units a day for polling (min of 20 and the limit)
  DailyLimit,  \* units a day
  Weather,     \* of "late lookup": a lookup may store what it read after a
               \* check found the post deleted
  MaxPosts,    \* bound: posts
  MaxDays,     \* bound: days
  MaxFaults    \* bound: failures and crashes

VARIABLES
  published, \* at X: posts 1..published were written
  gone,      \* at X: deleted posts
  cursor,    \* product_x_cursors: since, token, pending, lease, due
  stale,     \* posts whose last read is a day old
  blocked,   \* product_x_poll_control: X refused, until the backoff is over
  reads,     \* product_x_reads: post -> "read" or "deleted"
  mentioned, \* product_mentions: posts with stored facts
  active,    \* the account is listed
  poll,      \* the poll's read, under the process's lock, or None
  lookup,    \* the API's read, or None
  day, used, \* product_x_budget
  spent,     \* history: units of reads made today
  faults

vars == <<published, gone, cursor, stale, blocked, reads, mentioned, active, poll, lookup,
          day, used, spent, faults>>

Posts == 1..MaxPosts

TypeOK ==
  /\ published \in 0..MaxPosts /\ gone \subseteq Posts /\ mentioned \subseteq Posts
  /\ cursor.since \in 0..MaxPosts /\ cursor.pending \in 0..MaxPosts
  /\ cursor.token \in Posts \cup {None} /\ cursor.lease \in {"free", "held"}
  /\ cursor.due \in BOOLEAN
  /\ stale \subseteq Posts /\ blocked \in BOOLEAN /\ DOMAIN reads \subseteq Posts
  /\ active \in BOOLEAN /\ day \in 1..MaxDays /\ used \in 0..DailyLimit
  /\ poll # None => poll.kind \in {"timeline", "delete"} /\ poll.pc \in {"ask", "derived"}
  /\ lookup # None => lookup.post \in Posts /\ lookup.pc \in {"ask", "found", "marked"}

Init ==
  /\ published = 0 /\ gone = {}
  /\ cursor = [since |-> 0, token |-> None, pending |-> 0, lease |-> "free", due |-> TRUE]
  /\ stale = {} /\ blocked = FALSE /\ reads = <<>> /\ mentioned = {} /\ active = TRUE
  /\ poll = None /\ lookup = None /\ day = 1 /\ used = 0 /\ spent = 0 /\ faults = 0

Fault == faults < MaxFaults /\ faults' = faults + 1
Marked(S, state) == [p \in DOMAIN reads \cup S |-> IF p \in S THEN state ELSE reads[p]]

------------------------------------------------------------------------------
(* X, the clock and the operator                                          *)

WritePost ==
  /\ published < MaxPosts /\ published' = published + 1
  /\ UNCHANGED <<gone, cursor, stale, blocked, reads, mentioned, active, poll, lookup, day, used, spent, faults>>

DeletePost(p) ==
  /\ p <= published /\ p \notin gone /\ gone' = gone \cup {p}
  /\ UNCHANGED <<published, cursor, stale, blocked, reads, mentioned, active, poll, lookup, day, used, spent, faults>>

\* A day passes, and with it an hour's cadence, a backoff, and the lease of a
\* process that ended: everything read before is due again.
TimePasses ==
  /\ poll = None /\ lookup = None
  /\ stale' = DOMAIN reads /\ blocked' = FALSE
  /\ cursor' = [cursor EXCEPT !.lease = "free", !.due = TRUE]
  /\ <<stale', blocked', cursor'>> # <<stale, blocked, cursor>>
  /\ UNCHANGED <<published, gone, reads, mentioned, active, poll, lookup, day, used, spent, faults>>

\* Reads that are under way were charged to the old day.
NextDay ==
  /\ day < MaxDays /\ poll = None /\ lookup = None
  /\ day' = day + 1 /\ used' = 0 /\ spent' = 0
  /\ UNCHANGED <<published, gone, cursor, stale, blocked, reads, mentioned, active, poll, lookup, faults>>

\* save_account.
Toggle ==
  /\ Fault /\ active' = ~active
  /\ UNCHANGED <<published, gone, cursor, stale, blocked, reads, mentioned, poll, lookup, day, used, spent>>

------------------------------------------------------------------------------
(* The poll of the worker (one process, one read at a time)               *)

\* _poll_claim: lease and cost in one transaction.
ClaimTimeline ==
  /\ poll = None /\ ~blocked /\ active /\ cursor.due /\ cursor.lease = "free"
  /\ used + PageCost <= PollLimit
  /\ used' = used + PageCost
  /\ cursor' = [cursor EXCEPT !.lease = "held"]
  /\ poll' = [kind |-> "timeline", pc |-> "ask", since |-> cursor.since, token |-> cursor.token,
              pending |-> cursor.pending, page |-> {}, next |-> None]
  /\ UNCHANGED <<published, gone, stale, blocked, reads, mentioned, active, lookup, day, spent, faults>>

ClaimCheck(p) ==
  /\ poll = None /\ ~blocked /\ active /\ p \in stale
  /\ p \in DOMAIN reads /\ reads[p] = "read" /\ p \in mentioned
  /\ used + 1 <= PollLimit
  /\ used' = used + 1
  /\ poll' = [kind |-> "delete", pc |-> "ask", post |-> p, found |-> FALSE]
  /\ UNCHANGED <<published, gone, cursor, stale, blocked, reads, mentioned, active, lookup, day, spent, faults>>

Timeline(since, token) ==
  {p \in 1..published : p \notin gone /\ p > since /\ (token # None => p < token)}

Page(since, token) ==
  LET all == Timeline(since, token)
  IN {p \in all : Cardinality({q \in all : q > p}) < PageSize}

\* X answers; the prices are looked up before anything is stored.
ReadPage ==
  LET page == Page(poll.since, poll.token)
  IN /\ poll # None /\ poll.kind = "timeline" /\ poll.pc = "ask"
     /\ poll' = [poll EXCEPT !.pc = "derived", !.page = page,
                   !.next = IF Timeline(poll.since, poll.token) = page THEN None ELSE Min(page)]
     /\ spent' = spent + PageCost
     /\ UNCHANGED <<published, gone, cursor, stale, blocked, reads, mentioned, active, lookup, day, used, faults>>

ReadPost ==
  /\ poll # None /\ poll.kind = "delete" /\ poll.pc = "ask"
  /\ poll' = [poll EXCEPT !.pc = "derived", !.found = poll.post \notin gone]
  /\ spent' = spent + 1
  /\ UNCHANGED <<published, gone, cursor, stale, blocked, reads, mentioned, active, lookup, day, used, faults>>

Newest == Max({poll.since, poll.pending} \cup poll.page)

AdvanceEarly == [since |-> Newest, token |-> poll.next,
                 pending |-> IF poll.next = None THEN 0 ELSE Newest, lease |-> "free",
                 due |-> poll.next # None]
\* since_id moves only with the last page; until then the newest is pending.
Advance == [since |-> IF poll.next = None THEN Newest ELSE poll.since, token |-> poll.next,
            pending |-> IF poll.next = None THEN 0 ELSE Newest, lease |-> "free",
            due |-> poll.next # None]

Held == cursor.lease = "held" /\ active

\* _poll_commit: the facts of the page and the checkpoint, if the lease still
\* holds and the account is still listed; else the lease runs out.
CommitPage ==
  /\ poll # None /\ poll.kind = "timeline" /\ poll.pc = "derived"
  /\ poll' = None
  /\ IF Held
     THEN /\ reads' = Marked(poll.page, "read")
          /\ mentioned' = mentioned \cup poll.page
          /\ cursor' = Advance /\ stale' = stale \ poll.page
     ELSE UNCHANGED <<reads, mentioned, cursor, stale>>
  /\ UNCHANGED <<published, gone, blocked, active, lookup, day, used, spent, faults>>

CommitCheck ==
  LET p == poll.post
  IN /\ poll # None /\ poll.kind = "delete" /\ poll.pc = "derived"
     /\ poll' = None
     /\ IF active
        THEN /\ reads' = Marked({p}, IF poll.found THEN "read" ELSE "deleted")
             /\ mentioned' = IF poll.found THEN mentioned \cup {p} ELSE mentioned \ {p}
             /\ stale' = stale \ {p}
        ELSE UNCHANGED <<reads, mentioned, stale>>
     /\ UNCHANGED <<published, gone, cursor, blocked, active, lookup, day, used, spent, faults>>

\* Nothing is read before the lease, or the cadence, has passed.
Later == IF poll.kind = "timeline"
         THEN cursor' = [cursor EXCEPT !.due = FALSE, !.lease = "free"] /\ stale' = stale
         ELSE stale' = stale \ {poll.post} /\ cursor' = cursor

\* _poll_release: the page is not advanced and the units are not given back;
\* a refusal (401, 403, 429) holds all polling.
ReadFails(refused) ==
  /\ poll # None /\ Fault
  /\ poll' = None /\ Later /\ blocked' = refused
  /\ UNCHANGED <<published, gone, reads, mentioned, active, lookup, day, used, spent>>

WorkerCrashes ==
  /\ poll # None /\ Fault
  /\ poll' = None
  /\ stale' = IF poll.kind = "timeline" THEN stale ELSE stale \ {poll.post}
  /\ UNCHANGED <<published, gone, cursor, blocked, reads, mentioned, active, lookup, day, used, spent>>

------------------------------------------------------------------------------
(* lookup of the API, another process: its own lock, its own steps         *)

AskPost(p) ==
  /\ lookup = None /\ active /\ p \in 1..published
  /\ p \in DOMAIN reads => p \in stale
  /\ used < DailyLimit /\ used' = used + 1
  /\ lookup' = [post |-> p, pc |-> "ask"]
  /\ UNCHANGED <<published, gone, cursor, stale, blocked, reads, mentioned, active, poll, day, spent, faults>>

\* A deleted post loses its facts, autocommitted one after the other.
LookUp ==
  LET p == lookup.post
  IN /\ lookup # None /\ lookup.pc = "ask"
     /\ spent' = spent + 1
     /\ IF p \in gone
        THEN /\ mentioned' = mentioned \ {p} /\ reads' = Marked({p}, "deleted") /\ lookup' = None
             /\ stale' = stale \ {p}
        ELSE lookup' = [lookup EXCEPT !.pc = "found"] /\ UNCHANGED <<reads, mentioned, stale>>
     /\ UNCHANGED <<published, gone, cursor, blocked, active, poll, day, used, faults>>

\* "late lookup" aside, no check finds the post deleted after the lookup read it.
Undisturbed ==
  "late lookup" \notin Weather =>
    /\ ~(poll # None /\ poll.kind = "delete" /\ poll.post = lookup.post)
    /\ lookup.post \in DOMAIN reads => reads[lookup.post] # "deleted"

MarkRead ==
  /\ lookup # None /\ lookup.pc = "found" /\ Undisturbed
  /\ reads' = Marked({lookup.post}, "read") /\ stale' = stale \ {lookup.post}
  /\ lookup' = [lookup EXCEPT !.pc = "marked"]
  /\ UNCHANGED <<published, gone, cursor, blocked, mentioned, active, poll, day, used, spent, faults>>

StoreMention ==
  /\ lookup # None /\ lookup.pc = "marked" /\ Undisturbed
  /\ mentioned' = mentioned \cup {lookup.post}
  /\ lookup' = None
  /\ UNCHANGED <<published, gone, cursor, stale, blocked, reads, active, poll, day, used, spent, faults>>

\* The request fails, or the process ends.
LookupFails ==
  /\ lookup # None /\ Fault
  /\ lookup' = None
  /\ UNCHANGED <<published, gone, cursor, stale, blocked, reads, mentioned, active, poll, day, used, spent>>

Next ==
  \/ WritePost \/ \E p \in Posts : DeletePost(p)
  \/ TimePasses \/ NextDay \/ Toggle
  \/ ClaimTimeline \/ ReadPage \/ CommitPage
  \/ \E p \in Posts : ClaimCheck(p)
  \/ ReadPost \/ CommitCheck \/ \E refused \in BOOLEAN : ReadFails(refused)
  \/ WorkerCrashes
  \/ \E p \in Posts : AskPost(p)
  \/ LookUp \/ MarkRead \/ StoreMention \/ LookupFails

Spec == Init /\ [][Next]_vars

------------------------------------------------------------------------------
\* Every post up to the checkpoint, and every page above the token while one
\* is read, has its facts stored unless it was deleted; stored facts are those
\* of a post that later checks look at; and no read is made that the day's
\* budget was not charged for ("Facts and the next-page checkpoint commit
\* together", "Never refund ambiguous external reads or advance a failed page").
MentionsKept ==
  /\ \A p \in 1..published \ gone :
       p <= cursor.since \/ (cursor.token # None /\ cursor.token <= p /\ p <= cursor.pending)
         => p \in mentioned
  /\ \A p \in mentioned : p \in DOMAIN reads /\ reads[p] = "read"
  /\ spent <= used
=============================================================================
