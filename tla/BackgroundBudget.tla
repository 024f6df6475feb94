-------------------------- MODULE BackgroundBudget --------------------------
(***************************************************************************)
(* The same-host admission queue of cold collectors and projections:       *)
(* server-py/app/resource_budget.py, one lane (each lane is a separate     *)
(* directory with its own permit).  A job registers a ticket file named by *)
(* a monotonic timestamp, polls for the permit, scans the queue directory  *)
(* while it holds the permit, is admitted when its own ticket is the head, *)
(* runs a turn that starts blocking threads, and closes.                   *)
(*                                                                         *)
(* A flock is released by the kernel when its owner dies, so a lock is not *)
(* state of its own: a ticket is locked exactly while its owner is past    *)
(* the flock call of register(), the permit exactly while `permit` names   *)
(* its holder.                                                             *)
(***************************************************************************)
EXTENDS Integers, FiniteSets, TLC

CONSTANTS
  Jobs,               \* loops that call background_turn on this lane
  MaintenanceJobs,    \* those that pass maintenance=True
  PriorityJobs,       \* those that pass priority=True
  Idents,             \* ticket names; one is reused once nothing holds it
  None,               \* no ticket, no holder
  MaxPriorityStreak,  \* MAX_PRIORITY_STREAK
  MaxIo,              \* bound: blocking threads of one turn
  MaxFaults           \* bound: crashes, cancelled waits and admission errors

ASSUME BudgetAssumption ==
  /\ MaintenanceJobs \subseteq Jobs /\ PriorityJobs \subseteq Jobs
  /\ None \notin Jobs /\ None \notin Idents
  /\ MaxPriorityStreak \in Nat /\ MaxIo \in Nat /\ MaxFaults \in Nat

VARIABLES
  phase,      \* where each job is in background_turn
  ticket,     \* the ident of each job's lease
  file,       \* what the queue directory holds under each ident
  older,      \* older[x]: idents in use with a smaller timestamp than x
  permit,     \* the holder of permit.lock
  streak,     \* admission-state.json; Corrupt when it cannot be parsed
  scan,       \* the permit holder's pass over the queue directory
  pendingIo,  \* _Lease.pending_io: threads of the turn still running
  faults,     \* faults injected so far
  bystanders, \* history: tickets that waited when the scanner took the permit
  passed      \* history: priority admissions a ticket saw since the last other one

vars == <<phase, ticket, file, older, permit, streak, scan, pendingIo, faults,
          bystanders, passed>>

Corrupt == -1
Phases == {"idle", "stamped", "opened", "locked", "queued", "scanning",
           "recorded", "running", "closing"}
Entry == [ident : Idents, kind : {"pending", "ticket"}]

\* The lease's ticket file is published and its owner waits for a turn.
Waiting(j) == phase[j] \in {"queued", "scanning", "recorded"}

OwnerOf(x) == {j \in Jobs : ticket[j] = x}
\* flock(LOCK_EX | LOCK_NB) on the file fails: a live owner holds the lock.
Alive(x) == \E j \in OwnerOf(x) : phase[j] \notin {"stamped", "opened"}
InUse == {x \in Idents : file[x] # "absent" \/ OwnerOf(x) # {}}
\* Tickets `_head` counts: all of them, or under pressure only maintenance.
Eligible(x, limited) == limited => \E j \in OwnerOf(x) : j \in MaintenanceJobs
IsPriority(x) == \E j \in OwnerOf(x) : j \in PriorityJobs

\* Free an ident: nothing is older or younger than a name nobody holds.
Forget(x) == older' = [y \in Idents |-> IF y = x THEN {} ELSE older[y] \ {x}]

ScanState == [limited : BOOLEAN, rest : SUBSET Entry,
              priorityHead : Idents \cup {None}, coldHead : Idents \cup {None}]
NoScan == [limited |-> FALSE, rest |-> {}, priorityHead |-> None, coldHead |-> None]

TypeOK ==
  /\ phase \in [Jobs -> Phases]
  /\ ticket \in [Jobs -> Idents \cup {None}]
  /\ file \in [Idents -> {"absent", "pending", "ticket"}]
  /\ older \in [Idents -> SUBSET Idents]
  /\ permit \in Jobs \cup {None}
  /\ streak \in 0..MaxPriorityStreak \cup {Corrupt}
  /\ scan \in ScanState
  /\ pendingIo \in [Jobs -> 0..MaxIo]
  /\ faults \in 0..MaxFaults
  /\ bystanders \in SUBSET Idents
  /\ passed \in [Idents -> Nat]

Init ==
  /\ phase = [j \in Jobs |-> "idle"]
  /\ ticket = [j \in Jobs |-> None]
  /\ file = [x \in Idents |-> "absent"]
  /\ older = [x \in Idents |-> {}]
  /\ permit = None
  /\ streak = 0
  /\ scan = NoScan
  /\ pendingIo = [j \in Jobs |-> 0]
  /\ faults = 0
  /\ bystanders = {}
  /\ passed = [x \in Idents |-> 0]

-----------------------------------------------------------------------------
(* register(): name, create, lock, publish.  The scanner of another process *)
(* may run between any two of these steps.                                  *)

\* `ident` is read from the clock before the file exists.
Stamp(j) ==
  /\ phase[j] = "idle"
  /\ \E x \in Idents :
       /\ x \notin InUse
       /\ \A e \in scan.rest : e.ident # x
       /\ ticket' = [ticket EXCEPT ![j] = x]
       /\ older' = [older EXCEPT ![x] = InUse]
       /\ passed' = [passed EXCEPT ![x] = 0]
  /\ phase' = [phase EXCEPT ![j] = "stamped"]
  /\ UNCHANGED <<file, permit, streak, scan, pendingIo, faults, bystanders>>

\* os.open(pending_path, O_CREAT | O_EXCL): visible, not yet locked.
OpenPending(j) ==
  /\ phase[j] = "stamped"
  /\ file' = [file EXCEPT ![ticket[j]] = "pending"]
  /\ phase' = [phase EXCEPT ![j] = "opened"]
  /\ UNCHANGED <<ticket, older, permit, streak, scan, pendingIo, faults, bystanders, passed>>

LockPending(j) ==
  /\ phase[j] = "opened"
  /\ phase' = [phase EXCEPT ![j] = "locked"]
  /\ UNCHANGED <<ticket, file, older, permit, streak, scan, pendingIo, faults, bystanders, passed>>

\* os.replace(pending_path, ticket_path); raises when the pending file is gone.
Publish(j) ==
  /\ phase[j] = "locked"
  /\ \/ /\ file[ticket[j]] = "pending"
        /\ file' = [file EXCEPT ![ticket[j]] = "ticket"]
        /\ phase' = [phase EXCEPT ![j] = "queued"]
     \/ /\ file[ticket[j]] = "absent"
        /\ phase' = [phase EXCEPT ![j] = "closing"]
        /\ UNCHANGED file
  /\ UNCHANGED <<ticket, older, permit, streak, scan, pendingIo, faults, bystanders, passed>>

-----------------------------------------------------------------------------
(* try_admit(): the permit covers the scan and the streak update.           *)

\* A poll that finds no pressure (or is maintenance) and the permit free.  A
\* poll that finds either changes nothing.  The listing is taken here.
AcquirePermit(j, limited) ==
  /\ phase[j] = "queued"
  /\ limited => j \in MaintenanceJobs
  /\ permit = None
  /\ permit' = j
  /\ phase' = [phase EXCEPT ![j] = "scanning"]
  /\ scan' = [NoScan EXCEPT
       !.limited = limited,
       !.rest = {e \in Entry : file[e.ident] = e.kind}]
  /\ bystanders' = {x \in Idents : /\ \E k \in OwnerOf(x) : k # j /\ Waiting(k)
                                   /\ Eligible(x, limited)}
  /\ UNCHANGED <<ticket, file, older, streak, pendingIo, faults, passed>>

\* The next listed name in timestamp order; a name nobody holds has no place.
NextListed(e) == e \in scan.rest /\ \A f \in scan.rest : f.ident \notin older[e.ident]

\* Mutant: the last eligible ticket of a class becomes its head.
MarkLastHead(s, x) ==
  IF ~Eligible(x, s.limited) THEN s
  ELSE [s EXCEPT ![IF IsPriority(x) THEN "priorityHead" ELSE "coldHead"] = x]

\* The first eligible ticket of its class becomes that class's head.
MarkHead(s, x) ==
  LET field == IF IsPriority(x) THEN "priorityHead" ELSE "coldHead"
  IN IF Eligible(x, s.limited) /\ s[field] = None THEN [s EXCEPT ![field] = x] ELSE s

\* Renamed or removed since the listing, or a pending file that is locked.
SkipEntry(j) ==
  /\ phase[j] = "scanning"
  /\ \E e \in Entry :
       /\ NextListed(e)
       /\ file[e.ident] # e.kind \/ (e.kind = "pending" /\ Alive(e.ident))
       /\ scan' = [scan EXCEPT !.rest = @ \ {e}]
  /\ UNCHANGED <<phase, ticket, file, older, permit, streak, pendingIo, faults, bystanders, passed>>

\* A published ticket whose lock is held, this lease's own one included.
NoteTicket(j) ==
  /\ phase[j] = "scanning"
  /\ \E e \in Entry :
       /\ NextListed(e)
       /\ e.kind = "ticket" /\ file[e.ident] = "ticket" /\ Alive(e.ident)
       /\ scan' = MarkHead([scan EXCEPT !.rest = @ \ {e}], e.ident)
  /\ UNCHANGED <<phase, ticket, file, older, permit, streak, pendingIo, faults, bystanders, passed>>

\* Mutant: the scanner unlinks a file without trying its lock.
ReapUnlocked(j) ==
  /\ phase[j] = "scanning"
  /\ \E e \in Entry :
       /\ NextListed(e)
       /\ e.ident # ticket[j] /\ file[e.ident] = e.kind
       /\ scan' = [scan EXCEPT !.rest = @ \ {e}]
       /\ file' = [file EXCEPT ![e.ident] = "absent"]
       /\ IF OwnerOf(e.ident) = {} THEN Forget(e.ident) ELSE UNCHANGED older
  /\ UNCHANGED <<phase, ticket, permit, streak, pendingIo, faults, bystanders, passed>>

\* A file nobody has locked: its owner died - or has not locked it yet.
ReapEntry(j) ==
  /\ phase[j] = "scanning"
  /\ \E e \in Entry :
       /\ NextListed(e)
       /\ file[e.ident] = e.kind /\ ~Alive(e.ident)
       /\ scan' = [scan EXCEPT !.rest = @ \ {e}]
       /\ file' = [file EXCEPT ![e.ident] = "absent"]
       /\ IF OwnerOf(e.ident) = {} THEN Forget(e.ident) ELSE UNCHANGED older
  /\ UNCHANGED <<phase, ticket, permit, streak, pendingIo, faults, bystanders, passed>>

\* _priority_streak(): what cannot be parsed gives cold work the next turn.
PriorityStreak == IF streak \in 0..MaxPriorityStreak THEN streak ELSE MaxPriorityStreak

\* Mutant: a priority ticket is always the head.
PriorityHeadFirst ==
  IF scan.priorityHead # None THEN scan.priorityHead ELSE scan.coldHead

\* The ticket `_head` returns once every entry has been examined.
Head ==
  IF scan.priorityHead # None /\ (scan.coldHead = None \/ PriorityStreak < MaxPriorityStreak)
  THEN scan.priorityHead
  ELSE IF scan.coldHead # None THEN scan.coldHead ELSE scan.priorityHead

\* Another ticket is the head: unlock and go on polling.
Refuse(j) ==
  /\ phase[j] = "scanning" /\ scan.rest = {}
  /\ Head # ticket[j]
  /\ phase' = [phase EXCEPT ![j] = "queued"]
  /\ permit' = None /\ scan' = NoScan /\ bystanders' = {}
  /\ UNCHANGED <<ticket, file, older, streak, pendingIo, faults, passed>>

\* Mutant: the streak is not capped.
RecordUncapped(j) ==
  /\ phase[j] = "scanning" /\ scan.rest = {}
  /\ Head = ticket[j]
  /\ streak' = IF j \in PriorityJobs THEN PriorityStreak + 1 ELSE 0
  /\ phase' = [phase EXCEPT ![j] = "recorded"]
  /\ scan' = NoScan
  /\ UNCHANGED <<ticket, file, older, permit, pendingIo, faults, bystanders, passed>>

\* _record_admission(): an unchanged value is not written.
RecordAdmission(j) ==
  /\ phase[j] = "scanning" /\ scan.rest = {}
  /\ Head = ticket[j]
  /\ LET next == IF j \in PriorityJobs
                 THEN IF PriorityStreak < MaxPriorityStreak
                      THEN PriorityStreak + 1 ELSE MaxPriorityStreak
                 ELSE 0
     IN streak' = IF next = PriorityStreak THEN streak ELSE next
  /\ phase' = [phase EXCEPT ![j] = "recorded"]
  /\ scan' = NoScan
  /\ UNCHANGED <<ticket, file, older, permit, pendingIo, faults, bystanders, passed>>

\* Bound of the history count: one above what BoundedBypass can allow.
PassLimit == MaxPriorityStreak + MaxPriorityStreak * MaxFaults + 1

\* The ticket is unlinked and the turn starts; the permit stays locked.
Admit(j) ==
  /\ phase[j] = "recorded"
  /\ file' = [file EXCEPT ![ticket[j]] = "absent"]
  /\ phase' = [phase EXCEPT ![j] = "running"]
  /\ passed' = [x \in Idents |->
       IF j \notin PriorityJobs THEN 0
       ELSE IF x \in bystanders /\ ~IsPriority(x) /\ passed[x] < PassLimit
            THEN passed[x] + 1 ELSE passed[x]]
  /\ bystanders' = {}
  /\ UNCHANGED <<ticket, older, permit, streak, scan, pendingIo, faults>>

-----------------------------------------------------------------------------
(* The admitted turn and its end.                                           *)

\* run_background_io: refused once the lease is closing.
StartIo(j) ==
  /\ phase[j] = "running"
  /\ pendingIo[j] < MaxIo
  /\ pendingIo' = [pendingIo EXCEPT ![j] = @ + 1]
  /\ UNCHANGED <<phase, ticket, file, older, permit, streak, scan, faults, bystanders, passed>>

IoDone(j) ==
  /\ pendingIo[j] > 0
  /\ pendingIo' = [pendingIo EXCEPT ![j] = @ - 1]
  /\ UNCHANGED <<phase, ticket, file, older, permit, streak, scan, faults, bystanders, passed>>

\* The body returns, raises, is cancelled or exceeds max_run_s; its threads may
\* still be running.
EndTurn(j) ==
  /\ phase[j] = "running"
  /\ phase' = [phase EXCEPT ![j] = "closing"]
  /\ UNCHANGED <<ticket, file, older, permit, streak, scan, pendingIo, faults, bystanders, passed>>

\* Mutant: close() does not wait for the turn's threads.
CloseAtOnce(j) ==
  /\ phase[j] = "closing"
  /\ file' = [file EXCEPT ![ticket[j]] = "absent"]
  /\ Forget(ticket[j])
  /\ ticket' = [ticket EXCEPT ![j] = None]
  /\ permit' = IF permit = j THEN None ELSE permit
  /\ bystanders' = bystanders \ {ticket[j]}
  /\ phase' = [phase EXCEPT ![j] = "idle"]
  /\ UNCHANGED <<streak, scan, pendingIo, faults, passed>>

\* _settle_pending_io, then close(): files first, then both locks.
Close(j) ==
  /\ phase[j] = "closing"
  /\ pendingIo[j] = 0
  /\ file' = [file EXCEPT ![ticket[j]] = "absent"]
  /\ Forget(ticket[j])
  /\ ticket' = [ticket EXCEPT ![j] = None]
  /\ permit' = IF permit = j THEN None ELSE permit
  /\ bystanders' = bystanders \ {ticket[j]}
  /\ phase' = [phase EXCEPT ![j] = "idle"]
  /\ UNCHANGED <<streak, scan, pendingIo, faults, passed>>

-----------------------------------------------------------------------------
(* Faults.                                                                  *)

Fault == faults < MaxFaults /\ faults' = faults + 1

\* The wait is cancelled (shutdown) or on_wait raises.
Withdraw(j) ==
  /\ Fault
  /\ phase[j] = "queued"
  /\ phase' = [phase EXCEPT ![j] = "closing"]
  /\ UNCHANGED <<ticket, file, older, permit, streak, scan, pendingIo, bystanders, passed>>

\* try_admit raises (a full disk, an unreadable directory) and unlocks.
AdmissionError(j) ==
  /\ Fault
  /\ phase[j] \in {"scanning", "recorded"}
  /\ phase' = [phase EXCEPT ![j] = "closing"]
  /\ permit' = None /\ scan' = NoScan /\ bystanders' = {}
  /\ UNCHANGED <<ticket, file, older, streak, pendingIo, passed>>

\* The job's process dies: its threads end and the kernel drops its locks; the
\* file it had created stays.
Crash(j) ==
  /\ Fault
  /\ phase[j] # "idle"
  /\ phase' = [phase EXCEPT ![j] = "idle"]
  /\ ticket' = [ticket EXCEPT ![j] = None]
  /\ pendingIo' = [pendingIo EXCEPT ![j] = 0]
  /\ permit' = IF permit = j THEN None ELSE permit
  /\ scan' = IF permit = j THEN NoScan ELSE scan
  /\ bystanders' = IF permit = j THEN {} ELSE bystanders \ {ticket[j]}
  /\ IF file[ticket[j]] = "absent" THEN Forget(ticket[j]) ELSE UNCHANGED older
  /\ UNCHANGED <<file, streak, passed>>

\* A power loss or an operator leaves an unreadable admission-state.json.
CorruptState ==
  /\ Fault
  /\ streak' = Corrupt
  /\ UNCHANGED <<phase, ticket, file, older, permit, scan, pendingIo, bystanders, passed>>

-----------------------------------------------------------------------------
Register(j) == Stamp(j) \/ OpenPending(j) \/ LockPending(j) \/ Publish(j)
Scan(j) == SkipEntry(j) \/ NoteTicket(j) \/ ReapEntry(j)
Decide(j) == Refuse(j) \/ RecordAdmission(j) \/ Admit(j)

Next ==
  \/ \E j \in Jobs :
       \/ Register(j)
       \/ \E limited \in BOOLEAN : AcquirePermit(j, limited)
       \/ Scan(j) \/ Decide(j)
       \/ StartIo(j) \/ IoDone(j) \/ EndTurn(j) \/ Close(j)
       \/ Withdraw(j) \/ AdmissionError(j) \/ Crash(j)
  \/ CorruptState

Spec == Init /\ [][Next]_vars

\* A live process finishes register(), a scan and close(); a turn ends within
\* max_run_s and its threads within their transport timeouts.  A waiter polls
\* every second for ever, so it meets the free permit, with the host not under
\* pressure, again and again: strong fairness.  Nothing makes a job start.
Fairness ==
  \A j \in Jobs :
    /\ WF_vars(OpenPending(j) \/ LockPending(j) \/ Publish(j))
    /\ SF_vars(AcquirePermit(j, FALSE))
    /\ WF_vars(Scan(j)) /\ WF_vars(Decide(j))
    /\ WF_vars(IoDone(j)) /\ WF_vars(EndTurn(j)) /\ WF_vars(Close(j))

LiveSpec == Spec /\ Fairness

-----------------------------------------------------------------------------
(* Properties.                                                              *)

\* A turn, and every thread it started, runs only under the permit: whatever
\* was cancelled, expired or crashed, two jobs' work never overlaps (the
\* purpose of closing / _settle_pending_io and of shielding _finish_io).
WorkUnderPermit ==
  \A j \in Jobs : phase[j] = "running" \/ pendingIo[j] > 0 => permit = j

\* Publication passes waiting cold work MAX_PRIORITY_STREAK times between two
\* cold turns, counted independently of the stored streak and across processes.
\* A fault between the record of a cold admission and its turn has already
\* reset the streak, so each fault can cost one more run of priority turns.
BoundedBypass ==
  \A j \in Jobs \ PriorityJobs :
    Waiting(j) => passed[ticket[j]] <= MaxPriorityStreak + MaxPriorityStreak * faults

\* Each class is FIFO: a job about to be admitted is older than every ticket
\* of its class that has waited since the permit was taken.
OldestOfClassFirst ==
  \A j \in Jobs : phase[j] = "recorded" =>
    \A x \in bystanders :
      (\E k \in OwnerOf(x) : Waiting(k)) /\ IsPriority(x) = (j \in PriorityJobs)
        => x \notin older[ticket[j]]

\* Turns go round: cold work is passed a bounded number of times, and each class
\* is served in the order in which its tickets became visible.
FairTurns == BoundedBypass /\ OldestOfClassFirst

\* The scan never removes the ticket of a live waiter.
LiveTicketKept ==
  \A j \in Jobs : Waiting(j) => file[ticket[j]] = "ticket"

\* Every waiter leaves the queue, by a turn or by its own cancellation, in the
\* face of an endless stream of priority turns and of crashed predecessors.
WaiterServed == \A j \in Jobs : Waiting(j) ~> ~Waiting(j)

\* The comment in register(): "A competing process cannot clean up a
\* half-published request."
HalfPublishedKept ==
  \A j \in Jobs : phase[j] \in {"opened", "locked"} => file[ticket[j]] = "pending"

------------------------------------------------------------------------------
\* For the runs: ticket names are interchangeable.
Symmetry == Permutations(Idents)
=============================================================================
