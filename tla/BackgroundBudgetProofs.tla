----------------------- MODULE BackgroundBudgetProofs -----------------------
(***************************************************************************)
(* Proofs about BackgroundBudget for every set of jobs, ticket names and   *)
(* bounds: type correctness, work only under the permit, that no live      *)
(* waiter's ticket is removed, and that turns are fair.                    *)
(***************************************************************************)
EXTENDS BackgroundBudget, TLAPS

\* What one job may do in a step, without the quantifiers of Next.
JobStep(j) ==
  \/ Stamp(j) \/ OpenPending(j) \/ LockPending(j) \/ Publish(j)
  \/ AcquirePermit(j, TRUE) \/ AcquirePermit(j, FALSE)
  \/ SkipEntry(j) \/ NoteTicket(j) \/ ReapEntry(j)
  \/ Refuse(j) \/ RecordAdmission(j) \/ Admit(j)
  \/ StartIo(j) \/ IoDone(j) \/ EndTurn(j) \/ Close(j)
  \/ Withdraw(j) \/ AdmissionError(j) \/ Crash(j)

\* A lease has a ticket name exactly while background_turn is active, and no
\* two leases have the same one.
TicketInv ==
  /\ \A j \in Jobs : ticket[j] = None <=> phase[j] = "idle"
  /\ \A i, j \in Jobs : ticket[i] = ticket[j] /\ ticket[i] # None => i = j

\* The permit's holder is admitting, running or closing; work is the holder's.
PermitInv ==
  /\ \A j \in Jobs : phase[j] \in {"scanning", "recorded", "running"} => permit = j
  /\ \A j \in Jobs : permit = j =>
       phase[j] \in {"scanning", "recorded", "running", "closing"}
  /\ \A j \in Jobs : pendingIo[j] > 0 => permit = j /\ phase[j] \in {"running", "closing"}

\* Fairness is about what waits when the permit is taken: it stays where it is
\* or withdraws until the permit is released, and its ticket is not given anew.
BystanderInv ==
  /\ \A k \in Jobs : ticket[k] \in bystanders => phase[k] \in {"queued", "closing"}
  /\ \A x \in bystanders : OwnerOf(x) # {}

WaitingBystander(k) == Waiting(k) /\ ticket[k] \in bystanders
HeadOf(k) == IF k \in PriorityJobs THEN scan.priorityHead ELSE scan.coldHead

\* The scan so far: a waiting bystander is still listed or its class has a head,
\* and the scanner's own ticket is the head of its class only if it is older.
ScanInv == \A j \in Jobs : phase[j] = "scanning" =>
  /\ scan.priorityHead = ticket[j] => j \in PriorityJobs
  /\ scan.coldHead = ticket[j] => j \notin PriorityJobs
  /\ \A k \in Jobs : WaitingBystander(k) =>
       /\ scan.limited => k \in MaintenanceJobs
       /\ [ident |-> ticket[k], kind |-> "ticket"] \in scan.rest \/ HeadOf(k) # None
       /\ HeadOf(k) = ticket[j] => ticket[k] \notin older[ticket[j]]

OrderInv == \A j, k \in Jobs :
  phase[j] = "recorded" /\ WaitingBystander(k) /\ (k \in PriorityJobs <=> j \in PriorityJobs)
    => ticket[k] \notin older[ticket[j]]

\* What faults have added to the bound.
Allowance == MaxPriorityStreak * faults
\* A waiting cold job was passed at most as often as the streak says, and once
\* less while a recorded priority turn has not begun; a recorded cold turn has
\* reset the streak before it begins.
BypassInv == \A k \in Jobs \ PriorityJobs : Waiting(k) =>
  /\ passed[ticket[k]] <= MaxPriorityStreak + Allowance
  /\ \/ \E j \in Jobs \ PriorityJobs : phase[j] = "recorded"
     \/ /\ passed[ticket[k]] <= PriorityStreak + Allowance
        /\ \A j \in PriorityJobs : phase[j] = "recorded" /\ ticket[k] \in bystanders
             => passed[ticket[k]] + 1 <= PriorityStreak + Allowance

\* No turn has passed a ticket that is not published yet.
NewTicketInv == \A k \in Jobs :
  phase[k] \in {"stamped", "opened", "locked"} => passed[ticket[k]] = 0

FairInv == BystanderInv /\ ScanInv /\ OrderInv /\ NewTicketInv /\ BypassInv

\* What the proof of FairInv takes from the theorems before it.
QueueInv == TypeOK /\ TicketInv /\ PermitInv /\ LiveTicketKept

\* A step is one job's, or the damage of the stored streak.
LEMMA NextCases ==
  ASSUME Next
  PROVE  (\E j \in Jobs : JobStep(j)) \/ CorruptState
BY DEF Next, JobStep, Register, Scan, Decide

\* The state values that are records are well typed.
LEMMA NoScanType == NoScan \in ScanState
BY DEF NoScan, ScanState

LEMMA InitType == Init => TypeOK
BY BudgetAssumption, NoScanType DEF Init, TypeOK, Phases

LEMMA MarkHeadType ==
  ASSUME TypeOK, NEW e \in Entry, NEW s,
         s \in ScanState
  PROVE  MarkHead(s, e.ident) \in ScanState
<1>1. e.ident \in Idents  BY DEF Entry
<1>2. [s EXCEPT !["priorityHead"] = e.ident] \in ScanState
  BY <1>1 DEF ScanState
<1>3. [s EXCEPT !["coldHead"] = e.ident] \in ScanState
  BY <1>1 DEF ScanState
<1> QED  BY <1>2, <1>3 DEF MarkHead

LEMMA StepType == TypeOK /\ TicketInv /\ [Next]_vars => TypeOK'
<1> SUFFICES ASSUME TypeOK, TicketInv, [Next]_vars PROVE TypeOK'
  OBVIOUS
<1> USE BudgetAssumption
<1>1. ASSUME NEW j \in Jobs, JobStep(j) PROVE TypeOK'
  <2> USE <1>1 DEF TypeOK, Phases, ScanState
  <2>1. CASE Stamp(j)
    BY <2>1 DEF Stamp, InUse
  <2>2. CASE OpenPending(j) \/ LockPending(j) \/ Publish(j)
    BY <2>2 DEF OpenPending, LockPending, Publish
  <2>3. ASSUME NEW limited \in BOOLEAN, AcquirePermit(j, limited) PROVE TypeOK'
    <3>1. scan' \in ScanState
      BY <2>3 DEF AcquirePermit, NoScan, ScanState
    <3> QED  BY <2>3, <3>1 DEF AcquirePermit
  <2>4. CASE SkipEntry(j)
    BY <2>4 DEF SkipEntry
  <2>5. CASE NoteTicket(j)
    <3>1. PICK e \in Entry :
             scan' = MarkHead([scan EXCEPT !.rest = @ \ {e}], e.ident)
      BY <2>5 DEF NoteTicket
    <3>2. [scan EXCEPT !.rest = @ \ {e}] \in ScanState
      OBVIOUS
    <3>3. scan' \in ScanState
      BY <3>1, <3>2, MarkHeadType
    <3> QED  BY <2>5, <3>3 DEF NoteTicket
  <2>6. CASE ReapEntry(j)
    <3>1. PICK e \in Entry :
             /\ scan' = [scan EXCEPT !.rest = @ \ {e}]
             /\ file' = [file EXCEPT ![e.ident] = "absent"]
             /\ Forget(e.ident) \/ UNCHANGED older
      BY <2>6 DEF ReapEntry
    <3>2. older' \in [Idents -> SUBSET Idents]
      BY <3>1 DEF Forget
    <3>3. [scan EXCEPT !.rest = @ \ {e}] \in ScanState
      OBVIOUS
    <3>4. file' \in [Idents -> {"absent", "pending", "ticket"}]
      BY <3>1 DEF Entry
    <3> HIDE DEF TypeOK
    <3> QED  BY <2>6, <3>1, <3>2, <3>3, <3>4 DEF ReapEntry, TypeOK
  <2>7. CASE Refuse(j) \/ AdmissionError(j)
    <3>1. scan' \in ScanState
      BY <2>7, NoScanType DEF Refuse, AdmissionError
    <3> QED  BY <2>7, <3>1 DEF Refuse, AdmissionError, Fault
  <2>8. CASE RecordAdmission(j)
    <3>1. streak' \in 0..MaxPriorityStreak \cup {Corrupt}
      BY <2>8 DEF RecordAdmission, PriorityStreak
    <3> QED  BY <2>8, <3>1 DEF RecordAdmission, NoScan
  <2>9. CASE Admit(j)
    <3>1. passed' \in [Idents -> Nat]
      BY <2>9 DEF Admit
    <3> QED  BY <2>9, <3>1 DEF Admit
  <2>10. CASE StartIo(j) \/ IoDone(j) \/ EndTurn(j) \/ Withdraw(j)
    BY <2>10 DEF StartIo, IoDone, EndTurn, Withdraw, Fault
  <2>11. CASE Close(j)
    BY <2>11 DEF Close, Forget
  <2>12. CASE Crash(j)
    BY <2>12 DEF Crash, Forget, Fault, NoScan
  <2> QED
    BY <2>1, <2>2, <2>3, <2>4, <2>5, <2>6, <2>7, <2>8, <2>9, <2>10, <2>11, <2>12
    DEF JobStep
<1>2. CASE CorruptState
  BY <1>2 DEF CorruptState, TypeOK, Fault
<1>3. CASE UNCHANGED vars
  BY <1>3 DEF TypeOK, vars
<1> QED  BY <1>1, <1>2, <1>3, NextCases

\* The queue's state is well typed, and a lease (_Lease of background_turn) has
\* a ticket name of its own from register() to close().
THEOREM TypeCorrect == Spec => [](TypeOK /\ TicketInv)
<1>1. Init => TypeOK /\ TicketInv
  BY InitType DEF Init, TicketInv
<1>2. TypeOK /\ TicketInv /\ [Next]_vars => TicketInv'
  <2> SUFFICES ASSUME TypeOK, TicketInv, [Next]_vars PROVE TicketInv'
    OBVIOUS
  <2> USE BudgetAssumption DEF TypeOK, TicketInv
  <2>1. ASSUME NEW j \in Jobs, JobStep(j) PROVE TicketInv'
    <3>1. CASE Stamp(j)
      BY <3>1 DEF Stamp, InUse, OwnerOf
    <3>2. CASE Close(j)
      BY <3>2 DEF Close
    <3>3. CASE Crash(j)
      BY <3>3 DEF Crash
    <3>4. ASSUME UNCHANGED ticket, \A i \in Jobs : phase'[i] = "idle" <=> phase[i] = "idle"
          PROVE  TicketInv'
      BY <3>4
    <3>5. CASE OpenPending(j) \/ LockPending(j) \/ Publish(j) \/ EndTurn(j) \/ Withdraw(j)
      BY <3>5, <3>4 DEF OpenPending, LockPending, Publish, EndTurn, Withdraw
    <3>6. CASE AcquirePermit(j, TRUE) \/ AcquirePermit(j, FALSE)
      <4>1. /\ phase[j] = "queued" /\ UNCHANGED ticket
            /\ phase' = [phase EXCEPT ![j] = "scanning"]
        BY <3>6 DEF AcquirePermit
      <4> QED  BY <4>1, <3>4
    <3>8. CASE Refuse(j) \/ RecordAdmission(j) \/ Admit(j) \/ AdmissionError(j)
      BY <3>8, <3>4 DEF Refuse, RecordAdmission, Admit, AdmissionError
    <3>7. CASE SkipEntry(j) \/ NoteTicket(j) \/ ReapEntry(j) \/ StartIo(j) \/ IoDone(j)
      BY <3>7, <3>4 DEF SkipEntry, NoteTicket, ReapEntry, StartIo, IoDone
    <3> QED  BY <2>1, <3>1, <3>2, <3>3, <3>5, <3>6, <3>7, <3>8 DEF JobStep
  <2>2. CASE CorruptState
    BY <2>2 DEF CorruptState
  <2>3. CASE UNCHANGED vars
    BY <2>3 DEF vars
  <2> QED  BY <2>1, <2>2, <2>3, NextCases
<1>3. QED
  BY <1>1, <1>2, StepType, PTL DEF Spec

\* Whoever is being admitted, runs or still has threads holds the permit:
\* try_admit and background_turn unlock it only when that is over.
THEOREM PermitHeld == Spec => []PermitInv
<1>1. Init => PermitInv
  BY BudgetAssumption DEF Init, PermitInv
<1>2. TypeOK /\ PermitInv /\ [Next]_vars => PermitInv'
  <2> SUFFICES ASSUME TypeOK, PermitInv, [Next]_vars PROVE PermitInv'
    OBVIOUS
  <2> USE BudgetAssumption DEF TypeOK, PermitInv
  <2>1. ASSUME NEW j \in Jobs, JobStep(j) PROVE PermitInv'
    <3>1. CASE Stamp(j)
      BY <3>1 DEF Stamp
    <3>2. CASE OpenPending(j) \/ LockPending(j) \/ Publish(j) \/ Withdraw(j)
      BY <3>2 DEF OpenPending, LockPending, Publish, Withdraw
    <3>3. CASE AcquirePermit(j, TRUE) \/ AcquirePermit(j, FALSE)
      <4>1. /\ permit = None /\ permit' = j /\ UNCHANGED pendingIo
            /\ phase' = [phase EXCEPT ![j] = "scanning"]
        BY <3>3 DEF AcquirePermit
      <4> QED  BY <4>1
    <3>4. CASE SkipEntry(j) \/ NoteTicket(j) \/ ReapEntry(j)
      BY <3>4 DEF SkipEntry, NoteTicket, ReapEntry
    <3>5. CASE Refuse(j) \/ AdmissionError(j)
      BY <3>5 DEF Refuse, AdmissionError
    <3>6. CASE RecordAdmission(j) \/ Admit(j) \/ EndTurn(j)
      BY <3>6 DEF RecordAdmission, Admit, EndTurn
    <3>7. CASE StartIo(j) \/ IoDone(j)
      BY <3>7 DEF StartIo, IoDone
    <3>8. CASE Close(j)
      BY <3>8 DEF Close
    <3>9. CASE Crash(j)
      BY <3>9 DEF Crash
    <3> QED
      BY <2>1, <3>1, <3>2, <3>3, <3>4, <3>5, <3>6, <3>7, <3>8, <3>9 DEF JobStep
  <2>2. CASE CorruptState
    BY <2>2 DEF CorruptState
  <2>3. CASE UNCHANGED vars
    BY <2>3 DEF vars
  <2> QED  BY <2>1, <2>2, <2>3, NextCases
<1>3. QED
  BY <1>1, <1>2, TypeCorrect, PTL DEF Spec

\* At most one lease works at a time, and it holds the permit while it does:
\* background_turn keeps the permit until the last thread of the turn ended.
THEOREM ExclusiveWork == Spec => []WorkUnderPermit
<1>1. PermitInv => WorkUnderPermit
  BY DEF PermitInv, WorkUnderPermit
<1>2. QED
  BY <1>1, PermitHeld, PTL

\* The scan of another process never unlinks the ticket of a live waiter.
THEOREM TicketsKept == Spec => []LiveTicketKept
<1>1. Init => LiveTicketKept
  BY DEF Init, LiveTicketKept, Waiting
<1>2. TypeOK /\ TicketInv /\ LiveTicketKept /\ [Next]_vars => LiveTicketKept'
  <2> SUFFICES ASSUME TypeOK, TicketInv, LiveTicketKept, [Next]_vars PROVE LiveTicketKept'
    OBVIOUS
  <2> USE BudgetAssumption DEF TypeOK, TicketInv, LiveTicketKept, Waiting
  <2>1. ASSUME NEW j \in Jobs, JobStep(j) PROVE LiveTicketKept'
    <3>1. CASE Stamp(j)
      BY <3>1 DEF Stamp
    <3>2. CASE OpenPending(j) \/ LockPending(j) \/ Publish(j)
      BY <3>2 DEF OpenPending, LockPending, Publish
    <3>3. CASE AcquirePermit(j, TRUE) \/ AcquirePermit(j, FALSE)
      BY <3>3 DEF AcquirePermit
    <3>4. CASE ReapEntry(j)
      <4>1. PICK e \in Entry :
               /\ ~Alive(e.ident)
               /\ file' = [file EXCEPT ![e.ident] = "absent"]
        BY <3>4 DEF ReapEntry
      <4>2. \A k \in Jobs : Waiting(k) => ticket[k] # e.ident
        BY <4>1 DEF Alive, OwnerOf
      <4> QED  BY <3>4, <4>1, <4>2 DEF ReapEntry
    <3>5. CASE Admit(j)
      BY <3>5 DEF Admit
    <3>6. CASE Close(j)
      BY <3>6 DEF Close
    <3>7. CASE Crash(j)
      BY <3>7 DEF Crash
    <3>8. CASE Refuse(j) \/ AdmissionError(j) \/ RecordAdmission(j) \/ Withdraw(j) \/ EndTurn(j)
      BY <3>8 DEF Refuse, AdmissionError, RecordAdmission, Withdraw, EndTurn
    <3>9. CASE SkipEntry(j) \/ NoteTicket(j) \/ StartIo(j) \/ IoDone(j)
      BY <3>9 DEF SkipEntry, NoteTicket, StartIo, IoDone
    <3> QED
      BY <2>1, <3>1, <3>2, <3>3, <3>4, <3>5, <3>6, <3>7, <3>8, <3>9 DEF JobStep
  <2>2. CASE CorruptState
    BY <2>2 DEF CorruptState
  <2>3. CASE UNCHANGED vars
    BY <2>3 DEF vars
  <2> QED  BY <2>1, <2>2, <2>3, NextCases
<1>3. QED
  BY <1>1, <1>2, TypeCorrect, PTL DEF Spec

-----------------------------------------------------------------------------
(* Fair turns.                                                              *)

\* A ticket's class and life are its owner's.
LEMMA OwnTicket ==
  ASSUME TypeOK, TicketInv, NEW k \in Jobs, phase[k] # "idle"
  PROVE  /\ ticket[k] \in Idents
         /\ OwnerOf(ticket[k]) = {k}
         /\ IsPriority(ticket[k]) <=> k \in PriorityJobs
         /\ \A limited \in BOOLEAN :
              Eligible(ticket[k], limited) <=> (limited => k \in MaintenanceJobs)
         /\ Alive(ticket[k]) <=> phase[k] \notin {"stamped", "opened"}
<1>1. ticket[k] \in Idents /\ ticket[k] # None
  BY BudgetAssumption DEF TypeOK, TicketInv
<1>2. OwnerOf(ticket[k]) = {k}
  BY <1>1 DEF TicketInv, OwnerOf
<1> QED  BY <1>1, <1>2 DEF IsPriority, Eligible, Alive

LEMMA HolderUnique ==
  ASSUME TypeOK, PermitInv, NEW i \in Jobs, NEW j \in Jobs,
         permit = i \/ phase[i] \in {"scanning", "recorded", "running"},
         phase[j] \in {"scanning", "recorded", "running"}
  PROVE  i = j
BY DEF PermitInv

\* Nothing the scan relies on has changed, except that waiters have left and
\* names have been forgotten.
LEMMA ScanCalm ==
  ASSUME ScanInv, scan' = scan,
         \A j \in Jobs : phase'[j] = "scanning" =>
           /\ phase[j] = "scanning" /\ ticket'[j] = ticket[j]
           /\ older'[ticket[j]] \subseteq older[ticket[j]],
         \A k \in Jobs : WaitingBystander(k)' => WaitingBystander(k) /\ ticket'[k] = ticket[k]
  PROVE  ScanInv'
BY DEF ScanInv, HeadOf

LEMMA OrderCalm ==
  ASSUME OrderInv,
         \A j \in Jobs : phase'[j] = "recorded" =>
           /\ phase[j] = "recorded" /\ ticket'[j] = ticket[j]
           /\ older'[ticket[j]] \subseteq older[ticket[j]],
         \A k \in Jobs : WaitingBystander(k)' => WaitingBystander(k) /\ ticket'[k] = ticket[k]
  PROVE  OrderInv'
BY DEF OrderInv

LEMMA StreakRange == TypeOK => PriorityStreak \in 0..MaxPriorityStreak
BY BudgetAssumption DEF TypeOK, PriorityStreak

\* One more fault allows one more run of priority turns.
LEMMA AllowanceGrows ==
  ASSUME TypeOK
  PROVE  /\ Allowance \in Nat
         /\ MaxPriorityStreak * (faults + 1) = Allowance + MaxPriorityStreak
<1>1. MaxPriorityStreak \in Nat /\ faults \in Nat
  BY BudgetAssumption DEF TypeOK
<1>2. \A a, b \in Nat : a * b \in Nat /\ a * (b + 1) = a * b + a
  OBVIOUS
<1> QED  BY <1>1, <1>2 DEF Allowance

LEMMA BystanderStep ==
  ASSUME QueueInv, BystanderInv, NewTicketInv, [Next]_vars
  PROVE  BystanderInv' /\ NewTicketInv'
<1> USE BudgetAssumption DEF QueueInv, TypeOK, BystanderInv, NewTicketInv
<1>1. ASSUME NEW j \in Jobs, JobStep(j) PROVE BystanderInv' /\ NewTicketInv'
  <2>1. CASE Stamp(j)
    BY <2>1 DEF Stamp, InUse, OwnerOf, TicketInv
  <2>2. CASE OpenPending(j) \/ LockPending(j) \/ Publish(j) \/ Withdraw(j) \/ EndTurn(j)
    BY <2>2 DEF OpenPending, LockPending, Publish, Withdraw, EndTurn, OwnerOf
  <2>3. ASSUME NEW limited \in BOOLEAN, AcquirePermit(j, limited)
        PROVE  BystanderInv' /\ NewTicketInv'
    <3>1. \A x \in bystanders' : \E k \in Jobs : ticket[k] = x /\ k # j /\ Waiting(k)
      BY <2>3 DEF AcquirePermit, OwnerOf
    <3>2. \A k \in Jobs : ticket[k] \in bystanders' => k # j /\ Waiting(k)
      BY <3>1, <2>3 DEF TicketInv, AcquirePermit
    <3>3. \A k \in Jobs : Waiting(k) => phase[k] = "queued"
      BY <2>3 DEF Waiting, PermitInv, AcquirePermit
    <3> QED  BY <2>3, <3>1, <3>2, <3>3 DEF AcquirePermit, OwnerOf
  <2>4. CASE SkipEntry(j) \/ NoteTicket(j) \/ ReapEntry(j) \/ StartIo(j) \/ IoDone(j)
    BY <2>4 DEF SkipEntry, NoteTicket, ReapEntry, StartIo, IoDone, OwnerOf
  <2>5. CASE Refuse(j) \/ AdmissionError(j)
    BY <2>5 DEF Refuse, AdmissionError
  <2>6. CASE RecordAdmission(j)
    BY <2>6 DEF RecordAdmission, OwnerOf
  <2>7. CASE Admit(j)
    <3>1. \A x \in Idents : x \notin bystanders => passed'[x] \in {0, passed[x]}
      BY <2>7 DEF Admit
    <3>2. bystanders' = {} /\ phase' = [phase EXCEPT ![j] = "running"] /\ UNCHANGED ticket
      BY <2>7 DEF Admit
    <3>3. \A k \in Jobs : phase[k] \in {"stamped", "opened", "locked"} =>
            ticket[k] \in Idents /\ ticket[k] \notin bystanders
      BY DEF TicketInv
    <3> QED  BY <3>1, <3>2, <3>3
  <2>8. CASE Close(j) \/ Crash(j)
    <3>1. /\ phase' = [phase EXCEPT ![j] = "idle"] /\ ticket' = [ticket EXCEPT ![j] = None]
          /\ bystanders' \subseteq bystanders \ {ticket[j]} /\ UNCHANGED passed
      BY <2>8 DEF Close, Crash
    <3> QED  BY <3>1 DEF OwnerOf
  <2> QED  BY <1>1, <2>1, <2>2, <2>3, <2>4, <2>5, <2>6, <2>7, <2>8 DEF JobStep
<1>2. CASE CorruptState
  BY <1>2 DEF CorruptState, OwnerOf
<1>3. CASE UNCHANGED vars
  BY <1>3 DEF vars, OwnerOf
<1> QED  BY <1>1, <1>2, <1>3, NextCases

\* Taking the permit: everything a waiting bystander has is listed.
LEMMA AcquireScan ==
  ASSUME QueueInv, NEW j \in Jobs, NEW limited \in BOOLEAN, AcquirePermit(j, limited)
  PROVE  ScanInv' /\ OrderInv'
<1> USE DEF QueueInv, TypeOK
<1>1. /\ phase[j] = "queued" /\ permit = None /\ UNCHANGED <<ticket, file, older>>
      /\ phase' = [phase EXCEPT ![j] = "scanning"]
  BY DEF AcquirePermit
<1>2. /\ scan'.limited = limited /\ scan'.priorityHead = None /\ scan'.coldHead = None
      /\ scan'.rest = {e \in Entry : file[e.ident] = e.kind}
  BY DEF AcquirePermit, NoScan
<1>3. \A i \in Jobs : phase'[i] \in {"scanning", "recorded"} => i = j /\ phase'[i] = "scanning"
  BY <1>1, BudgetAssumption DEF PermitInv
<1>4. ticket[j] # None
  BY <1>1 DEF TicketInv
<1>5. ASSUME NEW k \in Jobs, WaitingBystander(k)'
      PROVE  /\ limited => k \in MaintenanceJobs
             /\ [ident |-> ticket[k], kind |-> "ticket"] \in scan'.rest
  <2>1. ticket[k] \in bystanders' /\ phase[k] # "idle"
    BY <1>5, <1>1 DEF WaitingBystander, Waiting
  <2>2. /\ ticket[k] \in Idents /\ OwnerOf(ticket[k]) = {k}
        /\ Eligible(ticket[k], limited) <=> (limited => k \in MaintenanceJobs)
    BY <2>1, OwnTicket
  <2>3. Waiting(k) /\ Eligible(ticket[k], limited)
    BY <2>1, <2>2 DEF AcquirePermit
  <2>4. [ident |-> ticket[k], kind |-> "ticket"] \in Entry /\ file[ticket[k]] = "ticket"
    BY <2>2, <2>3 DEF Entry, LiveTicketKept
  <2> QED  BY <1>2, <2>2, <2>3, <2>4
<1>6. ScanInv'
  BY <1>1, <1>2, <1>3, <1>4, <1>5 DEF ScanInv, HeadOf
<1>7. OrderInv'
  BY <1>3 DEF OrderInv
<1> QED  BY <1>6, <1>7

\* An entry that is skipped or reaped is not the ticket of a live waiter.
LEMMA DropScan ==
  ASSUME QueueInv, ScanInv, NEW j \in Jobs, SkipEntry(j) \/ ReapEntry(j)
  PROVE  ScanInv'
<1> USE DEF QueueInv, TypeOK
<1>1. PICK e \in Entry :
        /\ file[e.ident] # e.kind \/ (e.kind = "pending" /\ Alive(e.ident)) \/ ~Alive(e.ident)
        /\ scan' = [scan EXCEPT !.rest = @ \ {e}]
  BY DEF SkipEntry, ReapEntry
<1>2. /\ UNCHANGED <<phase, ticket, bystanders>>
      /\ \A x \in Idents : older'[x] \subseteq older[x]
  BY DEF SkipEntry, ReapEntry, Forget
<1>3. /\ scan'.limited = scan.limited /\ scan'.rest = scan.rest \ {e}
      /\ scan'.priorityHead = scan.priorityHead /\ scan'.coldHead = scan.coldHead
  BY <1>1 DEF ScanState
<1>4. ASSUME NEW k \in Jobs, Waiting(k)
      PROVE  e # [ident |-> ticket[k], kind |-> "ticket"]
  <2>1. file[ticket[k]] = "ticket" /\ Alive(ticket[k])
    BY <1>4, OwnTicket DEF LiveTicketKept, Waiting
  <2> QED  BY <1>1, <2>1
<1>5. \A k \in Jobs : WaitingBystander(k)' <=> WaitingBystander(k)
  BY <1>2 DEF WaitingBystander, Waiting
<1>6. \A k \in Jobs : WaitingBystander(k) => Waiting(k)
  BY DEF WaitingBystander
<1>7. \A i \in Jobs : phase[i] = "scanning" => ticket[i] \in Idents
  BY OwnTicket
<1> QED  BY <1>2, <1>3, <1>4, <1>5, <1>6, <1>7 DEF ScanInv, HeadOf

\* A noted ticket becomes the head of its class only before every ticket of
\* the class that is still listed.
LEMMA NoteScan ==
  ASSUME QueueInv, ScanInv, NEW j \in Jobs, NoteTicket(j)
  PROVE  ScanInv'
<1> USE DEF QueueInv, TypeOK
<1>1. PICK e \in Entry :
        /\ NextListed(e) /\ e.kind = "ticket"
        /\ scan' = MarkHead([scan EXCEPT !.rest = @ \ {e}], e.ident)
  BY DEF NoteTicket
<1>2. phase[j] = "scanning" /\ UNCHANGED <<phase, ticket, older, bystanders>>
  BY DEF NoteTicket
<1>3. \A i \in Jobs : phase[i] = "scanning" => i = j
  BY <1>2, HolderUnique
<1>4. /\ ticket[j] \in Idents /\ OwnerOf(ticket[j]) = {j}
      /\ IsPriority(ticket[j]) <=> j \in PriorityJobs
  BY <1>2, OwnTicket
<1>5. ASSUME NEW k \in Jobs, WaitingBystander(k)
      PROVE  /\ ticket[k] \in Idents
             /\ IsPriority(ticket[k]) <=> k \in PriorityJobs
             /\ Eligible(ticket[k], scan.limited)
  <2>1. scan.limited \in BOOLEAN /\ (scan.limited => k \in MaintenanceJobs)
    BY <1>2, <1>5 DEF ScanInv, ScanState
  <2> QED  BY <1>5, <2>1, OwnTicket DEF WaitingBystander, Waiting
<1>6. \A k \in Jobs : WaitingBystander(k)' <=> WaitingBystander(k)
  BY <1>2 DEF WaitingBystander, Waiting
<1>7. e.ident \in Idents /\ e = [ident |-> e.ident, kind |-> "ticket"]
  BY <1>1 DEF Entry
<1>8. scan'.limited = scan.limited /\ scan'.rest = scan.rest \ {e}
  BY <1>1 DEF MarkHead, ScanState
<1>9. /\ scan'.priorityHead = IF /\ Eligible(e.ident, scan.limited) /\ IsPriority(e.ident)
                                 /\ scan.priorityHead = None
                              THEN e.ident ELSE scan.priorityHead
      /\ scan'.coldHead = IF /\ Eligible(e.ident, scan.limited) /\ ~IsPriority(e.ident)
                             /\ scan.coldHead = None
                          THEN e.ident ELSE scan.coldHead
  BY <1>1 DEF MarkHead, ScanState
<1>10. /\ scan'.priorityHead = ticket[j] => j \in PriorityJobs
       /\ scan'.coldHead = ticket[j] => j \notin PriorityJobs
  BY <1>2, <1>4, <1>9 DEF ScanInv
<1>11. ASSUME NEW k \in Jobs, WaitingBystander(k)
       PROVE  /\ scan'.limited => k \in MaintenanceJobs
              /\ \/ [ident |-> ticket[k], kind |-> "ticket"] \in scan'.rest
                 \/ HeadOf(k)' # None
              /\ HeadOf(k)' = ticket[j] => ticket[k] \notin older[ticket[j]]
  <2>1. /\ scan.limited => k \in MaintenanceJobs
        /\ [ident |-> ticket[k], kind |-> "ticket"] \in scan.rest \/ HeadOf(k) # None
        /\ HeadOf(k) = ticket[j] => ticket[k] \notin older[ticket[j]]
    BY <1>2, <1>11 DEF ScanInv
  <2>2. HeadOf(k) # None => HeadOf(k)' = HeadOf(k)
    BY <1>9 DEF HeadOf
  <2>3. HeadOf(k)' # HeadOf(k) => HeadOf(k) = None /\ HeadOf(k)' = e.ident
    BY <1>9 DEF HeadOf
  <2>4. ASSUME ticket[k] = e.ident, HeadOf(k) = None PROVE HeadOf(k)' = e.ident
    BY <2>4, <1>5, <1>9, <1>11 DEF HeadOf
  <2>5. ASSUME HeadOf(k) = None PROVE ticket[k] \notin older[e.ident]
    <3>1. [ident |-> ticket[k], kind |-> "ticket"] \in scan.rest
      BY <2>1, <2>5
    <3> QED  BY <1>1, <3>1 DEF NextListed
  <2>6. [ident |-> ticket[k], kind |-> "ticket"] \in scan'.rest \/ HeadOf(k)' # None
    <3>1. CASE HeadOf(k) # None
      BY <3>1, <2>2
    <3>2. CASE HeadOf(k) = None /\ ticket[k] = e.ident
      BY <3>2, <2>4, <1>7, BudgetAssumption
    <3>3. CASE HeadOf(k) = None /\ ticket[k] # e.ident
      BY <3>3, <2>1, <1>7, <1>8
    <3> QED  BY <3>1, <3>2, <3>3
  <2> QED  BY <1>8, <2>1, <2>3, <2>5, <2>6
<1> QED  BY <1>2, <1>3, <1>6, <1>10, <1>11 DEF ScanInv, HeadOf

\* The head of an empty listing: the admitted lease is older than every waiting
\* bystander of its class, and cold work that waits has a head too.
LEMMA RecordOrder ==
  ASSUME QueueInv, ScanInv, BystanderInv, NEW j \in Jobs, RecordAdmission(j)
  PROVE  /\ ScanInv' /\ OrderInv'
         /\ j \in PriorityJobs /\ (\E k \in Jobs \ PriorityJobs : WaitingBystander(k))
              => PriorityStreak < MaxPriorityStreak
<1> USE DEF QueueInv, TypeOK
<1>1. /\ phase[j] = "scanning" /\ scan.rest = {} /\ Head = ticket[j]
      /\ UNCHANGED <<ticket, older, bystanders>>
      /\ phase' = [phase EXCEPT ![j] = "recorded"]
  BY DEF RecordAdmission
<1>2. \A i \in Jobs : phase[i] \in {"scanning", "recorded"} => i = j
  BY <1>1, HolderUnique
<1>3. \A i \in Jobs : phase'[i] \in {"scanning", "recorded"} => i = j /\ phase'[i] = "recorded"
  BY <1>1, <1>2
<1>4. ticket[j] # None
  BY <1>1 DEF TicketInv
<1>5. \A k \in Jobs : WaitingBystander(k)' => k # j /\ WaitingBystander(k)
  BY <1>1 DEF WaitingBystander, Waiting, BystanderInv
<1>6. \A k \in Jobs : WaitingBystander(k) =>
        HeadOf(k) # None /\ (HeadOf(k) = ticket[j] => ticket[k] \notin older[ticket[j]])
  BY <1>1 DEF ScanInv
<1>7. /\ scan.priorityHead = ticket[j] => j \in PriorityJobs
      /\ scan.coldHead = ticket[j] => j \notin PriorityJobs
  BY <1>1 DEF ScanInv
<1>8. /\ j \in PriorityJobs => scan.priorityHead = ticket[j]
      /\ j \notin PriorityJobs => scan.coldHead = ticket[j]
      /\ j \in PriorityJobs => scan.coldHead = None \/ PriorityStreak < MaxPriorityStreak
  BY <1>1, <1>4, <1>7 DEF Head
<1>9. ScanInv'
  BY <1>3 DEF ScanInv
<1>10. OrderInv'
  BY <1>1, <1>3, <1>5, <1>6, <1>8 DEF OrderInv, HeadOf
<1> QED  BY <1>6, <1>8, <1>9, <1>10 DEF HeadOf

LEMMA OrderStep ==
  ASSUME QueueInv, FairInv, [Next]_vars
  PROVE  ScanInv' /\ OrderInv'
<1> USE DEF QueueInv, FairInv
<1>1. ASSUME NEW j \in Jobs, JobStep(j) PROVE ScanInv' /\ OrderInv'
  <2>1. CASE AcquirePermit(j, TRUE) \/ AcquirePermit(j, FALSE)
    BY <2>1, AcquireScan
  <2>2. CASE SkipEntry(j) \/ NoteTicket(j) \/ ReapEntry(j)
    <3>1. phase[j] = "scanning" /\ phase' = phase
      BY <2>2 DEF SkipEntry, NoteTicket, ReapEntry
    <3>2. \A i \in Jobs : phase'[i] # "recorded"
      BY <3>1, HolderUnique
    <3> QED  BY <2>2, <3>2, DropScan, NoteScan DEF OrderInv
  <2>3. CASE RecordAdmission(j)
    BY <2>3, RecordOrder
  <2>4. CASE Refuse(j) \/ Admit(j) \/ AdmissionError(j)
    <3>1. /\ phase[j] \in {"scanning", "recorded"}
          /\ \E p \in {"queued", "running", "closing"} : phase' = [phase EXCEPT ![j] = p]
      BY <2>4 DEF Refuse, Admit, AdmissionError
    <3>2. \A i \in Jobs : phase'[i] \notin {"scanning", "recorded"}
      BY <3>1, HolderUnique DEF TypeOK
    <3> QED  BY <3>2 DEF ScanInv, OrderInv
  \* The other steps take nothing from the scan and add no waiting bystander.
  <2>5. ASSUME UNCHANGED <<scan, ticket, bystanders>>,
               \A i \in Jobs : phase'[i] \in {"scanning", "recorded"} => phase'[i] = phase[i],
               \A i \in Jobs : phase[i] \in {"scanning", "recorded"} =>
                 older'[ticket[i]] \subseteq older[ticket[i]],
               \A k \in Jobs : Waiting(k)' => Waiting(k) \/ phase[k] = "locked"
        PROVE  ScanInv' /\ OrderInv'
    <3>1. \A k \in Jobs : WaitingBystander(k)' => WaitingBystander(k)
      BY <2>5 DEF WaitingBystander, BystanderInv
    <3> QED  BY <2>5, <3>1, ScanCalm, OrderCalm
  <2>6. CASE Stamp(j)
    <3>1. PICK x \in Idents :
            /\ x \notin InUse /\ ticket' = [ticket EXCEPT ![j] = x]
            /\ older' = [older EXCEPT ![x] = InUse]
      BY <2>6 DEF Stamp
    <3>2. /\ phase[j] = "idle" /\ phase' = [phase EXCEPT ![j] = "stamped"]
          /\ UNCHANGED <<scan, bystanders>>
      BY <2>6 DEF Stamp
    <3>3. \A i \in Jobs : i # j => ticket'[i] = ticket[i] /\ ticket[i] # x /\ phase'[i] = phase[i]
      BY <3>1, <3>2 DEF InUse, OwnerOf, TypeOK
    <3>4. \A i \in Jobs : phase'[i] \in {"scanning", "recorded"} =>
            /\ phase[i] = phase'[i] /\ ticket'[i] = ticket[i]
            /\ older'[ticket[i]] \subseteq older[ticket[i]]
      BY <3>1, <3>2, <3>3 DEF TypeOK
    <3>5. \A k \in Jobs : WaitingBystander(k)' => WaitingBystander(k) /\ ticket'[k] = ticket[k]
      BY <3>2, <3>3 DEF WaitingBystander, Waiting, TypeOK
    <3> QED  BY <3>2, <3>4, <3>5, ScanCalm, OrderCalm
  <2>7. CASE OpenPending(j) \/ LockPending(j) \/ Publish(j) \/ EndTurn(j) \/ Withdraw(j)
    <3>1. /\ UNCHANGED <<scan, ticket, bystanders, older>>
          /\ \/ \E p \in {"opened", "locked", "closing"} : phase' = [phase EXCEPT ![j] = p]
             \/ phase[j] = "locked" /\ phase' = [phase EXCEPT ![j] = "queued"]
      BY <2>7 DEF OpenPending, LockPending, Publish, EndTurn, Withdraw
    <3> QED  BY <3>1, <2>5 DEF Waiting, TypeOK
  <2>8. CASE StartIo(j) \/ IoDone(j)
    BY <2>8, <2>5 DEF StartIo, IoDone, Waiting
  <2>9. CASE Close(j) \/ Crash(j)
    <3>1. /\ phase' = [phase EXCEPT ![j] = "idle"] /\ ticket' = [ticket EXCEPT ![j] = None]
          /\ bystanders' \subseteq bystanders
          /\ \A x \in Idents : older'[x] \subseteq older[x]
      BY <2>9 DEF Close, Crash, Forget, TypeOK
    <3>2. /\ \A k \in Jobs : WaitingBystander(k)' => WaitingBystander(k) /\ ticket'[k] = ticket[k]
          /\ \A i \in Jobs : phase'[i] \in {"scanning", "recorded"} =>
               /\ phase[i] = phase'[i] /\ ticket'[i] = ticket[i]
               /\ older'[ticket[i]] \subseteq older[ticket[i]]
      BY <3>1, OwnTicket DEF WaitingBystander, Waiting, TypeOK
    <3>3. OrderInv'
      BY <3>2, OrderCalm
    <3>4. CASE scan' = scan
      BY <3>2, <3>4, ScanCalm, <3>3
    <3>5. CASE scan' # scan
      <4>1. permit = j
        BY <3>5, <2>9 DEF Close, Crash
      <4>2. \A i \in Jobs : phase'[i] # "scanning"
        BY <4>1, <3>1, HolderUnique DEF TypeOK
      <4> QED  BY <4>2, <3>3 DEF ScanInv
    <3> QED  BY <3>4, <3>5
  <2> QED  BY <1>1, <2>1, <2>2, <2>3, <2>4, <2>6, <2>7, <2>8, <2>9 DEF JobStep
<1>2. CASE CorruptState \/ UNCHANGED vars
  <2>1. UNCHANGED <<phase, ticket, older, scan, bystanders>>
    BY <1>2 DEF CorruptState, vars
  <2> QED  BY <2>1, ScanCalm, OrderCalm DEF WaitingBystander, Waiting
<1> QED  BY <1>1, <1>2, NextCases

\* Steps that decide nothing: the streak, what the waiters were passed and who
\* is recorded stay, except that jobs leave.
LEMMA BypassCalm ==
  ASSUME QueueInv, BypassInv, UNCHANGED <<streak, faults>>,
         \A k \in Jobs : Waiting(k)' =>
           Waiting(k) /\ ticket'[k] = ticket[k] /\ passed'[ticket[k]] = passed[ticket[k]],
         \A i \in Jobs : phase'[i] = "recorded" <=> phase[i] = "recorded",
         bystanders' \subseteq bystanders \/ \A i \in Jobs : phase[i] # "recorded"
  PROVE  BypassInv'
<1>1. Allowance' = Allowance /\ PriorityStreak' = PriorityStreak
  BY DEF Allowance, PriorityStreak
<1>2. SUFFICES ASSUME NEW k \in Jobs \ PriorityJobs, Waiting(k)'
               PROVE  /\ passed[ticket[k]] <= MaxPriorityStreak + Allowance
                      /\ \/ \E j \in Jobs \ PriorityJobs : phase'[j] = "recorded"
                         \/ /\ passed[ticket[k]] <= PriorityStreak + Allowance
                            /\ \A j \in PriorityJobs :
                                 phase'[j] = "recorded" /\ ticket[k] \in bystanders'
                                   => passed[ticket[k]] + 1 <= PriorityStreak + Allowance
  BY <1>1 DEF BypassInv
<1>3. Waiting(k)
  BY <1>2
<1>4. \A i \in PriorityJobs : i \in Jobs
  BY BudgetAssumption
<1> QED  BY <1>3, <1>4 DEF BypassInv

\* After a fault nobody need be recorded: its allowance covers the streak's
\* full length, whatever was recorded and is lost.
LEMMA BypassFault ==
  ASSUME QueueInv, BypassInv, Fault, UNCHANGED passed, bystanders' \subseteq bystanders,
         streak' \in {streak, Corrupt},
         \A k \in Jobs : Waiting(k)' => Waiting(k) /\ ticket'[k] = ticket[k],
         \A i \in Jobs : phase'[i] = "recorded" => phase[i] = "recorded"
  PROVE  BypassInv'
<1> USE BudgetAssumption DEF QueueInv
<1>1. Allowance \in Nat /\ Allowance' = Allowance + MaxPriorityStreak
  BY AllowanceGrows DEF Allowance, Fault
<1>2. PriorityStreak \in 0..MaxPriorityStreak
  BY StreakRange
<1>3. PriorityStreak' \in {PriorityStreak, MaxPriorityStreak}
  BY DEF PriorityStreak, Corrupt
<1>4. SUFFICES ASSUME NEW k \in Jobs \ PriorityJobs, Waiting(k), ticket'[k] = ticket[k]
               PROVE  /\ passed[ticket[k]] <= MaxPriorityStreak + Allowance'
                      /\ \/ \E j \in Jobs \ PriorityJobs : phase'[j] = "recorded"
                         \/ /\ passed[ticket[k]] <= PriorityStreak' + Allowance'
                            /\ \A j \in PriorityJobs :
                                 phase'[j] = "recorded" /\ ticket[k] \in bystanders
                                   => passed[ticket[k]] + 1 <= PriorityStreak' + Allowance'
  BY DEF BypassInv
<1>5. passed[ticket[k]] \in Nat
  BY <1>4, OwnTicket DEF TypeOK, Waiting
<1>6. passed[ticket[k]] <= MaxPriorityStreak + Allowance
  BY <1>4 DEF BypassInv
<1>7. passed[ticket[k]] <= PriorityStreak' + Allowance'
  BY <1>1, <1>2, <1>3, <1>5, <1>6
<1>8. ASSUME NEW j \in PriorityJobs, phase'[j] = "recorded", ticket[k] \in bystanders
      PROVE  passed[ticket[k]] + 1 <= PriorityStreak' + Allowance'
  <2>1. \A i \in Jobs : phase[i] = "recorded" => i = j
    BY <1>8, HolderUnique
  <2>2. passed[ticket[k]] + 1 <= PriorityStreak + Allowance
    BY <1>4, <1>8, <2>1 DEF BypassInv
  <2> QED  BY <1>1, <1>2, <1>3, <1>5, <2>2
<1>9. passed[ticket[k]] <= MaxPriorityStreak + Allowance'
  BY <1>1, <1>5, <1>6
<1> QED  BY <1>7, <1>8, <1>9

\* Recording a priority admission counts it; recording a cold one resets the
\* streak before its turn begins.
LEMMA BypassRecord ==
  ASSUME QueueInv, FairInv, NEW j \in Jobs, RecordAdmission(j)
  PROVE  BypassInv'
<1> USE BudgetAssumption DEF QueueInv, FairInv
<1>1. /\ phase[j] = "scanning" /\ UNCHANGED <<ticket, passed, bystanders, faults>>
      /\ phase' = [phase EXCEPT ![j] = "recorded"]
  BY DEF RecordAdmission
<1>2. Allowance \in Nat /\ Allowance' = Allowance
  BY <1>1, AllowanceGrows DEF Allowance
<1>3. PriorityStreak \in 0..MaxPriorityStreak
  BY StreakRange
<1>4. \A i \in Jobs : phase[i] # "recorded"
  BY <1>1, HolderUnique
<1>5. ASSUME j \in PriorityJobs
      PROVE  PriorityStreak' = IF PriorityStreak < MaxPriorityStreak
                               THEN PriorityStreak + 1 ELSE MaxPriorityStreak
  BY <1>3, <1>5 DEF RecordAdmission, PriorityStreak
<1>6. SUFFICES ASSUME NEW k \in Jobs \ PriorityJobs, Waiting(k)
               PROVE  /\ passed[ticket[k]] <= MaxPriorityStreak + Allowance
                      /\ j \in PriorityJobs =>
                           /\ passed[ticket[k]] <= PriorityStreak' + Allowance
                           /\ ticket[k] \in bystanders =>
                                passed[ticket[k]] + 1 <= PriorityStreak' + Allowance
  <2>1. \A k \in Jobs : Waiting(k)' => Waiting(k)
    BY <1>1 DEF Waiting, TypeOK
  <2>2. \A i \in Jobs : phase'[i] = "recorded" <=> i = j
    BY <1>1, <1>4 DEF TypeOK
  <2> QED  BY <1>1, <1>2, <1>6, <2>1, <2>2 DEF BypassInv
<1>7. passed[ticket[k]] \in Nat
  BY <1>6, OwnTicket DEF TypeOK, Waiting
<1>8. /\ passed[ticket[k]] <= MaxPriorityStreak + Allowance
      /\ passed[ticket[k]] <= PriorityStreak + Allowance
  BY <1>4, <1>6 DEF BypassInv
<1>9. j \in PriorityJobs /\ ticket[k] \in bystanders => PriorityStreak < MaxPriorityStreak
  BY <1>6, RecordOrder DEF WaitingBystander
<1> QED  BY <1>2, <1>3, <1>5, <1>7, <1>8, <1>9

\* A priority turn passes the waiting bystanders; a cold one clears the count.
LEMMA BypassAdmit ==
  ASSUME QueueInv, BypassInv, NEW j \in Jobs, Admit(j)
  PROVE  BypassInv'
<1> USE BudgetAssumption DEF QueueInv
<1>1. /\ phase[j] = "recorded" /\ UNCHANGED <<ticket, streak, faults>>
      /\ phase' = [phase EXCEPT ![j] = "running"]
  BY DEF Admit
<1>2. /\ Allowance \in Nat /\ Allowance' = Allowance
      /\ PriorityStreak \in 0..MaxPriorityStreak /\ PriorityStreak' = PriorityStreak
  BY <1>1, AllowanceGrows, StreakRange DEF Allowance, PriorityStreak
<1>3. \A i \in Jobs : phase[i] = "recorded" => i = j
  BY <1>1, HolderUnique
<1>4. SUFFICES ASSUME NEW k \in Jobs \ PriorityJobs, Waiting(k)
               PROVE  passed'[ticket[k]] <= PriorityStreak + Allowance
  <2>1. \A k \in Jobs : Waiting(k)' => Waiting(k) /\ passed'[ticket[k]] \in Nat
    BY <1>1, OwnTicket, StepType DEF Waiting, TypeOK, Admit
  <2>2. \A i \in Jobs : phase'[i] # "recorded"
    BY <1>1, <1>3 DEF TypeOK
  <2> QED  BY <1>1, <1>2, <1>4, <2>1, <2>2 DEF BypassInv
<1>5. ticket[k] \in Idents /\ passed[ticket[k]] \in Nat
  BY <1>4, OwnTicket DEF TypeOK, Waiting
<1>6. CASE j \notin PriorityJobs
  BY <1>2, <1>5, <1>6 DEF Admit
<1>7. CASE j \in PriorityJobs
  <2>1. /\ passed[ticket[k]] <= PriorityStreak + Allowance
        /\ ticket[k] \in bystanders => passed[ticket[k]] + 1 <= PriorityStreak + Allowance
    BY <1>1, <1>3, <1>4, <1>7 DEF BypassInv
  <2>2. passed'[ticket[k]] = passed[ticket[k]]
          \/ (passed'[ticket[k]] = passed[ticket[k]] + 1 /\ ticket[k] \in bystanders)
    BY <1>5, <1>7 DEF Admit
  <2> QED  BY <2>1, <2>2
<1> QED  BY <1>6, <1>7

LEMMA BypassStep ==
  ASSUME QueueInv, FairInv, [Next]_vars
  PROVE  BypassInv'
<1> USE BudgetAssumption DEF QueueInv, FairInv
<1>1. ASSUME NEW j \in Jobs, JobStep(j) PROVE BypassInv'
  <2>1. CASE RecordAdmission(j)
    BY <2>1, BypassRecord
  <2>2. CASE Admit(j)
    BY <2>2, BypassAdmit
  <2>3. CASE Withdraw(j) \/ AdmissionError(j)
    <3>1. /\ Fault /\ UNCHANGED <<passed, ticket, streak>> /\ bystanders' \subseteq bystanders
          /\ phase' = [phase EXCEPT ![j] = "closing"]
      BY <2>3 DEF Withdraw, AdmissionError
    <3> QED  BY <3>1, BypassFault DEF Waiting, TypeOK
  <2>4. CASE Crash(j)
    <3>1. /\ Fault /\ UNCHANGED <<passed, streak>> /\ bystanders' \subseteq bystanders
          /\ phase' = [phase EXCEPT ![j] = "idle"] /\ ticket' = [ticket EXCEPT ![j] = None]
      BY <2>4 DEF Crash
    <3> QED  BY <3>1, BypassFault DEF Waiting, TypeOK
  <2>5. CASE Publish(j)
    <3>1. CASE phase' = [phase EXCEPT ![j] = "queued"]
      <4>1. /\ phase[j] = "locked" /\ UNCHANGED <<ticket, passed, streak, faults, bystanders>>
        BY <2>5 DEF Publish
      <4>2. passed[ticket[j]] = 0 /\ ticket[j] \notin bystanders
        BY <4>1 DEF NewTicketInv, BystanderInv
      <4>3. /\ Allowance \in Nat /\ Allowance' = Allowance
            /\ PriorityStreak \in 0..MaxPriorityStreak /\ PriorityStreak' = PriorityStreak
        BY <4>1, AllowanceGrows, StreakRange DEF Allowance, PriorityStreak
      <4>4. /\ \A k \in Jobs : Waiting(k)' => k = j \/ Waiting(k)
            /\ \A i \in Jobs : phase'[i] = "recorded" <=> phase[i] = "recorded"
        BY <3>1, <4>1 DEF Waiting, TypeOK
      <4>5. /\ passed[ticket[j]] <= MaxPriorityStreak + Allowance
            /\ passed[ticket[j]] <= PriorityStreak + Allowance
        BY <4>2, <4>3
      <4> QED  BY <4>1, <4>2, <4>3, <4>4, <4>5 DEF BypassInv
    <3>2. CASE phase' = [phase EXCEPT ![j] = "closing"]
      <4>1. phase[j] = "locked" /\ UNCHANGED <<ticket, passed, streak, faults, bystanders>>
        BY <2>5 DEF Publish
      <4> QED  BY <3>2, <4>1, BypassCalm DEF Waiting, TypeOK
    <3> QED  BY <2>5, <3>1, <3>2 DEF Publish
  <2>6. ASSUME NEW limited \in BOOLEAN, AcquirePermit(j, limited) PROVE BypassInv'
    <3>1. /\ phase[j] = "queued" /\ phase' = [phase EXCEPT ![j] = "scanning"] /\ permit = None
          /\ UNCHANGED <<ticket, passed, streak, faults>>
      BY <2>6 DEF AcquirePermit
    <3>2. \A i \in Jobs : phase[i] # "recorded"
      BY <3>1 DEF PermitInv
    <3> QED  BY <3>1, <3>2, BypassCalm DEF Waiting, TypeOK
  <2>7. CASE Stamp(j)
    <3>1. PICK x \in Idents :
            /\ x \notin InUse /\ ticket' = [ticket EXCEPT ![j] = x]
            /\ passed' = [passed EXCEPT ![x] = 0]
      BY <2>7 DEF Stamp
    <3>2. /\ phase[j] = "idle" /\ phase' = [phase EXCEPT ![j] = "stamped"]
          /\ UNCHANGED <<streak, faults, bystanders>>
      BY <2>7 DEF Stamp
    <3>3. \A i \in Jobs : i # j => ticket'[i] = ticket[i] /\ ticket[i] # x
      BY <3>1, <3>2 DEF InUse, OwnerOf, TypeOK
    <3>4. \A k \in Jobs : Waiting(k)' =>
            Waiting(k) /\ ticket'[k] = ticket[k] /\ passed'[ticket[k]] = passed[ticket[k]]
      BY <3>1, <3>2, <3>3 DEF Waiting, TypeOK
    <3>5. \A i \in Jobs : phase'[i] = "recorded" <=> phase[i] = "recorded"
      BY <3>2 DEF TypeOK
    <3> QED  BY <3>2, <3>4, <3>5, BypassCalm
  <2>8. CASE OpenPending(j) \/ LockPending(j) \/ EndTurn(j)
    <3>1. /\ phase[j] \in {"stamped", "opened", "running"}
          /\ UNCHANGED <<ticket, passed, streak, faults, bystanders>>
          /\ \E p \in {"opened", "locked", "closing"} : phase' = [phase EXCEPT ![j] = p]
      BY <2>8 DEF OpenPending, LockPending, EndTurn
    <3> QED  BY <3>1, BypassCalm DEF Waiting, TypeOK
  <2>9. CASE SkipEntry(j) \/ NoteTicket(j) \/ ReapEntry(j) \/ StartIo(j) \/ IoDone(j)
    <3>1. UNCHANGED <<phase, ticket, passed, streak, faults, bystanders>>
      BY <2>9 DEF SkipEntry, NoteTicket, ReapEntry, StartIo, IoDone
    <3> QED  BY <3>1, BypassCalm DEF Waiting
  <2>10. CASE Refuse(j)
    <3>1. /\ phase[j] = "scanning" /\ phase' = [phase EXCEPT ![j] = "queued"]
          /\ bystanders' = {} /\ UNCHANGED <<ticket, passed, streak, faults>>
      BY <2>10 DEF Refuse
    <3> QED  BY <3>1, BypassCalm DEF Waiting, TypeOK
  <2>11. CASE Close(j)
    <3>1. /\ phase[j] = "closing" /\ phase' = [phase EXCEPT ![j] = "idle"]
          /\ ticket' = [ticket EXCEPT ![j] = None] /\ bystanders' \subseteq bystanders
          /\ UNCHANGED <<passed, streak, faults>>
      BY <2>11 DEF Close
    <3> QED  BY <3>1, BypassCalm DEF Waiting, TypeOK
  <2> QED
    BY <1>1, <2>1, <2>2, <2>3, <2>4, <2>5, <2>6, <2>7, <2>8, <2>9, <2>10, <2>11
    DEF JobStep
<1>2. CASE CorruptState
  BY <1>2, BypassFault DEF CorruptState, Waiting
<1>3. CASE UNCHANGED vars
  BY <1>3, BypassCalm DEF vars, Waiting
<1> QED  BY <1>1, <1>2, <1>3, NextCases

\* Every waiter gets its turn in order: publication passes cold work a bounded
\* number of times between two cold turns, and within a class the ticket that
\* became visible first is admitted first (_head and _record_admission).
THEOREM TurnsFair == Spec => []FairTurns
<1>1. Init => FairInv
  BY DEF Init, FairInv, BystanderInv, ScanInv, OrderInv, NewTicketInv, BypassInv, Waiting
<1>2. QueueInv /\ FairInv /\ [Next]_vars => FairInv'
  BY BystanderStep, OrderStep, BypassStep DEF FairInv
<1>3. QueueInv /\ FairInv => FairTurns
  <2> SUFFICES ASSUME QueueInv, FairInv PROVE FairTurns
    OBVIOUS
  <2> USE DEF QueueInv, FairInv
  <2>1. BoundedBypass
    BY DEF BypassInv, BoundedBypass, Allowance
  <2>2. ASSUME NEW j \in Jobs, phase[j] = "recorded", NEW x \in bystanders,
               \E k \in OwnerOf(x) : Waiting(k), IsPriority(x) = (j \in PriorityJobs)
        PROVE  x \notin older[ticket[j]]
    <3>1. PICK k \in Jobs : ticket[k] = x /\ Waiting(k)
      BY <2>2 DEF OwnerOf
    <3>2. k \in PriorityJobs <=> j \in PriorityJobs
      BY <2>2, <3>1, OwnTicket DEF Waiting
    <3> QED  BY <2>2, <3>1, <3>2 DEF OrderInv, WaitingBystander
  <2> QED  BY <2>1, <2>2 DEF FairTurns, OldestOfClassFirst
<1>4. QED
  BY <1>1, <1>2, <1>3, TypeCorrect, PermitHeld, TicketsKept, PTL DEF Spec, QueueInv

=============================================================================
