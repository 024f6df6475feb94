--------------------------- MODULE DeveloperAccess ---------------------------
(*************************************************************************)
(* Accounts, keys and quotas of the public API (developer_access.py, with *)
(* its routes in api/developer.py and public_v1.py).  Requests run in     *)
(* threads of several processes.  Each write is one BEGIN IMMEDIATE       *)
(* transaction, so it is one step here; what a request reads or stamps    *)
(* before its transaction - the clock, the user, the session - may be old *)
(* by then.  A unit of the clock is a minute; a day is a window of signups.*)
(*                                                                       *)
(* Passwords, codes and secrets are right; one peer address asks.         *)
(*************************************************************************)
EXTENDS Integers, FiniteSets, FiniteSetsExt, TLC

CONSTANTS
  None,
  Users,         \* e-mail addresses
  Keys,          \* key identities not yet drawn
  Threads,
  PerMinute, PerDay,
  DayLength,     \* in minutes
  MaxActiveKeys,
  MaxAttempts,   \* admissions of an address a day (an hour in the code)
  MaxSignups,    \* new accounts a day
  MaxClock,      \* bound: minutes
  MaxAdmissions, \* bound: admissions in all
  MaxFaults      \* bound: failures, crashes, ended sessions, revoked keys, disabled accounts

VARIABLES
  clock,
  account,  \* users: "absent", "active" or "disabled" by the operator
  open,     \* sessions: whether the user has one that is neither revoked nor expired
  keys,     \* api_keys: None or [user, active]
  used,     \* usage_counters of user, period and bucket
  attempts, \* auth_attempts of the admission, by day
  signups,  \* auth_attempts of successful signups, by day
  asked,    \* thread -> request between its reads and its transaction, or None
  granted,  \* history: calls let through, by user and minute of the request
  born,     \* history: minute in which the account was committed
  faults

vars == <<clock, account, open, keys, used, attempts, signups, asked, granted, born, faults>>

Clock == 0..MaxClock
Day(minute) == minute \div DayLength
Unborn == -1
Buckets == Users \X {"minute", "day"} \X Clock

TypeOK ==
  /\ clock \in Clock /\ account \in [Users -> {"absent", "active", "disabled"}]
  /\ open \in [Users -> BOOLEAN]
  /\ \A k \in Keys : keys[k] # None => keys[k].user \in Users /\ keys[k].active \in BOOLEAN
  /\ used \in [Buckets -> 0..PerDay]
  /\ attempts \in [Clock -> 0..MaxAttempts] /\ signups \in [Clock -> Nat]
  /\ \A t \in Threads : asked[t] # None => asked[t].at \in Clock
  /\ born \in [Users -> Clock \cup {Unborn}]

Init ==
  /\ clock = 0 /\ account = [u \in Users |-> "absent"] /\ open = [u \in Users |-> FALSE]
  /\ keys = [k \in Keys |-> None] /\ used = [b \in Buckets |-> 0]
  /\ attempts = [d \in Clock |-> 0] /\ signups = [d \in Clock |-> 0]
  /\ asked = [t \in Threads |-> None]
  /\ granted = [u \in Users |-> [minute \in Clock |-> 0]]
  /\ born = [u \in Users |-> Unborn] /\ faults = 0

Ask(t, request) ==
  /\ asked[t] = None
  /\ asked' = [asked EXCEPT ![t] = request @@ [at |-> clock]]
Answer(t) == asked' = [asked EXCEPT ![t] = None]
Kind(t, kind) == asked[t] # None /\ asked[t].kind = kind

\* Nobody waits longer than ten seconds for the write lock.
Tick ==
  /\ clock < MaxClock /\ clock' = clock + 1
  /\ \A t \in Threads : asked[t] # None => asked[t].at = clock
  /\ UNCHANGED <<account, open, keys, used, attempts, signups, asked, granted, born, faults>>

Fault == faults < MaxFaults /\ faults' = faults + 1

Disable(u) ==
  /\ Fault /\ account[u] = "active" /\ account' = [account EXCEPT ![u] = "disabled"]
  /\ UNCHANGED <<clock, open, keys, used, attempts, signups, asked, granted, born>>

\* The lock is not free in time, or the process ends: the transaction is void.
Fails(t) ==
  /\ Fault /\ asked[t] # None /\ Answer(t)
  /\ UNCHANGED <<clock, account, open, keys, used, attempts, signups, granted, born>>

------------------------------------------------------------------------------
(* Accounts and sessions                                                  *)

\* _admission, before any hashing; a refused attempt is not counted.
Admitted ==
  /\ attempts[Day(clock)] < MaxAttempts
  /\ MapThenSumSet(LAMBDA day : attempts[day], Clock) < MaxAdmissions
  /\ attempts' = [attempts EXCEPT ![Day(clock)] = @ + 1]

\* The address is looked up, then the password is hashed.
AskRegister(t, u) ==
  /\ Admitted
  /\ IF account[u] = "absent" THEN Ask(t, [kind |-> "register", user |-> u])
     ELSE asked[t] = None /\ UNCHANGED asked
  /\ UNCHANGED <<clock, account, open, keys, used, signups, granted, born, faults>>

AskLogin(t, u) ==
  /\ Admitted
  /\ IF account[u] = "active" THEN Ask(t, [kind |-> "login", user |-> u])
     ELSE asked[t] = None /\ UNCHANGED asked
  /\ UNCHANGED <<clock, account, open, keys, used, signups, granted, born, faults>>

Session(u) == open' = [open EXCEPT ![u] = TRUE]

SignupKept(u) == signups' = [signups EXCEPT ![Day(clock)] = @ + 1]
\* A signup that fails - the address was taken meanwhile - counts for nothing.
SignupOf(u) ==
  signups' = IF account[u] = "absent" THEN [signups EXCEPT ![Day(clock)] = @ + 1] ELSE signups

CommitRegister(t) ==
  LET u == asked[t].user
  IN /\ Kind(t, "register") /\ Answer(t)
     /\ IF signups[Day(clock)] < MaxSignups
        THEN /\ SignupOf(u)
             /\ IF account[u] = "absent"
                THEN /\ account' = [account EXCEPT ![u] = "active"] /\ Session(u)
                     /\ born' = [born EXCEPT ![u] = clock]
                ELSE UNCHANGED <<account, open, born>>
        ELSE UNCHANGED <<signups, account, open, born>>
     /\ UNCHANGED <<clock, keys, used, attempts, granted, faults>>

CommitLogin(t) ==
  /\ Kind(t, "login") /\ Answer(t) /\ Session(asked[t].user)
  /\ UNCHANGED <<clock, account, keys, used, attempts, signups, granted, born, faults>>

\* session(): what a portal request accepts.
Accepted(u) == account[u] = "active" /\ open[u]

\* revoke_session, or a week has passed.
EndSession(u) ==
  /\ Fault /\ open[u] /\ open' = [open EXCEPT ![u] = FALSE]
  /\ UNCHANGED <<clock, account, keys, used, attempts, signups, asked, granted, born>>

------------------------------------------------------------------------------
(* Keys                                                                   *)

ActiveKeys(u) == {k \in Keys : keys[k] # None /\ keys[k].user = u /\ keys[k].active}

AskKey(t, u) ==
  /\ Accepted(u) /\ Ask(t, [kind |-> "key", user |-> u, count |-> Cardinality(ActiveKeys(u))])
  /\ UNCHANGED <<clock, account, open, keys, used, attempts, signups, granted, born, faults>>

CountBefore(request) == request.count
\* The keys are counted inside the transaction.
CountNow(request) == Cardinality(ActiveKeys(request.user))

\* Identities are drawn at random: which one is new makes no difference.
NewKey == CHOOSE k \in Keys : keys[k] = None

CommitKey(t) ==
  /\ Kind(t, "key") /\ Answer(t)
  /\ IF CountNow(asked[t]) < MaxActiveKeys
     THEN /\ \E k \in Keys : keys[k] = None
          /\ keys' = [keys EXCEPT ![NewKey] = [user |-> asked[t].user, active |-> TRUE]]
     ELSE UNCHANGED keys
  /\ UNCHANGED <<clock, account, open, used, attempts, signups, granted, born, faults>>

RevokeKey(k) ==
  /\ Fault /\ keys[k] # None /\ keys[k].active /\ Accepted(keys[k].user)
  /\ keys' = [keys EXCEPT ![k].active = FALSE]
  /\ UNCHANGED <<clock, account, open, used, attempts, signups, asked, granted, born>>

------------------------------------------------------------------------------
(* Calls of the API                                                       *)

\* The clock of the quota is read before the transaction.
AskCall(t, k) ==
  /\ keys[k] # None /\ Ask(t, [kind |-> "call", key |-> k])
  /\ UNCHANGED <<clock, account, open, keys, used, attempts, signups, granted, born, faults>>

MinuteOf(u, at) == <<u, "minute", at>>
DayOf(u, at) == <<u, "day", Day(at)>>
Within(u, at) == used[MinuteOf(u, at)] < PerMinute /\ used[DayOf(u, at)] < PerDay

ChargedMinute(u, at) ==
  [used EXCEPT ![MinuteOf(u, at)] = IF @ < PerMinute THEN @ + 1 ELSE @,
               ![DayOf(u, at)] = IF Within(u, at) THEN @ + 1 ELSE @]
\* Both counters or none; old buckets are deleted hours later.
Charged(u, at) ==
  IF Within(u, at) THEN [used EXCEPT ![MinuteOf(u, at)] = @ + 1, ![DayOf(u, at)] = @ + 1] ELSE used

\* authenticate_and_consume.
CommitCall(t) ==
  LET k == asked[t].key
      u == keys[k].user
      at == asked[t].at
  IN /\ Kind(t, "call") /\ Answer(t)
     /\ IF keys[k].active /\ account[u] = "active"
        THEN /\ used' = Charged(u, at)
             /\ granted' = IF Within(u, at) THEN [granted EXCEPT ![u][at] = @ + 1] ELSE granted
        ELSE UNCHANGED <<used, granted>>
     /\ UNCHANGED <<clock, account, open, keys, attempts, signups, born, faults>>

Next ==
  \/ Tick
  \/ \E u \in Users : Disable(u) \/ EndSession(u)
  \/ \E k \in Keys : RevokeKey(k)
  \/ \E t \in Threads :
       \/ Fails(t) \/ CommitRegister(t) \/ CommitLogin(t) \/ CommitKey(t) \/ CommitCall(t)
       \/ \E u \in Users : AskRegister(t, u) \/ AskLogin(t, u) \/ AskKey(t, u)
       \/ \E k \in Keys : AskCall(t, k)

Spec == Init /\ [][Next]_vars

------------------------------------------------------------------------------
\* The counters are the calls that were let through, in the minute and the day
\* of each request, whatever ran beside it or was refused; a user never holds
\* more keys than allowed, and the signups counted for a day are the accounts
\* made in it ("only committed signups count toward caps").
QuotaKept ==
  /\ \A u \in Users :
       /\ \A minute \in Clock : used[MinuteOf(u, minute)] = granted[u][minute] /\ granted[u][minute] <= PerMinute
       /\ \A day \in {Day(minute) : minute \in Clock} :
            LET calls == MapThenSumSet(LAMBDA minute : granted[u][minute], {minute \in Clock : Day(minute) = day})
            IN used[<<u, "day", day>>] = calls /\ calls <= PerDay
       /\ Cardinality(ActiveKeys(u)) <= MaxActiveKeys
  /\ \A day \in Clock :
       /\ signups[day] = Cardinality({u \in Users : born[u] # Unborn /\ Day(born[u]) = day})
       /\ signups[day] <= MaxSignups
=============================================================================
