----------------------------- MODULE LatestValue -----------------------------
(***************************************************************************)
(* What a coalescing writer promises for values that lapse: the durable    *)
(* value of a key is one that was accepted for it, never goes back, and is *)
(* gone only when it has lapsed.                                           *)
(***************************************************************************)
EXTENDS Naturals

CONSTANTS Keys, MaxValue

VARIABLES
  lapsed,   \* values below this one have lapsed
  latest,   \* newest value accepted for a key, 0 if none is held
  durable   \* the one that is stored, 0 if none is

vars == <<lapsed, latest, durable>>

Init == lapsed = 0 /\ latest = [k \in Keys |-> 0] /\ durable = [k \in Keys |-> 0]

Lapse == lapsed' \in lapsed..MaxValue /\ UNCHANGED <<latest, durable>>

Accept(k) ==
  /\ \E v \in latest[k] + 1..MaxValue : latest' = [latest EXCEPT ![k] = v]
  /\ UNCHANGED <<lapsed, durable>>

\* A batch is stored at once; newer values may have been accepted meanwhile.
Store ==
  /\ durable' \in [Keys -> 0..MaxValue]
  /\ \A k \in Keys : \/ durable[k] <= durable'[k] /\ durable'[k] <= latest[k]
                     \/ durable'[k] = 0 /\ durable[k] < lapsed
  /\ latest' \in [Keys -> 0..MaxValue]
  /\ \A k \in Keys : latest'[k] = latest[k] \/ (latest'[k] = 0 /\ latest[k] < lapsed)
  /\ UNCHANGED lapsed

\* What is not stored yet is given up when the writer stops.
Forget == latest' = durable /\ UNCHANGED <<lapsed, durable>>

Next == Lapse \/ (\E k \in Keys : Accept(k)) \/ Store \/ Forget

Spec == Init /\ [][Next]_vars

=============================================================================
