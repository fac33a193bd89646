---------------------------- MODULE ProviderChain ----------------------------
(***************************************************************************)
(* The chain of providers of one kind of data and its circuit breakers.    *)
(* A provider is its position in the chain; time is counted in units.      *)
(***************************************************************************)
EXTENDS ProviderAdapters, Naturals, Sequences

CONSTANTS Length,           \* of the chain
          FailureThreshold, \* failures in a row that open a circuit
          RecoveryTime      \* how long it stays open

ASSUME ChainAssumption ==
    /\ Length \in Nat \ {0}
    /\ FailureThreshold \in Nat \ {0} /\ RecoveryTime \in Nat \ {0}

Providers == 1..Length

\* openUntil is 0 when there is no end of an open window to wait for.
Circuit == [failures : 0..FailureThreshold, openUntil : Nat]
Closed == [failures |-> 0, openUntil |-> 0]

IsOpen(circuit, now) == now < circuit.openUntil

\* Asking whether a circuit is open closes one whose window has passed.
Refreshed(circuits, now) ==
    [p \in Providers |-> IF circuits[p].openUntil > 0 /\ ~IsOpen(circuits[p], now)
                         THEN Closed ELSE circuits[p]]

\* The providers a call may use, in the order of the chain; the last one when all
\* are open.
Available(circuits, now) ==
    LET shut[n \in 0..Length] ==
            IF n = 0 THEN <<>>
            ELSE IF IsOpen(circuits[n], now) THEN shut[n - 1] ELSE Append(shut[n - 1], n)
    IN  IF shut[Length] = <<>> THEN <<Length>> ELSE shut[Length]

\* Failures beyond the threshold are not told apart.
NoteFailure(circuit, now) ==
    LET failures == IF circuit.failures < FailureThreshold
                    THEN circuit.failures + 1 ELSE circuit.failures
    IN  [failures |-> failures,
         openUntil |-> IF failures >= FailureThreshold
                       THEN now + RecoveryTime ELSE circuit.openUntil]

NoteSuccess_Slip(circuit) == [circuit EXCEPT !.failures = 0]
NoteSuccess(circuit) == Closed

FailoverCategories == {"timeout", "connection", "rate_limit", "invalid_response",
                       "upstream_unavailable"}

CanFailover(error, position, available) ==
    error.category \in FailoverCategories /\ position < Len(available)
=============================================================================
