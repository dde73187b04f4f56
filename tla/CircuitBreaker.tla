--------------------------- MODULE CircuitBreaker ---------------------------
(***************************************************************************)
(* The CircuitBreaker object of one service: CLOSED -> OPEN -> HALF_OPEN ->  *)
(* CLOSED.  Every method is synchronous, so each is one action; is_open is   *)
(* split by its return value.  Time is one bit: whether recovery_timeout has *)
(* elapsed since _opened_at.                                                 *)
(* A definition A_Word is a deliberate fault in A, used to show that the    *)
(* properties notice it; no specification uses it.                          *)
(***************************************************************************)
EXTENDS Naturals

CONSTANTS
    Threshold,    \* failure_threshold
    MaxFailures   \* bound: failures counted while the circuit is not CLOSED

ASSUME ThresholdAssumption ==
    Threshold \in Nat \ {0} /\ MaxFailures \in Nat /\ MaxFailures >= Threshold

VARIABLES
    state,      \* _state
    failures,   \* _failure_count
    elapsed,    \* recovery_timeout has elapsed since _opened_at
    probe       \* _probe_in_flight

cbVars == <<state, failures, elapsed, probe>>

CBInit ==
    state = "CLOSED" /\ failures = 0 /\ elapsed = FALSE /\ probe = FALSE

CBTypeOK ==
    /\ state \in {"CLOSED", "OPEN", "HALF_OPEN"}
    /\ failures \in 0 .. MaxFailures
    /\ elapsed \in BOOLEAN /\ probe \in BOOLEAN

\* recovery_timeout has elapsed since the circuit opened.
Elapse ==
    /\ state = "OPEN" /\ ~elapsed
    /\ elapsed' = TRUE
    /\ UNCHANGED <<state, failures, probe>>

MayProbe == state = "HALF_OPEN" \/ (state = "OPEN" /\ elapsed)

\* Fault: the first HALF_OPEN caller does not claim the probe slot.
Admit_Unclaimed ==
    \/ state = "CLOSED" /\ UNCHANGED cbVars
    \/ /\ MayProbe /\ ~probe
       /\ state' = "HALF_OPEN"
       /\ UNCHANGED <<failures, elapsed, probe>>

\* is_open() returned False: the call may go ahead, as the probe unless CLOSED.
Admit ==
    \/ state = "CLOSED" /\ UNCHANGED cbVars
    \/ /\ MayProbe /\ ~probe
       /\ state' = "HALF_OPEN" /\ probe' = TRUE
       /\ UNCHANGED <<failures, elapsed>>

\* is_open() returned True: the call is rejected.
Reject ==
    \/ state = "OPEN" /\ ~elapsed /\ UNCHANGED cbVars
    \/ /\ MayProbe /\ probe
       /\ state' = "HALF_OPEN"
       /\ UNCHANGED <<failures, elapsed, probe>>

RecordSuccess ==
    IF state = "HALF_OPEN"
    THEN state' = "CLOSED" /\ failures' = 0 /\ elapsed' = FALSE /\ probe' = FALSE
    ELSE UNCHANGED cbVars

\* Fault: the failed probe keeps its slot.
RecordFailure_KeepsProbe ==
    /\ failures < MaxFailures
    /\ failures' = failures + 1
    /\ elapsed' = FALSE
    /\ state' = IF state = "CLOSED" /\ failures + 1 < Threshold
                THEN "CLOSED" ELSE "OPEN"
    /\ UNCHANGED probe

RecordFailure ==
    /\ failures < MaxFailures
    /\ failures' = failures + 1
    /\ probe' = FALSE
    /\ elapsed' = FALSE       \* _opened_at is reset whenever the result is OPEN
    /\ state' = IF state = "CLOSED" /\ failures + 1 < Threshold
                THEN "CLOSED" ELSE "OPEN"

ReleaseProbe ==
    probe' = FALSE /\ UNCHANGED <<state, failures, elapsed>>

CBNext ==
    Elapse \/ Admit \/ Reject \/ RecordSuccess \/ RecordFailure \/ ReleaseProbe

\* Whatever its callers do in whatever order.
CBSpec == CBInit /\ [][CBNext]_cbVars

\* The count and the state agree: the circuit is not CLOSED exactly when the
\* failures since it last closed have reached the threshold.
CountMatchesState == state = "CLOSED" <=> failures < Threshold

\* The probe slot is only ever taken while HALF_OPEN, so no outcome and no
\* release leaves a claim behind that would reject the next recovery's probe.
ProbeOnlyHalfOpen == probe => state = "HALF_OPEN"
=============================================================================
