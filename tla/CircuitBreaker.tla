--------------------------- MODULE CircuitBreaker ---------------------------
(***************************************************************************)
(* gateway/circuit.py.  The clock is abstract: the code derives half_open  *)
(* from the time since opened_at; here CooldownElapses is the instant at   *)
(* which that time reaches cooldown_s.  A failure while open restarts the  *)
(* cooldown, which leaves the circuit open.  The failure count is compared *)
(* with the threshold only, so it is kept up to the threshold.             *)
(***************************************************************************)
EXTENDS Naturals

CONSTANTS Backends, FailThreshold

VARIABLES fails, circuit

CircuitTypeOK ==
  /\ fails \in [Backends -> 0 .. FailThreshold]
  /\ circuit \in [Backends -> {"closed", "open", "half_open"}]

CircuitInit ==
  /\ fails = [b \in Backends |-> 0]
  /\ circuit = [b \in Backends |-> "closed"]

allow(b) == circuit[b] # "open"

record_success(b) ==
  /\ fails' = [fails EXCEPT ![b] = 0]
  /\ circuit' = [circuit EXCEPT ![b] = "closed"]

\* A failure in half_open reopens and sets the count to the threshold; any
\* other failure counts, and opens at the threshold.
record_failure(b) ==
  LET count == IF fails[b] < FailThreshold THEN fails[b] + 1 ELSE FailThreshold
  IN  IF circuit[b] = "half_open"
      THEN /\ circuit' = [circuit EXCEPT ![b] = "open"]
           /\ fails' = [fails EXCEPT ![b] = FailThreshold]
      ELSE /\ fails' = [fails EXCEPT ![b] = count]
           /\ circuit' = [circuit EXCEPT ![b] = IF count >= FailThreshold THEN "open" ELSE @]

CooldownElapses(b) ==
  /\ circuit[b] = "open"
  /\ circuit' = [circuit EXCEPT ![b] = "half_open"]
  /\ UNCHANGED fails
=============================================================================
