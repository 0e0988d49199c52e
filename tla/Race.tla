-------------------------------- MODULE Race --------------------------------
(***************************************************************************)
(* Speculative dispatch (gateway/extensions/speculative.py): the choice of *)
(* the K backends and the race of their connections.  Every opened         *)
(* connection is a task; between two awaits of race() any number of tasks  *)
(* may finish, and closing a loser is an await of its own, so cancelled    *)
(* tasks unwind beside it.  Backends are numbered in candidate order.      *)
(***************************************************************************)
EXTENDS Naturals, FiniteSets, FiniteSetsExt

CONSTANTS Lanes,        \* the candidates
          RaceWidth,    \* cfg.speculative_k
          LaneLimit,    \* cfg.max_inflight
          LaneLoads,    \* in-flight counts a lane may have
          Estimates     \* router._est_ttft of a lane

ASSUME RaceAssumption ==
  Lanes \subseteq Nat /\ Lanes # {} /\ IsFiniteSet(Lanes) /\ RaceWidth \in Nat
  /\ LaneLimit \in Nat /\ LaneLoads \subseteq Nat /\ Estimates \subseteq Nat

VARIABLES
  lane,       \* backend -> its task and connection
  racing,     \* tasks: the ones race() has not popped
  cms,        \* context managers race() knows
  champion,   \* winner_id, as a set of at most one
  racePhase   \* where race() is

raceVars == <<lane, racing, cms, champion, racePhase>>

\* Ranked before: sort by estimate, stable in candidate order.
RankedBefore(key, a, b) == key[a] < key[b] \/ (key[a] = key[b] /\ a < b)

\* top_k_backends: the best of the unsaturated, or the one with the fewest requests.
top_k_backends(inflight, kvHigh, est) ==
  LET scored == {b \in Lanes : ~kvHigh[b] /\ inflight[b] <= LaneLimit}
      first(S, key, n) == {b \in S : Cardinality({a \in S : RankedBefore(key, a, b)}) < n}
  IN  IF scored = {} THEN first(Lanes, inflight, 1)
      ELSE first(scored, est, IF RaceWidth > 1 THEN RaceWidth ELSE 1)

RaceInit ==
  /\ lane = [b \in Lanes |-> "out"]
  /\ racing = {} /\ cms = {} /\ champion = {}
  /\ racePhase = "idle"

\* race(): one task per chosen backend; all have begun to connect before any has ended.
StartRace(inflight, kvHigh, est) ==
  LET chosen == top_k_backends(inflight, kvHigh, est)
  IN  /\ racePhase = "idle"
      /\ lane' = [b \in Lanes |-> IF b \in chosen THEN "opening" ELSE "out"]
      /\ racing' = chosen
      /\ cms' = chosen
      /\ racePhase' = "waiting"
      /\ UNCHANGED champion

\* A connection answers, or fails, or runs into the client's timeout.
LaneAnswers(b) == /\ lane[b] = "opening"
                  /\ lane' = [lane EXCEPT ![b] = "answered"]
                  /\ UNCHANGED <<racing, cms, champion, racePhase>>

LaneFails(b) == /\ lane[b] = "opening"
                /\ lane' = [lane EXCEPT ![b] = "failed"]
                /\ UNCHANGED <<racing, cms, champion, racePhase>>

Done == {b \in racing : lane[b] # "opening"}

\* Mutant: every finished task is popped with its context manager.
KnownAll(w, failed) == (cms \ Done) \cup {w}

\* The context managers left after the failed tasks were popped.
Known(w, failed) == cms \ failed

\* asyncio.wait returns and some finished task has a response: tasks are popped in any
\* order up to the winner, what still runs is cancelled.
PickWinner ==
  /\ racePhase = "waiting"
  /\ \E w \in {b \in Done : lane[b] = "answered"},
        failed \in SUBSET {b \in Done : lane[b] = "failed"} :
       /\ champion' = {w}
       /\ racing' = racing \ ({w} \cup failed)
       /\ cms' = Known(w, failed)
       /\ lane' = [b \in Lanes |->
                     IF b \in racing' /\ lane[b] = "opening" THEN "cancelling" ELSE lane[b]]
       /\ racePhase' = "closing"

Remaining(failed) == racing \ failed

\* Every finished task failed: wait again, or give up when none is left.
AllFailed ==
  /\ racePhase = "waiting"
  /\ Done # {} /\ \A b \in Done : lane[b] = "failed"
  /\ racing' = Remaining(Done)
  /\ cms' = cms \ Done
  /\ racePhase' = IF racing' = {} THEN "none" ELSE "waiting"
  /\ UNCHANGED <<lane, champion>>

\* The closing loop: an answered loser is closed; closing a task that is still being
\* cancelled raises and is swallowed, closing a finished one does nothing.
CloseLoser(b) ==
  /\ racePhase = "closing"
  /\ b \in cms \ champion
  /\ cms' = cms \ {b}
  /\ lane' = [lane EXCEPT ![b] = IF @ = "answered" THEN "closed" ELSE @]
  /\ UNCHANGED <<racing, champion, racePhase>>

\* CancelledError unwinds the task, which closes its connection.
LaneUnwinds(b) ==
  /\ lane[b] = "cancelling"
  /\ lane' = [lane EXCEPT ![b] = "closed"]
  /\ UNCHANGED <<racing, cms, champion, racePhase>>

ReturnOutcome ==
  /\ racePhase = "closing" /\ cms = champion
  /\ racePhase' = "returned"
  /\ UNCHANGED <<lane, racing, cms, champion>>

RaceStep ==
  \/ PickWinner \/ AllFailed \/ ReturnOutcome
  \/ \E b \in Lanes : LaneAnswers(b) \/ LaneFails(b) \/ CloseLoser(b) \/ LaneUnwinds(b)

RaceNext ==
  \/ \E inflight \in [Lanes -> LaneLoads], kvHigh \in [Lanes -> BOOLEAN],
        est \in [Lanes -> Estimates] : StartRace(inflight, kvHigh, est)
  \/ RaceStep

\* A race that was started goes on: the event loop runs what is ready, and no connection
\* outlives its timeout.
RaceFairness == WF_raceVars(RaceStep)

RaceSpec == RaceInit /\ [][RaceNext]_raceVars /\ RaceFairness

---------------------------------------------------------------------------
\* speculative.py:110 "return the first one to yield a response, cancel the rest": when
\* race() has returned and the cancelled tasks have unwound, the winner's connection is
\* open and no other, also when several racers answered before race() ran again.
OnlyWinnerStaysOpen ==
  (racePhase = "returned" /\ \A b \in Lanes : lane[b] # "cancelling") =>
    {b \in Lanes : lane[b] \in {"opening", "answered"}} = champion

\* speculative.py:111 "Returns None if every connection failed", and only then: a slow
\* racer is waited for after the others failed.
NoneMeansAllFailed ==
  racePhase = "none" => \A b \in Lanes : lane[b] \in {"failed", "out"}

\* Every race comes to an end, however its racers fail (speculative.py:133).
RaceEnds == racePhase = "waiting" ~> racePhase \in {"returned", "none"}

\* speculative.py:110-160: a race that is over left one connection open, or none because
\* every lane failed.
RaceIsSettled == OnlyWinnerStaysOpen /\ NoneMeansAllFailed
=============================================================================
