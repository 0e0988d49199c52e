------------------------------ MODULE SlotPool ------------------------------
(***************************************************************************)
(* What the scheduler of gateway/fairsched.py promises its callers, with   *)
(* neither futures, tags nor a counter: at most Slots requests hold a slot,*)
(* somebody waits only while all slots are held, and a slot given back     *)
(* goes to a waiter whenever there is one.                                 *)
(***************************************************************************)
EXTENDS Naturals, FiniteSets

CONSTANTS Clients, Slots

VARIABLES holders, waiters

pool == <<holders, waiters>>

Init == holders = {} /\ waiters = {}

Take(c) ==
  /\ c \notin holders \cup waiters
  /\ Cardinality(holders) < Slots
  /\ holders' = holders \cup {c}
  /\ UNCHANGED waiters

Join(c) ==
  /\ c \notin holders \cup waiters
  /\ Cardinality(holders) = Slots
  /\ waiters' = waiters \cup {c}
  /\ UNCHANGED holders

\* A waiter gives up.
Quit(c) ==
  /\ c \in waiters
  /\ waiters' = waiters \ {c}
  /\ UNCHANGED holders

\* A holder gives its slot to some waiter, or frees it when nobody waits.
HandOver(c, w) ==
  /\ c \in holders
  /\ w \in waiters
  /\ holders' = (holders \ {c}) \cup {w}
  /\ waiters' = waiters \ {w}

GiveBack(c) ==
  /\ c \in holders
  /\ waiters = {}
  /\ holders' = holders \ {c}
  /\ UNCHANGED waiters

Next ==
  \E c \in Clients :
    \/ Take(c) \/ Join(c) \/ Quit(c) \/ GiveBack(c)
    \/ \E w \in Clients : HandOver(c, w)

Spec == Init /\ [][Next]_pool
=============================================================================
