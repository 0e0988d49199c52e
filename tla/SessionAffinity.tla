-------------------------- MODULE SessionAffinity --------------------------
(***************************************************************************)
(* gateway/session_affinity.py.  A table is the ordered dictionary         *)
(* _by_session as a sequence of pins, least recently used first.           *)
(***************************************************************************)
EXTENDS Lists

CONSTANTS PinCapacity, PinTtl

\* self.capacity = max(1, capacity)
ASSUME PinAssumption == PinCapacity \in Nat \ {0} /\ PinTtl \in Nat

Pin(sid, b, now) == [sid |-> sid, backend |-> b, last |-> now]

PinOf(table, sid) == Where(table, LAMBDA p : p.sid = sid)

Without(table, sid) == Where(table, LAMBDA p : p.sid # sid)

Expired(pin, now) == now - pin.last > PinTtl

\* pick: the pinned backend as a set of at most one, and the table it leaves. An idle
\* pin is dropped, a pin to an ineligible backend is kept, a hit moves to the end
\* without renewing its time.
pick(table, sid, candidates, now) ==
  LET found == PinOf(table, sid)
  IN  IF found = <<>> THEN [table |-> table, backend |-> {}]
      ELSE IF Expired(found[1], now) THEN [table |-> Without(table, sid), backend |-> {}]
      ELSE IF found[1].backend \notin candidates THEN [table |-> table, backend |-> {}]
      ELSE [table |-> Without(table, sid) \o found, backend |-> {found[1].backend}]

\* Mutant: the newest pin is dropped at the limit.
rememberFull(table, sid, b, now) ==
  IF Len(Without(table, sid)) >= PinCapacity THEN table
  ELSE Append(Without(table, sid), Pin(sid, b, now))

\* remember: the oldest pins go when the table is over its capacity.
remember(table, sid, b, now) ==
  LET grown == Append(Without(table, sid), Pin(sid, b, now))
      over == IF Len(grown) > PinCapacity THEN Len(grown) - PinCapacity ELSE 0
  IN  SubSeq(grown, over + 1, Len(grown))

forget_backend(table, b) == Where(table, LAMBDA p : p.backend # b)
=============================================================================
