-------------------------- MODULE BackendRegistry --------------------------
(***************************************************************************)
(* gateway/backends.py: the pool of backends of one gateway process, as a  *)
(* value: a function from the ids it holds to their records.  An operator  *)
(* returns the pool after the method of that name; LoRA adapters, which no *)
(* property here tells apart, are left out.                                *)
(***************************************************************************)
EXTENDS Functions

Backend(url, model, healthy) ==
  [url |-> url, model |-> model, healthy |-> healthy, draining |-> FALSE]

\* add: a new id starts unhealthy and not draining; a known one gets the URL.
add(reg, b, url, model) ==
  IF b \in DOMAIN reg THEN [reg EXCEPT ![b].url = url]
  ELSE [x \in DOMAIN reg \cup {b} |-> IF x = b THEN Backend(url, model, FALSE) ELSE reg[x]]

remove(reg, b) == [x \in DOMAIN reg \ {b} |-> reg[x]]

set_health(reg, b, ok) ==
  IF b \in DOMAIN reg THEN [reg EXCEPT ![b].healthy = ok] ELSE reg

set_draining(reg, b, flag) ==
  IF b \in DOMAIN reg THEN [reg EXCEPT ![b].draining = flag] ELSE reg

\* ids_for: where a new request for the model may go.
ids_for(reg, model) ==
  {b \in DOMAIN reg : reg[b].healthy /\ ~reg[b].draining /\ reg[b].model = model}
=============================================================================
