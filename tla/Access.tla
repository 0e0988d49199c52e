------------------------------- MODULE Access -------------------------------
(***************************************************************************)
(* Who may call the gateway, and as whom: API keys (gateway/auth.py), the  *)
(* tenants of the configuration (TenantRegistry of gateway/tenancy.py) and *)
(* the guard of the admin API (gateway/server.py).  A header is a scheme   *)
(* and what follows it, stripped; "" is a header without a key.  Hashing a *)
(* key is an injection.  compare_digest raises when either of its strings  *)
(* is not ASCII, which Starlette answers with status 500.                  *)
(***************************************************************************)
EXTENDS Lists

CONSTANTS Keys,          \* what a caller may present, "" included
          Foreigners,    \* the strings that are not ASCII, presented or configured
          Digest,        \* key -> its SHA-256 in hexadecimal
          Policies,      \* configurations: [spec, extra, hashed, require, token]
          MaxAccesses    \* bound: calls

ASSUME AccessAssumption ==
  /\ Foreigners \subseteq STRING \ {""} /\ MaxAccesses \in Nat
  /\ Digest \in [Keys -> STRING \ Foreigners]
  /\ \A k, l \in Keys : Digest[k] = Digest[l] => k = l
  /\ \A p \in Policies : p.spec \in Seq([key : STRING, tid : STRING, tier : STRING])

VARIABLES policy,        \* the configuration of this process
          servedAs,      \* gateway_tenant_requests_total: tenant -> count
          turnedAway,    \* gateway_auth_rejected_total: reason -> count
          accesses,      \* _autoscale_request_count
          raised,        \* history: calls that ended in the exception of a comparison
          lastCall       \* the last call and its outcome

accessVars == <<policy, servedAs, turnedAway, accesses, raised, lastCall>>

KnownTiers == {"gold", "silver", "bronze", "anonymous"}    \* DEFAULT_TIERS

\* Tenant.from_tier of one pair "key=tenant:tier" of GW_TENANTS.
from_tier(pair) == [id |-> IF pair.tid = "" THEN pair.key ELSE pair.tid,
                    tier |-> IF pair.tier \in KnownTiers THEN pair.tier ELSE "bronze"]

Anonymous == [id |-> "anonymous", tier |-> "anonymous"]

\* TenantRegistry: a later pair replaces an earlier one for the same key.
by_key(spec) == FoldLeft(LAMBDA map, pair : Put(map, pair.key, from_tier(pair)), <<>>, spec)

keys == DOMAIN by_key(policy.spec)

\* Mutant: an unknown key falls back to the first configured tenant.
resolve_first(header) ==
  LET map == by_key(policy.spec)
  IN  IF header.scheme # "bearer" THEN Anonymous
      ELSE IF header.key \in DOMAIN map THEN map[header.key]
      ELSE IF policy.spec # <<>> THEN map[policy.spec[1].key] ELSE Anonymous

\* resolve takes the key as it stands, also when nothing follows the scheme.
resolve(header) ==
  LET map == by_key(policy.spec)
  IN  IF header.scheme = "bearer" /\ header.key \in DOMAIN map THEN map[header.key] ELSE Anonymous

\* extract_bearer: nobody (None) when nothing follows the scheme.
extract_bearer(header) == IF header.scheme = "bearer" THEN {header.key} \ {""} ELSE {}

sha256_hex(key) == Digest[key]

\* The keys known in the clear: the tenants' and GW_API_KEYS, of which blanks are dropped.
ClearKeys == keys \cup (policy.extra \ {""})

\* Whether compare_digest takes the presented string beside each of the known ones.
Comparable(presented, known) == known # {} => ({presented} \cup known) \cap Foreigners = {}

\* is_valid compares with every known key, then the digest with every known hash, and does
\* not stop at a match.
is_valid(key) ==
  IF ~(Comparable(key, ClearKeys) /\ Comparable(sha256_hex(key), policy.hashed)) THEN "raises"
  ELSE IF key \in ClearKeys \/ sha256_hex(key) \in policy.hashed THEN "ok"
  ELSE "invalid_api_key"

check(header) ==
  IF ~policy.require THEN "ok"
  ELSE IF extract_bearer(header) = {} THEN "missing_api_key"
  ELSE is_valid(header.key)

\* _admin_authorized: the header of its own, else the bearer token.
admin_authorized(adminKey, header) ==
  LET presented == IF adminKey # "" THEN {adminKey} ELSE extract_bearer(header)
  IN  IF policy.token = "" \/ presented = {} THEN "forbidden"
      ELSE IF ~\A key \in presented : Comparable(key, {policy.token}) THEN "raises"
      ELSE IF policy.token \in presented THEN "ok" ELSE "forbidden"

---------------------------------------------------------------------------
AccessInit ==
  /\ policy \in Policies
  /\ servedAs = <<>> /\ turnedAway = <<>>
  /\ accesses = 0 /\ raised = 0
  /\ lastCall = [call |-> "none"]

\* inc_counter of gateway/metrics.py.
Counted(counter, label) ==
  Put(counter, label, IF label \in DOMAIN counter THEN counter[label] + 1 ELSE 1)

\* The head of chat_completions: count, authenticate, then identify the tenant.
ChatAccess(header) ==
  LET outcome == check(header)
      tenant == resolve(header)
  IN  /\ accesses < MaxAccesses /\ accesses' = accesses + 1
      /\ servedAs' = IF outcome = "ok" THEN Counted(servedAs, tenant.id) ELSE servedAs
      /\ turnedAway' = IF outcome \in {"missing_api_key", "invalid_api_key"}
                       THEN Counted(turnedAway, outcome) ELSE turnedAway
      /\ raised' = IF outcome = "raises" THEN raised + 1 ELSE raised
      /\ lastCall' = [call |-> "chat", header |-> header, outcome |-> outcome, tenant |-> tenant]
      /\ UNCHANGED policy

\* _admin_guard, which every handler under /admin calls first.
AdminAccess(adminKey, header) ==
  /\ lastCall' = [call |-> "admin", adminKey |-> adminKey, header |-> header,
                  outcome |-> admin_authorized(adminKey, header)]
  /\ UNCHANGED <<policy, servedAs, turnedAway, accesses, raised>>

Headers == [scheme : {"bearer", "other"}, key : Keys]

AccessNext ==
  \E header \in Headers :
    ChatAccess(header) \/ \E adminKey \in Keys : AdminAccess(adminKey, header)

AccessSpec == AccessInit /\ [][AccessNext]_accessVars

---------------------------------------------------------------------------
\* What the configuration grants a key: the pair that names it last.
Grant(key) == LET named == {i \in DOMAIN policy.spec : policy.spec[i].key = key}
              IN  IF named = {} THEN Anonymous ELSE from_tier(policy.spec[Max(named)])

\* Everything a call's key is compared with is ASCII, and so is the key (see UnknownKeysGet401).
AllAscii(key) == ({key} \cup ClearKeys \cup policy.hashed) \cap Foreigners = {}

\* What the caller presented as a key, as auth.py and DESIGN.md:341 count it: a blank is none.
Presented(header) == IF header.scheme = "bearer" /\ header.key # "" THEN {header.key} ELSE {}

Configured(key) == key \in keys \cup policy.extra \/ sha256_hex(key) \in policy.hashed

\* auth.py:5-9 and DESIGN.md:340-341: with auth required only a call with a configured key
\* is served, and where the comparisons take the strings every call gets the answer
\* documented for it, so that no bearer of a configured key is turned away; the tenant is
\* the one the configuration names last for the key, anonymous for an unknown or missing
\* one (unless a pair of GW_TENANTS has a blank key, which a blank header then finds); an
\* admin call needs the token, and there is no empty token (server.py:391-400).
CallersAreWhoTheySay ==
  /\ lastCall.call = "chat" =>
       LET h == lastCall.header
           shown == Presented(h)
       IN  /\ policy.require /\ lastCall.outcome = "ok" => shown # {} /\ Configured(h.key)
           /\ policy.require /\ AllAscii(h.key) =>
                lastCall.outcome = IF shown = {} THEN "missing_api_key"
                                   ELSE IF Configured(h.key) THEN "ok" ELSE "invalid_api_key"
           /\ shown # {} \/ "" \notin keys =>
                lastCall.tenant = IF shown = {} THEN Anonymous ELSE Grant(h.key)
  /\ lastCall.call = "admin" /\ lastCall.outcome = "ok" =>
       /\ policy.token # ""
       /\ lastCall.adminKey = policy.token
          \/ (lastCall.adminKey = "" /\ lastCall.header = [scheme |-> "bearer", key |-> policy.token])

\* auth.py:5-8 "a request must carry `Authorization: Bearer <key>` with a key in the valid
\* set ...; otherwise it is rejected with 401".
UnknownKeysGet401 ==
  lastCall.call = "chat" /\ policy.require /\ ~Configured(lastCall.header.key) =>
    lastCall.outcome \in {"missing_api_key", "invalid_api_key"}

\* A counter over all its labels.
CallsIn(counter) == MapThenSumSet(LAMBDA l : counter[l], DOMAIN counter)

\* server.py:590-612: a call is counted once as served or as turned away, unless comparing
\* its key raised, which only auth does, and only where a string is not ASCII.
AccessIsCounted ==
  /\ CallsIn(servedAs) + CallsIn(turnedAway) + raised = accesses
  /\ ~policy.require => CallsIn(servedAs) = accesses
  /\ (Keys \cup ClearKeys \cup policy.hashed) \cap Foreigners = {} => raised = 0

AccessIsSound == CallersAreWhoTheySay /\ AccessIsCounted
=============================================================================
