-------------------------------- MODULE Wire --------------------------------
(***************************************************************************)
(* Events between gateway replicas as they are on the wire                 *)
(* (gateway/cluster/events.py), and the endpoint that takes a pushed batch *)
(* (receive_gossip and ingest).  A JSON object is a function from its      *)
(* one-letter tags to values.  A peer of another version may leave out a   *)
(* tag, and a body may not be JSON at all; decoding yields a sequence of   *)
(* at most one event, empty where from_json raises.                        *)
(***************************************************************************)
EXTENDS Naturals, Sequences, SequencesExt

CONSTANTS WireSelf,      \* the replica that receives
          WireOrigins,   \* replica ids, its own included
          MaxWire        \* bound: events pushed

ASSUME WireAssumption == WireSelf \in WireOrigins /\ MaxWire \in Nat

VARIABLES wireInbox,     \* HttpGossipBus._inbox
          pushed         \* history: what peers pushed, in order

wireVars == <<wireInbox, pushed>>

Garbage == <<>>          \* a body that json.loads refuses: an object with no tags

INSERT == "insert"
MEMBER_KINDS == {"member_add", "member_remove"}
DIGEST_KINDS == {"draindigest", "member_digest"}

---------------------------------------------------------------------------
(* to_json of the six event classes                                        *)

PrefixToJson(e) == [k |-> e.kind, b |-> e.host, o |-> e.origin, s |-> e.seq, h |-> e.hashes]
LoadToJson(e) == [k |-> "load", o |-> e.origin, s |-> e.seq, l |-> e.inflight, u |-> e.unhealthy]
\* The flag travels as a number.
DrainToJson(e) == [k |-> "drainop", o |-> e.origin, s |-> e.seq, t |-> e.ts, b |-> e.host,
                   d |-> IF e.draining THEN 1 ELSE 0]
DrainDigestToJson(e) == [k |-> "draindigest", o |-> e.origin, s |-> e.seq, e |-> e.entries]
MemberToJson(e) == [k |-> e.kind, o |-> e.origin, s |-> e.seq, b |-> e.host, u |-> e.url,
                    m |-> e.model, t |-> e.ts]
MemberDigestToJson(e) == [k |-> "member_digest", o |-> e.origin, s |-> e.seq, e |-> e.entries]

to_json(e) == CASE e.kind = "load" -> LoadToJson(e)
                [] e.kind = "drainop" -> DrainToJson(e)
                [] e.kind = "draindigest" -> DrainDigestToJson(e)
                [] e.kind = "member_digest" -> MemberDigestToJson(e)
                [] e.kind \in MEMBER_KINDS -> MemberToJson(e)
                [] OTHER -> PrefixToJson(e)

---------------------------------------------------------------------------
(* from_json                                                               *)

\* d[tag] raises where the tag is missing.
Needs(d, tags, event) == IF tags \subseteq DOMAIN d THEN <<event>> ELSE <<>>

\* d.get(tag) or default.
Get(d, tag, default) == IF tag \in DOMAIN d THEN d[tag] ELSE default

PrefixFromJson(d) ==
  Needs(d, {"k", "b", "o", "s"},
        [kind |-> d.k, host |-> d.b, origin |-> d.o, seq |-> d.s, hashes |-> Get(d, "h", <<>>)])

LoadFromJson(d) ==
  Needs(d, {"o", "s"},
        [kind |-> "load", origin |-> d.o, seq |-> d.s, inflight |-> Get(d, "l", <<>>),
         unhealthy |-> Get(d, "u", <<>>)])

DrainFromJson(d) ==
  Needs(d, {"o", "s", "t", "b", "d"},
        [kind |-> "drainop", origin |-> d.o, seq |-> d.s, ts |-> d.t, host |-> d.b,
         draining |-> d.d # 0])

DrainDigestFromJson(d) ==
  Needs(d, {"o", "s"},
        [kind |-> "draindigest", origin |-> d.o, seq |-> d.s, entries |-> Get(d, "e", <<>>)])

MemberDigestFromJson(d) ==
  Needs(d, {"o", "s"},
        [kind |-> "member_digest", origin |-> d.o, seq |-> d.s, entries |-> Get(d, "e", <<>>)])

MemberFromJson(d) ==
  Needs(d, {"o", "s", "k", "b"},
        [kind |-> d.k, origin |-> d.o, seq |-> d.s, host |-> d.b, url |-> Get(d, "u", ""),
         model |-> Get(d, "m", ""), ts |-> Get(d, "t", 0)])

\* Mutant: a removal is not recognised as a membership event.
decode_adds_only(d) ==
  LET kind == Get(d, "k", "")
  IN  CASE kind = "load" -> LoadFromJson(d)
        [] kind = "drainop" -> DrainFromJson(d)
        [] kind = "member_add" -> MemberFromJson(d)
        [] kind = "draindigest" -> DrainDigestFromJson(d)
        [] kind = "member_digest" -> MemberDigestFromJson(d)
        [] OTHER -> PrefixFromJson(d)

\* Dispatch on the tag "k"; whatever is no other kind is read as a PrefixEvent.
decode_event(d) ==
  LET kind == Get(d, "k", "")
  IN  CASE kind = "load" -> LoadFromJson(d)
        [] kind = "drainop" -> DrainFromJson(d)
        [] kind = "draindigest" -> DrainDigestFromJson(d)
        [] kind = "member_digest" -> MemberDigestFromJson(d)
        [] kind \in MEMBER_KINDS -> MemberFromJson(d)
        [] OTHER -> PrefixFromJson(d)

---------------------------------------------------------------------------
\* ingest drops the replica's own events.
ingest(events) == wireInbox \o SelectSeq(events, LAMBDA e : e.origin # WireSelf)

\* receive_gossip: what cannot be decoded is skipped, the rest of the batch is kept.
receive_gossip(batch) == wireInbox' = ingest(FlattenSeq([i \in DOMAIN batch |-> decode_event(batch[i])]))

WireInit == wireInbox = <<>> /\ pushed = <<>>

\* The events a peer may push: those of every class, with nothing at its default.
WireEvents ==
  {[kind |-> k, host |-> "h", origin |-> o, seq |-> 1, hashes |-> <<7, 8>>] :
     k \in {INSERT, "remove_backend", "future_kind"}, o \in WireOrigins}
  \cup {[kind |-> "load", origin |-> o, seq |-> 1, inflight |-> [h |-> 2], unhealthy |-> <<"h">>] :
     o \in WireOrigins}
  \cup {[kind |-> "drainop", origin |-> o, seq |-> 1, ts |-> 1, host |-> "h", draining |-> f] :
     o \in WireOrigins, f \in BOOLEAN}
  \cup {[kind |-> k, origin |-> o, seq |-> 1, entries |-> [h |-> <<TRUE, 1, "g1">>]] :
     k \in DIGEST_KINDS, o \in WireOrigins}
  \cup {[kind |-> k, origin |-> o, seq |-> 1, host |-> "h", url |-> "u", model |-> "m", ts |-> 1] :
     k \in MEMBER_KINDS, o \in WireOrigins}

\* An object without one of its tags; lost = "" leaves it whole.
Stripped(d, lost) == [t \in DOMAIN d \ {lost} |-> d[t]]

\* A post of two events: one that is whole, without a tag, or no JSON, and a whole one,
\* before or after it.
Push(e, lost, whole, leads) ==
  LET body == IF lost = "garbage" THEN Garbage ELSE Stripped(to_json(e), lost)
      post(x, y) == IF leads THEN <<x, y>> ELSE <<y, x>>
  IN  /\ Len(pushed) + 2 <= MaxWire
      /\ receive_gossip(post(body, to_json(whole)))
      /\ pushed' = pushed \o post([event |-> e, lost |-> lost], [event |-> whole, lost |-> ""])

WireNext ==
  \E e, whole \in WireEvents, leads \in BOOLEAN :
    \E lost \in {"", "garbage"} \cup DOMAIN to_json(e) :
      whole.kind \in {INSERT, "load"} /\ Push(e, lost, whole, leads)

WireSpec == WireInit /\ [][WireNext]_wireVars

---------------------------------------------------------------------------
\* The value the dataclasses give a field that is not set.
FieldOf == [h |-> "hashes", l |-> "inflight", u |-> "unhealthy", e |-> "entries", m |-> "model", t |-> "ts"]

\* What a pushed event means: itself; with the dataclass default (events.py:38, 73, 149)
\* for an optional field that is missing; nothing when it cannot be identified.
Meaning(p) ==
  LET e == p.event
      optional == CASE e.kind = "load" -> {"l", "u"}
                    [] e.kind \in DIGEST_KINDS -> {"e"}
                    [] e.kind \in MEMBER_KINDS -> {"u", "m", "t"}
                    [] e.kind = "drainop" -> {}
                    [] OTHER -> {"h"}
      field == IF e.kind \in MEMBER_KINDS /\ p.lost = "u" THEN "url" ELSE FieldOf[p.lost]
      default == CASE field \in {"url", "model"} -> "" [] field = "ts" -> 0 [] OTHER -> <<>>
  IN  IF p.lost = "" THEN <<e>>
      ELSE IF p.lost \in optional THEN <<[e EXCEPT ![field] = default]>>
      ELSE <<>>

\* events.py:190 "Deserialize any event type off the wire" and coordinator.py:199-213: every
\* event a peer pushed is queued as it was sent, in its order and once; one that cannot be
\* read takes nothing else of its batch with it; and the replica's own are left out.
WireIsFaithful ==
  wireInbox = SelectSeq(FlattenSeq([i \in DOMAIN pushed |-> Meaning(pushed[i])]),
                        LAMBDA e : e.origin # WireSelf)
=============================================================================
