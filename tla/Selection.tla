----------------------------- MODULE Selection -----------------------------
(***************************************************************************)
(* How chat_completions (gateway/server.py) narrows the backends for one   *)
(* request and what the end of the stream teaches the caches: the adapter  *)
(* filter, the semantic cache, open circuits, the session pin, chunk       *)
(* affinity, the pools of disaggregation and the media filter, in the      *)
(* order of the handler and without an await in between.  Admission and    *)
(* the choice inside a pool or among several candidates are free here; the *)
(* modules Admission, Disagg and Router have them.                         *)
(***************************************************************************)
EXTENDS SetAffinity, SessionAffinity

(***************************************************************************)
(* gateway/extensions/semantic_cache.py: a tenant's cache as a sequence of *)
(* entries, least recently used first, each with the topic its prompt was  *)
(* embedded as.  Similarity of two topics is a percentage; the embedder    *)
(* is external and fails for the topics that have none.                    *)
(***************************************************************************)
CONSTANTS Similarity,       \* topic -> topic -> percent
          Threshold, MaxEntries

ASSUME SemanticAssumption ==
  /\ \A s, t \in DOMAIN Similarity : Similarity[s][t] \in -100 .. 100
  /\ Threshold \in Int /\ MaxEntries \in Nat

Ids(c) == {e.id : e \in ToSet(c)}

\* The best entries for a topic; argmax takes the one inserted first.
Best(c, topic) ==
  LET top == Max({Similarity[e.topic][topic] : e \in ToSet(c)})
  IN  CHOOSE e \in ToSet(c) :
        /\ Similarity[e.topic][topic] = top
        /\ \A d \in ToSet(c) : Similarity[d.topic][topic] = top => e.id <= d.id

Embeds(topic) == topic \in DOMAIN Similarity

find_similar(c, topic) == c # <<>> /\ Similarity[Best(c, topic).topic][topic] >= Threshold

\* move_to_end of a hit.
touched(c, entry) == Append(Where(c, LAMBDA e : e.id # entry.id), entry)

NewId(c) == IF c = <<>> THEN 1 ELSE Max(Ids(c)) + 1

insert_entry(c, topic, text) ==
  LET grown == Append(c, [id |-> NewId(c), topic |-> topic, text |-> text])
      over == Max({0, Len(grown) - MaxEntries})
  IN  SubSeq(grown, over + 1, Len(grown))

---------------------------------------------------------------------------
(* The handler *)

CONSTANTS Asks,           \* requests
          Shape,          \* request -> tenant, topic, adapter, chunks, media, session
          Servers,        \* backends, numbered in registry order
          Adapters,       \* backend -> adapters loaded
          Caps,           \* backend -> modalities (mm_capabilities, {"text"} if absent)
          FallbackToBase, \* lora_fallback_to_base
          SplitPools,     \* prefill pools to start with, {} if not disaggregated
          ChunkCapacity, MediaCapacity,
          Shaky, MaxFlips \* bounds: which backends change health or circuit, how often

ASSUME SelectionAssumption ==
  /\ Servers \subseteq Nat /\ SplitPools \subseteq SUBSET Servers
  /\ Adapters \in [Servers -> SUBSET STRING] /\ Caps \in [Servers -> SUBSET STRING]
  /\ FallbackToBase \in BOOLEAN /\ MaxFlips \in Nat /\ Shaky \subseteq Servers
  /\ IsFiniteSet(Asks) /\ ChunkCapacity \in Nat /\ MediaCapacity \in Nat
  /\ \A r \in Asks : Shape[r].chunks \in Seq(Nat) /\ Shape[r].media \in Seq(DOMAIN Media)

VARIABLES
  ask,                \* request -> phase and backend
  unfit, tripped,     \* backends not in ids_for, and with an open circuit
  chunkIndex, mediaIndex, sessionPins, answers,   \* the caches
  split,              \* the prefill pool, fixed at start
  flips,
  \* history
  chunkLog,           \* backend -> chunk ids in the order they were recorded
  useLog              \* tenant -> cache entries in the order they were stored or hit

selVars == <<ask, unfit, tripped, chunkIndex, mediaIndex, sessionPins, answers, split, flips,
             chunkLog, useLog>>

Renters == {Shape[r].tenant : r \in Asks}

SelInit ==
  /\ ask = [r \in Asks |-> [phase |-> "new", at |-> 0]]
  /\ unfit = {} /\ tripped = {} /\ flips = 0
  /\ split \in SplitPools
  /\ chunkIndex = [b \in Servers |-> <<>>]
  /\ mediaIndex = [b \in Servers |-> <<>>]
  /\ sessionPins = <<>>
  /\ answers = [t \in Renters |-> <<>>]
  /\ chunkLog = [b \in Servers |-> <<>>]
  /\ useLog = [t \in Renters |-> <<>>]

\* LoadTracker.inflight
Inflight == [b \in Servers |-> Cardinality({r \in Asks : ask[r].phase = "streaming" /\ ask[r].at = b})]

---------------------------------------------------------------------------
lora_filter(adapter, pool) ==
  LET capable == {b \in pool : adapter \in Adapters[b]}
  IN  IF adapter = "none" THEN pool
      ELSE IF capable = {} /\ FallbackToBase THEN pool ELSE capable

ids(r) == lora_filter(Shape[r].adapter, Servers \ unfit)

\* Closed circuits, or all if every circuit is open.
AllowedOf(S) == IF S \subseteq tripped THEN S ELSE S \ tripped

\* The session pin, where there is one and it is a candidate.
Pinned(r, S) ==
  IF Shape[r].session = "none" THEN [table |-> sessionPins, backend |-> {}]
  ELSE pick(sessionPins, Shape[r].session, S, 0)

AfterPin(r, S) == IF Pinned(r, S).backend = {} THEN S ELSE Pinned(r, S).backend

\* The chunks of a RAG request, deduplicated and sorted before anything looks at them
\* (server.py:585 with rag_cfg.canonicalize on, its default).
Chunks(r) == canonicalize_chunks(Shape[r].chunks)

AfterRag(r, S) ==
  IF Shape[r].chunks = <<>> THEN S
  ELSE {choose_rag_backend(Chunks(r), S, chunkIndex, Inflight)}

\* Everything up to admission.
Affine(r) == AfterRag(r, AfterPin(r, AllowedOf(ids(r))))

\* Disaggregation replaces the candidates by one backend of its fixed pool.
SplitChoices(S) == IF split = {} THEN {S} ELSE {{b} : b \in split}

Required(r) == {"text"} \cup {Media[m].modality : m \in ToSet(Shape[r].media)}

\* Mutant: a backend without configured modalities takes anything.
AfterMediaTrusting(r, S) ==
  IF Shape[r].media = <<>> THEN S
  ELSE {choose_multimodal_backend(Shape[r].media, {"text"}, S, Caps, mediaIndex, Inflight)}

AfterMedia(r, S) ==
  IF Shape[r].media = <<>> THEN S
  ELSE IF Capable(S, Required(r), Caps) = {} THEN {}
  ELSE {choose_multimodal_backend(Shape[r].media, Required(r), S, Caps, mediaIndex, Inflight)}

_tenant(r) == Shape[r].tenant

\* lookup: an embedder that fails is a miss.
Hit(r) == Embeds(Shape[r].topic) /\ find_similar(answers[_tenant(r)], Shape[r].topic)

---------------------------------------------------------------------------
Leave(r, phase) == ask' = [ask EXCEPT ![r].phase = phase]

SelRest == <<unfit, tripped, chunkIndex, mediaIndex, split, flips, chunkLog>>

\* 503: no backend for the model, or with the adapter.
NoBackend(r) ==
  /\ ask[r].phase = "new" /\ ids(r) = {}
  /\ Leave(r, "503")
  /\ UNCHANGED <<SelRest, sessionPins, answers, useLog>>

\* A paraphrase is answered from the cache.
AnswerFromCache(r) ==
  LET t == _tenant(r)
      e == Best(answers[t], Shape[r].topic)
  IN  /\ ask[r].phase = "new" /\ ids(r) # {} /\ Hit(r)
      /\ ask' = [ask EXCEPT ![r] = [phase |-> "cached", at |-> 0, text |-> e.text]]
      /\ answers' = [answers EXCEPT ![t] = touched(@, e)]
      /\ useLog' = [useLog EXCEPT ![t] = Append(@, e.id)]
      /\ UNCHANGED <<SelRest, sessionPins>>

Misses(r) == ask[r].phase = "new" /\ ids(r) # {} /\ ~Hit(r)

PinTable(r) == Pinned(r, AllowedOf(ids(r))).table

\* Admission control refuses: after the pin and the chunks, before the pools.
ShedAsk(r) ==
  /\ Misses(r)
  /\ Leave(r, "503") /\ sessionPins' = PinTable(r)
  /\ UNCHANGED <<SelRest, answers, useLog>>

\* 415: none of the candidates that are left serves the modalities.
Unsupported(r) ==
  /\ Misses(r)
  /\ \E S \in SplitChoices(Affine(r)) : AfterMedia(r, S) = {}
  /\ Leave(r, "415") /\ sessionPins' = PinTable(r)
  /\ UNCHANGED <<SelRest, answers, useLog>>

\* The request streams from one of the candidates that are left.
Stream(r) ==
  /\ Misses(r)
  /\ \E S \in SplitChoices(Affine(r)) : \E b \in AfterMedia(r, S) :
       ask' = [ask EXCEPT ![r] = [phase |-> "streaming", at |-> b]]
  /\ sessionPins' = PinTable(r)
  /\ UNCHANGED <<SelRest, answers, useLog>>

\* The finally clause of body_iter. Only a 200 is remembered; a body that broke off is
\* stored like a whole one.
StreamOver(r, ok) ==
  LET b == ask[r].at
      t == _tenant(r)
      rag == ok /\ Shape[r].chunks # <<>>
      new == insert_entry(answers[t], Shape[r].topic, [tenant |-> Shape[r].tenant])
  IN  /\ ask[r].phase = "streaming"
      /\ Leave(r, "done")
      /\ IF ok /\ Embeds(Shape[r].topic)
         THEN /\ answers' = [answers EXCEPT ![t] = new]
              /\ useLog' = [useLog EXCEPT ![t] = Append(@, NewId(answers[t]))]
         ELSE UNCHANGED <<answers, useLog>>
      /\ chunkIndex' = [chunkIndex EXCEPT ![b] =
                          IF rag THEN record(@, Chunks(r), ChunkCapacity) ELSE @]
      /\ chunkLog' = [chunkLog EXCEPT ![b] = IF rag THEN @ \o Chunks(r) ELSE @]
      /\ mediaIndex' = [mediaIndex EXCEPT ![b] =
                          IF ok /\ Shape[r].media # <<>>
                          THEN record(@, Shape[r].media, MediaCapacity) ELSE @]
      /\ sessionPins' = IF ok /\ Shape[r].session # "none"
                 THEN remember(sessionPins, Shape[r].session, b, 0) ELSE sessionPins
      /\ UNCHANGED <<unfit, tripped, split, flips>>

\* Health, drain and circuits change between requests.
Flip(b) ==
  /\ flips < MaxFlips /\ flips' = flips + 1
  /\ \/ /\ unfit' = IF b \in unfit THEN unfit \ {b} ELSE unfit \cup {b}
        /\ UNCHANGED tripped
     \/ /\ tripped' = IF b \in tripped THEN tripped \ {b} ELSE tripped \cup {b}
        /\ UNCHANGED unfit
  /\ UNCHANGED <<ask, chunkIndex, mediaIndex, sessionPins, answers, split, chunkLog, useLog>>

SelNext ==
  \/ \E r \in Asks :
       \/ NoBackend(r) \/ AnswerFromCache(r) \/ ShedAsk(r) \/ Unsupported(r) \/ Stream(r)
       \/ \E ok \in BOOLEAN : StreamOver(r, ok)
  \/ \E b \in Shaky : Flip(b)

SelSpec == SelInit /\ [][SelNext]_selVars

---------------------------------------------------------------------------
\* The members of a log that were used last: fewer than n others came after them.
LastUsed(log, n) ==
  {x \in ToSet(log) :
     LET last == Max({i \in DOMAIN log : log[i] = x})
     IN  Cardinality({log[i] : i \in last + 1 .. Len(log)}) < n}

\* rag/index.py:27 "most-recently-used": a backend's index is exactly the chunks it
\* served last, up to the capacity, whatever the requests shared and in whatever order
\* their streams ended.
ChunkIndexIsRecent ==
  \A b \in Servers : ToSet(chunkIndex[b]) = LastUsed(chunkLog[b], ChunkCapacity)

\* rag/structure.py:14 "any two requests over the same chunk SET produce the same prefix".
SameChunksSamePrefix ==
  \A r, q \in Asks :
    (/\ ask[r].phase = "streaming" /\ ask[q].phase = "streaming"
     /\ ToSet(Shape[r].chunks) = ToSet(Shape[q].chunks)) => Chunks(r) = Chunks(q)

\* If a candidate that is no busier than the others holds all chunks of a request that
\* starts to stream, the request goes to one that does.
Attracted(r) ==
  LET S == AfterPin(r, AllowedOf(ids(r)))
      holders == {b \in S : ToSet(Shape[r].chunks) \subseteq ToSet(chunkIndex[b])}
  IN  (/\ ask[r].phase = "new" /\ ask'[r].phase = "streaming"
       /\ Shape[r].chunks # <<>> /\ Shape[r].media = <<>> /\ split = {}
       /\ \E b \in holders : \A c \in S : Inflight[b] <= Inflight[c]) => ask'[r].at \in holders

\* rag/router.py:5 "the backend that already has the most of its retrieved chunks", traded
\* off against load.
SharedChunksAttract == [][\A r \in Asks : Attracted(r)]_selVars

\* multimodal/router.py:5 "drop backends that can't serve every modality" and lora.py:16:
\* after every narrowing, whichever cache or pin proposed the backend, it serves the
\* request's modalities and, where the pools are not fixed at start, has its adapter.
BackendCanServe ==
  \A r \in Asks :
    ask[r].phase = "streaming" =>
      /\ Required(r) \subseteq Caps[ask[r].at] \/ Shape[r].media = <<>>
      /\ (Shape[r].adapter # "none" /\ ~FallbackToBase /\ split = {}) =>
           Shape[r].adapter \in Adapters[ask[r].at]

\* server.py:677 "Per-tenant, so no cross-tenant leak".
CachePerTenant ==
  \A r \in Asks : ask[r].phase = "cached" => ask[r].text.tenant = Shape[r].tenant

\* semantic_cache.py:49 "Per-tenant LRU": the entries kept are the ones stored or hit
\* last, also when two misses of one prompt store it twice.
CacheKeepsRecentlyUsed ==
  \A t \in Renters : Ids(answers[t]) = LastUsed(useLog[t], MaxEntries)

\* multimodal/request.py:27: after both rescalings an image is at most four tiles long
\* and two wide, whatever size the request claims.
ImageCostBounded ==
  \A r \in Asks : \A m \in ToSet(Shape[r].media) :
    (ask[r].phase = "streaming" /\ Media[m].modality = "image") =>
      tokens(Media[m]) \in ImageBase .. ImageBase + 8 * TileTokens

\* server.py:676-820 and 984: whatever the filters and indexes before it made of the
\* candidates, the backend can serve the request; the indexes say what was last sent
\* where and attract what shares it; a cached answer is the tenant's own and the least
\* recently used one goes first.
SelectionIsSound ==
  /\ [](/\ BackendCanServe /\ ChunkIndexIsRecent /\ SameChunksSamePrefix /\ ImageCostBounded
        /\ CachePerTenant /\ CacheKeepsRecentlyUsed)
  /\ SharedChunksAttract
=============================================================================
