---------------------------- MODULE SetAffinity ----------------------------
(***************************************************************************)
(* Set-based cache affinity: the LRU indexes of RAG chunks and of media    *)
(* per backend, the two choices that use them and the cost of an image     *)
(* (gateway/rag, gateway/multimodal).  Ids stand for the hashes of chunks  *)
(* and media.  An LRU set is a sequence, least recently used first;        *)
(* backends are numbered in registry order, which decides ties.            *)
(***************************************************************************)
EXTENDS Lists

CONSTANTS ChunkTokens,                  \* tokens of a chunk
          Media,                        \* media id -> modality, size, detail, seconds
          AffinityPrefillMs, AffinityServiceMs, AffinityLimit,
          ImageBase, TileTokens, AudioTokensPerSecond

\* A chunk costs something to prefill; media have the sizes and lengths they claim.
ASSUME AffinityAssumption ==
  /\ ChunkTokens \in Nat \ {0} /\ AffinityPrefillMs \in Nat \ {0}
  /\ AffinityServiceMs \in Nat /\ AffinityLimit \in Nat
  /\ ImageBase \in Nat /\ TileTokens \in Nat /\ AudioTokensPerSecond \in Nat
  /\ \A m \in DOMAIN Media :
       /\ Media[m].modality = "image" => Media[m].width \in Nat /\ Media[m].height \in Nat
       /\ Media[m].modality = "audio" => Media[m].seconds \in Nat

\* c[id] = None; move_to_end(id)
touch(c, id) == Append(Where(c, LAMBDA x : x # id), id)

record(c, ids, capacity) ==
  LET grown == FoldLeft(touch, c, ids)
      over == Max({0, Len(grown) - capacity})
  IN  SubSeq(grown, over + 1, Len(grown))

overlap(c, ids) == Cardinality({i \in DOMAIN ids : ids[i] \in ToSet(c)})

\* Deduplicated and sorted by id (RagConfig.canonicalize is taken as on, its default).
canonicalize_chunks(chunks) == Sorted(ToSet(chunks))

\* The first backend of the lowest cost.
CheapestOf(cost) ==
  CHOOSE b \in DOMAIN cost :
    \A c \in DOMAIN cost : cost[b] < cost[c] \/ (cost[b] = cost[c] /\ b <= c)

\* The unsaturated backends, or all of them.
EligibleOf(S, inflight) ==
  LET fit == {b \in S : inflight[b] <= AffinityLimit} IN IF fit = {} THEN S ELSE fit

\* Mutant: the index is not asked.
rag_cost_blind(c, chunks, n) == AffinityPrefillMs * Len(chunks) * ChunkTokens + n * AffinityServiceMs

rag_cost(c, chunks, n) ==
  AffinityPrefillMs * Max({0, Len(chunks) - overlap(c, chunks)}) * ChunkTokens
    + n * AffinityServiceMs

choose_rag_backend(chunks, backends, index, inflight) ==
  CheapestOf([b \in EligibleOf(backends, inflight) |-> rag_cost(index[b], chunks, inflight[b])])

---------------------------------------------------------------------------
CeilDiv(a, b) == (a + b - 1) \div b

\* The rescaled sides of an image as fractions of a common denominator: the longer side
\* to 2048 and, if the shorter one is then still over 768, that one to 768.
Rescaled(w, h) ==
  LET long == Max({w, h})
      short == Min({w, h})
      fitted == IF long > 2048 THEN [w |-> w * 2048, h |-> h * 2048, den |-> long]
                ELSE [w |-> w, h |-> h, den |-> 1]
  IN  IF Min({fitted.w, fitted.h}) > 768 * fitted.den
      THEN [w |-> w * 768, h |-> h * 768, den |-> short] ELSE fitted

image_tokens(w, h, detail) ==
  LET r == Rescaled(w, h)
  IN  IF detail = "low" THEN ImageBase
      ELSE ImageBase + TileTokens * CeilDiv(r.w, 512 * r.den) * CeilDiv(r.h, 512 * r.den)

\* MediaItem.tokens
tokens(m) ==
  CASE m.modality = "image" -> image_tokens(m.width, m.height, m.detail)
    [] m.modality = "audio" -> m.seconds * AudioTokensPerSecond
    [] OTHER -> 0

---------------------------------------------------------------------------
media_cost(c, media, n) ==
  AffinityPrefillMs * FoldLeft(LAMBDA sum, m : sum + (IF m \in ToSet(c) THEN 0 ELSE tokens(Media[m])),
                               0, media)
    + n * AffinityServiceMs

\* The backends that serve every modality of the request.
Capable(backends, required, caps) == {b \in backends : required \subseteq caps[b]}

choose_multimodal_backend(media, required, backends, caps, index, inflight) ==
  CheapestOf([b \in EligibleOf(Capable(backends, required, caps), inflight) |->
                media_cost(index[b], media, inflight[b])])
=============================================================================
