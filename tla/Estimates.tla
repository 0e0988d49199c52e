----------------------------- MODULE Estimates -----------------------------
(***************************************************************************)
(* What the router's estimate of a backend is made of: the blocks it finds *)
(* cached, and a learned model.                                            *)
(*                                                                         *)
(* Block hashing and per-tenant isolation are modelled on both sides of    *)
(* the wire: the gateway hashes a prompt to route it (gateway/hashing.py,  *)
(* server.py), the backend hashes it to reuse its KV cache                 *)
(* (mock_backend/app.py).  The 64-bit FNV chain is taken as free of        *)
(* collisions: the hash of a block is the seed followed by the blocks up   *)
(* to it.  A prompt is a sequence of characters; with use_bpe_hashing the  *)
(* gateway hashes its token ids instead (gateway/extensions/               *)
(* bpe_hashing.py), and falls back to the characters while the tokenizer   *)
(* cannot be loaded.                                                       *)
(*                                                                         *)
(* The learned TTFT model (gateway/extensions/ttft_predictor.py) is loaded *)
(* when the gateway starts and blended with the static estimate            *)
(* (gateway/router.py).  The trainer (scripts/train_ttft_model.py)         *)
(* overwrites the model file while the gateway runs and while it starts.   *)
(* Estimates are in hundredths of a millisecond, the weight in percent.    *)
(***************************************************************************)
EXTENDS Lists

(* Cached blocks *)

CONSTANTS Texts,        \* prompts of the clients
          TenantIds,       \* tenant ids, never empty: the key stands in for a missing one
          BlockChars,      \* block_chars
          Cutoff,          \* hash_cutoff_blocks
          TokenIds,        \* external: prompt -> the ids the tokenizer gives it
          TokenBlock,      \* block_tokens
          CharsPerToken,   \* chars_per_token
          KvBlocks,        \* cap_blocks of the backend
          MaxServed        \* bound on the requests of a behaviour

ASSUME CacheAssumption ==
  /\ BlockChars \in Nat \ {0} /\ Cutoff \in Nat /\ KvBlocks \in Nat \ {0} /\ MaxServed \in Nat
  /\ TokenBlock \in Nat \ {0} /\ CharsPerToken \in Nat /\ DOMAIN TokenIds = Texts
  /\ TenantIds \subseteq Seq(STRING) \ {<<>>} /\ Texts \subseteq Seq(STRING)
  \* an id is four bytes of which the last is NUL, which no prompt holds
  /\ \A p, q \in Texts : TokenIds[p] \in Seq(STRING) /\ ToSet(q) \cap ToSet(TokenIds[p]) = {}

VARIABLES
  isolation,  \* prefix_isolation: tenant or global
  useBpe,     \* use_bpe_hashing, and token_accurate_accounting with it
  tokenizer,  \* whether _tokenizer is loaded
  kv,         \* the backend's cache, least recently used first
  served,     \* history: requests so far
  last        \* the last request: its hashes at the gateway and at the backend, its hits

cacheVars == <<isolation, useBpe, tokenizer, kv, served, last>>

\* Mutant: a block's hash does not fold in the one before it.
ChainUnlinked(prev, chunk) == <<chunk>>

Chain(prev, chunk) == Append(prev, chunk)

\* stable_seed of a tenant id; the seed 0 is the empty chain.
stable_seed(id) == <<id>>

Chunk(units, size, i) == SubSeq(units, (i - 1) * size + 1, i * size)

\* The chained hash of each full block of size units, truncated to the cutoff.
chained_hashes(units, size, seed) ==
  LET n == Min({Len(units) \div size, Cutoff})
      hash[i \in 0 .. n] == IF i = 0 THEN seed ELSE Chain(hash[i - 1], Chunk(units, size, i))
  IN  [i \in 1 .. n |-> hash[i]]

block_hashes(prompt, seed) == chained_hashes(prompt, BlockChars, seed)

bpe_block_hashes(prompt, seed) == chained_hashes(TokenIds[prompt], TokenBlock, seed)

\* _load_tokenizer: what was loaded stays; otherwise an attempt, which may fail.
load_tokenizer(loads) == tokenizer \/ loads

\* "bpe" when it is asked for and the tokenizer is there, else "char".
Mode(loads) == IF useBpe /\ load_tokenizer(loads) THEN "bpe" ELSE "char"

block_hashes_with_fallback(prompt, seed, mode) ==
  IF mode = "bpe" THEN bpe_block_hashes(prompt, seed) ELSE block_hashes(prompt, seed)

\* Tokens charged for a prompt: counted, or estimated from its length.
count_tokens_with_fallback(prompt, mode) ==
  Max({1, IF mode = "bpe" THEN Len(TokenIds[prompt])
          ELSE Len(prompt) \div Max({1, CharsPerToken})})

\* The seed of the routing hashes and the salt put into the forwarded body; a client's
\* own cache_salt is left out.
GatewaySeed(t) == IF isolation = "tenant" THEN stable_seed(t) ELSE <<>>

CacheSalt(t) == IF isolation = "tenant" THEN t ELSE <<>>

BackendSeed(salt) == IF salt # <<>> THEN stable_seed(salt) ELSE <<>>

\* The leading blocks the backend holds.
Hits(h) == Max({n \in 0 .. Len(h) : \A i \in 1 .. n : h[i] \in ToSet(kv)})

\* Touch or add a block, dropping the oldest beyond the capacity.
Touch(cache, x) ==
  IF x \in ToSet(cache) THEN Append(Where(cache, LAMBDA y : y # x), x)
  ELSE IF Len(cache) = KvBlocks THEN Append(Tail(cache), x)
  ELSE Append(cache, x)

Process(cache, h) == FoldLeft(Touch, cache, h)

CacheInit ==
  /\ isolation \in {"tenant", "global"}
  /\ useBpe \in BOOLEAN /\ tokenizer = FALSE
  /\ kv = <<>>
  /\ served = <<>>
  /\ last = [backend |-> <<>>, hits |-> 0]

\* A request: the gateway estimates and hashes its prompt, the backend looks it up.
Serve(t, p, loads) ==
  LET h == block_hashes(p, BackendSeed(CacheSalt(t)))
      mode == Mode(loads)
  IN  /\ Len(served) < MaxServed
      /\ tokenizer' = (mode = "bpe")
      /\ last' = [backend |-> h, hits |-> Hits(h)]
      /\ kv' = Process(kv, h)
      /\ served' = Append(served, [tenant |-> t, prompt |-> p, mode |-> mode,
                                   hashes |-> block_hashes_with_fallback(p, GatewaySeed(t), mode),
                                   tokens |-> count_tokens_with_fallback(p, mode)])
      /\ UNCHANGED <<isolation, useBpe>>

CacheNext == \E t \in TenantIds, p \in Texts, loads \in BOOLEAN : (loads => useBpe) /\ Serve(t, p, loads)

CacheSpec == CacheInit /\ [][CacheNext]_cacheVars

---------------------------------------------------------------------------
\* Leading full blocks two prompts have in common, below the cutoff.
CommonBlocks(p, q) ==
  Min({Cutoff, Len(LongestCommonPrefix({p, q})) \div BlockChars})

\* The earlier requests that may share cached blocks with request n.
Mates(n) ==
  {served[i].prompt : i \in {j \in 1 .. n - 1 :
     isolation = "global" \/ served[j].tenant = served[n].tenant}}

\* "block i is a cache hit only if the ENTIRE prefix up to block i is identical"
\* (hashing.py:5-6) and "tenants neither share nor leak (via TTFT) each other's cache"
\* (server.py:669-670): the hits of a request never exceed what it shares with one
\* earlier request of its tenant, and reach it while nothing had to be evicted.
HitsArePrefixExact ==
  LET n == Len(served)
      shared == Max({0} \cup {CommonBlocks(served[n].prompt, q) : q \in Mates(n)})
  IN  n > 0 => /\ last.hits <= shared
               /\ Len(kv) < KvBlocks => last.hits = shared

\* The blocks the gateway routes by are the blocks the backend caches by
\* (app.py:4-6, server.py:668-674), when both hash characters.
SameBlocksBothSides ==
  served # <<>> /\ Last(served).mode = "char" => Last(served).hashes = last.backend

\* What the gateway hashed of a request, and how much of it to a block.
UnitsOf(r) == IF r.mode = "bpe" THEN TokenIds[r.prompt] ELSE r.prompt
SizeOf(r) == IF r.mode = "bpe" THEN TokenBlock ELSE BlockChars

\* bpe_hashing.py:11 "behaviour is identical modulo the input units": two requests that may
\* share blocks agree on exactly the leading blocks their units have in common, and on none
\* when one was hashed before the tokenizer could be loaded; once it is loaded no later
\* request falls back; and every request is charged for a token at least (line 78).
FallbackIsHarmless ==
  \A i \in 1 .. Len(served) - 1 :
    LET q == served[i]
        r == Last(served)
    IN  /\ q.mode = "bpe" => r.mode = "bpe"
        /\ Len(LongestCommonPrefix({r.hashes, q.hashes})) =
             IF r.mode # q.mode \/ (isolation = "tenant" /\ r.tenant # q.tenant) THEN 0
             ELSE Min({Cutoff, Len(LongestCommonPrefix({UnitsOf(r), UnitsOf(q)})) \div SizeOf(r)})
        /\ r.tokens > 0

---------------------------------------------------------------------------
(* The learned estimate *)

CONSTANTS Weights,         \* trained models, numbered from 1
          Predicts,        \* model -> prediction in ms; negative, NaN and failure are -1
          StaticMs,        \* static estimates that occur
          BlendPercent,    \* ttft_predictor_weight, as configured
          MaxBoots         \* bound on restarts of the gateway

ASSUME PredictorAssumption ==
  /\ Weights \subseteq Nat \ {0} /\ Predicts \in [Weights -> Nat \cup {-1}]
  /\ StaticMs \subseteq Nat /\ BlendPercent \in Int /\ MaxBoots \in Nat

NoModel == 0

VARIABLES
  disk,      \* the model file: its model, whether it is complete, its mtime
  model,     \* TTFTPredictor._model
  mtime,     \* TTFTPredictor._mtime
  boots,
  estimate   \* the last _est_ttft: its inputs and its value

predictorVars == <<disk, model, mtime, boots, estimate>>

\* _reload_if_changed: what model and mtime become.  A file that is being written does
\* not load; the mtime is remembered only after a load.
Reloaded(m, t) ==
  IF disk.mtime \in {0, t} THEN [model |-> m, mtime |-> t]
  ELSE IF disk.whole THEN [model |-> disk.model, mtime |-> disk.mtime]
  ELSE [model |-> NoModel, mtime |-> t]

PredictorInit ==
  /\ disk = [model |-> NoModel, whole |-> FALSE, mtime |-> 0]
  /\ model = NoModel /\ mtime = 0
  /\ boots = 0
  /\ estimate = [static |-> 0, predicted |-> -1, value |-> 0]

\* The trainer opens the file, and later has written all of it.
TrainOpens(w) ==
  /\ w > disk.model /\ (disk.mtime = 0 \/ disk.whole)
  /\ disk' = [model |-> w, whole |-> FALSE, mtime |-> disk.mtime + 1]
  /\ UNCHANGED <<model, mtime, boots, estimate>>

TrainCloses ==
  /\ disk.mtime > 0 /\ ~disk.whole
  /\ disk' = [disk EXCEPT !.whole = TRUE, !.mtime = @ + 1]
  /\ UNCHANGED <<model, mtime, boots, estimate>>

\* The constructor, when the gateway is started or restarted.
Boot ==
  LET fresh == Reloaded(NoModel, 0)
  IN  /\ boots < MaxBoots
      /\ boots' = boots + 1
      /\ model' = fresh.model /\ mtime' = fresh.mtime
      /\ UNCHANGED <<disk, estimate>>

blended_ttft(static, predicted) ==
  LET w == IF BlendPercent < 0 THEN 0 ELSE IF BlendPercent > 100 THEN 100 ELSE BlendPercent
  IN  IF predicted < 0 THEN 100 * static
      ELSE (100 - w) * static + w * predicted

\* predict tries to load a model it does not have, but _est_ttft does not call it then.
Predicted == IF model = NoModel THEN -1 ELSE Predicts[model]

\* _est_ttft, on every routing decision.
Score(static) ==
  /\ boots > 0
  /\ estimate' = [static |-> static, predicted |-> Predicted,
                  value |-> blended_ttft(static, Predicted)]
  /\ UNCHANGED <<disk, model, mtime, boots>>

PredictorNext ==
  \/ \E w \in Weights : TrainOpens(w)
  \/ TrainCloses
  \/ Boot
  \/ \E ms \in StaticMs : Score(ms)

PredictorSpec == PredictorInit /\ [][PredictorNext]_predictorVars

---------------------------------------------------------------------------
\* Whatever the configured weight, and with a missing, torn or misbehaving model, the
\* router compares estimates between the static one and the prediction
\* (ttft_predictor.py:144-154, router.py:122).
EstimateIsBetween ==
  LET s == 100 * estimate.static
      p == IF estimate.predicted < 0 THEN s ELSE 100 * estimate.predicted
  IN  (s <= estimate.value /\ estimate.value <= p) \/ (p <= estimate.value /\ estimate.value <= s)

\* What a score is made of: hits the backend will really have (hashing.py, app.py), the
\* same with and without a tokenizer (bpe_hashing.py), and a blend that stays between its
\* two estimates (ttft_predictor.py).
EstimatesAreSound ==
  HitsArePrefixExact /\ SameBlocksBothSides /\ FallbackIsHarmless /\ EstimateIsBetween
=============================================================================
