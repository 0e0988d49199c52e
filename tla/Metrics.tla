------------------------------- MODULE Metrics -------------------------------
(***************************************************************************)
(* MetricsCollector (gateway/metrics.py) and the endpoint that refreshes   *)
(* the gauges and renders a page (metrics_endpoint of gateway/server.py).  *)
(* A series is a metric name with its labels, an index of the collector's  *)
(* maps; the exposition text is abstracted to the numbers it shows.  Each  *)
(* method holds the collector's lock, so it is one step; between two of    *)
(* them the fleet changes.                                                 *)
(***************************************************************************)
EXTENDS Lists

CONSTANTS Gauged,        \* backends with gauges
          Bounds,        \* series of a histogram -> its bucket bounds
          Samples,       \* observed values
          MaxUpdates     \* bound: updates of the collector

ASSUME MetricsAssumption ==
  /\ \A s \in DOMAIN Bounds :
       Bounds[s] \in Seq(Nat) /\ \A i, k \in DOMAIN Bounds[s] : i < k => Bounds[s][i] < Bounds[s][k]
  /\ Samples \subseteq Nat /\ MaxUpdates \in Nat

VARIABLES counters, gauges, hist,    \* the collector: series -> value
          pool,                      \* the registry: backend -> [up, inflight]
          page,                      \* the last page rendered
          samples                    \* history: what was observed, per series

metricsVars == <<counters, gauges, hist, pool, page, samples>>

NoPage == [counters |-> <<>>, gauges |-> <<>>, hist |-> <<>>]

MetricsInit ==
  /\ counters = <<>> /\ gauges = <<>> /\ hist = <<>>
  /\ pool = [b \in Gauged |-> [up |-> TRUE, inflight |-> 0]]
  /\ page = NoPage
  /\ samples = [s \in DOMAIN Bounds |-> <<>>]

Known(map, s, default) == IF s \in DOMAIN map THEN map[s] ELSE default

inc_counter(s, value) == counters' = Put(counters, s, Known(counters, s, 0) + value)

\* Mutant: a value is counted in the first bucket it fits only.
FitsFirst(bounds, i, value) == value <= bounds[i] /\ (i > 1 => value > bounds[i - 1])

Fits(bounds, i, value) == value <= bounds[i]

\* observe: the first observation of a series makes its buckets; every bucket whose
\* bound the value does not exceed counts it.
observe(s, value) ==
  LET bounds == Bounds[s]
      h == Known(hist, s, [counts |-> [i \in DOMAIN bounds |-> 0], sum |-> 0, count |-> 0])
  IN  hist' = Put(hist, s,
                  [counts |-> [i \in DOMAIN bounds |->
                                 h.counts[i] + IF Fits(bounds, i, value) THEN 1 ELSE 0],
                   sum |-> h.sum + value,
                   count |-> h.count + 1])

---------------------------------------------------------------------------
\* A request is observed; what it counts, it counts at another place of its handler.
Observed(s, value) ==
  /\ MapThenSumSet(LAMBDA x : Len(samples[x]), DOMAIN samples) < MaxUpdates
  /\ observe(s, value)
  /\ samples' = [samples EXCEPT ![s] = Append(@, value)]
  /\ UNCHANGED <<counters, gauges, pool, page>>

Increments(s) ==
  /\ Known(counters, s, 0) < MaxUpdates
  /\ inc_counter(s, 1)
  /\ UNCHANGED <<gauges, hist, pool, page, samples>>

\* Load and health of a backend change; an operator removes it or adds it again.
FleetMoves(b, up, n) ==
  /\ pool' = Put(pool, b, [up |-> up, inflight |-> n])
  /\ pool' # pool
  /\ UNCHANGED <<counters, gauges, hist, page, samples>>

FleetLoses(b) ==
  /\ b \in DOMAIN pool
  /\ pool' = [x \in DOMAIN pool \ {b} |-> pool[x]]
  /\ UNCHANGED <<counters, gauges, hist, page, samples>>

\* One set_gauge per backend: the gauges of a backend that is gone keep their values.
set_gauges(fleet) ==
  gauges' = [b \in DOMAIN fleet \cup DOMAIN gauges |-> IF b \in DOMAIN fleet THEN fleet[b] ELSE gauges[b]]

\* render writes after the buckets one without bound that shows the count.
render(g) ==
  [counters |-> counters, gauges |-> g,
   hist |-> [s \in DOMAIN hist |->
               [le |-> Append(hist[s].counts, hist[s].count), sum |-> hist[s].sum]]]

\* metrics_endpoint: refresh the gauges from the registry, then render.
metrics_endpoint ==
  /\ set_gauges(pool)
  /\ page' = render(gauges')
  /\ UNCHANGED <<counters, hist, pool, samples>>

MetricsNext ==
  \/ \E s \in DOMAIN Bounds : Increments(s) \/ \E value \in Samples : Observed(s, value)
  \/ \E b \in Gauged : FleetLoses(b) \/ \E up \in BOOLEAN, n \in 0 .. 1 : FleetMoves(b, up, n)
  \/ metrics_endpoint

MetricsSpec == MetricsInit /\ [][MetricsNext]_metricsVars

---------------------------------------------------------------------------
\* How many of the observations are not above a bound.
Within(seq, bound) == Cardinality({i \in DOMAIN seq : seq[i] <= bound})

\* metrics.py:66 "cumulative "le" semantics": a bucket counts the observations that are not
\* above its bound, so on a page the buckets never decrease and the one without bound is
\* the number of observations made before it; and no series of a page ever runs backwards.
PagesAreCumulative ==
  /\ \A s \in DOMAIN hist :
       /\ hist[s].count = Len(samples[s])
       /\ \A i \in DOMAIN Bounds[s] : hist[s].counts[i] = Within(samples[s], Bounds[s][i])
  /\ \A s \in DOMAIN page.hist :
       LET le == page.hist[s].le
       IN  /\ \A i \in 1 .. Len(Bounds[s]) : le[i] <= le[i + 1] /\ le[i] <= hist[s].counts[i]
           /\ page.hist[s].sum <= hist[s].sum
  /\ \A s \in DOMAIN page.counters : page.counters[s] <= counters[s]
=============================================================================
