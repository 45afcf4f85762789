----------------------------- MODULE Aggregates -----------------------------
(***************************************************************************)
(* The counters of the engine are sums over what its containers hold: the  *)
(* bytes of the queued completions, of the cached payloads, of the pending *)
(* messages of a peer.  This module defines the sum of a function over a   *)
(* finite set, and what a filter leaves of a sequence, in the form         *)
(* AggregateTheorems proves facts about.                                   *)
(***************************************************************************)
EXTENDS Integers, Sequences, FiniteSets, FiniteSetsExt

\* The sum of the naturals f[x] for x in the finite set S.
Total(f, S) == MapThenSumSet(LAMBDA x : f[x], S)

\* The sum of the weights w[e] of the elements e of the sequence s.
SeqTotal(w, s) == Total([k \in DOMAIN s |-> w[s[k]]], DOMAIN s)

\* What is left of the sequence s at the positions K, in order.
Subsequence(s, K) ==
    [n \in 1 .. Cardinality(K) |-> s[CHOOSE k \in K : Cardinality({j \in K : j <= k}) = n]]

=============================================================================
