----------------------- MODULE MCContentAvailability -----------------------
(* Small packages for TLC: the shapes, sizes and limits of the runs.       *)
EXTENDS ContentAvailability

\* Unit 1 depends on unit 2: admission in manifest order meets the dependent
\* before its dependency, eviction meets the dependency before its dependent.
PairDependencies == <<<<2>>, <<>>>>

\* Unit 1 depends on 2 and 3, and 2 on 3 as well: demand for 3 comes on two
\* paths.
TriangleDependencies == <<<<2, 3>>, <<3>>, <<>>>>

NoDependencies == [u \in Units |-> <<>>]

\* Caching the first unit may cost the entries of the two others.
LargeFirst == <<2, 1, 1>>

One == [u \in Units |-> 1]
=============================================================================
