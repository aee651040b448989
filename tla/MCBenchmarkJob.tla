--------------------------- MODULE MCBenchmarkJob ---------------------------
(***************************************************************************)
(* An instance of BenchmarkJob for TLC: two benchmarks, launched twice.    *)
(***************************************************************************)
EXTENDS BenchmarkJob

MCBenchmarks == <<"payload-small", "multiturn">>
=============================================================================
