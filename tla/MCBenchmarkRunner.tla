-------------------------- MODULE MCBenchmarkRunner --------------------------
(* data/benchmarks/csat_math_2028/release_smoke.json: three cases of one    *)
(* seed; numbers stand for case_ids in their order.  The last one asks for  *)
(* PDFs, as scripts/run_benchmark.py --compile-pdf does.                    *)
EXTENDS BenchmarkRunner

SmokeCase(mode, compare, replay, compile) ==
  [mode |-> mode, tries |-> 2, rollback |-> TRUE, compile |-> compile,
   compare |-> compare, replay |-> replay]

ReleaseSmoke ==
  <<SmokeCase("api", "equivalence", "replay", FALSE),
    SmokeCase("manual", "equivalence", "none", FALSE),
    SmokeCase("api", "none", "replay", TRUE)>>

ASSUME SmokeIsCompared == CasesAreCompared
=============================================================================
