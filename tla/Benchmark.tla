------------------------------ MODULE Benchmark ------------------------------
(***************************************************************************)
(* The benchmark harness (benchmark.py): it holds the BLAS thread count of *)
(* the process at a number while it calls a backend a few times, through   *)
(* threadpoolctl where that is installed and through two environment       *)
(* variables where it is not.  The backend it measures may pin BLAS too.   *)
(***************************************************************************)
EXTENDS BlasPin

CONSTANTS
  Asked,   \* thread counts to measure at; Default leaves the process as it is
  Default,
  Timed,   \* bound: calls of one measurement, warm-up included
  Environments  \* the thread variables a process may be started with

ThreadVariables == {"OPENBLAS_NUM_THREADS", "OMP_NUM_THREADS"}
Unset == 0

ASSUME BenchmarkAssumption ==
  /\ Asked \subseteq Counts \cup {Default} /\ Timed \in Nat \ {0}
  /\ Environments \subseteq [ThreadVariables -> Nat]

VARIABLES
  inherited,   \* the thread variables the process was started with
  env,         \* what they are now
  harness      \* stage of the measurement, what it calls, the count asked for,
               \* the calls left, and what it saved

benchmarkVars == <<inherited, env, harness>>

Off == [stage |-> "off", fn |-> <<>>, asked |-> Default, left |-> 0,
        blas |-> BlasThreads, env |-> [variable \in ThreadVariables |-> Unset]]

BenchmarkInit ==
  /\ inherited \in Environments
  /\ env = inherited
  /\ harness = Off

(* benchmark_shape and the entry of _limit_threads: nothing to hold, a     *)
(* count to save and set, or the environment.  The backend and its inputs  *)
(* (fn) are settled before.                                                *)
Measure(n, fn) ==
  /\ harness = Off
  /\ harness' = [Off EXCEPT !.fn = fn, !.asked = n, !.left = Timed,
                   !.stage = IF n = Default THEN "calls" ELSE IF controls THEN "save" ELSE "export"]
  /\ UNCHANGED <<vars, inherited, env>>

HarnessSaves ==
  /\ harness.stage = "save"
  /\ harness' = [harness EXCEPT !.stage = "set", !.blas = blas]
  /\ UNCHANGED <<vars, inherited, env>>

HarnessSets ==
  /\ harness.stage = "set"
  /\ harness' = [harness EXCEPT !.stage = "calls"]
  /\ blas' = harness.asked
  /\ UNCHANGED <<chosen, controls, pc, pinned, saved, inherited, env>>

HarnessExports ==
  /\ harness.stage = "export"
  /\ harness' = [harness EXCEPT !.stage = "calls", !.env = env]
  /\ env' = [variable \in ThreadVariables |-> harness.asked]
  /\ UNCHANGED <<vars, inherited>>

(* The measurement ends with its last call, or with one that raises.       *)
Leaves ==
  harness' = IF harness.asked = Default THEN Off ELSE [harness EXCEPT !.stage = "leave", !.left = 0]

(* Mutant: unsets the variables, whatever they were before.                *)
HarnessUnsets ==
  /\ harness.stage = "leave"
  /\ harness' = Off
  /\ IF controls THEN blas' = harness.blas /\ UNCHANGED env
                 ELSE env' = [variable \in ThreadVariables |-> Unset] /\ UNCHANGED blas
  /\ UNCHANGED <<chosen, controls, pc, pinned, saved, inherited>>

HarnessRestores ==
  /\ harness.stage = "leave"
  /\ harness' = Off
  /\ IF controls THEN blas' = harness.blas /\ UNCHANGED env
                 ELSE env' = harness.env /\ UNCHANGED blas
  /\ UNCHANGED <<chosen, controls, pc, pinned, saved, inherited>>
=============================================================================
