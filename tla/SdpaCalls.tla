------------------------------ MODULE SdpaCalls ------------------------------
(***************************************************************************)
(* Training steps and measurements through the registry: one thread asks   *)
(* for a backend, by name or by "auto", calls its forward pass and then    *)
(* perhaps its backward pass (dispatch.py), or measures it (benchmark.py), *)
(* while other threads register backends.  The fused backend pins BLAS     *)
(* around its GEMMs, the reference does not, and the Vulkan adapter        *)
(* answers what its kernel covers and hands the rest to fused.             *)
(***************************************************************************)
EXTENDS Benchmark, Registry, Shapes

CONSTANTS
  Thread,     \* the thread that calls
  Calls,      \* the calls it makes
  Measured,   \* those a measurement makes
  Names       \* the backends it asks for

ASSUME CallsAssumption ==
  /\ Threads = {Thread} /\ Measured \subseteq Calls /\ "auto" \in Names
  /\ Nil \notin Plugins \cup {"reference", "fused", "vulkan", "auto"}
  /\ Calls \subseteq [q : Seq(Nat), k : Seq(Nat), v : Seq(Nat), mask : {Nil} \cup Seq(Nat),
                      causal : BOOLEAN, gqa : BOOLEAN, special : {"none", "dropout", "other"}]

VARIABLES
  stage,      \* "ready", "forward", "answered" (the step may go on) or "backward"
  call,       \* the call of the step
  backend,    \* what get_backend returned
  running,    \* the backend that computes this pass, once selected
  out,        \* shape of the forward result; in the backward pass, of its gradient
  result,     \* what the fused backend is about to return or raise
  ranForward, \* the backend that computed the forward pass
  disturbed   \* a CPU backend was replaced since the forward pass selected one

stepVars == <<stage, call, backend, running, out, result, ranForward, disturbed>>
allVars == <<vars, benchmarkVars, registryVars, stepVars>>

CallsInit ==
  /\ Init /\ BenchmarkInit /\ RegistryInit
  /\ stage = "ready" /\ call = Nil /\ backend = Nil /\ running = Nil
  /\ out = Nil /\ result = Nil /\ ranForward = Nil /\ disturbed = FALSE

-----------------------------------------------------------------------------
(* get_backend: "auto" is a dispatcher of its own; a name nobody has       *)
(* registered raises.                                                      *)
Known(name) == name = "auto" \/ name \in DOMAIN registry
Resolved(name) == IF name = "auto" THEN "auto" ELSE registry[name]

Starts(b, c) ==
  /\ stage = "ready"
  /\ stage' = "forward" /\ backend' = b /\ call' = c
  /\ UNCHANGED <<running, out, result, ranForward, disturbed>>

Step(name, c) ==
  /\ harness = Off /\ Known(name) /\ Starts(Resolved(name), c)
  /\ UNCHANGED <<vars, benchmarkVars, registryVars>>

(* A measurement resolves the name once and makes one call again and again. *)
StartMeasuring(n, name, c) ==
  /\ stage = "ready" /\ Known(name) /\ Measure(n, <<Resolved(name), c>>)
  /\ UNCHANGED <<registryVars, stepVars>>

TimedCall ==
  /\ harness.stage = "calls" /\ Starts(harness.fn[1], harness.fn[2])
  /\ harness' = [harness EXCEPT !.left = @ - 1]
  /\ UNCHANGED <<vars, inherited, env, registryVars>>

(* The step is over: a result, or an exception for the caller.             *)
Returns ==
  /\ stage' = "ready" /\ call' = Nil /\ backend' = Nil /\ running' = Nil
  /\ out' = Nil /\ result' = Nil /\ ranForward' = Nil /\ disturbed' = FALSE

(* An exception also ends the measurement the call was part of.            *)
Fails ==
  /\ Returns
  /\ IF harness = Off THEN UNCHANGED harness ELSE Leaves

-----------------------------------------------------------------------------
(* Mutant: the backward pass selects on the gradient it was given.         *)
SelectsOnGradient == IsBatched(IF stage = "backward" THEN out ELSE call.q)

(* Both passes select on the query.                                        *)
SelectsOn == IsBatched(call.q)

Chosen == IF backend = "auto" THEN AutoSelect(SelectsOn) ELSE backend

(* A backward pass needs a backend that has one (backward_for).            *)
Select ==
  /\ stage \in {"forward", "backward"} /\ running = Nil
  /\ IF stage = "backward" /\ Chosen \notin Trainable
       THEN Fails
       ELSE /\ running' = Chosen
            /\ ranForward' = IF stage = "forward" THEN Chosen ELSE ranForward
            /\ UNCHANGED <<stage, call, backend, out, result, disturbed, harness>>
  /\ UNCHANGED <<vars, inherited, env, registryVars>>

Runs(b) == stage \in {"forward", "backward"} /\ running = b

Result == IF stage = "forward" THEN Forward(call) ELSE Backward(call, out)

(* The pass has a result: that of the forward pass, outside a measurement, *)
(* may be followed by the backward pass.                                   *)
Answers(shape) ==
  IF stage = "backward" \/ harness # Off
    THEN Returns /\ IF harness.stage = "calls" /\ harness.left = 0 THEN Leaves ELSE UNCHANGED harness
    ELSE /\ stage' = "answered" /\ running' = Nil /\ out' = shape
         /\ result' = Nil
         /\ UNCHANGED <<call, backend, ranForward, disturbed, harness>>

(* The reference computes without a pin; so, as far as anyone knows, does  *)
(* the backend of another package, which is held to the same contract.     *)
RunPlain ==
  /\ \E b \in {"reference"} \cup Plugins : Runs(b)
  /\ IF Result = Error THEN Fails ELSE Answers(Result)
  /\ UNCHANGED <<vars, inherited, env, registryVars>>

(* What its kernel covers is answered from the device, unless that fails.  *)
RunOnDevice ==
  /\ Runs("vulkan") /\ Covers(call)
  /\ Answers(KernelShape(call))
  /\ UNCHANGED <<vars, inherited, env, registryVars>>

FallBack ==
  /\ Runs("vulkan")
  /\ running' = "fused"
  /\ UNCHANGED <<vars, benchmarkVars, registryVars, stage, call, backend, out, result, ranForward, disturbed>>

(* The fused backend refuses a call before it enters the context, or pins  *)
(* BLAS by the leading axes of the query.                                  *)
Accepts == Validates(call) /\ (stage = "forward" => call.special # "dropout")
InFused == UNCHANGED <<benchmarkVars, registryVars, stage, call, backend, running, out, ranForward, disturbed>>

RefuseFused ==
  /\ Runs("fused") /\ ~Accepts
  /\ Fails
  /\ UNCHANGED <<vars, inherited, env, registryVars>>

EnterFused ==
  /\ Runs("fused") /\ Accepts /\ result = Nil
  /\ Call(Thread, SliceCount(call.q))
  /\ UNCHANGED result /\ InFused

PinFused == (Save(Thread) \/ Pin(Thread) \/ Restore(Thread)) /\ UNCHANGED result /\ InFused

FusedWeights ==
  /\ Weights(Thread, IF stage = "forward" THEN "product" ELSE "gradients")
  /\ WeightsShape(call) # Error
  /\ UNCHANGED result /\ InFused

FusedResult ==
  /\ Product(Thread) \/ Gradients(Thread)
  /\ Result # Error
  /\ result' = Result /\ InFused

(* An array that does not fit in memory raises like a bad shape.           *)
FusedRaises == Raise(Thread) /\ result' = Error /\ InFused

LeaveFused ==
  /\ result # Nil /\ pc[Thread] = "idle"
  /\ IF result = Error THEN Fails ELSE Answers(result)
  /\ UNCHANGED <<vars, inherited, env, registryVars>>

-----------------------------------------------------------------------------
(* Between the passes: the caller has a gradient of the result, or one of  *)
(* a shape of its own, or is done.                                         *)
AskGradients ==
  /\ stage = "answered"
  /\ \E g \in {out, Append(out, 1)} : out' = g
  /\ stage' = "backward"
  /\ UNCHANGED <<vars, benchmarkVars, registryVars, call, backend, running, result, ranForward, disturbed>>

EndStep ==
  stage = "answered" /\ Returns /\ UNCHANGED <<vars, benchmarkVars, registryVars>>

(* The other threads.                                                      *)
Registers(r) ==
  (RegisterBackend(r) \/ RegisterVulkan(r)) /\ UNCHANGED <<vars, benchmarkVars, stepVars>>

Replaces(r) ==
  /\ Store(r)
  /\ disturbed' = (disturbed \/ (ranForward # Nil /\ registering[r].name \in {"fused", "reference"}))
  /\ UNCHANGED <<vars, benchmarkVars, stage, call, backend, running, out, result, ranForward>>

HarnessStep ==
  /\ HarnessSaves \/ HarnessSets \/ HarnessExports \/ HarnessRestores
  /\ UNCHANGED <<registryVars, stepVars>>

CallsNext ==
  \/ \E name \in Names, c \in Calls : Step(name, c)
  \/ \E n \in Asked, name \in Names, c \in Measured : StartMeasuring(n, name, c)
  \/ TimedCall \/ HarnessStep
  \/ Select \/ RunPlain \/ RunOnDevice \/ FallBack
  \/ RefuseFused \/ EnterFused \/ PinFused \/ FusedWeights \/ FusedResult \/ FusedRaises \/ LeaveFused
  \/ AskGradients \/ EndStep
  \/ \E r \in Registrars : Registers(r) \/ Replaces(r)

CallsSpec == CallsInit /\ [][CallsNext]_allVars

-----------------------------------------------------------------------------
(* A measurement is what was asked for: between its calls, and in every    *)
(* call that does not pin, BLAS has the count asked for, or the variables  *)
(* have where only those can be set ("for the duration of the context",    *)
(* benchmark.py:182); a backend that pins puts that count back.            *)
MeasuredAsRequested ==
  harness.stage = "calls" /\ (pc[Thread] = "idle" \/ (pc[Thread] \in Computing /\ ~pinned[Thread])) =>
    IF harness.asked = Default THEN blas = chosen /\ env = inherited
    ELSE IF controls THEN blas = harness.asked /\ env = inherited
    ELSE blas = chosen /\ \A variable \in ThreadVariables : env[variable] = harness.asked

(* However a step or a measurement ended, the process is as it was: BLAS   *)
(* and the thread variables have what they had before.                     *)
LeavesNoTrace ==
  stage = "ready" /\ harness = Off => blas = chosen /\ env = inherited

(* "A training step computes both passes on one backend" (dispatch.py:389- *)
(* 390), unless a CPU backend is replaced in between.                      *)
OneBackendPerStep ==
  stage = "backward" /\ running # Nil /\ ~disturbed => running = ranForward

-----------------------------------------------------------------------------
(* The next three are about any call, and stated where one has just been   *)
(* made.                                                                   *)
Fresh == stage = "forward" /\ running = Nil /\ harness = Off

(* The adapter takes no call that the oracle refuses or answers in another *)
(* shape, and key and value are stacks of as many slices as the query      *)
(* ("one stack of slices", vkbackend.py:111-116).                          *)
AdapterNeverWidens ==
  Fresh /\ Covers(call) =>
    /\ Forward(call) = KernelShape(call)
    /\ Size(Lead(call.k)) = Size(Lead(call.q)) /\ Size(Lead(call.v)) = Size(Lead(call.q))

(* A mask that broadcasts to the scores, as the parameter is documented.   *)
MaskFits(c) ==
  c.mask # Nil => /\ Len(c.mask) >= 1 => Dim(c.mask, 1) \in {1, Dim(c.k, 2)}
                  /\ Len(c.mask) >= 2 => Dim(c.mask, 2) \in {1, Dim(c.q, 2)}

(* Both passes accept the same calls (reference.py:66-67), and the         *)
(* gradients have the shapes of the inputs, however those were broadcast   *)
(* or their heads repeated (backward.py:131-132).                          *)
BothPassesAgree ==
  Fresh /\ call.special # "dropout" /\ (Validates(call) => MaskFits(call)) =>
    LET answer == Forward(call) IN
    IF answer = Error
      THEN ~Validates(call) \/ WeightsShape(call) = Error
             \/ Backward(call, ExpectedOutputShape(WeightsShape(call), Expanded(call, call.v))) = Error
      ELSE Backward(call, answer) = <<call.q, call.k, call.v>>

(* A gradient is added to the slice of the input that the forward pass     *)
(* used: folding the heads and summing the broadcast axes undo the repeat  *)
(* and the broadcast, slice by slice.                                      *)
GradientsLandWhereUsed ==
  Fresh /\ Forward(call) # Error =>
    \A f \in Slices(Lead(Forward(call))) : \A shape \in {call.k, call.v} :
      LandingSlice(call, shape, f) = UsedSlice(call, shape, f)
=============================================================================
