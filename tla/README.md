# A specification of portable-attention

TLA+ models of `portable_attention` (`src/src/portable_attention/`), checked with TLC on
small instances and, for the properties that matter most, proved with TLAPS for every value
of the constants. File names below are relative to that directory. `PROJECT.json` lists the
components, the runs, the hazards each property is aimed at, the mutants that show each
property can fail, and the source lines behind every definition.

## The system

The package computes scaled dot-product attention on whatever hardware is there. Its hard
part is the Vulkan backend: a lock shared by threads, a device that may fail at any call, a
GPU that runs on its own, a hand-written compute runtime over `ctypes`, and a kernel whose
tile shape is searched on the host and whose layout is declared again in GLSL.

| Component | State it keeps | Operations | Interacts with | Hard behaviour | What makes it correct |
|---|---|---|---|---|---|
| `VulkanAttention` (`vkbackend.py`) | `_lock`, `_device_usable`, `_context`, `_limits`, `_pipelines`, `_buffers`, counters | `__call__`, `_run`, `_context_held`, `_plan`, `_buffer`, `_pipeline`, `_dispatch`, `_retire_device`, `close` | many threads; the context's API; the CPU fallback | failures handled after the lock was released, late retirements, a close racing a call, buffers that grow under abandoned work | every call gets the attention of its own inputs; a failed device is given up on once, for good; no handle outlives its device |
| `VulkanContext`, `VulkanBuffer`, `VulkanPipeline` (`vkcompute.py`) | driver handles, owned pipelines and buffers, `_pending`, fence and command buffer states | `open`, `allocate`, `write`, `read`, `free`, `compute_pipeline`, `dispatch`, `destroy`, `close` | the Vulkan loader; the GPU | partial failure of long constructors, time-outs that leave work in flight, destruction order | nothing leaks or is destroyed twice; nothing is destroyed or reused under work in flight; a wait that succeeds means the work is done |
| Device limits and tiling (`vkcompute.py`, `tiling.py`, `vkattention.py`) | none between calls | `_tile_limits_of`, `candidate_plans`, `plan_tiles`, `tile_plan_for`, `attention_launch` | the shader, through specialization constants | two early breaks, power-of-two caps, limits per axis, layouts computed on both sides | no fitting shape is missed; what is launched fits the device; every output is written once |
| Blocked kernel model (`blocked.py`) | per row: maximum, sum, accumulator | `_attend_query_tile` | the oracle | tiles that are short, skipped, or masked whole; `-inf - -inf` | equals the oracle's softmax |
| Attention shader (`shaders/attention.comp`) | registers, shared arrays | `main` | other invocations, through barriers | data races, divergent barriers | computes what `blocked.py` does |
| Reference oracle (`reference.py`, `backward.py`) | none | forward and backward pass | NumPy | broadcasting of every leading axis, grouped heads, masks of any rank; a backward pass that has to undo all of it | both passes accept the same calls; a gradient has the shape of its input and lands on the slice that was used |
| Fused CPU backend (`fused.py`) | the process-wide BLAS thread count, for a while | forward and backward pass | `threadpoolctl`; every other thread | the count is shared and saved per call; exceptions inside the context | one BLAS thread during a pinned call, the count found before it afterwards |
| Registry and `auto` policy (`dispatch.py`) | `_REGISTRY` | `register_backend`, `get_backend`, `_auto_select`, `backward_for` | all backends | a registration between a forward and a backward call; a check and a store without a lock | a training step computes both passes on one backend |
| Vulkan detection (`vulkan.py`, `_vkffi.py`) | a throwaway instance | `detect_vulkan` | the loader | a probe that fails half way | the instance is destroyed, failures become an unavailable result |
| Registration (`vkbackend.py`, `__init__.py`) | an entry of the registry | `register_vulkan_backend` | detection, registry, environment | - | registered only where the host has a device and no opt-out is set |
| Benchmark (`benchmark.py`) | the BLAS thread count or two environment variables, for a while | `benchmark_shape`, `_limit_threads` | registry, `threadpoolctl`, `os.environ` | it holds a count that the backend it measures sets too; a call that raises | the count asked for in every timed call, nothing left behind |
| Conformance kit (`conformance.py`), push constants (`vkattention.py`), package front | none | comparing; packing; re-exporting | - | tolerances; widths | - |

A call travels like this: a thread enters `VulkanAttention.__call__`; an uncovered call goes to
the CPU; otherwise `_run` takes the lock, opens the device if there is none, plans a tile shape,
sizes four buffers, writes three inputs, compiles or reuses a pipeline, dispatches, waits for
the fence, reads the output and releases the lock. A `VulkanError` anywhere leaves the locked block,
and only then does `_retire_device` take the lock again, drop the flag, close the device, and
(outside the lock, first failure only) warn; the call is then answered on the CPU.

## Modules

```
SdpaService                abstract: every call is answered with its own attention
   ^ refines
VulkanAttention            threads, lock, caches, retirement      <- MCVulkanAttention
   | extends                                                         VulkanAttention_proofs
VulkanContext              the API calls of vkcompute.py, and        VulkanContext_proofs
   ^ refines               any sequence of them (CtxSpec)
VkCompute                  one Vulkan entry point at a time       <- MCVkCompute
                                                                     VkCompute_proofs
TileLayout                 layout shared by host and shader          TileLayout_proofs
   ^ extends
Tiling                     limits, search, launch                 <- MCTiling
                                                                     Tiling_proofs
OnlineSoftmax              exact arithmetic of the running softmax
   ^ extends
Blocked                    blocked.py, one query tile             <- MCBlocked
   ^ refines                                                         Blocked_proofs
AttentionShader            attention.comp, one workgroup          <- MCAttentionShader
                           (also extends TileLayout)                 AttentionShader_proofs
BlasPin                    the pin of fused.py
   ^ extends
Benchmark   Registry   Shapes     the harness; the backends by name; what a call does to shapes
   ^           ^          ^ extends
SdpaCalls                  training steps and measurements        <- MCSdpaCalls
                                                                     SdpaCalls_proofs
```

**VulkanContext** is the runtime at the granularity of its API. A context is the number of the
`open` that made it, a buffer or pipeline a record naming its context. `contents` holds what an
array stands for: the call whose data it is, `Garbage` when nobody could say. A call takes effect
or raises and changes nothing, so a raise is a stutter, except a failed wait (`WaitFails`): a time-out
leaves the work in flight and sets `_pending`, a lost device drops it, and an interrupt between
`vkQueueSubmit` and the line that sets `_pending` leaves work that nothing records. `Execute` is the
GPU: it reads the inputs as they are at that moment, and writes `Garbage` when they are not all of
the call it was submitted for. Two submissions in flight are unordered, because no barrier at the
start of a command buffer orders them. The order in which `close` destroys pipelines, and then
buffers, is left open, which covers the order of the lists.

**VulkanAttention** has one action per step of `_run` and of the two closers; `pc` names the step.
`Fail` releases the lock *before* `Retire` takes it again, as leaving the `with` block does. `_context_held`
takes three actions, one per statement an interrupt may separate: `OpenContext` (398), `StoreContext` (399) and
`AdoptLimits` (400-401). `_buffer` takes two (allocate and store, then free the old one). The three writes of a call are one
action: they run under the lock with the GPU either idle or working for an abandoned call, whose
execution before or after them has the same outcome. `_dispatch_count` and wording are left out.
Interrupts are injected inside the locked block of `_run` only. What an interrupted statement had made and not yet
stored is dropped: a buffer or pipeline still belongs to its context and goes with it, but a device nobody will
close, and `orphans` records it. The kernel's coverage, buffer sizes and plan are constants (`Covered`, `QBytes`, `KBytes`,
`TileKey`). The plan depends on the limits in force (`limits`): the floor before a device is open, those the
open device reports (`Reports`, which differ from one device to the next), or those the caller gave
(`override`, chosen among `Overrides` at the start), so that planning against the wrong limits shows.

`CtxSpec` closes the module with an arbitrary caller: any call at any time, one at a time (`CtxDispatch` is a whole
submission, the other actions are those the backend uses too).

**VkCompute** splits those calls into the entry points they make. `call.todo` is what the API call
still has to do, taken from the program of its constructor or destructor; `MakeFails` replaces it by
the rollback, and `call.undo` is that rollback as it is built up during the construction, one entry per
registered destructor. The descriptor sets and command buffers that die with their pools are tracked.
It checks itself against `CtxSpec` through a refinement mapping. `Detect` is the probe of `vulkan.py`, which
goes to the same driver with an instance of its own (`Probe`): its last entry point, or any failure after the first,
is followed by the `finally` clause. A loader without `vkDestroyInstance`, whose leak the code tolerates, is left out.

**SdpaService** is what a user of the backend relies on: a call is answered with its own attention,
by the device only while it is usable. It counts the device's answers so that an answer after
retirement shows.

**TileLayout** and **Tiling** use the program's own numbers. Each iteration of `candidate_plans` is a
step, so its two `break`s are steps. The sort of `plan_tiles` gives each shape the place its rank has (`Ranked`), since no
two shapes rank equal. `Legal` is the same set of shapes without any loop, and
`OwnedColumns` and `SharedBytesDeclared` come from the shader, not from the host.

**OnlineSoftmax**, **Blocked**: a score is an integer or `-inf`, a weight is the exponent of
`exp(score - shift)`, and a sum or accumulator column is the sequence of `<<key, exponent>>` terms
added to it. Rescaling adds to exponents. Nothing is merged, so a key counted twice, left out or
rescaled by the wrong amount is visible. A term whose exponent is `-inf` is a zero and does not count (`Present`). An exponent below `-Underflow` is a zero, in the oracle too (`Flushed`). `Moderate`
names the rows for which one known difference between the algorithm and the oracle does not arise (see Findings). One query tile stands for all because tiles share nothing.

**AttentionShader** has one action per section between barriers, per invocation, in any order.
Running a section as one action is justified by `RaceFree`, which `touched` makes checkable:
no element of shared memory is written by one invocation and touched by another between two barriers.
Rows and columns, the stride of the loading loops and the stripe of owned columns are as in the shader.

**BlasPin** has `threadpool_limits` as the three things it does: save, set, restore. A single-slice
call does not pin, nor does any where `threadpoolctl` is missing (`controls`). Every stage inside the context may raise.

**Shapes** has no state: `Forward` and `Backward` give the shapes a call returns, or `Error`, through NumPy's own rules
(`Broadcast`, `MatMul`); `UsedSlice` and `LandingSlice` follow one slice of an input through repeat and
broadcast on the way in, and through fold and sum on the way back; `Covers` is `unsupported_reason`. The reference and
the fused backend compute the same shapes, and one definition stands for both.

**Registry** has registration as the check and the store it is (`LookUp`, `Store`), since nothing locks the
dictionary. **Benchmark** has the steps of `_limit_threads` around the calls it times. **SdpaCalls** composes them: one thread
resolves a name, runs the forward pass, perhaps the backward pass, or measures; the fused backend's calls are those of
`BlasPin`; other threads register. A pass that raises ends the step, and the measurement around it.

## Runs

| Run | Instance | What it shows |
|---|---|---|
| `OneThread` | 1 thread, 4 kinds of call, every device failure, 5 calls, 3 devices that report different limits, limits given by the caller or not | `AnswersAreRight`, `BuffersOutliveWork`, `SizedForTheDevice`, and the backend implements `SdpaService`, time-outs included |
| `TwoThreads` | 2 threads, 2 kinds of call, every failure but the time-out | the backend implements `SdpaService` under every interleaving |
| `Retirement` | 2 threads, 1 kind of call, all failures, time-outs and interrupts, 4 calls and closes, 4 devices, limits given by the caller or not | lock, single device, one warning, no stale handle, no limits of another device; retirement is final; every call returns |
| `ContextSafety` | any client, 2 pipelines, 4 buffers, 2 payloads, time-out and lost device | pipelines and devices outlive their work; a pending pipeline is never reused; `close` leaves nothing and returns |
| `VkSteps` | every entry point may fail, 2 interchangeable pipelines (symmetry) | rollbacks and destruction order, those of detection included; the pipeline of work in flight neither reset nor destroyed; fence discipline; the entry points implement the API |
| `TileSearch` | 5 devices, 6 head dimensions, 2 dtypes, lengths up to 70000 | the search is complete, its caps free, the launch legal, each output written once |
| `BlockedTiles` | 2 query tiles of 4 rows over 6, 3 key tiles of 2 over 5, causal or not | the blocked softmax is the oracle's, and so is every prefix, with weights that underflow |
| `Workgroup` | 2x2 invocations, head dimension 3, lengths 3 | no race, no divergent barrier, the shader implements `Blocked` |
| `Steps` | 133 calls, 2 of them measured, at the default count and at 2; 1 registration by another thread, of 2 plugins, one trainable; with and without `threadpoolctl`, a device and a thread variable | the pin and the harness keep their counts, alone and nested, and leave none behind; both passes of a step run on one backend; the adapter takes no call the oracle answers otherwise; both passes agree, and gradients land where the forward pass looked |
| `WrongAnswer`, `WedgedGpu`, `PinStuck` | see Findings | counterexamples |

Why the bounds are enough. Two threads are the fewest that race for the lock; the third actor of
every hazard is the GPU. Three devices let a device be opened, retired or closed, opened again by a
thread that was waiting, and closed again; the fourth of `Retirement` leaves room for one lost to an interrupt. The
second device reports other limits than those around it. Two buffer sizes make a buffer fit or grow, two keys make
the cache hit or miss. `Retirement` has one kind of call, because its liveness check is the costliest: buffers grow
in `OneThread` (with failures and time-outs) and `TwoThreads` (with a second thread), and the theorems cover growth together with
interrupts. In `ContextSafety` one size is enough because growing is the client's doing;
`MaxOpens = 1` because contexts share nothing in the runtime and the closed context's leftovers
still show; the proofs cover any number. In `BlockedTiles` `BLOCK_Q > BLOCK_K`, so the causal skip and the masked tile differ; the
last tile of both is short; score rows rise, fall, repeat and overflow to `-inf` in the first, last or
all tiles. `Workgroup` runs the scalar path (head dimension not a multiple of four) with a column
stripe of two slots for one lane and one used slot for the other; the vec4 path is covered by `EveryOutputOnce`,
which compares its columns. `TileSearch` includes the Vulkan minimum limits, a device with a short second
axis, one too narrow and one reporting zero. The calls of `Steps` are families: every way three inputs have, miss or
stretch up to two leading axes; grouped heads that divide, do not, and meet a batch axis; masks of rank one to four; refused
and empty ones. Two dimensions different from one and from each other are enough for a broadcasting rule,
which looks at one axis at a time. A measurement makes two calls, so that one follows another; a second measurement or step
starts from what the first one left. `CHECK_DEADLOCK FALSE` is set where the system may
stop: callers need not call again, a bound is reached, or a closed context stays closed.

Fairness. `FairSpec` of VulkanAttention has weak fairness of each thread's own steps: a Python thread
that can run is eventually scheduled. Taking the lock is one of those steps and is enabled only while the lock
is free, so weak fairness gives a thread the lock only once contention ends. It does end, since every behaviour
makes at most `MaxCalls` calls: `CallsReturn` is therefore about calls that get stuck, not about a thread starved
by others that call for ever, which `threading.Lock` does not exclude.
Nobody is obliged to make a call. It has weak fairness of the GPU: the driver executes what
was submitted. `WedgedSpec` leaves that out. `CtxFairSpec` asks the same of a `close` that was begun and
of the GPU; its client owes nothing.

## Proofs

Each `*_proofs` module extends the module it is about. Nothing is bounded there: threads, calls, devices, keys, sizes,
tile shapes, sequence lengths and stacks are arbitrary. What is assumed are the named assumptions of the modules, which
say three kinds of things: what a constant is a set of, that distinguished values (`Nil`, `Garbage`, `-inf`, a NaN)
are not ordinary ones, and facts of the code (`TilingAssumption`: limits and lengths up to 2^30, as far as the modelled
powers of two go; `CallsAssumption`: one thread makes calls, because with two the pin does not hold, and `RegistryAssumption`: a plugin is none of
the package's own backends). Every one is evaluated by TLC in a run.

**The compute API** (`VulkanContext_proofs`). Lemmas about single calls, cited by the backend's proofs too, and:

| Theorem | Argument |
|---|---|
| `CtxTypeCorrect` | each call preserves the types; a step of the client is a call or a stutter (`StepsAreCalls`) |
| `CtxPipelinesSafe`, `OneSubmission` | the invariant `WorkInv`: work in flight is either *watched* by the caller that waits for it or its pipeline is pending, pipelines have a device, and no `close` runs during a wait. Without the first part a destroyed pipeline could still be running; the pending flag is what makes `destroy` drain |
| `CloseLeavesNothing` | pipelines and buffers have a device; `CloseDevice` is last |
| `PendingStays` | no wait is for a pending pipeline |

**The entry points** (`VkCompute_proofs`). `ComputeInvariant` is one inductive invariant from which the other theorems
follow. Its core is what a call in progress knows. `MakingKnown`: a constructor has exactly the parts before its place in the
program, and its rollback lists those of them that have a destructor, each once. `UnmakingKnown`: whatever a destruction
still has to go is on its list, or dies with a pool that is. `UnmakingOrdered`: a fence goes only at the head of `destroy`, a
mapping before its memory, the device when nothing stands on it. `DispatchKnown`: at each step of a dispatch, the
state of its command buffer, of its fence, and whether its work has run. `WholeOrAbsent` says that an object nobody is handling
has all its parts or none.

| Theorem | Argument |
|---|---|
| `NoLeaks`, `ExactUndo`, `ParentsLast` | `WholeOrAbsent`; `UnmakingKnown`; `UnmakingOrdered` |
| `Untouched` | `WorkIsWatched`: work in flight belongs to a pending pipeline or to the dispatch at its wait, and a dispatch refuses a pending one. `PendingKnown`: a pending pipeline is whole, and its destruction waits for the device first |
| `DoneWhenSignalled` | `WorkIsWatched`; the fence is reset between two submissions |
| `Refines` | every step is one call of the API or a stutter. A construction or destruction takes effect at the entry point its object is recognised by (the fence of a pipeline, the mapping of a buffer, the device of a context); a rollback never gets there |

**The backend** (`VulkanAttention_proofs`).

| Theorem | Argument |
|---|---|
| `LockDiscipline` | `Locking` is inductive once the lock's and the program counters' types are added |
| `RetirementIsFinal` | from `Locking`: only a thread inside the body of `_run` opens, submits or answers, and that thread implies the flag is up |
| `OneDevice` | `DeviceInv`: what the backend owns is the device in the opener's hand, `_context` or the one being closed, and at most one of these exists; every other device was lost between 398 and 399 |
| `NoDeviceIsLost` | by the same invariant only an interrupt adds to `orphans`: without interrupts there is one device |
| `WarningIsIssuedOnce` | `WarnInv`: at most one thread has `first`, it has it only from its teardown to its warning, and none does while the device is usable |
| `TypeCorrect` | needs `CallInv`, what each program point knows: a thread in a call has a request, past `plan` a plan, past the submission all four buffers |
| `PipelinesSafe` | every step of the backend is an API call (`StepsAreApiCalls`), so `WorkInv` carries over |
| `HandlesAreFresh` | `HandleInv` adds that the buffers of the bindings are distinct from each other and from the one being replaced, so that freeing that one frees no other |
| `WorkFitsTheDevice` | `LimitsAllowed`: the limits in force are those of the open device or the initial ones, never those of a device closed before. `RoomKnown`: past a binding its buffer is large enough, and so are the four of any work in flight |
| `WorkIsSized` | `LimitsAdopted`: a thread past `adopt` plans under the limits of its own device (or the caller's), and work in flight was planned under those of the device it runs on |
| `BuffersSafe` | `WorkKnown`: all work in flight is that of the thread at its wait, or of the only thread there is, on its way to destroying the device |
| `RightAnswers` | `DataKnown`: from its writes to its wait a thread's three inputs hold its own request, its submission binds those buffers, and once the work has run the output holds its request too; the lock keeps every other thread out meanwhile |
| `ServesAsPromised` | with the same invariant each step maps to a step of `SdpaService` or to a stutter |

The last three assume `Contained`: no dispatch is interrupted after its submission, and either no wait times out or there is
one thread. This is as much as the code gives: the run `WrongAnswer` refutes `AnswersAreRight` for two threads
and a time-out. `CtxPipelinesSafe`, `OneSubmission` and `PipelinesSafe` assume that no dispatch is interrupted between
`vkQueueSubmit` and the line that sets `_pending`; under an interrupt they are false of the code (see Findings).
`WorkIsSized` and `NoDeviceIsLost` assume that
no call is interrupted. All other theorems allow every fault.

**Tiling** (`TileLayout_proofs`, `Tiling_proofs`).

| Theorem | Argument |
|---|---|
| `BreaksLoseNothing` | rounding up to whole vectors keeps an order, hence the footprint grows with the key tile |
| `PricedAsDeclared` | the shader's declarations and the host's price are one polynomial |
| `AddressesDoNotWrap` | a position counted row by row stays inside its rows (`RowMajorBound`), twice: so every partial sum the shader forms is below the word, and its remainders are the sums themselves |
| `OffsetsAreDistinct` | a position determines its row and its remainder, twice |
| `SearchInvariant` | `TilingInv`: the shapes found are exactly those of `Legal` that come before the current one, each once. A `break` jumps over a whole stretch, which `BreaksLoseNothing` and the product limit empty |
| `NothingMissed`, `LaunchIsLegal` | from it, and from the rank being an injection, so that sorting neither loses nor repeats a shape |
| `CapsCostNothing` | the cap is the least power of two not below the length (`NextPowerOfTwo`), for which one tile is enough |
| `OutputsWrittenOnce` | a column determines the lane and the slot it is in, for stripes of single columns and of vectors |

**The kernel** (`Blocked_proofs`, `AttentionShader_proofs`).

| Theorem | Argument |
|---|---|
| `StreamInvariant` | after any tile the sum and every column of a row are the same terms: key by key, the exponent of its score under the row's present maximum (`Terms`); and the maximum is attained, or is the zero kept for a row that has not seen a score yet (`ShiftIsRight`). One tile appends its keys and rescales the rest (`TileAddsTerms`), and rescaling twice is rescaling once because the maximum never falls |
| `PrefixExact`, `MatchesOracle` | the terms of the invariant are a softmax of the keys they name (`TermsAreTheSoftmax`); at the end these are all keys the row may attend to, since a tile is skipped only beyond its diagonal |
| `BarriersAreUniform` | `InStep`: all invocations are in one section of one pass or waiting at its end, with the same `k_start` |
| `NoRaces` | within a section an array is either only read, or written by the invocation that owns the element (`Permitted`); owners are unique |
| `DataInvariant` | `InStep`, and for each section what each invocation has established: its share of a tile loaded, its score, its shift, its weight (`Established`), from the shared arrays the others have finished |
| `TranscribesBlocked` | the tile of `Blocked` is taken when the last invocation reaches the barrier before `mix`, the division at the barrier before `write`, and every other step goes unnoticed: until then the mapping reads the row state in registers or shared memory, whichever is current |
| `OutputsAreRight` | `MatchesOracle`, instantiated with the mapping of `TranscribesBlocked`: what the shader leaves in its output buffer is the oracle's softmax |

`PrefixExact`, `MatchesOracle` and `OutputsAreRight` assume `Moderate` of every row of scores; `StreamInvariant` and
`TranscribesBlocked` assume nothing of the scores. The largest element of a finite set of integers
(`MaxExists`) is proved from the well-foundedness of strict inclusion.

**Steps and measurements** (`SdpaCalls_proofs`). `CoveredCallsKeepShape` and `GradientsLand` are about the operators of `Shapes`, for
every rank and dimension: broadcasting is an operation on one axis at a time, counted from the last (`Axis`, `Agree`, `FitsIn`),
so what a pass returns is known axis by axis.

| Theorem | Argument |
|---|---|
| `CallsInvariant` | `CallInv`: what the harness holds (`HarnessHolds`: the count found and, without `threadpoolctl`, the two variables), what the pin holds inside it (`PinKnown`: the count to restore is the harness's), and which backend both passes select (`SelectionHolds`) |
| `PinHolds`, `MeasuresAsAsked`, `NoTrace` | from its three parts |
| `SameBackend` | `auto` chooses between the two CPU backends by a query that stays the same, and a name is resolved once: only replacing one of those two entries changes the choice, and that marks the step (`disturbed`) |
| `NeverWidens`, `GradientsLandThere` | `CoveredCallsKeepShape`, `GradientsLand` |
| `PassesAgree` | the backward pass's shapes are the forward pass's, folded and summed back to each input (`Grads`) |

Only model-checked: the liveness properties (`CallsReturn`, `CloseReturns`, and the fairness half of
`ImplementsService`), which need `ENABLED`. Every other property of a passing run is stated by a theorem. The three findings are
counterexamples and stay with TLC. Induction over data is out of the provers' reach, which shows in two
places: `Size` of a shape is a fold that no proof computes (equal shapes have equal sizes, which is all they need), and `PowersOfTwo`
is a set with an end, hence the bound of 2^30.

## Findings

* **`WrongAnswer`** (`AnswersAreRight`). A dispatch that times out raises with its work in flight, and the lock
  is released before the device is retired. A second thread that was waiting takes the lock, finds the device
  usable, and writes its inputs into the same four buffers; the abandoned work then overwrites its output. The
  class documentation says "a wedged GPU degrades throughput, not correctness"
  (`vkbackend.py:156-157`). `OneThread` and `TwoThreads` show that it takes both a time-out and a second thread.
* **`WedgedGpu`** (`CallsReturn`). Closing after a time-out drains with `vkDeviceWaitIdle`, which has no time-out,
  under the lock: on a GPU that never finishes, the call never falls back and every other thread waits for the lock.
* **`PinStuck`** (`RestoredAfterwards`). Two overlapping pinned calls: the second saves the count the first has
  set and, leaving last, restores that. The process stays at one BLAS thread.

Observations that have no run of their own:

* A thread that waits for the lock while another fails to open the device tries to open it again, against the comment
  at `vkbackend.py:317`; the late retirement then closes it (`OwnsOneDevice`).
* An interrupt inside `dispatch` leaves work that `destroy` does not drain.
* An interrupt between `vkbackend.py:398` and `399` loses an open device: nothing refers to it, and the next call opens a
  second one beside it (`orphans` in `OwnsOneDevice`). Between `399` and `401` it leaves the open device with the
  floor limits until it is closed, which costs tile size and no correctness (`NeverBeyondTheDevice`).
* The interleaving of `WrongAnswer` also lets the second thread free a buffer (`vkbackend.py:452`) that the abandoned
  work still uses, hence the hypothesis of `BuffersSafe`.
* With two threads in the fused backend `PinnedThroughout` fails as `RestoredAfterwards` does: the first to leave
  restores its count while the second computes.
* After a first key tile whose scores all overflowed to `-inf`, `blocked.py:223` and the shader keep 0 as the
  running maximum. Scores of later tiles that are all below the underflow bound then give a row of zeros where the
  oracle, which shifts by their own maximum, gives a softmax. `Moderate` excludes exactly
  such rows: the rows of `BlockedTiles` satisfy it, and `PrefixExact`, `MatchesOracle` and `OutputsAreRight` assume it.
* A mask that is wider than the scores (shape `(3, S)` with one query row) is broadcast by the forward pass of both CPU
  backends, against the documented parameter, and refused by the backward pass; `BothPassesAgree` is stated for
  masks that fit.
* The pin and `auto` look at the leading axes of the query only, so an unbatched query with a batched key is not pinned.
* Two threads may both register one name without `overwrite` (`dispatch.py:300-305`): the last store wins. And reloading
  the package registers a second `VulkanAttention` without closing the first one's device.
* A replaced CPU backend moves the second pass of a step in progress; `OneBackendPerStep` excludes such steps.

## What is not modelled

* The conformance kit, which compares values within tolerances, and the package front.
* The harness's sweep, statistics and command line; an interrupt between its two variables.
* The values of masks, the derivative, dtypes. Shapes of both passes are modelled.
* Rounding and `+inf`/NaN inputs: exponents are exact integers, with a bound for underflow.
* The packing of push constants: a scale that overflows float32 is a refused plan of `VulkanAttention`; a sequence
  of 2^32 rows raises `struct.error` out of the locked block and is beyond TLC's integers.
* Wrapping addresses: the theorems cover stacks of up to 2^32 elements; above that the code checks nothing.
* Structure layouts of `ctypes`, SPIR-V validation, messages.
* Interrupts in the failure handler and in `close`; warnings turned into errors.

## Plan

The order was: the backend and its runtime, the entry points, tiling, the kernel, the pin, then the registry, the harness,
the shapes and the calls that compose them; then the proofs, from the lock outwards. Left:

1. Proofs: the backend over the entry points (`Refines` lifted from `CtxSpec` to the client that `VulkanAttention` is);
   `SharedBytesDeclared` and `AddressesDoNotWrap` cited from the shader's state machine; weaker hypotheses for
   `BuffersSafe` (a time-out is harmless until another thread takes the lock).
2. The vec4 path of the shader in the state machine; a second registering thread, for the race of two registrations.
