--------------------------- MODULE VulkanAttention ---------------------------
(* VulkanAttention of vkbackend.py: threads share one backend, which runs    *)
(* the calls its kernel covers on one device, under one lock, and forwards   *)
(* everything else, and everything after a device failure, to the CPU.       *)
(* The device is driven through the API calls of VulkanContext.              *)
EXTENDS VulkanContext

CONSTANTS
  Threads,     \* Python threads sharing the backend
  Covered,     \* the calls (members of Data) for which unsupported_reason is None
  QBytes,      \* QBytes[r]: size of the query and of the output of call r
  KBytes,      \* KBytes[r]: size of the key and of the value of call r
  Limits,      \* tile-sizing limits
  Floor,       \* VULKAN_FLOOR_LIMITS, which every device meets
  Reports,     \* Reports[c]: tile_limits of the device of context c
  Overrides,   \* what the caller may pass for `limits`, Nil for nothing
  TileKey,     \* TileKey[l][r]: the specialization _plan chooses for r under limits l, or Nil
  MaxCalls     \* bound: how many calls and close()s a behaviour makes

ASSUME AttentionAssumption ==
  /\ Covered \subseteq Data
  /\ QBytes \in [Data -> Sizes] /\ KBytes \in [Data -> Sizes]
  /\ Nil \notin Limits /\ Floor \in Limits /\ Reports \in [Contexts -> Limits]
  /\ Overrides \subseteq Limits \cup {Nil}
  /\ TileKey \in [Limits -> [Data -> Keys \cup {Nil}]]
  /\ MaxCalls \in Nat
  /\ Nil \notin Threads

VARIABLES
  lock,         \* the thread holding self._lock, or Nil
  usable,       \* _device_usable
  deviceCalls,  \* _device_calls
  context,      \* _context, 0 for None
  override,     \* _limits_override, Nil for None
  limits,       \* _limits
  cache,        \* the pipelines in _pipelines
  buffers,      \* _buffers: a buffer or Nil per binding
  outgrown,     \* `current` of _buffer: replaced and not yet freed, or Nil
  orphans,      \* history: devices opened by a call cut short before it stored them
  warnings,     \* RuntimeWarnings issued
  calls,        \* calls and close()s made, to bound a behaviour
  pc, request,  \* per thread: where it is, and the call it is in
  first,        \* per thread: `first` of _retire_device
  answer        \* per thread: what the last call returned, Nil before and on a raise

backendVars == <<usable, deviceCalls, context, override, limits, cache, buffers, outgrown, orphans>>
threadVars  == <<warnings, calls, pc, request, first, answer>>
vars == <<ctxVars, lock, backendVars, threadVars>>

(* Where a thread holds the lock: in the body of _run, tearing the device    *)
(* down after a failure, or in close().                                      *)
Running  == {"open", "store", "adopt", "plan", "write", "compile", "submit", "wait", "read"}
              \cup Bindings
Tearing  == {"teardown", "closing"}
Held     == Running \cup Tearing
Outside  == {"idle", "enter", "failed", "warn", "fallback", "close"}

InitialLimits == IF override = Nil THEN Floor ELSE override
NoBuffers     == [b \in Bindings |-> Nil]

Init ==
  /\ CtxInit
  /\ lock = Nil /\ usable = TRUE /\ deviceCalls = 0
  /\ context = 0 /\ override \in Overrides /\ limits = InitialLimits
  /\ cache = {} /\ buffers = NoBuffers /\ outgrown = Nil /\ orphans = {}
  /\ warnings = 0 /\ calls = 0
  /\ pc = [t \in Threads |-> "idle"]
  /\ request = [t \in Threads |-> Nil]
  /\ first = [t \in Threads |-> FALSE]
  /\ answer = [t \in Threads |-> Nil]

Goto(t, label) == pc' = [pc EXCEPT ![t] = label]

(* Leave a `with self._lock` block, and take the lock that is free.          *)
Release(t, label) == lock' = Nil /\ Goto(t, label)
Take(t, label)    == lock = Nil /\ lock' = t /\ Goto(t, label)

(* The next binding _dispatch sizes a buffer for, and the step after them.   *)
AfterBinding == [query |-> "key", key |-> "value", value |-> "output", output |-> "write"]

NBytes(r, b) == IF b \in {"query", "output"} THEN QBytes[r] ELSE KBytes[r]

-----------------------------------------------------------------------------
(* __call__: an uncovered call goes straight to the fallback.                *)
Call(t, r) ==
  /\ pc[t] = "idle" /\ calls < MaxCalls
  /\ calls' = calls + 1
  /\ request' = [request EXCEPT ![t] = r]
  /\ answer' = [answer EXCEPT ![t] = Nil]
  /\ Goto(t, IF r \in Covered THEN "enter" ELSE "fallback")
  /\ UNCHANGED <<ctxVars, lock, backendVars, warnings, first>>

(* _run takes the lock and gives up at once when the device was retired.     *)
EnterUnchecked(t) ==  \* Mutant: the flag is not read under the lock.
  /\ pc[t] = "enter"
  /\ Take(t, "open")
  /\ UNCHANGED <<ctxVars, backendVars, warnings, calls, request, first, answer>>

EnterUsable(t) ==
  /\ pc[t] = "enter" /\ usable
  /\ Take(t, "open")
  /\ UNCHANGED <<ctxVars, backendVars, warnings, calls, request, first, answer>>

EnterRetired(t) ==
  /\ pc[t] = "enter" /\ ~usable /\ lock = Nil
  /\ Goto(t, "fallback")
  /\ UNCHANGED <<ctxVars, lock, backendVars, warnings, calls, request, first, answer>>

(* A VulkanError leaves the locked block: the lock is released, and the      *)
(* handler has yet to take it again.                                         *)
FailHoldingLock(t) ==  \* Mutant: the handler runs inside the locked block.
  /\ Goto(t, "failed")
  /\ UNCHANGED <<lock, backendVars, warnings, calls, request, first, answer>>

Fail(t) ==
  /\ Release(t, "failed")
  /\ UNCHANGED <<backendVars, warnings, calls, request, first, answer>>

Raises(t, label, fault) ==
  /\ pc[t] = label /\ fault \in Faults
  /\ Fail(t)
  /\ UNCHANGED ctxVars

(* _context_held: reuse the open device, or open one, then store it in       *)
(* _context, then adopt its limits.  An interrupt may separate the three.    *)
ReuseContext(t) ==
  /\ pc[t] = "open" /\ context # 0
  /\ Goto(t, "plan")
  /\ UNCHANGED <<ctxVars, lock, backendVars, warnings, calls, request, first, answer>>

OpenContext(t) ==
  /\ pc[t] = "open" /\ context = 0
  /\ Open
  /\ Goto(t, "store")
  /\ UNCHANGED <<lock, backendVars, warnings, calls, request, first, answer>>

(* The device in hand is the last one opened: its opener holds the lock.     *)
StoreContext(t) ==
  /\ pc[t] = "store"
  /\ context' = opens
  /\ Goto(t, "adopt")
  /\ UNCHANGED <<ctxVars, lock, usable, deviceCalls, override, limits, cache, buffers, outgrown,
                 orphans, warnings, calls, request, first, answer>>

KeepLimits(t) ==  \* Mutant: the limits stay those assumed before the open.
  /\ pc[t] = "adopt"
  /\ Goto(t, "plan")
  /\ UNCHANGED <<ctxVars, lock, backendVars, warnings, calls, request, first, answer>>

AdoptLimits(t) ==
  /\ pc[t] = "adopt"
  /\ limits' = IF override = Nil THEN Reports[context] ELSE limits
  /\ Goto(t, "plan")
  /\ UNCHANGED <<ctxVars, lock, usable, deviceCalls, context, override, cache, buffers, outgrown,
                 orphans, warnings, calls, request, first, answer>>

OpenFails(t) == Raises(t, "open", "open") /\ context = 0

(* _plan: no tile fits, or the dispatch is too wide, is no device failure.   *)
PlanOf(r) == TileKey[limits][r]

Plan(t) ==
  /\ pc[t] = "plan" /\ PlanOf(request[t]) # Nil
  /\ Goto(t, "query")
  /\ UNCHANGED <<ctxVars, lock, backendVars, warnings, calls, request, first, answer>>

PlanDeclines(t) ==
  /\ pc[t] = "plan" /\ PlanOf(request[t]) = Nil
  /\ Release(t, "fallback")
  /\ UNCHANGED <<ctxVars, backendVars, warnings, calls, request, first, answer>>

(* _buffer: keep a buffer that is large enough; else allocate its            *)
(* replacement, store it, and only then free the one it replaces.            *)
Fits(b, n) == buffers[b] # Nil /\ buffers[b].bytes >= n

KeepBuffer(t, b) ==
  /\ pc[t] = b /\ outgrown = Nil
  /\ Fits(b, NBytes(request[t], b))
  /\ Goto(t, AfterBinding[b])
  /\ UNCHANGED <<ctxVars, lock, backendVars, warnings, calls, request, first, answer>>

GrowBuffer(t, b) ==
  LET new == [ctx |-> context, binding |-> b, bytes |-> NBytes(request[t], b)]
  IN  /\ pc[t] = b /\ outgrown = Nil
      /\ ~Fits(b, NBytes(request[t], b))
      /\ Allocate(new)
      /\ buffers' = [buffers EXCEPT ![b] = new]
      /\ outgrown' = buffers[b]
      /\ UNCHANGED <<lock, usable, deviceCalls, context, override, limits, cache, orphans, threadVars>>

FreeOutgrown(t, b) ==
  /\ pc[t] = b /\ outgrown # Nil
  /\ Free(outgrown)
  /\ outgrown' = Nil
  /\ UNCHANGED <<lock, usable, deviceCalls, context, override, limits, cache, buffers, orphans,
                 threadVars>>

AllocateFails(t, b) ==
  /\ Raises(t, b, "allocate")
  /\ outgrown = Nil /\ ~Fits(b, NBytes(request[t], b))

(* _dispatch copies query, key and value in.                                 *)
WriteQueryAndKey(t) ==  \* Mutant: value is not copied in.
  /\ pc[t] = "write"
  /\ Write({buffers["query"], buffers["key"]}, request[t])
  /\ Goto(t, "compile")
  /\ UNCHANGED <<lock, backendVars, warnings, calls, request, first, answer>>

WriteInputs(t) ==
  /\ pc[t] = "write"
  /\ Write({buffers[b] : b \in Inputs}, request[t])
  /\ Goto(t, "compile")
  /\ UNCHANGED <<lock, backendVars, warnings, calls, request, first, answer>>

(* _pipeline: one compilation per specialization of the open device.         *)
Cached(t) == {p \in cache : p.key = PlanOf(request[t])}

ReusePipeline(t) ==
  /\ pc[t] = "compile" /\ Cached(t) # {}
  /\ Goto(t, "submit")
  /\ UNCHANGED <<ctxVars, lock, backendVars, warnings, calls, request, first, answer>>

CompilePipeline(t) ==
  LET p == [ctx |-> context, key |-> PlanOf(request[t])]
  IN  /\ pc[t] = "compile" /\ Cached(t) = {}
      /\ Compile(p)
      /\ cache' = cache \cup {p}
      /\ Goto(t, "submit")
      /\ UNCHANGED <<lock, usable, deviceCalls, context, override, limits, buffers, outgrown, orphans,
                     warnings, calls, request, first, answer>>

CompileFails(t) == Raises(t, "compile", "compile") /\ Cached(t) = {}

(* VulkanPipeline.dispatch over the four buffers.  A pipeline whose earlier  *)
(* dispatch never completed refuses; so may any entry point up to the        *)
(* submission.                                                               *)
SubmitWork(t) ==
  /\ pc[t] = "submit"
  /\ \E p \in Cached(t) : Submit(p, buffers, request[t])
  /\ Goto(t, "wait")
  /\ UNCHANGED <<lock, backendVars, warnings, calls, request, first, answer>>

SubmitRefused(t) ==
  /\ pc[t] = "submit" /\ Cached(t) \subseteq pending
  /\ Fail(t)
  /\ UNCHANGED ctxVars

SubmitFails(t) == Raises(t, "submit", "submit") /\ Cached(t) \cap pending = {}

WaitSucceeds(t) ==
  /\ pc[t] = "wait"
  /\ FenceSignalled
  /\ Goto(t, "read")
  /\ UNCHANGED <<lock, backendVars, warnings, calls, request, first, answer>>

WaitTimesOut(t) ==
  /\ pc[t] = "wait"
  /\ \E kind \in {"timeout", "lost"} : WaitFails(kind)
  /\ Fail(t)

(* The output is copied out, the lock released and the array returned.       *)
ReadOutput(t) ==
  /\ pc[t] = "read"
  /\ answer' = [answer EXCEPT ![t] = contents[buffers["output"]]]
  /\ deviceCalls' = deviceCalls + 1
  /\ Release(t, "idle")
  /\ UNCHANGED <<ctxVars, usable, context, override, limits, cache, buffers, outgrown, orphans,
                 warnings, calls, request, first>>

(* Anything that is not a VulkanError (a KeyboardInterrupt, a MemoryError)   *)
(* leaves _run through the `with`, which releases the lock and undoes        *)
(* nothing else.  A device not yet stored is lost: nobody will close it.     *)
(* (A buffer or a pipeline not yet stored goes with its context.)            *)
InterruptHoldingLock(t) ==  \* Mutant: an exception does not release the lock.
  /\ "interrupt" \in Faults /\ pc[t] \in Running
  /\ IF pc[t] = "wait" THEN WaitFails("interrupt") ELSE UNCHANGED ctxVars
  /\ outgrown' = Nil
  /\ orphans' = IF pc[t] = "store" THEN orphans \cup {opens} ELSE orphans
  /\ Goto(t, "idle")
  /\ UNCHANGED <<lock, usable, deviceCalls, context, override, limits, cache, buffers,
                 warnings, calls, request, first, answer>>

Interrupt(t) ==
  /\ "interrupt" \in Faults /\ pc[t] \in Running
  /\ IF pc[t] = "wait" THEN WaitFails("interrupt") ELSE UNCHANGED ctxVars
  /\ outgrown' = Nil
  /\ orphans' = IF pc[t] = "store" THEN orphans \cup {opens} ELSE orphans
  /\ Release(t, "idle")
  /\ UNCHANGED <<usable, deviceCalls, context, override, limits, cache, buffers,
                 warnings, calls, request, first, answer>>

(* _close_held: forget the device, then close it if there was one.  `done`   *)
(* is where the thread goes when there is nothing to close.                  *)
CloseForgetting(t, busy, done) ==  \* Mutant: the context is dropped, not closed.
  /\ lock = Nil
  /\ context' = 0 /\ limits' = InitialLimits /\ cache' = {} /\ buffers' = NoBuffers
  /\ Goto(t, done)
  /\ UNCHANGED <<ctxVars, lock>>

CloseKeepingCache(t, busy, done) ==  \* Mutant: the pipeline cache is not cleared.
  /\ lock = Nil
  /\ context' = 0 /\ limits' = InitialLimits /\ buffers' = NoBuffers
  /\ IF context = 0
       THEN /\ Goto(t, done)
            /\ UNCHANGED <<ctxVars, lock, cache>>
       ELSE /\ BeginClose(context)
            /\ Take(t, busy)
            /\ UNCHANGED cache

CloseKeepingLimits(t, busy, done) ==  \* Mutant: the limits of the closed device stay.
  /\ lock = Nil
  /\ context' = 0 /\ limits' = limits /\ cache' = {} /\ buffers' = NoBuffers
  /\ IF context = 0
       THEN /\ Goto(t, done)
            /\ UNCHANGED <<ctxVars, lock>>
       ELSE /\ BeginClose(context)
            /\ Take(t, busy)

CloseEmptying(t, busy, done) ==  \* Mutant: the list of buffers is cleared, not reset.
  /\ lock = Nil
  /\ context' = 0 /\ limits' = InitialLimits /\ cache' = {} /\ buffers' = <<>>
  /\ IF context = 0
       THEN /\ Goto(t, done)
            /\ UNCHANGED <<ctxVars, lock>>
       ELSE /\ BeginClose(context)
            /\ Take(t, busy)

CloseUnlocked(t, busy, done) ==  \* Mutant: the device is closed without the lock.
  /\ context' = 0 /\ limits' = InitialLimits /\ cache' = {} /\ buffers' = NoBuffers
  /\ IF context = 0
       THEN /\ Goto(t, done)
            /\ UNCHANGED <<ctxVars, lock>>
       ELSE /\ BeginClose(context)
            /\ Goto(t, busy)
            /\ UNCHANGED lock

CloseHeld(t, busy, done) ==
  /\ lock = Nil
  /\ context' = 0
  /\ limits' = InitialLimits
  /\ cache' = {}
  /\ buffers' = NoBuffers
  /\ IF context = 0
       THEN /\ Goto(t, done)
            /\ UNCHANGED <<ctxVars, lock>>
       ELSE /\ BeginClose(context)
            /\ Take(t, busy)

(* The thread warns when it was the first to retire the device.              *)
AfterTeardown(isFirst) == IF isFirst THEN "warn" ELSE "fallback"

RetireWarning(t) ==  \* Mutant: every failure warns.
  /\ pc[t] = "failed"
  /\ first' = [first EXCEPT ![t] = TRUE]
  /\ usable' = FALSE
  /\ CloseHeld(t, "teardown", AfterTeardown(TRUE))
  /\ UNCHANGED <<deviceCalls, override, outgrown, orphans, warnings, calls, request, answer>>

(* _retire_device takes the lock again, after Fail released it.              *)
Retire(t) ==
  /\ pc[t] = "failed"
  /\ first' = [first EXCEPT ![t] = usable]
  /\ usable' = FALSE
  /\ CloseHeld(t, "teardown", AfterTeardown(usable))
  /\ UNCHANGED <<deviceCalls, override, outgrown, orphans, warnings, calls, request, answer>>

Teardown(t) ==
  /\ pc[t] = "teardown"
  /\ CloseStep
  /\ IF closing' = 0
       THEN Release(t, AfterTeardown(first[t]))
       ELSE UNCHANGED <<lock, pc>>
  /\ UNCHANGED <<backendVars, warnings, calls, request, first, answer>>

(* The warning is issued outside the lock; then _run returns None and        *)
(* __call__ computes the answer on the CPU.                                  *)
Warn(t) ==
  /\ pc[t] = "warn"
  /\ warnings' = warnings + 1
  /\ first' = [first EXCEPT ![t] = FALSE]
  /\ Goto(t, "fallback")
  /\ UNCHANGED <<ctxVars, lock, backendVars, calls, request, answer>>

Fallback(t) ==
  /\ pc[t] = "fallback"
  /\ answer' = [answer EXCEPT ![t] = request[t]]
  /\ Goto(t, "idle")
  /\ UNCHANGED <<ctxVars, lock, backendVars, warnings, calls, request, first>>

(* close(): the caller releases the device; a later call opens it again.     *)
StartClose(t) ==
  /\ pc[t] = "idle" /\ calls < MaxCalls
  /\ calls' = calls + 1
  /\ Goto(t, "close")
  /\ UNCHANGED <<ctxVars, lock, backendVars, warnings, request, first, answer>>

Close(t) ==
  /\ pc[t] = "close"
  /\ CloseHeld(t, "closing", "idle")
  /\ UNCHANGED <<usable, deviceCalls, override, outgrown, orphans, warnings, calls, request, first,
                 answer>>

Closing(t) ==
  /\ pc[t] = "closing"
  /\ CloseStep
  /\ IF closing' = 0 THEN Release(t, "idle") ELSE UNCHANGED <<lock, pc>>
  /\ UNCHANGED <<backendVars, warnings, calls, request, first, answer>>

(* What a thread does on its own once it is in a call.                       *)
Step(t) ==
  \/ EnterUsable(t) \/ EnterRetired(t)
  \/ ReuseContext(t) \/ OpenContext(t) \/ StoreContext(t) \/ AdoptLimits(t) \/ OpenFails(t)
  \/ Plan(t) \/ PlanDeclines(t)
  \/ \E b \in Bindings : KeepBuffer(t, b) \/ GrowBuffer(t, b) \/ FreeOutgrown(t, b)
                           \/ AllocateFails(t, b)
  \/ WriteInputs(t)
  \/ ReusePipeline(t) \/ CompilePipeline(t) \/ CompileFails(t)
  \/ SubmitWork(t) \/ SubmitRefused(t) \/ SubmitFails(t)
  \/ WaitSucceeds(t) \/ WaitTimesOut(t) \/ ReadOutput(t)
  \/ Retire(t) \/ Teardown(t) \/ Warn(t) \/ Fallback(t)
  \/ Close(t) \/ Closing(t)

(* The GPU works on its own.                                                 *)
Gpu == Device /\ UNCHANGED <<lock, backendVars, threadVars>>

Next ==
  \/ \E t \in Threads : Step(t) \/ StartClose(t) \/ Interrupt(t)
                          \/ \E r \in Data : Call(t, r)
  \/ Gpu

Spec == Init /\ [][Next]_vars

(* Threads that are in a call keep running, and the lock they wait for is    *)
(* eventually theirs; nobody has to make a call or to interrupt one.        *)
ThreadFairness == \A t \in Threads : WF_vars(Step(t))

(* A GPU that is not wedged executes what it was given.                      *)
GpuFairness == WF_vars(Gpu)

FairSpec   == Spec /\ ThreadFairness /\ GpuFairness
WedgedSpec == Spec /\ ThreadFairness

-----------------------------------------------------------------------------
(* Every variable holds the kind of value the code keeps in it.              *)
TypeOK ==
  /\ CtxTypeOK
  /\ lock \in Threads \cup {Nil}
  /\ usable \in BOOLEAN /\ deviceCalls \in Nat
  /\ context \in 0 .. MaxOpens /\ orphans \subseteq Contexts
  /\ override \in Limits \cup {Nil} /\ limits \in Limits
  /\ cache \subseteq Pipelines
  /\ buffers \in [Bindings -> Buffers \cup {Nil}] /\ outgrown \in Buffers \cup {Nil}
  /\ warnings \in Nat /\ calls \in 0 .. MaxCalls
  /\ pc \in [Threads -> Held \cup Outside]
  /\ request \in [Threads -> Data \cup {Nil}]
  /\ first \in [Threads -> BOOLEAN]
  /\ answer \in [Threads -> Data \cup {Garbage, Absent, Nil}]

(* The lock serialises every use of the device (vkbackend.py:159-161): the   *)
(* thread that holds it is the one inside a locked block, and no call runs   *)
(* on a device that was given up on.                                         *)
LockProtects ==
  \A t \in Threads : /\ pc[t] \in Held <=> lock = t
                     /\ pc[t] \in Running => usable

(* The warning about a device failure is issued at most once, and only after *)
(* the device was retired ("once, with a warning", vkbackend.py:155).        *)
WarnsOnce == warnings <= 1 /\ (warnings = 1 => ~usable)

(* "One instance owns one device" (vkbackend.py:152): whatever the threads   *)
(* do, no second device is open, and the only one is the one in _context,    *)
(* the one about to be stored there, or the one a close is working on; once  *)
(* the device was retired, _context stays empty, whoever opened it again in  *)
(* between.  Beyond it there are only devices that an exception took from    *)
(* _context_held before it had stored them.                                  *)
InHand == IF \E t \in Threads : pc[t] = "store" THEN {opens} ELSE {}
Owned  == ({context, closing} \ {0}) \cup InHand

OwnsOneDevice ==
  /\ devices = Owned \cup orphans
  /\ Owned \cap orphans = {}
  /\ \A c, d \in Owned : c = d
  /\ ~usable => context = 0

(* The pipeline cache and the four buffers never outlive the context they    *)
(* were made in: close() and retirement leave nothing a reopened device      *)
(* could be handed (vkbackend.py:290-294).                                   *)
HandlesOfOpenDevice ==
  /\ cache \subseteq PipesOf(context)
  /\ \A b \in Bindings : buffers[b] # Nil => buffers[b] \in BufsOf(context)
  /\ \A p, q \in cache : p.key = q.key => p = q

(* A call that returned an array returned the attention of its own inputs    *)
(* ("a wedged GPU degrades throughput, not correctness", vkbackend.py:156).  *)
AnswersAreRight ==
  \A t \in Threads : pc[t] = "idle" /\ answer[t] # Nil => answer[t] = request[t]

(* The limits the work of a device is to be planned under, the buffers it    *)
(* needs, and how it was planned.                                            *)
DeviceLimits(c)    == IF override = Nil THEN Reports[c] ELSE override
BuffersFit(s)      == \A b \in Bindings : /\ s.bufs[b].ctx = s.pipe.ctx
                                         /\ s.bufs[b].bytes >= NBytes(s.arg, b)
PlannedUnder(s, l) == s.pipe.key = TileKey[l][s.arg]

(* What runs on a device has the tile shape for that very device's limits,   *)
(* unless the caller fixed them, and four buffers of that device as large as *)
(* the call needs (_context_held and _buffer, vkbackend.py:389-402, 441-452).*)
SizedForTheDevice ==
  \A s \in inflight : PlannedUnder(s, DeviceLimits(s.pipe.ctx)) /\ BuffersFit(s)

(* Even when exceptions cut calls short, work is never planned under the     *)
(* limits of a device closed before (vkbackend.py:291-292): an interrupt     *)
(* before line 401 leaves the open device with the floor, which it meets.    *)
NeverBeyondTheDevice ==
  \A s \in inflight :
    /\ \E l \in {DeviceLimits(s.pipe.ctx), InitialLimits} : PlannedUnder(s, l)
    /\ BuffersFit(s)

(* Retirement is for good: from then on no device is opened, nothing is      *)
(* submitted and no call is served by the device (vkbackend.py:316-319).     *)
RetiredForGood ==
  [][~usable => ~usable' /\ opens' = opens /\ inflight' \subseteq inflight
                /\ deviceCalls' = deviceCalls]_vars

(* The backend is the service it promises to be: SdpaService with a call     *)
(* lasting from __call__ to its return.                                      *)
Service == INSTANCE SdpaService WITH
  calling <- [t \in Threads |-> IF pc[t] \in {"idle", "close", "closing"} THEN Nil ELSE request[t]]

ImplementsService == Service!Spec

(* Every call and every close() returns ("serves the rest of the process     *)
(* from the CPU", vkbackend.py:155-156).                                     *)
CallsReturn == \A t \in Threads : pc[t] # "idle" ~> pc[t] = "idle"
=============================================================================
