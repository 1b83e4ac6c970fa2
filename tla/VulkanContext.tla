---------------------------- MODULE VulkanContext ----------------------------
(* The compute runtime of vkcompute.py at the granularity of its API calls:  *)
(* a VulkanContext (instance, device and queue), the storage buffers and     *)
(* pipelines made through it, and the submissions the GPU has not executed.  *)
(* A call either takes effect or raises VulkanError and changes nothing; a   *)
(* raise is therefore a stutter here.  The caller is one thread, or several  *)
(* that serialise themselves, as VulkanAttention does with its lock; CtxSpec *)
(* is any sequence of calls.                                                 *)
EXTENDS Naturals, FiniteSets

CONSTANTS
  Keys,       \* specializations a pipeline can be compiled for
  Sizes,      \* buffer sizes, in bytes
  Data,       \* what an array written to a buffer, or a push-constant block, holds
  Nil,        \* no submission, no buffer
  Garbage,    \* contents no caller can interpret: fresh memory, a mixed result
  Absent,     \* the buffer does not exist
  Faults,     \* outcomes other than success that the environment may choose
  MaxOpens    \* bound: how many devices a behaviour opens

FaultKinds == {"open", "allocate", "compile", "submit", "timeout", "lost", "interrupt"}

(* The four storage buffers of the attention kernel; BUFFER_COUNT is 4.      *)
Inputs   == {"query", "key", "value"}
Bindings == Inputs \cup {"output"}

(* A context is the number of the open that made it; 0 stands for none.      *)
Contexts    == 1 .. MaxOpens
Pipelines   == [ctx : Contexts, key : Keys]
Buffers     == [ctx : Contexts, binding : Bindings, bytes : Sizes]
Submissions == [pipe : Pipelines, bufs : [Bindings -> Buffers], arg : Data]

ASSUME ContextAssumption ==
  /\ Sizes \subseteq Nat
  /\ MaxOpens \in Nat
  /\ Faults \subseteq FaultKinds
  /\ Garbage \notin Data /\ Absent \notin Data
  /\ Nil \notin Data \cup Buffers \cup Submissions
  /\ Absent # Garbage /\ Nil # Garbage

VARIABLES
  opens,      \* devices opened so far
  devices,    \* contexts whose device and instance exist
  pipelines,  \* pipelines not destroyed (VulkanContext._pipelines)
  pending,    \* pipelines whose _pending flag is set
  contents,   \* contents of every buffer, Absent when it is not allocated
  inflight,   \* submissions the GPU has accepted and not executed
  waiting,    \* the submission whose fence the caller waits for, or Nil
  closing     \* the context whose close() is running, or 0

ctxVars == <<opens, devices, pipelines, pending, contents, inflight, waiting, closing>>

live       == {b \in Buffers : contents[b] # Absent}
PipesOf(c) == {p \in pipelines : p.ctx = c}
BufsOf(c)  == {b \in live : b.ctx = c}
Busy(c)    == \E s \in inflight : s.pipe.ctx = c
Calling    == waiting = Nil /\ closing = 0

(* Every variable holds the kind of value the code keeps in it.              *)
CtxTypeOK ==
  /\ opens \in 0 .. MaxOpens /\ devices \subseteq Contexts
  /\ pipelines \subseteq Pipelines /\ pending \subseteq Pipelines
  /\ contents \in [Buffers -> Data \cup {Garbage, Absent}]
  /\ inflight \subseteq Submissions /\ waiting \in Submissions \cup {Nil}
  /\ closing \in 0 .. MaxOpens

(* The pipeline, the command buffer and the device of a submission exist     *)
(* until the GPU has executed it ("an object referenced by a pending         *)
(* submission cannot legally be destroyed", vkcompute.py:1199-1200).         *)
PipelinesOutliveWork ==
  \A s \in inflight : s.pipe \in pipelines /\ s.pipe.ctx \in devices

(* The same of the buffers it binds: "the command buffer and every object it *)
(* references must not be reset or destroyed from here" (vkcompute.py:1191). *)
BuffersOutliveWork ==
  \A s \in inflight : \A b \in Bindings : s.bufs[b] \in live

CtxInit ==
  /\ opens = 0 /\ devices = {} /\ pipelines = {} /\ pending = {}
  /\ contents = [b \in Buffers |-> Absent]
  /\ inflight = {} /\ waiting = Nil /\ closing = 0

-----------------------------------------------------------------------------
(* VulkanContext.open: instance, physical device, logical device and queue.  *)
Open ==
  /\ Calling
  /\ opens < MaxOpens
  /\ opens' = opens + 1
  /\ devices' = devices \cup {opens + 1}
  /\ UNCHANGED <<pipelines, pending, contents, inflight, waiting, closing>>

(* VulkanContext.allocate: a mapped buffer with unspecified contents.        *)
Allocate(b) ==
  /\ Calling
  /\ b.ctx \in devices /\ b \notin live
  /\ contents' = [contents EXCEPT ![b] = Garbage]
  /\ UNCHANGED <<opens, devices, pipelines, pending, inflight, waiting, closing>>

(* VulkanBuffer.write, one array into each of the buffers bs.                *)
Write(bs, d) ==
  /\ Calling
  /\ bs \subseteq live
  /\ contents' = [b \in Buffers |-> IF b \in bs THEN d ELSE contents[b]]
  /\ UNCHANGED <<opens, devices, pipelines, pending, inflight, waiting, closing>>

(* VulkanBuffer.free: unmap, free the memory, destroy the handle.  Nothing   *)
(* is drained first.                                                         *)
Free(b) ==
  /\ Calling
  /\ b \in live
  /\ contents' = [contents EXCEPT ![b] = Absent]
  /\ UNCHANGED <<opens, devices, pipelines, pending, inflight, waiting, closing>>

(* VulkanContext.compute_pipeline.                                           *)
Compile(p) ==
  /\ Calling
  /\ p.ctx \in devices /\ p \notin pipelines
  /\ pipelines' = pipelines \cup {p}
  /\ UNCHANGED <<opens, devices, pending, contents, inflight, waiting, closing>>

(* Mutant: dispatch without the check of _pending.                           *)
SubmitPending(p, bs, d) ==
  /\ Calling
  /\ p \in pipelines
  /\ \A i \in Bindings : bs[i] \in live
  /\ waiting' = [pipe |-> p, bufs |-> bs, arg |-> d]
  /\ inflight' = inflight \cup {waiting'}
  /\ UNCHANGED <<opens, devices, pipelines, pending, contents, closing>>

(* VulkanPipeline.dispatch up to vkQueueSubmit: the checks, the descriptor   *)
(* writes, the recording and the submission.                                 *)
Submit(p, bs, d) ==
  /\ Calling
  /\ p \in pipelines /\ p \notin pending
  /\ \A i \in Bindings : bs[i] \in live
  /\ waiting' = [pipe |-> p, bufs |-> bs, arg |-> d]
  /\ inflight' = inflight \cup {waiting'}
  /\ UNCHANGED <<opens, devices, pipelines, pending, contents, closing>>

(* Mutant: dispatch returns without waiting for the fence.                   *)
FenceUnwaited ==
  /\ waiting # Nil
  /\ waiting' = Nil
  /\ UNCHANGED <<opens, devices, pipelines, pending, contents, inflight, closing>>

(* vkWaitForFences succeeds.  The fence of a submission also covers the work *)
(* submitted to the queue before it.                                         *)
FenceSignalled ==
  /\ waiting # Nil /\ ~Busy(waiting.pipe.ctx)
  /\ waiting' = Nil
  /\ UNCHANGED <<opens, devices, pipelines, pending, contents, inflight, closing>>

(* The wait ends in an exception.  vkWaitForFences reported a timeout, which *)
(* leaves the work in flight, or a lost device, which never executes it; then *)
(* _pending is set.  Or a KeyboardInterrupt is delivered between the         *)
(* submission and the line that sets _pending, and nothing records it.       *)
WaitFails(kind) ==
  /\ kind \in Faults
  /\ waiting # Nil /\ (kind # "interrupt" => Busy(waiting.pipe.ctx))
  /\ pending' = IF kind = "interrupt" THEN pending ELSE pending \cup {waiting.pipe}
  /\ inflight' = IF kind = "lost"
                   THEN {s \in inflight : s.pipe.ctx # waiting.pipe.ctx}
                   ELSE inflight
  /\ waiting' = Nil
  /\ UNCHANGED <<opens, devices, pipelines, contents, closing>>

(* Mutant: destroy without draining a pending pipeline.                      *)
DestroyUndrained(p) ==
  /\ p \in pipelines
  /\ pipelines' = pipelines \ {p}
  /\ pending' = pending \ {p}
  /\ UNCHANGED <<opens, devices, contents, inflight, waiting, closing>>

(* The destruction of a pipeline: vkDeviceWaitIdle blocks, without a         *)
(* timeout, only when the pipeline is pending.                               *)
DestroyHandles(p) ==
  /\ p \in pipelines
  /\ p \in pending => ~Busy(p.ctx)
  /\ pipelines' = pipelines \ {p}
  /\ pending' = pending \ {p}
  /\ UNCHANGED <<opens, devices, contents, inflight, waiting, closing>>

(* VulkanPipeline.destroy, called by the owner of the pipeline.              *)
Destroy(p) == Calling /\ DestroyHandles(p)

(* VulkanContext.close destroys the pipelines, then frees the buffers, then  *)
(* destroys the device and the instance.                                     *)
BeginClose(c) ==
  /\ Calling
  /\ c \in devices
  /\ closing' = c
  /\ UNCHANGED <<opens, devices, pipelines, pending, contents, inflight, waiting>>

ClosePipelineUndrained(p) ==  \* Mutant: a pending pipeline is refused, and close raises.
  /\ closing # 0 /\ p.ctx = closing /\ p \in pipelines
  /\ IF p \in pending
       THEN /\ closing' = 0
            /\ UNCHANGED <<opens, devices, pipelines, pending, contents, inflight, waiting>>
       ELSE DestroyHandles(p)

ClosePipeline(p) == closing # 0 /\ p.ctx = closing /\ DestroyHandles(p)

(* Mutant: close frees buffers before it has destroyed the pipelines.        *)
CloseBufferEarly(b) ==
  /\ closing # 0
  /\ b \in BufsOf(closing)
  /\ contents' = [contents EXCEPT ![b] = Absent]
  /\ UNCHANGED <<opens, devices, pipelines, pending, inflight, waiting, closing>>

CloseBuffer(b) ==
  /\ closing # 0 /\ PipesOf(closing) = {}
  /\ b \in BufsOf(closing)
  /\ contents' = [contents EXCEPT ![b] = Absent]
  /\ UNCHANGED <<opens, devices, pipelines, pending, inflight, waiting, closing>>

(* Mutant: close destroys the device without freeing the buffers.            *)
CloseDeviceEarly ==
  /\ closing # 0 /\ PipesOf(closing) = {}
  /\ devices' = devices \ {closing}
  /\ closing' = 0
  /\ UNCHANGED <<opens, pipelines, pending, contents, inflight, waiting>>

CloseDevice ==
  /\ closing # 0 /\ PipesOf(closing) = {} /\ BufsOf(closing) = {}
  /\ devices' = devices \ {closing}
  /\ closing' = 0
  /\ UNCHANGED <<opens, pipelines, pending, contents, inflight, waiting>>

CloseStep ==
  \/ \E p \in Pipelines : ClosePipeline(p)
  \/ \E b \in Buffers : CloseBuffer(b)
  \/ CloseDevice

(* The GPU executes a submission: the kernel reads the inputs as they are    *)
(* now and overwrites the output.  Two submissions in flight are unordered,  *)
(* since no barrier at the start of a command buffer orders them.            *)
Execute(s) ==
  /\ s \in inflight
  /\ inflight' = inflight \ {s}
  /\ contents' =
       IF s.bufs["output"] \in live
         THEN [contents EXCEPT ![s.bufs["output"]] =
                 IF \A i \in Inputs : contents[s.bufs[i]] = s.arg THEN s.arg ELSE Garbage]
         ELSE contents
  /\ UNCHANGED <<opens, devices, pipelines, pending, waiting, closing>>

Device == \E s \in inflight : Execute(s)

-----------------------------------------------------------------------------
(* Any caller of the API, one call at a time: what the runtime guarantees    *)
(* whatever its caller does with the objects it was given, short of calling  *)
(* from two threads at once.                                                 *)

(* dispatch over one buffer per binding, all of the pipeline's own context.  *)
CtxDispatch(p, d) ==
  \E bs \in [Bindings -> BufsOf(p.ctx)] :
    /\ \A i \in Bindings : bs[i].binding = i
    /\ Submit(p, bs, d)

CtxNext ==
  \/ Open
  \/ \E b \in Buffers : Allocate(b) \/ Free(b) \/ \E d \in Data : Write({b}, d)
  \/ \E p \in Pipelines : Compile(p) \/ Destroy(p) \/ \E d \in Data : CtxDispatch(p, d)
  \/ FenceSignalled
  \/ \E kind \in {"timeout", "lost", "interrupt"} : WaitFails(kind)
  \/ \E c \in Contexts : BeginClose(c)
  \/ CloseStep
  \/ Device

CtxSpec == CtxInit /\ [][CtxNext]_ctxVars

(* A close() that was begun runs on, and the GPU executes what it was given. *)
CtxFairSpec == CtxSpec /\ WF_ctxVars(CloseStep) /\ WF_ctxVars(Device)

-----------------------------------------------------------------------------
(* A pipeline has one command buffer and one descriptor set, so it never has *)
(* two submissions in flight (the _pending check, vkcompute.py:1041).        *)
OneSubmissionPerPipeline ==
  \A s, u \in inflight : s.pipe = u.pipe => s = u

(* A pipeline whose work the caller gave up on is never used again: from the *)
(* failed wait until it is destroyed it stays pending, and nothing new runs  *)
(* through it (vkcompute.py:1041-1044, 1193).                                *)
PendingIsFinal ==
  [][\A p \in pending : p \in pipelines' => p \in pending' /\ (waiting' # Nil => waiting'.pipe # p)]_ctxVars

(* close() leaves nothing behind: no pipeline or buffer of a context whose   *)
(* device is gone is still alive (vkcompute.py:1534-1548).                   *)
NothingOutlivesItsDevice ==
  /\ \A p \in pipelines : p.ctx \in devices
  /\ \A b \in live : b.ctx \in devices

(* close() returns, if the GPU is not wedged.                                *)
CloseReturns == \A c \in Contexts : closing = c ~> c \notin devices
=============================================================================
