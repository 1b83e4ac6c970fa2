------------------------- MODULE VulkanContext_proofs -------------------------
(* What every call of the VulkanContext API preserves, whoever makes it, and *)
(* what follows for any sequence of calls.  VulkanAttention_proofs cites the *)
(* same lemmas.                                                              *)
EXTENDS VulkanContext, TLAPS

(* One API call, with any arguments, or a step of the GPU.                   *)
Dispatching ==
  \E p \in Pipelines, bs \in [Bindings -> Buffers], d \in Data : Submit(p, bs, d)

Waiting ==
  \/ FenceSignalled
  \/ \E kind \in {"timeout", "lost", "interrupt"} : WaitFails(kind)

CtxStep ==
  \/ Open
  \/ \E b \in Buffers : Allocate(b)
  \/ \E bs \in SUBSET Buffers, d \in Data : Write(bs, d)
  \/ \E b \in Buffers : Free(b)
  \/ \E p \in Pipelines : Compile(p)
  \/ Dispatching
  \/ Waiting
  \/ \E p \in Pipelines : Destroy(p)
  \/ \E c \in Contexts : BeginClose(c)
  \/ CloseStep
  \/ Device

(* Why no pipeline is destroyed under its work: a submission in flight is    *)
(* either the one its caller waits for, and that caller makes no other call, *)
(* or its pipeline is pending, and then destroy drains the device first.     *)
WorkIsWatched ==
  \A s \in inflight : s.pipe \in pipelines /\ (s.pipe \in pending \/ waiting = s)

PipelinesHaveDevice == \A p \in pipelines : p.ctx \in devices

OneCallAtATime == waiting = Nil \/ closing = 0

WorkInv == WorkIsWatched /\ PipelinesHaveDevice /\ OneCallAtATime

-----------------------------------------------------------------------------
(* Freeing, filling or overwriting buffers leaves a total map of contents.   *)
LEMMA ContentsUpdate ==
  ASSUME CtxTypeOK, NEW b \in Buffers, NEW v \in Data \cup {Garbage, Absent}
  PROVE  [contents EXCEPT ![b] = v] \in [Buffers -> Data \cup {Garbage, Absent}]
  BY DEF CtxTypeOK

(* The numbers a context may have after one more was opened.                 *)
LEMMA NextContext ==
  ASSUME CtxTypeOK, opens < MaxOpens
  PROVE  opens + 1 \in 0 .. MaxOpens /\ opens + 1 \in Contexts
  BY ContextAssumption DEF CtxTypeOK, Contexts

(* The destruction of a pipeline keeps the types of what it changes.         *)
LEMMA DestroyTyped ==
  ASSUME CtxTypeOK, NEW p \in Pipelines, DestroyHandles(p)
  PROVE  CtxTypeOK'
  BY DEF CtxTypeOK, DestroyHandles

(* The variables keep the kind of value the code keeps in them, whichever    *)
(* call is made and whatever the GPU does.                                   *)
LEMMA CtxTypeStep ==
  ASSUME CtxTypeOK, [CtxStep]_ctxVars
  PROVE  CtxTypeOK'
<1> USE ContextAssumption
<1>1. CASE Open
  BY <1>1, NextContext DEF Open, CtxTypeOK
<1>2. CASE \E b \in Buffers : Allocate(b)
  BY <1>2, ContentsUpdate DEF Allocate, CtxTypeOK
<1>3. CASE \E bs \in SUBSET Buffers, d \in Data : Write(bs, d)
  BY <1>3 DEF Write, CtxTypeOK
<1>4. CASE \E b \in Buffers : Free(b)
  BY <1>4, ContentsUpdate DEF Free, CtxTypeOK
<1>5. CASE \E p \in Pipelines : Compile(p)
  BY <1>5 DEF Compile, CtxTypeOK
<1>6. CASE Dispatching
  BY <1>6 DEF Dispatching, Submit, CtxTypeOK, Submissions
<1>7. CASE Waiting
  <2>1. waiting # Nil => waiting.pipe \in Pipelines
    BY DEF CtxTypeOK, Submissions
  <2> QED BY <1>7, <2>1 DEF Waiting, FenceSignalled, WaitFails, CtxTypeOK
<1>8. CASE \E p \in Pipelines : Destroy(p)
  BY <1>8, DestroyTyped DEF Destroy
<1>9. CASE \E c \in Contexts : BeginClose(c)
  BY <1>9 DEF BeginClose, CtxTypeOK, Contexts
<1>10. CASE CloseStep
  <2>1. CASE \E p \in Pipelines : ClosePipeline(p)
    BY <2>1, DestroyTyped DEF ClosePipeline
  <2>2. CASE \E b \in Buffers : CloseBuffer(b)
    BY <2>2, ContentsUpdate DEF CloseBuffer, CtxTypeOK
  <2>3. CASE CloseDevice
    BY <2>3 DEF CloseDevice, CtxTypeOK
  <2> QED BY <1>10, <2>1, <2>2, <2>3 DEF CloseStep
<1>11. CASE Device
  <2> PICK s \in inflight : Execute(s) BY <1>11 DEF Device
  <2>1. s.bufs["output"] \in Buffers /\ s.arg \in Data
    BY DEF CtxTypeOK, Submissions, Bindings
  <2>2. contents' \in [Buffers -> Data \cup {Garbage, Absent}]
    BY <2>1, ContentsUpdate DEF Execute, CtxTypeOK
  <2> QED BY <2>2 DEF Execute, CtxTypeOK
<1>12. CASE UNCHANGED ctxVars
  BY <1>12 DEF ctxVars, CtxTypeOK
<1> QED
  BY <1>1, <1>2, <1>3, <1>4, <1>5, <1>6, <1>7, <1>8, <1>9, <1>10, <1>11, <1>12 DEF CtxStep

-----------------------------------------------------------------------------
(* A context is never 0, which stands for no context.                        *)
LEMMA ContextsArePositive == 0 \notin Contexts
  BY ContextAssumption DEF Contexts

(* Destroying a pipeline the API allows to destroy leaves the work of the    *)
(* others watched, because a pending pipeline is drained first.              *)
LEMMA DestroyKeepsWork ==
  ASSUME CtxTypeOK, WorkInv, waiting = Nil, NEW p \in Pipelines, DestroyHandles(p)
  PROVE  WorkInv'
<1>1. \A s \in inflight : s.pipe \in pending /\ s.pipe # p
  <2> SUFFICES ASSUME NEW s \in inflight
               PROVE  s.pipe \in pending /\ s.pipe # p
    OBVIOUS
  <2>1. s # Nil /\ s.pipe \in pending
    BY ContextAssumption DEF WorkInv, WorkIsWatched, CtxTypeOK
  <2>2. s.pipe = p => Busy(p.ctx)
    BY DEF Busy
  <2> QED BY <2>1, <2>2 DEF DestroyHandles
<1> QED
  BY <1>1 DEF WorkInv, WorkIsWatched, PipelinesHaveDevice, OneCallAtATime, DestroyHandles

(* The watch over submitted work is kept by every call and by the GPU, as    *)
(* long as no exception leaves dispatch between the submission and the line  *)
(* that marks the pipeline pending.                                          *)
LEMMA WorkStep ==
  ASSUME CtxTypeOK, WorkInv, [CtxStep]_ctxVars, "interrupt" \notin Faults
  PROVE  WorkInv'
<1>0. Nil \notin inflight /\ (waiting # Nil => waiting \in Submissions)
  BY ContextAssumption DEF CtxTypeOK
<1> USE <1>0 DEF WorkInv, WorkIsWatched, PipelinesHaveDevice, OneCallAtATime
<1>1. CASE Open
  BY <1>1 DEF Open
<1>2. CASE \E b \in Buffers : Allocate(b)
  BY <1>2 DEF Allocate
<1>3. CASE \E bs \in SUBSET Buffers, d \in Data : Write(bs, d)
  BY <1>3 DEF Write
<1>4. CASE \E b \in Buffers : Free(b)
  BY <1>4 DEF Free
<1>5. CASE \E p \in Pipelines : Compile(p)
  BY <1>5 DEF Compile
<1>6. CASE Dispatching
  BY <1>6, ContextAssumption DEF Dispatching, Submit, Calling
<1>7. CASE Waiting
  <2>1. CASE FenceSignalled
    BY <2>1 DEF FenceSignalled, Busy
  <2>2. CASE \E kind \in {"timeout", "lost", "interrupt"} : WaitFails(kind)
    BY <2>2 DEF WaitFails
  <2> QED BY <1>7, <2>1, <2>2 DEF Waiting
<1>8. CASE \E p \in Pipelines : Destroy(p)
  BY <1>8, DestroyKeepsWork DEF Destroy, Calling
<1>9. CASE \E c \in Contexts : BeginClose(c)
  BY <1>9 DEF BeginClose, Calling
<1>10. CASE CloseStep
  <2>1. CASE \E p \in Pipelines : ClosePipeline(p)
    BY <2>1, DestroyKeepsWork DEF ClosePipeline
  <2>2. CASE \E b \in Buffers : CloseBuffer(b)
    BY <2>2 DEF CloseBuffer
  <2>3. CASE CloseDevice
    BY <2>3 DEF CloseDevice, PipesOf
  <2> QED BY <1>10, <2>1, <2>2, <2>3 DEF CloseStep
<1>11. CASE Device
  BY <1>11 DEF Device, Execute
<1>12. CASE UNCHANGED ctxVars
  BY <1>12 DEF ctxVars
<1> QED
  BY <1>1, <1>2, <1>3, <1>4, <1>5, <1>6, <1>7, <1>8, <1>9, <1>10, <1>11, <1>12 DEF CtxStep

(* Nothing is in flight, and nothing exists, before the first call.          *)
LEMMA CtxInitHolds ==
  ASSUME CtxInit
  PROVE  CtxTypeOK /\ WorkInv
  BY ContextAssumption DEF CtxInit, CtxTypeOK, WorkInv, WorkIsWatched, PipelinesHaveDevice,
     OneCallAtATime

(* Watched work has its pipeline and its device.                             *)
LEMMA WatchedWorkIsSafe == WorkInv => PipelinesOutliveWork
  BY DEF WorkInv, WorkIsWatched, PipelinesHaveDevice, PipelinesOutliveWork

(* No call but dispatch adds to the work in flight.                          *)
LEMMA OnlyDispatchSubmits ==
  ASSUME [CtxStep]_ctxVars
  PROVE  inflight' \subseteq inflight \/ Dispatching
<1>1. CASE CloseStep
  BY <1>1 DEF CloseStep, ClosePipeline, CloseBuffer, CloseDevice, DestroyHandles
<1>2. CASE Waiting
  BY <1>2 DEF Waiting, FenceSignalled, WaitFails
<1>3. CASE Device
  BY <1>3 DEF Device, Execute
<1> QED
  BY <1>1, <1>2, <1>3 DEF CtxStep, ctxVars, Open, Allocate, Write, Free, Compile, Destroy,
     DestroyHandles, BeginClose

BuffersHaveDevice == \A b \in live : b.ctx \in devices

(* Pipelines and buffers exist only on a device that exists: close() leaves  *)
(* the device to the last.                                                   *)
LEMMA OwnedStep ==
  ASSUME CtxTypeOK, PipelinesHaveDevice, BuffersHaveDevice, [CtxStep]_ctxVars
  PROVE  PipelinesHaveDevice' /\ BuffersHaveDevice'
<1> USE DEF PipelinesHaveDevice, BuffersHaveDevice, live
<1>1. CASE CloseStep
  <2>1. CASE \E p \in Pipelines : ClosePipeline(p)
    BY <2>1 DEF ClosePipeline, DestroyHandles
  <2>2. CASE \E b \in Buffers : CloseBuffer(b)
    BY <2>2 DEF CloseBuffer, CtxTypeOK
  <2>3. CASE CloseDevice
    BY <2>3 DEF CloseDevice, PipesOf, BufsOf
  <2> QED BY <1>1, <2>1, <2>2, <2>3 DEF CloseStep
<1>2. CASE Waiting
  BY <1>2 DEF Waiting, FenceSignalled, WaitFails
<1>3. CASE Device
  BY <1>3 DEF Device, Execute, CtxTypeOK
<1>4. CASE Dispatching
  BY <1>4 DEF Dispatching, Submit
<1>5. CASE \E b \in Buffers : Allocate(b) \/ Free(b)
  BY <1>5 DEF Allocate, Free, CtxTypeOK
<1>6. CASE \E bs \in SUBSET Buffers, d \in Data : Write(bs, d)
  BY <1>6 DEF Write
<1>7. CASE Open
  BY <1>7 DEF Open
<1>8. CASE \E p \in Pipelines : Compile(p) \/ Destroy(p)
  BY <1>8 DEF Compile, Destroy, DestroyHandles
<1>9. CASE \E c \in Contexts : BeginClose(c)
  BY <1>9 DEF BeginClose
<1>10. CASE UNCHANGED ctxVars
  BY <1>10 DEF ctxVars
<1> QED
  BY <1>1, <1>2, <1>3, <1>4, <1>5, <1>6, <1>7, <1>8, <1>9, <1>10 DEF CtxStep

NoWaitForPending == waiting # Nil => waiting.pipe \notin pending

(* A pending pipeline that is not destroyed stays pending, and no wait       *)
(* begins or goes on for it.                                                 *)
LEMMA PendingStep ==
  ASSUME NoWaitForPending, CtxStep
  PROVE  /\ NoWaitForPending'
         /\ \A p \in pending : p \in pipelines' => p \in pending'
<1> USE DEF NoWaitForPending
<1>1. CASE CloseStep
  BY <1>1 DEF CloseStep, ClosePipeline, CloseBuffer, CloseDevice, DestroyHandles
<1>2. CASE Waiting
  BY <1>2 DEF Waiting, FenceSignalled, WaitFails
<1>3. CASE Device
  BY <1>3 DEF Device, Execute
<1>4. CASE Dispatching
  BY <1>4 DEF Dispatching, Submit
<1> QED
  BY <1>1, <1>2, <1>3, <1>4 DEF CtxStep, Open, Allocate, Write, Free, Compile, Destroy,
     DestroyHandles, BeginClose

-----------------------------------------------------------------------------
(* Every caller of the compute runtime, for any number of pipelines, buffers *)
(* and devices.                                                              *)
CtxInv == CtxTypeOK /\ WorkInv

(* A caller's dispatch binds buffers that exist, so it is a call of the API. *)
LEMMA DispatchIsACall ==
  ASSUME NEW p \in Pipelines, NEW d \in Data, CtxDispatch(p, d)
  PROVE  Dispatching
<1> PICK bs \in [Bindings -> BufsOf(p.ctx)] : Submit(p, bs, d)
  BY DEF CtxDispatch
<1>1. bs \in [Bindings -> Buffers]
  BY DEF BufsOf, live
<1> QED BY <1>1 DEF Dispatching

(* Every step of a caller is one call of the API or a step of the GPU.       *)
LEMMA StepsAreCalls == [CtxNext]_ctxVars => [CtxStep]_ctxVars
<1> SUFFICES ASSUME CtxNext PROVE CtxStep
  BY DEF CtxStep
<1>1. CASE \E b \in Buffers : Allocate(b) \/ Free(b) \/ \E d \in Data : Write({b}, d)
  BY <1>1 DEF CtxStep
<1>2. CASE \E p \in Pipelines : Compile(p) \/ Destroy(p) \/ \E d \in Data : CtxDispatch(p, d)
  BY <1>2, DispatchIsACall DEF CtxStep
<1> QED BY <1>1, <1>2 DEF CtxNext, CtxStep, Waiting

(* Type correctness: whatever a caller does and whatever fails, every        *)
(* variable of the runtime holds the kind of value the code keeps in it.     *)
THEOREM CtxTypeCorrect == CtxSpec => []CtxTypeOK
<1>1. CtxInit => CtxTypeOK
  BY CtxInitHolds
<1>2. CtxTypeOK /\ [CtxNext]_ctxVars => CtxTypeOK'
  BY StepsAreCalls, CtxTypeStep
<1> QED BY <1>1, <1>2, PTL DEF CtxSpec

(* VulkanPipeline.destroy and VulkanContext.close never destroy a pipeline,  *)
(* its command buffer or its device while the GPU may still execute work     *)
(* that uses them (vkcompute.py:1196-1217, 1534-1548), unless an exception   *)
(* left dispatch while it was waiting.                                       *)
THEOREM CtxPipelinesSafe ==
  ASSUME "interrupt" \notin Faults
  PROVE  CtxSpec => []PipelinesOutliveWork
<1>1. CtxInit => CtxInv
  BY CtxInitHolds DEF CtxInv
<1>2. CtxInv /\ [CtxNext]_ctxVars => CtxInv'
  BY StepsAreCalls, CtxTypeStep, WorkStep DEF CtxInv
<1>3. CtxInv => PipelinesOutliveWork
  BY WatchedWorkIsSafe DEF CtxInv
<1> QED BY <1>1, <1>2, <1>3, PTL DEF CtxSpec

(* A pipeline's one command buffer is never submitted a second time before   *)
(* the GPU is done with the first (vkcompute.py:1041): work in flight is     *)
(* watched, so its pipeline is pending by the time another call is made.     *)
THEOREM OneSubmission ==
  ASSUME "interrupt" \notin Faults
  PROVE  CtxSpec => []OneSubmissionPerPipeline
<1> DEFINE I == CtxInv /\ OneSubmissionPerPipeline
<1>1. CtxInit => I
  BY CtxInitHolds DEF CtxInit, CtxInv, OneSubmissionPerPipeline
<1>2. I /\ [CtxNext]_ctxVars => I'
  <2> SUFFICES ASSUME I, [CtxNext]_ctxVars PROVE I'
    OBVIOUS
  <2>1. CtxInv'
    BY StepsAreCalls, CtxTypeStep, WorkStep DEF CtxInv
  <2>2. CASE inflight' \subseteq inflight
    BY <2>1, <2>2 DEF OneSubmissionPerPipeline
  <2>3. CASE Dispatching
    <3> PICK p \in Pipelines, bs \in [Bindings -> Buffers], d \in Data : Submit(p, bs, d)
      BY <2>3 DEF Dispatching
    <3>1. \A s \in inflight : s.pipe # p
      BY ContextAssumption DEF Submit, Calling, CtxInv, WorkInv, WorkIsWatched, CtxTypeOK
    <3> QED BY <2>1, <3>1 DEF OneSubmissionPerPipeline, Submit
  <2>4. inflight' \subseteq inflight \/ Dispatching
    BY StepsAreCalls, OnlyDispatchSubmits
  <2> QED BY <2>2, <2>3, <2>4
<1>3. I => OneSubmissionPerPipeline
  OBVIOUS
<1> QED BY <1>1, <1>2, <1>3, PTL DEF CtxSpec

(* close() leaves nothing behind, even when a dispatch was interrupted       *)
(* (vkcompute.py:1534-1548): the device goes only when its pipelines and     *)
(* buffers are gone.                                                         *)
THEOREM CloseLeavesNothing == CtxSpec => []NothingOutlivesItsDevice
<1> DEFINE I == CtxTypeOK /\ NothingOutlivesItsDevice
<1>1. CtxInit => I
  BY CtxInitHolds DEF CtxInit, NothingOutlivesItsDevice, live
<1>2. I /\ [CtxNext]_ctxVars => I'
  BY StepsAreCalls, CtxTypeStep, OwnedStep DEF NothingOutlivesItsDevice, PipelinesHaveDevice, BuffersHaveDevice
<1>3. I => NothingOutlivesItsDevice
  OBVIOUS
<1> QED BY <1>1, <1>2, <1>3, PTL DEF CtxSpec

(* A pipeline whose work was given up on stays pending until it is           *)
(* destroyed, and nothing new runs through it (vkcompute.py:1041-1044).      *)
THEOREM PendingStays == CtxSpec => PendingIsFinal
<1> DEFINE Final == \A p \in pending :
      p \in pipelines' => p \in pending' /\ (waiting' # Nil => waiting'.pipe # p)
<1>1. CtxInit => NoWaitForPending
  BY DEF CtxInit, NoWaitForPending
<1>2. NoWaitForPending /\ [CtxNext]_ctxVars => NoWaitForPending'
  BY StepsAreCalls, PendingStep DEF NoWaitForPending, ctxVars
<1>3. NoWaitForPending /\ [CtxNext]_ctxVars => [Final]_ctxVars
  BY StepsAreCalls, PendingStep DEF NoWaitForPending
<1> QED BY <1>1, <1>2, <1>3, PTL DEF CtxSpec, PendingIsFinal
=============================================================================
