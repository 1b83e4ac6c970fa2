------------------------ MODULE VulkanAttention_proofs ------------------------
(* Theorems about VulkanAttention, for any number of threads, calls, tile    *)
(* shapes and buffer sizes, and any outcome of the device.                   *)
EXTENDS VulkanAttention, VulkanContext_proofs

(* The steps that only move a thread, and take or release the lock.          *)
Moves(t) ==
  \/ EnterUsable(t) \/ EnterRetired(t) \/ ReuseContext(t) \/ OpenFails(t)
  \/ Plan(t) \/ PlanDeclines(t)
  \/ \E b \in Bindings : KeepBuffer(t, b) \/ AllocateFails(t, b)
  \/ ReusePipeline(t) \/ CompileFails(t) \/ SubmitRefused(t) \/ SubmitFails(t)

(* The steps that use the device.                                            *)
Uses(t) ==
  \/ OpenContext(t) \/ StoreContext(t) \/ AdoptLimits(t)
  \/ \E b \in Bindings : GrowBuffer(t, b) \/ FreeOutgrown(t, b)
  \/ WriteInputs(t) \/ CompilePipeline(t) \/ SubmitWork(t)
  \/ WaitSucceeds(t) \/ WaitTimesOut(t) \/ ReadOutput(t)

(* The steps outside the body of _run.                                       *)
Around(t) ==
  \/ Retire(t) \/ Teardown(t) \/ Warn(t) \/ Fallback(t)
  \/ StartClose(t) \/ Close(t) \/ Closing(t) \/ Interrupt(t)
  \/ \E r \in Data : Call(t, r)

(* Every step is of one of these kinds, or the GPU's.                        *)
LEMMA Kinds ==
  Next <=> (\E t \in Threads : Moves(t) \/ Uses(t) \/ Around(t)) \/ Gpu
  BY DEF Next, Step, Moves, Uses, Around

LockTyped ==
  /\ lock \in Threads \cup {Nil}
  /\ usable \in BOOLEAN
  /\ pc \in [Threads -> Held \cup Outside]

Locking == LockTyped /\ LockProtects

-----------------------------------------------------------------------------
(* A step of a thread inside the body of _run is a step of the lock's holder *)
(* and leaves the other threads where they are.                              *)
LEMMA LockMoves ==
  ASSUME Locking, NEW t \in Threads, Moves(t)
  PROVE  Locking'
<1> USE AttentionAssumption DEF Locking, LockTyped, LockProtects, Held, Running, Tearing, Outside,
        Bindings, Inputs, Goto, Take, Release, Fail, Raises, backendVars
<1>1. CASE EnterUsable(t)
  BY <1>1 DEF EnterUsable
<1>2. CASE EnterRetired(t)
  BY <1>2 DEF EnterRetired
<1>3. CASE ReuseContext(t)
  BY <1>3 DEF ReuseContext
<1>4. CASE OpenFails(t)
  BY <1>4 DEF OpenFails
<1>5. CASE Plan(t)
  BY <1>5 DEF Plan
<1>6. CASE PlanDeclines(t)
  BY <1>6 DEF PlanDeclines
<1>7. CASE \E b \in Bindings : KeepBuffer(t, b)
  BY <1>7 DEF KeepBuffer, AfterBinding
<1>8. CASE \E b \in Bindings : AllocateFails(t, b)
  BY <1>8 DEF AllocateFails
<1>9. CASE ReusePipeline(t)
  BY <1>9 DEF ReusePipeline
<1>10. CASE CompileFails(t)
  BY <1>10 DEF CompileFails
<1>11. CASE SubmitRefused(t)
  BY <1>11 DEF SubmitRefused
<1>12. CASE SubmitFails(t)
  BY <1>12 DEF SubmitFails
<1> QED
  BY <1>1, <1>2, <1>3, <1>4, <1>5, <1>6, <1>7, <1>8, <1>9, <1>10, <1>11, <1>12 DEF Moves

(* The steps taken under the lock keep the lock with the thread that has it.*)
LEMMA LockUses ==
  ASSUME Locking, NEW t \in Threads, Uses(t)
  PROVE  Locking'
<1> USE AttentionAssumption DEF Locking, LockTyped, LockProtects, Held, Running, Tearing, Outside,
        Bindings, Inputs, Goto, Release, Fail, backendVars, threadVars
<1>1. CASE OpenContext(t) \/ StoreContext(t) \/ AdoptLimits(t)
  BY <1>1 DEF OpenContext, StoreContext, AdoptLimits
<1>2. CASE \E b \in Bindings : GrowBuffer(t, b) \/ FreeOutgrown(t, b)
  BY <1>2 DEF GrowBuffer, FreeOutgrown
<1>3. CASE WriteInputs(t)
  BY <1>3 DEF WriteInputs
<1>4. CASE CompilePipeline(t)
  BY <1>4 DEF CompilePipeline
<1>5. CASE SubmitWork(t)
  BY <1>5 DEF SubmitWork
<1>6. CASE WaitSucceeds(t)
  BY <1>6 DEF WaitSucceeds
<1>7. CASE WaitTimesOut(t)
  BY <1>7 DEF WaitTimesOut
<1>8. CASE ReadOutput(t)
  BY <1>8 DEF ReadOutput
<1> QED
  BY <1>1, <1>2, <1>3, <1>4, <1>5, <1>6, <1>7, <1>8 DEF Uses

(* Outside the body of _run a thread takes the lock only when it is free,    *)
(* and only Retire, which needs it free, clears the flag the body relies on. *)
LEMMA LockAround ==
  ASSUME Locking, NEW t \in Threads, Around(t)
  PROVE  Locking'
<1> USE AttentionAssumption DEF Locking, LockTyped, LockProtects, Held, Running, Tearing, Outside,
        Bindings, Inputs, Goto, Release, Take, CloseHeld, AfterTeardown, backendVars
<1>1. CASE Retire(t)
  <2>1. \A u \in Threads : pc[u] \notin Held
    BY <1>1 DEF Retire
  <2>2. usable' = FALSE /\ pc[t] = "failed"
    BY <1>1 DEF Retire
  <2>3. CASE context = 0
    <3>1. lock' = lock /\ \E label \in {"warn", "fallback"} : pc' = [pc EXCEPT ![t] = label]
      BY <1>1, <2>3 DEF Retire
    <3> QED BY <2>1, <2>2, <3>1
  <2>4. CASE context # 0
    <3>1. lock' = t /\ pc' = [pc EXCEPT ![t] = "teardown"]
      BY <1>1, <2>4 DEF Retire
    <3> QED BY <2>1, <2>2, <3>1
  <2> QED BY <2>3, <2>4
<1>2. CASE Teardown(t)
  BY <1>2 DEF Teardown
<1>3. CASE Warn(t)
  BY <1>3 DEF Warn
<1>4. CASE Fallback(t)
  BY <1>4 DEF Fallback
<1>5. CASE StartClose(t)
  BY <1>5 DEF StartClose
<1>6. CASE Close(t)
  BY <1>6 DEF Close
<1>7. CASE Closing(t)
  BY <1>7 DEF Closing
<1>8. CASE Interrupt(t)
  BY <1>8 DEF Interrupt
<1>9. CASE \E r \in Data : Call(t, r)
  BY <1>9 DEF Call
<1> QED
  BY <1>1, <1>2, <1>3, <1>4, <1>5, <1>6, <1>7, <1>8, <1>9 DEF Around

(* The lock discipline is inductive.                                         *)
LEMMA LockStep == Locking /\ [Next]_vars => Locking'
<1> SUFFICES ASSUME Locking, [Next]_vars PROVE Locking'
  OBVIOUS
<1>1. CASE Gpu
  BY <1>1 DEF Gpu, Locking, LockTyped, LockProtects, backendVars, threadVars
<1>2. CASE UNCHANGED vars
  BY <1>2 DEF vars, Locking, LockTyped, LockProtects, backendVars, threadVars
<1> QED
  BY <1>1, <1>2, Kinds, LockMoves, LockUses, LockAround

(* No thread holds the lock at first.                                      *)
LEMMA LockInit == Init => Locking
  BY AttentionAssumption DEF Init, Locking, LockTyped, LockProtects, Held, Running, Tearing, Outside,
     Bindings, Inputs

(* The lock serialises every use of the device, and no call runs on a device *)
(* that was given up on (vkbackend.py:159-161, 314-319): for any number of   *)
(* threads, a thread is inside a locked block exactly when it holds          *)
(* self._lock, and inside the body of _run only while the device is usable.  *)
THEOREM LockDiscipline == Spec => []LockProtects
<1>1. Locking => LockProtects
  BY DEF Locking
<1> QED BY <1>1, LockInit, LockStep, PTL DEF Spec

(* Retirement is for good (vkbackend.py:316-319): once the device was given  *)
(* up on, no thread opens it, submits to it or is answered by it again,      *)
(* because everything that does is in the body of _run.                      *)
THEOREM RetirementIsFinal == Spec => RetiredForGood
<1> DEFINE Final == ~usable => /\ ~usable' /\ opens' = opens
                               /\ inflight' \subseteq inflight /\ deviceCalls' = deviceCalls
<1>1. Locking /\ [Next]_vars => [Final]_vars
  <2> SUFFICES ASSUME Locking, Next, ~usable
               PROVE  /\ ~usable' /\ opens' = opens
                      /\ inflight' \subseteq inflight /\ deviceCalls' = deviceCalls
    OBVIOUS
  <2>1. \A t \in Threads : pc[t] \notin Running
    BY DEF Locking, LockProtects
  <2>2. ASSUME NEW t \in Threads, Moves(t)
        PROVE  UNCHANGED <<ctxVars, usable, deviceCalls>>
    BY <2>2 DEF Moves, EnterUsable, EnterRetired, ReuseContext, OpenFails, Plan, PlanDeclines, KeepBuffer,
       AllocateFails, ReusePipeline, CompileFails, SubmitRefused, SubmitFails, Raises, Fail, backendVars
  <2>3. ASSUME NEW t \in Threads PROVE ~Uses(t) /\ ~Interrupt(t)
    BY <2>1 DEF Uses, OpenContext, StoreContext, AdoptLimits, GrowBuffer, FreeOutgrown, WriteInputs, CompilePipeline, SubmitWork,
       WaitSucceeds, WaitTimesOut, ReadOutput, Interrupt, Running
  <2>4. CloseStep => opens' = opens /\ inflight' = inflight
    BY DEF CloseStep, ClosePipeline, CloseBuffer, CloseDevice, DestroyHandles
  <2>5. ASSUME NEW t \in Threads, Around(t)
        PROVE  ~usable' /\ opens' = opens /\ inflight' = inflight /\ deviceCalls' = deviceCalls
    <3>1. CASE Retire(t)
      BY <3>1 DEF Retire, CloseHeld, BeginClose, ctxVars
    <3>2. CASE Close(t)
      BY <3>2 DEF Close, CloseHeld, BeginClose, ctxVars
    <3>3. CASE Teardown(t) \/ Closing(t)
      BY <3>3, <2>4 DEF Teardown, Closing, backendVars
    <3> QED
      BY <2>3, <2>5, <3>1, <3>2, <3>3 DEF Around, Warn, Fallback, StartClose, Call, ctxVars, backendVars
  <2>6. CASE Gpu
    BY <2>6 DEF Gpu, Device, Execute, backendVars
  <2> QED BY <2>2, <2>3, <2>5, <2>6, Kinds DEF ctxVars
<1> QED BY <1>1, LockInit, LockStep, PTL DEF Spec, RetiredForGood

-----------------------------------------------------------------------------
(* A move changes nothing but the lock and the thread's own place.           *)
LEMMA MovesFrame ==
  ASSUME NEW t \in Threads, Moves(t)
  PROVE  UNCHANGED <<ctxVars, backendVars, warnings, calls, request, first, answer>>
  BY DEF Moves, EnterUsable, EnterRetired, ReuseContext, OpenFails, Plan, PlanDeclines, KeepBuffer,
     AllocateFails, ReusePipeline, CompileFails, SubmitRefused, SubmitFails, Raises, Fail, backendVars

(* The GPU leaves everything the threads keep alone.                         *)
LEMMA GpuFrame ==
  ASSUME Gpu
  PROVE  /\ UNCHANGED <<lock, backendVars, threadVars>>
         /\ UNCHANGED <<opens, devices, pipelines, pending, waiting, closing>>
         /\ inflight' \subseteq inflight
  BY DEF Gpu, Device, Execute

(* Only opening a device, storing it, losing it and closing it change which  *)
(* devices there are and whose they are.                                     *)
LEMMA DeviceFrame ==
  ASSUME Locking, Next
  PROVE  \/ UNCHANGED <<opens, devices, closing, context, orphans, usable, InHand>>
         \/ \E t \in Threads : OpenContext(t) \/ StoreContext(t) \/ Retire(t) \/ Close(t)
                               \/ Teardown(t) \/ Closing(t) \/ (Interrupt(t) /\ pc[t] = "store")
<1> USE DEF Locking, LockTyped, Goto, Release, Take
<1>1. ASSUME NEW t \in Threads, Moves(t)
      PROVE  UNCHANGED <<opens, devices, closing, context, orphans, usable, InHand>>
  <2>1. /\ pc[t] # "store" /\ \E label : label # "store" /\ pc' = [pc EXCEPT ![t] = label]
    BY <1>1 DEF Moves, EnterUsable, EnterRetired, ReuseContext, OpenFails, Plan, PlanDeclines, KeepBuffer,
       AllocateFails, ReusePipeline, CompileFails, SubmitRefused, SubmitFails, Raises, Fail,
       AfterBinding, Bindings, Inputs
  <2>2. UNCHANGED <<ctxVars, backendVars>>
    BY <1>1, MovesFrame
  <2> QED BY <2>1, <2>2 DEF InHand, ctxVars, backendVars
<1>2. ASSUME NEW t \in Threads, Uses(t), ~OpenContext(t), ~StoreContext(t)
      PROVE  UNCHANGED <<opens, devices, closing, context, orphans, usable, InHand>>
  <2>1. UNCHANGED <<opens, devices, closing, context, orphans, usable>>
    BY <1>2 DEF Uses, AdoptLimits, GrowBuffer, Allocate, FreeOutgrown, Free, WriteInputs, Write,
       CompilePipeline, Compile, SubmitWork, Submit, WaitSucceeds, FenceSignalled, WaitTimesOut, WaitFails,
       Fail, ReadOutput, backendVars, ctxVars
  <2>2. \/ pc' = pc
        \/ pc[t] # "store" /\ \E label : label # "store" /\ pc' = [pc EXCEPT ![t] = label]
    BY <1>2 DEF Uses, AdoptLimits, GrowBuffer, FreeOutgrown, WriteInputs, CompilePipeline, SubmitWork,
       WaitSucceeds, WaitTimesOut, Fail, ReadOutput, threadVars
  <2> QED BY <2>1, <2>2 DEF InHand
<1>3. ASSUME NEW t \in Threads, Around(t), ~Retire(t), ~Close(t), ~Teardown(t), ~Closing(t),
             ~(Interrupt(t) /\ pc[t] = "store")
      PROVE  UNCHANGED <<opens, devices, closing, context, orphans, usable, InHand>>
  <2>1. UNCHANGED <<opens, devices, closing, context, orphans, usable>>
    BY <1>3 DEF Around, Warn, Fallback, StartClose, Interrupt, WaitFails, Call, backendVars, ctxVars
  <2>2. pc[t] # "store" /\ \E label : label # "store" /\ pc' = [pc EXCEPT ![t] = label]
    BY <1>3 DEF Around, Warn, Fallback, StartClose, Interrupt, Call
  <2> QED BY <2>1, <2>2 DEF InHand
<1>4. CASE Gpu
  BY <1>4, GpuFrame DEF backendVars, threadVars, InHand
<1> QED BY <1>1, <1>2, <1>3, <1>4, Kinds

(* What _close_held does to the device: nothing when none is open, else it   *)
(* forgets the context and begins to close it.                               *)
LEMMA CloseHeldFacts ==
  ASSUME NEW t \in Threads, NEW busy, NEW done, CloseHeld(t, busy, done)
  PROVE  /\ lock = Nil /\ context' = 0 /\ cache' = {} /\ buffers' = NoBuffers /\ limits' = InitialLimits
         /\ UNCHANGED <<opens, devices, pipelines, pending, contents, inflight, waiting>>
         /\ \/ context = 0 /\ closing' = closing
            \/ context # 0 /\ closing = 0 /\ closing' = context /\ context \in devices
  BY DEF CloseHeld, BeginClose, Calling, ctxVars

(* Devices are numbered in the order they are opened; who has one in hand    *)
(* holds the lock and found _context empty; only exceptions lose one.        *)
DeviceInv ==
  /\ OwnsOneDevice
  /\ opens \in Nat /\ \A c \in devices : c \in 1 .. opens
  /\ closing # 0 => context = 0
  /\ InHand # {} => context = 0 /\ closing = 0 /\ opens # 0
  /\ "interrupt" \notin Faults => orphans = {}

(* Opening, storing and losing a device.                                     *)
LEMMA DeviceOpens ==
  ASSUME Locking, DeviceInv, NEW t \in Threads,
         OpenContext(t) \/ StoreContext(t) \/ (Interrupt(t) /\ pc[t] = "store")
  PROVE  DeviceInv'
<1> USE DEF Goto, Release, Running
<1>0. pc[t] \in {"open", "store"} /\ usable /\ \A u \in Threads : u # t => pc[u] \notin {"open", "store"}
  BY DEF OpenContext, StoreContext, Locking, LockProtects, Held
<1>1. \E label : pc' = [pc EXCEPT ![t] = label]
  BY DEF OpenContext, StoreContext, Interrupt
<1>2. \A u \in Threads : u # t => pc'[u] # "store"
  BY <1>0, <1>1 DEF Locking, LockTyped
<1>3. CASE OpenContext(t)
  <2>1. /\ pc[t] = "open" /\ context = 0 /\ closing = 0 /\ opens' = opens + 1
        /\ devices' = devices \cup {opens + 1} /\ UNCHANGED <<context, closing, orphans, usable>>
        /\ pc' = [pc EXCEPT ![t] = "store"]
    BY <1>3 DEF OpenContext, Open, Calling, backendVars
  <2>2. InHand = {}
    BY <1>0, <2>1 DEF InHand
  <2>3. InHand' = {opens + 1}
    BY <2>1 DEF InHand, Locking, LockTyped
  <2>4. Owned = {} /\ devices = orphans /\ Owned' = {opens + 1}
    BY <2>1, <2>2, <2>3 DEF DeviceInv, OwnsOneDevice, Owned
  <2>5. opens + 1 \notin orphans
    BY <2>4 DEF DeviceInv
  <2> QED BY <1>0, <2>1, <2>3, <2>4, <2>5 DEF DeviceInv, OwnsOneDevice
<1>4. CASE StoreContext(t)
  <2>1. /\ pc[t] = "store" /\ context' = opens /\ pc' = [pc EXCEPT ![t] = "adopt"]
        /\ UNCHANGED <<opens, devices, closing, orphans, usable>>
    BY <1>4 DEF StoreContext, ctxVars
  <2>2. InHand = {opens} /\ context = 0 /\ closing = 0 /\ opens # 0
    BY <2>1 DEF InHand, DeviceInv
  <2>3. InHand' = {}
    BY <1>2, <2>1 DEF InHand, Locking, LockTyped
  <2>4. Owned = {opens} /\ Owned' = {opens}
    BY <2>1, <2>2, <2>3 DEF Owned
  <2> QED BY <1>0, <2>1, <2>2, <2>3, <2>4 DEF DeviceInv, OwnsOneDevice
<1>5. CASE Interrupt(t) /\ pc[t] = "store"
  <2>1. /\ orphans' = orphans \cup {opens} /\ pc' = [pc EXCEPT ![t] = "idle"] /\ "interrupt" \in Faults
        /\ UNCHANGED <<opens, devices, closing, context, usable>>
    BY <1>5 DEF Interrupt, ctxVars
  <2>2. InHand = {opens} /\ context = 0 /\ closing = 0
    BY <1>5 DEF InHand, DeviceInv
  <2>3. InHand' = {}
    BY <1>2, <2>1 DEF InHand, Locking, LockTyped
  <2>4. Owned = {opens} /\ Owned' = {}
    BY <2>1, <2>2, <2>3 DEF Owned, DeviceInv, OwnsOneDevice
  <2> QED BY <1>0, <2>1, <2>2, <2>3, <2>4 DEF DeviceInv, OwnsOneDevice
<1> QED BY <1>3, <1>4, <1>5

(* Forgetting the device, with the lock free, and closing it under the lock. *)
LEMMA DeviceCloses ==
  ASSUME Locking, DeviceInv, NEW t \in Threads, Retire(t) \/ Close(t) \/ Teardown(t) \/ Closing(t)
  PROVE  DeviceInv'
<1> USE DEF Goto, Release
<1>1. \A u \in Threads : pc[u] # "store" /\ pc'[u] # "store"
  <2>1. \A u \in Threads : pc[u] # "store"
    BY AttentionAssumption DEF Retire, Close, CloseHeld, Teardown, Closing, Locking, LockTyped, LockProtects,
       Held, Running, Tearing
  <2>2. pc' = pc \/ \E label : label # "store" /\ pc' = [pc EXCEPT ![t] = label]
    BY DEF Retire, Close, CloseHeld, Take, Teardown, Closing, AfterTeardown
  <2> QED BY <2>1, <2>2 DEF Locking, LockTyped
<1>2. InHand = {} /\ InHand' = {}
  BY <1>1 DEF InHand
<1>3. CASE Retire(t) \/ Close(t)
  <2>1. \E busy, done : CloseHeld(t, busy, done)
    BY <1>3 DEF Retire, Close
  <2>2. PICK busy, done : CloseHeld(t, busy, done)
    BY <2>1
  <2>3. /\ context' = 0 /\ UNCHANGED <<opens, devices>>
        /\ \/ context = 0 /\ closing' = closing
           \/ context # 0 /\ closing = 0 /\ closing' = context
    BY <2>2, CloseHeldFacts
  <2>4. Owned' = Owned /\ orphans' = orphans
    BY <1>2, <1>3, <2>3 DEF Owned, Retire, Close
  <2> QED BY <1>2, <2>3, <2>4 DEF DeviceInv, OwnsOneDevice
<1>4. CASE Teardown(t) \/ Closing(t)
  <2>1. UNCHANGED <<context, orphans, usable>> /\ CloseStep
    BY <1>4 DEF Teardown, Closing, backendVars
  <2>2. CASE CloseDevice
    <3>1. closing # 0 /\ devices' = devices \ {closing} /\ closing' = 0 /\ opens' = opens
      BY <2>2 DEF CloseDevice
    <3>2. Owned = {closing} /\ Owned' = {}
      BY <1>2, <2>1, <3>1 DEF Owned, DeviceInv
    <3> QED BY <1>2, <2>1, <3>1, <3>2 DEF DeviceInv, OwnsOneDevice
  <2>3. CASE ~CloseDevice
    <3>1. UNCHANGED <<opens, devices, closing>>
      BY <2>1, <2>3 DEF CloseStep, ClosePipeline, CloseBuffer, DestroyHandles
    <3> QED BY <1>2, <2>1, <3>1 DEF DeviceInv, OwnsOneDevice, Owned
  <2> QED BY <2>2, <2>3
<1> QED BY <1>3, <1>4

(* A device is open only while the backend has it as its context, is about   *)
(* to store it there, or is destroying it under the lock, or has lost it.    *)
LEMMA DeviceStep == Locking /\ DeviceInv /\ [Next]_vars => DeviceInv'
<1> SUFFICES ASSUME Locking, DeviceInv, [Next]_vars PROVE DeviceInv'
  OBVIOUS
<1>1. CASE UNCHANGED <<opens, devices, closing, context, orphans, usable, InHand>>
  BY <1>1 DEF DeviceInv, OwnsOneDevice, Owned
<1>2. CASE UNCHANGED vars
  BY <1>1, <1>2 DEF vars, ctxVars, backendVars, threadVars, InHand
<1> QED BY <1>1, <1>2, DeviceFrame, DeviceOpens, DeviceCloses

(* No device exists at first.                                                *)
LEMMA DeviceInit == Init => DeviceInv
  BY DEF Init, CtxInit, DeviceInv, OwnsOneDevice, Owned, InHand

(* "One instance owns one device" (vkbackend.py:152): whatever the threads   *)
(* do, there is at most one device among those in _context, in the hands of  *)
(* the thread that opened it and under close(); once the backend was retired *)
(* _context is empty; and any device beyond it was taken from                *)
(* _context_held by an exception before it was stored (lines 398-399).       *)
THEOREM OneDevice == Spec => []OwnsOneDevice
<1>1. DeviceInv => OwnsOneDevice
  BY DEF DeviceInv
<1> QED BY <1>1, LockInit, LockStep, DeviceInit, DeviceStep, PTL DEF Spec

(* Without such an exception no device is ever lost: what exists is what the *)
(* backend has in hand, in _context or under close(), and that is one.       *)
THEOREM NoDeviceIsLost ==
  ASSUME "interrupt" \notin Faults
  PROVE  Spec => [](orphans = {})
<1>1. DeviceInv => orphans = {}
  BY DEF DeviceInv
<1> QED BY <1>1, LockInit, LockStep, DeviceInit, DeviceStep, PTL DEF Spec

(* Past storing the device in _context a thread has one there.               *)
Stored    == Running \ {"open", "store"}
HasDevice == \A t \in Threads : pc[t] \in Stored => context # 0

(* Nobody empties _context under a thread that runs on the device.           *)
LEMMA HasDeviceStep ==
  ASSUME Locking, DeviceInv, HasDevice, [Next]_vars
  PROVE  HasDevice'
<1> USE DEF HasDevice, Stored, Running, Bindings, Inputs, Goto, Release, Take
<1>0. LockTyped
  BY DEF Locking
<1>1. ASSUME NEW t \in Threads, NEW label, context' = context, pc' = [pc EXCEPT ![t] = label],
             label \in Stored => context # 0
      PROVE  HasDevice'
  BY <1>0, <1>1 DEF LockTyped
<1>2. ASSUME NEW t \in Threads, Moves(t)
      PROVE  HasDevice'
  <2>1. \E label : /\ pc' = [pc EXCEPT ![t] = label]
                   /\ label \in Stored => pc[t] \in Stored \/ context # 0
    BY <1>2 DEF Moves, EnterUsable, EnterRetired, ReuseContext, OpenFails, Plan, PlanDeclines, KeepBuffer,
       AllocateFails, ReusePipeline, CompileFails, SubmitRefused, SubmitFails, Raises, Fail, AfterBinding
  <2> QED BY <1>1, <1>2, <2>1, MovesFrame DEF backendVars
<1>3. CASE \E t \in Threads : OpenContext(t)
  BY <1>1, <1>3 DEF OpenContext, backendVars
<1>4. ASSUME NEW t \in Threads, StoreContext(t)
      PROVE  HasDevice'
  <2>1. context' = opens /\ opens # 0
    BY <1>4 DEF StoreContext, DeviceInv, InHand
  <2> QED BY <2>1
<1>5. ASSUME NEW t \in Threads, Uses(t), ~OpenContext(t), ~StoreContext(t)
      PROVE  HasDevice'
  <2>1. /\ context' = context
        /\ \/ pc' = pc
           \/ pc[t] \in Stored /\ \E label : pc' = [pc EXCEPT ![t] = label]
    BY <1>5 DEF Uses, AdoptLimits, GrowBuffer, FreeOutgrown, WriteInputs, CompilePipeline, SubmitWork,
       WaitSucceeds, WaitTimesOut, Fail, ReadOutput, backendVars, threadVars
  <2> QED BY <1>1, <2>1
<1>6. ASSUME NEW t \in Threads, Retire(t) \/ Close(t)
      PROVE  HasDevice'
  <2>1. lock = Nil /\ \E label : label \notin Running /\ pc' = [pc EXCEPT ![t] = label]
    BY <1>6 DEF Retire, Close, CloseHeld, AfterTeardown
  <2>2. \A u \in Threads : pc[u] \notin Running
    BY <2>1, AttentionAssumption DEF Locking, LockProtects, Held
  <2> QED BY <1>0, <2>1, <2>2 DEF LockTyped
<1>7. ASSUME NEW t \in Threads, Around(t), ~Retire(t), ~Close(t)
      PROVE  HasDevice'
  <2>1. /\ context' = context
        /\ pc' = pc \/ \E label : label \notin Running /\ pc' = [pc EXCEPT ![t] = label]
    BY <1>7 DEF Around, Teardown, Closing, Warn, Fallback, StartClose, Interrupt, Call, AfterTeardown,
       backendVars
  <2> QED BY <1>1, <2>1
<1>8. CASE Gpu \/ UNCHANGED vars
  BY <1>8, GpuFrame DEF vars, backendVars, threadVars
<1> QED BY <1>2, <1>3, <1>4, <1>5, <1>6, <1>7, <1>8, Kinds

-----------------------------------------------------------------------------
(* Who may warn: as long as the device is usable nobody has and nobody will; *)
(* afterwards at most one thread carries `first` from _retire_device to the  *)
(* warning, and none once it was issued.                                     *)
WarnTyped ==
  /\ usable \in BOOLEAN /\ warnings \in {0, 1}
  /\ first \in [Threads -> BOOLEAN]
  /\ pc \in [Threads -> Held \cup Outside]

WarnInv ==
  /\ WarnTyped
  /\ usable => warnings = 0 /\ \A t \in Threads : ~first[t]
  /\ \A t \in Threads : first[t] => pc[t] \in {"teardown", "warn"} /\ warnings = 0
  /\ \A t, u \in Threads : first[t] /\ first[u] => t = u
  /\ \A t \in Threads : pc[t] = "warn" => first[t]

(* Steps that neither touch `first` nor reach or leave the warning.          *)
LEMMA WarnFrame ==
  ASSUME WarnInv, LockTyped', usable' = usable, UNCHANGED <<warnings, first>>,
         NEW t \in Threads, NEW label, pc' = [pc EXCEPT ![t] = label],
         pc[t] \notin {"teardown", "warn"}, label # "warn"
  PROVE  WarnInv'
  BY DEF WarnInv, WarnTyped, LockTyped

(* Whoever will warn has retired the backend itself, and nobody else will. *)
LEMMA WarnStep ==
  ASSUME Locking, WarnInv, [Next]_vars
  PROVE  WarnInv'
<1>0. Locking'
  BY LockStep
<1> USE DEF Goto, Release
<1>1. ASSUME NEW t \in Threads, Moves(t)
      PROVE  WarnInv'
  <2>1. UNCHANGED <<usable, warnings, first>>
    BY <1>1, MovesFrame DEF backendVars
  <2>2. /\ pc[t] \notin {"teardown", "warn"}
        /\ \E label : label # "warn" /\ pc' = [pc EXCEPT ![t] = label]
    BY <1>1 DEF Moves, EnterUsable, EnterRetired, ReuseContext, OpenFails, Plan, PlanDeclines, KeepBuffer,
       AllocateFails, ReusePipeline, CompileFails, SubmitRefused, SubmitFails, Raises, Fail, Take,
       AfterBinding, Bindings, Inputs
  <2> QED BY <1>0, <2>1, <2>2, WarnFrame DEF Locking
<1>2. ASSUME NEW t \in Threads, Uses(t)
      PROVE  WarnInv'
  <2>1. UNCHANGED <<usable, warnings, first>>
    BY <1>2 DEF Uses, OpenContext, StoreContext, AdoptLimits, GrowBuffer, FreeOutgrown, WriteInputs, CompilePipeline,
       SubmitWork, WaitSucceeds, WaitTimesOut, Fail, ReadOutput, backendVars, threadVars
  <2>2. \/ UNCHANGED pc
        \/ /\ pc[t] \notin {"teardown", "warn"}
           /\ \E label : label # "warn" /\ pc' = [pc EXCEPT ![t] = label]
    BY <1>2 DEF Uses, OpenContext, StoreContext, AdoptLimits, GrowBuffer, FreeOutgrown, WriteInputs, CompilePipeline,
       SubmitWork, WaitSucceeds, WaitTimesOut, Fail, ReadOutput, threadVars
  <2>3. CASE UNCHANGED pc
    BY <2>1, <2>3 DEF WarnInv, WarnTyped
  <2> QED BY <1>0, <2>1, <2>2, <2>3, WarnFrame DEF Locking
<1>3. ASSUME NEW t \in Threads, Fallback(t) \/ StartClose(t) \/ Interrupt(t) \/ \E r \in Data : Call(t, r)
      PROVE  WarnInv'
  <2>1. UNCHANGED <<usable, warnings, first>>
    BY <1>3 DEF Fallback, StartClose, Interrupt, Call, backendVars
  <2>2. /\ pc[t] \notin {"teardown", "warn"}
        /\ \E label : label # "warn" /\ pc' = [pc EXCEPT ![t] = label]
    BY <1>3 DEF Fallback, StartClose, Interrupt, Call, Running, Bindings, Inputs
  <2> QED BY <1>0, <2>1, <2>2, WarnFrame DEF Locking
<1>4. ASSUME NEW t \in Threads, Close(t)
      PROVE  WarnInv'
  <2>1. UNCHANGED <<usable, warnings, first>> /\ pc[t] = "close"
    BY <1>4 DEF Close
  <2>2. \E label : label # "warn" /\ pc' = [pc EXCEPT ![t] = label]
    BY <1>4 DEF Close, CloseHeld, Take
  <2> QED BY <1>0, <2>1, <2>2, WarnFrame DEF Locking
<1>5. ASSUME NEW t \in Threads, Closing(t)
      PROVE  WarnInv'
  <2>1. UNCHANGED <<usable, warnings, first>> /\ pc[t] = "closing"
    BY <1>5 DEF Closing, backendVars
  <2>2. pc' = pc \/ pc' = [pc EXCEPT ![t] = "idle"]
    BY <1>5 DEF Closing
  <2>3. CASE pc' = pc
    BY <2>1, <2>3 DEF WarnInv, WarnTyped
  <2> QED BY <1>0, <2>1, <2>2, <2>3, WarnFrame DEF Locking
<1>6. ASSUME NEW t \in Threads, Retire(t)
      PROVE  WarnInv'
  <2>1. /\ pc[t] = "failed" /\ usable' = FALSE /\ warnings' = warnings
        /\ first' = [first EXCEPT ![t] = usable]
    BY <1>6 DEF Retire
  <2>2. pc' = [pc EXCEPT ![t] = "teardown"] \/ pc' = [pc EXCEPT ![t] = IF usable THEN "warn" ELSE "fallback"]
    BY <1>6 DEF Retire, CloseHeld, Take, AfterTeardown
  <2>3. pc' \in [Threads -> Held \cup Outside]
    BY <1>0 DEF Locking, LockTyped
  <2>4. ~first[t] /\ pc[t] # "warn"
    BY <2>1 DEF WarnInv
  <2>5. CASE usable
    BY <2>1, <2>2, <2>3, <2>4, <2>5 DEF WarnInv, WarnTyped
  <2>6. CASE ~usable
    <3>1. first' = first
      BY <2>1, <2>4, <2>6 DEF WarnInv, WarnTyped
    <3> QED BY <2>1, <2>2, <2>3, <2>4, <2>6, <3>1 DEF WarnInv, WarnTyped
  <2> QED BY <2>5, <2>6
<1>7. ASSUME NEW t \in Threads, Teardown(t)
      PROVE  WarnInv'
  <2>1. UNCHANGED <<usable, warnings, first>> /\ pc[t] = "teardown"
    BY <1>7 DEF Teardown, backendVars
  <2>2. pc' = pc \/ pc' = [pc EXCEPT ![t] = IF first[t] THEN "warn" ELSE "fallback"]
    BY <1>7 DEF Teardown, AfterTeardown
  <2>3. pc' \in [Threads -> Held \cup Outside]
    BY <1>0 DEF Locking, LockTyped
  <2> QED BY <2>1, <2>2, <2>3 DEF WarnInv, WarnTyped
<1>8. ASSUME NEW t \in Threads, Warn(t)
      PROVE  WarnInv'
  <2>1. /\ pc[t] = "warn" /\ warnings' = warnings + 1 /\ usable' = usable
        /\ first' = [first EXCEPT ![t] = FALSE] /\ pc' = [pc EXCEPT ![t] = "fallback"]
    BY <1>8 DEF Warn, backendVars
  <2>2. warnings = 0 /\ ~usable /\ \A u \in Threads : first[u] => u = t
    BY <2>1 DEF WarnInv
  <2>3. pc' \in [Threads -> Held \cup Outside]
    BY <1>0 DEF Locking, LockTyped
  <2> QED BY <2>1, <2>2, <2>3 DEF WarnInv, WarnTyped
<1>9. CASE Gpu \/ UNCHANGED vars
  BY <1>9, GpuFrame DEF vars, backendVars, threadVars, WarnInv, WarnTyped
<1> QED BY <1>1, <1>2, <1>3, <1>4, <1>5, <1>6, <1>7, <1>8, <1>9, Kinds DEF Around

(* The warning about a device failure is issued at most once, and never      *)
(* while the device is still in use ("once, with a warning",                 *)
(* vkbackend.py:155, 470-490), however many threads fail at the same time.   *)
THEOREM WarningIsIssuedOnce == Spec => []WarnsOnce
<1>1. Init => WarnInv
  BY DEF Init, WarnInv, WarnTyped, Held, Outside
<1>2. WarnInv => WarnsOnce
  BY DEF WarnInv, WarnTyped, WarnsOnce
<1> QED BY <1>1, <1>2, WarnStep, LockInit, LockStep, PTL DEF Spec

-----------------------------------------------------------------------------
(* What a thread inside a call knows: the call itself; once past _plan, that *)
(* a tile shape fits it under the limits of the open device; once submitted, *)
(* that all four buffers are allocated.                                      *)
InCall  == (Held \cup Outside) \ {"idle", "close", "closing"}
Planned == Stored \ {"adopt", "plan"}

BackendTyped ==
  /\ deviceCalls \in Nat
  /\ context \in 0 .. MaxOpens /\ orphans \subseteq Contexts
  /\ override \in Limits \cup {Nil} /\ limits \in Limits
  /\ cache \subseteq Pipelines
  /\ buffers \in [Bindings -> Buffers \cup {Nil}] /\ outgrown \in Buffers \cup {Nil}

ThreadTyped ==
  /\ warnings \in Nat /\ calls \in 0 .. MaxCalls
  /\ request \in [Threads -> Data \cup {Nil}]
  /\ first \in [Threads -> BOOLEAN]
  /\ answer \in [Threads -> Data \cup {Garbage, Absent, Nil}]

CallInv ==
  \A t \in Threads :
    /\ pc[t] \in InCall => request[t] \in Data
    /\ pc[t] \in Planned => PlanOf(request[t]) # Nil
    /\ pc[t] \in {"wait", "read"} => buffers \in [Bindings -> Buffers]

TypeInv == CtxTypeOK /\ Locking /\ DeviceInv /\ HasDevice /\ BackendTyped /\ ThreadTyped /\ CallInv

(* The invariant the steps keep is stronger than the type invariant.       *)
LEMMA TypeInvImplies == TypeInv => TypeOK
  BY DEF TypeInv, TypeOK, Locking, LockTyped, BackendTyped, ThreadTyped

(* Every binding of a request has one of the sizes.                        *)
LEMMA SizesOfACall ==
  ASSUME NEW r \in Data, NEW b \in Bindings
  PROVE  NBytes(r, b) \in Sizes
  BY AttentionAssumption DEF NBytes

(* A plan is the key of a pipeline, or there is none.                      *)
LEMMA KeyOfACall ==
  ASSUME TypeInv, NEW r \in Data
  PROVE  PlanOf(r) \in Keys \cup {Nil}
  BY AttentionAssumption DEF TypeInv, BackendTyped, PlanOf

(* Using the device is calling the API, with arguments it can be called      *)
(* with.                                                                     *)
LEMMA UsesAreCalls ==
  ASSUME TypeInv, NEW t \in Threads, Uses(t)
  PROVE  [CtxStep]_ctxVars
<1> USE DEF CtxStep
<1>1. CASE OpenContext(t) \/ StoreContext(t) \/ AdoptLimits(t)
  BY <1>1 DEF OpenContext, StoreContext, AdoptLimits
<1>2. ASSUME NEW b \in Bindings, GrowBuffer(t, b)
      PROVE  CtxStep
  <2> DEFINE new == [ctx |-> context, binding |-> b, bytes |-> NBytes(request[t], b)]
  <2>1. pc[t] = b /\ Allocate(new)
    BY <1>2 DEF GrowBuffer
  <2>2. request[t] \in Data
    BY <2>1 DEF TypeInv, CallInv, InCall, Held, Running, Bindings, Inputs
  <2>3. context \in Contexts
    BY <2>1 DEF Allocate, TypeInv, CtxTypeOK
  <2>4. new \in Buffers
    BY <2>2, <2>3, SizesOfACall DEF Buffers
  <2> QED BY <2>1, <2>4
<1>3. ASSUME NEW b \in Bindings, FreeOutgrown(t, b)
      PROVE  CtxStep
  <2>1. Free(outgrown) /\ outgrown \in Buffers
    BY <1>3 DEF FreeOutgrown, Free, live
  <2> QED BY <2>1
<1>4. CASE WriteInputs(t)
  <2>1. request[t] \in Data
    BY <1>4 DEF WriteInputs, TypeInv, CallInv, InCall, Held, Running, Outside
  <2>2. Write({buffers[b] : b \in Inputs}, request[t])
    BY <1>4 DEF WriteInputs
  <2>3. {buffers[b] : b \in Inputs} \in SUBSET Buffers
    BY <2>2 DEF Write, live
  <2> QED BY <2>1, <2>2, <2>3
<1>5. CASE CompilePipeline(t)
  <2> DEFINE p == [ctx |-> context, key |-> PlanOf(request[t])]
  <2>1. pc[t] = "compile" /\ Compile(p)
    BY <1>5 DEF CompilePipeline
  <2>2. request[t] \in Data /\ PlanOf(request[t]) # Nil
    BY <2>1 DEF TypeInv, CallInv, InCall, Planned, Stored, Held, Running, Outside
  <2>3. context \in Contexts
    BY <2>1 DEF Compile, TypeInv, CtxTypeOK
  <2>4. p \in Pipelines
    BY <2>2, <2>3, KeyOfACall DEF Pipelines
  <2> QED BY <2>1, <2>4
<1>6. CASE SubmitWork(t)
  <2>1. pc[t] = "submit" /\ \E p \in Cached(t) : Submit(p, buffers, request[t])
    BY <1>6 DEF SubmitWork
  <2>2. PICK p \in Cached(t) : Submit(p, buffers, request[t])
    BY <2>1
  <2>3. request[t] \in Data /\ p \in Pipelines
    BY <2>1 DEF TypeInv, CallInv, InCall, Held, Running, Outside, Cached, BackendTyped
  <2>4. buffers \in [Bindings -> Buffers]
    BY <2>2 DEF Submit, live, TypeInv, BackendTyped
  <2> QED BY <2>2, <2>3, <2>4 DEF Dispatching
<1>7. CASE WaitSucceeds(t)
  BY <1>7 DEF WaitSucceeds, Waiting
<1>8. CASE WaitTimesOut(t)
  BY <1>8 DEF WaitTimesOut, Waiting
<1>9. CASE ReadOutput(t)
  BY <1>9 DEF ReadOutput
<1> QED BY <1>1, <1>2, <1>3, <1>4, <1>5, <1>6, <1>7, <1>8, <1>9 DEF Uses

(* Closing and retiring reach the context through its own operations only. *)
LEMMA AroundIsCalls ==
  ASSUME TypeInv, NEW t \in Threads, Around(t)
  PROVE  [CtxStep]_ctxVars
<1> USE DEF CtxStep
<1>1. CASE Retire(t) \/ Close(t)
  <2>1. BeginClose(context) \/ UNCHANGED ctxVars
    BY <1>1 DEF Retire, Close, CloseHeld
  <2>2. BeginClose(context) => context \in Contexts
    BY DEF BeginClose, TypeInv, CtxTypeOK
  <2> QED BY <2>1, <2>2
<1>2. CASE Teardown(t) \/ Closing(t)
  BY <1>2 DEF Teardown, Closing
<1>3. CASE Interrupt(t)
  BY <1>3 DEF Interrupt, Waiting
<1>4. CASE Warn(t) \/ Fallback(t) \/ StartClose(t) \/ \E r \in Data : Call(t, r)
  BY <1>4 DEF Warn, Fallback, StartClose, Call
<1> QED BY <1>1, <1>2, <1>3, <1>4 DEF Around

(* The threads, the lock and the GPU together are one caller of the runtime. *)
LEMMA StepsAreApiCalls == TypeInv /\ [Next]_vars => [CtxStep]_ctxVars
<1> SUFFICES ASSUME TypeInv, [Next]_vars PROVE [CtxStep]_ctxVars
  OBVIOUS
<1>1. CASE Gpu
  BY <1>1 DEF Gpu, CtxStep
<1>2. CASE UNCHANGED vars
  BY <1>2 DEF vars
<1>3. ASSUME NEW t \in Threads, Moves(t)
      PROVE  UNCHANGED ctxVars
  BY <1>3, MovesFrame
<1> QED BY <1>1, <1>2, <1>3, UsesAreCalls, AroundIsCalls, Kinds

-----------------------------------------------------------------------------
(* The backend's own fields keep their types.                                *)
LEMMA BackendStep ==
  ASSUME TypeInv, [Next]_vars
  PROVE  BackendTyped'
<1>0. CtxTypeOK'
  BY StepsAreApiCalls, CtxTypeStep DEF TypeInv
<1>1. BackendTyped /\ CtxTypeOK /\ CallInv /\ HasDevice /\ DeviceInv
  BY DEF TypeInv
<1> USE DEF BackendTyped
<1>2. ASSUME NEW t \in Threads, Moves(t)
      PROVE  BackendTyped'
  BY <1>1, <1>2, MovesFrame DEF backendVars
<1>3. ASSUME NEW t \in Threads, OpenContext(t) \/ StoreContext(t) \/ AdoptLimits(t)
      PROVE  BackendTyped'
  <2>1. CASE OpenContext(t)
    BY <1>1, <2>1 DEF OpenContext, backendVars
  <2>2. CASE StoreContext(t)
    BY <1>1, <2>2 DEF StoreContext, CtxTypeOK
  <2>3. CASE AdoptLimits(t)
    <3>1. pc[t] = "adopt" /\ limits' = IF override = Nil THEN Reports[context] ELSE limits
      BY <2>3 DEF AdoptLimits
    <3>2. context \in Contexts
      BY <1>1, <3>1 DEF HasDevice, Stored, Running, Contexts
    <3>3. limits' \in Limits
      BY <1>1, <3>1, <3>2, AttentionAssumption
    <3> QED BY <1>1, <2>3, <3>3 DEF AdoptLimits
  <2> QED BY <1>3, <2>1, <2>2, <2>3
<1>4. ASSUME NEW t \in Threads, NEW b \in Bindings, GrowBuffer(t, b)
      PROVE  BackendTyped'
  <2> DEFINE new == [ctx |-> context, binding |-> b, bytes |-> NBytes(request[t], b)]
  <2>1. pc[t] = b /\ Allocate(new)
    BY <1>4 DEF GrowBuffer
  <2>2. request[t] \in Data
    BY <1>1, <2>1 DEF CallInv, InCall, Held, Running, Bindings, Inputs
  <2>3. context \in Contexts
    BY <1>1, <2>1 DEF Allocate, CtxTypeOK
  <2>4. new \in Buffers
    BY <2>2, <2>3, SizesOfACall DEF Buffers
  <2>5. buffers' = [buffers EXCEPT ![b] = new] /\ outgrown' = buffers[b]
    BY <1>4 DEF GrowBuffer
  <2> QED BY <1>1, <1>4, <2>4, <2>5 DEF GrowBuffer
<1>5. ASSUME NEW t \in Threads, CompilePipeline(t)
      PROVE  BackendTyped'
  <2> DEFINE p == [ctx |-> context, key |-> PlanOf(request[t])]
  <2>1. pc[t] = "compile" /\ Compile(p)
    BY <1>5 DEF CompilePipeline
  <2>2. p \in Pipelines
    <3>1. p \in pipelines'
      BY <2>1 DEF Compile
    <3> QED BY <1>0, <3>1 DEF CtxTypeOK
  <2>3. cache' = cache \cup {p}
    BY <1>5 DEF CompilePipeline
  <2> QED BY <1>1, <1>5, <2>2, <2>3 DEF CompilePipeline
<1>6. ASSUME NEW t \in Threads, ReadOutput(t)
      PROVE  BackendTyped'
  BY <1>1, <1>6 DEF ReadOutput
<1>7. ASSUME NEW t \in Threads, NEW b \in Bindings, FreeOutgrown(t, b)
      PROVE  BackendTyped'
  BY <1>1, <1>7 DEF FreeOutgrown
<1>8. ASSUME NEW t \in Threads,
             WriteInputs(t) \/ SubmitWork(t) \/ WaitSucceeds(t) \/ WaitTimesOut(t)
      PROVE  BackendTyped'
  BY <1>1, <1>8 DEF WriteInputs, SubmitWork, WaitSucceeds, WaitTimesOut, Fail, backendVars
<1>9. ASSUME NEW t \in Threads, Retire(t) \/ Close(t)
      PROVE  BackendTyped'
  <2>1. /\ context' = 0 /\ cache' = {} /\ buffers' = NoBuffers /\ limits' = InitialLimits
        /\ UNCHANGED <<deviceCalls, override, outgrown, orphans>>
    BY <1>9 DEF Retire, Close, CloseHeld
  <2>2. 0 \in 0 .. MaxOpens /\ InitialLimits \in Limits
    BY <1>1, ContextAssumption, AttentionAssumption DEF InitialLimits
  <2> QED BY <1>1, <2>1, <2>2 DEF NoBuffers
<1>10. ASSUME NEW t \in Threads,
              Teardown(t) \/ Closing(t) \/ Warn(t) \/ Fallback(t) \/ StartClose(t) \/ \E r \in Data : Call(t, r)
       PROVE  BackendTyped'
  BY <1>1, <1>10 DEF Teardown, Closing, Warn, Fallback, StartClose, Call, backendVars
<1>11. ASSUME NEW t \in Threads, Interrupt(t)
       PROVE  BackendTyped'
  <2>1. orphans' \subseteq Contexts
    BY <1>1, <1>11 DEF Interrupt, DeviceInv, InHand, CtxTypeOK, Contexts
  <2> QED BY <1>1, <1>11, <2>1 DEF Interrupt
<1>12. CASE Gpu \/ UNCHANGED vars
  BY <1>1, <1>12, GpuFrame DEF vars, backendVars
<1> QED
  BY <1>2, <1>3, <1>4, <1>5, <1>6, <1>7, <1>8, <1>9, <1>10, <1>11, <1>12, Kinds DEF Uses, Around

(* The threads' own fields keep their types.                                 *)
LEMMA ThreadStep ==
  ASSUME TypeInv, [Next]_vars
  PROVE  ThreadTyped'
<1>1. ThreadTyped /\ CtxTypeOK /\ CallInv /\ MaxCalls \in Nat
  BY AttentionAssumption DEF TypeInv
<1> USE DEF ThreadTyped
<1>2. ASSUME NEW t \in Threads, Moves(t)
      PROVE  ThreadTyped'
  BY <1>1, <1>2, MovesFrame
<1>3. ASSUME NEW t \in Threads, ReadOutput(t)
      PROVE  ThreadTyped'
  <2>1. pc[t] = "read"
    BY <1>3 DEF ReadOutput
  <2>2. buffers["output"] \in Buffers
    BY <1>1, <2>1 DEF CallInv, Bindings
  <2>3. contents[buffers["output"]] \in Data \cup {Garbage, Absent}
    BY <1>1, <2>2 DEF CtxTypeOK
  <2> QED BY <1>1, <1>3, <2>3 DEF ReadOutput
<1>4. ASSUME NEW t \in Threads, Uses(t), ~ReadOutput(t)
      PROVE  ThreadTyped'
  BY <1>1, <1>4 DEF Uses, OpenContext, StoreContext, AdoptLimits, GrowBuffer, FreeOutgrown, WriteInputs, CompilePipeline,
     SubmitWork, WaitSucceeds, WaitTimesOut, Fail, threadVars
<1>5. ASSUME NEW t \in Threads, Retire(t)
      PROVE  ThreadTyped'
  <2>1. usable \in BOOLEAN
    BY DEF TypeInv, Locking, LockTyped
  <2> QED BY <1>1, <1>5, <2>1 DEF Retire
<1>6. ASSUME NEW t \in Threads, Fallback(t)
      PROVE  ThreadTyped'
  <2>1. request[t] \in Data \cup {Garbage, Absent, Nil}
    BY <1>1
  <2> QED BY <1>1, <1>6, <2>1 DEF Fallback
<1>7. ASSUME NEW t \in Threads, Warn(t)
      PROVE  ThreadTyped'
  BY <1>1, <1>7 DEF Warn
<1>8. ASSUME NEW t \in Threads, StartClose(t) \/ \E r \in Data : Call(t, r)
      PROVE  ThreadTyped'
  BY <1>1, <1>8 DEF StartClose, Call
<1>9. ASSUME NEW t \in Threads, Teardown(t) \/ Close(t) \/ Closing(t) \/ Interrupt(t)
      PROVE  ThreadTyped'
  BY <1>1, <1>9 DEF Teardown, Close, Closing, Interrupt
<1>10. CASE Gpu \/ UNCHANGED vars
  BY <1>1, <1>10, GpuFrame DEF vars, threadVars
<1> QED BY <1>2, <1>3, <1>4, <1>5, <1>6, <1>7, <1>8, <1>9, <1>10, Kinds DEF Around

(* A step that leaves what calls know alone, and moves a thread only to      *)
(* places whose knowledge it has.                                            *)
LEMMA CallFrame ==
  ASSUME CallInv, LockTyped, UNCHANGED <<limits, buffers, request>>,
         NEW t \in Threads, NEW label, pc' = [pc EXCEPT ![t] = label],
         label \in InCall => pc[t] \in InCall,
         label \in Planned => pc[t] \in Planned \/ PlanOf(request[t]) # Nil,
         label \in {"wait", "read"} => buffers \in [Bindings -> Buffers]
  PROVE  CallInv'
  BY DEF CallInv, LockTyped, PlanOf

(* What a thread remembers of its call, over the steps outside the lock.   *)
LEMMA CallMoves ==
  ASSUME TypeInv, NEW t \in Threads, Moves(t)
  PROVE  CallInv'
<1>1. UNCHANGED <<limits, buffers, request>> /\ CallInv /\ LockTyped
  BY MovesFrame DEF backendVars, TypeInv, Locking
<1> USE DEF Goto, Take, Release, InCall, Planned, Stored, Held, Running, Tearing, Outside, Bindings, Inputs
<1>2. CASE EnterUsable(t) \/ EnterRetired(t) \/ ReuseContext(t)
  BY <1>1, <1>2, CallFrame DEF EnterUsable, EnterRetired, ReuseContext
<1>3. CASE Plan(t)
  BY <1>1, <1>3, CallFrame DEF Plan
<1>4. CASE PlanDeclines(t)
  BY <1>1, <1>4, CallFrame DEF PlanDeclines
<1>5. CASE OpenFails(t) \/ CompileFails(t) \/ SubmitRefused(t) \/ SubmitFails(t)
           \/ \E b \in Bindings : AllocateFails(t, b)
  <2>1. pc' = [pc EXCEPT ![t] = "failed"] /\ pc[t] \in InCall
    BY <1>5 DEF OpenFails, CompileFails, SubmitRefused, SubmitFails, AllocateFails, Raises, Fail
  <2> QED BY <1>1, <2>1, CallFrame
<1>6. CASE \E b \in Bindings : KeepBuffer(t, b)
  <2> PICK b \in Bindings : KeepBuffer(t, b)
    BY <1>6
  <2>1. /\ pc' = [pc EXCEPT ![t] = AfterBinding[b]] /\ pc[t] \in Planned
        /\ AfterBinding[b] \in {"key", "value", "output", "write"}
    BY DEF KeepBuffer, AfterBinding
  <2> QED BY <1>1, <2>1, CallFrame
<1>7. CASE ReusePipeline(t)
  BY <1>1, <1>7, CallFrame DEF ReusePipeline
<1> QED BY <1>2, <1>3, <1>4, <1>5, <1>6, <1>7 DEF Moves

(* What a thread remembers of its call, over the steps of a run.           *)
LEMMA CallUses ==
  ASSUME TypeInv, NEW t \in Threads, Uses(t)
  PROVE  CallInv'
<1>1. CallInv /\ LockTyped /\ LockProtects
  BY DEF TypeInv, Locking
<1> USE DEF Goto, Release, InCall, Planned, Stored, Held, Running, Tearing, Outside
<1>2. CASE OpenContext(t) \/ StoreContext(t) \/ AdoptLimits(t)
  <2>1. \A u \in Threads : u # t => pc[u] \notin Running
    BY <1>1, <1>2 DEF OpenContext, StoreContext, AdoptLimits, LockProtects
  <2>2. /\ pc[t] \in {"open", "store", "adopt"} /\ UNCHANGED <<buffers, request>>
        /\ \E label \in {"store", "adopt", "plan"} : pc' = [pc EXCEPT ![t] = label]
    BY <1>2 DEF OpenContext, StoreContext, AdoptLimits, backendVars
  <2>3. \A l \in {"store", "adopt", "plan"} : l \notin Bindings
    BY DEF Bindings, Inputs
  <2> QED BY <1>1, <2>1, <2>2, <2>3 DEF CallInv, LockTyped
<1>3. ASSUME NEW b \in Bindings, GrowBuffer(t, b)
      PROVE  CallInv'
  <2>1. \A u \in Threads : pc[u] \notin {"wait", "read"}
    BY <1>1, <1>3 DEF GrowBuffer, LockProtects, Bindings, Inputs
  <2> QED BY <1>1, <1>3, <2>1 DEF GrowBuffer, threadVars, CallInv, PlanOf
<1>4. CASE \E b \in Bindings : FreeOutgrown(t, b)
  BY <1>1, <1>4 DEF FreeOutgrown, threadVars, CallInv, PlanOf
<1>5. CASE WriteInputs(t)
  BY <1>1, <1>5, CallFrame DEF WriteInputs, backendVars
<1>6. CASE CompilePipeline(t)
  <2>1. /\ pc[t] = "compile" /\ pc' = [pc EXCEPT ![t] = "submit"]
        /\ UNCHANGED <<limits, buffers, request>>
    BY <1>6 DEF CompilePipeline
  <2> QED BY <1>1, <2>1, CallFrame
<1>7. CASE SubmitWork(t)
  <2>1. buffers \in [Bindings -> Buffers]
    BY <1>7 DEF SubmitWork, Submit, live, TypeInv, BackendTyped
  <2>2. /\ pc[t] = "submit" /\ pc' = [pc EXCEPT ![t] = "wait"]
        /\ UNCHANGED <<limits, buffers, request>>
    BY <1>7 DEF SubmitWork, backendVars
  <2> QED BY <1>1, <2>1, <2>2, CallFrame
<1>8. CASE WaitSucceeds(t)
  <2>1. /\ pc[t] = "wait" /\ pc' = [pc EXCEPT ![t] = "read"]
        /\ UNCHANGED <<limits, buffers, request>>
    BY <1>8 DEF WaitSucceeds, backendVars
  <2> QED BY <1>1, <2>1, CallFrame DEF CallInv
<1>9. CASE WaitTimesOut(t)
  <2>1. /\ pc[t] = "wait" /\ pc' = [pc EXCEPT ![t] = "failed"]
        /\ UNCHANGED <<limits, buffers, request>>
    BY <1>9 DEF WaitTimesOut, Fail, backendVars
  <2> QED BY <1>1, <2>1, CallFrame
<1>10. CASE ReadOutput(t)
  BY <1>1, <1>10, CallFrame DEF ReadOutput
<1> QED BY <1>2, <1>3, <1>4, <1>5, <1>6, <1>7, <1>8, <1>9, <1>10 DEF Uses

(* What a thread remembers of its call, over a close, a retirement, a      *)
(* warning and the work of the GPU.                                        *)
LEMMA CallAround ==
  ASSUME TypeInv, NEW t \in Threads, Around(t)
  PROVE  CallInv'
<1>1. CallInv /\ LockTyped /\ LockProtects
  BY DEF TypeInv, Locking
<1> USE DEF Goto, Release, InCall, Planned, Stored, Held, Running, Tearing, Outside
<1>2. ASSUME NEW busy \in Held \cup Outside, NEW done \in Held \cup Outside, CloseHeld(t, busy, done),
             busy \notin Running, done \notin Running, request' = request,
             {busy, done} \cap InCall # {} => pc[t] \in InCall
      PROVE  CallInv'
  <2>1. \A u \in Threads : pc[u] \notin Running
    BY <1>1, <1>2, AttentionAssumption DEF CloseHeld, LockProtects, LockTyped
  <2>2. \E label \in {busy, done} : pc' = [pc EXCEPT ![t] = label]
    BY <1>2 DEF CloseHeld, Take
  <2> QED BY <1>1, <1>2, <2>1, <2>2 DEF CallInv, LockTyped, Bindings, Inputs
<1>3. CASE Retire(t)
  <2>1. /\ pc[t] = "failed" /\ request' = request
        /\ CloseHeld(t, "teardown", IF usable THEN "warn" ELSE "fallback")
    BY <1>3 DEF Retire, AfterTeardown
  <2>2. (IF usable THEN "warn" ELSE "fallback") \in {"warn", "fallback"}
    OBVIOUS
  <2> QED BY <1>2, <2>1, <2>2 DEF Bindings, Inputs
<1>4. CASE Close(t)
  <2>1. CloseHeld(t, "closing", "idle") /\ request' = request
    BY <1>4 DEF Close
  <2> QED BY <1>2, <2>1 DEF Bindings, Inputs
<1>5. CASE Teardown(t)
  <2>1. /\ pc[t] = "teardown" /\ UNCHANGED <<limits, buffers, request>>
        /\ pc' = pc \/ \E label \in {"warn", "fallback"} : pc' = [pc EXCEPT ![t] = label]
    BY <1>5 DEF Teardown, AfterTeardown, backendVars
  <2>2. CASE pc' = pc
    BY <1>1, <2>1, <2>2 DEF CallInv, PlanOf
  <2> QED BY <1>1, <2>1, <2>2, CallFrame DEF Bindings, Inputs
<1>6. CASE Closing(t)
  <2>1. /\ UNCHANGED <<limits, buffers, request>>
        /\ pc' = pc \/ pc' = [pc EXCEPT ![t] = "idle"]
    BY <1>6 DEF Closing, backendVars
  <2>2. CASE pc' = pc
    BY <1>1, <2>1, <2>2 DEF CallInv, PlanOf
  <2> QED BY <1>1, <2>1, <2>2, CallFrame DEF Bindings, Inputs
<1>7. CASE Warn(t) \/ Fallback(t) \/ StartClose(t) \/ Interrupt(t)
  <2>1. /\ UNCHANGED <<limits, buffers, request>>
        /\ \/ pc[t] = "warn" /\ pc' = [pc EXCEPT ![t] = "fallback"]
           \/ \E label \in {"idle", "close"} : pc' = [pc EXCEPT ![t] = label]
    BY <1>7 DEF Warn, Fallback, StartClose, Interrupt, backendVars
  <2> QED BY <1>1, <2>1, CallFrame DEF Bindings, Inputs
<1>8. CASE \E r \in Data : Call(t, r)
  <2> PICK r \in Data : Call(t, r)
    BY <1>8
  <2>1. /\ request' = [request EXCEPT ![t] = r] /\ UNCHANGED <<limits, buffers>>
        /\ pc' = [pc EXCEPT ![t] = IF r \in Covered THEN "enter" ELSE "fallback"]
    BY DEF Call, backendVars
  <2>2. request \in [Threads -> Data \cup {Nil}]
    BY DEF TypeInv, ThreadTyped
  <2>3. /\ pc'[t] \in {"enter", "fallback"} /\ request'[t] = r
        /\ \A u \in Threads \ {t} : pc'[u] = pc[u] /\ request'[u] = request[u]
    BY <1>1, <2>1, <2>2 DEF LockTyped
  <2>4. "enter" \notin Planned \cup {"wait", "read"} /\ "fallback" \notin Planned \cup {"wait", "read"}
    BY DEF Bindings, Inputs
  <2> QED BY <1>1, <2>1, <2>3, <2>4 DEF CallInv, PlanOf
<1> QED BY <1>3, <1>4, <1>5, <1>6, <1>7, <1>8 DEF Around

(* Every step keeps the invariant behind the type invariant.               *)
LEMMA TypeStep == TypeInv /\ [Next]_vars => TypeInv'
<1> SUFFICES ASSUME TypeInv, [Next]_vars PROVE TypeInv'
  OBVIOUS
<1>1. CtxTypeOK'
  BY StepsAreApiCalls, CtxTypeStep DEF TypeInv
<1>2. Locking' /\ DeviceInv' /\ HasDevice'
  BY LockStep, DeviceStep, HasDeviceStep DEF TypeInv
<1>3. BackendTyped' /\ ThreadTyped'
  BY BackendStep, ThreadStep
<1>4. CallInv'
  <2>1. CASE Gpu \/ UNCHANGED vars
    BY <2>1, GpuFrame DEF vars, backendVars, threadVars, TypeInv, CallInv, PlanOf
  <2> QED BY <2>1, CallMoves, CallUses, CallAround, Kinds
<1> QED BY <1>1, <1>2, <1>3, <1>4 DEF TypeInv

(* The invariant behind the type invariant holds at first.                 *)
LEMMA TypeInit == Init => TypeInv
<1> SUFFICES ASSUME Init PROVE TypeInv
  OBVIOUS
<1>1. CtxTypeOK /\ Locking /\ DeviceInv
  BY CtxInitHolds, LockInit, DeviceInit DEF Init
<1>2. BackendTyped
  BY ContextAssumption, AttentionAssumption DEF Init, BackendTyped, InitialLimits, NoBuffers
<1>3. ThreadTyped
  BY AttentionAssumption DEF Init, ThreadTyped
<1>4. CallInv /\ HasDevice
  BY DEF Init, CallInv, HasDevice, InCall, Planned, Stored, Running, Bindings, Inputs
<1> QED BY <1>1, <1>2, <1>3, <1>4 DEF TypeInv

(* Type correctness of the backend and of the runtime under it.  It is not   *)
(* inductive alone: a thread compiles the tile shape it planned only because *)
(* nobody can change the limits while it holds the lock, and it reads an     *)
(* output buffer that exists only because nobody can drop it.                *)
THEOREM TypeCorrect == Spec => []TypeOK
  BY TypeInit, TypeStep, TypeInvImplies, PTL DEF Spec

(* However the threads interleave and however the device fails, no pipeline  *)
(* and no device is destroyed while the GPU may still use it                 *)
(* (vkcompute.py:1199-1200), as long as no exception other than a            *)
(* VulkanError cuts a dispatch short.                                        *)
THEOREM PipelinesSafe ==
  ASSUME "interrupt" \notin Faults
  PROVE  Spec => []PipelinesOutliveWork
<1>1. Init => TypeInv /\ WorkInv
  BY TypeInit, CtxInitHolds DEF Init
<1>2. TypeInv /\ WorkInv /\ [Next]_vars => TypeInv' /\ WorkInv'
  BY TypeStep, StepsAreApiCalls, WorkStep DEF TypeInv
<1>3. WorkInv => PipelinesOutliveWork
  BY WatchedWorkIsSafe
<1> QED BY <1>1, <1>2, <1>3, PTL DEF Spec

-----------------------------------------------------------------------------
(* Why the handles the backend keeps are those of the open device: they are  *)
(* dropped in the step that drops the context, and the buffer being replaced *)
(* is never one of those in use.                                             *)
BuffersApart ==
  \A b \in Bindings :
    /\ buffers[b] # Nil => buffers[b].binding = b
    /\ outgrown # Nil => buffers[b] # outgrown

HandleInv == TypeInv /\ HandlesOfOpenDevice /\ BuffersApart

(* A backend without a context has neither pipelines nor buffers to reuse. *)
LEMMA NoHandlesWithoutDevice ==
  ASSUME HandleInv, context = 0
  PROVE  cache = {} /\ \A b \in Bindings : buffers[b] = Nil
<1>1. PipesOf(0) = {} /\ BufsOf(0) = {}
  BY ContextsArePositive DEF PipesOf, BufsOf, live, HandleInv, TypeInv, CtxTypeOK, Pipelines, Buffers
<1> QED BY <1>1 DEF HandleInv, HandlesOfOpenDevice

(* Steps that keep every handle, and destroy none.                           *)
LEMMA HandleFrame ==
  ASSUME HandleInv, UNCHANGED <<context, cache, buffers>>, outgrown' \in {outgrown, Nil},
         pipelines \subseteq pipelines', live \subseteq live'
  PROVE  HandlesOfOpenDevice' /\ BuffersApart'
  BY DEF HandleInv, HandlesOfOpenDevice, BuffersApart, PipesOf, BufsOf

(* Over the steps of a run, the cached handles belong to the open context. *)
LEMMA HandleUses ==
  ASSUME HandleInv, NEW t \in Threads, Uses(t)
  PROVE  HandlesOfOpenDevice' /\ BuffersApart'
<1>1. CASE OpenContext(t) \/ StoreContext(t) \/ AdoptLimits(t)
  <2>1. CASE AdoptLimits(t)
    BY <2>1, HandleFrame DEF AdoptLimits, ctxVars, live
  <2>2. CASE OpenContext(t) \/ StoreContext(t)
    <3>1. context = 0 /\ UNCHANGED <<cache, buffers, outgrown>>
      BY <2>2 DEF OpenContext, StoreContext, HandleInv, TypeInv, DeviceInv, InHand, backendVars
    <3>2. cache = {} /\ \A b \in Bindings : buffers[b] = Nil
      BY <3>1, NoHandlesWithoutDevice
    <3> QED BY <3>1, <3>2 DEF HandlesOfOpenDevice, BuffersApart
  <2> QED BY <1>1, <2>1, <2>2
<1>2. ASSUME NEW b \in Bindings, GrowBuffer(t, b)
      PROVE  HandlesOfOpenDevice' /\ BuffersApart'
  <2> DEFINE new == [ctx |-> context, binding |-> b, bytes |-> NBytes(request[t], b)]
  <2>1. /\ pc[t] = b /\ Allocate(new) /\ buffers' = [buffers EXCEPT ![b] = new]
        /\ outgrown' = buffers[b] /\ UNCHANGED <<context, cache>>
    BY <1>2 DEF GrowBuffer
  <2>2. request[t] \in Data
    BY <2>1 DEF HandleInv, TypeInv, CallInv, InCall, Held, Running, Bindings, Inputs
  <2>3. new \in Buffers
    <3>1. context \in Contexts
      BY <2>1 DEF Allocate, HandleInv, TypeInv, CtxTypeOK
    <3> QED BY <3>1, <2>2, SizesOfACall DEF Buffers
  <2>4. new \notin live /\ live' = live \cup {new} /\ pipelines' = pipelines
    BY <2>1, <2>3, ContextAssumption DEF Allocate, live, HandleInv, TypeInv, CtxTypeOK
  <2>5. buffers \in [Bindings -> Buffers \cup {Nil}] /\ new # Nil
    BY <2>3, ContextAssumption DEF HandleInv, TypeInv, BackendTyped
  <2>6. \A i \in Bindings : buffers'[i] = IF i = b THEN new ELSE buffers[i]
    BY <2>1, <2>5
  <2>7. HandlesOfOpenDevice'
    <3>1. new \in live' /\ new.ctx = context
      BY <2>4
    <3> QED BY <2>1, <2>4, <2>6, <3>1 DEF HandleInv, HandlesOfOpenDevice, PipesOf, BufsOf
  <2>8. BuffersApart'
    <3>1. \A i \in Bindings : buffers[i] # Nil => buffers[i] # new /\ buffers[i].binding = i
      BY <2>4 DEF HandleInv, HandlesOfOpenDevice, BuffersApart, BufsOf
    <3>2. new.binding = b
      OBVIOUS
    <3> QED BY <2>1, <2>6, <3>1, <3>2 DEF BuffersApart
  <2> QED BY <2>7, <2>8
<1>3. ASSUME NEW b \in Bindings, FreeOutgrown(t, b)
      PROVE  HandlesOfOpenDevice' /\ BuffersApart'
  <2>1. /\ outgrown # Nil /\ Free(outgrown) /\ outgrown' = Nil
        /\ UNCHANGED <<context, cache, buffers>>
    BY <1>3 DEF FreeOutgrown
  <2>2. live \ {outgrown} \subseteq live' /\ pipelines' = pipelines
    BY <2>1 DEF Free, live, HandleInv, TypeInv, CtxTypeOK
  <2> QED BY <2>1, <2>2 DEF HandleInv, HandlesOfOpenDevice, BuffersApart, PipesOf, BufsOf
<1>4. CASE WriteInputs(t)
  <2>1. request[t] \in Data
    BY <1>4 DEF WriteInputs, HandleInv, TypeInv, CallInv, InCall, Held, Running, Outside
  <2>2. live \subseteq live'
    BY <1>4, <2>1, ContextAssumption DEF WriteInputs, Write, live
  <2> QED BY <1>4, <2>2, HandleFrame DEF WriteInputs, Write, backendVars
<1>5. CASE CompilePipeline(t)
  <2> DEFINE p == [ctx |-> context, key |-> PlanOf(request[t])]
  <2>1. /\ Compile(p) /\ cache' = cache \cup {p} /\ Cached(t) = {}
        /\ UNCHANGED <<context, buffers, outgrown>>
    BY <1>5 DEF CompilePipeline
  <2>2. p \in pipelines' /\ pipelines \subseteq pipelines' /\ live' = live /\ p.ctx = context
    BY <2>1 DEF Compile, live
  <2>3. \A q \in cache : q.key # p.key
    BY <2>1 DEF Cached
  <2>4. HandlesOfOpenDevice'
    BY <2>1, <2>2, <2>3 DEF HandleInv, HandlesOfOpenDevice, PipesOf, BufsOf
  <2> QED BY <2>1, <2>4 DEF HandleInv, BuffersApart
<1>6. CASE SubmitWork(t) \/ WaitSucceeds(t) \/ WaitTimesOut(t) \/ ReadOutput(t)
  <2>1. UNCHANGED <<context, cache, buffers, outgrown, pipelines, contents>>
    BY <1>6 DEF SubmitWork, Submit, WaitSucceeds, FenceSignalled, WaitTimesOut, WaitFails, Fail,
       ReadOutput, backendVars, ctxVars
  <2> QED BY <2>1, HandleFrame DEF live
<1> QED BY <1>1, <1>2, <1>3, <1>4, <1>5, <1>6 DEF Uses

(* Over a close and a retirement, the cached handles go with the context.  *)
LEMMA HandleAround ==
  ASSUME HandleInv, NEW t \in Threads, Around(t)
  PROVE  HandlesOfOpenDevice' /\ BuffersApart'
<1>1. CASE Retire(t) \/ Close(t)
  <2>1. context' = 0 /\ cache' = {} /\ buffers' = NoBuffers
    BY <1>1 DEF Retire, Close, CloseHeld
  <2> QED BY <2>1 DEF NoBuffers, HandlesOfOpenDevice, BuffersApart
<1>2. CASE Teardown(t) \/ Closing(t)
  <2>1. CloseStep /\ UNCHANGED <<context, cache, buffers, outgrown>>
    BY <1>2 DEF Teardown, Closing, backendVars
  <2>2. context = 0
    BY <2>1 DEF CloseStep, ClosePipeline, CloseBuffer, CloseDevice, HandleInv, TypeInv, DeviceInv
  <2>3. cache = {} /\ \A b \in Bindings : buffers[b] = Nil
    BY <2>2, NoHandlesWithoutDevice
  <2> QED BY <2>1, <2>3 DEF HandlesOfOpenDevice, BuffersApart
<1>3. CASE Warn(t) \/ Fallback(t) \/ StartClose(t) \/ Interrupt(t) \/ \E r \in Data : Call(t, r)
  <2>1. UNCHANGED <<context, cache, buffers, pipelines, contents>> /\ outgrown' \in {outgrown, Nil}
    BY <1>3 DEF Warn, Fallback, StartClose, Interrupt, WaitFails, Call, backendVars, ctxVars
  <2> QED BY <2>1, HandleFrame DEF live
<1> QED BY <1>1, <1>2, <1>3 DEF Around

(* Every step keeps the cached handles with the open context.              *)
LEMMA HandleStep == HandleInv /\ [Next]_vars => HandleInv'
<1> SUFFICES ASSUME HandleInv, [Next]_vars PROVE HandleInv'
  OBVIOUS
<1>1. TypeInv'
  BY TypeStep DEF HandleInv
<1>2. HandlesOfOpenDevice' /\ BuffersApart'
  <2>1. CASE Gpu
    <3> PICK s \in inflight : Execute(s)
      BY <2>1 DEF Gpu, Device
    <3>1. s.arg \in Data
      BY DEF HandleInv, TypeInv, CtxTypeOK, Submissions
    <3>2. live \subseteq live'
      BY <3>1, ContextAssumption DEF Execute, live, HandleInv, TypeInv, CtxTypeOK
    <3> QED BY <2>1, <3>2, GpuFrame, HandleFrame DEF backendVars
  <2>2. CASE UNCHANGED vars
    BY <2>2, HandleFrame DEF vars, ctxVars, backendVars, live
  <2>3. ASSUME NEW t \in Threads, Moves(t)
        PROVE  HandlesOfOpenDevice' /\ BuffersApart'
    BY <2>3, MovesFrame, HandleFrame DEF ctxVars, backendVars, live
  <2> QED BY <2>1, <2>2, <2>3, HandleUses, HandleAround, Kinds
<1> QED BY <1>1, <1>2 DEF HandleInv

(* The handles of a backend that has done nothing.                           *)
LEMMA HandleInit == Init => HandleInv
  BY TypeInit DEF Init, HandleInv, HandlesOfOpenDevice, BuffersApart, NoBuffers

(* No pipeline and no buffer outlives the device it was made on in the       *)
(* backend's cache (vkbackend.py:288-296): after a close or a retirement, a  *)
(* reopened device is never handed a handle of the one before, even when an  *)
(* exception cut a call short between two steps.                             *)
THEOREM HandlesAreFresh == Spec => []HandlesOfOpenDevice
<1>1. HandleInv => HandlesOfOpenDevice
  BY DEF HandleInv
<1> QED BY <1>1, HandleInit, HandleStep, PTL DEF Spec

-----------------------------------------------------------------------------
(* Which buffers a call has sized when it stands at a label.                 *)
SizedAt(label) ==
  CASE label \in {"write", "compile", "submit"} -> Bindings
    [] label = "output" -> Inputs
    [] label = "value"  -> {"query", "key"}
    [] label = "key"    -> {"query"}
    [] OTHER -> {}

RoomKnown ==
  /\ \A t \in Threads : \A b \in SizedAt(pc[t]) : Fits(b, NBytes(request[t], b))
  /\ \A s \in inflight : BuffersFit(s)

(* A thread that has sized buffers holds the lock.                           *)
LEMMA SizingHolds ==
  ASSUME Locking, NEW t \in Threads, SizedAt(pc[t]) # {}
  PROVE  pc[t] \in Running /\ lock = t
<1>1. pc[t] \in Running
  BY DEF SizedAt, Running, Bindings, Inputs
<1> QED BY <1>1 DEF Locking, LockProtects, Held

(* Steps that keep the buffers, and size no more.                            *)
LEMMA RoomFrame ==
  ASSUME RoomKnown, buffers' = buffers, inflight' \subseteq inflight,
         \A u \in Threads : \/ SizedAt(pc'[u]) = {}
                            \/ /\ SizedAt(pc'[u]) \subseteq SizedAt(pc[u])
                               /\ request'[u] = request[u]
  PROVE  RoomKnown'
  BY DEF RoomKnown, Fits, BuffersFit

(* Sizing a binding, submitting over the four, and forgetting them.          *)
LEMMA RoomUses ==
  ASSUME HandleInv, RoomKnown, NEW t \in Threads,
         \/ \E b \in Bindings : KeepBuffer(t, b) \/ GrowBuffer(t, b)
         \/ SubmitWork(t) \/ Retire(t) \/ Close(t)
  PROVE  RoomKnown'
<1>0. Locking /\ LockTyped
  BY DEF HandleInv, TypeInv, Locking
<1> USE DEF Goto, Release, Take
<1>1. ASSUME NEW b \in Bindings, KeepBuffer(t, b)
      PROVE  RoomKnown'
  <2>1. /\ pc[t] = b /\ Fits(b, NBytes(request[t], b)) /\ pc' = [pc EXCEPT ![t] = AfterBinding[b]]
        /\ UNCHANGED <<buffers, inflight, request>>
    BY <1>1 DEF KeepBuffer, backendVars, ctxVars
  <2>2. SizedAt(AfterBinding[b]) \subseteq SizedAt(b) \cup {b}
    BY DEF SizedAt, AfterBinding, Bindings, Inputs
  <2>3. pc'[t] = AfterBinding[b] /\ \A u \in Threads : u # t => pc'[u] = pc[u]
    BY <1>0, <2>1 DEF LockTyped
  <2> QED BY <2>1, <2>2, <2>3 DEF RoomKnown, Fits, BuffersFit
<1>2. ASSUME NEW b \in Bindings, GrowBuffer(t, b)
      PROVE  RoomKnown'
  <2>1. /\ pc[t] = b /\ UNCHANGED <<inflight, request, pc>>
        /\ buffers' = [buffers EXCEPT ![b] = [ctx |-> context, binding |-> b, bytes |-> NBytes(request[t], b)]]
    BY <1>2 DEF GrowBuffer, Allocate, threadVars
  <2>2. \A u \in Threads : u # t => SizedAt(pc[u]) = {}
    <3>1. pc[t] \in Running
      BY <2>1 DEF Running
    <3>2. lock = t
      BY <1>0, <3>1 DEF Locking, LockProtects, Held
    <3> QED BY <1>0, <3>2, SizingHolds
  <2>3. b \notin SizedAt(pc[t])
    BY <2>1 DEF SizedAt, Bindings, Inputs
  <2>4. \A i \in Bindings : i # b => buffers'[i] = buffers[i]
    BY <2>1 DEF HandleInv, TypeInv, BackendTyped
  <2>5. SizedAt(pc[t]) \subseteq Bindings
    BY DEF SizedAt, Bindings, Inputs
  <2> QED BY <2>1, <2>2, <2>3, <2>4, <2>5 DEF RoomKnown, Fits, BuffersFit
<1>3. CASE SubmitWork(t)
  <2>1. /\ pc[t] = "submit" /\ \E p \in Cached(t) : Submit(p, buffers, request[t])
        /\ UNCHANGED <<buffers, request>> /\ pc' = [pc EXCEPT ![t] = "wait"]
    BY <1>3 DEF SubmitWork, backendVars
  <2>2. PICK p \in Cached(t) : Submit(p, buffers, request[t])
    BY <2>1
  <2> DEFINE s == [pipe |-> p, bufs |-> buffers, arg |-> request[t]]
  <2>3. inflight' = inflight \cup {s}
    BY <2>2 DEF Submit
  <2>4. \A b \in Bindings : Fits(b, NBytes(request[t], b))
    BY <2>1 DEF RoomKnown, SizedAt
  <2>5. p.ctx = context /\ \A b \in Bindings : buffers[b] # Nil => buffers[b].ctx = context
    BY <2>2 DEF HandleInv, HandlesOfOpenDevice, Cached, PipesOf, BufsOf
  <2>6. BuffersFit(s)
    BY <2>4, <2>5 DEF BuffersFit, Fits
  <2>7. SizedAt("wait") = {}
    BY DEF SizedAt
  <2>8. \A u \in Threads : pc'[u] = IF u = t THEN "wait" ELSE pc[u]
    BY <1>0, <2>1 DEF LockTyped
  <2> HIDE DEF s
  <2>9. \A x \in inflight' : BuffersFit(x)
    BY <2>3, <2>6 DEF RoomKnown
  <2>10. \A u \in Threads : \A b \in SizedAt(pc'[u]) : Fits(b, NBytes(request[u], b))
    BY <2>7, <2>8 DEF RoomKnown
  <2> QED BY <2>1, <2>9, <2>10 DEF RoomKnown, Fits, BuffersFit
<1>4. CASE Retire(t) \/ Close(t)
  <2>1. \E busy \in {"teardown", "closing"}, done \in {"warn", "fallback", "idle"} :
          CloseHeld(t, busy, done)
    BY <1>4 DEF Retire, Close, AfterTeardown
  <2>2. PICK busy \in {"teardown", "closing"}, done \in {"warn", "fallback", "idle"} :
          CloseHeld(t, busy, done)
    BY <2>1
  <2>3. lock = Nil /\ inflight' = inflight
    BY <2>2, CloseHeldFacts
  <2>4. \A u \in Threads : SizedAt(pc[u]) = {}
    BY <1>0, <2>3, SizingHolds, AttentionAssumption
  <2>5. \E label \in {"teardown", "closing", "warn", "fallback", "idle"} : pc' = [pc EXCEPT ![t] = label]
    BY <2>2 DEF CloseHeld
  <2>6. \A u \in Threads : SizedAt(pc'[u]) = {}
    BY <1>0, <2>4, <2>5 DEF LockTyped, SizedAt
  <2> QED BY <2>3, <2>6 DEF RoomKnown, BuffersFit
<1> QED BY <1>1, <1>2, <1>3, <1>4

(* Every step keeps the buffers a call has sized large enough for it.        *)
LEMMA RoomStep ==
  ASSUME HandleInv, RoomKnown, [Next]_vars
  PROVE  RoomKnown'
<1>0. LockTyped
  BY DEF HandleInv, TypeInv, Locking
<1> USE DEF Goto, Release, Take
<1>1. ASSUME NEW t \in Threads, Moves(t), \A b \in Bindings : ~KeepBuffer(t, b)
      PROVE  RoomKnown'
  <2>1. UNCHANGED <<buffers, inflight, request>>
    BY <1>1, MovesFrame DEF ctxVars, backendVars
  <2>2. \E label : /\ pc' = [pc EXCEPT ![t] = label]
                   /\ \/ label \in {"open", "fallback", "failed", "plan", "query"}
                      \/ pc[t] = "compile" /\ label = "submit"
    BY <1>1 DEF Moves, EnterUsable, EnterRetired, ReuseContext, OpenFails, Plan, PlanDeclines,
       AllocateFails, ReusePipeline, CompileFails, SubmitRefused, SubmitFails, Raises, Fail
  <2>3. \A u \in Threads : SizedAt(pc'[u]) = {} \/ SizedAt(pc'[u]) \subseteq SizedAt(pc[u])
    BY <1>0, <2>2 DEF LockTyped, SizedAt
  <2> QED BY <2>1, <2>3, RoomFrame
<1>2. ASSUME NEW t \in Threads, Uses(t), ~SubmitWork(t), \A b \in Bindings : ~GrowBuffer(t, b)
      PROVE  RoomKnown'
  <2>1. UNCHANGED <<buffers, request>> /\ inflight' \subseteq inflight
    BY <1>2 DEF Uses, OpenContext, Open, StoreContext, AdoptLimits, FreeOutgrown, Free, WriteInputs, Write,
       CompilePipeline, Compile, WaitSucceeds, FenceSignalled, WaitTimesOut, WaitFails, Fail, ReadOutput,
       backendVars, threadVars, ctxVars
  <2>2. \/ pc' = pc
        \/ \E label : /\ pc' = [pc EXCEPT ![t] = label]
                      /\ \/ label \in {"store", "adopt", "plan", "failed", "read", "idle"}
                         \/ pc[t] = "write" /\ label = "compile"
                         \/ pc[t] = "compile" /\ label = "submit"
    BY <1>2 DEF Uses, OpenContext, StoreContext, AdoptLimits, FreeOutgrown, WriteInputs, CompilePipeline,
       WaitSucceeds, WaitTimesOut, Fail, ReadOutput, threadVars
  <2>3. \A u \in Threads : SizedAt(pc'[u]) = {} \/ SizedAt(pc'[u]) \subseteq SizedAt(pc[u])
    BY <1>0, <2>2 DEF LockTyped, SizedAt
  <2> QED BY <2>1, <2>3, RoomFrame
<1>3. ASSUME NEW t \in Threads, Around(t), ~Retire(t), ~Close(t)
      PROVE  RoomKnown'
  <2>1. /\ buffers' = buffers /\ inflight' \subseteq inflight
        /\ \A u \in Threads : u # t => request'[u] = request[u]
    BY <1>3 DEF Around, Teardown, Closing, CloseStep, ClosePipeline, CloseBuffer, CloseDevice,
       DestroyHandles, Warn, Fallback, StartClose, Interrupt, WaitFails, Call, backendVars, ctxVars,
       HandleInv, TypeInv, ThreadTyped
  <2>2. \/ pc' = pc /\ request' = request
        \/ \E label \in {"warn", "fallback", "idle", "close", "enter"} : pc' = [pc EXCEPT ![t] = label]
    BY <1>3 DEF Around, Teardown, Closing, Warn, Fallback, StartClose, Interrupt, Call, AfterTeardown
  <2>3. CASE pc' = pc /\ request' = request
    BY <2>1, <2>3, RoomFrame
  <2>4. CASE \E label \in {"warn", "fallback", "idle", "close", "enter"} : pc' = [pc EXCEPT ![t] = label]
    <3>1. SizedAt(pc'[t]) = {} /\ \A u \in Threads : u # t => pc'[u] = pc[u]
      BY <1>0, <2>4 DEF LockTyped, SizedAt
    <3> QED BY <2>1, <3>1, RoomFrame
  <2> QED BY <2>2, <2>3, <2>4
<1>4. CASE Gpu \/ UNCHANGED vars
  <2>1. UNCHANGED <<buffers, request, pc>> /\ inflight' \subseteq inflight
    BY <1>4, GpuFrame DEF vars, ctxVars, backendVars, threadVars
  <2> QED BY <2>1, RoomFrame
<1>5. ASSUME NEW t \in Threads, Moves(t) \/ Uses(t) \/ Around(t)
      PROVE  RoomKnown'
  BY <1>1, <1>2, <1>3, <1>5, RoomUses
<1> QED BY <1>4, <1>5, Kinds

(* Nobody has sized anything before the first call.                          *)
LEMMA RoomInit == Init => RoomKnown
  BY DEF Init, CtxInit, RoomKnown, SizedAt

(* Only storing the device, adopting its limits, giving it up and submitting *)
(* work change what is planned under which limits; only an exception skips   *)
(* the adoption.                                                             *)
Adopting == \E t \in Threads : pc[t] = "adopt"

LEMMA LimitsFrame ==
  ASSUME HandleInv, Next
  PROVE  /\ override' = override
         /\ \/ /\ UNCHANGED <<context, limits>> /\ inflight' \subseteq inflight
               /\ Adopting => Adopting' \/ "interrupt" \in Faults
            \/ \E t \in Threads : StoreContext(t) \/ AdoptLimits(t) \/ SubmitWork(t)
            \/ context' = 0 /\ limits' = InitialLimits /\ inflight' = inflight
<1> DEFINE Kept == /\ UNCHANGED <<context, limits>> /\ inflight' \subseteq inflight
                   /\ Adopting => Adopting' \/ "interrupt" \in Faults
<1>0. LockTyped
  BY DEF HandleInv, TypeInv, Locking
<1> USE DEF Goto, Release, Take
<1>1. ASSUME NEW t \in Threads, pc' = pc \/ (pc[t] # "adopt" /\ \E label : pc' = [pc EXCEPT ![t] = label])
      PROVE  Adopting => Adopting'
  BY <1>0, <1>1 DEF LockTyped, Adopting
<1>2. ASSUME NEW t \in Threads, Moves(t)
      PROVE  override' = override /\ Kept
  <2>1. UNCHANGED <<override, context, limits, inflight>>
    BY <1>2, MovesFrame DEF ctxVars, backendVars
  <2>2. pc[t] # "adopt" /\ \E label : pc' = [pc EXCEPT ![t] = label]
    BY <1>2 DEF Moves, EnterUsable, EnterRetired, ReuseContext, OpenFails, Plan, PlanDeclines, KeepBuffer,
       AllocateFails, ReusePipeline, CompileFails, SubmitRefused, SubmitFails, Raises, Fail, Bindings, Inputs
  <2> QED BY <1>1, <2>1, <2>2
<1>3. ASSUME NEW t \in Threads, Uses(t), ~StoreContext(t), ~AdoptLimits(t), ~SubmitWork(t)
      PROVE  override' = override /\ Kept
  <2>1. UNCHANGED <<override, context, limits>> /\ inflight' \subseteq inflight
    BY <1>3 DEF Uses, OpenContext, Open, GrowBuffer, Allocate, FreeOutgrown, Free, WriteInputs, Write,
       CompilePipeline, Compile, WaitSucceeds, FenceSignalled, WaitTimesOut, WaitFails, Fail, ReadOutput,
       backendVars, ctxVars
  <2>2. pc' = pc \/ (pc[t] # "adopt" /\ \E label : pc' = [pc EXCEPT ![t] = label])
    BY <1>3 DEF Uses, OpenContext, GrowBuffer, FreeOutgrown, WriteInputs, CompilePipeline,
       WaitSucceeds, WaitTimesOut, Fail, ReadOutput, threadVars
  <2> QED BY <1>1, <2>1, <2>2
<1>4. ASSUME NEW t \in Threads, Retire(t) \/ Close(t)
      PROVE  override' = override /\ context' = 0 /\ limits' = InitialLimits /\ inflight' = inflight
  <2>1. override' = override /\ \E busy, done : CloseHeld(t, busy, done)
    BY <1>4 DEF Retire, Close
  <2> QED BY <2>1, CloseHeldFacts
<1>5. ASSUME NEW t \in Threads, Around(t), ~Retire(t), ~Close(t)
      PROVE  override' = override /\ Kept
  <2>1. UNCHANGED <<override, context, limits>> /\ inflight' \subseteq inflight
    BY <1>5 DEF Around, Teardown, Closing, CloseStep, ClosePipeline, CloseBuffer, CloseDevice,
       DestroyHandles, Warn, Fallback, StartClose, Interrupt, WaitFails, Call, backendVars, ctxVars
  <2>2. \/ "interrupt" \in Faults
        \/ pc' = pc \/ (pc[t] # "adopt" /\ \E label : pc' = [pc EXCEPT ![t] = label])
    BY <1>5 DEF Around, Teardown, Closing, Warn, Fallback, StartClose, Interrupt, Call
  <2> QED BY <1>1, <2>1, <2>2
<1>6. CASE Gpu
  <2>1. override' = override /\ Kept
    BY <1>6, GpuFrame DEF backendVars, threadVars, Adopting
  <2> QED BY <2>1
<1>7. ASSUME NEW t \in Threads, Moves(t) \/ Uses(t) \/ Around(t),
             ~StoreContext(t), ~AdoptLimits(t), ~SubmitWork(t)
      PROVE  \/ override' = override /\ Kept
             \/ override' = override /\ context' = 0 /\ limits' = InitialLimits /\ inflight' = inflight
  BY <1>2, <1>3, <1>4, <1>5, <1>7
<1>8. ASSUME NEW t \in Threads, StoreContext(t) \/ AdoptLimits(t) \/ SubmitWork(t)
      PROVE  override' = override
  BY <1>8 DEF StoreContext, AdoptLimits, SubmitWork, backendVars
<1> HIDE DEF Kept
<1>9. CASE \E t \in Threads : StoreContext(t) \/ AdoptLimits(t) \/ SubmitWork(t)
  BY <1>8, <1>9
<1>10. CASE ~\E t \in Threads : StoreContext(t) \/ AdoptLimits(t) \/ SubmitWork(t)
  <2>1. ASSUME NEW t \in Threads, Moves(t) \/ Uses(t) \/ Around(t)
        PROVE  \/ override' = override /\ Kept
               \/ override' = override /\ context' = 0 /\ limits' = InitialLimits /\ inflight' = inflight
    BY <1>7, <1>10, <2>1
  <2> QED BY <1>6, <2>1, Kinds DEF Kept
<1> QED BY <1>9, <1>10

(* The limits are those assumed without a device or those of the open one,   *)
(* never of one closed before, because device and limits are forgotten       *)
(* together.                                                                 *)
LimitsAllowed ==
  /\ limits = InitialLimits \/ (context # 0 /\ limits = DeviceLimits(context))
  /\ \A s \in inflight : \E l \in {DeviceLimits(s.pipe.ctx), InitialLimits} : PlannedUnder(s, l)

(* They are those of the open device once no thread has yet to adopt them.   *)
LimitsAdopted ==
  /\ context # 0 /\ ~Adopting => limits = DeviceLimits(context)
  /\ \A s \in inflight : PlannedUnder(s, DeviceLimits(s.pipe.ctx))

(* What a submission adds to the work in flight.                             *)
LEMMA NewWork ==
  ASSUME HandleInv, NEW t \in Threads, SubmitWork(t)
  PROVE  /\ UNCHANGED <<context, limits, override>> /\ context # 0 /\ ~Adopting
         /\ \E s : /\ inflight' = inflight \cup {s}
                   /\ s.pipe.ctx = context /\ PlannedUnder(s, limits)
<1>1. /\ pc[t] = "submit" /\ UNCHANGED <<context, limits, override>>
      /\ \E p \in Cached(t) : Submit(p, buffers, request[t])
  BY DEF SubmitWork, backendVars
<1>2. context # 0
  BY <1>1 DEF HandleInv, TypeInv, HasDevice, Stored, Running
<1>3. ~Adopting
  BY <1>1 DEF Adopting, HandleInv, TypeInv, Locking, LockProtects, Held, Running
<1>4. PICK p \in Cached(t) : Submit(p, buffers, request[t])
  BY <1>1
<1> DEFINE s == [pipe |-> p, bufs |-> buffers, arg |-> request[t]]
<1>5. inflight' = inflight \cup {s}
  BY <1>4 DEF Submit
<1>6. p.ctx = context
  BY DEF HandleInv, HandlesOfOpenDevice, Cached, PipesOf
<1>7. PlannedUnder(s, limits)
  BY DEF PlannedUnder, Cached, PlanOf
<1> QED BY <1>1, <1>2, <1>3, <1>5, <1>6, <1>7

(* Adopting limits is adopting those of the open device.                     *)
LEMMA NewLimits ==
  ASSUME HandleInv, LimitsAllowed, NEW t \in Threads, AdoptLimits(t)
  PROVE  /\ UNCHANGED <<context, inflight, override>> /\ context # 0
         /\ limits' = DeviceLimits(context)
<1>1. /\ pc[t] = "adopt" /\ UNCHANGED <<context, inflight, override>>
      /\ limits' = IF override = Nil THEN Reports[context] ELSE limits
  BY DEF AdoptLimits, ctxVars
<1>2. context # 0
  BY <1>1 DEF HandleInv, TypeInv, HasDevice, Stored, Running
<1> QED BY <1>1, <1>2 DEF LimitsAllowed, DeviceLimits, InitialLimits

(* Storing a device: there was none, so the limits are still the initial.    *)
LEMMA NewDevice ==
  ASSUME HandleInv, NEW t \in Threads, StoreContext(t)
  PROVE  context = 0 /\ UNCHANGED <<limits, inflight, override>> /\ Adopting'
<1>1. context = 0
  BY DEF StoreContext, HandleInv, TypeInv, DeviceInv, InHand
<1>2. UNCHANGED <<limits, inflight, override>> /\ pc' = [pc EXCEPT ![t] = "adopt"]
  BY DEF StoreContext, Goto, ctxVars
<1>3. Adopting'
  BY <1>2 DEF Adopting, HandleInv, TypeInv, Locking, LockTyped
<1> QED BY <1>1, <1>2, <1>3

(* Every step keeps the limits those of the open device or of none.          *)
LEMMA AllowedStep ==
  ASSUME HandleInv, LimitsAllowed, [Next]_vars
  PROVE  LimitsAllowed'
<1> USE DEF LimitsAllowed, InitialLimits, DeviceLimits, PlannedUnder
<1>1. CASE UNCHANGED <<override, context, limits>> /\ inflight' \subseteq inflight
  BY <1>1
<1>2. ASSUME NEW t \in Threads, StoreContext(t)
      PROVE  LimitsAllowed'
  BY <1>2, NewDevice
<1>3. ASSUME NEW t \in Threads, AdoptLimits(t)
      PROVE  LimitsAllowed'
  BY <1>3, NewLimits
<1>4. ASSUME NEW t \in Threads, SubmitWork(t)
      PROVE  LimitsAllowed'
  <2>1. PICK s : inflight' = inflight \cup {s} /\ s.pipe.ctx = context /\ PlannedUnder(s, limits)
    BY <1>4, NewWork
  <2>2. UNCHANGED <<context, limits, override>>
    BY <1>4, NewWork
  <2> QED BY <2>1, <2>2
<1>5. CASE override' = override /\ context' = 0 /\ limits' = InitialLimits /\ inflight' = inflight
  BY <1>5
<1>6. UNCHANGED vars => UNCHANGED <<override, context, limits>> /\ inflight' \subseteq inflight
  BY DEF vars, ctxVars, backendVars
<1> QED BY <1>1, <1>2, <1>3, <1>4, <1>5, <1>6, LimitsFrame

(* Without exceptions every step keeps them those of the open device.        *)
LEMMA AdoptedStep ==
  ASSUME "interrupt" \notin Faults, HandleInv, LimitsAllowed, LimitsAdopted, [Next]_vars
  PROVE  LimitsAdopted'
<1> USE DEF LimitsAdopted, DeviceLimits, PlannedUnder
<1>1. CASE /\ UNCHANGED <<override, context, limits>> /\ inflight' \subseteq inflight
           /\ Adopting => Adopting'
  BY <1>1
<1>2. ASSUME NEW t \in Threads, StoreContext(t)
      PROVE  LimitsAdopted'
  BY <1>2, NewDevice
<1>3. ASSUME NEW t \in Threads, AdoptLimits(t)
      PROVE  LimitsAdopted'
  BY <1>3, NewLimits
<1>4. ASSUME NEW t \in Threads, SubmitWork(t)
      PROVE  LimitsAdopted'
  <2>1. PICK s : inflight' = inflight \cup {s} /\ s.pipe.ctx = context /\ PlannedUnder(s, limits)
    BY <1>4, NewWork
  <2>2. UNCHANGED <<context, limits, override>> /\ context # 0 /\ ~Adopting
    BY <1>4, NewWork
  <2> QED BY <2>1, <2>2
<1>5. CASE override' = override /\ context' = 0 /\ inflight' = inflight
  BY <1>5
<1>6. UNCHANGED vars => /\ UNCHANGED <<override, context, limits>> /\ inflight' \subseteq inflight
                        /\ Adopting => Adopting'
  BY DEF vars, ctxVars, backendVars, threadVars, Adopting
<1> QED BY <1>1, <1>2, <1>3, <1>4, <1>5, <1>6, LimitsFrame

(* Before the first call there is no device and no work.                     *)
LEMMA LimitsInit == Init => LimitsAllowed /\ LimitsAdopted
  BY DEF Init, CtxInit, LimitsAllowed, LimitsAdopted, InitialLimits

(* Whatever exceptions cut calls short, and however the threads interleave   *)
(* with close(), retirement and reopening: work is planned under the limits  *)
(* of its own device or under the floor every device meets (under what the   *)
(* caller fixed, if anything), never under those of a device closed before,  *)
(* and its four buffers are of that device and as large as the call needs.   *)
THEOREM WorkFitsTheDevice == Spec => []NeverBeyondTheDevice
<1>1. LimitsAllowed /\ RoomKnown => NeverBeyondTheDevice
  BY DEF LimitsAllowed, RoomKnown, NeverBeyondTheDevice
<1> QED BY <1>1, HandleInit, HandleStep, LimitsInit, AllowedStep, RoomInit, RoomStep, PTL DEF Spec

(* Without such exceptions the tile shape of what runs on a device is the    *)
(* one for the limits of that very device (_context_held, vkbackend.py:      *)
(* 389-402), or for those the caller fixed; its buffers fit as above.        *)
THEOREM WorkIsSized ==
  ASSUME "interrupt" \notin Faults
  PROVE  Spec => []SizedForTheDevice
<1>1. LimitsAdopted /\ RoomKnown => SizedForTheDevice
  BY DEF LimitsAdopted, RoomKnown, SizedForTheDevice
<1>2. HandleInv /\ LimitsAllowed /\ LimitsAdopted /\ [Next]_vars => LimitsAdopted'
  BY AdoptedStep
<1> QED BY <1>1, <1>2, HandleInit, HandleStep, LimitsInit, AllowedStep, RoomInit, RoomStep, PTL DEF Spec

-----------------------------------------------------------------------------
(* When the answers of the device can be relied on: no exception other than  *)
(* a VulkanError cuts a call short, and no work that was given up on can     *)
(* still run while another thread uses the device, because the GPU either    *)
(* finishes, or is lost for good, or has one caller only.                    *)
Contained ==
  "interrupt" \notin Faults /\ ("timeout" \notin Faults \/ \A t, u \in Threads : t = u)

(* Who answers for the work in flight: the thread that waits for it, or the  *)
(* only one there is, on its way to destroying the device.                   *)
WorkKnown ==
  /\ closing # 0 => \E t \in Threads : pc[t] \in Tearing
  /\ waiting # Nil => \E t \in Threads : pc[t] = "wait"
  /\ \A t \in Threads : pc[t] = "wait" => waiting # Nil /\ inflight \subseteq {waiting}
  /\ inflight # {} =>
       \E t \in Threads : \/ pc[t] = "wait"
                          \/ pc[t] \in {"failed", "teardown"} /\ \A u \in Threads : u = t
  /\ BuffersOutliveWork

(* While a thread uses the device and is not waiting for it, it is idle.     *)
LEMMA Quiet ==
  ASSUME HandleInv, WorkKnown, NEW t \in Threads, pc[t] \in Running \ {"wait"}
  PROVE  inflight = {} /\ waiting = Nil
<1>1. \A u \in Threads : pc[u] = "wait" => u = t
  BY DEF HandleInv, TypeInv, Locking, LockProtects, Held, Running
<1>2. pc[t] # "failed" /\ pc[t] # "teardown"
  BY DEF Running, Bindings, Inputs
<1> QED BY <1>1, <1>2 DEF WorkKnown

(* Closing the device destroys its pipelines first, so nothing is in flight  *)
(* when it frees a buffer or ends.                                           *)
LEMMA ClosingWaits ==
  ASSUME Contained, HandleInv, WorkInv, CloseStep
  PROVE  /\ UNCHANGED <<inflight, waiting>>
         /\ inflight = {} \/ (closing' = closing /\ live' = live)
<1>1. closing # 0
  BY DEF CloseStep, ClosePipeline, CloseBuffer, CloseDevice
<1>2. \A s \in inflight : s.pipe \in PipesOf(closing)
  BY <1>1 DEF Contained, HandleInv, TypeInv, DeviceInv, OwnsOneDevice, Owned, WorkInv, WorkIsWatched,
     PipelinesHaveDevice, PipesOf
<1>3. CASE \E p \in Pipelines : ClosePipeline(p)
  BY <1>3 DEF ClosePipeline, DestroyHandles, live
<1>4. CASE \E b \in Buffers : CloseBuffer(b)
  BY <1>2, <1>4 DEF CloseBuffer
<1>5. CASE CloseDevice
  BY <1>2, <1>5 DEF CloseDevice
<1> QED BY <1>3, <1>4, <1>5 DEF CloseStep

(* Steps that leave the work and the buffers alone.                          *)
LEMMA WorkFrame ==
  ASSUME WorkKnown, LockTyped, UNCHANGED <<closing, waiting, inflight>>, live \subseteq live',
         NEW t \in Threads, NEW label, pc' = [pc EXCEPT ![t] = label],
         pc[t] \notin {"wait", "failed"} \cup Tearing, label # "wait"
  PROVE  WorkKnown'
<1>1. \A u \in Threads : u # t => pc'[u] = pc[u]
  BY DEF LockTyped
<1>2. pc'[t] = label
  BY DEF LockTyped
<1>3. closing' # 0 => \E u \in Threads : pc'[u] \in Tearing
  BY <1>1 DEF WorkKnown
<1>4. waiting' # Nil => \E u \in Threads : pc'[u] = "wait"
  BY <1>1 DEF WorkKnown
<1>5. inflight' # {} =>
        \E u \in Threads : \/ pc'[u] = "wait"
                           \/ pc'[u] \in {"failed", "teardown"} /\ \A v \in Threads : v = u
  BY <1>1 DEF WorkKnown, Tearing
<1> QED BY <1>1, <1>2, <1>3, <1>4, <1>5 DEF WorkKnown, BuffersOutliveWork

(* Steps after which nothing is in flight and nobody waits.                  *)
LEMMA WorkDone ==
  ASSUME WorkKnown, LockTyped, closing' = closing, waiting' = Nil, inflight' = {},
         NEW t \in Threads, NEW label, pc' = [pc EXCEPT ![t] = label],
         pc[t] \notin Tearing, label # "wait", \A u \in Threads : pc[u] = "wait" => u = t
  PROVE  WorkKnown'
<1>1. \A u \in Threads : u # t => pc'[u] = pc[u]
  BY DEF LockTyped
<1>2. pc'[t] = label
  BY DEF LockTyped
<1>3. closing' # 0 => \E u \in Threads : pc'[u] \in Tearing
  BY <1>1 DEF WorkKnown
<1> QED BY <1>1, <1>2, <1>3 DEF WorkKnown, BuffersOutliveWork

(* The work over the steps that use the device.                              *)
LEMMA WorkUses ==
  ASSUME Contained, HandleInv, HandleInv', WorkKnown, NEW t \in Threads, Uses(t)
  PROVE  WorkKnown'
<1>0. LockTyped /\ LockProtects
  BY DEF HandleInv, TypeInv, Locking
<1> USE DEF Goto, Release
<1>1. pc[t] \in Running
  BY DEF Uses, OpenContext, StoreContext, AdoptLimits, GrowBuffer, FreeOutgrown, WriteInputs, CompilePipeline, SubmitWork,
     WaitSucceeds, WaitTimesOut, ReadOutput, Running
<1>2. \A u \in Threads : u # t => pc[u] \notin Held
  BY <1>0, <1>1 DEF LockProtects, Held
<1>3. /\ pc[t] \notin Tearing /\ \A u \in Threads : pc[u] = "wait" => u = t
  BY <1>1, <1>2 DEF Held, Running, Tearing, Bindings, Inputs
<1>4. CASE SubmitWork(t)
  <2>1. pc[t] = "submit" /\ \E p \in Cached(t) : Submit(p, buffers, request[t])
    BY <1>4 DEF SubmitWork
  <2>2. PICK p \in Cached(t) : Submit(p, buffers, request[t])
    BY <2>1
  <2> DEFINE s == [pipe |-> p, bufs |-> buffers, arg |-> request[t]]
  <2>3. inflight = {}
    BY <2>1, Quiet DEF Running
  <2>4. /\ waiting' = s /\ inflight' = {s} /\ closing = 0 /\ closing' = 0 /\ contents' = contents
        /\ \A b \in Bindings : buffers[b] \in live
    BY <2>2, <2>3 DEF Submit, Calling
  <2>5. s.bufs = buffers
    OBVIOUS
  <2>6. s # Nil
    BY <2>4, ContextAssumption DEF HandleInv, TypeInv, CtxTypeOK
  <2> HIDE DEF s
  <2>7. pc' = [pc EXCEPT ![t] = "wait"]
    BY <1>4 DEF SubmitWork
  <2>8. pc'[t] = "wait" /\ \A u \in Threads : pc'[u] = "wait" => u = t
    BY <1>0, <1>2, <2>7 DEF LockTyped, Held, Running
  <2>9. BuffersOutliveWork'
    BY <2>4, <2>5 DEF BuffersOutliveWork, live
  <2> QED BY <2>4, <2>6, <2>8, <2>9 DEF WorkKnown
<1>5. CASE WaitSucceeds(t)
  <2>1. /\ FenceSignalled /\ pc[t] = "wait" /\ pc' = [pc EXCEPT ![t] = "read"]
    BY <1>5 DEF WaitSucceeds
  <2>2. inflight = {}
    BY <2>1 DEF FenceSignalled, Busy, WorkKnown
  <2> QED BY <1>0, <1>3, <2>1, <2>2, WorkDone DEF FenceSignalled
<1>6. CASE WaitTimesOut(t)
  <2>1. /\ pc[t] = "wait" /\ pc' = [pc EXCEPT ![t] = "failed"]
        /\ \E kind \in {"timeout", "lost"} : WaitFails(kind)
    BY <1>6 DEF WaitTimesOut, Fail
  <2>2. PICK kind \in {"timeout", "lost"} : WaitFails(kind)
    BY <2>1
  <2>3. /\ kind \in Faults /\ waiting' = Nil /\ UNCHANGED <<closing, contents>>
        /\ inflight' = IF kind = "lost" THEN {s \in inflight : s.pipe.ctx # waiting.pipe.ctx}
                       ELSE inflight
    BY <2>2 DEF WaitFails
  <2>4. CASE kind = "lost"
    <3>1. inflight' = {}
      BY <2>1, <2>3, <2>4 DEF WorkKnown
    <3> QED BY <1>0, <1>3, <2>1, <2>3, <3>1, WorkDone
  <2>5. CASE kind = "timeout"
    <3>1. \A u \in Threads : u = t
      BY <2>3, <2>5 DEF Contained
    <3>2. pc'[t] = "failed"
      BY <1>0, <2>1 DEF LockTyped
    <3>3. inflight' = inflight /\ live' = live
      BY <2>3, <2>5 DEF live
    <3>4. closing' = 0
      BY <1>3, <2>3, <3>1 DEF WorkKnown
    <3> QED BY <2>3, <3>1, <3>2, <3>3, <3>4 DEF WorkKnown, BuffersOutliveWork
  <2> QED BY <2>2, <2>4, <2>5
<1>7. CASE ~SubmitWork(t) /\ ~WaitSucceeds(t) /\ ~WaitTimesOut(t)
  <2>1. /\ pc[t] \in Running \ {"wait"} /\ UNCHANGED <<closing, waiting, inflight>>
        /\ pc' = pc \/ \E label \in {"store", "adopt", "plan", "compile", "submit", "idle"} : pc' = [pc EXCEPT ![t] = label]
    BY <1>7 DEF Uses, OpenContext, Open, StoreContext, AdoptLimits, GrowBuffer, Allocate, FreeOutgrown, Free, WriteInputs, Write,
       CompilePipeline, Compile, ReadOutput, threadVars, ctxVars, Running, Bindings, Inputs
  <2>2. inflight' = {} /\ waiting' = Nil
    BY <2>1, Quiet
  <2>3. CASE pc' = pc
    BY <2>1, <2>2, <2>3 DEF WorkKnown, BuffersOutliveWork
  <2>4. CASE \E label \in {"store", "adopt", "plan", "compile", "submit", "idle"} : pc' = [pc EXCEPT ![t] = label]
    BY <1>0, <1>3, <2>1, <2>2, <2>4, WorkDone
  <2> QED BY <2>1, <2>3, <2>4
<1> QED BY <1>4, <1>5, <1>6, <1>7

(* The work over a close and a retirement.                                   *)
LEMMA WorkAround ==
  ASSUME Contained, HandleInv, WorkInv, WorkKnown, NEW t \in Threads, Around(t)
  PROVE  WorkKnown'
<1>0. LockTyped /\ LockProtects
  BY DEF HandleInv, TypeInv, Locking
<1> USE DEF Goto, Release
<1>1. ASSUME NEW busy \in Tearing, NEW done \in {"warn", "fallback", "idle"}, CloseHeld(t, busy, done),
             \/ busy = "teardown" /\ pc[t] = "failed"
             \/ pc[t] = "close"
      PROVE  WorkKnown'
  <2>1. /\ lock = Nil /\ UNCHANGED <<contents, inflight, waiting>>
        /\ \/ context = 0 /\ closing' = closing
           \/ context # 0 /\ closing' = context
    BY <1>1, CloseHeldFacts
  <2>2. \A u \in Threads : pc[u] \notin Held
    BY <1>0, <2>1, AttentionAssumption DEF LockProtects
  <2>3. closing = 0 /\ waiting = Nil
    BY <2>2 DEF WorkKnown, Held, Running
  <2>4. inflight # {} => /\ pc[t] = "failed" /\ \A u \in Threads : u = t
                         /\ context # 0
    <3>1. inflight # {} => pc[t] = "failed" /\ \A u \in Threads : u = t
      BY <2>2 DEF WorkKnown, Held, Running, Tearing
    <3>2. InHand = {}
      BY <2>2 DEF InHand, Held, Running
    <3>3. \A s \in inflight : s.pipe.ctx \in {context, closing} \ {0}
      BY <3>2 DEF Contained, HandleInv, TypeInv, DeviceInv, OwnsOneDevice, Owned, WorkInv, WorkIsWatched,
         PipelinesHaveDevice
    <3> QED BY <2>3, <3>1, <3>3
  <2>5. pc' = [pc EXCEPT ![t] = IF context = 0 THEN done ELSE busy]
    BY <1>1 DEF CloseHeld, Take
  <2>6. pc'[t] = (IF context = 0 THEN done ELSE busy) /\ \A u \in Threads : u # t => pc'[u] = pc[u]
    BY <1>0, <2>5 DEF LockTyped
  <2>7. \A u \in Threads : pc'[u] # "wait"
    BY <2>2, <2>6 DEF Held, Running, Tearing
  <2>8. closing' # 0 => pc'[t] \in Tearing
    BY <2>1, <2>3, <2>6
  <2>9. inflight' # {} => pc'[t] \in {"failed", "teardown"} /\ \A u \in Threads : u = t
    BY <1>1, <2>1, <2>4, <2>6
  <2>10. BuffersOutliveWork'
    BY <2>1 DEF WorkKnown, BuffersOutliveWork, live
  <2> QED BY <2>1, <2>3, <2>7, <2>8, <2>9, <2>10 DEF WorkKnown
<1>2. CASE Retire(t)
  <2>1. pc[t] = "failed" /\ \E done \in {"warn", "fallback"} : CloseHeld(t, "teardown", done)
    BY <1>2 DEF Retire, AfterTeardown
  <2> QED BY <1>1, <2>1 DEF Tearing
<1>3. CASE Close(t)
  BY <1>1, <1>3 DEF Close, Tearing
<1>4. CASE Teardown(t) \/ Closing(t)
  <2>1. /\ CloseStep /\ pc[t] \in Tearing
        /\ IF closing' = 0
             THEN \E label \in {"warn", "fallback", "idle"} : pc' = [pc EXCEPT ![t] = label]
             ELSE pc' = pc
    BY <1>4 DEF Teardown, Closing, AfterTeardown, Tearing
  <2>2. /\ UNCHANGED <<inflight, waiting>>
        /\ inflight = {} \/ (closing' = closing /\ live' = live)
    BY <2>1, ClosingWaits
  <2>3. \A u \in Threads : pc[u] # "wait"
    BY <1>0, <2>1 DEF LockProtects, Held, Running, Tearing
  <2>4. waiting = Nil /\ closing # 0
    BY <2>1, <2>3 DEF WorkKnown, CloseStep, ClosePipeline, CloseBuffer, CloseDevice
  <2>5. BuffersOutliveWork'
    BY <2>2 DEF WorkKnown, BuffersOutliveWork
  <2>6. CASE closing' = 0
    <3>1. inflight' = {}
      BY <2>2, <2>4, <2>6
    <3>2. \A u \in Threads : pc'[u] # "wait"
      BY <1>0, <2>1, <2>3, <2>6 DEF LockTyped
    <3> QED BY <2>2, <2>4, <2>5, <2>6, <3>1, <3>2 DEF WorkKnown
  <2>7. CASE closing' # 0
    BY <2>1, <2>2, <2>4, <2>5, <2>7 DEF WorkKnown
  <2> QED BY <2>6, <2>7
<1>5. CASE Warn(t) \/ Fallback(t) \/ StartClose(t) \/ \E r \in Data : Call(t, r)
  <2>1. /\ UNCHANGED <<closing, waiting, inflight, contents>> /\ pc[t] \in {"warn", "fallback", "idle"}
        /\ \E label \in {"fallback", "idle", "close", "enter"} : pc' = [pc EXCEPT ![t] = label]
    BY <1>5 DEF Warn, Fallback, StartClose, Call, ctxVars
  <2>2. live' = live
    BY <2>1 DEF live
  <2> QED BY <1>0, <2>1, <2>2, WorkFrame DEF Tearing
<1>6. ~Interrupt(t)
  BY DEF Contained, Interrupt
<1> QED BY <1>2, <1>3, <1>4, <1>5, <1>6 DEF Around

(* Every step keeps somebody answerable for the work in flight, and every    *)
(* buffer it uses allocated.                                                 *)
LEMMA WorkKnownStep ==
  ASSUME Contained, HandleInv, WorkInv, WorkKnown, [Next]_vars
  PROVE  WorkKnown'
<1>0. HandleInv' /\ LockTyped
  BY HandleStep DEF HandleInv, TypeInv, Locking
<1>1. ASSUME NEW t \in Threads, Moves(t)
      PROVE  WorkKnown'
  <2>1. UNCHANGED <<closing, waiting, inflight, contents>>
    BY <1>1, MovesFrame DEF ctxVars
  <2>2. /\ pc[t] \notin {"wait", "failed"} \cup Tearing
        /\ \E label : label # "wait" /\ pc' = [pc EXCEPT ![t] = label]
    BY <1>1 DEF Moves, EnterUsable, EnterRetired, ReuseContext, OpenFails, Plan, PlanDeclines, KeepBuffer,
       AllocateFails, ReusePipeline, CompileFails, SubmitRefused, SubmitFails, Raises, Fail, AfterBinding,
       Goto, Take, Release, Tearing, Bindings, Inputs
  <2>3. live' = live
    BY <2>1 DEF live
  <2> QED BY <1>0, <2>1, <2>2, <2>3, WorkFrame
<1>2. CASE Gpu
  <2>1. PICK s \in inflight : Execute(s)
    BY <1>2 DEF Gpu, Device
  <2>2. UNCHANGED <<closing, waiting, pc>> /\ inflight' \subseteq inflight
    BY <1>2, GpuFrame DEF threadVars
  <2>3. s.arg \in Data
    BY DEF HandleInv, TypeInv, CtxTypeOK, Submissions
  <2>4. live \subseteq live'
    BY <2>1, <2>3, ContextAssumption DEF Execute, live, HandleInv, TypeInv, CtxTypeOK
  <2> QED BY <2>2, <2>4 DEF WorkKnown, BuffersOutliveWork
<1>3. CASE UNCHANGED vars
  BY <1>3 DEF vars, ctxVars, threadVars, WorkKnown, BuffersOutliveWork, live
<1> QED BY <1>0, <1>1, <1>2, <1>3, Kinds, WorkUses, WorkAround

(* Nothing is in flight before the first call.                               *)
LEMMA WorkKnownInit == Init => WorkKnown
  BY DEF Init, CtxInit, WorkKnown, BuffersOutliveWork

(* "The command buffer and every object it references must not be reset or   *)
(* destroyed from here" (vkcompute.py:1191): of the buffers too, when the    *)
(* device is left alone until the work given up on is drained.               *)
THEOREM BuffersSafe ==
  ASSUME Contained
  PROVE  Spec => []BuffersOutliveWork
<1>1. Init => HandleInv /\ WorkInv /\ WorkKnown
  BY HandleInit, CtxInitHolds, WorkKnownInit DEF Init
<1>2. HandleInv /\ WorkInv /\ WorkKnown /\ [Next]_vars => HandleInv' /\ WorkInv' /\ WorkKnown'
  <2> SUFFICES ASSUME HandleInv, WorkInv, WorkKnown, [Next]_vars
               PROVE  HandleInv' /\ WorkInv' /\ WorkKnown'
    OBVIOUS
  <2>1. HandleInv'
    BY HandleStep
  <2>2. WorkInv'
    BY StepsAreApiCalls, WorkStep DEF HandleInv, TypeInv, Contained
  <2>3. WorkKnown'
    BY WorkKnownStep
  <2> QED BY <2>1, <2>2, <2>3
<1>3. WorkKnown => BuffersOutliveWork
  BY DEF WorkKnown
<1> QED BY <1>1, <1>2, <1>3, PTL DEF Spec

-----------------------------------------------------------------------------
(* What the buffers hold while a call runs: its own inputs once they are     *)
(* written, its own output once its work is done.                            *)
Loaded(t) ==
  /\ pc[t] = "wait" => waiting.bufs = buffers /\ waiting.arg = request[t]
  /\ pc[t] \in {"compile", "submit", "wait"} =>
       \A i \in Inputs : buffers[i] # Nil /\ contents[buffers[i]] = request[t]
  /\ pc[t] = "read" \/ (pc[t] = "wait" /\ inflight = {}) =>
       contents[buffers["output"]] = request[t]

DataKnown == \A t \in Threads : Loaded(t)

(* No thread has answered the call it is in, and a call answered was         *)
(* answered with the attention of its own inputs.                            *)
AnswersKnown ==
  \A t \in Threads : /\ pc[t] \in InCall => answer[t] = Nil
                     /\ answer[t] # Nil => answer[t] = request[t]

(* Nothing is claimed of the buffers of a thread that has not reached them.  *)
LEMMA Unloaded ==
  ASSUME NEW t \in Threads, pc[t] \notin {"compile", "submit", "wait", "read"}
  PROVE  Loaded(t)
  BY DEF Loaded

(* Steps that leave alone what the buffers hold.                             *)
LEMMA DataFrame ==
  ASSUME DataKnown, LockTyped, UNCHANGED <<buffers, contents, waiting, inflight>>,
         NEW t \in Threads, NEW label, pc' = [pc EXCEPT ![t] = label],
         \A u \in Threads \ {t} : request'[u] = request[u],
         \/ label \notin {"compile", "submit", "wait", "read"}
         \/ pc[t] = "compile" /\ label = "submit" /\ request' = request
  PROVE  DataKnown'
<1>1. /\ pc'[t] = label /\ \A u \in Threads \ {t} : pc'[u] = pc[u]
  BY DEF LockTyped
<1>2. Loaded(t)'
  BY <1>1 DEF DataKnown, Loaded
<1>3. \A u \in Threads \ {t} : Loaded(u)'
  BY <1>1 DEF DataKnown, Loaded
<1> QED BY <1>2, <1>3 DEF DataKnown

(* A thread that uses the device is the only one that may rely on the        *)
(* buffers.                                                                  *)
LEMMA OnlyUser ==
  ASSUME HandleInv, NEW t \in Threads, pc[t] \in Held,
         \A u \in Threads \ {t} : pc'[u] = pc[u], Loaded(t)'
  PROVE  DataKnown'
<1>1. \A u \in Threads \ {t} : pc'[u] \notin Held
  BY DEF HandleInv, TypeInv, Locking, LockProtects
<1>2. \A u \in Threads \ {t} : Loaded(u)'
  BY <1>1 DEF Loaded, Held, Running
<1> QED BY <1>2 DEF DataKnown

(* The buffers hold what the call needs over the steps that use the device.  *)
LEMMA DataUses ==
  ASSUME HandleInv, WorkKnown, DataKnown, NEW t \in Threads, Uses(t)
  PROVE  DataKnown'
<1>0. LockTyped /\ Loaded(t)
  BY DEF HandleInv, TypeInv, Locking, DataKnown
<1> USE DEF Goto, Release
<1>1. pc[t] \in Held /\ \A u \in Threads \ {t} : pc'[u] = pc[u]
  BY <1>0 DEF Uses, OpenContext, StoreContext, AdoptLimits, GrowBuffer, FreeOutgrown, WriteInputs, CompilePipeline, SubmitWork,
     WaitSucceeds, WaitTimesOut, Fail, ReadOutput, Held, Running, threadVars, LockTyped
<1> SUFFICES Loaded(t)'
  BY <1>1, OnlyUser
<1>2. CASE OpenContext(t) \/ StoreContext(t) \/ AdoptLimits(t) \/ WaitTimesOut(t) \/ ReadOutput(t)
  <2>1. \E label \in {"store", "adopt", "plan", "failed", "idle"} : pc' = [pc EXCEPT ![t] = label]
    BY <1>2 DEF OpenContext, StoreContext, AdoptLimits, WaitTimesOut, Fail, ReadOutput
  <2> QED BY <1>0, <2>1 DEF Loaded, LockTyped
<1>3. CASE \E b \in Bindings : GrowBuffer(t, b) \/ FreeOutgrown(t, b)
  <2>1. pc' = pc /\ pc[t] \in Bindings
    BY <1>3 DEF GrowBuffer, FreeOutgrown, threadVars
  <2> QED BY <2>1 DEF Loaded, Bindings, Inputs
<1>4. CASE WriteInputs(t)
  <2>1. /\ Write({buffers[b] : b \in Inputs}, request[t])
        /\ pc' = [pc EXCEPT ![t] = "compile"] /\ UNCHANGED <<buffers, request>>
    BY <1>4 DEF WriteInputs, backendVars
  <2>2. \A i \in Inputs : buffers[i] \in Buffers /\ contents'[buffers[i]] = request[t]
    BY <2>1 DEF Write, live
  <2>3. \A i \in Inputs : buffers'[i] # Nil /\ contents'[buffers'[i]] = request'[t]
    BY <2>1, <2>2, ContextAssumption
  <2> QED BY <1>0, <2>1, <2>3 DEF Loaded, LockTyped
<1>5. CASE CompilePipeline(t)
  <2>1. /\ pc[t] = "compile" /\ pc' = [pc EXCEPT ![t] = "submit"]
        /\ UNCHANGED <<buffers, contents, request>>
    BY <1>5 DEF CompilePipeline, Compile
  <2> QED BY <1>0, <2>1 DEF Loaded, LockTyped
<1>6. CASE SubmitWork(t)
  <2>1. /\ pc[t] = "submit" /\ pc' = [pc EXCEPT ![t] = "wait"] /\ UNCHANGED <<buffers, request>>
        /\ \E p \in Cached(t) : Submit(p, buffers, request[t])
    BY <1>6 DEF SubmitWork, backendVars
  <2>2. /\ contents' = contents /\ waiting'.bufs = buffers /\ waiting'.arg = request[t]
        /\ waiting' \in inflight'
    BY <2>1 DEF Submit
  <2> QED BY <1>0, <2>1, <2>2 DEF Loaded, LockTyped
<1>7. CASE WaitSucceeds(t)
  <2>1. /\ FenceSignalled /\ pc[t] = "wait" /\ pc' = [pc EXCEPT ![t] = "read"]
        /\ UNCHANGED <<buffers, request>>
    BY <1>7 DEF WaitSucceeds, backendVars
  <2>2. inflight = {} /\ contents' = contents
    BY <2>1 DEF FenceSignalled, Busy, WorkKnown
  <2> QED BY <1>0, <2>1, <2>2 DEF Loaded, LockTyped
<1> QED BY <1>2, <1>3, <1>4, <1>5, <1>6, <1>7 DEF Uses

(* ... over a close, a retirement and the steps outside the lock ...         *)
LEMMA DataAround ==
  ASSUME Contained, HandleInv, DataKnown, NEW t \in Threads, Around(t)
  PROVE  DataKnown'
<1>0. LockTyped /\ LockProtects
  BY DEF HandleInv, TypeInv, Locking
<1> USE DEF Goto, Release, Take
<1>1. CASE Retire(t) \/ Close(t)
  <2>1. \E busy \in {"teardown", "closing"}, done \in {"warn", "fallback", "idle"} :
          CloseHeld(t, busy, done)
    BY <1>1 DEF Retire, Close, AfterTeardown
  <2>2. \A u \in Threads : pc[u] \notin Running
    BY <1>0, <2>1, AttentionAssumption DEF CloseHeld, LockProtects, Held
  <2>3. \E label \in {"teardown", "closing", "warn", "fallback", "idle"} : pc' = [pc EXCEPT ![t] = label]
    BY <2>1 DEF CloseHeld
  <2>4. \A u \in Threads : pc'[u] \notin {"compile", "submit", "wait", "read"}
    BY <1>0, <2>2, <2>3 DEF LockTyped, Running
  <2> QED BY <2>4 DEF DataKnown, Loaded
<1>2. CASE Teardown(t) \/ Closing(t)
  <2>1. /\ pc[t] \in Tearing
        /\ pc' = pc \/ \E label \in {"warn", "fallback", "idle"} : pc' = [pc EXCEPT ![t] = label]
    BY <1>2 DEF Teardown, Closing, AfterTeardown, Tearing
  <2>2. Loaded(t)'
    BY <1>0, <2>1 DEF Loaded, LockTyped, Tearing
  <2>3. \A u \in Threads \ {t} : pc'[u] = pc[u]
    BY <1>0, <2>1 DEF LockTyped
  <2> QED BY <2>1, <2>2, <2>3, OnlyUser DEF Held
<1>3. CASE Warn(t) \/ Fallback(t) \/ StartClose(t) \/ \E r \in Data : Call(t, r)
  <2>1. /\ UNCHANGED <<buffers, contents, waiting, inflight>>
        /\ \E label \in {"fallback", "idle", "close", "enter"} : pc' = [pc EXCEPT ![t] = label]
    BY <1>3 DEF Warn, Fallback, StartClose, Call, ctxVars, backendVars
  <2>2. \A u \in Threads \ {t} : request'[u] = request[u]
    BY <1>3 DEF Warn, Fallback, StartClose, Call, HandleInv, TypeInv, ThreadTyped
  <2> QED BY <1>0, <2>1, <2>2, DataFrame
<1>4. ~Interrupt(t)
  BY DEF Contained, Interrupt
<1> QED BY <1>1, <1>2, <1>3, <1>4 DEF Around

(* ... and over the work of the GPU, which overwrites the output only.       *)
LEMMA DataGpu ==
  ASSUME HandleInv, WorkKnown, DataKnown, Gpu
  PROVE  DataKnown'
<1>0. LockProtects
  BY DEF HandleInv, TypeInv, Locking
<1>1. PICK s \in inflight : Execute(s)
  BY DEF Gpu, Device
<1>2. UNCHANGED <<pc, request, buffers, waiting>>
  BY <1>1 DEF Gpu, Execute, threadVars, backendVars
<1>3. PICK w \in Threads : \/ pc[w] = "wait"
                           \/ pc[w] \in {"failed", "teardown"} /\ \A u \in Threads : u = w
  BY <1>1 DEF WorkKnown
<1>4. \A u \in Threads \ {w} : pc[u] \notin {"compile", "submit", "wait", "read"}
  BY <1>0, <1>3 DEF LockProtects, Held, Running
<1> SUFFICES Loaded(w)'
  BY <1>2, <1>4 DEF DataKnown, Loaded
<1>5. CASE pc[w] # "wait"
  BY <1>2, <1>3, <1>5 DEF Loaded
<1>6. CASE pc[w] = "wait"
  <2>1. /\ s = waiting /\ s.bufs = buffers /\ s.arg = request[w]
        /\ \A i \in Inputs : buffers[i] # Nil /\ contents[buffers[i]] = request[w]
    BY <1>1, <1>6 DEF WorkKnown, DataKnown, Loaded
  <2>2. buffers["output"] \in live /\ buffers["output"] \in Buffers
    BY <1>1, <2>1 DEF WorkKnown, BuffersOutliveWork, Bindings, live
  <2>3. /\ buffers["output"] # Nil
        /\ \A i \in Inputs : buffers[i] # buffers["output"]
    <3>1. buffers["output"] # Nil
      BY <2>2, ContextAssumption
    <3> QED BY <2>1, <3>1 DEF HandleInv, BuffersApart, Bindings, Inputs
  <2>4. contents' = [contents EXCEPT ![buffers["output"]] = request[w]]
    BY <1>1, <2>1, <2>2 DEF Execute
  <2>5. contents \in [Buffers -> Data \cup {Garbage, Absent}]
    BY DEF HandleInv, TypeInv, CtxTypeOK
  <2>6. /\ contents'[buffers["output"]] = request[w]
        /\ \A i \in Inputs : contents'[buffers[i]] = contents[buffers[i]]
    <3>1. \A i \in Inputs : buffers[i] \in Buffers
      BY <2>1 DEF HandleInv, TypeInv, BackendTyped, Bindings
    <3> QED BY <2>2, <2>3, <2>4, <2>5, <3>1
  <2> QED BY <1>2, <1>6, <2>1, <2>6 DEF Loaded
<1> QED BY <1>5, <1>6

(* Every step keeps what the buffers hold.                                   *)
LEMMA DataStep ==
  ASSUME Contained, HandleInv, WorkKnown, DataKnown, [Next]_vars
  PROVE  DataKnown'
<1>0. LockTyped
  BY DEF HandleInv, TypeInv, Locking
<1>1. ASSUME NEW t \in Threads, Moves(t)
      PROVE  DataKnown'
  <2>1. UNCHANGED <<contents, waiting, inflight, buffers, request>>
    BY <1>1, MovesFrame DEF ctxVars, backendVars
  <2>2. \E label : /\ pc' = [pc EXCEPT ![t] = label]
                   /\ \/ label \notin {"compile", "submit", "wait", "read"}
                      \/ pc[t] = "compile" /\ label = "submit"
    BY <1>1 DEF Moves, EnterUsable, EnterRetired, ReuseContext, OpenFails, Plan, PlanDeclines, KeepBuffer,
       AllocateFails, ReusePipeline, CompileFails, SubmitRefused, SubmitFails, Raises, Fail, AfterBinding,
       Goto, Take, Release, Bindings, Inputs
  <2> QED BY <1>0, <2>1, <2>2, DataFrame
<1>2. CASE UNCHANGED vars
  BY <1>2 DEF vars, ctxVars, backendVars, threadVars, DataKnown, Loaded
<1> QED BY <1>1, <1>2, Kinds, DataUses, DataAround, DataGpu

(* Steps that answer nobody and start no call.                               *)
LEMMA AnswersFrame ==
  ASSUME AnswersKnown, LockTyped, UNCHANGED <<request, answer>>,
         NEW t \in Threads, NEW label, pc' = [pc EXCEPT ![t] = label],
         label \in InCall => pc[t] \in InCall
  PROVE  AnswersKnown'
  BY DEF AnswersKnown, LockTyped

(* The device and the CPU answer a call with the attention of its inputs.    *)
LEMMA RightAnswer ==
  ASSUME TypeInv, DataKnown, NEW t \in Threads, ReadOutput(t) \/ Fallback(t)
  PROVE  /\ answer' = [answer EXCEPT ![t] = request[t]] /\ request' = request
         /\ pc' = [pc EXCEPT ![t] = "idle"] /\ pc[t] \in InCall /\ request[t] \in Data
         /\ usable' = usable
         /\ (usable /\ deviceCalls' = deviceCalls + 1) \/ deviceCalls' = deviceCalls
<1>1. CASE ReadOutput(t)
  <2>1. pc[t] = "read"
    BY <1>1 DEF ReadOutput
  <2>2. contents[buffers["output"]] = request[t] /\ request[t] \in Data /\ usable
    BY <2>1 DEF DataKnown, Loaded, TypeInv, CallInv, Locking, LockProtects,
       InCall, Held, Running
  <2> QED BY <1>1, <2>1, <2>2 DEF ReadOutput, Release, Goto, InCall, Held, Running
<1>2. CASE Fallback(t)
  BY <1>2 DEF Fallback, Goto, TypeInv, CallInv, InCall, Held, Running, Tearing, Outside, Bindings, Inputs, backendVars
<1> QED BY <1>1, <1>2

(* The steps of a call neither start one nor leave it answered.              *)
LEMMA Midway ==
  ASSUME Contained, TypeInv, NEW t \in Threads, Moves(t) \/ Uses(t) \/ Around(t),
         ~ReadOutput(t), ~Fallback(t), \A r \in Data : ~Call(t, r)
  PROVE  /\ UNCHANGED <<request, answer, deviceCalls>>
         /\ \/ pc' = pc
            \/ \E label \in Held \cup Outside :
                  pc' = [pc EXCEPT ![t] = label] /\ (label \in InCall <=> pc[t] \in InCall)
<1> USE DEF Goto, Take, Release, InCall, Held, Running, Tearing, Outside, Bindings, Inputs
<1>1. CASE Moves(t)
  <2>1. UNCHANGED <<request, answer, deviceCalls>>
    BY <1>1, MovesFrame DEF backendVars
  <2>2. \E label \in Held \cup Outside :
           pc' = [pc EXCEPT ![t] = label] /\ label \in InCall /\ pc[t] \in InCall
    BY <1>1 DEF Moves, EnterUsable, EnterRetired, ReuseContext, OpenFails, Plan, PlanDeclines, KeepBuffer,
       AllocateFails, ReusePipeline, CompileFails, SubmitRefused, SubmitFails, Raises, Fail, AfterBinding
  <2> QED BY <2>1, <2>2
<1>2. CASE Uses(t)
  BY <1>2 DEF Uses, OpenContext, StoreContext, AdoptLimits, GrowBuffer, FreeOutgrown, WriteInputs, CompilePipeline, SubmitWork,
     WaitSucceeds, WaitTimesOut, Fail, backendVars, threadVars
<1>3. CASE Retire(t)
  <2>1. pc[t] = "failed" /\ UNCHANGED <<request, answer, deviceCalls>>
    BY <1>3 DEF Retire
  <2>2. \E label \in {"teardown", "warn", "fallback"} : pc' = [pc EXCEPT ![t] = label]
    BY <1>3 DEF Retire, CloseHeld, AfterTeardown
  <2> QED BY <2>1, <2>2
<1>4. CASE Close(t)
  BY <1>4 DEF Close, CloseHeld
<1>5. CASE Teardown(t)
  BY <1>5 DEF Teardown, AfterTeardown, backendVars
<1>6. CASE Closing(t) \/ Warn(t) \/ StartClose(t)
  BY <1>6 DEF Closing, Warn, StartClose, backendVars
<1>7. ~Interrupt(t)
  BY DEF Contained, Interrupt
<1> QED BY <1>1, <1>2, <1>3, <1>4, <1>5, <1>6, <1>7 DEF Around

(* Every step keeps the answers those of their calls.                        *)
LEMMA AnswersStep ==
  ASSUME Contained, TypeInv, DataKnown, AnswersKnown, [Next]_vars
  PROVE  AnswersKnown'
<1>0. /\ LockTyped /\ request \in [Threads -> Data \cup {Nil}]
      /\ answer \in [Threads -> Data \cup {Garbage, Absent, Nil}]
  BY DEF TypeInv, Locking, ThreadTyped
<1>1. ASSUME NEW t \in Threads, ReadOutput(t) \/ Fallback(t)
      PROVE  AnswersKnown'
  <2>1. /\ answer' = [answer EXCEPT ![t] = request[t]] /\ request' = request
        /\ pc' = [pc EXCEPT ![t] = "idle"]
    BY <1>1, RightAnswer
  <2> QED BY <1>0, <2>1 DEF AnswersKnown, LockTyped, InCall
<1>2. ASSUME NEW t \in Threads, NEW r \in Data, Call(t, r)
      PROVE  AnswersKnown'
  <2>1. /\ answer' = [answer EXCEPT ![t] = Nil] /\ request' = [request EXCEPT ![t] = r]
        /\ \E label : pc' = [pc EXCEPT ![t] = label]
    BY <1>2 DEF Call, Goto
  <2> QED BY <1>0, <2>1 DEF AnswersKnown, LockTyped
<1>3. ASSUME NEW t \in Threads, Moves(t) \/ Uses(t) \/ Around(t),
             ~ReadOutput(t), ~Fallback(t), \A r \in Data : ~Call(t, r)
      PROVE  AnswersKnown'
  BY <1>0, <1>3, Midway, AnswersFrame DEF AnswersKnown
<1>4. CASE Gpu \/ UNCHANGED vars
  BY <1>4 DEF Gpu, vars, threadVars, AnswersKnown
<1> QED BY <1>1, <1>2, <1>3, <1>4, Kinds

(* Why the answers are right: the device is used by one call at a time, on   *)
(* buffers that are its own, and nothing in flight is not its own either.    *)
AnswerInv == HandleInv /\ WorkInv /\ WorkKnown /\ DataKnown /\ AnswersKnown

(* Nothing was asked or answered at first.                                   *)
LEMMA AnswerInit == Init => AnswerInv
<1>1. Init => DataKnown
  BY DEF Init, DataKnown, Loaded
<1>2. Init => AnswersKnown
  BY DEF Init, AnswersKnown, InCall
<1> QED BY <1>1, <1>2, HandleInit, CtxInitHolds, WorkKnownInit DEF Init, AnswerInv

(* Every step keeps it, where the work given up on cannot run late.          *)
LEMMA AnswerStep ==
  ASSUME Contained, AnswerInv, [Next]_vars
  PROVE  AnswerInv'
<1>1. HandleInv' /\ WorkKnown' /\ DataKnown' /\ AnswersKnown'
  BY HandleStep, WorkKnownStep, DataStep, AnswersStep DEF AnswerInv, HandleInv
<1>2. WorkInv'
  BY StepsAreApiCalls, WorkStep DEF AnswerInv, HandleInv, TypeInv, Contained
<1> QED BY <1>1, <1>2 DEF AnswerInv

(* "A wedged GPU degrades throughput, not correctness" (vkbackend.py:156):   *)
(* whatever the threads, the device and the caller's close()s do, a call is  *)
(* answered with the attention of its own inputs, by the device or by the    *)
(* CPU.  Without the hypothesis it is false: TLC finds the late dispatch     *)
(* that another thread reads.                                                *)
THEOREM RightAnswers ==
  ASSUME Contained
  PROVE  Spec => []AnswersAreRight
<1>1. AnswerInv => AnswersAreRight
  BY DEF AnswerInv, AnswersKnown, AnswersAreRight
<1>2. AnswerInv /\ [Next]_vars => AnswerInv'
  BY AnswerStep
<1> QED BY <1>1, <1>2, AnswerInit, PTL DEF Spec

-----------------------------------------------------------------------------
(* The call each thread is in, as the service sees it.                       *)
CallOf == [t \in Threads |-> IF pc[t] \in {"idle", "close", "closing"} THEN Nil ELSE request[t]]

(* A thread is in a call exactly when the service says so.                   *)
LEMMA CallOfThread ==
  ASSUME TypeInv, NEW t \in Threads
  PROVE  /\ pc[t] \in InCall <=> CallOf[t] # Nil
         /\ pc[t] \in InCall => CallOf[t] = request[t]
  BY ContextAssumption DEF TypeInv, CallInv, Locking, LockTyped, InCall, CallOf

(* A step that leaves a thread in its call, or outside one.                  *)
LEMMA SameCall ==
  ASSUME LockTyped, request' = request, NEW t \in Threads, NEW label \in Held \cup Outside,
         pc' = [pc EXCEPT ![t] = label], label \in InCall <=> pc[t] \in InCall
  PROVE  CallOf' = CallOf
<1>1. pc'[t] \in InCall <=> pc[t] \in InCall
  BY DEF LockTyped
<1>2. \A u \in Threads : (pc'[u] \in InCall <=> pc[u] \in InCall)
  BY <1>1 DEF LockTyped
<1>3. \A u \in Threads : pc[u] \in Held \cup Outside /\ pc'[u] \in Held \cup Outside
  BY DEF LockTyped
<1> QED BY <1>2, <1>3 DEF InCall, CallOf

(* Answering is what the service calls answering.                            *)
LEMMA AnswerIsService ==
  ASSUME TypeInv, DataKnown, NEW t \in Threads, ReadOutput(t) \/ Fallback(t)
  PROVE  Service!Answer(t)
<1>1. /\ answer' = [answer EXCEPT ![t] = request[t]] /\ request' = request
      /\ pc' = [pc EXCEPT ![t] = "idle"] /\ pc[t] \in InCall /\ usable' = usable
      /\ (usable /\ deviceCalls' = deviceCalls + 1) \/ deviceCalls' = deviceCalls
  BY RightAnswer
<1>2. CallOf[t] # Nil /\ CallOf[t] = request[t]
  BY <1>1, CallOfThread
<1>3. CallOf' = [CallOf EXCEPT ![t] = Nil]
  BY <1>1 DEF TypeInv, Locking, LockTyped, CallOf
<1> QED BY <1>1, <1>2, <1>3 DEF Service!Answer, CallOf

(* So is starting a call.                                                    *)
LEMMA CallIsService ==
  ASSUME TypeInv, NEW t \in Threads, NEW r \in Data, Call(t, r)
  PROVE  Service!Call(t, r)
<1>1. /\ pc[t] = "idle" /\ request' = [request EXCEPT ![t] = r]
      /\ answer' = [answer EXCEPT ![t] = Nil] /\ UNCHANGED <<usable, deviceCalls>>
      /\ \E label \in {"enter", "fallback"} : pc' = [pc EXCEPT ![t] = label]
  BY DEF Call, Goto, backendVars
<1>2. CallOf[t] = Nil
  BY <1>1 DEF CallOf
<1>3. CallOf' = [CallOf EXCEPT ![t] = r]
  BY <1>1 DEF TypeInv, Locking, LockTyped, ThreadTyped, CallOf
<1> QED BY <1>1, <1>2, <1>3 DEF Service!Call, CallOf

(* The other steps change nothing the service shows, but for the one that    *)
(* retires the device.                                                       *)
LEMMA MidwayIsService ==
  ASSUME Contained, TypeInv, NEW t \in Threads, Moves(t) \/ Uses(t) \/ Around(t),
         ~ReadOutput(t), ~Fallback(t), \A r \in Data : ~Call(t, r)
  PROVE  Service!GiveUp \/ UNCHANGED Service!vars
<1>1. UNCHANGED <<CallOf, answer, deviceCalls>>
  <2>1. CASE pc' = pc
    BY <2>1, Midway DEF CallOf
  <2>2. LockTyped
    BY DEF TypeInv, Locking
  <2> QED BY <2>1, <2>2, Midway, SameCall
<1>2. usable' = usable \/ Retire(t)
  BY MovesFrame DEF Moves, Uses, OpenContext, StoreContext, AdoptLimits, GrowBuffer, FreeOutgrown, WriteInputs, CompilePipeline,
     SubmitWork, WaitSucceeds, WaitTimesOut, Fail, Around, Teardown, Warn, StartClose, Close, Closing,
     Interrupt, backendVars
<1>3. CASE usable' = usable
  BY <1>1, <1>3 DEF Service!vars, CallOf
<1>4. CASE usable' # usable
  <2>1. usable /\ usable' = FALSE
    BY <1>2, <1>4 DEF Retire, TypeInv, Locking, LockTyped
  <2> QED BY <1>1, <2>1 DEF Service!GiveUp, CallOf
<1> QED BY <1>3, <1>4

(* The backend does what SdpaService does and nothing else: a call is        *)
(* answered once, with the attention of its own inputs, and the device,      *)
(* once given up on, answers no more calls.  (That every call is answered    *)
(* needs fairness, and stays with TLC.)                                      *)
THEOREM ServesAsPromised ==
  ASSUME Contained
  PROVE  Spec => Service!Init /\ [][Service!Next]_(Service!vars)
<1>1. Init => AnswerInv /\ Service!Init
  <2>1. Init => Service!Init
    BY DEF Init, Service!Init
  <2> QED BY <2>1, AnswerInit
<1>2. AnswerInv /\ [Next]_vars => AnswerInv' /\ [Service!Next]_(Service!vars)
  <2> SUFFICES ASSUME AnswerInv, [Next]_vars
               PROVE  Service!Next \/ UNCHANGED Service!vars
    BY AnswerStep
  <2>0. TypeInv /\ DataKnown
    BY DEF AnswerInv, HandleInv
  <2>1. ASSUME NEW t \in Threads, ReadOutput(t) \/ Fallback(t)
        PROVE  Service!Next
    BY <2>0, <2>1, AnswerIsService DEF Service!Next
  <2>2. ASSUME NEW t \in Threads, NEW r \in Data, Call(t, r)
        PROVE  Service!Next
    BY <2>0, <2>2, CallIsService DEF Service!Next
  <2>3. ASSUME NEW t \in Threads, Moves(t) \/ Uses(t) \/ Around(t),
               ~ReadOutput(t), ~Fallback(t), \A r \in Data : ~Call(t, r)
        PROVE  Service!Next \/ UNCHANGED Service!vars
    BY <2>0, <2>3, MidwayIsService DEF Service!Next
  <2>4. CASE Gpu \/ UNCHANGED vars
    BY <2>4 DEF Gpu, vars, backendVars, threadVars, Service!vars
  <2> QED BY <2>1, <2>2, <2>3, <2>4, Kinds
<1> QED BY <1>1, <1>2, PTL DEF Spec
===============================================================================
