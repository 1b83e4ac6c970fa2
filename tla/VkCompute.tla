------------------------------ MODULE VkCompute ------------------------------
(* vkcompute.py one Vulkan entry point at a time, for one context and one    *)
(* caller: what each API call creates and destroys, in which order, and what *)
(* it undoes when an entry point fails half way.  The calls of VulkanContext *)
(* are its abstract specification.  Detection (vulkan.py) goes to the same   *)
(* driver, with an instance of its own that it destroys whatever happens.    *)
EXTENDS Naturals, Sequences, FiniteSets

CONSTANTS
  Keys, Sizes, Data, Nil, Garbage, Absent,  \* as in VulkanContext
  Faults,     \* entry points that may fail, and ways a wait may end
  Probe       \* what the instance of detect_vulkan is of

Inputs    == {"query", "key", "value"}
Bindings  == Inputs \cup {"output"}
Pipelines == [ctx : {1}, key : Keys]
Buffers   == [ctx : {1}, binding : Bindings, bytes : Sizes]
Submissions == [pipe : Pipelines, bufs : [Bindings -> Buffers], arg : Data]

ASSUME ComputeAssumption ==
  /\ Sizes \subseteq Nat
  /\ Garbage \notin Data /\ Absent \notin Data /\ Absent # Garbage
  /\ Nil # Probe /\ {Nil, Probe} \cap (Pipelines \cup Buffers) = {}
  /\ Nil \notin Submissions

(* The entry points of each constructor in call order, named for what they   *)
(* create.  Some of them only ask or check something: the physical device    *)
(* and its limits, the memory type, the binding of the memory to the buffer, *)
(* and, for detection, the devices there are and their queue families.       *)
OpenProgram     == <<"instance", "properties", "device">>
AllocateProgram == <<"buffer", "memoryType", "memory", "bind", "mapping">>
LayoutProgram   == <<"shaderModule", "setLayout", "descriptorPool", "descriptorSet">>
CompileProgram  == LayoutProgram \o
  <<"pipelineLayout", "pipeline", "commandPool", "commandBuffer", "fence">>
DetectProgram   == <<"instance", "devices", "families">>
Program == [open |-> OpenProgram, allocate |-> AllocateProgram, compile |-> CompileProgram,
            detect |-> DetectProgram]
Checks == {"properties", "memoryType", "bind", "devices", "families"}

(* Mutant: the handler does not know of the command pool.                    *)
RegistersNoPool == {"instance", "buffer", "memory", "shaderModule", "setLayout",
                    "descriptorPool", "pipelineLayout", "pipeline"}

(* What a constructor registers for undoing as soon as it has created it.    *)
(* The last handle never needs that, and a descriptor set or a command       *)
(* buffer goes with its pool.                                                *)
Registers == {"instance", "buffer", "memory", "shaderModule", "setLayout",
              "descriptorPool", "pipelineLayout", "pipeline", "commandPool"}

(* Mutant: close destroys the instance before the device made from it.       *)
DestroyOrderSwapped ==
  [destroy |-> <<"fence", "commandPool", "pipeline", "pipelineLayout",
                 "descriptorPool", "setLayout", "shaderModule">>,
   free    |-> <<"mapping", "memory", "buffer">>,
   close   |-> <<"instance", "device">>]

(* What destroy, free and close destroy, in order.                           *)
DestroyOrder ==
  [destroy |-> <<"fence", "commandPool", "pipeline", "pipelineLayout",
                 "descriptorPool", "setLayout", "shaderModule">>,
   free    |-> <<"mapping", "memory", "buffer">>,
   close   |-> <<"device", "instance">>]

(* Destroying a pool, or freeing memory, takes what was made from it.        *)
Children(kind) ==
  CASE kind = "commandPool"    -> {"commandBuffer"}
    [] kind = "descriptorPool" -> {"descriptorSet"}
    [] kind = "memory"         -> {"mapping"}
    [] OTHER                   -> {}

(* dispatch: descriptor writes, recording, submission, wait.                 *)
DispatchProgram ==
  <<"update", "reset", "begin", "end", "resetFence", "submit", "wait">>

VARIABLES
  handles,     \* driver objects that exist: kind, and the Python object they are of
  call,        \* the API call in progress: what it is, on what, and what it has to do or to undo
  inClose,     \* VulkanContext.close is running
  closed,      \* VulkanContext._closed
  pending,     \* pipelines whose _pending flag is set
  contents,    \* contents of every mapped buffer
  command,     \* state of every pipeline's command buffer
  fence,       \* state of every pipeline's fence
  inflight     \* submissions the GPU has accepted and not executed

vars == <<handles, call, inClose, closed, pending, contents, command, fence, inflight>>

Calling(op, of, todo, undo) == [op |-> op, of |-> of, todo |-> todo, undo |-> undo, work |-> Nil]
Idle == Calling("idle", Nil, <<>>, <<>>)

Handle(kind, of) == [kind |-> kind, of |-> of]
Exists(kind, of) == Handle(kind, of) \in handles

(* The last handle a constructor makes and the first a destructor destroys.  *)
IsOpen == Exists("device", Nil)
Built  == {p \in Pipelines : Exists("fence", p)}
Mapped == {b \in Buffers : Exists("mapping", b)}

Init ==
  /\ handles = {} /\ call = Idle /\ inClose = FALSE /\ closed = FALSE
  /\ pending = {} /\ inflight = {}
  /\ contents = [b \in Buffers |-> Absent]
  /\ command = [p \in Pipelines |-> "initial"]
  /\ fence = [p \in Pipelines |-> "reset"]

Start(op, of, todo) ==
  /\ call = Idle
  /\ call' = Calling(op, of, todo, <<>>)
  /\ UNCHANGED <<handles, pending, contents, command, fence, inflight>>

(* The call has done its first entry point.                                  *)
Advance == call' = IF Len(call.todo) = 1 THEN Idle ELSE [call EXCEPT !.todo = Tail(@)]

-----------------------------------------------------------------------------
(* Constructors: open, allocate and compute_pipeline; and detect_vulkan.     *)
Constructing(op, of) == Start(op, of, Program[op]) /\ UNCHANGED <<inClose, closed>>

Open        == ~IsOpen /\ ~closed /\ Constructing("open", Nil)
Allocate(b) == IsOpen /\ ~inClose /\ b \notin Mapped /\ Constructing("allocate", b)
Compile(p)  == IsOpen /\ ~inClose /\ p \notin Built /\ Constructing("compile", p)
Detect      == ~inClose /\ Constructing("detect", Probe)

Making == call.op \in DOMAIN Program

(* Mutant: the handler destroys the handle that was not created.             *)
UndoingTooMuch == <<Head(call.todo)>> \o call.undo

(* The handler undoes what was created, last first.                          *)
Undoing == call.undo

(* The call has created a handle.  The finally clause of detection follows   *)
(* its last entry point.                                                     *)
Made(undo) ==
  call' = IF Len(call.todo) > 1 THEN Calling(call.op, call.of, Tail(call.todo), undo)
          ELSE IF call.op = "detect" THEN Calling("undo", call.of, undo, <<>>)
          ELSE Idle

Make ==
  LET kind == Head(call.todo)
  IN  /\ Making
      /\ handles' = IF kind \in Checks THEN handles ELSE handles \cup {Handle(kind, call.of)}
      /\ contents' = IF kind = "mapping" THEN [contents EXCEPT ![call.of] = Garbage] ELSE contents
      /\ command' = IF kind = "commandBuffer" THEN [command EXCEPT ![call.of] = "initial"] ELSE command
      /\ fence' = IF kind = "fence" THEN [fence EXCEPT ![call.of] = "reset"] ELSE fence
      /\ Made(IF kind \in Registers THEN <<kind>> \o call.undo ELSE call.undo)
      /\ UNCHANGED <<inClose, closed, pending, inflight>>

(* The handler lets the exception through.                                   *)
MakeFails ==
  /\ Making
  /\ Head(call.todo) \in Faults
  /\ call' = IF Undoing = <<>> THEN Idle ELSE Calling("undo", call.of, Undoing, <<>>)
  /\ UNCHANGED <<handles, inClose, closed, pending, contents, command, fence, inflight>>

-----------------------------------------------------------------------------
(* Mutant: destroy does not wait for a dispatch that was given up on.        *)
DrainingNever(p) == <<>>

(* Destructors.  Only destroy drains, and only a pending pipeline.           *)
Draining(p) == IF p \in pending THEN <<"drain">> ELSE <<>>

DestroyPipeline(p) == p \in Built /\ Start("destroy", p, Draining(p) \o DestroyOrder.destroy)
FreeBuffer(b)      == b \in Mapped /\ Start("free", b, DestroyOrder.free)

Destroy(p) == ~inClose /\ DestroyPipeline(p) /\ UNCHANGED <<inClose, closed>>
Free(b)    == ~inClose /\ FreeBuffer(b) /\ UNCHANGED <<inClose, closed>>

Close ==
  /\ IsOpen /\ ~inClose /\ call = Idle
  /\ inClose' = TRUE
  /\ UNCHANGED <<handles, call, closed, pending, contents, command, fence, inflight>>

ClosePipeline(p) == inClose /\ DestroyPipeline(p) /\ UNCHANGED <<inClose, closed>>
CloseBuffer(b)   == inClose /\ Built = {} /\ FreeBuffer(b) /\ UNCHANGED <<inClose, closed>>
CloseDevice ==
  /\ inClose /\ ~closed /\ Built = {} /\ Mapped = {}
  /\ Start("close", Nil, DestroyOrder.close)
  /\ closed' = TRUE
  /\ UNCHANGED inClose

Unmaking == call.op \in DOMAIN DestroyOrder \cup {"undo"}

Drain ==
  /\ Unmaking /\ Head(call.todo) = "drain"
  /\ inflight = {}
  /\ pending' = pending \ {call.of}
  /\ Advance
  /\ UNCHANGED <<handles, inClose, closed, contents, command, fence, inflight>>

Gone(kind) == {Handle(k, call.of) : k \in {kind} \cup Children(kind)}

Unmake ==
  LET kind == Head(call.todo)
  IN  /\ Unmaking /\ kind # "drain"
      /\ handles' = handles \ Gone(kind)
      /\ contents' = IF kind = "mapping" THEN [contents EXCEPT ![call.of] = Absent] ELSE contents
      /\ Advance
      /\ UNCHANGED <<inClose, closed, pending, command, fence, inflight>>

-----------------------------------------------------------------------------
(* VulkanBuffer.write: no entry point, a copy into the mapping.              *)
Write(b, d) ==
  /\ call = Idle /\ ~inClose /\ b \in Mapped
  /\ contents' = [contents EXCEPT ![b] = d]
  /\ UNCHANGED <<handles, call, inClose, closed, pending, command, fence, inflight>>

Dispatching(work) ==
  [op |-> "dispatch", of |-> work.pipe, todo |-> DispatchProgram, undo |-> <<>>, work |-> work]

(* Mutant: dispatch without the check of _pending.                           *)
DispatchPending(p, d) ==
  /\ call = Idle /\ ~inClose /\ p \in Built
  /\ \E bs \in [Bindings -> Mapped] :
       /\ \A i \in Bindings : bs[i].binding = i
       /\ call' = Dispatching([pipe |-> p, bufs |-> bs, arg |-> d])
  /\ UNCHANGED <<handles, inClose, closed, pending, contents, command, fence, inflight>>

(* VulkanPipeline.dispatch: the pipeline is neither destroyed nor pending    *)
(* and every buffer is live.                                                 *)
Dispatch(p, d) ==
  /\ call = Idle /\ ~inClose /\ p \in Built /\ p \notin pending
  /\ \E bs \in [Bindings -> Mapped] :
       /\ \A i \in Bindings : bs[i].binding = i
       /\ call' = Dispatching([pipe |-> p, bufs |-> bs, arg |-> d])
  /\ UNCHANGED <<handles, inClose, closed, pending, contents, command, fence, inflight>>

At(step) == call.op = "dispatch" /\ Head(call.todo) = step

Recorded(step, state) ==
  /\ At(step)
  /\ command' = [command EXCEPT ![call.of] = state]
  /\ Advance
  /\ UNCHANGED <<handles, inClose, closed, pending, contents, fence, inflight>>

(* vkUpdateDescriptorSets cannot fail; the recording calls can.              *)
UpdateSet == At("update") /\ Advance
             /\ UNCHANGED <<handles, inClose, closed, pending, contents, command, fence, inflight>>
Record == Recorded("reset", "initial") \/ Recorded("begin", "recording") \/ Recorded("end", "executable")

(* Mutant: the fence of the previous dispatch is submitted as it is.         *)
ResetNothing ==
  /\ At("resetFence")
  /\ Advance
  /\ UNCHANGED <<handles, inClose, closed, pending, contents, command, fence, inflight>>

ResetFence ==
  /\ At("resetFence")
  /\ fence' = [fence EXCEPT ![call.of] = "reset"]
  /\ Advance
  /\ UNCHANGED <<handles, inClose, closed, pending, contents, command, inflight>>

Submit ==
  /\ At("submit")
  /\ inflight' = inflight \cup {call.work}
  /\ fence' = [fence EXCEPT ![call.of] = IF @ = "signalled" THEN @ ELSE "armed"]
  /\ Advance
  /\ UNCHANGED <<handles, inClose, closed, pending, contents, command>>

DispatchFails ==
  /\ call.op = "dispatch"
  /\ Head(call.todo) \in Faults \ {"update", "wait"}
  /\ call' = Idle
  /\ UNCHANGED <<handles, inClose, closed, pending, contents, command, fence, inflight>>

WaitSucceeds ==
  /\ At("wait") /\ fence[call.of] = "signalled"
  /\ call' = Idle
  /\ UNCHANGED <<handles, inClose, closed, pending, contents, command, fence, inflight>>

(* A timeout leaves the work in flight; a lost device drops it.              *)
WaitFails(kind) ==
  /\ At("wait") /\ fence[call.of] # "signalled"
  /\ kind \in Faults
  /\ pending' = pending \cup {call.of}
  /\ inflight' = IF kind = "lost" THEN {} ELSE inflight
  /\ call' = Idle
  /\ UNCHANGED <<handles, inClose, closed, contents, command, fence>>

(* The GPU executes a submission; the fences of the queue are signalled when *)
(* nothing submitted before them is left.                                    *)
Execute(s) ==
  /\ s \in inflight
  /\ inflight' = inflight \ {s}
  /\ contents' =
       IF s.bufs["output"] \in Mapped
         THEN [contents EXCEPT ![s.bufs["output"]] =
                 IF \A i \in Inputs : contents[s.bufs[i]] = s.arg THEN s.arg ELSE Garbage]
         ELSE contents
  /\ fence' = [p \in Pipelines |->
                 IF inflight' = {} /\ fence[p] = "armed" THEN "signalled" ELSE fence[p]]
  /\ UNCHANGED <<handles, call, inClose, closed, pending, command>>

Next ==
  \/ Open \/ Close \/ CloseDevice \/ Detect
  \/ \E b \in Buffers : Allocate(b) \/ Free(b) \/ CloseBuffer(b) \/ \E d \in Data : Write(b, d)
  \/ \E p \in Pipelines : Compile(p) \/ Destroy(p) \/ ClosePipeline(p)
                             \/ \E d \in Data : Dispatch(p, d)
  \/ Make \/ MakeFails \/ Drain \/ Unmake
  \/ UpdateSet \/ Record \/ ResetFence \/ Submit \/ DispatchFails
  \/ WaitSucceeds \/ \E kind \in {"timeout", "lost"} : WaitFails(kind)
  \/ \E s \in inflight : Execute(s)

Spec == Init /\ [][Next]_vars

-----------------------------------------------------------------------------
(* The handles a complete Python object of each kind consists of.            *)
KindsOf(of) ==
  CASE of \in Pipelines -> {"shaderModule", "setLayout", "descriptorPool", "descriptorSet",
                            "pipelineLayout", "pipeline", "commandPool", "commandBuffer", "fence"}
    [] of \in Buffers   -> {"buffer", "memory", "mapping"}
    [] OTHER            -> {"instance", "device"}
Complete(of) == {Handle(kind, of) : kind \in KindsOf(of)}

(* Between two calls every driver handle belongs to a complete object: a     *)
(* constructor that failed half way and a destructor that finished leave     *)
(* nothing ("a rejected pipeline leaks nothing", vkcompute.py:1391), and     *)
(* however detection ended its instance is gone.                             *)
NothingLeaks ==
  call = Idle => \A h \in handles : h.of # Probe /\ Complete(h.of) \subseteq handles

(* Every handle a rollback or a destructor is still to destroy exists, and   *)
(* none is listed twice: a failure "destroys exactly what already exists and *)
(* nothing else" (vkcompute.py:1575-1577).                                   *)
DestroysWhatExists ==
  Unmaking =>
    \A i \in 1 .. Len(call.todo) :
      call.todo[i] # "drain" =>
        /\ Exists(call.todo[i], call.of)
        /\ \A j \in 1 .. i - 1 : call.todo[j] # call.todo[i]

(* Handles are destroyed in the right order (vkcompute.py:1237): a child     *)
(* never outlives what it was made from, nothing outlives the device, and    *)
(* the device does not outlive the instance.                                 *)
ParentsOutlive ==
  \A h \in handles :
    /\ \A kind \in {"commandPool", "descriptorPool", "memory"} :
         h.kind \in Children(kind) => Exists(kind, h.of)
    /\ h.kind = "device" => Exists("instance", Nil)
    /\ h.of \notin {Nil, Probe} => IsOpen

(* While its work is in flight, also after a wait that was given up on, the  *)
(* objects of a pipeline are neither reset, by a dispatch that would update, *)
(* re-record or reset them, nor destroyed (vkcompute.py:1191-1192, of the    *)
(* command buffer and what the pipeline made beside it).                     *)
UntouchedInFlight ==
  \A s \in inflight : /\ call.op = "dispatch" /\ ~At("wait") => s.pipe # call.of
                      /\ Complete(s.pipe) \subseteq handles

(* Only a command buffer recorded to its end is submitted, with a fence that *)
(* is not signalled, so that a wait that succeeds means the work is done: "a *)
(* buffer can be read straight after" (vkcompute.py:953-954).                *)
WaitMeansDone ==
  /\ At("submit") => command[call.of] = "executable"
  /\ At("wait") /\ fence[call.of] = "signalled" => call.work \notin inflight

(* The entry points implement the calls: the abstract step of a constructor  *)
(* is its last entry point, that of free its unmapping, and that of destroy  *)
(* the moment nothing is left to drain.                                      *)
Drained == {p \in Built : call.op = "destroy" /\ call.of = p /\ Head(call.todo) # "drain"}
Api == INSTANCE VulkanContext WITH
  MaxOpens  <- 1,
  Faults    <- Faults \cap {"timeout", "lost"},
  opens     <- IF IsOpen \/ closed THEN 1 ELSE 0,
  devices   <- IF IsOpen THEN {1} ELSE {},
  pipelines <- Built \ Drained,
  pending   <- pending,
  contents  <- contents,
  inflight  <- inflight,
  waiting   <- IF At("wait") THEN call.work ELSE Nil,
  closing   <- IF inClose /\ IsOpen THEN 1 ELSE 0

ImplementsTheApi == Api!CtxSpec
=============================================================================
