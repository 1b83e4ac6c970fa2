--------------------------- MODULE VkCompute_proofs ---------------------------
(* Proofs about VkCompute.  Each handle of a Python object exists exactly    *)
(* when the call that makes or destroys the object has been past the entry   *)
(* point for it; every object no such call is about is whole or absent.      *)
EXTENDS VkCompute, SequenceTheorems, TLAPS

-----------------------------------------------------------------------------
(* The inductive invariant.                                                  *)

(* Every kind of handle, and the kinds an object consists of.                *)
PipelineParts == {"shaderModule", "setLayout", "descriptorPool", "descriptorSet",
                  "pipelineLayout", "pipeline", "commandPool", "commandBuffer", "fence"}
BufferParts == {"buffer", "memory", "mapping"}
Parts == PipelineParts \cup BufferParts \cup {"instance", "device"}

Objects == {Nil, Probe} \cup Pipelines \cup Buffers
PartsOf(of) ==
  IF of \in Pipelines THEN PipelineParts
  ELSE IF of \in Buffers THEN BufferParts
  ELSE IF of = Probe THEN {"instance"} ELSE {"instance", "device"}

In(kind, seq)  == \E i \in 1 .. Len(seq) : seq[i] = kind
Distinct(seq)  == \A i, j \in 1 .. Len(seq) : seq[i] = seq[j] => i = j
IsRest(seq, full) ==
  /\ Len(seq) \in 1 .. Len(full)
  /\ \A i \in 1 .. Len(seq) : seq[i] = full[Len(full) - Len(seq) + i]

Steps == Parts \cup Checks \cup
  {"drain", "update", "reset", "begin", "end", "resetFence", "submit", "wait"}

ComputeTypeOK ==
  /\ handles \subseteq [kind : Parts, of : Objects]
  /\ call \in [op : DOMAIN Program \cup DOMAIN DestroyOrder \cup {"idle", "undo", "dispatch"},
               of : Objects, todo : Seq(Steps), undo : Seq(Registers), work : Submissions \cup {Nil}]
  /\ inClose \in BOOLEAN /\ closed \in BOOLEAN
  /\ pending \subseteq Pipelines
  /\ contents \in [Buffers -> Data \cup {Garbage, Absent}]
  /\ command \in [Pipelines -> {"initial", "recording", "executable"}]
  /\ fence \in [Pipelines -> {"reset", "armed", "signalled"}]
  /\ inflight \subseteq Submissions

(* What each call is about.                                                  *)
Fits(op, of) ==
  /\ op \in {"open", "close"} => of = Nil
  /\ op = "detect" => of = Probe
  /\ op \in {"compile", "destroy", "dispatch"} => of \in Pipelines
  /\ op \in {"allocate", "free"} => of \in Buffers
CallFits == (call.op = "idle" => call = Idle) /\ Fits(call.op, call.of)

Handling(of) == (Making \/ Unmaking) /\ call.of = of

(* An object no call is making or destroying is whole or absent.             *)
None(of)  == \A k \in Parts : ~Exists(k, of)
Whole(of) == \A k \in Parts : Exists(k, of) <=> k \in PartsOf(of)
WholeOrAbsent ==
  \A of \in Objects : ~Handling(of) => None(of) \/ (of # Probe /\ Whole(of))

(* Pipelines and buffers need the device, also while they are being made.    *)
UnderTheDevice ==
  \A of \in Pipelines \cup Buffers : call.of = of \/ ~None(of) => IsOpen

(* A constructor has made what it is past, and can undo all of it.           *)
MakingKnown ==
  Making =>
    /\ IsRest(call.todo, Program[call.op])
    /\ \A k \in Parts : Exists(k, call.of) <=> k \in PartsOf(call.of) /\ ~In(k, call.todo)
    /\ Distinct(call.undo)
    /\ \A k \in Parts : In(k, call.undo) <=> k \in Registers /\ Exists(k, call.of)
    /\ ~inClose

(* A destructor or a rollback has left what it has still to destroy, and     *)
(* what goes with that.                                                      *)
UnmakingKnown ==
  Unmaking =>
    /\ call.todo # <<>> /\ Distinct(call.todo)
    /\ \A i \in 1 .. Len(call.todo) : call.todo[i] \in Parts \cup {"drain"}
    /\ \A k \in Parts : In(k, call.todo) => Exists(k, call.of)
    /\ \A k \in Parts : Exists(k, call.of) =>
         In(k, call.todo) \/ \E m \in Parts : In(m, call.todo) /\ k \in Children(m)

(* The order in which they go.                                               *)
UnmakingOrdered ==
  Unmaking =>
    /\ ~In("commandBuffer", call.todo) /\ ~In("descriptorSet", call.todo)
    /\ Exists("mapping", call.of) =>
         call.op = "free" /\ call.todo[1] = "mapping" /\ In("memory", call.todo)
    /\ Exists("fence", call.of) =>
         call.op = "destroy" /\ (call.todo[1] = "fence" \/ call.todo[1] = "drain")
    /\ Exists("device", call.of) => call.op = "close" /\ call.todo[1] = "device"
    /\ In("drain", call.todo) =>
         /\ call.op = "destroy" /\ call.todo[1] = "drain"
         /\ Len(call.todo) > 1 /\ call.todo[2] = "fence"
    /\ call.op = "undo" => ~inClose
    /\ call.op = "free" /\ inClose => Built = {}
    /\ call.op = "close" =>
         /\ In("instance", call.todo) /\ inClose /\ closed
         /\ \A k : In(k, call.todo) => k \in {"instance", "device"}
         /\ \A of \in Pipelines \cup Buffers : None(of)

(* A dispatch is past the entry points before its next one.                  *)
DispatchKnown ==
  call.op = "dispatch" =>
    /\ IsRest(call.todo, DispatchProgram)
    /\ call.work \in Submissions /\ call.work.pipe = call.of
    /\ call.of \in Built /\ call.of \notin pending /\ ~inClose
    /\ \A i \in Bindings : call.work.bufs[i] \in Mapped /\ call.work.bufs[i].binding = i
    /\ Head(call.todo) \in {"resetFence", "submit"} => command[call.of] = "executable"
    /\ Head(call.todo) = "submit" => fence[call.of] = "reset"
    /\ Head(call.todo) = "wait" =>
         IF inflight = {} THEN fence[call.of] = "signalled" ELSE fence[call.of] = "armed"

(* Somebody remembers every submission the GPU has not executed.             *)
WorkIsWatched == \A s \in inflight : s.pipe \in pending \/ (At("wait") /\ s = call.work)

(* A buffer that is mapped has contents, and close closes once.              *)
ContentsKnown == \A b \in Buffers : contents[b] = Absent <=> b \notin Mapped
CloseKnown == (closed => inClose) /\ (inClose /\ ~IsOpen => closed)

ComputeInv ==
  /\ ComputeTypeOK /\ CallFits /\ WholeOrAbsent /\ UnderTheDevice
  /\ MakingKnown /\ UnmakingKnown /\ UnmakingOrdered
  /\ DispatchKnown /\ WorkIsWatched /\ ContentsKnown /\ CloseKnown

-----------------------------------------------------------------------------
(* Sequences of entry points.                                                *)

(* What is left of a program after its first entry point.                    *)
LEMMA RestTail ==
  ASSUME NEW S, NEW seq \in Seq(S), NEW full \in Seq(S), IsRest(seq, full), Len(seq) > 1
  PROVE  Tail(seq) \in Seq(S) /\ IsRest(Tail(seq), full)
<1>1. Tail(seq) \in Seq(S) /\ Len(Tail(seq)) = Len(seq) - 1
  OBVIOUS
<1>2. \A i \in 1 .. Len(seq) - 1 : Tail(seq)[i] = seq[i + 1]
  OBVIOUS
<1>3. \A i \in 1 .. Len(seq) - 1 :
        seq[i + 1] = full[Len(full) - Len(seq) + (i + 1)]
  BY DEF IsRest
<1>4. \A i \in 1 .. Len(seq) - 1 :
        Len(full) - Len(seq) + (i + 1) = Len(full) - (Len(seq) - 1) + i
  BY DEF IsRest
<1> QED BY <1>1, <1>2, <1>3, <1>4 DEF IsRest

(* The entry points left are the others, each of them once.                  *)
LEMMA TailDistinct ==
  ASSUME NEW S, NEW seq \in Seq(S), seq # <<>>, Distinct(seq)
  PROVE  /\ Tail(seq) \in Seq(S) /\ Len(Tail(seq)) = Len(seq) - 1
         /\ Head(seq) = seq[1]
         /\ Distinct(Tail(seq))
         /\ \A k : In(k, Tail(seq)) <=> In(k, seq) /\ k # Head(seq)
<1>1. Tail(seq) \in Seq(S) /\ Len(Tail(seq)) = Len(seq) - 1 /\ Len(seq) > 0 /\ Head(seq) = seq[1]
  OBVIOUS
<1>2. \A i \in 1 .. Len(seq) - 1 : Tail(seq)[i] = seq[i + 1]
  OBVIOUS
<1>3. Distinct(Tail(seq))
  BY <1>1, <1>2 DEF Distinct
<1>4. ASSUME NEW k, In(k, Tail(seq)) PROVE In(k, seq) /\ k # Head(seq)
  BY <1>1, <1>2, <1>4 DEF In, Distinct
<1>5. ASSUME NEW k, In(k, seq), k # Head(seq) PROVE In(k, Tail(seq))
  <2>1. PICK i \in 1 .. Len(seq) : seq[i] = k
    BY <1>5 DEF In
  <2>2. i - 1 \in 1 .. Len(seq) - 1 /\ Tail(seq)[i - 1] = k
    BY <1>1, <1>2, <1>5, <2>1
  <2> QED BY <1>1, <2>2 DEF In
<1> QED BY <1>1, <1>3, <1>4, <1>5

(* What is left of a program keeps its order, and its last entry point.      *)
LEMMA RestKeeps ==
  ASSUME NEW S, NEW seq \in Seq(S), NEW full \in Seq(S), IsRest(seq, full), Distinct(full)
  PROVE  /\ seq # <<>> /\ Distinct(seq) /\ Head(seq) = seq[1] /\ Head(seq) \in S
         /\ In(full[Len(full)], seq)
         /\ \A k : In(k, seq) => In(k, full)
         /\ \A m \in 1 .. Len(full) - 1 : In(full[m], seq) => In(full[m + 1], seq)
         /\ \A m \in 1 .. Len(full) :
              Head(seq) = full[m] => \A i \in 1 .. Len(full) : In(full[i], seq) <=> i >= m
<1> DEFINE at(i) == Len(full) - Len(seq) + i
<1>1. /\ seq # <<>> /\ Head(seq) = seq[1] /\ Head(seq) \in S
      /\ Len(seq) \in Nat /\ Len(full) \in Nat /\ 1 <= Len(seq) /\ Len(seq) <= Len(full)
  BY DEF IsRest
<1>2. \A i \in 1 .. Len(seq) : at(i) \in 1 .. Len(full) /\ seq[i] = full[at(i)]
  BY <1>1 DEF IsRest
<1>3. \A i, j \in 1 .. Len(full) : full[i] = full[j] => i = j
  BY DEF Distinct
<1>4. \A i, j \in 1 .. Len(seq) : at(i) = at(j) => i = j
  BY <1>1
<1>5. Distinct(seq)
  BY <1>2, <1>3, <1>4 DEF Distinct
<1>6. In(full[Len(full)], seq)
  BY <1>1, <1>2 DEF In
<1>7. \A k : In(k, seq) => In(k, full)
  BY <1>2 DEF In
<1>8. \A m \in 1 .. Len(full) : In(full[m], seq) <=> m >= at(1)
  <2> TAKE m \in 1 .. Len(full)
  <2>1. In(full[m], seq) => m >= at(1)
    <3> HAVE In(full[m], seq)
    <3>1. PICK i \in 1 .. Len(seq) : seq[i] = full[m]
      BY DEF In
    <3>2. m = at(i)
      BY <1>2, <1>3, <3>1
    <3> QED BY <1>1, <3>1, <3>2
  <2>2. m >= at(1) => In(full[m], seq)
    <3> HAVE m >= at(1)
    <3>1. m - (Len(full) - Len(seq)) \in 1 .. Len(seq) /\ at(m - (Len(full) - Len(seq))) = m
      BY <1>1
    <3> QED BY <1>2, <3>1 DEF In
  <2> QED BY <2>1, <2>2
<1>9. \A m \in 1 .. Len(full) : Head(seq) = full[m] => m = at(1)
  <2>1. 1 \in 1 .. Len(seq)
    BY <1>1
  <2>2. at(1) \in 1 .. Len(full) /\ Head(seq) = full[at(1)]
    BY <1>1, <1>2, <2>1
  <2> HIDE DEF at
  <2> QED BY <1>3, <2>2
<1>10. \A m \in 1 .. Len(full) - 1 : In(full[m], seq) => In(full[m + 1], seq)
  <2> TAKE m \in 1 .. Len(full) - 1
  <2> HAVE In(full[m], seq)
  <2>1. m \in 1 .. Len(full) /\ m + 1 \in 1 .. Len(full) /\ at(1) \in 1 .. Len(full)
    BY <1>1, <1>2
  <2>2. m >= at(1)
    BY <1>8, <2>1
  <2>3. m + 1 >= at(1)
    BY <2>1, <2>2
  <2> QED BY <1>8, <2>1, <2>3
<1> QED BY <1>1, <1>5, <1>6, <1>7, <1>8, <1>9, <1>10

(* A whole program is what is left of it at first.                           *)
LEMMA RestWhole ==
  ASSUME NEW S, NEW full \in Seq(S), full # <<>>
  PROVE  IsRest(full, full)
BY DEF IsRest

(* Registering a handle for undoing.                                         *)
LEMMA Pushed ==
  ASSUME NEW S, NEW seq \in Seq(S), NEW kind \in S, Distinct(seq), ~In(kind, seq)
  PROVE  /\ <<kind>> \o seq \in Seq(S) /\ <<kind>> \o seq # <<>> /\ Distinct(<<kind>> \o seq)
         /\ \A k : In(k, <<kind>> \o seq) <=> k = kind \/ In(k, seq)
<1> DEFINE more == <<kind>> \o seq
<1>1. more \in Seq(S) /\ more # <<>> /\ Len(more) = Len(seq) + 1 /\ Len(seq) \in Nat
  OBVIOUS
<1>2. more[1] = kind /\ \A i \in 1 .. Len(seq) : more[i + 1] = seq[i]
  OBVIOUS
<1>3. \A i \in 1 .. Len(more) : i = 1 \/ (i - 1 \in 1 .. Len(seq) /\ more[i] = seq[i - 1])
  <2> TAKE i \in 1 .. Len(more)
  <2>1. i # 1 => i - 1 \in 1 .. Len(seq) /\ more[(i - 1) + 1] = seq[i - 1] /\ (i - 1) + 1 = i
    BY <1>1, <1>2
  <2> QED BY <2>1
<1> HIDE DEF more
<1>4. Distinct(more)
  <2>1. \A i, j \in 1 .. Len(more) : more[i] = more[j] => i = j
    <3> TAKE i, j \in 1 .. Len(more)
    <3> HAVE more[i] = more[j]
    <3>1. CASE i = 1
      BY <1>2, <1>3, <3>1 DEF In
    <3>2. CASE j = 1
      BY <1>2, <1>3, <3>2 DEF In
    <3>3. CASE i # 1 /\ j # 1
      <4>1. i - 1 \in 1 .. Len(seq) /\ j - 1 \in 1 .. Len(seq) /\ seq[i - 1] = seq[j - 1]
        BY <1>3, <3>3
      <4>2. i - 1 = j - 1
        BY <4>1 DEF Distinct
      <4> QED BY <1>1, <4>2
    <3> QED BY <3>1, <3>2, <3>3
  <2> QED BY <2>1 DEF Distinct
<1>5. \A k : In(k, more) => k = kind \/ In(k, seq)
  BY <1>2, <1>3 DEF In
<1>6. \A k : k = kind \/ In(k, seq) => In(k, more)
  BY <1>1, <1>2 DEF In
<1> QED BY <1>1, <1>4, <1>5, <1>6 DEF more

-----------------------------------------------------------------------------
(* The programs.                                                             *)

(* compute_pipeline creates every handle of a pipeline, once.                *)
LEMMA CompileFacts ==
  /\ CompileProgram \in Seq(Steps) /\ CompileProgram # <<>> /\ Distinct(CompileProgram)
  /\ Len(CompileProgram) = 9 /\ CompileProgram[9] = "fence"
  /\ CompileProgram[3] = "descriptorPool" /\ CompileProgram[4] = "descriptorSet"
  /\ CompileProgram[7] = "commandPool" /\ CompileProgram[8] = "commandBuffer"
  /\ \A k : In(k, CompileProgram) <=> k \in PipelineParts
<1> DEFINE all == <<"shaderModule", "setLayout", "descriptorPool", "descriptorSet",
                    "pipelineLayout", "pipeline", "commandPool", "commandBuffer", "fence">>
<1>1. CompileProgram = all
  <2> DEFINE a == <<"shaderModule", "setLayout", "descriptorPool", "descriptorSet">>
             b == <<"pipelineLayout", "pipeline", "commandPool", "commandBuffer", "fence">>
  <2>1. /\ a \in Seq(Steps) /\ Len(a) = 4 /\ a[1] = "shaderModule" /\ a[2] = "setLayout"
        /\ a[3] = "descriptorPool" /\ a[4] = "descriptorSet"
    BY DEF Steps, Parts, PipelineParts
  <2>2. /\ b \in Seq(Steps) /\ Len(b) = 5 /\ b[1] = "pipelineLayout" /\ b[2] = "pipeline"
        /\ b[3] = "commandPool" /\ b[4] = "commandBuffer" /\ b[5] = "fence"
    BY DEF Steps, Parts, PipelineParts
  <2>3. CompileProgram = a \o b
    BY DEF CompileProgram, LayoutProgram
  <2>4. all \in Seq(Steps) /\ Len(all) = 9
    BY DEF Steps, Parts, PipelineParts
  <2>5. /\ all[1] = "shaderModule" /\ all[2] = "setLayout"
        /\ all[3] = "descriptorPool" /\ all[4] = "descriptorSet"
        /\ all[5] = "pipelineLayout" /\ all[6] = "pipeline"
        /\ all[7] = "commandPool" /\ all[8] = "commandBuffer" /\ all[9] = "fence"
    OBVIOUS
  <2> HIDE DEF a, b, all
  <2>6. /\ CompileProgram \in Seq(Steps) /\ Len(CompileProgram) = Len(a) + Len(b)
        /\ \A i \in 1 .. Len(a) + Len(b) :
             CompileProgram[i] = IF i <= Len(a) THEN a[i] ELSE b[i - Len(a)]
    BY <2>1, <2>2, <2>3, ConcatProperties
  <2>7. Len(CompileProgram) = 9
        /\ \A i \in 1 .. 9 : CompileProgram[i] = IF i <= 4 THEN a[i] ELSE b[i - 4]
    BY <2>1, <2>2, <2>6
  <2>8. \A i \in 1 .. 9 : CompileProgram[i] = all[i]
    <3> TAKE i \in 1 .. 9
    <3>1. \/ i = 1 \/ i = 2 \/ i = 3 \/ i = 4 \/ i = 5 \/ i = 6 \/ i = 7 \/ i = 8 \/ i = 9
      OBVIOUS
    <3> QED BY <2>1, <2>2, <2>5, <2>7, <3>1
  <2> QED BY <2>4, <2>6, <2>7, <2>8, SeqEqual
<1>2. /\ all \in Seq(Steps) /\ all # <<>> /\ Len(all) = 9 /\ all[9] = "fence"
      /\ all[3] = "descriptorPool" /\ all[4] = "descriptorSet"
      /\ all[7] = "commandPool" /\ all[8] = "commandBuffer"
  BY DEF Steps, Parts, PipelineParts
<1>3. Distinct(all)
  BY DEF Distinct
<1>4. \A k : In(k, all) <=> k \in PipelineParts
  BY DEF In, PipelineParts
<1> QED BY <1>1, <1>2, <1>3, <1>4

(* So do allocate, open and detection of theirs, besides what they check.    *)
LEMMA AllocateFacts ==
  /\ AllocateProgram \in Seq(Steps) /\ AllocateProgram # <<>> /\ Distinct(AllocateProgram)
  /\ Len(AllocateProgram) = 5 /\ AllocateProgram[5] = "mapping"
  /\ \A k : In(k, AllocateProgram) <=> k \in BufferParts \cup {"memoryType", "bind"}
<1>1. /\ AllocateProgram \in Seq(Steps) /\ AllocateProgram # <<>>
      /\ Len(AllocateProgram) = 5 /\ AllocateProgram[5] = "mapping"
  BY DEF AllocateProgram, Steps, Parts, BufferParts, Checks
<1>2. Distinct(AllocateProgram)
  BY DEF Distinct, AllocateProgram
<1>3. \A k : In(k, AllocateProgram) <=> k \in BufferParts \cup {"memoryType", "bind"}
  BY DEF In, AllocateProgram, BufferParts
<1> QED BY <1>1, <1>2, <1>3

(* What opening a context makes, each part once, the device last.          *)
LEMMA OpenFacts ==
  /\ OpenProgram \in Seq(Steps) /\ OpenProgram # <<>> /\ Distinct(OpenProgram)
  /\ Len(OpenProgram) = 3 /\ OpenProgram[3] = "device"
  /\ \A k : In(k, OpenProgram) <=> k \in {"instance", "properties", "device"}
<1>1. /\ OpenProgram \in Seq(Steps) /\ OpenProgram # <<>>
      /\ Len(OpenProgram) = 3 /\ OpenProgram[3] = "device"
  BY DEF OpenProgram, Steps, Parts, Checks
<1>2. Distinct(OpenProgram)
  BY DEF Distinct, OpenProgram
<1>3. \A k : In(k, OpenProgram) <=> k \in {"instance", "properties", "device"}
  BY DEF In, OpenProgram
<1> QED BY <1>1, <1>2, <1>3

(* What detection makes, each part once, the instance first.               *)
LEMMA DetectFacts ==
  /\ DetectProgram \in Seq(Steps) /\ DetectProgram # <<>> /\ Distinct(DetectProgram)
  /\ Len(DetectProgram) = 3 /\ DetectProgram[1] = "instance" /\ DetectProgram[3] = "families"
  /\ \A k : In(k, DetectProgram) <=> k \in {"instance", "devices", "families"}
<1>1. /\ DetectProgram \in Seq(Steps) /\ DetectProgram # <<>>
      /\ Len(DetectProgram) = 3 /\ DetectProgram[1] = "instance" /\ DetectProgram[3] = "families"
  BY DEF DetectProgram, Steps, Parts, Checks
<1>2. Distinct(DetectProgram)
  BY DEF Distinct, DetectProgram
<1>3. \A k : In(k, DetectProgram) <=> k \in {"instance", "devices", "families"}
  BY DEF In, DetectProgram
<1> QED BY <1>1, <1>2, <1>3

(* A dispatch ends in its wait, after the submission.                        *)
LEMMA DispatchFacts ==
  /\ DispatchProgram \in Seq(Steps) /\ DispatchProgram # <<>> /\ Distinct(DispatchProgram)
  /\ Len(DispatchProgram) = 7
  /\ DispatchProgram[1] = "update" /\ DispatchProgram[2] = "reset"
  /\ DispatchProgram[3] = "begin" /\ DispatchProgram[4] = "end"
  /\ DispatchProgram[5] = "resetFence" /\ DispatchProgram[6] = "submit"
  /\ DispatchProgram[7] = "wait"
<1>1. /\ DispatchProgram \in Seq(Steps) /\ DispatchProgram # <<>>
      /\ Len(DispatchProgram) = 7
      /\ DispatchProgram[1] = "update" /\ DispatchProgram[2] = "reset"
      /\ DispatchProgram[3] = "begin" /\ DispatchProgram[4] = "end"
      /\ DispatchProgram[5] = "resetFence" /\ DispatchProgram[6] = "submit"
      /\ DispatchProgram[7] = "wait"
  BY DEF DispatchProgram, Steps
<1>2. Distinct(DispatchProgram)
  BY DEF Distinct, DispatchProgram
<1> QED BY <1>1, <1>2

(* What destroy, free and close destroy.                                     *)
DestroyList == DestroyOrder["destroy"]
FreeList    == DestroyOrder["free"]
CloseList   == DestroyOrder["close"]

(* What destroying a pipeline destroys, each part once, the fence first.   *)
LEMMA DestroyFacts ==
  /\ DestroyList \in Seq(Steps) /\ DestroyList # <<>> /\ Distinct(DestroyList)
  /\ DestroyList[1] = "fence"
  /\ \A k : In(k, DestroyList) <=> k \in PipelineParts \ {"commandBuffer", "descriptorSet"}
<1> DEFINE all == <<"fence", "commandPool", "pipeline", "pipelineLayout",
                    "descriptorPool", "setLayout", "shaderModule">>
<1>1. DestroyList = all
  BY DEF DestroyList, DestroyOrder
<1>2. all \in Seq(Steps) /\ all # <<>> /\ all[1] = "fence"
  BY DEF Steps, Parts, PipelineParts
<1>3. Distinct(all)
  BY DEF Distinct
<1>4. \A k : In(k, all) <=> k \in PipelineParts \ {"commandBuffer", "descriptorSet"}
  BY DEF In, PipelineParts
<1> QED BY <1>1, <1>2, <1>3, <1>4

(* What freeing a buffer destroys, each part once, the mapping first.      *)
LEMMA FreeFacts ==
  /\ FreeList \in Seq(Steps) /\ FreeList # <<>> /\ Distinct(FreeList)
  /\ FreeList[1] = "mapping"
  /\ \A k : In(k, FreeList) <=> k \in BufferParts
<1> DEFINE all == <<"mapping", "memory", "buffer">>
<1>1. FreeList = all
  BY DEF FreeList, DestroyOrder
<1>2. all \in Seq(Steps) /\ all # <<>> /\ all[1] = "mapping"
  BY DEF Steps, Parts, BufferParts
<1>3. Distinct(all)
  BY DEF Distinct
<1>4. \A k : In(k, all) <=> k \in BufferParts
  BY DEF In, BufferParts
<1> QED BY <1>1, <1>2, <1>3, <1>4

(* What closing a context destroys, the device first.                      *)
LEMMA CloseFacts ==
  /\ CloseList \in Seq(Steps) /\ CloseList # <<>> /\ Distinct(CloseList)
  /\ CloseList[1] = "device"
  /\ \A k : In(k, CloseList) <=> k \in {"instance", "device"}
<1> DEFINE all == <<"device", "instance">>
<1>1. CloseList = all
  BY DEF CloseList, DestroyOrder
<1>2. all \in Seq(Steps) /\ all # <<>> /\ all[1] = "device"
  BY DEF Steps, Parts
<1>3. Distinct(all)
  BY DEF Distinct
<1>4. \A k : In(k, all) <=> k \in {"instance", "device"}
  BY DEF In
<1> QED BY <1>1, <1>2, <1>3, <1>4

(* Destroying a pipeline that is pending waits for the device first.         *)
LEMMA DrainingFacts ==
  ASSUME NEW p
  PROVE  /\ Draining(p) \o DestroyList \in Seq(Steps) /\ Draining(p) \o DestroyList # <<>>
         /\ Distinct(Draining(p) \o DestroyList)
         /\ \A k : In(k, Draining(p) \o DestroyList) <=>
                     (p \in pending /\ k = "drain") \/ In(k, DestroyList)
         /\ p \notin pending => (Draining(p) \o DestroyList)[1] = "fence"
         /\ p \in pending => /\ (Draining(p) \o DestroyList)[1] = "drain"
                             /\ Len(Draining(p) \o DestroyList) > 1
                             /\ (Draining(p) \o DestroyList)[2] = "fence"
<1>1. /\ DestroyList \in Seq(Steps) /\ DestroyList # <<>> /\ Distinct(DestroyList)
      /\ DestroyList[1] = "fence" /\ ~In("drain", DestroyList)
  BY DestroyFacts DEF PipelineParts
<1>2. "drain" \in Steps
  BY DEF Steps
<1>3. CASE p \notin pending
  <2>1. Draining(p) \o DestroyList = DestroyList
    BY <1>1, <1>3, ConcatEmptySeq DEF Draining
  <2> QED BY <1>1, <1>3, <2>1
<1>4. CASE p \in pending
  <2>1. Draining(p) \o DestroyList = <<"drain">> \o DestroyList
    BY <1>4 DEF Draining
  <2>2. /\ <<"drain">> \o DestroyList \in Seq(Steps) /\ <<"drain">> \o DestroyList # <<>>
        /\ Distinct(<<"drain">> \o DestroyList)
        /\ \A k : In(k, <<"drain">> \o DestroyList) <=> k = "drain" \/ In(k, DestroyList)
    BY <1>1, <1>2, Pushed
  <2>3. /\ (<<"drain">> \o DestroyList)[1] = "drain" /\ (<<"drain">> \o DestroyList)[2] = "fence"
        /\ Len(<<"drain">> \o DestroyList) > 1
    BY <1>1
  <2> QED BY <1>4, <2>1, <2>2, <2>3
<1> QED BY <1>3, <1>4

(* A pipeline is not a buffer, and neither is a context or a detection.      *)
LEMMA KindsApart ==
  /\ Pipelines \cap Buffers = {}
  /\ Nil \notin Pipelines \cup Buffers /\ Probe \notin Pipelines \cup Buffers /\ Nil # Probe
  /\ \A p \in Pipelines : p.ctx = 1
  /\ \A b \in Buffers : b.ctx = 1
<1>1. Pipelines \cap Buffers = {}
  BY DEF Pipelines, Buffers
<1> QED BY <1>1, ComputeAssumption DEF Pipelines, Buffers

(* Each object has the parts of its kind.                                  *)
LEMMA Parted ==
  /\ \A of \in Pipelines : of \in Objects /\ PartsOf(of) = PipelineParts
  /\ \A of \in Buffers : of \in Objects /\ PartsOf(of) = BufferParts
  /\ Probe \in Objects /\ PartsOf(Probe) = {"instance"}
  /\ Nil \in Objects /\ PartsOf(Nil) = {"instance", "device"}
BY KindsApart DEF PartsOf, Objects

(* The kinds of calls.                                                       *)
LEMMA Operations ==
  /\ DOMAIN Program = {"open", "allocate", "compile", "detect"}
  /\ DOMAIN DestroyOrder = {"destroy", "free", "close"}
  /\ Program["open"] = OpenProgram /\ Program["allocate"] = AllocateProgram
  /\ Program["compile"] = CompileProgram /\ Program["detect"] = DetectProgram
BY DEF Program, DestroyOrder

(* A constructor creates exactly the handles of its object, and the handle   *)
(* that makes the object usable last.                                        *)
LEMMA ProgramFacts ==
  ASSUME NEW op \in DOMAIN Program, NEW of, Fits(op, of)
  PROVE  /\ of \in Objects
         /\ Program[op] \in Seq(Steps) /\ Program[op] # <<>> /\ Distinct(Program[op])
         /\ \A k \in Parts : In(k, Program[op]) <=> k \in PartsOf(of)
         /\ \A k : In(k, Program[op]) => k \in Parts \cup Checks
         /\ op = "compile" => Program[op][Len(Program[op])] = "fence"
         /\ op = "allocate" => Program[op][Len(Program[op])] = "mapping"
         /\ op = "open" => Program[op][Len(Program[op])] = "device"
<1>1. CASE op = "compile"
  <2>1. of \in Pipelines /\ Program[op] = CompileProgram
    BY <1>1, Operations DEF Fits
  <2> QED BY <1>1, <2>1, Parted, CompileFacts DEF Parts
<1>2. CASE op = "allocate"
  <2>1. of \in Buffers /\ Program[op] = AllocateProgram
    BY <1>2, Operations DEF Fits
  <2>2. /\ "memoryType" \notin Parts /\ "bind" \notin Parts /\ BufferParts \subseteq Parts
        /\ "memoryType" \in Checks /\ "bind" \in Checks
    BY DEF Parts, PipelineParts, BufferParts, Checks
  <2> QED BY <1>2, <2>1, <2>2, Parted, AllocateFacts
<1>3. CASE op = "open"
  <2>1. of = Nil /\ Program[op] = OpenProgram
    BY <1>3, Operations DEF Fits
  <2>2. /\ "properties" \notin Parts /\ "properties" \in Checks
        /\ "instance" \in Parts /\ "device" \in Parts
    BY DEF Parts, PipelineParts, BufferParts, Checks
  <2> QED BY <1>3, <2>1, <2>2, Parted, OpenFacts
<1>4. CASE op = "detect"
  <2>1. of = Probe /\ Program[op] = DetectProgram
    BY <1>4, Operations DEF Fits
  <2>2. /\ "devices" \notin Parts /\ "families" \notin Parts /\ "instance" \in Parts
        /\ "devices" \in Checks /\ "families" \in Checks
    BY DEF Parts, PipelineParts, BufferParts, Checks
  <2> QED BY <1>4, <2>1, <2>2, Parted, DetectFacts
<1> QED BY <1>1, <1>2, <1>3, <1>4, Operations

-----------------------------------------------------------------------------
(* Calls begin.                                                              *)

(* Between two calls no object is half made.                                 *)
LEMMA Between ==
  ASSUME ComputeInv, call = Idle
  PROVE  /\ ~Making /\ ~Unmaking /\ call.op = "idle" /\ call.of = Nil
         /\ \A of \in Objects : None(of) \/ (of # Probe /\ Whole(of))
         /\ \A s \in inflight : s.pipe \in pending
<1>1. call.op = "idle" /\ call.of = Nil
  BY DEF Idle, Calling
<1>2. ~Making /\ ~Unmaking
  BY <1>1, Operations DEF Making, Unmaking
<1>3. \A of \in Objects : None(of) \/ (of # Probe /\ Whole(of))
  BY <1>2 DEF ComputeInv, WholeOrAbsent, Handling
<1>4. \A s \in inflight : s.pipe \in pending
  BY <1>1 DEF ComputeInv, WorkIsWatched, At
<1> QED BY <1>1, <1>2, <1>3, <1>4

(* The fields of a call that has just begun.                                 *)
LEMMA CallFields ==
  ASSUME NEW op, NEW of, NEW todo, NEW undo
  PROVE  /\ Calling(op, of, todo, undo).op = op /\ Calling(op, of, todo, undo).of = of
         /\ Calling(op, of, todo, undo).todo = todo /\ Calling(op, of, todo, undo).undo = undo
         /\ Calling(op, of, todo, undo).work = Nil
BY DEF Calling

(* Beginning a call disturbs no object.                                      *)
LEMMA Started ==
  ASSUME ComputeInv, NEW op \in DOMAIN Program \cup DOMAIN DestroyOrder, NEW of \in Objects,
         NEW todo \in Seq(Steps), Start(op, of, todo), Fits(op, of),
         of \in Pipelines \cup Buffers => IsOpen,
         inClose' \in BOOLEAN, closed' \in BOOLEAN
  PROVE  /\ call'.op = op /\ call'.of = of /\ call'.todo = todo /\ call'.undo = <<>>
         /\ ComputeTypeOK' /\ CallFits' /\ WholeOrAbsent' /\ UnderTheDevice'
         /\ DispatchKnown' /\ WorkIsWatched' /\ ContentsKnown'
<1>1. /\ call = Idle /\ call' = Calling(op, of, todo, <<>>)
      /\ UNCHANGED <<handles, pending, contents, command, fence, inflight>>
  BY DEF Start
<1>2. /\ call'.op = op /\ call'.of = of /\ call'.todo = todo /\ call'.undo = <<>>
      /\ call'.work = Nil
  BY <1>1, CallFields
<1>3. ComputeTypeOK'
  <2>1. call' \in [op : DOMAIN Program \cup DOMAIN DestroyOrder \cup {"idle", "undo", "dispatch"},
                   of : Objects, todo : Seq(Steps), undo : Seq(Registers), work : Submissions \cup {Nil}]
    BY <1>1 DEF Calling
  <2> QED BY <1>1, <2>1 DEF ComputeInv, ComputeTypeOK
<1>4. op # "idle" /\ op # "dispatch"
  BY Operations
<1>5. CallFits'
  BY <1>2, <1>4 DEF CallFits
<1>6. \A x \in Objects : None(x) \/ (x # Probe /\ Whole(x))
  BY <1>1, Between
<1>7. \A x : (None(x)' <=> None(x)) /\ (Whole(x)' <=> Whole(x))
  BY <1>1 DEF None, Whole, Exists
<1>8. WholeOrAbsent'
  BY <1>6, <1>7 DEF WholeOrAbsent
<1>9. IsOpen' <=> IsOpen
  BY <1>1 DEF IsOpen, Exists
<1>10. UnderTheDevice'
  BY <1>2, <1>7, <1>9 DEF ComputeInv, UnderTheDevice
<1>11. DispatchKnown'
  BY <1>2, <1>4 DEF DispatchKnown
<1>12. WorkIsWatched'
  BY <1>1, Between DEF WorkIsWatched
<1>13. ContentsKnown'
  BY <1>1 DEF ComputeInv, ContentsKnown, Mapped, Exists
<1> QED BY <1>2, <1>3, <1>5, <1>8, <1>10, <1>11, <1>12, <1>13

(* A constructor begins with nothing made and nothing to undo.               *)
LEMMA BeginsMaking ==
  ASSUME ComputeInv, NEW op \in DOMAIN Program, NEW of, Constructing(op, of), Fits(op, of),
         None(of), of \in Pipelines \cup Buffers => IsOpen, ~inClose
  PROVE  ComputeInv'
<1>1. /\ of \in Objects
      /\ Program[op] \in Seq(Steps) /\ Program[op] # <<>> /\ Distinct(Program[op])
      /\ \A k \in Parts : In(k, Program[op]) <=> k \in PartsOf(of)
  BY ProgramFacts
<1>2. Start(op, of, Program[op]) /\ inClose' = inClose /\ closed' = closed
  BY DEF Constructing
<1>3. /\ call'.op = op /\ call'.of = of /\ call'.todo = Program[op] /\ call'.undo = <<>>
      /\ ComputeTypeOK' /\ CallFits' /\ WholeOrAbsent' /\ UnderTheDevice'
      /\ DispatchKnown' /\ WorkIsWatched' /\ ContentsKnown'
  BY <1>1, <1>2, Started DEF ComputeInv, ComputeTypeOK
<1>4. handles' = handles
  BY <1>2 DEF Start
<1>5. \A k \in Parts : ~Exists(k, of)'
  BY <1>4 DEF None, Exists
<1>6. MakingKnown'
  <2>1. IsRest(Program[op], Program[op])
    BY <1>1, RestWhole
  <2>2. Distinct(<<>>) /\ \A k : ~In(k, <<>>)
    BY DEF Distinct, In
  <2> QED BY <1>1, <1>2, <1>3, <1>5, <2>1, <2>2 DEF MakingKnown
<1>7. ~Unmaking'
  BY <1>3, Operations DEF Unmaking
<1>8. UnmakingKnown' /\ UnmakingOrdered'
  BY <1>7 DEF UnmakingKnown, UnmakingOrdered
<1>9. CloseKnown'
  BY <1>2, <1>4 DEF ComputeInv, CloseKnown, IsOpen, Exists
<1> QED BY <1>3, <1>6, <1>8, <1>9 DEF ComputeInv

(* open begins while there is no device, allocate and compute_pipeline while *)
(* there is one, and detection at any time.                                  *)
LEMMA OpenStarts ==
  ASSUME ComputeInv, Open PROVE ComputeInv'
<1>1. call = Idle /\ Constructing("open", Nil) /\ ~IsOpen /\ ~closed
  BY DEF Open, Constructing, Start
<1>2. None(Nil)
  BY <1>1, Between, Parted DEF Whole, IsOpen, Parts
<1>3. ~inClose
  BY <1>1 DEF ComputeInv, CloseKnown
<1>4. "open" \in DOMAIN Program /\ Fits("open", Nil)
  BY Operations DEF Fits
<1> QED BY <1>1, <1>2, <1>3, <1>4, BeginsMaking, KindsApart

(* An allocation begins with nothing made.                                 *)
LEMMA AllocateStarts ==
  ASSUME ComputeInv, NEW b \in Buffers, Allocate(b) PROVE ComputeInv'
<1>1. call = Idle /\ Constructing("allocate", b) /\ IsOpen /\ ~inClose /\ ~Exists("mapping", b)
  BY DEF Allocate, Constructing, Start, Mapped
<1>2. None(b)
  BY <1>1, Between, Parted DEF Whole, Parts, BufferParts
<1>3. "allocate" \in DOMAIN Program /\ Fits("allocate", b)
  BY Operations DEF Fits
<1> QED BY <1>1, <1>2, <1>3, BeginsMaking

(* The making of a pipeline begins with nothing made.                      *)
LEMMA CompileStarts ==
  ASSUME ComputeInv, NEW p \in Pipelines, Compile(p) PROVE ComputeInv'
<1>1. call = Idle /\ Constructing("compile", p) /\ IsOpen /\ ~inClose /\ ~Exists("fence", p)
  BY DEF Compile, Constructing, Start, Built
<1>2. None(p)
  BY <1>1, Between, Parted DEF Whole, Parts, PipelineParts
<1>3. "compile" \in DOMAIN Program /\ Fits("compile", p)
  BY Operations DEF Fits
<1> QED BY <1>1, <1>2, <1>3, BeginsMaking

(* Detection begins with nothing made.                                     *)
LEMMA DetectStarts ==
  ASSUME ComputeInv, Detect PROVE ComputeInv'
<1>1. call = Idle /\ Constructing("detect", Probe) /\ ~inClose
  BY DEF Detect, Constructing, Start
<1>2. None(Probe)
  BY <1>1, Between, Parted
<1>3. "detect" \in DOMAIN Program /\ Fits("detect", Probe)
  BY Operations DEF Fits
<1> QED BY <1>1, <1>2, <1>3, BeginsMaking, KindsApart

(* A destructor begins with the whole object in its list, the fence of a     *)
(* pipeline, the mapping of a buffer and the device first.                   *)
LEMMA BeginsDestroying ==
  ASSUME ComputeInv, NEW p \in Pipelines, DestroyPipeline(p), UNCHANGED <<inClose, closed>>
  PROVE  ComputeInv'
<1> DEFINE todo == Draining(p) \o DestroyList
<1>1. call = Idle /\ Start("destroy", p, todo) /\ Exists("fence", p)
  BY DEF DestroyPipeline, Start, Built, DestroyList
<1>2. /\ todo \in Seq(Steps) /\ todo # <<>> /\ Distinct(todo)
      /\ \A k : In(k, todo) <=> (p \in pending /\ k = "drain") \/ In(k, DestroyList)
      /\ p \notin pending => todo[1] = "fence"
      /\ p \in pending => todo[1] = "drain" /\ Len(todo) > 1 /\ todo[2] = "fence"
  BY DrainingFacts
<1> HIDE DEF todo
<1>3. Whole(p) /\ PartsOf(p) = PipelineParts /\ p \in Objects
  BY <1>1, Between, Parted DEF None, Parts, PipelineParts
<1>4. IsOpen
  BY <1>1 DEF ComputeInv, UnderTheDevice, None, Parts, PipelineParts
<1>5. "destroy" \in DOMAIN DestroyOrder /\ Fits("destroy", p)
  BY Operations DEF Fits
<1>6. /\ call'.op = "destroy" /\ call'.of = p /\ call'.todo = todo /\ call'.undo = <<>>
      /\ ComputeTypeOK' /\ CallFits' /\ WholeOrAbsent' /\ UnderTheDevice'
      /\ DispatchKnown' /\ WorkIsWatched' /\ ContentsKnown'
  BY <1>1, <1>2, <1>3, <1>4, <1>5, Started DEF ComputeInv, ComputeTypeOK
<1>7. handles' = handles
  BY <1>1 DEF Start
<1>8. \A k \in Parts : Exists(k, p)' <=> k \in PipelineParts
  BY <1>3, <1>7 DEF Whole, Exists
<1>9. MakingKnown'
  BY <1>6, Operations DEF MakingKnown, Making
<1>10. \A k : In(k, todo) <=>
         (p \in pending /\ k = "drain") \/ k \in PipelineParts \ {"commandBuffer", "descriptorSet"}
  BY <1>2, DestroyFacts
<1>11. UnmakingKnown'
  <2>1. \A i \in 1 .. Len(todo) : todo[i] \in Parts \cup {"drain"}
    BY <1>10 DEF In, Parts
  <2>2. \A k \in Parts : In(k, todo) => Exists(k, p)'
    BY <1>8, <1>10 DEF Parts, PipelineParts, BufferParts
  <2>3. /\ In("commandPool", todo) /\ "commandBuffer" \in Children("commandPool")
        /\ In("descriptorPool", todo) /\ "descriptorSet" \in Children("descriptorPool")
        /\ "commandPool" \in Parts /\ "descriptorPool" \in Parts
    BY <1>10 DEF PipelineParts, Children, Parts
  <2>4. \A k \in Parts : Exists(k, p)' =>
          In(k, todo) \/ \E m \in Parts : In(m, todo) /\ k \in Children(m)
    BY <1>8, <1>10, <2>3
  <2> QED BY <1>2, <1>6, <2>1, <2>2, <2>4 DEF UnmakingKnown
<1>12. UnmakingOrdered'
  <2>1. ~In("commandBuffer", todo) /\ ~In("descriptorSet", todo)
    BY <1>10
  <2>2. ~Exists("mapping", p)' /\ ~Exists("device", p)'
    BY <1>8 DEF Parts, PipelineParts, BufferParts
  <2>3. todo[1] = "fence" \/ todo[1] = "drain"
    BY <1>2
  <2>4. In("drain", todo) => todo[1] = "drain" /\ Len(todo) > 1 /\ todo[2] = "fence"
    BY <1>2, <1>10 DEF PipelineParts
  <2> QED BY <1>6, <2>1, <2>2, <2>3, <2>4 DEF UnmakingOrdered
<1>13. CloseKnown'
  BY <1>7 DEF ComputeInv, CloseKnown, IsOpen, Exists
<1> QED BY <1>6, <1>9, <1>11, <1>12, <1>13 DEF ComputeInv

(* Freeing a buffer begins with all of it there.                           *)
LEMMA BeginsFreeing ==
  ASSUME ComputeInv, NEW b \in Buffers, FreeBuffer(b), UNCHANGED <<inClose, closed>>,
         inClose => Built = {}
  PROVE  ComputeInv'
<1>1. call = Idle /\ Start("free", b, FreeList) /\ Exists("mapping", b)
  BY DEF FreeBuffer, Start, Mapped, FreeList
<1>2. /\ FreeList \in Seq(Steps) /\ FreeList # <<>> /\ Distinct(FreeList)
      /\ FreeList[1] = "mapping"
      /\ \A k : In(k, FreeList) <=> k \in BufferParts
  BY FreeFacts
<1>3. Whole(b) /\ PartsOf(b) = BufferParts /\ b \in Objects
  BY <1>1, Between, Parted DEF None, Parts, BufferParts
<1>4. IsOpen
  BY <1>1 DEF ComputeInv, UnderTheDevice, None, Parts, BufferParts
<1>5. "free" \in DOMAIN DestroyOrder /\ Fits("free", b)
  BY Operations DEF Fits
<1>6. /\ call'.op = "free" /\ call'.of = b /\ call'.todo = FreeList /\ call'.undo = <<>>
      /\ ComputeTypeOK' /\ CallFits' /\ WholeOrAbsent' /\ UnderTheDevice'
      /\ DispatchKnown' /\ WorkIsWatched' /\ ContentsKnown'
  BY <1>1, <1>2, <1>3, <1>4, <1>5, Started DEF ComputeInv, ComputeTypeOK
<1>7. handles' = handles
  BY <1>1 DEF Start
<1>8. \A k \in Parts : Exists(k, b)' <=> k \in BufferParts
  BY <1>3, <1>7 DEF Whole, Exists
<1>9. MakingKnown'
  BY <1>6, Operations DEF MakingKnown, Making
<1>10. UnmakingKnown'
  <2>1. \A i \in 1 .. Len(FreeList) : FreeList[i] \in Parts \cup {"drain"}
    BY <1>2 DEF In, Parts
  <2> QED BY <1>2, <1>6, <1>8, <2>1 DEF UnmakingKnown
<1>11. UnmakingOrdered'
  <2>1. /\ ~In("commandBuffer", FreeList) /\ ~In("descriptorSet", FreeList)
        /\ ~In("drain", FreeList) /\ In("memory", FreeList)
    BY <1>2 DEF BufferParts
  <2>2. ~Exists("fence", b)' /\ ~Exists("device", b)'
    BY <1>8 DEF Parts, PipelineParts, BufferParts
  <2>3. Built' = Built
    BY <1>7 DEF Built, Exists
  <2> QED BY <1>2, <1>6, <2>1, <2>2, <2>3 DEF UnmakingOrdered
<1>12. CloseKnown'
  BY <1>7 DEF ComputeInv, CloseKnown, IsOpen, Exists
<1> QED BY <1>6, <1>9, <1>10, <1>11, <1>12 DEF ComputeInv

(* The device goes once every pipeline and buffer has.                     *)
LEMMA CloseDeviceStarts ==
  ASSUME ComputeInv, CloseDevice PROVE ComputeInv'
<1>1. /\ call = Idle /\ Start("close", Nil, CloseList) /\ inClose /\ closed' /\ inClose' = inClose
      /\ ~closed /\ Built = {} /\ Mapped = {}
  BY DEF CloseDevice, Start, CloseList
<1>2. /\ CloseList \in Seq(Steps) /\ CloseList # <<>> /\ Distinct(CloseList)
      /\ CloseList[1] = "device"
      /\ \A k : In(k, CloseList) <=> k \in {"instance", "device"}
  BY CloseFacts
<1>3. IsOpen
  BY <1>1 DEF ComputeInv, CloseKnown
<1>4. Whole(Nil) /\ PartsOf(Nil) = {"instance", "device"} /\ Nil \in Objects
  BY <1>1, <1>3, Between, Parted DEF None, Parts, IsOpen
<1>5. "close" \in DOMAIN DestroyOrder /\ Fits("close", Nil)
  BY Operations DEF Fits
<1>6. /\ call'.op = "close" /\ call'.of = Nil /\ call'.todo = CloseList /\ call'.undo = <<>>
      /\ ComputeTypeOK' /\ CallFits' /\ WholeOrAbsent' /\ UnderTheDevice'
      /\ DispatchKnown' /\ WorkIsWatched' /\ ContentsKnown'
  <2>1. closed' \in BOOLEAN /\ inClose' \in BOOLEAN
    BY <1>1 DEF ComputeInv, ComputeTypeOK, CloseDevice
  <2> QED BY <1>1, <1>2, <1>3, <1>4, <1>5, <2>1, Started
<1>7. handles' = handles
  BY <1>1 DEF Start
<1>8. \A k \in Parts : Exists(k, Nil)' <=> k \in {"instance", "device"}
  BY <1>4, <1>7 DEF Whole, Exists
<1>9. MakingKnown'
  BY <1>6, Operations DEF MakingKnown, Making
<1>10. UnmakingKnown'
  <2>1. \A i \in 1 .. Len(CloseList) : CloseList[i] \in Parts \cup {"drain"}
    BY <1>2 DEF In, Parts
  <2> QED BY <1>2, <1>6, <1>8, <2>1 DEF UnmakingKnown
<1>11. UnmakingOrdered'
  <2>1. \A of \in Pipelines \cup Buffers : None(of)
    <3>1. \A p \in Pipelines : ~Exists("fence", p)
      BY <1>1 DEF Built
    <3>2. \A b \in Buffers : ~Exists("mapping", b)
      BY <1>1 DEF Mapped
    <3> QED BY <1>1, <3>1, <3>2, Between, Parted DEF Whole, Parts, PipelineParts, BufferParts
  <2>2. \A of \in Pipelines \cup Buffers : None(of)'
    BY <1>7, <2>1 DEF None, Exists
  <2>3. /\ ~In("commandBuffer", CloseList) /\ ~In("descriptorSet", CloseList)
        /\ ~In("drain", CloseList) /\ In("instance", CloseList)
    BY <1>2
  <2>4. ~Exists("fence", Nil)' /\ ~Exists("mapping", Nil)'
    BY <1>8 DEF Parts, PipelineParts, BufferParts
  <2> QED BY <1>1, <1>2, <1>6, <2>2, <2>3, <2>4 DEF UnmakingOrdered
<1>12. CloseKnown'
  BY <1>1 DEF CloseKnown
<1> QED BY <1>6, <1>9, <1>10, <1>11, <1>12 DEF ComputeInv

-----------------------------------------------------------------------------
(* Constructors go on.                                                       *)

(* What a constructor knows before its next entry point: it has not made     *)
(* that handle, nor the last one, and can undo what it has made.             *)
LEMMA MakingFacts ==
  ASSUME ComputeInv, Making
  PROVE  /\ call.op \in DOMAIN Program /\ call.of \in Objects /\ Fits(call.op, call.of) /\ ~inClose
         /\ call.todo \in Seq(Steps) /\ call.todo # <<>> /\ Distinct(call.todo)
         /\ IsRest(call.todo, Program[call.op]) /\ Program[call.op] \in Seq(Steps)
         /\ Head(call.todo) = call.todo[1] /\ Head(call.todo) \in Parts \cup Checks
         /\ Head(call.todo) \in Parts =>
              Head(call.todo) \in PartsOf(call.of) /\ ~Exists(Head(call.todo), call.of)
         /\ \A k \in Parts : Exists(k, call.of) <=> k \in PartsOf(call.of) /\ ~In(k, call.todo)
         /\ call.undo \in Seq(Registers) /\ Distinct(call.undo)
         /\ \A k \in Parts : In(k, call.undo) <=> k \in Registers /\ Exists(k, call.of)
         /\ ~Exists("fence", call.of) /\ ~Exists("mapping", call.of) /\ ~Exists("device", call.of)
         /\ \A k \in Parts : Exists(k, call.of) =>
              In(k, call.undo) \/ \E m \in Parts : In(m, call.undo) /\ k \in Children(m)
<1> DEFINE op == call.op of == call.of full == Program[call.op]
<1>1. op \in DOMAIN Program /\ Fits(op, of)
  BY DEF Making, ComputeInv, CallFits
<1>2. /\ of \in Objects /\ full \in Seq(Steps) /\ full # <<>> /\ Distinct(full)
      /\ \A k \in Parts : In(k, full) <=> k \in PartsOf(of)
      /\ \A k : In(k, full) => k \in Parts \cup Checks
      /\ op = "compile" => full[Len(full)] = "fence"
      /\ op = "allocate" => full[Len(full)] = "mapping"
      /\ op = "open" => full[Len(full)] = "device"
  BY <1>1, ProgramFacts
<1>3. /\ IsRest(call.todo, full)
      /\ \A k \in Parts : Exists(k, of) <=> k \in PartsOf(of) /\ ~In(k, call.todo)
      /\ Distinct(call.undo)
      /\ \A k \in Parts : In(k, call.undo) <=> k \in Registers /\ Exists(k, of)
      /\ ~inClose
  BY DEF ComputeInv, MakingKnown
<1>4. call.todo \in Seq(Steps) /\ call.undo \in Seq(Registers)
  BY DEF ComputeInv, ComputeTypeOK
<1>5. /\ call.todo # <<>> /\ Distinct(call.todo) /\ Head(call.todo) = call.todo[1]
      /\ In(full[Len(full)], call.todo)
      /\ \A k : In(k, call.todo) => In(k, full)
      /\ \A m \in 1 .. Len(full) - 1 : In(full[m], call.todo) => In(full[m + 1], call.todo)
  BY <1>2, <1>3, <1>4, RestKeeps
<1>6. In(Head(call.todo), call.todo)
  <2>1. 1 \in 1 .. Len(call.todo)
    BY <1>4, <1>5
  <2> QED BY <1>5, <2>1 DEF In
<1>7. /\ Head(call.todo) \in Parts \cup Checks
      /\ Head(call.todo) \in Parts => Head(call.todo) \in PartsOf(of) /\ ~Exists(Head(call.todo), of)
  BY <1>2, <1>3, <1>5, <1>6
<1>8. ~Exists("fence", of) /\ ~Exists("mapping", of) /\ ~Exists("device", of)
  <2> DEFINE end == full[Len(full)]
  <2>0. In(end, call.todo) /\ {"fence", "mapping", "device"} \subseteq Parts
    BY <1>5 DEF Parts, PipelineParts, BufferParts
  <2>1. CASE op = "compile"
    <3>1. PartsOf(of) = PipelineParts
      BY <1>1, <2>1, Parted DEF Fits
    <3>2. end = "fence" /\ "mapping" \notin PipelineParts /\ "device" \notin PipelineParts
      BY <1>2, <2>1 DEF PipelineParts
    <3> HIDE DEF end
    <3> QED BY <1>3, <2>0, <3>1, <3>2
  <2>2. CASE op = "allocate"
    <3>1. PartsOf(of) = BufferParts
      BY <1>1, <2>2, Parted DEF Fits
    <3>2. end = "mapping" /\ "fence" \notin BufferParts /\ "device" \notin BufferParts
      BY <1>2, <2>2 DEF BufferParts
    <3> HIDE DEF end
    <3> QED BY <1>3, <2>0, <3>1, <3>2
  <2>3. CASE op = "open"
    BY <1>1, <1>2, <1>3, <1>5, <2>3, Parted DEF Fits, Parts, PipelineParts, BufferParts
  <2>4. CASE op = "detect"
    BY <1>1, <1>3, <2>4, Parted DEF Fits, Parts, PipelineParts, BufferParts
  <2> QED BY <1>1, <2>1, <2>2, <2>3, <2>4, Operations
<1>9. ASSUME op = "compile"
      PROVE  /\ Exists("descriptorSet", of) => In("descriptorPool", call.undo)
             /\ Exists("commandBuffer", of) => In("commandPool", call.undo)
  <2>1. full = CompileProgram /\ PartsOf(of) = PipelineParts
    BY <1>1, <1>9, Operations, Parted DEF Fits
  <2>2. /\ In("descriptorPool", call.todo) => In("descriptorSet", call.todo)
        /\ In("commandPool", call.todo) => In("commandBuffer", call.todo)
    <3>1. 3 \in 1 .. Len(full) - 1 /\ 7 \in 1 .. Len(full) - 1
      BY <2>1, CompileFacts
    <3>2. /\ full[3] = "descriptorPool" /\ full[3 + 1] = "descriptorSet"
          /\ full[7] = "commandPool" /\ full[7 + 1] = "commandBuffer"
      BY <2>1, CompileFacts
    <3> HIDE DEF full
    <3> QED BY <1>5, <3>1, <3>2
  <2>3. /\ {"descriptorPool", "descriptorSet", "commandPool", "commandBuffer"} \subseteq Parts
        /\ "descriptorPool" \in PipelineParts /\ "commandPool" \in PipelineParts
        /\ "descriptorPool" \in Registers /\ "commandPool" \in Registers
    BY DEF Parts, PipelineParts, Registers
  <2> QED BY <1>3, <2>1, <2>2, <2>3
<1>10. \A k \in Parts : Exists(k, of) =>
         In(k, call.undo) \/ \E m \in Parts : In(m, call.undo) /\ k \in Children(m)
  <2> TAKE k \in Parts
  <2> HAVE Exists(k, of)
  <2>1. CASE k \in Registers
    BY <1>3, <2>1
  <2>2. CASE k \in {"descriptorSet", "commandBuffer"}
    <3>1. op = "compile"
      <4>1. of \in Pipelines
        BY <1>3, <2>2, Parted DEF Objects, BufferParts, ComputeInv, ComputeTypeOK
      <4> QED BY <1>1, <4>1, KindsApart, Operations DEF Fits
    <3>2. /\ "descriptorSet" \in Children("descriptorPool") /\ "descriptorPool" \in Parts
          /\ "commandBuffer" \in Children("commandPool") /\ "commandPool" \in Parts
      BY DEF Children, Parts, PipelineParts
    <3> QED BY <1>9, <2>2, <3>1, <3>2
  <2>3. k \in Registers \cup {"descriptorSet", "commandBuffer", "fence", "mapping", "device"}
    BY DEF Parts, PipelineParts, BufferParts, Registers
  <2> QED BY <1>8, <2>1, <2>2, <2>3
<1> QED BY <1>1, <1>2, <1>3, <1>4, <1>5, <1>7, <1>8, <1>10

(* A rollback begins with what was registered.                               *)
LEMMA BeginsUndoing ==
  ASSUME NEW undo \in Seq(Registers), undo # <<>>, Distinct(undo),
         NEW of \in Objects,
         \A k \in Parts : In(k, undo) => Exists(k, of)',
         \A k \in Parts : Exists(k, of)' =>
           In(k, undo) \/ \E m \in Parts : In(m, undo) /\ k \in Children(m),
         ~Exists("fence", of)', ~Exists("mapping", of)', ~Exists("device", of)',
         call' = Calling("undo", of, undo, <<>>), ~inClose'
  PROVE  UnmakingKnown' /\ UnmakingOrdered' /\ MakingKnown' /\ DispatchKnown' /\ CallFits'
<1>1. call'.op = "undo" /\ call'.of = of /\ call'.todo = undo
  BY CallFields
<1>2. \A i \in 1 .. Len(undo) : undo[i] \in Registers
  OBVIOUS
<1>3. Registers \subseteq Parts
  BY DEF Registers, Parts, PipelineParts, BufferParts
<1>4. UnmakingKnown'
  BY <1>1, <1>2, <1>3 DEF UnmakingKnown
<1>5. ~In("commandBuffer", undo) /\ ~In("descriptorSet", undo) /\ ~In("drain", undo)
  BY <1>2 DEF In, Registers
<1>6. UnmakingOrdered'
  BY <1>1, <1>5 DEF UnmakingOrdered
<1>7. MakingKnown' /\ DispatchKnown'
  BY <1>1, Operations DEF MakingKnown, DispatchKnown, Making
<1>8. CallFits'
  BY <1>1 DEF CallFits, Fits
<1> QED BY <1>4, <1>6, <1>7, <1>8

(* A constructor that fails has undone nothing yet and disturbs nothing.     *)
LEMMA MakeFailsStep ==
  ASSUME ComputeInv, MakeFails PROVE ComputeInv'
<1> DEFINE of == call.of
<1>1. /\ Making
      /\ UNCHANGED <<handles, inClose, closed, pending, contents, command, fence, inflight>>
      /\ call' = IF call.undo = <<>> THEN Idle ELSE Calling("undo", of, call.undo, <<>>)
  BY DEF MakeFails, Undoing
<1>2. /\ call.op \in DOMAIN Program /\ of \in Objects /\ ~inClose
      /\ call.undo \in Seq(Registers) /\ Distinct(call.undo)
      /\ \A k \in Parts : In(k, call.undo) <=> k \in Registers /\ Exists(k, of)
      /\ ~Exists("fence", of) /\ ~Exists("mapping", of) /\ ~Exists("device", of)
      /\ \A k \in Parts : Exists(k, of) =>
           In(k, call.undo) \/ \E m \in Parts : In(m, call.undo) /\ k \in Children(m)
  BY <1>1, MakingFacts
<1>3. /\ \A k, x : Exists(k, x)' <=> Exists(k, x)
      /\ \A x : (None(x)' <=> None(x)) /\ (Whole(x)' <=> Whole(x))
  BY <1>1 DEF None, Whole, Exists
<1>4. /\ \A x \in Objects : x # of => None(x) \/ (x # Probe /\ Whole(x))
      /\ call.op # "dispatch" /\ call.op # "idle"
  BY <1>2, Operations DEF ComputeInv, WholeOrAbsent, Handling
<1>5. WorkIsWatched'
  BY <1>1, <1>4 DEF ComputeInv, WorkIsWatched, At
<1>6. ContentsKnown' /\ CloseKnown'
  BY <1>1 DEF ComputeInv, ContentsKnown, CloseKnown, Mapped, IsOpen, Exists
<1>7. CASE call.undo = <<>>
  <2>1. call' = Idle
    BY <1>1, <1>7
  <2>2. call'.op = "idle" /\ call'.of = Nil /\ call'.todo = <<>>
    BY <2>1 DEF Idle, Calling
  <2>3. None(of)
    <3>1. \A k : ~In(k, call.undo)
      BY <1>7 DEF In
    <3> QED BY <1>2, <3>1 DEF None
  <2>4. ~Making' /\ ~Unmaking'
    BY <2>2, Operations DEF Making, Unmaking
  <2>5. WholeOrAbsent'
    BY <1>3, <1>4, <2>3 DEF WholeOrAbsent
  <2>6. UnderTheDevice'
    BY <1>1, <1>3, <2>2, KindsApart DEF ComputeInv, UnderTheDevice, IsOpen
  <2>7. ComputeTypeOK'
    <3>1. Idle \in [op : DOMAIN Program \cup DOMAIN DestroyOrder \cup {"idle", "undo", "dispatch"},
                    of : Objects, todo : Seq(Steps), undo : Seq(Registers), work : Submissions \cup {Nil}]
      BY DEF Idle, Calling, Objects
    <3> QED BY <1>1, <2>1, <3>1 DEF ComputeInv, ComputeTypeOK
  <2>8. CallFits' /\ DispatchKnown'
    BY <2>1, <2>2 DEF CallFits, Fits, DispatchKnown
  <2> QED BY <1>5, <1>6, <2>4, <2>5, <2>6, <2>7, <2>8
          DEF ComputeInv, MakingKnown, UnmakingKnown, UnmakingOrdered
<1>8. CASE call.undo # <<>>
  <2>1. call' = Calling("undo", of, call.undo, <<>>)
    BY <1>1, <1>8
  <2>2. call'.op = "undo" /\ call'.of = of
    BY <2>1, CallFields
  <2>3. UnmakingKnown' /\ UnmakingOrdered' /\ MakingKnown' /\ DispatchKnown' /\ CallFits'
    <3>1. ~inClose'
      BY <1>1, <1>2
    <3> HIDE DEF of
    <3> QED BY <1>2, <1>3, <1>8, <2>1, <3>1, BeginsUndoing
  <2>4. WholeOrAbsent'
    BY <1>3, <1>4, <2>2 DEF WholeOrAbsent, Handling, Unmaking
  <2>5. UnderTheDevice'
    BY <1>1, <1>3, <2>2 DEF ComputeInv, UnderTheDevice, IsOpen
  <2>6. ComputeTypeOK'
    <3>1. call.undo \in Seq(Steps)
      <4>1. Registers \subseteq Steps
        BY DEF Registers, Steps, Parts, PipelineParts, BufferParts
      <4> QED BY <1>2, <4>1, SeqMonotonic
    <3>2. call' \in [op : DOMAIN Program \cup DOMAIN DestroyOrder \cup {"idle", "undo", "dispatch"},
                    of : Objects, todo : Seq(Steps), undo : Seq(Registers), work : Submissions \cup {Nil}]
      BY <1>2, <2>1, <3>1 DEF Calling
    <3> QED BY <1>1, <3>2 DEF ComputeInv, ComputeTypeOK
  <2> QED BY <1>5, <1>6, <2>3, <2>4, <2>5, <2>6 DEF ComputeInv
<1> QED BY <1>7, <1>8

(* A constructor takes one entry point.                                      *)
LEMMA MakeStep ==
  ASSUME ComputeInv, Make PROVE ComputeInv'
<1>0. PICK of \in Objects : of = call.of
  BY DEF ComputeInv, ComputeTypeOK
<1> DEFINE kind == Head(call.todo)
           undo == IF kind \in Registers THEN <<kind>> \o call.undo ELSE call.undo
<1>1. /\ Making
      /\ handles' = IF kind \in Checks THEN handles ELSE handles \cup {Handle(kind, of)}
      /\ contents' = IF kind = "mapping" THEN [contents EXCEPT ![of] = Garbage] ELSE contents
      /\ command' = IF kind = "commandBuffer" THEN [command EXCEPT ![of] = "initial"] ELSE command
      /\ fence' = IF kind = "fence" THEN [fence EXCEPT ![of] = "reset"] ELSE fence
      /\ UNCHANGED <<inClose, closed, pending, inflight>>
  BY <1>0 DEF Make
<1>2. call' = IF Len(call.todo) > 1 THEN Calling(call.op, of, Tail(call.todo), undo)
              ELSE IF call.op = "detect" THEN Calling("undo", of, undo, <<>>)
              ELSE Idle
  BY <1>0 DEF Make, Made
<1>3. /\ call.op \in DOMAIN Program /\ of \in Objects /\ Fits(call.op, of) /\ ~inClose
      /\ call.todo \in Seq(Steps) /\ call.todo # <<>> /\ Distinct(call.todo)
      /\ IsRest(call.todo, Program[call.op]) /\ Program[call.op] \in Seq(Steps)
      /\ kind = call.todo[1] /\ kind \in Parts \cup Checks
      /\ kind \in Parts => kind \in PartsOf(of) /\ ~Exists(kind, of)
      /\ \A k \in Parts : Exists(k, of) <=> k \in PartsOf(of) /\ ~In(k, call.todo)
      /\ call.undo \in Seq(Registers) /\ Distinct(call.undo)
      /\ \A k \in Parts : In(k, call.undo) <=> k \in Registers /\ Exists(k, of)
  BY <1>0, <1>1, MakingFacts
<1>4. /\ Parts \cap Checks = {} /\ Registers \subseteq Parts
      /\ {"fence", "mapping", "device", "commandBuffer"} \subseteq Parts
  BY DEF Parts, PipelineParts, BufferParts, Checks, Registers
<1>5. \A k \in Parts : \A x : Exists(k, x)' <=> Exists(k, x) \/ (k = kind /\ x = of)
  <2>1. \A k, x : Handle(k, x) = Handle(kind, of) <=> k = kind /\ x = of
    BY DEF Handle
  <2> QED BY <1>1, <1>3, <1>4, <2>1 DEF Exists
<1>6. /\ undo \in Seq(Registers) /\ Distinct(undo)
      /\ \A k \in Parts : In(k, undo) <=> k \in Registers /\ Exists(k, of)'
  <2>1. CASE kind \in Registers
    <3>1. ~In(kind, call.undo)
      BY <1>3, <1>4, <2>1
    <3>2. /\ <<kind>> \o call.undo \in Seq(Registers) /\ Distinct(<<kind>> \o call.undo)
          /\ \A k : In(k, <<kind>> \o call.undo) <=> k = kind \/ In(k, call.undo)
      <4> HIDE DEF kind
      <4> QED BY <1>3, <2>1, <3>1, Pushed
    <3> QED BY <1>3, <1>5, <2>1, <3>2
  <2>2. CASE kind \notin Registers
    BY <1>3, <1>5, <2>2
  <2> QED BY <2>1, <2>2
<1>7. kind = "mapping" => of \in Buffers
  BY <1>3, <1>4, KindsApart DEF PartsOf, PipelineParts
<1>8. /\ \A x \in Objects : x # of => None(x) \/ (x # Probe /\ Whole(x))
      /\ call.op # "dispatch" /\ call.op # "idle"
  BY <1>0, <1>3, Operations DEF ComputeInv, WholeOrAbsent, Handling
<1>9. \A x : x # of => (None(x)' <=> None(x)) /\ (Whole(x)' <=> Whole(x))
  BY <1>5 DEF None, Whole
<1> HIDE DEF undo, kind
<1>10. WorkIsWatched'
  BY <1>1, <1>8 DEF ComputeInv, WorkIsWatched, At
<1>11. ContentsKnown'
  <2>1. \A b \in Buffers : b \in Mapped' <=> b \in Mapped \/ (kind = "mapping" /\ b = of)
    BY <1>4, <1>5 DEF Mapped
  <2>2. contents \in [Buffers -> Data \cup {Garbage, Absent}] /\ Garbage # Absent
    BY ComputeAssumption DEF ComputeInv, ComputeTypeOK
  <2> QED BY <1>1, <1>7, <2>1, <2>2 DEF ComputeInv, ContentsKnown
<1>12. CloseKnown'
  BY <1>1, <1>3 DEF ComputeInv, CloseKnown
<1>13. IsOpen => IsOpen'
  BY <1>4, <1>5 DEF IsOpen
<1>14. of \in Pipelines \cup Buffers => IsOpen
  BY <1>0 DEF ComputeInv, UnderTheDevice
<1>15. UnderTheDevice'
  <2>1. call'.of = of \/ call'.of = Nil
    BY <1>2 DEF Calling, Idle
  <2> QED BY <1>9, <1>13, <1>14, <2>1, KindsApart DEF ComputeInv, UnderTheDevice
<1>16. /\ handles' \subseteq [kind : Parts, of : Objects]
       /\ inClose' \in BOOLEAN /\ closed' \in BOOLEAN /\ pending' \subseteq Pipelines
       /\ contents' \in [Buffers -> Data \cup {Garbage, Absent}]
       /\ command' \in [Pipelines -> {"initial", "recording", "executable"}]
       /\ fence' \in [Pipelines -> {"reset", "armed", "signalled"}]
       /\ inflight' \subseteq Submissions
  <2>1. handles' \subseteq [kind : Parts, of : Objects]
    BY <1>1, <1>3 DEF ComputeInv, ComputeTypeOK, Handle
  <2>2. inClose' \in BOOLEAN /\ closed' \in BOOLEAN
    BY <1>1 DEF ComputeInv, ComputeTypeOK
  <2>3. pending' \subseteq Pipelines /\ inflight' \subseteq Submissions
    BY <1>1 DEF ComputeInv, ComputeTypeOK
  <2>4. contents' \in [Buffers -> Data \cup {Garbage, Absent}]
    BY <1>1 DEF ComputeInv, ComputeTypeOK
  <2>5. command' \in [Pipelines -> {"initial", "recording", "executable"}]
    BY <1>1 DEF ComputeInv, ComputeTypeOK
  <2>6. fence' \in [Pipelines -> {"reset", "armed", "signalled"}]
    BY <1>1 DEF ComputeInv, ComputeTypeOK
  <2> QED BY <2>1, <2>2, <2>3, <2>4, <2>5, <2>6
<1> DEFINE Calls == [op : DOMAIN Program \cup DOMAIN DestroyOrder \cup {"idle", "undo", "dispatch"},
                     of : Objects, todo : Seq(Steps), undo : Seq(Registers), work : Submissions \cup {Nil}]
<1>17. /\ Tail(call.todo) \in Seq(Steps) /\ Distinct(Tail(call.todo))
       /\ Len(Tail(call.todo)) = Len(call.todo) - 1
       /\ \A k : In(k, Tail(call.todo)) <=> In(k, call.todo) /\ k # kind
  BY <1>3, TailDistinct DEF kind
<1>18. CASE Len(call.todo) > 1
  <2>1. /\ call' = Calling(call.op, of, Tail(call.todo), undo)
        /\ call'.op = call.op /\ call'.of = of /\ call'.todo = Tail(call.todo) /\ call'.undo = undo
    BY <1>2, <1>18, CallFields
  <2>2. call' \in Calls
    BY <1>3, <1>6, <1>17, <2>1 DEF Calling
  <2>3. ComputeTypeOK'
    BY <1>16, <2>2 DEF ComputeTypeOK
  <2>4. CallFits' /\ DispatchKnown'
    BY <1>3, <1>8, <2>1 DEF CallFits, DispatchKnown
  <2>5. Making' /\ ~Unmaking'
    BY <1>3, <2>1, Operations DEF Making, Unmaking
  <2>6. WholeOrAbsent'
    BY <1>8, <1>9, <2>1, <2>5 DEF WholeOrAbsent, Handling
  <2>7. MakingKnown'
    <3>1. IsRest(Tail(call.todo), Program[call.op])
      BY <1>3, <1>18, RestTail
    <3>2. \A k \in Parts : Exists(k, of)' <=> k \in PartsOf(of) /\ ~In(k, Tail(call.todo))
      BY <1>3, <1>5, <1>17
    <3> QED BY <1>1, <1>3, <1>6, <2>1, <3>1, <3>2 DEF MakingKnown
  <2> QED BY <1>10, <1>11, <1>12, <1>15, <2>3, <2>4, <2>5, <2>6, <2>7
          DEF ComputeInv, UnmakingKnown, UnmakingOrdered
<1>19. CASE Len(call.todo) = 1
  <2>1. Len(Tail(call.todo)) = 0 /\ \A k : ~In(k, Tail(call.todo))
    BY <1>17, <1>19 DEF In
  <2>2. Whole(of)'
    BY <1>3, <1>5, <1>17, <2>1 DEF Whole
  <2>3. CASE call.op = "detect"
    <3>1. of = Probe /\ PartsOf(of) = {"instance"} /\ "instance" \in Parts
      BY <1>3, <2>3, Parted DEF Fits, Parts
    <3>2. call' = Calling("undo", of, undo, <<>>) /\ call'.op = "undo" /\ call'.of = of
      BY <1>2, <1>19, <2>3, CallFields
    <3>3. \A k \in Parts : Exists(k, of)' <=> k = "instance"
      BY <2>2, <3>1 DEF Whole
    <3>4. In("instance", undo)
      BY <1>6, <3>1, <3>3 DEF Registers
    <3>5. undo # <<>>
      BY <3>4 DEF In
    <3>6. UnmakingKnown' /\ UnmakingOrdered' /\ MakingKnown' /\ DispatchKnown' /\ CallFits'
      <4>1. /\ ~Exists("fence", of)' /\ ~Exists("mapping", of)' /\ ~Exists("device", of)'
            /\ \A k \in Parts : In(k, undo) => Exists(k, of)'
            /\ \A k \in Parts : Exists(k, of)' => In(k, undo)
        BY <1>4, <1>6, <3>3, <3>4
      <4> QED BY <1>1, <1>3, <1>6, <3>2, <3>5, <4>1, BeginsUndoing
    <3>7. undo \in Seq(Steps)
      <4>1. Registers \subseteq Steps
        BY DEF Registers, Steps, Parts, PipelineParts, BufferParts
      <4> QED BY <1>6, <4>1, SeqMonotonic
    <3>8. call' \in Calls
      BY <1>3, <3>2, <3>7 DEF Calling
    <3>9. ComputeTypeOK'
      BY <1>16, <3>8 DEF ComputeTypeOK
    <3>10. WholeOrAbsent'
      BY <1>8, <1>9, <3>2 DEF WholeOrAbsent, Handling, Unmaking
    <3> QED BY <1>10, <1>11, <1>12, <1>15, <3>6, <3>9, <3>10 DEF ComputeInv
  <2>4. CASE call.op # "detect"
    <3>1. call' = Idle /\ call'.op = "idle" /\ call'.of = Nil
      BY <1>2, <1>19, <2>4 DEF Idle, Calling
    <3>2. ~Making' /\ ~Unmaking'
      BY <3>1, Operations DEF Making, Unmaking
    <3>3. of # Probe
      BY <1>3, <2>4, KindsApart, Operations DEF Fits
    <3>4. WholeOrAbsent'
      BY <1>8, <1>9, <2>2, <3>3 DEF WholeOrAbsent
    <3>5. Idle \in Calls
      BY DEF Idle, Calling, Objects
    <3>6. ComputeTypeOK'
      BY <1>16, <3>1, <3>5 DEF ComputeTypeOK
    <3>7. CallFits' /\ DispatchKnown'
      BY <3>1 DEF CallFits, Fits, DispatchKnown
    <3> QED BY <1>10, <1>11, <1>12, <1>15, <3>2, <3>4, <3>6, <3>7
            DEF ComputeInv, MakingKnown, UnmakingKnown, UnmakingOrdered
  <2> QED BY <2>3, <2>4
<1>20. Len(call.todo) > 1 \/ Len(call.todo) = 1
  <2>1. call.todo \in Seq(Steps) /\ call.todo # <<>>
    BY <1>3
  <2>2. Len(call.todo) \in Nat /\ Len(call.todo) # 0
    BY <2>1, EmptySeq
  <2>3. \A n \in Nat : n # 0 => n > 1 \/ n = 1
    OBVIOUS
  <2> QED BY <2>2, <2>3
<1> QED BY <1>18, <1>19, <1>20

-----------------------------------------------------------------------------
(* Destructors and rollbacks go on.                                          *)

(* What they know before they destroy the next handle.                       *)
LEMMA UnmakingFacts ==
  ASSUME ComputeInv, Unmaking
  PROVE  /\ call.op \in DOMAIN DestroyOrder \cup {"undo"} /\ call.of \in Objects
         /\ call.todo \in Seq(Steps) /\ call.todo # <<>> /\ Distinct(call.todo)
         /\ Head(call.todo) = call.todo[1] /\ Head(call.todo) \in Parts \cup {"drain"}
         /\ In(Head(call.todo), call.todo)
         /\ Tail(call.todo) \in Seq(Steps) /\ Distinct(Tail(call.todo))
         /\ Len(Tail(call.todo)) = Len(call.todo) - 1
         /\ \A k : In(k, Tail(call.todo)) <=> In(k, call.todo) /\ k # Head(call.todo)
         /\ \A i \in 1 .. Len(Tail(call.todo)) : Tail(call.todo)[i] \in Parts \cup {"drain"}
         /\ call.op # "dispatch" /\ call.op # "idle"
         /\ Len(call.todo) > 1 \/ Len(call.todo) = 1
         /\ \A x \in Objects : x # call.of => None(x) \/ (x # Probe /\ Whole(x))
<1>1. call.op \in DOMAIN DestroyOrder \cup {"undo"}
  BY DEF Unmaking
<1>2. call.todo \in Seq(Steps) /\ call.of \in Objects
  BY DEF ComputeInv, ComputeTypeOK
<1>3. /\ call.todo # <<>> /\ Distinct(call.todo)
      /\ \A i \in 1 .. Len(call.todo) : call.todo[i] \in Parts \cup {"drain"}
  BY DEF ComputeInv, UnmakingKnown
<1>4. /\ Tail(call.todo) \in Seq(Steps) /\ Len(Tail(call.todo)) = Len(call.todo) - 1
      /\ Head(call.todo) = call.todo[1] /\ Distinct(Tail(call.todo))
      /\ \A k : In(k, Tail(call.todo)) <=> In(k, call.todo) /\ k # Head(call.todo)
  BY <1>2, <1>3, TailDistinct
<1>5. Len(call.todo) \in Nat /\ Len(call.todo) # 0
  BY <1>2, <1>3, EmptySeq
<1>6. Len(call.todo) > 1 \/ Len(call.todo) = 1
  <2>1. \A n \in Nat : n # 0 => n > 1 \/ n = 1
    OBVIOUS
  <2> QED BY <1>5, <2>1
<1>7. 1 \in 1 .. Len(call.todo)
  <2>1. \A n \in Nat : n # 0 => 1 \in 1 .. n
    OBVIOUS
  <2> QED BY <1>5, <2>1
<1>8. Head(call.todo) \in Parts \cup {"drain"} /\ In(Head(call.todo), call.todo)
  BY <1>3, <1>4, <1>7 DEF In
<1>9. \A i \in 1 .. Len(Tail(call.todo)) : Tail(call.todo)[i] \in Parts \cup {"drain"}
  <2>1. \A k : In(k, call.todo) => k \in Parts \cup {"drain"}
    BY <1>3 DEF In
  <2> QED BY <1>4, <2>1 DEF In
<1>10. call.op # "dispatch" /\ call.op # "idle"
  BY <1>1, Operations
<1>11. \A x \in Objects : x # call.of => None(x) \/ (x # Probe /\ Whole(x))
  BY DEF ComputeInv, WholeOrAbsent, Handling
<1> QED BY <1>1, <1>2, <1>3, <1>4, <1>6, <1>8, <1>9, <1>10, <1>11

(* Waiting for the device before a pending pipeline is destroyed.            *)
LEMMA DrainStep ==
  ASSUME ComputeInv, Drain PROVE ComputeInv'
<1>1. /\ Unmaking /\ Head(call.todo) = "drain" /\ inflight = {}
      /\ pending' = pending \ {call.of} /\ Advance
      /\ UNCHANGED <<handles, inClose, closed, contents, command, fence, inflight>>
  BY DEF Drain
<1>2. /\ call.todo \in Seq(Steps) /\ Tail(call.todo) \in Seq(Steps) /\ Distinct(Tail(call.todo))
      /\ Len(Tail(call.todo)) = Len(call.todo) - 1 /\ In("drain", call.todo)
      /\ Head(call.todo) = call.todo[1]
      /\ \A k : In(k, Tail(call.todo)) <=> In(k, call.todo) /\ k # "drain"
      /\ \A i \in 1 .. Len(Tail(call.todo)) : Tail(call.todo)[i] \in Parts \cup {"drain"}
  BY <1>1, UnmakingFacts
<1>3. call.op = "destroy" /\ Len(call.todo) > 1 /\ call.todo[2] = "fence"
  BY <1>1, <1>2 DEF ComputeInv, UnmakingOrdered
<1>4. Tail(call.todo)[1] = "fence" /\ Tail(call.todo) # <<>>
  <2>1. \A seq \in Seq(Steps) : Len(seq) > 1 => Tail(seq)[1] = seq[2] /\ Tail(seq) # <<>>
    OBVIOUS
  <2> QED BY <1>2, <1>3, <2>1
<1>5. call' = [call EXCEPT !.todo = Tail(call.todo)]
  BY <1>1, <1>3 DEF Advance
<1>6. /\ call' \in [op : DOMAIN Program \cup DOMAIN DestroyOrder \cup {"idle", "undo", "dispatch"},
                    of : Objects, todo : Seq(Steps), undo : Seq(Registers), work : Submissions \cup {Nil}]
      /\ call'.op = "destroy" /\ call'.of = call.of /\ call'.todo = Tail(call.todo)
  BY <1>2, <1>3, <1>5 DEF ComputeInv, ComputeTypeOK
<1>7. /\ \A k, x : Exists(k, x)' <=> Exists(k, x)
      /\ \A x : (None(x)' <=> None(x)) /\ (Whole(x)' <=> Whole(x))
  BY <1>1 DEF None, Whole, Exists
<1>8. \A k : Exists(k, call.of)' <=> Exists(k, call.of)
  BY <1>1, <1>6 DEF Exists
<1>9. ComputeTypeOK'
  BY <1>1, <1>6 DEF ComputeInv, ComputeTypeOK
<1>10. CallFits' /\ MakingKnown' /\ DispatchKnown'
  BY <1>3, <1>6, Operations DEF ComputeInv, CallFits, Fits, MakingKnown, Making, DispatchKnown
<1>11. WholeOrAbsent'
  BY <1>1, <1>6, <1>7, UnmakingFacts, Operations DEF WholeOrAbsent, Handling, Unmaking
<1>12. UnderTheDevice'
  BY <1>1, <1>6, <1>7 DEF ComputeInv, UnderTheDevice, IsOpen
<1>13. UnmakingKnown'
  <2>1. /\ \A k \in Parts : In(k, call.todo) => Exists(k, call.of)
        /\ \A k \in Parts : Exists(k, call.of) =>
             In(k, call.todo) \/ \E m \in Parts : In(m, call.todo) /\ k \in Children(m)
    BY <1>1 DEF ComputeInv, UnmakingKnown
  <2>2. "drain" \notin Parts
    BY DEF Parts, PipelineParts, BufferParts
  <2> QED BY <1>2, <1>4, <1>6, <1>8, <2>1, <2>2 DEF UnmakingKnown
<1>14. UnmakingOrdered'
  <2>1. /\ ~In("commandBuffer", call.todo) /\ ~In("descriptorSet", call.todo)
        /\ ~Exists("mapping", call.of) /\ ~Exists("device", call.of)
    BY <1>1, <1>3 DEF ComputeInv, UnmakingOrdered
  <2> QED BY <1>2, <1>4, <1>6, <1>8, <2>1 DEF UnmakingOrdered
<1>15. WorkIsWatched' /\ ContentsKnown' /\ CloseKnown'
  BY <1>1 DEF ComputeInv, WorkIsWatched, ContentsKnown, CloseKnown, Mapped, IsOpen, Exists
<1> QED BY <1>9, <1>10, <1>11, <1>12, <1>13, <1>14, <1>15 DEF ComputeInv

(* One handle is destroyed, with what was made from it.                      *)
LEMMA UnmakeStep ==
  ASSUME ComputeInv, Unmake PROVE ComputeInv'
<1>0. PICK of \in Objects : of = call.of
  BY DEF ComputeInv, ComputeTypeOK
<1> DEFINE kind == Head(call.todo) rest == Tail(call.todo)
<1>1. /\ Unmaking /\ kind # "drain"
      /\ handles' = handles \ Gone(kind)
      /\ contents' = IF kind = "mapping" THEN [contents EXCEPT ![of] = Absent] ELSE contents
      /\ Advance
      /\ UNCHANGED <<inClose, closed, pending, command, fence, inflight>>
  BY <1>0 DEF Unmake
<1>2. /\ call.op \in DOMAIN DestroyOrder \cup {"undo"}
      /\ call.todo \in Seq(Steps) /\ call.todo # <<>> /\ Distinct(call.todo)
      /\ kind = call.todo[1] /\ kind \in Parts /\ In(kind, call.todo)
      /\ rest \in Seq(Steps) /\ Distinct(rest)
      /\ Len(rest) = Len(call.todo) - 1
      /\ \A k : In(k, rest) <=> In(k, call.todo) /\ k # kind
      /\ \A i \in 1 .. Len(rest) : rest[i] \in Parts \cup {"drain"}
      /\ call.op # "dispatch" /\ call.op # "idle"
      /\ Len(call.todo) > 1 \/ Len(call.todo) = 1
      /\ \A x \in Objects : x # of => None(x) \/ (x # Probe /\ Whole(x))
  BY <1>0, <1>1, UnmakingFacts
<1>3. /\ \A k \in Parts : In(k, call.todo) => Exists(k, of)
      /\ \A k \in Parts : Exists(k, of) =>
           In(k, call.todo) \/ \E m \in Parts : In(m, call.todo) /\ k \in Children(m)
  BY <1>0, <1>1 DEF ComputeInv, UnmakingKnown
<1>4. /\ ~In("commandBuffer", call.todo) /\ ~In("descriptorSet", call.todo)
      /\ Exists("mapping", of) => call.op = "free" /\ kind = "mapping"
      /\ Exists("fence", of) => kind = "fence"
      /\ Exists("device", of) => call.op = "close" /\ kind = "device"
      /\ ~In("drain", call.todo)
      /\ call.op = "undo" => ~inClose
      /\ call.op = "free" /\ inClose => Built = {}
      /\ call.op = "close" =>
           /\ In("instance", call.todo) /\ inClose /\ closed
           /\ \A k : In(k, call.todo) => k \in {"instance", "device"}
           /\ \A x \in Pipelines \cup Buffers : None(x)
  BY <1>0, <1>1, <1>2 DEF ComputeInv, UnmakingOrdered
<1>5. \A k, x : Exists(k, x)' <=> Exists(k, x) /\ ~(x = of /\ (k = kind \/ k \in Children(kind)))
  <2>1. Gone(kind) = {Handle(k, of) : k \in {kind} \cup Children(kind)}
    BY <1>0 DEF Gone
  <2>2. \A k, x, l : Handle(k, x) = Handle(l, of) <=> k = l /\ x = of
    BY DEF Handle
  <2> HIDE DEF kind
  <2>3. \A k, x : Handle(k, x) \in Gone(kind) <=> x = of /\ (k = kind \/ k \in Children(kind))
    BY <2>1, <2>2
  <2> QED BY <1>1, <2>3 DEF Exists
<1>6. \A x : x # of => (None(x)' <=> None(x)) /\ (Whole(x)' <=> Whole(x))
  BY <1>5 DEF None, Whole
<1>7. \A x : None(x) => None(x)'
  BY <1>5 DEF None
<1>8. /\ \A m : Children(m) \subseteq {"commandBuffer", "descriptorSet", "mapping"}
      /\ {"mapping", "fence", "device"} \subseteq Parts
      /\ \A m : "fence" \notin Children(m) /\ "device" \notin Children(m)
  BY DEF Children, Parts, PipelineParts, BufferParts
<1> HIDE DEF kind, rest
<1>9. /\ ~Exists("mapping", of)' /\ ~Exists("fence", of)' /\ ~Exists("device", of)'
  BY <1>4, <1>5
<1>10. kind = "device" => call.op = "close"
  BY <1>2, <1>3, <1>4, <1>8
<1>11. IsOpen' <=> IsOpen /\ ~(of = Nil /\ kind = "device")
  BY <1>5, <1>8 DEF IsOpen
<1>12. WorkIsWatched'
  BY <1>1, <1>2 DEF ComputeInv, WorkIsWatched, At
<1>13. ContentsKnown'
  <2>1. \A b \in Buffers : b \in Mapped' <=> b \in Mapped /\ ~(b = of /\ kind = "mapping")
    BY <1>4, <1>5 DEF Mapped
  <2>2. contents \in [Buffers -> Data \cup {Garbage, Absent}]
    BY DEF ComputeInv, ComputeTypeOK
  <2> QED BY <1>1, <2>1, <2>2 DEF ComputeInv, ContentsKnown
<1>14. CloseKnown'
  BY <1>1, <1>4, <1>10, <1>11 DEF ComputeInv, CloseKnown
<1>15. call'.of = of \/ call'.of = Nil
  BY <1>0, <1>1 DEF Advance, Idle, Calling, ComputeInv, ComputeTypeOK
<1>16. UnderTheDevice'
  <2>1. CASE kind = "device"
    <3>1. of = Nil
      BY <1>0, <1>10, <2>1 DEF ComputeInv, CallFits, Fits
    <3> QED BY <1>4, <1>7, <1>10, <1>15, <2>1, <3>1, KindsApart DEF UnderTheDevice
  <2>2. CASE kind # "device"
    <3>1. IsOpen' <=> IsOpen
      BY <1>11, <2>2
    <3>2. of \in Pipelines \cup Buffers => IsOpen
      BY <1>0 DEF ComputeInv, UnderTheDevice
    <3> QED BY <1>6, <1>15, <3>1, <3>2, KindsApart DEF ComputeInv, UnderTheDevice
  <2> QED BY <2>1, <2>2
<1>17. /\ handles' \subseteq [kind : Parts, of : Objects]
       /\ inClose' \in BOOLEAN /\ closed' \in BOOLEAN /\ pending' \subseteq Pipelines
       /\ contents' \in [Buffers -> Data \cup {Garbage, Absent}]
       /\ command' \in [Pipelines -> {"initial", "recording", "executable"}]
       /\ fence' \in [Pipelines -> {"reset", "armed", "signalled"}]
       /\ inflight' \subseteq Submissions
  <2>1. contents' \in [Buffers -> Data \cup {Garbage, Absent}]
    BY <1>1 DEF ComputeInv, ComputeTypeOK
  <2> QED BY <1>1, <2>1 DEF ComputeInv, ComputeTypeOK
<1> DEFINE Calls == [op : DOMAIN Program \cup DOMAIN DestroyOrder \cup {"idle", "undo", "dispatch"},
                     of : Objects, todo : Seq(Steps), undo : Seq(Registers), work : Submissions \cup {Nil}]
<1>18. CASE Len(call.todo) > 1
  <2>1. call' = [call EXCEPT !.todo = rest]
    <3>1. Len(call.todo) # 1
      <4>1. Len(call.todo) \in Nat
        BY <1>2, LenProperties
      <4>2. \A n \in Nat : n > 1 => n # 1
        OBVIOUS
      <4> QED BY <1>18, <4>1, <4>2
    <3> QED BY <1>1, <3>1 DEF Advance, rest
  <2>2. call' \in Calls /\ call'.op = call.op /\ call'.of = of /\ call'.todo = rest
    BY <1>0, <1>2, <2>1 DEF ComputeInv, ComputeTypeOK
  <2>3. ComputeTypeOK'
    BY <1>17, <2>2 DEF ComputeTypeOK
  <2>4. Unmaking' /\ ~Making'
    BY <1>2, <2>2, Operations DEF Making, Unmaking
  <2>5. CallFits' /\ DispatchKnown' /\ MakingKnown'
    BY <1>0, <1>2, <2>2, <2>4 DEF ComputeInv, CallFits, DispatchKnown, MakingKnown
  <2>6. WholeOrAbsent'
    BY <1>2, <1>6, <2>2, <2>4 DEF WholeOrAbsent, Handling
  <2>7. rest # <<>>
    BY <1>2, <1>18
  <2>8. UnmakingKnown'
    <3>1. \A k \in Parts : In(k, rest) => Exists(k, of)'
      BY <1>2, <1>3, <1>4, <1>5, <1>8
    <3>2. \A k \in Parts : Exists(k, of)' =>
            In(k, rest) \/ \E m \in Parts : In(m, rest) /\ k \in Children(m)
      BY <1>2, <1>3, <1>5
    <3> QED BY <1>2, <2>2, <2>7, <3>1, <3>2 DEF UnmakingKnown
  <2>9. UnmakingOrdered'
    <3>1. /\ ~In("commandBuffer", rest) /\ ~In("descriptorSet", rest) /\ ~In("drain", rest)
      BY <1>2, <1>4
    <3>2. ASSUME call.op = "close" PROVE In("instance", rest)
      <4>1. In(rest[1], rest)
        <5>1. 1 \in 1 .. Len(rest)
          BY <1>2, <1>18
        <5> QED BY <5>1 DEF In
      <4>2. rest[1] = "instance" \/ rest[1] = "device"
        BY <1>2, <1>4, <3>2, <4>1
      <4>3. rest[1] # "device"
        BY <1>2, <1>3, <1>4, <1>8, <4>1
      <4> QED BY <4>1, <4>2, <4>3
    <3>3. \A k : In(k, rest) => In(k, call.todo)
      BY <1>2
    <3>4. call.op = "close" => \A x \in Pipelines \cup Buffers : None(x)'
      BY <1>4, <1>7
    <3>5. Built' \subseteq Built
      BY <1>5 DEF Built
    <3> QED BY <1>1, <1>4, <1>9, <2>2, <3>1, <3>2, <3>3, <3>4, <3>5 DEF UnmakingOrdered
  <2> QED BY <1>12, <1>13, <1>14, <1>16, <2>3, <2>5, <2>6, <2>8, <2>9 DEF ComputeInv
<1>19. CASE Len(call.todo) = 1
  <2>1. call' = Idle /\ call'.op = "idle" /\ call'.of = Nil
    BY <1>1, <1>19 DEF Advance, Idle, Calling
  <2>2. \A k : ~In(k, rest)
    <3>1. Len(rest) = 0
      BY <1>2, <1>19
    <3> QED BY <3>1 DEF In
  <2>3. None(of)'
    <3>1. \A k \in Parts : ~Exists(k, of)'
      BY <1>2, <1>3, <1>5, <2>2
    <3> QED BY <3>1 DEF None
  <2>4. ~Making' /\ ~Unmaking'
    BY <2>1, Operations DEF Making, Unmaking
  <2>5. WholeOrAbsent'
    BY <1>2, <1>6, <2>3 DEF WholeOrAbsent
  <2>6. Idle \in Calls
    BY DEF Idle, Calling, Objects
  <2>7. ComputeTypeOK'
    BY <1>17, <2>1, <2>6 DEF ComputeTypeOK
  <2>8. CallFits' /\ DispatchKnown'
    BY <2>1 DEF CallFits, Fits, DispatchKnown
  <2> QED BY <1>12, <1>13, <1>14, <1>16, <2>4, <2>5, <2>7, <2>8
          DEF ComputeInv, MakingKnown, UnmakingKnown, UnmakingOrdered
<1> QED BY <1>2, <1>18, <1>19

-----------------------------------------------------------------------------
(* Dispatches, and what the caller and the GPU do meanwhile.                 *)

(* A step that neither makes nor destroys anything disturbs no object.       *)
LEMMA NothingMade ==
  ASSUME ComputeInv, call.op \in {"idle", "dispatch"}, call'.op \in {"idle", "dispatch"},
         UNCHANGED <<handles, inClose, closed>>,
         call'.op = "idle" => call' = Idle,
         call'.op = "dispatch" => call'.of \in Built
  PROVE  /\ CallFits' /\ WholeOrAbsent' /\ UnderTheDevice' /\ MakingKnown'
         /\ UnmakingKnown' /\ UnmakingOrdered' /\ CloseKnown'
<1>1. ~Making /\ ~Unmaking /\ ~Making' /\ ~Unmaking'
  BY Operations DEF Making, Unmaking
<1>2. /\ \A k, x : Exists(k, x)' <=> Exists(k, x)
      /\ \A x : (None(x)' <=> None(x)) /\ (Whole(x)' <=> Whole(x))
  BY DEF None, Whole, Exists
<1>3. CallFits'
  <2>1. CASE call'.op = "idle"
    BY <2>1 DEF CallFits, Fits
  <2>2. CASE call'.op = "dispatch"
    BY <2>2 DEF CallFits, Fits, Built
  <2> QED BY <2>1, <2>2
<1>4. WholeOrAbsent'
  BY <1>1, <1>2 DEF ComputeInv, WholeOrAbsent, Handling
<1>5. UnderTheDevice'
  <2>1. call'.op = "dispatch" => ~None(call'.of)
    BY DEF Built, None, Parts, PipelineParts
  <2>2. call'.op = "idle" => call'.of \notin Pipelines \cup Buffers
    BY KindsApart DEF Idle, Calling
  <2> QED BY <1>2, <2>1, <2>2 DEF ComputeInv, UnderTheDevice, IsOpen
<1>6. CloseKnown'
  BY DEF ComputeInv, CloseKnown, IsOpen, Exists
<1> QED BY <1>1, <1>3, <1>4, <1>5, <1>6 DEF MakingKnown, UnmakingKnown, UnmakingOrdered

(* An entry point of a dispatch is followed by the next one of its program.  *)
LEMMA DispatchNext ==
  ASSUME ComputeInv, call.op = "dispatch",
         NEW m \in 1 .. 6, Head(call.todo) = DispatchProgram[m]
  PROVE  /\ Tail(call.todo) \in Seq(Steps) /\ IsRest(Tail(call.todo), DispatchProgram)
         /\ Head(Tail(call.todo)) = DispatchProgram[m + 1]
         /\ Advance => call' = [call EXCEPT !.todo = Tail(call.todo)]
<1> DEFINE full == DispatchProgram todo == call.todo
<1>1. /\ full \in Seq(Steps) /\ Len(full) = 7 /\ Distinct(full)
  BY DispatchFacts
<1>2. todo \in Seq(Steps) /\ IsRest(todo, full)
  BY DEF ComputeInv, ComputeTypeOK, DispatchKnown
<1>3. Advance => call' = IF Len(todo) = 1 THEN Idle ELSE [call EXCEPT !.todo = Tail(todo)]
  BY DEF Advance
<1>4. Head(todo) = full[m]
  OBVIOUS
<1> HIDE DEF full, todo
<1>5. todo # <<>> /\ Head(todo) = todo[1]
  BY <1>1, <1>2, RestKeeps
<1>6. PICK n \in 1 .. 7 : n = Len(todo)
  BY <1>1, <1>2 DEF IsRest
<1>7. \A i \in 1 .. n : todo[i] = full[7 - n + i]
  BY <1>1, <1>2, <1>6 DEF IsRest
<1>8. 7 - n + 1 \in 1 .. 7 /\ todo[1] = full[7 - n + 1]
  <2>1. n \in 1 .. 7 /\ 1 \in 1 .. n /\ 7 - n + 1 \in 1 .. 7
    OBVIOUS
  <2> QED BY <1>7, <2>1
<1>9. m = 7 - n + 1
  BY <1>1, <1>4, <1>5, <1>8 DEF Distinct
<1>10. n > 1 /\ n # 1 /\ 2 \in 1 .. n /\ m + 1 = 7 - n + 2
  BY <1>6, <1>9
<1>11. Tail(todo) \in Seq(Steps) /\ IsRest(Tail(todo), full)
  BY <1>1, <1>2, <1>6, <1>10, RestTail
<1>12. Tail(todo) # <<>> /\ Head(Tail(todo)) = Tail(todo)[1]
  BY <1>1, <1>11, RestKeeps
<1>13. Tail(todo)[1] = todo[2]
  <2>1. \A seq \in Seq(Steps) : Len(seq) > 1 => Tail(seq)[1] = seq[2]
    OBVIOUS
  <2> QED BY <1>2, <1>6, <1>10, <2>1
<1>14. Head(Tail(todo)) = full[m + 1]
  BY <1>7, <1>10, <1>12, <1>13
<1>15. Advance => call' = [call EXCEPT !.todo = Tail(todo)]
  BY <1>3, <1>6, <1>10
<1> QED BY <1>11, <1>14, <1>15 DEF full, todo

(* A dispatch that goes on keeps the invariant if what it knows of its next  *)
(* entry point is right.                                                     *)
LEMMA DispatchGoesOn ==
  ASSUME ComputeInv, call.op = "dispatch", Advance,
         NEW m \in 1 .. 6, Head(call.todo) = DispatchProgram[m],
         UNCHANGED <<handles, inClose, closed, pending, contents>>,
         command' \in [Pipelines -> {"initial", "recording", "executable"}],
         fence' \in [Pipelines -> {"reset", "armed", "signalled"}],
         inflight' \subseteq Submissions,
         DispatchProgram[m + 1] \in {"resetFence", "submit"} => command'[call.of] = "executable",
         DispatchProgram[m + 1] = "submit" => fence'[call.of] = "reset",
         DispatchProgram[m + 1] = "wait" => inflight' # {} /\ fence'[call.of] = "armed",
         \A s \in inflight' : s.pipe \in pending \/ (DispatchProgram[m + 1] = "wait" /\ s = call.work)
  PROVE  ComputeInv'
<1>1. /\ Tail(call.todo) \in Seq(Steps) /\ IsRest(Tail(call.todo), DispatchProgram)
      /\ Head(Tail(call.todo)) = DispatchProgram[m + 1]
      /\ call' = [call EXCEPT !.todo = Tail(call.todo)]
  BY DispatchNext
<1>2. call \in [op : DOMAIN Program \cup DOMAIN DestroyOrder \cup {"idle", "undo", "dispatch"},
                of : Objects, todo : Seq(Steps), undo : Seq(Registers), work : Submissions \cup {Nil}]
  BY DEF ComputeInv, ComputeTypeOK
<1>3. /\ call' \in [op : DOMAIN Program \cup DOMAIN DestroyOrder \cup {"idle", "undo", "dispatch"},
                of : Objects, todo : Seq(Steps), undo : Seq(Registers), work : Submissions \cup {Nil}]
      /\ call'.op = "dispatch" /\ call'.of = call.of /\ call'.todo = Tail(call.todo)
      /\ call'.work = call.work
  BY <1>1, <1>2
<1>4. /\ call.work \in Submissions /\ call.work.pipe = call.of
      /\ call.of \in Built /\ call.of \notin pending /\ ~inClose
      /\ \A i \in Bindings : call.work.bufs[i] \in Mapped /\ call.work.bufs[i].binding = i
  BY DEF ComputeInv, DispatchKnown
<1>5. /\ CallFits' /\ WholeOrAbsent' /\ UnderTheDevice' /\ MakingKnown'
      /\ UnmakingKnown' /\ UnmakingOrdered' /\ CloseKnown'
  BY <1>3, <1>4, NothingMade
<1>6. ComputeTypeOK'
  BY <1>3 DEF ComputeInv, ComputeTypeOK
<1>7. ContentsKnown'
  BY DEF ComputeInv, ContentsKnown, Mapped, Exists
<1>8. Built' = Built /\ Mapped' = Mapped
  BY DEF Built, Mapped, Exists
<1>9. DispatchKnown'
  BY <1>1, <1>3, <1>4, <1>8 DEF DispatchKnown
<1>10. WorkIsWatched'
  BY <1>1, <1>3 DEF WorkIsWatched, At
<1> QED BY <1>5, <1>6, <1>7, <1>9, <1>10 DEF ComputeInv

(* No work is in flight through a pipeline until its dispatch submits some.  *)
LEMMA NotYetSubmitted ==
  ASSUME ComputeInv, call.op = "dispatch", Head(call.todo) # "wait"
  PROVE  /\ \A s \in inflight : s.pipe \in pending
         /\ \A s \in inflight : s.pipe # call.of
<1>1. \A s \in inflight : s.pipe \in pending
  BY DEF ComputeInv, WorkIsWatched, At
<1>2. call.of \notin pending
  BY DEF ComputeInv, DispatchKnown
<1> QED BY <1>1, <1>2

(* Writing the descriptor set keeps the invariant.                         *)
LEMMA UpdateSetStep ==
  ASSUME ComputeInv, UpdateSet PROVE ComputeInv'
<1>1. /\ call.op = "dispatch" /\ Head(call.todo) = "update" /\ Advance
      /\ UNCHANGED <<handles, inClose, closed, pending, contents, command, fence, inflight>>
  BY DEF UpdateSet, At
<1>2. /\ DispatchProgram[1] = "update" /\ DispatchProgram[1 + 1] = "reset"
  BY DispatchFacts
<1>3. /\ command' \in [Pipelines -> {"initial", "recording", "executable"}]
      /\ fence' \in [Pipelines -> {"reset", "armed", "signalled"}]
      /\ inflight' \subseteq Submissions
  BY <1>1 DEF ComputeInv, ComputeTypeOK
<1>4. \A s \in inflight' : s.pipe \in pending
  BY <1>1, NotYetSubmitted
<1> QED BY <1>1, <1>2, <1>3, <1>4, DispatchGoesOn

(* Recording the command buffer keeps the invariant.                       *)
LEMMA RecordStep ==
  ASSUME ComputeInv, Record PROVE ComputeInv'
<1>1. PICK m \in 2 .. 4 :
        /\ call.op = "dispatch" /\ Head(call.todo) = DispatchProgram[m] /\ Advance
        /\ command' \in {[command EXCEPT ![call.of] = state] :
                           state \in {"initial", "recording", "executable"}}
        /\ m = 4 => command' = [command EXCEPT ![call.of] = "executable"]
        /\ UNCHANGED <<handles, inClose, closed, pending, contents, fence, inflight>>
  <2>1. CASE Recorded("reset", "initial")
    <3>1. 2 \in 2 .. 4 /\ 2 # 4 /\ DispatchProgram[2] = "reset"
      BY DispatchFacts
    <3> QED BY <2>1, <3>1 DEF Recorded, At
  <2>2. CASE Recorded("begin", "recording")
    <3>1. 3 \in 2 .. 4 /\ 3 # 4 /\ DispatchProgram[3] = "begin"
      BY DispatchFacts
    <3> QED BY <2>2, <3>1 DEF Recorded, At
  <2>3. CASE Recorded("end", "executable")
    <3>1. 4 \in 2 .. 4 /\ DispatchProgram[4] = "end"
      BY DispatchFacts
    <3> QED BY <2>3, <3>1 DEF Recorded, At
  <2> QED BY <2>1, <2>2, <2>3 DEF Record
<1>2. m \in 1 .. 6 /\ (m = 2 \/ m = 3 \/ m = 4)
  OBVIOUS
<1>3. /\ DispatchProgram[m] # "wait" /\ DispatchProgram[m + 1] \in {"begin", "end", "resetFence"}
      /\ DispatchProgram[m + 1] = "resetFence" => m = 4
  <2>1. CASE m = 2
    BY <2>1, DispatchFacts
  <2>2. CASE m = 3
    BY <2>2, DispatchFacts
  <2>3. CASE m = 4
    BY <2>3, DispatchFacts
  <2> QED BY <1>2, <2>1, <2>2, <2>3
<1>4. /\ command' \in [Pipelines -> {"initial", "recording", "executable"}]
      /\ fence' \in [Pipelines -> {"reset", "armed", "signalled"}]
      /\ inflight' \subseteq Submissions
  BY <1>1 DEF ComputeInv, ComputeTypeOK
<1>5. m = 4 => command'[call.of] = "executable"
  BY <1>1 DEF ComputeInv, ComputeTypeOK, DispatchKnown, Built
<1>6. \A s \in inflight' : s.pipe \in pending
  BY <1>1, <1>3, NotYetSubmitted
<1> QED BY <1>1, <1>2, <1>3, <1>4, <1>5, <1>6, DispatchGoesOn

(* Resetting the fence keeps the invariant.                                *)
LEMMA ResetFenceStep ==
  ASSUME ComputeInv, ResetFence PROVE ComputeInv'
<1>1. /\ call.op = "dispatch" /\ Head(call.todo) = "resetFence" /\ Advance
      /\ fence' = [fence EXCEPT ![call.of] = "reset"]
      /\ UNCHANGED <<handles, inClose, closed, pending, contents, command, inflight>>
  BY DEF ResetFence, At
<1>2. /\ DispatchProgram[5] = "resetFence" /\ DispatchProgram[5 + 1] = "submit"
  BY DispatchFacts
<1>3. /\ command' \in [Pipelines -> {"initial", "recording", "executable"}]
      /\ fence' \in [Pipelines -> {"reset", "armed", "signalled"}]
      /\ inflight' \subseteq Submissions
  BY <1>1 DEF ComputeInv, ComputeTypeOK
<1>4. command'[call.of] = "executable" /\ fence'[call.of] = "reset"
  BY <1>1 DEF ComputeInv, ComputeTypeOK, DispatchKnown, Built
<1>5. \A s \in inflight' : s.pipe \in pending
  BY <1>1, NotYetSubmitted
<1> QED BY <1>1, <1>2, <1>3, <1>4, <1>5, DispatchGoesOn

(* A submission keeps the invariant: the fence was reset and the work is   *)
(* watched.                                                                *)
LEMMA SubmitStep ==
  ASSUME ComputeInv, Submit PROVE ComputeInv'
<1>1. /\ call.op = "dispatch" /\ Head(call.todo) = "submit" /\ Advance
      /\ inflight' = inflight \cup {call.work}
      /\ fence' = [fence EXCEPT ![call.of] = IF @ = "signalled" THEN @ ELSE "armed"]
      /\ UNCHANGED <<handles, inClose, closed, pending, contents, command>>
  BY DEF Submit, At
<1>2. /\ DispatchProgram[6] = "submit" /\ DispatchProgram[6 + 1] = "wait"
  BY DispatchFacts
<1>3. /\ call.work \in Submissions /\ call.of \in Pipelines /\ fence[call.of] = "reset"
  BY <1>1 DEF ComputeInv, DispatchKnown, Built
<1>4. /\ command' \in [Pipelines -> {"initial", "recording", "executable"}]
      /\ fence' \in [Pipelines -> {"reset", "armed", "signalled"}]
      /\ inflight' \subseteq Submissions /\ inflight' # {}
      /\ fence'[call.of] = "armed"
  BY <1>1, <1>3 DEF ComputeInv, ComputeTypeOK
<1>5. \A s \in inflight' : s.pipe \in pending \/ s = call.work
  BY <1>1, NotYetSubmitted
<1> QED BY <1>1, <1>2, <1>4, <1>5, DispatchGoesOn

(* A dispatch begins with a pipeline that is not pending and live buffers.   *)
LEMMA DispatchStarts ==
  ASSUME ComputeInv, NEW p \in Pipelines, NEW d \in Data, Dispatch(p, d) PROVE ComputeInv'
<1>1. /\ call = Idle /\ ~inClose /\ p \in Built /\ p \notin pending
      /\ UNCHANGED <<handles, inClose, closed, pending, contents, command, fence, inflight>>
  BY DEF Dispatch
<1>2. PICK bs \in [Bindings -> Mapped] :
        /\ \A i \in Bindings : bs[i].binding = i
        /\ call' = Dispatching([pipe |-> p, bufs |-> bs, arg |-> d])
  BY DEF Dispatch
<1> DEFINE work == [pipe |-> p, bufs |-> bs, arg |-> d]
<1>3. work \in Submissions /\ work.pipe = p /\ work.bufs = bs
  BY <1>2 DEF Submissions, Mapped
<1> HIDE DEF work
<1>4. /\ call'.op = "dispatch" /\ call'.of = p /\ call'.todo = DispatchProgram
      /\ call'.work = work
      /\ call' \in [op : DOMAIN Program \cup DOMAIN DestroyOrder \cup {"idle", "undo", "dispatch"},
                of : Objects, todo : Seq(Steps), undo : Seq(Registers), work : Submissions \cup {Nil}]
  <2>1. call' = [op |-> "dispatch", of |-> p, todo |-> DispatchProgram, undo |-> <<>>, work |-> work]
    BY <1>2, <1>3 DEF Dispatching, work
  <2>2. p \in Objects /\ DispatchProgram \in Seq(Steps)
    BY Parted, DispatchFacts
  <2> QED BY <1>3, <2>1, <2>2
<1>5. call.op = "idle" /\ \A s \in inflight : s.pipe \in pending
  BY <1>1, Between
<1>6. Built' = Built /\ Mapped' = Mapped
  BY <1>1 DEF Built, Mapped, Exists
<1>7. /\ CallFits' /\ WholeOrAbsent' /\ UnderTheDevice' /\ MakingKnown'
      /\ UnmakingKnown' /\ UnmakingOrdered' /\ CloseKnown'
  BY <1>1, <1>4, <1>5, NothingMade
<1>8. ComputeTypeOK'
  BY <1>1, <1>4 DEF ComputeInv, ComputeTypeOK
<1>9. ContentsKnown'
  BY <1>1, <1>6 DEF ComputeInv, ContentsKnown
<1>10. IsRest(DispatchProgram, DispatchProgram) /\ Head(DispatchProgram) = "update"
  BY DispatchFacts, RestWhole
<1>11. DispatchKnown'
  BY <1>1, <1>2, <1>3, <1>4, <1>6, <1>10 DEF DispatchKnown
<1>12. WorkIsWatched'
  BY <1>1, <1>5 DEF WorkIsWatched
<1> QED BY <1>7, <1>8, <1>9, <1>11, <1>12 DEF ComputeInv

(* A dispatch that returns or raises leaves no work it does not answer for.  *)
LEMMA DispatchEnds ==
  ASSUME ComputeInv, call.op = "dispatch", call' = Idle,
         UNCHANGED <<handles, inClose, closed, contents, command, fence>>,
         pending' \subseteq Pipelines, inflight' \subseteq Submissions,
         \A s \in inflight' : s.pipe \in pending'
  PROVE  ComputeInv'
<1>1. call'.op = "idle" /\ Idle \in
        [op : DOMAIN Program \cup DOMAIN DestroyOrder \cup {"idle", "undo", "dispatch"},
         of : Objects, todo : Seq(Steps), undo : Seq(Registers), work : Submissions \cup {Nil}]
  BY DEF Idle, Calling, Objects
<1>2. /\ CallFits' /\ WholeOrAbsent' /\ UnderTheDevice' /\ MakingKnown'
      /\ UnmakingKnown' /\ UnmakingOrdered' /\ CloseKnown'
  BY <1>1, NothingMade
<1>3. ComputeTypeOK'
  BY <1>1 DEF ComputeInv, ComputeTypeOK
<1>4. ContentsKnown'
  BY DEF ComputeInv, ContentsKnown, Mapped, Exists
<1>5. DispatchKnown' /\ WorkIsWatched'
  BY <1>1 DEF DispatchKnown, WorkIsWatched
<1> QED BY <1>2, <1>3, <1>4, <1>5 DEF ComputeInv

(* A dispatch that fails before its submission keeps the invariant.        *)
LEMMA DispatchFailsStep ==
  ASSUME ComputeInv, DispatchFails PROVE ComputeInv'
<1>1. /\ call.op = "dispatch" /\ Head(call.todo) # "wait" /\ call' = Idle
      /\ UNCHANGED <<handles, inClose, closed, pending, contents, command, fence, inflight>>
  BY DEF DispatchFails
<1> QED BY <1>1, NotYetSubmitted, DispatchEnds DEF ComputeInv, ComputeTypeOK

(* A wait that succeeds means that nothing is in flight.                     *)
LEMMA WaitSucceedsStep ==
  ASSUME ComputeInv, WaitSucceeds PROVE ComputeInv' /\ inflight = {}
<1>1. /\ call.op = "dispatch" /\ Head(call.todo) = "wait" /\ fence[call.of] = "signalled"
      /\ call' = Idle
      /\ UNCHANGED <<handles, inClose, closed, pending, contents, command, fence, inflight>>
  BY DEF WaitSucceeds, At
<1>2. inflight = {}
  BY <1>1 DEF ComputeInv, DispatchKnown
<1> QED BY <1>1, <1>2, DispatchEnds DEF ComputeInv, ComputeTypeOK

(* A failed wait keeps the invariant: a time-out marks the pipeline        *)
(* pending.                                                                *)
LEMMA WaitFailsStep ==
  ASSUME ComputeInv, NEW kind, WaitFails(kind) PROVE ComputeInv'
<1>1. /\ call.op = "dispatch" /\ call' = Idle /\ pending' = pending \cup {call.of}
      /\ inflight' = IF kind = "lost" THEN {} ELSE inflight
      /\ UNCHANGED <<handles, inClose, closed, contents, command, fence>>
  BY DEF WaitFails, At
<1>2. call.of \in Pipelines /\ call.work.pipe = call.of
  BY <1>1 DEF ComputeInv, CallFits, Fits, DispatchKnown
<1>3. \A s \in inflight : s.pipe \in pending \/ s.pipe = call.of
  BY <1>2 DEF ComputeInv, WorkIsWatched
<1> QED BY <1>1, <1>2, <1>3, DispatchEnds DEF ComputeInv, ComputeTypeOK

(* A write keeps the invariant.                                            *)
LEMMA WriteStep ==
  ASSUME ComputeInv, NEW b \in Buffers, NEW d \in Data, Write(b, d) PROVE ComputeInv'
<1>1. /\ call = Idle /\ b \in Mapped /\ contents' = [contents EXCEPT ![b] = d]
      /\ UNCHANGED <<handles, call, inClose, closed, pending, command, fence, inflight>>
  BY DEF Write
<1>2. call.op = "idle" /\ call' = Idle
  BY <1>1, Between
<1>3. /\ CallFits' /\ WholeOrAbsent' /\ UnderTheDevice' /\ MakingKnown'
      /\ UnmakingKnown' /\ UnmakingOrdered' /\ CloseKnown'
  BY <1>1, <1>2, NothingMade
<1>4. ComputeTypeOK'
  BY <1>1 DEF ComputeInv, ComputeTypeOK
<1>5. ContentsKnown'
  BY <1>1, ComputeAssumption DEF ComputeInv, ComputeTypeOK, ContentsKnown, Mapped, Exists
<1>6. DispatchKnown' /\ WorkIsWatched'
  BY <1>1, <1>2, Between DEF DispatchKnown, WorkIsWatched
<1> QED BY <1>3, <1>4, <1>5, <1>6 DEF ComputeInv

(* Closing a context keeps the invariant.                                  *)
LEMMA CloseStarts ==
  ASSUME ComputeInv, Close PROVE ComputeInv'
<1>1. /\ call = Idle /\ IsOpen /\ inClose'
      /\ UNCHANGED <<handles, call, closed, pending, contents, command, fence, inflight>>
  BY DEF Close
<1>2. call'.op = "idle" /\ call' = Idle /\ inClose' = TRUE
  BY <1>1, Between DEF Close
<1>3. ~Making' /\ ~Unmaking'
  BY <1>2, Operations DEF Making, Unmaking
<1>4. ComputeTypeOK'
  BY <1>1, <1>2 DEF ComputeInv, ComputeTypeOK
<1>5. CallFits' /\ DispatchKnown' /\ MakingKnown' /\ UnmakingKnown' /\ UnmakingOrdered'
  BY <1>2, <1>3 DEF CallFits, Fits, DispatchKnown, MakingKnown, UnmakingKnown, UnmakingOrdered
<1>6. \A x : (None(x)' <=> None(x)) /\ (Whole(x)' <=> Whole(x))
  BY <1>1 DEF None, Whole, Exists
<1>7. WholeOrAbsent' /\ UnderTheDevice'
  BY <1>1, <1>6, Between DEF ComputeInv, WholeOrAbsent, UnderTheDevice, IsOpen, Exists
<1>8. WorkIsWatched' /\ ContentsKnown' /\ CloseKnown'
  BY <1>1, <1>2 DEF ComputeInv, WorkIsWatched, At, ContentsKnown, CloseKnown, Mapped, IsOpen, Exists
<1> QED BY <1>4, <1>5, <1>7, <1>8 DEF ComputeInv

(* The GPU may execute a submission at any time.                             *)
LEMMA ExecuteStep ==
  ASSUME ComputeInv, NEW s \in inflight, Execute(s) PROVE ComputeInv'
<1>1. /\ inflight' = inflight \ {s}
      /\ contents' =
           IF s.bufs["output"] \in Mapped
             THEN [contents EXCEPT ![s.bufs["output"]] =
                     IF \A i \in Inputs : contents[s.bufs[i]] = s.arg THEN s.arg ELSE Garbage]
             ELSE contents
      /\ fence' = [p \in Pipelines |->
                     IF inflight' = {} /\ fence[p] = "armed" THEN "signalled" ELSE fence[p]]
      /\ UNCHANGED <<handles, call, inClose, closed, pending, command>>
  BY DEF Execute
<1>2. s \in Submissions /\ s.arg \in Data
  BY DEF ComputeInv, ComputeTypeOK, Submissions
<1>3. /\ handles' \subseteq [kind : Parts, of : Objects]
      /\ call' = call /\ pending' \subseteq Pipelines /\ inflight' \subseteq Submissions
      /\ contents' \in [Buffers -> Data \cup {Garbage, Absent}]
      /\ fence' \in [Pipelines -> {"reset", "armed", "signalled"}]
  <2>1. contents' \in [Buffers -> Data \cup {Garbage, Absent}]
    BY <1>1, <1>2 DEF ComputeInv, ComputeTypeOK
  <2>2. fence' \in [Pipelines -> {"reset", "armed", "signalled"}]
    <3>1. \A p \in Pipelines :
            (IF inflight' = {} /\ fence[p] = "armed" THEN "signalled" ELSE fence[p])
              \in {"reset", "armed", "signalled"}
      BY DEF ComputeInv, ComputeTypeOK
    <3> QED BY <1>1, <3>1
  <2> QED BY <1>1, <2>1, <2>2 DEF ComputeInv, ComputeTypeOK
<1>4. ComputeTypeOK'
  BY <1>1, <1>3 DEF ComputeInv, ComputeTypeOK
<1>5. ContentsKnown'
  BY <1>1, <1>2, ComputeAssumption
     DEF ComputeInv, ComputeTypeOK, ContentsKnown, Mapped, Exists
<1>6. /\ CallFits' /\ WholeOrAbsent' /\ UnderTheDevice' /\ MakingKnown'
      /\ UnmakingKnown' /\ UnmakingOrdered' /\ CloseKnown'
  BY <1>1 DEF ComputeInv, CallFits, WholeOrAbsent, UnderTheDevice, MakingKnown, UnmakingKnown,
              UnmakingOrdered, CloseKnown, Handling, Making, Unmaking, None, Whole, IsOpen, Built,
              Exists
<1>7. WorkIsWatched'
  BY <1>1 DEF ComputeInv, WorkIsWatched, At
<1>8. DispatchKnown'
  <2> SUFFICES ASSUME call'.op = "dispatch" PROVE DispatchKnown'
    BY DEF DispatchKnown
  <2>1. /\ call.op = "dispatch" /\ call.of \in Pipelines
        /\ Built' = Built /\ Mapped' = Mapped
    BY <1>1 DEF ComputeInv, CallFits, Fits, Built, Mapped, Exists
  <2>2. fence[call.of] = "reset" => fence'[call.of] = "reset"
    BY <1>1, <2>1
  <2>3. Head(call.todo) = "wait" =>
          IF inflight' = {} THEN fence'[call.of] = "signalled" ELSE fence'[call.of] = "armed"
    BY <1>1, <2>1 DEF ComputeInv, DispatchKnown
  <2> QED BY <1>1, <2>1, <2>2, <2>3 DEF ComputeInv, DispatchKnown
<1> QED BY <1>4, <1>5, <1>6, <1>7, <1>8 DEF ComputeInv

-----------------------------------------------------------------------------
(* The invariant, and the properties that follow from it.                    *)

(* The first state satisfies the invariant.                                *)
LEMMA ComputeInitial ==
  ASSUME Init PROVE ComputeInv
<1>1. /\ handles = {} /\ call = Idle /\ inClose = FALSE /\ closed = FALSE
      /\ pending = {} /\ inflight = {}
      /\ contents = [b \in Buffers |-> Absent]
      /\ command = [p \in Pipelines |-> "initial"]
      /\ fence = [p \in Pipelines |-> "reset"]
  BY DEF Init
<1>2. call.op = "idle" /\ call.of = Nil
  BY <1>1 DEF Idle, Calling
<1>3. \A k, x : ~Exists(k, x)
  BY <1>1 DEF Exists
<1>4. ComputeTypeOK
  <2>1. Idle \in [op : DOMAIN Program \cup DOMAIN DestroyOrder \cup {"idle", "undo", "dispatch"},
                  of : Objects, todo : Seq(Steps), undo : Seq(Registers), work : Submissions \cup {Nil}]
    BY DEF Idle, Calling, Objects
  <2> QED BY <1>1, <2>1 DEF ComputeTypeOK
<1>5. ~Making /\ ~Unmaking
  BY <1>2, Operations DEF Making, Unmaking
<1>6. CallFits /\ MakingKnown /\ UnmakingKnown /\ UnmakingOrdered /\ DispatchKnown
  BY <1>1, <1>2, <1>5
     DEF CallFits, Fits, MakingKnown, UnmakingKnown, UnmakingOrdered, DispatchKnown
<1>7. WholeOrAbsent /\ UnderTheDevice
  BY <1>2, <1>3, KindsApart DEF WholeOrAbsent, UnderTheDevice, None
<1>8. WorkIsWatched /\ ContentsKnown /\ CloseKnown
  BY <1>1, <1>3 DEF WorkIsWatched, ContentsKnown, CloseKnown, Mapped
<1> QED BY <1>4, <1>6, <1>7, <1>8 DEF ComputeInv

(* A step that changes nothing keeps the invariant.                        *)
LEMMA ComputeStuttering ==
  ASSUME ComputeInv, UNCHANGED vars PROVE ComputeInv'
BY DEF ComputeInv, vars, ComputeTypeOK, CallFits, Fits, WholeOrAbsent, UnderTheDevice, MakingKnown,
       UnmakingKnown, UnmakingOrdered, DispatchKnown, WorkIsWatched, ContentsKnown, CloseKnown,
       Handling, Making, Unmaking, None, Whole, IsOpen, Exists, Built, Mapped, At

(* Every step keeps the invariant.                                         *)
LEMMA ComputeStep ==
  ASSUME ComputeInv, Next PROVE ComputeInv'
<1>1. CASE Open
  BY <1>1, OpenStarts
<1>2. CASE Close
  BY <1>2, CloseStarts
<1>3. CASE CloseDevice
  BY <1>3, CloseDeviceStarts
<1>4. CASE Detect
  BY <1>4, DetectStarts
<1>5. ASSUME NEW b \in Buffers, Allocate(b) PROVE ComputeInv'
  BY <1>5, AllocateStarts
<1>6. ASSUME NEW b \in Buffers, Free(b) PROVE ComputeInv'
  BY <1>6, BeginsFreeing DEF Free
<1>7. ASSUME NEW b \in Buffers, CloseBuffer(b) PROVE ComputeInv'
  BY <1>7, BeginsFreeing DEF CloseBuffer
<1>8. ASSUME NEW b \in Buffers, NEW d \in Data, Write(b, d) PROVE ComputeInv'
  BY <1>8, WriteStep
<1>9. ASSUME NEW p \in Pipelines, Compile(p) PROVE ComputeInv'
  BY <1>9, CompileStarts
<1>10. ASSUME NEW p \in Pipelines, Destroy(p) PROVE ComputeInv'
  BY <1>10, BeginsDestroying DEF Destroy
<1>11. ASSUME NEW p \in Pipelines, ClosePipeline(p) PROVE ComputeInv'
  BY <1>11, BeginsDestroying DEF ClosePipeline
<1>12. ASSUME NEW p \in Pipelines, NEW d \in Data, Dispatch(p, d) PROVE ComputeInv'
  BY <1>12, DispatchStarts
<1>13. CASE Make
  BY <1>13, MakeStep
<1>14. CASE MakeFails
  BY <1>14, MakeFailsStep
<1>15. CASE Drain
  BY <1>15, DrainStep
<1>16. CASE Unmake
  BY <1>16, UnmakeStep
<1>17. CASE UpdateSet
  BY <1>17, UpdateSetStep
<1>18. CASE Record
  BY <1>18, RecordStep
<1>19. CASE ResetFence
  BY <1>19, ResetFenceStep
<1>20. CASE Submit
  BY <1>20, SubmitStep
<1>21. CASE DispatchFails
  BY <1>21, DispatchFailsStep
<1>22. CASE WaitSucceeds
  BY <1>22, WaitSucceedsStep
<1>23. ASSUME NEW kind \in {"timeout", "lost"}, WaitFails(kind) PROVE ComputeInv'
  BY <1>23, WaitFailsStep
<1>24. ASSUME NEW s \in inflight, Execute(s) PROVE ComputeInv'
  BY <1>24, ExecuteStep
<1> QED BY <1>1, <1>2, <1>3, <1>4, <1>5, <1>6, <1>7, <1>8, <1>9, <1>10, <1>11, <1>12, <1>13,
           <1>14, <1>15, <1>16, <1>17, <1>18, <1>19, <1>20, <1>21, <1>22, <1>23, <1>24 DEF Next

(* Whatever fails and however the calls follow each other, every handle      *)
(* exists exactly while the object it is part of needs it.                   *)
THEOREM ComputeInvariant == Spec => []ComputeInv
<1>1. Init => ComputeInv
  BY ComputeInitial
<1>2. ComputeInv /\ [Next]_vars => ComputeInv'
  BY ComputeStep, ComputeStuttering
<1> QED BY <1>1, <1>2, PTL DEF Spec

(* Between two calls every driver handle belongs to a complete object, and   *)
(* no detection has left its instance: what failed half way is undone.       *)
THEOREM NoLeaks == Spec => []NothingLeaks
<1>1. ComputeInv => NothingLeaks
  <2> SUFFICES ASSUME ComputeInv, call = Idle, NEW h \in handles
               PROVE  h.of # Probe /\ Complete(h.of) \subseteq handles
    BY DEF NothingLeaks
  <2>1. PICK k \in Parts, of \in Objects : h = [kind |-> k, of |-> of]
    BY DEF ComputeInv, ComputeTypeOK
  <2>2. h.of = of /\ Exists(k, of)
    BY <2>1 DEF Exists, Handle
  <2>3. of # Probe /\ Whole(of)
    BY <2>2, Between DEF None
  <2>4. \A m \in PartsOf(of) : Handle(m, of) \in handles
    BY <2>3, Parted DEF Whole, Exists, Objects, Parts
  <2>5. KindsOf(of) = PartsOf(of)
    <3>1. CASE of \in Pipelines
      BY <3>1, KindsApart, Parted DEF KindsOf, PipelineParts
    <3>2. CASE of \in Buffers
      BY <3>2, KindsApart, Parted DEF KindsOf, BufferParts
    <3>3. CASE of = Nil
      BY <3>3, KindsApart, Parted DEF KindsOf
    <3> QED BY <2>3, <3>1, <3>2, <3>3 DEF Objects
  <2> QED BY <2>2, <2>3, <2>4, <2>5 DEF Complete
<1> QED BY <1>1, ComputeInvariant, PTL

(* Whatever a rollback or a destructor is about to destroy exists, and it    *)
(* destroys nothing twice.                                                   *)
THEOREM ExactUndo == Spec => []DestroysWhatExists
<1>1. ComputeInv => DestroysWhatExists
  <2> SUFFICES ASSUME ComputeInv, Unmaking, NEW i \in 1 .. Len(call.todo), call.todo[i] # "drain"
               PROVE  /\ Exists(call.todo[i], call.of)
                      /\ \A j \in 1 .. i - 1 : call.todo[j] # call.todo[i]
    BY DEF DestroysWhatExists
  <2>1. /\ Distinct(call.todo) /\ call.todo[i] \in Parts
        /\ \A k \in Parts : In(k, call.todo) => Exists(k, call.of)
    BY DEF ComputeInv, UnmakingKnown
  <2>2. Exists(call.todo[i], call.of)
    BY <2>1 DEF In
  <2>3. call.todo \in Seq(Steps)
    BY DEF ComputeInv, ComputeTypeOK
  <2>4. \A j \in 1 .. i - 1 : j \in 1 .. Len(call.todo) /\ j # i
    BY <2>3
  <2> QED BY <2>1, <2>2, <2>4 DEF Distinct
<1> QED BY <1>1, ComputeInvariant, PTL

(* No handle outlives what it was made from, the device or the instance.     *)
THEOREM ParentsLast == Spec => []ParentsOutlive
<1>1. ComputeInv => ParentsOutlive
  <2> SUFFICES ASSUME ComputeInv, NEW h \in handles
               PROVE  /\ \A kind \in {"commandPool", "descriptorPool", "memory"} :
                           h.kind \in Children(kind) => Exists(kind, h.of)
                      /\ h.kind = "device" => Exists("instance", Nil)
                      /\ h.of \notin {Nil, Probe} => IsOpen
    BY DEF ParentsOutlive
  <2>1. PICK k \in Parts, of \in Objects : h = [kind |-> k, of |-> of]
    BY DEF ComputeInv, ComputeTypeOK
  <2>2. h.of = of /\ h.kind = k /\ Exists(k, of) /\ ~None(of)
    BY <2>1 DEF Exists, Handle, None
  <2>3. of \notin {Nil, Probe} => IsOpen
    BY <2>2 DEF ComputeInv, UnderTheDevice, Objects
  <2>4. /\ {"commandPool", "descriptorPool", "memory"} \subseteq Parts
        /\ \A m : "commandBuffer" \in Children(m) <=> m = "commandPool"
        /\ \A m : "descriptorSet" \in Children(m) <=> m = "descriptorPool"
        /\ \A m : "mapping" \in Children(m) <=> m = "memory"
        /\ Registers \cap {"commandBuffer", "descriptorSet", "mapping"} = {}
        /\ \A m, l : l \in Children(m) => l \in {"commandBuffer", "descriptorSet", "mapping"}
        /\ {"instance", "device"} \subseteq Parts
    BY DEF Parts, PipelineParts, BufferParts, Children, Registers
  <2>5. CASE ~Handling(of)
    <3>1. k \in PartsOf(of) /\ \A m \in Parts : m \in PartsOf(of) => Exists(m, of)
      BY <2>2, <2>5 DEF ComputeInv, WholeOrAbsent, Whole
    <3>2. CASE of \in Pipelines
      <4>1. PartsOf(of) = PipelineParts
        BY <3>2, Parted
      <4>2. "commandPool" \in PipelineParts /\ "descriptorPool" \in PipelineParts
            /\ "mapping" \notin PipelineParts /\ "device" \notin PipelineParts
        BY DEF PipelineParts
      <4> QED BY <2>2, <2>3, <2>4, <3>1, <4>1, <4>2
    <3>3. CASE of \in Buffers
      <4>1. PartsOf(of) = BufferParts
        BY <3>3, Parted
      <4>2. "memory" \in BufferParts /\ "commandBuffer" \notin BufferParts
            /\ "descriptorSet" \notin BufferParts /\ "device" \notin BufferParts
        BY DEF BufferParts
      <4> QED BY <2>2, <2>3, <2>4, <3>1, <4>1, <4>2
    <3>4. CASE of = Probe
      BY <2>2, <2>3, <2>4, <3>1, <3>4, Parted
    <3>5. CASE of = Nil
      BY <2>2, <2>3, <2>4, <3>1, <3>5, Parted
    <3> QED BY <3>2, <3>3, <3>4, <3>5 DEF Objects
  <2>6. CASE Making /\ call.of = of
    <3>1. /\ k # "mapping" /\ k # "device"
          /\ call.undo \in Seq(Registers)
          /\ \A m \in Parts : In(m, call.undo) => Exists(m, of) /\ m \in Registers
          /\ In(k, call.undo) \/ \E m \in Parts : In(m, call.undo) /\ k \in Children(m)
      BY <2>2, <2>6, MakingFacts
    <3> QED BY <2>2, <2>3, <2>4, <3>1
  <2>7. CASE Unmaking /\ call.of = of
    <3>1. /\ \A m \in Parts : In(m, call.todo) => Exists(m, of)
          /\ In(k, call.todo) \/ \E m \in Parts : In(m, call.todo) /\ k \in Children(m)
      BY <2>2, <2>7 DEF ComputeInv, UnmakingKnown
    <3>2. /\ ~In("commandBuffer", call.todo) /\ ~In("descriptorSet", call.todo)
          /\ k = "mapping" => In("memory", call.todo)
          /\ k = "device" => call.op = "close" /\ In("instance", call.todo)
      BY <2>2, <2>7 DEF ComputeInv, UnmakingOrdered
    <3>3. k = "device" => of = Nil
      BY <2>7, <3>2 DEF ComputeInv, CallFits, Fits
    <3> QED BY <2>2, <2>3, <2>4, <3>1, <3>2, <3>3
  <2> QED BY <2>5, <2>6, <2>7 DEF Handling
<1> QED BY <1>1, ComputeInvariant, PTL

(* A pipeline that was given up on is whole, and a call that destroys it     *)
(* drains the device before anything else.                                   *)
PendingKnown ==
  \A p \in pending : Whole(p) /\ (Handling(p) => Unmaking /\ Head(call.todo) = "drain")

(* Steps that give up on no pipeline, and are about none that was.           *)
LEMMA PendingFrame ==
  ASSUME PendingKnown, pending' \subseteq pending,
         \A p \in pending' : \A k \in Parts : Exists(k, p)' <=> Exists(k, p),
         \A p \in pending' : Handling(p)' => Unmaking' /\ Head(call'.todo) = "drain"
  PROVE  PendingKnown'
BY DEF PendingKnown, Whole

(* A call that begins is not about a pipeline that was given up on, unless   *)
(* it destroys it.                                                           *)
LEMMA PendingBegins ==
  ASSUME ComputeInv, PendingKnown, NEW op, NEW of, NEW todo, Start(op, of, todo),
         of \in pending => op = "destroy" /\ Head(todo) = "drain"
  PROVE  PendingKnown'
<1>1. UNCHANGED <<handles, pending>> /\ call'.op = op /\ call'.of = of /\ call'.todo = todo
  BY CallFields DEF Start
<1>2. \A p \in pending' : Handling(p)' => Unmaking' /\ Head(call'.todo) = "drain"
  BY <1>1, Operations DEF Handling, Unmaking
<1> QED BY <1>1, <1>2, PendingFrame DEF Exists

(* A step of a constructor or a destructor, on an object that was not given  *)
(* up on or is drained now.                                                  *)
LEMMA PendingGoesOn ==
  ASSUME ComputeInv, PendingKnown, Make \/ MakeFails \/ Drain \/ Unmake
  PROVE  PendingKnown'
<1>1. call.of \notin pending' /\ pending' \subseteq pending
  <2>1. CASE Make \/ MakeFails
    <3>1. Making /\ ~Unmaking /\ pending' = pending
      BY <2>1, Operations DEF Make, MakeFails, Making, Unmaking
    <3> QED BY <3>1 DEF PendingKnown, Handling
  <2>2. CASE Drain
    BY <2>2 DEF Drain
  <2>3. CASE Unmake
    BY <2>3 DEF Unmake, PendingKnown, Handling
  <2> QED BY <2>1, <2>2, <2>3
<1>2. \A p \in pending' : \A k \in Parts : Exists(k, p)' <=> Exists(k, p)
  <2>1. \A h : h.of # call.of => (h \in handles' <=> h \in handles)
    BY DEF Make, MakeFails, Drain, Unmake, Gone, Handle
  <2>2. \A p, k : Handle(k, p).of = p
    BY DEF Handle
  <2> QED BY <1>1, <2>1, <2>2 DEF Exists
<1>3. call'.of = call.of \/ ~(Making \/ Unmaking)'
  <2>1. ASSUME Advance PROVE call'.of = call.of \/ call'.op = "idle"
    BY <2>1, CallFields DEF Advance, Idle, ComputeInv, ComputeTypeOK
  <2>2. ASSUME NEW undo, Made(undo) PROVE call'.of = call.of \/ call'.op = "idle"
    BY <2>2, CallFields DEF Made, Idle
  <2>3. CASE Make
    BY <2>2, <2>3, Operations DEF Make, Making, Unmaking
  <2>4. CASE MakeFails
    BY <2>4, CallFields, Operations DEF MakeFails, Idle, Making, Unmaking
  <2>5. CASE Drain \/ Unmake
    BY <2>1, <2>5, Operations DEF Drain, Unmake, Making, Unmaking
  <2> QED BY <2>3, <2>4, <2>5
<1> QED BY <1>1, <1>2, <1>3, PendingFrame DEF Handling

(* A dispatch, the GPU and the copies destroy nothing; a wait that fails     *)
(* gives up on a pipeline that is whole.                                     *)
LEMMA PendingLeftAlone ==
  ASSUME ComputeInv, PendingKnown, UNCHANGED <<handles, pending>>,
         call' = call \/ call'.op \in {"idle", "dispatch"}
  PROVE  PendingKnown'
BY PendingFrame, Operations DEF PendingKnown, Exists, Handling, Making, Unmaking

LEMMA PendingStep ==
  ASSUME ComputeInv, PendingKnown, Next
  PROVE  PendingKnown'
<1> USE DEF Whole, None
<1>0. \A p \in pending : p \in Pipelines /\ p # Nil /\ p # Probe /\ p \notin Buffers /\ p \in Built
  BY KindsApart, Parted DEF ComputeInv, ComputeTypeOK, PendingKnown, Built, Parts, PipelineParts
<1>1. CASE Open \/ Detect \/ CloseDevice
  <2>1. PICK op, of, todo : Start(op, of, todo) /\ of \in {Nil, Probe}
    BY <1>1 DEF Open, Detect, Constructing, CloseDevice
  <2> QED BY <1>0, <2>1, PendingBegins
<1>2. ASSUME NEW b \in Buffers, Allocate(b) \/ Free(b) \/ CloseBuffer(b) PROVE PendingKnown'
  <2>1. PICK op, todo : Start(op, b, todo)
    BY <1>2 DEF Allocate, Constructing, Free, CloseBuffer, FreeBuffer
  <2> QED BY <1>0, <2>1, PendingBegins
<1>3. ASSUME NEW p \in Pipelines, Compile(p) PROVE PendingKnown'
  <2>1. p \notin Built /\ Start("compile", p, Program["compile"])
    BY <1>3 DEF Compile, Constructing
  <2> QED BY <1>0, <2>1, PendingBegins
<1>4. ASSUME NEW p \in Pipelines, Destroy(p) \/ ClosePipeline(p) PROVE PendingKnown'
  <2>1. Start("destroy", p, Draining(p) \o DestroyList)
    BY <1>4 DEF Destroy, ClosePipeline, DestroyPipeline, DestroyList
  <2>2. /\ Draining(p) \o DestroyList \in Seq(Steps) /\ Draining(p) \o DestroyList # <<>>
        /\ p \in pending => (Draining(p) \o DestroyList)[1] = "drain"
    BY DrainingFacts
  <2> DEFINE todo == Draining(p) \o DestroyList
  <2> HIDE DEF todo
  <2>3. todo \in Seq(Steps) /\ todo # <<>> /\ (p \in pending => todo[1] = "drain")
    BY <2>2 DEF todo
  <2>4. p \in pending => Head(todo) = "drain"
    BY <2>3
  <2> QED BY <2>1, <2>4, PendingBegins DEF todo
<1>5. CASE Make \/ MakeFails \/ Drain \/ Unmake
  BY <1>5, PendingGoesOn
<1>6. CASE Close \/ \E b \in Buffers, d \in Data : Write(b, d)
  BY <1>6, PendingLeftAlone DEF Close, Write
<1>7. CASE \E p \in Pipelines, d \in Data : Dispatch(p, d)
  BY <1>7, PendingLeftAlone DEF Dispatch, Dispatching
<1>8. CASE UpdateSet \/ Record \/ ResetFence \/ Submit
  <2>1. UNCHANGED <<handles, pending>> /\ call.op = "dispatch" /\ Advance
    BY <1>8 DEF UpdateSet, Record, Recorded, ResetFence, Submit, At
  <2>2. call'.op \in {"idle", "dispatch"}
    BY <2>1, CallFields DEF Advance, Idle, ComputeInv, ComputeTypeOK
  <2> QED BY <2>1, <2>2, PendingLeftAlone
<1>9. CASE DispatchFails \/ WaitSucceeds
  BY <1>9, CallFields, PendingLeftAlone DEF DispatchFails, WaitSucceeds, Idle
<1>10. ASSUME NEW kind \in {"timeout", "lost"}, WaitFails(kind) PROVE PendingKnown'
  <2>1. /\ call.op = "dispatch" /\ call'.op = "idle" /\ handles' = handles
        /\ pending' = pending \cup {call.of}
    BY <1>10, CallFields DEF WaitFails, At, Idle
  <2>2. ~Handling(call.of) /\ call.of \in Built
    BY <2>1, Operations DEF Handling, Making, Unmaking, ComputeInv, DispatchKnown
  <2>3. Whole(call.of)
    BY <2>2, Parted DEF ComputeInv, WholeOrAbsent, Built, Parts, PipelineParts
  <2>4. \A p : ~Handling(p)'
    BY <2>1, Operations DEF Handling, Making, Unmaking
  <2> QED BY <2>1, <2>3, <2>4 DEF PendingKnown, Exists
<1>11. ASSUME NEW s \in inflight, Execute(s) PROVE PendingKnown'
  BY <1>11, PendingLeftAlone DEF Execute
<1> QED BY <1>1, <1>2, <1>3, <1>4, <1>5, <1>6, <1>7, <1>8, <1>9, <1>10, <1>11 DEF Next

(* While its work is in flight, every Vulkan object of a pipeline exists,    *)
(* also when the wait was given up on, and no dispatch updates, re-records   *)
(* or resets them.                                                           *)
THEOREM Untouched == Spec => []UntouchedInFlight
<1>1. ComputeInv /\ PendingKnown => UntouchedInFlight
  <2> SUFFICES ASSUME ComputeInv, PendingKnown, NEW s \in inflight
               PROVE  /\ call.op = "dispatch" /\ ~At("wait") => s.pipe # call.of
                      /\ Complete(s.pipe) \subseteq handles
    BY DEF UntouchedInFlight
  <2>1. s.pipe \in Pipelines
    BY DEF ComputeInv, ComputeTypeOK, Submissions
  <2>2. Whole(s.pipe)
    <3>1. CASE s.pipe \in pending
      BY <3>1 DEF PendingKnown
    <3>2. CASE At("wait") /\ s = call.work
      <4>1. ~Handling(s.pipe) /\ s.pipe \in Built
        BY <3>2, Operations DEF At, Handling, Making, Unmaking, ComputeInv, DispatchKnown
      <4> QED BY <2>1, <4>1, Parted DEF ComputeInv, WholeOrAbsent, None, Built, Parts, PipelineParts
    <3> QED BY <3>1, <3>2 DEF ComputeInv, WorkIsWatched
  <2>3. KindsOf(s.pipe) = PipelineParts /\ PartsOf(s.pipe) = PipelineParts
    BY <2>1, KindsApart, Parted DEF KindsOf, PipelineParts
  <2>4. Complete(s.pipe) \subseteq handles
    BY <2>2, <2>3 DEF Complete, Whole, Exists, Parts
  <2>5. call.op = "dispatch" /\ ~At("wait") => s.pipe # call.of
    BY NotYetSubmitted DEF At
  <2> QED BY <2>4, <2>5
<1>2. Init => PendingKnown
  BY DEF Init, PendingKnown
<1>3. ComputeInv /\ PendingKnown /\ [Next]_vars => PendingKnown'
  <2>1. ASSUME PendingKnown, UNCHANGED vars PROVE PendingKnown'
    BY <2>1 DEF vars, PendingKnown, Whole, Exists, Handling, Making, Unmaking
  <2> QED BY <2>1, PendingStep
<1> QED BY <1>1, <1>2, <1>3, ComputeInvariant, PTL DEF Spec

(* What is submitted was recorded to its end, and a fence that is signalled  *)
(* means that the work waited for is done.                                   *)
THEOREM DoneWhenSignalled == Spec => []WaitMeansDone
<1>1. ComputeInv => WaitMeansDone
  BY DEF ComputeInv, DispatchKnown, WaitMeansDone, At
<1> QED BY <1>1, ComputeInvariant, PTL

-----------------------------------------------------------------------------
(* The entry points implement the calls.                                     *)

(* The state of the calls that a state of the entry points stands for.       *)
Opens     == IF IsOpen \/ closed THEN 1 ELSE 0
Devices   == IF IsOpen THEN {1} ELSE {}
Usable    == Built \ Drained
Waiting   == IF At("wait") THEN call.work ELSE Nil
Closing   == IF inClose /\ IsOpen THEN 1 ELSE 0
ApiVars   == <<Opens, Devices, Usable, pending, contents, inflight, Waiting, Closing>>

(* What the state of the API is under the mapping.                         *)
LEMMA ApiState ==
  /\ Api!ctxVars = ApiVars
  /\ Api!Pipelines = Pipelines /\ Api!Buffers = Buffers /\ Api!Submissions = Submissions
  /\ Api!Contexts = {1}
  /\ Api!Calling <=> Waiting = Nil /\ Closing = 0
  /\ Api!live = {b \in Buffers : contents[b] # Absent}
  /\ Api!Bindings = Bindings /\ Api!Inputs = Inputs
<1>1. Api!ctxVars = ApiVars
  BY DEF Api!ctxVars, ApiVars, Opens, Devices, Usable, Waiting, Closing
<1>2. 1 .. 1 = {1}
  OBVIOUS
<1>3. Api!Contexts = {1}
  BY <1>2 DEF Api!Contexts
<1>4. Api!Bindings = Bindings /\ Api!Inputs = Inputs
  BY DEF Api!Bindings, Api!Inputs, Bindings, Inputs
<1>5. Api!Pipelines = Pipelines /\ Api!Buffers = Buffers
  BY <1>3, <1>4 DEF Api!Pipelines, Api!Buffers, Pipelines, Buffers
<1>6. Api!Submissions = Submissions
  BY <1>4, <1>5 DEF Api!Submissions, Submissions
<1>7. Api!Calling <=> Waiting = Nil /\ Closing = 0
  BY DEF Api!Calling, Waiting, Closing
<1>8. Api!live = {b \in Buffers : contents[b] # Absent}
  BY <1>5 DEF Api!live
<1> QED BY <1>1, <1>3, <1>4, <1>5, <1>6, <1>7, <1>8

Calm == Waiting = Nil /\ Closing = 0
Live == {b \in Buffers : contents[b] # Absent}

(* The steps of the calls, over that state.                                  *)
LEMMA ApiCalls ==
  /\ Api!Open <=> /\ Calm /\ Opens < 1 /\ Opens' = Opens + 1
                  /\ Devices' = Devices \cup {Opens + 1}
                  /\ UNCHANGED <<Usable, pending, contents, inflight, Waiting, Closing>>
  /\ \A b : Api!Allocate(b) <=>
       /\ Calm /\ b.ctx \in Devices /\ b \notin Live
       /\ contents' = [contents EXCEPT ![b] = Garbage]
       /\ UNCHANGED <<Opens, Devices, Usable, pending, inflight, Waiting, Closing>>
  /\ \A b : Api!Free(b) <=>
       /\ Calm /\ b \in Live
       /\ contents' = [contents EXCEPT ![b] = Absent]
       /\ UNCHANGED <<Opens, Devices, Usable, pending, inflight, Waiting, Closing>>
  /\ \A p : Api!Compile(p) <=>
       /\ Calm /\ p.ctx \in Devices /\ p \notin Usable
       /\ Usable' = Usable \cup {p}
       /\ UNCHANGED <<Opens, Devices, pending, contents, inflight, Waiting, Closing>>
  /\ \A p : Api!DestroyHandles(p) <=>
       /\ p \in Usable /\ (p \in pending => ~\E s \in inflight : s.pipe.ctx = p.ctx)
       /\ Usable' = Usable \ {p} /\ pending' = pending \ {p}
       /\ UNCHANGED <<Opens, Devices, contents, inflight, Waiting, Closing>>
  /\ \A c : Api!BeginClose(c) <=>
       /\ Calm /\ c \in Devices /\ Closing' = c
       /\ UNCHANGED <<Opens, Devices, Usable, pending, contents, inflight, Waiting>>
<1>1. Api!live = Live /\ (Api!Calling <=> Calm)
  BY ApiState DEF Live, Calm
<1>2. Api!Open <=> /\ Calm /\ Opens < 1 /\ Opens' = Opens + 1
                   /\ Devices' = Devices \cup {Opens + 1}
                   /\ UNCHANGED <<Usable, pending, contents, inflight, Waiting, Closing>>
  BY <1>1, Zenon DEF Api!Open, Opens, Devices, Usable, Waiting, Closing
<1>3. \A b : Api!Allocate(b) <=>
       /\ Calm /\ b.ctx \in Devices /\ b \notin Live
       /\ contents' = [contents EXCEPT ![b] = Garbage]
       /\ UNCHANGED <<Opens, Devices, Usable, pending, inflight, Waiting, Closing>>
  BY <1>1, Zenon DEF Api!Allocate, Opens, Devices, Usable, Waiting, Closing
<1>4. \A b : Api!Free(b) <=>
       /\ Calm /\ b \in Live
       /\ contents' = [contents EXCEPT ![b] = Absent]
       /\ UNCHANGED <<Opens, Devices, Usable, pending, inflight, Waiting, Closing>>
  BY <1>1, Zenon DEF Api!Free, Opens, Devices, Usable, Waiting, Closing
<1>5. \A p : Api!Compile(p) <=>
       /\ Calm /\ p.ctx \in Devices /\ p \notin Usable
       /\ Usable' = Usable \cup {p}
       /\ UNCHANGED <<Opens, Devices, pending, contents, inflight, Waiting, Closing>>
  BY <1>1, Zenon DEF Api!Compile, Opens, Devices, Usable, Waiting, Closing
<1>6. \A p : Api!DestroyHandles(p) <=>
       /\ p \in Usable /\ (p \in pending => ~\E s \in inflight : s.pipe.ctx = p.ctx)
       /\ Usable' = Usable \ {p} /\ pending' = pending \ {p}
       /\ UNCHANGED <<Opens, Devices, contents, inflight, Waiting, Closing>>
  BY Zenon DEF Api!DestroyHandles, Api!Busy, Opens, Devices, Usable, Waiting, Closing
<1>7. \A c : Api!BeginClose(c) <=>
       /\ Calm /\ c \in Devices /\ Closing' = c
       /\ UNCHANGED <<Opens, Devices, Usable, pending, contents, inflight, Waiting>>
  BY <1>1, Zenon DEF Api!BeginClose, Opens, Devices, Usable, Waiting, Closing
<1> QED BY <1>2, <1>3, <1>4, <1>5, <1>6, <1>7

(* What the API's calls on a device are under the mapping.                 *)
LEMMA ApiWork ==
  /\ \A bs, d : Api!Write(bs, d) <=>
       /\ Calm /\ bs \subseteq Live
       /\ contents' = [b \in Buffers |-> IF b \in bs THEN d ELSE contents[b]]
       /\ UNCHANGED <<Opens, Devices, Usable, pending, inflight, Waiting, Closing>>
  /\ \A p, bs, d : Api!Submit(p, bs, d) <=>
       /\ Calm /\ p \in Usable /\ p \notin pending
       /\ \A i \in Bindings : bs[i] \in Live
       /\ Waiting' = [pipe |-> p, bufs |-> bs, arg |-> d]
       /\ inflight' = inflight \cup {Waiting'}
       /\ UNCHANGED <<Opens, Devices, Usable, pending, contents, Closing>>
  /\ Api!FenceSignalled <=>
       /\ Waiting # Nil /\ ~\E s \in inflight : s.pipe.ctx = Waiting.pipe.ctx
       /\ Waiting' = Nil
       /\ UNCHANGED <<Opens, Devices, Usable, pending, contents, inflight, Closing>>
  /\ \A kind : Api!WaitFails(kind) <=>
       /\ kind \in Faults \cap {"timeout", "lost"}
       /\ Waiting # Nil
       /\ (kind # "interrupt" => \E s \in inflight : s.pipe.ctx = Waiting.pipe.ctx)
       /\ pending' = IF kind = "interrupt" THEN pending ELSE pending \cup {Waiting.pipe}
       /\ inflight' = IF kind = "lost"
                        THEN {s \in inflight : s.pipe.ctx # Waiting.pipe.ctx} ELSE inflight
       /\ Waiting' = Nil
       /\ UNCHANGED <<Opens, Devices, Usable, contents, Closing>>
  /\ \A s : Api!Execute(s) <=>
       /\ s \in inflight /\ inflight' = inflight \ {s}
       /\ contents' =
            IF s.bufs["output"] \in Live
              THEN [contents EXCEPT ![s.bufs["output"]] =
                      IF \A i \in Inputs : contents[s.bufs[i]] = s.arg THEN s.arg ELSE Garbage]
              ELSE contents
       /\ UNCHANGED <<Opens, Devices, Usable, pending, Waiting, Closing>>
<1>1. /\ Api!live = Live /\ (Api!Calling <=> Calm)
      /\ Api!Bindings = Bindings /\ Api!Inputs = Inputs /\ Api!Buffers = Buffers
  BY ApiState DEF Live, Calm
<1>2. \A bs, d : Api!Write(bs, d) <=>
       /\ Calm /\ bs \subseteq Live
       /\ contents' = [b \in Buffers |-> IF b \in bs THEN d ELSE contents[b]]
       /\ UNCHANGED <<Opens, Devices, Usable, pending, inflight, Waiting, Closing>>
  BY <1>1, Zenon DEF Api!Write, Opens, Devices, Usable, Waiting, Closing
<1>3. \A p, bs, d : Api!Submit(p, bs, d) <=>
       /\ Calm /\ p \in Usable /\ p \notin pending
       /\ \A i \in Bindings : bs[i] \in Live
       /\ Waiting' = [pipe |-> p, bufs |-> bs, arg |-> d]
       /\ inflight' = inflight \cup {Waiting'}
       /\ UNCHANGED <<Opens, Devices, Usable, pending, contents, Closing>>
  BY <1>1, Zenon DEF Api!Submit, Opens, Devices, Usable, Waiting, Closing
<1>4. Api!FenceSignalled <=>
       /\ Waiting # Nil /\ ~\E s \in inflight : s.pipe.ctx = Waiting.pipe.ctx
       /\ Waiting' = Nil
       /\ UNCHANGED <<Opens, Devices, Usable, pending, contents, inflight, Closing>>
  BY Zenon DEF Api!FenceSignalled, Api!Busy, Opens, Devices, Usable, Waiting, Closing
<1>5. \A kind : Api!WaitFails(kind) <=>
       /\ kind \in Faults \cap {"timeout", "lost"}
       /\ Waiting # Nil
       /\ (kind # "interrupt" => \E s \in inflight : s.pipe.ctx = Waiting.pipe.ctx)
       /\ pending' = IF kind = "interrupt" THEN pending ELSE pending \cup {Waiting.pipe}
       /\ inflight' = IF kind = "lost"
                        THEN {s \in inflight : s.pipe.ctx # Waiting.pipe.ctx} ELSE inflight
       /\ Waiting' = Nil
       /\ UNCHANGED <<Opens, Devices, Usable, contents, Closing>>
  BY Zenon DEF Api!WaitFails, Api!Busy, Opens, Devices, Usable, Waiting, Closing
<1>6. \A s : Api!Execute(s) <=>
       /\ s \in inflight /\ inflight' = inflight \ {s}
       /\ contents' =
            IF s.bufs["output"] \in Live
              THEN [contents EXCEPT ![s.bufs["output"]] =
                      IF \A i \in Inputs : contents[s.bufs[i]] = s.arg THEN s.arg ELSE Garbage]
              ELSE contents
       /\ UNCHANGED <<Opens, Devices, Usable, pending, Waiting, Closing>>
  BY <1>1, Zenon DEF Api!Execute, Opens, Devices, Usable, Waiting, Closing
<1> QED BY <1>2, <1>3, <1>4, <1>5, <1>6

(* What the API's destructions are under the mapping.                      *)
LEMMA ApiCloses ==
  /\ \A p : Api!ClosePipeline(p) <=> Closing # 0 /\ p.ctx = Closing /\ Api!DestroyHandles(p)
  /\ \A b : Api!CloseBuffer(b) <=>
       /\ Closing # 0 /\ {p \in Usable : p.ctx = Closing} = {}
       /\ b \in {c \in Live : c.ctx = Closing}
       /\ contents' = [contents EXCEPT ![b] = Absent]
       /\ UNCHANGED <<Opens, Devices, Usable, pending, inflight, Waiting, Closing>>
  /\ Api!CloseDevice <=>
       /\ Closing # 0 /\ {p \in Usable : p.ctx = Closing} = {}
       /\ {c \in Live : c.ctx = Closing} = {}
       /\ Devices' = Devices \ {Closing} /\ Closing' = 0
       /\ UNCHANGED <<Opens, Usable, pending, contents, inflight, Waiting>>
<1>1. Api!live = Live
  BY ApiState DEF Live
<1>2. \A p : Api!ClosePipeline(p) <=> Closing # 0 /\ p.ctx = Closing /\ Api!DestroyHandles(p)
  BY Zenon DEF Api!ClosePipeline, Closing
<1>3. \A b : Api!CloseBuffer(b) <=>
       /\ Closing # 0 /\ {p \in Usable : p.ctx = Closing} = {}
       /\ b \in {c \in Live : c.ctx = Closing}
       /\ contents' = [contents EXCEPT ![b] = Absent]
       /\ UNCHANGED <<Opens, Devices, Usable, pending, inflight, Waiting, Closing>>
  BY <1>1, Zenon DEF Api!CloseBuffer, Api!PipesOf, Api!BufsOf, Opens, Devices, Usable, Waiting, Closing
<1>4. Api!CloseDevice <=>
       /\ Closing # 0 /\ {p \in Usable : p.ctx = Closing} = {}
       /\ {c \in Live : c.ctx = Closing} = {}
       /\ Devices' = Devices \ {Closing} /\ Closing' = 0
       /\ UNCHANGED <<Opens, Usable, pending, contents, inflight, Waiting>>
  BY <1>1, Zenon DEF Api!CloseDevice, Api!PipesOf, Api!BufsOf, Opens, Devices, Usable, Waiting, Closing
<1> QED BY <1>2, <1>3, <1>4

(* What the calls see, from what the entry points have done.                 *)
LEMMA Seen ==
  /\ call.op # "dispatch" => Waiting = Nil
  /\ call.op = "dispatch" /\ Head(call.todo) # "wait" => Waiting = Nil
  /\ call.op # "destroy" => Usable = Built
  /\ ~inClose => Closing = 0
  /\ inClose /\ IsOpen => Closing = 1
  /\ ComputeInv => Live = Mapped
<1>1. call.op # "destroy" => Drained = {}
  BY DEF Drained
<1>2. Mapped \subseteq Buffers
  BY DEF Mapped
<1>3. ComputeInv => Live = Mapped
  BY <1>2 DEF ComputeInv, ContentsKnown, Live
<1> QED BY <1>1, <1>3 DEF Waiting, At, Usable, Closing

(* What does not disturb the handles is not seen, except while a destructor  *)
(* or a wait is under way.                                                   *)
LEMMA Unseen ==
  ASSUME UNCHANGED <<handles, inClose, closed, pending, contents, inflight>>,
         Waiting = Nil, Waiting' = Nil, call.op # "destroy", call'.op # "destroy"
  PROVE  ApiVars' = ApiVars
<1>1. (IsOpen' <=> IsOpen) /\ Built' = Built
  BY DEF IsOpen, Built, Exists
<1>2. Usable = Built /\ Usable' = Built'
  BY DEF Usable, Drained
<1>3. Opens' = Opens /\ Devices' = Devices /\ Closing' = Closing
  BY <1>1 DEF Opens, Devices, Closing
<1> QED BY <1>1, <1>2, <1>3 DEF ApiVars

(* A call that begins is not seen yet: the step stutters.                    *)
LEMMA BeginSimulated ==
  ASSUME ComputeInv,
         \/ Open \/ Detect \/ CloseDevice
         \/ \E b \in Buffers : Allocate(b) \/ Free(b) \/ CloseBuffer(b)
         \/ \E p \in Pipelines : Compile(p)
  PROVE  ApiVars' = ApiVars
<1>1. ASSUME NEW op \in DOMAIN Program \cup {"free", "close"}, NEW of, NEW todo,
             Start(op, of, todo), UNCHANGED inClose, closed' = (closed \/ IsOpen) \/ closed' = closed,
             closed' # closed => IsOpen
      PROVE  ApiVars' = ApiVars
  <2>1. /\ call = Idle /\ handles' = handles /\ pending' = pending /\ contents' = contents
        /\ inflight' = inflight /\ call'.op = op
    BY <1>1, CallFields DEF Start
  <2>2. op # "destroy" /\ op # "dispatch"
    BY Operations
  <2>3. call.op = "idle"
    BY <2>1, Between
  <2>4. (IsOpen' <=> IsOpen) /\ Built' = Built
    BY <2>1 DEF IsOpen, Built, Exists
  <2>5. Waiting = Nil /\ Waiting' = Nil
    BY <2>1, <2>2, <2>3 DEF Waiting, At
  <2>6. Usable = Built /\ Usable' = Built'
    BY <2>1, <2>2, <2>3 DEF Usable, Drained
  <2>7. Closing' = Closing /\ Devices' = Devices
    BY <1>1, <2>4 DEF Closing, Devices
  <2>8. Opens' = Opens
    BY <1>1, <2>4 DEF Opens
  <2> QED BY <2>1, <2>4, <2>5, <2>6, <2>7, <2>8 DEF ApiVars
<1>2. CASE Open
  BY <1>1, <1>2, Operations DEF Open, Constructing
<1>3. CASE Detect
  BY <1>1, <1>3, Operations DEF Detect, Constructing
<1>4. CASE CloseDevice
  <2>1. Start("close", Nil, CloseList) /\ UNCHANGED inClose /\ closed' = TRUE /\ inClose /\ ~closed
    BY <1>4 DEF CloseDevice, CloseList
  <2>2. IsOpen
    BY <2>1 DEF ComputeInv, CloseKnown
  <2> QED BY <1>1, <2>1, <2>2
<1>5. ASSUME NEW b \in Buffers, Allocate(b) PROVE ApiVars' = ApiVars
  BY <1>1, <1>5, Operations DEF Allocate, Constructing
<1>6. ASSUME NEW b \in Buffers, Free(b) \/ CloseBuffer(b) PROVE ApiVars' = ApiVars
  BY <1>1, <1>6 DEF Free, CloseBuffer, FreeBuffer
<1>7. ASSUME NEW p \in Pipelines, Compile(p) PROVE ApiVars' = ApiVars
  BY <1>1, <1>7, Operations DEF Compile, Constructing
<1> QED BY <1>2, <1>3, <1>4, <1>5, <1>6, <1>7

(* close begins when its first entry point is still to come.                 *)
LEMMA CloseSimulated ==
  ASSUME ComputeInv, Close PROVE Api!BeginClose(1)
<1>1. /\ IsOpen /\ ~inClose /\ call = Idle /\ inClose' = TRUE
      /\ UNCHANGED <<handles, call, closed, pending, contents, command, fence, inflight>>
  BY DEF Close
<1>2. call.op = "idle"
  BY <1>1, Between
<1>3. IsOpen' /\ Built' = Built
  BY <1>1 DEF IsOpen, Built, Exists
<1>4. Calm /\ Closing' = 1 /\ Devices = {1}
  BY <1>1, <1>2, <1>3, Seen DEF Calm, Closing, Devices
<1>5. UNCHANGED <<Opens, Devices, Usable, Waiting>>
  BY <1>1, <1>2, <1>3 DEF Opens, Devices, Usable, Drained, Waiting, At
<1> QED BY <1>1, <1>4, <1>5, ApiCalls

(* The last entry point of a constructor is its call, and so is the first    *)
(* handle a destructor destroys.                                             *)
LEMMA MakeSimulated ==
  ASSUME ComputeInv, ComputeInv', Make
  PROVE  \/ Api!Open \/ (\E b \in Buffers : Api!Allocate(b))
         \/ (\E p \in Pipelines : Api!Compile(p)) \/ ApiVars' = ApiVars
<1>0. PICK of \in Objects : of = call.of
  BY DEF ComputeInv, ComputeTypeOK
<1> DEFINE kind == Head(call.todo)
<1>1. /\ Making
      /\ handles' = IF kind \in Checks THEN handles ELSE handles \cup {Handle(kind, of)}
      /\ contents' = IF kind = "mapping" THEN [contents EXCEPT ![of] = Garbage] ELSE contents
      /\ UNCHANGED <<inClose, closed, pending, inflight>>
  BY <1>0 DEF Make
<1>2. call'.op = call.op \/ call'.op = "undo" \/ call'.op = "idle"
  BY CallFields DEF Make, Made, Idle
<1>3. /\ call.op \in DOMAIN Program /\ ~inClose /\ Fits(call.op, of)
      /\ kind \in Parts \cup Checks
      /\ kind \in Parts => kind \in PartsOf(of) /\ ~Exists(kind, of)
  BY <1>0, <1>1, MakingFacts
<1>4. /\ call.op # "dispatch" /\ call.op # "destroy"
      /\ call'.op # "dispatch" /\ call'.op # "destroy"
  BY <1>2, <1>3, Operations
<1>5. /\ Waiting = Nil /\ Waiting' = Nil /\ Closing = 0 /\ Closing' = 0
      /\ Usable = Built /\ Usable' = Built'
  BY <1>1, <1>3, <1>4 DEF Waiting, At, Closing, Usable, Drained
<1>6. Parts \cap Checks = {} /\ {"fence", "mapping", "device"} \subseteq Parts
  BY DEF Parts, PipelineParts, BufferParts, Checks
<1>7. \A k \in Parts : \A x : Exists(k, x)' <=> Exists(k, x) \/ (k = kind /\ x = of)
  <2>1. \A k, x : Handle(k, x) = Handle(kind, of) <=> k = kind /\ x = of
    BY DEF Handle
  <2> QED BY <1>1, <1>3, <1>6, <2>1 DEF Exists
<1>8. /\ IsOpen' <=> IsOpen \/ (kind = "device" /\ of = Nil)
      /\ Built' = Built \cup {p \in Pipelines : kind = "fence" /\ p = of}
  BY <1>6, <1>7 DEF IsOpen, Built
<1>9. /\ kind = "fence" => of \in Pipelines /\ of \notin Built
      /\ kind = "mapping" => of \in Buffers /\ of \notin Mapped
      /\ kind = "device" => of = Nil /\ ~IsOpen
  BY <1>3, <1>6, Parted
     DEF Objects, PipelineParts, BufferParts, Built, Mapped, IsOpen
<1>10. of \in Pipelines \cup Buffers => IsOpen
  BY <1>0 DEF ComputeInv, UnderTheDevice
<1>11. ~closed
  BY <1>3 DEF ComputeInv, CloseKnown
<1>12. Calm /\ Live = Mapped
  BY <1>5, Seen DEF Calm
<1> HIDE DEF kind
<1>13. CASE kind = "device"
  <2>1. IsOpen' /\ Built' = Built /\ contents' = contents
    BY <1>1, <1>8, <1>9, <1>13
  <2>2. Opens = 0 /\ Opens' = 1 /\ Devices = {} /\ Devices' = {1}
    BY <1>9, <1>11, <1>13, <2>1 DEF Opens, Devices
  <2> QED BY <1>1, <1>5, <1>12, <2>1, <2>2, ApiCalls
<1>14. CASE kind = "mapping"
  <2>1. (IsOpen' <=> IsOpen) /\ Built' = Built /\ IsOpen
    BY <1>8, <1>9, <1>10, <1>14
  <2>2. Devices = {1} /\ UNCHANGED <<Opens, Devices, Usable, Waiting, Closing>>
    BY <1>1, <1>5, <2>1 DEF Opens, Devices
  <2>3. of.ctx = 1 /\ of \notin Live
    BY <1>9, <1>12, <1>14, KindsApart
  <2>4. /\ Calm /\ of.ctx \in Devices /\ of \notin Live
        /\ contents' = [contents EXCEPT ![of] = Garbage]
        /\ UNCHANGED <<Opens, Devices, Usable, pending, inflight, Waiting, Closing>>
    BY <1>1, <1>12, <1>14, <2>2, <2>3
  <2>5. Api!Allocate(of)
    BY <2>4, ApiCalls, Zenon
  <2> QED BY <1>9, <1>14, <2>5
<1>15. CASE kind = "fence"
  <2>1. (IsOpen' <=> IsOpen) /\ Built' = Built \cup {of} /\ IsOpen /\ contents' = contents
    BY <1>1, <1>8, <1>9, <1>10, <1>15
  <2>2. Devices = {1} /\ UNCHANGED <<Opens, Devices, Waiting, Closing>>
    BY <1>1, <1>5, <2>1 DEF Opens, Devices
  <2>3. of.ctx = 1 /\ of \notin Usable /\ Usable' = Usable \cup {of}
    BY <1>5, <1>9, <1>15, <2>1, KindsApart
  <2>4. /\ Calm /\ of.ctx \in Devices /\ of \notin Usable
        /\ Usable' = Usable \cup {of}
        /\ UNCHANGED <<Opens, Devices, pending, contents, inflight, Waiting, Closing>>
    BY <1>1, <1>12, <2>1, <2>2, <2>3
  <2>5. Api!Compile(of)
    BY <2>4, ApiCalls, Zenon
  <2> QED BY <1>9, <1>15, <2>5
<1>16. CASE kind \notin {"device", "mapping", "fence"}
  <2>1. (IsOpen' <=> IsOpen) /\ Built' = Built /\ contents' = contents
    BY <1>1, <1>8, <1>16
  <2>2. UNCHANGED <<Opens, Devices, Usable, Waiting, Closing>>
    BY <1>1, <1>5, <2>1 DEF Opens, Devices
  <2>3. ApiVars' = ApiVars
    BY <1>1, <2>1, <2>2 DEF ApiVars
  <2> QED BY <2>3
<1> QED BY <1>13, <1>14, <1>15, <1>16

(* A constructor that fails and rolls back is nothing to the API.          *)
LEMMA MakeFailsSimulated ==
  ASSUME ComputeInv, MakeFails PROVE ApiVars' = ApiVars
<1>1. /\ Making /\ UNCHANGED <<handles, inClose, closed, pending, contents, inflight>>
      /\ call'.op \in {"idle", "undo"}
  BY CallFields DEF MakeFails, Idle
<1>2. call.op # "destroy" /\ call.op # "dispatch"
  BY <1>1, Operations DEF Making
<1>3. Waiting = Nil /\ Waiting' = Nil
  BY <1>1, <1>2 DEF Waiting, At
<1> QED BY <1>1, <1>2, <1>3, Unseen

(* A destructor of a pipeline that is not pending destroys at once; of one   *)
(* that is, it has the device to wait for first.                             *)
LEMMA DestroySimulated ==
  ASSUME ComputeInv, NEW p \in Pipelines, DestroyPipeline(p), UNCHANGED <<inClose, closed>>
  PROVE  \/ ApiVars' = ApiVars
         \/ Api!DestroyHandles(p) /\ Waiting = Nil
<1> DEFINE todo == Draining(p) \o DestroyList
<1>1. /\ call = Idle /\ p \in Built /\ call' = Calling("destroy", p, todo, <<>>)
      /\ UNCHANGED <<handles, inClose, closed, pending, contents, inflight>>
  BY DEF DestroyPipeline, Start, DestroyList
<1>2. /\ todo \in Seq(Steps) /\ todo # <<>>
      /\ p \notin pending => todo[1] = "fence"
      /\ p \in pending => todo[1] = "drain"
  BY DrainingFacts
<1> HIDE DEF todo
<1>3. Head(todo) = todo[1]
  BY <1>2
<1>4. call.op = "idle" /\ call'.op = "destroy" /\ call'.of = p /\ call'.todo = todo
  BY <1>1, Between, CallFields
<1>5. Waiting = Nil /\ Waiting' = Nil /\ Usable = Built
  BY <1>4, Seen DEF Waiting, At
<1>6. (IsOpen' <=> IsOpen) /\ Built' = Built
  BY <1>1 DEF IsOpen, Built, Exists
<1>7. UNCHANGED <<Opens, Devices, Closing>>
  BY <1>1, <1>6 DEF Opens, Devices, Closing
<1>8. CASE p \in pending
  <2>1. Usable' = Built
    BY <1>2, <1>3, <1>4, <1>6, <1>8 DEF Usable, Drained
  <2> QED BY <1>1, <1>5, <1>7, <2>1 DEF ApiVars
<1>9. CASE p \notin pending
  <2>1. Drained' = {p}
    BY <1>1, <1>2, <1>3, <1>4, <1>6, <1>9 DEF Drained
  <2>2. Usable' = Usable \ {p}
    BY <1>5, <1>6, <2>1 DEF Usable
  <2>3. p \in Usable /\ pending' = pending \ {p}
    BY <1>1, <1>5, <1>9
  <2>4. Api!DestroyHandles(p)
    BY <1>1, <1>5, <1>7, <1>9, <2>2, <2>3, ApiCalls
  <2> QED BY <1>5, <2>4
<1> QED BY <1>8, <1>9

(* When nothing is left to drain the pipeline is destroyed.                  *)
LEMMA DrainSimulated ==
  ASSUME ComputeInv, Drain
  PROVE  \E p \in Pipelines : Api!DestroyHandles(p) /\ Waiting = Nil
<1>0. PICK of \in Objects : of = call.of
  BY DEF ComputeInv, ComputeTypeOK
<1>1. /\ Unmaking /\ Head(call.todo) = "drain" /\ inflight = {} /\ Advance
      /\ pending' = pending \ {of}
      /\ UNCHANGED <<handles, inClose, closed, contents, inflight>>
  BY <1>0 DEF Drain
<1>2. In("drain", call.todo)
  BY <1>1, UnmakingFacts
<1>3. /\ call.op = "destroy" /\ Len(call.todo) > 1 /\ call.todo[2] = "fence"
      /\ call.todo \in Seq(Steps)
  BY <1>1, <1>2 DEF ComputeInv, UnmakingOrdered, ComputeTypeOK
<1>4. of \in Pipelines
  BY <1>0, <1>3 DEF ComputeInv, CallFits, Fits
<1>5. Exists("fence", of)
  <2>1. In("fence", call.todo)
    <3>1. 2 \in 1 .. Len(call.todo)
      BY <1>3
    <3> QED BY <1>3, <3>1 DEF In
  <2> QED BY <1>0, <1>1, <2>1 DEF ComputeInv, UnmakingKnown, Parts, PipelineParts
<1>6. of \in Built
  BY <1>4, <1>5 DEF Built
<1>7. call' = [call EXCEPT !.todo = Tail(call.todo)]
  BY <1>1, <1>3 DEF Advance
<1>8. call'.op = "destroy" /\ call'.of = of /\ Head(call'.todo) = "fence"
  <2>1. \A seq \in Seq(Steps) : Len(seq) > 1 => Head(Tail(seq)) = seq[2]
    OBVIOUS
  <2> QED BY <1>0, <1>3, <1>7, <2>1 DEF ComputeInv, ComputeTypeOK
<1>9. (IsOpen' <=> IsOpen) /\ Built' = Built
  BY <1>1 DEF IsOpen, Built, Exists
<1>10. UNCHANGED <<Opens, Devices, Closing>>
  BY <1>1, <1>9 DEF Opens, Devices, Closing
<1>11. Waiting = Nil /\ Waiting' = Nil
  BY <1>3, <1>8 DEF Waiting, At
<1>12. Drained = {} /\ Drained' = {of}
  BY <1>1, <1>6, <1>8, <1>9 DEF Drained
<1>13. of \in Usable /\ Usable' = Usable \ {of}
  BY <1>6, <1>9, <1>12 DEF Usable
<1>14. Api!DestroyHandles(of)
  BY <1>1, <1>10, <1>11, <1>13, ApiCalls
<1> QED BY <1>4, <1>11, <1>14

(* Destroying handles is seen when it unmaps a buffer or ends the device.    *)
LEMMA UnmakeSimulated ==
  ASSUME ComputeInv, Unmake
  PROVE  \/ ApiVars' = ApiVars \/ Api!CloseDevice
         \/ \E b \in Buffers : Api!Free(b) \/ Api!CloseBuffer(b)
<1>0. PICK of \in Objects : of = call.of
  BY DEF ComputeInv, ComputeTypeOK
<1> DEFINE kind == Head(call.todo)
<1>1. /\ Unmaking /\ kind # "drain" /\ Advance
      /\ handles' = handles \ Gone(kind)
      /\ contents' = IF kind = "mapping" THEN [contents EXCEPT ![of] = Absent] ELSE contents
      /\ UNCHANGED <<inClose, closed, pending, inflight>>
  BY <1>0 DEF Unmake
<1>2. /\ kind = call.todo[1] /\ kind \in Parts /\ In(kind, call.todo) /\ Exists(kind, of)
      /\ call.op # "dispatch"
  BY <1>0, <1>1, UnmakingFacts DEF ComputeInv, UnmakingKnown
<1>3. call' = Idle \/ (call'.op = call.op /\ call'.of = of)
  BY <1>0, <1>1 DEF Advance, ComputeInv, ComputeTypeOK
<1>4. \A k, x : Exists(k, x)' <=> Exists(k, x) /\ ~(x = of /\ k \in {kind} \cup Children(kind))
  BY <1>0, <1>1 DEF Exists, Gone, Handle
<1> HIDE DEF kind
<1>5. Children(kind) \subseteq {"commandBuffer", "descriptorSet", "mapping"}
  BY DEF Children
<1>6. kind \in {"fence", "device", "mapping"} => Children(kind) = {}
  BY DEF Children
<1>7. call.op = "dispatch" <=> FALSE
  BY <1>2
<1>8. Waiting = Nil /\ Waiting' = Nil
  BY <1>2, <1>3, CallFields DEF Waiting, At, Idle
<1>9. Exists("fence", of) => call.op = "destroy" /\ kind = "fence"
  BY <1>0, <1>1, <1>2 DEF ComputeInv, UnmakingOrdered
<1>10. Built' = Built \ {of}
  <2>1. of \in Built => kind = "fence"
    BY <1>9 DEF Built
  <2>2. "fence" \notin Children(kind)
    BY <1>5
  <2> QED BY <1>4, <2>1, <2>2 DEF Built
<1>11. Usable = Built \ {of}
  <2>1. of \in Built => call.op = "destroy" /\ kind # "drain"
    BY <1>1, <1>9 DEF Built, kind
  <2> QED BY <1>0, <2>1 DEF Usable, Drained, kind
<1>12. Usable' = Built'
  <2>1. Drained' \subseteq {of} \cap Built'
    BY <1>3, CallFields DEF Drained, Idle
  <2> QED BY <1>10, <2>1 DEF Usable
<1>13. Usable' = Usable
  BY <1>10, <1>11, <1>12
<1>14. IsOpen' <=> IsOpen /\ ~(of = Nil /\ kind = "device")
  BY <1>4, <1>5 DEF IsOpen
<1>15. CASE kind = "device"
  <2>1. call.op = "close" /\ inClose /\ closed /\ \A x \in Pipelines \cup Buffers : None(x)
    BY <1>0, <1>1, <1>2, <1>15 DEF ComputeInv, UnmakingOrdered
  <2>2. of = Nil /\ IsOpen /\ ~IsOpen'
    BY <1>0, <1>2, <1>14, <1>15, <2>1 DEF ComputeInv, CallFits, Fits, IsOpen
  <2>3. Built = {} /\ Mapped = {}
    BY <2>1 DEF Built, Mapped, None, Parts, PipelineParts, BufferParts
  <2>4. Usable = {} /\ Live = {} /\ Closing = 1 /\ Closing' = 0
    BY <1>11, <2>1, <2>2, <2>3, Seen DEF Closing
  <2>5. Devices = {1} /\ Devices' = {} /\ Opens' = Opens
    BY <1>1, <2>1, <2>2 DEF Devices, Opens
  <2>6. contents' = contents
    BY <1>1, <1>15
  <2>7. Api!CloseDevice
    <3>1. {p \in Usable : p.ctx = Closing} = {} /\ {c \in Live : c.ctx = Closing} = {}
      BY <2>4
    <3>2. Closing # 0 /\ Devices' = Devices \ {Closing}
      BY <2>4, <2>5
    <3> QED BY <1>1, <1>8, <1>13, <2>4, <2>5, <2>6, <3>1, <3>2, ApiCloses
  <2> QED BY <2>7
<1>16. CASE kind = "mapping"
  <2>1. call.op = "free" /\ (inClose => Built = {})
    BY <1>0, <1>1, <1>2, <1>16 DEF ComputeInv, UnmakingOrdered
  <2>2. of \in Buffers /\ of \in Mapped
    BY <1>0, <1>2, <1>16, <2>1 DEF ComputeInv, CallFits, Fits, Mapped
  <2>3. IsOpen /\ IsOpen' /\ of.ctx = 1 /\ of \in Live
    BY <1>0, <1>14, <1>16, <2>2, KindsApart, Seen DEF ComputeInv, UnderTheDevice
  <2>4. UNCHANGED <<Opens, Devices, Closing>>
    BY <1>1, <2>3 DEF Opens, Devices, Closing
  <2>5. contents' = [contents EXCEPT ![of] = Absent]
    BY <1>1, <1>16
  <2>6. CASE ~inClose
    <3>1. Calm
      BY <1>8, <2>6, Seen DEF Calm
    <3>2. Api!Free(of)
      BY <1>1, <1>8, <1>13, <2>3, <2>4, <2>5, <3>1, ApiCalls
    <3> QED BY <2>2, <3>2
  <2>7. CASE inClose
    <3>1. Closing = 1 /\ Usable = {}
      BY <1>11, <2>1, <2>3, <2>7, Seen
    <3>2. {p \in Usable : p.ctx = Closing} = {} /\ of \in {c \in Live : c.ctx = Closing} /\ Closing # 0
      BY <2>3, <3>1
    <3>3. Api!CloseBuffer(of)
      BY <1>1, <1>8, <1>13, <2>4, <2>5, <3>2, ApiCloses
    <3> QED BY <2>2, <3>3
  <2> QED BY <2>6, <2>7
<1>17. CASE kind \notin {"device", "mapping"}
  <2>1. (IsOpen' <=> IsOpen) /\ contents' = contents
    BY <1>1, <1>14, <1>17
  <2>2. UNCHANGED <<Opens, Devices, Closing>>
    BY <1>1, <2>1 DEF Opens, Devices, Closing
  <2> QED BY <1>1, <1>8, <1>13, <2>1, <2>2 DEF ApiVars
<1> QED BY <1>15, <1>16, <1>17

(* A write is the API's write.                                             *)
LEMMA WriteSimulated ==
  ASSUME ComputeInv, NEW b \in Buffers, NEW d \in Data, Write(b, d) PROVE Api!Write({b}, d)
<1>1. /\ call = Idle /\ ~inClose /\ b \in Mapped
      /\ contents' = [contents EXCEPT ![b] = d]
      /\ UNCHANGED <<handles, call, inClose, closed, pending, inflight>>
  BY DEF Write
<1>2. call.op = "idle"
  BY <1>1, Between
<1>3. Calm /\ {b} \subseteq Live
  BY <1>1, <1>2, Seen DEF Calm
<1>4. (IsOpen' <=> IsOpen) /\ Built' = Built
  BY <1>1 DEF IsOpen, Built, Exists
<1>5. UNCHANGED <<Opens, Devices, Usable, Waiting, Closing>>
  BY <1>1, <1>2, <1>4 DEF Opens, Devices, Usable, Drained, Waiting, At, Closing
<1>6. contents' = [c \in Buffers |-> IF c \in {b} THEN d ELSE contents[c]]
  BY <1>1 DEF ComputeInv, ComputeTypeOK
<1> QED BY <1>1, <1>3, <1>5, <1>6, ApiWork

(* A dispatch is the call when it submits; what it prepares is not seen.     *)
LEMMA DispatchBegins ==
  ASSUME ComputeInv, NEW p \in Pipelines, NEW d \in Data, Dispatch(p, d)
  PROVE  ApiVars' = ApiVars
<1>1. call = Idle /\ UNCHANGED <<handles, inClose, closed, pending, contents, inflight>>
  BY DEF Dispatch
<1>2. call'.op = "dispatch" /\ call'.todo = DispatchProgram
  BY DEF Dispatch, Dispatching
<1>3. Head(DispatchProgram) = "update"
  BY DEF DispatchProgram
<1>4. call.op = "idle"
  BY <1>1, Between
<1>5. Waiting = Nil /\ Waiting' = Nil
  BY <1>2, <1>3, <1>4 DEF Waiting, At
<1> QED BY <1>1, <1>2, <1>4, <1>5, Unseen

(* Preparing a submission is nothing to the API.                           *)
LEMMA PreparingSimulated ==
  ASSUME ComputeInv, UpdateSet \/ Record \/ ResetFence
  PROVE  ApiVars' = ApiVars
<1>1. PICK m \in 1 .. 5 :
        /\ call.op = "dispatch" /\ Head(call.todo) = DispatchProgram[m] /\ Advance
        /\ UNCHANGED <<handles, inClose, closed, pending, contents, inflight>>
  <2>1. CASE UpdateSet
    <3>1. 1 \in 1 .. 5 /\ DispatchProgram[1] = "update"
      BY DispatchFacts
    <3> QED BY <2>1, <3>1 DEF UpdateSet, At
  <2>2. CASE Recorded("reset", "initial")
    <3>1. 2 \in 1 .. 5 /\ DispatchProgram[2] = "reset"
      BY DispatchFacts
    <3> QED BY <2>2, <3>1 DEF Recorded, At
  <2>3. CASE Recorded("begin", "recording")
    <3>1. 3 \in 1 .. 5 /\ DispatchProgram[3] = "begin"
      BY DispatchFacts
    <3> QED BY <2>3, <3>1 DEF Recorded, At
  <2>4. CASE Recorded("end", "executable")
    <3>1. 4 \in 1 .. 5 /\ DispatchProgram[4] = "end"
      BY DispatchFacts
    <3> QED BY <2>4, <3>1 DEF Recorded, At
  <2>5. CASE ResetFence
    <3>1. 5 \in 1 .. 5 /\ DispatchProgram[5] = "resetFence"
      BY DispatchFacts
    <3> QED BY <2>5, <3>1 DEF ResetFence, At
  <2> QED BY <2>1, <2>2, <2>3, <2>4, <2>5 DEF Record
<1>2. m \in 1 .. 6 /\ m # 6 /\ m # 7 /\ m + 1 \in 1 .. 7 /\ m + 1 # 7
  OBVIOUS
<1>3. Head(Tail(call.todo)) = DispatchProgram[m + 1]
      /\ call' = [call EXCEPT !.todo = Tail(call.todo)]
  BY <1>1, <1>2, DispatchNext
<1>4. DispatchProgram[m] # "wait" /\ DispatchProgram[m + 1] # "wait"
  <2>1. \A n \in 1 .. 7 : n # 7 => DispatchProgram[n] # DispatchProgram[7]
    BY DispatchFacts DEF Distinct
  <2>2. DispatchProgram[7] = "wait"
    BY DispatchFacts
  <2> QED BY <1>2, <2>1, <2>2
<1>5. call'.op = "dispatch" /\ Head(call'.todo) = DispatchProgram[m + 1]
  BY <1>1, <1>3 DEF ComputeInv, ComputeTypeOK
<1>6. Waiting = Nil /\ Waiting' = Nil
  BY <1>1, <1>4, <1>5 DEF Waiting, At
<1> QED BY <1>1, <1>5, <1>6, Unseen

(* A dispatch that fails before its submission is nothing to the API.      *)
LEMMA DispatchFailsSimulated ==
  ASSUME ComputeInv, DispatchFails PROVE ApiVars' = ApiVars
<1>1. /\ call.op = "dispatch" /\ Head(call.todo) # "wait" /\ call' = Idle
      /\ UNCHANGED <<handles, inClose, closed, pending, contents, inflight>>
  BY DEF DispatchFails
<1>2. call'.op = "idle"
  BY <1>1, CallFields DEF Idle
<1>3. Waiting = Nil /\ Waiting' = Nil
  BY <1>1, <1>2 DEF Waiting, At
<1> QED BY <1>1, <1>2, <1>3, Unseen

(* A submission is the API's dispatch.                                     *)
LEMMA SubmitSimulated ==
  ASSUME ComputeInv, Submit
  PROVE  \E p \in Pipelines : \E d \in Data : Api!CtxDispatch(p, d)
<1>1. /\ call.op = "dispatch" /\ Head(call.todo) = "submit" /\ Advance
      /\ inflight' = inflight \cup {call.work}
      /\ UNCHANGED <<handles, inClose, closed, pending, contents>>
  BY DEF Submit, At
<1>2. PICK work \in Submissions : work = call.work
  BY <1>1 DEF ComputeInv, DispatchKnown
<1>3. PICK p \in Pipelines, bs \in [Bindings -> Buffers], d \in Data :
        work = [pipe |-> p, bufs |-> bs, arg |-> d]
  BY DEF Submissions
<1>4. /\ p \in Built /\ p \notin pending /\ ~inClose
      /\ \A i \in Bindings : bs[i] \in Mapped /\ bs[i].binding = i
  BY <1>1, <1>2, <1>3 DEF ComputeInv, DispatchKnown
<1>5. /\ call' = [call EXCEPT !.todo = Tail(call.todo)]
      /\ Head(Tail(call.todo)) = "wait"
  <2>1. /\ DispatchProgram[6] = "submit" /\ DispatchProgram[6 + 1] = "wait" /\ 6 \in 1 .. 6
    BY DispatchFacts
  <2> QED BY <1>1, <2>1, DispatchNext
<1>6. call'.op = "dispatch" /\ Head(call'.todo) = "wait" /\ call'.work = work
  BY <1>1, <1>2, <1>5 DEF ComputeInv, ComputeTypeOK
<1>7. Waiting = Nil /\ Waiting' = work
  BY <1>1, <1>6 DEF Waiting, At
<1>8. (IsOpen' <=> IsOpen) /\ Built' = Built
  BY <1>1 DEF IsOpen, Built, Exists
<1>9. UNCHANGED <<Opens, Devices, Usable, Closing>> /\ Usable = Built
  BY <1>1, <1>6, <1>8 DEF Opens, Devices, Usable, Drained, Closing
<1>10. Calm /\ Live = Mapped
  BY <1>4, <1>7, Seen DEF Calm
<1>11. Api!Submit(p, bs, d)
  <2>1. Calm /\ p \in Usable /\ p \notin pending /\ \A i \in Bindings : bs[i] \in Live
    BY <1>4, <1>9, <1>10
  <2>2. Waiting' = [pipe |-> p, bufs |-> bs, arg |-> d] /\ inflight' = inflight \cup {Waiting'}
    BY <1>1, <1>2, <1>3, <1>7
  <2> QED BY <1>1, <1>9, <2>1, <2>2, ApiWork
<1>12. bs \in [Bindings -> {b \in Live : b.ctx = p.ctx}]
  BY <1>4, <1>10, KindsApart
<1>13. Api!CtxDispatch(p, d)
  BY <1>4, <1>11, <1>12, ApiState DEF Api!CtxDispatch, Api!BufsOf, Live
<1> QED BY <1>13

(* A successful wait is the API's.                                         *)
LEMMA WaitSucceedsSimulated ==
  ASSUME ComputeInv, WaitSucceeds PROVE Api!FenceSignalled
<1>1. /\ call.op = "dispatch" /\ Head(call.todo) = "wait" /\ call' = Idle
      /\ UNCHANGED <<handles, inClose, closed, pending, contents, inflight>>
  BY DEF WaitSucceeds, At
<1>2. inflight = {}
  BY WaitSucceedsStep
<1>3. call.work \in Submissions
  BY <1>1 DEF ComputeInv, DispatchKnown
<1>4. call'.op = "idle"
  BY <1>1, CallFields DEF Idle
<1>5. Waiting # Nil /\ Waiting' = Nil
  BY <1>1, <1>3, <1>4, ComputeAssumption DEF Waiting, At
<1>6. (IsOpen' <=> IsOpen) /\ Built' = Built
  BY <1>1 DEF IsOpen, Built, Exists
<1>7. UNCHANGED <<Opens, Devices, Usable, Closing>>
  BY <1>1, <1>4, <1>6 DEF Opens, Devices, Usable, Drained, Closing
<1> QED BY <1>1, <1>2, <1>5, <1>7, ApiWork

(* A failed wait is the API's.                                             *)
LEMMA WaitFailsSimulated ==
  ASSUME ComputeInv, NEW kind \in {"timeout", "lost"}, WaitFails(kind)
  PROVE  Api!WaitFails(kind)
<1>1. /\ call.op = "dispatch" /\ Head(call.todo) = "wait" /\ call' = Idle
      /\ fence[call.of] # "signalled" /\ kind \in Faults
      /\ pending' = pending \cup {call.of}
      /\ inflight' = IF kind = "lost" THEN {} ELSE inflight
      /\ UNCHANGED <<handles, inClose, closed, contents>>
  BY DEF WaitFails, At
<1>2. inflight # {} /\ call.work \in Submissions /\ call.work.pipe = call.of /\ call.of \in Pipelines
  BY <1>1 DEF ComputeInv, DispatchKnown, Built
<1>3. call'.op = "idle"
  BY <1>1, CallFields DEF Idle
<1>4. Waiting = call.work /\ Waiting # Nil /\ Waiting' = Nil
  BY <1>1, <1>2, <1>3, ComputeAssumption DEF Waiting, At
<1>5. \A s \in inflight : s.pipe.ctx = Waiting.pipe.ctx
  BY <1>2, <1>4, KindsApart DEF ComputeInv, ComputeTypeOK, Submissions
<1>6. (IsOpen' <=> IsOpen) /\ Built' = Built
  BY <1>1 DEF IsOpen, Built, Exists
<1>7. UNCHANGED <<Opens, Devices, Usable, Closing>>
  BY <1>1, <1>3, <1>6 DEF Opens, Devices, Usable, Drained, Closing
<1>8. \E s \in inflight : s.pipe.ctx = Waiting.pipe.ctx
  BY <1>2, <1>5
<1>9. inflight' = IF kind = "lost"
                    THEN {s \in inflight : s.pipe.ctx # Waiting.pipe.ctx} ELSE inflight
  BY <1>1, <1>5
<1>10. pending' = IF kind = "interrupt" THEN pending ELSE pending \cup {Waiting.pipe}
  BY <1>1, <1>2, <1>4
<1> QED BY <1>1, <1>4, <1>7, <1>8, <1>9, <1>10, ApiWork

(* The GPU's execution of a submission is the API's.                       *)
LEMMA ExecuteSimulated ==
  ASSUME ComputeInv, NEW s \in inflight, Execute(s) PROVE Api!Execute(s)
<1>1. /\ inflight' = inflight \ {s}
      /\ contents' =
           IF s.bufs["output"] \in Mapped
             THEN [contents EXCEPT ![s.bufs["output"]] =
                     IF \A i \in Inputs : contents[s.bufs[i]] = s.arg THEN s.arg ELSE Garbage]
             ELSE contents
      /\ UNCHANGED <<handles, call, inClose, closed, pending>>
  BY DEF Execute
<1>2. Live = Mapped
  BY Seen
<1>3. (IsOpen' <=> IsOpen) /\ Built' = Built
  BY <1>1 DEF IsOpen, Built, Exists
<1>4. UNCHANGED <<Opens, Devices, Usable, Waiting, Closing>>
  BY <1>1, <1>3 DEF Opens, Devices, Usable, Drained, Waiting, At, Closing
<1> QED BY <1>1, <1>2, <1>4, ApiWork

(* The entry points implement the calls.                                     *)
LEMMA SimulationStarts ==
  ASSUME Init PROVE Api!CtxInit
<1>1. /\ handles = {} /\ call = Idle /\ inClose = FALSE /\ closed = FALSE
      /\ pending = {} /\ inflight = {} /\ contents = [b \in Buffers |-> Absent]
  BY DEF Init
<1>2. call.op = "idle"
  BY <1>1, CallFields DEF Idle
<1>3. Built = {} /\ ~IsOpen
  BY <1>1 DEF Built, IsOpen, Exists
<1>4. Opens = 0 /\ Devices = {} /\ Usable = {} /\ Waiting = Nil /\ Closing = 0
  BY <1>1, <1>2, <1>3 DEF Opens, Devices, Usable, Waiting, At, Closing
<1> QED BY <1>1, <1>4, ApiState
        DEF Api!CtxInit, Opens, Devices, Usable, Waiting, Closing

(* Every step is a step of the API, or nothing to it.                      *)
LEMMA SimulationStep ==
  ASSUME ComputeInv, ComputeInv', [Next]_vars PROVE [Api!CtxNext]_(Api!ctxVars)
<1>0. /\ Api!ctxVars = ApiVars /\ Api!Pipelines = Pipelines /\ Api!Buffers = Buffers
      /\ 1 \in Api!Contexts /\ (Api!Calling <=> Calm)
  BY ApiState DEF Calm
<1>1. SUFFICES ASSUME ApiVars' # ApiVars PROVE Api!CtxNext
  BY DEF Api!ctxVars, ApiVars, Opens, Devices, Usable, Waiting, Closing
<1>2. ASSUME NEW p \in Pipelines, Api!DestroyHandles(p), Waiting = Nil,
             inClose => IsOpen
      PROVE  Api!CtxNext
  <2>1. CASE inClose
    <3>1. Closing # 0 /\ p.ctx = Closing
      BY <1>2, <2>1, Seen, KindsApart
    <3>2. Api!ClosePipeline(p)
      BY <1>2, <3>1, ApiCloses
    <3> QED BY <1>0, <3>2 DEF Api!CtxNext, Api!CloseStep
  <2>2. CASE ~inClose
    <3>1. Calm
      BY <1>2, <2>2, Seen DEF Calm
    <3>2. Api!Destroy(p)
      BY <1>0, <1>2, <3>1 DEF Api!Destroy
    <3> QED BY <1>0, <3>2 DEF Api!CtxNext
  <2> QED BY <2>1, <2>2
<1>3. \A p \in Pipelines : p \in Built => IsOpen
  BY DEF ComputeInv, UnderTheDevice, Built, None, Parts, PipelineParts
<1>4. CASE Open \/ Detect \/ CloseDevice
  BY <1>1, <1>4, BeginSimulated
<1>5. CASE Close
  BY <1>0, <1>5, CloseSimulated DEF Api!CtxNext
<1>6. ASSUME NEW b \in Buffers, Allocate(b) \/ Free(b) \/ CloseBuffer(b) PROVE Api!CtxNext
  BY <1>1, <1>6, BeginSimulated
<1>7. ASSUME NEW b \in Buffers, NEW d \in Data, Write(b, d) PROVE Api!CtxNext
  <2>1. Api!Write({b}, d)
    BY <1>7, WriteSimulated
  <2> QED BY <1>0, <2>1 DEF Api!CtxNext
<1>8. ASSUME NEW p \in Pipelines, Compile(p) PROVE Api!CtxNext
  BY <1>1, <1>8, BeginSimulated
<1>9. ASSUME NEW p \in Pipelines, Destroy(p) \/ ClosePipeline(p) PROVE Api!CtxNext
  <2>1. DestroyPipeline(p) /\ UNCHANGED <<inClose, closed>> /\ p \in Built
    BY <1>9 DEF Destroy, ClosePipeline, DestroyPipeline
  <2> QED BY <1>1, <1>2, <1>3, <2>1, DestroySimulated
<1>10. ASSUME NEW p \in Pipelines, NEW d \in Data, Dispatch(p, d) PROVE Api!CtxNext
  BY <1>1, <1>10, DispatchBegins
<1>11. CASE Make
  BY <1>0, <1>1, <1>11, MakeSimulated DEF Api!CtxNext
<1>12. CASE MakeFails
  BY <1>1, <1>12, MakeFailsSimulated
<1>13. CASE Drain
  <2>1. PICK p \in Pipelines : Api!DestroyHandles(p) /\ Waiting = Nil
    BY <1>13, DrainSimulated
  <2>2. p \in Built
    BY <2>1, ApiCalls DEF Usable
  <2> QED BY <1>2, <1>3, <2>1, <2>2
<1>14. CASE Unmake
  BY <1>0, <1>1, <1>14, UnmakeSimulated DEF Api!CtxNext, Api!CloseStep
<1>15. CASE UpdateSet \/ Record \/ ResetFence
  BY <1>1, <1>15, PreparingSimulated
<1>16. CASE Submit
  BY <1>0, <1>16, SubmitSimulated DEF Api!CtxNext
<1>17. CASE DispatchFails
  BY <1>1, <1>17, DispatchFailsSimulated
<1>18. CASE WaitSucceeds
  BY <1>18, WaitSucceedsSimulated DEF Api!CtxNext
<1>19. ASSUME NEW kind \in {"timeout", "lost"}, WaitFails(kind) PROVE Api!CtxNext
  <2>1. Api!WaitFails(kind)
    BY <1>19, WaitFailsSimulated
  <2> QED BY <2>1 DEF Api!CtxNext
<1>20. ASSUME NEW s \in inflight, Execute(s) PROVE Api!CtxNext
  <2>1. Api!Execute(s)
    BY <1>20, ExecuteSimulated
  <2> QED BY <2>1 DEF Api!CtxNext, Api!Device
<1>21. CASE UNCHANGED vars
  BY <1>1, <1>21 DEF vars, ApiVars, Opens, Devices, Usable, Waiting, Closing, Drained, At,
                     IsOpen, Built, Exists
<1> QED BY <1>4, <1>5, <1>6, <1>7, <1>8, <1>9, <1>10, <1>11, <1>12, <1>13, <1>14, <1>15,
           <1>16, <1>17, <1>18, <1>19, <1>20, <1>21 DEF Next

(* However its entry points fail, the runtime behaves as one whose calls     *)
(* each take effect or change nothing.                                       *)
THEOREM Refines == Spec => ImplementsTheApi
<1>1. Init => Api!CtxInit
  BY SimulationStarts
<1>2. ComputeInv /\ ComputeInv' /\ [Next]_vars => [Api!CtxNext]_(Api!ctxVars)
  BY SimulationStep
<1> QED BY <1>1, <1>2, ComputeInvariant, PTL DEF Spec, ImplementsTheApi, Api!CtxSpec
===============================================================================
