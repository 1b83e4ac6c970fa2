------------------------ MODULE AttentionShader_proofs ------------------------
(***************************************************************************)
(* Theorems about one workgroup of the attention shader, for every tile    *)
(* shape, head dimension, sequence length and row of scores.               *)
(***************************************************************************)
EXTENDS AttentionShader, TileLayout_proofs, FiniteSetTheorems, WellFoundedInduction

Sections == {"load", "tile", "score", "max", "weight", "mix", "write"}

(* The section behind the barrier a section ends at, and the first key of  *)
(* the tile that is worked on there.                                       *)
HeadAt(start) ==
  IF start < SeqK /\ ~(causal /\ start > qStart + K.BLOCK_Q - 1) THEN "tile" ELSE "write"

Advanced(section, start) == IF section = "mix" THEN start + K.BLOCK_K ELSE start

SectionAfter ==
  [tile |-> "score", score |-> "max", max |-> "weight", weight |-> "mix", write |-> "done"]

Following(section, start) ==
  IF section \in {"load", "mix"} THEN HeadAt(Advanced(section, start)) ELSE SectionAfter[section]

(* An invocation still runs the section the workgroup is in, or waits at   *)
(* the barrier behind it, or has returned.                                 *)
Pacing(i, section, start) ==
  \/ pc[i] = section /\ ~arrived[i] /\ kStart[i] = start
  \/ /\ pc[i] = Following(section, start) /\ kStart[i] = Advanced(section, start)
     /\ arrived[i] <=> section # "write"

Abreast(section, start) ==
  /\ section = "load" => start = 0
  /\ \A i \in Invocations : Pacing(i, section, start)

(* The arrays a section writes, which are never ones it reads, and the one *)
(* invocation that may write an element.                                   *)
Writes(section, array) ==
  \/ section = "load" /\ array \in {"q", "row"}
  \/ section = "tile" /\ array = "kv"
  \/ section \in {"score", "weight"} /\ array = "s"
  \/ section = "mix" /\ array = "row"

Owns(i, array, idx) ==
  \/ array \in {"q", "kv"} /\ idx % groupSize = tid(i)
  \/ array = "row" /\ i = <<idx, 0>>
  \/ array = "s" /\ idx = At(i[1], i[2])

Arrays == {"q", "kv", "s", "row"}

Permitted(section, i, array, idx, write) ==
  /\ write <=> Writes(section, array)
  /\ write => Owns(i, array, idx)

Recorded(section, e) ==
  \E i \in Invocations, array \in Arrays, write \in BOOLEAN : \E idx :
    e = <<i, array, idx, write>> /\ Permitted(section, i, array, idx, write)

Orderly(section) == \A e \in touched : Recorded(section, e)

PaceTyped ==
  /\ pc \in [Invocations -> Sections \cup {"done"}]
  /\ arrived \in [Invocations -> BOOLEAN]
  /\ kStart \in [Invocations -> Nat]

InStep ==
  /\ PaceTyped
  /\ \E section \in Sections, start \in Nat : Abreast(section, start) /\ Orderly(section)

-----------------------------------------------------------------------------
(* The tile is as wide and as high as the plan says, and not empty.        *)
LEMMA TileShape ==
  /\ K.BLOCK_Q = BlockQ /\ K.BLOCK_K = BlockK
  /\ BlockQ \in Nat \ {0} /\ BlockK \in Nat \ {0} /\ HeadDim \in Nat \ {0}
  /\ SeqQ \in Nat \ {0} /\ SeqK \in Nat \ {0}
  /\ Rows = 0..(BlockQ - 1) /\ Lanes = 0..(BlockK - 1)
  BY ShaderAssumption DEF K, Specialized, Rows, Lanes

(* Counting the lanes row by row tells the invocations apart.              *)
LEMMA TidsAreDistinct ==
  ASSUME NEW i \in Invocations, NEW j \in Invocations, tid(i) = tid(j)
  PROVE  i = j
<1>1. /\ i = <<i[1], i[2]>> /\ j = <<j[1], j[2]>>
      /\ i[1] \in Nat /\ j[1] \in Nat
      /\ i[2] \in 0..(BlockK - 1) /\ j[2] \in 0..(BlockK - 1)
  BY TileShape DEF Invocations
<1>2. i[1] * BlockK + i[2] = j[1] * BlockK + j[2]
  BY TileShape DEF tid
<1>3. i[1] = j[1] /\ i[2] = j[2]
  BY <1>1, <1>2, TileShape, RowMajorUnique
<1> QED BY <1>1, <1>3

(* Every element has one owner.                                            *)
LEMMA OneOwner ==
  ASSUME NEW i \in Invocations, NEW j \in Invocations,
         NEW array \in Arrays, NEW idx,
         Owns(i, array, idx), Owns(j, array, idx)
  PROVE  i = j
<1>1. CASE array \in {"q", "kv"}
  BY <1>1, TidsAreDistinct DEF Owns
<1>2. CASE array = "row"
  BY <1>2 DEF Owns
<1>3. CASE array = "s"
  <2>1. At(i[1], i[2]) = tid(i) /\ At(j[1], j[2]) = tid(j)
    BY DEF At, tid
  <2> QED BY <1>3, <2>1, TidsAreDistinct DEF Owns
<1> QED BY <1>1, <1>2, <1>3 DEF Arrays

(* The elements an invocation touches of an array are recorded as such.    *)
LEMMA TouchesRecorded ==
  ASSUME NEW section, NEW i \in Invocations, NEW array \in Arrays, NEW indices,
         NEW write \in BOOLEAN, \A idx \in indices : Permitted(section, i, array, idx, write)
  PROVE  \A e \in Touches(i, array, indices, write) : Recorded(section, e)
<1> SUFFICES ASSUME NEW idx \in indices
             PROVE  Recorded(section, <<i, array, idx, write>>)
  BY DEF Touches
<1> QED BY DEF Recorded

(* The sections of a tile follow one another.                              *)
LEMMA SectionOrder ==
  ASSUME NEW start
  PROVE  /\ Following("tile", start) = "score" /\ Following("score", start) = "max"
         /\ Following("max", start) = "weight" /\ Following("weight", start) = "mix"
         /\ Following("write", start) = "done"
  BY DEF Following, SectionAfter

(* An invocation that runs runs the section the workgroup is in.           *)
LEMMA RunsTheSection ==
  ASSUME NEW section \in Sections, NEW start, Abreast(section, start),
         NEW i \in Invocations, NEW s \in Sections, Runs(i, s)
  PROVE  s = section /\ kStart[i] = start
<1>1. Pacing(i, section, start)
  BY DEF Abreast
<1>2. Following("write", start) = "done"
  BY DEF Following, SectionAfter
<1> QED BY <1>1, <1>2 DEF Pacing, Runs, Sections

(* A step to the next barrier keeps the workgroup abreast, and its record  *)
(* of what was touched in order, when it touches what its section may.     *)
LEMMA SectionStep ==
  ASSUME PaceTyped, NEW section \in Sections, NEW start \in Nat,
         Abreast(section, start), Orderly(section),
         NEW i \in Invocations, pc[i] = section, ~arrived[i],
         UNCHANGED params,
         pc' = [pc EXCEPT ![i] = Following(section, start)],
         arrived' = [arrived EXCEPT ![i] = (section # "write")],
         kStart' = [kStart EXCEPT ![i] = Advanced(section, start)],
         \A e \in touched' \ touched : Recorded(section, e)
  PROVE  PaceTyped' /\ Abreast(section, start)' /\ Orderly(section)'
<1>1. /\ Following(section, start) \in Sections \cup {"done"}
      /\ Following(section, start)' = Following(section, start)
  BY DEF Following, SectionAfter, HeadAt, Sections, params
<1>2. Advanced(section, start) \in Nat
  BY TileShape DEF Advanced
<1>3. PaceTyped'
  BY <1>1, <1>2 DEF PaceTyped
<1>4. Abreast(section, start)'
  <2> SUFFICES ASSUME NEW j \in Invocations PROVE Pacing(j, section, start)'
    BY DEF Abreast
  <2>1. CASE j = i
    BY <1>1, <2>1 DEF PaceTyped, Pacing, Advanced
  <2>2. CASE j # i
    BY <1>1, <2>2 DEF PaceTyped, Pacing, Advanced, Abreast
  <2> QED BY <2>1, <2>2
<1>5. Orderly(section)'
  BY DEF Orderly, Recorded, Permitted, Writes, Owns, tid, At, groupSize
<1> QED BY <1>3, <1>4, <1>5

(* The sections that use their registers and shared memory as they may.    *)
LEMMA InvocationStep ==
  ASSUME PaceTyped, NEW section \in Sections, NEW start \in Nat,
         Abreast(section, start), Orderly(section),
         NEW i \in Invocations,
         \/ LoadQuery(i) \/ LoadTile(i) \/ ScoreKey(i) \/ ShiftMax(i)
         \/ StoreWeight(i) \/ Accumulate(i) \/ WriteOutput(i)
  PROVE  PaceTyped' /\ Abreast(section, start)' /\ Orderly(section)'
<1>0. Abreast(section, start) /\ Orderly(section)
  OBVIOUS
<1>1. PaceTyped /\ i = <<i[1], i[2]>>
  BY DEF Invocations
<1> USE DEF Runs, Arrive, params, registers, PaceTyped, Sections
<1>2. ASSUME NEW s \in Sections, Runs(i, s)
      PROVE  section = s /\ kStart[i] = start /\ pc[i] = section /\ ~arrived[i]
  BY <1>0, <1>2, RunsTheSection
<1>3. CASE LoadQuery(i)
  <2>1. section = "load" /\ kStart[i] = start /\ start = 0 /\ ~arrived[i] /\ pc[i] = section
    BY <1>0, <1>2, <1>3 DEF LoadQuery, Abreast
  <2>2. Following(section, start) = LoopHead(i, 0)
    BY <2>1 DEF Following, Advanced, HeadAt, LoopHead, StreamsOn
  <2>3. /\ \A e \in Touches(i, "q", Share(i, K.Q_TILE_LEN), TRUE) : Recorded(section, e)
        /\ i[2] = 0 => \A e \in Touches(i, "row", {i[1]}, TRUE) : Recorded(section, e)
    BY <1>1, <2>1, TouchesRecorded DEF Permitted, Writes, Owns, Share, Arrays
  <2>4. \A e \in touched' \ touched : Recorded(section, e)
    BY <1>3, <2>3 DEF LoadQuery
  <2>5. /\ pc' = [pc EXCEPT ![i] = Following(section, start)]
        /\ arrived' = [arrived EXCEPT ![i] = (section # "write")]
        /\ kStart' = [kStart EXCEPT ![i] = Advanced(section, start)]
        /\ UNCHANGED params
    BY <1>1, <1>3, <2>1, <2>2 DEF LoadQuery, Advanced
  <2> QED BY <1>0, <1>1, <2>1, <2>4, <2>5, SectionStep
<1>4. CASE LoadTile(i)
  <2>1. section = "tile" /\ kStart[i] = start /\ ~arrived[i] /\ pc[i] = section
    BY <1>2, <1>4 DEF LoadTile
  <2>3. /\ \A e \in Touches(i, "kv", Share(i, K.KV_TILE_LEN), TRUE) : Recorded(section, e)
    BY <1>1, <2>1, TouchesRecorded DEF Permitted, Writes, Owns, Share, Arrays
  <2>4. \A e \in touched' \ touched : Recorded(section, e)
    BY <1>4, <2>3 DEF LoadTile
  <2>5. /\ pc' = [pc EXCEPT ![i] = Following(section, start)]
        /\ arrived' = [arrived EXCEPT ![i] = (section # "write")]
        /\ kStart' = [kStart EXCEPT ![i] = Advanced(section, start)]
        /\ UNCHANGED params
    BY <1>1, <1>4, <2>1, SectionOrder DEF LoadTile, Advanced
  <2> QED BY <1>0, <1>1, <2>1, <2>4, <2>5, SectionStep
<1>5. CASE ScoreKey(i)
  <2>1. section = "score" /\ kStart[i] = start /\ ~arrived[i] /\ pc[i] = section
    BY <1>2, <1>5 DEF ScoreKey
  <2>3. /\ \A e \in Touches(i, "row", {i[1]}, FALSE) : Recorded(section, e)
        /\ \A e \in Touches(i, "s", {At(i[1], i[2])}, TRUE) : Recorded(section, e)
        /\ \A e \in Touches(i, "q", QElements(i), FALSE) : Recorded(section, e)
        /\ \A e \in Touches(i, "kv", KElements(i), FALSE) : Recorded(section, e)
    BY <1>1, <2>1, TouchesRecorded DEF Permitted, Writes, Owns, Share, Arrays
  <2>4. \A e \in touched' \ touched : Recorded(section, e)
    BY <1>5, <2>3 DEF ScoreKey
  <2>5. /\ pc' = [pc EXCEPT ![i] = Following(section, start)]
        /\ arrived' = [arrived EXCEPT ![i] = (section # "write")]
        /\ kStart' = [kStart EXCEPT ![i] = Advanced(section, start)]
        /\ UNCHANGED params
    BY <1>1, <1>5, <2>1, SectionOrder DEF ScoreKey, Advanced
  <2> QED BY <1>0, <1>1, <2>1, <2>4, <2>5, SectionStep
<1>6. CASE ShiftMax(i)
  <2>1. section = "max" /\ kStart[i] = start /\ ~arrived[i] /\ pc[i] = section
    BY <1>2, <1>6 DEF ShiftMax
  <2>3. /\ \A e \in Touches(i, "s", RowOf(i), FALSE) : Recorded(section, e)
    BY <1>1, <2>1, TouchesRecorded DEF Permitted, Writes, Owns, Share, Arrays
  <2>4. \A e \in touched' \ touched : Recorded(section, e)
    BY <1>6, <2>3 DEF ShiftMax
  <2>5. /\ pc' = [pc EXCEPT ![i] = Following(section, start)]
        /\ arrived' = [arrived EXCEPT ![i] = (section # "write")]
        /\ kStart' = [kStart EXCEPT ![i] = Advanced(section, start)]
        /\ UNCHANGED params
    BY <1>1, <1>6, <2>1, SectionOrder DEF ShiftMax, Advanced
  <2> QED BY <1>0, <1>1, <2>1, <2>4, <2>5, SectionStep
<1>7. CASE StoreWeight(i)
  <2>1. section = "weight" /\ kStart[i] = start /\ ~arrived[i] /\ pc[i] = section
    BY <1>2, <1>7 DEF StoreWeight
  <2>3. /\ \A e \in Touches(i, "s", {At(i[1], i[2])}, TRUE) : Recorded(section, e)
    BY <1>1, <2>1, TouchesRecorded DEF Permitted, Writes, Owns, Share, Arrays
  <2>4. \A e \in touched' \ touched : Recorded(section, e)
    BY <1>7, <2>3 DEF StoreWeight
  <2>5. /\ pc' = [pc EXCEPT ![i] = Following(section, start)]
        /\ arrived' = [arrived EXCEPT ![i] = (section # "write")]
        /\ kStart' = [kStart EXCEPT ![i] = Advanced(section, start)]
        /\ UNCHANGED params
    BY <1>1, <1>7, <2>1, SectionOrder DEF StoreWeight, Advanced
  <2> QED BY <1>0, <1>1, <2>1, <2>4, <2>5, SectionStep
<1>8. CASE Accumulate(i)
  <2>1. section = "mix" /\ kStart[i] = start /\ ~arrived[i] /\ pc[i] = section
    BY <1>2, <1>8 DEF Accumulate
  <2>2. Following(section, start) = LoopHead(i, kStart[i] + K.BLOCK_K)
    BY <2>1 DEF Following, Advanced, HeadAt, LoopHead, StreamsOn
  <2>3. /\ \A e \in Touches(i, "s", RowOf(i), FALSE) : Recorded(section, e)
        /\ \A e \in Touches(i, "kv", VElements(i), FALSE) : Recorded(section, e)
        /\ i[2] = 0 => \A e \in Touches(i, "row", {i[1]}, TRUE) : Recorded(section, e)
    BY <1>1, <2>1, TouchesRecorded DEF Permitted, Writes, Owns, Arrays
  <2>4. \A e \in touched' \ touched : Recorded(section, e)
    BY <1>8, <2>3 DEF Accumulate
  <2>5. /\ pc' = [pc EXCEPT ![i] = Following(section, start)]
        /\ arrived' = [arrived EXCEPT ![i] = (section # "write")]
        /\ kStart' = [kStart EXCEPT ![i] = Advanced(section, start)]
        /\ UNCHANGED params
    BY <1>1, <1>8, <2>1, <2>2 DEF Accumulate, Advanced
  <2> QED BY <1>0, <1>1, <2>1, <2>4, <2>5, SectionStep
<1>9. CASE WriteOutput(i)
  <2>1. section = "write" /\ kStart[i] = start /\ ~arrived[i] /\ pc[i] = section
    BY <1>2, <1>9 DEF WriteOutput
  <2>3. /\ \A e \in Touches(i, "row", {i[1]}, FALSE) : Recorded(section, e)
    BY <1>1, <2>1, TouchesRecorded DEF Permitted, Writes, Owns, Share, Arrays
  <2>4. \A e \in touched' \ touched : Recorded(section, e)
    BY <1>9, <2>3 DEF WriteOutput
  <2>5. /\ pc' = [pc EXCEPT ![i] = Following(section, start)]
        /\ arrived' = [arrived EXCEPT ![i] = (section # "write")]
        /\ kStart' = [kStart EXCEPT ![i] = Advanced(section, start)]
        /\ UNCHANGED params
    BY <1>1, <1>9, <2>1, SectionOrder DEF WriteOutput, Advanced
  <2> QED BY <1>0, <1>1, <2>1, <2>4, <2>5, SectionStep
<1> QED BY <1>3, <1>4, <1>5, <1>6, <1>7, <1>8, <1>9

(* There is somebody to come to a barrier.                                 *)
LEMMA SomeInvocation == <<0, 0>> \in Invocations
  BY TileShape DEF Invocations

(* The workgroup is in the next section once everybody has come.           *)
LEMMA BarrierStep ==
  ASSUME PaceTyped, NEW section \in Sections, NEW start \in Nat, Abreast(section, start), Barrier
  PROVE  /\ \A i \in Invocations :
              pc[i] = Following(section, start) /\ kStart[i] = Advanced(section, start)
         /\ section # "write" /\ Following(section, start) # "load"
         /\ \E after \in Sections, first \in Nat :
              /\ after = Following(section, start) /\ first = Advanced(section, start)
              /\ Abreast(after, first)' /\ Orderly(after)'
         /\ PaceTyped'
<1>1. /\ \A i \in Invocations : arrived[i]
      /\ arrived' = [i \in Invocations |-> FALSE] /\ touched' = {}
      /\ UNCHANGED <<pc, kStart>>
  BY DEF Barrier, registers
<1> DEFINE next == Following(section, start)
           key == Advanced(section, start)
<1>2. \A i \in Invocations : pc[i] = next /\ kStart[i] = key /\ section # "write"
  BY <1>1 DEF Abreast, Pacing
<1>3. section # "write"
  BY <1>2, SomeInvocation
<1>4. next \in Sections /\ next # "load" /\ key \in Nat
  BY <1>3, TileShape DEF Following, SectionAfter, HeadAt, Advanced, Sections
<1>5. PICK after \in Sections, first \in Nat : after = next /\ first = key
  BY <1>4
<1>6. Abreast(after, first)'
  <2> HIDE DEF next, key
  <2> QED BY <1>1, <1>2, <1>4, <1>5 DEF Abreast, Pacing
<1>7. Orderly(after)'
  BY <1>1 DEF Orderly
<1>8. PaceTyped'
  BY <1>1 DEF PaceTyped
<1> QED BY <1>2, <1>3, <1>4, <1>5, <1>6, <1>7, <1>8

(* Every step keeps the workgroup in step.                                 *)
LEMMA InStepStep == InStep /\ [Next]_vars => InStep'
<1> SUFFICES ASSUME InStep, [Next]_vars PROVE InStep'
  OBVIOUS
<1>0. PICK section \in Sections, start \in Nat : Abreast(section, start) /\ Orderly(section)
  BY DEF InStep
<1>1. CASE UNCHANGED vars
  <2>1. UNCHANGED <<pc, arrived, kStart, touched, params>>
    BY <1>1 DEF vars, registers
  <2> QED BY <2>1 DEF InStep, PaceTyped, Abreast, Pacing, Orderly, Recorded, Permitted, Owns, Writes, Following,
             Advanced, HeadAt, tid, At, groupSize, params
<1>2. ASSUME NEW i \in Invocations,
             \/ LoadQuery(i) \/ LoadTile(i) \/ ScoreKey(i) \/ ShiftMax(i)
             \/ StoreWeight(i) \/ Accumulate(i) \/ WriteOutput(i)
      PROVE  InStep'
  BY <1>0, <1>2, InvocationStep DEF InStep
<1>3. CASE Barrier
  BY <1>0, <1>3, BarrierStep DEF InStep
<1> QED BY <1>1, <1>2, <1>3 DEF Next

(* Everybody starts loading the query tile.                                *)
LEMMA InStepInit == Init => InStep
<1> SUFFICES ASSUME Init PROVE InStep
  OBVIOUS
<1>1. PaceTyped
  BY DEF Init, PaceTyped, Sections
<1>2. Abreast("load", 0) /\ Orderly("load")
  BY DEF Init, Abreast, Pacing, Orderly
<1>3. "load" \in Sections /\ 0 \in Nat
  BY DEF Sections
<1> QED BY <1>1, <1>2, <1>3 DEF InStep

(* Every invocation of a workgroup waits at the same barrier of the same   *)
(* pass, and none has returned while another waits: the loop and its       *)
(* causal break depend on the workgroup alone (attention.comp:113,         *)
(* "Uniform across the workgroup").                                        *)
THEOREM BarriersAreUniform == Spec => []UniformBarriers
<1>1. InStep => UniformBarriers
  <2> SUFFICES ASSUME InStep, NEW i \in Invocations, NEW j \in Invocations, arrived[i]
               PROVE  pc[j] # "done" /\ (arrived[j] => pc[i] = pc[j] /\ kStart[i] = kStart[j])
    BY DEF UniformBarriers
  <2>1. PICK section \in Sections, start \in Nat : Abreast(section, start)
    BY DEF InStep
  <2>2. Pacing(i, section, start) /\ Pacing(j, section, start)
    BY <2>1 DEF Abreast
  <2>3. section # "write" /\ section # "done"
    BY <2>2 DEF Pacing, Sections
  <2>4. Following(section, start) # "done"
    BY <2>3 DEF Following, SectionAfter, HeadAt, Sections
  <2> QED BY <2>2, <2>3, <2>4 DEF Pacing
<1> QED BY <1>1, InStepInit, InStepStep, PTL DEF Spec

(* Between two barriers no element of shared memory is written by one      *)
(* invocation and used by another, for every tile shape: what a section    *)
(* writes it does not read, and each element has one writer.               *)
THEOREM NoRaces == Spec => []RaceFree
<1>1. InStep => RaceFree
  <2> SUFFICES ASSUME InStep, NEW a \in touched, NEW b \in touched,
                      a[2] = b[2], a[3] = b[3], a[4] \/ b[4]
               PROVE  a[1] = b[1]
    BY DEF RaceFree
  <2>1. PICK section \in Sections, start \in Nat : Orderly(section)
    BY DEF InStep
  <2>2. a[4] /\ b[4]
    BY <2>1 DEF Orderly, Recorded, Permitted
  <2> QED BY <2>1, <2>2, OneOwner DEF Orderly, Recorded, Permitted
<1> QED BY <1>1, InStepInit, InStepStep, PTL DEF Spec
-----------------------------------------------------------------------------
(* The arithmetic of the tile that is transcribed is the shader's own.     *)
LEMMA SameArithmetic ==
  /\ \A a, b : B!Minus(a, b) = Minus(a, b) /\ B!Times(a, b) = Times(a, b)
  /\ \A terms, factor : B!Rescaled(terms, factor) = Rescaled(terms, factor)
  /\ \A terms, denom : B!Divided(terms, denom) = Divided(terms, denom)
  /\ \A S : B!Largest(S) = Largest(S)
  /\ B!Rows = Rows /\ B!Lanes = Lanes /\ B!Columns = Columns
<1>1. \A a, b : B!Minus(a, b) = Minus(a, b)
  BY DEF B!Minus, Minus, B!Flushed, Flushed
<1>2. \A a, b : B!Times(a, b) = Times(a, b)
  BY DEF B!Times, Times, B!Flushed, Flushed
<1>3. \A terms, factor : B!Rescaled(terms, factor) = Rescaled(terms, factor)
  BY <1>2 DEF B!Rescaled, Rescaled
<1>4. \A terms : B!Present(terms) = Present(terms)
  BY DEF B!Present, Present, B!Restrict, Restrict
<1>5. \A terms, denom : B!Divided(terms, denom) = Divided(terms, denom)
  BY <1>4 DEF B!Divided, Divided, B!IsPositive, IsPositive, B!Zero, Zero
<1>6. \A S : B!Largest(S) = Largest(S)
  BY DEF B!Largest, Largest, B!Max, Max
<1>7. B!Rows = Rows /\ B!Lanes = Lanes /\ B!Columns = Columns
  BY TileShape DEF B!Rows, B!Lanes, B!Columns, Columns
<1> QED BY <1>1, <1>2, <1>3, <1>5, <1>6, <1>7

-----------------------------------------------------------------------------
(* What the workgroup knows about the tile it works on: the score of a     *)
(* lane of a row, and the shift of the row.                                *)
ScoreAt(row, lane, start) ==
  IF qStart + row < SeqQ /\ start + lane < SeqK /\ (causal => start + lane <= qStart + row)
    THEN scores[row][start + lane] ELSE NegInf

ScoresAt(row, start) == {ScoreAt(row, lane, start) : lane \in Lanes}

Shift(largest) == IF largest = NegInf THEN 0 ELSE largest

ShiftAt(row, start) == Shift(Largest({rowMaxState[row]} \cup ScoresAt(row, start)))

QueryLoaded(i) ==
  \A idx \in Share(i, K.Q_TILE_LEN) : qTile[idx] = Element(idx, qStart, SeqQ)

TileLoaded(i, start) ==
  \A idx \in Share(i, K.KV_TILE_LEN) :
    kTile[idx] = Element(idx, start, SeqK) /\ vTile[idx] = Element(idx, start, SeqK)

Scored(i, start) ==
  score[i] = ScoreAt(i[1], i[2], start) /\ oldMax[i] = rowMaxState[i[1]]

Shifted(i, start) ==
  newMax[i] = ShiftAt(i[1], start) /\ weight[i] = Minus(score[i], newMax[i])

Published(i) == sTile[At(i[1], i[2])]

(* What an invocation has contributed in a section, by having run it or an *)
(* earlier one.                                                            *)
Established(i, section, start) ==
  /\ (section # "load" \/ pc[i] # "load") => QueryLoaded(i)
  /\ (section \in {"score", "max", "weight"} \/ (section = "tile" /\ pc[i] # "tile"))
       => TileLoaded(i, start)
  /\ (section \in {"max", "weight"} \/ (section = "score" /\ pc[i] # "score"))
       => /\ Scored(i, start)
          /\ Published(i) = IF section = "weight" /\ pc[i] # "weight" THEN weight[i] ELSE score[i]
  /\ (section = "weight" \/ (section = "max" /\ pc[i] # "max"))
       => Shifted(i, start)

Number == Int \cup {NegInf, NaN}

DataTyped ==
  /\ scores \in [Rows -> ScoreRows] /\ qStart \in Nat
  /\ newMax \in [Invocations -> Int \cup {NaN}] /\ rowMaxState \in [Rows -> Number]
  /\ DOMAIN oldMax = Invocations /\ DOMAIN score = Invocations /\ DOMAIN weight = Invocations
  /\ DOMAIN qTile = 0..(K.Q_TILE_LEN - 1) /\ DOMAIN sTile = 0..(K.S_TILE_LEN - 1)
  /\ DOMAIN kTile = 0..(K.KV_TILE_LEN - 1) /\ DOMAIN vTile = 0..(K.KV_TILE_LEN - 1)
  /\ DOMAIN rowSumState = Rows /\ DOMAIN oBuf = RowsKept /\ DOMAIN acc = Invocations
  /\ \A i \in Invocations : DOMAIN acc[i] = OwnedColumns(K, i[2])

Known(section, start) ==
  /\ DataTyped
  /\ \A i \in Invocations : Established(i, section, start)
  /\ section \notin {"load", "write"} => HeadAt(start) = "tile"
  /\ section = "write" => HeadAt(start) = "write"
  /\ section = "load" => \A row \in Rows : rowSumState[row] = <<>>

DataInv ==
  /\ PaceTyped
  /\ \E section \in Sections, start \in Nat :
       Abreast(section, start) /\ Orderly(section) /\ Known(section, start)

(* The theorems about the blocked algorithm, of the tile this workgroup    *)
(* transcribes.                                                            *)
Tile == INSTANCE Blocked_proofs WITH
  q_start <- qStart,
  k_start <- KeysDone,
  running_max <- [row \in Rows |-> RowMax(row)],
  running_sum <- [row \in Rows |-> RowSum(row)],
  acc <- [row \in Rows |-> [col \in Columns |-> RowColumn(row, col)]],
  out <- IF Writing THEN [row \in RowsKept |-> [col \in Columns |-> RowOutput(row, col)]]
                    ELSE <<>>

(* The largest score of a finite set is in it, unless nothing there is a   *)
(* number.                                                                 *)
LEMMA LargestIs ==
  ASSUME NEW S \in SUBSET Number, IsFiniteSet(S)
  PROVE  \/ S \ {NegInf, NaN} = {} /\ Largest(S) = NegInf
         \/ /\ Largest(S) \in S \ {NegInf, NaN} /\ Largest(S) \in Int
            /\ \A y \in S \ {NegInf, NaN} : Largest(S) >= y
<1>1. Tile!Largest(S) = Largest(S) /\ Tile!Number = Number
  BY DEF Tile!Largest, Largest, Tile!Max, Max, Tile!Number, Number
<1>2. S \in SUBSET Tile!Number /\ Tile!IsFiniteSet(S)
  BY <1>1 DEF IsFiniteSet, Tile!IsFiniteSet
<1>3. \/ S \ {NegInf, NaN} = {} /\ Tile!Largest(S) = NegInf
      \/ /\ Tile!Largest(S) \in S \ {NegInf, NaN} /\ Tile!Largest(S) \in Int
         /\ \A y \in S \ {NegInf, NaN} : Tile!Largest(S) >= y
  BY <1>2, ShaderAssumption, SoftmaxAssumption, Tile!LargestIs DEF Tile!Keys
<1> QED BY <1>1, <1>3

(* A largest score can be found in two rounds.                             *)
LEMMA LargestInRounds ==
  ASSUME NEW S \in SUBSET Number, IsFiniteSet(S), NEW a \in Number
  PROVE  Largest({a, Largest(S)}) = Largest({a} \cup S)
<1> DEFINE whole == {a} \cup S
           round == {a, Largest(S)}
<1>1. IsFiniteSet(whole) /\ IsFiniteSet(round)
  <2>1. IsFiniteSet({a}) /\ IsFiniteSet({Largest(S)})
    BY FS_Singleton
  <2>2. IsFiniteSet({a} \cup {Largest(S)}) /\ IsFiniteSet(whole)
    BY <2>1, FS_Union
  <2>3. round = {a} \cup {Largest(S)}
    OBVIOUS
  <2> QED BY <2>2, <2>3
<1>2. \/ S \ {NegInf, NaN} = {} /\ Largest(S) = NegInf
      \/ /\ Largest(S) \in S \ {NegInf, NaN} /\ Largest(S) \in Int
         /\ \A y \in S \ {NegInf, NaN} : Largest(S) >= y
  BY LargestIs
<1>3. whole \in SUBSET Number /\ round \in SUBSET Number
  BY <1>2 DEF Number
<1>4. \/ whole \ {NegInf, NaN} = {} /\ Largest(whole) = NegInf
      \/ /\ Largest(whole) \in whole \ {NegInf, NaN} /\ Largest(whole) \in Int
         /\ \A y \in whole \ {NegInf, NaN} : Largest(whole) >= y
  <2> HIDE DEF whole
  <2> QED BY <1>1, <1>3, LargestIs
<1>5. \/ round \ {NegInf, NaN} = {} /\ Largest(round) = NegInf
      \/ /\ Largest(round) \in round \ {NegInf, NaN} /\ Largest(round) \in Int
         /\ \A y \in round \ {NegInf, NaN} : Largest(round) >= y
  <2> HIDE DEF round
  <2> QED BY <1>1, <1>3, LargestIs
<1>6. Largest(round) = Largest(whole)
  <2> DEFINE r == Largest(round)
             w == Largest(whole)
             s == Largest(S)
  <2>1. \/ S \ {NegInf, NaN} = {} /\ s = NegInf
        \/ /\ s \in S \ {NegInf, NaN} /\ s \in Int
           /\ \A y \in S \ {NegInf, NaN} : s >= y
    BY <1>2
  <2>2. \/ ({a} \cup S) \ {NegInf, NaN} = {} /\ w = NegInf
        \/ /\ w \in ({a} \cup S) \ {NegInf, NaN} /\ w \in Int
           /\ \A y \in ({a} \cup S) \ {NegInf, NaN} : w >= y
    BY <1>4
  <2>3. \/ {a, s} \ {NegInf, NaN} = {} /\ r = NegInf
        \/ /\ r \in {a, s} \ {NegInf, NaN} /\ r \in Int
           /\ \A y \in {a, s} \ {NegInf, NaN} : r >= y
    BY <1>5
  <2> HIDE DEF r, w, s
  <2> QED BY <2>1, <2>2, <2>3 DEF r, w
<1> QED BY <1>6

(* Where an element sits in a tile tells its row and its column.           *)
LEMMA CellAt ==
  ASSUME NEW r \in Nat, NEW d \in Columns
  PROVE  /\ r * HeadDim + d \in Nat
         /\ (r * HeadDim + d) \div HeadDim = r /\ (r * HeadDim + d) % HeadDim = d
         /\ \A n \in Nat : r < n => r * HeadDim + d \in 0..(n * HeadDim - 1)
<1>1. HeadDim \in Positive /\ HeadDim \in Nat /\ d \in Nat /\ d < HeadDim /\ d \in 0..(HeadDim - 1)
  BY TileShape DEF Columns, Positive
<1>2. r * HeadDim \in Nat
  BY <1>1, ProductGrows
<1> DEFINE base == r * HeadDim
           cell == base + d
<1>3. base \in Nat /\ cell \in Nat /\ cell = base + d
  <2> HIDE DEF base
  <2> QED BY <1>1, <1>2 DEF base
<1>4. PICK q, t \in Nat : /\ cell \div HeadDim = q /\ cell % HeadDim = t /\ t < HeadDim
                          /\ q * HeadDim \in Nat /\ cell = q * HeadDim + t
  <2> HIDE DEF cell
  <2> QED BY <1>1, <1>3, Division
<1>5. q = r /\ t = d
  <2>1. t \in 0..(HeadDim - 1) /\ r * HeadDim + d = q * HeadDim + t
    BY <1>1, <1>4
  <2> QED BY <1>1, <2>1, RowMajorUnique
<1>6. ASSUME NEW n \in Nat, r < n PROVE cell \in 0..(n * HeadDim - 1)
  <2>1. r \in 0..(n - 1)
    BY <1>6
  <2>2. cell < n * HeadDim
    BY <1>1, <2>1, RowMajorBound
  <2>3. n * HeadDim \in Nat
    BY <1>1, ProductGrows
  <2> DEFINE whole == n * HeadDim
  <2>4. whole \in Nat /\ cell < whole
    BY <2>2, <2>3
  <2> HIDE DEF whole, cell
  <2>5. cell \in 0..(whole - 1)
    BY <1>3, <2>4
  <2> QED BY <2>5 DEF whole
<1> QED BY <1>3, <1>4, <1>5, <1>6

(* Every element of a tile is loaded by somebody.                          *)
LEMMA SharedOut ==
  ASSUME NEW idx \in Nat
  PROVE  \E j \in Invocations : idx % groupSize = tid(j)
<1>1. BlockQ \in Positive /\ BlockK \in Positive /\ BlockQ \in Nat /\ BlockK \in Nat
  BY TileShape DEF Positive
<1>2. groupSize = BlockQ * BlockK /\ groupSize \in Positive /\ groupSize \in Nat
  <2>1. groupSize = BlockQ * BlockK
    BY TileShape DEF groupSize
  <2>2. 1 * BlockK <= BlockQ * BlockK /\ BlockQ * BlockK \in Nat
    BY <1>1, ProductGrows DEF Positive
  <2>3. BlockQ * BlockK # 0
    BY <1>1 DEF Positive
  <2> QED BY <2>1, <2>2, <2>3 DEF Positive
<1>3. PICK q, t \in Nat : idx % groupSize = t /\ t < groupSize
  BY <1>2, Division
<1>4. PICK row, lane \in Nat : /\ t \div BlockK = row /\ lane < BlockK
                               /\ row * BlockK \in Nat /\ t = row * BlockK + lane
  BY <1>1, <1>3, Division
<1>5. row < BlockQ
  <2> SUFFICES ASSUME BlockQ <= row PROVE FALSE
    BY <1>1, <1>4
  <2>1. BlockQ * BlockK <= row * BlockK /\ BlockQ * BlockK \in Nat
    BY <1>1, <1>4, ProductGrows
  <2> DEFINE a == BlockQ * BlockK
             b == row * BlockK
  <2>2. a \in Nat /\ b \in Nat /\ a <= b /\ t = b + lane /\ t < a
    BY <1>2, <1>3, <1>4, <2>1
  <2> HIDE DEF a, b
  <2> QED BY <1>4, <2>2
<1>6. <<row, lane>> \in Invocations /\ tid(<<row, lane>>) = t
  <2>1. row \in 0..(BlockQ - 1) /\ lane \in 0..(BlockK - 1)
    BY <1>1, <1>4, <1>5
  <2> QED BY <1>4, <2>1, TileShape DEF Invocations, tid
<1> QED BY <1>3, <1>6

(* Every column of a row is written by one lane, its owner.                *)
LEMMA OwnerOf ==
  ASSUME NEW row \in Rows, NEW col \in Columns
  PROVE  /\ Owner(row, col) \in Invocations
         /\ Owner(row, col)[1] = row /\ col \in OwnedColumns(K, Owner(row, col)[2])
         /\ \A i \in Invocations :
              i[1] = row /\ col \in OwnedColumns(K, i[2]) => i = Owner(row, col)
<1>1. /\ <<BlockQ, BlockK>> \in Shapes /\ HeadDim \in Positive /\ K = Specialized(<<BlockQ, BlockK>>, HeadDim)
      /\ <<BlockQ, BlockK>>[2] = BlockK
  BY TileShape DEF Shapes, Positive, K
<1>2. /\ \A x \in 0..(HeadDim - 1) : \E lane \in 0..(BlockK - 1) : x \in OwnedColumns(K, lane)
      /\ \A lane, lane2 \in 0..(BlockK - 1) : \A x :
           x \in OwnedColumns(K, lane) /\ x \in OwnedColumns(K, lane2) => lane = lane2
  BY <1>1, EachColumnOnce
<1>3. \E lane \in Lanes : col \in OwnedColumns(K, lane)
  BY <1>2, TileShape DEF Columns
<1> DEFINE mine == CHOOSE lane \in Lanes : col \in OwnedColumns(K, lane)
<1>4. mine \in Lanes /\ col \in OwnedColumns(K, mine) /\ Owner(row, col) = <<row, mine>>
  BY <1>3 DEF Owner
<1> HIDE DEF mine
<1>5. ASSUME NEW i \in Invocations, i[1] = row, col \in OwnedColumns(K, i[2])
      PROVE  i = Owner(row, col)
  <2>1. i = <<i[1], i[2]>> /\ i[2] \in Lanes
    BY DEF Invocations
  <2>2. i[2] = mine
    BY <1>2, <1>4, <1>5, <2>1, TileShape
  <2> QED BY <1>4, <1>5, <2>1, <2>2
<1> QED BY <1>4, <1>5 DEF Invocations

(* What has been established by the time each section runs.                *)
LEMMA ByThen ==
  ASSUME NEW j, NEW start
  PROVE  /\ Established(j, "load", start) <=> (pc[j] # "load" => QueryLoaded(j))
         /\ Established(j, "tile", start) <=>
              QueryLoaded(j) /\ (pc[j] # "tile" => TileLoaded(j, start))
         /\ Established(j, "score", start) <=>
              /\ QueryLoaded(j) /\ TileLoaded(j, start)
              /\ pc[j] # "score" => Scored(j, start) /\ Published(j) = score[j]
         /\ Established(j, "max", start) <=>
              /\ QueryLoaded(j) /\ TileLoaded(j, start)
              /\ Scored(j, start) /\ Published(j) = score[j]
              /\ pc[j] # "max" => Shifted(j, start)
         /\ Established(j, "weight", start) <=>
              /\ QueryLoaded(j) /\ TileLoaded(j, start) /\ Scored(j, start) /\ Shifted(j, start)
              /\ Published(j) = IF pc[j] # "weight" THEN weight[j] ELSE score[j]
         /\ \A section \in {"mix", "write"} : Established(j, section, start) <=> QueryLoaded(j)
  BY DEF Established

(* A step that leaves an invocation's elements alone leaves what it has    *)
(* established.                                                            *)
LEMMA Kept ==
  ASSUME NEW j, NEW start, UNCHANGED params
  PROVE  /\ (\A idx \in Share(j, K.Q_TILE_LEN) : qTile'[idx] = qTile[idx])
              => (QueryLoaded(j)' <=> QueryLoaded(j))
         /\ (\A idx \in Share(j, K.KV_TILE_LEN) :
               kTile'[idx] = kTile[idx] /\ vTile'[idx] = vTile[idx])
              => (TileLoaded(j, start)' <=> TileLoaded(j, start))
         /\ score'[j] = score[j] /\ oldMax'[j] = oldMax[j] /\ UNCHANGED rowMaxState
              => (Scored(j, start)' <=> Scored(j, start))
         /\ newMax'[j] = newMax[j] /\ weight'[j] = weight[j] /\ score'[j] = score[j]
            /\ UNCHANGED rowMaxState
              => (Shifted(j, start)' <=> Shifted(j, start))
<1>1. \A row, lane : ScoreAt(row, lane, start)' = ScoreAt(row, lane, start)
  BY DEF ScoreAt, params
<1>2. \A row : ScoresAt(row, start)' = ScoresAt(row, start)
  BY <1>1 DEF ScoresAt
<1>3. UNCHANGED rowMaxState => \A row : ShiftAt(row, start)' = ShiftAt(row, start)
  BY <1>2 DEF ShiftAt
<1>4. \A idx, seq : Element(idx, qStart, seq)' = Element(idx, qStart, seq)
  BY DEF Element, params
<1>5. Share(j, K.Q_TILE_LEN)' = Share(j, K.Q_TILE_LEN)
      /\ Share(j, K.KV_TILE_LEN)' = Share(j, K.KV_TILE_LEN)
  OBVIOUS
<1>6. (\A idx \in Share(j, K.Q_TILE_LEN) : qTile'[idx] = qTile[idx])
              => (QueryLoaded(j)' <=> QueryLoaded(j))
  BY <1>4, <1>5 DEF QueryLoaded
<1>7. (\A idx \in Share(j, K.KV_TILE_LEN) :
               kTile'[idx] = kTile[idx] /\ vTile'[idx] = vTile[idx])
              => (TileLoaded(j, start)' <=> TileLoaded(j, start))
  BY <1>5 DEF TileLoaded
<1>8. score'[j] = score[j] /\ oldMax'[j] = oldMax[j] /\ UNCHANGED rowMaxState
              => (Scored(j, start)' <=> Scored(j, start))
  BY <1>1 DEF Scored
<1>9. newMax'[j] = newMax[j] /\ weight'[j] = weight[j] /\ score'[j] = score[j]
            /\ UNCHANGED rowMaxState
              => (Shifted(j, start)' <=> Shifted(j, start))
  BY <1>3 DEF Shifted, Minus, Flushed
<1> QED BY <1>6, <1>7, <1>8, <1>9

(* No two invocations load or write the same element.                      *)
LEMMA Disjoint ==
  ASSUME NEW i \in Invocations, NEW j \in Invocations, i # j
  PROVE  /\ \A len : \A idx \in Share(i, len) : idx \notin Share(j, len)
         /\ At(i[1], i[2]) # At(j[1], j[2])
<1>1. tid(i) # tid(j)
  BY TidsAreDistinct
<1> QED BY <1>1 DEF Share, At, tid

(* An invocation has a row and a lane, and a place for its score.          *)
LEMMA Cells ==
  ASSUME NEW i \in Invocations
  PROVE  /\ i[1] \in Rows /\ i[2] \in Lanes /\ i = <<i[1], i[2]>>
         /\ At(i[1], i[2]) \in 0..(K.S_TILE_LEN - 1)
<1>1. i[1] \in Rows /\ i[2] \in Lanes /\ i = <<i[1], i[2]>>
  BY DEF Invocations
<1>2. i[1] \in 0..(BlockQ - 1) /\ i[2] \in 0..(BlockK - 1) /\ BlockQ \in Nat /\ BlockK \in Nat
  BY <1>1, TileShape
<1>3. i[1] * BlockK \in Nat /\ i[1] * BlockK + i[2] < BlockQ * BlockK
  BY <1>2, RowMajorBound
<1>4. At(i[1], i[2]) = i[1] * BlockK + i[2] /\ K.S_TILE_LEN = BlockQ * BlockK
  BY TileShape DEF At, K, Specialized
<1>5. BlockQ * BlockK \in Nat
  BY <1>2, ProductGrows
<1> DEFINE cell == i[1] * BlockK
           whole == BlockQ * BlockK
<1>6. cell \in Nat /\ whole \in Nat /\ cell + i[2] < whole
  BY <1>3, <1>5
<1> HIDE DEF cell, whole
<1>7. cell + i[2] \in 0..(whole - 1)
  BY <1>2, <1>6
<1> QED BY <1>1, <1>4, <1>7 DEF cell, whole

(* Loading the query tile.                                                 *)
LEMMA QueryIsLoaded ==
  ASSUME PaceTyped, NEW start \in Nat, Known("load", start), NEW i \in Invocations, LoadQuery(i)
  PROVE  Known("load", start)'
<1>1. /\ qTile' = [idx \in DOMAIN qTile |->
                    IF idx \in Share(i, K.Q_TILE_LEN) THEN Element(idx, qStart, SeqQ) ELSE qTile[idx]]
      /\ UNCHANGED <<kTile, vTile, sTile, oBuf, oldMax, score, newMax, weight, acc>>
      /\ UNCHANGED params
      /\ \/ /\ rowMaxState' = [rowMaxState EXCEPT ![i[1]] = NegInf]
            /\ rowSumState' = [rowSumState EXCEPT ![i[1]] = <<>>]
         \/ UNCHANGED <<rowMaxState, rowSumState>>
      /\ \A j \in Invocations : j # i => pc'[j] = pc[j]
  BY DEF LoadQuery, Arrive, registers, PaceTyped
<1>2. DataTyped'
  BY <1>1 DEF Known, DataTyped, Number, RowsKept, params
<1>3. ASSUME NEW j \in Invocations
      PROVE  Established(j, "load", start)'
  <2>1. pc[j] # "load" => QueryLoaded(j)
    BY ByThen DEF Known
  <2>2. CASE j = i
    <3>1. DOMAIN qTile = 0..(K.Q_TILE_LEN - 1) /\ qStart' = qStart
      BY <1>1 DEF Known, DataTyped, params
    <3>2. QueryLoaded(j)'
      BY <1>1, <2>2, <3>1 DEF QueryLoaded, Share, Element
    <3> QED BY <3>2 DEF Established
  <2>3. CASE j # i
    <3>1. \A idx \in Share(j, K.Q_TILE_LEN) : qTile'[idx] = qTile[idx]
      BY <1>1, <2>3, Disjoint DEF Known, DataTyped, Share
    <3>2. QueryLoaded(j)' <=> QueryLoaded(j)
      BY <1>1, <3>1, Kept
    <3> QED BY <1>1, <2>1, <2>3, <3>2 DEF Established
  <2> QED BY <2>2, <2>3
<1>4. \A row \in Rows : rowSumState'[row] = <<>>
  BY <1>1 DEF Known, DataTyped
<1> QED BY <1>2, <1>3, <1>4 DEF Known

(* Loading a tile of keys and values.                                      *)
LEMMA TileIsLoaded ==
  ASSUME PaceTyped, NEW start \in Nat, Known("tile", start), NEW i \in Invocations, LoadTile(i),
         kStart[i] = start
  PROVE  Known("tile", start)'
<1>1. /\ kTile' = [idx \in DOMAIN kTile |->
                    IF idx \in Share(i, K.KV_TILE_LEN) THEN Element(idx, start, SeqK) ELSE kTile[idx]]
      /\ vTile' = [idx \in DOMAIN vTile |->
                    IF idx \in Share(i, K.KV_TILE_LEN) THEN Element(idx, start, SeqK) ELSE vTile[idx]]
      /\ UNCHANGED <<qTile, sTile, oBuf, oldMax, score, newMax, weight, acc, rowMaxState, rowSumState>>
      /\ UNCHANGED params
      /\ \A j \in Invocations : j # i => pc'[j] = pc[j]
  BY DEF LoadTile, Arrive, registers, PaceTyped
<1>2. DataTyped'
  BY <1>1 DEF Known, DataTyped, Number, RowsKept, params
<1>3. ASSUME NEW j \in Invocations
      PROVE  Established(j, "tile", start)'
  <2>1. QueryLoaded(j) /\ (pc[j] # "tile" => TileLoaded(j, start))
    BY ByThen DEF Known
  <2>2. QueryLoaded(j)'
    BY <1>1, <2>1, Kept
  <2>3. CASE j = i
    <3>1. DOMAIN kTile = 0..(K.KV_TILE_LEN - 1) /\ DOMAIN vTile = 0..(K.KV_TILE_LEN - 1)
      BY <1>1 DEF Known, DataTyped
    <3>2. TileLoaded(j, start)'
      BY <1>1, <2>3, <3>1 DEF TileLoaded, Share, Element
    <3> QED BY <2>2, <3>2 DEF Established
  <2>4. CASE j # i
    <3>1. \A idx \in Share(j, K.KV_TILE_LEN) : kTile'[idx] = kTile[idx] /\ vTile'[idx] = vTile[idx]
      BY <1>1, <2>4, Disjoint DEF Known, DataTyped, Share
    <3>2. TileLoaded(j, start)' <=> TileLoaded(j, start)
      BY <1>1, <3>1, Kept
    <3> QED BY <1>1, <2>1, <2>2, <2>4, <3>2 DEF Established
  <2> QED BY <2>3, <2>4
<1>4. HeadAt(start)' = HeadAt(start)
  BY <1>1 DEF HeadAt, params
<1> QED BY <1>2, <1>3, <1>4 DEF Known

(* What the tiles hold once everybody has loaded a share.                  *)
LEMMA QueryCell ==
  ASSUME \A j \in Invocations : QueryLoaded(j), NEW r \in Rows, NEW d \in Columns
  PROVE  qTile[r * HeadDim + d] = IF qStart + r < SeqQ THEN <<qStart + r, d>> ELSE <<Pad, d>>
<1> DEFINE idx == r * HeadDim + d
<1>1. r \in Nat /\ BlockQ \in Nat /\ r < BlockQ /\ K.Q_TILE_LEN = BlockQ * HeadDim
  BY TileShape DEF K, Specialized
<1>2. /\ idx \in Nat /\ idx \div HeadDim = r /\ idx % HeadDim = d
      /\ idx \in 0..(K.Q_TILE_LEN - 1)
  BY <1>1, CellAt
<1> HIDE DEF idx
<1>3. PICK j \in Invocations : idx % groupSize = tid(j)
  BY <1>2, SharedOut
<1>4. qTile[idx] = Element(idx, qStart, SeqQ)
  BY <1>2, <1>3 DEF QueryLoaded, Share
<1> QED BY <1>2, <1>4 DEF Element, idx

(* So does every element of the tile of keys and of the tile of values.    *)
LEMMA TileCell ==
  ASSUME NEW start, \A j \in Invocations : TileLoaded(j, start), NEW r \in Lanes, NEW d \in Columns
  PROVE  /\ kTile[r * HeadDim + d] = IF start + r < SeqK THEN <<start + r, d>> ELSE <<Pad, d>>
         /\ vTile[r * HeadDim + d] = IF start + r < SeqK THEN <<start + r, d>> ELSE <<Pad, d>>
<1> DEFINE idx == r * HeadDim + d
<1>1. r \in Nat /\ BlockK \in Nat /\ r < BlockK /\ K.KV_TILE_LEN = BlockK * HeadDim
  BY TileShape DEF K, Specialized
<1>2. /\ idx \in Nat /\ idx \div HeadDim = r /\ idx % HeadDim = d
      /\ idx \in 0..(K.KV_TILE_LEN - 1)
  BY <1>1, CellAt
<1> HIDE DEF idx
<1>3. PICK j \in Invocations : idx % groupSize = tid(j)
  BY <1>2, SharedOut
<1>4. kTile[idx] = Element(idx, start, SeqK) /\ vTile[idx] = Element(idx, start, SeqK)
  BY <1>2, <1>3 DEF TileLoaded, Share
<1> QED BY <1>2, <1>4 DEF Element, idx

(* A score that is allowed is the product of the right rows.               *)
LEMMA DotIsTheScore ==
  ASSUME NEW start \in Nat, qStart \in Nat,
         \A j \in Invocations : QueryLoaded(j) /\ TileLoaded(j, start),
         NEW i \in Invocations, kStart[i] = start
  PROVE  (IF Allowed(i) THEN Dot(i) ELSE NegInf) = ScoreAt(i[1], i[2], start)
<1>1. i[1] \in Rows /\ i[2] \in Lanes /\ i[1] \in Nat /\ i[2] \in Nat
  BY Cells, TileShape
<1>2. CASE ~Allowed(i)
  BY <1>2 DEF Allowed, ScoreAt
<1>3. CASE Allowed(i)
  <2>1. qStart + i[1] < SeqQ /\ start + i[2] < SeqK
    BY <1>3 DEF Allowed
  <2>2. start + i[2] \in Keys
    BY <1>1, <2>1, TileShape DEF Keys
  <2>3. ASSUME NEW idx \in QElements(i) PROVE qTile[idx] = <<qStart + i[1], idx % HeadDim>>
    <3>1. PICK d \in Columns : idx = i[1] * HeadDim + d
      BY DEF QElements
    <3> QED BY <1>1, <2>1, <3>1, QueryCell, CellAt
  <2>4. ASSUME NEW idx \in KElements(i) PROVE kTile[idx] = <<start + i[2], idx % HeadDim>>
    <3>1. PICK d \in Columns : idx = i[2] * HeadDim + d
      BY DEF KElements
    <3>2. kTile[i[2] * HeadDim + d] = <<start + i[2], d>>
      BY <1>1, <2>1, TileCell
    <3>3. (i[2] * HeadDim + d) % HeadDim = d
      BY <1>1, CellAt
    <3> QED BY <3>1, <3>2, <3>3
  <2>5. Dot(i) = scores[i[1]][start + i[2]]
    BY <2>2, <2>3, <2>4 DEF Dot
  <2> QED BY <1>3, <2>5 DEF Allowed, ScoreAt
<1> QED BY <1>2, <1>3

(* Scoring the keys of the tile.                                           *)
LEMMA KeyIsScored ==
  ASSUME PaceTyped, NEW start \in Nat, Known("score", start), NEW i \in Invocations, ScoreKey(i),
         kStart[i] = start
  PROVE  Known("score", start)'
<1> DEFINE it == IF Allowed(i) THEN Dot(i) ELSE NegInf
<1>1. /\ score' = [score EXCEPT ![i] = it]
      /\ sTile' = [sTile EXCEPT ![At(i[1], i[2])] = it]
      /\ oldMax' = [oldMax EXCEPT ![i] = rowMaxState[i[1]]]
      /\ UNCHANGED <<qTile, kTile, vTile, oBuf, newMax, weight, acc, rowMaxState, rowSumState>>
      /\ UNCHANGED params
      /\ \A j \in Invocations : j # i => pc'[j] = pc[j]
  BY DEF ScoreKey, Arrive, PaceTyped
<1>2. it = ScoreAt(i[1], i[2], start)
  BY ByThen, DotIsTheScore DEF Known, DataTyped
<1> HIDE DEF it
<1>3. DataTyped'
  BY <1>1 DEF Known, DataTyped, Number, RowsKept, params
<1>4. ASSUME NEW j \in Invocations
      PROVE  Established(j, "score", start)'
  <2>1. /\ QueryLoaded(j) /\ TileLoaded(j, start)
        /\ pc[j] # "score" => Scored(j, start) /\ Published(j) = score[j]
    BY ByThen DEF Known
  <2>2. QueryLoaded(j)' /\ TileLoaded(j, start)'
    BY <1>1, <2>1, Kept
  <2>3. CASE j = i
    <3>1. At(i[1], i[2]) \in DOMAIN sTile /\ i \in DOMAIN score /\ i \in DOMAIN oldMax
      BY Cells DEF Known, DataTyped
    <3>2. score'[i] = it /\ sTile'[At(i[1], i[2])] = it /\ oldMax'[i] = rowMaxState[i[1]]
      BY <1>1, <3>1
    <3>3. ScoreAt(i[1], i[2], start)' = ScoreAt(i[1], i[2], start)
      BY <1>1 DEF ScoreAt, params
    <3>4. Scored(i, start)' /\ Published(i)' = score'[i]
      BY <1>1, <1>2, <3>2, <3>3 DEF Scored, Published, At
    <3> QED BY <2>2, <2>3, <3>4 DEF Established
  <2>4. CASE j # i
    <3>1. At(j[1], j[2]) # At(i[1], i[2]) /\ At(j[1], j[2]) \in DOMAIN sTile
      BY <2>4, Disjoint, Cells DEF Known, DataTyped
    <3>2. score'[j] = score[j] /\ oldMax'[j] = oldMax[j] /\ Published(j)' = Published(j)
      BY <1>1, <2>4, <3>1 DEF Known, DataTyped, Published, At
    <3>3. Scored(j, start)' <=> Scored(j, start)
      BY <1>1, <3>2, Kept
    <3> QED BY <1>1, <2>1, <2>2, <2>4, <3>2, <3>3 DEF Established
  <2> QED BY <2>3, <2>4
<1>5. HeadAt(start)' = HeadAt(start)
  BY <1>1 DEF HeadAt, params
<1> QED BY <1>3, <1>4, <1>5 DEF Known

(* The scores of a row are finitely many numbers.                          *)
LEMMA RowOfScores ==
  ASSUME DataTyped, NEW row \in Rows, NEW start \in Nat
  PROVE  ScoresAt(row, start) \in SUBSET Number /\ IsFiniteSet(ScoresAt(row, start))
<1>1. ASSUME NEW lane \in Lanes PROVE ScoreAt(row, lane, start) \in Number
  <2>1. CASE start + lane < SeqK
    <3>1. start + lane \in 0..(SeqK - 1)
      BY <2>1, TileShape
    <3>2. scores[row] \in [0..(SeqK - 1) -> Int \cup {NegInf}]
      BY ShaderAssumption DEF DataTyped
    <3>3. scores[row][start + lane] \in Int \cup {NegInf}
      BY <3>1, <3>2
    <3> QED BY <3>3 DEF ScoreAt, Number
  <2>2. CASE ~(start + lane < SeqK)
    BY <2>2 DEF ScoreAt, Number
  <2> QED BY <2>1, <2>2
<1>2. IsFiniteSet(Lanes)
  <2>1. BlockK - 1 \in Int /\ 0 \in Int /\ Lanes = 0..(BlockK - 1)
    BY TileShape
  <2> QED BY <2>1, FS_Interval
<1> DEFINE f == [lane \in Lanes |-> ScoreAt(row, lane, start)]
<1>3. f \in Surjection(Lanes, ScoresAt(row, start))
  BY DEF Surjection, ScoresAt
<1>4. IsFiniteSet(ScoresAt(row, start))
  <2> HIDE DEF f
  <2> QED BY <1>2, <1>3, FS_Surjection
<1> QED BY <1>1, <1>4 DEF ScoresAt

(* The maximum of the row so far and of the tile, found by every lane of   *)
(* the row for itself.                                                     *)
LEMMA RowMaximum ==
  ASSUME DataTyped, NEW start \in Nat,
         \A j \in Invocations : Scored(j, start) /\ Published(j) = score[j],
         NEW i \in Invocations
  PROVE  /\ Largest({oldMax[i], TileMax(i)}) = Largest({rowMaxState[i[1]]} \cup ScoresAt(i[1], start))
         /\ ShiftAt(i[1], start) \in Int
<1>1. i[1] \in Rows /\ rowMaxState[i[1]] \in Number /\ oldMax[i] = rowMaxState[i[1]]
  BY Cells DEF DataTyped, Scored
<1>2. \A lane \in Lanes : sTile[At(i[1], lane)] = ScoreAt(i[1], lane, start)
  <2> SUFFICES ASSUME NEW lane \in Lanes PROVE sTile[At(i[1], lane)] = ScoreAt(i[1], lane, start)
    OBVIOUS
  <2>1. <<i[1], lane>> \in Invocations
    BY <1>1 DEF Invocations
  <2> QED BY <2>1 DEF Scored, Published
<1>3. {sTile[idx] : idx \in RowOf(i)} = ScoresAt(i[1], start)
  BY <1>2 DEF RowOf, ScoresAt
<1>4. ScoresAt(i[1], start) \in SUBSET Number /\ IsFiniteSet(ScoresAt(i[1], start))
  BY <1>1, RowOfScores
<1>5. Largest({oldMax[i], TileMax(i)}) = Largest({rowMaxState[i[1]]} \cup ScoresAt(i[1], start))
  BY <1>1, <1>3, <1>4, LargestInRounds DEF TileMax
<1>6. ShiftAt(i[1], start) \in Int
  <2> DEFINE whole == {rowMaxState[i[1]]} \cup ScoresAt(i[1], start)
  <2>1. IsFiniteSet(whole)
    BY <1>4, FS_Singleton, FS_Union
  <2>2. whole \in SUBSET Number
    BY <1>1, <1>4
  <2> HIDE DEF whole
  <2>3. Largest(whole) = NegInf \/ Largest(whole) \in Int
    BY <2>1, <2>2, LargestIs
  <2> QED BY <2>3 DEF ShiftAt, Shift, whole
<1> QED BY <1>5, <1>6

(* Shifting the row by its maximum.                                        *)
LEMMA RowIsShifted ==
  ASSUME PaceTyped, NEW start \in Nat, Known("max", start), NEW i \in Invocations, ShiftMax(i)
  PROVE  Known("max", start)'
<1>1. /\ newMax' = [newMax EXCEPT ![i] = Shift(Largest({oldMax[i], TileMax(i)}))]
      /\ weight' = [weight EXCEPT ![i] = Minus(score[i], Shift(Largest({oldMax[i], TileMax(i)})))]
      /\ UNCHANGED <<qTile, kTile, vTile, sTile, oBuf, oldMax, score, acc, rowMaxState, rowSumState>>
      /\ UNCHANGED params
      /\ \A j \in Invocations : j # i => pc'[j] = pc[j]
  BY DEF ShiftMax, Arrive, PaceTyped, Shift, shared
<1>2. DataTyped /\ \A j \in Invocations : Scored(j, start) /\ Published(j) = score[j]
  BY ByThen DEF Known
<1>3. /\ Shift(Largest({oldMax[i], TileMax(i)})) = ShiftAt(i[1], start)
      /\ ShiftAt(i[1], start) \in Int
  BY <1>2, RowMaximum DEF ShiftAt
<1>4. DataTyped'
  BY <1>1, <1>2, <1>3 DEF DataTyped, Number, RowsKept, params
<1>5. \A j \in Invocations : Published(j)' = Published(j)
  BY <1>1 DEF Published, At
<1>6. ASSUME NEW j \in Invocations
      PROVE  Established(j, "max", start)'
  <2>1. /\ QueryLoaded(j) /\ TileLoaded(j, start) /\ Scored(j, start) /\ Published(j) = score[j]
        /\ pc[j] # "max" => Shifted(j, start)
    BY ByThen DEF Known
  <2>2. /\ QueryLoaded(j)' /\ TileLoaded(j, start)' /\ Scored(j, start)'
        /\ Published(j)' = score'[j]
    BY <1>1, <1>5, <2>1, Kept
  <2>3. CASE j = i
    <3>1. newMax'[i] = ShiftAt(i[1], start) /\ weight'[i] = Minus(score[i], ShiftAt(i[1], start))
      BY <1>1, <1>2, <1>3 DEF DataTyped
    <3>2. ShiftAt(i[1], start)' = ShiftAt(i[1], start)
      BY <1>1 DEF ShiftAt, ScoresAt, ScoreAt, params
    <3>3. Shifted(i, start)'
      BY <1>1, <3>1, <3>2 DEF Shifted, Minus, Flushed
    <3> QED BY <2>2, <2>3, <3>3 DEF Established
  <2>4. CASE j # i
    <3>1. newMax'[j] = newMax[j] /\ weight'[j] = weight[j] /\ score'[j] = score[j]
      BY <1>1, <1>2, <2>4 DEF DataTyped
    <3>2. Shifted(j, start)' <=> Shifted(j, start)
      BY <1>1, <3>1, Kept
    <3> QED BY <1>1, <2>1, <2>2, <2>4, <3>2 DEF Established
  <2> QED BY <2>3, <2>4
<1>7. HeadAt(start)' = HeadAt(start)
  BY <1>1 DEF HeadAt, params
<1> QED BY <1>4, <1>6, <1>7 DEF Known

(* Publishing the weights.                                                 *)
LEMMA WeightIsStored ==
  ASSUME PaceTyped, NEW start \in Nat, Known("weight", start), NEW i \in Invocations, StoreWeight(i)
  PROVE  Known("weight", start)'
<1>1. /\ sTile' = [sTile EXCEPT ![At(i[1], i[2])] = weight[i]]
      /\ UNCHANGED <<qTile, kTile, vTile, oBuf, oldMax, score, newMax, weight, acc,
                     rowMaxState, rowSumState>>
      /\ UNCHANGED params
      /\ pc'[i] = "mix" /\ pc[i] = "weight"
      /\ \A j \in Invocations : j # i => pc'[j] = pc[j]
  BY DEF StoreWeight, Arrive, PaceTyped, registers, Runs
<1>2. DataTyped'
  BY <1>1 DEF Known, DataTyped, Number, RowsKept, params
<1>3. ASSUME NEW j \in Invocations
      PROVE  Established(j, "weight", start)'
  <2>1. /\ QueryLoaded(j) /\ TileLoaded(j, start) /\ Scored(j, start) /\ Shifted(j, start)
        /\ Published(j) = IF pc[j] # "weight" THEN weight[j] ELSE score[j]
    BY ByThen DEF Known
  <2>2. QueryLoaded(j)' /\ TileLoaded(j, start)' /\ Scored(j, start)' /\ Shifted(j, start)'
    BY <1>1, <2>1, Kept
  <2>3. CASE j = i
    <3>1. At(i[1], i[2]) \in DOMAIN sTile
      BY Cells DEF Known, DataTyped
    <3>2. Published(i)' = weight'[i]
      BY <1>1, <3>1 DEF Published, At
    <3> QED BY <1>1, <2>2, <2>3, <3>2 DEF Established
  <2>4. CASE j # i
    <3>1. At(j[1], j[2]) # At(i[1], i[2]) /\ At(j[1], j[2]) \in DOMAIN sTile
      BY <2>4, Disjoint, Cells DEF Known, DataTyped
    <3>2. Published(j)' = Published(j)
      BY <1>1, <3>1 DEF Published, At
    <3> QED BY <1>1, <2>1, <2>2, <2>4, <3>2 DEF Established
  <2> QED BY <2>3, <2>4
<1>4. HeadAt(start)' = HeadAt(start)
  BY <1>1 DEF HeadAt, params
<1> QED BY <1>2, <1>3, <1>4 DEF Known

(* Adding the tile to the registers, and its row to the state.             *)
LEMMA TileIsAdded ==
  ASSUME PaceTyped, NEW start \in Nat, Known("mix", start), NEW i \in Invocations, Accumulate(i)
  PROVE  Known("mix", start)'
<1>1. /\ acc' = [acc EXCEPT ![i] = [col \in DOMAIN acc[i] |-> MixedColumn(i, col)]]
      /\ \/ /\ rowSumState' = [rowSumState EXCEPT ![i[1]] = MixedSum(i)]
            /\ rowMaxState' = [rowMaxState EXCEPT ![i[1]] = newMax[i]]
         \/ UNCHANGED <<rowSumState, rowMaxState>>
      /\ UNCHANGED <<qTile, kTile, vTile, sTile, oBuf, oldMax, score, newMax, weight>>
      /\ UNCHANGED params
  BY DEF Accumulate
<1>2. DOMAIN acc' = Invocations /\ \A j \in Invocations : DOMAIN acc'[j] = OwnedColumns(K, j[2])
  BY <1>1 DEF Known, DataTyped
<1>3. rowMaxState' \in [Rows -> Number] /\ DOMAIN rowSumState' = Rows
  BY <1>1 DEF Known, DataTyped, Number
<1>4. DataTyped'
  BY <1>1, <1>2, <1>3 DEF Known, DataTyped, RowsKept, params
<1>5. ASSUME NEW j \in Invocations
      PROVE  Established(j, "mix", start)'
  <2>1. QueryLoaded(j)
    BY ByThen DEF Known
  <2>2. QueryLoaded(j)'
    BY <1>1, <2>1, Kept
  <2> QED BY <2>2 DEF Established
<1>6. HeadAt(start)' = HeadAt(start)
  BY <1>1 DEF HeadAt, params
<1> QED BY <1>4, <1>5, <1>6 DEF Known

(* Writing the output.                                                     *)
LEMMA OutputIsWritten ==
  ASSUME PaceTyped, NEW start \in Nat, Known("write", start), NEW i \in Invocations, WriteOutput(i)
  PROVE  Known("write", start)'
<1>1. /\ DOMAIN oBuf' = DOMAIN oBuf
      /\ UNCHANGED <<qTile, kTile, vTile, sTile, oldMax, score, newMax, weight, acc,
                     rowSumState, rowMaxState>>
      /\ UNCHANGED params
  BY DEF WriteOutput, registers, shared
<1>2. DataTyped'
  BY <1>1 DEF Known, DataTyped, RowsKept, params
<1>3. ASSUME NEW j \in Invocations
      PROVE  Established(j, "write", start)'
  <2>1. QueryLoaded(j)
    BY ByThen DEF Known
  <2>2. QueryLoaded(j)'
    BY <1>1, <2>1, Kept
  <2> QED BY <2>2 DEF Established
<1>4. HeadAt(start)' = HeadAt(start)
  BY <1>1 DEF HeadAt, params
<1> QED BY <1>2, <1>3, <1>4 DEF Known

(* What everybody has established is known behind the barrier.             *)
LEMMA BarrierKnows ==
  ASSUME NEW section \in Sections, NEW start \in Nat, Known(section, start), Barrier,
         NEW after \in Sections, NEW first \in Nat, after # "load",
         after = Following(section, start), first = Advanced(section, start),
         \A j \in Invocations : pc[j] = after, section # "write"
  PROVE  Known(after, first)'
<1>1. /\ UNCHANGED <<qTile, kTile, vTile, sTile, oBuf, oldMax, score, newMax, weight, acc,
                     rowSumState, rowMaxState>>
      /\ UNCHANGED params /\ pc' = pc
  BY DEF Barrier, registers, shared
<1>2. DataTyped'
  BY <1>1 DEF Known, DataTyped, RowsKept, params
<1>3. /\ section \in {"load", "mix"} /\ after = HeadAt(first) /\ after \in {"tile", "write"}
      \/ /\ section # "mix" /\ section # "load" /\ first = start
         /\ after = SectionAfter[section] /\ after \in {"score", "max", "weight", "mix"}
  BY DEF Following, Advanced, SectionAfter, HeadAt, Sections
<1>4. ASSUME NEW j \in Invocations PROVE Established(j, after, first)'
  <2>1. Established(j, section, start) /\ pc[j] = after
    BY DEF Known
  <2>2. QueryLoaded(j)' <=> QueryLoaded(j)
    BY <1>1, Kept
  <2>3. TileLoaded(j, start)' <=> TileLoaded(j, start)
    BY <1>1, Kept
  <2>4. Scored(j, start)' <=> Scored(j, start)
    BY <1>1, Kept
  <2>5. Shifted(j, start)' <=> Shifted(j, start)
    BY <1>1, Kept
  <2>6. Published(j)' = Published(j)
    BY <1>1 DEF Published, At
  <2>7. pc'[j] = after
    BY <1>1, <2>1
  <2>8. CASE section \in {"load", "mix"}
    BY <1>1, <1>3, <2>1, <2>2, <2>7, <2>8 DEF Established
  <2>9. CASE section = "tile"
    <3>1. after = "score" /\ first = start
      BY <1>3, <2>9 DEF SectionAfter
    <3> QED BY <1>1, <2>1, <2>2, <2>3, <2>7, <2>9, <3>1 DEF Established
  <2>10. CASE section = "score"
    <3>1. after = "max" /\ first = start
      BY <1>3, <2>10 DEF SectionAfter
    <3> QED BY <1>1, <2>1, <2>2, <2>3, <2>4, <2>6, <2>7, <2>10, <3>1 DEF Established
  <2>11. CASE section = "max"
    <3>1. after = "weight" /\ first = start
      BY <1>3, <2>11 DEF SectionAfter
    <3> QED BY <1>1, <2>1, <2>2, <2>3, <2>4, <2>5, <2>6, <2>7, <2>11, <3>1 DEF Established
  <2>12. CASE section = "weight"
    <3>1. after = "mix" /\ first = start
      BY <1>3, <2>12 DEF SectionAfter
    <3> QED BY <1>1, <2>1, <2>2, <2>7, <2>12, <3>1 DEF Established
  <2> QED BY <2>8, <2>9, <2>10, <2>11, <2>12 DEF Sections
<1>5. HeadAt(first)' = HeadAt(first)
  BY <1>1 DEF HeadAt, params
<1>6. /\ after \notin {"load", "write"} => HeadAt(first) = "tile"
      /\ after = "write" => HeadAt(first) = "write"
  BY <1>3 DEF Known, Sections
<1> QED BY <1>2, <1>4, <1>5, <1>6 DEF Known

(* Before anybody has loaded anything.                                     *)
LEMMA DataInit == Init => DataInv
<1> SUFFICES ASSUME Init PROVE DataInv
  OBVIOUS
<1>1. PaceTyped
  BY DEF Init, PaceTyped, Sections
<1>2. Abreast("load", 0) /\ Orderly("load")
  BY DEF Init, Abreast, Pacing, Orderly
<1>3. DataTyped
  BY TileShape DEF Init, DataTyped, Number
<1>4. \A i \in Invocations : Established(i, "load", 0)
  BY DEF Init, Established
<1>5. Known("load", 0)
  BY <1>3, <1>4 DEF Known, Init
<1>6. "load" \in Sections /\ 0 \in Nat
  BY DEF Sections
<1> QED BY <1>1, <1>2, <1>5, <1>6 DEF DataInv

(* Every step keeps what the workgroup knows.                              *)
LEMMA DataStep == DataInv /\ [Next]_vars => DataInv'
<1> SUFFICES ASSUME DataInv, [Next]_vars PROVE DataInv'
  OBVIOUS
<1>0. PICK section \in Sections, start \in Nat :
        Abreast(section, start) /\ Orderly(section) /\ Known(section, start)
  BY DEF DataInv
<1>1. PaceTyped
  BY DEF DataInv
<1>2. CASE UNCHANGED vars
  <2>1. UNCHANGED <<pc, arrived, touched, params, registers, shared, oBuf>>
    BY <1>2 DEF vars
  <2>2. PaceTyped' /\ Abreast(section, start)' /\ Orderly(section)'
    BY <1>0, <1>1, <2>1 DEF PaceTyped, Abreast, Pacing, Orderly, Recorded, Permitted, Owns, Writes,
             Following, Advanced, HeadAt, tid, At, groupSize, params, registers
  <2>3. DataTyped'
    BY <1>0, <2>1 DEF Known, DataTyped, RowsKept, params, registers, shared
  <2>4. ASSUME NEW j \in Invocations PROVE Established(j, section, start)'
    <3>1. Established(j, section, start)
      BY <1>0 DEF Known
    <3>2. /\ QueryLoaded(j)' <=> QueryLoaded(j)
          /\ TileLoaded(j, start)' <=> TileLoaded(j, start)
          /\ Scored(j, start)' <=> Scored(j, start)
          /\ Shifted(j, start)' <=> Shifted(j, start)
      BY <2>1, Kept DEF registers, shared
    <3>3. Published(j)' = Published(j) /\ weight' = weight /\ score' = score /\ pc' = pc
      BY <2>1 DEF Published, At, registers, shared
    <3> QED BY <3>1, <3>2, <3>3 DEF Established
  <2>5. HeadAt(start)' = HeadAt(start) /\ rowSumState' = rowSumState
    BY <2>1 DEF HeadAt, params, shared
  <2>6. Known(section, start)'
    BY <1>0, <2>3, <2>4, <2>5 DEF Known
  <2> QED BY <2>2, <2>6 DEF DataInv
<1>3. ASSUME NEW i \in Invocations,
             \/ LoadQuery(i) \/ LoadTile(i) \/ ScoreKey(i) \/ ShiftMax(i)
             \/ StoreWeight(i) \/ Accumulate(i) \/ WriteOutput(i)
      PROVE  DataInv'
  <2>1. PaceTyped' /\ Abreast(section, start)' /\ Orderly(section)'
    BY <1>0, <1>1, <1>3, InvocationStep
  <2>2. \A s \in Sections : Runs(i, s) => s = section /\ kStart[i] = start
    BY <1>0, RunsTheSection
  <2>3. Known(section, start)'
    <3> USE DEF Sections
    <3>1. CASE LoadQuery(i)
      BY <1>0, <1>1, <2>2, <3>1, QueryIsLoaded DEF LoadQuery
    <3>2. CASE LoadTile(i)
      BY <1>0, <1>1, <2>2, <3>2, TileIsLoaded DEF LoadTile
    <3>3. CASE ScoreKey(i)
      BY <1>0, <1>1, <2>2, <3>3, KeyIsScored DEF ScoreKey
    <3>4. CASE ShiftMax(i)
      BY <1>0, <1>1, <2>2, <3>4, RowIsShifted DEF ShiftMax
    <3>5. CASE StoreWeight(i)
      BY <1>0, <1>1, <2>2, <3>5, WeightIsStored DEF StoreWeight
    <3>6. CASE Accumulate(i)
      BY <1>0, <1>1, <2>2, <3>6, TileIsAdded DEF Accumulate
    <3>7. CASE WriteOutput(i)
      BY <1>0, <1>1, <2>2, <3>7, OutputIsWritten DEF WriteOutput
    <3> QED BY <1>3, <3>1, <3>2, <3>3, <3>4, <3>5, <3>6, <3>7
  <2> QED BY <2>1, <2>3 DEF DataInv
<1>4. CASE Barrier
  <2>1. /\ \A j \in Invocations : pc[j] = Following(section, start)
        /\ section # "write" /\ Following(section, start) # "load" /\ PaceTyped'
    BY <1>0, <1>1, <1>4, BarrierStep
  <2>2. PICK after \in Sections, first \in Nat :
              /\ after = Following(section, start) /\ first = Advanced(section, start)
              /\ Abreast(after, first)' /\ Orderly(after)'
    BY <1>0, <1>1, <1>4, BarrierStep
  <2>3. Known(after, first)'
    BY <1>0, <1>4, <2>1, <2>2, BarrierKnows
  <2> QED BY <2>1, <2>2, <2>3 DEF DataInv
<1> QED BY <1>2, <1>3, <1>4 DEF Next

-----------------------------------------------------------------------------
(* Where the invocations can be while the workgroup is in a section, now   *)
(* and after a step.                                                       *)
LEMMA Whereabouts ==
  ASSUME NEW section \in Sections, NEW start \in Nat
  PROVE  /\ Abreast(section, start) =>
              /\ section # "write" => ~Writing
              /\ \A j \in Invocations :
                   /\ section # "mix" => ~Settling(j)
                   /\ section # "load" => pc[j] # "load"
         /\ Abreast(section, start)' =>
              /\ section # "write" => ~Writing'
              /\ \A j \in Invocations :
                   /\ section # "mix" => ~Settling(j)'
                   /\ section # "load" => pc'[j] # "load"
<1>1. Following("write", start) = "done" /\ Following("write", start)' = "done"
  BY DEF Following, SectionAfter
<1>2. /\ section # "write" => Following(section, start) # "done"
      /\ section # "write" => Following(section, start)' # "done"
      /\ Following(section, start) # "load" /\ Following(section, start)' # "load"
  BY DEF Following, SectionAfter, HeadAt, Sections
<1> QED BY <1>1, <1>2 DEF Abreast, Pacing, Writing, Settling, Runs, Sections

(* A step the transcribed tile does not notice.                            *)
Unnoticed ==
  /\ UNCHANGED params /\ KeysDone' = KeysDone
  /\ \A row \in Rows : RowMax(row)' = RowMax(row) /\ RowSum(row)' = RowSum(row)
  /\ \A row \in Rows, col \in Columns : RowColumn(row, col)' = RowColumn(row, col)

Output == IF Writing THEN [row \in RowsKept |-> [col \in Columns |-> RowOutput(row, col)]] ELSE <<>>

(* It is a stutter of the transcribed tile when the output stays as well.  *)
LEMMA UnnoticedStutters ==
  ASSUME Unnoticed, Output' = Output
  PROVE  UNCHANGED B!vars
<1>1. UNCHANGED <<scores, causal, qStart>> /\ KeysDone' = KeysDone
  BY DEF Unnoticed, params
<1>2. [row \in Rows |-> RowMax(row)]' = [row \in Rows |-> RowMax(row)]
  BY DEF Unnoticed
<1>3. [row \in Rows |-> RowSum(row)]' = [row \in Rows |-> RowSum(row)]
  BY DEF Unnoticed
<1>4. [row \in Rows |-> [col \in Columns |-> RowColumn(row, col)]]'
        = [row \in Rows |-> [col \in Columns |-> RowColumn(row, col)]]
  BY DEF Unnoticed
<1> QED BY <1>1, <1>2, <1>3, <1>4 DEF B!vars, Output

(* Nothing moves in the rows while tiles are loaded, scored and shifted.   *)
LEMMA QuietStep ==
  ASSUME UNCHANGED params, UNCHANGED <<kStart, rowMaxState, rowSumState, acc>>,
         \A j \in Invocations :
           /\ ~Settling(j) /\ ~Settling(j)'
           /\ pc[j] = "load" <=> pc'[j] = "load"
  PROVE  Unnoticed
<1>1. \A row \in Rows : Leader(row) \in Invocations
  BY TileShape DEF Leader, Invocations
<1>2. 0 \in Rows
  BY TileShape
<1>3. KeysDone' = KeysDone
  BY <1>1, <1>2 DEF KeysDone, Leader
<1>4. \A row \in Rows : RowMax(row)' = RowMax(row) /\ RowSum(row)' = RowSum(row)
  BY <1>1 DEF RowMax, RowSum, Leader
<1>5. ASSUME NEW row \in Rows, NEW col \in Columns PROVE RowColumn(row, col)' = RowColumn(row, col)
  <2>1. Owner(row, col) \in Invocations
    BY OwnerOf
  <2>2. Owner(row, col)' = Owner(row, col)
    BY DEF Owner
  <2> QED BY <2>1, <2>2 DEF RowColumn
<1> QED BY <1>3, <1>4, <1>5 DEF Unnoticed

(* The transcribed tile starts where the workgroup starts.                 *)
LEMMA TranscribedInit == Init => B!Init
<1> SUFFICES ASSUME Init PROVE B!Init
  OBVIOUS
<1>1. \A i \in Invocations : pc[i] = "load" /\ ~arrived[i] /\ kStart[i] = 0 /\ ~Settling(i)
  BY DEF Init, Settling, Runs
<1>2. \A row \in Rows : Leader(row) \in Invocations
  BY TileShape DEF Leader, Invocations
<1>3. KeysDone = 0
  <2>1. 0 \in Rows
    BY TileShape
  <2> QED BY <1>1, <1>2, <2>1 DEF KeysDone
<1>4. [row \in Rows |-> RowMax(row)] = [row \in Rows |-> NegInf]
  BY <1>1, <1>2 DEF RowMax
<1>5. [row \in Rows |-> RowSum(row)] = [row \in Rows |-> <<>>]
  BY <1>1, <1>2 DEF RowSum, Init
<1>6. ASSUME NEW row \in Rows, NEW col \in Columns PROVE RowColumn(row, col) = <<>>
  <2>1. Owner(row, col) \in Invocations /\ col \in OwnedColumns(K, Owner(row, col)[2])
    BY OwnerOf
  <2> QED BY <1>1, <2>1 DEF RowColumn, Init
<1>7. ~Writing
  BY <1>1 DEF Writing, Runs
<1> QED BY <1>3, <1>4, <1>5, <1>6, <1>7, SameArithmetic DEF B!Init, Init

(* Loading the query tile starts the state of the rows.                    *)
LEMMA QueryUnnoticed ==
  ASSUME PaceTyped, NEW start \in Nat, Abreast("load", start), Abreast("load", start)',
         Known("load", start), NEW i \in Invocations, LoadQuery(i)
  PROVE  Unnoticed /\ Output' = Output
<1>1. "load" \in Sections /\ "load" # "mix" /\ "load" # "write"
  BY DEF Sections
<1>2. /\ ~Writing /\ ~Writing'
      /\ \A j \in Invocations : ~Settling(j) /\ ~Settling(j)'
  BY <1>1, Whereabouts
<1>3. /\ UNCHANGED params /\ UNCHANGED <<kStart, acc>>
      /\ \/ /\ i[2] = 0
            /\ rowMaxState' = [rowMaxState EXCEPT ![i[1]] = NegInf]
            /\ rowSumState' = [rowSumState EXCEPT ![i[1]] = <<>>]
         \/ i[2] # 0 /\ UNCHANGED <<rowMaxState, rowSumState>>
      /\ pc[i] = "load" /\ pc'[i] # "load"
      /\ \A j \in Invocations : j # i => pc'[j] = pc[j]
  BY DEF LoadQuery, Arrive, PaceTyped, registers, LoopHead, Runs
<1>4. \A row \in Rows : Leader(row) \in Invocations /\ (Leader(row) = i <=> row = i[1] /\ i[2] = 0)
  BY TileShape DEF Leader, Invocations
<1>5. KeysDone' = KeysDone
  <2>1. 0 \in Rows
    BY TileShape
  <2> QED BY <1>2, <1>3, <1>4, <2>1 DEF KeysDone, Leader
<1>6. ASSUME NEW row \in Rows PROVE RowMax(row)' = RowMax(row)
  <2>1. rowMaxState \in [Rows -> Number]
    BY DEF Known, DataTyped
  <2>2. CASE Leader(row) = i
    <3>1. RowMax(row) = NegInf
      BY <1>3, <2>2 DEF RowMax
    <3>2. rowMaxState'[row] = NegInf
      BY <1>3, <1>4, <2>1, <2>2
    <3>3. RowMax(row)' = rowMaxState'[row]
      BY <1>2, <1>3, <1>4, <2>2 DEF RowMax, Leader
    <3> QED BY <3>1, <3>2, <3>3
  <2>3. CASE Leader(row) # i
    <3>1. rowMaxState'[row] = rowMaxState[row]
      BY <1>3, <1>4, <2>1, <2>3
    <3>2. pc'[Leader(row)] = pc[Leader(row)]
      BY <1>3, <1>4, <2>3
    <3> QED BY <1>2, <1>4, <3>1, <3>2 DEF RowMax, Leader
  <2> QED BY <2>2, <2>3
<1>7. ASSUME NEW row \in Rows PROVE RowSum(row)' = RowSum(row)
  <2>1. rowSumState[row] = <<>> /\ DOMAIN rowSumState = Rows
    BY DEF Known, DataTyped
  <2>2. rowSumState'[row] = <<>>
    BY <1>3, <2>1
  <2> QED BY <1>2, <1>4, <2>1, <2>2 DEF RowSum, Leader
<1>8. ASSUME NEW row \in Rows, NEW col \in Columns PROVE RowColumn(row, col)' = RowColumn(row, col)
  <2>1. Owner(row, col) \in Invocations /\ Owner(row, col)' = Owner(row, col)
    BY OwnerOf DEF Owner
  <2> QED BY <1>2, <1>3, <2>1 DEF RowColumn
<1> QED BY <1>2, <1>3, <1>5, <1>6, <1>7, <1>8 DEF Unnoticed, Output

(* What an invocation is about to add does not change while others add.    *)
LEMMA MixKept ==
  ASSUME NEW o \in Invocations, UNCHANGED <<oldMax, newMax, sTile, vTile>>,
         kStart'[o] = kStart[o]
  PROVE  /\ rowSumState'[o[1]] = rowSumState[o[1]] => MixedSum(o)' = MixedSum(o)
         /\ acc'[o] = acc[o] => \A col : MixedColumn(o, col)' = MixedColumn(o, col)
<1>1. Rescale(o)' = Rescale(o)
  BY DEF Rescale, Minus, Flushed
<1>2. PICK factor : factor = Rescale(o) /\ factor = Rescale(o)'
  BY <1>1
<1>3. ASSUME rowSumState'[o[1]] = rowSumState[o[1]] PROVE MixedSum(o)' = MixedSum(o)
  <2>1. PICK terms : terms = rowSumState[o[1]] /\ terms = rowSumState'[o[1]]
    BY <1>3
  <2> DEFINE Added == [j \in 1..K.BLOCK_K |-> <<IF kStart[o] + j - 1 < SeqK THEN kStart[o] + j - 1 ELSE Pad,
                              sTile[At(o[1], j - 1)]>>]
  <2>2. Added' = Added
    BY DEF At
  <2>3. PICK tail : tail = Added /\ tail = Added'
    BY <2>2
  <2>4. Rescaled(rowSumState[o[1]], Rescale(o)) = Rescaled(terms, factor)
    BY <1>2, <2>1
  <2>5. Rescaled(rowSumState[o[1]], Rescale(o))' = Rescaled(terms, factor)
    BY <1>2, <2>1 DEF Rescaled
  <2>6. MixedSum(o) = Rescaled(terms, factor) \o tail
    BY <2>3, <2>4 DEF MixedSum
  <2>7. MixedSum(o)' = Rescaled(terms, factor) \o tail
    BY <2>3, <2>5 DEF MixedSum
  <2> QED BY <2>6, <2>7
<1>4. ASSUME acc'[o] = acc[o], NEW col PROVE MixedColumn(o, col)' = MixedColumn(o, col)
  <2>1. PICK terms : terms = acc[o][col] /\ terms = acc'[o][col]
    BY <1>4
  <2>2. \A j : Held(j, col)' = Held(j, col)
    BY DEF Held
  <2>3. Weighed(o, col)' = Weighed(o, col)
    BY <2>2 DEF Weighed, At
  <2>4. PICK tail : tail = Weighed(o, col) /\ tail = Weighed(o, col)'
    BY <2>3
  <2>5. Rescaled(acc[o][col], Rescale(o)) = Rescaled(terms, factor)
    BY <1>2, <2>1
  <2>6. Rescaled(acc[o][col], Rescale(o))' = Rescaled(terms, factor)
    BY <1>2, <2>1 DEF Rescaled
  <2>7. MixedColumn(o, col) = Rescaled(terms, factor) \o tail
    BY <2>4, <2>5 DEF MixedColumn
  <2>8. MixedColumn(o, col)' = Rescaled(terms, factor) \o tail
    BY <2>4, <2>6 DEF MixedColumn
  <2> QED BY <2>7, <2>8
<1> QED BY <1>3, <1>4

(* So does adding the tile: its outcome was settled before.                *)
LEMMA AdditionUnnoticed ==
  ASSUME PaceTyped, NEW start \in Nat, Abreast("mix", start), Abreast("mix", start)',
         Known("mix", start), NEW i \in Invocations, Accumulate(i), kStart[i] = start
  PROVE  Unnoticed /\ Output' = Output
<1>1. "mix" \in Sections /\ "mix" # "load" /\ "mix" # "write"
  BY DEF Sections
<1>2. /\ ~Writing /\ ~Writing'
      /\ \A j \in Invocations : pc[j] # "load" /\ pc'[j] # "load"
  BY <1>1, Whereabouts
<1>3. /\ UNCHANGED params /\ UNCHANGED <<oldMax, newMax, sTile, vTile>>
      /\ acc' = [acc EXCEPT ![i] = [col \in DOMAIN acc[i] |-> MixedColumn(i, col)]]
      /\ \/ /\ i[2] = 0
            /\ rowSumState' = [rowSumState EXCEPT ![i[1]] = MixedSum(i)]
            /\ rowMaxState' = [rowMaxState EXCEPT ![i[1]] = newMax[i]]
         \/ i[2] # 0 /\ UNCHANGED <<rowSumState, rowMaxState>>
      /\ kStart' = [kStart EXCEPT ![i] = @ + K.BLOCK_K]
      /\ Settling(i) /\ pc'[i] # "mix"
      /\ \A j \in Invocations : j # i => pc'[j] = pc[j] /\ arrived'[j] = arrived[j]
  BY DEF Accumulate, Arrive, PaceTyped, LoopHead, Settling, Runs
<1>4. ~Settling(i)' /\ \A j \in Invocations : j # i => (Settling(j)' <=> Settling(j))
  BY <1>3 DEF Settling, Runs
<1>5. \A row \in Rows : Leader(row) \in Invocations /\ (Leader(row) = i <=> row = i[1] /\ i[2] = 0)
                        /\ Leader(row)' = Leader(row) /\ Leader(row)[1] = row
  BY TileShape DEF Leader, Invocations
<1>6. KeysDone' = KeysDone
  <2>1. 0 \in Rows /\ K.BLOCK_K = BlockK /\ BlockK \in Nat
    BY TileShape
  <2>2. kStart[Leader(0)] \in Nat /\ Leader(0) \in Invocations /\ Leader(0)' = Leader(0)
    BY <1>5, <2>1 DEF PaceTyped
  <2>3. CASE Leader(0) = i
    <3>1. kStart'[Leader(0)] = kStart[Leader(0)] + BlockK
      BY <1>3, <2>1, <2>2, <2>3 DEF PaceTyped
    <3> QED BY <1>3, <1>4, <2>1, <2>2, <2>3, <3>1 DEF KeysDone
  <2>4. CASE Leader(0) # i
    <3>1. kStart'[Leader(0)] = kStart[Leader(0)]
      BY <1>3, <2>2, <2>4 DEF PaceTyped
    <3> QED BY <1>4, <2>2, <2>4, <3>1 DEF KeysDone
  <2> QED BY <2>3, <2>4
<1>7. ASSUME NEW row \in Rows PROVE RowMax(row)' = RowMax(row)
  <2>1. rowMaxState \in [Rows -> Number]
    BY DEF Known, DataTyped
  <2>2. CASE Leader(row) = i
    <3>1. RowMax(row) = newMax[i]
      BY <1>2, <1>3, <2>2 DEF RowMax
    <3>2. rowMaxState'[row] = newMax[i]
      BY <1>3, <1>5, <2>1, <2>2
    <3>3. RowMax(row)' = rowMaxState'[row]
      BY <1>2, <1>4, <1>5, <2>2 DEF RowMax
    <3> QED BY <3>1, <3>2, <3>3
  <2>3. CASE Leader(row) # i
    <3>1. rowMaxState'[row] = rowMaxState[row]
      BY <1>3, <1>5, <2>1, <2>3
    <3> QED BY <1>2, <1>3, <1>4, <1>5, <2>3, <3>1 DEF RowMax
  <2> QED BY <2>2, <2>3
<1>8. ASSUME NEW row \in Rows PROVE RowSum(row)' = RowSum(row)
  <2>1. DOMAIN rowSumState = Rows
    BY DEF Known, DataTyped
  <2>2. CASE Leader(row) = i
    <3>1. RowSum(row) = MixedSum(i)
      BY <1>3, <2>2 DEF RowSum
    <3>2. rowSumState'[row] = MixedSum(i)
      BY <1>3, <1>5, <2>1, <2>2
    <3>3. RowSum(row)' = rowSumState'[row]
      BY <1>4, <1>5, <2>2 DEF RowSum
    <3> QED BY <3>1, <3>2, <3>3
  <2>3. CASE Leader(row) # i
    <3>1. rowSumState'[row] = rowSumState[row]
      BY <1>3, <1>5, <2>1, <2>3
    <3>2. kStart'[Leader(row)] = kStart[Leader(row)]
      BY <1>3, <1>5, <2>3 DEF PaceTyped
    <3>3. PICK o \in Invocations : o = Leader(row) /\ o = Leader(row)' /\ o[1] = row
      BY <1>5
    <3>4. MixedSum(o)' = MixedSum(o)
      BY <1>3, <3>1, <3>2, <3>3, MixKept
    <3>5. Settling(o)' <=> Settling(o)
      BY <1>4, <2>3, <3>3
    <3>6. RowSum(row) = IF Settling(o) THEN MixedSum(o) ELSE rowSumState[row]
      BY <3>3 DEF RowSum
    <3>7. RowSum(row)' = IF Settling(o)' THEN MixedSum(o)' ELSE rowSumState'[row]
      BY <3>3 DEF RowSum
    <3> QED BY <3>1, <3>4, <3>5, <3>6, <3>7
  <2> QED BY <2>2, <2>3
<1>9. ASSUME NEW row \in Rows, NEW col \in Columns PROVE RowColumn(row, col)' = RowColumn(row, col)
  <2>1. PICK o \in Invocations : /\ o = Owner(row, col) /\ o = Owner(row, col)'
                                 /\ col \in OwnedColumns(K, o[2])
    BY OwnerOf DEF Owner
  <2>2. DOMAIN acc = Invocations /\ DOMAIN acc[o] = OwnedColumns(K, o[2])
    BY <2>1 DEF Known, DataTyped
  <2>3. RowColumn(row, col) = IF Settling(o) THEN MixedColumn(o, col) ELSE acc[o][col]
    BY <2>1 DEF RowColumn
  <2>4. RowColumn(row, col)' = IF Settling(o)' THEN MixedColumn(o, col)' ELSE acc'[o][col]
    BY <2>1 DEF RowColumn
  <2>5. CASE o = i
    BY <1>3, <1>4, <2>1, <2>2, <2>3, <2>4, <2>5
  <2>6. CASE o # i
    <3>1. acc'[o] = acc[o]
      BY <1>3, <2>1, <2>2, <2>6
    <3>2. MixedColumn(o, col)' = MixedColumn(o, col)
      <4>1. kStart'[o] = kStart[o]
        BY <1>3, <2>6 DEF PaceTyped
      <4> QED BY <1>3, <3>1, <4>1, MixKept
    <3> QED BY <1>4, <2>1, <2>3, <2>4, <2>6, <3>1, <3>2
  <2> QED BY <2>5, <2>6
<1> QED BY <1>2, <1>3, <1>6, <1>7, <1>8, <1>9 DEF Unnoticed, Output

(* The quotient of a column depends on its terms and the sum of its row.   *)
LEMMA WrittenKept ==
  ASSUME NEW j \in Invocations, NEW col, UNCHANGED <<acc, rowSumState>>
  PROVE  Written(j, col)' = Written(j, col)
<1>1. PICK terms : terms = acc[j][col] /\ terms = acc'[j][col]
  OBVIOUS
<1>2. PICK denom : denom = rowSumState[j[1]] /\ denom = rowSumState'[j[1]]
  OBVIOUS
<1>3. Written(j, col) = Divided(terms, denom)
  BY <1>1, <1>2 DEF Written
<1>4. Written(j, col)' = Divided(terms, denom)
  BY <1>1, <1>2 DEF Written
<1> QED BY <1>3, <1>4

(* Writing a row writes what dividing it gave.                             *)
LEMMA WritingUnnoticed ==
  ASSUME PaceTyped, NEW start \in Nat, Abreast("write", start), Abreast("write", start)',
         Known("write", start), NEW i \in Invocations, WriteOutput(i)
  PROVE  Unnoticed /\ Output' = Output
<1>1. "write" \in Sections /\ "write" # "load" /\ "write" # "mix"
  BY DEF Sections
<1>2. \A j \in Invocations :
        /\ ~Settling(j) /\ ~Settling(j)'
        /\ pc[j] # "load" /\ pc'[j] # "load"
  BY <1>1, Whereabouts
<1>3. /\ UNCHANGED params /\ UNCHANGED <<kStart, rowMaxState, rowSumState, acc>>
      /\ pc[i] = "write" /\ ~arrived[i] /\ pc'[i] = "done"
      /\ \A j \in Invocations : j # i => pc'[j] = pc[j]
      /\ oBuf' = IF qStart + i[1] < SeqQ
                   THEN [oBuf EXCEPT ![i[1]] =
                          [col \in Columns |-> IF col \in DOMAIN acc[i] THEN Written(i, col)
                                                                        ELSE @[col]]]
                   ELSE oBuf
  BY DEF WriteOutput, PaceTyped, registers, shared, Runs
<1>4. Unnoticed
  BY <1>2, <1>3, QuietStep
<1>5. Writing /\ Writing'
  BY <1>3 DEF Writing, Runs, PaceTyped
<1>6. ASSUME NEW j \in Invocations, NEW col PROVE Written(j, col)' = Written(j, col)
  BY <1>3, WrittenKept
<1>7. RowsKept' = RowsKept /\ RowsKept \subseteq Rows
  BY <1>3 DEF RowsKept, params
<1>8. ASSUME NEW row \in RowsKept, NEW col \in Columns PROVE RowOutput(row, col)' = RowOutput(row, col)
  <2>0. row \in Rows
    BY DEF RowsKept
  <2>1. PICK o \in Invocations :
          /\ o = Owner(row, col) /\ o = Owner(row, col)' /\ o[1] = row
          /\ \A j \in Invocations : j[1] = row /\ col \in OwnedColumns(K, j[2]) => j = o
          /\ col \in OwnedColumns(K, o[2])
    <3>1. Owner(row, col)' = Owner(row, col)
      BY DEF Owner
    <3> QED BY <2>0, <3>1, OwnerOf
  <2>2. RowOutput(row, col) = IF pc[o] = "done" THEN oBuf[row][col] ELSE Written(o, col)
    BY <2>1 DEF RowOutput
  <2>3. RowOutput(row, col)' = IF pc'[o] = "done" THEN oBuf'[row][col] ELSE Written(o, col)
    BY <1>6, <2>1 DEF RowOutput
  <2>4. /\ DOMAIN oBuf = RowsKept /\ DOMAIN acc[i] = OwnedColumns(K, i[2])
        /\ qStart + row < SeqQ
    BY DEF Known, DataTyped, RowsKept
  <2>5. CASE o = i
    <3>1. oBuf'[row][col] = Written(i, col)
      BY <1>3, <2>1, <2>4, <2>5
    <3> QED BY <1>3, <2>2, <2>3, <2>5, <3>1
  <2>6. CASE o # i
    <3>1. i[1] = row => col \notin DOMAIN acc[i]
      BY <2>1, <2>4, <2>6
    <3>2. oBuf'[row][col] = oBuf[row][col]
      BY <1>3, <2>4, <3>1
    <3> QED BY <1>3, <2>2, <2>3, <2>6, <3>2
  <2> QED BY <2>5, <2>6
<1>9. Output' = Output
  BY <1>5, <1>7, <1>8 DEF Output
<1> QED BY <1>4, <1>9

(* When every lane has published its weight, what the workgroup is about   *)
(* to add is what the transcribed tile adds.                               *)
LEMMA TileSettles ==
  ASSUME NEW start \in Nat, Known("weight", start),
         \A j \in Invocations : pc[j] = "mix"
  PROVE  /\ \A i \in Invocations :
              /\ newMax[i] = ShiftAt(i[1], start)
              /\ Rescale(i) = Minus(rowMaxState[i[1]], ShiftAt(i[1], start))
         /\ \A row \in Rows, lane \in Lanes :
              sTile[At(row, lane)] = Minus(ScoreAt(row, lane, start), ShiftAt(row, start))
         /\ \A lane \in Lanes, col \in Columns :
              Held(lane, col) = IF start + lane < SeqK THEN start + lane ELSE Pad
<1>1. \A j \in Invocations :
        /\ QueryLoaded(j) /\ TileLoaded(j, start) /\ Scored(j, start) /\ Shifted(j, start)
        /\ Published(j) = weight[j]
  BY ByThen DEF Known
<1>2. \A i \in Invocations :
              /\ newMax[i] = ShiftAt(i[1], start)
              /\ Rescale(i) = Minus(rowMaxState[i[1]], ShiftAt(i[1], start))
  BY <1>1 DEF Scored, Shifted, Rescale
<1>3. ASSUME NEW row \in Rows, NEW lane \in Lanes
      PROVE  sTile[At(row, lane)] = Minus(ScoreAt(row, lane, start), ShiftAt(row, start))
  <2>0. <<row, lane>> \in Invocations
    BY DEF Invocations
  <2>1. PICK j \in Invocations : j = <<row, lane>> /\ j[1] = row /\ j[2] = lane
    BY <2>0
  <2>2. sTile[At(row, lane)] = weight[j]
    BY <1>1, <2>1 DEF Published
  <2>3. weight[j] = Minus(score[j], newMax[j]) /\ newMax[j] = ShiftAt(row, start)
        /\ score[j] = ScoreAt(row, lane, start)
    BY <1>1, <2>1 DEF Scored, Shifted
  <2> QED BY <2>2, <2>3
<1>4. ASSUME NEW lane \in Lanes, NEW col \in Columns
      PROVE  Held(lane, col) = IF start + lane < SeqK THEN start + lane ELSE Pad
  <2>1. vTile[lane * HeadDim + col] = IF start + lane < SeqK THEN <<start + lane, col>> ELSE <<Pad, col>>
    BY <1>1, TileCell
  <2> QED BY <2>1 DEF Held
<1> QED BY <1>2, <1>3, <1>4

(* What the transcribed tile sees in the rows just before it is attended.  *)
LEMMA TranscribedTile ==
  ASSUME NEW start \in Nat, KeysDone = start,
         \A row \in Rows : RowMax(row) = rowMaxState[row]
  PROVE  /\ \A row \in Rows : B!NewMax(row) = ShiftAt(row, start)
         /\ \A row \in Rows : B!Rescale(row) = Minus(rowMaxState[row], ShiftAt(row, start))
         /\ \A row \in Rows :
              B!Weights(row) =
                [j \in 1..BlockK |-> <<IF start + (j - 1) < SeqK THEN start + (j - 1) ELSE Pad,
                                       Minus(ScoreAt(row, j - 1, start), ShiftAt(row, start))>>]
<1>1. ASSUME NEW row \in Rows, NEW lane PROVE B!Score(row, lane) = ScoreAt(row, lane, start)
  BY DEF B!Score, B!Allowed, B!QValid, ScoreAt
<1>2. ASSUME NEW row \in Rows PROVE B!NewMax(row) = ShiftAt(row, start)
  <2>1. {B!Score(row, lane) : lane \in B!Lanes} = ScoresAt(row, start)
    BY <1>1, SameArithmetic DEF ScoresAt
  <2>2. [r \in Rows |-> RowMax(r)][row] = rowMaxState[row]
    OBVIOUS
  <2>3. B!Largest({rowMaxState[row]} \cup ScoresAt(row, start))
          = Largest({rowMaxState[row]} \cup ScoresAt(row, start))
    BY SameArithmetic
  <2> QED BY <2>1, <2>2, <2>3 DEF B!NewMax, ShiftAt, Shift
<1>3. ASSUME NEW row \in Rows
      PROVE  B!Rescale(row) = Minus(rowMaxState[row], ShiftAt(row, start))
  BY <1>2, SameArithmetic DEF B!Rescale
<1>4. ASSUME NEW row \in Rows
      PROVE  B!Weights(row) =
                [j \in 1..BlockK |-> <<IF start + (j - 1) < SeqK THEN start + (j - 1) ELSE Pad,
                                       Minus(ScoreAt(row, j - 1, start), ShiftAt(row, start))>>]
  <2>1. \A lane : B!Score(row, lane) = ScoreAt(row, lane, start)
    BY <1>1
  <2>2. \A a, b : B!Minus(a, b) = Minus(a, b)
    BY SameArithmetic
  <2>3. \A lane : B!ValueRow(lane) = IF start + lane < SeqK THEN start + lane ELSE Pad
    BY DEF B!ValueRow
  <2> QED BY <1>2, <2>1, <2>2, <2>3 DEF B!Weights
<1> QED BY <1>2, <1>3, <1>4

(* The barrier in front of "mix" is where the tile is attended.            *)
LEMMA TileIsAttended ==
  ASSUME PaceTyped, NEW start \in Nat, Abreast("weight", start), Abreast("mix", start)',
         Known("weight", start), Barrier,
         \A j \in Invocations : pc[j] = "mix" /\ kStart[j] = start
  PROVE  B!AttendTile
<1>1. "weight" \in Sections /\ "mix" \in Sections /\ ~Writing /\ ~Writing'
  <2>1. "weight" \in Sections /\ "mix" \in Sections /\ "weight" # "write" /\ "mix" # "write"
    BY DEF Sections
  <2> QED BY <2>1, Whereabouts
<1>2. /\ UNCHANGED params
      /\ UNCHANGED <<pc, kStart, oldMax, newMax, weight, acc, sTile, vTile, rowMaxState, rowSumState>>
      /\ \A j \in Invocations : ~Settling(j) /\ Settling(j)'
  BY DEF Barrier, registers, shared, Settling, Runs
<1>3. \A row \in Rows : Leader(row) \in Invocations /\ Leader(row)' = Leader(row) /\ Leader(row)[1] = row
  BY TileShape DEF Leader, Invocations
<1>4. 0 \in Rows
  BY TileShape
<1>5. KeysDone = start /\ KeysDone' = start + BlockK
  BY <1>2, <1>3, <1>4 DEF KeysDone
<1>6. \A row \in Rows : RowMax(row) = rowMaxState[row] /\ RowSum(row) = rowSumState[row]
  BY <1>2, <1>3 DEF RowMax, RowSum
<1>7. /\ \A row \in Rows : B!NewMax(row) = ShiftAt(row, start)
      /\ \A row \in Rows : B!Rescale(row) = Minus(rowMaxState[row], ShiftAt(row, start))
      /\ \A row \in Rows :
           B!Weights(row) =
             [j \in 1..BlockK |-> <<IF start + (j - 1) < SeqK THEN start + (j - 1) ELSE Pad,
                                    Minus(ScoreAt(row, j - 1, start), ShiftAt(row, start))>>]
  BY <1>5, <1>6, TranscribedTile
<1>8. /\ \A i \in Invocations :
           /\ newMax[i] = ShiftAt(i[1], start)
           /\ Rescale(i) = Minus(rowMaxState[i[1]], ShiftAt(i[1], start))
      /\ \A row \in Rows, lane \in Lanes :
           sTile[At(row, lane)] = Minus(ScoreAt(row, lane, start), ShiftAt(row, start))
      /\ \A lane \in Lanes, col \in Columns :
           Held(lane, col) = IF start + lane < SeqK THEN start + lane ELSE Pad
  BY TileSettles
<1>9. \A j \in 1..BlockK : j - 1 \in Lanes
  BY TileShape
<1>10. ASSUME NEW row \in Rows PROVE RowMax(row)' = B!NewMax(row)
  <2>1. RowMax(row)' = newMax[Leader(row)]
    BY <1>2, <1>3 DEF RowMax
  <2> QED BY <1>3, <1>7, <1>8, <2>1
<1>11. ASSUME NEW row \in Rows
       PROVE  RowSum(row)' = Rescaled(rowSumState[row], B!Rescale(row)) \o B!Weights(row)
  <2>1. PICK o \in Invocations : o = Leader(row) /\ o = Leader(row)' /\ o[1] = row
    BY <1>3
  <2>2. MixedSum(o)' = MixedSum(o)
    BY <1>2, MixKept
  <2>3. RowSum(row)' = MixedSum(o)'
    BY <1>2, <2>1 DEF RowSum
  <2>4. [j \in 1..K.BLOCK_K |-> <<IF kStart[o] + j - 1 < SeqK THEN kStart[o] + j - 1 ELSE Pad,
                                  sTile[At(o[1], j - 1)]>>] = B!Weights(row)
    <3>1. \A j \in 1..BlockK : sTile[At(row, j - 1)] = Minus(ScoreAt(row, j - 1, start), ShiftAt(row, start))
      BY <1>8, <1>9
    <3>2. \A j \in 1..BlockK : kStart[o] + j - 1 = start + (j - 1)
      OBVIOUS
    <3> QED BY <1>7, <2>1, <3>1, <3>2, TileShape
  <2>5. Rescale(o) = B!Rescale(row)
    BY <1>7, <1>8, <2>1
  <2> QED BY <2>1, <2>2, <2>3, <2>4, <2>5 DEF MixedSum
<1>12. ASSUME NEW row \in Rows, NEW col \in Columns
       PROVE  RowColumn(row, col)' = Rescaled(RowColumn(row, col), B!Rescale(row)) \o B!Weights(row)
  <2>0. Owner(row, col)' = Owner(row, col)
    BY DEF Owner
  <2>1. PICK o \in Invocations : o = Owner(row, col) /\ o = Owner(row, col)' /\ o[1] = row
    BY <2>0, OwnerOf
  <2>2. MixedColumn(o, col)' = MixedColumn(o, col)
    BY <1>2, MixKept
  <2>3. RowColumn(row, col)' = MixedColumn(o, col)' /\ RowColumn(row, col) = acc[o][col]
    BY <1>2, <2>1 DEF RowColumn
  <2>4. Weighed(o, col) = B!Weights(row)
    <3>1. \A j \in 1..BlockK :
            /\ sTile[At(row, j - 1)] = Minus(ScoreAt(row, j - 1, start), ShiftAt(row, start))
            /\ Held(j - 1, col) = IF start + (j - 1) < SeqK THEN start + (j - 1) ELSE Pad
      BY <1>8, <1>9
    <3> QED BY <1>7, <2>1, <3>1, TileShape DEF Weighed
  <2>5. Rescale(o) = B!Rescale(row)
    BY <1>7, <1>8, <2>1
  <2> QED BY <2>1, <2>2, <2>3, <2>4, <2>5 DEF MixedColumn
<1>13. [row \in Rows |-> RowSum(row)]'
         = [row \in B!Rows |-> B!Rescaled([r \in Rows |-> RowSum(r)][row], B!Rescale(row)) \o B!Weights(row)]
  BY <1>6, <1>11, SameArithmetic
<1>14. [row \in Rows |-> [col \in Columns |-> RowColumn(row, col)]]'
         = [row \in B!Rows |-> [col \in B!Columns |->
              B!Rescaled([r \in Rows |-> [c \in Columns |-> RowColumn(r, c)]][row][col], B!Rescale(row))
                \o B!Weights(row)]]
  BY <1>12, SameArithmetic
<1>15. [row \in Rows |-> RowMax(row)]' = [row \in B!Rows |-> B!NewMax(row)]
  BY <1>10, SameArithmetic
<1>16. start < SeqK /\ ~(causal /\ start > qStart + BlockQ - 1)
  <2>1. HeadAt(start) = "tile"
    BY DEF Known, Sections
  <2> QED BY <2>1, TileShape DEF HeadAt
<1>17. KeysDone < SeqK /\ ~B!BeyondDiagonal
  BY <1>5, <1>16 DEF B!BeyondDiagonal
<1> QED BY <1>1, <1>2, <1>5, <1>13, <1>14, <1>15, <1>17 DEF B!AttendTile, params

(* The barrier in front of "write" is where the rows are divided.          *)
LEMMA RowsAreDivided ==
  ASSUME PaceTyped, NEW section \in Sections, section # "write", NEW start \in Nat,
         Abreast(section, start), NEW first \in Nat, HeadAt(first) = "write", Barrier,
         \A j \in Invocations : pc[j] = "write" /\ kStart[j] = first
  PROVE  B!Divide
<1>1. /\ UNCHANGED params /\ UNCHANGED <<kStart, rowMaxState, rowSumState, acc, pc>>
      /\ \A j \in Invocations :
           /\ ~Settling(j) /\ ~Settling(j)' /\ Runs(j, "write")'
           /\ pc[j] = "load" <=> pc'[j] = "load"
           /\ pc'[j] # "done"
  BY DEF Barrier, registers, shared, Settling, Runs
<1>2. Unnoticed
  BY <1>1, QuietStep
<1>3. ~Writing /\ Writing'
  BY <1>1, SomeInvocation, Whereabouts DEF Writing
<1>4. \A row \in Rows : Leader(row) \in Invocations
  BY TileShape DEF Leader, Invocations
<1>5. KeysDone = first
  BY <1>1, <1>4, TileShape DEF KeysDone
<1>6. KeysDone >= SeqK \/ B!BeyondDiagonal
  <2>1. ~(first < SeqK) \/ (causal /\ first > qStart + BlockQ - 1)
    BY TileShape DEF HeadAt
  <2> QED BY <1>5, <2>1, TileShape DEF B!BeyondDiagonal
<1>7. RowsKept' = RowsKept /\ RowsKept \subseteq Rows /\ RowsKept = {row \in B!Rows : B!QValid(row)}
  BY <1>1, SameArithmetic DEF RowsKept, B!QValid, params
<1>8. ASSUME NEW row \in RowsKept, NEW col \in Columns
      PROVE  RowOutput(row, col)' = Divided(RowColumn(row, col), RowSum(row))
  <2>0. row \in Rows /\ Owner(row, col)' = Owner(row, col)
    BY <1>7 DEF Owner
  <2>1. PICK o \in Invocations : o = Owner(row, col) /\ o = Owner(row, col)' /\ o[1] = row
    BY <2>0, OwnerOf
  <2>2. PICK terms : terms = acc[o][col] /\ terms = acc'[o][col]
    BY <1>1
  <2>3. PICK denom : denom = rowSumState[row] /\ denom = rowSumState'[row]
    BY <1>1
  <2>4. RowOutput(row, col)' = Written(o, col)'
    BY <1>1, <2>1 DEF RowOutput
  <2>5. Written(o, col)' = Divided(terms, denom)
    BY <2>1, <2>2, <2>3 DEF Written
  <2>6. RowColumn(row, col) = terms
    BY <1>1, <2>1, <2>2 DEF RowColumn
  <2>7. RowSum(row) = denom
    BY <1>1, <1>4, <2>0, <2>3 DEF RowSum
  <2> QED BY <2>4, <2>5, <2>6, <2>7
<1>9. (IF Writing THEN [row \in RowsKept |-> [col \in Columns |-> RowOutput(row, col)]] ELSE <<>>)'
        = [row \in {row \in B!Rows : B!QValid(row)} |-> [col \in B!Columns |->
             B!Divided([r \in Rows |-> [c \in Columns |-> RowColumn(r, c)]][row][col],
                       [r \in Rows |-> RowSum(r)][row])]]
  BY <1>3, <1>7, <1>8, SameArithmetic
<1>10. /\ UNCHANGED <<scores, causal, qStart>> /\ KeysDone' = KeysDone
       /\ [row \in Rows |-> RowMax(row)]' = [row \in Rows |-> RowMax(row)]
       /\ [row \in Rows |-> RowSum(row)]' = [row \in Rows |-> RowSum(row)]
       /\ [row \in Rows |-> [col \in Columns |-> RowColumn(row, col)]]'
            = [row \in Rows |-> [col \in Columns |-> RowColumn(row, col)]]
  BY <1>2 DEF Unnoticed, params
<1> QED BY <1>3, <1>6, <1>9, <1>10 DEF B!Divide

(* The other barriers only let the invocations on.                         *)
LEMMA BarrierUnnoticed ==
  ASSUME NEW section \in Sections, section # "write", NEW start \in Nat, Abreast(section, start),
         NEW after \in Sections, after \notin {"load", "mix", "write"}, NEW first \in Nat,
         Abreast(after, first)', Barrier, \A j \in Invocations : pc[j] = after
  PROVE  Unnoticed /\ Output' = Output
<1>1. /\ UNCHANGED params /\ UNCHANGED <<kStart, rowMaxState, rowSumState, acc>>
      /\ \A j \in Invocations :
           /\ ~Settling(j) /\ ~Settling(j)'
           /\ pc[j] = "load" <=> pc'[j] = "load"
  BY DEF Barrier, registers, shared, Settling, Runs
<1>2. Unnoticed
  BY <1>1, QuietStep
<1>3. ~Writing /\ ~Writing'
  BY Whereabouts
<1> QED BY <1>2, <1>3 DEF Output

(* Nor does the transcribed tile move while a tile is loaded, its keys are *)
(* scored, the rows are shifted and the weights are stored.                *)
LEMMA PreparationUnnoticed ==
  ASSUME PaceTyped, NEW section \in {"tile", "score", "max", "weight"}, NEW start \in Nat,
         Abreast(section, start), Abreast(section, start)', NEW i \in Invocations,
         LoadTile(i) \/ ScoreKey(i) \/ ShiftMax(i) \/ StoreWeight(i)
  PROVE  Unnoticed /\ Output' = Output
<1>1. section \in Sections /\ section \notin {"load", "mix", "write"}
  BY DEF Sections
<1>2. UNCHANGED params /\ UNCHANGED <<kStart, rowMaxState, rowSumState, acc>>
  BY DEF LoadTile, ScoreKey, ShiftMax, StoreWeight, registers, shared
<1>3. /\ ~Writing /\ ~Writing'
      /\ \A j \in Invocations :
           /\ ~Settling(j) /\ ~Settling(j)'
           /\ pc[j] = "load" <=> pc'[j] = "load"
  BY <1>1, Whereabouts
<1>4. Unnoticed
  BY <1>2, <1>3, QuietStep
<1> QED BY <1>3, <1>4 DEF Output

(* A step in which nothing changes.                                        *)
LEMMA NothingUnnoticed ==
  ASSUME UNCHANGED vars
  PROVE  Unnoticed /\ Output' = Output
<1>1. /\ UNCHANGED params /\ UNCHANGED <<pc, arrived, touched, oBuf>>
      /\ UNCHANGED <<kStart, oldMax, score, newMax, weight, acc>>
      /\ UNCHANGED <<qTile, kTile, vTile, sTile, rowMaxState, rowSumState>>
  BY DEF vars, registers, shared
<1>2. \A j : Settling(j)' <=> Settling(j)
  BY <1>1 DEF Settling, Runs
<1>3. \A row \in Rows : Leader(row) \in Invocations /\ Leader(row)' = Leader(row)
  BY TileShape DEF Leader, Invocations
<1>4. KeysDone' = KeysDone
  <2>1. PICK o : o = Leader(0) /\ o = Leader(0)'
    BY <1>3, TileShape
  <2> QED BY <1>1, <1>2, <2>1 DEF KeysDone
<1>5. ASSUME NEW row \in Rows PROVE RowMax(row)' = RowMax(row) /\ RowSum(row)' = RowSum(row)
  <2>1. PICK o \in Invocations : o = Leader(row) /\ o = Leader(row)'
    BY <1>3
  <2>2. MixedSum(o)' = MixedSum(o)
    BY <1>1, MixKept
  <2>3. RowMax(row)' = RowMax(row)
    BY <1>1, <1>2, <2>1 DEF RowMax
  <2>4. RowSum(row) = IF Settling(o) THEN MixedSum(o) ELSE rowSumState[row]
    BY <2>1 DEF RowSum
  <2>5. RowSum(row)' = IF Settling(o)' THEN MixedSum(o)' ELSE rowSumState'[row]
    BY <2>1 DEF RowSum
  <2> QED BY <1>1, <1>2, <2>2, <2>3, <2>4, <2>5
<1>6. ASSUME NEW row \in Rows, NEW col \in Columns
      PROVE  RowColumn(row, col)' = RowColumn(row, col) /\ RowOutput(row, col)' = RowOutput(row, col)
  <2>0. Owner(row, col)' = Owner(row, col)
    BY DEF Owner
  <2>1. PICK o \in Invocations : o = Owner(row, col) /\ o = Owner(row, col)'
    BY <2>0, OwnerOf
  <2>2. MixedColumn(o, col)' = MixedColumn(o, col)
    BY <1>1, MixKept
  <2>3. Written(o, col)' = Written(o, col)
    BY <1>1, WrittenKept
  <2>4. /\ RowColumn(row, col) = IF Settling(o) THEN MixedColumn(o, col) ELSE acc[o][col]
        /\ RowColumn(row, col)' = IF Settling(o)' THEN MixedColumn(o, col)' ELSE acc'[o][col]
    BY <2>1 DEF RowColumn
  <2>5. /\ RowOutput(row, col) = IF pc[o] = "done" THEN oBuf[row][col] ELSE Written(o, col)
        /\ RowOutput(row, col)' = IF pc'[o] = "done" THEN oBuf'[row][col] ELSE Written(o, col)'
    BY <2>1 DEF RowOutput
  <2> QED BY <1>1, <1>2, <2>2, <2>3, <2>4, <2>5
<1>7. Writing' = Writing /\ RowsKept' = RowsKept /\ RowsKept \subseteq Rows
  BY <1>1 DEF Writing, Runs, RowsKept, params
<1>8. \A row \in RowsKept, col \in Columns : RowOutput(row, col)' = RowOutput(row, col)
  BY <1>6, <1>7
<1>9. Output' = Output
  BY <1>7, <1>8 DEF Output
<1> QED BY <1>1, <1>4, <1>5, <1>6, <1>9 DEF Unnoticed

(* Every step of the workgroup is a step of the transcribed tile, or none. *)
LEMMA ShaderStep == DataInv /\ [Next]_vars => [B!Next]_B!vars
<1> SUFFICES ASSUME DataInv, [Next]_vars PROVE [B!Next]_B!vars
  OBVIOUS
<1>0. PICK section \in Sections, start \in Nat :
        Abreast(section, start) /\ Orderly(section) /\ Known(section, start)
  BY DEF DataInv
<1>1. PaceTyped
  BY DEF DataInv
<1>2. CASE UNCHANGED vars
  BY <1>2, NothingUnnoticed, UnnoticedStutters
<1>3. ASSUME NEW i \in Invocations,
             \/ LoadQuery(i) \/ LoadTile(i) \/ ScoreKey(i) \/ ShiftMax(i)
             \/ StoreWeight(i) \/ Accumulate(i) \/ WriteOutput(i)
      PROVE  UNCHANGED B!vars
  <2>1. Abreast(section, start)'
    BY <1>0, <1>1, <1>3, InvocationStep
  <2>2. \A s \in Sections : Runs(i, s) => s = section /\ kStart[i] = start
    BY <1>0, RunsTheSection
  <2>3. Unnoticed /\ Output' = Output
    <3> USE DEF Sections
    <3>1. CASE LoadQuery(i)
      BY <1>0, <1>1, <2>1, <2>2, <3>1, QueryUnnoticed DEF LoadQuery
    <3>2. CASE LoadTile(i)
      <4>1. section = "tile"
        BY <2>2, <3>2 DEF LoadTile
      <4> QED BY <1>0, <1>1, <2>1, <3>2, <4>1, PreparationUnnoticed
    <3>3. CASE ScoreKey(i)
      <4>1. section = "score"
        BY <2>2, <3>3 DEF ScoreKey
      <4> QED BY <1>0, <1>1, <2>1, <3>3, <4>1, PreparationUnnoticed
    <3>4. CASE ShiftMax(i)
      <4>1. section = "max"
        BY <2>2, <3>4 DEF ShiftMax
      <4> QED BY <1>0, <1>1, <2>1, <3>4, <4>1, PreparationUnnoticed
    <3>5. CASE StoreWeight(i)
      <4>1. section = "weight"
        BY <2>2, <3>5 DEF StoreWeight
      <4> QED BY <1>0, <1>1, <2>1, <3>5, <4>1, PreparationUnnoticed
    <3>6. CASE Accumulate(i)
      BY <1>0, <1>1, <2>1, <2>2, <3>6, AdditionUnnoticed DEF Accumulate
    <3>7. CASE WriteOutput(i)
      BY <1>0, <1>1, <2>1, <2>2, <3>7, WritingUnnoticed DEF WriteOutput
    <3> QED BY <1>3, <3>1, <3>2, <3>3, <3>4, <3>5, <3>6, <3>7
  <2> QED BY <2>3, UnnoticedStutters
<1>4. ASSUME Barrier PROVE B!Next \/ UNCHANGED B!vars
  <2>1. /\ \A j \in Invocations :
             pc[j] = Following(section, start) /\ kStart[j] = Advanced(section, start)
        /\ section # "write" /\ Following(section, start) # "load"
    BY <1>0, <1>1, <1>4, BarrierStep
  <2>2. PICK after \in Sections, first \in Nat :
              /\ after = Following(section, start) /\ first = Advanced(section, start)
              /\ Abreast(after, first)'
    BY <1>0, <1>1, <1>4, BarrierStep
  <2>3. CASE after = "mix"
    <3>1. section = "weight" /\ first = start
      BY <2>2, <2>3 DEF Following, SectionAfter, HeadAt, Advanced, Sections
    <3>2. B!AttendTile
      BY <1>0, <1>1, <1>4, <2>1, <2>2, <2>3, <3>1, TileIsAttended
    <3> QED BY <3>2 DEF B!Next
  <2>4. CASE after = "write"
    <3>1. HeadAt(first) = "write"
      BY <2>2, <2>4 DEF Following, SectionAfter, Sections
    <3>2. B!Divide
      BY <1>0, <1>1, <1>4, <2>1, <2>2, <2>4, <3>1, RowsAreDivided
    <3> QED BY <3>2 DEF B!Next
  <2>5. CASE after \notin {"mix", "write"}
    <3>1. Unnoticed /\ Output' = Output
      BY <1>0, <1>4, <2>1, <2>2, <2>5, BarrierUnnoticed
    <3> QED BY <3>1, UnnoticedStutters
  <2> QED BY <2>3, <2>4, <2>5
<1> QED BY <1>2, <1>3, <1>4 DEF Next

(* What a workgroup knows about its data holds in every state.             *)
THEOREM DataInvariant == Spec => []DataInv
  BY DataInit, DataStep, PTL DEF Spec

(* ImplementsBlocked: a workgroup does to its tile what blocked.py does,   *)
(* one tile of keys per step, in whatever order its invocations run        *)
(* between two barriers.                                                   *)
THEOREM TranscribesBlocked == Spec => ImplementsBlocked
<1>1. Spec => []DataInv
  BY DataInvariant
<1>2. DataInv /\ [Next]_vars => [B!Next]_B!vars
  BY ShaderStep
<1> QED BY <1>1, <1>2, TranscribedInit, PTL DEF Spec, ImplementsBlocked, B!Spec

(* The tile of the theorems about blocked.py is the one transcribed.       *)
LEMMA SameTile == B!Spec => Tile!Spec
<1>1. B!Init => Tile!Init
  BY DEF B!Init, Tile!Init, B!Rows, Tile!Rows, B!Columns, Tile!Columns
<1>3. /\ \A row : B!QValid(row) <=> Tile!QValid(row)
      /\ B!Rows = Tile!Rows /\ B!Columns = Tile!Columns /\ B!Lanes = Tile!Lanes
      /\ B!BeyondDiagonal <=> Tile!BeyondDiagonal
      /\ \A row, lane : B!Score(row, lane) = Tile!Score(row, lane)
      /\ \A lane : B!ValueRow(lane) = Tile!ValueRow(lane)
  BY DEF B!QValid, Tile!QValid, B!Rows, Tile!Rows, B!Columns, Tile!Columns, B!Lanes, Tile!Lanes,
         B!BeyondDiagonal, Tile!BeyondDiagonal, B!Score, Tile!Score, B!Allowed, Tile!Allowed,
         B!ValueRow, Tile!ValueRow
<1>4. /\ \A a, b : B!Minus(a, b) = Tile!Minus(a, b) /\ B!Times(a, b) = Tile!Times(a, b)
      /\ \A S : B!Largest(S) = Tile!Largest(S)
      /\ \A terms : B!Present(terms) = Tile!Present(terms)
  BY DEF B!Minus, Tile!Minus, B!Flushed, Tile!Flushed, B!Times, Tile!Times, B!Largest, Tile!Largest,
         B!Max, Tile!Max, B!Present, Tile!Present, B!Restrict, Tile!Restrict
<1>5. /\ \A terms, factor : B!Rescaled(terms, factor) = Tile!Rescaled(terms, factor)
      /\ \A terms, denom : B!Divided(terms, denom) = Tile!Divided(terms, denom)
  BY <1>4 DEF B!Rescaled, Tile!Rescaled, B!Divided, Tile!Divided, B!IsPositive, Tile!IsPositive,
              B!Zero, Tile!Zero
<1>6. \A row : /\ B!NewMax(row) = Tile!NewMax(row)
               /\ B!Rescale(row) = Tile!Rescale(row)
               /\ B!Weights(row) = Tile!Weights(row)
  <2>1. ASSUME NEW row PROVE B!NewMax(row) = Tile!NewMax(row)
    <3>1. {B!Score(row, lane) : lane \in B!Lanes} = {Tile!Score(row, lane) : lane \in Tile!Lanes}
      BY <1>3
    <3>2. \A S : B!Largest(S) = Tile!Largest(S)
      BY <1>4
    <3>3. B!Largest({[r \in Rows |-> RowMax(r)][row]} \cup {B!Score(row, lane) : lane \in B!Lanes})
            = Tile!Largest({[r \in Rows |-> RowMax(r)][row]} \cup {Tile!Score(row, lane) : lane \in Tile!Lanes})
      BY <3>1, <3>2
    <3> QED BY <3>3 DEF B!NewMax, Tile!NewMax
  <2>2. \A row : B!Rescale(row) = Tile!Rescale(row)
    BY <1>4, <2>1 DEF B!Rescale, Tile!Rescale
  <2>3. ASSUME NEW row PROVE B!Weights(row) = Tile!Weights(row)
    <3>1. \A lane : <<B!ValueRow(lane), B!Minus(B!Score(row, lane), B!NewMax(row))>>
                     = <<Tile!ValueRow(lane), Tile!Minus(Tile!Score(row, lane), Tile!NewMax(row))>>
      BY <1>3, <1>4, <2>1
    <3> QED BY <3>1 DEF B!Weights, Tile!Weights
  <2> QED BY <2>1, <2>2, <2>3
<1>7. B!AttendTile => Tile!AttendTile
  BY <1>3, <1>5, <1>6 DEF B!AttendTile, Tile!AttendTile
<1>8. B!Divide => Tile!Divide
  <2>1. {row \in B!Rows : B!QValid(row)} = {row \in Tile!Rows : Tile!QValid(row)}
    BY <1>3
  <2>2. [row \in {row \in B!Rows : B!QValid(row)} |-> [col \in B!Columns |->
           B!Divided([r \in Rows |-> [c \in Columns |-> RowColumn(r, c)]][row][col],
                     [r \in Rows |-> RowSum(r)][row])]]
          = [row \in {row \in Tile!Rows : Tile!QValid(row)} |-> [col \in Tile!Columns |->
               Tile!Divided([r \in Rows |-> [c \in Columns |-> RowColumn(r, c)]][row][col],
                            [r \in Rows |-> RowSum(r)][row])]]
    BY <1>3, <1>5, <2>1
  <2> QED BY <1>3, <2>2 DEF B!Divide, Tile!Divide
<1>9. [B!Next]_B!vars => [Tile!Next]_Tile!vars
  <2>1. UNCHANGED B!vars => UNCHANGED Tile!vars
    BY DEF B!vars, Tile!vars
  <2> QED BY <1>7, <1>8, <2>1 DEF B!Next, Tile!Next, B!Done, Tile!Done
<1> QED BY <1>1, <1>9, PTL DEF B!Spec, Tile!Spec

(* What an invocation wrote is what the transcribed tile returns.          *)
OutputIsSoftmax ==
  Finished =>
    \A row \in RowsKept, col \in Columns :
      IsSoftmax(oBuf[row][col], scores[row], {key \in Keys : causal => key <= qStart + row})

(* When every invocation has returned, each element of the output is the   *)
(* softmax the oracle computes, for every row of scores for which a shift  *)
(* of zero does no harm after a first tile that overflowed: no barrier,    *)
(* mask, bound or index of attention.comp makes it anything else.          *)
THEOREM OutputsAreRight ==
  ASSUME \A row \in ScoreRows : B!Moderate(row)
  PROVE  Spec => []OutputIsSoftmax
<1>1. \A row \in ScoreRows : Tile!Moderate(row)
  BY DEF B!Moderate, Tile!Moderate, B!Keys, Tile!Keys
<1>2. Tile!Spec => []Tile!MatchesReference
  BY <1>1, ShaderAssumption, SoftmaxAssumption, Tile!MatchesOracle DEF Tile!Keys
<1>3. Tile!MatchesReference => OutputIsSoftmax
  <2> SUFFICES ASSUME Tile!MatchesReference, Finished, NEW row \in RowsKept, NEW col \in Columns
               PROVE  IsSoftmax(oBuf[row][col], scores[row], {key \in Keys : causal => key <= qStart + row})
    BY DEF OutputIsSoftmax
  <2> DEFINE written == [r \in RowsKept |-> [c \in Columns |-> RowOutput(r, c)]]
  <2>1. Writing
    BY SomeInvocation DEF Finished, Writing
  <2>2. row \in Rows /\ qStart + row < SeqQ
    BY DEF RowsKept
  <2>3. Owner(row, col) \in Invocations
    BY <2>2, OwnerOf
  <2>4. written[row][col] = oBuf[row][col]
    BY <2>3 DEF RowOutput, Finished
  <2>5. written # <<>>
    <3>1. DOMAIN written # {}
      OBVIOUS
    <3> QED BY <3>1
  <2>6. Tile!IsSoftmax(written[row][col], scores[row], Tile!Unmasked(row))
    <3>1. row \in Tile!Rows /\ Tile!QValid(row) /\ col \in Tile!Columns
      BY <2>2, TileShape DEF Tile!Rows, Tile!QValid, Tile!Columns, Columns
    <3> QED BY <2>1, <2>5, <3>1 DEF Tile!MatchesReference
  <2>7. Tile!Unmasked(row) = {key \in Keys : causal => key <= qStart + row}
    BY DEF Tile!Unmasked, Tile!Keys, Keys
  <2>8. \A quotient, r, keys : Tile!IsSoftmax(quotient, r, keys) => IsSoftmax(quotient, r, keys)
    BY DEF Tile!IsSoftmax, IsSoftmax, Tile!Zero, Zero, Tile!IsInjective, IsInjective, Tile!Range, Range
  <2> QED BY <2>4, <2>6, <2>7, <2>8
<1> QED BY <1>2, <1>3, TranscribesBlocked, SameTile, PTL DEF ImplementsBlocked
===============================================================================
