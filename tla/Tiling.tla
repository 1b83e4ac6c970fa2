------------------------------- MODULE Tiling -------------------------------
(***************************************************************************)
(* How a tile shape is chosen and launched: the limits a Vulkan device     *)
(* reports (vkcompute.py, _tile_limits_of), the search for a shape that    *)
(* fits them (tiling.py, candidate_plans, plan_tiles, tile_plan_for) and   *)
(* the numbers the attention shader is specialized with (vkattention.py,   *)
(* attention_launch), against the arrays and the columns the shader itself *)
(* uses (shaders/attention.comp).  Every number is the program's own.      *)
(* One step is one iteration of the search, so its two early breaks are    *)
(* steps like any other.                                                   *)
(***************************************************************************)
EXTENDS TileLayout, SequencesExt

CONSTANTS
  Devices,     \* what physical devices report: [shared, invocations, sizeX, sizeY]
  HeadDims,    \* head dimensions requested
  DtypeSizes,  \* bytes of one element of the compute dtype
  SeqLens,     \* query and key sequence lengths
  Stacks,      \* slices of one dispatch
  TileShapes,  \* shapes <<block_q, block_k>> a caller may name
  Nil

ASSUME TilingAssumption ==
  /\ Devices \subseteq [shared: Nat, invocations: Nat, sizeX: Nat, sizeY: Nat]
  /\ HeadDims \cup DtypeSizes \cup SeqLens \cup Stacks \subseteq Nat \ {0}
  /\ TileShapes \subseteq (Nat \ {0}) \X (Nat \ {0})
  /\ \A d \in Devices : d.invocations <= 2^30   \* the powers of two that
  /\ \A len \in SeqLens : len <= 2^30           \* PowersOfTwo goes up to

SUBGROUP_WIDTH_FALLBACK == 16
MAX_GROUPS_PER_AXIS == 65535
KERNEL_DTYPE_BYTES == 4

VARIABLES
  device,   \* what the chosen physical device reports
  limits,   \* the DeviceLimits made from it, or Nil
  request,  \* head_dim, dtype_bytes, stack, seq_q, seq_k, and whether the
            \* search is told the lengths; or Nil
  block_q, block_k,  \* the shape the search looks at
  plans,    \* the shapes found, as <<block_q, block_k>>
  plan,     \* the shape chosen, or Nil
  launch,   \* what the dispatch is parameterized by, or Nil
  at        \* where the caller is

vars == <<device, limits, request, block_q, block_k, plans, plan, launch, at>>

PowersOfTwo == {2^e : e \in 0..30}

(* Mutant: rounds a length down, so a cap is below the sequence.           *)
PowerOfTwoBelow(value) ==
  CHOOSE p \in PowersOfTwo :
    p <= value /\ \A larger \in PowersOfTwo : larger <= value => larger <= p

NextPowerOfTwo(value) ==
  CHOOSE p \in PowersOfTwo :
    /\ p >= value
    /\ \A smaller \in PowersOfTwo : smaller >= value => p <= smaller

(* The two checks of tile_plan_for, which the search makes as its breaks.  *)
FitsFor(r, bq, bk) ==
  /\ bq * bk <= limits.max_threads
  /\ SharedMemoryBytesFor(bq, bk, r.head_dim, r.dtype_bytes) <= limits.shared

Fits(bq, bk) == FitsFor(request, bq, bk)

Cap(seq_len) ==
  IF request.hinted THEN Min({limits.max_threads, NextPowerOfTwo(seq_len)})
                    ELSE limits.max_threads

Rank(shape) == <<shape[1] * shape[2], shape[2], shape[1]>>

(* Python compares the rank tuples component by component.                 *)
Above(a, b) ==
  \E i \in 1..3 : a[i] > b[i] /\ \A j \in 1..(i - 1) : a[j] = b[j]

Preferred(shape, other) == Above(Rank(shape), Rank(other))

(* list.sort is stable: a shape found twice keeps its order.               *)
Place(i) ==
  Cardinality({j \in DOMAIN plans : \/ Preferred(plans[j], plans[i])
                                    \/ plans[j] = plans[i] /\ j <= i})

Ranked == [n \in DOMAIN plans |-> plans[CHOOSE i \in DOMAIN plans : Place(i) = n]]

Init ==
  /\ device \in Devices
  /\ limits = Nil /\ request = Nil /\ plan = Nil /\ launch = Nil
  /\ block_q = 1 /\ block_k = 1 /\ plans = <<>>
  /\ at = "opening"

Usable == \A member \in {"shared", "invocations", "sizeX", "sizeY"} : device[member] > 0

(* Mutant: forgets the two axes.                                           *)
ThreadsOfTheGroup == device.invocations

Threads == Min({device.invocations, device.sizeX, device.sizeY})

TileLimitsOf ==
  /\ at = "opening" /\ Usable /\ Threads >= SUBGROUP_WIDTH_FALLBACK
  /\ limits' = [shared |-> device.shared, max_threads |-> Threads,
                simd_width |-> SUBGROUP_WIDTH_FALLBACK]
  /\ at' = "open"
  /\ UNCHANGED <<device, request, block_q, block_k, plans, plan, launch>>

(* A limit of zero is a VulkanError; a group narrower than the assumed     *)
(* subgroup is refused by DeviceLimits itself, with a ValueError.          *)
LimitsRefused ==
  /\ at = "opening" /\ (~Usable \/ Threads < SUBGROUP_WIDTH_FALLBACK)
  /\ at' = IF Usable THEN "ValueError" ELSE "VulkanError"
  /\ UNCHANGED <<device, limits, request, block_q, block_k, plans, plan, launch>>

Requests ==
  [head_dim: HeadDims, dtype_bytes: DtypeSizes, stack: Stacks,
   seq_q: SeqLens, seq_k: SeqLens, hinted: BOOLEAN]

StartSearch ==
  /\ at = "open"
  /\ request' \in Requests
  /\ at' = "searching"
  /\ UNCHANGED <<device, limits, block_q, block_k, plans, plan, launch>>

QCap == Cap(request.seq_q)
KCap == Cap(request.seq_k)

Consider ==
  /\ at = "searching" /\ block_q <= QCap /\ block_k <= KCap
  /\ Fits(block_q, block_k)
  /\ plans' = Append(plans, <<block_q, block_k>>)
  /\ block_k' = 2 * block_k
  /\ UNCHANGED <<device, limits, request, block_q, plan, launch, at>>

(* Mutant: starts the next row where the last one ended.                   *)
NextRowKeepingColumn ==
  /\ at = "searching" /\ block_q <= QCap
  /\ block_k > KCap \/ ~Fits(block_q, block_k)
  /\ block_q' = 2 * block_q
  /\ UNCHANGED <<device, limits, request, block_k, plans, plan, launch, at>>

(* The inner loop ends, at its last power of two or at a break.            *)
NextRow ==
  /\ at = "searching" /\ block_q <= QCap
  /\ block_k > KCap \/ ~Fits(block_q, block_k)
  /\ block_q' = 2 * block_q /\ block_k' = 1
  /\ UNCHANGED <<device, limits, request, plans, plan, launch, at>>

SortPlans ==
  /\ at = "searching" /\ block_q > QCap
  /\ plans' = Ranked
  /\ at' = "ranked"
  /\ UNCHANGED <<device, limits, request, block_q, block_k, plan, launch>>

PlanTiles ==
  /\ at = "ranked"
  /\ IF plans = <<>> THEN at' = "TileSizingError" /\ UNCHANGED plan
                     ELSE at' = "planned" /\ plan' = Head(plans)
  /\ UNCHANGED <<device, limits, request, block_q, block_k, plans, launch>>

(* A caller names the shape instead; its head dimension and lengths are    *)
(* the request's, and the shape is held to the same two limits.            *)
TilePlanFor ==
  /\ at = "open"
  /\ \E shape \in TileShapes, r \in {r \in Requests : ~r.hinted} :
       /\ request' = r
       /\ IF {shape[1], shape[2]} \subseteq PowersOfTwo /\ FitsFor(r, shape[1], shape[2])
            THEN at' = "planned" /\ plan' = shape
            ELSE /\ at' = IF {shape[1], shape[2]} \subseteq PowersOfTwo THEN "TileSizingError"
                          ELSE "ValueError"
                 /\ UNCHANGED plan
  /\ UNCHANGED <<device, limits, block_q, block_k, plans, launch>>

Groups == <<CeilDiv(request.seq_q, plan[1]), request.stack, 1>>

AttentionLaunch ==
  /\ at = "planned"
  /\ IF /\ request.dtype_bytes = KERNEL_DTYPE_BYTES
        /\ \A axis \in 1..2 : Groups[axis] <= MAX_GROUPS_PER_AXIS
       THEN /\ at' = "launched"
            /\ launch' = [constants |-> Specialized(plan, request.head_dim),
                          groups |-> Groups]
       ELSE at' = "ValueError" /\ UNCHANGED launch
  /\ UNCHANGED <<device, limits, request, block_q, block_k, plans, plan>>

Ends == {"launched", "ValueError", "VulkanError", "TileSizingError"}
Done == at \in Ends /\ UNCHANGED vars

Next ==
  \/ TileLimitsOf \/ LimitsRefused
  \/ StartSearch \/ Consider \/ NextRow \/ SortPlans \/ PlanTiles
  \/ TilePlanFor
  \/ AttentionLaunch
  \/ Done

Spec == Init /\ [][Next]_vars

-----------------------------------------------------------------------------
(* Every shape that fits the device, found without any loop.               *)
Legal(qs, ks) == {shape \in qs \X ks : Fits(shape[1], shape[2])}
BlocksUpto(cap) == {p \in PowersOfTwo : p <= cap}

(* candidate_plans stops a row at the first shape that does not fit and    *)
(* still lists every shape that fits, once: what the two breaks skip would *)
(* not have fitted either.                                                 *)
SearchMissesNothing ==
  at = "ranked" =>
    /\ ToSet(plans) = Legal(BlocksUpto(QCap), BlocksUpto(KCap))
    /\ Len(plans) = Cardinality(ToSet(plans))

(* The caps taken from the sequence lengths cost nothing: any shape the    *)
(* device allows has a candidate that covers the sequences in as few       *)
(* query tiles and as few passes over the keys, in no more shared memory.  *)
CappingCostsNoPass ==
  at = "ranked" =>
    \A wide \in Legal(BlocksUpto(limits.max_threads), BlocksUpto(limits.max_threads)) :
      \E shape \in ToSet(plans) :
        /\ CeilDiv(request.seq_q, shape[1]) <= CeilDiv(request.seq_q, wide[1])
        /\ CeilDiv(request.seq_k, shape[2]) <= CeilDiv(request.seq_k, wide[2])
        /\ shape[1] <= wide[1] /\ shape[2] <= wide[2]

(* A launch is one the device accepts: its workgroup is within the         *)
(* reported size of each axis and within the invocations of a group, the   *)
(* arrays the shader declares fit the reported shared memory, and the      *)
(* workgroup counts are within what Vulkan guarantees.                     *)
DispatchIsLegal ==
  at = "launched" =>
    LET k == launch.constants IN
    /\ k.local_size_x <= device.sizeX /\ k.local_size_y <= device.sizeY
    /\ k.local_size_x * k.local_size_y <= device.invocations
    /\ SharedBytesDeclared(k) <= device.shared
    /\ \A axis \in 1..2 : launch.groups[axis] \in 1..MAX_GROUPS_PER_AXIS

(* Every element of the output is written by exactly one invocation: the   *)
(* workgroups cover the query rows without an idle one, and the lanes of a *)
(* row own each column once, within the accumulators they were given.      *)
EveryOutputOnce ==
  at = "launched" =>
    LET k == launch.constants
        owned == UNION {{lane} \X OwnedColumns(k, lane) : lane \in 0..(k.local_size_x - 1)}
    IN
    /\ (launch.groups[1] - 1) * k.BLOCK_Q < request.seq_q
    /\ request.seq_q <= launch.groups[1] * k.BLOCK_Q
    /\ {o[2] : o \in owned} = 0..(k.HEAD_DIM - 1)
    /\ Cardinality(owned) = k.HEAD_DIM
=============================================================================
