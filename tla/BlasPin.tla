------------------------------- MODULE BlasPin -------------------------------
(* The fused CPU backend (fused.py) pins BLAS to one thread around its GEMMs *)
(* with threadpoolctl, which saves, sets and restores a count that belongs   *)
(* to the whole process.  The backend takes no lock: VulkanAttention calls   *)
(* it from several threads, and so does any user of "fused".                 *)
EXTENDS Naturals

CONSTANTS
  Threads,     \* threads calling the backend
  MaxCores     \* bound: BLAS thread counts the process may have chosen

BlasThreads == 1  \* _BLAS_THREADS

ASSUME BlasAssumption == MaxCores \in Nat /\ MaxCores >= BlasThreads

Counts == 1 .. MaxCores

VARIABLES
  chosen,  \* the count the process runs BLAS with outside the backend
  controls, \* threadpoolctl is installed
  blas,    \* the count BLAS has now
  pc,      \* per thread: where it is in a call
  pinned,  \* per thread: the call pins (more than one GEMM slice)
  saved    \* per thread: the count threadpool_limits will restore

vars == <<chosen, controls, blas, pc, pinned, saved>>

Computing == {"weights", "product", "gradients"}

Init ==
  /\ chosen \in Counts /\ blas = chosen
  /\ controls \in BOOLEAN
  /\ pc = [t \in Threads |-> "idle"]
  /\ pinned = [t \in Threads |-> FALSE]
  /\ saved = [t \in Threads |-> BlasThreads]

Goto(t, label) == pc' = [pc EXCEPT ![t] = label]

(* A call that passed validate_inputs; the context is entered.  A single     *)
(* slice is not pinned.                                                      *)
Call(t, slices) ==
  LET pin == slices > 1 /\ controls IN
  /\ pc[t] = "idle"
  /\ pinned' = [pinned EXCEPT ![t] = pin]
  /\ Goto(t, IF pin THEN "save" ELSE "weights")
  /\ UNCHANGED <<chosen, controls, blas, saved>>

(* threadpool_limits records the count it finds, then sets its own.          *)
Save(t) ==
  /\ pc[t] = "save"
  /\ saved' = [saved EXCEPT ![t] = blas]
  /\ Goto(t, "pin")
  /\ UNCHANGED <<chosen, controls, blas, pinned>>

(* Mutant: the context is entered without setting a count.                   *)
PinNothing(t) ==
  /\ pc[t] = "pin"
  /\ Goto(t, "weights")
  /\ UNCHANGED <<chosen, controls, blas, pinned, saved>>

Pin(t) ==
  /\ pc[t] = "pin"
  /\ blas' = BlasThreads
  /\ Goto(t, "weights")
  /\ UNCHANGED <<chosen, controls, pinned, saved>>

Leave(t) == Goto(t, IF pinned[t] THEN "restore" ELSE "idle")

(* The attention weights; then the product with value (forward), or the      *)
(* shape check of grad_output and the gradients (backward).                  *)
Weights(t, next) ==
  /\ pc[t] = "weights" /\ next \in {"product", "gradients"}
  /\ Goto(t, next)
  /\ UNCHANGED <<chosen, controls, blas, pinned, saved>>

Product(t) ==
  pc[t] = "product" /\ Leave(t) /\ UNCHANGED <<chosen, controls, blas, pinned, saved>>
Gradients(t) ==
  pc[t] = "gradients" /\ Leave(t) /\ UNCHANGED <<chosen, controls, blas, pinned, saved>>

(* An exception inside the context leaves it: shapes that do not broadcast,  *)
(* no keys, a gradient of the wrong shape, no memory for the arrays.         *)
Raise(t) ==
  /\ pc[t] \in Computing
  /\ Leave(t)
  /\ UNCHANGED <<chosen, controls, blas, pinned, saved>>

(* Mutant: restores the default of the process, not what was found.          *)
RestoreChosen(t) ==
  /\ pc[t] = "restore"
  /\ blas' = chosen
  /\ pinned' = [pinned EXCEPT ![t] = FALSE] /\ saved' = [saved EXCEPT ![t] = BlasThreads]
  /\ Goto(t, "idle")
  /\ UNCHANGED <<chosen, controls>>

(* The count saved and the flag are the call's own, and go with it.          *)
Restore(t) ==
  /\ pc[t] = "restore"
  /\ blas' = saved[t]
  /\ pinned' = [pinned EXCEPT ![t] = FALSE] /\ saved' = [saved EXCEPT ![t] = BlasThreads]
  /\ Goto(t, "idle")
  /\ UNCHANGED <<chosen, controls>>

Next ==
  \E t \in Threads :
    \/ \E slices \in {1, 2} : Call(t, slices)
    \/ Save(t) \/ Pin(t) \/ \E next \in {"product", "gradients"} : Weights(t, next)
    \/ Product(t) \/ Gradients(t) \/ Raise(t) \/ Restore(t)

Spec == Init /\ [][Next]_vars

-----------------------------------------------------------------------------
(* "Pin BLAS to one thread for the duration of the context" (fused.py:131):  *)
(* every GEMM of a pinned call runs on one BLAS thread.                      *)
PinnedThroughout ==
  \A t \in Threads : pc[t] \in Computing /\ pinned[t] => blas = BlasThreads

(* The pin does not outlive the calls that asked for it: when no call is     *)
(* running, BLAS has the count the process chose.                            *)
RestoredAfterwards ==
  (\A t \in Threads : pc[t] = "idle") => blas = chosen
=============================================================================
