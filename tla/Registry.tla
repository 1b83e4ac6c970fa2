------------------------------ MODULE Registry ------------------------------
(***************************************************************************)
(* The backends of the process by name (dispatch.py), from the import of   *)
(* the package on.  Registering is a check and then a store, in whichever  *)
(* thread does it; "auto" is not in the registry, it picks a backend from  *)
(* it on every call.                                                       *)
(***************************************************************************)
EXTENDS Naturals

CONSTANTS
  Registrars,        \* threads that register backends while others use them
  Plugins,           \* backends of other packages
  TrainablePlugins,  \* those that have a callable backward
  PluginNames,       \* names they are registered under
  MaxRegistrations   \* bound: calls of register_backend

ASSUME RegistryAssumption ==
  /\ TrainablePlugins \subseteq Plugins /\ MaxRegistrations \in Nat
  /\ Plugins \cap {"reference", "fused", "vulkan"} = {}

(* The backends of the package are called what they are registered as;     *)
(* the two on the CPU have a backward pass.                                *)
Trainable == {"reference", "fused"} \cup TrainablePlugins
Reserved == {"auto"}

VARIABLES
  hasDevice,      \* detection finds a device that can compute, and no opt-out is set
  registry,       \* _REGISTRY
  registering,    \* per registrar: the call it is in, or NotRegistering
  registrations   \* calls of register_backend made so far

registryVars == <<hasDevice, registry, registering, registrations>>

NotRegistering == [name |-> "", backend |-> ""]

(* The import registers the CPU backends, and "vulkan" where it can.       *)
RegistryInit ==
  /\ hasDevice \in BOOLEAN
  /\ registry = [name \in {"reference", "fused"} \cup (IF hasDevice THEN {"vulkan"} ELSE {}) |-> name]
  /\ registering = [r \in Registrars |-> NotRegistering]
  /\ registrations = 0

(* A name that is reserved or, without overwrite, already there is refused *)
(* and nothing changes; registrations is the model's own.                  *)
LookUp(r, name, backend, overwrite) ==
  /\ registering[r] = NotRegistering /\ registrations < MaxRegistrations
  /\ registrations' = registrations + 1
  /\ IF name \in Reserved \/ (name \in DOMAIN registry /\ ~overwrite)
       THEN UNCHANGED registering
       ELSE registering' = [registering EXCEPT ![r] = [name |-> name, backend |-> backend]]
  /\ UNCHANGED <<hasDevice, registry>>

RegisterBackend(r) ==
  \E name \in PluginNames, backend \in Plugins, overwrite \in BOOLEAN :
    LookUp(r, name, backend, overwrite)

(* register_vulkan_backend: the opt-out and the probe come first.          *)
RegisterVulkan(r) ==
  hasDevice /\ \E overwrite \in BOOLEAN : LookUp(r, "vulkan", "vulkan", overwrite)

Store(r) ==
  LET entry == registering[r] IN
  /\ entry # NotRegistering
  /\ registry' = [name \in DOMAIN registry \cup {entry.name} |->
                    IF name = entry.name THEN entry.backend ELSE registry[name]]
  /\ registering' = [registering EXCEPT ![r] = NotRegistering]
  /\ UNCHANGED <<hasDevice, registrations>>

(* _auto_select, given whether the query is batched.                       *)
AutoSelect(batched) ==
  IF "fused" \in DOMAIN registry /\ batched THEN registry["fused"] ELSE registry["reference"]
=============================================================================
