---------------------------- MODULE ModelRegistry ----------------------------
(***************************************************************************)
(* contracts/src/ModelRegistry.sol.  A model root is bound to a descriptor *)
(* (runtimeRoot, modelManifestHash, assuranceClass).  A deactivated root   *)
(* may be registered again, with another descriptor.                       *)
(***************************************************************************)
EXTENDS PolicyRegistry

CONSTANTS
    Models,       \* nonzero model roots
    Descriptors,  \* values of <<runtimeRoot, modelManifestHash, assuranceClass>>
    Zero          \* the value of an address, root or hash never written

ASSUME ModelAssumption == Zero \notin Models \cup Descriptors

VARIABLE models   \* models: root -> descriptor and active flag

modelVars == <<models>>

ModelTypeOK == models \in [Models -> [descriptor : Descriptors \cup {Zero}, active : BOOLEAN]]

ModelInit == models = [m \in Models |-> [descriptor |-> Zero, active |-> FALSE]]

RegisterModel(m, descriptor) ==
    /\ Authorized("MODEL_ADMIN")
    /\ ~models[m].active
    /\ models' = [models EXCEPT ![m] = [descriptor |-> descriptor, active |-> TRUE]]

DeactivateModel(m) ==
    /\ Authorized("MODEL_ADMIN")
    /\ models[m].active
    /\ models' = [models EXCEPT ![m].active = FALSE]

IsRegisteredModel(m) == models[m].active
=============================================================================
