------------------------------ MODULE Services ------------------------------
(***************************************************************************)
(* Parts of the server that share no state: shares, the object store, the   *)
(* seed script and effective permissions.  Each behaviour exercises one of  *)
(* them, so that their states are explored side by side and not multiplied. *)
(***************************************************************************)
EXTENDS Shares, ObjectStore, Seed, EffectivePermissions

VARIABLE part       \* the service that this behaviour exercises

Service == {"sharing", "storage", "seeding", "effective"}

vars == <<part, shareVars, storeVars, seedVars, effVars>>

\* The services that are not exercised start in one state.
Init ==
    /\ part \in Service
    /\ ShareInit /\ StoreInit /\ SeedInit /\ EffInit
    /\ part # "sharing" => roles = [u \in User |-> NoRole]
    /\ part # "storage" => driver = "local"
    /\ part # "effective" => /\ parent = [f \in Folder |-> NoFolder] /\ acl = {}
                             /\ call = CHOOSE c \in Call : TRUE

Next ==
    \/ part = "sharing" /\ ShareNext /\ UNCHANGED <<part, storeVars, seedVars, effVars>>
    \/ part = "storage" /\ StoreNext /\ UNCHANGED <<part, shareVars, seedVars, effVars>>
    \/ part = "seeding" /\ SeedNext /\ UNCHANGED <<part, shareVars, storeVars, effVars>>
    \/ part = "effective" /\ EffNext /\ UNCHANGED <<part, shareVars, storeVars, seedVars>>

Spec == Init /\ [][Next]_vars

-----------------------------------------------------------------------------
\* Every service's variables have their types.
TypeOK == ShareTypeOK /\ StoreTypeOK /\ SeedTypeOK /\ EffTypeOK
=============================================================================
