------------------------- MODULE RecoveryOwnership -------------------------
(***************************************************************************)
(* Who may mutate recovery state: an owner, the generation it owns and the *)
(* boot that holds it (include/failure_fabric/recovery.hpp, the class      *)
(* RecoveryOwnership; src/recovery.cpp, adopt and transfer).               *)
(***************************************************************************)
EXTENDS Naturals

RecoveryOwners ==
    {"NONE", "COORDINATOR", "ORIGINAL_WORKER", "REPLACEMENT_WORKER",
     "REPLICA_MANAGER", "STORAGE_SUBSYSTEM", "TRANSFER_SUBSYSTEM",
     "OPERATOR", "EXTERNAL_SYSTEM"}

Ownership(HolderBoots) ==
    [owner : RecoveryOwners, generation : Nat, boot : HolderBoots]

\* The default-constructed ownership; its boot is the null boot.
Unassigned(nullBoot) ==
    [owner |-> "NONE", generation |-> 0, boot |-> nullBoot]

accepts_adopt(o, owner, gen) == owner # "NONE" /\ gen # 0 /\ o.owner = "NONE"

adopt(o, owner, gen, boot) ==
    IF accepts_adopt(o, owner, gen)
    THEN [owner |-> owner, generation |-> gen, boot |-> boot]
    ELSE o

\* Whether the holder of a boot and a generation still owns the recovery.
is_current(o, boot, gen) == boot = o.boot /\ gen = o.generation

\* Mutant: ownership moves to the same or an older generation.
accepts_transfer_any_generation(o, owner, gen) ==
    /\ owner # "NONE" /\ gen # 0

\* Mutant: ownership cannot be taken over before it was adopted.
accepts_transfer_adopted_only(o, owner, gen) ==
    /\ owner # "NONE" /\ gen # 0
    /\ o.owner # "NONE" /\ o.generation < gen

accepts_transfer(o, owner, gen) ==
    \/ accepts_adopt(o, owner, gen)
    \/ owner # "NONE" /\ gen # 0 /\ o.owner # "NONE" /\ o.generation < gen

transfer(o, owner, gen, boot) ==
    IF accepts_transfer(o, owner, gen)
    THEN [owner |-> owner, generation |-> gen, boot |-> boot]
    ELSE o

=============================================================================
