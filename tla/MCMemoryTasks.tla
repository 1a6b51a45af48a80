--------------------------- MODULE MCMemoryTasks ---------------------------
EXTENDS MemoryTasks, FiniteSets, TLC

Lists(p) == Cardinality(p.addBlockedBy) + Cardinality(p.removeBlockedBy)

(* Patches that change the status, or the owner, or one dependency. *)
SomePatches ==
  {p \in Board!AllPatches :
     /\ Aligned(p)
     /\ \/ p.status = None /\ p.owner = None /\ Lists(p) <= 1
        \/ Lists(p) = 0 /\ None \in {p.status, p.owner}
        \/ Lists(p) = 1 /\ p.status = "completed" /\ p.owner = None}

OwnerSymmetry == Permutations(Owners)
=============================================================================
