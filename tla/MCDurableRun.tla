---------------------------- MODULE MCDurableRun ----------------------------
(* Instances of DurableRun for TLC.                                         *)
EXTENDS DurableRun, TLC

OneKeyPerCall == [c \in Calls |-> c]
OneKey == [c \in Calls |-> CHOOSE k \in Keys : TRUE]

AskAll == [k \in Keys |-> "none"]
AllowOne == [k \in Keys |-> IF k = (CHOOSE j \in Keys : TRUE) THEN "allow" ELSE "none"]

CallSymmetry == Permutations(Calls)
=============================================================================
