------------------------------ MODULE MCVersions ------------------------------
(* Instances of ProcessVersions for TLC. *)
EXTENDS ProcessVersions, TLC

Sym == Permutations(Requests)
ContentSym == Permutations(Contents)

AllCalls == {"createProcess", "deleteProcess", "getProcess", "saveProcess",
             "shareProcess", "createRobot", "createProcessVersion",
             "restoreProcessVersion", "deleteProcessVersion"}
KeepingCalls == AllCalls \ {"deleteProcess", "deleteProcessVersion"}
=============================================================================
