---------------------------- MODULE MCModuleLoader ----------------------------
(* Three modules, every way they can require each other or a missing one.    *)
EXTENDS ModuleLoader, TLC

CONSTANTS m1, m2, m3
MCModules == {m1, m2, m3}
MCSymmetry == Permutations(MCModules)
===============================================================================
