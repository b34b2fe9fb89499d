----------------------------- MODULE MCInjector -----------------------------
(* Two runs of the loader program, in any overlap.                           *)
EXTENDS Injector, TLC

CONSTANTS first, second
MCRuns     == {first, second}
MCSymmetry == Permutations(MCRuns)
=============================================================================
