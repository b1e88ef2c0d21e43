-------------------------- MODULE MCNoelleRuntime --------------------------
EXTENDS NoelleRuntime

AllTechniques == {"DOALL", "HELIX", "DSWP"}

(* DOALL loops inside any loop, and two loops inside others whose tasks    *)
(* the dispatcher does not run itself.                                     *)
MixedNests == (AllTechniques \X {"DOALL"}) \union {<<"DOALL", "HELIX">>, <<"HELIX", "DSWP">>}
=============================================================================
