----------------------------- MODULE MCDCOSStore -----------------------------
(***************************************************************************)
(* DCOSStore for TLC: one deployment, which affects every service.          *)
(***************************************************************************)
EXTENDS DCOSStore, TLC

MCDeployment == {Service}

Symmetry == UNION {Permutations(set) : set \in {Service, Version, Listener, Snapshot}}
=============================================================================
