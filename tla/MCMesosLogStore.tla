--------------------------- MODULE MCMesosLogStore ---------------------------
(***************************************************************************)
(* MesosLogStore for TLC: a plain file, and one that begins with a          *)
(* two-byte character.                                                     *)
(***************************************************************************)
EXTENDS MesosLogStore

CONSTANTS plain, accented

MCWide == [p \in Path |-> IF p = accented THEN {0} ELSE {}]
=============================================================================
