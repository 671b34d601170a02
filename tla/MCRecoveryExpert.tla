-------------------------- MODULE MCRecoveryExpert --------------------------
(***************************************************************************)
(* RecoveryExpert with chunks of no, one and two cells.                    *)
(***************************************************************************)
EXTENDS RecoveryExpert

CONSTANTS X, Y

MCCells == {X, Y}
MCChunks == {<<>>, <<X>>, <<X, Y>>}
=============================================================================
