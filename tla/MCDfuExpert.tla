---------------------------- MODULE MCDfuExpert ----------------------------
(***************************************************************************)
(* DfuExpert with blocks of one and two cells.                             *)
(***************************************************************************)
EXTENDS DfuExpert

CONSTANTS X, Y

MCCells == {X, Y}
MCBlocks == {<<X>>, <<Y>>, <<X, Y>>}
=============================================================================
