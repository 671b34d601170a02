---------------------------- MODULE MCUsbCapture ----------------------------
(***************************************************************************)
(* Small instances of UsbCapture: two devices, two outstanding transfers.  *)
(***************************************************************************)
EXTENDS UsbCapture, TLC

CONSTANTS Header, A, B, X, i1, i2

\* Nothing tells two identifiers apart but that they differ.
MCIds == {i1, i2}
Symmetry == Permutations(MCIds)

MCCells == {Header, A, B, X}
MCPayloads == {<<>>, <<X>>}

\* A control request in each direction, with a data stage.
MCRequests == {[in |-> TRUE, deviceRead |-> FALSE, wLength |-> 1],
               [in |-> FALSE, deviceRead |-> FALSE, wLength |-> 1]}
=============================================================================
