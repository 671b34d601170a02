---------------------------- MODULE MCMuxStream ----------------------------
(***************************************************************************)
(* MuxStream with a short and a long property list, one of each signature, *)
(* and raw data that begins like a message, like no message, and like the  *)
(* inside of a property list.                                              *)
(***************************************************************************)
EXTENDS MuxStream

MCSignatures == {<<71, 72>>, <<81, 82>>}
MCBodies == {<<71, 72>>, <<81, 82, 160, 3>>}
MCRawWords == {<<0>>, <<3, 70, 0, 0>>, <<90, 71, 72>>, <<1, 71>>}
MCTlsWords == {160}
=============================================================================
