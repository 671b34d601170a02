---------------------------- MODULE FifoChannel ----------------------------
(***************************************************************************)
(* What reassembly promises: the units one side writes come out whole, in  *)
(* order and once, and all of them do in the end.  How they were cut into  *)
(* transfers does not show.                                                *)
(***************************************************************************)
EXTENDS Integers, Sequences, SequencesExt

CONSTANT Unit     \* packets or messages

VARIABLES
    sent,         \* all units written so far
    delivered     \* all units handed on so far

channelVars == <<sent, delivered>>

Init == sent = <<>> /\ delivered = <<>>

Send == /\ \E u \in Unit : sent' = Append(sent, u)
        /\ UNCHANGED delivered

\* One transfer may complete several units.
Deliver ==
    /\ \E n \in Len(delivered) + 1 .. Len(sent) : delivered' = SubSeq(sent, 1, n)
    /\ UNCHANGED sent

Next == Send \/ Deliver

Spec == Init /\ [][Next]_channelVars /\ WF_channelVars(Deliver)
=============================================================================
