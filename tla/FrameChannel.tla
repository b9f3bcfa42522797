---------------------------- MODULE FrameChannel ----------------------------
(***************************************************************************)
(* What the robot's connection promises: every message the robot has sent  *)
(* is handled once, in the order of sending, and each one is handled in    *)
(* the end.                                                                *)
(***************************************************************************)
EXTENDS Naturals, Sequences

CONSTANT Messages    \* what a robot may send

VARIABLES sent, handled    \* the messages sent, and those handled

chan == <<sent, handled>>

Init == sent = << >> /\ handled = << >>

Send(m) == sent' = Append(sent, m) /\ UNCHANGED handled

Handle ==
    /\ Len(handled) < Len(sent)
    /\ handled' = Append(handled, sent[Len(handled) + 1])
    /\ UNCHANGED sent

Next == Handle \/ \E m \in Messages : Send(m)
Spec == Init /\ [][Next]_chan /\ WF_chan(Handle)
=============================================================================
