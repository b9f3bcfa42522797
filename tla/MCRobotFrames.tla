---------------------------- MODULE MCRobotFrames ----------------------------
(* An instance of RobotFrames: messages that hold the bytes of a prefix and of a  *)
(* tail, and disturbances that leave the parser in each of its states.            *)
EXTENDS RobotFrames

MCRequests == << [type |-> AT, msg |-> <<2>>], [type |-> <<79, 80>>, msg |-> << >>],
                 [type |-> AT, msg |-> <<84, 2>>] >>

Whole == Frame([type |-> AT, msg |-> << >>])
Flip(f, k) == [f EXCEPT ![k] = Xor(@, 1)]

\* A lone prefix, a cut header, a header without its body; a frame with a wrong
\* header, body or tail.
MCNoises == { <<2>>, SubSeq(Whole, 1, 5), SubSeq(Whole, 1, 8),
              Flip(Whole, 7), Flip(Whole, 10), Flip(Whole, 13) }
=============================================================================
