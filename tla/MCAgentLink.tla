----------------------------- MODULE MCAgentLink -----------------------------
(* Instances of AgentLink: messages of every kind the Agent answers or shows,  *)
(* a map of one point, and runs of bytes that are no message.                  *)
EXTENDS AgentLink

Msg(t, b) == [type |-> t, body |-> b]

\* The position of code 1 is on the map, that of code 0 is not; the registration
\* holds the bytes of a prefix.
MCRequests ==
    { Msg(SESSION_REGISTER_INFO, <<5>>), Msg(AGV_REGISTER_REQUEST, <<254, 254>>),
      Msg(INIT_POS_REQ, <<1, 30>>), Msg(INIT_POS_REQ, <<0, 31>>),
      Msg(HEART_BEAT, <<0>>), Msg(AGV_RT_STATUS, <<7>>), Msg(AGV_RT_STATUS, <<8>>) }

\* The header of the table reads as code 0; code 1 has two lines.
Line(c, t) == [code |-> c, tenths |-> t]
MCMapLines == << Line(0, 0), Line(1, 380), Line(3, 90), Line(1, 405) >>

NoNoise     == {}

\* Junk, a lone prefix byte, a header whose length is below 6.
AnyNoise  == { <<9>>, <<254>>, <<254, 254, 0, 3, 0, 7>> }
\* No prefix, and no prefix with the message that follows.
LoneNoise == { <<254, 9>> }
=============================================================================
