--------------------------- MODULE MCAgentCommands ---------------------------
(* An instance of AgentCommands: the calls of the panel, and the signals of    *)
(* the virtual IMR between neighbouring points of the map.                     *)
EXTENDS AgentCommands

Origin  == [x |-> 0, y |-> 0]
P(a, b) == [x |-> a, y |-> b]
Panel(k, v)     == [kind |-> k, n |-> v, orderId |-> 0, missionKey |-> 0,
                    from |-> Origin, to |-> Origin]
Imr(k, v, f, t) == [kind |-> k, n |-> v, orderId |-> 1, missionKey |-> 100,
                    from |-> f, to |-> t]

MCCalls ==
    { Panel("forward", 1), Panel("forward", 2), Panel("turn", 1), Panel("turn", 3),
      Panel("lift", 500), Panel("put", 0), Panel("charge", 0), Panel("uncharge", 0),
      Panel("move", 0), Panel("clear", 0),
      Imr("aim", 0, P(1600, 800), P(1600, 1600)), Imr("aim", 0, P(1600, 800), P(800, 800)),
      Imr("aim", 0, P(800, 800), P(800, 0)), Imr("aim", 0, P(800, 800), P(1600, 800)),
      Imr("rcslift", 500, P(800, 800), P(800, 800)) }

MCStarts == { [x |-> 1600, y |-> 800, directionid |-> d] : d \in Heading }
=============================================================================
