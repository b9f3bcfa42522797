--------------------------- MODULE MCVirtualRobot ---------------------------
(* Small instances of VirtualRobot for TLC: a map of three points, loads at  *)
(* height 0 or 500 and missions that differ in order, key, joint and actions.*)
EXTENDS VirtualRobot

MCHeights == {0, 500}

Act(id, h)        == << [actionid |-> id, actionparam |-> h] >>
Stay(p)           == [pointid |-> p, actions |-> << >>]
Do(p, id, h)      == [pointid |-> p, actions |-> Act(id, h)]
MissionOf(o, key, pts) == [orderid |-> o, missionkey |-> key, points |-> pts,
                           segend |-> pts[2].pointid]

\* One order of three keys, then another order whose mission has an action too.
ShuttleMissions ==
    { MissionOf(1, 1, <<Stay(1), Do(2, 11, 500)>>),
      MissionOf(1, 2, <<Stay(2), Do(1, 12, 0)>>),
      MissionOf(2, 1, <<Stay(2), Do(1, 21, 0)>>) }

\* A single order: no action, an action at the end, at both ends.
OrderMissions ==
    { MissionOf(1, 1, <<Stay(1), Do(2, 11, 500)>>),
      MissionOf(1, 2, <<Do(2, 12, 500), Do(1, 13, 0)>>),
      MissionOf(1, 3, <<Stay(1), Stay(2)>>) }
=============================================================================
