----------------------------- MODULE MCRobotCell -----------------------------
(* Instances of RobotCell: missions whose action is at the end of their        *)
(* segment, and missions that also have one at its start.                      *)
EXTENDS RobotCell

MCHeights == {0, 500}

Stay(p)      == [pointid |-> p, actions |-> << >>]
Do(p, id, h) == [pointid |-> p, actions |-> << [actionid |-> id, actionparam |-> h] >>]
MissionOf(o, key, pts) == [orderid |-> o, missionkey |-> key, points |-> pts,
                           segend |-> pts[2].pointid]

EndMissions ==
    { MissionOf(1, 1, <<Stay(1), Do(2, 11, 500)>>),
      MissionOf(1, 2, <<Stay(2), Do(1, 12, 0)>>),
      MissionOf(1, 3, <<Stay(1), Stay(2)>>) }

StartMissions ==
    { MissionOf(1, 1, <<Stay(1), Stay(2)>>),
      MissionOf(1, 2, <<Do(2, 12, 500), Do(1, 13, 0)>>) }
=============================================================================
