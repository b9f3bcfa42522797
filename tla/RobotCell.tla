------------------------------ MODULE RobotCell ------------------------------
(***************************************************************************)
(* The virtual IMR with the P40 it steers: signals go through the queue of *)
(* the Agent's thread and its TCP connection to the P40, statuses come back*)
(* the same way and are dispatched by the GUI thread, from exec() or from  *)
(* inside a wait.  The P40 itself is external: it carries out its commands *)
(* in order, and reports where it is from time to time.                    *)
(***************************************************************************)
EXTENDS VirtualRobot

CONSTANTS
    MaxStatus     \* bound: statuses under way to the GUI thread

ASSUME StatusAssumption == MaxStatus \in Nat \ {0}
\* Stop and reconnection are left to the runs of VirtualRobot.
ASSUME CellInputs == Inputs \subseteq {"setting", "drop"}

VARIABLES
    place, height,   \* where the P40 is (0: between two points), its load height
    command,         \* << >> or the one command it is carrying out
    statuses         \* statuses queued for the GUI thread

p40Vars  == <<place, height, command>>
robotVars == <<ctrl, globalVar, task_Imr, ImrSta, hight, stack, i, idParam, received, hist>>
cellVars == <<vars, p40Vars, statuses>>

CellInit ==
    /\ Init
    /\ place \in PointIds /\ height \in Heights /\ command = << >> /\ statuses = << >>

-----------------------------------------------------------------------------
(* The P40.                                                                *)

Current == command[1]

Take ==
    /\ command = << >> /\ outbox # << >>
    /\ command' = <<Head(outbox)>> /\ outbox' = Tail(outbox)
    /\ UNCHANGED <<robotVars, place, height, statuses>>

\* A move ends when the P40 is at its end; on the way it is at no point.
Depart ==
    /\ command # << >> /\ Current.kind = "aim" /\ place \notin {0, Current.to}
    /\ place' = 0
    /\ UNCHANGED <<vars, height, command, statuses>>

Reach ==
    /\ command # << >> /\ Current.kind = "aim" /\ place \in {0, Current.to}
    /\ place' = Current.to /\ command' = << >>
    /\ UNCHANGED <<vars, height, statuses>>

DoLift ==
    /\ command # << >> /\ Current.kind = "lift"
    /\ height' = Current.height /\ command' = << >>
    /\ UNCHANGED <<vars, place, statuses>>

Publish ==
    /\ Len(statuses) < MaxStatus
    /\ statuses' = Append(statuses, [place |-> place, height |-> height])
    /\ UNCHANGED <<vars, p40Vars>>

P40 == Take \/ Depart \/ Reach \/ DoLift

\* The queued rtStatus reaches VirtualPanel, which calls linkP40_pos.
Dispatch ==
    /\ statuses # << >>
    /\ LinkP40(Head(statuses).place, Head(statuses).height)
    /\ statuses' = Tail(statuses)
    /\ UNCHANGED p40Vars

-----------------------------------------------------------------------------
Robot(A) == A /\ UNCHANGED <<p40Vars, statuses>>

\* The operator sets the point the P40 stands at.
Localise == place \in PointIds /\ Robot(SettingButton(place))

CellNext == \/ Robot(ReceiveAT) \/ Robot(Handler) \/ Robot(Timeout)
            \/ Robot(SendStButton) \/ Robot(SendRgButton)
            \/ Robot(ConnectOn) \/ Robot(LinkLost) \/ Localise
            \/ P40 \/ Publish \/ Dispatch

\* The GUI thread runs: code between two waits goes on, pending events are
\* dispatched (processEvents and exec() take them all), a running timer fires.
\* The P40 carries out its commands and keeps reporting.
CellFairness ==
    /\ WF_cellVars(Robot(Handler)) /\ WF_cellVars(Dispatch) /\ WF_cellVars(Robot(Timeout))
    /\ WF_cellVars(P40) /\ WF_cellVars(Publish)

CellSpec == CellInit /\ [][CellNext]_cellVars /\ CellFairness

-----------------------------------------------------------------------------
(* Properties.                                                             *)

CellTypeOK ==
    /\ TypeOK /\ place \in Place /\ height \in Int
    /\ command \in Seq(Signal) /\ Len(command) <= 1
    /\ statuses \in Seq([place : Place, height : Int])

\* The P40 lifts where the mission says, not where a later aim has taken it.
LiftAtPoint ==
    [][DoLift => place = Current.to]_cellVars

\* What an accepted mission asks for is triggered once the robot gets there
\* (src/README.md:117), unless the process has died.
ActionsTriggered ==
    \A m \in Missions : \A k \in ActionPoints(m) :
        <<m, k>> \in owed ~> (<<m, k>> \notin owed \/ ~alive)

\* A handler waiting inside an AT frame returns, and its slot with it once it has read
\* the frames there are, so that the event loop of main runs again.
HandlerReturns == stack # << >> ~> (stack = << >> \/ ~alive)

\* A completion reaches a status frame while the timer runs.
CompletionsSent ==
    timer /\ ImrSta.actionstates # << >> ~> (Len(sent) = Len(done) \/ ~alive)
=============================================================================
