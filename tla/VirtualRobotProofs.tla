------------------------- MODULE VirtualRobotProofs -------------------------
(***************************************************************************)
(* What VirtualRobot guarantees for every map, every set of missions, every*)
(* tolerance and every nesting of handlers.                                *)
(***************************************************************************)
EXTENDS VirtualRobot, SequenceTheorems, FiniteSetTheorems, TLAPS

-----------------------------------------------------------------------------
(* Facts about missions and signals.                                       *)

\* What the assumption on Missions says of one mission and of its points.
LEMMA MissionFacts ==
    ASSUME NEW m \in Missions
    PROVE  /\ m \in Mission /\ m.orderid \in Nat \ {0} /\ m.missionkey \in Nat
           /\ m.points \in Seq(Point) /\ Len(m.points) \in Nat /\ Len(m.points) >= 2
           /\ m.segend \in Place /\ m # Mission0
BY MissionAssumption DEF Mission, Mission0

\* A point that has an action names it with an integer height.
LEMMA ActionFacts ==
    ASSUME NEW m \in Missions, NEW k \in ActionPoints(m)
    PROVE  /\ k \in 1..Len(m.points)
           /\ m.points[k].pointid \in PointIds
           /\ m.points[k].actions[1] \in Action
           /\ m.points[k].actions[1].actionparam \in Int
<1>1. m.points \in Seq(Point) /\ k \in 1..Len(m.points) /\ m.points[k].actions # << >>
  BY MissionFacts DEF ActionPoints
<1>2. m.points[k] \in Point
  BY <1>1
<1>3. m.points[k].pointid \in PointIds /\ m.points[k].actions \in Seq(Action)
  BY <1>2 DEF Point
<1>4. m.points[k].actions[1] \in Action
  BY <1>1, <1>3
<1> QED
  BY <1>1, <1>3, <1>4 DEF Action

\* The two signals are well formed.
LEMMA AimType ==
    ASSUME NEW m \in Missions
    PROVE  Aim(m) \in Signal
<1>1. m.points[1] \in Point /\ m.points[2] \in Point
  BY MissionFacts
<1> QED
  BY <1>1, MissionFacts DEF Aim, Signal, Point

\* A lift of an action of a mission is a well-formed signal.
LEMMA LiftType ==
    ASSUME NEW m \in Missions, NEW k \in ActionPoints(m)
    PROVE  Lift(m, k) \in Signal
BY MissionFacts, ActionFacts DEF Lift, Signal

\* A point in the range of task_Imr belongs to an accepted mission.
LEMMA InRangeReal ==
    ASSUME TypeOK, NEW k \in Nat \ {0}, k <= Len(task_Imr.points)
    PROVE  task_Imr \in Missions
BY DEF TypeOK, Mission0

-----------------------------------------------------------------------------
(* Type correctness.                                                       *)

\* Where a handler can be.
Pcs == {"loop", "pos", "waitPos", "height", "waitHeight", "slot"}

\* The innermost handler is the last frame of the stack.
LEMMA TopIn ==
    ASSUME TypeOK, stack # << >>
    PROVE  Len(stack) \in 1..Len(stack) /\ Top = stack[Len(stack)] /\ Top \in Frame
BY EmptySeq DEF TypeOK, Top

\* When the innermost slot returns, the ones around it stay as they are.
LEMMA Popped ==
    ASSUME stack \in Seq(Frame), stack # << >>,
           stack' = SubSeq(stack, 1, Len(stack) - 1)
    PROVE  /\ Len(stack') = Len(stack) - 1 /\ stack' \in Seq(Frame)
           /\ \A k \in 1..Len(stack) - 1 : stack'[k] = stack[k]
<1>1. Len(stack) \in Nat \ {0}
  BY EmptySeq
<1> DEFINE n == Len(stack) - 1
            t == SubSeq(stack, 1, n)
<1>2. \A k \in 1..n : stack[k] \in Frame
  BY <1>1
<1>3. n \in Nat /\ n \in Int /\ 1 \in Int
  BY <1>1
<1>4. t = stack' /\ n = Len(stack) - 1
  OBVIOUS
<1> HIDE DEF n
<1>5. /\ t \in Seq(Frame)
      /\ Len(t) = IF 1 <= n THEN n - 1 + 1 ELSE 0
      /\ \A k \in 1..n - 1 + 1 : t[k] = stack[1 + k - 1]
  BY <1>2, <1>3, SubSeqProperties
<1> HIDE DEF t
<1>6. Len(t) = n
  BY <1>3, <1>5
<1>7. ASSUME NEW k \in 1..n PROVE t[k] = stack[k]
  <2>1. k \in 1..n - 1 + 1 /\ 1 + k - 1 = k
    BY <1>3
  <2> QED
    BY <1>5, <2>1
<1> QED
  BY <1>4, <1>5, <1>6, <1>7

\* Moving the innermost handler on keeps the stack well formed and as high.
LEMMA GotoType ==
    ASSUME TypeOK, stack # << >>, NEW pc \in Pcs, Goto(pc)
    PROVE  stack' \in Seq(Frame) /\ Len(stack') = Len(stack)
<1>1. stack \in Seq(Frame) /\ Len(stack) \in 1..Len(stack) /\ Top \in Frame
  BY EmptySeq DEF TypeOK, Top
<1>2. [Top EXCEPT !.pc = pc] \in Frame
  BY <1>1 DEF Frame, Pcs
<1>3. stack' = [stack EXCEPT ![Len(stack)] = [Top EXCEPT !.pc = pc]]
  BY <1>1 DEF Goto, Top
<1> QED
  BY <1>1, <1>2, <1>3, ExceptSeq

\* A handler that starts is in its loop, on top of the others: in the slot that was
\* reading on, or in a new one of the current socket.
LEMMA LoopStack ==
    ASSUME TypeOK, NEW m \in Missions, AdoptAndLoop(m)
    PROVE  /\ stack' \in Seq(Frame) /\ stack' # << >> /\ Top'.pc = "loop"
           /\ InSlot => /\ Len(stack') = Len(stack) /\ stack # << >>
                        /\ Top'.sess = Top.sess
                        /\ \A k \in 1..Len(stack) - 1 : stack'[k] = stack[k]
           /\ ~InSlot => /\ Len(stack') = Len(stack) + 1
                         /\ Top'.sess = session
                         /\ \A k \in 1..Len(stack) : stack'[k] = stack[k]
<1> DEFINE In(sock) == [pc |-> "loop", sess |-> sock,
                        mode |-> IF FirstOrder THEN "first" ELSE "update"]
<1>1. stack' = IF InSlot THEN [stack EXCEPT ![Len(stack)] = In(Top.sess)]
               ELSE Append(stack, In(session))
  BY DEF AdoptAndLoop
<1>2. \A sock \in Nat : In(sock) \in Frame /\ In(sock).pc = "loop" /\ In(sock).sess = sock
  BY DEF Frame
<1>3. stack \in Seq(Frame) /\ session \in Nat /\ Len(stack) \in Nat
  BY DEF TypeOK
<1> HIDE DEF In
<1>4. CASE InSlot
  <2>1. stack # << >> /\ Len(stack) \in 1..Len(stack) /\ Top.sess \in Nat
    BY <1>4, TopIn DEF InSlot, Running, Frame
  <2>2. /\ stack' \in Seq(Frame) /\ Len(stack') = Len(stack)
        /\ \A k \in 1..Len(stack) : stack'[k] = IF k = Len(stack) THEN In(Top.sess)
                                                ELSE stack[k]
    BY <1>1, <1>2, <1>3, <1>4, <2>1, ExceptSeq
  <2>3. stack' # << >> /\ Top' = In(Top.sess)
    BY <2>1, <2>2, EmptySeq DEF Top
  <2> QED
    BY <1>2, <1>4, <2>1, <2>2, <2>3
<1>5. CASE ~InSlot
  <2>1. /\ stack' \in Seq(Frame) /\ Len(stack') = Len(stack) + 1 /\ stack' # << >>
        /\ stack'[Len(stack) + 1] = In(session)
        /\ \A k \in 1..Len(stack) : stack'[k] = stack[k]
    BY <1>1, <1>2, <1>3, <1>5, AppendProperties
  <2>2. Top' = In(session)
    BY <2>1 DEF Top
  <2> QED
    BY <1>2, <1>3, <1>5, <2>1, <2>2
<1> QED
  BY <1>4, <1>5

\* The cleared state is a state.
LEMMA StateType0 == ImrSta0 \in IMRState
BY EmptySeq DEF ImrSta0, IMRState, Place

\* Every variable starts with its type.
LEMMA TypeInit == Init => TypeOK
<1> SUFFICES ASSUME Init PROVE TypeOK
  OBVIOUS
<1>1. hight \in Int
  BY HeightAssumption DEF Init
<1>2. idParam \in Action
  BY DEF Init, NoAction, Action
<1>3. /\ stack \in Seq(Frame) /\ outbox \in Seq(Signal)
      /\ done \in Seq(Action) /\ sent \in Seq(Action)
  BY EmptySeq DEF Init
<1>4. task_Imr = Mission0 /\ owed \subseteq Missions \X Nat /\ ImrSta \in IMRState
  BY StateType0 DEF Init
<1>5. alive \in BOOLEAN /\ conn \in {"none", "open", "lost"} /\ timer \in BOOLEAN
  BY DEF Init
<1>6. session \in Nat /\ globalVar \in Nat /\ i \in Nat \ {0} /\ received \in Nat
  BY DEF Init
<1> QED
  BY <1>1, <1>2, <1>3, <1>4, <1>5, <1>6 DEF TypeOK

\* An adopted mission is one of Missions, and so are those it is owed for.
LEMMA AdoptType ==
    ASSUME TypeOK, NEW m \in Missions, Adopt(m)
    PROVE  /\ task_Imr' \in Missions /\ owed' \subseteq Missions \X Nat
           /\ received' \in Nat
BY DEF TypeOK, Adopt, ActionPoints

\* updateStatus keeps the type of the signals and of the state.
LEMMA UpdateType ==
    ASSUME TypeOK, NEW m \in Missions, UpdateStatus(m)
    PROVE  /\ outbox' \in Seq(Signal)
           /\ ImrSta' \in IMRState
<1>1. outbox' \in Seq(Signal)
  BY AimType DEF TypeOK, UpdateStatus
<1>2. ImrSta' \in IMRState
  BY MissionFacts DEF TypeOK, UpdateStatus, IMRState
<1> QED
  BY <1>1, <1>2

\* Every variable keeps its type.
LEMMA TypeStep == TypeOK /\ [Next]_vars => TypeOK'
<1> SUFFICES ASSUME TypeOK, [Next]_vars PROVE TypeOK'
  OBVIOUS
<1> USE DEF ctrl, hist
<1>1. ASSUME NEW m \in Missions, RejectAT(m) PROVE TypeOK'
  BY <1>1 DEF RejectAT, TypeOK, Undefined
<1>2. ASSUME NEW m \in Missions, AdoptAndDrive(m) PROVE TypeOK'
  BY <1>2, AdoptType, UpdateType DEF AdoptAndDrive, Adopt, TypeOK
<1>3. ASSUME NEW m \in Missions, AdoptAndLoop(m) PROVE TypeOK'
  <2>1. Adopt(m) /\ i' = 1 /\ ImrSta' = ImrSta /\ outbox' = outbox
    BY <1>3 DEF AdoptAndLoop
  <2>2. stack' \in Seq(Frame)
    BY <1>3, LoopStack
  <2> QED
    BY <2>1, <2>2, AdoptType DEF Adopt, TypeOK
<1>4. CASE LoopSkip
  <2>1. i' \in Nat \ {0}
    <3>1. i' = i + 1 /\ i \in Nat \ {0}
      BY <1>4 DEF LoopSkip, TypeOK
    <3> QED
      BY <3>1
  <2>2. UNCHANGED <<ctrl, globalVar, task_Imr, ImrSta, hight, stack, idParam, outbox,
                    received, hist>>
    BY <1>4 DEF LoopSkip
  <2> QED
    BY <2>1, <2>2 DEF TypeOK
<1>5. CASE LoopDone
  <2>1. task_Imr \in Missions
    BY <1>5, InRangeReal DEF LoopDone, TypeOK
  <2>2. outbox' \in Seq(Signal) /\ ImrSta' \in IMRState
    BY <1>5, <2>1, UpdateType DEF LoopDone
  <2>3. i' \in Nat \ {0} /\ owed' \subseteq Missions \X Nat
    <3>1. /\ i' = i + 1 /\ i \in Nat \ {0} /\ owed' = owed \ {<<task_Imr, i>>}
          /\ owed \subseteq Missions \X Nat
      BY <1>5 DEF LoopDone, TypeOK
    <3> QED
      BY <3>1
  <2>4. UNCHANGED <<ctrl, globalVar, task_Imr, hight, stack, idParam, received, done, sent>>
    BY <1>5 DEF LoopDone
  <2> QED
    BY <2>2, <2>3, <2>4 DEF TypeOK
<1>6. CASE LoopPoint
  <2>1. task_Imr \in Missions
    BY <1>6, InRangeReal DEF LoopPoint, TypeOK
  <2>2. stack' \in Seq(Frame)
    BY <1>6, GotoType DEF LoopPoint, Running, Pcs
  <2>3. idParam' \in Action
    BY <1>6, <2>1, ActionFacts DEF LoopPoint, NoAction, Action
  <2> QED
    BY <1>6, <2>1, <2>2, <2>3, UpdateType DEF LoopPoint, TypeOK, Undefined
<1>7. CASE LoopEnd
  <2>1. stack' \in Seq(Frame)
    BY <1>7, GotoType DEF LoopEnd, Running, Pcs
  <2> QED
    BY <1>7, <2>1 DEF LoopEnd, TypeOK, Undefined
<1>8. CASE Arrive
  <2>1. task_Imr \in Missions /\ i \in ActionPoints(task_Imr)
    BY <1>8, InRangeReal DEF Arrive, HasValue, InRange, ActionPoints, TypeOK
  <2>2. stack' \in Seq(Frame) /\ outbox' \in Seq(Signal)
    BY <1>8, <2>1, GotoType, LiftType DEF Arrive, Running, TypeOK, Pcs
  <2> QED
    BY <1>8, <2>2 DEF Arrive, TypeOK
<1>9. CASE Lifted
  <2>1. stack' \in Seq(Frame)
    BY <1>9, GotoType DEF Lifted, Running, Pcs
  <2>2. /\ Append(ImrSta.actionstates, idParam) \in Seq(Action)
        /\ Append(done, idParam) \in Seq(Action)
    BY DEF TypeOK, IMRState
  <2>3. ImrSta' \in IMRState
    BY <1>9, <2>2 DEF Lifted, TypeOK, IMRState
  <2>4. UNCHANGED <<ctrl, globalVar, task_Imr, hight, idParam, outbox, received, owed, sent>>
    BY <1>9 DEF Lifted
  <2>5. done' \in Seq(Action)
    BY <1>9, <2>2 DEF Lifted
  <2>6. i' \in Nat \ {0}
    BY <1>9 DEF Lifted, TypeOK
  <2> QED
    BY <2>1, <2>3, <2>4, <2>5, <2>6 DEF TypeOK, ctrl
<1>10. CASE Block
  <2>1. stack' \in Seq(Frame)
    BY <1>10, GotoType DEF Block, Running, Pcs
  <2>2. UNCHANGED <<ctrl, globalVar, task_Imr, ImrSta, hight, i, idParam, outbox, received, hist>>
    BY <1>10 DEF Block
  <2> QED
    BY <2>1, <2>2 DEF TypeOK, ctrl, hist
<1>11. CASE StaleWait
  BY <1>11 DEF StaleWait, TypeOK
<1>12. ASSUME NEW p \in Place, NEW h \in Heights, LinkP40(p, h) PROVE TypeOK'
  <2>1. task_Imr.orderid # 0 => task_Imr.segend \in Place
    BY MissionFacts DEF TypeOK, Mission0
  <2> QED
    BY <1>12, <2>1, HeightAssumption DEF LinkP40, TypeOK, IMRState
<1>13. ASSUME SendStatus, timer' \in BOOLEAN PROVE TypeOK'
  <2>1. sent' \in Seq(Action)
    BY <1>13, ConcatProperties DEF SendStatus, TypeOK, IMRState
  <2>2. ImrSta' \in IMRState
    BY <1>13, EmptySeq DEF SendStatus, TypeOK, IMRState
  <2>3. globalVar' \in Nat
    <3>1. globalVar' = (globalVar + 1) % HeartMod /\ globalVar \in Nat
      BY <1>13 DEF SendStatus, TypeOK
    <3> QED
      BY <3>1, BoundAssumption
  <2>4. alive' \in BOOLEAN
    BY <1>13 DEF SendStatus, TypeOK, Undefined
  <2>5. UNCHANGED <<conn, session, task_Imr, hight, stack, i, idParam, outbox, received, owed, done>>
    BY <1>13 DEF SendStatus
  <2> QED
    BY <1>13, <2>1, <2>2, <2>3, <2>4, <2>5 DEF TypeOK
<1>14. CASE StopButton
  BY <1>14, StateType0 DEF StopButton, TypeOK
<1>15. ASSUME NEW p \in PointIds, SettingButton(p) PROVE TypeOK'
  BY <1>15 DEF SettingButton, TypeOK, Place, IMRState
<1>16. CASE SendRgButton
  BY <1>16 DEF SendRgButton, TypeOK, Undefined
<1>17. CASE ConnectOn \/ ConnectOff \/ LinkLost
  <2>1. conn' \in {"none", "open", "lost"} /\ session' \in Nat
    BY <1>17 DEF ConnectOn, ConnectOff, LinkLost, Socket, TypeOK
  <2> QED
    BY <1>17, <2>1 DEF ConnectOn, ConnectOff, LinkLost, Socket, TypeOK
<1>18. CASE UNCHANGED vars
  BY <1>18 DEF vars, TypeOK
<1>19. CASE Timeout \/ SendStButton
  BY <1>13, <1>19 DEF Timeout, SendStButton, TypeOK
<1>20. CASE SlotEnds
  <2>1. stack' \in Seq(Frame)
    BY <1>20, Popped DEF SlotEnds, InSlot, Running, TypeOK
  <2> QED
    BY <1>20, <2>1 DEF SlotEnds, TypeOK, Undefined
<1> QED
  BY <1>1, <1>2, <1>3, <1>4, <1>5, <1>6, <1>7, <1>8, <1>9, <1>10, <1>11, <1>12,
     <1>14, <1>15, <1>16, <1>17, <1>18, <1>19, <1>20
     DEF Next, ReceiveAT, Handler, Status, Events

\* Every variable keeps the type its C++ member has, in every behaviour.
THEOREM TypeCorrect == Spec => []TypeOK
BY TypeInit, TypeStep, PTL DEF Spec

-----------------------------------------------------------------------------
(* The inductive invariant: one conjunct per safety property, each with    *)
(* what it needs to know of the steps between two waits.                   *)

Named == ImrSta.orderid = task_Imr.orderid /\ ImrSta.missionkey = task_Imr.missionkey

\* An accepted mission is not named before the loop reaches its first action,
\* but then that action is still ahead.
StatusInv ==
    Named \/ /\ stack # << >> /\ Top.pc = "loop"
             /\ \E k \in ActionPoints(task_Imr) : i <= k

\* The sockets of the nested slots are different ones, the newest on top.
SocketInv ==
    /\ \A k \in 1..Len(stack) : stack[k].sess <= session
    /\ \A k, n \in 1..Len(stack) : k < n => stack[k].sess < stack[n].sess

\* In the middle of a point, in a slot of the current socket, the handler has an
\* action to read.
BoundsInv ==
    stack # << >> /\ Top.pc \notin {"loop", "slot"} /\ Top.sess = session /\ task_Imr # Mission0
        => i \in ActionPoints(task_Imr)

\* The actions at and after the loop index have not been served yet.
OwedInv ==
    stack # << >> =>
        \A k \in ActionPoints(task_Imr) :
            i < k \/ (i = k /\ Top.pc \notin {"height", "waitHeight"})
              => <<task_Imr, k>> \in owed

IInv == TypeOK /\ StatusInv /\ SocketInv /\ BoundsInv /\ OwedInv /\ CompletionsConserved

\* The inductive invariant holds at first: no handler is on the stack.
LEMMA InvInit == Init => IInv
<1> SUFFICES ASSUME Init PROVE IInv
  OBVIOUS
<1>1. TypeOK
  BY TypeInit
<1>2. stack = << >> /\ Len(stack) = 0 /\ Named
  BY EmptySeq DEF Init, Named, ImrSta0, Mission0
<1>3. CompletionsConserved
  BY ConcatEmptySeq, EmptySeq DEF Init, CompletionsConserved, ImrSta0
<1> QED
  BY <1>1, <1>2, <1>3 DEF IInv, StatusInv, SocketInv, BoundsInv, OwedInv

-----------------------------------------------------------------------------
(* How the stack changes.                                                  *)

\* Moving the innermost handler on changes its pc and no socket.
LEMMA GotoTop ==
    ASSUME TypeOK, stack # << >>, NEW pc \in Pcs, Goto(pc)
    PROVE  /\ stack' # << >> /\ Len(stack') = Len(stack)
           /\ Top'.pc = pc /\ Top'.sess = Top.sess
           /\ \A k \in 1..Len(stack) : stack'[k].sess = stack[k].sess
<1>1. stack \in Seq(Frame) /\ Len(stack) \in 1..Len(stack) /\ Top \in Frame
  BY EmptySeq DEF TypeOK, Top
<1>2. /\ [Top EXCEPT !.pc = pc] \in Frame /\ [Top EXCEPT !.pc = pc].pc = pc
      /\ [Top EXCEPT !.pc = pc].sess = Top.sess
  BY <1>1 DEF Frame, Pcs
<1>3. stack' = [stack EXCEPT ![Len(stack)] = [Top EXCEPT !.pc = pc]]
  BY <1>1 DEF Goto, Top
<1>4. /\ stack' \in Seq(Frame) /\ Len(stack') = Len(stack)
      /\ \A k \in 1..Len(stack) : stack'[k] = IF k = Len(stack)
                                              THEN [Top EXCEPT !.pc = pc] ELSE stack[k]
  BY <1>1, <1>2, <1>3, ExceptSeq
<1> QED
  BY <1>1, <1>2, <1>4, EmptySeq DEF Top

\* Moving the top frame to another program point keeps the socket facts.
LEMMA GotoSocket ==
    ASSUME IInv, stack # << >>, NEW pc \in Pcs, Goto(pc), session' = session
    PROVE  SocketInv'
BY GotoTop DEF IInv, SocketInv

\* A socket that starts a slot has no other one on the stack.
LEMMA FreshSocket ==
    ASSUME IInv, CanReceive, ~InSlot
    PROVE  \A k \in 1..Len(stack) : stack[k].sess < session
<1>1. \A k \in 1..Len(stack) : stack[k].sess \in Nat
  <2>1. \A k \in 1..Len(stack) : stack[k] \in Frame
    BY DEF IInv, TypeOK
  <2> QED
    BY <2>1 DEF Frame
<1> QED
  BY <1>1 DEF IInv, SocketInv, CanReceive, TypeOK

-----------------------------------------------------------------------------
(* Every step keeps the invariant.                                         *)

Shape == StatusInv /\ SocketInv /\ BoundsInv /\ OwedInv

\* A step that leaves the mission, the stack, i and the named order alone keeps
\* the four parts of the invariant (LinkP40, SendStatus and the like).
LEMMA ShapeFrame ==
    ASSUME IInv, UNCHANGED <<session, task_Imr, stack, i, owed>>,
           ImrSta'.orderid = ImrSta.orderid, ImrSta'.missionkey = ImrSta.missionkey
    PROVE  Shape'
BY DEF IInv, Shape, Named, StatusInv, SocketInv, BoundsInv, OwedInv, Top, ActionPoints

\* While events are dispatched the state names the mission.
LEMMA YieldNamed ==
    ASSUME IInv, Yielding
    PROVE  Named
BY DEF IInv, StatusInv, Yielding, Waits

\* Adopting a mission without a loop keeps the four parts: updateStatus names it,
\* and a handler that waits meanwhile does so in a slot of an older socket.
LEMMA DriveShape ==
    ASSUME IInv, NEW m \in Missions, AdoptAndDrive(m)
    PROVE  Shape'
<1>1. /\ task_Imr' = m /\ stack' = stack /\ i' = i /\ session' = session
      /\ owed' = owed \cup ({m} \X ActionPoints(m))
  BY DEF AdoptAndDrive, Adopt, ctrl
<1>2. Named'
  BY <1>1 DEF AdoptAndDrive, UpdateStatus, Named, IInv, TypeOK, IMRState
<1>3. SocketInv'
  BY <1>1 DEF IInv, SocketInv
<1>4. BoundsInv'
  <2>1. CASE InSlot
    BY <1>1, <2>1 DEF BoundsInv, Top, InSlot, Running
  <2>2. CASE ~InSlot
    <3>1. stack # << >> => Top.sess < session
      BY <2>2, FreshSocket, TopIn DEF AdoptAndDrive, Adopt, IInv
    <3> QED
      BY <1>1, <3>1, TopIn DEF BoundsInv, Top, IInv, TypeOK, Frame
  <2> QED
    BY <2>1, <2>2
<1>5. OwedInv'
  BY <1>1 DEF OwedInv, ActionPoints
<1> QED
  BY <1>2, <1>3, <1>4, <1>5 DEF Shape, StatusInv

\* A handler that starts keeps the socket facts: a new slot is of a newer socket.
LEMMA LoopSocket ==
    ASSUME IInv, NEW m \in Missions, AdoptAndLoop(m), session' = session
    PROVE  SocketInv'
<1>1. /\ Len(stack) \in Nat /\ session \in Nat /\ SocketInv /\ TypeOK
      /\ \A k \in 1..Len(stack) : stack[k].sess \in Nat
  <2>1. stack \in Seq(Frame) /\ session \in Nat
    BY DEF IInv, TypeOK
  <2>2. \A k \in 1..Len(stack) : stack[k] \in Frame
    BY <2>1
  <2> QED
    BY <2>1, <2>2 DEF IInv, Frame
<1>2. CASE InSlot
  <2>1. /\ Len(stack') = Len(stack)
        /\ \A k \in 1..Len(stack) - 1 : stack'[k] = stack[k]
        /\ stack'[Len(stack)].sess = stack[Len(stack)].sess
    BY <1>1, <1>2, LoopStack DEF Top
  <2>2. \A k \in 1..Len(stack) : stack'[k].sess = stack[k].sess
    BY <1>1, <2>1
  <2> QED
    BY <1>1, <2>1, <2>2 DEF SocketInv
<1>3. CASE ~InSlot
  <2>1. \A k \in 1..Len(stack) : stack[k].sess < session
    BY <1>3, FreshSocket DEF AdoptAndLoop, Adopt
  <2>2. /\ Len(stack') = Len(stack) + 1 /\ stack'[Len(stack) + 1].sess = session
        /\ \A k \in 1..Len(stack) : stack'[k] = stack[k]
    BY <1>1, <1>3, LoopStack DEF Top
  <2>3. \A k \in 1..Len(stack') : k \in 1..Len(stack) \/ k = Len(stack) + 1
    BY <1>1, <2>2
  <2>4. ASSUME NEW k \in 1..Len(stack') PROVE stack'[k].sess <= session'
    BY <1>1, <2>2, <2>3 DEF SocketInv
  <2>5. ASSUME NEW k \in 1..Len(stack'), NEW n \in 1..Len(stack'), k < n
        PROVE  stack'[k].sess < stack'[n].sess
    <3>1. k \in 1..Len(stack)
      BY <1>1, <2>2, <2>5
    <3> QED
      BY <1>1, <2>1, <2>2, <2>3, <2>5, <3>1 DEF SocketInv
  <2> QED
    BY <2>4, <2>5 DEF SocketInv
<1> QED
  BY <1>2, <1>3

\* Adopting a mission with a loop keeps the four parts: all its actions are owed
\* and the new handler starts at point 1.
LEMMA LoopShape ==
    ASSUME IInv, NEW m \in Missions, AdoptAndLoop(m)
    PROVE  Shape'
<1>1. /\ task_Imr' = m /\ i' = 1 /\ session' = session
      /\ owed' = owed \cup ({m} \X ActionPoints(m)) /\ HasActions(m)
  BY DEF AdoptAndLoop, Adopt, ctrl
<1>2. stack' # << >> /\ Top'.pc = "loop"
  BY LoopStack DEF IInv
<1>3. StatusInv'
  BY <1>1, <1>2 DEF StatusInv, HasActions
<1>4. SocketInv'
  BY <1>1, LoopSocket
<1>5. BoundsInv'
  BY <1>2 DEF BoundsInv
<1>6. OwedInv'
  BY <1>1 DEF OwedInv, ActionPoints
<1> QED
  BY <1>3, <1>4, <1>5, <1>6 DEF Shape

\* Passing a point without action keeps the four parts: it was not owed.
LEMMA SkipShape ==
    ASSUME IInv, LoopSkip
    PROVE  Shape'
<1>1. /\ stack' = stack /\ i' = i + 1 /\ UNCHANGED <<session, task_Imr, ImrSta, owed>>
      /\ i \notin ActionPoints(task_Imr) /\ Top.pc = "loop" /\ stack # << >>
  BY DEF LoopSkip, Running, ActionPoints, ctrl, hist
<1>2. i \in Nat /\ ActionPoints(task_Imr) \subseteq Nat /\ Top' = Top
  BY <1>1 DEF IInv, TypeOK, ActionPoints, Top
<1>3. ActionPoints(task_Imr)' = ActionPoints(task_Imr) /\ Named' = Named
  BY <1>1 DEF ActionPoints, Named
<1>4. StatusInv'
  BY <1>1, <1>2, <1>3 DEF IInv, StatusInv
<1>5. SocketInv'
  BY <1>1 DEF IInv, SocketInv
<1>6. BoundsInv'
  BY <1>1, <1>2 DEF BoundsInv
<1>7. OwedInv'
  BY <1>1, <1>2, <1>3 DEF IInv, OwedInv
<1> QED
  BY <1>4, <1>5, <1>6, <1>7 DEF Shape

\* Passing a point whose load is already lifted keeps the four parts.
LEMMA DoneShape ==
    ASSUME IInv, LoopDone
    PROVE  Shape'
<1>1. /\ stack' = stack /\ i' = i + 1 /\ UNCHANGED <<session, task_Imr>>
      /\ owed' = owed \ {<<task_Imr, i>>} /\ UpdateStatus(task_Imr)
      /\ Top.pc = "loop" /\ stack # << >>
  BY DEF LoopDone, Running, ctrl
<1>2. i \in Nat /\ ActionPoints(task_Imr) \subseteq Nat /\ Top' = Top
  BY <1>1 DEF IInv, TypeOK, ActionPoints, Top
<1>3. ActionPoints(task_Imr)' = ActionPoints(task_Imr)
  BY <1>1 DEF ActionPoints
<1>4. Named'
  BY <1>1 DEF UpdateStatus, Named, IInv, TypeOK, IMRState
<1>5. SocketInv'
  BY <1>1 DEF IInv, SocketInv
<1>6. BoundsInv'
  BY <1>1, <1>2 DEF BoundsInv
<1>7. OwedInv'
  BY <1>1, <1>2, <1>3 DEF IInv, OwedInv
<1> QED
  BY <1>4, <1>5, <1>6, <1>7 DEF Shape, StatusInv

\* Starting on a point keeps the four parts: it has an action, still owed.
LEMMA PointShape ==
    ASSUME IInv, LoopPoint
    PROVE  Shape'
<1>1. /\ Goto("pos") /\ UNCHANGED <<session, task_Imr, i, owed>>
      /\ UpdateStatus(task_Imr) /\ stack # << >> /\ Top.pc = "loop"
      /\ i \in ActionPoints(task_Imr)
  BY DEF LoopPoint, Running, ctrl, hist, ActionPoints, IInv, TypeOK
<1>2. stack' # << >> /\ Top'.pc = "pos"
  BY <1>1, GotoTop DEF IInv, Pcs
<1>3. ActionPoints(task_Imr)' = ActionPoints(task_Imr)
  BY <1>1 DEF ActionPoints
<1>4. Named'
  BY <1>1 DEF UpdateStatus, Named, IInv, TypeOK, IMRState
<1>5. SocketInv'
  BY <1>1, GotoSocket DEF Pcs
<1>6. BoundsInv'
  BY <1>1, <1>3 DEF BoundsInv
<1>7. OwedInv'
  BY <1>1, <1>2, <1>3 DEF IInv, OwedInv
<1> QED
  BY <1>4, <1>5, <1>6, <1>7 DEF Shape, StatusInv

\* A handler that returns into its slot has no action ahead.
LEMMA EndShape ==
    ASSUME IInv, LoopEnd
    PROVE  Shape'
<1>1. /\ Goto("slot") /\ i > Len(task_Imr.points)
      /\ UNCHANGED <<session, task_Imr, ImrSta, i, owed>>
      /\ stack # << >> /\ Top.pc = "loop"
  BY DEF LoopEnd, Running, hist
<1>2. stack' # << >> /\ Top'.pc = "slot"
  BY <1>1, GotoTop DEF IInv, Pcs
<1>3. ActionPoints(task_Imr)' = ActionPoints(task_Imr) /\ Named' = Named
  BY <1>1 DEF ActionPoints, Named
<1>4. \A k \in ActionPoints(task_Imr) : k < i /\ k \in Nat /\ i \in Nat
  <2>1. Len(task_Imr.points) \in Nat /\ i \in Nat
    BY MissionFacts, EmptySeq DEF IInv, TypeOK, Mission0
  <2> QED
    BY <1>1, <2>1 DEF ActionPoints
<1>5. Named'
  BY <1>1, <1>3, <1>4 DEF IInv, StatusInv
<1>6. SocketInv'
  BY <1>1, GotoSocket DEF Pcs
<1>7. BoundsInv'
  BY <1>2 DEF BoundsInv
<1>8. OwedInv'
  BY <1>1, <1>3, <1>4 DEF OwedInv
<1> QED
  BY <1>5, <1>6, <1>7, <1>8 DEF Shape, StatusInv

\* The handler under a slot that returns waits in a slot of an older socket.
LEMMA SlotShape ==
    ASSUME IInv, SlotEnds
    PROVE  Shape'
<1>1. /\ stack' = SubSeq(stack, 1, Len(stack) - 1)
      /\ UNCHANGED <<session, task_Imr, ImrSta, i, owed>>
      /\ stack # << >> /\ Top.pc = "slot"
  BY DEF SlotEnds, InSlot, Running, hist
<1>2. stack \in Seq(Frame) /\ Len(stack) \in Nat \ {0}
  BY <1>1, EmptySeq DEF IInv, TypeOK
<1>3. /\ Len(stack') = Len(stack) - 1 /\ stack' \in Seq(Frame)
      /\ \A k \in 1..Len(stack) - 1 : stack'[k] = stack[k]
  BY <1>1, <1>2, Popped
<1>4. ActionPoints(task_Imr)' = ActionPoints(task_Imr) /\ Named' = Named
  BY <1>1 DEF ActionPoints, Named
<1>6. Named'
  BY <1>1, <1>4 DEF IInv, StatusInv
<1>7. SocketInv'
  <2>1. \A k \in 1..Len(stack') : k \in 1..Len(stack) /\ stack'[k] = stack[k]
    BY <1>2, <1>3
  <2>2. SocketInv /\ session' = session
    BY <1>1 DEF IInv
  <2>3. ASSUME NEW k \in 1..Len(stack') PROVE stack'[k].sess <= session'
    BY <2>1, <2>2, <2>3 DEF SocketInv
  <2>4. ASSUME NEW k \in 1..Len(stack'), NEW n \in 1..Len(stack'), k < n
        PROVE  stack'[k].sess < stack'[n].sess
    BY <2>1, <2>2, <2>4 DEF SocketInv
  <2> QED
    BY <2>3, <2>4 DEF SocketInv
<1>8. BoundsInv'
  <2>1. ASSUME stack' # << >> PROVE Top'.sess < session
    <3>1. Len(stack') \in 1..Len(stack) - 1 /\ Top' = stack[Len(stack')]
      BY <1>2, <1>3, <2>1, EmptySeq DEF Top
    <3>2. Top' \in Frame /\ Top \in Frame /\ session \in Nat
      BY <1>1, <1>2, <3>1, TopIn DEF IInv, TypeOK
    <3>3. Top'.sess \in Nat /\ Top.sess \in Nat
      BY <3>2 DEF Frame
    <3>4. Top'.sess < Top.sess
      BY <1>2, <3>1 DEF IInv, SocketInv, Top
    <3>5. Top.sess <= session
      BY <1>2 DEF IInv, SocketInv, Top
    <3> QED
      BY <3>2, <3>3, <3>4, <3>5
  <2>2. session \in Nat /\ session' = session
    BY <1>1 DEF IInv, TypeOK
  <2>3. ASSUME stack' # << >> PROVE Top'.sess # session'
    <3>1. Len(stack') \in 1..Len(stack')
      BY <1>3, <2>3, EmptySeq
    <3>2. Top' \in Frame
      BY <1>3, <3>1 DEF Top
    <3>3. Top'.sess \in Nat
      BY <3>2 DEF Frame
    <3> QED
      BY <2>1, <2>2, <2>3, <3>3
  <2> QED
    BY <2>3 DEF BoundsInv
<1>9. OwedInv'
  BY <1>1, <1>4 DEF IInv, OwedInv
<1> QED
  BY <1>6, <1>7, <1>8, <1>9 DEF Shape, StatusInv

\* Triggering an action keeps the four parts: it is owed no more.
LEMMA ArriveShape ==
    ASSUME IInv, Arrive
    PROVE  Shape'
<1>1. /\ Goto("height") /\ UNCHANGED <<session, task_Imr, ImrSta, i>>
      /\ owed' = owed \ {<<task_Imr, i>>} /\ stack # << >> /\ Top.pc \in {"pos", "waitPos"}
      /\ i \in ActionPoints(task_Imr)
  BY DEF Arrive, Running, ctrl, ActionPoints, HasValue, InRange
<1>2. stack' # << >> /\ Top'.pc = "height"
  BY <1>1, GotoTop DEF IInv, Pcs
<1>3. ActionPoints(task_Imr)' = ActionPoints(task_Imr) /\ Named' = Named
  BY <1>1 DEF ActionPoints, Named
<1>4. Named'
  BY <1>1, <1>3 DEF IInv, StatusInv
<1>5. SocketInv'
  BY <1>1, GotoSocket DEF Pcs
<1>6. BoundsInv'
  BY <1>1, <1>3 DEF BoundsInv
<1>7. OwedInv'
  <2>1. i \in Nat /\ ActionPoints(task_Imr) \subseteq Nat
    BY DEF IInv, TypeOK, ActionPoints
  <2> QED
    BY <1>1, <1>2, <1>3, <2>1 DEF IInv, OwedInv
<1> QED
  BY <1>4, <1>5, <1>6, <1>7 DEF Shape, StatusInv

\* Completing an action keeps the four parts: the later ones are still owed.
LEMMA LiftedShape ==
    ASSUME IInv, Lifted
    PROVE  Shape'
<1>1. /\ Goto("loop") /\ UNCHANGED <<session, task_Imr, owed>> /\ i' = i + 1
      /\ ImrSta' = [ImrSta EXCEPT !.actionstates = Append(@, idParam)]
      /\ stack # << >> /\ Top.pc \in {"height", "waitHeight"}
  BY DEF Lifted, Running, ctrl
<1>2. stack' # << >> /\ Top'.pc = "loop"
  BY <1>1, GotoTop DEF IInv, Pcs
<1>3. ActionPoints(task_Imr)' = ActionPoints(task_Imr)
  BY <1>1 DEF ActionPoints
<1>4. Named'
  BY <1>1 DEF IInv, StatusInv, Named, TypeOK, IMRState
<1>5. SocketInv'
  BY <1>1, GotoSocket DEF Pcs
<1>6. BoundsInv'
  BY <1>2 DEF BoundsInv
<1>7. OwedInv'
  <2>1. i \in Nat /\ ActionPoints(task_Imr) \subseteq Nat
    BY DEF IInv, TypeOK, ActionPoints
  <2> QED
    BY <1>1, <1>2, <1>3, <2>1 DEF IInv, OwedInv
<1> QED
  BY <1>4, <1>5, <1>6, <1>7 DEF Shape, StatusInv

\* Entering a wait keeps the four parts: the state already names the mission.
LEMMA WaitShape ==
    ASSUME IInv, NEW pc \in Waits, Goto(pc), stack # << >>,
           i \in ActionPoints(task_Imr),
           UNCHANGED <<session, task_Imr, ImrSta, i, owed>>,
           \/ Top.pc = "pos" /\ pc = "waitPos"
           \/ Top.pc = "height" /\ pc = "waitHeight"
    PROVE  Shape'
<1>2. stack' # << >> /\ Top'.pc = pc
  BY GotoTop DEF IInv, Waits, Pcs
<1>3. ActionPoints(task_Imr)' = ActionPoints(task_Imr) /\ Named' = Named
  BY DEF ActionPoints, Named
<1>4. Named'
  BY <1>3 DEF IInv, StatusInv
<1>5. SocketInv'
  BY GotoSocket DEF Waits, Pcs
<1>6. BoundsInv'
  BY <1>3 DEF BoundsInv
<1>7. OwedInv'
  BY <1>2, <1>3 DEF IInv, OwedInv
<1> QED
  BY <1>4, <1>5, <1>6, <1>7 DEF Shape, StatusInv

\* Either wait keeps the four parts.
LEMMA BlockShape ==
    ASSUME IInv, Block
    PROVE  Shape'
<1>1. UNCHANGED <<session, task_Imr, ImrSta, i, owed>>
  BY DEF Block, ctrl, hist
<1>2. CASE Running({"pos"}) /\ HasValue /\ ~AtTarget /\ Goto("waitPos")
  BY <1>1, <1>2, WaitShape DEF Running, Waits, ActionPoints, HasValue, InRange
<1>3. CASE Running({"height"}) /\ HasValue /\ ~Near(Target.actionparam) /\ Goto("waitHeight")
  BY <1>1, <1>3, WaitShape DEF Running, Waits, ActionPoints, HasValue, InRange
<1> QED
  BY <1>2, <1>3 DEF Block

\* Stop keeps the four parts: mission and state are cleared together.
LEMMA StopShape ==
    ASSUME IInv, StopButton
    PROVE  Shape'
<1>1. /\ task_Imr' = Mission0 /\ ImrSta' = ImrSta0
      /\ UNCHANGED <<session, stack, i>>
  BY DEF StopButton
<1>2. Named'
  BY <1>1 DEF Named, Mission0, ImrSta0
<1>3. ActionPoints(task_Imr)' = {}
  BY <1>1, EmptySeq DEF ActionPoints, Mission0
<1> QED
  BY <1>1, <1>2, <1>3 DEF IInv, Shape, StatusInv, SocketInv, BoundsInv, OwedInv

\* A new connection keeps the four parts: every handler gets an older socket.
LEMMA ConnectShape ==
    ASSUME IInv, ConnectOn
    PROVE  Shape'
<1>1. session' = session + 1 /\ UNCHANGED <<task_Imr, ImrSta, stack, i, owed>>
  BY DEF ConnectOn, Socket, hist
<1>2. ActionPoints(task_Imr)' = ActionPoints(task_Imr) /\ Named' = Named /\ Top' = Top
  BY <1>1 DEF ActionPoints, Named, Top
<1>3. session \in Nat /\ \A k \in 1..Len(stack) : stack[k].sess \in Nat
  <2>1. session \in Nat /\ \A k \in 1..Len(stack) : stack[k] \in Frame
    BY DEF IInv, TypeOK
  <2> QED
    BY <2>1 DEF Frame
<1>4. SocketInv'
  BY <1>1, <1>3 DEF IInv, SocketInv
<1>5. BoundsInv'
  BY <1>1, <1>2, <1>3, TopIn DEF IInv, SocketInv, BoundsInv
<1> QED
  BY <1>1, <1>2, <1>4, <1>5 DEF IInv, Shape, StatusInv, OwedInv

-----------------------------------------------------------------------------
(* The completions.                                                        *)

\* Appending to a concatenation appends to its second part.
LEMMA AppendToConcat ==
    \A s, t \in Seq(Action), e \in Action : Append(s \o t, e) = s \o Append(t, e)
OBVIOUS

\* Recording a completion keeps the completions conserved.
LEMMA LiftedCompletions ==
    ASSUME IInv, Lifted
    PROVE  CompletionsConserved'
<1>1. /\ sent \in Seq(Action) /\ ImrSta.actionstates \in Seq(Action)
      /\ idParam \in Action /\ done = sent \o ImrSta.actionstates
  BY DEF IInv, TypeOK, IMRState, CompletionsConserved
<1>2. /\ ImrSta'.actionstates = Append(ImrSta.actionstates, idParam)
      /\ done' = Append(done, idParam) /\ sent' = sent
  BY DEF Lifted, IInv, TypeOK, IMRState
<1>3. Append(sent \o ImrSta.actionstates, idParam) = sent \o Append(ImrSta.actionstates, idParam)
  BY <1>1, AppendToConcat, Zenon
<1>4. done' = sent' \o ImrSta'.actionstates
  BY <1>1, <1>2, <1>3
<1> QED
  BY <1>4 DEF CompletionsConserved

\* A status frame takes over the completions it carries.
LEMMA SendCompletions ==
    ASSUME IInv, SendStatus
    PROVE  CompletionsConserved'
<1>1. /\ sent' = sent \o ImrSta.actionstates /\ ImrSta'.actionstates = << >>
      /\ done' = done /\ sent' \in Seq(Action)
  BY ConcatProperties DEF SendStatus, IInv, TypeOK, IMRState
<1> QED
  BY <1>1, ConcatEmptySeq DEF IInv, CompletionsConserved

\* Stop forgets the completions that were not sent.
LEMMA StopCompletions ==
    ASSUME IInv, StopButton
    PROVE  CompletionsConserved'
<1>1. done' = sent /\ sent' = sent /\ ImrSta'.actionstates = << >> /\ sent \in Seq(Action)
  BY DEF StopButton, ImrSta0, IInv, TypeOK
<1> QED
  BY <1>1, ConcatEmptySeq DEF CompletionsConserved

\* Every other step leaves the histories and the pending completions alone.
LEMMA KeptCompletions ==
    ASSUME IInv, UNCHANGED <<done, sent>>,
           ImrSta'.actionstates = ImrSta.actionstates
    PROVE  CompletionsConserved'
BY DEF IInv, CompletionsConserved

-----------------------------------------------------------------------------
\* The invariant is inductive.
LEMMA InvStep == IInv /\ [Next]_vars => IInv'
<1> SUFFICES ASSUME IInv, [Next]_vars PROVE IInv'
  OBVIOUS
<1>0. TypeOK'
  BY TypeStep DEF IInv
<1> SUFFICES Shape' /\ CompletionsConserved'
  BY <1>0 DEF IInv, Shape
<1> USE DEF ctrl, hist
<1>1. ASSUME NEW m \in Missions, RejectAT(m) PROVE Shape' /\ CompletionsConserved'
  BY <1>1, ShapeFrame, KeptCompletions DEF RejectAT
<1>2. ASSUME NEW m \in Missions, AdoptAndDrive(m) PROVE Shape' /\ CompletionsConserved'
  <2>1. ImrSta'.actionstates = ImrSta.actionstates
    BY <1>2 DEF AdoptAndDrive, UpdateStatus, IInv, TypeOK, IMRState
  <2> QED
    BY <1>2, <2>1, DriveShape, KeptCompletions DEF AdoptAndDrive, Adopt
<1>3. ASSUME NEW m \in Missions, AdoptAndLoop(m) PROVE Shape' /\ CompletionsConserved'
  BY <1>3, LoopShape, KeptCompletions DEF AdoptAndLoop, Adopt
<1>4. CASE LoopSkip
  BY <1>4, SkipShape, KeptCompletions DEF LoopSkip
<1>5. CASE LoopDone
  <2>1. ImrSta'.actionstates = ImrSta.actionstates
    BY <1>5 DEF LoopDone, UpdateStatus, IInv, TypeOK, IMRState
  <2> QED
    BY <1>5, <2>1, DoneShape, KeptCompletions DEF LoopDone
<1>6. CASE LoopPoint
  <2>1. ImrSta'.actionstates = ImrSta.actionstates
    BY <1>6 DEF LoopPoint, UpdateStatus, IInv, TypeOK, IMRState
  <2> QED
    BY <1>6, <2>1, PointShape, KeptCompletions DEF LoopPoint
<1>7. CASE LoopEnd
  BY <1>7, EndShape, KeptCompletions DEF LoopEnd
<1>8. CASE Arrive
  BY <1>8, ArriveShape, KeptCompletions DEF Arrive
<1>9. CASE Lifted
  BY <1>9, LiftedShape, LiftedCompletions
<1>10. CASE Block
  BY <1>10, BlockShape, KeptCompletions DEF Block
<1>11. CASE StaleWait
  BY <1>11, ShapeFrame, KeptCompletions DEF StaleWait
<1>12. ASSUME NEW p \in Place, NEW h \in Heights, LinkP40(p, h)
       PROVE  Shape' /\ CompletionsConserved'
  <2>1. /\ ImrSta'.orderid = ImrSta.orderid /\ ImrSta'.missionkey = ImrSta.missionkey
        /\ ImrSta'.actionstates = ImrSta.actionstates
    BY <1>12 DEF LinkP40, IInv, TypeOK, IMRState
  <2> QED
    BY <1>12, <2>1, ShapeFrame, KeptCompletions DEF LinkP40
<1>13. CASE SendStatus
  <2>1. ImrSta'.orderid = ImrSta.orderid /\ ImrSta'.missionkey = ImrSta.missionkey
    BY <1>13 DEF SendStatus, IInv, TypeOK, IMRState
  <2> QED
    BY <1>13, <2>1, ShapeFrame, SendCompletions DEF SendStatus
<1>14. CASE StopButton
  BY <1>14, StopShape, StopCompletions
<1>15. ASSUME NEW p \in PointIds, SettingButton(p) PROVE Shape' /\ CompletionsConserved'
  <2>1. /\ ImrSta'.orderid = ImrSta.orderid /\ ImrSta'.missionkey = ImrSta.missionkey
        /\ ImrSta'.actionstates = ImrSta.actionstates
    BY <1>15 DEF SettingButton, IInv, TypeOK, IMRState
  <2> QED
    BY <1>15, <2>1, ShapeFrame, KeptCompletions DEF SettingButton
<1>16. CASE SendRgButton
  BY <1>16, ShapeFrame, KeptCompletions DEF SendRgButton
<1>17. CASE ConnectOn
  BY <1>17, ConnectShape, KeptCompletions DEF ConnectOn, Socket
<1>18. CASE ConnectOff \/ LinkLost
  BY <1>18, ShapeFrame, KeptCompletions DEF ConnectOff, LinkLost, Socket
<1>19. CASE UNCHANGED vars
  BY <1>19, ShapeFrame, KeptCompletions DEF vars
<1>20. CASE SlotEnds
  BY <1>20, SlotShape, KeptCompletions DEF SlotEnds
<1> QED
  BY <1>1, <1>2, <1>3, <1>4, <1>5, <1>6, <1>7, <1>8, <1>9, <1>10, <1>11, <1>12,
     <1>13, <1>14, <1>15, <1>16, <1>17, <1>18, <1>19, <1>20
     DEF Next, ReceiveAT, Handler, Status, Events, Timeout, SendStButton

\* The inductive invariant holds in every behaviour.
LEMMA InvCorrect == Spec => []IInv
BY InvInit, InvStep, PTL DEF Spec

-----------------------------------------------------------------------------
(* The theorems.                                                           *)

\* Every status frame, also one sent from inside a wait, carries the order and
\* the key of the mission being executed.
THEOREM StatusCorrect == Spec => []StatusNamesMission
<1>1. IInv => StatusNamesMission
  BY YieldNamed DEF StatusNamesMission, Named
<1> QED
  BY <1>1, InvCorrect, PTL

\* A handler that waits in a slot of the current socket never loses the action it reads
\* again after processEvents: whatever older slots it is nested in, the wait lets no
\* other handler start before the socket is replaced (Stop excepted).
THEOREM WaitCorrect == Spec => []WaitInBounds
<1>1. IInv => WaitInBounds
  BY DEF IInv, BoundsInv, WaitInBounds, Waits
<1> QED
  BY <1>1, InvCorrect, PTL

\* Completions are put in status frames in order, each once, none forgotten.
THEOREM CompletionsCorrect == Spec => []CompletionsConserved
<1>1. IInv => CompletionsConserved
  BY DEF IInv
<1> QED
  BY <1>1, InvCorrect, PTL

\* An aim put last in the queue of signals is no lift.
LEMMA AimIsLast ==
    ASSUME TypeOK, task_Imr' \in Missions, NEW m \in Missions, UpdateStatus(m)
    PROVE  outbox'[Len(outbox')].kind = "aim"
<1>1. outbox' = Append(outbox, Aim(m)) /\ outbox \in Seq(Signal) /\ Aim(m) \in Signal
  BY AimType DEF UpdateStatus, TypeOK
<1>2. outbox'[Len(outbox')] = Aim(m)
  BY <1>1, AppendProperties
<1> QED
  BY <1>2 DEF Aim

\* The action a handler triggers was accepted and not triggered since, and the
\* robot has been seen at its point.
THEOREM LiftCorrect == Spec => LiftOnlyOwed
<1> DEFINE A == outbox' # outbox /\ outbox'[Len(outbox')].kind = "lift"
         => /\ <<task_Imr, i>> \in owed /\ <<task_Imr, i>> \notin owed'
            /\ outbox' = Append(outbox, Lift(task_Imr, i))
            /\ ImrSta.place = task_Imr.points[i].pointid
<1>1. IInv /\ [Next]_vars => [A]_vars
  <2> SUFFICES ASSUME IInv, Next, outbox' # outbox, outbox'[Len(outbox')].kind = "lift"
               PROVE  A
    OBVIOUS
  <2>1. CASE Arrive
    <3>1. i \in ActionPoints(task_Imr) /\ stack # << >> /\ Top.pc \in {"pos", "waitPos"}
      BY <2>1 DEF Arrive, HasValue, InRange, ActionPoints, Running
    <3>2. <<task_Imr, i>> \in owed
      BY <3>1 DEF IInv, OwedInv
    <3> QED
      BY <2>1, <3>2 DEF Arrive, AtTarget
  <2>2. ASSUME NEW m \in Missions, AdoptAndDrive(m) PROVE FALSE
    BY <2>2, AimIsLast, AdoptType DEF AdoptAndDrive, IInv
  <2>3. CASE LoopDone \/ LoopPoint
    <3>1. task_Imr \in Missions /\ task_Imr' = task_Imr /\ UpdateStatus(task_Imr)
      BY <2>3, InRangeReal DEF LoopDone, LoopPoint, IInv, TypeOK
    <3> QED
      BY <3>1, AimIsLast DEF IInv
  <2> QED
    BY <2>1, <2>2, <2>3
       DEF Next, ReceiveAT, Handler, Status, Events, RejectAT, AdoptAndLoop, LoopSkip, LoopEnd,
           SlotEnds, Lifted, Block, StaleWait, LinkP40, Timeout, SendStButton, SendStatus,
           StopButton, SettingButton, SendRgButton, ConnectOn, ConnectOff, LinkLost,
           Socket
<1>2. Spec => [][A]_vars
  BY <1>1, InvCorrect, PTL DEF Spec
<1> QED
  BY <1>2 DEF LiftOnlyOwed

-----------------------------------------------------------------------------
(* The hypotheses of the theorems below.  Missions of two points are the   *)
(* ones the handlers are written for: updateStatus, ID and Param read only *)
(* the points 1 and 2.                                                     *)

NoStop    == "stop" \notin Inputs
TwoPoints == \A m \in Missions : Len(m.points) = 2
OneOrder  == \A m, n \in Missions : m.orderid = n.orderid

-----------------------------------------------------------------------------
(* The handlers that wait for a lift.                                      *)

LiftPcs == {"height", "waitHeight"}

\* Moving the innermost handler on makes it one of them, or takes it away.
LEMMA GotoLifting ==
    ASSUME TypeOK, stack # << >>, NEW pc \in Pcs, Goto(pc)
    PROVE  /\ pc \in LiftPcs => Lifting' = Lifting \cup {Len(stack)}
           /\ pc \notin LiftPcs => Lifting' = Lifting \ {Len(stack)}
           /\ Top.pc \in LiftPcs <=> Len(stack) \in Lifting
<1>1. Len(stack) \in 1..Len(stack) /\ Top \in Frame /\ Top = stack[Len(stack)]
  BY TopIn
<1>2. [Top EXCEPT !.pc = pc] \in Frame /\ [Top EXCEPT !.pc = pc].pc = pc
  BY <1>1 DEF Frame, Pcs
<1>3. stack' = [stack EXCEPT ![Len(stack)] = [Top EXCEPT !.pc = pc]]
  BY <1>1 DEF Goto, Top
<1>4. /\ Len(stack') = Len(stack)
      /\ \A k \in 1..Len(stack) : stack'[k] = IF k = Len(stack)
                                              THEN [Top EXCEPT !.pc = pc] ELSE stack[k]
  <2>1. stack \in Seq(Frame)
    BY DEF TypeOK
  <2> QED
    BY <1>1, <1>2, <1>3, <2>1, ExceptSeq
<1> QED
  BY <1>1, <1>2, <1>4 DEF Lifting, LiftPcs

\* A handler that starts is in its loop and waits for no lift.
LEMMA LoopLifting ==
    ASSUME TypeOK, NEW m \in Missions, AdoptAndLoop(m)
    PROVE  Lifting' = Lifting
<1>1. /\ stack' # << >> /\ stack'[Len(stack')].pc = "loop" /\ Len(stack) \in Nat
      /\ Len(stack') \in Nat
  BY LoopStack DEF Top, TypeOK
<1>2. CASE InSlot
  <2>1. Len(stack) \in 1..Len(stack) /\ stack[Len(stack)].pc = "slot"
    BY <1>2, TopIn DEF InSlot, Running
  <2> QED
    BY <1>1, <1>2, <2>1, LoopStack DEF Lifting
<1>3. CASE ~InSlot
  BY <1>1, <1>3, LoopStack DEF Lifting
<1> QED
  BY <1>2, <1>3

\* A handler that returns was in its loop too.
LEMMA EndLifting ==
    ASSUME TypeOK, LoopEnd
    PROVE  Lifting' = Lifting
BY GotoLifting DEF LoopEnd, Running, LiftPcs, Pcs

\* A slot that returns has no handler.
LEMMA SlotLifting ==
    ASSUME TypeOK, SlotEnds
    PROVE  Lifting' = Lifting
<1>1. /\ stack # << >> /\ Top.pc = "slot" /\ stack' = SubSeq(stack, 1, Len(stack) - 1)
      /\ stack \in Seq(Frame)
  BY DEF SlotEnds, InSlot, Running, TypeOK
<1>2. Len(stack) \in 1..Len(stack) /\ Top = stack[Len(stack)]
  BY <1>1, TopIn
<1>3. /\ Len(stack') = Len(stack) - 1
      /\ \A k \in 1..Len(stack) - 1 : stack'[k] = stack[k]
  BY <1>1, Popped
<1> QED
  BY <1>1, <1>2, <1>3 DEF Lifting

\* A wait begins without a new lift.
LEMMA BlockLifting ==
    ASSUME TypeOK, Block
    PROVE  Lifting' = Lifting
BY GotoLifting DEF Block, Running, LiftPcs, Pcs

-----------------------------------------------------------------------------
(* The lifts counted.                                                      *)

\* Where the lifts are in a sequence of signals.
LiftsIn(s) == {k \in 1..Len(s) : IsLift(s[k])}

\* They are finitely many.
LEMMA LiftsFinite ==
    ASSUME NEW s \in Seq(Signal)
    PROVE  IsFiniteSet(LiftsIn(s)) /\ Cardinality(LiftsIn(s)) \in Nat
<1>1. IsFiniteSet(1..Len(s))
  BY FS_Interval
<1>2. IsFiniteSet(LiftsIn(s))
  BY <1>1, FS_Subset DEF LiftsIn
<1> QED
  BY <1>2, FS_CardinalityType

\* One signal more is one lift more exactly when it is a lift.
LEMMA AppendLifts ==
    ASSUME NEW s \in Seq(Signal), NEW x \in Signal
    PROVE  /\ IsLift(x)  => Cardinality(LiftsIn(Append(s, x))) = Cardinality(LiftsIn(s)) + 1
           /\ ~IsLift(x) => LiftsIn(Append(s, x)) = LiftsIn(s)
<1> DEFINE t == Append(s, x)
<1>1. /\ Len(t) = Len(s) + 1 /\ Len(s) \in Nat /\ t[Len(s) + 1] = x
      /\ \A k \in 1..Len(s) : t[k] = s[k]
  BY AppendProperties
<1> HIDE DEF t
<1>2. IsLift(x) => LiftsIn(t) = LiftsIn(s) \cup {Len(s) + 1}
  BY <1>1 DEF LiftsIn
<1>3. ~IsLift(x) => LiftsIn(t) = LiftsIn(s)
  BY <1>1 DEF LiftsIn
<1>4. Len(s) + 1 \notin LiftsIn(s)
  BY <1>1 DEF LiftsIn
<1>5. Cardinality(LiftsIn(s) \cup {Len(s) + 1}) = Cardinality(LiftsIn(s)) + 1
  BY <1>4, LiftsFinite, FS_AddElement
<1> QED
  BY <1>2, <1>3, <1>5 DEF t

\* The handlers that wait for a lift are finitely many.
LEMMA LiftingFinite ==
    ASSUME TypeOK
    PROVE  IsFiniteSet(Lifting) /\ Cardinality(Lifting) \in Nat
<1>1. IsFiniteSet(1..Len(stack))
  BY FS_Interval DEF TypeOK
<1>2. IsFiniteSet(Lifting)
  BY <1>1, FS_Subset DEF Lifting
<1> QED
  BY <1>2, FS_CardinalityType

\* The count is kept by a step that sends no lift and records no completion.
LEMMA CountKept ==
    ASSUME EveryLiftReported, UNCHANGED done, Lifting' = Lifting,
           LiftsIn(outbox)' = LiftsIn(outbox)
    PROVE  EveryLiftReported'
BY DEF EveryLiftReported, LiftsIn

\* updateStatus sends no lift.
LEMMA UpdateLifts ==
    ASSUME TypeOK, NEW m \in Missions, UpdateStatus(m)
    PROVE  LiftsIn(outbox)' = LiftsIn(outbox)
<1>1. ~IsLift(Aim(m)) /\ Aim(m) \in Signal /\ outbox \in Seq(Signal)
  BY AimType DEF IsLift, Aim, TypeOK
<1> QED
  BY <1>1, AppendLifts DEF UpdateStatus

\* The lift of Arrive is the one its handler now waits for.
LEMMA ArriveCount ==
    ASSUME TypeOK, EveryLiftReported, Arrive
    PROVE  EveryLiftReported'
<1>1. /\ task_Imr \in Missions /\ i \in ActionPoints(task_Imr) /\ stack # << >>
      /\ Top.pc \in {"pos", "waitPos"}
  BY InRangeReal DEF Arrive, HasValue, InRange, ActionPoints, Running, TypeOK
<1>2. Lifting' = Lifting \cup {Len(stack)} /\ Len(stack) \notin Lifting
  BY <1>1, GotoLifting DEF Arrive, LiftPcs, Pcs
<1>3. Cardinality(Lifting') = Cardinality(Lifting) + 1
  BY <1>2, LiftingFinite, FS_AddElement
<1>4. IsLift(Lift(task_Imr, i)) /\ Lift(task_Imr, i) \in Signal /\ outbox \in Seq(Signal)
  BY <1>1, LiftType DEF IsLift, Lift, TypeOK
<1>5. Cardinality(LiftsIn(outbox)') = Cardinality(LiftsIn(outbox)) + 1
  BY <1>4, AppendLifts DEF Arrive
<1>6. done' = done /\ Len(done) \in Nat
  BY DEF Arrive, TypeOK
<1> QED
  BY <1>3, <1>5, <1>6, LiftingFinite DEF EveryLiftReported, LiftsIn

\* A completion ends the wait for one lift.
LEMMA LiftedCount ==
    ASSUME TypeOK, EveryLiftReported, Lifted
    PROVE  EveryLiftReported'
<1>1. stack # << >> /\ Top.pc \in LiftPcs /\ Goto("loop")
  BY DEF Lifted, Running, LiftPcs
<1>2. Lifting' = Lifting \ {Len(stack)} /\ Len(stack) \in Lifting
  BY <1>1, GotoLifting DEF LiftPcs, Pcs
<1>3. Cardinality(Lifting') = Cardinality(Lifting) - 1
  BY <1>2, LiftingFinite, FS_RemoveElement
<1>4. outbox' = outbox /\ Len(done') = Len(done) + 1 /\ Len(done) \in Nat
  BY DEF Lifted, TypeOK
<1> QED
  BY <1>3, <1>4, LiftingFinite DEF EveryLiftReported

\* Every step but Stop keeps the count.
LEMMA CountStep ==
    ASSUME NoStop
    PROVE  TypeOK /\ EveryLiftReported /\ [Next]_vars => EveryLiftReported'
<1> SUFFICES ASSUME TypeOK, EveryLiftReported, [Next]_vars PROVE EveryLiftReported'
  OBVIOUS
<1>1. ASSUME UNCHANGED <<stack, outbox, done>> PROVE EveryLiftReported'
  BY <1>1, CountKept DEF Lifting
<1>2. ASSUME NEW m \in Missions, AdoptAndDrive(m) PROVE EveryLiftReported'
  BY <1>2, UpdateLifts, CountKept DEF AdoptAndDrive, Adopt, Lifting
<1>3. ASSUME NEW m \in Missions, AdoptAndLoop(m) PROVE EveryLiftReported'
  BY <1>3, LoopLifting, CountKept DEF AdoptAndLoop, Adopt
<1>4. CASE LoopDone \/ LoopPoint
  <2>1. task_Imr \in Missions
    BY <1>4, InRangeReal DEF LoopDone, LoopPoint, TypeOK
  <2>2. Lifting' = Lifting
    BY <1>4, GotoLifting DEF LoopDone, LoopPoint, Running, LiftPcs, Pcs, Lifting
  <2> QED
    BY <1>4, <2>1, <2>2, UpdateLifts, CountKept DEF LoopDone, LoopPoint, hist
<1>5. CASE LoopEnd \/ SlotEnds
  BY <1>5, EndLifting, SlotLifting, CountKept DEF LoopEnd, SlotEnds, hist
<1>6. CASE Arrive
  BY <1>6, ArriveCount
<1>7. CASE Lifted
  BY <1>7, LiftedCount
<1>8. CASE Block
  BY <1>8, BlockLifting, CountKept DEF Block, hist
<1>9. CASE StopButton
  BY <1>9 DEF NoStop, StopButton
<1> QED
  BY <1>1, <1>2, <1>3, <1>4, <1>5, <1>6, <1>7, <1>8, <1>9
     DEF Next, ReceiveAT, Handler, Status, Events, RejectAT, LoopSkip, StaleWait, LinkP40,
         Timeout, SendStButton, SendStatus, SettingButton, SendRgButton, ConnectOn,
         ConnectOff, LinkLost, Socket, hist, vars

\* Every lift the robot was told to do is recorded as one completion, or a handler
\* still waits for it, with any nesting of handlers and any reconnections (no Stop).
THEOREM LiftsReported ==
    ASSUME NoStop
    PROVE  Spec => []EveryLiftReported
<1>1. Init => EveryLiftReported
  <2> SUFFICES ASSUME Init PROVE EveryLiftReported
    OBVIOUS
  <2>1. Len(stack) = 0 /\ Len(outbox) = 0 /\ Len(done) = 0
    BY EmptySeq DEF Init
  <2>2. Lifting = {} /\ {k \in 1..Len(outbox) : IsLift(outbox[k])} = {}
    BY <2>1 DEF Lifting
  <2> QED
    BY <2>1, <2>2, FS_EmptySet DEF EveryLiftReported
<1> QED
  BY <1>1, CountStep, TypeCorrect, PTL DEF Spec

-----------------------------------------------------------------------------
(* Accepted actions are served.                                            *)

\* Only the innermost handler is between two waits.
NestInv == \A k \in 1..Len(stack) - 1 : stack[k].pc \in Waits

\* The owed actions belong to the mission being executed and are still ahead.
Ahead ==
    \A t \in owed :
        /\ t[1] = task_Imr /\ t[2] \in ActionPoints(task_Imr)
        /\ i < t[2] \/ (i = t[2] /\ Top.pc \notin LiftPcs)

\* A single handler that is in its loop or can read an action has all that is owed
\* ahead; when it returns nothing is left.  (A handler interrupted by another one
\* finds i behind the mission, or its action gone, when the slot of the other one
\* returns: it never reaches its loop again.)
ServedInv ==
    alive => /\ stack = << >> => owed = {}
             /\ stack # << >> /\ Top.pc = "slot" => i \notin ActionPoints(task_Imr)
             /\ Len(stack) = 1 /\ Top.pc = "slot" => owed = {}
             /\ Len(stack) = 1 /\ (Top.pc = "loop" \/ i \in ActionPoints(task_Imr)) => Ahead

\* No handler is on the stack exactly when its length is 0.
LEMMA Len0 ==
    ASSUME TypeOK
    PROVE  Len(stack) \in Nat /\ (stack = << >> <=> Len(stack) = 0)
<1>1. stack \in Seq(Frame)
  BY DEF TypeOK
<1> QED
  BY <1>1, EmptySeq

\* Moving the innermost handler on leaves the others in their waits.
LEMMA GotoNest ==
    ASSUME TypeOK, NestInv, stack # << >>,
           NEW pc \in Pcs, Goto(pc)
    PROVE  NestInv'
<1>1. stack \in Seq(Frame) /\ Len(stack) \in 1..Len(stack) /\ Top \in Frame
  BY TopIn DEF TypeOK
<1>2. [Top EXCEPT !.pc = pc] \in Frame
  BY <1>1 DEF Frame, Pcs
<1>3. stack' = [stack EXCEPT ![Len(stack)] = [Top EXCEPT !.pc = pc]]
  BY <1>1 DEF Goto, Top
<1>4. /\ Len(stack') = Len(stack)
      /\ \A k \in 1..Len(stack) - 1 : stack'[k] = stack[k]
  BY <1>1, <1>2, <1>3, ExceptSeq
<1> QED
  BY <1>4 DEF NestInv

\* A new handler starts only while the innermost one waits.
LEMMA LoopNest ==
    ASSUME TypeOK, NestInv, NEW m \in Missions, AdoptAndLoop(m)
    PROVE  NestInv'
<1>1. Len(stack) \in Nat
  BY DEF TypeOK
<1>2. CASE InSlot
  BY <1>1, <1>2, LoopStack DEF NestInv
<1>3. CASE ~InSlot
  <2>1. ASSUME NEW k \in 1..Len(stack) PROVE stack[k].pc \in Waits
    <3>1. stack # << >>
      BY <1>1, <2>1, EmptySeq
    <3>2. Top.pc \in Waits
      BY <1>3, <3>1 DEF AdoptAndLoop, Adopt, CanReceive, Yielding
    <3> QED
      BY <1>1, <3>1, <3>2, TopIn DEF NestInv
  <2> QED
    BY <1>1, <1>3, <2>1, LoopStack DEF NestInv
<1> QED
  BY <1>2, <1>3

\* The handler under a slot that returns is in a wait.
LEMMA EndNest ==
    ASSUME TypeOK, NestInv, SlotEnds
    PROVE  /\ NestInv' /\ Len(stack') = Len(stack) - 1
           /\ stack' # << >> => Top'.pc \in Waits
<1>1. /\ stack # << >> /\ stack' = SubSeq(stack, 1, Len(stack) - 1)
      /\ stack \in Seq(Frame)
  BY DEF SlotEnds, InSlot, Running, TypeOK
<1>2. /\ Len(stack') = Len(stack) - 1 /\ stack' \in Seq(Frame)
      /\ \A k \in 1..Len(stack) - 1 : stack'[k] = stack[k]
  BY <1>1, Popped
<1>3. Len(stack) \in Nat /\ (stack' # << >> => Len(stack') \in 1..Len(stack) - 1)
  BY <1>1, <1>2, EmptySeq
<1> QED
  BY <1>2, <1>3 DEF NestInv, Top

\* The innermost handler alone runs: NestInv holds after every step.
LEMMA NestStep == TypeOK /\ NestInv /\ [Next]_vars => NestInv'
<1> SUFFICES ASSUME TypeOK, NestInv, [Next]_vars PROVE NestInv'
  OBVIOUS
<1>1. ASSUME stack' = stack PROVE NestInv'
  BY <1>1 DEF NestInv
<1>2. ASSUME NEW m \in Missions, AdoptAndLoop(m) PROVE NestInv'
  BY <1>2, LoopNest
<1>3. CASE LoopPoint \/ LoopEnd \/ Arrive \/ Lifted \/ Block
  BY <1>3, GotoNest DEF LoopPoint, LoopEnd, Arrive, Lifted, Block, Running, Pcs
<1>4. CASE SlotEnds
  BY <1>4, EndNest
<1> QED
  BY <1>1, <1>2, <1>3, <1>4
     DEF Next, ReceiveAT, Handler, Status, Events, RejectAT, AdoptAndDrive, LoopSkip, LoopDone,
         StaleWait, LinkP40, Timeout, SendStButton, SendStatus, StopButton, SettingButton,
         SendRgButton, ConnectOn, ConnectOff, LinkLost, Socket, vars

\* With one order a mission that starts no loop has no action.
LEMMA DriveNoAction ==
    ASSUME TwoPoints, OneOrder, TypeOK, NEW m \in Missions, AdoptAndDrive(m)
    PROVE  ActionPoints(m) = {}
<1>1. ~OtherOrder(m)
  BY DEF OtherOrder, FirstOrder, SameOrder, TypeOK, Mission0, OneOrder
<1>2. ~HasActions(m)
  BY <1>1 DEF AdoptAndDrive
<1>3. ActionPoints(m) \subseteq 1..2
  BY DEF ActionPoints, TwoPoints
<1> QED
  BY <1>2, <1>3 DEF HasActions

\* A slot or a wait is where missions are accepted.
LEMMA ReceiveWhere ==
    ASSUME CanReceive
    PROVE  alive /\ (stack # << >> => Top.pc \in Waits \cup {"slot"})
BY DEF CanReceive, Yielding, InSlot, Running

\* Accepting a mission without actions owes nothing new, and a handler that waits
\* has lost its action.
LEMMA DriveServed ==
    ASSUME TwoPoints, OneOrder, TypeOK, ServedInv, NEW m \in Missions, AdoptAndDrive(m)
    PROVE  ServedInv'
<1>1. /\ task_Imr' = m /\ owed' = owed \cup ({m} \X ActionPoints(m))
      /\ UNCHANGED <<alive, stack>> /\ alive /\ (stack # << >> => Top.pc \in Waits \cup {"slot"})
  BY ReceiveWhere DEF AdoptAndDrive, Adopt, ctrl
<1>2. ActionPoints(m) = {} /\ owed' = owed
  BY <1>1, DriveNoAction
<1>3. Len(stack) = 1 => stack # << >>
  BY Len0
<1> QED
  BY <1>1, <1>2, <1>3 DEF ServedInv, Waits, Top, ActionPoints

\* All actions of a mission are ahead when its handler starts.
LEMMA LoopServed ==
    ASSUME TypeOK, ServedInv, NEW m \in Missions, AdoptAndLoop(m)
    PROVE  ServedInv'
<1>1. /\ task_Imr' = m /\ owed' = owed \cup ({m} \X ActionPoints(m)) /\ i' = 1
      /\ alive
  BY ReceiveWhere DEF AdoptAndLoop, Adopt
<1>2. Top'.pc = "loop" /\ stack' # << >>
  BY LoopStack
<1>3. ASSUME Len(stack') = 1 PROVE owed = {}
  <2>1. CASE InSlot
    <3>1. Len(stack) = 1 /\ Top.pc = "slot"
      BY <1>3, <2>1, LoopStack DEF InSlot, Running
    <3> QED
      BY <1>1, <3>1 DEF ServedInv
  <2>2. CASE ~InSlot
    <3>1. Len(stack) + 1 = 1
      BY <1>3, <2>2, LoopStack
    <3>2. \A n \in Nat : n + 1 = 1 => n = 0
      OBVIOUS
    <3>3. stack = << >>
      BY <3>1, <3>2, Len0, Zenon
    <3> QED
      BY <1>1, <3>3 DEF ServedInv
  <2> QED
    BY <2>1, <2>2
<1>4. ASSUME Len(stack') = 1 PROVE Ahead'
  <2>1. \A t \in owed' : t[1] = m /\ t[2] \in ActionPoints(m)
    BY <1>1, <1>3, <1>4
  <2>2. \A k \in ActionPoints(m) : k \in Nat /\ k >= 1
    BY MissionFacts DEF ActionPoints
  <2>3. \A t \in owed' : i' < t[2] \/ i' = t[2]
    BY <1>1, <2>1, <2>2
  <2>4. ActionPoints(task_Imr)' = ActionPoints(m)
    BY <1>1 DEF ActionPoints
  <2> QED
    BY <1>1, <1>2, <2>1, <2>3, <2>4 DEF Ahead, LiftPcs
<1> QED
  BY <1>2, <1>4 DEF ServedInv

\* When a handler returns, it is past every action of the mission.
LEMMA EndServed ==
    ASSUME TypeOK, ServedInv, LoopEnd
    PROVE  ServedInv'
<1>1. /\ i > Len(task_Imr.points) /\ UNCHANGED <<task_Imr, i, owed>>
      /\ alive /\ stack # << >> /\ Top.pc = "loop"
  BY DEF LoopEnd, Running, hist
<1>2. stack' # << >> /\ Len(stack') = Len(stack) /\ Top'.pc = "slot"
  BY GotoTop DEF LoopEnd, Running, Pcs
<1>3. \A k \in ActionPoints(task_Imr) : k < i /\ k \in Nat /\ i \in Nat
  <2>1. Len(task_Imr.points) \in Nat /\ i \in Nat
    BY MissionFacts, EmptySeq DEF TypeOK, Mission0
  <2> QED
    BY <1>1, <2>1 DEF ActionPoints
<1>4. i' \notin ActionPoints(task_Imr)'
  BY <1>1, <1>3 DEF ActionPoints
<1>5. Len(stack) = 1 => owed' = {}
  BY <1>1, <1>3 DEF ServedInv, Ahead
<1> QED
  BY <1>2, <1>4, <1>5 DEF ServedInv

\* When the last slot returns nothing is owed; a handler under another slot has lost
\* its action.
LEMMA SlotServed ==
    ASSUME TypeOK, NestInv, ServedInv, SlotEnds
    PROVE  ServedInv'
<1>1. /\ UNCHANGED <<task_Imr, i, owed>> /\ stack' = SubSeq(stack, 1, Len(stack) - 1)
      /\ alive /\ stack # << >> /\ Top.pc = "slot"
  BY DEF SlotEnds, InSlot, Running, hist
<1>2. Len(stack') = Len(stack) - 1 /\ (stack' # << >> => Top'.pc \in Waits)
  BY EndNest
<1>3. stack \in Seq(Frame) /\ Len(stack) \in Nat \ {0} /\ stack' \in Seq(Frame)
  BY <1>1, Popped, EmptySeq DEF TypeOK
<1>4. stack' = << >> => Len(stack) = 1
  BY <1>2, <1>3, EmptySeq
<1>5. Len(stack') = 1 => stack' # << >>
  <2>1. Len(<< >>) # 1
    OBVIOUS
  <2> QED
    BY <2>1
<1>6. i' \notin ActionPoints(task_Imr)'
  BY <1>1 DEF ServedInv, ActionPoints
<1> QED
  BY <1>1, <1>2, <1>4, <1>5, <1>6 DEF ServedInv, Waits

\* A handler that moves on from an action it can read keeps the later ones ahead.
LEMMA HandlerServed ==
    ASSUME TypeOK, ServedInv, LoopSkip \/ LoopDone \/ LoopPoint \/ Arrive \/ Lifted \/ Block
    PROVE  ServedInv'
<1>1. alive /\ stack # << >> /\ task_Imr' = task_Imr
      /\ Len(stack') = Len(stack) /\ stack' # << >> /\ Top'.pc # "slot"
  <2>1. CASE LoopSkip \/ LoopDone
    BY <2>1 DEF LoopSkip, LoopDone, Running, Top
  <2>2. CASE LoopPoint \/ Arrive \/ Lifted \/ Block
    BY <2>2, GotoTop DEF LoopPoint, Arrive, Lifted, Block, Running, Pcs
  <2> QED
    BY <2>1, <2>2
<1>2. i \in Nat /\ ActionPoints(task_Imr) \subseteq Nat
      /\ ActionPoints(task_Imr)' = ActionPoints(task_Imr)
  BY <1>1 DEF TypeOK, ActionPoints
<1>3. \A t \in owed : t = <<t[1], t[2]>>
  BY DEF TypeOK
<1> SUFFICES ASSUME Len(stack) = 1, Ahead PROVE Ahead'
  <2>1. Len(stack') = 1 => Len(stack) = 1
    BY <1>1
  <2>2. Top.pc = "loop" \/ i \in ActionPoints(task_Imr)
    BY DEF LoopSkip, LoopDone, LoopPoint, Arrive, Lifted, Block, HasValue, InRange,
           ActionPoints, Running
  <2> QED
    BY <1>1, <2>1, <2>2 DEF ServedInv
<1>4. CASE LoopSkip
  <2>1. /\ i' = i + 1 /\ owed' = owed /\ Top' = Top /\ Top.pc = "loop"
        /\ i \notin ActionPoints(task_Imr)
    BY <1>4 DEF LoopSkip, Running, ActionPoints, Top, hist
  <2> QED
    BY <1>1, <1>2, <2>1 DEF Ahead, LiftPcs
<1>5. CASE LoopDone
  <2>1. /\ i' = i + 1 /\ owed' = owed \ {<<task_Imr, i>>} /\ Top' = Top /\ Top.pc = "loop"
    BY <1>5 DEF LoopDone, Running, Top
  <2> QED
    BY <1>1, <1>2, <1>3, <2>1 DEF Ahead, LiftPcs
<1>6. CASE LoopPoint
  <2>1. i' = i /\ owed' = owed /\ Top'.pc = "pos"
    BY <1>6, GotoTop DEF LoopPoint, Running, hist, Pcs
  <2> QED
    BY <1>1, <1>2, <2>1 DEF Ahead, LiftPcs
<1>7. CASE Arrive
  <2>1. i' = i /\ owed' = owed \ {<<task_Imr, i>>}
    BY <1>7 DEF Arrive
  <2>2. ASSUME NEW t \in owed' PROVE t \in owed /\ t[2] # i
    BY <1>3, <2>1 DEF Ahead
  <2>3. ASSUME NEW t \in owed'
        PROVE  t[1] = task_Imr /\ t[2] \in ActionPoints(task_Imr) /\ i < t[2]
    BY <1>2, <2>2 DEF Ahead
  <2> QED
    BY <1>1, <1>2, <2>1, <2>3 DEF Ahead
<1>8. CASE Lifted
  <2>1. i' = i + 1 /\ owed' = owed /\ Top'.pc = "loop" /\ Top.pc \in LiftPcs
    BY <1>8, GotoTop DEF Lifted, Running, LiftPcs, Pcs
  <2> QED
    BY <1>1, <1>2, <2>1 DEF Ahead, LiftPcs
<1>9. CASE Block
  <2>1. i' = i /\ owed' = owed /\ (Top'.pc \in LiftPcs <=> Top.pc \in LiftPcs)
    BY <1>9, GotoTop DEF Block, Running, LiftPcs, hist, Pcs
  <2> QED
    BY <1>1, <1>2, <2>1 DEF Ahead
<1> QED
  BY <1>4, <1>5, <1>6, <1>7, <1>8, <1>9

\* Every step keeps what is owed ahead of the handlers.
LEMMA ServedStep ==
    ASSUME TwoPoints, OneOrder
    PROVE  TypeOK /\ NestInv /\ ServedInv /\ [Next]_vars => ServedInv'
<1> SUFFICES ASSUME TypeOK, NestInv, ServedInv, [Next]_vars PROVE ServedInv'
  OBVIOUS
<1>1. ASSUME alive' => alive, UNCHANGED <<task_Imr, stack, i, owed>> PROVE ServedInv'
  BY <1>1 DEF ServedInv, Ahead, Top, ActionPoints
<1>2. ASSUME NEW m \in Missions, AdoptAndDrive(m) PROVE ServedInv'
  BY <1>2, DriveServed
<1>3. ASSUME NEW m \in Missions, AdoptAndLoop(m) PROVE ServedInv'
  BY <1>3, LoopServed
<1>4. CASE LoopSkip \/ LoopDone \/ LoopPoint \/ Arrive \/ Lifted \/ Block
  BY <1>4, HandlerServed
<1>5. CASE LoopEnd \/ SlotEnds
  BY <1>5, EndServed, SlotServed
<1>6. CASE StopButton
  BY <1>6, EmptySeq DEF StopButton, ServedInv, Ahead, Mission0, ActionPoints
<1>7. CASE StaleWait
  BY <1>7 DEF StaleWait, ServedInv
<1>8. CASE SendStatus
  BY <1>1, <1>8 DEF SendStatus, Yielding
<1>9. CASE SendRgButton
  BY <1>1, <1>9 DEF SendRgButton, Yielding, hist
<1>10. ASSUME NEW m \in Missions, RejectAT(m) PROVE ServedInv'
  BY <1>1, <1>10, ReceiveWhere DEF RejectAT, hist
<1>11. ASSUME UNCHANGED <<alive, task_Imr, stack, i, owed>> PROVE ServedInv'
  BY <1>1, <1>11
<1>12. CASE Status \/ (\E p \in PointIds : SettingButton(p)) \/ UNCHANGED vars
  BY <1>11, <1>12 DEF Status, LinkP40, SettingButton, ctrl, hist, vars
<1>13. CASE ConnectOn \/ ConnectOff \/ LinkLost
  BY <1>11, <1>13 DEF ConnectOn, ConnectOff, LinkLost, Socket, hist
<1> QED
  BY <1>2, <1>3, <1>4, <1>5, <1>6, <1>7, <1>8, <1>9, <1>10, <1>12, <1>13
     DEF Next, ReceiveAT, Handler, Events, Timeout, SendStButton

\* With missions of two points of one order, each action the robot has accepted has been
\* triggered or found done when the last slot has returned, with any nesting of handlers,
\* any reconnections and any Stop.
THEOREM ActionsAreServed ==
    ASSUME TwoPoints, OneOrder
    PROVE  Spec => []ActionsServed
<1>1. Init => NestInv /\ ServedInv
  <2> SUFFICES ASSUME Init PROVE NestInv /\ ServedInv
    OBVIOUS
  <2>1. stack = << >> /\ Len(stack) = 0 /\ owed = {}
    BY EmptySeq DEF Init
  <2> QED
    BY <2>1 DEF NestInv, ServedInv
<1>2. ServedInv => ActionsServed
  BY DEF ServedInv, ActionsServed
<1> QED
  BY <1>1, <1>2, NestStep, ServedStep, TypeCorrect, PTL DEF Spec

-----------------------------------------------------------------------------
(* The aims form one path.                                                 *)

\* The last aim of a sequence of signals is at j.
LastAim(s, j) ==
    j \in 1..Len(s) /\ IsAim(s[j]) /\ \A n \in (j + 1)..Len(s) : ~IsAim(s[n])

\* The P40 has been sent where the mission goes.
Headed == \E j \in 1..Len(outbox) : LastAim(outbox, j) /\ outbox[j] = Aim(task_Imr)

\* Its handler has not aimed yet, and the P40 is sent where the mission begins.
Heading ==
    /\ stack # << >> /\ Top.pc = "loop" /\ \E k \in ActionPoints(task_Imr) : i <= k
    /\ \A j \in 1..Len(outbox) :
           LastAim(outbox, j) => outbox[j].to = task_Imr.points[1].pointid

\* Before the first mission nothing was aimed at; afterwards the last aim is that of
\* the mission, or ends where the mission begins and the mission's own aim is ahead.
AimInv ==
    /\ task_Imr = Mission0 => \A n \in 1..Len(outbox) : ~IsAim(outbox[n])
    /\ task_Imr # Mission0 => Headed \/ Heading

\* There is one last aim.
LEMMA LastAimUnique ==
    ASSUME NEW s \in Seq(Signal), NEW j, NEW k, LastAim(s, j), LastAim(s, k)
    PROVE  j = k
<1>1. j \in 1..Len(s) /\ k \in 1..Len(s) /\ Len(s) \in Nat
  BY DEF LastAim
<1>2. ~(j < k) /\ ~(k < j)
  BY <1>1 DEF LastAim
<1> QED
  BY <1>1, <1>2

\* An aim put last is the last aim.
LEMMA AppendAim ==
    ASSUME NEW s \in Seq(Signal), NEW x \in Signal, IsAim(x)
    PROVE  \A j : LastAim(Append(s, x), j) <=> j = Len(s) + 1
<1> DEFINE t == Append(s, x)
<1>1. /\ Len(t) = Len(s) + 1 /\ Len(s) \in Nat /\ t[Len(s) + 1] = x
  BY AppendProperties
<1> HIDE DEF t
<1>2. ASSUME NEW j, LastAim(t, j) PROVE j = Len(s) + 1
  BY <1>1, <1>2 DEF LastAim
<1>3. LastAim(t, Len(s) + 1)
  BY <1>1 DEF LastAim
<1> QED
  BY <1>2, <1>3 DEF t

\* Any other signal leaves the last aim where it is.
LEMMA AppendOther ==
    ASSUME NEW s \in Seq(Signal), NEW x \in Signal, ~IsAim(x)
    PROVE  \A j : /\ LastAim(Append(s, x), j) <=> LastAim(s, j)
                  /\ LastAim(s, j) => Append(s, x)[j] = s[j]
<1> DEFINE t == Append(s, x)
<1>1. /\ Len(t) = Len(s) + 1 /\ Len(s) \in Nat /\ t[Len(s) + 1] = x
      /\ \A k \in 1..Len(s) : t[k] = s[k]
  BY AppendProperties
<1> HIDE DEF t
<1>2. ASSUME NEW j, LastAim(t, j) PROVE LastAim(s, j)
  BY <1>1, <1>2 DEF LastAim
<1>3. ASSUME NEW j, LastAim(s, j) PROVE LastAim(t, j) /\ t[j] = s[j]
  BY <1>1, <1>3 DEF LastAim
<1> QED
  BY <1>2, <1>3 DEF t

\* The path is kept by a signal that is no aim, or that goes on from the last one.
LEMMA ChainAppend ==
    ASSUME outbox \in Seq(Signal), AimsChain, NEW x \in Signal, outbox' = Append(outbox, x),
           IsAim(x) => \A j \in 1..Len(outbox) :
               LastAim(outbox, j) => x = outbox[j] \/ x.from = outbox[j].to
    PROVE  AimsChain'
<1>1. /\ Len(outbox') = Len(outbox) + 1 /\ Len(outbox) \in Nat
      /\ outbox'[Len(outbox) + 1] = x
      /\ \A k \in 1..Len(outbox) : outbox'[k] = outbox[k]
  BY AppendProperties
<1> SUFFICES ASSUME NEW k \in 1..Len(outbox'), NEW n \in 1..Len(outbox'),
                    k < n, IsAim(outbox'[k]), IsAim(outbox'[n]),
                    \A j \in (k + 1)..(n - 1) : ~IsAim(outbox'[j])
             PROVE  outbox'[n] = outbox'[k] \/ outbox'[n].from = outbox'[k].to
  BY DEF AimsChain, IsAim
<1>2. k \in 1..Len(outbox) /\ outbox'[k] = outbox[k]
  BY <1>1
<1>3. CASE n = Len(outbox) + 1
  <2>1. \A j \in (k + 1)..Len(outbox) : ~IsAim(outbox[j])
    BY <1>1, <1>2, <1>3
  <2>2. LastAim(outbox, k)
    BY <1>2, <2>1 DEF LastAim
  <2> QED
    BY <1>1, <1>2, <1>3, <2>2
<1>4. CASE n # Len(outbox) + 1
  <2>1. n \in 1..Len(outbox) /\ outbox'[n] = outbox[n]
    BY <1>1, <1>4
  <2>2. \A j \in (k + 1)..(n - 1) : ~IsAim(outbox[j])
    BY <1>1, <1>2, <2>1
  <2> QED
    BY <1>2, <2>1, <2>2 DEF AimsChain
<1> QED
  BY <1>3, <1>4

\* An accepted mission begins where the last aim ends: no handler is in its loop.
LEMMA JoinsLast ==
    ASSUME TwoPoints, TypeOK, AimInv, NEW m \in Missions, Adopt(m)
    PROVE  \A j \in 1..Len(outbox) :
               LastAim(outbox, j) => outbox[j].to = m.points[1].pointid
<1>1. (stack # << >> => Top.pc # "loop") /\ Acceptable(m) /\ outbox \in Seq(Signal)
  BY ReceiveWhere DEF Adopt, TypeOK, Waits
<1>2. CASE task_Imr = Mission0
  BY <1>2 DEF AimInv, LastAim
<1>3. CASE task_Imr # Mission0
  <2>1. task_Imr \in Missions /\ ~FirstOrder
    BY <1>3, MissionFacts DEF TypeOK, FirstOrder
  <2>2. Headed
    BY <1>1, <1>3 DEF AimInv, Heading
  <2>3. PICK k \in 1..Len(outbox) : LastAim(outbox, k) /\ outbox[k] = Aim(task_Imr)
    BY <2>2 DEF Headed
  <2>4. outbox[k].to = m.points[1].pointid
    BY <1>1, <2>1, <2>3 DEF Acceptable, Joins, TwoPoints, Aim
  <2> QED
    BY <1>1, <2>3, <2>4, LastAimUnique
<1> QED
  BY <1>2, <1>3

\* updateStatus goes on from the last aim, and makes its own the last.
LEMMA UpdateAims ==
    ASSUME TypeOK, AimsChain, NEW m \in Missions, UpdateStatus(m), task_Imr' = m,
           \A j \in 1..Len(outbox) :
               LastAim(outbox, j) => \/ outbox[j] = Aim(m)
                                     \/ outbox[j].to = m.points[1].pointid
    PROVE  AimsChain' /\ AimInv'
<1>1. /\ Aim(m) \in Signal /\ IsAim(Aim(m)) /\ outbox \in Seq(Signal) /\ Aim(m)' = Aim(m)
      /\ Aim(m).from = m.points[1].pointid /\ outbox' = Append(outbox, Aim(m))
  BY AimType DEF Aim, IsAim, TypeOK, UpdateStatus
<1>2. AimsChain'
  BY <1>1, ChainAppend
<1>3. LastAim(outbox', Len(outbox) + 1)
  BY <1>1, AppendAim
<1>4. Len(outbox) + 1 \in 1..Len(outbox') /\ outbox'[Len(outbox) + 1] = Aim(m)
  BY <1>1, AppendProperties
<1>5. Headed'
  BY <1>1, <1>3, <1>4 DEF Headed, LastAim, IsAim
<1> QED
  BY <1>2, <1>5, MissionFacts DEF AimInv

\* A step that sends no signal keeps the path; it keeps the rest too unless it
\* changes the mission or leaves a loop with an action ahead.
LEMMA AimFrame ==
    ASSUME AimsChain, AimInv, UNCHANGED <<outbox, task_Imr>>,
           Heading => Headed \/ Heading'
    PROVE  AimsChain' /\ AimInv'
<1>1. AimsChain'
  BY DEF AimsChain, IsAim
<1>2. Headed' <=> Headed
  BY DEF Headed, LastAim, IsAim, Aim
<1> QED
  BY <1>1, <1>2 DEF AimInv, IsAim

\* Adopting a mission keeps the aims on one path.
LEMMA AdoptAims ==
    ASSUME TwoPoints, TypeOK, AimsChain, AimInv, NEW m \in Missions,
           AdoptAndDrive(m) \/ AdoptAndLoop(m)
    PROVE  AimsChain' /\ AimInv'
<1>1. Adopt(m) /\ task_Imr' = m
  BY DEF AdoptAndDrive, AdoptAndLoop, Adopt
<1>2. \A j \in 1..Len(outbox) :
          LastAim(outbox, j) => outbox[j].to = m.points[1].pointid
  BY <1>1, JoinsLast
<1>3. CASE AdoptAndDrive(m)
  BY <1>1, <1>2, <1>3, UpdateAims DEF AdoptAndDrive
<1>4. CASE AdoptAndLoop(m)
  <2>1. outbox' = outbox /\ i' = 1 /\ HasActions(m)
    BY <1>4 DEF AdoptAndLoop
  <2>2. AimsChain'
    BY <2>1 DEF AimsChain, IsAim
  <2>3. stack' # << >> /\ Top'.pc = "loop"
    BY <1>4, LoopStack
  <2>4. \E k \in ActionPoints(task_Imr)' : i' <= k
    BY <1>1, <2>1 DEF HasActions, ActionPoints
  <2>5. \A j \in 1..Len(outbox') :
            LastAim(outbox, j)' => outbox'[j].to = task_Imr'.points[1].pointid
    BY <1>1, <1>2, <2>1 DEF LastAim, IsAim
  <2> QED
    BY <1>1, <2>2, <2>3, <2>4, <2>5, MissionFacts DEF AimInv, Heading
<1> QED
  BY <1>3, <1>4

\* The loop aims at the mission's second point, where it was sent or may go on to.
LEMMA PointAims ==
    ASSUME TypeOK, AimsChain, AimInv, LoopDone \/ LoopPoint
    PROVE  AimsChain' /\ AimInv'
<1>1. task_Imr \in Missions /\ task_Imr' = task_Imr /\ UpdateStatus(task_Imr)
      /\ task_Imr # Mission0 /\ outbox \in Seq(Signal)
  BY InRangeReal, MissionFacts DEF LoopDone, LoopPoint, TypeOK
<1>2. \A j \in 1..Len(outbox) :
          LastAim(outbox, j) => \/ outbox[j] = Aim(task_Imr)
                                \/ outbox[j].to = task_Imr.points[1].pointid
  BY <1>1, LastAimUnique DEF AimInv, Headed, Heading
<1> QED
  BY <1>1, <1>2, UpdateAims

\* A lift is no aim.
LEMMA ArriveAims ==
    ASSUME TypeOK, AimsChain, AimInv, Arrive
    PROVE  AimsChain' /\ AimInv'
<1>1. /\ task_Imr \in Missions /\ i \in ActionPoints(task_Imr) /\ task_Imr' = task_Imr
      /\ Top.pc # "loop" /\ outbox' = Append(outbox, Lift(task_Imr, i))
      /\ outbox \in Seq(Signal)
  BY InRangeReal DEF Arrive, HasValue, InRange, ActionPoints, Running, TypeOK
<1>2. ~IsAim(Lift(task_Imr, i)) /\ Lift(task_Imr, i) \in Signal /\ task_Imr # Mission0
  BY <1>1, LiftType, MissionFacts DEF IsAim, Lift
<1>3. AimsChain'
  BY <1>1, <1>2, ChainAppend
<1>4. PICK j \in 1..Len(outbox) : LastAim(outbox, j) /\ outbox[j] = Aim(task_Imr)
  BY <1>1, <1>2 DEF AimInv, Heading, Headed
<1>5. LastAim(outbox', j) /\ outbox'[j] = Aim(task_Imr)
  BY <1>1, <1>2, <1>4, AppendOther
<1>6. Headed'
  BY <1>1, <1>5 DEF Headed, LastAim, IsAim, Aim
<1> QED
  BY <1>1, <1>2, <1>3, <1>6 DEF AimInv

\* Every step but Stop keeps the aims on one path.
LEMMA AimStep ==
    ASSUME NoStop, TwoPoints
    PROVE  TypeOK /\ AimsChain /\ AimInv /\ [Next]_vars => AimsChain' /\ AimInv'
<1> SUFFICES ASSUME TypeOK, AimsChain, AimInv, [Next]_vars PROVE AimsChain' /\ AimInv'
  OBVIOUS
<1>1. ASSUME NEW m \in Missions, AdoptAndDrive(m) \/ AdoptAndLoop(m)
      PROVE  AimsChain' /\ AimInv'
  BY <1>1, AdoptAims
<1>2. CASE LoopDone \/ LoopPoint
  BY <1>2, PointAims
<1>3. CASE Arrive
  BY <1>3, ArriveAims
<1>4. CASE LoopSkip
  <2>1. /\ UNCHANGED <<outbox, task_Imr, stack>> /\ i' = i + 1
        /\ i \notin ActionPoints(task_Imr)
    BY <1>4 DEF LoopSkip, Running, ActionPoints
  <2>2. i \in Nat /\ ActionPoints(task_Imr) \subseteq Nat
    BY DEF TypeOK, ActionPoints
  <2>3. Heading => Heading'
    BY <2>1, <2>2 DEF Heading, Top, ActionPoints, LastAim, IsAim
  <2> QED
    BY <2>1, <2>3, AimFrame
<1>5. CASE LoopEnd
  <2>1. UNCHANGED <<outbox, task_Imr>> /\ i > Len(task_Imr.points)
    BY <1>5 DEF LoopEnd
  <2>2. i \in Nat /\ Len(task_Imr.points) \in Nat
    BY MissionFacts, EmptySeq DEF TypeOK, Mission0
  <2>3. ~Heading
    BY <2>1, <2>2 DEF Heading, ActionPoints
  <2> QED
    BY <2>1, <2>3, AimFrame
<1>6. CASE SlotEnds \/ Lifted \/ Block \/ StaleWait
  <2>1. UNCHANGED <<outbox, task_Imr>> /\ ~Heading
    BY <1>6 DEF SlotEnds, InSlot, Lifted, Block, StaleWait, Running, Waits, Heading
  <2> QED
    BY <2>1, AimFrame
<1>7. ASSUME UNCHANGED <<outbox, task_Imr, stack, i>> PROVE AimsChain' /\ AimInv'
  <2>1. Heading => Heading'
    BY <1>7 DEF Heading, Top, ActionPoints, LastAim, IsAim
  <2> QED
    BY <1>7, <2>1, AimFrame
<1>8. CASE StopButton
  BY <1>8 DEF NoStop, StopButton
<1> QED
  BY <1>1, <1>2, <1>3, <1>4, <1>5, <1>6, <1>7, <1>8
     DEF Next, ReceiveAT, Handler, Status, Events, RejectAT, LinkP40, Timeout, SendStButton,
         SendStatus, SettingButton, SendRgButton, ConnectOn, ConnectOff, LinkLost, Socket, vars

\* The aims the P40 is given form one path, for every set of two-point missions, any
\* nesting of handlers and any reconnections (no Stop).
THEOREM AimsFormPath ==
    ASSUME NoStop, TwoPoints
    PROVE  Spec => []AimsChain
<1>1. Init => AimsChain /\ AimInv
  <2> SUFFICES ASSUME Init PROVE AimsChain /\ AimInv
    OBVIOUS
  <2>1. outbox = << >> /\ Len(outbox) = 0 /\ task_Imr = Mission0
    BY EmptySeq DEF Init
  <2> QED
    BY <2>1 DEF AimsChain, AimInv
<1> QED
  BY <1>1, AimStep, TypeCorrect, PTL DEF Spec

-----------------------------------------------------------------------------
(* The refinement: every step of the robot is one of the steps             *)
(* MissionService promises, or does not concern it.                        *)


Reports == {NoAction} \cup {t[1].points[t[2]].actions[1] : t \in Tasks}

\* What the mapping needs beyond IInv: only actions of missions are owed and
\* named in completions.
PInv == IInv /\ owed \subseteq Tasks /\ idParam \in Reports

-----------------------------------------------------------------------------
(* The tasks.                                                              *)

\* The tasks are the pairs of a mission and a point of it with an action.
LEMMA TaskIs ==
    ASSUME NEW m \in Missions, NEW k \in ActionPoints(m)
    PROVE  /\ <<m, k>> \in Tasks
           /\ m.points[k].actions[1] \in Reports
<1>1. <<m, k>> \in Tasks
  BY DEF Tasks
<1>2. <<m, k>>[1] = m /\ <<m, k>>[2] = k
  OBVIOUS
<1> QED
  BY <1>1, <1>2 DEF Reports

\* Accepting a mission owes tasks only.
LEMMA AdoptTasks ==
    ASSUME owed \subseteq Tasks, NEW m \in Missions, Adopt(m)
    PROVE  owed \subseteq owed' /\ owed' \subseteq Tasks
<1>1. {m} \X ActionPoints(m) \subseteq Tasks
  BY DEF Tasks
<1> QED
  BY <1>1 DEF Adopt

\* The first state owes nothing and names no action.
LEMMA PInit == Init => PInv
BY InvInit DEF PInv, Init, Reports

\* Every step keeps what the mapping needs.
LEMMA PStep == PInv /\ [Next]_vars => PInv'
<1> SUFFICES ASSUME PInv, [Next]_vars PROVE owed' \subseteq Tasks /\ idParam' \in Reports
  BY InvStep DEF PInv, Reports, Tasks, ActionPoints
<1> USE DEF ctrl, hist
<1>1. ASSUME NEW m \in Missions, AdoptAndDrive(m) \/ AdoptAndLoop(m)
      PROVE  owed' \subseteq Tasks /\ idParam' \in Reports
  BY <1>1, AdoptTasks DEF AdoptAndDrive, AdoptAndLoop, Adopt, PInv
<1>2. CASE LoopPoint
  <2>1. task_Imr \in Missions /\ owed' = owed
    BY <1>2, InRangeReal DEF LoopPoint, PInv, IInv, TypeOK
  <2> QED
    BY <1>2, <2>1, TaskIs DEF LoopPoint, PInv, Reports
<1>3. ASSUME owed' \subseteq owed, idParam' = idParam
      PROVE  owed' \subseteq Tasks /\ idParam' \in Reports
  BY <1>3 DEF PInv
<1> QED
  BY <1>1, <1>2, <1>3
     DEF Next, ReceiveAT, Handler, Status, Events, RejectAT, LoopSkip, LoopDone, LoopEnd, SlotEnds,
         Arrive, Lifted, Block, StaleWait, LinkP40, Timeout, SendStButton, SendStatus,
         StopButton, SettingButton, SendRgButton, ConnectOn, ConnectOff, LinkLost, Socket,
         vars

-----------------------------------------------------------------------------
(* The mapping.                                                            *)

\* At first nothing is open, triggered, pending or reported.
LEMMA PromiseInit == Init => Service!Init
<1> SUFFICES ASSUME Init PROVE Service!Init
  OBVIOUS
<1>1. stack = << >> /\ Len(stack) = 0
  BY EmptySeq DEF Init
<1>2. Lifting = {}
  BY <1>1 DEF Lifting
<1> QED
  BY <1>2 DEF Init, ImrSta0, Service!Init

\* updateStatus only steers.
LEMMA SteerUpdate ==
    ASSUME PInv, NEW m \in Missions, UpdateStatus(m)
    PROVE  Service!Steer /\ ImrSta'.actionstates = ImrSta.actionstates
BY DEF UpdateStatus, Service!Steer, PInv, IInv, TypeOK, IMRState

\* A step that leaves the service's variables alone is a stutter of it.
LEMMA Stutter ==
    ASSUME UNCHANGED <<owed, outbox, sent>>, Lifting' = Lifting,
           ImrSta'.actionstates = ImrSta.actionstates
    PROVE  UNCHANGED Service!service
BY DEF Service!service

\* Accepting a mission, driving or looping, is Accept.
LEMMA AdoptAccepts ==
    ASSUME PInv, NEW m \in Missions, AdoptAndDrive(m) \/ AdoptAndLoop(m)
    PROVE  Service!Accept
<1>1. Adopt(m)
  BY DEF AdoptAndDrive, AdoptAndLoop
<1>2. Service!Steer /\ ImrSta'.actionstates = ImrSta.actionstates
  BY SteerUpdate DEF AdoptAndDrive, AdoptAndLoop, Service!Steer
<1>3. Lifting' = Lifting
  <2>1. CASE AdoptAndDrive(m)
    BY <2>1 DEF AdoptAndDrive, Lifting
  <2>2. CASE AdoptAndLoop(m)
    BY <2>2, LoopLifting DEF PInv, IInv
  <2> QED
    BY <2>1, <2>2
<1> QED
  BY <1>1, <1>2, <1>3, AdoptTasks DEF Service!Accept, PInv, Adopt

\* A point found done is FindDone when it is open, and steering otherwise.
LEMMA DoneFinds ==
    ASSUME PInv, LoopDone
    PROVE  Service!Next
<1>1. task_Imr \in Missions
  BY InRangeReal DEF LoopDone, PInv, IInv, TypeOK
<1>2. Service!Steer /\ ImrSta'.actionstates = ImrSta.actionstates
  BY <1>1, SteerUpdate DEF LoopDone
<1>3. Lifting' = Lifting /\ owed' = owed \ {<<task_Imr, i>>} /\ sent' = sent
  BY DEF LoopDone, Lifting
<1>4. CASE <<task_Imr, i>> \in owed
  <2>1. Service!FindDone(<<task_Imr, i>>)
    BY <1>2, <1>3 DEF Service!FindDone
  <2> QED
    BY <1>4, <2>1 DEF Service!Next
<1>5. CASE <<task_Imr, i>> \notin owed
  <2>1. owed' = owed
    BY <1>3, <1>5
  <2>2. Service!Accept
    BY <1>2, <1>3, <2>1 DEF Service!Accept, PInv
  <2> QED
    BY <2>2 DEF Service!Next
<1> QED
  BY <1>4, <1>5

\* Aiming at a point only steers.
LEMMA PointSteers ==
    ASSUME PInv, LoopPoint
    PROVE  Service!Accept
<1>1. task_Imr \in Missions
  BY InRangeReal DEF LoopPoint, PInv, IInv, TypeOK
<1>2. Service!Steer /\ ImrSta'.actionstates = ImrSta.actionstates
  BY <1>1, SteerUpdate DEF LoopPoint
<1>3. Lifting' = Lifting
  BY GotoLifting DEF LoopPoint, Running, LiftPcs, Pcs, PInv, IInv
<1> QED
  BY <1>2, <1>3 DEF LoopPoint, hist, Service!Accept, PInv

\* Arriving triggers the action of the point, which is open.
LEMMA ArriveTriggers ==
    ASSUME PInv, Arrive
    PROVE  Service!Next
<1>1. /\ i \in ActionPoints(task_Imr) /\ stack # << >> /\ Top.pc \in {"pos", "waitPos"}
      /\ TypeOK /\ IInv
  BY DEF Arrive, HasValue, InRange, ActionPoints, Running, PInv, IInv
<1>2. <<task_Imr, i>> \in owed /\ <<task_Imr, i>> \in Tasks
  BY <1>1 DEF IInv, OwedInv, PInv
<1>3. Lifting' = Lifting \cup {Len(stack)} /\ Len(stack) \notin Lifting
  BY <1>1, GotoLifting DEF Arrive, LiftPcs, Pcs
<1>4. outbox' = Append(outbox, [t \in Tasks |-> Lift(t[1], t[2])][<<task_Imr, i>>])
  BY <1>2 DEF Arrive
<1>5. Service!Trigger(<<task_Imr, i>>)
  BY <1>3, <1>4 DEF Arrive, Service!Trigger
<1> QED
  BY <1>2, <1>5 DEF Service!Next

\* Recording a completion frees the handler that triggered its lift.
LEMMA LiftedCompletes ==
    ASSUME PInv, Lifted
    PROVE  Service!Complete
<1>1. stack # << >> /\ Top.pc \in LiftPcs /\ Goto("loop") /\ TypeOK
  BY DEF Lifted, Running, LiftPcs, PInv, IInv
<1>2. Lifting' = Lifting \ {Len(stack)} /\ Len(stack) \in Lifting
  BY <1>1, GotoLifting DEF LiftPcs, Pcs
<1>3. ImrSta'.actionstates = Append(ImrSta.actionstates, idParam)
  BY DEF Lifted, PInv, IInv, TypeOK, IMRState
<1>4. idParam \in {NoAction} \cup {t[1].points[t[2]].actions[1] : t \in Tasks}
  BY DEF PInv, Reports
<1> QED
  BY <1>2, <1>3, <1>4 DEF Lifted, Service!Complete

\* A handler that returns was in its loop, so no lift is forgotten.
LEMMA EndStutters ==
    ASSUME PInv, LoopEnd \/ SlotEnds
    PROVE  UNCHANGED Service!service
<1>1. UNCHANGED <<ImrSta, outbox, owed, sent>>
  BY DEF LoopEnd, SlotEnds, hist
<1> QED
  BY <1>1, EndLifting, SlotLifting, Stutter DEF PInv, IInv

\* Entering a wait changes nothing the service sees.
LEMMA BlockStutters ==
    ASSUME PInv, Block
    PROVE  UNCHANGED Service!service
<1>1. UNCHANGED <<ImrSta, outbox, owed, sent>>
  BY DEF Block, hist
<1>2. CASE Running({"pos"}) /\ Goto("waitPos")
  <2>1. Lifting' = Lifting
    BY <1>2, GotoLifting DEF Running, LiftPcs, Pcs, PInv, IInv
  <2> QED
    BY <1>1, <2>1, Stutter
<1>3. CASE Running({"height"}) /\ Goto("waitHeight")
  <2>1. Lifting' = Lifting
    BY <1>3, GotoLifting DEF Running, LiftPcs, Pcs, PInv, IInv
  <2> QED
    BY <1>1, <2>1, Stutter
<1> QED
  BY <1>2, <1>3 DEF Block

\* Every step of the robot is one of the service, or a stutter of it.
LEMMA PromiseStep == PInv /\ [Next]_vars => [Service!Next]_(Service!service)
<1> SUFFICES ASSUME PInv, [Next]_vars PROVE Service!Next \/ UNCHANGED Service!service
  OBVIOUS
<1>1. ASSUME NEW m \in Missions, AdoptAndDrive(m) \/ AdoptAndLoop(m) PROVE Service!Next
  BY <1>1, AdoptAccepts DEF Service!Next
<1>2. CASE LoopDone
  BY <1>2, DoneFinds
<1>3. CASE LoopPoint
  BY <1>3, PointSteers DEF Service!Next
<1>4. CASE Arrive
  BY <1>4, ArriveTriggers
<1>5. CASE Lifted
  BY <1>5, LiftedCompletes DEF Service!Next
<1>6. CASE SendStatus
  <2>1. ImrSta'.actionstates = << >> /\ Lifting' = Lifting
    BY <1>6 DEF SendStatus, Lifting, PInv, IInv, TypeOK, IMRState
  <2>2. Service!Report
    BY <1>6, <2>1 DEF SendStatus, Service!Report
  <2> QED
    BY <2>2 DEF Service!Next
<1>7. CASE StopButton
  <2>1. ImrSta'.actionstates = << >> /\ Lifting' = Lifting
    BY <1>7 DEF StopButton, ImrSta0, Lifting
  <2>2. Service!GiveUp
    BY <1>7, <2>1 DEF StopButton, Service!GiveUp
  <2> QED
    BY <2>2 DEF Service!Next
<1>8. CASE LoopEnd \/ SlotEnds \/ Block
  BY <1>8, EndStutters, BlockStutters
<1>9. ASSUME UNCHANGED <<stack, outbox, owed, sent>>, ImrSta'.actionstates = ImrSta.actionstates
      PROVE  UNCHANGED Service!service
  BY <1>9, Stutter DEF Lifting
<1>10. ASSUME NEW p \in Place, NEW h \in Heights, LinkP40(p, h) PROVE UNCHANGED Service!service
  BY <1>9, <1>10 DEF LinkP40, hist, PInv, IInv, TypeOK, IMRState
<1>11. ASSUME NEW p \in PointIds, SettingButton(p) PROVE UNCHANGED Service!service
  BY <1>9, <1>11 DEF SettingButton, hist, PInv, IInv, TypeOK, IMRState
<1>12. ASSUME NEW m \in Missions, RejectAT(m) PROVE UNCHANGED Service!service
  BY <1>9, <1>12 DEF RejectAT, hist
<1>13. CASE LoopSkip \/ StaleWait \/ SendRgButton \/ ConnectOn \/ ConnectOff \/ LinkLost
             \/ UNCHANGED vars
  BY <1>9, <1>13 DEF LoopSkip, StaleWait, SendRgButton, ConnectOn, ConnectOff, LinkLost,
                     Socket, vars, hist
<1> QED
  BY <1>1, <1>2, <1>3, <1>4, <1>5, <1>6, <1>7, <1>8, <1>10, <1>11, <1>12, <1>13
     DEF Next, ReceiveAT, Handler, Status, Events, Timeout, SendStButton

\* The robot keeps its promise to the RCS, for every map, every set of missions and
\* every nesting of handlers: each accepted action is triggered at most once, each
\* completion belongs to a lift, and each is reported once and in order.
THEOREM PromiseKept == Spec => KeepsPromise
<1>1. Spec => []PInv
  BY PInit, PStep, PTL DEF Spec
<1>2. Spec => Service!Init /\ [][Service!Next]_(Service!service)
  BY <1>1, PromiseInit, PromiseStep, PTL DEF Spec
<1> QED
  BY <1>2 DEF KeepsPromise, Service!Spec
=============================================================================
