# Verification of the robot proxy server

This directory models the Robot Proxy Server of `src/` in TLA+, checks it with TLC on small
instances and proves its core safety properties with TLAPS for every instance.

The program is a Qt application. Physical robots ("P40") connect to it by TCP; it answers their
protocol, shows them in a window and lets an operator command them. It also contains a *virtual
IMR*: a robot of another protocol that takes missions from a control system (the RCS), carries
them out with one of the connected P40s, and reports back.

## 1. Inventory

| Component | Source | State | Operations |
|---|---|---|---|
| `RobotProxyServer` | `src/robot_proxy_server.cpp` | listening socket, `threadPool` | `startRPS`, `incomingConnection`, the `destroyed` and `agentCreated` lambdas |
| `MainWindow` | `ui/mainwindow.cpp` | `agentList`, the combo box | `agentUpdate` slot, start/stop, opening panels, refresh |
| `Agent`, connection | `src/agent.cpp` | `unpackingStatus`, `header_msg`, `timer`, `agvStatus` | `onCreateTimer`, the `readyRead` slot, `messageProcess`, five replies, `timer_slot`, `downSocketWrite` |
| `Agent`, commands | `src/agent.cpp` | `actionCnt`, `traceCnt`, `agvStatus` | lift, put, turn, charge, uncharge, move, forward, backward, clear, `linkRCStoP40_1`, `sendRCSActionLiftDown` |
| `ControlPanel` | `ui/control_panel.cpp` | the status shown, the table of actions | buttons to signals, display of `rtStatus` and `actionInfo` |
| `VirtualRobot`, missions | `src/virtual_robot.cpp` | `task`, `task_Imr`, `ImrSta`, `hight`, `i`, `ID`, `Param`, `globalVar`, `timer`, `client` | `logicDecision`, `updateStatus`, `sendStatus`, `linkP40_pos`, `initValue`, `stopQTimer`, connect and disconnect |
| `VirtualRobot`, parser | `src/virtual_robot.cpp:52-151` | `unpackingStatus`, `rx_body_len` | the `readyRead` slot |
| `VirtualPanel` | `ui/virtual_panel.cpp` | its timer and a copy of the status | buttons, `rtStatus` to `linkP40_pos` |
| `MapServer` | `src/map_server.cpp` | `geekplusMap` | load, `getPointById` |
| `CRC16_MODBUS` | `include/util/crc16_modbus.h` | none | the checksum |
| `main` | `src/main.cpp` | none | start, SIGINT |
| UDP sample, logging, layout | `src/ctu_agent.cpp`, `ui/*.ui` | | not part of the system's behaviour |

**How they interact.** The GUI thread runs `MainWindow`, the panels, the server and
`VirtualRobot`. Each connection has an `Agent` in a `QThread` of its own. Everything that crosses
the border is a queued Qt signal: `agentCreated`, `destroyed`, `rtStatus`, `actionInfo` towards
the GUI thread; clicks, `sendAimToP40` and `doRcsAction` towards the Agent's thread. Nothing is
locked. What arrives late was true when it was sent.

**What is hard.**

* `VirtualRobot::logicDecision` waits for the P40 by calling `QCoreApplication::processEvents` in a
  loop. Status frames, statuses, buttons and sockets are handled in the middle of it and change the
  members it reads again when the call returns. With a new connection a second `logicDecision` runs
  inside the first and shares `i`, `ID`, `Param` and `task_Imr` with it.
* Agents are known to the window by address only, and an address is used again.
* TCP cuts the byte stream anywhere, while a timer writes to the same socket as the replies.
* The parser of the virtual robot keeps its state in the robot, not in the socket, and calls the mission
  handler from inside its loop: two connections share one parser state, and the slot of the old one may go on
  in the middle of a frame of the new one.
* Commands are built from the last status a thread has seen, across two queues.
* Undefined behaviour is near: an index -1 (`virtual_robot.cpp:478`), two members that are never
  initialised (`virtual_robot.h:84,112`), a socket used after it was deleted.

**What makes each component correct.** Virtual robot: a status names the mission in work, an action is
triggered once and where it belongs, a completion is reported once. Server: no stale entry outlives
the event that removes it, threads end, the GUI thread does not hang. Connection: each message once,
in order, in the end; each answer with the data of its request. Frames of the RCS: nothing is dispatched that was not
sent, and no disturbance costs more than the frames next to it. Checksum: the one both sides mean, and no small
change escapes it. Commands: the robot goes where the
operator has told it.

## 2. Modules

| Module | What it models |
|---|---|
| `VirtualRobot` | The mission handler and every event that can interrupt it. |
| `VirtualRobotProofs` | Theorems about it, and that it implements `MissionService`. |
| `MissionService` | Abstract: what the robot promises the RCS of the actions it accepts. |
| `RobotCell` | `VirtualRobot` with the signal queue to the Agent, an external P40, and the statuses back. |
| `RobotCellProofs` | Theorems about it. |
| `RobotFrames` | The connection to the RCS byte by byte: prefixes, lengths, checksums, tail, nested handlers, sockets that follow each other. |
| `RobotFramesProofs` | Theorems about it. |
| `Bytes` | What a byte is, for the streams and the checksum. |
| `CrcTables` | The checksum: its two tables, entry by entry, and one turn of its loop. Used by the two modules around it. |
| `Crc16Modbus` | The loop of the checksum over data of any length, next to the same loop over changed data. |
| `CrcProofs` | Theorems about it. |
| `RobotProxyServer` | Server, threads, Agents' lives, the agent list and the buttons that read it. |
| `RobotProxyServerProofs` | Theorems about it. |
| `FrameChannel` | Abstract: a FIFO channel of messages. |
| `AgentLink` | The connection of one robot; it implements `FrameChannel`. |
| `AgentLinkProofs` | Theorems about it. |
| `ByteLemmas` | What the proofs about the two connections and the checksum share: cutting and joining streams, induction, the exclusive or of bytes, the type of a checksum. |
| `AgentCommands` | Command builders, the queues around them, operator and robot. |
| `AgentCommandsProofs` | Theorems about it. |
| `MC...` | Instances for TLC. |

Operators written as a mutated form of a definition are marked `mutant` in the module. They are not part
of any specification: each one shows that a property would notice that mistake.

### VirtualRobot

`stack` is the C++ call stack, reduced to the `readyRead` slots that have called a `logicDecision` with a loop. A
frame has the socket the slot belongs to, a program point, and the branch of `logicDecision` (`first` order or `update`
of the key). The program points are `loop` (the head of the `for`), `pos` and `height` (the conditions of the two
`while`s), `waitPos` and `waitHeight` (inside `processEvents`), and `slot`: `logicDecision` has returned and the slot
is in its own loop again. `Yielding` says that the GUI thread dispatches events: no frame, or the innermost one is in a
wait. Every event handler has `Yielding` as its guard, and only the innermost frame can go on.

| Action | Code |
|---|---|
| `RejectAT`, `AdoptAndDrive`, `AdoptAndLoop` | `logicDecision` up to the loop, in all its branches |
| `LoopSkip`, `LoopDone`, `LoopPoint` | one turn of the `for` |
| `LoopEnd` | the `for` is over, `messageProcess` returns into the loop of the slot (`:128-139`) |
| `SlotEnds` | the slot finds nothing more to dispatch and returns into its socket (`:140-151`) |
| `Arrive`, `Lifted`, `Block` | a `while` condition is true or false |
| `StaleWait` | the mission under a wait has been cleared or replaced; the read ends the process |
| `LinkP40`, `Timeout`, `SendStButton`, `StopButton`, `SettingButton`, `SendRgButton` | the slots |
| `ConnectOn`, `ConnectOff`, `LinkLost` | the life of `client` |

A frame of the RCS is dispatched in one of two ways (`CanReceive`). The innermost slot may be in its own loop: it reads
through the member `client`, so the slot of a socket that has been replaced dispatches missions of the new one, and
`AdoptAndLoop` then uses its frame of the stack again. Or `readyRead` starts a slot of the current socket; a socket does
not emit `readyRead` inside its own slot (Qt's rule), so no slot on the stack may belong to it. Slots of other sockets may,
also when the handler in them works on a mission of the current connection. `RobotFrames` has the bytes of the same
slots. Undefined behaviour is `alive' \in BOOLEAN`: the
process dies or goes on.

*Abstraction of data.* A place is a map point, standing for its tolerance box of 20 units, or 0. A
mission has its order, key, points with actions, and the end of its first segment, which is what
`linkP40_pos` copies into `lastpasspointid`. Only what a decision reads is kept of the IMR's state.
`HeartMod` keeps the heartbeat counter modulo a bound; nothing reads it.

*History variables.* `owed` holds the actions accepted and not yet triggered, `done` and `sent` the
completions recorded and put into a frame.

### MissionService

Tasks are accepted, each is triggered at most once or found done, a handler that has triggered one records one completion,
completions are reported once and in order, and the operator may give up. It says nothing of points, waits,
branches or sockets. `VirtualRobot` maps its open tasks to `owed`, the signals to `outbox`, the handlers that are busy to the
slots whose handler is in `height` or `waitHeight` (`Lifting`), the pending completions to `ImrSta.actionstates`, and `KeepsPromise`
is the abstract specification under that mapping. A mission without a loop, the loop's `updateStatus` and the
adoption of a mission are all `Accept`; a status frame is `Report`; Stop is `GiveUp`; everything else but
`LoopDone`, `Arrive` and `Lifted` stutters.

### RobotCell

The same actions with a P40 at the other end: `Take` takes the next signal from the queue, `Depart` and
`Reach` move (between two points the P40 is at no place), `DoLift` lifts, `Publish` reports.
`Dispatch` is the queued `rtStatus` arriving in the GUI thread.

### RobotFrames

`wire` and `buffer` are bytes, real ones: the frames the RCS sends carry checksums computed by
`CalcCRC16Modbus`, and the slot checks them with it. `stack` holds the `readyRead` slots on the C++ stack,
each with its socket; a slot is in its loop or inside `messageProcess` (`handler`), where the event loop runs
and everything else can happen. `readyRead` is not emitted inside a slot of the same socket. The loop reads
through the member `client`: after `ConnectOff` and `ConnectOn` the old slot goes on with the new socket's bytes,
and a read through a deleted one may end the process (`Undefined`).

| Action | Code (`virtual_robot.cpp`) |
|---|---|
| `ReadyRead` | a chunk of any length arrives; the slot starts (`:52-55`) |
| `WaitingPrefix1`, `WaitingPrefix2`, `WaitingHeader` | one turn of the loop (`:57-107`) |
| `Dispatch`, `Refuse` | a whole body whose checks pass, or fail (`:113-139`) |
| `HandlerReturns` | `messageProcess` returns; the parser goes back to the first prefix (`:139`) |
| `SlotEnds` | nothing left, or too little for the header or the body |
| `ConnectOn`, `ConnectOff`, `LinkLost` | `initConnection`, `deInitConnection`, the peer closes |
| `RcsSends`, `Noise` | the RCS, and what a line does to it |

The history counts *upsets*: a run of noise, a new connection, and the return of a handler of an old connection,
which resets the parser that is in the middle of a frame of the new one. `marks` keeps, for each message sent, how
many were sent since the last upset.

### CrcTables, Crc16Modbus

`crcHi` and `crcLo` are the arrays of the header file. `Turn` is one turn of the loop, `CalcCRC16Modbus` the loop.
`Crc16Modbus` lets it read byte after byte, while a second register reads the same data with one byte changed, or
two that are next to each other. `Polynomial` is the reference: the checksum computed bit by bit with 16#A001.

### RobotProxyServer

`state` and `thread` follow each connection's Agent and `QThread`; `addr` gives its heap address,
which `incomingConnection` may take from a freed Agent. `queue` is the GUI thread's event queue.
The GUI thread is in its loop, inside `thread->wait()`, or leaving. `panel` is the connection the open ControlPanel
acts on. `Meant(c)` is what the address of `c` leads to when it is read, perhaps another Agent by then, and `Deref`
says that a read through an address nobody has may end the process: `AddAgent`, `OpenPanel`, `Refresh` and
`VirtualButton` read that way.

### AgentLink

`wire` and `buffer` are bytes; `ReadyRead` moves any non-empty part of the wire, so all the ways TCP can
cut the stream are explored. `reading` is true while the slot runs, one turn of its loop being one action.
A body is a few bytes that stand for the fields of the JSON object. `Encode` has the length field in its
width of 16 bits. `geekplusMap` is the table `initGeekplusMap` makes of the lines of the map file: the first line
is skipped, and of two lines with the same id the later one counts.

### AgentCommands

`clicks` is the queue to the Agent's thread, `down` and `up` the socket, `gui` the queue back. `Build`
makes the command of every slot. The operator is patient as long as he clicks only when the panel shows the
result of his last click and a status after it; `patient` records whether he has always been. The robot is
external: it carries out commands in order. `on_backward_btn_clicked` emits nothing, so
`sendActionMoveBackword` is defined and never called.

## 3. Runs

| Run | Instance | Shows |
|---|---|---|
| `VR_core` | 2 points, 3 missions of 2 orders, 3 frames, 2 connections, all inputs; about 990,000 states | `TypeOK`, `StatusNamesMission`, `WaitInBounds`, `CompletionsConserved`, `LiftOnlyOwed`, `KeepsPromise` (refinement) |
| `VR_order` | 1 order of 3 keys, 4 frames, 2 connections, no Stop; about 94,000 states | `EveryLiftReported`, `AimsChain`, `ActionsServed` |
| `Cell_end` | with the P40, actions at the end of segments, fairness | `CellTypeOK`, `LiftAtPoint`, `ActionsTriggered`, `HandlerReturns`, `CompletionsSent`, `CompletionNamesAction` |
| `Crc_loop` | 4 bytes: all 256 at the first place, some after it; 3 kinds of change | `TypeOK`, `MatchesPolynomial`, `ChangeDetected` |
| `Frames_all` | 3 messages, 2 connections, 1 of 6 disturbances, every cut | `TypeOK`, `InOrderOrNotAtAll`, `Resynchronises` |
| `RPS_agents` | 3 connections, 2 addresses | `TypeOK`, `NoUnexpected`, `ListedAgents`, `PoolMatchesThreads`, `PanelOfItem`, `ClosedIsCleanedUp`, `WaitReturns` |
| `Link_chunks` | 3 of 7 messages, 2 heartbeats, every cut | `TypeOK`, `Delivers` (refinement), `AnswersInOrder`, `RequestsAnswered`, `HeartbeatsFollow`, `HeartbeatsComeBack` |
| `Link_noise` | 1 message and 2 runs of junk | `SlotReturns`: the slot's loop ends, also for a length below 6 |
| `Cmd_all` | 2 of 15 calls from 4 headings | `TypeOK`, `RobotGoesWhereTold`, `HeadingOfTravel` |

**Why the bounds are enough.** Two connections are needed for two nested handlers, and a third adds only a
deeper nest of the same kind. Three frames allow an accepted mission, an interrupting one and one after it. Two
addresses for three connections force the reuse of an address. Three messages put a message before and after
each one that is cut. Two heights that are further apart than the tolerance separate "lifted" from "not
lifted". One status under way (`MaxStatus`) already lets the handler miss and see any place of the P40. Two
calls suffice for a command built from a status older than the result of the first. The first byte of
`Crc_loop` runs through all 256 values, so every entry of both tables is used; a change in two bytes needs two, and a
byte before and after it. One disturbance for three messages leaves the one it hits, the one next to it and one
that must be dispatched; the six kinds leave the parser in each of its four states. Two connections are enough for
one to inherit the state of the other and for an old handler to come back.
`Spoiled` is 1 in `Frames_all`: with 0 the property fails, since a header with a wrong checksum and a lone 02 each
take bytes of the next frame with them. It is a property of these messages: one that holds 02 followed later by
`T` can cost another frame.
`CHECK_DEADLOCK FALSE` is set because the bounds end every behaviour and because the process may really stop.

**Disagreements between code and documents.** Each of these runs ends with a counterexample.

| Run | Property | What the trace shows |
|---|---|---|
| `Cell_missed` | `ActionsTriggered` | The aim goes out before the wait for the first point; the P40 has left before a status shows it there, and the handler waits for ever (`:353-359`, `:409-421`). |
| `RPS_quit` | `QuitIsSafe` | Leaving with a robot connected destroys a running `QThread` (`robot_proxy_server.cpp:38`, `main.cpp:19`). |
| `Link_prefix` | `MessagesDispatched` | After `FE x` the parser still waits for the second prefix only, takes the next frame one byte too early and loses it (`agent.cpp:1480-1486`). |

More are plain on the line itself and have no run:

* a mission of another order is accepted and its actions are never looked at (`virtual_robot.cpp:457-462`;
  README.md:117 has the action triggered once the point is reached);
* id and param of a completion come from the second point, also for an action at the first
  (`virtual_robot.cpp:351`, `:413`; README.md:121). `CompletionNamesAction` is therefore checked for missions whose
  action is at the second point, where the two reads could still come from another mission;
* a new connection does not put the parser into its first state (`virtual_robot.cpp:37-50`, README.md:111 has
  `initConnection` set up the receiving state machine); `Resynchronises` says what that costs;
* a heartbeat starts the timer and is not answered (`agent.cpp:152`, README.md:69);
* the session message is answered and its id not stored (`agent.cpp:155-159`, README.md:68);
* refusing the first mission reads a point at index -1 (`virtual_robot.cpp:478`, in the model an outcome of
  `RejectAT`);
* `sendStatus` forgets completions although the socket is closed (`virtual_robot.cpp:555-560`, in the model
  `SendStatus`).

## 4. Fairness

* `RobotCell`: the GUI thread runs on between two waits (`Handler`), pending events are dispatched
  (`processEvents(AllEvents)` and `exec()` take what is queued, `Dispatch`), a running timer fires
  (`Timeout`). The P40 carries out commands and reports at intervals (`P40`, `Publish`), which is what a
  connected robot does. Nothing is assumed about the RCS, the operator or the link.
* `RobotFrames`: one weak fairness for the GUI thread (`Thread`): bytes that TCP has delivered are read, the slot goes
  on, and a handler that waits comes back, which `RobotCell` shows of a connected P40 (`HandlerReturns`). Nothing is
  assumed about the RCS, the noise or the connect button.
* `RobotProxyServer`: both kinds of threads run their event loops. Nobody has to connect or disconnect.
* `AgentLink`: TCP delivers, the slot goes on, an active timer fires. The robot need not send.

`AgentCommands`, `Crc16Modbus` and `VirtualRobot` have safety properties only, and no fairness.

## 5. Proofs

Each theorem holds for every value of the constants its module's named assumptions allow; TLC evaluates those
assumptions in every run.

| Module | Theorem | Property |
|---|---|---|
| `VirtualRobotProofs` | `TypeCorrect` | `TypeOK` |
| | `StatusCorrect` | `StatusNamesMission` |
| | `WaitCorrect` | `WaitInBounds` |
| | `CompletionsCorrect` | `CompletionsConserved` |
| | `LiftCorrect` | `LiftOnlyOwed` |
| | `PromiseKept` | `KeepsPromise` (refinement) |
| | `LiftsReported` | `EveryLiftReported`, without Stop |
| | `ActionsAreServed` | `ActionsServed`, for missions of two points of one order |
| | `AimsFormPath` | `AimsChain`, for missions of two points, without Stop |
| `RobotCellProofs` | `CellTypeCorrect` | `CellTypeOK` |
| | `LiftsAtPoint` | `LiftAtPoint`, with actions at the second point |
| | `CompletionsNameAction` | `CompletionNamesAction`, with actions at the second point |
| `RobotFramesProofs` | `TypeCorrect` | `TypeOK` |
| | `InOrderUntilDisturbed` | `DispatchInOrder` and no refusal, up to the first upset |
| | `OneConnectionInOrder` | `InOrderOrNotAtAll`, for one connection without noise |
| `AgentLinkProofs` | `TypeCorrect` | `TypeOK` |
| | `FramesFound` | the slot is at a border of the next frame, without noise |
| | `StreamImplementsChannel` | the safety part of `Delivers` (refinement), without noise |
| | `HeartbeatsFollowRequest` | `HeartbeatsFollow`, without noise |
| | `AnswersComeInOrder` | `AnswersInOrder`, without noise |
| `RobotProxyServerProofs` | `TypeCorrect` | `TypeOK` |
| | `NeverUnexpected` | `NoUnexpected` |
| | `ListIsRight` | `ListedAgents` |
| | `PoolIsRight` | `PoolMatchesThreads` |
| | `PanelIsOfItem` | `PanelOfItem` |
| `AgentCommandsProofs` | `TypeCorrect` | `TypeOK` |
| | `RobotIsWhereTold` | `RobotGoesWhereTold` |
| | `HeadingIsOfTravel` | `HeadingOfTravel` |
| `CrcProofs` | `TypeCorrect` | `TypeOK` |
| | `ChangeIsDetected` | `ChangeDetected` |
| | `PolynomialMatched` | `MatchesPolynomial` |

### The mission handler

For every set of points and missions, every tolerance, all bounds and any nesting of handlers.

*Assumptions.* Point ids are positive, a mission has an order number that is not 0 and at least two points,
heights are integers. They are the named `ASSUME`s of `VirtualRobot`, which TLC evaluates in every run of it.

*Argument.* None of the properties is inductive. The invariant is

    IInv == TypeOK /\ StatusInv /\ SocketInv /\ BoundsInv /\ OwedInv /\ CompletionsConserved

* `StatusInv`: the state names the mission, or the innermost handler is in its loop with an action still
  ahead. Between `task_Imr = task` and `updateStatus` the names differ; no event can be dispatched in that
  stretch because the loop cannot end without passing an action first.
* `SocketInv`: the sockets of the nested slots are different and grow towards the top. It is why a slot of the
  current socket is always the innermost one: nothing can be dispatched while its handler waits.
* `BoundsInv`: the handler in such a slot, in the middle of a point, has a mission whose point `i` has an action, unless
  Stop has cleared it.
* `OwedInv`: the actions at and after `i` of the mission in work are still owed, except the one just
  triggered. With it, `LiftOnlyOwed` follows for every step.

`WaitInBounds` says no more than that, because no more is true: a handler in the slot of a replaced socket can be
interrupted by the new socket's slot, also when it works on a mission of the new connection, and its point may be out of
range when its wait goes on. `StaleWait` is that read, and the other properties hold in spite of it.

The proof that a step preserves `IInv` has a lemma for each kind of step (`DriveShape`, `LoopShape`,
`SkipShape`, `DoneShape`, `PointShape`, `EndShape`, `SlotShape`, `ArriveShape`, `LiftedShape`, `BlockShape`,
`StopShape`, `ConnectShape`, and `ShapeFrame` for those that leave mission and stack alone); `InvStep` puts
them together, one step for each action.

*The refinement.* `PInv` adds to `IInv` that only tasks of accepted missions are owed and that `idParam` names an action of
one. `OwedInv` gives `Trigger` its open task; `GotoLifting` says what a move of the innermost handler does to the
busy ones, and a handler returns only from its loop, where it is not busy (`EndStutters`); nor is a slot that returns
(`SlotLifting`). `PromiseStep` then maps
every action to a step of the service or to a stutter.

*Lifts, actions and aims.* Three more theorems, each with an invariant on top of `IInv` and with the hypotheses it needs:

* `LiftsReported`, without Stop (`NoStop`): the property is inductive, given the types. Stop takes the mission away from
  a handler that waits for its lift, which is then never recorded, so the hypothesis cannot go.
* `ActionsAreServed`, for missions of two points (`TwoPoints`) of one order (`OneOrder`). An order switch replaces the
  mission without looking at its actions (`virtual_robot.cpp:457-462`); two points are what `updateStatus` aims at, and the
  argument rests on them. `ServedInv`: when one slot is on the stack, its handler in its loop or at an action has all
  that is owed ahead of it, and once the handler has returned nothing is owed. A handler that was interrupted finds `i`
  behind the mission, or the point at `i` without an action, when the slot above it returns: it never reaches its loop again.
* `AimsFormPath` (`NoStop`, `TwoPoints`). `AimInv`: the last aim sent is that of the mission in work (`Headed`), or it ends
  where the mission begins and the mission's own aim is still ahead in the loop (`Heading`).

### The robot with its P40

For every map, all missions, any queues and any timing of the P40, on one connection and without Stop (`CellInputs`, the
assumption of `RobotCell`).

*Hypothesis.* `EndActions`: every action is at the second point of its mission. For an action at the first point the
completion carries the id of another one (`virtual_robot.cpp:351`, `:413`), and the aim at the second point is sent before
the lift at the first, so the P40 may have left when it lifts.

*Argument.* `Way` is the command the P40 carries out, with the signals queued behind it. The invariant is

    CellInv == CellTypeOK /\ OneHandler /\ WaitAimed /\ LiftsAimed

`LiftsAimed` says of every lift on the way that the last aim before it ends at its point, or that the P40 is there
already (`Comes`). `WaitAimed` says the same of the lift a handler will send when its wait for the point is over,
and that `ID` and `Param` are those of its action. Between the two lies the status that ends the wait; it can be old,
but nothing is sent on the way in the meantime.

### The frames of the RCS

For any requests with bodies of any length, any noise, any number of connections and every way TCP cuts the stream.

*Assumptions* (`RequestAssumption`). A message type is two bytes and a length fits into an `int` of 32 bits; the frames of
different requests are told apart because the requests differ.

*Argument.* The bytes on the connection are compared with `All`, the frames of all requests one after another, where
`At(k)` is the place behind the frame of request `k`. As long as there was no upset,

    StepInv == IInv /\ (upsets = 0 => InStep)      InStep == OneConnection /\ Ordered /\ InBody /\ Framed

`Framed` says that `buffer \o wire` is the part of `All` that begins at `Position`, and `Position` is the end of the last frame
dispatched plus what the state of the parser says has been read of the next one. So each turn of the loop finds the
byte of the frame that it looks for, both checksums agree, and `Dispatch` hands over the next request, whatever slot is on
the stack. A connection that is lost takes the end of that part away and moves nothing. `InOrderUntilDisturbed`
is what `InStep` says of a step; with no noise and one connection there is never an upset (`OneConnectionInOrder`).

After an upset the order cannot hold for every noise: noise may itself be a frame, or leave the parser in a body that
ends with the right checksums. TLC checks six kinds of noise and a second connection in `Frames_all`.

### The connection of a robot

For any messages, map, number of messages and heartbeats, and every way TCP cuts the stream.

*Assumptions* (`RequestAssumption`, `LinkAssumption`). A body is not empty, and a frame's length fits into its field of
16 bits; what the map says of a place fits into the byte the model gives it.

*Argument.* Type correctness holds for any noise. The others suppose `MaxNoise = 0`: a run of junk may be
a frame of its own, so the channel can be had only for a robot that sends whole messages. Then

    LinkInv == TypeOK /\ Handled /\ HeaderRead /\ Framed

`Framed`: the frames of the messages that are not dispatched yet lie one after another in `buffer \o wire`; the first of them
begins as many bytes before the buffer as the state of the slot says it has read (`Consumed`). With it a
turn of the loop either waits for bytes or dispatches the next message (`Handled`), which is what `FrameChannel` asks: `ChannelStep`
maps `RobotSends` and the dispatch to its two actions and everything else to a stutter. `BeatInv` follows the timer back to
a heartbeat that was dispatched. `AnswerInv` counts: there are as many replies in `down` as requests
among the messages dispatched, so the reply that is written next answers the request that is next.

### The agent list

For any number of connections and any set of addresses, one included.

*Argument.* The list is kept by address, and addresses are used again, so none of the properties is inductive. What
carries them is the order of the GUI thread's queue:

    IInv == TypeOK /\ QueueInv /\ PoolInv /\ ListInv

* `QueueInv`: an address has at most one Agent that is not freed (`Places`); an event is queued once and only after it
  has happened (`Events`); an Agent's created event comes before its destroyed event (`Order`); and all events of an
  Agent come before the created event of the next one at its address, which is still queued as long as one of them
  is (`Handover`).
* `PoolInv`: the pool holds the address each connection was given, and the GUI thread waits only at a destroyed event.
* `ListInv`: the list holds exactly the connections whose created event has been handled and whose destroyed event has
  not, each once. From `Handover` two of them never share an address, so looking one up by address finds it.

`PanelOfItem` follows for a step: an item whose Agent is not about to be removed has an Agent that is not freed, and by
`Places` no other has its address.

### The commands

For any set of calls of the panel and the virtual IMR, any start, any number of clicks and of statuses under way.

*Assumptions* (`CallAssumption`). A turn names one of the four headings, forward a natural number of grids, an aim two
points on a straight way that are more than 200 apart in one direction: below that `linkRCStoP40_1` keeps the
robot's heading, whatever the way is. `resources/map` has its neighbours 800 apart.

*Argument.* A patient operator has at most one call under way. `PatientInv` says which of four places it is in, the
queue to the Agent, the wire to the robot, the wire back, or the queue to the panel, and which of the statuses
around it are up to date there; when the panel is ready the call is in none, and the Agent has the robot's
status. `CommandsInv` says of every command under way that its points form a straight way with the heading it names
(`PathPoints`, `DirectionTravels`, `BuildSound`).

### The checksum

For data of any length, any bytes at each place and any change in them.

*Assumptions.* The `ASSUME`s of `CrcTables` name the facts about the tables and about the exclusive or of half bytes
that the proofs use; they have no parameter and TLC evaluates them completely.

*Argument.* No two entries of `crcLo` are equal, so the high half of the register tells which entry was used, and a turn
can be undone. While the registers differ and the bytes are the same they go on to differ (`ApartSame`); after
the first changed byte they differ in the high half, which one more changed byte cannot make up for (`ApartChanged`).
`MatchesPolynomial` goes on by one byte at a time: a turn with the tables is eight steps of the bit-by-bit remainder, since
each entry is the remainder of its index and the exclusive or is done bit by bit.

### Induction

The induction theorems of the library take an operator as their parameter, which no installed prover can instantiate.
`SetInduction` in `ByteLemmas` states induction for a set of numbers instead, proved from the well-foundedness of `<` on `Nat`, and
`RunExists` gives from it the function a recursion over the numbers defines. The frames of all requests (`Sent`), the
layout of a stream (`Laid`) and the checksum of data of any length (`ChecksumType`) rest on them.

### Only model-checked

* Liveness under fairness and `ENABLED`, which are out of the proof system's reach: `ActionsTriggered`,
  `HandlerReturns`, `CompletionsSent`, `Resynchronises`, `ClosedIsCleanedUp`, `WaitReturns`, `RequestsAnswered`,
  `HeartbeatsComeBack`, `SlotReturns`.
* The liveness part of `Delivers`. Its safety part is `StreamImplementsChannel`.
* `InOrderOrNotAtAll` after noise or on a second connection, where it depends on the messages and the noise, as said above.
* The three disagreements of section 3: a property that is false has no theorem.

## 6. Not modelled

The contents of JSON and protobuf messages beyond the fields a decision reads; logging; the layout and the icons
of windows; `linkRCStoP40`, whose signal is never emitted; `protocolDecoding`, which is never reached; the
progress along a segment (`seginput`), which nothing reads; missions with three or more points in the runs (the
proofs allow any number); a map file that is missing or whose lines have fewer than three fields; a length near
2^32 in a frame of the RCS, whose header would have to carry the right checksum; the UDP sample, which is no part of the
system (`src/README.md:89`).

Some components are partly modelled: of `VirtualPanel` the text that is refreshed each second, of `ControlPanel` its
labels and the layout of its table, of `main` the options and the set-up of logging; nothing else reads them.

## 7. Plan

Done: every component of the inventory that keeps state is modelled and checked. Type correctness is proved of every
state machine, and so is every invariant and action property of the runs under the hypotheses section 5 names;
`InOrderOrNotAtAll` only for one connection without noise. Both refinements are proved as far as they are safety.

Left, in this order:

1. `InOrderOrNotAtAll` across connections without noise: what an old handler that returns can make of a frame of the
   new socket depends on the bytes of a body. The question is which condition on the messages is enough.
2. `AnswersInOrder` and `HeartbeatsFollow` with noise that holds no prefix `FE`: such a run is skipped whole when
   the slot waits for the first prefix.
3. `LiftAtPoint` without `EndActions`, for missions whose first action is at the point the mission before ends at.
