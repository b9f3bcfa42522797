-------------------------- MODULE RobotProxyServer --------------------------
(***************************************************************************)
(* The TCP server of src/src/robot_proxy_server.cpp with the agent list of *)
(* src/ui/mainwindow.cpp.  Each connection gets an Agent living in a thread*)
(* of its own; what the Agent emits there reaches the main thread through  *)
(* the main event queue.  An Agent is known to the main thread by its      *)
(* address only, and an address is used again once its Agent is freed.     *)
(***************************************************************************)
EXTENDS Integers, Sequences, FiniteSets

CONSTANTS
    Addrs,      \* heap addresses an Agent can get
    MaxConn     \* bound: connections accepted

ASSUME ConnAssumption == MaxConn \in Nat /\ Addrs # {}

Conns == 1..MaxConn

VARIABLES
    listening,   \* the server accepts connections
    accepted,    \* connections 1..accepted have been accepted
    state,       \* of a connection's Agent: "none", "starting", "live", "closing", "freed"
    thread,      \* of its QThread: "none", "running", "quitting", "finished"
    addr,        \* the address of its Agent
    threadPool,  \* <<connection (its thread), address>> pairs
    queue,       \* main event queue: <<"created" or "destroyed", connection>>
    main,        \* main thread: "loop", "wait" (in thread->wait()), "leaving", "ended",
                 \* "aborted" (by Qt, on leaving), "crashed" (by a dangling pointer)
    agentList,   \* MainWindow's list of Agent pointers
    combo,       \* the items of agentComboBox, by connection
    monitored,   \* connections whose downWrite is shown
    panel,       \* the connection the ControlPanel acts on, 0 when none is open
    unexpected   \* history: one of the two "Unexpected" branches was taken

agentVars == <<state, addr>>
guiVars   == <<agentList, combo, monitored, panel, unexpected>>
vars == <<listening, accepted, agentVars, thread, threadPool, queue, main, guiVars>>

Alive     == {c \in Conns : state[c] \in {"starting", "live", "closing"}}
Allocated == {addr[c] : c \in Alive}

\* What a pointer to the Agent of c leads to: the Agent that is at its address now.
Meant(c) == IF addr[c] \in Allocated THEN CHOOSE d \in Alive : addr[d] = addr[c] ELSE c

\* A read through a dangling pointer: the process may die of it.
Deref(cs) == IF \A c \in cs : addr[c] \in Allocated THEN UNCHANGED main
             ELSE main' \in {"loop", "crashed"}

Init ==
    /\ listening = FALSE /\ accepted = 0
    /\ state = [c \in Conns |-> "none"] /\ thread = [c \in Conns |-> "none"]
    /\ addr \in {[c \in Conns |-> a] : a \in {CHOOSE a \in Addrs : TRUE}}
    /\ threadPool = {} /\ queue = << >> /\ main = "loop"
    /\ agentList = << >> /\ combo = << >> /\ monitored = {} /\ panel = 0 /\ unexpected = FALSE

-----------------------------------------------------------------------------
(* The main thread.                                                        *)

\* startRPS, and close() when the button is released; connections stay.
StartStop ==
    /\ main = "loop" /\ listening' = ~listening
    /\ UNCHANGED <<accepted, agentVars, thread, threadPool, queue, main, guiVars>>

incomingConnection(a) ==
    LET c == accepted + 1
    IN  /\ main = "loop" /\ listening /\ accepted < MaxConn /\ a \notin Allocated
        /\ accepted' = c
        /\ state' = [state EXCEPT ![c] = "starting"]
        /\ addr' = [addr EXCEPT ![c] = a]
        /\ threadPool' = threadPool \cup {<<c, a>>}
        /\ thread' = [thread EXCEPT ![c] = "running"]
        /\ UNCHANGED <<listening, queue, main, guiVars>>

Listed(a)  == {k \in 1..Len(agentList) : agentList[k] = a}

\* mutants: an entry is overwritten, none is removed, the last one is
Nulled(s, k)      == [s EXCEPT ![k] = "null"]
WithoutNone(s, k) == s
WithoutLast(s, k) == SubSeq(s, 1, Len(s) - 1)

Without(s, k) == SubSeq(s, 1, k - 1) \o SubSeq(s, k + 1, Len(s))

\* agentUpdate(true, agt): the item is named after the Agent, which may have been
\* deleted since it emitted agentCreated.
AddAgent(c) ==
    /\ UNCHANGED panel
    /\ IF Listed(addr[c]) = {}
       THEN /\ Deref({c})
            /\ agentList' = Append(agentList, addr[c])
            /\ combo' = Append(combo, Meant(c))
            /\ monitored' = IF combo = << >> THEN monitored \cup {Meant(c)} ELSE monitored
            /\ UNCHANGED unexpected
       ELSE unexpected' = TRUE /\ UNCHANGED <<main, agentList, combo, monitored>>

\* agentUpdate(false, agt); a destroyed Agent is connected to nothing any more.
RemoveAgent(c) ==
    /\ monitored' = monitored \ {c} /\ UNCHANGED panel
    /\ IF Cardinality(Listed(addr[c])) = 1
       THEN LET k == CHOOSE n \in Listed(addr[c]) : TRUE
            IN  /\ agentList' = Without(agentList, k)
                /\ combo' = Without(combo, k)
                /\ UNCHANGED unexpected
       ELSE unexpected' = TRUE /\ UNCHANGED <<agentList, combo>>

HandleCreated ==
    /\ main = "loop" /\ queue # << >> /\ Head(queue)[1] = "created"
    /\ AddAgent(Head(queue)[2])
    /\ queue' = Tail(queue)
    /\ UNCHANGED <<listening, accepted, agentVars, thread, threadPool>>

\* The destroyed lambda: quit() and wait() on the thread when its last Agent is
\* gone; the main thread stays inside wait().
HandleDestroyed ==
    /\ main = "loop" /\ queue # << >> /\ Head(queue)[1] = "destroyed"
    /\ LET c == Head(queue)[2]
       IN  IF <<c, addr[c]>> \in threadPool
           THEN /\ RemoveAgent(c)
                /\ threadPool' = threadPool \ {<<c, addr[c]>>}
                /\ IF \A e \in threadPool' : e[1] # c
                   THEN /\ thread' = [thread EXCEPT ![c] = "quitting"]
                        /\ main' = "wait" /\ UNCHANGED queue
                   ELSE queue' = Tail(queue) /\ UNCHANGED <<thread, main>>
           ELSE queue' = Tail(queue) /\ UNCHANGED <<threadPool, thread, main, guiVars>>
    /\ UNCHANGED <<listening, accepted, agentVars>>

WaitEnds ==
    /\ main = "wait" /\ thread[Head(queue)[2]] = "finished"
    /\ main' = "loop" /\ queue' = Tail(queue)
    /\ UNCHANGED <<listening, accepted, agentVars, thread, threadPool, guiVars>>

\* The ControlPanel button, for the item chosen, and the closing of the panel.
OpenPanel(k) ==
    /\ main = "loop" /\ panel = 0
    /\ panel' = Meant(combo[k]) /\ Deref({combo[k]})
    /\ UNCHANGED <<listening, accepted, agentVars, thread, threadPool, queue,
                   agentList, combo, monitored, unexpected>>

ClosePanel ==
    /\ main = "loop" /\ panel # 0 /\ panel' = 0
    /\ UNCHANGED <<listening, accepted, agentVars, thread, threadPool, queue, main,
                   agentList, combo, monitored, unexpected>>

\* Every item is named again after the Agent its list entry leads to.
Refresh ==
    /\ main = "loop" /\ Deref({combo[k] : k \in 1..Len(combo)})
    /\ combo' = [k \in 1..Len(combo) |-> Meant(combo[k])]
    /\ UNCHANGED <<listening, accepted, agentVars, thread, threadPool, queue,
                   agentList, monitored, panel, unexpected>>

\* The button of the virtual robot asks for the entry at -1 when the list is empty.
VirtualButton ==
    /\ main = "loop"
    /\ \/ combo = << >> /\ main' \in {"loop", "crashed"}
       \/ \E k \in 1..Len(combo) : Deref({combo[k]})
    /\ UNCHANGED <<listening, accepted, agentVars, thread, threadPool, queue, guiVars>>

\* quit(), from Ctrl+C or the window: exec() returns ...
Quit ==
    /\ main = "loop" /\ main' = "leaving"
    /\ UNCHANGED <<listening, accepted, agentVars, thread, threadPool, queue, guiVars>>

\* ... and rps is destroyed with its children: the destructor of a QThread that
\* is still running aborts the process.
DestroyServer ==
    /\ main = "leaving"
    /\ main' = IF \E c \in Conns : thread[c] \in {"running", "quitting"}
               THEN "aborted" ELSE "ended"
    /\ UNCHANGED <<listening, accepted, agentVars, thread, threadPool, queue, guiVars>>

-----------------------------------------------------------------------------
(* The threads of the Agents.                                              *)

Up == main \notin {"ended", "aborted", "crashed"}

onCreateTimer(c) ==
    /\ Up /\ state[c] = "starting"
    /\ state' = [state EXCEPT ![c] = "live"]
    /\ queue' = Append(queue, <<"created", c>>)
    /\ UNCHANGED <<listening, accepted, addr, thread, threadPool, main, guiVars>>

\* disconnected: deleteLater
Disconnected(c) ==
    /\ Up /\ state[c] = "live"
    /\ state' = [state EXCEPT ![c] = "closing"]
    /\ UNCHANGED <<listening, accepted, addr, thread, threadPool, queue, main, guiVars>>

\* mutant: nobody is told
DeleteSilently(c) ==
    /\ Up /\ state[c] = "closing"
    /\ state' = [state EXCEPT ![c] = "freed"]
    /\ UNCHANGED <<listening, accepted, addr, thread, threadPool, queue, main, guiVars>>

\* The deferred delete: destroyed is emitted, the address is free again.
Delete(c) ==
    /\ Up /\ state[c] = "closing"
    /\ state' = [state EXCEPT ![c] = "freed"]
    /\ queue' = Append(queue, <<"destroyed", c>>)
    /\ UNCHANGED <<listening, accepted, addr, thread, threadPool, main, guiVars>>

\* mutants: a thread ends by itself, or only while its Agent lives
FinishesEarly(c) ==
    /\ Up /\ thread[c] \in {"running", "quitting"}
    /\ thread' = [thread EXCEPT ![c] = "finished"]
    /\ UNCHANGED <<listening, accepted, agentVars, threadPool, queue, main, guiVars>>
FinishesWithAgent(c) == FinishesEarly(c) /\ thread[c] = "quitting" /\ state[c] # "freed"

ThreadFinishes(c) ==
    /\ Up /\ thread[c] = "quitting"
    /\ thread' = [thread EXCEPT ![c] = "finished"]
    /\ UNCHANGED <<listening, accepted, agentVars, threadPool, queue, main, guiVars>>

-----------------------------------------------------------------------------
Handle      == HandleCreated \/ HandleDestroyed \/ WaitEnds
Thread(c)   == onCreateTimer(c) \/ Delete(c) \/ ThreadFinishes(c)
Next == \/ StartStop \/ (\E a \in Addrs : incomingConnection(a))
        \/ Handle \/ (\E k \in 1..Len(combo) : OpenPanel(k)) \/ ClosePanel \/ Refresh
        \/ VirtualButton \/ Quit \/ DestroyServer
        \/ \E c \in Conns : Thread(c) \/ Disconnected(c)

\* Both kinds of thread run their event loops.
Spec == Init /\ [][Next]_vars /\ WF_vars(Handle) /\ \A c \in Conns : WF_vars(Thread(c))

-----------------------------------------------------------------------------
(* Properties.                                                             *)

Queued(kind, c) == \E k \in 1..Len(queue) : queue[k] = <<kind, c>>

\* Every variable keeps its type.
TypeOK ==
    /\ listening \in BOOLEAN /\ accepted \in 0..MaxConn
    /\ state \in [Conns -> {"none", "starting", "live", "closing", "freed"}]
    /\ thread \in [Conns -> {"none", "running", "quitting", "finished"}]
    /\ addr \in [Conns -> Addrs] /\ threadPool \subseteq Conns \X Addrs
    /\ queue \in Seq({"created", "destroyed"} \X Conns)
    /\ main \in {"loop", "wait", "leaving", "ended", "aborted", "crashed"}
    /\ agentList \in Seq(Addrs) /\ combo \in Seq(Conns)
    /\ monitored \subseteq Conns /\ panel \in 0..MaxConn /\ unexpected \in BOOLEAN

\* MainWindow never gets to its "Unexpected" branches, although the address of a
\* freed Agent may belong to a new one before its destroyed event is handled.
NoUnexpected == ~unexpected

\* The entries of the list and of the combo box stand for the same connections,
\* and a pointer in the list dangles at most until the destroyed event that is
\* already queued is handled.
ListedAgents ==
    /\ Len(agentList) = Len(combo)
    /\ \A k \in 1..Len(combo) :
          /\ agentList[k] = addr[combo[k]]
          /\ state[combo[k]] = "freed" => Queued("destroyed", combo[k])

\* A panel acts on the robot its item names, whose Agent is there, unless the
\* destroyed event of that Agent is waiting to be handled.
PanelOfItem ==
    [][\A k \in 1..Len(combo) :
          OpenPanel(k) /\ ~Queued("destroyed", combo[k])
              => panel' = combo[k] /\ state[combo[k]] # "freed"]_vars

\* The pool holds exactly the connections whose destroyed event is still to come,
\* and only their threads run.
PoolMatchesThreads ==
    \A c \in Conns :
        /\ (\E a \in Addrs : <<c, a>> \in threadPool) <=> thread[c] = "running"
        /\ thread[c] = "running" <=>
               state[c] \in {"starting", "live", "closing"}
               \/ (state[c] = "freed" /\ Queued("destroyed", c)
                   /\ ~(main = "wait" /\ Head(queue)[2] = c))

\* The Agent of a closed connection disappears from the window and its thread
\* ends, unless the program is left.
ClosedIsCleanedUp ==
    \A c \in Conns :
        state[c] = "closing" ~>
            \/ thread[c] = "finished" /\ \A k \in 1..Len(combo) : combo[k] # c
            \/ main \in {"leaving", "ended", "aborted", "crashed"}

\* The main thread comes back from wait(): no thread it waits for needs it.
WaitReturns == main = "wait" ~> main # "wait"

\* Leaving the program with Ctrl+C is safe (src/README.md:11).
QuitIsSafe == main # "aborted"
=============================================================================
