------------------------ MODULE RobotProxyServerProofs ------------------------
(***************************************************************************)
(* The agent list and the thread pool of RobotProxyServer, for any number  *)
(* of connections and of heap addresses.                                   *)
(*                                                                         *)
(* The list is kept by address and addresses are used again, so that the   *)
(* list is right is a fact about the order of the main event queue: of two *)
(* connections with the same address the older one has been freed, and all *)
(* its events come before the created event of the younger one.  From this *)
(* follows that an address in the list stands for one connection, the one  *)
(* whose created event has been handled and whose destroyed event has not. *)
(***************************************************************************)
EXTENDS RobotProxyServer, FiniteSetTheorems, SequenceTheorems, TLAPS

Event == {"created", "destroyed"} \X Conns

-----------------------------------------------------------------------------
(* The inductive invariant.                                                *)

\* The connections accepted so far are those whose Agent has been made.
Ages == \A c \in Conns : state[c] = "none" <=> c > accepted

\* An address is given to a new Agent only when the Agent before it has been freed.
Places == \A c, d \in Conns : d < c /\ c <= accepted /\ addr[d] = addr[c] => state[d] = "freed"

\* An event in the queue says something that has happened, and is there once.
Events ==
    /\ \A k \in 1..Len(queue) :
          /\ queue[k][1] = "destroyed" => state[queue[k][2]] = "freed"
          /\ queue[k][1] = "created" => state[queue[k][2]] \in {"live", "closing", "freed"}
    /\ \A k, n \in 1..Len(queue) : queue[k] = queue[n] => k = n

\* An Agent is created before it is destroyed.
Order ==
    \A c \in Conns, k \in 1..Len(queue) :
        queue[k] = <<"created", c>> /\ state[c] = "freed" =>
            \E n \in 1..Len(queue) : n > k /\ queue[n] = <<"destroyed", c>>

\* All events of an Agent come before the created event of the next one at its
\* address, and that event is still there as long as one of them is.
Handover ==
    \A c, d \in Conns, k \in 1..Len(queue) :
        d < c /\ c <= accepted /\ addr[d] = addr[c] /\ state[c] # "starting"
              /\ queue[k][2] = d
            => \E n \in 1..Len(queue) : n > k /\ queue[n] = <<"created", c>>

QueueInv == Ages /\ Places /\ Events /\ Order /\ Handover

\* The main thread waits for the thread of the Agent whose destroyed event it handles.
Waits(c) == main = "wait" /\ Head(queue)[2] = c
WaitsAtHead == main = "wait" => queue # << >> /\ Head(queue)[1] = "destroyed"
PoolByAddr  == \A e \in threadPool : e[2] = addr[e[1]]

PoolInv == WaitsAtHead /\ PoolByAddr /\ PoolMatchesThreads

\* The connections the window should show: created has been handled, destroyed has not.
InList(c) ==
    /\ ~Queued("created", c)
    /\ \/ state[c] \in {"live", "closing"}
       \/ state[c] = "freed" /\ Queued("destroyed", c) /\ ~Waits(c)

Entries ==
    /\ \A k, n \in 1..Len(agentList) : agentList[k] = agentList[n] => k = n
    /\ \A k \in 1..Len(agentList) : \E c \in Conns : InList(c) /\ addr[c] = agentList[k]
    /\ \A c \in Conns : InList(c) => \E k \in 1..Len(agentList) : agentList[k] = addr[c]

Named == \A k \in 1..Len(combo) : combo[k] <= accepted

ListInv == Entries /\ ListedAgents /\ Named /\ NoUnexpected

IInv == TypeOK /\ QueueInv /\ PoolInv /\ ListInv

-----------------------------------------------------------------------------
(* The queue: what is appended comes last, what is taken comes first.      *)

LEMMA Appended ==
    ASSUME NEW e \in Event, queue \in Seq(Event), queue' = Append(queue, e)
    PROVE  /\ queue' \in Seq(Event)
           /\ Len(queue) \in Nat /\ Len(queue') = Len(queue) + 1
           /\ \A k \in 1..Len(queue) : queue'[k] = queue[k]
           /\ queue'[Len(queue) + 1] = e
  OBVIOUS

LEMMA Taken ==
    ASSUME queue \in Seq(Event), queue # << >>, queue' = Tail(queue)
    PROVE  /\ queue' \in Seq(Event)
           /\ Len(queue) \in Nat /\ Len(queue) >= 1 /\ Len(queue') = Len(queue) - 1
           /\ \A k \in 1..Len(queue') : k + 1 \in 1..Len(queue) /\ queue'[k] = queue[k + 1]
           /\ \A k \in 2..Len(queue) : k - 1 \in 1..Len(queue') /\ queue[k] = queue'[k - 1]
           /\ Head(queue) = queue[1]
  OBVIOUS

\* Events in the queue are pairs of a kind and a connection.
LEMMA EventPairs ==
    ASSUME TypeOK
    PROVE  /\ queue \in Seq(Event) /\ Len(queue) \in Nat
           /\ \A k \in 1..Len(queue) : queue[k] \in Event
           /\ \A k \in 1..Len(queue) :
                 /\ queue[k][1] \in {"created", "destroyed"} /\ queue[k][2] \in Conns
                 /\ queue[k] = <<queue[k][1], queue[k][2]>>
           /\ \A c \in Conns : <<"created", c>> \in Event /\ <<"destroyed", c>> \in Event
<1>1. queue \in Seq(Event) /\ Len(queue) \in Nat  BY DEF TypeOK, Event
<1>2. \A k \in 1..Len(queue) : queue[k] \in Event  BY <1>1
<1>3. \A k \in 1..Len(queue) :
         /\ queue[k][1] \in {"created", "destroyed"} /\ queue[k][2] \in Conns
         /\ queue[k] = <<queue[k][1], queue[k][2]>>
  BY <1>2 DEF Event
<1> QED  BY <1>1, <1>2, <1>3 DEF Event

-----------------------------------------------------------------------------
(* QueueInv, action by action.                                             *)

QFrame == UNCHANGED <<accepted, state, addr, queue>>

LEMMA QueueUnchanged == ASSUME QueueInv, QFrame PROVE QueueInv'
<1>1. Ages' /\ Places'  BY DEF QueueInv, QFrame, Ages, Places
<1>2. Events'  BY DEF QueueInv, QFrame, Events
<1>3. Order'  BY DEF QueueInv, QFrame, Order
<1>4. Handover'  BY DEF QueueInv, QFrame, Handover
<1> QED  BY <1>1, <1>2, <1>3, <1>4 DEF QueueInv

LEMMA QueueTaken ==
    ASSUME TypeOK, QueueInv, queue # << >>, queue' = Tail(queue), UNCHANGED <<accepted, state, addr>>
    PROVE  QueueInv'
<1>1. queue \in Seq(Event)  BY EventPairs
<1>2. Ages' /\ Places'  BY DEF QueueInv, Ages, Places
<1>3. Events'
  <2>1. \A k \in 1..Len(queue') :
           /\ queue'[k][1] = "destroyed" => state[queue'[k][2]] = "freed"
           /\ queue'[k][1] = "created" => state[queue'[k][2]] \in {"live", "closing", "freed"}
    BY <1>1, Taken DEF QueueInv, Events
  <2>2. ASSUME NEW k \in 1..Len(queue'), NEW n \in 1..Len(queue'), queue'[k] = queue'[n]
        PROVE  k = n
    <3>1. queue[k + 1] = queue[n + 1] /\ k + 1 \in 1..Len(queue) /\ n + 1 \in 1..Len(queue)
      BY <1>1, <2>2, Taken
    <3>2. k + 1 = n + 1  BY <3>1 DEF QueueInv, Events
    <3> QED  BY <3>2
  <2> QED  BY <2>1, <2>2 DEF Events
<1>4. Order'
  <2> SUFFICES ASSUME NEW c \in Conns, NEW k \in 1..Len(queue'),
                      queue'[k] = <<"created", c>>, state[c] = "freed"
               PROVE  \E n \in 1..Len(queue') : n > k /\ queue'[n] = <<"destroyed", c>>
    BY DEF Order
  <2>1. k + 1 \in 1..Len(queue) /\ queue[k + 1] = <<"created", c>>  BY <1>1, Taken
  <2>2. PICK n \in 1..Len(queue) : n > k + 1 /\ queue[n] = <<"destroyed", c>>
    BY <2>1 DEF QueueInv, Order
  <2>3. n - 1 \in 1..Len(queue') /\ queue'[n - 1] = queue[n]
    BY <1>1, <2>2, Taken
  <2>4. k \in Int /\ n \in Int  BY <1>1, Taken
  <2>5. n - 1 > k  BY <2>2, <2>4
  <2> QED  BY <2>2, <2>3, <2>5
<1>5. Handover'
  <2> SUFFICES ASSUME NEW c \in Conns, NEW d \in Conns, NEW k \in 1..Len(queue'),
                      d < c, c <= accepted, addr[d] = addr[c], state[c] # "starting",
                      queue'[k][2] = d
               PROVE  \E n \in 1..Len(queue') : n > k /\ queue'[n] = <<"created", c>>
    BY DEF Handover
  <2>1. k + 1 \in 1..Len(queue) /\ queue[k + 1][2] = d  BY <1>1, Taken
  <2>2. PICK n \in 1..Len(queue) : n > k + 1 /\ queue[n] = <<"created", c>>
    BY <2>1 DEF QueueInv, Handover
  <2>3. n - 1 \in 1..Len(queue') /\ queue'[n - 1] = queue[n]
    BY <1>1, <2>2, Taken
  <2>4. k \in Int /\ n \in Int  BY <1>1, Taken
  <2>5. n - 1 > k  BY <2>2, <2>4
  <2> QED  BY <2>2, <2>3, <2>5
<1> QED  BY <1>2, <1>3, <1>4, <1>5 DEF QueueInv

\* No event of a connection is in the queue before its Agent has started.
LEMMA NoEventsYet ==
    ASSUME TypeOK, QueueInv, NEW c \in Conns, state[c] \in {"none", "starting"}
    PROVE  \A k \in 1..Len(queue) : queue[k][2] # c
  BY EventPairs DEF QueueInv, Events

LEMMA QueueAccept ==
    ASSUME ConnAssumption, TypeOK, QueueInv, NEW a \in Addrs, incomingConnection(a)
    PROVE  QueueInv'
<1> DEFINE c == accepted + 1
<1>1. /\ c \in Conns /\ accepted' = c /\ a \notin Allocated /\ UNCHANGED queue
      /\ state' = [state EXCEPT ![c] = "starting"] /\ addr' = [addr EXCEPT ![c] = a]
  BY DEF incomingConnection, ConnAssumption, TypeOK, Conns
<1>2. \A d \in Conns : d # c => state'[d] = state[d] /\ addr'[d] = addr[d]
  BY <1>1 DEF TypeOK
<1>3. state'[c] = "starting" /\ addr'[c] = a /\ state[c] = "none"
  BY <1>1 DEF TypeOK, QueueInv, Ages, Conns
<1>4. \A k \in 1..Len(queue) : queue[k][2] # c  BY <1>1, <1>3, NoEventsYet
<1>5. Ages'
  BY <1>1, <1>2, <1>3 DEF Ages, QueueInv, Conns, TypeOK
<1>6. Places'
  <2> SUFFICES ASSUME NEW f \in Conns, NEW d \in Conns,
                      d < f, f <= accepted', addr'[d] = addr'[f]
               PROVE  state'[d] = "freed"
    BY DEF Places
  <2>1. CASE f = c
    <3>1. d # c /\ d <= accepted /\ addr[d] = a  BY <1>1, <1>2, <1>3, <2>1 DEF Conns, TypeOK
    <3>2. d \notin Alive  BY <1>1, <3>1 DEF Allocated
    <3>3. state[d] # "none"  BY <3>1 DEF QueueInv, Ages, TypeOK, Conns
    <3> QED  BY <1>2, <3>1, <3>2, <3>3 DEF Alive, TypeOK
  <2>2. CASE f # c
    <3>1. d # c /\ f <= accepted  BY <1>1, <2>2 DEF Conns, TypeOK
    <3> QED  BY <1>2, <2>2, <3>1 DEF QueueInv, Places
  <2> QED  BY <2>1, <2>2
<1>7. Events'
  <2>1. \A k \in 1..Len(queue) : state'[queue[k][2]] = state[queue[k][2]]
    BY <1>2, <1>4, EventPairs
  <2> QED  BY <1>1, <2>1 DEF QueueInv, Events
<1>8. Order'
  <2>1. \A d \in Conns : state'[d] = "freed" => state[d] = "freed"  BY <1>2, <1>3
  <2> QED  BY <1>1, <2>1 DEF QueueInv, Order
<1>9. Handover'
  <2> SUFFICES ASSUME NEW f \in Conns, NEW d \in Conns, NEW k \in 1..Len(queue),
                      d < f, f <= accepted', addr'[d] = addr'[f], state'[f] # "starting",
                      queue[k][2] = d
               PROVE  \E n \in 1..Len(queue) : n > k /\ queue[n] = <<"created", f>>
    BY <1>1 DEF Handover
  <2>1. f # c  BY <1>3
  <2>2. f <= accepted /\ d # c  BY <1>1, <2>1 DEF Conns, TypeOK
  <2>3. addr[d] = addr[f] /\ state[f] # "starting"  BY <1>2, <2>1, <2>2
  <2> QED  BY <2>2, <2>3 DEF QueueInv, Handover
<1> QED  BY <1>5, <1>6, <1>7, <1>8, <1>9 DEF QueueInv

LEMMA QueueCreate ==
    ASSUME TypeOK, QueueInv, NEW c \in Conns, onCreateTimer(c)
    PROVE  QueueInv'
<1> DEFINE e == <<"created", c>>
<1>1. /\ state[c] = "starting" /\ UNCHANGED <<accepted, addr>>
      /\ state' = [state EXCEPT ![c] = "live"] /\ queue' = Append(queue, e)
      /\ e \in Event /\ queue \in Seq(Event)
  BY EventPairs DEF onCreateTimer
<1>2. /\ Len(queue) \in Nat /\ Len(queue') = Len(queue) + 1
      /\ \A k \in 1..Len(queue) : queue'[k] = queue[k]
      /\ queue'[Len(queue) + 1] = e
  BY <1>1, Appended
<1>3. state'[c] = "live" /\ \A d \in Conns : d # c => state'[d] = state[d]
  BY <1>1 DEF TypeOK
<1>4. \A k \in 1..Len(queue) : queue[k][2] # c  BY <1>1, NoEventsYet
<1>5. e[1] = "created" /\ e[2] = c  OBVIOUS
<1> HIDE DEF e
<1>6. Ages'  BY <1>1, <1>3 DEF QueueInv, Ages
<1>7. Places'  BY <1>1, <1>3 DEF QueueInv, Places
<1>8. Events'
  <2>1. ASSUME NEW k \in 1..Len(queue')
        PROVE  /\ queue'[k][1] = "destroyed" => state'[queue'[k][2]] = "freed"
               /\ queue'[k][1] = "created" => state'[queue'[k][2]] \in {"live", "closing", "freed"}
    <3>1. CASE k = Len(queue) + 1  BY <1>2, <1>3, <1>5, <3>1
    <3>2. CASE k \in 1..Len(queue)
      <4>1. queue[k][2] \in Conns /\ queue[k][2] # c  BY <1>4, <3>2, EventPairs
      <4> QED  BY <1>2, <1>3, <3>2, <4>1 DEF QueueInv, Events
    <3> QED  BY <1>2, <3>1, <3>2
  <2>2. \A k, n \in 1..Len(queue') : queue'[k] = queue'[n] => k = n
    BY <1>2, <1>4, <1>5 DEF QueueInv, Events
  <2> QED  BY <2>1, <2>2 DEF Events
<1>9. Order'
  <2> SUFFICES ASSUME NEW d \in Conns, NEW k \in 1..Len(queue'),
                      queue'[k] = <<"created", d>>, state'[d] = "freed"
               PROVE  \E n \in 1..Len(queue') : n > k /\ queue'[n] = <<"destroyed", d>>
    BY DEF Order
  <2>1. d # c /\ state[d] = "freed"  BY <1>3
  <2>2. k \in 1..Len(queue)  BY <1>2, <1>5, <2>1
  <2>3. PICK n \in 1..Len(queue) : n > k /\ queue[n] = <<"destroyed", d>>
    BY <1>2, <2>1, <2>2 DEF QueueInv, Order
  <2> QED  BY <1>2, <2>3
<1>10. Handover'
  <2> SUFFICES ASSUME NEW f \in Conns, NEW d \in Conns, NEW k \in 1..Len(queue'),
                      d < f, f <= accepted, addr[d] = addr[f], state'[f] # "starting",
                      queue'[k][2] = d
               PROVE  \E n \in 1..Len(queue') : n > k /\ queue'[n] = <<"created", f>>
    BY <1>1 DEF Handover
  <2>1. state[d] = "freed"  BY DEF QueueInv, Places
  <2>2. d # c  BY <1>1, <2>1
  <2>3. k \in 1..Len(queue)  BY <1>2, <1>5, <2>2
  <2>4. CASE f = c  BY <1>2, <2>3, <2>4 DEF e
  <2>5. CASE f # c
    <3>1. PICK n \in 1..Len(queue) : n > k /\ queue[n] = <<"created", f>>
      BY <1>2, <1>3, <2>3, <2>5 DEF QueueInv, Handover
    <3> QED  BY <1>2, <3>1
  <2> QED  BY <2>4, <2>5
<1> QED  BY <1>6, <1>7, <1>8, <1>9, <1>10 DEF QueueInv

LEMMA QueueDisconnect ==
    ASSUME TypeOK, QueueInv, NEW c \in Conns, Disconnected(c)
    PROVE  QueueInv'
<1>1. /\ state[c] = "live" /\ UNCHANGED <<accepted, addr, queue>>
      /\ state' = [state EXCEPT ![c] = "closing"]
  BY DEF Disconnected
<1>2. state'[c] = "closing" /\ \A d \in Conns : d # c => state'[d] = state[d]
  BY <1>1 DEF TypeOK
<1>3. Ages' /\ Places'  BY <1>1, <1>2 DEF QueueInv, Ages, Places
<1>4. Events'
  <2>1. \A k \in 1..Len(queue) : queue[k][2] \in Conns  BY EventPairs
  <2> QED  BY <1>1, <1>2, <2>1 DEF QueueInv, Events
<1>5. Order'  BY <1>1, <1>2 DEF QueueInv, Order
<1>6. Handover'
  <2>1. \A d \in Conns : state'[d] # "starting" => state[d] # "starting"  BY <1>1, <1>2
  <2> QED  BY <1>1, <2>1 DEF QueueInv, Handover
<1> QED  BY <1>3, <1>4, <1>5, <1>6 DEF QueueInv

LEMMA QueueDelete ==
    ASSUME TypeOK, QueueInv, NEW c \in Conns, Delete(c)
    PROVE  QueueInv'
<1> DEFINE e == <<"destroyed", c>>
<1>1. /\ state[c] = "closing" /\ UNCHANGED <<accepted, addr>>
      /\ state' = [state EXCEPT ![c] = "freed"] /\ queue' = Append(queue, e)
      /\ e \in Event /\ queue \in Seq(Event)
  BY EventPairs DEF Delete
<1>2. /\ Len(queue) \in Nat /\ Len(queue') = Len(queue) + 1
      /\ \A k \in 1..Len(queue) : queue'[k] = queue[k]
      /\ queue'[Len(queue) + 1] = e
  BY <1>1, Appended
<1>3. state'[c] = "freed" /\ \A d \in Conns : d # c => state'[d] = state[d]
  BY <1>1 DEF TypeOK
<1>4. \A k \in 1..Len(queue) : queue[k] # e  BY <1>1 DEF QueueInv, Events
<1>5. e[1] = "destroyed" /\ e[2] = c  OBVIOUS
<1>6. Ages'  BY <1>1, <1>3 DEF QueueInv, Ages
<1>7. Places'  BY <1>1, <1>3 DEF QueueInv, Places
<1>8. Events'
  <2>1. ASSUME NEW k \in 1..Len(queue')
        PROVE  /\ queue'[k][1] = "destroyed" => state'[queue'[k][2]] = "freed"
               /\ queue'[k][1] = "created" => state'[queue'[k][2]] \in {"live", "closing", "freed"}
    <3>1. CASE k = Len(queue) + 1  BY <1>2, <1>3, <1>5, <3>1
    <3>2. CASE k \in 1..Len(queue)
      <4>1. queue[k][2] \in Conns  BY <3>2, EventPairs
      <4> QED  BY <1>2, <1>3, <3>2, <4>1 DEF QueueInv, Events
    <3> QED  BY <1>2, <3>1, <3>2
  <2> HIDE DEF e
  <2>2. \A k, n \in 1..Len(queue') : queue'[k] = queue'[n] => k = n
    BY <1>2, <1>4 DEF QueueInv, Events
  <2> QED  BY <2>1, <2>2 DEF Events
<1>9. Order'
  <2> SUFFICES ASSUME NEW d \in Conns, NEW k \in 1..Len(queue'),
                      queue'[k] = <<"created", d>>, state'[d] = "freed"
               PROVE  \E n \in 1..Len(queue') : n > k /\ queue'[n] = <<"destroyed", d>>
    BY DEF Order
  <2>1. k \in 1..Len(queue)  BY <1>2, <1>5
  <2>2. CASE d = c  BY <1>2, <2>1, <2>2
  <2>3. CASE d # c
    <3>1. PICK n \in 1..Len(queue) : n > k /\ queue[n] = <<"destroyed", d>>
      BY <1>2, <1>3, <2>1, <2>3 DEF QueueInv, Order
    <3> QED  BY <1>2, <3>1
  <2> QED  BY <2>2, <2>3
<1>10. Handover'
  <2> SUFFICES ASSUME NEW f \in Conns, NEW d \in Conns, NEW k \in 1..Len(queue'),
                      d < f, f <= accepted, addr[d] = addr[f], state'[f] # "starting",
                      queue'[k][2] = d
               PROVE  \E n \in 1..Len(queue') : n > k /\ queue'[n] = <<"created", f>>
    BY <1>1 DEF Handover
  <2>1. state[d] = "freed" /\ d # c  BY <1>1 DEF QueueInv, Places
  <2>2. k \in 1..Len(queue)  BY <1>2, <1>5, <2>1
  <2>3. state[f] # "starting"  BY <1>1, <1>3
  <2>4. PICK n \in 1..Len(queue) : n > k /\ queue[n] = <<"created", f>>
    BY <1>2, <2>2, <2>3 DEF QueueInv, Handover
  <2> QED  BY <1>2, <2>4
<1> QED  BY <1>6, <1>7, <1>8, <1>9, <1>10 DEF QueueInv

LEMMA QueueStep ==
    ASSUME ConnAssumption, IInv, Next
    PROVE  QueueInv'
<1> USE DEF IInv
<1>1. CASE QFrame  BY <1>1, QueueUnchanged
<1>2. CASE \E a \in Addrs : incomingConnection(a)  BY <1>2, QueueAccept
<1>3. CASE queue # << >> /\ queue' = Tail(queue) /\ UNCHANGED <<accepted, state, addr>>
  BY <1>3, QueueTaken
<1>4. ASSUME NEW c \in Conns, Thread(c) \/ Disconnected(c) PROVE QueueInv'
  <2>1. CASE onCreateTimer(c)  BY <2>1, QueueCreate
  <2>2. CASE Delete(c)  BY <2>2, QueueDelete
  <2>3. CASE ThreadFinishes(c)  BY <2>3, QueueUnchanged DEF ThreadFinishes, QFrame, agentVars
  <2>4. CASE Disconnected(c)  BY <2>4, QueueDisconnect
  <2> QED  BY <1>4, <2>1, <2>2, <2>3, <2>4 DEF Thread
<1>5. CASE Handle
  <2>1. CASE HandleCreated  BY <1>3, <2>1 DEF HandleCreated, agentVars
  <2>2. CASE HandleDestroyed
    <3>1. queue # << >> /\ UNCHANGED <<accepted, state, addr>> /\ queue' \in {queue, Tail(queue)}
      BY <2>2 DEF HandleDestroyed, agentVars
    <3> QED  BY <1>1, <1>3, <3>1 DEF QFrame
  <2>3. CASE WaitEnds
    <3>1. queue # << >>  BY <2>3 DEF WaitEnds, PoolInv, WaitsAtHead
    <3> QED  BY <1>3, <2>3, <3>1 DEF WaitEnds, agentVars
  <2> QED  BY <1>5, <2>1, <2>2, <2>3 DEF Handle
<1>6. CASE \E k \in 1..Len(combo) : OpenPanel(k)  BY <1>1, <1>6 DEF OpenPanel, QFrame, agentVars
<1>7. CASE StartStop \/ ClosePanel \/ Refresh \/ VirtualButton \/ Quit \/ DestroyServer
  BY <1>1, <1>7 DEF StartStop, ClosePanel, Refresh, VirtualButton, Quit, DestroyServer,
                    QFrame, agentVars
<1> QED  BY <1>2, <1>4, <1>5, <1>6, <1>7 DEF Next

-----------------------------------------------------------------------------
(* What an event that is handled says of its connection.                   *)

\* Two connections the window shows have different addresses.
LEMMA InListApart ==
    ASSUME TypeOK, QueueInv, NEW c \in Conns, NEW d \in Conns,
           InList(c), InList(d), addr[c] = addr[d]
    PROVE  c = d
<1>1. ASSUME NEW f \in Conns, NEW g \in Conns, InList(f), InList(g), addr[f] = addr[g], g < f
      PROVE  FALSE
  <2>1. state[f] \notin {"none", "starting"}  BY <1>1 DEF InList
  <2>2. f <= accepted  BY <2>1 DEF QueueInv, Ages, TypeOK, Conns
  <2>3. state[g] = "freed"  BY <1>1, <2>2 DEF QueueInv, Places
  <2>4. PICK k \in 1..Len(queue) : queue[k] = <<"destroyed", g>>
    BY <1>1, <2>3 DEF InList, Queued
  <2>5. queue[k][2] = g  BY <2>4
  <2>6. Queued("created", f)  BY <1>1, <2>1, <2>2, <2>5 DEF QueueInv, Handover, Queued
  <2> QED  BY <1>1, <2>6 DEF InList
<1>2. c \in Int /\ d \in Int  BY DEF Conns
<1> QED  BY <1>1, <1>2

\* A connection the window shows shares its address with the connection of the
\* event to be handled next only when it is that connection.
LEMMA HeadApart ==
    ASSUME TypeOK, QueueInv, queue # << >>, NEW d \in Conns,
           InList(d), addr[d] = addr[Head(queue)[2]]
    PROVE  d = Head(queue)[2]
<1> DEFINE c == Head(queue)[2]
<1>1. /\ 1 \in 1..Len(queue) /\ c = queue[1][2] /\ c \in Conns
      /\ queue[1][1] \in {"created", "destroyed"} /\ queue[1] = <<queue[1][1], c>>
  BY EventPairs
<1>2. state[c] \notin {"none", "starting"}  BY <1>1 DEF QueueInv, Events
<1>3. c <= accepted  BY <1>1, <1>2 DEF QueueInv, Ages, TypeOK, Conns
<1>4. state[d] \notin {"none", "starting"} /\ d <= accepted
  BY DEF InList, QueueInv, Ages, TypeOK, Conns
<1> HIDE DEF c
<1>5. ASSUME d > c PROVE FALSE
  <2>1. Queued("created", d)
    BY <1>1, <1>4, <1>5 DEF QueueInv, Handover, Queued, c
  <2> QED  BY <2>1 DEF InList
<1>6. ASSUME d < c PROVE FALSE
  <2>1. state[d] = "freed"  BY <1>1, <1>3, <1>6 DEF QueueInv, Places, c
  <2>2. PICK k \in 1..Len(queue) : queue[k] = <<"destroyed", d>>
    BY <2>1 DEF InList, Queued
  <2>3. queue[k][2] = d  BY <2>2
  <2>4. PICK n \in 1..Len(queue) : n > k /\ queue[n] = <<"created", c>>
    BY <1>1, <1>2, <1>3, <1>6, <2>3 DEF QueueInv, Handover, c
  <2>5. n # 1 /\ n > 1  BY <2>4, EventPairs
  <2>6. queue[1] = <<"destroyed", c>>  BY <1>1, <2>4, <2>5 DEF QueueInv, Events
  <2>7. state[c] = "freed"
    <3>1. queue[1][1] = "destroyed" /\ queue[1][2] = c  BY <2>6
    <3> QED  BY <1>1, <3>1 DEF QueueInv, Events
  <2>8. PICK m \in 1..Len(queue) : m > n /\ queue[m] = <<"destroyed", c>>
    BY <1>1, <2>4, <2>7 DEF QueueInv, Order
  <2>9. m = 1  BY <1>1, <2>6, <2>8 DEF QueueInv, Events
  <2> QED  BY <2>4, <2>5, <2>8, <2>9, EventPairs
<1>7. c \in Int /\ d \in Int  BY <1>1 DEF Conns
<1>8. d = c  BY <1>5, <1>6, <1>7
<1> QED  BY <1>8 DEF c

\* When the destroyed event of a connection is handled the window shows it.
LEMMA DestroyedShown ==
    ASSUME TypeOK, QueueInv, queue # << >>, Head(queue)[1] = "destroyed", main = "loop"
    PROVE  LET c == Head(queue)[2]
           IN  /\ c \in Conns /\ Head(queue) = <<"destroyed", c>> /\ state[c] = "freed"
               /\ Queued("destroyed", c) /\ InList(c)
<1> DEFINE c == Head(queue)[2]
<1>1. 1 \in 1..Len(queue) /\ c \in Conns /\ Head(queue) = queue[1] /\ queue[1] = <<"destroyed", c>>
  BY EventPairs
<1>2. state[c] = "freed" /\ Queued("destroyed", c)  BY <1>1 DEF QueueInv, Events, Queued
<1>3. ~Queued("created", c)
  <2> SUFFICES ASSUME NEW k \in 1..Len(queue), queue[k] = <<"created", c>> PROVE FALSE
    BY DEF Queued
  <2>1. PICK n \in 1..Len(queue) : n > k /\ queue[n] = <<"destroyed", c>>
    BY <1>1, <1>2 DEF QueueInv, Order
  <2>2. n = 1  BY <1>1, <2>1 DEF QueueInv, Events
  <2> QED  BY <2>1, <2>2, EventPairs
<1> QED  BY <1>1, <1>2, <1>3 DEF InList, Waits

\* When the created event of a connection is handled its address is not in the list.
LEMMA CreatedNotListed ==
    ASSUME TypeOK, QueueInv, Entries, queue # << >>, Head(queue)[1] = "created"
    PROVE  LET c == Head(queue)[2]
           IN  /\ c \in Conns /\ queue[1] = <<"created", c>>
               /\ state[c] \in {"live", "closing", "freed"} /\ Listed(addr[c]) = {}
<1> DEFINE c == Head(queue)[2]
<1>1. 1 \in 1..Len(queue) /\ c \in Conns /\ Head(queue) = queue[1] /\ queue[1] = <<"created", c>>
  BY EventPairs
<1>2. state[c] \in {"live", "closing", "freed"}  BY <1>1 DEF QueueInv, Events
<1>3. ASSUME NEW k \in 1..Len(agentList), agentList[k] = addr[c] PROVE FALSE
  <2>1. PICK d \in Conns : InList(d) /\ addr[d] = addr[c]  BY <1>3 DEF Entries
  <2>2. d = c  BY <2>1, HeadApart
  <2> QED  BY <1>1, <2>1, <2>2 DEF InList, Queued
<1> QED  BY <1>1, <1>2, <1>3 DEF Listed

-----------------------------------------------------------------------------
(* Taking entry k out of a list.                                           *)

LEMMA WithoutEntry ==
    ASSUME NEW S, NEW s \in Seq(S), NEW k \in 1..Len(s)
    PROVE  /\ Without(s, k) \in Seq(S) /\ Len(Without(s, k)) = Len(s) - 1
           /\ \A n \in 1..Len(s) - 1 : Without(s, k)[n] = s[IF n < k THEN n ELSE n + 1]
<1> DEFINE p == SubSeq(s, 1, k - 1)
           q == SubSeq(s, k + 1, Len(s))
<1>0. Len(s) \in Nat /\ k \in Nat /\ k >= 1 /\ k <= Len(s)  OBVIOUS
<1>1. p \in Seq(S) /\ Len(p) = k - 1 /\ \A n \in 1..k - 1 : p[n] = s[n]  OBVIOUS
<1>2. q \in Seq(S) /\ Len(q) = Len(s) - k /\ \A n \in 1..Len(s) - k : q[n] = s[k + n]  OBVIOUS
<1>3. Without(s, k) = p \o q  BY DEF Without
<1> HIDE DEF p, q
<1>4. /\ p \o q \in Seq(S) /\ Len(p \o q) = Len(p) + Len(q)
      /\ \A n \in 1..Len(p) + Len(q) :
            (p \o q)[n] = IF n <= Len(p) THEN p[n] ELSE q[n - Len(p)]
  BY <1>1, <1>2, ConcatProperties
<1>5. Len(p) + Len(q) = Len(s) - 1  BY <1>0, <1>1, <1>2
<1>6. ASSUME NEW n \in 1..Len(s) - 1
      PROVE  (p \o q)[n] = s[IF n < k THEN n ELSE n + 1]
  <2>1. CASE n < k
    <3>1. n <= k - 1 /\ n \in 1..k - 1  BY <1>0, <2>1
    <3> QED  BY <1>1, <1>4, <1>5, <2>1, <3>1
  <2>2. CASE n >= k
    <3>1. ~(n <= k - 1) /\ n - (k - 1) \in 1..Len(s) - k  BY <1>0, <2>2
    <3>2. k + (n - (k - 1)) = n + 1  BY <1>0
    <3>3. (p \o q)[n] = q[n - (k - 1)]  BY <1>1, <1>4, <1>5, <3>1
    <3>4. q[n - (k - 1)] = s[n + 1]  BY <1>2, <3>1, <3>2
    <3>5. (IF n < k THEN n ELSE n + 1) = n + 1  BY <1>0, <2>2
    <3> QED  BY <3>3, <3>4, <3>5
  <2>3. n < k \/ n >= k  BY <1>0
  <2> QED  BY <2>1, <2>2, <2>3, Zenon
<1> QED  BY <1>3, <1>4, <1>5, <1>6

\* The same, by entries: what stays is what was at another place.
LEMMA WithoutKeeps ==
    ASSUME NEW S, NEW s \in Seq(S), NEW k \in 1..Len(s)
    PROVE  /\ \A n \in 1..Len(Without(s, k)) :
                 \E j \in 1..Len(s) : j # k /\ Without(s, k)[n] = s[j]
           /\ \A j \in 1..Len(s) : j # k =>
                 \E n \in 1..Len(Without(s, k)) : Without(s, k)[n] = s[j]
<1>1. Len(s) \in Nat /\ Len(Without(s, k)) = Len(s) - 1  BY WithoutEntry
<1>2. ASSUME NEW n \in 1..Len(s) - 1
      PROVE  \E j \in 1..Len(s) : j # k /\ Without(s, k)[n] = s[j]
  <2> DEFINE j == IF n < k THEN n ELSE n + 1
  <2>1. j \in 1..Len(s) /\ j # k  BY <1>1
  <2>2. Without(s, k)[n] = s[j]  BY WithoutEntry
  <2> HIDE DEF j
  <2> QED  BY <2>1, <2>2
<1>3. ASSUME NEW j \in 1..Len(s), j # k
      PROVE  \E n \in 1..Len(s) - 1 : Without(s, k)[n] = s[j]
  <2>1. CASE j < k
    <3>1. j \in 1..Len(s) - 1 /\ Without(s, k)[j] = s[j]  BY <1>1, <2>1, WithoutEntry
    <3> QED  BY <3>1
  <2>2. CASE j > k
    <3>1. j - 1 \in 1..Len(s) - 1 /\ ~(j - 1 < k) /\ j - 1 + 1 = j  BY <1>1, <2>2
    <3>2. Without(s, k)[j - 1] = s[j]  BY <3>1, WithoutEntry
    <3> QED  BY <3>1, <3>2
  <2> QED  BY <1>3, <2>1, <2>2
<1> QED  BY <1>1, <1>2, <1>3

-----------------------------------------------------------------------------
(* What a pointer to an Agent leads to.                                    *)

LEMMA MeantIs ==
    ASSUME TypeOK, QueueInv, NEW c \in Conns
    PROVE  /\ Meant(c) \in Conns /\ addr[Meant(c)] = addr[c]
           /\ addr[c] \in Allocated => state[Meant(c)] # "freed" /\ Meant(c) \in Alive
           /\ addr[c] \notin Allocated => Meant(c) = c
           /\ c \in Alive => Meant(c) = c
<1>1. CASE addr[c] \in Allocated
  <2>1. Meant(c) = CHOOSE d \in Alive : addr[d] = addr[c]  BY <1>1 DEF Meant
  <2>2. \E d \in Alive : addr[d] = addr[c]  BY <1>1 DEF Allocated
  <2>3. Meant(c) \in Alive /\ addr[Meant(c)] = addr[c]  BY <2>1, <2>2
  <2>4. ASSUME c \in Alive, Meant(c) # c PROVE FALSE
    <3> DEFINE d == Meant(c)
    <3>1. /\ d \in Conns /\ addr[d] = addr[c]
          /\ state[d] \notin {"none", "freed"} /\ state[c] \notin {"none", "freed"}
      BY <2>3, <2>4 DEF Alive
    <3>2. c <= accepted /\ d <= accepted  BY <3>1 DEF QueueInv, Ages, TypeOK, Conns
    <3>3. c < d \/ d < c  BY <2>4, <3>1 DEF Conns
    <3> HIDE DEF d
    <3> QED  BY <3>1, <3>2, <3>3 DEF QueueInv, Places
  <2> QED  BY <1>1, <2>3, <2>4 DEF Alive
<1>2. CASE addr[c] \notin Allocated
  <2>1. c \notin Alive  BY <1>2 DEF Allocated
  <2> QED  BY <1>2, <2>1 DEF Meant
<1> QED  BY <1>1, <1>2

-----------------------------------------------------------------------------
(* PoolInv, and what the window shows, action by action.                   *)

\* Appending to the queue leaves its head when there is one.
LEMMA HeadStays ==
    ASSUME NEW e \in Event, queue \in Seq(Event), queue # << >>, queue' = Append(queue, e)
    PROVE  Head(queue') = Head(queue) /\ queue' # << >>
  OBVIOUS

\* An appended event is queued, and so is what was queued before.
LEMMA QueuedAppended ==
    ASSUME NEW e \in Event, queue \in Seq(Event), queue' = Append(queue, e),
           NEW kind, NEW c
    PROVE  Queued(kind, c)' <=> Queued(kind, c) \/ e = <<kind, c>>
<1>1. /\ Len(queue) \in Nat /\ Len(queue') = Len(queue) + 1
      /\ \A k \in 1..Len(queue) : queue'[k] = queue[k]
      /\ queue'[Len(queue) + 1] = e
  BY Appended
<1>2. ASSUME Queued(kind, c)' PROVE Queued(kind, c) \/ e = <<kind, c>>
  <2>1. PICK k \in 1..Len(queue') : queue'[k] = <<kind, c>>  BY <1>2 DEF Queued
  <2>2. k \in 1..Len(queue) \/ k = Len(queue) + 1  BY <1>1
  <2> QED  BY <1>1, <2>1, <2>2 DEF Queued
<1>3. ASSUME Queued(kind, c) PROVE Queued(kind, c)'
  <2>1. PICK k \in 1..Len(queue) : queue[k] = <<kind, c>>  BY <1>3 DEF Queued
  <2>2. k \in 1..Len(queue')  BY <1>1
  <2> QED  BY <1>1, <2>1, <2>2 DEF Queued
<1>4. ASSUME e = <<kind, c>> PROVE Queued(kind, c)'
  <2>1. Len(queue) + 1 \in 1..Len(queue')  BY <1>1
  <2> QED  BY <1>1, <1>4, <2>1 DEF Queued
<1> QED  BY <1>2, <1>3, <1>4

\* Taking the head changes what is queued for that event only.
LEMMA QueuedTaken ==
    ASSUME TypeOK, QueueInv, queue # << >>, queue' = Tail(queue), NEW kind, NEW c
    PROVE  Queued(kind, c)' <=> Queued(kind, c) /\ queue[1] # <<kind, c>>
<1>1. queue \in Seq(Event)  BY EventPairs
<1>2. ASSUME Queued(kind, c)' PROVE Queued(kind, c) /\ queue[1] # <<kind, c>>
  <2>1. PICK k \in 1..Len(queue') : queue'[k] = <<kind, c>>  BY <1>2 DEF Queued
  <2>2. k + 1 \in 1..Len(queue) /\ queue[k + 1] = <<kind, c>>  BY <1>1, <2>1, Taken
  <2>3. 1 \in 1..Len(queue) /\ k + 1 # 1  BY <1>1, <2>1, Taken
  <2> QED  BY <2>2, <2>3 DEF Queued, QueueInv, Events
<1>3. ASSUME Queued(kind, c), queue[1] # <<kind, c>> PROVE Queued(kind, c)'
  <2>1. PICK k \in 1..Len(queue) : queue[k] = <<kind, c>>  BY <1>3 DEF Queued
  <2>2. k # 1  BY <1>3, <2>1
  <2>3. k \in 2..Len(queue)  BY <1>1, <2>1, <2>2
  <2>4. k - 1 \in 1..Len(queue') /\ queue'[k - 1] = queue[k]  BY <1>1, <2>3, Taken
  <2> QED  BY <2>1, <2>4 DEF Queued
<1> QED  BY <1>2, <1>3

PFrame == UNCHANGED <<state, addr, queue, main, thread, threadPool>>

LEMMA PoolUnchanged == ASSUME PoolInv, PFrame PROVE PoolInv'
<1>1. WaitsAtHead' /\ PoolByAddr'  BY DEF PoolInv, PFrame, WaitsAtHead, PoolByAddr
<1>2. PoolMatchesThreads'  BY DEF PoolInv, PFrame, PoolMatchesThreads, Queued
<1> QED  BY <1>1, <1>2 DEF PoolInv

\* The main thread goes from the loop to anywhere but wait().
LEMMA PoolLeaves ==
    ASSUME PoolInv, UNCHANGED <<state, addr, queue, thread, threadPool>>,
           main # "wait", main' # "wait"
    PROVE  PoolInv'
<1>1. WaitsAtHead' /\ PoolByAddr'  BY DEF PoolInv, WaitsAtHead, PoolByAddr
<1>2. PoolMatchesThreads'  BY DEF PoolInv, PoolMatchesThreads, Queued
<1> QED  BY <1>1, <1>2 DEF PoolInv

\* The pool has a pair for a connection exactly when it has this one.
LEMMA PoolPair ==
    ASSUME TypeOK, PoolByAddr, NEW c \in Conns
    PROVE  (\E a \in Addrs : <<c, a>> \in threadPool) <=> <<c, addr[c]>> \in threadPool
<1>1. addr[c] \in Addrs  BY DEF TypeOK
<1>2. \A a \in Addrs : <<c, a>> \in threadPool => a = addr[c]
  <2> SUFFICES ASSUME NEW a \in Addrs, <<c, a>> \in threadPool PROVE a = addr[c]
    OBVIOUS
  <2>1. <<c, a>>[2] = addr[<<c, a>>[1]]  BY DEF PoolByAddr
  <2> QED  BY <2>1
<1> QED  BY <1>1, <1>2

LEMMA PoolAccept ==
    ASSUME ConnAssumption, TypeOK, QueueInv, PoolInv, NEW a \in Addrs, incomingConnection(a)
    PROVE  PoolInv'
<1> DEFINE c == accepted + 1
<1>1. /\ c \in Conns /\ UNCHANGED <<queue, main>> /\ main = "loop"
      /\ state' = [state EXCEPT ![c] = "starting"] /\ addr' = [addr EXCEPT ![c] = a]
      /\ thread' = [thread EXCEPT ![c] = "running"]
      /\ threadPool' = threadPool \cup {<<c, a>>}
  BY DEF incomingConnection, ConnAssumption, TypeOK, Conns
<1>2. state[c] = "none"  BY <1>1 DEF QueueInv, Ages, Conns, TypeOK
<1>3. /\ state'[c] = "starting" /\ addr'[c] = a /\ thread'[c] = "running"
      /\ \A d \in Conns : d # c =>
            state'[d] = state[d] /\ addr'[d] = addr[d] /\ thread'[d] = thread[d]
  BY <1>1 DEF TypeOK
<1>4. \A e \in threadPool : e[1] # c
  <2>1. ~(\E b \in Addrs : <<c, b>> \in threadPool)
    BY <1>1, <1>2 DEF PoolInv, PoolMatchesThreads
  <2>2. \A e \in threadPool : e[2] \in Addrs /\ e = <<e[1], e[2]>>  BY DEF TypeOK
  <2> QED  BY <2>1, <2>2
<1>5. WaitsAtHead'  BY <1>1 DEF WaitsAtHead
<1>6. PoolByAddr'
  <2> SUFFICES ASSUME NEW e \in threadPool' PROVE e[2] = addr'[e[1]]
    BY DEF PoolByAddr
  <2>1. CASE e \in threadPool
    <3>1. e[1] # c /\ e[1] \in Conns  BY <1>4, <2>1 DEF TypeOK
    <3> QED  BY <1>3, <2>1, <3>1 DEF PoolInv, PoolByAddr
  <2>2. CASE e = <<c, a>>  BY <1>3, <2>2
  <2> QED  BY <1>1, <2>1, <2>2
<1> HIDE DEF c
<1>7. PoolMatchesThreads'
  <2>1. \A d \in Conns : Queued("destroyed", d)' <=> Queued("destroyed", d)
    BY <1>1 DEF Queued
  <2>2. <<c, a>> \in threadPool' /\ \A d \in Conns, b \in Addrs :
           d # c => (<<d, b>> \in threadPool' <=> <<d, b>> \in threadPool)
    BY <1>1
  <2>3. ASSUME NEW d \in Conns
        PROVE  /\ (\E b \in Addrs : <<d, b>> \in threadPool') <=> thread'[d] = "running"
               /\ thread'[d] = "running" <=>
                      state'[d] \in {"starting", "live", "closing"}
                      \/ (state'[d] = "freed" /\ Queued("destroyed", d)'
                          /\ ~(main' = "wait" /\ Head(queue')[2] = d))
    <3>1. CASE d = c  BY <1>3, <2>2, <3>1
    <3>2. CASE d # c  BY <1>1, <1>3, <2>1, <2>2, <3>2 DEF PoolInv, PoolMatchesThreads
    <3> QED  BY <3>1, <3>2
  <2> QED  BY <2>3 DEF PoolMatchesThreads
<1> QED  BY <1>5, <1>6, <1>7 DEF PoolInv

LEMMA PoolCreated ==
    ASSUME TypeOK, QueueInv, PoolInv, HandleCreated
    PROVE  PoolInv'
<1>1. /\ main = "loop" /\ main' \in {"loop", "crashed"} /\ queue # << >> /\ queue' = Tail(queue)
      /\ UNCHANGED <<state, addr, thread, threadPool>> /\ Head(queue)[1] = "created"
  BY DEF HandleCreated, AddAgent, Deref, agentVars
<1>2. queue[1][1] = "created"  BY <1>1, EventPairs
<1>3. \A c \in Conns : Queued("destroyed", c)' <=> Queued("destroyed", c)
  BY <1>1, <1>2, QueuedTaken
<1>4. WaitsAtHead' /\ PoolByAddr'  BY <1>1 DEF PoolInv, WaitsAtHead, PoolByAddr
<1>5. PoolMatchesThreads'  BY <1>1, <1>3 DEF PoolInv, PoolMatchesThreads
<1> QED  BY <1>4, <1>5 DEF PoolInv

\* The first branch of the destroyed lambda is always taken, and to its end.
LEMMA DestroyedWaits ==
    ASSUME TypeOK, QueueInv, PoolInv, HandleDestroyed
    PROVE  LET c == Head(queue)[2]
           IN  /\ c \in Conns /\ RemoveAgent(c)
               /\ threadPool' = threadPool \ {<<c, addr[c]>>}
               /\ \A e \in threadPool' : e[1] # c
               /\ thread' = [thread EXCEPT ![c] = "quitting"]
               /\ main = "loop" /\ main' = "wait" /\ UNCHANGED queue
<1> DEFINE c == Head(queue)[2]
<1>1. /\ main = "loop" /\ queue # << >> /\ Head(queue)[1] = "destroyed"
  BY DEF HandleDestroyed
<1>2. c \in Conns /\ state[c] = "freed" /\ Queued("destroyed", c)
  BY <1>1, DestroyedShown
<1>3. thread[c] = "running"  BY <1>1, <1>2 DEF PoolInv, PoolMatchesThreads
<1>4. <<c, addr[c]>> \in threadPool
  <2>1. \E a \in Addrs : <<c, a>> \in threadPool
    BY <1>2, <1>3 DEF PoolInv, PoolMatchesThreads
  <2> QED  BY <1>2, <2>1, PoolPair DEF PoolInv
<1>5. \A e \in threadPool \ {<<c, addr[c]>>} : e[1] # c
  <2> SUFFICES ASSUME NEW e \in threadPool, e[1] = c PROVE e = <<c, addr[c]>>
    OBVIOUS
  <2>1. e = <<e[1], e[2]>>  BY DEF TypeOK
  <2>2. e[2] = addr[e[1]]  BY DEF PoolInv, PoolByAddr
  <2> QED  BY <2>1, <2>2
<1> HIDE DEF c
<1>6. /\ RemoveAgent(c) /\ threadPool' = threadPool \ {<<c, addr[c]>>}
      /\ IF \A e \in threadPool' : e[1] # c
         THEN thread' = [thread EXCEPT ![c] = "quitting"] /\ main' = "wait" /\ UNCHANGED queue
         ELSE TRUE
  BY <1>4 DEF HandleDestroyed, c
<1>7. \A e \in threadPool' : e[1] # c  BY <1>5, <1>6
<1>8. thread' = [thread EXCEPT ![c] = "quitting"] /\ main' = "wait" /\ UNCHANGED queue
  BY <1>6, <1>7
<1> QED  BY <1>1, <1>2, <1>6, <1>7, <1>8 DEF c

LEMMA PoolDestroyed ==
    ASSUME TypeOK, QueueInv, PoolInv, HandleDestroyed
    PROVE  PoolInv'
<1> DEFINE c == Head(queue)[2]
<1>1. /\ c \in Conns /\ threadPool' = threadPool \ {<<c, addr[c]>>}
      /\ \A e \in threadPool' : e[1] # c
      /\ thread' = [thread EXCEPT ![c] = "quitting"]
      /\ main = "loop" /\ main' = "wait" /\ UNCHANGED <<queue, state, addr>>
  BY DestroyedWaits DEF HandleDestroyed, agentVars
<1>2. queue # << >> /\ Head(queue)[1] = "destroyed"  BY DEF HandleDestroyed
<1>3. thread'[c] = "quitting" /\ \A d \in Conns : d # c => thread'[d] = thread[d]
  BY <1>1 DEF TypeOK
<1>4. WaitsAtHead' /\ PoolByAddr'  BY <1>1, <1>2 DEF PoolInv, WaitsAtHead, PoolByAddr
<1>5. \A d \in Conns : Queued("destroyed", d)' <=> Queued("destroyed", d)
  BY <1>1 DEF Queued
<1>6. state[c] = "freed"  BY <1>1, <1>2, DestroyedShown
<1>7. Head(queue')[2] = c  BY <1>1
<1> HIDE DEF c
<1>8. \A d \in Conns, b \in Addrs :
         IF d = c THEN <<d, b>> \notin threadPool'
         ELSE <<d, b>> \in threadPool' <=> <<d, b>> \in threadPool
  <2>1. \A b \in Addrs : <<c, b>> \notin threadPool'
    <3> SUFFICES ASSUME NEW b \in Addrs, <<c, b>> \in threadPool' PROVE FALSE
      OBVIOUS
    <3>1. <<c, b>>[1] # c  BY <1>1
    <3> QED  BY <3>1
  <2> QED  BY <1>1, <2>1
<1>9. ASSUME NEW d \in Conns
      PROVE  /\ (\E b \in Addrs : <<d, b>> \in threadPool') <=> thread'[d] = "running"
             /\ thread'[d] = "running" <=>
                    state'[d] \in {"starting", "live", "closing"}
                    \/ (state'[d] = "freed" /\ Queued("destroyed", d)'
                        /\ ~(main' = "wait" /\ Head(queue')[2] = d))
  <2>1. CASE d = c  BY <1>1, <1>3, <1>6, <1>7, <1>8, <2>1
  <2>2. CASE d # c
    BY <1>1, <1>3, <1>5, <1>7, <1>8, <2>2 DEF PoolInv, PoolMatchesThreads
  <2> QED  BY <2>1, <2>2
<1> QED  BY <1>4, <1>9 DEF PoolInv, PoolMatchesThreads

LEMMA PoolWaitEnds ==
    ASSUME TypeOK, QueueInv, PoolInv, WaitEnds
    PROVE  PoolInv'
<1> DEFINE c == Head(queue)[2]
<1>1. /\ main = "wait" /\ main' = "loop" /\ thread[c] = "finished" /\ queue' = Tail(queue)
      /\ UNCHANGED <<state, addr, thread, threadPool>>
  BY DEF WaitEnds, agentVars
<1>2. queue # << >> /\ Head(queue)[1] = "destroyed"
  BY <1>1 DEF PoolInv, WaitsAtHead
<1>3. queue[1] = <<"destroyed", c>> /\ c \in Conns /\ state[c] = "freed"
  <2>1. 1 \in 1..Len(queue) /\ Head(queue) = queue[1] /\ queue[1][1] = "destroyed"
    BY <1>2, EventPairs
  <2> QED  BY <2>1, EventPairs DEF QueueInv, Events
<1> HIDE DEF c
<1>4. \A d \in Conns : Queued("destroyed", d)' <=> Queued("destroyed", d) /\ d # c
  BY <1>1, <1>2, <1>3, QueuedTaken
<1>5. WaitsAtHead' /\ PoolByAddr'  BY <1>1 DEF PoolInv, WaitsAtHead, PoolByAddr
<1>6. ASSUME NEW d \in Conns
      PROVE  /\ (\E b \in Addrs : <<d, b>> \in threadPool') <=> thread'[d] = "running"
             /\ thread'[d] = "running" <=>
                    state'[d] \in {"starting", "live", "closing"}
                    \/ (state'[d] = "freed" /\ Queued("destroyed", d)'
                        /\ ~(main' = "wait" /\ Head(queue')[2] = d))
  <2>1. CASE d = c
    BY <1>1, <1>3, <1>4, <2>1 DEF PoolInv, PoolMatchesThreads
  <2>2. CASE d # c
    BY <1>1, <1>4, <2>2 DEF PoolInv, PoolMatchesThreads, c
  <2> QED  BY <2>1, <2>2
<1> QED  BY <1>5, <1>6 DEF PoolInv, PoolMatchesThreads

LEMMA PoolThread ==
    ASSUME TypeOK, QueueInv, PoolInv, NEW c \in Conns, Thread(c) \/ Disconnected(c)
    PROVE  PoolInv'
<1>1. queue \in Seq(Event) /\ <<"created", c>> \in Event /\ <<"destroyed", c>> \in Event
  BY EventPairs
<1>2. WaitsAtHead' /\ PoolByAddr' /\ (main = "wait" => Head(queue') = Head(queue))
  <2>1. UNCHANGED <<main, addr, threadPool>>
        /\ (UNCHANGED queue \/ \E e \in Event : queue' = Append(queue, e))
    BY <1>1 DEF Thread, onCreateTimer, Delete, ThreadFinishes, Disconnected, agentVars
  <2>2. main = "wait" => Head(queue') = Head(queue) /\ queue' # << >>
    BY <1>1, <2>1, HeadStays DEF PoolInv, WaitsAtHead
  <2> QED  BY <2>1, <2>2 DEF PoolInv, WaitsAtHead, PoolByAddr
<1>3. CASE onCreateTimer(c)
  <2>1. \A d \in Conns : Queued("destroyed", d)' <=> Queued("destroyed", d)
    BY <1>1, <1>3, QueuedAppended DEF onCreateTimer
  <2>2. UNCHANGED <<main, thread, threadPool>> /\ \A d \in Conns :
           /\ state'[d] = "freed" <=> state[d] = "freed"
           /\ state'[d] \in {"starting", "live", "closing"} <=>
                 state[d] \in {"starting", "live", "closing"}
    BY <1>3 DEF onCreateTimer, TypeOK
  <2>3. PoolMatchesThreads'  BY <1>2, <2>1, <2>2 DEF PoolInv, PoolMatchesThreads
  <2> QED  BY <1>2, <2>3 DEF PoolInv
<1>4. CASE Disconnected(c)
  <2>1. \A d \in Conns : Queued("destroyed", d)' <=> Queued("destroyed", d)
    BY <1>4 DEF Disconnected, Queued
  <2>2. UNCHANGED <<main, thread, threadPool>> /\ \A d \in Conns :
           /\ state'[d] = "freed" <=> state[d] = "freed"
           /\ state'[d] \in {"starting", "live", "closing"} <=>
                 state[d] \in {"starting", "live", "closing"}
    BY <1>4 DEF Disconnected, TypeOK
  <2>3. PoolMatchesThreads'  BY <1>2, <2>1, <2>2 DEF PoolInv, PoolMatchesThreads
  <2> QED  BY <1>2, <2>3 DEF PoolInv
<1>5. CASE Delete(c)
  <2>1. \A d \in Conns : Queued("destroyed", d)' <=> Queued("destroyed", d) \/ d = c
    BY <1>1, <1>5, QueuedAppended DEF Delete
  <2>2. /\ UNCHANGED <<main, thread, threadPool>> /\ state[c] = "closing" /\ state'[c] = "freed"
        /\ \A d \in Conns : d # c => state'[d] = state[d]
    BY <1>5 DEF Delete, TypeOK
  <2>3. main = "wait" => Head(queue)[2] # c
    <3> SUFFICES ASSUME main = "wait", Head(queue)[2] = c PROVE FALSE
      OBVIOUS
    <3>1. queue # << >> /\ Head(queue)[1] = "destroyed"  BY DEF PoolInv, WaitsAtHead
    <3>2. 1 \in 1..Len(queue) /\ queue[1][1] = "destroyed" /\ queue[1][2] = c
      BY <1>1, <3>1
    <3> QED  BY <2>2, <3>2 DEF QueueInv, Events
  <2>4. ASSUME NEW d \in Conns
        PROVE  /\ (\E b \in Addrs : <<d, b>> \in threadPool') <=> thread'[d] = "running"
               /\ thread'[d] = "running" <=>
                      state'[d] \in {"starting", "live", "closing"}
                      \/ (state'[d] = "freed" /\ Queued("destroyed", d)'
                          /\ ~(main' = "wait" /\ Head(queue')[2] = d))
    <3>1. CASE d = c  BY <1>2, <2>1, <2>2, <2>3, <3>1 DEF PoolInv, PoolMatchesThreads
    <3>2. CASE d # c  BY <1>2, <2>1, <2>2, <3>2 DEF PoolInv, PoolMatchesThreads
    <3> QED  BY <3>1, <3>2
  <2> QED  BY <1>2, <2>4 DEF PoolInv, PoolMatchesThreads
<1>6. CASE ThreadFinishes(c)
  <2>1. /\ UNCHANGED <<main, queue, state, threadPool>>
        /\ \A d \in Conns : thread'[d] = "running" <=> thread[d] = "running"
    BY <1>6 DEF ThreadFinishes, agentVars, TypeOK
  <2>2. PoolMatchesThreads'  BY <2>1 DEF PoolInv, PoolMatchesThreads, Queued
  <2> QED  BY <1>2, <2>2 DEF PoolInv
<1> QED  BY <1>3, <1>4, <1>5, <1>6 DEF Thread

LEMMA PoolStep ==
    ASSUME ConnAssumption, IInv, Next
    PROVE  PoolInv'
<1> USE DEF IInv
<1>1. CASE \E a \in Addrs : incomingConnection(a)  BY <1>1, PoolAccept
<1>2. CASE Handle  BY <1>2, PoolCreated, PoolDestroyed, PoolWaitEnds DEF Handle
<1>3. CASE \E c \in Conns : Thread(c) \/ Disconnected(c)  BY <1>3, PoolThread
<1>4. CASE \E k \in 1..Len(combo) : OpenPanel(k)
  <2>1. UNCHANGED <<state, addr, queue, thread, threadPool>> /\ main = "loop" /\ main' # "wait"
    BY <1>4 DEF OpenPanel, Deref, agentVars
  <2> QED  BY <2>1, PoolLeaves
<1>5. CASE StartStop \/ ClosePanel \/ Refresh \/ VirtualButton \/ Quit \/ DestroyServer
  <2>1. /\ UNCHANGED <<state, addr, queue, thread, threadPool>> /\ main # "wait"
        /\ main' # "wait"
    BY <1>5 DEF StartStop, ClosePanel, Refresh, VirtualButton, Quit, DestroyServer, Deref,
                agentVars
  <2> QED  BY <2>1, PoolLeaves
<1> QED  BY <1>1, <1>2, <1>3, <1>4, <1>5 DEF Next

-----------------------------------------------------------------------------
(* ListInv, action by action.                                              *)

\* A step that leaves the lists alone, and what the window should show.
LEMMA ListKept ==
    ASSUME TypeOK, ListInv, UNCHANGED <<agentList, combo, unexpected>>, accepted' >= accepted,
           \A c \in Conns : InList(c)' <=> InList(c),
           \A c \in Conns : c <= accepted => addr'[c] = addr[c],
           \A c \in Conns : InList(c) => c <= accepted,
           \A k \in 1..Len(combo) :
              state'[combo[k]] = "freed" => Queued("destroyed", combo[k])',
           accepted' \in Nat
    PROVE  ListInv'
<1>0. Len(combo) \in Nat /\ \A k \in 1..Len(combo) : combo[k] \in Conns  BY DEF TypeOK
<1>1. Entries'  BY DEF ListInv, Entries
<1>2. ListedAgents'
  <2>1. \A k \in 1..Len(combo) : addr'[combo[k]] = addr[combo[k]]
    BY <1>0 DEF ListInv, Named
  <2> QED  BY <2>1 DEF ListInv, ListedAgents
<1>3. Named'
  <2>1. \A k \in 1..Len(combo) : combo[k] <= accepted /\ combo[k] \in Int
    BY <1>0 DEF ListInv, Named, Conns
  <2> QED  BY <2>1 DEF Named, TypeOK
<1>4. NoUnexpected'  BY DEF ListInv, NoUnexpected
<1> QED  BY <1>1, <1>2, <1>3, <1>4 DEF ListInv

LEMMA InListAccepted ==
    ASSUME TypeOK, QueueInv, NEW c \in Conns, InList(c)
    PROVE  c <= accepted /\ state[c] \notin {"none", "starting"}
  BY DEF InList, QueueInv, Ages, TypeOK, Conns

\* Steps of the main thread that leave the list and the queue alone.
LEMMA ListUnchanged ==
    ASSUME TypeOK, QueueInv, ListInv, main # "wait", main' # "wait",
           UNCHANGED <<accepted, state, addr, queue, agentList, combo, unexpected>>
    PROVE  ListInv'
<1>1. \A c \in Conns : InList(c)' <=> InList(c)  BY DEF InList, Waits, Queued
<1>2. \A c \in Conns : InList(c) => c <= accepted  BY InListAccepted
<1>3. \A k \in 1..Len(combo) :
         state'[combo[k]] = "freed" => Queued("destroyed", combo[k])'
  BY DEF ListInv, ListedAgents, Queued
<1>4. accepted' \in Nat /\ accepted' >= accepted  BY DEF TypeOK
<1> QED  BY <1>1, <1>2, <1>3, <1>4, ListKept

LEMMA ListAccept ==
    ASSUME ConnAssumption, TypeOK, QueueInv, ListInv, NEW a \in Addrs, incomingConnection(a)
    PROVE  ListInv'
<1> DEFINE c == accepted + 1
<1>1. /\ c \in Conns /\ UNCHANGED <<queue, main, agentList, combo, unexpected>>
      /\ accepted' = c /\ accepted \in Nat
      /\ state' = [state EXCEPT ![c] = "starting"] /\ addr' = [addr EXCEPT ![c] = a]
  BY DEF incomingConnection, ConnAssumption, TypeOK, Conns, guiVars
<1>2. state[c] = "none"  BY <1>1 DEF QueueInv, Ages, Conns, TypeOK
<1>3. /\ state'[c] = "starting"
      /\ \A d \in Conns : d # c => state'[d] = state[d] /\ addr'[d] = addr[d]
  BY <1>1 DEF TypeOK
<1>4. accepted' >= accepted /\ accepted' \in Nat /\ \A d \in Conns : d <= accepted => d # c
  BY <1>1 DEF Conns
<1> HIDE DEF c
<1>5. \A d \in Conns : InList(d)' <=> InList(d)
  BY <1>1, <1>2, <1>3 DEF InList, Waits, Queued
<1>6. \A d \in Conns : InList(d) => d <= accepted  BY InListAccepted
<1>7. \A k \in 1..Len(combo) :
         state'[combo[k]] = "freed" => Queued("destroyed", combo[k])'
  <2> SUFFICES ASSUME NEW k \in 1..Len(combo), state'[combo[k]] = "freed"
               PROVE  Queued("destroyed", combo[k])'
    OBVIOUS
  <2>1. combo[k] \in Conns /\ state[combo[k]] = "freed"  BY <1>3 DEF TypeOK
  <2> QED  BY <1>1, <2>1 DEF ListInv, ListedAgents, Queued
<1> QED  BY <1>1, <1>3, <1>4, <1>5, <1>6, <1>7, ListKept

LEMMA ListThread ==
    ASSUME TypeOK, QueueInv, PoolInv, ListInv, NEW c \in Conns, Thread(c) \/ Disconnected(c)
    PROVE  ListInv'
<1> USE DEF guiVars
<1>1. queue \in Seq(Event) /\ <<"created", c>> \in Event /\ <<"destroyed", c>> \in Event
  BY EventPairs
<1>2. /\ UNCHANGED <<accepted, addr, main, agentList, combo, unexpected>>
      /\ UNCHANGED queue \/ \E e \in Event : queue' = Append(queue, e)
  BY <1>1 DEF Thread, onCreateTimer, Delete, ThreadFinishes, Disconnected, agentVars
<1>3. \A d \in Conns : Waits(d)' <=> Waits(d)
  <2>1. main = "wait" => Head(queue') = Head(queue)
    BY <1>1, <1>2, HeadStays DEF PoolInv, WaitsAtHead
  <2> QED  BY <1>2, <2>1 DEF Waits
<1>4. accepted' \in Nat /\ accepted' >= accepted  BY <1>2 DEF TypeOK
<1>5. \A d \in Conns : InList(d) => d <= accepted  BY InListAccepted
<1>6. SUFFICES /\ \A d \in Conns : InList(d)' <=> InList(d)
               /\ \A d \in Conns : state'[d] = "freed" =>
                     state[d] = "freed" \/ Queued("destroyed", d)'
               /\ \A d \in Conns : Queued("destroyed", d) => Queued("destroyed", d)'
  <2>1. \A k \in 1..Len(combo) : combo[k] \in Conns  BY DEF TypeOK
  <2>2. \A k \in 1..Len(combo) :
           state'[combo[k]] = "freed" => Queued("destroyed", combo[k])'
    <3> SUFFICES ASSUME NEW k \in 1..Len(combo), state'[combo[k]] = "freed"
                 PROVE  Queued("destroyed", combo[k])'
      OBVIOUS
    <3>1. combo[k] \in Conns  BY <2>1
    <3>2. state[combo[k]] = "freed" => Queued("destroyed", combo[k])
      BY DEF ListInv, ListedAgents
    <3>3. PICK d \in Conns : d = combo[k]  BY <3>1
    <3>4. Queued("destroyed", d)'  BY <1>6, <3>2, <3>3
    <3> QED  BY <1>2, <3>3, <3>4 DEF Queued
  <2> QED  BY <1>2, <1>4, <1>5, <1>6, <2>2, ListKept
<1>7. CASE onCreateTimer(c)
  <2>1. state[c] = "starting" /\ state'[c] = "live" /\ \A d \in Conns : d # c => state'[d] = state[d]
    BY <1>7 DEF onCreateTimer, TypeOK
  <2>2. \A d \in Conns : /\ Queued("destroyed", d)' <=> Queued("destroyed", d)
                         /\ Queued("created", d)' <=> Queued("created", d) \/ d = c
    BY <1>1, <1>7, QueuedAppended DEF onCreateTimer
  <2> QED  BY <1>3, <2>1, <2>2 DEF InList
<1>8. CASE Disconnected(c)
  <2>1. state[c] = "live" /\ state'[c] = "closing" /\ \A d \in Conns : d # c => state'[d] = state[d]
    BY <1>8 DEF Disconnected, TypeOK
  <2>2. \A d \in Conns : /\ Queued("destroyed", d)' <=> Queued("destroyed", d)
                         /\ Queued("created", d)' <=> Queued("created", d)
    BY <1>8 DEF Disconnected, Queued
  <2> QED  BY <1>3, <2>1, <2>2 DEF InList
<1>9. CASE Delete(c)
  <2>1. state[c] = "closing" /\ state'[c] = "freed" /\ \A d \in Conns : d # c => state'[d] = state[d]
    BY <1>9 DEF Delete, TypeOK
  <2>2. \A d \in Conns : /\ Queued("destroyed", d)' <=> Queued("destroyed", d) \/ d = c
                         /\ Queued("created", d)' <=> Queued("created", d)
    BY <1>1, <1>9, QueuedAppended DEF Delete
  <2>3. ~Waits(c)
    <3> SUFFICES ASSUME main = "wait", Head(queue)[2] = c PROVE FALSE
      BY DEF Waits
    <3>1. queue # << >> /\ Head(queue)[1] = "destroyed"  BY DEF PoolInv, WaitsAtHead
    <3>2. 1 \in 1..Len(queue) /\ queue[1][1] = "destroyed" /\ queue[1][2] = c
      BY <1>1, <3>1
    <3> QED  BY <2>1, <3>2 DEF QueueInv, Events
  <2> QED  BY <1>3, <2>1, <2>2, <2>3 DEF InList
<1>10. CASE ThreadFinishes(c)
  <2>1. UNCHANGED <<state, queue>>  BY <1>10 DEF ThreadFinishes, agentVars
  <2>2. \A d \in Conns : /\ Queued("destroyed", d)' <=> Queued("destroyed", d)
                         /\ Queued("created", d)' <=> Queued("created", d)
    BY <2>1 DEF Queued
  <2> QED  BY <1>3, <2>1, <2>2 DEF InList
<1> QED  BY <1>7, <1>8, <1>9, <1>10 DEF Thread

LEMMA ListCreated ==
    ASSUME TypeOK, QueueInv, ListInv, HandleCreated
    PROVE  ListInv'
<1>0. PICK c \in Conns : c = Head(queue)[2]
  BY EventPairs DEF HandleCreated
<1>1. /\ main = "loop" /\ queue # << >> /\ queue' = Tail(queue) /\ Head(queue)[1] = "created"
      /\ UNCHANGED <<accepted, state, addr>>
  BY DEF HandleCreated, agentVars
<1>2. /\ c \in Conns /\ queue[1] = <<"created", c>>
      /\ state[c] \in {"live", "closing", "freed"} /\ Listed(addr[c]) = {}
  BY <1>0, <1>1, CreatedNotListed DEF ListInv
<1>3. /\ main' # "wait" /\ UNCHANGED unexpected
      /\ agentList' = Append(agentList, addr[c]) /\ combo' = Append(combo, Meant(c))
  BY <1>0, <1>1, <1>2 DEF HandleCreated, AddAgent, Deref
<1>4. \A d \in Conns : /\ Queued("created", d)' <=> Queued("created", d) /\ d # c
                       /\ Queued("destroyed", d)' <=> Queued("destroyed", d)
  BY <1>1, <1>2, QueuedTaken
<1>5. ~InList(c) /\ InList(c)'
  <2>1. 1 \in 1..Len(queue)  BY <1>1, EventPairs
  <2>2. Queued("created", c)  BY <1>2, <2>1 DEF Queued
  <2>3. state[c] = "freed" => Queued("destroyed", c)
    BY <1>2, <2>1 DEF QueueInv, Order, Queued
  <2>4. ~Queued("created", c)' /\ (state[c] = "freed" => Queued("destroyed", c)')
    BY <1>2, <1>4, <2>3
  <2>5. ~InList(c)  BY <2>2 DEF InList
  <2>6. InList(c)'  BY <1>1, <1>2, <1>3, <2>4 DEF InList, Waits
  <2> QED  BY <2>5, <2>6
<1>6. \A d \in Conns : d # c => (InList(d)' <=> InList(d))
  BY <1>1, <1>3, <1>4 DEF InList, Waits
<1>7. /\ agentList \in Seq(Addrs) /\ Len(agentList) \in Nat /\ combo \in Seq(Conns)
      /\ Len(combo) = Len(agentList) /\ addr[c] \in Addrs
      /\ Meant(c) \in Conns /\ addr[Meant(c)] = addr[c]
      /\ state[Meant(c)] = "freed" => Meant(c) = c
  BY <1>2, MeantIs DEF TypeOK, ListInv, ListedAgents
<1> DEFINE n == Len(agentList) + 1
<1>m. PICK m \in Conns : m = Meant(c)  BY <1>7
<1>8. /\ Len(agentList') = n /\ Len(combo') = n /\ n \in Nat
      /\ agentList'[n] = addr[c] /\ combo'[n] = m
      /\ \A k \in 1..n - 1 : agentList'[k] = agentList[k] /\ combo'[k] = combo[k]
  BY <1>3, <1>7, <1>m
<1>9. \A k \in 1..n - 1 : agentList[k] # addr[c]  BY <1>2 DEF Listed
<1>10. \A k \in 1..n : k = n \/ k \in 1..n - 1  BY <1>8
<1>11. Entries'
  <2>1. \A k, j \in 1..n : agentList'[k] = agentList'[j] => k = j
    <3>1. \A k, j \in 1..n - 1 : agentList[k] = agentList[j] => k = j
      BY <1>7 DEF ListInv, Entries
    <3> QED  BY <1>8, <1>9, <1>10, <3>1
  <2>2. \A k \in 1..n : \E d \in Conns : InList(d)' /\ addr[d] = agentList'[k]
    <3> SUFFICES ASSUME NEW k \in 1..n PROVE \E d \in Conns : InList(d)' /\ addr[d] = agentList'[k]
      OBVIOUS
    <3>1. CASE k = n
      <4>1. c \in Conns /\ InList(c)' /\ addr[c] = agentList'[k]  BY <1>2, <1>5, <1>8, <3>1
      <4> QED  BY <4>1
    <3>2. CASE k \in 1..n - 1
      <4>1. PICK d \in Conns : InList(d) /\ addr[d] = agentList[k]
        BY <1>7, <3>2 DEF ListInv, Entries
      <4>2. d # c  BY <1>5, <4>1
      <4> QED  BY <1>6, <1>8, <3>2, <4>1, <4>2
    <3> QED  BY <1>10, <3>1, <3>2
  <2>3. \A d \in Conns : InList(d)' => \E k \in 1..n : agentList'[k] = addr[d]
    <3> SUFFICES ASSUME NEW d \in Conns, InList(d)' PROVE \E k \in 1..n : agentList'[k] = addr[d]
      OBVIOUS
    <3>1. CASE d = c
      <4>1. n \in 1..n  BY <1>8
      <4> QED  BY <1>8, <3>1, <4>1
    <3>2. CASE d # c
      <4>1. PICK k \in 1..Len(agentList) : agentList[k] = addr[d]
        BY <1>6, <3>2 DEF ListInv, Entries
      <4>2. k \in 1..n - 1 /\ k \in 1..n  BY <1>7, <4>1
      <4> QED  BY <1>8, <4>1, <4>2
    <3> QED  BY <3>1, <3>2
  <2>4. UNCHANGED addr  BY <1>1
  <2> QED  BY <1>8, <2>1, <2>2, <2>3, <2>4 DEF Entries
<1>12. ListedAgents'
  <2>1. ASSUME NEW k \in 1..n
        PROVE  \E d \in Conns : /\ combo'[k] = d /\ agentList'[k] = addr[d]
                                /\ state[d] = "freed" => Queued("destroyed", d)'
    <3>1. CASE k = n
      <4>1. state[m] = "freed" => Queued("destroyed", m)'
        <5>1. state[c] = "freed" => Queued("destroyed", c)'  BY <1>1, <1>5 DEF InList
        <5>2. state[m] = "freed" => m = c  BY <1>7, <1>m
        <5> QED  BY <5>1, <5>2
      <4>2. m \in Conns /\ addr[m] = addr[c]  BY <1>7, <1>m
      <4> QED  BY <1>8, <3>1, <4>1, <4>2
    <3>2. CASE k \in 1..n - 1
      <4>1. combo[k] \in Conns /\ k \in 1..Len(combo)  BY <1>7, <3>2
      <4>2. agentList[k] = addr[combo[k]]
            /\ (state[combo[k]] = "freed" => Queued("destroyed", combo[k]))
        BY <4>1 DEF ListInv, ListedAgents
      <4> QED  BY <1>4, <1>8, <3>2, <4>1, <4>2
    <3> QED  BY <1>10, <3>1, <3>2
  <2>2. \A k \in 1..n :
           /\ agentList'[k] = addr'[combo'[k]]
           /\ state'[combo'[k]] = "freed" =>
                 \E q \in 1..Len(queue') : queue'[q] = <<"destroyed", combo'[k]>>
    BY <1>1, <2>1 DEF Queued
  <2> QED  BY <1>8, <2>2 DEF ListedAgents, Queued
<1>13. Named'
  <2>1. c <= accepted /\ m <= accepted
    <3>1. state[c] # "none" /\ state[m] # "none"
      BY <1>2, <1>m, MeantIs DEF Alive
    <3>2. c \in Conns /\ m \in Conns  OBVIOUS
    <3> QED  BY <3>1, <3>2 DEF QueueInv, Ages, TypeOK, Conns
  <2>2. \A k \in 1..n - 1 : combo[k] <= accepted  BY <1>7 DEF ListInv, Named
  <2> QED  BY <1>1, <1>8, <1>10, <2>1, <2>2 DEF Named
<1>14. NoUnexpected'  BY <1>3 DEF ListInv, NoUnexpected
<1> QED  BY <1>11, <1>12, <1>13, <1>14 DEF ListInv

LEMMA ListDestroyed ==
    ASSUME TypeOK, QueueInv, PoolInv, ListInv, HandleDestroyed
    PROVE  ListInv'
<1>0. PICK c \in Conns : c = Head(queue)[2]
  BY EventPairs DEF HandleDestroyed
<1>1. /\ main = "loop" /\ main' = "wait" /\ RemoveAgent(c)
      /\ UNCHANGED <<accepted, state, addr, queue>>
  BY <1>0, DestroyedWaits DEF HandleDestroyed, agentVars
<1>2. InList(c) /\ state[c] = "freed"
  BY <1>0, <1>1, DestroyedShown DEF HandleDestroyed
<1>3. \A d \in Conns : InList(d)' <=> InList(d) /\ d # c
  <2>1. \A d \in Conns : Waits(d)' <=> d = c  BY <1>0, <1>1 DEF Waits
  <2>2. \A d \in Conns : ~Waits(d)  BY <1>1 DEF Waits
  <2>3. \A d \in Conns : /\ Queued("created", d)' <=> Queued("created", d)
                         /\ Queued("destroyed", d)' <=> Queued("destroyed", d)
    BY <1>1 DEF Queued
  <2> QED  BY <1>1, <1>2, <2>1, <2>2, <2>3 DEF InList
<1>4. PICK k \in 1..Len(agentList) : agentList[k] = addr[c]
  BY <1>2 DEF ListInv, Entries
<1>5. \A j \in 1..Len(agentList) : agentList[j] = addr[c] <=> j = k
  BY <1>4 DEF ListInv, Entries
<1>6. Listed(addr[c]) = {k}  BY <1>5 DEF Listed
<1>7. Cardinality(Listed(addr[c])) = 1 /\ (CHOOSE n \in Listed(addr[c]) : TRUE) = k
  BY <1>6, FS_Singleton
<1>8. /\ agentList' = Without(agentList, k) /\ combo' = Without(combo, k)
      /\ UNCHANGED unexpected
  BY <1>1, <1>7 DEF RemoveAgent
<1>9. /\ agentList \in Seq(Addrs) /\ combo \in Seq(Conns) /\ Len(combo) = Len(agentList)
      /\ k \in 1..Len(combo) /\ Len(agentList) \in Nat
  BY DEF TypeOK, ListInv, ListedAgents
<1>10. /\ Len(agentList') = Len(agentList) - 1 /\ Len(combo') = Len(agentList) - 1
       /\ \A n \in 1..Len(agentList) - 1 :
             /\ agentList'[n] = agentList[IF n < k THEN n ELSE n + 1]
             /\ combo'[n] = combo[IF n < k THEN n ELSE n + 1]
  BY <1>8, <1>9, WithoutEntry
<1> DEFINE at(n) == IF n < k THEN n ELSE n + 1
<1>11. \A n \in 1..Len(agentList) - 1 :
          at(n) \in 1..Len(agentList) /\ at(n) # k /\ agentList'[n] = agentList[at(n)]
          /\ combo'[n] = combo[at(n)]
  BY <1>9, <1>10
<1>12. \A n, j \in 1..Len(agentList) - 1 : at(n) = at(j) => n = j  BY <1>9
<1> HIDE DEF at
<1>13. Entries'
  <2>1. \A n, j \in 1..Len(agentList') : agentList'[n] = agentList'[j] => n = j
    <3> SUFFICES ASSUME NEW n \in 1..Len(agentList) - 1, NEW j \in 1..Len(agentList) - 1,
                        agentList[at(n)] = agentList[at(j)]
                 PROVE  n = j
      BY <1>10, <1>11
    <3>1. at(n) = at(j)  BY <1>11 DEF ListInv, Entries
    <3> QED  BY <1>12, <3>1
  <2>2. ASSUME NEW n \in 1..Len(agentList')
        PROVE  \E d \in Conns : InList(d)' /\ addr'[d] = agentList'[n]
    <3>1. at(n) \in 1..Len(agentList) /\ at(n) # k /\ agentList'[n] = agentList[at(n)]
      BY <1>10, <1>11
    <3>2. PICK d \in Conns : InList(d) /\ addr[d] = agentList[at(n)]
      BY <3>1 DEF ListInv, Entries
    <3>3. d # c  BY <1>5, <3>1, <3>2
    <3> QED  BY <1>1, <1>3, <3>1, <3>2, <3>3
  <2>3. ASSUME NEW d \in Conns, InList(d)'
        PROVE  \E n \in 1..Len(agentList') : agentList'[n] = addr'[d]
    <3>1. InList(d) /\ d # c  BY <1>3, <2>3
    <3>2. PICK j \in 1..Len(agentList) : agentList[j] = addr[d]
      BY <3>1 DEF ListInv, Entries
    <3>3. addr[d] # addr[c]  BY <1>2, <3>1, InListApart
    <3>4. j # k  BY <1>4, <3>2, <3>3
    <3>5. \E n \in 1..Len(agentList') : agentList'[n] = agentList[j]
      BY <1>8, <1>9, <3>4, WithoutKeeps
    <3> QED  BY <1>1, <3>2, <3>5
  <2> QED  BY <2>1, <2>2, <2>3 DEF Entries
<1>14. ListedAgents'
  <2>1. ASSUME NEW n \in 1..Len(combo')
        PROVE  /\ agentList'[n] = addr'[combo'[n]]
               /\ state'[combo'[n]] = "freed" =>
                     \E q \in 1..Len(queue') : queue'[q] = <<"destroyed", combo'[n]>>
    <3>1. at(n) \in 1..Len(combo) /\ agentList'[n] = agentList[at(n)]
          /\ combo'[n] = combo[at(n)]
      BY <1>9, <1>10, <1>11
    <3> QED  BY <1>1, <3>1 DEF ListInv, ListedAgents, Queued
  <2> QED  BY <1>10, <2>1 DEF ListedAgents, Queued
<1>15. Named'
  <2>1. ASSUME NEW n \in 1..Len(combo') PROVE combo'[n] <= accepted'
    <3>1. at(n) \in 1..Len(combo) /\ combo'[n] = combo[at(n)]  BY <1>9, <1>10, <1>11
    <3> QED  BY <1>1, <3>1 DEF ListInv, Named
  <2> QED  BY <2>1 DEF Named
<1>16. NoUnexpected'  BY <1>8 DEF ListInv, NoUnexpected
<1> QED  BY <1>13, <1>14, <1>15, <1>16 DEF ListInv

LEMMA ListWaitEnds ==
    ASSUME TypeOK, QueueInv, PoolInv, ListInv, WaitEnds
    PROVE  ListInv'
<1>1. /\ main = "wait" /\ main' = "loop" /\ queue # << >> /\ queue' = Tail(queue)
      /\ UNCHANGED <<accepted, state, addr, agentList, combo, unexpected>>
      /\ Head(queue)[1] = "destroyed"
  BY DEF WaitEnds, agentVars, guiVars, PoolInv, WaitsAtHead
<1>0. PICK c \in Conns : c = Head(queue)[2]
  BY <1>1, EventPairs
<1>2. /\ 1 \in 1..Len(queue) /\ queue[1] = <<"destroyed", c>> /\ Head(queue) = queue[1]
      /\ state[c] = "freed"
  <2>1. 1 \in 1..Len(queue) /\ Head(queue) = queue[1] /\ queue[1] = <<"destroyed", c>>
    BY <1>0, <1>1, EventPairs
  <2> QED  BY <2>1 DEF QueueInv, Events
<1>3. \A d \in Conns : /\ Queued("created", d)' <=> Queued("created", d)
                       /\ Queued("destroyed", d)' <=> Queued("destroyed", d) /\ d # c
  BY <1>1, <1>2, QueuedTaken
<1>4. \A d \in Conns : InList(d)' <=> InList(d)
  <2>1. \A d \in Conns : Waits(d) <=> d = c  BY <1>0, <1>1 DEF Waits
  <2>2. \A d \in Conns : ~Waits(d)'  BY <1>1 DEF Waits
  <2> QED  BY <1>1, <1>2, <1>3, <2>1, <2>2 DEF InList
<1>5. \A d \in Conns : InList(d) => d <= accepted  BY InListAccepted
<1>6. \A k \in 1..Len(combo) :
         state'[combo[k]] = "freed" => Queued("destroyed", combo[k])'
  <2> SUFFICES ASSUME NEW k \in 1..Len(combo), state[combo[k]] = "freed"
               PROVE  Queued("destroyed", combo[k])'
    BY <1>1
  <2>1. PICK b \in Conns : b = combo[k]  BY DEF TypeOK
  <2>2. k \in 1..Len(agentList) /\ agentList[k] = addr[b] /\ Queued("destroyed", b)
    BY <2>1 DEF ListInv, ListedAgents
  <2>3. PICK d \in Conns : InList(d) /\ addr[d] = agentList[k]
    BY <2>2 DEF ListInv, Entries
  <2>4. d # c  BY <1>0, <1>1, <1>2, <2>3 DEF InList, Waits
  <2>5. b # c  BY <1>0, <1>1, <2>2, <2>3, <2>4, HeadApart
  <2>6. Queued("destroyed", b)'  BY <1>3, <2>2, <2>5
  <2> QED  BY <1>1, <2>1, <2>6 DEF Queued
<1>7. accepted' \in Nat /\ accepted' >= accepted  BY <1>1 DEF TypeOK
<1> QED  BY <1>1, <1>4, <1>5, <1>6, <1>7, ListKept

\* Naming the items again after the Agents now at their addresses.
LEMMA ListRefresh ==
    ASSUME TypeOK, QueueInv, ListInv, Refresh
    PROVE  ListInv'
<1>1. /\ main = "loop" /\ main' # "wait"
      /\ combo' = [k \in 1..Len(combo) |-> Meant(combo[k])]
      /\ UNCHANGED <<accepted, state, addr, queue, agentList, unexpected>>
  BY DEF Refresh, Deref, agentVars
<1>2. Len(combo) \in Nat /\ \A k \in 1..Len(combo) : combo[k] \in Conns  BY DEF TypeOK
<1>3. Len(combo') = Len(combo) /\ \A k \in 1..Len(combo) : combo'[k] = Meant(combo[k])
  BY <1>1, <1>2
<1>4. \A c \in Conns : InList(c)' <=> InList(c)  BY <1>1 DEF InList, Waits, Queued
<1>5. Entries'  BY <1>1, <1>4 DEF ListInv, Entries
<1>6. ListedAgents'
  <2>1. ASSUME NEW k \in 1..Len(combo)
        PROVE  /\ agentList[k] = addr[Meant(combo[k])]
               /\ state[Meant(combo[k])] = "freed" => Queued("destroyed", Meant(combo[k]))
    <3>1. agentList[k] = addr[combo[k]]
          /\ (state[combo[k]] = "freed" => Queued("destroyed", combo[k]))
      BY DEF ListInv, ListedAgents
    <3>2. addr[Meant(combo[k])] = addr[combo[k]]
          /\ (state[Meant(combo[k])] = "freed" => Meant(combo[k]) = combo[k])
      BY <1>2, MeantIs
    <3> QED  BY <3>1, <3>2
  <2>2. \A k \in 1..Len(combo) :
           /\ agentList'[k] = addr'[combo'[k]]
           /\ state'[combo'[k]] = "freed" =>
                 \E q \in 1..Len(queue') : queue'[q] = <<"destroyed", combo'[k]>>
    BY <1>1, <1>3, <2>1 DEF Queued
  <2>3. Len(agentList') = Len(combo')  BY <1>1, <1>3 DEF ListInv, ListedAgents
  <2> QED  BY <1>3, <2>2, <2>3 DEF ListedAgents, Queued
<1>7. Named'
  <2>1. ASSUME NEW k \in 1..Len(combo) PROVE Meant(combo[k]) <= accepted
    <3>1. combo[k] \in Conns /\ combo[k] <= accepted  BY <1>2 DEF ListInv, Named
    <3>2. Meant(combo[k]) \in Conns
          /\ (Meant(combo[k]) = combo[k] \/ Meant(combo[k]) \in Alive)
      BY <3>1, MeantIs
    <3>3. CASE Meant(combo[k]) \in Alive
      <4>1. state[Meant(combo[k])] # "none"  BY <3>3 DEF Alive
      <4> QED  BY <3>2, <4>1 DEF QueueInv, Ages, TypeOK, Conns
    <3> QED  BY <3>1, <3>2, <3>3
  <2> QED  BY <1>1, <1>3, <2>1 DEF Named
<1>8. NoUnexpected'  BY <1>1 DEF ListInv, NoUnexpected
<1> QED  BY <1>5, <1>6, <1>7, <1>8 DEF ListInv

LEMMA ListStep ==
    ASSUME ConnAssumption, IInv, Next
    PROVE  ListInv'
<1> USE DEF IInv
<1>1. CASE \E a \in Addrs : incomingConnection(a)  BY <1>1, ListAccept
<1>2. CASE Handle  BY <1>2, ListCreated, ListDestroyed, ListWaitEnds DEF Handle
<1>3. CASE \E c \in Conns : Thread(c) \/ Disconnected(c)  BY <1>3, ListThread
<1>4. CASE \E k \in 1..Len(combo) : OpenPanel(k)
  <2>1. /\ UNCHANGED <<accepted, state, addr, queue, agentList, combo, unexpected>>
        /\ main # "wait" /\ main' # "wait"
    BY <1>4 DEF OpenPanel, Deref, agentVars
  <2> QED  BY <2>1, ListUnchanged
<1>5. CASE StartStop \/ ClosePanel \/ VirtualButton \/ Quit \/ DestroyServer
  <2>1. /\ UNCHANGED <<accepted, state, addr, queue, agentList, combo, unexpected>>
        /\ main # "wait" /\ main' # "wait"
    BY <1>5 DEF StartStop, ClosePanel, VirtualButton, Quit, DestroyServer, Deref,
                agentVars, guiVars
  <2> QED  BY <2>1, ListUnchanged
<1>6. CASE Refresh  BY <1>6, ListRefresh
<1> QED  BY <1>1, <1>2, <1>3, <1>4, <1>5, <1>6 DEF Next

-----------------------------------------------------------------------------
(* Types.                                                                  *)

LEMMA InitTyped == ASSUME ConnAssumption, Init PROVE TypeOK
<1>1. PICK b \in Addrs : b = CHOOSE a \in Addrs : TRUE  BY DEF ConnAssumption
<1>2. addr = [c \in Conns |-> b]  BY <1>1 DEF Init
<1>3. addr \in [Conns -> Addrs]  BY <1>2
<1>4. listening = FALSE /\ accepted = 0 /\ panel = 0 /\ 0 \in 0..MaxConn
  BY DEF Init, ConnAssumption
<1>5. /\ state \in [Conns -> {"none", "starting", "live", "closing", "freed"}]
      /\ thread \in [Conns -> {"none", "running", "quitting", "finished"}]
  BY DEF Init
<1>6. /\ queue \in Seq({"created", "destroyed"} \X Conns)
      /\ agentList \in Seq(Addrs) /\ combo \in Seq(Conns)
  BY DEF Init
<1>7. threadPool = {} /\ monitored = {} /\ main = "loop" /\ unexpected = FALSE  BY DEF Init
<1> QED  BY <1>3, <1>4, <1>5, <1>6, <1>7 DEF TypeOK

\* The events of the Agents are those the queue has the type of.
LEMMA TypeStep ==
    ASSUME ConnAssumption, IInv, Next
    PROVE  TypeOK'
<1>1. TypeOK /\ QueueInv /\ PoolInv /\ ListInv  BY DEF IInv
<1> USE <1>1
<1>2. /\ queue \in Seq(Event) /\ \A c \in Conns : <<"created", c>> \in Event /\ <<"destroyed", c>> \in Event
  BY EventPairs
<1>3. ASSUME NEW a \in Addrs, incomingConnection(a) PROVE TypeOK'
  <2>1. accepted + 1 \in Conns /\ accepted + 1 \in 0..MaxConn
    BY <1>3 DEF incomingConnection, TypeOK, Conns, ConnAssumption
  <2> DEFINE c == accepted + 1
  <2>2. c \in Conns /\ c \in 0..MaxConn  BY <2>1
  <2>3. /\ accepted' = c /\ state' = [state EXCEPT ![c] = "starting"]
        /\ addr' = [addr EXCEPT ![c] = a] /\ thread' = [thread EXCEPT ![c] = "running"]
        /\ threadPool' = threadPool \cup {<<c, a>>}
        /\ UNCHANGED <<listening, queue, main, guiVars>>
    BY <1>3 DEF incomingConnection
  <2> HIDE DEF c
  <2> QED  BY <2>2, <2>3 DEF TypeOK, guiVars
<1>4. CASE HandleCreated
  <2>1. PICK c \in Conns : c = Head(queue)[2]  BY <1>4, EventPairs DEF HandleCreated
  <2>2. Meant(c) \in Conns /\ addr[c] \in Addrs /\ Listed(addr[c]) = {}
    BY <1>4, <2>1, MeantIs, CreatedNotListed DEF TypeOK, HandleCreated, ListInv
  <2>3. /\ main' \in {"loop", "crashed", main} /\ UNCHANGED <<panel, unexpected>>
        /\ agentList' = Append(agentList, addr[c]) /\ combo' = Append(combo, Meant(c))
        /\ monitored' \in {monitored, monitored \cup {Meant(c)}}
    BY <1>4, <2>1, <2>2 DEF HandleCreated, AddAgent, Deref
  <2>4. queue # << >> /\ queue' = Tail(queue)
        /\ UNCHANGED <<listening, accepted, agentVars, thread, threadPool>>
    BY <1>4 DEF HandleCreated
  <2>5. queue' \in Seq(Event)  BY <1>2, <2>4
  <2>6. agentList' \in Seq(Addrs) /\ combo' \in Seq(Conns) /\ monitored' \subseteq Conns
    BY <2>2, <2>3 DEF TypeOK
  <2> QED  BY <2>3, <2>4, <2>5, <2>6 DEF TypeOK, agentVars, Event
<1>5. CASE HandleDestroyed
  <2>1. PICK c \in Conns : c = Head(queue)[2]  BY <1>5, EventPairs DEF HandleDestroyed
  <2>2. /\ RemoveAgent(c) /\ threadPool' = threadPool \ {<<c, addr[c]>>}
        /\ thread' = [thread EXCEPT ![c] = "quitting"] /\ main' = "wait" /\ UNCHANGED queue
    BY <1>5, <2>1, DestroyedWaits
  <2>3. UNCHANGED <<listening, accepted, agentVars>>  BY <1>5 DEF HandleDestroyed
  <2>4. /\ agentList' \in Seq(Addrs) /\ combo' \in Seq(Conns) /\ unexpected' \in BOOLEAN
        /\ monitored' \subseteq Conns /\ UNCHANGED panel
    <3>1. /\ monitored' \subseteq Conns /\ UNCHANGED panel
          /\ unexpected' \in BOOLEAN
      BY <2>2 DEF RemoveAgent, TypeOK
    <3>2. CASE UNCHANGED <<agentList, combo>>  BY <3>1, <3>2 DEF TypeOK
    <3>3. CASE Cardinality(Listed(addr[c])) = 1
      <4> DEFINE k == CHOOSE n \in Listed(addr[c]) : TRUE
      <4>1. Listed(addr[c]) # {}  BY <3>3, FS_EmptySet
      <4>2. k \in 1..Len(agentList) /\ k \in 1..Len(combo)
        BY <4>1 DEF Listed, ListInv, ListedAgents
      <4>3. agentList' = Without(agentList, k) /\ combo' = Without(combo, k)
        BY <2>2, <3>3 DEF RemoveAgent
      <4>4. agentList \in Seq(Addrs) /\ combo \in Seq(Conns)  BY DEF TypeOK
      <4> HIDE DEF k
      <4> QED  BY <3>1, <4>2, <4>3, <4>4, WithoutEntry
    <3> QED  BY <2>2, <3>1, <3>2, <3>3 DEF RemoveAgent
  <2> QED  BY <2>2, <2>3, <2>4 DEF TypeOK, agentVars
<1>6. CASE WaitEnds
  <2>1. queue # << >> /\ queue' = Tail(queue) /\ main' = "loop"
        /\ UNCHANGED <<listening, accepted, agentVars, thread, threadPool, guiVars>>
    BY <1>6 DEF WaitEnds, PoolInv, WaitsAtHead
  <2>2. queue' \in Seq(Event)  BY <1>2, <2>1
  <2> QED  BY <2>1, <2>2 DEF TypeOK, agentVars, guiVars, Event
<1>7. ASSUME NEW k \in 1..Len(combo), OpenPanel(k) PROVE TypeOK'
  <2>1. combo[k] \in Conns  BY DEF TypeOK
  <2>2. Meant(combo[k]) \in 0..MaxConn  BY <2>1, MeantIs DEF Conns
  <2> QED  BY <1>7, <2>2 DEF OpenPanel, Deref, TypeOK, agentVars
<1>8. CASE Refresh
  <2>1. combo' = [k \in 1..Len(combo) |-> Meant(combo[k])]  BY <1>8 DEF Refresh
  <2>2. Len(combo) \in Nat /\ \A k \in 1..Len(combo) : Meant(combo[k]) \in Conns
    BY MeantIs DEF TypeOK
  <2>3. combo' \in Seq(Conns)  BY <2>1, <2>2
  <2> QED  BY <1>8, <2>3 DEF Refresh, Deref, TypeOK, agentVars
<1>9. CASE StartStop \/ VirtualButton
  BY <1>9 DEF StartStop, VirtualButton, Deref, TypeOK, agentVars, guiVars
<1>10. CASE ClosePanel \/ Quit \/ DestroyServer
  BY <1>10 DEF ClosePanel, Quit, DestroyServer, TypeOK, agentVars, guiVars, ConnAssumption
<1>11. ASSUME NEW c \in Conns, Thread(c) \/ Disconnected(c) PROVE TypeOK'
  <2>1. UNCHANGED queue \/ \E e \in Event : queue' = Append(queue, e)
    BY <1>2, <1>11 DEF Thread, onCreateTimer, Delete, ThreadFinishes, Disconnected
  <2>2. queue' \in Seq(Event)  BY <1>2, <2>1
  <2>3. CASE onCreateTimer(c) \/ Delete(c) \/ Disconnected(c)
    BY <2>2, <2>3 DEF onCreateTimer, Delete, Disconnected, TypeOK, guiVars, Event
  <2>4. CASE ThreadFinishes(c)
    BY <2>4 DEF ThreadFinishes, TypeOK, agentVars, guiVars
  <2> QED  BY <1>11, <2>3, <2>4 DEF Thread
<1> QED  BY <1>3, <1>4, <1>5, <1>6, <1>7, <1>8, <1>9, <1>10, <1>11 DEF Next, Handle

-----------------------------------------------------------------------------
(* The theorems.                                                           *)

LEMMA InitIInv == ASSUME ConnAssumption, Init PROVE IInv
<1>1. TypeOK  BY InitTyped
<1>2. Len(queue) = 0 /\ Len(combo) = 0 /\ Len(agentList) = 0  BY DEF Init
<1>3. QueueInv
  <2>1. Ages /\ Places  BY DEF Init, Ages, Places, Conns, ConnAssumption
  <2>2. Events /\ Order /\ Handover  BY <1>2 DEF Events, Order, Handover
  <2> QED  BY <2>1, <2>2 DEF QueueInv
<1>4. PoolInv  BY DEF Init, PoolInv, WaitsAtHead, PoolByAddr, PoolMatchesThreads
<1>5. ListInv
  <2>1. \A c \in Conns : ~InList(c)  BY DEF Init, InList
  <2> QED  BY <1>2, <2>1 DEF Init, ListInv, Entries, ListedAgents, Named, NoUnexpected
<1> QED  BY <1>1, <1>3, <1>4, <1>5 DEF IInv

LEMMA IdleIInv == ASSUME IInv, UNCHANGED vars PROVE IInv'
<1> USE DEF vars, agentVars, guiVars
<1>1. TypeOK'  BY DEF IInv, TypeOK
<1>2. QueueInv'  BY QueueUnchanged DEF IInv, QFrame
<1>3. PoolInv'  BY PoolUnchanged DEF IInv, PFrame
<1>4. \A c \in Conns : InList(c)' <=> InList(c)  BY DEF InList, Waits, Queued
<1>5. ListInv'
  <2>1. Entries'  BY <1>4 DEF IInv, ListInv, Entries
  <2>2. ListedAgents' /\ Named' /\ NoUnexpected'
    BY DEF IInv, ListInv, ListedAgents, Named, NoUnexpected, Queued
  <2> QED  BY <2>1, <2>2 DEF ListInv
<1> QED  BY <1>1, <1>2, <1>3, <1>5 DEF IInv

LEMMA NextIInv == ASSUME ConnAssumption, IInv, [Next]_vars PROVE IInv'
<1>1. CASE Next  BY <1>1, TypeStep, QueueStep, PoolStep, ListStep DEF IInv
<1>2. CASE UNCHANGED vars  BY <1>2, IdleIInv
<1> QED  BY <1>1, <1>2

\* What is known of the queue, of the pool and of the list holds in every reachable
\* state of the server, whatever the number of connections and of addresses.
THEOREM Inductive == Spec => []IInv
<1>1. Init => IInv  BY InitIInv, ConnAssumption
<1>2. IInv /\ [Next]_vars => IInv'  BY NextIInv, ConnAssumption
<1> QED  BY <1>1, <1>2, PTL DEF Spec

\* Every variable keeps its type.
THEOREM TypeCorrect == Spec => []TypeOK
<1>1. IInv => TypeOK  BY DEF IInv
<1> QED  BY <1>1, Inductive, PTL

\* MainWindow never reports an Agent it has already, nor one it does not have.
THEOREM NeverUnexpected == Spec => []NoUnexpected
<1>1. IInv => NoUnexpected  BY DEF IInv, ListInv
<1> QED  BY <1>1, Inductive, PTL

\* List and combo box agree, and a freed Agent is in them only until its destroyed
\* event is handled.
THEOREM ListIsRight == Spec => []ListedAgents
<1>1. IInv => ListedAgents  BY DEF IInv, ListInv
<1> QED  BY <1>1, Inductive, PTL

\* A thread runs as long as its connection is in the pool, which is until its
\* destroyed event is handled.
THEOREM PoolIsRight == Spec => []PoolMatchesThreads
<1>1. IInv => PoolMatchesThreads  BY DEF IInv, PoolInv
<1> QED  BY <1>1, Inductive, PTL

\* The ControlPanel opens on the robot its item names, as long as no destroyed
\* event of that robot is waiting.
THEOREM PanelIsOfItem == Spec => PanelOfItem
<1> DEFINE Opened == \A k \in 1..Len(combo) :
                        OpenPanel(k) /\ ~Queued("destroyed", combo[k])
                            => panel' = combo[k] /\ state[combo[k]] # "freed"
<1>1. IInv => Opened
  <2> SUFFICES ASSUME IInv, NEW k \in 1..Len(combo),
                      OpenPanel(k), ~Queued("destroyed", combo[k])
               PROVE  panel' = combo[k] /\ state[combo[k]] # "freed"
    OBVIOUS
  <2>1. combo[k] \in Conns  BY DEF IInv, TypeOK
  <2>2. state[combo[k]] # "freed"  BY DEF IInv, ListInv, ListedAgents
  <2>3. state[combo[k]] # "none"
    BY <2>1 DEF IInv, ListInv, Named, QueueInv, Ages, TypeOK, Conns
  <2>4. combo[k] \in Alive  BY <2>1, <2>2, <2>3 DEF Alive, IInv, TypeOK
  <2>5. Meant(combo[k]) = combo[k]  BY <2>1, <2>4, MeantIs DEF IInv
  <2> QED  BY <2>2, <2>5 DEF OpenPanel
<1>2. IInv => [Opened]_vars  BY <1>1
<1>3. [][Opened]_vars => PanelOfItem  BY DEF PanelOfItem
<1> QED  BY <1>2, <1>3, Inductive, PTL
=============================================================================
