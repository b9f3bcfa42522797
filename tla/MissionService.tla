--------------------------- MODULE MissionService ---------------------------
(***************************************************************************)
(* What the virtual robot promises the RCS.  The actions of an accepted    *)
(* mission are open tasks.  A task is triggered at most once, by a handler *)
(* that then is busy with it; a handler that is done records exactly one   *)
(* completion and is free again, so no completion is recorded that nothing *)
(* was triggered for; each completion is reported once, in that order.     *)
(* Handlers may be nested in any way, and the operator may give up what is *)
(* still open.                                                             *)
(***************************************************************************)
EXTENDS Naturals, Sequences

CONSTANTS
    Tasks,          \* the actions missions can ask for
    Command,        \* the signal that triggers each of them
    Aims,           \* the signals that only steer the robot
    Completions     \* what may be reported

VARIABLES
    open,           \* tasks accepted and not triggered
    signals,        \* the signals emitted
    busy,           \* the handlers that have triggered a task and wait for it
    pending, sent   \* completions not yet reported, and those reported

service == <<open, signals, busy, pending, sent>>

Init == open = {} /\ signals = << >> /\ busy = {} /\ pending = << >> /\ sent = << >>

Steer == signals' = signals \/ \E s \in Aims : signals' = Append(signals, s)

\* A mission is accepted, or the robot is only steered on.
Accept ==
    /\ open \subseteq open' /\ open' \subseteq Tasks /\ Steer
    /\ UNCHANGED <<busy, pending, sent>>

FindDone(t) ==
    /\ open' = open \ {t} /\ Steer
    /\ UNCHANGED <<busy, pending, sent>>

Trigger(t) ==
    /\ open' = open \ {t} /\ signals' = Append(signals, Command[t])
    /\ \E h \in busy' : h \notin busy /\ busy' = busy \cup {h}
    /\ UNCHANGED <<pending, sent>>

Complete ==
    /\ \E h \in busy : busy' = busy \ {h}
    /\ \E c \in Completions : pending' = Append(pending, c)
    /\ UNCHANGED <<open, signals, sent>>

Report ==
    /\ sent' = sent \o pending /\ pending' = << >>
    /\ UNCHANGED <<open, signals, busy>>

GiveUp ==
    /\ open' = {} /\ pending' = << >>
    /\ UNCHANGED <<signals, busy, sent>>

Next == \/ Accept \/ (\E t \in open : FindDone(t) \/ Trigger(t))
        \/ Complete \/ Report \/ GiveUp
Spec == Init /\ [][Next]_service
=============================================================================
