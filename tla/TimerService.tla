---------------------------- MODULE TimerService ----------------------------
(***************************************************************************)
(* What the timers of itti_mw promise: a timer that was set is reported at *)
(* most once, not before it is due and not after it was cancelled.  The    *)
(* promise is weaker than a caller may think: of two timers that are due   *)
(* at the same instant one may be forgotten.                               *)
(***************************************************************************)
EXTENDS Integers, Sequences

CONSTANTS MaxTime,     \* bound: the last instant
          MaxSetups    \* bound: calls of timer_setup

VARIABLES now,         \* the clock
          nSetup,      \* timers set so far; a timer is named by its number
          due,         \* when each timer is due
          pending,     \* timers that will still be reported
          delivered    \* timers reported to their tasks, in order

vars == <<now, nSetup, due, pending, delivered>>

Timers == 1..MaxSetups

Init ==
    /\ now = 0 /\ nSetup = 0
    /\ due = [h \in Timers |-> 0]
    /\ pending = {} /\ delivered = <<>>

Tick == now < MaxTime /\ now' = now + 1 /\ UNCHANGED <<nSetup, due, pending, delivered>>

\* Another pending timer is due at instant d.
Taken(d, others) == \E h \in others : due[h] = d

Set(d) ==
    /\ nSetup < MaxSetups
    /\ nSetup' = nSetup + 1
    /\ due' = [due EXCEPT ![nSetup + 1] = d]
    /\ \/ pending' = pending \cup {nSetup + 1}
       \/ Taken(d, pending) /\ pending' = pending
    /\ UNCHANGED <<now, delivered>>

Deliver(h) ==
    /\ h \in pending /\ now >= due[h]
    /\ pending' = pending \ {h}
    /\ delivered' = Append(delivered, h)
    /\ UNCHANGED <<now, nSetup, due>>

Cancel(h) ==
    /\ h \in pending
    /\ pending' = pending \ {h}
    /\ UNCHANGED <<now, nSetup, due, delivered>>

Forget(h) == Taken(due[h], pending \ {h}) /\ Cancel(h)

Next ==
    \/ Tick
    \/ \E d \in 0..MaxTime : Set(d)
    \/ \E h \in Timers : Deliver(h) \/ Cancel(h) \/ Forget(h)

Spec == Init /\ [][Next]_vars
=============================================================================
