----------------------------- MODULE IttiTimers -----------------------------
(***************************************************************************)
(* The timers of itti_mw (itti.cpp, itti.hpp): tasks call timer_setup and  *)
(* timer_remove while the thread timer_manager_task waits for the earliest *)
(* timer.  The set `timers' and current_timer are guarded by m_timers; the *)
(* thread gives m_timers up before it looks at current_timer and waits on  *)
(* c_timeout, so it is modelled at the points where another thread can get *)
(* in between.  A call that holds m_timers throughout is one step.         *)
(*                                                                         *)
(* A timer is named by the number of the timer_setup call that made it,    *)
(* 0 is null_timer.  Its timer_id_t is a field: two calls may get the same *)
(* one, because increment_timer_id is not atomic.                          *)
(***************************************************************************)
EXTENDS Integers, Sequences, FiniteSets

CONSTANTS Clients,     \* tasks that use timers
          Removers,    \* those of them that call timer_remove
          Delays,      \* intervals that are asked for
          MaxTime,     \* bound: the last instant
          MaxSetups    \* bound: calls of timer_setup

ASSUME TimerConstants ==
    /\ IsFiniteSet(Clients) /\ Removers \subseteq Clients
    /\ Delays \subseteq Nat
    /\ MaxTime \in Nat /\ MaxSetups \in Nat

Timers == 1..MaxSetups
Never == MaxTime + 1      \* null_timer.time_out, 2^32 s after the start

VARIABLES
    now,        \* the system clock
    timers,     \* itti_mw::timers
    current,    \* itti_mw::current_timer
    pc,         \* where timer_manager_task is
    deadline,   \* end of its wait_for
    msg,        \* the time-out message that it is filling in
    timerId,    \* itti_mw::timer_id
    client,     \* per task, the timer_setup call it is in
    nSetup,     \* timer_setup calls that returned
    id,         \* per timer, timer_id_t returned
    due,        \* per timer, its time_out
    delivered,  \* timers whose message was sent to their task, in order
    torn,       \* messages sent with the task of a timer and the arguments of null_timer
    terminate   \* itti_mw::terminate

mgrVars  == <<timers, current, pc, deadline, msg>>
taskVars == <<timerId, client, nSetup, id, due>>
outVars  == <<delivered, torn>>
vars == <<now, mgrVars, taskVars, outVars, terminate>>

NoMsg == [task |-> 0, arg |-> 0]
NoCall == [at |-> "idle", id |-> 0, due |-> 0]

Init ==
    /\ now = 0
    /\ timers = {} /\ current = 0 /\ pc = "top" /\ deadline = 0 /\ msg = NoMsg
    /\ timerId = 0 /\ nSetup = 0
    /\ client = [c \in Clients |-> NoCall]
    /\ id = [h \in Timers |-> 0] /\ due = [h \in Timers |-> 0]
    /\ delivered = <<>> /\ torn = 0
    /\ terminate = FALSE

\* Bound: the clock stops at MaxTime; every timer is due by then.
Tick == now < MaxTime /\ now' = now + 1 /\ UNCHANGED <<mgrVars, taskVars, outVars, terminate>>

\* The broadcast of TERMINATE that follows concerns the tasks, not the timers.
SendTerminateMsg ==
    /\ ~terminate /\ terminate' = TRUE
    /\ UNCHANGED <<now, mgrVars, taskVars, outVars>>

-----------------------------------------------------------------------------
(* timer_setup.                                                            *)

\* ++timer_id without a lock: read here, written in the next step.
LoadId(c) ==
    /\ client[c].at = "idle"
    /\ nSetup + Cardinality({x \in Clients : client[x].at # "idle"}) < MaxSetups
    /\ client' = [client EXCEPT ![c] = [at |-> "loaded", id |-> timerId + 1, due |-> 0]]
    /\ UNCHANGED <<now, mgrVars, timerId, nSetup, id, due, outVars, terminate>>

\* The id is written and the constructor of itti_timer reads the clock.
StoreId(c, delay) ==
    /\ client[c].at = "loaded" /\ now + delay <= MaxTime
    /\ timerId' = client[c].id
    /\ client' = [client EXCEPT ![c].at = "made", ![c].due = now + delay]
    /\ UNCHANGED <<now, mgrVars, nSetup, id, due, outVars, terminate>>

\* timers.insert: the set compares time_out only, so an equal one keeps h out.
Inserted(h, d) == IF \E t \in timers : due[t] = d THEN timers ELSE timers \cup {h}

\* c_timeout.notify_one: only a thread that is waiting is woken.
Notified == IF pc = "waiting" THEN "notified" ELSE pc

\* Under m_timers: insert, notify both condition variables, return the id.
Insert(c) ==
    /\ client[c].at = "made"
    /\ nSetup' = nSetup + 1
    /\ id' = [id EXCEPT ![nSetup + 1] = client[c].id]
    /\ due' = [due EXCEPT ![nSetup + 1] = client[c].due]
    /\ timers' = Inserted(nSetup + 1, client[c].due)
    /\ pc' = Notified
    /\ client' = [client EXCEPT ![c] = NoCall]
    /\ UNCHANGED <<now, current, deadline, msg, timerId, outVars, terminate>>

-----------------------------------------------------------------------------
(* timer_remove, under m_timers.                                           *)

IdOf(h) == IF h = 0 THEN 0 ELSE id[h]
Earliest(S) == {h \in S : \A t \in S : due[h] <= due[t]}

\* Mutant of TimerRemove: the timer that the thread holds is not replaced by null_timer.
TimerRemoveOnlyNotifies(c, i) ==
    /\ c \in Removers /\ client[c].at = "idle"
    /\ IF IdOf(current) = i
       THEN pc' = Notified /\ UNCHANGED <<timers, current>>
       ELSE LET same == {h \in timers : id[h] = i} IN
            /\ \E h \in Earliest(same) : timers' = timers \ {h}
            /\ UNCHANGED <<pc, current>>
    /\ UNCHANGED <<now, deadline, msg, taskVars, outVars, terminate>>

\* The timer the thread has taken, or took last, is replaced by null_timer, and
\* the thread is notified; else the first timer of the set with this id goes.
\* An id that is found nowhere is an error and changes nothing.
TimerRemove(c, i) ==
    /\ c \in Removers /\ client[c].at = "idle"
    /\ IF IdOf(current) = i
       THEN current' = 0 /\ pc' = Notified /\ UNCHANGED timers
       ELSE LET same == {h \in timers : id[h] = i} IN
            /\ \E h \in Earliest(same) : timers' = timers \ {h}
            /\ UNCHANGED <<pc, current>>
    /\ UNCHANGED <<now, deadline, msg, taskVars, outVars, terminate>>

-----------------------------------------------------------------------------
(* timer_manager_task.                                                     *)

ManagerOnly == UNCHANGED <<now, taskVars, terminate>>

\* The flag is read at the top of the loop only, not while the set is empty.
LoopTop ==
    /\ pc = "top"
    /\ pc' = IF terminate THEN "stopped" ELSE "idle"
    /\ ManagerOnly /\ UNCHANGED <<timers, current, deadline, msg, outVars>>

\* Mutant of Take: the timer is not erased from the set.
TakeWithoutErase ==
    /\ pc = "idle" /\ current' \in Earliest(timers)
    /\ pc' = "taken"
    /\ ManagerOnly /\ UNCHANGED <<timers, deadline, msg, outVars>>

\* Under m_timers, once the set is not empty; then m_timers is given up.
Take ==
    /\ pc = "idle" /\ current' \in Earliest(timers)
    /\ timers' = timers \ {current'}
    /\ pc' = "taken"
    /\ ManagerOnly /\ UNCHANGED <<deadline, msg, outVars>>

DueOf(h) == IF h = 0 THEN Never ELSE due[h]

\* Without m_timers: is current_timer due?  If not, wait_for the rest.
Check ==
    /\ pc = "taken"
    /\ IF DueOf(current) > now
       THEN pc' = "waiting" /\ deadline' = DueOf(current)
       ELSE pc' = "due" /\ UNCHANGED deadline
    /\ ManagerOnly /\ UNCHANGED <<timers, current, msg, outVars>>

\* Mutant of WaitTimeout: the return value of wait_for is not looked at.
WaitTimeoutAny ==
    /\ pc \in {"waiting", "notified"}
    /\ pc' = "due"
    /\ ManagerOnly /\ UNCHANGED <<timers, current, deadline, msg, outVars>>

\* wait_for says timeout; it may say so as well when it was notified too late.
WaitTimeout ==
    /\ pc \in {"waiting", "notified"} /\ now >= deadline
    /\ pc' = "due"
    /\ ManagerOnly /\ UNCHANGED <<timers, current, deadline, msg, outVars>>

\* wait_for may return no_timeout without a notification.
SpuriousWakeup ==
    /\ pc = "waiting" /\ pc' = "notified"
    /\ ManagerOnly /\ UNCHANGED <<timers, current, deadline, msg, outVars>>

\* Mutant of PutBack: the timer is not put back.
PutBackNothing ==
    /\ pc = "notified"
    /\ current' = 0
    /\ pc' = "top"
    /\ ManagerOnly /\ UNCHANGED <<timers, deadline, msg, outVars>>

\* "other timer required ?": the taken timer goes back, unless it was removed.
PutBack ==
    /\ pc = "notified"
    /\ timers' = IF current = 0 THEN timers ELSE Inserted(current, due[current])
    /\ current' = 0
    /\ pc' = "top"
    /\ ManagerOnly /\ UNCHANGED <<deadline, msg, outVars>>

\* The message is built from current_timer field by field, without m_timers.
ReadTask ==
    /\ pc = "due" /\ pc' = "read"
    /\ msg' = [task |-> current, arg |-> 0]
    /\ ManagerOnly /\ UNCHANGED <<timers, current, deadline, outVars>>

ReadArgs ==
    /\ pc = "read" /\ pc' = "built"
    /\ msg' = [msg EXCEPT !.arg = current]
    /\ ManagerOnly /\ UNCHANGED <<timers, current, deadline, outVars>>

\* Mutant of Send: a message for TASK_NONE is not refused.
SendToNone ==
    /\ pc = "built" /\ pc' = "top"
    /\ delivered' = Append(delivered, msg.arg)
    /\ msg' = NoMsg
    /\ ManagerOnly /\ UNCHANGED <<timers, current, deadline, torn>>

\* send_msg refuses TASK_NONE.  current_timer keeps the timer that was reported.
Send ==
    /\ pc = "built" /\ pc' = "top"
    /\ delivered' = IF msg.arg # 0 THEN Append(delivered, msg.arg) ELSE delivered
    /\ torn' = IF msg.task # 0 /\ msg.arg = 0 THEN torn + 1 ELSE torn
    /\ msg' = NoMsg
    /\ ManagerOnly /\ UNCHANGED <<timers, current, deadline>>

-----------------------------------------------------------------------------
TaskStep(c) ==
    \/ LoadId(c) \/ Insert(c)
    \/ \E delay \in Delays : StoreId(c, delay)
    \/ \E i \in {id[h] : h \in 1..nSetup} \cup {0} : TimerRemove(c, i)

ManagerStep ==
    \/ LoopTop \/ Take \/ Check \/ WaitTimeout \/ PutBack
    \/ ReadTask \/ ReadArgs \/ Send

Next == Tick \/ SendTerminateMsg \/ (\E c \in Clients : TaskStep(c))
        \/ ManagerStep \/ SpuriousWakeup

Spec == Init /\ [][Next]_vars

\* The clock runs and the thread is scheduled.  Nothing is assumed of the tasks.
FairSpec == Spec /\ WF_vars(Tick) /\ WF_vars(ManagerStep)

-----------------------------------------------------------------------------
(* Properties.                                                             *)

\* Type correctness: no message of null_timer reaches a task, and no call makes up an
\* id or an instant.
TypeOK ==
    /\ now \in 0..MaxTime
    /\ timers \subseteq Timers
    /\ current \in 0..MaxSetups
    /\ pc \in {"top", "idle", "taken", "waiting", "notified", "due", "read", "built", "stopped"}
    /\ deadline \in 0..Never
    /\ msg \in [task : 0..MaxSetups, arg : 0..MaxSetups]
    /\ timerId \in Nat /\ nSetup \in 0..MaxSetups
    /\ client \in [Clients -> [at : {"idle", "loaded", "made"}, id : Nat, due : 0..MaxTime]]
    /\ id \in [Timers -> Nat] /\ due \in [Timers -> 0..MaxTime]
    /\ delivered \in Seq(Timers)
    /\ torn \in Nat
    /\ terminate \in BOOLEAN

\* The timer that the thread holds, which is in no other place.
Held ==
    IF pc \in {"taken", "waiting", "notified", "due", "read"} THEN {current} \ {0}
    ELSE IF pc = "built" THEN {msg.arg} \ {0} ELSE {}

Pending == timers \cup Held

\* The two structures that hold timers, and the thread's half-built message,
\* implement the timers that the service promises: one report at most, never
\* early, never after a removal that came in time.
Service == INSTANCE TimerService WITH pending <- Pending
ImplementsService == Service!Spec

\* The set is ordered by time_out alone and the thread takes timers out of it and
\* puts them back, yet it never holds a timer that is also in the set, and no
\* timer that is still to come has been reported.
PlacesAreDisjoint ==
    /\ Held \cap timers = {}
    /\ \A h \in Pending : \A k \in 1..Len(delivered) : delivered[k] # h

\* timer_remove of an id that no other timer has takes that timer out of service,
\* wherever it is, unless its message is already built.
RemoveCancels ==
    [][\A c \in Clients, h \in Pending :
        /\ TimerRemove(c, id[h]) /\ pc # "built"
        /\ \A g \in (1..nSetup) \ {h} : id[g] # id[h]
        => h \notin Pending']_vars

\* If a timer is set for instant d, then a timer of instant d is reported, unless
\* the program is told to stop: neither the timers that are forgotten nor the
\* wakeups that are lost keep the task that waits for instant d waiting for ever.
InstantServed ==
    \A d \in 0..MaxTime :
        (\E h \in Pending : due[h] = d)
            ~> (terminate \/ \E k \in 1..Len(delivered) : due[delivered[k]] = d)

-----------------------------------------------------------------------------
(* What comments of the source say, and the code does not do.              *)

\* itti.cpp:345 "wake up thread timer if necessary": with removals as well, every
\* instant a timer is set for is served, or its timers are removed.
InstantServedOrRemoved ==
    \A d \in 0..MaxTime :
        (\E h \in Pending : due[h] = d)
            ~> \/ terminate \/ ~\E h \in Pending : due[h] = d

=============================================================================
