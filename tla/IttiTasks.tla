----------------------------- MODULE IttiTasks -----------------------------
(* The tasks of the AMF from main() to the end of amf_signal_handler():    *)
(* amf_app's constructor creates them one after the other through          *)
(* itti_mw::create_task, each thread declares itself ready and then takes  *)
(* messages from its queue, and a signal broadcasts TERMINATE, joins the   *)
(* tasks and frees what they used.  Two threads that are not tasks send to *)
(* them: the SCTP receiver, which amf_n2's base class starts before        *)
(* TASK_AMF_N2 exists, and the HTTP servers, which main() starts last.     *)
(* A message is handled or not: what a handler does with it is the subject *)
(* of the other modules.  The timer thread (IttiTimers) is here only as    *)
(* the one that itti_mw's destructor may wait for.                         *)
EXTENDS Integers, Sequences, SequencesExt

CONSTANTS
    CreationOrder,   \* the tasks, in the order amf_app creates them
    IdOrder,         \* the same tasks, in the order of task_id_t
    App,             \* TASK_AMF_APP: its instance, amf_app_inst, is assigned last
    N2,              \* TASK_AMF_N2: the task the SCTP receiver sends to
    Timed,           \* the tasks whose handlers set and remove timers
    Sctp, Http,      \* the threads that are not tasks
    Msgs,            \* the messages sent in a behaviour (a bound)
    Terminate, None

Tasks   == ToSet(CreationOrder)
Senders == Tasks \cup {Sctp, Http}
States  == {"STARTING", "READY", "ENDED"}

ASSUME TasksAssumption ==
    /\ CreationOrder \in Seq(Tasks) /\ IsInjective(CreationOrder)
    /\ IdOrder \in Seq(Tasks) /\ ToSet(IdOrder) = Tasks
    /\ Len(IdOrder) = Len(CreationOrder)
    /\ App \in Tasks /\ N2 \in Tasks /\ Timed \subseteq Tasks
    /\ Sctp \notin Tasks /\ Http \notin Tasks /\ Sctp # Http
    /\ Terminate \notin Msgs
    /\ None \notin Msgs \cup Senders \cup (Msgs \X Tasks) \cup States

VARIABLES
    pc,        \* where the main thread is, its signal handler included
    i,         \* the position its loop has reached
    state,     \* itti_task_ctxt::task_state; None while the context is null
    thread,    \* what the task's thread is doing
    queue,     \* msg_queue
    current,   \* the message the task is handling
    instance,  \* the amf_*_inst pointers that are assigned
    timer,     \* how far the first timer_setup, the constructor's last call, is
    sending,   \* a sender between send_msg's test of the state and its push
    fate,      \* what became of each message (history)
    started,   \* start-up has completed (history)
    dead       \* the thread that took the process down, or None

vars == <<pc, i, state, thread, queue, current, instance, timer, sending, fate,
          started, dead>>

main  == <<pc, i, timer, started>>
tasks == <<state, thread, queue, current>>

Creating == {"context", "thread", "poll", "assign", "finish"}
Stopping == {"broadcast", "join", "delete", "servers", "free", "freed", "stuck", "exit"}

Alive == dead = None /\ pc # "exit"

Init ==
    /\ pc = "context" /\ i = 1
    /\ state = [t \in Tasks |-> None]
    /\ thread = [t \in Tasks |-> "none"]
    /\ queue = [t \in Tasks |-> <<>>]
    /\ current = [t \in Tasks |-> None]
    /\ instance = {} /\ timer = "unset"
    /\ sending = [s \in Senders |-> None]
    /\ fate = [m \in Msgs |-> "unsent"]
    /\ started = FALSE
    /\ dead = None
-----------------------------------------------------------------------------
(* amf_app's constructor, on the main thread.                              *)

\* Mutant of FirstState: create_task forgets to set what the constructor left.
FirstStateNotConfigured == "NOT_CONFIGURED"

\* The constructor of itti_task_ctxt gives the state; create_task only
\* replaces one that is TASK_STATE_NOT_CONFIGURED.
FirstState == "STARTING"

NewContext ==
    /\ pc = "context"
    /\ state' = [state EXCEPT ![CreationOrder[i]] = FirstState]
    /\ pc' = "thread"
    /\ UNCHANGED <<i, timer, started, thread, queue, current, instance, sending, fate, dead>>

StartThread ==
    /\ pc = "thread"
    /\ thread' = [thread EXCEPT ![CreationOrder[i]] = "starting"]
    /\ pc' = "poll"
    /\ UNCHANGED <<i, timer, started, state, queue, current, instance, sending, fate, dead>>

\* create_task returns when it sees the task ready; the instance a task works
\* for is assigned when the constructor that created it returns, the
\* application's own after all of them.
CreateReturned ==
    /\ pc = "poll"
    /\ state[CreationOrder[i]] \in {"READY", "ENDED"}
    /\ pc' = "assign"
    /\ UNCHANGED <<i, timer, started, tasks, instance, sending, fate, dead>>

AssignInstance ==
    /\ pc = "assign"
    /\ instance' = instance \cup ({CreationOrder[i]} \ {App})
    /\ IF i < Len(CreationOrder) THEN pc' = "context" /\ i' = i + 1
                                 ELSE pc' = "finish" /\ UNCHANGED i
    /\ UNCHANGED <<timer, started, tasks, sending, fate, dead>>

\* timer_setup of the first timer, the statistics': the main thread holds
\* m_timers and m_timeout while it is "setting".
SetTimer ==
    /\ pc = "finish" /\ timer # "set"
    /\ timer' = IF timer = "unset" THEN "setting" ELSE "set"
    /\ UNCHANGED <<pc, i, started, tasks, instance, sending, fate, dead>>

AssignApp ==
    /\ pc = "finish" /\ timer = "set"
    /\ instance' = instance \cup {App}
    /\ pc' = "run" /\ started' = TRUE
    /\ UNCHANGED <<i, timer, tasks, sending, fate, dead>>
-----------------------------------------------------------------------------
(* itti_mw: sending and receiving.                                         *)

\* Mutant of Wake: a push without notify_one.
WakeNobody(t) == UNCHANGED thread

\* A push under m_queue, and notify_one: the thread that sleeps wakes up.
Wake(t) ==
    thread' = IF thread[t] = "asleep"
                THEN [thread EXCEPT ![t] = "receiving"] ELSE thread

Push(t, m) ==
    /\ queue' = [queue EXCEPT ![t] = Append(@, m)]
    /\ Wake(t)
PushFirst(t, m) ==
    /\ queue' = [queue EXCEPT ![t] = <<m>> \o @]
    /\ Wake(t)

\* The base class of amf_n2 starts the receiver: right after the instance of the
\* task before it was assigned.
ReceiverStarted ==
    \A k \in 2..Len(CreationOrder) :
        CreationOrder[k] = N2 => CreationOrder[k - 1] \in instance

\* Who may send, and to whom: the receiver once it is started, the servers once
\* main() has started them and until they are stopped, a task to another while
\* it handles a message.
MaySend(s, d) ==
    \/ s = Sctp /\ d = N2 /\ ReceiverStarted
    \/ s = Http /\ started /\ pc \notin {"free", "freed", "stuck"}
    \/ s \in Tasks /\ s # d /\ thread[s] = "handling"

\* An HTTP handler calls into amf_app, a freed object once the signal handler
\* has deleted it, and every sender calls into itti_mw, whose contexts are
\* deleted before the destructor comes to c_timers.
Gone(s) == \/ s = Http /\ started /\ App \notin instance
           \/ pc = "freed" \/ (pc = "stuck" /\ timer = "unset")

\* send_msg reads the destination's state without its lock and returns an error
\* unless it is READY.
SendTest(s, d, m) ==
    /\ MaySend(s, d) /\ sending[s] = None /\ fate[m] = "unsent" /\ ~Gone(s)
    /\ IF state[d] = "READY"
         THEN /\ sending' = [sending EXCEPT ![s] = <<m, d>>]
              /\ fate' = [fate EXCEPT ![m] = "sending"]
         ELSE /\ fate' = [fate EXCEPT ![m] = "lost"]
              /\ UNCHANGED sending
    /\ UNCHANGED <<main, tasks, instance, dead>>

SendPush(s) ==
    /\ sending[s] # None
    /\ Push(sending[s][2], sending[s][1])
    /\ fate' = [fate EXCEPT ![sending[s][1]] = "queued"]
    /\ sending' = [sending EXCEPT ![s] = None]
    /\ UNCHANGED <<main, state, current, instance, dead>>

\* Undefined behaviour: a call into a freed object may end the process.
CallIntoFreed(s) ==
    /\ s \in {Sctp, Http}
    /\ sending[s] # None \/ \E d \in Tasks : MaySend(s, d)
    /\ Gone(s)
    /\ dead' = s
    /\ UNCHANGED <<main, tasks, instance, sending, fate>>

\* notify_task_ready: refused, with a log line, unless the task is starting.
NotifyReady(t) ==
    /\ thread[t] = "starting"
    /\ state' = IF state[t] = "STARTING" THEN [state EXCEPT ![t] = "READY"] ELSE state
    /\ thread' = [thread EXCEPT ![t] = "receiving"]
    /\ UNCHANGED <<main, queue, current, instance, sending, fate, dead>>

\* receive_msg: the test for an empty queue and the wait are under m_queue.
\* The task's loop returns at TERMINATE.
Receive(t) ==
    /\ thread[t] = "receiving"
    /\ IF queue[t] = <<>>
         THEN /\ thread' = [thread EXCEPT ![t] = "asleep"]
              /\ UNCHANGED <<queue, current>>
         ELSE /\ queue' = [queue EXCEPT ![t] = Tail(@)]
              /\ IF Head(queue[t]) = Terminate
                   THEN /\ thread' = [thread EXCEPT ![t] = "returned"]
                        /\ UNCHANGED current
                   ELSE /\ thread' = [thread EXCEPT ![t] = "handling"]
                        /\ current' = [current EXCEPT ![t] = Head(queue[t])]
    /\ UNCHANGED <<main, state, instance, sending, fate, dead>>

\* A condition variable may wake its thread without a notification.
SpuriousWakeUp(t) ==
    /\ thread[t] = "asleep"
    /\ thread' = [thread EXCEPT ![t] = "receiving"]
    /\ UNCHANGED <<main, state, queue, current, instance, sending, fate, dead>>

\* The loop calls the handler through the task's instance, and handlers call
\* amf_app_inst: a null pointer ends the process.
Uses(t) == {{t}, {t, App}}

Handled(t) ==
    /\ thread[t] = "handling" /\ sending[t] = None
    /\ \E used \in Uses(t) : used \subseteq instance
    /\ thread' = [thread EXCEPT ![t] = "receiving"]
    /\ fate' = [fate EXCEPT ![current[t]] = "handled"]
    /\ current' = [current EXCEPT ![t] = None]
    /\ UNCHANGED <<main, state, queue, instance, sending, dead>>

\* The signal came inside timer_setup: nobody gives its locks back.
Interrupted == timer = "setting" /\ pc \in Stopping

\* A handler that sets or removes a timer then waits for m_timers for ever.
Blocked(t) ==
    /\ t \in Timed /\ thread[t] = "handling" /\ sending[t] = None /\ Interrupted
    /\ thread' = [thread EXCEPT ![t] = "blocked"]
    /\ UNCHANGED <<main, state, queue, current, instance, sending, fate, dead>>

NullInstance(t) ==
    /\ thread[t] = "handling"
    /\ \E used \in Uses(t) : ~(used \subseteq instance)
    /\ dead' = t
    /\ UNCHANGED <<main, tasks, instance, sending, fate>>
-----------------------------------------------------------------------------
(* amf_signal_handler, on the main thread wherever that is: it interrupts a *)
(* constructor, and never returns to it.                                    *)

Signal ==
    /\ pc \notin Stopping
    /\ pc' = "broadcast" /\ i' = 1
    /\ UNCHANGED <<timer, started, tasks, instance, sending, fate, dead>>

\* Mutant of PushTerminate: TERMINATE overtakes what is queued.
PushTerminateFirst(t) == PushFirst(t, Terminate)

PushTerminate(t) == Push(t, Terminate)

\* One step of send_broadcast_msg: a task that is not READY is passed over.
Broadcast ==
    /\ pc = "broadcast"
    /\ IF i <= Len(IdOrder)
         THEN /\ IF state[IdOrder[i]] = "READY"
                   THEN PushTerminate(IdOrder[i])
                   ELSE UNCHANGED <<queue, thread>>
              /\ i' = i + 1 /\ UNCHANGED pc
         ELSE pc' = "join" /\ i' = 1 /\ UNCHANGED <<queue, thread>>
    /\ UNCHANGED <<timer, started, state, current, instance, sending, fate, dead>>

\* Mutant of Joined: the thread is detached.
JoinedAtOnce(t) == TRUE

\* A thread that was started is joinable; join returns when it has returned.
Joined(t) == thread[t] = "returned"

\* One step of wait_tasks_end.
Join ==
    /\ pc = "join"
    /\ IF i <= Len(IdOrder)
         THEN LET t == IdOrder[i] IN
              /\ IF thread[t] = "none" THEN UNCHANGED state
                   ELSE /\ Joined(t)
                        /\ state' = [state EXCEPT ![t] = "ENDED"]
              /\ i' = i + 1 /\ UNCHANGED pc
         ELSE pc' = "delete" /\ UNCHANGED <<i, state>>
    /\ UNCHANGED <<timer, started, thread, queue, current, instance, sending, fate, dead>>

DeleteApp ==
    /\ pc = "delete"
    /\ instance' = instance \ {App}
    /\ pc' = "servers"
    /\ UNCHANGED <<i, timer, started, tasks, sending, fate, dead>>

\* The HTTP servers are stopped; at last exit().
StopServers ==
    /\ pc \in {"servers", "freed"}
    /\ pc' = IF pc = "servers" THEN "free" ELSE "exit"
    /\ UNCHANGED <<i, timer, started, tasks, instance, sending, fate, dead>>

\* delete itti_inst.  The destructor locks m_timeout, which this thread may
\* hold already, and destroys c_timers, on which the timer thread waits when no
\* timer was set: it notifies c_timeout only.  Destroying a condition that has
\* a waiter is undefined; the C library waits for the waiter.
Free ==
    /\ pc = "free"
    /\ \/ timer # "setting" /\ pc' = "freed"
       \/ timer # "set" /\ pc' = "stuck"
    /\ UNCHANGED <<i, timer, started, tasks, instance, sending, fate, dead>>
-----------------------------------------------------------------------------
Main == NewContext \/ StartThread \/ CreateReturned \/ AssignInstance \/ AssignApp
        \/ SetTimer \/ Broadcast \/ Join \/ DeleteApp \/ StopServers \/ Free

Task(t) == NotifyReady(t) \/ Receive(t) \/ Handled(t) \/ Blocked(t) \/ NullInstance(t)

Sending == \E s \in Senders :
             \/ SendPush(s) \/ CallIntoFreed(s)
             \/ \E d \in Tasks, m \in Msgs : SendTest(s, d, m)

Next ==
    /\ Alive
    /\ \/ Main \/ Signal \/ Sending
       \/ \E t \in Tasks : Task(t) \/ SpuriousWakeUp(t)

Spec == Init /\ [][Next]_vars

\* The scheduler runs every thread that can run; nothing makes a peer send or
\* the operator signal.
FairSpec ==
    /\ Spec
    /\ WF_vars(Alive /\ Main)
    /\ \A t \in Tasks : WF_vars(Alive /\ Task(t))
    /\ \A s \in Senders : WF_vars(Alive /\ SendPush(s))
-----------------------------------------------------------------------------
\* Types, and the two facts the names promise: a context exists before its
\* thread, and a task handles a message exactly while it is in a handler.
TypeOK ==
    /\ pc \in Creating \cup {"run"} \cup Stopping
    /\ i \in 1..Len(IdOrder) + 1
    /\ state \in [Tasks -> States \cup {None}]
    /\ thread \in [Tasks -> {"none", "starting", "receiving", "asleep",
                             "handling", "blocked", "returned"}]
    /\ queue \in [Tasks -> Seq(Msgs \cup {Terminate})]
    /\ current \in [Tasks -> Msgs \cup {None}]
    /\ instance \subseteq Tasks /\ timer \in {"unset", "setting", "set"}
    /\ sending \in [Senders -> {None} \cup (Msgs \X Tasks)]
    /\ fate \in [Msgs -> {"unsent", "sending", "lost", "queued", "handled"}]
    /\ started \in BOOLEAN
    /\ dead \in Senders \cup {None}
    /\ \A t \in Tasks : /\ state[t] = None => thread[t] = "none"
                        /\ thread[t] \in {"handling", "blocked"} <=> current[t] # None

\* No wake-up is lost: a task never sleeps in receive_msg while its queue holds
\* a message (send_msg pushes and notifies under the lock under which the
\* receiver tests the queue and goes to sleep).
AsleepHasNothing ==
    \A t \in Tasks : thread[t] = "asleep" => queue[t] = <<>>

\* Once start-up has completed no task calls through a null instance: the
\* signal handler joins every task before it deletes amf_app_inst.
InstancesOutliveTasks == dead \in Tasks => ~started

\* create_task returns: the state it polls for does come, because the context is
\* STARTING before the thread runs and calls notify_task_ready.
CreateReturns == (pc = "poll") ~> (pc # "poll" \/ dead # None)

\* A message that send_msg accepted ahead of TERMINATE is handled, a shutdown
\* that has begun included; only the end of the process keeps it from that, and
\* a signal inside timer_setup, whose locks handlers then wait for.
Ahead(m, t) == /\ thread[t] # "returned"
               /\ \E k \in DOMAIN queue[t] :
                     queue[t][k] = m /\ \A j \in 1..k : queue[t][j] # Terminate
AcceptedIsHandled ==
    \A m \in Msgs, t \in Tasks :
        Ahead(m, t) ~> (fate[m] = "handled" \/ dead # None \/ Interrupted)

\* A signal ends the process, whatever is queued and being handled, provided
\* that at that moment no task's thread is between its start and
\* notify_task_ready and the main thread is not inside timer_setup.  Before the
\* first timer is set the destructor of itti_mw may wait for ever, with every
\* task joined.
ShutdownEnds ==
    (pc = "broadcast" /\ i = 1 /\ ~Interrupted
        /\ \A t \in Tasks : thread[t] # "starting")
        ~> (pc = "exit" \/ dead # None \/ (pc = "stuck" /\ timer = "unset"))
=============================================================================
