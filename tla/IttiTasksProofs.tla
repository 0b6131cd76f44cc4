--------------------------- MODULE IttiTasksProofs ---------------------------
(***************************************************************************)
(* Proofs about IttiTasks, for any tasks, creation order and messages:     *)
(* type correctness, that no wake-up is lost, and that no task calls       *)
(* through a null instance once start-up has completed, shutdown included. *)
(***************************************************************************)
EXTENDS IttiTasks, SequenceTheorems, TLAPS

-----------------------------------------------------------------------------
(* Type correctness.                                                       *)

\* The parts of TypeOK.
MainOK ==
    /\ pc \in Creating \cup {"run"} \cup Stopping
    /\ i \in 1..Len(IdOrder) + 1
    /\ started \in BOOLEAN
    /\ timer \in {"unset", "setting", "set"}
    /\ dead \in Senders \cup {None}
StateOK == state \in [Tasks -> States \cup {None}]
ThreadOK == thread \in [Tasks -> {"none", "starting", "receiving", "asleep",
                                  "handling", "blocked", "returned"}]
QueueOK == queue \in [Tasks -> Seq(Msgs \cup {Terminate})]
CurrentOK == current \in [Tasks -> Msgs \cup {None}]
SendersOK ==
    /\ instance \subseteq Tasks
    /\ sending \in [Senders -> {None} \cup (Msgs \X Tasks)]
    /\ fate \in [Msgs -> {"unsent", "sending", "lost", "queued", "handled"}]
ThreadsOK == \A t \in Tasks : /\ state[t] = None => thread[t] = "none"
                              /\ thread[t] \in {"handling", "blocked"} <=> current[t] # None

LEMMA TypeParts ==
    TypeOK <=> /\ MainOK /\ StateOK /\ ThreadOK /\ QueueOK /\ CurrentOK
               /\ SendersOK /\ ThreadsOK
  BY ZenonT(40) DEF TypeOK, MainOK, StateOK, ThreadOK, QueueOK, CurrentOK, SendersOK, ThreadsOK

\* What the assumption says of the two orders.
LEMMA Orders ==
    /\ Len(IdOrder) \in Nat /\ Len(CreationOrder) = Len(IdOrder)
    /\ Len(CreationOrder) >= 1
    /\ \A k \in 1..Len(IdOrder) : IdOrder[k] \in Tasks /\ CreationOrder[k] \in Tasks
    /\ \A t \in Tasks : \E k \in 1..Len(IdOrder) : t = CreationOrder[k]
    /\ \A t \in Tasks : \E k \in 1..Len(IdOrder) : t = IdOrder[k]
    /\ \A j, k \in 1..Len(IdOrder) : CreationOrder[j] = CreationOrder[k] => j = k
<1>. CreationOrder \in Seq(Tasks) /\ IdOrder \in Seq(Tasks) /\ App \in Tasks
  BY TasksAssumption DEF TasksAssumption
<1>1. /\ Len(IdOrder) \in Nat /\ Len(CreationOrder) = Len(IdOrder)
      /\ \A k \in 1..Len(IdOrder) : IdOrder[k] \in Tasks /\ CreationOrder[k] \in Tasks
  BY TasksAssumption DEF TasksAssumption
<1>2. DOMAIN CreationOrder = 1..Len(IdOrder) /\ DOMAIN IdOrder = 1..Len(IdOrder)
  BY <1>1
<1>3. \A t \in Tasks : \E k \in 1..Len(IdOrder) : t = CreationOrder[k]
  BY <1>2 DEF Tasks, ToSet
<1>4. \A t \in Tasks : \E k \in 1..Len(IdOrder) : t = IdOrder[k]
  BY <1>2, TasksAssumption DEF TasksAssumption, ToSet
<1>5. \A j, k \in 1..Len(IdOrder) : CreationOrder[j] = CreationOrder[k] => j = k
  BY <1>2, TasksAssumption DEF TasksAssumption, IsInjective
<1>6. Len(CreationOrder) >= 1
  BY <1>1, <1>3
<1>. QED  BY <1>1, <1>3, <1>4, <1>5, <1>6

\* The names are told apart.
LEMMA Names ==
    /\ None \notin Msgs /\ None \notin Tasks /\ None \notin Senders
    /\ None \notin Msgs \X Tasks /\ None \notin States /\ Terminate \notin Msgs
    /\ Tasks \subseteq Senders /\ Sctp \in Senders /\ Http \in Senders
    /\ Sctp \notin Tasks /\ Http \notin Tasks
    /\ App \in Tasks /\ N2 \in Tasks
  BY TasksAssumption DEF TasksAssumption, Senders

\* The main thread creates the tasks one by one: those it has not come to yet
\* have no thread, and a thread is started only where there is a context.
StartInv ==
    /\ pc \in Creating => i <= Len(CreationOrder)
    /\ \A k \in 1..Len(CreationOrder) :
          pc \in Creating /\ (k > i \/ (k = i /\ pc \in {"context", "thread"}))
             => thread[CreationOrder[k]] = "none"
    /\ pc = "thread" => state[CreationOrder[i]] # None

LEMMA Lengths ==
    ASSUME MainOK
    PROVE  /\ Len(IdOrder) \in Nat /\ Len(IdOrder) >= 1
           /\ Len(CreationOrder) = Len(IdOrder)
           /\ i \in Nat /\ i >= 1 /\ i <= Len(IdOrder) + 1
           /\ 1 \in 1..Len(IdOrder) + 1
           /\ i <= Len(IdOrder) => i + 1 \in 1..Len(IdOrder) + 1
<1>1. Len(IdOrder) \in Nat /\ Len(CreationOrder) = Len(IdOrder) /\ Len(IdOrder) >= 1
  BY Orders
<1>2. i \in 1..Len(IdOrder) + 1
  BY DEF MainOK
<1>. QED  BY <1>1, <1>2

LEMMA InitTypeOK == Init => TypeOK
<1>. SUFFICES ASSUME Init PROVE TypeOK
  OBVIOUS
<1>1. MainOK
  <2>1. 1 \in 1..Len(IdOrder) + 1
    BY Orders
  <2>. QED  BY <2>1 DEF Init, MainOK, Creating
<1>2. StateOK /\ ThreadOK /\ QueueOK /\ CurrentOK
  BY DEF Init, StateOK, ThreadOK, QueueOK, CurrentOK
<1>3. SendersOK
  BY DEF Init, SendersOK
<1>4. ThreadsOK
  BY DEF Init, ThreadsOK
<1>. QED  BY <1>1, <1>2, <1>3, <1>4, TypeParts

\* A push keeps the types, and wakes no thread but a sleeping one.
LEMMA PushOK ==
    ASSUME TypeOK, NEW t \in Tasks, NEW m \in Msgs \cup {Terminate}, Push(t, m)
    PROVE  /\ QueueOK' /\ ThreadOK'
           /\ \A u \in Tasks : \/ thread'[u] = thread[u]
                              \/ (thread[u] = "asleep" /\ thread'[u] = "receiving")
<1>1. QueueOK'
  <2>1. queue[t] \in Seq(Msgs \cup {Terminate})
    BY TypeParts DEF QueueOK
  <2>2. Append(queue[t], m) \in Seq(Msgs \cup {Terminate})
    BY <2>1
  <2>. QED  BY <2>2, TypeParts DEF Push, QueueOK
<1>2. ThreadOK'
  BY TypeParts DEF Push, Wake, ThreadOK
<1>3. \A u \in Tasks : \/ thread'[u] = thread[u]
                     \/ (thread[u] = "asleep" /\ thread'[u] = "receiving")
  <2>1. ThreadOK
    BY TypeParts
  <2>2. CASE thread[t] = "asleep"
    <3>1. thread' = [thread EXCEPT ![t] = "receiving"]
      BY <2>2 DEF Push, Wake
    <3>. QED  BY <2>1, <2>2, <3>1 DEF ThreadOK
  <2>3. CASE thread[t] # "asleep"
    BY <2>3 DEF Push, Wake
  <2>. QED  BY <2>2, <2>3
<1>. QED  BY <1>1, <1>2, <1>3

\* The main thread keeps the types.
LEMMA MainTypeOK == TypeOK /\ StartInv /\ (Main \/ Signal) => TypeOK'
<1>. SUFFICES ASSUME TypeOK, StartInv, Main \/ Signal
              PROVE  /\ MainOK' /\ StateOK' /\ ThreadOK' /\ QueueOK' /\ CurrentOK'
                     /\ SendersOK' /\ ThreadsOK'
  BY TypeParts DEF TypeOK, MainOK, StateOK, ThreadOK, QueueOK, CurrentOK, SendersOK,
                   ThreadsOK
<1>. /\ MainOK /\ StateOK /\ ThreadOK /\ QueueOK /\ CurrentOK /\ SendersOK /\ ThreadsOK
  BY TypeParts
<1>1. CASE NewContext
  <2>1. CreationOrder[i] \in Tasks
    BY <1>1, Orders DEF StartInv, MainOK, NewContext, Creating
  <2>2. StateOK' /\ ThreadsOK'
    BY <1>1, <2>1, Names DEF NewContext, FirstState, StateOK, ThreadsOK, States
  <2>. QED  BY <1>1, <2>2 DEF NewContext, MainOK, ThreadOK, QueueOK, CurrentOK, SendersOK,
                              Creating
<1>2. CASE StartThread
  <2>1. /\ CreationOrder[i] \in Tasks /\ thread[CreationOrder[i]] = "none"
        /\ state[CreationOrder[i]] # None
    BY <1>2, Orders DEF StartInv, MainOK, StartThread, Creating
  <2>2. ThreadOK' /\ ThreadsOK'
    BY <1>2, <2>1 DEF StartThread, ThreadOK, ThreadsOK
  <2>. QED  BY <1>2, <2>2 DEF StartThread, MainOK, StateOK, QueueOK, CurrentOK, SendersOK,
                              Creating
<1>3. CASE CreateReturned
  BY <1>3 DEF CreateReturned, tasks, MainOK, StateOK, ThreadOK, QueueOK, CurrentOK,
              SendersOK, ThreadsOK, Creating
<1>4. CASE AssignInstance
  <2>1. CreationOrder[i] \in Tasks /\ i \in Nat /\ i <= Len(CreationOrder)
    BY <1>4, Orders DEF StartInv, MainOK, AssignInstance, Creating
  <2>2. MainOK'
    BY <1>4, <2>1, Lengths DEF AssignInstance, MainOK, Creating
  <2>3. SendersOK'
    BY <1>4, <2>1 DEF AssignInstance, SendersOK
  <2>. QED  BY <1>4, <2>2, <2>3 DEF AssignInstance, tasks, StateOK, ThreadOK, QueueOK,
                                    CurrentOK, ThreadsOK
<1>5. CASE SetTimer \/ AssignApp
  BY <1>5, Names DEF SetTimer, AssignApp, tasks, MainOK, StateOK, ThreadOK, QueueOK, CurrentOK,
                     SendersOK, ThreadsOK
<1>6. CASE Broadcast
  <2>1. CASE i <= Len(IdOrder) /\ state[IdOrder[i]] = "READY"
    <3>1. IdOrder[i] \in Tasks
      BY <2>1, Orders DEF MainOK
    <3>2. Push(IdOrder[i], Terminate)
      BY <1>6, <2>1 DEF Broadcast, PushTerminate
    <3>3. /\ QueueOK' /\ ThreadOK'
          /\ \A u \in Tasks : \/ thread'[u] = thread[u]
                             \/ (thread[u] = "asleep" /\ thread'[u] = "receiving")
      BY <3>1, <3>2, PushOK
    <3>4. UNCHANGED <<state, current, instance, timer, sending, fate>>
      BY <1>6 DEF Broadcast
    <3>5. ThreadsOK'
      <4>. SUFFICES ASSUME NEW u \in Tasks
                    PROVE  /\ state[u] = None => thread'[u] = "none"
                           /\ thread'[u] \in {"handling", "blocked"} <=> current[u] # None
        BY <3>4 DEF ThreadsOK
      <4>. QED  BY <3>3 DEF ThreadsOK
    <3>6. MainOK'
      BY <1>6, <2>1, Lengths DEF Broadcast, MainOK
    <3>. QED  BY <3>3, <3>4, <3>5, <3>6 DEF StateOK, CurrentOK, SendersOK
  <2>2. CASE ~ (i <= Len(IdOrder) /\ state[IdOrder[i]] = "READY")
    <3>1. MainOK'
      BY <1>6, <2>2, Lengths DEF Broadcast, MainOK, Stopping
    <3>2. UNCHANGED <<state, thread, queue, current, instance, timer, sending, fate>>
      BY <1>6, <2>2 DEF Broadcast
    <3>. QED  BY <3>1, <3>2 DEF StateOK, ThreadOK, QueueOK, CurrentOK, SendersOK, ThreadsOK
  <2>. QED  BY <2>1, <2>2
<1>7. CASE Join
  <2>1. MainOK'
    BY <1>7, Lengths DEF Join, MainOK, Stopping
  <2>2. StateOK' /\ ThreadsOK'
    <3>1. CASE i <= Len(IdOrder)
      <4>1. IdOrder[i] \in Tasks
        BY <3>1, Orders DEF MainOK
      <4>. QED  BY <1>7, <3>1, <4>1, Names DEF Join, StateOK, ThreadsOK, States
    <3>2. CASE ~ (i <= Len(IdOrder))
      BY <1>7, <3>2 DEF Join, StateOK, ThreadsOK
    <3>. QED  BY <3>1, <3>2
  <2>. QED  BY <1>7, <2>1, <2>2 DEF Join, ThreadOK, QueueOK, CurrentOK, SendersOK
<1>8. CASE DeleteApp
  BY <1>8 DEF DeleteApp, tasks, MainOK, StateOK, ThreadOK, QueueOK, CurrentOK,
              SendersOK, ThreadsOK, Stopping
<1>9. CASE StopServers \/ Free
  <2>1. MainOK'
    BY <1>9 DEF StopServers, Free, MainOK, Stopping
  <2>. QED  BY <1>9, <2>1 DEF StopServers, Free, tasks, StateOK, ThreadOK, QueueOK, CurrentOK,
                              SendersOK, ThreadsOK
<1>10. CASE Signal
  <2>1. MainOK'
    BY <1>10, Orders DEF Signal, MainOK, Stopping
  <2>. QED  BY <1>10, <2>1 DEF Signal, tasks, StateOK, ThreadOK, QueueOK, CurrentOK,
                               SendersOK, ThreadsOK
<1>. QED  BY <1>1, <1>2, <1>3, <1>4, <1>5, <1>6, <1>7, <1>8, <1>9, <1>10 DEF Main

\* The threads that send, and the tasks, keep the types.
LEMMA SendTypeOK ==
    ASSUME TypeOK, NEW s \in Senders,
           \/ SendPush(s) \/ CallIntoFreed(s)
           \/ \E d \in Tasks, m \in Msgs : SendTest(s, d, m)
    PROVE  TypeOK'
<1>. SUFFICES /\ MainOK' /\ StateOK' /\ ThreadOK' /\ QueueOK' /\ CurrentOK'
              /\ SendersOK' /\ ThreadsOK'
  BY DEF TypeOK, MainOK, StateOK, ThreadOK, QueueOK, CurrentOK, SendersOK, ThreadsOK
<1>. /\ MainOK /\ StateOK /\ ThreadOK /\ QueueOK /\ CurrentOK /\ SendersOK /\ ThreadsOK
  BY TypeParts
<1>1. CASE SendPush(s)
  <2>1. sending[s] # None /\ sending[s] \in Msgs \X Tasks
    BY <1>1 DEF SendPush, SendersOK
  <2>2. sending[s][1] \in Msgs /\ sending[s][2] \in Tasks
    BY <2>1
  <2>3. Push(sending[s][2], sending[s][1])
    BY <1>1 DEF SendPush
  <2>4. /\ QueueOK' /\ ThreadOK'
        /\ \A u \in Tasks : \/ thread'[u] = thread[u]
                           \/ (thread[u] = "asleep" /\ thread'[u] = "receiving")
    BY <2>2, <2>3, PushOK
  <2>5. UNCHANGED <<pc, i, timer, started, state, current, instance, dead>>
    BY <1>1 DEF SendPush, main
  <2>6. ThreadsOK'
    <3>. SUFFICES ASSUME NEW u \in Tasks
                  PROVE  /\ state[u] = None => thread'[u] = "none"
                         /\ thread'[u] \in {"handling", "blocked"} <=> current[u] # None
      BY <2>5 DEF ThreadsOK
    <3>. QED  BY <2>4 DEF ThreadsOK
  <2>7. SendersOK'
    BY <1>1, <2>2 DEF SendPush, SendersOK
  <2>. QED  BY <2>4, <2>5, <2>6, <2>7 DEF MainOK, StateOK, CurrentOK
<1>2. CASE CallIntoFreed(s)
  <2>1. MainOK'
    BY <1>2 DEF CallIntoFreed, main, MainOK
  <2>. QED  BY <1>2, <2>1 DEF CallIntoFreed, tasks, StateOK, ThreadOK, QueueOK, CurrentOK,
                              SendersOK, ThreadsOK
<1>3. CASE \E d \in Tasks, m \in Msgs : SendTest(s, d, m)
  <2>. PICK d \in Tasks, m \in Msgs : SendTest(s, d, m)
    BY <1>3
  <2>1. SendersOK'
    BY DEF SendTest, SendersOK
  <2>. QED  BY <2>1 DEF SendTest, main, tasks, MainOK, StateOK, ThreadOK, QueueOK,
                        CurrentOK, ThreadsOK
<1>. QED  BY <1>1, <1>2, <1>3

LEMMA TaskTypeOK ==
    ASSUME TypeOK, NEW t \in Tasks, Task(t) \/ SpuriousWakeUp(t)
    PROVE  TypeOK'
<1>. SUFFICES /\ MainOK' /\ StateOK' /\ ThreadOK' /\ QueueOK' /\ CurrentOK'
              /\ SendersOK' /\ ThreadsOK'
  BY DEF TypeOK, MainOK, StateOK, ThreadOK, QueueOK, CurrentOK, SendersOK, ThreadsOK
<1>. /\ MainOK /\ StateOK /\ ThreadOK /\ QueueOK /\ CurrentOK /\ SendersOK /\ ThreadsOK
  BY TypeParts
<1>1. CASE NotifyReady(t)
  <2>1. StateOK' /\ ThreadOK'
    BY <1>1 DEF NotifyReady, StateOK, ThreadOK, States
  <2>2. ThreadsOK'
    BY <1>1, Names DEF NotifyReady, StateOK, ThreadOK, ThreadsOK, States
  <2>. QED  BY <1>1, <2>1, <2>2 DEF NotifyReady, main, MainOK, QueueOK, CurrentOK, SendersOK
<1>2. CASE Receive(t)
  <2>1. ThreadOK'
    BY <1>2 DEF Receive, ThreadOK
  <2>2. UNCHANGED <<pc, i, timer, started, state, instance, sending, fate, dead>>
    BY <1>2 DEF Receive, main
  <2>3. CASE queue[t] = <<>>
    BY <1>2, <2>1, <2>2, <2>3 DEF Receive, ThreadOK, ThreadsOK, MainOK, StateOK, QueueOK,
                                  CurrentOK, SendersOK
  <2>4. CASE queue[t] # <<>>
    <3>1. queue[t] \in Seq(Msgs \cup {Terminate})
      BY DEF QueueOK
    <3>2. /\ Head(queue[t]) \in Msgs \cup {Terminate}
          /\ Tail(queue[t]) \in Seq(Msgs \cup {Terminate})
      BY <2>4, <3>1, HeadTailProperties
    <3>3. QueueOK'
      BY <1>2, <2>4, <3>2 DEF Receive, QueueOK
    <3>4. CurrentOK' /\ ThreadsOK'
      BY <1>2, <2>4, <3>2, Names DEF Receive, CurrentOK, ThreadOK, ThreadsOK
    <3>. QED  BY <2>1, <2>2, <3>3, <3>4 DEF MainOK, StateOK, SendersOK
  <2>. QED  BY <2>3, <2>4
<1>3. CASE Handled(t)
  <2>1. current[t] \in Msgs
    BY <1>3 DEF Handled, CurrentOK, ThreadsOK
  <2>2. ThreadOK' /\ CurrentOK' /\ SendersOK'
    BY <1>3, <2>1 DEF Handled, ThreadOK, CurrentOK, SendersOK
  <2>3. ThreadsOK'
    BY <1>3 DEF Handled, ThreadOK, CurrentOK, ThreadsOK
  <2>. QED  BY <1>3, <2>2, <2>3 DEF Handled, main, MainOK, StateOK, QueueOK
<1>4. CASE NullInstance(t)
  <2>1. MainOK'
    BY <1>4, Names DEF NullInstance, main, MainOK
  <2>. QED  BY <1>4, <2>1 DEF NullInstance, tasks, StateOK, ThreadOK, QueueOK, CurrentOK,
                              SendersOK, ThreadsOK
<1>6. CASE Blocked(t)
  <2>1. ThreadOK' /\ ThreadsOK'
    BY <1>6 DEF Blocked, ThreadOK, ThreadsOK
  <2>. QED  BY <1>6, <2>1 DEF Blocked, main, MainOK, StateOK, QueueOK, CurrentOK, SendersOK
<1>5. CASE SpuriousWakeUp(t)
  <2>1. ThreadOK' /\ ThreadsOK'
    BY <1>5 DEF SpuriousWakeUp, ThreadOK, ThreadsOK
  <2>. QED  BY <1>5, <2>1 DEF SpuriousWakeUp, main, MainOK, StateOK, QueueOK, CurrentOK,
                              SendersOK
<1>. QED  BY <1>1, <1>2, <1>3, <1>4, <1>5, <1>6 DEF Task

\* StartInv is kept by a step that starts no thread and leaves the creator alone.
LEMMA StartFrame ==
    ASSUME StartInv, MainOK, UNCHANGED <<pc, i>>,
           \A u \in Tasks : /\ thread[u] = "none" => thread'[u] = "none"
                            /\ state[u] # None => state'[u] # None
    PROVE  StartInv'
<1>1. \A k \in 1..Len(CreationOrder) : CreationOrder[k] \in Tasks
  BY Orders
<1>2. pc = "thread" => CreationOrder[i] \in Tasks
  BY SMTT(40), Orders, Lengths DEF StartInv, Creating
<1>. QED  BY <1>1, <1>2 DEF StartInv

LEMMA StartInvStep == TypeOK /\ StartInv /\ [Next]_vars => StartInv'
<1>. SUFFICES ASSUME TypeOK, StartInv, [Next]_vars PROVE StartInv'
  OBVIOUS
<1>. /\ MainOK /\ StateOK /\ ThreadOK /\ QueueOK /\ CurrentOK /\ SendersOK /\ ThreadsOK
  BY TypeParts
<1>. Len(CreationOrder) = Len(IdOrder) /\ Len(IdOrder) \in Nat /\ i \in Nat
  BY Lengths
<1>1. CASE NewContext
  <2>1. i \in 1..Len(IdOrder)
    BY <1>1, Lengths DEF StartInv, NewContext, Creating
  <2>2. CreationOrder[i] \in Tasks
    BY <2>1, Orders
  <2>3. state'[CreationOrder[i]] # None
    BY <1>1, <2>2, Names DEF NewContext, FirstState, StateOK, States
  <2>. QED  BY <1>1, <2>3 DEF NewContext, StartInv, Creating
<1>2. CASE StartThread
  <2>1. i \in 1..Len(IdOrder)
    BY <1>2, Lengths DEF StartInv, StartThread, Creating
  <2>2. \A k \in 1..Len(CreationOrder) :
           k > i => CreationOrder[k] \in Tasks /\ CreationOrder[k] # CreationOrder[i]
    BY <2>1, Orders
  <2>. QED  BY <1>2, <2>2 DEF StartThread, StartInv, ThreadOK, Creating
<1>3. CASE CreateReturned
  BY <1>3 DEF CreateReturned, tasks, StartInv, Creating
<1>4. CASE AssignInstance
  BY <1>4 DEF AssignInstance, tasks, StartInv, Creating
<1>5. CASE AssignApp \/ Broadcast \/ Join \/ DeleteApp \/ StopServers \/ Free \/ Signal
  <2>1. pc' \notin Creating
    BY <1>5 DEF AssignApp, Broadcast, Join, DeleteApp, StopServers, Free, Signal, Creating
  <2>. QED  BY <2>1 DEF StartInv, Creating
<1>10. CASE SetTimer
  BY <1>10 DEF SetTimer, tasks, StartInv, Creating
<1>6. ASSUME NEW s \in Senders, SendPush(s)
      PROVE  StartInv'
  <2>1. sending[s] # None /\ sending[s] \in Msgs \X Tasks
    BY <1>6 DEF SendPush, SendersOK
  <2>2. sending[s][1] \in Msgs /\ sending[s][2] \in Tasks
    BY <2>1
  <2>3. Push(sending[s][2], sending[s][1])
    BY <1>6 DEF SendPush
  <2>4. \A u \in Tasks : \/ thread'[u] = thread[u]
                        \/ (thread[u] = "asleep" /\ thread'[u] = "receiving")
    BY <2>2, <2>3, PushOK
  <2>. QED  BY <1>6, <2>4, StartFrame DEF SendPush, main
<1>7. ASSUME NEW s \in Senders,
             CallIntoFreed(s) \/ \E d \in Tasks, m \in Msgs : SendTest(s, d, m)
      PROVE  StartInv'
  BY <1>7 DEF CallIntoFreed, SendTest, main, tasks, StartInv
<1>8. ASSUME NEW t \in Tasks, Task(t) \/ SpuriousWakeUp(t)
      PROVE  StartInv'
  <2>1. UNCHANGED <<pc, i>>
    BY <1>8 DEF Task, NotifyReady, Receive, Handled, Blocked, NullInstance, SpuriousWakeUp, main
  <2>2. \A u \in Tasks : thread[u] = "none" => thread'[u] = "none"
    BY <1>8 DEF Task, NotifyReady, Receive, Handled, Blocked, NullInstance, SpuriousWakeUp, tasks,
                ThreadOK
  <2>3. \A u \in Tasks : state[u] # None => state'[u] # None
    BY <1>8, Names DEF Task, NotifyReady, Receive, Handled, Blocked, NullInstance, SpuriousWakeUp,
                       tasks, StateOK, States
  <2>. QED  BY <2>1, <2>2, <2>3, StartFrame
<1>9. CASE UNCHANGED vars
  BY <1>9 DEF vars, StartInv
<1>. QED  BY <1>1, <1>2, <1>3, <1>4, <1>5, <1>6, <1>7, <1>8, <1>9, <1>10
          DEF Next, Main, Sending

LEMMA InitStartInv == Init => StartInv
<1>. SUFFICES ASSUME Init PROVE StartInv
  OBVIOUS
<1>1. \A k \in 1..Len(CreationOrder) : thread[CreationOrder[k]] = "none"
  BY Orders DEF Init
<1>. QED  BY <1>1, Orders DEF Init, StartInv, Creating

LEMMA TypeStep == TypeOK /\ StartInv /\ [Next]_vars => TypeOK'
<1>. SUFFICES ASSUME TypeOK, StartInv, [Next]_vars PROVE TypeOK'
  OBVIOUS
<1>1. CASE Main \/ Signal
  BY <1>1, MainTypeOK
<1>2. CASE Sending
  BY <1>2, SendTypeOK DEF Sending
<1>3. CASE \E t \in Tasks : Task(t) \/ SpuriousWakeUp(t)
  BY <1>3, TaskTypeOK
<1>4. CASE UNCHANGED vars
  BY <1>4 DEF vars, TypeOK
<1>. QED  BY <1>1, <1>2, <1>3, <1>4 DEF Next

\* Types hold throughout: in particular every task has its context before its
\* thread, and its current message exactly while it handles one.
THEOREM TypeCorrect == Spec => []TypeOK
<1>1. Init => TypeOK /\ StartInv
  BY InitTypeOK, InitStartInv
<1>2. TypeOK /\ StartInv /\ [Next]_vars => TypeOK' /\ StartInv'
  BY TypeStep, StartInvStep
<1>. QED  BY <1>1, <1>2, PTL DEF Spec

-----------------------------------------------------------------------------
(* No wake-up is lost.                                                     *)

LEMMA PushAwakes ==
    ASSUME TypeOK, AsleepHasNothing, NEW t \in Tasks, NEW m, Push(t, m)
    PROVE  AsleepHasNothing'
<1>. ThreadOK /\ QueueOK
  BY TypeParts
<1>. SUFFICES ASSUME NEW u \in Tasks, thread'[u] = "asleep" PROVE queue'[u] = <<>>
  BY DEF AsleepHasNothing
<1>1. thread'[t] # "asleep"
  BY DEF Push, Wake, ThreadOK
<1>2. u # t
  BY <1>1
<1>3. thread[u] = "asleep"
  BY <1>2 DEF Push, Wake, ThreadOK
<1>4. queue'[u] = queue[u]
  BY <1>2 DEF Push, QueueOK
<1>. QED  BY <1>3, <1>4 DEF AsleepHasNothing

\* A step that puts nothing into a queue and no thread to sleep.
LEMMA AsleepFrame ==
    ASSUME AsleepHasNothing, UNCHANGED queue,
           \A u \in Tasks : thread'[u] = "asleep" => thread[u] = "asleep"
    PROVE  AsleepHasNothing'
  BY DEF AsleepHasNothing

\* In no state is a task asleep in receive_msg while its queue holds a message,
\* however many threads send to it (send_msg, receive_msg).
THEOREM AsleepHasNothingAlways == Spec => []AsleepHasNothing
<1>1. Init => AsleepHasNothing
  BY DEF Init, AsleepHasNothing
<1>2. TypeOK /\ AsleepHasNothing /\ [Next]_vars => AsleepHasNothing'
  <2>. SUFFICES ASSUME TypeOK, AsleepHasNothing, [Next]_vars PROVE AsleepHasNothing'
    OBVIOUS
  <2>. /\ MainOK /\ ThreadOK /\ QueueOK /\ SendersOK
    BY TypeParts
  <2>1. CASE NewContext \/ CreateReturned \/ AssignInstance \/ SetTimer \/ AssignApp \/ Join
             \/ DeleteApp \/ StopServers \/ Free \/ Signal
    <3>1. UNCHANGED <<queue, thread>>
      BY <2>1 DEF NewContext, CreateReturned, AssignInstance, SetTimer, AssignApp, Join, DeleteApp,
                  StopServers, Free, Signal, tasks
    <3>. QED  BY <3>1, AsleepFrame
  <2>2. CASE StartThread
    <3>1. \A u \in Tasks : thread'[u] = "asleep" => thread[u] = "asleep"
      BY <2>2 DEF StartThread, ThreadOK
    <3>2. UNCHANGED queue
      BY <2>2 DEF StartThread
    <3>. QED  BY <3>1, <3>2, AsleepFrame
  <2>3. CASE Broadcast
    <3>1. CASE i <= Len(IdOrder) /\ state[IdOrder[i]] = "READY"
      <4>1. IdOrder[i] \in Tasks
        BY <3>1, Orders DEF MainOK
      <4>2. Push(IdOrder[i], Terminate)
        BY <2>3, <3>1 DEF Broadcast, PushTerminate
      <4>. QED  BY <4>1, <4>2, PushAwakes
    <3>2. CASE ~ (i <= Len(IdOrder) /\ state[IdOrder[i]] = "READY")
      <4>1. UNCHANGED <<queue, thread>>
        BY <2>3, <3>2 DEF Broadcast
      <4>. QED  BY <4>1, AsleepFrame
    <3>. QED  BY <3>1, <3>2
  <2>4. ASSUME NEW s \in Senders, SendPush(s) PROVE AsleepHasNothing'
    <3>1. sending[s] # None /\ sending[s] \in Msgs \X Tasks
      BY <2>4 DEF SendPush, SendersOK
    <3>2. sending[s][2] \in Tasks
      BY <3>1
    <3>3. Push(sending[s][2], sending[s][1])
      BY <2>4 DEF SendPush
    <3>. QED  BY <3>2, <3>3, PushAwakes
  <2>5. ASSUME NEW s \in Senders,
               CallIntoFreed(s) \/ \E d \in Tasks, m \in Msgs : SendTest(s, d, m)
        PROVE  AsleepHasNothing'
    <3>1. UNCHANGED <<queue, thread>>
      BY <2>5 DEF CallIntoFreed, SendTest, tasks
    <3>. QED  BY <3>1, AsleepFrame
  <2>6. ASSUME NEW t \in Tasks, Receive(t) PROVE AsleepHasNothing'
    BY <2>6 DEF Receive, AsleepHasNothing, ThreadOK, QueueOK
  <2>7. ASSUME NEW t \in Tasks,
               NotifyReady(t) \/ Handled(t) \/ Blocked(t) \/ NullInstance(t) \/ SpuriousWakeUp(t)
        PROVE  AsleepHasNothing'
    <3>1. UNCHANGED queue
      BY <2>7 DEF NotifyReady, Handled, Blocked, NullInstance, SpuriousWakeUp, tasks
    <3>2. \A u \in Tasks : thread'[u] = "asleep" => thread[u] = "asleep"
      BY <2>7 DEF NotifyReady, Handled, Blocked, NullInstance, SpuriousWakeUp, tasks, ThreadOK
    <3>. QED  BY <3>1, <3>2, AsleepFrame
  <2>8. CASE UNCHANGED vars
    BY <2>8, AsleepFrame DEF vars
  <2>. QED  BY <2>1, <2>2, <2>3, <2>4, <2>5, <2>6, <2>7, <2>8 DEF Next, Main, Sending, Task
<1>. QED  BY <1>1, <1>2, TypeCorrect, PTL DEF Spec

-----------------------------------------------------------------------------
(* The instances outlive the tasks.                                        *)

\* Which instances are assigned, by the place the main thread has reached.
AssignInv ==
    /\ started => pc \notin Creating
    /\ pc \in Creating =>
          \A k \in 1..Len(CreationOrder) :
             k < i \/ pc = "finish" => CreationOrder[k] \in instance \cup {App}
    /\ started /\ pc \in {"run", "broadcast", "join", "delete"} => Tasks \subseteq instance

\* Which threads have returned, or were never started.
Over(t) == thread[t] \in {"none", "returned"}
JoinInv ==
    /\ pc = "join" => \A k \in 1..Len(IdOrder) : k < i => Over(IdOrder[k])
    /\ pc \in {"delete", "servers", "free", "freed", "stuck", "exit"} => \A t \in Tasks : Over(t)

\* The inductive invariant.
IInv == TypeOK /\ StartInv /\ AssignInv /\ JoinInv /\ InstancesOutliveTasks

LEMMA InitIInv == Init => IInv
<1>. SUFFICES ASSUME Init PROVE IInv
  OBVIOUS
<1>1. AssignInv
  BY Orders DEF Init, AssignInv, Creating
<1>2. JoinInv /\ InstancesOutliveTasks
  BY DEF Init, JoinInv, InstancesOutliveTasks
<1>. QED  BY <1>1, <1>2, InitTypeOK, InitStartInv DEF IInv

\* What a thread does when it is over: nothing.
LEMMA OverStays ==
    ASSUME TypeOK, NEW u \in Tasks, Over(u), [Next]_vars, pc # "thread"
    PROVE  Over(u)'
<1>. /\ MainOK /\ ThreadOK /\ SendersOK
  BY TypeParts
<1>. thread[u] \in {"none", "returned"}
  BY DEF Over
<1>1. CASE Main \/ Signal
  <2>1. CASE Broadcast /\ i <= Len(IdOrder) /\ state[IdOrder[i]] = "READY"
    <3>1. IdOrder[i] \in Tasks
      BY <2>1, Orders DEF MainOK
    <3>2. Push(IdOrder[i], Terminate)
      BY <2>1 DEF Broadcast, PushTerminate
    <3>. QED  BY <3>1, <3>2 DEF Push, Wake, ThreadOK, Over
  <2>2. CASE ~ (Broadcast /\ i <= Len(IdOrder) /\ state[IdOrder[i]] = "READY")
    <3>1. UNCHANGED thread
      BY <1>1, <2>2 DEF Main, NewContext, StartThread, CreateReturned, AssignInstance,
         SetTimer, AssignApp, Broadcast, Join, DeleteApp, StopServers, Free, Signal, tasks
    <3>. QED  BY <3>1 DEF Over
  <2>. QED  BY <2>1, <2>2
<1>2. ASSUME NEW s \in Senders, SendPush(s) PROVE Over(u)'
  <2>1. Push(sending[s][2], sending[s][1])
    BY <1>2 DEF SendPush
  <2>. QED  BY <2>1 DEF Push, Wake, ThreadOK, Over
<1>3. ASSUME NEW s \in Senders,
             CallIntoFreed(s) \/ \E d \in Tasks, m \in Msgs : SendTest(s, d, m)
      PROVE  Over(u)'
  BY <1>3 DEF CallIntoFreed, SendTest, tasks, Over
<1>4. ASSUME NEW t \in Tasks, Task(t) \/ SpuriousWakeUp(t) PROVE Over(u)'
  <2>1. CASE t = u
    BY <1>4, <2>1 DEF Task, NotifyReady, Receive, Handled, Blocked, NullInstance, SpuriousWakeUp,
                      tasks, ThreadOK, Over
  <2>2. CASE t # u
    BY <1>4, <2>2 DEF Task, NotifyReady, Receive, Handled, Blocked, NullInstance, SpuriousWakeUp,
                      tasks, ThreadOK, Over
  <2>. QED  BY <2>1, <2>2
<1>5. CASE UNCHANGED vars
  BY <1>5 DEF vars, Over
<1>. QED  BY <1>1, <1>2, <1>3, <1>4, <1>5 DEF Next, Sending

LEMMA AssignInvStep == IInv /\ [Next]_vars => AssignInv'
<1>. SUFFICES ASSUME IInv, [Next]_vars PROVE AssignInv'
  OBVIOUS
<1>. /\ TypeOK /\ StartInv /\ AssignInv /\ MainOK /\ SendersOK
  BY TypeParts DEF IInv
<1>. Len(CreationOrder) = Len(IdOrder) /\ Len(IdOrder) \in Nat /\ i \in Nat
  BY Lengths
<1>1. CASE NewContext
  BY <1>1 DEF NewContext, AssignInv, Creating
<1>2. CASE StartThread
  BY <1>2 DEF StartThread, AssignInv, Creating
<1>3. CASE CreateReturned
  BY <1>3 DEF CreateReturned, AssignInv, Creating
<1>4. CASE AssignInstance
  <2>1. i <= Len(CreationOrder)
    BY <1>4 DEF AssignInstance, StartInv, Creating
  <2>2. instance' = instance \cup ({CreationOrder[i]} \ {App}) /\ started' = started
    BY <1>4 DEF AssignInstance
  <2>3. \A k \in 1..Len(CreationOrder) :
           k < i \/ k = i => CreationOrder[k] \in instance' \cup {App}
    BY <1>4, <2>2 DEF AssignInstance, AssignInv, Creating
  <2>4. CASE i < Len(CreationOrder)
    BY SMTT(40), <1>4, <2>2, <2>3, <2>4 DEF AssignInstance, AssignInv, Creating
  <2>5. CASE i = Len(CreationOrder)
    BY <1>4, <2>2, <2>3, <2>5 DEF AssignInstance, AssignInv, Creating
  <2>. QED  BY <2>1, <2>4, <2>5
<1>5. CASE AssignApp
  <2>1. \A k \in 1..Len(CreationOrder) : CreationOrder[k] \in instance'
    BY SMTT(40), <1>5 DEF AssignApp, AssignInv, Creating
  <2>2. Tasks \subseteq instance'
    BY <2>1, Orders
  <2>. QED  BY <1>5, <2>2 DEF AssignApp, AssignInv, Creating
<1>13. CASE SetTimer
  BY <1>13 DEF SetTimer, AssignInv, Creating
<1>6. CASE Signal
  <2>1. CASE started
    <3>1. pc = "run"
      BY <1>6, <2>1 DEF Signal, AssignInv, MainOK
    <3>. QED  BY <1>6, <2>1, <3>1 DEF Signal, AssignInv, Creating
  <2>2. CASE ~started
    BY <1>6, <2>2 DEF Signal, AssignInv, Creating
  <2>. QED  BY <2>1, <2>2
<1>7. CASE Broadcast
  BY <1>7 DEF Broadcast, AssignInv, Creating
<1>8. CASE Join
  BY <1>8 DEF Join, AssignInv, Creating
<1>9. CASE DeleteApp \/ StopServers \/ Free
  BY <1>9 DEF DeleteApp, StopServers, Free, AssignInv, Creating
<1>10. CASE Sending
  <2>1. UNCHANGED <<pc, i, started, instance>>
    BY <1>10 DEF Sending, SendPush, CallIntoFreed, SendTest, main
  <2>. QED  BY <2>1 DEF AssignInv
<1>11. CASE \E t \in Tasks : Task(t) \/ SpuriousWakeUp(t)
  <2>1. UNCHANGED <<pc, i, started, instance>>
    BY <1>11 DEF Task, NotifyReady, Receive, Handled, Blocked, NullInstance, SpuriousWakeUp, main
  <2>. QED  BY <2>1 DEF AssignInv
<1>12. CASE UNCHANGED vars
  BY <1>12 DEF vars, AssignInv
<1>. QED  BY <1>1, <1>2, <1>3, <1>4, <1>5, <1>6, <1>7, <1>8, <1>9, <1>10, <1>11, <1>12,
             <1>13 DEF Next, Main

LEMMA JoinInvStep == IInv /\ [Next]_vars => JoinInv'
<1>. SUFFICES ASSUME IInv, [Next]_vars PROVE JoinInv'
  OBVIOUS
<1>. /\ TypeOK /\ JoinInv /\ MainOK /\ ThreadOK
  BY TypeParts DEF IInv
<1>. Len(IdOrder) \in Nat /\ i \in Nat /\ i <= Len(IdOrder) + 1
  BY Lengths
<1>1. pc # "thread" => \A u \in Tasks : Over(u) => Over(u)'
  BY OverStays
<1>2. \A k \in 1..Len(IdOrder) : IdOrder[k] \in Tasks
  BY Orders
<1>3. CASE NewContext \/ StartThread \/ CreateReturned \/ AssignInstance \/ SetTimer \/ AssignApp
             \/ Signal
  <2>1. pc' \in {"context", "thread", "poll", "assign", "finish", "run", "broadcast"}
    BY <1>3 DEF NewContext, StartThread, CreateReturned, AssignInstance, SetTimer, AssignApp, Signal
  <2>. QED  BY <2>1 DEF JoinInv
<1>4. CASE Broadcast
  <2>1. pc' = "broadcast" \/ (pc' = "join" /\ i' = 1)
    BY <1>4 DEF Broadcast
  <2>. QED  BY <2>1 DEF JoinInv
<1>5. CASE Join
  <2>1. UNCHANGED thread
    BY <1>5 DEF Join
  <2>2. \A k \in 1..Len(IdOrder) : k < i => Over(IdOrder[k])
    BY <1>5 DEF Join, JoinInv
  <2>3. CASE i <= Len(IdOrder)
    <3>1. Over(IdOrder[i])
      BY <1>5, <2>3, <1>2 DEF Join, Joined, Over
    <3>2. pc' = "join" /\ i' = i + 1
      BY <1>5, <2>3 DEF Join
    <3>3. \A k \in 1..Len(IdOrder) : k < i' => Over(IdOrder[k])'
      BY <2>1, <2>2, <3>1, <3>2 DEF Over
    <3>. QED  BY <3>2, <3>3 DEF JoinInv
  <2>4. CASE ~ (i <= Len(IdOrder))
    <3>1. \A k \in 1..Len(IdOrder) : Over(IdOrder[k])
      BY <2>2, <2>4
    <3>2. \A t \in Tasks : Over(t)
      BY <3>1, Orders
    <3>3. pc' = "delete"
      BY <1>5, <2>4 DEF Join
    <3>. QED  BY <2>1, <3>2, <3>3 DEF JoinInv, Over
  <2>. QED  BY <2>3, <2>4
<1>6. CASE DeleteApp \/ StopServers \/ Free
  <2>1. /\ pc' \in {"delete", "servers", "free", "freed", "stuck", "exit"}
        /\ pc \in {"delete", "servers", "free", "freed", "stuck", "exit"}
    BY <1>6 DEF DeleteApp, StopServers, Free
  <2>2. \A t \in Tasks : Over(t)'
    BY <1>1, <2>1 DEF JoinInv
  <2>. QED  BY <2>1, <2>2 DEF JoinInv
<1>7. CASE UNCHANGED <<pc, i>>
  <2>1. CASE pc = "join"
    <3>1. \A k \in 1..Len(IdOrder) : k < i => Over(IdOrder[k])'
      BY <1>1, <1>2, <2>1 DEF JoinInv
    <3>. QED  BY <1>7, <2>1, <3>1 DEF JoinInv
  <2>2. CASE pc \in {"delete", "servers", "free", "freed", "stuck", "exit"}
    <3>1. \A t \in Tasks : Over(t)'
      BY <1>1, <2>2 DEF JoinInv
    <3>. QED  BY <1>7, <2>2, <3>1 DEF JoinInv
  <2>3. CASE pc \notin {"join", "delete", "servers", "free", "freed", "stuck", "exit"}
    BY <1>7, <2>3 DEF JoinInv
  <2>. QED  BY <2>1, <2>2, <2>3
<1>8. CASE Sending \/ (\E t \in Tasks : Task(t) \/ SpuriousWakeUp(t)) \/ UNCHANGED vars
  <2>1. UNCHANGED <<pc, i>>
    BY <1>8 DEF Sending, SendPush, CallIntoFreed, SendTest, Task, NotifyReady, Receive,
                Handled, Blocked, NullInstance, SpuriousWakeUp, main, vars
  <2>. QED  BY <1>7, <2>1
<1>. QED  BY <1>3, <1>4, <1>5, <1>6, <1>8 DEF Next, Main

LEMMA OutliveStep == IInv /\ [Next]_vars => InstancesOutliveTasks'
<1>. SUFFICES ASSUME IInv, [Next]_vars, started' = TRUE PROVE dead' \notin Tasks
  BY DEF InstancesOutliveTasks, IInv, TypeOK
<1>. /\ TypeOK /\ AssignInv /\ JoinInv /\ InstancesOutliveTasks /\ MainOK /\ ThreadOK
  BY TypeParts DEF IInv
<1>1. Next => dead = None
  BY DEF Next, Alive
<1>2. ASSUME NEW s \in Senders, CallIntoFreed(s) PROVE dead' \notin Tasks
  BY <1>2, Names DEF CallIntoFreed
<1>3. ASSUME NEW t \in Tasks, NullInstance(t) PROVE FALSE
  <2>1. started /\ thread[t] = "handling" /\ \E used \in Uses(t) : ~(used \subseteq instance)
    BY <1>3 DEF NullInstance, main
  <2>2. pc \notin {"delete", "servers", "free", "freed", "stuck", "exit"}
    BY <2>1 DEF JoinInv, Over
  <2>3. pc \in {"run", "broadcast", "join"}
    BY <2>1, <2>2 DEF AssignInv, MainOK, Stopping
  <2>4. Tasks \subseteq instance
    BY <2>1, <2>3 DEF AssignInv
  <2>. QED  BY <2>1, <2>4, Names DEF Uses
<1>4. CASE Next /\ dead' = dead
  BY <1>1, <1>4, Names
<1>5. CASE UNCHANGED vars
  BY <1>5 DEF vars, InstancesOutliveTasks
<1>6. Next => \/ dead' = dead
              \/ \E s \in Senders : CallIntoFreed(s)
              \/ \E t \in Tasks : NullInstance(t)
  BY ZenonT(40) DEF Next, Main, NewContext, StartThread, CreateReturned, AssignInstance, SetTimer, AssignApp,
         Broadcast, Join, DeleteApp, StopServers, Free, Signal, Sending, SendPush, SendTest, Task,
         NotifyReady, Receive, Handled, Blocked, SpuriousWakeUp
<1>. QED  BY <1>2, <1>3, <1>4, <1>5, <1>6

\* Once start-up has completed no task calls through a null instance, at no
\* point of a shutdown and for any order of the tasks (amf_signal_handler joins
\* the tasks before it deletes amf_app_inst).
THEOREM InstancesOutliveTasksAlways == Spec => []InstancesOutliveTasks
<1>1. IInv /\ [Next]_vars => IInv'
  <2>1. IInv /\ [Next]_vars => TypeOK' /\ StartInv'
    <3>. SUFFICES ASSUME IInv, [Next]_vars PROVE TypeOK'
      BY StartInvStep DEF IInv
    <3>. QED  BY TypeStep DEF IInv
  <2>. QED  BY <2>1, AssignInvStep, JoinInvStep, OutliveStep DEF IInv
<1>2. IInv => InstancesOutliveTasks
  BY DEF IInv
<1>. QED  BY <1>1, <1>2, InitIInv, PTL DEF Spec
=============================================================================
