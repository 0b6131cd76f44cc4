-------------------------- MODULE IttiTimersProofs --------------------------
(***************************************************************************)
(* Proofs about IttiTimers, for every number of tasks, timers and instants: *)
(* a timer is in one place at a time, a removal that comes in time cancels  *)
(* it, and the timers of itti_mw implement TimerService.                    *)
(***************************************************************************)
EXTENDS IttiTimers, FiniteSetTheorems, TLAPS

-----------------------------------------------------------------------------
(* The inductive invariant.                                                *)

Calling == {x \in Clients : client[x].at # "idle"}

\* Calls of timer_setup that began and calls that returned stay within the bound.
SetupBound == nSetup + Cardinality(Calling) <= MaxSetups

\* Every timer that is anywhere was made by a call that returned.
OnlyMadeTimers ==
    /\ timers \subseteq 1..nSetup
    /\ current \in 0..nSetup /\ msg.arg \in 0..nSetup
    /\ \A k \in 1..Len(delivered) : delivered[k] \in 1..nSetup

\* No timer has the id of null_timer.
IdsNotNull ==
    /\ \A h \in 1..nSetup : id[h] # 0
    /\ \A c \in Clients : client[c].at # "idle" => client[c].id # 0

\* What timer_manager_task knows of current_timer at each of its points, if no
\* timer_remove took it away.
ThreadKnows ==
    /\ pc \in {"waiting", "notified"} /\ current # 0 => deadline = due[current]
    /\ pc \in {"due", "read"} /\ current # 0 => due[current] <= now
    /\ pc = "built" /\ msg.arg # 0 => due[msg.arg] <= now
    /\ pc = "built" /\ current # 0 => current = msg.arg
    /\ pc \in {"top", "idle", "stopped"} /\ current # 0
          => \E k \in 1..Len(delivered) : delivered[k] = current

IInv == SetupBound /\ OnlyMadeTimers /\ IdsNotNull /\ ThreadKnows /\ PlacesAreDisjoint

LEMMA InitTypeOK == Init => TypeOK
<1>. SUFFICES ASSUME Init PROVE TypeOK
  OBVIOUS
<1>1. 0 \in 0..MaxTime /\ 0 \in 0..MaxSetups /\ 0 \in 0..Never
  BY TimerConstants DEF TimerConstants, Never
<1>2. client \in [Clients -> [at : {"idle", "loaded", "made"}, id : Nat, due : 0..MaxTime]]
  BY <1>1 DEF Init, NoCall
<1>3. id \in [Timers -> Nat] /\ due \in [Timers -> 0..MaxTime]
  BY <1>1 DEF Init
<1>4. msg \in [task : 0..MaxSetups, arg : 0..MaxSetups]
  BY <1>1 DEF Init, NoMsg
<1>5. delivered \in Seq(Timers) /\ timers \subseteq Timers
  BY DEF Init
<1>. QED
  BY <1>1, <1>2, <1>3, <1>4, <1>5, Zenon DEF Init, TypeOK

LEMMA InitIInv == Init => IInv
<1>. SUFFICES ASSUME Init PROVE IInv
  OBVIOUS
<1>1. SetupBound
  <2>1. Calling = {}
    BY DEF Init, Calling, NoCall
  <2>. QED  BY <2>1, FS_EmptySet, TimerConstants DEF Init, SetupBound, TimerConstants
<1>2. OnlyMadeTimers /\ IdsNotNull /\ ThreadKnows /\ PlacesAreDisjoint
  BY DEF Init, OnlyMadeTimers, IdsNotNull, ThreadKnows, PlacesAreDisjoint, Held,
     Pending, NoMsg, NoCall
<1>. QED  BY <1>1, <1>2 DEF IInv

-----------------------------------------------------------------------------
(* The bound on timer_setup.                                               *)

\* A call in progress has a number left for its timer.
LEMMA RoomForCall ==
    ASSUME TypeOK, SetupBound, NEW c \in Clients, client[c].at # "idle"
    PROVE  nSetup + 1 \in 1..MaxSetups
<1>1. IsFiniteSet(Calling)
  BY FS_Subset, TimerConstants DEF Calling, TimerConstants
<1>2. Cardinality(Calling) \in Nat /\ Cardinality(Calling) # 0
  BY <1>1, FS_CardinalityType, FS_EmptySet DEF Calling
<1>. QED  BY <1>2, TimerConstants DEF SetupBound, TypeOK, TimerConstants

\* Who is calling changes with LoadId and Insert only.
LEMMA CallingSteps ==
    ASSUME TypeOK, NEW c \in Clients
    PROVE  /\ LoadId(c) => Calling' = Calling \cup {c} /\ c \notin Calling
           /\ Insert(c) => Calling' = Calling \ {c} /\ c \in Calling
           /\ \A d \in Delays : StoreId(c, d) => Calling' = Calling
<1>. client \in [Clients -> [at : {"idle", "loaded", "made"}, id : Nat, due : 0..MaxTime]]
  BY DEF TypeOK
<1>1. ASSUME LoadId(c) PROVE Calling' = Calling \cup {c} /\ c \notin Calling
  BY <1>1 DEF Calling, LoadId
<1>2. ASSUME Insert(c) PROVE Calling' = Calling \ {c} /\ c \in Calling
  BY <1>2 DEF Calling, Insert, NoCall
<1>3. ASSUME NEW d \in Delays, StoreId(c, d) PROVE Calling' = Calling
  <2>1. client'[c].at = "made" /\ \A x \in Clients \ {c} : client'[x] = client[x]
    BY <1>3 DEF StoreId
  <2>. QED  BY <1>3, <2>1 DEF Calling, StoreId
<1>. QED  BY <1>1, <1>2, <1>3

LEMMA StepBound == TypeOK /\ SetupBound /\ [Next]_vars => SetupBound'
<1>. SUFFICES ASSUME TypeOK, SetupBound, [Next]_vars PROVE SetupBound'
  OBVIOUS
<1>1. IsFiniteSet(Calling) /\ Cardinality(Calling) \in Nat
  BY FS_Subset, FS_CardinalityType, TimerConstants DEF Calling, TimerConstants
<1>2. CASE UNCHANGED taskVars
  BY <1>2 DEF taskVars, SetupBound, Calling
<1>3. ASSUME NEW c \in Clients, LoadId(c) PROVE SetupBound'
  <2>1. Cardinality(Calling') = Cardinality(Calling) + 1
    BY <1>1, <1>3, CallingSteps, FS_AddElement
  <2>2. nSetup + Cardinality(Calling) < MaxSetups /\ nSetup' = nSetup
    BY <1>3 DEF LoadId, Calling
  <2>. QED  BY SMTT(40), <1>1, <2>1, <2>2, TimerConstants DEF SetupBound, TypeOK, TimerConstants
<1>4. ASSUME NEW c \in Clients, Insert(c) PROVE SetupBound'
  <2>1. Cardinality(Calling') = Cardinality(Calling) - 1
    BY <1>1, <1>4, CallingSteps, FS_RemoveElement
  <2>2. nSetup' = nSetup + 1
    BY <1>4 DEF Insert
  <2>. QED  BY <1>1, <2>1, <2>2, TimerConstants DEF SetupBound, TypeOK, TimerConstants
<1>5. ASSUME NEW c \in Clients, NEW d \in Delays, StoreId(c, d) PROVE SetupBound'
  <2>1. Calling' = Calling /\ nSetup' = nSetup
    BY <1>5, CallingSteps DEF StoreId
  <2>. QED  BY <2>1 DEF SetupBound
<1>. QED
  BY <1>2, <1>3, <1>4, <1>5 DEF Next, TaskStep, TimerRemove, ManagerStep, ManagerOnly,
     Tick, SendTerminateMsg, SpuriousWakeup, LoopTop, Take, Check, WaitTimeout,
     PutBack, ReadTask, ReadArgs, Send, vars

-----------------------------------------------------------------------------
(* Type correctness.                                                       *)

LEMMA TaskStepType ==
    ASSUME TypeOK, SetupBound, NEW c \in Clients, TaskStep(c)
    PROVE  TypeOK'
<1>1. CASE LoadId(c)
  <2>1. timerId + 1 \in Nat /\ 0 \in 0..MaxTime
    BY TimerConstants DEF TypeOK, TimerConstants
  <2>2. client' \in [Clients -> [at : {"idle", "loaded", "made"}, id : Nat, due : 0..MaxTime]]
    BY <1>1, <2>1 DEF LoadId, TypeOK
  <2>. QED  BY <1>1, <2>2 DEF LoadId, TypeOK, mgrVars, outVars
<1>2. CASE Insert(c)
  <2>1. nSetup + 1 \in 1..MaxSetups
    BY <1>2, RoomForCall DEF Insert
  <2>2. client[c].id \in Nat /\ client[c].due \in 0..MaxTime
    BY DEF TypeOK
  <2>3. /\ timers' \subseteq Timers /\ nSetup' \in 0..MaxSetups
        /\ pc' \in {"top", "idle", "taken", "waiting", "notified", "due", "read", "built",
                    "stopped"}
    BY <1>2, <2>1, TimerConstants DEF Insert, Inserted, Notified, TypeOK, Timers, TimerConstants
  <2>4. id' \in [Timers -> Nat] /\ due' \in [Timers -> 0..MaxTime]
    BY <1>2, <2>1, <2>2 DEF Insert, TypeOK
  <2>5. client' \in [Clients -> [at : {"idle", "loaded", "made"}, id : Nat, due : 0..MaxTime]]
    BY <1>2, TimerConstants DEF Insert, TypeOK, NoCall, TimerConstants
  <2>. QED  BY <1>2, <2>3, <2>4, <2>5 DEF Insert, TypeOK, outVars
<1>3. ASSUME NEW d \in Delays, StoreId(c, d) PROVE TypeOK'
  <2>1. now + d \in 0..MaxTime
    BY SMTT(40), <1>3, TimerConstants DEF StoreId, TypeOK, TimerConstants
  <2>2. client' \in [Clients -> [at : {"idle", "loaded", "made"}, id : Nat, due : 0..MaxTime]]
    BY <1>3, <2>1 DEF StoreId, TypeOK
  <2>3. timerId' \in Nat
    BY <1>3 DEF StoreId, TypeOK
  <2>. QED  BY <1>3, <2>2, <2>3 DEF StoreId, TypeOK, mgrVars, outVars
<1>4. ASSUME NEW i, TimerRemove(c, i) PROVE TypeOK'
  <2>1. timers' \subseteq Timers
    BY <1>4 DEF TimerRemove, TypeOK
  <2>2. current' \in 0..MaxSetups
    BY <1>4, TimerConstants DEF TimerRemove, TypeOK, TimerConstants
  <2>3. pc' \in {"top", "idle", "taken", "waiting", "notified", "due", "read", "built", "stopped"}
    BY <1>4 DEF TimerRemove, Notified, TypeOK
  <2>. QED  BY <1>4, <2>1, <2>2, <2>3 DEF TimerRemove, TypeOK, taskVars, outVars
<1>. QED  BY <1>1, <1>2, <1>3, <1>4 DEF TaskStep

LEMMA ManagerStepType ==
    ASSUME TypeOK, ManagerStep \/ SpuriousWakeup
    PROVE  TypeOK'
<1>. USE DEF TypeOK, ManagerOnly, taskVars, outVars
<1>1. CASE LoopTop
  BY <1>1 DEF LoopTop
<1>2. CASE Take
  BY <1>2 DEF Take, Earliest, Timers
<1>3. CASE Check
  <2>1. current # 0 => current \in Timers
    BY TimerConstants DEF Timers, TimerConstants
  <2>2. DueOf(current) \in 0..Never
    BY <2>1, TimerConstants DEF DueOf, Never, TimerConstants
  <2>. QED  BY <1>3, <2>2 DEF Check
<1>4. CASE WaitTimeout
  BY <1>4 DEF WaitTimeout
<1>5. CASE PutBack
  BY <1>5, TimerConstants DEF PutBack, Inserted, Timers, TimerConstants
<1>6. CASE ReadTask
  BY <1>6, TimerConstants DEF ReadTask, TimerConstants
<1>7. CASE ReadArgs
  BY <1>7 DEF ReadArgs
<1>8. CASE Send
  <2>1. msg.arg # 0 => msg.arg \in Timers
    BY TimerConstants DEF Timers, TimerConstants
  <2>2. delivered' \in Seq(Timers)
    BY <1>8, <2>1 DEF Send
  <2>3. msg' \in [task : 0..MaxSetups, arg : 0..MaxSetups] /\ torn' \in Nat
    BY <1>8, TimerConstants DEF Send, NoMsg, TimerConstants
  <2>. QED  BY <1>8, <2>2, <2>3 DEF Send
<1>9. CASE SpuriousWakeup
  BY <1>9 DEF SpuriousWakeup
<1>. QED
  BY <1>1, <1>2, <1>3, <1>4, <1>5, <1>6, <1>7, <1>8, <1>9 DEF ManagerStep

LEMMA StepType == TypeOK /\ SetupBound /\ [Next]_vars => TypeOK'
<1>. SUFFICES ASSUME TypeOK, SetupBound, [Next]_vars PROVE TypeOK'
  OBVIOUS
<1>1. CASE Tick
  BY <1>1, TimerConstants DEF Tick, TypeOK, mgrVars, taskVars, outVars, TimerConstants
<1>2. CASE SendTerminateMsg
  BY <1>2 DEF SendTerminateMsg, TypeOK, mgrVars, taskVars, outVars
<1>3. CASE UNCHANGED vars
  BY <1>3 DEF vars, TypeOK, mgrVars, taskVars, outVars
<1>. QED  BY <1>1, <1>2, <1>3, TaskStepType, ManagerStepType DEF Next

-----------------------------------------------------------------------------
(* Every timer that is anywhere was made by a call that returned.          *)

\* What Send appends to the list of reports.
LEMMA Report ==
    ASSUME TypeOK, Send
    PROVE  /\ msg.arg # 0 =>
                 /\ Len(delivered') = Len(delivered) + 1
                 /\ \A k \in 1..Len(delivered) : delivered'[k] = delivered[k]
                 /\ delivered'[Len(delivered')] = msg.arg
           /\ msg.arg = 0 => delivered' = delivered
           /\ Len(delivered) \in Nat
<1>1. msg.arg # 0 => msg.arg \in Timers
  BY TimerConstants DEF TypeOK, Timers, TimerConstants
<1>2. delivered \in Seq(Timers)
  BY DEF TypeOK
<1>. QED  BY <1>1, <1>2 DEF Send

\* What Insert does to the timers made so far, and to the one it makes.
LEMMA Made ==
    ASSUME TypeOK, SetupBound, NEW c \in Clients, Insert(c)
    PROVE  /\ nSetup' = nSetup + 1 /\ nSetup \in Nat /\ nSetup + 1 \in Timers
           /\ \A h \in 1..nSetup : id'[h] = id[h] /\ due'[h] = due[h]
           /\ id'[nSetup + 1] = client[c].id /\ due'[nSetup + 1] = client[c].due
           /\ timers' \subseteq timers \cup {nSetup + 1}
<1>1. nSetup + 1 \in 1..MaxSetups /\ nSetup \in Nat
  BY SMTT(40), RoomForCall DEF Insert, TypeOK
<1>2. \A h \in 1..nSetup : h \in Timers /\ h # nSetup + 1
  BY <1>1, TimerConstants DEF Timers, TimerConstants
<1>3. id \in [Timers -> Nat] /\ due \in [Timers -> 0..MaxTime]
  BY DEF TypeOK
<1>. QED  BY <1>1, <1>2, <1>3 DEF Insert, Inserted, Timers

LEMMA StepMade ==
    TypeOK /\ SetupBound /\ OnlyMadeTimers /\ [Next]_vars => OnlyMadeTimers'
<1>. SUFFICES ASSUME TypeOK, SetupBound, OnlyMadeTimers, [Next]_vars PROVE OnlyMadeTimers'
  OBVIOUS
<1>. nSetup \in Nat
  BY DEF TypeOK
<1>1. ASSUME NEW c \in Clients, Insert(c) PROVE OnlyMadeTimers'
  <2>1. nSetup' = nSetup + 1 /\ timers' \subseteq timers \cup {nSetup + 1}
    BY <1>1, Made
  <2>2. UNCHANGED <<current, msg, delivered>>
    BY <1>1 DEF Insert, outVars
  <2>3. timers' \subseteq 1..nSetup'
    BY <2>1 DEF OnlyMadeTimers
  <2>. QED  BY <2>1, <2>2, <2>3 DEF OnlyMadeTimers
<1>2. ASSUME NEW c \in Clients, NEW i, TimerRemove(c, i) PROVE OnlyMadeTimers'
  <2>1. UNCHANGED <<nSetup, msg, delivered>>
    BY <1>2 DEF TimerRemove, taskVars, outVars
  <2>2. timers' \subseteq timers /\ (current' = 0 \/ current' = current)
    BY <1>2 DEF TimerRemove
  <2>. QED  BY <2>1, <2>2 DEF OnlyMadeTimers
<1>3. ASSUME NEW c \in Clients, LoadId(c) \/ \E d \in Delays : StoreId(c, d)
      PROVE OnlyMadeTimers'
  BY <1>3 DEF LoadId, StoreId, OnlyMadeTimers, mgrVars, outVars
<1>4. CASE Take
  BY <1>4 DEF Take, Earliest, OnlyMadeTimers, ManagerOnly, taskVars, outVars
<1>5. CASE PutBack
  <2>1. timers' \subseteq 1..nSetup
    BY <1>5 DEF PutBack, Inserted, OnlyMadeTimers
  <2>. QED  BY <1>5, <2>1 DEF PutBack, OnlyMadeTimers, ManagerOnly, taskVars, outVars
<1>6. CASE ReadTask \/ ReadArgs
  BY <1>6 DEF ReadTask, ReadArgs, OnlyMadeTimers, ManagerOnly, TypeOK, taskVars, outVars
<1>7. CASE Send
  <2>1. \A k \in 1..Len(delivered') : delivered'[k] \in 1..nSetup
    BY <1>7, Report DEF OnlyMadeTimers
  <2>. QED  BY <1>7, <2>1 DEF Send, OnlyMadeTimers, ManagerOnly, taskVars, NoMsg
<1>8. CASE \/ Tick \/ SendTerminateMsg \/ SpuriousWakeup \/ LoopTop \/ Check \/ WaitTimeout
           \/ UNCHANGED vars
  BY <1>8 DEF Tick, SendTerminateMsg, SpuriousWakeup, LoopTop, Check, WaitTimeout, vars,
     OnlyMadeTimers, ManagerOnly, mgrVars, taskVars, outVars
<1>. QED
  BY <1>1, <1>2, <1>3, <1>4, <1>5, <1>6, <1>7, <1>8 DEF Next, TaskStep, ManagerStep

\* Only timer_setup touches the ids.
LEMMA StepIds == TypeOK /\ SetupBound /\ IdsNotNull /\ [Next]_vars => IdsNotNull'
<1>. SUFFICES ASSUME TypeOK, SetupBound, IdsNotNull, [Next]_vars PROVE IdsNotNull'
  OBVIOUS
<1>. client \in [Clients -> [at : {"idle", "loaded", "made"}, id : Nat, due : 0..MaxTime]]
  BY DEF TypeOK
<1>1. ASSUME NEW c \in Clients, Insert(c) PROVE IdsNotNull'
  <2>1. \A h \in 1..nSetup' : id'[h] # 0
    <3>1. client[c].id # 0
      BY <1>1 DEF IdsNotNull, Insert
    <3>2. \A h \in 1..nSetup' : h \in 1..nSetup \/ h = nSetup + 1
      BY <1>1, Made
    <3>. QED  BY <1>1, <3>1, <3>2, Made DEF IdsNotNull
  <2>2. \A x \in Clients : client'[x].at # "idle" => client'[x].id # 0
    BY <1>1 DEF IdsNotNull, Insert, NoCall
  <2>. QED  BY <2>1, <2>2 DEF IdsNotNull
<1>2. ASSUME NEW c \in Clients, LoadId(c) PROVE IdsNotNull'
  <2>1. timerId + 1 # 0
    BY DEF TypeOK
  <2>. QED  BY <1>2, <2>1 DEF IdsNotNull, LoadId
<1>3. ASSUME NEW c \in Clients, NEW d \in Delays, StoreId(c, d) PROVE IdsNotNull'
  <2>1. /\ \A x \in Clients \ {c} : client'[x] = client[x]
        /\ client'[c].id = client[c].id /\ client[c].at # "idle"
    BY <1>3 DEF StoreId
  <2>. QED  BY <1>3, <2>1 DEF IdsNotNull, StoreId
<1>4. CASE UNCHANGED taskVars
  BY <1>4 DEF IdsNotNull, taskVars
<1>. QED
  BY <1>1, <1>2, <1>3, <1>4 DEF Next, TaskStep, TimerRemove, ManagerStep, ManagerOnly,
     Tick, SendTerminateMsg, SpuriousWakeup, LoopTop, Take, Check, WaitTimeout,
     PutBack, ReadTask, ReadArgs, Send, vars

-----------------------------------------------------------------------------
(* What timer_manager_task knows of the timer it holds.                    *)

\* Steps of the tasks: the timer that the thread holds may go, but it does not change.
LEMMA TaskStepKnows ==
    ASSUME TypeOK, SetupBound, OnlyMadeTimers, ThreadKnows, NEW c \in Clients, TaskStep(c)
    PROVE  ThreadKnows'
<1>1. CASE LoadId(c) \/ \E d \in Delays : StoreId(c, d)
  BY <1>1 DEF LoadId, StoreId, ThreadKnows, mgrVars, outVars
<1>2. CASE Insert(c)
  <2>1. UNCHANGED <<now, current, deadline, msg, delivered>>
    BY <1>2 DEF Insert, outVars
  <2>2. pc' = pc \/ (pc = "waiting" /\ pc' = "notified")
    BY <1>2 DEF Insert, Notified
  <2>3. /\ current # 0 => due'[current] = due[current]
        /\ msg.arg # 0 => due'[msg.arg] = due[msg.arg]
    BY <1>2, Made DEF OnlyMadeTimers
  <2>. QED  BY <2>1, <2>2, <2>3 DEF ThreadKnows
<1>3. ASSUME NEW i, TimerRemove(c, i) PROVE ThreadKnows'
  <2>1. UNCHANGED <<now, due, deadline, msg, delivered>>
    BY <1>3 DEF TimerRemove, taskVars, outVars
  <2>2. \/ current' = 0 /\ (pc' = pc \/ (pc = "waiting" /\ pc' = "notified"))
        \/ current' = current /\ pc' = pc
    BY <1>3 DEF TimerRemove, Notified
  <2>. QED  BY <2>1, <2>2 DEF ThreadKnows
<1>. QED  BY <1>1, <1>2, <1>3 DEF TaskStep

LEMMA StepKnows ==
    TypeOK /\ SetupBound /\ OnlyMadeTimers /\ ThreadKnows /\ [Next]_vars => ThreadKnows'
<1>. SUFFICES ASSUME TypeOK, SetupBound, OnlyMadeTimers, ThreadKnows, [Next]_vars
              PROVE  ThreadKnows'
  OBVIOUS
<1>0. /\ current # 0 => due[current] \in 0..MaxTime
      /\ msg.arg # 0 => due[msg.arg] \in 0..MaxTime
      /\ now \in 0..MaxTime /\ deadline \in 0..Never
  <2>. current \in 0..MaxSetups /\ msg.arg \in 0..MaxSetups /\ due \in [Timers -> 0..MaxTime]
    BY DEF TypeOK
  <2>. QED  BY TimerConstants DEF TypeOK, Timers, TimerConstants
<1>1. CASE LoopTop \/ SendTerminateMsg \/ SpuriousWakeup \/ UNCHANGED vars
  BY <1>1 DEF LoopTop, SendTerminateMsg, SpuriousWakeup, vars, ThreadKnows, ManagerOnly,
     mgrVars, taskVars, outVars
<1>2. CASE Take
  BY <1>2 DEF Take, ThreadKnows
<1>3. CASE Check
  <2>1. pc = "taken" /\ UNCHANGED <<now, due, current, msg>>
    BY <1>3 DEF Check, ManagerOnly, taskVars
  <2>2. ~(DueOf(current) > now) => due[current] <= now /\ current # 0
    BY <1>0, TimerConstants DEF DueOf, Never, TimerConstants
  <2>. QED  BY <1>3, <2>1, <2>2 DEF Check, DueOf, ThreadKnows
<1>4. CASE WaitTimeout
  <2>1. UNCHANGED <<now, due, current, msg>> /\ pc' = "due" /\ now >= deadline
    BY <1>4 DEF WaitTimeout, ManagerOnly, taskVars
  <2>2. current # 0 => due[current] <= now
    BY <1>0, <1>4, <2>1 DEF WaitTimeout, ThreadKnows
  <2>. QED  BY <2>1, <2>2 DEF ThreadKnows
<1>5. CASE PutBack
  BY <1>5 DEF PutBack, ThreadKnows
<1>6. CASE ReadTask
  BY <1>6 DEF ReadTask, ThreadKnows, ManagerOnly, taskVars
<1>7. CASE ReadArgs
  <2>1. msg'.arg = current
    BY <1>7 DEF ReadArgs, TypeOK
  <2>. QED  BY <1>7, <2>1 DEF ReadArgs, ThreadKnows, ManagerOnly, taskVars
<1>8. CASE Send
  <2>1. UNCHANGED current /\ pc' = "top" /\ pc = "built"
    BY <1>8 DEF Send
  <2>2. current # 0 => \E k \in 1..Len(delivered') : delivered'[k] = current
    BY <1>8, <2>1, Report DEF ThreadKnows
  <2>. QED  BY <2>1, <2>2 DEF ThreadKnows
<1>9. CASE Tick
  <2>1. now' = now + 1 /\ UNCHANGED <<mgrVars, due, delivered>>
    BY <1>9 DEF Tick, taskVars, outVars
  <2>. QED  BY <1>0, <2>1 DEF ThreadKnows, mgrVars
<1>. QED
  BY <1>1, <1>2, <1>3, <1>4, <1>5, <1>6, <1>7, <1>8, <1>9, TaskStepKnows
  DEF Next, ManagerStep

-----------------------------------------------------------------------------
(* What each step does to the timers that are pending.                     *)

\* A step of the thread that only passes the timer it holds along.
LEMMA PassedAlong ==
    ASSUME TypeOK, OnlyMadeTimers,
           LoopTop \/ Take \/ Check \/ WaitTimeout \/ ReadTask \/ ReadArgs \/ SpuriousWakeup
    PROVE  /\ Pending' = Pending
           /\ Held' \cap timers' = {} \/ Held \cap timers # {}
           /\ UNCHANGED <<now, nSetup, id, due, delivered>>
<1>. USE DEF Pending, Held, ManagerOnly, taskVars, outVars
<1>1. CASE LoopTop \/ Check \/ WaitTimeout \/ ReadTask \/ SpuriousWakeup
  BY <1>1 DEF LoopTop, Check, WaitTimeout, ReadTask, SpuriousWakeup
<1>2. CASE Take
  <2>1. current' \in timers /\ current' # 0
    BY <1>2 DEF Take, Earliest, OnlyMadeTimers, TypeOK
  <2>. QED  BY <1>2, <2>1 DEF Take
<1>3. CASE ReadArgs
  <2>1. msg'.arg = current
    BY <1>3 DEF ReadArgs, TypeOK
  <2>. QED  BY <1>3, <2>1 DEF ReadArgs
<1>. QED  BY <1>1, <1>2, <1>3

\* Insert brings in the new timer, or no timer if one of the set has its instant.
LEMMA InsertAdds ==
    ASSUME TypeOK, SetupBound, OnlyMadeTimers, NEW c \in Clients, Insert(c)
    PROVE  /\ Held' = Held
           /\ \/ timers' = timers \cup {nSetup + 1}
              \/ timers' = timers /\ \E t \in timers : due[t] = client[c].due
           /\ nSetup + 1 \notin Pending
           /\ \A k \in 1..Len(delivered) : delivered[k] # nSetup + 1
           /\ UNCHANGED <<now, delivered>>
<1>1. Held' = Held
  BY DEF Insert, Held, Notified
<1>2. nSetup + 1 \notin Pending /\ \A k \in 1..Len(delivered) : delivered[k] # nSetup + 1
  BY Made DEF OnlyMadeTimers, Pending, Held
<1>. QED  BY <1>1, <1>2 DEF Insert, Inserted, outVars

\* TimerRemove takes out one pending timer with the id that is asked for, or none.
LEMMA RemoveTakesOut ==
    ASSUME TypeOK, OnlyMadeTimers, PlacesAreDisjoint, NEW c \in Clients, NEW i,
           TimerRemove(c, i)
    PROVE  /\ \/ Pending' = Pending
              \/ \E h \in Pending : h \in 1..nSetup /\ Pending' = Pending \ {h}
           /\ Held' \subseteq Held /\ timers' \subseteq timers
           /\ UNCHANGED <<now, nSetup, id, due, delivered>>
<1>0. UNCHANGED <<now, nSetup, id, due, delivered, msg>>
  BY DEF TimerRemove, taskVars, outVars
<1>1. CASE IdOf(current) = i
  <2>1. current' = 0 /\ timers' = timers /\ pc' = Notified
    BY <1>1 DEF TimerRemove
  <2>2. CASE pc \in {"taken", "waiting", "notified", "due", "read"} /\ current # 0
    <3>1. Held = {current} /\ Held' = {}
      BY <2>1, <2>2 DEF Held, Notified
    <3>2. current \in Pending /\ current \in 1..nSetup
      BY <2>2, <3>1 DEF Pending, OnlyMadeTimers, TypeOK
    <3>3. Pending' = Pending \ {current}
      BY <2>1, <3>1 DEF Pending, PlacesAreDisjoint
    <3>. QED  BY <1>0, <2>1, <3>1, <3>2, <3>3
  <2>3. CASE ~(pc \in {"taken", "waiting", "notified", "due", "read"} /\ current # 0)
    <3>1. Held' = Held
      BY <1>0, <2>1, <2>3 DEF Held, Notified
    <3>. QED  BY <1>0, <2>1, <3>1 DEF Pending
  <2>. QED  BY <2>2, <2>3
<1>2. CASE IdOf(current) # i
  <2>1. PICK h \in timers : timers' = timers \ {h} /\ UNCHANGED <<pc, current>>
    BY <1>2 DEF TimerRemove, Earliest
  <2>2. Held' = Held
    BY <1>0, <2>1 DEF Held
  <2>3. Pending' = Pending \ {h} /\ h \in Pending /\ h \in 1..nSetup
    BY <2>1, <2>2 DEF Pending, PlacesAreDisjoint, OnlyMadeTimers
  <2>. QED  BY <1>0, <2>1, <2>2, <2>3
<1>. QED  BY <1>1, <1>2

\* PutBack returns the timer that the thread holds to the set, or forgets it there.
LEMMA PutBackReturns ==
    ASSUME TypeOK, OnlyMadeTimers, PlacesAreDisjoint, PutBack
    PROVE  /\ \/ Pending' = Pending
              \/ \E h \in Pending : /\ h \in 1..nSetup
                                    /\ Pending' = Pending \ {h}
                                    /\ \E t \in Pending \ {h} : due[t] = due[h]
           /\ Held' = {}
           /\ UNCHANGED <<now, nSetup, id, due, delivered>>
<1>1. Held' = {} /\ Held = {current} \ {0} /\ Pending' = timers'
  BY DEF PutBack, Held, Pending
<1>2. UNCHANGED <<now, nSetup, id, due, delivered>>
  BY DEF PutBack, ManagerOnly, taskVars, outVars
<1>3. CASE current = 0
  BY <1>1, <1>2, <1>3 DEF PutBack, Pending
<1>4. CASE current # 0 /\ \E t \in timers : due[t] = due[current]
  <2>1. timers' = timers /\ Pending = timers \cup {current} /\ current \notin timers
    BY <1>1, <1>4 DEF PutBack, Inserted, Pending, PlacesAreDisjoint
  <2>2. current \in 1..nSetup
    BY <1>4 DEF OnlyMadeTimers, TypeOK
  <2>. QED  BY <1>1, <1>2, <1>4, <2>1, <2>2
<1>5. CASE current # 0 /\ ~\E t \in timers : due[t] = due[current]
  <2>1. timers' = timers \cup {current}
    BY <1>5 DEF PutBack, Inserted
  <2>. QED  BY <1>1, <1>2, <1>5, <2>1 DEF Pending
<1>. QED  BY <1>3, <1>4, <1>5

\* Send reports the pending timer that its message names, once it is due.
LEMMA SendReports ==
    ASSUME TypeOK, OnlyMadeTimers, ThreadKnows, PlacesAreDisjoint, Send
    PROVE  /\ msg.arg = 0 => Pending' = Pending /\ delivered' = delivered
           /\ msg.arg # 0 => /\ msg.arg \in Pending /\ due[msg.arg] <= now
                             /\ msg.arg \in 1..nSetup
                             /\ Pending' = Pending \ {msg.arg}
                             /\ delivered' = Append(delivered, msg.arg)
           /\ Held' = {}
           /\ UNCHANGED <<now, nSetup, id, due, timers>>
<1>1. Held' = {} /\ Held = {msg.arg} \ {0}
  BY DEF Send, Held
<1>2. UNCHANGED <<now, nSetup, id, due, timers>>
  BY DEF Send, ManagerOnly, taskVars
<1>3. CASE msg.arg = 0
  BY <1>1, <1>2, <1>3 DEF Send, Pending
<1>4. CASE msg.arg # 0
  <2>1. msg.arg \in 1..nSetup /\ due[msg.arg] <= now
    BY <1>4 DEF Send, OnlyMadeTimers, ThreadKnows, TypeOK
  <2>2. Pending' = Pending \ {msg.arg} /\ msg.arg \in Pending
    BY <1>1, <1>2, <1>4 DEF Pending, PlacesAreDisjoint
  <2>. QED  BY <1>1, <1>2, <1>4, <2>1, <2>2 DEF Send
<1>. QED  BY <1>3, <1>4

\* Steps that concern neither the timers nor the thread.
LEMMA Elsewhere ==
    ASSUME \/ SendTerminateMsg \/ Tick \/ UNCHANGED vars
           \/ \E c \in Clients : LoadId(c) \/ \E d \in Delays : StoreId(c, d)
    PROVE  /\ Pending' = Pending /\ Held' = Held
           /\ UNCHANGED <<nSetup, id, due, delivered, timers>>
  BY DEF SendTerminateMsg, Tick, LoadId, StoreId, vars, mgrVars, taskVars, outVars,
     Pending, Held

-----------------------------------------------------------------------------
(* The places that hold timers.                                            *)

LEMMA StepDisjoint ==
    TypeOK /\ SetupBound /\ OnlyMadeTimers /\ ThreadKnows /\ PlacesAreDisjoint /\ [Next]_vars
        => PlacesAreDisjoint'
<1>. SUFFICES ASSUME TypeOK, SetupBound, OnlyMadeTimers, ThreadKnows, PlacesAreDisjoint,
                     [Next]_vars
              PROVE  PlacesAreDisjoint'
  OBVIOUS
<1>1. CASE LoopTop \/ Take \/ Check \/ WaitTimeout \/ ReadTask \/ ReadArgs \/ SpuriousWakeup
  BY <1>1, PassedAlong DEF PlacesAreDisjoint
<1>2. CASE \/ SendTerminateMsg \/ Tick \/ UNCHANGED vars
           \/ \E c \in Clients : LoadId(c) \/ \E d \in Delays : StoreId(c, d)
  BY <1>2, Elsewhere DEF PlacesAreDisjoint
<1>3. ASSUME NEW c \in Clients, Insert(c) PROVE PlacesAreDisjoint'
  <2>1. Held' \cap timers' = {}
    BY <1>3, InsertAdds DEF PlacesAreDisjoint, Pending
  <2>2. Pending' \subseteq Pending \cup {nSetup + 1}
    BY <1>3, InsertAdds DEF Pending
  <2>. QED  BY <1>3, <2>1, <2>2, InsertAdds DEF PlacesAreDisjoint
<1>4. ASSUME NEW c \in Clients, NEW i, TimerRemove(c, i) PROVE PlacesAreDisjoint'
  BY <1>4, RemoveTakesOut DEF PlacesAreDisjoint
<1>5. CASE PutBack
  <2>1. Held' \cap timers' = {} /\ Pending' \subseteq Pending /\ delivered' = delivered
    BY <1>5, PutBackReturns
  <2>. QED  BY <2>1 DEF PlacesAreDisjoint
<1>6. CASE Send
  <2>1. Held' \cap timers' = {}
    BY <1>6, SendReports
  <2>2. \A h \in Pending' : h \in Pending /\ (msg.arg # 0 => h # msg.arg)
    BY <1>6, SendReports
  <2>3. \A h \in Pending' : \A k \in 1..Len(delivered') : delivered'[k] # h
    BY <1>6, <2>2, Report DEF PlacesAreDisjoint
  <2>. QED  BY <2>1, <2>3 DEF PlacesAreDisjoint
<1>. QED
  BY <1>1, <1>2, <1>3, <1>4, <1>5, <1>6 DEF Next, TaskStep, ManagerStep

LEMMA Invariant == Spec => [](TypeOK /\ IInv)
<1>1. Init => TypeOK /\ IInv
  BY InitTypeOK, InitIInv
<1>2. TypeOK /\ IInv /\ [Next]_vars => TypeOK' /\ IInv'
  BY StepType, StepBound, StepMade, StepIds, StepKnows, StepDisjoint DEF IInv
<1>. QED  BY <1>1, <1>2, PTL DEF Spec

\* Type correctness: in particular timer_id_t and time_out come from calls that were
\* made, and no report names null_timer.
THEOREM TypeCorrect == Spec => []TypeOK
  BY Invariant, PTL

\* itti_mw never has a timer in two places, however the thread takes timers out and
\* puts them back while tasks set and remove them; a timer to come was not reported.
THEOREM PlacesAreDisjointAlways == Spec => []PlacesAreDisjoint
<1>1. IInv => PlacesAreDisjoint
  BY DEF IInv
<1>. QED  BY <1>1, Invariant, PTL

-----------------------------------------------------------------------------
(* Removal.                                                                *)

LEMMA RemoveStep ==
    ASSUME TypeOK, IInv, NEW c \in Clients, NEW h \in Pending, TimerRemove(c, id[h]),
           pc # "built", \A g \in (1..nSetup) \ {h} : id[g] # id[h]
    PROVE  h \notin Pending'
<1>. OnlyMadeTimers /\ IdsNotNull /\ ThreadKnows /\ PlacesAreDisjoint
  BY DEF IInv
<1>0. h \in 1..nSetup /\ id[h] # 0
  BY DEF Pending, Held, OnlyMadeTimers, IdsNotNull
<1>1. CASE IdOf(current) = id[h]
  <2>1. current = h
    BY <1>0, <1>1 DEF IdOf, OnlyMadeTimers
  <2>2. current' = 0 /\ timers' = timers /\ pc' = Notified
    BY <1>1 DEF TimerRemove
  <2>3. Held' = {}
    BY <2>2 DEF Held, Notified
  <2>4. h \notin timers
    BY <1>0, <2>1 DEF Pending, Held, PlacesAreDisjoint, ThreadKnows, TypeOK
  <2>. QED  BY <2>2, <2>3, <2>4 DEF Pending
<1>2. CASE IdOf(current) # id[h]
  <2>1. PICK g \in timers : id[g] = id[h] /\ timers' = timers \ {g} /\ UNCHANGED <<pc, current>>
    BY <1>2 DEF TimerRemove, Earliest
  <2>2. g = h
    BY <1>0, <2>1 DEF OnlyMadeTimers
  <2>3. h \notin Held'
    BY <2>1, <2>2 DEF Held, PlacesAreDisjoint, TimerRemove
  <2>. QED  BY <2>1, <2>2, <2>3 DEF Pending
<1>. QED  BY <1>1, <1>2

\* timer_remove takes the timer out of service wherever it is, in the set or in the
\* thread's hands, unless its message is already built.
THEOREM RemoveCancelsAlways == Spec => RemoveCancels
<1>1. TypeOK /\ IInv => [\A c \in Clients, h \in Pending :
                            /\ TimerRemove(c, id[h]) /\ pc # "built"
                            /\ \A g \in (1..nSetup) \ {h} : id[g] # id[h]
                            => h \notin Pending']_vars
  BY RemoveStep
<1>. QED  BY <1>1, Invariant, PTL DEF RemoveCancels

-----------------------------------------------------------------------------
(* The refinement of TimerService.                                         *)

LEMMA ServiceStep ==
    ASSUME TypeOK, IInv, [Next]_vars
    PROVE  [Service!Next]_Service!vars
<1>. SetupBound /\ OnlyMadeTimers /\ ThreadKnows /\ PlacesAreDisjoint
  BY DEF IInv
<1>. nSetup \in 0..MaxSetups /\ 1..nSetup \subseteq Timers /\ Service!Timers = Timers
  BY TimerConstants DEF TypeOK, Timers, Service!Timers, TimerConstants
<1>1. CASE LoopTop \/ Take \/ Check \/ WaitTimeout \/ ReadTask \/ ReadArgs \/ SpuriousWakeup
  BY <1>1, PassedAlong DEF Service!vars
<1>2. CASE Tick
  <2>1. Service!Tick
    BY <1>2, Elsewhere DEF Service!Tick, Tick
  <2>. QED  BY <2>1 DEF Service!Next
<1>3. CASE \/ SendTerminateMsg \/ UNCHANGED vars
           \/ \E c \in Clients : LoadId(c) \/ \E d \in Delays : StoreId(c, d)
  BY <1>3, Elsewhere DEF Service!vars, SendTerminateMsg, LoadId, StoreId, vars
<1>4. ASSUME NEW c \in Clients, Insert(c) PROVE Service!Next
  <2>1. client[c].due \in 0..MaxTime
    BY DEF TypeOK
  <2>2. nSetup < MaxSetups
    <3>1. nSetup + 1 \in 1..MaxSetups
      BY <1>4, RoomForCall DEF Insert
    <3>. QED  BY <3>1, TimerConstants DEF TypeOK, TimerConstants
  <2>3. \/ Pending' = Pending \cup {nSetup + 1}
        \/ Service!Taken(client[c].due, Pending) /\ Pending' = Pending
    BY <1>4, InsertAdds DEF Service!Taken, Pending
  <2>4. /\ nSetup' = nSetup + 1
        /\ due' = [due EXCEPT ![nSetup + 1] = client[c].due]
        /\ UNCHANGED <<now, delivered>>
    BY <1>4 DEF Insert, outVars
  <2>5. Service!Set(client[c].due)
    BY <2>2, <2>3, <2>4 DEF Service!Set
  <2>. QED  BY <2>1, <2>5 DEF Service!Next
<1>5. ASSUME NEW c \in Clients, NEW i, TimerRemove(c, i)
      PROVE  [Service!Next]_Service!vars
  <2>1. CASE Pending' = Pending
    BY <1>5, <2>1, RemoveTakesOut DEF Service!vars
  <2>2. CASE \E h \in Pending : h \in 1..nSetup /\ Pending' = Pending \ {h}
    <3>1. PICK h \in Pending : h \in Timers /\ Pending' = Pending \ {h}
      BY <2>2
    <3>2. Service!Cancel(h)
      BY <1>5, <3>1, RemoveTakesOut DEF Service!Cancel
    <3>. QED  BY <3>1, <3>2 DEF Service!Next
  <2>. QED  BY <1>5, <2>1, <2>2, RemoveTakesOut
<1>6. CASE PutBack
  <2>1. CASE Pending' = Pending
    BY <1>6, <2>1, PutBackReturns DEF Service!vars
  <2>2. CASE Pending' # Pending
    <3>1. PICK h \in Pending : /\ h \in Timers /\ Pending' = Pending \ {h}
                               /\ \E t \in Pending \ {h} : due[t] = due[h]
      BY <1>6, <2>2, PutBackReturns
    <3>2. Service!Forget(h)
      BY <1>6, <3>1, PutBackReturns DEF Service!Forget, Service!Cancel, Service!Taken
    <3>. QED  BY <3>1, <3>2 DEF Service!Next
  <2>. QED  BY <2>1, <2>2
<1>7. CASE Send
  <2>1. CASE msg.arg = 0
    BY <1>7, <2>1, SendReports DEF Service!vars
  <2>2. CASE msg.arg # 0
    <3>1. Service!Deliver(msg.arg) /\ msg.arg \in Timers
      BY <1>7, <2>2, SendReports DEF Service!Deliver, TypeOK
    <3>. QED  BY <3>1 DEF Service!Next
  <2>. QED  BY <2>1, <2>2
<1>. QED
  BY <1>1, <1>2, <1>3, <1>4, <1>5, <1>6, <1>7 DEF Next, TaskStep, ManagerStep

\* The timers of itti_mw implement the service that TimerService describes: a timer
\* is reported at most once, not early, and not after a removal that took it out.
THEOREM TimersImplementService == Spec => ImplementsService
<1>1. Init => Service!Init
  BY DEF Init, Service!Init, Pending, Held, Timers, Service!Timers
<1>2. TypeOK /\ IInv /\ [Next]_vars => [Service!Next]_Service!vars
  BY ServiceStep
<1>. QED  BY <1>1, <1>2, Invariant, PTL DEF Spec, ImplementsService, Service!Spec
=============================================================================
