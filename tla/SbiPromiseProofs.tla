-------------------------- MODULE SbiPromiseProofs --------------------------
(***************************************************************************)
(* Proofs about SbiPromise, for any threads, keys and number of calls:     *)
(* type correctness, that an answer in time finds its promise, and that    *)
(* the promises implement SbiCall.                                         *)
(***************************************************************************)
EXTENDS SbiPromise, SequenceTheorems, TLAPS

-----------------------------------------------------------------------------
(* Type correctness.                                                       *)

\* The parts of TypeOK, and what a call is while there is one.
TableOK == uid \in 0..MaxPid /\ table \in [Tables -> SUBSET (1..uid)]
PromiseOK == promise \in [Pids -> {Unset} \cup [key : Keys, data : Data]]
ServOK ==
    /\ queue \in [Servers -> Seq(Req)]
    /\ work \in [Servers -> Req \cup {NoReq}]
    /\ state \in [Servers -> {"READY", "RETURNED", "ENDED"}]
CallOK == call \in [Clients -> [kind : Kinds \cup {"none"}, todo : SUBSET Keys,
                                next : Req \cup {NoReq}]]
FuturesOK == futures \in [Clients -> [Keys -> 0..uid]]
OutcomeOK == outcome \in [Clients -> [Keys -> Data \cup {"late", "none"}]]

LEMMA TypeParts ==
    TypeOK <=> TableOK /\ PromiseOK /\ ServOK /\ CallOK /\ FuturesOK /\ OutcomeOK
  BY DEF TypeOK, TableOK, PromiseOK, ServOK, CallOK, FuturesOK, OutcomeOK

\* A thread without a call waits for nothing, and a key that is still to be
\* asked for has neither a future nor a result.
IdleInv ==
    \A c \in Clients :
        /\ call[c].kind = "none" => call[c] = NoCall
        /\ \A k \in Keys : call[c] = NoCall \/ k \in call[c].todo => futures[c][k] = 0
        /\ \A k \in call[c].todo : outcome[c][k] = "none"

LEMMA InitTypeOK == Init => TypeOK /\ IdleInv
<1>. SUFFICES ASSUME Init PROVE TypeOK /\ IdleInv
  OBVIOUS
<1>1. MaxPid \in Nat
  BY PromiseConstants DEF PromiseConstants
<1>2. TableOK /\ PromiseOK /\ ServOK
  BY <1>1 DEF Init, TableOK, PromiseOK, ServOK
<1>3. CallOK
  BY DEF Init, CallOK, NoCall
<1>4. FuturesOK /\ OutcomeOK
  BY <1>1 DEF Init, FuturesOK, OutcomeOK, NoFutures, Nothing
<1>5. IdleInv
  BY DEF Init, IdleInv, NoCall, NoFutures
<1>. QED  BY <1>2, <1>3, <1>4, <1>5, TypeParts

\* A new id is none of those in use.
LEMMA PidIsNew ==
    ASSUME TypeOK, NewPid \in Pids
    PROVE  /\ NewPid = uid + 1 /\ uid \in Nat /\ NewPid \in Nat /\ NewPid > uid
           /\ NewPid \in 0..MaxPid /\ NewPid # 0
           /\ \A t \in Tables : NewPid \notin table[t]
           /\ \A c \in Clients, k \in Keys : futures[c][k] \in 0..uid /\ futures[c][k] # NewPid
<1>1. uid \in 0..MaxPid /\ uid \in Nat
  BY TypeParts, PromiseConstants DEF TableOK, PromiseConstants
<1>2. NewPid = uid + 1 /\ NewPid \in 0..MaxPid
  BY <1>1, PromiseConstants DEF NewPid, Pids, PromiseConstants
<1>3. \A t \in Tables : table[t] \subseteq 1..uid
  BY TypeParts DEF TableOK
<1>4. \A c \in Clients, k \in Keys : futures[c][k] \in 0..uid
  BY TypeParts DEF FuturesOK
<1>. QED  BY <1>1, <1>2, <1>3, <1>4

LEMMA TableKinds ==
    /\ NoReq \notin Req /\ NoCall.kind = "none" /\ "none" \notin Kinds
    /\ NoCall.todo = {} /\ NoCall.next = NoReq
    /\ \A kind \in Kinds : TableOf(kind) \in Tables /\ DataOf(kind) \subseteq Data
    /\ \A kind : "data" \in DataOf(kind) /\ DataOf(kind) \subseteq Data
    /\ Unset \notin [key : Keys, data : Data]
<1>1. NoReq \notin Req
  BY DEF NoReq, Req, Kinds
<1>. QED  BY <1>1 DEF NoReq, NoCall, Kinds, TableOf, Tables, DataOf, Data, Unset

LEMMA ClientTypeOK ==
    ASSUME TypeOK, IdleInv, NEW c \in Clients, ClientStep(c)
    PROVE  TypeOK' /\ IdleInv'
<1>. SUFFICES /\ TableOK' /\ PromiseOK' /\ ServOK' /\ CallOK' /\ FuturesOK' /\ OutcomeOK'
              /\ IdleInv'
  BY DEF TypeOK, TableOK, PromiseOK, ServOK, CallOK, FuturesOK, OutcomeOK
<1>. TableOK /\ PromiseOK /\ ServOK /\ CallOK /\ FuturesOK /\ OutcomeOK
  BY TypeParts
<1>1. ASSUME NEW k \in Keys, Register(c, k)
      PROVE  /\ TableOK' /\ PromiseOK' /\ ServOK' /\ CallOK' /\ FuturesOK' /\ OutcomeOK'
             /\ IdleInv'
  <2>1. /\ NewPid \in Pids /\ uid' = NewPid
        /\ promise' = [promise EXCEPT ![NewPid] = Unset]
        /\ table' = [table EXCEPT ![TableOf(call[c].kind)] = @ \cup {NewPid}]
        /\ futures' = [futures EXCEPT ![c][k] = NewPid]
        /\ call' = [call EXCEPT ![c].todo = @ \ {k},
                       ![c].next = [pid |-> NewPid, key |-> k, kind |-> call[c].kind]]
        /\ UNCHANGED <<queue, work, state, outcome>> /\ k \in call[c].todo
    BY <1>1, PidIsNew DEF Register, servVars
  <2>2. /\ uid' = uid + 1 /\ uid \in Nat /\ uid' \in 0..MaxPid /\ NewPid \in 1..uid'
        /\ 1..uid \subseteq 1..uid' /\ 0..uid \subseteq 0..uid'
    BY <2>1, PidIsNew
  <2>3. call[c].kind \in Kinds /\ call[c] # NoCall
    BY <2>1, TableKinds DEF IdleInv, CallOK
  <2>4. TableOK'
    BY <2>1, <2>2 DEF TableOK
  <2>5. PromiseOK' /\ ServOK' /\ OutcomeOK'
    BY <2>1 DEF PromiseOK, ServOK, OutcomeOK
  <2>6. FuturesOK'
    BY <2>1, <2>2 DEF FuturesOK
  <2>7. [pid |-> NewPid, key |-> k, kind |-> call[c].kind] \in Req
    BY <2>1, <2>3 DEF Req
  <2>8. CallOK'
    BY <2>1, <2>7 DEF CallOK
  <2>9. IdleInv'
    <3>. SUFFICES ASSUME NEW e \in Clients
                  PROVE  /\ call'[e].kind = "none" => call'[e] = NoCall
                         /\ \A j \in Keys : call'[e] = NoCall \/ j \in call'[e].todo
                               => futures'[e][j] = 0
                         /\ \A j \in call'[e].todo : outcome[e][j] = "none"
      BY ZenonT(40), <2>1 DEF IdleInv
    <3>1. CASE e # c
      BY <2>1, <3>1 DEF CallOK, FuturesOK, IdleInv
    <3>2. CASE e = c
      <4>1. /\ call'[c].kind = call[c].kind /\ call'[c].todo = call[c].todo \ {k}
            /\ call'[c].kind # "none"
        BY <2>1, <2>3, TableKinds DEF CallOK
      <4>2. call'[c] # NoCall
        BY <4>1, TableKinds
      <4>3. \A j \in call'[c].todo : futures'[c][j] = futures[c][j]
        BY <2>1, <4>1 DEF FuturesOK, CallOK
      <4>. QED  BY <3>2, <4>1, <4>2, <4>3 DEF IdleInv, CallOK
    <3>. QED  BY <3>1, <3>2
  <2>. QED  BY <2>4, <2>5, <2>6, <2>8, <2>9
<1>2. CASE Send(c)
  <2>1. /\ call[c].next # NoReq /\ call[c].next \in Req
        /\ call' = [call EXCEPT ![c].next = NoReq]
        /\ UNCHANGED <<uid, table, promise, work, state, futures, outcome>>
    BY <1>2 DEF Send, CallOK
  <2>2. ServOK'
    <3>1. CASE queue' = queue
      BY <2>1, <3>1 DEF ServOK
    <3>2. CASE queue' # queue
      <4>1. queue' = [queue EXCEPT ![ServerOf(call[c].kind)] = Append(@, call[c].next)]
        BY <1>2, <3>2 DEF Send
      <4>2. \A s \in Servers : Append(queue[s], call[c].next) \in Seq(Req)
        BY <2>1 DEF ServOK
      <4>. QED  BY <2>1, <4>1, <4>2 DEF ServOK
    <3>. QED  BY <3>1, <3>2
  <2>3. CallOK'
    BY <2>1 DEF CallOK
  <2>4. IdleInv'
    <3>1. call[c] # NoCall /\ call[c].kind # "none"
      BY <2>1, TableKinds DEF IdleInv
    <3>2. call'[c].kind = call[c].kind /\ call'[c].todo = call[c].todo
      BY <2>1 DEF CallOK
    <3>3. call'[c] # NoCall
      BY <3>1, <3>2, TableKinds
    <3>4. \A e \in Clients : e # c => call'[e] = call[e]
      BY <2>1 DEF CallOK
    <3>. QED  BY <2>1, <3>1, <3>2, <3>3, <3>4 DEF IdleInv
  <2>. QED  BY <2>1, <2>2, <2>3, <2>4 DEF TableOK, PromiseOK, FuturesOK, OutcomeOK
<1>3. ASSUME NEW k \in Keys, WaitReady(c, k) \/ WaitTimeout(c, k)
      PROVE  /\ TableOK' /\ PromiseOK' /\ ServOK' /\ CallOK' /\ FuturesOK' /\ OutcomeOK'
             /\ IdleInv'
  <2>1. /\ call[c] # NoCall /\ call[c].todo = {}
        /\ futures' = [futures EXCEPT ![c][k] = 0]
        /\ UNCHANGED <<uid, table, promise, queue, work, state, call>>
    BY <1>3 DEF WaitReady, WaitTimeout, First, Waiting, servVars
  <2>2. OutcomeOK'
    <3>1. CASE WaitReady(c, k)
      <4>1. futures[c][k] \in Pids
        BY <3>1, PromiseConstants DEF WaitReady, First, Awaited, FuturesOK, TableOK, Pids,
                                      PromiseConstants
      <4>2. promise[futures[c][k]].data \in Data
        BY <3>1, <4>1 DEF WaitReady, PromiseOK
      <4>. QED  BY <3>1, <4>2 DEF WaitReady, OutcomeOK
    <3>2. CASE WaitTimeout(c, k)
      BY <3>2 DEF WaitTimeout, OutcomeOK
    <3>. QED  BY <1>3, <3>1, <3>2
  <2>3. FuturesOK'
    BY <2>1, PromiseConstants DEF FuturesOK, TableOK, PromiseConstants
  <2>4. \A e \in Clients, j \in Keys :
           /\ futures'[e][j] = futures[e][j] \/ futures'[e][j] = 0
           /\ e # c => outcome'[e] = outcome[e]
    BY <1>3, <2>1 DEF FuturesOK, OutcomeOK, WaitReady, WaitTimeout
  <2>5. IdleInv'
    <3>. SUFFICES ASSUME NEW e \in Clients
                  PROVE  /\ call[e].kind = "none" => call[e] = NoCall
                         /\ \A j \in Keys : call[e] = NoCall \/ j \in call[e].todo
                               => futures'[e][j] = 0
                         /\ \A j \in call[e].todo : outcome'[e][j] = "none"
      BY <2>1 DEF IdleInv
    <3>1. call[e].todo \subseteq Keys
      BY DEF CallOK
    <3>. QED  BY <2>1, <2>4, <3>1 DEF IdleInv
  <2>. QED  BY <2>1, <2>2, <2>3, <2>5 DEF TableOK, PromiseOK, ServOK, CallOK
<1>4. CASE Return(c)
  <2>1. /\ \A k \in Keys : futures[c][k] = 0
        /\ call' = [call EXCEPT ![c] = NoCall]
        /\ UNCHANGED <<uid, table, promise, queue, work, state, futures, outcome>>
    BY <1>4 DEF Return, Awaited, servVars
  <2>2. CallOK'
    BY <2>1 DEF CallOK, NoCall
  <2>3. IdleInv'
    <3>1. call'[c] = NoCall
      BY <2>1 DEF CallOK
    <3>2. \A e \in Clients : e # c => call'[e] = call[e]
      BY <2>1 DEF CallOK
    <3>. QED  BY <2>1, <3>1, <3>2, TableKinds DEF IdleInv
  <2>. QED  BY <2>1, <2>2, <2>3 DEF TableOK, PromiseOK, ServOK, FuturesOK, OutcomeOK
<1>. QED  BY <1>1, <1>2, <1>3, <1>4 DEF ClientStep

LEMMA BeginTypeOK ==
    ASSUME TypeOK, IdleInv, NEW c \in Clients, NEW kind \in Kinds, NEW ks \in SUBSET Keys,
           Begin(c, kind, ks)
    PROVE  TypeOK' /\ IdleInv'
<1>. SUFFICES /\ TableOK' /\ PromiseOK' /\ ServOK' /\ CallOK' /\ FuturesOK' /\ OutcomeOK'
              /\ IdleInv'
  BY DEF TypeOK, TableOK, PromiseOK, ServOK, CallOK, FuturesOK, OutcomeOK
<1>. TableOK /\ PromiseOK /\ ServOK /\ CallOK /\ FuturesOK /\ OutcomeOK
  BY TypeParts
<1>1. /\ call[c] = NoCall
      /\ call' = [call EXCEPT ![c] = [kind |-> kind, todo |-> ks, next |-> NoReq]]
      /\ outcome' = [outcome EXCEPT ![c] = Nothing]
      /\ UNCHANGED <<uid, table, promise, queue, work, state, futures>>
  BY DEF Begin, NoCall, servVars
<1>2. CallOK' /\ OutcomeOK'
  BY <1>1 DEF CallOK, OutcomeOK, Nothing
<1>3. IdleInv'
  <2>1. /\ call'[c] = [kind |-> kind, todo |-> ks, next |-> NoReq]
        /\ \A e \in Clients : e # c => call'[e] = call[e]
    BY <1>1 DEF CallOK
  <2>2. /\ outcome'[c] = Nothing
        /\ \A e \in Clients : e # c => outcome'[e] = outcome[e]
    BY <1>1 DEF OutcomeOK
  <2>3. \A k \in Keys : futures[c][k] = 0
    BY <1>1 DEF IdleInv
  <2>. QED  BY <1>1, <2>1, <2>2, <2>3, TableKinds DEF IdleInv, Nothing
<1>. QED  BY <1>1, <1>2, <1>3 DEF TableOK, PromiseOK, ServOK, FuturesOK

LEMMA ServerTypeOK ==
    ASSUME TypeOK, NEW s \in Servers, ServerStep(s) \/ TaskReturns(s) \/ TaskEnded(s)
    PROVE  TypeOK'
<1>. SUFFICES /\ TableOK' /\ PromiseOK' /\ ServOK' /\ CallOK' /\ FuturesOK' /\ OutcomeOK'
  BY DEF TypeOK, TableOK, PromiseOK, ServOK, CallOK, FuturesOK, OutcomeOK
<1>. TableOK /\ PromiseOK /\ ServOK /\ CallOK /\ FuturesOK /\ OutcomeOK
  BY TypeParts
<1>1. CASE Take(s)
  <2>1. queue[s] \in Seq(Req) /\ queue[s] # <<>>
    BY <1>1 DEF Take, ServOK
  <2>2. Head(queue[s]) \in Req /\ Tail(queue[s]) \in Seq(Req)
    BY <2>1, HeadTailProperties
  <2>3. ServOK'
    BY <1>1, <2>2 DEF Take, ServOK
  <2>. QED  BY <1>1, <2>3 DEF Take, callVars, TableOK, PromiseOK, CallOK, FuturesOK, OutcomeOK
<1>2. ASSUME NEW d \in Data, Answer(s, d)
      PROVE  /\ TableOK' /\ PromiseOK' /\ ServOK' /\ CallOK' /\ FuturesOK' /\ OutcomeOK'
  <2>1. work[s] \in Req /\ UNCHANGED <<uid, queue, state, call, futures, outcome>>
    BY <1>2 DEF Answer, ServOK, callVars
  <2>2. TableOK' /\ PromiseOK'
    BY <1>2, <2>1 DEF Answer, Trigger, TableOK, PromiseOK, Req
  <2>3. ServOK'
    BY <1>2 DEF Answer, ServOK
  <2>. QED  BY <2>1, <2>2, <2>3 DEF CallOK, FuturesOK, OutcomeOK
<1>3. CASE Drop(s) \/ TaskReturns(s) \/ TaskEnded(s)
  <2>1. ServOK'
    BY <1>3 DEF Drop, TaskReturns, TaskEnded, ServOK
  <2>. QED  BY <1>3, <2>1 DEF Drop, TaskReturns, TaskEnded, callVars, TableOK, PromiseOK,
                              CallOK, FuturesOK, OutcomeOK
<1>. QED  BY <1>1, <1>2, <1>3 DEF ServerStep

LEMMA StepTypeOK ==
    ASSUME TypeOK, IdleInv, [Next]_vars
    PROVE  TypeOK' /\ IdleInv'
<1>1. ASSUME NEW c \in Clients, NEW kind \in Kinds, NEW ks \in SUBSET Keys, Begin(c, kind, ks)
      PROVE  TypeOK' /\ IdleInv'
  BY <1>1, BeginTypeOK
<1>2. ASSUME NEW c \in Clients, ClientStep(c) PROVE TypeOK' /\ IdleInv'
  BY <1>2, ClientTypeOK
<1>3. ASSUME NEW s \in Servers, ServerStep(s) \/ TaskReturns(s) \/ TaskEnded(s)
      PROVE  TypeOK' /\ IdleInv'
  <2>1. TypeOK'
    BY <1>3, ServerTypeOK
  <2>2. UNCHANGED <<call, futures, outcome>>
    BY <1>3 DEF ServerStep, Take, Drop, Answer, TaskReturns, TaskEnded, callVars
  <2>. QED  BY <2>1, <2>2 DEF IdleInv
<1>4. CASE UNCHANGED vars
  BY <1>4 DEF vars, servVars, callVars, TypeOK, IdleInv
<1>. QED  BY <1>1, <1>2, <1>3, <1>4 DEF Next

\* Every reachable state is well typed, and the tables hold only ids that were
\* handed out (generate_promise_id, add_promise).
THEOREM TypeCorrect == Spec => []TypeOK
<1>1. TypeOK /\ IdleInv /\ [Next]_vars => TypeOK' /\ IdleInv'
  BY StepTypeOK
<1>. QED  BY <1>1, InitTypeOK, PTL DEF Spec

LEMMA IdleAlways == Spec => [](TypeOK /\ IdleInv)
<1>1. TypeOK /\ IdleInv /\ [Next]_vars => TypeOK' /\ IdleInv'
  BY StepTypeOK
<1>. QED  BY <1>1, InitTypeOK, PTL DEF Spec

-----------------------------------------------------------------------------
(* An answer in time finds its promise.                                    *)

\* What Register changes, with the facts about the new id.
LEMMA RegisterEffect ==
    ASSUME TypeOK, IdleInv, NEW c \in Clients, NEW k \in Keys, Register(c, k)
    PROVE  /\ uid' = NewPid /\ NewPid = uid + 1 /\ uid \in Nat /\ NewPid \in Pids
           /\ promise' = [promise EXCEPT ![NewPid] = Unset]
           /\ table' = [table EXCEPT ![TableOf(call[c].kind)] = @ \cup {NewPid}]
           /\ futures' = [futures EXCEPT ![c][k] = NewPid]
           /\ call[c].kind \in Kinds /\ TableOf(call[c].kind) \in Tables
           /\ k \in call[c].todo
           /\ \A e \in Clients : /\ call'[e].kind = call[e].kind
                                 /\ e # c => call'[e] = call[e]
           /\ call'[c].next = [pid |-> NewPid, key |-> k, kind |-> call[c].kind]
           /\ UNCHANGED <<queue, work, state, outcome>>
<1>1. k \in call[c].todo /\ NewPid \in Pids
  BY DEF Register
<1>2. call[c].kind \in Kinds
  BY <1>1, TypeParts, TableKinds DEF IdleInv, CallOK
<1>3. call' = [call EXCEPT ![c].todo = @ \ {k},
                  ![c].next = [pid |-> NewPid, key |-> k, kind |-> call[c].kind]]
  BY DEF Register
<1>4. CallOK
  BY TypeParts
<1>5. /\ \A e \in Clients : /\ call'[e].kind = call[e].kind
                            /\ e # c => call'[e] = call[e]
      /\ call'[c].next = [pid |-> NewPid, key |-> k, kind |-> call[c].kind]
  BY <1>3, <1>4 DEF CallOK
<1>6. uid' = NewPid /\ NewPid = uid + 1 /\ uid \in Nat
  BY <1>1, PidIsNew DEF Register
<1>. QED  BY <1>1, <1>2, <1>5, <1>6, TableKinds DEF Register, servVars

\* What a wait that ends changes.
LEMMA WaitEffect ==
    ASSUME TypeOK, NEW c \in Clients, NEW k \in Keys, WaitReady(c, k) \/ WaitTimeout(c, k)
    PROVE  /\ futures' = [futures EXCEPT ![c][k] = 0]
           /\ futures[c][k] \in Pids
           /\ \A e \in Clients, j \in Keys :
                 futures'[e][j] = futures[e][j] \/ futures'[e][j] = 0
           /\ UNCHANGED <<uid, table, promise, queue, work, state, call>>
<1>1. FuturesOK /\ TableOK
  BY TypeParts
<1>2. futures' = [futures EXCEPT ![c][k] = 0] /\ futures[c][k] # 0
  BY DEF WaitReady, WaitTimeout, First, Awaited
<1>3. futures[c][k] \in Pids
  BY <1>1, <1>2, PromiseConstants DEF FuturesOK, TableOK, Pids, PromiseConstants
<1>4. \A e \in Clients, j \in Keys :
          futures'[e][j] = futures[e][j] \/ futures'[e][j] = 0
  BY <1>1, <1>2 DEF FuturesOK
<1>. QED  BY <1>2, <1>3, <1>4 DEF WaitReady, WaitTimeout, servVars

\* An answer sets the promise it finds and takes just that one out of its table.
LEMMA AnswerEffect ==
    ASSUME TypeOK, NEW s \in Servers, NEW d \in Data, Answer(s, d)
    PROVE  /\ work[s] \in Req /\ TableOf(work[s].kind) \in Tables
           /\ UNCHANGED <<uid, queue, state, call, futures, outcome>>
           /\ work' = [work EXCEPT ![s] = NoReq]
           /\ \/ /\ work[s].pid \in table[TableOf(work[s].kind)]
                 /\ promise' = [promise EXCEPT ![work[s].pid] =
                                                  [key |-> work[s].key, data |-> d]]
                 /\ table' = [table EXCEPT ![TableOf(work[s].kind)] = @ \ {work[s].pid}]
                 /\ promise'[work[s].pid] # Unset
              \/ UNCHANGED <<promise, table>>
<1>1. work[s] \in Req /\ PromiseOK
  BY TypeParts DEF Answer, ServOK
<1>2. TableOf(work[s].kind) \in Tables
  BY <1>1, TableKinds DEF Req
<1>3. [key |-> work[s].key, data |-> d] # Unset
  BY <1>1, TableKinds DEF Req
<1>. QED  BY <1>1, <1>2, <1>3 DEF Answer, Trigger, callVars, PromiseOK, Req

LEMMA AwaitedStep ==
    ASSUME TypeOK, IdleInv, AwaitedIsSetOrKnown, [Next]_vars
    PROVE  AwaitedIsSetOrKnown'
<1>. SUFFICES ASSUME NEW e \in Clients, NEW j \in Keys, futures'[e][j] # 0
              PROVE  \/ promise'[futures'[e][j]] # Unset
                     \/ futures'[e][j] \in table'[TableOf(call'[e].kind)]
  BY DEF AwaitedIsSetOrKnown, Awaited
<1>. TableOK /\ PromiseOK /\ CallOK /\ FuturesOK
  BY TypeParts
<1>0. futures[e][j] # 0 => \/ promise[futures[e][j]] # Unset
                           \/ futures[e][j] \in table[TableOf(call[e].kind)]
  BY DEF AwaitedIsSetOrKnown, Awaited
<1>1. ASSUME NEW c \in Clients, NEW kind \in Kinds, NEW ks \in SUBSET Keys, Begin(c, kind, ks)
      PROVE  \/ promise'[futures'[e][j]] # Unset
             \/ futures'[e][j] \in table'[TableOf(call'[e].kind)]
  <2>1. /\ call[c] = NoCall /\ UNCHANGED <<table, promise, futures>>
        /\ e # c => call'[e] = call[e]
    BY <1>1 DEF Begin, CallOK
  <2>2. e # c
    BY <2>1 DEF IdleInv
  <2>. QED  BY <1>0, <2>1, <2>2
<1>2. ASSUME NEW c \in Clients, NEW k \in Keys, Register(c, k)
      PROVE  \/ promise'[futures'[e][j]] # Unset
             \/ futures'[e][j] \in table'[TableOf(call'[e].kind)]
  <2>1. /\ promise' = [promise EXCEPT ![NewPid] = Unset]
        /\ table' = [table EXCEPT ![TableOf(call[c].kind)] = @ \cup {NewPid}]
        /\ futures' = [futures EXCEPT ![c][k] = NewPid]
        /\ TableOf(call[c].kind) \in Tables /\ NewPid \in Pids
        /\ call'[e].kind = call[e].kind
    BY <1>2, RegisterEffect
  <2>2. CASE e = c /\ j = k
    BY <2>1, <2>2 DEF TableOK, FuturesOK
  <2>3. CASE ~(e = c /\ j = k)
    <3>1. futures'[e][j] = futures[e][j] /\ futures[e][j] # 0
      BY <2>1, <2>3 DEF FuturesOK
    <3>2. futures[e][j] # NewPid
      BY <2>1, PidIsNew
    <3>3. promise'[futures[e][j]] = promise[futures[e][j]]
      BY <2>1, <3>2 DEF PromiseOK
    <3>4. \A t : t \in Tables => table[t] \subseteq table'[t]
      BY <2>1 DEF TableOK
    <3>5. e = c \/ call[e].kind \in Kinds
      <4>1. call[e] # NoCall
        BY <3>1 DEF IdleInv
      <4>. QED  BY <4>1 DEF IdleInv, CallOK
    <3>6. TableOf(call[e].kind) \in Tables
      BY <2>1, <3>5, TableKinds
    <3>. QED  BY <1>0, <2>1, <3>1, <3>3, <3>4, <3>6
  <2>. QED  BY <2>2, <2>3
<1>3. ASSUME NEW c \in Clients, Send(c) \/ Return(c)
      PROVE  \/ promise'[futures'[e][j]] # Unset
             \/ futures'[e][j] \in table'[TableOf(call'[e].kind)]
  <2>1. UNCHANGED <<table, promise, futures>>
    BY <1>3 DEF Send, Return
  <2>2. call'[e].kind = call[e].kind
    <3>1. CASE Send(c)
      BY <3>1 DEF Send, CallOK
    <3>2. CASE Return(c)
      <4>1. e # c
        BY <2>1, <3>2 DEF Return, Awaited
      <4>. QED  BY <3>2, <4>1 DEF Return, CallOK
    <3>. QED  BY <1>3, <3>1, <3>2
  <2>. QED  BY <1>0, <2>1, <2>2
<1>4. ASSUME NEW c \in Clients, NEW k \in Keys, WaitReady(c, k) \/ WaitTimeout(c, k)
      PROVE  \/ promise'[futures'[e][j]] # Unset
             \/ futures'[e][j] \in table'[TableOf(call'[e].kind)]
  BY <1>0, <1>4, WaitEffect
<1>5. ASSUME NEW s \in Servers, NEW d \in Data, Answer(s, d)
      PROVE  \/ promise'[futures'[e][j]] # Unset
             \/ futures'[e][j] \in table'[TableOf(call'[e].kind)]
  <2>1. UNCHANGED <<call, futures>>
    BY <1>5, AnswerEffect
  <2>2. CASE UNCHANGED <<promise, table>>
    BY <1>0, <2>1, <2>2
  <2>3. CASE /\ promise' = [promise EXCEPT ![work[s].pid] = [key |-> work[s].key, data |-> d]]
             /\ table' = [table EXCEPT ![TableOf(work[s].kind)] = @ \ {work[s].pid}]
             /\ promise'[work[s].pid] # Unset
    <3>1. CASE futures[e][j] = work[s].pid
      BY <2>1, <2>3, <3>1
    <3>2. CASE futures[e][j] # work[s].pid
      BY <1>0, <2>1, <2>3, <3>2 DEF TableOK, PromiseOK
    <3>. QED  BY <3>1, <3>2
  <2>. QED  BY <1>5, <2>2, <2>3, AnswerEffect
<1>6. ASSUME NEW s \in Servers, Take(s) \/ Drop(s) \/ TaskReturns(s) \/ TaskEnded(s)
      PROVE  \/ promise'[futures'[e][j]] # Unset
             \/ futures'[e][j] \in table'[TableOf(call'[e].kind)]
  BY <1>0, <1>6 DEF Take, Drop, TaskReturns, TaskEnded, callVars
<1>7. CASE UNCHANGED vars
  BY <1>0, <1>7 DEF vars, callVars
<1>. QED
  BY <1>1, <1>2, <1>3, <1>4, <1>5, <1>6, <1>7 DEF Next, ClientStep, ServerStep

\* A promise that a caller waits for is set or still in its table: add_promise runs
\* before send_msg, ids are not reused, and trigger_process_response erases only the
\* promise that it sets.
THEOREM AwaitedIsSetOrKnownAlways == Spec => []AwaitedIsSetOrKnown
<1>1. Init => AwaitedIsSetOrKnown
  BY DEF Init, AwaitedIsSetOrKnown, Awaited, NoFutures
<1>2. TypeOK /\ IdleInv /\ AwaitedIsSetOrKnown /\ [Next]_vars => AwaitedIsSetOrKnown'
  BY AwaitedStep
<1>. QED  BY <1>1, <1>2, IdleAlways, PTL DEF Spec

-----------------------------------------------------------------------------
(* The refinement of SbiCall.                                              *)

\* A promise in a table is not set yet, is in no other table, and an id that was
\* not handed out has no value.
PidInv ==
    /\ \A p \in Pids : p > uid => promise[p] = Unset
    /\ \A t \in Tables : \A p \in table[t] : promise[p] = Unset
    /\ \A t, u \in Tables : t # u => table[t] \cap table[u] = {}

\* A request asks for the key that whoever waits for its promise waits for.
Asked(r) ==
    /\ r.pid <= uid
    /\ \A c \in Clients, k \in Keys : futures[c][k] = r.pid => k = r.key

\* The requests on their way.
InFlight(r) ==
    \/ \E c \in Clients : call[c].next = r
    \/ \E s \in Servers : work[s] = r
    \/ \E s \in Servers : \E n \in 1..Len(queue[s]) : queue[s][n] = r

\* Hence what a set promise holds is the answer its caller waits for.
RequestInv == \A r \in Req : InFlight(r) => Asked(r)
AnswerInv ==
    \A c \in Clients, k \in Keys :
        futures[c][k] # 0 /\ promise[futures[c][k]] # Unset => promise[futures[c][k]].key = k

RefInv == PidInv /\ RequestInv /\ AnswerInv

LEMMA InitRefInv == Init => RefInv
<1>. SUFFICES ASSUME Init PROVE RefInv
  OBVIOUS
<1>1. PidInv
  BY DEF Init, PidInv
<1>2. RequestInv
  <2>1. \A r \in Req : r # NoReq
    BY TableKinds
  <2>2. \A s \in Servers : Len(queue[s]) = 0
    BY DEF Init
  <2>. QED  BY <2>1, <2>2 DEF Init, RequestInv, InFlight, NoCall
<1>3. AnswerInv
  BY DEF Init, AnswerInv, NoFutures
<1>. QED  BY <1>1, <1>2, <1>3 DEF RefInv

\* A step that starts no wait but for a new id leaves what was asked as it was.
LEMMA AskedStays ==
    ASSUME TypeOK, uid' \in Nat, uid' >= uid,
           \A c \in Clients, k \in Keys :
              futures'[c][k] = futures[c][k] \/ futures'[c][k] = 0 \/ futures'[c][k] > uid,
           NEW r \in Req, Asked(r)
    PROVE  Asked(r)'
<1>1. r.pid \in Nat \ {0} /\ uid \in Nat /\ r.pid <= uid
  BY TypeParts, PromiseConstants DEF Req, Pids, TableOK, PromiseConstants, Asked
<1>2. \A c \in Clients, k \in Keys : futures'[c][k] = r.pid => futures[c][k] = r.pid
  BY <1>1
<1>. QED  BY <1>1, <1>2 DEF Asked

LEMMA ClientRefInv ==
    ASSUME TypeOK, IdleInv, RefInv, NEW c \in Clients, ClientStep(c)
    PROVE  RefInv'
<1>. PidInv /\ RequestInv /\ AnswerInv
  BY DEF RefInv
<1>. TableOK /\ PromiseOK /\ ServOK /\ CallOK /\ FuturesOK
  BY TypeParts
<1>. uid \in Nat
  BY PromiseConstants DEF TableOK, PromiseConstants
<1>1. ASSUME NEW k \in Keys, Register(c, k) PROVE RefInv'
  <2>1. /\ uid' = NewPid /\ NewPid = uid + 1 /\ NewPid \in Pids
        /\ promise' = [promise EXCEPT ![NewPid] = Unset]
        /\ table' = [table EXCEPT ![TableOf(call[c].kind)] = @ \cup {NewPid}]
        /\ futures' = [futures EXCEPT ![c][k] = NewPid]
        /\ TableOf(call[c].kind) \in Tables /\ call[c].kind \in Kinds
        /\ \A e \in Clients : e # c => call'[e] = call[e]
        /\ call'[c].next = [pid |-> NewPid, key |-> k, kind |-> call[c].kind]
        /\ UNCHANGED <<queue, work>>
    BY <1>1, RegisterEffect
  <2>2. \A t \in Tables : table[t] \subseteq 1..uid
    BY DEF TableOK
  <2>3. PidInv'
    <3>1. \A p \in Pids : promise'[p] = promise[p] \/ promise'[p] = Unset
      BY <2>1 DEF PromiseOK
    <3>2. \A t \in Tables : /\ table'[t] = table[t] \/ table'[t] = table[t] \cup {NewPid}
                            /\ NewPid \notin table[t]
                            /\ t # TableOf(call[c].kind) => table'[t] = table[t]
      BY <2>1, <2>2 DEF TableOK
    <3>3. promise'[NewPid] = Unset
      BY <2>1 DEF PromiseOK
    <3>4. \A t \in Tables : table[t] \subseteq Pids
      BY <2>2, PromiseConstants DEF TableOK, Pids, PromiseConstants
    <3>5. \A p \in Pids : p > uid' => promise'[p] = Unset
      BY <2>1, <3>1, PromiseConstants DEF PidInv, Pids, PromiseConstants
    <3>6. \A t \in Tables : \A p \in table'[t] : promise'[p] = Unset
      BY <3>1, <3>2, <3>3, <3>4 DEF PidInv
    <3>7. \A t, u \in Tables : t # u => table'[t] \cap table'[u] = {}
      BY <3>2 DEF PidInv
    <3>. QED  BY <3>5, <3>6, <3>7 DEF PidInv
  <2>4. \A e \in Clients, j \in Keys :
            \/ e = c /\ j = k /\ futures'[e][j] = NewPid
            \/ ~(e = c /\ j = k) /\ futures'[e][j] = futures[e][j] /\ futures[e][j] # NewPid
    BY <2>1, PidIsNew DEF FuturesOK
  <2>5. RequestInv'
    <3>. SUFFICES ASSUME NEW r \in Req, InFlight(r)' PROVE Asked(r)'
      BY DEF RequestInv
    <3>1. CASE InFlight(r)
      <4>1. Asked(r)
        BY <3>1 DEF RequestInv
      <4>2. uid' \in Nat /\ uid' >= uid /\ NewPid > uid
        BY <2>1
      <4>3. \A e \in Clients, j \in Keys :
               futures'[e][j] = futures[e][j] \/ futures'[e][j] = 0 \/ futures'[e][j] > uid
        BY <2>4, <4>2
      <4>. QED  BY <4>1, <4>2, <4>3, AskedStays
    <3>2. CASE ~InFlight(r)
      <4>1. r = [pid |-> NewPid, key |-> k, kind |-> call[c].kind]
        BY <2>1, <3>2 DEF InFlight
      <4>. QED  BY <2>1, <2>4, <4>1 DEF Asked
    <3>. QED  BY <3>1, <3>2
  <2>6. AnswerInv'
    <3>1. \A p \in Pids : p # NewPid => promise'[p] = promise[p]
      BY <2>1 DEF PromiseOK
    <3>2. promise'[NewPid] = Unset
      BY <2>1 DEF PromiseOK
    <3>3. \A e \in Clients, j \in Keys : futures[e][j] # 0 => futures[e][j] \in Pids
      BY PromiseConstants DEF FuturesOK, TableOK, Pids, PromiseConstants
    <3>. QED  BY <2>4, <3>1, <3>2, <3>3 DEF AnswerInv
  <2>. QED  BY <2>3, <2>5, <2>6 DEF RefInv
<1>2. ASSUME Send(c) \/ Return(c) PROVE RefInv'
  <2>1. UNCHANGED <<uid, table, promise, work, futures>>
    BY <1>2 DEF Send, Return, servVars
  <2>2. PidInv' /\ AnswerInv'
    BY <2>1 DEF PidInv, AnswerInv
  <2>3. ASSUME NEW r \in Req, InFlight(r)' PROVE InFlight(r)
    <3>1. r # NoReq
      BY TableKinds
    <3>2. CASE Return(c)
      <4>1. /\ queue' = queue
            /\ \A e \in Clients : call'[e].next = call[e].next \/ call'[e].next = NoReq
        BY <3>2, TableKinds DEF Return, CallOK, servVars
      <4>. QED  BY <2>1, <2>3, <3>1, <4>1 DEF InFlight
    <3>3. CASE Send(c)
      <4>1. \A e \in Clients : call'[e].next = call[e].next \/ call'[e].next = NoReq
        BY <3>3 DEF Send, CallOK
      <4>2. ASSUME NEW s \in Servers, NEW n \in 1..Len(queue'[s]), queue'[s][n] = r
            PROVE  InFlight(r)
        <5>1. queue[s] \in Seq(Req) /\ call[c].next \in Req
          BY <3>3 DEF ServOK, Send, CallOK
        <5>2. queue'[s] = queue[s] \/ queue'[s] = Append(queue[s], call[c].next)
          BY <3>3 DEF Send, ServOK
        <5>3. CASE queue'[s] = queue[s]
          BY <4>2, <5>3 DEF InFlight
        <5>4. CASE queue'[s] = Append(queue[s], call[c].next)
          <6>1. n \in 1..Len(queue[s]) \/ n = Len(queue[s]) + 1
            BY <5>1, <5>4
          <6>2. n \in 1..Len(queue[s]) => queue[s][n] = r
            BY <4>2, <5>1, <5>4
          <6>3. n = Len(queue[s]) + 1 => call[c].next = r
            BY <4>2, <5>1, <5>4
          <6>. QED  BY <6>1, <6>2, <6>3 DEF InFlight
        <5>. QED  BY <5>2, <5>3, <5>4
      <4>. QED  BY <2>1, <2>3, <3>1, <4>1, <4>2 DEF InFlight
    <3>. QED  BY <1>2, <3>2, <3>3
  <2>4. RequestInv'
    BY <2>1, <2>3 DEF RequestInv, Asked
  <2>. QED  BY <2>2, <2>4 DEF RefInv
<1>3. ASSUME NEW k \in Keys, WaitReady(c, k) \/ WaitTimeout(c, k) PROVE RefInv'
  <2>1. /\ \A e \in Clients, j \in Keys :
               futures'[e][j] = futures[e][j] \/ futures'[e][j] = 0
        /\ UNCHANGED <<uid, table, promise, queue, work, call>>
    BY <1>3, WaitEffect
  <2>2. PidInv' /\ AnswerInv'
    BY <2>1 DEF PidInv, AnswerInv
  <2>3. RequestInv'
    <3>. SUFFICES ASSUME NEW r \in Req, InFlight(r)' PROVE Asked(r)'
      BY DEF RequestInv
    <3>1. InFlight(r)
      BY <2>1 DEF InFlight
    <3>. QED  BY <2>1, <3>1, AskedStays DEF RequestInv
  <2>. QED  BY <2>2, <2>3 DEF RefInv
<1>. QED  BY <1>1, <1>2, <1>3 DEF ClientStep

LEMMA ServerRefInv ==
    ASSUME TypeOK, IdleInv, RefInv, NEW s \in Servers,
           ServerStep(s) \/ TaskReturns(s) \/ TaskEnded(s)
    PROVE  RefInv'
<1>. PidInv /\ RequestInv /\ AnswerInv
  BY DEF RefInv
<1>. TableOK /\ PromiseOK /\ ServOK /\ CallOK /\ FuturesOK
  BY TypeParts
<1>1. ASSUME Take(s) \/ Drop(s) \/ TaskReturns(s) \/ TaskEnded(s) PROVE RefInv'
  <2>1. UNCHANGED <<uid, table, promise, call, futures>>
    BY <1>1 DEF Take, Drop, TaskReturns, TaskEnded, callVars
  <2>2. PidInv' /\ AnswerInv'
    BY <2>1 DEF PidInv, AnswerInv
  <2>3. ASSUME NEW r \in Req, InFlight(r)' PROVE InFlight(r)
    <3>1. r # NoReq
      BY TableKinds
    <3>2. CASE Drop(s) \/ TaskReturns(s) \/ TaskEnded(s)
      <4>1. queue' = queue /\ \A u \in Servers : work'[u] = work[u] \/ work'[u] = NoReq
        BY <3>2 DEF Drop, TaskReturns, TaskEnded, ServOK
      <4>. QED  BY <2>1, <2>3, <3>1, <4>1 DEF InFlight
    <3>3. CASE Take(s)
      <4>1. queue[s] \in Seq(Req) /\ queue[s] # <<>>
        BY <3>3 DEF Take, ServOK
      <4>2. /\ Len(queue[s]) \in Nat /\ Len(queue[s]) >= 1
            /\ Len(Tail(queue[s])) = Len(queue[s]) - 1
            /\ \A n \in 1..Len(Tail(queue[s])) : Tail(queue[s])[n] = queue[s][n + 1]
            /\ Head(queue[s]) = queue[s][1]
        BY <4>1
      <4>3. \A u \in Servers : work'[u] = work[u] \/ (u = s /\ work'[u] = queue[s][1])
        BY <3>3, <4>2 DEF Take, ServOK
      <4>4. \A u \in Servers : queue'[u] = queue[u] \/ (u = s /\ queue'[u] = Tail(queue[s]))
        BY <3>3 DEF Take, ServOK
      <4>5. \A u \in Servers : work'[u] = r => InFlight(r)
        BY <4>2, <4>3 DEF InFlight
      <4>6. ASSUME NEW u \in Servers, NEW n \in 1..Len(queue'[u]), queue'[u][n] = r
            PROVE  InFlight(r)
        <5>1. CASE queue'[u] = queue[u]
          BY <4>6, <5>1 DEF InFlight
        <5>2. CASE u = s /\ queue'[u] = Tail(queue[s])
          <6>1. n + 1 \in 1..Len(queue[s]) /\ queue[s][n + 1] = r
            BY <4>2, <4>6, <5>2
          <6>. QED  BY <6>1 DEF InFlight
        <5>. QED  BY <4>4, <5>1, <5>2
      <4>. QED  BY <2>1, <2>3, <4>5, <4>6 DEF InFlight
    <3>. QED  BY <1>1, <3>2, <3>3
  <2>4. RequestInv'
    BY <2>1, <2>3 DEF RequestInv, Asked
  <2>. QED  BY <2>2, <2>4 DEF RefInv
<1>2. ASSUME NEW d \in Data, Answer(s, d) PROVE RefInv'
  <2>1. /\ work[s] \in Req /\ TableOf(work[s].kind) \in Tables
        /\ UNCHANGED <<uid, queue, call, futures>>
        /\ work' = [work EXCEPT ![s] = NoReq]
    BY <1>2, AnswerEffect
  <2>2. RequestInv'
    <3>1. \A r \in Req : InFlight(r)' => InFlight(r)
      <4>1. \A r \in Req : r # NoReq
        BY TableKinds
      <4>2. \A u \in Servers : work'[u] = work[u] \/ work'[u] = NoReq
        BY <2>1 DEF ServOK
      <4>. QED  BY <2>1, <4>1, <4>2 DEF InFlight
    <3>. QED  BY <2>1, <3>1 DEF RequestInv, Asked
  <2>3. CASE UNCHANGED <<promise, table>>
    BY <2>1, <2>2, <2>3 DEF RefInv, PidInv, AnswerInv
  <2>4. CASE /\ work[s].pid \in table[TableOf(work[s].kind)]
             /\ promise' = [promise EXCEPT ![work[s].pid] = [key |-> work[s].key, data |-> d]]
             /\ table' = [table EXCEPT ![TableOf(work[s].kind)] = @ \ {work[s].pid}]
    <3>1. work[s].pid \in Pids /\ work[s].pid <= uid /\ uid \in Nat
      BY <2>1, <2>4, PromiseConstants DEF Req, TableOK, PromiseConstants, Pids
    <3>2. \A p \in Pids : p # work[s].pid => promise'[p] = promise[p]
      BY <2>4 DEF PromiseOK
    <3>3. promise'[work[s].pid] = [key |-> work[s].key, data |-> d]
      BY <2>4, <3>1 DEF PromiseOK
    <3>4. \A t \in Tables : table'[t] \subseteq table[t] /\ work[s].pid \notin table'[t]
      BY <2>1, <2>4 DEF TableOK, PidInv
    <3>5. \A t \in Tables : table[t] \subseteq Pids
      BY PromiseConstants DEF TableOK, Pids, PromiseConstants
    <3>6. PidInv'
      <4>1. \A p \in Pids : p > uid' => promise'[p] = Unset
        BY <2>1, <3>1, <3>2 DEF PidInv, Pids
      <4>2. \A t \in Tables : \A p \in table'[t] : promise'[p] = Unset
        BY <3>2, <3>4, <3>5 DEF PidInv
      <4>3. \A t, u \in Tables : t # u => table'[t] \cap table'[u] = {}
        BY <3>4 DEF PidInv
      <4>. QED  BY <4>1, <4>2, <4>3 DEF PidInv
    <3>7. AnswerInv'
      <4>1. Asked(work[s])
        BY <2>1 DEF RequestInv, InFlight
      <4>2. \A e \in Clients, j \in Keys : futures[e][j] # 0 => futures[e][j] \in Pids
        BY PromiseConstants DEF FuturesOK, TableOK, Pids, PromiseConstants
      <4>. QED  BY <2>1, <3>2, <3>3, <4>1, <4>2 DEF AnswerInv, Asked
    <3>. QED  BY <2>2, <3>6, <3>7 DEF RefInv
  <2>. QED  BY <1>2, <2>3, <2>4, AnswerEffect
<1>. QED  BY <1>1, <1>2 DEF ServerStep

LEMMA RefInvStep ==
    ASSUME TypeOK, IdleInv, RefInv, [Next]_vars
    PROVE  RefInv'
<1>1. ASSUME NEW c \in Clients, NEW kind \in Kinds, NEW ks \in SUBSET Keys, Begin(c, kind, ks)
      PROVE  RefInv'
  <2>1. UNCHANGED <<uid, table, promise, queue, work, futures>>
    BY <1>1 DEF Begin, servVars
  <2>2. \A e \in Clients : call'[e].next = call[e].next \/ call'[e].next = NoReq
    BY <1>1, TypeParts DEF Begin, CallOK
  <2>3. \A r \in Req : InFlight(r)' => InFlight(r)
    BY <2>1, <2>2, TableKinds DEF InFlight
  <2>. QED  BY <2>1, <2>3 DEF RefInv, PidInv, AnswerInv, RequestInv, Asked
<1>2. CASE UNCHANGED vars
  BY <1>2 DEF vars, servVars, callVars, RefInv, PidInv, AnswerInv, RequestInv, InFlight, Asked
<1>. QED  BY <1>1, <1>2, ClientRefInv, ServerRefInv DEF Next

LEMMA ServiceStep ==
    ASSUME TypeOK, IdleInv, RefInv, [Next]_vars
    PROVE  [Service!Next]_Service!vars
<1>. TableOK /\ PromiseOK /\ ServOK /\ CallOK /\ FuturesOK /\ PidInv /\ AnswerInv
  BY TypeParts DEF RefInv
<1>. Service!Unset = Unset /\ Service!Requests = Pids /\ Service!Nothing = Nothing
  BY DEF Service!Unset, Unset, Service!Requests, Pids, Service!Nothing, Nothing
<1>1. ASSUME NEW c \in Clients, NEW kind \in Kinds, NEW ks \in SUBSET Keys, Begin(c, kind, ks)
      PROVE  Service!Next
  <2>1. \A k \in Keys : futures[c][k] = 0
    BY <1>1 DEF Begin, IdleInv
  <2>2. Service!Begin(c)
    BY <1>1, <2>1 DEF Begin, Service!Begin
  <2>. QED  BY <2>2 DEF Service!Next
<1>2. ASSUME NEW c \in Clients, NEW k \in Keys, Register(c, k) PROVE Service!Next
  <2>1. /\ uid' = NewPid /\ NewPid = uid + 1 /\ NewPid \in Pids /\ uid \in Nat
        /\ promise' = [promise EXCEPT ![NewPid] = Unset]
        /\ futures' = [futures EXCEPT ![c][k] = NewPid]
        /\ k \in call[c].todo /\ UNCHANGED outcome
    BY <1>2, RegisterEffect
  <2>2. promise' = promise
    BY <2>1 DEF PidInv, PromiseOK
  <2>3. futures[c][k] = 0 /\ outcome[c][k] = "none"
    BY <2>1 DEF IdleInv
  <2>4. uid < MaxPid
    BY <2>1, PromiseConstants DEF Pids, PromiseConstants
  <2>5. Service!Ask(c, k)
    BY <2>1, <2>2, <2>3, <2>4 DEF Service!Ask
  <2>. QED  BY <2>5 DEF Service!Next
<1>3. ASSUME NEW c \in Clients, NEW k \in Keys, WaitReady(c, k) PROVE Service!Next
  <2>1. /\ futures' = [futures EXCEPT ![c][k] = 0] /\ futures[c][k] \in Pids
        /\ futures[c][k] # 0 /\ promise[futures[c][k]] # Unset
        /\ outcome' = [outcome EXCEPT ![c][k] = promise[futures[c][k]].data]
        /\ UNCHANGED <<uid, promise>>
    BY <1>3, WaitEffect DEF WaitReady, First, Awaited
  <2>2. PICK d \in Data : promise[futures[c][k]] = [key |-> k, data |-> d]
    <3>1. PICK d \in Data, j \in Keys : promise[futures[c][k]] = [key |-> j, data |-> d]
      BY <2>1 DEF PromiseOK
    <3>2. promise[futures[c][k]].key = k
      BY <2>1 DEF AnswerInv
    <3>. QED  BY <3>1, <3>2
  <2>3. Service!Get(c, k, d)
    BY <2>1, <2>2 DEF Service!Get
  <2>. QED  BY <2>3 DEF Service!Next
<1>4. ASSUME NEW c \in Clients, NEW k \in Keys, WaitTimeout(c, k) PROVE Service!Next
  <2>1. Service!GiveUp(c, k)
    BY <1>4 DEF WaitTimeout, First, Awaited, Service!GiveUp
  <2>. QED  BY <2>1 DEF Service!Next
<1>5. ASSUME NEW s \in Servers, NEW d \in Data, Answer(s, d)
      PROVE  [Service!Next]_Service!vars
  <2>1. work[s] \in Req /\ UNCHANGED <<uid, futures, outcome>>
    BY <1>5, AnswerEffect
  <2>2. CASE UNCHANGED promise
    BY <2>1, <2>2 DEF Service!vars
  <2>3. CASE /\ work[s].pid \in table[TableOf(work[s].kind)]
             /\ promise' = [promise EXCEPT ![work[s].pid] = [key |-> work[s].key, data |-> d]]
    <3>1. TableOf(work[s].kind) \in Tables
      BY <1>5, AnswerEffect
    <3>2. work[s].pid \in 1..uid /\ promise[work[s].pid] = Unset
      BY <2>3, <3>1 DEF TableOK, PidInv
    <3>3. Service!Serve(work[s].pid, work[s].key, d)
      BY <2>1, <2>3, <3>2, PromiseConstants DEF Service!Serve, TableOK, PromiseConstants
    <3>. QED  BY <2>1, <3>3 DEF Service!Next, Req
  <2>. QED  BY <1>5, <2>2, <2>3, AnswerEffect
<1>6. CASE \/ \E c \in Clients : Send(c) \/ Return(c)
           \/ \E s \in Servers : Take(s) \/ Drop(s) \/ TaskReturns(s) \/ TaskEnded(s)
           \/ UNCHANGED vars
  BY <1>6 DEF Send, Return, Take, Drop, TaskReturns, TaskEnded, vars, callVars, Service!vars
<1>. QED  BY <1>1, <1>2, <1>3, <1>4, <1>5, <1>6 DEF Next, ClientStep, ServerStep

\* The promises keep what SbiCall says: every request has an id of its own, is answered
\* at most once, and what a caller gets for a session is the answer to the request
\* this very call made for it, however late the answers to others come in.
THEOREM PromisesImplementCall == Spec => ImplementsCall
<1>1. Init => Service!Init
  BY DEF Init, Service!Init, Pids, Service!Requests, Unset, Service!Unset, NoFutures,
         Nothing, Service!Nothing
<1>2. TypeOK /\ IdleInv /\ RefInv /\ [Next]_vars => RefInv'
  BY RefInvStep
<1>3. TypeOK /\ IdleInv /\ RefInv /\ [Next]_vars => [Service!Next]_Service!vars
  BY ServiceStep
<1>. QED  BY <1>1, <1>2, <1>3, InitRefInv, IdleAlways, PTL DEF Spec, ImplementsCall, Service!Spec
=============================================================================
