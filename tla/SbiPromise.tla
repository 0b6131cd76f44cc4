----------------------------- MODULE SbiPromise -----------------------------
(***************************************************************************)
(* Calls between threads of the AMF.  A caller (TASK_AMF_N1, TASK_AMF_N2   *)
(* or a thread of the HTTP server) takes a promise id, enters the promise  *)
(* in one of the three tables of amf_app, sends a message with the id to   *)
(* the task that will answer (TASK_AMF_SBI or TASK_AMF_APP), and waits for *)
(* each of its futures in turn, each for FUTURE_STATUS_TIMEOUT_MS at most. *)
(* That is a tenth of the time TASK_AMF_SBI may spend in curl, so a late   *)
(* answer is an everyday case.  The answering task calls                   *)
(* trigger_process_response, or returns without it on an error.            *)
(*                                                                         *)
(* The kinds of call: "smf" releases the sessions of a UE that             *)
(* deregisters, "n2_sm" updates sessions (release, handover), "json" asks  *)
(* the UDM, NSSF or NRF, "http" is a request of another network function.  *)
(* Requests are told apart by a key: the PDU session id for the first two. *)
(***************************************************************************)
EXTENDS Integers, Sequences, FiniteSets

CONSTANTS Clients,     \* the threads that make calls
          Makes,       \* per client, the kinds of call it makes
          Keys,        \* PDU session ids
          MaxPid       \* bound: promise ids, far below the wrap at 2^32

Kinds == {"smf", "n2_sm", "json", "http"}
Tables == {"smf", "n2_sm", "sbi"}
ASSUME PromiseConstants ==
    /\ Keys \subseteq Nat \ {0} /\ IsFiniteSet(Keys)
    /\ Makes \in [Clients -> SUBSET Kinds]
    /\ MaxPid \in Nat

Pids == 1..MaxPid
Data == {"data", "empty"}
Unset == [key |-> 0, data |-> "unset"]
NoReq == [pid |-> 0, key |-> 0, kind |-> "none"]
NoCall == [kind |-> "none", todo |-> {}, next |-> NoReq]
NoFutures == [k \in Keys |-> 0]
Nothing == [k \in Keys |-> "none"]

\* The table of a kind of call, and the task that answers it.
TableOf(kind) == IF kind \in {"json", "http"} THEN "sbi" ELSE kind
ServerOf(kind) == IF kind = "http" THEN "TASK_AMF_APP" ELSE "TASK_AMF_SBI"
Servers == {ServerOf(kind) : kind \in UNION {Makes[c] : c \in Clients}}

\* What an answer can say: a release reports the HTTP code, 0 if there was none.
DataOf(kind) == IF kind \in {"smf", "http"} THEN {"data"} ELSE Data

VARIABLES
    uid,        \* uint_uid_generator: the ids 1..uid were handed out
    table,      \* amf_app: curl_handle_responses_smf, _n2_sm and _sbi
    promise,    \* per id, what its promise was set to
    queue,      \* itti queue of each answering task
    work,       \* the request it is handling
    state,      \* "READY", "RETURNED" (took TERMINATE), "ENDED" (joined)
    call,       \* per client, its call: the keys to ask for, the message to send
    futures,    \* per client and key, the promise it waits for, 0 if none
    outcome     \* per client and key, what the last call got

callVars == <<call, futures, outcome>>
servVars == <<queue, work, state>>
vars == <<uid, table, promise, servVars, callVars>>

Init ==
    /\ uid = 0
    /\ table = [t \in Tables |-> {}]
    /\ promise = [p \in Pids |-> Unset]
    /\ queue = [s \in Servers |-> <<>>]
    /\ work = [s \in Servers |-> NoReq]
    /\ state = [s \in Servers |-> "READY"]
    /\ call = [c \in Clients |-> NoCall]
    /\ futures = [c \in Clients |-> NoFutures]
    /\ outcome = [c \in Clients |-> Nothing]

-----------------------------------------------------------------------------
(* The caller.                                                             *)

\* Ids that the calls under way may still take.
Reserved == Cardinality({x \in Clients \X Keys : x[2] \in call[x[1]].todo})

\* A handler starts a call; only the session kinds take several keys.
\* Bound: there are ids left for it.
Begin(c, kind, ks) ==
    /\ call[c] = NoCall
    /\ uid + Reserved + Cardinality(ks) <= MaxPid
    /\ kind \in Makes[c]
    /\ ks # {} /\ (kind \in {"json", "http"} => Cardinality(ks) = 1)
    /\ call' = [call EXCEPT ![c] = [kind |-> kind, todo |-> ks, next |-> NoReq]]
    /\ outcome' = [outcome EXCEPT ![c] = Nothing]
    /\ UNCHANGED <<uid, table, promise, servVars, futures>>

\* Mutant of NewPid: ids that nobody waits for are handed out again.
ReusedPid ==
    LET idle == {p \in 1..uid : \A c \in Clients, k \in Keys : futures[c][k] # p}
    IN IF idle = {} THEN uid + 1 ELSE CHOOSE p \in idle : \A q \in idle : p <= q

\* uint_uid_generator::get_uid; nobody calls free_uid for a promise id.
NewPid == uid + 1

\* generate_promise_id and add_promise for one key.  The promise is known
\* before the message that carries its id is sent.
Register(c, k) ==
    /\ k \in call[c].todo /\ call[c].next = NoReq
    /\ NewPid \in Pids
    /\ uid' = IF NewPid > uid THEN NewPid ELSE uid
    /\ promise' = [promise EXCEPT ![NewPid] = Unset]
    /\ table' = [table EXCEPT ![TableOf(call[c].kind)] = @ \cup {NewPid}]
    /\ futures' = [futures EXCEPT ![c][k] = NewPid]
    /\ call' = [call EXCEPT ![c].todo = @ \ {k},
                            ![c].next = [pid |-> NewPid, key |-> k, kind |-> call[c].kind]]
    /\ UNCHANGED <<servVars, outcome>>

\* itti send_msg.  A failure is logged; the caller waits for the answer all
\* the same.
Send(c) ==
    /\ call[c].next # NoReq
    /\ LET s == ServerOf(call[c].kind) IN
       queue' = IF state[s] # "ENDED"
                THEN [queue EXCEPT ![s] = Append(@, call[c].next)]
                ELSE queue
    /\ call' = [call EXCEPT ![c].next = NoReq]
    /\ UNCHANGED <<uid, table, promise, work, state, futures, outcome>>

Awaited(c) == {k \in Keys : futures[c][k] # 0}
Waiting(c) == call[c] # NoCall /\ call[c].todo = {} /\ call[c].next = NoReq

\* The future at begin() of the map: by promise id for a deregistration, by
\* session id otherwise.
First(c, k) ==
    /\ Waiting(c) /\ k \in Awaited(c)
    /\ \A j \in Awaited(c) :
          IF call[c].kind = "smf" THEN futures[c][k] <= futures[c][j] ELSE k <= j

\* wait_for returns ready.
WaitReady(c, k) ==
    /\ First(c, k)
    /\ promise[futures[c][k]] # Unset
    /\ outcome' = [outcome EXCEPT ![c][k] = promise[futures[c][k]].data]
    /\ futures' = [futures EXCEPT ![c][k] = 0]
    /\ UNCHANGED <<uid, table, promise, servVars, call>>

\* Mutant of WaitTimeout: the caller waits without a limit.
WaitForever(c, k) == FALSE /\ First(c, k) /\ UNCHANGED vars

\* Mutant of WaitTimeout: the value is read although the wait timed out.
WaitTimeoutReads(c, k) ==
    /\ First(c, k)
    /\ promise[futures[c][k]] = Unset
    /\ outcome' = [outcome EXCEPT ![c][k] = promise[futures[c][k]].data]
    /\ futures' = [futures EXCEPT ![c][k] = 0]
    /\ UNCHANGED <<uid, table, promise, servVars, call>>

\* wait_for times out.  The promise stays in its table.
WaitTimeout(c, k) ==
    /\ First(c, k)
    /\ promise[futures[c][k]] = Unset
    /\ outcome' = [outcome EXCEPT ![c][k] = "late"]
    /\ futures' = [futures EXCEPT ![c][k] = 0]
    /\ UNCHANGED <<uid, table, promise, servVars, call>>

\* No future is left: the handler goes on, the thread is free again.
Return(c) ==
    /\ Waiting(c) /\ Awaited(c) = {}
    /\ call' = [call EXCEPT ![c] = NoCall]
    /\ UNCHANGED <<uid, table, promise, servVars, futures, outcome>>

-----------------------------------------------------------------------------
(* The task that answers.                                                  *)

\* receive_msg.
Take(s) ==
    /\ state[s] = "READY" /\ work[s] = NoReq /\ queue[s] # <<>>
    /\ work' = [work EXCEPT ![s] = Head(queue[s])]
    /\ queue' = [queue EXCEPT ![s] = Tail(@)]
    /\ UNCHANGED <<uid, table, promise, state, callVars>>

\* Mutant of Trigger: the promise is set, the one at begin() is erased.
TriggerErasesFirst(t, p, k, d) ==
    IF p \in table[t]
    THEN /\ promise' = [promise EXCEPT ![p] = [key |-> k, data |-> d]]
         /\ table' = [table EXCEPT ![t] = @ \ {CHOOSE q \in @ : \A r \in @ : q <= r}]
    ELSE UNCHANGED <<promise, table>>

\* trigger_process_response: set_value and erase, under the table's mutex.
Trigger(t, p, k, d) ==
    IF p \in table[t]
    THEN /\ promise' = [promise EXCEPT ![p] = [key |-> k, data |-> d]]
         /\ table' = [table EXCEPT ![t] = @ \ {p}]
    ELSE UNCHANGED <<promise, table>>

\* The handler got its answer from curl, or has computed it.
Answer(s, d) ==
    /\ work[s] # NoReq /\ d \in DataOf(work[s].kind)
    /\ Trigger(TableOf(work[s].kind), work[s].pid, work[s].key, d)
    /\ work' = [work EXCEPT ![s] = NoReq]
    /\ UNCHANGED <<uid, queue, state, callVars>>

\* The handler returns without an answer: no UE context for the pair of ids,
\* no session context, no URI, no connection, a code or body it does not
\* expect.  The handlers of "json" and "http" always answer.
Drop(s) ==
    /\ work[s] # NoReq /\ work[s].kind \in {"smf", "n2_sm"}
    /\ work' = [work EXCEPT ![s] = NoReq]
    /\ UNCHANGED <<uid, table, promise, queue, state, callVars>>

\* The task takes TERMINATE; what is queued behind it stays there.
TaskReturns(s) ==
    /\ state[s] = "READY" /\ work[s] = NoReq
    /\ state' = [state EXCEPT ![s] = "RETURNED"]
    /\ UNCHANGED <<uid, table, promise, queue, work, callVars>>

\* wait_tasks_end has joined it.
TaskEnded(s) ==
    /\ state[s] = "RETURNED"
    /\ state' = [state EXCEPT ![s] = "ENDED"]
    /\ UNCHANGED <<uid, table, promise, queue, work, callVars>>

-----------------------------------------------------------------------------
ClientStep(c) ==
    \/ \E k \in Keys : Register(c, k) \/ WaitReady(c, k) \/ WaitTimeout(c, k)
    \/ Send(c) \/ Return(c)

ServerStep(s) == Take(s) \/ Drop(s) \/ \E d \in Data : Answer(s, d)

Next ==
    \/ \E c \in Clients :
         \/ \E kind \in Kinds, ks \in SUBSET Keys : Begin(c, kind, ks)
         \/ ClientStep(c)
    \/ \E s \in Servers : ServerStep(s) \/ TaskReturns(s) \/ TaskEnded(s)

Spec == Init /\ [][Next]_vars

\* A thread in a call keeps running, and its waits are bounded by the clock.
\* Nothing is assumed of the task that should answer.
FairSpec == Spec /\ \A c \in Clients : WF_vars(ClientStep(c))

-----------------------------------------------------------------------------
Req == [pid : Pids, key : Keys, kind : Kinds]

\* Every variable has its type, and the entries of the tables are ids that
\* were handed out.
TypeOK ==
    /\ uid \in 0..MaxPid
    /\ table \in [Tables -> SUBSET (1..uid)]
    /\ promise \in [Pids -> {Unset} \cup [key : Keys, data : Data]]
    /\ queue \in [Servers -> Seq(Req)]
    /\ work \in [Servers -> Req \cup {NoReq}]
    /\ state \in [Servers -> {"READY", "RETURNED", "ENDED"}]
    /\ call \in [Clients -> [kind : Kinds \cup {"none"}, todo : SUBSET Keys,
                             next : Req \cup {NoReq}]]
    /\ futures \in [Clients -> [Keys -> 0..uid]]
    /\ outcome \in [Clients -> [Keys -> Data \cup {"late", "none"}]]

\* An answer that comes in time is not lost: a promise that a caller waits
\* for is set, or still in the table where the answering task will look it
\* up (add_promise before send_msg; erase only of the promise that is set).
AwaitedIsSetOrKnown ==
    \A c \in Clients : \A k \in Awaited(c) :
        \/ promise[futures[c][k]] # Unset
        \/ futures[c][k] \in table[TableOf(call[c].kind)]

Service == INSTANCE SbiCall WITH used <- uid, answer <- promise, wait <- futures

\* The promises keep what SbiCall says: an answer, however late, reaches
\* only the call that asked for it (generate_promise_id, add_promise,
\* trigger_process_response and the waiting loops).
ImplementsCall == Service!Spec

\* A thread that calls gets back to its own work whatever the answering task
\* does, even if it is stuck or has ended (wait_for in the handlers).
CallReturns == \A c \in Clients : call[c] # NoCall ~> call[c] = NoCall
=============================================================================
