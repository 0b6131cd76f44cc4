------------------------------- MODULE SbiCall -------------------------------
(***************************************************************************)
(* What a call through the promises of amf_app promises its caller: every  *)
(* request is a new one, it is answered at most once and the answer never  *)
(* changes, and what the caller gets for a session is the answer to the    *)
(* request it made for that session in this very call, or "late" if there  *)
(* was no answer when it gave up.  An answer may come after that; it then  *)
(* reaches nobody, and above all no later call.                            *)
(***************************************************************************)
EXTENDS Integers

CONSTANTS Clients,     \* the threads that make calls
          Keys,        \* the PDU sessions (or other subjects) of the requests
          Data,        \* what an answer may say
          MaxPid       \* bound: requests made

VARIABLES used,        \* requests made so far; a request is named by its number
          answer,      \* per request, its answer
          wait,        \* per client and key, the request waited for, 0 if none
          outcome      \* per client and key, what the call got

vars == <<used, answer, wait, outcome>>

Requests == 1..MaxPid
Unset == [key |-> 0, data |-> "unset"]
Nothing == [k \in Keys |-> "none"]

Init ==
    /\ used = 0
    /\ answer = [r \in Requests |-> Unset]
    /\ wait = [c \in Clients |-> [k \in Keys |-> 0]]
    /\ outcome = [c \in Clients |-> Nothing]

\* A new call forgets what the one before it got.
Begin(c) ==
    /\ \A k \in Keys : wait[c][k] = 0
    /\ outcome' = [outcome EXCEPT ![c] = Nothing]
    /\ UNCHANGED <<used, answer, wait>>

Ask(c, k) ==
    /\ wait[c][k] = 0 /\ outcome[c][k] = "none"
    /\ used < MaxPid /\ used' = used + 1
    /\ wait' = [wait EXCEPT ![c][k] = used + 1]
    /\ UNCHANGED <<answer, outcome>>

Serve(r, k, d) ==
    /\ r <= used /\ answer[r] = Unset
    /\ answer' = [answer EXCEPT ![r] = [key |-> k, data |-> d]]
    /\ UNCHANGED <<used, wait, outcome>>

Get(c, k, d) ==
    /\ wait[c][k] # 0 /\ answer[wait[c][k]] = [key |-> k, data |-> d]
    /\ wait' = [wait EXCEPT ![c][k] = 0]
    /\ outcome' = [outcome EXCEPT ![c][k] = d]
    /\ UNCHANGED <<used, answer>>

GiveUp(c, k) ==
    /\ wait[c][k] # 0 /\ answer[wait[c][k]] = Unset
    /\ wait' = [wait EXCEPT ![c][k] = 0]
    /\ outcome' = [outcome EXCEPT ![c][k] = "late"]
    /\ UNCHANGED <<used, answer>>

Next ==
    \/ \E c \in Clients : Begin(c)
    \/ \E c \in Clients, k \in Keys : Ask(c, k) \/ GiveUp(c, k)
    \/ \E c \in Clients, k \in Keys, d \in Data : Get(c, k, d)
    \/ \E r \in Requests, k \in Keys, d \in Data : Serve(r, k, d)

Spec == Init /\ [][Next]_vars
=============================================================================
