----------------------------- MODULE PduSession -----------------------------
(* The PDU sessions of one registered UE: session management messages that *)
(* travel UE -> SMF and SMF -> UE and gNB through the queues of four tasks, *)
(* while the threads of the HTTP server accept what the SMF sends on its    *)
(* own account.  TASK_AMF_SBI blocks during each request to the SMF.  The   *)
(* SMF, the gNB and the UE are the environment.                             *)
(* Left out: the copy of the last N2 information that the session keeps for *)
(* a later Service Request (psc->n1sm, psc->n2sm), the choice of the SMF,    *)
(* slices and DNNs.  The NAS context and the ue_context of the UE belong to *)
(* modules AmfN1 and NgapContexts: whether a task finds them is a choice.   *)
EXTENDS Integers, Sequences, FiniteSets

CONSTANTS
    Sids,           \* PDU session ids
    Kinds,          \* what a transfer carries, of AllKinds
    Threads,        \* threads of the HTTP server
    MaxContexts,    \* bound on the SM contexts the SMF creates
    MaxTransfers,   \* bound on the transfers from the SMF
    MaxAsks,        \* bound on what the UE begins: messages, returns, registrations
    None

\* The N2 information that comes with a transfer: PDU_RES_SETUP_REQ,
\* PDU_RES_REL_CMD, PDU_RES_MOD_REQ, or none (N1 only).
AllKinds == {"setup", "release", "modify", "n1"}

ASSUME PduAssumption ==
    /\ Kinds \subseteq AllKinds /\ "n1" \in Kinds
    /\ MaxContexts \in Nat /\ MaxTransfers \in Nat /\ MaxAsks \in Nat
    /\ None \notin Sids \cup Int
    /\ "sbi" \notin Threads

Tasks == {"app", "n1", "n2", "sbi"}

VARIABLES
    location,   \* per session: None, or the SM context whose Location the
                \* session keeps (0: not known yet)
    requested,  \* uc->isUeContextRequest
    linked,     \* the UE has an NGAP context and its gNB an association
    queue,      \* the ITTI queues
    calling,    \* the request TASK_AMF_SBI waits for, or None
    storing,    \* per HTTP thread: the transfer it has accepted and not yet
                \* sent to TASK_AMF_APP, 0 if none
    transfers,  \* the transfers accepted so far, with what became of each
    toGnb,      \* transfers in the order amf_n2 sent them (history)
    contexts,   \* the SMF's SM contexts, per id: its session, whether the AMF
                \* has got its 201 Created, whether it exists still (external)
    asks,       \* how often the UE has asked or come back (bound)
    dead        \* a null pointer was used

vars == <<location, requested, linked, queue, calling, storing, transfers,
          toGnb, contexts, asks, dead>>
ue   == <<requested, linked, asks>>

NewTransfer(s, k, c, src) ==
    [sid |-> s, kind |-> k, ctx |-> c, src |-> src, fate |-> "accepted"]

Init ==
    /\ location = [s \in Sids |-> None]
    /\ requested \in BOOLEAN
    /\ linked = TRUE
    /\ queue = [t \in Tasks |-> <<>>]
    /\ calling = None
    /\ storing = [h \in Threads |-> 0]
    /\ transfers = <<>> /\ toGnb = <<>> /\ contexts = <<>>
    /\ asks = 0 /\ dead = FALSE

\* Messages: what is asked, for which session, about which transfer.
Msg(what, s, n) == [what |-> what, sid |-> s, n |-> n]

Heads(t, what) == queue[t] # <<>> /\ Head(queue[t]).what = what

\* queue after task t has taken its first message, and sent m to u.
Forward(t, u, m) == queue' = [queue EXCEPT ![t] = Tail(@), ![u] = Append(@, m)]
Take(t) == queue' = [queue EXCEPT ![t] = Tail(@)]
Send(u, m) == queue' = [queue EXCEPT ![u] = Append(@, m)]

Settle(n, f) == transfers' = [transfers EXCEPT ![n].fate = f]
-----------------------------------------------------------------------------
(* The environment.                                                        *)

\* The UE sends UL NAS TRANSPORT: an establishment request, or another session
\* management message (which goes to the SMF as an update).
UeAsks(s, what) ==
    /\ linked /\ asks < MaxAsks
    /\ asks' = asks + 1
    /\ Send("n1", Msg(what, s, 0))
    /\ UNCHANGED <<location, requested, linked, calling, storing, transfers,
                   toGnb, contexts, dead>>

\* The UE's NGAP context is released; the UE comes back with a new one.
UeMoves ==
    /\ linked' = ~linked
    /\ asks' = IF linked' THEN asks + 1 ELSE asks
    /\ asks' <= MaxAsks
    /\ UNCHANGED <<location, requested, queue, calling, storing, transfers,
                   toGnb, contexts, dead>>

\* An initial registration puts a new ue_context, without sessions, under the
\* SUPI; the UE comes with or without UE Context Request.
Reregistered ==
    /\ asks < MaxAsks /\ asks' = asks + 1
    /\ location' = [s \in Sids |-> None]
    /\ requested' \in BOOLEAN
    /\ linked' = TRUE
    /\ UNCHANGED <<queue, calling, storing, transfers, toGnb, contexts, dead>>

\* The SMF creates the context it is asked for.
SmfCreates ==
    /\ calling # None /\ calling.what = "create" /\ calling.n = 0
    /\ Len(contexts) < MaxContexts
    /\ contexts' = Append(contexts, [sid |-> calling.sid, known |-> FALSE, open |-> TRUE])
    /\ calling' = [calling EXCEPT !.n = Len(contexts) + 1]
    /\ UNCHANGED <<location, ue, queue, storing, transfers, toGnb, dead>>

\* The SMF notifies that a session is released; the handler of the callback
\* waits for TASK_AMF_APP, the answer is in module SbiPromise.
SmfReleased(c) ==
    /\ contexts[c].open
    /\ contexts' = [contexts EXCEPT ![c].open = FALSE]
    /\ Send("app", Msg("released", contexts[c].sid, 0))
    /\ UNCHANGED <<location, ue, calling, storing, transfers, toGnb, dead>>

\* The gNB answers a setup request or a release command: the SCTP thread sends
\* the first session of the list to TASK_AMF_SBI.  An answer that cannot be
\* decoded, or whose UE has no NAS context, changes nothing.
GnbAnswers(n) ==
    /\ linked /\ transfers[n].fate = "sent"
    /\ transfers[n].kind # "n1"
    /\ Settle(n, "answered")
    /\ Send("sbi", Msg("update", transfers[n].sid, n))
    /\ UNCHANGED <<location, ue, calling, storing, toGnb, contexts, dead>>

\* One that lists only sessions which were not set up goes no further; for one
\* of the causes the session is looked up, and used also when there is none.
GnbRefuses(n) ==
    /\ linked /\ transfers[n].fate = "sent" /\ transfers[n].kind = "setup"
    /\ Settle(n, "refused")
    /\ dead' \in {FALSE, location[transfers[n].sid] = None}
    /\ UNCHANGED <<location, ue, queue, calling, storing, toGnb, contexts>>
-----------------------------------------------------------------------------
(* The HTTP server: N1N2MessageTransfer.                                   *)

\* The API looks the session up and, when there is none, logs that and goes on
\* to use the null pointer (HTTP/1 server).
HttpAccepts(h, c, k) ==
    /\ contexts[c].open /\ storing[h] = 0
    /\ IF location[contexts[c].sid] = None
         THEN dead' = TRUE /\ UNCHANGED <<storing, transfers>>
         ELSE /\ Len(transfers) < MaxTransfers
              /\ transfers' = Append(transfers, NewTransfer(contexts[c].sid, k, c, h))
              /\ storing' = [storing EXCEPT ![h] = Len(transfers')]
              /\ UNCHANGED dead
    /\ UNCHANGED <<location, ue, queue, calling, toGnb, contexts>>

\* The SMF has its answer before the message is sent to TASK_AMF_APP: by then
\* another thread may have accepted the next one.
HttpSends(h) ==
    /\ storing[h] # 0
    /\ \E what \in {"transfer", "paging"} :
         Send("app", Msg(what, transfers[storing[h]].sid, storing[h]))
    /\ storing' = [storing EXCEPT ![h] = 0]
    /\ UNCHANGED <<location, ue, calling, transfers, toGnb, contexts, dead>>
-----------------------------------------------------------------------------
(* TASK_AMF_SBI.                                                           *)

\* A create request finds or makes the session, and is given up there if no SMF
\* is found for it; an update needs the session.
SbiCalls ==
    /\ calling = None /\ queue["sbi"] # <<>>
    /\ LET m == Head(queue["sbi"]) IN
         \/ /\ m.what = "create"
            /\ location' = [location EXCEPT ![m.sid] = IF @ = None THEN 0 ELSE @]
            /\ calling' \in {m, None}
         \/ /\ m.what = "update"
            /\ calling' = IF location[m.sid] = None THEN None ELSE m
            /\ UNCHANGED location
    /\ Take("sbi")
    /\ UNCHANGED <<ue, storing, transfers, toGnb, contexts, dead>>

\* Mutant of Located: a Location is kept once and for all.
LocatedOnce(old, c) == IF old = 0 THEN c ELSE old

\* Mutant of Located: the header is cut at the wrong place.
LocatedBeside(old, c) == IF old = None THEN None ELSE c + 1

\* The Location header of a success response; a session that was removed while
\* TASK_AMF_SBI waited is written through the pointer it holds, and is not
\* in the table any more.
Located(old, c) == IF old = None THEN None ELSE c

\* The answer, if it has more than one part, becomes a transfer.
Answer(k, c) ==
    IF k = None
      THEN UNCHANGED <<transfers, queue>>
      ELSE /\ Len(transfers) < MaxTransfers
           /\ transfers' = Append(transfers, NewTransfer(calling.sid, k, c, "sbi"))
           /\ Send("app", Msg("transfer", calling.sid, Len(transfers')))

\* The SMF answers with success: 201 for a context it created, or the answer to
\* an update.
SbiSucceeds ==
    /\ calling # None
    /\ calling.what = "create" => calling.n # 0
    /\ \E k \in Kinds \cup {None} :
         Answer(k, IF calling.what = "create" THEN calling.n
                                              ELSE location[calling.sid])
    /\ IF calling.what = "create"
         THEN /\ location' = [location EXCEPT ![calling.sid] = Located(@, calling.n)]
              /\ contexts' = [contexts EXCEPT ![calling.n].known = TRUE]
         ELSE UNCHANGED <<location, contexts>>
    /\ calling' = None
    /\ UNCHANGED <<ue, storing, toGnb, dead>>

\* An error, whose N1 part goes to the UE, or no answer within CURL_TIMEOUT_MS:
\* the SMF may have created the context all the same.
SbiFails ==
    /\ calling # None
    /\ \E k \in {"n1", None} : Answer(k, 0)
    /\ calling' = None
    /\ UNCHANGED <<location, ue, storing, toGnb, contexts, dead>>
-----------------------------------------------------------------------------
(* TASK_AMF_APP, TASK_AMF_N1, TASK_AMF_N2.                                 *)

\* Mutant of NextTask: what carries no N2 information needs no look at the
\* session, and goes to TASK_AMF_N2 at once.
NextTaskSkips(n) == IF transfers[n].kind = "n1" THEN "n2" ELSE "n1"
NextTask(n) == "n1"

\* A transfer is made into a DL NAS TRANSPORT; one that asks for paging
\* (ppi) only pages, and its content waits for a Service Request.
AppHandles ==
    /\ queue["app"] # <<>>
    /\ LET m == Head(queue["app"]) IN
         \/ /\ m.what = "transfer"
            /\ Forward("app", NextTask(m.n), Msg("downlink", m.sid, m.n))
            /\ UNCHANGED <<location, transfers>>
         \/ /\ m.what = "paging"
            /\ Forward("app", "n2", Msg("paging", m.sid, m.n))
            /\ Settle(m.n, "paged")
            /\ UNCHANGED location
         \/ /\ m.what = "released"
            /\ Take("app")
            /\ location' = [location EXCEPT ![m.sid] = None]
            /\ UNCHANGED transfers
    /\ UNCHANGED <<ue, calling, storing, toGnb, contexts, dead>>

\* find_pdu_session_context: supi2ue_ctx has the UE under its SUPI, which is
\* "imsi-" and the IMSI.
Found(key, s) == key = "supi" /\ location[s] # None

\* Only the branch for PDU_RES_MOD_REQ looks the session up, by the bare IMSI.
KeyOfModify == "imsi"

\* Mutant of GivenUp: the return after the log line is missing.
GivenUpAndSent(n, why) == /\ Forward("n1", "n2", Head(queue["n1"]))
                          /\ Settle(n, why)

GivenUp(n, why) == Take("n1") /\ Settle(n, why)

\* The N1 part is protected; N2 information chooses the NGAP message.  Any
\* transfer is given up when there is no NAS context under its AMF id, or none
\* with a security context, one that is not for a release or a modification
\* also without a ue_context.
N1Downlink ==
    /\ Heads("n1", "downlink")
    /\ LET m == Head(queue["n1"])
           missing == transfers[m.n].kind = "modify" /\ ~Found(KeyOfModify, m.sid)
       IN \/ GivenUp(m.n, "unknown")
          \/ missing /\ GivenUp(m.n, "dropped")
          \/ ~missing /\ Forward("n1", "n2", m) /\ UNCHANGED transfers
    /\ UNCHANGED <<location, ue, calling, storing, toGnb, contexts, dead>>

N1Uplink ==
    /\ Heads("n1", "create") \/ Heads("n1", "update")
    /\ Forward("n1", "sbi", Head(queue["n1"]))
    /\ UNCHANGED <<location, ue, calling, storing, transfers, toGnb, contexts, dead>>

\* A UE that did not ask for a context gets its session in an Initial Context
\* Setup Request, into which the N2 information is not put: amf_n1 leaves
\* is_n2sm_avaliable FALSE.
Bare(n) == transfers[n].kind = "setup" /\ ~requested

\* A setup request, Initial Context Setup Request, modify request, release
\* command, DL NAS TRANSPORT or PAGING goes to the gNB.
N2Handles ==
    /\ queue["n2"] # <<>>
    /\ LET m == Head(queue["n2"]) IN
         IF m.what = "paging" THEN UNCHANGED <<transfers, toGnb>>
         ELSE IF ~linked THEN Settle(m.n, "unlinked") /\ UNCHANGED toGnb
         ELSE /\ Settle(m.n, IF Bare(m.n) THEN "bare" ELSE "sent")
              /\ toGnb' = Append(toGnb, m.n)
    /\ Take("n2")
    /\ UNCHANGED <<location, ue, calling, storing, contexts, dead>>

\* The handlers of PAGING, which needs the UE's NGAP context only, and of the two
\* setup requests use the NAS context also when there is none.
N2UsesNull ==
    /\ queue["n2"] # <<>> /\ linked
    /\ LET m == Head(queue["n2"]) IN m.what = "paging" \/ transfers[m.n].kind = "setup"
    /\ dead' = TRUE
    /\ UNCHANGED <<location, ue, queue, calling, storing, transfers, toGnb, contexts>>
-----------------------------------------------------------------------------
Environment ==
    \/ \E s \in Sids, what \in {"create", "update"} : UeAsks(s, what)
    \/ UeMoves \/ Reregistered \/ SmfCreates
    \/ \E c \in DOMAIN contexts :
         \/ SmfReleased(c)
         \/ \E h \in Threads, k \in Kinds : HttpAccepts(h, c, k)
    \/ \E n \in DOMAIN transfers : GnbAnswers(n) \/ GnbRefuses(n)

Next ==
    /\ ~dead
    /\ \/ Environment
       \/ AppHandles \/ N1Downlink \/ N1Uplink \/ N2Handles \/ N2UsesNull
       \/ SbiCalls \/ SbiSucceeds \/ SbiFails
       \/ \E h \in Threads : HttpSends(h)

Spec == Init /\ [][Next]_vars
-----------------------------------------------------------------------------
\* Types; a transfer that a thread or a queue holds is one that was accepted.
TypeOK ==
    /\ location \in [Sids -> {None} \cup 0..Len(contexts)]
    /\ requested \in BOOLEAN /\ linked \in BOOLEAN /\ dead \in BOOLEAN
    /\ \A t \in Tasks : \A k \in DOMAIN queue[t] :
         queue[t][k] \in [what : {"create", "update", "transfer", "paging",
                                  "released", "downlink"},
                          sid : Sids, n : 0..Len(transfers)]
    /\ calling # None =>
         calling \in [what : {"create", "update"}, sid : Sids, n : Nat]
    /\ storing \in [Threads -> 0..Len(transfers)]
    /\ \A n \in DOMAIN transfers :
         transfers[n] \in [sid : Sids, kind : Kinds, ctx : {None} \cup 0..MaxContexts,
                           src : Threads \cup {"sbi"},
                           fate : {"accepted", "unknown", "dropped", "paged",
                                   "unlinked", "bare", "sent", "answered", "refused"}]
    /\ asks \in 0..MaxAsks

\* Where the pipeline holds a transfer that is not settled.
Places(n) ==
    {<<"http", h>> : h \in {x \in Threads : storing[x] = n}} \cup
    UNION {{<<t, k>> : k \in {x \in DOMAIN queue[t] :
                                /\ queue[t][x].what \in {"transfer", "downlink"}
                                                        \cup IF t = "app" THEN {"paging"} ELSE {}
                                /\ queue[t][x].n = n}} : t \in Tasks}

\* From its acceptance until it is settled a transfer is in one place, whatever
\* the threads do, one that was given up or paged for is in none, and none is
\* sent twice: of the handlers on its way each passes it on or settles it, never
\* both and never neither.
TransferIsConserved ==
    \A n \in DOMAIN transfers :
        /\ Cardinality(Places(n)) = IF transfers[n].fate = "accepted" THEN 1 ELSE 0
        /\ Cardinality({i \in DOMAIN toGnb : toGnb[i] = n}) <= 1

\* What one thread has accepted for a session reaches the gNB in that order,
\* whichever way each of them takes through the tasks.
OrderKept ==
    \A i, j \in DOMAIN toGnb :
        LET a == transfers[toGnb[i]]  b == transfers[toGnb[j]] IN
        i < j /\ a.src = b.src /\ a.sid = b.sid => toGnb[i] < toGnb[j]

\* The gNB's answer never goes to another SM context than the one that asked for
\* it, when that is the session's newest and the AMF has got its Location:
\* TASK_AMF_SBI handles no update while it waits for the SMF to create a
\* context.  (It may go to none, when the session has been removed or made
\* anew since.)
Newest(c) == \A d \in DOMAIN contexts : contexts[d].sid = contexts[c].sid => d <= c
AnswerStaysInItsContext ==
    calling # None /\ calling.what = "update" /\ calling.n # 0 =>
        LET c == transfers[calling.n].ctx IN
        c \in DOMAIN contexts /\ Newest(c) /\ contexts[c].known =>
            location[calling.sid] \in {c, 0, None}

\* Violated: a modify request from the SMF is given up only when the AMF does not
\* have its session.
ModifyFindsItsSession ==
    [][\A n \in DOMAIN transfers :
         transfers'[n].fate = "dropped" /\ transfers[n].fate # "dropped"
            => location[transfers[n].sid] = None]_vars
=============================================================================
