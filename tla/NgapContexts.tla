---------------------------- MODULE NgapContexts ----------------------------
(***************************************************************************)
(* The registry of gNB associations and UE contexts of the AMF: what       *)
(* amf_n2.cpp (task TASK_AMF_N2), ngap_app.cpp (SCTP receiver thread),     *)
(* amf_app.cpp (task TASK_AMF_APP) and amf_n1.cpp (task TASK_AMF_N1) do to *)
(* the maps they share when gNBs attach, reset and go away while UEs       *)
(* attach, talk and deregister.                                            *)
(*                                                                         *)
(* The maps are C++ maps of shared pointers.  An ngap context of a UE is   *)
(* an object of the heap `unc'; the number 0 stands for "no entry".  The   *)
(* gNB context of an association is created once and never freed, so it is *)
(* named by its association.  Without the GUTI path (module scope) a       *)
(* nas_context is created under one AMF UE NGAP ID and keeps it, so it is  *)
(* named by that id.                                                       *)
(*                                                                         *)
(* A PDU from a gNB is received, queued and handled in one step: gNBs are  *)
(* not constrained by what the AMF did with their earlier PDUs, so each    *)
(* interleaving with a separate queue is one of these.  Messages between   *)
(* the tasks carry ids that go stale and are kept in FIFO queues.          *)
(*                                                                         *)
(* Every map has a lock of its own.  What removes a UE (TASK_AMF_N2) and   *)
(* what sets one up (TASK_AMF_APP, TASK_AMF_N1) goes from map to map, one  *)
(* step for each, and the other tasks run in between.                      *)
(***************************************************************************)
EXTENDS Integers, Sequences

CONSTANTS Assocs,     \* SCTP association ids
          RanIds,     \* RAN UE NGAP IDs
          Imsis,      \* subscribers
          OwnRan,     \* the RAN UE NGAP IDs that the gNB on an association hands out
          MaxAmf,     \* bound: AMF UE NGAP IDs generated
          MaxUnc,     \* bound: ue_ngap_context objects allocated
          QueueCap,   \* bound: messages in a task's queue
          MaxProcs    \* bound: NG interface procedures and association changes

ASSUME NgapConstants ==
    /\ Assocs \subseteq Nat \ {0}
    /\ RanIds \subseteq Nat \ {0}
    /\ Imsis \subseteq Nat \ {0}
    /\ OwnRan \in [Assocs -> SUBSET RanIds]
    /\ MaxAmf \in Nat /\ MaxUnc \in Nat /\ QueueCap \in Nat
    /\ MaxProcs \in Nat

AmfIds == 1..MaxAmf
Objs == 1..MaxUnc
Free == -1                \* at a gNB: the RAN UE NGAP ID is not in use

\* A release of TASK_AMF_N2: `todo' is the snapshot of its loop, `step' the next
\* step of the removal function it is in ("turn" between two of them) and the rest
\* the locals: the ngap context `obj' (0 if there is an AMF id only), the ids the
\* functions are called with, and what was read of the NAS context `nc'.
\* `settled' is history: see SettledUeIsGone.
Job(kind, a, todo) ==
    [kind |-> kind, assoc |-> a, todo |-> todo, step |-> "turn", obj |-> 0, ran |-> 0,
     amf |-> 0, nc |-> 0, imsi |-> 0, settled |-> FALSE]

Idle == Job("none", 0, {})
NoApp == [step |-> "none", ran |-> 0, amf |-> 0, obj |-> 0]
NoN1 == [ran |-> 0, amf |-> 0]

VARIABLES
    link,         \* SCTP association: "none", "up" or "closed"
    gnbState,     \* gnb_context::ng_state, "absent" when assoc2gnbContext has no entry
    unc,          \* heap of ue_ngap_context
    nUnc,         \* objects allocated so far
    ran2unc,      \* amf_n2::ranid2uecontext
    amf2unc,      \* amf_n2::amfueid2uecontext
    nextAmf,      \* amf_app_ue_ngap_id_generator
    ueCtx,        \* keys of amf_app::ue_ctx_key, pairs <<ran id, amf id>>
    nas,          \* heap of nas_context, by AMF UE NGAP ID
    amf2nas,      \* keys of amf_n1::amfueid2nas_context
    imsi2nas,     \* amf_n1::imsi2nas_context
    n2job,        \* the release TASK_AMF_N2 is in, see below
    appJob,       \* the establishment TASK_AMF_APP is in: its next step and its locals
    n1job,        \* the establishment TASK_AMF_N1 has stored a bare nas_context for
    appq, n1q, n2q, \* itti queues of the three tasks
    procs,        \* bound counter: NG interface procedures so far
    view,         \* external: per gNB and RAN id, the AMF id the gNB was told
    alive         \* FALSE once an exception escaped a task

gnbVars == <<link, gnbState>>
uncVars == <<unc, nUnc, ran2unc, amf2unc>>
nasVars == <<nas, amf2nas, imsi2nas, n1job>>
appVars == <<nextAmf, ueCtx, appJob>>
queues  == <<appq, n1q, n2q>>
vars == <<gnbVars, uncVars, nasVars, appVars, queues, n2job, procs, view, alive>>

Init ==
    /\ link = [a \in Assocs |-> "none"]
    /\ gnbState = [a \in Assocs |-> "absent"]
    /\ unc = [o \in Objs |-> [ran |-> 0, amf |-> 0, assoc |-> 0]]
    /\ nUnc = 0
    /\ ran2unc = [r \in RanIds |-> 0]
    /\ amf2unc = [m \in AmfIds |-> 0]
    /\ nextAmf = 1
    /\ ueCtx = {}
    /\ nas = [m \in AmfIds |-> [ran |-> 0, imsi |-> 0]]
    /\ amf2nas = {}
    /\ imsi2nas = [i \in Imsis |-> 0]
    /\ n2job = Idle
    /\ appJob = NoApp
    /\ n1job = NoN1
    /\ appq = <<>> /\ n1q = <<>> /\ n2q = <<>>
    /\ view = [a \in Assocs |-> [r \in RanIds |-> Free]]
    /\ procs = 0
    /\ alive = TRUE

-----------------------------------------------------------------------------
(* Guards shared by the handlers.                                          *)

\* TASK_AMF_N2 is between two messages.
N2Free == alive /\ n2job = Idle

\* The gNB on association a can send a PDU that TASK_AMF_N2 takes next.
FromGnb(a) == N2Free /\ link[a] = "up"

Room(q) == Len(q) < QueueCap

\* Bound: one more NG interface procedure.
Counted == procs < MaxProcs /\ procs' = procs + 1

-----------------------------------------------------------------------------
(* The SCTP receiver thread: gNB contexts come into being.                 *)

\* COMM_UP.  An existing context is reused, whatever state it is in.  The
\* kernel does not reuse an association id that is still being torn down.
SctpNewAssociation(a) ==
    /\ alive /\ n2job.assoc # a
    /\ link[a] \in {"none", "closed"}
    /\ Counted
    /\ link' = [link EXCEPT ![a] = "up"]
    /\ gnbState' = [gnbState EXCEPT ![a] = "INIT"]
    /\ UNCHANGED <<uncVars, nasVars, appVars, queues, n2job, view, alive>>

-----------------------------------------------------------------------------
(* TASK_AMF_N2: the interface management procedures.                       *)

\* NG Setup Request.  The gNB is taken if it serves a PLMN that the AMF serves too,
\* whatever state its context is in; if not, nothing here changes.
NgSetup(a) ==
    /\ FromGnb(a)
    /\ Counted
    /\ gnbState' = [gnbState EXCEPT ![a] = "READY"]
    /\ UNCHANGED <<link, uncVars, nasVars, appVars, queues, n2job, view, alive>>

\* Mutant of UeContextsOf: the association is not compared.
AllUeContexts(a) == {ran2unc[r] : r \in {x \in RanIds : ran2unc[x] # 0}}

\* get_ue_ngap_contexts: the contexts found through ranid2uecontext.
UeContextsOf(a) ==
    {ran2unc[r] : r \in {x \in RanIds : ran2unc[x] # 0 /\ unc[ran2unc[x]].assoc = a}}

\* NG Reset of the whole interface: the gNB forgets its UEs, the AMF starts
\* to release theirs.
NgResetAll(a) ==
    /\ FromGnb(a)
    /\ Counted
    /\ gnbState' = [gnbState EXCEPT ![a] = "RESETING"]
    /\ n2job' = Job("reset", a, UeContextsOf(a))
    /\ view' = [view EXCEPT ![a] = [r \in RanIds |-> Free]]
    /\ UNCHANGED <<link, uncVars, nasVars, appVars, queues, alive>>

\* The association went down; the server reads no more from it and reports it once.
NgShutdown(a) ==
    /\ FromGnb(a)
    /\ Counted
    /\ link' = [link EXCEPT ![a] = "closed"]
    /\ gnbState' = [gnbState EXCEPT ![a] = "SHUTDOWN"]
    /\ n2job' = Job("shutdown", a, UeContextsOf(a))
    /\ view' = [view EXCEPT ![a] = [r \in RanIds |-> Free]]
    /\ UNCHANGED <<uncVars, nasVars, appVars, queues, alive>>

-----------------------------------------------------------------------------
(* The two removal functions of amf_n2, one lock after the other.          *)

\* RAN id r has no establishment under way.
Settled(r) ==
    /\ appJob.ran # r /\ n1job.ran # r
    /\ \A k \in 1..Len(appq) : appq[k] # r
    /\ \A k \in 1..Len(n1q) : n1q[k].estab => n1q[k].ran # r

\* The AMF id a removal function works with: by AMF id the one it was called with (a
\* bit field, so a copy), by RAN id the one in the context, read again at every use.
JobAmf == IF n2job.step \in {"amf.nas", "amf.unc"} THEN n2job.amf ELSE unc[n2job.obj].amf

\* The NAS context is looked up under AMF id m: if there is one, the function goes
\* on at step `found', else at step `lost'.
LookUpNas(job, m, found, lost) ==
    IF m \in amf2nas THEN [job EXCEPT !.nc = m, !.imsi = nas[m].imsi, !.step = found]
                     ELSE [job EXCEPT !.step = lost]

\* remove_ue_context_with_amf_ue_ngap_id(m) begins.
LookUpByAmf(job, m) == LookUpNas([job EXCEPT !.amf = m], m, "amf.nas", "amf.unc")

\* A removal function returns.
EndTurn(job) == Job(job.kind, job.assoc, job.todo)

\* remove_ue_context_with_ran_ue_ngap_id(job.ran) begins.
LookUpByRan(job) ==
    LET o == ran2unc[job.ran] IN
    IF o = 0 THEN EndTurn(job)
             ELSE LookUpNas([job EXCEPT !.obj = o], unc[o].amf, "ran.nas", "ran.unc")

\* NG Reset of one UE association: by AMF id if the item has one, else by RAN id.
NgResetPart(a, r, byAmf) ==
    /\ FromGnb(a) /\ view[a][r] # Free
    /\ byAmf => view[a][r] # 0
    /\ Counted
    /\ gnbState' = [gnbState EXCEPT ![a] = "RESETING"]
    /\ LET job == Job("part", a, {}) IN
       n2job' = IF byAmf THEN LookUpByAmf(job, view[a][r])
                         ELSE LookUpByRan([job EXCEPT !.ran = r])
    /\ view' = [view EXCEPT ![a][r] = Free]
    /\ UNCHANGED <<link, uncVars, nasVars, appVars, queues, alive>>

\* One turn of the loop of NG Reset and NG Shutdown: by AMF id, then by RAN id.
ReleaseByAmf(o) ==
    /\ alive /\ n2job.step = "turn" /\ o \in n2job.todo
    /\ n2job' = LookUpByAmf([n2job EXCEPT !.todo = @ \ {o}, !.obj = o, !.ran = unc[o].ran,
                                          !.settled = Settled(unc[o].ran)], unc[o].amf)
    /\ UNCHANGED <<procs, gnbVars, uncVars, nasVars, appVars, queues, view, alive>>

\* Mutant of ReleaseByRan: the second removal call is missing.
ReleaseByAmfOnly ==
    /\ alive /\ n2job.step = "ran.find"
    /\ n2job' = EndTurn(n2job)
    /\ UNCHANGED <<procs, gnbVars, uncVars, nasVars, appVars, queues, view, alive>>

ReleaseByRan ==
    /\ alive /\ n2job.step = "ran.find"
    /\ n2job' = LookUpByRan(n2job)
    /\ UNCHANGED <<procs, gnbVars, uncVars, nasVars, appVars, queues, view, alive>>

\* Mutant of ForgetNas: the SUPI goes, the id stays.
ForgetSupi(m, i) ==
    /\ imsi2nas' = [j \in Imsis |-> IF j = i THEN 0 ELSE imsi2nas[j]]
    /\ UNCHANGED amf2nas

\* SUPI i and AMF id m no longer lead to a NAS context.
ForgetNas(m, i) ==
    /\ imsi2nas' = [j \in Imsis |-> IF j = i THEN 0 ELSE imsi2nas[j]]
    /\ amf2nas' = amf2nas \ {m}

\* In both functions, if a NAS context was found.  The two maps are cleared in one
\* step: no other task reads the first.
RemoveNas ==
    /\ alive /\ n2job.step \in {"amf.nas", "ran.nas"}
    /\ ForgetNas(JobAmf, n2job.imsi)
    /\ n2job' = [n2job EXCEPT !.step = IF @ = "amf.nas" THEN "amf.ran" ELSE "ran.unc"]
    /\ UNCHANGED <<procs, gnbVars, uncVars, nas, n1job, appVars, queues, view, alive>>

\* By AMF id: the RAN id is the one in the NAS context, 0 if that is still bare.
RemoveRanOfNas ==
    /\ alive /\ n2job.step = "amf.ran"
    /\ ran2unc' = [r \in RanIds |-> IF r = nas[n2job.nc].ran THEN 0 ELSE ran2unc[r]]
    /\ n2job' = [n2job EXCEPT !.step = "amf.unc"]
    /\ UNCHANGED <<procs, gnbVars, unc, nUnc, amf2unc, nasVars, appVars, queues,
                   view, alive>>

\* In both functions; the loop goes on with the removal by RAN id.
RemoveAmf ==
    /\ alive /\ n2job.step \in {"amf.unc", "ran.unc"}
    /\ amf2unc' = [m \in AmfIds |-> IF m = JobAmf THEN 0 ELSE amf2unc[m]]
    /\ n2job' = IF n2job.step = "ran.unc" THEN [n2job EXCEPT !.step = "ran.ran"]
                ELSE IF n2job.kind = "part" THEN EndTurn(n2job)
                ELSE [n2job EXCEPT !.step = "ran.find"]
    /\ UNCHANGED <<procs, gnbVars, unc, nUnc, ran2unc, nasVars, appVars, queues,
                   view, alive>>

\* By RAN id: the last of its steps.
RemoveRan ==
    /\ alive /\ n2job.step = "ran.ran"
    /\ ran2unc' = [ran2unc EXCEPT ![n2job.ran] = 0]
    /\ n2job' = EndTurn(n2job)
    /\ UNCHANGED <<procs, gnbVars, unc, nUnc, amf2unc, nasVars, appVars, queues,
                   view, alive>>

\* The handler has been through its contexts.  A shut down gNB keeps its context in
\* assoc2gnbContext.
ReleaseDone ==
    /\ alive /\ n2job # Idle /\ n2job.todo = {} /\ n2job.step = "turn"
    /\ n2job' = Idle
    /\ UNCHANGED <<procs, gnbVars, uncVars, nasVars, appVars, queues, view, alive>>

-----------------------------------------------------------------------------
(* TASK_AMF_N2: the UE procedures.                                         *)

\* Initial UE Message for RAN id r.  Only a gNB that has not set up is turned
\* away.  `complete': the IEs read after the context was stored are present.
InitialUeMessage(a, r, complete) ==
    /\ FromGnb(a) /\ r \in OwnRan[a] /\ view[a][r] = Free
    /\ gnbState[a] # "INIT"
    /\ complete => Room(appq)
    /\ IF ran2unc[r] = 0
       THEN /\ nUnc < MaxUnc
            /\ nUnc' = nUnc + 1
            /\ ran2unc' = [ran2unc EXCEPT ![r] = nUnc + 1]
            /\ unc' = [unc EXCEPT ![nUnc + 1] = [ran |-> r, amf |-> 0, assoc |-> a]]
       ELSE /\ unc' = [unc EXCEPT ![ran2unc[r]].ran = r, ![ran2unc[r]].assoc = a]
            /\ UNCHANGED <<nUnc, ran2unc>>
    /\ appq' = IF complete THEN Append(appq, r) ELSE appq
    /\ view' = [view EXCEPT ![a][r] = 0]
    /\ UNCHANGED <<procs, gnbVars, amf2unc, nasVars, appVars, n1q, n2q, n2job, alive>>

\* Uplink NAS Transport: the context is looked up by RAN id alone, and a
\* different AMF id in it is only logged.
UplinkNasTransport(a, r) ==
    /\ FromGnb(a) /\ view[a][r] > 0
    /\ ran2unc[r] # 0
    /\ Room(n1q)
    /\ n1q' = Append(n1q, [estab |-> FALSE, ran |-> r, amf |-> view[a][r]])
    /\ UNCHANGED <<procs, gnbVars, uncVars, nasVars, appVars, appq, n2q, n2job, view, alive>>

\* UE Context Release started by the gNB: the request is answered with the
\* command and the completion removes nothing from these maps.
GnbReleasesUe(a, r) ==
    /\ FromGnb(a) /\ view[a][r] > 0
    /\ view' = [view EXCEPT ![a][r] = Free]
    /\ UNCHANGED <<procs, gnbVars, uncVars, nasVars, appVars, queues, n2job, alive>>

\* The handler drops a message for a RAN id it does not know.
N2Drop ==
    /\ N2Free /\ n2q # <<>>
    /\ ran2unc[Head(n2q).ran] = 0
    /\ n2q' = Tail(n2q)
    /\ UNCHANGED <<procs, gnbVars, uncVars, nasVars, appVars, appq, n1q, n2job, view, alive>>

\* Downlink NAS Transport: the context takes the AMF id of the message, and the
\* gNB, if it still has the UE, learns it.
DownlinkNasTransport ==
    /\ N2Free /\ n2q # <<>> /\ Head(n2q).type = "dl"
    /\ LET r == Head(n2q).ran
           m == Head(n2q).amf
           o == ran2unc[r]
           a == unc[o].assoc
       IN /\ o # 0
          /\ unc' = [unc EXCEPT ![o].amf = m]
          /\ amf2unc' = [amf2unc EXCEPT ![m] = o]
          /\ view' = [view EXCEPT ![a][r] = IF @ = Free THEN Free ELSE m]
    /\ n2q' = Tail(n2q)
    /\ UNCHANGED <<procs, gnbVars, nUnc, ran2unc, nasVars, appVars, appq, n1q, n2job, alive>>

\* UE Context Release Command: sent to the gNB of the context, which frees the
\* RAN id of that UE and completes the release.
UeContextReleaseCommand ==
    /\ N2Free /\ n2q # <<>> /\ Head(n2q).type = "release"
    /\ LET r == Head(n2q).ran
           o == ran2unc[r]
           a == unc[o].assoc
       IN /\ o # 0
          /\ view' = [view EXCEPT ![a][r] = IF @ = Head(n2q).amf THEN Free ELSE @]
    /\ n2q' = Tail(n2q)
    /\ UNCHANGED <<procs, gnbVars, uncVars, nasVars, appVars, appq, n1q, n2job, alive>>

-----------------------------------------------------------------------------
(* TASK_AMF_APP: NAS Signalling Establishment Request.                     *)

\* Mutant of Establish: the message keeps INVALID_AMF_UE_NGAP_ID.
EstablishInvalid(r, m) == n1q' = Append(n1q, [estab |-> TRUE, ran |-> r, amf |-> -1])

Establish(r, m) == n1q' = Append(n1q, [estab |-> TRUE, ran |-> r, amf |-> m])

\* The establishment goes on: with the RAN id known, the context is fetched next.
AppGoesOn(r, m) ==
    appJob' = [step |-> IF ran2unc[r] # 0 THEN "find" ELSE "send", ran |-> r, amf |-> m, obj |-> 0]

\* Mutant of AppEstablish: the generator is not advanced.
AppEstablishSameId ==
    /\ alive /\ appJob = NoApp /\ appq # <<>> /\ nextAmf <= MaxAmf
    /\ ueCtx' = ueCtx \cup {<<Head(appq), nextAmf>>}
    /\ AppGoesOn(Head(appq), nextAmf)
    /\ appq' = Tail(appq)
    /\ UNCHANGED <<procs, gnbVars, uncVars, nasVars, nextAmf, n1q, n2q, n2job, view, alive>>

\* A new AMF id and ue_context; then is_ran_ue_id_2_ue_ngap_context is asked.
\* If it says no, the NAS PDU goes to TASK_AMF_N1 all the same.
AppEstablish ==
    /\ alive /\ appJob = NoApp /\ appq # <<>> /\ nextAmf <= MaxAmf
    /\ nextAmf' = nextAmf + 1
    /\ ueCtx' = ueCtx \cup {<<Head(appq), nextAmf>>}
    /\ AppGoesOn(Head(appq), nextAmf)
    /\ appq' = Tail(appq)
    /\ UNCHANGED <<procs, gnbVars, uncVars, nasVars, n1q, n2q, n2job, view, alive>>

\* ran_ue_id_2_ue_ngap_context reads the map a second time, with at().
AppFind ==
    /\ alive /\ appJob.step = "find" /\ ran2unc[appJob.ran] # 0
    /\ appJob' = [appJob EXCEPT !.step = "write", !.obj = ran2unc[appJob.ran]]
    /\ UNCHANGED <<procs, gnbVars, uncVars, nasVars, nextAmf, ueCtx, queues, n2job,
                   view, alive>>

\* at() of an entry that is gone throws std::out_of_range; nobody catches it.
AppThrow ==
    /\ alive /\ appJob.step = "find" /\ ran2unc[appJob.ran] = 0
    /\ alive' = FALSE
    /\ UNCHANGED <<procs, gnbVars, uncVars, nasVars, appVars, queues, n2job, view>>

\* The context takes the id, wherever the maps lead by now.
AppWrite ==
    /\ alive /\ appJob.step = "write"
    /\ unc' = [unc EXCEPT ![appJob.obj].amf = appJob.amf]
    /\ appJob' = [appJob EXCEPT !.step = "store"]
    /\ UNCHANGED <<procs, gnbVars, nUnc, ran2unc, amf2unc, nasVars, nextAmf, ueCtx,
                   queues, n2job, view, alive>>

\* set_amf_ue_ngap_id_2_ue_ngap_context.
AppStore ==
    /\ alive /\ appJob.step = "store"
    /\ amf2unc' = [amf2unc EXCEPT ![appJob.amf] = appJob.obj]
    /\ appJob' = [appJob EXCEPT !.step = "send", !.obj = 0]
    /\ UNCHANGED <<procs, gnbVars, unc, nUnc, ran2unc, nasVars, nextAmf, ueCtx,
                   queues, n2job, view, alive>>

AppSend ==
    /\ alive /\ appJob.step = "send" /\ Room(n1q)
    /\ Establish(appJob.ran, appJob.amf)
    /\ appJob' = NoApp
    /\ UNCHANGED <<procs, gnbVars, uncVars, nasVars, nextAmf, ueCtx, appq, n2q,
                   n2job, view, alive>>

-----------------------------------------------------------------------------
(* TASK_AMF_N1, as far as it reaches these maps.                           *)

ToN2(type, r, m) == [type |-> type, ran |-> r, amf |-> m]

\* TASK_AMF_N1 is between two messages and takes the next one.
N1Free == alive /\ n1job = NoN1 /\ n1q # <<>>

\* First NAS message of a UE: a nas_context is created and stored, still bare.
N1Establish ==
    /\ N1Free /\ Head(n1q).estab
    /\ LET m == Head(n1q).amf IN
       /\ amf2nas' = amf2nas \cup {m}
       /\ nas' = [nas EXCEPT ![m] = [ran |-> 0, imsi |-> 0]]
       /\ n1job' = [ran |-> Head(n1q).ran, amf |-> m]
    /\ n1q' = Tail(n1q)
    /\ UNCHANGED <<procs, gnbVars, uncVars, imsi2nas, appVars, appq, n2q, n2job,
                   view, alive>>

\* It is filled in, and the message handled.  With a SUCI (i # 0) the SUPI is pointed
\* at it, whatever it pointed at before.  An answer goes down.
N1Fill(i) ==
    /\ alive /\ n1job # NoN1 /\ Room(n2q)
    /\ nas' = [nas EXCEPT ![n1job.amf] = [ran |-> n1job.ran, imsi |-> i]]
    /\ imsi2nas' = IF i = 0 THEN imsi2nas ELSE [imsi2nas EXCEPT ![i] = n1job.amf]
    /\ n2q' = Append(n2q, ToN2("dl", n1job.ran, n1job.amf))
    /\ n1job' = NoN1
    /\ UNCHANGED <<procs, gnbVars, uncVars, amf2nas, appVars, appq, n1q, n2job,
                   view, alive>>

\* A later NAS message: handlers answer with a downlink message or not at all.
N1Uplink(answer) ==
    /\ N1Free /\ ~Head(n1q).estab
    /\ IF answer
       THEN /\ Room(n2q)
            /\ n2q' = Append(n2q, ToN2("dl", Head(n1q).ran, Head(n1q).amf))
       ELSE UNCHANGED n2q
    /\ n1q' = Tail(n1q)
    /\ UNCHANGED <<procs, gnbVars, uncVars, nasVars, appVars, appq, n2job, view, alive>>

\* De-registration Request of the UE: with a switch-off no accept is sent, and
\* the context is released either way.
N1Deregister(switchOff) ==
    /\ N1Free /\ ~Head(n1q).estab
    /\ Head(n1q).amf \in amf2nas
    /\ <<nas[Head(n1q).amf].ran, Head(n1q).amf>> \in ueCtx
    /\ Len(n2q) + (IF switchOff THEN 1 ELSE 2) <= QueueCap
    /\ LET r == Head(n1q).ran
           m == Head(n1q).amf
           accept == IF switchOff THEN <<>> ELSE <<ToN2("dl", r, m)>>
       IN /\ ForgetNas(m, nas[m].imsi)
          /\ n2q' = n2q \o accept \o <<ToN2("release", r, m)>>
    /\ n1q' = Tail(n1q)
    /\ UNCHANGED <<procs, gnbVars, uncVars, nas, n1job, appVars, appq, n2job, view, alive>>

-----------------------------------------------------------------------------
GnbStep(a) ==
    \/ SctpNewAssociation(a)
    \/ NgSetup(a)
    \/ NgResetAll(a)
    \/ NgShutdown(a)
    \/ \E r \in RanIds : \/ \E byAmf \in BOOLEAN : NgResetPart(a, r, byAmf)
                         \/ \E complete \in BOOLEAN : InitialUeMessage(a, r, complete)
                         \/ UplinkNasTransport(a, r)
                         \/ GnbReleasesUe(a, r)

\* What a release does to the maps.
ReleaseStep ==
    \/ \E o \in Objs : ReleaseByAmf(o)
    \/ ReleaseByRan \/ RemoveNas \/ RemoveRanOfNas \/ RemoveAmf \/ RemoveRan

N2Step ==
    \/ ReleaseStep
    \/ ReleaseDone
    \/ N2Drop \/ DownlinkNasTransport \/ UeContextReleaseCommand

AppStep ==
    AppEstablish \/ AppFind \/ AppThrow \/ AppWrite \/ AppStore \/ AppSend

N1Step ==
    \/ N1Establish
    \/ \E i \in Imsis \cup {0} : N1Fill(i)
    \/ \E answer \in BOOLEAN : N1Uplink(answer)
    \/ \E switchOff \in BOOLEAN : N1Deregister(switchOff)

Next == (\E a \in Assocs : GnbStep(a)) \/ N2Step \/ AppStep \/ N1Step

Spec == Init /\ [][Next]_vars
-----------------------------------------------------------------------------
(* Properties.                                                             *)

UncRecs == [ran : RanIds \cup {0}, amf : AmfIds \cup {0}, assoc : Assocs \cup {0}]
N1Msgs == [estab : BOOLEAN, ran : RanIds, amf : AmfIds]
N2Msgs == [type : {"dl", "release"}, ran : RanIds, amf : AmfIds]

Steps == {"turn", "amf.nas", "amf.ran", "amf.unc", "ran.find", "ran.nas", "ran.unc", "ran.ran"}
JobRecs == [kind : {"none", "reset", "shutdown", "part"}, assoc : Assocs \cup {0},
            todo : SUBSET Objs, step : Steps, obj : 0..MaxUnc, ran : RanIds \cup {0},
            amf : AmfIds \cup {0}, nc : AmfIds \cup {0}, imsi : Imsis \cup {0},
            settled : BOOLEAN]

GnbTypeOK ==
    /\ link \in [Assocs -> {"none", "up", "closed"}]
    /\ gnbState \in [Assocs -> {"absent", "INIT", "RESETING", "READY", "SHUTDOWN"}]

UncTypeOK ==
    /\ unc \in [Objs -> UncRecs]
    /\ nUnc \in 0..MaxUnc
    /\ ran2unc \in [RanIds -> 0..MaxUnc]
    /\ amf2unc \in [AmfIds -> 0..MaxUnc]

NasTypeOK ==
    /\ nas \in [AmfIds -> [ran : RanIds \cup {0}, imsi : Imsis \cup {0}]]
    /\ amf2nas \subseteq AmfIds
    /\ imsi2nas \in [Imsis -> AmfIds \cup {0}]
    /\ n1job \in [ran : RanIds, amf : AmfIds] \cup {NoN1}

AppTypeOK ==
    /\ nextAmf \in 1..(MaxAmf + 1)
    /\ ueCtx \subseteq RanIds \X AmfIds
    /\ appJob \in [step : {"find", "write", "store", "send"}, ran : RanIds, amf : AmfIds,
                   obj : 0..MaxUnc] \cup {NoApp}

QueueTypeOK == appq \in Seq(RanIds) /\ n1q \in Seq(N1Msgs) /\ n2q \in Seq(N2Msgs)

ControlTypeOK ==
    /\ n2job \in JobRecs
    /\ procs \in 0..MaxProcs
    /\ view \in [Assocs -> [RanIds -> AmfIds \cup {0, Free}]]
    /\ alive \in BOOLEAN

\* Type correctness: every id that a map, a queue or a gNB holds is one that the
\* program generated or 0.
TypeOK ==
    GnbTypeOK /\ UncTypeOK /\ NasTypeOK /\ AppTypeOK /\ QueueTypeOK /\ ControlTypeOK

\* An AMF UE NGAP ID stays with the RAN UE NGAP ID it was generated for, although
\* four maps, two queues and the gNBs carry it around and contexts are used again:
\* a context found by RAN id has that RAN id, two of them never hold the same AMF
\* id, and the NAS context and the ngap context found under an AMF id agree on the
\* RAN id.  It does not tell apart two UEs to which the gNB gives the same RAN id,
\* one after the other.
AmfIdKeepsItsRanId ==
    /\ \A r \in RanIds : ran2unc[r] # 0 =>
        LET m == unc[ran2unc[r]].amf IN
        /\ unc[ran2unc[r]].ran = r
        /\ m # 0 => \A q \in RanIds : ran2unc[q] # 0 /\ unc[ran2unc[q]].amf = m => q = r
        /\ m \in amf2nas => nas[m].ran \in {0, r}
    /\ \A m \in amf2nas : amf2unc[m] # 0 => nas[m].ran \in {0, unc[amf2unc[m]].ran}

\* When NG Reset of the interface or NG Shutdown is over, no context of a UE of
\* that association can be found by RAN id, whatever the other tasks did while
\* the release loop ran.
ReleaseClearsRanMap ==
    [][n2job.kind \in {"reset", "shutdown"} /\ n2job' = Idle
        => \A r \in RanIds : ran2unc'[r] # 0 => unc'[ran2unc'[r]].assoc # n2job.assoc]_vars

\* When the loop leaves a UE that had no establishment under way when its turn
\* began, neither a NAS context nor a ngap context can be found under its AMF id,
\* whatever the UE and the other tasks did during the turn.  A UE that is being
\* bound by TASK_AMF_APP or set up by TASK_AMF_N1 during its turn may stay behind
\* in either map.
SettledUeIsGone ==
    [][n2job.settled /\ n2job'.step = "turn"
        => LET m == unc[n2job.obj].amf IN
           m # 0 => m \notin amf2nas' /\ amf2unc'[m] = 0]_vars

\* AMF id m was generated for a UE whose RAN id the gNB on association a hands out.
HomeOf(m, a) == \E r \in OwnRan[a] : <<r, m>> \in ueCtx

\* gNBs whose RAN UE NGAP IDs are disjoint do not release each other's UEs: no
\* step of a reset or shutdown of one, whole or of one UE, takes from the three maps
\* an entry of a UE of another.
ReleaseIsLocal ==
    [][\A a \in Assocs : n2job.assoc = a /\ ReleaseStep
        => /\ \A r \in RanIds \ OwnRan[a] : ran2unc'[r] = ran2unc[r]
           /\ \A m \in amf2nas \ amf2nas' : HomeOf(m, a)
           /\ \A m \in AmfIds : amf2unc'[m] # amf2unc[m] => HomeOf(m, a)]_vars
=============================================================================
