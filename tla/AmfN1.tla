------------------------------- MODULE AmfN1 -------------------------------
(***************************************************************************)
(* 5G mobility management in the AMF: TASK_AMF_N1 (amf_n1.cpp) registers,  *)
(* identifies and authenticates UEs, takes them into security mode, serves *)
(* and de-registers them, and watches those that went idle with two timers;*)
(* TASK_AMF_N2 (amf_n2.cpp) starts the first timer when a connection is    *)
(* released, and pages.                                                    *)
(*                                                                         *)
(* A connection is the signalling connection that one Initial UE Message   *)
(* opens.  It is named by the AMF UE NGAP ID that amf_app generates for it *)
(* and stands for the RAN UE NGAP ID as well: what happens when RAN ids    *)
(* are reused is the subject of NgapContexts.  A nas_context is named by   *)
(* the connection that created it; 0 is nullptr.                           *)
(*                                                                         *)
(* A handler is one step.  Between two of them connections are lost, UEs   *)
(* come back on another connection before the AMF noticed, timers expire,  *)
(* and messages of an earlier connection arrive.                           *)
(***************************************************************************)
EXTENDS Integers, Sequences, FiniteSets

CONSTANTS Ues,          \* subscribers, by their IMSI
          MaxConn,      \* bound: signalling connections
          MaxTmsi,      \* bound: TMSIs that are generated
          MaxFail,      \* bound: failures that UEs report and mobile reachable
                        \* timers that expire
          Overtaking,   \* may a UE's new connection overtake its last one on the way to the AMF?
          AmfSetId,     \* the configured AMF set id and pointer, which every GUTI
          AmfPointer    \* of this AMF carries

ASSUME N1Constants ==
    /\ Ues \subseteq Nat \ {0}
    /\ MaxConn \in Nat /\ MaxTmsi \in Nat /\ MaxFail \in Nat
    /\ Overtaking \in BOOLEAN
    /\ AmfSetId \in 1..1023 /\ AmfPointer \in 0..63    \* set id 0: see the README

Conns == 1..MaxConn
NoGuti == -1             \* a UE has no GUTI
ZeroTmsi == 0            \* the GUTI with TMSI 0, which is never generated
Gutis == 1..MaxTmsi

VARIABLES
    nas,         \* heap of nas_context
    amf2nas,     \* amfueid2nas_context
    imsi2nas,    \* imsi2nas_context
    guti2nas,    \* guti2nas_context
    supi2conn,   \* supi2amfId and supi2ranId, which are set together
    nTmsi,       \* amf_app::tmsi_generator
    nVec,        \* per UE, authentication vectors generated for its IMSI
    armed,       \* running timers: <<kind, arg2_user>>
    expired,     \* TIME_OUT messages in the queue of TASK_AMF_N1
    up,          \* per connection, the uplink NAS message on its way to TASK_AMF_N1
    dl,          \* per connection, downlink NAS messages on their way to the UE
    alive,       \* FALSE once a null pointer was dereferenced
    ue,          \* external: the UEs
    owner,       \* external: the UE that opened each connection, 0 for none yet
    closed,      \* external: connections without a radio link
    releasing,   \* connections whose UE Context Release Complete is to come
    fails        \* bound counter

mapVars == <<amf2nas, imsi2nas, guti2nas, supi2conn>>
genVars == <<nTmsi, nVec>>
tmrVars == <<armed, expired>>
ranVars == <<ue, owner, closed, releasing, fails>>
vars == <<nas, mapVars, genVars, tmrVars, up, dl, alive, ranVars>>

\* Mutant: the 5GMM state is not initialised.
NewContextUnset(a) ==
    [conn |-> a, imsi |-> 0, mm |-> "unset", byGuti |-> FALSE,
     vec |-> 0, sec |-> "none", key |-> 0, auth |-> FALSE, smc |-> FALSE,
     mobile |-> 0, implicit |-> 0, timedOut |-> FALSE]
\* nas_context::nas_context, bound to connection a.
NewContext(a) ==
    [conn |-> a, imsi |-> 0, mm |-> "none", byGuti |-> FALSE,
     vec |-> 0, sec |-> "none", key |-> 0, auth |-> FALSE, smc |-> FALSE,
     mobile |-> 0, implicit |-> 0, timedOut |-> FALSE]

\* The key that the handlers make of GUTI g in a NAS message.  The set id and the
\* pointer are encoded in 10 and 6 bits, and decoded as one octet each.
NasGuti(g) ==
    IF AmfSetId \div 4 = AmfSetId /\ 64 * (AmfSetId % 4) + AmfPointer = AmfPointer
    THEN g ELSE NoGuti

\* An uplink message.  v is the vector that an authentication response answers, or the
\* vector whose keys protect the message; guti is the 5G-S-TMSI that the gNB passes on
\* with the message, or the GUTI that the UE puts into a de-registration request.
Msg(kind, v, guti) == [kind |-> kind, v |-> v, guti |-> guti]
NoMsg == Msg("none", 0, NoGuti)

Init ==
    /\ nas = [n \in Conns |-> NewContext(0)]
    /\ amf2nas = [a \in Conns |-> 0]
    /\ imsi2nas = [u \in Ues |-> 0]
    /\ guti2nas = [g \in {ZeroTmsi} \cup Gutis |-> 0]
    /\ supi2conn = [u \in Ues |-> 0]
    /\ nTmsi = 0
    /\ nVec = [u \in Ues |-> 0]
    /\ armed = {} /\ expired = {}
    /\ up = [a \in Conns |-> NoMsg]
    /\ dl = [a \in Conns |-> <<>>]
    /\ alive = TRUE
    /\ ue = [u \in Ues |-> [conn |-> 0, guti |-> NoGuti, reg |-> FALSE, wait |-> "none", sqn |-> 0]]
    /\ owner = [a \in Conns |-> 0]
    /\ closed = {} /\ releasing = {}
    /\ fails = 0

-----------------------------------------------------------------------------
(* UEs and gNBs, which are external.  A UE runs one procedure at a time.   *)

Opened == {a \in Conns : owner[a] # 0}
NextConn == Cardinality(Opened) + 1

\* What happens after the process died is left out.
External == alive /\ UNCHANGED <<nas, mapVars, genVars, tmrVars, alive>>

\* What a UE sends first on a connection.  One that holds a GUTI registers with it, and
\* if it is registered it may update its registration or ask for service; the gNB may
\* or may not pass the 5G-S-TMSI of a registering UE on, and without it the GUTI in the
\* request itself (NasGuti) leads nowhere.
Requests(u) ==
    LET g == ue[u].guti IN
    IF g = NoGuti THEN {Msg("suci", 0, NoGuti)}
    ELSE {Msg("guti", 0, NasGuti(g)), Msg("guti", 0, g)}
         \cup {m \in {Msg("update", 0, g), Msg("service", 0, g)} : ue[u].reg}

Connect(u, m) ==
    /\ ue[u].conn = 0 /\ NextConn <= MaxConn
    /\ owner' = [owner EXCEPT ![NextConn] = u]
    /\ up' = [up EXCEPT ![NextConn] = m]
    /\ ue' = [ue EXCEPT ![u].conn = NextConn,
                        ![u].wait = IF m.kind \in {"suci", "guti"} THEN "registration" ELSE m.kind]
    /\ UNCHANGED <<dl, closed, releasing, fails>> /\ External

\* The radio link is lost, or released because the UE is inactive: the gNB asks for
\* the release of the connection and will confirm it.
Lose(u) ==
    /\ ue[u].conn # 0
    /\ closed' = closed \cup {ue[u].conn}
    /\ releasing' = releasing \cup {ue[u].conn}
    /\ dl' = [dl EXCEPT ![ue[u].conn] = <<>>]
    /\ ue' = [ue EXCEPT ![u].conn = 0, ![u].wait = "none"]
    /\ UNCHANGED <<up, owner, fails>> /\ External

\* The UE sends message m on its connection; its own state becomes s.
Answer(u, m, s) ==
    /\ up[ue[u].conn] = NoMsg
    /\ up' = [up EXCEPT ![ue[u].conn] = m]
    /\ ue' = [ue EXCEPT ![u] = s]

AskDeregistration(u) ==
    /\ ue[u].conn # 0 /\ ue[u].reg /\ ue[u].wait = "none"
    /\ Answer(u, Msg("dereg", ue[u].sqn, ue[u].guti), [ue[u] EXCEPT !.reg = FALSE])
    /\ UNCHANGED <<dl, owner, closed, releasing, fails>> /\ External

\* The next downlink message m reaches UE u on its connection.
Inbox(u) ==
    IF ue[u].conn = 0 \/ dl[ue[u].conn] = <<>> THEN {} ELSE {Head(dl[ue[u].conn])}

Reaches(u, m) ==
    /\ m \in Inbox(u)
    /\ dl' = [dl EXCEPT ![ue[u].conn] = Tail(@)]
    /\ UNCHANGED <<owner, closed, releasing>> /\ External

\* A UE that is registering answers what the network asks of it.  A challenge with a
\* sequence number it has seen already is a synchronisation failure.
UeAnswers(u, m) ==
    /\ Reaches(u, m)
    /\ ue[u].wait = "registration" /\ UNCHANGED fails
    /\ \/ m.kind = "identityRequest" /\ Answer(u, Msg("identity", 0, NoGuti), ue[u])
       \/ /\ m.kind = "authRequest" /\ m.v > ue[u].sqn
          /\ Answer(u, Msg("response", m.v, NoGuti), [ue[u] EXCEPT !.sqn = m.v])
       \/ /\ m.kind = "authRequest" /\ m.v <= ue[u].sqn
          /\ Answer(u, Msg("synch", 0, NoGuti), ue[u])
       \/ /\ m.kind = "smc" /\ m.v = ue[u].sqn
          /\ Answer(u, Msg("smComplete", m.v, NoGuti), ue[u])

\* It may report a failure instead: that the ngKSI is in use, or, giving up, that the
\* MAC or the security capabilities do not match.  Bound: MaxFail reports and expirations.
UeFails(u, m) ==
    /\ Reaches(u, m)
    /\ ue[u].wait = "registration" /\ fails < MaxFail /\ fails' = fails + 1
    /\ \/ m.kind = "authRequest" /\ Answer(u, Msg("ngksi", 0, NoGuti), ue[u])
       \/ /\ m.kind = "authRequest"
          /\ Answer(u, Msg("mac", 0, NoGuti), [ue[u] EXCEPT !.wait = "none"])
       \/ /\ m.kind = "smc"
          /\ Answer(u, Msg("smReject", 0, NoGuti), [ue[u] EXCEPT !.wait = "none"])

\* The outcome of a procedure.  A UE that is rejected forgets its GUTI.  What answers
\* nothing that it waits for, it ignores.
UeEnds(u, m) ==
    /\ Reaches(u, m) /\ UNCHANGED <<up, fails>>
    /\ LET s == ue[u] IN
       ue' = [ue EXCEPT ![u] =
           CASE m.kind = "reject" /\ s.wait = "registration"
                    -> [s EXCEPT !.wait = "none", !.guti = NoGuti, !.reg = FALSE]
             [] m.kind = "accept" /\ s.wait \in {"registration", "update"}
                    -> [s EXCEPT !.wait = "none", !.guti = m.v, !.reg = TRUE]
             [] m.kind = "serviceAccept" /\ s.wait = "service" -> [s EXCEPT !.wait = "none"]
             [] OTHER -> s]
    /\ \/ m.kind \in {"reject", "accept", "serviceAccept"}
       \/ ue[u].wait # "registration"
       \/ m.kind = "smc" /\ m.v # ue[u].sqn

-----------------------------------------------------------------------------
(* TASK_AMF_N1.                                                            *)

N1Only == UNCHANGED <<ranVars, alive>>

\* The first message of connection a is next.
Initials == {"suci", "guti", "update", "service"}
InTurn(a) ==
    Overtaking \/ \A b \in 1..(a - 1) : owner[b] = owner[a] => up[b].kind \notin Initials

\* The handler of uplink message m of connection a runs.
Takes(a, m) ==
    /\ alive /\ up[a] = m /\ m # NoMsg /\ up' = [up EXCEPT ![a] = NoMsg]
    /\ m.kind \in Initials => InTurn(a)

\* Downlink NAS transport.  What is sent on a connection without a radio link is lost.
Send(a, msgs) == dl' = IF a \in closed THEN dl ELSE [dl EXCEPT ![a] = @ \o msgs]

Dl(kind, v) == [kind |-> kind, v |-> v]
Reject == Dl("reject", 0)

\* nas_context n becomes c.
Save(n, c) == nas' = [nas EXCEPT ![n] = c]

-----------------------------------------------------------------------------
(* Authentication.                                                         *)

\* Mutant: security mode control is forgotten.
AuthenticationRuns(c) == c.auth
\* check_nas_common_procedure_on_going; the other two flags are never set.
ProcedureRuns(c) == c.auth \/ c.smc

\* Mutant: who cannot be authenticated now is not answered.
Silence == <<>>
\* Both start_authentication_procedure and its caller reject.
Refusal == <<Reject, Reject>>

\* handle_auth_vector_successful_result and start_authentication_procedure.
Challenge(n, c) ==
    LET d == [c EXCEPT !.sec = IF @ = "none" THEN "notAvailable" ELSE @] IN
    IF ProcedureRuns(d)
    THEN Save(n, d) /\ Send(d.conn, Refusal)
    ELSE Save(n, [d EXCEPT !.auth = TRUE]) /\ Send(d.conn, <<Dl("authRequest", d.vec)>>)

\* auth_vectors_generator with an AUSF, which may fail.
NewVector(n, c) ==
    \/ /\ nVec' = [nVec EXCEPT ![c.imsi] = @ + 1]
       /\ Challenge(n, [c EXCEPT !.vec = nVec[c.imsi] + 1])
    \/ Save(n, c) /\ Send(c.conn, <<Reject>>) /\ UNCHANGED nVec

\* run_registration_procedure: a vector that is left from an earlier procedure is used
\* again; a UE that is known by a GUTI only is asked for its identity.
RunRegistration(n, c) ==
    /\ UNCHANGED nTmsi
    /\ \/ c.imsi # 0 /\ c.vec # 0 /\ Challenge(n, c) /\ UNCHANGED nVec
       \/ c.imsi # 0 /\ c.vec = 0 /\ NewVector(n, c)
       \/ /\ c.imsi = 0 /\ c.byGuti /\ UNCHANGED nVec
          /\ Save(n, c) /\ Send(c.conn, <<Dl("identityRequest", 0)>>)

-----------------------------------------------------------------------------
(* The first message of a connection.                                      *)

\* The nas_context it works on: that of the GUTI if the 5G-S-TMSI leads to one, which is
\* bound to the connection, else a new one.
Known(m) == m.guti # NoGuti /\ guti2nas[m.guti] # 0
ContextFor(a, m) == IF Known(m) THEN guti2nas[m.guti] ELSE a
Bound(a, m) == IF Known(m) THEN [nas[guti2nas[m.guti]] EXCEPT !.conn = a] ELSE NewContext(a)

\* The maps, given the IMSI that is known of the UE, or 0.
Enter(a, m, imsi) ==
    /\ amf2nas' = [amf2nas EXCEPT ![a] = ContextFor(a, m)]
    /\ supi2conn' = IF imsi = 0 THEN supi2conn ELSE [supi2conn EXCEPT ![imsi] = a]
    /\ imsi2nas' = IF imsi = 0 THEN imsi2nas ELSE [imsi2nas EXCEPT ![imsi] = ContextFor(a, m)]
    /\ UNCHANGED guti2nas

\* Registration Request by SUCI: registration_request_handle takes the IMSI from it.
RegisterBySuci(a) ==
    LET m == Msg("suci", 0, NoGuti) IN
    /\ Takes(a, m) /\ N1Only /\ UNCHANGED tmrVars
    /\ Enter(a, m, owner[a])
    /\ RunRegistration(a, [NewContext(a) EXCEPT !.imsi = owner[a], !.mm = "initiated"])

\* Registration Request by GUTI.  A security context is no longer current.
ByGuti(c) ==
    [c EXCEPT !.byGuti = TRUE, !.sec = IF @ = "none" THEN "none" ELSE "notAvailable"]

RegisterByGuti(a, m) ==
    /\ m.kind = "guti" /\ Takes(a, m) /\ N1Only /\ UNCHANGED tmrVars
    /\ Enter(a, m, Bound(a, m).imsi)
    /\ RunRegistration(ContextFor(a, m), ByGuti(Bound(a, m)))

\* Mobility or periodic registration update: the accept carries the TMSI of the
\* ue_context of this connection, which has none; without a security context there is
\* no answer.
UpdateRegistration(a, m) ==
    LET c == ByGuti(Bound(a, m)) IN
    /\ m.kind = "update" /\ Takes(a, m) /\ N1Only /\ UNCHANGED <<tmrVars, genVars>>
    /\ Enter(a, m, c.imsi) /\ Save(ContextFor(a, m), c)
    /\ Send(a, IF c.sec = "none" THEN <<>> ELSE <<Dl("accept", ZeroTmsi)>>)

\* Service Request, without PDU sessions to activate.
ServiceRequest(a, m) ==
    LET c == Bound(a, m) IN
    /\ m.kind = "service" /\ Takes(a, m) /\ N1Only /\ UNCHANGED <<tmrVars, genVars>>
    /\ Enter(a, m, c.imsi) /\ Save(ContextFor(a, m), c)
    /\ Send(a, IF c.sec = "none" THEN <<>> ELSE <<Dl("serviceAccept", 0)>>)

-----------------------------------------------------------------------------
(* The messages that follow.                                               *)

\* identity_response_handle: the IMSI is entered in the SUPI maps; the timers of the
\* context are stopped.
IdentityResponse(a) ==
    LET u == owner[a]
        n == IF amf2nas[a] # 0 THEN amf2nas[a] ELSE a
        old == IF amf2nas[a] # 0 THEN nas[n] ELSE NewContext(a)
        c == [old EXCEPT !.conn = a, !.imsi = u, !.mm = IF old.byGuti THEN "initiated" ELSE @] IN
    /\ Takes(a, Msg("identity", 0, NoGuti)) /\ N1Only
    /\ amf2nas' = [amf2nas EXCEPT ![a] = n]
    /\ supi2conn' = [supi2conn EXCEPT ![u] = a]
    /\ armed' = armed \ {<<"mobile", c.mobile>>, <<"implicit", c.implicit>>}
    /\ UNCHANGED <<imsi2nas, guti2nas, expired>>
    /\ IF c.byGuti THEN RunRegistration(n, c) ELSE Save(n, c) /\ UNCHANGED <<genVars, dl>>

\* start_security_mode_control_procedure: keys are derived unless the context is current.
Derive(c) ==
    IF c.sec = "notAvailable" THEN [c EXCEPT !.sec = "full", !.key = c.vec] ELSE c
\* Mutant: the procedure is not marked as running.
InUnmarkedSmc(c) == Derive(c)
InSmc(c) == [Derive(c) EXCEPT !.smc = TRUE]

SecurityMode(n, c) ==
    LET d == InSmc(c) IN
    Save(n, d) /\ Send(d.conn, IF d.sec = "none" THEN <<>> ELSE <<Dl("smc", d.key)>>)

\* The context of connection a when its authentication ends, whether it succeeded or not.
Ended(a) == [nas[amf2nas[a]] EXCEPT !.auth = FALSE]
Unknown(a) == Send(a, <<Reject>>) /\ UNCHANGED <<nas, nVec>>

\* authentication_response_handle; the AUSF confirms what answers the vector.
AuthenticationResponse(a, m) ==
    LET n == amf2nas[a] IN
    /\ m.kind = "response" /\ Takes(a, m) /\ N1Only /\ UNCHANGED <<tmrVars, mapVars, nTmsi>>
    /\ IF n = 0 THEN Unknown(a)
       ELSE /\ UNCHANGED nVec
            /\ IF m.v = nas[n].vec THEN SecurityMode(n, Ended(a))
               ELSE Save(n, Ended(a)) /\ Send(a, <<Reject>>)

\* authentication_failure_handle: a synchronisation failure asks for a new vector, a
\* ngKSI in use for another challenge with the same one; other causes are not answered.
AuthenticationFailure(a, m) ==
    LET n == amf2nas[a] IN
    /\ m.kind \in {"synch", "ngksi", "mac"} /\ Takes(a, m)
    /\ N1Only /\ UNCHANGED <<tmrVars, mapVars, nTmsi>>
    /\ IF n = 0 THEN Unknown(a)
       ELSE \/ m.kind = "synch" /\ NewVector(n, Ended(a))
            \/ m.kind = "ngksi" /\ Challenge(n, Ended(a)) /\ UNCHANGED nVec
            \/ m.kind = "mac" /\ Save(n, Ended(a)) /\ UNCHANGED <<nVec, dl>>

\* A protected message leads to a context whose keys match, or is dropped.
Protected(a, m) ==
    amf2nas[a] # 0 /\ nas[amf2nas[a]].sec # "none" /\ nas[amf2nas[a]].key = m.v

\* Mutant: the generator is not advanced.
StuckTmsi == 1
\* generate_tmsi.
NextTmsi == nTmsi + 1

\* security_mode_complete_handle: a GUTI is generated, and the UE is registered.
\* Bound: MaxTmsi TMSIs.
SecurityModeComplete(a, m) ==
    LET n == amf2nas[a] g == NextTmsi IN
    /\ m.kind = "smComplete" /\ Takes(a, m) /\ Protected(a, m) /\ N1Only
    /\ nTmsi < MaxTmsi /\ nTmsi' = g
    /\ Save(n, [nas[n] EXCEPT !.mm = "registered", !.smc = FALSE])
    /\ guti2nas' = [guti2nas EXCEPT ![g] = n]
    /\ Send(a, <<Dl("accept", g)>>)
    /\ UNCHANGED <<amf2nas, imsi2nas, supi2conn, nVec, tmrVars>>

\* ue_initiate_de_registration_handle.  The timers run on; other connections, earlier
\* GUTIs and, as the key that the request gives is not the one that was stored, the last
\* GUTI still lead to the context.
Deregistration(a, m) ==
    LET n == amf2nas[a] IN
    /\ m.kind = "dereg" /\ Takes(a, m) /\ Protected(a, m)
    /\ Save(n, [nas[n] EXCEPT !.mm = "deregistered"])
    /\ amf2nas' = [amf2nas EXCEPT ![a] = 0]
    /\ imsi2nas' = [imsi2nas EXCEPT ![nas[n].imsi] = 0]
    /\ guti2nas' = [g \in DOMAIN guti2nas |->
                       IF g = NasGuti(m.guti) THEN 0 ELSE guti2nas[g]]
    /\ releasing' = IF a \in closed THEN releasing ELSE releasing \cup {a}
    /\ UNCHANGED <<supi2conn, genVars, tmrVars, dl, ue, owner, closed, fails, alive>>

\* What changes nothing: security_mode_reject_handle, and what the integrity check drops.
Ignored(a, m) ==
    /\ \/ m.kind = "smReject"
       \/ m.kind \in {"smComplete", "dereg"} /\ ~Protected(a, m)
    /\ Takes(a, m) /\ N1Only /\ UNCHANGED <<nas, mapVars, genVars, tmrVars, dl>>

-----------------------------------------------------------------------------
(* Reachability.                                                           *)

\* UE Context Release Complete, in TASK_AMF_N2: the UE is idle and the mobile reachable
\* timer starts.
ReleaseComplete(a) ==
    LET n == amf2nas[a] u == owner[a] IN
    /\ alive /\ a \in releasing
    /\ releasing' = releasing \ {a} /\ closed' = closed \cup {a}
    /\ dl' = [dl EXCEPT ![a] = <<>>]
    /\ ue' = IF ue[u].conn = a THEN [ue EXCEPT ![u].conn = 0, ![u].wait = "none"] ELSE ue
    /\ IF n = 0 THEN UNCHANGED <<nas, armed>>
       ELSE /\ armed' = armed \cup {<<"mobile", a>>}
            /\ Save(n, [nas[n] EXCEPT !.mobile = a, !.timedOut = FALSE])
    /\ UNCHANGED <<mapVars, genVars, expired, up, owner, fails, alive>>

\* A timer of TASK_AMF_N1 expires: a message enters its queue (IttiTimers).
\* Bound: MaxFail expirations of mobile reachable timers and reports.
Expire(t) ==
    /\ alive /\ t \in armed
    /\ \/ t[1] = "mobile" /\ fails < MaxFail /\ fails' = fails + 1
       \/ t[1] = "implicit" /\ UNCHANGED fails
    /\ armed' = armed \ {t} /\ expired' = expired \cup {t}
    /\ UNCHANGED <<nas, mapVars, genVars, up, dl, alive, ue, owner, closed, releasing>>

\* mobile_reachable_timer_timeout.
MobileTimeout(a) ==
    LET n == amf2nas[a] IN
    /\ alive /\ <<"mobile", a>> \in expired
    /\ expired' = expired \ {<<"mobile", a>>}
    /\ IF n = 0 THEN UNCHANGED <<nas, armed>>
       ELSE /\ Save(n, [nas[n] EXCEPT !.timedOut = TRUE, !.implicit = a])
            /\ armed' = armed \cup {<<"implicit", a>>}
    /\ UNCHANGED <<mapVars, genVars, up, dl>> /\ N1Only

\* implicit_deregistration_timer_timeout returns if there is a context, and goes on with
\* a null pointer if there is none.
ImplicitTimeout(a) ==
    /\ alive /\ <<"implicit", a>> \in expired
    /\ expired' = expired \ {<<"implicit", a>>}
    /\ alive' = (amf2nas[a] # 0)
    /\ UNCHANGED <<nas, mapVars, genVars, armed, up, dl, ranVars>>

\* Paging in TASK_AMF_N2: the connection that is known of the SUPI may have no context,
\* and the timer flag is read from it all the same.  (The message to the gNB is left out.)
Page(u) ==
    /\ alive /\ supi2conn[u] # 0
    /\ alive' = (amf2nas[supi2conn[u]] # 0)
    /\ UNCHANGED <<nas, mapVars, genVars, tmrVars, up, dl, ranVars>>

-----------------------------------------------------------------------------
TaskN1(a) ==
    \/ RegisterBySuci(a)
    \/ IdentityResponse(a)
    \/ \E m \in {up[a]} :
          \/ RegisterByGuti(a, m) \/ UpdateRegistration(a, m) \/ ServiceRequest(a, m)
          \/ AuthenticationResponse(a, m) \/ AuthenticationFailure(a, m)
          \/ SecurityModeComplete(a, m) \/ Deregistration(a, m) \/ Ignored(a, m)

Timeouts(a) == MobileTimeout(a) \/ ImplicitTimeout(a)

Responds(u) == \E m \in Inbox(u) : UeAnswers(u, m) \/ UeEnds(u, m)

Next ==
    \/ \E a \in Conns : TaskN1(a) \/ ReleaseComplete(a) \/ Timeouts(a)
    \/ \E t \in armed : Expire(t)
    \/ \E u \in Ues :
          \/ \E m \in Requests(u) : Connect(u, m)
          \/ Lose(u) \/ AskDeregistration(u) \/ Responds(u) \/ Page(u)
          \/ \E m \in Inbox(u) : UeFails(u, m)

Spec == Init /\ [][Next]_vars

\* TASK_AMF_N1 handles what is in its queue, and a UE answers what it receives.  Nothing
\* else is assumed: UEs need not come, leave or fail, and timers need not expire.
FairSpec ==
    /\ Spec
    /\ \A a \in Conns : WF_vars(TaskN1(a))
    /\ \A u \in Ues : WF_vars(Responds(u))
-----------------------------------------------------------------------------
(* What should hold.                                                       *)

Context ==
    [conn : {0} \cup Conns, imsi : {0} \cup Ues,
     mm : {"none", "initiated", "registered", "deregistered"}, byGuti : BOOLEAN,
     vec : Nat, sec : {"none", "notAvailable", "full"}, key : Nat, auth : BOOLEAN,
     smc : BOOLEAN, mobile : {0} \cup Conns, implicit : {0} \cup Conns, timedOut : BOOLEAN]

UlMsg == [kind : {"none", "suci", "guti", "update", "service", "identity", "response",
                  "synch", "ngksi", "mac", "smComplete", "smReject", "dereg"},
          v : Nat, guti : {NoGuti, ZeroTmsi} \cup Gutis]
DlMsg == [kind : {"identityRequest", "authRequest", "smc", "accept", "serviceAccept", "reject"},
          v : Nat]
Timers == {"mobile", "implicit"} \X Conns

\* The values of the variables: contexts are named by connections, maps lead to contexts
\* and connections, timers name connections.
TypeOK ==
    /\ nas \in [Conns -> Context]
    /\ amf2nas \in [Conns -> {0} \cup Conns] /\ imsi2nas \in [Ues -> {0} \cup Conns]
    /\ guti2nas \in [{ZeroTmsi} \cup Gutis -> {0} \cup Conns]
    /\ supi2conn \in [Ues -> {0} \cup Conns]
    /\ nTmsi \in 0..MaxTmsi /\ nVec \in [Ues -> Nat]
    /\ armed \subseteq Timers /\ expired \subseteq Timers
    /\ up \in [Conns -> UlMsg]
    /\ \A a \in Conns : \A i \in DOMAIN dl[a] : dl[a][i] \in DlMsg
    /\ ue \in [Ues -> [conn : {0} \cup Conns, guti : {NoGuti, ZeroTmsi} \cup Gutis,
                       reg : BOOLEAN, sqn : Nat,
                       wait : {"none", "registration", "update", "service"}]]
    /\ owner \in [Conns -> {0} \cup Ues]
    /\ closed \subseteq Conns /\ releasing \subseteq Conns
    /\ alive \in BOOLEAN /\ fails \in 0..MaxFail

\* However a UE is known - by its connection, its SUPI, its IMSI or the GUTI it holds -
\* it leads to a context of that UE and of no other.  Contexts are shared by connections
\* and rebound by GUTI, and identities arrive late.
IsOf(n, u) == n = 0 \/ nas[n].imsi \in {0, u}
IdentitiesAgree ==
    /\ \A a \in Opened : IsOf(amf2nas[a], owner[a])
    /\ \A u \in Ues :
          /\ supi2conn[u] # 0 => owner[supi2conn[u]] = u
          /\ IsOf(imsi2nas[u], u)
          /\ ue[u].guti # NoGuti => IsOf(guti2nas[ue[u].guti], u)

\* A context runs one common procedure at a time: an attempt that comes while another is
\* between its challenge and its Security Mode Complete, on whatever connection, does not
\* start over with keys that the UE on the other end does not have.
OneProcedureAtATime == \A n \in Conns : ~(nas[n].auth /\ nas[n].smc)

\* A context becomes registered only at the end of a security mode procedure of its own.
RegisteredBySmc ==
    [][\A n \in Conns :
          nas[n].mm # "registered" /\ nas'[n].mm = "registered" => nas[n].smc]_vars

\* A UE that registers is accepted or rejected, unless it leaves: no flag or vector that
\* an abandoned attempt left in its context lets it wait for ever.
RegistrationAnswered ==
    \A u \in Ues : ue[u].wait = "registration" ~> (ue[u].wait # "registration" \/ ~alive)
=============================================================================
