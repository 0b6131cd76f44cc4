--------------------------- MODULE AmfN1Proofs ---------------------------
(***************************************************************************)
(* Proofs about AmfN1, for any UEs and any number of connections, TMSIs    *)
(* and failures, and whether or not connections overtake each other: type  *)
(* correctness, that the identities of a UE lead to contexts of that UE,   *)
(* that a context runs one common procedure at a time, and that it becomes *)
(* registered only at the end of one.                                      *)
(*                                                                         *)
(* What the handlers of TASK_AMF_N1 do is first put into one predicate,    *)
(* Handled; each part of the invariant is then shown once to be preserved  *)
(* by what is Handled.                                                     *)
(***************************************************************************)
EXTENDS AmfN1, SequenceTheorems, FiniteSetTheorems, TLAPS

-----------------------------------------------------------------------------
(* The inductive invariant.                                                *)

\* The connections that were opened are the first ones.
Opens == \E k \in 0..MaxConn : Opened = 1..k

\* Nothing leads to nas_context n.
Unreferenced(n) ==
    /\ \A b \in Conns : amf2nas[b] # n
    /\ \A u \in Ues : imsi2nas[u] # n
    /\ \A g \in {ZeroTmsi} \cup Gutis : guti2nas[g] # n

\* Nothing was done for connection a, and there is no nas_context of its name.
Fresh(a) ==
    /\ amf2nas[a] = 0 /\ dl[a] = <<>>
    /\ \A n \in Conns : nas[n].conn # a
    /\ Unreferenced(a)

FreshInv ==
    \A a \in Conns :
       /\ owner[a] = 0 => up[a] = NoMsg /\ \A u \in Ues : ue[u].conn # a
       /\ owner[a] = 0 \/ up[a].kind \in Initials => Fresh(a)

\* GUTI g is one that UE u may have been given.
Belongs(n, g2n, own, g, u) == g = NoGuti \/ (g \in 0..n /\ (g2n[g] = 0 \/ own[g2n[g]] = u))
BelongsTo(g, u) == Belongs(nTmsi, guti2nas, owner, g, u)

\* A context serves the UE that opened the connection it is named by.
GutisOwned ==
    /\ guti2nas[ZeroTmsi] = 0
    /\ \A g \in Gutis : g > nTmsi => guti2nas[g] = 0
    /\ \A g \in Gutis : guti2nas[g] # 0 => owner[guti2nas[g]] # 0
MapsOwned ==
    /\ \A n \in Conns : nas[n].imsi \in {0, owner[n]}
    /\ \A a \in Conns : amf2nas[a] # 0 => owner[amf2nas[a]] = owner[a] /\ owner[a] # 0
    /\ \A u \in Ues : imsi2nas[u] # 0 => owner[imsi2nas[u]] = u
    /\ \A u \in Ues : supi2conn[u] # 0 => owner[supi2conn[u]] = u
CarriedOwned ==
    /\ \A u \in Ues : BelongsTo(ue[u].guti, u)
    /\ \A u \in Ues : ue[u].conn # 0 => owner[ue[u].conn] = u
    /\ \A a \in Conns : up[a] # NoMsg => BelongsTo(up[a].guti, owner[a])
    /\ \A a \in Conns : \A i \in 1..Len(dl[a]) :
          dl[a][i].kind = "accept" => BelongsTo(dl[a][i].v, owner[a])
OwnInv == GutisOwned /\ MapsOwned /\ CarriedOwned

\* The connection that a context is bound to leads to that context, or to none any more.
ConnInv == \A n \in Conns : nas[n].conn # 0 => amf2nas[nas[n].conn] \in {0, n}

\* While a UE registers, its connection has a context, or its request is not handled.
Later == {"identity", "response", "synch", "ngksi", "mac", "smComplete"}
WaitInv ==
    /\ \A u \in Ues : ue[u].wait = "registration" =>
          /\ ue[u].conn # 0 /\ up[ue[u].conn].kind # "dereg"
          /\ up[ue[u].conn].kind \in Initials \/ amf2nas[ue[u].conn] # 0
    /\ \A a \in Conns : up[a].kind \in Later => amf2nas[a] # 0

\* The messages on connection a: that at 0 goes up, the others come down.
Pos(a) == 0..Len(dl[a])
KindAt(a, i) == IF i = 0 THEN up[a].kind ELSE dl[a][i].kind
AuthKinds == {"authRequest", "response", "synch", "ngksi", "mac"}
SmcKinds == {"smc", "smComplete"}
Tokens == AuthKinds \cup SmcKinds

\* A message of a common procedure is on its way only while the procedure runs in the
\* context, and the context has one such message.
Backed(c, k) ==
    /\ k \in AuthKinds => c.auth
    /\ k \in SmcKinds => c.smc
    /\ k \in Tokens => c.imsi # 0
TokensBacked ==
    \A a \in Conns : amf2nas[a] # 0 =>
       \A i \in Pos(a) : Backed(nas[amf2nas[a]], KindAt(a, i))
OneToken ==
    \A a, b \in Conns : amf2nas[a] # 0 /\ amf2nas[a] = amf2nas[b] =>
       \A i \in Pos(a), j \in Pos(b) :
          KindAt(a, i) \in Tokens /\ KindAt(b, j) \in Tokens => a = b /\ i = j

Inv == /\ TypeOK /\ dl \in [Conns -> Seq(DlMsg)] /\ Opens
       /\ FreshInv /\ OwnInv /\ ConnInv /\ WaitInv
       /\ TokensBacked /\ OneToken /\ OneProcedureAtATime

-----------------------------------------------------------------------------
(* Sequences and messages.                                                 *)

LEMMA TailOf ==
    ASSUME NEW S, NEW s \in Seq(S), s # <<>>
    PROVE  /\ Tail(s) \in Seq(S) /\ Head(s) = s[1] /\ 1 \in 1..Len(s)
           /\ Len(s) \in Nat /\ Len(Tail(s)) \in Nat /\ Len(s) = Len(Tail(s)) + 1
           /\ \A i \in 1..Len(Tail(s)) : Tail(s)[i] = s[i + 1]
  OBVIOUS

LEMMA Joined ==
    ASSUME NEW S, NEW s \in Seq(S), NEW t \in Seq(S)
    PROVE  /\ s \o t \in Seq(S)
           /\ Len(s) \in Nat /\ Len(t) \in Nat /\ Len(s \o t) = Len(s) + Len(t)
           /\ \A i \in 1..Len(s) : (s \o t)[i] = s[i]
           /\ \A i \in 1..Len(t) : (s \o t)[Len(s) + i] = t[i]
  OBVIOUS

DlKinds == {"identityRequest", "authRequest", "smc", "accept", "serviceAccept", "reject"}

LEMMA DlTyped == \A k \in DlKinds, v \in Nat : Dl(k, v) \in DlMsg /\ Dl(k, v).kind = k /\ Dl(k, v).v = v
  BY DEF Dl, DlMsg, DlKinds

LEMMA One ==
    ASSUME NEW m \in DlMsg
    PROVE  <<m>> \in Seq(DlMsg) /\ Len(<<m>>) = 1 /\ <<m>>[1] = m
  OBVIOUS

\* No message of ms belongs to a common procedure.
Plain(ms) == \A j \in 1..Len(ms) : ms[j].kind \notin Tokens
NoAccept(ms) == \A j \in 1..Len(ms) : ms[j].kind # "accept"

LEMMA NoneSent == <<>> \in Seq(DlMsg) /\ Len(<<>>) = 0 /\ Plain(<<>>) /\ NoAccept(<<>>)
  BY DEF Plain, NoAccept

LEMMA OnePlain ==
    ASSUME NEW k \in DlKinds \ {"authRequest", "smc"}, NEW v \in Nat
    PROVE  /\ <<Dl(k, v)>> \in Seq(DlMsg) /\ Plain(<<Dl(k, v)>>)
           /\ Len(<<Dl(k, v)>>) = 1 /\ <<Dl(k, v)>>[1] = Dl(k, v)
           /\ k # "accept" => NoAccept(<<Dl(k, v)>>)
<1>1. Dl(k, v) \in DlMsg /\ Dl(k, v).kind = k
  BY DlTyped
<1>2. k \notin Tokens
  BY DEF DlKinds, Tokens, AuthKinds, SmcKinds
<1>. QED  BY <1>1, <1>2, One DEF Plain, NoAccept

LEMMA RejectSent ==
    /\ <<Reject>> \in Seq(DlMsg) /\ Plain(<<Reject>>) /\ NoAccept(<<Reject>>)
    /\ Refusal \in Seq(DlMsg) /\ Plain(Refusal) /\ NoAccept(Refusal)
<1>1. "reject" \in DlKinds \ {"authRequest", "smc"} /\ 0 \in Nat
  BY DEF DlKinds
<1>2. Reject \in DlMsg /\ Reject.kind = "reject" /\ "reject" \notin Tokens
  BY <1>1, DlTyped DEF Reject, Tokens, AuthKinds, SmcKinds
<1>3. Refusal \in Seq(DlMsg) /\ Len(Refusal) = 2 /\ Refusal[1] = Reject /\ Refusal[2] = Reject
  BY <1>2 DEF Refusal
<1>. QED  BY <1>1, <1>2, <1>3, OnePlain DEF Reject, Plain, NoAccept

-----------------------------------------------------------------------------
(* The initial state.                                                      *)

LEMMA ConnsNat == Conns \subseteq Nat \ {0} /\ Ues \subseteq Nat \ {0}
  BY N1Constants DEF Conns, N1Constants

LEMMA NewContextTyped ==
    \A a \in {0} \cup Conns :
       /\ NewContext(a) \in Context
       /\ NewContext(a).conn = a /\ NewContext(a).imsi = 0 /\ NewContext(a).mm = "none"
       /\ ~NewContext(a).auth /\ ~NewContext(a).smc
  BY DEF NewContext, Context

LEMMA InitInv == Init => Inv
<1>. SUFFICES ASSUME Init PROVE Inv
  OBVIOUS
<1>1. NoMsg \in UlMsg /\ NoMsg.kind = "none" /\ NoMsg.guti = NoGuti
  BY DEF NoMsg, Msg, UlMsg
<1>2. TypeOK /\ dl \in [Conns -> Seq(DlMsg)]
  <2>1. nas \in [Conns -> Context]
    BY NewContextTyped DEF Init
  <2>2. ue \in [Ues -> [conn : {0} \cup Conns, guti : {NoGuti, ZeroTmsi} \cup Gutis,
                       reg : BOOLEAN, sqn : Nat,
                       wait : {"none", "registration", "update", "service"}]]
    BY DEF Init
  <2>3. dl \in [Conns -> Seq(DlMsg)] /\ \A a \in Conns : \A i \in DOMAIN dl[a] : dl[a][i] \in DlMsg
    BY DEF Init
  <2>. QED  BY <1>1, <2>1, <2>2, <2>3, N1Constants DEF Init, TypeOK, N1Constants
<1>3. Opens
  <2>1. Opened = 1..0 /\ 0 \in 0..MaxConn
    BY N1Constants DEF Init, Opened, N1Constants
  <2>. QED  BY <2>1 DEF Opens
<1>4. FreshInv /\ ConnInv
  BY NewContextTyped, ConnsNat DEF Init, FreshInv, Fresh, Unreferenced, ConnInv
<1>5. OwnInv
  BY NewContextTyped DEF Init, OwnInv, GutisOwned, MapsOwned, CarriedOwned, BelongsTo, Belongs
<1>6. WaitInv
  BY <1>1 DEF Init, WaitInv, Later
<1>7. TokensBacked /\ OneToken
  BY DEF Init, TokensBacked, OneToken
<1>8. OneProcedureAtATime
  BY NewContextTyped DEF Init, OneProcedureAtATime
<1>. QED  BY <1>2, <1>3, <1>4, <1>5, <1>6, <1>7, <1>8 DEF Inv

-----------------------------------------------------------------------------
(* What a handler of TASK_AMF_N1 does on connection a: it works on context *)
(* n, which becomes d, and sends messages ms on connection x.              *)

\* No message of a common procedure of context n is on its way, but the one that is
\* handled on connection a.
Idle(n, a) ==
    \A b \in Conns : amf2nas[b] = n =>
       \A i \in Pos(b) : KindAt(b, i) \in Tokens => b = a /\ i = 0

LinkStep(a, n, d, x, ms) ==
    /\ up[a] # NoMsg /\ up' = [up EXCEPT ![a] = NoMsg]
    /\ Save(n, d) /\ Send(x, ms)
    /\ UNCHANGED <<ue, owner>>

ContextStep(a, n, d, x) ==
    /\ n = a \/ ~Unreferenced(n)
    /\ owner[n] = owner[a] /\ owner[a] # 0
    /\ x \in {a, nas[n].conn}
    /\ d.conn = nas[n].conn \/ (d.conn = a /\ amf2nas'[a] = n)
    /\ d.imsi \in {0, owner[n]}
    /\ ~(d.auth /\ d.smc)
    /\ d.mm = "registered" => nas[n].mm = "registered" \/ nas[n].smc

MapStep(a, n, x, ms) ==
    /\ \A b \in Conns \ {a} : amf2nas'[b] = amf2nas[b]
    /\ amf2nas'[a] \in {amf2nas[a], 0} \/ (amf2nas'[a] = n /\ Fresh(a))
    /\ amf2nas'[a] = 0 =>
          up[a].kind = "dereg" \/ (amf2nas[a] = 0 /\ up[a].kind \notin Initials)
    /\ \A u \in Ues : imsi2nas'[u] \in {imsi2nas[u], 0} \/ (u = owner[a] /\ imsi2nas'[u] = n)
    /\ \A u \in Ues : supi2conn'[u] = supi2conn[u] \/ (u = owner[a] /\ supi2conn'[u] = a)
    /\ nTmsi' \in {nTmsi, nTmsi + 1}
    /\ \A g \in {ZeroTmsi} \cup Gutis :
          \/ guti2nas'[g] \in {guti2nas[g], 0}
          \/ nTmsi' = nTmsi + 1 /\ g = nTmsi' /\ guti2nas'[g] = n
    /\ \A j \in 1..Len(ms) :
          ms[j].kind = "accept" =>
             x = a /\ Belongs(nTmsi', guti2nas', owner', ms[j].v, owner[a])

TokenStep(a, n, d, x, ms) ==
    \/ Plain(ms) /\ d.auth = nas[n].auth /\ d.smc = nas[n].smc /\ (d.imsi = 0 => nas[n].imsi = 0)
    \/ Plain(ms) /\ Idle(n, a)
    \/ /\ Idle(n, a) /\ Len(ms) = 1 /\ Backed(d, ms[1].kind)
       /\ x \in Conns => amf2nas'[x] \in {0, n}

Handles(a, n, d, x, ms) ==
    /\ LinkStep(a, n, d, x, ms) /\ ContextStep(a, n, d, x)
    /\ MapStep(a, n, x, ms) /\ TokenStep(a, n, d, x, ms)

Handled(a) ==
    \E n \in Conns, d \in Context, x \in {0} \cup Conns, ms \in Seq(DlMsg) : Handles(a, n, d, x, ms)

\* The variables that LinkStep leaves open.
RestOK ==
    /\ amf2nas \in [Conns -> {0} \cup Conns] /\ imsi2nas \in [Ues -> {0} \cup Conns]
    /\ guti2nas \in [{ZeroTmsi} \cup Gutis -> {0} \cup Conns]
    /\ supi2conn \in [Ues -> {0} \cup Conns]
    /\ nTmsi \in 0..MaxTmsi /\ nVec \in [Ues -> Nat]
    /\ armed \subseteq Timers /\ expired \subseteq Timers
    /\ ue \in [Ues -> [conn : {0} \cup Conns, guti : {NoGuti, ZeroTmsi} \cup Gutis,
                       reg : BOOLEAN, sqn : Nat,
                       wait : {"none", "registration", "update", "service"}]]
    /\ owner \in [Conns -> {0} \cup Ues]
    /\ closed \subseteq Conns /\ releasing \subseteq Conns
    /\ alive \in BOOLEAN /\ fails \in 0..MaxFail

LinksOK == up \in [Conns -> UlMsg] /\ dl \in [Conns -> Seq(DlMsg)]

LEMMA TypeParts ==
    TypeOK /\ dl \in [Conns -> Seq(DlMsg)] <=> RestOK /\ LinksOK /\ nas \in [Conns -> Context]
<1>1. LinksOK => \A a \in Conns : \A i \in DOMAIN dl[a] : dl[a][i] \in DlMsg
  BY DEF LinksOK
<1>. QED  BY <1>1 DEF TypeOK, RestOK, LinksOK

\* What is sent on a connection arrives there, or nowhere.
LEMMA Sent ==
    ASSUME dl \in [Conns -> Seq(DlMsg)], NEW x \in {0} \cup Conns, NEW ms \in Seq(DlMsg),
           Send(x, ms)
    PROVE  /\ dl' \in [Conns -> Seq(DlMsg)]
           /\ \A b \in Conns : b # x => dl'[b] = dl[b]
           /\ x \in Conns => dl'[x] = dl[x] \/ dl'[x] = dl[x] \o ms
<1>1. CASE x \in closed \/ x = 0
  <2>1. dl' = dl
    BY <1>1, ConnsNat DEF Send
  <2>. QED  BY <2>1
<1>2. CASE x \in Conns /\ x \notin closed
  <2>1. dl' = [dl EXCEPT ![x] = dl[x] \o ms] /\ dl[x] \in Seq(DlMsg)
    BY <1>2 DEF Send
  <2>2. dl[x] \o ms \in Seq(DlMsg)
    BY <2>1, Joined
  <2>. QED  BY <2>1, <2>2
<1>. QED  BY <1>1, <1>2

Arrive(x, ms) ==
    \A b \in Conns : \A i \in 1..Len(dl'[b]) :
       \/ i \in 1..Len(dl[b]) /\ dl'[b][i] = dl[b][i]
       \/ b = x /\ \E j \in 1..Len(ms) : i = Len(dl[b]) + j /\ dl'[b][i] = ms[j]

\* A downlink message after the step was there before it, at the same place, or is sent.
LEMMA SentMsgs ==
    ASSUME dl \in [Conns -> Seq(DlMsg)], NEW x \in {0} \cup Conns, NEW ms \in Seq(DlMsg),
           Send(x, ms)
    PROVE  Arrive(x, ms)
<1>. SUFFICES ASSUME NEW b \in Conns, NEW i \in 1..Len(dl'[b])
     PROVE  \/ i \in 1..Len(dl[b]) /\ dl'[b][i] = dl[b][i]
            \/ b = x /\ \E j \in 1..Len(ms) : i = Len(dl[b]) + j /\ dl'[b][i] = ms[j]
  BY DEF Arrive
<1>1. CASE dl'[b] = dl[b]
  BY <1>1
<1>2. CASE b = x /\ dl'[b] = dl[b] \o ms
  <2>1. /\ Len(dl[b]) \in Nat /\ Len(ms) \in Nat /\ Len(dl'[b]) = Len(dl[b]) + Len(ms)
        /\ \A k \in 1..Len(dl[b]) : dl'[b][k] = dl[b][k]
        /\ \A k \in 1..Len(ms) : dl'[b][Len(dl[b]) + k] = ms[k]
    BY <1>2, Joined
  <2>2. CASE i <= Len(dl[b])
    <3>1. i \in 1..Len(dl[b])
      BY <2>1, <2>2
    <3>. QED  BY <2>1, <3>1
  <2>3. CASE i > Len(dl[b])
    <3>1. i - Len(dl[b]) \in 1..Len(ms) /\ i = Len(dl[b]) + (i - Len(dl[b]))
      BY <2>1, <2>3
    <3>. QED  BY <1>2, <2>1, <3>1
  <2>. QED  BY <2>1, <2>2, <2>3
<1>. QED  BY <1>1, <1>2, Sent

-----------------------------------------------------------------------------
(* What is Handled preserves the invariant.                                *)

\* nas_context k is d if k is n, and what it was otherwise.
LEMMA Saved ==
    ASSUME nas \in [Conns -> Context], NEW n \in Conns, NEW d \in Context, Save(n, d)
    PROVE  /\ nas' \in [Conns -> Context] /\ nas'[n] = d
           /\ \A k \in Conns : k # n => nas'[k] = nas[k]
  BY DEF Save

LEMMA HandledTypes ==
    ASSUME Inv, RestOK', NEW a \in Conns, Handled(a)
    PROVE  TypeOK' /\ dl' \in [Conns -> Seq(DlMsg)]
<1>1. PICK n \in Conns, d \in Context, x \in {0} \cup Conns, ms \in Seq(DlMsg) :
         LinkStep(a, n, d, x, ms)
  BY DEF Handled, Handles
<1>2. RestOK /\ LinksOK /\ nas \in [Conns -> Context]
  BY TypeParts DEF Inv
<1>3. NoMsg \in UlMsg
  BY DEF NoMsg, Msg, UlMsg
<1>4. up' \in [Conns -> UlMsg]
  BY <1>1, <1>2, <1>3 DEF LinkStep, LinksOK
<1>5. dl' \in [Conns -> Seq(DlMsg)] /\ nas' \in [Conns -> Context]
  BY <1>1, <1>2, Sent, Saved DEF LinkStep, LinksOK
<1>6. \A b \in Conns : \A i \in DOMAIN dl'[b] : dl'[b][i] \in DlMsg
  BY <1>5
<1>. QED  BY <1>4, <1>5, <1>6 DEF RestOK, TypeOK

LEMMA HandledFresh ==
    ASSUME Inv, NEW a \in Conns, Handled(a)
    PROVE  FreshInv' /\ Opens'
<1>1. PICK n \in Conns, d \in Context, x \in {0} \cup Conns, ms \in Seq(DlMsg) :
         Handles(a, n, d, x, ms)
  BY DEF Handled
<1>. USE <1>1
<1>2. /\ nas \in [Conns -> Context] /\ up \in [Conns -> UlMsg]
      /\ dl \in [Conns -> Seq(DlMsg)] /\ owner' = owner /\ ue' = ue
  BY DEF Inv, TypeOK, Handles, LinkStep
<1>3. Opens'
  BY <1>2 DEF Inv, Opens, Opened
<1>4. up'[a] = NoMsg /\ NoMsg.kind \notin Initials /\ \A b \in Conns \ {a} : up'[b] = up[b]
  BY <1>2 DEF Handles, LinkStep, NoMsg, Msg, Initials
<1>5. owner[a] # 0
  BY DEF Handles, ContextStep
<1>6. ASSUME NEW b \in Conns, owner[b] = 0 \/ up'[b].kind \in Initials
      PROVE  Fresh(b)'
  <2>1. b # a /\ (owner[b] = 0 \/ up[b].kind \in Initials)
    BY <1>4, <1>5, <1>6
  <2>2. Fresh(b)
    BY <2>1 DEF Inv, FreshInv
  <2>3. n # b
    BY <2>1, <2>2 DEF Handles, ContextStep, Fresh
  <2>4. x # b /\ d.conn # b
    BY <2>1, <2>2 DEF Handles, ContextStep, Fresh
  <2>5. amf2nas'[b] = 0 /\ dl'[b] = <<>>
    BY <1>2, <2>1, <2>2, <2>4, Sent DEF Handles, LinkStep, MapStep, Fresh
  <2>6. \A k \in Conns : nas'[k].conn # b
    BY <1>2, <2>2, <2>4, Saved DEF Handles, LinkStep, Fresh
  <2>7. \A k \in Conns : amf2nas'[k] # b
    BY <2>2, <2>3, ConnsNat DEF Handles, MapStep, Fresh, Unreferenced
  <2>8. \A u \in Ues : imsi2nas'[u] # b
    BY <2>2, <2>3, ConnsNat DEF Handles, MapStep, Fresh, Unreferenced
  <2>9. \A g \in {ZeroTmsi} \cup Gutis : guti2nas'[g] # b
    BY <2>2, <2>3, ConnsNat DEF Handles, MapStep, Fresh, Unreferenced
  <2>. QED  BY <2>5, <2>6, <2>7, <2>8, <2>9 DEF Fresh, Unreferenced
<1>7. ASSUME NEW b \in Conns, owner[b] = 0
      PROVE  up'[b] = NoMsg /\ \A u \in Ues : ue[u].conn # b
  BY <1>4, <1>5, <1>7 DEF Inv, FreshInv
<1>8. FreshInv'
  BY <1>2, <1>6, <1>7 DEF FreshInv
<1>. QED  BY <1>3, <1>8

LEMMA HandledOwn ==
    ASSUME Inv, TypeOK', NEW a \in Conns, Handled(a)
    PROVE  OwnInv'
<1>1. PICK n \in Conns, d \in Context, x \in {0} \cup Conns, ms \in Seq(DlMsg) :
         Handles(a, n, d, x, ms)
  BY DEF Handled
<1>2. /\ LinkStep(a, n, d, x, ms) /\ ContextStep(a, n, d, x) /\ MapStep(a, n, x, ms)
      /\ owner' = owner /\ ue' = ue /\ nTmsi \in Nat /\ nas \in [Conns -> Context]
      /\ up \in [Conns -> UlMsg] /\ dl \in [Conns -> Seq(DlMsg)]
  BY <1>1 DEF Handles, LinkStep, Inv, TypeOK
<1>3. owner[n] = owner[a] /\ owner[a] # 0 /\ owner[a] \in Ues
  BY <1>2 DEF ContextStep, Inv, TypeOK
<1>4. GutisOwned'
  <2>1. guti2nas'[ZeroTmsi] = 0
    BY <1>2 DEF MapStep, ZeroTmsi, Inv, OwnInv, GutisOwned
  <2>2. \A g \in Gutis : g > nTmsi' => guti2nas'[g] = 0
    <3>. SUFFICES ASSUME NEW g \in Gutis, g > nTmsi' PROVE guti2nas'[g] = 0
      OBVIOUS
    <3>1. g \in Nat /\ nTmsi' \in {nTmsi, nTmsi + 1} /\ g # nTmsi' /\ g > nTmsi
      BY <1>2, N1Constants DEF MapStep, Gutis, N1Constants
    <3>2. guti2nas'[g] \in {guti2nas[g], 0}
      BY <1>2, <3>1 DEF MapStep
    <3>. QED  BY <3>1, <3>2 DEF Inv, OwnInv, GutisOwned
  <2>3. \A g \in Gutis : guti2nas'[g] # 0 => owner[guti2nas'[g]] # 0
    BY <1>2, <1>3 DEF MapStep, Inv, OwnInv, GutisOwned
  <2>. QED  BY <1>2, <2>1, <2>2, <2>3 DEF GutisOwned
<1>5. MapsOwned'
  <2>1. \A k \in Conns : nas'[k].imsi \in {0, owner[k]}
    BY <1>2, Saved DEF LinkStep, ContextStep, Inv, OwnInv, MapsOwned
  <2>2. \A b \in Conns : amf2nas'[b] # 0 => owner[amf2nas'[b]] = owner[b] /\ owner[b] # 0
    BY ZenonT(40), <1>2, <1>3 DEF MapStep, Inv, OwnInv, MapsOwned
  <2>3. \A u \in Ues : imsi2nas'[u] # 0 => owner[imsi2nas'[u]] = u
    BY ZenonT(40), <1>2, <1>3 DEF MapStep, Inv, OwnInv, MapsOwned
  <2>4. \A u \in Ues : supi2conn'[u] # 0 => owner[supi2conn'[u]] = u
    BY ZenonT(40), <1>2, <1>3 DEF MapStep, Inv, OwnInv, MapsOwned
  <2>. QED  BY <1>2, <2>1, <2>2, <2>3, <2>4 DEF MapsOwned
<1>6. ASSUME NEW g, NEW u, Belongs(nTmsi, guti2nas, owner, g, u)
      PROVE  Belongs(nTmsi', guti2nas', owner', g, u)
  <2>1. CASE g = NoGuti
    BY <2>1 DEF Belongs
  <2>2. CASE g # NoGuti
    <3>1. g \in 0..nTmsi /\ (guti2nas[g] = 0 \/ owner[guti2nas[g]] = u)
      BY <1>6, <2>2 DEF Belongs
    <3>2. g \in {ZeroTmsi} \cup Gutis
      BY <3>1, N1Constants DEF ZeroTmsi, Gutis, Inv, TypeOK, N1Constants
    <3>3. guti2nas'[g] \in {guti2nas[g], 0} /\ g \in 0..nTmsi'
      BY <1>2, <3>1, <3>2 DEF MapStep
    <3>. QED  BY <1>2, <3>1, <3>3 DEF Belongs
  <2>. QED  BY <2>1, <2>2
<1>7. CarriedOwned'
  <2>. DEFINE New(g, u) == Belongs(nTmsi', guti2nas', owner', g, u)
  <2>1. \A u \in Ues : New(ue[u].guti, u)
    BY <1>6 DEF Inv, OwnInv, CarriedOwned, BelongsTo
  <2>2. \A b \in Conns : up'[b] # NoMsg => New(up'[b].guti, owner[b])
    <3>1. \A b \in Conns : up'[b] # NoMsg => up'[b] = up[b]
      BY <1>2 DEF LinkStep
    <3>. QED  BY <3>1, <1>6 DEF Inv, OwnInv, CarriedOwned, BelongsTo
  <2>3. ASSUME NEW b \in Conns, NEW i \in 1..Len(dl'[b]), dl'[b][i].kind = "accept"
        PROVE  New(dl'[b][i].v, owner[b])
    <3>1. CASE i \in 1..Len(dl[b]) /\ dl'[b][i] = dl[b][i]
      BY <1>6, <2>3, <3>1 DEF Inv, OwnInv, CarriedOwned, BelongsTo
    <3>2. ASSUME b = x, NEW j \in 1..Len(ms), dl'[b][i] = ms[j]
          PROVE  New(dl'[b][i].v, owner[b])
      BY <1>2, <2>3, <3>2 DEF MapStep
    <3>3. Send(x, ms) /\ dl \in [Conns -> Seq(DlMsg)]
      BY <1>2 DEF LinkStep
    <3>4. \/ i \in 1..Len(dl[b]) /\ dl'[b][i] = dl[b][i]
          \/ b = x /\ \E j \in 1..Len(ms) : i = Len(dl[b]) + j /\ dl'[b][i] = ms[j]
      <4>1. Arrive(x, ms)
        BY <3>3, SentMsgs
      <4>. QED  BY <4>1 DEF Arrive
    <3>. QED  BY <3>1, <3>2, <3>4
  <2>4. \A u \in Ues : ue'[u].conn # 0 => owner'[ue'[u].conn] = u
    BY <1>2 DEF Inv, OwnInv, CarriedOwned
  <2>. HIDE DEF New
  <2>. QED  BY <1>2, <2>1, <2>2, <2>3, <2>4 DEF CarriedOwned, BelongsTo, New
<1>. QED  BY <1>4, <1>5, <1>7 DEF OwnInv

LEMMA HandledConn ==
    ASSUME Inv, NEW a \in Conns, Handled(a)
    PROVE  ConnInv' /\ WaitInv' /\ OneProcedureAtATime'
<1>1. PICK n \in Conns, d \in Context, x \in {0} \cup Conns, ms \in Seq(DlMsg) :
         Handles(a, n, d, x, ms)
  BY DEF Handled
<1>2. /\ LinkStep(a, n, d, x, ms) /\ ContextStep(a, n, d, x) /\ MapStep(a, n, x, ms)
      /\ ue' = ue /\ nas \in [Conns -> Context] /\ up \in [Conns -> UlMsg]
      /\ nas'[n] = d /\ \A k \in Conns : k # n => nas'[k] = nas[k]
  BY <1>1, Saved DEF Handles, LinkStep, Inv, TypeOK
<1>3. OneProcedureAtATime'
  BY <1>2 DEF OneProcedureAtATime, ContextStep, Inv
<1>4. ASSUME NEW k \in Conns, nas'[k].conn # 0
      PROVE  amf2nas'[nas'[k].conn] \in {0, k}
  <2>1. nas'[k].conn \in Conns /\ nas[k].conn \in {0} \cup Conns
    BY ZenonT(40), <1>2, <1>4 DEF Context
  <2>2. CASE nas'[k].conn = nas[k].conn
    <3>1. amf2nas[nas[k].conn] \in {0, k}
      BY <1>4, <2>2 DEF Inv, ConnInv
    <3>2. nas[k].conn = a => ~Fresh(a)
      BY DEF Fresh
    <3>. QED  BY <1>2, <2>1, <2>2, <3>1, <3>2 DEF MapStep
  <2>3. CASE nas'[k].conn # nas[k].conn
    BY <1>2, <2>3 DEF ContextStep
  <2>. QED  BY <2>2, <2>3
<1>5. up'[a] = NoMsg /\ NoMsg.kind = "none" /\ \A b \in Conns \ {a} : up'[b] = up[b]
  BY <1>2 DEF LinkStep, NoMsg, Msg
<1>6. WaitInv'
  <2>1. ASSUME NEW u \in Ues, ue[u].wait = "registration"
        PROVE  /\ ue[u].conn # 0 /\ up'[ue[u].conn].kind # "dereg"
               /\ up'[ue[u].conn].kind \in Initials \/ amf2nas'[ue[u].conn] # 0
    <3>1. /\ ue[u].conn # 0 /\ up[ue[u].conn].kind # "dereg" /\ ue[u].conn \in Conns
          /\ up[ue[u].conn].kind \in Initials \/ amf2nas[ue[u].conn] # 0
      BY <2>1 DEF Inv, WaitInv, TypeOK
    <3>2. CASE ue[u].conn = a
      BY <1>2, <1>5, <3>1, <3>2 DEF MapStep
    <3>3. CASE ue[u].conn # a
      BY <1>2, <1>5, <3>1, <3>3 DEF MapStep
    <3>. QED  BY <3>2, <3>3
  <2>2. \A b \in Conns : up'[b].kind \in Later => amf2nas'[b] # 0
    BY ZenonT(40), <1>2, <1>5 DEF MapStep, Inv, WaitInv, Later
  <2>. QED  BY <1>2, <2>1, <2>2 DEF WaitInv
<1>. QED  BY <1>3, <1>4, <1>6 DEF ConnInv

\* A message of a common procedure after the step was on its way before it, at the same
\* place, or is sent.
LEMMA HandledPlaces ==
    ASSUME Inv, NEW a \in Conns, NEW n \in Conns, NEW d \in Context,
           NEW x \in {0} \cup Conns, NEW ms \in Seq(DlMsg), LinkStep(a, n, d, x, ms)
    PROVE  \A b \in Conns : \A i \in Pos(b)' : KindAt(b, i)' \in Tokens =>
              \/ /\ i \in Pos(b) /\ KindAt(b, i) = KindAt(b, i)'
                 /\ b # a \/ i # 0
                 /\ b = a => dl[a] # <<>>
              \/ /\ b = x /\ \E j \in 1..Len(ms) : i = Len(dl[b]) + j /\ KindAt(b, i)' = ms[j].kind
<1>. SUFFICES ASSUME NEW b \in Conns, NEW i \in Pos(b)', KindAt(b, i)' \in Tokens
     PROVE  \/ /\ i \in Pos(b) /\ KindAt(b, i) = KindAt(b, i)'
               /\ b # a \/ i # 0
               /\ b = a => dl[a] # <<>>
            \/ /\ b = x /\ \E j \in 1..Len(ms) : i = Len(dl[b]) + j /\ KindAt(b, i)' = ms[j].kind
  OBVIOUS
<1>1. up \in [Conns -> UlMsg] /\ dl \in [Conns -> Seq(DlMsg)] /\ Len(dl[b]) \in Nat
  BY DEF Inv, TypeOK
<1>2. up'[a] = NoMsg /\ NoMsg.kind \notin Tokens /\ \A c \in Conns \ {a} : up'[c] = up[c]
  BY <1>1 DEF LinkStep, NoMsg, Msg, Tokens, AuthKinds, SmcKinds
<1>3. CASE i = 0
  <2>1. KindAt(b, i)' = up'[b].kind /\ KindAt(b, i) = up[b].kind
    BY <1>3 DEF KindAt
  <2>2. b # a
    BY <1>2, <2>1
  <2>. QED  BY <1>1, <1>2, <1>3, <2>1, <2>2 DEF Pos
<1>4. CASE i # 0
  <2>1. i \in 1..Len(dl'[b]) /\ KindAt(b, i)' = dl'[b][i].kind /\ KindAt(b, i) = dl[b][i].kind
    <3>1. dl'[b] \in Seq(DlMsg)
      BY <1>1, Sent DEF LinkStep
    <3>. QED  BY <1>4, <3>1 DEF KindAt, Pos
  <2>2. Arrive(x, ms)
    BY <1>1, SentMsgs DEF LinkStep
  <2>3. CASE i \in 1..Len(dl[b]) /\ dl'[b][i] = dl[b][i]
    BY <1>1, <1>4, <2>1, <2>3 DEF Pos
  <2>4. CASE b = x /\ \E j \in 1..Len(ms) : i = Len(dl[b]) + j /\ dl'[b][i] = ms[j]
    BY <2>1, <2>4
  <2>. QED  BY <2>1, <2>2, <2>3, <2>4 DEF Arrive
<1>. QED  BY <1>3, <1>4

LEMMA HandledTokens ==
    ASSUME Inv, NEW a \in Conns, Handled(a)
    PROVE  TokensBacked' /\ OneToken'
<1>1. PICK n \in Conns, d \in Context, x \in {0} \cup Conns, ms \in Seq(DlMsg) :
         Handles(a, n, d, x, ms)
  BY DEF Handled
<1>2. /\ LinkStep(a, n, d, x, ms) /\ MapStep(a, n, x, ms) /\ TokenStep(a, n, d, x, ms)
      /\ nas'[n] = d /\ \A k \in Conns : k # n => nas'[k] = nas[k]
      /\ amf2nas \in [Conns -> {0} \cup Conns] /\ dl \in [Conns -> Seq(DlMsg)]
  BY <1>1, Saved DEF Handles, LinkStep, Inv, TypeOK
<1>. DEFINE Old(b, i) == /\ i \in Pos(b) /\ KindAt(b, i) \in Tokens
                         /\ KindAt(b, i)' = KindAt(b, i)
                         /\ amf2nas'[b] = amf2nas[b] /\ (b # a \/ i # 0)
<1>. DEFINE New(b, i) == /\ b = x /\ amf2nas'[b] \in {0, n} /\ Idle(n, a)
                         /\ i = Len(dl[x]) + 1 /\ Backed(d, KindAt(b, i)')
<1>3. \A b \in Conns : amf2nas'[b] # 0 =>
         \A i \in Pos(b)' : KindAt(b, i)' \in Tokens => Old(b, i) \/ New(b, i)
  <2>. SUFFICES ASSUME NEW b \in Conns, amf2nas'[b] # 0,
                       NEW i \in Pos(b)', KindAt(b, i)' \in Tokens
       PROVE  Old(b, i) \/ New(b, i)
    OBVIOUS
  <2>1. \/ /\ i \in Pos(b) /\ KindAt(b, i) = KindAt(b, i)'
           /\ b # a \/ i # 0
           /\ b = a => dl[a] # <<>>
        \/ /\ b = x /\ \E j \in 1..Len(ms) : i = Len(dl[b]) + j /\ KindAt(b, i)' = ms[j].kind
    BY <1>2, HandledPlaces
  <2>2. CASE /\ i \in Pos(b) /\ KindAt(b, i) = KindAt(b, i)'
             /\ b # a \/ i # 0
             /\ b = a => dl[a] # <<>>
    <3>1. amf2nas'[b] = amf2nas[b]
      BY <1>2, <2>2 DEF MapStep, Fresh
    <3>. QED  BY <2>2, <3>1
  <2>3. ASSUME b = x, NEW j \in 1..Len(ms), i = Len(dl[b]) + j, KindAt(b, i)' = ms[j].kind
        PROVE  New(b, i)
    <3>1. ~Plain(ms)
      BY <2>3 DEF Plain
    <3>2. /\ Idle(n, a) /\ Len(ms) = 1 /\ Backed(d, ms[1].kind)
          /\ x \in Conns => amf2nas'[x] \in {0, n}
      BY <1>2, <3>1 DEF TokenStep
    <3>3. j = 1
      BY <3>2
    <3>. QED  BY <2>3, <3>2, <3>3
  <2>. QED  BY <2>1, <2>2, <2>3
<1>4. ASSUME NEW b \in Conns, NEW i, Old(b, i), Idle(n, a)
      PROVE  amf2nas'[b] # n
  BY <1>4 DEF Idle
<1>5. TokensBacked'
  <2>. SUFFICES ASSUME NEW b \in Conns, amf2nas'[b] # 0, NEW i \in Pos(b)'
       PROVE  Backed(nas'[amf2nas'[b]], KindAt(b, i)')
    BY DEF TokensBacked
  <2>1. CASE KindAt(b, i)' \notin Tokens
    BY <2>1 DEF Backed, Tokens
  <2>2. CASE Old(b, i)
    <3>1. amf2nas[b] \in Conns /\ Backed(nas[amf2nas[b]], KindAt(b, i))
      BY <1>2, <2>2 DEF Inv, TokensBacked
    <3>2. CASE amf2nas[b] # n
      BY <1>2, <2>2, <3>1, <3>2
    <3>3. CASE amf2nas[b] = n
      <4>1. ~Idle(n, a)
        BY <1>4, <2>2, <3>3
      <4>2. d.auth = nas[n].auth /\ d.smc = nas[n].smc /\ (d.imsi = 0 => nas[n].imsi = 0)
        BY <1>2, <4>1 DEF TokenStep
      <4>. QED  BY <1>2, <2>2, <3>1, <3>3, <4>2 DEF Backed
    <3>. QED  BY <3>2, <3>3
  <2>3. CASE New(b, i)
    BY <1>2, <2>3
  <2>. QED  BY <1>3, <2>1, <2>2, <2>3
<1>6. OneToken'
  <2>. SUFFICES ASSUME NEW b \in Conns, NEW c \in Conns,
                       amf2nas'[b] # 0, amf2nas'[b] = amf2nas'[c],
                       NEW i \in Pos(b)', NEW j \in Pos(c)',
                       KindAt(b, i)' \in Tokens, KindAt(c, j)' \in Tokens
       PROVE  b = c /\ i = j
    BY DEF OneToken
  <2>1. (Old(b, i) \/ New(b, i)) /\ (Old(c, j) \/ New(c, j))
    BY <1>3
  <2>2. CASE Old(b, i) /\ Old(c, j)
    BY <2>2 DEF Inv, OneToken
  <2>3. CASE New(b, i) /\ New(c, j)
    BY <2>3
  <2>4. ~(Old(b, i) /\ New(c, j)) /\ ~(New(b, i) /\ Old(c, j))
    BY <1>4
  <2>. QED  BY <2>1, <2>2, <2>3, <2>4
<1>. QED  BY <1>5, <1>6

LEMMA HandledInv ==
    ASSUME Inv, RestOK', NEW a \in Conns, Handled(a)
    PROVE  Inv'
  BY HandledTypes, HandledFresh, HandledOwn, HandledConn, HandledTokens DEF Inv

-----------------------------------------------------------------------------
(* Authentication: context c becomes d, and ms is sent.                    *)

Same(c, d) == d.conn = c.conn /\ d.imsi = c.imsi /\ d.mm = c.mm

\* A challenge is sent only if no procedure runs, and to a UE whose IMSI is known.
Outcome(c, d, ms) ==
    /\ Same(c, d) /\ NoAccept(ms)
    /\ \/ Plain(ms) /\ d.auth = c.auth /\ d.smc = c.smc
       \/ /\ ~c.auth /\ ~c.smc /\ d.auth /\ ~d.smc
          /\ Len(ms) = 1 /\ ms[1].kind = "authRequest" /\ c.imsi # 0

LEMMA ChallengeOutcome ==
    ASSUME NEW n \in Conns, NEW c \in Context, c.imsi # 0, Challenge(n, c)
    PROVE  \E d \in Context, ms \in Seq(DlMsg) :
              Save(n, d) /\ Send(c.conn, ms) /\ Outcome(c, d, ms)
<1>. DEFINE d == [c EXCEPT !.sec = IF @ = "none" THEN "notAvailable" ELSE @]
            e == [d EXCEPT !.auth = TRUE]
            t == Dl("authRequest", d.vec)
<1>1. d \in Context /\ Same(c, d) /\ d.auth = c.auth /\ d.smc = c.smc /\ d.vec \in Nat
  BY DEF Context, Same
<1>. HIDE DEF d
<1>2. e \in Context /\ Same(c, e) /\ e.auth /\ e.smc = c.smc
  BY <1>1 DEF Context, Same
<1>3. t \in DlMsg /\ t.kind = "authRequest"
  BY <1>1, DlTyped DEF DlKinds
<1>4. <<t>> \in Seq(DlMsg) /\ Len(<<t>>) = 1 /\ <<t>>[1] = t
  BY <1>3, One
<1>5. \/ ProcedureRuns(d) /\ Save(n, d) /\ Send(d.conn, Refusal)
      \/ ~ProcedureRuns(d) /\ Save(n, e) /\ Send(d.conn, <<t>>)
  BY DEF Challenge, d
<1>6. d.auth \in BOOLEAN /\ d.smc \in BOOLEAN
  BY <1>1 DEF Context
<1>. HIDE DEF e, t
<1>7. CASE ProcedureRuns(d) /\ Save(n, d) /\ Send(d.conn, Refusal)
  BY <1>1, <1>7, RejectSent DEF Outcome, Same
<1>8. CASE ~ProcedureRuns(d) /\ Save(n, e) /\ Send(d.conn, <<t>>)
  <2>1. ~c.auth /\ ~c.smc
    BY <1>1, <1>8 DEF ProcedureRuns
  <2>2. NoAccept(<<t>>)
    BY <1>3, <1>4 DEF NoAccept
  <2>3. Outcome(c, e, <<t>>)
    BY <1>2, <1>3, <1>4, <2>1, <2>2 DEF Outcome
  <2>. QED  BY <1>1, <1>2, <1>4, <1>8, <2>3 DEF Same
<1>. QED  BY <1>5, <1>7, <1>8

LEMMA NewVectorOutcome ==
    ASSUME nVec \in [Ues -> Nat], NEW n \in Conns, NEW c \in Context, c.imsi # 0, NewVector(n, c)
    PROVE  /\ nVec' \in [Ues -> Nat]
           /\ \E d \in Context, ms \in Seq(DlMsg) :
                 Save(n, d) /\ Send(c.conn, ms) /\ Outcome(c, d, ms)
<1>1. c.imsi \in Ues
  BY DEF Context
<1>2. CASE /\ nVec' = [nVec EXCEPT ![c.imsi] = @ + 1]
           /\ Challenge(n, [c EXCEPT !.vec = nVec[c.imsi] + 1])
  <2>. DEFINE e == [c EXCEPT !.vec = nVec[c.imsi] + 1]
  <2>1. e \in Context /\ Same(c, e) /\ e.auth = c.auth /\ e.smc = c.smc
    BY <1>1 DEF Context, Same
  <2>2. nVec' \in [Ues -> Nat] /\ Challenge(n, e)
    BY <1>1, <1>2
  <2>. HIDE DEF e
  <2>3. \E d \in Context, ms \in Seq(DlMsg) :
           Save(n, d) /\ Send(e.conn, ms) /\ Outcome(e, d, ms)
    BY <2>1, <2>2, ChallengeOutcome DEF Same
  <2>. QED  BY <2>1, <2>2, <2>3 DEF Outcome, Same
<1>3. CASE Save(n, c) /\ Send(c.conn, <<Reject>>) /\ UNCHANGED nVec
  BY <1>3, RejectSent DEF Outcome, Same
<1>. QED  BY <1>2, <1>3 DEF NewVector

LEMMA RegistrationOutcome ==
    ASSUME nVec \in [Ues -> Nat], NEW n \in Conns, NEW c \in Context, RunRegistration(n, c)
    PROVE  /\ nVec' \in [Ues -> Nat] /\ nTmsi' = nTmsi
           /\ \E d \in Context, ms \in Seq(DlMsg) :
                 Save(n, d) /\ Send(c.conn, ms) /\ Outcome(c, d, ms)
<1>1. CASE c.imsi # 0 /\ c.vec # 0 /\ Challenge(n, c) /\ UNCHANGED nVec
  BY <1>1, ChallengeOutcome DEF RunRegistration
<1>2. CASE c.imsi # 0 /\ c.vec = 0 /\ NewVector(n, c)
  BY <1>2, NewVectorOutcome DEF RunRegistration
<1>3. CASE UNCHANGED nVec /\ Save(n, c) /\ Send(c.conn, <<Dl("identityRequest", 0)>>)
  <2>1. /\ <<Dl("identityRequest", 0)>> \in Seq(DlMsg)
        /\ Plain(<<Dl("identityRequest", 0)>>) /\ NoAccept(<<Dl("identityRequest", 0)>>)
    BY OnePlain DEF DlKinds
  <2>. QED  BY <1>3, <2>1 DEF Outcome, Same, RunRegistration
<1>. QED  BY <1>1, <1>2, <1>3 DEF RunRegistration

-----------------------------------------------------------------------------
(* The first message of a connection.                                      *)

\* The context that it leads to is one of the same UE, and if no procedure runs in it, no
\* message of one is on its way.
LEMMA BoundFacts ==
    ASSUME Inv, NEW a \in Conns, up[a].kind \in Initials
    PROVE  LET n == ContextFor(a, up[a]) c == Bound(a, up[a]) IN
           /\ n \in Conns /\ owner[n] = owner[a] /\ owner[a] \in Ues /\ owner[a] # 0
           /\ n = a \/ ~Unreferenced(n)
           /\ c \in Context /\ c.conn = a /\ c.imsi \in {0, owner[a]} /\ ~(c.auth /\ c.smc)
           /\ c.mm = "registered" => nas[n].mm = "registered"
           /\ ~c.auth /\ ~c.smc => Idle(n, a)
           /\ \/ Idle(n, a)
              \/ c.auth = nas[n].auth /\ c.smc = nas[n].smc /\ c.imsi = nas[n].imsi
<1>. DEFINE m == up[a] n == ContextFor(a, up[a]) c == Bound(a, up[a])
<1>1. /\ nas \in [Conns -> Context] /\ owner[a] \in {0} \cup Ues /\ m \in UlMsg /\ Fresh(a)
      /\ owner[a] # 0 /\ m # NoMsg /\ Belongs(nTmsi, guti2nas, owner, m.guti, owner[a])
  BY DEF Inv, TypeOK, FreshInv, OwnInv, CarriedOwned, BelongsTo, NoMsg, Msg, Initials
<1>2. CASE Known(m)
  <2>1. m.guti \in {ZeroTmsi} \cup Gutis /\ guti2nas[m.guti] # 0 /\ n = guti2nas[m.guti]
    BY <1>1, <1>2 DEF Known, UlMsg, ContextFor
  <2>2. n \in Conns /\ ~Unreferenced(n)
    BY <2>1 DEF Inv, TypeOK, Unreferenced
  <2>3. owner[n] = owner[a]
    BY <1>1, <1>2, <2>1 DEF Belongs, Known
  <2>4. c = [nas[n] EXCEPT !.conn = a] /\ nas[n] \in Context
    BY <1>1, <1>2, <2>1, <2>2 DEF Bound
  <2>5. /\ c \in Context /\ c.conn = a /\ c.imsi = nas[n].imsi /\ c.mm = nas[n].mm
        /\ c.auth = nas[n].auth /\ c.smc = nas[n].smc
    BY <2>4 DEF Context
  <2>6. nas[n].imsi \in {0, owner[a]} /\ ~(nas[n].auth /\ nas[n].smc)
    BY <2>2, <2>3 DEF Inv, OwnInv, MapsOwned, OneProcedureAtATime
  <2>7. ASSUME ~nas[n].auth, ~nas[n].smc PROVE Idle(n, a)
    <3>. SUFFICES ASSUME NEW b \in Conns, amf2nas[b] = n, NEW i \in Pos(b),
                         KindAt(b, i) \in Tokens
         PROVE  FALSE
      BY DEF Idle
    <3>1. Backed(nas[n], KindAt(b, i))
      BY <2>2, ConnsNat DEF Inv, TokensBacked
    <3>. QED  BY <2>7, <3>1 DEF Backed, Tokens
  <2>. HIDE DEF n, c
  <2>8. ~c.auth /\ ~c.smc => Idle(n, a)
    BY <2>5, <2>7
  <2>. QED  BY <1>1, <2>2, <2>3, <2>5, <2>6, <2>8 DEF n, c
<1>3. CASE ~Known(m)
  <2>1. n = a /\ c = NewContext(a)
    BY <1>3 DEF ContextFor, Bound
  <2>2. Idle(n, a)
    BY <1>1, <2>1 DEF Idle, Fresh, Unreferenced
  <2>3. /\ NewContext(a) \in Context
        /\ NewContext(a).conn = a /\ NewContext(a).imsi = 0 /\ NewContext(a).mm = "none"
        /\ ~NewContext(a).auth /\ ~NewContext(a).smc
    BY NewContextTyped
  <2>. HIDE DEF n, c
  <2>. QED  BY <1>1, <2>1, <2>2, <2>3 DEF n, c
<1>. QED  BY <1>2, <1>3

LEMMA FirstMessage ==
    ASSUME Inv, NEW a \in Conns, up[a].kind \in Initials, Takes(a, up[a]),
           ue' = ue, owner' = owner, nTmsi' = nTmsi,
           NEW imsi \in {0, owner[a]}, Enter(a, up[a], imsi),
           NEW d \in Context, NEW ms \in Seq(DlMsg),
           Save(ContextFor(a, up[a]), d), Send(a, ms),
           d.conn = a, d.imsi \in {0, owner[a]}, Bound(a, up[a]).imsi # 0 => d.imsi # 0,
           d.mm = "registered" => Bound(a, up[a]).mm = "registered",
           \A j \in 1..Len(ms) : ms[j].kind = "accept" => ms[j].v = ZeroTmsi,
           \/ Plain(ms) /\ d.auth = Bound(a, up[a]).auth /\ d.smc = Bound(a, up[a]).smc
           \/ /\ ~Bound(a, up[a]).auth /\ ~Bound(a, up[a]).smc /\ d.auth /\ ~d.smc
              /\ Len(ms) = 1 /\ ms[1].kind = "authRequest" /\ d.imsi # 0
    PROVE  /\ Handled(a)
           /\ amf2nas' \in [Conns -> {0} \cup Conns] /\ imsi2nas' \in [Ues -> {0} \cup Conns]
           /\ guti2nas' = guti2nas /\ supi2conn' \in [Ues -> {0} \cup Conns]
<1>. DEFINE n == ContextFor(a, up[a]) c == Bound(a, up[a])
<1>1. /\ n \in Conns /\ owner[n] = owner[a] /\ owner[a] \in Ues /\ owner[a] # 0
      /\ n = a \/ ~Unreferenced(n)
      /\ c \in Context /\ c.conn = a /\ c.imsi \in {0, owner[a]} /\ ~(c.auth /\ c.smc)
      /\ c.mm = "registered" => nas[n].mm = "registered"
      /\ ~c.auth /\ ~c.smc => Idle(n, a)
      /\ \/ Idle(n, a)
         \/ c.auth = nas[n].auth /\ c.smc = nas[n].smc /\ c.imsi = nas[n].imsi
  BY BoundFacts
<1>2. /\ amf2nas \in [Conns -> {0} \cup Conns] /\ imsi2nas \in [Ues -> {0} \cup Conns]
      /\ supi2conn \in [Ues -> {0} \cup Conns] /\ Fresh(a) /\ nTmsi \in Nat
      /\ guti2nas[ZeroTmsi] = 0
  BY DEF Inv, TypeOK, FreshInv, OwnInv, GutisOwned
<1>. HIDE DEF n, c
<1>3. /\ amf2nas' = [amf2nas EXCEPT ![a] = n] /\ guti2nas' = guti2nas
      /\ supi2conn' \in {supi2conn, [supi2conn EXCEPT ![owner[a]] = a]}
      /\ imsi2nas' \in {imsi2nas, [imsi2nas EXCEPT ![owner[a]] = n]}
  BY DEF Enter, n
<1>4. /\ amf2nas' \in [Conns -> {0} \cup Conns] /\ imsi2nas' \in [Ues -> {0} \cup Conns]
      /\ supi2conn' \in [Ues -> {0} \cup Conns] /\ amf2nas'[a] = n
  BY <1>1, <1>2, <1>3
<1>5. LinkStep(a, n, d, a, ms)
  BY DEF LinkStep, Takes, n
<1>6. ContextStep(a, n, d, a)
  BY <1>1, <1>4 DEF ContextStep, c
<1>7. MapStep(a, n, a, ms)
  <2>1. /\ \A b \in Conns \ {a} : amf2nas'[b] = amf2nas[b]
        /\ amf2nas'[a] = n /\ Fresh(a) /\ amf2nas'[a] # 0
    BY <1>1, <1>2, <1>3, ConnsNat
  <2>2. /\ \A u \in Ues : imsi2nas'[u] \in {imsi2nas[u], 0} \/ (u = owner[a] /\ imsi2nas'[u] = n)
        /\ \A u \in Ues : supi2conn'[u] = supi2conn[u] \/ (u = owner[a] /\ supi2conn'[u] = a)
    BY <1>1, <1>2, <1>3
  <2>3. ASSUME NEW j \in 1..Len(ms), ms[j].kind = "accept"
        PROVE  Belongs(nTmsi', guti2nas', owner', ms[j].v, owner[a])
    <3>1. ms[j].v = 0
      BY <2>3 DEF ZeroTmsi
    <3>. QED  BY <1>2, <1>3, <3>1 DEF Belongs, ZeroTmsi
  <2>. QED  BY <1>2, <1>3, <2>1, <2>2, <2>3 DEF MapStep
<1>8. TokenStep(a, n, d, a, ms)
  <2>1. CASE Plain(ms) /\ d.auth = c.auth /\ d.smc = c.smc
    BY <1>1, <2>1 DEF TokenStep, c
  <2>2. CASE /\ ~c.auth /\ ~c.smc /\ d.auth /\ ~d.smc
             /\ Len(ms) = 1 /\ ms[1].kind = "authRequest" /\ d.imsi # 0
    <3>1. Backed(d, ms[1].kind)
      BY <2>2 DEF Backed, SmcKinds
    <3>. QED  BY <1>1, <1>4, <2>2, <3>1 DEF TokenStep
  <2>. QED  BY <2>1, <2>2 DEF c
<1>9. Handled(a)
  BY <1>1, <1>5, <1>6, <1>7, <1>8 DEF Handled, Handles
<1>. QED  BY <1>3, <1>4, <1>9

LEMMA OwnersAreUes == Inv => \A a \in Conns : up[a] # NoMsg => owner[a] \in Ues /\ owner[a] # 0
  BY DEF Inv, TypeOK, FreshInv

LEMMA RegisterBySuciStep ==
    ASSUME Inv, NEW a \in Conns, RegisterBySuci(a)
    PROVE  RestOK' /\ Handled(a)
<1>. DEFINE m == Msg("suci", 0, NoGuti)
            c == [NewContext(a) EXCEPT !.imsi = owner[a], !.mm = "initiated"]
<1>1. /\ Takes(a, m) /\ N1Only /\ UNCHANGED tmrVars /\ Enter(a, m, owner[a])
      /\ RunRegistration(a, c) /\ m = up[a] /\ m # NoMsg /\ m.kind = "suci" /\ m.guti = NoGuti
  BY DEF RegisterBySuci, Takes, Msg
<1>2. up[a].kind \in Initials /\ Takes(a, up[a]) /\ Enter(a, up[a], owner[a])
  BY <1>1 DEF Initials
<1>3. owner[a] \in Ues /\ owner[a] # 0
  BY <1>1, OwnersAreUes
<1>4. /\ c \in Context /\ c.conn = a /\ c.imsi = owner[a] /\ c.mm = "initiated"
      /\ ~c.auth /\ ~c.smc
  BY <1>3 DEF NewContext, Context
<1>5. ContextFor(a, up[a]) = a /\ Bound(a, up[a]) = NewContext(a)
  BY <1>1 DEF ContextFor, Bound, Known
<1>6. Bound(a, up[a]).imsi = 0 /\ ~Bound(a, up[a]).auth /\ ~Bound(a, up[a]).smc
  BY <1>5, NewContextTyped
<1>. HIDE DEF m, c
<1>7. RestOK /\ nVec \in [Ues -> Nat]
  BY TypeParts DEF Inv, RestOK
<1>8. nVec' \in [Ues -> Nat] /\ nTmsi' = nTmsi
  BY <1>1, <1>4, <1>7, RegistrationOutcome
<1>9. PICK d \in Context, ms \in Seq(DlMsg) : Save(a, d) /\ Send(a, ms) /\ Outcome(c, d, ms)
  BY <1>1, <1>4, <1>7, RegistrationOutcome
<1>10. /\ Save(ContextFor(a, up[a]), d) /\ d.conn = a /\ d.imsi = owner[a] /\ d.mm = "initiated"
       /\ \A j \in 1..Len(ms) : ms[j].kind = "accept" => ms[j].v = ZeroTmsi
       /\ \/ Plain(ms) /\ d.auth = c.auth /\ d.smc = c.smc
          \/ d.auth /\ ~d.smc /\ Len(ms) = 1 /\ ms[1].kind = "authRequest"
  BY <1>4, <1>5, <1>9 DEF Outcome, Same, NoAccept
<1>11. ue' = ue /\ owner' = owner /\ UNCHANGED <<closed, releasing, fails, alive, armed, expired>>
  BY <1>1 DEF N1Only, ranVars, tmrVars
<1>12. \/ Plain(ms) /\ d.auth = Bound(a, up[a]).auth /\ d.smc = Bound(a, up[a]).smc
       \/ /\ ~Bound(a, up[a]).auth /\ ~Bound(a, up[a]).smc /\ d.auth /\ ~d.smc
          /\ Len(ms) = 1 /\ ms[1].kind = "authRequest" /\ d.imsi # 0
  <2>1. Bound(a, up[a]).auth = c.auth /\ Bound(a, up[a]).smc = c.smc
    BY <1>5 DEF NewContext, c
  <2>. QED  BY <1>3, <1>6, <1>10, <2>1
<1>13. /\ Handled(a)
       /\ amf2nas' \in [Conns -> {0} \cup Conns] /\ imsi2nas' \in [Ues -> {0} \cup Conns]
       /\ guti2nas' = guti2nas /\ supi2conn' \in [Ues -> {0} \cup Conns]
  BY <1>2, <1>6, <1>8, <1>9, <1>10, <1>11, <1>12, FirstMessage
<1>. QED  BY <1>7, <1>8, <1>11, <1>13 DEF RestOK

\* What ByGuti leaves alone.
LEMMA ByGutiKeeps ==
    ASSUME NEW c \in Context
    PROVE  /\ ByGuti(c) \in Context /\ Same(c, ByGuti(c))
           /\ ByGuti(c).auth = c.auth /\ ByGuti(c).smc = c.smc
  BY ZenonT(40) DEF ByGuti, Context, Same

LEMMA RegisterByGutiStep ==
    ASSUME Inv, NEW a \in Conns, NEW m \in {up[a]}, RegisterByGuti(a, m)
    PROVE  RestOK' /\ Handled(a)
<1>. DEFINE n == ContextFor(a, up[a]) b == Bound(a, up[a]) c == ByGuti(b)
<1>1. /\ Takes(a, up[a]) /\ N1Only /\ UNCHANGED tmrVars /\ Enter(a, up[a], b.imsi)
      /\ RunRegistration(n, c) /\ up[a].kind \in Initials
  BY DEF RegisterByGuti, Initials
<1>2. n \in Conns /\ b \in Context /\ b.conn = a /\ b.imsi \in {0, owner[a]}
  BY <1>1, BoundFacts
<1>3. /\ c \in Context /\ c.conn = a /\ c.imsi = b.imsi /\ c.mm = b.mm
      /\ c.auth = b.auth /\ c.smc = b.smc
  BY <1>2, ByGutiKeeps DEF Same
<1>4. RestOK /\ nVec \in [Ues -> Nat]
  BY TypeParts DEF Inv, RestOK
<1>. HIDE DEF n, c
<1>5. nVec' \in [Ues -> Nat] /\ nTmsi' = nTmsi
  BY <1>1, <1>2, <1>3, <1>4, RegistrationOutcome
<1>6. PICK d \in Context, ms \in Seq(DlMsg) : Save(n, d) /\ Send(a, ms) /\ Outcome(c, d, ms)
  BY <1>1, <1>2, <1>3, <1>4, RegistrationOutcome
<1>7. /\ Save(ContextFor(a, up[a]), d) /\ d.conn = a /\ d.imsi = b.imsi /\ d.mm = b.mm
      /\ \A j \in 1..Len(ms) : ms[j].kind = "accept" => ms[j].v = ZeroTmsi
      /\ \/ Plain(ms) /\ d.auth = b.auth /\ d.smc = b.smc
         \/ /\ ~b.auth /\ ~b.smc /\ d.auth /\ ~d.smc
            /\ Len(ms) = 1 /\ ms[1].kind = "authRequest" /\ d.imsi # 0
  BY <1>3, <1>6 DEF Outcome, Same, NoAccept, n
<1>8. ue' = ue /\ owner' = owner /\ UNCHANGED <<closed, releasing, fails, alive, armed, expired>>
  BY <1>1 DEF N1Only, ranVars, tmrVars
<1>9. /\ Handled(a)
      /\ amf2nas' \in [Conns -> {0} \cup Conns] /\ imsi2nas' \in [Ues -> {0} \cup Conns]
      /\ guti2nas' = guti2nas /\ supi2conn' \in [Ues -> {0} \cup Conns]
  BY <1>1, <1>2, <1>5, <1>6, <1>7, <1>8, FirstMessage
<1>. QED  BY <1>4, <1>5, <1>8, <1>9 DEF RestOK

\* A registration update or a service request: c is saved, and ms is the answer, if any.
LEMMA UpdateStep ==
    ASSUME Inv, NEW a \in Conns, NEW m \in {up[a]},
           UpdateRegistration(a, m) \/ ServiceRequest(a, m)
    PROVE  RestOK' /\ Handled(a)
<1>. DEFINE n == ContextFor(a, up[a]) b == Bound(a, up[a])
<1>1. /\ Takes(a, up[a]) /\ N1Only /\ UNCHANGED <<tmrVars, genVars>> /\ up[a].kind \in Initials
      /\ \/ /\ Enter(a, up[a], ByGuti(b).imsi) /\ Save(n, ByGuti(b))
            /\ \/ Send(a, <<>>)
               \/ Send(a, <<Dl("accept", ZeroTmsi)>>)
         \/ /\ Enter(a, up[a], b.imsi) /\ Save(n, b)
            /\ \/ Send(a, <<>>)
               \/ Send(a, <<Dl("serviceAccept", 0)>>)
  BY DEF UpdateRegistration, ServiceRequest, Initials
<1>2. n \in Conns /\ b \in Context /\ b.conn = a /\ b.imsi \in {0, owner[a]}
  BY <1>1, BoundFacts
<1>3. /\ ByGuti(b) \in Context /\ Same(b, ByGuti(b))
      /\ ByGuti(b).auth = b.auth /\ ByGuti(b).smc = b.smc
  BY <1>2, ByGutiKeeps
<1>4. PICK d \in Context : /\ Save(n, d) /\ Same(b, d) /\ d.auth = b.auth /\ d.smc = b.smc
                           /\ Enter(a, up[a], b.imsi)
  BY <1>1, <1>2, <1>3 DEF Same
<1>5. \E ms \in Seq(DlMsg) : /\ Send(a, ms) /\ Plain(ms)
                             /\ \A j \in 1..Len(ms) : ms[j].kind = "accept" => ms[j].v = ZeroTmsi
  <2>. DEFINE Good(ms) == /\ ms \in Seq(DlMsg) /\ Plain(ms)
                          /\ \A j \in 1..Len(ms) : ms[j].kind = "accept" => ms[j].v = ZeroTmsi
  <2>1. Good(<<>>)
    BY NoneSent
  <2>2. Good(<<Dl("accept", ZeroTmsi)>>)
    BY OnePlain, DlTyped DEF DlKinds, ZeroTmsi
  <2>3. Good(<<Dl("serviceAccept", 0)>>)
    BY OnePlain, DlTyped DEF DlKinds
  <2>. HIDE DEF Good
  <2>4. \E ms : Send(a, ms) /\ Good(ms)
    BY <1>1, <2>1, <2>2, <2>3
  <2>. QED  BY <2>4 DEF Good
<1>6. PICK ms \in Seq(DlMsg) : /\ Send(a, ms) /\ Plain(ms)
                               /\ \A j \in 1..Len(ms) : ms[j].kind = "accept" => ms[j].v = ZeroTmsi
  BY <1>5
<1>7. /\ Save(ContextFor(a, up[a]), d) /\ d.conn = a /\ d.imsi = b.imsi /\ d.mm = b.mm
      /\ Plain(ms) /\ d.auth = Bound(a, up[a]).auth /\ d.smc = Bound(a, up[a]).smc
  BY <1>2, <1>4, <1>6 DEF Same
<1>8. /\ ue' = ue /\ owner' = owner
      /\ UNCHANGED <<closed, releasing, fails, alive, armed, expired, nTmsi, nVec>>
  BY <1>1 DEF N1Only, ranVars, tmrVars, genVars
<1>9. /\ Handled(a)
      /\ amf2nas' \in [Conns -> {0} \cup Conns] /\ imsi2nas' \in [Ues -> {0} \cup Conns]
      /\ guti2nas' = guti2nas /\ supi2conn' \in [Ues -> {0} \cup Conns]
  BY <1>1, <1>2, <1>4, <1>6, <1>7, <1>8, FirstMessage
<1>10. RestOK
  BY TypeParts DEF Inv
<1>. QED  BY <1>8, <1>9, <1>10 DEF RestOK

-----------------------------------------------------------------------------
(* The messages that follow.                                               *)

LEMMA OngoingFacts ==
    ASSUME Inv, NEW a \in Conns, amf2nas[a] # 0
    PROVE  LET n == amf2nas[a] IN
           /\ n \in Conns /\ owner[n] = owner[a] /\ owner[a] \in Ues /\ owner[a] # 0
           /\ ~Unreferenced(n) /\ nas[n] \in Context /\ nas[n].imsi \in {0, owner[a]}
           /\ nas[n].conn \in Conns => amf2nas[nas[n].conn] \in {0, n}
           /\ ~(nas[n].auth /\ nas[n].smc)
           /\ up[a].kind \in Tokens => Idle(n, a) /\ nas[n].imsi # 0
           /\ up[a].kind \in AuthKinds => nas[n].auth
           /\ up[a].kind \in SmcKinds => nas[n].smc
           /\ ~nas[n].auth /\ ~nas[n].smc => Idle(n, a)
<1>. DEFINE n == amf2nas[a]
<1>1. n \in Conns /\ ~Unreferenced(n)
  BY DEF Inv, TypeOK, Unreferenced
<1>2. owner[n] = owner[a] /\ owner[a] \in Ues /\ owner[a] # 0 /\ nas[n].imsi \in {0, owner[a]}
  BY <1>1 DEF Inv, TypeOK, OwnInv, MapsOwned
<1>3. /\ nas[n] \in Context /\ ~(nas[n].auth /\ nas[n].smc)
      /\ nas[n].conn \in Conns => amf2nas[nas[n].conn] \in {0, n}
  BY <1>1, ConnsNat DEF Inv, TypeOK, ConnInv, OneProcedureAtATime
<1>4. 0 \in Pos(a) /\ KindAt(a, 0) = up[a].kind
  BY DEF Pos, KindAt, Inv, TypeOK
<1>5. ASSUME up[a].kind \in Tokens PROVE Idle(n, a) /\ nas[n].imsi # 0
  <2>1. nas[n].imsi # 0
    BY <1>4, <1>5 DEF Inv, TokensBacked, Backed
  <2>2. Idle(n, a)
    BY <1>4, <1>5 DEF Inv, OneToken, Idle
  <2>. QED  BY <2>1, <2>2
<1>6. Backed(nas[n], up[a].kind)
  BY <1>4 DEF Inv, TokensBacked
<1>7. ASSUME ~nas[n].auth, ~nas[n].smc PROVE Idle(n, a)
  <2>. SUFFICES ASSUME NEW b \in Conns, amf2nas[b] = n, NEW i \in Pos(b), KindAt(b, i) \in Tokens
       PROVE  FALSE
    BY DEF Idle
  <2>1. Backed(nas[n], KindAt(b, i))
    BY DEF Inv, TokensBacked
  <2>. QED  BY <1>7, <2>1 DEF Backed, Tokens
<1>. QED  BY <1>1, <1>2, <1>3, <1>5, <1>6, <1>7 DEF Backed

LEMMA SendNothing ==
    ASSUME dl \in [Conns -> Seq(DlMsg)], dl' = dl, NEW a \in Conns
    PROVE  Send(a, <<>>)
<1>1. dl[a] \o <<>> = dl[a]
  OBVIOUS
<1>. QED  BY <1>1 DEF Send

\* A message that leaves the maps to contexts as they are.
LEMMA OngoingMessage ==
    ASSUME Inv, NEW a \in Conns, amf2nas[a] # 0, NEW m, m = up[a], Takes(a, m),
           ue' = ue, owner' = owner, nTmsi' = nTmsi,
           amf2nas' = amf2nas, imsi2nas' = imsi2nas, guti2nas' = guti2nas,
           supi2conn' \in {supi2conn, [supi2conn EXCEPT ![owner[a]] = a]},
           NEW x \in {a, nas[amf2nas[a]].conn}, NEW d \in Context, NEW ms \in Seq(DlMsg),
           Save(amf2nas[a], d), Send(x, ms), NoAccept(ms),
           d.conn \in {a, nas[amf2nas[a]].conn}, d.imsi \in {0, owner[a]}, ~(d.auth /\ d.smc),
           d.mm = "registered" => nas[amf2nas[a]].mm = "registered",
           TokenStep(a, amf2nas[a], d, x, ms)
    PROVE  Handled(a)
<1>. DEFINE n == amf2nas[a]
<1>1. /\ n \in Conns /\ owner[n] = owner[a] /\ owner[a] # 0 /\ ~Unreferenced(n)
      /\ nas[n] \in Context /\ supi2conn \in [Ues -> {0} \cup Conns] /\ owner[a] \in Ues
  BY SMTT(40), OngoingFacts DEF Inv, TypeOK
<1>2. x \in {0} \cup Conns
  BY <1>1 DEF Context
<1>3. LinkStep(a, n, d, x, ms)
  BY DEF LinkStep, Takes
<1>4. ContextStep(a, n, d, x)
  BY <1>1 DEF ContextStep
<1>5. \A u \in Ues : supi2conn'[u] = supi2conn[u] \/ (u = owner[a] /\ supi2conn'[u] = a)
  BY <1>1
<1>6. MapStep(a, n, x, ms)
  BY <1>1, <1>5 DEF MapStep, NoAccept
<1>. HIDE DEF n
<1>. QED  BY <1>1, <1>2, <1>3, <1>4, <1>6 DEF Handled, Handles, n

LEMMA IdentityResponseStep ==
    ASSUME Inv, NEW a \in Conns, IdentityResponse(a)
    PROVE  RestOK' /\ Handled(a)
<1>. DEFINE m == Msg("identity", 0, NoGuti)
            n == amf2nas[a]
            c == [nas[n] EXCEPT !.conn = a, !.imsi = owner[a],
                                !.mm = IF nas[n].byGuti THEN "initiated" ELSE @]
<1>1. m = up[a] /\ m # NoMsg /\ m.kind = "identity" /\ Takes(a, m) /\ N1Only
  BY DEF IdentityResponse, Takes, Msg, NoMsg
<1>2. amf2nas[a] # 0
  BY <1>1 DEF Inv, WaitInv, Later
<1>3. /\ n \in Conns /\ nas[n] \in Context /\ owner[a] \in Ues /\ owner[a] # 0
      /\ nas[n].conn \in Conns => amf2nas[nas[n].conn] \in {0, n}
      /\ ~(nas[n].auth /\ nas[n].smc) /\ (~nas[n].auth /\ ~nas[n].smc => Idle(n, a))
  BY <1>2, OngoingFacts
<1>4. /\ amf2nas' = [amf2nas EXCEPT ![a] = n] /\ supi2conn' = [supi2conn EXCEPT ![owner[a]] = a]
      /\ armed' = armed \ {<<"mobile", c.mobile>>, <<"implicit", c.implicit>>}
      /\ UNCHANGED <<imsi2nas, guti2nas, expired>>
      /\ \/ RunRegistration(n, c)
         \/ Save(n, c) /\ UNCHANGED <<genVars, dl>>
  BY <1>2 DEF IdentityResponse
<1>5. /\ c \in Context /\ c.conn = a /\ c.imsi = owner[a] /\ c.auth = nas[n].auth
      /\ c.smc = nas[n].smc /\ (c.mm = "registered" => nas[n].mm = "registered")
  BY ZenonT(40), <1>3 DEF Context
<1>. HIDE DEF m, c
<1>6. RestOK /\ nVec \in [Ues -> Nat] /\ dl \in [Conns -> Seq(DlMsg)]
  BY TypeParts DEF Inv, RestOK
<1>7. /\ nVec' \in [Ues -> Nat] /\ nTmsi' = nTmsi
      /\ \E d \in Context, ms \in Seq(DlMsg) : Save(n, d) /\ Send(a, ms) /\ Outcome(c, d, ms)
  <2>1. CASE RunRegistration(n, c)
    BY <1>3, <1>5, <1>6, <2>1, RegistrationOutcome
  <2>2. CASE Save(n, c) /\ UNCHANGED <<genVars, dl>>
    <3>1. Send(a, <<>>)
      BY <1>6, <2>2, SendNothing
    <3>. QED  BY <1>5, <1>6, <2>2, <3>1, NoneSent DEF genVars, Outcome, Same
  <2>. QED  BY <1>4, <2>1, <2>2
<1>8. PICK d \in Context, ms \in Seq(DlMsg) : Save(n, d) /\ Send(a, ms) /\ Outcome(c, d, ms)
  BY <1>7
<1>9. amf2nas' = amf2nas /\ amf2nas \in [Conns -> {0} \cup Conns]
  BY <1>4, <1>6 DEF RestOK
<1>10. /\ d.conn = a /\ d.imsi = owner[a] /\ (d.mm = "registered" => nas[n].mm = "registered")
       /\ NoAccept(ms)
       /\ \/ Plain(ms) /\ d.auth = nas[n].auth /\ d.smc = nas[n].smc
          \/ /\ ~nas[n].auth /\ ~nas[n].smc /\ d.auth /\ ~d.smc
             /\ Len(ms) = 1 /\ ms[1].kind = "authRequest"
  BY <1>5, <1>8 DEF Outcome, Same
<1>11. ~(d.auth /\ d.smc)
  BY <1>3, <1>10
<1>12. TokenStep(a, n, d, a, ms)
  <2>1. CASE Plain(ms) /\ d.auth = nas[n].auth /\ d.smc = nas[n].smc
    BY <1>3, <1>10, <2>1 DEF TokenStep
  <2>2. CASE /\ ~nas[n].auth /\ ~nas[n].smc /\ d.auth /\ ~d.smc
             /\ Len(ms) = 1 /\ ms[1].kind = "authRequest"
    <3>1. Backed(d, ms[1].kind)
      BY <1>3, <1>10, <2>2 DEF Backed, SmcKinds
    <3>. QED  BY <1>3, <1>9, <2>2, <3>1 DEF TokenStep
  <2>. QED  BY <1>10, <2>1, <2>2
<1>13. /\ ue' = ue /\ owner' = owner /\ armed' \subseteq armed
       /\ UNCHANGED <<closed, releasing, fails, alive, expired>>
  BY <1>1, <1>4 DEF N1Only, ranVars
<1>14. Handled(a)
  BY <1>1, <1>2, <1>4, <1>7, <1>8, <1>9, <1>10, <1>11, <1>12, <1>13, OngoingMessage
<1>15. supi2conn' \in [Ues -> {0} \cup Conns]
  BY <1>4, <1>6 DEF RestOK
<1>. QED  BY <1>4, <1>6, <1>7, <1>9, <1>13, <1>14, <1>15 DEF RestOK

\* The context when its authentication ends.
LEMMA EndedFacts ==
    ASSUME Inv, NEW a \in Conns, amf2nas[a] # 0
    PROVE  LET n == amf2nas[a] e == Ended(a) IN
           /\ e \in Context /\ Same(nas[n], e) /\ ~e.auth /\ e.smc = nas[n].smc
           /\ e.conn \in {0} \cup Conns /\ e.imsi \in {0, owner[a]}
           /\ e.smc \in BOOLEAN /\ e.vec = nas[n].vec
<1>1. amf2nas[a] \in Conns /\ nas[amf2nas[a]] \in Context /\ nas[amf2nas[a]].imsi \in {0, owner[a]}
  BY OngoingFacts
<1>. QED  BY ZenonT(40), <1>1 DEF Ended, Context, Same

LEMMA AuthenticationResponseStep ==
    ASSUME Inv, NEW a \in Conns, NEW m \in {up[a]}, AuthenticationResponse(a, m)
    PROVE  RestOK' /\ Handled(a)
<1>. DEFINE n == amf2nas[a] e == Ended(a) d == InSmc(e)
<1>1. /\ up[a].kind = "response" /\ up[a].kind \in AuthKinds /\ up[a].kind \in Tokens
      /\ Takes(a, up[a]) /\ N1Only
      /\ UNCHANGED <<tmrVars, mapVars, nTmsi>>
  BY DEF AuthenticationResponse, AuthKinds, Tokens
<1>2. n # 0
  BY <1>1 DEF Inv, WaitInv, Later
<1>3. /\ UNCHANGED nVec
      /\ \/ SecurityMode(n, e)
         \/ Save(n, e) /\ Send(a, <<Reject>>)
  BY <1>2 DEF AuthenticationResponse
<1>4. /\ n \in Conns /\ nas[n] \in Context /\ owner[a] \in Ues /\ owner[a] # 0
      /\ nas[n].conn \in Conns => amf2nas[nas[n].conn] \in {0, n}
      /\ Idle(n, a) /\ nas[n].imsi # 0 /\ ~(nas[n].auth /\ nas[n].smc) /\ nas[n].auth
  BY <1>1, <1>2, OngoingFacts
<1>5. /\ e \in Context /\ Same(nas[n], e) /\ ~e.auth /\ e.smc = nas[n].smc
      /\ e.conn \in {0} \cup Conns /\ e.imsi \in {0, owner[a]}
  BY <1>2, EndedFacts
<1>6. RestOK
  BY TypeParts DEF Inv
<1>7. /\ ue' = ue /\ owner' = owner /\ nTmsi' = nTmsi /\ nVec' = nVec
      /\ amf2nas' = amf2nas /\ imsi2nas' = imsi2nas /\ guti2nas' = guti2nas
      /\ supi2conn' = supi2conn
      /\ UNCHANGED <<closed, releasing, fails, alive, armed, expired>>
  BY <1>1, <1>3 DEF N1Only, ranVars, tmrVars, mapVars
<1>. HIDE DEF e
<1>8. CASE SecurityMode(n, e)
  <2>1. /\ d \in Context /\ Same(e, d) /\ ~d.auth /\ d.smc /\ d.key \in Nat
    BY <1>5 DEF InSmc, Derive, Context, Same
  <2>. DEFINE t == Dl("smc", d.key)
  <2>2. t \in DlMsg /\ t.kind = "smc"
    BY <2>1, DlTyped DEF DlKinds
  <2>3. <<t>> \in Seq(DlMsg) /\ Len(<<t>>) = 1 /\ <<t>>[1] = t
    BY <2>2, One
  <2>. HIDE DEF t
  <2>4. Save(n, d) /\ \/ Send(d.conn, <<>>)
                      \/ Send(d.conn, <<t>>)
    BY <1>8 DEF SecurityMode, t
  <2>. HIDE DEF d
  <2>5. /\ d.conn = nas[n].conn /\ d.imsi \in {0, owner[a]} /\ d.imsi # 0 /\ d.mm = nas[n].mm
    BY <1>4, <1>5, <2>1 DEF Same
  <2>6. TokenStep(a, n, d, d.conn, <<>>)
    BY <1>4, NoneSent DEF TokenStep
  <2>7. TokenStep(a, n, d, d.conn, <<t>>)
    <3>1. Backed(d, <<t>>[1].kind)
      BY <2>1, <2>2, <2>3, <2>5 DEF Backed, AuthKinds
    <3>. QED  BY <1>4, <1>7, <2>3, <2>5, <3>1 DEF TokenStep
  <2>8. NoAccept(<<t>>)
    BY <2>2, <2>3 DEF NoAccept
  <2>9. \E ms \in Seq(DlMsg) : Send(d.conn, ms) /\ NoAccept(ms) /\ TokenStep(a, n, d, d.conn, ms)
    BY <2>3, <2>4, <2>6, <2>7, <2>8, NoneSent
  <2>10. PICK ms \in Seq(DlMsg) :
           Send(d.conn, ms) /\ NoAccept(ms) /\ TokenStep(a, n, d, d.conn, ms)
    BY <2>9
  <2>11. Handled(a)
    BY <1>1, <1>2, <1>7, <2>1, <2>4, <2>5, <2>10, OngoingMessage
  <2>. QED  BY <1>6, <1>7, <2>11 DEF RestOK
<1>9. CASE Save(n, e) /\ Send(a, <<Reject>>)
  <2>1. TokenStep(a, n, e, a, <<Reject>>)
    BY <1>4, RejectSent DEF TokenStep
  <2>2. e.conn = nas[n].conn /\ (e.mm = "registered" => nas[n].mm = "registered")
    BY <1>5 DEF Same
  <2>3. Handled(a)
    BY <1>1, <1>2, <1>5, <1>7, <1>9, <2>1, <2>2, RejectSent, OngoingMessage
  <2>. QED  BY <1>6, <1>7, <2>3 DEF RestOK
<1>. QED  BY <1>3, <1>8, <1>9

LEMMA AuthenticationFailureStep ==
    ASSUME Inv, NEW a \in Conns, NEW m \in {up[a]}, AuthenticationFailure(a, m)
    PROVE  RestOK' /\ Handled(a)
<1>. DEFINE n == amf2nas[a] e == Ended(a)
<1>1. /\ up[a].kind \in AuthKinds /\ up[a].kind \in Tokens /\ up[a].kind \in Later
      /\ Takes(a, up[a]) /\ N1Only
      /\ UNCHANGED <<tmrVars, mapVars, nTmsi>>
  BY DEF AuthenticationFailure, AuthKinds, Tokens, Later
<1>2. n # 0
  BY <1>1 DEF Inv, WaitInv
<1>3. \/ NewVector(n, e)
      \/ Challenge(n, e) /\ UNCHANGED nVec
      \/ Save(n, e) /\ UNCHANGED <<nVec, dl>>
  BY <1>2 DEF AuthenticationFailure
<1>4. /\ n \in Conns /\ nas[n] \in Context /\ owner[a] \in Ues /\ owner[a] # 0
      /\ nas[n].conn \in Conns => amf2nas[nas[n].conn] \in {0, n}
      /\ Idle(n, a) /\ nas[n].imsi # 0 /\ ~(nas[n].auth /\ nas[n].smc) /\ nas[n].auth
  BY <1>1, <1>2, OngoingFacts
<1>5. /\ e \in Context /\ Same(nas[n], e) /\ ~e.auth /\ e.smc = nas[n].smc
      /\ e.conn \in {0} \cup Conns /\ e.imsi \in {0, owner[a]}
  BY <1>2, EndedFacts
<1>6. RestOK /\ nVec \in [Ues -> Nat] /\ dl \in [Conns -> Seq(DlMsg)]
  BY TypeParts DEF Inv, RestOK
<1>7. /\ ue' = ue /\ owner' = owner /\ nTmsi' = nTmsi
      /\ amf2nas' = amf2nas /\ imsi2nas' = imsi2nas /\ guti2nas' = guti2nas
      /\ supi2conn' = supi2conn
      /\ UNCHANGED <<closed, releasing, fails, alive, armed, expired>>
  BY <1>1 DEF N1Only, ranVars, tmrVars, mapVars
<1>8. e.conn = nas[n].conn /\ e.imsi = nas[n].imsi /\ e.mm = nas[n].mm
  BY <1>5 DEF Same
<1>. HIDE DEF e
<1>9. /\ nVec' \in [Ues -> Nat]
      /\ \E d \in Context, ms \in Seq(DlMsg) : Save(n, d) /\ Send(e.conn, ms) /\ Outcome(e, d, ms)
  <2>1. CASE NewVector(n, e)
    BY <1>4, <1>5, <1>6, <1>8, <2>1, NewVectorOutcome
  <2>2. CASE Challenge(n, e) /\ UNCHANGED nVec
    BY <1>4, <1>5, <1>6, <1>8, <2>2, ChallengeOutcome
  <2>3. CASE Save(n, e) /\ UNCHANGED <<nVec, dl>>
    <3>1. Send(e.conn, <<>>)
      <4>1. CASE e.conn \in Conns
        BY <1>6, <2>3, <4>1, SendNothing
      <4>2. CASE e.conn = 0
        BY <1>6, <2>3, <4>2, ConnsNat DEF Send
      <4>. QED  BY <1>5, <4>1, <4>2
    <3>. QED  BY <1>5, <1>6, <2>3, <3>1, NoneSent DEF Outcome, Same
  <2>. QED  BY <1>3, <2>1, <2>2, <2>3
<1>10. PICK d \in Context, ms \in Seq(DlMsg) :
          Save(n, d) /\ Send(e.conn, ms) /\ Outcome(e, d, ms)
  BY <1>9
<1>11. /\ d.conn = nas[n].conn /\ d.imsi \in {0, owner[a]} /\ d.imsi # 0
       /\ d.mm = nas[n].mm /\ NoAccept(ms)
       /\ \/ Plain(ms) /\ ~d.auth
          \/ d.auth /\ ~d.smc /\ Len(ms) = 1 /\ ms[1].kind = "authRequest"
  BY <1>4, <1>5, <1>8, <1>10 DEF Outcome, Same
<1>12. ~(d.auth /\ d.smc)
  BY <1>11
<1>13. TokenStep(a, n, d, e.conn, ms)
  <2>1. CASE Plain(ms)
    BY <1>4, <2>1 DEF TokenStep
  <2>2. CASE d.auth /\ ~d.smc /\ Len(ms) = 1 /\ ms[1].kind = "authRequest"
    <3>1. Backed(d, ms[1].kind)
      BY <1>11, <2>2 DEF Backed, SmcKinds
    <3>. QED  BY <1>4, <1>7, <1>8, <2>2, <3>1 DEF TokenStep
  <2>. QED  BY <1>11, <2>1, <2>2
<1>14. Handled(a)
  BY <1>1, <1>2, <1>7, <1>8, <1>10, <1>11, <1>12, <1>13, OngoingMessage
<1>. QED  BY <1>6, <1>7, <1>9, <1>14 DEF RestOK

LEMMA SecurityModeCompleteStep ==
    ASSUME Inv, NEW a \in Conns, NEW m \in {up[a]}, SecurityModeComplete(a, m)
    PROVE  RestOK' /\ Handled(a)
<1>. DEFINE n == amf2nas[a] g == nTmsi + 1 ms == <<Dl("accept", g)>>
            d == [nas[n] EXCEPT !.mm = "registered", !.smc = FALSE]
<1>1. /\ up[a].kind = "smComplete" /\ up[a].kind \in SmcKinds /\ up[a].kind \in Tokens
      /\ up[a].kind \notin Initials /\ Takes(a, up[a]) /\ N1Only /\ n # 0
  BY DEF SecurityModeComplete, SmcKinds, Tokens, Protected, Initials
<1>2. /\ nTmsi < MaxTmsi /\ nTmsi' = g /\ Save(n, d) /\ Send(a, ms)
      /\ guti2nas' = [guti2nas EXCEPT ![g] = n]
      /\ UNCHANGED <<amf2nas, imsi2nas, supi2conn, nVec, tmrVars>>
  BY DEF SecurityModeComplete, NextTmsi
<1>3. /\ n \in Conns /\ nas[n] \in Context /\ owner[n] = owner[a] /\ owner[a] \in Ues
      /\ owner[a] # 0 /\ ~Unreferenced(n) /\ Idle(n, a) /\ nas[n].imsi \in {0, owner[a]}
      /\ ~(nas[n].auth /\ nas[n].smc) /\ nas[n].smc
  BY <1>1, OngoingFacts
<1>4. RestOK /\ nTmsi \in 0..MaxTmsi
  BY TypeParts DEF Inv, RestOK
<1>5. g \in Gutis /\ g \in Nat /\ g # 0 /\ g \in 0..MaxTmsi
  BY <1>2, <1>4, N1Constants DEF Gutis, N1Constants
<1>6. /\ d \in Context /\ d.conn = nas[n].conn /\ d.imsi = nas[n].imsi /\ d.auth = nas[n].auth
      /\ ~d.smc
  BY ZenonT(40), <1>3 DEF Context
<1>7. ms \in Seq(DlMsg) /\ Plain(ms) /\ Len(ms) = 1 /\ ms[1].v = g
  BY <1>5, OnePlain, DlTyped DEF DlKinds
<1>8. /\ ue' = ue /\ owner' = owner
      /\ UNCHANGED <<closed, releasing, fails, alive, armed, expired>>
  BY <1>1, <1>2 DEF N1Only, ranVars, tmrVars
<1>9. guti2nas' \in [{ZeroTmsi} \cup Gutis -> {0} \cup Conns] /\ guti2nas'[g] = n
  BY <1>2, <1>3, <1>4, <1>5 DEF RestOK
<1>. HIDE DEF g, d, ms
<1>10. RestOK'
  BY <1>2, <1>4, <1>5, <1>8, <1>9 DEF RestOK
<1>11. LinkStep(a, n, d, a, ms)
  BY <1>1, <1>2, <1>8 DEF LinkStep, Takes
<1>12. ContextStep(a, n, d, a)
  BY <1>3, <1>6 DEF ContextStep
<1>13. MapStep(a, n, a, ms)
  <2>1. \A h \in {ZeroTmsi} \cup Gutis :
           \/ guti2nas'[h] \in {guti2nas[h], 0}
           \/ h = g /\ guti2nas'[h] = n
    BY <1>2, <1>4, <1>9 DEF RestOK
  <2>2. ASSUME NEW j \in 1..Len(ms), ms[j].kind = "accept"
        PROVE  Belongs(nTmsi', guti2nas', owner', ms[j].v, owner[a])
    <3>1. ms[j].v = g
      BY <1>7
    <3>. QED  BY <1>2, <1>3, <1>5, <1>8, <1>9, <3>1 DEF Belongs
  <2>. QED  BY <1>1, <1>2, <2>1, <2>2 DEF MapStep, g
<1>14. TokenStep(a, n, d, a, ms)
  BY <1>3, <1>7 DEF TokenStep
<1>15. Handled(a)
  BY <1>3, <1>6, <1>7, <1>11, <1>12, <1>13, <1>14 DEF Handled, Handles
<1>. QED  BY <1>10, <1>15

LEMMA DeregistrationStep ==
    ASSUME Inv, NEW a \in Conns, NEW m \in {up[a]}, Deregistration(a, m)
    PROVE  RestOK' /\ Handled(a)
<1>. DEFINE n == amf2nas[a] d == [nas[n] EXCEPT !.mm = "deregistered"]
<1>1. /\ up[a].kind = "dereg" /\ Takes(a, up[a]) /\ n # 0 /\ Save(n, d)
      /\ amf2nas' = [amf2nas EXCEPT ![a] = 0]
      /\ imsi2nas' = [imsi2nas EXCEPT ![nas[n].imsi] = 0]
      /\ guti2nas' = [g \in DOMAIN guti2nas |->
                         IF g = NasGuti(up[a].guti) THEN 0 ELSE guti2nas[g]]
      /\ releasing' \in {releasing, releasing \cup {a}}
      /\ UNCHANGED <<supi2conn, genVars, tmrVars, dl, ue, owner, closed, fails, alive>>
  BY DEF Deregistration, Protected
<1>2. /\ n \in Conns /\ nas[n] \in Context /\ owner[n] = owner[a] /\ owner[a] \in Ues
      /\ owner[a] # 0 /\ ~Unreferenced(n) /\ nas[n].imsi \in {0, owner[a]}
      /\ ~(nas[n].auth /\ nas[n].smc)
  BY <1>1, OngoingFacts
<1>3. RestOK /\ dl \in [Conns -> Seq(DlMsg)]
  BY TypeParts DEF Inv
<1>4. /\ d \in Context /\ d.conn = nas[n].conn /\ d.imsi = nas[n].imsi /\ d.auth = nas[n].auth
      /\ d.smc = nas[n].smc /\ d.mm = "deregistered"
  BY <1>2 DEF Context
<1>5. Send(a, <<>>)
  BY <1>1, <1>3, SendNothing
<1>6. /\ amf2nas' \in [Conns -> {0} \cup Conns] /\ imsi2nas' \in [Ues -> {0} \cup Conns]
      /\ guti2nas' \in [{ZeroTmsi} \cup Gutis -> {0} \cup Conns]
  BY <1>1, <1>3 DEF RestOK
<1>. HIDE DEF d
<1>7. RestOK'
  <2>1. nTmsi' = nTmsi /\ nVec' = nVec /\ armed' = armed /\ expired' = expired
    BY <1>1 DEF genVars, tmrVars
  <2>. QED  BY SMTT(40), <1>1, <1>3, <1>6, <2>1 DEF RestOK
<1>8. LinkStep(a, n, d, a, <<>>)
  BY <1>1, <1>5 DEF LinkStep, Takes
<1>9. ContextStep(a, n, d, a)
  BY <1>2, <1>4 DEF ContextStep
<1>10. MapStep(a, n, a, <<>>)
  <2>1. /\ \A b \in Conns \ {a} : amf2nas'[b] = amf2nas[b]
        /\ amf2nas'[a] = 0
        /\ \A u \in Ues : imsi2nas'[u] \in {imsi2nas[u], 0}
        /\ \A h \in {ZeroTmsi} \cup Gutis : guti2nas'[h] \in {guti2nas[h], 0}
    BY <1>1, <1>3 DEF RestOK
  <2>2. nTmsi' = nTmsi
    BY <1>1 DEF genVars
  <2>. QED  BY <1>1, <2>1, <2>2 DEF MapStep
<1>11. TokenStep(a, n, d, a, <<>>)
  BY <1>4, NoneSent DEF TokenStep
<1>12. Handled(a)
  BY <1>2, <1>4, <1>8, <1>9, <1>10, <1>11, NoneSent DEF Handled, Handles
<1>. QED  BY <1>7, <1>12

LEMMA IgnoredStep ==
    ASSUME Inv, NEW a \in Conns, NEW m \in {up[a]}, Ignored(a, m)
    PROVE  RestOK' /\ Handled(a)
<1>1. /\ up[a].kind \in {"smReject", "smComplete", "dereg"} /\ Takes(a, up[a]) /\ N1Only
      /\ UNCHANGED <<nas, mapVars, genVars, tmrVars, dl>>
  BY DEF Ignored
<1>2. /\ up[a] # NoMsg /\ owner[a] # 0 /\ nas \in [Conns -> Context] /\ nas[a] \in Context
      /\ nas[a].imsi \in {0, owner[a]} /\ ~(nas[a].auth /\ nas[a].smc)
  BY <1>1, OwnersAreUes DEF Takes, Inv, TypeOK, OwnInv, MapsOwned, OneProcedureAtATime
<1>3. RestOK /\ dl \in [Conns -> Seq(DlMsg)]
  BY TypeParts DEF Inv
<1>4. /\ ue' = ue /\ owner' = owner
      /\ UNCHANGED <<closed, releasing, fails, alive, armed, expired, nTmsi, nVec>>
      /\ UNCHANGED <<amf2nas, imsi2nas, guti2nas, supi2conn>>
  BY <1>1 DEF N1Only, ranVars, tmrVars, genVars, mapVars
<1>5. RestOK'
  BY <1>3, <1>4 DEF RestOK
<1>6. Send(a, <<>>) /\ Save(a, nas[a])
  BY <1>1, <1>2, <1>3, SendNothing DEF Save
<1>7. LinkStep(a, a, nas[a], a, <<>>)
  BY <1>1, <1>4, <1>6 DEF LinkStep, Takes
<1>8. ContextStep(a, a, nas[a], a)
  BY <1>2 DEF ContextStep
<1>9. MapStep(a, a, a, <<>>)
  BY <1>1, <1>4 DEF MapStep, Initials
<1>10. TokenStep(a, a, nas[a], a, <<>>)
  BY NoneSent DEF TokenStep
<1>11. Handled(a)
  BY <1>2, <1>7, <1>8, <1>9, <1>10, NoneSent DEF Handled, Handles
<1>. QED  BY <1>5, <1>11

LEMMA TaskN1Step ==
    ASSUME Inv, NEW a \in Conns, TaskN1(a)
    PROVE  Inv' /\ Handled(a)
<1>1. RestOK' /\ Handled(a)
  <2>1. CASE RegisterBySuci(a)
    BY <2>1, RegisterBySuciStep
  <2>2. CASE IdentityResponse(a)
    BY <2>2, IdentityResponseStep
  <2>3. ASSUME NEW m \in {up[a]},
               \/ RegisterByGuti(a, m) \/ UpdateRegistration(a, m) \/ ServiceRequest(a, m)
               \/ AuthenticationResponse(a, m) \/ AuthenticationFailure(a, m)
               \/ SecurityModeComplete(a, m) \/ Deregistration(a, m) \/ Ignored(a, m)
        PROVE  RestOK' /\ Handled(a)
    BY <2>3, RegisterByGutiStep, UpdateStep, AuthenticationResponseStep,
       AuthenticationFailureStep, SecurityModeCompleteStep, DeregistrationStep, IgnoredStep
  <2>. QED  BY <2>1, <2>2, <2>3 DEF TaskN1
<1>. QED  BY <1>1, HandledInv

-----------------------------------------------------------------------------
(* The steps of the UEs, of the gNBs and of the timers: messages move on   *)
(* connection y only, and contexts keep what the invariant is about.       *)

KeepsContexts ==
    /\ UNCHANGED <<amf2nas, imsi2nas, guti2nas, supi2conn, nTmsi, owner>>
    /\ \A n \in Conns : /\ Same(nas[n], nas'[n])
                        /\ nas'[n].auth = nas[n].auth /\ nas'[n].smc = nas[n].smc

\* A message comes to its connection's UE, or what was on its way to it is lost.
Delivers(y) == dl[y] # <<>> /\ dl'[y] = Tail(dl[y])
MovesDown(y) ==
    /\ \A b \in Conns \ {y} : dl'[b] = dl[b]
    /\ Delivers(y) \/ dl'[y] \in {dl[y], <<>>}

\* Its UE sends a message, which answers the one that came if it is one of a procedure.
SendsUp(y) ==
    /\ up[y] = NoMsg /\ owner[y] # 0
    /\ up'[y].kind \notin Initials
    /\ up'[y].kind \in Later => amf2nas[y] # 0
    /\ Belongs(nTmsi, guti2nas, owner, up'[y].guti, owner[y])
    /\ up'[y].kind \in Tokens => Delivers(y)
    /\ up'[y].kind \in AuthKinds => dl[y][1].kind \in AuthKinds
    /\ up'[y].kind \in SmcKinds => dl[y][1].kind \in SmcKinds
MovesUp(y) ==
    /\ \A b \in Conns \ {y} : up'[b] = up[b]
    /\ up'[y] = up[y] \/ SendsUp(y)

MovesUes(y) ==
    \A u \in Ues :
       /\ ue'[u].conn \in {ue[u].conn, 0}
       /\ Belongs(nTmsi, guti2nas, owner, ue'[u].guti, u)
       /\ ue'[u].wait = "registration" =>
             /\ ue[u].wait = "registration" /\ ue'[u].conn = ue[u].conn
             /\ ue[u].conn = y => /\ up'[y].kind # "dereg"
                                  /\ up'[y].kind \in Initials \/ amf2nas[y] # 0

Moved(y) == KeepsContexts /\ MovesDown(y) /\ MovesUp(y) /\ MovesUes(y)

\* Where a message was before the step.
WasAt(y, b, i) ==
    IF b # y THEN i
    ELSE IF i = 0 THEN IF up'[y] = up[y] THEN 0 ELSE 1
    ELSE IF dl'[y] = dl[y] THEN i ELSE i + 1

LEMMA MovedPlaces ==
    ASSUME Inv, NEW y \in Conns, MovesDown(y), MovesUp(y)
    PROVE  \A b \in Conns : \A i \in Pos(b)' : KindAt(b, i)' \in Tokens =>
              /\ WasAt(y, b, i) \in Pos(b) /\ KindAt(b, WasAt(y, b, i)) \in Tokens
              /\ KindAt(b, i)' \in AuthKinds => KindAt(b, WasAt(y, b, i)) \in AuthKinds
              /\ KindAt(b, i)' \in SmcKinds => KindAt(b, WasAt(y, b, i)) \in SmcKinds
<1>. SUFFICES ASSUME NEW b \in Conns, NEW i \in Pos(b)', KindAt(b, i)' \in Tokens
     PROVE  /\ WasAt(y, b, i) \in Pos(b) /\ KindAt(b, WasAt(y, b, i)) \in Tokens
            /\ KindAt(b, i)' \in AuthKinds => KindAt(b, WasAt(y, b, i)) \in AuthKinds
            /\ KindAt(b, i)' \in SmcKinds => KindAt(b, WasAt(y, b, i)) \in SmcKinds
  OBVIOUS
<1>. DEFINE w == WasAt(y, b, i)
<1>1. dl[b] \in Seq(DlMsg) /\ Len(dl[b]) \in Nat
  BY DEF Inv, TypeOK
<1>2. CASE b # y
  <2>1. up'[b] = up[b] /\ dl'[b] = dl[b]
    BY <1>2 DEF MovesDown, MovesUp
  <2>2. Pos(b)' = Pos(b) /\ KindAt(b, i)' = KindAt(b, i) /\ w = i
    BY <1>2, <2>1 DEF Pos, KindAt, WasAt
  <2>. QED  BY <2>2
<1>3. CASE b = y /\ i = 0 /\ up'[y] = up[y]
  <2>1. w = 0 /\ 0 \in Pos(b) /\ KindAt(b, i)' = up[y].kind /\ KindAt(b, w) = up[y].kind
    BY <1>1, <1>3 DEF WasAt, Pos, KindAt
  <2>. QED  BY <2>1
<1>4. CASE b = y /\ i = 0 /\ up'[y] # up[y]
  <2>1. w = 1 /\ KindAt(b, i)' = up'[y].kind /\ KindAt(b, w) = dl[y][1].kind
    BY <1>4 DEF WasAt, KindAt
  <2>2. SendsUp(y)
    BY <1>4 DEF MovesUp
  <2>3. dl[y] # <<>>
    BY <2>1, <2>2 DEF SendsUp, Delivers
  <2>4. 1 \in Pos(b)
    BY <1>1, <1>4, <2>3, TailOf DEF Pos
  <2>. QED  BY <2>1, <2>2, <2>4 DEF SendsUp, Tokens
<1>5. CASE b = y /\ i # 0
  <2>0. i \in 1..Len(dl'[y]) /\ KindAt(b, i)' = dl'[y][i].kind /\ dl[y] \in Seq(DlMsg)
    <3>1. dl'[y] \in Seq(DlMsg)
      <4>1. CASE Delivers(y)
        <5>1. dl[y] \in Seq(DlMsg) /\ dl[y] # <<>>
          BY <1>1, <1>5, <4>1 DEF Delivers
        <5>2. Tail(dl[y]) \in Seq(DlMsg)
          BY <5>1, TailOf
        <5>. QED  BY <4>1, <5>2 DEF Delivers
      <4>2. CASE dl'[y] \in {dl[y], <<>>}
        BY <1>1, <1>5, <4>2, NoneSent
      <4>. QED  BY <1>1, <4>1, <4>2 DEF MovesDown
    <3>. QED  BY <1>1, <1>5, <3>1 DEF KindAt, Pos
  <2>1. CASE dl'[y] = dl[y]
    <3>1. w = i /\ i \in Pos(b) /\ KindAt(b, w) = KindAt(b, i)'
      BY <1>1, <1>5, <2>0, <2>1 DEF WasAt, Pos, KindAt
    <3>. QED  BY <3>1
  <2>2. CASE dl'[y] # dl[y]
    <3>1. Delivers(y)
      BY <2>0, <2>2 DEF MovesDown
    <3>2. w = i + 1 /\ i + 1 \in 1..Len(dl[y]) /\ dl'[y][i] = dl[y][i + 1]
      BY <1>5, <2>0, <2>2, <3>1, TailOf DEF WasAt, Delivers
    <3>3. w \in Pos(b) /\ w # 0
      BY <1>1, <1>5, <3>2 DEF Pos
    <3>. QED  BY <1>5, <2>0, <3>2, <3>3 DEF KindAt
  <2>. QED  BY <2>1, <2>2
<1>. QED  BY <1>2, <1>3, <1>4, <1>5

LEMMA WasAtOnce ==
    ASSUME Inv, NEW y \in Conns, MovesDown(y), MovesUp(y), NEW b \in Conns,
           NEW i \in Pos(b)', NEW j \in Pos(b)',
           KindAt(b, i)' \in Tokens, KindAt(b, j)' \in Tokens, WasAt(y, b, i) = WasAt(y, b, j)
    PROVE  i = j
<1>1. i \in Nat /\ j \in Nat
  BY DEF Pos
<1>2. CASE b # y \/ up'[y] = up[y] \/ (i # 0 /\ j # 0)
  BY <1>1, <1>2 DEF WasAt
<1>3. CASE b = y /\ up'[y] # up[y] /\ (i = 0 \/ j = 0)
  <2>1. up'[y].kind \in Tokens /\ SendsUp(y)
    BY <1>3 DEF KindAt, MovesUp
  <2>2. dl'[y] # dl[y]
    <3>1. dl[y] \in Seq(DlMsg) /\ Delivers(y)
      BY <2>1 DEF SendsUp, Inv
    <3>0. dl[y] # <<>>
      BY <3>1 DEF Delivers
    <3>2. Len(dl[y]) = Len(Tail(dl[y])) + 1 /\ Len(Tail(dl[y])) \in Nat
      BY <3>0, <3>1, TailOf
    <3>3. dl'[y] = Tail(dl[y])
      BY <3>1 DEF Delivers
    <3>4. Len(Tail(dl[y])) # Len(dl[y])
      BY <3>2
    <3>. QED  BY <3>3, <3>4, Zenon
  <2>3. \A k \in Nat : WasAt(y, b, k) = IF k = 0 THEN 1 ELSE k + 1
    BY <1>3, <2>2 DEF WasAt
  <2>. QED  BY <1>1, <2>3
<1>. QED  BY <1>2, <1>3

LEMMA MovedTokens ==
    ASSUME Inv, NEW y \in Conns, Moved(y)
    PROVE  TokensBacked' /\ OneToken'
<1>1. amf2nas' = amf2nas /\ amf2nas \in [Conns -> {0} \cup Conns] /\ MovesDown(y) /\ MovesUp(y)
  BY DEF Moved, KeepsContexts, Inv, TypeOK
<1>2. \A b \in Conns : \A i \in Pos(b)' : KindAt(b, i)' \in Tokens =>
         /\ WasAt(y, b, i) \in Pos(b) /\ KindAt(b, WasAt(y, b, i)) \in Tokens
         /\ KindAt(b, i)' \in AuthKinds => KindAt(b, WasAt(y, b, i)) \in AuthKinds
         /\ KindAt(b, i)' \in SmcKinds => KindAt(b, WasAt(y, b, i)) \in SmcKinds
  BY <1>1, MovedPlaces
<1>3. TokensBacked'
  <2>. SUFFICES ASSUME NEW b \in Conns, amf2nas[b] # 0, NEW i \in Pos(b)'
       PROVE  Backed(nas'[amf2nas[b]], KindAt(b, i)')
    BY <1>1 DEF TokensBacked
  <2>1. CASE KindAt(b, i)' \notin Tokens
    BY <2>1 DEF Backed, Tokens
  <2>2. CASE KindAt(b, i)' \in Tokens
    <3>1. amf2nas[b] \in Conns
      BY <1>1
    <3>2. Backed(nas[amf2nas[b]], KindAt(b, WasAt(y, b, i)))
      BY <1>2, <2>2 DEF Inv, TokensBacked
    <3>3. /\ nas'[amf2nas[b]].imsi = nas[amf2nas[b]].imsi
          /\ nas'[amf2nas[b]].auth = nas[amf2nas[b]].auth
          /\ nas'[amf2nas[b]].smc = nas[amf2nas[b]].smc
      BY <3>1 DEF Moved, KeepsContexts, Same
    <3>. QED  BY <1>2, <2>2, <3>2, <3>3 DEF Backed
  <2>. QED  BY <2>1, <2>2
<1>4. OneToken'
  <2>. SUFFICES ASSUME NEW b \in Conns, NEW c \in Conns,
                       amf2nas[b] # 0, amf2nas[b] = amf2nas[c],
                       NEW i \in Pos(b)', NEW j \in Pos(c)',
                       KindAt(b, i)' \in Tokens, KindAt(c, j)' \in Tokens
       PROVE  b = c /\ i = j
    BY <1>1 DEF OneToken
  <2>1. b = c /\ WasAt(y, b, i) = WasAt(y, c, j)
    BY <1>2 DEF Inv, OneToken
  <2>. QED  BY <1>1, <2>1, WasAtOnce
<1>. QED  BY <1>3, <1>4

LEMMA MovedInv ==
    ASSUME Inv, TypeOK', dl' \in [Conns -> Seq(DlMsg)], NEW y \in Conns, Moved(y)
    PROVE  Inv'
<1>1. /\ amf2nas' = amf2nas /\ imsi2nas' = imsi2nas /\ guti2nas' = guti2nas
      /\ supi2conn' = supi2conn /\ nTmsi' = nTmsi /\ owner' = owner
      /\ \A n \in Conns : /\ nas'[n].conn = nas[n].conn /\ nas'[n].imsi = nas[n].imsi
                          /\ nas'[n].auth = nas[n].auth /\ nas'[n].smc = nas[n].smc
  BY DEF Moved, KeepsContexts, Same
<1>2. MovesDown(y) /\ MovesUp(y) /\ MovesUes(y)
  BY DEF Moved
<1>3. Opens'
  BY <1>1 DEF Inv, Opens, Opened
<1>4. FreshInv'
  <2>1. ASSUME NEW b \in Conns, owner[b] = 0 PROVE up'[b] = NoMsg /\ \A u \in Ues : ue'[u].conn # b
    <3>1. up[b] = NoMsg /\ (\A u \in Ues : ue[u].conn # b) /\ b # 0
      BY <2>1, ConnsNat DEF Inv, FreshInv
    <3>2. up'[b] = NoMsg
      BY <1>2, <2>1, <3>1 DEF MovesUp, SendsUp
    <3>. QED  BY <1>2, <3>1, <3>2 DEF MovesUes
  <2>2. ASSUME NEW b \in Conns, owner[b] = 0 \/ up'[b].kind \in Initials PROVE Fresh(b)'
    <3>1. owner[b] = 0 \/ up[b].kind \in Initials
      BY <1>2, <2>2 DEF MovesUp, SendsUp
    <3>2. Fresh(b)
      BY <3>1 DEF Inv, FreshInv
    <3>3. dl'[b] = <<>>
      BY <1>2, <3>2 DEF Fresh, MovesDown, Delivers
    <3>. QED  BY <1>1, <3>2, <3>3 DEF Fresh, Unreferenced
  <2>. QED  BY <1>1, <2>1, <2>2 DEF FreshInv
<1>5. OwnInv'
  <2>1. GutisOwned' /\ MapsOwned'
    BY <1>1 DEF Inv, OwnInv, GutisOwned, MapsOwned
  <2>2. \A u \in Ues : Belongs(nTmsi', guti2nas', owner', ue'[u].guti, u)
    BY <1>1, <1>2 DEF MovesUes
  <2>3. \A u \in Ues : ue'[u].conn # 0 => owner'[ue'[u].conn] = u
    BY <1>1, <1>2 DEF MovesUes, Inv, OwnInv, CarriedOwned
  <2>4. \A b \in Conns : up'[b] # NoMsg => Belongs(nTmsi', guti2nas', owner', up'[b].guti, owner'[b])
    BY <1>1, <1>2 DEF MovesUp, SendsUp, Inv, OwnInv, CarriedOwned, BelongsTo
  <2>5. ASSUME NEW b \in Conns, NEW i \in 1..Len(dl'[b]), dl'[b][i].kind = "accept"
        PROVE  Belongs(nTmsi', guti2nas', owner', dl'[b][i].v, owner'[b])
    <3>1. \E j \in 1..Len(dl[b]) : dl'[b][i] = dl[b][j]
      <4>1. dl[b] \in Seq(DlMsg) /\ Len(dl[b]) \in Nat
        BY DEF Inv
      <4>2. CASE dl'[b] = dl[b]
        BY <4>2
      <4>3. CASE dl[b] # <<>> /\ dl'[b] = Tail(dl[b])
        <5>1. i + 1 \in 1..Len(dl[b]) /\ dl'[b][i] = dl[b][i + 1]
          BY <4>1, <4>3, TailOf
        <5>. QED  BY <5>1
      <4>4. CASE dl'[b] = <<>>
        BY <4>4
      <4>. QED  BY <1>2, <4>2, <4>3, <4>4 DEF MovesDown, Delivers
    <3>. QED  BY <1>1, <2>5, <3>1 DEF Inv, OwnInv, CarriedOwned, BelongsTo
  <2>. QED  BY <2>1, <2>2, <2>3, <2>4, <2>5 DEF OwnInv, CarriedOwned, BelongsTo
<1>6. ConnInv' /\ OneProcedureAtATime'
  BY <1>1 DEF Inv, ConnInv, OneProcedureAtATime
<1>7. WaitInv'
  <2>1. ASSUME NEW u \in Ues, ue'[u].wait = "registration"
        PROVE  /\ ue'[u].conn # 0 /\ up'[ue'[u].conn].kind # "dereg"
               /\ up'[ue'[u].conn].kind \in Initials \/ amf2nas[ue'[u].conn] # 0
    <3>1. /\ ue'[u].conn = ue[u].conn /\ ue[u].conn # 0 /\ up[ue[u].conn].kind # "dereg"
          /\ up[ue[u].conn].kind \in Initials \/ amf2nas[ue[u].conn] # 0
          /\ ue[u].conn \in Conns
      BY <1>2, <2>1 DEF MovesUes, Inv, WaitInv, TypeOK
    <3>2. CASE ue[u].conn = y
      BY <1>2, <2>1, <3>1, <3>2 DEF MovesUes
    <3>3. CASE ue[u].conn # y
      BY <1>2, <3>1, <3>3 DEF MovesUp
    <3>. QED  BY <3>2, <3>3
  <2>2. \A b \in Conns : up'[b].kind \in Later => amf2nas[b] # 0
    BY <1>2 DEF MovesUp, SendsUp, Inv, WaitInv
  <2>. QED  BY <1>1, <2>1, <2>2 DEF WaitInv
<1>. QED  BY <1>3, <1>4, <1>5, <1>6, <1>7, MovedTokens DEF Inv

LEMMA AllSame == \A c : Same(c, c)
  BY DEF Same

\* A step that leaves the messages and the UEs alone.
LEMMA NothingMoves ==
    ASSUME Inv, TypeOK', KeepsContexts, UNCHANGED <<up, dl, ue>>
    PROVE  Inv'
<1>1. CASE Conns = {}
  <2>1. dl' = dl
    OBVIOUS
  <2>2. Opens'
    BY DEF KeepsContexts, Inv, Opens, Opened
  <2>3. OwnInv'
    <3>1. /\ imsi2nas' = imsi2nas /\ guti2nas' = guti2nas /\ supi2conn' = supi2conn
          /\ nTmsi' = nTmsi /\ owner' = owner /\ ue' = ue
      BY DEF KeepsContexts
    <3>2. GutisOwned' /\ MapsOwned'
      BY <1>1, <3>1 DEF Inv, OwnInv, GutisOwned, MapsOwned
    <3>3. CarriedOwned
      BY DEF Inv, OwnInv
    <3>4. \A u \in Ues : Belongs(nTmsi', guti2nas', owner', ue'[u].guti, u)
      BY <3>1, <3>3 DEF CarriedOwned, BelongsTo
    <3>5. \A u \in Ues : ue'[u].conn # 0 => owner'[ue'[u].conn] = u
      BY <3>1, <3>3 DEF CarriedOwned
    <3>6. CarriedOwned'
      BY <1>1, <3>4, <3>5 DEF CarriedOwned, BelongsTo
    <3>. QED  BY <3>2, <3>6 DEF OwnInv
  <2>4. WaitInv'
    BY <1>1 DEF KeepsContexts, Inv, WaitInv
  <2>5. FreshInv' /\ ConnInv' /\ TokensBacked' /\ OneToken' /\ OneProcedureAtATime'
    BY <1>1 DEF FreshInv, ConnInv, TokensBacked, OneToken, OneProcedureAtATime
  <2>6. dl' \in [Conns -> Seq(DlMsg)]
    BY <2>1 DEF Inv
  <2>. QED  BY <2>2, <2>3, <2>4, <2>5, <2>6 DEF Inv
<1>2. ASSUME NEW y \in Conns PROVE Inv'
  <2>1. MovesUes(y)
    BY DEF MovesUes, Inv, OwnInv, CarriedOwned, BelongsTo, WaitInv
  <2>2. Moved(y) /\ dl' \in [Conns -> Seq(DlMsg)]
    BY <2>1 DEF Moved, MovesUp, MovesDown, Inv
  <2>. QED  BY <2>2, MovedInv
<1>. QED  BY <1>1, <1>2

-----------------------------------------------------------------------------
(* The steps of the UEs, one by one.                                       *)

UeStates == [conn : {0} \cup Conns, guti : {NoGuti, ZeroTmsi} \cup Gutis,
             reg : BOOLEAN, sqn : Nat,
             wait : {"none", "registration", "update", "service"}]

LEMMA TypedAfter ==
    ASSUME RestOK', LinksOK', nas' \in [Conns -> Context]
    PROVE  TypeOK' /\ dl' \in [Conns -> Seq(DlMsg)]
<1>1. \A a \in Conns : \A i \in DOMAIN dl'[a] : dl'[a][i] \in DlMsg
  BY DEF LinksOK
<1>. QED  BY <1>1 DEF RestOK, LinksOK, TypeOK

\* What the environment does leaves the contexts alone.
LEMMA ExternalKeeps ==
    ASSUME Inv, External, owner' = owner,
           ue' \in [Ues -> UeStates], LinksOK',
           closed' \subseteq Conns, releasing' \subseteq Conns, fails' \in 0..MaxFail
    PROVE  KeepsContexts /\ TypeOK' /\ dl' \in [Conns -> Seq(DlMsg)]
<1>1. RestOK /\ nas \in [Conns -> Context]
  BY TypeParts DEF Inv
<1>2. /\ nas' = nas /\ amf2nas' = amf2nas /\ imsi2nas' = imsi2nas /\ guti2nas' = guti2nas
      /\ supi2conn' = supi2conn /\ nTmsi' = nTmsi /\ nVec' = nVec
      /\ armed' = armed /\ expired' = expired /\ alive' = alive
  BY DEF External, mapVars, genVars, tmrVars
<1>3. KeepsContexts
  BY <1>2, AllSame DEF KeepsContexts
<1>4. RestOK'
  BY <1>1, <1>2 DEF RestOK, UeStates
<1>. QED  BY <1>1, <1>2, <1>3, <1>4, TypedAfter

\* UE u, on connection y, changes its own state only, and stays on its connection or
\* leaves it.
LEMMA OneUeMoves ==
    ASSUME Inv, NEW u \in Ues, NEW s \in UeStates, ue' = [ue EXCEPT ![u] = s],
           NEW y \in Conns, y = ue[u].conn,
           s.conn \in {y, 0}, Belongs(nTmsi, guti2nas, owner, s.guti, u),
           s.wait = "registration" =>
              /\ ue[u].wait = "registration" /\ s.conn = y
              /\ up'[y].kind # "dereg"
              /\ up'[y].kind \in Initials \/ amf2nas[y] # 0
    PROVE  MovesUes(y) /\ ue' \in [Ues -> UeStates]
<1>1. ue \in [Ues -> UeStates]
  BY DEF Inv, TypeOK, UeStates
<1>2. ue'[u] = s /\ \A v \in Ues : v # u => ue'[v] = ue[v]
  BY <1>1
<1>3. ASSUME NEW v \in Ues, v # u, ue[v].wait = "registration" PROVE ue[v].conn # y
  <2>1. owner[y] = u /\ owner[ue[v].conn] = v
    BY <1>3, ConnsNat DEF Inv, OwnInv, CarriedOwned, WaitInv
  <2>. QED  BY <1>3, <2>1
<1>4. \A v \in Ues : Belongs(nTmsi, guti2nas, owner, ue[v].guti, v)
  BY DEF Inv, OwnInv, CarriedOwned, BelongsTo
<1>5. MovesUes(y)
  BY <1>2, <1>3, <1>4 DEF MovesUes
<1>. QED  BY <1>1, <1>5

LEMMA UeFacts ==
    ASSUME Inv, NEW u \in Ues
    PROVE  /\ ue[u] \in UeStates /\ ue \in [Ues -> UeStates]
           /\ Belongs(nTmsi, guti2nas, owner, ue[u].guti, u)
           /\ ue[u].conn # 0 => ue[u].conn \in Conns /\ owner[ue[u].conn] = u
           /\ ue[u].wait = "registration" =>
                 /\ ue[u].conn # 0 /\ up[ue[u].conn].kind # "dereg"
                 /\ up[ue[u].conn].kind \in Initials \/ amf2nas[ue[u].conn] # 0
           /\ ue[u].conn \in {0} \cup Conns /\ ue[u].sqn \in Nat
           /\ ue[u].guti \in {NoGuti, ZeroTmsi} \cup Gutis
<1>1. ue[u] \in UeStates /\ ue \in [Ues -> UeStates]
  BY DEF Inv, TypeOK, UeStates
<1>2. /\ ue[u].conn \in {0} \cup Conns /\ ue[u].sqn \in Nat
      /\ ue[u].guti \in {NoGuti, ZeroTmsi} \cup Gutis
  BY <1>1 DEF UeStates
<1>. QED  BY <1>1, <1>2 DEF Inv, OwnInv, CarriedOwned, BelongsTo, WaitInv

LEMMA LoseStep ==
    ASSUME Inv, NEW u \in Ues, Lose(u)
    PROVE  Inv'
<1>. DEFINE y == ue[u].conn s == [ue[u] EXCEPT !.conn = 0, !.wait = "none"]
<1>1. /\ y \in Conns /\ closed' = closed \cup {y} /\ releasing' = releasing \cup {y}
      /\ dl' = [dl EXCEPT ![y] = <<>>] /\ ue' = [ue EXCEPT ![u] = s]
      /\ up' = up /\ owner' = owner /\ fails' = fails /\ External
  BY UeFacts DEF Lose
<1>2. /\ s \in UeStates /\ s.conn = 0 /\ s.wait = "none" /\ s.guti = ue[u].guti
      /\ Belongs(nTmsi, guti2nas, owner, ue[u].guti, u)
  BY UeFacts DEF UeStates
<1>3. RestOK /\ LinksOK
  BY TypeParts DEF Inv
<1>. HIDE DEF s
<1>4. MovesUes(y) /\ ue' \in [Ues -> UeStates]
  BY <1>1, <1>2, OneUeMoves
<1>5. LinksOK' /\ MovesDown(y) /\ MovesUp(y)
  BY <1>1, <1>3, NoneSent DEF LinksOK, MovesDown, MovesUp
<1>6. closed' \subseteq Conns /\ releasing' \subseteq Conns /\ fails' \in 0..MaxFail
  BY <1>1, <1>3 DEF RestOK
<1>7. KeepsContexts /\ TypeOK' /\ dl' \in [Conns -> Seq(DlMsg)]
  BY <1>1, <1>4, <1>5, <1>6, ExternalKeeps
<1>. QED  BY <1>1, <1>4, <1>5, <1>7, MovedInv DEF Moved

LEMMA AskDeregistrationStep ==
    ASSUME Inv, NEW u \in Ues, AskDeregistration(u)
    PROVE  Inv'
<1>. DEFINE y == ue[u].conn s == [ue[u] EXCEPT !.reg = FALSE]
            m == Msg("dereg", ue[u].sqn, ue[u].guti)
<1>1. /\ y \in Conns /\ ue[u].wait = "none" /\ up[y] = NoMsg
      /\ up' = [up EXCEPT ![y] = m] /\ ue' = [ue EXCEPT ![u] = s]
      /\ dl' = dl /\ owner' = owner /\ closed' = closed /\ releasing' = releasing
      /\ fails' = fails /\ External
  BY UeFacts DEF AskDeregistration, Answer
<1>2. /\ s \in UeStates /\ s.conn = y /\ s.wait = "none" /\ s.guti = ue[u].guti
      /\ Belongs(nTmsi, guti2nas, owner, ue[u].guti, u) /\ owner[y] = u
  <2>1. ue[u] \in UeStates /\ y # 0
    BY <1>1, UeFacts, ConnsNat
  <2>2. Belongs(nTmsi, guti2nas, owner, ue[u].guti, u) /\ owner[y] = u
    BY <2>1, UeFacts
  <2>. QED  BY <1>1, <2>1, <2>2 DEF UeStates
<1>3. RestOK /\ LinksOK
  BY TypeParts DEF Inv
<1>4. m \in UlMsg /\ m.kind = "dereg" /\ m.guti = ue[u].guti
  <2>1. ue[u].sqn \in Nat /\ ue[u].guti \in {NoGuti, ZeroTmsi} \cup Gutis
    BY UeFacts
  <2>. QED  BY <2>1 DEF Msg, UlMsg
<1>. HIDE DEF s, m
<1>5. MovesUes(y) /\ ue' \in [Ues -> UeStates]
  BY <1>1, <1>2, OneUeMoves
<1>6. LinksOK' /\ MovesDown(y) /\ up'[y] = m
  BY <1>1, <1>3, <1>4 DEF LinksOK, MovesDown
<1>7. MovesUp(y)
  <2>1. u # 0
    BY ConnsNat
  <2>2. SendsUp(y)
    BY <1>1, <1>2, <1>4, <1>6, <2>1
       DEF SendsUp, Initials, Later, Tokens, AuthKinds, SmcKinds
  <2>. QED  BY <1>1, <1>3, <2>2 DEF MovesUp, LinksOK
<1>8. closed' \subseteq Conns /\ releasing' \subseteq Conns /\ fails' \in 0..MaxFail
  BY <1>1, <1>3 DEF RestOK
<1>9. KeepsContexts /\ TypeOK' /\ dl' \in [Conns -> Seq(DlMsg)]
  BY <1>1, <1>5, <1>6, <1>8, ExternalKeeps
<1>. QED  BY <1>1, <1>5, <1>6, <1>7, <1>9, MovedInv DEF Moved

LEMMA ReachedFacts ==
    ASSUME Inv, NEW u \in Ues, NEW m, Reaches(u, m)
    PROVE  LET y == ue[u].conn IN
           /\ y \in Conns /\ owner[y] = u /\ m = dl[y][1] /\ m \in DlMsg /\ Delivers(y)
           /\ m.kind = "accept" => Belongs(nTmsi, guti2nas, owner, m.v, u)
           /\ dl' \in [Conns -> Seq(DlMsg)] /\ MovesDown(y)
           /\ owner' = owner /\ closed' = closed /\ releasing' = releasing /\ External
<1>. DEFINE y == ue[u].conn
<1>1. /\ y # 0 /\ dl[y] # <<>> /\ m = Head(dl[y]) /\ dl' = [dl EXCEPT ![y] = Tail(@)]
      /\ owner' = owner /\ closed' = closed /\ releasing' = releasing /\ External
  BY DEF Reaches, Inbox
<1>2. y \in Conns /\ owner[y] = u /\ dl[y] \in Seq(DlMsg) /\ dl \in [Conns -> Seq(DlMsg)]
  BY <1>1, UeFacts DEF Inv
<1>3. m = dl[y][1] /\ 1 \in 1..Len(dl[y]) /\ Tail(dl[y]) \in Seq(DlMsg)
  BY <1>1, <1>2, TailOf
<1>4. m \in DlMsg
  BY <1>2, <1>3
<1>5. m.kind = "accept" => Belongs(nTmsi, guti2nas, owner, m.v, u)
  BY <1>2, <1>3 DEF Inv, OwnInv, CarriedOwned, BelongsTo
<1>6. dl' \in [Conns -> Seq(DlMsg)] /\ dl'[y] = Tail(dl[y]) /\ \A b \in Conns \ {y} : dl'[b] = dl[b]
  BY <1>1, <1>2, <1>3
<1>7. Delivers(y) /\ MovesDown(y)
  BY <1>1, <1>6 DEF Delivers, MovesDown
<1>. QED  BY <1>1, <1>2, <1>3, <1>4, <1>5, <1>6, <1>7

LEMMA AnswerStep ==
    ASSUME Inv, NEW u \in Ues, NEW m, Reaches(u, m), ue[u].wait = "registration",
           NEW w \in UlMsg, NEW s \in UeStates, Answer(u, w, s), fails' \in 0..MaxFail,
           w.guti = NoGuti, w.kind \in {"identity", "response", "synch", "ngksi", "mac",
                                        "smComplete", "smReject"},
           w.kind \in AuthKinds => m.kind \in AuthKinds,
           w.kind \in SmcKinds => m.kind \in SmcKinds,
           s.conn = ue[u].conn, s.guti = ue[u].guti
    PROVE  Inv'
<1>. DEFINE y == ue[u].conn
<1>1. /\ y \in Conns /\ owner[y] = u /\ m = dl[y][1] /\ m \in DlMsg /\ Delivers(y)
      /\ dl' \in [Conns -> Seq(DlMsg)] /\ MovesDown(y)
      /\ owner' = owner /\ closed' = closed /\ releasing' = releasing /\ External
  BY ReachedFacts
<1>2. up[y] = NoMsg /\ up' = [up EXCEPT ![y] = w] /\ ue' = [ue EXCEPT ![u] = s]
  BY DEF Answer
<1>3. RestOK /\ LinksOK
  BY TypeParts DEF Inv
<1>4. up' \in [Conns -> UlMsg] /\ up'[y] = w /\ \A b \in Conns \ {y} : up'[b] = up[b]
  BY <1>1, <1>2, <1>3 DEF LinksOK
<1>5. amf2nas[y] # 0
  <2>1. up[y].kind \in Initials \/ amf2nas[y] # 0
    BY UeFacts
  <2>2. up[y].kind \notin Initials
    BY <1>2 DEF NoMsg, Msg, Initials
  <2>. QED  BY <2>1, <2>2
<1>6. Belongs(nTmsi, guti2nas, owner, ue[u].guti, u) /\ w.kind # "dereg" /\ w.kind \notin Initials
  BY UeFacts DEF Initials
<1>7. MovesUes(y) /\ ue' \in [Ues -> UeStates]
  BY ZenonT(40), <1>1, <1>2, <1>4, <1>5, <1>6, OneUeMoves
<1>8. SendsUp(y)
  <2>1. Belongs(nTmsi, guti2nas, owner, w.guti, u) /\ owner[y] # 0
    BY <1>1, ConnsNat DEF Belongs
  <2>. QED  BY <1>1, <1>2, <1>4, <1>5, <1>6, <2>1 DEF SendsUp
<1>9. MovesUp(y) /\ LinksOK'
  BY <1>1, <1>4, <1>8 DEF MovesUp, LinksOK
<1>10. closed' \subseteq Conns /\ releasing' \subseteq Conns
  BY <1>1, <1>3 DEF RestOK
<1>11. KeepsContexts /\ TypeOK'
  BY <1>1, <1>7, <1>9, <1>10, ExternalKeeps
<1>. QED  BY <1>1, <1>7, <1>9, <1>11, MovedInv DEF Moved

LEMMA UeAnswersStep ==
    ASSUME Inv, NEW u \in Ues, NEW m \in Inbox(u), UeAnswers(u, m)
    PROVE  Inv'
<1>1. Reaches(u, m) /\ ue[u].wait = "registration" /\ fails' = fails
  BY DEF UeAnswers
<1>2. ue[u] \in UeStates /\ m \in DlMsg
  BY <1>1, UeFacts, ReachedFacts
<1>3. m.v \in Nat /\ fails' \in 0..MaxFail
  BY <1>1, <1>2 DEF DlMsg, Inv, TypeOK
<1>4. PICK w, s :
         /\ Answer(u, w, s)
         /\ \/ m.kind = "identityRequest" /\ w = Msg("identity", 0, NoGuti) /\ s = ue[u]
            \/ /\ m.kind = "authRequest" /\ w = Msg("response", m.v, NoGuti)
               /\ s = [ue[u] EXCEPT !.sqn = m.v]
            \/ m.kind = "authRequest" /\ w = Msg("synch", 0, NoGuti) /\ s = ue[u]
            \/ m.kind = "smc" /\ w = Msg("smComplete", m.v, NoGuti) /\ s = ue[u]
  BY DEF UeAnswers
<1>5. /\ w \in UlMsg /\ w.guti = NoGuti
      /\ w.kind \in {"identity", "response", "synch", "ngksi", "mac", "smComplete", "smReject"}
      /\ w.kind \in AuthKinds => m.kind \in AuthKinds
      /\ w.kind \in SmcKinds => m.kind \in SmcKinds
  BY <1>3, <1>4 DEF Msg, UlMsg, AuthKinds, SmcKinds
<1>6. s \in UeStates /\ s.conn = ue[u].conn /\ s.guti = ue[u].guti
  BY <1>2, <1>3, <1>4 DEF UeStates
<1>. QED  BY <1>1, <1>3, <1>4, <1>5, <1>6, AnswerStep

LEMMA UeFailsStep ==
    ASSUME Inv, NEW u \in Ues, NEW m \in Inbox(u), UeFails(u, m)
    PROVE  Inv'
<1>1. Reaches(u, m) /\ ue[u].wait = "registration" /\ fails < MaxFail /\ fails' = fails + 1
  BY DEF UeFails
<1>2. ue[u] \in UeStates
  BY UeFacts
<1>3. fails' \in 0..MaxFail
  BY <1>1, N1Constants DEF Inv, TypeOK, N1Constants
<1>4. PICK w, s :
         /\ Answer(u, w, s)
         /\ \/ m.kind = "authRequest" /\ w = Msg("ngksi", 0, NoGuti) /\ s = ue[u]
            \/ /\ m.kind = "authRequest" /\ w = Msg("mac", 0, NoGuti)
               /\ s = [ue[u] EXCEPT !.wait = "none"]
            \/ /\ m.kind = "smc" /\ w = Msg("smReject", 0, NoGuti)
               /\ s = [ue[u] EXCEPT !.wait = "none"]
  BY DEF UeFails
<1>5. /\ w \in UlMsg /\ w.guti = NoGuti
      /\ w.kind \in {"identity", "response", "synch", "ngksi", "mac", "smComplete", "smReject"}
      /\ w.kind \in AuthKinds => m.kind \in AuthKinds
      /\ w.kind \in SmcKinds => m.kind \in SmcKinds
  BY <1>4 DEF Msg, UlMsg, AuthKinds, SmcKinds
<1>6. s \in UeStates /\ s.conn = ue[u].conn /\ s.guti = ue[u].guti
  BY <1>2, <1>4 DEF UeStates
<1>. QED  BY <1>1, <1>3, <1>4, <1>5, <1>6, AnswerStep

\* GUTIs that a message names are GUTIs.
LEMMA BelongingGutis ==
    ASSUME Inv, NEW g, NEW u, Belongs(nTmsi, guti2nas, owner, g, u)
    PROVE  g \in {NoGuti, ZeroTmsi} \cup Gutis
  BY N1Constants DEF Belongs, ZeroTmsi, Gutis, Inv, TypeOK, N1Constants

LEMMA UeEndsStep ==
    ASSUME Inv, NEW u \in Ues, NEW m \in Inbox(u), UeEnds(u, m)
    PROVE  Inv'
<1>. DEFINE y == ue[u].conn
<1>1. /\ y \in Conns /\ owner[y] = u /\ m \in DlMsg
      /\ m.kind = "accept" => Belongs(nTmsi, guti2nas, owner, m.v, u)
      /\ dl' \in [Conns -> Seq(DlMsg)] /\ MovesDown(y)
      /\ owner' = owner /\ closed' = closed /\ releasing' = releasing /\ External
  BY ReachedFacts DEF UeEnds
<1>2. up' = up /\ fails' = fails
  BY DEF UeEnds
<1>3. PICK s : /\ ue' = [ue EXCEPT ![u] = s]
               /\ \/ s = [ue[u] EXCEPT !.wait = "none", !.guti = NoGuti, !.reg = FALSE]
                  \/ /\ m.kind = "accept"
                     /\ s = [ue[u] EXCEPT !.wait = "none", !.guti = m.v, !.reg = TRUE]
                  \/ s = [ue[u] EXCEPT !.wait = "none"]
                  \/ s = ue[u]
  <2>. DEFINE s == CASE m.kind = "reject" /\ ue[u].wait = "registration"
                    -> [ue[u] EXCEPT !.wait = "none", !.guti = NoGuti, !.reg = FALSE]
             [] m.kind = "accept" /\ ue[u].wait \in {"registration", "update"}
                    -> [ue[u] EXCEPT !.wait = "none", !.guti = m.v, !.reg = TRUE]
             [] m.kind = "serviceAccept" /\ ue[u].wait = "service"
                    -> [ue[u] EXCEPT !.wait = "none"]
             [] OTHER -> ue[u]
  <2>1. ue' = [ue EXCEPT ![u] = s]
    BY DEF UeEnds
  <2>2. \/ s = [ue[u] EXCEPT !.wait = "none", !.guti = NoGuti, !.reg = FALSE]
        \/ m.kind = "accept" /\ s = [ue[u] EXCEPT !.wait = "none", !.guti = m.v, !.reg = TRUE]
        \/ s = [ue[u] EXCEPT !.wait = "none"]
        \/ s = ue[u]
    OBVIOUS
  <2>. HIDE DEF s
  <2>. QED  BY <2>1, <2>2
<1>4. /\ ue[u] \in UeStates /\ Belongs(nTmsi, guti2nas, owner, ue[u].guti, u)
      /\ Belongs(nTmsi, guti2nas, owner, NoGuti, u)
      /\ ue[u].wait = "registration" =>
            up[y].kind # "dereg" /\ (up[y].kind \in Initials \/ amf2nas[y] # 0)
  BY UeFacts DEF Belongs
<1>5. m.kind = "accept" => m.v \in {NoGuti, ZeroTmsi} \cup Gutis
  BY <1>1, BelongingGutis
<1>6. s \in UeStates
  BY ZenonT(40), <1>3, <1>4, <1>5 DEF UeStates
<1>7. /\ s.conn = y /\ Belongs(nTmsi, guti2nas, owner, s.guti, u)
      /\ s.wait = "registration" => ue[u].wait = "registration"
  BY ZenonT(40), <1>1, <1>3, <1>4 DEF UeStates
<1>8. MovesUes(y) /\ ue' \in [Ues -> UeStates]
  BY <1>1, <1>2, <1>3, <1>4, <1>6, <1>7, OneUeMoves
<1>9. RestOK /\ LinksOK
  BY TypeParts DEF Inv
<1>10. LinksOK' /\ MovesUp(y)
  BY <1>1, <1>2, <1>9 DEF LinksOK, MovesUp
<1>11. closed' \subseteq Conns /\ releasing' \subseteq Conns /\ fails' \in 0..MaxFail
  BY <1>1, <1>2, <1>9 DEF RestOK
<1>12. KeepsContexts /\ TypeOK'
  BY <1>1, <1>8, <1>10, <1>11, ExternalKeeps
<1>. QED  BY <1>1, <1>8, <1>10, <1>12, MovedInv DEF Moved

LEMMA ConnectStep ==
    ASSUME Inv, NEW u \in Ues, NEW m \in Requests(u), Connect(u, m)
    PROVE  Inv'
<1>. DEFINE y == NextConn w == IF m.kind \in {"suci", "guti"} THEN "registration" ELSE m.kind
            s == [ue[u] EXCEPT !.conn = y, !.wait = w]
<1>1. PICK k \in 0..MaxConn : Opened = 1..k
  BY DEF Inv, Opens
<1>2. k \in Nat /\ MaxConn \in Nat
  BY N1Constants DEF N1Constants
<1>3. y = k + 1
  <2>1. 1 \in Int /\ k \in Int
    BY <1>2
  <2>2. Cardinality(1..k) = IF 1 > k THEN 0 ELSE k - 1 + 1
    BY <2>1, FS_Interval
  <2>3. Cardinality(1..k) = k
    BY <1>2, <2>2
  <2>. QED  BY <1>1, <2>3 DEF NextConn
<1>4. /\ ue[u].conn = 0 /\ y <= MaxConn /\ owner' = [owner EXCEPT ![y] = u]
      /\ up' = [up EXCEPT ![y] = m] /\ ue' = [ue EXCEPT ![u] = s]
      /\ UNCHANGED <<dl, closed, releasing, fails>> /\ External
  BY DEF Connect
<1>. HIDE DEF y
<1>5. y \in Conns /\ y \notin Opened /\ owner[y] = 0 /\ y # 0
  BY <1>1, <1>2, <1>3, <1>4 DEF Conns, Opened
<1>6. up[y] = NoMsg /\ (\A v \in Ues : ue[v].conn # y) /\ Fresh(y)
  BY <1>5 DEF Inv, FreshInv
<1>7. RestOK /\ LinksOK /\ nas \in [Conns -> Context] /\ owner \in [Conns -> {0} \cup Ues]
  BY TypeParts DEF Inv, RestOK
<1>8. /\ ue[u] \in UeStates /\ ue \in [Ues -> UeStates]
      /\ ue[u].guti \in {NoGuti, ZeroTmsi} \cup Gutis
      /\ Belongs(nTmsi, guti2nas, owner, ue[u].guti, u) /\ u # 0
  BY UeFacts, ConnsNat
<1>9. m.kind \in Initials /\ m \in UlMsg /\ m.guti \in {NoGuti, ue[u].guti}
  <2>1. NasGuti(ue[u].guti) \in {NoGuti, ue[u].guti}
    BY DEF NasGuti
  <2>. QED  BY <1>8, <2>1 DEF Requests, Msg, UlMsg, Initials
<1>10. w \in {"none", "registration", "update", "service"}
  BY <1>9 DEF Initials
<1>. HIDE DEF w
<1>11. s \in UeStates /\ s.conn = y /\ s.wait = w /\ s.guti = ue[u].guti
  BY <1>5, <1>8, <1>10 DEF UeStates
<1>. HIDE DEF s
<1>12. /\ nas' = nas /\ amf2nas' = amf2nas /\ imsi2nas' = imsi2nas /\ guti2nas' = guti2nas
       /\ supi2conn' = supi2conn /\ nTmsi' = nTmsi /\ nVec' = nVec
       /\ armed' = armed /\ expired' = expired /\ alive' = alive
       /\ dl' = dl /\ closed' = closed /\ releasing' = releasing /\ fails' = fails
  BY <1>4 DEF External, mapVars, genVars, tmrVars
<1>13. /\ owner' \in [Conns -> {0} \cup Ues] /\ owner'[y] = u
       /\ \A b \in Conns : b # y => owner'[b] = owner[b]
       /\ \A b \in Conns : owner[b] # 0 => owner'[b] = owner[b]
  BY <1>4, <1>5, <1>7
<1>14. /\ up' \in [Conns -> UlMsg] /\ up'[y] = m /\ \A b \in Conns : b # y => up'[b] = up[b]
  BY <1>4, <1>5, <1>7, <1>9 DEF LinksOK
<1>15. /\ ue' \in [Ues -> UeStates] /\ ue'[u] = s /\ \A v \in Ues : v # u => ue'[v] = ue[v]
  BY <1>4, <1>8, <1>11
<1>16. TypeOK' /\ dl' \in [Conns -> Seq(DlMsg)]
  <2>1. RestOK'
    BY <1>7, <1>12, <1>13, <1>15 DEF RestOK, UeStates
  <2>2. LinksOK' /\ nas' \in [Conns -> Context]
    BY <1>7, <1>12, <1>14 DEF LinksOK
  <2>. QED  BY <2>1, <2>2, TypedAfter
<1>17. Opens'
  <2>1. \A b \in Conns : owner'[b] # 0 <=> b \in 1..k \/ b = k + 1
    BY <1>1, <1>3, <1>5, <1>8, <1>13 DEF Opened
  <2>2. Opened' = 1..(k + 1)
    BY <1>2, <1>3, <1>4, <2>1 DEF Opened, Conns
  <2>. QED  BY <1>2, <1>3, <1>4, <2>2 DEF Opens
<1>18. \A b \in Conns : Fresh(b)' = Fresh(b)
  BY <1>12 DEF Fresh, Unreferenced
<1>19. FreshInv'
  <2>1. ASSUME NEW b \in Conns, owner'[b] = 0
        PROVE  up'[b] = NoMsg /\ \A v \in Ues : ue'[v].conn # b
    <3>1. b # y /\ owner[b] = 0
      BY <1>8, <1>13, <2>1
    <3>. QED  BY <1>11, <1>14, <1>15, <3>1 DEF Inv, FreshInv
  <2>2. ASSUME NEW b \in Conns, owner'[b] = 0 \/ up'[b].kind \in Initials PROVE Fresh(b)
    BY <1>6, <1>8, <1>13, <1>14, <2>2 DEF Inv, FreshInv
  <2>. QED  BY <1>18, <2>1, <2>2 DEF FreshInv
<1>20. ASSUME NEW g, NEW v, v # 0, Belongs(nTmsi, guti2nas, owner, g, v)
       PROVE  Belongs(nTmsi', guti2nas', owner', g, v)
  <2>1. CASE g = NoGuti
    BY <2>1 DEF Belongs
  <2>2. CASE g # NoGuti
    <3>1. g \in 0..nTmsi /\ (guti2nas[g] = 0 \/ owner[guti2nas[g]] = v)
      BY <1>20, <2>2 DEF Belongs
    <3>2. guti2nas[g] \in {0} \cup Conns
      BY <1>7, <1>20, <2>2, BelongingGutis DEF RestOK
    <3>. QED  BY <1>12, <1>13, <1>20, <3>1, <3>2 DEF Belongs
  <2>. QED  BY <2>1, <2>2
<1>21. GutisOwned' /\ MapsOwned'
  <2>1. GutisOwned'
    BY <1>7, <1>12, <1>13 DEF Inv, OwnInv, GutisOwned, RestOK
  <2>2. \A n \in Conns : nas[n].imsi \in {0, owner'[n]}
    BY <1>5, <1>13 DEF Inv, OwnInv, MapsOwned
  <2>3. \A a \in Conns : amf2nas[a] # 0 => owner'[amf2nas[a]] = owner'[a] /\ owner'[a] # 0
    BY <1>7, <1>13 DEF Inv, OwnInv, MapsOwned, RestOK
  <2>4. ASSUME NEW v \in Ues, imsi2nas[v] # 0
        PROVE  owner'[imsi2nas[v]] = v
    <3>1. imsi2nas[v] \in Conns
      BY <1>7, <2>4 DEF RestOK
    <3>2. owner[imsi2nas[v]] = v /\ v # 0
      BY <2>4, ConnsNat DEF Inv, OwnInv, MapsOwned
    <3>. QED  BY <1>13, <3>1, <3>2
  <2>5. ASSUME NEW v \in Ues, supi2conn[v] # 0
        PROVE  owner'[supi2conn[v]] = v
    <3>1. supi2conn[v] \in Conns
      BY <1>7, <2>5 DEF RestOK
    <3>2. owner[supi2conn[v]] = v /\ v # 0
      BY <2>5, ConnsNat DEF Inv, OwnInv, MapsOwned
    <3>. QED  BY <1>13, <3>1, <3>2
  <2>. QED  BY <1>12, <2>1, <2>2, <2>3, <2>4, <2>5 DEF MapsOwned
<1>22. CarriedOwned'
  <2>1. CarriedOwned
    BY DEF Inv, OwnInv
  <2>2. \A v \in Ues : Belongs(nTmsi', guti2nas', owner', ue'[v].guti, v)
    BY <1>11, <1>15, <1>20, <2>1, ConnsNat DEF CarriedOwned, BelongsTo
  <2>3. \A v \in Ues : ue'[v].conn # 0 => owner'[ue'[v].conn] = v
    <3>1. \A v \in Ues : ue[v].conn \in {0} \cup Conns
      BY UeFacts
    <3>2. ASSUME NEW v \in Ues, v # u, ue[v].conn # 0 PROVE owner'[ue[v].conn] = v
      <4>1. owner[ue[v].conn] = v /\ v # 0
        BY <2>1, <3>2, ConnsNat DEF CarriedOwned
      <4>. QED  BY <1>13, <3>1, <3>2, <4>1
    <3>. QED  BY <1>11, <1>13, <1>15, <3>2
  <2>4. \A b \in Conns : up'[b] # NoMsg => Belongs(nTmsi', guti2nas', owner', up'[b].guti, owner'[b])
    <3>1. Belongs(nTmsi', guti2nas', owner', m.guti, u)
      <4>1. Belongs(nTmsi, guti2nas, owner, NoGuti, u)
        BY DEF Belongs
      <4>. QED  BY <1>8, <1>9, <1>20, <4>1
    <3>2. ASSUME NEW b \in Conns, b # y, up[b] # NoMsg
          PROVE  Belongs(nTmsi', guti2nas', owner', up[b].guti, owner[b])
      BY <1>20, <2>1, <3>2, OwnersAreUes DEF CarriedOwned, BelongsTo
    <3>. QED  BY <1>13, <1>14, <3>1, <3>2
  <2>5. ASSUME NEW b \in Conns, NEW i \in 1..Len(dl'[b]), dl'[b][i].kind = "accept"
        PROVE  Belongs(nTmsi', guti2nas', owner', dl'[b][i].v, owner'[b])
    <3>1. i \in 1..Len(dl[b]) /\ dl[b][i].kind = "accept" /\ dl'[b][i] = dl[b][i]
      BY <1>12, <2>5
    <3>2. dl[b] # <<>>
      BY <3>1
    <3>3. owner[b] # 0
      BY <3>2 DEF Inv, FreshInv, Fresh
    <3>. QED  BY <1>13, <1>20, <2>1, <3>1, <3>3 DEF CarriedOwned, BelongsTo
  <2>. QED  BY <2>2, <2>3, <2>4, <2>5 DEF CarriedOwned, BelongsTo
<1>23. ConnInv' /\ OneProcedureAtATime'
  BY <1>12 DEF Inv, ConnInv, OneProcedureAtATime
<1>24. WaitInv'
  <2>1. ASSUME NEW v \in Ues, ue'[v].wait = "registration"
        PROVE  /\ ue'[v].conn # 0 /\ up'[ue'[v].conn].kind # "dereg"
               /\ up'[ue'[v].conn].kind \in Initials \/ amf2nas[ue'[v].conn] # 0
    <3>1. CASE v = u
      BY <1>5, <1>9, <1>11, <1>14, <1>15, <3>1 DEF Initials
    <3>2. CASE v # u
      <4>1. /\ ue'[v] = ue[v] /\ ue[v].conn # y /\ ue[v].conn \in Conns
            /\ ue[v].conn # 0 /\ up[ue[v].conn].kind # "dereg"
            /\ up[ue[v].conn].kind \in Initials \/ amf2nas[ue[v].conn] # 0
        BY <1>6, <1>15, <2>1, <3>2, UeFacts
      <4>. QED  BY <1>14, <4>1
    <3>. QED  BY <3>1, <3>2
  <2>2. \A b \in Conns : up'[b].kind \in Later => amf2nas[b] # 0
    BY <1>9, <1>14 DEF Inv, WaitInv, Initials, Later
  <2>. QED  BY <1>12, <2>1, <2>2 DEF WaitInv
<1>25. TokensBacked' /\ OneToken'
  <2>1. amf2nas[y] = 0
    BY <1>6 DEF Fresh
  <2>2. \A b \in Conns : amf2nas[b] # 0 =>
           \A i \in Pos(b)' : i \in Pos(b) /\ KindAt(b, i)' = KindAt(b, i)
    BY <1>12, <1>14, <2>1 DEF Pos, KindAt
  <2>3. TokensBacked'
    BY <1>12, <2>2 DEF Inv, TokensBacked
  <2>4. OneToken'
    BY <1>12, <2>2 DEF Inv, OneToken
  <2>. QED  BY <2>3, <2>4
<1>. QED  BY <1>16, <1>17, <1>19, <1>21, <1>22, <1>23, <1>24, <1>25 DEF Inv, OwnInv

-----------------------------------------------------------------------------
(* Reachability.                                                           *)

LEMMA ReleaseCompleteStep ==
    ASSUME Inv, NEW a \in Conns, ReleaseComplete(a)
    PROVE  Inv' /\ \A k \in Conns : nas'[k].mm = nas[k].mm
<1>. DEFINE n == amf2nas[a] u == owner[a]
            s == [ue[u] EXCEPT !.conn = 0, !.wait = "none"]
            c == [nas[n] EXCEPT !.mobile = a, !.timedOut = FALSE]
<1>1. /\ releasing' = releasing \ {a} /\ closed' = closed \cup {a} /\ dl' = [dl EXCEPT ![a] = <<>>]
      /\ UNCHANGED <<mapVars, genVars, expired, up, owner, fails, alive>>
      /\ ue' = IF ue[u].conn = a THEN [ue EXCEPT ![u].conn = 0, ![u].wait = "none"] ELSE ue
      /\ \/ UNCHANGED <<nas, armed>>
         \/ n # 0 /\ armed' = armed \cup {<<"mobile", a>>} /\ Save(n, c)
  BY DEF ReleaseComplete
<1>2. RestOK /\ LinksOK /\ nas \in [Conns -> Context] /\ n \in {0} \cup Conns
  BY TypeParts DEF Inv, RestOK
<1>3. nas' \in [Conns -> Context] /\ armed' \subseteq Timers /\ \A k \in Conns :
         /\ Same(nas[k], nas'[k]) /\ nas'[k].auth = nas[k].auth /\ nas'[k].smc = nas[k].smc
  <2>1. CASE UNCHANGED <<nas, armed>>
    BY <1>2, <2>1, AllSame DEF RestOK
  <2>2. CASE n # 0 /\ armed' = armed \cup {<<"mobile", a>>} /\ Save(n, c)
    <3>1. n \in Conns /\ nas[n] \in Context /\ <<"mobile", a>> \in Timers
      BY <1>2, <2>2 DEF Timers
    <3>2. c \in Context /\ Same(nas[n], c) /\ c.auth = nas[n].auth /\ c.smc = nas[n].smc
      BY <3>1 DEF Context, Same
    <3>. HIDE DEF n, c
    <3>. QED  BY <1>2, <2>2, <3>1, <3>2, Saved, AllSame DEF RestOK
  <2>. QED  BY <1>1, <2>1, <2>2
<1>4. /\ amf2nas' = amf2nas /\ imsi2nas' = imsi2nas /\ guti2nas' = guti2nas
      /\ supi2conn' = supi2conn /\ nTmsi' = nTmsi /\ nVec' = nVec /\ owner' = owner
  BY <1>1 DEF mapVars, genVars
<1>5. KeepsContexts
  BY <1>3, <1>4 DEF KeepsContexts
<1>6. ue' \in [Ues -> UeStates] /\ MovesUes(a)
  <2>1. ue \in [Ues -> UeStates]
    BY DEF Inv, TypeOK, UeStates
  <2>2. ASSUME NEW v \in Ues
        PROVE  ue'[v] = ue[v] \/ ue'[v] = [ue[v] EXCEPT !.conn = 0, !.wait = "none"]
    BY <1>1, <2>1, <2>2
  <2>3. ue' = [v \in Ues |-> ue'[v]]
    BY ZenonT(40), <1>1, <2>1
  <2>4. \A v \in Ues : [ue[v] EXCEPT !.conn = 0, !.wait = "none"] \in UeStates
    BY ZenonT(40), <2>1 DEF UeStates
  <2>5. ue' \in [Ues -> UeStates]
    BY Zenon, <2>1, <2>2, <2>3, <2>4
  <2>6. ASSUME NEW v \in Ues
        PROVE  /\ ue'[v].conn \in {ue[v].conn, 0} /\ ue'[v].guti = ue[v].guti
               /\ ue'[v].wait = "registration" => ue'[v] = ue[v]
    <3>1. ue[v] \in UeStates
      BY <2>1
    <3>2. LET s2 == [ue[v] EXCEPT !.conn = 0, !.wait = "none"] IN
             s2.conn = 0 /\ s2.guti = ue[v].guti /\ s2.wait = "none"
      BY <3>1 DEF UeStates
    <3>. QED  BY Zenon, <2>2, <3>2
  <2>7. up' = up
    BY <1>1
  <2>8. ASSUME NEW v \in Ues
        PROVE  /\ Belongs(nTmsi, guti2nas, owner, ue[v].guti, v)
               /\ ue[v].wait = "registration" /\ ue[v].conn = a =>
                     up[a].kind # "dereg" /\ (up[a].kind \in Initials \/ amf2nas[a] # 0)
    BY UeFacts
  <2>. QED  BY <2>5, <2>6, <2>7, <2>8 DEF MovesUes
<1>7. LinksOK' /\ MovesDown(a) /\ MovesUp(a)
  BY <1>1, <1>2, NoneSent DEF LinksOK, MovesDown, MovesUp
<1>8. RestOK'
  BY <1>1, <1>2, <1>3, <1>4, <1>6 DEF RestOK, UeStates
<1>9. Moved(a)
  BY <1>5, <1>6, <1>7 DEF Moved
<1>. QED  BY <1>3, <1>7, <1>8, <1>9, TypedAfter, MovedInv DEF Same

\* Timers and pages: the messages and the UEs stay as they are.
LEMMA TimerStep ==
    ASSUME Inv, \/ \E t \in armed : Expire(t)
                \/ \E a \in Conns : Timeouts(a)
                \/ \E u \in Ues : Page(u)
    PROVE  Inv' /\ \A k \in Conns : nas'[k].mm = nas[k].mm
<1>1. RestOK /\ LinksOK /\ nas \in [Conns -> Context]
  BY TypeParts DEF Inv
<1>2. /\ UNCHANGED <<mapVars, genVars, up, dl, ue, owner, closed, releasing>>
      /\ alive' \in BOOLEAN /\ fails' \in 0..MaxFail
      /\ armed' \subseteq Timers /\ expired' \subseteq Timers
      /\ nas' \in [Conns -> Context]
      /\ \A k \in Conns :
            /\ Same(nas[k], nas'[k]) /\ nas'[k].auth = nas[k].auth /\ nas'[k].smc = nas[k].smc
  <2>1. ASSUME NEW t \in armed, Expire(t)
        PROVE  /\ UNCHANGED <<nas, mapVars, genVars, up, dl, ue, owner, closed, releasing>>
               /\ alive' \in BOOLEAN /\ fails' \in 0..MaxFail
               /\ armed' \subseteq Timers /\ expired' \subseteq Timers
    BY <1>1, <2>1, N1Constants DEF Expire, RestOK, N1Constants
  <2>2. ASSUME NEW a \in Conns, ImplicitTimeout(a)
        PROVE  /\ UNCHANGED <<nas, mapVars, genVars, up, dl, ue, owner, closed, releasing>>
               /\ alive' \in BOOLEAN /\ fails' \in 0..MaxFail
               /\ armed' \subseteq Timers /\ expired' \subseteq Timers
    BY <1>1, <2>2 DEF ImplicitTimeout, RestOK, ranVars
  <2>3. ASSUME NEW u \in Ues, Page(u)
        PROVE  /\ UNCHANGED <<nas, mapVars, genVars, up, dl, ue, owner, closed, releasing>>
               /\ alive' \in BOOLEAN /\ fails' \in 0..MaxFail
               /\ armed' \subseteq Timers /\ expired' \subseteq Timers
    BY <1>1, <2>3, ConnsNat DEF Page, RestOK, ranVars, tmrVars
  <2>4. ASSUME NEW a \in Conns, MobileTimeout(a)
        PROVE  /\ UNCHANGED <<mapVars, genVars, up, dl, ue, owner, closed, releasing>>
               /\ alive' \in BOOLEAN /\ fails' \in 0..MaxFail
               /\ armed' \subseteq Timers /\ expired' \subseteq Timers
               /\ nas' \in [Conns -> Context]
               /\ \A k \in Conns : /\ Same(nas[k], nas'[k]) /\ nas'[k].auth = nas[k].auth
                                   /\ nas'[k].smc = nas[k].smc
    <3>. DEFINE n == amf2nas[a] c == [nas[n] EXCEPT !.timedOut = TRUE, !.implicit = a]
    <3>1. /\ expired' = expired \ {<<"mobile", a>>} /\ N1Only
          /\ UNCHANGED <<mapVars, genVars, up, dl>>
          /\ \/ UNCHANGED <<nas, armed>>
             \/ n # 0 /\ armed' = armed \cup {<<"implicit", a>>} /\ Save(n, c)
      BY <2>4 DEF MobileTimeout
    <3>2. /\ UNCHANGED <<ue, owner, closed, releasing>>
          /\ alive' \in BOOLEAN /\ fails' \in 0..MaxFail /\ expired' \subseteq Timers
      BY <1>1, <3>1 DEF N1Only, ranVars, RestOK
    <3>3. CASE UNCHANGED <<nas, armed>>
      BY <1>1, <3>1, <3>2, <3>3, AllSame DEF RestOK
    <3>4. CASE n # 0 /\ armed' = armed \cup {<<"implicit", a>>} /\ Save(n, c)
      <4>1. n \in Conns /\ nas[n] \in Context /\ <<"implicit", a>> \in Timers
        BY <1>1, <3>4 DEF Timers, RestOK
      <4>2. c \in Context /\ Same(nas[n], c) /\ c.auth = nas[n].auth /\ c.smc = nas[n].smc
        BY ZenonT(40), <4>1 DEF Context, Same
      <4>. HIDE DEF n, c
      <4>3. armed' \subseteq Timers
        BY <1>1, <3>4, <4>1 DEF RestOK
      <4>. QED  BY <1>1, <3>1, <3>2, <3>4, <4>1, <4>2, <4>3, Saved, AllSame
    <3>. QED  BY <3>1, <3>3, <3>4
  <2>5. UNCHANGED nas => nas' \in [Conns -> Context] /\ \A k \in Conns :
           /\ Same(nas[k], nas'[k]) /\ nas'[k].auth = nas[k].auth /\ nas'[k].smc = nas[k].smc
    BY <1>1, AllSame
  <2>. QED  BY <2>1, <2>2, <2>3, <2>4, <2>5 DEF Timeouts
<1>3. /\ amf2nas' = amf2nas /\ imsi2nas' = imsi2nas /\ guti2nas' = guti2nas
      /\ supi2conn' = supi2conn /\ nTmsi' = nTmsi /\ nVec' = nVec
  BY <1>2 DEF mapVars, genVars
<1>4. KeepsContexts
  BY <1>2, <1>3 DEF KeepsContexts
<1>5. RestOK' /\ LinksOK'
  BY <1>1, <1>2, <1>3 DEF RestOK, LinksOK
<1>6. TypeOK'
  BY <1>2, <1>5, TypedAfter
<1>7. Inv'
  BY <1>2, <1>4, <1>6, NothingMoves
<1>. QED  BY <1>2, <1>7 DEF Same

-----------------------------------------------------------------------------
(* The theorems.                                                           *)

\* A handled message makes a context registered only if its security mode procedure runs.
LEMMA HandledRegisters ==
    ASSUME Inv, NEW a \in Conns, Handled(a)
    PROVE  \A k \in Conns : nas'[k].mm = "registered" => nas[k].mm = "registered" \/ nas[k].smc
<1>1. PICK n \in Conns, d \in Context, x \in {0} \cup Conns, ms \in Seq(DlMsg) :
         Save(n, d) /\ ContextStep(a, n, d, x)
  BY DEF Handled, Handles, LinkStep
<1>2. nas \in [Conns -> Context]
  BY DEF Inv, TypeOK
<1>. QED  BY <1>1, <1>2, Saved DEF ContextStep

LEMMA NextStep ==
    ASSUME Inv, Next
    PROVE  /\ Inv'
           /\ \A k \in Conns : nas'[k].mm = "registered" => nas[k].mm = "registered" \/ nas[k].smc
<1>1. ASSUME NEW a \in Conns, TaskN1(a)
      PROVE  /\ Inv'
             /\ \A k \in Conns : nas'[k].mm = "registered" => nas[k].mm = "registered" \/ nas[k].smc
  BY <1>1, TaskN1Step, HandledRegisters
<1>2. ASSUME NEW a \in Conns, ReleaseComplete(a)
      PROVE  Inv' /\ \A k \in Conns : nas'[k].mm = nas[k].mm
  BY <1>2, ReleaseCompleteStep
<1>3. ASSUME \/ \E t \in armed : Expire(t)
             \/ \E a \in Conns : Timeouts(a)
             \/ \E u \in Ues : Page(u)
      PROVE  Inv' /\ \A k \in Conns : nas'[k].mm = nas[k].mm
  BY <1>3, TimerStep
<1>4. ASSUME NEW u \in Ues,
             \/ \E m \in Requests(u) : Connect(u, m)
             \/ Lose(u) \/ AskDeregistration(u) \/ Responds(u)
             \/ \E m \in Inbox(u) : UeFails(u, m)
      PROVE  Inv' /\ nas' = nas
  <2>1. Inv'
    BY <1>4, ConnectStep, LoseStep, AskDeregistrationStep, UeAnswersStep, UeEndsStep,
       UeFailsStep DEF Responds
  <2>2. External
    BY Zenon, <1>4 DEF Connect, Lose, AskDeregistration, Responds, UeAnswers, UeEnds, UeFails, Reaches
  <2>. QED  BY <2>1, <2>2 DEF External
<1>. QED  BY <1>1, <1>2, <1>3, <1>4 DEF Next

LEMMA Stutter ==
    ASSUME Inv, UNCHANGED vars
    PROVE  Inv'
<1>1. KeepsContexts
  BY AllSame DEF vars, mapVars, genVars, ranVars, KeepsContexts
<1>2. TypeOK'
  BY DEF vars, mapVars, genVars, tmrVars, ranVars, Inv, TypeOK
<1>3. UNCHANGED <<up, dl, ue>>
  BY DEF vars, ranVars
<1>. QED  BY <1>1, <1>2, <1>3, NothingMoves

LEMMA InvAlways == Spec => []Inv
<1>1. Inv /\ [Next]_vars => Inv'
  BY NextStep, Stutter
<1>. QED  BY InitInv, <1>1, PTL DEF Spec

\* The variables keep their types: whatever is lost, repeated or late, contexts are named
\* by connections and no handler makes a context that the code could not have made.
THEOREM TypeCorrect == Spec => []TypeOK
<1>1. Inv => TypeOK
  BY DEF Inv
<1>. QED  BY InvAlways, <1>1, PTL

\* A context runs one common procedure at a time, however many connections lead to it.
THEOREM OneProcedureAtATimeAlways == Spec => []OneProcedureAtATime
<1>1. Inv => OneProcedureAtATime
  BY DEF Inv
<1>. QED  BY InvAlways, <1>1, PTL

\* However a UE is known - by its connection, its SUPI, its IMSI or the GUTI it holds - it
\* leads to a context of that UE and of no other.
THEOREM IdentitiesAgreeAlways == Spec => []IdentitiesAgree
<1>1. Inv => IdentitiesAgree
  <2>. SUFFICES ASSUME Inv PROVE IdentitiesAgree
    OBVIOUS
  <2>1. ASSUME NEW n, NEW u, n = 0 \/ (n \in Conns /\ owner[n] = u) PROVE IsOf(n, u)
    BY <2>1 DEF IsOf, Inv, OwnInv, MapsOwned
  <2>2. \A a \in Opened : IsOf(amf2nas[a], owner[a])
    BY <2>1 DEF Opened, Inv, TypeOK, OwnInv, MapsOwned
  <2>3. ASSUME NEW u \in Ues
        PROVE  /\ supi2conn[u] # 0 => owner[supi2conn[u]] = u
               /\ IsOf(imsi2nas[u], u)
               /\ ue[u].guti # NoGuti => IsOf(guti2nas[ue[u].guti], u)
    <3>1. supi2conn[u] # 0 => owner[supi2conn[u]] = u
      BY DEF Inv, OwnInv, MapsOwned
    <3>2. IsOf(imsi2nas[u], u)
      BY <2>1 DEF Inv, TypeOK, OwnInv, MapsOwned
    <3>3. ASSUME ue[u].guti # NoGuti PROVE IsOf(guti2nas[ue[u].guti], u)
      <4>1. guti2nas[ue[u].guti] \in {0} \cup Conns
        BY <3>3, UeFacts DEF Inv, TypeOK
      <4>2. guti2nas[ue[u].guti] = 0 \/ owner[guti2nas[ue[u].guti]] = u
        BY <3>3, UeFacts DEF Belongs
      <4>. QED  BY <2>1, <4>1, <4>2
    <3>. QED  BY <3>1, <3>2, <3>3
  <2>. QED  BY <2>2, <2>3 DEF IdentitiesAgree
<1>. QED  BY InvAlways, <1>1, PTL

\* A context becomes registered only at the end of a security mode procedure of its own:
\* a Security Mode Complete that is handled answers the command that its context sent.
THEOREM RegisteredBySmcAlways == Spec => RegisteredBySmc
<1>1. Inv /\ [Next]_vars =>
         [\A n \in Conns : nas[n].mm # "registered" /\ nas'[n].mm = "registered" => nas[n].smc]_vars
  BY NextStep
<1>. QED  BY InvAlways, <1>1, PTL DEF Spec, RegisteredBySmc
=============================================================================
