--------------------------- MODULE HandoverProofs ---------------------------
(***************************************************************************)
(* Proofs about Handover, for any gNBs, RAN ids and number of attempts, and *)
(* for any row of callbacks: type correctness, that the release which ends *)
(* a handover spares the UE, and that the AMF finds the UE when all is     *)
(* quiet.                                                                  *)
(***************************************************************************)
EXTENDS Handover, SequenceTheorems, TLAPS

-----------------------------------------------------------------------------
(* Type correctness.                                                       *)

\* What a gNB sends and what it gets.
UpMsgs(g) == {m \in Msgs : /\ m.type \in {"Required", "Ack", "Notify", "Status"}
                           /\ m.ran \in RanIds
                           /\ m.type = "Ack" => m.to = <<g, m.ran>>}
DownMsgs == {m \in Msgs :
               /\ m.type \in {"Request", "Command", "Release", "Status", "PreparationFailure"}
               /\ m.type = "Command" => m.ran \in RanIds /\ m.to \in Places
               /\ m.type = "Release" => m.ran \in RanIds}

QueuesOK == \A g \in Gnbs : up[g] \in Seq(UpMsgs(g)) /\ down[g] \in Seq(DownMsgs)

UncOK == unc \in [gnb : Gnbs, ran : RanIds, target_gnb : Gnbs \cup {Unknown},
                  target_ran : RanIds \cup {0},
                  state : {"NGAP_UE_CONNECTED", "NGAP_UE_HANDOVER"}]
FlagsOK == /\ ranMap \subseteq RanIds /\ secured \in BOOLEAN /\ alive \in BOOLEAN
           /\ usurped \in BOOLEAN
LinksOK == up \in [Gnbs -> Seq(Msgs)] /\ down \in [Gnbs -> Seq(Msgs)]
GnbsOK == /\ ctx \subseteq Places /\ place \in Places \cup {NoPlace}
          /\ prep \in Gnbs \cup {Unknown} /\ required \in 0..MaxRequired

LEMMA TypeParts == TypeOK <=> UncOK /\ FlagsOK /\ LinksOK /\ GnbsOK
  BY DEF TypeOK, UncOK, FlagsOK, LinksOK, GnbsOK

Typed == TypeOK /\ QueuesOK

LEMMA InitTyped == Init => Typed
<1>. SUFFICES ASSUME Init PROVE Typed
  OBVIOUS
<1>1. place \in Places /\ place[1] \in Gnbs /\ place[2] \in RanIds
  BY DEF Init, Places
<1>2. UncOK
  BY <1>1 DEF Init, UncOK
<1>4. FlagsOK
  BY <1>1 DEF Init, FlagsOK
<1>5. GnbsOK
  BY <1>1, HandoverConstants DEF Init, GnbsOK, HandoverConstants
<1>3. LinksOK /\ QueuesOK
  BY DEF Init, LinksOK, QueuesOK
<1>. QED  BY <1>2, <1>3, <1>4, <1>5, TypeParts DEF Typed

\* The head of a queue, and what is left.
LEMMA Popped ==
    ASSUME NEW S, NEW s \in Seq(S), s # <<>>
    PROVE  /\ Head(s) \in S /\ Head(s) = s[1] /\ Tail(s) \in Seq(S)
           /\ Len(s) \in Nat /\ Len(Tail(s)) \in Nat /\ Len(s) = Len(Tail(s)) + 1
           /\ \A i \in 1..Len(Tail(s)) : Tail(s)[i] = s[i + 1]
  OBVIOUS

LEMMA Pushed ==
    ASSUME NEW S, NEW s \in Seq(S), NEW m \in S
    PROVE  /\ Append(s, m) \in Seq(S)
           /\ Len(s) \in Nat /\ Len(Append(s, m)) = Len(s) + 1
           /\ \A i \in 1..Len(s) : Append(s, m)[i] = s[i]
           /\ Append(s, m)[Len(s) + 1] = m
  OBVIOUS

\* The messages are what their types say.
LEMMA MsgTypes ==
    /\ \A g \in Gnbs : UpMsgs(g) \subseteq Msgs
    /\ DownMsgs \subseteq Msgs
    /\ \A g \in Gnbs, ran \in RanIds :
         /\ Msg("Notify", ran, NoPlace) \in UpMsgs(g)
         /\ Msg("Status", ran, NoPlace) \in UpMsgs(g)
         /\ Msg("Ack", ran, <<g, ran>>) \in UpMsgs(g)
         /\ \A to \in Gnbs \cup {Unknown} : Msg("Required", ran, <<to, 0>>) \in UpMsgs(g)
    /\ \A ran \in RanIds \cup {0} : Msg("Status", ran, NoPlace) \in DownMsgs
    /\ Msg("Request", 0, NoPlace) \in DownMsgs
    /\ Msg("PreparationFailure", AmfId, NoPlace) \in DownMsgs
    /\ \A ran \in RanIds : Msg("Release", ran, NoPlace) \in DownMsgs
    /\ \A ran \in RanIds, p \in Places : Msg("Command", ran, p) \in DownMsgs
<1>1. /\ DownMsgs \subseteq Msgs
      /\ \A g \in Gnbs : UpMsgs(g) \subseteq Msgs
  BY DEF UpMsgs, DownMsgs
<1>2. NoPlace \in (Gnbs \cup {Unknown}) \X (RanIds \cup {0})
  BY DEF NoPlace
<1>3. \A ran \in RanIds :
         /\ Msg("Notify", ran, NoPlace) \in Msgs /\ Msg("Status", ran, NoPlace) \in Msgs
         /\ Msg("Release", ran, NoPlace) \in Msgs
         /\ \A g \in Gnbs : Msg("Ack", ran, <<g, ran>>) \in Msgs
         /\ \A to \in Gnbs \cup {Unknown} : Msg("Required", ran, <<to, 0>>) \in Msgs
         /\ \A p \in Places : Msg("Command", ran, p) \in Msgs
  BY <1>2 DEF Msg, Msgs, Types, Places
<1>4. /\ \A ran \in RanIds \cup {0} : Msg("Status", ran, NoPlace) \in Msgs
      /\ Msg("Request", 0, NoPlace) \in Msgs
      /\ Msg("PreparationFailure", AmfId, NoPlace) \in Msgs
  BY <1>2 DEF Msg, Msgs, Types
<1>5. \A g \in Gnbs, ran \in RanIds :
         /\ Msg("Notify", ran, NoPlace) \in UpMsgs(g)
         /\ Msg("Status", ran, NoPlace) \in UpMsgs(g)
         /\ Msg("Ack", ran, <<g, ran>>) \in UpMsgs(g)
         /\ \A to \in Gnbs \cup {Unknown} : Msg("Required", ran, <<to, 0>>) \in UpMsgs(g)
  BY ZenonT(40), <1>3 DEF UpMsgs, Msg
<1>6. /\ \A ran \in RanIds \cup {0} : Msg("Status", ran, NoPlace) \in DownMsgs
      /\ Msg("Request", 0, NoPlace) \in DownMsgs
      /\ Msg("PreparationFailure", AmfId, NoPlace) \in DownMsgs
      /\ \A ran \in RanIds : Msg("Release", ran, NoPlace) \in DownMsgs
      /\ \A ran \in RanIds, p \in Places : Msg("Command", ran, p) \in DownMsgs
  BY <1>3, <1>4 DEF DownMsgs, Msg
<1>. QED  BY <1>1, <1>5, <1>6

\* A queue that loses its head or gains a message is still a queue.
LEMMA UpStep ==
    ASSUME Typed, NEW g \in Gnbs,
           \/ up' = up
           \/ up[g] # <<>> /\ up' = [up EXCEPT ![g] = Tail(@)]
           \/ \E m \in UpMsgs(g) : up' = [up EXCEPT ![g] = Append(@, m)]
    PROVE  up' \in [Gnbs -> Seq(Msgs)] /\ \A h \in Gnbs : up'[h] \in Seq(UpMsgs(h))
<1>. up \in [Gnbs -> Seq(Msgs)] /\ \A h \in Gnbs : up[h] \in Seq(UpMsgs(h))
  BY TypeParts DEF Typed, LinksOK, QueuesOK
<1>1. \A h \in Gnbs : up'[h] \in Seq(UpMsgs(h))
  <2>1. CASE up' = up
    BY <2>1
  <2>2. CASE up[g] # <<>> /\ up' = [up EXCEPT ![g] = Tail(@)]
    <3>1. Tail(up[g]) \in Seq(UpMsgs(g))
      BY <2>2, Popped
    <3>. QED  BY <2>2, <3>1
  <2>3. ASSUME NEW m \in UpMsgs(g), up' = [up EXCEPT ![g] = Append(@, m)]
        PROVE  \A h \in Gnbs : up'[h] \in Seq(UpMsgs(h))
    <3>1. Append(up[g], m) \in Seq(UpMsgs(g))
      BY <2>3, Pushed
    <3>. QED  BY <2>3, <3>1
  <2>. QED  BY <2>1, <2>2, <2>3
<1>2. \A h \in Gnbs : Seq(UpMsgs(h)) \subseteq Seq(Msgs)
  BY MsgTypes
<1>3. up' = [h \in Gnbs |-> up'[h]]
  OBVIOUS
<1>. QED  BY <1>1, <1>2, <1>3

LEMMA DownStep ==
    ASSUME Typed, NEW g \in Gnbs,
           \/ down' = down
           \/ down[g] # <<>> /\ down' = [down EXCEPT ![g] = Tail(@)]
           \/ \E m \in DownMsgs : down' = [down EXCEPT ![g] = Append(@, m)]
    PROVE  down' \in [Gnbs -> Seq(Msgs)] /\ \A h \in Gnbs : down'[h] \in Seq(DownMsgs)
<1>. down \in [Gnbs -> Seq(Msgs)] /\ \A h \in Gnbs : down[h] \in Seq(DownMsgs)
  BY TypeParts DEF Typed, LinksOK, QueuesOK
<1>1. \A h \in Gnbs : down'[h] \in Seq(DownMsgs)
  <2>1. CASE down' = down
    BY <2>1
  <2>2. CASE down[g] # <<>> /\ down' = [down EXCEPT ![g] = Tail(@)]
    <3>1. Tail(down[g]) \in Seq(DownMsgs)
      BY <2>2, Popped
    <3>. QED  BY <2>2, <3>1
  <2>3. ASSUME NEW m \in DownMsgs, down' = [down EXCEPT ![g] = Append(@, m)]
        PROVE  \A h \in Gnbs : down'[h] \in Seq(DownMsgs)
    <3>1. Append(down[g], m) \in Seq(DownMsgs)
      BY <2>3, Pushed
    <3>. QED  BY <2>3, <3>1
  <2>. QED  BY <2>1, <2>2, <2>3
<1>2. Seq(DownMsgs) \subseteq Seq(Msgs)
  BY MsgTypes
<1>3. down' = [h \in Gnbs |-> down'[h]]
  OBVIOUS
<1>. QED  BY <1>1, <1>2, <1>3

\* The common part of the handlers: the message taken from a gNB.
LEMMA Received ==
    ASSUME Typed, NEW g \in Gnbs, NEW type, Receive(g, type)
    PROVE  /\ alive /\ Head(up[g]) \in UpMsgs(g) /\ Head(up[g]) = up[g][1]
           /\ Head(up[g]).type = type /\ Head(up[g]).ran \in RanIds
           /\ Head(up[g]).to \in (Gnbs \cup {Unknown}) \X (RanIds \cup {0})
           /\ up[g] # <<>> /\ up' = [up EXCEPT ![g] = Tail(@)]
<1>1. up[g] \in Seq(UpMsgs(g)) /\ up[g] # <<>>
  BY DEF Typed, QueuesOK, Receive
<1>2. Head(up[g]) \in UpMsgs(g) /\ Head(up[g]) = up[g][1]
  BY <1>1, Popped
<1>. QED  BY <1>1, <1>2 DEF Receive, UpMsgs, Msgs

LEMMA Gotten ==
    ASSUME Typed, NEW g \in Gnbs, NEW type, Get(g, type)
    PROVE  /\ Head(down[g]) \in DownMsgs /\ Head(down[g]) = down[g][1]
           /\ Head(down[g]).type = type
           /\ down[g] # <<>> /\ down' = [down EXCEPT ![g] = Tail(@)]
<1>1. down[g] \in Seq(DownMsgs) /\ down[g] # <<>>
  BY DEF Typed, QueuesOK, Get
<1>2. Head(down[g]) \in DownMsgs /\ Head(down[g]) = down[g][1]
  BY <1>1, Popped
<1>. QED  BY <1>1, <1>2 DEF Get

LEMMA AmfTyped ==
    ASSUME Typed, NEW g \in Gnbs, AmfStep(g) PROVE Typed'
<1>. UncOK /\ FlagsOK /\ LinksOK /\ GnbsOK
  BY TypeParts DEF Typed
<1>. SUFFICES UncOK' /\ FlagsOK' /\ LinksOK' /\ GnbsOK' /\ QueuesOK'
  BY DEF Typed, TypeOK, UncOK, FlagsOK, LinksOK, GnbsOK
<1>. DEFINE m == Head(up[g])
<1>0. \E type \in Types : Receive(g, type)
  BY DEF AmfStep, RequiredRefused, RequiredForwarded, RequiredCrash, Ack, Notify,
         StatusTransfer, Types
<1>1. /\ m \in UpMsgs(g) /\ m.ran \in RanIds
      /\ m.to \in (Gnbs \cup {Unknown}) \X (RanIds \cup {0})
      /\ up[g] # <<>> /\ up' = [up EXCEPT ![g] = Tail(@)]
  BY <1>0, Received
<1>2. up' \in [Gnbs -> Seq(Msgs)] /\ \A h \in Gnbs : up'[h] \in Seq(UpMsgs(h))
  BY <1>1, UpStep
<1>3. GnbsOK' /\ secured' = secured
  BY DEF AmfStep, RequiredRefused, RequiredForwarded, RequiredCrash, Ack, Notify,
         StatusTransfer, gnbVars, GnbsOK
<1>4. Started(g) = [unc EXCEPT !.gnb = g, !.state = "NGAP_UE_HANDOVER"]
  BY DEF Started
<1>. SUFFICES /\ UncOK' /\ FlagsOK'
              /\ \/ down' = down
                 \/ \E h \in Gnbs, n \in DownMsgs : down' = [down EXCEPT ![h] = Append(@, n)]
  <2>1. ASSUME \/ down' = down
               \/ \E h \in Gnbs, n \in DownMsgs : down' = [down EXCEPT ![h] = Append(@, n)]
        PROVE  down' \in [Gnbs -> Seq(Msgs)] /\ \A h \in Gnbs : down'[h] \in Seq(DownMsgs)
    BY <2>1, DownStep
  <2>. QED  BY <1>2, <1>3, <2>1 DEF LinksOK, QueuesOK
<1>5. CASE RequiredRefused(g)
  <2>1. UncOK'
    BY <1>4, <1>5 DEF RequiredRefused, UncOK
  <2>2. FlagsOK'
    BY <1>3, <1>5 DEF RequiredRefused, Note, FlagsOK
  <2>. QED  BY <1>5, <2>1, <2>2, MsgTypes DEF RequiredRefused, SendDown
<1>6. CASE RequiredForwarded(g)
  <2>1. m.to[1] \in Gnbs /\ unc' = [Started(g) EXCEPT !.target_gnb = m.to[1]]
    BY <1>6 DEF RequiredForwarded
  <2>2. UncOK'
    BY <1>4, <2>1 DEF UncOK
  <2>3. FlagsOK'
    BY <1>3, <1>6 DEF RequiredForwarded, Note, FlagsOK
  <2>. QED  BY Zenon, <1>6, <2>1, <2>2, <2>3, MsgTypes DEF RequiredForwarded, SendDown
<1>7. CASE RequiredCrash(g)
  <2>1. unc' = Started(g) /\ down' = down /\ alive' = FALSE /\ ranMap' = ranMap
    BY <1>7 DEF RequiredCrash
  <2>2. UncOK'
    BY <1>4, <2>1 DEF UncOK
  <2>3. FlagsOK'
    BY <1>3, <1>7, <2>1 DEF RequiredCrash, Note, FlagsOK
  <2>. QED  BY <2>1, <2>2, <2>3
<1>8. CASE Ack(g)
  <2>1. FlagsOK'
    BY <1>3, <1>8 DEF Ack, FlagsOK
  <2>2. CASE UNCHANGED down
    <3>1. unc' = unc \/ unc' = [unc EXCEPT !.target_ran = m.ran]
      BY <1>8 DEF Ack
    <3>2. UncOK'
      BY <1>1, <3>1 DEF UncOK
    <3>. QED  BY <2>1, <2>2, <3>2, <1>8 DEF Ack
  <2>3. CASE ~UNCHANGED down
    <3>1. /\ unc' = [unc EXCEPT !.target_ran = m.ran]
          /\ down' = [down EXCEPT ![unc.gnb] = Append(@, Msg("Command", unc.ran, m.to))]
      BY <1>8, <2>3 DEF Ack, SendDown
    <3>2. m.to \in Places
      <4>1. m.type = "Ack"
        BY <1>8 DEF Ack, Receive
      <4>. QED  BY <1>1, <4>1 DEF UpMsgs, Places
    <3>3. UncOK' /\ unc.gnb \in Gnbs /\ unc.ran \in RanIds
      BY <1>1, <3>1 DEF UncOK
    <3>. QED  BY <2>1, <3>1, <3>2, <3>3, MsgTypes
  <2>. QED  BY <2>2, <2>3
<1>9. CASE Notify(g)
  <2>1. /\ down' = [down EXCEPT ![unc.gnb] = Append(@, Msg("Release", unc.ran, NoPlace))]
        /\ unc' = Moved(g, m.ran) /\ ranMap' = ranMap \cup {m.ran}
        /\ UNCHANGED <<alive, usurped>>
    BY <1>9 DEF Notify, Left, SendDown
  <2>2. UncOK' /\ FlagsOK' /\ unc.gnb \in Gnbs /\ unc.ran \in RanIds
    BY <1>1, <1>3, <2>1 DEF Moved, UncOK, FlagsOK
  <2>. QED  BY <2>1, <2>2, MsgTypes
<1>10. CASE StatusTransfer(g)
  <2>1. UncOK' /\ FlagsOK'
    BY <1>3, <1>10 DEF StatusTransfer, amfVars, UncOK, FlagsOK
  <2>2. unc.target_ran \in RanIds \cup {0}
    BY DEF UncOK
  <2>. QED  BY <1>10, <2>1, <2>2, MsgTypes DEF StatusTransfer
<1>. QED  BY <1>5, <1>6, <1>7, <1>8, <1>9, <1>10 DEF AmfStep

LEMMA GnbTyped ==
    ASSUME Typed,
           \/ Secure \/ GiveUp
           \/ \E to \in Gnbs \cup {Unknown} : Require(to)
           \/ \E g \in Gnbs : \/ TargetRefuses(g) \/ SourceMoves(g) \/ SourceFails(g)
                              \/ GnbReleases(g) \/ GnbGetsStatus(g)
                              \/ \E ran \in RanIds : TargetAdmits(g, ran)
    PROVE  Typed'
<1>. UncOK /\ FlagsOK /\ LinksOK /\ GnbsOK /\ QueuesOK
  BY TypeParts DEF Typed
<1>. SUFFICES UncOK' /\ FlagsOK' /\ LinksOK' /\ GnbsOK' /\ QueuesOK'
  BY DEF Typed, TypeOK, UncOK, FlagsOK, LinksOK, GnbsOK
<1>0. UncOK' /\ FlagsOK'
  BY ZenonT(40) DEF Secure, GiveUp, Require, TargetRefuses, SourceMoves, SourceFails, GnbReleases,
         GnbGetsStatus, TargetAdmits, amfVars, UncOK, FlagsOK
<1>1. CASE Secure \/ GiveUp
  BY <1>0, <1>1 DEF Secure, GiveUp, gnbVars, LinksOK, QueuesOK, GnbsOK
<1>2. ASSUME NEW to \in Gnbs \cup {Unknown}, Require(to)
      PROVE  LinksOK' /\ GnbsOK' /\ QueuesOK'
  <2>1. place[1] \in Gnbs /\ place[2] \in RanIds
    BY <1>2 DEF Require, GnbsOK, Places
  <2>2. Msg("Required", place[2], <<to, 0>>) \in UpMsgs(place[1])
    BY <2>1, MsgTypes
  <2>3. up' = [up EXCEPT ![place[1]] = Append(@, Msg("Required", place[2], <<to, 0>>))]
    BY <1>2 DEF Require, SendUp
  <2>4. up' \in [Gnbs -> Seq(Msgs)] /\ \A h \in Gnbs : up'[h] \in Seq(UpMsgs(h))
    BY <2>1, <2>2, <2>3, UpStep
  <2>5. GnbsOK'
    BY <1>2, HandoverConstants DEF Require, GnbsOK, HandoverConstants
  <2>. QED  BY <1>2, <2>4, <2>5 DEF Require, LinksOK, QueuesOK
<1>3. ASSUME NEW g \in Gnbs, \/ TargetRefuses(g) \/ SourceFails(g) \/ GnbReleases(g)
                             \/ GnbGetsStatus(g)
      PROVE  LinksOK' /\ GnbsOK' /\ QueuesOK'
  <2>1. \E type \in Types : Get(g, type)
    BY <1>3 DEF TargetRefuses, SourceFails, GnbReleases, GnbGetsStatus, Types
  <2>2. down' \in [Gnbs -> Seq(Msgs)] /\ \A h \in Gnbs : down'[h] \in Seq(DownMsgs)
    BY <2>1, Gotten, DownStep
  <2>3. up' = up
    BY <1>3 DEF TargetRefuses, SourceFails, GnbReleases, GnbGetsStatus
  <2>4. GnbsOK'
    BY <1>3 DEF TargetRefuses, SourceFails, GnbReleases, GnbGetsStatus, gnbVars, GnbsOK
  <2>. QED  BY <2>2, <2>3, <2>4 DEF LinksOK, QueuesOK
<1>4. ASSUME NEW g \in Gnbs, NEW ran \in RanIds, TargetAdmits(g, ran)
      PROVE  LinksOK' /\ GnbsOK' /\ QueuesOK'
  <2>1. down' \in [Gnbs -> Seq(Msgs)] /\ \A h \in Gnbs : down'[h] \in Seq(DownMsgs)
    BY <1>4, Gotten, DownStep DEF TargetAdmits
  <2>2. up' = [up EXCEPT ![g] = Append(@, Msg("Ack", ran, <<g, ran>>))]
    BY <1>4 DEF TargetAdmits, SendUp
  <2>3. up' \in [Gnbs -> Seq(Msgs)] /\ \A h \in Gnbs : up'[h] \in Seq(UpMsgs(h))
    BY <2>2, MsgTypes, UpStep
  <2>4. GnbsOK'
    BY <1>4 DEF TargetAdmits, GnbsOK, Places
  <2>. QED  BY <2>1, <2>3, <2>4 DEF LinksOK, QueuesOK
<1>5. ASSUME NEW g \in Gnbs, SourceMoves(g)
      PROVE  LinksOK' /\ GnbsOK' /\ QueuesOK'
  <2>. DEFINE m == Head(down[g])
  <2>1. down' \in [Gnbs -> Seq(Msgs)] /\ \A h \in Gnbs : down'[h] \in Seq(DownMsgs)
    BY Zenon, <1>5, Gotten, DownStep DEF SourceMoves
  <2>2. CASE UNCHANGED <<place, prep, up>>
    BY Zenon, <1>5, <2>1, <2>2 DEF SourceMoves, LinksOK, QueuesOK, GnbsOK
  <2>3. CASE ~UNCHANGED <<place, prep, up>>
    <3>1. /\ place' = m.to /\ prep' = Unknown /\ m.to \in ctx
          /\ up' = [[up EXCEPT ![g] = Append(@, Msg("Status", m.ran, NoPlace))]
                     EXCEPT ![m.to[1]] = Append(@, Msg("Notify", m.to[2], NoPlace))]
          /\ UNCHANGED <<ctx, required>> /\ place = <<g, m.ran>>
      BY Zenon, <1>5, <2>3 DEF SourceMoves
    <3>2. m.ran \in RanIds /\ m.to \in Places /\ m.to[1] \in Gnbs /\ m.to[2] \in RanIds
      <4>1. m \in DownMsgs /\ m.type = "Command"
        BY Zenon, <1>5, Gotten DEF SourceMoves
      <4>. QED  BY <4>1 DEF DownMsgs, Places
    <3>. DEFINE n1 == Msg("Status", m.ran, NoPlace)
                n2 == Msg("Notify", m.to[2], NoPlace)
                mid == [up EXCEPT ![g] = Append(@, n1)]
    <3>3. n1 \in UpMsgs(g) /\ n2 \in UpMsgs(m.to[1])
      BY <3>2, MsgTypes
    <3>4. mid \in [Gnbs -> Seq(Msgs)] /\ \A h \in Gnbs : mid[h] \in Seq(UpMsgs(h))
      <4>1. Append(up[g], n1) \in Seq(UpMsgs(g))
        BY <3>3, Pushed DEF QueuesOK
      <4>2. n1 \in Msgs /\ Append(up[g], n1) \in Seq(Msgs)
        BY <3>3, MsgTypes DEF LinksOK
      <4>. QED  BY <4>1, <4>2 DEF LinksOK, QueuesOK
    <3>5. up' \in [Gnbs -> Seq(Msgs)] /\ \A h \in Gnbs : up'[h] \in Seq(UpMsgs(h))
      <4>1. Append(mid[m.to[1]], n2) \in Seq(UpMsgs(m.to[1]))
        BY <3>2, <3>3, <3>4, Pushed
      <4>2. n2 \in Msgs /\ Append(mid[m.to[1]], n2) \in Seq(Msgs)
        BY <3>2, <3>3, <3>4, MsgTypes
      <4>3. up' = [mid EXCEPT ![m.to[1]] = Append(mid[m.to[1]], n2)]
        BY SMTT(40), <3>1
      <4>. HIDE DEF mid, n1, n2, m
      <4>. QED  BY <3>4, <4>1, <4>2, <4>3
    <3>6. GnbsOK'
      BY SMTT(40), <3>1, <3>2 DEF GnbsOK
    <3>. QED  BY <2>1, <3>5, <3>6 DEF LinksOK, QueuesOK
  <2>. QED  BY <2>2, <2>3
<1>. QED  BY <1>0, <1>1, <1>2, <1>3, <1>4, <1>5

LEMMA StepTyped == ASSUME Typed, [Next]_vars PROVE Typed'
<1>1. CASE UNCHANGED vars
  BY <1>1 DEF vars, amfVars, gnbVars, Typed, TypeOK, QueuesOK
<1>. QED  BY <1>1, AmfTyped, GnbTyped DEF Next

\* Every reachable state is well typed: in particular the AMF only ever knows the UE
\* by a gNB that it has an association with and a RAN id that a gNB has handed out.
THEOREM TypeCorrect == Spec => []TypeOK
<1>1. Typed /\ [Next]_vars => Typed'
  BY StepTyped
<1>2. Typed => TypeOK
  BY DEF Typed
<1>. QED  BY <1>1, <1>2, InitTyped, PTL DEF Spec
-----------------------------------------------------------------------------
(* The release spares the UE, and the UE is found.                         *)

\* Messages that the argument is about.
AckAt(u, i, p) == i \in DOMAIN u[p[1]] /\ u[p[1]][i].type = "Ack" /\ u[p[1]][i].ran = p[2]
CmdAt(d, h, i, p) == i \in DOMAIN d[h] /\ d[h][i].type = "Command" /\ d[h][i].to = p
RelAt(d, i, p) == /\ i \in DOMAIN d[p[1]] /\ d[p[1]][i].type = "Release"
                  /\ d[p[1]][i].ran = p[2]
NotAt(u, h, i) == i \in DOMAIN u[h] /\ u[h][i].type = "Notify"

\* A place that the UE does not use, nor does the AMF think so.
Spare(c, pl, kn, p) == p \in c /\ p # pl /\ p # kn

\* At most one notification is under way: while it is, the AMF's idea of the UE is
\* behind; otherwise it is right.
NotifyInv(u, pl, kn) ==
    /\ \A h \in Gnbs : \A i \in Nat : NotAt(u, h, i) => pl = <<h, u[h][i].ran>> /\ kn # pl
    /\ \A h \in Gnbs : \A i, j \in Nat : NotAt(u, h, i) /\ NotAt(u, h, j) => i = j
    /\ kn = pl \/ \E h \in Gnbs, i \in Nat : NotAt(u, h, i)

\* A context that a target has set aside is offered once, by the acknowledgement or by
\* the command, and is nobody's yet.
OneOffer(u, d, c, pl, kn, p) ==
    /\ \A i, j \in Nat : AckAt(u, i, p) /\ AckAt(u, j, p) => i = j
    /\ \A h, k \in Gnbs : \A i, j \in Nat :
         CmdAt(d, h, i, p) /\ CmdAt(d, k, j, p) => h = k /\ i = j
    /\ \A h \in Gnbs : \A i, j \in Nat : ~ (AckAt(u, i, p) /\ CmdAt(d, h, j, p))
    /\ \A i \in Nat : AckAt(u, i, p) =>
         Spare(c, pl, kn, p) /\ \A j \in Nat : ~ RelAt(d, j, p)
    /\ \A h \in Gnbs : \A i \in Nat : CmdAt(d, h, i, p) =>
         Spare(c, pl, kn, p) /\ \A j \in Nat : ~ RelAt(d, j, p)
OfferInv(u, d, c, pl, kn) == \A p \in Places : OneOffer(u, d, c, pl, kn, p)

\* A context that is to be released is released once, and the UE has left it.
ReleaseInv(d, c, pl, kn) == \A p \in Places :
    /\ \A i, j \in Nat : RelAt(d, i, p) /\ RelAt(d, j, p) => i = j
    /\ \A i \in Nat : RelAt(d, i, p) => Spare(c, pl, kn, p)

\* A command names the place that the AMF knows, unless the release of the place that it
\* names comes behind it.
CommandInv(d, kn) == \A p \in Places, h \in Gnbs : \A i \in Nat : CmdAt(d, h, i, p) =>
    \/ <<h, d[h][i].ran>> = kn
    \/ \E j \in Nat : i < j /\ RelAt(d, j, <<h, d[h][i].ran>>)

UeInv(u, d, c, pl, kn, rm) ==
    /\ pl \in c /\ kn \in c /\ kn[2] \in rm
    /\ NotifyInv(u, pl, kn) /\ OfferInv(u, d, c, pl, kn)
    /\ ReleaseInv(d, c, pl, kn) /\ CommandInv(d, kn)

\* Queues that differ by a lost head, or by a message behind the others.
PopOf(q, r, g) ==
    /\ \A h \in Gnbs : h # g => r[h] = q[h]
    /\ \A i \in Nat : i \in DOMAIN r[g] =>
         i # 0 /\ i + 1 \in DOMAIN q[g] /\ r[g][i] = q[g][i + 1]
    /\ \A j \in Nat : j \in DOMAIN q[g] /\ j # 1 =>
         j - 1 \in Nat /\ j - 1 \in DOMAIN r[g] /\ r[g][j - 1] = q[g][j]
PushOf(q, r, g, m, l) ==
    /\ \A h \in Gnbs : h # g => r[h] = q[h]
    /\ l \in Nat /\ l \in DOMAIN r[g] /\ r[g][l] = m
    /\ \A i \in Nat :
         /\ i \in DOMAIN r[g] => (i \in DOMAIN q[g] /\ r[g][i] = q[g][i]) \/ i = l
         /\ i \in DOMAIN q[g] => i \in DOMAIN r[g] /\ r[g][i] = q[g][i] /\ i < l

LEMMA PopIs ==
    ASSUME NEW S, NEW q \in [Gnbs -> Seq(S)], NEW g \in Gnbs, q[g] # <<>>
    PROVE  PopOf(q, [q EXCEPT ![g] = Tail(@)], g)
<1>. DEFINE r == [q EXCEPT ![g] = Tail(@)]
<1>1. \A h \in Gnbs : h # g => r[h] = q[h]
  OBVIOUS
<1>2. /\ r[g] = Tail(q[g]) /\ Len(q[g]) \in Nat /\ Len(r[g]) \in Nat
      /\ Len(q[g]) = Len(r[g]) + 1 /\ DOMAIN q[g] = 1..Len(q[g])
      /\ DOMAIN r[g] = 1..Len(r[g])
      /\ \A i \in 1..Len(r[g]) : r[g][i] = q[g][i + 1]
  <2>1. q[g] \in Seq(S) /\ r[g] = Tail(q[g])
    OBVIOUS
  <2>. HIDE DEF r
  <2>2. r[g] \in Seq(S)
    BY <2>1, Popped
  <2>. QED  BY <2>1, <2>2, Popped
<1>. HIDE DEF r
<1>3. \A j \in 1..Len(q[g]) : j # 1 => j - 1 \in 1..Len(r[g]) /\ r[g][j - 1] = q[g][j]
  <2>1. \A j \in 1..Len(q[g]) : j # 1 => j - 1 \in 1..Len(r[g]) /\ (j - 1) + 1 = j
    BY <1>2
  <2>. QED  BY <1>2, <2>1
<1>4. PopOf(q, r, g)
  BY <1>1, <1>2, <1>3 DEF PopOf
<1>. QED  BY <1>4 DEF r

LEMMA PushIs ==
    ASSUME NEW S, NEW q \in [Gnbs -> Seq(S)], NEW g \in Gnbs, NEW m \in S
    PROVE  PushOf(q, [q EXCEPT ![g] = Append(@, m)], g, m, Len(q[g]) + 1)
<1>. DEFINE r == [q EXCEPT ![g] = Append(@, m)]
<1>1. \A h \in Gnbs : h # g => r[h] = q[h]
  OBVIOUS
<1>2. /\ Len(q[g]) \in Nat /\ Len(r[g]) = Len(q[g]) + 1
      /\ DOMAIN q[g] = 1..Len(q[g]) /\ DOMAIN r[g] = 1..Len(r[g])
      /\ \A i \in 1..Len(q[g]) : r[g][i] = q[g][i]
      /\ r[g][Len(q[g]) + 1] = m
  <2>1. q[g] \in Seq(S) /\ r[g] = Append(q[g], m)
    OBVIOUS
  <2>. HIDE DEF r
  <2>2. r[g] \in Seq(S)
    BY <2>1, Pushed
  <2>. QED  BY <2>1, <2>2, Pushed
<1>. HIDE DEF r
<1>3. PushOf(q, r, g, m, Len(q[g]) + 1)
  BY <1>1, <1>2 DEF PushOf
<1>. QED  BY <1>3 DEF r

\* The messages of w and e that matter are those of u and d, in their places up to a
\* shift, and notifications and releases are not lost.
Frame(u, d, w, e, s, t) == \A h \in Gnbs :
    /\ s[h] \in Nat /\ t[h] \in Nat
    /\ \A i \in Nat :
         /\ i \in DOMAIN w[h] /\ w[h][i].type \in {"Ack", "Notify"} =>
              i + s[h] \in DOMAIN u[h] /\ w[h][i] = u[h][i + s[h]]
         /\ i \in DOMAIN e[h] /\ e[h][i].type \in {"Command", "Release"} =>
              i + t[h] \in DOMAIN d[h] /\ e[h][i] = d[h][i + t[h]]
         /\ i \in DOMAIN u[h] /\ u[h][i].type = "Notify" =>
              \E j \in Nat : j \in DOMAIN w[h] /\ w[h][j] = u[h][i]
         /\ i \in DOMAIN d[h] /\ d[h][i].type = "Release" =>
              \E j \in Nat : j \in DOMAIN e[h] /\ e[h][j] = d[h][i] /\ i = j + t[h]

LEMMA FrameKeeps ==
    ASSUME NEW u, NEW d, NEW w, NEW e, NEW s, NEW t, NEW c, NEW pl, NEW kn, NEW rm,
           Frame(u, d, w, e, s, t), UeInv(u, d, c, pl, kn, rm)
    PROVE  UeInv(w, e, c, pl, kn, rm)
<1>. \A p \in Places : p[1] \in Gnbs
  BY DEF Places
<1>1. \A h \in Gnbs : s[h] \in Nat /\ t[h] \in Nat
  BY DEF Frame
<1>2. \A h \in Gnbs : \A i \in Nat :
         NotAt(w, h, i) => i + s[h] \in Nat /\ NotAt(u, h, i + s[h])
                           /\ u[h][i + s[h]] = w[h][i]
  BY DEF Frame, NotAt
<1>3. \A p \in Places : \A i \in Nat :
         AckAt(w, i, p) => i + s[p[1]] \in Nat /\ AckAt(u, i + s[p[1]], p)
  BY DEF Frame, AckAt
<1>4. \A p \in Places : \A i \in Nat :
         RelAt(e, i, p) => i + t[p[1]] \in Nat /\ RelAt(d, i + t[p[1]], p)
  BY DEF Frame, RelAt
<1>5. \A p \in Places, h \in Gnbs : \A i \in Nat :
         CmdAt(e, h, i, p) => i + t[h] \in Nat /\ CmdAt(d, h, i + t[h], p)
                              /\ d[h][i + t[h]] = e[h][i]
  BY DEF Frame, CmdAt
<1>. \A i, j \in Nat, n \in Nat : i + n = j + n => i = j
  OBVIOUS
<1>6. NotifyInv(w, pl, kn)
  <2>1. NotifyInv(u, pl, kn)
    BY DEF UeInv
  <2>2. \A h \in Gnbs : \A i \in Nat : NotAt(w, h, i) => pl = <<h, w[h][i].ran>> /\ kn # pl
    BY <1>2, <2>1 DEF NotifyInv
  <2>3. \A h \in Gnbs : \A i, j \in Nat : NotAt(w, h, i) /\ NotAt(w, h, j) => i = j
    <3>. TAKE h \in Gnbs
    <3>. TAKE i, j \in Nat
    <3>. HAVE NotAt(w, h, i) /\ NotAt(w, h, j)
    <3>1. i + s[h] = j + s[h]
      BY <1>2, <2>1 DEF NotifyInv
    <3>. QED  BY <1>1, <3>1
  <2>4. \A h \in Gnbs, i \in Nat : NotAt(u, h, i) => \E j \in Nat : NotAt(w, h, j)
    BY DEF Frame, NotAt
  <2>. QED  BY <2>1, <2>2, <2>3, <2>4 DEF NotifyInv
<1>7. OfferInv(w, e, c, pl, kn)
  <2>. SUFFICES ASSUME NEW p \in Places
                PROVE OneOffer(w, e, c, pl, kn, p)
    BY DEF OfferInv
  <2>. OfferInv(u, d, c, pl, kn)
    BY DEF UeInv
  <2>1. ASSUME NEW i \in Nat, NEW j \in Nat, AckAt(w, i, p), AckAt(w, j, p)
        PROVE  i = j
    <3>1. i + s[p[1]] = j + s[p[1]]
      BY <1>3, <2>1 DEF OfferInv, OneOffer
    <3>. QED  BY <1>1, <3>1
  <2>2. ASSUME NEW h \in Gnbs, NEW k \in Gnbs, NEW i \in Nat, NEW j \in Nat,
               CmdAt(e, h, i, p), CmdAt(e, k, j, p)
        PROVE  h = k /\ i = j
    <3>1. h = k /\ i + t[h] = j + t[k]
      BY <1>5, <2>2 DEF OfferInv, OneOffer
    <3>. QED  BY <1>1, <3>1
  <2>3. \A h \in Gnbs : \A i, j \in Nat : ~ (AckAt(w, i, p) /\ CmdAt(e, h, j, p))
    BY <1>3, <1>5 DEF OfferInv, OneOffer
  <2>4. \A i \in Nat : AckAt(w, i, p) =>
           Spare(c, pl, kn, p) /\ \A j \in Nat : ~ RelAt(e, j, p)
    BY <1>3, <1>4 DEF OfferInv, OneOffer
  <2>5. \A h \in Gnbs : \A i \in Nat : CmdAt(e, h, i, p) =>
           Spare(c, pl, kn, p) /\ \A j \in Nat : ~ RelAt(e, j, p)
    BY <1>4, <1>5 DEF OfferInv, OneOffer
  <2>. QED  BY <2>1, <2>2, <2>3, <2>4, <2>5 DEF OneOffer
<1>8. ReleaseInv(e, c, pl, kn)
  <2>. SUFFICES ASSUME NEW p \in Places
                PROVE /\ \A i, j \in Nat : RelAt(e, i, p) /\ RelAt(e, j, p) => i = j
                      /\ \A i \in Nat : RelAt(e, i, p) => Spare(c, pl, kn, p)
    BY DEF ReleaseInv
  <2>. ReleaseInv(d, c, pl, kn)
    BY DEF UeInv
  <2>1. ASSUME NEW i \in Nat, NEW j \in Nat, RelAt(e, i, p), RelAt(e, j, p)
        PROVE  i = j
    <3>1. i + t[p[1]] = j + t[p[1]]
      BY <1>4, <2>1 DEF ReleaseInv
    <3>. QED  BY <1>1, <3>1
  <2>. QED  BY <1>4, <2>1 DEF ReleaseInv
<1>9. CommandInv(e, kn)
  <2>. SUFFICES ASSUME NEW p \in Places, NEW h \in Gnbs, NEW i \in Nat, CmdAt(e, h, i, p),
                       <<h, e[h][i].ran>> # kn
                PROVE  \E j \in Nat : i < j /\ RelAt(e, j, <<h, e[h][i].ran>>)
    BY DEF CommandInv
  <2>. DEFINE q == <<h, e[h][i].ran>>
  <2>1. PICK k \in Nat : i + t[h] < k /\ RelAt(d, k, q)
    BY <1>5 DEF UeInv, CommandInv
  <2>2. k \in DOMAIN d[h] /\ d[h][k].type = "Release" /\ d[h][k].ran = e[h][i].ran
    BY <2>1 DEF RelAt
  <2>3. PICK j \in Nat : j \in DOMAIN e[h] /\ e[h][j] = d[h][k] /\ k = j + t[h]
    BY <2>2 DEF Frame
  <2>4. i < j
    BY <1>1, <2>1, <2>3
  <2>5. RelAt(e, j, q)
    BY <2>2, <2>3 DEF RelAt
  <2>. QED  BY <2>4, <2>5
<1>. QED  BY <1>6, <1>7, <1>8, <1>9 DEF UeInv

LEMMA PopUpKeeps ==
    ASSUME NEW u, NEW d, NEW w, NEW c, NEW pl, NEW kn, NEW rm, NEW g \in Gnbs,
           PopOf(u, w, g), u[g][1].type # "Notify", UeInv(u, d, c, pl, kn, rm)
    PROVE  UeInv(w, d, c, pl, kn, rm)
<1>. DEFINE s == [h \in Gnbs |-> IF h = g THEN 1 ELSE 0]
            t == [h \in Gnbs |-> 0]
<1>1. Frame(u, d, w, d, s, t)
  BY DEF PopOf, Frame
<1>. HIDE DEF s, t
<1>. QED  BY <1>1, FrameKeeps

LEMMA PopDownKeeps ==
    ASSUME NEW u, NEW d, NEW e, NEW c, NEW pl, NEW kn, NEW rm, NEW g \in Gnbs,
           PopOf(d, e, g), d[g][1].type # "Release", UeInv(u, d, c, pl, kn, rm)
    PROVE  UeInv(u, e, c, pl, kn, rm)
<1>. DEFINE s == [h \in Gnbs |-> 0]
            t == [h \in Gnbs |-> IF h = g THEN 1 ELSE 0]
<1>0. \A j \in Nat : j - 1 \in Nat => j = (j - 1) + 1
  OBVIOUS
<1>1. Frame(u, d, u, e, s, t)
  BY <1>0 DEF PopOf, Frame
<1>. HIDE DEF s, t
<1>. QED  BY <1>1, FrameKeeps

LEMMA PushUpKeeps ==
    ASSUME NEW u, NEW d, NEW w, NEW c, NEW pl, NEW kn, NEW rm, NEW g \in Gnbs, NEW m, NEW l,
           PushOf(u, w, g, m, l), m.type \notin {"Ack", "Notify"}, UeInv(u, d, c, pl, kn, rm)
    PROVE  UeInv(w, d, c, pl, kn, rm)
<1>. DEFINE s == [h \in Gnbs |-> 0]
<1>1. Frame(u, d, w, d, s, s)
  BY DEF PushOf, Frame
<1>. HIDE DEF s
<1>. QED  BY <1>1, FrameKeeps

LEMMA PushDownKeeps ==
    ASSUME NEW u, NEW d, NEW e, NEW c, NEW pl, NEW kn, NEW rm, NEW g \in Gnbs, NEW m, NEW l,
           PushOf(d, e, g, m, l), m.type \notin {"Command", "Release"},
           UeInv(u, d, c, pl, kn, rm)
    PROVE  UeInv(u, e, c, pl, kn, rm)
<1>. DEFINE s == [h \in Gnbs |-> 0]
<1>1. Frame(u, d, u, e, s, s)
  BY DEF PushOf, Frame
<1>. HIDE DEF s
<1>. QED  BY <1>1, FrameKeeps

\* A place that nobody uses and that no message offers or releases.
Unbound(u, d, c, pl, kn, p) ==
    /\ Spare(c, pl, kn, p)
    /\ \A i \in Nat : ~ AckAt(u, i, p) /\ ~ RelAt(d, i, p)
    /\ \A h \in Gnbs : \A i \in Nat : ~ CmdAt(d, h, i, p)

\* The offer that is taken from its queue was the only one.
LEMMA AckTaken ==
    ASSUME NEW u, NEW d, NEW w, NEW c, NEW pl, NEW kn, NEW rm, NEW p \in Places,
           PopOf(u, w, p[1]), AckAt(u, 1, p), UeInv(u, d, c, pl, kn, rm)
    PROVE  Unbound(w, d, c, pl, kn, p)
<1>1. OfferInv(u, d, c, pl, kn) /\ p[1] \in Gnbs
  BY DEF UeInv, Places
<1>2. ASSUME NEW i \in Nat, AckAt(w, i, p) PROVE FALSE
  <2>1. i # 0 /\ AckAt(u, i + 1, p)
    BY <1>2 DEF AckAt, PopOf
  <2>2. i + 1 = 1
    BY <1>1, <2>1 DEF OfferInv, OneOffer
  <2>. QED  BY <2>1, <2>2
<1>. QED  BY <1>1, <1>2 DEF OfferInv, OneOffer, Unbound

LEMMA CommandTaken ==
    ASSUME NEW u, NEW d, NEW e, NEW c, NEW pl, NEW kn, NEW rm, NEW p \in Places,
           NEW g \in Gnbs, PopOf(d, e, g), CmdAt(d, g, 1, p), UeInv(u, d, c, pl, kn, rm)
    PROVE  Unbound(u, e, c, pl, kn, p)
<1>1. OfferInv(u, d, c, pl, kn) /\ p[1] \in Gnbs
  BY DEF UeInv, Places
<1>2. ASSUME NEW h \in Gnbs, NEW i \in Nat, CmdAt(e, h, i, p) PROVE FALSE
  <2>1. CASE h = g
    <3>1. i # 0 /\ CmdAt(d, g, i + 1, p)
      BY <1>2, <2>1 DEF CmdAt, PopOf
    <3>2. i + 1 = 1
      BY <1>1, <3>1 DEF OfferInv, OneOffer
    <3>. QED  BY <3>1, <3>2
  <2>2. CASE h # g
    BY <1>1, <1>2, <2>2 DEF CmdAt, PopOf, OfferInv, OneOffer
  <2>. QED  BY <2>1, <2>2
<1>3. ASSUME NEW i \in Nat, RelAt(e, i, p) PROVE FALSE
  <2>1. RelAt(d, i, p) \/ RelAt(d, i + 1, p)
    BY <1>1, <1>3 DEF RelAt, PopOf
  <2>. QED  BY <1>1, <2>1 DEF OfferInv, OneOffer
<1>. QED  BY <1>1, <1>2, <1>3 DEF OfferInv, OneOffer, Unbound

\* A target sets a context aside and offers it.
LEMMA Offered ==
    ASSUME NEW u, NEW d, NEW w, NEW c, NEW pl, NEW kn, NEW rm, NEW p \in Places, NEW m, NEW l,
           PushOf(u, w, p[1], m, l), m.type = "Ack", m.ran = p[2], p \notin c,
           UeInv(u, d, c, pl, kn, rm)
    PROVE  UeInv(w, d, c \cup {p}, pl, kn, rm)
<1>. OfferInv(u, d, c, pl, kn) /\ \A q \in Places : q[1] \in Gnbs /\ q = <<q[1], q[2]>>
  BY DEF UeInv, Places
<1>1. \A q \in Places : \A i \in Nat : AckAt(w, i, q) => AckAt(u, i, q) \/ (q = p /\ i = l)
  BY DEF PushOf, AckAt
<1>2. Unbound(u, d, c \cup {p}, pl, kn, p)
  BY DEF UeInv, OfferInv, OneOffer, ReleaseInv, Spare, Unbound
<1>3. \A q \in Places : Spare(c, pl, kn, q) => Spare(c \cup {p}, pl, kn, q)
  BY DEF Spare
<1>4. OfferInv(w, d, c \cup {p}, pl, kn)
  <2>. SUFFICES ASSUME NEW q \in Places
                PROVE OneOffer(w, d, c \cup {p}, pl, kn, q)
    BY DEF OfferInv
  <2>1. CASE q = p
    BY <1>1, <1>2, <2>1 DEF Unbound, OneOffer
  <2>2. CASE q # p
    BY <1>1, <1>3, <2>2 DEF OfferInv, OneOffer
  <2>. QED  BY <2>1, <2>2
<1>5. NotifyInv(w, pl, kn)
  <2>1. \A h \in Gnbs : \A i \in Nat : NotAt(w, h, i) <=> NotAt(u, h, i)
    BY DEF PushOf, NotAt
  <2>2. \A h \in Gnbs : \A i \in Nat : NotAt(w, h, i) => w[h][i] = u[h][i]
    BY DEF PushOf, NotAt
  <2>. QED  BY <2>1, <2>2 DEF UeInv, NotifyInv
<1>6. ReleaseInv(d, c \cup {p}, pl, kn)
  BY <1>3 DEF UeInv, ReleaseInv
<1>. QED  BY <1>4, <1>5, <1>6 DEF UeInv

\* The AMF passes the offer on to the gNB that it knows the UE at.
LEMMA Commanded ==
    ASSUME NEW u, NEW d, NEW e, NEW c, NEW pl, NEW kn \in Places, NEW rm, NEW p \in Places,
           NEW m, NEW l, PushOf(d, e, kn[1], m, l), m.type = "Command", m.ran = kn[2],
           m.to = p, Unbound(u, d, c, pl, kn, p), UeInv(u, d, c, pl, kn, rm)
    PROVE  UeInv(u, e, c, pl, kn, rm)
<1>. /\ OfferInv(u, d, c, pl, kn) /\ \A q \in Places : q[1] \in Gnbs /\ q = <<q[1], q[2]>>
     /\ CommandInv(d, kn)
  BY DEF UeInv, Places
<1>1. \A q \in Places, h \in Gnbs : \A i \in Nat : CmdAt(e, h, i, q) =>
        \/ CmdAt(d, h, i, q) /\ e[h][i] = d[h][i]
        \/ q = p /\ h = kn[1] /\ i = l /\ e[h][i] = m
  BY DEF PushOf, CmdAt
<1>2. \A q \in Places : \A i \in Nat : RelAt(e, i, q) => RelAt(d, i, q)
  BY DEF PushOf, RelAt
<1>3. OfferInv(u, e, c, pl, kn)
  <2>. SUFFICES ASSUME NEW q \in Places
                PROVE OneOffer(u, e, c, pl, kn, q)
    BY DEF OfferInv
  <2>1. CASE q = p
    BY <1>1, <1>2, <2>1 DEF Unbound, OneOffer
  <2>2. CASE q # p
    BY <1>1, <1>2, <2>2 DEF OfferInv, OneOffer
  <2>. QED  BY <2>1, <2>2
<1>4. ReleaseInv(e, c, pl, kn)
  BY <1>2 DEF UeInv, ReleaseInv
<1>5. CommandInv(e, kn)
  <2>1. \A h \in Gnbs : \A r : \A i \in Nat : RelAt(d, i, <<h, r>>) => RelAt(e, i, <<h, r>>)
    BY DEF PushOf, RelAt
  <2>. SUFFICES ASSUME NEW q \in Places, NEW h \in Gnbs, NEW i \in Nat, CmdAt(e, h, i, q),
                       <<h, e[h][i].ran>> # kn
                PROVE  \E j \in Nat : i < j /\ RelAt(e, j, <<h, e[h][i].ran>>)
    BY DEF CommandInv
  <2>2. CmdAt(d, h, i, q) /\ e[h][i] = d[h][i]
    BY <1>1
  <2>. QED  BY <2>1, <2>2 DEF CommandInv
<1>. QED  BY <1>3, <1>4, <1>5 DEF UeInv

\* The UE moves to a place that nobody else uses; the notification is on its way.
LEMMA Moves ==
    ASSUME NEW u, NEW d, NEW w, NEW c, NEW pl, NEW rm, NEW p \in Places, NEW m, NEW l,
           PushOf(u, w, p[1], m, l), m.type = "Notify", m.ran = p[2],
           Unbound(u, d, c, pl, pl, p), UeInv(u, d, c, pl, pl, rm)
    PROVE  UeInv(w, d, c, p, pl, rm)
<1>. /\ OfferInv(u, d, c, pl, pl) /\ \A q \in Places : q[1] \in Gnbs /\ q = <<q[1], q[2]>>
     /\ p \in c /\ p # pl
  BY DEF UeInv, Places, Unbound, Spare
<1>1. NotifyInv(w, p, pl)
  <2>1. \A h \in Gnbs : \A i \in Nat : NotAt(w, h, i) => h = p[1] /\ i = l /\ w[h][i] = m
    BY DEF PushOf, NotAt, UeInv, NotifyInv
  <2>2. l \in Nat /\ NotAt(w, p[1], l)
    BY DEF PushOf, NotAt
  <2>. QED  BY <2>1, <2>2 DEF NotifyInv
<1>2. \A q \in Places : \A i \in Nat : AckAt(w, i, q) => AckAt(u, i, q)
  BY DEF PushOf, AckAt
<1>3. \A q \in Places : q # p /\ Spare(c, pl, pl, q) => Spare(c, p, pl, q)
  BY DEF Spare
<1>4. OfferInv(w, d, c, p, pl)
  <2>. SUFFICES ASSUME NEW q \in Places
                PROVE OneOffer(w, d, c, p, pl, q)
    BY DEF OfferInv
  <2>1. CASE q = p
    BY <1>2, <2>1 DEF Unbound, OneOffer
  <2>2. CASE q # p
    BY <1>2, <1>3, <2>2 DEF OfferInv, OneOffer
  <2>. QED  BY <2>1, <2>2
<1>5. ReleaseInv(d, c, p, pl)
  <2>. SUFFICES ASSUME NEW q \in Places
                PROVE /\ \A i, j \in Nat : RelAt(d, i, q) /\ RelAt(d, j, q) => i = j
                      /\ \A i \in Nat : RelAt(d, i, q) => Spare(c, p, pl, q)
    BY DEF ReleaseInv
  <2>. QED  BY <1>3 DEF UeInv, ReleaseInv, Unbound
<1>. QED  BY <1>1, <1>4, <1>5 DEF UeInv

\* The AMF learns where the UE is, and releases the place that it knew.
LEMMA Notified ==
    ASSUME NEW u, NEW d, NEW w, NEW e, NEW c, NEW pl \in Places, NEW kn \in Places, NEW rm,
           NEW g \in Gnbs, NEW m, NEW l, NotAt(u, g, 1), PopOf(u, w, g),
           PushOf(d, e, kn[1], m, l), m.type = "Release", m.ran = kn[2],
           UeInv(u, d, c, pl, kn, rm)
    PROVE  pl = <<g, u[g][1].ran>> /\ UeInv(w, e, c, pl, pl, rm \cup {pl[2]})
<1>. /\ OfferInv(u, d, c, pl, kn) /\ \A q \in Places : q[1] \in Gnbs /\ q = <<q[1], q[2]>>
     /\ ReleaseInv(d, c, pl, kn) /\ CommandInv(d, kn) /\ NotifyInv(u, pl, kn)
  BY DEF UeInv, Places
<1>1. pl = <<g, u[g][1].ran>> /\ pl # kn
  BY DEF NotifyInv
<1>2. ASSUME NEW h \in Gnbs, NEW i \in Nat, NotAt(w, h, i) PROVE FALSE
  <2>1. CASE h = g
    <3>1. i # 0 /\ NotAt(u, g, i + 1)
      BY <1>2, <2>1 DEF NotAt, PopOf
    <3>2. i + 1 = 1
      BY <3>1 DEF NotifyInv
    <3>. QED  BY <3>1, <3>2
  <2>2. CASE h # g
    <3>1. pl = <<h, u[h][i].ran>>
      BY <1>2, <2>2 DEF NotAt, PopOf, NotifyInv
    <3>. QED  BY <1>1, <2>2, <3>1
  <2>. QED  BY <2>1, <2>2
<1>3. NotifyInv(w, pl, pl)
  BY <1>2 DEF NotifyInv
<1>4. \A q \in Places : \A i \in Nat : AckAt(w, i, q) => AckAt(u, i, q) \/ AckAt(u, i + 1, q)
  BY DEF PopOf, AckAt
<1>5. \A q \in Places, h \in Gnbs : \A i \in Nat :
        CmdAt(e, h, i, q) => CmdAt(d, h, i, q) /\ e[h][i] = d[h][i]
  BY DEF PushOf, CmdAt
<1>6. \A q \in Places : \A i \in Nat : RelAt(e, i, q) => RelAt(d, i, q) \/ (q = kn /\ i = l)
  BY DEF PushOf, RelAt
<1>7. \A q \in Places : Spare(c, pl, kn, q) => Spare(c, pl, pl, q) /\ q # kn
  BY DEF Spare
<1>8. OfferInv(w, e, c, pl, pl)
  <2>. SUFFICES ASSUME NEW q \in Places
                PROVE OneOffer(w, e, c, pl, pl, q)
    BY DEF OfferInv
  <2>1. ASSUME NEW i \in Nat, NEW j \in Nat, AckAt(w, i, q), AckAt(w, j, q)
        PROVE  i = j
    <3>1. CASE q[1] = g
      <4>1. AckAt(u, i + 1, q) /\ AckAt(u, j + 1, q)
        BY <2>1, <3>1 DEF PopOf, AckAt
      <4>2. i + 1 = j + 1
        BY <4>1 DEF OfferInv, OneOffer
      <4>. QED  BY <4>2
    <3>2. CASE q[1] # g
      BY <2>1, <3>2 DEF PopOf, AckAt, OfferInv, OneOffer
    <3>. QED  BY <3>1, <3>2
  <2>2. \A h, k \in Gnbs : \A i, j \in Nat :
           CmdAt(e, h, i, q) /\ CmdAt(e, k, j, q) => h = k /\ i = j
    BY <1>5 DEF OfferInv, OneOffer
  <2>3. \A h \in Gnbs : \A i, j \in Nat : ~ (AckAt(w, i, q) /\ CmdAt(e, h, j, q))
    BY <1>4, <1>5 DEF OfferInv, OneOffer
  <2>4. \A i \in Nat : AckAt(w, i, q) =>
          Spare(c, pl, pl, q) /\ \A j \in Nat : ~ RelAt(e, j, q)
    BY <1>4, <1>6, <1>7 DEF OfferInv, OneOffer
  <2>5. \A h \in Gnbs : \A i \in Nat : CmdAt(e, h, i, q) =>
          Spare(c, pl, pl, q) /\ \A j \in Nat : ~ RelAt(e, j, q)
    BY <1>5, <1>6, <1>7 DEF OfferInv, OneOffer
  <2>. QED  BY <2>1, <2>2, <2>3, <2>4, <2>5 DEF OneOffer
<1>9. ReleaseInv(e, c, pl, pl)
  <2>1. kn \in c
    BY DEF UeInv
  <2>2. Spare(c, pl, pl, kn)
    BY <1>1, <2>1 DEF Spare
  <2>. SUFFICES ASSUME NEW q \in Places
                PROVE /\ \A i, j \in Nat : RelAt(e, i, q) /\ RelAt(e, j, q) => i = j
                      /\ \A i \in Nat : RelAt(e, i, q) => Spare(c, pl, pl, q)
    BY DEF ReleaseInv
  <2>3. CASE q = kn
    BY <1>6, <1>7, <2>2, <2>3 DEF ReleaseInv
  <2>4. CASE q # kn
    BY <1>6, <1>7, <2>4 DEF ReleaseInv
  <2>. QED  BY <2>3, <2>4
<1>10. CommandInv(e, pl)
  <2>. SUFFICES ASSUME NEW q \in Places, NEW h \in Gnbs, NEW i \in Nat, CmdAt(e, h, i, q)
                PROVE  \E j \in Nat : i < j /\ RelAt(e, j, <<h, e[h][i].ran>>)
    BY DEF CommandInv
  <2>1. CmdAt(d, h, i, q) /\ e[h][i] = d[h][i]
    BY <1>5
  <2>2. CASE <<h, d[h][i].ran>> = kn
    <3>1. h = kn[1] /\ e[h][i].ran = kn[2] /\ i \in DOMAIN d[h]
      BY <2>1, <2>2 DEF CmdAt
    <3>2. l \in Nat /\ i < l /\ RelAt(e, l, <<h, e[h][i].ran>>)
      BY <3>1 DEF PushOf, RelAt
    <3>. QED  BY <3>2
  <2>3. CASE <<h, d[h][i].ran>> # kn
    <3>1. PICK j \in Nat : i < j /\ RelAt(d, j, <<h, d[h][i].ran>>)
      BY <2>1, <2>3 DEF CommandInv
    <3>2. RelAt(e, j, <<h, e[h][i].ran>>)
      BY <2>1, <3>1 DEF PushOf, RelAt
    <3>. QED  BY <3>1, <3>2
  <2>. QED  BY <2>2, <2>3
<1>11. pl \in c
  BY DEF UeInv
<1>. QED  BY <1>1, <1>3, <1>8, <1>9, <1>10, <1>11 DEF UeInv

\* A gNB releases a context.
LEMMA Released ==
    ASSUME NEW u, NEW d, NEW e, NEW c, NEW pl, NEW kn, NEW rm, NEW p \in Places,
           PopOf(d, e, p[1]), RelAt(d, 1, p), UeInv(u, d, c, pl, kn, rm)
    PROVE  p # pl /\ UeInv(u, e, c \ {p}, pl, kn, rm)
<1>. /\ OfferInv(u, d, c, pl, kn) /\ \A q \in Places : q[1] \in Gnbs /\ q = <<q[1], q[2]>>
     /\ ReleaseInv(d, c, pl, kn) /\ CommandInv(d, kn)
  BY DEF UeInv, Places
<1>1. p # pl /\ p # kn
  BY DEF ReleaseInv, Spare
<1>2. \A q \in Places : q # p /\ Spare(c, pl, kn, q) => Spare(c \ {p}, pl, kn, q)
  BY DEF Spare
<1>3. \A q \in Places : \A i \in Nat : RelAt(e, i, q) =>
        \/ i # 0 /\ q[1] = p[1] /\ RelAt(d, i + 1, q)
        \/ q[1] # p[1] /\ RelAt(d, i, q)
  BY DEF PopOf, RelAt
<1>4. \A q \in Places, h \in Gnbs : \A i \in Nat : CmdAt(e, h, i, q) =>
        \/ h = p[1] /\ CmdAt(d, h, i + 1, q) /\ e[h][i] = d[h][i + 1]
        \/ h # p[1] /\ CmdAt(d, h, i, q) /\ e[h][i] = d[h][i]
  BY DEF PopOf, CmdAt
<1>5. \A i \in Nat : ~ RelAt(e, i, p)
  <2>1. \A i \in Nat : RelAt(e, i, p) => i # 0 /\ i + 1 = 1
    BY <1>3 DEF ReleaseInv
  <2>. QED  BY <2>1
<1>6. OfferInv(u, e, c \ {p}, pl, kn)
  <2>. SUFFICES ASSUME NEW q \in Places
                PROVE OneOffer(u, e, c \ {p}, pl, kn, q)
    BY DEF OfferInv
  <2>1. CASE q = p
    BY <1>4, <2>1 DEF OfferInv, OneOffer
  <2>2. CASE q # p
    <3>1. ASSUME NEW h \in Gnbs, NEW k \in Gnbs, NEW i \in Nat, NEW j \in Nat,
                 CmdAt(e, h, i, q), CmdAt(e, k, j, q)
          PROVE  h = k /\ i = j
      <4>1. h = k
        BY <1>4, <3>1 DEF OfferInv, OneOffer
      <4>2. CASE h = p[1]
        <5>1. i + 1 = j + 1
          BY <1>4, <3>1, <4>1, <4>2 DEF OfferInv, OneOffer
        <5>. QED  BY <4>1, <5>1
      <4>3. CASE h # p[1]
        BY <1>4, <3>1, <4>1, <4>3 DEF OfferInv, OneOffer
      <4>. QED  BY <4>2, <4>3
    <3>2. \A h \in Gnbs : \A i, j \in Nat : ~ (AckAt(u, i, q) /\ CmdAt(e, h, j, q))
      BY <1>4 DEF OfferInv, OneOffer
    <3>3. \A i \in Nat : AckAt(u, i, q) =>
            Spare(c \ {p}, pl, kn, q) /\ \A j \in Nat : ~ RelAt(e, j, q)
      BY SMTT(40), <1>2, <1>3, <2>2 DEF OfferInv, OneOffer
    <3>4. ASSUME NEW h \in Gnbs, NEW i \in Nat, CmdAt(e, h, i, q)
          PROVE  Spare(c \ {p}, pl, kn, q) /\ \A j \in Nat : ~ RelAt(e, j, q)
      <4>1. \E k \in Nat : CmdAt(d, h, k, q)
        BY <1>4, <3>4
      <4>2. Spare(c, pl, kn, q) /\ \A j \in Nat : ~ RelAt(d, j, q)
        BY <4>1 DEF OfferInv, OneOffer
      <4>. QED  BY <1>2, <1>3, <2>2, <4>2
    <3>5. \A i, j \in Nat : AckAt(u, i, q) /\ AckAt(u, j, q) => i = j
      BY DEF OfferInv, OneOffer
    <3>. QED  BY <3>1, <3>2, <3>3, <3>4, <3>5 DEF OneOffer
  <2>. QED  BY <2>1, <2>2
<1>7. ReleaseInv(e, c \ {p}, pl, kn)
  <2>. SUFFICES ASSUME NEW q \in Places
                PROVE /\ \A i, j \in Nat : RelAt(e, i, q) /\ RelAt(e, j, q) => i = j
                      /\ \A i \in Nat : RelAt(e, i, q) => Spare(c \ {p}, pl, kn, q)
    BY DEF ReleaseInv
  <2>1. ASSUME NEW i \in Nat, NEW j \in Nat, RelAt(e, i, q), RelAt(e, j, q)
        PROVE  i = j
    <3>1. i = j \/ i + 1 = j + 1
      BY <1>3, <2>1 DEF ReleaseInv
    <3>. QED  BY <3>1
  <2>. QED  BY <1>2, <1>3, <1>5, <2>1 DEF ReleaseInv
<1>8. CommandInv(e, kn)
  <2>. SUFFICES ASSUME NEW q \in Places, NEW h \in Gnbs, NEW i \in Nat, CmdAt(e, h, i, q),
                       <<h, e[h][i].ran>> # kn
                PROVE  \E j \in Nat : i < j /\ RelAt(e, j, <<h, e[h][i].ran>>)
    BY DEF CommandInv
  <2>1. CASE h = p[1]
    <3>1. PICK j \in Nat : i + 1 < j /\ RelAt(d, j, <<h, e[h][i].ran>>)
      BY <1>4, <2>1 DEF CommandInv
    <3>2. j # 1 /\ j - 1 \in Nat /\ i < j - 1
      BY <3>1
    <3>3. RelAt(e, j - 1, <<h, e[h][i].ran>>)
      BY <2>1, <3>1, <3>2 DEF PopOf, RelAt
    <3>. QED  BY <3>2, <3>3
  <2>2. CASE h # p[1]
    <3>1. PICK j \in Nat : i < j /\ RelAt(d, j, <<h, e[h][i].ran>>)
      BY <1>4, <2>2 DEF CommandInv
    <3>2. RelAt(e, j, <<h, e[h][i].ran>>)
      BY <2>2, <3>1 DEF PopOf, RelAt
    <3>. QED  BY <3>1, <3>2
  <2>. QED  BY <2>1, <2>2
<1>9. pl \in c \ {p} /\ kn \in c \ {p}
  BY <1>1 DEF UeInv
<1>. QED  BY <1>1, <1>6, <1>7, <1>8, <1>9 DEF UeInv

\* The place that the AMF knows, and the invariant of the steps.
Known == <<unc.gnb, unc.ran>>
HandoverInv == Typed /\ (usurped \/ UeInv(up, down, ctx, place, Known, ranMap))

LEMMA InitHandover == Init => HandoverInv
<1>. SUFFICES ASSUME Init PROVE UeInv(up, down, ctx, place, Known, ranMap)
  BY InitTyped DEF HandoverInv
<1>1. place \in Places /\ ctx = {place} /\ Known = place /\ ranMap = {place[2]}
  BY DEF Init, Known, Places
<1>2. \A h \in Gnbs : up[h] = <<>> /\ down[h] = <<>>
  BY DEF Init
<1>3. \A p \in Places : p[1] \in Gnbs
  BY DEF Places
<1>4. NotifyInv(up, place, Known)
  BY <1>1, <1>2 DEF NotifyInv, NotAt
<1>5. OfferInv(up, down, ctx, place, Known)
  BY <1>2, <1>3 DEF OfferInv, OneOffer, AckAt, CmdAt
<1>6. ReleaseInv(down, ctx, place, Known)
  BY <1>2, <1>3 DEF ReleaseInv, RelAt
<1>7. CommandInv(down, Known)
  BY <1>2 DEF CommandInv, CmdAt
<1>. QED  BY <1>1, <1>4, <1>5, <1>6, <1>7 DEF UeInv

\* How the links change.
LEMMA UpPopped ==
    ASSUME Typed, NEW g \in Gnbs, NEW type, Receive(g, type)
    PROVE  PopOf(up, up', g) /\ 1 \in DOMAIN up[g] /\ up[g][1].type = type
<1>1. up \in [Gnbs -> Seq(Msgs)]
  BY DEF Typed, TypeOK
<1>2. up[g] # <<>> /\ up' = [up EXCEPT ![g] = Tail(@)] /\ up[g][1].type = type
  BY Received
<1>3. up[g] \in Seq(Msgs) /\ 1 \in DOMAIN up[g]
  BY <1>1, <1>2
<1>4. PopOf(up, [up EXCEPT ![g] = Tail(@)], g)
  BY <1>1, <1>2, PopIs
<1>. QED  BY <1>2, <1>3, <1>4

LEMMA DownPopped ==
    ASSUME Typed, NEW g \in Gnbs, NEW type, Get(g, type)
    PROVE  PopOf(down, down', g) /\ 1 \in DOMAIN down[g] /\ down[g][1].type = type
<1>1. down \in [Gnbs -> Seq(Msgs)]
  BY DEF Typed, TypeOK
<1>2. down[g] # <<>> /\ down' = [down EXCEPT ![g] = Tail(@)] /\ down[g][1].type = type
  BY Gotten
<1>3. down[g] \in Seq(Msgs) /\ 1 \in DOMAIN down[g]
  BY <1>1, <1>2
<1>4. PopOf(down, [down EXCEPT ![g] = Tail(@)], g)
  BY <1>1, <1>2, PopIs
<1>. QED  BY <1>2, <1>3, <1>4

LEMMA UpPushed ==
    ASSUME Typed, NEW g \in Gnbs, NEW m \in Msgs, SendUp(g, m)
    PROVE  \E l : PushOf(up, up', g, m, l)
  BY PushIs DEF Typed, TypeOK, SendUp

LEMMA DownPushed ==
    ASSUME Typed, NEW g \in Gnbs, NEW m \in Msgs, SendDown(g, m)
    PROVE  \E l : PushOf(down, down', g, m, l)
  BY PushIs DEF Typed, TypeOK, SendDown

\* The AMF's steps.
LEMMA AmfKeeps ==
    ASSUME Typed, UeInv(up, down, ctx, place, Known, ranMap), NEW g \in Gnbs, AmfStep(g),
           ~ usurped'
    PROVE  UeInv(up', down', ctx', place', Known', ranMap')
<1>. DEFINE m == Head(up[g])
<1>. UncOK /\ Known \in Places /\ unc.gnb \in Gnbs /\ unc.ran \in RanIds
  BY TypeParts DEF Typed, UncOK, Known, Places
<1>. DownMsgs \subseteq Msgs
  BY MsgTypes
<1>1. ctx' = ctx /\ place' = place
  BY DEF AmfStep, RequiredRefused, RequiredForwarded, RequiredCrash, Ack, Notify,
         StatusTransfer, gnbVars
<1>2. ASSUME Known' = Known, ranMap' = ranMap,
             NEW type, Receive(g, type), type # "Notify",
             \/ down' = down
             \/ \E h \in Gnbs, n \in Msgs :
                  n.type \notin {"Command", "Release"} /\ SendDown(h, n)
      PROVE  UeInv(up', down', ctx', place', Known', ranMap')
  <2>1. UeInv(up', down, ctx, place, Known, ranMap)
    BY <1>2, UpPopped, PopUpKeeps
  <2>2. CASE down' = down
    BY <1>1, <1>2, <2>1, <2>2
  <2>3. ASSUME NEW h \in Gnbs, NEW n \in Msgs, n.type \notin {"Command", "Release"},
               SendDown(h, n)
        PROVE  UeInv(up', down', ctx', place', Known', ranMap')
    <3>1. PICK l : PushOf(down, down', h, n, l)
      BY <2>3, DownPushed
    <3>2. UeInv(up', down', ctx, place, Known, ranMap)
      BY <2>1, <2>3, <3>1, PushDownKeeps
    <3>. QED  BY <1>1, <1>2, <3>2
  <2>. QED  BY <1>2, <2>2, <2>3
<1>3. CASE RequiredRefused(g) \/ RequiredForwarded(g) \/ RequiredCrash(g)
  <2>1. Receive(g, "Required") /\ ranMap' = ranMap /\ unc.gnb = g
    BY <1>3 DEF RequiredRefused, RequiredForwarded, RequiredCrash, Note
  <2>2. Started(g) = [unc EXCEPT !.gnb = g, !.state = "NGAP_UE_HANDOVER"]
    BY DEF Started
  <2>3. \/ unc' = unc \/ unc' = Started(g)
        \/ unc' = [Started(g) EXCEPT !.target_gnb = m.to[1]]
    BY <1>3 DEF RequiredRefused, RequiredForwarded, RequiredCrash
  <2>4. unc'.gnb = unc.gnb /\ unc'.ran = unc.ran
    <3>1. Started(g).gnb = g /\ Started(g).ran = unc.ran
      BY <2>2 DEF UncOK
    <3>2. CASE unc' = unc
      BY <3>2
    <3>3. CASE unc' = Started(g)
      BY <2>1, <3>1, <3>3
    <3>4. CASE unc' = [Started(g) EXCEPT !.target_gnb = m.to[1]]
      <4>1. Started(g) \in [gnb : Gnbs, ran : RanIds, target_gnb : Gnbs \cup {Unknown},
                            target_ran : RanIds \cup {0},
                            state : {"NGAP_UE_CONNECTED", "NGAP_UE_HANDOVER"}]
        BY <2>2 DEF UncOK
      <4>. HIDE DEF m
      <4>. QED  BY <2>1, <3>1, <3>4, <4>1
    <3>. QED  BY <2>3, <3>2, <3>3, <3>4
  <2>5. \/ down' = down
        \/ \E h \in Gnbs, n \in Msgs :
             n.type \notin {"Command", "Release"} /\ SendDown(h, n)
    <3>1. /\ Msg("Request", 0, NoPlace) \in Msgs
          /\ Msg("PreparationFailure", AmfId, NoPlace) \in Msgs
          /\ Msg("Request", 0, NoPlace).type = "Request"
          /\ Msg("PreparationFailure", AmfId, NoPlace).type = "PreparationFailure"
      BY MsgTypes DEF Msg
    <3>2. CASE RequiredRefused(g)
      BY <3>1, <3>2 DEF RequiredRefused
    <3>3. CASE RequiredForwarded(g)
      BY <3>1, <3>3 DEF RequiredForwarded
    <3>. QED  BY <1>3, <3>2, <3>3 DEF RequiredCrash
  <2>. QED  BY <1>2, <2>1, <2>4, <2>5 DEF Known
<1>4. CASE StatusTransfer(g)
  <2>1. Receive(g, "Status") /\ ranMap' = ranMap /\ Known' = Known
    BY <1>4 DEF StatusTransfer, amfVars, Known
  <2>2. unc.target_ran \in RanIds \cup {0}
    BY DEF UncOK
  <2>3. /\ Msg("Status", unc.target_ran, NoPlace) \in Msgs
        /\ Msg("Status", unc.target_ran, NoPlace).type = "Status"
    BY <2>2, MsgTypes DEF Msg
  <2>4. \/ down' = down
        \/ \E h \in Gnbs, n \in Msgs :
             n.type \notin {"Command", "Release"} /\ SendDown(h, n)
    BY <1>4, <2>3 DEF StatusTransfer, SendDown
  <2>. QED  BY <1>2, <2>1, <2>4
<1>5. CASE Ack(g)
  <2>1. Receive(g, "Ack") /\ ranMap' = ranMap
    BY <1>5 DEF Ack
  <2>2. CASE UNCHANGED down
    <3>1. unc' = unc \/ unc' = [unc EXCEPT !.target_ran = m.ran]
      BY <1>5 DEF Ack
    <3>2. Known' = Known
      BY <3>1 DEF UncOK, Known
    <3>. QED  BY <1>2, <2>1, <2>2, <3>2
  <2>3. CASE ~ UNCHANGED down
    <3>. DEFINE p == <<g, m.ran>>
                n == Msg("Command", unc.ran, m.to)
    <3>1. unc' = [unc EXCEPT !.target_ran = m.ran] /\ SendDown(unc.gnb, n)
      BY <1>5, <2>3 DEF Ack
    <3>2. m = up[g][1] /\ m.to = p /\ p \in Places
      BY <2>1, Received DEF UpMsgs, Places
    <3>3. PopOf(up, up', p[1]) /\ AckAt(up, 1, p)
      BY <2>1, <3>2, UpPopped DEF AckAt
    <3>4. Unbound(up', down, ctx, place, Known, p)
      BY <3>2, <3>3, AckTaken
    <3>5. UeInv(up', down, ctx, place, Known, ranMap)
      BY <2>1, UpPopped, PopUpKeeps
    <3>6. /\ n \in Msgs /\ n.type = "Command" /\ n.ran = Known[2] /\ n.to = p
          /\ Known[1] = unc.gnb
      BY <3>2, MsgTypes DEF Msg, Known
    <3>7. PICK l : PushOf(down, down', Known[1], n, l)
      BY <3>1, <3>6, DownPushed
    <3>8. UeInv(up', down', ctx, place, Known, ranMap)
      BY <3>2, <3>4, <3>5, <3>6, <3>7, Commanded
    <3>9. Known' = Known
      BY <3>1 DEF UncOK, Known
    <3>. QED  BY <1>1, <2>1, <3>8, <3>9
  <2>. QED  BY <2>2, <2>3
<1>6. CASE Notify(g)
  <2>. DEFINE n == Msg("Release", unc.ran, NoPlace)
  <2>1. /\ Receive(g, "Notify") /\ SendDown(unc.gnb, n)
        /\ unc' = Moved(g, m.ran) /\ ranMap' = ranMap \cup {m.ran}
    BY <1>6 DEF Notify, Left
  <2>2. m = up[g][1] /\ NotAt(up, g, 1) /\ PopOf(up, up', g)
    BY <2>1, Received, UpPopped DEF NotAt
  <2>3. n \in Msgs /\ n.type = "Release" /\ n.ran = Known[2] /\ Known[1] = unc.gnb
    BY MsgTypes DEF Msg, Known
  <2>4. PICK l : PushOf(down, down', Known[1], n, l)
    BY <2>1, <2>3, DownPushed
  <2>5. place \in Places
    <3>1. ctx \subseteq Places
      BY TypeParts DEF Typed, GnbsOK
    <3>2. place \in ctx
      BY DEF UeInv
    <3>. QED  BY <3>1, <3>2
  <2>6. /\ place = <<g, m.ran>>
        /\ UeInv(up', down', ctx, place, place, ranMap \cup {place[2]})
    <3>. HIDE DEF m, n
    <3>1. /\ place = <<g, up[g][1].ran>>
          /\ UeInv(up', down', ctx, place, place, ranMap \cup {place[2]})
      BY <2>2, <2>3, <2>4, <2>5, Notified, ZenonT(60)
    <3>. QED  BY <2>2, <3>1
  <2>7. Known' = place
    BY <2>1, <2>6 DEF Moved, UncOK, Known
  <2>. QED  BY <1>1, <2>1, <2>6, <2>7
<1>. QED  BY <1>3, <1>4, <1>5, <1>6 DEF AmfStep

\* The steps of the gNBs, and of TASK_AMF_N1.
LEMMA GnbKeeps ==
    ASSUME Typed, UeInv(up, down, ctx, place, Known, ranMap),
           \/ Secure \/ GiveUp
           \/ \E to \in Gnbs \cup {Unknown} : Require(to)
           \/ \E g \in Gnbs : \/ TargetRefuses(g) \/ SourceMoves(g) \/ SourceFails(g)
                              \/ GnbReleases(g) \/ GnbGetsStatus(g)
                              \/ \E ran \in RanIds : TargetAdmits(g, ran)
    PROVE  UeInv(up', down', ctx', place', Known', ranMap')
<1>. UncOK /\ ctx \subseteq Places /\ Known \in Places
  BY TypeParts DEF Typed, UncOK, GnbsOK, Known, Places
<1>. place \in Places /\ place[1] \in Gnbs /\ place[2] \in RanIds
  BY DEF UeInv, Places
<1>. \A g \in Gnbs : UpMsgs(g) \subseteq Msgs
  BY MsgTypes
<1>0. Known' = Known /\ ranMap' = ranMap
  BY Zenon DEF Secure, GiveUp, Require, TargetRefuses, SourceMoves, SourceFails, GnbReleases,
         GnbGetsStatus, TargetAdmits, amfVars, Known
<1>1. CASE Secure \/ GiveUp
  BY <1>0, <1>1 DEF Secure, GiveUp, gnbVars
<1>2. ASSUME NEW to \in Gnbs \cup {Unknown}, Require(to)
      PROVE  UeInv(up', down', ctx', place', Known', ranMap')
  <2>. DEFINE n == Msg("Required", place[2], <<to, 0>>)
  <2>1. n \in Msgs /\ n.type = "Required"
    BY MsgTypes DEF Msg
  <2>2. SendUp(place[1], n) /\ UNCHANGED <<down, ctx, place>>
    BY <1>2 DEF Require
  <2>3. PICK l : PushOf(up, up', place[1], n, l)
    BY <2>1, <2>2, UpPushed
  <2>4. UeInv(up', down, ctx, place, Known, ranMap)
    BY <2>1, <2>3, PushUpKeeps
  <2>. QED  BY <1>0, <2>2, <2>4
<1>3. ASSUME NEW g \in Gnbs, NEW type, Get(g, type), type # "Release",
             UNCHANGED <<up, ctx, place>>
      PROVE  UeInv(up', down', ctx', place', Known', ranMap')
  <2>1. UeInv(up, down', ctx, place, Known, ranMap)
    BY <1>3, DownPopped, PopDownKeeps
  <2>. QED  BY <1>0, <1>3, <2>1
<1>4. ASSUME NEW g \in Gnbs, TargetRefuses(g) \/ SourceFails(g) \/ GnbGetsStatus(g)
      PROVE  UeInv(up', down', ctx', place', Known', ranMap')
  <2>1. UNCHANGED <<up, ctx, place>>
    BY <1>4 DEF TargetRefuses, SourceFails, GnbGetsStatus, gnbVars
  <2>2. Get(g, "Request") \/ Get(g, "PreparationFailure") \/ Get(g, "Status")
    BY <1>4 DEF TargetRefuses, SourceFails, GnbGetsStatus
  <2>. QED  BY <1>3, <2>1, <2>2
<1>5. ASSUME NEW g \in Gnbs, NEW ran \in RanIds, TargetAdmits(g, ran)
      PROVE  UeInv(up', down', ctx', place', Known', ranMap')
  <2>. DEFINE p == <<g, ran>>
              n == Msg("Ack", ran, p)
  <2>1. /\ Get(g, "Request") /\ p \notin ctx /\ ctx' = ctx \cup {p} /\ place' = place
        /\ SendUp(g, n)
    BY <1>5 DEF TargetAdmits
  <2>2. p \in Places /\ p[1] = g /\ n \in Msgs /\ n.type = "Ack" /\ n.ran = p[2]
    BY MsgTypes DEF Msg, Places
  <2>3. UeInv(up, down', ctx, place, Known, ranMap)
    BY <2>1, DownPopped, PopDownKeeps
  <2>4. PICK l : PushOf(up, up', p[1], n, l)
    BY <2>1, <2>2, UpPushed
  <2>5. UeInv(up', down', ctx \cup {p}, place, Known, ranMap)
    <3>. HIDE DEF p, n
    <3>. QED  BY <2>1, <2>2, <2>3, <2>4, Offered
  <2>. QED  BY <1>0, <2>1, <2>5
<1>6. ASSUME NEW g \in Gnbs, GnbReleases(g)
      PROVE  UeInv(up', down', ctx', place', Known', ranMap')
  <2>. DEFINE p == <<g, Head(down[g]).ran>>
  <2>1. Get(g, "Release") /\ ctx' = ctx \ {p} /\ up' = up
    BY <1>6 DEF GnbReleases
  <2>2. Head(down[g]) = down[g][1] /\ p \in Places /\ p[1] = g
    BY <2>1, Gotten DEF DownMsgs, Places
  <2>3. PopOf(down, down', p[1]) /\ RelAt(down, 1, p)
    BY <2>1, <2>2, DownPopped DEF RelAt
  <2>4. p # place /\ UeInv(up, down', ctx \ {p}, place, Known, ranMap)
    <3>. HIDE DEF p
    <3>. QED  BY <2>2, <2>3, Released
  <2>5. place' = place
    BY <1>6, <2>4 DEF GnbReleases
  <2>. QED  BY <1>0, <2>1, <2>4, <2>5
<1>7. ASSUME NEW g \in Gnbs, SourceMoves(g)
      PROVE  UeInv(up', down', ctx', place', Known', ranMap')
  <2>. DEFINE m == Head(down[g])
  <2>1. Get(g, "Command") /\ ctx' = ctx
    BY Zenon, <1>7 DEF SourceMoves
  <2>2. CASE UNCHANGED <<place, up>>
    BY <1>3, <2>1, <2>2
  <2>3. CASE ~ UNCHANGED <<place, up>>
    <3>. DEFINE p == m.to
                n1 == Msg("Status", m.ran, NoPlace)
                n2 == Msg("Notify", p[2], NoPlace)
                mid == [up EXCEPT ![g] = Append(@, n1)]
    <3>1. /\ place' = p /\ place = <<g, m.ran>>
          /\ up' = [mid EXCEPT ![p[1]] = Append(@, n2)]
      BY Zenon, <1>7, <2>3 DEF SourceMoves
    <3>2. /\ m = down[g][1] /\ m.ran \in RanIds
          /\ p \in Places /\ p[1] \in Gnbs /\ p[2] \in RanIds
      BY <2>1, Gotten DEF DownMsgs, Places
    <3>3. PopOf(down, down', g) /\ CmdAt(down, g, 1, p) /\ <<g, down[g][1].ran>> = place
      BY SMTT(40), <2>1, <3>1, <3>2, DownPopped DEF CmdAt
    <3>4. place = Known
      <4>1. \A j \in Nat : ~ RelAt(down, j, place)
        BY DEF UeInv, ReleaseInv, Spare
      <4>2. CommandInv(down, Known)
        BY DEF UeInv
      <4>. QED  BY <3>2, <3>3, <4>1, <4>2 DEF CommandInv
    <3>5. Unbound(up, down', ctx, place, place, p)
      BY <3>2, <3>3, <3>4, CommandTaken
    <3>6. UeInv(up, down', ctx, place, place, ranMap)
      BY <2>1, <3>4, DownPopped, PopDownKeeps
    <3>7. /\ n1 \in Msgs /\ n1.type = "Status"
          /\ n2 \in Msgs /\ n2.type = "Notify" /\ n2.ran = p[2]
      BY <3>2, MsgTypes DEF Msg
    <3>8. up \in [Gnbs -> Seq(Msgs)]
      BY DEF Typed, TypeOK
    <3>9. PICK l1 : PushOf(up, mid, g, n1, l1)
      BY <3>7, <3>8, PushIs
    <3>10. mid \in [Gnbs -> Seq(Msgs)]
      <4>1. Append(up[g], n1) \in Seq(Msgs)
        BY <3>7, <3>8
      <4>. QED  BY <3>8, <4>1
    <3>11. PICK l2 : PushOf(mid, up', p[1], n2, l2)
      <4>. HIDE DEF mid, n2, p
      <4>. QED  BY <3>1, <3>2, <3>7, <3>10, PushIs
    <3>12. UeInv(mid, down', ctx, place, place, ranMap)
      <4>. HIDE DEF mid, n1
      <4>. QED  BY <3>6, <3>7, <3>9, PushUpKeeps
    <3>13. Unbound(mid, down', ctx, place, place, p)
      <4>. HIDE DEF mid, n1, p
      <4>1. \A i \in Nat : AckAt(mid, i, p) => AckAt(up, i, p)
        BY <3>2, <3>7, <3>9 DEF PushOf, AckAt
      <4>. QED  BY <3>5, <4>1 DEF Unbound
    <3>14. UeInv(up', down', ctx, p, place, ranMap)
      <4>. HIDE DEF mid, n2, p
      <4>. QED  BY <3>2, <3>7, <3>11, <3>12, <3>13, Moves, ZenonT(60)
    <3>. QED  BY Zenon, <1>0, <2>1, <3>1, <3>4, <3>14
  <2>. QED  BY <2>2, <2>3
<1>. QED  BY <1>1, <1>2, <1>4, <1>5, <1>6, <1>7

LEMMA StepHandover == ASSUME HandoverInv, [Next]_vars PROVE HandoverInv'
<1>1. Typed /\ Typed'
  BY StepTyped DEF HandoverInv
<1>2. CASE UNCHANGED vars
  BY <1>1, <1>2 DEF vars, amfVars, gnbVars, HandoverInv, Known
<1>3. CASE Next
  <2>1. usurped => usurped'
    BY Zenon, <1>3 DEF Next, AmfStep, RequiredRefused, RequiredForwarded, RequiredCrash, Ack,
         Notify, StatusTransfer, Note, Secure, GiveUp, Require, TargetRefuses, SourceMoves,
         SourceFails, GnbReleases, GnbGetsStatus, TargetAdmits, amfVars
  <2>2. ASSUME UeInv(up, down, ctx, place, Known, ranMap), ~ usurped'
        PROVE  UeInv(up', down', ctx', place', Known', ranMap')
    BY <1>1, <1>3, <2>2, AmfKeeps, GnbKeeps DEF Next
  <2>. QED  BY <1>1, <2>1, <2>2 DEF HandoverInv
<1>. QED  BY <1>2, <1>3

LEMMA HandoverInvAlways == Spec => []HandoverInv
  BY InitHandover, StepHandover, PTL DEF Spec

\* The release that HandoverNotify sends never reaches the context that the UE uses, as
\* long as no HANDOVER REQUIRED is taken from a gNB that serves the UE no more: however
\* many gNBs, RAN ids and attempts there are, and whatever the callbacks do.
THEOREM ReleaseSparesTheUeAlways == Spec => []ReleaseSparesTheUe
<1>1. ASSUME HandoverInv, ~ usurped, NEW g \in Gnbs, NEW i \in DOMAIN down[g],
             down[g][i].type = "Release"
      PROVE  place # <<g, down[g][i].ran>>
  <2>. DEFINE p == <<g, down[g][i].ran>>
  <2>1. down[g] \in Seq(DownMsgs)
    BY <1>1 DEF HandoverInv, Typed, QueuesOK
  <2>2. i \in Nat /\ down[g][i] \in DownMsgs
    BY <2>1
  <2>3. p \in Places /\ RelAt(down, i, p)
    BY <1>1, <2>2 DEF DownMsgs, RelAt, Places
  <2>. HIDE DEF p
  <2>4. p # place
    BY <1>1, <2>2, <2>3 DEF HandoverInv, UeInv, ReleaseInv, Spare
  <2>. QED  BY <2>4 DEF p
<1>2. HandoverInv => ReleaseSparesTheUe
  BY <1>1 DEF ReleaseSparesTheUe
<1>. QED  BY <1>2, HandoverInvAlways, PTL

\* When nothing is under way the AMF knows the UE where it is, finds its context by its
\* RAN id, and the gNB still has it, under the same premise.
THEOREM UeIsFoundAlways == Spec => []UeIsFound
<1>1. ASSUME HandoverInv, Quiet, ~ usurped
      PROVE  place \in ctx /\ place = Known /\ unc.ran \in ranMap
  <2>1. UeInv(up, down, ctx, place, Known, ranMap)
    BY <1>1 DEF HandoverInv
  <2>2. \A h \in Gnbs : \A i \in Nat : ~ NotAt(up, h, i)
    BY <1>1 DEF Quiet, NotAt
  <2>. QED  BY <2>1, <2>2 DEF UeInv, NotifyInv, Known
<1>2. HandoverInv => UeIsFound
  BY <1>1 DEF UeIsFound, Known
<1>. QED  BY <1>2, HandoverInvAlways, PTL
=============================================================================
