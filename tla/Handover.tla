------------------------------ MODULE Handover ------------------------------
(***************************************************************************)
(* N2 handover of one UE between gNBs.  The source gNB sends HANDOVER      *)
(* REQUIRED; TASK_AMF_N2 sends HANDOVER REQUEST to the target; its         *)
(* ACKNOWLEDGE makes the AMF send HANDOVER COMMAND to the source; the UE   *)
(* moves, the target sends HANDOVER NOTIFY, and the AMF releases the       *)
(* context at the gNB the UE has left.                                     *)
(*                                                                         *)
(* An association delivers in order, those of two gNBs do not wait for     *)
(* each other.  The source may give up waiting and try again, also with    *)
(* another target (the AMF ignores HANDOVER CANCEL), so answers of an      *)
(* earlier attempt are still on their way.  The gNBs are external: they do *)
(* what NGAP asks of them.  The calls to the SMF are left out: whatever    *)
(* they return, the handlers go on (see SbiPromise).                       *)
(***************************************************************************)
EXTENDS Integers, Sequences, FiniteSets

CONSTANTS Gnbs,         \* gNBs with an association and a gNB id the AMF knows
          Unknown,      \* a gNB id that the AMF does not know
          RanIds,       \* RAN UE NGAP IDs that a gNB hands out
          AmfId,        \* the AMF UE NGAP ID of the UE
          Row,          \* entry 13 of messages_callback, by "present"
          MaxRequired   \* bound: HANDOVER REQUIRED messages

Callbacks == {"handover_request", "handover_request_ack", "handover_failure"}

ASSUME HandoverConstants ==
    /\ Unknown \notin Gnbs /\ Gnbs # {}
    /\ RanIds \subseteq Nat \ {0} /\ RanIds # {} /\ AmfId \in Nat
    /\ Row \in [1..3 -> Callbacks]
    /\ MaxRequired \in Nat

Places == Gnbs \X RanIds
NoPlace == <<Unknown, 0>>
SuccessfulOutcome == 2       \* Ngap_NGAP_PDU_PR_successfulOutcome

Msg(type, ran, to) == [type |-> type, ran |-> ran, to |-> to]

VARIABLES
    unc,        \* ue_ngap_context of the UE
    ranMap,     \* the keys of ranid2uengap that lead to it
    secured,    \* it has a NAS context with a security context
    alive,      \* the process runs
    up, down,   \* per gNB, messages to and from the AMF
    ctx,        \* gNBs: the contexts they keep for the UE
    place,      \* gNBs: where the UE is
    prep,       \* gNBs: the target that the UE's gNB waits for, or NoPlace[1]
    required,   \* HANDOVER REQUIRED messages so far
    usurped     \* one was taken from another gNB than the serving one (history)

amfVars == <<unc, ranMap, alive, usurped>>
gnbVars == <<ctx, place, prep, required>>
vars == <<amfVars, secured, up, down, gnbVars>>

\* A UE that was attached through one of the gNBs.
Init ==
    /\ place \in Places /\ ctx = {place}
    /\ unc = [gnb |-> place[1], ran |-> place[2], target_gnb |-> Unknown,
              target_ran |-> 0, state |-> "NGAP_UE_CONNECTED"]
    /\ ranMap = {place[2]}
    /\ secured \in BOOLEAN
    /\ alive = TRUE
    /\ up = [g \in Gnbs |-> <<>>] /\ down = [g \in Gnbs |-> <<>>]
    /\ prep = Unknown /\ required = 0 /\ usurped = FALSE

SendDown(g, m) == down' = [down EXCEPT ![g] = Append(@, m)]
SendUp(g, m) == up' = [up EXCEPT ![g] = Append(@, m)]

\* TASK_AMF_N2 handles the next message of an association.
Receive(g, type) ==
    /\ alive /\ up[g] # <<>> /\ Head(up[g]).type = type
    /\ up' = [up EXCEPT ![g] = Tail(@)]

-----------------------------------------------------------------------------
(* TASK_AMF_N2.                                                            *)

IsUe(ran) == ran \in ranMap
Started(g) == [unc EXCEPT !.gnb = g, !.state = "NGAP_UE_HANDOVER"]

\* Nothing asks whether the sender is the gNB that serves the UE.
Note(g) == usurped' = (usurped \/ unc.gnb # g)

\* Refused: no UE context, or no security context.  In the second case the
\* context was changed already.  The message names the UE by its AMF id in
\* both fields.
RequiredRefused(g) ==
    /\ Receive(g, "Required")
    /\ LET ran == Head(up[g]).ran IN
       /\ ~ IsUe(ran) \/ ~ secured
       /\ unc' = IF IsUe(ran) THEN Started(g) ELSE unc
       /\ SendDown(g, Msg("PreparationFailure", AmfId, NoPlace))
    /\ Note(g)
    /\ UNCHANGED <<ranMap, alive, secured, gnbVars>>

RequiredForwarded(g) ==
    /\ Receive(g, "Required")
    /\ LET m == Head(up[g]) IN
       /\ IsUe(m.ran) /\ secured /\ m.to[1] \in Gnbs
       /\ unc' = [Started(g) EXCEPT !.target_gnb = m.to[1]]
       /\ SendDown(m.to[1], Msg("Request", 0, NoPlace))
    /\ Note(g)
    /\ UNCHANGED <<ranMap, alive, secured, gnbVars>>

\* gnb_id_2_gnb_context of an id that no gNB has set up reads its map with
\* at(), which throws; nothing on the way to the task's thread catches it.
RequiredCrash(g) ==
    /\ Receive(g, "Required")
    /\ IsUe(Head(up[g]).ran) /\ secured /\ Head(up[g]).to[1] = Unknown
    /\ unc' = Started(g)
    /\ alive' = FALSE
    /\ Note(g)
    /\ UNCHANGED <<ranMap, down, secured, gnbVars>>

\* handle_sctp_payload: messages_callback[13][present - 1], rows from 1 here.
Callback(present) == Row[present]

\* HANDOVER REQUEST ACKNOWLEDGE is a successful outcome.  handover_request
\* decodes it and sends it to TASK_AMF_N2; the other two callbacks of the row
\* return RETURNok and do nothing.  The target's RAN id is stored before the
\* list of admitted sessions is decoded and the NAS context looked up; when
\* one of them fails nothing is sent.
Ack(g) ==
    /\ Receive(g, "Ack")
    /\ IF Callback(SuccessfulOutcome) = "handover_request"
       THEN /\ unc' = [unc EXCEPT !.target_ran = Head(up[g]).ran]
            /\ \/ SendDown(unc.gnb, Msg("Command", unc.ran, Head(up[g]).to))
               \/ UNCHANGED down
       ELSE UNCHANGED <<unc, down>>
    /\ UNCHANGED <<ranMap, alive, usurped, secured, gnbVars>>

\* Mutants of Moved: the RAN id is the one of the last acknowledgement; the
\* RAN id is cleared before it is stored.
MovedToTargetRan(g, ran) ==
    [unc EXCEPT !.gnb = g, !.ran = unc.target_ran, !.target_ran = 0,
                !.state = "NGAP_UE_CONNECTED"]
MovedAfterClear(g, ran) ==
    [unc EXCEPT !.gnb = g, !.ran = 0, !.state = "NGAP_UE_CONNECTED"]

\* The context once the UE has come to gNB g, under its RAN id there.
Moved(g, ran) ==
    [unc EXCEPT !.gnb = g, !.ran = ran, !.target_ran = 0,
                !.state = "NGAP_UE_CONNECTED"]

\* Mutant of Left: the context is updated before the command is built.
LeftAfterUpdate(g, ran) == <<g, ran>>

\* Where the release command of a notification goes.
Left(g, ran) == <<unc.gnb, unc.ran>>

\* The old RAN id stays in the map.
Notify(g) ==
    /\ Receive(g, "Notify")
    /\ LET ran == Head(up[g]).ran
           old == Left(g, ran) IN
       /\ SendDown(old[1], Msg("Release", old[2], NoPlace))
       /\ unc' = Moved(g, ran)
       /\ ranMap' = ranMap \cup {ran}
    /\ UNCHANGED <<alive, usurped, secured, gnbVars>>

\* UPLINK RAN STATUS TRANSFER of the source goes on to the target.
StatusTransfer(g) ==
    /\ Receive(g, "Status")
    /\ down' = IF unc.target_gnb \in Gnbs
               THEN [down EXCEPT ![unc.target_gnb] =
                                    Append(@, Msg("Status", unc.target_ran, NoPlace))]
               ELSE down
    /\ UNCHANGED <<amfVars, secured, gnbVars>>

\* TASK_AMF_N1: security mode control completes.
Secure ==
    /\ alive /\ ~ secured
    /\ secured' = TRUE
    /\ UNCHANGED <<amfVars, up, down, gnbVars>>

-----------------------------------------------------------------------------
(* The gNBs (external).                                                    *)

\* The UE's gNB asks for a handover.  Bound: MaxRequired.
Require(to) ==
    /\ prep = Unknown /\ place # NoPlace /\ to # place[1]
    /\ required < MaxRequired /\ required' = required + 1
    /\ prep' = to
    /\ SendUp(place[1], Msg("Required", place[2], <<to, 0>>))
    /\ UNCHANGED <<amfVars, secured, down, ctx, place>>

\* No answer in time.  HANDOVER CANCEL has a callback that does nothing.
GiveUp ==
    /\ prep # Unknown
    /\ prep' = Unknown
    /\ UNCHANGED <<amfVars, secured, up, down, ctx, place, required>>

Get(g, type) ==
    /\ down[g] # <<>> /\ Head(down[g]).type = type
    /\ down' = [down EXCEPT ![g] = Tail(@)]

\* The target sets a RAN id aside; its answer holds it for the source, too.
\* HANDOVER FAILURE has a callback that does nothing.
TargetAdmits(g, ran) ==
    /\ Get(g, "Request")
    /\ <<g, ran>> \notin ctx
    /\ ctx' = ctx \cup {<<g, ran>>}
    /\ SendUp(g, Msg("Ack", ran, <<g, ran>>))
    /\ UNCHANGED <<amfVars, secured, place, prep, required>>

TargetRefuses(g) ==
    /\ Get(g, "Request")
    /\ UNCHANGED <<amfVars, secured, up, gnbVars>>

\* The source takes the command for the UE that it asked for, sends the UE
\* away and reports the state of its bearers.  The target notifies when the
\* UE has come.
SourceMoves(g) ==
    /\ Get(g, "Command")
    /\ LET m == Head(down[g]) IN
       IF place = <<g, m.ran>> /\ prep # Unknown /\ m.to \in ctx
       THEN /\ place' = m.to /\ prep' = Unknown
            /\ up' = [[up EXCEPT ![g] = Append(@, Msg("Status", m.ran, NoPlace))]
                      EXCEPT ![m.to[1]] = Append(@, Msg("Notify", m.to[2], NoPlace))]
       ELSE UNCHANGED <<place, prep, up>>
    /\ UNCHANGED <<amfVars, secured, ctx, required>>

\* A failure for another RAN id than the one that was asked for is dropped.
SourceFails(g) ==
    /\ Get(g, "PreparationFailure")
    /\ prep' = IF place = <<g, Head(down[g]).ran>> THEN Unknown ELSE prep
    /\ UNCHANGED <<amfVars, secured, up, ctx, place, required>>

\* The context is removed, and with it the UE if it is still there.
GnbReleases(g) ==
    /\ Get(g, "Release")
    /\ LET p == <<g, Head(down[g]).ran>> IN
       /\ ctx' = ctx \ {p}
       /\ place' = IF place = p THEN NoPlace ELSE place
       /\ prep' = IF place = p THEN Unknown ELSE prep
    /\ UNCHANGED <<amfVars, secured, up, required>>

GnbGetsStatus(g) ==
    /\ Get(g, "Status")
    /\ UNCHANGED <<amfVars, secured, up, gnbVars>>

-----------------------------------------------------------------------------
AmfStep(g) ==
    \/ RequiredRefused(g) \/ RequiredForwarded(g) \/ RequiredCrash(g)
    \/ Ack(g) \/ Notify(g) \/ StatusTransfer(g)

Next ==
    \/ \E g \in Gnbs :
         \/ AmfStep(g)
         \/ TargetRefuses(g) \/ SourceMoves(g) \/ SourceFails(g)
         \/ GnbReleases(g) \/ GnbGetsStatus(g)
         \/ \E ran \in RanIds : TargetAdmits(g, ran)
    \/ \E to \in Gnbs \cup {Unknown} : Require(to)
    \/ GiveUp \/ Secure

Spec == Init /\ [][Next]_vars

\* TASK_AMF_N2 takes the messages of every association in the end.
FairSpec == Spec /\ \A g \in Gnbs : WF_vars(AmfStep(g))

-----------------------------------------------------------------------------
Types == {"Required", "Request", "Ack", "Command", "Notify", "Status", "Release",
          "PreparationFailure"}
Msgs == [type : Types, ran : RanIds \cup {0, AmfId},
         to : (Gnbs \cup {Unknown}) \X (RanIds \cup {0})]

\* Every variable has its type; the AMF's idea of the UE is one of its places.
TypeOK ==
    /\ unc \in [gnb : Gnbs, ran : RanIds, target_gnb : Gnbs \cup {Unknown},
                target_ran : RanIds \cup {0},
                state : {"NGAP_UE_CONNECTED", "NGAP_UE_HANDOVER"}]
    /\ ranMap \subseteq RanIds
    /\ secured \in BOOLEAN /\ alive \in BOOLEAN
    /\ up \in [Gnbs -> Seq(Msgs)] /\ down \in [Gnbs -> Seq(Msgs)]
    /\ ctx \subseteq Places
    /\ place \in Places \cup {NoPlace}
    /\ prep \in Gnbs \cup {Unknown}
    /\ required \in 0..MaxRequired
    /\ usurped \in BOOLEAN

\* The release command that ends a handover never reaches the context that
\* the UE uses (HandoverNotify builds it from the context before it stores
\* the new ids there), also when answers of an earlier attempt are about.
\* A HANDOVER REQUIRED that is handled when its sender serves the UE no more
\* breaks it: that gNB becomes the serving one, and the next release goes to
\* it with the RAN id of another.
ReleaseSparesTheUe ==
    ~ usurped => \A g \in Gnbs : \A i \in DOMAIN down[g] :
                 down[g][i].type = "Release" => place # <<g, down[g][i].ran>>

Quiet == \A g \in Gnbs : up[g] = <<>> /\ down[g] = <<>>

\* When no message is under way the AMF knows the UE by its gNB and its RAN
\* id there, a message with that id finds the UE's context, and the gNB has
\* not been told to release it (HandoverRequired, HandoverNotify).
UeIsFound ==
    Quiet /\ alive /\ ~ usurped => /\ place \in ctx /\ place = <<unc.gnb, unc.ran>>
                                   /\ unc.ran \in ranMap

\* A target that has admitted the UE: the source is told so (the callbacks
\* of HandoverResourceAllocation, and HandoverRequestAck).  It is what
\* "Support N2 Handover" of docs/FEATURE_SET.md takes.
AckIsCommanded ==
    \A g \in Gnbs :
        (\E i \in DOMAIN up[g] : up[g][i].type = "Ack")
        ~> \/ ~ alive
           \/ \E s \in Gnbs : \E i \in DOMAIN down[s] :
                 down[s][i].type = "Command" /\ down[s][i].to[1] = g
=============================================================================
