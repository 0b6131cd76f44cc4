------------------------- MODULE NgapContextsProofs -------------------------
(***************************************************************************)
(* Proofs about NgapContexts, for every value of its constants: type       *)
(* correctness, the invariant that ties an AMF UE NGAP ID to one RAN UE    *)
(* NGAP ID, what NG Reset and NG Shutdown leave behind, that they leave    *)
(* nothing of a settled UE they release and touch no UE of another gNB.    *)
(***************************************************************************)
EXTENDS NgapContexts, SequenceTheorems, TLAPS

-----------------------------------------------------------------------------
(* Queues.                                                                 *)

\* What the operations on an itti queue do to the set of its messages.
LEMMA QueueOps ==
    ASSUME NEW S, NEW q \in Seq(S)
    PROVE  /\ \A e \in S : Append(q, e) \in Seq(S)
           /\ q # <<>> => Head(q) \in S /\ Tail(q) \in Seq(S)
           /\ Len(q) \in Nat
           /\ \A e \in S : <<e>> \in Seq(S)
           /\ \A p \in Seq(S) : q \o p \in Seq(S)
<1>1. q # <<>> => Head(q) \in S /\ Tail(q) \in Seq(S)
  BY HeadTailProperties
<1>2. \A p \in Seq(S) : q \o p \in Seq(S)
  BY ConcatProperties
<1>3. \A e \in S : <<e>> \in Seq(S)
  OBVIOUS
<1>. QED  BY <1>1, <1>2, <1>3

-----------------------------------------------------------------------------
(* Type correctness.                                                       *)

LEMMA InitTypeOK == Init => TypeOK
  BY NgapConstants DEF NgapConstants, Init, TypeOK, GnbTypeOK, UncTypeOK, NasTypeOK,
     AppTypeOK, QueueTypeOK, ControlTypeOK, AmfIds, Objs, Free, Idle, Job, NoApp, NoN1, UncRecs,
     N1Msgs, N2Msgs, JobRecs, Steps

\* A group of variables that a step leaves alone keeps its type.
LEMMA Frames ==
    ASSUME TypeOK
    PROVE  /\ UNCHANGED gnbVars => GnbTypeOK'
           /\ UNCHANGED uncVars => UncTypeOK'
           /\ UNCHANGED nasVars => NasTypeOK'
           /\ UNCHANGED appVars => AppTypeOK'
           /\ UNCHANGED queues => QueueTypeOK'
<1>1. UNCHANGED gnbVars => GnbTypeOK'
  BY DEF TypeOK, GnbTypeOK, gnbVars
<1>2. UNCHANGED uncVars => UncTypeOK'
  BY DEF TypeOK, UncTypeOK, uncVars
<1>3. UNCHANGED nasVars => NasTypeOK'
  BY DEF TypeOK, NasTypeOK, nasVars
<1>4. UNCHANGED appVars => AppTypeOK'
  BY DEF TypeOK, AppTypeOK, appVars
<1>5. UNCHANGED queues => QueueTypeOK'
  BY DEF TypeOK, QueueTypeOK, queues
<1>. QED  BY <1>1, <1>2, <1>3, <1>4, <1>5

\* The same for the three queues of the model.
LEMMA Queues ==
    ASSUME TypeOK
    PROVE  /\ appq # <<>> => Head(appq) \in RanIds /\ Tail(appq) \in Seq(RanIds)
           /\ \A r \in RanIds : Append(appq, r) \in Seq(RanIds)
           /\ n1q # <<>> => /\ Head(n1q).ran \in RanIds
                            /\ Head(n1q).amf \in AmfIds
                            /\ Tail(n1q) \in Seq(N1Msgs)
           /\ \A b \in BOOLEAN, r \in RanIds, m \in AmfIds :
                 Append(n1q, [estab |-> b, ran |-> r, amf |-> m]) \in Seq(N1Msgs)
           /\ n2q # <<>> => /\ Head(n2q).ran \in RanIds
                            /\ Head(n2q).amf \in AmfIds
                            /\ Tail(n2q) \in Seq(N2Msgs)
           /\ \A r \in RanIds, m \in AmfIds :
                 /\ Append(n2q, ToN2("dl", r, m)) \in Seq(N2Msgs)
                 /\ n2q \o <<>> \o <<ToN2("release", r, m)>> \in Seq(N2Msgs)
                 /\ n2q \o <<ToN2("dl", r, m)>> \o <<ToN2("release", r, m)>> \in Seq(N2Msgs)
<1>. /\ appq \in Seq(RanIds) /\ n1q \in Seq(N1Msgs) /\ n2q \in Seq(N2Msgs)
  BY DEF TypeOK, QueueTypeOK
<1>1. /\ appq # <<>> => Head(appq) \in RanIds /\ Tail(appq) \in Seq(RanIds)
      /\ \A r \in RanIds : Append(appq, r) \in Seq(RanIds)
  BY QueueOps
<1>2. n1q # <<>> => Head(n1q) \in N1Msgs /\ Tail(n1q) \in Seq(N1Msgs)
  BY QueueOps
<1>3. \A b \in BOOLEAN, r \in RanIds, m \in AmfIds :
          [estab |-> b, ran |-> r, amf |-> m] \in N1Msgs
  BY DEF N1Msgs
<1>4. n2q # <<>> => Head(n2q) \in N2Msgs /\ Tail(n2q) \in Seq(N2Msgs)
  BY QueueOps
<1>5. \A type \in {"dl", "release"}, r \in RanIds, m \in AmfIds :
          ToN2(type, r, m) \in N2Msgs
  BY DEF N2Msgs, ToN2
<1>6. ASSUME NEW r \in RanIds, NEW m \in AmfIds
      PROVE  /\ Append(n2q, ToN2("dl", r, m)) \in Seq(N2Msgs)
             /\ n2q \o <<>> \o <<ToN2("release", r, m)>> \in Seq(N2Msgs)
             /\ n2q \o <<ToN2("dl", r, m)>> \o <<ToN2("release", r, m)>> \in Seq(N2Msgs)
  <2>1. \A e \in N2Msgs : Append(n2q, e) \in Seq(N2Msgs) /\ <<e>> \in Seq(N2Msgs)
    BY QueueOps
  <2>2. <<>> \in Seq(N2Msgs)
    BY EmptySeq
  <2>3. \A s, t \in Seq(N2Msgs) : s \o t \in Seq(N2Msgs)
    BY ConcatProperties
  <2>. QED  BY <1>5, <2>1, <2>2, <2>3
<1>7. \A b \in BOOLEAN, r \in RanIds, m \in AmfIds :
          Append(n1q, [estab |-> b, ran |-> r, amf |-> m]) \in Seq(N1Msgs)
  BY <1>3, QueueOps
<1>8. n1q # <<>> => Head(n1q).ran \in RanIds /\ Head(n1q).amf \in AmfIds
  BY <1>2 DEF N1Msgs
<1>9. n2q # <<>> => Head(n2q).ran \in RanIds /\ Head(n2q).amf \in AmfIds
  BY <1>4 DEF N2Msgs
<1>. QED  BY <1>1, <1>2, <1>4, <1>6, <1>7, <1>8, <1>9

\* The removal by RAN id is entered with a RAN id that has been handed out.
JobRan == n2job.step = "ran.find" => n2job.ran \in RanIds

LEMMA ZeroObj == 0 \in 0..MaxUnc
  BY NgapConstants DEF NgapConstants

LEMMA NewJobType ==
    ASSUME NEW kind \in {"reset", "shutdown", "part", "none"}, NEW a \in Assocs \cup {0},
           NEW todo \in SUBSET Objs
    PROVE  Job(kind, a, todo) \in JobRecs
BY ZeroObj DEF Job, JobRecs, Steps

LEMMA EndTurnType ==
    ASSUME NEW job \in JobRecs
    PROVE  EndTurn(job) \in JobRecs
<1>1. job.kind \in {"reset", "shutdown", "part", "none"} /\ job.assoc \in Assocs \cup {0}
      /\ job.todo \in SUBSET Objs
  BY DEF JobRecs
<1>. QED  BY <1>1, NewJobType DEF EndTurn

\* The next step of a removal function, after the NAS context was looked up.
LEMMA LookUpType ==
    ASSUME TypeOK, NEW job \in JobRecs, NEW m, NEW found \in Steps, NEW lost \in Steps
    PROVE  LookUpNas(job, m, found, lost) \in JobRecs
<1>1. CASE m \in amf2nas
  <2>1. m \in AmfIds \cup {0} /\ nas[m].imsi \in Imsis \cup {0}
    BY <1>1 DEF TypeOK, NasTypeOK
  <2>2. LookUpNas(job, m, found, lost)
          = [job EXCEPT !.nc = m, !.imsi = nas[m].imsi, !.step = found]
    BY <1>1 DEF LookUpNas
  <2>. QED  BY <2>1, <2>2 DEF JobRecs
<1>2. CASE m \notin amf2nas
  BY <1>2 DEF LookUpNas, JobRecs
<1>. QED  BY <1>1, <1>2

LEMMA LookUpByAmfType ==
    ASSUME TypeOK, NEW job \in JobRecs, NEW m \in AmfIds \cup {0}
    PROVE  LookUpByAmf(job, m) \in JobRecs
<1>. DEFINE k == [job EXCEPT !.amf = m]
<1>1. k \in JobRecs
  BY DEF JobRecs
<1>. HIDE DEF k
<1>2. LookUpNas(k, m, "amf.nas", "amf.unc") \in JobRecs
  BY <1>1, LookUpType DEF Steps
<1>. QED  BY <1>2 DEF LookUpByAmf, k

LEMMA LookUpByRanType ==
    ASSUME TypeOK, NEW job \in JobRecs, job.ran \in RanIds
    PROVE  LookUpByRan(job) \in JobRecs
<1>. DEFINE o == ran2unc[job.ran]
<1>1. o \in 0..MaxUnc
  BY DEF TypeOK, UncTypeOK
<1>2. CASE o = 0
  BY <1>2, EndTurnType DEF LookUpByRan
<1>3. CASE o # 0
  <2>1. [job EXCEPT !.obj = o] \in JobRecs
    BY <1>1 DEF JobRecs
  <2>. HIDE DEF o
  <2>2. LookUpNas([job EXCEPT !.obj = o], unc[o].amf, "ran.nas", "ran.unc") \in JobRecs
    BY <2>1, LookUpType DEF Steps
  <2>. QED  BY <1>3, <2>2 DEF LookUpByRan, o
<1>. QED  BY <1>2, <1>3

LEMMA ContextsType ==
    ASSUME TypeOK, NEW a
    PROVE  UeContextsOf(a) \in SUBSET Objs
<1>1. \A r \in RanIds : ran2unc[r] # 0 => ran2unc[r] \in Objs
  BY NgapConstants DEF NgapConstants, TypeOK, UncTypeOK, Objs
<1>. QED  BY <1>1 DEF UeContextsOf

\* The steps of the gNBs and of the receiver thread keep the types.
LEMMA GnbStepType ==
    ASSUME TypeOK, NEW a \in Assocs, GnbStep(a)
    PROVE  TypeOK'
<1>. USE DEF gnbVars, uncVars, nasVars, appVars, queues
<1>1. CASE SctpNewAssociation(a)
  <2>1. UncTypeOK' /\ NasTypeOK' /\ AppTypeOK' /\ QueueTypeOK'
    BY <1>1, Frames DEF SctpNewAssociation
  <2>2. GnbTypeOK'
    BY <1>1 DEF SctpNewAssociation, TypeOK, GnbTypeOK
  <2>3. ControlTypeOK'
    BY <1>1, NgapConstants DEF SctpNewAssociation, TypeOK, ControlTypeOK, NgapConstants, Counted
  <2>. QED  BY <2>1, <2>2, <2>3 DEF TypeOK
<1>2. CASE NgSetup(a)
  <2>1. UncTypeOK' /\ NasTypeOK' /\ AppTypeOK' /\ QueueTypeOK'
    BY <1>2, Frames DEF NgSetup
  <2>2. GnbTypeOK'
    BY <1>2 DEF NgSetup, TypeOK, GnbTypeOK
  <2>3. ControlTypeOK'
    BY <1>2, NgapConstants DEF NgSetup, TypeOK, ControlTypeOK, NgapConstants, Counted
  <2>. QED  BY <2>1, <2>2, <2>3 DEF TypeOK
<1>3. CASE NgResetAll(a)
  <2>1. UncTypeOK' /\ NasTypeOK' /\ AppTypeOK' /\ QueueTypeOK'
    BY <1>3, Frames DEF NgResetAll
  <2>2. GnbTypeOK'
    BY <1>3 DEF NgResetAll, TypeOK, GnbTypeOK
  <2>3. UeContextsOf(a) \in SUBSET Objs
    BY ContextsType
  <2>4. n2job' \in JobRecs
    BY <1>3, <2>3, NewJobType DEF NgResetAll
  <2>5. ControlTypeOK'
    BY <1>3, <2>4, NgapConstants DEF NgResetAll, TypeOK, ControlTypeOK, NgapConstants, Counted
  <2>. QED  BY <2>1, <2>2, <2>5 DEF TypeOK
<1>4. CASE NgShutdown(a)
  <2>1. UncTypeOK' /\ NasTypeOK' /\ AppTypeOK' /\ QueueTypeOK'
    BY <1>4, Frames DEF NgShutdown
  <2>2. GnbTypeOK'
    BY <1>4 DEF NgShutdown, TypeOK, GnbTypeOK
  <2>3. UeContextsOf(a) \in SUBSET Objs
    BY ContextsType
  <2>4. n2job' \in JobRecs
    BY <1>4, <2>3, NewJobType DEF NgShutdown
  <2>5. ControlTypeOK'
    BY <1>4, <2>4, NgapConstants DEF NgShutdown, TypeOK, ControlTypeOK, NgapConstants, Counted
  <2>. QED  BY <2>1, <2>2, <2>5 DEF TypeOK
<1>5. ASSUME NEW r \in RanIds, NEW byAmf \in BOOLEAN, NgResetPart(a, r, byAmf)
      PROVE  TypeOK'
  <2>1. UncTypeOK' /\ NasTypeOK' /\ AppTypeOK' /\ QueueTypeOK'
    BY <1>5, Frames DEF NgResetPart
  <2>2. GnbTypeOK'
    BY <1>5 DEF NgResetPart, TypeOK, GnbTypeOK
  <2>3. n2job' \in JobRecs
    <3>. DEFINE job == Job("part", a, {})
    <3>1. job \in JobRecs
      BY NewJobType
    <3>. HIDE DEF job
    <3>2. CASE byAmf
      <4>. DEFINE m == view[a][r]
      <4>1. m \in AmfIds
        BY <1>5, <3>2 DEF NgResetPart, TypeOK, ControlTypeOK, Free
      <4>2. n2job' = LookUpByAmf(job, m)
        BY <1>5, <3>2 DEF NgResetPart, job
      <4>. QED  BY <3>1, <4>1, <4>2, LookUpByAmfType
    <3>3. CASE ~byAmf
      <4>1. [job EXCEPT !.ran = r] \in JobRecs /\ [job EXCEPT !.ran = r].ran \in RanIds
        BY <3>1 DEF JobRecs
      <4>2. n2job' = LookUpByRan([job EXCEPT !.ran = r])
        BY <1>5, <3>3 DEF NgResetPart, job
      <4>. QED  BY <4>1, <4>2, LookUpByRanType
    <3>. QED  BY <3>2, <3>3
  <2>4. ControlTypeOK'
    BY <1>5, <2>3, NgapConstants DEF NgResetPart, TypeOK, ControlTypeOK, NgapConstants, Counted
  <2>. QED  BY <2>1, <2>2, <2>3, <2>4 DEF TypeOK
<1>6. ASSUME NEW r \in RanIds, NEW complete \in BOOLEAN, InitialUeMessage(a, r, complete)
      PROVE  TypeOK'
  <2>1. GnbTypeOK' /\ NasTypeOK' /\ AppTypeOK'
    BY <1>6, Frames DEF InitialUeMessage
  <2>2. UncTypeOK'
    <3>. /\ unc \in [Objs -> UncRecs] /\ nUnc \in 0..MaxUnc
         /\ ran2unc \in [RanIds -> 0..MaxUnc] /\ amf2unc \in [AmfIds -> 0..MaxUnc]
      BY DEF TypeOK, UncTypeOK
    <3>1. CASE ran2unc[r] = 0
      <4>. nUnc + 1 \in Objs
        BY <1>6, <3>1, NgapConstants DEF InitialUeMessage, Objs, NgapConstants
      <4>1. nUnc' \in 0..MaxUnc /\ ran2unc' \in [RanIds -> 0..MaxUnc]
            /\ amf2unc' = amf2unc
        BY SMTT(40), <1>6, <3>1, NgapConstants DEF InitialUeMessage, Objs, NgapConstants
      <4>2. [ran |-> r, amf |-> 0, assoc |-> a] \in UncRecs
        BY DEF UncRecs
      <4>3. unc' = [unc EXCEPT ![nUnc + 1] = [ran |-> r, amf |-> 0, assoc |-> a]]
        BY <1>6, <3>1 DEF InitialUeMessage
      <4>4. unc' \in [Objs -> UncRecs]
        BY <4>2, <4>3
      <4>. QED  BY <4>1, <4>4 DEF UncTypeOK
    <3>2. CASE ran2unc[r] # 0
      <4>1. ran2unc[r] \in Objs
        BY <3>2, NgapConstants DEF Objs, NgapConstants
      <4>2. unc' = [unc EXCEPT ![ran2unc[r]].ran = r, ![ran2unc[r]].assoc = a]
        BY <1>6, <3>2 DEF InitialUeMessage
      <4>3. unc' \in [Objs -> UncRecs]
        BY <4>1, <4>2 DEF UncRecs
      <4>. QED  BY <1>6, <3>2, <4>3 DEF InitialUeMessage, UncTypeOK
    <3>. QED  BY <3>1, <3>2
  <2>3. QueueTypeOK'
    BY <1>6, Queues DEF InitialUeMessage, TypeOK, QueueTypeOK
  <2>4. ControlTypeOK'
    BY <1>6 DEF InitialUeMessage, TypeOK, ControlTypeOK
  <2>. QED  BY <2>1, <2>2, <2>3, <2>4 DEF TypeOK
<1>7. ASSUME NEW r \in RanIds, UplinkNasTransport(a, r)
      PROVE  TypeOK'
  <2>1. GnbTypeOK' /\ UncTypeOK' /\ NasTypeOK' /\ AppTypeOK'
    BY <1>7, Frames DEF UplinkNasTransport
  <2>2. QueueTypeOK'
    <3>1. view[a][r] \in AmfIds
      BY <1>7 DEF UplinkNasTransport, TypeOK, ControlTypeOK, Free
    <3>. QED  BY <1>7, <3>1, Queues DEF UplinkNasTransport, TypeOK, QueueTypeOK
  <2>3. ControlTypeOK'
    BY <1>7 DEF UplinkNasTransport, TypeOK, ControlTypeOK
  <2>. QED  BY <2>1, <2>2, <2>3 DEF TypeOK
<1>8. ASSUME NEW r \in RanIds, GnbReleasesUe(a, r)
      PROVE  TypeOK'
  <2>1. GnbTypeOK' /\ UncTypeOK' /\ NasTypeOK' /\ AppTypeOK' /\ QueueTypeOK'
    BY <1>8, Frames DEF GnbReleasesUe
  <2>2. ControlTypeOK'
    BY <1>8 DEF GnbReleasesUe, TypeOK, ControlTypeOK
  <2>. QED  BY <2>1, <2>2 DEF TypeOK
<1>. QED  BY <1>1, <1>2, <1>3, <1>4, <1>5, <1>6, <1>7, <1>8 DEF GnbStep

\* The steps of a release keep the types.
LEMMA ReleaseStepType ==
    ASSUME TypeOK, JobRan, ReleaseStep
    PROVE  TypeOK'
<1>. USE DEF gnbVars, uncVars, nasVars, appVars, queues
<1>a. n2job \in JobRecs /\ GnbTypeOK /\ UncTypeOK /\ NasTypeOK
  BY DEF TypeOK, ControlTypeOK
<1>b. ASSUME n2job' \in JobRecs, UNCHANGED <<procs, view, alive>>
      PROVE  ControlTypeOK'
  BY <1>b DEF TypeOK, ControlTypeOK
<1>1. ASSUME NEW o \in Objs, ReleaseByAmf(o)
      PROVE  TypeOK'
  <2>1. GnbTypeOK' /\ UncTypeOK' /\ NasTypeOK' /\ AppTypeOK' /\ QueueTypeOK'
    BY <1>1, Frames DEF ReleaseByAmf
  <2>. DEFINE job == [n2job EXCEPT !.todo = @ \ {o}, !.obj = o, !.ran = unc[o].ran,
                                  !.settled = Settled(unc[o].ran)]
  <2>2. /\ unc[o].ran \in RanIds \cup {0} /\ o \in 0..MaxUnc
        /\ Settled(unc[o].ran) \in BOOLEAN /\ unc[o].amf \in AmfIds \cup {0}
    BY <1>a DEF UncTypeOK, UncRecs, Objs, Settled
  <2>3. job \in JobRecs
    BY <1>a, <2>2 DEF JobRecs
  <2>4. n2job' = LookUpByAmf(job, unc[o].amf)
    BY <1>1 DEF ReleaseByAmf
  <2>. HIDE DEF job
  <2>5. n2job' \in JobRecs
    BY <2>2, <2>3, <2>4, LookUpByAmfType
  <2>6. ControlTypeOK'
    BY <1>1, <1>b, <2>5 DEF ReleaseByAmf
  <2>. QED  BY <2>1, <2>6 DEF TypeOK
<1>2. CASE ReleaseByRan
  <2>1. GnbTypeOK' /\ UncTypeOK' /\ NasTypeOK' /\ AppTypeOK' /\ QueueTypeOK'
    BY <1>2, Frames DEF ReleaseByRan
  <2>2. n2job' \in JobRecs
    BY <1>2, <1>a, LookUpByRanType DEF ReleaseByRan, JobRan
  <2>3. ControlTypeOK'
    BY <1>2, <1>b, <2>2 DEF ReleaseByRan
  <2>. QED  BY <2>1, <2>3 DEF TypeOK
<1>3. CASE RemoveNas
  <2>1. GnbTypeOK' /\ UncTypeOK' /\ AppTypeOK' /\ QueueTypeOK'
    BY <1>3, Frames DEF RemoveNas
  <2>2. NasTypeOK'
    BY <1>3, <1>a DEF RemoveNas, ForgetNas, NasTypeOK
  <2>3. n2job' \in JobRecs
    BY <1>3, <1>a DEF RemoveNas, JobRecs, Steps
  <2>4. ControlTypeOK'
    BY <1>3, <1>b, <2>3 DEF RemoveNas
  <2>. QED  BY <2>1, <2>2, <2>4 DEF TypeOK
<1>4. CASE RemoveRanOfNas
  <2>1. GnbTypeOK' /\ NasTypeOK' /\ AppTypeOK' /\ QueueTypeOK'
    BY <1>4, Frames DEF RemoveRanOfNas
  <2>2. UncTypeOK'
    BY <1>4, <1>a, NgapConstants DEF RemoveRanOfNas, UncTypeOK, NgapConstants
  <2>3. n2job' \in JobRecs
    BY <1>4, <1>a DEF RemoveRanOfNas, JobRecs, Steps
  <2>4. ControlTypeOK'
    BY <1>4, <1>b, <2>3 DEF RemoveRanOfNas
  <2>. QED  BY <2>1, <2>2, <2>4 DEF TypeOK
<1>5. CASE RemoveAmf
  <2>1. GnbTypeOK' /\ NasTypeOK' /\ AppTypeOK' /\ QueueTypeOK'
    BY <1>5, Frames DEF RemoveAmf
  <2>2. UncTypeOK'
    BY <1>5, <1>a, NgapConstants DEF RemoveAmf, UncTypeOK, NgapConstants
  <2>3. n2job' \in JobRecs
    BY <1>5, <1>a, EndTurnType DEF RemoveAmf, JobRecs, Steps
  <2>4. ControlTypeOK'
    BY <1>5, <1>b, <2>3 DEF RemoveAmf
  <2>. QED  BY <2>1, <2>2, <2>4 DEF TypeOK
<1>6. CASE RemoveRan
  <2>1. GnbTypeOK' /\ NasTypeOK' /\ AppTypeOK' /\ QueueTypeOK'
    BY <1>6, Frames DEF RemoveRan
  <2>2. UncTypeOK'
    BY <1>6, <1>a, ZeroObj DEF RemoveRan, UncTypeOK
  <2>3. n2job' \in JobRecs
    BY <1>6, <1>a, EndTurnType DEF RemoveRan
  <2>4. ControlTypeOK'
    BY <1>6, <1>b, <2>3 DEF RemoveRan
  <2>. QED  BY <2>1, <2>2, <2>4 DEF TypeOK
<1>. QED  BY <1>1, <1>2, <1>3, <1>4, <1>5, <1>6 DEF ReleaseStep

\* The steps of TASK_AMF_N2 keep the types.
LEMMA N2StepType ==
    ASSUME TypeOK, JobRan, N2Step
    PROVE  TypeOK'
<1>. USE DEF gnbVars, uncVars, nasVars, appVars, queues
<1>1. CASE ReleaseStep
  BY <1>1, ReleaseStepType
<1>3. CASE ReleaseDone
  <2>1. GnbTypeOK' /\ UncTypeOK' /\ NasTypeOK' /\ AppTypeOK' /\ QueueTypeOK'
    BY <1>3, Frames DEF ReleaseDone
  <2>2. ControlTypeOK'
    BY <1>3, NgapConstants DEF ReleaseDone, TypeOK, ControlTypeOK, NgapConstants, Idle, Job, JobRecs, Steps
  <2>. QED  BY <2>1, <2>2 DEF TypeOK
<1>5. CASE N2Drop
  <2>1. GnbTypeOK' /\ UncTypeOK' /\ NasTypeOK' /\ AppTypeOK'
    BY <1>5, Frames DEF N2Drop
  <2>2. QueueTypeOK'
    BY <1>5, Queues DEF N2Drop, TypeOK, QueueTypeOK
  <2>3. ControlTypeOK'
    BY <1>5 DEF N2Drop, TypeOK, ControlTypeOK
  <2>. QED  BY <2>1, <2>2, <2>3 DEF TypeOK
<1>6. CASE DownlinkNasTransport
  <2>1. GnbTypeOK' /\ NasTypeOK' /\ AppTypeOK'
    BY Zenon, <1>6, Frames DEF DownlinkNasTransport
  <2>2. UncTypeOK'
    BY ZenonT(40), <1>6, NgapConstants, Queues DEF DownlinkNasTransport, TypeOK, UncTypeOK, NgapConstants, Objs, UncRecs
  <2>3. QueueTypeOK'
    BY Zenon, <1>6, Queues DEF DownlinkNasTransport, TypeOK, QueueTypeOK
  <2>4. ControlTypeOK'
    BY Zenon, <1>6, Queues DEF DownlinkNasTransport, TypeOK, ControlTypeOK, UncTypeOK, UncRecs, Objs, Free
  <2>. QED  BY <2>1, <2>2, <2>3, <2>4 DEF TypeOK
<1>7. CASE UeContextReleaseCommand
  <2>1. GnbTypeOK' /\ UncTypeOK' /\ NasTypeOK' /\ AppTypeOK'
    BY Zenon, <1>7, Frames DEF UeContextReleaseCommand
  <2>2. QueueTypeOK'
    BY Zenon, <1>7, Queues DEF UeContextReleaseCommand, TypeOK, QueueTypeOK
  <2>3. ControlTypeOK'
    BY ZenonT(40), <1>7, Queues DEF UeContextReleaseCommand, TypeOK, ControlTypeOK, UncTypeOK, UncRecs, Objs, Free
  <2>. QED  BY <2>1, <2>2, <2>3 DEF TypeOK
<1>. QED  BY <1>1, <1>3, <1>5, <1>6, <1>7 DEF N2Step

\* The steps of TASK_AMF_APP and TASK_AMF_N1 keep the types.
LEMMA TaskStepType ==
    ASSUME TypeOK, AppStep \/ N1Step
    PROVE  TypeOK'
<1>. USE DEF gnbVars, uncVars, nasVars, appVars, queues
<1>1. CASE AppEstablish
  <2>1. GnbTypeOK' /\ UncTypeOK' /\ NasTypeOK'
    BY <1>1, Frames DEF AppEstablish
  <2>2. AppTypeOK'
    <3>1. nextAmf \in AmfIds /\ Head(appq) \in RanIds /\ MaxUnc \in Nat
      BY <1>1, NgapConstants, Queues DEF AppEstablish, AmfIds, NgapConstants, TypeOK, AppTypeOK
    <3>2. appJob' \in [step : {"find", "write", "store", "send"}, ran : RanIds, amf : AmfIds,
                       obj : 0..MaxUnc]
      BY <1>1, <3>1, ZeroObj DEF AppEstablish, AppGoesOn
    <3>3. nextAmf' \in 1..(MaxAmf + 1) /\ ueCtx' \subseteq RanIds \X AmfIds
      BY <1>1, <3>1, NgapConstants DEF NgapConstants, AppEstablish, TypeOK, AppTypeOK, AmfIds
    <3>. QED  BY <3>2, <3>3 DEF AppTypeOK
  <2>3. QueueTypeOK'
    BY <1>1, Queues DEF AppEstablish, TypeOK, QueueTypeOK
  <2>4. ControlTypeOK'
    BY <1>1 DEF AppEstablish, TypeOK, ControlTypeOK
  <2>. QED  BY <2>1, <2>2, <2>3, <2>4 DEF TypeOK
<1>. DEFINE AppRecs == [step : {"find", "write", "store", "send"}, ran : RanIds, amf : AmfIds,
                        obj : 0..MaxUnc]
<1>a. appJob.step # "none" => appJob \in AppRecs
  BY DEF TypeOK, AppTypeOK, NoApp
<1>2. CASE AppFind
  <2>1. GnbTypeOK' /\ UncTypeOK' /\ NasTypeOK' /\ QueueTypeOK'
    BY <1>2, Frames DEF AppFind
  <2>2. AppTypeOK'
    BY <1>2, <1>a DEF AppFind, TypeOK, AppTypeOK, UncTypeOK
  <2>3. ControlTypeOK'
    BY <1>2 DEF AppFind, TypeOK, ControlTypeOK
  <2>. QED  BY <2>1, <2>2, <2>3 DEF TypeOK
<1>7. CASE AppWrite
  <2>1. GnbTypeOK' /\ NasTypeOK' /\ QueueTypeOK'
    BY <1>7, Frames DEF AppWrite
  <2>2. UncTypeOK'
    BY <1>7, <1>a DEF AppWrite, TypeOK, UncTypeOK, UncRecs
  <2>3. AppTypeOK'
    BY <1>7, <1>a DEF AppWrite, TypeOK, AppTypeOK
  <2>4. ControlTypeOK'
    BY <1>7 DEF AppWrite, TypeOK, ControlTypeOK
  <2>. QED  BY <2>1, <2>2, <2>3, <2>4 DEF TypeOK
<1>8. CASE AppStore
  <2>1. GnbTypeOK' /\ NasTypeOK' /\ QueueTypeOK'
    BY <1>8, Frames DEF AppStore
  <2>2. UncTypeOK'
    BY <1>8, <1>a DEF AppStore, TypeOK, UncTypeOK
  <2>3. AppTypeOK'
    <3>1. appJob' \in AppRecs
      BY <1>8, <1>a, ZeroObj DEF AppStore
    <3>. QED  BY <1>8, <3>1 DEF AppStore, TypeOK, AppTypeOK
  <2>4. ControlTypeOK'
    BY <1>8 DEF AppStore, TypeOK, ControlTypeOK
  <2>. QED  BY <2>1, <2>2, <2>3, <2>4 DEF TypeOK
<1>9. CASE AppSend
  <2>1. GnbTypeOK' /\ UncTypeOK' /\ NasTypeOK'
    BY <1>9, Frames DEF AppSend
  <2>2. AppTypeOK'
    BY <1>9 DEF AppSend, TypeOK, AppTypeOK
  <2>3. QueueTypeOK'
    BY <1>9, <1>a, Queues DEF AppSend, TypeOK, QueueTypeOK, Establish
  <2>4. ControlTypeOK'
    BY <1>9 DEF AppSend, TypeOK, ControlTypeOK
  <2>. QED  BY <2>1, <2>2, <2>3, <2>4 DEF TypeOK
<1>3. CASE AppThrow
  <2>1. GnbTypeOK' /\ UncTypeOK' /\ NasTypeOK' /\ AppTypeOK' /\ QueueTypeOK'
    BY <1>3, Frames DEF AppThrow
  <2>2. ControlTypeOK'
    BY <1>3 DEF AppThrow, TypeOK, ControlTypeOK
  <2>. QED  BY <2>1, <2>2 DEF TypeOK
<1>4. CASE N1Establish
  <2>1. GnbTypeOK' /\ UncTypeOK' /\ AppTypeOK'
    BY <1>4, Frames DEF N1Establish
  <2>2. NasTypeOK'
    BY <1>4, Queues DEF N1Establish, N1Free, TypeOK, NasTypeOK
  <2>3. QueueTypeOK'
    BY <1>4, Queues DEF N1Establish, N1Free, TypeOK, QueueTypeOK
  <2>4. ControlTypeOK'
    BY <1>4 DEF N1Establish, TypeOK, ControlTypeOK
  <2>. QED  BY <2>1, <2>2, <2>3, <2>4 DEF TypeOK
<1>10. ASSUME NEW i \in Imsis \cup {0}, N1Fill(i)
      PROVE  TypeOK'
  <2>1. GnbTypeOK' /\ UncTypeOK' /\ AppTypeOK'
    BY <1>10, Frames DEF N1Fill
  <2>2. n1job.ran \in RanIds /\ n1job.amf \in AmfIds
    BY <1>10 DEF N1Fill, TypeOK, NasTypeOK
  <2>3. NasTypeOK'
    BY <1>10, <2>2 DEF N1Fill, TypeOK, NasTypeOK
  <2>4. QueueTypeOK'
    BY <1>10, <2>2, Queues DEF N1Fill, TypeOK, QueueTypeOK
  <2>5. ControlTypeOK'
    BY <1>10 DEF N1Fill, TypeOK, ControlTypeOK
  <2>. QED  BY <2>1, <2>3, <2>4, <2>5 DEF TypeOK
<1>5. ASSUME NEW answer \in BOOLEAN, N1Uplink(answer)
      PROVE  TypeOK'
  <2>1. GnbTypeOK' /\ UncTypeOK' /\ NasTypeOK' /\ AppTypeOK'
    BY <1>5, Frames DEF N1Uplink
  <2>2. QueueTypeOK'
    BY <1>5, Queues DEF N1Uplink, N1Free, TypeOK, QueueTypeOK
  <2>3. ControlTypeOK'
    BY <1>5 DEF N1Uplink, TypeOK, ControlTypeOK
  <2>. QED  BY <2>1, <2>2, <2>3 DEF TypeOK
<1>6. ASSUME NEW switchOff \in BOOLEAN, N1Deregister(switchOff)
      PROVE  TypeOK'
  <2>1. GnbTypeOK' /\ UncTypeOK' /\ AppTypeOK'
    BY <1>6, Frames DEF N1Deregister
  <2>2. NasTypeOK'
    BY <1>6 DEF N1Deregister, TypeOK, NasTypeOK, ForgetNas
  <2>3. QueueTypeOK'
    BY <1>6, Queues DEF N1Deregister, N1Free, TypeOK, QueueTypeOK
  <2>4. ControlTypeOK'
    BY <1>6 DEF N1Deregister, TypeOK, ControlTypeOK
  <2>. QED  BY <2>1, <2>2, <2>3, <2>4 DEF TypeOK
<1>. QED  BY <1>1, <1>2, <1>3, <1>4, <1>5, <1>6, <1>7, <1>8, <1>9, <1>10 DEF AppStep, N1Step

\* A step of the system, or none, keeps the types.
LEMMA NextType == TypeOK /\ JobRan /\ [Next]_vars => TypeOK'
<1>1. ASSUME TypeOK, JobRan, Next
      PROVE  TypeOK'
  BY <1>1, GnbStepType, N2StepType, TaskStepType DEF Next
<1>2. ASSUME TypeOK, UNCHANGED vars
      PROVE  TypeOK'
  <2>1. GnbTypeOK' /\ UncTypeOK' /\ NasTypeOK' /\ AppTypeOK' /\ QueueTypeOK'
    BY <1>2, Frames DEF vars
  <2>2. ControlTypeOK'
    BY <1>2 DEF vars, TypeOK, ControlTypeOK
  <2>. QED  BY <2>1, <2>2 DEF TypeOK
<1>. QED  BY <1>1, <1>2

-----------------------------------------------------------------------------
(* An AMF UE NGAP ID belongs to one RAN UE NGAP ID.                        *)

Owned(r, m) == <<r, m>> \in ueCtx

\* A context found under a RAN id is an allocated one and carries that RAN id.
RanInv == \A r \in RanIds : ran2unc[r] # 0 => ran2unc[r] <= nUnc /\ unc[ran2unc[r]].ran = r

\* amf_app made at most one ue_context per AMF id, and only for generated ids.
PairInv ==
    /\ \A r, q \in RanIds, m \in AmfIds : Owned(r, m) /\ Owned(q, m) => r = q
    /\ \A r \in RanIds, m \in AmfIds : Owned(r, m) => m < nextAmf

\* Whoever holds a RAN id and an AMF id together holds such a pair; a NAS context
\* that is still bare holds neither.
UncInv == \A o \in Objs : unc[o].amf # 0 => Owned(unc[o].ran, unc[o].amf)
AmfInv == \A m \in AmfIds : amf2unc[m] # 0 =>
              amf2unc[m] <= nUnc /\ Owned(unc[amf2unc[m]].ran, m)
NasInv == \A m \in AmfIds : nas[m].ran # 0 => Owned(nas[m].ran, m)
AppInv == appJob # NoApp =>
    /\ Owned(appJob.ran, appJob.amf)
    /\ appJob.step \in {"write", "store"} =>
          appJob.obj \in 1..nUnc /\ unc[appJob.obj].ran = appJob.ran
N1Inv == n1job # NoN1 => Owned(n1job.ran, n1job.amf)
ViewInv == \A a \in Assocs, r \in RanIds : view[a][r] > 0 => Owned(r, view[a][r])
N1Owned == {x \in N1Msgs : Owned(x.ran, x.amf)}
N2Owned == {x \in N2Msgs : Owned(x.ran, x.amf)}
QueueInv == n1q \in Seq(N1Owned) /\ n2q \in Seq(N2Owned)

IdInv == /\ RanInv /\ PairInv /\ UncInv /\ AmfInv /\ NasInv /\ AppInv /\ N1Inv
         /\ ViewInv /\ QueueInv

\* An AMF id has one owner.
LEMMA OneOwner ==
    ASSUME TypeOK, IdInv, NEW r, NEW q, NEW m, Owned(r, m), Owned(q, m)
    PROVE  r = q /\ r \in RanIds /\ m \in AmfIds
<1>1. r \in RanIds /\ q \in RanIds /\ m \in AmfIds
  BY DEF Owned, TypeOK, AppTypeOK
<1>. QED  BY <1>1 DEF IdInv, PairInv

LEMMA IdInvImplies == TypeOK /\ IdInv => AmfIdKeepsItsRanId
<1>. SUFFICES ASSUME TypeOK, IdInv
              PROVE  AmfIdKeepsItsRanId
  OBVIOUS
<1>a. \A m \in AmfIds : m # 0
  BY DEF AmfIds
<1>b. \A q \in RanIds : ran2unc[q] # 0 =>
          /\ unc[ran2unc[q]].ran = q
          /\ unc[ran2unc[q]].amf \in AmfIds \cup {0}
          /\ unc[ran2unc[q]].amf # 0 => Owned(q, unc[ran2unc[q]].amf)
  BY NgapConstants DEF NgapConstants, IdInv, RanInv, UncInv, TypeOK, UncTypeOK, Objs, UncRecs
<1>c. amf2nas \subseteq AmfIds /\ \A m \in AmfIds : nas[m].ran # 0 => Owned(nas[m].ran, m)
  BY DEF TypeOK, NasTypeOK, IdInv, NasInv
<1>1. ASSUME NEW r \in RanIds, ran2unc[r] # 0
      PROVE  LET m == unc[ran2unc[r]].amf IN
             /\ unc[ran2unc[r]].ran = r
             /\ m # 0 => \A q \in RanIds :
                   ran2unc[q] # 0 /\ unc[ran2unc[q]].amf = m => q = r
             /\ m \in amf2nas => nas[m].ran \in {0, r}
  <2>. DEFINE m == unc[ran2unc[r]].amf
  <2>1. m # 0 => Owned(r, m)
    BY <1>1, <1>b
  <2>2. ASSUME m # 0, NEW q \in RanIds, ran2unc[q] # 0, unc[ran2unc[q]].amf = m
        PROVE  q = r
    <3>1. Owned(q, m)
      BY <1>b, <2>2
    <3>. QED  BY <2>1, <2>2, <3>1, OneOwner
  <2>3. ASSUME m \in amf2nas, nas[m].ran # 0
        PROVE  nas[m].ran = r
    <3>1. m # 0 /\ Owned(nas[m].ran, m)
      BY <1>a, <1>c, <2>3
    <3>. QED  BY <2>1, <3>1, OneOwner
  <2>4. unc[ran2unc[r]].ran = r
    BY <1>1, <1>b
  <2>. QED  BY <2>2, <2>3, <2>4
<1>2. ASSUME NEW m \in amf2nas, amf2unc[m] # 0
      PROVE  nas[m].ran \in {0, unc[amf2unc[m]].ran}
  <2>1. Owned(unc[amf2unc[m]].ran, m)
    BY <1>2, <1>c DEF IdInv, AmfInv
  <2>2. nas[m].ran # 0 => Owned(nas[m].ran, m)
    BY <1>c
  <2>. QED  BY <2>1, <2>2, OneOwner
<1>. QED  BY <1>1, <1>2 DEF AmfIdKeepsItsRanId

LEMMA InitIdInv == Init => IdInv
  BY NgapConstants, EmptySeq DEF NgapConstants, Init, IdInv, RanInv, PairInv, UncInv, AmfInv,
     NasInv, AppInv, N1Inv, ViewInv, QueueInv, N1Owned, N2Owned, Owned, Free, NoApp, NoN1, Objs

\* A part whose variables a step leaves alone, while ueCtx may grow, stays true.
LEMMA IdFrames ==
    ASSUME TypeOK, TypeOK', IdInv, ueCtx \subseteq ueCtx'
    PROVE  /\ UNCHANGED <<unc, nUnc, ran2unc>> => RanInv' /\ UncInv'
           /\ UNCHANGED <<unc, nUnc, amf2unc>> => AmfInv'
           /\ UNCHANGED <<ueCtx, nextAmf>> => PairInv'
           /\ UNCHANGED nas => NasInv'
           /\ UNCHANGED <<unc, nUnc, appJob>> => AppInv'
           /\ UNCHANGED n1job => N1Inv'
           /\ UNCHANGED view => ViewInv'
           /\ UNCHANGED <<n1q, n2q>> => QueueInv'
<1>. USE DEF Owned
<1>1. UNCHANGED <<unc, nUnc, ran2unc>> => RanInv' /\ UncInv'
  BY DEF IdInv, RanInv, UncInv
<1>2. UNCHANGED <<ueCtx, nextAmf>> => PairInv'
  BY DEF IdInv, PairInv
<1>3. UNCHANGED nas => NasInv'
  BY DEF IdInv, NasInv
<1>4. UNCHANGED <<unc, nUnc, appJob>> => AppInv'
  BY DEF IdInv, AppInv
<1>5. UNCHANGED view => ViewInv'
  BY DEF IdInv, ViewInv
<1>6. UNCHANGED <<n1q, n2q>> => QueueInv'
  <2>1. N1Owned \subseteq N1Owned' /\ N2Owned \subseteq N2Owned'
    BY DEF N1Owned, N2Owned, N1Msgs, N2Msgs
  <2>. QED  BY <2>1, SeqMonotonic DEF IdInv, QueueInv
<1>7. UNCHANGED <<unc, nUnc, amf2unc>> => AmfInv'
  BY DEF IdInv, AmfInv
<1>8. UNCHANGED n1job => N1Inv'
  BY DEF IdInv, N1Inv
<1>. QED  BY <1>1, <1>2, <1>3, <1>4, <1>5, <1>6, <1>7, <1>8

\* The same for those who hold a context, while the contexts keep their RAN ids and
\* more are allocated.
LEMMA IdKeeps ==
    ASSUME TypeOK, TypeOK', IdInv, ueCtx' = ueCtx, nUnc' >= nUnc,
           \A o \in 1..nUnc : unc'[o].ran = unc[o].ran
    PROVE  /\ UNCHANGED amf2unc => AmfInv'
           /\ UNCHANGED appJob => AppInv'
<1>. USE DEF Owned
<1>a. nUnc \in Nat /\ nUnc' \in Nat /\ \A m \in AmfIds : amf2unc[m] \in Nat
  BY NgapConstants DEF NgapConstants, TypeOK, UncTypeOK
<1>1. ASSUME UNCHANGED amf2unc
      PROVE  AmfInv'
  <2>. SUFFICES ASSUME NEW m \in AmfIds, amf2unc[m] # 0
                PROVE  amf2unc[m] <= nUnc' /\ <<unc'[amf2unc[m]].ran, m>> \in ueCtx
    BY <1>1 DEF AmfInv
  <2>1. amf2unc[m] <= nUnc /\ <<unc[amf2unc[m]].ran, m>> \in ueCtx
    BY DEF IdInv, AmfInv
  <2>2. amf2unc[m] \in 1..nUnc
    BY <1>a, <2>1
  <2>. QED  BY <1>a, <2>1, <2>2
<1>2. ASSUME UNCHANGED appJob
      PROVE  AppInv'
  <2>1. ASSUME appJob.obj \in 1..nUnc
        PROVE  appJob.obj \in 1..nUnc' /\ unc'[appJob.obj].ran = unc[appJob.obj].ran
    BY <1>a, <2>1
  <2>. QED  BY <1>2, <2>1 DEF IdInv, AppInv
<1>. QED  BY <1>1, <1>2

\* A release only takes entries away.
LEMMA ReleaseTakes ==
    ASSUME TypeOK, ReleaseStep
    PROVE  /\ UNCHANGED <<procs, gnbVars, unc, nUnc, nas, n1job, appVars, queues, view, alive>>
           /\ amf2nas' \subseteq amf2nas
           /\ \A r \in RanIds : ran2unc'[r] \in {0, ran2unc[r]}
           /\ \A m \in AmfIds : amf2unc'[m] \in {0, amf2unc[m]}
<1>. USE DEF uncVars, nasVars
<1>1. ASSUME NEW o \in Objs, ReleaseByAmf(o)
      PROVE  /\ UNCHANGED <<procs, gnbVars, unc, nUnc, nas, n1job, appVars, queues, view, alive>>
             /\ UNCHANGED <<amf2nas, ran2unc, amf2unc>>
  BY <1>1 DEF ReleaseByAmf
<1>2. ReleaseByRan => /\ UNCHANGED <<procs, gnbVars, unc, nUnc, nas, n1job, appVars, queues, view, alive>>
                      /\ UNCHANGED <<amf2nas, ran2unc, amf2unc>>
  BY DEF ReleaseByRan
<1>3. RemoveNas => /\ UNCHANGED <<procs, gnbVars, unc, nUnc, nas, n1job, appVars, queues, view, alive>>
                   /\ UNCHANGED <<ran2unc, amf2unc>> /\ amf2nas' \subseteq amf2nas
  BY DEF RemoveNas, ForgetNas
<1>. ran2unc \in [RanIds -> 0..MaxUnc] /\ amf2unc \in [AmfIds -> 0..MaxUnc]
  BY DEF TypeOK, UncTypeOK
<1>4. RemoveRanOfNas =>
        /\ UNCHANGED <<procs, gnbVars, unc, nUnc, nas, n1job, appVars, queues, view, alive>>
        /\ UNCHANGED <<amf2nas, amf2unc>>
        /\ \A r \in RanIds : ran2unc'[r] \in {0, ran2unc[r]}
  BY DEF RemoveRanOfNas
<1>5. RemoveAmf =>
        /\ UNCHANGED <<procs, gnbVars, unc, nUnc, nas, n1job, appVars, queues, view, alive>>
        /\ UNCHANGED <<amf2nas, ran2unc>>
        /\ \A m \in AmfIds : amf2unc'[m] \in {0, amf2unc[m]}
  BY DEF RemoveAmf
<1>6. RemoveRan =>
        /\ UNCHANGED <<procs, gnbVars, unc, nUnc, nas, n1job, appVars, queues, view, alive>>
        /\ UNCHANGED <<amf2nas, amf2unc>>
        /\ \A r \in RanIds : ran2unc'[r] \in {0, ran2unc[r]}
  BY DEF RemoveRan
<1>. QED  BY <1>1, <1>2, <1>3, <1>4, <1>5, <1>6 DEF ReleaseStep

\* What TASK_AMF_N1 and TASK_AMF_N2 take from a queue is owned, and an owned pair
\* can be put in.
LEMMA OwnedQueues ==
    ASSUME TypeOK, IdInv
    PROVE  /\ n1q # <<>> => Owned(Head(n1q).ran, Head(n1q).amf) /\ Tail(n1q) \in Seq(N1Owned)
           /\ n2q # <<>> => Owned(Head(n2q).ran, Head(n2q).amf) /\ Tail(n2q) \in Seq(N2Owned)
           /\ \A b \in BOOLEAN, r \in RanIds, m \in AmfIds : Owned(r, m) =>
                 Append(n1q, [estab |-> b, ran |-> r, amf |-> m]) \in Seq(N1Owned)
           /\ \A r \in RanIds, m \in AmfIds : Owned(r, m) =>
                 /\ Append(n2q, ToN2("dl", r, m)) \in Seq(N2Owned)
                 /\ n2q \o <<>> \o <<ToN2("release", r, m)>> \in Seq(N2Owned)
                 /\ n2q \o <<ToN2("dl", r, m)>> \o <<ToN2("release", r, m)>> \in Seq(N2Owned)
<1>. n1q \in Seq(N1Owned) /\ n2q \in Seq(N2Owned)
  BY DEF IdInv, QueueInv
<1>1. n1q # <<>> => Head(n1q) \in N1Owned /\ Tail(n1q) \in Seq(N1Owned)
  BY QueueOps
<1>2. n2q # <<>> => Head(n2q) \in N2Owned /\ Tail(n2q) \in Seq(N2Owned)
  BY QueueOps
<1>3. \A b \in BOOLEAN, r \in RanIds, m \in AmfIds :
          Owned(r, m) => [estab |-> b, ran |-> r, amf |-> m] \in N1Owned
  BY DEF N1Msgs, N1Owned
<1>4. \A type \in {"dl", "release"}, r \in RanIds, m \in AmfIds :
          Owned(r, m) => ToN2(type, r, m) \in N2Owned
  BY DEF N2Msgs, N2Owned, ToN2
<1>5. \A b \in BOOLEAN, r \in RanIds, m \in AmfIds : Owned(r, m) =>
          Append(n1q, [estab |-> b, ran |-> r, amf |-> m]) \in Seq(N1Owned)
  BY <1>3, QueueOps
<1>6. ASSUME NEW r \in RanIds, NEW m \in AmfIds, Owned(r, m)
      PROVE  /\ Append(n2q, ToN2("dl", r, m)) \in Seq(N2Owned)
             /\ n2q \o <<>> \o <<ToN2("release", r, m)>> \in Seq(N2Owned)
             /\ n2q \o <<ToN2("dl", r, m)>> \o <<ToN2("release", r, m)>> \in Seq(N2Owned)
  <2>1. \A e \in N2Owned : Append(n2q, e) \in Seq(N2Owned) /\ <<e>> \in Seq(N2Owned)
    BY QueueOps
  <2>2. <<>> \in Seq(N2Owned)
    BY EmptySeq
  <2>3. \A s, t \in Seq(N2Owned) : s \o t \in Seq(N2Owned)
    BY ConcatProperties
  <2>. QED  BY <1>4, <1>6, <2>1, <2>2, <2>3
<1>. QED  BY <1>1, <1>2, <1>5, <1>6 DEF N1Owned, N2Owned

\* The steps of the gNBs and of the receiver thread keep every AMF id with its UE.
LEMMA GnbStepIds ==
    ASSUME TypeOK, TypeOK', IdInv, NEW a \in Assocs, GnbStep(a)
    PROVE  IdInv'
<1>. USE DEF gnbVars, uncVars, nasVars, appVars, queues
<1>1. CASE SctpNewAssociation(a)
  <2>1. RanInv' /\ UncInv' /\ AmfInv' /\ PairInv' /\ NasInv' /\ AppInv' /\ N1Inv' /\ ViewInv' /\ QueueInv'
    BY <1>1, IdFrames DEF SctpNewAssociation
  <2>. QED  BY <2>1 DEF IdInv
<1>2. CASE NgSetup(a)
  <2>1. RanInv' /\ UncInv' /\ AmfInv' /\ PairInv' /\ NasInv' /\ AppInv' /\ N1Inv' /\ ViewInv' /\ QueueInv'
    BY <1>2, IdFrames DEF NgSetup
  <2>. QED  BY <2>1 DEF IdInv
<1>3. CASE NgResetAll(a)
  <2>1. RanInv' /\ UncInv' /\ AmfInv' /\ PairInv' /\ NasInv' /\ AppInv' /\ N1Inv' /\ QueueInv'
    BY <1>3, IdFrames DEF NgResetAll
  <2>2. ViewInv'
    BY <1>3 DEF NgResetAll, IdInv, ViewInv, Owned, Free, TypeOK, ControlTypeOK
  <2>. QED  BY <2>1, <2>2 DEF IdInv
<1>4. CASE NgShutdown(a)
  <2>1. RanInv' /\ UncInv' /\ AmfInv' /\ PairInv' /\ NasInv' /\ AppInv' /\ N1Inv' /\ QueueInv'
    BY <1>4, IdFrames DEF NgShutdown
  <2>2. ViewInv'
    BY <1>4 DEF NgShutdown, IdInv, ViewInv, Owned, Free, TypeOK, ControlTypeOK
  <2>. QED  BY <2>1, <2>2 DEF IdInv
<1>5. ASSUME NEW r \in RanIds, NEW byAmf \in BOOLEAN, NgResetPart(a, r, byAmf)
      PROVE  IdInv'
  <2>1. RanInv' /\ UncInv' /\ AmfInv' /\ PairInv' /\ NasInv' /\ AppInv' /\ N1Inv' /\ QueueInv'
    BY <1>5, IdFrames DEF NgResetPart
  <2>2. ViewInv'
    BY <1>5 DEF NgResetPart, IdInv, ViewInv, Owned, Free, TypeOK, ControlTypeOK
  <2>. QED  BY <2>1, <2>2 DEF IdInv
<1>6. ASSUME NEW r \in RanIds, NEW complete \in BOOLEAN, InitialUeMessage(a, r, complete)
      PROVE  IdInv'
  <2>1. PairInv' /\ NasInv' /\ N1Inv' /\ QueueInv'
    BY <1>6, IdFrames DEF InitialUeMessage
  <2>2. /\ RanInv' /\ UncInv'
        /\ nUnc' >= nUnc /\ \A o \in 1..nUnc : unc'[o].ran = unc[o].ran
    <3>. /\ unc \in [Objs -> UncRecs] /\ nUnc \in 0..MaxUnc
         /\ ran2unc \in [RanIds -> 0..MaxUnc]
         /\ RanInv /\ UncInv /\ ueCtx' = ueCtx
      BY <1>6 DEF InitialUeMessage, TypeOK, UncTypeOK, IdInv, appVars
    <3>1. CASE ran2unc[r] = 0
      <4>1. /\ nUnc + 1 \in Objs /\ nUnc' = nUnc + 1
            /\ ran2unc' = [ran2unc EXCEPT ![r] = nUnc + 1]
            /\ unc' = [unc EXCEPT ![nUnc + 1] = [ran |-> r, amf |-> 0, assoc |-> a]]
        BY <1>6, <3>1, NgapConstants DEF InitialUeMessage, Objs, NgapConstants
      <4>2. UncInv'
        BY <4>1 DEF UncInv, Owned
      <4>3. RanInv'
        BY <4>1, NgapConstants DEF RanInv, NgapConstants, Objs
      <4>4. nUnc' >= nUnc /\ \A o \in 1..nUnc : unc'[o].ran = unc[o].ran
        BY <4>1, NgapConstants DEF NgapConstants, Objs
      <4>. QED  BY <4>2, <4>3, <4>4
    <3>2. CASE ran2unc[r] # 0
      <4>. ran2unc[r] \in Objs /\ unc[ran2unc[r]].ran = r
        BY <3>2, NgapConstants DEF Objs, NgapConstants, RanInv
      <4>1. /\ nUnc' = nUnc /\ ran2unc' = ran2unc
            /\ unc' = [unc EXCEPT ![ran2unc[r]].ran = r, ![ran2unc[r]].assoc = a]
        BY <1>6, <3>2 DEF InitialUeMessage
      <4>2. \A o \in Objs : unc'[o].ran = unc[o].ran /\ unc'[o].amf = unc[o].amf
        BY <4>1 DEF UncRecs
      <4>3. RanInv' /\ UncInv'
        BY SMTT(40), <4>1, <4>2, NgapConstants DEF RanInv, UncInv, Owned, Objs, NgapConstants
      <4>4. nUnc' >= nUnc /\ \A o \in 1..nUnc : unc'[o].ran = unc[o].ran
        BY <4>1, <4>2, NgapConstants DEF Objs, NgapConstants
      <4>. QED  BY <4>3, <4>4
    <3>. QED  BY <3>1, <3>2
  <2>3. ViewInv'
    BY <1>6 DEF InitialUeMessage, IdInv, ViewInv, Owned, Free, TypeOK, ControlTypeOK
  <2>4. AmfInv' /\ AppInv'
    BY <1>6, <2>2, IdKeeps DEF InitialUeMessage
  <2>. QED  BY <2>1, <2>2, <2>3, <2>4 DEF IdInv
<1>7. ASSUME NEW r \in RanIds, UplinkNasTransport(a, r)
      PROVE  IdInv'
  <2>1. RanInv' /\ UncInv' /\ AmfInv' /\ PairInv' /\ NasInv' /\ AppInv' /\ N1Inv' /\ ViewInv'
    BY <1>7, IdFrames DEF UplinkNasTransport
  <2>2. QueueInv'
    <3>1. view[a][r] \in AmfIds /\ Owned(r, view[a][r])
      BY <1>7 DEF UplinkNasTransport, TypeOK, ControlTypeOK, Free, IdInv, ViewInv
    <3>2. n1q' \in Seq(N1Owned) /\ n2q' \in Seq(N2Owned) /\ N1Owned' = N1Owned /\ N2Owned' = N2Owned
      BY <1>7, <3>1, OwnedQueues DEF UplinkNasTransport, IdInv, QueueInv, N1Owned, N2Owned, Owned
    <3>. QED  BY <3>2 DEF QueueInv
  <2>. QED  BY <2>1, <2>2 DEF IdInv
<1>8. ASSUME NEW r \in RanIds, GnbReleasesUe(a, r)
      PROVE  IdInv'
  <2>1. RanInv' /\ UncInv' /\ AmfInv' /\ PairInv' /\ NasInv' /\ AppInv' /\ N1Inv' /\ QueueInv'
    BY <1>8, IdFrames DEF GnbReleasesUe
  <2>2. ViewInv'
    BY <1>8 DEF GnbReleasesUe, IdInv, ViewInv, Owned, Free, TypeOK, ControlTypeOK
  <2>. QED  BY <2>1, <2>2 DEF IdInv
<1>. QED  BY <1>1, <1>2, <1>3, <1>4, <1>5, <1>6, <1>7, <1>8 DEF GnbStep

\* The steps of TASK_AMF_N2 do.
LEMMA N2StepIds ==
    ASSUME TypeOK, TypeOK', IdInv, N2Step
    PROVE  IdInv'
<1>. USE DEF gnbVars, uncVars, nasVars, appVars, queues
<1>1. CASE ReleaseStep
  <2>1. PairInv' /\ NasInv' /\ AppInv' /\ N1Inv' /\ ViewInv' /\ QueueInv'
    BY <1>1, ReleaseTakes, IdFrames
  <2>2. /\ UNCHANGED <<unc, nUnc, ueCtx>>
        /\ \A r \in RanIds : ran2unc'[r] \in {0, ran2unc[r]}
        /\ \A m \in AmfIds : amf2unc'[m] \in {0, amf2unc[m]}
    BY <1>1, ReleaseTakes
  <2>3. RanInv' /\ UncInv' /\ AmfInv'
    BY <2>2 DEF IdInv, RanInv, UncInv, AmfInv, Owned
  <2>. QED  BY <2>1, <2>3 DEF IdInv
<1>3. CASE ReleaseDone
  <2>1. RanInv' /\ UncInv' /\ AmfInv' /\ PairInv' /\ NasInv' /\ AppInv' /\ N1Inv' /\ ViewInv' /\ QueueInv'
    BY <1>3, IdFrames DEF ReleaseDone
  <2>. QED  BY <2>1 DEF IdInv
<1>5. CASE N2Drop
  <2>1. RanInv' /\ UncInv' /\ AmfInv' /\ PairInv' /\ NasInv' /\ AppInv' /\ N1Inv' /\ ViewInv'
    BY <1>5, IdFrames DEF N2Drop
  <2>2. QueueInv'
    <3>1. n1q' \in Seq(N1Owned) /\ n2q' \in Seq(N2Owned) /\ N1Owned' = N1Owned /\ N2Owned' = N2Owned
      BY <1>5, OwnedQueues DEF N2Drop, IdInv, QueueInv, N1Owned, N2Owned, Owned
    <3>. QED  BY <3>1 DEF QueueInv
  <2>. QED  BY <2>1, <2>2 DEF IdInv
<1>6. CASE DownlinkNasTransport
  <2>1. PairInv' /\ NasInv' /\ N1Inv'
    BY Zenon, <1>6, IdFrames DEF DownlinkNasTransport
  <2>2. RanInv' /\ UncInv' /\ AmfInv' /\ AppInv'
    <3>. DEFINE o == ran2unc[Head(n2q).ran]
    <3>a. Head(n2q).ran \in RanIds /\ Owned(Head(n2q).ran, Head(n2q).amf) /\ o # 0
      BY Zenon, <1>6, Queues, OwnedQueues DEF DownlinkNasTransport
    <3>b. \A r \in RanIds : ran2unc[r] # 0 => ran2unc[r] \in Objs
      BY NgapConstants DEF NgapConstants, TypeOK, UncTypeOK, Objs
    <3>c. \A r \in RanIds : ran2unc[r] # 0 => unc[ran2unc[r]].ran = r
      BY DEF IdInv, RanInv
    <3>1. o \in Objs /\ unc[o].ran = Head(n2q).ran /\ Owned(Head(n2q).ran, Head(n2q).amf)
      BY <3>a, <3>b, <3>c
    <3>2. /\ unc' = [unc EXCEPT ![o].amf = Head(n2q).amf] /\ unc \in [Objs -> UncRecs]
          /\ ran2unc' = ran2unc /\ nUnc' = nUnc /\ ueCtx' = ueCtx
      BY Zenon, <1>6 DEF DownlinkNasTransport, TypeOK, UncTypeOK
    <3>3. \A x \in Objs : /\ unc'[x].ran = unc[x].ran
                          /\ unc'[x].amf = IF x = o THEN Head(n2q).amf ELSE unc[x].amf
      BY <3>1, <3>2 DEF UncRecs
    <3>. HIDE DEF o
    <3>4. RanInv'
      BY <3>2, <3>3, <3>b DEF IdInv, RanInv
    <3>5. UncInv'
      BY <3>1, <3>2, <3>3 DEF IdInv, UncInv, Owned
    <3>6. nUnc' >= nUnc /\ \A x \in 1..nUnc : unc'[x].ran = unc[x].ran
      BY <3>2, <3>3, NgapConstants DEF NgapConstants, Objs, TypeOK, UncTypeOK
    <3>7. appJob' = appJob /\ amf2unc' = [amf2unc EXCEPT ![Head(n2q).amf] = o]
      BY Zenon, <1>6 DEF DownlinkNasTransport, o
    <3>8. AppInv'
      BY <3>2, <3>6, <3>7, IdKeeps
    <3>9. o <= nUnc
      BY <3>a DEF IdInv, RanInv, o
    <3>10. AmfInv'
      <4>. SUFFICES ASSUME NEW m \in AmfIds, amf2unc'[m] # 0
                    PROVE  amf2unc'[m] <= nUnc /\ <<unc'[amf2unc'[m]].ran, m>> \in ueCtx
        BY <3>2 DEF AmfInv, Owned
      <4>1. CASE amf2unc'[m] = amf2unc[m]
        <5>1. amf2unc[m] <= nUnc /\ <<unc[amf2unc[m]].ran, m>> \in ueCtx
          BY <4>1 DEF IdInv, AmfInv, Owned
        <5>2. amf2unc[m] \in 1..nUnc
          BY <4>1, <5>1 DEF TypeOK, UncTypeOK
        <5>. QED  BY <3>6, <4>1, <5>1, <5>2
      <4>2. CASE amf2unc'[m] # amf2unc[m]
        <5>1. m = Head(n2q).amf /\ amf2unc'[m] = o
          BY <3>7, <4>2 DEF TypeOK, UncTypeOK
        <5>. QED  BY <3>1, <3>3, <3>9, <5>1 DEF Owned
      <4>. QED  BY <4>1, <4>2
    <3>. QED  BY <3>4, <3>5, <3>8, <3>10
  <2>3. ViewInv'
    <3>1. /\ Head(n2q).ran \in RanIds /\ Owned(Head(n2q).ran, Head(n2q).amf)
          /\ ueCtx' = ueCtx
      BY Zenon, <1>6, Queues, OwnedQueues DEF DownlinkNasTransport
    <3>. DEFINE a == unc[ran2unc[Head(n2q).ran]].assoc
    <3>2. /\ view \in [Assocs -> [RanIds -> AmfIds \cup {0, Free}]]
          /\ view' = [view EXCEPT ![a][Head(n2q).ran] = IF @ = Free THEN Free ELSE Head(n2q).amf]
      BY Zenon, <1>6 DEF DownlinkNasTransport, TypeOK, ControlTypeOK
    <3>. HIDE DEF a
    <3>3. ASSUME NEW b \in Assocs, NEW r \in RanIds
          PROVE  \/ view'[b][r] = view[b][r]
                 \/ r = Head(n2q).ran /\ view'[b][r] \in {Free, Head(n2q).amf}
      <4>1. CASE b = a
        BY <3>1, <3>2, <4>1
      <4>2. CASE b # a
        BY <3>2, <4>2
      <4>. QED  BY <4>1, <4>2
    <3>. QED  BY <3>1, <3>3 DEF IdInv, ViewInv, Owned, Free
  <2>4. QueueInv'
    <3>1. n1q' \in Seq(N1Owned) /\ n2q' \in Seq(N2Owned) /\ N1Owned' = N1Owned /\ N2Owned' = N2Owned
      BY Zenon, <1>6, OwnedQueues DEF DownlinkNasTransport, IdInv, QueueInv, N1Owned, N2Owned, Owned
    <3>. QED  BY <3>1 DEF QueueInv
  <2>. QED  BY <2>1, <2>2, <2>3, <2>4 DEF IdInv
<1>7. CASE UeContextReleaseCommand
  <2>1. RanInv' /\ UncInv' /\ AmfInv' /\ PairInv' /\ NasInv' /\ AppInv' /\ N1Inv'
    BY Zenon, <1>7, IdFrames DEF UeContextReleaseCommand
  <2>2. ViewInv'
    <3>. DEFINE a == unc[ran2unc[Head(n2q).ran]].assoc
    <3>1. /\ view \in [Assocs -> [RanIds -> AmfIds \cup {0, Free}]]
          /\ view' = [view EXCEPT ![a][Head(n2q).ran] = IF @ = Head(n2q).amf THEN Free ELSE @]
          /\ Head(n2q).ran \in RanIds /\ ueCtx' = ueCtx
      BY Zenon, <1>7, Queues DEF UeContextReleaseCommand, TypeOK, ControlTypeOK
    <3>. HIDE DEF a
    <3>2. \A b \in Assocs, r \in RanIds : view'[b][r] \in {view[b][r], Free}
      BY <3>1
    <3>. QED  BY <3>1, <3>2 DEF IdInv, ViewInv, Owned, Free
  <2>3. QueueInv'
    <3>1. n1q' \in Seq(N1Owned) /\ n2q' \in Seq(N2Owned) /\ N1Owned' = N1Owned /\ N2Owned' = N2Owned
      BY Zenon, <1>7, OwnedQueues DEF UeContextReleaseCommand, IdInv, QueueInv, N1Owned, N2Owned, Owned
    <3>. QED  BY <3>1 DEF QueueInv
  <2>. QED  BY <2>1, <2>2, <2>3 DEF IdInv
<1>. QED  BY <1>1, <1>3, <1>5, <1>6, <1>7 DEF N2Step

\* The steps of TASK_AMF_APP and TASK_AMF_N1 do.
LEMMA TaskStepIds ==
    ASSUME TypeOK, TypeOK', IdInv, AppStep \/ N1Step
    PROVE  IdInv'
<1>. USE DEF gnbVars, uncVars, nasVars, appVars, queues
<1>1. CASE AppEstablish
  <2>1. RanInv' /\ UncInv' /\ AmfInv' /\ NasInv' /\ N1Inv' /\ ViewInv' /\ QueueInv'
    BY <1>1, IdFrames DEF AppEstablish
  <2>2. PairInv' /\ AppInv'
    <3>. DEFINE r == Head(appq)
    <3>1. /\ r \in RanIds /\ nextAmf \in AmfIds
          /\ nextAmf' = nextAmf + 1 /\ ueCtx' = ueCtx \cup {<<r, nextAmf>>}
          /\ ueCtx \subseteq RanIds \X AmfIds
      BY <1>1, Queues, NgapConstants DEF AppEstablish, AmfIds, NgapConstants, TypeOK, AppTypeOK
    <3>2. \A q \in RanIds, m \in AmfIds : Owned(q, m)' <=> Owned(q, m) \/ (q = r /\ m = nextAmf)
      BY <3>1 DEF Owned
    <3>3. PairInv'
      BY <3>1, <3>2 DEF IdInv, PairInv, AmfIds
    <3>4. AppInv'
      BY <1>1, <3>1 DEF AppEstablish, AppGoesOn, AppInv, Owned
    <3>. QED  BY <3>3, <3>4
  <2>. QED  BY <2>1, <2>2 DEF IdInv
<1>a. appJob # NoApp => /\ appJob.ran \in RanIds /\ appJob.amf \in AmfIds
                        /\ appJob.step \in {"find", "write", "store", "send"}
                        /\ appJob.obj \in 0..MaxUnc
                        /\ Owned(appJob.ran, appJob.amf)
  BY DEF IdInv, AppInv, TypeOK, AppTypeOK
<1>b. appJob.step # "none" => appJob # NoApp
  BY DEF NoApp
<1>c. \A r \in RanIds : ran2unc[r] # 0 => ran2unc[r] \in 1..nUnc /\ unc[ran2unc[r]].ran = r
  BY NgapConstants DEF NgapConstants, TypeOK, UncTypeOK, IdInv, RanInv
<1>2. CASE AppFind
  <2>1. RanInv' /\ UncInv' /\ AmfInv' /\ PairInv' /\ NasInv' /\ N1Inv' /\ ViewInv' /\ QueueInv'
    BY <1>2, IdFrames DEF AppFind
  <2>2. /\ appJob' = [appJob EXCEPT !.step = "write", !.obj = ran2unc[appJob.ran]]
        /\ appJob # NoApp /\ ran2unc[appJob.ran] # 0 /\ UNCHANGED <<unc, nUnc, ueCtx>>
    BY <1>2, <1>b DEF AppFind
  <2>3. appJob \in [step : {"find", "write", "store", "send"}, ran : RanIds, amf : AmfIds,
                    obj : 0..MaxUnc]
    BY <2>2 DEF TypeOK, AppTypeOK
  <2>4. appJob'.ran = appJob.ran /\ appJob'.amf = appJob.amf /\ appJob'.obj = ran2unc[appJob.ran]
    BY <2>2, <2>3
  <2>5. AppInv'
    BY <1>a, <1>c, <2>2, <2>4 DEF AppInv, Owned
  <2>. QED  BY <2>1, <2>5 DEF IdInv
<1>7. CASE AppWrite
  <2>1. PairInv' /\ NasInv' /\ N1Inv' /\ ViewInv' /\ QueueInv'
    BY <1>7, IdFrames DEF AppWrite
  <2>. DEFINE o == appJob.obj
  <2>2. appJob # NoApp /\ o \in 1..nUnc /\ unc[o].ran = appJob.ran
    BY <1>7, <1>b DEF AppWrite, IdInv, AppInv
  <2>3. o \in Objs
    BY <2>2, NgapConstants DEF NgapConstants, Objs, TypeOK, UncTypeOK
  <2>4. /\ unc' = [unc EXCEPT ![o].amf = appJob.amf] /\ unc \in [Objs -> UncRecs]
        /\ ran2unc' = ran2unc /\ nUnc' = nUnc /\ ueCtx' = ueCtx /\ amf2unc' = amf2unc
    BY <1>7 DEF AppWrite, TypeOK, UncTypeOK
  <2>5. \A x \in Objs : /\ unc'[x].ran = unc[x].ran
                        /\ unc'[x].amf = IF x = o THEN appJob.amf ELSE unc[x].amf
    BY <2>3, <2>4 DEF UncRecs
  <2>6. nUnc' >= nUnc /\ \A x \in 1..nUnc : x \in Objs /\ unc'[x].ran = unc[x].ran
    BY <2>4, <2>5, NgapConstants DEF NgapConstants, Objs, TypeOK, UncTypeOK
  <2>. HIDE DEF o
  <2>7. RanInv'
    BY <1>c, <2>4, <2>6 DEF IdInv, RanInv
  <2>8. UncInv'
    BY <1>a, <2>2, <2>4, <2>5 DEF IdInv, UncInv, Owned
  <2>9. AmfInv'
    BY <2>4, <2>6, IdKeeps
  <2>10. AppInv'
    <3>1. appJob' = [appJob EXCEPT !.step = "store"]
      BY <1>7 DEF AppWrite
    <3>2. appJob'.ran = appJob.ran /\ appJob'.amf = appJob.amf /\ appJob'.obj = o
      BY <2>2, <3>1 DEF TypeOK, AppTypeOK, o
    <3>. QED  BY <1>a, <2>2, <2>4, <2>6, <3>2 DEF AppInv, Owned
  <2>. QED  BY <2>1, <2>7, <2>8, <2>9, <2>10 DEF IdInv
<1>8. CASE AppStore
  <2>1. RanInv' /\ UncInv' /\ PairInv' /\ NasInv' /\ N1Inv' /\ ViewInv' /\ QueueInv'
    BY <1>8, IdFrames DEF AppStore
  <2>. DEFINE o == appJob.obj
  <2>2. appJob # NoApp /\ o \in 1..nUnc /\ unc[o].ran = appJob.ran
    BY <1>8, <1>b DEF AppStore, IdInv, AppInv
  <2>3. /\ amf2unc' = [amf2unc EXCEPT ![appJob.amf] = o]
        /\ appJob' = [appJob EXCEPT !.step = "send", !.obj = 0]
        /\ UNCHANGED <<unc, nUnc, ueCtx>>
    BY <1>8 DEF AppStore
  <2>4. \A m \in AmfIds : amf2unc'[m] = IF m = appJob.amf THEN o ELSE amf2unc[m]
    BY <2>3 DEF TypeOK, UncTypeOK
  <2>5. o <= nUnc /\ Owned(unc[o].ran, appJob.amf)
    BY <1>a, <2>2 DEF TypeOK, UncTypeOK
  <2>. HIDE DEF o
  <2>6. AmfInv'
    BY <2>3, <2>4, <2>5 DEF IdInv, AmfInv, Owned
  <2>7. appJob'.ran = appJob.ran /\ appJob'.amf = appJob.amf /\ appJob'.step = "send"
    BY <2>2, <2>3 DEF TypeOK, AppTypeOK
  <2>8. AppInv'
    BY <1>a, <2>2, <2>3, <2>7 DEF AppInv, Owned
  <2>. QED  BY <2>1, <2>6, <2>8 DEF IdInv
<1>9. CASE AppSend
  <2>1. RanInv' /\ UncInv' /\ AmfInv' /\ PairInv' /\ NasInv' /\ N1Inv' /\ ViewInv'
    BY <1>9, IdFrames DEF AppSend
  <2>2. AppInv'
    BY <1>9 DEF AppSend, AppInv
  <2>3. QueueInv'
    <3>1. appJob # NoApp
      BY <1>9, <1>b DEF AppSend
    <3>2. n1q' \in Seq(N1Owned) /\ n2q' \in Seq(N2Owned) /\ N1Owned' = N1Owned /\ N2Owned' = N2Owned
      BY <1>9, <1>a, <3>1, OwnedQueues DEF AppSend, Establish, IdInv, QueueInv, N1Owned, N2Owned, Owned
    <3>. QED  BY <3>2 DEF QueueInv
  <2>. QED  BY <2>1, <2>2, <2>3 DEF IdInv
<1>3. CASE AppThrow
  <2>1. RanInv' /\ UncInv' /\ AmfInv' /\ PairInv' /\ NasInv' /\ AppInv' /\ N1Inv' /\ ViewInv' /\ QueueInv'
    BY <1>3, IdFrames DEF AppThrow
  <2>. QED  BY <2>1 DEF IdInv
<1>4. CASE N1Establish
  <2>1. RanInv' /\ UncInv' /\ AmfInv' /\ PairInv' /\ AppInv' /\ ViewInv'
    BY <1>4, IdFrames DEF N1Establish
  <2>2. NasInv'
    <3>1. Head(n1q).amf \in AmfIds /\ ueCtx' = ueCtx
      BY <1>4, Queues DEF N1Establish, N1Free
    <3>2. \A m \in AmfIds : nas'[m].ran \in {0, nas[m].ran}
      BY <1>4, <3>1 DEF N1Establish, TypeOK, NasTypeOK
    <3>. QED  BY <3>1, <3>2 DEF IdInv, NasInv, Owned
  <2>3. N1Inv'
    BY <1>4, Queues, OwnedQueues DEF N1Establish, N1Free, N1Inv, Owned
  <2>4. QueueInv'
    <3>1. n1q' \in Seq(N1Owned) /\ n2q' \in Seq(N2Owned) /\ N1Owned' = N1Owned /\ N2Owned' = N2Owned
      BY <1>4, Queues, OwnedQueues DEF N1Establish, N1Free, IdInv, QueueInv, N1Owned, N2Owned, Owned
    <3>. QED  BY <3>1 DEF QueueInv
  <2>. QED  BY <2>1, <2>2, <2>3, <2>4 DEF IdInv
<1>10. ASSUME NEW i \in Imsis \cup {0}, N1Fill(i)
       PROVE  IdInv'
  <2>1. RanInv' /\ UncInv' /\ AmfInv' /\ PairInv' /\ AppInv' /\ ViewInv'
    BY <1>10, IdFrames DEF N1Fill
  <2>2. /\ n1job.ran \in RanIds /\ n1job.amf \in AmfIds /\ Owned(n1job.ran, n1job.amf)
        /\ ueCtx' = ueCtx
    BY <1>10 DEF N1Fill, TypeOK, NasTypeOK, IdInv, N1Inv
  <2>3. NasInv'
    <3>1. \A m \in AmfIds : nas'[m].ran = IF m = n1job.amf THEN n1job.ran ELSE nas[m].ran
      BY <1>10, <2>2 DEF N1Fill, TypeOK, NasTypeOK
    <3>. QED  BY <2>2, <3>1 DEF IdInv, NasInv, Owned
  <2>4. N1Inv'
    BY <1>10 DEF N1Fill, N1Inv
  <2>5. QueueInv'
    <3>1. n1q' \in Seq(N1Owned) /\ n2q' \in Seq(N2Owned) /\ N1Owned' = N1Owned /\ N2Owned' = N2Owned
      BY <1>10, <2>2, OwnedQueues DEF N1Fill, IdInv, QueueInv, N1Owned, N2Owned, Owned
    <3>. QED  BY <3>1 DEF QueueInv
  <2>. QED  BY <2>1, <2>3, <2>4, <2>5 DEF IdInv
<1>5. ASSUME NEW answer \in BOOLEAN, N1Uplink(answer)
      PROVE  IdInv'
  <2>1. RanInv' /\ UncInv' /\ AmfInv' /\ PairInv' /\ NasInv' /\ AppInv' /\ N1Inv' /\ ViewInv'
    BY <1>5, IdFrames DEF N1Uplink
  <2>2. QueueInv'
    <3>1. n1q' \in Seq(N1Owned) /\ n2q' \in Seq(N2Owned) /\ N1Owned' = N1Owned /\ N2Owned' = N2Owned
      BY <1>5, Queues, OwnedQueues DEF N1Uplink, N1Free, IdInv, QueueInv, N1Owned, N2Owned, Owned
    <3>. QED  BY <3>1 DEF QueueInv
  <2>. QED  BY <2>1, <2>2 DEF IdInv
<1>6. ASSUME NEW switchOff \in BOOLEAN, N1Deregister(switchOff)
      PROVE  IdInv'
  <2>1. RanInv' /\ UncInv' /\ AmfInv' /\ PairInv' /\ NasInv' /\ AppInv' /\ N1Inv' /\ ViewInv'
    BY <1>6, IdFrames DEF N1Deregister
  <2>3. QueueInv'
    <3>1. n1q' \in Seq(N1Owned) /\ n2q' \in Seq(N2Owned) /\ N1Owned' = N1Owned /\ N2Owned' = N2Owned
      BY <1>6, Queues, OwnedQueues DEF N1Deregister, N1Free, IdInv, QueueInv, N1Owned, N2Owned, Owned
    <3>. QED  BY <3>1 DEF QueueInv
  <2>. QED  BY <2>1, <2>3 DEF IdInv
<1>. QED  BY <1>1, <1>2, <1>3, <1>4, <1>5, <1>6, <1>7, <1>8, <1>9, <1>10 DEF AppStep, N1Step

LEMMA NextIds == TypeOK /\ TypeOK' /\ IdInv /\ [Next]_vars => IdInv'
<1>1. ASSUME TypeOK, TypeOK', IdInv, Next
      PROVE  IdInv'
  BY <1>1, GnbStepIds, N2StepIds, TaskStepIds DEF Next
<1>2. ASSUME TypeOK, TypeOK', IdInv, UNCHANGED vars
      PROVE  IdInv'
  BY <1>2, IdFrames DEF vars, uncVars, nasVars, appVars, queues, IdInv
<1>. QED  BY <1>1, <1>2

-----------------------------------------------------------------------------
(* UEs are released where they are at home.                                *)

\* A UE is where the gNB that handed out its RAN id is: the context found under a
\* RAN id and the gNB's own record.
HomeInv ==
    /\ \A r \in RanIds : ran2unc[r] # 0 => r \in OwnRan[unc[ran2unc[r]].assoc]
    /\ \A a \in Assocs, r \in RanIds : view[a][r] # Free => r \in OwnRan[a]

\* What the invariants say of the context under a RAN id.
LEMMA AtRanId ==
    ASSUME TypeOK, IdInv, HomeInv, NEW r \in RanIds, ran2unc[r] # 0
    PROVE  /\ ran2unc[r] \in Objs /\ unc[ran2unc[r]].ran = r
           /\ unc[ran2unc[r]] \in UncRecs
           /\ r \in OwnRan[unc[ran2unc[r]].assoc]
BY NgapConstants DEF NgapConstants, TypeOK, UncTypeOK, Objs, IdInv, RanInv, HomeInv

\* HomeInv survives a step that only takes entries away, on either side.
LEMMA HomeShrink ==
    ASSUME TypeOK, HomeInv, \A r \in RanIds : ran2unc'[r] \in {0, ran2unc[r]},
           \A o \in Objs : unc'[o].assoc = unc[o].assoc,
           \A a \in Assocs, r \in RanIds : view'[a][r] # Free => view[a][r] # Free
    PROVE  HomeInv'
<1>1. \A r \in RanIds : ran2unc[r] # 0 => ran2unc[r] \in Objs
  BY NgapConstants DEF NgapConstants, TypeOK, UncTypeOK, Objs
<1>. QED  BY <1>1 DEF HomeInv

\* What the steps of the tasks leave of the contexts: their RAN ids and associations;
\* and under a RAN id the context that was there, or none.
LEMMA ContextsStay ==
    ASSUME TypeOK, N2Step \/ AppStep \/ N1Step
    PROVE  /\ \A o \in Objs : unc'[o].ran = unc[o].ran /\ unc'[o].assoc = unc[o].assoc
           /\ \A r \in RanIds : ran2unc'[r] \in {0, ran2unc[r]}
           /\ ueCtx \subseteq ueCtx'
<1>. USE DEF gnbVars, uncVars, nasVars, appVars, queues
<1>a. unc \in [Objs -> UncRecs]
  BY DEF TypeOK, UncTypeOK
<1>1. CASE N2Step
  <2>1. CASE ReleaseStep
    BY <2>1, ReleaseTakes
  <2>2. CASE DownlinkNasTransport
    <3>. DEFINE x == ran2unc[Head(n2q).ran]
    <3>1. /\ unc' = [unc EXCEPT ![x].amf = Head(n2q).amf]
          /\ ran2unc' = ran2unc /\ ueCtx' = ueCtx
      BY Zenon, <2>2 DEF DownlinkNasTransport
    <3>. HIDE DEF x
    <3>. QED  BY <3>1, <1>a DEF UncRecs
  <2>3. CASE ReleaseDone \/ N2Drop \/ UeContextReleaseCommand
    BY Zenon, <2>3 DEF ReleaseDone, N2Drop, UeContextReleaseCommand
  <2>. QED  BY <1>1, <2>1, <2>2, <2>3 DEF N2Step
<1>2. CASE AppStep
  <2>1. CASE AppWrite
    BY <2>1, <1>a DEF AppWrite, UncRecs
  <2>2. CASE AppEstablish
    BY <2>2 DEF AppEstablish
  <2>. QED  BY Zenon, <1>2, <2>1, <2>2 DEF AppStep, AppFind, AppThrow, AppStore, AppSend
<1>3. CASE N1Step
  BY Zenon, <1>3 DEF N1Step, N1Establish, N1Fill, N1Uplink, N1Deregister
<1>. QED  BY <1>1, <1>2, <1>3

LEMMA NextHome == TypeOK /\ IdInv /\ HomeInv /\ [Next]_vars => HomeInv'
<1>. SUFFICES ASSUME TypeOK, IdInv, HomeInv, [Next]_vars
              PROVE  HomeInv'
  OBVIOUS
<1>. USE DEF gnbVars, uncVars, nasVars, appVars, queues
<1>a. /\ unc \in [Objs -> UncRecs] /\ nUnc \in 0..MaxUnc
      /\ ran2unc \in [RanIds -> 0..MaxUnc]
      /\ view \in [Assocs -> [RanIds -> AmfIds \cup {0, Free}]]
  BY DEF TypeOK, UncTypeOK, ControlTypeOK
<1>s. UNCHANGED <<ran2unc, unc, view>> => HomeInv'
  BY DEF HomeInv
<1>1. ASSUME NEW a \in Assocs, GnbStep(a)
      PROVE  HomeInv'
  <2>1. CASE SctpNewAssociation(a)
    BY <2>1, <1>s DEF SctpNewAssociation
  <2>2. CASE NgSetup(a)
    BY <2>2, <1>s DEF NgSetup
  <2>3. CASE NgResetAll(a) \/ NgShutdown(a)
    <3>1. /\ view' = [view EXCEPT ![a] = [r \in RanIds |-> Free]]
          /\ UNCHANGED <<ran2unc, unc>>
      BY <2>3 DEF NgResetAll, NgShutdown
    <3>. QED  BY <3>1, <1>a DEF HomeInv
  <2>5. ASSUME NEW r \in RanIds, NEW byAmf \in BOOLEAN, NgResetPart(a, r, byAmf)
        PROVE  HomeInv'
    <3>1. view' = [view EXCEPT ![a][r] = Free] /\ unc' = unc /\ ran2unc' = ran2unc
      BY <2>5 DEF NgResetPart
    <3>2. \A b \in Assocs, q \in RanIds : view'[b][q] # Free => view[b][q] # Free
      BY <3>1, <1>a
    <3>. QED  BY <3>1, <3>2, HomeShrink
  <2>6. ASSUME NEW r \in RanIds, NEW complete \in BOOLEAN, InitialUeMessage(a, r, complete)
        PROVE  HomeInv'
    <3>1. r \in OwnRan[a] /\ view' = [view EXCEPT ![a][r] = 0]
      BY <2>6 DEF InitialUeMessage
    <3>2. \A b \in Assocs, q \in RanIds : view'[b][q] # Free => q \in OwnRan[b]
      BY <3>1, <1>a DEF HomeInv
    <3>3. CASE ran2unc[r] = 0
      <4>1. /\ nUnc + 1 \in Objs
            /\ ran2unc' = [ran2unc EXCEPT ![r] = nUnc + 1]
            /\ unc' = [unc EXCEPT ![nUnc + 1] = [ran |-> r, amf |-> 0, assoc |-> a]]
        BY <2>6, <3>3, <1>a, NgapConstants DEF InitialUeMessage, Objs, NgapConstants
      <4>2. /\ unc'[nUnc + 1].assoc = a
            /\ \A o \in Objs : o # nUnc + 1 => unc'[o].assoc = unc[o].assoc
        BY <4>1, <1>a
      <4>3. \A q \in RanIds : ran2unc[q] # 0 => ran2unc[q] \in Objs
        BY AtRanId
      <4>4. ran2unc'[r] = nUnc + 1 /\ \A q \in RanIds : q # r => ran2unc'[q] = ran2unc[q]
        BY <4>1, <1>a
      <4>5. \A q \in RanIds : ran2unc[q] # 0 => ran2unc[q] # nUnc + 1
        BY <1>a DEF IdInv, RanInv
      <4>6. ASSUME NEW q \in RanIds, ran2unc'[q] # 0
            PROVE  q \in OwnRan[unc'[ran2unc'[q]].assoc]
        <5>1. CASE q = r
          BY <5>1, <4>2, <4>4, <3>1
        <5>2. CASE q # r
          BY <5>2, <4>2, <4>3, <4>4, <4>5, <4>6 DEF HomeInv
        <5>. QED  BY <5>1, <5>2
      <4>. QED  BY <3>2, <4>6 DEF HomeInv
    <3>4. CASE ran2unc[r] # 0
      <4>. ran2unc[r] \in Objs
        BY <3>4, AtRanId
      <4>1. /\ ran2unc' = ran2unc
            /\ unc' = [unc EXCEPT ![ran2unc[r]].ran = r, ![ran2unc[r]].assoc = a]
        BY <2>6, <3>4 DEF InitialUeMessage
      <4>2. /\ unc'[ran2unc[r]].assoc = a
            /\ \A o \in Objs : o # ran2unc[r] => unc'[o].assoc = unc[o].assoc
        <5>1. unc' = [unc EXCEPT ![ran2unc[r]] =
                       [[unc[ran2unc[r]] EXCEPT !.ran = r] EXCEPT !.assoc = a]]
          BY <4>1, <1>a
        <5>2. [[unc[ran2unc[r]] EXCEPT !.ran = r] EXCEPT !.assoc = a].assoc = a
          BY <4>1, <1>a DEF UncRecs
        <5>. QED  BY <4>1, <5>1, <5>2, <1>a
      <4>3. \A q \in RanIds : ran2unc[q] # 0 /\ ran2unc[q] = ran2unc[r] => q = r
        BY AtRanId
      <4>4. \A q \in RanIds : ran2unc[q] # 0 => ran2unc[q] \in Objs
        BY AtRanId
      <4>. QED  BY ZenonT(40), <3>1, <3>2, <4>1, <4>2, <4>3, <4>4 DEF HomeInv
    <3>. QED  BY <3>3, <3>4
  <2>7. ASSUME NEW r \in RanIds, UplinkNasTransport(a, r)
        PROVE  HomeInv'
    BY <2>7, <1>s DEF UplinkNasTransport
  <2>8. ASSUME NEW r \in RanIds, GnbReleasesUe(a, r)
        PROVE  HomeInv'
    BY <2>8, <1>a DEF GnbReleasesUe, HomeInv
  <2>. QED  BY <1>1, <2>1, <2>2, <2>3, <2>5, <2>6, <2>7, <2>8 DEF GnbStep
<1>2. CASE N2Step
  <2>1. /\ \A r \in RanIds : ran2unc'[r] \in {0, ran2unc[r]}
        /\ \A o \in Objs : unc'[o].assoc = unc[o].assoc
    BY <1>2, ContextsStay
  <2>2. \A a \in Assocs, r \in RanIds : view'[a][r] # Free => view[a][r] # Free
    <3>1. ASSUME DownlinkNasTransport, NEW a \in Assocs, NEW r \in RanIds, view[a][r] = Free
          PROVE  view'[a][r] = Free
      <4>. DEFINE x == unc[ran2unc[Head(n2q).ran]].assoc
      <4>1. view' = [view EXCEPT ![x][Head(n2q).ran] = IF @ = Free THEN Free ELSE Head(n2q).amf]
        BY Zenon, <3>1 DEF DownlinkNasTransport
      <4>. HIDE DEF x
      <4>. QED  BY <4>1, <3>1, <1>a
    <3>2. ASSUME UeContextReleaseCommand, NEW a \in Assocs, NEW r \in RanIds, view[a][r] = Free
          PROVE  view'[a][r] = Free
      <4>. DEFINE x == unc[ran2unc[Head(n2q).ran]].assoc
      <4>1. view' = [view EXCEPT ![x][Head(n2q).ran] = IF @ = Head(n2q).amf THEN Free ELSE @]
        BY Zenon, <3>2 DEF UeContextReleaseCommand
      <4>. HIDE DEF x
      <4>. QED  BY <4>1, <3>2, <1>a
    <3>3. ReleaseStep => view' = view
      BY ReleaseTakes
    <3>. QED
      BY Zenon, <1>2, <3>1, <3>2, <3>3 DEF N2Step, ReleaseDone, N2Drop
  <2>. QED  BY <2>1, <2>2, HomeShrink
<1>3. CASE AppStep \/ N1Step
  <2>1. view' = view
    BY Zenon, <1>3 DEF AppStep, N1Step, AppEstablish, AppFind, AppThrow, AppWrite, AppStore, AppSend,
       N1Establish, N1Fill, N1Uplink, N1Deregister
  <2>2. /\ \A r \in RanIds : ran2unc'[r] \in {0, ran2unc[r]}
        /\ \A o \in Objs : unc'[o].assoc = unc[o].assoc
    BY <1>3, ContextsStay
  <2>. QED  BY <2>1, <2>2, HomeShrink
<1>. QED  BY <1>1, <1>2, <1>3, <1>s DEF Next, vars

-----------------------------------------------------------------------------
(* The release that TASK_AMF_N2 is in.                                     *)

\* Context o has a RAN id of the gNB on association a, and no other context is
\* found under it.
AtHome(a, o) == unc[o].ran \in OwnRan[a] /\ ran2unc[unc[o].ran] \in {0, o}

\* A release only works with UEs of its association: those to come, the one whose
\* turn it is, the AMF id it was given, and the NAS context it has read.
JobInv ==
    /\ n2job.kind = "none" => n2job = Idle
    /\ n2job.kind # "none" => n2job.assoc \in Assocs
    /\ n2job.kind = "part" => n2job.todo = {} /\ n2job.step # "ran.find"
    /\ \A o \in n2job.todo : AtHome(n2job.assoc, o)
    /\ n2job.step # "turn" =>
          /\ n2job.obj = 0 => n2job.kind = "part" /\ n2job.step \in {"amf.nas", "amf.ran", "amf.unc"}
          /\ n2job.obj # 0 => /\ AtHome(n2job.assoc, n2job.obj)
                              /\ n2job.ran = unc[n2job.obj].ran
    /\ n2job.step \in {"amf.nas", "amf.ran"} => HomeOf(n2job.nc, n2job.assoc)
    /\ n2job.step \in {"amf.nas", "amf.ran", "amf.unc"} /\ n2job.amf # 0 =>
          HomeOf(n2job.amf, n2job.assoc)

\* While a whole association is released, the contexts of it that are still found
\* under a RAN id are those to come and the one whose turn it is.
ClearInv ==
    n2job.kind \in {"reset", "shutdown"} =>
      \A r \in RanIds : ran2unc[r] # 0 /\ unc[ran2unc[r]].assoc = n2job.assoc =>
          ran2unc[r] \in n2job.todo \/ (n2job.step # "turn" /\ ran2unc[r] = n2job.obj)

\* The removal by RAN id is entered with a RAN id.
LEMMA JobInvRan == TypeOK /\ JobInv => JobRan
<1>. SUFFICES ASSUME TypeOK, JobInv, n2job.step = "ran.find"
              PROVE  n2job.ran \in RanIds
  BY DEF JobRan
<1>1. n2job.kind # "none"
  BY DEF JobInv, Idle, Job
<1>2. n2job.assoc \in Assocs /\ n2job.ran = unc[n2job.obj].ran /\ n2job.ran \in OwnRan[n2job.assoc]
  BY <1>1 DEF JobInv, AtHome
<1>. QED  BY <1>2, NgapConstants DEF NgapConstants

\* What looking a NAS context up does to the locals of a release.
LEMMA LookUpFields ==
    ASSUME NEW job \in JobRecs, NEW m, NEW found, NEW lost, NEW j,
           j = LookUpNas(job, m, found, lost)
    PROVE  /\ j.kind = job.kind /\ j.assoc = job.assoc /\ j.todo = job.todo
           /\ j.obj = job.obj /\ j.ran = job.ran /\ j.amf = job.amf
           /\ j.settled = job.settled
           /\ m \in amf2nas => j.step = found /\ j.nc = m
           /\ m \notin amf2nas => j.step = lost
<1>1. CASE m \in amf2nas
  <2>1. j = [job EXCEPT !.nc = m, !.imsi = nas[m].imsi, !.step = found]
    BY <1>1 DEF LookUpNas
  <2>. QED  BY <1>1, <2>1 DEF JobRecs
<1>2. CASE m \notin amf2nas
  BY <1>2 DEF LookUpNas, JobRecs
<1>. QED  BY <1>1, <1>2

LEMMA LookUpRanFields ==
    ASSUME TypeOK, NEW job \in JobRecs, job.ran \in RanIds, NEW j, j = LookUpByRan(job)
    PROVE  /\ j.kind = job.kind /\ j.assoc = job.assoc /\ j.todo = job.todo
           /\ ran2unc[job.ran] = 0 => j.step = "turn" /\ ~j.settled
           /\ ran2unc[job.ran] # 0 => /\ j.step \in {"ran.nas", "ran.unc"} /\ j.ran = job.ran
                                      /\ j.obj = ran2unc[job.ran] /\ j.settled = job.settled
<1>. DEFINE o == ran2unc[job.ran]
            k == [job EXCEPT !.obj = o]
<1>1. o \in 0..MaxUnc
  BY DEF TypeOK, UncTypeOK
<1>2. CASE o = 0
  BY <1>2 DEF LookUpByRan, EndTurn, Job
<1>3. CASE o # 0
  <2>1. /\ k \in JobRecs /\ k.kind = job.kind /\ k.assoc = job.assoc /\ k.todo = job.todo
        /\ k.obj = o /\ k.ran = job.ran /\ k.settled = job.settled
    BY <1>1 DEF JobRecs
  <2>2. j = LookUpNas(k, unc[o].amf, "ran.nas", "ran.unc")
    BY <1>3 DEF LookUpByRan
  <2>. HIDE DEF k, o
  <2>3. j.step \in {"ran.nas", "ran.unc"}
    BY <2>1, <2>2, LookUpFields
  <2>4. /\ j.kind = k.kind /\ j.assoc = k.assoc /\ j.todo = k.todo
        /\ j.obj = k.obj /\ j.ran = k.ran /\ j.settled = k.settled
    BY <2>1, <2>2, LookUpFields
  <2>. QED  BY <1>3, <2>1, <2>3, <2>4 DEF o
<1>. QED  BY <1>2, <1>3

\* AMF id m, if a context o holds it, was generated for a UE of the gNB that
\* o's RAN id is from.
LEMMA HomeOfContext ==
    ASSUME TypeOK, IdInv, NEW a \in Assocs, NEW o \in Objs, AtHome(a, o), unc[o].amf # 0
    PROVE  HomeOf(unc[o].amf, a)
BY DEF IdInv, UncInv, Owned, HomeOf, AtHome

\* What is at home stays so: entries are taken away and pairs are added.
LEMMA HomeStays ==
    ASSUME \A r \in RanIds : ran2unc'[r] \in {0, ran2unc[r]}, ueCtx \subseteq ueCtx',
           \A o \in Objs : unc'[o].ran = unc[o].ran
    PROVE  /\ \A a \in Assocs, o \in Objs : AtHome(a, o) =>
                 unc'[o].ran \in OwnRan[a] /\ ran2unc'[unc'[o].ran] \in {0, o}
           /\ \A a \in Assocs : \A m : HomeOf(m, a) => \E r \in OwnRan[a] : <<r, m>> \in ueCtx'
BY NgapConstants DEF NgapConstants, AtHome, HomeOf

LEMMA RanObjs == TypeOK => \A r \in RanIds : ran2unc[r] # 0 => ran2unc[r] \in Objs
  BY NgapConstants DEF NgapConstants, TypeOK, UncTypeOK, Objs

\* A step that does not advance the release.
LEMMA JobKeeps ==
    ASSUME TypeOK, JobInv, ClearInv, n2job' = n2job,
           \A r \in RanIds : ran2unc'[r] \in {0, ran2unc[r]}, ueCtx \subseteq ueCtx',
           \A o \in Objs : unc'[o].ran = unc[o].ran /\ unc'[o].assoc = unc[o].assoc
    PROVE  JobInv' /\ ClearInv'
<1>. DEFINE a == n2job.assoc
<1>1. CASE n2job.kind = "none"
  BY <1>1 DEF JobInv, ClearInv, Idle, Job
<1>2. CASE n2job.kind # "none"
  <2>1. /\ a \in Assocs /\ n2job.todo \subseteq Objs
        /\ n2job.obj # 0 => n2job.obj \in Objs
    BY <1>2, NgapConstants DEF NgapConstants, JobInv, TypeOK, ControlTypeOK, JobRecs, Objs
  <2>2. /\ \A o \in Objs : AtHome(a, o) =>
              unc'[o].ran \in OwnRan[a] /\ ran2unc'[unc'[o].ran] \in {0, o}
        /\ \A m : HomeOf(m, a) => \E r \in OwnRan[a] : <<r, m>> \in ueCtx'
    BY <2>1, HomeStays
  <2>3. JobInv'
    <3>1. /\ \A o \in n2job.todo : AtHome(a, o)'
          /\ n2job.step # "turn" /\ n2job.obj # 0 =>
                AtHome(a, n2job.obj)' /\ n2job.ran = unc'[n2job.obj].ran
      <4>1. \A o \in n2job.todo : o \in Objs /\ AtHome(a, o)
        BY <2>1 DEF JobInv
      <4>2. n2job.step # "turn" /\ n2job.obj # 0 =>
              /\ n2job.obj \in Objs /\ AtHome(a, n2job.obj)
              /\ n2job.ran = unc[n2job.obj].ran
        BY <2>1 DEF JobInv
      <4>. QED  BY <2>2, <4>1, <4>2 DEF AtHome
    <3>2. /\ n2job.step \in {"amf.nas", "amf.ran", "amf.unc"} /\ n2job.amf # 0 => HomeOf(n2job.amf, a)'
          /\ n2job.step \in {"amf.nas", "amf.ran"} => HomeOf(n2job.nc, a)'
      BY <2>2 DEF JobInv, HomeOf
    <3>. QED  BY <1>2, <3>1, <3>2 DEF JobInv, AtHome, HomeOf
  <2>4. \A r \in RanIds : ran2unc[r] # 0 => ran2unc[r] \in Objs
    BY RanObjs
  <2>5. ClearInv'
    BY <2>4 DEF ClearInv
  <2>. QED  BY <2>3, <2>5
<1>. QED  BY <1>1, <1>2

\* The release begins.
LEMMA GnbStepJob ==
    ASSUME TypeOK, IdInv, HomeInv, JobInv, ClearInv, NEW a \in Assocs, GnbStep(a)
    PROVE  JobInv' /\ ClearInv'
<1>. USE DEF gnbVars, uncVars, nasVars, appVars, queues, FromGnb, N2Free
<1>1. CASE SctpNewAssociation(a)
  BY <1>1, JobKeeps DEF SctpNewAssociation
<1>2. CASE NgResetAll(a) \/ NgShutdown(a)
  <2>1. PICK kind \in {"reset", "shutdown"} : n2job' = Job(kind, a, UeContextsOf(a))
    BY <1>2 DEF NgResetAll, NgShutdown
  <2>2. ran2unc' = ran2unc /\ unc' = unc
    BY <1>2 DEF NgResetAll, NgShutdown
  <2>3. /\ n2job'.kind = kind /\ n2job'.assoc = a
        /\ n2job'.todo = UeContextsOf(a) /\ n2job'.step = "turn"
    BY <2>1 DEF Job
  <2>4. \A o \in UeContextsOf(a) : unc[o].ran \in OwnRan[a] /\ ran2unc[unc[o].ran] = o
    BY AtRanId DEF UeContextsOf
  <2>5. \A r \in RanIds : ran2unc[r] # 0 /\ unc[ran2unc[r]].assoc = a => ran2unc[r] \in UeContextsOf(a)
    BY DEF UeContextsOf
  <2>6. ClearInv'
    BY <2>2, <2>3, <2>5 DEF ClearInv
  <2>7. JobInv'
    BY <2>2, <2>3, <2>4 DEF JobInv, AtHome
  <2>. QED  BY <2>6, <2>7
<1>3. ASSUME NEW r \in RanIds, NEW byAmf \in BOOLEAN, NgResetPart(a, r, byAmf)
      PROVE  JobInv' /\ ClearInv'
  <2>. DEFINE job == Job("part", a, {})
              m == view[a][r]
  <2>1. job \in JobRecs
    BY NewJobType
  <2>2. /\ job.kind = "part" /\ job.assoc = a /\ job.todo = {} /\ job.obj = 0 /\ job.step = "turn"
    BY DEF Job
  <2>3. r \in OwnRan[a] /\ unc' = unc /\ ran2unc' = ran2unc /\ ueCtx' = ueCtx
    BY <1>3 DEF NgResetPart, HomeInv
  <2>. HIDE DEF job
  <2>4. CASE byAmf
    <3>. DEFINE k == [job EXCEPT !.amf = m]
    <3>1. m \in AmfIds
      BY <1>3, <2>4 DEF NgResetPart, TypeOK, ControlTypeOK, Free
    <3>2. /\ k \in JobRecs /\ k.kind = "part" /\ k.assoc = a /\ k.todo = {} /\ k.obj = 0
          /\ k.amf = m
      BY <2>1, <2>2, <3>1 DEF JobRecs
    <3>3. n2job' = LookUpNas(k, m, "amf.nas", "amf.unc")
      BY <1>3, <2>4 DEF NgResetPart, job, LookUpByAmf
    <3>4. Owned(r, m)
      BY <3>1 DEF IdInv, ViewInv, AmfIds
    <3>. HIDE DEF k, m
    <3>5. /\ n2job'.kind = "part" /\ n2job'.assoc = a /\ n2job'.todo = {} /\ n2job'.obj = 0
          /\ n2job'.amf = m /\ n2job'.step \in {"amf.nas", "amf.unc"}
          /\ n2job'.step = "amf.nas" => n2job'.nc = m
      BY <3>2, <3>3, LookUpFields
    <3>. QED  BY <2>3, <3>4, <3>5 DEF JobInv, ClearInv, HomeOf, Owned
  <2>5. CASE ~byAmf
    <3>. DEFINE k == [job EXCEPT !.ran = r]
    <3>1. /\ k \in JobRecs /\ k.kind = "part" /\ k.assoc = a /\ k.todo = {} /\ k.ran = r
      BY <2>1, <2>2 DEF JobRecs
    <3>2. n2job' = LookUpByRan(k)
      BY <1>3, <2>5 DEF NgResetPart, job
    <3>. HIDE DEF k
    <3>3. /\ n2job'.kind = "part" /\ n2job'.assoc = a /\ n2job'.todo = {}
          /\ ran2unc[r] = 0 => n2job'.step = "turn"
          /\ ran2unc[r] # 0 => /\ n2job'.step \in {"ran.nas", "ran.unc"}
                               /\ n2job'.ran = r /\ n2job'.obj = ran2unc[r]
      BY <3>1, <3>2, LookUpRanFields
    <3>4. ran2unc[r] # 0 => unc[ran2unc[r]].ran = r
      BY AtRanId
    <3>. QED  BY <2>3, <3>3, <3>4 DEF JobInv, ClearInv, AtHome
  <2>. QED  BY <2>4, <2>5
<1>4. CASE ~(SctpNewAssociation(a) \/ NgResetAll(a) \/ NgShutdown(a)
             \/ \E r \in RanIds, byAmf \in BOOLEAN : NgResetPart(a, r, byAmf))
  <2>1. n2job = Idle /\ n2job' = Idle
    BY ZenonT(40), <1>4 DEF GnbStep, NgSetup, InitialUeMessage, UplinkNasTransport, GnbReleasesUe
  <2>2. Idle.kind = "none" /\ Idle.todo = {} /\ Idle.step = "turn"
    BY DEF Idle, Job
  <2>. QED  BY <2>1, <2>2 DEF JobInv, ClearInv
<1>. QED  BY <1>1, <1>2, <1>3, <1>4

\* The AMF id that a removal function works with.
LEMMA JobAmfHome ==
    ASSUME TypeOK, IdInv, JobInv, n2job.step \in {"amf.nas", "amf.unc", "ran.nas", "ran.unc"},
           JobAmf # 0
    PROVE  HomeOf(JobAmf, n2job.assoc) /\ JobAmf \in AmfIds
<1>1. n2job.kind # "none" /\ n2job.assoc \in Assocs
  BY DEF JobInv, Idle, Job
<1>2. CASE n2job.step \in {"amf.nas", "amf.unc"}
  BY <1>2 DEF JobInv, JobAmf, TypeOK, ControlTypeOK, JobRecs
<1>3. CASE n2job.step \notin {"amf.nas", "amf.unc"} /\ n2job.obj # 0
  <2>1. n2job.obj \in Objs /\ AtHome(n2job.assoc, n2job.obj)
    BY <1>3, NgapConstants DEF NgapConstants, JobInv, TypeOK, ControlTypeOK, JobRecs, Objs
  <2>2. unc[n2job.obj].amf \in AmfIds
    BY <1>3, <2>1 DEF JobAmf, TypeOK, UncTypeOK, UncRecs
  <2>. QED  BY <1>1, <1>3, <2>1, <2>2, HomeOfContext DEF JobAmf
<1>4. n2job.step \in {"ran.nas", "ran.unc"} => n2job.obj # 0
  BY DEF JobInv
<1>. QED  BY <1>2, <1>3, <1>4

\* A step of a release leaves what it is a release of.
LEMMA ReleaseKind ==
    ASSUME TypeOK, JobInv, ReleaseStep
    PROVE  n2job'.kind = n2job.kind /\ n2job'.assoc = n2job.assoc
<1>a. n2job \in JobRecs /\ unc \in [Objs -> UncRecs]
  BY DEF TypeOK, ControlTypeOK, UncTypeOK
<1>1. ASSUME NEW o \in Objs, ReleaseByAmf(o)
      PROVE  n2job'.kind = n2job.kind /\ n2job'.assoc = n2job.assoc
  <2>. DEFINE base == [n2job EXCEPT !.todo = @ \ {o}, !.obj = o, !.ran = unc[o].ran,
                                   !.settled = Settled(unc[o].ran)]
              job == [base EXCEPT !.amf = unc[o].amf]
  <2>1. /\ unc[o].ran \in RanIds \cup {0} /\ o \in 0..MaxUnc /\ Settled(unc[o].ran) \in BOOLEAN
        /\ unc[o].amf \in AmfIds \cup {0}
    BY <1>a DEF UncRecs, Objs, Settled
  <2>2. job \in JobRecs /\ job.kind = n2job.kind /\ job.assoc = n2job.assoc
    BY <1>a, <2>1 DEF JobRecs
  <2>3. n2job' = LookUpNas(job, unc[o].amf, "amf.nas", "amf.unc")
    BY <1>1 DEF ReleaseByAmf, LookUpByAmf
  <2>. HIDE DEF job, base
  <2>. QED  BY <2>2, <2>3, LookUpFields
<1>2. CASE ReleaseByRan
  BY <1>2, <1>a, JobInvRan, LookUpRanFields DEF ReleaseByRan, JobRan
<1>3. CASE RemoveNas \/ RemoveRanOfNas \/ RemoveAmf \/ RemoveRan
  BY <1>3, <1>a DEF RemoveNas, RemoveRanOfNas, RemoveAmf, RemoveRan, EndTurn, Job, JobRecs
<1>. QED  BY <1>1, <1>2, <1>3 DEF ReleaseStep

\* The release goes on.
LEMMA ReleaseStepJob ==
    ASSUME TypeOK, IdInv, JobInv, ClearInv, ReleaseStep
    PROVE  JobInv' /\ ClearInv'
<1>. DEFINE a == n2job.assoc
<1>a. /\ n2job \in JobRecs /\ ran2unc \in [RanIds -> 0..MaxUnc]
      /\ amf2nas \subseteq AmfIds /\ unc \in [Objs -> UncRecs] /\ ~(0 \in Objs)
  BY DEF TypeOK, ControlTypeOK, UncTypeOK, NasTypeOK, Objs
<1>b. n2job # Idle
  <2>1. Idle.step = "turn" /\ Idle.todo = {}
    BY DEF Idle, Job
  <2>. QED  BY Zenon, <2>1 DEF ReleaseStep, ReleaseByAmf, ReleaseByRan, RemoveNas, RemoveRanOfNas,
               RemoveAmf, RemoveRan
<1>c. /\ n2job.kind # "none" /\ a \in Assocs /\ n2job.todo \subseteq Objs
      /\ n2job.obj # 0 => n2job.obj \in Objs
      /\ OwnRan[a] \subseteq RanIds
  <2>1. n2job.kind # "none" /\ a \in Assocs
    BY <1>b DEF JobInv
  <2>2. n2job.todo \subseteq Objs /\ (n2job.obj # 0 => n2job.obj \in Objs)
    BY <1>a, NgapConstants DEF NgapConstants, JobRecs, Objs
  <2>. QED  BY <2>1, <2>2, NgapConstants DEF NgapConstants
<1>d. UNCHANGED <<unc, ueCtx>> /\ \A r \in RanIds : ran2unc'[r] \in {0, ran2unc[r]}
  BY ReleaseTakes DEF appVars
<1>e. /\ \A o \in Objs : AtHome(a, o) =>
            unc'[o].ran \in OwnRan[a] /\ ran2unc'[unc'[o].ran] \in {0, o}
      /\ \A m : HomeOf(m, a) => \E r \in OwnRan[a] : <<r, m>> \in ueCtx'
  BY <1>c, <1>d, HomeStays
<1>f. \A r \in RanIds : ran2unc[r] # 0 => ran2unc[r] \in Objs /\ unc[ran2unc[r]].ran = r
  BY RanObjs DEF IdInv, RanInv
\* What has to be shown once the locals of the release have changed.
<1>g. ASSUME n2job'.kind = n2job.kind, n2job'.assoc = a, n2job'.todo \subseteq n2job.todo,
             n2job.kind = "part" => n2job'.step # "ran.find",
             n2job'.step # "turn" =>
                /\ n2job'.obj = 0 => n2job.kind = "part" /\ n2job'.step \in {"amf.nas", "amf.ran", "amf.unc"}
                /\ n2job'.obj # 0 => /\ n2job'.obj \in Objs /\ AtHome(a, n2job'.obj)
                                     /\ n2job'.ran = unc[n2job'.obj].ran,
             n2job'.step \in {"amf.nas", "amf.ran"} => HomeOf(n2job'.nc, a),
             n2job'.step \in {"amf.nas", "amf.ran", "amf.unc"} /\ n2job'.amf # 0 => HomeOf(n2job'.amf, a)
      PROVE  JobInv'
  <2>1. \A o \in n2job'.todo : unc'[o].ran \in OwnRan[a] /\ ran2unc'[unc'[o].ran] \in {0, o}
    <3>1. \A o \in n2job.todo : AtHome(a, o)
      BY DEF JobInv
    <3>. QED  BY <1>c, <1>e, <1>g, <3>1
  <2>2. n2job'.step # "turn" =>
          /\ n2job'.obj = 0 => n2job.kind = "part" /\ n2job'.step \in {"amf.nas", "amf.ran", "amf.unc"}
          /\ n2job'.obj # 0 => /\ unc'[n2job'.obj].ran \in OwnRan[a]
                               /\ ran2unc'[unc'[n2job'.obj].ran] \in {0, n2job'.obj}
                               /\ n2job'.ran = unc'[n2job'.obj].ran
    BY <1>d, <1>e, <1>g
  <2>3. /\ n2job'.step \in {"amf.nas", "amf.ran"} => \E r \in OwnRan[a] : <<r, n2job'.nc>> \in ueCtx'
        /\ n2job'.step \in {"amf.nas", "amf.ran", "amf.unc"} /\ n2job'.amf # 0 =>
              \E r \in OwnRan[a] : <<r, n2job'.amf>> \in ueCtx'
    BY <1>e, <1>g
  <2>4. n2job'.kind # "none" /\ n2job'.assoc \in Assocs
        /\ (n2job'.kind = "part" => n2job'.todo = {} /\ n2job'.step # "ran.find")
    BY <1>c, <1>g DEF JobInv
  <2>. QED  BY <1>g, <2>1, <2>2, <2>3, <2>4 DEF JobInv, AtHome, HomeOf
<1>h. ASSUME n2job'.kind = n2job.kind, n2job'.assoc = a,
             n2job.kind # "part" => \A r \in RanIds :
                ran2unc'[r] # 0 /\ unc[ran2unc[r]].assoc = a =>
                  ran2unc[r] \in n2job'.todo \/ (n2job'.step # "turn" /\ ran2unc[r] = n2job'.obj)
      PROVE  ClearInv'
  <2>1. \A r \in RanIds : ran2unc'[r] # 0 => ran2unc'[r] = ran2unc[r]
    BY <1>d
  <2>. QED  BY <1>d, <1>h, <2>1 DEF ClearInv
<1>. HIDE DEF a
<1>x. /\ \A o \in n2job.todo : AtHome(a, o)
      /\ n2job.step # "turn" =>
          /\ n2job.obj = 0 => n2job.kind = "part" /\ n2job.step \in {"amf.nas", "amf.ran", "amf.unc"}
          /\ n2job.obj # 0 => AtHome(a, n2job.obj) /\ n2job.ran = unc[n2job.obj].ran
      /\ n2job.kind = "part" => n2job.step # "ran.find"
      /\ n2job.step \in {"amf.nas", "amf.ran"} => HomeOf(n2job.nc, a)
      /\ n2job.step \in {"amf.nas", "amf.ran", "amf.unc"} /\ n2job.amf # 0 => HomeOf(n2job.amf, a)
  BY Zenon DEF JobInv, a
<1>y. n2job.kind # "part" => \A r \in RanIds : ran2unc[r] # 0 /\ unc[ran2unc[r]].assoc = a =>
          ran2unc[r] \in n2job.todo \/ (n2job.step # "turn" /\ ran2unc[r] = n2job.obj)
  BY <1>a, <1>c DEF ClearInv, a, JobRecs
<1>1. ASSUME NEW o \in Objs, ReleaseByAmf(o)
      PROVE  JobInv' /\ ClearInv'
  <2>. DEFINE base == [n2job EXCEPT !.todo = @ \ {o}, !.obj = o, !.ran = unc[o].ran,
                                   !.settled = Settled(unc[o].ran)]
              job == [base EXCEPT !.amf = unc[o].amf]
              m == unc[o].amf
  <2>1. /\ unc[o].ran \in RanIds \cup {0} /\ o \in 0..MaxUnc /\ Settled(unc[o].ran) \in BOOLEAN
        /\ unc[o].amf \in AmfIds \cup {0}
    BY <1>a DEF UncRecs, Objs, Settled
  <2>2. /\ job \in JobRecs /\ job.kind = n2job.kind /\ job.assoc = a
        /\ job.todo = n2job.todo \ {o} /\ job.obj = o /\ job.ran = unc[o].ran
        /\ job.amf = unc[o].amf
    BY <1>a, <2>1 DEF JobRecs, a
  <2>3. /\ n2job' = LookUpNas(job, m, "amf.nas", "amf.unc")
        /\ o \in n2job.todo /\ n2job.step = "turn" /\ ran2unc' = ran2unc
    BY <1>1 DEF ReleaseByAmf, LookUpByAmf, uncVars
  <2>. HIDE DEF job, base, m
  <2>4. /\ n2job'.kind = n2job.kind /\ n2job'.assoc = a /\ n2job'.todo = n2job.todo \ {o}
        /\ n2job'.obj = o /\ n2job'.ran = unc[o].ran /\ n2job'.step \in {"amf.nas", "amf.unc"}
        /\ n2job'.amf = m
        /\ n2job'.step = "amf.nas" => n2job'.nc = m /\ m \in amf2nas
    BY <2>2, <2>3, LookUpFields DEF m
  <2>5. AtHome(a, o) /\ o # 0
    BY <1>x, <1>a, <2>3
  <2>6. (m # 0 => HomeOf(m, a)) /\ (m \in amf2nas => HomeOf(m, a))
    <3>1. m \in amf2nas => m # 0
      BY <1>a DEF AmfIds
    <3>. QED  BY <1>c, <2>5, <3>1, HomeOfContext DEF m
  <2>7. JobInv'
    BY <1>g, <2>4, <2>5, <2>6
  <2>8. ClearInv'
    BY <1>h, <1>y, <2>3, <2>4
  <2>. QED  BY <2>7, <2>8
<1>2. CASE ReleaseByRan
  <2>1. /\ n2job.step = "ran.find" /\ n2job' = LookUpByRan(n2job) /\ ran2unc' = ran2unc
    BY <1>2 DEF ReleaseByRan, uncVars
  <2>2. /\ n2job.kind # "part" /\ n2job.obj \in Objs /\ AtHome(a, n2job.obj)
        /\ n2job.ran = unc[n2job.obj].ran
    BY <1>c, <1>x, <2>1
  <2>3. n2job.ran \in RanIds /\ ran2unc[n2job.ran] \in {0, n2job.obj}
    BY <1>c, <2>2 DEF AtHome, a
  <2>4. /\ n2job'.kind = n2job.kind /\ n2job'.assoc = a /\ n2job'.todo = n2job.todo
        /\ ran2unc[n2job.ran] = 0 => n2job'.step = "turn"
        /\ ran2unc[n2job.ran] # 0 => /\ n2job'.step \in {"ran.nas", "ran.unc"}
                                     /\ n2job'.ran = n2job.ran /\ n2job'.obj = ran2unc[n2job.ran]
    BY <1>a, <2>1, <2>3, LookUpRanFields DEF a
  <2>5. JobInv'
    BY <1>a, <1>g, <2>2, <2>3, <2>4
  <2>6. ClearInv'
    <3>1. \A r \in RanIds : ran2unc[r] # 0 /\ ran2unc[r] = n2job.obj => r = n2job.ran
      BY <1>f, <2>2
    <3>. QED  BY <1>h, <1>y, <2>1, <2>3, <2>4, <3>1
  <2>. QED  BY <2>5, <2>6
<1>3. CASE RemoveNas
  <2>1. /\ n2job' = [n2job EXCEPT !.step = IF @ = "amf.nas" THEN "amf.ran" ELSE "ran.unc"]
        /\ n2job.step \in {"amf.nas", "ran.nas"} /\ ran2unc' = ran2unc
    BY <1>3 DEF RemoveNas, uncVars
  <2>2. /\ n2job'.kind = n2job.kind /\ n2job'.assoc = a /\ n2job'.todo = n2job.todo
        /\ n2job'.obj = n2job.obj /\ n2job'.ran = n2job.ran /\ n2job'.amf = n2job.amf
        /\ n2job'.nc = n2job.nc
        /\ n2job'.step = IF n2job.step = "amf.nas" THEN "amf.ran" ELSE "ran.unc"
    BY <1>a, <2>1 DEF JobRecs, a
  <2>3. JobInv'
    BY <1>c, <1>g, <1>x, <2>1, <2>2
  <2>4. ClearInv'
    BY <1>h, <1>y, <2>1, <2>2
  <2>. QED  BY <2>3, <2>4
<1>4. CASE RemoveRanOfNas
  <2>1. n2job' = [n2job EXCEPT !.step = "amf.unc"] /\ n2job.step = "amf.ran"
    BY <1>4 DEF RemoveRanOfNas
  <2>2. /\ n2job'.kind = n2job.kind /\ n2job'.assoc = a /\ n2job'.todo = n2job.todo
        /\ n2job'.obj = n2job.obj /\ n2job'.ran = n2job.ran /\ n2job'.amf = n2job.amf
        /\ n2job'.step = "amf.unc"
    BY <1>a, <2>1 DEF JobRecs, a
  <2>3. JobInv'
    BY <1>c, <1>g, <1>x, <2>1, <2>2
  <2>4. ClearInv'
    BY <1>d, <1>h, <1>y, <2>1, <2>2
  <2>. QED  BY <2>3, <2>4
<1>5. CASE RemoveAmf
  <2>1. /\ n2job.step \in {"amf.unc", "ran.unc"} /\ ran2unc' = ran2unc
        /\ n2job' = IF n2job.step = "ran.unc" THEN [n2job EXCEPT !.step = "ran.ran"]
                    ELSE IF n2job.kind = "part" THEN EndTurn(n2job)
                    ELSE [n2job EXCEPT !.step = "ran.find"]
    BY <1>5 DEF RemoveAmf
  <2>2. CASE n2job.step = "amf.unc" /\ n2job.kind = "part"
    <3>1. n2job'.kind = n2job.kind /\ n2job'.assoc = a /\ n2job'.todo = n2job.todo
          /\ n2job'.step = "turn"
      BY <2>1, <2>2 DEF EndTurn, Job, a
    <3>2. JobInv'
      BY <1>g, <3>1
    <3>3. ClearInv'
      BY <1>h, <2>2, <3>1
    <3>. QED  BY <3>2, <3>3
  <2>3. CASE ~(n2job.step = "amf.unc" /\ n2job.kind = "part")
    <3>1. /\ n2job'.kind = n2job.kind /\ n2job'.assoc = a /\ n2job'.todo = n2job.todo
          /\ n2job'.obj = n2job.obj /\ n2job'.ran = n2job.ran
          /\ n2job'.step = IF n2job.step = "ran.unc" THEN "ran.ran" ELSE "ran.find"
      BY <1>a, <2>1, <2>3 DEF JobRecs, a
    <3>2. JobInv'
      BY <1>c, <1>g, <1>x, <2>1, <2>3, <3>1
    <3>3. ClearInv'
      BY <1>h, <1>y, <2>1, <3>1
    <3>. QED  BY <3>2, <3>3
  <2>. QED  BY <2>2, <2>3
<1>6. CASE RemoveRan
  <2>1. /\ n2job' = EndTurn(n2job) /\ n2job.step = "ran.ran"
        /\ ran2unc' = [ran2unc EXCEPT ![n2job.ran] = 0]
    BY <1>6 DEF RemoveRan
  <2>2. n2job'.kind = n2job.kind /\ n2job'.assoc = a /\ n2job'.todo = n2job.todo
        /\ n2job'.step = "turn"
    BY <2>1 DEF EndTurn, Job, a
  <2>3. JobInv'
    BY <1>g, <2>2
  <2>4. ClearInv'
    <3>1. n2job.obj \in Objs /\ n2job.ran = unc[n2job.obj].ran /\ n2job.ran \in RanIds
      BY <1>c, <1>x, <2>1 DEF AtHome, a
    <3>2. \A r \in RanIds : ran2unc[r] # 0 /\ ran2unc[r] = n2job.obj => r = n2job.ran
      BY <1>f, <3>1
    <3>3. \A r \in RanIds : ran2unc'[r] # 0 => ran2unc[r] # 0 /\ ran2unc[r] # n2job.obj
      BY <1>a, <2>1, <3>1, <3>2
    <3>. QED  BY <1>h, <1>y, <2>2, <3>3
  <2>. QED  BY <2>3, <2>4
<1>. QED  BY <1>1, <1>2, <1>3, <1>4, <1>5, <1>6 DEF ReleaseStep

\* All that is known of the registry while its tasks interleave.
ReleaseInv == TypeOK /\ IdInv /\ HomeInv /\ JobInv /\ ClearInv

LEMMA NextJob == ReleaseInv /\ [Next]_vars => JobInv' /\ ClearInv'
<1>. SUFFICES ASSUME ReleaseInv, [Next]_vars
              PROVE  JobInv' /\ ClearInv'
  OBVIOUS
<1>. USE DEF ReleaseInv
<1>1. CASE \E a \in Assocs : GnbStep(a)
  BY <1>1, GnbStepJob
<1>2. CASE ReleaseStep
  BY <1>2, ReleaseStepJob
<1>3. CASE AppStep \/ N1Step
  <2>1. n2job' = n2job
    BY Zenon, <1>3 DEF AppStep, N1Step, AppEstablish, AppFind, AppThrow, AppWrite, AppStore, AppSend,
       N1Establish, N1Fill, N1Uplink, N1Deregister
  <2>. QED  BY <1>3, <2>1, ContextsStay, JobKeeps
<1>4. CASE ReleaseDone \/ N2Drop \/ DownlinkNasTransport \/ UeContextReleaseCommand
  <2>1. n2job' = Idle
    BY Zenon, <1>4 DEF ReleaseDone, N2Drop, DownlinkNasTransport, UeContextReleaseCommand, N2Free
  <2>2. Idle.kind = "none" /\ Idle.todo = {} /\ Idle.step = "turn"
    BY DEF Idle, Job
  <2>. QED  BY <2>1, <2>2 DEF JobInv, ClearInv
<1>5. CASE UNCHANGED vars
  BY <1>5, JobKeeps DEF vars, uncVars, appVars
<1>. QED  BY <1>1, <1>2, <1>3, <1>4, <1>5 DEF Next, N2Step

LEMMA InitRelease == Init => ReleaseInv
<1>. SUFFICES ASSUME Init
              PROVE  ReleaseInv
  OBVIOUS
<1>1. HomeInv
  BY DEF Init, HomeInv
<1>2. Idle.kind = "none" /\ Idle.todo = {} /\ Idle.step = "turn" /\ n2job = Idle
  BY DEF Idle, Job, Init
<1>3. JobInv /\ ClearInv
  BY <1>2 DEF JobInv, ClearInv
<1>. QED  BY <1>1, <1>3, InitTypeOK, InitIdInv DEF ReleaseInv

LEMMA NextRelease == ReleaseInv /\ [Next]_vars => ReleaseInv'
<1>. SUFFICES ASSUME ReleaseInv, [Next]_vars
              PROVE  ReleaseInv'
  OBVIOUS
<1>1. TypeOK'
  BY JobInvRan, NextType DEF ReleaseInv
<1>. QED  BY <1>1, NextIds, NextHome, NextJob DEF ReleaseInv

LEMMA ReleaseCorrect == Spec => []ReleaseInv
  BY InitRelease, NextRelease, PTL DEF Spec

\* Every id that a map, a queue or a gNB holds is one that the program generated: for
\* every number of associations, RAN ids, subscribers and messages.
THEOREM TypeCorrect == Spec => []TypeOK
<1>1. ReleaseInv => TypeOK
  BY DEF ReleaseInv
<1>. QED  BY <1>1, ReleaseCorrect, PTL

\* The ngap contexts, the NAS contexts and the maps of amf_n2 and amf_n1 agree on the
\* RAN UE NGAP ID an AMF UE NGAP ID was generated for, whatever the tasks interleave.
\* It says nothing of two UEs that get the same RAN id one after the other.
THEOREM AmfIdKeepsItsRanIdAlways == Spec => []AmfIdKeepsItsRanId
<1>1. ReleaseInv => AmfIdKeepsItsRanId
  BY IdInvImplies DEF ReleaseInv
<1>. QED  BY <1>1, ReleaseCorrect, PTL

\* When the handler of NG Reset of the interface or of NG Shutdown has been through
\* its contexts, no context of that association is found by RAN id, although every
\* removal goes from map to map while TASK_AMF_APP and TASK_AMF_N1 run.
THEOREM ReleaseClearsRanMapAlways == Spec => ReleaseClearsRanMap
<1>1. ASSUME ReleaseInv, Next, n2job.kind \in {"reset", "shutdown"}, n2job' = Idle,
             NEW r \in RanIds, ran2unc'[r] # 0
      PROVE  unc'[ran2unc'[r]].assoc # n2job.assoc
  <2>. USE DEF gnbVars, uncVars, nasVars, appVars, queues
  <2>a. Idle.kind = "none"
    BY DEF Idle, Job
  <2>b. n2job # Idle /\ n2job' # n2job /\ n2job'.kind = "none"
    BY <1>1, <2>a
  <2>1. ReleaseDone
    <3>1. ~\E a \in Assocs : GnbStep(a)
      BY ZenonT(40), <2>b DEF GnbStep, SctpNewAssociation, NgSetup, NgResetAll, NgShutdown, NgResetPart,
         InitialUeMessage, UplinkNasTransport, GnbReleasesUe, FromGnb, N2Free
    <3>2. ~(AppStep \/ N1Step)
      BY Zenon, <2>b DEF AppStep, N1Step, AppEstablish, AppFind, AppThrow, AppWrite, AppStore, AppSend,
         N1Establish, N1Fill, N1Uplink, N1Deregister
    <3>3. ~ReleaseStep
      BY <1>1, <2>b, ReleaseKind DEF ReleaseInv
    <3>4. ~(N2Drop \/ DownlinkNasTransport \/ UeContextReleaseCommand)
      BY Zenon, <2>b DEF N2Drop, DownlinkNasTransport, UeContextReleaseCommand, N2Free
    <3>. QED  BY <1>1, <3>1, <3>2, <3>3, <3>4 DEF Next, N2Step
  <2>2. n2job.todo = {} /\ n2job.step = "turn" /\ ran2unc' = ran2unc /\ unc' = unc
    BY <2>1 DEF ReleaseDone
  <2>. QED  BY <1>1, <2>2 DEF ReleaseInv, ClearInv
<1>2. ReleaseInv /\ [Next]_vars =>
        [n2job.kind \in {"reset", "shutdown"} /\ n2job' = Idle
           => \A r \in RanIds : ran2unc'[r] # 0 => unc'[ran2unc'[r]].assoc # n2job.assoc]_vars
  BY <1>1
<1>. QED  BY <1>2, ReleaseCorrect, PTL DEF Spec, ReleaseClearsRanMap

\* What the removal functions take away belongs to a UE of the association that is
\* released: by RAN id, as NAS context and by AMF id; of gNBs whose RAN ids are not
\* disjoint it says the same with the ids each of them hands out.
THEOREM ReleaseIsLocalAlways == Spec => ReleaseIsLocal
<1>1. ASSUME ReleaseInv, ReleaseStep, NEW a \in Assocs, n2job.assoc = a
      PROVE  /\ \A r \in RanIds \ OwnRan[a] : ran2unc'[r] = ran2unc[r]
             /\ \A m \in amf2nas \ amf2nas' : HomeOf(m, a)
             /\ \A m \in AmfIds : amf2unc'[m] # amf2unc[m] => HomeOf(m, a)
  <2>. USE DEF ReleaseInv, uncVars, nasVars
  <2>a. /\ ran2unc \in [RanIds -> 0..MaxUnc] /\ amf2unc \in [AmfIds -> 0..MaxUnc]
        /\ amf2nas \subseteq AmfIds /\ \A m \in AmfIds : m # 0
    BY <1>1 DEF TypeOK, UncTypeOK, NasTypeOK, AmfIds
  <2>b. n2job.step \in {"amf.nas", "amf.unc", "ran.nas", "ran.unc"} /\ JobAmf # 0 => HomeOf(JobAmf, a)
    BY <1>1, JobAmfHome
  <2>1. ASSUME NEW o \in Objs, ReleaseByAmf(o)
        PROVE  UNCHANGED <<ran2unc, amf2nas, amf2unc>>
    BY <2>1 DEF ReleaseByAmf
  <2>2. ReleaseByRan => UNCHANGED <<ran2unc, amf2nas, amf2unc>>
    BY DEF ReleaseByRan
  <2>3. CASE RemoveNas
    <3>1. /\ n2job.step \in {"amf.nas", "ran.nas"} /\ UNCHANGED <<ran2unc, amf2unc>>
          /\ amf2nas' = amf2nas \ {JobAmf}
      BY <2>3 DEF RemoveNas, ForgetNas
    <3>. QED  BY <2>a, <2>b, <3>1
  <2>4. CASE RemoveRanOfNas
    <3>. DEFINE q == nas[n2job.nc].ran
    <3>1. /\ n2job.step = "amf.ran" /\ UNCHANGED <<amf2nas, amf2unc>>
          /\ ran2unc' = [r \in RanIds |-> IF r = q THEN 0 ELSE ran2unc[r]]
      BY <2>4 DEF RemoveRanOfNas
    <3>2. PICK h \in OwnRan[a] : Owned(h, n2job.nc)
      BY <1>1, <3>1 DEF JobInv, HomeOf, Owned
    <3>3. n2job.nc \in AmfIds
      BY <1>1, <3>2, OneOwner
    <3>4. q # 0 => Owned(q, n2job.nc)
      BY <1>1, <3>3 DEF IdInv, NasInv
    <3>5. q # 0 => q = h
      BY <1>1, <3>2, <3>4, OneOwner
    <3>. HIDE DEF q
    <3>. QED  BY <2>a, <3>1, <3>2, <3>5, NgapConstants DEF NgapConstants
  <2>5. CASE RemoveAmf
    <3>1. /\ n2job.step \in {"amf.unc", "ran.unc"} /\ UNCHANGED <<ran2unc, amf2nas>>
          /\ amf2unc' = [m \in AmfIds |-> IF m = JobAmf THEN 0 ELSE amf2unc[m]]
      BY <2>5 DEF RemoveAmf
    <3>. QED  BY <2>a, <2>b, <3>1
  <2>6. CASE RemoveRan
    <3>1. /\ n2job.step = "ran.ran" /\ UNCHANGED <<amf2nas, amf2unc>>
          /\ ran2unc' = [ran2unc EXCEPT ![n2job.ran] = 0]
      BY <2>6 DEF RemoveRan
    <3>2. n2job.ran \in OwnRan[a]
      BY <1>1, <3>1 DEF JobInv, AtHome
    <3>. QED  BY <2>a, <3>1, <3>2
  <2>. QED  BY <1>1, <2>a, <2>1, <2>2, <2>3, <2>4, <2>5, <2>6 DEF ReleaseStep
<1>2. ReleaseInv /\ [Next]_vars =>
        [\A a \in Assocs : n2job.assoc = a /\ ReleaseStep
           => /\ \A r \in RanIds \ OwnRan[a] : ran2unc'[r] = ran2unc[r]
              /\ \A m \in amf2nas \ amf2nas' : HomeOf(m, a)
              /\ \A m \in AmfIds : amf2unc'[m] # amf2unc[m] => HomeOf(m, a)]_vars
  BY <1>1
<1>. QED  BY <1>2, ReleaseCorrect, PTL DEF Spec, ReleaseIsLocal

-----------------------------------------------------------------------------
(* A UE whose turn began with no establishment under way.                  *)

\* Nothing of it is on its way while its turn lasts, and what the turn has taken from
\* the maps stays away.
SettledInv ==
    n2job.settled =>
      /\ n2job.kind # "part" /\ n2job.step # "turn" /\ n2job.obj \in Objs
      /\ Settled(unc[n2job.obj].ran)
      /\ LET m == unc[n2job.obj].amf IN m # 0 =>
           /\ n2job.step \in {"amf.nas", "amf.ran", "amf.unc"} => n2job.amf = m
           /\ n2job.step # "amf.nas" => m \notin amf2nas
           /\ n2job.step \notin {"amf.nas", "amf.ran", "amf.unc"} => amf2unc[m] = 0

\* What is left of a queue was in it.
LEMMA TailKeeps ==
    ASSUME NEW S, NEW q \in Seq(S), q # <<>>
    PROVE  /\ 1 \in 1..Len(q) /\ Head(q) = q[1]
           /\ \A k \in 1..Len(Tail(q)) : k + 1 \in 1..Len(q) /\ Tail(q)[k] = q[k + 1]
OBVIOUS

\* A RAN id with nothing under way gets nothing under way while TASK_AMF_N2 is busy,
\* and TASK_AMF_APP and TASK_AMF_N1 store nothing under the AMF id of its context.
LEMMA SettledStays ==
    ASSUME TypeOK, IdInv, AppStep \/ N1Step, NEW o \in Objs, unc[o].ran # 0, Settled(unc[o].ran)
    PROVE  /\ unc'[o].ran = unc[o].ran /\ unc'[o].amf = unc[o].amf
           /\ Settled(unc[o].ran)'
           /\ unc[o].amf # 0 /\ unc[o].amf \notin amf2nas => unc[o].amf \notin amf2nas'
           /\ unc[o].amf # 0 /\ amf2unc[unc[o].amf] = 0 => amf2unc'[unc[o].amf] = 0
<1>. USE DEF uncVars, nasVars, appVars, queues
<1>. DEFINE r == unc[o].ran
            m == unc[o].amf
<1>a. /\ unc \in [Objs -> UncRecs] /\ amf2unc \in [AmfIds -> 0..MaxUnc]
      /\ appq \in Seq(RanIds) /\ n1q \in Seq(N1Msgs)
      /\ r \in RanIds /\ m \in AmfIds \cup {0}
  BY DEF TypeOK, UncTypeOK, QueueTypeOK, UncRecs
<1>b. /\ appJob.ran # r /\ n1job.ran # r
      /\ \A k \in 1..Len(appq) : appq[k] # r
      /\ \A k \in 1..Len(n1q) : n1q[k].estab => n1q[k].ran # r
  BY DEF Settled
<1>c. m # 0 => Owned(r, m)
  BY DEF IdInv, UncInv
<1>d. ASSUME NEW q, NEW k, Owned(q, k), q # r
      PROVE  k # m \/ m = 0
  BY <1>c, <1>d, OneOwner
<1>e. appJob # NoApp => Owned(appJob.ran, appJob.amf) /\ appJob.amf \in AmfIds
  BY DEF IdInv, AppInv, TypeOK, AppTypeOK
<1>f. unc'[o].ran = unc[o].ran
  BY ContextsStay
\* What remains of the goal, about r and m alone.
<1>g. ASSUME unc'[o].amf = unc[o].amf,
             /\ appJob'.ran # r /\ n1job'.ran # r
             /\ \A k \in 1..Len(appq') : appq'[k] # r
             /\ \A k \in 1..Len(n1q') : n1q'[k].estab => n1q'[k].ran # r,
             m # 0 => (m \in amf2nas' => m \in amf2nas) /\ (amf2unc'[m] # 0 => amf2unc[m] # 0)
      PROVE  /\ unc'[o].ran = unc[o].ran /\ unc'[o].amf = unc[o].amf
             /\ Settled(unc[o].ran)'
             /\ unc[o].amf # 0 /\ unc[o].amf \notin amf2nas => unc[o].amf \notin amf2nas'
             /\ unc[o].amf # 0 /\ amf2unc[unc[o].amf] = 0 => amf2unc'[unc[o].amf] = 0
  BY <1>f, <1>g DEF Settled
<1>. HIDE DEF r, m
<1>1. CASE AppEstablish
  <2>1. /\ appq # <<>> /\ appq' = Tail(appq) /\ appJob'.ran = Head(appq)
        /\ UNCHANGED <<unc, n1job, n1q, amf2nas, amf2unc>>
    BY <1>1 DEF AppEstablish, AppGoesOn
  <2>2. Head(appq) # r /\ \A k \in 1..Len(Tail(appq)) : Tail(appq)[k] # r
    BY <1>a, <1>b, <2>1, TailKeeps
  <2>. QED  BY <1>b, <1>g, <2>1, <2>2
<1>2. CASE AppFind
  <2>1. /\ appJob' = [appJob EXCEPT !.step = "write", !.obj = ran2unc[appJob.ran]]
        /\ UNCHANGED <<unc, n1job, appq, n1q, amf2nas, amf2unc>>
    BY <1>2 DEF AppFind
  <2>2. appJob'.ran = appJob.ran
    BY <2>1 DEF TypeOK, AppTypeOK, NoApp
  <2>. QED  BY <1>b, <1>g, <2>1, <2>2
<1>3. CASE AppThrow
  BY <1>3, <1>b, <1>g DEF AppThrow
<1>4. CASE AppWrite
  <2>1. /\ appJob' = [appJob EXCEPT !.step = "store"] /\ appJob # NoApp
        /\ unc' = [unc EXCEPT ![appJob.obj].amf = appJob.amf]
        /\ UNCHANGED <<n1job, appq, n1q, amf2nas, amf2unc>>
    BY <1>4 DEF AppWrite, NoApp
  <2>2. appJob'.ran = appJob.ran
    BY <2>1 DEF TypeOK, AppTypeOK, NoApp
  <2>3. unc[appJob.obj].ran = appJob.ran
    BY <1>4, <2>1 DEF AppWrite, IdInv, AppInv
  <2>4. appJob.obj # o
    BY <1>b, <2>3 DEF r
  <2>5. unc'[o].amf = unc[o].amf
    BY <2>1, <2>4, <1>a
  <2>. QED  BY <1>b, <1>g, <2>1, <2>2, <2>5
<1>5. CASE AppStore
  <2>1. /\ appJob' = [appJob EXCEPT !.step = "send", !.obj = 0] /\ appJob # NoApp
        /\ amf2unc' = [amf2unc EXCEPT ![appJob.amf] = appJob.obj]
        /\ UNCHANGED <<unc, n1job, appq, n1q, amf2nas>>
    BY <1>5 DEF AppStore, NoApp
  <2>2. appJob'.ran = appJob.ran
    BY <2>1 DEF TypeOK, AppTypeOK, NoApp
  <2>3. appJob.amf # m \/ m = 0
    BY <1>b, <1>d, <1>e, <2>1
  <2>4. m # 0 => amf2unc'[m] = amf2unc[m]
    BY <1>a, <2>1, <2>3
  <2>. QED  BY <1>b, <1>g, <2>1, <2>2, <2>4
<1>6. CASE AppSend
  <2>. DEFINE e == [estab |-> TRUE, ran |-> appJob.ran, amf |-> appJob.amf]
  <2>1. /\ appJob' = NoApp /\ n1q' = Append(n1q, e) /\ e.ran # r
        /\ UNCHANGED <<unc, n1job, appq, amf2nas, amf2unc>>
    BY <1>6, <1>b DEF AppSend, Establish
  <2>2. NoApp.ran # r
    BY <1>a, NgapConstants DEF NgapConstants, NoApp
  <2>. HIDE DEF e
  <2>3. \A k \in 1..Len(n1q') : n1q'[k].estab => n1q'[k].ran # r
    BY <1>a, <1>b, <2>1
  <2>. QED  BY <1>b, <1>g, <2>1, <2>2, <2>3
<1>7. CASE N1Establish
  <2>1. /\ n1q # <<>> /\ n1q' = Tail(n1q) /\ Head(n1q).estab
        /\ amf2nas' = amf2nas \cup {Head(n1q).amf} /\ n1job'.ran = Head(n1q).ran
        /\ UNCHANGED <<unc, appJob, appq, amf2unc>>
    BY <1>7 DEF N1Establish, N1Free
  <2>2. Head(n1q).ran # r /\ \A k \in 1..Len(Tail(n1q)) : Tail(n1q)[k].estab => Tail(n1q)[k].ran # r
    BY <1>a, <1>b, <2>1, TailKeeps
  <2>3. Head(n1q).amf # m \/ m = 0
    BY <1>d, <2>1, <2>2, OwnedQueues
  <2>. QED  BY <1>b, <1>g, <2>1, <2>2, <2>3
<1>8. ASSUME NEW i \in Imsis \cup {0}, N1Fill(i)
      PROVE  n1job' = NoN1 /\ UNCHANGED <<unc, appJob, appq, n1q, amf2nas, amf2unc>>
  BY <1>8 DEF N1Fill
<1>9. ASSUME \/ \E answer \in BOOLEAN : N1Uplink(answer)
             \/ \E switchOff \in BOOLEAN : N1Deregister(switchOff)
      PROVE  /\ UNCHANGED <<unc, appJob, n1job, appq, amf2unc>> /\ amf2nas' \subseteq amf2nas
             /\ n1q # <<>> /\ n1q' = Tail(n1q)
  BY Zenon, <1>9 DEF N1Uplink, N1Deregister, N1Free, ForgetNas
<1>10. CASE \E i \in Imsis \cup {0} : N1Fill(i)
  <2>1. NoN1.ran # r
    BY <1>a, NgapConstants DEF NgapConstants, NoN1
  <2>. QED  BY <1>10, <1>8, <1>b, <1>g, <2>1
<1>11. CASE \/ \E answer \in BOOLEAN : N1Uplink(answer)
            \/ \E switchOff \in BOOLEAN : N1Deregister(switchOff)
  <2>1. \A k \in 1..Len(Tail(n1q)) : Tail(n1q)[k].estab => Tail(n1q)[k].ran # r
    BY <1>11, <1>9, <1>a, <1>b, TailKeeps
  <2>. QED  BY <1>11, <1>9, <1>b, <1>g, <2>1
<1>. QED  BY <1>1, <1>2, <1>3, <1>4, <1>5, <1>6, <1>7, <1>10, <1>11 DEF AppStep, N1Step

LEMMA SettledStep ==
    ASSUME ReleaseInv, SettledInv, ReleaseStep
    PROVE  /\ SettledInv'
           /\ n2job.settled /\ n2job'.step = "turn"
                => LET m == unc[n2job.obj].amf IN m # 0 => m \notin amf2nas' /\ amf2unc'[m] = 0
<1>. USE DEF ReleaseInv, uncVars, nasVars, appVars, queues
<1>. DEFINE m == unc[n2job.obj].amf
<1>a. /\ n2job \in JobRecs /\ unc \in [Objs -> UncRecs] /\ amf2unc \in [AmfIds -> 0..MaxUnc]
      /\ ~(0 \in Objs)
  BY DEF TypeOK, ControlTypeOK, UncTypeOK, Objs
<1>b. /\ UNCHANGED <<unc, appJob, n1job, appq, n1q>>
      /\ amf2nas' \subseteq amf2nas
      /\ \A k \in AmfIds : amf2unc[k] = 0 => amf2unc'[k] = 0
  BY ReleaseTakes
<1>c. \A r : Settled(r) => Settled(r)'
  BY <1>b DEF Settled
<1>d. n2job.settled =>
        /\ n2job.kind # "part" /\ n2job.step # "turn" /\ n2job.obj \in Objs
        /\ Settled(unc[n2job.obj].ran)
        /\ m \in AmfIds \cup {0}
        /\ m # 0 => /\ n2job.step \in {"amf.nas", "amf.ran", "amf.unc"} => n2job.amf = m
                    /\ n2job.step # "amf.nas" => m \notin amf2nas
                    /\ n2job.step \notin {"amf.nas", "amf.ran", "amf.unc"} => amf2unc[m] = 0
  BY <1>a DEF SettledInv, UncRecs
<1>e. n2job.settled /\ m # 0 => JobAmf = m
  BY <1>d DEF JobAmf
\* What has to be shown once the locals of the release have changed, if it goes on
\* with the same UE.
<1>g. ASSUME n2job'.settled => n2job.settled, n2job'.kind = n2job.kind, n2job'.obj = n2job.obj,
             n2job.settled =>
               /\ n2job'.step # "turn"
               /\ m # 0 => /\ n2job'.step \in {"amf.nas", "amf.ran", "amf.unc"} => n2job'.amf = m
                           /\ n2job'.step # "amf.nas" => m \notin amf2nas'
                           /\ n2job'.step \notin {"amf.nas", "amf.ran", "amf.unc"} => amf2unc'[m] = 0
      PROVE  SettledInv' /\ (n2job.settled => n2job'.step # "turn")
  <2>1. n2job.settled => Settled(unc[n2job.obj].ran)'
    <3>1. n2job.settled => unc'[n2job'.obj].ran = unc[n2job.obj].ran
      BY <1>b, <1>g
    <3>. QED  BY <1>b, <1>d, <1>g, <3>1 DEF Settled
  <2>. QED  BY <1>b, <1>d, <1>g, <2>1 DEF SettledInv
<1>1. ASSUME NEW o \in Objs, ReleaseByAmf(o)
      PROVE  SettledInv' /\ ~n2job.settled
  <2>. DEFINE base == [n2job EXCEPT !.todo = @ \ {o}, !.obj = o, !.ran = unc[o].ran,
                                   !.settled = Settled(unc[o].ran)]
              job == [base EXCEPT !.amf = unc[o].amf]
              k == unc[o].amf
  <2>1. /\ unc[o].ran \in RanIds \cup {0} /\ o \in 0..MaxUnc /\ Settled(unc[o].ran) \in BOOLEAN
        /\ unc[o].amf \in AmfIds \cup {0}
    BY <1>a DEF UncRecs, Objs, Settled
  <2>2. /\ job \in JobRecs /\ job.kind = n2job.kind /\ job.obj = o
        /\ job.settled = Settled(unc[o].ran) /\ job.amf = k
    BY <1>a, <2>1 DEF JobRecs
  <2>3. /\ n2job' = LookUpNas(job, k, "amf.nas", "amf.unc")
        /\ o \in n2job.todo /\ n2job.step = "turn" /\ amf2nas' = amf2nas
    BY <1>1 DEF ReleaseByAmf, LookUpByAmf
  <2>. HIDE DEF job, base, k
  <2>4. /\ n2job'.kind = n2job.kind /\ n2job'.obj = o /\ n2job'.settled = Settled(unc[o].ran)
        /\ n2job'.amf = k
        /\ k \in amf2nas => n2job'.step = "amf.nas"
        /\ k \notin amf2nas => n2job'.step = "amf.unc"
    BY <2>2, <2>3, LookUpFields
  <2>5. n2job.kind # "part"
    BY <2>3 DEF JobInv
  <2>6. n2job'.settled => Settled(unc[n2job.obj].ran)'
    <3>1. unc'[n2job'.obj].ran = unc[o].ran
      BY <1>b, <2>4
    <3>. QED  BY <1>b, <2>4, <3>1 DEF Settled
  <2>7. n2job'.step # "turn" /\ n2job'.step \in {"amf.nas", "amf.ran", "amf.unc"}
        /\ (n2job'.step # "amf.nas" => unc'[n2job'.obj].amf \notin amf2nas')
        /\ n2job'.amf = unc'[n2job'.obj].amf
    BY <1>b, <2>3, <2>4 DEF k
  <2>8. SettledInv'
    BY <2>4, <2>5, <2>6, <2>7 DEF SettledInv
  <2>. QED  BY <2>3, <2>8, <1>d
<1>2. CASE ReleaseByRan
  <2>1. /\ n2job.step = "ran.find" /\ n2job' = LookUpByRan(n2job)
        /\ amf2nas' = amf2nas /\ amf2unc' = amf2unc
    BY <1>2 DEF ReleaseByRan
  <2>2. n2job.ran \in RanIds
    BY <2>1, JobInvRan DEF JobRan
  <2>3. /\ n2job'.kind = n2job.kind
        /\ ran2unc[n2job.ran] = 0 => n2job'.step = "turn" /\ ~n2job'.settled
        /\ ran2unc[n2job.ran] # 0 => /\ n2job'.step \in {"ran.nas", "ran.unc"}
                                     /\ n2job'.obj = ran2unc[n2job.ran]
                                     /\ n2job'.settled = n2job.settled
    BY <1>a, <2>1, <2>2, LookUpRanFields
  <2>4. n2job.settled => ran2unc[n2job.ran] \in {0, n2job.obj}
    <3>1. n2job.settled => n2job.step # "turn" /\ n2job.obj # 0
      BY <1>a, <1>d
    <3>. QED  BY <3>1 DEF JobInv, AtHome
  <2>5. n2job.settled /\ m # 0 => m \notin amf2nas' /\ amf2unc'[m] = 0
    BY <1>d, <2>1
  <2>6. CASE ran2unc[n2job.ran] = 0
    <3>1. SettledInv'
      BY <2>3, <2>6 DEF SettledInv
    <3>. QED  BY <2>5, <3>1
  <2>7. CASE ran2unc[n2job.ran] # 0
    <3>1. CASE n2job.settled
      BY <1>g, <2>3, <2>4, <2>5, <2>7, <3>1
    <3>2. CASE ~n2job.settled
      BY <2>3, <2>7, <3>2 DEF SettledInv
    <3>. QED  BY <3>1, <3>2
  <2>. QED  BY <2>6, <2>7
<1>3. CASE RemoveNas
  <2>1. /\ n2job' = [n2job EXCEPT !.step = IF @ = "amf.nas" THEN "amf.ran" ELSE "ran.unc"]
        /\ n2job.step \in {"amf.nas", "ran.nas"} /\ amf2unc' = amf2unc
        /\ amf2nas' = amf2nas \ {JobAmf}
    BY <1>3 DEF RemoveNas, ForgetNas
  <2>2. /\ n2job'.kind = n2job.kind /\ n2job'.obj = n2job.obj /\ n2job'.settled = n2job.settled
        /\ n2job'.step = IF n2job.step = "amf.nas" THEN "amf.ran" ELSE "ran.unc"
        /\ n2job'.amf = n2job.amf
    BY <1>a, <2>1 DEF JobRecs
  <2>3. n2job.settled /\ m # 0 => m \notin amf2nas'
    BY <1>d, <1>e, <2>1
  <2>. QED  BY <1>d, <1>g, <2>1, <2>2, <2>3
<1>4. CASE RemoveRanOfNas
  <2>1. /\ n2job' = [n2job EXCEPT !.step = "amf.unc"] /\ n2job.step = "amf.ran"
        /\ amf2nas' = amf2nas
    BY <1>4 DEF RemoveRanOfNas
  <2>2. /\ n2job'.kind = n2job.kind /\ n2job'.obj = n2job.obj /\ n2job'.settled = n2job.settled
        /\ n2job'.step = "amf.unc" /\ n2job'.amf = n2job.amf
    BY <1>a, <2>1 DEF JobRecs
  <2>. QED  BY <1>d, <1>g, <2>1, <2>2
<1>5. CASE RemoveAmf
  <2>1. /\ n2job.step \in {"amf.unc", "ran.unc"} /\ amf2nas' = amf2nas
        /\ amf2unc' = [k \in AmfIds |-> IF k = JobAmf THEN 0 ELSE amf2unc[k]]
        /\ n2job' = IF n2job.step = "ran.unc" THEN [n2job EXCEPT !.step = "ran.ran"]
                    ELSE IF n2job.kind = "part" THEN EndTurn(n2job)
                    ELSE [n2job EXCEPT !.step = "ran.find"]
    BY <1>5 DEF RemoveAmf
  <2>2. CASE n2job.step = "amf.unc" /\ n2job.kind = "part"
    <3>1. ~n2job'.settled
      BY <2>1, <2>2 DEF EndTurn, Job
    <3>2. ~n2job.settled
      BY <1>d, <2>2
    <3>. QED  BY <3>1, <3>2 DEF SettledInv
  <2>3. CASE ~(n2job.step = "amf.unc" /\ n2job.kind = "part")
    <3>1. /\ n2job'.kind = n2job.kind /\ n2job'.obj = n2job.obj /\ n2job'.settled = n2job.settled
          /\ n2job'.step \in {"ran.ran", "ran.find"}
      BY <1>a, <2>1, <2>3 DEF JobRecs
    <3>2. n2job.settled /\ m # 0 => m \notin amf2nas' /\ amf2unc'[m] = 0
      BY <1>d, <1>e, <2>1
    <3>. QED  BY <1>g, <3>1, <3>2
  <2>. QED  BY <2>2, <2>3
<1>6. CASE RemoveRan
  <2>1. /\ n2job' = EndTurn(n2job) /\ n2job.step = "ran.ran"
        /\ amf2nas' = amf2nas /\ amf2unc' = amf2unc
    BY <1>6 DEF RemoveRan
  <2>2. ~n2job'.settled
    BY <2>1 DEF EndTurn, Job
  <2>3. n2job.settled /\ m # 0 => m \notin amf2nas' /\ amf2unc'[m] = 0
    BY <1>d, <2>1
  <2>. QED  BY <2>2, <2>3 DEF SettledInv
<1>. QED  BY <1>1, <1>2, <1>3, <1>4, <1>5, <1>6 DEF ReleaseStep

\* The tasks that run beside it.
LEMMA SettledBeside ==
    ASSUME ReleaseInv, SettledInv, AppStep \/ N1Step
    PROVE  SettledInv' /\ n2job' = n2job
<1>1. n2job' = n2job
  BY Zenon DEF AppStep, N1Step, AppEstablish, AppFind, AppThrow, AppWrite, AppStore, AppSend,
     N1Establish, N1Fill, N1Uplink, N1Deregister
<1>2. CASE n2job.settled
  <2>1. PICK o \in Objs : o = n2job.obj
    BY <1>2 DEF SettledInv
  <2>2. unc[o].ran # 0 /\ Settled(unc[o].ran)
    <3>1. n2job.step # "turn" /\ o # 0
      BY <1>2, <2>1 DEF SettledInv, Objs
    <3>2. n2job.kind # "none"
      BY <3>1 DEF ReleaseInv, JobInv, Idle, Job
    <3>3. n2job.assoc \in Assocs /\ unc[o].ran \in OwnRan[n2job.assoc]
      BY <2>1, <3>1, <3>2 DEF ReleaseInv, JobInv, AtHome
    <3>. QED  BY <1>2, <2>1, <3>3, NgapConstants DEF NgapConstants, SettledInv
  <2>3. /\ unc'[o].ran = unc[o].ran /\ unc'[o].amf = unc[o].amf
        /\ Settled(unc[o].ran)'
        /\ unc[o].amf # 0 /\ unc[o].amf \notin amf2nas => unc[o].amf \notin amf2nas'
        /\ unc[o].amf # 0 /\ amf2unc[unc[o].amf] = 0 => amf2unc'[unc[o].amf] = 0
    BY <2>2, SettledStays DEF ReleaseInv
  <2>4. n2job'.obj = o
    BY <1>1, <2>1
  <2>5. Settled(unc[n2job.obj].ran)'
    BY <2>3, <2>4 DEF Settled
  <2>. QED  BY <1>1, <1>2, <2>1, <2>3, <2>5 DEF SettledInv
<1>3. CASE ~n2job.settled
  BY <1>1, <1>3 DEF SettledInv
<1>. QED  BY <1>1, <1>2, <1>3

\* A release begins, ends, or does not go on: nothing is settled afterwards, or all
\* stays as it is.
LEMMA NotSettled ==
    ASSUME TypeOK, \/ \E a \in Assocs : GnbStep(a) /\ ~SctpNewAssociation(a)
                   \/ ReleaseDone \/ N2Drop \/ DownlinkNasTransport \/ UeContextReleaseCommand
    PROVE  ~n2job'.settled /\ (n2job = Idle \/ ReleaseDone)
<1>a. ~Idle.settled
  BY DEF Idle, Job
<1>1. ASSUME NEW a \in Assocs, GnbStep(a), ~SctpNewAssociation(a)
      PROVE  ~n2job'.settled /\ n2job = Idle
  <2>1. CASE NgResetAll(a) \/ NgShutdown(a)
    BY <2>1 DEF NgResetAll, NgShutdown, Job, FromGnb, N2Free
  <2>2. ASSUME NEW r \in RanIds, NEW byAmf \in BOOLEAN, NgResetPart(a, r, byAmf)
        PROVE  ~n2job'.settled /\ n2job = Idle
    <3>. DEFINE job == Job("part", a, {})
    <3>1. job \in JobRecs /\ n2job = Idle
      BY <2>2, NewJobType DEF NgResetPart, FromGnb, N2Free
    <3>2. ~job.settled
      BY DEF Job
    <3>. HIDE DEF job
    <3>3. CASE byAmf
      <4>. DEFINE m == view[a][r]
                  k == [job EXCEPT !.amf = m]
      <4>1. m \in AmfIds
        BY <2>2, <3>3 DEF NgResetPart, TypeOK, ControlTypeOK, Free
      <4>2. k \in JobRecs /\ ~k.settled
        BY <3>1, <3>2, <4>1 DEF JobRecs
      <4>3. n2job' = LookUpNas(k, m, "amf.nas", "amf.unc")
        BY <2>2, <3>3 DEF NgResetPart, job, LookUpByAmf
      <4>. HIDE DEF k, m
      <4>. QED  BY <3>1, <4>2, <4>3, LookUpFields
    <3>4. CASE ~byAmf
      <4>. DEFINE k == [job EXCEPT !.ran = r]
      <4>1. k \in JobRecs /\ ~k.settled /\ k.ran \in RanIds
        BY <3>1, <3>2 DEF JobRecs
      <4>2. n2job' = LookUpByRan(k)
        BY <2>2, <3>4 DEF NgResetPart, job
      <4>. HIDE DEF k
      <4>. QED  BY <3>1, <4>1, <4>2, LookUpRanFields
    <3>. QED  BY <3>3, <3>4
  <2>3. CASE ~(NgResetAll(a) \/ NgShutdown(a)
               \/ \E r \in RanIds, byAmf \in BOOLEAN : NgResetPart(a, r, byAmf))
    <3>1. n2job = Idle /\ n2job' = n2job
      BY ZenonT(40), <1>1, <2>3 DEF GnbStep, NgSetup, InitialUeMessage, UplinkNasTransport,
         GnbReleasesUe, FromGnb, N2Free, queues, appVars
    <3>. QED  BY <1>a, <3>1
  <2>. QED  BY <2>1, <2>2, <2>3
<1>2. CASE ReleaseDone
  BY <1>2, <1>a DEF ReleaseDone
<1>3. N2Drop \/ DownlinkNasTransport \/ UeContextReleaseCommand => n2job = Idle /\ n2job' = n2job
  BY Zenon DEF N2Drop, DownlinkNasTransport, UeContextReleaseCommand, N2Free
<1>. QED  BY <1>a, <1>1, <1>2, <1>3

LEMMA NextSettled ==
    ReleaseInv /\ SettledInv /\ [Next]_vars =>
      /\ SettledInv'
      /\ n2job.settled /\ n2job'.step = "turn"
           => LET m == unc[n2job.obj].amf IN m # 0 => m \notin amf2nas' /\ amf2unc'[m] = 0
<1>. SUFFICES ASSUME ReleaseInv, SettledInv, [Next]_vars
              PROVE  /\ SettledInv'
                     /\ n2job.settled /\ n2job'.step = "turn"
                          => LET m == unc[n2job.obj].amf IN
                             m # 0 => m \notin amf2nas' /\ amf2unc'[m] = 0
  OBVIOUS
<1>a. n2job.settled => n2job.step # "turn" /\ n2job # Idle
  BY DEF SettledInv, Idle, Job
<1>1. CASE ReleaseStep
  BY <1>1, SettledStep
<1>2. CASE AppStep \/ N1Step
  BY <1>2, <1>a, SettledBeside
<1>3. CASE \/ \E a \in Assocs : GnbStep(a) /\ ~SctpNewAssociation(a)
           \/ ReleaseDone \/ N2Drop \/ DownlinkNasTransport \/ UeContextReleaseCommand
  <2>1. ~n2job'.settled /\ (n2job = Idle \/ ReleaseDone)
    BY <1>3, NotSettled DEF ReleaseInv
  <2>2. ReleaseDone => n2job.step = "turn"
    BY DEF ReleaseDone
  <2>. QED  BY <1>a, <2>1, <2>2 DEF SettledInv
<1>4. CASE \E a \in Assocs : SctpNewAssociation(a)
  BY <1>4, <1>a DEF SctpNewAssociation, uncVars, nasVars, appVars, queues, SettledInv, Settled
<1>5. CASE UNCHANGED vars
  BY <1>5, <1>a DEF vars, uncVars, nasVars, appVars, queues, SettledInv, Settled
<1>. QED  BY <1>1, <1>2, <1>3, <1>4, <1>5 DEF Next, N2Step

LEMMA SettledCorrect == Spec => [](ReleaseInv /\ SettledInv)
<1>1. Init => SettledInv
  BY DEF Init, Idle, Job, SettledInv
<1>2. ReleaseInv /\ SettledInv /\ [Next]_vars => SettledInv'
  BY NextSettled
<1>. QED  BY <1>1, <1>2, ReleaseCorrect, PTL DEF Spec

\* When NG Reset or NG Shutdown leaves a UE that had no establishment under way when
\* its turn began, neither its NAS context nor its ngap context is found under its AMF
\* id, however the locks of the maps were taken in between by the other tasks.
THEOREM SettledUeIsGoneAlways == Spec => SettledUeIsGone
<1>1. ReleaseInv /\ SettledInv /\ [Next]_vars =>
        [n2job.settled /\ n2job'.step = "turn"
           => LET m == unc[n2job.obj].amf IN
              m # 0 => m \notin amf2nas' /\ amf2unc'[m] = 0]_vars
  BY NextSettled
<1>. QED  BY <1>1, SettledCorrect, PTL DEF Spec, SettledUeIsGone

==============================================================================
