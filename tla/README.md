# A verification project for the OAI AMF

This directory holds TLA+ specifications of the Access and Mobility Management
Function (AMF) whose sources are under `src/src`, the TLC models that check them
on small instances, and proofs of the most important invariants that TLAPS
checks for every value of the constants. Paths below are relative to `src/src`.

## 1. The system

The AMF is one process. Its threads share objects through maps that are
protected by read-write locks, one lock per map, and exchange messages through
the ITTI middleware.

| Component | State | Operations | Talks to |
|---|---|---|---|
| SCTP server (`sctp/sctp_server.cpp`) | `sctp_ctx`: one descriptor per association, never removed | receive loop: data, association up, association down (reported once: the socket leaves the set at the first event) | calls `ngap_app` from its own thread |
| NGAP layer (`ngap/ngap_app/ngap_app.cpp`, `ngap_message_callback.hpp`) | `assoc2gnbContext`, `gnbid2gnbContext` | decode a PDU, hand it to TASK_AMF_N2 | TASK_AMF_N2 by message |
| TASK_AMF_N2 (`amf-app/amf_n2.cpp`) | `ranid2uecontext`, `amfueid2uecontext` | NG Setup, Reset, Shutdown, Initial UE Message, NAS transport, UE context release, PDU session resources, handover, paging | AMF_APP, AMF_N1, AMF_SBI by message; waits for AMF_SBI on futures; writes `amf_n1`'s maps directly |
| TASK_AMF_APP (`amf-app/amf_app.cpp`) | `ue_ctx_key`, `supi2ue_ctx`, event subscriptions, promises, id generators | NAS signalling establishment, N1N2 message transfer, SBI requests, statistics timer | writes `amf_n2`'s maps directly; AMF_N1, AMF_N2 by message |
| TASK_AMF_N1 (`amf-app/amf_n1.cpp`) | `amfueid2nas_context`, `imsi2nas_context`, `guti2nas_context`, SUPI to id maps, NAS contexts | registration, identification, authentication, security mode, service request, de-registration, reachability timers | AMF_N2, AMF_SBI by message; AUSF/UDM/NSSF/NRF over HTTP while it blocks |
| TASK_AMF_SBI (`amf-app/amf_sbi.cpp`) | none of its own; PDU session contexts | SM context requests to the SMF, notifications, NF registration | sets the promises that other tasks wait for |
| ITTI middleware (`itti/itti.cpp`) | queue and state per task; set of timers, `current_timer` | create_task, send_msg, receive_msg, timer_setup, timer_remove, the timer manager thread | every task |
| Event exposure (`amf_subscription`, `amf_event`) | subscriptions by (id, event type) | subscribe, unsubscribe, notify | HTTP servers write, AMF_N1 reads |
| Statistics (`amf_statistics.cpp`) | connected gNBs, UE table | written by every task, printed by a timer | |
| HTTP servers, configuration, database, codecs, algorithms | | pure I/O, start-up data or stateless functions | |

What is hard in this code: three tasks and the SCTP thread change the same maps
with one lock per map, so a check and the use of what was checked, or the removal
of one UE from five maps, are not atomic; objects are shared by pointer after
they left a map; UE identities are reused; messages in queues name contexts that
are gone; associations come back before their release is over; a timer
fires while it is being removed; a task blocks on an answer that is late.

What makes each component correct:

* registry: an id leads to one UE, and when an association is reset or goes down
  everything of its UEs, and of nobody else's, is gone;
* timers: a timer is reported once, not early, not after it was removed, and in
  the end;
* registration: a GUTI leads to the context of its UE; a UE becomes registered
  only through authentication and security mode control of that attempt; no flag
  of an abandoned procedure blocks a later one for ever;
* reachability: a UE that came back is not treated as unreachable, and one that
  stays away is de-registered;
* promises: who waits is answered or times out, no answer reaches a wrong waiter,
  nothing leaks;
* handover: a UE is served by one gNB and found under one RAN id; a handover that
  fails leaves it where it was;
* event exposure: after unsubscribing no event is notified.

## 2. Plan

| # | Module | What | State |
|---|---|---|---|
| 1 | `NgapContexts`, `NgapContextsProofs` | gNB and UE registry | modelled, checked, proved |
| 2 | `TimerService`, `IttiTimers`, `IttiTimersProofs` | timers, as an abstract promise and as the code, and that one implements the other | modelled, checked, proved |
| 3 | `AmfN1`, `AmfN1Proofs` | 5GMM: registration, authentication, security mode, service request, de-registration, reachability timers, paging | modelled, checked, proved |
| 4 | `SbiCall`, `SbiPromise`, `SbiPromiseProofs` | calls between threads: promise tables, waits with a time-out, late answers; what a call promises, and that the promises implement it | modelled, checked, proved |
| 5 | `Handover`, `HandoverProofs` | N2 handover between gNBs: required, acknowledge, notify, repeated and abandoned attempts | modelled, checked, proved |
| 6 | `IttiTasks`, `IttiTasksProofs` | start-up, READY rendez-vous, queues, TERMINATE, joins | modelled, checked, proved |
| 7 | `PduSession`, `PduSessionProofs` | session management messages through the four tasks and the HTTP threads | modelled, checked, proved |
| 8 | `EventSubscriptions` | subscription table and its generator | not begun |
| 9 | `SctpServer` | descriptors, double down, id reuse | not begun |
| 10 | `AmfAlgorithms` | common PLMN, common NSSAI, algorithm selection, NAS counts, against reference definitions | not begun |

No module composes all of them; where two meet, each abstracts what the other is
about. The registry knows of a NAS context only whose it is, and `AmfN1` takes the RAN
and AMF ids as one. `Handover` follows one UE, for which the registry comes down to its
context and the RAN ids that lead to it. The calls that handover, de-registration and
PDU sessions make to the SMF are those of `SbiPromise`, which lets them end in every way
they can. The queues that `NgapContexts` and `PduSession` take as first-in first-out are
the ones `IttiTasks` describes.

Every safety property that a passing run checks is a theorem by now (section 5). Worth
proving next is what relates two steps far apart: that `AmfN1` implements a registration as
the UE sees it, and that the way of a PDU session transfer implements a bounded channel.
Both need an abstract module first, as `SbiCall` and `TimerService` are.

## 3. The modules and the code

### NgapContexts

Three tasks and the SCTP thread change maps that they share. The state is those maps:

| Variable | Code |
|---|---|
| `gnbState` | `ng_state` of the `gnb_context` of each association in `assoc2gnbContext` |
| `unc`, `nUnc` | heap of `ue_ngap_context` |
| `ran2unc`, `amf2unc` | `amf_n2::ranid2uecontext`, `amf_n2::amfueid2uecontext` |
| `nextAmf`, `ueCtx` | id generator and `ue_ctx_key` of `amf_app` |
| `nas`, `amf2nas`, `imsi2nas` | NAS contexts and the maps of `amf_n1` to them |
| `n2job` | where TASK_AMF_N2 is in NG Reset or NG Shutdown: the contexts left in its loop, the step of the removal function it is in, and that function's arguments and locals |
| `appJob`, `n1job` | where TASK_AMF_APP is in an establishment, and the NAS context that TASK_AMF_N1 has stored and not filled in yet |
| `appq`, `n1q`, `n2q` | ITTI queues of the three tasks |
| `link`, `view` | external: the association, and what the gNB was told |

One action stands for one handler, except where another task can get in between and
the difference shows. The two removal functions of `amf_n2` take the locks of five maps
one after the other, and so do their models:

* `remove_ue_context_with_amf_ue_ngap_id`: `LookUpByAmf`, `RemoveNas`, `RemoveRanOfNas`,
  `RemoveAmf`;
* `remove_ue_context_with_ran_ue_ngap_id`: `LookUpByRan`, `RemoveNas`, `RemoveAmf`,
  `RemoveRan`.

`ReleaseByAmf` and `ReleaseByRan` are the two calls of a turn of the loop, `NgResetPart`
calls one of them. The first function is called with a copy of the id, since
`amf_ue_ngap_id` is a bit field (contexts/ue_ngap_context.hpp:71) and a reference to it is
one to a temporary; the second reads the id in the context again wherever it uses it
(`JobAmf`), and may find another one each time. The two removals from maps of `amf_n1` are
one step, since no other task reads the first of them. The establishment is split at the
same grain: `AppEstablish` with its test of a map, `AppFind` (or `AppThrow`, when the `at()`
that follows finds nothing), `AppWrite` into the context, `AppStore` under the AMF id,
`AppSend`; then `N1Establish`, which stores a bare NAS context, and `N1Fill`. The other
handlers of TASK_AMF_N2 do not overlap a release, which is on the same task, and stay one
step each. Initial UE Message and Downlink NAS Transport may overlap an establishment, but
what the two store is in different fields or under different ids, or is one store, so
their steps can be put next to each other. De-registration in TASK_AMF_N1 clears the
two maps of `amf_n1` in one step as well.

What is abstracted: receiving a PDU and handling it is one step, because gNBs send what
they like and every interleaving with a queue is one without it; messages between tasks
do go through queues, since the ids they carry go stale. `NgResetPart` has a list with
one item. A NAS context is named by its AMF UE NGAP ID, which is exact without the GUTI
path (that is in `AmfN1`). NG Setup is reduced to its effect on the state of the gNB: the
global ids of gNBs, the map from them, the tracking areas and the statistics are left
out, for no UE is looked up or released by them.

### TimerService, IttiTimers

`TimerService` is the promise: a timer that was set is reported at most once, not
before it is due, and not after it was cancelled; one of two timers that are due at the
same instant may be forgotten. `IttiTimers` is `timer_setup`, `timer_remove` and the
thread `timer_manager_task`. A call that holds `m_timers` is one step. The thread gives
the mutex up before it looks at `current_timer`, waits, and fills in its message, so it
is split at each of those points (`pc`). `timer_id` is incremented without a lock
(`LoadId`, `StoreId`), so two timers may have one id. The set compares `time_out` only,
so an equal timer is not inserted (`Inserted`). A wake-up may be spurious, and a
notification reaches only a thread that waits.

`IttiTimers` implements `TimerService` with `pending` mapped to `timers` and whatever the
thread holds. `Tick` maps to `Tick`, `Insert` to `Set`, `TimerRemove` to `Cancel` or a
stutter, `PutBack` to `Forget` or a stutter, `Send` to `Deliver` or a stutter, and the
rest to a stutter.

### AmfN1

5G mobility management as TASK_AMF_N1 and part of TASK_AMF_N2 run it. A connection is
the signalling connection that one Initial UE Message opens; it is named by the AMF UE
NGAP ID generated for it and stands for the RAN id as well. A NAS context is named by the
connection that created it.

| Variable | Code |
|---|---|
| `nas` | heap of `nas_context`: bound ids (`conn`), IMSI, 5GMM state, `is_5g_guti_present` (`byGuti`), the authentication vector held, the security context and the vector its keys come from, the two running flags, timer ids, `is_mobile_reachable_timer_timeout` (`timedOut`) |
| `amf2nas`, `imsi2nas`, `guti2nas` | `amfueid2nas_context`, `imsi2nas_context`, `guti2nas_context` |
| `supi2conn` | `supi2amfId` and `supi2ranId`, which are always set together |
| `nTmsi` | `amf_app::tmsi_generator` |
| `armed`, `expired` | timers of the task, and their messages in its queue |
| `up`, `dl` | NAS messages under way |
| `alive` | FALSE once a null pointer was dereferenced |
| `ue`, `owner`, `closed` | external: UEs, their connections, radio links |

One action is one handler with everything it calls. The first message of a connection
(`RegisterBySuci`, `RegisterByGuti`, `UpdateRegistration`, `ServiceRequest`) looks for a
context by the 5G-S-TMSI and rebinds it, or makes a new one; `RunRegistration`,
`Challenge` and `SecurityMode` are the procedures it runs into. Between two handlers a
radio link may be lost, a UE may come back before the AMF noticed, and messages of the
old connection may still arrive: an uplink slot per connection outlives the link. A
downlink message on a closed connection is lost.

UEs are honest and run one procedure at a time: they answer a challenge, report a
sequence number they have seen, may report a failure, and keep the GUTI they were
given. Keys and vectors are numbers: a message is protected by a vector, and the AMF
takes it if its context derived its keys from the same one. Vectors come from an AUSF
(`enable_external_ausf`), which may fail.

A GUTI reaches the AMF on two ways. The 5G-S-TMSI that the gNB passes on names the GUTI
that the AMF built, as it does with decimal set id and pointer in the configuration. A GUTI
in a NAS message goes through the codec of the mobile identity, which encodes AMF set id
and pointer in 10 and 6 bits and decodes one octet for each
(nas/ies/5GSMobilityIdentity.cpp:338, 684): `NasGuti` is what comes out. `AmfSetId` and
`AmfPointer` are constants. With a set id other than 0 the decoded GUTI is one that nobody
was given, so `Deregistration` removes nothing from `guti2nas_context`, and a UE that
returns finds its de-registered context by the 5G-S-TMSI, with the vector it had used. Set
id 0 with a small pointer is left out: there the round trip is the identity, and
`registration_request_handle` takes a path of its own for a GUTI it finds
(amf_n1.cpp:1146). The repository configures set id 1
(build/scripts/generate_amf_conf.sh:29).

Left out: slice selection and rerouting, emergency registration, NAS counts, vectors
generated in the AMF, UL NAS transport and PDU sessions, a restart of the AMF. The loops
of NG Reset and NG Shutdown that remove NAS contexts are in `NgapContexts`. The branches
for a known GUTI inside `registration_request_handle` cannot run, since the context was
found before; the flags for identification and NAS transport are never set.

### SbiCall, SbiPromise

`SbiCall` is what a call promises its caller: every request is a new one, it is answered
at most once, and a caller gets for a session the answer to the request it made for it
in this very call, or "late". `SbiPromise` is how the code does it:

| Variable | Code |
|---|---|
| `uid` | `uint_uid_generator` behind `amf_app::generate_promise_id` |
| `table` | `curl_handle_responses_smf`, `_n2_sm`, `_sbi` of `amf_app` (the keys) |
| `promise` | the shared state of each `boost::promise` |
| `queue`, `work`, `state` | ITTI queue of the answering task, the request it handles, whether it runs |
| `call`, `futures`, `outcome` | locals of the calling handler: what it has still to ask for, `promise_ids` / `responses`, and what the wait gave |

`Register` is `generate_promise_id` and `add_promise`, `Send` is `send_msg`, whose failure
the callers only log. `WaitReady` and `WaitTimeout` are the two ends of
`wait_for(FUTURE_STATUS_TIMEOUT_MS)` on the future at `begin()` of the map (ordered by
promise id for a de-registration, by session id otherwise). `Answer` is the end of a
handler that calls `trigger_process_response`, `Drop` one that returns before it. A wait
that ends may be late at any moment, since the time the answering task may spend in curl
is ten times the time-out. The four kinds of call differ in table, answering task, what
an answer may hold, and whether they take several keys.

`SbiPromise` implements `SbiCall`: `uid`, `promise` and `futures` are its `used`, `answer`
and `wait`; `Begin`, `Register`, `WaitReady`, `WaitTimeout` map to `Begin`, `Ask`, `Get`,
`GiveUp`, an `Answer` that finds its promise to `Serve`, and everything else stutters.
What the handlers do with the outcome is left out, and so is the wrap of ids at 2^32.

### Handover

One UE with a `ue_ngap_context` (`unc`), the RAN ids under which `ranid2uengap` leads to
it (`ranMap`), and whether its NAS context has a security context (`secured`, which
TASK_AMF_N1 may set meanwhile). Messages between the AMF and a gNB are in order, those of
two gNBs overtake each other (`up`, `down`). `ctx`, `place` and `prep` are what the gNBs
know: the contexts they keep, where the UE is, and whom its gNB waits for.

`RequiredRefused`, `RequiredForwarded` and `RequiredCrash` (the `at()` that throws) are the
ends of `HandoverRequired`; `Ack` is the dispatch through `messages_callback` together with
`HandoverRequestAck`, which stores the RAN id of the target and may still return before it
sends the command; `Notify` is `HandoverNotify`, `StatusTransfer` is
`UplinkRanStatusTransfer`. HANDOVER CANCEL and HANDOVER FAILURE have callbacks that do
nothing (`GiveUp`, `TargetRefuses`). The gNBs are external and do what NGAP asks: a
target answers with a RAN id it has set aside, a source follows a command only for the
UE it asked for, and a gNB releases what it is told to.

The AMF takes a HANDOVER REQUIRED from any gNB and stores that gNB as the serving one. The
source may repeat the request, and a repeated one may be handled after the UE has left.
`usurped` (history, set by `Note`) says that this has happened; `ReleaseSparesTheUe` and
`UeIsFound` are about the states in which it has not. Section 6 says what happens when it
has.

The dispatch is a constant, `Row`: the row of `messages_callback` for the procedure. The
code's row (`CodeRow`) gives the acknowledgement to a function that does nothing, so with
it nothing else of the procedure can run; that is one of the disagreements of section 6.
The other run has the row in which the acknowledgement reaches the function that decodes
it (`DecodingRow`), and its properties are about the handlers, which that row lets run.
Left out: keys and `ncc`, the lists of sessions, and the calls to the SMF, whose result
the handlers do not use.

### IttiTasks

The main thread from the constructor of `amf_app` to the end of `amf_signal_handler`
(`pc`, `i`), and each task's thread (`thread`), context (`state`), queue and current
message. Two threads that are not tasks send as well: the SCTP receiver, which the base
class of `amf_n2` starts before the task exists, and the HTTP servers, which `main()`
starts last.

`NewContext`, `StartThread`, `CreateReturned` are `create_task` with its poll for READY;
`AssignInstance` and `AssignApp` the assignments of `amf_*_inst`, which follow it.
`SendTest` and `SendPush` are `send_msg`: it reads the state of the destination without
its lock and pushes afterwards. `Receive` is `receive_msg`, whose test and wait are
under `m_queue`. `SetTimer` is the first `timer_setup`, on the main thread at the end of
the constructors. `Broadcast`, `Join`, `DeleteApp`, `StopServers`, `Free` are the signal
handler, which interrupts the main thread wherever it is. Inside `timer_setup` that
thread holds `m_timers` and `m_timeout` (`Interrupted`): a handler that sets a timer
then waits for ever (`Blocked`; the tasks that do are `Timed`), and so does the
destructor of `itti_mw`. That destructor (`Free`) also destroys `c_timers`, on which the
timer thread waits as long as no timer was ever set and which it does not notify;
destroying a condition with a waiter is undefined, and both outcomes are there, "freed"
and "stuck". `Handled` stands for any handler: it calls through the instance of its task
and maybe through `amf_app_inst`, and `NullInstance` is what happens when one of them is
null. `CallIntoFreed` is a sender that calls into an object the signal handler has
freed: it may end the process, or do nothing. `fate` and `started` are history. Left
out: the message that the registration with the NRF sends from the constructor, and a
signal before `itti_mw` exists.

### PduSession

One registered UE with a security context. `location` is the session table of its
`ue_context` with the SM context whose Location each session keeps; `queue` the four
ITTI queues; `calling` the request TASK_AMF_SBI waits for; `storing` what an HTTP thread
has accepted and not sent yet. `transfers` lists what came from the SMF, with its fate,
and `toGnb` what was sent (history). `contexts` are the SMF's.

`UeAsks` is UL NAS TRANSPORT as it arrives at TASK_AMF_N1, `N1Uplink` its way on,
`SbiCalls`, `SbiSucceeds`, `SbiFails` the three ends of the creation and update of an SM
context, `HttpAccepts` and `HttpSends` N1N2MessageTransfer before and after the SMF has
its response, `AppHandles` / `N1Downlink` / `N2Handles` the way of a transfer through the
tasks, `SmfReleased` the status notification, `GnbAnswers` the response of the gNB, which
TASK_AMF_SBI takes to the SMF, and `GnbRefuses` a response that lists only sessions that
were not set up, which goes no further.

Every early return on the way has an outcome. `N1Downlink` gives a transfer up
("unknown") when there is no NAS context, no security context or no `ue_context`
(`GivenUp`), and a modification when its session is not found; the maps those lookups
read belong to `AmfN1` and `NgapContexts`, so here they may fail at any moment.
`N2Handles` stands for the handlers of the messages that a transfer becomes: they differ
in what they encode, and drop it alike when the UE is not found. Those of the setup
requests and of paging go on with a null NAS context (`N2UsesNull`). Paging or transfer
is decided when the HTTP thread sends.

A transfer has one of the kinds in `Kinds`. A release takes the way of a setup whose
context was requested, so the runs have `setup`, `modify` and `n1`. A registration is one
step (`Reregistered`; the steps are in `AmfN1`), and so is a release of the UE
(`UeMoves`). Left out: the copy of the last N2 information that a session keeps for a
Service Request, the choice of the SMF, slices and DNNs.

## 4. What TLC checks

| Run | Instance | What it shows |
|---|---|---|
| `ngap_two_gnbs` | 2 associations, disjoint RAN ids, 2 AMF ids, 2 contexts, one subscriber, queues of 1 (3,284,224 states) | An AMF UE NGAP ID stays with the RAN id it was generated for in all maps, contexts and queues (`AmfIdKeepsItsRanId`); a release on one gNB takes nothing of the UEs of the other (`ReleaseIsLocal`); after a reset or shutdown no UE of the association is found by RAN id (`ReleaseClearsRanMap`); and a UE that had no establishment under way when the loop came to it is not found under its AMF id either (`SettledUeIsGone`), although AMF_APP and AMF_N1 go on between any two removals |
| `timers_service` | 2 tasks, delays 1 and 2, 3 calls | The timers implement their service, no timer is in two places, a removal cancels |
| `timers_liveness` | 2 tasks that do not remove | Every instant a timer is set for is served |
| `timers_null_wait` | violation | With removals, the thread may wait for `null_timer` and forget the others |
| `N1Identities` | 2 UEs, 3 connections, overtaking | Connection, SUPI, IMSI and GUTI lead to contexts of their own UE, also the GUTIs that a de-registration leaves behind; one common procedure at a time; registration only at the end of a security mode procedure |
| `N1Registration` | 1 UE, 3 connections, one failure | A registration is accepted or rejected in the end, whatever an abandoned attempt left behind |
| `sbi_promise` | 2 tasks that call, 3 kinds of call, 2 sessions, 3 promises | The promises implement `SbiCall`; an answer in time finds its promise (`AwaitedIsSetOrKnown`); every call returns, also when the answering task is stuck or has ended (`CallReturns`) |
| `handover` | 3 gNBs, 2 RAN ids that all use, 3 attempts, acknowledgement dispatched to its decoder | Unless a HANDOVER REQUIRED is taken from a gNB that the UE has left, the release at the end of a handover never hits the context the UE uses (`ReleaseSparesTheUe`); when nothing is under way the AMF finds the UE under its RAN id (`UeIsFound`) |
| `handover_ack` | violation | With the row of callbacks as it is the acknowledgement is dropped, and an admitted UE is not commanded (`AckIsCommanded`) |
| `itti_tasks` | the 4 tasks, 2 messages, a signal at any moment | No wake-up is lost (`AsleepHasNothing`); no task calls through a null instance after start-up (`InstancesOutliveTasks`); `create_task` returns (`CreateReturns`); what was queued ahead of TERMINATE is handled, unless the signal came inside `timer_setup` (`AcceptedIsHandled`); a shutdown that begins with no task starting and outside `timer_setup` ends, or is stuck in the destructor when no timer was set yet (`ShutdownEnds`) |
| `pdu_session` | 2 HTTP threads, 1 session, 2 SM contexts, 2 transfers | An accepted transfer is in exactly one place until it is settled, one that was sent, given up or paged for is in none, and none is sent twice (`TransferIsConserved`); those one thread accepted keep their order (`OrderKept`); the gNB's answer does not go to another SM context (`AnswerStaysInItsContext`) |
| `pdu_modify` | violation | A modification is given up although the AMF has its session |

**Bounds.** Every counter that could grow has a constant for its bound, in the guard of
the action that counts. For the registry: two ids and two context objects let one UE
leave an id behind that another takes; `MaxProcs` of 5 is enough for set up, attach,
shut down, come back and set up again, with a release loop running in the middle. Queues
of 1 let a message go stale while its task is busy. The RAN ids of the two gNBs are
disjoint, which is what makes locality a question; a run with one shared RAN id was made
of the invariants of the proof only. For the timers: two timers make the thread put one
back for an earlier one, the third is set or removed meanwhile; equal instants and
duplicate ids both happen. For 5GMM: three connections are register, come back before or
after the loss was noticed, and come back once more; `MaxTmsi` never binds (three
connections have at most three completions); `MaxFail` counts failures reported by UEs
and expirations of mobile reachable timers (those of implicit de-registration timers are
free). For the promises: three ids let a call of two sessions time out and its late
answers arrive during a later call. For handover: three attempts are there, back or on
to a third gNB, and one that was abandoned. For the tasks: two messages are one that is
queued and one that is tested meanwhile, or is behind TERMINATE; the number of tasks is
the code's. For PDU sessions: two contexts are a session and the one that replaces it,
two transfers are two threads, or one of them twice. `CHECK_DEADLOCK FALSE` is in every
cfg, because a system whose bounded counters are used up, whose timer thread has stopped
or whose process has died or exited takes no step.

**What the premises leave out.** `SettledUeIsGone` says nothing of a UE that is being
bound or set up while the loop is at it. Without its premise both halves fail:
TASK_AMF_APP may store the context under the AMF id (amf_app.cpp:417) after the loop has
removed that entry (amf_n2.cpp:2222), and TASK_AMF_N1 may store a NAS context
(amf_n1.cpp:550) after the last look at that map. No text in the repository says what
should happen then. `AmfIdKeepsItsRanId` identifies a UE by its RAN id, and so does the
code; see section 6 for two UEs that get the same one. `ShutdownEnds` and
`AcceptedIsHandled` name their exceptions; all of them are states TLC reaches.
`TransferIsConserved` counts a transfer that was given up as settled: it says that
nothing is lost or doubled without a handler deciding so, not that the SMF's transfer
arrives.

**Fairness.** `IttiTimers`: the clock runs, and the timer thread is scheduled; nothing
is assumed of the tasks. `AmfN1`: weak fairness of TASK_AMF_N1 per connection (it takes
what is in its queue in turn, and never waits for a UE), and of a UE that has a message
to answer. `SbiPromise`: a thread in a call keeps running, since its waits are bounded by
the clock; nothing is assumed of the task that should answer. `Handover`: TASK_AMF_N2
takes the messages of every association in the end; nothing is assumed of the gNBs.
`IttiTasks`: the scheduler runs the main thread, the tasks, and a sender that is between
the test and the push of `send_msg`; nothing makes a peer send or the operator signal.
Nothing says that UEs come, leave, fail or de-register, or that links, AUSF or timers do
anything. The safety runs, and `PduSession`, need none.

`N1Registration` has `Overtaking = FALSE`: the first messages of a UE's connections
reach the task in the order they were sent. With overtaking TLC finds a registration
that waits for ever: the Initial UE Message of an abandoned connection is handled late
and rebinds the context to it, and the Security Mode Command for the live connection
follows (amf_n1.cpp:2434). The messages of one gNB are not reordered, those of two
gNBs may be; so the liveness shown is that of a UE under one gNB. `N1Identities` has
overtaking.

**Symmetry**: tasks in the safety run of the timers, and the HTTP threads in
`pdu_session`; both are safety runs.

## 5. What is proved

TLAPS checks these for every value of the constants; the only assumption is the one
named in each module (`NgapConstants`, `TimerConstants`, `PromiseConstants`,
`HandoverConstants`, `TasksAssumption`, `N1Constants`, `PduAssumption`), which says that
ids are positive numbers, that bounds are natural numbers, that `Unknown` is no gNB, that
sets are finite or not empty where they must be, that the two orders of tasks list the
same tasks without repetition, and that no HTTP thread is named `"sbi"`, which stands
for TASK_AMF_SBI where the source of a transfer is written down.

**NgapContextsProofs**

* `TypeCorrect`: `Spec => []TypeOK`, one step per action, with a lemma per group of
  variables (`GnbTypeOK`, `UncTypeOK`, ...).
* `AmfIdKeepsItsRanIdAlways`. That two contexts never hold the same AMF id is not
  inductive: an id travels through a queue, the jobs of AMF_APP and AMF_N1, a NAS context,
  the answer, and what the gNB was told, before it is stored in the context again. The
  invariant `IdInv` says for each of these places that the id in it was generated for the
  RAN id it comes with: `RanInv` and `AmfInv` (the maps), `PairInv` (`ueCtx` gives an id to
  one RAN id only), `UncInv`, `NasInv`, `AppInv`, `N1Inv`, `QueueInv`, `ViewInv`. `PairInv`
  holds since ids are generated in order; everything else follows from it.
* `ReleaseIsLocalAlways`. `HomeInv` says that a context and a gNB's record are where the
  gNB that handed out the RAN id is; `JobInv` that a release works with UEs of its
  association only, in each of its steps: the contexts on its list, the one in its
  hands, the AMF id it was given, the NAS context it has read. That the id in a context
  may change between two reads does no harm, because by `IdInv` any id in it was
  generated for its RAN id. It holds for every `OwnRan`; that the RAN ids of two gNBs
  are disjoint is what makes it say that they do not release each other's UEs.
* `ReleaseClearsRanMapAlways`. `ClearInv` says that a context of the association found by
  RAN id is still on the list of the loop, or is the one in its hands. It is kept because
  TASK_AMF_N2 takes no Initial UE Message during the loop, and the other tasks do not
  write `ranid2uecontext`.
* `SettledUeIsGoneAlways`. `SettledInv` follows a turn that began with no establishment
  under way: none can begin during it (`Settled` is kept, since an establishment begins
  with a message of TASK_AMF_N2, which is in the loop), so the id in the context does
  not change, and what each removal has taken from `amfueid2nas_context` and
  `amfueid2uecontext` stays away.
* TLC checked `ReleaseInv` (the conjunction of these but the last) and `SettledInv` as
  invariants, with two gNBs and disjoint RAN ids (3,284,224 states) and with two gNBs that
  share one (3,361,128 states).

**IttiTimersProofs**

* `TypeCorrect`, `PlacesAreDisjointAlways`, `RemoveCancelsAlways` from one invariant
  `IInv`: setups are within their bound, timers in any place were made by a call, the
  id of a timer is not that of `null_timer`, the places are disjoint, and `ThreadKnows`:
  while the thread waits, its deadline is that of the timer it holds; from "due" on, the
  timer it holds (or has put into its message) is due; and when it holds none,
  `current_timer` still names the timer it reported last. Without `ThreadKnows` a report
  could be early, or a removal could take a timer for held that was reported long ago.
* `TimersImplementService`: initial states map to initial states and each action to the
  step of `TimerService` given in section 3, under `IInv`.

**SbiPromiseProofs**

* `TypeCorrect` together with `IdleInv`: a thread without a call waits for nothing, and a
  key that is still to be asked for has neither a future nor an outcome. Without it the
  next call could overwrite a future, or take over an outcome.
* `AwaitedIsSetOrKnownAlways` is inductive with the two: `Register` enters a new id in the
  table before anyone can ask for it, and `Trigger` erases exactly the promise it sets.
* `PromisesImplementCall`. The invariant `RefInv` has three parts: `PidInv` (a promise in
  a table is not set, is in no other table, and ids above `uid` have no value, so an
  answer is a first answer), `RequestInv` (a request on its way, be it about to be sent,
  queued or being handled, asks for the key that whoever waits for its promise waits for)
  and `AnswerInv` (hence a promise that is set holds the answer for that key). With them
  each step maps as section 3 says.

**HandoverProofs**

* `TypeCorrect`, for any row of callbacks, together with what the messages in each queue
  look like (`QueuesOK`).
* `ReleaseSparesTheUeAlways` and `UeIsFoundAlways`. A release is aimed at the place that the
  AMF believes in, and the UE moves on its own, so neither property is inductive. The
  invariant `UeInv` follows what is under way: one notification at most, and only while
  the AMF is behind (`NotifyInv`); a context that a target has set aside is in one
  acknowledgement or one command, and nobody uses it yet (`OfferInv`); a context that is
  to be released is no place of the UE, real or believed (`ReleaseInv`); a command is for
  the believed place, or its release comes behind it on the same association
  (`CommandInv`, which needs the order of an association). It is stated about values
  (`u`, `d`, ...), so that a step that takes one message and sends another is proved as
  two: `FrameKeeps` for what shifts a queue, and `Offered`, `Commanded`, `Moves`,
  `Notified`, `Released` for the five that matter.

**IttiTasksProofs**

* `TypeCorrect`: as its name says, with the two facts that a context exists before its
  thread and that a task has a current message exactly while it handles one.
* `AsleepHasNothingAlways`: a push wakes the sleeper in the same step, and a task goes to
  sleep only in a step that sees its queue empty.
* `InstancesOutliveTasksAlways`. The invariant says which tasks have no thread yet
  (`StartInv`: those the loop of constructors has not come to), which instances are
  assigned (`AssignInv`: all of them from the end of start-up to the end of the joins),
  and what the joins have achieved (`JoinInv`: a thread the loop is past has returned or
  was never started, from there to the destructor of `itti_mw` and the end), so that no
  task is left to call through `amf_app_inst` when it is deleted.

**AmfN1Proofs**

* `TypeCorrect`, `OneProcedureAtATimeAlways`, `IdentitiesAgreeAlways` and
  `RegisteredBySmcAlways` from one invariant `Inv`, whose parts need each other.
  - `OwnInv`: whatever leads to a context (connection, SUPI, IMSI, GUTI) leads to one of the
    same UE, and so does every GUTI that a UE, an uplink message or an accept carries
    (`CarriedOwned`). Without the GUTIs in flight a UE could come back with one that the
    AMF has given to another.
  - `FreshInv`: before its first message is handled a connection has no context, and nothing
    leads to the one it will be named by; so a new context overwrites none.
  - `ConnInv` and `WaitInv`: the connection that a context is bound to leads to it or
    to nothing, and a UE that waits for its registration has a connection whose first
    message is unhandled or whose context exists.
  - `TokensBacked` and `OneToken`: a message of authentication or of security mode that
    is on its way, up or down, belongs to the procedure that its context runs, and of
    all the connections that lead to a context there is one such message at most.
    `OneProcedureAtATime` is not inductive without them: a late answer on an old
    connection would start the next procedure while the new connection runs its own.
* Each N1 handler is first shown to be an instance of one predicate, `Handled`
  (`LinkStep`, `ContextStep`, `MapStep`, `TokenStep`: what it does to the two directions of
  the connection, to the context, to the maps, and to the procedure under way), and
  each part of `Inv` is shown once to be kept by it. The steps of the UE and of the gNB go
  through `Moved` in the same way.
* TLC checked `Inv` with two UEs and three connections (763,789 states) and with one UE,
  three connections and two failures (3,508,698 states).

**PduSessionProofs**

* `TypeCorrect`, `TransferIsConservedAlways`, `OrderKeptAlways` and `AnswerStaysAlways` from
  one invariant `Inv`. The way of a transfer is seen as a line of five lanes: HTTP threads,
  the queues of AMF_APP, AMF_N1 and AMF_N2, and the gNB (`Line`). `Ordered` says that a
  transfer has one place on it and that of two from one source the earlier is further on;
  `Kept`, that a transfer is on its way exactly as long as its fate is "accepted". The
  property about the gNB alone is not inductive, as two transfers could have
  changed places in a queue before. Every step is one of four things to the line: a
  transfer leaves it, goes on to the next lanes, enters it, or something else is queued
  (`Drops`, `Passes`, `Enters`, `Adds`), and each of these is shown once to keep both.
* For the answers of the gNB, `LocationsOK` says that the Location a session keeps is
  that of its newest context among those the AMF knows, and `CallingOK` that the context
  TASK_AMF_SBI is being told of is the newest there is. Without the latter a create
  request answered late could put back an older Location.
* `QueuesOK`, `HoldsOK` and `TransfersOK` say which messages each queue may hold, and
  that what they name exists and is for their session.
* TLC checked `Inv` with one session and two threads (172,378 states) and with two sessions
  and one thread (88,330 states), each with one request of the UE.

**Only model-checked**: liveness (`InstantServed`, `RegistrationAnswered`, `CallReturns`,
`CreateReturns`, `AcceptedIsHandled`, `ShutdownEnds`), which is beyond the prover's temporal
rules, and the violations (`InstantServedOrRemoved`, `AckIsCommanded`,
`ModifyFindsItsSession`), which are no theorems. Every invariant
and every safety action property of a passing run, and both refinements, are theorems.

## 6. Disagreements met while modelling

Three are shown by runs:

* `timers_null_wait`: a removal that hits the timer the thread has just taken makes it
  wait for `null_timer` (itti/itti.cpp:347, against its comment).
* `handover_ack`: HANDOVER REQUEST ACKNOWLEDGE is dispatched to a function that does
  nothing, and the function that decodes it is registered for the initiating message
  (ngap/ngap_app/ngap_message_callback.hpp:1259), against docs/FEATURE_SET.md:48.
* `pdu_modify`: a modification request looks its session up by the bare IMSI, and is
  given up (amf-app/amf_n1.cpp:274), against CHANGELOG.md:64.

Others, found while reading. No run checks them, mostly because nothing in the repository
says what should happen instead; where a module has the outcome it is named.

Registry and NGAP:
* NG Shutdown erases `gnbid2gnbContext` by association id, so the gNB's entry stays
  (amf_n2.cpp:555), and removes the UE contexts by the ids they hold; the
  earlier AMF id of a context that was reused stays in `amfueid2uecontext`
  (amf_n2.cpp:545-549).
* An uplink message is taken from a gNB that does not have the UE (amf_n2.cpp:715;
  `NgapContexts`).
* A UE that is being bound or set up while its association is reset or goes down may stay in
  `amfueid2uecontext` or `amfueid2nas_context` (amf_n2.cpp:2183-2224, amf_app.cpp:415-417;
  `NgapContexts`, section 4).
* A RAN id that a gNB uses again finds the context of its last UE, with that UE's AMF id
  until the new one is bound (amf_n2.cpp:603). A downlink message of the last UE that is
  still queued is sent to the new one and puts the old AMF id back (amf_n2.cpp:773;
  `NgapContexts`).
* A context removed between the check and `at()` ends the process (amf_app.cpp:415;
  `AppThrow`).
* Releasing the UEs of an old association erases the SUPI entry of a subscriber who has
  attached elsewhere meanwhile (amf_n2.cpp:2305).
* An Initial UE Message on an association in state RESETING is logged as ignored and
  handled (amf_n2.cpp:584-588).
* `stacs.remove_gnb` removes by gNB id, so a late shutdown of an old association uncounts
  a gNB that is connected again (amf_n2.cpp:556, amf_statistics.hpp:121).
* A descriptor of an association is never removed; one with a reused id is found with the
  socket of the old one (sctp_server.cpp:270).

Tasks and timers:
* `timer_setup` returns an id although the set refused a timer with an equal time-out
  (itti.cpp:327, itti.hpp:88-92); ids may be given twice (itti.hpp:233).
* A signal during start-up finds a task that is not READY: TERMINATE passes it over, and
  the join hangs (itti.cpp:306; excluded by the premise of `ShutdownEnds`).
* A signal inside `timer_setup` leaves its mutexes locked: handlers that set a timer
  hang, and the destructor of `itti_mw` too (itti.cpp:116, 331; `Blocked`, `Free`). A
  signal before the first timer was set destroys a condition on which the timer thread
  waits (itti.cpp:50, main.cpp:85; `Free`).
* A message during start-up finds an instance that is still null (amf_app.cpp:71;
  `NullInstance`).
* `amf_app_inst` is deleted before the HTTP servers are stopped (main.cpp:68;
  `CallIntoFreed`).

5GMM:
* A mobile reachable timer is not stopped for a UE that came back by its GUTI, and marks
  it unreachable later (amf_n1.cpp:558, amf_n2.cpp:1292; `AmfN1`).
* An updated registration is accepted with a TMSI that was never assigned; the UE's next
  service request is not answered (amf_n1.cpp:595, 3386; `AmfN1`).
* Paging reads the NAS context of a UE without testing for null (amf_n2.cpp:278), and
  the implicit de-registration time-out tests for it the wrong way round
  (amf_n1.cpp:4279). `AmfN1` has both as ends of the process.
* De-registration removes the GUTI under the key that the decoder makes of the request
  (amf_n1.cpp:3185). Set id and pointer are decoded otherwise than encoded
  (5GSMobilityIdentity.cpp:338, 684), so for a set id other than 0 nothing is removed,
  and the UE that returns by its 5G-S-TMSI gets the de-registered context (`NasGuti`).
  `supi2amfId` and `supi2ranId` stay as well.
* An authentication failure with a cause other than synchronisation or ngKSI in use is
  not answered (amf_n1.cpp:2265-2340).
* The keys of a context are overwritten before the UE has completed the security mode
  procedure (amf_n1.cpp:2363); a UE that is lost in between has others.
* After a restart the TMSI generator starts again at 1 while UEs hold the GUTIs of the
  last run (amf_app.cpp:906).

Handover:
* A target id that no gNB has set up makes `at()` throw, and nothing on the way to the
  task's thread catches it (amf_n2.cpp:1688, ngap_app.cpp:177; `RequiredCrash`).
* The RAN id of the source stays mapped after HANDOVER NOTIFY (amf_n2.cpp:2001).
* A HANDOVER REQUIRED that is handled after the UE has left makes its sender the serving
  gNB again (amf_n2.cpp:1468). The release that ends the next handover then goes to that
  gNB with the RAN id of the other, against the comment "Send UE Release Command to Source
  gNB" (amf_n2.cpp:1974), and the context at the true source stays. Without the premise
  `~ usurped` TLC finds this with three gNBs, and with five attempts also a release of the
  context that the UE uses.
* `is_ho_accepted` is never reset (amf_n2.cpp:1831); `ncc` outgrows its field of 0..7
  (amf_n2.cpp:1469).
* The release complete of the gNB that the UE left makes it CM_IDLE and starts its mobile
  reachable timer (amf_n2.cpp:1289).

Sessions and calls:
* N1N2MessageTransfer for a session that does not exist uses a null pointer
  (N1N2MessageCollectionDocumentApiImpl.cpp:139; `dead`).
* A transfer that the SMF was told is accepted is given up without a word when its NAS
  context, security context or `ue_context` is missing (amf_n1.cpp:214-224, 292-297;
  `GivenUp`).
* The handlers of the setup requests and of paging log that there is no NAS context, and use
  it (amf_n2.cpp:890, 985; `N2UsesNull`); so does the handler of a setup response that lists
  failed sessions with the session (ngap_message_callback.hpp:455-527; `GnbRefuses`).
* The Initial Context Setup Request for the first session of a UE leaves the N2
  information out (amf_n1.cpp:335; `Bare`).
* An update is looked up by the pair of current ids, of which a handover changes one
  (amf_sbi.cpp:206; `Drop`); a wait that timed out counts as success (amf_n2.cpp:1675).
* A status notification whose wait times out is not answered at all
  (StatusNotifyApiImpl.cpp:97).
* `smf_port` is shadowed (amf_sbi.cpp:390); sessions are erased under a shared lock
  (contexts/ue_context.cpp:74).

Event exposure:
* `remove_event_subscription` stops at the first event of a subscription, and compares
  ids after a cast to eight bits (amf_app.cpp:1012-1020).
* TASK_AMF_N1 goes through the subscriptions without the lock under which HTTP threads
  change them (amf_app.cpp:1032).

## 7. What is not modelled

* Event exposure subscriptions and the SCTP server's table of descriptors: planned, not
  begun. What was seen of them is in section 6. `NgapContexts` has what the SCTP server
  tells `ngap_app`.
* NAS counts, algorithm selection, slice selection: pure functions of data, planned as
  operators against reference definitions (`AmfAlgorithms`).
* The paging message, HTTP responses, and the N2 information kept for a Service Request.
* A restart of the AMF: it keeps nothing across one.
* Codecs, cryptographic primitives, HTTP servers and clients, configuration and the
  database: generated, vendored, pure input and output, or without state that threads
  share. The generated NGAP and ASN.1 code alone is nine tenths of the lines under
  `src/src`; it is a table-driven codec with no control of its own, so the share of all
  lines that the modules translate stays small while they cover the tasks that hold the
  AMF's logic.
