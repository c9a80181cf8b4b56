------------------------------ MODULE CommandLink ------------------------------
(***************************************************************************)
(* A command from a switch on the phone to the relays and back             *)
(* (command_repository.dart, control_view_model.dart, G780s.c,             *)
(* app_threads.c).  The app posts a command and waits for its ack, for     *)
(* telemetry that shows the wanted relays, or for its timer; the           *)
(* controller keeps one received command, carries it out and acks it.      *)
(*                                                                         *)
(* The server is external: it numbers the commands it receives, publishes  *)
(* them in that order, and passes frames on.  A command is sent as the     *)
(* number of its request; what it says is in want.  The links keep their   *)
(* order and lose frames.  The answers of two posts may change places.     *)
(***************************************************************************)
EXTENDS Naturals, Sequences

CONSTANTS
    Masks,        \* relay maps
    AllOff,       \* the empty one
    MaxRequests,  \* bound on the commands of a session
    LinkSize,     \* bound on the frames on their way to the app
    MaxFaults,    \* bound on lost frames, failed posts and failed transactions
    MaxEvents     \* bound on what others do

None == "none"
Period == "period"   \* what set_upload_period wants, whatever its seconds
Requests == 1..MaxRequests

ASSUME MasksAssumption ==
    AllOff \in Masks /\ Period \notin Masks /\ None \notin Masks
ASSUME BoundsAssumption ==
    /\ MaxRequests \in Nat /\ LinkSize \in Nat
    /\ MaxFaults \in Nat /\ MaxEvents \in Nat

VARIABLES
    \* requests
    issued,     \* how many there are
    want,       \* the mask or the period
    stage,      \* of sendRelaySet or sendUploadPeriod
    result,     \* of the finished Command
    seq,        \* the number that the server gave it, or 0
    numbered,   \* the last number it gave
    \* ControlViewModel
    loggedIn,
    measured,   \* _measurement.relayDo
    requested,  \* _requestedMask
    pending,    \* _pendingCount
    lastMeasurement,  \* of MeasurementRepository: its relayDo
    \* server and links
    latest,     \* relays in the last telemetry that reached the server
    downlink, uplink,
    \* controller
    slot,       \* g_pending_json_command, or 0
    doing,      \* the command that is carried out, or 0
    answer,     \* what its ack will say
    manual,     \* the mode
    outputs,    \* the relays
    sampled,    \* relay_do in the telemetry buffer
    \* history and bounds
    taken,      \* number of the last command carried out
    faults, events

app == <<issued, want, stage, result>>
view == <<loggedIn, measured, requested, pending, lastMeasurement>>
posts == <<seq, numbered>>
links == <<latest, downlink, uplink>>
device == <<slot, doing, answer, manual, outputs, sampled, taken>>
vars == <<app, view, posts, links, device, faults, events>>

IsRelay(i) == want[i] \in Masks
Fault == faults > 0 /\ faults' = faults - 1
Happens == events > 0 /\ events' = events - 1

-----------------------------------------------------------------------------
Init == /\ issued = 0 /\ want = [i \in Requests |-> None]
        /\ stage = [i \in Requests |-> "none"]
        /\ result = [i \in Requests |-> None]
        /\ seq = [i \in Requests |-> 0] /\ numbered = 0
        /\ loggedIn = TRUE /\ measured = None /\ requested = None /\ pending = 0
        /\ lastMeasurement = None
        /\ latest = None /\ downlink = <<>> /\ uplink = <<>>
        /\ slot = 0 /\ doing = 0 /\ answer = None /\ manual = TRUE
        /\ outputs = AllOff /\ sampled = AllOff
        /\ taken = 0 /\ faults = MaxFaults /\ events = MaxEvents

(***************************************************************************)
(* The app.                                                                *)
(***************************************************************************)
relayMask == IF measured = None THEN AllOff ELSE measured
displayRelayMask == IF requested = None THEN relayMask ELSE requested

\* The request is posted.
Issue(w) == /\ loggedIn /\ issued < MaxRequests
            /\ issued' = issued + 1
            /\ want' = [want EXCEPT ![issued + 1] = w]
            /\ stage' = [stage EXCEPT ![issued + 1] = "posting"]
            /\ UNCHANGED <<result, loggedIn, measured, lastMeasurement, posts,
                           links, device, faults, events>>

\* setRelay, setAllRelays
SetRelay == \E w \in Masks \ {displayRelayMask} :
               Issue(w) /\ requested' = w /\ pending' = pending + 1

\* sendUploadPeriod of another page
SetUploadPeriod == Issue(Period) /\ UNCHANGED <<requested, pending>>

\* The results of the requests is, none of which is awaited any more.
Ended(is, r) == /\ stage' = [i \in Requests |->
                               IF i \in is THEN "ended" ELSE stage[i]]
                /\ result' = [i \in Requests |-> IF i \in is THEN r ELSE result[i]]
                /\ UNCHANGED <<issued, want>>

Waiting == {i \in Requests : stage[i] = "waiting"}
WaitingRelays == {i \in Waiting : IsRelay(i)}

\* The post is answered: the command is registered and its timer started.  A
\* relay command ends those that wait: _completeSupersededRelaySetCommands.
Answered(i) ==
    LET over == IF IsRelay(i) THEN WaitingRelays ELSE {} IN
    /\ stage[i] = "posting" /\ seq[i] # 0
    /\ stage' = [j \in Requests |-> IF j = i THEN "waiting"
                                    ELSE IF j \in over THEN "ended"
                                    ELSE stage[j]]
    /\ result' = [j \in Requests |-> IF j \in over THEN "superseded"
                                     ELSE result[j]]
    /\ UNCHANGED <<issued, want, view, posts, links, device, faults, events>>

\* The post fails, before or after the server has received it.
PostFails(i) == /\ stage[i] = "posting" /\ Fault
                /\ Ended({i}, "error")
                /\ UNCHANGED <<view, posts, links, device, events>>

\* The timer of commandAckTimeout
Timeout(i) == /\ stage[i] = "waiting"
              /\ Ended({i}, "timeout")
              /\ UNCHANGED <<view, posts, links, device, faults, events>>

\* Mutant of Finish: the count may fall below zero after a logout.
FinishUnderflow(i) ==
    /\ stage[i] = "ended" /\ stage' = [stage EXCEPT ![i] = "done"]
    /\ IF IsRelay(i)
       THEN /\ pending' = pending - 1
            /\ requested' = IF /\ pending' = 0
                               /\ measured = requested \/ result[i] = "error"
                            THEN measured ELSE requested
       ELSE UNCHANGED <<pending, requested>>
    /\ UNCHANGED <<issued, want, result, loggedIn, measured, lastMeasurement,
                   posts, links, device, faults, events>>

\* The rest of setRelay, after the await.
Finish(i) ==
    /\ stage[i] = "ended" /\ stage' = [stage EXCEPT ![i] = "done"]
    /\ IF IsRelay(i)
       THEN /\ pending' = IF pending > 0 THEN pending - 1 ELSE 0
            /\ requested' = IF /\ pending' = 0
                               /\ measured = requested \/ result[i] = "error"
                            THEN measured ELSE requested
       ELSE UNCHANGED <<pending, requested>>
    /\ UNCHANGED <<issued, want, result, loggedIn, measured, lastMeasurement,
                   posts, links, device, faults, events>>

\* Mutant of OnMeasurement: a wish is given up only for what it asked.
OnMeasurementKeepsWish(m) ==
    /\ lastMeasurement' = m /\ measured' = m
    /\ requested' = IF m = requested THEN m ELSE requested
    /\ UNCHANGED <<loggedIn, pending>>

\* _onMeasurement, after the repository has kept the measurement
OnMeasurement(m) ==
    /\ lastMeasurement' = m /\ measured' = m
    /\ requested' = IF pending = 0 \/ m = requested THEN m ELSE requested
    /\ UNCHANGED <<loggedIn, pending>>

\* A TelemetryEvent: CommandRepository._onTelemetry, and the measurement.
TelemetryEvent(m) == /\ Ended({i \in WaitingRelays : want[i] = m}, "ok")
                     /\ OnMeasurement(m)

\* Mutant of AckEvent: the timer is cancelled and nothing else done.
AckEventForgets(i, r) == /\ stage' = [j \in Requests |->
                              IF j = i /\ stage[j] = "waiting" THEN "acked"
                              ELSE stage[j]]
                         /\ UNCHANGED <<issued, want, result, view>>

\* An AckEvent: _onAck.  The ack of a command that is not registered, or not
\* any more, is dropped.
AckEvent(i, r) == Ended({i} \cap Waiting, r) /\ UNCHANGED view

\* A frame reaches the server, and the app while it is connected.
Deliver ==
    /\ uplink # <<>> /\ uplink' = Tail(uplink)
    /\ LET f == Head(uplink) IN
       /\ latest' = IF f.kind = "tele" THEN f.says ELSE latest
       /\ \/ ~loggedIn /\ UNCHANGED <<app, view>>
          \/ loggedIn /\ f.kind = "tele" /\ TelemetryEvent(f.says)
          \/ loggedIn /\ f.kind = "ack" /\ AckEvent(f.of, f.says)
    /\ UNCHANGED <<posts, downlink, device, faults, events>>

\* The socket is opened again: its hello brings the last telemetry.
Hello == /\ loggedIn /\ latest # None
         /\ Fault
         /\ TelemetryEvent(latest)
         /\ UNCHANGED <<posts, links, device, events>>

\* _refreshServerSnapshot: the poll shows the last telemetry to the pages, but
\* not to CommandRepository.
RefreshServerSnapshot == /\ loggedIn /\ latest # None
                         /\ OnMeasurement(latest)
                         /\ UNCHANGED <<app, posts, links, device, faults, events>>

\* fetchLatest of the dashboard: kept, but not shown to the switch page.
FetchLatest == /\ loggedIn /\ latest # None
               /\ lastMeasurement' = latest
               /\ UNCHANGED <<app, loggedIn, measured, requested, pending, posts,
                              links, device, faults, events>>

\* _onAuthChanged.  The repository keeps its measurement for the next login.
Logout == /\ loggedIn /\ Happens
          /\ loggedIn' = FALSE /\ measured' = None /\ requested' = None
          /\ pending' = 0
          /\ UNCHANGED <<app, lastMeasurement, posts, links, device, faults>>

Login == /\ ~loggedIn
         /\ loggedIn' = TRUE /\ measured' = lastMeasurement
         /\ UNCHANGED <<app, requested, pending, lastMeasurement, posts, links,
                        device, faults, events>>

(***************************************************************************)
(* The server and the links.                                               *)
(***************************************************************************)
\* The server numbers the command, records it and publishes it.
Receive(i) == /\ stage[i] \in {"posting", "ended", "done"} /\ seq[i] = 0
              /\ stage[i] # "posting" => result[i] = "error"
              /\ numbered' = numbered + 1 /\ seq' = [seq EXCEPT ![i] = numbered']
              /\ downlink' = Append(downlink, i)
              /\ UNCHANGED <<app, view, latest, uplink, device, faults, events>>

Lose == /\ Fault
        /\ \/ /\ downlink # <<>> /\ downlink' = Tail(downlink)
              /\ UNCHANGED <<latest, uplink>>
           \/ /\ uplink # <<>> /\ uplink' = Tail(uplink)
              /\ latest' \in {latest} \cup (IF Head(uplink).kind = "tele"
                                           THEN {Head(uplink).says} ELSE {})
              /\ UNCHANGED downlink
        /\ UNCHANGED <<app, view, posts, device, events>>

(***************************************************************************)
(* The controller.                                                         *)
(***************************************************************************)
\* G780s_HandleJsonFrame, in the interrupt: a newer command replaces one that
\* has not been taken.
HandleJsonFrame == /\ downlink # <<>> /\ downlink' = Tail(downlink)
                   /\ slot' = Head(downlink)
                   /\ UNCHANGED <<app, view, posts, latest, uplink, doing, answer,
                                  manual, outputs, sampled, taken, faults, events>>

\* The relays after Relay_SetOutputMask, whose result is not looked at.
SetOutputMask(m) == \/ outputs' = m /\ UNCHANGED faults
                    \/ outputs' = outputs /\ Fault

\* Mutant of TakeCommand: the pending flag is not cleared.
TakeCommandKeeps ==
    /\ slot # 0 /\ doing = 0
    /\ doing' = slot /\ slot' = slot /\ taken' = seq[slot]
    /\ \/ /\ IsRelay(slot) /\ manual
          /\ SetOutputMask(want[slot]) /\ answer' = "ok"
       \/ /\ IsRelay(slot) /\ ~manual
          /\ answer' = "auto_mode" /\ UNCHANGED <<outputs, faults>>
       \/ /\ ~IsRelay(slot)
          /\ answer' \in {"ok", "invalid_period"}
          /\ UNCHANGED <<outputs, faults>>
    /\ UNCHANGED <<app, view, posts, links, manual, sampled, events>>

\* G780s_ConsumeJsonCommand and App_HandleJsonCommands up to the ack.
TakeCommand ==
    /\ slot # 0 /\ doing = 0
    /\ doing' = slot /\ slot' = 0 /\ taken' = seq[slot]
    /\ \/ /\ IsRelay(slot) /\ manual
          /\ SetOutputMask(want[slot]) /\ answer' = "ok"
       \/ /\ IsRelay(slot) /\ ~manual
          /\ answer' = "auto_mode" /\ UNCHANGED <<outputs, faults>>
       \/ /\ ~IsRelay(slot)
          /\ answer' \in {"ok", "invalid_period"}
          /\ UNCHANGED <<outputs, faults>>
    /\ UNCHANGED <<app, view, posts, links, manual, sampled, events>>

Send(f) == Len(uplink) < LinkSize /\ uplink' = Append(uplink, f)

\* G780s_ReportCommandAck
ReportCommandAck == /\ doing # 0
                    /\ Send([kind |-> "ack", of |-> doing, says |-> answer])
                    /\ doing' = 0 /\ answer' = None
                    /\ UNCHANGED <<app, view, posts, latest, downlink, slot, manual,
                                   outputs, sampled, taken, faults, events>>

\* The sensor thread reads the coils and prepares a telemetry frame ...
Sample == /\ sampled' = outputs
          /\ UNCHANGED <<app, view, posts, links, slot, doing, answer, manual,
                         outputs, taken, faults, events>>

\* ... which the maintenance thread sends, and sends again.
SendTelemetry == /\ \A k \in DOMAIN uplink : uplink[k].kind # "tele"
                 /\ Send([kind |-> "tele", of |-> 0, says |-> sampled])
                 /\ UNCHANGED <<app, view, posts, latest, downlink, device, faults,
                                events>>

\* A key or an input switches a relay, or the mode changes.
OthersSwitch == /\ Happens
                /\ \/ outputs' \in Masks /\ UNCHANGED manual
                   \/ manual' = ~manual /\ UNCHANGED outputs
                /\ UNCHANGED <<app, view, posts, links, slot, doing, answer, sampled,
                               taken, faults>>

-----------------------------------------------------------------------------
Next == \/ SetRelay \/ SetUploadPeriod
        \/ \E i \in Requests : \/ Answered(i) \/ PostFails(i) \/ Timeout(i)
                               \/ Finish(i) \/ Receive(i)
        \/ Deliver \/ Hello \/ RefreshServerSnapshot \/ FetchLatest
        \/ Logout \/ Login \/ Lose
        \/ HandleJsonFrame \/ TakeCommand \/ ReportCommandAck
        \/ Sample \/ SendTelemetry \/ OthersSwitch

Spec == Init /\ [][Next]_vars

\* Timers fire, threads have their turn, and posts and frames that are not
\* lost arrive.
FairSpec ==
    /\ Spec
    /\ \A i \in Requests : /\ WF_vars(Receive(i)) /\ WF_vars(Answered(i))
                           /\ WF_vars(Timeout(i)) /\ WF_vars(Finish(i))
    /\ WF_vars(Deliver) /\ WF_vars(HandleJsonFrame) /\ WF_vars(TakeCommand)
    /\ WF_vars(ReportCommandAck) /\ WF_vars(Sample) /\ WF_vars(SendTelemetry)

-----------------------------------------------------------------------------
Results == {None, "ok", "superseded", "timeout", "error", "auto_mode",
            "invalid_period"}
Acks == [kind : {"ack"}, of : Requests, says : Results]
Telemetry == [kind : {"tele"}, of : {0}, says : Masks]

\* Every variable has its type; no more commands are pending than were issued,
\* nor fewer than none, even if those of an earlier login end late.
TypeOK == /\ issued \in 0..MaxRequests
          /\ want \in [Requests -> Masks \cup {Period, None}]
          /\ stage \in [Requests -> {"none", "posting", "waiting", "ended", "done"}]
          /\ result \in [Requests -> Results]
          /\ seq \in [Requests -> Nat] /\ numbered \in Nat
          /\ loggedIn \in BOOLEAN /\ pending \in 0..issued
          /\ measured \in Masks \cup {None} /\ requested \in Masks \cup {None}
          /\ lastMeasurement \in Masks \cup {None} /\ latest \in Masks \cup {None}
          /\ downlink \in Seq(Requests) /\ uplink \in Seq(Acks \cup Telemetry)
          /\ slot \in Requests \cup {0} /\ doing \in Requests \cup {0}
          /\ answer \in Results /\ manual \in BOOLEAN
          /\ outputs \in Masks /\ sampled \in Masks
          /\ taken \in Nat /\ faults \in 0..MaxFaults /\ events \in 0..MaxEvents

\* The controller carries out no command twice and none after a newer one,
\* whatever is lost, replaced or posted in vain.
TakenInOrder == [][doing = 0 /\ doing' # 0 => taken' > taken]_vars

\* Every command of the app ends, with its ack or without it.
CommandsEnd == <>[](\A i \in Requests : stage[i] \in {"none", "done"})

\* In the end the page shows the relays as they are: no switch keeps showing a
\* wish, whatever was lost, superseded or interrupted by a logout.
DisplaySettles == <>[](loggedIn => displayRelayMask = outputs)

\* A relay command is superseded only by one that was issued after it
\* (comment on _completeSupersededRelaySetCommands).
NewestStands ==
    \A i \in Requests : result[i] = "superseded" =>
        \E j \in Requests : j > i /\ j <= issued /\ IsRelay(j)
=============================================================================
