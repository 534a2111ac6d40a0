------------------------------- MODULE Session -------------------------------
(***************************************************************************)
(* A session of two QKD devices, alice who transmits and bob who detects:   *)
(* how it is started and ended (Session/SessionController.cpp and           *)
(* AliceSessionController.cpp, Algorithms/Util/WorkerThread.cpp), and how   *)
(* the two sift what was sent into the same stream of key bits              *)
(* (Simulation/DummyTransmitter.cpp, DummyTimeTagger.cpp, Sift/Receiver.cpp *)
(* and Verifier.cpp).                                                       *)
(*                                                                         *)
(* Two worker threads run: tx, alice's transmitter, fires one pulse train   *)
(* per frame; rx, bob's receiver, takes the frames which have arrived and   *)
(* asks alice to verify their bases.  A control call at a device is the     *)
(* list of the steps it has still to take, some of them in a handler at the *)
(* other device.                                                            *)
(***************************************************************************)
EXTENDS Naturals, FiniteSets, Sequences, SequencesExt

CONSTANTS
  Initiators,   \* the devices which may be told to run the session
  FrameLimits,  \* what frameLimit may hold; it is not initialised
  NoReport,     \* no such frame in collectedStates
  MaxPulses,    \* bound: how many pulse trains are fired
  MaxSessions,  \* bound: how many sessions are run
  MaxLost       \* bound: how many RPCs do not get through

ASSUME DeviceAssumption == Initiators \subseteq {"alice", "bob"} /\ Initiators # {}
ASSUME ValueAssumption  == FrameLimits \subseteq Nat /\ FrameLimits # {} /\ NoReport \notin Nat
ASSUME BoundAssumption  == MaxPulses \in Nat /\ MaxSessions \in Nat /\ MaxLost \in Nat

Sides   == {"alice", "bob"}
Workers == {"tx", "rx"}
Pulses  == 1..MaxPulses
Frames  == 0..MaxPulses

VARIABLES
  initiator,   \* the device which runs the sessions, fixed by the path
  ctl,         \* [Sides -> Seq(Step)] the control call in progress there
  channel,     \* the devices which have an otherControllerChannel
  state,       \* [Workers -> WorkerThread::State]
  tx,          \* where alice's thread is
  rx,          \* where bob's thread is
  frameLimit, frameCount,
  lit,         \* the photon source has a detector to send to
  crashed,     \* alice's device has died
  aliceFrame,  \* the transmitter's frame
  report,      \* the frame of the report Fire is making
  sent,        \* the verifier's collectedStates: [Frames -> pulse train]
  photons,     \* bob's collectedPhotons: a pulse train, or 0 for nothing
  bobFrame,    \* the time tagger's frame
  seen,        \* the receiver's collectedStates: [Frames -> pulse train or 0]
  firstSeq,    \* the frame the receiver waits for
  taken,       \* what it took from seen: frames up to firstSeq - 1
  sifted,      \* [Sides -> Seq(pulse train or 0)] the bits published, by frame
  fired, sessions, lost,  \* how much of the bounds is used
  slips        \* history: what happened that the two ends cannot make up for

control  == <<initiator, ctl, channel>>
threads  == <<state, tx, rx>>
limit    == <<frameLimit, frameCount>>
source   == <<lit, crashed, aliceFrame, report, sent>>
detector == <<photons, bobFrame, seen>>
receiver == <<firstSeq, taken>>
bounds   == <<fired, sessions, lost, slips>>
vars     == <<control, threads, limit, source, detector, receiver, sifted, bounds>>

NoReports == [f \in Frames |-> NoReport]

-----------------------------------------------------------------------------
(* Control calls as lists of steps. *)

Other(x)  == IF x = "alice" THEN "bob" ELSE "alice"
Leave(x)  == IF x = "alice" THEN <<<<"leave", "alice">>>> ELSE <<<<"leave", "bob">>, <<"stop", "rx">>>>
Launch(x) == IF x = "alice" THEN <<<<"start", "tx">>>> ELSE <<>>
HangUp(x) == Leave(x) \o <<<<"hangup", x>>>>

\* RemoteQKDDevice::RunSession: Connect and StartSession, with SessionStarting
\* at the other device.
Running(x) ==
  Leave(x) \o <<<<"hangup", x>>, <<"connect", x>>, <<"call", "starting">>,
                <<"connect", Other(x)>>>> \o Launch(Other(x)) \o
  <<<<"connect", x>>>> \o Launch(x)

\* RemoteQKDDevice::EndSession: EndSession, with SessionEnding at the other
\* device, and Disconnect.
Ending(x) ==
  IF x = "alice"
  THEN IF state["tx"] # "Started" THEN HangUp("alice")
       ELSE <<<<"stop", "tx">>, <<"call", "ending">>>> \o Leave("bob") \o HangUp("alice")
  ELSE IF "bob" \notin channel THEN HangUp("bob")
       ELSE <<<<"call", "ending">>, <<"stop", "tx">>>> \o Leave("alice") \o HangUp("bob")

Step == {"leave", "connect", "hangup"} \X Sides \union
        {"stop", "join", "await"} \X Workers \union
        {<<"start", "tx">>, <<"call", "starting">>, <<"call", "ending">>}

Busy(x)    == ctl[x] # <<>>
Does(x, s) == Busy(x) /\ Head(ctl[x]) = s /\ ctl' = [ctl EXCEPT ![x] = Tail(@)]

RunSession(x) ==
  /\ sessions < MaxSessions /\ sessions' = sessions + 1
  /\ x = initiator /\ ~Busy(x)
  /\ ctl' = [ctl EXCEPT ![x] = Running(x)]
  /\ UNCHANGED <<initiator, channel, threads, limit, source, detector, receiver,
                 sifted, fired, lost, slips>>

EndSession(x) ==
  /\ ~Busy(x) /\ x \in channel
  /\ ctl' = [ctl EXCEPT ![x] = Ending(x)]
  /\ UNCHANGED <<initiator, channel, threads, limit, source, detector, receiver,
                 sifted, bounds>>

\* An RPC to the other device gets through, or it does not: then StartSession
\* gives up, and EndSession goes on with its own side.
Call(x) ==
  /\ \E m \in {"starting", "ending"} : Does(x, <<"call", m>>)
  /\ UNCHANGED <<initiator, channel, threads, limit, source, detector, receiver,
                 sifted, bounds>>

CallFails(x) ==
  /\ lost < MaxLost /\ lost' = lost + 1
  /\ Busy(x)
  /\ \/ Head(ctl[x]) = <<"call", "starting">> /\ ctl' = [ctl EXCEPT ![x] = <<>>]
     \/ Head(ctl[x]) = <<"call", "ending">>   /\ ctl' = [ctl EXCEPT ![x] = HangUp(x)]
  /\ UNCHANGED <<initiator, channel, threads, limit, source, detector, receiver,
                 sifted, fired, sessions, slips>>

-----------------------------------------------------------------------------
(* The remoteComms of each device are disconnected and connected.            *)

\* History: a frame counter which has counted goes back to 0 and the transmitter runs.
Slip(what)    == slips' = slips \union {what}
Rewind(count) == IF tx # "none" /\ count # 0 THEN Slip("rewind") ELSE UNCHANGED slips

LeaveAlice(x) ==
  /\ Does(x, <<"leave", "alice">>)
  /\ lit' = FALSE
  /\ aliceFrame' = 0
  /\ sent' = NoReports
  /\ Rewind(aliceFrame)
  /\ UNCHANGED <<initiator, channel, threads, limit, crashed, report, detector, receiver,
                 sifted, fired, sessions, lost>>

ConnectAlice(x) ==
  /\ Does(x, <<"connect", "alice">>)
  /\ channel' = channel \union {"alice"}
  /\ lit' = TRUE
  /\ aliceFrame' = 0
  /\ sent' = NoReports
  /\ Rewind(aliceFrame)
  /\ UNCHANGED <<initiator, threads, limit, crashed, report, detector, receiver, sifted,
                 fired, sessions, lost>>

LeaveBob(x) ==
  /\ Does(x, <<"leave", "bob">>)
  /\ photons' = 0
  /\ bobFrame' = 0
  /\ seen' = NoReports
  /\ Rewind(bobFrame)
  /\ UNCHANGED <<initiator, channel, threads, limit, source, receiver, sifted,
                 fired, sessions, lost>>

\* Connect starts the receiver's thread; one which is running, or stopping,
\* stays as it is.
ConnectBob(x) ==
  /\ Does(x, <<"connect", "bob">>)
  /\ channel' = channel \union {"bob"}
  /\ photons' = 0
  /\ bobFrame' = 0
  /\ seen' = NoReports
  /\ IF state["rx"] = "NotStarted"
     THEN state' = [state EXCEPT !["rx"] = "Started"] /\ rx' = "check" /\ firstSeq' = 0
     ELSE UNCHANGED <<state, rx, firstSeq>>
  /\ Rewind(bobFrame)
  /\ UNCHANGED <<initiator, tx, limit, source, taken, sifted, fired, sessions, lost>>

ResetChannel(x) ==
  /\ Does(x, <<"hangup", x>>)
  /\ channel' = channel \ {x}
  /\ UNCHANGED <<initiator, threads, limit, source, detector, receiver, sifted, bounds>>

-----------------------------------------------------------------------------
(* WorkerThread: Start, and Stop(true) by a control call.                    *)

Ended(w) == IF w = "tx" THEN tx = "none" ELSE rx = "none"

\* History: the transmitter starts while the frame numbers of the two devices
\* differ, or while bob still has frames of an earlier session in hand.
Unsettled == aliceFrame # bobFrame \/ seen # NoReports \/ rx = "verify"

StartTransmitter(x) ==
  /\ Does(x, <<"start", "tx">>)
  /\ IF state["tx"] = "NotStarted"
     THEN /\ state' = [state EXCEPT !["tx"] = "Started"]
          /\ tx' = "check" /\ frameCount' = 0
          /\ IF Unsettled THEN Slip("unsettled") ELSE UNCHANGED slips
     ELSE UNCHANGED <<state, tx, frameCount, slips>>
  /\ UNCHANGED <<initiator, channel, rx, frameLimit, source, detector, receiver,
                 sifted, fired, sessions, lost>>

StopWorker(x, w) ==
  /\ Busy(x) /\ Head(ctl[x]) = <<"stop", w>>
  /\ CASE state[w] = "Started"    -> /\ state' = [state EXCEPT ![w] = "Stop"]
                                     /\ ctl' = [ctl EXCEPT ![x] = <<<<"join", w>>>> \o Tail(@)]
       [] state[w] = "Stop"       -> /\ ctl' = [ctl EXCEPT ![x] = <<<<"await", w>>>> \o Tail(@)]
                                     /\ UNCHANGED state
       [] state[w] = "NotStarted" -> ctl' = [ctl EXCEPT ![x] = Tail(@)] /\ UNCHANGED state
  /\ UNCHANGED <<initiator, channel, tx, rx, limit, source, detector, receiver,
                 sifted, bounds>>

JoinWorker(x, w) ==
  /\ Ended(w)
  /\ Does(x, <<"join", w>>)
  /\ state' = [state EXCEPT ![w] = "NotStarted"]
  /\ UNCHANGED <<initiator, channel, tx, rx, limit, source, detector, receiver,
                 sifted, bounds>>

AwaitStopped(x, w) ==
  /\ state[w] = "NotStarted"
  /\ Does(x, <<"await", w>>)
  /\ UNCHANGED <<initiator, channel, threads, limit, source, detector, receiver,
                 sifted, bounds>>

ControlStep(x) ==
  \/ Call(x) \/ LeaveAlice(x) \/ ConnectAlice(x) \/ LeaveBob(x) \/ ConnectBob(x)
  \/ ResetChannel(x) \/ StartTransmitter(x)
  \/ \E w \in Workers : StopWorker(x, w) \/ JoinWorker(x, w) \/ AwaitStopped(x, w)

-----------------------------------------------------------------------------
(* AliceSessionController::DoWork, one frame after another.  Whether a call   *)
(* to the detector succeeded makes no difference to what alice does.          *)

TxCheck ==
  /\ tx = "check"
  /\ \/ /\ state["tx"] = "Started"
        /\ frameLimit = 0 \/ frameCount < frameLimit
        /\ fired < MaxPulses
        /\ tx' = "fire"
        /\ frameCount' = IF frameLimit = 0 THEN 0 ELSE frameCount + 1
     \/ /\ state["tx"] # "Started" \/ (frameLimit # 0 /\ frameCount >= frameLimit)
        /\ tx' = "quit"
        /\ UNCHANGED frameCount
  /\ UNCHANGED <<control, state, rx, frameLimit, source, detector, receiver,
                 sifted, bounds>>

\* Fire: OnPhoton at bob's device.  Without a detector alice's device dies.
TxFire ==
  /\ tx = "fire"
  /\ IF lit
     THEN /\ tx' = "emit"
          /\ fired' = fired + 1
          /\ report' = aliceFrame
          /\ \/ photons' = fired + 1 /\ UNCHANGED lost
             \/ lost < MaxLost /\ lost' = lost + 1 /\ UNCHANGED photons
          /\ UNCHANGED crashed
     ELSE crashed' = TRUE /\ UNCHANGED <<tx, fired, report, photons, lost>>
  /\ UNCHANGED <<control, state, rx, limit, lit, aliceFrame, sent, bobFrame, seen,
                 receiver, sifted, sessions, slips>>

\* Fire, its end: OnEmitterReport for the frame it began with.  A second report for
\* a frame is dropped.
TxEmit ==
  /\ tx = "emit"
  /\ tx' = "stopdet"
  /\ report' = 0
  /\ sent' = IF sent[report] = NoReport THEN [sent EXCEPT ![report] = fired] ELSE sent
  /\ UNCHANGED <<control, state, rx, limit, lit, crashed, aliceFrame, detector,
                 receiver, sifted, bounds>>

\* Mutant: photons of a frame which was not collected stay for the next.
TxStopDetecting_Keeps ==
  /\ tx = "stopdet"
  /\ tx' = "end"
  /\ \/ /\ seen' = IF seen[bobFrame] = NoReport THEN [seen EXCEPT ![bobFrame] = photons] ELSE seen
        /\ bobFrame' = bobFrame + 1
        /\ UNCHANGED <<photons, lost, slips>>
     \/ /\ lost < MaxLost /\ lost' = lost + 1
        /\ Slip("detection")
        /\ UNCHANGED detector
  /\ UNCHANGED <<control, state, rx, limit, source, receiver, sifted, fired, sessions>>

\* StopDetecting at bob's device: the photons become the next frame.  If the
\* call is lost they do not, and alice goes on with her next frame.
TxStopDetecting ==
  /\ tx = "stopdet"
  /\ tx' = "end"
  /\ \/ /\ seen' = IF seen[bobFrame] = NoReport THEN [seen EXCEPT ![bobFrame] = photons] ELSE seen
        /\ bobFrame' = bobFrame + 1
        /\ photons' = 0
        /\ UNCHANGED <<lost, slips>>
     \/ /\ lost < MaxLost /\ lost' = lost + 1
        /\ Slip("detection")
        /\ UNCHANGED detector
  /\ UNCHANGED <<control, state, rx, limit, source, receiver, sifted, fired, sessions>>

\* Mutant: both StopDetecting and EndFrame count the frame.
TxEndFrame_Twice ==
  /\ tx = "end"
  /\ tx' = "check"
  /\ aliceFrame' = aliceFrame + 2
  /\ UNCHANGED <<control, state, rx, limit, lit, crashed, report, sent, detector, receiver,
                 sifted, bounds>>

TxEndFrame ==
  /\ tx = "end"
  /\ tx' = "check"
  /\ aliceFrame' = aliceFrame + 1
  /\ UNCHANGED <<control, state, rx, limit, lit, crashed, report, sent, detector, receiver,
                 sifted, bounds>>

\* Stop(false) by the thread itself.  While another thread is in Stop(true)
\* this waits for that one to finish.
TxQuit ==
  /\ tx = "quit"
  /\ state["tx"] = "Started"
  /\ state' = [state EXCEPT !["tx"] = "NotStarted"]
  /\ tx' = "none"
  /\ UNCHANGED <<control, rx, limit, source, detector, receiver, sifted, bounds>>

TxStep == TxCheck \/ TxFire \/ TxEmit \/ TxStopDetecting \/ TxEndFrame \/ TxQuit

-----------------------------------------------------------------------------
(* Receiver::DoWork, and VerifyBases at alice's device.                      *)

\* Mutant: the receiver stops itself before it leaves, as alice's thread does.
RxCheck_StopsItself ==
  /\ rx = "check" /\ state["rx"] = "Started"
  /\ rx' = "look"
  /\ UNCHANGED <<control, state, tx, limit, source, detector, receiver, sifted, bounds>>

RxCheck ==
  /\ rx = "check"
  /\ rx' = IF state["rx"] = "Started" THEN "look" ELSE "none"
  /\ UNCHANGED <<control, state, tx, limit, source, detector, receiver, sifted, bounds>>

\* The frames which can be taken, from firstSeq on, end before the first gap.
RunEnds(n) ==
  /\ n >= firstSeq /\ \A f \in firstSeq..n : seen[f] # NoReport
  /\ n + 1 \in Frames => seen[n + 1] = NoReport

RxTimeout ==
  /\ rx = "look" /\ (firstSeq \in Frames => seen[firstSeq] = NoReport)
  /\ rx' = "check"
  /\ UNCHANGED <<control, state, tx, limit, source, detector, receiver, sifted, bounds>>

\* Mutant: the receiver looks for a gap after the frames before it takes them.
RxTake_NeedsGap ==
  /\ rx = "look" /\ firstSeq \in Frames /\ seen[firstSeq] # NoReport
  /\ rx' = IF \E f, g \in Frames : firstSeq < f /\ f < g /\ seen[f] = NoReport /\ seen[g] # NoReport
           THEN "verify" ELSE "check"
  /\ UNCHANGED <<control, state, tx, limit, source, detector, receiver, sifted, bounds>>

RxTake ==
  /\ rx = "look"
  /\ rx' = "verify"
  /\ \E n \in Frames :
       /\ RunEnds(n)
       /\ taken' = [i \in 1..(n + 1 - firstSeq) |-> seen[firstSeq + i - 1]]
       /\ firstSeq' = n + 1
       /\ seen' = [f \in Frames |-> IF f \in firstSeq..n THEN NoReport ELSE seen[f]]
  /\ UNCHANGED <<control, state, tx, limit, source, photons, bobFrame, sifted, bounds>>

Asked       == firstSeq - Len(taken) .. firstSeq - 1
CanAnswer   == \A f \in Asked : sent[f] # NoReport
AlicesBits  == [i \in DOMAIN taken |->
                  IF taken[i] = 0 THEN 0 ELSE sent[firstSeq - Len(taken) + i - 1]]

\* Alice publishes her bits; the answer reaches bob, or is lost.
VerifyBases ==
  /\ rx = "verify" /\ CanAnswer
  /\ sent' = [f \in Frames |-> IF f \in Asked THEN NoReport ELSE sent[f]]
  /\ sifted' = [sifted EXCEPT !["alice"] = @ \o AlicesBits]
  /\ \/ rx' = "answered" /\ UNCHANGED <<taken, lost, slips>>
     \/ rx' = "check" /\ taken' = <<>> /\ Slip("answer") /\ lost < MaxLost /\ lost' = lost + 1
  /\ UNCHANGED <<control, state, tx, limit, lit, crashed, aliceFrame, report, detector,
                 firstSeq, fired, sessions>>

\* Mutant: the result of VerifyBases is not looked at.
VerifyFails_Publishes ==
  /\ rx = "verify"
  /\ rx' = "answered"
  /\ \/ ~CanAnswer /\ UNCHANGED lost
     \/ lost < MaxLost /\ lost' = lost + 1
  /\ UNCHANGED <<control, state, tx, limit, source, detector, receiver, sifted,
                 fired, sessions, slips>>

\* A frame is not there within receiveTimeout, or the question is lost: the
\* receiver drops what it has taken and goes on with the frames after it.
VerifyFails ==
  /\ rx = "verify"
  /\ rx' = "check"
  /\ taken' = <<>>
  /\ \/ ~CanAnswer /\ UNCHANGED lost
     \/ lost < MaxLost /\ lost' = lost + 1
  /\ UNCHANGED <<control, state, tx, limit, source, detector, firstSeq, sifted,
                 fired, sessions, slips>>

PublishStates ==
  /\ rx = "answered"
  /\ rx' = "check"
  /\ sifted' = [sifted EXCEPT !["bob"] = @ \o taken]
  /\ taken' = <<>>
  /\ UNCHANGED <<control, state, tx, limit, source, detector, firstSeq, bounds>>

RxStep == RxCheck \/ RxTimeout \/ RxTake \/ VerifyBases \/ VerifyFails \/ PublishStates

-----------------------------------------------------------------------------

Init ==
  /\ initiator \in Initiators
  /\ ctl = [x \in Sides |-> <<>>] /\ channel = {}
  /\ state = [w \in Workers |-> "NotStarted"] /\ tx = "none" /\ rx = "none"
  /\ frameLimit \in FrameLimits /\ frameCount = 0
  /\ lit = FALSE /\ crashed = FALSE
  /\ aliceFrame = 0 /\ report = 0 /\ sent = NoReports
  /\ photons = 0 /\ bobFrame = 0 /\ seen = NoReports
  /\ firstSeq = 0 /\ taken = <<>>
  /\ sifted = [x \in Sides |-> <<>>]
  /\ fired = 0 /\ sessions = 0 /\ lost = 0 /\ slips = {}

\* The model ends where alice's process does.
Next ==
  /\ ~crashed
  /\ \/ \E x \in Sides : RunSession(x) \/ EndSession(x) \/ ControlStep(x) \/ CallFails(x)
     \/ TxStep
     \/ RxStep

\* Threads run, and an RPC either gets through or fails.  Nobody has to start
\* or to end a session.
Fairness ==
  /\ \A x \in Sides : WF_vars(~crashed /\ ControlStep(x))
  /\ WF_vars(~crashed /\ TxStep)
  /\ WF_vars(~crashed /\ RxStep)

Spec == Init /\ [][Next]_vars /\ Fairness

-----------------------------------------------------------------------------
(* Properties. *)

TypeOK ==
  /\ initiator \in Sides
  /\ ctl \in [Sides -> Seq(Step)] /\ channel \subseteq Sides
  /\ state \in [Workers -> {"NotStarted", "Started", "Stop"}]
  /\ tx \in {"none", "check", "fire", "emit", "stopdet", "end", "quit"}
  /\ rx \in {"none", "check", "look", "verify", "answered"}
  /\ frameLimit \in FrameLimits /\ frameCount \in Nat
  /\ lit \in BOOLEAN /\ crashed \in BOOLEAN
  /\ aliceFrame \in Frames /\ report \in Frames
  /\ sent \in [Frames -> Pulses \union {NoReport}]
  /\ photons \in {0} \union Pulses /\ bobFrame \in Frames
  /\ seen \in [Frames -> {0, NoReport} \union Pulses]
  /\ firstSeq \in 0..MaxPulses + 1 /\ taken \in Seq({0} \union Pulses)
  /\ sifted \in [Sides -> Seq({0} \union Pulses)]
  /\ fired \in {0} \union Pulses /\ sessions \in 0..MaxSessions /\ lost \in 0..MaxLost
  /\ slips \subseteq {"rewind", "unsettled", "detection", "answer"}

\* The two devices sift the same bits in the same order, whatever calls of the
\* control or of the detector are lost, however often sessions are run and
\* ended: alice is ahead by no more than the batch bob has an answer for.  The
\* exceptions are the four events of slips.  (Receiver::PublishStates,
\* Verifier::PublishStates)
InStep ==
  slips = {} => /\ IsPrefix(sifted["bob"], sifted["alice"])
                /\ rx # "answered" => sifted["bob"] = sifted["alice"]

\* Neither device uses a pulse train twice, or an older one after a newer,
\* even across sessions which start the frame numbers again.  Only alice may,
\* once the numbers have gone back under a running transmitter, or were not
\* settled when it started: she then files reports under numbers which the
\* next session uses as well.
SiftedInOrder ==
  \A x \in Sides : LET s == sifted[x] IN
    (x = "alice" => "rewind" \notin slips /\ "unsettled" \notin slips) =>
      \A i, j \in DOMAIN s : i < j /\ s[i] # 0 /\ s[j] # 0 => s[i] < s[j]

\* A pulse train which reaches bob's device is sifted by bob in the end, if no
\* RPC is lost and the session is neither ended nor followed by another.
Undisturbed == /\ lost = 0 /\ sessions = 1 /\ slips = {}
               /\ channel = Sides /\ \A x \in Sides : ~Busy(x)
FramesAreSifted ==
  \A p \in Pulses :
    (Undisturbed /\ tx = "emit" /\ photons = p)
      ~> (~Undisturbed \/ \E i \in DOMAIN sifted["bob"] : sifted["bob"][i] = p)

\* A receiver which is told to stop does so, in any state of its conversation
\* with alice: Disconnect at bob's device is never left waiting.
ReceiverStops == (state["rx"] = "Stop") ~> (state["rx"] = "NotStarted" \/ crashed)

\* "wait for the transmitter to stop" (AliceSessionController.cpp:54): a call
\* which ends the session, or starts one, returns.
EndSessionReturns == \A x \in Sides : Busy(x) ~> (~Busy(x) \/ crashed)
=============================================================================
