---------------------------- MODULE SessionProofs ----------------------------
(***************************************************************************)
(* Theorems about a session of two devices, for any number of pulse trains,  *)
(* sessions and lost calls.                                                *)
(*                                                                         *)
(* Pulse trains are numbered as they are fired, so the order in which the   *)
(* two devices publish them is the order of those numbers.  Along the way   *)
(* from the detector to what is published they keep that order at bob's     *)
(* device always, and at alice's as long as frame numbers are settled.      *)
(***************************************************************************)
EXTENDS Session, SequenceTheorems, TLAPS

\* Pulse trains in s are older towards its start; those in s are all older than
\* those which t has from n on; those in s are all older than the pulse train p.
InOrder(s)  == \A i, j \in DOMAIN s : i < j /\ s[i] \in Pulses /\ s[j] \in Pulses => s[i] < s[j]
Newer(s, t, n) ==
  \A i \in DOMAIN s, j \in DOMAIN t : j >= n /\ s[i] \in Pulses /\ t[j] \in Pulses => s[i] < t[j]
Below(s, p) == \A i \in DOMAIN s : s[i] \in Pulses => s[i] < p

\* A thread which is not started is not running, and the receiver has frames in
\* hand only while it talks to alice.
ThreadsFit ==
  /\ state["tx"] = "NotStarted" => tx = "none"
  /\ state["rx"] = "NotStarted" => rx = "none"
  /\ rx \notin {"verify", "answered"} => taken = <<>>
  /\ Len(taken) <= firstSeq

\* No frame is counted which was not fired, and bob has seen none he has not
\* counted.
FramesFit ==
  /\ aliceFrame <= fired /\ bobFrame <= fired
  /\ tx = "fire" => fired < MaxPulses
  /\ tx \in {"emit", "stopdet"} => aliceFrame < fired /\ bobFrame < fired
  /\ tx = "end" => aliceFrame < fired
  /\ \A f \in Frames : seen[f] # NoReport => f < bobFrame

\* At bob's device pulse trains stay in the order in which they were fired, from
\* the detector to what is published.
BobInOrder ==
  /\ InOrder(sifted["bob"]) /\ InOrder(taken) /\ InOrder(seen)
  /\ Newer(sifted["bob"], taken, 0)
  /\ Newer(sifted["bob"], seen, firstSeq) /\ Newer(taken, seen, firstSeq)
  /\ Below(sifted["bob"], fired + 1) /\ Below(taken, fired + 1) /\ Below(seen, fired + 1)
  /\ photons <= fired
  /\ photons # 0 => Below(sifted["bob"], photons) /\ Below(taken, photons) /\ Below(seen, photons)

Settled == "rewind" \notin slips /\ "unsettled" \notin slips

\* Alice's reports from frame n on are newer than what she has published.
Unpublished(n) == Newer(sifted["alice"], sent, n)

\* Nothing can be asked before the transmitter has been started again.
AtRest == tx = "none" /\ bobFrame = 0 /\ rx # "verify"

\* Alice's reports are in order, and what bob can ask for she has not yet
\* published.
AliceInOrder ==
  /\ InOrder(sifted["alice"]) /\ InOrder(sent)
  /\ \A f \in Frames : sent[f] # NoReport =>
       f < aliceFrame \/ (f = aliceFrame /\ tx \in {"stopdet", "end"})
  /\ Below(sifted["alice"], fired + 1) /\ Below(sent, fired + 1)
  /\ tx = "emit" => report = aliceFrame /\ Below(sifted["alice"], fired) /\ Below(sent, fired)
  /\ AtRest \/ Unpublished(firstSeq - Len(taken))
  /\ tx # "none" /\ bobFrame = 0 => rx # "verify" /\ Unpublished(0)

\* The two count the same frames.
FramesAgree ==
  /\ tx \in {"check", "fire", "emit", "stopdet"} => bobFrame = aliceFrame
  /\ tx = "end" => bobFrame = aliceFrame + 1
  /\ tx # "none" /\ rx = "verify" => firstSeq <= bobFrame

\* Under the same number both have the same pulse train.
ReportsAgree ==
  /\ photons = 0 \/ (tx \in {"emit", "stopdet"} /\ photons = fired)
  /\ tx = "stopdet" => sent[aliceFrame] \in {NoReport, fired}
  /\ \A f \in Frames : seen[f] \in Pulses /\ sent[f] # NoReport => seen[f] = sent[f]
  /\ rx = "verify" => \A i \in DOMAIN taken :
       LET f == firstSeq - Len(taken) + i - 1 IN
       taken[i] \in Pulses /\ sent[f] # NoReport => taken[i] = sent[f]

\* What alice has published and bob has not is what he has the answer for.
SiftedAgree ==
  sifted["alice"] = IF rx = "answered" THEN sifted["bob"] \o taken ELSE sifted["bob"]

Inv == /\ TypeOK /\ ThreadsFit /\ FramesFit /\ BobInOrder
       /\ Settled => AliceInOrder
       /\ slips = {} => FramesAgree /\ ReportsAgree /\ SiftedAgree

-----------------------------------------------------------------------------
(* Types.                                                                   *)

\* What is known of the numbers of frames and pulse trains.
LEMMA Numbers ==
  /\ MaxPulses \in Nat /\ MaxLost \in Nat /\ MaxSessions \in Nat
  /\ NoReport \notin Nat /\ NoReport \notin Pulses /\ NoReport \notin Frames /\ NoReport # 0
  /\ \A p \in Pulses : p \in Nat /\ p > 0 /\ p <= MaxPulses
  /\ \A f \in Frames : f \in Nat /\ f <= MaxPulses
  /\ 0 \in Frames /\ 0 \notin Pulses
BY BoundAssumption, ValueAssumption DEF Pulses, Frames

\* There are two sides, and alice and bob are the other one's other.
LEMMA TwoSides ==
  /\ "alice" \in Sides /\ "bob" \in Sides /\ "tx" \in Workers /\ "rx" \in Workers
  /\ \A x \in Sides : Other(x) \in Sides /\ (x = "alice" \/ x = "bob")
  /\ \A w \in Workers : w = "tx" \/ w = "rx"
BY DEF Sides, Workers, Other

\* The steps a control call is made of.
LEMMA StepForms ==
  /\ \A x \in Sides : <<"leave", x>> \in Step /\ <<"connect", x>> \in Step
                       /\ <<"hangup", x>> \in Step
  /\ \A w \in Workers : <<"stop", w>> \in Step /\ <<"join", w>> \in Step
                         /\ <<"await", w>> \in Step
  /\ <<"start", "tx">> \in Step /\ <<"call", "starting">> \in Step
  /\ <<"call", "ending">> \in Step
BY DEF Step

\* Short sequences and their concatenation.
LEMMA ShortSequences ==
  ASSUME NEW S
  PROVE  /\ <<>> \in Seq(S)
         /\ \A a \in S : <<a>> \in Seq(S)
         /\ \A a, b \in S : <<a, b>> \in Seq(S)
         /\ \A a, b, c, d \in S : <<a, b, c, d>> \in Seq(S)
OBVIOUS

LEMMA Joined ==
  ASSUME NEW S, NEW s \in Seq(S), NEW t \in Seq(S)
  PROVE  s \o t \in Seq(S)
OBVIOUS

\* RunSession and EndSession are lists of such steps.
LEMMA CallsAreSteps ==
  ASSUME NEW x \in Sides
  PROVE  HangUp(x) \in Seq(Step) /\ Running(x) \in Seq(Step) /\ Ending(x) \in Seq(Step)
<1>1. \A y \in Sides : Leave(y) \in Seq(Step) /\ Launch(y) \in Seq(Step)
  BY StepForms, TwoSides, ShortSequences, Zenon DEF Leave, Launch
<1>2. \A y \in Sides : <<<<"hangup", y>>>> \in Seq(Step) /\ <<<<"connect", y>>>> \in Seq(Step)
  BY StepForms, ShortSequences, Zenon
<1>3. \A y \in Sides : HangUp(y) \in Seq(Step)
  BY <1>1, <1>2, Joined, Zenon DEF HangUp
<1>4. /\ <<<<"call", "ending">>, <<"stop", "tx">>>> \in Seq(Step)
      /\ <<<<"stop", "tx">>, <<"call", "ending">>>> \in Seq(Step)
  BY StepForms, TwoSides, ShortSequences, Zenon
<1>5. <<<<"hangup", x>>, <<"connect", x>>, <<"call", "starting">>, <<"connect", Other(x)>>>> \in Seq(Step)
  BY StepForms, TwoSides, ShortSequences, Zenon
<1>6. Running(x) \in Seq(Step)
  BY <1>1, <1>2, <1>5, TwoSides, Joined, Zenon DEF Running
<1>7. Ending(x) \in Seq(Step)
  <2>1. \/ Ending(x) = HangUp("alice") \/ Ending(x) = HangUp("bob")
        \/ Ending(x) = <<<<"stop", "tx">>, <<"call", "ending">>>> \o Leave("bob") \o HangUp("alice")
        \/ Ending(x) = <<<<"call", "ending">>, <<"stop", "tx">>>> \o Leave("alice") \o HangUp("bob")
    BY Zenon DEF Ending
  <2>2. /\ HangUp("alice") \in Seq(Step) /\ HangUp("bob") \in Seq(Step)
        /\ Leave("alice") \in Seq(Step) /\ Leave("bob") \in Seq(Step)
    BY <1>1, <1>3, TwoSides, Zenon
  <2>3. <<<<"stop", "tx">>, <<"call", "ending">>>> \o Leave("bob") \o HangUp("alice") \in Seq(Step)
    BY <2>2, <1>4, Joined, Zenon
  <2>4. <<<<"call", "ending">>, <<"stop", "tx">>>> \o Leave("alice") \o HangUp("bob") \in Seq(Step)
    BY <2>2, <1>4, Joined, Zenon
  <2> QED BY <2>1, <2>2, <2>3, <2>4, Zenon
<1> QED BY <1>3, <1>6, <1>7

\* The part of TypeOK about the control calls and the threads.
ControlOK ==
  /\ initiator \in Sides
  /\ ctl \in [Sides -> Seq(Step)] /\ channel \subseteq Sides
  /\ state \in [Workers -> {"NotStarted", "Started", "Stop"}]
  /\ tx \in {"none", "check", "fire", "emit", "stopdet", "end", "quit"}
  /\ rx \in {"none", "check", "look", "verify", "answered"}
  /\ frameLimit \in FrameLimits /\ frameCount \in Nat
  /\ lit \in BOOLEAN /\ crashed \in BOOLEAN
  /\ sessions \in 0..MaxSessions /\ lost \in 0..MaxLost
  /\ slips \subseteq {"rewind", "unsettled", "detection", "answer"}

\* The part about frames and pulse trains.
DataOK ==
  /\ aliceFrame \in Frames /\ report \in Frames
  /\ sent \in [Frames -> Pulses \union {NoReport}]
  /\ photons \in {0} \union Pulses /\ bobFrame \in Frames
  /\ seen \in [Frames -> {0, NoReport} \union Pulses]
  /\ firstSeq \in 0..MaxPulses + 1 /\ taken \in Seq({0} \union Pulses)
  /\ sifted \in [Sides -> Seq({0} \union Pulses)]
  /\ fired \in {0} \union Pulses

LEMMA Types == TypeOK <=> ControlOK /\ DataOK
BY DEF TypeOK, ControlOK, DataOK

\* What is left of a control call when it takes a step, or begins to wait.
LEMMA CallGoesOn ==
  ASSUME ctl \in [Sides -> Seq(Step)], NEW x \in Sides, ctl[x] # <<>>,
         NEW s \in Seq(Step)
  PROVE  /\ [ctl EXCEPT ![x] = Tail(@)] \in [Sides -> Seq(Step)]
         /\ [ctl EXCEPT ![x] = s] \in [Sides -> Seq(Step)]
         /\ \A a \in Step : [ctl EXCEPT ![x] = <<a>> \o Tail(@)] \in [Sides -> Seq(Step)]
<1> DEFINE C == Seq(Step)
<1>1. Tail(ctl[x]) \in C BY HeadTailProperties
<1>2. \A a \in Step : <<a>> \o Tail(ctl[x]) \in C
  BY <1>1, ShortSequences, Joined, Zenon
<1> HIDE DEF C
<1>3. s \in C /\ ctl \in [Sides -> C] BY DEF C
<1> QED BY <1>1, <1>2, <1>3 DEF C

\* Every step keeps the types of the control.
LEMMA ControlOKStep ==
  ASSUME ControlOK, Next
  PROVE  ControlOK'
<1> USE TwoSides, Numbers
<1>1. ASSUME NEW x \in Sides, RunSession(x)
      PROVE  ControlOK'
  BY <1>1, CallsAreSteps, BoundAssumption
     DEF RunSession, ControlOK, threads, limit, source, detector, receiver
<1>2. ASSUME NEW x \in Sides, EndSession(x)
      PROVE  ControlOK'
  BY <1>2, CallsAreSteps
     DEF EndSession, ControlOK, threads, limit, source, detector, receiver, bounds
<1>3. ASSUME NEW x \in Sides, CallFails(x)
      PROVE  ControlOK'
  <2>1. ctl' \in [Sides -> Seq(Step)]
    <3>1. <<>> \in Seq(Step) /\ HangUp(x) \in Seq(Step) /\ ctl \in [Sides -> Seq(Step)]
      BY CallsAreSteps, ShortSequences DEF ControlOK
    <3>2. ctl' = [ctl EXCEPT ![x] = <<>>] \/ ctl' = [ctl EXCEPT ![x] = HangUp(x)]
      BY <1>3 DEF CallFails
    <3>3. ctl[x] # <<>>
      BY <1>3 DEF CallFails, Busy
    <3> QED BY <3>1, <3>2, <3>3, CallGoesOn, Zenon
  <2>2. lost' \in 0..MaxLost
    BY <1>3 DEF CallFails, ControlOK
  <2> QED BY <1>3, <2>1, <2>2 DEF CallFails, ControlOK, threads, limit, source, detector, receiver
<1>4. ASSUME NEW x \in Sides, NEW s, Does(x, s)
      PROVE  ctl' \in [Sides -> Seq(Step)]
  BY <1>4, CallGoesOn, ShortSequences DEF Does, Busy, ControlOK
<1>5. ASSUME NEW x \in Sides, Call(x)
      PROVE  ControlOK'
  BY <1>5, <1>4 DEF Call, ControlOK, threads, limit, source, detector, receiver, bounds
<1>6. ASSUME NEW x \in Sides, LeaveAlice(x)
      PROVE  ControlOK'
  BY <1>6, <1>4 DEF LeaveAlice, ControlOK, threads, limit, detector, receiver, Rewind, Slip
<1>7. ASSUME NEW x \in Sides, ConnectAlice(x)
      PROVE  ControlOK'
  BY <1>7, <1>4 DEF ConnectAlice, ControlOK, threads, limit, detector, receiver, Rewind, Slip
<1>8. ASSUME NEW x \in Sides, LeaveBob(x)
      PROVE  ControlOK'
  BY <1>8, <1>4 DEF LeaveBob, ControlOK, threads, limit, source, receiver, Rewind, Slip
<1>9. ASSUME NEW x \in Sides, ConnectBob(x)
      PROVE  ControlOK'
  BY <1>9, <1>4 DEF ConnectBob, ControlOK, limit, source, Rewind, Slip
<1>10. ASSUME NEW x \in Sides, ResetChannel(x)
       PROVE  ControlOK'
  BY <1>10, <1>4 DEF ResetChannel, ControlOK, threads, limit, source, detector, receiver, bounds
<1>11. ASSUME NEW x \in Sides, StartTransmitter(x)
       PROVE  ControlOK'
  BY <1>11, <1>4 DEF StartTransmitter, ControlOK, source, detector, receiver, Slip
<1>12. ASSUME NEW x \in Sides, NEW w \in Workers, StopWorker(x, w)
       PROVE  ControlOK'
  <2>1. state' \in [Workers -> {"NotStarted", "Started", "Stop"}]
    BY <1>12 DEF StopWorker, ControlOK
  <2>2. ctl' \in [Sides -> Seq(Step)]
    <3>1. \/ ctl' = [ctl EXCEPT ![x] = <<<<"join", w>>>> \o Tail(@)]
          \/ ctl' = [ctl EXCEPT ![x] = <<<<"await", w>>>> \o Tail(@)]
          \/ ctl' = [ctl EXCEPT ![x] = Tail(@)]
      BY <1>12 DEF StopWorker, ControlOK
    <3>2. /\ ctl \in [Sides -> Seq(Step)] /\ ctl[x] # <<>> /\ <<>> \in Seq(Step)
          /\ <<"join", w>> \in Step /\ <<"await", w>> \in Step
      BY <1>12, StepForms, ShortSequences DEF StopWorker, Busy, ControlOK
    <3>3. CASE ctl' = [ctl EXCEPT ![x] = <<<<"join", w>>>> \o Tail(@)]
      BY <3>3, <3>2, CallGoesOn, Zenon
    <3>4. CASE ctl' = [ctl EXCEPT ![x] = <<<<"await", w>>>> \o Tail(@)]
      BY <3>4, <3>2, CallGoesOn, Zenon
    <3>5. CASE ctl' = [ctl EXCEPT ![x] = Tail(@)]
      BY <3>5, <3>2, CallGoesOn, Zenon
    <3> QED BY <3>1, <3>3, <3>4, <3>5, Zenon
  <2> QED
    BY <1>12, <2>1, <2>2 DEF StopWorker, ControlOK, limit, source, detector, receiver, bounds
<1>13. ASSUME NEW x \in Sides, NEW w \in Workers, JoinWorker(x, w)
       PROVE  ControlOK'
  BY <1>13, <1>4 DEF JoinWorker, ControlOK, limit, source, detector, receiver, bounds
<1>14. ASSUME NEW x \in Sides, NEW w \in Workers, AwaitStopped(x, w)
       PROVE  ControlOK'
  BY <1>14, <1>4 DEF AwaitStopped, ControlOK, threads, limit, source, detector, receiver, bounds
<1>15. ASSUME TxStep
       PROVE  ControlOK'
  <2>1. CASE TxCheck
    <3>1. frameCount' \in Nat BY <2>1 DEF TxCheck, ControlOK
    <3> QED BY <2>1, <3>1 DEF TxCheck, ControlOK, control, source, detector, receiver, bounds
  <2>2. CASE TxFire
    <3>1. lost' \in 0..MaxLost BY <2>2 DEF TxFire, ControlOK
    <3> QED BY <2>2, <3>1 DEF TxFire, ControlOK, control, limit, receiver
  <2>3. CASE TxEmit
    BY <2>3 DEF TxEmit, ControlOK, control, limit, detector, receiver, bounds
  <2>4. CASE TxStopDetecting
    <3>1. lost' \in 0..MaxLost BY <2>4 DEF TxStopDetecting, ControlOK
    <3> QED BY <2>4, <3>1 DEF TxStopDetecting, ControlOK, control, limit, source, receiver, Slip
  <2>5. CASE TxEndFrame
    BY <2>5 DEF TxEndFrame, ControlOK, control, limit, detector, receiver, bounds
  <2>6. CASE TxQuit
    BY <2>6 DEF TxQuit, ControlOK, control, limit, source, detector, receiver, bounds
  <2> QED BY <1>15, <2>1, <2>2, <2>3, <2>4, <2>5, <2>6 DEF TxStep
<1>16. ASSUME RxStep
       PROVE  ControlOK'
  <2>1. CASE RxCheck
    BY <2>1 DEF RxCheck, ControlOK, control, limit, source, detector, receiver, bounds
  <2>2. CASE RxTimeout
    BY <2>2 DEF RxTimeout, ControlOK, control, limit, source, detector, receiver, bounds
  <2>3. CASE RxTake
    BY <2>3 DEF RxTake, ControlOK, control, limit, source, bounds
  <2>4. CASE VerifyBases
    <3>1. lost' \in 0..MaxLost BY <2>4 DEF VerifyBases, ControlOK
    <3> QED BY <2>4, <3>1 DEF VerifyBases, ControlOK, control, limit, detector, Slip
  <2>5. CASE VerifyFails
    <3>1. lost' \in 0..MaxLost BY <2>5 DEF VerifyFails, ControlOK
    <3> QED BY <2>5, <3>1 DEF VerifyFails, ControlOK, control, limit, source, detector
  <2>6. CASE PublishStates
    BY <2>6 DEF PublishStates, ControlOK, control, limit, source, detector, bounds
  <2> QED BY <1>16, <2>1, <2>2, <2>3, <2>4, <2>5, <2>6 DEF RxStep
<1>17. ASSUME NEW x \in Sides, ControlStep(x)
       PROVE  ControlOK'
  BY <1>17, <1>5, <1>6, <1>7, <1>8, <1>9, <1>10, <1>11, <1>12, <1>13, <1>14, Zenon DEF ControlStep
<1> QED BY <1>1, <1>2, <1>3, <1>15, <1>16, <1>17, Zenon DEF Next

-----------------------------------------------------------------------------
(* What a step does to frames and pulse trains.                             *)

data == <<aliceFrame, report, sent, photons, bobFrame, seen, firstSeq, taken, sifted, fired>>

\* Nothing: a thread only goes on or ends.
Quiet ==
  /\ UNCHANGED data /\ UNCHANGED slips
  /\ tx' = tx \/ (tx = "check" /\ tx' = "fire" /\ fired < MaxPulses)
     \/ (tx = "check" /\ tx' = "quit") \/ (tx = "quit" /\ tx' = "none")
  /\ rx' = rx \/ (rx \in {"check", "look"} /\ rx' \in {"check", "look", "none"})

\* Alice's remoteComms begin again, connected or not.
AliceBegins ==
  /\ aliceFrame' = 0 /\ sent' = NoReports /\ Rewind(aliceFrame)
  /\ UNCHANGED <<tx, rx, report, photons, bobFrame, seen, firstSeq, taken, sifted, fired>>

\* Bob's do, with the receiver's thread as it is or started.
BobBegins ==
  /\ photons' = 0 /\ bobFrame' = 0 /\ seen' = NoReports /\ Rewind(bobFrame)
  /\ \/ UNCHANGED <<rx, firstSeq>>
     \/ rx = "none" /\ rx' = "check" /\ firstSeq' = 0
  /\ UNCHANGED <<tx, aliceFrame, report, sent, taken, sifted, fired>>

\* The transmitter's thread starts.
TxBegins ==
  /\ tx = "none" /\ tx' = "check"
  /\ IF Unsettled THEN Slip("unsettled") ELSE UNCHANGED slips
  /\ UNCHANGED data /\ UNCHANGED rx

\* The steps which do something to them.
DataStep ==
  \/ AliceBegins \/ BobBegins \/ TxBegins
  \/ (TxFire /\ lit) \/ TxEmit \/ TxStopDetecting \/ TxEndFrame
  \/ RxTake \/ VerifyBases \/ VerifyFails \/ PublishStates

LEMMA Effects ==
  ASSUME ThreadsFit, Next
  PROVE  Quiet \/ DataStep
<1> USE DEF data
<1>1. ASSUME NEW x \in Sides, RunSession(x) \/ EndSession(x) \/ CallFails(x)
      PROVE  Quiet
  BY <1>1 DEF Quiet, RunSession, EndSession, CallFails, threads, limit, source, detector, receiver, bounds
<1>2. ASSUME NEW x \in Sides, Call(x) \/ ResetChannel(x)
      PROVE  Quiet
  BY <1>2 DEF Quiet, Call, ResetChannel, threads, limit, source, detector, receiver, bounds
<1>3. ASSUME NEW x \in Sides, NEW w \in Workers, StopWorker(x, w) \/ JoinWorker(x, w) \/ AwaitStopped(x, w)
      PROVE  Quiet
  BY <1>3 DEF Quiet, StopWorker, JoinWorker, AwaitStopped, threads, limit, source, detector, receiver, bounds
<1>4. ASSUME NEW x \in Sides, LeaveAlice(x) \/ ConnectAlice(x)
      PROVE  AliceBegins
  BY <1>4 DEF AliceBegins, LeaveAlice, ConnectAlice, threads, detector, receiver
<1>5. ASSUME NEW x \in Sides, LeaveBob(x) \/ ConnectBob(x)
      PROVE  BobBegins
  BY <1>5 DEF BobBegins, LeaveBob, ConnectBob, threads, source, receiver, ThreadsFit
<1>6. ASSUME NEW x \in Sides, StartTransmitter(x)
      PROVE  Quiet \/ TxBegins
  BY <1>6 DEF Quiet, TxBegins, StartTransmitter, source, detector, receiver, ThreadsFit
<1>7. ASSUME NEW x \in Sides, ControlStep(x)
      PROVE  Quiet \/ DataStep
  BY <1>7, <1>2, <1>3, <1>4, <1>5, <1>6, Zenon DEF ControlStep, DataStep
<1>8. ASSUME TxStep
      PROVE  Quiet \/ DataStep
  <2>1. CASE TxCheck \/ TxQuit
    BY <2>1 DEF TxCheck, TxQuit, Quiet, control, limit, source, detector, receiver, bounds
  <2>2. CASE TxFire /\ ~lit
    BY <2>2 DEF TxFire, Quiet, receiver
  <2> QED BY <1>8, <2>1, <2>2, Zenon DEF TxStep, DataStep
<1>9. ASSUME RxStep
      PROVE  Quiet \/ DataStep
  <2>1. CASE RxCheck \/ RxTimeout
    BY <2>1 DEF RxCheck, RxTimeout, Quiet, control, limit, source, detector, receiver, bounds
  <2> QED BY <1>9, <2>1, Zenon DEF RxStep, DataStep
<1> QED BY <1>1, <1>7, <1>8, <1>9, Zenon DEF Next

\* The frames taken, when bob's receiver takes some.
LEMMA Taken ==
  ASSUME DataOK, RxTake
  PROVE  \E n \in Frames :
           /\ n >= firstSeq /\ firstSeq' = n + 1
           /\ \A f \in firstSeq..n : f \in Frames /\ seen[f] # NoReport
           /\ taken' \in Seq({0} \union Pulses) /\ Len(taken') = n + 1 - firstSeq
           /\ \A i \in DOMAIN taken' : /\ firstSeq + i - 1 \in firstSeq..n
                                      /\ taken'[i] = seen[firstSeq + i - 1]
           /\ seen' = [f \in Frames |-> IF f \in firstSeq..n THEN NoReport ELSE seen[f]]
<1> USE Numbers
<1>1. PICK n \in Frames :
        /\ RunEnds(n) /\ firstSeq' = n + 1
        /\ taken' = [i \in 1..(n + 1 - firstSeq) |-> seen[firstSeq + i - 1]]
        /\ seen' = [f \in Frames |-> IF f \in firstSeq..n THEN NoReport ELSE seen[f]]
  BY DEF RxTake
<1>2. firstSeq \in Nat /\ n \in Nat /\ n >= firstSeq
  BY <1>1 DEF RunEnds, DataOK
<1>3. \A f \in firstSeq..n : f \in Frames /\ seen[f] # NoReport /\ seen[f] \in {0} \union Pulses
  <2>1. \A f \in firstSeq..n : f \in Frames BY <1>2 DEF Frames
  <2> QED BY <1>1, <2>1 DEF RunEnds, DataOK
<1>4. \A i \in 1..(n + 1 - firstSeq) : firstSeq + i - 1 \in firstSeq..n
  BY <1>2
<1>5. n + 1 - firstSeq \in Nat
  BY <1>2
<1>6. taken' \in [1..(n + 1 - firstSeq) -> {0} \union Pulses]
  BY <1>1, <1>3, <1>4
<1>7. taken' \in Seq({0} \union Pulses) /\ Len(taken') = n + 1 - firstSeq
  BY <1>5, <1>6
<1> QED BY <1>1, <1>2, <1>3, <1>4, <1>6, <1>7

\* The frames alice is asked for are frames bob has taken.
LEMMA AskedFrames ==
  ASSUME DataOK, ThreadsFit
  PROVE  /\ firstSeq - Len(taken) \in Nat
         /\ \A i \in DOMAIN taken : /\ firstSeq - Len(taken) + i - 1 \in Asked
                                   /\ firstSeq - Len(taken) + i - 1 \in Frames
         /\ Asked \subseteq Frames
BY Numbers DEF DataOK, ThreadsFit, Asked, Frames

\* When she can answer, her bits are reports under those numbers.
LEMMA BitsAreReports ==
  ASSUME DataOK, ThreadsFit, CanAnswer
  PROVE  /\ AlicesBits \in Seq({0} \union Pulses)
         /\ Len(AlicesBits) = Len(taken)
         /\ \A i \in DOMAIN taken :
              LET f == firstSeq - Len(taken) + i - 1 IN
              /\ sent[f] \in Pulses
              /\ AlicesBits[i] = IF taken[i] = 0 THEN 0 ELSE sent[f]
<1>1. \A i \in DOMAIN taken : sent[firstSeq - Len(taken) + i - 1] \in Pulses
  BY AskedFrames DEF CanAnswer, DataOK
<1>2. DOMAIN taken = 1..Len(taken) /\ Len(taken) \in Nat
  BY DEF DataOK
<1>3. AlicesBits \in [1..Len(taken) -> {0} \union Pulses]
  BY <1>1, <1>2 DEF AlicesBits
<1>4. AlicesBits \in Seq({0} \union Pulses) /\ Len(AlicesBits) = Len(taken)
  BY <1>2, <1>3
<1> QED BY <1>1, <1>4 DEF AlicesBits

\* Every step keeps the types of frames and pulse trains.
LEMMA DataOKStep ==
  ASSUME DataOK, ThreadsFit, FramesFit, Next
  PROVE  DataOK'
<1> USE Numbers
<1>1. CASE Quiet
  BY <1>1 DEF Quiet, data, DataOK
<1>2. CASE AliceBegins
  BY <1>2 DEF AliceBegins, NoReports, DataOK
<1>3. CASE BobBegins
  BY <1>3 DEF BobBegins, NoReports, DataOK
<1>4. CASE TxBegins
  BY <1>4 DEF TxBegins, data, DataOK
<1>5. CASE TxFire /\ lit
  <2>1. fired' \in Pulses
    BY <1>5 DEF TxFire, FramesFit, DataOK, Pulses
  <2> QED BY <1>5, <2>1 DEF TxFire, DataOK, receiver
<1>6. CASE TxEmit
  <2>1. fired \in Pulses
    BY <1>6 DEF TxEmit, FramesFit, DataOK
  <2> QED BY <1>6, <2>1 DEF TxEmit, DataOK, detector, receiver, bounds
<1>7. CASE TxStopDetecting
  <2>1. bobFrame + 1 \in Frames
    BY <1>7 DEF TxStopDetecting, FramesFit, DataOK, Frames, Pulses
  <2>2. seen' \in [Frames -> {0, NoReport} \union Pulses]
    BY <1>7 DEF TxStopDetecting, DataOK, detector
  <2> QED BY <1>7, <2>1, <2>2 DEF TxStopDetecting, DataOK, source, detector, receiver
<1>8. CASE TxEndFrame
  <2>1. aliceFrame + 1 \in Frames
    BY <1>8 DEF TxEndFrame, FramesFit, DataOK, Frames, Pulses
  <2> QED BY <1>8, <2>1 DEF TxEndFrame, DataOK, detector, receiver, bounds
<1>9. CASE RxTake
  <2>1. PICK n \in Frames :
          /\ firstSeq' = n + 1 /\ taken' \in Seq({0} \union Pulses)
          /\ seen' = [f \in Frames |-> IF f \in firstSeq..n THEN NoReport ELSE seen[f]]
    BY <1>9, Taken
  <2>2. firstSeq' \in 0..MaxPulses + 1
    BY <2>1 DEF Frames
  <2>3. seen' \in [Frames -> {0, NoReport} \union Pulses]
    BY <2>1 DEF DataOK
  <2> QED BY <1>9, <2>1, <2>2, <2>3 DEF RxTake, DataOK, source, bounds
<1>10. CASE VerifyBases
  <2>1. sent' \in [Frames -> Pulses \union {NoReport}]
    BY <1>10 DEF VerifyBases, DataOK
  <2>2. sifted["alice"] \o AlicesBits \in Seq({0} \union Pulses)
    BY <1>10, BitsAreReports, Joined, TwoSides DEF VerifyBases, DataOK
  <2>3. sifted' \in [Sides -> Seq({0} \union Pulses)]
    BY <1>10, <2>2 DEF VerifyBases, DataOK
  <2>4. taken' \in Seq({0} \union Pulses)
    BY <1>10, ShortSequences DEF VerifyBases, DataOK
  <2> QED BY <1>10, <2>1, <2>3, <2>4 DEF VerifyBases, DataOK, detector
<1>11. CASE VerifyFails
  BY <1>11, ShortSequences DEF VerifyFails, DataOK, source, detector
<1>12. CASE PublishStates
  <2>1. sifted["bob"] \o taken \in Seq({0} \union Pulses)
    BY Joined, TwoSides DEF DataOK
  <2>2. sifted' \in [Sides -> Seq({0} \union Pulses)]
    BY <1>12, <2>1 DEF PublishStates, DataOK
  <2> QED BY <1>12, <2>2, ShortSequences DEF PublishStates, DataOK, source, detector, bounds
<1> QED BY Effects, <1>1, <1>2, <1>3, <1>4, <1>5, <1>6, <1>7, <1>8, <1>9, <1>10, <1>11, <1>12, Zenon
        DEF DataStep

\* Every step keeps the threads as they fit.
LEMMA ThreadsFitStep ==
  ASSUME ControlOK, DataOK, ThreadsFit, Next
  PROVE  ThreadsFit'
<1> USE TwoSides DEF ThreadsFit
<1>1. ASSUME NEW x \in Sides, RunSession(x) \/ EndSession(x) \/ CallFails(x)
      PROVE  ThreadsFit'
  BY <1>1 DEF RunSession, EndSession, CallFails, threads, receiver
<1>2. ASSUME NEW x \in Sides, Call(x) \/ ResetChannel(x) \/ LeaveAlice(x) \/ ConnectAlice(x) \/ LeaveBob(x)
      PROVE  ThreadsFit'
  BY <1>2 DEF Call, ResetChannel, LeaveAlice, ConnectAlice, LeaveBob, threads, receiver
<1>3. ASSUME NEW x \in Sides, ConnectBob(x)
      PROVE  ThreadsFit'
  BY <1>3 DEF ConnectBob, ControlOK, DataOK
<1>4. ASSUME NEW x \in Sides, StartTransmitter(x)
      PROVE  ThreadsFit'
  BY <1>4 DEF StartTransmitter, ControlOK, receiver
<1>5. ASSUME NEW x \in Sides, NEW w \in Workers, StopWorker(x, w) \/ JoinWorker(x, w) \/ AwaitStopped(x, w)
      PROVE  ThreadsFit'
  BY <1>5 DEF StopWorker, JoinWorker, AwaitStopped, Ended, ControlOK, threads, receiver
<1>6. ASSUME NEW x \in Sides, ControlStep(x)
      PROVE  ThreadsFit'
  BY <1>6, <1>2, <1>3, <1>4, <1>5, Zenon DEF ControlStep
<1>7. ASSUME TxStep
      PROVE  ThreadsFit'
  <2>1. tx # "none" /\ state["tx"] # "NotStarted" /\ UNCHANGED <<rx, receiver>>
    BY <1>7 DEF TxStep, TxCheck, TxFire, TxEmit, TxStopDetecting, TxEndFrame, TxQuit, detector
  <2>2. UNCHANGED state \/ (tx' = "none" /\ state' = [state EXCEPT !["tx"] = "NotStarted"])
    BY <1>7 DEF TxStep, TxCheck, TxFire, TxEmit, TxStopDetecting, TxEndFrame, TxQuit
  <2> QED BY <2>1, <2>2 DEF ControlOK, receiver
<1>8. ASSUME RxStep
      PROVE  ThreadsFit'
  <2>1. rx # "none" /\ state["rx"] # "NotStarted" /\ UNCHANGED <<state, tx>>
    BY <1>8 DEF RxStep, RxCheck, RxTimeout, RxTake, VerifyBases, VerifyFails, PublishStates
  <2>2. rx' \notin {"verify", "answered"} => taken' = <<>>
    BY <1>8 DEF RxStep, RxCheck, RxTimeout, RxTake, VerifyBases, VerifyFails, PublishStates, receiver
  <2>3. Len(taken') <= firstSeq'
    <3>1. CASE RxTake
      <4>1. \E n \in Frames : firstSeq' = n + 1 /\ Len(taken') = n + 1 - firstSeq
        BY <3>1, Taken
      <4> QED BY <4>1, Numbers DEF DataOK
    <3>2. CASE RxCheck \/ RxTimeout
      BY <3>2 DEF RxCheck, RxTimeout, receiver
    <3>3. CASE VerifyBases \/ VerifyFails \/ PublishStates
      BY <3>3, Numbers DEF VerifyBases, VerifyFails, PublishStates, DataOK
    <3> QED BY <1>8, <3>1, <3>2, <3>3, Zenon DEF RxStep
  <2> QED BY <2>1, <2>2, <2>3
<1> QED BY <1>1, <1>6, <1>7, <1>8, Zenon DEF Next

\* Every step keeps the frames as they fit.
LEMMA FramesFitStep ==
  ASSUME DataOK, ThreadsFit, FramesFit, Next
  PROVE  FramesFit'
<1> USE Numbers DEF FramesFit
<1>1. CASE Quiet
  BY <1>1 DEF Quiet, data
<1>2. CASE AliceBegins
  BY <1>2 DEF AliceBegins, DataOK
<1>3. CASE BobBegins
  BY <1>3 DEF BobBegins, NoReports, DataOK
<1>4. CASE TxBegins
  BY <1>4 DEF TxBegins, data
<1>5. CASE TxFire /\ lit
  BY <1>5 DEF TxFire, receiver, DataOK
<1>6. CASE TxEmit
  BY <1>6 DEF TxEmit, detector, receiver, bounds
<1>7. CASE TxStopDetecting
  BY <1>7 DEF TxStopDetecting, source, detector, receiver, DataOK
<1>8. CASE TxEndFrame
  BY <1>8 DEF TxEndFrame, detector, receiver, bounds, DataOK
<1>9. CASE RxTake
  <2>1. PICK n \in Frames : seen' = [f \in Frames |-> IF f \in firstSeq..n THEN NoReport ELSE seen[f]]
    BY <1>9, Taken
  <2> QED BY <1>9, <2>1 DEF RxTake, source, bounds
<1>10. CASE VerifyBases \/ VerifyFails \/ PublishStates
  BY <1>10 DEF VerifyBases, VerifyFails, PublishStates, source, detector, bounds
<1> QED BY Effects, <1>1, <1>2, <1>3, <1>4, <1>5, <1>6, <1>7, <1>8, <1>9, <1>10, Zenon
        DEF DataStep

-----------------------------------------------------------------------------
(* The order of pulse trains.                                               *)

\* Newer pulse trains are appended to older ones.
LEMMA Appended ==
  ASSUME NEW s \in Seq({0} \union Pulses), NEW t \in Seq({0} \union Pulses),
         InOrder(s), InOrder(t), Newer(s, t, 0)
  PROVE  /\ InOrder(s \o t)
         /\ \A p \in Nat : Below(s, p) /\ Below(t, p) => Below(s \o t, p)
         /\ \A u, n : Newer(s, u, n) /\ Newer(t, u, n) => Newer(s \o t, u, n)
<1>1. /\ DOMAIN s = 1..Len(s) /\ DOMAIN t = 1..Len(t) /\ DOMAIN (s \o t) = 1..(Len(s) + Len(t))
      /\ Len(s) \in Nat /\ Len(t) \in Nat
  OBVIOUS
<1>2. \A i \in DOMAIN (s \o t) :
        \/ i \in DOMAIN s /\ (s \o t)[i] = s[i]
        \/ i > Len(s) /\ i - Len(s) \in DOMAIN t /\ (s \o t)[i] = t[i - Len(s)]
  OBVIOUS
<1>3. InOrder(s \o t)
  <2> SUFFICES ASSUME NEW i \in DOMAIN (s \o t), NEW j \in DOMAIN (s \o t), i < j,
                      (s \o t)[i] \in Pulses, (s \o t)[j] \in Pulses
               PROVE  (s \o t)[i] < (s \o t)[j]
    BY DEF InOrder
  <2>1. CASE i \in DOMAIN s /\ (s \o t)[i] = s[i] /\ j \in DOMAIN s /\ (s \o t)[j] = s[j]
    BY <2>1 DEF InOrder
  <2>2. CASE /\ i \in DOMAIN s /\ (s \o t)[i] = s[i]
             /\ j - Len(s) \in DOMAIN t /\ (s \o t)[j] = t[j - Len(s)]
    BY <2>2, <1>1 DEF Newer
  <2>3. CASE /\ i - Len(s) \in DOMAIN t /\ (s \o t)[i] = t[i - Len(s)]
             /\ j - Len(s) \in DOMAIN t /\ (s \o t)[j] = t[j - Len(s)]
    BY <2>3, <1>1 DEF InOrder
  <2> QED BY <1>1, <1>2, <2>1, <2>2, <2>3
<1>4. ASSUME NEW p \in Nat, Below(s, p), Below(t, p)
      PROVE  Below(s \o t, p)
  BY <1>2, <1>4 DEF Below
<1>5. ASSUME NEW u, NEW n, Newer(s, u, n), Newer(t, u, n)
      PROVE  Newer(s \o t, u, n)
  BY <1>2, <1>5 DEF Newer
<1> QED BY <1>3, <1>4, <1>5

\* Nothing is in order, and before and after everything.
LEMMA NothingInOrder ==
  /\ InOrder(<<>>) /\ InOrder(NoReports)
  /\ \A p : Below(<<>>, p) /\ Below(NoReports, p)
  /\ \A s, n : Newer(<<>>, s, n) /\ Newer(s, <<>>, n) /\ Newer(s, NoReports, n)
BY Numbers DEF InOrder, Below, Newer, NoReports

LEMMA BelowMore ==
  ASSUME NEW s, NEW p \in Nat, NEW q \in Nat, p <= q, Below(s, p)
  PROVE  Below(s, q)
BY Numbers DEF Below

\* The latest pulse train is filed under a number larger than any used.
LEMMA Filed ==
  ASSUME NEW r \in [Frames -> {0, NoReport} \union Pulses], NEW k \in Frames, NEW p \in {0} \union Pulses,
         \A f \in Frames : r[f] # NoReport => f < k,
         InOrder(r), p # 0 => Below(r, p)
  PROVE  /\ InOrder([r EXCEPT ![k] = p])
         /\ \A q \in Nat : Below(r, q) /\ p < q => Below([r EXCEPT ![k] = p], q)
         /\ \A s, n : Newer(s, r, n) /\ (p # 0 => Below(s, p)) => Newer(s, [r EXCEPT ![k] = p], n)
<1> DEFINE t == [r EXCEPT ![k] = p]
<1>1. /\ DOMAIN t = Frames /\ DOMAIN r = Frames /\ t[k] = p
      /\ \A f \in Frames : f # k => t[f] = r[f]
  OBVIOUS
<1>2. \A f \in Frames : t[f] \in Pulses => f < k \/ f = k
  BY <1>1, Numbers
<1> HIDE DEF t
<1>3. InOrder(t)
  BY <1>1, <1>2, Numbers DEF InOrder, Below
<1>4. ASSUME NEW q \in Nat, Below(r, q), p < q
      PROVE  Below(t, q)
  BY <1>1, <1>4 DEF Below
<1>5. ASSUME NEW s, NEW n, Newer(s, r, n), p # 0 => Below(s, p)
      PROVE  Newer(s, t, n)
  BY <1>1, <1>5, Numbers DEF Newer, Below
<1> QED BY <1>3, <1>4, <1>5 DEF t

\* What is taken from frames in order is in order, and after what was before
\* those frames.
LEMMA TakenInOrder ==
  ASSUME DataOK, NEW n \in Frames, NEW t \in Seq({0} \union Pulses), NEW r,
         n >= firstSeq,
         \A f \in firstSeq..n : f \in Frames /\ seen[f] # NoReport,
         \A i \in DOMAIN t : firstSeq + i - 1 \in firstSeq..n /\ t[i] = seen[firstSeq + i - 1],
         r = [f \in Frames |-> IF f \in firstSeq..n THEN NoReport ELSE seen[f]],
         InOrder(seen)
  PROVE  /\ InOrder(t) /\ InOrder(r)
         /\ \A q : Below(seen, q) => Below(t, q) /\ Below(r, q)
         /\ \A s : Newer(s, seen, firstSeq) => Newer(s, t, 0) /\ Newer(s, r, n + 1)
         /\ Newer(t, r, n + 1)
<1> USE Numbers
<1>1. /\ DOMAIN seen = Frames /\ firstSeq \in Nat /\ n \in Nat
      /\ DOMAIN t = 1..Len(t) /\ Len(t) \in Nat
  BY DEF DataOK
<1>2. DOMAIN r = Frames /\ \A f \in Frames : r[f] \in Pulses => r[f] = seen[f]
  OBVIOUS
<1>3. InOrder(t)
  <2> SUFFICES ASSUME NEW i \in DOMAIN t, NEW j \in DOMAIN t, i < j, t[i] \in Pulses, t[j] \in Pulses
               PROVE  t[i] < t[j]
    BY DEF InOrder
  <2>1. /\ firstSeq + i - 1 \in Frames /\ firstSeq + j - 1 \in Frames
        /\ firstSeq + i - 1 < firstSeq + j - 1
    BY <1>1
  <2> QED BY <2>1, <1>1 DEF InOrder
<1>4. InOrder(r)
  BY <1>1, <1>2 DEF InOrder
<1>5. ASSUME NEW q, Below(seen, q)
      PROVE  Below(t, q) /\ Below(r, q)
  <2>1. Below(t, q)
    <3> SUFFICES ASSUME NEW i \in DOMAIN t, t[i] \in Pulses
                 PROVE  t[i] < q
      BY DEF Below
    <3>1. firstSeq + i - 1 \in DOMAIN seen /\ seen[firstSeq + i - 1] = t[i]
      BY <1>1
    <3> QED BY <3>1, <1>5 DEF Below
  <2> QED BY <1>1, <1>2, <1>5, <2>1 DEF Below
<1>6. ASSUME NEW s, Newer(s, seen, firstSeq)
      PROVE  Newer(s, t, 0) /\ Newer(s, r, n + 1)
  <2>1. Newer(s, t, 0)
    <3> SUFFICES ASSUME NEW i \in DOMAIN s, NEW j \in DOMAIN t, s[i] \in Pulses, t[j] \in Pulses
                 PROVE  s[i] < t[j]
      BY DEF Newer
    <3>1. /\ firstSeq + j - 1 \in DOMAIN seen /\ seen[firstSeq + j - 1] = t[j]
          /\ firstSeq + j - 1 >= firstSeq
      BY <1>1
    <3> QED BY <3>1, <1>6 DEF Newer
  <2>2. \A f \in Frames : f >= n + 1 => f >= firstSeq
    BY <1>1
  <2> QED BY <1>1, <1>2, <1>6, <2>1, <2>2 DEF Newer
<1>7. Newer(t, r, n + 1)
  <2> SUFFICES ASSUME NEW i \in DOMAIN t, NEW f \in Frames, f >= n + 1, t[i] \in Pulses, r[f] \in Pulses
               PROVE  t[i] < r[f]
    BY <1>2 DEF Newer
  <2>1. /\ firstSeq + i - 1 \in Frames /\ firstSeq + i - 1 < f
        /\ t[i] = seen[firstSeq + i - 1] /\ r[f] = seen[f]
    BY <1>1, <1>2
  <2> QED BY <2>1, <1>1 DEF InOrder
<1> QED BY <1>3, <1>4, <1>5, <1>6, <1>7

\* Every step keeps the order at bob's device.
LEMMA BobInOrderStep ==
  ASSUME DataOK, ThreadsFit, FramesFit, BobInOrder, Next
  PROVE  BobInOrder'
<1> USE DEF BobInOrder
<1>0. /\ fired \in Nat /\ photons \in Nat /\ firstSeq \in Nat
      /\ sifted["bob"] \in Seq({0} \union Pulses) /\ taken \in Seq({0} \union Pulses)
  BY Numbers, TwoSides DEF DataOK
<1>1. CASE Quiet \/ AliceBegins \/ TxBegins \/ TxEmit \/ TxEndFrame
  <2>1. UNCHANGED <<photons, seen, firstSeq, taken, sifted, fired>>
    BY <1>1 DEF Quiet, AliceBegins, TxBegins, TxEmit, TxEndFrame, data, detector, receiver, bounds
  <2> QED BY <2>1
<1>2. CASE BobBegins
  <2>1. seen' = NoReports /\ photons' = 0 /\ UNCHANGED <<taken, sifted, fired>>
    BY <1>2 DEF BobBegins
  <2> QED BY <1>0, <2>1, NothingInOrder
<1>3. CASE TxFire /\ lit
  <2>1. /\ UNCHANGED <<seen, firstSeq, taken, sifted>> /\ fired' = fired + 1
        /\ photons' = fired + 1 \/ photons' = photons
    BY <1>3 DEF TxFire, receiver
  <2>2. \A s : Below(s, fired + 1) => Below(s, fired' + 1)
    BY <1>0, <2>1, BelowMore
  <2> QED BY <1>0, <2>1, <2>2
<1>4. CASE TxStopDetecting
  <2>1. UNCHANGED <<firstSeq, taken, sifted, fired>>
    BY <1>4 DEF TxStopDetecting, receiver
  <2>2. CASE UNCHANGED detector
    BY <2>1, <2>2 DEF detector
  <2>3. CASE ~UNCHANGED detector
    <3>1. photons' = 0 /\ seen' = [seen EXCEPT ![bobFrame] = photons]
      <4>1. seen[bobFrame] = NoReport
        BY Numbers DEF FramesFit, DataOK
      <4> QED BY <1>4, <2>3, <4>1 DEF TxStopDetecting
    <3>2. /\ seen \in [Frames -> {0, NoReport} \union Pulses] /\ bobFrame \in Frames
          /\ photons \in {0} \union Pulses /\ photons < fired + 1
          /\ \A f \in Frames : seen[f] # NoReport => f < bobFrame
      BY <1>0 DEF DataOK, FramesFit
    <3>3. InOrder(seen') /\ Below(seen', fired + 1)
      <4>1. /\ InOrder([seen EXCEPT ![bobFrame] = photons])
            /\ \A q \in Nat : Below(seen, q) /\ photons < q => Below([seen EXCEPT ![bobFrame] = photons], q)
        BY <3>2, Filed
      <4>2. fired + 1 \in Nat BY <1>0
      <4> QED BY <3>1, <3>2, <4>1, <4>2
    <3>4. Newer(sifted["bob"], seen', firstSeq) /\ Newer(taken, seen', firstSeq)
      BY <3>1, <3>2, Filed
    <3> QED BY <2>1, <3>1, <3>3, <3>4, <1>0
  <2> QED BY <2>2, <2>3
<1>5. CASE RxTake
  <2>1. PICK n \in Frames :
           /\ n >= firstSeq /\ firstSeq' = n + 1
           /\ \A f \in firstSeq..n : f \in Frames /\ seen[f] # NoReport
           /\ taken' \in Seq({0} \union Pulses)
           /\ \A i \in DOMAIN taken' : /\ firstSeq + i - 1 \in firstSeq..n
                                      /\ taken'[i] = seen[firstSeq + i - 1]
           /\ seen' = [f \in Frames |-> IF f \in firstSeq..n THEN NoReport ELSE seen[f]]
    BY <1>5, Taken
  <2>2. /\ InOrder(taken') /\ InOrder(seen')
        /\ \A q : Below(seen, q) => Below(taken', q) /\ Below(seen', q)
        /\ \A s : Newer(s, seen, firstSeq) => Newer(s, taken', 0) /\ Newer(s, seen', n + 1)
        /\ Newer(taken', seen', n + 1)
    BY <2>1, TakenInOrder
  <2>3. UNCHANGED <<photons, sifted, fired>>
    BY <1>5 DEF RxTake, source, bounds
  <2> QED BY <2>1, <2>2, <2>3
<1>6. CASE VerifyBases \/ VerifyFails
  <2>1. /\ UNCHANGED <<photons, seen, firstSeq, fired>>
        /\ sifted'["bob"] = sifted["bob"] /\ (taken' = taken \/ taken' = <<>>)
    BY <1>6, TwoSides DEF VerifyBases, VerifyFails, DataOK, detector, source
  <2> QED BY <2>1, NothingInOrder
<1>7. CASE PublishStates
  <2>1. /\ UNCHANGED <<photons, seen, firstSeq, fired>> /\ taken' = <<>>
        /\ sifted'["bob"] = sifted["bob"] \o taken
    BY <1>7, TwoSides DEF PublishStates, DataOK, detector, source, bounds
  <2>2. /\ InOrder(sifted["bob"] \o taken) /\ Below(sifted["bob"] \o taken, fired + 1)
        /\ Newer(sifted["bob"] \o taken, seen, firstSeq)
        /\ photons # 0 => Below(sifted["bob"] \o taken, photons)
    BY <1>0, Appended
  <2> QED BY <2>1, <2>2, NothingInOrder
<1> QED BY Effects, <1>1, <1>2, <1>3, <1>4, <1>5, <1>6, <1>7, Zenon DEF DataStep

\* What has happened stays in slips.
LEMMA SlipsGrow ==
  ASSUME Quiet \/ DataStep
  PROVE  slips \subseteq slips'
<1>1. CASE Quiet BY <1>1 DEF Quiet
<1>2. CASE AliceBegins \/ BobBegins \/ TxBegins
  BY <1>2 DEF AliceBegins, BobBegins, TxBegins, Rewind, Slip
<1>3. CASE TxFire \/ TxEmit \/ TxStopDetecting \/ TxEndFrame
  BY <1>3 DEF TxFire, TxEmit, TxStopDetecting, TxEndFrame, bounds, Slip
<1>4. CASE RxTake \/ VerifyBases \/ VerifyFails \/ PublishStates
  BY <1>4 DEF RxTake, VerifyBases, VerifyFails, PublishStates, bounds, Slip
<1> QED BY <1>1, <1>2, <1>3, <1>4 DEF DataStep

\* What is newer from some frame on is so from any later one.
LEMMA NewerLater ==
  ASSUME NEW s, NEW r, DOMAIN r \subseteq Nat, NEW m \in Nat, NEW n \in Nat, m <= n, Newer(s, r, m)
  PROVE  Newer(s, r, n)
BY DEF Newer

\* Alice's answer is in order, after what she has published and before the
\* reports she keeps.
LEMMA BitsInOrder ==
  ASSUME DataOK, ThreadsFit, CanAnswer, InOrder(sent), NEW r,
         r = [f \in Frames |-> IF f \in Asked THEN NoReport ELSE sent[f]],
         Unpublished(firstSeq - Len(taken))
  PROVE  LET n == firstSeq - Len(taken) IN
         /\ InOrder(AlicesBits) /\ InOrder(r)
         /\ Newer(sifted["alice"], AlicesBits, 0)
         /\ Newer(sifted["alice"], r, n) /\ Newer(AlicesBits, r, n)
         /\ \A q : Below(sent, q) => Below(AlicesBits, q) /\ Below(r, q)
<1> USE Numbers
<1> DEFINE n == firstSeq - Len(taken)
<1>1. /\ DOMAIN sent = Frames /\ n \in Nat /\ firstSeq \in Nat
      /\ DOMAIN taken = 1..Len(taken) /\ Len(taken) \in Nat /\ n + Len(taken) = firstSeq
  BY AskedFrames DEF DataOK
<1>2. AlicesBits \in Seq({0} \union Pulses) /\ DOMAIN AlicesBits = DOMAIN taken
  BY BitsAreReports, <1>1
<1>3. \A i \in DOMAIN AlicesBits :
        /\ n + i - 1 \in Frames /\ n + i - 1 \in Asked
        /\ AlicesBits[i] \in Pulses => AlicesBits[i] = sent[n + i - 1] /\ sent[n + i - 1] \in Pulses
  BY <1>2, AskedFrames, BitsAreReports
<1>4. DOMAIN r = Frames /\ \A f \in Frames : r[f] \in Pulses => r[f] = sent[f] /\ f \notin Asked
  OBVIOUS
<1>5. \A f \in Frames : f >= n /\ f \notin Asked => f >= firstSeq
  BY <1>1 DEF Asked
<1> HIDE DEF n
<1>6. InOrder(AlicesBits)
  <2> SUFFICES ASSUME NEW i \in DOMAIN AlicesBits, NEW j \in DOMAIN AlicesBits, i < j,
                      AlicesBits[i] \in Pulses, AlicesBits[j] \in Pulses
               PROVE  AlicesBits[i] < AlicesBits[j]
    BY DEF InOrder
  <2>1. n + i - 1 < n + j - 1
    BY <1>1, <1>2
  <2> QED BY <1>1, <1>3, <2>1 DEF InOrder
<1>7. InOrder(r)
  BY <1>1, <1>4 DEF InOrder
<1>8. Newer(sifted["alice"], AlicesBits, 0)
  <2> SUFFICES ASSUME NEW i \in DOMAIN sifted["alice"], NEW j \in DOMAIN AlicesBits,
                      sifted["alice"][i] \in Pulses, AlicesBits[j] \in Pulses
               PROVE  sifted["alice"][i] < AlicesBits[j]
    BY DEF Newer
  <2>1. n + j - 1 >= n
    BY <1>1, <1>2
  <2>2. Newer(sifted["alice"], sent, n)
    BY DEF Unpublished, n
  <2> QED BY <1>1, <1>3, <2>1, <2>2 DEF Newer
<1>9. Newer(sifted["alice"], r, n)
  <2>1. Newer(sifted["alice"], sent, n)
    BY DEF Unpublished, n
  <2> QED BY <1>1, <1>4, <2>1 DEF Newer
<1>10. Newer(AlicesBits, r, n)
  <2> SUFFICES ASSUME NEW i \in DOMAIN AlicesBits, NEW f \in Frames, f >= n,
                      AlicesBits[i] \in Pulses, r[f] \in Pulses
               PROVE  AlicesBits[i] < r[f]
    BY <1>4 DEF Newer
  <2>1. f >= firstSeq
    BY <1>4, <1>5
  <2>2. n + i - 1 < f
    BY <1>1, <1>2, <2>1
  <2> QED BY <1>1, <1>3, <1>4, <2>2 DEF InOrder
<1>11. ASSUME NEW q, Below(sent, q)
       PROVE  Below(AlicesBits, q) /\ Below(r, q)
  BY <1>1, <1>3, <1>4, <1>11 DEF Below
<1> QED BY <1>6, <1>7, <1>8, <1>9, <1>10, <1>11 DEF n

LEMMA NoneTaken == \A m, s : m = 0 /\ s = <<>> => m - Len(s) = 0
<1>1. Len(<<>>) = 0 OBVIOUS
<1>2. 0 - 0 = 0 OBVIOUS
<1> QED BY <1>1, <1>2, Zenon

\* Every step keeps alice's order while frame numbers stay settled.
LEMMA AliceInOrderStep ==
  ASSUME DataOK, ThreadsFit, FramesFit, AliceInOrder, Next, Settled'
  PROVE  AliceInOrder'
<1> DEFINE n == firstSeq - Len(taken)
<1> USE DEF AliceInOrder
<1>0. /\ fired \in Nat /\ firstSeq \in Nat /\ n \in Nat /\ n <= firstSeq
      /\ aliceFrame \in Nat /\ bobFrame \in Nat /\ DOMAIN sent = Frames /\ DOMAIN sent \subseteq Nat
      /\ sifted["alice"] \in Seq({0} \union Pulses)
  BY Numbers, TwoSides, AskedFrames DEF DataOK
<1>1. CASE Quiet
  BY <1>1 DEF Quiet, data, AtRest, Unpublished
<1>2. CASE AliceBegins
  <2>1. /\ sent' = NoReports /\ aliceFrame' = 0
        /\ UNCHANGED <<tx, rx, report, bobFrame, firstSeq, taken, sifted, fired>>
    BY <1>2 DEF AliceBegins
  <2>2. \A f \in Frames : sent'[f] = NoReport
    BY <2>1 DEF NoReports
  <2>3. tx = "emit" => report' = aliceFrame'
    BY <1>2, <2>1 DEF AliceBegins, Rewind, Slip, Settled
  <2>4. \A m : Newer(sifted'["alice"], sent', m)
    BY <2>1, NothingInOrder
  <2> QED BY <2>1, <2>2, <2>3, <2>4, NothingInOrder DEF Unpublished
<1>3. CASE BobBegins
  <2>1. /\ bobFrame' = 0 /\ UNCHANGED <<tx, aliceFrame, report, sent, taken, sifted, fired>>
        /\ UNCHANGED <<rx, firstSeq>> \/ (rx = "none" /\ rx' = "check" /\ firstSeq' = 0)
    BY <1>3 DEF BobBegins
  <2>2. tx = "none" \/ bobFrame = 0
    BY <1>3 DEF BobBegins, Rewind, Slip, Settled
  <2>3. CASE UNCHANGED <<rx, firstSeq>>
    BY <2>1, <2>2, <2>3 DEF AtRest, Unpublished
  <2>4. CASE rx = "none" /\ rx' = "check" /\ firstSeq' = 0
    <3>1. firstSeq' - Len(taken') = 0
      <4>1. taken' = <<>> /\ firstSeq' = 0 BY <2>1, <2>4 DEF ThreadsFit
      <4> QED BY <4>1, NoneTaken
    <3>2. AtRest' \/ Unpublished(0)'
      BY <2>1, <2>2, <2>4 DEF AtRest, Unpublished
    <3> QED BY <2>1, <2>2, <2>4, <3>1, <3>2 DEF Unpublished
  <2> QED BY <2>1, <2>3, <2>4
<1>4. CASE TxBegins
  <2>1. UNCHANGED data /\ UNCHANGED rx /\ tx = "none" /\ tx' = "check"
    BY <1>4 DEF TxBegins
  <2>2. aliceFrame = bobFrame /\ rx # "verify"
    BY <1>4 DEF TxBegins, Slip, Settled, Unsettled
  <2>3. ASSUME bobFrame = 0, NEW m
        PROVE  Unpublished(m)
    <3>1. \A f \in Frames : sent[f] = NoReport
      BY <2>1, <2>2, <2>3, Numbers
    <3> QED BY <1>0, <3>1, Numbers DEF Unpublished, Newer
  <2>4. Unpublished(n)
    BY <2>3 DEF AtRest
  <2> QED BY <2>1, <2>2, <2>3, <2>4 DEF data, Unpublished
<1>5. CASE TxFire /\ lit
  <2>1. /\ tx = "fire" /\ tx' = "emit" /\ fired' = fired + 1 /\ report' = aliceFrame
        /\ UNCHANGED <<rx, aliceFrame, sent, bobFrame, firstSeq, taken, sifted>>
    BY <1>5 DEF TxFire, receiver
  <2>2. \A s : Below(s, fired + 1) => Below(s, fired' + 1)
    BY <1>0, <2>1, BelowMore
  <2> QED BY <2>1, <2>2 DEF AtRest, Unpublished
<1>6. CASE TxEmit
  <2>1. /\ tx = "emit" /\ tx' = "stopdet" /\ report = aliceFrame
        /\ UNCHANGED <<rx, aliceFrame, bobFrame, firstSeq, taken, sifted, fired>>
    BY <1>6 DEF TxEmit, detector, receiver, bounds
  <2>2. \A f \in Frames : sent[f] # NoReport => f < aliceFrame
    BY <2>1
  <2>3. /\ sent \in [Frames -> {0, NoReport} \union Pulses] /\ aliceFrame \in Frames
        /\ fired \in Pulses
    BY <2>1, Numbers DEF DataOK, FramesFit
  <2>4. sent' = [sent EXCEPT ![aliceFrame] = fired]
    <3>1. sent[aliceFrame] = NoReport
      BY <2>2, <2>3, <1>0
    <3> QED BY <1>6, <2>1, <3>1 DEF TxEmit
  <2>5. /\ InOrder([sent EXCEPT ![aliceFrame] = fired])
        /\ \A q \in Nat : Below(sent, q) /\ fired < q => Below([sent EXCEPT ![aliceFrame] = fired], q)
        /\ \A s, m : Newer(s, sent, m) /\ Below(s, fired) => Newer(s, [sent EXCEPT ![aliceFrame] = fired], m)
    BY <2>1, <2>2, <2>3, Filed
  <2>6. InOrder(sent') /\ Below(sent', fired + 1)
    <3>1. fired + 1 \in Nat /\ fired < fired + 1 BY <1>0
    <3> QED BY <2>4, <2>5, <3>1
  <2>7. \A m : Unpublished(m) => Unpublished(m)'
    BY <2>1, <2>4, <2>5 DEF Unpublished
  <2>8. \A f \in Frames : sent'[f] # NoReport => f < aliceFrame \/ f = aliceFrame
    BY <2>2, <2>4, <2>3
  <2>9. Unpublished(n)' /\ (bobFrame = 0 => rx # "verify" /\ Unpublished(0)')
    BY <2>1, <2>7 DEF AtRest
  <2> QED BY <2>1, <2>6, <2>8, <2>9
<1>7. CASE TxStopDetecting \/ TxEndFrame
  <2>1. /\ tx \in {"stopdet", "end"} /\ tx' \in {"end", "check"}
        /\ UNCHANGED <<rx, sent, firstSeq, taken, sifted, fired>>
        /\ (tx' = "end" /\ tx = "stopdet" /\ aliceFrame' = aliceFrame)
              \/ (tx' = "check" /\ aliceFrame' = aliceFrame + 1)
        /\ bobFrame' = bobFrame \/ bobFrame' = bobFrame + 1
    BY <1>7 DEF TxStopDetecting, TxEndFrame, source, detector, receiver, bounds
  <2>2. \A f \in Frames : sent[f] # NoReport =>
          f < aliceFrame' \/ (f = aliceFrame' /\ tx' \in {"stopdet", "end"})
    BY <1>0, <2>1, Numbers
  <2>3. Unpublished(n) /\ (bobFrame' = 0 => rx # "verify" /\ Unpublished(0))
    BY <1>0, <2>1 DEF AtRest
  <2> QED BY <2>1, <2>2, <2>3 DEF Unpublished
<1>8. CASE RxTake
  <2>1. PICK k \in Frames :
           /\ k >= firstSeq /\ firstSeq' = k + 1
           /\ \A f \in firstSeq..k : f \in Frames /\ seen[f] # NoReport
           /\ Len(taken') = k + 1 - firstSeq
    BY <1>8, Taken
  <2>2. /\ rx = "look" /\ rx' = "verify"
        /\ UNCHANGED <<tx, aliceFrame, report, sent, bobFrame, sifted, fired>>
    BY <1>8 DEF RxTake, source, bounds
  <2>3. n = firstSeq /\ firstSeq' - Len(taken') = firstSeq
    BY <1>0, <2>1, <2>2, Numbers DEF ThreadsFit
  <2>4. bobFrame # 0
    <3>1. firstSeq \in firstSeq..k BY <1>0, <2>1, Numbers
    <3> QED BY <1>0, <2>1, <3>1 DEF FramesFit
  <2>5. Unpublished(firstSeq)
    BY <2>3, <2>4 DEF AtRest
  <2> QED BY <2>2, <2>3, <2>4, <2>5 DEF Unpublished
<1>9. CASE VerifyBases
  <2>1. /\ rx = "verify" /\ CanAnswer
        /\ sent' = [f \in Frames |-> IF f \in Asked THEN NoReport ELSE sent[f]]
        /\ sifted'["alice"] = sifted["alice"] \o AlicesBits
        /\ UNCHANGED <<tx, aliceFrame, report, bobFrame, firstSeq, fired>>
        /\ taken' = taken \/ taken' = <<>>
    BY <1>9, TwoSides DEF VerifyBases, DataOK, detector
  <2>2. Unpublished(n) /\ ~(tx # "none" /\ bobFrame = 0)
    BY <2>1 DEF AtRest
  <2>3. /\ InOrder(AlicesBits) /\ InOrder(sent')
        /\ Newer(sifted["alice"], AlicesBits, 0)
        /\ Newer(sifted["alice"], sent', n) /\ Newer(AlicesBits, sent', n)
        /\ \A q : Below(sent, q) => Below(AlicesBits, q) /\ Below(sent', q)
    BY <2>1, <2>2, BitsInOrder
  <2>4. AlicesBits \in Seq({0} \union Pulses)
    BY <2>1, BitsAreReports
  <2>5. /\ InOrder(sifted["alice"] \o AlicesBits)
        /\ \A p \in Nat : Below(sifted["alice"], p) /\ Below(AlicesBits, p) => Below(sifted["alice"] \o AlicesBits, p)
        /\ Newer(sifted["alice"] \o AlicesBits, sent', n)
    BY <1>0, <2>3, <2>4, Appended
  <2>6. /\ Below(sifted'["alice"], fired + 1) /\ Below(sent', fired + 1)
        /\ tx = "emit" => Below(sifted'["alice"], fired) /\ Below(sent', fired)
    <3>1. fired + 1 \in Nat BY <1>0
    <3> QED BY <1>0, <2>1, <2>3, <2>5, <3>1
  <2>7. Unpublished(firstSeq - Len(taken))'
    <3>1. Newer(sifted'["alice"], sent', n)
      BY <2>1, <2>5
    <3>2. DOMAIN sent' \subseteq Nat
      BY <2>1, Numbers
    <3>3. Newer(sifted'["alice"], sent', firstSeq)
      BY <1>0, <3>1, <3>2, NewerLater
    <3>4. firstSeq' - Len(taken') = n \/ firstSeq' - Len(taken') = firstSeq
      BY <1>0, <2>1
    <3> QED BY <3>1, <3>3, <3>4 DEF Unpublished
  <2>8. \A f \in Frames : sent'[f] # NoReport => sent[f] # NoReport
    BY <2>1
  <2> QED BY <2>1, <2>2, <2>3, <2>5, <2>6, <2>7, <2>8
<1>10. CASE VerifyFails \/ PublishStates
  <2>1. /\ rx' = "check" /\ taken' = <<>> /\ sifted'["alice"] = sifted["alice"]
        /\ UNCHANGED <<tx, aliceFrame, report, sent, bobFrame, firstSeq, fired>>
    BY <1>10, TwoSides DEF VerifyFails, PublishStates, DataOK, source, detector, bounds
  <2>2. Unpublished(n) => Unpublished(firstSeq)
    BY <1>0, NewerLater DEF Unpublished
  <2>3. firstSeq' - Len(taken') = firstSeq
    BY <1>0, <2>1
  <2>4. AtRest => AtRest'
    BY <2>1 DEF AtRest
  <2> QED BY <2>1, <2>2, <2>3, <2>4 DEF Unpublished
<1> QED BY Effects, <1>1, <1>2, <1>3, <1>4, <1>5, <1>6, <1>7, <1>8, <1>9, <1>10, Zenon DEF DataStep

-----------------------------------------------------------------------------
(* What the two devices hold of the same frame.                             *)

\* Every step keeps the numbers of frames together, if nothing slips.
LEMMA FramesAgreeStep ==
  ASSUME DataOK, ThreadsFit, FramesFit, AliceInOrder, FramesAgree, Next, slips' = {}
  PROVE  FramesAgree'
<1> USE DEF FramesAgree
<1>0. aliceFrame \in Nat /\ bobFrame \in Nat /\ firstSeq \in Nat
  BY Numbers DEF DataOK
<1>1. CASE Quiet
  BY <1>1 DEF Quiet, data
<1>2. CASE AliceBegins
  <2>1. tx = "none" \/ aliceFrame = 0
    BY <1>2 DEF AliceBegins, Rewind, Slip
  <2> QED BY <1>2, <2>1 DEF AliceBegins
<1>3. CASE BobBegins
  <2>1. tx = "none" \/ bobFrame = 0
    BY <1>3 DEF BobBegins, Rewind, Slip
  <2> QED BY <1>3, <2>1 DEF BobBegins
<1>4. CASE TxBegins
  <2>1. aliceFrame = bobFrame /\ rx # "verify"
    BY <1>4 DEF TxBegins, Unsettled, Slip
  <2> QED BY <1>4, <2>1 DEF TxBegins, data
<1>5. CASE (TxFire /\ lit) \/ TxEmit
  BY <1>5 DEF TxFire, TxEmit, detector, receiver, bounds
<1>6. CASE TxStopDetecting
  BY <1>0, <1>6 DEF TxStopDetecting, source, receiver, Slip
<1>7. CASE TxEndFrame
  BY <1>7 DEF TxEndFrame, detector, receiver, bounds
<1>8. CASE RxTake
  <2>1. PICK k \in Frames : k >= firstSeq /\ firstSeq' = k + 1 /\ \A f \in firstSeq..k : seen[f] # NoReport
    BY <1>8, Taken
  <2>2. k \in Nat /\ k < bobFrame
    BY <1>0, <2>1, Numbers DEF FramesFit
  <2>3. UNCHANGED <<tx, aliceFrame, bobFrame>>
    BY <1>8 DEF RxTake, source
  <2> QED BY <1>0, <2>1, <2>2, <2>3
<1>9. CASE VerifyBases \/ VerifyFails \/ PublishStates
  BY <1>9 DEF VerifyBases, VerifyFails, PublishStates, source, detector
<1> QED BY Effects, <1>1, <1>2, <1>3, <1>4, <1>5, <1>6, <1>7, <1>8, <1>9, Zenon DEF DataStep

\* Every step keeps the pulse trains of a frame the same, if nothing slips.
LEMMA ReportsAgreeStep ==
  ASSUME DataOK, ThreadsFit, FramesFit, AliceInOrder, FramesAgree, ReportsAgree, Next, slips' = {}
  PROVE  ReportsAgree'
<1> USE DEF ReportsAgree
<1>0. /\ aliceFrame \in Frames /\ bobFrame \in Frames /\ firstSeq \in Nat /\ fired \in Nat
      /\ sent \in [Frames -> Pulses \union {NoReport}]
      /\ seen \in [Frames -> {0, NoReport} \union Pulses]
      /\ \A f \in Frames : f \in Nat
  BY Numbers DEF DataOK
<1>1. CASE Quiet
  BY <1>1 DEF Quiet, data
<1>2. CASE AliceBegins
  <2>1. \A f \in Frames : sent'[f] = NoReport
    BY <1>2 DEF AliceBegins, NoReports
  <2>2. UNCHANGED <<tx, rx, photons, seen, firstSeq, taken, fired>> /\ aliceFrame' \in Frames
    BY <1>2, Numbers DEF AliceBegins
  <2>3. \A i \in DOMAIN taken : firstSeq - Len(taken) + i - 1 \in Frames
    BY AskedFrames
  <2> QED BY <2>1, <2>2, <2>3
<1>3. CASE BobBegins
  <2>1. \A f \in Frames : seen'[f] \notin Pulses
    BY <1>3, Numbers DEF BobBegins, NoReports
  <2>2. /\ photons' = 0 /\ UNCHANGED <<tx, aliceFrame, sent, taken, fired>>
        /\ UNCHANGED <<rx, firstSeq>> \/ rx' = "check"
    BY <1>3 DEF BobBegins
  <2> QED BY <2>1, <2>2
<1>4. CASE TxBegins
  BY <1>4 DEF TxBegins, data
<1>5. CASE TxFire /\ lit
  <2>1. /\ tx = "fire" /\ tx' = "emit" /\ fired' = fired + 1
        /\ photons' = fired + 1 \/ photons' = photons
        /\ UNCHANGED <<rx, aliceFrame, sent, seen, firstSeq, taken>>
    BY <1>5 DEF TxFire, receiver
  <2> QED BY <2>1
<1>6. CASE TxEmit
  <2>1. /\ tx = "emit" /\ tx' = "stopdet" /\ report = aliceFrame /\ bobFrame = aliceFrame
        /\ UNCHANGED <<rx, aliceFrame, photons, seen, firstSeq, taken, fired>>
    BY <1>6 DEF TxEmit, detector, receiver, bounds, FramesAgree, AliceInOrder
  <2>2. sent[aliceFrame] = NoReport /\ seen[aliceFrame] = NoReport
    BY <1>0, <2>1 DEF AliceInOrder, FramesFit
  <2>3. sent' = [sent EXCEPT ![aliceFrame] = fired]
    BY <1>6, <2>1, <2>2 DEF TxEmit
  <2>4. \A f \in Frames : seen[f] \in Pulses /\ sent'[f] # NoReport => seen[f] = sent'[f]
    BY <1>0, <2>2, <2>3, Numbers
  <2>5. ASSUME rx = "verify", NEW i \in DOMAIN taken, taken[i] \in Pulses,
               sent'[firstSeq - Len(taken) + i - 1] # NoReport
        PROVE  taken[i] = sent'[firstSeq - Len(taken) + i - 1]
    <3> DEFINE f == firstSeq - Len(taken) + i - 1
    <3>1. f \in Frames /\ f \in Asked
      BY AskedFrames
    <3>2. firstSeq <= aliceFrame
      BY <2>1, <2>5 DEF FramesAgree
    <3>3. f # aliceFrame
      BY <1>0, <3>1, <3>2 DEF Asked
    <3>4. sent'[f] = sent[f]
      BY <1>0, <2>3, <3>1, <3>3
    <3> QED BY <2>5, <3>4
  <2>6. sent'[aliceFrame] = fired
    BY <1>0, <2>3
  <2> QED BY <2>1, <2>4, <2>5, <2>6
<1>7. CASE TxStopDetecting
  <2>1. /\ tx = "stopdet" /\ tx' = "end" /\ bobFrame = aliceFrame
        /\ UNCHANGED <<rx, aliceFrame, sent, firstSeq, taken, fired>> /\ photons' = 0
    BY <1>7 DEF TxStopDetecting, source, receiver, Slip, FramesAgree
  <2>2. seen[bobFrame] = NoReport
    BY <1>0 DEF FramesFit
  <2>3. seen' = [seen EXCEPT ![bobFrame] = photons]
    BY <1>7, <2>2 DEF TxStopDetecting, Slip
  <2>4. \A f \in Frames : seen'[f] \in Pulses /\ sent[f] # NoReport => seen'[f] = sent[f]
    BY <1>0, <2>1, <2>3, Numbers
  <2> QED BY <2>1, <2>4
<1>8. CASE TxEndFrame
  BY <1>8 DEF TxEndFrame, detector, receiver, bounds
<1>9. CASE RxTake
  <2>1. PICK k \in Frames :
           /\ firstSeq' = k + 1 /\ k >= firstSeq /\ Len(taken') = k + 1 - firstSeq
           /\ \A f \in firstSeq..k : f \in Frames
           /\ \A i \in DOMAIN taken' : /\ firstSeq + i - 1 \in firstSeq..k
                                      /\ taken'[i] = seen[firstSeq + i - 1]
           /\ seen' = [f \in Frames |-> IF f \in firstSeq..k THEN NoReport ELSE seen[f]]
    BY <1>9, Taken
  <2>2. UNCHANGED <<tx, aliceFrame, photons, sent, fired>>
    BY <1>9 DEF RxTake, source, bounds
  <2>3. firstSeq' - Len(taken') = firstSeq
    BY <1>0, <2>1
  <2>4. \A f \in Frames : seen'[f] \in Pulses => seen'[f] = seen[f]
    BY <2>1, Numbers
  <2>5. \A i \in DOMAIN taken' :
          taken'[i] \in Pulses /\ sent[firstSeq + i - 1] # NoReport => taken'[i] = sent[firstSeq + i - 1]
    BY <2>1
  <2> QED BY <2>2, <2>3, <2>4, <2>5
<1>10. CASE VerifyBases
  <2>1. /\ rx' # "verify" /\ UNCHANGED <<tx, aliceFrame, photons, seen, fired>>
        /\ \A f \in Frames : sent'[f] = NoReport \/ sent'[f] = sent[f]
    BY <1>10 DEF VerifyBases, detector
  <2> QED BY <1>0, <2>1
<1>11. CASE VerifyFails \/ PublishStates
  BY <1>11 DEF VerifyFails, PublishStates, source, detector, bounds
<1> QED BY Effects, <1>1, <1>2, <1>3, <1>4, <1>5, <1>6, <1>7, <1>8, <1>9, <1>10, <1>11, Zenon
        DEF DataStep

\* Every step keeps what is published the same, if nothing slips.
LEMMA SiftedAgreeStep ==
  ASSUME DataOK, ThreadsFit, ReportsAgree, SiftedAgree, Next, slips' = {}
  PROVE  SiftedAgree'
<1> USE TwoSides DEF SiftedAgree
<1>1. CASE Quiet
  BY <1>1 DEF Quiet, data
<1>2. CASE AliceBegins \/ BobBegins \/ TxBegins
  <2>1. /\ UNCHANGED <<taken, sifted>>
        /\ UNCHANGED rx \/ (rx # "answered" /\ rx' # "answered")
    BY <1>2 DEF AliceBegins, BobBegins, TxBegins, data
  <2> QED BY <2>1
<1>3. CASE (TxFire /\ lit) \/ TxEmit \/ TxStopDetecting \/ TxEndFrame
  BY <1>3 DEF TxFire, TxEmit, TxStopDetecting, TxEndFrame, receiver
<1>4. CASE RxTake \/ VerifyFails
  BY <1>4 DEF RxTake, VerifyFails
<1>5. CASE VerifyBases
  <2>1. /\ rx = "verify" /\ CanAnswer /\ rx' = "answered" /\ UNCHANGED taken
        /\ sifted'["alice"] = sifted["alice"] \o AlicesBits /\ sifted'["bob"] = sifted["bob"]
    BY <1>5 DEF VerifyBases, Slip, DataOK
  <2>2. AlicesBits = taken
    <3>1. \A i \in DOMAIN taken : AlicesBits[i] = taken[i]
      <4>1. ASSUME NEW i \in DOMAIN taken
            PROVE  AlicesBits[i] = taken[i]
        <5> DEFINE f == firstSeq - Len(taken) + i - 1
        <5>1. taken[i] = 0 \/ taken[i] \in Pulses
          BY DEF DataOK
        <5>2. sent[f] \in Pulses /\ AlicesBits[i] = IF taken[i] = 0 THEN 0 ELSE sent[f]
          BY <2>1, BitsAreReports
        <5>3. taken[i] \in Pulses => taken[i] = sent[f]
          BY <2>1, <5>2, Numbers DEF ReportsAgree
        <5> QED BY <5>1, <5>2, <5>3
      <4> QED BY <4>1
    <3>2. AlicesBits \in Seq({0} \union Pulses) /\ Len(AlicesBits) = Len(taken)
      BY <2>1, BitsAreReports
    <3> QED BY <3>1, <3>2 DEF DataOK
  <2> QED BY <2>1, <2>2
<1>6. CASE PublishStates
  BY <1>6 DEF PublishStates, DataOK
<1> QED BY Effects, <1>1, <1>2, <1>3, <1>4, <1>5, <1>6, Zenon DEF DataStep

-----------------------------------------------------------------------------
(* The theorems.                                                            *)

\* Inv holds at the start.
LEMMA InvInit == Init => Inv
<1> SUFFICES ASSUME Init PROVE Inv
  OBVIOUS
<1> USE Numbers
<1>1. ControlOK
  <2>1. <<>> \in Seq(Step) BY ShortSequences
  <2>2. initiator \in Sides /\ ctl \in [Sides -> Seq(Step)] /\ channel \subseteq Sides
    BY <2>1, DeviceAssumption DEF Init, Sides
  <2>3. /\ state \in [Workers -> {"NotStarted", "Started", "Stop"}]
        /\ frameLimit \in FrameLimits /\ frameCount \in Nat
        /\ sessions \in 0..MaxSessions /\ lost \in 0..MaxLost
    BY DEF Init
  <2> QED BY <2>2, <2>3 DEF Init, ControlOK
<1>2. DataOK
  <2>1. <<>> \in Seq({0} \union Pulses) BY ShortSequences
  <2> QED BY <2>1 DEF Init, DataOK, NoReports
<1>3. ThreadsFit /\ FramesFit
  BY TwoSides DEF Init, ThreadsFit, FramesFit, NoReports
<1>4. sifted["bob"] = <<>> /\ sifted["alice"] = <<>>
  BY TwoSides DEF Init
<1>5. BobInOrder
  BY <1>4, NothingInOrder DEF Init, BobInOrder
<1>6. AliceInOrder
  BY <1>4, NothingInOrder DEF Init, AliceInOrder, AtRest, NoReports
<1>7. FramesAgree /\ ReportsAgree /\ SiftedAgree
  BY <1>4 DEF Init, FramesAgree, ReportsAgree, SiftedAgree, NoReports
<1> QED BY <1>1, <1>2, <1>3, <1>5, <1>6, <1>7, Types DEF Inv

\* Every step keeps it.
LEMMA InvStep == Inv /\ [Next]_vars => Inv'
<1> SUFFICES ASSUME Inv, [Next]_vars PROVE Inv'
  OBVIOUS
<1>1. CASE Next
  <2>1. ControlOK /\ DataOK /\ ThreadsFit /\ FramesFit /\ BobInOrder
    BY Types DEF Inv
  <2>2. ControlOK' /\ DataOK'
    BY <1>1, <2>1, ControlOKStep, DataOKStep
  <2>3. ThreadsFit' /\ FramesFit' /\ BobInOrder'
    BY <1>1, <2>1, ThreadsFitStep, FramesFitStep, BobInOrderStep
  <2>4. slips \subseteq slips'
    BY <1>1, <2>1, Effects, SlipsGrow
  <2>5. ASSUME Settled'
        PROVE  AliceInOrder'
    <3>1. Settled BY <2>4, <2>5 DEF Settled
    <3> QED BY <1>1, <2>1, <2>5, <3>1, AliceInOrderStep DEF Inv
  <2>6. ASSUME slips' = {}
        PROVE  FramesAgree' /\ ReportsAgree' /\ SiftedAgree'
    <3>1. slips = {} /\ Settled BY <2>4, <2>6 DEF Settled
    <3>2. AliceInOrder /\ FramesAgree /\ ReportsAgree /\ SiftedAgree BY <3>1 DEF Inv
    <3> QED BY <1>1, <2>1, <2>6, <3>2, FramesAgreeStep, ReportsAgreeStep, SiftedAgreeStep
  <2>7. TypeOK' <=> ControlOK' /\ DataOK'
    BY DEF TypeOK, ControlOK, DataOK
  <2> QED BY <2>2, <2>3, <2>5, <2>6, <2>7 DEF Inv
<1>2. CASE UNCHANGED vars
  <2> USE <1>2 DEF vars, control, threads, limit, source, detector, receiver, bounds
  <2>1. TypeOK' /\ ThreadsFit' /\ FramesFit'
    BY DEF Inv, TypeOK, ThreadsFit, FramesFit
  <2>2. BobInOrder' /\ (Settled => AliceInOrder)'
    BY DEF Inv, BobInOrder, Settled, AliceInOrder, AtRest, Unpublished
  <2>3. (slips = {} => FramesAgree /\ ReportsAgree /\ SiftedAgree)'
    BY DEF Inv, FramesAgree, ReportsAgree, SiftedAgree
  <2> QED BY <2>1, <2>2, <2>3 DEF Inv
<1> QED BY <1>1, <1>2

LEMMA Invariant == Spec => []Inv
BY InvInit, InvStep, PTL DEF Spec

\* Types.
THEOREM SessionTypeCorrect == Spec => []TypeOK
<1>1. Inv => TypeOK BY DEF Inv
<1> QED BY Invariant, <1>1, PTL

\* What each device publishes is in the order in which it was fired, however
\* often sessions are run over each other and ended, and whatever calls are lost;
\* at alice's device as long as frame numbers are settled (Receiver::PublishStates,
\* Verifier::PublishStates).
THEOREM SiftingKeepsOrder == Spec => []SiftedInOrder
<1>1. ASSUME Inv
      PROVE  SiftedInOrder
  <2>1. /\ InOrder(sifted["bob"])
        /\ Settled => InOrder(sifted["alice"])
        /\ \A x \in Sides : sifted[x] \in Seq({0} \union Pulses)
    BY <1>1 DEF Inv, BobInOrder, AliceInOrder, TypeOK
  <2>2. ASSUME NEW x \in Sides, x = "alice" => Settled,
               NEW i \in DOMAIN sifted[x], NEW j \in DOMAIN sifted[x], i < j,
               sifted[x][i] # 0, sifted[x][j] # 0
        PROVE  sifted[x][i] < sifted[x][j]
    <3>1. InOrder(sifted[x])
      <4>1. CASE x = "alice"
        <5>1. Settled BY <4>1, <2>2
        <5>2. InOrder(sifted["alice"]) BY <5>1, <2>1
        <5>3. sifted[x] = sifted["alice"] BY <4>1
        <5> QED BY <5>2, <5>3, Zenon
      <4>2. CASE x = "bob"
        <5>1. InOrder(sifted["bob"]) BY <2>1
        <5>2. sifted[x] = sifted["bob"] BY <4>2
        <5> QED BY <5>1, <5>2, Zenon
      <4> QED BY <4>1, <4>2, TwoSides, Zenon
    <3>2. sifted[x][i] \in Pulses /\ sifted[x][j] \in Pulses BY <2>1, <2>2
    <3> QED BY <2>2, <3>1, <3>2 DEF InOrder
  <2> QED BY <2>2, Zenon DEF SiftedInOrder, Settled
<1> QED BY Invariant, <1>1, PTL

\* The two devices publish the same bits in the same order, alice ahead by one
\* answer at most, unless one of the four events of slips has happened.
THEOREM SiftingStaysInStep == Spec => []InStep
<1>1. ASSUME Inv
      PROVE  InStep
  <2> SUFFICES ASSUME slips = {}
               PROVE  /\ IsPrefix(sifted["bob"], sifted["alice"])
                      /\ rx # "answered" => sifted["bob"] = sifted["alice"]
    BY DEF InStep
  <2>1. /\ SiftedAgree /\ sifted["bob"] \in Seq({0} \union Pulses)
        /\ taken \in Seq({0} \union Pulses)
    BY <1>1, TwoSides DEF Inv, TypeOK
  <2>2. IsPrefix(sifted["bob"], sifted["bob"] \o taken)
    BY <2>1 DEF IsPrefix
  <2>3. IsPrefix(sifted["bob"], sifted["bob"])
    BY <2>1 DEF IsPrefix
  <2> QED BY <2>1, <2>2, <2>3 DEF SiftedAgree
<1> QED BY Invariant, <1>1, PTL
=============================================================================
