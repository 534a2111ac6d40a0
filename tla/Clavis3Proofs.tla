----------------------------- MODULE Clavis3Proofs -----------------------------
(***************************************************************************)
(* Theorems about the drivers of two Clavis 3 devices, for any number of     *)
(* keys, calls, sessions and faults.                                         *)
(***************************************************************************)
EXTENDS Clavis3, SequenceTheorems, TLAPS

\* While nothing is out of step only alice's present call is with bob, and it is
\* for what she has read.
OneCall ==
  /\ reader["alice"] = "released" => call \in Calls /\ handler[call].ids = batch
  /\ ~outOfStep => \A c \in Calls : handler[c].at \in {"waiting", "ok"} =>
                     reader["alice"] = "released" /\ c = call

IInv == TypeOK /\ OneCall /\ ReleasedInStep

-----------------------------------------------------------------------------
(* The threads of the servers.                                               *)

\* The types of what a session's threads keep, and of what goes between them.
SessionTypes ==
  /\ control \in [Ends -> {"idle", "calling", "called", "joining", "telling", "told"}]
  /\ ending \subseteq Ends /\ aborted \subseteq Ends
  /\ reader \in [Ends -> {"off", "reading", "release", "released", "done"}]
  /\ keepReadingKeys \in [Ends -> BOOLEAN]
  /\ starts \in 0..MaxStarts /\ ended \in BOOLEAN

\* A step which is none of alice's reader's, and changes no key.
Aside ==
  /\ UNCHANGED <<sockets, release>> /\ faults' \in 0..MaxFaults
  /\ \/ reader'["alice"] = reader["alice"]
     \/ /\ reader["alice"] \notin {"release", "released"}
        /\ reader'["alice"] \notin {"release", "released"}

LEMMA AsideStep ==
  ASSUME IInv, Aside, SessionTypes'
  PROVE  IInv'
<1>1. TypeOK'
  <2>1. (batch' # <<>>) = (reader'["alice"] \in {"release", "released"})
    <3>1. (reader["alice"] \in {"release", "released"}) = (reader'["alice"] \in {"release", "released"})
      BY DEF Aside
    <3> QED BY <3>1 DEF IInv, TypeOK, Aside, release
  <2> QED BY <2>1 DEF IInv, TypeOK, Aside, SessionTypes, release, sockets
<1>2. (reader["alice"] = "released") = (reader'["alice"] = "released")
  BY DEF Aside
<1>3. OneCall' /\ ReleasedInStep'
  BY <1>2 DEF IInv, OneCall, ReleasedInStep, BeingAnswered, Aside, release
<1> QED BY <1>1, <1>3 DEF IInv

\* A fault is counted, or none.
LEMMA Faults == TypeOK /\ (Fault \/ UNCHANGED faults) => faults' \in 0..MaxFaults
  BY BoundAssumption DEF TypeOK, Fault

LEMMA StartReaderTypes ==
  ASSUME SessionTypes, NEW x \in Ends, StartReader(x)
  PROVE  /\ reader' \in [Ends -> {"off", "reading", "release", "released", "done"}]
         /\ keepReadingKeys' \in [Ends -> BOOLEAN] /\ aborted' \subseteq Ends
         /\ \/ reader'["alice"] = reader["alice"]
            \/ /\ reader["alice"] \notin {"release", "released"}
               /\ reader'["alice"] \notin {"release", "released"}
<1>1. CASE reader[x] = "off" BY <1>1 DEF SessionTypes, StartReader, Ends
<1>2. CASE reader[x] # "off" BY <1>2 DEF SessionTypes, StartReader
<1> QED BY <1>1, <1>2

LEMMA ControlSteps ==
  ASSUME IInv, NEW x \in Ends,
         ControlStep(x) \/ StartSession(x) \/ EndSession(x) \/ StopReading(x)
  PROVE  IInv'
<1>1. SessionTypes /\ TypeOK BY DEF IInv, TypeOK, SessionTypes
<1>2. Other(x) \in Ends BY DEF Ends, Other
<1>3. \A y : y \in {"idle", "calling", "called", "joining", "telling", "told"} =>
        [control EXCEPT ![x] = y] \in [Ends -> {"idle", "calling", "called", "joining", "telling", "told"}]
  BY <1>1 DEF SessionTypes
<1>4. CASE SessionStarting(x)
  <2>1. Aside BY <1>1, <1>2, <1>4, StartReaderTypes, Faults DEF SessionStarting, Aside
  <2>2. SessionTypes'
    BY <1>1, <1>2, <1>3, <1>4, StartReaderTypes DEF SessionStarting, SessionTypes, ControlGoes
  <2> QED BY <2>1, <2>2, AsideStep
<1>5. CASE SessionStartingFails(x)
  <2>1. Aside BY <1>1, <1>5, Faults DEF SessionStartingFails, Aside
  <2>2. SessionTypes' BY <1>1, <1>3, <1>5 DEF SessionStartingFails, SessionTypes, ControlGoes
  <2> QED BY <2>1, <2>2, AsideStep
<1>6. CASE SessionStarted(x)
  <2>1. Aside BY <1>1, <1>6, StartReaderTypes, Faults DEF SessionStarted, Aside
  <2>2. SessionTypes'
    BY <1>1, <1>3, <1>6, StartReaderTypes DEF SessionStarted, SessionTypes, ControlGoes
  <2> QED BY <2>1, <2>2, AsideStep
<1>7. ASSUME Joinable(x), ReaderJoined(x)
      PROVE  /\ reader' \in [Ends -> {"off", "reading", "release", "released", "done"}]
             /\ \/ reader'["alice"] = reader["alice"]
                \/ /\ reader["alice"] \notin {"release", "released"}
                   /\ reader'["alice"] \notin {"release", "released"}
  BY <1>1, <1>7 DEF Joinable, ReaderJoined, SessionTypes, Ends
<1>8. CASE EndSessionJoined(x)
  <2>1. Aside BY <1>1, <1>7, <1>8, Faults DEF EndSessionJoined, Aside
  <2>2. SessionTypes' BY <1>1, <1>3, <1>7, <1>8 DEF EndSessionJoined, SessionTypes, ControlGoes
  <2> QED BY <2>1, <2>2, AsideStep
<1>9. CASE SessionEnding(x)
  <2>1. Aside BY <1>1, <1>9, Faults DEF SessionEnding, Aside
  <2>2. SessionTypes' BY <1>1, <1>2, <1>3, <1>9 DEF SessionEnding, SessionTypes, ControlGoes
  <2> QED BY <2>1, <2>2, AsideStep
<1>10. CASE SessionEndingJoined(x)
  <2>1. Aside BY <1>1, <1>7, <1>10, Faults DEF SessionEndingJoined, Aside
  <2>2. SessionTypes' BY <1>1, <1>7, <1>10 DEF SessionEndingJoined, SessionTypes
  <2> QED BY <2>1, <2>2, AsideStep
<1>11. CASE SessionEnded(x)
  <2>1. Aside BY <1>1, <1>11, Faults DEF SessionEnded, Aside
  <2>2. SessionTypes' BY <1>1, <1>3, <1>11 DEF SessionEnded, SessionTypes, ControlGoes
  <2> QED BY <2>1, <2>2, AsideStep
<1>12. CASE StartSession(x)
  <2>1. Aside BY <1>1, <1>12, Faults DEF StartSession, Aside
  <2>2. SessionTypes'
    BY <1>1, <1>3, <1>12, BoundAssumption DEF StartSession, SessionTypes, ControlGoes
  <2> QED BY <2>1, <2>2, AsideStep
<1>13. CASE EndSession(x)
  <2>1. Aside BY <1>1, <1>13, Faults DEF EndSession, Aside
  <2>2. SessionTypes' BY <1>1, <1>3, <1>13 DEF EndSession, SessionTypes, ControlGoes
  <2> QED BY <2>1, <2>2, AsideStep
<1>14. CASE StopReading(x)
  <2>1. Aside BY <1>1, <1>14, Faults DEF StopReading, Aside, ReaderGoes, SessionTypes, Ends
  <2>2. SessionTypes' BY <1>1, <1>14 DEF StopReading, SessionTypes, ReaderGoes, SameSession
  <2> QED BY <2>1, <2>2, AsideStep
<1> QED BY <1>4, <1>5, <1>6, <1>8, <1>9, <1>10, <1>11, <1>12, <1>13, <1>14 DEF ControlStep

-----------------------------------------------------------------------------
(* Keys between the devices and the readers.                                 *)

LEMMA DeviceStep ==
  ASSUME IInv, NEW x \in Ends, DeviceMakes(x)
  PROVE  IInv'
<1>1. TypeOK BY DEF IInv
<1>2. made[x] + 1 \in Keys /\ made[x] + 1 \in 0..MaxKeys
  BY <1>1, BoundAssumption DEF DeviceMakes, TypeOK, Keys
<1>3. made' \in [Ends -> 0..MaxKeys] BY <1>1, <1>2 DEF DeviceMakes, TypeOK
<1>4. queue' \in [Ends -> Seq(Keys)]
  <2>1. Append(queue[x], made[x] + 1) \in Seq(Keys) BY <1>1, <1>2 DEF TypeOK
  <2> QED BY <1>1, <2>1 DEF DeviceMakes, TypeOK
<1>5. faults' \in 0..MaxFaults BY <1>1, Faults DEF DeviceMakes
<1>6. TypeOK' BY <1>1, <1>3, <1>4, <1>5 DEF DeviceMakes, TypeOK, session, release
<1> QED BY <1>6 DEF IInv, DeviceMakes, OneCall, ReleasedInStep, BeingAnswered, session, release

LEMMA AliceReadsStep ==
  ASSUME IInv, AliceReads
  PROVE  IInv'
<1>1. TypeOK BY DEF IInv
<1>2. reader' = [reader EXCEPT !["alice"] = "release"] /\ reader["alice"] = "reading" /\ "alice" \in Ends
  BY DEF AliceReads, Reads, ReaderGoes, Ends
<1>3. batch' \in Seq(Keys) /\ batch' # <<>>
  <2>1. batch \in Seq(Keys) /\ queue["alice"] \in Seq(Keys) /\ queue["alice"] # <<>>
    BY <1>1, <1>2 DEF TypeOK, AliceReads, Reads
  <2>2. batch' = batch \o queue["alice"] BY DEF AliceReads
  <2> QED BY <2>1, <2>2, ConcatProperties, ConcatEqualIffEmpty
<1>4. queue' \in [Ends -> Seq(Keys)]
  <2>1. <<>> \in Seq(Keys) OBVIOUS
  <2> QED BY <1>1, <2>1 DEF TypeOK, AliceReads
<1>5. reader' \in [Ends -> {"off", "reading", "release", "released", "done"}] /\ reader'["alice"] = "release"
  BY <1>1, <1>2 DEF TypeOK
<1>6. TypeOK' BY <1>1, <1>3, <1>4, <1>5 DEF AliceReads, TypeOK, SameSession
<1>7. OneCall' /\ ReleasedInStep'
  BY <1>2, <1>5 DEF IInv, AliceReads, SameSession, OneCall, ReleasedInStep, BeingAnswered
<1> QED BY <1>6, <1>7 DEF IInv

LEMMA BobReadsStep ==
  ASSUME IInv, BobReads
  PROVE  IInv'
<1>1. TypeOK /\ "bob" \in Ends BY DEF IInv, Ends
<1>2. queue["bob"] \in Seq(Keys) BY <1>1 DEF TypeOK
<1>3. ToSet(queue["bob"]) \subseteq Keys BY <1>2 DEF ToSet
<1>4. queue' \in [Ends -> Seq(Keys)]
  <2>1. <<>> \in Seq(Keys) OBVIOUS
  <2> QED BY <1>1, <2>1 DEF TypeOK, BobReads
<1>5. TypeOK' BY <1>1, <1>3, <1>4 DEF BobReads, TypeOK, session
<1> QED BY <1>5 DEF IInv, BobReads, OneCall, ReleasedInStep, BeingAnswered, session

-----------------------------------------------------------------------------
(* A call of ReleaseKeys.                                                    *)

LEMMA CallStep ==
  ASSUME IInv, CallReleaseKeys
  PROVE  IInv'
<1>1. TypeOK /\ "alice" \in Ends BY DEF IInv, Ends
<1>2. PICK c : c = call + 1 OBVIOUS
<1>3. PICK h : h = [at |-> "waiting", ids |-> batch, got |-> <<>>] OBVIOUS
<1>4. /\ reader["alice"] = "release" /\ reader' = [reader EXCEPT !["alice"] = "released"]
      /\ call < MaxCalls /\ call' = c /\ handler' = [handler EXCEPT ![c] = h]
      /\ SameSession /\ UNCHANGED <<sockets, batch, buffered, emitted, outOfStep, faults>>
  BY <1>2, <1>3 DEF CallReleaseKeys, ReaderGoes
<1>5. c \in Calls /\ c \in 0..MaxCalls
  BY <1>1, <1>2, <1>4, BoundAssumption DEF TypeOK, Calls
<1>6. h \in [at : {"none", "waiting", "ok", "failed", "answered"}, ids : Seq(Keys), got : Seq(Keys)]
  BY <1>1, <1>3 DEF TypeOK
<1>7. /\ handler' \in [Calls -> [at : {"none", "waiting", "ok", "failed", "answered"},
                                 ids : Seq(Keys), got : Seq(Keys)]]
      /\ handler'[c] = h /\ \A d \in Calls \ {c} : handler'[d] = handler[d]
  BY <1>1, <1>4, <1>5, <1>6 DEF TypeOK
<1>8. reader' \in [Ends -> {"off", "reading", "release", "released", "done"}] /\ reader'["alice"] = "released"
  BY <1>1, <1>4 DEF TypeOK
<1>9. TypeOK' BY <1>1, <1>4, <1>5, <1>7, <1>8 DEF TypeOK, SameSession, sockets
<1>10. OneCall'
  BY <1>3, <1>4, <1>5, <1>7, <1>8 DEF IInv, OneCall
<1>11. ReleasedInStep'
  <2>1. BeingAnswered = <<>> BY <1>4 DEF BeingAnswered
  <2>2. BeingAnswered' = <<>> BY <1>3, <1>4, <1>7 DEF BeingAnswered
  <2> QED BY <1>4, <2>1, <2>2 DEF IInv, ReleasedInStep
<1> QED BY <1>9, <1>10, <1>11 DEF IInv

\* What alice's reader does with the answer keeps its types.
LEMMA EmitTypes ==
  ASSUME TypeOK, NEW ok, AliceEmits(ok)
  PROVE  /\ reader' \in [Ends -> {"off", "reading", "release", "released", "done"}]
         /\ reader'["alice"] = "reading" /\ batch' = <<>> /\ batch' \in Seq(Keys)
         /\ emitted' \in [Ends -> Seq(Keys)] /\ emitted'["bob"] = emitted["bob"]
         /\ emitted'["alice"] = IF ok THEN emitted["alice"] \o batch ELSE emitted["alice"]
<1>1. "alice" \in Ends /\ "bob" \in Ends BY DEF Ends
<1>2. reader' \in [Ends -> {"off", "reading", "release", "released", "done"}] /\ reader'["alice"] = "reading"
  BY <1>1 DEF AliceEmits, ReaderGoes, TypeOK
<1>3. batch' = <<>> /\ batch' \in Seq(Keys) BY DEF AliceEmits
<1>4. emitted["alice"] \o batch \in Seq(Keys)
  BY <1>1, ConcatProperties DEF TypeOK
<1>5. /\ emitted' \in [Ends -> Seq(Keys)] /\ emitted'["bob"] = emitted["bob"]
      /\ emitted'["alice"] = IF ok THEN emitted["alice"] \o batch ELSE emitted["alice"]
  BY <1>1, <1>4 DEF AliceEmits, TypeOK
<1> QED BY <1>2, <1>3, <1>5

LEMMA AnsweredStep ==
  ASSUME IInv, Answered
  PROVE  IInv'
<1>1. TypeOK /\ OneCall BY DEF IInv
<1>2. PICK ok : ok = (handler[call].at = "ok") OBVIOUS
<1>3. /\ reader["alice"] = "released" /\ handler[call].at \in {"ok", "failed"} /\ AliceEmits(ok)
      /\ handler' = [handler EXCEPT ![call] = [NoCall EXCEPT !.at = "answered"]]
      /\ UNCHANGED <<sockets, call, buffered, outOfStep, faults>>
  BY <1>2 DEF Answered
<1>4. call \in Calls BY <1>1, <1>3 DEF OneCall
<1>5. [NoCall EXCEPT !.at = "answered"] = [at |-> "answered", ids |-> <<>>, got |-> <<>>] BY DEF NoCall
<1>6. [at |-> "answered", ids |-> <<>>, got |-> <<>>]
        \in [at : {"none", "waiting", "ok", "failed", "answered"}, ids : Seq(Keys), got : Seq(Keys)]
  OBVIOUS
<1>7. /\ handler' \in [Calls -> [at : {"none", "waiting", "ok", "failed", "answered"},
                                 ids : Seq(Keys), got : Seq(Keys)]]
      /\ handler'[call].at = "answered" /\ \A d \in Calls \ {call} : handler'[d] = handler[d]
  BY <1>1, <1>3, <1>4, <1>5, <1>6 DEF TypeOK
<1>8. TypeOK'
  <2>1. (batch' # <<>>) = (reader'["alice"] \in {"release", "released"})
    BY <1>1, <1>3, EmitTypes
  <2> QED BY <1>1, <1>3, <1>7, <2>1, EmitTypes DEF TypeOK, AliceEmits, SameSession, sockets
<1>9. OneCall'
  BY <1>1, <1>3, <1>4, <1>7, EmitTypes DEF OneCall
<1>10. ReleasedInStep'
  <2> SUFFICES ASSUME ~outOfStep' PROVE emitted'["bob"] = emitted'["alice"] \o <<>>
    BY <1>1, <1>3, EmitTypes DEF ReleasedInStep, BeingAnswered
  <2>1. emitted["bob"] = emitted["alice"] \o BeingAnswered BY <1>3 DEF IInv, ReleasedInStep
  <2>2. emitted["alice"] \in Seq(Keys) /\ emitted'["alice"] \in Seq(Keys)
    BY <1>1, <1>3, EmitTypes DEF TypeOK, Ends
  <2>3. emitted'["bob"] = emitted'["alice"]
    <3>1. CASE handler[call].at = "ok"
      BY <1>1, <1>2, <1>3, <2>1, <3>1, EmitTypes DEF BeingAnswered
    <3>2. CASE handler[call].at # "ok"
      <4>1. emitted["bob"] = emitted["alice"] BY <2>1, <2>2, <3>2, ConcatEmptySeq DEF BeingAnswered
      <4> QED BY <1>1, <1>2, <1>3, <3>2, <4>1, EmitTypes
    <3> QED BY <3>1, <3>2
  <2> QED BY <2>2, <2>3, ConcatEmptySeq
<1> QED BY <1>8, <1>9, <1>10 DEF IInv

LEMMA CallFailsStep ==
  ASSUME IInv, CallFails
  PROVE  IInv'
<1>1. TypeOK /\ OneCall BY DEF IInv
<1>2. /\ reader["alice"] \in {"release", "released"} /\ AliceEmits(FALSE)
      /\ outOfStep' = (outOfStep \/ (reader["alice"] = "released" /\ handler[call].at # "failed"))
      /\ UNCHANGED <<sockets, call, handler, buffered>>
  BY DEF CallFails
<1>3. faults' \in 0..MaxFaults BY <1>1, Faults DEF CallFails
<1>4. TypeOK'
  <2>1. (batch' # <<>>) = (reader'["alice"] \in {"release", "released"})
    <3>1. batch' = <<>> /\ reader'["alice"] = "reading" BY <1>1, <1>2, EmitTypes
    <3> QED BY <3>1
  <2> QED BY <1>1, <1>2, <1>3, <2>1, EmitTypes DEF TypeOK, AliceEmits, SameSession, sockets
<1>5. OneCall'
  BY <1>1, <1>2, EmitTypes DEF OneCall, TypeOK
<1>6. ReleasedInStep'
  BY <1>1, <1>2, EmitTypes DEF IInv, TypeOK, ReleasedInStep, BeingAnswered
<1> QED BY <1>4, <1>5, <1>6 DEF IInv

-----------------------------------------------------------------------------
(* ReleaseKeys at bob.                                                       *)

\* A handler which only changes how far it is, and what it does not pass on.
LEMMA HandlerTypes ==
  ASSUME TypeOK, NEW c \in Calls, NEW h,
         h \in [at : {"none", "waiting", "ok", "failed", "answered"}, ids : Seq(Keys), got : Seq(Keys)],
         handler' = [handler EXCEPT ![c] = h]
  PROVE  /\ handler' \in [Calls -> [at : {"none", "waiting", "ok", "failed", "answered"},
                                    ids : Seq(Keys), got : Seq(Keys)]]
         /\ handler'[c] = h /\ \A d \in Calls \ {c} : handler'[d] = handler[d]
  BY DEF TypeOK

LEMMA TimeoutStep ==
  ASSUME IInv, NEW c \in Calls, ReleaseTimeout(c)
  PROVE  IInv'
<1>1. TypeOK /\ OneCall BY DEF IInv
<1>2. PICK h : h = [handler[c] EXCEPT !.at = "failed"] OBVIOUS
<1>3. handler[c] \in [at : {"none", "waiting", "ok", "failed", "answered"}, ids : Seq(Keys), got : Seq(Keys)]
  BY <1>1 DEF TypeOK
<1>4. /\ h \in [at : {"none", "waiting", "ok", "failed", "answered"}, ids : Seq(Keys), got : Seq(Keys)]
      /\ h.at = "failed" /\ h.ids = handler[c].ids
  BY <1>2, <1>3
<1>5. handler' = [handler EXCEPT ![c] = h] BY <1>2 DEF ReleaseTimeout
<1>6. /\ handler' \in [Calls -> [at : {"none", "waiting", "ok", "failed", "answered"},
                                 ids : Seq(Keys), got : Seq(Keys)]]
      /\ handler'[c] = h /\ \A d \in Calls \ {c} : handler'[d] = handler[d]
  BY <1>1, <1>4, <1>5, HandlerTypes
<1>7. /\ UNCHANGED <<session, sockets, batch, call, buffered, emitted, outOfStep>>
      /\ handler[c].at = "waiting" /\ faults' \in 0..MaxFaults
  BY <1>1, Faults DEF ReleaseTimeout
<1>8. TypeOK' BY <1>1, <1>6, <1>7 DEF TypeOK, session, sockets
<1>9. OneCall' BY <1>1, <1>4, <1>6, <1>7 DEF OneCall, session
<1>10. BeingAnswered' = BeingAnswered
  <2>1. reader["alice"] = "released" => call \in Calls BY <1>1 DEF OneCall
  <2> QED BY <1>4, <1>6, <1>7, <2>1 DEF BeingAnswered, session
<1>11. ReleasedInStep' BY <1>7, <1>10 DEF IInv, ReleasedInStep
<1> QED BY <1>8, <1>9, <1>11 DEF IInv

LEMMA ReleaseStep ==
  ASSUME IInv, NEW c \in Calls, ReleaseKeys(c)
  PROVE  IInv'
<1>1. TypeOK /\ OneCall /\ "bob" \in Ends /\ "alice" \in Ends BY DEF IInv, Ends
<1>2a. PICK n \in 1..Len(Wanted(c)) :
        LET ks == SubSeq(Wanted(c), 1, n)  g == handler[c].got \o ks IN
        /\ handler[c].at = "waiting" /\ buffered' = buffered \ ToSet(ks)
        /\ IF g = handler[c].ids
           THEN /\ emitted' = [emitted EXCEPT !["bob"] = @ \o g]
                /\ handler' = [handler EXCEPT ![c].at = "ok", ![c].got = g]
           ELSE handler' = [handler EXCEPT ![c].got = g] /\ UNCHANGED emitted
        /\ UNCHANGED <<session, sockets, batch, call, outOfStep, faults>>
  BY DEF ReleaseKeys
<1>2b. PICK keys, got : keys = SubSeq(Wanted(c), 1, n) /\ got = handler[c].got \o keys OBVIOUS
<1>2. /\ keys = SubSeq(Wanted(c), 1, n) /\ got = handler[c].got \o keys
      /\ handler[c].at = "waiting" /\ buffered' = buffered \ ToSet(keys)
      /\ IF got = handler[c].ids
         THEN /\ emitted' = [emitted EXCEPT !["bob"] = @ \o got]
              /\ handler' = [handler EXCEPT ![c].at = "ok", ![c].got = got]
         ELSE handler' = [handler EXCEPT ![c].got = got] /\ UNCHANGED emitted
      /\ UNCHANGED <<session, sockets, batch, call, outOfStep, faults>>
  BY <1>2a, <1>2b
<1>3. handler[c] \in [at : {"none", "waiting", "ok", "failed", "answered"}, ids : Seq(Keys), got : Seq(Keys)]
  BY <1>1 DEF TypeOK
<1>4. PICK ids : ids = handler[c].ids OBVIOUS
<1>5. ids \in Seq(Keys) /\ handler[c].got \in Seq(Keys) BY <1>3, <1>4
<1>6. got \in Seq(Keys)
  <2>1. Len(ids) \in Nat /\ Len(handler[c].got) + 1 \in 1..(Len(handler[c].got) + 1)
    BY <1>5, LenProperties
  <2>2. Wanted(c) \in Seq(Keys)
    <3>1. \A i \in (Len(handler[c].got) + 1)..Len(ids) : ids[i] \in Keys
      BY <1>5, <2>1, ElementOfSeq, LenProperties
    <3>2. SubSeq(ids, Len(handler[c].got) + 1, Len(ids)) \in Seq(Keys)
      BY <1>5, <2>1, <3>1, SubSeqProperties, LenProperties
    <3> QED BY <1>4, <3>2 DEF Wanted
  <2>3. keys \in Seq(Keys)
    <3>1. \A i \in 1..n : Wanted(c)[i] \in Keys BY <2>2, ElementOfSeq, LenProperties
    <3>2. Len(Wanted(c)) \in Nat BY <2>2, LenProperties
    <3>3. n \in Int /\ 1 \in Int BY <3>2
    <3>4. SubSeq(Wanted(c), 1, n) \in Seq(Keys) BY <3>1, <3>3, SubSeqProperties
    <3> QED BY <1>2, <3>4
  <2> QED BY <1>2, <1>5, <2>3, ConcatProperties
<1>7. buffered' \subseteq Keys BY <1>1, <1>2 DEF TypeOK
<1>8. CASE got # ids
  <2>1. PICK h : h = [handler[c] EXCEPT !.got = got] OBVIOUS
  <2>2. /\ h \in [at : {"none", "waiting", "ok", "failed", "answered"}, ids : Seq(Keys), got : Seq(Keys)]
        /\ h.at = "waiting" /\ h.ids = handler[c].ids
    BY <1>2, <1>3, <1>6, <2>1
  <2>3. handler' = [handler EXCEPT ![c] = h] /\ UNCHANGED emitted BY <1>2, <1>4, <1>8, <2>1
  <2>4. /\ handler' \in [Calls -> [at : {"none", "waiting", "ok", "failed", "answered"},
                                   ids : Seq(Keys), got : Seq(Keys)]]
        /\ handler'[c] = h /\ \A d \in Calls \ {c} : handler'[d] = handler[d]
    BY <1>1, <2>2, <2>3, HandlerTypes
  <2>5. TypeOK' BY <1>1, <1>2, <1>7, <2>3, <2>4 DEF TypeOK, session, sockets
  <2>6. OneCall' BY <1>1, <1>2, <2>2, <2>4 DEF OneCall, session
  <2>7. BeingAnswered' = BeingAnswered
    <3>1. reader["alice"] = "released" => call \in Calls BY <1>1 DEF OneCall
    <3> QED BY <1>2, <2>2, <2>4, <3>1 DEF BeingAnswered, session
  <2>8. ReleasedInStep' BY <1>2, <2>3, <2>7 DEF IInv, ReleasedInStep
  <2> QED BY <2>5, <2>6, <2>8 DEF IInv
<1>9. CASE got = ids
  <2>1. PICK h : h = [handler[c] EXCEPT !.at = "ok", !.got = got] OBVIOUS
  <2>2. /\ h \in [at : {"none", "waiting", "ok", "failed", "answered"}, ids : Seq(Keys), got : Seq(Keys)]
        /\ h.at = "ok" /\ h.ids = ids
    BY <1>3, <1>4, <1>6, <2>1
  <2>3. handler' = [handler EXCEPT ![c] = h]
    <3>1. handler' = [handler EXCEPT ![c].at = "ok", ![c].got = got] BY <1>2, <1>4, <1>9
    <3> QED BY <1>1, <2>1, <3>1 DEF TypeOK
  <2>4. /\ handler' \in [Calls -> [at : {"none", "waiting", "ok", "failed", "answered"},
                                   ids : Seq(Keys), got : Seq(Keys)]]
        /\ handler'[c] = h /\ \A d \in Calls \ {c} : handler'[d] = handler[d]
    BY <1>1, <2>2, <2>3, HandlerTypes
  <2>5. emitted' = [emitted EXCEPT !["bob"] = emitted["bob"] \o ids] BY <1>2, <1>4, <1>9
  <2>6. /\ emitted' \in [Ends -> Seq(Keys)] /\ emitted'["alice"] = emitted["alice"]
        /\ emitted'["bob"] = emitted["bob"] \o ids
    <3>1. emitted["bob"] \o ids \in Seq(Keys) BY <1>1, <1>5, ConcatProperties DEF TypeOK
    <3> QED BY <1>1, <2>5, <3>1 DEF TypeOK
  <2>7. TypeOK' BY <1>1, <1>2, <1>7, <2>4, <2>6 DEF TypeOK, session, sockets
  <2>8. OneCall'
    <3>1. \A d \in Calls : handler'[d].ids = handler[d].ids BY <1>4, <2>2, <2>4
    <3>2. \A d \in Calls : handler'[d].at \in {"waiting", "ok"} => handler[d].at \in {"waiting", "ok"}
      BY <1>2, <2>4
    <3>3. UNCHANGED <<reader, batch, call, outOfStep>> BY <1>2 DEF session
    <3> QED BY <1>1, <3>1, <3>2, <3>3 DEF OneCall
  <2>9. ReleasedInStep'
    <3> SUFFICES ASSUME ~outOfStep' PROVE emitted'["bob"] = emitted'["alice"] \o BeingAnswered'
      BY DEF ReleasedInStep
    <3>1. ~outOfStep /\ reader["alice"] = "released" /\ c = call /\ ids = batch
      BY <1>1, <1>2, <1>4 DEF OneCall
    <3>2. BeingAnswered = <<>> BY <1>2, <3>1 DEF BeingAnswered
    <3>3. BeingAnswered' = ids BY <1>2, <2>2, <2>4, <3>1 DEF BeingAnswered, session
    <3>4. emitted["bob"] = emitted["alice"]
      <4>1. emitted["bob"] = emitted["alice"] \o <<>> BY <3>1, <3>2 DEF IInv, ReleasedInStep
      <4>2. emitted["alice"] \in Seq(Keys) BY <1>1 DEF TypeOK
      <4> QED BY <4>1, <4>2, ConcatEmptySeq
    <3> QED BY <2>6, <3>3, <3>4
  <2> QED BY <2>7, <2>8, <2>9 DEF IInv
<1> QED BY <1>4, <1>8, <1>9

-----------------------------------------------------------------------------
(* The whole.                                                                *)

LEMMA InitInv == Init => IInv
<1> SUFFICES ASSUME Init PROVE IInv OBVIOUS
<1>1. NoCall \in [at : {"none", "waiting", "ok", "failed", "answered"}, ids : Seq(Keys), got : Seq(Keys)]
  BY DEF NoCall
<1>2. <<>> \in Seq(Keys) /\ "alice" \in Ends /\ "bob" \in Ends BY DEF Ends
<1>3. TypeOK
  <2>1. 0 \in 0..MaxKeys /\ 0 \in 0..MaxCalls /\ 0 \in 0..MaxStarts /\ 0 \in 0..MaxFaults
    BY BoundAssumption
  <2>2. (batch # <<>>) = (reader["alice"] \in {"release", "released"}) BY <1>2 DEF Init
  <2>3. handler \in [Calls -> [at : {"none", "waiting", "ok", "failed", "answered"},
                               ids : Seq(Keys), got : Seq(Keys)]]
    BY <1>1 DEF Init
  <2> QED BY <1>2, <2>1, <2>2, <2>3 DEF Init, TypeOK
<1>4. OneCall BY <1>2 DEF Init, OneCall, NoCall
<1>5. ReleasedInStep
  <2>1. <<>> = <<>> \o <<>> BY <1>2, ConcatEmptySeq
  <2> QED BY <1>2, <2>1 DEF Init, ReleasedInStep, BeingAnswered
<1> QED BY <1>3, <1>4, <1>5 DEF IInv

LEMMA NextInv == IInv /\ [Next]_vars => IInv'
<1> SUFFICES ASSUME IInv, [Next]_vars PROVE IInv' OBVIOUS
<1>1. CASE ReaderStep
  BY <1>1, AliceReadsStep, BobReadsStep, CallStep, AnsweredStep, CallFailsStep DEF ReaderStep
<1>2. ASSUME NEW x \in Ends,
             DeviceMakes(x) \/ StartSession(x) \/ EndSession(x) \/ ControlStep(x) \/ StopReading(x)
      PROVE  IInv'
  BY <1>2, DeviceStep, ControlSteps
<1>3. ASSUME NEW c \in Calls, ReleaseKeys(c) \/ ReleaseTimeout(c) PROVE IInv'
  BY <1>3, ReleaseStep, TimeoutStep
<1>4. CASE UNCHANGED vars
  <2>1. TypeOK' BY <1>4 DEF IInv, TypeOK, vars, session, sockets, release
  <2>2. OneCall' BY <1>4 DEF IInv, OneCall, vars, session, release
  <2>3. ReleasedInStep' BY <1>4 DEF IInv, ReleasedInStep, BeingAnswered, vars, session, release
  <2> QED BY <2>1, <2>2, <2>3 DEF IInv
<1> QED BY <1>1, <1>2, <1>3, <1>4 DEF Next

\* The calls between the two drivers are in order, along every behaviour.
THEOREM ClavisInvariant == Spec => []IInv
<1> QED BY InitInv, NextInv, PTL DEF Spec

\* Every variable of the drivers has its type; alice's reader holds keys exactly while a
\* call of ReleaseKeys is due or under way.
THEOREM ClavisTypeCorrect == Spec => []TypeOK
<1>1. IInv => TypeOK BY DEF IInv
<1> QED BY <1>1, ClavisInvariant, PTL

\* Through late and missing keys, timeouts, and any number of sessions, both ends pass on
\* the same keys in the same order until a call is lost whose keys bob passes on.
THEOREM KeysReleasedInStep == Spec => []ReleasedInStep
<1>1. IInv => ReleasedInStep BY DEF IInv
<1> QED BY <1>1, ClavisInvariant, PTL
===============================================================================
