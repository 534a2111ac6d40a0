-------------------------------- MODULE Clavis3 --------------------------------
(***************************************************************************)
(* The drivers of a pair of Clavis 3 devices which only read keys            *)
(* (IDQDevices/Clavis3/Clavis3Session.cpp and Clavis3SessionImpl.cpp, with    *)
(* controls disabled).  The devices make the same keys, each with an id; the  *)
(* key stores number keys by their order, so both ends must pass the same     *)
(* keys on in the same order.  Alice's reader thread asks bob with ReleaseKeys *)
(* for what she has read, and each passes it on if he could.                  *)
(*                                                                         *)
(* Keys are numbered in the order in which the devices make them.            *)
(***************************************************************************)
EXTENDS Naturals, FiniteSets, Sequences, SequencesExt

CONSTANTS
  MaxKeys,    \* bound: how many keys the devices make
  MaxCalls,   \* bound: how often ReleaseKeys is called
  MaxStarts,  \* bound: how often a session is started
  MaxFaults   \* bound: keys which are lost or late, and lost RPCs

ASSUME BoundAssumption ==
  /\ MaxKeys \in Nat /\ MaxCalls \in Nat /\ MaxStarts \in Nat /\ MaxFaults \in Nat
  /\ MaxKeys <= MaxCalls   \* each call is for a new key

Ends  == {"alice", "bob"}
Keys  == 1..MaxKeys
Calls == 1..MaxCalls

VARIABLES
  control,   \* [Ends -> where RunSession or EndSession of the device's server is]
  ending,    \* the ends where SessionEnding joins the reader
  reader,    \* [Ends -> where the thread PassOnKeys is]
  keepReadingKeys, \* [Ends -> BOOLEAN]
  aborted,   \* the ends whose driver has been terminated
  made,      \* [Ends -> Nat] the last key a device has delivered
  queue,     \* [Ends -> Seq(key)] what its key socket holds
  batch,     \* what alice's reader has read
  call,      \* her latest call of ReleaseKeys
  handler,   \* [Calls -> what bob's handler of that call does]
  buffered,  \* bufferedKeys
  emitted,   \* [Ends -> Seq(key)] what was passed on to the key publisher
  starts, faults, \* how much of the bounds is used
  outOfStep, \* history: a ReleaseKeys call failed at alice and not, or not yet, at bob
  ended      \* history: a session was ended

session == <<control, ending, reader, keepReadingKeys, aborted, starts, ended>>
sockets == <<made, queue>>
release == <<batch, call, handler, buffered, emitted, outOfStep>>
vars    == <<session, sockets, release, faults>>

Other(x) == IF x = "alice" THEN "bob" ELSE "alice"
NoCall   == [at |-> "none", ids |-> <<>>, got |-> <<>>]

Fault == faults < MaxFaults /\ faults' = faults + 1
ControlGoes(x, place) == control' = [control EXCEPT ![x] = place]
Runs(x) == x \notin aborted

Init ==
  /\ control = [x \in Ends |-> "idle"] /\ ending = {}
  /\ reader = [x \in Ends |-> "off"] /\ keepReadingKeys = [x \in Ends |-> TRUE]
  /\ aborted = {}
  /\ made = [x \in Ends |-> 0] /\ queue = [x \in Ends |-> <<>>]
  /\ batch = <<>> /\ call = 0 /\ handler = [c \in Calls |-> NoCall]
  /\ buffered = {} /\ emitted = [x \in Ends |-> <<>>]
  /\ starts = 0 /\ faults = 0
  /\ outOfStep = FALSE /\ ended = FALSE

-----------------------------------------------------------------------------
(* The devices deliver their keys.                                           *)

DeviceMakes(x) ==
  /\ made[x] < MaxKeys /\ made' = [made EXCEPT ![x] = @ + 1]
  /\ \/ queue' = [queue EXCEPT ![x] = Append(@, made[x] + 1)] /\ UNCHANGED faults
     \/ Fault /\ UNCHANGED queue
  /\ UNCHANGED <<session, release>>

-----------------------------------------------------------------------------
(* StartSession and EndSession, and the handlers of the other end.           *)

\* The reader is started, which terminates the program if it has one already.
StartReader(x) ==
  IF reader[x] = "off"
  THEN /\ reader' = [reader EXCEPT ![x] = "reading"]
       /\ keepReadingKeys' = [keepReadingKeys EXCEPT ![x] = TRUE] /\ UNCHANGED aborted
  ELSE aborted' = aborted \union {x} /\ UNCHANGED <<reader, keepReadingKeys>>

StartSession(x) ==
  /\ Runs(x) /\ control[x] = "idle" /\ ControlGoes(x, "calling")
  /\ starts < MaxStarts /\ starts' = starts + 1
  /\ UNCHANGED <<ending, reader, keepReadingKeys, aborted, ended, sockets, release, faults>>

\* SessionStarting at the other end; its answer may get lost.
SessionStarting(x) ==
  /\ Runs(x) /\ Runs(Other(x)) /\ control[x] = "calling" /\ ControlGoes(x, "called")
  /\ StartReader(Other(x))
  /\ Fault \/ UNCHANGED faults
  /\ UNCHANGED <<ending, starts, ended, sockets, release>>

SessionStartingFails(x) ==
  /\ Runs(x) /\ control[x] = "calling" /\ ControlGoes(x, "called")
  /\ IF Runs(Other(x)) THEN Fault ELSE UNCHANGED faults
  /\ UNCHANGED <<ending, reader, keepReadingKeys, aborted, starts, ended, sockets, release>>

\* The reader is started whatever came of the call.
SessionStarted(x) ==
  /\ Runs(x) /\ control[x] = "called" /\ ControlGoes(x, "idle")
  /\ StartReader(x)
  /\ UNCHANGED <<ending, starts, ended, sockets, release, faults>>

EndSession(x) ==
  /\ Runs(x) /\ control[x] = "idle" /\ ControlGoes(x, "joining")
  /\ keepReadingKeys' = [keepReadingKeys EXCEPT ![x] = FALSE]
  /\ ended' = TRUE
  /\ UNCHANGED <<ending, reader, aborted, starts, sockets, release, faults>>

Joinable(x) == reader[x] \in {"off", "done"}
ReaderJoined(x) == reader' = [reader EXCEPT ![x] = "off"]

\* A second thread which joins the same reader fails with an exception, which
\* ends its call, or finds it joined.
EndSessionJoined(x) ==
  /\ Runs(x) /\ control[x] = "joining"
  /\ \/ Joinable(x) /\ ReaderJoined(x) /\ ControlGoes(x, "telling")
     \/ x \in ending /\ ControlGoes(x, "idle") /\ UNCHANGED reader
  /\ UNCHANGED <<ending, keepReadingKeys, aborted, starts, ended, sockets, release, faults>>

\* SessionEnding at the other end.
SessionEnding(x) ==
  /\ Runs(x) /\ Runs(Other(x)) /\ control[x] = "telling" /\ ControlGoes(x, "told")
  /\ keepReadingKeys' = [keepReadingKeys EXCEPT ![Other(x)] = FALSE]
  /\ ending' = ending \union {Other(x)}
  /\ UNCHANGED <<reader, aborted, starts, ended, sockets, release, faults>>

SessionEndingJoined(x) ==
  /\ Runs(x) /\ x \in ending /\ ending' = ending \ {x}
  /\ \/ Joinable(x) /\ ReaderJoined(x)
     \/ control[x] = "joining" /\ UNCHANGED reader
  /\ UNCHANGED <<control, keepReadingKeys, aborted, starts, ended, sockets, release, faults>>

\* The answer to SessionEnding, or none.
SessionEnded(x) ==
  /\ Runs(x)
  /\ \/ control[x] = "told" /\ (Other(x) \notin ending \/ ~Runs(Other(x))) /\ UNCHANGED faults
     \/ control[x] \in {"telling", "told"} /\ Fault
     \/ control[x] = "telling" /\ ~Runs(Other(x)) /\ UNCHANGED faults
  /\ ControlGoes(x, "idle")
  /\ UNCHANGED <<ending, reader, keepReadingKeys, aborted, starts, ended, sockets, release>>

-----------------------------------------------------------------------------
(* PassOnKeys.                                                               *)

ReaderGoes(x, place) == reader' = [reader EXCEPT ![x] = place]
Reads(x) == Runs(x) /\ reader[x] = "reading" /\ keepReadingKeys[x] /\ queue[x] # <<>>
SameSession == UNCHANGED <<control, ending, keepReadingKeys, aborted, starts, ended>>

StopReading(x) ==
  /\ Runs(x) /\ reader[x] = "reading" /\ ~keepReadingKeys[x] /\ ReaderGoes(x, "done")
  /\ SameSession /\ UNCHANGED <<sockets, release, faults>>

\* ReadKeys takes all there is.
AliceReads ==
  /\ Reads("alice") /\ ReaderGoes("alice", "release")
  /\ batch' = batch \o queue["alice"] /\ queue' = [queue EXCEPT !["alice"] = <<>>]
  /\ SameSession
  /\ UNCHANGED <<made, call, handler, buffered, emitted, outOfStep, faults>>

\* Mutant: the handler keeps the lock while it waits.
BobReads_Excluded ==
  /\ Reads("bob") /\ \A c \in Calls : handler[c].at # "waiting"
  /\ buffered' = buffered \union ToSet(queue["bob"])
  /\ queue' = [queue EXCEPT !["bob"] = <<>>]
  /\ UNCHANGED <<session, made, batch, call, handler, emitted, outOfStep, faults>>

BobReads ==
  /\ Reads("bob")
  /\ buffered' = buffered \union ToSet(queue["bob"])
  /\ queue' = [queue EXCEPT !["bob"] = <<>>]
  /\ UNCHANGED <<session, made, batch, call, handler, emitted, outOfStep, faults>>

\* Alice calls ReleaseKeys.
CallReleaseKeys ==
  /\ Runs("alice") /\ Runs("bob") /\ reader["alice"] = "release" /\ ReaderGoes("alice", "released")
  /\ call < MaxCalls /\ call' = call + 1
  /\ handler' = [handler EXCEPT ![call + 1] = [at |-> "waiting", ids |-> batch, got |-> <<>>]]
  /\ SameSession
  /\ UNCHANGED <<sockets, batch, buffered, emitted, outOfStep, faults>>

\* Mutant: the keys of this round stay in the list.
AliceEmits_KeepsKeys(ok) ==
  /\ emitted' = IF ok THEN [emitted EXCEPT !["alice"] = @ \o batch] ELSE emitted
  /\ ReaderGoes("alice", "reading")
  /\ SameSession /\ UNCHANGED batch

\* What alice does with the answer.
AliceEmits(ok) ==
  /\ emitted' = IF ok THEN [emitted EXCEPT !["alice"] = @ \o batch] ELSE emitted
  /\ batch' = <<>> /\ ReaderGoes("alice", "reading")
  /\ SameSession

Answered ==
  /\ Runs("alice") /\ Runs("bob") /\ reader["alice"] = "released"
  /\ handler[call].at \in {"ok", "failed"}
  /\ AliceEmits(handler[call].at = "ok")
  /\ handler' = [handler EXCEPT ![call] = [NoCall EXCEPT !.at = "answered"]]
  /\ UNCHANGED <<sockets, call, buffered, outOfStep, faults>>

\* The call or its answer is lost: bob may have passed the keys on, or may still.
CallFails ==
  /\ Runs("alice") /\ reader["alice"] \in {"release", "released"}
  /\ IF Runs("bob") THEN Fault ELSE UNCHANGED faults
  /\ AliceEmits(FALSE)
  /\ outOfStep' = (outOfStep \/ (reader["alice"] = "released" /\ handler[call].at # "failed"))
  /\ UNCHANGED <<sockets, call, handler, buffered>>

-----------------------------------------------------------------------------
(* ReleaseKeys at bob.  It holds bufferedKeysMutex except where it waits.     *)

\* The ids which are still to be found, and how many of them there are at once.
Wanted(c)   == SubSeq(handler[c].ids, Len(handler[c].got) + 1, Len(handler[c].ids))
Found(c, n) ==
  /\ \A i \in 1..n : Wanted(c)[i] \in buffered
  /\ n < Len(Wanted(c)) => Wanted(c)[n + 1] \notin buffered

ReleaseKeys(c) == \E n \in 1..Len(Wanted(c)) :
  LET keys == SubSeq(Wanted(c), 1, n)  got == handler[c].got \o keys IN
  /\ Runs("bob") /\ handler[c].at = "waiting" /\ Found(c, n)
  /\ buffered' = buffered \ ToSet(keys)
  /\ IF got = handler[c].ids
     THEN /\ emitted' = [emitted EXCEPT !["bob"] = @ \o got]
          /\ handler' = [handler EXCEPT ![c].at = "ok", ![c].got = got]
     ELSE handler' = [handler EXCEPT ![c].got = got] /\ UNCHANGED emitted
  /\ UNCHANGED <<session, sockets, batch, call, outOfStep, faults>>

\* A key which is being waited for and comes may be late; one which does not come
\* is given up.  The keys which were found are gone then.
Comes(k) ==
  k > made["bob"] \/ (k \in ToSet(queue["bob"]) /\ (reader["bob"] = "reading" \/ control["bob"] = "called"))

\* Mutant: the keys which were found are passed on.
ReleaseTimeout_PassesOn(c) ==
  /\ Runs("bob") /\ handler[c].at = "waiting" /\ Wanted(c)[1] \notin buffered
  /\ IF Comes(Wanted(c)[1]) THEN Fault ELSE UNCHANGED faults
  /\ handler' = [handler EXCEPT ![c].at = "failed"]
  /\ emitted' = [emitted EXCEPT !["bob"] = @ \o handler[c].got]
  /\ UNCHANGED <<session, sockets, batch, call, buffered, outOfStep>>

ReleaseTimeout(c) ==
  /\ Runs("bob") /\ handler[c].at = "waiting" /\ Wanted(c)[1] \notin buffered
  /\ IF Comes(Wanted(c)[1]) THEN Fault ELSE UNCHANGED faults
  /\ handler' = [handler EXCEPT ![c].at = "failed"]
  /\ UNCHANGED <<session, sockets, batch, call, buffered, emitted, outOfStep>>

-----------------------------------------------------------------------------
ControlStep(x) ==
  \/ SessionStarting(x) \/ SessionStartingFails(x) \/ SessionStarted(x)
  \/ EndSessionJoined(x) \/ SessionEnding(x) \/ SessionEndingJoined(x) \/ SessionEnded(x)
ReaderStep == AliceReads \/ BobReads \/ CallReleaseKeys \/ Answered \/ CallFails

Next ==
  \/ ReaderStep
  \/ \E x \in Ends : DeviceMakes(x) \/ StartSession(x) \/ EndSession(x) \/ ControlStep(x)
                     \/ StopReading(x)
  \/ \E c \in Calls : ReleaseKeys(c) \/ ReleaseTimeout(c)

\* Threads which can go on do, and a device delivers what its peer has delivered;
\* nothing makes an agent start or end a session or the devices make a key.
Fairness ==
  /\ \A x \in Ends : WF_vars(DeviceMakes(x) /\ made[x] < made[Other(x)] /\ UNCHANGED faults)
  /\ WF_vars(BobReads) /\ WF_vars(AliceReads) /\ WF_vars(CallReleaseKeys) /\ WF_vars(Answered)
  /\ \A c \in Calls : WF_vars(ReleaseKeys(c)) /\ WF_vars(ReleaseTimeout(c) /\ UNCHANGED faults)
  /\ \A x \in Ends : WF_vars(StopReading(x)) /\ WF_vars(ControlStep(x))

Spec == Init /\ [][Next]_vars /\ Fairness

-----------------------------------------------------------------------------
TypeOK ==
  /\ control \in [Ends -> {"idle", "calling", "called", "joining", "telling", "told"}]
  /\ ending \subseteq Ends /\ aborted \subseteq Ends
  /\ reader \in [Ends -> {"off", "reading", "release", "released", "done"}]
  /\ keepReadingKeys \in [Ends -> BOOLEAN]
  /\ made \in [Ends -> 0..MaxKeys] /\ queue \in [Ends -> Seq(Keys)] /\ batch \in Seq(Keys)
  /\ (batch # <<>>) = (reader["alice"] \in {"release", "released"})
  /\ call \in 0..MaxCalls
  /\ handler \in [Calls -> [at : {"none", "waiting", "ok", "failed", "answered"},
                            ids : Seq(Keys), got : Seq(Keys)]]
  /\ buffered \subseteq Keys /\ emitted \in [Ends -> Seq(Keys)]
  /\ starts \in 0..MaxStarts /\ faults \in 0..MaxFaults
  /\ outOfStep \in BOOLEAN /\ ended \in BOOLEAN

\* What alice has yet to pass on because bob has.
BeingAnswered ==
  IF reader["alice"] = "released" /\ handler[call].at = "ok" THEN batch ELSE <<>>

\* Both ends pass on the same keys in the same order, bob ahead by what he is
\* about to answer: through late and missing keys, timeouts and new sessions, as
\* long as no call was lost whose keys bob had, or has yet, to pass on
\* (PassOnKeys, ReleaseKeys).
ReleasedInStep == ~outOfStep => emitted["bob"] = emitted["alice"] \o BeingAnswered

\* A key which both devices delivered while both readers run is passed on by
\* both, unless a session ends or something goes wrong: the two readers and the
\* handler never wait for each other.
KeysAreReleased ==
  \A k \in Keys :
    (\A x \in Ends : made[x] >= k /\ reader[x] # "off") ~>
      \/ \A x \in Ends : k \in ToSet(emitted[x])
      \/ ended \/ faults > 0 \/ aborted # {}
===============================================================================
