------------------------------- MODULE KeyFeed --------------------------------
(***************************************************************************)
(* How key material gets from a pair of devices to the key stores of the    *)
(* two site agents: the end of a device's chain                             *)
(* (ErrorCorrection/ErrorCorrection.cpp, PrivacyAmp/PrivacyAmplify.cpp,     *)
(* KeyGen/KeyConverter.cpp over Algorithms/Util/Provider.h), the device's   *)
(* server (QKDDevices/RemoteQKDDevice.cpp) and the agent which reads from   *)
(* it (KeyManagement/Sites/SiteAgent.cpp).                                  *)
(*                                                                         *)
(* Each end has a thread which brings key material, one handler for each    *)
(* WaitForSession call, and the agent's control and reader threads.  Several *)
(* handlers may be active: nothing makes a new call wait for the one before. *)
(***************************************************************************)
EXTENDS Naturals, FiniteSets, Sequences, SequencesExt

CONSTANTS
  Ends,       \* the ends looked at: "alice", "bob" or both
  KeyBits,    \* bytesInKey
  BlockBits,  \* how much one sifted block brings
  MaxBlocks,  \* bound: how many blocks are agreed on
  MaxCalls,   \* bound: how often each agent calls WaitForSession
  MaxLost     \* bound: how many RPCs do not get through

ASSUME EndsAssumption  == Ends \subseteq {"alice", "bob"} /\ Ends # {}
ASSUME SizeAssumption  == KeyBits \in Nat \ {0} /\ BlockBits \in Nat \ {0}
ASSUME BoundAssumption == MaxBlocks \in Nat /\ MaxCalls \in Nat /\ MaxLost \in Nat

Calls == 1..MaxCalls

VARIABLES
  running,    \* the two devices are in a session
  brought,    \* [Ends -> Nat] the last sifted block brought to the chain
  carry,      \* [Ends -> Seq(bit)] carryOverBytes
  cut,        \* [Ends -> Seq(key)] the keys Emit is called with
  listening,  \* [Ends -> BOOLEAN] the converter has a listener
  received,   \* [Ends -> Seq(key)] recievedKeys
  shutdown,   \* [Ends -> BOOLEAN]
  handler,    \* [Ends -> [Calls -> where that WaitForSession call is]]
  batch,      \* [Ends -> [Calls -> Seq(key)]] its tempKeys
  cancelled,  \* [Ends -> SUBSET Calls] the calls whose client has gone
  call,       \* [Ends -> Nat] the agent's latest call
  agent,      \* [Ends -> what the agent's control thread does]
  wire,       \* [Ends -> Seq(key)] what was written to it and not yet read
  store,      \* [Ends -> Seq(key)] what keySink was given, by key ID
  lost,       \* how much of MaxLost is used
  cutOff      \* history, [Ends -> BOOLEAN]: the feed of this end was interrupted

upstream == <<running, brought>>
chain    == <<carry, cut, listening>>
device   == <<received, shutdown, handler, batch>>
client   == <<cancelled, call, agent, wire, store>>
vars     == <<upstream, chain, device, client, lost, cutOff>>

Key == [1..KeyBits -> Nat]

\* The bits of block b.
Block(b) == [i \in 1..BlockBits |-> (b - 1) * BlockBits + i]

\* Mutant: what is left over makes a short key.
KeysOf_RoundsUp(s) ==
  [k \in 1..((Len(s) + KeyBits - 1) \div KeyBits) |->
     SubSeq(s, (k - 1) * KeyBits + 1, IF k * KeyBits > Len(s) THEN Len(s) ELSE k * KeyBits)]

\* The keys a run of bits makes, and what is left of it.
KeysOf(s) == [k \in 1..(Len(s) \div KeyBits) |-> SubSeq(s, (k - 1) * KeyBits + 1, k * KeyBits)]

\* Mutant: what is left over is dropped.
RestOf_Dropped(s) == <<>>

RestOf(s) == SubSeq(s, KeyBits * (Len(s) \div KeyBits) + 1, Len(s))

At(x, place)    == {c \in Calls : handler[x][c] = place}
Goes(x, c, place) == handler' = [handler EXCEPT ![x][c] = place]

Init ==
  /\ running = FALSE /\ brought = [x \in Ends |-> 0]
  /\ carry = [x \in Ends |-> <<>>] /\ cut = [x \in Ends |-> <<>>]
  /\ listening = [x \in Ends |-> FALSE]
  /\ received = [x \in Ends |-> <<>>]
  /\ shutdown = [x \in Ends |-> FALSE]
  /\ handler = [x \in Ends |-> [c \in Calls |-> "none"]]
  /\ batch = [x \in Ends |-> [c \in Calls |-> <<>>]]
  /\ cancelled = [x \in Ends |-> {}]
  /\ call = [x \in Ends |-> 0]
  /\ agent = [x \in Ends |-> "off"]
  /\ wire = [x \in Ends |-> <<>>] /\ store = [x \in Ends |-> <<>>]
  /\ lost = 0
  /\ cutOff = [x \in Ends |-> FALSE]

-----------------------------------------------------------------------------
(* The chain of a device.                                                    *)

\* Bob has alice verify a block, who passes it on and then answers him.  With one
\* end only the other one may do so at any time.
Due(x) ==
  /\ brought[x] < MaxBlocks /\ cut[x] = <<>>
  /\ running \/ Ends = {x} \/ \E y \in Ends : brought[y] > brought[x]
  /\ \A y \in Ends \ {x} : IF x = "alice" THEN brought[y] = brought[x] ELSE brought[y] > brought[x]

\* ErrorCorrection and PrivacyAmplify pass a block on at once.  KeyConverter's
\* OnKeyGeneration, up to Emit: without a listener everything is carried over.
Bring(x) ==
  LET bits == carry[x] \o Block(brought[x] + 1) IN
  /\ Due(x) /\ brought' = [brought EXCEPT ![x] = @ + 1]
  /\ cut'   = [cut EXCEPT ![x] = IF listening[x] THEN KeysOf(bits) ELSE <<>>]
  /\ carry' = [carry EXCEPT ![x] = IF listening[x] THEN RestOf(bits) ELSE bits]
  /\ UNCHANGED <<running, listening, device, client, lost, cutOff>>

\* The answer does not get through: bob goes without the block.
AnswerLost ==
  /\ "bob" \in Ends /\ Due("bob") /\ brought' = [brought EXCEPT !["bob"] = @ + 1]
  /\ lost < MaxLost /\ lost' = lost + 1
  /\ cutOff' = [cutOff EXCEPT !["bob"] = TRUE]
  /\ UNCHANGED <<running, chain, device, client>>

\* A handler holds recievedKeysMutex from its test until it sleeps.
Locked(x) == At(x, "tested") # {}

\* Mutant: no handler is woken.
Emit_Silent(x) ==
  /\ cut[x] # <<>> /\ cut' = [cut EXCEPT ![x] = <<>>]
  /\ ~Locked(x)
  /\ received' = IF listening[x] THEN [received EXCEPT ![x] = @ \o cut[x]] ELSE received
  /\ UNCHANGED <<upstream, carry, listening, shutdown, handler, batch, client, lost, cutOff>>

\* Mutant: new keys take the place of those which wait.
Emit_Replaces(x) ==
  /\ cut[x] # <<>> /\ cut' = [cut EXCEPT ![x] = <<>>]
  /\ ~Locked(x)
  /\ received' = IF listening[x] THEN [received EXCEPT ![x] = cut[x]] ELSE received
  /\ \/ At(x, "asleep") = {} /\ UNCHANGED handler
     \/ \E c \in At(x, "asleep") : Goes(x, c, "wait")
  /\ UNCHANGED <<upstream, carry, listening, shutdown, batch, client, lost, cutOff>>

\* Emit, and RemoteQKDDevice::OnKeyGeneration with its notify_one.  The test of
\* HaveListener may be out of date: then the keys are dropped.
Emit(x) ==
  /\ cut[x] # <<>> /\ cut' = [cut EXCEPT ![x] = <<>>]
  /\ IF listening[x]
     THEN /\ ~Locked(x)
          /\ received' = [received EXCEPT ![x] = @ \o cut[x]]
          /\ IF At(x, "asleep") = {} THEN UNCHANGED handler
             ELSE \E c \in At(x, "asleep") : Goes(x, c, "wait")
     ELSE UNCHANGED <<received, handler>>
  /\ UNCHANGED <<upstream, carry, listening, shutdown, batch, client, lost, cutOff>>

-----------------------------------------------------------------------------
(* The device's server: WaitForSession and ProcessKeys.                      *)

Attach(x, c) ==
  /\ handler[x][c] = "called" /\ Goes(x, c, "wait")
  /\ shutdown' = [shutdown EXCEPT ![x] = FALSE]
  /\ listening' = [listening EXCEPT ![x] = TRUE]
  /\ UNCHANGED <<upstream, carry, cut, received, batch, client, lost, cutOff>>

\* Mutant: the keys are copied and not moved.
Test_Copies(x, c) ==
  LET stop == shutdown[x] \/ c \in cancelled[x] IN
  /\ handler[x][c] = "wait" /\ ~Locked(x)
  /\ shutdown' = [shutdown EXCEPT ![x] = stop]
  /\ IF stop \/ received[x] # <<>>
     THEN batch' = [batch EXCEPT ![x][c] = received[x]] /\ Goes(x, c, "send")
     ELSE Goes(x, c, "tested") /\ UNCHANGED batch
  /\ UNCHANGED <<upstream, chain, received, client, lost, cutOff>>

\* The predicate of the wait, under the lock: a call which was cancelled shuts
\* down every one.
Test(x, c) ==
  LET stop == shutdown[x] \/ c \in cancelled[x] IN
  /\ handler[x][c] = "wait" /\ ~Locked(x)
  /\ shutdown' = [shutdown EXCEPT ![x] = stop]
  /\ IF stop \/ received[x] # <<>>
     THEN /\ batch' = [batch EXCEPT ![x][c] = received[x]]
          /\ received' = [received EXCEPT ![x] = <<>>]
          /\ Goes(x, c, "send")
     ELSE Goes(x, c, "tested") /\ UNCHANGED <<batch, received>>
  /\ UNCHANGED <<upstream, chain, client, lost, cutOff>>

Sleep(x, c) ==
  /\ handler[x][c] = "tested" /\ Goes(x, c, "asleep")
  /\ UNCHANGED <<upstream, chain, received, shutdown, batch, client, lost, cutOff>>

\* A batch taken before a shutdown is not written.  Write's result is ignored:
\* when the client has gone the batch is lost too.
Send(x, c) ==
  /\ handler[x][c] = "send" /\ Goes(x, c, "loop")
  /\ batch' = [batch EXCEPT ![x][c] = <<>>]
  /\ wire' = IF shutdown[x] \/ c \in cancelled[x] THEN wire
             ELSE [wire EXCEPT ![x] = @ \o batch[x][c]]
  /\ UNCHANGED <<upstream, chain, received, shutdown, cancelled, call, agent, store, lost, cutOff>>

Loop(x, c) ==
  /\ handler[x][c] = "loop"
  /\ Goes(x, c, IF shutdown[x] THEN "detach" ELSE "wait")
  /\ UNCHANGED <<upstream, chain, received, shutdown, batch, client, lost, cutOff>>

\* Detatch removes whatever listener there is.
Detach(x, c) ==
  /\ handler[x][c] = "detach" /\ Goes(x, c, "close")
  /\ listening' = [listening EXCEPT ![x] = FALSE]
  /\ UNCHANGED <<upstream, carry, cut, received, shutdown, batch, client, lost, cutOff>>

\* EndSession and Disconnect of the session controller, from a handler that is
\* done or from the agent's EndSession call.
Close(x, c) ==
  /\ handler[x][c] = "close" /\ Goes(x, c, "done")
  /\ running' = FALSE
  /\ UNCHANGED <<brought, chain, received, shutdown, batch, client, lost, cutOff>>

-----------------------------------------------------------------------------
(* The site agent.                                                           *)

AgentGoes(x, what) == agent' = [agent EXCEPT ![x] = what]

\* PrepHop: the reader thread calls WaitForSession.
PrepHop(x) ==
  /\ agent[x] = "off" /\ AgentGoes(x, "reading")
  /\ call[x] < MaxCalls /\ call' = [call EXCEPT ![x] = @ + 1]
  /\ Goes(x, call[x] + 1, "called")
  /\ UNCHANGED <<upstream, chain, received, shutdown, batch, cancelled, wire, store, lost, cutOff>>

\* The right hand agent has its device start the session with the other one.
RunSession ==
  /\ \A x \in Ends : agent[x] = "reading"
  /\ ~running /\ running' = TRUE
  /\ UNCHANGED <<brought, chain, device, client, lost, cutOff>>

\* The reader thread hands the next message to the key store.
Read(x) ==
  /\ agent[x] = "reading" /\ wire[x] # <<>>
  /\ \E n \in 1..Len(wire[x]) :
       /\ store' = [store EXCEPT ![x] = @ \o SubSeq(wire[x], 1, n)]
       /\ wire' = [wire EXCEPT ![x] = SubSeq(@, n + 1, Len(@))]
  /\ UNCHANGED <<upstream, chain, device, cancelled, call, agent, lost, cutOff>>

\* DeviceConnection::Stop cancels the call: what was not read is gone.
Stop(x) ==
  /\ agent[x] = "reading" /\ AgentGoes(x, "ending")
  /\ cancelled' = [cancelled EXCEPT ![x] = @ \union {call[x]}]
  /\ wire' = [wire EXCEPT ![x] = <<>>]
  /\ cutOff' = [cutOff EXCEPT ![x] = TRUE]
  /\ UNCHANGED <<upstream, chain, device, call, store, lost>>

\* It calls the device's EndSession, which sets shutdown, ends the session ...
EndSession(x) ==
  /\ agent[x] = "ending" /\ AgentGoes(x, "notifying")
  /\ shutdown' = [shutdown EXCEPT ![x] = TRUE]
  /\ running' = FALSE
  /\ UNCHANGED <<brought, chain, received, handler, batch, cancelled, call, wire,
                 store, lost, cutOff>>

\* ... and then wakes the handlers, without recievedKeysMutex: one which has
\* tested its predicate and does not sleep yet is missed.  The reader is joined.
NotifyAll(x) ==
  /\ agent[x] = "notifying" /\ AgentGoes(x, "off")
  /\ handler' = [handler EXCEPT ![x] =
                   [c \in Calls |-> IF @[c] = "asleep" THEN "wait" ELSE @[c]]]
  /\ UNCHANGED <<upstream, chain, received, shutdown, batch, cancelled, call, wire, store,
                 lost, cutOff>>

EndSessionFails(x) ==
  /\ agent[x] = "ending" /\ AgentGoes(x, "off")
  /\ lost < MaxLost /\ lost' = lost + 1
  /\ UNCHANGED <<upstream, chain, device, cancelled, call, wire, store, cutOff>>

-----------------------------------------------------------------------------
HandlerStep(x, c) ==
  \/ Attach(x, c) \/ Test(x, c) \/ Sleep(x, c) \/ Send(x, c)
  \/ Loop(x, c) \/ Detach(x, c) \/ Close(x, c)

Next ==
  \/ AnswerLost \/ RunSession
  \/ \E x \in Ends :
       \/ Bring(x) \/ Emit(x) \/ PrepHop(x) \/ Read(x)
       \/ Stop(x) \/ EndSession(x) \/ NotifyAll(x) \/ EndSessionFails(x)
       \/ \E c \in Calls : HandlerStep(x, c)

\* Threads which can go on do; nothing makes an agent start, stop or a session
\* bring another block.
Fairness ==
  /\ \A x \in Ends : WF_vars(Emit(x)) /\ WF_vars(Read(x)) /\ WF_vars(EndSession(x))
                     /\ WF_vars(NotifyAll(x))
  /\ \A x \in Ends, c \in Calls : WF_vars(HandlerStep(x, c))

Spec == Init /\ [][Next]_vars /\ Fairness

-----------------------------------------------------------------------------
TypeOK ==
  /\ running \in BOOLEAN /\ brought \in [Ends -> 0..MaxBlocks]
  /\ carry \in [Ends -> Seq(Nat)] /\ cut \in [Ends -> Seq(Key)]
  /\ listening \in [Ends -> BOOLEAN] /\ shutdown \in [Ends -> BOOLEAN]
  /\ received \in [Ends -> Seq(Key)]
  /\ handler \in [Ends -> [Calls -> {"none", "called", "wait", "tested", "asleep", "send",
                                     "loop", "detach", "close", "done"}]]
  /\ batch \in [Ends -> [Calls -> Seq(Key)]]
  /\ cancelled \in [Ends -> SUBSET Calls] /\ call \in [Ends -> 0..MaxCalls]
  /\ agent \in [Ends -> {"off", "reading", "ending", "notifying"}]
  /\ wire \in [Ends -> Seq(Key)] /\ store \in [Ends -> Seq(Key)]
  /\ lost \in 0..MaxLost /\ cutOff \in [Ends -> BOOLEAN]

-----------------------------------------------------------------------------
Feed == INSTANCE SharedStream WITH got <- store, whole <- [x \in Ends |-> ~cutOff[x]]

\* The two key stores are fed as SharedStream promises: as long as an agent has
\* not stopped its feed and no block was lost between the devices, its store
\* numbers the keys exactly as the devices agreed on them, whatever the chain,
\* the handlers and the stream do meanwhile (KeyConverter::OnKeyGeneration,
\* RemoteQKDDevice::ProcessKeys, SiteAgent::ProcessKeys).
FeedsOneStream == Feed!Spec

\* What is on its way to the key store of end x, the oldest first.
BatchOf(x)   == IF call[x] = 0 THEN <<>> ELSE batch[x][call[x]]
Pipeline(x)  == wire[x] \o BatchOf(x) \o received[x] \o cut[x]

\* Through any number of stops and starts the bits which are stored, on their
\* way or carried over are in the order they were agreed on: none is put into
\* two keys, and no batch overtakes another (carryOverBytes, recievedKeys,
\* tempKeys and the two streams of a restarted feed).
NoBitTwice ==
  \A x \in Ends : LET keys == store[x] \o Pipeline(x)  rest == carry[x] IN
    /\ Feed!Forward(keys)
    /\ \A i, j \in 1..Len(rest) : i < j => rest[i] < rest[j]
    /\ \A n \in 1..Len(keys), i \in 1..KeyBits, j \in 1..Len(rest) : keys[n][i] < rest[j]

\* A key which the chain has cut reaches the key store, unless the feed is
\* interrupted: no wake-up of ProcessKeys is missed when keys arrive.
KeysArrive ==
  \A x \in Ends, n \in 1..((MaxBlocks * BlockBits) \div KeyBits) :
    Feed!KeyAt(n) \in ToSet(Pipeline(x)) ~> Feed!KeyAt(n) \in ToSet(store[x]) \/ cutOff[x]
===============================================================================
