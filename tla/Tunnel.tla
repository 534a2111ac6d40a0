-------------------------------- MODULE Tunnel --------------------------------
(***************************************************************************)
(* An encrypted tunnel between two controllers                              *)
(* (Networking/Tunnels/Controller.cpp and TunnelBuilder.cpp).  StartTunnel   *)
(* at one end makes a builder there, has the other end make one with         *)
(* CompleteTunnel, and starts a thread which opens the stream; the other     *)
(* end serves it in the handler Transfer.  Each end then encrypts what its   *)
(* client sends, with keys it takes and changes by itself, and decrypts what *)
(* arrives, asking its key store for the keys the messages name.             *)
(*                                                                         *)
(* Packets of a client are numbered, and a message is its packet, the key    *)
(* and, as history, the number of the stream it was sent on.                 *)
(***************************************************************************)
EXTENDS Naturals, FiniteSets, Sequences, SequencesExt

CONSTANTS
  Starters,    \* the controllers which are told to start the tunnel
  MaxBytes,    \* the key lifespan's maxbytes; a packet is one byte
  MaxStarts,   \* bound: how often the tunnel is started
  MaxPackets,  \* bound: how many packets the clients send
  MaxFaults    \* bound: how much goes wrong: lost calls, clients which cannot be
               \* opened, keys which the key store does not give

Ends == {"a", "b"}
ASSUME StarterAssumption == Starters \subseteq Ends /\ Starters # {}
ASSUME BoundAssumption ==
  MaxBytes \in Nat \ {0} /\ MaxStarts \in Nat /\ MaxPackets \in Nat /\ MaxFaults \in Nat

VARIABLES
  builder,    \* [Ends -> the builder made there: "none", "start" or "end"]
  listed,     \* the ends whose tunnelBuilders has the tunnel
  starting,   \* [Ends -> where StartTunnel is]
  stopping,   \* [Ends -> where StopTunnel is]
  client,     \* the ends whose client device was opened
  keepGoing,  \* [Ends -> BOOLEAN]
  thread,     \* [Ends -> where EncodingWorker or Transfer is]
  writer,     \* [Ends -> where WriteEncrypted is]
  reader,     \* [Ends -> where ReadEncrypted is]
  stream,     \* the stream: "none", "up" or "cancelled"
  wire,       \* [Ends -> Seq(message)] what it carries to an end
  writeKey,   \* [Ends -> the key the writer uses, or 0]
  used,       \* [Ends -> Nat] bytesUsedOnKey
  readKey,    \* [Ends -> the key the reader uses, or 0]
  sent,       \* [Ends -> Nat] how many packets were read from the client
  delivered,  \* [Ends -> Seq(message)] what was written to the client
  keys,       \* [Ends -> Nat] how many keys the key store has given the writer
  epoch,      \* history: how many streams were opened
  starts, faults  \* how much of the bounds is used

control  == <<builder, listed, starting, stopping, client>>
threads  == <<thread, writer, reader>>
writing  == <<writeKey, used, sent>>
reading  == <<readKey, delivered>>
bounds   == <<starts, faults>>
vars     == <<control, keepGoing, threads, stream, wire, writing, reading, keys, epoch, bounds>>

Other(e) == IF e = "a" THEN "b" ELSE "a"
MaxKeys == MaxStarts + MaxPackets
Message == [packet : 1..MaxPackets, key : 1..MaxKeys, epoch : 1..MaxStarts]
Nothing    == [e \in Ends |-> <<>>]

Fault == faults < MaxFaults /\ faults' = faults + 1 /\ UNCHANGED starts
Set(f, e, v) == [f EXCEPT ![e] = v]

Init ==
  /\ builder = [e \in Ends |-> "none"] /\ listed = {} /\ client = {}
  /\ starting = [e \in Ends |-> "no"] /\ stopping = [e \in Ends |-> "no"]
  /\ keepGoing = [e \in Ends |-> TRUE]
  /\ thread = [e \in Ends |-> "off"]
  /\ writer = [e \in Ends |-> "off"] /\ reader = [e \in Ends |-> "off"]
  /\ stream = "none" /\ wire = Nothing
  /\ writeKey = [e \in Ends |-> 0] /\ used = [e \in Ends |-> 0]
  /\ readKey = [e \in Ends |-> 0] /\ sent = [e \in Ends |-> 0]
  /\ delivered = Nothing
  /\ keys = [e \in Ends |-> 0] /\ epoch = 0
  /\ starts = 0 /\ faults = 0

-----------------------------------------------------------------------------
(* StartTunnel.  The new builder is listed before the other end is called.   *)

StartTunnel(e) ==
  /\ e \in Starters /\ starting[e] = "no" /\ builder[e] = "none"
  /\ starts < MaxStarts /\ starts' = starts + 1
  /\ builder' = Set(builder, e, "start") /\ listed' = listed \union {e}
  /\ keepGoing' = Set(keepGoing, e, TRUE)
  /\ starting' = Set(starting, e, "complete")
  /\ UNCHANGED <<stopping, client, threads, stream, wire, writing, reading, keys, epoch, faults>>

\* StartTunnel returns; a builder which StopTunnel has taken off the list
\* meanwhile is destroyed.
Returned(e) == Set(starting, e, IF e \in listed THEN "no" ELSE "drop")

\* CompleteTunnel at the other end, which lists its builder even if its client
\* cannot be opened.
Complete(e) ==
  LET f == Other(e) IN
  /\ starting[e] = "complete" /\ builder[f] = "none"
  /\ builder' = Set(builder, f, "end") /\ listed' = listed \union {f}
  /\ \/ /\ client' = client \union {f} /\ keepGoing' = Set(keepGoing, f, TRUE)
        /\ starting' = Set(starting, e, "configure") /\ UNCHANGED faults
     \/ /\ client' = client \union {f} /\ keepGoing' = Set(keepGoing, f, TRUE)   \* the answer is lost
        /\ starting' = Returned(e) /\ Fault
     \/ /\ UNCHANGED client /\ keepGoing' = Set(keepGoing, f, FALSE)
        /\ starting' = Returned(e) /\ Fault
  /\ UNCHANGED <<stopping, threads, stream, wire, writing, reading, keys, epoch, starts>>

\* The other end has such a tunnel already, or the call does not get through.
CompleteFails(e) ==
  /\ starting[e] = "complete" /\ starting' = Returned(e)
  /\ \/ builder[Other(e)] # "none" /\ UNCHANGED bounds
     \/ Fault
  /\ UNCHANGED <<builder, listed, stopping, client, keepGoing, threads, stream, wire, writing,
                 reading, keys, epoch>>

\* ConfigureEndpoint and StartTransfer.
Configure(e) ==
  /\ starting[e] = "configure" /\ starting' = Returned(e)
  /\ \/ /\ client' = client \union {e} /\ keepGoing' = Set(keepGoing, e, TRUE)
        /\ thread' = Set(thread, e, "waiting") /\ UNCHANGED bounds
     \/ Fault /\ keepGoing' = Set(keepGoing, e, FALSE) /\ UNCHANGED <<client, thread>>
  /\ UNCHANGED <<builder, listed, stopping, writer, reader, stream, wire, writing, reading, keys, epoch>>

\* ~TunnelBuilder joins the thread.
Drop(e) ==
  /\ starting[e] = "drop"
  /\ IF thread[e] = "off"
     THEN /\ starting' = Set(starting, e, "no") /\ builder' = Set(builder, e, "none")
          /\ keepGoing' = Set(keepGoing, e, TRUE) /\ client' = client \ {e}
     ELSE keepGoing' = Set(keepGoing, e, FALSE) /\ UNCHANGED <<starting, builder, client>>
  /\ UNCHANGED <<listed, stopping, threads, stream, wire, writing, reading, keys, epoch, bounds>>

-----------------------------------------------------------------------------
(* StopTunnel.  At the end which started the tunnel it joins the thread and   *)
(* takes the builder off the list; at the other one the builder goes off the  *)
(* list, and its server waits for Transfer to return.                         *)

StopTunnel(e) ==
  /\ e \in listed /\ stopping[e] = "no" /\ stopping' = Set(stopping, e, "join")
  /\ keepGoing' = Set(keepGoing, e, FALSE)
  /\ listed' = IF builder[e] = "end" THEN listed \ {e} ELSE listed
  /\ UNCHANGED <<builder, starting, client, threads, stream, wire, writing, reading, keys, epoch, bounds>>

Stopped(e) ==
  /\ stopping[e] = "join" /\ thread[e] = "off"
  /\ stopping' = Set(stopping, e, "no") /\ listed' = listed \ {e}
  /\ builder' = IF starting[e] = "no" THEN Set(builder, e, "none") ELSE builder
  /\ keepGoing' = IF starting[e] = "no" THEN Set(keepGoing, e, TRUE) ELSE keepGoing
  /\ client' = IF starting[e] = "no" THEN client \ {e} ELSE client
  /\ UNCHANGED <<starting, threads, stream, wire, writing, reading, keys, epoch, bounds>>

-----------------------------------------------------------------------------
(* The threads: EncodingWorker where the tunnel was started, Transfer at the   *)
(* other end.  Both wait for the client without looking at keepGoing.         *)

Run(e) ==
  /\ writer' = [writer EXCEPT ![e] = "loop"] /\ reader' = [reader EXCEPT ![e] = "on"]
  /\ UNCHANGED <<writing, reading>>

\* The worker opens the stream, which fails if the other builder is gone.
OpenStream(e) ==
  /\ builder[e] = "start" /\ thread[e] = "waiting" /\ Run(e)
  /\ epoch' = epoch + 1 /\ UNCHANGED wire
  /\ IF builder[Other(e)] = "end" /\ stopping[Other(e)] = "no" /\ thread[Other(e)] = "off"
     THEN /\ stream' = "up"
          /\ thread' = [thread EXCEPT ![e] = "running", ![Other(e)] = "waiting"]
     ELSE /\ stream' = "cancelled"
          /\ thread' = [thread EXCEPT ![e] = "running"]
  /\ UNCHANGED <<control, keepGoing, keys, bounds>>

\* Mutant: the server starts no reader.
Transfer_OnlyWrites(e) ==
  /\ builder[e] = "end" /\ thread[e] = "waiting" /\ e \in client
  /\ writer' = Set(writer, e, "loop") /\ thread' = Set(thread, e, "running")
  /\ keepGoing' = Set(keepGoing, e, TRUE)
  /\ UNCHANGED <<control, reader, stream, wire, writing, reading, keys, epoch, bounds>>

\* Transfer sets keepGoing, whatever Shutdown has made of it.
Transfer(e) ==
  /\ builder[e] = "end" /\ thread[e] = "waiting" /\ e \in client /\ Run(e)
  /\ thread' = Set(thread, e, "running")
  /\ keepGoing' = Set(keepGoing, e, TRUE)
  /\ UNCHANGED <<control, stream, wire, keys, epoch, bounds>>

\* Mutant: the stream is not cancelled when the writer is done.
CancelStream_LeavesIt(e) ==
  /\ thread[e] = "running" /\ writer[e] = "loop" /\ ~keepGoing[e]
  /\ thread' = Set(thread, e, "joining") /\ writer' = Set(writer, e, "ended")
  /\ UNCHANGED <<control, keepGoing, reader, stream, wire, writing, reading, keys, epoch, bounds>>

\* WriteEncrypted ends: the stream is cancelled and the reader awaited.
CancelStream(e) ==
  /\ thread[e] = "running" /\ writer[e] = "loop" /\ ~keepGoing[e]
  /\ thread' = Set(thread, e, "joining") /\ writer' = Set(writer, e, "ended")
  /\ stream' = "cancelled" /\ wire' = Nothing
  /\ UNCHANGED keepGoing
  /\ UNCHANGED <<control, reader, writing, reading, keys, epoch, bounds>>

\* The worker deletes its client.
EndThread(e) ==
  /\ thread[e] = "joining" /\ reader[e] = "ended"
  /\ thread' = Set(thread, e, "off")
  /\ writer' = Set(writer, e, "off") /\ reader' = Set(reader, e, "off")
  /\ writeKey' = Set(writeKey, e, 0) /\ used' = Set(used, e, 0) /\ readKey' = Set(readKey, e, 0)
  /\ IF builder[e] = "start"
     THEN client' = client \ {e} /\ keepGoing' = Set(keepGoing, e, FALSE)
     ELSE UNCHANGED <<client, keepGoing>>
  /\ UNCHANGED <<builder, listed, starting, stopping, stream, wire, sent, delivered, keys, epoch, bounds>>

-----------------------------------------------------------------------------
(* WriteEncrypted.                                                           *)

\* Mutant: the limit is checked one byte late.
MustChange_Late(e) == used[e] > MaxBytes

\* ChangeKey: by the bytes, or by the age of a key which was used.
MustChange(e) == used[e] >= MaxBytes
MayChange(e)  == used[e] > 0

\* A round of the loop begins with a new key or the one there is.
NewKey(e) ==
  /\ writer[e] = "loop" /\ keepGoing[e] /\ (writeKey[e] = 0 \/ MayChange(e))
  /\ keys[e] < MaxKeys /\ keys' = Set(keys, e, keys[e] + 1)
  /\ writeKey' = Set(writeKey, e, keys[e] + 1) /\ used' = Set(used, e, 0)
  /\ writer' = Set(writer, e, "read")
  /\ UNCHANGED <<control, keepGoing, thread, reader, stream, wire, sent, reading, epoch, bounds>>

\* The old key has been cleared already when no new one is given.
NoNewKey(e) ==
  /\ writer[e] = "loop" /\ keepGoing[e] /\ MayChange(e) /\ writeKey[e] # 0
  /\ writeKey' = Set(writeKey, e, 0) /\ Fault
  /\ UNCHANGED <<control, keepGoing, threads, stream, wire, used, sent, reading, keys, epoch>>

KeepKey(e) ==
  /\ writer[e] = "loop" /\ keepGoing[e] /\ writeKey[e] # 0 /\ ~MustChange(e)
  /\ writer' = Set(writer, e, "read")
  /\ UNCHANGED <<control, keepGoing, thread, reader, stream, wire, writing, reading, keys, epoch, bounds>>

\* Mutant: a packet which cannot be written counts, and is tried again.
Encrypt_CountsTwice(e) ==
  LET m == [packet |-> sent[e] + 1, key |-> writeKey[e], epoch |-> epoch] IN
  /\ writer[e] = "read" /\ sent["a"] + sent["b"] < MaxPackets
  /\ used' = Set(used, e, used[e] + 1) /\ writer' = Set(writer, e, "loop")
  /\ IF stream = "up"
     THEN /\ sent' = Set(sent, e, sent[e] + 1)
          /\ wire' = [wire EXCEPT ![Other(e)] = Append(@, m)] /\ UNCHANGED keepGoing
     ELSE keepGoing' = Set(keepGoing, e, FALSE) /\ UNCHANGED <<wire, sent>>
  /\ UNCHANGED <<control, thread, reader, stream, writeKey, reading, keys, epoch, bounds>>

\* A packet is encrypted and written, or the stream has gone and takes it along.
Encrypt(e) ==
  LET m == [packet |-> sent[e] + 1, key |-> writeKey[e], epoch |-> epoch] IN
  /\ writer[e] = "read" /\ sent["a"] + sent["b"] < MaxPackets
  /\ sent' = Set(sent, e, sent[e] + 1) /\ used' = Set(used, e, used[e] + 1)
  /\ writer' = Set(writer, e, "loop")
  /\ IF stream = "up"
     THEN wire' = [wire EXCEPT ![Other(e)] = Append(@, m)] /\ UNCHANGED keepGoing
     ELSE keepGoing' = Set(keepGoing, e, FALSE) /\ UNCHANGED wire
  /\ UNCHANGED <<control, thread, reader, stream, writeKey, reading, keys, epoch, bounds>>

\* Nothing comes in time from the client, or its device fails.
NothingToRead(e) ==
  /\ writer[e] = "read" /\ writer' = Set(writer, e, "loop")
  /\ \/ UNCHANGED <<keepGoing, bounds>>
     \/ Fault /\ keepGoing' = Set(keepGoing, e, FALSE)
  /\ UNCHANGED <<control, thread, reader, stream, wire, writing, reading, keys, epoch>>

-----------------------------------------------------------------------------
(* ReadEncrypted.                                                            *)

\* The keys the reader has been given: its key store gives each of them once.
Redeemed(e) == {delivered[e][i].key : i \in 1..Len(delivered[e])}

\* Mutant: a message whose key is not given is left out.
Decrypt_GoesOn(e) ==
  LET m == Head(wire[e]) IN
  /\ reader[e] = "on" /\ stream = "up" /\ wire[e] # <<>> /\ keepGoing[e]
  /\ wire' = Set(wire, e, Tail(wire[e]))
  /\ \/ /\ m.key = readKey[e] \/ m.key \notin Redeemed(e)
        /\ readKey' = Set(readKey, e, m.key)
        /\ delivered' = Set(delivered, e, Append(delivered[e], m)) /\ UNCHANGED bounds
     \/ m.key # readKey[e] /\ Fault /\ UNCHANGED reading
  /\ UNCHANGED <<control, keepGoing, threads, stream, writing, keys, epoch>>

\* Mutant: the key is dropped after each message.
Decrypt_DropsKey(e) ==
  LET m == Head(wire[e]) IN
  /\ reader[e] = "on" /\ stream = "up" /\ wire[e] # <<>>
  /\ wire' = Set(wire, e, Tail(wire[e]))
  /\ IF ~keepGoing[e]
     THEN reader' = Set(reader, e, "ended") /\ UNCHANGED <<reading, bounds>>
     ELSE /\ delivered' = Set(delivered, e, Append(delivered[e], m))
          /\ UNCHANGED <<reader, readKey, bounds>>
  /\ UNCHANGED <<control, keepGoing, thread, writer, stream, writing, keys, epoch>>

\* The key of a message is asked for when it is not the last one's.
Decrypt(e) ==
  LET m == Head(wire[e]) IN
  /\ reader[e] = "on" /\ stream = "up" /\ wire[e] # <<>>
  /\ wire' = Set(wire, e, Tail(wire[e]))
  /\ IF ~keepGoing[e]
     THEN reader' = Set(reader, e, "ended") /\ UNCHANGED <<reading, bounds>>
     ELSE \/ /\ m.key = readKey[e] \/ m.key \notin Redeemed(e)
             /\ readKey' = Set(readKey, e, m.key)
             /\ delivered' = Set(delivered, e, Append(delivered[e], m))
             /\ UNCHANGED <<reader, bounds>>
          \/ /\ m.key # readKey[e]                       \* the key is not given
             /\ IF m.key \in Redeemed(e) THEN UNCHANGED bounds ELSE Fault
             /\ readKey' = Set(readKey, e, 0) /\ reader' = Set(reader, e, "ended")
             /\ UNCHANGED delivered
  /\ UNCHANGED <<control, keepGoing, thread, writer, stream, writing, keys, epoch>>

EndReader(e) ==
  /\ reader[e] = "on" /\ stream = "cancelled" /\ reader' = Set(reader, e, "ended")
  /\ UNCHANGED <<control, keepGoing, thread, writer, stream, wire, writing, reading, keys, epoch, bounds>>

-----------------------------------------------------------------------------
StartStep(e)  == Complete(e) \/ CompleteFails(e) \/ Configure(e) \/ Drop(e)
ThreadStep(e) == OpenStream(e) \/ Transfer(e) \/ CancelStream(e) \/ EndThread(e)
WriterStep(e) == NewKey(e) \/ KeepKey(e) \/ Encrypt(e) \/ NothingToRead(e)
ReaderStep(e) == Decrypt(e) \/ EndReader(e)

Next ==
  \E e \in Ends :
    \/ StartTunnel(e) \/ StopTunnel(e) \/ Stopped(e) \/ StartStep(e)
    \/ ThreadStep(e) \/ WriterStep(e) \/ ReaderStep(e) \/ NoNewKey(e)

Fairness ==
  \A e \in Ends :
    /\ WF_vars(StartStep(e)) /\ WF_vars(Stopped(e))
    /\ WF_vars(ThreadStep(e)) /\ WF_vars(WriterStep(e)) /\ WF_vars(ReaderStep(e))

Spec == Init /\ [][Next]_vars /\ Fairness

-----------------------------------------------------------------------------
TypeOK ==
  /\ builder \in [Ends -> {"none", "start", "end"}] /\ listed \subseteq Ends /\ client \subseteq Ends
  /\ starting \in [Ends -> {"no", "complete", "configure", "drop"}]
  /\ stopping \in [Ends -> {"no", "join"}]
  /\ keepGoing \in [Ends -> BOOLEAN]
  /\ thread \in [Ends -> {"off", "waiting", "running", "joining"}]
  /\ writer \in [Ends -> {"off", "loop", "read", "ended"}]
  /\ reader \in [Ends -> {"off", "on", "ended"}]
  /\ stream \in {"none", "up", "cancelled"}
  /\ wire \in [Ends -> Seq(Message)] /\ delivered \in [Ends -> Seq(Message)]
  /\ keys \in [Ends -> 0..MaxKeys]
  /\ writeKey \in [Ends -> 0..MaxKeys] /\ readKey \in [Ends -> 0..MaxKeys]
  /\ sent \in [Ends -> 0..MaxPackets] /\ used \in [Ends -> 0..MaxPackets]
  /\ \A e \in Ends :
       writeKey[e] <= keys[e] /\ readKey[e] <= keys[Other(e)] /\ used[e] <= sent[e]
  /\ epoch \in 0..MaxStarts /\ starts \in 0..MaxStarts /\ faults \in 0..MaxFaults

\* Through restarts of the tunnel a client is given packets of the other client
\* in the order they were sent and none twice; one is missing only where a
\* stream ended (TunnelBuilder::WriteEncrypted, ReadEncrypted).
PacketsInOrder ==
  \A e \in Ends : \A i \in 1..(Len(delivered[e]) - 1) :
    LET m == delivered[e][i]  n == delivered[e][i + 1] IN
    IF m.epoch = n.epoch THEN n.packet = m.packet + 1 ELSE n.packet > m.packet

\* A key encrypts no more bytes than its lifespan allows, through failures of
\* the key store and restarts (ChangeKey).
Sent(e) == ToSet(delivered[Other(e)]) \union ToSet(wire[Other(e)])
KeysAreSpared ==
  \A e \in Ends : \A k \in 1..MaxKeys : Cardinality({m \in Sent(e) : m.key = k}) <= MaxBytes

\* A reader never asks for a key which it was given before, and which the key
\* store would not give again: it fails only when the key store does
\* (TunnelBuilder::ReadEncrypted).
EachKeyIsThere ==
  \A e \in Ends : \A i \in 1..Len(wire[e]) :
    wire[e][i].key = readKey[e] \/ wire[e][i].key \notin Redeemed(e)

\* A packet which was sent while the stream is up is given to the other client,
\* unless the stream or the reader there ends.
PacketsArrive ==
  \A e \in Ends : wire[e] # <<>> /\ stream = "up" ~>
    wire[e] = <<>> \/ stream # "up" \/ reader[e] = "ended"

\* StopTunnel returns at the end which started the tunnel once StartTunnel has,
\* whatever has become of the other end (Controller::StopTunnel, the joins in
\* Shutdown and EncodingWorker).
StopReturns ==
  \A e \in Ends :
    (builder[e] = "start" /\ stopping[e] = "join" /\ starting[e] = "no" /\ ~keepGoing[e])
      ~> stopping[e] = "no"
===============================================================================
