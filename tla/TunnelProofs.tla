----------------------------- MODULE TunnelProofs -----------------------------
(***************************************************************************)
(* Theorems about the encrypted tunnel, for any lifespan of a key and any    *)
(* number of starts, packets and faults.                                   *)
(*                                                                         *)
(* Packets of an end are numbered in the order they are sent, and keys in   *)
(* the order they are given; both only grow.  What is on the wire continues  *)
(* what was delivered, so that the steps which send and deliver (Encrypt,    *)
(* Decrypt) are the ones to look at, and every other step is quiet.          *)
(***************************************************************************)
EXTENDS Tunnel, FiniteSetTheorems, TLAPS

\* Each of the two ends is the other one's other end.
LEMMA TwoEnds ==
  /\ "a" \in Ends /\ "b" \in Ends
  /\ \A e \in Ends : /\ Other(e) \in Ends /\ Other(e) # e /\ Other(Other(e)) = e
                     /\ \A x \in Ends : x = e \/ x = Other(e)
BY DEF Ends, Other

\* The bounds are numbers.
LEMMA KeyBound ==
  /\ MaxKeys \in Nat /\ MaxPackets \in Nat /\ MaxStarts \in Nat /\ MaxFaults \in Nat
  /\ MaxBytes \in Nat /\ MaxBytes > 0
BY BoundAssumption DEF MaxKeys

\* What one end does in a step.
Action(e) ==
    \/ StartTunnel(e) \/ StopTunnel(e) \/ Stopped(e) \/ StartStep(e)
    \/ ThreadStep(e) \/ WriterStep(e) \/ ReaderStep(e) \/ NoNewKey(e)

\* The part of TypeOK about the builders, threads and the stream.
ControlOK ==
  /\ builder \in [Ends -> {"none", "start", "end"}] /\ listed \subseteq Ends /\ client \subseteq Ends
  /\ starting \in [Ends -> {"no", "complete", "configure", "drop"}]
  /\ stopping \in [Ends -> {"no", "join"}]
  /\ keepGoing \in [Ends -> BOOLEAN]
  /\ thread \in [Ends -> {"off", "waiting", "running", "joining"}]
  /\ writer \in [Ends -> {"off", "loop", "read", "ended"}]
  /\ reader \in [Ends -> {"off", "on", "ended"}]
  /\ stream \in {"none", "up", "cancelled"}

\* The part of TypeOK about the counters and the keys, and what a reader may hold.
NumbersOK ==
  /\ keys \in [Ends -> 0..MaxKeys]
  /\ writeKey \in [Ends -> 0..MaxKeys] /\ readKey \in [Ends -> 0..MaxKeys]
  /\ sent \in [Ends -> 0..MaxPackets] /\ used \in [Ends -> 0..MaxPackets]
  /\ \A e \in Ends :
       writeKey[e] <= keys[e] /\ readKey[e] <= keys[Other(e)] /\ used[e] <= sent[e]

\* The part of TypeOK about the packets.
PacketsOK == wire \in [Ends -> Seq(Message)] /\ delivered \in [Ends -> Seq(Message)]

\* Which threads of an end run, given where its builder is; the writer has a
\* key with bytes left when it encrypts.
ThreadsFit(e) ==
  /\ builder[e] = "none" => thread[e] = "off" /\ starting[e] = "no"
  /\ starting[e] \in {"complete", "configure"} => builder[e] = "start" /\ thread[e] = "off"
  /\ thread[e] \in {"off", "waiting"} => writer[e] = "off" /\ reader[e] = "off" /\ writeKey[e] = 0
  /\ writer[e] \in {"loop", "read"} <=> thread[e] = "running"
  /\ thread[e] = "running" => reader[e] # "off"
  /\ writer[e] = "read" => writeKey[e] # 0 /\ used[e] < MaxBytes
  /\ used[e] <= MaxBytes

\* A stream which is up is served by EncodingWorker at one end and Transfer at
\* the other; nothing is on the wire of any other stream.
StreamFits ==
  /\ stream # "up" => wire = Nothing
  /\ stream = "up" =>
       /\ epoch > 0
       /\ \E s \in Ends :
            /\ builder[s] = "start" /\ thread[s] = "running"
            /\ builder[Other(s)] = "end" /\ thread[Other(s)] \in {"waiting", "running"}

\* Starts which have yet to open their stream.
Pend(e) ==
  IF starting[e] \in {"complete", "configure"} \/ (builder[e] = "start" /\ thread[e] = "waiting")
  THEN 1 ELSE 0

\* No more streams are opened than the tunnel was started.
Pending == epoch + Pend("a") + Pend("b") <= starts

\* The packets on their way to an end belong to the stream there is, follow each
\* other, and the last one is the last one sent.
OnWire(e) ==
  \A i \in 1..Len(wire[e]) :
    wire[e][i].epoch = epoch /\ wire[e][i].packet + (Len(wire[e]) - i) = sent[Other(e)]

\* The end reads, or will before it serves another stream.
Reads(e) == reader[e] = "on" \/ thread[e] = "waiting"

\* The last packet an end was given.
LastOne(e) == delivered[e][Len(delivered[e])]

\* What is on the wire begins after the last packet delivered: at once if that
\* came on the same stream.
LastGiven(e) ==
  delivered[e] # <<>> =>
    /\ LastOne(e).epoch <= epoch /\ LastOne(e).packet <= sent[Other(e)]
    /\ Reads(e) => LastOne(e).packet + Len(wire[e]) <= sent[Other(e)]
    /\ Reads(e) /\ stream = "up" /\ LastOne(e).epoch = epoch
         => LastOne(e).packet + Len(wire[e]) = sent[Other(e)]

\* The reader has the key, or has had none as large.
Fresh(e, k) == k = readKey[e] \/ \A i \in 1..Len(delivered[e]) : delivered[e][i].key < k

\* The keys of an end's packets never decrease, up to the one its writer uses.
KeyOrder(e) ==
  /\ writeKey[Other(e)] # 0 => writeKey[Other(e)] = keys[Other(e)]
  /\ \A i \in 1..Len(delivered[e]) : delivered[e][i].key <= keys[Other(e)]
  /\ \A i \in 1..Len(wire[e]) : wire[e][i].key <= keys[Other(e)] /\ Fresh(e, wire[e][i].key)
  /\ \A i \in 1..Len(wire[e]) : \A j \in 1..Len(wire[e]) : i <= j =>
       wire[e][i].key <= wire[e][j].key
  /\ stream = "up" /\ writeKey[Other(e)] # 0 => Fresh(e, writeKey[Other(e)])

\* No key has more messages than its lifespan allows, and the writer's no more
\* than the writer has counted.
Spared(e) ==
  /\ IsFiniteSet(Sent(e))
  /\ \A k \in 1..MaxKeys :
      /\ Cardinality({m \in Sent(e) : m.key = k}) <= MaxBytes
      /\ k = writeKey[e] => Cardinality({m \in Sent(e) : m.key = k}) <= used[e]

-----------------------------------------------------------------------------
(* The control state.                                                       *)

\* Every step keeps the types of the control state.
LEMMA ControlOKStep ==
  ASSUME ControlOK, NEW e \in Ends, Action(e)
  PROVE  ControlOK'
<1> USE TwoEnds DEF ControlOK, Set, Returned, Fault, Run
<1>1. CASE StartTunnel(e) BY <1>1 DEF StartTunnel, threads
<1>2. CASE StopTunnel(e) BY <1>2 DEF StopTunnel, threads
<1>3. CASE Stopped(e) BY <1>3 DEF Stopped, threads
<1>4. CASE Complete(e)
  <2>1. client' \subseteq Ends /\ listed' \subseteq Ends BY <1>4 DEF Complete, threads
  <2>2. keepGoing' \in [Ends -> BOOLEAN] BY <1>4 DEF Complete, threads
  <2>3. /\ builder' \in [Ends -> {"none", "start", "end"}]
        /\ starting' \in [Ends -> {"no", "complete", "configure", "drop"}]
        /\ stopping' \in [Ends -> {"no", "join"}]
    BY <1>4 DEF Complete, threads
  <2>4. /\ thread' \in [Ends -> {"off", "waiting", "running", "joining"}]
        /\ writer' \in [Ends -> {"off", "loop", "read", "ended"}]
        /\ reader' \in [Ends -> {"off", "on", "ended"}]
        /\ stream' \in {"none", "up", "cancelled"}
    BY <1>4 DEF Complete, threads
  <2> QED BY <2>1, <2>2, <2>3, <2>4
<1>5. CASE CompleteFails(e) BY <1>5 DEF CompleteFails, threads
<1>6. CASE Configure(e)
  <2>1. client' \subseteq Ends /\ listed' \subseteq Ends BY <1>6 DEF Configure, threads
  <2>2. keepGoing' \in [Ends -> BOOLEAN] BY <1>6 DEF Configure, threads
  <2>3. /\ builder' \in [Ends -> {"none", "start", "end"}]
        /\ starting' \in [Ends -> {"no", "complete", "configure", "drop"}]
        /\ stopping' \in [Ends -> {"no", "join"}]
    BY <1>6 DEF Configure, threads
  <2>4. /\ thread' \in [Ends -> {"off", "waiting", "running", "joining"}]
        /\ writer' \in [Ends -> {"off", "loop", "read", "ended"}]
        /\ reader' \in [Ends -> {"off", "on", "ended"}]
        /\ stream' \in {"none", "up", "cancelled"}
    BY <1>6 DEF Configure, threads
  <2> QED BY <2>1, <2>2, <2>3, <2>4
<1>7. CASE Drop(e)
  <2>1. client' \subseteq Ends /\ listed' \subseteq Ends BY <1>7 DEF Drop, threads
  <2>2. keepGoing' \in [Ends -> BOOLEAN] BY <1>7 DEF Drop, threads
  <2>3. /\ builder' \in [Ends -> {"none", "start", "end"}]
        /\ starting' \in [Ends -> {"no", "complete", "configure", "drop"}]
        /\ stopping' \in [Ends -> {"no", "join"}]
    BY <1>7 DEF Drop, threads
  <2>4. /\ thread' \in [Ends -> {"off", "waiting", "running", "joining"}]
        /\ writer' \in [Ends -> {"off", "loop", "read", "ended"}]
        /\ reader' \in [Ends -> {"off", "on", "ended"}]
        /\ stream' \in {"none", "up", "cancelled"}
    BY <1>7 DEF Drop, threads
  <2> QED BY <2>1, <2>2, <2>3, <2>4
<1>8. CASE OpenStream(e) BY <1>8 DEF OpenStream, control
<1>9. CASE Transfer(e) BY <1>9 DEF Transfer, control
<1>10. CASE CancelStream(e) BY <1>10 DEF CancelStream, control
<1>11. CASE EndThread(e)
  <2>1. client' \subseteq Ends /\ listed' \subseteq Ends BY <1>11 DEF EndThread
  <2>2. keepGoing' \in [Ends -> BOOLEAN]
    <3>1. CASE builder[e] = "start"
      <4>1. keepGoing' = Set(keepGoing, e, FALSE) BY <1>11, <3>1 DEF EndThread
      <4> QED BY <4>1
    <3>2. CASE builder[e] # "start"
      <4>1. keepGoing' = keepGoing BY <1>11, <3>2 DEF EndThread
      <4> QED BY <4>1
    <3> QED BY <3>1, <3>2
  <2>3. /\ builder' \in [Ends -> {"none", "start", "end"}]
        /\ starting' \in [Ends -> {"no", "complete", "configure", "drop"}]
        /\ stopping' \in [Ends -> {"no", "join"}]
    BY <1>11 DEF EndThread
  <2>4. /\ thread' \in [Ends -> {"off", "waiting", "running", "joining"}]
        /\ writer' \in [Ends -> {"off", "loop", "read", "ended"}]
        /\ reader' \in [Ends -> {"off", "on", "ended"}]
        /\ stream' \in {"none", "up", "cancelled"}
    BY <1>11 DEF EndThread
  <2> QED BY <2>1, <2>2, <2>3, <2>4
<1>12. CASE NewKey(e) BY <1>12 DEF NewKey, control
<1>13. CASE KeepKey(e) BY <1>13 DEF KeepKey, control
<1>14. CASE Encrypt(e) BY <1>14 DEF Encrypt, control
<1>15. CASE NothingToRead(e) BY <1>15 DEF NothingToRead, control
<1>16. CASE Decrypt(e) BY <1>16 DEF Decrypt, control
<1>17. CASE EndReader(e) BY <1>17 DEF EndReader, control
<1>18. CASE NoNewKey(e) BY <1>18 DEF NoNewKey, control, threads
<1> QED BY <1>1, <1>2, <1>3, <1>4, <1>5, <1>6, <1>7, <1>8, <1>9, <1>10, <1>11, <1>12, <1>13,
           <1>14, <1>15, <1>16, <1>17, <1>18
        DEF Action, StartStep, ThreadStep, WriterStep, ReaderStep

\* Every step keeps the threads of an end in step with its builder.
LEMMA ThreadsFitStep ==
  ASSUME ControlOK, NumbersOK, \A x \in Ends : ThreadsFit(x), NEW e \in Ends, Action(e), NEW x \in Ends
  PROVE  ThreadsFit(x)'
<1> USE TwoEnds, KeyBound DEF ControlOK, NumbersOK, ThreadsFit, Set, Returned, Fault, MustChange, MayChange
<1>1. CASE StartTunnel(e) BY <1>1 DEF StartTunnel, threads, writing
<1>2. CASE StopTunnel(e) BY <1>2 DEF StopTunnel, threads, writing
<1>3. CASE Stopped(e) BY <1>3 DEF Stopped, threads, writing
<1>4. CASE Complete(e) BY <1>4 DEF Complete, threads, writing
<1>5. CASE CompleteFails(e) BY <1>5 DEF CompleteFails, threads, writing
<1>6. CASE Configure(e) BY <1>6 DEF Configure, threads, writing
<1>7. CASE Drop(e) BY <1>7 DEF Drop, threads, writing
<1>8. CASE OpenStream(e) BY <1>8 DEF OpenStream, control, Run, writing
<1>9. CASE Transfer(e) BY <1>9 DEF Transfer, control, Run, writing
<1>10. CASE CancelStream(e) BY <1>10 DEF CancelStream, control, writing
<1>11. CASE EndThread(e) BY <1>11 DEF EndThread
<1>12. CASE NewKey(e) BY <1>12 DEF NewKey, control
<1>13. CASE KeepKey(e) BY <1>13 DEF KeepKey, control, writing
<1>14. CASE Encrypt(e)
  <2>1. /\ writer[e] = "read" /\ writer' = Set(writer, e, "loop") /\ used' = Set(used, e, used[e] + 1)
        /\ UNCHANGED <<control, thread, reader, writeKey>>
    BY <1>14 DEF Encrypt
  <2> QED BY <2>1 DEF control
<1>15. CASE NothingToRead(e) BY <1>15 DEF NothingToRead, control, writing
<1>16. CASE Decrypt(e)
  <2>1. /\ reader[e] = "on" /\ (reader' = reader \/ reader' = Set(reader, e, "ended"))
        /\ UNCHANGED <<control, thread, writer, writing>>
    BY <1>16 DEF Decrypt
  <2> QED BY <2>1 DEF control, writing
<1>17. CASE EndReader(e) BY <1>17 DEF EndReader, control, writing
<1>18. CASE NoNewKey(e) BY <1>18 DEF NoNewKey, control, threads
<1> QED BY <1>1, <1>2, <1>3, <1>4, <1>5, <1>6, <1>7, <1>8, <1>9, <1>10, <1>11, <1>12, <1>13,
           <1>14, <1>15, <1>16, <1>17, <1>18
        DEF Action, StartStep, ThreadStep, WriterStep, ReaderStep

\* Every step leaves a stream which is up between two threads that serve it.
LEMMA StreamFitsStep ==
  ASSUME ControlOK, \A x \in Ends : ThreadsFit(x), StreamFits, epoch \in Nat, NEW e \in Ends, Action(e)
  PROVE  StreamFits'
<1> USE TwoEnds DEF ControlOK, ThreadsFit, StreamFits, Set, Nothing
<1>1. CASE StartTunnel(e) BY <1>1 DEF StartTunnel, threads, writing
<1>2. CASE StopTunnel(e) BY <1>2 DEF StopTunnel, threads, writing
<1>3. CASE Stopped(e) BY <1>3 DEF Stopped, threads, writing
<1>4. CASE Complete(e) BY <1>4 DEF Complete, threads, writing
<1>5. CASE CompleteFails(e) BY <1>5 DEF CompleteFails, threads, writing
<1>6. CASE Configure(e) BY <1>6 DEF Configure, threads, writing
<1>7. CASE Drop(e) BY <1>7 DEF Drop, threads, writing
<1>8. CASE OpenStream(e) BY <1>8 DEF OpenStream, control, Run, writing
<1>9. CASE Transfer(e) BY <1>9 DEF Transfer, control, Run, writing
<1>10. CASE CancelStream(e) BY <1>10 DEF CancelStream, control, writing
<1>11. CASE EndThread(e) BY <1>11 DEF EndThread
<1>12. CASE NewKey(e) BY <1>12 DEF NewKey, control
<1>13. CASE KeepKey(e) BY <1>13 DEF KeepKey, control, writing
<1>14. CASE Encrypt(e) BY <1>14 DEF Encrypt, control
<1>15. CASE NothingToRead(e) BY <1>15 DEF NothingToRead, control, writing
<1>16. CASE Decrypt(e) BY <1>16 DEF Decrypt, control, writing
<1>17. CASE EndReader(e) BY <1>17 DEF EndReader, control, writing
<1>18. CASE NoNewKey(e) BY <1>18 DEF NoNewKey, control, threads
<1> QED BY <1>1, <1>2, <1>3, <1>4, <1>5, <1>6, <1>7, <1>8, <1>9, <1>10, <1>11, <1>12, <1>13,
           <1>14, <1>15, <1>16, <1>17, <1>18
        DEF Action, StartStep, ThreadStep, WriterStep, ReaderStep

\* No stream is opened but for a start of the tunnel.
LEMMA PendingStep ==
  ASSUME ControlOK, \A x \in Ends : ThreadsFit(x), Pending, epoch \in Nat, starts \in Nat,
         NEW e \in Ends, Action(e)
  PROVE  Pending' /\ epoch' \in Nat /\ starts' \in Nat
<1>0. /\ epoch + Pend(e) + Pend(Other(e)) <= starts
      /\ epoch' \in Nat /\ starts' \in Nat /\ epoch' + Pend(e)' + Pend(Other(e))' <= starts' => Pending'
  <2>1. \A x \in Ends : Pend(x) \in 0..1 /\ Pend(x)' \in 0..1 BY DEF Pend
  <2>2. Pending <=> epoch + Pend("a") + Pend("b") <= starts BY DEF Pending
  <2>3. Pending' <=> epoch' + Pend("a")' + Pend("b")' <= starts' BY DEF Pending
  <2> HIDE DEF Pend, Pending
  <2>4. CASE e = "a" /\ Other(e) = "b" BY <2>1, <2>2, <2>3, <2>4, TwoEnds
  <2>5. CASE e = "b" /\ Other(e) = "a" BY <2>1, <2>2, <2>3, <2>5, TwoEnds
  <2> QED BY <2>4, <2>5 DEF Ends, Other
<1>q. ASSUME epoch' = epoch, starts' = starts, Pend(e)' <= Pend(e), Pend(Other(e))' <= Pend(Other(e))
      PROVE  Pending' /\ epoch' \in Nat /\ starts' \in Nat
  BY <1>0, <1>q DEF Pend
<1> USE TwoEnds DEF ControlOK, ThreadsFit, Pend, Set, Returned, Fault, bounds
<1>1. CASE StartTunnel(e)
  <2>1. epoch' = epoch /\ starts' = starts + 1 BY <1>1 DEF StartTunnel, threads, writing
  <2>2. Pend(e)' <= Pend(e) + 1 /\ Pend(Other(e))' = Pend(Other(e)) BY <1>1 DEF StartTunnel, threads, writing
  <2> QED BY <2>1, <2>2, <1>0
<1>2. CASE StopTunnel(e)
  <2>1. epoch' = epoch /\ starts' = starts BY <1>2 DEF StopTunnel, threads, writing
  <2>2. Pend(e)' <= Pend(e) /\ Pend(Other(e))' <= Pend(Other(e)) BY <1>2 DEF StopTunnel, threads, writing
  <2> QED BY <2>1, <2>2, <1>q
<1>3. CASE Stopped(e)
  <2>1. epoch' = epoch /\ starts' = starts BY <1>3 DEF Stopped, threads, writing
  <2>2. Pend(e)' <= Pend(e) /\ Pend(Other(e))' <= Pend(Other(e)) BY <1>3 DEF Stopped, threads, writing
  <2> QED BY <2>1, <2>2, <1>q
<1>4. CASE Complete(e)
  <2>1. epoch' = epoch /\ starts' = starts BY <1>4 DEF Complete, threads, writing
  <2>2. Pend(e)' <= Pend(e) /\ Pend(Other(e))' <= Pend(Other(e)) BY <1>4 DEF Complete, threads, writing
  <2> QED BY <2>1, <2>2, <1>q
<1>5. CASE CompleteFails(e)
  <2>1. epoch' = epoch /\ starts' = starts BY <1>5 DEF CompleteFails, threads, writing
  <2>2. Pend(e)' <= Pend(e) /\ Pend(Other(e))' <= Pend(Other(e)) BY <1>5 DEF CompleteFails, threads, writing
  <2> QED BY <2>1, <2>2, <1>q
<1>6. CASE Configure(e)
  <2>1. epoch' = epoch /\ starts' = starts BY <1>6 DEF Configure, threads, writing
  <2>2. Pend(e)' <= Pend(e) /\ Pend(Other(e))' <= Pend(Other(e)) BY <1>6 DEF Configure, threads, writing
  <2> QED BY <2>1, <2>2, <1>q
<1>7. CASE Drop(e)
  <2>1. epoch' = epoch /\ starts' = starts BY <1>7 DEF Drop, threads, writing
  <2>2. Pend(e)' <= Pend(e) /\ Pend(Other(e))' <= Pend(Other(e)) BY <1>7 DEF Drop, threads, writing
  <2> QED BY <2>1, <2>2, <1>q
<1>8. CASE OpenStream(e)
  <2>1. epoch' = epoch + 1 /\ starts' = starts BY <1>8 DEF OpenStream, control, Run, writing
  <2>2. Pend(e) = 1 /\ Pend(e)' = 0 /\ Pend(Other(e))' = Pend(Other(e)) BY <1>8 DEF OpenStream, control, Run, writing
  <2> QED BY <2>1, <2>2, <1>0
<1>9. CASE Transfer(e)
  <2>1. epoch' = epoch /\ starts' = starts BY <1>9 DEF Transfer, control, Run, writing
  <2>2. Pend(e)' <= Pend(e) /\ Pend(Other(e))' <= Pend(Other(e)) BY <1>9 DEF Transfer, control, Run, writing
  <2> QED BY <2>1, <2>2, <1>q
<1>10. CASE CancelStream(e)
  <2>1. epoch' = epoch /\ starts' = starts BY <1>10 DEF CancelStream, control, writing
  <2>2. Pend(e)' <= Pend(e) /\ Pend(Other(e))' <= Pend(Other(e)) BY <1>10 DEF CancelStream, control, writing
  <2> QED BY <2>1, <2>2, <1>q
<1>11. CASE EndThread(e)
  <2>1. epoch' = epoch /\ starts' = starts BY <1>11 DEF EndThread
  <2>2. Pend(e)' <= Pend(e) /\ Pend(Other(e))' <= Pend(Other(e)) BY <1>11 DEF EndThread
  <2> QED BY <2>1, <2>2, <1>q
<1>12. CASE NewKey(e)
  <2>1. epoch' = epoch /\ starts' = starts BY <1>12 DEF NewKey, control
  <2>2. Pend(e)' <= Pend(e) /\ Pend(Other(e))' <= Pend(Other(e)) BY <1>12 DEF NewKey, control
  <2> QED BY <2>1, <2>2, <1>q
<1>13. CASE KeepKey(e)
  <2>1. epoch' = epoch /\ starts' = starts BY <1>13 DEF KeepKey, control, writing
  <2>2. Pend(e)' <= Pend(e) /\ Pend(Other(e))' <= Pend(Other(e)) BY <1>13 DEF KeepKey, control, writing
  <2> QED BY <2>1, <2>2, <1>q
<1>14. CASE Encrypt(e)
  <2>1. epoch' = epoch /\ starts' = starts BY <1>14 DEF Encrypt, control
  <2>2. Pend(e)' <= Pend(e) /\ Pend(Other(e))' <= Pend(Other(e)) BY <1>14 DEF Encrypt, control
  <2> QED BY <2>1, <2>2, <1>q
<1>15. CASE NothingToRead(e)
  <2>1. epoch' = epoch /\ starts' = starts BY <1>15 DEF NothingToRead, control, writing
  <2>2. Pend(e)' <= Pend(e) /\ Pend(Other(e))' <= Pend(Other(e)) BY <1>15 DEF NothingToRead, control, writing
  <2> QED BY <2>1, <2>2, <1>q
<1>16. CASE Decrypt(e)
  <2>1. epoch' = epoch /\ starts' = starts BY <1>16 DEF Decrypt, control, writing
  <2>2. Pend(e)' <= Pend(e) /\ Pend(Other(e))' <= Pend(Other(e)) BY <1>16 DEF Decrypt, control, writing
  <2> QED BY <2>1, <2>2, <1>q
<1>17. CASE EndReader(e)
  <2>1. epoch' = epoch /\ starts' = starts BY <1>17 DEF EndReader, control, writing
  <2>2. Pend(e)' <= Pend(e) /\ Pend(Other(e))' <= Pend(Other(e)) BY <1>17 DEF EndReader, control, writing
  <2> QED BY <2>1, <2>2, <1>q
<1>18. CASE NoNewKey(e)
  <2>1. epoch' = epoch /\ starts' = starts BY <1>18 DEF NoNewKey, control, threads
  <2>2. Pend(e)' <= Pend(e) /\ Pend(Other(e))' <= Pend(Other(e)) BY <1>18 DEF NoNewKey, control, threads
  <2> QED BY <2>1, <2>2, <1>q
<1> QED BY <1>1, <1>2, <1>3, <1>4, <1>5, <1>6, <1>7, <1>8, <1>9, <1>10, <1>11, <1>12, <1>13,
           <1>14, <1>15, <1>16, <1>17, <1>18
        DEF Action, StartStep, ThreadStep, WriterStep, ReaderStep

-----------------------------------------------------------------------------
(* What the steps do to packets and keys.                                   *)

\* The fields of a message are numbers.
LEMMA MessageFields ==
  ASSUME NEW m \in Message
  PROVE  m.packet \in Nat /\ m.epoch \in Nat /\ m.key \in 1..MaxKeys /\ m.key \in Nat
BY KeyBound DEF Message

\* What is on the wire and what was delivered are sequences of messages.
LEMMA PacketFields ==
  ASSUME PacketsOK, NEW x \in Ends
  PROVE  /\ Len(wire[x]) \in Nat /\ Len(delivered[x]) \in Nat
         /\ wire[x] \in Seq(Message) /\ delivered[x] \in Seq(Message)
         /\ \A i \in 1..Len(wire[x]) : wire[x][i] \in Message
         /\ \A i \in 1..Len(delivered[x]) : delivered[x][i] \in Message
         /\ delivered[x] # <<>> => Len(delivered[x]) > 0 /\ LastOne(x) \in Message
BY DEF PacketsOK, LastOne

\* A packet is sent, or lost with the stream.
Encrypted(e) ==
  LET o == Other(e)  m == [packet |-> sent[e] + 1, key |-> writeKey[e], epoch |-> epoch] IN
         /\ sent[e] + 1 <= MaxPackets /\ writeKey[e] # 0 /\ used[e] < MaxBytes
         /\ sent' = Set(sent, e, sent[e] + 1) /\ used' = Set(used, e, used[e] + 1)
         /\ \/ stream # "up" /\ wire' = wire
            \/ /\ stream = "up" /\ m \in Message /\ wire' \in [Ends -> Seq(Message)]
               /\ wire'[e] = wire[e] /\ Len(wire'[o]) = Len(wire[o]) + 1
               /\ \A i \in 1..Len(wire[o]) : wire'[o][i] = wire[o][i]
               /\ wire'[o][Len(wire[o]) + 1] = m
               /\ ToSet(wire'[o]) = ToSet(wire[o]) \union {m}
         /\ UNCHANGED <<control, thread, reader, stream, writeKey, reading, keys, epoch, bounds>>

\* A packet is read and given to the client, or the reader ends.
Decrypted(e) ==
  LET o == Other(e)  m == wire[e][1] IN
         /\ reader[e] = "on" /\ stream = "up" /\ Len(wire[e]) > 0 /\ m \in Message
         /\ wire' \in [Ends -> Seq(Message)]
         /\ wire'[o] = wire[o] /\ Len(wire'[e]) = Len(wire[e]) - 1
         /\ \A i \in 1..Len(wire'[e]) : wire'[e][i] = wire[e][i + 1]
         /\ ToSet(wire[e]) = ToSet(wire'[e]) \union {m}
         /\ \/ /\ reader' = Set(reader, e, "ended") /\ delivered' = delivered
               /\ readKey' = readKey \/ (readKey' = Set(readKey, e, 0) /\ m.key # readKey[e])
            \/ /\ reader' = reader
               /\ m.key = readKey[e] \/ m.key \notin Redeemed(e)
               /\ readKey' = Set(readKey, e, m.key)
               /\ delivered' \in [Ends -> Seq(Message)]
               /\ delivered'[o] = delivered[o] /\ Len(delivered'[e]) = Len(delivered[e]) + 1
               /\ \A i \in 1..Len(delivered[e]) : delivered'[e][i] = delivered[e][i]
               /\ delivered'[e][Len(delivered[e]) + 1] = m
               /\ ToSet(delivered'[e]) = ToSet(delivered[e]) \union {m}
         /\ UNCHANGED <<control, thread, writer, stream, writing, keys, epoch>>

\* Encrypt does what Encrypted says.
LEMMA EncryptFacts ==
  ASSUME ControlOK, NumbersOK, PacketsOK, \A x \in Ends : ThreadsFit(x), StreamFits, epoch \in 0..MaxStarts,
         NEW e \in Ends, Encrypt(e)
  PROVE  Encrypted(e)
<1> DEFINE o == Other(e)
<1> DEFINE m == [packet |-> sent[e] + 1, key |-> writeKey[e], epoch |-> epoch]
<1>1. sent[e] + 1 <= MaxPackets
  <2>1. sent["a"] + sent["b"] < MaxPackets BY DEF Encrypt
  <2>2. sent["a"] \in Nat /\ sent["b"] \in Nat BY TwoEnds, KeyBound DEF NumbersOK
  <2> QED BY <2>1, <2>2, KeyBound DEF Ends
<1>2. writeKey[e] # 0 /\ used[e] < MaxBytes BY DEF Encrypt, ThreadsFit
<1>3. /\ sent' = Set(sent, e, sent[e] + 1) /\ used' = Set(used, e, used[e] + 1)
      /\ UNCHANGED <<control, thread, reader, stream, writeKey, reading, keys, epoch, bounds>>
  BY DEF Encrypt, Fault, bounds
<1>4. CASE stream # "up"
  <2>1. wire' = wire BY <1>4 DEF Encrypt
  <2> QED BY <1>1, <1>2, <1>3, <1>4, <2>1 DEF Encrypted
<1>5. CASE stream = "up"
  <2>1. m \in Message
    <3>1. epoch \in 1..MaxStarts BY <1>5, KeyBound DEF StreamFits
    <3>2. writeKey[e] \in 1..MaxKeys BY <1>2, KeyBound DEF NumbersOK
    <3>3. sent[e] + 1 \in 1..MaxPackets BY <1>1, KeyBound DEF NumbersOK
    <3> QED BY <3>1, <3>2, <3>3 DEF Message
  <2>2. wire' = [wire EXCEPT ![o] = Append(wire[o], m)] BY <1>5 DEF Encrypt
  <2> HIDE DEF m
  <2>3. wire[o] \in Seq(Message) /\ o \in Ends /\ o # e BY TwoEnds DEF PacketsOK
  <2>4. /\ Append(wire[o], m) \in Seq(Message) /\ Len(Append(wire[o], m)) = Len(wire[o]) + 1
        /\ \A i \in 1..Len(wire[o]) : Append(wire[o], m)[i] = wire[o][i]
        /\ Append(wire[o], m)[Len(wire[o]) + 1] = m
    BY <2>1, <2>3
  <2>5. ToSet(Append(wire[o], m)) = ToSet(wire[o]) \union {m}
    <3>1. Len(wire[o]) \in Nat /\ DOMAIN wire[o] = 1..Len(wire[o]) BY <2>3
    <3>2. DOMAIN Append(wire[o], m) = 1..(Len(wire[o]) + 1) BY <2>4
    <3>3. 1..(Len(wire[o]) + 1) = 1..Len(wire[o]) \union {Len(wire[o]) + 1} BY <3>1
    <3> HIDE DEF o
    <3> DEFINE T == Append(wire[o], m)
    <3>4. \A i \in 1..Len(wire[o]) : T[i] = wire[o][i] BY <2>4
    <3>5. T[Len(wire[o]) + 1] = m /\ DOMAIN T = 1..Len(wire[o]) \union {Len(wire[o]) + 1} BY <2>4, <3>2, <3>3
    <3> HIDE DEF T
    <3>6. ToSet(T) = ToSet(wire[o]) \union {m} BY <3>1, <3>4, <3>5 DEF ToSet
    <3> QED BY <3>6 DEF T
  <2>6. wire' \in [Ends -> Seq(Message)] /\ wire'[o] = Append(wire[o], m) /\ wire'[e] = wire[e]
    BY <2>2, <2>3, <2>4 DEF PacketsOK
  <2> QED BY <1>1, <1>2, <1>3, <1>5, <2>1, <2>4, <2>5, <2>6 DEF m, Encrypted
<1> QED BY <1>4, <1>5

\* Decrypt does what Decrypted says.
LEMMA DecryptFacts ==
  ASSUME ControlOK, NumbersOK, PacketsOK, NEW e \in Ends, Decrypt(e)
  PROVE  Decrypted(e)
<1> DEFINE o == Other(e)
<1> DEFINE W == wire[e]
<1> DEFINE D == delivered[e]
<1> DEFINE m == Head(W)
<1>1. /\ reader[e] = "on" /\ stream = "up" /\ W # <<>> /\ wire' = Set(wire, e, Tail(W))
      /\ UNCHANGED <<control, thread, writer, stream, writing, keys, epoch>>
  BY DEF Decrypt
<1>2. \/ reader' = Set(reader, e, "ended") /\ delivered' = delivered /\ readKey' = readKey
      \/ /\ reader' = Set(reader, e, "ended") /\ delivered' = delivered /\ m.key # readKey[e]
         /\ readKey' = Set(readKey, e, 0)
      \/ /\ reader' = reader /\ (m.key = readKey[e] \/ m.key \notin Redeemed(e))
         /\ readKey' = Set(readKey, e, m.key)
         /\ delivered' = Set(delivered, e, Append(D, m))
  BY DEF Decrypt, reading
<1>3. W \in Seq(Message) /\ D \in Seq(Message) /\ o \in Ends /\ o # e BY TwoEnds DEF PacketsOK
<1>4. /\ Len(W) > 0 /\ m = W[1] /\ m \in Message
      /\ Tail(W) \in Seq(Message) /\ Len(Tail(W)) = Len(W) - 1
      /\ \A i \in 1..Len(Tail(W)) : Tail(W)[i] = W[i + 1]
  BY <1>1, <1>3
<1>5. /\ wire' \in [Ends -> Seq(Message)] /\ wire'[e] = Tail(W) /\ wire'[o] = wire[o]
  BY <1>1, <1>3, <1>4 DEF PacketsOK, Set
<1>6. ToSet(W) = ToSet(Tail(W)) \union {m}
  <2> DEFINE T == Tail(W)
  <2>1. DOMAIN W = 1..Len(W) /\ DOMAIN T = 1..(Len(W) - 1) /\ Len(W) \in Nat /\ Len(W) > 0 BY <1>3, <1>4
  <2>2. m = W[1] /\ \A i \in 1..(Len(W) - 1) : T[i] = W[i + 1] BY <1>4
  <2> HIDE DEF T, W, m
  <2>3. ASSUME NEW v \in ToSet(W) PROVE v \in ToSet(T) \union {m}
    <3>1. PICK i \in 1..Len(W) : v = W[i] BY <2>1, <2>3 DEF ToSet
    <3>2. CASE i = 1 BY <3>1, <3>2, <2>2
    <3>3. CASE i # 1
      <4>1. i - 1 \in 1..(Len(W) - 1) /\ (i - 1) + 1 = i BY <2>1, <3>3
      <4>2. T[i - 1] = W[i] BY <2>2, <4>1
      <4> QED BY <3>1, <4>1, <4>2, <2>1 DEF ToSet
    <3> QED BY <3>2, <3>3
  <2>4. ASSUME NEW v \in ToSet(T) \union {m} PROVE v \in ToSet(W)
    <3>1. CASE v = m BY <3>1, <2>1, <2>2 DEF ToSet
    <3>2. CASE v \in ToSet(T)
      <4>1. PICK i \in 1..(Len(W) - 1) : v = T[i] BY <2>1, <3>2 DEF ToSet
      <4>2. i + 1 \in 1..Len(W) /\ W[i + 1] = v BY <2>1, <2>2, <4>1
      <4> QED BY <4>2, <2>1 DEF ToSet
    <3> QED BY <2>4, <3>1, <3>2
  <2> QED BY <2>3, <2>4 DEF T
<1>7. CASE delivered' = Set(delivered, e, Append(D, m))
  <2>1. /\ Append(D, m) \in Seq(Message) /\ Len(Append(D, m)) = Len(D) + 1
        /\ \A i \in 1..Len(D) : Append(D, m)[i] = D[i]
        /\ Append(D, m)[Len(D) + 1] = m
    BY <1>3, <1>4
  <2>2. /\ delivered' \in [Ends -> Seq(Message)] /\ delivered'[e] = Append(D, m)
        /\ delivered'[o] = delivered[o]
    BY <1>3, <1>7, <2>1 DEF PacketsOK, Set
  <2>3. ToSet(Append(D, m)) = ToSet(D) \union {m}
    <3>1. Len(D) \in Nat /\ DOMAIN D = 1..Len(D) BY <1>3
    <3>2. DOMAIN Append(D, m) = 1..(Len(D) + 1) BY <2>1
    <3>3. 1..(Len(D) + 1) = 1..Len(D) \union {Len(D) + 1} BY <3>1
    <3> DEFINE T == Append(D, m)
    <3>4. \A i \in 1..Len(D) : T[i] = D[i] BY <2>1
    <3>5. T[Len(D) + 1] = m /\ DOMAIN T = 1..Len(D) \union {Len(D) + 1} BY <2>1, <3>2, <3>3
    <3> HIDE DEF T, D, m
    <3>6. ToSet(T) = ToSet(D) \union {m} BY <3>1, <3>4, <3>5 DEF ToSet
    <3> QED BY <3>6 DEF T
  <2> HIDE DEF o, W, D, m
  <2>4. /\ Len(delivered'[e]) = Len(D) + 1 /\ \A i \in 1..Len(D) : delivered'[e][i] = D[i]
        /\ delivered'[e][Len(D) + 1] = m /\ ToSet(delivered'[e]) = ToSet(D) \union {m}
    BY <2>1, <2>2, <2>3
  <2>5. CASE /\ reader' = reader /\ (m.key = readKey[e] \/ m.key \notin Redeemed(e))
             /\ readKey' = Set(readKey, e, m.key)
    BY <1>1, <1>4, <1>5, <1>6, <2>2, <2>4, <2>5 DEF o, W, D, m, Decrypted
  <2>6. CASE /\ reader' = Set(reader, e, "ended") /\ delivered' = delivered
             /\ readKey' = readKey \/ (readKey' = Set(readKey, e, 0) /\ m.key # readKey[e])
    BY <1>1, <1>4, <1>5, <1>6, <2>6 DEF o, W, m, Decrypted
  <2> QED BY <1>2, <2>5, <2>6
<1>8. CASE delivered' # Set(delivered, e, Append(D, m))
  <2> HIDE DEF o, W, D, m
  <2>1. /\ reader' = Set(reader, e, "ended") /\ delivered' = delivered
        /\ readKey' = readKey \/ (readKey' = Set(readKey, e, 0) /\ m.key # readKey[e])
    BY <1>2, <1>8
  <2> QED BY <1>1, <1>4, <1>5, <1>6, <2>1 DEF o, W, m, Decrypted
<1> QED BY <1>7, <1>8

\* A step sends and delivers nothing; the wire may be cleared.
Quiet(x) ==
  /\ sent' = sent /\ delivered' = delivered
  /\ wire' = wire \/ (wire' = Nothing /\ stream' # "up")
  /\ Reads(x)' => Reads(x) \/ wire'[x] = <<>>
  /\ \/ /\ epoch' = epoch
        /\ stream' = "up" => stream = "up" /\ wire' = wire /\ (Reads(x)' => Reads(x))
     \/ epoch' = epoch + 1 /\ wire' = wire /\ wire = Nothing

\* A step uses no key but a new one.
KeysQuiet(x) ==
  LET s == Other(x) IN
  /\ \/ writeKey'[s] = 0 /\ keys'[s] = keys[s]
     \/ writeKey'[s] = writeKey[s] /\ used'[s] = used[s] /\ keys'[s] = keys[s]
     \/ writeKey'[s] = keys[s] + 1 /\ keys'[s] = keys[s] + 1
  /\ readKey'[x] = readKey[x] \/ (stream' # "up" /\ wire'[x] = <<>>)
  /\ stream' = "up" /\ writeKey'[s] # 0 => stream = "up"

\* Every other step is quiet for the packets ...
LEMMA QuietStep ==
  ASSUME ControlOK, \A x \in Ends : ThreadsFit(x), StreamFits, epoch \in Nat,
         NEW e \in Ends, Action(e), ~Encrypt(e), ~Decrypt(e), NEW x \in Ends
  PROVE  Quiet(x)
<1> USE TwoEnds DEF ControlOK, ThreadsFit, StreamFits, Quiet, Reads, Set, writing, reading
<1>1. CASE StartTunnel(e) BY <1>1 DEF StartTunnel, threads, writing
<1>2. CASE StopTunnel(e) BY <1>2 DEF StopTunnel, threads, writing
<1>3. CASE Stopped(e) BY <1>3 DEF Stopped, threads, writing
<1>4. CASE Complete(e) BY <1>4 DEF Complete, threads, writing
<1>5. CASE CompleteFails(e) BY <1>5 DEF CompleteFails, threads, writing
<1>6. CASE Configure(e)
  <2>1. stream # "up" /\ wire = Nothing BY <1>6 DEF Configure
  <2>2. UNCHANGED <<sent, delivered, wire, stream, epoch>> BY <1>6 DEF Configure, writing, reading
  <2>3. wire'[x] = <<>> BY <2>1, <2>2 DEF Nothing
  <2> QED BY <2>1, <2>2, <2>3
<1>7. CASE Drop(e) BY <1>7 DEF Drop, threads, writing
<1>8. CASE OpenStream(e)
  <2>1. stream # "up" /\ wire = Nothing BY <1>8 DEF OpenStream
  <2>2. UNCHANGED <<sent, delivered, wire>> /\ epoch' = epoch + 1 BY <1>8 DEF OpenStream, Run
  <2>3. wire'[x] = <<>> BY <2>1, <2>2 DEF Nothing
  <2> QED BY <2>1, <2>2, <2>3
<1>9. CASE Transfer(e) BY <1>9 DEF Transfer, control, Run, writing
<1>10. CASE CancelStream(e) BY <1>10 DEF CancelStream, control, writing
<1>11. CASE EndThread(e) BY <1>11 DEF EndThread
<1>12. CASE NewKey(e) BY <1>12 DEF NewKey, control
<1>13. CASE KeepKey(e) BY <1>13 DEF KeepKey, control, writing
<1>15. CASE NothingToRead(e) BY <1>15 DEF NothingToRead, control, writing
<1>17. CASE EndReader(e) BY <1>17 DEF EndReader, control, writing
<1>18. CASE NoNewKey(e) BY <1>18 DEF NoNewKey, control, threads
<1> QED BY <1>1, <1>2, <1>3, <1>4, <1>5, <1>6, <1>7, <1>8, <1>9, <1>10, <1>11, <1>12, <1>13,
           <1>15, <1>17, <1>18
        DEF Action, StartStep, ThreadStep, WriterStep, ReaderStep

\* ... and for the keys.
LEMMA KeysQuietStep ==
  ASSUME ControlOK, NumbersOK, \A x \in Ends : ThreadsFit(x), StreamFits, epoch \in Nat,
         NEW e \in Ends, Action(e), ~Encrypt(e), ~Decrypt(e), NEW x \in Ends
  PROVE  KeysQuiet(x)
<1> USE TwoEnds, KeyBound DEF ControlOK, NumbersOK, ThreadsFit, StreamFits, KeysQuiet, Nothing, Set, writing, reading
<1>1. CASE StartTunnel(e) BY <1>1 DEF StartTunnel, threads, writing
<1>2. CASE StopTunnel(e) BY <1>2 DEF StopTunnel, threads, writing
<1>3. CASE Stopped(e) BY <1>3 DEF Stopped, threads, writing
<1>4. CASE Complete(e) BY <1>4 DEF Complete, threads, writing
<1>5. CASE CompleteFails(e) BY <1>5 DEF CompleteFails, threads, writing
<1>6. CASE Configure(e) BY <1>6 DEF Configure, threads, writing
<1>7. CASE Drop(e) BY <1>7 DEF Drop, threads, writing
<1>8. CASE OpenStream(e)
  <2>1. UNCHANGED <<writeKey, used, keys, readKey>> BY <1>8 DEF OpenStream, Run
  <2>2. stream' = "up" => writeKey[e] = 0 /\ writeKey[Other(e)] = 0 BY <1>8 DEF OpenStream
  <2> DEFINE s == Other(x)
  <2>3. s \in Ends /\ (s = e \/ s = Other(e))
    <3> HIDE DEF StreamFits, ThreadsFit, ControlOK, NumbersOK, KeysQuiet
    <3> QED BY TwoEnds DEF s
  <2> HIDE DEF s, StreamFits, ThreadsFit, ControlOK
  <2>4. KeysQuiet(x) <=>
          /\ \/ writeKey'[s] = 0 /\ keys'[s] = keys[s]
             \/ writeKey'[s] = writeKey[s] /\ used'[s] = used[s] /\ keys'[s] = keys[s]
             \/ writeKey'[s] = keys[s] + 1 /\ keys'[s] = keys[s] + 1
          /\ readKey'[x] = readKey[x] \/ (stream' # "up" /\ wire'[x] = <<>>)
          /\ stream' = "up" /\ writeKey'[s] # 0 => stream = "up"
    BY DEF s
  <2> HIDE DEF KeysQuiet
  <2> QED BY <2>1, <2>2, <2>3, <2>4
<1>9. CASE Transfer(e) BY <1>9 DEF Transfer, control, Run, writing
<1>10. CASE CancelStream(e) BY <1>10 DEF CancelStream, control, writing
<1>11. CASE EndThread(e)
  <2>1. stream # "up" /\ wire = Nothing
    <3> HIDE DEF Nothing, NumbersOK, KeysQuiet, ThreadsFit
    <3>1. thread[e] = "joining" BY <1>11 DEF EndThread
    <3> QED BY <3>1
  <2>2. UNCHANGED <<stream, wire, keys>> BY <1>11 DEF EndThread
  <2>3. stream' # "up" /\ wire'[x] = <<>> BY <2>1, <2>2
  <2>4. /\ writeKey' = Set(writeKey, e, 0) /\ used' = Set(used, e, 0) /\ readKey' = Set(readKey, e, 0)
    BY <1>11 DEF EndThread
  <2> QED BY <2>2, <2>3, <2>4
<1>12. CASE NewKey(e)
  <2>1. UNCHANGED <<stream, wire, readKey>> BY <1>12 DEF NewKey
  <2>2. /\ keys' = Set(keys, e, keys[e] + 1) /\ writeKey' = Set(writeKey, e, keys[e] + 1)
        /\ used' = Set(used, e, 0)
    BY <1>12 DEF NewKey
  <2>3. stream = "up" \/ ~(stream' = "up") BY <2>1
  <2> DEFINE s == Other(x)
  <2>4. s \in Ends /\ (s = e \/ s = Other(e))
    <3> HIDE DEF StreamFits, ThreadsFit, ControlOK, NumbersOK, KeysQuiet
    <3> QED BY TwoEnds DEF s
  <2>5. \/ writeKey'[s] = writeKey[s] /\ used'[s] = used[s] /\ keys'[s] = keys[s]
        \/ writeKey'[s] = keys[s] + 1 /\ keys'[s] = keys[s] + 1
    <3> HIDE DEF s, StreamFits, ThreadsFit, ControlOK, KeysQuiet
    <3> QED BY <2>2, <2>4
  <2> QED BY <2>1, <2>5
<1>13. CASE KeepKey(e) BY <1>13 DEF KeepKey, control, writing
<1>15. CASE NothingToRead(e) BY <1>15 DEF NothingToRead, control, writing
<1>17. CASE EndReader(e) BY <1>17 DEF EndReader, control, writing
<1>18. CASE NoNewKey(e) BY <1>18 DEF NoNewKey, control, threads
<1> QED BY <1>1, <1>2, <1>3, <1>4, <1>5, <1>6, <1>7, <1>8, <1>9, <1>10, <1>11, <1>12, <1>13,
           <1>15, <1>17, <1>18
        DEF Action, StartStep, ThreadStep, WriterStep, ReaderStep

\* Quiet steps keep the counters in their ranges.
LEMMA NumbersQuiet ==
  ASSUME ControlOK, NumbersOK, NEW e \in Ends, Action(e), ~Encrypt(e), ~Decrypt(e)
  PROVE  NumbersOK'
<1> USE TwoEnds, KeyBound DEF NumbersOK, Set, writing, reading
<1>1. CASE StartTunnel(e) BY <1>1 DEF StartTunnel, threads, writing
<1>2. CASE StopTunnel(e) BY <1>2 DEF StopTunnel, threads, writing
<1>3. CASE Stopped(e) BY <1>3 DEF Stopped, threads, writing
<1>4. CASE Complete(e) BY <1>4 DEF Complete, threads, writing
<1>5. CASE CompleteFails(e) BY <1>5 DEF CompleteFails, threads, writing
<1>6. CASE Configure(e) BY <1>6 DEF Configure, threads, writing
<1>7. CASE Drop(e) BY <1>7 DEF Drop, threads, writing
<1>8. CASE OpenStream(e) BY <1>8 DEF OpenStream, control, Run, writing
<1>9. CASE Transfer(e) BY <1>9 DEF Transfer, control, Run, writing
<1>10. CASE CancelStream(e) BY <1>10 DEF CancelStream, control, writing
<1>11. CASE EndThread(e) BY <1>11 DEF EndThread
<1>12. CASE NewKey(e) BY <1>12 DEF NewKey, control
<1>13. CASE KeepKey(e) BY <1>13 DEF KeepKey, control, writing
<1>15. CASE NothingToRead(e) BY <1>15 DEF NothingToRead, control, writing
<1>17. CASE EndReader(e) BY <1>17 DEF EndReader, control, writing
<1>18. CASE NoNewKey(e) BY <1>18 DEF NoNewKey, control, threads
<1> QED BY <1>1, <1>2, <1>3, <1>4, <1>5, <1>6, <1>7, <1>8, <1>9, <1>10, <1>11, <1>12, <1>13,
           <1>15, <1>17, <1>18
        DEF Action, StartStep, ThreadStep, WriterStep, ReaderStep

-----------------------------------------------------------------------------
(* The packets arrive in order.                                             *)

\* A quiet step leaves the packets on the wire next to those delivered.
LEMMA OrderQuiet ==
  ASSUME ControlOK, PacketsOK, NumbersOK, epoch \in Nat, NEW x \in Ends, Quiet(x), OnWire(x), LastGiven(x)
  PROVE  OnWire(x)' /\ LastGiven(x)'
<1>1. OnWire(x)'
  <2>1. CASE wire' = Nothing BY <2>1 DEF OnWire, Nothing
  <2>2. CASE wire' = wire /\ wire # Nothing BY <2>2 DEF OnWire, Quiet
  <2> QED BY <2>1, <2>2 DEF Quiet
<1>2. LastGiven(x)'
  <2> DEFINE l == LastOne(x)
  <2>0. delivered' = delivered /\ sent' = sent BY DEF Quiet
  <2> SUFFICES ASSUME delivered[x] # <<>> PROVE LastGiven(x)'
    BY <2>0 DEF LastGiven
  <2>1. l \in Message /\ sent[Other(x)] \in Nat /\ l.packet \in Nat /\ l.epoch \in Nat /\ l' = l
    <3>1. sent[Other(x)] \in Nat BY KeyBound, TwoEnds DEF NumbersOK
    <3>2. l' = l BY <2>0 DEF LastOne
    <3> QED BY <3>1, <3>2, PacketFields, MessageFields
  <2>2. /\ l.epoch <= epoch /\ l.packet <= sent[Other(x)]
        /\ Reads(x) => l.packet + Len(wire[x]) <= sent[Other(x)]
        /\ Reads(x) /\ stream = "up" /\ l.epoch = epoch => l.packet + Len(wire[x]) = sent[Other(x)]
    BY DEF LastGiven
  <2>3. Len(wire'[x]) <= Len(wire[x]) /\ Len(wire[x]) \in Nat /\ (wire'[x] = <<>> => Len(wire'[x]) = 0)
        /\ (wire' = wire => Len(wire'[x]) = Len(wire[x]))
    BY DEF Quiet, Nothing, PacketsOK
  <2> HIDE DEF l
  <2>4. epoch' >= epoch BY DEF Quiet
  <2>5. Reads(x)' => l.packet + Len(wire'[x]) <= sent[Other(x)]
    <3>1. CASE Reads(x) BY <3>1, <2>1, <2>2, <2>3
    <3>2. CASE ~Reads(x) BY <3>2, <2>1, <2>2, <2>3 DEF Quiet
    <3> QED BY <3>1, <3>2
  <2>6. ASSUME Reads(x)', stream' = "up", l.epoch = epoch' PROVE l.packet + Len(wire'[x]) = sent[Other(x)]
    <3>1. epoch' = epoch BY <2>1, <2>2, <2>6 DEF Quiet
    <3>2. wire' = wire /\ Reads(x) /\ stream = "up" BY <3>1, <2>6 DEF Quiet
    <3> QED BY <3>1, <3>2, <2>2, <2>3, <2>6
  <2>7. l.epoch <= epoch' /\ l.packet <= sent'[Other(x)] BY <2>0, <2>1, <2>2, <2>4 DEF Quiet
  <2> QED BY <2>0, <2>1, <2>5, <2>6, <2>7 DEF LastGiven, l
<1> QED BY <1>1, <1>2

\* A packet which is sent is the next one on the wire.
LEMMA OrderEncrypt ==
  ASSUME ControlOK, PacketsOK, NumbersOK, epoch \in Nat, NEW e \in Ends, Encrypted(e), NEW x \in Ends,
         StreamFits, OnWire(x), LastGiven(x)
  PROVE  OnWire(x)' /\ LastGiven(x)'
<1> DEFINE o == Other(e)
<1> DEFINE m == [packet |-> sent[e] + 1, key |-> writeKey[e], epoch |-> epoch]
<1>1. /\ sent' = Set(sent, e, sent[e] + 1) /\ o \in Ends /\ o # e /\ Other(o) = e
      /\ UNCHANGED <<thread, reader, stream, delivered, epoch>>
  BY TwoEnds DEF Encrypted, reading
<1>2. x = e \/ x = o BY TwoEnds
<1>3. sent'[e] = sent[e] + 1 /\ sent'[o] = sent[o] /\ sent[e] \in Nat /\ sent[o] \in Nat
  BY <1>1, KeyBound DEF Set, NumbersOK
<1>4. (Reads(x)' <=> Reads(x)) /\ delivered'[x] = delivered[x] /\ (delivered[x] # <<>> => LastOne(x)' = LastOne(x))
  BY <1>1 DEF Reads, LastOne
<1>5. delivered[x] # <<>> => LastOne(x).packet \in Nat /\ LastOne(x).epoch \in Nat
  BY PacketFields, MessageFields
<1>6. CASE x = e
  <2>1. wire'[x] = wire[x] BY <1>6 DEF Encrypted
  <2>2. sent'[Other(x)] = sent[Other(x)] BY <1>3, <1>6
  <2> QED BY <2>1, <2>2, <1>1, <1>4, <1>5 DEF OnWire, LastGiven
<1>7. CASE x = o /\ stream # "up"
  <2>1. wire' = wire /\ wire[x] = <<>> /\ Len(wire[x]) = 0 BY <1>7 DEF Encrypted, StreamFits, Nothing
  <2>2. OnWire(x)' BY <2>1 DEF OnWire
  <2>3. LastGiven(x)'
    <3> SUFFICES ASSUME delivered[x] # <<>> PROVE LastGiven(x)' BY <1>4 DEF LastGiven
    <3>1. LastOne(x).epoch <= epoch /\ LastOne(x).packet <= sent[e] BY <1>1, <1>7 DEF LastGiven
    <3>2. LastOne(x)'.epoch <= epoch' /\ LastOne(x)'.packet + 0 <= sent'[e] BY <3>1, <1>1, <1>3,
           <1>4, <1>5
    <3>3. Other(x)' = e /\ Len(wire[x])' = 0 /\ stream' # "up" BY <1>1, <1>7, <2>1
    <3>4. LastOne(x)'.packet \in Nat BY <1>4, <1>5
    <3> QED BY <3>2, <3>3, <3>4, <1>1 DEF LastGiven
  <2> QED BY <2>2, <2>3
<1>8. CASE x = o /\ stream = "up"
  <2> DEFINE n == Len(wire[x])
  <2>1. /\ Len(wire'[x]) = n + 1 /\ \A i \in 1..n : wire'[x][i] = wire[x][i]
        /\ wire'[x][n + 1] = m /\ n \in Nat
    BY <1>7, <1>8 DEF Encrypted, PacketsOK
  <2>2. m.epoch = epoch /\ m.packet = sent[e] + 1 OBVIOUS
  <2>3. \A i \in 1..n : wire[x][i].epoch = epoch /\ wire[x][i].packet + (n - i) = sent[e]
                        /\ wire[x][i].packet \in Nat
    BY <1>1, <1>8, PacketFields, MessageFields DEF OnWire
  <2> HIDE DEF n, m
  <2>4. OnWire(x)'
    <3>1. ASSUME NEW i \in 1..(n + 1)
          PROVE  wire'[x][i].epoch = epoch /\ wire'[x][i].packet + ((n + 1) - i) = sent[e] + 1
      <4>1. CASE i = n + 1 BY <4>1, <2>1, <2>2, <1>3
      <4>2. CASE i # n + 1
        <5>1. i \in 1..n BY <4>2, <2>1
        <5>2. wire'[x][i] = wire[x][i] BY <5>1, <2>1
        <5>3. wire[x][i].epoch = epoch /\ wire[x][i].packet + (n - i) = sent[e] BY <5>1, <2>3
        <5>4. wire[x][i].packet \in Nat BY <5>1, <2>3
        <5>5. wire[x][i].packet + ((n + 1) - i) = (wire[x][i].packet + (n - i)) + 1 BY <5>4,
           <5>1, <2>1
        <5> QED BY <5>2, <5>3, <5>5
      <4> QED BY <4>1, <4>2
    <3> QED BY <3>1, <2>1, <1>1, <1>3, <1>8 DEF OnWire
  <2>5. LastGiven(x)'
    <3> SUFFICES ASSUME delivered[x] # <<>> PROVE LastGiven(x)' BY <1>4 DEF LastGiven
    <3>1. /\ LastOne(x).epoch <= epoch /\ LastOne(x).packet <= sent[e]
          /\ Reads(x) => LastOne(x).packet + n <= sent[e]
          /\ Reads(x) /\ LastOne(x).epoch = epoch => LastOne(x).packet + n = sent[e]
      BY <1>1, <1>8 DEF LastGiven, n
    <3>2. /\ LastOne(x)'.epoch <= epoch' /\ LastOne(x)'.packet <= sent'[e]
          /\ Reads(x)' => LastOne(x)'.packet + (n + 1) <= sent'[e]
          /\ Reads(x)' /\ LastOne(x)'.epoch = epoch' => LastOne(x)'.packet + (n + 1) = sent'[e]
      <4> DEFINE p == LastOne(x).packet
      <4>1. p \in Nat /\ LastOne(x)' = LastOne(x) /\ (Reads(x)' <=> Reads(x)) BY <1>4, <1>5
      <4> HIDE DEF p
      <4>2. /\ p <= sent[e] => p <= sent[e] + 1
            /\ p + n <= sent[e] => p + (n + 1) <= sent[e] + 1
            /\ p + n = sent[e] => p + (n + 1) = sent[e] + 1
        BY <4>1, <2>1, <1>3
      <4> QED BY <3>1, <1>1, <1>3, <4>1, <4>2 DEF p
    <3> QED BY <3>2, <2>1, <1>1, <1>8 DEF LastGiven
  <2> QED BY <2>4, <2>5
<1> QED BY <1>2, <1>6, <1>7, <1>8

\* A packet which is read leaves the rest next to what was delivered.
LEMMA OrderDecrypt ==
  ASSUME ControlOK, PacketsOK, NumbersOK, epoch \in Nat, NEW e \in Ends, Decrypted(e), NEW x \in Ends, ThreadsFit(e),
         OnWire(x), LastGiven(x)
  PROVE  OnWire(x)' /\ LastGiven(x)'
<1> DEFINE o == Other(e)
<1> DEFINE m == wire[e][1]
<1>1. /\ UNCHANGED <<thread, stream, sent, epoch>> /\ stream = "up" /\ reader[e] = "on"
      /\ o \in Ends /\ o # e
  BY TwoEnds DEF Decrypted, writing
<1>2. x = e \/ x = o BY TwoEnds
<1>3. CASE x = o
  <2>1. wire'[x] = wire[x] /\ delivered'[x] = delivered[x] BY <1>1, <1>3 DEF Decrypted
  <2>2. Reads(x)' => Reads(x)
    <3>1. reader' = reader \/ reader' = Set(reader, e, "ended") BY DEF Decrypted
    <3>2. reader \in [Ends -> {"off", "on", "ended"}] BY DEF ControlOK
    <3> QED BY <3>1, <3>2, <1>1, <1>3 DEF Reads, Set
  <2>3. delivered[x] # <<>> => LastOne(x)' = LastOne(x) BY <2>1 DEF LastOne
  <2> QED BY <1>1, <2>1, <2>2, <2>3 DEF OnWire, LastGiven
<1>4. CASE x = e
  <2> DEFINE n == Len(wire'[x])
  <2> DEFINE s == sent[Other(x)]
  <2>1. /\ n \in Nat /\ Len(wire[x]) = n + 1 /\ m \in Message /\ s \in Nat
        /\ \A i \in 1..n : wire'[x][i] = wire[x][i + 1]
    <3>1. /\ Len(wire'[x]) = Len(wire[x]) - 1 /\ m \in Message /\ Len(wire[x]) > 0
          /\ \A i \in 1..Len(wire'[x]) : wire'[x][i] = wire[x][i + 1]
      BY <1>4 DEF Decrypted
    <3>2. Len(wire[x]) \in Nat BY PacketFields
    <3>3. s \in Nat BY TwoEnds, KeyBound DEF NumbersOK
    <3> QED BY <3>1, <3>2, <3>3
  <2>2. \A i \in 1..(n + 1) : /\ wire[x][i] \in Message /\ wire[x][i].epoch = epoch
                              /\ wire[x][i].packet + ((n + 1) - i) = s
    BY <2>1, PacketFields DEF OnWire
  <2>3. Reads(x) BY <1>1, <1>4 DEF Reads
  <2>4. m.epoch = epoch /\ m.packet + n = s /\ m.packet \in Nat
    <3>1. m.epoch = epoch /\ m.packet + ((n + 1) - 1) = s BY <2>1, <2>2, <1>4
    <3>2. m.packet \in Nat BY <2>1, MessageFields
    <3> HIDE DEF n, s, m
    <3> QED BY <3>1, <3>2, <2>1
  <2> HIDE DEF n, s, m
  <2>5. OnWire(x)'
    <3>1. ASSUME NEW i \in 1..n PROVE wire'[x][i].epoch = epoch' /\ wire'[x][i].packet + (n - i) = s
      <4>1. i + 1 \in 1..(n + 1) /\ wire'[x][i] = wire[x][i + 1] BY <2>1
      <4>2. wire[x][i + 1].epoch = epoch /\ wire[x][i + 1].packet + ((n + 1) - (i + 1)) = s BY <4>1, <2>2
      <4>3. (n + 1) - (i + 1) = n - i BY <2>1
      <4> QED BY <4>1, <4>2, <4>3, <1>1
    <3>2. s = sent'[Other(x)] BY <1>1 DEF s
    <3> QED BY <3>1, <3>2 DEF OnWire, n
  <2>6. CASE /\ reader' = Set(reader, e, "ended") /\ delivered' = delivered
    <3>1. ~Reads(x)'
      <4>1. reader \in [Ends -> {"off", "on", "ended"}] BY DEF ControlOK
      <4>2. reader'[x] = "ended" /\ thread'[x] # "waiting" BY <4>1, <2>6, <1>1,
           <1>4 DEF Set, ThreadsFit
      <4> QED BY <4>2 DEF Reads
    <3>2. delivered[x] # <<>> => LastOne(x)' = LastOne(x) BY <2>6 DEF LastOne
    <3> QED BY <2>5, <2>6, <3>1, <3>2, <1>1 DEF LastGiven
  <2>7. CASE /\ Len(delivered'[e]) = Len(delivered[e]) + 1
             /\ delivered'[e][Len(delivered[e]) + 1] = m
    <3>1. LastOne(x)' = m BY <2>7, <1>4 DEF LastOne
    <3>2. m.epoch <= epoch' /\ m.packet <= s /\ m.packet + n = s BY <2>1, <2>4, <1>1
    <3>3. s = sent'[Other(x)] BY <1>1 DEF s
    <3>4. m.packet + n <= s BY <3>2, <2>1
    <3> QED BY <2>5, <3>1, <3>2, <3>3, <3>4 DEF LastGiven, n
  <2> QED BY <2>6, <2>7 DEF Decrypted, m
<1> QED BY <1>2, <1>3, <1>4

\* The packet which is delivered is the next one, or a later one of a later stream.
LEMMA PacketsInOrderDecrypt ==
  ASSUME PacketsOK, NumbersOK, epoch \in Nat, NEW e \in Ends, Decrypted(e),
         \A x \in Ends : OnWire(x) /\ LastGiven(x), PacketsInOrder
  PROVE  PacketsInOrder'
<1>1. SUFFICES ASSUME NEW x \in Ends, NEW i \in 1..(Len(delivered'[x]) - 1)
               PROVE  LET m == delivered'[x][i]  n == delivered'[x][i + 1] IN
                      IF m.epoch = n.epoch THEN n.packet = m.packet + 1 ELSE n.packet > m.packet
  BY DEF PacketsInOrder
<1> DEFINE D == delivered[x]
<1> DEFINE m == wire[e][1]
<1>2. CASE delivered'[x] = D
  BY <1>2 DEF PacketsInOrder
<1>3. CASE /\ x = e /\ Len(delivered'[x]) = Len(D) + 1
           /\ \A j \in 1..Len(D) : delivered'[x][j] = D[j]
           /\ delivered'[x][Len(D) + 1] = m
  <2>1. Len(D) \in Nat /\ i \in 1..Len(D) BY <1>3, PacketFields
  <2>2. CASE i < Len(D)
    <3>1. i \in 1..(Len(D) - 1) /\ i + 1 \in 1..Len(D) BY <2>1, <2>2
    <3> QED BY <3>1, <2>1, <1>3 DEF PacketsInOrder
  <2>3. CASE i = Len(D)
    <3>1. delivered'[x][i] = LastOne(e) /\ delivered'[x][i + 1] = m BY <2>1, <2>3, <1>3 DEF LastOne
    <3>2. delivered[e] # <<>> BY <2>1, <1>3
    <3>3. Reads(e) /\ stream = "up" /\ Len(wire[e]) > 0 BY DEF Decrypted, Reads
    <3> DEFINE l == LastOne(e)
    <3> DEFINE n == Len(wire[e])
    <3> DEFINE s == sent[Other(e)]
    <3>4. l.packet + n <= s /\ (l.epoch = epoch => l.packet + n = s)
      BY <3>2, <3>3 DEF LastGiven
    <3>5. n \in Nat /\ n > 0 /\ 1 \in 1..n BY <3>3, PacketFields
    <3>6. m.epoch = epoch /\ m.packet + (n - 1) = s BY <3>5 DEF OnWire
    <3>7. l.packet \in Nat /\ m.packet \in Nat BY <3>2, <3>5, PacketFields, MessageFields
    <3>8. s \in Nat BY TwoEnds, KeyBound DEF NumbersOK
    <3> HIDE DEF l, m, n, s
    <3>9. m.packet > l.packet /\ (l.epoch = m.epoch => m.packet = l.packet + 1)
      BY <3>4, <3>5, <3>6, <3>7, <3>8
    <3> QED BY <3>1, <3>9, <3>7 DEF l
  <2> QED BY <2>1, <2>2, <2>3
<1> QED BY <1>2, <1>3, TwoEnds DEF Decrypted

-----------------------------------------------------------------------------
(* The keys can be had.                                                     *)

\* A quiet step leaves the keys in order: a new one is larger than all before.
LEMMA KeyOrderQuiet ==
  ASSUME PacketsOK, NumbersOK, NEW x \in Ends, Quiet(x), KeysQuiet(x), KeyOrder(x)
  PROVE  KeyOrder(x)'
<1> DEFINE s == Other(x)
<1>1. /\ s \in Ends /\ keys[s] \in Nat /\ keys'[s] >= keys[s]
      /\ writeKey'[s] # 0 => writeKey'[s] = keys'[s]
      /\ delivered' = delivered
  <2>1. s \in Ends /\ keys[s] \in Nat BY TwoEnds, KeyBound DEF NumbersOK
  <2>2. delivered' = delivered BY DEF Quiet
  <2>3. writeKey[s] # 0 => writeKey[s] = keys[s] BY DEF KeyOrder
  <2> QED BY <2>1, <2>2, <2>3 DEF KeysQuiet
<1>2. \A i \in 1..Len(delivered[x]) : /\ delivered[x][i].key \in Nat /\ delivered[x][i].key <= keys[s]
                                      /\ delivered[x][i].key <= keys'[s]
  <2>1. \A i \in 1..Len(delivered[x]) : delivered[x][i].key \in Nat /\ delivered[x][i].key <= keys[s]
    BY PacketFields, MessageFields DEF KeyOrder
  <2>2. keys'[s] \in Nat BY <1>1 DEF KeysQuiet
  <2> QED BY <1>1, <2>1, <2>2
<1>3. stream' = "up" /\ writeKey'[s] # 0 => Fresh(x, writeKey[s])'
  <2> SUFFICES ASSUME stream' = "up", writeKey'[s] # 0
               PROVE  writeKey'[s] = readKey'[x] \/ \A i \in 1..Len(delivered[x]) : delivered[x][i].key < writeKey'[s]
    BY <1>1 DEF Fresh
  <2>1. stream = "up" /\ readKey'[x] = readKey[x] BY DEF KeysQuiet
  <2>2. CASE writeKey'[s] = writeKey[s] BY <2>1, <2>2 DEF KeyOrder, Fresh
  <2>3. CASE writeKey'[s] = keys[s] + 1 BY <2>3, <1>1, <1>2
  <2> QED BY <2>2, <2>3 DEF KeysQuiet
<1>4. CASE wire'[x] = <<>>
  BY <1>1, <1>2, <1>3, <1>4 DEF KeyOrder
<1>5. CASE wire'[x] # <<>>
  <2>1. wire'[x] = wire[x] /\ readKey'[x] = readKey[x] BY <1>5 DEF Quiet, KeysQuiet, Nothing
  <2>2. \A i \in 1..Len(wire[x]) : wire[x][i].key \in Nat /\ wire[x][i].key <= keys[s] /\ Fresh(x, wire[x][i].key)
    BY PacketFields, MessageFields DEF KeyOrder
  <2>3. \A i \in 1..Len(wire[x]) : wire[x][i].key <= keys'[s]
    <3>1. keys'[s] \in Nat BY <1>1 DEF KeysQuiet
    <3> QED BY <2>2, <1>1, <3>1
  <2>4. \A i \in 1..Len(wire[x]) : Fresh(x, wire[x][i].key)' BY <2>1, <2>2, <1>1 DEF Fresh
  <2> QED BY <1>1, <1>2, <1>3, <2>1, <2>3, <2>4 DEF KeyOrder
<1> QED BY <1>4, <1>5

\* A packet goes out with the latest key.
LEMMA KeyOrderEncrypt ==
  ASSUME PacketsOK, NumbersOK, NEW e \in Ends, Encrypted(e), NEW x \in Ends, KeyOrder(x)
  PROVE  KeyOrder(x)'
<1> DEFINE o == Other(e)
<1> DEFINE m == [packet |-> sent[e] + 1, key |-> writeKey[e], epoch |-> epoch]
<1>1. /\ o \in Ends /\ o # e /\ Other(o) = e /\ writeKey[e] # 0
      /\ UNCHANGED <<stream, writeKey, readKey, delivered, keys>>
  BY TwoEnds DEF Encrypted, reading
<1>2. \A k : Fresh(x, k)' <=> Fresh(x, k) BY <1>1 DEF Fresh
<1>3. CASE wire'[x] = wire[x]
  BY <1>1, <1>2, <1>3 DEF KeyOrder
<1>4. CASE x = o /\ stream = "up" /\ wire'[x] # wire[x]
  <2> DEFINE n == Len(wire[x])
  <2>1. /\ Len(wire'[x]) = n + 1 /\ \A i \in 1..n : wire'[x][i] = wire[x][i]
        /\ wire'[x][n + 1] = m /\ n \in Nat
    BY <1>4, PacketFields DEF Encrypted
  <2>2. m.key = writeKey[e] /\ writeKey[e] = keys[e] /\ keys[e] \in Nat /\ Fresh(x, m.key)
    BY <1>1, <1>4, KeyBound DEF KeyOrder, NumbersOK
  <2>3. \A i \in 1..n : wire[x][i].key \in Nat /\ wire[x][i].key <= keys[e] /\ Fresh(x, wire[x][i].key)
    BY <1>1, <1>4, PacketFields, MessageFields DEF KeyOrder
  <2>4. \A i \in 1..n : \A j \in 1..n : i <= j => wire[x][i].key <= wire[x][j].key BY DEF KeyOrder
  <2> HIDE DEF m, n
  <2>5. \A i \in 1..(n + 1) : i \in 1..n \/ i = n + 1 BY <2>1
  <2>6. \A i \in 1..(n + 1) : wire'[x][i].key <= keys[e] /\ Fresh(x, wire'[x][i].key)
    BY <2>1, <2>2, <2>3, <2>5
  <2>7. ASSUME NEW i \in 1..(n + 1), NEW j \in 1..(n + 1), i <= j
        PROVE  wire'[x][i].key <= wire'[x][j].key
    <3>1. CASE j \in 1..n
      <4>1. i \in 1..n BY <2>1, <2>7, <3>1
      <4> QED BY <4>1, <3>1, <2>1, <2>4, <2>7
    <3>2. CASE j = n + 1
      <4>1. wire'[x][j].key = keys[e] BY <3>2, <2>1, <2>2
      <4> QED BY <4>1, <2>6
    <3> QED BY <3>1, <3>2, <2>5
  <2>8. \A i \in 1..(n + 1) : Fresh(x, wire[x][i].key)'
    BY <2>6, <1>1 DEF Fresh
  <2>9. /\ Other(x) = e /\ keys'[e] = keys[e] /\ writeKey'[e] = writeKey[e] /\ delivered'[x] = delivered[x]
    BY <1>1, <1>4
  <2>10. \A i \in 1..Len(delivered[x]) : delivered[x][i].key <= keys[e] BY <2>9 DEF KeyOrder
  <2>11. Fresh(x, writeKey[Other(x)])' BY <2>2, <2>9, <1>1 DEF Fresh
  <2> QED BY <2>1, <2>2, <2>6, <2>7, <2>8, <2>9, <2>10, <2>11 DEF KeyOrder
<1> QED BY <1>3, <1>4, TwoEnds DEF Encrypted

\* After a packet is read the keys on the wire are still the reader's or new to it.
LEMMA KeyOrderDecrypt ==
  ASSUME PacketsOK, NumbersOK, NEW e \in Ends, Decrypted(e), NEW x \in Ends, KeyOrder(x)
  PROVE  KeyOrder(x)'
<1> DEFINE o == Other(e)
<1> DEFINE m == wire[e][1]
<1>1. /\ o \in Ends /\ o # e /\ UNCHANGED <<stream, writeKey, keys>>
  BY TwoEnds DEF Decrypted, writing
<1>2. CASE x = o
  <2>1. readKey'[x] = readKey[x] /\ wire'[x] = wire[x] /\ delivered'[x] = delivered[x]
    <3>1. readKey \in [Ends -> 0..MaxKeys] BY DEF NumbersOK
    <3>2. /\ wire'[o] = wire[o] /\ delivered'[o] = delivered[o]
          /\ readKey' = readKey \/ readKey' = Set(readKey, e, 0) \/ readKey' = Set(readKey, e, m.key)
      BY DEF Decrypted
    <3> QED BY <3>1, <3>2, <1>1, <1>2 DEF Set
  <2>2. \A k : Fresh(x, k)' <=> Fresh(x, k) BY <2>1 DEF Fresh
  <2> QED BY <1>1, <2>1, <2>2 DEF KeyOrder
<1>3. CASE x = e
  <2> DEFINE n == Len(wire'[x])
  <2> DEFINE w == writeKey[o]
  <2> DEFINE k == keys[o]
  <2>1. /\ n \in Nat /\ Len(wire[x]) = n + 1 /\ k \in Nat /\ w \in Nat /\ readKey[x] \in Nat
        /\ \A i \in 1..n : wire'[x][i] = wire[x][i + 1]
    <3>1. Len(wire[x]) \in Nat BY PacketFields
    <3>2. Len(wire'[x]) = Len(wire[x]) - 1 /\ Len(wire[x]) > 0
          /\ \A i \in 1..Len(wire'[x]) : wire'[x][i] = wire[x][i + 1]
      BY <1>3 DEF Decrypted
    <3>3. k \in Nat /\ w \in Nat /\ readKey[x] \in Nat BY <1>1, KeyBound DEF NumbersOK
    <3> QED BY <3>1, <3>2, <3>3
  <2>2. w # 0 => w = k BY <1>3 DEF KeyOrder
  <2> DEFINE K(i) == wire[x][i].key
  <2>3. \A i \in 1..(n + 1) : K(i) \in Nat /\ K(i) # 0 /\ K(i) <= k /\ Fresh(x, K(i))
    BY <2>1, <1>3, PacketFields, MessageFields DEF KeyOrder
  <2>4. \A i \in 1..(n + 1) : \A j \in 1..(n + 1) : i <= j => K(i) <= K(j)
    BY <2>1 DEF KeyOrder
  <2> DEFINE G(i) == delivered[x][i].key
  <2>5. \A i \in 1..Len(delivered[x]) : G(i) \in Nat /\ G(i) <= k
    BY <1>3, PacketFields, MessageFields DEF KeyOrder
  <2>6. 1 \in 1..(n + 1) /\ m.key = K(1) BY <2>1, <1>3
  <2>7. w # 0 => Fresh(x, w) BY <1>3 DEF KeyOrder, Decrypted
  <2> HIDE DEF n, w, k, K, m, G
  <2>8. /\ \A i \in 1..n : i + 1 \in 1..(n + 1)
        /\ \A i \in 1..n : wire'[x][i].key = K(i + 1) /\ m.key <= K(i + 1)
    <3>1. \A i \in 1..n : i + 1 \in 1..(n + 1) /\ 1 <= i + 1 BY <2>1
    <3>2. \A i \in 1..n : wire'[x][i].key = K(i + 1) BY <2>1 DEF K
    <3> QED BY <3>1, <3>2, <2>4, <2>6
  <2>9. \A i, j \in 1..n : i <= j => wire'[x][i].key <= wire'[x][j].key
    <3>1. \A i, j \in 1..n : i <= j => i + 1 <= j + 1 BY <2>1
    <3> QED BY <3>1, <2>8, <2>4
  <2>10. m.key \in Nat /\ m.key # 0 /\ m.key <= k /\ Fresh(x, m.key) BY <2>3, <2>6
  <2> DEFINE Later(a) == a \in Nat /\ m.key <= a /\ Fresh(x, a)
  <2>11. \A i \in 1..n : Later(K(i + 1)) BY <2>3, <2>8
  <2>12. w # 0 => Later(w) BY <2>1, <2>2, <2>7, <2>10
  <2>13. CASE delivered' = delivered /\ readKey' = readKey
    <3>1. \A a : Fresh(x, a)' <=> Fresh(x, a) BY <2>13 DEF Fresh
    <3> QED BY <3>1, <2>13, <1>1, <1>3, <2>1, <2>2, <2>3, <2>5, <2>7, <2>8,
           <2>9 DEF KeyOrder, n, w, k, G
  <2>14. CASE delivered' = delivered /\ readKey' = Set(readKey, e, 0) /\ m.key # readKey[e]
    <3>1. \A i \in 1..Len(delivered[x]) : G(i) < m.key BY <2>10, <2>14, <1>3 DEF Fresh, G
    <3>2. ASSUME NEW a, Later(a) PROVE \A i \in 1..Len(delivered[x]) : G(i) < a
      BY <3>1, <3>2, <2>5, <2>10
    <3>3. ASSUME NEW a, Later(a) PROVE \A i \in 1..Len(delivered'[x]) : delivered'[x][i].key < a
      BY <3>2, <3>3, <2>14 DEF G
    <3> HIDE DEF Later
    <3>4. /\ \A i \in 1..n : \A j \in 1..Len(delivered'[x]) : delivered'[x][j].key < wire'[x][i].key
          /\ w # 0 => \A j \in 1..Len(delivered'[x]) : delivered'[x][j].key < w
      BY <3>3, <2>8, <2>11, <2>12
    <3>5. /\ \A i \in 1..n : Fresh(x, wire[x][i].key)'
          /\ w # 0 => Fresh(x, writeKey[o])'
      BY <3>4, <1>1 DEF Fresh, w
    <3> QED BY <3>5, <2>14, <1>1, <1>3, <2>1, <2>2, <2>3, <2>5, <2>8, <2>9 DEF KeyOrder, n, w, k, G
  <2>15. CASE /\ readKey' = Set(readKey, e, m.key)
              /\ Len(delivered'[x]) = Len(delivered[x]) + 1
              /\ \A i \in 1..Len(delivered[x]) : delivered'[x][i] = delivered[x][i]
              /\ delivered'[x][Len(delivered[x]) + 1] = m
    <3> DEFINE d == Len(delivered[x])
    <3>1. d \in Nat BY PacketFields
    <3>2. readKey'[x] = m.key BY <2>15, <1>3 DEF NumbersOK, Set
    <3>3. Len(delivered'[x]) = d + 1 /\ \A i \in 1..(d + 1) : i \in 1..d \/ i = d + 1 BY <2>15, <3>1
    <3>4. (\A i \in 1..d : delivered'[x][i].key = G(i)) /\ delivered'[x][d + 1].key = m.key
      BY <2>15 DEF G
    <3>5. \A i \in 1..d : G(i) \in Nat /\ G(i) <= k BY <2>5
    <3> HIDE DEF d
    <3>6. ASSUME NEW a, Later(a), a # m.key PROVE \A i \in 1..(d + 1) : delivered'[x][i].key < a
      <4>1. m.key < a BY <3>6, <2>10
      <4>2. \A i \in 1..d : G(i) < a
        <5>1. CASE a # readKey[x] BY <5>1, <3>6 DEF Fresh, G, d
        <5>2. CASE a = readKey[x]
          <6>1. m.key # readKey[x] BY <5>2, <3>6
          <6>2. \A i \in 1..d : G(i) < m.key BY <6>1, <2>10 DEF Fresh, G, d
          <6> QED BY <6>2, <4>1, <3>5, <3>6, <2>10
        <5> QED BY <5>1, <5>2
      <4> QED BY <4>1, <4>2, <3>3, <3>4
    <3>7. ASSUME NEW a, Later(a)
          PROVE  a = readKey'[x] \/ \A i \in 1..Len(delivered'[x]) : delivered'[x][i].key < a
      BY <3>2, <3>3, <3>6, <3>7
    <3>8. \A i \in 1..(d + 1) : delivered'[x][i].key <= k BY <3>3, <3>4, <3>5, <2>10
    <3> HIDE DEF Later
    <3>9. /\ \A i \in 1..n : Fresh(x, wire[x][i].key)'
          /\ w # 0 => Fresh(x, writeKey[o])'
      BY <3>7, <2>8, <2>11, <2>12, <1>1 DEF Fresh, w
    <3> QED BY <3>9, <3>3, <3>8, <1>1, <1>3, <2>1, <2>2, <2>3, <2>8, <2>9 DEF KeyOrder, n, w, k
  <2> QED BY <2>13, <2>14, <2>15, <1>3 DEF Decrypted, m
<1> QED BY <1>2, <1>3, TwoEnds

\* A key in order can be had from the key store.
LEMMA KeyIsThere ==
  ASSUME PacketsOK, NEW x \in Ends, KeyOrder(x), NEW i \in 1..Len(wire[x])
  PROVE  wire[x][i].key = readKey[x] \/ wire[x][i].key \notin Redeemed(x)
<1>1. Fresh(x, wire[x][i].key) BY DEF KeyOrder
<1>2. \A j \in 1..Len(delivered[x]) : delivered[x][j].key \in Nat BY PacketFields, MessageFields
<1>3. wire[x][i].key \in Nat BY PacketFields, MessageFields
<1>4. ASSUME \A j \in 1..Len(delivered[x]) : delivered[x][j].key < wire[x][i].key,
             wire[x][i].key \in Redeemed(x)
      PROVE  FALSE
  <2>1. PICK j \in 1..Len(delivered[x]) : wire[x][i].key = delivered[x][j].key BY <1>4 DEF Redeemed
  <2> QED BY <2>1, <1>2, <1>3, <1>4
<1> QED BY <1>1, <1>4 DEF Fresh

\* Encrypt keeps the counters in their ranges.
LEMMA NumbersEncrypt ==
  ASSUME NumbersOK, NEW e \in Ends, Encrypted(e)
  PROVE  NumbersOK'
<1>1. /\ sent[e] + 1 <= MaxPackets /\ sent' = Set(sent, e, sent[e] + 1)
      /\ used' = Set(used, e, used[e] + 1) /\ UNCHANGED <<writeKey, readKey, keys>>
  BY DEF Encrypted, reading
<1> QED BY <1>1, KeyBound, TwoEnds DEF NumbersOK, Set

\* Decrypt takes over a key which was given to the writer.
LEMMA NumbersDecrypt ==
  ASSUME PacketsOK, NumbersOK, NEW e \in Ends, KeyOrder(e), Decrypted(e)
  PROVE  NumbersOK'
<1>1. /\ UNCHANGED <<sent, used, writeKey, keys>>
      /\ \/ readKey' = readKey
         \/ readKey' = Set(readKey, e, 0)
         \/ readKey' = Set(readKey, e, wire[e][1].key)
      /\ Len(wire[e]) > 0
  BY DEF Decrypted, writing
<1>2. wire[e][1].key \in 1..MaxKeys /\ wire[e][1].key <= keys[Other(e)]
  <2>1. 1 \in 1..Len(wire[e]) BY <1>1, PacketFields
  <2> QED BY <2>1, PacketFields, MessageFields DEF KeyOrder
<1> HIDE DEF Message
<1>3. ASSUME NEW v \in 0..MaxKeys, v <= keys[Other(e)], readKey' = Set(readKey, e, v) PROVE NumbersOK'
  BY <1>1, <1>3, KeyBound, TwoEnds DEF NumbersOK, Set
<1>4. CASE readKey' = readKey BY <1>1, <1>4 DEF NumbersOK
<1>5. keys[Other(e)] \in Nat BY KeyBound, TwoEnds DEF NumbersOK
<1> QED BY <1>1, <1>2, <1>3, <1>4, <1>5, KeyBound

-----------------------------------------------------------------------------
(* The keys are spared.                                                     *)

\* The messages of a set which use a key.
With(S, k) == {m \in S : m.key = k}

\* A subset has no more messages of a key.
LEMMA Fewer ==
  ASSUME NEW S, IsFiniteSet(S), NEW T \in SUBSET S, NEW k
  PROVE  /\ IsFiniteSet(T) /\ Cardinality(With(T, k)) \in Nat /\ Cardinality(With(S, k)) \in Nat
         /\ Cardinality(With(T, k)) <= Cardinality(With(S, k))
<1>1. With(T, k) \subseteq With(S, k) /\ With(S, k) \subseteq S BY DEF With
<1>2. IsFiniteSet(T) /\ IsFiniteSet(With(S, k)) BY <1>1, FS_Subset
<1>3. IsFiniteSet(With(T, k)) /\ Cardinality(With(T, k)) <= Cardinality(With(S, k)) BY <1>1,
           <1>2, FS_Subset
<1> QED BY <1>2, <1>3, FS_CardinalityType

\* One more message is at most one more of its key, and none of another.
LEMMA OneMore ==
  ASSUME NEW S, IsFiniteSet(S), NEW m, NEW k
  PROVE  /\ IsFiniteSet(S \union {m})
         /\ m.key # k => With(S \union {m}, k) = With(S, k)
         /\ Cardinality(With(S \union {m}, k)) <= Cardinality(With(S, k)) + 1
         /\ Cardinality(With(S \union {m}, k)) \in Nat /\ Cardinality(With(S, k)) \in Nat
<1>1. IsFiniteSet(S \union {m}) BY FS_AddElement
<1>2. IsFiniteSet(With(S, k)) /\ IsFiniteSet(With(S \union {m}, k))
  <2>1. With(S, k) \subseteq S /\ With(S \union {m}, k) \subseteq S \union {m} BY DEF With
  <2> QED BY <2>1, <1>1, FS_Subset
<1>3. Cardinality(With(S, k)) \in Nat /\ Cardinality(With(S \union {m}, k)) \in Nat
  BY <1>2, FS_CardinalityType
<1>4. CASE m.key # k
  <2>1. With(S \union {m}, k) = With(S, k) BY <1>4 DEF With
  <2> QED BY <2>1, <1>1, <1>3
<1>5. CASE m.key = k
  <2>1. With(S \union {m}, k) = With(S, k) \union {m} BY <1>5 DEF With
  <2>2. Cardinality(With(S, k) \union {m}) = IF m \in With(S, k) THEN Cardinality(With(S, k))
                                             ELSE Cardinality(With(S, k)) + 1
    BY <1>2, FS_AddElement
  <2>3. \/ Cardinality(With(S \union {m}, k)) = Cardinality(With(S, k))
        \/ Cardinality(With(S \union {m}, k)) = Cardinality(With(S, k)) + 1
    BY <2>1, <2>2
  <2>4. Cardinality(With(S \union {m}, k)) <= Cardinality(With(S, k)) + 1
    <3> DEFINE a == Cardinality(With(S \union {m}, k))
    <3> DEFINE b == Cardinality(With(S, k))
    <3>1. a \in Nat /\ b \in Nat /\ (a = b \/ a = b + 1) BY <1>3, <2>3
    <3> HIDE DEF a, b
    <3>2. a <= b + 1 BY <3>1
    <3> QED BY <3>2 DEF a, b
  <2> QED BY <2>4, <1>1, <1>3, <1>5
<1> QED BY <1>4, <1>5

\* A step which adds no message spares the keys.
LEMMA SparedFewer ==
  ASSUME NumbersOK, NEW s \in Ends, Spared(s), Sent(s)' \subseteq Sent(s),
         used'[s] \in Nat,
         \A k \in 1..MaxKeys : k = writeKey'[s] =>
           (k = writeKey[s] /\ used'[s] = used[s]) \/ With(Sent(s)', k) = {}
  PROVE  Spared(s)'
<1>1. IsFiniteSet(Sent(s)') BY Fewer DEF Spared
<1>2. ASSUME NEW k \in 1..MaxKeys
      PROVE  /\ Cardinality(With(Sent(s)', k)) <= MaxBytes
             /\ k = writeKey'[s] => Cardinality(With(Sent(s)', k)) <= used'[s]
  <2>1. /\ Cardinality(With(Sent(s)', k)) \in Nat /\ Cardinality(With(Sent(s), k)) \in Nat
        /\ Cardinality(With(Sent(s)', k)) <= Cardinality(With(Sent(s), k))
    BY Fewer DEF Spared
  <2>2. /\ Cardinality(With(Sent(s), k)) <= MaxBytes
        /\ k = writeKey[s] => Cardinality(With(Sent(s), k)) <= used[s]
    BY DEF Spared, With
  <2>3. used[s] \in Nat BY KeyBound DEF NumbersOK
  <2>4. CASE k = writeKey'[s] /\ With(Sent(s)', k) = {}
    <3>1. Cardinality(With(Sent(s)', k)) = 0 BY <2>4, FS_EmptySet
    <3> QED BY <3>1, KeyBound
  <2>5. CASE k = writeKey[s] /\ used'[s] = used[s]
    BY <2>1, <2>2, <2>3, <2>5, KeyBound
  <2>6. CASE k # writeKey'[s] BY <2>1, <2>2, <2>6, KeyBound
  <2> QED BY <2>4, <2>5, <2>6
<1> QED BY <1>1, <1>2 DEF Spared, With

\* So does a quiet step: a new key was used by no message.
LEMMA SparedQuiet ==
  ASSUME PacketsOK, NumbersOK, NEW s \in Ends, Quiet(Other(s)), KeysQuiet(Other(s)), KeyOrder(Other(s)),
         Spared(s), used'[s] \in Nat
  PROVE  Spared(s)'
<1> DEFINE x == Other(s)
<1>1. x \in Ends /\ Other(x) = s BY TwoEnds
<1>2. Sent(s)' \subseteq Sent(s)
  <2>1. delivered'[x] = delivered[x] /\ (wire'[x] = wire[x] \/ wire'[x] = <<>>) BY <1>1 DEF Quiet, Nothing
  <2>2. ToSet(<<>>) = {} BY DEF ToSet
  <2>3. ToSet(wire'[x]) \subseteq ToSet(wire[x]) BY <2>1, <2>2
  <2>4. Sent(s)' = ToSet(delivered'[x]) \union ToSet(wire'[x]) BY DEF Sent
  <2> QED BY <2>1, <2>3, <2>4 DEF Sent
<1>3. keys[s] \in Nat /\ \A m \in Sent(s) : m.key \in Nat /\ m.key <= keys[s]
  <2>1. keys[s] \in Nat BY KeyBound DEF NumbersOK
  <2>2. ASSUME NEW m \in ToSet(delivered[x]) PROVE m.key \in Nat /\ m.key <= keys[s]
    <3>1. DOMAIN delivered[x] = 1..Len(delivered[x]) BY <1>1, PacketFields
    <3>2. PICK i \in 1..Len(delivered[x]) : m = delivered[x][i] BY <3>1 DEF ToSet
    <3> QED BY <3>2, <1>1, PacketFields, MessageFields DEF KeyOrder
  <2>3. ASSUME NEW m \in ToSet(wire[x]) PROVE m.key \in Nat /\ m.key <= keys[s]
    <3>1. DOMAIN wire[x] = 1..Len(wire[x]) BY <1>1, PacketFields
    <3>2. PICK i \in 1..Len(wire[x]) : m = wire[x][i] BY <3>1 DEF ToSet
    <3> QED BY <3>2, <1>1, PacketFields, MessageFields DEF KeyOrder
  <2> QED BY <2>1, <2>2, <2>3 DEF Sent
<1>4. ASSUME NEW k \in 1..MaxKeys, k = writeKey'[s]
      PROVE  (k = writeKey[s] /\ used'[s] = used[s]) \/ With(Sent(s)', k) = {}
  <2>1. CASE writeKey'[s] = keys[s] + 1
    <3>1. \A m \in Sent(s) : m.key # k BY <2>1, <1>3, <1>4
    <3> QED BY <3>1, <1>2 DEF With
  <2>2. CASE writeKey'[s] = writeKey[s] /\ used'[s] = used[s] BY <2>2, <1>4
  <2>3. writeKey'[s] # 0 BY <1>4, KeyBound
  <2> QED BY <2>1, <2>2, <2>3, <1>1 DEF KeysQuiet
<1> QED BY <1>2, <1>4, SparedFewer

\* Encrypt adds one message and counts it.
LEMMA SparedEncrypt ==
  ASSUME NumbersOK, NEW e \in Ends, Encrypted(e), NEW s \in Ends, Spared(s)
  PROVE  Spared(s)'
<1> DEFINE o == Other(e)
<1> DEFINE m == [packet |-> sent[e] + 1, key |-> writeKey[e], epoch |-> epoch]
<1>1. /\ o \in Ends /\ o # e /\ Other(o) = e /\ delivered' = delivered /\ writeKey' = writeKey
      /\ used' = Set(used, e, used[e] + 1) /\ used[e] < MaxBytes
  BY TwoEnds DEF Encrypted, reading
<1>2. used[e] \in Nat /\ used[o] \in Nat /\ used'[e] = used[e] + 1 /\ used'[o] = used[o]
  BY <1>1, KeyBound DEF NumbersOK, Set
<1>3. CASE s = o
  <2>1. wire'[e] = wire[e] BY DEF Encrypted
  <2>2. Sent(s)' = Sent(s) BY <2>1, <1>1, <1>3 DEF Sent
  <2> QED BY <2>2, <1>1, <1>2, <1>3, SparedFewer
<1>4. CASE s = e
  <2>1. Sent(s)' = Sent(s) \/ Sent(s)' = Sent(s) \union {m}
    <3>1. Sent(s)' = ToSet(delivered[o]) \union ToSet(wire'[o]) BY <1>1, <1>4 DEF Sent
    <3>2. ToSet(wire'[o]) = ToSet(wire[o]) \/ ToSet(wire'[o]) = ToSet(wire[o]) \union {m} BY DEF Encrypted
    <3> HIDE DEF m
    <3> QED BY <3>1, <3>2, <1>4 DEF Sent
  <2>2. m.key = writeKey[s] BY <1>4
  <2> HIDE DEF m
  <2>3. IsFiniteSet(Sent(s)') BY <2>1, OneMore DEF Spared
  <2>4. ASSUME NEW k \in 1..MaxKeys
        PROVE  /\ Cardinality(With(Sent(s)', k)) <= MaxBytes
               /\ k = writeKey'[s] => Cardinality(With(Sent(s)', k)) <= used'[s]
    <3>1. /\ Cardinality(With(Sent(s), k)) <= MaxBytes
          /\ k = writeKey[s] => Cardinality(With(Sent(s), k)) <= used[s]
      BY DEF Spared, With
    <3>2. /\ Cardinality(With(Sent(s)', k)) <= Cardinality(With(Sent(s), k)) + 1
          /\ m.key # k => With(Sent(s)', k) = With(Sent(s), k)
          /\ Cardinality(With(Sent(s)', k)) \in Nat /\ Cardinality(With(Sent(s), k)) \in Nat
      <4>1. IsFiniteSet(Sent(s)) BY DEF Spared
      <4>2. CASE Sent(s)' = Sent(s) \union {m}
        <5> DEFINE S == Sent(s)
        <5>1. IsFiniteSet(S) BY <4>1
        <5> HIDE DEF S
        <5>2. /\ m.key # k => With(S \union {m}, k) = With(S, k)
              /\ Cardinality(With(S \union {m}, k)) <= Cardinality(With(S, k)) + 1
              /\ Cardinality(With(S \union {m}, k)) \in Nat /\ Cardinality(With(S, k)) \in Nat
          BY <5>1, OneMore
        <5>3. Sent(s)' = S \union {m} BY <4>2 DEF S
        <5> QED BY <5>2, <5>3 DEF S
      <4>3. CASE Sent(s)' = Sent(s)
        <5>1. Cardinality(With(Sent(s), k)) \in Nat BY <4>1, Fewer
        <5> QED BY <4>3, <5>1
      <4> QED BY <2>1, <4>2, <4>3
    <3>3. CASE k = writeKey[s] BY <3>1, <3>2, <3>3, <1>1, <1>2, <1>4, KeyBound
    <3>4. CASE k # writeKey[s] BY <3>1, <3>2, <3>4, <2>2, <1>1
    <3> QED BY <3>3, <3>4
  <2> QED BY <2>3, <2>4 DEF Spared, With
<1> QED BY <1>3, <1>4, TwoEnds

\* Decrypt adds none.
LEMMA SparedDecrypt ==
  ASSUME NumbersOK, NEW e \in Ends, Decrypted(e), NEW s \in Ends, Spared(s)
  PROVE  Spared(s)'
<1> DEFINE x == Other(s)
<1>1. used' = used /\ writeKey' = writeKey /\ used[s] \in Nat BY KeyBound DEF Decrypted, writing, NumbersOK
<1>2. Sent(s)' \subseteq Sent(s)
  <2>1. Sent(s)' = ToSet(delivered'[x]) \union ToSet(wire'[x]) /\ Sent(s) = ToSet(delivered[x]) \union ToSet(wire[x])
    BY DEF Sent
  <2>2. CASE x = e
    <3>1. /\ ToSet(wire[x]) = ToSet(wire'[x]) \union {wire[e][1]}
          /\ \/ delivered'[x] = delivered[x]
             \/ ToSet(delivered'[x]) = ToSet(delivered[x]) \union {wire[e][1]}
      BY <2>2 DEF Decrypted
    <3> QED BY <2>1, <3>1
  <2>3. CASE x = Other(e)
    <3>1. wire'[x] = wire[x] /\ delivered'[x] = delivered[x] BY <2>3 DEF Decrypted
    <3> QED BY <2>1, <3>1
  <2> QED BY <2>2, <2>3, TwoEnds
<1> QED BY <1>1, <1>2, SparedFewer

-----------------------------------------------------------------------------
(* The invariant, and the theorems.                                         *)

\* The bounds, which the history counters keep.
BoundsOK == epoch \in 0..MaxStarts /\ starts \in 0..MaxStarts /\ faults \in 0..MaxFaults

IInv ==
  /\ ControlOK /\ NumbersOK /\ PacketsOK /\ BoundsOK /\ StreamFits /\ Pending /\ PacketsInOrder
  /\ \A e \in Ends : ThreadsFit(e) /\ OnWire(e) /\ LastGiven(e) /\ KeyOrder(e) /\ Spared(e)

\* The invariant is TypeOK and more.
LEMMA IsTypeOK ==
  ASSUME ControlOK, NumbersOK, PacketsOK, BoundsOK
  PROVE  TypeOK
BY DEF ControlOK, NumbersOK, PacketsOK, BoundsOK, TypeOK

\* Nothing runs and nothing was sent at first.
LEMMA InitInv ==
  ASSUME Init
  PROVE  IInv
<1>1. /\ wire = Nothing /\ delivered = Nothing /\ epoch = 0 /\ starts = 0 /\ faults = 0 /\ stream = "none"
      /\ \A e \in Ends : wire[e] = <<>> /\ delivered[e] = <<>> /\ writeKey[e] = 0
  BY DEF Init, Nothing
<1>2. ControlOK BY DEF Init, ControlOK
<1>3. NumbersOK BY TwoEnds, KeyBound DEF Init, NumbersOK
<1>4. PacketsOK BY <1>1 DEF PacketsOK, Nothing
<1>5. BoundsOK BY <1>1, KeyBound DEF BoundsOK
<1>6. StreamFits BY <1>1 DEF StreamFits
<1>7. Pending BY TwoEnds DEF Init, Pending, Pend
<1>8. PacketsInOrder BY <1>1 DEF PacketsInOrder
<1>9. ASSUME NEW e \in Ends PROVE ThreadsFit(e) /\ OnWire(e) /\ LastGiven(e) /\ KeyOrder(e)
  <2>1. ThreadsFit(e) BY KeyBound DEF Init, ThreadsFit
  <2>2. OnWire(e) /\ LastGiven(e) BY <1>1 DEF OnWire, LastGiven
  <2>3. KeyOrder(e) BY <1>1, TwoEnds DEF KeyOrder
  <2> QED BY <2>1, <2>2, <2>3
<1>10. ASSUME NEW e \in Ends PROVE Spared(e)
  <2>1. Sent(e) = {} BY <1>1, TwoEnds DEF Sent, ToSet
  <2>2. \A k : {m \in Sent(e) : m.key = k} = {} BY <2>1
  <2>3. IsFiniteSet(Sent(e)) /\ \A k : Cardinality({m \in Sent(e) : m.key = k}) = 0
    BY <2>1, <2>2, FS_EmptySet
  <2>4. used[e] = 0 BY DEF Init
  <2> QED BY <2>3, <2>4, KeyBound DEF Spared
<1> QED BY <1>2, <1>3, <1>4, <1>5, <1>6, <1>7, <1>8, <1>9, <1>10 DEF IInv

\* A step counts no more starts and faults than the bounds allow.
LEMMA BoundsStep ==
  ASSUME starts \in 0..MaxStarts, faults \in 0..MaxFaults, NEW e \in Ends, Action(e)
  PROVE  starts' \in 0..MaxStarts /\ faults' \in 0..MaxFaults
<1>0. (\/ starts' = starts /\ faults' = faults
       \/ starts < MaxStarts /\ starts' = starts + 1 /\ faults' = faults
       \/ starts' = starts /\ faults < MaxFaults /\ faults' = faults + 1)
      => starts' \in 0..MaxStarts /\ faults' \in 0..MaxFaults
  BY KeyBound
<1> USE <1>0 DEF Fault, bounds
<1>1. CASE StartTunnel(e) BY <1>1 DEF StartTunnel
<1>2. CASE StopTunnel(e) BY <1>2 DEF StopTunnel
<1>3. CASE Stopped(e) BY <1>3 DEF Stopped
<1>4. CASE Complete(e) BY <1>4 DEF Complete
<1>5. CASE CompleteFails(e) BY <1>5 DEF CompleteFails
<1>6. CASE Configure(e) BY <1>6 DEF Configure
<1>7. CASE Drop(e) BY <1>7 DEF Drop
<1>8. CASE OpenStream(e) BY <1>8 DEF OpenStream
<1>9. CASE Transfer(e) BY <1>9 DEF Transfer
<1>10. CASE CancelStream(e) BY <1>10 DEF CancelStream
<1>11. CASE EndThread(e) BY <1>11 DEF EndThread
<1>12. CASE NewKey(e) BY <1>12 DEF NewKey
<1>13. CASE KeepKey(e) BY <1>13 DEF KeepKey
<1>14. CASE Encrypt(e) BY <1>14 DEF Encrypt
<1>15. CASE NothingToRead(e) BY <1>15 DEF NothingToRead
<1>16. CASE Decrypt(e) BY <1>16 DEF Decrypt
<1>17. CASE EndReader(e) BY <1>17 DEF EndReader
<1>18. CASE NoNewKey(e) BY <1>18 DEF NoNewKey
<1> QED BY <1>1, <1>2, <1>3, <1>4, <1>5, <1>6, <1>7, <1>8, <1>9, <1>10, <1>11, <1>12, <1>13,
           <1>14, <1>15, <1>16, <1>17, <1>18
        DEF Action, StartStep, ThreadStep, WriterStep, ReaderStep

\* A step which sends or delivers keeps the invariant, given the control part.
LEMMA PacketStep ==
  ASSUME IInv, NEW e \in Ends, Encrypt(e) \/ Decrypt(e)
  PROVE  /\ NumbersOK' /\ PacketsOK' /\ PacketsInOrder'
         /\ \A x \in Ends : OnWire(x)' /\ LastGiven(x)' /\ KeyOrder(x)' /\ Spared(x)'
<1>1. /\ ControlOK /\ NumbersOK /\ PacketsOK /\ StreamFits /\ PacketsInOrder /\ epoch \in 0..MaxStarts
      /\ \A x \in Ends : ThreadsFit(x) /\ OnWire(x) /\ LastGiven(x) /\ KeyOrder(x) /\ Spared(x)
      /\ epoch \in Nat
  BY KeyBound DEF IInv, BoundsOK
<1>2. CASE Encrypt(e)
  <2>1. Encrypted(e) BY <1>1, <1>2, EncryptFacts
  <2>2. PacketsOK'
    <3>1. wire' \in [Ends -> Seq(Message)] /\ delivered' = delivered
      BY <2>1, <1>1 DEF Encrypted, PacketsOK, reading
    <3> QED BY <3>1, <1>1 DEF PacketsOK
  <2>3. PacketsInOrder'
    <3>1. delivered' = delivered BY <2>1 DEF Encrypted, reading
    <3> QED BY <3>1, <1>1 DEF PacketsInOrder
  <2>4. NumbersOK' BY <1>1, <2>1, NumbersEncrypt
  <2>5. \A x \in Ends : OnWire(x)' /\ LastGiven(x)' BY <1>1, <2>1, OrderEncrypt
  <2>6. \A x \in Ends : KeyOrder(x)' BY <1>1, <2>1, KeyOrderEncrypt
  <2>7. \A x \in Ends : Spared(x)' BY <1>1, <2>1, SparedEncrypt
  <2> QED BY <2>2, <2>3, <2>4, <2>5, <2>6, <2>7
<1>3. CASE Decrypt(e)
  <2>1. Decrypted(e) BY <1>1, <1>3, DecryptFacts
  <2>2. PacketsOK'
    <3>1. wire' \in [Ends -> Seq(Message)] /\ delivered' \in [Ends -> Seq(Message)]
      BY <2>1, <1>1 DEF Decrypted, PacketsOK
    <3> QED BY <3>1 DEF PacketsOK
  <2>3. PacketsInOrder' BY <1>1, <2>1, PacketsInOrderDecrypt
  <2>4. NumbersOK' BY <1>1, <2>1, NumbersDecrypt
  <2>5. \A x \in Ends : OnWire(x)' /\ LastGiven(x)' BY <1>1, <2>1, OrderDecrypt
  <2>6. \A x \in Ends : KeyOrder(x)' BY <1>1, <2>1, KeyOrderDecrypt
  <2>7. \A x \in Ends : Spared(x)' BY <1>1, <2>1, SparedDecrypt
  <2> QED BY <2>2, <2>3, <2>4, <2>5, <2>6, <2>7
<1> QED BY <1>2, <1>3

\* So does every other step.
LEMMA QuietStepInv ==
  ASSUME IInv, NEW e \in Ends, Action(e), ~Encrypt(e), ~Decrypt(e)
  PROVE  /\ NumbersOK' /\ PacketsOK' /\ PacketsInOrder'
         /\ \A x \in Ends : OnWire(x)' /\ LastGiven(x)' /\ KeyOrder(x)' /\ Spared(x)'
<1>1. /\ ControlOK /\ NumbersOK /\ PacketsOK /\ StreamFits /\ PacketsInOrder /\ epoch \in Nat
      /\ \A x \in Ends : ThreadsFit(x) /\ OnWire(x) /\ LastGiven(x) /\ KeyOrder(x) /\ Spared(x)
  BY KeyBound DEF IInv, BoundsOK
<1>2. \A x \in Ends : Quiet(x) BY <1>1, QuietStep
<1>3. \A x \in Ends : KeysQuiet(x) BY <1>1, KeysQuietStep
<1>4. NumbersOK' BY <1>1, NumbersQuiet
<1>5. delivered' = delivered /\ (wire' = wire \/ wire' = Nothing) BY <1>2, TwoEnds DEF Quiet
<1>6. PacketsOK'
  <2>1. Nothing \in [Ends -> Seq(Message)] BY DEF Nothing
  <2> QED BY <2>1, <1>1, <1>5 DEF PacketsOK
<1>7. PacketsInOrder' BY <1>1, <1>5 DEF PacketsInOrder
<1>8. \A x \in Ends : OnWire(x)' /\ LastGiven(x)' BY <1>1, <1>2, OrderQuiet
<1>9. \A x \in Ends : KeyOrder(x)' BY <1>1, <1>2, <1>3, KeyOrderQuiet
<1>10. ASSUME NEW x \in Ends PROVE Spared(x)'
  <2>1. used'[x] \in Nat BY <1>4, KeyBound DEF NumbersOK
  <2>2. Other(x) \in Ends BY TwoEnds
  <2> QED BY <2>1, <2>2, <1>1, <1>2, <1>3, SparedQuiet
<1> QED BY <1>4, <1>6, <1>7, <1>8, <1>9, <1>10

\* The invariant is inductive.
LEMMA StepInv ==
  ASSUME IInv, NEW e \in Ends, Action(e)
  PROVE  IInv'
<1>1. /\ ControlOK /\ NumbersOK /\ StreamFits /\ Pending /\ epoch \in Nat /\ starts \in 0..MaxStarts
      /\ starts \in Nat /\ faults \in 0..MaxFaults /\ \A x \in Ends : ThreadsFit(x)
  BY KeyBound DEF IInv, BoundsOK
<1>2. ControlOK' BY <1>1, ControlOKStep
<1>3. \A x \in Ends : ThreadsFit(x)' BY <1>1, ThreadsFitStep
<1>4. StreamFits' BY <1>1, StreamFitsStep
<1>5. Pending' /\ epoch' \in Nat BY <1>1, PendingStep
<1>6. BoundsOK'
  <2>1. starts' \in 0..MaxStarts /\ faults' \in 0..MaxFaults BY <1>1, BoundsStep
  <2>2. Pend("a")' \in Nat /\ Pend("b")' \in Nat BY DEF Pend
  <2>3. epoch' + Pend("a")' + Pend("b")' <= starts' BY <1>5 DEF Pending
  <2> HIDE DEF Pend
  <2>4. epoch' \in 0..MaxStarts BY <2>1, <2>2, <2>3, <1>5, KeyBound
  <2> QED BY <2>1, <2>4 DEF BoundsOK
<1>7. /\ NumbersOK' /\ PacketsOK' /\ PacketsInOrder'
      /\ \A x \in Ends : OnWire(x)' /\ LastGiven(x)' /\ KeyOrder(x)' /\ Spared(x)'
  <2>1. CASE Encrypt(e) \/ Decrypt(e) BY <2>1, PacketStep
  <2>2. CASE ~Encrypt(e) /\ ~Decrypt(e) BY <2>2, QuietStepInv
  <2> QED BY <2>1, <2>2
<1> QED BY <1>2, <1>3, <1>4, <1>5, <1>6, <1>7 DEF IInv

\* A step which changes nothing keeps it.
LEMMA StutterInv ==
  ASSUME IInv, UNCHANGED vars
  PROVE  IInv'
<1>1. /\ UNCHANGED <<builder, listed, starting, stopping, client, keepGoing, thread, writer, reader>>
      /\ UNCHANGED <<stream, wire, writeKey, used, sent, readKey, delivered, keys, epoch, starts, faults>>
  BY DEF vars, control, threads, writing, reading, bounds
<1>2. ControlOK' /\ NumbersOK' /\ PacketsOK' /\ BoundsOK'
  BY <1>1 DEF IInv, ControlOK, NumbersOK, PacketsOK, BoundsOK
<1>3. StreamFits' /\ Pending' /\ PacketsInOrder' BY <1>1 DEF IInv, StreamFits, Pending, Pend, PacketsInOrder
<1>4. ASSUME NEW e \in Ends PROVE ThreadsFit(e)' /\ OnWire(e)' BY <1>1 DEF IInv, ThreadsFit, OnWire
<1>5. ASSUME NEW e \in Ends PROVE LastGiven(e)'
  BY <1>1 DEF IInv, LastGiven, LastOne, Reads
<1>6. ASSUME NEW e \in Ends PROVE KeyOrder(e)' BY <1>1 DEF IInv, KeyOrder, Fresh
<1>7. ASSUME NEW e \in Ends PROVE Spared(e)'
  <2>1. Sent(e)' = Sent(e) BY <1>1 DEF Sent
  <2> QED BY <1>1, <2>1 DEF IInv, Spared
<1> QED BY <1>2, <1>3, <1>4, <1>5, <1>6, <1>7 DEF IInv

\* It holds in every state a tunnel can reach.
LEMMA Invariant == Spec => []IInv
<1>1. Init => IInv BY InitInv
<1>2. IInv /\ [Next]_vars => IInv'
  <2> SUFFICES ASSUME IInv, [Next]_vars PROVE IInv' OBVIOUS
  <2>1. CASE Next
    <3>1. PICK e \in Ends : Action(e) BY <2>1 DEF Next, Action
    <3> QED BY <3>1, StepInv
  <2>2. CASE UNCHANGED vars BY <2>2, StutterInv
  <2> QED BY <2>1, <2>2
<1> QED BY <1>1, <1>2, PTL DEF Spec

\* The state keeps its type: no packet is numbered past what the clients sent, no
\* reader holds a key its writer was not given, and no stream is opened without
\* a start.
THEOREM TunnelTypeCorrect == Spec => []TypeOK
<1>1. IInv => TypeOK BY IsTypeOK DEF IInv
<1> QED BY <1>1, Invariant, PTL

\* Through any number of restarts, lost calls and missing keys a client is given
\* packets in the order they were sent and none twice, and within one stream
\* without a gap (TunnelBuilder::WriteEncrypted, ReadEncrypted).
THEOREM TunnelKeepsOrder == Spec => []PacketsInOrder
<1>1. IInv => PacketsInOrder BY DEF IInv
<1> QED BY <1>1, Invariant, PTL

\* No key encrypts more bytes than its lifespan allows, whenever keys are changed,
\* not given, or left by a stream that ends (TunnelBuilder::ChangeKey).
THEOREM LifespanIsKept == Spec => []KeysAreSpared
<1>1. IInv => KeysAreSpared BY DEF IInv, KeysAreSpared, Spared
<1> QED BY <1>1, Invariant, PTL

\* A reader never asks for a key which it was given before: the key store has
\* each key that a packet on the wire names (TunnelBuilder::ReadEncrypted).
THEOREM ReaderFindsKeys == Spec => []EachKeyIsThere
<1>1. IInv => EachKeyIsThere
  <2> SUFFICES ASSUME IInv, NEW e \in Ends, NEW i \in 1..Len(wire[e])
               PROVE  wire[e][i].key = readKey[e] \/ wire[e][i].key \notin Redeemed(e)
    BY DEF EachKeyIsThere
  <2>1. PacketsOK /\ KeyOrder(e) BY DEF IInv
  <2> QED BY <2>1, KeyIsThere
<1> QED BY <1>1, Invariant, PTL
===============================================================================
