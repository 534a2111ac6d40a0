---------------------------- MODULE KeyStoreProofs ----------------------------
(***************************************************************************)
(* Theorems about the pair of key stores, for every link, every number of   *)
(* keys, application threads, lost RPCs and restarts.                       *)
(***************************************************************************)
EXTENDS KeyStore, FiniteSetTheorems, SequenceTheorems, TLAPS

\* Every step is one of these; the lemma names them once for the step proofs.
LEMMA Actions ==
  ASSUME Next
  PROVE  \/ \E s \in Sites, c \in Clients : StartGetNewKey(s, c)
         \/ \E s \in Sites, c \in Clients : MarkReserved(s, c)
         \/ \E s \in Sites, c \in Clients : MarkUnused(s, c)
         \/ \E s \in Sites, c \in Clients : MarkArchived(s, c)
         \/ \E s \in Sites, c \in Clients : MarkUnknown(s, c)
         \/ \E s \in Sites, c \in Clients : SupplyAlternative(s, c)
         \/ \E s \in Sites, c \in Clients : AlternativeTimeout(s, c)
         \/ \E s \in Sites, c \in Clients : TakeOriginal(s, c)
         \/ \E s \in Sites, c \in Clients : TakeAlternative(s, c)
         \/ \E s \in Sites, c \in Clients : MissAlternative(s, c)
         \/ \E s \in Sites, c \in Clients : MarkFails(s, c)
         \/ \E s \in Sites : OrphanReserves(s)
         \/ \E s \in Sites : StoreKeys(s)
         \/ \E s \in Sites : Restart(s)
         \/ \E s \in Sites, d \in Devices : OnKeyGeneration(s, d)
         \/ \E s \in Sites, k \in Ids : GetExistingKey(s, k)
  BY DEF Next, CallStep, MarkKeyInUse

\* The partner of an end is an end.
LEMMA PeerIsSite == \A s \in Sites : Peer[s] \in Sites /\ Peer[s] # s
  BY LinkAssumption

\* Updating one id of one end.
LEMMA MapUpdate ==
  ASSUME NEW A, NEW B, NEW S, NEW f \in [A -> [B -> S]],
         NEW a \in A, NEW b \in B, NEW v \in S
  PROVE  [f EXCEPT ![a][b] = v] \in [A -> [B -> S]]
  OBVIOUS

\* Recording one more value given out.
LEMMA LogUpdate ==
  ASSUME NEW A, NEW B, NEW S, NEW f \in [A -> [B -> Seq(S)]],
         NEW a \in A, NEW b \in B, NEW v \in S
  PROVE  [f EXCEPT ![a][b] = Append(@, v)] \in [A -> [B -> Seq(S)]]
  OBVIOUS

\* The types of the maps by themselves, for the steps which change them.
LEMMA Types ==
  ASSUME TypeOK
  PROVE  /\ unusedKeys   \in [Sites -> [Ids -> Slot]]
         /\ reservedKeys \in [Sites -> [Ids -> Slot]]
         /\ archive      \in [Sites -> [Ids -> Slot]]
         /\ storing      \in [Sites -> [Ids -> Slot]]
         /\ call         \in [Sites -> [Clients -> Call]]
         /\ issued       \in [Sites -> [0..MaxId -> Seq(Value)]]
         /\ redeemed     \in [Sites -> [Ids -> Seq(Value)]]
         /\ NoEntry \in Slot /\ EmptyPSK \in Slot /\ Value \subseteq Slot
  BY DEF TypeOK, Slot, Value

\* The types of the logs, which say enough where only the logs matter.
LogTypes ==
  /\ issued   \in [Sites -> [0..MaxId -> Seq(Value)]]
  /\ redeemed \in [Sites -> [Ids -> Seq(Value)]]

LEMMA LogTypesHold == TypeOK => LogTypes
  BY DEF TypeOK, LogTypes

LEMMA IssueType ==
  ASSUME TypeOK, NEW s \in Sites, NEW k \in 0..MaxId, NEW v \in Value, Issue(s, k, v)
  PROVE  issued' \in [Sites -> [0..MaxId -> Seq(Value)]]
  BY Types, LogUpdate DEF Issue

LEMMA RedeemType ==
  ASSUME TypeOK, NEW s \in Sites, NEW k \in Ids, NEW v \in Value, Redeem(s, k, v)
  PROVE  redeemed' \in [Sites -> [Ids -> Seq(Value)]]
  BY Types, LogUpdate DEF Redeem

\* ReserveNewKey keeps the types of the maps it moves a key between.
LEMMA ReserveType ==
  ASSUME TypeOK, NEW s \in Sites, NEW k \in Ids, ReserveNewKey(s, k)
  PROVE  /\ unusedKeys'   \in [Sites -> [Ids -> Slot]]
         /\ reservedKeys' \in [Sites -> [Ids -> Slot]]
         /\ archive'      \in [Sites -> [Ids -> Slot]]
<1>1. /\ unusedKeys[s][k] \in Slot
      /\ archive[s][k] \in Slot
      /\ NoEntry \in Slot
  BY DEF TypeOK, Slot
<1>2. CASE Lowest(unusedKeys[s], k) /\ UNCHANGED archive
            /\ reservedKeys' = [reservedKeys EXCEPT ![s][k] = unusedKeys[s][k]]
            /\ unusedKeys'   = [unusedKeys EXCEPT ![s][k] = NoEntry]
  BY <1>1, <1>2, MapUpdate DEF TypeOK
<1>3. CASE Lowest(archive[s], k) /\ UNCHANGED unusedKeys
            /\ reservedKeys' = [reservedKeys EXCEPT ![s][k] = archive[s][k]]
            /\ archive'      = [archive EXCEPT ![s][k] = NoEntry]
  BY <1>1, <1>3, MapUpdate DEF TypeOK
<1>4. QED
  BY <1>2, <1>3 DEF ReserveNewKey

LEMMA NoKeysType == NoKeys \in [Ids -> Slot]
  BY DEF NoKeys, Slot

LEMMA IdleType == Idle \in Call
  BY DEF Idle, Call

\* What the type of a call in progress says of its ids.
LEMMA CallFacts ==
  ASSUME TypeOK, NEW s \in Sites, NEW c \in Clients
  PROVE  /\ call[s][c] \in Call
         /\ call[s][c].pc # "idle" => call[s][c].id \in Ids
         /\ call[s][c].pc = "answered" => call[s][c].alt \in Ids
  BY DEF TypeOK, Call

LEMMA CallReturns ==
  ASSUME TypeOK, NEW s \in Sites, NEW c \in Clients
  PROVE  [call EXCEPT ![s][c] = Idle] \in [Sites -> [Clients -> Call]]
  BY IdleType, MapUpdate DEF TypeOK

LEMMA AnswerType ==
  ASSUME TypeOK, NEW s \in Sites, NEW c \in Clients, NEW k \in Ids,
         call[s][c].pc \in {"marking", "waiting"}, Answer(s, c, k)
  PROVE  call' \in [Sites -> [Clients -> Call]]
<1>1. [call[s][c] EXCEPT !.pc = "answered", !.alt = k] \in Call
  BY CallFacts DEF Call
<1>2. call' = [call EXCEPT ![s][c] = [call[s][c] EXCEPT !.pc = "answered", !.alt = k]]
  BY DEF Answer, TypeOK
<1>3. QED
  BY <1>1, <1>2, MapUpdate DEF TypeOK

LEMMA ConfirmType ==
  ASSUME TypeOK, NEW s \in Sites, NEW c \in Clients,
         call[s][c].pc = "marking", Confirm(s, c)
  PROVE  call' \in [Sites -> [Clients -> Call]]
<1>1. call[s][c].id \in Ids /\ Peer[s] \in Sites
  BY CallFacts, PeerIsSite
<1>2. QED
  BY <1>1, AnswerType DEF Confirm

LEMMA InitType == Init => TypeOK
  BY NoKeysType, IdleType, BoundAssumption, KeyAssumption DEF Init, TypeOK, Ids

\* Every step keeps the types.
LEMMA StepType == TypeOK /\ [Next]_vars => TypeOK'
<1> SUFFICES ASSUME TypeOK, [Next]_vars PROVE TypeOK'
  OBVIOUS
<1> USE PeerIsSite, BoundAssumption
<1>1. ASSUME NEW s \in Sites, NEW c \in Clients, StartGetNewKey(s, c) PROVE TypeOK'
  <2>1. PICK k \in Ids : /\ ReserveNewKey(s, k)
                         /\ call' = [call EXCEPT ![s][c] = [pc |-> "marking", id |-> k, alt |-> 0]]
    BY <1>1 DEF StartGetNewKey
  <2>2. [pc |-> "marking", id |-> k, alt |-> 0] \in Call
    BY DEF Call
  <2>3. call' \in [Sites -> [Clients -> Call]]
    BY <2>1, <2>2, MapUpdate DEF TypeOK
  <2>4. QED
    BY <1>1, <2>1, <2>3, ReserveType DEF TypeOK, StartGetNewKey, feed, history, bounds
<1>2. ASSUME NEW s \in Sites, NEW c \in Clients, MarkReserved(s, c) PROVE TypeOK'
  <2>1. CASE /\ \E j \in Ids : ReserveNewKey(Peer[s], j) /\ Answer(s, c, j)
             /\ UNCHANGED storing
    <3>1. call' \in [Sites -> [Clients -> Call]]
      BY <1>2, <2>1, AnswerType DEF MarkReserved
    <3>2. QED
      BY <1>2, <2>1, <3>1, ReserveType DEF TypeOK, MarkReserved, feed, bounds
  <2>2. CASE call' = [call EXCEPT ![s][c].pc = "waiting"] /\ UNCHANGED stores
    <3>1. [call[s][c] EXCEPT !.pc = "waiting"] \in Call
      BY <1>2, CallFacts DEF Call, MarkReserved
    <3>2. call' = [call EXCEPT ![s][c] = [call[s][c] EXCEPT !.pc = "waiting"]]
      BY <2>2 DEF TypeOK
    <3>3. call' \in [Sites -> [Clients -> Call]]
      BY <3>1, <3>2, MapUpdate DEF TypeOK
    <3>4. QED
      BY <1>2, <2>2, <3>3 DEF TypeOK, MarkReserved, stores, feed, bounds
  <2>3. CASE Confirm(s, c) /\ UNCHANGED stores
    BY <1>2, <2>3, ConfirmType DEF TypeOK, MarkReserved, stores, feed, bounds
  <2>4. QED
    BY <1>2, <2>1, <2>2, <2>3 DEF MarkReserved
<1>3. ASSUME NEW s \in Sites, NEW c \in Clients, MarkUnused(s, c) PROVE TypeOK'
  <2>1. call[s][c].id \in Ids
    BY <1>3, CallFacts DEF MarkUnused
  <2>2. unusedKeys[Peer[s]][call[s][c].id] \in Slot
    BY <2>1 DEF TypeOK
  <2>3. /\ unusedKeys'   \in [Sites -> [Ids -> Slot]]
        /\ reservedKeys' \in [Sites -> [Ids -> Slot]]
    BY <1>3, <2>1, <2>2, Types DEF MarkUnused
  <2>4. QED
    BY <1>3, <2>3, ConfirmType DEF TypeOK, MarkUnused, feed, bounds
<1>4. ASSUME NEW s \in Sites, NEW c \in Clients, MarkArchived(s, c) PROVE TypeOK'
  <2>1. call[s][c].id \in Ids
    BY <1>4, CallFacts DEF MarkArchived
  <2>2. archive[Peer[s]][call[s][c].id] \in Slot
    BY <2>1 DEF TypeOK
  <2>3. /\ archive'      \in [Sites -> [Ids -> Slot]]
        /\ reservedKeys' \in [Sites -> [Ids -> Slot]]
    BY <1>4, <2>1, <2>2, Types DEF MarkArchived
  <2>4. QED
    BY <1>4, <2>3, ConfirmType DEF TypeOK, MarkArchived, feed, bounds
<1>5. ASSUME NEW s \in Sites, NEW c \in Clients, MarkUnknown(s, c) PROVE TypeOK'
  <2>1. call[s][c].id \in Ids
    BY <1>5, CallFacts DEF MarkUnknown
  <2>2. reservedKeys' \in [Sites -> [Ids -> Slot]]
    BY <1>5, <2>1, Types DEF MarkUnknown
  <2>3. QED
    BY <1>5, <2>2, ConfirmType DEF TypeOK, MarkUnknown, feed, bounds
<1>6. ASSUME NEW s \in Sites, NEW c \in Clients, SupplyAlternative(s, c) PROVE TypeOK'
  <2>1. PICK k \in Ids : ReserveNewKey(Peer[s], k) /\ Answer(s, c, k)
    BY <1>6 DEF SupplyAlternative
  <2>2. call' \in [Sites -> [Clients -> Call]]
    BY <1>6, <2>1, AnswerType DEF SupplyAlternative
  <2>3. QED
    BY <1>6, <2>1, <2>2, ReserveType DEF TypeOK, SupplyAlternative, feed, history, bounds
<1>7. ASSUME NEW s \in Sites, NEW c \in Clients, AlternativeTimeout(s, c) PROVE TypeOK'
  BY <1>7, CallReturns DEF TypeOK, AlternativeTimeout, stores, feed, history, bounds
<1>8. ASSUME NEW s \in Sites, NEW c \in Clients, TakeOriginal(s, c) PROVE TypeOK'
  <2>1. call[s][c].id \in Ids
    BY <1>8, CallFacts DEF TakeOriginal
  <2>2. ReadOf(reservedKeys[s][call[s][c].id]) \in Value
    BY <2>1, Types DEF ReadOf, Slot, Value
  <2>3. issued' \in [Sites -> [0..MaxId -> Seq(Value)]]
    BY <1>8, <2>1, <2>2, IssueType DEF TakeOriginal, Ids
  <2>4. reservedKeys' \in [Sites -> [Ids -> Slot]]
    BY <1>8, <2>1, Types DEF TakeOriginal
  <2>5. QED
    BY <1>8, <2>3, <2>4, CallReturns DEF TypeOK, TakeOriginal, feed, bounds
<1>9. ASSUME NEW s \in Sites, NEW c \in Clients, TakeAlternative(s, c) PROVE TypeOK'
  <2> DEFINE j == call[s][c].alt
  <2>1. j \in Ids /\ j \in 0..MaxId /\ 0 \in 0..MaxId
    BY <1>9, CallFacts DEF TakeAlternative, Ids
  <2>2. /\ unusedKeys[s][j] # NoEntry => unusedKeys[s][j] \in Value
        /\ reservedKeys[s][j] # NoEntry => reservedKeys[s][j] \in Value
        /\ archive[s][j] # NoEntry => archive[s][j] \in Value
    BY <2>1, Types DEF Slot
  <2>3. issued' \in [Sites -> [0..MaxId -> Seq(Value)]]
    BY <1>9, <2>1, <2>2, IssueType DEF TakeAlternative, AlternativeId
  <2>4. /\ unusedKeys'   \in [Sites -> [Ids -> Slot]]
        /\ reservedKeys' \in [Sites -> [Ids -> Slot]]
        /\ archive'      \in [Sites -> [Ids -> Slot]]
    <3>1. CASE unusedKeys' = [unusedKeys EXCEPT ![s][j] = NoEntry]
               /\ UNCHANGED <<reservedKeys, archive>>
      BY <2>1, <3>1, Types
    <3>2. CASE reservedKeys' = [reservedKeys EXCEPT ![s][j] = NoEntry]
               /\ UNCHANGED <<unusedKeys, archive>>
      BY <2>1, <3>2, Types
    <3>3. CASE archive' = [archive EXCEPT ![s][j] = NoEntry]
               /\ UNCHANGED <<unusedKeys, reservedKeys>>
      BY <2>1, <3>3, Types
    <3>4. QED
      BY <1>9, <3>1, <3>2, <3>3 DEF TakeAlternative
  <2>5. QED
    BY <1>9, <2>3, <2>4, CallReturns DEF TypeOK, TakeAlternative, feed, bounds
<1>10. ASSUME NEW s \in Sites, NEW c \in Clients, MissAlternative(s, c) PROVE TypeOK'
  <2>1. issued' \in [Sites -> [0..MaxId -> Seq(Value)]]
    BY <1>10, IssueType DEF MissAlternative, Value
  <2>2. QED
    BY <1>10, <2>1, CallReturns DEF TypeOK, MissAlternative, stores, feed, bounds
<1>11. ASSUME NEW s \in Sites, NEW c \in Clients, MarkFails(s, c) PROVE TypeOK'
  <2>1. orphans' \in [Sites -> Nat] /\ failures' \in 0..MaxFailures
    BY <1>11 DEF TypeOK, MarkFails
  <2>2. QED
    BY <1>11, <2>1, CallReturns DEF TypeOK, MarkFails, stores, feed, history
<1>12. ASSUME NEW s \in Sites, OrphanReserves(s) PROVE TypeOK'
  <2>1. orphans' \in [Sites -> Nat]
    BY <1>12 DEF TypeOK, OrphanReserves
  <2>2. /\ unusedKeys'   \in [Sites -> [Ids -> Slot]]
        /\ reservedKeys' \in [Sites -> [Ids -> Slot]]
        /\ archive'      \in [Sites -> [Ids -> Slot]]
        /\ storing'      \in [Sites -> [Ids -> Slot]]
    BY <1>12, ReserveType DEF TypeOK, OrphanReserves, stores
  <2>3. QED
    BY <1>12, <2>1, <2>2 DEF TypeOK, OrphanReserves, feed, history, bounds
<1>13. ASSUME NEW s \in Sites, StoreKeys(s) PROVE TypeOK'
  <2>1. /\ archive' \in [Sites -> [Ids -> Slot]]
        /\ storing' \in [Sites -> [Ids -> Slot]]
    BY <1>13, NoKeysType DEF TypeOK, StoreKeys
  <2>2. QED
    BY <1>13, <2>1 DEF TypeOK, StoreKeys, feed, calls, history, bounds
<1>14. ASSUME NEW s \in Sites, Restart(s) PROVE TypeOK'
  <2>1. archive' \in [Sites -> [Ids -> Slot]]
    <3>1. Flushed(s) \in [Ids -> Slot]
      BY Types DEF Flushed
    <3>2. archive' = [archive EXCEPT ![s] = Flushed(s)] \/ archive' = archive
      BY <1>14 DEF Restart
    <3>3. CASE archive' = [archive EXCEPT ![s] = Flushed(s)]
      <4>1. archive \in [Sites -> [Ids -> Slot]]
        BY Types
      <4>2. QED
        BY <3>1, <3>3, <4>1
    <3>4. QED
      BY <3>2, <3>3, Types
  <2>2. call' \in [Sites -> [Clients -> Call]]
    BY <1>14, IdleType DEF Restart, TypeOK
  <2>3. Cardinality({c \in Clients : call[s][c].pc = "waiting"}) \in Nat
    BY BoundAssumption, FS_Subset, FS_CardinalityType
  <2> DEFINE broken == Cardinality({c \in Clients : call[s][c].pc = "waiting"})
  <2> HIDE DEF broken
  <2>4. orphans' \in [Sites -> Nat]
    <3>1. orphans \in [Sites -> Nat] /\ broken \in Nat
      BY <2>3 DEF TypeOK, broken
    <3>2. orphans' = [orphans EXCEPT ![s] = 0, ![Peer[s]] = @ + broken]
      BY <1>14 DEF Restart, broken
    <3>3. QED
      BY <3>1, <3>2
  <2>5. nextKeyId' \in [Sites -> 1..(MaxId + 1)]
    BY <1>14 DEF Restart, TypeOK
  <2>6. /\ unusedKeys'   \in [Sites -> [Ids -> Slot]]
        /\ reservedKeys' \in [Sites -> [Ids -> Slot]]
        /\ storing'      \in [Sites -> [Ids -> Slot]]
    BY <1>14, Types, NoKeysType DEF Restart
  <2>7. restarts' \in 0..MaxRestarts
    BY <1>14 DEF TypeOK, Restart
  <2>8. QED
    BY <1>14, <2>1, <2>2, <2>4, <2>5, <2>6, <2>7 DEF Restart, TypeOK, history
<1>15. ASSUME NEW s \in Sites, NEW d \in Devices, OnKeyGeneration(s, d) PROVE TypeOK'
  <2> DEFINE key == Stream[d][delivered[s][d] + 1]
  <2>1. key \in PSK /\ key \in Slot
    BY <1>15, KeyAssumption DEF OnKeyGeneration, TypeOK, Slot, Value
  <2>2. nextKeyId[s] \in Ids
    BY <1>15 DEF OnKeyGeneration, TypeOK, Ids
  <2>3. /\ unusedKeys'   \in [Sites -> [Ids -> Slot]]
        /\ reservedKeys' \in [Sites -> [Ids -> Slot]]
        /\ storing'      \in [Sites -> [Ids -> Slot]]
    <3> DEFINE n == nextKeyId[s]
    <3>1. FileKey(s, n, key)
      BY <1>15 DEF OnKeyGeneration
    <3> HIDE DEF key
    <3>2. CASE reservedKeys' = [reservedKeys EXCEPT ![s][n] = key]
               /\ UNCHANGED <<unusedKeys, storing>>
      BY <3>2, <2>1, <2>2, Types
    <3>3. CASE UNCHANGED <<unusedKeys, reservedKeys, storing>>
      BY <3>3, Types
    <3>4. CASE storing' = [storing EXCEPT ![s][n] = key]
               /\ UNCHANGED <<unusedKeys, reservedKeys>>
      BY <3>4, <2>1, <2>2, Types
    <3>5. CASE unusedKeys' = [unusedKeys EXCEPT ![s][n] = key]
               /\ UNCHANGED <<reservedKeys, storing>>
      BY <3>5, <2>1, <2>2, Types
    <3>6. QED
      BY <3>1, <3>2, <3>3, <3>4, <3>5 DEF FileKey
  <2>4. nextKeyId' \in [Sites -> 1..(MaxId + 1)]
    BY <1>15, <2>2 DEF OnKeyGeneration, TypeOK, Ids
  <2>5. delivered' \in [Sites -> [Devices -> Nat]]
    <3>1. delivered \in [Sites -> [Devices -> Nat]]
      BY DEF TypeOK
    <3>2. QED
      BY <1>15, <3>1 DEF OnKeyGeneration
  <2>6. \A x \in Sites, e \in Devices : delivered'[x][e] <= Len(Stream[e])
    BY <1>15, KeyAssumption DEF OnKeyGeneration, TypeOK
  <2>7. QED
    BY <1>15, <2>3, <2>4, <2>5, <2>6 DEF OnKeyGeneration, TypeOK, calls, history, bounds
<1>16. ASSUME NEW s \in Sites, NEW k \in Ids, GetExistingKey(s, k) PROVE TypeOK'
  <2>1. /\ reservedKeys[s][k] # NoEntry => reservedKeys[s][k] \in Value
        /\ archive[s][k] # NoEntry => archive[s][k] \in Value
    BY Types DEF Slot
  <2>2. redeemed' \in [Sites -> [Ids -> Seq(Value)]]
    BY <1>16, <2>1, RedeemType DEF GetExistingKey
  <2>3. /\ reservedKeys' \in [Sites -> [Ids -> Slot]]
        /\ archive'      \in [Sites -> [Ids -> Slot]]
    <3>1. CASE reservedKeys' = [reservedKeys EXCEPT ![s][k] = NoEntry] /\ UNCHANGED archive
      BY <3>1, Types
    <3>2. CASE archive' = [archive EXCEPT ![s][k] = NoEntry] /\ UNCHANGED reservedKeys
      BY <3>2, Types
    <3>3. QED
      BY <1>16, <3>1, <3>2 DEF GetExistingKey
  <2>4. QED
    BY <1>16, <2>2, <2>3 DEF TypeOK, GetExistingKey, feed, calls, bounds
<1>17. CASE UNCHANGED vars
  BY <1>17 DEF TypeOK, vars, stores, feed, calls, history, bounds
<1>18. QED
  BY <1>1, <1>2, <1>3, <1>4, <1>5, <1>6, <1>7, <1>8, <1>9, <1>10, <1>11, <1>12,
     <1>13, <1>14, <1>15, <1>16, <1>17, Actions

\* The state always has its type: no step of either end, in any order, writes
\* anything else than a key, a placeholder or nothing under an id.
THEOREM TypeCorrect == Spec => []TypeOK
  BY InitType, StepType, PTL DEF Spec

-----------------------------------------------------------------------------
(***************************************************************************)
(* One id, one home.  OneHome is not inductive by itself: a key filed under  *)
(* nextKeyId must find that id unused everywhere, which is FreshIds.  Both   *)
(* are kept by the five ways in which a key moves between the maps, by       *)
(* OnKeyGeneration, by StoreKeys and by Restart.                             *)
(***************************************************************************)
IInv == TypeOK /\ OneHome /\ FreshIds

LEMMA UnusedToReserved ==
  ASSUME IInv, NEW s \in Sites, NEW k \in Ids,
         unusedKeys[s][k] # NoEntry,
         reservedKeys' = [reservedKeys EXCEPT ![s][k] = unusedKeys[s][k]],
         unusedKeys' = [unusedKeys EXCEPT ![s][k] = NoEntry],
         UNCHANGED <<archive, storing, nextKeyId>>
  PROVE  OneHome' /\ FreshIds'
  BY Types DEF IInv, OneHome, FreshIds

LEMMA ArchiveToReserved ==
  ASSUME IInv, NEW s \in Sites, NEW k \in Ids,
         unusedKeys[s][k] = NoEntry, archive[s][k] # NoEntry,
         reservedKeys' = [reservedKeys EXCEPT ![s][k] = archive[s][k]],
         archive' = [archive EXCEPT ![s][k] = NoEntry],
         UNCHANGED <<unusedKeys, storing, nextKeyId>>
  PROVE  OneHome' /\ FreshIds'
  BY Types DEF IInv, OneHome, FreshIds

LEMMA UnusedGivenOut ==
  ASSUME IInv, NEW s \in Sites, NEW k \in Ids,
         unusedKeys' = [unusedKeys EXCEPT ![s][k] = NoEntry],
         UNCHANGED <<reservedKeys, archive, storing, nextKeyId>>
  PROVE  OneHome' /\ FreshIds'
  BY Types DEF IInv, OneHome, FreshIds

LEMMA ReservedGivenOut ==
  ASSUME IInv, NEW s \in Sites, NEW k \in Ids,
         reservedKeys' = [reservedKeys EXCEPT ![s][k] = NoEntry],
         UNCHANGED <<unusedKeys, archive, storing, nextKeyId>>
  PROVE  OneHome' /\ FreshIds'
  BY Types, KeyAssumption DEF IInv, OneHome, FreshIds

LEMMA ArchiveGivenOut ==
  ASSUME IInv, NEW s \in Sites, NEW k \in Ids,
         archive' = [archive EXCEPT ![s][k] = NoEntry],
         UNCHANGED <<unusedKeys, reservedKeys, storing, nextKeyId>>
  PROVE  OneHome' /\ FreshIds'
  BY Types DEF IInv, OneHome, FreshIds

LEMMA ReserveKeepsHomes ==
  ASSUME IInv, NEW s \in Sites, NEW k \in Ids, ReserveNewKey(s, k),
         UNCHANGED <<storing, nextKeyId>>
  PROVE  OneHome' /\ FreshIds'
<1>1. CASE /\ Lowest(unusedKeys[s], k)
           /\ reservedKeys' = [reservedKeys EXCEPT ![s][k] = unusedKeys[s][k]]
           /\ unusedKeys'   = [unusedKeys EXCEPT ![s][k] = NoEntry]
           /\ UNCHANGED archive
  BY <1>1, UnusedToReserved DEF Lowest, Present
<1>2. CASE /\ Present(unusedKeys[s]) = {}
           /\ Lowest(archive[s], k)
           /\ reservedKeys' = [reservedKeys EXCEPT ![s][k] = archive[s][k]]
           /\ archive'      = [archive EXCEPT ![s][k] = NoEntry]
           /\ UNCHANGED unusedKeys
  BY <1>2, ArchiveToReserved DEF Lowest, Present
<1>3. QED
  BY <1>1, <1>2 DEF ReserveNewKey

\* A placeholder is no key, so it may stand beside one.
LEMMA PlaceholderKeepsHomes ==
  ASSUME IInv, NEW s \in Sites, NEW k \in Ids,
         unusedKeys[s][k] = NoEntry,
         reservedKeys' = [reservedKeys EXCEPT ![s][k] = EmptyPSK],
         UNCHANGED <<unusedKeys, archive, storing, nextKeyId>>
  PROVE  OneHome' /\ FreshIds'
  BY Types, KeyAssumption DEF IInv, OneHome, FreshIds

LEMMA InitHomes == Init => OneHome /\ FreshIds
  BY KeyAssumption DEF Init, NoKeys, OneHome, FreshIds

\* The id is new, so the key which is filed under it meets a placeholder at most.
LEMMA FilingKeepsHomes ==
  ASSUME IInv, NEW s \in Sites, NEW key \in PSK, nextKeyId[s] \in Ids,
         FileKey(s, nextKeyId[s], key),
         nextKeyId' = [nextKeyId EXCEPT ![s] = nextKeyId[s] + 1],
         UNCHANGED archive
  PROVE  OneHome' /\ FreshIds'
<1> DEFINE n == nextKeyId[s]
<1>1. /\ unusedKeys[s][n] = NoEntry /\ archive[s][n] = NoEntry /\ storing[s][n] = NoEntry
      /\ reservedKeys[s][n] \notin PSK
  BY DEF IInv, FreshIds, TypeOK, Ids
<1>2. /\ nextKeyId \in [Sites -> Nat] /\ MaxId \in Nat
      /\ key # NoEntry
  BY BoundAssumption, KeyAssumption DEF IInv, TypeOK
<1>3. \A x \in Sites, i \in Ids : i >= nextKeyId'[x] => i >= nextKeyId[x] /\ (x = s => i # n)
  BY <1>2 DEF Ids
<1>4. CASE reservedKeys' = [reservedKeys EXCEPT ![s][n] = key] /\ UNCHANGED <<unusedKeys, storing>>
  BY <1>1, <1>2, <1>3, <1>4, Types DEF IInv, OneHome, FreshIds
<1>5. CASE /\ storing' = [storing EXCEPT ![s][n] = key] /\ UNCHANGED <<unusedKeys, reservedKeys>>
           /\ reservedKeys[s][n] = NoEntry
  BY <1>1, <1>2, <1>3, <1>5, Types, KeyAssumption DEF IInv, OneHome, FreshIds
<1>6. CASE /\ unusedKeys' = [unusedKeys EXCEPT ![s][n] = key] /\ UNCHANGED <<reservedKeys, storing>>
           /\ reservedKeys[s][n] = NoEntry
  BY <1>1, <1>2, <1>3, <1>6, Types, KeyAssumption DEF IInv, OneHome, FreshIds
<1>7. QED
  BY <1>1, <1>4, <1>5, <1>6 DEF FileKey

LEMMA StoringKeepsHomes ==
  ASSUME IInv, NEW s \in Sites, StoreKeys(s)
  PROVE  OneHome' /\ FreshIds'
<1>1. \A x \in Sites, i \in Ids :
        /\ storing'[x][i] = IF x = s THEN NoEntry ELSE storing[x][i]
        /\ archive'[x][i] = IF x = s /\ archive[x][i] = NoEntry
                            THEN storing[x][i] ELSE archive[x][i]
  BY Types DEF IInv, StoreKeys, NoKeys
<1>2. UNCHANGED <<unusedKeys, reservedKeys, nextKeyId>>
  BY DEF StoreKeys, feed
<1>3. OneHome'
  BY <1>1, <1>2 DEF IInv, OneHome
<1>4. FreshIds'
  BY <1>1, <1>2 DEF IInv, FreshIds
<1>5. QED
  BY <1>3, <1>4

\* After a restart the keys are all in the backing store, and the ids above it
\* are fresh again.
LEMMA RestartKeepsHomes ==
  ASSUME IInv, NEW s \in Sites, Restart(s)
  PROVE  OneHome' /\ FreshIds'
<1>1. \A x \in Sites, i \in Ids :
        /\ unusedKeys'[x][i]   = IF x = s THEN NoEntry ELSE unusedKeys[x][i]
        /\ reservedKeys'[x][i] = IF x = s THEN NoEntry ELSE reservedKeys[x][i]
        /\ storing'[x][i]      = IF x = s THEN NoEntry ELSE storing[x][i]
  BY Types DEF IInv, Restart, NoKeys
<1>2. \A x \in Sites : x # s => archive'[x] = archive[x] /\ nextKeyId'[x] = nextKeyId[x]
  <2>1. archive' = [archive EXCEPT ![s] = Flushed(s)] \/ archive' = archive
    BY DEF Restart
  <2>2. \E n \in 1..(MaxId + 1) : nextKeyId' = [nextKeyId EXCEPT ![s] = n]
    BY DEF Restart
  <2>3. QED
    BY <2>1, <2>2, Types DEF IInv, TypeOK
<1>3. \A i \in Ids : i >= nextKeyId'[s] => archive'[s][i] = NoEntry
  <2>1. PICK n \in 1..(MaxId + 1) :
          IsNextIdAfter(archive'[s], n) /\ nextKeyId' = [nextKeyId EXCEPT ![s] = n]
    BY DEF Restart
  <2>2. nextKeyId'[s] = n
    BY <2>1 DEF IInv, TypeOK
  <2>3. QED
    BY <2>1, <2>2, BoundAssumption DEF IsNextIdAfter, Present, Ids
<1>4. OneHome'
  BY <1>1, <1>2, KeyAssumption DEF IInv, OneHome
<1>5. FreshIds'
  BY <1>1, <1>2, <1>3, KeyAssumption DEF IInv, FreshIds
<1>6. QED
  BY <1>4, <1>5

\* Steps which touch no key.
LEMMA IdleKeepsHomes ==
  ASSUME IInv, UNCHANGED <<unusedKeys, reservedKeys, archive, storing, nextKeyId>>
  PROVE  OneHome' /\ FreshIds'
  BY DEF IInv, OneHome, FreshIds

LEMMA StepHomes == IInv /\ [Next]_vars => OneHome' /\ FreshIds'
<1> SUFFICES ASSUME IInv, [Next]_vars PROVE OneHome' /\ FreshIds'
  OBVIOUS
<1>0. TypeOK /\ \A s \in Sites : Peer[s] \in Sites
  BY PeerIsSite DEF IInv
<1>1. ASSUME NEW s \in Sites, NEW c \in Clients, StartGetNewKey(s, c) PROVE OneHome' /\ FreshIds'
  BY <1>1, ReserveKeepsHomes DEF StartGetNewKey, feed
<1>2. ASSUME NEW s \in Sites, NEW c \in Clients, MarkReserved(s, c) PROVE OneHome' /\ FreshIds'
  BY <1>0, <1>2, ReserveKeepsHomes, IdleKeepsHomes DEF MarkReserved, stores, feed
<1>3. ASSUME NEW s \in Sites, NEW c \in Clients, MarkUnused(s, c) PROVE OneHome' /\ FreshIds'
  <2>1. call[s][c].id \in Ids
    BY <1>0, <1>3, CallFacts DEF MarkUnused
  <2>2. QED
    BY <1>0, <1>3, <2>1, UnusedToReserved DEF MarkUnused, feed
<1>4. ASSUME NEW s \in Sites, NEW c \in Clients, MarkArchived(s, c) PROVE OneHome' /\ FreshIds'
  <2>1. call[s][c].id \in Ids
    BY <1>0, <1>4, CallFacts DEF MarkArchived
  <2>2. QED
    BY <1>0, <1>4, <2>1, ArchiveToReserved DEF MarkArchived, feed
<1>5. ASSUME NEW s \in Sites, NEW c \in Clients, MarkUnknown(s, c) PROVE OneHome' /\ FreshIds'
  <2>1. call[s][c].id \in Ids
    BY <1>0, <1>5, CallFacts DEF MarkUnknown
  <2>2. QED
    BY <1>0, <1>5, <2>1, PlaceholderKeepsHomes DEF MarkUnknown, feed
<1>6. ASSUME NEW s \in Sites, NEW c \in Clients, SupplyAlternative(s, c) PROVE OneHome' /\ FreshIds'
  BY <1>0, <1>6, ReserveKeepsHomes DEF SupplyAlternative, feed
<1>7. ASSUME NEW s \in Sites, NEW c \in Clients, AlternativeTimeout(s, c) PROVE OneHome' /\ FreshIds'
  BY <1>7, IdleKeepsHomes DEF AlternativeTimeout, stores, feed
<1>8. ASSUME NEW s \in Sites, NEW c \in Clients, TakeOriginal(s, c) PROVE OneHome' /\ FreshIds'
  <2>1. call[s][c].id \in Ids
    BY <1>0, <1>8, CallFacts DEF TakeOriginal
  <2>2. QED
    BY <1>8, <2>1, ReservedGivenOut DEF TakeOriginal, feed
<1>9. ASSUME NEW s \in Sites, NEW c \in Clients, TakeAlternative(s, c) PROVE OneHome' /\ FreshIds'
  <2> DEFINE j == call[s][c].alt
  <2>1. j \in Ids /\ UNCHANGED <<storing, nextKeyId>>
    BY <1>0, <1>9, CallFacts DEF TakeAlternative, feed
  <2>2. CASE unusedKeys' = [unusedKeys EXCEPT ![s][j] = NoEntry]
             /\ UNCHANGED <<reservedKeys, archive>>
    BY <2>1, <2>2, UnusedGivenOut
  <2>3. CASE reservedKeys' = [reservedKeys EXCEPT ![s][j] = NoEntry]
             /\ UNCHANGED <<unusedKeys, archive>>
    BY <2>1, <2>3, ReservedGivenOut
  <2>4. CASE archive' = [archive EXCEPT ![s][j] = NoEntry]
             /\ UNCHANGED <<unusedKeys, reservedKeys>>
    BY <2>1, <2>4, ArchiveGivenOut
  <2>5. QED
    BY <1>9, <2>2, <2>3, <2>4 DEF TakeAlternative
<1>10. ASSUME NEW s \in Sites, NEW c \in Clients, MissAlternative(s, c) PROVE OneHome' /\ FreshIds'
  BY <1>10, IdleKeepsHomes DEF MissAlternative, stores, feed
<1>11. ASSUME NEW s \in Sites, NEW c \in Clients, MarkFails(s, c) PROVE OneHome' /\ FreshIds'
  BY <1>11, IdleKeepsHomes DEF MarkFails, stores, feed
<1>12. ASSUME NEW s \in Sites, OrphanReserves(s) PROVE OneHome' /\ FreshIds'
  BY <1>12, ReserveKeepsHomes, IdleKeepsHomes DEF OrphanReserves, stores, feed
<1>13. ASSUME NEW s \in Sites, StoreKeys(s) PROVE OneHome' /\ FreshIds'
  BY <1>13, StoringKeepsHomes
<1>14. ASSUME NEW s \in Sites, Restart(s) PROVE OneHome' /\ FreshIds'
  BY <1>14, RestartKeepsHomes
<1>15. ASSUME NEW s \in Sites, NEW d \in Devices, OnKeyGeneration(s, d) PROVE OneHome' /\ FreshIds'
  <2>1. Stream[d][delivered[s][d] + 1] \in PSK
    BY <1>0, <1>15, KeyAssumption DEF OnKeyGeneration, TypeOK
  <2>2. nextKeyId[s] \in Ids
    BY <1>0, <1>15 DEF OnKeyGeneration, TypeOK, Ids
  <2>3. QED
    BY <1>15, <2>1, <2>2, FilingKeepsHomes DEF OnKeyGeneration
<1>16. ASSUME NEW s \in Sites, NEW k \in Ids, GetExistingKey(s, k) PROVE OneHome' /\ FreshIds'
  BY <1>16, ReservedGivenOut, ArchiveGivenOut DEF GetExistingKey, feed
<1>17. CASE UNCHANGED vars
  BY <1>17, IdleKeepsHomes DEF vars, stores, feed
<1>18. QED
  BY <1>1, <1>2, <1>3, <1>4, <1>5, <1>6, <1>7, <1>8, <1>9, <1>10, <1>11, <1>12,
     <1>13, <1>14, <1>15, <1>16, <1>17, Actions

\* Keys keep to one map of their end, and ids not counted yet hold none.
THEOREM HomesInvariant == Spec => []IInv
<1>1. Init => IInv
  BY InitType, InitHomes DEF IInv
<1>2. IInv /\ [Next]_vars => IInv'
  BY StepType, StepHomes DEF IInv
<1>3. QED
  BY <1>1, <1>2, PTL DEF Spec

\* No key is ever under an id in two maps of one end, so no two of the calls
\* which look in different maps can give the same key to two applications,
\* whatever clashes, lost RPCs and restarts there were.
THEOREM KeysHaveOneHome == Spec => []OneHome
<1>1. IInv => OneHome
  BY DEF IInv
<1>2. QED
  BY <1>1, HomesInvariant, PTL

-----------------------------------------------------------------------------
(***************************************************************************)
(* Reservations are final.  The invariant says which reserved keys a step    *)
(* can overwrite: none, since the id it writes to had its key elsewhere or   *)
(* was fresh.  What is left are the two calls which give the key out.        *)
(***************************************************************************)
StaysOrGoesOut ==
  \A s \in Sites, k \in Ids :
    (reservedKeys[s][k] \in PSK /\ reservedKeys'[s][k] # reservedKeys[s][k]) =>
      \/ restarts' # restarts
      \/ \E n \in DOMAIN issued'[s][k] : issued'[s][k][n] = reservedKeys[s][k]
      \/ \E n \in DOMAIN redeemed'[s][k] : redeemed'[s][k][n] = reservedKeys[s][k]

\* A step which writes to no id of the reserved keys but one without a key.
LEMMA PutKeepsReservations ==
  ASSUME TypeOK, NEW s \in Sites, NEW k \in Ids, NEW v,
         reservedKeys[s][k] \notin PSK,
         reservedKeys' = [reservedKeys EXCEPT ![s][k] = v]
  PROVE  StaysOrGoesOut
  BY Types DEF StaysOrGoesOut

LEMMA ReserveKeepsReservations ==
  ASSUME IInv, NEW s \in Sites, NEW k \in Ids, ReserveNewKey(s, k)
  PROVE  StaysOrGoesOut
<1>1. unusedKeys[s][k] # NoEntry \/ archive[s][k] # NoEntry
  BY DEF ReserveNewKey, Lowest, Present
<1>2. reservedKeys[s][k] \notin PSK
  BY <1>1, KeyAssumption DEF IInv, OneHome
<1>3. \E v : reservedKeys' = [reservedKeys EXCEPT ![s][k] = v]
  BY DEF ReserveNewKey
<1>4. QED
  BY <1>2, <1>3, PutKeepsReservations DEF IInv

\* What was appended to a log is in it.
LEMMA LastOfAppend ==
  ASSUME NEW S, NEW q \in Seq(S), NEW v \in S
  PROVE  \E n \in DOMAIN Append(q, v) : Append(q, v)[n] = v
<1>1. Append(q, v) \in Seq(S) /\ Len(Append(q, v)) = Len(q) + 1 /\ Len(q) \in Nat
  OBVIOUS
<1>2. DOMAIN Append(q, v) = 1..Len(Append(q, v))
  BY <1>1
<1>3. Append(q, v)[Len(q) + 1] = v
  OBVIOUS
<1>4. QED
  BY <1>1, <1>2, <1>3

LEMMA IssueGoesOut ==
  ASSUME TypeOK, NEW s \in Sites, NEW k \in Ids, Issue(s, k, reservedKeys[s][k]),
         reservedKeys[s][k] # NoEntry,
         reservedKeys' = [reservedKeys EXCEPT ![s][k] = NoEntry]
  PROVE  StaysOrGoesOut
<1> DEFINE log == issued[s][k]
<1>0. k \in 0..MaxId
  BY BoundAssumption DEF Ids
<1>1. log \in Seq(Value) /\ reservedKeys[s][k] \in Value
  <2>1. issued \in [Sites -> [0..MaxId -> Seq(Value)]]
    BY Types
  <2>2. reservedKeys[s][k] \in Slot
    BY Types
  <2>3. QED
    BY <1>0, <2>1, <2>2 DEF Slot
<1>2. issued'[s][k] = Append(log, reservedKeys[s][k])
  BY <1>0, Types DEF Issue
<1> HIDE DEF log
<1>3. \E n \in DOMAIN issued'[s][k] : issued'[s][k][n] = reservedKeys[s][k]
  BY <1>1, <1>2, LastOfAppend
<1>4. \A x \in Sites, i \in Ids :
        reservedKeys'[x][i] # reservedKeys[x][i] => x = s /\ i = k
  BY Types
<1>5. QED
  BY <1>3, <1>4 DEF StaysOrGoesOut

LEMMA RedeemGoesOut ==
  ASSUME TypeOK, NEW s \in Sites, NEW k \in Ids, Redeem(s, k, reservedKeys[s][k]),
         reservedKeys[s][k] # NoEntry,
         reservedKeys' = [reservedKeys EXCEPT ![s][k] = NoEntry]
  PROVE  StaysOrGoesOut
<1> DEFINE log == redeemed[s][k]
<1>1. log \in Seq(Value) /\ reservedKeys[s][k] \in Value
  BY Types DEF Slot
<1>2. redeemed'[s][k] = Append(log, reservedKeys[s][k])
  BY Types DEF Redeem
<1> HIDE DEF log
<1>3. \E n \in DOMAIN redeemed'[s][k] : redeemed'[s][k][n] = reservedKeys[s][k]
  BY <1>1, <1>2, LastOfAppend
<1>4. \A x \in Sites, i \in Ids :
        reservedKeys'[x][i] # reservedKeys[x][i] => x = s /\ i = k
  BY Types
<1>5. QED
  BY <1>3, <1>4 DEF StaysOrGoesOut

LEMMA StepKeepsReservations == IInv /\ [Next]_vars => StaysOrGoesOut
<1> SUFFICES ASSUME IInv, [Next]_vars PROVE StaysOrGoesOut
  OBVIOUS
<1>0. TypeOK /\ \A s \in Sites : Peer[s] \in Sites
  BY PeerIsSite DEF IInv
<1>u. ASSUME reservedKeys' = reservedKeys PROVE StaysOrGoesOut
  BY <1>u DEF StaysOrGoesOut
<1>1. ASSUME NEW s \in Sites, NEW c \in Clients, StartGetNewKey(s, c) PROVE StaysOrGoesOut
  BY <1>1, ReserveKeepsReservations DEF StartGetNewKey
<1>2. ASSUME NEW s \in Sites, NEW c \in Clients, MarkReserved(s, c) PROVE StaysOrGoesOut
  BY <1>0, <1>2, <1>u, ReserveKeepsReservations DEF MarkReserved, stores
<1>3. ASSUME NEW s \in Sites, NEW c \in Clients,
             MarkUnused(s, c) \/ MarkArchived(s, c) \/ MarkUnknown(s, c)
      PROVE  StaysOrGoesOut
  <2> DEFINE p == Peer[s]
             k == call[s][c].id
  <2>1. k \in Ids /\ p \in Sites
    BY <1>0, <1>3, CallFacts DEF MarkUnused, MarkArchived, MarkUnknown
  <2>2. reservedKeys[p][k] \notin PSK
    BY <1>3, KeyAssumption DEF MarkUnused, MarkArchived, MarkUnknown
  <2>3. \E v : reservedKeys' = [reservedKeys EXCEPT ![p][k] = v]
    BY <1>3 DEF MarkUnused, MarkArchived, MarkUnknown
  <2> HIDE DEF p, k
  <2>4. QED
    BY <1>0, <2>1, <2>2, <2>3, PutKeepsReservations
<1>4. ASSUME NEW s \in Sites, NEW c \in Clients, SupplyAlternative(s, c) PROVE StaysOrGoesOut
  BY <1>0, <1>4, ReserveKeepsReservations DEF SupplyAlternative
<1>5. ASSUME NEW s \in Sites, NEW c \in Clients,
             AlternativeTimeout(s, c) \/ MissAlternative(s, c) \/ MarkFails(s, c)
      PROVE  StaysOrGoesOut
  BY <1>5, <1>u DEF AlternativeTimeout, MissAlternative, MarkFails, stores
<1>6. ASSUME NEW s \in Sites, NEW c \in Clients, TakeOriginal(s, c) PROVE StaysOrGoesOut
  <2> DEFINE k == call[s][c].id
  <2>1. k \in Ids
    BY <1>0, <1>6, CallFacts DEF TakeOriginal
  <2>2. reservedKeys' = [reservedKeys EXCEPT ![s][k] = NoEntry]
    BY <1>6 DEF TakeOriginal
  <2>3. CASE reservedKeys[s][k] = NoEntry
    <3>1. reservedKeys[s][k] \notin PSK
      BY <2>3, KeyAssumption
    <3>2. QED
      BY <1>0, <2>1, <2>2, <3>1, PutKeepsReservations
  <2>4. CASE reservedKeys[s][k] # NoEntry
    <3>1. Issue(s, k, reservedKeys[s][k])
      BY <1>6, <2>4 DEF TakeOriginal, ReadOf
    <3>2. QED
      BY <1>0, <2>1, <2>2, <2>4, <3>1, IssueGoesOut
  <2>5. QED
    BY <2>3, <2>4
<1>7. ASSUME NEW s \in Sites, NEW c \in Clients, TakeAlternative(s, c) PROVE StaysOrGoesOut
  <2> DEFINE j == call[s][c].alt
  <2>1. j \in Ids
    BY <1>0, <1>7, CallFacts DEF TakeAlternative
  <2>2. CASE reservedKeys' = reservedKeys
    BY <2>2, <1>u
  <2>3. CASE /\ reservedKeys[s][j] # NoEntry
             /\ Issue(s, j, reservedKeys[s][j])
             /\ reservedKeys' = [reservedKeys EXCEPT ![s][j] = NoEntry]
    BY <1>0, <2>1, <2>3, IssueGoesOut
  <2>4. QED
    BY <1>7, <2>2, <2>3 DEF TakeAlternative, AlternativeId
<1>8. ASSUME NEW s \in Sites, OrphanReserves(s) PROVE StaysOrGoesOut
  BY <1>8, <1>u, ReserveKeepsReservations DEF OrphanReserves, stores
<1>9. ASSUME NEW s \in Sites, StoreKeys(s) PROVE StaysOrGoesOut
  BY <1>9, <1>u DEF StoreKeys
<1>10. ASSUME NEW s \in Sites, Restart(s) PROVE StaysOrGoesOut
  <2>1. restarts \in Nat /\ restarts' = restarts + 1
    BY <1>0, <1>10, BoundAssumption DEF Restart, TypeOK
  <2>2. QED
    BY <2>1 DEF StaysOrGoesOut
<1>11. ASSUME NEW s \in Sites, NEW d \in Devices, OnKeyGeneration(s, d) PROVE StaysOrGoesOut
  <2> DEFINE n == nextKeyId[s]
  <2>1. n \in Ids
    BY <1>0, <1>11 DEF OnKeyGeneration, TypeOK, Ids
  <2>2. reservedKeys[s][n] \notin PSK
    BY <1>0, <2>1 DEF IInv, FreshIds, TypeOK
  <2>3. reservedKeys' = reservedKeys \/ \E v : reservedKeys' = [reservedKeys EXCEPT ![s][n] = v]
    BY <1>11 DEF OnKeyGeneration, FileKey
  <2> HIDE DEF n
  <2>4. QED
    BY <1>0, <1>u, <2>1, <2>2, <2>3, PutKeepsReservations
<1>12. ASSUME NEW s \in Sites, NEW k \in Ids, GetExistingKey(s, k) PROVE StaysOrGoesOut
  BY <1>0, <1>12, <1>u, RedeemGoesOut DEF GetExistingKey
<1>13. CASE UNCHANGED vars
  BY <1>13, <1>u DEF vars, stores
<1>14. QED
  BY <1>1, <1>2, <1>3, <1>4, <1>5, <1>6, <1>7, <1>8, <1>9, <1>10, <1>11, <1>12,
     <1>13, Actions

\* A reserved key leaves only to a caller who named its id: no step of the
\* other threads, of the partner or of the devices overwrites or releases it.
THEOREM ReservedKeysStay == Spec => ReservationsAreFinal
<1>1. IInv /\ [Next]_vars => [StaysOrGoesOut]_vars
  BY StepKeepsReservations
<1>2. Spec => [][StaysOrGoesOut]_vars
  BY <1>1, HomesInvariant, PTL DEF Spec
<1>3. QED
  BY <1>2 DEF ReservationsAreFinal, StaysOrGoesOut

-----------------------------------------------------------------------------
(***************************************************************************)
(* The two applications hold the same key.  It takes one pair of devices,    *)
(* so that a key's id is its position in the stream, and no restart, after   *)
(* which an end counts from what its backing store happens to hold.  Then a  *)
(* key is only ever found under its position, whatever hands it passed       *)
(* through, and SameKeyAtBothEnds follows.                                   *)
(***************************************************************************)
KeyOf(d, k)  == {EmptyPSK} \union {v \in PSK : k \in 1..Len(Stream[d]) /\ v = Stream[d][k]}
SlotOf(d, k) == KeyOf(d, k) \union {NoEntry}

SlotsById(d) ==
  \A s \in Sites, k \in Ids :
    /\ unusedKeys[s][k] \in SlotOf(d, k)
    /\ reservedKeys[s][k] \in SlotOf(d, k)
    /\ archive[s][k] \in SlotOf(d, k)
    /\ storing[s][k] \in SlotOf(d, k)

LogsById(d) ==
  \A s \in Sites, k \in Ids :
    /\ issued[s][k] \in Seq(KeyOf(d, k))
    /\ redeemed[s][k] \in Seq(KeyOf(d, k))

NumbersInStep(d) == \A s \in Sites : nextKeyId[s] = delivered[s][d] + 1

ById(d) == TypeOK /\ SlotsById(d) /\ LogsById(d) /\ NumbersInStep(d)

\* Moving a key between two maps under its id, or dropping it.
LEMMA UnusedMoves ==
  ASSUME NEW d \in Devices, TypeOK, SlotsById(d), NEW s \in Sites, NEW k \in Ids,
         unusedKeys' = [unusedKeys EXCEPT ![s][k] = NoEntry],
         \/ reservedKeys' = reservedKeys
         \/ reservedKeys' = [reservedKeys EXCEPT ![s][k] = unusedKeys[s][k]],
         UNCHANGED <<archive, storing>>
  PROVE  SlotsById(d)'
<1>1. NoEntry \in SlotOf(d, k) /\ unusedKeys[s][k] \in SlotOf(d, k)
  BY DEF SlotOf, SlotsById
<1>2. CASE reservedKeys' = reservedKeys
  BY <1>1, <1>2, Types DEF SlotsById
<1>3. CASE reservedKeys' = [reservedKeys EXCEPT ![s][k] = unusedKeys[s][k]]
  BY <1>1, <1>3, Types DEF SlotsById
<1>4. QED
  BY <1>2, <1>3

LEMMA ArchiveMoves ==
  ASSUME NEW d \in Devices, TypeOK, SlotsById(d), NEW s \in Sites, NEW k \in Ids,
         archive' = [archive EXCEPT ![s][k] = NoEntry],
         \/ reservedKeys' = reservedKeys
         \/ reservedKeys' = [reservedKeys EXCEPT ![s][k] = archive[s][k]],
         UNCHANGED <<unusedKeys, storing>>
  PROVE  SlotsById(d)'
<1>1. NoEntry \in SlotOf(d, k) /\ archive[s][k] \in SlotOf(d, k)
  BY DEF SlotOf, SlotsById
<1>2. CASE reservedKeys' = reservedKeys
  BY <1>1, <1>2, Types DEF SlotsById
<1>3. CASE reservedKeys' = [reservedKeys EXCEPT ![s][k] = archive[s][k]]
  BY <1>1, <1>3, Types DEF SlotsById
<1>4. QED
  BY <1>2, <1>3

LEMMA ReservedChanges ==
  ASSUME NEW d \in Devices, TypeOK, SlotsById(d), NEW s \in Sites, NEW k \in Ids,
         NEW v \in SlotOf(d, k),
         reservedKeys' = [reservedKeys EXCEPT ![s][k] = v],
         UNCHANGED <<unusedKeys, archive, storing>>
  PROVE  SlotsById(d)'
  BY Types DEF SlotsById

LEMMA ReserveMoves ==
  ASSUME NEW d \in Devices, TypeOK, SlotsById(d), NEW s \in Sites, NEW k \in Ids,
         ReserveNewKey(s, k), UNCHANGED storing
  PROVE  SlotsById(d)'
  BY UnusedMoves, ArchiveMoves DEF ReserveNewKey

\* Giving a key out under its id.
LEMMA IssueById ==
  ASSUME NEW d \in Devices, LogTypes, LogsById(d), NEW s \in Sites, NEW k \in Ids,
         NEW v \in KeyOf(d, k), Issue(s, k, v), UNCHANGED redeemed
  PROVE  LogsById(d)'
<1>1. issued \in [Sites -> [0..MaxId -> Seq(Value)]] /\ Ids \subseteq 0..MaxId
  BY BoundAssumption DEF LogTypes, Ids
<1>2. Append(issued[s][k], v) \in Seq(KeyOf(d, k))
  BY DEF LogsById
<1>3. \A x \in Sites, i \in Ids :
        issued'[x][i] = IF x = s /\ i = k THEN Append(issued[s][k], v) ELSE issued[x][i]
  BY <1>1 DEF Issue
<1>4. QED
  BY <1>2, <1>3 DEF LogsById

LEMMA IssueUnnumbered ==
  ASSUME NEW d \in Devices, TypeOK, LogsById(d), NEW s \in Sites, NEW v,
         Issue(s, 0, v), UNCHANGED redeemed
  PROVE  LogsById(d)'
<1>1. issued \in [Sites -> [0..MaxId -> Seq(Value)]]
  BY Types
<1>2. \A x \in Sites, i \in Ids : issued'[x][i] = issued[x][i]
  BY <1>1, BoundAssumption DEF Issue, Ids
<1>3. QED
  BY <1>2 DEF LogsById

LEMMA RedeemById ==
  ASSUME NEW d \in Devices, LogTypes, LogsById(d), NEW s \in Sites, NEW k \in Ids,
         NEW v \in KeyOf(d, k), Redeem(s, k, v), UNCHANGED issued
  PROVE  LogsById(d)'
<1>1. redeemed \in [Sites -> [Ids -> Seq(Value)]]
  BY DEF LogTypes
<1>2. Append(redeemed[s][k], v) \in Seq(KeyOf(d, k))
  BY DEF LogsById
<1>3. \A x \in Sites, i \in Ids :
        redeemed'[x][i] = IF x = s /\ i = k THEN Append(redeemed[s][k], v) ELSE redeemed[x][i]
  BY <1>1 DEF Redeem
<1>4. QED
  BY <1>2, <1>3 DEF LogsById

LEMMA InitById == \A d \in Devices : Init => ById(d)
<1> SUFFICES ASSUME NEW d \in Devices, Init PROVE ById(d)
  OBVIOUS
<1>1. SlotsById(d)
  BY DEF Init, NoKeys, SlotsById, SlotOf
<1>2. LogsById(d)
  <2>1. \A s \in Sites, k \in Ids : issued[s][k] = <<>> /\ redeemed[s][k] = <<>>
    BY BoundAssumption DEF Init, Ids
  <2>2. \A k \in Ids : <<>> \in Seq(KeyOf(d, k))
    OBVIOUS
  <2>3. QED
    BY <2>1, <2>2 DEF LogsById
<1>3. NumbersInStep(d)
  BY DEF Init, NumbersInStep
<1>4. QED
  BY <1>1, <1>2, <1>3, InitType DEF ById

LEMMA StepById ==
  ASSUME NEW d \in Devices, Devices = {d}, ById(d), [Next]_vars, UNCHANGED restarts
  PROVE  ById(d)'
<1>0. /\ TypeOK /\ TypeOK' /\ SlotsById(d) /\ LogsById(d) /\ NumbersInStep(d)
      /\ \A s \in Sites : Peer[s] \in Sites
  BY PeerIsSite, StepType DEF ById
<1>l. ASSUME UNCHANGED <<issued, redeemed>> PROVE LogsById(d)'
  BY <1>0, <1>l DEF LogsById
<1>n. ASSUME UNCHANGED feed PROVE NumbersInStep(d)'
  BY <1>0, <1>n DEF NumbersInStep, feed
<1>s. ASSUME UNCHANGED stores PROVE SlotsById(d)'
  BY <1>0, <1>s DEF SlotsById, stores
<1>1. ASSUME NEW s \in Sites, NEW c \in Clients, StartGetNewKey(s, c) PROVE ById(d)'
  BY <1>0, <1>1, <1>l, <1>n, ReserveMoves DEF StartGetNewKey, history, ById
<1>2. ASSUME NEW s \in Sites, NEW c \in Clients, MarkReserved(s, c) PROVE ById(d)'
  BY <1>0, <1>2, <1>l, <1>n, <1>s, ReserveMoves DEF MarkReserved, ById
<1>3. ASSUME NEW s \in Sites, NEW c \in Clients, MarkUnused(s, c) PROVE ById(d)'
  <2>1. call[s][c].id \in Ids
    BY <1>0, <1>3, CallFacts DEF MarkUnused
  <2>2. SlotsById(d)'
    BY <1>0, <1>3, <2>1, UnusedMoves DEF MarkUnused
  <2>3. QED
    BY <1>0, <1>3, <1>l, <1>n, <2>2 DEF MarkUnused, ById
<1>4. ASSUME NEW s \in Sites, NEW c \in Clients, MarkArchived(s, c) PROVE ById(d)'
  <2>1. call[s][c].id \in Ids
    BY <1>0, <1>4, CallFacts DEF MarkArchived
  <2>2. SlotsById(d)'
    BY <1>0, <1>4, <2>1, ArchiveMoves DEF MarkArchived
  <2>3. QED
    BY <1>0, <1>4, <1>l, <1>n, <2>2 DEF MarkArchived, ById
<1>5. ASSUME NEW s \in Sites, NEW c \in Clients, MarkUnknown(s, c) PROVE ById(d)'
  <2>1. call[s][c].id \in Ids /\ EmptyPSK \in SlotOf(d, call[s][c].id)
    BY <1>0, <1>5, CallFacts DEF MarkUnknown, SlotOf, KeyOf
  <2>2. SlotsById(d)'
    BY <1>0, <1>5, <2>1, ReservedChanges DEF MarkUnknown
  <2>3. QED
    BY <1>0, <1>5, <1>l, <1>n, <2>2 DEF MarkUnknown, ById
<1>6. ASSUME NEW s \in Sites, NEW c \in Clients, SupplyAlternative(s, c) PROVE ById(d)'
  BY <1>0, <1>6, <1>l, <1>n, ReserveMoves DEF SupplyAlternative, history, ById
<1>7. ASSUME NEW s \in Sites, NEW c \in Clients, AlternativeTimeout(s, c) \/ MarkFails(s, c)
      PROVE  ById(d)'
  BY <1>0, <1>7, <1>l, <1>n, <1>s DEF AlternativeTimeout, MarkFails, history, ById
<1>8. ASSUME NEW s \in Sites, NEW c \in Clients, TakeOriginal(s, c) PROVE ById(d)'
  <2> DEFINE k == call[s][c].id
  <2>1. k \in Ids /\ NoEntry \in SlotOf(d, k)
    BY <1>0, <1>8, CallFacts DEF TakeOriginal, SlotOf
  <2>2. reservedKeys[s][k] \in SlotOf(d, k)
    BY <1>0, <2>1 DEF SlotsById
  <2>3. ReadOf(reservedKeys[s][k]) \in KeyOf(d, k)
    BY <2>2 DEF ReadOf, SlotOf, KeyOf
  <2>4. LogsById(d)'
    BY <1>0, <1>8, <2>1, <2>3, IssueById, LogTypesHold DEF TakeOriginal
  <2>5. SlotsById(d)'
    BY <1>0, <1>8, <2>1, ReservedChanges DEF TakeOriginal
  <2>6. QED
    BY <1>0, <1>8, <1>n, <2>4, <2>5 DEF TakeOriginal, ById
<1>9. ASSUME NEW s \in Sites, NEW c \in Clients, TakeAlternative(s, c) PROVE ById(d)'
  <2> DEFINE j == call[s][c].alt
  <2>1. j \in Ids /\ NoEntry \in SlotOf(d, j) /\ AlternativeId(s, c) = j
    BY <1>0, <1>9, CallFacts DEF TakeAlternative, SlotOf, AlternativeId
  <2>2. UNCHANGED <<redeemed, storing>> /\ NumbersInStep(d)'
    BY <1>9, <1>n DEF TakeAlternative
  <2> HIDE DEF j
  <2>3. CASE /\ unusedKeys[s][j] # NoEntry
             /\ Issue(s, j, unusedKeys[s][j])
             /\ unusedKeys' = [unusedKeys EXCEPT ![s][j] = NoEntry]
             /\ UNCHANGED <<reservedKeys, archive>>
    <3>1. unusedKeys[s][j] \in KeyOf(d, j)
      BY <1>0, <2>1, <2>3 DEF SlotsById, SlotOf
    <3>2. LogsById(d)' /\ SlotsById(d)'
      BY <1>0, <2>1, <2>2, <2>3, <3>1, IssueById, LogTypesHold, UnusedMoves
    <3>3. QED
      BY <1>0, <2>2, <3>2 DEF ById
  <2>4. CASE /\ reservedKeys[s][j] # NoEntry
             /\ Issue(s, j, reservedKeys[s][j])
             /\ reservedKeys' = [reservedKeys EXCEPT ![s][j] = NoEntry]
             /\ UNCHANGED <<unusedKeys, archive>>
    <3>1. reservedKeys[s][j] \in KeyOf(d, j)
      BY <1>0, <2>1, <2>4 DEF SlotsById, SlotOf
    <3>2. LogsById(d)' /\ SlotsById(d)'
      BY <1>0, <2>1, <2>2, <2>4, <3>1, IssueById, LogTypesHold, ReservedChanges
    <3>3. QED
      BY <1>0, <2>2, <3>2 DEF ById
  <2>5. CASE /\ Issue(s, 0, archive[s][j])
             /\ archive' = [archive EXCEPT ![s][j] = NoEntry]
             /\ UNCHANGED <<unusedKeys, reservedKeys>>
    <3>1. LogsById(d)' /\ SlotsById(d)'
      BY <1>0, <2>1, <2>2, <2>5, IssueUnnumbered, ArchiveMoves
    <3>2. QED
      BY <1>0, <2>2, <3>1 DEF ById
  <2>6. QED
    BY <1>9, <2>1, <2>3, <2>4, <2>5 DEF TakeAlternative, j
<1>10. ASSUME NEW s \in Sites, NEW c \in Clients, MissAlternative(s, c) PROVE ById(d)'
  BY <1>0, <1>10, <1>n, <1>s, IssueUnnumbered DEF MissAlternative, ById
<1>11. ASSUME NEW s \in Sites, OrphanReserves(s) PROVE ById(d)'
  BY <1>0, <1>11, <1>l, <1>n, <1>s, ReserveMoves DEF OrphanReserves, history, ById
<1>12. ASSUME NEW s \in Sites, StoreKeys(s) PROVE ById(d)'
  <2>1. \A x \in Sites, i \in Ids :
          /\ storing'[x][i] = IF x = s THEN NoEntry ELSE storing[x][i]
          /\ archive'[x][i] = IF x = s /\ archive[x][i] = NoEntry
                              THEN storing[x][i] ELSE archive[x][i]
    BY <1>0, <1>12, Types DEF StoreKeys, NoKeys
  <2>2. SlotsById(d)'
    BY <1>0, <1>12, <2>1 DEF SlotsById, SlotOf, StoreKeys
  <2>3. QED
    BY <1>0, <1>12, <1>l, <1>n, <2>2 DEF StoreKeys, history, ById
<1>13. ASSUME NEW s \in Sites, Restart(s) PROVE FALSE
  BY <1>0, <1>13 DEF Restart, TypeOK
<1>14. ASSUME NEW s \in Sites, NEW e \in Devices, OnKeyGeneration(s, e) PROVE ById(d)'
  <2> DEFINE n == nextKeyId[s]
             key == Stream[d][n]
  <2>1. e = d /\ n = delivered[s][d] + 1 /\ key \in SlotOf(d, n)
    <3>1. e = d /\ n = delivered[s][d] + 1
      BY <1>0, <1>14 DEF NumbersInStep
    <3>2. Stream[d] \in Seq(PSK) /\ delivered[s][d] \in Nat /\ delivered[s][d] < Len(Stream[d])
      BY <1>0, <1>14, <3>1, KeyAssumption DEF OnKeyGeneration, TypeOK
    <3>3. n \in 1..Len(Stream[d]) /\ key \in PSK
      BY <3>1, <3>2
    <3>4. QED
      BY <3>1, <3>3 DEF SlotOf, KeyOf
  <2>2. n \in Ids
    BY <1>0, <1>14 DEF OnKeyGeneration, TypeOK, Ids
  <2>3. FileKey(s, n, key) /\ UNCHANGED archive
    BY <1>14, <2>1 DEF OnKeyGeneration
  <2>4. NumbersInStep(d)'
    BY <1>0, <1>14, <2>1 DEF OnKeyGeneration, NumbersInStep, TypeOK
  <2> HIDE DEF n, key
  <2>5. SlotsById(d)'
    <3>1. CASE reservedKeys' = [reservedKeys EXCEPT ![s][n] = key] /\ UNCHANGED <<unusedKeys, storing>>
      BY <1>0, <2>1, <2>2, <2>3, <3>1, ReservedChanges
    <3>2. CASE storing' = [storing EXCEPT ![s][n] = key] /\ UNCHANGED <<unusedKeys, reservedKeys>>
      BY <1>0, <2>1, <2>2, <2>3, <3>2, Types DEF SlotsById
    <3>3. CASE unusedKeys' = [unusedKeys EXCEPT ![s][n] = key] /\ UNCHANGED <<reservedKeys, storing>>
      BY <1>0, <2>1, <2>2, <2>3, <3>3, Types DEF SlotsById
    <3>4. CASE UNCHANGED <<unusedKeys, reservedKeys, storing>>
      BY <1>0, <2>3, <3>4 DEF SlotsById
    <3>5. QED
      BY <2>3, <3>1, <3>2, <3>3, <3>4 DEF FileKey
  <2>6. QED
    BY <1>0, <1>14, <1>l, <2>4, <2>5 DEF OnKeyGeneration, history, ById
<1>15. ASSUME NEW s \in Sites, NEW k \in Ids, GetExistingKey(s, k) PROVE ById(d)'
  <2>1. /\ reservedKeys[s][k] # NoEntry => reservedKeys[s][k] \in KeyOf(d, k)
        /\ archive[s][k] # NoEntry => archive[s][k] \in KeyOf(d, k)
        /\ NoEntry \in SlotOf(d, k)
    BY <1>0 DEF SlotsById, SlotOf
  <2>2. LogsById(d)'
    BY <1>0, <1>15, <2>1, RedeemById, LogTypesHold DEF GetExistingKey
  <2>3. SlotsById(d)'
    BY <1>0, <1>15, <2>1, ReservedChanges, ArchiveMoves DEF GetExistingKey
  <2>4. QED
    BY <1>0, <1>15, <1>n, <2>2, <2>3 DEF GetExistingKey, ById
<1>16. CASE UNCHANGED vars
  BY <1>0, <1>16, <1>l, <1>n, <1>s DEF vars, history, ById
<1>17. QED
  BY <1>1, <1>2, <1>3, <1>4, <1>5, <1>6, <1>7, <1>8, <1>9, <1>10, <1>11, <1>12,
     <1>13, <1>14, <1>15, <1>16, Actions

\* With one pair of devices feeding the link and no restart, two applications
\* which exchange a key id never hold different keys, for any number of keys,
\* threads, clashes and lost RPCs; an empty key is the only other outcome.
THEOREM OnePairAgrees ==
  ASSUME NEW d \in Devices, Devices = {d}, MaxRestarts = 0
  PROVE  Spec => []SameKeyAtBothEnds
<1>1. Init => ById(d)
  BY InitById
<1>2. ById(d) /\ [Next]_vars => ById(d)'
  <2> SUFFICES ASSUME ById(d), [Next]_vars PROVE ById(d)'
    OBVIOUS
  <2>1. restarts = 0 /\ restarts' = 0
    <3>1. TypeOK /\ TypeOK'
      BY StepType DEF ById
    <3>2. restarts \in 0..0 /\ restarts' \in 0..0
      BY <3>1 DEF TypeOK
    <3>3. QED
      BY <3>2
  <2>2. QED
    BY <2>1, StepById
<1>3. ById(d) => SameKeyAtBothEnds
  <2> SUFFICES ASSUME ById(d), NEW s \in Sites, NEW k \in Ids,
                      NEW m \in DOMAIN issued[s][k], NEW n \in DOMAIN redeemed[Peer[s]][k]
               PROVE  \/ EmptyPSK \in {issued[s][k][m], redeemed[Peer[s]][k][n]}
                      \/ issued[s][k][m] = redeemed[Peer[s]][k][n]
    BY DEF SameKeyAtBothEnds
  <2>1. issued[s][k] \in Seq(KeyOf(d, k)) /\ redeemed[Peer[s]][k] \in Seq(KeyOf(d, k))
    BY PeerIsSite DEF ById, LogsById
  <2>2. issued[s][k][m] \in KeyOf(d, k) /\ redeemed[Peer[s]][k][n] \in KeyOf(d, k)
    BY <2>1
  <2>3. QED
    BY <2>2 DEF KeyOf
<1>4. QED
  BY <1>1, <1>2, <1>3, PTL DEF Spec

-----------------------------------------------------------------------------
(***************************************************************************)
(* No key is lost before a restart.  A key which a step takes out of a map   *)
(* is in another one, or in a log of what was given out, when the step ends; *)
(* nothing is written over a key, which is what OneHome and FreshIds say.    *)
(***************************************************************************)
Kept(s, v) ==
  \E k \in Ids : v \in {unusedKeys[s][k], reservedKeys[s][k], archive[s][k], storing[s][k]}

GivenOut(s, v) ==
  \/ \E k \in 0..MaxId : \E n \in DOMAIN issued[s][k] : issued[s][k][n] = v
  \/ \E k \in Ids : \E n \in DOMAIN redeemed[s][k] : redeemed[s][k][n] = v

Accounted(s, v) == Kept(s, v) \/ GivenOut(s, v)

NothingVanishes == \A s \in Sites, v \in PSK : Accounted(s, v) => Accounted(s, v)'

\* Every log of a step is the old one or the old one with a value at its end.
LogsGrow ==
  \A s \in Sites :
    /\ \A k \in 0..MaxId : \/ issued'[s][k] = issued[s][k]
                           \/ \E v \in Value : issued'[s][k] = Append(issued[s][k], v)
    /\ \A k \in Ids : \/ redeemed'[s][k] = redeemed[s][k]
                      \/ \E v \in Value : redeemed'[s][k] = Append(redeemed[s][k], v)

LEMMA AppendKeeps ==
  ASSUME NEW S, NEW q \in Seq(S), NEW v \in S, NEW n \in DOMAIN q
  PROVE  n \in DOMAIN Append(q, v) /\ Append(q, v)[n] = q[n]
<1>1. n \in 1..Len(q) /\ Len(q) \in Nat /\ Len(Append(q, v)) = Len(q) + 1
  OBVIOUS
<1>2. DOMAIN Append(q, v) = 1..(Len(q) + 1)
  BY <1>1
<1>3. QED
  BY <1>1, <1>2

\* What was given out stays given out.
LEMMA GivenOutStays ==
  ASSUME TypeOK, LogsGrow, NEW s \in Sites, NEW v, GivenOut(s, v)
  PROVE  GivenOut(s, v)'
<1>1. CASE \E k \in 0..MaxId : \E n \in DOMAIN issued[s][k] : issued[s][k][n] = v
  <2>1. PICK k \in 0..MaxId : \E n \in DOMAIN issued[s][k] : issued[s][k][n] = v
    BY <1>1
  <2>2. PICK n \in DOMAIN issued[s][k] : issued[s][k][n] = v
    BY <2>1
  <2>3. issued \in [Sites -> [0..MaxId -> Seq(Value)]]
    BY Types
  <2>4. issued[s][k] \in Seq(Value)
    BY <2>3
  <2>5. issued'[s][k] = issued[s][k] \/ \E w \in Value : issued'[s][k] = Append(issued[s][k], w)
    BY DEF LogsGrow
  <2>6. n \in DOMAIN issued'[s][k] /\ issued'[s][k][n] = v
    BY <2>2, <2>4, <2>5, AppendKeeps
  <2>7. QED
    BY <2>6 DEF GivenOut
<1>2. CASE \E k \in Ids : \E n \in DOMAIN redeemed[s][k] : redeemed[s][k][n] = v
  <2>1. PICK k \in Ids : \E n \in DOMAIN redeemed[s][k] : redeemed[s][k][n] = v
    BY <1>2
  <2>2. PICK n \in DOMAIN redeemed[s][k] : redeemed[s][k][n] = v
    BY <2>1
  <2>3. redeemed[s][k] \in Seq(Value)
    BY Types
  <2>4. redeemed'[s][k] = redeemed[s][k] \/ \E w \in Value : redeemed'[s][k] = Append(redeemed[s][k], w)
    BY DEF LogsGrow
  <2>5. n \in DOMAIN redeemed'[s][k] /\ redeemed'[s][k][n] = v
    BY <2>2, <2>3, <2>4, AppendKeeps
  <2>6. QED
    BY <2>5 DEF GivenOut
<1>3. QED
  BY <1>1, <1>2 DEF GivenOut

LEMMA IssueRecords ==
  ASSUME TypeOK, NEW s \in Sites, NEW k \in 0..MaxId, NEW v \in Value,
         Issue(s, k, v), UNCHANGED redeemed
  PROVE  LogsGrow /\ GivenOut(s, v)'
<1>1. issued \in [Sites -> [0..MaxId -> Seq(Value)]]
  BY Types
<1>2. issued[s][k] \in Seq(Value) /\ issued'[s][k] = Append(issued[s][k], v)
  BY <1>1 DEF Issue
<1>3. GivenOut(s, v)'
  BY <1>2, LastOfAppend DEF GivenOut
<1>4. \A x \in Sites, i \in 0..MaxId :
        issued'[x][i] = issued[x][i] \/ issued'[x][i] = Append(issued[x][i], v)
  BY <1>1 DEF Issue
<1>5. QED
  BY <1>3, <1>4 DEF LogsGrow

LEMMA RedeemRecords ==
  ASSUME TypeOK, NEW s \in Sites, NEW k \in Ids, NEW v \in Value,
         Redeem(s, k, v), UNCHANGED issued
  PROVE  LogsGrow /\ GivenOut(s, v)'
<1>1. redeemed \in [Sites -> [Ids -> Seq(Value)]]
  BY Types
<1>2. redeemed[s][k] \in Seq(Value) /\ redeemed'[s][k] = Append(redeemed[s][k], v)
  BY <1>1 DEF Redeem
<1>3. GivenOut(s, v)'
  BY <1>2, LastOfAppend DEF GivenOut
<1>4. \A x \in Sites, i \in Ids :
        redeemed'[x][i] = redeemed[x][i] \/ redeemed'[x][i] = Append(redeemed[x][i], v)
  BY <1>1 DEF Redeem
<1>5. QED
  BY <1>3, <1>4 DEF LogsGrow

\* A step which keeps, or gives out, every key that was in a map.
LEMMA KeepingEnough ==
  ASSUME TypeOK, LogsGrow,
         \A x \in Sites, v \in PSK : Kept(x, v) => Accounted(x, v)'
  PROVE  NothingVanishes
  BY GivenOutStays DEF NothingVanishes, Accounted

\* Moving a key to the reserved keys overwrites no other.
LEMMA UnusedStaysKept ==
  ASSUME IInv, NEW s \in Sites, NEW k \in Ids, unusedKeys[s][k] # NoEntry,
         reservedKeys' = [reservedKeys EXCEPT ![s][k] = unusedKeys[s][k]],
         unusedKeys' = [unusedKeys EXCEPT ![s][k] = NoEntry],
         UNCHANGED <<archive, storing>>, NEW x \in Sites, NEW v \in PSK, Kept(x, v)
  PROVE  Kept(x, v)'
<1>1. reservedKeys[s][k] = NoEntry /\ v # NoEntry
  BY KeyAssumption DEF IInv, OneHome
<1>2. QED
  BY <1>1, Types DEF IInv, Kept

LEMMA ArchivedStaysKept ==
  ASSUME IInv, NEW s \in Sites, NEW k \in Ids, archive[s][k] # NoEntry,
         reservedKeys' = [reservedKeys EXCEPT ![s][k] = archive[s][k]],
         archive' = [archive EXCEPT ![s][k] = NoEntry],
         UNCHANGED <<unusedKeys, storing>>, NEW x \in Sites, NEW v \in PSK, Kept(x, v)
  PROVE  Kept(x, v)'
<1>1. reservedKeys[s][k] \notin PSK /\ v # NoEntry
  BY KeyAssumption DEF IInv, OneHome
<1>2. QED
  BY <1>1, Types DEF IInv, Kept

LEMMA ReserveStaysKept ==
  ASSUME IInv, NEW s \in Sites, NEW k \in Ids, ReserveNewKey(s, k), UNCHANGED storing,
         NEW x \in Sites, NEW v \in PSK, Kept(x, v)
  PROVE  Kept(x, v)'
  BY UnusedStaysKept, ArchivedStaysKept DEF ReserveNewKey, Lowest, Present

\* A key which leaves its map for an application is the one the log records.
LEMMA UnusedAccounted ==
  ASSUME TypeOK, NEW s \in Sites, NEW k \in Ids, NEW u, u = unusedKeys[s][k],
         GivenOut(s, u)', UNCHANGED <<reservedKeys, archive, storing>>,
         unusedKeys' = [unusedKeys EXCEPT ![s][k] = NoEntry],
         NEW x \in Sites, NEW v \in PSK, Kept(x, v)
  PROVE  Accounted(x, v)'
<1>1. CASE x = s /\ v = u
  BY <1>1 DEF Accounted
<1>2. CASE ~(x = s /\ v = u)
  BY <1>2, Types DEF Kept, Accounted
<1>3. QED
  BY <1>1, <1>2

LEMMA ReservedAccounted ==
  ASSUME TypeOK, NEW s \in Sites, NEW k \in Ids, NEW u, u = reservedKeys[s][k],
         u \in PSK => GivenOut(s, u)', UNCHANGED <<unusedKeys, archive, storing>>,
         reservedKeys' = [reservedKeys EXCEPT ![s][k] = NoEntry],
         NEW x \in Sites, NEW v \in PSK, Kept(x, v)
  PROVE  Accounted(x, v)'
<1>1. CASE x = s /\ v = u
  BY <1>1 DEF Accounted
<1>2. CASE ~(x = s /\ v = u)
  BY <1>2, Types DEF Kept, Accounted
<1>3. QED
  BY <1>1, <1>2

LEMMA ArchivedAccounted ==
  ASSUME TypeOK, NEW s \in Sites, NEW k \in Ids, NEW u, u = archive[s][k],
         GivenOut(s, u)', UNCHANGED <<unusedKeys, reservedKeys, storing>>,
         archive' = [archive EXCEPT ![s][k] = NoEntry],
         NEW x \in Sites, NEW v \in PSK, Kept(x, v)
  PROVE  Accounted(x, v)'
<1>1. CASE x = s /\ v = u
  BY <1>1 DEF Accounted
<1>2. CASE ~(x = s /\ v = u)
  BY <1>2, Types DEF Kept, Accounted
<1>3. QED
  BY <1>1, <1>2

\* The key filed meets a placeholder at most, and is kept from then on.
LEMMA FilingKeeps ==
  ASSUME IInv, NEW s \in Sites, NEW key \in PSK, nextKeyId[s] \in Ids,
         FileKey(s, nextKeyId[s], key), UNCHANGED archive
  PROVE  /\ Kept(s, key)'
         /\ \A x \in Sites, v \in PSK : Kept(x, v) => Kept(x, v)'
<1> DEFINE n == nextKeyId[s]
<1>1. /\ unusedKeys[s][n] = NoEntry /\ storing[s][n] = NoEntry
      /\ reservedKeys[s][n] \notin PSK
      /\ NoEntry \notin PSK
  BY KeyAssumption DEF IInv, FreshIds, TypeOK, Ids
<1>0. n \in Ids /\ TypeOK
  BY DEF IInv
<1> HIDE DEF n
<1>2. CASE reservedKeys' = [reservedKeys EXCEPT ![s][n] = key] /\ UNCHANGED <<unusedKeys, storing>>
  BY <1>0, <1>1, <1>2, Types DEF Kept
<1>3. CASE storing' = [storing EXCEPT ![s][n] = key] /\ UNCHANGED <<unusedKeys, reservedKeys>>
  BY <1>0, <1>1, <1>3, Types DEF Kept
<1>4. CASE unusedKeys' = [unusedKeys EXCEPT ![s][n] = key] /\ UNCHANGED <<reservedKeys, storing>>
  BY <1>0, <1>1, <1>4, Types DEF Kept
<1>5. QED
  BY <1>1, <1>2, <1>3, <1>4 DEF FileKey, n

\* No row stands in the way of a key on its way to the backing store.
LEMMA StoringKeeps ==
  ASSUME IInv, NEW s \in Sites, StoreKeys(s), NEW x \in Sites, NEW v \in PSK, Kept(x, v)
  PROVE  Kept(x, v)'
<1>1. \A y \in Sites, i \in Ids :
        /\ storing'[y][i] = IF y = s THEN NoEntry ELSE storing[y][i]
        /\ archive'[y][i] = IF y = s /\ archive[y][i] = NoEntry
                            THEN storing[y][i] ELSE archive[y][i]
  BY Types DEF IInv, StoreKeys, NoKeys
<1>2. \A y \in Sites, i \in Ids : archive[y][i] # NoEntry => storing[y][i] = NoEntry
  BY DEF IInv, OneHome
<1>3. NoEntry \notin PSK
  BY KeyAssumption
<1>4. PICK k \in Ids : v \in {unusedKeys[x][k], reservedKeys[x][k], archive[x][k], storing[x][k]}
  BY DEF Kept
<1>5. v \in {unusedKeys'[x][k], reservedKeys'[x][k], archive'[x][k], storing'[x][k]}
  BY <1>1, <1>2, <1>3, <1>4 DEF StoreKeys
<1>6. QED
  BY <1>5 DEF Kept

LEMMA StepLosesNothing ==
  ASSUME IInv, Next, UNCHANGED restarts
  PROVE  NothingVanishes
<1>0. /\ TypeOK /\ \A s \in Sites : Peer[s] \in Sites
      /\ NoEntry \notin PSK
      /\ \A k \in Ids : k \in 0..MaxId
  BY PeerIsSite, KeyAssumption DEF IInv, Ids
<1>l. ASSUME UNCHANGED history PROVE LogsGrow
  BY <1>l DEF history, LogsGrow
<1>k. ASSUME UNCHANGED history, \A x \in Sites, v \in PSK : Kept(x, v) => Kept(x, v)'
      PROVE  NothingVanishes
  BY <1>0, <1>k, <1>l, KeepingEnough DEF Accounted
<1>s. ASSUME UNCHANGED stores
      PROVE  \A x \in Sites, v \in PSK : Kept(x, v) => Kept(x, v)'
  BY <1>s DEF stores, Kept
<1>1. ASSUME NEW s \in Sites, NEW c \in Clients, StartGetNewKey(s, c) PROVE NothingVanishes
  BY <1>1, <1>k, ReserveStaysKept DEF StartGetNewKey
<1>2. ASSUME NEW s \in Sites, NEW c \in Clients, MarkReserved(s, c) PROVE NothingVanishes
  BY <1>0, <1>2, <1>k, <1>s, ReserveStaysKept DEF MarkReserved, history
<1>3. ASSUME NEW s \in Sites, NEW c \in Clients, MarkUnused(s, c) PROVE NothingVanishes
  <2>1. call[s][c].id \in Ids
    BY <1>0, <1>3, CallFacts DEF MarkUnused
  <2>2. \A x \in Sites, v \in PSK : Kept(x, v) => Kept(x, v)'
    BY <1>0, <1>3, <2>1, UnusedStaysKept DEF MarkUnused
  <2>3. QED
    BY <1>3, <1>k, <2>2 DEF MarkUnused, history
<1>4. ASSUME NEW s \in Sites, NEW c \in Clients, MarkArchived(s, c) PROVE NothingVanishes
  <2>1. call[s][c].id \in Ids
    BY <1>0, <1>4, CallFacts DEF MarkArchived
  <2>2. \A x \in Sites, v \in PSK : Kept(x, v) => Kept(x, v)'
    BY <1>0, <1>4, <2>1, ArchivedStaysKept DEF MarkArchived
  <2>3. QED
    BY <1>4, <1>k, <2>2 DEF MarkArchived, history
<1>5. ASSUME NEW s \in Sites, NEW c \in Clients, MarkUnknown(s, c) PROVE NothingVanishes
  <2>1. call[s][c].id \in Ids
    BY <1>0, <1>5, CallFacts DEF MarkUnknown
  <2>2. \A x \in Sites, v \in PSK : Kept(x, v) => Kept(x, v)'
    BY <1>0, <1>5, <2>1, Types DEF MarkUnknown, Kept
  <2>3. QED
    BY <1>5, <1>k, <2>2 DEF MarkUnknown, history
<1>6. ASSUME NEW s \in Sites, NEW c \in Clients, SupplyAlternative(s, c) PROVE NothingVanishes
  BY <1>0, <1>6, <1>k, ReserveStaysKept DEF SupplyAlternative
<1>7. ASSUME NEW s \in Sites, NEW c \in Clients, AlternativeTimeout(s, c) \/ MarkFails(s, c)
      PROVE  NothingVanishes
  BY <1>7, <1>k, <1>s DEF AlternativeTimeout, MarkFails
<1>8. ASSUME NEW s \in Sites, NEW c \in Clients, TakeOriginal(s, c) PROVE NothingVanishes
  <2> DEFINE k == call[s][c].id
  <2>1. k \in Ids /\ reservedKeys[s][k] \in Slot
    BY <1>0, <1>8, CallFacts, Types DEF TakeOriginal
  <2>2. PICK u : u = reservedKeys[s][k]
    OBVIOUS
  <2>3. ReadOf(u) \in Value /\ (u \in PSK => ReadOf(u) = u)
    BY <1>0, <2>1, <2>2 DEF ReadOf, Slot, Value
  <2>4. /\ Issue(s, k, ReadOf(u))
        /\ reservedKeys' = [reservedKeys EXCEPT ![s][k] = NoEntry]
        /\ UNCHANGED <<unusedKeys, archive, storing, redeemed>>
    BY <1>8, <2>2 DEF TakeOriginal
  <2>5. LogsGrow /\ GivenOut(s, ReadOf(u))'
    BY <1>0, <2>1, <2>3, <2>4, IssueRecords
  <2>6. u \in PSK => GivenOut(s, u)'
    BY <2>3, <2>5
  <2> HIDE DEF k
  <2>7. \A x \in Sites, v \in PSK : Kept(x, v) => Accounted(x, v)'
    BY <1>0, <2>1, <2>2, <2>4, <2>6, ReservedAccounted
  <2>8. QED
    BY <1>0, <2>5, <2>7, KeepingEnough
<1>9. ASSUME NEW s \in Sites, NEW c \in Clients, TakeAlternative(s, c) PROVE NothingVanishes
  <2> DEFINE j == call[s][c].alt
  <2>1. j \in Ids /\ AlternativeId(s, c) = j /\ 0 \in 0..MaxId
    BY <1>0, <1>9, CallFacts, BoundAssumption DEF TakeAlternative, AlternativeId
  <2>2. UNCHANGED <<redeemed, storing>>
    BY <1>9 DEF TakeAlternative
  <2> HIDE DEF j
  <2>3. CASE /\ unusedKeys[s][j] # NoEntry
             /\ Issue(s, j, unusedKeys[s][j])
             /\ unusedKeys' = [unusedKeys EXCEPT ![s][j] = NoEntry]
             /\ UNCHANGED <<reservedKeys, archive>>
    <3>1. PICK u : u = unusedKeys[s][j] /\ u \in Value
      BY <1>0, <2>1, <2>3, Types DEF Slot
    <3>2. LogsGrow /\ GivenOut(s, u)'
      BY <1>0, <2>1, <2>2, <2>3, <3>1, IssueRecords
    <3>3. \A x \in Sites, v \in PSK : Kept(x, v) => Accounted(x, v)'
      BY <1>0, <2>1, <2>2, <2>3, <3>1, <3>2, UnusedAccounted
    <3>4. QED
      BY <1>0, <3>2, <3>3, KeepingEnough
  <2>4. CASE /\ reservedKeys[s][j] # NoEntry
             /\ Issue(s, j, reservedKeys[s][j])
             /\ reservedKeys' = [reservedKeys EXCEPT ![s][j] = NoEntry]
             /\ UNCHANGED <<unusedKeys, archive>>
    <3>1. PICK u : u = reservedKeys[s][j] /\ u \in Value
      BY <1>0, <2>1, <2>4, Types DEF Slot
    <3>2. LogsGrow /\ GivenOut(s, u)'
      BY <1>0, <2>1, <2>2, <2>4, <3>1, IssueRecords
    <3>3. \A x \in Sites, v \in PSK : Kept(x, v) => Accounted(x, v)'
      BY <1>0, <2>1, <2>2, <2>4, <3>1, <3>2, ReservedAccounted
    <3>4. QED
      BY <1>0, <3>2, <3>3, KeepingEnough
  <2>5. CASE /\ archive[s][j] # NoEntry
             /\ Issue(s, 0, archive[s][j])
             /\ archive' = [archive EXCEPT ![s][j] = NoEntry]
             /\ UNCHANGED <<unusedKeys, reservedKeys>>
    <3>1. PICK u : u = archive[s][j] /\ u \in Value
      BY <1>0, <2>1, <2>5, Types DEF Slot
    <3>2. LogsGrow /\ GivenOut(s, u)'
      BY <1>0, <2>1, <2>2, <2>5, <3>1, IssueRecords
    <3>3. \A x \in Sites, v \in PSK : Kept(x, v) => Accounted(x, v)'
      BY <1>0, <2>1, <2>2, <2>5, <3>1, <3>2, ArchivedAccounted
    <3>4. QED
      BY <1>0, <3>2, <3>3, KeepingEnough
  <2>6. QED
    BY <1>9, <2>1, <2>3, <2>4, <2>5 DEF TakeAlternative, j
<1>10. ASSUME NEW s \in Sites, NEW c \in Clients, MissAlternative(s, c) PROVE NothingVanishes
  <2>1. EmptyPSK \in Value /\ 0 \in 0..MaxId
    BY BoundAssumption DEF Value
  <2>2. LogsGrow
    BY <1>0, <1>10, <2>1, IssueRecords DEF MissAlternative
  <2>3. \A x \in Sites, v \in PSK : Kept(x, v) => Kept(x, v)'
    BY <1>10, <1>s DEF MissAlternative
  <2>4. QED
    BY <1>0, <2>2, <2>3, KeepingEnough DEF Accounted
<1>11. ASSUME NEW s \in Sites, OrphanReserves(s) PROVE NothingVanishes
  BY <1>11, <1>k, <1>s, ReserveStaysKept DEF OrphanReserves
<1>12. ASSUME NEW s \in Sites, StoreKeys(s) PROVE NothingVanishes
  BY <1>12, <1>k, StoringKeeps DEF StoreKeys
<1>13. ASSUME NEW s \in Sites, Restart(s) PROVE FALSE
  BY <1>0, <1>13 DEF Restart, TypeOK
<1>14. ASSUME NEW s \in Sites, NEW d \in Devices, OnKeyGeneration(s, d) PROVE NothingVanishes
  <2>1. Stream[d][delivered[s][d] + 1] \in PSK
    BY <1>0, <1>14, KeyAssumption DEF OnKeyGeneration, TypeOK
  <2>2. nextKeyId[s] \in Ids
    BY <1>0, <1>14 DEF OnKeyGeneration, TypeOK, Ids
  <2>3. \A x \in Sites, v \in PSK : Kept(x, v) => Kept(x, v)'
    BY <1>14, <2>1, <2>2, FilingKeeps DEF OnKeyGeneration
  <2>4. QED
    BY <1>14, <1>k, <2>3 DEF OnKeyGeneration
<1>15. ASSUME NEW s \in Sites, NEW k \in Ids, GetExistingKey(s, k) PROVE NothingVanishes
  <2>1. UNCHANGED <<issued, unusedKeys, storing>>
    BY <1>15 DEF GetExistingKey
  <2>2. CASE /\ reservedKeys[s][k] # NoEntry
             /\ Redeem(s, k, reservedKeys[s][k])
             /\ reservedKeys' = [reservedKeys EXCEPT ![s][k] = NoEntry]
             /\ UNCHANGED archive
    <3>1. PICK u : u = reservedKeys[s][k] /\ u \in Value
      BY <1>0, <2>2, Types DEF Slot
    <3>2. LogsGrow /\ GivenOut(s, u)'
      BY <1>0, <2>1, <2>2, <3>1, RedeemRecords
    <3>3. \A x \in Sites, v \in PSK : Kept(x, v) => Accounted(x, v)'
      BY <1>0, <2>1, <2>2, <3>1, <3>2, ReservedAccounted
    <3>4. QED
      BY <1>0, <3>2, <3>3, KeepingEnough
  <2>3. CASE /\ archive[s][k] # NoEntry
             /\ Redeem(s, k, archive[s][k])
             /\ archive' = [archive EXCEPT ![s][k] = NoEntry]
             /\ UNCHANGED reservedKeys
    <3>1. PICK u : u = archive[s][k] /\ u \in Value
      BY <1>0, <2>3, Types DEF Slot
    <3>2. LogsGrow /\ GivenOut(s, u)'
      BY <1>0, <2>1, <2>3, <3>1, RedeemRecords
    <3>3. \A x \in Sites, v \in PSK : Kept(x, v) => Accounted(x, v)'
      BY <1>0, <2>1, <2>3, <3>1, <3>2, ArchivedAccounted
    <3>4. QED
      BY <1>0, <3>2, <3>3, KeepingEnough
  <2>4. QED
    BY <1>15, <2>2, <2>3 DEF GetExistingKey
<1>16. QED
  BY <1>1, <1>2, <1>3, <1>4, <1>5, <1>6, <1>7, <1>8, <1>9, <1>10, <1>11, <1>12,
     <1>13, <1>14, <1>15, Actions

\* The inductive form of NoKeyLost.
ArrivedKeysAccounted ==
  restarts = 0 =>
    \A s \in Sites, d \in Devices : \A n \in 1..delivered[s][d] : Accounted(s, Stream[d][n])

\* Only Restart counts a restart, and only a delivery moves a stream on.
LEMMA RestartsGrow ==
  ASSUME IInv, Next
  PROVE  restarts' = restarts \/ restarts' = restarts + 1
<1>1. ASSUME NEW s \in Sites, NEW c \in Clients,
             StartGetNewKey(s, c) \/ CallStep(s, c) \/ MarkFails(s, c)
      PROVE  UNCHANGED restarts
  <2>1. CASE MarkKeyInUse(s, c)
    BY <2>1 DEF MarkKeyInUse, MarkReserved, MarkUnused, MarkArchived, MarkUnknown, bounds
  <2>2. CASE SupplyAlternative(s, c) \/ AlternativeTimeout(s, c) \/ TakeOriginal(s, c)
    BY <2>2 DEF SupplyAlternative, AlternativeTimeout, TakeOriginal, bounds
  <2>3. CASE TakeAlternative(s, c) \/ MissAlternative(s, c)
    BY <2>3 DEF TakeAlternative, MissAlternative, bounds
  <2>4. QED
    BY <1>1, <2>1, <2>2, <2>3 DEF StartGetNewKey, CallStep, MarkFails, bounds
<1>2. QED
  BY <1>1 DEF Next, OrphanReserves, StoreKeys, Restart, OnKeyGeneration, GetExistingKey, bounds

LEMMA StreamsOnlyByDelivery ==
  ASSUME Next
  PROVE  \/ UNCHANGED delivered
         \/ \E s \in Sites, d \in Devices : OnKeyGeneration(s, d)
<1>1. ASSUME NEW s \in Sites, NEW c \in Clients,
             StartGetNewKey(s, c) \/ CallStep(s, c) \/ MarkFails(s, c)
      PROVE  UNCHANGED delivered
  <2>1. CASE MarkKeyInUse(s, c)
    BY <2>1 DEF MarkKeyInUse, MarkReserved, MarkUnused, MarkArchived, MarkUnknown, feed
  <2>2. CASE SupplyAlternative(s, c) \/ AlternativeTimeout(s, c) \/ TakeOriginal(s, c)
    BY <2>2 DEF SupplyAlternative, AlternativeTimeout, TakeOriginal, feed
  <2>3. CASE TakeAlternative(s, c) \/ MissAlternative(s, c)
    BY <2>3 DEF TakeAlternative, MissAlternative, feed
  <2>4. QED
    BY <1>1, <2>1, <2>2, <2>3 DEF StartGetNewKey, CallStep, MarkFails, feed
<1>2. QED
  BY <1>1 DEF Next, OrphanReserves, StoreKeys, Restart, GetExistingKey, feed

\* A key which arrives is kept from the step in which it does.
LEMMA StepArrived ==
  ASSUME IInv, ArrivedKeysAccounted, [Next]_vars
  PROVE  ArrivedKeysAccounted'
<1> SUFFICES ASSUME restarts' = 0,
                    NEW s \in Sites, NEW d \in Devices, NEW n \in 1..delivered'[s][d]
             PROVE  Accounted(s, Stream[d][n])'
  BY DEF ArrivedKeysAccounted
<1>0. /\ TypeOK /\ TypeOK'
      /\ delivered[s][d] \in Nat /\ delivered'[s][d] \in Nat
      /\ delivered'[s][d] <= Len(Stream[d])
      /\ Stream[d] \in Seq(PSK)
  <2>1. TypeOK /\ TypeOK'
    BY StepType DEF IInv
  <2>2. delivered \in [Sites -> [Devices -> Nat]] /\ delivered' \in [Sites -> [Devices -> Nat]]
    BY <2>1 DEF TypeOK
  <2>3. delivered'[s][d] <= Len(Stream[d])
    BY <2>1 DEF TypeOK
  <2>4. QED
    BY <2>1, <2>2, <2>3, KeyAssumption
<1>1. Stream[d][n] \in PSK
  BY <1>0
<1>2. CASE Next
  <2>1. restarts = 0 /\ UNCHANGED restarts
    BY <1>0, <1>2, RestartsGrow, BoundAssumption DEF TypeOK
  <2>2. NothingVanishes
    BY <1>2, <2>1, StepLosesNothing
  <2>3. CASE n <= delivered[s][d]
    BY <1>0, <1>1, <2>1, <2>2, <2>3 DEF ArrivedKeysAccounted, NothingVanishes
  <2>4. CASE n > delivered[s][d]
    <3>1. delivered' # delivered
      BY <1>0, <2>4
    <3>2. PICK x \in Sites, e \in Devices : OnKeyGeneration(x, e)
      BY <1>2, <2>1, <3>1, StreamsOnlyByDelivery
    <3>3. delivered' = [delivered EXCEPT ![x][e] = @ + 1]
      BY <3>2 DEF OnKeyGeneration
    <3>4. x = s /\ e = d /\ n = delivered[s][d] + 1
      <4>1. delivered \in [Sites -> [Devices -> Nat]]
        BY <1>0 DEF TypeOK
      <4>2. CASE ~(x = s /\ e = d)
        <5>1. delivered'[s][d] = delivered[s][d]
          BY <3>3, <4>1, <4>2
        <5>2. QED
          BY <1>0, <2>4, <5>1
      <4>3. CASE x = s /\ e = d
        <5>1. delivered'[s][d] = delivered[s][d] + 1
          BY <3>3, <4>1, <4>3
        <5>2. QED
          BY <1>0, <2>4, <4>3, <5>1
      <4>4. QED
        BY <4>2, <4>3
    <3>5. FileKey(s, nextKeyId[s], Stream[d][n]) /\ UNCHANGED archive
      BY <3>2, <3>4 DEF OnKeyGeneration
    <3>6. nextKeyId[s] \in Ids
      BY <1>0, <3>2, <3>4 DEF OnKeyGeneration, TypeOK, Ids
    <3>7. Kept(s, Stream[d][n])'
      BY <1>1, <3>5, <3>6, FilingKeeps
    <3>8. QED
      BY <3>7 DEF Accounted
  <2>5. QED
    BY <1>0, <2>3, <2>4
<1>3. CASE UNCHANGED vars
  <2>1. Accounted(s, Stream[d][n])
    BY <1>3 DEF ArrivedKeysAccounted, vars, feed, bounds
  <2>2. QED
    BY <1>3, <2>1 DEF Accounted, Kept, GivenOut, vars, stores, history
<1>4. QED
  BY <1>2, <1>3

\* A key which is accounted for has a place.
LEMMA AccountedPlaces ==
  ASSUME TypeOK, NEW s \in Sites, NEW v, Accounted(s, v)
  PROVE  Places(s, v) # {}
<1>1. \A map : (\E k \in Ids : map[k] = v) => \A name : InMap(name, map, v) # {}
  BY DEF InMap
<1>2. ASSUME NEW log, NEW k \in DOMAIN log, NEW n \in DOMAIN log[k], log[k][n] = v, NEW name
      PROVE  InLog(name, log, v) # {}
  <2>1. <<name, k, n>> \in {<<name, k, i>> : i \in {h \in DOMAIN log[k] : log[k][h] = v}}
    BY <1>2
  <2>2. <<name, k, n>> \in InLog(name, log, v)
    BY <2>1 DEF InLog
  <2>3. QED
    BY <2>2
<1>3. DOMAIN issued[s] = 0..MaxId /\ DOMAIN redeemed[s] = Ids
  BY Types
<1>4. CASE Kept(s, v)
  BY <1>1, <1>4 DEF Kept, Places
<1>5. CASE GivenOut(s, v)
  BY <1>2, <1>3, <1>5 DEF GivenOut, Places
<1>6. QED
  BY <1>4, <1>5 DEF Accounted

\* No key which arrived at an end vanishes before that end is restarted, for
\* any number of devices, keys, threads, clashes and lost RPCs: it is in one of
\* the maps, in the backing store, on its way there, or was given out.
THEOREM ArrivedKeysStay == Spec => []NoKeyLost
<1>1. Init => ArrivedKeysAccounted
  BY DEF Init, ArrivedKeysAccounted
<1>2. IInv /\ ArrivedKeysAccounted /\ [Next]_vars => ArrivedKeysAccounted'
  BY StepArrived
<1>3. ArrivedKeysAccounted /\ TypeOK => NoKeyLost
  BY AccountedPlaces DEF ArrivedKeysAccounted, NoKeyLost
<1>4. IInv => TypeOK
  BY DEF IInv
<1>5. QED
  BY <1>1, <1>2, <1>3, <1>4, HomesInvariant, PTL DEF Spec

-----------------------------------------------------------------------------
(***************************************************************************)
(* One caller.  While only end x calls GetNewKey and nothing has restarted,  *)
(* an id which x may still reserve is untouched at the partner, so the       *)
(* partner never finds it reserved already and no alternative is ever asked  *)
(* for.  One call at a time holds an id, and holds its key.                  *)
(***************************************************************************)
Free(s, k) ==
  \/ unusedKeys[s][k] # NoEntry
  \/ archive[s][k] # NoEntry
  \/ storing[s][k] # NoEntry
  \/ k >= nextKeyId[s]

OthersIdle(x) ==
  /\ \A s \in Sites : orphans[s] = 0
  /\ \A s \in Sites \ {x} : \A c \in Clients : call[s][c].pc = "idle"
  /\ \A s \in Sites \ {x}, k \in Ids : issued[s][k] = <<>>

HeldKeysReal(x) ==
  \A k \in Ids :
    {unusedKeys[x][k], archive[x][k], storing[x][k]} \subseteq PSK \union {NoEntry}

\* What a call has, at its own end and at the partner.
CallHolds(x, c) ==
  LET k == call[x][c].id
      p == Peer[x]
  IN  /\ call[x][c].pc # "waiting"
      /\ call[x][c].pc # "idle" => reservedKeys[x][k] \in PSK /\ issued[x][k] = <<>>
      /\ call[x][c].pc = "marking" => reservedKeys[p][k] = NoEntry /\ redeemed[p][k] = <<>>
      /\ call[x][c].pc = "answered" => call[x][c].alt = k /\ reservedKeys[p][k] # NoEntry

CallsApart(x) ==
  \A c, e \in Clients :
    (call[x][c].pc # "idle" /\ call[x][e].pc # "idle" /\ call[x][c].id = call[x][e].id) => c = e

FreeUntouched(x) ==
  \A k \in Ids : Free(x, k) =>
    issued[x][k] = <<>> /\ reservedKeys[Peer[x]][k] = NoEntry /\ redeemed[Peer[x]][k] = <<>>

GivenOnce(x) ==
  \A k \in Ids :
    \/ issued[x][k] = <<>>
    \/ /\ \E v \in PSK : issued[x][k] = <<v>>
       /\ redeemed[Peer[x]][k] = <<>> => reservedKeys[Peer[x]][k] # NoEntry

OneWay(x) ==
  /\ OthersIdle(x)
  /\ HeldKeysReal(x)
  /\ \A c \in Clients : CallHolds(x, c)
  /\ CallsApart(x)
  /\ FreeUntouched(x)
  /\ GivenOnce(x)

LEMMA InitOneWay == \A x \in Sites : Init => OneWay(x)
<1> SUFFICES ASSUME NEW x \in Sites, Init PROVE OneWay(x)
  OBVIOUS
<1>1. /\ \A s \in Sites, k \in Ids :
           /\ unusedKeys[s][k] = NoEntry /\ archive[s][k] = NoEntry
           /\ storing[s][k] = NoEntry /\ reservedKeys[s][k] = NoEntry
           /\ issued[s][k] = <<>> /\ redeemed[s][k] = <<>>
      /\ \A s \in Sites, c \in Clients : call[s][c].pc = "idle"
      /\ \A s \in Sites : orphans[s] = 0
  BY BoundAssumption DEF Init, NoKeys, Idle, Ids
<1>2. QED
  BY <1>1, PeerIsSite DEF OneWay, OthersIdle, HeldKeysReal, CallHolds, CallsApart,
     FreeUntouched, GivenOnce

\* The partner's confirmation changes the one call and nothing else of it.
LEMMA ConfirmEffect ==
  ASSUME TypeOK, NEW s \in Sites, NEW c \in Clients, call[s][c].pc = "marking", Confirm(s, c)
  PROVE  /\ call'[s][c].pc = "answered"
         /\ call'[s][c].id = call[s][c].id /\ call'[s][c].alt = call[s][c].id
         /\ \A y \in Sites, e \in Clients : (y # s \/ e # c) => call'[y][e] = call[y][e]
<1>1. call[s][c] \in Call /\ call \in [Sites -> [Clients -> Call]]
  BY CallFacts, Types
<1>2. call' = [call EXCEPT ![s][c] = [call[s][c] EXCEPT !.pc = "answered", !.alt = call[s][c].id]]
  BY <1>1 DEF Confirm, Answer
<1>3. call'[s][c] = [call[s][c] EXCEPT !.pc = "answered", !.alt = call[s][c].id]
  BY <1>1, <1>2
<1>4. QED
  BY <1>1, <1>2, <1>3 DEF Call

\* A call which ends, and every other step of the partner's side.
LEMMA EndEffect ==
  ASSUME TypeOK, NEW s \in Sites, NEW c \in Clients, call' = [call EXCEPT ![s][c] = Idle]
  PROVE  /\ call'[s][c].pc = "idle"
         /\ \A y \in Sites, e \in Clients : (y # s \/ e # c) => call'[y][e] = call[y][e]
  BY Types DEF Idle

\* A step which leaves the calls and the logs alone, and of the maps changes
\* nothing which an id's owner relies on.
LEMMA StoresOneWay ==
  ASSUME IInv, NEW x \in Sites, OneWay(x), UNCHANGED <<calls, history>>,
         \A k \in Ids : Free(x, k)' => Free(x, k),
         HeldKeysReal(x)',
         \A k \in Ids : reservedKeys[x][k] \in PSK => reservedKeys'[x][k] = reservedKeys[x][k],
         \A k \in Ids : /\ reservedKeys[Peer[x]][k] # NoEntry => reservedKeys'[Peer[x]][k] # NoEntry
                        /\ reservedKeys[Peer[x]][k] = NoEntry => reservedKeys'[Peer[x]][k] = NoEntry
  PROVE  OneWay(x)'
<1>0. \A c \in Clients : call[x][c].pc # "idle" => call[x][c].id \in Ids
  BY CallFacts DEF IInv
<1>1. OthersIdle(x)' /\ CallsApart(x)'
  BY DEF OneWay, OthersIdle, CallsApart, calls, history
<1>2. \A c \in Clients : CallHolds(x, c)'
  BY <1>0 DEF OneWay, CallHolds, calls, history
<1>3. FreeUntouched(x)'
  BY DEF OneWay, FreeUntouched, history
<1>4. GivenOnce(x)'
  BY DEF OneWay, GivenOnce, history
<1>5. QED
  BY <1>1, <1>2, <1>3, <1>4 DEF OneWay

\* What x reserves was free, so no call holds it.
LEMMA StartOneWay ==
  ASSUME IInv, NEW x \in Sites, OneWay(x), NEW c \in Clients, StartGetNewKey(x, c)
  PROVE  OneWay(x)'
<1> DEFINE p == Peer[x]
<1>0. /\ TypeOK /\ p \in Sites /\ p # x
      /\ \A e \in Clients : call[x][e].pc # "idle" => call[x][e].id \in Ids
      /\ NoEntry \notin PSK
  BY PeerIsSite, CallFacts, KeyAssumption DEF IInv
<1>1. PICK k \in Ids : /\ ReserveNewKey(x, k)
                       /\ call' = [call EXCEPT ![x][c] = [pc |-> "marking", id |-> k, alt |-> 0]]
  BY DEF StartGetNewKey
<1>2. UNCHANGED <<storing, nextKeyId, orphans, issued, redeemed>> /\ call[x][c].pc = "idle"
  BY DEF StartGetNewKey, feed, history
<1>3. /\ Free(x, k)
      /\ reservedKeys[x][k] \notin PSK
      /\ reservedKeys'[x][k] \in PSK
      /\ \A i \in Ids : Free(x, i)' => Free(x, i)
      /\ HeldKeysReal(x)'
      /\ \A y \in Sites, i \in Ids : (y # x \/ i # k) => reservedKeys'[y][i] = reservedKeys[y][i]
  <2>1. CASE /\ unusedKeys[x][k] # NoEntry
             /\ reservedKeys' = [reservedKeys EXCEPT ![x][k] = unusedKeys[x][k]]
             /\ unusedKeys'   = [unusedKeys EXCEPT ![x][k] = NoEntry]
             /\ UNCHANGED archive
    BY <1>0, <1>2, <2>1, Types DEF IInv, OneHome, Free, OneWay, HeldKeysReal
  <2>2. CASE /\ archive[x][k] # NoEntry
             /\ reservedKeys' = [reservedKeys EXCEPT ![x][k] = archive[x][k]]
             /\ archive'      = [archive EXCEPT ![x][k] = NoEntry]
             /\ UNCHANGED unusedKeys
    BY <1>0, <1>2, <2>2, Types DEF IInv, OneHome, Free, OneWay, HeldKeysReal
  <2>3. QED
    BY <1>1, <2>1, <2>2 DEF ReserveNewKey, Lowest, Present
<1>4. /\ call'[x][c] = [pc |-> "marking", id |-> k, alt |-> 0]
      /\ \A y \in Sites, e \in Clients : (y # x \/ e # c) => call'[y][e] = call[y][e]
  BY <1>0, <1>1, Types
<1>5. \A e \in Clients : call[x][e].pc # "idle" => call[x][e].id # k
  BY <1>3 DEF OneWay, CallHolds
<1>6. OthersIdle(x)'
  BY <1>2, <1>4 DEF OneWay, OthersIdle
<1>7. CallsApart(x)'
  BY <1>2, <1>4, <1>5 DEF OneWay, CallsApart
<1>8. ASSUME NEW e \in Clients PROVE CallHolds(x, e)'
  <2>1. CASE e = c
    BY <1>0, <1>2, <1>3, <1>4, <2>1 DEF OneWay, CallHolds, FreeUntouched
  <2>2. CASE e # c
    BY <1>0, <1>2, <1>3, <1>4, <1>5, <2>2 DEF OneWay, CallHolds
  <2>3. QED
    BY <2>1, <2>2
<1>9. FreeUntouched(x)' /\ GivenOnce(x)'
  BY <1>0, <1>2, <1>3 DEF OneWay, FreeUntouched, GivenOnce
<1>10. QED
  BY <1>3, <1>6, <1>7, <1>8, <1>9 DEF OneWay

\* The partner has not seen the id and confirms it, whatever it has for it.
LEMMA MarkOneWay ==
  ASSUME IInv, NEW x \in Sites, OneWay(x), NEW c \in Clients, call[x][c].pc = "marking",
         Confirm(x, c), UNCHANGED <<storing, feed, orphans, issued, redeemed>>,
         NEW v \in Value, reservedKeys' = [reservedKeys EXCEPT ![Peer[x]][call[x][c].id] = v],
         \A k \in Ids : unusedKeys'[x][k] = unusedKeys[x][k] /\ archive'[x][k] = archive[x][k]
  PROVE  OneWay(x)'
<1> DEFINE p == Peer[x]
           k == call[x][c].id
<1>0. /\ TypeOK /\ p \in Sites /\ p # x /\ k \in Ids /\ v # NoEntry
      /\ \A e \in Clients : call[x][e].pc # "idle" => call[x][e].id \in Ids
  BY PeerIsSite, CallFacts, KeyAssumption DEF IInv, Value
<1>1. /\ call'[x][c].pc = "answered" /\ call'[x][c].id = k /\ call'[x][c].alt = k
      /\ \A y \in Sites, e \in Clients : (y # x \/ e # c) => call'[y][e] = call[y][e]
  BY <1>0, ConfirmEffect
<1>2. /\ reservedKeys'[p][k] # NoEntry
      /\ \A y \in Sites, i \in Ids : (y # p \/ i # k) => reservedKeys'[y][i] = reservedKeys[y][i]
  BY <1>0, Types
<1>3. \A i \in Ids : Free(x, i)' => Free(x, i) /\ i # k
  <2>1. reservedKeys[x][k] \in PSK
    BY DEF OneWay, CallHolds
  <2>2. ~Free(x, k)
    BY <1>0, <2>1, KeyAssumption DEF IInv, OneHome, FreshIds, Free
  <2>3. QED
    BY <2>2 DEF Free, feed
<1>4. \A e \in Clients : (call[x][e].pc # "idle" /\ e # c) => call[x][e].id # k
  BY DEF OneWay, CallsApart
<1>5. OthersIdle(x)' /\ CallsApart(x)' /\ HeldKeysReal(x)'
  BY <1>1 DEF OneWay, OthersIdle, CallsApart, HeldKeysReal
<1>6. ASSUME NEW e \in Clients PROVE CallHolds(x, e)'
  <2>1. CASE e = c
    BY <1>0, <1>1, <1>2, <2>1 DEF OneWay, CallHolds
  <2>2. CASE e # c
    BY <1>0, <1>1, <1>2, <1>4, <2>2 DEF OneWay, CallHolds
  <2>3. QED
    BY <2>1, <2>2
<1>7. FreeUntouched(x)' /\ GivenOnce(x)'
  BY <1>0, <1>2, <1>3 DEF OneWay, FreeUntouched, GivenOnce
<1>8. QED
  BY <1>5, <1>6, <1>7 DEF OneWay

\* The caller takes the key its call held.
LEMMA TakeOneWay ==
  ASSUME IInv, NEW x \in Sites, OneWay(x), NEW c \in Clients, TakeOriginal(x, c)
  PROVE  OneWay(x)'
<1> DEFINE p == Peer[x]
           k == call[x][c].id
<1>0. /\ TypeOK /\ p \in Sites /\ p # x /\ k \in Ids /\ k \in 0..MaxId
      /\ \A e \in Clients : call[x][e].pc # "idle" => call[x][e].id \in Ids
  BY PeerIsSite, CallFacts DEF IInv, TakeOriginal, Ids
<1>1. PICK v : v = reservedKeys[x][k] /\ v \in PSK
  BY DEF OneWay, CallHolds, TakeOriginal
<1>2. /\ call[x][c].pc = "answered"
      /\ Issue(x, k, v)
      /\ reservedKeys' = [reservedKeys EXCEPT ![x][k] = NoEntry]
      /\ call' = [call EXCEPT ![x][c] = Idle]
      /\ UNCHANGED <<unusedKeys, archive, storing, nextKeyId, orphans, redeemed>>
  BY <1>1, KeyAssumption DEF TakeOriginal, ReadOf, feed
<1>3. /\ issued[x][k] = <<>>
      /\ reservedKeys[p][k] # NoEntry
      /\ \A e \in Clients : (call[x][e].pc # "idle" /\ e # c) => call[x][e].id # k
  BY <1>2 DEF OneWay, CallHolds, CallsApart
<1> HIDE DEF k, p
<1>4. /\ issued'[x][k] = <<v>>
      /\ \A y \in Sites, i \in Ids : (y # x \/ i # k) => issued'[y][i] = issued[y][i]
  <2>1. issued \in [Sites -> [0..MaxId -> Seq(Value)]] /\ \A i \in Ids : i \in 0..MaxId
    BY <1>0, Types DEF Ids
  <2>2. issued'[x][k] = Append(<<>>, v)
    BY <1>0, <1>2, <1>3, <2>1 DEF Issue
  <2>3. QED
    BY <1>0, <1>2, <2>1, <2>2 DEF Issue
<1>5. \A y \in Sites, i \in Ids : (y # x \/ i # k) => reservedKeys'[y][i] = reservedKeys[y][i]
  BY <1>0, <1>2, Types
<1>6. /\ call'[x][c].pc = "idle"
      /\ \A y \in Sites, e \in Clients : (y # x \/ e # c) => call'[y][e] = call[y][e]
  BY <1>0, <1>2, EndEffect
<1>7. \A i \in Ids : Free(x, i)' => Free(x, i) /\ i # k
  <2>1. ~Free(x, k)
    BY <1>0, <1>1, KeyAssumption DEF IInv, OneHome, FreshIds, Free
  <2>2. QED
    BY <1>2, <2>1 DEF Free
<1>8. OthersIdle(x)' /\ CallsApart(x)' /\ HeldKeysReal(x)'
  BY <1>0, <1>2, <1>4, <1>6 DEF OneWay, OthersIdle, CallsApart, HeldKeysReal
<1>9. ASSUME NEW e \in Clients PROVE CallHolds(x, e)'
  <2>1. CASE e = c
    BY <1>6, <2>1 DEF CallHolds
  <2>2. CASE e # c
    BY <1>0, <1>2, <1>3, <1>4, <1>5, <1>6, <2>2 DEF OneWay, CallHolds, p
  <2>3. QED
    BY <2>1, <2>2
<1>10. FreeUntouched(x)'
  BY <1>0, <1>2, <1>4, <1>5, <1>7 DEF OneWay, FreeUntouched, p
<1>11. GivenOnce(x)'
  BY <1>0, <1>1, <1>2, <1>3, <1>4, <1>5 DEF OneWay, GivenOnce, p
<1>12. QED
  BY <1>8, <1>9, <1>10, <1>11 DEF OneWay

\* A lost RPC ends the call; its id stays reserved, and free to nobody.
LEMMA FailOneWay ==
  ASSUME IInv, NEW x \in Sites, OneWay(x), NEW c \in Clients, MarkFails(x, c)
  PROVE  OneWay(x)'
<1>1. /\ call'[x][c].pc = "idle"
      /\ \A y \in Sites, e \in Clients : (y # x \/ e # c) => call'[y][e] = call[y][e]
  BY EndEffect DEF IInv, MarkFails
<1>2. UNCHANGED <<stores, feed, history, orphans>>
  BY DEF MarkFails, OneWay, CallHolds
<1>3. OthersIdle(x)' /\ CallsApart(x)' /\ HeldKeysReal(x)'
  BY <1>1, <1>2 DEF OneWay, OthersIdle, CallsApart, HeldKeysReal, stores, history
<1>4. ASSUME NEW e \in Clients PROVE CallHolds(x, e)'
  <2>1. CASE e = c
    BY <1>1, <2>1 DEF CallHolds
  <2>2. CASE e # c
    BY <1>1, <1>2, <2>2 DEF OneWay, CallHolds, stores, history
  <2>3. QED
    BY <2>1, <2>2
<1>5. FreeUntouched(x)' /\ GivenOnce(x)'
  BY <1>2 DEF OneWay, FreeUntouched, GivenOnce, Free, stores, feed, history
<1>6. QED
  BY <1>3, <1>4, <1>5 DEF OneWay

\* The application at the partner collects a key, which is marked there.
LEMMA CollectOneWay ==
  ASSUME IInv, NEW x \in Sites, OneWay(x), NEW s \in Sites, NEW k \in Ids,
         GetExistingKey(s, k)
  PROVE  OneWay(x)'
<1> DEFINE p == Peer[x]
<1>0. /\ TypeOK /\ p \in Sites /\ p # x /\ Peer[s] \in Sites /\ k \in 0..MaxId
      /\ \A e \in Clients : call[x][e].pc # "idle" => call[x][e].id \in Ids
  BY PeerIsSite, CallFacts DEF IInv, Ids
<1>1. /\ issued[Peer[s]][k] \in Seq(Value) /\ redeemed[s][k] \in Seq(Value)
      /\ Len(redeemed[s][k]) \in Nat
  <2>1. /\ issued \in [Sites -> [0..MaxId -> Seq(Value)]]
        /\ redeemed \in [Sites -> [Ids -> Seq(Value)]]
    BY <1>0, Types
  <2>2. issued[Peer[s]] \in [0..MaxId -> Seq(Value)] /\ redeemed[s] \in [Ids -> Seq(Value)]
    BY <1>0, <2>1
  <2>3. issued[Peer[s]][k] \in Seq(Value) /\ redeemed[s][k] \in Seq(Value)
    BY <1>0, <2>2
  <2>4. QED
    BY <2>3
<1>2. issued[Peer[s]][k] # <<>>
  BY <1>1 DEF GetExistingKey, Redeemable
<1>3. s = p /\ Peer[s] = x
  BY <1>0, <1>2, LinkAssumption DEF OneWay, OthersIdle
<1>4. redeemed[p][k] = <<>> /\ reservedKeys[p][k] # NoEntry
  <2>1. PICK v \in PSK : issued[x][k] = <<v>>
    BY <1>2, <1>3 DEF OneWay, GivenOnce
  <2>2. Len(redeemed[p][k]) = 0
    BY <1>1, <1>3, <2>1 DEF GetExistingKey, Redeemable
  <2>3. redeemed[p][k] = <<>>
    BY <1>1, <1>3, <2>2
  <2>4. QED
    BY <1>2, <1>3, <2>3 DEF OneWay, GivenOnce
<1>5. /\ Redeem(p, k, reservedKeys[p][k])
      /\ reservedKeys' = [reservedKeys EXCEPT ![p][k] = NoEntry]
      /\ UNCHANGED <<archive, unusedKeys, storing, nextKeyId, call, orphans, issued>>
  BY <1>3, <1>4 DEF GetExistingKey, feed, calls
<1> HIDE DEF p
<1>6. /\ redeemed'[p][k] # <<>>
      /\ \A i \in Ids : i # k => redeemed'[p][i] = redeemed[p][i]
  <2>1. redeemed \in [Sites -> [Ids -> Seq(Value)]]
    BY <1>0, Types
  <2>2. redeemed'[p][k] = Append(<<>>, reservedKeys[p][k])
    BY <1>0, <1>4, <1>5, <2>1 DEF Redeem
  <2>3. redeemed'[p][k] # <<>>
    BY <2>2
  <2>4. \A i \in Ids : i # k => redeemed'[p][i] = redeemed[p][i]
    BY <1>0, <1>5, <2>1 DEF Redeem
  <2>5. QED
    BY <2>3, <2>4
<1>7. \A y \in Sites, i \in Ids : (y # p \/ i # k) => reservedKeys'[y][i] = reservedKeys[y][i]
  BY <1>0, <1>5, Types
<1>8. ~Free(x, k) /\ \A i \in Ids : Free(x, i)' => Free(x, i)
  BY <1>2, <1>3, <1>5 DEF OneWay, FreeUntouched, Free
<1>9. \A e \in Clients : call[x][e].pc # "idle" => call[x][e].id # k
  BY <1>2, <1>3 DEF OneWay, CallHolds
<1>10. OthersIdle(x)' /\ CallsApart(x)' /\ HeldKeysReal(x)'
  BY <1>5 DEF OneWay, OthersIdle, CallsApart, HeldKeysReal
<1>11. \A e \in Clients : CallHolds(x, e)'
  BY <1>0, <1>5, <1>6, <1>7, <1>9 DEF OneWay, CallHolds, p
<1>12. FreeUntouched(x)'
  BY <1>0, <1>5, <1>6, <1>7, <1>8 DEF OneWay, FreeUntouched, p
<1>13. GivenOnce(x)'
  BY <1>0, <1>5, <1>6, <1>7 DEF OneWay, GivenOnce, p
<1>14. QED
  BY <1>10, <1>11, <1>12, <1>13 DEF OneWay

\* A key is filed at either end, under an id no call holds.
LEMMA FileOneWay ==
  ASSUME IInv, NEW x \in Sites, OneWay(x), NEW s \in Sites, NEW d \in Devices,
         OnKeyGeneration(s, d)
  PROVE  OneWay(x)'
<1> DEFINE n == nextKeyId[s]
<1>0. /\ TypeOK /\ Peer[x] \in Sites /\ Peer[x] # x
      /\ NoEntry \notin PSK /\ nextKeyId \in [Sites -> Nat]
  BY PeerIsSite, KeyAssumption DEF IInv, TypeOK
<1>1. PICK key \in PSK : FileKey(s, n, key)
  BY <1>0, KeyAssumption DEF OnKeyGeneration, TypeOK
<1>2. n \in Ids
  BY <1>0 DEF OnKeyGeneration, TypeOK, Ids
<1>3. /\ nextKeyId' = [nextKeyId EXCEPT ![s] = n + 1]
      /\ UNCHANGED <<archive, calls, history>>
  BY DEF OnKeyGeneration
<1>4. /\ unusedKeys[s][n] = NoEntry /\ storing[s][n] = NoEntry
      /\ reservedKeys[s][n] \notin PSK
  BY <1>0, <1>2 DEF IInv, FreshIds
<1> HIDE DEF n
<1>5. \A i \in Ids : i >= nextKeyId'[x] => i >= nextKeyId[x]
  <2>1. nextKeyId'[x] >= nextKeyId[x]
    BY <1>0, <1>3 DEF n
  <2>2. nextKeyId'[x] \in Nat /\ nextKeyId[x] \in Nat
    BY <1>0, <1>3 DEF n
  <2>3. QED
    BY <2>1, <2>2 DEF Ids
<1>6. n >= nextKeyId[s]
  BY <1>0 DEF n
<1>7. /\ \A y \in Sites, i \in Ids : reservedKeys[y][i] # NoEntry => reservedKeys'[y][i] # NoEntry
      /\ \A y \in Sites, i \in Ids : reservedKeys[y][i] = NoEntry => reservedKeys'[y][i] = NoEntry
      /\ \A y \in Sites, i \in Ids : reservedKeys[y][i] \in PSK => reservedKeys'[y][i] = reservedKeys[y][i]
      /\ \A i \in Ids : (x # s \/ i # n) => /\ unusedKeys'[x][i] = unusedKeys[x][i]
                                            /\ storing'[x][i] = storing[x][i]
      /\ unusedKeys'[s][n] \in {NoEntry, key} /\ storing'[s][n] \in {NoEntry, key}
  <2>1. CASE reservedKeys' = [reservedKeys EXCEPT ![s][n] = key] /\ UNCHANGED <<unusedKeys, storing>>
             /\ reservedKeys[s][n] # NoEntry
    BY <1>0, <1>2, <1>4, <2>1, Types
  <2>2. CASE storing' = [storing EXCEPT ![s][n] = key] /\ UNCHANGED <<unusedKeys, reservedKeys>>
    BY <1>0, <1>2, <1>4, <2>2, Types
  <2>3. CASE unusedKeys' = [unusedKeys EXCEPT ![s][n] = key] /\ UNCHANGED <<reservedKeys, storing>>
    BY <1>0, <1>2, <1>4, <2>3, Types
  <2>4. QED
    BY <1>1, <1>4, <2>1, <2>2, <2>3 DEF FileKey
<1>8. \A i \in Ids : Free(x, i)' => Free(x, i)
  BY <1>3, <1>5, <1>6, <1>7 DEF Free
<1>9. HeldKeysReal(x)'
  BY <1>3, <1>7 DEF OneWay, HeldKeysReal
<1>10. QED
  BY <1>0, <1>3, <1>7, <1>8, <1>9, StoresOneWay

LEMMA ToArchiveOneWay ==
  ASSUME IInv, NEW x \in Sites, OneWay(x), NEW s \in Sites, StoreKeys(s)
  PROVE  OneWay(x)'
<1>1. \A y \in Sites, i \in Ids :
        /\ storing'[y][i] = IF y = s THEN NoEntry ELSE storing[y][i]
        /\ archive'[y][i] = IF y = s /\ archive[y][i] = NoEntry
                            THEN storing[y][i] ELSE archive[y][i]
  BY Types DEF IInv, StoreKeys, NoKeys
<1>2. UNCHANGED <<unusedKeys, reservedKeys, nextKeyId, calls, history>>
  BY DEF StoreKeys, feed
<1>3. (\A i \in Ids : Free(x, i)' => Free(x, i)) /\ HeldKeysReal(x)'
  BY <1>1, <1>2 DEF Free, OneWay, HeldKeysReal
<1>4. QED
  BY <1>2, <1>3, StoresOneWay

LEMMA StepOneWay ==
  ASSUME IInv, NEW x \in Sites, Initiators \subseteq {x}, OneWay(x), Next, UNCHANGED restarts
  PROVE  OneWay(x)'
<1>0. /\ TypeOK /\ Peer[x] \in Sites /\ Peer[x] # x
      /\ EmptyPSK \in Value
  BY PeerIsSite DEF IInv, Value
<1>x. \A s \in Sites, c \in Clients : call[s][c].pc # "idle" => s = x
  BY DEF OneWay, OthersIdle
<1>w. \A c \in Clients : call[x][c].pc # "waiting"
  BY DEF OneWay, CallHolds
<1>1. ASSUME NEW s \in Sites, NEW c \in Clients, StartGetNewKey(s, c) PROVE OneWay(x)'
  BY <1>1, StartOneWay DEF StartGetNewKey
<1>2. ASSUME NEW s \in Sites, NEW c \in Clients, MarkReserved(s, c) PROVE FALSE
  BY <1>2, <1>x DEF MarkReserved, OneWay, CallHolds
<1>3. ASSUME NEW s \in Sites, NEW c \in Clients, MarkUnused(s, c) PROVE OneWay(x)'
  <2>1. s = x /\ call[x][c].id \in Ids
    BY <1>0, <1>3, <1>x, CallFacts DEF MarkUnused
  <2>2. PICK v \in Value : v = unusedKeys[Peer[x]][call[x][c].id]
    BY <1>0, <1>3, <2>1, Types DEF MarkUnused, Slot
  <2>3. \A k \in Ids : unusedKeys'[x][k] = unusedKeys[x][k] /\ archive'[x][k] = archive[x][k]
    BY <1>0, <1>3, <2>1, Types DEF MarkUnused
  <2>4. QED
    BY <1>3, <2>1, <2>2, <2>3, MarkOneWay DEF MarkUnused
<1>4. ASSUME NEW s \in Sites, NEW c \in Clients, MarkArchived(s, c) PROVE OneWay(x)'
  <2>1. s = x /\ call[x][c].id \in Ids
    BY <1>0, <1>4, <1>x, CallFacts DEF MarkArchived
  <2>2. PICK v \in Value : v = archive[Peer[x]][call[x][c].id]
    BY <1>0, <1>4, <2>1, Types DEF MarkArchived, Slot
  <2>3. \A k \in Ids : unusedKeys'[x][k] = unusedKeys[x][k] /\ archive'[x][k] = archive[x][k]
    BY <1>0, <1>4, <2>1, Types DEF MarkArchived
  <2>4. QED
    BY <1>4, <2>1, <2>2, <2>3, MarkOneWay DEF MarkArchived
<1>5. ASSUME NEW s \in Sites, NEW c \in Clients, MarkUnknown(s, c) PROVE OneWay(x)'
  <2>1. s = x
    BY <1>5, <1>x DEF MarkUnknown
  <2>2. QED
    BY <1>0, <1>5, <2>1, MarkOneWay DEF MarkUnknown
<1>6. ASSUME NEW s \in Sites, NEW c \in Clients,
             SupplyAlternative(s, c) \/ AlternativeTimeout(s, c)
      PROVE  FALSE
  BY <1>6, <1>x, <1>w DEF SupplyAlternative, AlternativeTimeout
<1>7. ASSUME NEW s \in Sites, NEW c \in Clients, TakeOriginal(s, c) PROVE OneWay(x)'
  <2>1. s = x
    BY <1>7, <1>x DEF TakeOriginal
  <2>2. QED
    BY <1>7, <2>1, TakeOneWay
<1>8. ASSUME NEW s \in Sites, NEW c \in Clients, TakeAlternative(s, c) \/ MissAlternative(s, c)
      PROVE  FALSE
  BY <1>8, <1>x DEF TakeAlternative, MissAlternative, OneWay, CallHolds
<1>9. ASSUME NEW s \in Sites, NEW c \in Clients, MarkFails(s, c) PROVE OneWay(x)'
  <2>1. s = x
    BY <1>9, <1>x DEF MarkFails
  <2>2. QED
    BY <1>9, <2>1, FailOneWay
<1>10. ASSUME NEW s \in Sites, OrphanReserves(s) PROVE FALSE
  BY <1>10 DEF OrphanReserves, OneWay, OthersIdle
<1>11. ASSUME NEW s \in Sites, Restart(s) PROVE FALSE
  BY <1>0, <1>11 DEF Restart, TypeOK
<1>12. QED
  BY <1>1, <1>2, <1>3, <1>4, <1>5, <1>6, <1>7, <1>8, <1>9, <1>10, <1>11,
     ToArchiveOneWay, FileOneWay, CollectOneWay, Actions

\* While only one end calls GetNewKey, and until a restart, an id is given out
\* once, with a key of the link, and is kept at the other end until it is
\* collected there: for any number of threads, keys, devices and lost RPCs.
THEOREM OneCallerAllocates ==
  ASSUME NEW x \in Sites, Initiators \subseteq {x}
  PROVE  Spec => []OneWayAllocation
<1> DEFINE Inv == restarts = 0 => OneWay(x)
<1>1. Init => Inv
  BY InitOneWay
<1>2. IInv /\ Inv /\ [Next]_vars => Inv'
  <2> SUFFICES ASSUME IInv, Inv, [Next]_vars, restarts' = 0 PROVE OneWay(x)'
    OBVIOUS
  <2>1. CASE Next
    <3>1. restarts = 0 /\ UNCHANGED restarts
      BY <2>1, RestartsGrow, BoundAssumption DEF IInv, TypeOK
    <3>2. QED
      BY <2>1, <3>1, StepOneWay
  <2>2. CASE UNCHANGED vars
    <3>1. OneWay(x) /\ UNCHANGED <<stores, feed, calls, history>>
      BY <2>2 DEF vars, bounds
    <3>2. (\A i \in Ids : Free(x, i)' => Free(x, i)) /\ HeldKeysReal(x)'
      BY <3>1 DEF Free, OneWay, HeldKeysReal, stores, feed
    <3>3. QED
      BY <3>1, <3>2, StoresOneWay DEF stores
  <2>3. QED
    BY <2>1, <2>2
<1>3. IInv /\ Inv => OneWayAllocation
  <2> SUFFICES ASSUME IInv, OneWay(x), NEW s \in Sites, NEW k \in Ids
               PROVE  /\ Len(issued[s][k]) <= 1
                      /\ \A n \in DOMAIN issued[s][k] : issued[s][k][n] \in PSK
                      /\ Redeemable(s, k) => reservedKeys[s][k] # NoEntry
    BY DEF OneWayAllocation
  <2>1. \A y \in Sites : issued[y][k] = <<>> \/ (y = x /\ \E v \in PSK : issued[y][k] = <<v>>)
    BY DEF OneWay, OthersIdle, GivenOnce
  <2>2. Len(redeemed[s][k]) \in Nat /\ (Len(redeemed[s][k]) = 0 => redeemed[s][k] = <<>>)
    <3>1. redeemed[s][k] \in Seq(Value)
      BY Types DEF IInv
    <3>2. QED
      BY <3>1
  <2>3. Len(issued[s][k]) <= 1 /\ \A n \in DOMAIN issued[s][k] : issued[s][k][n] \in PSK
    <3>1. CASE issued[s][k] = <<>>
      BY <3>1
    <3>2. ASSUME NEW v \in PSK, issued[s][k] = <<v>>
          PROVE  Len(issued[s][k]) <= 1 /\ \A n \in DOMAIN issued[s][k] : issued[s][k][n] \in PSK
      <4>1. Len(<<v>>) = 1 /\ DOMAIN <<v>> = {1} /\ <<v>>[1] = v
        OBVIOUS
      <4>2. QED
        BY <3>2, <4>1
    <3>3. QED
      BY <2>1, <3>1, <3>2
  <2>4. ASSUME Redeemable(s, k) PROVE reservedKeys[s][k] # NoEntry
    <3>1. Peer[s] \in Sites
      BY PeerIsSite
    <3>2. issued[Peer[s]][k] # <<>>
      BY <2>2, <2>4 DEF Redeemable
    <3>3. Peer[s] = x /\ \E v \in PSK : issued[x][k] = <<v>>
      BY <2>1, <3>1, <3>2
    <3>4. s = Peer[x]
      BY <3>3, LinkAssumption
    <3>5. redeemed[s][k] = <<>>
      <4>1. Len(issued[x][k]) = 1
        BY <3>3
      <4>2. Len(issued[Peer[s]][k]) > Len(redeemed[s][k])
        BY <2>4 DEF Redeemable
      <4>3. 1 > Len(redeemed[s][k])
        BY <3>3, <4>1, <4>2
      <4>4. QED
        BY <2>2, <4>3
    <3>6. QED
      BY <3>3, <3>4, <3>5 DEF OneWay, GivenOnce
  <2>5. QED
    BY <2>3, <2>4
<1>4. QED
  BY <1>1, <1>2, <1>3, HomesInvariant, PTL DEF Spec

-----------------------------------------------------------------------------
(***************************************************************************)
(* One place per key.  Every step moves a key from one place to another,     *)
(* drops places, or files a key which had none; the key keeps its one place  *)
(* or loses it, whatever else moves.  The streams must not repeat a key.     *)
(***************************************************************************)
StreamsDistinct ==
  \A d, e \in Devices : \A m \in 1..Len(Stream[d]), n \in 1..Len(Stream[e]) :
    Stream[d][m] = Stream[e][n] => d = e /\ m = n

One(S) == \A p, q \in S : p = q

\* The places of v by kind.
Un(s, v) == InMap("unused", unusedKeys[s], v)
Re(s, v) == InMap("reserved", reservedKeys[s], v)
Ar(s, v) == InMap("archive", archive[s], v)
St(s, v) == InMap("storing", storing[s], v)
Is(s, v) == InLog("issued", issued[s], v)
Rd(s, v) == InLog("redeemed", redeemed[s], v)

LEMMA ByKind ==
  ASSUME NEW s, NEW v
  PROVE  /\ Places(s, v) = Un(s, v) \union Re(s, v) \union Ar(s, v) \union St(s, v)
                           \union Is(s, v) \union Rd(s, v)
         /\ Places(s, v)' = Un(s, v)' \union Re(s, v)' \union Ar(s, v)' \union St(s, v)'
                            \union Is(s, v)' \union Rd(s, v)'
  BY DEF Places, Un, Re, Ar, St, Is, Rd

LEMMA MapName == \A name, map, v : \A p \in InMap(name, map, v) : p[1] = name
  BY DEF InMap

LEMMA LogName == \A name, log, v : \A p \in InLog(name, log, v) : p[1] = name
<1> SUFFICES ASSUME NEW name, NEW log, NEW v, NEW p \in InLog(name, log, v) PROVE p[1] = name
  OBVIOUS
<1>1. PICK k \in DOMAIN log : p \in {<<name, k, n>> : n \in {i \in DOMAIN log[k] : log[k][i] = v}}
  BY DEF InLog
<1>2. QED
  BY <1>1

\* The kinds have no place in common.
LEMMA Kinds ==
  ASSUME NEW s, NEW v
  PROVE  /\ \A p \in Un(s, v) : p[1] = "unused"
         /\ \A p \in Re(s, v) : p[1] = "reserved"
         /\ \A p \in Ar(s, v) : p[1] = "archive"
         /\ \A p \in St(s, v) : p[1] = "storing"
         /\ \A p \in Is(s, v) : p[1] = "issued"
         /\ \A p \in Rd(s, v) : p[1] = "redeemed"
  BY MapName, LogName DEF Un, Re, Ar, St, Is, Rd

LEMMA InMapIff ==
  ASSUME NEW name, NEW map, NEW v, NEW k
  PROVE  <<name, k>> \in InMap(name, map, v) <=> k \in Ids /\ map[k] = v
  BY DEF InMap

LEMMA InMapIsPair ==
  ASSUME NEW name, NEW map, NEW v, NEW p \in InMap(name, map, v)
  PROVE  \E k \in Ids : p = <<name, k>> /\ map[k] = v
  BY DEF InMap

LEMMA InLogIff ==
  ASSUME NEW name, NEW log, NEW v, NEW p
  PROVE  p \in InLog(name, log, v) <=>
           \E k \in DOMAIN log : \E n \in DOMAIN log[k] : p = <<name, k, n>> /\ log[k][n] = v
<1>1. ASSUME p \in InLog(name, log, v)
      PROVE  \E k \in DOMAIN log : \E n \in DOMAIN log[k] : p = <<name, k, n>> /\ log[k][n] = v
  <2>1. PICK k \in DOMAIN log : p \in {<<name, k, n>> : n \in {i \in DOMAIN log[k] : log[k][i] = v}}
    BY <1>1 DEF InLog
  <2>2. QED
    BY <2>1
<1>2. ASSUME NEW k \in DOMAIN log, NEW n \in DOMAIN log[k], p = <<name, k, n>>, log[k][n] = v
      PROVE  p \in InLog(name, log, v)
  <2>1. p \in {<<name, k, i>> : i \in {h \in DOMAIN log[k] : log[k][h] = v}}
    BY <1>2
  <2>2. QED
    BY <2>1 DEF InLog
<1>3. QED
  BY <1>1, <1>2

\* Log g is log f with w added under k.
Adds(f, g, k, w) == g = [f EXCEPT ![k] = Append(f[k], w)]

LEMMA LogIn ==
  ASSUME NEW name, NEW D, NEW f \in [D -> Seq(Value)], NEW k \in D, NEW w \in Value,
         NEW g, Adds(f, g, k, w), NEW v
  PROVE  /\ InLog(name, g, v) \subseteq InLog(name, f, v) \union {<<name, k, Len(f[k]) + 1>>}
         /\ v # w => InLog(name, g, v) \subseteq InLog(name, f, v)
<1>1. /\ DOMAIN g = D /\ DOMAIN f = D /\ f[k] \in Seq(Value)
      /\ \A i \in D : i # k => g[i] = f[i]
      /\ g[k] = Append(f[k], w)
  BY DEF Adds
<1>2. \A n \in DOMAIN Append(f[k], w) :
        \/ n \in DOMAIN f[k] /\ Append(f[k], w)[n] = f[k][n]
        \/ n = Len(f[k]) + 1 /\ Append(f[k], w)[n] = w
  <2>1. /\ Len(f[k]) \in Nat /\ DOMAIN f[k] = 1..Len(f[k])
        /\ DOMAIN Append(f[k], w) = 1..(Len(f[k]) + 1)
    BY <1>1, AppendProperties
  <2>2. \A n \in 1..Len(f[k]) : Append(f[k], w)[n] = f[k][n]
    BY <1>1, AppendProperties
  <2>3. Append(f[k], w)[Len(f[k]) + 1] = w
    BY <1>1, AppendProperties
  <2>4. QED
    BY <2>1, <2>2, <2>3
<1>3. ASSUME NEW p \in InLog(name, g, v)
      PROVE  p \in InLog(name, f, v) \/ (p = <<name, k, Len(f[k]) + 1>> /\ v = w)
  <2>1. p \in InLog(name, g, v)
    BY <1>3
  <2>0. \A log : p \in InLog(name, log, v) =>
          \E i \in DOMAIN log : \E n \in DOMAIN log[i] : p = <<name, i, n>> /\ log[i][n] = v
    BY InLogIff
  <2>2. PICK i \in DOMAIN g : \E n \in DOMAIN g[i] : p = <<name, i, n>> /\ g[i][n] = v
    BY <2>0, <2>1
  <2>3. PICK n \in DOMAIN g[i] : p = <<name, i, n>> /\ g[i][n] = v
    BY <2>2
  <2>4. CASE i # k
    <3>1. i \in DOMAIN f /\ n \in DOMAIN f[i] /\ f[i][n] = v
      BY <1>1, <2>3, <2>4
    <3>2. QED
      BY <2>3, <3>1, InLogIff
  <2>5. CASE i = k /\ n \in DOMAIN f[k] /\ f[k][n] = v
    <3>1. k \in DOMAIN f
      BY <1>1
    <3>2. QED
      BY <2>3, <2>5, <3>1, InLogIff
  <2>6. CASE i = k /\ n = Len(f[k]) + 1 /\ w = v
    BY <2>3, <2>6
  <2>7. QED
    BY <1>1, <1>2, <2>3, <2>4, <2>5, <2>6
<1>4. QED
  BY <1>3

\* What a step does to a key: it keeps one place if it had one, and gets none
\* if it had none.
OneAfter(x, v) ==
  /\ One(Places(x, v)) => One(Places(x, v))'
  /\ Places(x, v) = {} => Places(x, v)' = {}

LEMMA FewerPlaces ==
  ASSUME NEW x, NEW v,
         Un(x, v)' \subseteq Un(x, v), Re(x, v)' \subseteq Re(x, v),
         Ar(x, v)' \subseteq Ar(x, v), St(x, v)' \subseteq St(x, v),
         Is(x, v)' \subseteq Is(x, v), Rd(x, v)' \subseteq Rd(x, v)
  PROVE  OneAfter(x, v)
<1>1. Places(x, v)' \subseteq Places(x, v)
  BY ByKind
<1>2. QED
  BY <1>1 DEF OneAfter, One

\* Place p is left for place q.
LEMMA PlaceMoves ==
  ASSUME NEW x, NEW v, NEW p \in Places(x, v), NEW q,
         Places(x, v)' \subseteq (Places(x, v) \ {p}) \union {q}
  PROVE  OneAfter(x, v)
  BY DEF OneAfter, One

LEMMA MovesFromUnused ==
  ASSUME NEW x, NEW v, NEW p \in Un(x, v), NEW q,
         Un(x, v)' \subseteq Un(x, v) \ {p}, Re(x, v)' \subseteq Re(x, v) \union {q},
         Ar(x, v)' \subseteq Ar(x, v), St(x, v)' \subseteq St(x, v),
         Is(x, v)' \subseteq Is(x, v) \union {q}, Rd(x, v)' \subseteq Rd(x, v) \union {q}
  PROVE  OneAfter(x, v)
<1>1. p[1] = "unused"
  BY Kinds
<1>2. p \notin Re(x, v) \union Ar(x, v) \union St(x, v) \union Is(x, v) \union Rd(x, v)
  BY <1>1, Kinds
<1>3. p \in Places(x, v) /\ Places(x, v)' \subseteq (Places(x, v) \ {p}) \union {q}
  BY <1>2, ByKind
<1>4. QED
  BY <1>3, PlaceMoves

LEMMA MovesFromReserved ==
  ASSUME NEW x, NEW v, NEW p \in Re(x, v), NEW q,
         Un(x, v)' \subseteq Un(x, v), Re(x, v)' \subseteq Re(x, v) \ {p},
         Ar(x, v)' \subseteq Ar(x, v), St(x, v)' \subseteq St(x, v),
         Is(x, v)' \subseteq Is(x, v) \union {q}, Rd(x, v)' \subseteq Rd(x, v) \union {q}
  PROVE  OneAfter(x, v)
<1>1. p[1] = "reserved"
  BY Kinds
<1>2. p \notin Un(x, v) \union Ar(x, v) \union St(x, v) \union Is(x, v) \union Rd(x, v)
  BY <1>1, Kinds
<1>3. p \in Places(x, v) /\ Places(x, v)' \subseteq (Places(x, v) \ {p}) \union {q}
  BY <1>2, ByKind
<1>4. QED
  BY <1>3, PlaceMoves

LEMMA MovesFromArchive ==
  ASSUME NEW x, NEW v, NEW p \in Ar(x, v), NEW q,
         Un(x, v)' \subseteq Un(x, v), Re(x, v)' \subseteq Re(x, v) \union {q},
         Ar(x, v)' \subseteq Ar(x, v) \ {p}, St(x, v)' \subseteq St(x, v),
         Is(x, v)' \subseteq Is(x, v) \union {q}, Rd(x, v)' \subseteq Rd(x, v) \union {q}
  PROVE  OneAfter(x, v)
<1>1. p[1] = "archive"
  BY Kinds
<1>2. p \notin Un(x, v) \union Re(x, v) \union St(x, v) \union Is(x, v) \union Rd(x, v)
  BY <1>1, Kinds
<1>3. p \in Places(x, v) /\ Places(x, v)' \subseteq (Places(x, v) \ {p}) \union {q}
  BY <1>2, ByKind
<1>4. QED
  BY <1>3, PlaceMoves

\* What becomes of the places of one kind when a map or a log is unchanged.
LEMMA SamePlaces ==
  ASSUME NEW x, NEW v
  PROVE  /\ UNCHANGED unusedKeys   => Un(x, v)' = Un(x, v)
         /\ UNCHANGED reservedKeys => Re(x, v)' = Re(x, v)
         /\ UNCHANGED archive      => Ar(x, v)' = Ar(x, v)
         /\ UNCHANGED storing      => St(x, v)' = St(x, v)
         /\ UNCHANGED issued       => Is(x, v)' = Is(x, v)
         /\ UNCHANGED redeemed     => Rd(x, v)' = Rd(x, v)
  BY DEF Un, Re, Ar, St, Is, Rd

LEMMA LeavesUnused ==
  ASSUME TypeOK, NEW s \in Sites, NEW k \in Ids,
         unusedKeys' = [unusedKeys EXCEPT ![s][k] = NoEntry], NEW x \in Sites, NEW v \in PSK
  PROVE  /\ Un(x, v)' \subseteq Un(x, v)
         /\ (x = s /\ v = unusedKeys[s][k]) => /\ <<"unused", k>> \in Un(x, v)
                                               /\ <<"unused", k>> \notin Un(x, v)'
<1>1. v # NoEntry /\ unusedKeys \in [Sites -> [Ids -> Slot]]
  BY Types, KeyAssumption
<1>2. /\ \A i \in Ids : unusedKeys'[x][i] = v => unusedKeys[x][i] = v
      /\ x = s => unusedKeys'[x][k] # v
  BY <1>1
<1>3. QED
  BY <1>2 DEF Un, InMap

LEMMA LeavesReserved ==
  ASSUME TypeOK, NEW s \in Sites, NEW k \in Ids,
         reservedKeys' = [reservedKeys EXCEPT ![s][k] = NoEntry], NEW x \in Sites, NEW v \in PSK
  PROVE  /\ Re(x, v)' \subseteq Re(x, v)
         /\ (x = s /\ v = reservedKeys[s][k]) => /\ <<"reserved", k>> \in Re(x, v)
                                                 /\ <<"reserved", k>> \notin Re(x, v)'
<1>1. v # NoEntry /\ reservedKeys \in [Sites -> [Ids -> Slot]]
  BY Types, KeyAssumption
<1>2. /\ \A i \in Ids : reservedKeys'[x][i] = v => reservedKeys[x][i] = v
      /\ x = s => reservedKeys'[x][k] # v
  BY <1>1
<1>3. QED
  BY <1>2 DEF Re, InMap

LEMMA LeavesArchive ==
  ASSUME TypeOK, NEW s \in Sites, NEW k \in Ids,
         archive' = [archive EXCEPT ![s][k] = NoEntry], NEW x \in Sites, NEW v \in PSK
  PROVE  /\ Ar(x, v)' \subseteq Ar(x, v)
         /\ (x = s /\ v = archive[s][k]) => /\ <<"archive", k>> \in Ar(x, v)
                                            /\ <<"archive", k>> \notin Ar(x, v)'
<1>1. v # NoEntry /\ archive \in [Sites -> [Ids -> Slot]]
  BY Types, KeyAssumption
<1>2. /\ \A i \in Ids : archive'[x][i] = v => archive[x][i] = v
      /\ x = s => archive'[x][k] # v
  BY <1>1
<1>3. QED
  BY <1>2 DEF Ar, InMap

LEMMA EntersReserved ==
  ASSUME TypeOK, NEW s \in Sites, NEW k \in Ids, NEW w,
         reservedKeys' = [reservedKeys EXCEPT ![s][k] = w], NEW x \in Sites, NEW v
  PROVE  /\ Re(x, v)' \subseteq Re(x, v) \union {<<"reserved", k>>}
         /\ (x # s \/ v # w) => Re(x, v)' \subseteq Re(x, v)
<1>1. reservedKeys \in [Sites -> [Ids -> Slot]]
  BY Types
<1>2. \A i \in Ids : reservedKeys'[x][i] = v =>
        reservedKeys[x][i] = v \/ (i = k /\ x = s /\ v = w)
  BY <1>1
<1>3. QED
  BY <1>2 DEF Re, InMap

LEMMA EntersIssued ==
  ASSUME LogTypes, NEW s \in Sites, NEW k \in 0..MaxId, NEW w \in Value, Issue(s, k, w),
         NEW x \in Sites, NEW v
  PROVE  /\ \E q : Is(x, v)' \subseteq Is(x, v) \union {q}
         /\ (x # s \/ v # w) => Is(x, v)' \subseteq Is(x, v)
<1>1. issued \in [Sites -> [0..MaxId -> Seq(Value)]]
  BY DEF LogTypes
<1>2. CASE x = s
  <2>0. PICK D : D = 0..MaxId
    OBVIOUS
  <2>1. PICK f \in [D -> Seq(Value)] : f = issued[s]
    BY <1>1, <2>0
  <2>2. PICK g : g = issued'[s]
    OBVIOUS
  <2>3. Adds(f, g, k, w)
    BY <1>1, <2>0, <2>1, <2>2 DEF Issue, Adds
  <2>4. \A name :
          /\ InLog(name, g, v) \subseteq InLog(name, f, v) \union {<<name, k, Len(f[k]) + 1>>}
          /\ v # w => InLog(name, g, v) \subseteq InLog(name, f, v)
    BY <2>0, <2>3, LogIn
  <2>5. QED
    BY <1>2, <2>1, <2>2, <2>4 DEF Is
<1>3. CASE x # s
  <2>1. issued'[x] = issued[x]
    BY <1>1, <1>3 DEF Issue
  <2>2. QED
    BY <2>1 DEF Is
<1>4. QED
  BY <1>2, <1>3

LEMMA EntersRedeemed ==
  ASSUME LogTypes, NEW s \in Sites, NEW k \in Ids, NEW w \in Value, Redeem(s, k, w),
         NEW x \in Sites, NEW v
  PROVE  /\ \E q : Rd(x, v)' \subseteq Rd(x, v) \union {q}
         /\ (x # s \/ v # w) => Rd(x, v)' \subseteq Rd(x, v)
<1>1. redeemed \in [Sites -> [Ids -> Seq(Value)]]
  BY DEF LogTypes
<1>2. CASE x = s
  <2>0. PICK D : D = Ids
    OBVIOUS
  <2>1. PICK f \in [D -> Seq(Value)] : f = redeemed[s]
    BY <1>1, <2>0
  <2>2. PICK g : g = redeemed'[s]
    OBVIOUS
  <2>3. Adds(f, g, k, w)
    BY <1>1, <2>0, <2>1, <2>2 DEF Redeem, Adds
  <2>4. \A name :
          /\ InLog(name, g, v) \subseteq InLog(name, f, v) \union {<<name, k, Len(f[k]) + 1>>}
          /\ v # w => InLog(name, g, v) \subseteq InLog(name, f, v)
    BY <2>0, <2>3, LogIn
  <2>5. QED
    BY <1>2, <2>1, <2>2, <2>4 DEF Rd
<1>3. CASE x # s
  <2>1. redeemed'[x] = redeemed[x]
    BY <1>1, <1>3 DEF Redeem
  <2>2. QED
    BY <2>1 DEF Rd
<1>4. QED
  BY <1>2, <1>3

LEMMA UnusedToReservedOne ==
  ASSUME TypeOK, NEW s \in Sites, NEW k \in Ids,
         reservedKeys' = [reservedKeys EXCEPT ![s][k] = unusedKeys[s][k]],
         unusedKeys' = [unusedKeys EXCEPT ![s][k] = NoEntry],
         UNCHANGED <<archive, storing, issued, redeemed>>, NEW x \in Sites, NEW v \in PSK
  PROVE  OneAfter(x, v)
<1> DEFINE p == <<"unused", k>>
           q == <<"reserved", k>>
<1>1. Un(x, v)' \subseteq Un(x, v) /\ Re(x, v)' \subseteq Re(x, v) \union {q}
  BY LeavesUnused, EntersReserved
<1>2. /\ Ar(x, v)' \subseteq Ar(x, v) /\ St(x, v)' \subseteq St(x, v)
      /\ Is(x, v)' \subseteq Is(x, v) /\ Rd(x, v)' \subseteq Rd(x, v)
  BY SamePlaces
<1>3. CASE x = s /\ v = unusedKeys[s][k]
  <2>1. p \in Un(x, v) /\ p \notin Un(x, v)'
    BY <1>3, LeavesUnused
  <2> HIDE DEF p, q
  <2>2. /\ Un(x, v)' \subseteq Un(x, v) \ {p}
        /\ Is(x, v)' \subseteq Is(x, v) \union {q} /\ Rd(x, v)' \subseteq Rd(x, v) \union {q}
    BY <1>1, <1>2, <2>1
  <2>3. QED
    BY <1>1, <1>2, <2>1, <2>2, MovesFromUnused
<1>4. CASE x # s \/ v # unusedKeys[s][k]
  <2>1. Re(x, v)' \subseteq Re(x, v)
    BY <1>4, EntersReserved
  <2>2. QED
    BY <1>1, <1>2, <2>1, FewerPlaces
<1>5. QED
  BY <1>3, <1>4

LEMMA ArchiveToReservedOne ==
  ASSUME TypeOK, NEW s \in Sites, NEW k \in Ids,
         reservedKeys' = [reservedKeys EXCEPT ![s][k] = archive[s][k]],
         archive' = [archive EXCEPT ![s][k] = NoEntry],
         UNCHANGED <<unusedKeys, storing, issued, redeemed>>, NEW x \in Sites, NEW v \in PSK
  PROVE  OneAfter(x, v)
<1> DEFINE p == <<"archive", k>>
           q == <<"reserved", k>>
<1>1. Ar(x, v)' \subseteq Ar(x, v) /\ Re(x, v)' \subseteq Re(x, v) \union {q}
  BY LeavesArchive, EntersReserved
<1>2. /\ Un(x, v)' \subseteq Un(x, v) /\ St(x, v)' \subseteq St(x, v)
      /\ Is(x, v)' \subseteq Is(x, v) /\ Rd(x, v)' \subseteq Rd(x, v)
  BY SamePlaces
<1>3. CASE x = s /\ v = archive[s][k]
  <2>1. p \in Ar(x, v) /\ p \notin Ar(x, v)'
    BY <1>3, LeavesArchive
  <2> HIDE DEF p, q
  <2>2. /\ Ar(x, v)' \subseteq Ar(x, v) \ {p}
        /\ Is(x, v)' \subseteq Is(x, v) \union {q} /\ Rd(x, v)' \subseteq Rd(x, v) \union {q}
    BY <1>1, <1>2, <2>1
  <2>3. QED
    BY <1>1, <1>2, <2>1, <2>2, MovesFromArchive
<1>4. CASE x # s \/ v # archive[s][k]
  <2>1. Re(x, v)' \subseteq Re(x, v)
    BY <1>4, EntersReserved
  <2>2. QED
    BY <1>1, <1>2, <2>1, FewerPlaces
<1>5. QED
  BY <1>3, <1>4

LEMMA ReserveOne ==
  ASSUME TypeOK, NEW s \in Sites, NEW k \in Ids, ReserveNewKey(s, k),
         UNCHANGED <<storing, issued, redeemed>>, NEW x \in Sites, NEW v \in PSK
  PROVE  OneAfter(x, v)
  BY UnusedToReservedOne, ArchiveToReservedOne DEF ReserveNewKey

\* A call records one value, in one log.
LEMMA LogsGainOne ==
  ASSUME LogTypes, NEW s \in Sites, NEW i \in 0..MaxId, NEW w \in Value,
         \/ Issue(s, i, w) /\ UNCHANGED redeemed
         \/ i \in Ids /\ Redeem(s, i, w) /\ UNCHANGED issued,
         NEW x \in Sites, NEW v
  PROVE  /\ \E q : Is(x, v)' \subseteq Is(x, v) \union {q} /\ Rd(x, v)' \subseteq Rd(x, v) \union {q}
         /\ (x # s \/ v # w) => Is(x, v)' \subseteq Is(x, v) /\ Rd(x, v)' \subseteq Rd(x, v)
<1>1. CASE Issue(s, i, w) /\ UNCHANGED redeemed
  <2>1. Rd(x, v)' = Rd(x, v)
    BY <1>1, SamePlaces
  <2>2. QED
    BY <1>1, <2>1, EntersIssued
<1>2. CASE i \in Ids /\ Redeem(s, i, w) /\ UNCHANGED issued
  <2>1. Is(x, v)' = Is(x, v)
    BY <1>2, SamePlaces
  <2>2. QED
    BY <1>2, <2>1, EntersRedeemed
<1>3. QED
  BY <1>1, <1>2

\* A key goes out, from any map; w is recorded, which is the key if it is one.
LEMMA UnusedOutOne ==
  ASSUME TypeOK, NEW s \in Sites, NEW k \in Ids, NEW i \in 0..MaxId, NEW w \in Value,
         w = unusedKeys[s][k],
         Issue(s, i, w), UNCHANGED redeemed,
         unusedKeys' = [unusedKeys EXCEPT ![s][k] = NoEntry],
         UNCHANGED <<reservedKeys, archive, storing>>, NEW x \in Sites, NEW v \in PSK
  PROVE  OneAfter(x, v)
<1> DEFINE p == <<"unused", k>>
<1>1. /\ Un(x, v)' \subseteq Un(x, v)
      /\ Re(x, v)' \subseteq Re(x, v) /\ Ar(x, v)' \subseteq Ar(x, v)
      /\ St(x, v)' \subseteq St(x, v)
  BY LeavesUnused, SamePlaces
<1>2. CASE x = s /\ v = w
  <2>1. PICK q : Is(x, v)' \subseteq Is(x, v) \union {q} /\ Rd(x, v)' \subseteq Rd(x, v) \union {q}
    BY LogsGainOne, LogTypesHold
  <2>2. p \in Un(x, v) /\ p \notin Un(x, v)'
    BY <1>2, LeavesUnused
  <2> HIDE DEF p
  <2>3. /\ Un(x, v)' \subseteq Un(x, v) \ {p}
        /\ Re(x, v)' \subseteq Re(x, v) \union {q}
    BY <1>1, <2>2
  <2>4. QED
    BY <1>1, <2>1, <2>2, <2>3, MovesFromUnused
<1>3. CASE x # s \/ v # w
  <2>1. Is(x, v)' \subseteq Is(x, v) /\ Rd(x, v)' \subseteq Rd(x, v)
    BY <1>3, LogsGainOne, LogTypesHold
  <2>2. QED
    BY <1>1, <2>1, FewerPlaces
<1>4. QED
  BY <1>2, <1>3

LEMMA ReservedOutOne ==
  ASSUME TypeOK, NEW s \in Sites, NEW k \in Ids, NEW i \in 0..MaxId, NEW w \in Value,
         w \in PSK => w = reservedKeys[s][k],
         \/ Issue(s, i, w) /\ UNCHANGED redeemed
         \/ i \in Ids /\ Redeem(s, i, w) /\ UNCHANGED issued,
         reservedKeys' = [reservedKeys EXCEPT ![s][k] = NoEntry],
         UNCHANGED <<unusedKeys, archive, storing>>, NEW x \in Sites, NEW v \in PSK
  PROVE  OneAfter(x, v)
<1> DEFINE p == <<"reserved", k>>
<1>1. /\ Re(x, v)' \subseteq Re(x, v)
      /\ Un(x, v)' \subseteq Un(x, v) /\ Ar(x, v)' \subseteq Ar(x, v)
      /\ St(x, v)' \subseteq St(x, v)
  BY LeavesReserved, SamePlaces
<1>2. CASE x = s /\ v = w
  <2>1. PICK q : Is(x, v)' \subseteq Is(x, v) \union {q} /\ Rd(x, v)' \subseteq Rd(x, v) \union {q}
    BY LogsGainOne, LogTypesHold
  <2>2. p \in Re(x, v) /\ p \notin Re(x, v)'
    BY <1>2, LeavesReserved
  <2> HIDE DEF p
  <2>3. /\ Re(x, v)' \subseteq Re(x, v) \ {p}
        /\ Re(x, v)' \subseteq Re(x, v) \union {q}
    BY <1>1, <2>2
  <2>4. QED
    BY <1>1, <2>1, <2>2, <2>3, MovesFromReserved
<1>3. CASE x # s \/ v # w
  <2>1. Is(x, v)' \subseteq Is(x, v) /\ Rd(x, v)' \subseteq Rd(x, v)
    BY <1>3, LogsGainOne, LogTypesHold
  <2>2. QED
    BY <1>1, <2>1, FewerPlaces
<1>4. QED
  BY <1>2, <1>3

LEMMA ArchivedOutOne ==
  ASSUME TypeOK, NEW s \in Sites, NEW k \in Ids, NEW i \in 0..MaxId, NEW w \in Value,
         w = archive[s][k],
         \/ Issue(s, i, w) /\ UNCHANGED redeemed
         \/ i \in Ids /\ Redeem(s, i, w) /\ UNCHANGED issued,
         archive' = [archive EXCEPT ![s][k] = NoEntry],
         UNCHANGED <<unusedKeys, reservedKeys, storing>>, NEW x \in Sites, NEW v \in PSK
  PROVE  OneAfter(x, v)
<1> DEFINE p == <<"archive", k>>
<1>1. /\ Ar(x, v)' \subseteq Ar(x, v)
      /\ Un(x, v)' \subseteq Un(x, v) /\ Re(x, v)' \subseteq Re(x, v)
      /\ St(x, v)' \subseteq St(x, v)
  BY LeavesArchive, SamePlaces
<1>2. CASE x = s /\ v = w
  <2>1. PICK q : Is(x, v)' \subseteq Is(x, v) \union {q} /\ Rd(x, v)' \subseteq Rd(x, v) \union {q}
    BY LogsGainOne, LogTypesHold
  <2>2. p \in Ar(x, v) /\ p \notin Ar(x, v)'
    BY <1>2, LeavesArchive
  <2> HIDE DEF p
  <2>3. /\ Ar(x, v)' \subseteq Ar(x, v) \ {p}
        /\ Re(x, v)' \subseteq Re(x, v) \union {q}
    BY <1>1, <2>2
  <2>4. QED
    BY <1>1, <2>1, <2>2, <2>3, MovesFromArchive
<1>3. CASE x # s \/ v # w
  <2>1. Is(x, v)' \subseteq Is(x, v) /\ Rd(x, v)' \subseteq Rd(x, v)
    BY <1>3, LogsGainOne, LogTypesHold
  <2>2. QED
    BY <1>1, <2>1, FewerPlaces
<1>4. QED
  BY <1>2, <1>3

\* Into the backing store: each place there now was one before, or was that of
\* the same id in a map which is empty now.
LEMMA IntoArchiveOne ==
  ASSUME NEW x \in Sites, NEW v \in PSK,
         \A k \in Ids : archive'[x][k] = v =>
           \/ archive[x][k] = v
           \/ storing[x][k] = v
           \/ unusedKeys[x][k] = v /\ Un(x, v)' = {}
           \/ reservedKeys[x][k] = v /\ Re(x, v)' = {},
         St(x, v)' = {}, Un(x, v)' \subseteq Un(x, v), Re(x, v)' \subseteq Re(x, v),
         Is(x, v)' \subseteq Is(x, v), Rd(x, v)' \subseteq Rd(x, v)
  PROVE  OneAfter(x, v)
<1>1. ASSUME NEW p \in Places(x, v)'
      PROVE  \/ p \in Places(x, v)
             \/ \E k \in Ids : \E q \in Places(x, v) :
                  /\ p = <<"archive", k>> /\ q \notin Places(x, v)'
                  /\ q[2] = k
  <2>1. CASE p \in Ar(x, v)'
    <3>1. PICK k \in Ids : p = <<"archive", k>> /\ archive'[x][k] = v
      BY <2>1 DEF Ar, InMap
    <3>2. CASE archive[x][k] = v
      <4>1. p \in Ar(x, v)
        BY <3>1, <3>2 DEF Ar, InMap
      <4>2. QED
        BY <4>1, ByKind
    <3>3. CASE storing[x][k] = v
      <4>1. <<"storing", k>> \in St(x, v)
        BY <3>3 DEF St, InMap
      <4>2. <<"storing", k>>[1] = "storing" /\ <<"storing", k>>[2] = k
        OBVIOUS
      <4>3. <<"storing", k>> \in Places(x, v) /\ <<"storing", k>> \notin Places(x, v)'
        <5>1. /\ \A y \in Un(x, v) : y[1] = "unused"
              /\ \A y \in Re(x, v) : y[1] = "reserved"
              /\ \A y \in Is(x, v) : y[1] = "issued"
              /\ \A y \in Rd(x, v) : y[1] = "redeemed"
          BY Kinds
        <5>2. \A y \in Ar(x, v)' : y[1] = "archive"
          BY MapName DEF Ar
        <5>3. QED
          BY <4>1, <4>2, <5>1, <5>2, ByKind
      <4>4. QED
        BY <3>1, <4>2, <4>3
    <3>4. CASE unusedKeys[x][k] = v /\ Un(x, v)' = {}
      <4>1. <<"unused", k>> \in Un(x, v)
        BY <3>4 DEF Un, InMap
      <4>2. <<"unused", k>>[1] = "unused" /\ <<"unused", k>>[2] = k
        OBVIOUS
      <4>3. <<"unused", k>> \in Places(x, v) /\ <<"unused", k>> \notin Places(x, v)'
        <5>1. /\ \A y \in Re(x, v) : y[1] = "reserved"
              /\ \A y \in Is(x, v) : y[1] = "issued"
              /\ \A y \in Rd(x, v) : y[1] = "redeemed"
          BY Kinds
        <5>2. \A y \in Ar(x, v)' : y[1] = "archive"
          BY MapName DEF Ar
        <5>3. QED
          BY <3>4, <4>1, <4>2, <5>1, <5>2, ByKind
      <4>4. QED
        BY <3>1, <4>2, <4>3
    <3>5. CASE reservedKeys[x][k] = v /\ Re(x, v)' = {}
      <4>1. <<"reserved", k>> \in Re(x, v)
        BY <3>5 DEF Re, InMap
      <4>2. <<"reserved", k>>[1] = "reserved" /\ <<"reserved", k>>[2] = k
        OBVIOUS
      <4>3. <<"reserved", k>> \in Places(x, v) /\ <<"reserved", k>> \notin Places(x, v)'
        <5>1. /\ \A y \in Un(x, v) : y[1] = "unused"
              /\ \A y \in Is(x, v) : y[1] = "issued"
              /\ \A y \in Rd(x, v) : y[1] = "redeemed"
          BY Kinds
        <5>2. \A y \in Ar(x, v)' : y[1] = "archive"
          BY MapName DEF Ar
        <5>3. QED
          BY <3>5, <4>1, <4>2, <5>1, <5>2, ByKind
      <4>4. QED
        BY <3>1, <4>2, <4>3
    <3>6. QED
      BY <3>1, <3>2, <3>3, <3>4, <3>5
  <2>2. CASE p \notin Ar(x, v)'
    BY <1>1, <2>2, ByKind
  <2>3. QED
    BY <2>1, <2>2
<1>2. ASSUME One(Places(x, v)), NEW p \in Places(x, v)', NEW r \in Places(x, v)'
      PROVE  p = r
  <2>1. CASE p \in Places(x, v) /\ r \in Places(x, v)
    BY <1>2, <2>1 DEF One
  <2>2. CASE p \in Places(x, v) /\ r \notin Places(x, v)
    BY <1>1, <1>2, <2>2 DEF One
  <2>3. CASE p \notin Places(x, v) /\ r \in Places(x, v)
    BY <1>1, <1>2, <2>3 DEF One
  <2>4. CASE p \notin Places(x, v) /\ r \notin Places(x, v)
    <3>1. PICK k \in Ids : \E q \in Places(x, v) : p = <<"archive", k>> /\ q[2] = k
      BY <1>1, <1>2, <2>4
    <3>2. PICK j \in Ids : \E q \in Places(x, v) : r = <<"archive", j>> /\ q[2] = j
      BY <1>1, <1>2, <2>4
    <3>3. QED
      BY <1>2, <3>1, <3>2 DEF One
  <2>5. QED
    BY <2>1, <2>2, <2>3, <2>4
<1>3. ASSUME Places(x, v) = {}, NEW p \in Places(x, v)' PROVE FALSE
  BY <1>1, <1>3
<1>4. QED
  BY <1>2, <1>3 DEF OneAfter, One

LEMMA IdleOne ==
  ASSUME UNCHANGED <<stores, history>>, NEW x, NEW v
  PROVE  OneAfter(x, v)
<1>1. UNCHANGED <<unusedKeys, reservedKeys, archive, storing, issued, redeemed>>
  BY DEF stores, history
<1>2. QED
  BY <1>1, SamePlaces, FewerPlaces

\* Every step but a delivery.
LEMMA StepOne ==
  ASSUME IInv, [Next]_vars, ~\E s \in Sites, d \in Devices : OnKeyGeneration(s, d),
         NEW x \in Sites, NEW v \in PSK
  PROVE  OneAfter(x, v)
<1>0. /\ TypeOK /\ \A s \in Sites : Peer[s] \in Sites
      /\ v # NoEntry /\ EmptyPSK # v /\ EmptyPSK \in Value
      /\ \A k \in Ids : k \in 0..MaxId
  BY PeerIsSite, KeyAssumption DEF IInv, Value, Ids
<1>1. ASSUME NEW s \in Sites, NEW c \in Clients, StartGetNewKey(s, c) PROVE OneAfter(x, v)
  BY <1>0, <1>1, ReserveOne DEF StartGetNewKey, history
<1>2. ASSUME NEW s \in Sites, NEW c \in Clients, MarkReserved(s, c) PROVE OneAfter(x, v)
  <2>1. CASE UNCHANGED stores
    BY <1>2, <2>1, IdleOne DEF MarkReserved, history
  <2>2. CASE \E j \in Ids : ReserveNewKey(Peer[s], j) /\ UNCHANGED storing
    BY <1>0, <1>2, <2>2, ReserveOne DEF MarkReserved
  <2>3. QED
    BY <1>2, <2>1, <2>2 DEF MarkReserved
<1>3. ASSUME NEW s \in Sites, NEW c \in Clients, MarkUnused(s, c) PROVE OneAfter(x, v)
  <2>1. call[s][c].id \in Ids
    BY <1>0, <1>3, CallFacts DEF MarkUnused
  <2>2. QED
    BY <1>0, <1>3, <2>1, UnusedToReservedOne DEF MarkUnused
<1>4. ASSUME NEW s \in Sites, NEW c \in Clients, MarkArchived(s, c) PROVE OneAfter(x, v)
  <2>1. call[s][c].id \in Ids
    BY <1>0, <1>4, CallFacts DEF MarkArchived
  <2>2. QED
    BY <1>0, <1>4, <2>1, ArchiveToReservedOne DEF MarkArchived
<1>5. ASSUME NEW s \in Sites, NEW c \in Clients, MarkUnknown(s, c) PROVE OneAfter(x, v)
  <2>1. call[s][c].id \in Ids
    BY <1>0, <1>5, CallFacts DEF MarkUnknown
  <2>2. Re(x, v)' \subseteq Re(x, v)
    BY <1>0, <1>5, <2>1, EntersReserved DEF MarkUnknown
  <2>3. UNCHANGED <<unusedKeys, archive, storing, issued, redeemed>>
    BY <1>5 DEF MarkUnknown
  <2>4. QED
    BY <2>2, <2>3, SamePlaces, FewerPlaces
<1>6. ASSUME NEW s \in Sites, NEW c \in Clients, SupplyAlternative(s, c) PROVE OneAfter(x, v)
  BY <1>0, <1>6, ReserveOne DEF SupplyAlternative, history
<1>7. ASSUME NEW s \in Sites, NEW c \in Clients, AlternativeTimeout(s, c) \/ MarkFails(s, c)
      PROVE  OneAfter(x, v)
  BY <1>7, IdleOne DEF AlternativeTimeout, MarkFails
<1>8. ASSUME NEW s \in Sites, NEW c \in Clients, TakeOriginal(s, c) PROVE OneAfter(x, v)
  <2> DEFINE k == call[s][c].id
  <2>1. k \in Ids /\ reservedKeys[s][k] \in Slot
    BY <1>0, <1>8, CallFacts, Types DEF TakeOriginal
  <2>2. PICK w : w = ReadOf(reservedKeys[s][k])
    OBVIOUS
  <2>3. w \in Value /\ (w \in PSK => w = reservedKeys[s][k])
    BY <2>1, <2>2, KeyAssumption DEF ReadOf, Slot, Value
  <2>4. /\ Issue(s, k, w) /\ UNCHANGED <<redeemed, unusedKeys, archive, storing>>
        /\ reservedKeys' = [reservedKeys EXCEPT ![s][k] = NoEntry]
    BY <1>8, <2>2 DEF TakeOriginal
  <2> HIDE DEF k
  <2>5. QED
    BY <1>0, <2>1, <2>3, <2>4, ReservedOutOne
<1>9. ASSUME NEW s \in Sites, NEW c \in Clients, TakeAlternative(s, c) PROVE OneAfter(x, v)
  <2> DEFINE j == call[s][c].alt
  <2>1. j \in Ids /\ AlternativeId(s, c) = j /\ 0 \in 0..MaxId
    BY <1>0, <1>9, CallFacts, BoundAssumption DEF TakeAlternative, AlternativeId
  <2>2. UNCHANGED <<redeemed, storing>>
    BY <1>9 DEF TakeAlternative
  <2> HIDE DEF j
  <2>3. CASE /\ unusedKeys[s][j] # NoEntry
             /\ Issue(s, j, unusedKeys[s][j])
             /\ unusedKeys' = [unusedKeys EXCEPT ![s][j] = NoEntry]
             /\ UNCHANGED <<reservedKeys, archive>>
    <3>1. unusedKeys[s][j] \in Value
      BY <1>0, <2>1, <2>3, Types DEF Slot
    <3>2. QED
      BY <1>0, <2>1, <2>2, <2>3, <3>1, UnusedOutOne
  <2>4. CASE /\ reservedKeys[s][j] # NoEntry
             /\ Issue(s, j, reservedKeys[s][j])
             /\ reservedKeys' = [reservedKeys EXCEPT ![s][j] = NoEntry]
             /\ UNCHANGED <<unusedKeys, archive>>
    <3>1. reservedKeys[s][j] \in Value
      BY <1>0, <2>1, <2>4, Types DEF Slot
    <3>2. QED
      BY <1>0, <2>1, <2>2, <2>4, <3>1, ReservedOutOne
  <2>5. CASE /\ archive[s][j] # NoEntry
             /\ Issue(s, 0, archive[s][j])
             /\ archive' = [archive EXCEPT ![s][j] = NoEntry]
             /\ UNCHANGED <<unusedKeys, reservedKeys>>
    <3>1. archive[s][j] \in Value
      BY <1>0, <2>1, <2>5, Types DEF Slot
    <3>2. QED
      BY <1>0, <2>1, <2>2, <2>5, <3>1, ArchivedOutOne
  <2>6. QED
    BY <1>9, <2>1, <2>3, <2>4, <2>5 DEF TakeAlternative, j
<1>10. ASSUME NEW s \in Sites, NEW c \in Clients, MissAlternative(s, c) PROVE OneAfter(x, v)
  <2>1. /\ Issue(s, 0, EmptyPSK) /\ 0 \in 0..MaxId
        /\ UNCHANGED <<unusedKeys, reservedKeys, archive, storing, redeemed>>
    BY <1>10, BoundAssumption DEF MissAlternative, stores
  <2>2. Is(x, v)' \subseteq Is(x, v)
    BY <1>0, <2>1, EntersIssued, LogTypesHold
  <2>3. QED
    BY <2>1, <2>2, SamePlaces, FewerPlaces
<1>11. ASSUME NEW s \in Sites, OrphanReserves(s) PROVE OneAfter(x, v)
  <2>1. CASE UNCHANGED stores
    BY <1>11, <2>1, IdleOne DEF OrphanReserves
  <2>2. CASE (\E k \in Ids : ReserveNewKey(s, k)) /\ UNCHANGED storing
    BY <1>0, <1>11, <2>2, ReserveOne DEF OrphanReserves, history
  <2>3. QED
    BY <1>11, <2>1, <2>2 DEF OrphanReserves
<1>12. ASSUME NEW s \in Sites, StoreKeys(s) PROVE OneAfter(x, v)
  <2>1. UNCHANGED <<unusedKeys, reservedKeys, issued, redeemed>>
    BY <1>12 DEF StoreKeys, history
  <2>2. CASE x # s
    <3>1. archive'[x] = archive[x] /\ storing'[x] = storing[x]
      BY <1>0, <1>12, <2>2, Types DEF StoreKeys
    <3>2. Ar(x, v)' = Ar(x, v) /\ St(x, v)' = St(x, v)
      BY <3>1 DEF Ar, St
    <3>3. QED
      BY <2>1, <3>2, SamePlaces, FewerPlaces
  <2>3. CASE x = s
    <3>1. \A i \in Ids : /\ storing'[x][i] = NoEntry
                         /\ archive'[x][i] = IF archive[x][i] # NoEntry
                                             THEN archive[x][i] ELSE storing[x][i]
      BY <1>0, <1>12, <2>3, Types DEF StoreKeys, NoKeys
    <3>2. St(x, v)' = {}
      BY <1>0, <3>1 DEF St, InMap
    <3>3. \A k \in Ids : archive'[x][k] = v => archive[x][k] = v \/ storing[x][k] = v
      BY <3>1
    <3>4. /\ Un(x, v)' \subseteq Un(x, v) /\ Re(x, v)' \subseteq Re(x, v)
          /\ Is(x, v)' \subseteq Is(x, v) /\ Rd(x, v)' \subseteq Rd(x, v)
      BY <2>1, SamePlaces
    <3>5. QED
      BY <3>2, <3>3, <3>4, IntoArchiveOne
  <2>4. QED
    BY <2>2, <2>3
<1>13. ASSUME NEW s \in Sites, Restart(s) PROVE OneAfter(x, v)
  <2>1. UNCHANGED <<issued, redeemed>>
    BY <1>13 DEF Restart, history
  <2>2. /\ Is(x, v)' \subseteq Is(x, v) /\ Rd(x, v)' \subseteq Rd(x, v)
    BY <2>1, SamePlaces
  <2>3. CASE x # s
    <3>1. /\ unusedKeys'[x] = unusedKeys[x] /\ reservedKeys'[x] = reservedKeys[x]
          /\ storing'[x] = storing[x] /\ archive'[x] = archive[x]
      BY <1>0, <1>13, <2>3, Types DEF Restart
    <3>2. /\ Un(x, v)' = Un(x, v) /\ Re(x, v)' = Re(x, v)
          /\ Ar(x, v)' = Ar(x, v) /\ St(x, v)' = St(x, v)
      BY <3>1 DEF Un, Re, Ar, St
    <3>3. QED
      BY <2>2, <3>2, FewerPlaces
  <2>4. CASE x = s
    <3>1. \A i \in Ids : /\ unusedKeys'[x][i] = NoEntry
                         /\ reservedKeys'[x][i] = NoEntry
                         /\ storing'[x][i] = NoEntry
      BY <1>0, <1>13, <2>4, Types DEF Restart, NoKeys
    <3>2. Un(x, v)' = {} /\ Re(x, v)' = {} /\ St(x, v)' = {}
      BY <1>0, <3>1 DEF Un, Re, St, InMap
    <3>3. \A k \in Ids : archive'[x][k] \in
            {archive[x][k], unusedKeys[x][k], reservedKeys[x][k]}
      <4>1. CASE archive' = [archive EXCEPT ![s] = Flushed(s)]
        BY <1>0, <2>4, <4>1, Types DEF Flushed
      <4>2. CASE UNCHANGED archive
        BY <4>2
      <4>3. QED
        BY <1>13, <4>1, <4>2 DEF Restart
    <3>4. \A k \in Ids : archive'[x][k] = v =>
            \/ archive[x][k] = v
            \/ storing[x][k] = v
            \/ unusedKeys[x][k] = v /\ Un(x, v)' = {}
            \/ reservedKeys[x][k] = v /\ Re(x, v)' = {}
      BY <3>2, <3>3
    <3>5. Un(x, v)' \subseteq Un(x, v) /\ Re(x, v)' \subseteq Re(x, v)
      BY <3>2
    <3>6. QED
      BY <2>2, <3>2, <3>4, <3>5, IntoArchiveOne
  <2>5. QED
    BY <2>3, <2>4
<1>14. ASSUME NEW s \in Sites, NEW k \in Ids, GetExistingKey(s, k) PROVE OneAfter(x, v)
  <2>1. UNCHANGED <<issued, unusedKeys, storing>>
    BY <1>14 DEF GetExistingKey
  <2>2. CASE /\ reservedKeys[s][k] # NoEntry
             /\ Redeem(s, k, reservedKeys[s][k])
             /\ reservedKeys' = [reservedKeys EXCEPT ![s][k] = NoEntry]
             /\ UNCHANGED archive
    <3>1. reservedKeys[s][k] \in Value
      BY <1>0, <2>2, Types DEF Slot
    <3>2. QED
      BY <1>0, <2>1, <2>2, <3>1, ReservedOutOne
  <2>3. CASE /\ archive[s][k] # NoEntry
             /\ Redeem(s, k, archive[s][k])
             /\ archive' = [archive EXCEPT ![s][k] = NoEntry]
             /\ UNCHANGED reservedKeys
    <3>1. archive[s][k] \in Value
      BY <1>0, <2>3, Types DEF Slot
    <3>2. QED
      BY <1>0, <2>1, <2>3, <3>1, ArchivedOutOne
  <2>4. QED
    BY <1>14, <2>2, <2>3 DEF GetExistingKey
<1>15. CASE UNCHANGED vars
  BY <1>15, IdleOne DEF vars
<1>16. QED
  BY <1>1, <1>2, <1>3, <1>4, <1>5, <1>6, <1>7, <1>8, <1>9, <1>10, <1>11, <1>12,
     <1>13, <1>14, <1>15, Actions

\* A delivery gives a place to the key delivered, and to no other.
LEMMA FilingOne ==
  ASSUME TypeOK, NEW s \in Sites, NEW key \in PSK, NEW n \in Ids, FileKey(s, n, key),
         UNCHANGED <<archive, history>>, NEW x \in Sites, NEW v \in PSK
  PROVE  /\ (x # s \/ v # key) => OneAfter(x, v)
         /\ Places(x, v) = {} => One(Places(x, v))'
<1>2. /\ Ar(x, v)' = Ar(x, v) /\ Is(x, v)' = Is(x, v) /\ Rd(x, v)' = Rd(x, v)
  BY SamePlaces DEF history
<1>3. ASSUME NEW q,
             \/ /\ Un(x, v)' \subseteq Un(x, v) \union {q}
                /\ Re(x, v)' = Re(x, v) /\ St(x, v)' = St(x, v)
             \/ /\ Re(x, v)' \subseteq Re(x, v) \union {q}
                /\ Un(x, v)' = Un(x, v) /\ St(x, v)' = St(x, v)
             \/ /\ St(x, v)' \subseteq St(x, v) \union {q}
                /\ Re(x, v)' = Re(x, v) /\ Un(x, v)' = Un(x, v)
      PROVE  Places(x, v) = {} => One(Places(x, v))'
  <2>1. Places(x, v)' \subseteq Places(x, v) \union {q}
    BY <1>2, <1>3, ByKind
  <2>2. QED
    BY <2>1 DEF One
<1>4. CASE reservedKeys' = [reservedKeys EXCEPT ![s][n] = key] /\ UNCHANGED <<unusedKeys, storing>>
  <2>1. /\ Re(x, v)' \subseteq Re(x, v) \union {<<"reserved", n>>}
        /\ (x # s \/ v # key) => Re(x, v)' \subseteq Re(x, v)
    BY <1>4, EntersReserved
  <2>2. Un(x, v)' = Un(x, v) /\ St(x, v)' = St(x, v)
    BY <1>4, SamePlaces
  <2>3. QED
    BY <1>2, <1>3, <2>1, <2>2, FewerPlaces
<1>5. CASE storing' = [storing EXCEPT ![s][n] = key] /\ UNCHANGED <<unusedKeys, reservedKeys>>
  <2>0. \A i \in Ids : storing'[x][i] = v =>
          storing[x][i] = v \/ (i = n /\ x = s /\ v = key)
    BY <1>5, Types
  <2>1. /\ St(x, v)' \subseteq St(x, v) \union {<<"storing", n>>}
        /\ (x # s \/ v # key) => St(x, v)' \subseteq St(x, v)
    BY <2>0 DEF St, InMap
  <2>2. Un(x, v)' = Un(x, v) /\ Re(x, v)' = Re(x, v)
    BY <1>5, SamePlaces
  <2>3. QED
    BY <1>2, <1>3, <2>1, <2>2, FewerPlaces
<1>6. CASE unusedKeys' = [unusedKeys EXCEPT ![s][n] = key] /\ UNCHANGED <<reservedKeys, storing>>
  <2>0. \A i \in Ids : unusedKeys'[x][i] = v =>
          unusedKeys[x][i] = v \/ (i = n /\ x = s /\ v = key)
    BY <1>6, Types
  <2>1. /\ Un(x, v)' \subseteq Un(x, v) \union {<<"unused", n>>}
        /\ (x # s \/ v # key) => Un(x, v)' \subseteq Un(x, v)
    BY <2>0 DEF Un, InMap
  <2>2. St(x, v)' = St(x, v) /\ Re(x, v)' = Re(x, v)
    BY <1>6, SamePlaces
  <2>3. QED
    BY <1>2, <1>3, <2>1, <2>2, FewerPlaces
<1>7. CASE UNCHANGED <<unusedKeys, reservedKeys, storing>>
  <2>1. UNCHANGED stores
    BY <1>7 DEF stores
  <2>2. OneAfter(x, v)
    BY <2>1, IdleOne
  <2>3. QED
    BY <2>2 DEF OneAfter, One
<1>8. QED
  BY <1>4, <1>5, <1>6, <1>7 DEF FileKey

\* A key which is still to be delivered at an end has no place there, and every
\* other has at most one.
NotArrived ==
  \A s \in Sites, d \in Devices : \A n \in 1..Len(Stream[d]) :
    n > delivered[s][d] => Places(s, Stream[d][n]) = {}

OnePlace == \A s \in Sites, v \in PSK : One(Places(s, v))

LEMMA InitNowhere ==
  ASSUME Init, NEW s \in Sites, NEW v \in PSK
  PROVE  Places(s, v) = {}
<1>1. v # NoEntry
  BY KeyAssumption
<1>2. \A k \in Ids : /\ unusedKeys[s][k] = NoEntry /\ reservedKeys[s][k] = NoEntry
                      /\ archive[s][k] = NoEntry /\ storing[s][k] = NoEntry
  BY DEF Init, NoKeys
<1>3. Un(s, v) = {} /\ Re(s, v) = {} /\ Ar(s, v) = {} /\ St(s, v) = {}
  BY <1>1, <1>2 DEF Un, Re, Ar, St, InMap
<1>4. \A name, log : (\A k \in DOMAIN log : DOMAIN log[k] = {}) => InLog(name, log, v) = {}
  BY InLogIff
<1>5. /\ \A k \in DOMAIN issued[s] : DOMAIN issued[s][k] = {}
      /\ \A k \in DOMAIN redeemed[s] : DOMAIN redeemed[s][k] = {}
  BY DEF Init
<1>6. Is(s, v) = {} /\ Rd(s, v) = {}
  BY <1>4, <1>5 DEF Is, Rd
<1>7. QED
  BY <1>3, <1>6, ByKind

LEMMA InitOnePlace == Init => NotArrived /\ OnePlace
<1> SUFFICES ASSUME Init PROVE \A s \in Sites, v \in PSK : Places(s, v) = {}
  BY KeyAssumption DEF NotArrived, OnePlace, One
<1>1. QED
  BY InitNowhere

\* A step which is not a delivery.
LEMMA NoDeliveryOnePlace ==
  ASSUME IInv, [Next]_vars, ~\E s \in Sites, d \in Devices : OnKeyGeneration(s, d)
  PROVE  /\ NotArrived => NotArrived'
         /\ OnePlace => OnePlace'
<1>1. UNCHANGED delivered
  BY StreamsOnlyByDelivery DEF vars, feed
<1>2. \A x \in Sites, v \in PSK : OneAfter(x, v)
  BY StepOne
<1>3. OnePlace => OnePlace'
  BY <1>2 DEF OnePlace, OneAfter
<1>4. \A d \in Devices : \A n \in 1..Len(Stream[d]) : Stream[d][n] \in PSK
  BY KeyAssumption
<1>5. ASSUME NotArrived PROVE NotArrived'
  <2>1. ASSUME NEW s \in Sites, NEW d \in Devices, NEW n \in 1..Len(Stream[d]),
               n > delivered'[s][d]
        PROVE  Places(s, Stream[d][n])' = {}
    <3>1. Places(s, Stream[d][n]) = {}
      BY <1>1, <1>5, <2>1 DEF NotArrived
    <3>2. PICK v \in PSK : v = Stream[d][n]
      BY <1>4
    <3>3. Places(s, v)' = {}
      BY <1>2, <3>1, <3>2 DEF OneAfter
    <3>4. QED
      BY <3>2, <3>3
  <2>2. QED
    BY <2>1 DEF NotArrived
<1>6. QED
  BY <1>3, <1>5

\* A delivery.
LEMMA DeliversNext ==
  ASSUME IInv, NEW s \in Sites, NEW d \in Devices, OnKeyGeneration(s, d)
  PROVE  \E m \in 1..Len(Stream[d]) : m = delivered[s][d] + 1
<1>1. Stream[d] \in Seq(PSK)
  BY KeyAssumption
<1>2. Len(Stream[d]) \in Nat /\ delivered[s][d] \in Nat
  BY <1>1 DEF IInv, TypeOK
<1>3. QED
  BY <1>2 DEF OnKeyGeneration

LEMMA DeliveryOnePlace ==
  ASSUME StreamsDistinct, IInv, NotArrived, OnePlace,
         NEW s \in Sites, NEW d \in Devices, OnKeyGeneration(s, d)
  PROVE  NotArrived' /\ OnePlace'
<1>0. /\ delivered \in [Sites -> [Devices -> Nat]]
      /\ nextKeyId \in [Sites -> 1..(MaxId + 1)]
      /\ MaxId \in Nat
  BY BoundAssumption DEF IInv, TypeOK
<1>1. PICK m \in 1..Len(Stream[d]) : m = delivered[s][d] + 1
  BY DeliversNext
<1>2. PICK key \in PSK : key = Stream[d][m]
  BY KeyAssumption
<1>3. PICK n \in Ids : n = nextKeyId[s]
  BY <1>0 DEF OnKeyGeneration, Ids
<1>4. FileKey(s, n, key) /\ UNCHANGED <<archive, history>> /\ TypeOK
  BY <1>1, <1>2, <1>3 DEF OnKeyGeneration, IInv
<1>5. \A x \in Sites, v \in PSK :
        /\ (x # s \/ v # key) => OneAfter(x, v)
        /\ Places(x, v) = {} => One(Places(x, v))'
  BY <1>4, FilingOne
<1>6. Places(s, key) = {}
  <2>1. delivered[s][d] \in Nat /\ m > delivered[s][d]
    BY <1>0, <1>1
  <2>2. Places(s, Stream[d][m]) = {}
    BY <2>1 DEF NotArrived
  <2>3. QED
    BY <1>2, <2>2
<1>7. OnePlace'
  BY <1>5, <1>6 DEF OnePlace, OneAfter
<1>8. ASSUME NEW x \in Sites, NEW e \in Devices, NEW i \in 1..Len(Stream[e]),
             i > delivered'[x][e]
      PROVE  Places(x, Stream[e][i])' = {}
  <2>1. PICK v \in PSK : v = Stream[e][i]
    BY KeyAssumption
  <2>2. delivered' = [delivered EXCEPT ![s][d] = m] /\ delivered[x][e] \in Nat
        /\ delivered \in [Sites -> [Devices -> Nat]]
    BY <1>0, <1>1 DEF OnKeyGeneration
  <2>3. i > delivered[x][e] /\ (x # s \/ e # d \/ i # m)
    BY <1>1, <1>8, <2>2
  <2>4. Places(x, v) = {}
    BY <2>1, <2>3 DEF NotArrived
  <2>5. x # s \/ v # key
    BY <1>2, <2>1, <2>3 DEF StreamsDistinct
  <2>6. Places(x, v)' = {}
    BY <1>5, <2>4, <2>5 DEF OneAfter
  <2>7. QED
    BY <2>1, <2>6
<1>9. QED
  BY <1>7, <1>8 DEF NotArrived

LEMMA OneIsAtMostOne == \A S : One(S) => Cardinality(S) <= 1
<1> SUFFICES ASSUME NEW S, One(S) PROVE Cardinality(S) <= 1
  OBVIOUS
<1>1. CASE S = {}
  BY <1>1, FS_EmptySet
<1>2. CASE S # {}
  <2>1. PICK p : S = {p}
    BY <1>2 DEF One
  <2>2. Cardinality(S) = 1
    BY <2>1, FS_Singleton
  <2>3. QED
    BY <2>2
<1>3. QED
  BY <1>1, <1>2

\* "Once a key has been retrieved it cannot be retrieved again": whatever the
\* two ends do, through clashes, lost RPCs, timeouts, crashes and restarts, a
\* key which the devices distilled once is in one map of an end, or in its
\* backing store, or has been given out there once.
THEOREM KeysHaveOnePlace ==
  ASSUME StreamsDistinct
  PROVE  Spec => []OnePlacePerKey
<1>1. Init => NotArrived /\ OnePlace
  BY InitOnePlace
<1>2. IInv /\ NotArrived /\ OnePlace /\ [Next]_vars => NotArrived' /\ OnePlace'
  BY NoDeliveryOnePlace, DeliveryOnePlace
<1>3. OnePlace => OnePlacePerKey
  BY OneIsAtMostOne DEF OnePlace, OnePlacePerKey
<1>4. QED
  BY <1>1, <1>2, <1>3, HomesInvariant, PTL DEF Spec

-----------------------------------------------------------------------------
(***************************************************************************)
(* KeyStore implements SharedKeys.  A step gives at most one value out, and  *)
(* afterwards the value has its one place in the log it went to: so it was   *)
(* not given out before.  It is a key of the stream because nothing else is  *)
(* ever filed, and until a restart it is the key of the id by ById.          *)
(***************************************************************************)

\* What one step does to the logs.
GivesNothing      == UNCHANGED <<history, restarts>>
GivesNew(s, k)    == \E v \in Value : Issue(s, k, v) /\ UNCHANGED <<redeemed, restarts>>
GivesKnown(s, k)  ==
  Redeemable(s, k) /\ \E v \in Value : Redeem(s, k, v) /\ UNCHANGED <<issued, restarts>>
GivesOne ==
  \/ GivesNothing
  \/ \E s \in Sites, k \in 0..MaxId : GivesNew(s, k)
  \/ \E s \in Sites, k \in Ids : GivesKnown(s, k)

LEMMA StepGivesOne ==
  ASSUME TypeOK, [Next]_vars, ~\E s \in Sites : Restart(s)
  PROVE  GivesOne
<1>0. \A k \in Ids : k \in 0..MaxId
  BY BoundAssumption DEF Ids
<1>1. ASSUME NEW s \in Sites, NEW c \in Clients,
             \/ StartGetNewKey(s, c) \/ MarkReserved(s, c) \/ MarkUnused(s, c)
             \/ MarkArchived(s, c) \/ MarkUnknown(s, c) \/ SupplyAlternative(s, c)
             \/ AlternativeTimeout(s, c) \/ MarkFails(s, c)
      PROVE  GivesNothing
  BY <1>1 DEF StartGetNewKey, MarkReserved, MarkUnused, MarkArchived, MarkUnknown,
              SupplyAlternative, AlternativeTimeout, MarkFails, GivesNothing, history, bounds
<1>2. ASSUME NEW s \in Sites, OrphanReserves(s) \/ StoreKeys(s) PROVE GivesNothing
  BY <1>2 DEF OrphanReserves, StoreKeys, GivesNothing, history, bounds
<1>3. ASSUME NEW s \in Sites, NEW d \in Devices, OnKeyGeneration(s, d) PROVE GivesNothing
  BY <1>3 DEF OnKeyGeneration, GivesNothing, history, bounds
<1>4. ASSUME NEW s \in Sites, NEW c \in Clients, TakeOriginal(s, c) PROVE GivesOne
  <2>1. PICK k \in Ids : k = call[s][c].id
    BY <1>4, CallFacts DEF TakeOriginal
  <2>2. reservedKeys[s][k] \in Slot
    BY Types
  <2>3. ReadOf(reservedKeys[s][k]) \in Value
    BY <2>2 DEF ReadOf, Slot, Value
  <2>4. GivesNew(s, k)
    BY <1>4, <2>1, <2>3 DEF TakeOriginal, GivesNew, bounds
  <2>5. QED
    BY <1>0, <2>4 DEF GivesOne
<1>5. ASSUME NEW s \in Sites, NEW c \in Clients, TakeAlternative(s, c) PROVE GivesOne
  <2>1. PICK j \in Ids : j = call[s][c].alt
    BY <1>5, CallFacts DEF TakeAlternative
  <2>2. unusedKeys[s][j] \in Slot /\ reservedKeys[s][j] \in Slot /\ archive[s][j] \in Slot
    BY Types
  <2>3. UNCHANGED <<redeemed, restarts>> /\ AlternativeId(s, c) = j
    BY <1>5, <2>1 DEF TakeAlternative, AlternativeId, bounds
  <2>4. \/ unusedKeys[s][j] # NoEntry /\ Issue(s, j, unusedKeys[s][j])
        \/ reservedKeys[s][j] # NoEntry /\ Issue(s, j, reservedKeys[s][j])
        \/ archive[s][j] # NoEntry /\ Issue(s, 0, archive[s][j])
    BY <1>5, <2>1, <2>3 DEF TakeAlternative
  <2>5. GivesNew(s, j) \/ GivesNew(s, 0)
    BY <2>2, <2>3, <2>4 DEF GivesNew, Slot
  <2>6. 0 \in 0..MaxId
    BY BoundAssumption
  <2>7. QED
    BY <1>0, <2>5, <2>6 DEF GivesOne
<1>6. ASSUME NEW s \in Sites, NEW c \in Clients, MissAlternative(s, c) PROVE GivesOne
  <2>1. GivesNew(s, 0)
    BY <1>6 DEF MissAlternative, GivesNew, Value, bounds
  <2>2. 0 \in 0..MaxId
    BY BoundAssumption
  <2>3. QED
    BY <2>1, <2>2 DEF GivesOne
<1>7. ASSUME NEW s \in Sites, NEW k \in Ids, GetExistingKey(s, k) PROVE GivesOne
  <2>1. reservedKeys[s][k] \in Slot /\ archive[s][k] \in Slot
    BY Types
  <2>2. \/ reservedKeys[s][k] # NoEntry /\ Redeem(s, k, reservedKeys[s][k])
        \/ archive[s][k] # NoEntry /\ Redeem(s, k, archive[s][k])
    BY <1>7 DEF GetExistingKey
  <2>3. GivesKnown(s, k)
    BY <1>7, <2>1, <2>2 DEF GetExistingKey, GivesKnown, Slot, bounds
  <2>4. QED
    BY <2>3 DEF GivesOne
<1>8. CASE UNCHANGED vars
  BY <1>8 DEF vars, bounds, GivesOne, GivesNothing
<1>9. QED
  BY <1>1, <1>2, <1>3, <1>4, <1>5, <1>6, <1>7, <1>8, Actions DEF GivesOne

\* Only keys of the streams are ever held or given out.
FromStreams ==
  \A s \in Sites, v \in PSK :
    Places(s, v) # {} => \E d \in Devices : \E n \in 1..Len(Stream[d]) : v = Stream[d][n]

LEMMA InitFromStreams == Init => FromStreams
<1> SUFFICES ASSUME Init, NEW s \in Sites, NEW v \in PSK PROVE Places(s, v) = {}
  BY DEF FromStreams
<1>1. QED
  BY InitNowhere

LEMMA StepFromStreams == IInv /\ FromStreams /\ [Next]_vars => FromStreams'
<1> SUFFICES ASSUME IInv, FromStreams, [Next]_vars, NEW x \in Sites, NEW v \in PSK,
                    Places(x, v)' # {}
             PROVE  \E d \in Devices : \E n \in 1..Len(Stream[d]) : v = Stream[d][n]
  BY DEF FromStreams
<1>1. CASE Places(x, v) # {}
  BY <1>1 DEF FromStreams
<1>2. CASE ~\E s \in Sites, d \in Devices : OnKeyGeneration(s, d)
  BY <1>1, <1>2, StepOne DEF OneAfter
<1>3. CASE \E s \in Sites, d \in Devices : OnKeyGeneration(s, d)
  <2>1. PICK s \in Sites, d \in Devices : OnKeyGeneration(s, d)
    BY <1>3
  <2>2. PICK m \in 1..Len(Stream[d]) : m = delivered[s][d] + 1
    BY <2>1, DeliversNext
  <2>3. PICK key \in PSK : key = Stream[d][m]
    BY KeyAssumption
  <2>4. PICK n \in Ids : n = nextKeyId[s]
    BY <2>1 DEF OnKeyGeneration, Ids, IInv, TypeOK
  <2>5. FileKey(s, n, key) /\ UNCHANGED <<archive, history>> /\ TypeOK
    BY <2>1, <2>2, <2>3, <2>4 DEF OnKeyGeneration, IInv
  <2>6. v # key => OneAfter(x, v)
    BY <2>5, FilingOne
  <2>7. QED
    BY <1>1, <2>3, <2>6 DEF OneAfter
<1>4. QED
  BY <1>2, <1>3

\* A log which grew has its old places and the new one.
LEMMA LogGains ==
  ASSUME NEW name, NEW D, NEW f \in [D -> Seq(Value)], NEW k \in D, NEW w \in Value,
         NEW g, Adds(f, g, k, w)
  PROVE  /\ InLog(name, f, w) \subseteq InLog(name, g, w)
         /\ \E p \in InLog(name, g, w) : p[1] = name /\ p \notin InLog(name, f, w)
<1>1. /\ DOMAIN g = D /\ DOMAIN f = D /\ f[k] \in Seq(Value)
      /\ \A i \in D : i # k => g[i] = f[i]
      /\ g[k] = Append(f[k], w)
  BY DEF Adds
<1>2. /\ Len(f[k]) \in Nat /\ DOMAIN f[k] = 1..Len(f[k])
      /\ DOMAIN g[k] = 1..(Len(f[k]) + 1)
      /\ \A n \in 1..Len(f[k]) : g[k][n] = f[k][n]
      /\ g[k][Len(f[k]) + 1] = w
  BY <1>1, AppendProperties
<1>3. \A log, p : p \in InLog(name, log, w) <=>
        \E i \in DOMAIN log : \E n \in DOMAIN log[i] : p = <<name, i, n>> /\ log[i][n] = w
  BY InLogIff
<1>4. ASSUME NEW p \in InLog(name, f, w) PROVE p \in InLog(name, g, w)
  <2>1. PICK i \in DOMAIN f : \E n \in DOMAIN f[i] : p = <<name, i, n>> /\ f[i][n] = w
    BY <1>3
  <2>2. PICK n \in DOMAIN f[i] : p = <<name, i, n>> /\ f[i][n] = w
    BY <2>1
  <2>3. i \in DOMAIN g /\ n \in DOMAIN g[i] /\ g[i][n] = w
    <3>1. CASE i # k
      BY <1>1, <2>2, <3>1
    <3>2. CASE i = k
      <4>1. n \in 1..Len(f[k]) /\ f[k][n] = w
        BY <1>2, <2>2, <3>2
      <4>2. n \in DOMAIN g[k] /\ g[k][n] = w
        BY <1>2, <4>1
      <4>3. QED
        BY <1>1, <3>2, <4>2
    <3>3. QED
      BY <3>1, <3>2
  <2>4. QED
    BY <1>3, <2>2, <2>3
<1>5. PICK p : p = <<name, k, Len(f[k]) + 1>>
  OBVIOUS
<1>6. p \in InLog(name, g, w)
  <2>1. k \in DOMAIN g /\ Len(f[k]) + 1 \in DOMAIN g[k]
    BY <1>1, <1>2
  <2>2. QED
    BY <1>2, <1>3, <1>5, <2>1
<1>7. p \notin InLog(name, f, w)
  <2>1. Len(f[k]) + 1 \notin DOMAIN f[k]
    BY <1>2
  <2>2. QED
    BY <1>3, <1>5, <2>1
<1>8. QED
  BY <1>4, <1>5, <1>6, <1>7

LEMMA IssueGains ==
  ASSUME TypeOK, NEW s \in Sites, NEW k \in 0..MaxId, NEW v \in Value, Issue(s, k, v)
  PROVE  /\ Is(s, v) \subseteq Is(s, v)'
         /\ \E p \in Is(s, v)' : p[1] = "issued" /\ p \notin Is(s, v)
<1>0. PICK D : D = 0..MaxId
  OBVIOUS
<1>1. issued \in [Sites -> [D -> Seq(Value)]]
  BY <1>0, Types
<1>2. PICK f \in [D -> Seq(Value)] : f = issued[s]
  BY <1>1
<1>3. PICK g : g = issued'[s]
  OBVIOUS
<1>4. Adds(f, g, k, v)
  BY <1>0, <1>1, <1>2, <1>3 DEF Issue, Adds
<1>5. \A name : /\ InLog(name, f, v) \subseteq InLog(name, g, v)
               /\ \E p \in InLog(name, g, v) : p[1] = name /\ p \notin InLog(name, f, v)
  BY <1>0, <1>4, LogGains
<1>6. QED
  BY <1>2, <1>3, <1>5 DEF Is

LEMMA RedeemGains ==
  ASSUME TypeOK, NEW s \in Sites, NEW k \in Ids, NEW v \in Value, Redeem(s, k, v)
  PROVE  /\ Rd(s, v) \subseteq Rd(s, v)'
         /\ \E p \in Rd(s, v)' : p[1] = "redeemed" /\ p \notin Rd(s, v)
<1>0. PICK D : D = Ids
  OBVIOUS
<1>1. redeemed \in [Sites -> [D -> Seq(Value)]]
  BY <1>0, Types
<1>2. PICK f \in [D -> Seq(Value)] : f = redeemed[s]
  BY <1>1
<1>3. PICK g : g = redeemed'[s]
  OBVIOUS
<1>4. Adds(f, g, k, v)
  BY <1>0, <1>1, <1>2, <1>3 DEF Redeem, Adds
<1>5. \A name : /\ InLog(name, f, v) \subseteq InLog(name, g, v)
               /\ \E p \in InLog(name, g, v) : p[1] = name /\ p \notin InLog(name, f, v)
  BY <1>0, <1>4, LogGains
<1>6. QED
  BY <1>2, <1>3, <1>5 DEF Rd

\* What is given out while it has one place was not given out before.
LEMMA GivenOutFirst ==
  ASSUME TypeOK, NEW s \in Sites, NEW k \in 0..MaxId, NEW v \in Value,
         \/ Issue(s, k, v) /\ UNCHANGED redeemed
         \/ k \in Ids /\ Redeem(s, k, v) /\ UNCHANGED issued,
         One(Places(s, v))'
  PROVE  /\ Is(s, v) = {} /\ Rd(s, v) = {}
         /\ Places(s, v)' # {}
<1>1. Is(s, v)' \union Rd(s, v)' \subseteq Places(s, v)'
  BY ByKind
<1>2. CASE Issue(s, k, v) /\ UNCHANGED redeemed
  <2>1. PICK p \in Is(s, v)' : p[1] = "issued" /\ p \notin Is(s, v)
    BY <1>2, IssueGains
  <2>2. Is(s, v) \subseteq Is(s, v)' /\ Rd(s, v) = Rd(s, v)'
    BY <1>2, IssueGains, SamePlaces
  <2>3. \A q \in Is(s, v) \union Rd(s, v) : q = p
    BY <1>1, <2>1, <2>2 DEF One
  <2>4. p \notin Rd(s, v)
    BY <2>1, Kinds
  <2>5. QED
    BY <1>1, <2>1, <2>3, <2>4
<1>3. CASE k \in Ids /\ Redeem(s, k, v) /\ UNCHANGED issued
  <2>1. PICK p \in Rd(s, v)' : p[1] = "redeemed" /\ p \notin Rd(s, v)
    BY <1>3, RedeemGains
  <2>2. Rd(s, v) \subseteq Rd(s, v)' /\ Is(s, v) = Is(s, v)'
    BY <1>3, RedeemGains, SamePlaces
  <2>3. \A q \in Is(s, v) \union Rd(s, v) : q = p
    BY <1>1, <2>1, <2>2 DEF One
  <2>4. p \notin Is(s, v)
    BY <2>1, Kinds
  <2>5. QED
    BY <1>1, <2>1, <2>3, <2>4
<1>4. QED
  BY <1>2, <1>3

LEMMA SharedGivenOut ==
  ASSUME TypeOK, NEW s \in Sites, NEW v, Is(s, v) = {}, Rd(s, v) = {}
  PROVE  ~Shared!GivenOut(s, v)
<1>1. DOMAIN issued[s] = 0..MaxId /\ DOMAIN redeemed[s] = Ids /\ {0} \union Ids = 0..MaxId
  BY Types, BoundAssumption DEF Ids
<1>2. \A name, log, p :
        (\E i \in DOMAIN log : \E n \in DOMAIN log[i] : p = <<name, i, n>> /\ log[i][n] = v)
          => p \in InLog(name, log, v)
  BY InLogIff
<1>3. \A i \in 0..MaxId : \A n \in DOMAIN issued[s][i] : issued[s][i][n] # v
  BY <1>1, <1>2 DEF Is
<1>4. \A i \in Ids : \A n \in DOMAIN redeemed[s][i] : redeemed[s][i][n] # v
  BY <1>1, <1>2 DEF Rd
<1>5. QED
  BY <1>1, <1>3, <1>4 DEF Shared!GivenOut

LEMMA LogsByIdLast ==
  ASSUME NEW d \in Devices, TypeOK, LogsById(d)', NEW s \in Sites, NEW k \in Ids, NEW v \in Value,
         Issue(s, k, v) \/ Redeem(s, k, v)
  PROVE  v \in KeyOf(d, k)
<1>1. \A q \in Seq(Value) : Append(q, v) \in Seq(KeyOf(d, k)) => v \in KeyOf(d, k)
  <2>1. SUFFICES ASSUME NEW q \in Seq(Value), Append(q, v) \in Seq(KeyOf(d, k))
                 PROVE  v \in KeyOf(d, k)
    OBVIOUS
  <2>2. PICK n \in DOMAIN Append(q, v) : Append(q, v)[n] = v
    BY LastOfAppend
  <2>3. \A S : \A r \in Seq(S) : \A i \in DOMAIN r : r[i] \in S
    OBVIOUS
  <2>4. QED
    BY <2>1, <2>2, <2>3
<1>2. \A i \in Ids : i \in 0..MaxId
  BY BoundAssumption DEF Ids
<1>3. CASE Issue(s, k, v)
  <2>1. issued[s][k] \in Seq(Value) /\ issued'[s][k] = Append(issued[s][k], v)
    BY <1>2, <1>3, Types DEF Issue
  <2>2. issued'[s][k] \in Seq(KeyOf(d, k))
    BY DEF LogsById
  <2>3. QED
    BY <1>1, <2>1, <2>2
<1>4. CASE Redeem(s, k, v)
  <2>1. redeemed[s][k] \in Seq(Value) /\ redeemed'[s][k] = Append(redeemed[s][k], v)
    BY <1>4, Types DEF Redeem
  <2>2. redeemed'[s][k] \in Seq(KeyOf(d, k))
    BY DEF LogsById
  <2>3. QED
    BY <1>1, <2>1, <2>2
<1>5. QED
  BY <1>3, <1>4

\* With one pair of devices, what a step gives out is what SharedKeys allows.
LEMMA GivesFresh ==
  ASSUME NEW d \in Devices, Devices = {d}, TypeOK, OnePlace', FromStreams',
         restarts = 0 => LogsById(d)',
         NEW s \in Sites, NEW k \in 0..MaxId, NEW v \in Value,
         \/ Issue(s, k, v) /\ UNCHANGED redeemed
         \/ k \in Ids /\ Redeem(s, k, v) /\ UNCHANGED issued
  PROVE  v \in Shared!Fresh(s, k)
<1>1. CASE v = EmptyPSK
  BY <1>1 DEF Shared!Fresh
<1>2. CASE v \in PSK
  <2>1. One(Places(s, v))'
    BY <1>2 DEF OnePlace
  <2>2. Is(s, v) = {} /\ Rd(s, v) = {} /\ Places(s, v)' # {}
    BY <2>1, GivenOutFirst
  <2>3. ~Shared!GivenOut(s, v)
    BY <2>2, SharedGivenOut
  <2>4. PICK n \in 1..Len(Stream[d]) : v = Stream[d][n]
    BY <1>2, <2>2 DEF FromStreams
  <2>5. restarts = 0 /\ k # 0 => k \in 1..Len(Stream[d]) /\ v = Stream[d][k]
    <3>1. SUFFICES ASSUME restarts = 0, k # 0 PROVE k \in 1..Len(Stream[d]) /\ v = Stream[d][k]
      OBVIOUS
    <3>2. k \in Ids
      BY <3>1, BoundAssumption DEF Ids
    <3>3. v \in KeyOf(d, k)
      BY <3>1, <3>2, LogsByIdLast
    <3>4. QED
      BY <1>2, <3>3, KeyAssumption DEF KeyOf
  <2>6. PICK m \in 1..Len(Stream[d]) : v = Stream[d][m] /\ (restarts = 0 => k \in {0, m})
    BY <2>4, <2>5
  <2>7. (CHOOSE e \in Devices : TRUE) = d /\ DOMAIN Stream[d] = 1..Len(Stream[d])
    BY KeyAssumption
  <2>8. v \in Shared!Named(k)
    BY <2>6, <2>7 DEF Shared!Named
  <2>9. QED
    BY <2>3, <2>8 DEF Shared!Fresh
<1>3. QED
  BY <1>1, <1>2 DEF Value

\* What holds of a link with the pair of devices d.
LinkInv(d) ==
  /\ IInv /\ NotArrived /\ OnePlace /\ FromStreams
  /\ restarts = 0 => ById(d)

LEMMA InitLink == \A d \in Devices : Init => LinkInv(d)
<1> SUFFICES ASSUME NEW d \in Devices, Init PROVE LinkInv(d)
  OBVIOUS
<1>1. IInv
  BY InitType, InitHomes DEF IInv
<1>2. QED
  BY <1>1, InitOnePlace, InitFromStreams, InitById DEF LinkInv

LEMMA StepLink ==
  ASSUME NEW d \in Devices, Devices = {d}, StreamsDistinct, LinkInv(d), [Next]_vars
  PROVE  LinkInv(d)'
<1>1. IInv'
  BY StepType, StepHomes DEF LinkInv, IInv
<1>2. NotArrived' /\ OnePlace' /\ FromStreams'
  BY NoDeliveryOnePlace, DeliveryOnePlace, StepFromStreams DEF LinkInv
<1>3. restarts' = 0 => restarts = 0
  <2>1. restarts \in Nat
    BY BoundAssumption DEF LinkInv, IInv, TypeOK
  <2>2. ASSUME NEW s \in Sites, Restart(s) PROVE restarts' # 0
    BY <2>1, <2>2 DEF Restart
  <2>3. CASE ~\E s \in Sites : Restart(s)
    <3>1. GivesOne
      BY <2>3, StepGivesOne DEF LinkInv, IInv
    <3>2. QED
      BY <3>1 DEF GivesOne, GivesNothing, GivesNew, GivesKnown
  <2>4. QED
    BY <2>2, <2>3
<1>4. restarts' = 0 => ById(d)'
  BY <1>3, StepById DEF LinkInv
<1>5. QED
  BY <1>1, <1>2, <1>4 DEF LinkInv

LEMMA LinkImplements ==
  ASSUME NEW d \in Devices, Devices = {d}, LinkInv(d), LinkInv(d)', [Next]_vars
  PROVE  Shared!Next \/ UNCHANGED <<issued, redeemed, restarts = 0>>
<1>0. TypeOK /\ restarts \in Nat /\ {0} \union Ids = 0..MaxId
  <2>1. TypeOK
    BY DEF LinkInv, IInv
  <2>2. restarts \in Nat
    BY <2>1, BoundAssumption DEF TypeOK
  <2>3. {0} \union Ids = 0..MaxId
    BY BoundAssumption DEF Ids
  <2>4. QED
    BY <2>1, <2>2, <2>3
<1>1. ASSUME NEW s \in Sites, Restart(s)
      PROVE  Shared!Next \/ UNCHANGED <<issued, redeemed, restarts = 0>>
  <2>1. UNCHANGED <<issued, redeemed>> /\ restarts' = restarts + 1
    BY <1>1 DEF Restart, history
  <2>2. CASE restarts = 0
    <3>1. Shared!BreakOff
      BY <2>1, <2>2 DEF Shared!BreakOff
    <3>2. QED
      BY <3>1 DEF Shared!Next
  <2>3. CASE restarts # 0
    <3>1. restarts + 1 # 0
      BY <1>0
    <3>2. (restarts = 0)' = (restarts = 0)
      BY <2>1, <2>3, <3>1
    <3>3. QED
      BY <2>1, <3>2
  <2>4. QED
    BY <2>2, <2>3
<1>2. restarts' = restarts /\ restarts = 0 => LogsById(d)'
  BY DEF LinkInv, ById
<1>3. ASSUME NEW s \in Sites, NEW k \in 0..MaxId, GivesNew(s, k) PROVE Shared!Next
  <2>1. PICK v \in Value : Issue(s, k, v) /\ UNCHANGED <<redeemed, restarts>>
    BY <1>3 DEF GivesNew
  <2>2. v \in Shared!Fresh(s, k)
    BY <1>0, <1>2, <2>1, GivesFresh DEF LinkInv
  <2>3. Shared!GetNewKey(s, k)
    BY <2>1, <2>2 DEF Shared!GetNewKey, Issue
  <2>4. QED
    BY <1>0, <2>3 DEF Shared!Next
<1>4. ASSUME NEW s \in Sites, NEW k \in Ids, GivesKnown(s, k) PROVE Shared!Next
  <2>1. PICK v \in Value : Redeem(s, k, v) /\ UNCHANGED <<issued, restarts>>
    BY <1>4 DEF GivesKnown
  <2>2. k \in 0..MaxId
    BY <1>0
  <2>3. v \in Shared!Fresh(s, k)
    BY <1>0, <1>2, <2>1, <2>2, GivesFresh DEF LinkInv
  <2>4. Shared!GetExistingKey(s, k)
    BY <1>4, <2>1, <2>3 DEF Shared!GetExistingKey, Redeem, GivesKnown, Redeemable
  <2>5. QED
    BY <2>4 DEF Shared!Next
<1>5. ASSUME GivesNothing PROVE UNCHANGED <<issued, redeemed, restarts = 0>>
  BY <1>5 DEF GivesNothing, history
<1>6. QED
  BY <1>0, <1>1, <1>3, <1>4, <1>5, StepGivesOne DEF GivesOne

LEMMA LinkInitImplements == Init => Shared!Init
<1>1. {0} \union Ids = 0..MaxId
  BY BoundAssumption DEF Ids
<1>2. QED
  BY <1>1 DEF Init, Shared!Init

\* On a link with one pair of devices, which distils no key twice, the key stores
\* at its two ends are the sequence of keys which SharedKeys promises the
\* applications: what either call gives is the key of the id, or none, and
\* nothing an end has given before, also after its site agents restarted.
THEOREM StoresShareKeys ==
  ASSUME NEW d \in Devices, Devices = {d}, StreamsDistinct
  PROVE  Spec => SharesKeys
<1>1. Init => LinkInv(d) /\ Shared!Init
  BY InitLink, LinkInitImplements
<1>2. LinkInv(d) /\ [Next]_vars => LinkInv(d)'
  BY StepLink
<1>3. LinkInv(d) /\ LinkInv(d)' /\ [Next]_vars
        => [Shared!Next]_<<issued, redeemed, restarts = 0>>
  BY LinkImplements
<1>4. QED
  BY <1>1, <1>2, <1>3, PTL DEF Spec, SharesKeys, Shared!Spec

-----------------------------------------------------------------------------
(***************************************************************************)
(* What the applications may rely on, from SharedKeys alone.                 *)
(***************************************************************************)
SharedById(d) == restarts = 0 => LogsById(d)

SharedOnce == \A s \in Sites, v \in PSK : One(Is(s, v) \union Rd(s, v))

LEMMA SharedInit == \A d \in Devices : Shared!Init => LogTypes /\ SharedById(d) /\ SharedOnce
<1> SUFFICES ASSUME NEW d \in Devices, Shared!Init PROVE LogTypes /\ SharedById(d) /\ SharedOnce
  OBVIOUS
<1>1. {0} \union Ids = 0..MaxId
  BY BoundAssumption DEF Ids
<1>2. /\ issued = [s \in Sites |-> [k \in 0..MaxId |-> <<>>]]
      /\ redeemed = [s \in Sites |-> [k \in Ids |-> <<>>]]
  BY <1>1 DEF Shared!Init
<1>3. LogTypes
  BY <1>2 DEF LogTypes
<1>4. LogsById(d)
  <2>1. \A s \in Sites, k \in Ids : issued[s][k] = <<>> /\ redeemed[s][k] = <<>>
    BY <1>1, <1>2
  <2>2. \A k \in Ids : <<>> \in Seq(KeyOf(d, k))
    OBVIOUS
  <2>3. QED
    BY <2>1, <2>2 DEF LogsById
<1>5. ASSUME NEW s \in Sites, NEW v \in PSK PROVE Is(s, v) = {} /\ Rd(s, v) = {}
  <2>1. \A name, log : (\A k \in DOMAIN log : DOMAIN log[k] = {}) => InLog(name, log, v) = {}
    BY InLogIff
  <2>2. /\ \A k \in DOMAIN issued[s] : DOMAIN issued[s][k] = {}
        /\ \A k \in DOMAIN redeemed[s] : DOMAIN redeemed[s][k] = {}
    BY <1>2
  <2>3. QED
    BY <2>1, <2>2 DEF Is, Rd
<1>6. QED
  BY <1>3, <1>4, <1>5 DEF SharedById, SharedOnce, One

\* What is fresh at an end is a key of the id which is in no log of the end.
LEMMA FreshFacts ==
  ASSUME NEW d \in Devices, Devices = {d}, LogTypes, NEW s \in Sites, NEW k \in 0..MaxId,
         NEW v \in Shared!Fresh(s, k)
  PROVE  /\ v \in Value
         /\ restarts = 0 /\ k \in Ids => v \in KeyOf(d, k)
         /\ v # EmptyPSK => Is(s, v) = {} /\ Rd(s, v) = {}
<1>1. CASE v = EmptyPSK
  BY <1>1 DEF Value, KeyOf
<1>2. CASE v # EmptyPSK
  <2>1. v \in Shared!Named(k) /\ ~Shared!GivenOut(s, v)
    BY <1>2 DEF Shared!Fresh
  <2>2. (CHOOSE e \in Devices : TRUE) = d /\ Stream[d] \in Seq(PSK)
    BY KeyAssumption
  <2>3. DOMAIN Stream[d] = 1..Len(Stream[d])
    BY <2>2
  <2>4. PICK n \in 1..Len(Stream[d]) : v = Stream[d][n] /\ (restarts = 0 => k \in {0, n})
    BY <2>1, <2>2, <2>3 DEF Shared!Named
  <2>5. v \in PSK
    BY <2>2, <2>4
  <2>6. restarts = 0 /\ k \in Ids => v \in KeyOf(d, k)
    BY <2>4, <2>5 DEF KeyOf, Ids
  <2>7. DOMAIN issued[s] = 0..MaxId /\ DOMAIN redeemed[s] = Ids /\ {0} \union Ids = 0..MaxId
    BY BoundAssumption DEF Ids, LogTypes
  <2>8. \A name, log, p : p \in InLog(name, log, v) =>
          \E i \in DOMAIN log : \E m \in DOMAIN log[i] : p = <<name, i, m>> /\ log[i][m] = v
    BY InLogIff
  <2>9. Is(s, v) = {} /\ Rd(s, v) = {}
    <3>1. /\ \A i \in 0..MaxId : \A m \in DOMAIN issued[s][i] : issued[s][i][m] # v
          /\ \A i \in Ids : \A m \in DOMAIN redeemed[s][i] : redeemed[s][i][m] # v
      BY <2>1, <2>7 DEF Shared!GivenOut
    <3>2. \A p : p \notin InLog("issued", issued[s], v) /\ p \notin InLog("redeemed", redeemed[s], v)
      <4>1. ASSUME NEW p \in InLog("issued", issued[s], v) PROVE FALSE
        <5>1. \E i \in DOMAIN issued[s] : \E m \in DOMAIN issued[s][i] : issued[s][i][m] = v
          BY <2>8
        <5>2. QED
          BY <2>7, <3>1, <5>1
      <4>2. ASSUME NEW p \in InLog("redeemed", redeemed[s], v) PROVE FALSE
        <5>1. \E i \in DOMAIN redeemed[s] : \E m \in DOMAIN redeemed[s][i] : redeemed[s][i][m] = v
          BY <2>8
        <5>2. QED
          BY <2>7, <3>1, <5>1
      <4>3. QED
        BY <4>1, <4>2
    <3>3. QED
      BY <3>2 DEF Is, Rd
  <2>10. QED
    BY <2>5, <2>6, <2>9 DEF Value
<1>3. QED
  BY <1>1, <1>2

LEMMA SharedStep ==
  ASSUME NEW d \in Devices, Devices = {d}, LogTypes, SharedById(d), SharedOnce,
         [Shared!Next]_<<issued, redeemed, restarts = 0>>
  PROVE  LogTypes' /\ SharedById(d)' /\ SharedOnce'
<1>0. {0} \union Ids = 0..MaxId
  BY BoundAssumption DEF Ids
<1>1. ASSUME NEW s \in Sites, NEW k \in 0..MaxId, NEW v \in Shared!Fresh(s, k),
             \/ Issue(s, k, v) /\ UNCHANGED redeemed
             \/ k \in Ids /\ Redeem(s, k, v) /\ UNCHANGED issued,
             (restarts = 0)' = (restarts = 0)
      PROVE  LogTypes' /\ SharedById(d)' /\ SharedOnce'
  <2>1. /\ v \in Value
        /\ restarts = 0 /\ k \in Ids => v \in KeyOf(d, k)
        /\ v # EmptyPSK => Is(s, v) = {} /\ Rd(s, v) = {}
    BY FreshFacts
  <2>2. LogTypes'
    <3>1. CASE Issue(s, k, v) /\ UNCHANGED redeemed
      <4>1. PICK D : D = 0..MaxId
        OBVIOUS
      <4>2. issued \in [Sites -> [D -> Seq(Value)]] /\ k \in D
        BY <4>1 DEF LogTypes
      <4>3. issued' \in [Sites -> [D -> Seq(Value)]]
        BY <2>1, <3>1, <4>2, LogUpdate DEF Issue
      <4>4. QED
        BY <3>1, <4>1, <4>3 DEF LogTypes
    <3>2. CASE k \in Ids /\ Redeem(s, k, v) /\ UNCHANGED issued
      <4>1. redeemed' \in [Sites -> [Ids -> Seq(Value)]]
        BY <2>1, <3>2, LogUpdate DEF LogTypes, Redeem
      <4>2. QED
        BY <3>2, <4>1 DEF LogTypes
    <3>3. QED
      BY <1>1, <3>1, <3>2
  <2>3. SharedById(d)'
    <3>1. SUFFICES ASSUME restarts' = 0 PROVE LogsById(d)'
      BY DEF SharedById
    <3>2. restarts = 0 /\ LogsById(d)
      BY <1>1, <3>1 DEF SharedById
    <3>3. CASE k \in Ids
      BY <1>1, <2>1, <3>2, <3>3, IssueById, RedeemById
    <3>4. CASE k \notin Ids
      <4>1. k = 0 /\ Issue(s, 0, v) /\ UNCHANGED redeemed
        BY <1>0, <1>1, <3>4
      <4>2. \A x \in Sites, i \in Ids : issued'[x][i] = issued[x][i]
        BY <4>1, BoundAssumption DEF Issue, Ids, LogTypes
      <4>3. QED
        BY <3>2, <4>1, <4>2 DEF LogsById
    <3>5. QED
      BY <3>3, <3>4
  <2>4. ASSUME NEW x \in Sites, NEW w \in PSK PROVE One(Is(x, w) \union Rd(x, w))'
    <3>1. /\ \E q : Is(x, w)' \subseteq Is(x, w) \union {q} /\ Rd(x, w)' \subseteq Rd(x, w) \union {q}
          /\ (x # s \/ w # v) => Is(x, w)' \subseteq Is(x, w) /\ Rd(x, w)' \subseteq Rd(x, w)
      BY <1>1, <2>1, LogsGainOne
    <3>2. One(Is(x, w) \union Rd(x, w))
      BY DEF SharedOnce
    <3>3. CASE x = s /\ w = v
      <4>1. Is(x, w) = {} /\ Rd(x, w) = {}
        BY <2>1, <3>3, KeyAssumption
      <4>2. QED
        BY <3>1, <4>1 DEF One
    <3>4. CASE x # s \/ w # v
      BY <3>1, <3>2, <3>4 DEF One
    <3>5. QED
      BY <3>3, <3>4
  <2>5. QED
    BY <2>2, <2>3, <2>4 DEF SharedOnce
<1>2. ASSUME NEW s \in Sites, NEW k \in {0} \union Ids, Shared!GetNewKey(s, k)
      PROVE  LogTypes' /\ SharedById(d)' /\ SharedOnce'
  <2>1. PICK v \in Shared!Fresh(s, k) : Issue(s, k, v)
    BY <1>2 DEF Shared!GetNewKey, Issue
  <2>2. UNCHANGED redeemed /\ (restarts = 0)' = (restarts = 0)
    BY <1>2 DEF Shared!GetNewKey
  <2>3. QED
    BY <1>0, <1>1, <2>1, <2>2
<1>3. ASSUME NEW s \in Sites, NEW k \in Ids, Shared!GetExistingKey(s, k)
      PROVE  LogTypes' /\ SharedById(d)' /\ SharedOnce'
  <2>1. PICK v \in Shared!Fresh(s, k) : Redeem(s, k, v)
    BY <1>3 DEF Shared!GetExistingKey, Redeem
  <2>2. UNCHANGED issued /\ (restarts = 0)' = (restarts = 0)
    BY <1>3 DEF Shared!GetExistingKey
  <2>3. QED
    BY <1>0, <1>1, <2>1, <2>2
<1>4. ASSUME UNCHANGED <<issued, redeemed>>, (restarts = 0)' => (restarts = 0)
      PROVE  LogTypes' /\ SharedById(d)' /\ SharedOnce'
  <2>1. LogTypes' /\ SharedById(d)'
    BY <1>4 DEF LogTypes, SharedById, LogsById
  <2>2. \A x \in Sites, w \in PSK : Is(x, w)' = Is(x, w) /\ Rd(x, w)' = Rd(x, w)
    BY <1>4, SamePlaces
  <2>3. QED
    BY <2>1, <2>2 DEF SharedOnce
<1>5. CASE Shared!BreakOff
  <2>1. UNCHANGED <<issued, redeemed>> /\ ((restarts = 0)' => (restarts = 0))
    BY <1>5 DEF Shared!BreakOff
  <2>2. QED
    BY <1>4, <2>1
<1>6. CASE UNCHANGED <<issued, redeemed, restarts = 0>>
  <2>1. UNCHANGED <<issued, redeemed>> /\ ((restarts = 0)' => (restarts = 0))
    BY <1>6
  <2>2. QED
    BY <1>4, <2>1
<1>7. QED
  BY <1>2, <1>3, <1>5, <1>6 DEF Shared!Next

LEMMA SharedAgree ==
  ASSUME NEW d \in Devices, SharedById(d)
  PROVE  Shared!SameKeyForId
<1> SUFFICES ASSUME restarts = 0, NEW s \in Sites, NEW k \in Ids,
                    NEW m \in DOMAIN issued[s][k], NEW n \in DOMAIN redeemed[Peer[s]][k]
             PROVE  \/ EmptyPSK \in {issued[s][k][m], redeemed[Peer[s]][k][n]}
                    \/ issued[s][k][m] = redeemed[Peer[s]][k][n]
  BY DEF Shared!SameKeyForId
<1>1. issued[s][k] \in Seq(KeyOf(d, k)) /\ redeemed[Peer[s]][k] \in Seq(KeyOf(d, k))
  BY PeerIsSite DEF SharedById, LogsById
<1>2. issued[s][k][m] \in KeyOf(d, k) /\ redeemed[Peer[s]][k][n] \in KeyOf(d, k)
  BY <1>1
<1>3. QED
  BY <1>2 DEF KeyOf

LEMMA SharedApart ==
  ASSUME LogTypes, SharedOnce
  PROVE  Shared!NoKeyTwice
<1>1. {0} \union Ids = 0..MaxId
  BY BoundAssumption DEF Ids
<1> SUFFICES ASSUME NEW s \in Sites
             PROVE  /\ \A i, j \in 0..MaxId : \A m \in DOMAIN issued[s][i], n \in DOMAIN issued[s][j] :
                         issued[s][i][m] = issued[s][j][n] /\ issued[s][i][m] # EmptyPSK => i = j /\ m = n
                    /\ \A i, j \in Ids : \A m \in DOMAIN redeemed[s][i], n \in DOMAIN redeemed[s][j] :
                         redeemed[s][i][m] = redeemed[s][j][n] /\ redeemed[s][i][m] # EmptyPSK => i = j /\ m = n
                    /\ \A i \in 0..MaxId, j \in Ids : \A m \in DOMAIN issued[s][i], n \in DOMAIN redeemed[s][j] :
                         issued[s][i][m] # EmptyPSK => issued[s][i][m] # redeemed[s][j][n]
  BY <1>1 DEF Shared!NoKeyTwice
<1>2. /\ DOMAIN issued[s] = 0..MaxId /\ DOMAIN redeemed[s] = Ids
      /\ \A i \in 0..MaxId : issued[s][i] \in Seq(Value)
      /\ \A i \in Ids : redeemed[s][i] \in Seq(Value)
  BY DEF LogTypes
<1>3. /\ \A i \in 0..MaxId : \A m \in DOMAIN issued[s][i] : issued[s][i][m] \in Value
      /\ \A i \in Ids : \A m \in DOMAIN redeemed[s][i] : redeemed[s][i][m] \in Value
  BY <1>2
<1>4. \A v : /\ \A i \in 0..MaxId : \A m \in DOMAIN issued[s][i] :
                   issued[s][i][m] = v => <<"issued", i, m>> \in Is(s, v)
            /\ \A i \in Ids : \A m \in DOMAIN redeemed[s][i] :
                   redeemed[s][i][m] = v => <<"redeemed", i, m>> \in Rd(s, v)
  BY <1>2, InLogIff DEF Is, Rd
<1>5. \A v \in PSK : \A p, q \in Is(s, v) \union Rd(s, v) : p = q
  BY DEF SharedOnce, One
<1>6. ASSUME NEW i \in 0..MaxId, NEW j \in 0..MaxId, NEW m \in DOMAIN issued[s][i],
             NEW n \in DOMAIN issued[s][j], issued[s][i][m] = issued[s][j][n],
             issued[s][i][m] # EmptyPSK
      PROVE  i = j /\ m = n
  <2>1. PICK v \in PSK : v = issued[s][i][m]
    BY <1>3, <1>6 DEF Value
  <2>2. <<"issued", i, m>> \in Is(s, v) /\ <<"issued", j, n>> \in Is(s, v)
    BY <1>4, <1>6, <2>1
  <2>3. QED
    BY <1>5, <2>2
<1>7. ASSUME NEW i \in Ids, NEW j \in Ids, NEW m \in DOMAIN redeemed[s][i],
             NEW n \in DOMAIN redeemed[s][j], redeemed[s][i][m] = redeemed[s][j][n],
             redeemed[s][i][m] # EmptyPSK
      PROVE  i = j /\ m = n
  <2>1. PICK v \in PSK : v = redeemed[s][i][m]
    BY <1>3, <1>7 DEF Value
  <2>2. <<"redeemed", i, m>> \in Rd(s, v) /\ <<"redeemed", j, n>> \in Rd(s, v)
    BY <1>4, <1>7, <2>1
  <2>3. QED
    BY <1>5, <2>2
<1>8. ASSUME NEW i \in 0..MaxId, NEW j \in Ids, NEW m \in DOMAIN issued[s][i],
             NEW n \in DOMAIN redeemed[s][j], issued[s][i][m] # EmptyPSK,
             issued[s][i][m] = redeemed[s][j][n]
      PROVE  FALSE
  <2>1. PICK v \in PSK : v = issued[s][i][m]
    BY <1>3, <1>8 DEF Value
  <2>2. <<"issued", i, m>> \in Is(s, v) /\ <<"redeemed", j, n>> \in Rd(s, v)
    BY <1>4, <1>8, <2>1
  <2>3. QED
    BY <1>5, <2>2
<1>9. QED
  BY <1>6, <1>7, <1>8

\* What SharedKeys promises is what the applications need: until a site agent
\* restarts two calls with one id at the two ends give one key or none, and no
\* end ever gives out a key twice, by whichever call and under whichever id.
THEOREM SharedKeysServe ==
  ASSUME NEW d \in Devices, Devices = {d}
  PROVE  SharesKeys => [](Shared!SameKeyForId /\ Shared!NoKeyTwice)
<1>1. Shared!Init => LogTypes /\ SharedById(d) /\ SharedOnce
  BY SharedInit
<1>2. LogTypes /\ SharedById(d) /\ SharedOnce /\ [Shared!Next]_<<issued, redeemed, restarts = 0>>
        => LogTypes' /\ SharedById(d)' /\ SharedOnce'
  BY SharedStep
<1>3. LogTypes /\ SharedById(d) /\ SharedOnce => Shared!SameKeyForId /\ Shared!NoKeyTwice
  BY SharedAgree, SharedApart
<1>4. QED
  BY <1>1, <1>2, <1>3, PTL DEF SharesKeys, Shared!Spec
===============================================================================
