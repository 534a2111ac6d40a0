------------------------------- MODULE KeyStore -------------------------------
(***************************************************************************)
(* The pair of key stores which two site agents hold for the link between  *)
(* them (src/KeyManagement/KeyStores/KeyStore.cpp).  Every QKD key of the   *)
(* link arrives at both ends; each end numbers what it receives with a      *)
(* counter of its own, and the ids are what applications exchange.  A       *)
(* caller of GetNewKey at one end reserves an id, asks the partner to mark  *)
(* it (an RPC) and takes the key; the application at the other end then     *)
(* takes the same id with GetExistingKey.                                   *)
(*                                                                         *)
(* A KeyMap is a total function on Ids, NoEntry standing for an absent id.  *)
(* Everything done inside one scope of allKeys_lock is one step; a wait on  *)
(* allKeys_cv or an RPC ends the step.                                      *)
(***************************************************************************)
EXTENDS Naturals, Sequences, FiniteSets

CONSTANTS
  Sites,           \* the two ends of the link
  Peer,            \* mySiteTo, as a function of mySiteFrom
  YieldingSite,    \* the end whose address hash is larger: it loses a clash
  Initiators,      \* the ends whose applications call GetNewKey
  Clients,         \* application threads at each end
  Devices,         \* pairs of QKD devices which feed the link
  PSK,             \* key values
  Stream,          \* Stream[d]: the keys device pair d distils, in order
  EmptyPSK,        \* PSK(), a key of no bytes
  NoEntry,         \* no such id in a KeyMap
  ArchiveSites,    \* the ends configured with an IBackingStore
  CacheThreshold,  \* cacheThreashold
  MaxId,           \* bound: the ids in use are 1..MaxId
  MaxFailures,     \* bound: how many RPCs fail
  MaxRestarts      \* bound: how often site agents stop and start again

ASSUME LinkAssumption ==
  /\ Peer \in [Sites -> Sites]
  /\ \A s \in Sites : Peer[s] # s /\ Peer[Peer[s]] = s
  /\ YieldingSite \in Sites
  /\ Initiators \subseteq Sites
  /\ ArchiveSites \subseteq Sites

ASSUME KeyAssumption ==
  /\ EmptyPSK \notin PSK
  /\ NoEntry \notin PSK \union {EmptyPSK}
  /\ Stream \in [Devices -> Seq(PSK)]

ASSUME BoundAssumption ==
  /\ CacheThreshold \in Nat
  /\ MaxId \in Nat
  /\ MaxFailures \in Nat
  /\ MaxRestarts \in Nat
  /\ IsFiniteSet(Clients)

VARIABLES
  unusedKeys,    \* [Sites -> KeyMap] keys free for GetNewKey
  reservedKeys,  \* [Sites -> KeyMap] keys only retrievable by id
  archive,       \* [Sites -> KeyMap] the rows of the backing store
  storing,       \* [Sites -> KeyMap] between unlock and StoreKeys in OnKeyGeneration
  nextKeyId,     \* [Sites -> Nat]
  delivered,     \* [Sites -> [Devices -> Nat]] how much of each Stream has arrived
  call,          \* [Sites -> [Clients -> Call]] the GetNewKey in progress
  orphans,       \* [Sites -> Nat] handlers waiting for a caller that has gone
  issued,        \* history: for each id, the values GetNewKey returned with it
  redeemed,      \* history: for each id, the values GetExistingKey returned
  failures,      \* how many RPCs have failed
  restarts       \* how many restarts have happened

stores  == <<unusedKeys, reservedKeys, archive, storing>>
feed    == <<nextKeyId, delivered>>
calls   == <<call, orphans>>
history == <<issued, redeemed>>
bounds  == <<failures, restarts>>
vars    == <<stores, feed, calls, history, bounds>>

Ids  == 1..MaxId
\* A key, or one of no bytes; and what a KeyMap may hold under an id.
Value == PSK \union {EmptyPSK}
Slot  == Value \union {NoEntry}

NoKeys == [k \in Ids |-> NoEntry]
Idle   == [pc |-> "idle", id |-> 0, alt |-> 0]
\* A call of GetNewKey: the id reserved, and the id the partner answered.
Call   == [pc : {"idle"}, id : {0}, alt : {0}] \union
          [pc : {"marking", "waiting"}, id : Ids, alt : {0}] \union
          [pc : {"answered"}, id : Ids, alt : Ids]

Present(map)   == {k \in Ids : map[k] # NoEntry}
Lowest(map, k) == k \in Present(map) /\ \A j \in Present(map) : k <= j

\* Mutant: an absent id is read through the iterator find() returned.
ReadOf_Unchecked(slot) == slot

\* map[k] of a std::map read with operator[]: an absent key reads as PSK().
ReadOf(slot) == IF slot = NoEntry THEN EmptyPSK ELSE slot

Issue(s, k, v)  == issued'   = [issued EXCEPT ![s][k] = Append(@, v)]
Redeem(s, k, v) == redeemed' = [redeemed EXCEPT ![s][k] = Append(@, v)]

-----------------------------------------------------------------------------
(* ReserveNewKey: the lowest unused id moves to the reserved keys; with none *)
(* left the lowest id of the backing store does (ReserveKey and RemoveKey).  *)

NothingToReserve(s) == Present(unusedKeys[s]) = {} /\ Present(archive[s]) = {}

\* Mutant: the row ReserveKey found is copied and not removed.
ReserveNewKey_KeepsRow(s, k) ==
  \/ /\ Lowest(unusedKeys[s], k)
     /\ reservedKeys' = [reservedKeys EXCEPT ![s][k] = unusedKeys[s][k]]
     /\ unusedKeys'   = [unusedKeys EXCEPT ![s][k] = NoEntry]
     /\ UNCHANGED archive
  \/ /\ Present(unusedKeys[s]) = {}
     /\ Lowest(archive[s], k)
     /\ reservedKeys' = [reservedKeys EXCEPT ![s][k] = archive[s][k]]
     /\ UNCHANGED <<unusedKeys, archive>>

ReserveNewKey(s, k) ==
  \/ /\ Lowest(unusedKeys[s], k)
     /\ reservedKeys' = [reservedKeys EXCEPT ![s][k] = unusedKeys[s][k]]
     /\ unusedKeys'   = [unusedKeys EXCEPT ![s][k] = NoEntry]
     /\ UNCHANGED archive
  \/ /\ Present(unusedKeys[s]) = {}
     /\ Lowest(archive[s], k)
     /\ reservedKeys' = [reservedKeys EXCEPT ![s][k] = archive[s][k]]
     /\ archive'      = [archive EXCEPT ![s][k] = NoEntry]
     /\ UNCHANGED unusedKeys

-----------------------------------------------------------------------------
(* Caller side of GetNewKey, up to the RPC. *)

StartGetNewKey(s, c) ==
  /\ s \in Initiators
  /\ call[s][c].pc = "idle"
  /\ \E k \in Ids :
       /\ ReserveNewKey(s, k)
       /\ call' = [call EXCEPT ![s][c] = [pc |-> "marking", id |-> k, alt |-> 0]]
  /\ UNCHANGED <<storing, feed, orphans, history, bounds>>

-----------------------------------------------------------------------------
(* MarkKeyInUse, run at the partner for the call of client c at site s.      *)

Answer(s, c, k) ==
  call' = [call EXCEPT ![s][c].pc = "answered", ![s][c].alt = k]

Confirm(s, c) == Answer(s, c, call[s][c].id)

\* Both ends reserved the id.  The end with the larger address hash keeps its
\* key and answers with an alternative, or waits until it has one; the other
\* confirms the id it also holds.
MarkReserved(s, c) ==
  LET p == Peer[s]
      k == call[s][c].id
  IN  /\ call[s][c].pc = "marking"
      /\ reservedKeys[p][k] # NoEntry
      /\ \/ /\ p = YieldingSite
            /\ \E j \in Ids : ReserveNewKey(p, j) /\ Answer(s, c, j)
            /\ UNCHANGED storing
         \/ /\ p = YieldingSite
            /\ NothingToReserve(p)
            /\ call' = [call EXCEPT ![s][c].pc = "waiting"]
            /\ UNCHANGED stores
         \/ /\ p # YieldingSite
            /\ Confirm(s, c)
            /\ UNCHANGED stores
      /\ UNCHANGED <<feed, orphans, issued, redeemed, bounds>>

\* Mutant: the id is confirmed and erased from the unused keys, and not reserved.
MarkUnused_NotReserved(s, c) ==
  LET p == Peer[s]
      k == call[s][c].id
  IN  /\ call[s][c].pc = "marking"
      /\ reservedKeys[p][k] = NoEntry
      /\ unusedKeys[p][k] # NoEntry
      /\ unusedKeys'   = [unusedKeys EXCEPT ![p][k] = NoEntry]
      /\ Confirm(s, c)
      /\ UNCHANGED <<reservedKeys, archive, storing, feed, orphans, issued,
                     redeemed, bounds>>

\* Mutant: the id is reserved and stays among the unused keys.
MarkUnused_StaysUnused(s, c) ==
  LET p == Peer[s]
      k == call[s][c].id
  IN  /\ call[s][c].pc = "marking"
      /\ reservedKeys[p][k] = NoEntry
      /\ unusedKeys[p][k] # NoEntry
      /\ reservedKeys' = [reservedKeys EXCEPT ![p][k] = unusedKeys[p][k]]
      /\ Confirm(s, c)
      /\ UNCHANGED <<unusedKeys, archive, storing, feed, orphans, issued,
                     redeemed, bounds>>

MarkUnused(s, c) ==
  LET p == Peer[s]
      k == call[s][c].id
  IN  /\ call[s][c].pc = "marking"
      /\ reservedKeys[p][k] = NoEntry
      /\ unusedKeys[p][k] # NoEntry
      /\ reservedKeys' = [reservedKeys EXCEPT ![p][k] = unusedKeys[p][k]]
      /\ unusedKeys'   = [unusedKeys EXCEPT ![p][k] = NoEntry]
      /\ Confirm(s, c)
      /\ UNCHANGED <<archive, storing, feed, orphans, issued, redeemed, bounds>>

\* Mutant: the value is read and the row stays, as HSMStore::RemoveKeys leaves it.
MarkArchived_KeepsRow(s, c) ==
  LET p == Peer[s]
      k == call[s][c].id
  IN  /\ call[s][c].pc = "marking"
      /\ reservedKeys[p][k] = NoEntry
      /\ unusedKeys[p][k] = NoEntry
      /\ archive[p][k] # NoEntry
      /\ reservedKeys' = [reservedKeys EXCEPT ![p][k] = archive[p][k]]
      /\ Confirm(s, c)
      /\ UNCHANGED <<unusedKeys, archive, storing, feed, orphans, issued,
                     redeemed, bounds>>

MarkArchived(s, c) ==
  LET p == Peer[s]
      k == call[s][c].id
  IN  /\ call[s][c].pc = "marking"
      /\ reservedKeys[p][k] = NoEntry
      /\ unusedKeys[p][k] = NoEntry
      /\ archive[p][k] # NoEntry
      /\ reservedKeys' = [reservedKeys EXCEPT ![p][k] = archive[p][k]]
      /\ archive'      = [archive EXCEPT ![p][k] = NoEntry]
      /\ Confirm(s, c)
      /\ UNCHANGED <<unusedKeys, storing, feed, orphans, issued, redeemed, bounds>>

\* The id is unknown here: not delivered yet, on its way to the backing store,
\* or already used up.  An empty placeholder is put in the reserved keys, and
\* the wait which follows finds that placeholder and ends at once.
MarkUnknown(s, c) ==
  LET p == Peer[s]
      k == call[s][c].id
  IN  /\ call[s][c].pc = "marking"
      /\ reservedKeys[p][k] = NoEntry
      /\ unusedKeys[p][k] = NoEntry
      /\ archive[p][k] = NoEntry
      /\ reservedKeys' = [reservedKeys EXCEPT ![p][k] = EmptyPSK]
      /\ Confirm(s, c)
      /\ UNCHANGED <<unusedKeys, archive, storing, feed, orphans, issued,
                     redeemed, bounds>>

MarkKeyInUse(s, c) ==
  \/ MarkReserved(s, c)
  \/ MarkUnused(s, c)
  \/ MarkArchived(s, c)
  \/ MarkUnknown(s, c)

\* The wait for an alternative ends when a key can be reserved ...
SupplyAlternative(s, c) ==
  /\ call[s][c].pc = "waiting"
  /\ \E k \in Ids : ReserveNewKey(Peer[s], k) /\ Answer(s, c, k)
  /\ UNCHANGED <<storing, feed, orphans, history, bounds>>

\* Mutant: wait in place of wait_for.
AlternativeTimeout_Never(s, c) == FALSE

\* Mutant: the failed caller gives its id back to the unused keys.
AlternativeTimeout_GivesBack(s, c) ==
  LET k == call[s][c].id
  IN  /\ call[s][c].pc = "waiting"
      /\ NothingToReserve(Peer[s])
      /\ call' = [call EXCEPT ![s][c] = Idle]
      /\ unusedKeys'   = [unusedKeys EXCEPT ![s][k] = reservedKeys[s][k]]
      /\ reservedKeys' = [reservedKeys EXCEPT ![s][k] = NoEntry]
      /\ UNCHANGED <<archive, storing, feed, orphans, history, bounds>>

\* ... or by timeout, with UNAVAILABLE: GetNewKey fails and its id stays reserved.
AlternativeTimeout(s, c) ==
  /\ call[s][c].pc = "waiting"
  /\ NothingToReserve(Peer[s])
  /\ call' = [call EXCEPT ![s][c] = Idle]
  /\ UNCHANGED <<stores, feed, orphans, history, bounds>>

\* The same handler once its caller's RPC has broken: nobody reads the answer.
OrphanReserves(p) ==
  /\ orphans[p] > 0
  /\ orphans' = [orphans EXCEPT ![p] = @ - 1]
  /\ \/ /\ \E k \in Ids : ReserveNewKey(p, k)
        /\ UNCHANGED storing
     \/ NothingToReserve(p) /\ UNCHANGED stores
  /\ UNCHANGED <<feed, call, history, bounds>>

-----------------------------------------------------------------------------
(* Caller side of GetNewKey, after the RPC. *)

\* The request or its answer is lost: "Key allocation failed".  The reserved id
\* is not given back.
MarkFails(s, c) ==
  /\ failures < MaxFailures
  /\ failures' = failures + 1
  /\ call[s][c].pc # "idle"
  /\ call' = [call EXCEPT ![s][c] = Idle]
  /\ orphans' = IF call[s][c].pc = "waiting"
                THEN [orphans EXCEPT ![Peer[s]] = @ + 1]
                ELSE orphans
  /\ UNCHANGED <<stores, feed, history, restarts>>

\* The partner confirmed the id: output = reservedKeys[keyID], then erase.
TakeOriginal(s, c) ==
  LET k == call[s][c].id
  IN  /\ call[s][c].pc = "answered"
      /\ call[s][c].alt = k
      /\ Issue(s, k, ReadOf(reservedKeys[s][k]))
      /\ reservedKeys' = [reservedKeys EXCEPT ![s][k] = NoEntry]
      /\ call' = [call EXCEPT ![s][c] = Idle]
      /\ UNCHANGED <<unusedKeys, archive, storing, feed, orphans, redeemed, bounds>>

\* Mutant: the value of the alternative goes out under the id first asked for.
AlternativeId_Original(s, c) == call[s][c].id

AlternativeId(s, c) == call[s][c].alt

\* The partner supplied another id; it is looked for in the unused keys, the
\* reserved keys and the backing store.  The last of these does not set
\* identity, which is still 0.
TakeAlternative(s, c) ==
  LET j == call[s][c].alt
  IN  /\ call[s][c].pc = "answered"
      /\ j # call[s][c].id
      /\ \/ /\ unusedKeys[s][j] # NoEntry
            /\ Issue(s, AlternativeId(s, c), unusedKeys[s][j])
            /\ unusedKeys' = [unusedKeys EXCEPT ![s][j] = NoEntry]
            /\ UNCHANGED <<reservedKeys, archive>>
         \/ /\ unusedKeys[s][j] = NoEntry
            /\ reservedKeys[s][j] # NoEntry
            /\ Issue(s, AlternativeId(s, c), reservedKeys[s][j])
            /\ reservedKeys' = [reservedKeys EXCEPT ![s][j] = NoEntry]
            /\ UNCHANGED <<unusedKeys, archive>>
         \/ /\ unusedKeys[s][j] = NoEntry
            /\ reservedKeys[s][j] = NoEntry
            /\ archive[s][j] # NoEntry
            /\ Issue(s, 0, archive[s][j])
            /\ archive' = [archive EXCEPT ![s][j] = NoEntry]
            /\ UNCHANGED <<unusedKeys, reservedKeys>>
      /\ call' = [call EXCEPT ![s][c] = Idle]
      /\ UNCHANGED <<storing, feed, orphans, redeemed, bounds>>

\* The alternative never turns up.  The flag set by the wait is a second
\* variable called result, so GetNewKey still returns true, with nothing.
MissAlternative(s, c) ==
  LET j == call[s][c].alt
  IN  /\ call[s][c].pc = "answered"
      /\ j # call[s][c].id
      /\ unusedKeys[s][j] = NoEntry
      /\ reservedKeys[s][j] = NoEntry
      /\ archive[s][j] = NoEntry
      /\ Issue(s, 0, EmptyPSK)
      /\ call' = [call EXCEPT ![s][c] = Idle]
      /\ UNCHANGED <<stores, feed, orphans, redeemed, bounds>>

-----------------------------------------------------------------------------
(* GetExistingKey, called with the ids the application at the other end got. *)

Redeemable(s, k) == Len(issued[Peer[s]][k]) > Len(redeemed[s][k])

GetExistingKey(s, k) ==
  /\ Redeemable(s, k)
  /\ \/ /\ reservedKeys[s][k] # NoEntry
        /\ Redeem(s, k, reservedKeys[s][k])
        /\ reservedKeys' = [reservedKeys EXCEPT ![s][k] = NoEntry]
        /\ UNCHANGED archive
     \/ /\ reservedKeys[s][k] = NoEntry
        /\ archive[s][k] # NoEntry
        /\ Redeem(s, k, archive[s][k])
        /\ archive' = [archive EXCEPT ![s][k] = NoEntry]
        /\ UNCHANGED reservedKeys
  /\ UNCHANGED <<unusedKeys, storing, feed, calls, issued, bounds>>

-----------------------------------------------------------------------------
(* OnKeyGeneration.  A KeyList of n keys is n such steps: they share a lock  *)
(* scope, and the steps of others which fall between only add behaviours.    *)

CacheFull(s) == s \in ArchiveSites /\ Cardinality(Present(unusedKeys[s])) >= CacheThreshold

\* Mutant: a placeholder is not filled, the key is free for anybody.
FileKey_IgnoresReserved(s, k, key) ==
  IF unusedKeys[s][k] # NoEntry
  THEN UNCHANGED <<unusedKeys, reservedKeys, storing>>
  ELSE IF CacheFull(s)
  THEN storing' = [storing EXCEPT ![s][k] = key] /\ UNCHANGED <<unusedKeys, reservedKeys>>
  ELSE unusedKeys' = [unusedKeys EXCEPT ![s][k] = key] /\ UNCHANGED <<reservedKeys, storing>>

\* Where a key with a new id goes: to the caller who has already named the id,
\* to the backing store if the cache is full, or to the unused keys.
FileKey(s, k, key) ==
  IF reservedKeys[s][k] # NoEntry
  THEN reservedKeys' = [reservedKeys EXCEPT ![s][k] = key] /\ UNCHANGED <<unusedKeys, storing>>
  ELSE IF unusedKeys[s][k] # NoEntry
  THEN UNCHANGED <<unusedKeys, reservedKeys, storing>>
  ELSE IF CacheFull(s)
  THEN storing' = [storing EXCEPT ![s][k] = key] /\ UNCHANGED <<unusedKeys, reservedKeys>>
  ELSE unusedKeys' = [unusedKeys EXCEPT ![s][k] = key] /\ UNCHANGED <<reservedKeys, storing>>

OnKeyGeneration(s, d) ==
  LET k   == nextKeyId[s]
      key == Stream[d][delivered[s][d] + 1]
  IN  /\ delivered[s][d] < Len(Stream[d])
      /\ k <= MaxId
      /\ nextKeyId' = [nextKeyId EXCEPT ![s] = k + 1]
      /\ delivered' = [delivered EXCEPT ![s][d] = @ + 1]
      /\ FileKey(s, k, key)
      /\ UNCHANGED <<archive, calls, history, bounds>>

\* Mutant: the rows are refused and the list is cleared all the same.
StoreKeys_Dropped(s) ==
  /\ Present(storing[s]) # {}
  /\ storing' = [storing EXCEPT ![s] = NoKeys]
  /\ UNCHANGED <<unusedKeys, reservedKeys, archive, feed, calls, history, bounds>>

\* backingStore->StoreKeys, after the lock is released.  A row with the id
\* stays as it is (PRIMARY KEY), and the list is cleared either way, so the
\* fallback which would keep the keys locally finds none.
StoreKeys(s) ==
  /\ Present(storing[s]) # {}
  /\ archive' = [archive EXCEPT ![s] =
                   [k \in Ids |-> IF archive[s][k] # NoEntry
                                  THEN archive[s][k] ELSE storing[s][k]]]
  /\ storing' = [storing EXCEPT ![s] = NoKeys]
  /\ UNCHANGED <<unusedKeys, reservedKeys, feed, calls, history, bounds>>

-----------------------------------------------------------------------------
(* A site agent stops, and starts with a new KeyStore on the same backing    *)
(* store.  Stopped in order, the destructor flushes the cache; killed, what  *)
(* was only in memory is gone.                                               *)

Flushed(s) ==
  [k \in Ids |-> IF archive[s][k] # NoEntry THEN archive[s][k]
                 ELSE IF unusedKeys[s][k] # NoEntry THEN unusedKeys[s][k]
                 ELSE reservedKeys[s][k]]

\* FileStore::GetNextKeyId: one more than the largest id stored, or 1.
IsNextIdAfter(rows, n) ==
  /\ n \in 1..(MaxId + 1)
  /\ \A k \in Present(rows) : k < n
  /\ n > 1 => n - 1 \in Present(rows)

Quiet(s) ==
  /\ \A c \in Clients : call[s][c].pc = "idle"
  /\ \A c \in Clients : call[Peer[s]][c].pc \notin {"marking", "waiting"}
  /\ orphans[s] = 0
  /\ Present(storing[s]) = {}

Restart(s) ==
  /\ restarts < MaxRestarts
  /\ restarts' = restarts + 1
  /\ \/ /\ s \in ArchiveSites /\ Quiet(s)
        /\ archive' = [archive EXCEPT ![s] = Flushed(s)]
     \/ UNCHANGED archive
  /\ unusedKeys'   = [unusedKeys EXCEPT ![s] = NoKeys]
  /\ reservedKeys' = [reservedKeys EXCEPT ![s] = NoKeys]
  /\ storing'      = [storing EXCEPT ![s] = NoKeys]
  /\ \E n \in 1..(MaxId + 1) :
       IsNextIdAfter(archive'[s], n) /\ nextKeyId' = [nextKeyId EXCEPT ![s] = n]
  /\ call' = [x \in Sites |-> [c \in Clients |->
                IF \/ x = s
                   \/ x = Peer[s] /\ call[x][c].pc \in {"marking", "waiting"}
                THEN Idle ELSE call[x][c]]]
  /\ orphans' = [orphans EXCEPT
                   ![s] = 0,
                   ![Peer[s]] = @ + Cardinality({c \in Clients : call[s][c].pc = "waiting"})]
  /\ UNCHANGED <<delivered, history, failures>>

-----------------------------------------------------------------------------
Init ==
  /\ unusedKeys   = [s \in Sites |-> NoKeys]
  /\ reservedKeys = [s \in Sites |-> NoKeys]
  /\ archive      = [s \in Sites |-> NoKeys]
  /\ storing      = [s \in Sites |-> NoKeys]
  /\ nextKeyId    = [s \in Sites |-> 1]
  /\ delivered    = [s \in Sites |-> [d \in Devices |-> 0]]
  /\ call         = [s \in Sites |-> [c \in Clients |-> Idle]]
  /\ orphans      = [s \in Sites |-> 0]
  /\ issued       = [s \in Sites |-> [k \in 0..MaxId |-> <<>>]]
  /\ redeemed     = [s \in Sites |-> [k \in Ids |-> <<>>]]
  /\ failures     = 0
  /\ restarts     = 0

CallStep(s, c) ==
  \/ MarkKeyInUse(s, c)
  \/ SupplyAlternative(s, c)
  \/ AlternativeTimeout(s, c)
  \/ TakeOriginal(s, c)
  \/ TakeAlternative(s, c)
  \/ MissAlternative(s, c)

Next ==
  \/ \E s \in Sites, c \in Clients :
       StartGetNewKey(s, c) \/ CallStep(s, c) \/ MarkFails(s, c)
  \/ \E s \in Sites : OrphanReserves(s) \/ StoreKeys(s) \/ Restart(s)
  \/ \E s \in Sites, d \in Devices : OnKeyGeneration(s, d)
  \/ \E s \in Sites, k \in Ids : GetExistingKey(s, k)

Spec == Init /\ [][Next]_vars

\* gRPC delivers each request or breaks the call, its server threads run, and
\* every wait in MarkKeyInUse and GetNewDirectKey ends after waitTimeout.
Fairness == \A s \in Sites, c \in Clients : WF_vars(CallStep(s, c))

LiveSpec == Spec /\ Fairness

-----------------------------------------------------------------------------
(* Properties *)

TypeOK ==
  /\ unusedKeys   \in [Sites -> [Ids -> Slot]]
  /\ reservedKeys \in [Sites -> [Ids -> Slot]]
  /\ archive      \in [Sites -> [Ids -> Slot]]
  /\ storing      \in [Sites -> [Ids -> Slot]]
  /\ nextKeyId    \in [Sites -> 1..(MaxId + 1)]
  /\ delivered    \in [Sites -> [Devices -> Nat]]
  /\ \A s \in Sites, d \in Devices : delivered[s][d] <= Len(Stream[d])
  /\ call         \in [Sites -> [Clients -> Call]]
  /\ orphans      \in [Sites -> Nat]
  /\ issued       \in [Sites -> [0..MaxId -> Seq(Value)]]
  /\ redeemed     \in [Sites -> [Ids -> Seq(Value)]]
  /\ failures     \in 0..MaxFailures
  /\ restarts     \in 0..MaxRestarts

\* One id, one home: ReserveNewKey, MarkKeyInUse, GetExistingKey and
\* OnKeyGeneration each look in some of the maps only, so an id present in two
\* of them could be given out twice.  Only an empty placeholder may stand beside
\* the key it was meant for, when that key was on its way to the backing store.
OneHome ==
  \A s \in Sites, k \in Ids :
    /\ unusedKeys[s][k] # NoEntry =>
         /\ reservedKeys[s][k] = NoEntry
         /\ archive[s][k] = NoEntry
         /\ storing[s][k] = NoEntry
    /\ reservedKeys[s][k] \in PSK =>
         archive[s][k] = NoEntry /\ storing[s][k] = NoEntry
    /\ archive[s][k] # NoEntry => storing[s][k] = NoEntry

\* The ids not given to any key yet hold no key; a placeholder may wait there.
FreshIds ==
  \A s \in Sites, k \in Ids :
    k >= nextKeyId[s] =>
      /\ unusedKeys[s][k] = NoEntry
      /\ reservedKeys[s][k] \notin PSK
      /\ archive[s][k] = NoEntry
      /\ storing[s][k] = NoEntry

\* The ids under which a map holds v, and the entries of a log which are v.
InMap(name, map, v) == {<<name, k>> : k \in {i \in Ids : map[i] = v}}
InLog(name, log, v) ==
  UNION {{<<name, k, n>> : n \in {i \in DOMAIN log[k] : log[k][i] = v}} : k \in DOMAIN log}

\* Where key value v is, or has gone, at site s.
Places(s, v) ==
  InMap("unused", unusedKeys[s], v) \union InMap("reserved", reservedKeys[s], v) \union
  InMap("archive", archive[s], v)   \union InMap("storing", storing[s], v)       \union
  InLog("issued", issued[s], v)     \union InLog("redeemed", redeemed[s], v)

\* "Once a key has been retrieved it cannot be retrieved again", by either call
\* and whatever it passed through: a key is in one map of its end or has left it
\* once, across clashes, lost RPCs and restarts.
OnePlacePerKey ==
  \A s \in Sites, v \in PSK : Cardinality(Places(s, v)) <= 1

\* Without a restart no key which arrived vanishes: it is held or was given out.
NoKeyLost ==
  restarts = 0 =>
    \A s \in Sites, d \in Devices : \A n \in 1..delivered[s][d] :
      Places(s, Stream[d][n]) # {}

\* The two applications which exchanged an id hold the same key, unless one was
\* given an empty one.
SameKeyAtBothEnds ==
  \A s \in Sites, k \in Ids :
    \A m \in DOMAIN issued[s][k], n \in DOMAIN redeemed[Peer[s]][k] :
      \/ EmptyPSK \in {issued[s][k][m], redeemed[Peer[s]][k][n]}
      \/ issued[s][k][m] = redeemed[Peer[s]][k][n]

\* A key once reserved leaves only to a caller who names its id; it is never
\* offered to another GetNewKey, whoever waits or times out.
ReservationsAreFinal ==
  [][\A s \in Sites, k \in Ids :
       (reservedKeys[s][k] \in PSK /\ reservedKeys'[s][k] # reservedKeys[s][k]) =>
         \/ restarts' # restarts
         \/ \E n \in DOMAIN issued'[s][k] : issued'[s][k][n] = reservedKeys[s][k]
         \/ \E n \in DOMAIN redeemed'[s][k] : redeemed'[s][k][n] = reservedKeys[s][k]]_vars

\* While only one end calls GetNewKey, and until a restart, every id is given out once, with a key
\* of the link, and is kept at the other end for the application to collect.
OneWayAllocation ==
  restarts = 0 =>
    \A s \in Sites, k \in Ids :
      /\ Len(issued[s][k]) <= 1
      /\ \A n \in DOMAIN issued[s][k] : issued[s][k][n] \in PSK
      /\ Redeemable(s, k) => reservedKeys[s][k] # NoEntry

Shared == INSTANCE SharedKeys WITH
  Keys <- Stream[CHOOSE d \in Devices : TRUE], Nothing <- EmptyPSK, whole <- restarts = 0

\* The two key stores keep what SharedKeys promises of a link with one pair of
\* devices: until an agent restarts both ends get the key of the id from
\* whichever call, and no end gets a key twice, whatever clashes, gets lost,
\* times out or restarts (GetNewKey, GetExistingKey).
SharesKeys == Shared!Spec

\* No call of GetNewKey hangs on two ends waiting for each other's alternatives.
EveryCallReturns ==
  \A s \in Sites, c \in Clients : (call[s][c].pc # "idle") ~> (call[s][c].pc = "idle")
==============================================================================
