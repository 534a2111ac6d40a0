------------------------------- MODULE KeyPath --------------------------------
(***************************************************************************)
(* Keys between two sites which have no link of their own, made from the    *)
(* keys of the links on a path between them                                 *)
(* (KeyManagement/KeyStores/KeyStoreFactory.cpp and the indirect part of    *)
(* KeyStore.cpp).                                                           *)
(*                                                                         *)
(* The site which wants a key takes one from its first link and asks the    *)
(* site at the far end to build the same key; that site goes back along the *)
(* path and has each site in the middle answer with two link keys combined. *)
(* A link is modelled as module KeyStore shows it: GetNewKey at one end     *)
(* reserves the key at the other, where GetExistingKey collects it once.    *)
(* A key is the set of the link keys which were XORed into it.              *)
(***************************************************************************)
EXTENDS Naturals, FiniteSets, Sequences, SequencesExt

CONSTANTS
  Calls,      \* calls of GetNewKey which need a path
  Routes,     \* the paths SetPath may be given, with both ends
  MaxKeys,    \* bound: how many keys are taken from a link
  MaxDirect,  \* bound: how many keys a new link between the far ends makes
  MaxLost     \* bound: how many messages do not get through

ASSUME RouteAssumption == \A p \in Routes : p \in Seq(STRING) /\ Len(p) > 2
ASSUME BoundAssumption == MaxKeys \in Nat /\ MaxDirect \in 0..MaxKeys /\ MaxLost \in Nat

VARIABLES
  route,     \* [Calls -> the sites of the request, or <<>>]
  at,        \* [Calls -> how far the call is]
  id,        \* [Calls -> originatingkeyid, from the first link]
  middle,    \* [Calls -> which site of the route is asked next]
  rightId,   \* [Calls -> rightKeyID]
  finalKey,  \* [Calls -> finalKey]
  result,    \* [Calls -> BOOLEAN]
  taken,     \* [Links -> Nat] how many of a link's keys have been reserved
  reserved,  \* the link keys reserved, <<site, link key>>
  far,       \* [Pairs -> [key ID -> key or Nothing]] reservedKeys of a far end
  direct,    \* [Pairs -> Nat] how many direct keys a far end was given
  unused,    \* its unusedKeys, <<pair, key ID>>
  handed,    \* what the application at a far end was given, <<pair, id, key>>
  answers,   \* history: the combined keys which were sent, and by which call
  lost       \* how much of MaxLost is used

calls == <<route, at, id, middle, rightId, finalKey, result>>
links == <<taken, reserved>>
ends  == <<far, direct, unused, handed>>
vars  == <<calls, links, ends, answers, lost>>

Link(s, t) == {s, t}
Links == UNION {{Link(p[i], p[i + 1]) : i \in 1..(Len(p) - 1)} : p \in Routes}
Pairs == {<<Last(p), Head(p)>> : p \in Routes}   \* a far end and its store
Pair(p) == <<Last(p), Head(p)>>
Ids == 1..MaxKeys
LinkKeys == [link : Links, id : Ids]
LinkKey(s, t, n) == [link |-> Link(s, t), id |-> n]

Nothing    == {}        \* no key
Xor(k, l)  == (k \ l) \union (l \ k)
DirectKeys == [pair : Pairs, direct : 1..MaxDirect]

\* GetNewKey of a link, at site s, whose other end is t.  It may also fail at any
\* time: no key comes in time, or none can be reserved at t.

\* Mutant: a key ID is counted on before it is used.
NextKey_OneAhead(s, t) == LinkKey(s, t, taken[Link(s, t)] + 2)

NextKey(s, t) == LinkKey(s, t, taken[Link(s, t)] + 1)

\* Mutant: the key stays among the unused ones.
Take_Leaves(s, t, others) ==
  /\ taken[Link(s, t)] < MaxKeys /\ UNCHANGED taken
  /\ reserved' = (reserved \union {<<t, NextKey(s, t)>>}) \ others

Take(s, t, others) ==
  /\ taken[Link(s, t)] < MaxKeys
  /\ taken' = [taken EXCEPT ![Link(s, t)] = @ + 1]
  /\ reserved' = (reserved \union {<<t, NextKey(s, t)>>}) \ others

Lose == lost < MaxLost /\ lost' = lost + 1
Goes(r, place) == at' = [at EXCEPT ![r] = place]

Init ==
  /\ route = [r \in Calls |-> <<>>] /\ at = [r \in Calls |-> "none"]
  /\ id = [r \in Calls |-> 0] /\ middle = [r \in Calls |-> 0] /\ rightId = [r \in Calls |-> 0]
  /\ finalKey = [r \in Calls |-> {}] /\ result = [r \in Calls |-> FALSE]
  /\ taken = [l \in Links |-> 0] /\ reserved = {}
  /\ far = [q \in Pairs |-> [n \in Ids |-> Nothing]]
  /\ direct = [q \in Pairs |-> 0] /\ unused = {}
  /\ handed = {} /\ answers = {} /\ lost = 0

-----------------------------------------------------------------------------
(* Keys of a direct link.                                                    *)

\* OnKeyGeneration at a far end: it numbers its direct keys from 1, and one
\* whose ID is reserved takes the place of what is there.
DirectKey(q) ==
  LET n == direct[q] + 1 IN
  /\ n <= MaxDirect /\ direct' = [direct EXCEPT ![q] = n]
  /\ IF far[q][n] = Nothing
     THEN unused' = unused \union {<<q, n>>} /\ UNCHANGED far
     ELSE far' = [far EXCEPT ![q][n] = {[pair |-> q, direct |-> n]}] /\ UNCHANGED unused
  /\ UNCHANGED <<calls, links, handed, answers, lost>>

-----------------------------------------------------------------------------
(* The site which wants a key: GetNewKey and GetNewIndirectKey.              *)

\* There is no direct key.  The first link's key is the key.
GetNewIndirectKey(r, p) ==
  /\ at[r] = "none" /\ route' = [route EXCEPT ![r] = p]
  /\ Goes(r, "build")
  /\ id' = [id EXCEPT ![r] = NextKey(p[1], p[2]).id]
  /\ Take(p[1], p[2], {})
  /\ UNCHANGED <<middle, rightId, finalKey, result, ends, answers, lost>>

NoFirstKey(r, p) ==
  /\ at[r] = "none"
  /\ Goes(r, "done") /\ route' = [route EXCEPT ![r] = p]
  /\ UNCHANGED <<id, middle, rightId, finalKey, result, links, ends, answers, lost>>

\* BuildXorKey does not get through, or its answer does not.
CallLost(r) ==
  /\ at[r] \in {"build", "answer"} /\ Lose
  /\ Goes(r, "done") /\ result' = [result EXCEPT ![r] = FALSE]
  /\ UNCHANGED <<route, id, middle, rightId, finalKey, links, ends, answers>>

Return(r) ==
  /\ at[r] = "answer" /\ Goes(r, "done")
  /\ UNCHANGED <<route, id, middle, rightId, finalKey, result, links, ends, answers, lost>>

-----------------------------------------------------------------------------
(* The far end: BuildXorKey.                                                 *)

\* A new key of its own link, from which it goes back along the path.
BuildXorKey(r) ==
  LET p == route[r]  n == Len(p) IN
  /\ at[r] = "build" /\ Goes(r, "combine")
  /\ finalKey' = [finalKey EXCEPT ![r] = {NextKey(p[n], p[n - 1])}]
  /\ rightId' = [rightId EXCEPT ![r] = NextKey(p[n], p[n - 1]).id]
  /\ middle' = [middle EXCEPT ![r] = n - 1]
  /\ Take(p[n], p[n - 1], {})
  /\ UNCHANGED <<route, id, result, ends, answers, lost>>

NoOwnKey(r) ==
  /\ at[r] = "build" /\ Goes(r, "answer")
  /\ UNCHANGED <<route, id, middle, rightId, finalKey, result, links, ends, answers, lost>>

\* GetCombinedKey at the site in the middle: the left key is the one which the
\* request names if the left site is the first one, and a new one if not.
RightKey(r) == LET p == route[r]  m == middle[r] IN LinkKey(p[m], p[m + 1], rightId[r])
LeftKey(r) ==
  LET p == route[r]  m == middle[r] IN
  IF m = 2 THEN LinkKey(p[1], p[2], id[r]) ELSE NextKey(p[m], p[m - 1])

\* Mutant: the right key is looked up and stays reserved.
GetCombinedKey_LooksUp(r) ==
  LET p == route[r]
      m == middle[r]
  IN
  /\ at[r] = "combine" /\ <<p[m], RightKey(r)>> \in reserved
  /\ IF m = 2
     THEN /\ <<p[2], LeftKey(r)>> \in reserved
          /\ reserved' = reserved \ {<<p[2], LeftKey(r)>>} /\ UNCHANGED taken
     ELSE Take(p[m], p[m - 1], {})
  /\ answers' = answers \union {[call |-> r, key |-> {LeftKey(r), RightKey(r)}]}

GetCombinedKey(r) ==
  LET p == route[r]
      m == middle[r]
      mine == {<<p[m], RightKey(r)>>}
  IN
  /\ at[r] = "combine" /\ <<p[m], RightKey(r)>> \in reserved
  /\ IF m = 2
     THEN /\ <<p[2], LeftKey(r)>> \in reserved
          /\ reserved' = reserved \ (mine \union {<<p[2], LeftKey(r)>>})
          /\ UNCHANGED taken
     ELSE Take(p[m], p[m - 1], mine)
  /\ answers' = answers \union {[call |-> r, key |-> {LeftKey(r), RightKey(r)}]}

\* Mutant: the loop goes one site too far.
DoCombinedKey_OneMore(r) ==
  /\ GetCombinedKey(r)
  /\ finalKey' = [finalKey EXCEPT ![r] = Xor(@, {LeftKey(r), RightKey(r)})]
  /\ rightId' = [rightId EXCEPT ![r] = LeftKey(r).id]
  /\ middle' = [middle EXCEPT ![r] = @ - 1]
  /\ Goes(r, IF middle[r] = 1 THEN "store" ELSE "combine")
  /\ result' = [result EXCEPT ![r] = middle[r] = 1]
  /\ UNCHANGED <<route, id, ends, lost>>

\* The answer comes back: the loop goes on, or ends with the result.
DoCombinedKey(r) ==
  /\ GetCombinedKey(r)
  /\ finalKey' = [finalKey EXCEPT ![r] = Xor(@, {LeftKey(r), RightKey(r)})]
  /\ rightId' = [rightId EXCEPT ![r] = LeftKey(r).id]
  /\ middle' = [middle EXCEPT ![r] = @ - 1]
  /\ Goes(r, IF middle[r] = 2 THEN "store" ELSE "combine")
  /\ result' = [result EXCEPT ![r] = middle[r] = 2]
  /\ UNCHANGED <<route, id, ends, lost>>

\* Mutant: the result of the loop is not looked at.
CombineFails_Unseen(r) ==
  /\ at[r] = "combine" /\ Goes(r, "store") /\ Lose
  /\ result' = [result EXCEPT ![r] = TRUE]
  /\ UNCHANGED <<route, id, middle, rightId, finalKey, links, answers, ends>>

\* A request or an answer is lost, or the middle has no key to the left: the
\* loop breaks off.  The middle may have used its keys up.
CombineFails(r) ==
  /\ at[r] = "combine" /\ Goes(r, "store")
  /\ \/ Lose /\ GetCombinedKey(r)
     \/ Lose /\ UNCHANGED <<links, answers>>
     \/ middle[r] > 2 /\ UNCHANGED <<links, answers, lost>>
  /\ UNCHANGED <<route, id, middle, rightId, finalKey, result, ends>>

\* Whatever has been combined is stored, over what the ID held.
StoreReservedKey(r) ==
  LET q == Pair(route[r]) IN
  /\ at[r] = "store" /\ Goes(r, "answer")
  /\ IF <<q, id[r]>> \in unused
     THEN result' = [result EXCEPT ![r] = FALSE] /\ UNCHANGED far
     ELSE far' = [far EXCEPT ![q][id[r]] = finalKey[r]] /\ UNCHANGED result
  /\ UNCHANGED <<route, id, middle, rightId, finalKey, links, direct, unused, handed, answers, lost>>

\* An application at the far end asks for the key by its ID.
GetExistingKey(q, n) ==
  /\ far[q][n] # Nothing /\ far' = [far EXCEPT ![q][n] = Nothing]
  /\ handed' = handed \union {[pair |-> q, id |-> n, key |-> far[q][n]]}
  /\ UNCHANGED <<calls, links, direct, unused, answers, lost>>

-----------------------------------------------------------------------------
CallStep(r) ==
  \/ \E p \in Routes : GetNewIndirectKey(r, p) \/ NoFirstKey(r, p)
  \/ BuildXorKey(r) \/ NoOwnKey(r) \/ DoCombinedKey(r) \/ CombineFails(r)
  \/ StoreReservedKey(r) \/ Return(r) \/ CallLost(r)

Next ==
  \/ \E r \in Calls : CallStep(r)
  \/ \E q \in Pairs : DirectKey(q) \/ \E n \in Ids : GetExistingKey(q, n)

\* A call which was made goes on: every wait in it has a time limit.
Goon(r) == at[r] # "none" /\ CallStep(r)
Spec == Init /\ [][Next]_vars /\ \A r \in Calls : WF_vars(Goon(r))

-----------------------------------------------------------------------------
TypeOK ==
  /\ route \in [Calls -> Routes \union {<<>>}]
  /\ at \in [Calls -> {"none", "build", "combine", "store", "answer", "done"}]
  /\ id \in [Calls -> 0..MaxKeys] /\ rightId \in [Calls -> 0..MaxKeys]
  /\ middle \in [Calls -> Nat] /\ result \in [Calls -> BOOLEAN]
  /\ finalKey \in [Calls -> SUBSET LinkKeys]
  /\ taken \in [Links -> 0..MaxKeys]
  /\ reserved \subseteq (UNION Links) \X LinkKeys
  /\ far \in [Pairs -> [Ids -> SUBSET (LinkKeys \union DirectKeys)]]
  /\ direct \in [Pairs -> 0..MaxDirect] /\ unused \subseteq Pairs \X Ids
  /\ lost \in 0..MaxLost

\* The key the caller is given: the one of its first link.
Given(r) == {LinkKey(route[r][1], route[r][2], id[r])}
Succeeded(r) == at[r] = "done" /\ result[r]

\* No other key has this call's ID in the store of the far end: they are
\* numbered by the first link of a path, or by the direct link.
OwnId(r) ==
  /\ id[r] > direct[Pair(route[r])]
  /\ \A s \in Calls \ {r} : at[s] # "none" /\ Pair(route[s]) = Pair(route[r]) => id[s] # id[r]

\* A key which a call was given is the key its ID has at the far end, whatever
\* else is built at the same time and however much gets lost
\* (KeyStore::GetNewIndirectKey, KeyStoreFactory::BuildXorKey), as long as
\* nothing else is stored there under the same ID.
PathKeysAgree ==
  \A r \in Calls : Succeeded(r) /\ OwnId(r) =>
    LET q == Pair(route[r]) IN
    /\ far[q][id[r]] \in {Given(r), Nothing}
    /\ \A h \in handed : h.pair = q /\ h.id = id[r] => h.key = Given(r)

\* Keys combined: what an odd number of them have in common.
XorAll(keys) ==
  {k \in UNION {keys[i] : i \in DOMAIN keys} :
     Cardinality({i \in DOMAIN keys : k \in keys[i]}) % 2 = 1}

\* The combined keys which were sent over the network say nothing of the keys
\* the calls were given: neither one of these nor how two of them differ can be
\* put together from answers, whatever was lost or built at the same time
\* (GetCombinedKey, the link keys it draws and the ones it collects).
AnswersTellNothing ==
  \A some \in SUBSET {r \in Calls : id[r] > 0}, sent \in SUBSET answers :
    some # {} => XorAll([a \in sent |-> a.key]) # XorAll([r \in some |-> Given(r)])

\* A call which succeeded has used up every link key it drew: none stays
\* reserved in the middle (GetCombinedKey, GetExistingKey).
NothingLeftBehind ==
  \A r \in Calls : Succeeded(r) =>
    \A a \in answers : a.call = r => \A k \in a.key : \A s \in k.link : <<s, k>> \notin reserved

\* Every call returns.
EveryCallReturns == \A r \in Calls : at[r] # "none" ~> at[r] = "done"
===============================================================================
