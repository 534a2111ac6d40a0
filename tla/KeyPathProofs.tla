---------------------------- MODULE KeyPathProofs -----------------------------
(***************************************************************************)
(* Theorems about keys built along a path, for paths of any length, any      *)
(* number of calls which share links, and any number of lost messages.       *)
(***************************************************************************)
EXTENDS KeyPath, FiniteSetTheorems, TLAPS

\* The link key a call began with.
FirstKey(r) == LinkKey(route[r][1], route[r][2], id[r])

\* A link key which was taken from its link already.
Known(k) == k \in LinkKeys /\ k.id <= taken[k.link]

\* Where a link key is reserved: nowhere, or at one site at most.
Free(k)      == \A s \in UNION Links : <<s, k>> \notin reserved
OnlyAt(k, s) == \A t \in UNION Links : <<t, k>> \in reserved => t = s

\* How far a call is: what it has combined is the key to the right of the site it
\* asks next, and in the end the key it began with.
CallInv(r) ==
  /\ at[r] # "none" => route[r] \in Routes
  /\ at[r] \in {"none", "build", "combine"} => ~result[r]
  /\ result[r] => finalKey[r] = Given(r)
  /\ at[r] \in {"build", "combine"} => Known(FirstKey(r)) /\ OnlyAt(FirstKey(r), route[r][2])
  /\ at[r] = "combine" =>
       /\ middle[r] \in 2..(Len(route[r]) - 1)
       /\ Known(RightKey(r)) /\ OnlyAt(RightKey(r), route[r][middle[r]])
       /\ RightKey(r) # FirstKey(r) /\ finalKey[r] = {RightKey(r)}

\* The keys in answers of a call which gets on are used up, but for the one its next
\* answer uses.
Spent(a) ==
  /\ a.call \in Calls /\ at[a.call] \notin {"none", "build"}
  /\ \A k \in a.key :
       /\ Known(k)
       /\ at[a.call] = "combine" \/ result[a.call] =>
            Free(k) \/ (at[a.call] = "combine" /\ k = RightKey(a.call))

\* A key of a far end is a direct one or what a call with its ID has combined.
Stored(q, n, key) ==
  \/ n <= direct[q]
  \/ \E s \in Calls : /\ at[s] \in {"answer", "done"} /\ Pair(route[s]) = q /\ id[s] = n
                      /\ key = finalKey[s]
FarInv ==
  /\ \A q \in Pairs : \A n \in Ids : far[q][n] # Nothing => Stored(q, n, far[q][n])
  /\ \A h \in handed : h.pair \in Pairs /\ h.id \in Ids /\ Stored(h.pair, h.id, h.key)

IInv ==
  /\ TypeOK /\ \A r \in Calls : CallInv(r)
  /\ \A x \in reserved : Known(x[2])
  /\ \A a \in answers : Spent(a)
  /\ FarInv

-----------------------------------------------------------------------------
(* Paths, and keys taken from a link.                                        *)

\* Neighbours on a path have a link, whichever is named first.
LEMMA Neighbours ==
  ASSUME NEW p \in Routes
  PROVE  /\ Len(p) \in Nat /\ Len(p) > 2 /\ Pair(p) \in Pairs
         /\ \A i \in 1..(Len(p) - 1) : Link(p[i], p[i + 1]) \in Links /\ Link(p[i + 1], p[i]) \in Links
         /\ \A i \in 1..Len(p) : p[i] \in UNION Links
<1>1. p \in Seq(STRING) /\ Len(p) > 2 BY RouteAssumption
<1>2. Len(p) \in Nat BY <1>1
<1>3. Pair(p) \in Pairs BY DEF Pair, Pairs
<1>4. \A s, t : Link(s, t) = Link(t, s) BY DEF Link
<1>5. ASSUME NEW i \in 1..(Len(p) - 1) PROVE Link(p[i], p[i + 1]) \in Links
  <2>1. Link(p[i], p[i + 1]) \in {Link(p[j], p[j + 1]) : j \in 1..(Len(p) - 1)} OBVIOUS
  <2> QED BY <2>1 DEF Links
<1>6. ASSUME NEW i \in 1..Len(p) PROVE p[i] \in UNION Links
  <2>1. CASE i < Len(p)
    <3>1. i \in 1..(Len(p) - 1) BY <1>2, <2>1
    <3>2. p[i] \in Link(p[i], p[i + 1]) BY DEF Link
    <3> QED BY <3>1, <3>2, <1>5
  <2>2. CASE i = Len(p)
    <3>1. i - 1 \in 1..(Len(p) - 1) /\ (i - 1) + 1 = i BY <1>1, <1>2, <2>2
    <3>2. p[i] \in Link(p[i - 1], p[i]) BY DEF Link
    <3>3. Link(p[i - 1], p[(i - 1) + 1]) \in Links BY <3>1, <1>5
    <3> QED BY <3>1, <3>2, <3>3
  <2> QED BY <1>2, <2>1, <2>2
<1> QED BY <1>1, <1>2, <1>3, <1>4, <1>5, <1>6

\* A step which takes no key but new ones: what is known stays known.
Grows ==
  /\ \A k : Known(k) => Known(k)'
  /\ \A s, k : <<s, k>> \in reserved' => <<s, k>> \in reserved \/ ~Known(k)

\* The key which is taken is a new one.
LEMMA TakeFacts ==
  ASSUME taken \in [Links -> 0..MaxKeys], reserved \subseteq (UNION Links) \X LinkKeys,
         NEW s, NEW t \in UNION Links, Link(s, t) \in Links, NEW others, Take(s, t, others),
         \A x \in reserved : Known(x[2]), NEW k, k = NextKey(s, t)
  PROVE  /\ k \in LinkKeys /\ ~Known(k) /\ Known(k)'
         /\ \A x : <<x, k>> \notin reserved
         /\ k.id \in Ids /\ k = LinkKey(s, t, k.id)
         /\ taken' \in [Links -> 0..MaxKeys] /\ reserved' \subseteq (UNION Links) \X LinkKeys
         /\ reserved' = (reserved \union {<<t, k>>}) \ others
         /\ Grows /\ \A x \in reserved' : Known(x[2])'
<1> DEFINE l == Link(s, t)
<1>1. /\ taken[l] \in 0..MaxKeys /\ taken[l] < MaxKeys /\ taken' = [taken EXCEPT ![l] = taken[l] + 1]
      /\ reserved' = (reserved \union {<<t, k>>}) \ others /\ l \in Links
  BY DEF Take
<1>2. k = [link |-> l, id |-> taken[l] + 1] BY DEF NextKey, LinkKey
<1>3. taken[l] \in Nat /\ taken[l] + 1 \in Ids BY <1>1, BoundAssumption DEF Ids
<1> HIDE DEF l
<1>4. k \in LinkKeys /\ k.id = taken[l] + 1 /\ k.link = l BY <1>1, <1>2, <1>3 DEF LinkKeys
<1>5. taken' \in [Links -> 0..MaxKeys] /\ taken'[l] = taken[l] + 1
  BY <1>1, <1>3, BoundAssumption
<1>6. ~Known(k) BY <1>3, <1>4 DEF Known
<1>7. Known(k)' BY <1>3, <1>4, <1>5 DEF Known
<1>8. ASSUME NEW j, Known(j) PROVE Known(j)'
  <2>1. j \in LinkKeys /\ j.id <= taken[j.link] /\ j.link \in Links /\ j.id \in Nat
    BY <1>8, BoundAssumption DEF Known, LinkKeys, Ids
  <2>2. CASE j.link = l BY <2>1, <2>2, <1>3, <1>5 DEF Known
  <2>3. CASE j.link # l
    <3>1. taken'[j.link] = taken[j.link] BY <2>1, <2>3, <1>1
    <3> QED BY <2>1, <3>1 DEF Known
  <2> QED BY <2>2, <2>3
<1>9. Grows
  <2>1. ASSUME NEW y, NEW j, <<y, j>> \in reserved' PROVE <<y, j>> \in reserved \/ ~Known(j)
    BY <2>1, <1>1, <1>6
  <2> QED BY <1>8, <2>1 DEF Grows
<1>10. \A x \in reserved' : Known(x[2])'
  <2> SUFFICES ASSUME NEW x \in reserved' PROVE Known(x[2])' OBVIOUS
  <2>1. CASE x \in reserved
    <3> DEFINE j == x[2]
    <3>1. Known(x[2]) BY <2>1
    <3> QED BY <3>1, <1>8
  <2>2. CASE x = <<t, k>> BY <2>2, <1>7
  <2> QED BY <2>1, <2>2, <1>1
<1>11. reserved' \subseteq (UNION Links) \X LinkKeys BY <1>1, <1>4
<1>12. ASSUME NEW x PROVE <<x, k>> \notin reserved
  BY <1>6
<1> QED BY <1>1, <1>2, <1>3, <1>4, <1>5, <1>6, <1>7, <1>9, <1>10, <1>11, <1>12 DEF l, LinkKey

\* A step which takes no key.
LEMMA NoTake ==
  ASSUME taken' = taken, reserved' \subseteq reserved, \A x \in reserved : Known(x[2])
  PROVE  Grows /\ \A x \in reserved' : Known(x[2])'
<1>1. \A k : Known(k)' <=> Known(k) BY DEF Known
<1> QED BY <1>1 DEF Grows

-----------------------------------------------------------------------------
(* What a step leaves alone.                                                 *)

Same(x) ==
  /\ route'[x] = route[x] /\ at'[x] = at[x] /\ id'[x] = id[x] /\ middle'[x] = middle[x]
  /\ rightId'[x] = rightId[x] /\ finalKey'[x] = finalKey[x] /\ result'[x] = result[x]

\* A call which takes no step stays where it is.
LEMMA OtherCall ==
  ASSUME NEW x \in Calls, Same(x), Grows, CallInv(x)
  PROVE  CallInv(x)'
<1>1. FirstKey(x)' = FirstKey(x) /\ RightKey(x)' = RightKey(x) /\ Given(x)' = Given(x)
  BY DEF Same, FirstKey, RightKey, Given, LinkKey
<1>2. ASSUME NEW k, NEW s, Known(k), OnlyAt(k, s) PROVE Known(k)' /\ OnlyAt(k, s)'
  BY <1>2 DEF Grows, OnlyAt
<1>3. ASSUME at[x] \in {"build", "combine"}
      PROVE  Known(FirstKey(x))' /\ OnlyAt(FirstKey(x), route[x][2])'
  <2>1. Known(FirstKey(x)) /\ OnlyAt(FirstKey(x), route[x][2]) BY <1>3 DEF CallInv
  <2> HIDE DEF FirstKey
  <2>2. \A t \in UNION Links : <<t, FirstKey(x)>> \in reserved' => t = route[x][2]
    BY <2>1 DEF Grows, OnlyAt
  <2>3. Known(FirstKey(x)') /\ Known(FirstKey(x))' BY <2>1, <1>1 DEF Grows, Known
  <2> QED BY <2>2, <2>3, <1>1 DEF OnlyAt, Same
<1>4. ASSUME at[x] = "combine"
      PROVE  Known(RightKey(x))' /\ OnlyAt(RightKey(x), route[x][middle[x]])'
  <2>1. Known(RightKey(x)) /\ OnlyAt(RightKey(x), route[x][middle[x]]) BY <1>4 DEF CallInv
  <2>2. \A t \in UNION Links : <<t, RightKey(x)>> \in reserved' => t = route[x][middle[x]]
    BY <2>1 DEF Grows, OnlyAt
  <2>3. Known(RightKey(x))' BY <2>1, <1>1 DEF Grows, Known
  <2> QED BY <2>2, <2>3, <1>1 DEF OnlyAt, Same
<1> QED BY <1>1, <1>3, <1>4 DEF CallInv, Same

\* A key which a call has used up stays so.
LEMMA OtherAnswer ==
  ASSUME NEW a, Spent(a), Same(a.call), Grows
  PROVE  Spent(a)'
<1>1. RightKey(a.call)' = RightKey(a.call) BY DEF Same, RightKey, LinkKey
<1>2. ASSUME NEW k \in a.key
      PROVE  /\ Known(k)'
             /\ at'[a.call] = "combine" \/ result'[a.call] =>
                  Free(k)' \/ (at'[a.call] = "combine" /\ k = RightKey(a.call)')
  <2>1. Known(k) /\ Known(k)' BY DEF Spent, Grows
  <2>2. Free(k) => Free(k)' BY <2>1 DEF Free, Grows
  <2> QED BY <1>1, <2>1, <2>2 DEF Spent, Same
<1> QED BY <1>2 DEF Spent, Same

\* A call which has no answer to use keeps what it has used up.
LEMMA SpentNext ==
  ASSUME NEW a, Spent(a), Grows,
         at[a.call] # "combine", at'[a.call] \notin {"none", "build", "combine"},
         result'[a.call] => result[a.call]
  PROVE  Spent(a)'
<1>1. ASSUME NEW k \in a.key PROVE Known(k)' /\ (result'[a.call] => Free(k)')
  <2>1. Known(k) /\ Known(k)' BY DEF Spent, Grows
  <2>2. Free(k) => Free(k)' BY <2>1 DEF Free, Grows
  <2> QED BY <2>1, <2>2 DEF Spent
<1> QED BY <1>1 DEF Spent

\* A call without a result needs no key of its answers to be used up.
LEMMA SpentIdle ==
  ASSUME NEW a, Spent(a), Grows, at'[a.call] \notin {"none", "build", "combine"}, ~result'[a.call]
  PROVE  Spent(a)'
<1>1. ASSUME NEW k \in a.key PROVE Known(k)'
  BY DEF Spent, Grows
<1> QED BY <1>1 DEF Spent

\* What is stored at a far end stays accounted for.
Lasts(s) ==
  at[s] \in {"answer", "done"} =>
    /\ at'[s] \in {"answer", "done"}
    /\ route'[s] = route[s] /\ id'[s] = id[s] /\ finalKey'[s] = finalKey[s]

LEMMA StoredLasts ==
  ASSUME NEW q, NEW n, NEW key, Stored(q, n, key), n <= direct[q] => n <= direct'[q],
         \A s \in Calls : Lasts(s)
  PROVE  Stored(q, n, key)'
<1>1. CASE n <= direct[q] BY <1>1 DEF Stored
<1>2. ASSUME NEW s \in Calls, at[s] \in {"answer", "done"}, Pair(route[s]) = q, id[s] = n, key = finalKey[s]
      PROVE  Stored(q, n, key)'
  BY <1>2 DEF Stored, Lasts
<1> QED BY <1>1, <1>2 DEF Stored

LEMMA FarLasts ==
  ASSUME FarInv, UNCHANGED ends, \A s \in Calls : Lasts(s)
  PROVE  FarInv'
<1>1. far' = far /\ handed' = handed /\ direct' = direct BY DEF ends
<1>2. ASSUME NEW q \in Pairs, NEW n \in Ids, far'[q][n] # Nothing PROVE Stored(q, n, far[q][n])'
  <2> DEFINE key == far[q][n]
  <2>1. Stored(q, n, far[q][n]) BY <1>1, <1>2 DEF FarInv
  <2>2. PICK w : w = far[q][n] OBVIOUS
  <2>3. far'[q][n] = w BY <1>1, <2>2
  <2>4. Stored(q, n, w)' BY <1>1, <2>1, <2>2, StoredLasts
  <2> QED BY <2>2, <2>3, <2>4 DEF Stored
<1>3. ASSUME NEW h \in handed PROVE Stored(h.pair, h.id, h.key)'
  BY <1>1, <1>3, StoredLasts DEF FarInv
<1> QED BY <1>1, <1>2, <1>3 DEF FarInv, Stored

-----------------------------------------------------------------------------
(* The steps of a call.                                                      *)

\* What is to be shown of a step of the call r.
LEMMA OneCall ==
  ASSUME IInv, NEW r \in Calls, Grows, \A x \in Calls \ {r} : Same(x),
         TypeOK', CallInv(r)', \A x \in reserved' : Known(x[2])',
         \A a \in answers' : a \in answers \/ a.call = r,
         \A a \in answers' : a.call = r => Spent(a)', FarInv'
  PROVE  IInv'
<1>1. ASSUME NEW x \in Calls PROVE CallInv(x)'
  BY OtherCall DEF IInv
<1>2. ASSUME NEW a \in answers' PROVE Spent(a)'
  <2>1. CASE a.call = r BY <2>1
  <2>2. CASE a.call # r
    <3>1. Spent(a) BY <2>2 DEF IInv
    <3>2. Same(a.call) BY <2>2, <3>1 DEF Spent
    <3> QED BY <3>1, <3>2, OtherAnswer
  <2> QED BY <2>1, <2>2
<1> QED BY <1>1, <1>2 DEF IInv

\* The types of a call's own variables, and the others.
LEMMA Types ==
  ASSUME TypeOK
  PROVE  /\ route \in [Calls -> Routes \union {<<>>}]
         /\ at \in [Calls -> {"none", "build", "combine", "store", "answer", "done"}]
         /\ id \in [Calls -> 0..MaxKeys] /\ rightId \in [Calls -> 0..MaxKeys]
         /\ middle \in [Calls -> Nat] /\ result \in [Calls -> BOOLEAN]
         /\ finalKey \in [Calls -> SUBSET LinkKeys]
         /\ taken \in [Links -> 0..MaxKeys]
         /\ reserved \subseteq (UNION Links) \X LinkKeys
  BY DEF TypeOK

\* A call which begins takes the first link's key.
LEMMA BeginStep ==
  ASSUME IInv, NEW r \in Calls, NEW p \in Routes, GetNewIndirectKey(r, p)
  PROVE  IInv'
<1>1. TypeOK /\ CallInv(r) /\ (\A x \in reserved : Known(x[2])) /\ FarInv BY DEF IInv
<1>2. /\ at[r] = "none" /\ route' = [route EXCEPT ![r] = p] /\ at' = [at EXCEPT ![r] = "build"]
      /\ Take(p[1], p[2], {})
      /\ UNCHANGED <<middle, rightId, finalKey, result, ends, answers, lost>>
  BY DEF GetNewIndirectKey, Goes
<1>3. PICK k : k = NextKey(p[1], p[2]) OBVIOUS
<1>4. id' = [id EXCEPT ![r] = k.id] BY <1>3 DEF GetNewIndirectKey
<1>5. /\ Len(p) \in Nat /\ Len(p) > 2 /\ 1 + 1 = 2 /\ 1 \in 1..(Len(p) - 1) /\ 2 \in 1..Len(p)
      /\ Link(p[1], p[2]) \in Links /\ p[2] \in UNION Links
  BY Neighbours
<1>6. /\ k \in LinkKeys /\ ~Known(k) /\ Known(k)'
      /\ \A x : <<x, k>> \notin reserved
      /\ k.id \in Ids /\ k = LinkKey(p[1], p[2], k.id)
      /\ taken' \in [Links -> 0..MaxKeys] /\ reserved' \subseteq (UNION Links) \X LinkKeys
      /\ reserved' = (reserved \union {<<p[2], k>>}) \ {}
      /\ Grows /\ \A x \in reserved' : Known(x[2])'
  <2>1. taken \in [Links -> 0..MaxKeys] /\ reserved \subseteq (UNION Links) \X LinkKeys
    BY <1>1, Types
  <2> QED BY <1>1, <1>2, <1>3, <1>5, <2>1, TakeFacts
<1>7. /\ route'[r] = p /\ at'[r] = "build" /\ id'[r] = k.id /\ result'[r] = result[r]
      /\ \A x \in Calls \ {r} : Same(x)
  BY <1>1, <1>2, <1>4, Types DEF Same
<1>8. TypeOK'
  <2>1. /\ route' \in [Calls -> Routes \union {<<>>}]
        /\ at' \in [Calls -> {"none", "build", "combine", "store", "answer", "done"}]
    BY <1>1, <1>2, Types
  <2>2. id' \in [Calls -> 0..MaxKeys]
    BY <1>1, <1>4, <1>6, Types, BoundAssumption DEF Ids
  <2> QED BY <1>1, <1>2, <1>6, <2>1, <2>2 DEF TypeOK, ends
<1>9. CallInv(r)'
  <2>1. FirstKey(r)' = k BY <1>6, <1>7 DEF FirstKey
  <2>2. OnlyAt(k, p[2])' BY <1>6 DEF OnlyAt
  <2>3. ~result'[r] BY <1>1, <1>2, <1>7 DEF CallInv
  <2>4. OnlyAt(FirstKey(r), route[r][2])' BY <1>7, <2>1, <2>2 DEF OnlyAt
  <2>5. Known(FirstKey(r))' BY <1>6, <2>1 DEF Known
  <2> QED BY <1>7, <2>3, <2>4, <2>5 DEF CallInv
<1>10. FarInv'
  <2>1. \A s \in Calls : Lasts(s) BY <1>2, <1>7 DEF Lasts, Same
  <2> QED BY <1>1, <1>2, <2>1, FarLasts
<1>11. ASSUME NEW a \in answers', a.call = r PROVE Spent(a)'
  BY <1>2, <1>11 DEF IInv, Spent
<1> QED BY <1>2, <1>6, <1>7, <1>8, <1>9, <1>10, <1>11, OneCall

\* A step which only moves a call on, and may set its result to FALSE.
Moves(r) ==
  /\ \E place \in {"build", "combine", "store", "answer", "done"} : at' = [at EXCEPT ![r] = place]
  /\ UNCHANGED <<id, middle, rightId, finalKey, links, ends, answers>>
  /\ lost' \in 0..MaxLost

LEMMA MoveStep ==
  ASSUME IInv, NEW r \in Calls, Moves(r), at'[r] \in {"store", "answer", "done"},
         at[r] \in {"answer", "done"} => at'[r] \in {"answer", "done"},
         \/ at[r] = "none" /\ UNCHANGED result /\ \E p \in Routes : route' = [route EXCEPT ![r] = p]
         \/ at[r] # "none" /\ UNCHANGED <<route, result>>
         \/ at[r] # "none" /\ UNCHANGED route /\ result' = [result EXCEPT ![r] = FALSE]
  PROVE  IInv'
<1>1. TypeOK /\ CallInv(r) /\ (\A x \in reserved : Known(x[2])) /\ FarInv BY DEF IInv
<1>2. PICK place \in {"build", "combine", "store", "answer", "done"} : at' = [at EXCEPT ![r] = place]
  BY DEF Moves
<1>3. UNCHANGED <<id, middle, rightId, finalKey, taken, reserved, ends, answers>> /\ lost' \in 0..MaxLost
  BY DEF Moves, links
<1>4. /\ route' \in [Calls -> Routes \union {<<>>}] /\ result' \in [Calls -> BOOLEAN]
      /\ \A x \in Calls \ {r} : route'[x] = route[x] /\ result'[x] = result[x]
      /\ route'[r] \in Routes /\ (result'[r] => result[r])
      /\ at[r] # "none" => route'[r] = route[r]
  BY <1>1, Types DEF CallInv
<1>5. Grows /\ \A x \in reserved' : Known(x[2])' BY <1>1, <1>3, NoTake
<1>6. (\A x \in Calls \ {r} : Same(x)) /\ at' \in [Calls -> {"none", "build", "combine", "store", "answer", "done"}]
  BY <1>1, <1>2, <1>3, <1>4, Types DEF Same
<1>7. TypeOK' BY <1>1, <1>3, <1>4, <1>6 DEF TypeOK, ends
<1>8. CallInv(r)'
  <2>1. result'[r] => at[r] # "none" BY <1>1, <1>4 DEF CallInv
  <2>2. result'[r] => Given(r)' = Given(r)
    BY <1>3, <1>4, <2>1 DEF Given, LinkKey
  <2> QED BY <1>1, <1>3, <1>4, <2>2 DEF CallInv
<1>9. \A s \in Calls : Lasts(s) BY <1>3, <1>4, <1>6 DEF Lasts, Same
<1>10. FarInv' BY <1>1, <1>3, <1>9, FarLasts
<1>11. ASSUME NEW a \in answers', a.call = r PROVE Spent(a)'
  <2>1. Spent(a) BY <1>3 DEF IInv
  <2>2. CASE at[r] = "combine"
    <3>1. ~result'[r] BY <1>1, <1>4, <2>2 DEF CallInv
    <3> QED BY <1>5, <1>11, <2>1, <3>1, SpentIdle
  <2>3. CASE at[r] # "combine" BY <1>4, <1>5, <1>11, <2>1, <2>3, SpentNext
  <2> QED BY <2>2, <2>3
<1> QED BY <1>3, <1>5, <1>6, <1>7, <1>8, <1>10, <1>11, OneCall

\* The steps of a call which take and store no key.
LEMMA IdleSteps ==
  ASSUME IInv, NEW r \in Calls,
         \/ \E p \in Routes : NoFirstKey(r, p)
         \/ NoOwnKey(r) \/ Return(r) \/ CallLost(r)
  PROVE  IInv'
<1>1. at \in [Calls -> {"none", "build", "combine", "store", "answer", "done"}] /\ lost \in 0..MaxLost
  BY DEF IInv, TypeOK
<1>2. CASE \E p \in Routes : NoFirstKey(r, p)
  <2>1. PICK p \in Routes : NoFirstKey(r, p) BY <1>2
  <2>2. at[r] = "none" /\ UNCHANGED result /\ route' = [route EXCEPT ![r] = p] /\ at' = [at EXCEPT ![r] = "done"]
    BY <2>1 DEF NoFirstKey, Goes
  <2>3. Moves(r) BY <1>1, <2>1, <2>2 DEF NoFirstKey, Moves
  <2> QED BY <1>1, <2>2, <2>3, MoveStep
<1>3. CASE NoOwnKey(r)
  <2>1. at[r] = "build" /\ UNCHANGED <<route, result>> /\ at' = [at EXCEPT ![r] = "answer"]
    BY <1>3 DEF NoOwnKey, Goes
  <2>2. Moves(r) BY <1>1, <1>3, <2>1 DEF NoOwnKey, Moves
  <2> QED BY <1>1, <2>1, <2>2, MoveStep
<1>4. CASE Return(r)
  <2>1. at[r] = "answer" /\ UNCHANGED <<route, result>> /\ at' = [at EXCEPT ![r] = "done"]
    BY <1>4 DEF Return, Goes
  <2>2. Moves(r) BY <1>1, <1>4, <2>1 DEF Return, Moves
  <2> QED BY <1>1, <2>1, <2>2, MoveStep
<1>5. CASE CallLost(r)
  <2>1. /\ at[r] \in {"build", "answer"} /\ UNCHANGED route /\ result' = [result EXCEPT ![r] = FALSE]
        /\ at' = [at EXCEPT ![r] = "done"]
    BY <1>5 DEF CallLost, Goes
  <2>2. lost' \in 0..MaxLost BY <1>1, <1>5, BoundAssumption DEF CallLost, Lose
  <2>3. Moves(r) BY <1>5, <2>1, <2>2 DEF CallLost, Moves
  <2> QED BY <1>1, <2>1, <2>3, MoveStep
<1> QED BY <1>2, <1>3, <1>4, <1>5

\* The far end takes a key of its own link.
LEMMA BuildStep ==
  ASSUME IInv, NEW r \in Calls, BuildXorKey(r)
  PROVE  IInv'
<1>1. TypeOK /\ CallInv(r) /\ (\A x \in reserved : Known(x[2])) /\ FarInv BY DEF IInv
<1>2. PICK p : p = route[r] OBVIOUS
<1>3. PICK n : n = Len(p) OBVIOUS
<1>4. PICK k : k = NextKey(p[n], p[n - 1]) OBVIOUS
<1>5. /\ at[r] = "build" /\ at' = [at EXCEPT ![r] = "combine"]
      /\ finalKey' = [finalKey EXCEPT ![r] = {k}] /\ rightId' = [rightId EXCEPT ![r] = k.id]
      /\ middle' = [middle EXCEPT ![r] = n - 1] /\ Take(p[n], p[n - 1], {})
      /\ UNCHANGED <<route, id, result, ends, answers, lost>>
  BY <1>2, <1>3, <1>4 DEF BuildXorKey, Goes
<1>6. /\ p \in Routes /\ n \in Nat /\ n > 2 /\ n - 1 \in 2..(n - 1) /\ n - 1 \in Nat /\ (n - 1) + 1 = n
      /\ Link(p[n], p[n - 1]) \in Links /\ p[n - 1] \in UNION Links
  <2>1. p \in Routes BY <1>1, <1>2, <1>5 DEF CallInv
  <2>2. n \in Nat /\ n > 2 BY <1>3, <2>1, Neighbours
  <2>3. n - 1 \in 1..(n - 1) /\ n - 1 \in 1..n /\ (n - 1) + 1 = n BY <2>2
  <2>4. Link(p[(n - 1) + 1], p[n - 1]) \in Links /\ p[n - 1] \in UNION Links
    BY <1>3, <2>1, <2>3, Neighbours
  <2> QED BY <2>1, <2>2, <2>3, <2>4
<1>7. /\ k \in LinkKeys /\ ~Known(k) /\ Known(k)'
      /\ \A x : <<x, k>> \notin reserved
      /\ k.id \in Ids /\ k = LinkKey(p[n], p[n - 1], k.id)
      /\ taken' \in [Links -> 0..MaxKeys] /\ reserved' \subseteq (UNION Links) \X LinkKeys
      /\ reserved' = (reserved \union {<<p[n - 1], k>>}) \ {}
      /\ Grows /\ \A x \in reserved' : Known(x[2])'
  <2>1. taken \in [Links -> 0..MaxKeys] /\ reserved \subseteq (UNION Links) \X LinkKeys
    BY <1>1, Types
  <2> QED BY <1>1, <1>4, <1>5, <1>6, <2>1, TakeFacts
<1>8. /\ route'[r] = p /\ at'[r] = "combine" /\ id'[r] = id[r] /\ result'[r] = result[r]
      /\ finalKey'[r] = {k} /\ rightId'[r] = k.id /\ middle'[r] = n - 1
      /\ \A x \in Calls \ {r} : Same(x)
  BY <1>1, <1>2, <1>5, Types DEF Same
<1>9. TypeOK'
  <2>1. /\ at' \in [Calls -> {"none", "build", "combine", "store", "answer", "done"}]
        /\ finalKey' \in [Calls -> SUBSET LinkKeys] /\ middle' \in [Calls -> Nat]
    BY <1>1, <1>5, <1>6, <1>7, Types
  <2>2. rightId' \in [Calls -> 0..MaxKeys]
    BY <1>1, <1>5, <1>7, Types, BoundAssumption DEF Ids
  <2> QED BY <1>1, <1>5, <1>7, <2>1, <2>2 DEF TypeOK, ends
<1>10. CallInv(r)'
  <2>1. RightKey(r)' = k
    <3>1. LinkKey(p[n - 1], p[n], k.id) = k BY <1>7 DEF LinkKey, Link
    <3> QED BY <1>6, <1>8, <3>1 DEF RightKey
  <2>2. PICK f : f = FirstKey(r) OBVIOUS
  <2>3. FirstKey(r)' = f BY <1>2, <1>8, <2>2 DEF FirstKey
  <2>4. Known(f) /\ OnlyAt(f, p[2]) BY <1>1, <1>2, <1>5, <2>2 DEF CallInv
  <2>5. Known(f)' /\ OnlyAt(f, p[2])' /\ f # k BY <1>7, <2>4 DEF Grows, OnlyAt
  <2>6. OnlyAt(k, p[n - 1])' BY <1>7 DEF OnlyAt
  <2>7. ~result'[r] BY <1>1, <1>5, <1>8 DEF CallInv
  <2>8. Known(FirstKey(r))' /\ OnlyAt(FirstKey(r), route[r][2])' BY <1>8, <2>3, <2>5 DEF Known, OnlyAt
  <2>9. Known(RightKey(r))' /\ OnlyAt(RightKey(r), route[r][middle[r]])'
    BY <1>7, <1>8, <2>1, <2>6 DEF Known, OnlyAt
  <2> QED BY <1>3, <1>6, <1>8, <2>1, <2>3, <2>5, <2>7, <2>8, <2>9 DEF CallInv
<1>11. FarInv'
  <2>1. \A s \in Calls : Lasts(s) BY <1>5, <1>8 DEF Lasts, Same
  <2> QED BY <1>1, <1>5, <2>1, FarLasts
<1>12. ASSUME NEW a \in answers', a.call = r PROVE Spent(a)'
  BY <1>5, <1>12 DEF IInv, Spent
<1> QED BY <1>5, <1>7, <1>8, <1>9, <1>10, <1>11, <1>12, OneCall

\* A site in the middle uses the key to its right up, and draws the key to its left or
\* uses up the one which the call began with.
LEMMA Combined ==
  ASSUME IInv, NEW r \in Calls, GetCombinedKey(r),
         NEW p, p = route[r], NEW m, m = middle[r],
         NEW k, k = RightKey(r), NEW l, l = LeftKey(r)
  PROVE  /\ at[r] = "combine" /\ p \in Routes /\ m \in 2..(Len(p) - 1) /\ Len(p) \in Nat
         /\ k \in LinkKeys /\ l \in LinkKeys /\ k # l /\ l.id \in Ids
         /\ Known(k)' /\ Known(l)' /\ Free(k)'
         /\ finalKey[r] = {k}
         /\ Known(FirstKey(r)) /\ OnlyAt(FirstKey(r), p[2])
         /\ m = 2 => l = FirstKey(r) /\ Free(l)'
         /\ m # 2 => ~Known(l) /\ OnlyAt(l, p[m - 1])' /\ l = LinkKey(p[m - 1], p[m], l.id)
         /\ taken' \in [Links -> 0..MaxKeys] /\ reserved' \subseteq (UNION Links) \X LinkKeys
         /\ Grows /\ \A x \in reserved' : Known(x[2])'
         /\ answers' = answers \union {[call |-> r, key |-> {l, k}]}
<1>1. TypeOK /\ CallInv(r) /\ (\A x \in reserved : Known(x[2])) BY DEF IInv
<1>2. /\ at[r] = "combine" /\ <<p[m], k>> \in reserved
      /\ answers' = answers \union {[call |-> r, key |-> {l, k}]}
  BY DEF GetCombinedKey
<1>3. /\ p \in Routes /\ m \in 2..(Len(p) - 1) /\ Known(k) /\ OnlyAt(k, p[m]) /\ finalKey[r] = {k}
      /\ Known(FirstKey(r)) /\ OnlyAt(FirstKey(r), p[2]) /\ k # FirstKey(r)
  BY <1>1, <1>2 DEF CallInv
<1>4. /\ taken \in [Links -> 0..MaxKeys] /\ reserved \subseteq (UNION Links) \X LinkKeys
      /\ Len(p) \in Nat
  BY <1>1, <1>3, Types, Neighbours
<1>5. k \in LinkKeys BY <1>3 DEF Known
<1>6. CASE m = 2
  <2>1. l = FirstKey(r) BY <1>6 DEF LeftKey, FirstKey
  <2>2. /\ reserved' = reserved \ ({<<p[m], k>>} \union {<<p[2], l>>}) /\ taken' = taken
    BY <1>6 DEF GetCombinedKey
  <2>3. Grows /\ \A x \in reserved' : Known(x[2])' BY <1>1, <2>2, NoTake
  <2>4. Free(k)' /\ Free(l)' BY <1>3, <2>1, <2>2 DEF Free, OnlyAt
  <2>5. l \in LinkKeys /\ l.id \in Ids BY <1>3, <2>1 DEF Known, LinkKeys
  <2>6. Known(k)' /\ Known(l)' BY <1>3, <2>1, <2>3 DEF Grows
  <2> QED BY <1>2, <1>3, <1>4, <1>5, <1>6, <2>1, <2>2, <2>3, <2>4, <2>5, <2>6
<1>7. CASE m # 2
  <2>1. l = NextKey(p[m], p[m - 1]) BY <1>7 DEF LeftKey
  <2>2. Take(p[m], p[m - 1], {<<p[m], k>>}) BY <1>7 DEF GetCombinedKey
  <2>3. Link(p[m], p[m - 1]) \in Links /\ p[m - 1] \in UNION Links
    <3>1. m - 1 \in 1..(Len(p) - 1) /\ m - 1 \in 1..Len(p) /\ (m - 1) + 1 = m BY <1>3, <1>4
    <3>2. Link(p[(m - 1) + 1], p[m - 1]) \in Links BY <1>3, <3>1, Neighbours
    <3> QED BY <1>3, <3>1, <3>2, Neighbours
  <2>4. /\ l \in LinkKeys /\ ~Known(l) /\ Known(l)'
        /\ \A x : <<x, l>> \notin reserved
        /\ l.id \in Ids /\ l = LinkKey(p[m], p[m - 1], l.id)
        /\ taken' \in [Links -> 0..MaxKeys] /\ reserved' \subseteq (UNION Links) \X LinkKeys
        /\ reserved' = (reserved \union {<<p[m - 1], l>>}) \ {<<p[m], k>>}
        /\ Grows /\ \A x \in reserved' : Known(x[2])'
    BY <1>1, <1>4, <2>1, <2>2, <2>3, TakeFacts
  <2>5. k # l /\ Known(k)' BY <1>3, <2>4 DEF Grows
  <2>6. Free(k)' BY <1>3, <2>4, <2>5 DEF Free, OnlyAt
  <2>7. OnlyAt(l, p[m - 1])' BY <2>4 DEF OnlyAt
  <2>8. l = LinkKey(p[m - 1], p[m], l.id) BY <2>4 DEF LinkKey, Link
  <2> QED BY <1>2, <1>3, <1>4, <1>5, <1>7, <2>4, <2>5, <2>6, <2>7, <2>8
<1> QED BY <1>6, <1>7

\* The answer comes back to the far end.
LEMMA CombineStep ==
  ASSUME IInv, NEW r \in Calls, DoCombinedKey(r)
  PROVE  IInv'
<1>1. TypeOK /\ CallInv(r) /\ FarInv BY DEF IInv
<1>2. PICK p : p = route[r] OBVIOUS
<1>3. PICK m : m = middle[r] OBVIOUS
<1>4. PICK k : k = RightKey(r) OBVIOUS
<1>5. PICK l : l = LeftKey(r) OBVIOUS
<1>6. PICK f : f = FirstKey(r) OBVIOUS
<1>7. /\ GetCombinedKey(r)
      /\ finalKey' = [finalKey EXCEPT ![r] = Xor(finalKey[r], {l, k})]
      /\ rightId' = [rightId EXCEPT ![r] = l.id] /\ middle' = [middle EXCEPT ![r] = m - 1]
      /\ at' = [at EXCEPT ![r] = IF m = 2 THEN "store" ELSE "combine"]
      /\ result' = [result EXCEPT ![r] = (m = 2)]
      /\ UNCHANGED <<route, id, ends, lost>>
  BY <1>3, <1>4, <1>5 DEF DoCombinedKey, Goes
<1>8. /\ at[r] = "combine" /\ p \in Routes /\ m \in 2..(Len(p) - 1) /\ Len(p) \in Nat
      /\ k \in LinkKeys /\ l \in LinkKeys /\ k # l /\ l.id \in Ids
      /\ Known(k)' /\ Known(l)' /\ Free(k)'
      /\ finalKey[r] = {k}
      /\ Known(f) /\ OnlyAt(f, p[2])
      /\ m = 2 => l = f /\ Free(l)'
      /\ m # 2 => ~Known(l) /\ OnlyAt(l, p[m - 1])' /\ l = LinkKey(p[m - 1], p[m], l.id)
      /\ taken' \in [Links -> 0..MaxKeys] /\ reserved' \subseteq (UNION Links) \X LinkKeys
      /\ Grows /\ \A x \in reserved' : Known(x[2])'
      /\ answers' = answers \union {[call |-> r, key |-> {l, k}]}
  <2> USE <1>2, <1>3, <1>4, <1>5, <1>6, <1>7, Combined
  <2>1. Known(f) /\ OnlyAt(f, p[2]) /\ (m = 2 => l = f /\ Free(l)')
    OBVIOUS
  <2>2. /\ at[r] = "combine" /\ p \in Routes /\ m \in 2..(Len(p) - 1) /\ Len(p) \in Nat
        /\ k \in LinkKeys /\ l \in LinkKeys /\ k # l /\ l.id \in Ids
        /\ Known(k)' /\ Known(l)' /\ Free(k)' /\ finalKey[r] = {k}
    OBVIOUS
  <2>3. /\ m # 2 => ~Known(l) /\ OnlyAt(l, p[m - 1])' /\ l = LinkKey(p[m - 1], p[m], l.id)
        /\ taken' \in [Links -> 0..MaxKeys] /\ reserved' \subseteq (UNION Links) \X LinkKeys
        /\ Grows /\ (\A x \in reserved' : Known(x[2])')
        /\ answers' = answers \union {[call |-> r, key |-> {l, k}]}
    OBVIOUS
  <2> QED BY <2>1, <2>2, <2>3
<1>9. Xor(finalKey[r], {l, k}) = {l} BY <1>8 DEF Xor
<1>10. /\ route'[r] = p /\ id'[r] = id[r] /\ finalKey'[r] = {l} /\ rightId'[r] = l.id
       /\ middle'[r] = m - 1 /\ at'[r] = (IF m = 2 THEN "store" ELSE "combine")
       /\ \A x \in Calls \ {r} : Same(x)
  BY <1>1, <1>2, <1>7, <1>9, Types DEF Same
<1>11. result'[r] <=> m = 2 BY <1>1, <1>7, Types
<1>12. TypeOK'
  <2>1. /\ at' \in [Calls -> {"none", "build", "combine", "store", "answer", "done"}]
        /\ middle' \in [Calls -> Nat]
    BY <1>1, <1>7, <1>8, Types
  <2>2. finalKey' \in [Calls -> SUBSET LinkKeys] BY <1>1, <1>7, <1>8, <1>9, Types
  <2>3. rightId' \in [Calls -> 0..MaxKeys]
    BY <1>1, <1>7, <1>8, Types, BoundAssumption DEF Ids
  <2>4. result' \in [Calls -> BOOLEAN] BY <1>1, <1>7, Types
  <2> QED BY <1>1, <1>7, <1>8, <2>1, <2>2, <2>3, <2>4 DEF TypeOK, ends
<1>13. FirstKey(r)' = f BY <1>2, <1>6, <1>10 DEF FirstKey
<1>14. CallInv(r)'
  <2>1. CASE m = 2
    <3>1. Given(r)' = {f} BY <1>13 DEF Given, FirstKey
    <3> QED BY <1>8, <1>10, <1>11, <2>1, <3>1 DEF CallInv
  <2>2. CASE m # 2
    <3>1. RightKey(r)' = l
      <4>1. (m - 1) + 1 = m BY <1>8
      <4> QED BY <1>8, <1>10, <2>2, <4>1 DEF RightKey
    <3>2. Known(f)' /\ OnlyAt(f, p[2])' /\ f # l BY <1>8, <2>2 DEF Grows, OnlyAt
    <3>3. Known(FirstKey(r))' /\ OnlyAt(FirstKey(r), route[r][2])'
      BY <1>10, <1>13, <3>2 DEF Known, OnlyAt
    <3>4. Known(RightKey(r))' /\ OnlyAt(RightKey(r), route[r][middle[r]])'
      BY <1>8, <1>10, <2>2, <3>1 DEF Known, OnlyAt
    <3>5. m - 1 \in 2..(Len(p) - 1) BY <1>8, <2>2
    <3> QED BY <1>8, <1>10, <1>11, <1>13, <2>2, <3>1, <3>2, <3>3, <3>4, <3>5 DEF CallInv
  <2> QED BY <2>1, <2>2
<1>15. FarInv'
  <2>1. \A s \in Calls : Lasts(s) BY <1>7, <1>8, <1>10 DEF Lasts, Same
  <2> QED BY <1>1, <1>7, <2>1, FarLasts
<1>16. ASSUME NEW a \in answers', a.call = r PROVE Spent(a)'
  <2>1. ASSUME NEW j \in a.key
        PROVE  Known(j)' /\ (Free(j)' \/ (at'[r] = "combine" /\ j = RightKey(r)'))
    <3>1. CASE a \in answers
      <4>1. Known(j) /\ (Free(j) \/ j = k)
        BY <1>4, <1>8, <1>16, <2>1, <3>1 DEF IInv, Spent
      <4>2. Known(j)' BY <1>8, <4>1 DEF Grows
      <4>3. Free(j) => Free(j)' BY <1>8, <4>1 DEF Grows, Free
      <4> QED BY <1>8, <4>1, <4>2, <4>3
    <3>2. CASE a = [call |-> r, key |-> {l, k}]
      <4>1. j = l \/ j = k BY <2>1, <3>2
      <4>2. m # 2 => at'[r] = "combine" /\ l = RightKey(r)'
        <5> SUFFICES ASSUME m # 2 PROVE at'[r] = "combine" /\ l = RightKey(r)' OBVIOUS
        <5>1. (m - 1) + 1 = m BY <1>8
        <5> QED BY <1>8, <1>10, <5>1 DEF RightKey
      <4> QED BY <1>8, <4>1, <4>2
    <3> QED BY <1>8, <3>1, <3>2
  <2>2. at'[r] \notin {"none", "build"} BY <1>10
  <2> QED BY <1>16, <2>1, <2>2 DEF Spent
<1>17. \A a \in answers' : a \in answers \/ a.call = r BY <1>8
<1> QED BY <1>8, <1>10, <1>12, <1>14, <1>15, <1>16, <1>17, OneCall

\* The loop breaks off: the site in the middle may have used its keys up.
LEMMA CombineFailsStep ==
  ASSUME IInv, NEW r \in Calls, CombineFails(r)
  PROVE  IInv'
<1>1. TypeOK /\ CallInv(r) /\ FarInv /\ (\A x \in reserved : Known(x[2])) BY DEF IInv
<1>2. /\ at[r] = "combine" /\ at' = [at EXCEPT ![r] = "store"]
      /\ UNCHANGED <<route, id, middle, rightId, finalKey, result, ends>>
  BY DEF CombineFails, Goes
<1>3. lost' \in 0..MaxLost
  BY <1>1, BoundAssumption DEF CombineFails, Lose, TypeOK
<1>4. PICK p, m, k, l : p = route[r] /\ m = middle[r] /\ k = RightKey(r) /\ l = LeftKey(r) OBVIOUS
<1>5. /\ taken' \in [Links -> 0..MaxKeys] /\ reserved' \subseteq (UNION Links) \X LinkKeys
      /\ Grows /\ \A x \in reserved' : Known(x[2])'
      /\ \A a \in answers' : a \in answers \/ (a.call = r /\ \A j \in a.key : Known(j)')
  <2>1. CASE GetCombinedKey(r)
    <3>1. /\ taken' \in [Links -> 0..MaxKeys] /\ reserved' \subseteq (UNION Links) \X LinkKeys
          /\ Grows /\ (\A x \in reserved' : Known(x[2])') /\ Known(k)' /\ Known(l)'
          /\ answers' = answers \union {[call |-> r, key |-> {l, k}]}
      BY <1>4, <2>1, Combined
    <3>2. ASSUME NEW a \in answers', a \notin answers PROVE a.call = r /\ \A j \in a.key : Known(j)'
      <4>1. a = [call |-> r, key |-> {l, k}] BY <3>1, <3>2
      <4>2. a.call = r /\ a.key = {l, k} BY <4>1
      <4> QED BY <3>1, <4>2
    <3> QED BY <3>1, <3>2
  <2>2. CASE UNCHANGED <<links, answers>>
    <3>1. taken' = taken /\ reserved' = reserved /\ answers' = answers BY <2>2 DEF links
    <3>2. Grows /\ \A x \in reserved' : Known(x[2])' BY <1>1, <3>1, NoTake
    <3> QED BY <1>1, <3>1, <3>2, Types
  <2> QED BY <2>1, <2>2 DEF CombineFails
<1>6. at'[r] = "store" /\ (\A x \in Calls \ {r} : Same(x))
      /\ at' \in [Calls -> {"none", "build", "combine", "store", "answer", "done"}]
  BY <1>1, <1>2, Types DEF Same
<1>7. TypeOK' BY <1>1, <1>2, <1>3, <1>5, <1>6 DEF TypeOK, ends
<1>8. ~result[r] BY <1>1, <1>2 DEF CallInv
<1>9. CallInv(r)' BY <1>1, <1>2, <1>6, <1>8 DEF CallInv
<1>10. FarInv'
  <2>1. \A s \in Calls : Lasts(s) BY <1>2, <1>6 DEF Lasts, Same
  <2> QED BY <1>1, <1>2, <2>1, FarLasts
<1>11. ASSUME NEW a \in answers', a.call = r PROVE Spent(a)'
  <2>1. CASE a \in answers
    <3>1. Spent(a) BY <2>1 DEF IInv
    <3> QED BY <1>2, <1>5, <1>6, <1>8, <1>11, <3>1, SpentIdle
  <2>2. CASE a \notin answers
    BY <1>2, <1>5, <1>6, <1>8, <1>11, <2>2 DEF Spent
  <2> QED BY <2>1, <2>2
<1>12. \A a \in answers' : a \in answers \/ a.call = r BY <1>5
<1> QED BY <1>5, <1>6, <1>7, <1>9, <1>10, <1>11, <1>12, OneCall

\* The far end stores what it has.
LEMMA StoreStep ==
  ASSUME IInv, NEW r \in Calls, StoreReservedKey(r)
  PROVE  IInv'
<1>1. TypeOK /\ CallInv(r) /\ FarInv /\ (\A x \in reserved : Known(x[2])) BY DEF IInv
<1>2. PICK q : q = Pair(route[r]) OBVIOUS
<1>3. /\ at[r] = "store" /\ at' = [at EXCEPT ![r] = "answer"]
      /\ UNCHANGED <<route, id, middle, rightId, finalKey, links, direct, unused, handed, answers, lost>>
      /\ \/ result' = [result EXCEPT ![r] = FALSE] /\ UNCHANGED far
         \/ far' = [far EXCEPT ![q][id[r]] = finalKey[r]] /\ UNCHANGED result
  BY <1>2 DEF StoreReservedKey, Goes
<1>4. taken' = taken /\ reserved' = reserved /\ handed' = handed /\ direct' = direct
  BY <1>3 DEF links
<1>5. Grows /\ \A x \in reserved' : Known(x[2])' BY <1>1, <1>4, NoTake
<1>6. /\ at'[r] = "answer" /\ (result'[r] => result[r]) /\ result' \in [Calls -> BOOLEAN]
      /\ at' \in [Calls -> {"none", "build", "combine", "store", "answer", "done"}]
  BY <1>1, <1>3, Types
<1>7. \A x \in Calls \ {r} : Same(x)
  BY <1>1, <1>3, Types DEF Same
<1>8. far \in [Pairs -> [Ids -> SUBSET (LinkKeys \union DirectKeys)]] BY <1>1 DEF TypeOK
<1>9. far' \in [Pairs -> [Ids -> SUBSET (LinkKeys \union DirectKeys)]]
  <2>1. CASE UNCHANGED far BY <1>8, <2>1
  <2>2. CASE far' = [far EXCEPT ![q][id[r]] = finalKey[r]]
    <3>1. finalKey[r] \in SUBSET (LinkKeys \union DirectKeys) BY <1>1, Types
    <3> QED BY <1>8, <2>2, <3>1
  <2> QED BY <1>3, <2>1, <2>2
<1>10. TypeOK' BY <1>1, <1>3, <1>4, <1>6, <1>9 DEF TypeOK
<1>11. CallInv(r)'
  <2>1. Given(r)' = Given(r) BY <1>3 DEF Given, LinkKey
  <2> QED BY <1>1, <1>3, <1>6, <2>1 DEF CallInv
<1>12. FarInv'
  <2>1. \A s \in Calls : Lasts(s) BY <1>3, <1>7 DEF Lasts, Same
  <2>2. ASSUME NEW x \in Pairs, NEW n \in Ids, far'[x][n] # Nothing PROVE Stored(x, n, far[x][n])'
    <3>1. CASE far'[x][n] = far[x][n]
      <4>1. PICK w : w = far[x][n] OBVIOUS
      <4>2. Stored(x, n, w) BY <1>1, <2>2, <3>1, <4>1 DEF FarInv
      <4>3. Stored(x, n, w)' BY <1>4, <2>1, <4>2, StoredLasts
      <4> QED BY <3>1, <4>1, <4>3 DEF Stored
    <3>2. CASE far'[x][n] # far[x][n]
      <4>1. x = q /\ n = id[r] /\ far'[x][n] = finalKey[r] BY <1>3, <1>8, <3>2
      <4> QED BY <1>2, <1>3, <1>6, <4>1 DEF Stored
    <3> QED BY <3>1, <3>2
  <2>3. ASSUME NEW h \in handed PROVE Stored(h.pair, h.id, h.key)'
    BY <1>1, <1>4, <2>1, <2>3, StoredLasts DEF FarInv
  <2> QED BY <1>1, <1>4, <2>2, <2>3 DEF FarInv, Stored
<1>13. ASSUME NEW a \in answers', a.call = r PROVE Spent(a)'
  <2>1. Spent(a) BY <1>3 DEF IInv
  <2> QED BY <1>3, <1>5, <1>6, <1>13, <2>1, SpentNext
<1>14. \A a \in answers' : a \in answers \/ a.call = r BY <1>3
<1> QED BY <1>5, <1>7, <1>10, <1>11, <1>12, <1>13, <1>14, OneCall

-----------------------------------------------------------------------------
(* The steps of a far end's own store.                                       *)

\* What is to be shown of a step of a far end.
LEMMA NoCall ==
  ASSUME IInv, UNCHANGED <<calls, links, answers, lost>>, TypeOK', FarInv'
  PROVE  IInv'
<1>1. \A x \in Calls : Same(x) BY DEF calls, Same
<1>2. taken' = taken /\ reserved' = reserved /\ \A x \in reserved : Known(x[2]) BY DEF links, IInv
<1>3. Grows /\ \A x \in reserved' : Known(x[2])' BY <1>2, NoTake
<1>4. ASSUME NEW x \in Calls PROVE CallInv(x)' BY <1>1, <1>3, OtherCall DEF IInv
<1>5. ASSUME NEW a \in answers' PROVE Spent(a)'
  <2>1. Spent(a) BY DEF IInv
  <2>2. Same(a.call) BY <1>1, <2>1 DEF Spent
  <2> QED BY <1>3, <2>1, <2>2, OtherAnswer
<1> QED BY <1>3, <1>4, <1>5 DEF IInv

LEMMA DirectStep ==
  ASSUME IInv, NEW q \in Pairs, DirectKey(q)
  PROVE  IInv'
<1>1. TypeOK /\ FarInv BY DEF IInv
<1>2. PICK n : n = direct[q] + 1 OBVIOUS
<1>3. /\ n <= MaxDirect /\ direct' = [direct EXCEPT ![q] = n]
      /\ \/ unused' = unused \union {<<q, n>>} /\ UNCHANGED far
         \/ far' = [far EXCEPT ![q][n] = {[pair |-> q, direct |-> n]}] /\ UNCHANGED unused
      /\ UNCHANGED <<calls, links, handed, answers, lost>>
  BY <1>2 DEF DirectKey
<1>4. /\ direct \in [Pairs -> 0..MaxDirect] /\ far \in [Pairs -> [Ids -> SUBSET (LinkKeys \union DirectKeys)]]
      /\ unused \subseteq Pairs \X Ids
  BY <1>1 DEF TypeOK
<1>5. n \in 1..MaxDirect /\ n \in Ids /\ direct[q] \in Nat /\ direct[q] < n
  BY <1>2, <1>3, <1>4, BoundAssumption DEF Ids
<1>6. direct' \in [Pairs -> 0..MaxDirect] /\ direct'[q] = n /\ \A x \in Pairs : direct[x] <= direct'[x]
  <2>1. direct'[q] = n /\ n \in 0..MaxDirect BY <1>3, <1>4, <1>5, BoundAssumption
  <2>2. direct' \in [Pairs -> 0..MaxDirect] BY <1>3, <1>4, <2>1
  <2>3. ASSUME NEW x \in Pairs PROVE direct[x] <= direct'[x]
    <3>1. CASE x = q BY <1>5, <2>1, <3>1
    <3>2. CASE x # q
      <4>1. direct'[x] = direct[x] /\ direct[x] \in Nat BY <1>3, <1>4, <3>2, BoundAssumption
      <4> QED BY <4>1
    <3> QED BY <3>1, <3>2
  <2> QED BY <2>1, <2>2, <2>3
<1>7. far' \in [Pairs -> [Ids -> SUBSET (LinkKeys \union DirectKeys)]] /\ unused' \subseteq Pairs \X Ids
  <2>1. [pair |-> q, direct |-> n] \in DirectKeys BY <1>5 DEF DirectKeys
  <2>2. CASE UNCHANGED far BY <1>3, <1>4, <1>5, <2>2
  <2>3. CASE far' = [far EXCEPT ![q][n] = {[pair |-> q, direct |-> n]}] /\ UNCHANGED unused
    <3>1. {[pair |-> q, direct |-> n]} \in SUBSET (LinkKeys \union DirectKeys) BY <2>1
    <3> QED BY <1>4, <2>3, <3>1
  <2> QED BY <1>3, <2>2, <2>3
<1>8. TypeOK' BY <1>1, <1>3, <1>6, <1>7 DEF TypeOK, calls, links
<1>9. \A s \in Calls : Lasts(s) BY <1>3 DEF Lasts, calls
<1>10. ASSUME NEW x, NEW i, NEW key, Stored(x, i, key), x \in Pairs, i \in Ids PROVE Stored(x, i, key)'
  <2>1. i <= direct[x] => i <= direct'[x]
    <3>1. direct[x] \in Nat /\ direct'[x] \in Nat /\ i \in Nat
      BY <1>4, <1>6, <1>10, BoundAssumption DEF Ids
    <3> QED BY <1>6, <1>10, <3>1
  <2> QED BY <1>9, <1>10, <2>1, StoredLasts
<1>11. FarInv'
  <2>1. ASSUME NEW x \in Pairs, NEW i \in Ids, far'[x][i] # Nothing PROVE Stored(x, i, far[x][i])'
    <3>1. CASE far'[x][i] = far[x][i]
      <4>1. PICK w : w = far[x][i] OBVIOUS
      <4>2. Stored(x, i, w) BY <1>1, <2>1, <3>1, <4>1 DEF FarInv
      <4>3. Stored(x, i, w)' BY <1>10, <4>2
      <4> QED BY <3>1, <4>1, <4>3 DEF Stored
    <3>2. CASE far'[x][i] # far[x][i]
      <4>1. x = q /\ i = n BY <1>3, <1>4, <3>2
      <4>2. i <= direct'[x] BY <1>5, <1>6, <4>1
      <4> QED BY <4>2 DEF Stored
    <3> QED BY <3>1, <3>2
  <2>2. ASSUME NEW h \in handed PROVE Stored(h.pair, h.id, h.key)'
    <3>1. h.pair \in Pairs /\ h.id \in Ids /\ Stored(h.pair, h.id, h.key) BY <1>1 DEF FarInv
    <3> QED BY <1>10, <3>1
  <2> QED BY <1>1, <1>3, <2>1, <2>2 DEF FarInv, Stored
<1> QED BY <1>3, <1>8, <1>11, NoCall

LEMMA CollectStep ==
  ASSUME IInv, NEW q \in Pairs, NEW n \in Ids, GetExistingKey(q, n)
  PROVE  IInv'
<1>1. TypeOK /\ FarInv BY DEF IInv
<1>2. PICK key : key = far[q][n] OBVIOUS
<1>3. /\ key # Nothing /\ far' = [far EXCEPT ![q][n] = Nothing]
      /\ handed' = handed \union {[pair |-> q, id |-> n, key |-> key]}
      /\ UNCHANGED <<calls, links, direct, unused, answers, lost>>
  BY <1>2 DEF GetExistingKey
<1>4. far \in [Pairs -> [Ids -> SUBSET (LinkKeys \union DirectKeys)]] BY <1>1 DEF TypeOK
<1>5. far' \in [Pairs -> [Ids -> SUBSET (LinkKeys \union DirectKeys)]]
  <2>1. Nothing \in SUBSET (LinkKeys \union DirectKeys) BY DEF Nothing
  <2> QED BY <1>3, <1>4, <2>1
<1>6. TypeOK' BY <1>1, <1>3, <1>5 DEF TypeOK, calls, links
<1>7. \A s \in Calls : Lasts(s) BY <1>3 DEF Lasts, calls
<1>8. direct' = direct BY <1>3
<1>9. FarInv'
  <2>1. ASSUME NEW x \in Pairs, NEW i \in Ids, far'[x][i] # Nothing PROVE Stored(x, i, far[x][i])'
    <3>1. far'[x][i] = far[x][i] BY <1>3, <1>4, <2>1
    <3>2. PICK w : w = far[x][i] OBVIOUS
    <3>3. Stored(x, i, w) BY <1>1, <2>1, <3>1, <3>2 DEF FarInv
    <3>4. Stored(x, i, w)' BY <1>7, <1>8, <3>3, StoredLasts
    <3> QED BY <3>1, <3>2, <3>4 DEF Stored
  <2>2. ASSUME NEW h \in handed' PROVE h.pair \in Pairs /\ h.id \in Ids /\ Stored(h.pair, h.id, h.key)'
    <3>1. h.pair \in Pairs /\ h.id \in Ids /\ Stored(h.pair, h.id, h.key)
      <4>1. CASE h \in handed BY <1>1, <4>1 DEF FarInv
      <4>2. CASE h = [pair |-> q, id |-> n, key |-> key] BY <1>1, <1>2, <1>3, <4>2 DEF FarInv
      <4> QED BY <1>3, <4>1, <4>2
    <3> QED BY <1>7, <1>8, <3>1, StoredLasts
  <2> QED BY <2>1, <2>2 DEF FarInv, Stored
<1> QED BY <1>3, <1>6, <1>9, NoCall

-----------------------------------------------------------------------------
(* The whole.                                                                *)

LEMMA InitInv == Init => IInv
<1> SUFFICES ASSUME Init PROVE IInv OBVIOUS
<1>1. TypeOK
  <2>1. \A l \in Links : 0 \in 0..MaxKeys BY BoundAssumption
  <2>2. Nothing \in SUBSET (LinkKeys \union DirectKeys) BY DEF Nothing
  <2> QED BY <2>1, <2>2, BoundAssumption DEF Init, TypeOK
<1>2. \A r \in Calls : CallInv(r) BY DEF Init, CallInv
<1>3. FarInv BY DEF Init, FarInv, Nothing
<1>4. (\A x \in reserved : Known(x[2])) /\ \A a \in answers : Spent(a) BY DEF Init
<1> QED BY <1>1, <1>2, <1>3, <1>4 DEF IInv

LEMMA NextInv == IInv /\ [Next]_vars => IInv'
<1> SUFFICES ASSUME IInv, [Next]_vars PROVE IInv' OBVIOUS
<1>1. ASSUME NEW r \in Calls, CallStep(r) PROVE IInv'
  <2>1. CASE \E p \in Routes : GetNewIndirectKey(r, p) BY <2>1, BeginStep
  <2>2. CASE \/ \E p \in Routes : NoFirstKey(r, p)
             \/ NoOwnKey(r) \/ Return(r) \/ CallLost(r)
    BY <2>2, IdleSteps
  <2>3. CASE BuildXorKey(r) BY <2>3, BuildStep
  <2>4. CASE DoCombinedKey(r) BY <2>4, CombineStep
  <2>5. CASE CombineFails(r) BY <2>5, CombineFailsStep
  <2>6. CASE StoreReservedKey(r) BY <2>6, StoreStep
  <2> QED BY <1>1, <2>1, <2>2, <2>3, <2>4, <2>5, <2>6 DEF CallStep
<1>2. ASSUME NEW q \in Pairs, DirectKey(q) PROVE IInv' BY <1>2, DirectStep
<1>3. ASSUME NEW q \in Pairs, NEW n \in Ids, GetExistingKey(q, n) PROVE IInv' BY <1>3, CollectStep
<1>4. CASE UNCHANGED vars
  <2>1. UNCHANGED <<calls, links, answers, lost>> /\ UNCHANGED ends BY <1>4 DEF vars
  <2>2. TypeOK' BY <2>1 DEF IInv, TypeOK, calls, links, ends
  <2>3. \A s \in Calls : Lasts(s) BY <2>1 DEF Lasts, calls
  <2>4. FarInv' BY <2>1, <2>3, FarLasts DEF IInv
  <2> QED BY <2>1, <2>2, <2>4, NoCall
<1> QED BY <1>1, <1>2, <1>3, <1>4 DEF Next

\* What is known of each call, its answers and the keys at its far end holds throughout.
THEOREM PathInvariant == Spec => []IInv
<1> QED BY InitInv, NextInv, PTL DEF Spec

\* Every variable of a path has its type.
THEOREM PathTypeCorrect == Spec => []TypeOK
<1>1. IInv => TypeOK BY DEF IInv
<1> QED BY <1>1, PathInvariant, PTL

\* Both ends of a path have the same key, on paths of any length and for any number of
\* calls which share their links, as long as nothing else has its ID at the far end.
LEMMA InvAgrees == IInv => PathKeysAgree
<1> SUFFICES ASSUME IInv, NEW r \in Calls, Succeeded(r), OwnId(r),
                    NEW q, q = Pair(route[r])
             PROVE  /\ far[q][id[r]] \in {Given(r), Nothing}
                    /\ \A h \in handed : h.pair = q /\ h.id = id[r] => h.key = Given(r)
  BY DEF PathKeysAgree
<1>1. TypeOK /\ CallInv(r) /\ FarInv BY DEF IInv
<1>2. at[r] = "done" /\ result[r] BY DEF Succeeded
<1>3. route[r] \in Routes /\ finalKey[r] = Given(r) BY <1>1, <1>2 DEF CallInv
<1>4. q \in Pairs BY <1>3, Neighbours
<1>5. ~(id[r] <= direct[q]) /\ id[r] \in Ids
  <2>1. direct[q] \in Nat /\ id[r] \in 0..MaxKeys /\ id[r] > direct[q]
    BY <1>1, <1>4, BoundAssumption DEF TypeOK, OwnId
  <2> QED BY <2>1, BoundAssumption DEF Ids
<1>6. ASSUME NEW key, Stored(q, id[r], key) PROVE key = Given(r)
  <2>1. PICK s \in Calls : /\ at[s] \in {"answer", "done"} /\ Pair(route[s]) = q /\ id[s] = id[r]
                           /\ key = finalKey[s]
    BY <1>5, <1>6 DEF Stored
  <2>2. s = r BY <2>1 DEF OwnId
  <2> QED BY <1>3, <2>1, <2>2
<1>7. far[q][id[r]] \in {Given(r), Nothing} BY <1>1, <1>4, <1>5, <1>6 DEF FarInv
<1>8. ASSUME NEW h \in handed, h.pair = q, h.id = id[r] PROVE h.key = Given(r)
  BY <1>1, <1>6, <1>8 DEF FarInv
<1> QED BY <1>7, <1>8

\* A call which succeeded holds the key which its id has at the far end, if the id is
\* its own there, whatever is lost or built at the same time.
THEOREM PathsAgree == Spec => []PathKeysAgree
<1> QED BY InvAgrees, PathInvariant, PTL

\* A call which succeeded leaves none of the link keys it drew reserved, at any site.
LEMMA InvLeavesNothing == IInv => NothingLeftBehind
<1> SUFFICES ASSUME IInv, NEW r \in Calls, Succeeded(r), NEW a \in answers, a.call = r,
                    NEW k \in a.key, NEW s \in k.link
             PROVE  <<s, k>> \notin reserved
  BY DEF NothingLeftBehind
<1>1. Known(k) /\ Free(k) BY DEF IInv, Spent, Succeeded
<1>2. s \in UNION Links BY <1>1 DEF Known, LinkKeys
<1> QED BY <1>1, <1>2 DEF Free

\* A call which succeeded leaves none of the keys it drew reserved at a site.
THEOREM PathsLeaveNothing == Spec => []NothingLeftBehind
<1> QED BY InvLeavesNothing, PathInvariant, PTL
-----------------------------------------------------------------------------
(***************************************************************************)
(* What the answers tell.  The answers of one call chain link keys: each has  *)
(* the key which the one before drew, and in the end the key the call began   *)
(* with.  So whichever answers are put together, a chain which takes part     *)
(* leaves a key over which no other answer has, and which is no call's own.   *)
(***************************************************************************)
Drawn(r) == UNION {a.key : a \in {b \in answers : b.call = r}}

Owns(r, k) ==
  \/ id[r] > 0 /\ k = FirstKey(r)
  \/ at[r] = "combine" /\ k = RightKey(r)
  \/ k \in Drawn(r)

\* A key belongs to one call, and is not drawn again.
OwnInv == \A r \in Calls : \A k : Owns(r, k) => Known(k) /\ \A s \in Calls : Owns(s, k) => s = r

Once(k, sent) == \E a \in sent : k \in a.key /\ \A b \in sent : k \in b.key => b = a

\* Answers of which some are of call r leave one of its keys over which is not f.
LeavesOver(r, f) ==
  \A sent \in SUBSET answers :
    (\E a \in sent : a.call = r) => \E k \in Drawn(r) \ {f} : Once(k, sent)

ChainInv(r) ==
  /\ at[r] = "none" => id[r] = 0
  /\ at[r] \in {"build", "combine"} => id[r] > 0 /\ FirstKey(r) \notin Drawn(r)
  /\ \E f : /\ LeavesOver(r, f)
            /\ at[r] = "combine" => f = RightKey(r)
            /\ FirstKey(r) \in Drawn(r) => f = FirstKey(r)

LEMMA DrawnIff ==
  ASSUME NEW r, NEW k
  PROVE  /\ k \in Drawn(r) <=> \E a \in answers : a.call = r /\ k \in a.key
         /\ k \in Drawn(r)' <=> \E a \in answers' : a.call = r /\ k \in a.key
  BY DEF Drawn

\* Nothing has been drawn for a call which the far end does not work for yet.
LEMMA NothingDrawn ==
  ASSUME IInv, NEW r \in Calls, at[r] \in {"none", "build"}
  PROVE  \A a \in answers : a.call # r
  BY DEF IInv, Spent

\* A step of call r, or of none, draws no key which is known: every other call keeps
\* what it has.
Draws(r) ==
  /\ \A x \in Calls \ {r} : Same(x)
  /\ Grows
  /\ answers \subseteq answers' /\ \A a \in answers' : a \in answers \/ a.call = r
  /\ \A k : Owns(r, k)' => Known(k)' /\ (Owns(r, k) \/ ~Known(k))

LEMMA OthersOwn ==
  ASSUME NEW r \in Calls, Draws(r), NEW x \in Calls \ {r}
  PROVE  /\ FirstKey(x)' = FirstKey(x) /\ RightKey(x)' = RightKey(x)
         /\ Drawn(x)' = Drawn(x)
         /\ \A k : Owns(x, k)' <=> Owns(x, k)
<1>1. FirstKey(x)' = FirstKey(x) /\ RightKey(x)' = RightKey(x) /\ id'[x] = id[x] /\ at'[x] = at[x]
  BY DEF Draws, Same, FirstKey, RightKey, LinkKey
<1>2. \A a : a.call = x => (a \in answers' <=> a \in answers)
  BY DEF Draws
<1>3. \A k : k \in Drawn(x)' <=> k \in Drawn(x)
  BY <1>2, DrawnIff
<1>4. Drawn(x)' = Drawn(x)
  BY <1>3
<1> QED BY <1>1, <1>4 DEF Owns

LEMMA OwnStep ==
  ASSUME OwnInv, NEW r \in Calls, Draws(r)
  PROVE  OwnInv'
<1>1. ASSUME NEW x \in Calls, NEW k, Owns(x, k)' PROVE Known(k)'
  <2>1. CASE x = r BY <1>1, <2>1 DEF Draws
  <2>2. CASE x # r
    <3>1. Owns(x, k) BY <1>1, <2>2, OthersOwn
    <3> QED BY <3>1 DEF OwnInv, Draws, Grows
  <2> QED BY <2>1, <2>2
<1>2. ASSUME NEW x \in Calls, NEW s \in Calls, NEW k, Owns(x, k)', Owns(s, k)', x # s PROVE FALSE
  <2>1. \A y \in Calls : Owns(y, k)' => Owns(y, k) \/ (y = r /\ ~Known(k))
    <3> SUFFICES ASSUME NEW y \in Calls, Owns(y, k)' PROVE Owns(y, k) \/ (y = r /\ ~Known(k))
      OBVIOUS
    <3>1. CASE y = r BY <3>1 DEF Draws
    <3>2. CASE y # r BY <3>2, OthersOwn
    <3> QED BY <3>1, <3>2
  <2>2. Owns(x, k) \/ Owns(s, k) BY <1>2, <2>1
  <2>3. Known(k) BY <2>2 DEF OwnInv
  <2> QED BY <1>2, <2>1, <2>3 DEF OwnInv
<1> QED BY <1>1, <1>2 DEF OwnInv

LEMMA OtherChain ==
  ASSUME OwnInv, NEW r \in Calls, Draws(r), NEW x \in Calls \ {r}, ChainInv(x)
  PROVE  ChainInv(x)'
<1>1. /\ FirstKey(x)' = FirstKey(x) /\ RightKey(x)' = RightKey(x) /\ Drawn(x)' = Drawn(x)
      /\ id'[x] = id[x] /\ at'[x] = at[x]
  BY OthersOwn DEF Draws, Same
<1>2. ASSUME NEW f, LeavesOver(x, f) PROVE LeavesOver(x, f)'
  <2> SUFFICES ASSUME NEW sent \in SUBSET answers', NEW a \in sent, a.call = x
               PROVE  \E k \in Drawn(x) \ {f} : Once(k, sent)
    BY <1>1 DEF LeavesOver, Once
  <2>1. PICK old : old = sent \cap answers OBVIOUS
  <2>2. a \in old BY <2>1 DEF Draws
  <2>3. PICK k \in Drawn(x) \ {f} : Once(k, old) BY <1>2, <2>1, <2>2 DEF LeavesOver
  <2>4. ASSUME NEW b \in sent, k \in b.key PROVE b \in old
    <3>1. CASE b \in answers BY <2>1, <3>1
    <3>2. CASE b \notin answers
      <4>1. b \in answers' /\ b.call = r BY <3>2 DEF Draws
      <4>2. k \in Drawn(r)' BY <2>4, <4>1, DrawnIff
      <4>3. Owns(r, k)' BY <4>2 DEF Owns
      <4>4. Owns(x, k) BY <2>3 DEF Owns
      <4> QED BY <4>3, <4>4 DEF OwnInv, Draws
    <3> QED BY <3>1, <3>2
  <2>5. Once(k, sent) BY <2>1, <2>3, <2>4 DEF Once
  <2> QED BY <2>3, <2>5
<1>3. PICK f : /\ LeavesOver(x, f)
               /\ at[x] = "combine" => f = RightKey(x)
               /\ FirstKey(x) \in Drawn(x) => f = FirstKey(x)
  BY DEF ChainInv
<1>4. LeavesOver(x, f)' BY <1>2, <1>3
<1>5. \E g : /\ LeavesOver(x, g)'
             /\ at'[x] = "combine" => g = RightKey(x)'
             /\ FirstKey(x)' \in Drawn(x)' => g = FirstKey(x)'
  BY <1>1, <1>3, <1>4
<1> QED BY <1>1, <1>5 DEF ChainInv

\* An answer lengthens the chain of its call by the key it draws.
LEMMA ChainGrows ==
  ASSUME OwnInv, NEW r \in Calls, at[r] = "combine", LeavesOver(r, RightKey(r)),
         NEW l, l \notin Drawn(r), l # RightKey(r),
         answers' = answers \union {[call |-> r, key |-> {l, RightKey(r)}]},
         \A a \in answers : a.call \in Calls
  PROVE  LeavesOver(r, l)'
<1>1. PICK k : k = RightKey(r) OBVIOUS
<1>2. PICK new : new = [call |-> r, key |-> {l, k}] OBVIOUS
<1>3. new.call = r /\ new.key = {l, k} /\ answers' = answers \union {new} BY <1>1, <1>2
<1>4. \A j \in Drawn(r) : j \in Drawn(r)' BY <1>3, DrawnIff
<1>5. k \in Drawn(r)' BY <1>3, DrawnIff
<1> SUFFICES ASSUME NEW sent \in SUBSET answers', NEW a \in sent, a.call = r
             PROVE  \E j \in Drawn(r)' \ {l} : Once(j, sent)
  BY DEF LeavesOver, Once
<1>6. PICK old : old = sent \ {new} OBVIOUS
<1>7. old \in SUBSET answers BY <1>3, <1>6
<1>8. CASE \E b \in old : b.call = r
  <2>1. PICK j \in Drawn(r) \ {k} : Once(j, old) BY <1>1, <1>7, <1>8 DEF LeavesOver
  <2>2. j # l /\ j \notin new.key BY <1>3, <2>1
  <2>3. Once(j, sent) BY <1>6, <2>1, <2>2 DEF Once
  <2> QED BY <1>4, <2>1, <2>2, <2>3
<1>9. CASE \A b \in old : b.call # r
  <2>1. new \in sent BY <1>6, <1>9
  <2>2. ASSUME NEW b \in sent, k \in b.key PROVE b = new
    <3> SUFFICES ASSUME b # new PROVE FALSE OBVIOUS
    <3>1. b \in old /\ b \in answers /\ b.call # r /\ b.call \in Calls BY <1>6, <1>7, <1>9
    <3>2. k \in Drawn(b.call) BY <2>2, <3>1, DrawnIff
    <3>3. Owns(b.call, k) /\ Owns(r, k) BY <1>1, <3>2 DEF Owns
    <3> QED BY <3>1, <3>3 DEF OwnInv
  <2>3. Once(k, sent) BY <1>3, <2>1, <2>2 DEF Once
  <2> QED BY <1>1, <1>5, <2>3
<1> QED BY <1>8, <1>9
-----------------------------------------------------------------------------
(* The steps again, for the chains.                                          *)

Chains == OwnInv /\ \A r \in Calls : ChainInv(r)

\* What is to be shown of a step of the call r.
LEMMA OneChain ==
  ASSUME Chains, NEW r \in Calls, Draws(r), ChainInv(r)'
  PROVE  Chains'
<1>1. OwnInv' BY OwnStep DEF Chains
<1>2. ASSUME NEW x \in Calls PROVE ChainInv(x)'
  <2>1. CASE x = r BY <2>1
  <2>2. CASE x # r BY <2>2, OtherChain DEF Chains
  <2> QED BY <2>1, <2>2
<1> QED BY <1>1, <1>2 DEF Chains

\* A call which combines no more: its chain stays as it is.
LEMMA RestChain ==
  ASSUME IInv, Chains, NEW r \in Calls, \A x \in Calls \ {r} : Same(x), UNCHANGED <<answers, taken, reserved>>,
         id'[r] = id[r], id[r] > 0 => route'[r] = route[r],
         at'[r] \notin {"none", "build", "combine"}
  PROVE  Chains'
<1>1. Grows
  BY NoTake DEF IInv
<1>2. Drawn(r)' = Drawn(r) BY DEF Drawn
<1>3. \A f : LeavesOver(r, f)' <=> LeavesOver(r, f) BY <1>2 DEF LeavesOver, Once
<1>4. id[r] > 0 => FirstKey(r)' = FirstKey(r) BY DEF FirstKey, LinkKey
<1>5. Draws(r)
  <2>1. ASSUME NEW k, Owns(r, k)' PROVE Known(k)' /\ (Owns(r, k) \/ ~Known(k))
    <3>1. Owns(r, k) BY <1>2, <1>4, <2>1 DEF Owns
    <3>2. Known(k) BY <3>1 DEF Chains, OwnInv
    <3> QED BY <1>1, <3>1, <3>2 DEF Grows
  <2> QED BY <1>1, <2>1 DEF Draws
<1>6. PICK f : LeavesOver(r, f) /\ (FirstKey(r) \in Drawn(r) => f = FirstKey(r))
  BY DEF Chains, ChainInv
<1>7. FirstKey(r)' \in Drawn(r)' => id[r] > 0
  <2> SUFFICES ASSUME FirstKey(r)' \in Drawn(r)' PROVE id[r] > 0 OBVIOUS
  <2>1. PICK k : k = FirstKey(r)' OBVIOUS
  <2>2. Owns(r, k) BY <1>2, <2>1 DEF Owns
  <2>3. k \in LinkKeys BY <2>2 DEF Chains, OwnInv, Known
  <2>4. k.id = id[r] BY <2>1 DEF FirstKey, LinkKey
  <2> QED BY <2>3, <2>4, BoundAssumption DEF LinkKeys, Ids
<1>8. ChainInv(r)'
  BY <1>2, <1>3, <1>4, <1>6, <1>7 DEF ChainInv
<1> QED BY <1>5, <1>8, OneChain

LEMMA BeginChain ==
  ASSUME IInv, Chains, NEW r \in Calls, NEW p \in Routes, GetNewIndirectKey(r, p)
  PROVE  Chains'
<1>1. TypeOK /\ (\A x \in reserved : Known(x[2])) BY DEF IInv
<1>2. /\ at[r] = "none" /\ route' = [route EXCEPT ![r] = p] /\ at' = [at EXCEPT ![r] = "build"]
      /\ Take(p[1], p[2], {}) /\ UNCHANGED <<middle, rightId, finalKey, result, answers>>
  BY DEF GetNewIndirectKey, Goes
<1>3. PICK k : k = NextKey(p[1], p[2]) OBVIOUS
<1>4. id' = [id EXCEPT ![r] = k.id] BY <1>3 DEF GetNewIndirectKey
<1>5. Link(p[1], p[2]) \in Links /\ p[2] \in UNION Links
  <2>1. Len(p) \in Nat /\ Len(p) > 2 BY Neighbours
  <2>2. 1 + 1 = 2 /\ 1 \in 1..(Len(p) - 1) /\ 2 \in 1..Len(p) BY <2>1
  <2> QED BY <2>2, Neighbours
<1>6. ~Known(k) /\ Known(k)' /\ k.id \in Ids /\ k = LinkKey(p[1], p[2], k.id) /\ Grows
  <2>1. taken \in [Links -> 0..MaxKeys] /\ reserved \subseteq (UNION Links) \X LinkKeys
    BY <1>1, Types
  <2> QED BY <1>1, <1>2, <1>3, <1>5, <2>1, TakeFacts
<1>7. /\ route'[r] = p /\ at'[r] = "build" /\ id'[r] = k.id
      /\ \A x \in Calls \ {r} : Same(x)
  BY <1>1, <1>2, <1>4, Types DEF Same
<1>8. FirstKey(r)' = k BY <1>6, <1>7 DEF FirstKey
<1>9. k.id > 0 BY <1>6, BoundAssumption DEF Ids
<1>10. \A a \in answers' : a.call # r BY <1>2, NothingDrawn
<1>11. \A j : j \notin Drawn(r)' BY <1>10, DrawnIff
<1>12. Draws(r)
  <2>1. ASSUME NEW j, Owns(r, j)' PROVE j = k
    BY <1>7, <1>8, <1>11, <2>1 DEF Owns
  <2> QED BY <1>2, <1>6, <1>7, <2>1 DEF Draws
<1>13. LeavesOver(r, k)' BY <1>10 DEF LeavesOver
<1>14. ChainInv(r)'
  BY <1>7, <1>9, <1>11, <1>13 DEF ChainInv
<1> QED BY <1>12, <1>14, OneChain

LEMMA BuildChain ==
  ASSUME IInv, Chains, NEW r \in Calls, BuildXorKey(r)
  PROVE  Chains'
<1>1. TypeOK /\ CallInv(r) /\ (\A x \in reserved : Known(x[2])) /\ ChainInv(r) BY DEF IInv, Chains
<1>2. PICK p : p = route[r] OBVIOUS
<1>3. PICK n : n = Len(p) OBVIOUS
<1>4. PICK k : k = NextKey(p[n], p[n - 1]) OBVIOUS
<1>5. /\ at[r] = "build" /\ at' = [at EXCEPT ![r] = "combine"]
      /\ rightId' = [rightId EXCEPT ![r] = k.id]
      /\ middle' = [middle EXCEPT ![r] = n - 1] /\ Take(p[n], p[n - 1], {})
      /\ UNCHANGED <<route, id, result, answers>>
      /\ finalKey' = [finalKey EXCEPT ![r] = {k}]
  BY <1>2, <1>3, <1>4 DEF BuildXorKey, Goes
<1>6. /\ (n - 1) + 1 = n
      /\ Link(p[n], p[n - 1]) \in Links /\ p[n - 1] \in UNION Links
  <2>1. p \in Routes BY <1>1, <1>2, <1>5 DEF CallInv
  <2>2. n \in Nat /\ n > 2 BY <1>3, <2>1, Neighbours
  <2>3. n - 1 \in 1..(n - 1) /\ n - 1 \in 1..n /\ (n - 1) + 1 = n BY <2>2
  <2>4. Link(p[(n - 1) + 1], p[n - 1]) \in Links /\ p[n - 1] \in UNION Links
    BY <1>3, <2>1, <2>3, Neighbours
  <2> QED BY <2>3, <2>4
<1>7. ~Known(k) /\ Known(k)' /\ k = LinkKey(p[n], p[n - 1], k.id) /\ Grows
  <2>1. taken \in [Links -> 0..MaxKeys] /\ reserved \subseteq (UNION Links) \X LinkKeys
    BY <1>1, Types
  <2> QED BY <1>1, <1>4, <1>5, <1>6, <2>1, TakeFacts
<1>8. /\ route'[r] = p /\ at'[r] = "combine" /\ id'[r] = id[r]
      /\ rightId'[r] = k.id /\ middle'[r] = n - 1
      /\ \A x \in Calls \ {r} : Same(x)
  BY <1>1, <1>2, <1>5, Types DEF Same
<1>9. RightKey(r)' = k
  <2>1. LinkKey(p[n - 1], p[n], k.id) = k BY <1>7 DEF LinkKey, Link
  <2> QED BY <1>6, <1>8, <2>1 DEF RightKey
<1>10. FirstKey(r)' = FirstKey(r) BY <1>2, <1>8 DEF FirstKey
<1>11. \A a \in answers' : a.call # r BY <1>5, NothingDrawn
<1>12. \A j : j \notin Drawn(r)' BY <1>11, DrawnIff
<1>13. Draws(r)
  <2>1. ASSUME NEW j, Owns(r, j)' PROVE Known(j)' /\ (Owns(r, j) \/ ~Known(j))
    <3>1. CASE j = k BY <1>7, <3>1
    <3>2. CASE j # k
      <4>1. Owns(r, j) BY <1>8, <1>9, <1>10, <1>12, <2>1, <3>2 DEF Owns
      <4>2. Known(j) BY <4>1 DEF Chains, OwnInv
      <4> QED BY <1>7, <4>1, <4>2 DEF Grows
    <3> QED BY <3>1, <3>2
  <2> QED BY <1>5, <1>7, <1>8, <2>1 DEF Draws
<1>14. LeavesOver(r, k)' BY <1>11 DEF LeavesOver
<1>15. id'[r] > 0 BY <1>1, <1>5, <1>8 DEF ChainInv
<1>16. ChainInv(r)'
  BY <1>8, <1>9, <1>12, <1>14, <1>15 DEF ChainInv
<1> QED BY <1>13, <1>16, OneChain

\* The site in the middle has combined two keys, whether the answer gets through or not.
LEMMA CombineChain ==
  ASSUME IInv, Chains, NEW r \in Calls, GetCombinedKey(r), NEW l, l = LeftKey(r),
         \A x \in Calls \ {r} : Same(x), route'[r] = route[r], id'[r] = id[r],
         \/ at'[r] = "store"
         \/ at'[r] = "combine" /\ middle[r] # 2 /\ RightKey(r)' = l
  PROVE  Chains'
<1>1. PICK k : k = RightKey(r) OBVIOUS
<1>2. /\ at[r] = "combine" /\ k # l /\ Known(k)' /\ Known(l)'
      /\ middle[r] = 2 => l = FirstKey(r)
      /\ middle[r] # 2 => ~Known(l)
      /\ Grows
      /\ answers' = answers \union {[call |-> r, key |-> {l, k}]}
      /\ Known(FirstKey(r))
  BY <1>1, Combined
<1>3. FirstKey(r)' = FirstKey(r) /\ FirstKey(r) \notin Drawn(r) /\ id[r] > 0
      /\ LeavesOver(r, k)
  <2>1. ChainInv(r) BY DEF Chains
  <2> QED BY <1>1, <1>2, <2>1 DEF ChainInv, FirstKey, LinkKey
<1>4. \A j \in Drawn(r) : Known(j) BY DEF Chains, OwnInv, Owns
<1>5. l \notin Drawn(r) BY <1>2, <1>3, <1>4
<1>6. \A a \in answers : a.call \in Calls BY DEF IInv, Spent
<1>7. LeavesOver(r, l)' BY <1>1, <1>2, <1>3, <1>5, <1>6, ChainGrows DEF Chains
<1>8. \A j : j \in Drawn(r)' => j \in Drawn(r) \/ j = l \/ j = k
  BY <1>2, DrawnIff
<1>9. Draws(r)
  <2>1. ASSUME NEW j, Owns(r, j)' PROVE Known(j)' /\ (Owns(r, j) \/ ~Known(j))
    <3>1. Owns(r, j) \/ (j = l /\ ~Known(l))
      BY <1>1, <1>2, <1>3, <1>8, <2>1 DEF Owns
    <3>2. Owns(r, j) => Known(j) BY DEF Chains, OwnInv
    <3> QED BY <1>2, <3>1, <3>2 DEF Grows
  <2> QED BY <1>2, <2>1 DEF Draws
<1>10. ChainInv(r)'
  <2>1. FirstKey(r) \in Drawn(r)' => l = FirstKey(r)
    <3>1. k # FirstKey(r) BY <1>1, <1>2 DEF IInv, CallInv
    <3> QED BY <1>3, <1>8, <3>1
  <2>2. at'[r] = "combine" => FirstKey(r) \notin Drawn(r)'
    <3>1. middle[r] # 2 => l # FirstKey(r) BY <1>2
    <3> QED BY <2>1, <3>1
  <2> QED BY <1>3, <1>7, <2>1, <2>2 DEF ChainInv
<1> QED BY <1>9, <1>10, OneChain

\* A step of a far end's own store, or none.
LEMMA IdleChain ==
  ASSUME Chains, UNCHANGED <<calls, links, answers>>
  PROVE  Chains'
<1>1. UNCHANGED <<route, at, id, middle, rightId, taken>> BY DEF calls, links
<1>2. /\ \A r, k : Owns(r, k)' <=> Owns(r, k)
      /\ \A k : Known(k)' <=> Known(k)
      /\ \A r : /\ FirstKey(r)' = FirstKey(r) /\ RightKey(r)' = RightKey(r) /\ Drawn(r)' = Drawn(r)
                /\ \A f : LeavesOver(r, f)' <=> LeavesOver(r, f)
  BY <1>1 DEF Owns, Known, Drawn, FirstKey, RightKey, LinkKey, LeavesOver, Once
<1>3. OwnInv' BY <1>2 DEF Chains, OwnInv
<1>4. \A r \in Calls : ChainInv(r)' BY <1>1, <1>2 DEF Chains, ChainInv
<1> QED BY <1>3, <1>4 DEF Chains

LEMMA StepChain ==
  ASSUME IInv, Chains, NEW r \in Calls, CallStep(r)
  PROVE  Chains'
<1>1. TypeOK BY DEF IInv
<1>2. CASE \E p \in Routes : GetNewIndirectKey(r, p) BY <1>2, BeginChain
<1>3. CASE BuildXorKey(r) BY <1>3, BuildChain
<1>4. CASE DoCombinedKey(r)
  <2>1. PICK l, m : l = LeftKey(r) /\ m = middle[r] OBVIOUS
  <2>2. /\ GetCombinedKey(r) /\ rightId' = [rightId EXCEPT ![r] = l.id]
        /\ middle' = [middle EXCEPT ![r] = m - 1]
        /\ at' = [at EXCEPT ![r] = IF m = 2 THEN "store" ELSE "combine"]
        /\ UNCHANGED <<route, id>>
        /\ \E key : finalKey' = [finalKey EXCEPT ![r] = key]
        /\ \E res : result' = [result EXCEPT ![r] = res]
    BY <1>4, <2>1 DEF DoCombinedKey, Goes
  <2>3. /\ \A x \in Calls \ {r} : Same(x)
        /\ at'[r] = (IF m = 2 THEN "store" ELSE "combine")
        /\ rightId'[r] = l.id /\ middle'[r] = m - 1
    BY <1>1, <2>2, Types DEF Same
  <2>4. m # 2 => RightKey(r)' = l
    <3>1. /\ m \in 2..(Len(route[r]) - 1) /\ Len(route[r]) \in Nat
          /\ m # 2 => l = LinkKey(route[r][m - 1], route[r][m], l.id)
      BY <2>1, <2>2, Combined
    <3>2. (m - 1) + 1 = m BY <3>1
    <3> QED BY <2>2, <2>3, <3>1, <3>2 DEF RightKey
  <2> QED BY <2>1, <2>2, <2>3, <2>4, CombineChain
<1>5. CASE CombineFails(r)
  <2>1. /\ at' = [at EXCEPT ![r] = "store"]
        /\ UNCHANGED <<route, id, middle, rightId, finalKey, result>>
        /\ GetCombinedKey(r) \/ UNCHANGED <<links, answers>>
    BY <1>5 DEF CombineFails, Goes
  <2>2. (\A x \in Calls \ {r} : Same(x)) /\ at'[r] = "store"
    BY <1>1, <2>1, Types DEF Same
  <2>3. CASE GetCombinedKey(r) BY <2>1, <2>2, <2>3, CombineChain
  <2>4. CASE UNCHANGED <<links, answers>> BY <2>1, <2>2, <2>4, RestChain DEF links
  <2> QED BY <2>1, <2>3, <2>4
<1>6. CASE \E p \in Routes : NoFirstKey(r, p)
  <2>1. PICK p \in Routes : NoFirstKey(r, p) BY <1>6
  <2>2. /\ at[r] = "none" /\ route' = [route EXCEPT ![r] = p] /\ at' = [at EXCEPT ![r] = "done"]
        /\ UNCHANGED <<id, middle, rightId, finalKey, result, links, answers>>
    BY <2>1 DEF NoFirstKey, Goes
  <2>3. id[r] = 0 BY <2>2 DEF Chains, ChainInv
  <2>4. (\A x \in Calls \ {r} : Same(x)) /\ at'[r] = "done"
    BY <1>1, <2>2, Types DEF Same
  <2> QED BY <2>2, <2>3, <2>4, RestChain DEF links
<1>7. CASE NoOwnKey(r) \/ Return(r) \/ CallLost(r) \/ StoreReservedKey(r)
  <2>1. /\ \E place \in {"store", "answer", "done"} : at' = [at EXCEPT ![r] = place]
        /\ UNCHANGED <<route, id, middle, rightId, finalKey, links, answers>>
        /\ result' = result \/ result' = [result EXCEPT ![r] = FALSE]
    BY <1>7 DEF NoOwnKey, Return, CallLost, StoreReservedKey, Goes
  <2>2. (\A x \in Calls \ {r} : Same(x)) /\ at'[r] \in {"store", "answer", "done"}
    BY <1>1, <2>1, Types DEF Same
  <2> QED BY <2>1, <2>2, RestChain DEF links
<1> QED BY <1>2, <1>3, <1>4, <1>5, <1>6, <1>7 DEF CallStep

LEMMA InitChains == Init => Chains
<1> SUFFICES ASSUME Init PROVE Chains OBVIOUS
<1>1. \A r \in Calls : at[r] = "none" /\ id[r] = 0 BY DEF Init
<1>2. \A r, k : k \notin Drawn(r) BY DrawnIff DEF Init
<1>3. \A r, f : LeavesOver(r, f) BY DEF LeavesOver, Init
<1> QED BY <1>1, <1>2, <1>3 DEF Chains, OwnInv, Owns, ChainInv

LEMMA NextChains == IInv /\ Chains /\ [Next]_vars => Chains'
<1> SUFFICES ASSUME IInv, Chains, [Next]_vars PROVE Chains' OBVIOUS
<1>1. ASSUME NEW r \in Calls, CallStep(r) PROVE Chains' BY <1>1, StepChain
<1>2. ASSUME NEW q \in Pairs, DirectKey(q) PROVE Chains' BY <1>2, IdleChain DEF DirectKey
<1>3. ASSUME NEW q \in Pairs, NEW n \in Ids, GetExistingKey(q, n) PROVE Chains'
  BY <1>3, IdleChain DEF GetExistingKey
<1>4. CASE UNCHANGED vars BY <1>4, IdleChain DEF vars
<1> QED BY <1>1, <1>2, <1>3, <1>4 DEF Next

\* Of keys combined, one which is in only one of them is left, and one which is left is
\* in some.
LEMMA Combination ==
  ASSUME NEW keys
  PROVE  /\ \A i \in DOMAIN keys : \A k \in keys[i] :
              (\A j \in DOMAIN keys : k \in keys[j] => j = i) => k \in XorAll(keys)
         /\ \A k \in XorAll(keys) : \E i \in DOMAIN keys : k \in keys[i]
<1>1. ASSUME NEW i \in DOMAIN keys, NEW k \in keys[i], \A j \in DOMAIN keys : k \in keys[j] => j = i
      PROVE  k \in XorAll(keys)
  <2>1. {j \in DOMAIN keys : k \in keys[j]} = {i} BY <1>1
  <2>2. Cardinality({j \in DOMAIN keys : k \in keys[j]}) = 1 BY <2>1, FS_Singleton
  <2>3. Cardinality({j \in DOMAIN keys : k \in keys[j]}) % 2 = 1 BY <2>2
  <2> QED BY <2>3 DEF XorAll
<1>2. ASSUME NEW k \in XorAll(keys) PROVE \E i \in DOMAIN keys : k \in keys[i]
  BY DEF XorAll
<1> QED BY <1>1, <1>2

LEMMA ChainsTellNothing == IInv /\ Chains => AnswersTellNothing
<1> SUFFICES ASSUME IInv, Chains, NEW some \in SUBSET {r \in Calls : id[r] > 0}, some # {},
                    NEW sent \in SUBSET answers,
                    XorAll([a \in sent |-> a.key]) = XorAll([r \in some |-> Given(r)])
             PROVE  FALSE
  BY DEF AnswersTellNothing
<1>1. PICK X : X = XorAll([a \in sent |-> a.key]) OBVIOUS
<1>2. \A a \in sent : \A k \in a.key : (\A b \in sent : k \in b.key => b = a) => k \in X
  <2>1. PICK keys : keys = [a \in sent |-> a.key] OBVIOUS
  <2> QED BY <1>1, <2>1, Combination
<1>3. \A k \in X : \E a \in sent : k \in a.key
  <2>1. PICK keys : keys = [a \in sent |-> a.key] OBVIOUS
  <2> QED BY <1>1, <2>1, Combination
<1>4. \A r \in some : Given(r) = {FirstKey(r)} /\ Owns(r, FirstKey(r)) /\ r \in Calls
  BY DEF Given, FirstKey, Owns
<1>5. \A k \in X : \E r \in some : k = FirstKey(r)
  <2>1. PICK keys : keys = [r \in some |-> Given(r)] OBVIOUS
  <2> QED BY <1>1, <1>4, <2>1, Combination
<1>6. \A r \in some : FirstKey(r) \in X
  <2> TAKE r \in some
  <2>1. PICK keys : keys = [s \in some |-> Given(s)] OBVIOUS
  <2>2. \A s \in some : FirstKey(r) \in Given(s) => s = r
    BY <1>4 DEF Chains, OwnInv
  <2> QED BY <1>1, <1>4, <2>1, <2>2, Combination
<1>7. PICK r \in some : TRUE OBVIOUS
<1>8. PICK first : first = FirstKey(r) OBVIOUS
<1>9. PICK a \in sent : first \in a.key BY <1>3, <1>6, <1>8
<1>10. a \in answers /\ a.call \in Calls /\ first \in Drawn(a.call)
  BY <1>9, DrawnIff DEF IInv, Spent
<1>11. a.call = r /\ first \in Drawn(r)
  <2>1. Owns(a.call, first) BY <1>10 DEF Owns
  <2> QED BY <1>4, <1>8, <1>10, <2>1 DEF Chains, OwnInv
<1>12. LeavesOver(r, first) BY <1>4, <1>8, <1>11 DEF Chains, ChainInv
<1>13. PICK k \in Drawn(r) \ {first} : Once(k, sent) BY <1>9, <1>11, <1>12 DEF LeavesOver
<1>14. k \in X BY <1>2, <1>13 DEF Once
<1>15. PICK s \in some : k = FirstKey(s) BY <1>5, <1>14
<1>16. Owns(s, k) /\ Owns(r, k) BY <1>4, <1>13, <1>15 DEF Owns
<1>17. s = r BY <1>4, <1>16 DEF Chains, OwnInv
<1> QED BY <1>8, <1>13, <1>15, <1>17

\* The answers of a call hang together by the keys it drew, and no other call drew these.
THEOREM ChainInvariant == Spec => []Chains
<1> QED BY InitChains, NextChains, PathInvariant, PTL DEF Spec

\* The combined keys which cross the network say nothing of the keys made with them, on
\* paths of any length and for any number of calls which share links, whatever gets lost:
\* no choice of answers combines to a key a call was given, or to how some of these differ.
THEOREM AnswersAreSafe == Spec => []AnswersTellNothing
<1> QED BY ChainsTellNothing, PathInvariant, ChainInvariant, PTL
===============================================================================
