------------------------------ MODULE SharedKeys ------------------------------
(***************************************************************************)
(* What a pair of key stores promises the applications at its two ends      *)
(* (src/KeyManagement/KeyStores/IKeyStore.h).  The link has one sequence of *)
(* keys, and an id is a position in it.  GetNewKey gives an application a   *)
(* key and its id; an application at the other end which was told the id    *)
(* asks for the same key with GetExistingKey.  Either call may give no key  *)
(* in place of one, but never a key the end has given out before.           *)
(*                                                                         *)
(* A site agent which restarts may count anew: from then on an id says      *)
(* nothing, but no key is given out twice at an end.                        *)
(***************************************************************************)
EXTENDS Naturals, Sequences

CONSTANTS
  Sites,    \* the two ends of the link
  Peer,     \* the end at the other side
  Ids,      \* the ids of keys; 0 is the id of a call which names none
  Keys,     \* the keys of the link, in order
  Nothing   \* a key of no bytes

VARIABLES
  issued,   \* [Sites -> [Ids with 0 -> Seq]] what GetNewKey gave with each id
  redeemed, \* [Sites -> [Ids -> Seq]] what GetExistingKey gave for each id
  whole     \* no site agent has restarted

GivenOut(s, v) ==
  \/ \E k \in {0} \union Ids : \E n \in DOMAIN issued[s][k] : issued[s][k][n] = v
  \/ \E k \in Ids : \E n \in DOMAIN redeemed[s][k] : redeemed[s][k][n] = v

\* The keys an id may stand for, and what end s may be given with it.
Named(k)    == {Keys[n] : n \in {m \in DOMAIN Keys : whole => k \in {0, m}}}
Fresh(s, k) == {Nothing} \union {v \in Named(k) : ~GivenOut(s, v)}

Init ==
  /\ issued   = [s \in Sites |-> [k \in {0} \union Ids |-> <<>>]]
  /\ redeemed = [s \in Sites |-> [k \in Ids |-> <<>>]]
  /\ whole    = TRUE

GetNewKey(s, k) ==
  /\ \E v \in Fresh(s, k) : issued' = [issued EXCEPT ![s][k] = Append(@, v)]
  /\ UNCHANGED <<redeemed, whole>>

\* An id is asked for as often as the other end has given it.
GetExistingKey(s, k) ==
  /\ Len(issued[Peer[s]][k]) > Len(redeemed[s][k])
  /\ \E v \in Fresh(s, k) : redeemed' = [redeemed EXCEPT ![s][k] = Append(@, v)]
  /\ UNCHANGED <<issued, whole>>

BreakOff == whole /\ whole' = FALSE /\ UNCHANGED <<issued, redeemed>>

Next ==
  \/ \E s \in Sites, k \in {0} \union Ids : GetNewKey(s, k)
  \/ \E s \in Sites, k \in Ids : GetExistingKey(s, k)
  \/ BreakOff

Spec == Init /\ [][Next]_<<issued, redeemed, whole>>

-----------------------------------------------------------------------------
\* Until a site agent restarts, the applications which exchanged an id hold one
\* key, unless one of them was given none.
SameKeyForId ==
  whole => \A s \in Sites, k \in Ids :
    \A m \in DOMAIN issued[s][k], n \in DOMAIN redeemed[Peer[s]][k] :
      \/ Nothing \in {issued[s][k][m], redeemed[Peer[s]][k][n]}
      \/ issued[s][k][m] = redeemed[Peer[s]][k][n]

\* No end gives out a key twice, by whichever call and under whichever id.
NoKeyTwice ==
  \A s \in Sites :
    /\ \A i, j \in {0} \union Ids : \A m \in DOMAIN issued[s][i], n \in DOMAIN issued[s][j] :
         issued[s][i][m] = issued[s][j][n] /\ issued[s][i][m] # Nothing => i = j /\ m = n
    /\ \A i, j \in Ids : \A m \in DOMAIN redeemed[s][i], n \in DOMAIN redeemed[s][j] :
         redeemed[s][i][m] = redeemed[s][j][n] /\ redeemed[s][i][m] # Nothing => i = j /\ m = n
    /\ \A i \in {0} \union Ids, j \in Ids : \A m \in DOMAIN issued[s][i], n \in DOMAIN redeemed[s][j] :
         issued[s][i][m] # Nothing => issued[s][i][m] # redeemed[s][j][n]
===============================================================================
