----------------------------- MODULE SharedStream -----------------------------
(***************************************************************************)
(* What the two ends of a link are promised: each is handed keys of one and *)
(* the same stream, from its start and without a gap, until something cuts  *)
(* the end off.  From then on it may miss keys, but what it is handed still *)
(* goes forward in the stream: no bit of it is handed out twice.            *)
(*                                                                         *)
(* Bits are numbered as the devices agree on them; a key is the sequence of *)
(* the numbers of its bits.                                                 *)
(***************************************************************************)
EXTENDS Naturals, Sequences

CONSTANTS
  Ends,    \* the two ends of the link
  KeyBits  \* how many bits make a key

VARIABLES
  got,     \* [Ends -> Seq(key)] what each end was handed
  whole    \* [Ends -> BOOLEAN] the end has not been cut off yet

Keys == [1..KeyBits -> Nat]

\* The keys of the stream, and the bits of a sequence of keys.
KeyAt(n)  == [i \in 1..KeyBits |-> (n - 1) * KeyBits + i]
FirstKeys(n) == [k \in 1..n |-> KeyAt(k)]
Forward(s) ==
  /\ \A n \in 1..Len(s), i, j \in 1..KeyBits : i < j => s[n][i] < s[n][j]
  /\ \A n, m \in 1..Len(s), i, j \in 1..KeyBits : n < m => s[n][i] < s[m][j]

Init == got = [e \in Ends |-> <<>>] /\ whole = [e \in Ends |-> TRUE]

\* An end which is whole is handed the next keys of the stream.
Hand(e) ==
  /\ whole[e] /\ UNCHANGED whole
  /\ Len(got'[e]) \in Nat /\ Len(got'[e]) >= Len(got[e])
  /\ got' = [got EXCEPT ![e] = FirstKeys(Len(got'[e]))]

\* One which was cut off is handed keys from further on.
HandOn(e) ==
  /\ ~whole[e] /\ UNCHANGED whole
  /\ Len(got'[e]) >= Len(got[e])
  /\ SubSeq(got'[e], 1, Len(got[e])) = got[e]
  /\ got'[e] \in Seq(Keys) /\ Forward(got'[e])
  /\ got' = [got EXCEPT ![e] = got'[e]]

Cut(e) == whole[e] /\ whole' = [whole EXCEPT ![e] = FALSE] /\ UNCHANGED got

Next == \E e \in Ends : Hand(e) \/ HandOn(e) \/ Cut(e)

Spec == Init /\ [][Next]_<<got, whole>>

-----------------------------------------------------------------------------
\* Two ends which are whole number every key the same: what one of them has
\* been handed is the beginning of what the other has.
SameNumbersSameKeys ==
  \A e, f \in Ends : whole[e] /\ whole[f] =>
    \A k \in 1..Len(got[e]) : k <= Len(got[f]) => got[e][k] = got[f][k]

\* No bit is handed to an end in two keys.
NoBitTwice == \A e \in Ends : Forward(got[e])
===============================================================================
