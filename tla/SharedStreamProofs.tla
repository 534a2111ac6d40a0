-------------------------- MODULE SharedStreamProofs --------------------------
(***************************************************************************)
(* What a SharedStream gives its two ends, for any number of ends and any    *)
(* length of a key.                                                          *)
(***************************************************************************)
EXTENDS SharedStream, Integers, TLAPS

vars == <<got, whole>>

\* Each end has a sequence of keys which goes forward in the stream; an end
\* which is whole has the first keys of it.
IInv ==
  /\ got \in [Ends -> Seq(Keys)] /\ whole \in [Ends -> BOOLEAN]
  /\ \A e \in Ends : Forward(got[e])
  /\ \A e \in Ends : whole[e] => got[e] = FirstKeys(Len(got[e]))

\* The first keys are keys, and as many as asked for.
LEMMA FirstKeysType ==
  ASSUME KeyBits \in Nat, NEW n \in Nat
  PROVE  FirstKeys(n) \in Seq(Keys) /\ Len(FirstKeys(n)) = n
<1>1. ASSUME NEW k \in 1..n PROVE KeyAt(k) \in Keys
  BY <1>1 DEF KeyAt, Keys
<1>. QED BY <1>1 DEF FirstKeys

\* The stream goes forward: the bits of its keys grow.
LEMMA FirstKeysForward ==
  ASSUME KeyBits \in Nat, NEW n \in Nat
  PROVE  Forward(FirstKeys(n))
<1>1. \A a, b, k \in Nat : a < b => a * k + k <= b * k
  <2>1. SUFFICES ASSUME NEW a \in Nat, NEW b \in Nat, NEW k \in Nat, a < b
                 PROVE  a * k + k <= b * k
    OBVIOUS
  <2>2. PICK d \in Nat : b = a + 1 + d
    <3>1. b - a - 1 \in Nat /\ b = a + 1 + (b - a - 1) BY <2>1
    <3>. QED BY <3>1
  <2>3. b * k = a * k + k + d * k BY <2>2
  <2>4. d * k \in Nat OBVIOUS
  <2>. QED BY <2>3, <2>4
<1>2. Len(FirstKeys(n)) = n BY FirstKeysType
<1>3. \A m \in 1..n, i \in 1..KeyBits : FirstKeys(n)[m][i] = (m - 1) * KeyBits + i
  BY DEF FirstKeys, KeyAt
<1>4. ASSUME NEW m \in 1..n, NEW i \in 1..KeyBits, NEW j \in 1..KeyBits, i < j
      PROVE  FirstKeys(n)[m][i] < FirstKeys(n)[m][j]
  <2>1. (m - 1) * KeyBits \in Int OBVIOUS
  <2>. QED BY <1>3, <1>4, <2>1
<1>5. ASSUME NEW l \in 1..n, NEW m \in 1..n, NEW i \in 1..KeyBits, NEW j \in 1..KeyBits, l < m
      PROVE  FirstKeys(n)[l][i] < FirstKeys(n)[m][j]
  <2>1. (l - 1) * KeyBits \in Int /\ (m - 1) * KeyBits \in Int OBVIOUS
  <2>2. (l - 1) * KeyBits + KeyBits <= (m - 1) * KeyBits
    <3>1. l - 1 \in Nat /\ m - 1 \in Nat /\ l - 1 < m - 1 BY <1>5
    <3>. QED BY <1>1, <3>1
  <2>3. FirstKeys(n)[l][i] = (l - 1) * KeyBits + i /\ FirstKeys(n)[m][j] = (m - 1) * KeyBits + j
    BY <1>3
  <2>4. i \in Int /\ i <= KeyBits /\ j \in Int /\ j > 0 OBVIOUS
  <2>. DEFINE L == (l - 1) * KeyBits  M == (m - 1) * KeyBits
  <2>5. L \in Int /\ M \in Int /\ L + KeyBits <= M BY <2>1, <2>2
  <2>. HIDE DEF L, M
  <2>6. L + i < M + j BY <2>4, <2>5
  <2>. QED BY <2>3, <2>6 DEF L, M
<1>. QED BY <1>2, <1>4, <1>5 DEF Forward

\* Nothing has been handed out at first.
LEMMA InitInv ==
  ASSUME KeyBits \in Nat, Init
  PROVE  IInv
<1>1. Len(<<>>) = 0 /\ FirstKeys(0) = <<>> BY FirstKeysType
<1>2. \A e \in Ends : got[e] = <<>> BY DEF Init
<1>. QED BY <1>1, <1>2 DEF Init, IInv, Forward

\* Each step keeps it.
LEMMA NextInv ==
  ASSUME KeyBits \in Nat, IInv, [Next]_vars
  PROVE  IInv'
<1>1. CASE UNCHANGED vars
  BY <1>1 DEF vars, IInv, Forward, FirstKeys, KeyAt, Keys
<1>2. ASSUME NEW e \in Ends, Hand(e) PROVE IInv'
  <2>1. Len(got[e]) \in Nat BY DEF IInv
  <2>. DEFINE n == Len(got'[e])
  <2>2. got' = [got EXCEPT ![e] = FirstKeys(n)] /\ whole' = whole /\ n \in Nat
    BY <1>2 DEF Hand
  <2>3. got'[e] = FirstKeys(n) BY <2>2 DEF IInv
  <2>5. got'[e] \in Seq(Keys) /\ Forward(got'[e]) BY <2>2, <2>3, FirstKeysType, FirstKeysForward
  <2>6. \A f \in Ends : f # e => got'[f] = got[f] BY <2>2 DEF IInv
  <2>7. got' \in [Ends -> Seq(Keys)] BY <2>2, <2>3, <2>5 DEF IInv
  <2>. QED BY <2>2, <2>3, <2>5, <2>6, <2>7 DEF IInv
<1>3. ASSUME NEW e \in Ends, HandOn(e) PROVE IInv'
  <2>1. got' = [got EXCEPT ![e] = got'[e]] /\ whole' = whole /\ ~whole[e]
        /\ got'[e] \in Seq(Keys) /\ Forward(got'[e])
    BY <1>3 DEF HandOn
  <2>2. \A f \in Ends : f # e => got'[f] = got[f] BY <2>1 DEF IInv
  <2>3. got' \in [Ends -> Seq(Keys)] BY <2>1 DEF IInv
  <2>. QED BY <2>1, <2>2, <2>3 DEF IInv
<1>4. ASSUME NEW e \in Ends, Cut(e) PROVE IInv'
  BY <1>4 DEF Cut, IInv
<1>. QED BY <1>1, <1>2, <1>3, <1>4 DEF Next

\* The invariant holds throughout.
THEOREM StreamInvariant == ASSUME KeyBits \in Nat PROVE Spec => []IInv
<1>1. Init => IInv BY InitInv
<1>2. IInv /\ [Next]_vars => IInv' BY NextInv
<1>. QED BY <1>1, <1>2, PTL DEF Spec, vars

\* Two ends which have not been cut off number every key alike, whatever else
\* happened to either of them.
THEOREM SameNumbers == ASSUME KeyBits \in Nat PROVE Spec => []SameNumbersSameKeys
<1>1. IInv => SameNumbersSameKeys
  <2>1. SUFFICES ASSUME IInv, NEW e \in Ends, NEW f \in Ends, whole[e], whole[f],
                        NEW k \in 1..Len(got[e]), k <= Len(got[f])
                 PROVE  got[e][k] = got[f][k]
    BY DEF SameNumbersSameKeys
  <2>2. Len(got[e]) \in Nat /\ Len(got[f]) \in Nat BY <2>1 DEF IInv
  <2>3. got[e] = FirstKeys(Len(got[e])) /\ got[f] = FirstKeys(Len(got[f])) BY <2>1 DEF IInv
  <2>4. k \in 1..Len(got[f]) BY <2>1, <2>2
  <2>5. FirstKeys(Len(got[e]))[k] = KeyAt(k) /\ FirstKeys(Len(got[f]))[k] = KeyAt(k)
    BY <2>4 DEF FirstKeys
  <2>. QED BY <2>3, <2>5
<1>. QED BY <1>1, StreamInvariant, PTL

\* No end is ever handed a bit twice, cut off or not.
THEOREM NoBitHandedTwice == ASSUME KeyBits \in Nat PROVE Spec => []NoBitTwice
<1>1. IInv => NoBitTwice BY DEF IInv, NoBitTwice
<1>. QED BY <1>1, StreamInvariant, PTL
===============================================================================
