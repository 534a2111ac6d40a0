---------------------------- MODULE KeyFeedProofs ----------------------------
(***************************************************************************)
(* KeyFeed implements SharedStream, for every size of keys and blocks and    *)
(* any number of calls, stops and lost RPCs.                                *)
(*                                                                         *)
(* All keys which are stored or on their way form one line, from the store  *)
(* over the stream, the batch of the latest call and recievedKeys to the    *)
(* keys just cut.  Steps move keys along it, drop some of them once the     *)
(* feed was interrupted, or extend it by what KeyConverter cuts next.       *)
(***************************************************************************)
EXTENDS KeyFeed, TLAPS

\* The bits of a run of keys, and one set of bits before another.
Bits(s) == {s[n][i] : n \in 1..Len(s), i \in 1..KeyBits}
Below(S, T) == \A a \in S, b \in T : a < b

\* What a concatenation of runs of keys is.
LEMMA CatType ==
  ASSUME NEW s \in Seq(Key), NEW t \in Seq(Key)
  PROVE /\ s \o t \in Seq(Key) /\ Len(s \o t) = Len(s) + Len(t)
        /\ \A n \in 1..Len(s) : (s \o t)[n] = s[n]
        /\ \A n \in 1..Len(t) : (s \o t)[Len(s) + n] = t[n]
OBVIOUS

\* A concatenation has the bits of its parts.
LEMMA BitsCat ==
  ASSUME NEW s \in Seq(Key), NEW t \in Seq(Key)
  PROVE  Bits(s \o t) = Bits(s) \union Bits(t)
<1>1. ASSUME NEW b \in Bits(s \o t) PROVE b \in Bits(s) \union Bits(t)
  <2>1. PICK n \in 1..Len(s \o t), i \in 1..KeyBits : b = (s \o t)[n][i] BY DEF Bits
  <2>2. CASE n <= Len(s) BY <2>1, <2>2 DEF Bits
  <2>3. CASE n > Len(s)
    <3>1. n - Len(s) \in 1..Len(t) /\ (s \o t)[n] = t[n - Len(s)] BY <2>3
    <3>. QED BY <2>1, <3>1 DEF Bits
  <2>. QED BY <2>2, <2>3
<1>2. Bits(s) \subseteq Bits(s \o t)
  BY CatType DEF Bits
<1>3. ASSUME NEW b \in Bits(t) PROVE b \in Bits(s \o t)
  <2>1. PICK n \in 1..Len(t), i \in 1..KeyBits : b = t[n][i] BY DEF Bits
  <2>2. Len(s) + n \in 1..Len(s \o t) /\ (s \o t)[Len(s) + n] = t[n] BY CatType
  <2>. QED BY <2>1, <2>2 DEF Bits
<1>. QED BY <1>1, <1>2, <1>3

\* A run goes forward when its parts do and lie one behind the other.
LEMMA ForwardCat ==
  ASSUME NEW s \in Seq(Key), NEW t \in Seq(Key)
  PROVE  Feed!Forward(s \o t) <=> Feed!Forward(s) /\ Feed!Forward(t) /\ Below(Bits(s), Bits(t))
<1>. DEFINE u == s \o t
<1>0. /\ u \in Seq(Key) /\ Len(u) = Len(s) + Len(t) /\ Len(s) \in Nat /\ Len(t) \in Nat
      /\ \A n \in 1..Len(s) : u[n] = s[n]
      /\ \A n \in 1..Len(t) : u[Len(s) + n] = t[n]
      /\ \A n \in 1..Len(s) : n \in 1..Len(u)
  BY CatType
<1>. HIDE DEF u
<1>1. ASSUME Feed!Forward(u) PROVE Feed!Forward(s)
  BY <1>0, <1>1 DEF Feed!Forward
<1>2. ASSUME Feed!Forward(u) PROVE Feed!Forward(t)
  <2>1. \A n \in 1..Len(t) : Len(s) + n \in 1..Len(u) BY <1>0
  <2>2. \A n, m \in 1..Len(t) : n < m => Len(s) + n < Len(s) + m BY <1>0
  <2>. QED BY <1>0, <1>2, <2>1, <2>2 DEF Feed!Forward
<1>3. ASSUME Feed!Forward(u) PROVE Below(Bits(s), Bits(t))
  <2>1. SUFFICES ASSUME NEW n \in 1..Len(s), NEW m \in 1..Len(t), NEW i \in 1..KeyBits, NEW j \in 1..KeyBits
                 PROVE s[n][i] < t[m][j]
    BY DEF Below, Bits
  <2>2. n \in 1..Len(u) /\ Len(s) + m \in 1..Len(u) /\ n < Len(s) + m BY <1>0
  <2>. QED BY <1>0, <1>3, <2>2 DEF Feed!Forward
<1>4. ASSUME Feed!Forward(s), Feed!Forward(t), Below(Bits(s), Bits(t)) PROVE Feed!Forward(u)
  <2>1. \A n \in 1..Len(u) : n \in 1..Len(s) \/ (n - Len(s) \in 1..Len(t) /\ n = Len(s) + (n - Len(s)) /\ n > Len(s)) BY <1>0
  <2>2. ASSUME NEW n \in 1..Len(u), NEW i \in 1..KeyBits, NEW j \in 1..KeyBits, i < j
        PROVE u[n][i] < u[n][j]
    <3>1. CASE n \in 1..Len(s)
      BY <1>0, <1>4, <2>2, <3>1 DEF Feed!Forward
    <3>2. CASE n \notin 1..Len(s)
      <4>. DEFINE a == n - Len(s)
      <4>1. a \in 1..Len(t) /\ u[n] = t[a] BY <1>0, <2>1, <3>2
      <4>. HIDE DEF a
      <4>. QED BY <1>4, <2>2, <4>1 DEF Feed!Forward
    <3>. QED BY <3>1, <3>2
  <2>3. ASSUME NEW n \in 1..Len(u), NEW m \in 1..Len(u), NEW i \in 1..KeyBits, NEW j \in 1..KeyBits, n < m
        PROVE u[n][i] < u[m][j]
    <3>1. CASE m \in 1..Len(s)
      <4>1. n \in 1..Len(s) BY <2>3, <3>1
      <4>. QED BY <1>0, <1>4, <2>3, <3>1, <4>1 DEF Feed!Forward
    <3>2. CASE n \notin 1..Len(s)
      <4>. DEFINE a == n - Len(s)  b == m - Len(s)
      <4>0. m \notin 1..Len(s) BY <1>0, <2>3, <3>2
      <4>1. a \in 1..Len(t) /\ u[n] = t[a] BY <1>0, <2>1, <3>2
      <4>2. b \in 1..Len(t) /\ u[m] = t[b] BY <1>0, <2>1, <4>0
      <4>3. a < b BY <1>0, <2>3
      <4>. HIDE DEF a, b
      <4>. QED BY <1>4, <4>1, <4>2, <4>3 DEF Feed!Forward
    <3>3. CASE n \in 1..Len(s) /\ m \notin 1..Len(s)
      <4>. DEFINE b == m - Len(s)
      <4>1. b \in 1..Len(t) /\ u[m] = t[b] BY <1>0, <2>1, <3>3
      <4>. HIDE DEF b
      <4>2. s[n][i] \in Bits(s) /\ t[b][j] \in Bits(t) BY <3>3, <4>1 DEF Bits
      <4>. QED BY <1>0, <1>4, <3>3, <4>1, <4>2 DEF Below
    <3>. QED BY <3>1, <3>2, <3>3
  <2>. QED BY <2>2, <2>3 DEF Feed!Forward
<1>. QED BY <1>1, <1>2, <1>3, <1>4 DEF u

\* The keys cut from n bits fit into them.
LEMMA Cuts ==
  ASSUME NEW n \in Nat
  PROVE  n \div KeyBits \in Nat /\ KeyBits * (n \div KeyBits) <= n
BY SizeAssumption

\* More keys have at least as many bits.
LEMMA Multiples ==
  ASSUME NEW k \in Nat, NEW q \in Nat, k <= q
  PROVE  k * KeyBits \in Nat /\ k * KeyBits <= q * KeyBits
<1>1. PICK d \in Nat : q = k + d
  <2>1. q - k \in Nat /\ q = k + (q - k) OBVIOUS
  <2>. QED BY <2>1
<1>2. q * KeyBits = k * KeyBits + d * KeyBits BY <1>1, SizeAssumption
<1>3. k * KeyBits \in Nat /\ d * KeyBits \in Nat BY SizeAssumption
<1>. QED BY <1>2, <1>3

\* Bits in the order they were agreed on.
Rising(s) == \A i, j \in 1..Len(s) : i < j => s[i] < s[j]

\* What KeysOf and RestOf are, bit by bit.
LEMMA CutKeys ==
  ASSUME NEW s \in Seq(Nat)
  PROVE  /\ KeysOf(s) \in Seq(Key) /\ RestOf(s) \in Seq(Nat)
         /\ Len(KeysOf(s)) = Len(s) \div KeyBits
         /\ Len(RestOf(s)) = Len(s) - Len(KeysOf(s)) * KeyBits
         /\ \A k \in 1..Len(KeysOf(s)), i \in 1..KeyBits :
              /\ (k - 1) * KeyBits + i \in 1..Len(s)
              /\ (k - 1) * KeyBits + i <= Len(KeysOf(s)) * KeyBits
              /\ KeysOf(s)[k][i] = s[(k - 1) * KeyBits + i]
         /\ \A j \in 1..Len(RestOf(s)) :
              /\ Len(KeysOf(s)) * KeyBits + j \in 1..Len(s)
              /\ RestOf(s)[j] = s[Len(KeysOf(s)) * KeyBits + j]
<1>. DEFINE q == Len(s) \div KeyBits
<1>1. q \in Nat /\ Len(s) \in Nat /\ KeyBits \in Nat /\ q * KeyBits = KeyBits * q /\ q * KeyBits \in Nat
      /\ q * KeyBits <= Len(s)
  BY Cuts, SizeAssumption
<1>2. ASSUME NEW k \in 1..q
      PROVE /\ (k - 1) * KeyBits \in Nat /\ k * KeyBits = (k - 1) * KeyBits + KeyBits
            /\ k * KeyBits <= q * KeyBits
  <2>1. k \in Nat /\ k - 1 \in Nat /\ k - 1 <= q /\ k <= q BY <1>1
  <2>2. (k - 1) * KeyBits \in Nat /\ k * KeyBits <= q * KeyBits BY <1>1, <2>1, Multiples
  <2>3. k * KeyBits = (k - 1) * KeyBits + KeyBits BY <1>1, <2>1
  <2>. QED BY <2>2, <2>3
<1>. DEFINE K(k) == SubSeq(s, (k - 1) * KeyBits + 1, k * KeyBits)
<1>3. ASSUME NEW k \in 1..q
      PROVE /\ K(k) \in Key
            /\ \A i \in 1..KeyBits : /\ (k - 1) * KeyBits + i \in 1..Len(s)
                                     /\ (k - 1) * KeyBits + i <= q * KeyBits
                                     /\ K(k)[i] = s[(k - 1) * KeyBits + i]
  <2>. DEFINE l == (k - 1) * KeyBits  h == k * KeyBits
  <2>1. l \in Nat /\ h = l + KeyBits /\ h <= q * KeyBits BY <1>2
  <2>2. l \in Nat /\ h = l + KeyBits /\ h <= Len(s) /\ KeyBits \in Nat /\ Len(s) \in Nat BY <1>1, <2>1
  <2>. HIDE DEF l, h
  <2>3. Len(SubSeq(s, l + 1, h)) = KeyBits /\ SubSeq(s, l + 1, h) \in Seq(Nat) BY <2>2
  <2>4. \A i \in 1..KeyBits : l + i \in 1..Len(s) /\ SubSeq(s, l + 1, h)[i] = s[l + i] BY <2>2
  <2>5. SubSeq(s, l + 1, h) \in Key
    <3>1. \A x \in Seq(Nat) : x \in [1..Len(x) -> Nat] OBVIOUS
    <3>. QED BY <2>3, <3>1 DEF Key
  <2>6. \A i \in 1..KeyBits : l + i <= q * KeyBits BY <1>1, <2>1
  <2>. QED BY <2>4, <2>5, <2>6 DEF l, h
<1>4. KeysOf(s) = [k \in 1..q |-> K(k)] BY DEF KeysOf
<1>5. KeysOf(s) \in Seq(Key) /\ Len(KeysOf(s)) = q /\ \A k \in 1..q : KeysOf(s)[k] = K(k)
  <2>1. q \in Nat /\ \A k \in 1..q : K(k) \in Key BY <1>1, <1>3
  <2>. HIDE DEF K, q
  <2>2. KeysOf(s) \in Seq(Key) BY <1>4, <2>1
  <2>3. Len(KeysOf(s)) = q BY <1>4, <2>1
  <2>. QED BY <1>4, <2>2, <2>3
<1>6. RestOf(s) = SubSeq(s, q * KeyBits + 1, Len(s)) BY <1>1 DEF RestOf
<1>7. /\ RestOf(s) \in Seq(Nat) /\ Len(RestOf(s)) = Len(s) - q * KeyBits
      /\ \A j \in 1..Len(RestOf(s)) : q * KeyBits + j \in 1..Len(s) /\ RestOf(s)[j] = s[q * KeyBits + j]
  <2>. DEFINE l == q * KeyBits
  <2>1. l \in Nat /\ Len(s) \in Nat /\ l <= Len(s) /\ RestOf(s) = SubSeq(s, l + 1, Len(s)) BY <1>1, <1>6
  <2>. HIDE DEF l, q
  <2>2. SubSeq(s, l + 1, Len(s)) \in Seq(Nat) /\ Len(SubSeq(s, l + 1, Len(s))) = Len(s) - l BY <2>1
  <2>3. \A j \in 1..(Len(s) - l) : l + j \in 1..Len(s) /\ SubSeq(s, l + 1, Len(s))[j] = s[l + j] BY <2>1
  <2>. QED BY <2>1, <2>2, <2>3 DEF l
<1>8. q = Len(s) \div KeyBits OBVIOUS
<1>. HIDE DEF q
<1>9. \A k \in 1..q, i \in 1..KeyBits :
        /\ (k - 1) * KeyBits + i \in 1..Len(s)
        /\ (k - 1) * KeyBits + i <= q * KeyBits
        /\ KeysOf(s)[k][i] = s[(k - 1) * KeyBits + i]
  <2>. HIDE DEF K
  <2>. QED BY <1>3, <1>5
<1>. HIDE DEF K
<1>. QED BY <1>5, <1>7, <1>8, <1>9

\* Bits in order make keys in order, with the rest behind them.
LEMMA CutsForward ==
  ASSUME NEW s \in Seq(Nat), Rising(s)
  PROVE  /\ Feed!Forward(KeysOf(s)) /\ Rising(RestOf(s))
         /\ \A b \in Bits(KeysOf(s)) : /\ \E i \in 1..Len(s) : b = s[i]
                                       /\ \A j \in 1..Len(RestOf(s)) : b < RestOf(s)[j]
<1>. DEFINE K == KeysOf(s)  R == RestOf(s)  q == Len(K)
<1>1. /\ q \in Nat /\ KeyBits \in Nat /\ q * KeyBits \in Nat
      /\ \A k \in 1..q, i \in 1..KeyBits :
           /\ (k - 1) * KeyBits + i \in 1..Len(s)
           /\ (k - 1) * KeyBits + i <= q * KeyBits
           /\ K[k][i] = s[(k - 1) * KeyBits + i]
      /\ \A j \in 1..Len(R) : q * KeyBits + j \in 1..Len(s) /\ R[j] = s[q * KeyBits + j]
      /\ Len(R) \in Nat
  <2>1. K \in Seq(Key) /\ R \in Seq(Nat) BY CutKeys
  <2>2. q \in Nat /\ Len(R) \in Nat /\ KeyBits \in Nat BY <2>1, SizeAssumption
  <2>3. q * KeyBits \in Nat BY <2>2
  <2>4. \A k \in 1..q, i \in 1..KeyBits :
           /\ (k - 1) * KeyBits + i \in 1..Len(s)
           /\ (k - 1) * KeyBits + i <= q * KeyBits
           /\ K[k][i] = s[(k - 1) * KeyBits + i]
    BY CutKeys
  <2>5. \A j \in 1..Len(R) : q * KeyBits + j \in 1..Len(s) /\ R[j] = s[q * KeyBits + j]
    BY CutKeys
  <2>. QED BY <2>2, <2>3, <2>4, <2>5
<1>. HIDE DEF K, R, q
<1>2. ASSUME NEW k \in 1..q PROVE (k - 1) * KeyBits \in Nat
  <2>1. k - 1 \in Nat BY <1>1
  <2>. QED BY <1>1, <2>1
<1>3. ASSUME NEW k \in 1..q, NEW i \in 1..KeyBits, NEW j \in 1..KeyBits, i < j
      PROVE  K[k][i] < K[k][j]
  <2>1. (k - 1) * KeyBits + i < (k - 1) * KeyBits + j BY <1>2, <1>3
  <2>. QED BY <1>1, <2>1 DEF Rising
<1>4. ASSUME NEW k \in 1..q, NEW m \in 1..q, NEW i \in 1..KeyBits, NEW j \in 1..KeyBits, k < m
      PROVE  K[k][i] < K[m][j]
  <2>1. k \in Nat /\ m - 1 \in Nat /\ k <= m - 1 BY <1>1, <1>4
  <2>2. k * KeyBits <= (m - 1) * KeyBits /\ k * KeyBits \in Nat BY <2>1, Multiples
  <2>3. k * KeyBits = (k - 1) * KeyBits + KeyBits BY <1>1, <2>1
  <2>4. (k - 1) * KeyBits + i < (m - 1) * KeyBits + j
    <3>. DEFINE a == (k - 1) * KeyBits  b == (m - 1) * KeyBits  c == k * KeyBits
    <3>1. a \in Nat /\ b \in Nat /\ c \in Nat /\ c <= b /\ c = a + KeyBits BY <1>2, <2>2, <2>3
    <3>. HIDE DEF a, b, c
    <3>2. a + i < b + j BY <1>1, <3>1
    <3>. QED BY <3>2 DEF a, b
  <2>. QED BY <1>1, <2>4 DEF Rising
<1>5. ASSUME NEW i \in 1..Len(R), NEW j \in 1..Len(R), i < j PROVE R[i] < R[j]
  <2>1. q * KeyBits + i < q * KeyBits + j BY <1>1, <1>5
  <2>. QED BY <1>1, <2>1 DEF Rising
<1>6. ASSUME NEW b \in Bits(K)
      PROVE  (\E i \in 1..Len(s) : b = s[i]) /\ \A j \in 1..Len(R) : b < R[j]
  <2>1. PICK k \in 1..q, i \in 1..KeyBits : b = K[k][i] BY DEF Bits, q
  <2>. DEFINE a == (k - 1) * KeyBits + i
  <2>2. a \in 1..Len(s) /\ a <= q * KeyBits /\ b = s[a] BY <1>1, <2>1
  <2>. HIDE DEF a
  <2>3. \A j \in 1..Len(R) : a < q * KeyBits + j BY <1>1, <2>2
  <2>. QED BY <1>1, <2>2, <2>3 DEF Rising
<1>. QED BY <1>3, <1>4, <1>5, <1>6 DEF Feed!Forward, Rising, K, R, q

\* The first keys of the stream are keys, and as many as asked for.
LEMMA FirstKeysType ==
  ASSUME NEW n \in Nat
  PROVE  /\ Feed!FirstKeys(n) \in Seq(Key) /\ Len(Feed!FirstKeys(n)) = n
         /\ \A k \in 1..n, i \in 1..KeyBits :
              /\ Feed!FirstKeys(n)[k][i] = (k - 1) * KeyBits + i
              /\ DOMAIN Feed!FirstKeys(n)[k] = 1..KeyBits
<1>1. ASSUME NEW k \in 1..n PROVE Feed!KeyAt(k) \in Key
  <2>1. (k - 1) * KeyBits \in Nat
    <3>1. k - 1 \in Nat OBVIOUS
    <3>. QED BY <3>1, SizeAssumption
  <2>. QED BY <2>1, SizeAssumption DEF Feed!KeyAt, Key
<1>. QED BY <1>1 DEF Feed!FirstKeys, Feed!KeyAt

\* What begins the first keys of the stream is itself the first keys of it.
LEMMA FirstKeysPrefix ==
  ASSUME NEW n \in Nat, NEW s \in Seq(Key), NEW t \in Seq(Key), s \o t = Feed!FirstKeys(n)
  PROVE  s = Feed!FirstKeys(Len(s))
<1>1. Len(s) \in Nat /\ Len(s) <= n /\ \A k \in 1..Len(s) : s[k] = Feed!FirstKeys(n)[k]
  BY CatType, FirstKeysType
<1>2. \A k \in 1..Len(s) : k \in 1..n BY <1>1
<1>3. \A k \in 1..n : Feed!FirstKeys(n)[k] = Feed!KeyAt(k) BY DEF Feed!FirstKeys
<1>4. \A k \in 1..Len(s) : s[k] = Feed!KeyAt(k) BY <1>1, <1>2, <1>3
<1>5. s = [k \in 1..Len(s) |-> s[k]] OBVIOUS
<1>. QED BY <1>4, <1>5 DEF Feed!FirstKeys

\* The m bits which follow the first n keys of the stream.
From(n, m) == [i \in 1..m |-> n * KeyBits + i]

\* The keys cut from those bits are the next ones, and what is left follows them.
LEMMA StreamCut ==
  ASSUME NEW n \in Nat, NEW m \in Nat
  PROVE  LET s == From(n, m)  q == Len(KeysOf(s)) IN
         /\ s \in Seq(Nat) /\ q \in Nat /\ q * KeyBits <= m
         /\ Feed!FirstKeys(n) \o KeysOf(s) = Feed!FirstKeys(n + q)
         /\ RestOf(s) = From(n + q, m - q * KeyBits)
<1>. DEFINE s == From(n, m)  q == Len(KeysOf(s))  K == KeysOf(s)  F == Feed!FirstKeys(n)
<1>0. n * KeyBits \in Nat /\ KeyBits \in Nat BY SizeAssumption
<1>1. s \in Seq(Nat) /\ Len(s) = m /\ \A i \in 1..m : s[i] = n * KeyBits + i BY <1>0 DEF From
<1>. HIDE DEF s
<1>2. /\ K \in Seq(Key) /\ q \in Nat /\ q = m \div KeyBits /\ RestOf(s) \in Seq(Nat)
      /\ Len(RestOf(s)) = m - q * KeyBits
      /\ \A k \in 1..q, i \in 1..KeyBits :
           /\ (k - 1) * KeyBits + i \in 1..m
           /\ K[k][i] = s[(k - 1) * KeyBits + i]
      /\ \A j \in 1..Len(RestOf(s)) : q * KeyBits + j \in 1..m /\ RestOf(s)[j] = s[q * KeyBits + j]
  <2>1. K \in Seq(Key) /\ RestOf(s) \in Seq(Nat) /\ q = m \div KeyBits BY <1>1, CutKeys
  <2>2. q \in Nat BY <2>1
  <2>3. Len(RestOf(s)) = m - q * KeyBits BY <1>1, CutKeys
  <2>4. \A k \in 1..q, i \in 1..KeyBits :
           /\ (k - 1) * KeyBits + i \in 1..m
           /\ K[k][i] = s[(k - 1) * KeyBits + i]
    BY <1>1, CutKeys
  <2>5. \A j \in 1..Len(RestOf(s)) : q * KeyBits + j \in 1..m /\ RestOf(s)[j] = s[q * KeyBits + j]
    BY <1>1, CutKeys
  <2>. QED BY <2>1, <2>2, <2>3, <2>4, <2>5
<1>3. q * KeyBits <= m /\ q * KeyBits \in Nat BY <1>0, <1>2, Cuts
<1>4. F \in Seq(Key) /\ Len(F) = n /\ \A k \in 1..n : F[k] = Feed!KeyAt(k)
  BY FirstKeysType DEF Feed!FirstKeys
<1>9. q = Len(K) OBVIOUS
<1>. HIDE DEF q, K, F
<1>5. ASSUME NEW k \in 1..q PROVE K[k] = Feed!KeyAt(n + k)
  <2>1. k - 1 \in Nat /\ (n + k) - 1 = n + (k - 1) BY <1>2
  <2>2. (n + (k - 1)) * KeyBits = n * KeyBits + (k - 1) * KeyBits /\ (k - 1) * KeyBits \in Nat
    BY <1>0, <2>1
  <2>. DEFINE a == (k - 1) * KeyBits  b == n * KeyBits  c == ((n + k) - 1) * KeyBits
  <2>3. a \in Nat /\ b \in Nat /\ c = b + a BY <1>0, <2>1, <2>2
  <2>4. \A i \in 1..KeyBits : a + i \in 1..m /\ K[k][i] = s[a + i] BY <1>2
  <2>5. K[k] \in Key BY <1>2, <1>9
  <2>8. \A i \in 1..m : s[i] = b + i BY <1>1
  <2>. HIDE DEF a, b, c
  <2>6. \A i \in 1..KeyBits : K[k][i] = c + i BY <1>0, <2>3, <2>4, <2>8
  <2>7. K[k] = [i \in 1..KeyBits |-> c + i] BY <2>5, <2>6 DEF Key
  <2>. QED BY <2>7 DEF Feed!KeyAt, c
<1>6. F \o K = Feed!FirstKeys(n + q)
  <2>1. Len(F \o K) = n + q /\ F \o K \in Seq(Key) BY <1>2, <1>4, CatType, <1>9
  <2>2. ASSUME NEW k \in 1..(n + q) PROVE (F \o K)[k] = Feed!KeyAt(k)
    <3>1. CASE k <= n
      <4>1. k \in 1..n BY <3>1
      <4>2. (F \o K)[k] = F[k] BY <1>2, <1>4, <4>1, CatType
      <4>. QED BY <1>4, <4>1, <4>2
    <3>2. CASE k > n
      <4>1. k - n \in 1..q /\ n + (k - n) = k BY <1>2, <3>2
      <4>2. (F \o K)[n + (k - n)] = K[k - n] BY <1>2, <1>4, <4>1, CatType, <1>9
      <4>. QED BY <1>5, <4>1, <4>2
    <3>3. q \in Nat BY <1>2
    <3>4. k <= n \/ k > n BY <3>3
    <3>. QED BY <3>1, <3>2, <3>4
  <2>3. F \o K = [k \in 1..(n + q) |-> (F \o K)[k]]
    <3>1. \A u \in Seq(Key) : u = [k \in 1..Len(u) |-> u[k]] OBVIOUS
    <3>. QED BY <2>1, <3>1
  <2>. QED BY <2>2, <2>3 DEF Feed!FirstKeys
<1>7. RestOf(s) = From(n + q, m - q * KeyBits)
  <2>1. (n + q) * KeyBits = n * KeyBits + q * KeyBits BY <1>0, <1>2
  <2>. DEFINE a == q * KeyBits  b == n * KeyBits  c == (n + q) * KeyBits
  <2>2. a \in Nat /\ b \in Nat /\ c = b + a BY <1>0, <1>3, <2>1
  <2>3. \A j \in 1..Len(RestOf(s)) : a + j \in 1..m /\ RestOf(s)[j] = s[a + j] BY <1>2
  <2>4. \A i \in 1..m : s[i] = b + i BY <1>1
  <2>5. Len(RestOf(s)) = m - a /\ RestOf(s) \in Seq(Nat) BY <1>2
  <2>. HIDE DEF a, b, c
  <2>6. \A j \in 1..(m - a) : RestOf(s)[j] = c + j BY <2>2, <2>3, <2>4, <2>5
  <2>7. RestOf(s) = [j \in 1..(m - a) |-> c + j] BY <2>5, <2>6
  <2>. QED BY <2>7 DEF From, a, c
<1>. QED BY <1>1, <1>2, <1>3, <1>6, <1>7 DEF s, q, K, F

\* What a block is.
LEMMA BlockType ==
  ASSUME NEW b \in Nat
  PROVE  /\ Block(b + 1) \in Seq(Nat) /\ Len(Block(b + 1)) = BlockBits
         /\ \A i \in 1..BlockBits : Block(b + 1)[i] = b * BlockBits + i
<1>1. b * BlockBits \in Nat /\ (b + 1) - 1 = b BY SizeAssumption
<1>. QED BY <1>1, SizeAssumption DEF Block

\* What a message which was read leaves of the stream.
LEMMA SplitType ==
  ASSUME NEW s \in Seq(Key), NEW n \in 1..Len(s)
  PROVE  /\ SubSeq(s, 1, n) \in Seq(Key) /\ SubSeq(s, n + 1, Len(s)) \in Seq(Key)
         /\ SubSeq(s, 1, n) \o SubSeq(s, n + 1, Len(s)) = s
OBVIOUS

\* Where a handler can be.
Places == {"none", "called", "wait", "tested", "asleep", "send", "loop", "detach", "close", "done"}

\* TypeOK holds at the start.
LEMMA TypeInit == Init => TypeOK
<1>1. <<>> \in Seq(Nat) /\ <<>> \in Seq(Key) OBVIOUS
<1>2. 0 \in 0..MaxBlocks /\ 0 \in 0..MaxCalls /\ 0 \in 0..MaxLost BY BoundAssumption
<1>3. SUFFICES ASSUME Init PROVE TypeOK OBVIOUS
<1>4. /\ carry \in [Ends -> Seq(Nat)] /\ cut \in [Ends -> Seq(Key)] /\ received \in [Ends -> Seq(Key)]
      /\ wire \in [Ends -> Seq(Key)] /\ store \in [Ends -> Seq(Key)]
  BY <1>1, <1>3 DEF Init
<1>5. batch \in [Ends -> [Calls -> Seq(Key)]] BY <1>1, <1>3 DEF Init
<1>6. handler \in [Ends -> [Calls -> Places]] BY <1>3 DEF Init, Places
<1>. QED BY <1>2, <1>3, <1>4, <1>5, <1>6 DEF Init, TypeOK, Places

\* Only the latest call can be in use: a later one has not been made, an earlier one
\* was cancelled, and a handler has a batch only while it sends.
Control(x) ==
  /\ \A c \in Calls : c > call[x] => handler[x][c] = "none"
  /\ \A c \in Calls : handler[x][c] # "send" => batch[x][c] = <<>>
  /\ \A c \in Calls : c < call[x] => c \in cancelled[x]
  /\ call[x] > 0 => agent[x] = "reading" \/ call[x] \in cancelled[x]
  /\ agent[x] = "reading" => call[x] > 0

\* Every step keeps TypeOK.
LEMMA TypeNext ==
  ASSUME TypeOK, \A x \in Ends : Control(x), [Next]_vars
  PROVE  TypeOK'
<1>. USE DEF TypeOK, Goes, AgentGoes, upstream, chain, device, client
<1>1. CASE UNCHANGED vars BY <1>1 DEF vars
<1>2. CASE AnswerLost
  <2>1. "bob" \in Ends /\ brought["bob"] \in 0..MaxBlocks /\ brought["bob"] < MaxBlocks
    BY <1>2 DEF AnswerLost, Due
  <2>2. brought' \in [Ends -> 0..MaxBlocks] BY <1>2, <2>1, BoundAssumption DEF AnswerLost
  <2>3. lost' \in 0..MaxLost BY <1>2, BoundAssumption DEF AnswerLost
  <2>. QED BY <1>2, <2>2, <2>3 DEF AnswerLost
<1>3. CASE RunSession BY <1>3 DEF RunSession
<1>4. ASSUME NEW x \in Ends, Bring(x) PROVE TypeOK'
  <2>. DEFINE bits == carry[x] \o Block(brought[x] + 1)
  <2>1. brought[x] \in Nat /\ brought[x] < MaxBlocks /\ carry[x] \in Seq(Nat)
    BY <1>4, BoundAssumption DEF Bring, Due
  <2>2. bits \in Seq(Nat) BY <2>1, BlockType
  <2>3. KeysOf(bits) \in Seq(Key) /\ RestOf(bits) \in Seq(Nat) BY <2>2, CutKeys
  <2>4. brought' = [brought EXCEPT ![x] = @ + 1] /\ UNCHANGED <<running, listening, device, client, lost, cutOff>>
        /\ cut' = [cut EXCEPT ![x] = IF listening[x] THEN KeysOf(bits) ELSE <<>>]
        /\ carry' = [carry EXCEPT ![x] = IF listening[x] THEN RestOf(bits) ELSE bits]
    BY <1>4 DEF Bring
  <2>. HIDE DEF bits
  <2>5. brought' \in [Ends -> 0..MaxBlocks] BY <2>1, <2>4, BoundAssumption
  <2>6. cut' \in [Ends -> Seq(Key)] BY <2>3, <2>4
  <2>7. carry' \in [Ends -> Seq(Nat)] BY <2>2, <2>3, <2>4
  <2>. QED BY <2>4, <2>5, <2>6, <2>7
<1>5. ASSUME NEW x \in Ends, Emit(x) PROVE TypeOK'
  <2>1. cut' \in [Ends -> Seq(Key)] BY <1>5 DEF Emit
  <2>2. received' \in [Ends -> Seq(Key)]
    <3>1. received[x] \o cut[x] \in Seq(Key) OBVIOUS
    <3>2. received' = received \/ received' = [received EXCEPT ![x] = received[x] \o cut[x]]
      BY <1>5 DEF Emit
    <3>. QED BY <3>1, <3>2
  <2>3. handler' \in [Ends -> [Calls -> Places]]
    <3>1. CASE handler' = handler BY <3>1 DEF Places
    <3>2. ASSUME NEW c \in Calls, handler' = [handler EXCEPT ![x][c] = "wait"]
          PROVE  handler' \in [Ends -> [Calls -> Places]]
      BY <3>2 DEF Places
    <3>. QED BY <1>5, <3>1, <3>2 DEF Emit, At
  <2>. QED BY <1>5, <2>1, <2>2, <2>3 DEF Emit, Places
<1>6. ASSUME NEW x \in Ends, PrepHop(x) PROVE TypeOK'
  <2>1. call[x] + 1 \in Calls /\ call[x] \in Nat BY <1>6, BoundAssumption DEF PrepHop, Calls
  <2>2. call' \in [Ends -> 0..MaxCalls] BY <1>6, <2>1, BoundAssumption DEF PrepHop, Calls
  <2>. QED BY <1>6, <2>1, <2>2 DEF PrepHop
<1>7. ASSUME NEW x \in Ends, Read(x) PROVE TypeOK'
  <2>1. PICK n \in 1..Len(wire[x]) :
          /\ store' = [store EXCEPT ![x] = @ \o SubSeq(wire[x], 1, n)]
          /\ wire' = [wire EXCEPT ![x] = SubSeq(@, n + 1, Len(@))]
    BY <1>7 DEF Read
  <2>2. wire[x] \in Seq(Key) /\ store[x] \in Seq(Key) OBVIOUS
  <2>3. SubSeq(wire[x], 1, n) \in Seq(Key) /\ SubSeq(wire[x], n + 1, Len(wire[x])) \in Seq(Key)
    BY <2>2, SplitType
  <2>4. store' \in [Ends -> Seq(Key)] /\ wire' \in [Ends -> Seq(Key)] BY <2>1, <2>2, <2>3
  <2>. QED BY <1>7, <2>4 DEF Read
<1>8. ASSUME NEW x \in Ends, Stop(x) PROVE TypeOK'
  <2>1. call[x] \in Calls BY <1>8, BoundAssumption DEF Stop, Calls, Control
  <2>2. cancelled' \in [Ends -> SUBSET Calls] BY <1>8, <2>1 DEF Stop
  <2>3. wire' \in [Ends -> Seq(Key)] BY <1>8 DEF Stop
  <2>. QED BY <1>8, <2>2, <2>3 DEF Stop
<1>9. ASSUME NEW x \in Ends, EndSession(x) PROVE TypeOK' BY <1>9 DEF EndSession
<1>10. ASSUME NEW x \in Ends, NotifyAll(x) PROVE TypeOK' BY <1>10 DEF NotifyAll
<1>11. ASSUME NEW x \in Ends, EndSessionFails(x) PROVE TypeOK' BY <1>11, BoundAssumption DEF EndSessionFails
<1>12. ASSUME NEW x \in Ends, NEW c \in Calls, Attach(x, c) PROVE TypeOK' BY <1>12 DEF Attach
<1>13. ASSUME NEW x \in Ends, NEW c \in Calls, Test(x, c) PROVE TypeOK'
  <2>1. shutdown' \in [Ends -> BOOLEAN]
    <3>1. (shutdown[x] \/ c \in cancelled[x]) \in BOOLEAN OBVIOUS
    <3>. QED BY <1>13, <3>1 DEF Test
  <2>2. handler' \in [Ends -> [Calls -> Places]]
    <3>1. \E p \in {"send", "tested"} : handler' = [handler EXCEPT ![x][c] = p] BY <1>13 DEF Test
    <3>. QED BY <3>1 DEF Places
  <2>3. batch' \in [Ends -> [Calls -> Seq(Key)]]
    <3>1. CASE batch' = batch BY <3>1
    <3>2. CASE batch' = [batch EXCEPT ![x][c] = received[x]] BY <3>2
    <3>. QED BY <1>13, <3>1, <3>2 DEF Test
  <2>4. received' \in [Ends -> Seq(Key)]
    <3>1. CASE received' = received BY <3>1
    <3>2. CASE received' = [received EXCEPT ![x] = <<>>] BY <3>2
    <3>. QED BY <1>13, <3>1, <3>2 DEF Test
  <2>. QED BY <1>13, <2>1, <2>2, <2>3, <2>4 DEF Test, Places
<1>14. ASSUME NEW x \in Ends, NEW c \in Calls, Sleep(x, c) PROVE TypeOK' BY <1>14 DEF Sleep
<1>15. ASSUME NEW x \in Ends, NEW c \in Calls, Send(x, c) PROVE TypeOK'
  <2>1. wire[x] \o batch[x][c] \in Seq(Key) OBVIOUS
  <2>2. wire' \in [Ends -> Seq(Key)] BY <1>15, <2>1 DEF Send
  <2>3. batch' \in [Ends -> [Calls -> Seq(Key)]] BY <1>15 DEF Send
  <2>. QED BY <1>15, <2>2, <2>3 DEF Send
<1>16. ASSUME NEW x \in Ends, NEW c \in Calls, Loop(x, c) PROVE TypeOK' BY <1>16 DEF Loop
<1>17. ASSUME NEW x \in Ends, NEW c \in Calls, Detach(x, c) PROVE TypeOK' BY <1>17 DEF Detach
<1>18. ASSUME NEW x \in Ends, NEW c \in Calls, Close(x, c) PROVE TypeOK' BY <1>18 DEF Close
<1>. QED
  BY <1>1, <1>2, <1>3, <1>4, <1>5, <1>6, <1>7, <1>8, <1>9, <1>10, <1>11, <1>12, <1>13, <1>14,
     <1>15, <1>16, <1>17, <1>18 DEF Next, HandlerStep

\* All that is stored or on its way to the store, the oldest first.
Line(x) == store[x] \o wire[x] \o BatchOf(x) \o received[x] \o cut[x]

\* The line goes forward, with what is carried over behind it and nothing that was
\* not brought yet.
Order(x) ==
  /\ Feed!Forward(Line(x)) /\ Rising(carry[x])
  /\ \A b \in Bits(Line(x)), j \in 1..Len(carry[x]) : b < carry[x][j]
  /\ \A b \in Bits(Line(x)) : b <= brought[x] * BlockBits
  /\ \A j \in 1..Len(carry[x]) : carry[x][j] <= brought[x] * BlockBits

\* The line is the beginning of the stream, and what is carried over follows it.
Streamed(x) ==
  LET n == Len(Line(x)) IN
  /\ Line(x) = Feed!FirstKeys(n)
  /\ \E m \in Nat : brought[x] * BlockBits = n * KeyBits + m /\ carry[x] = From(n, m)

\* While the feed is not interrupted the one call reads: no handler shuts down, and
\* a key is cut only for a listener.
Undisturbed(x) ==
  /\ IF call[x] = 0 THEN agent[x] = "off" ELSE call[x] = 1 /\ agent[x] = "reading"
  /\ cancelled[x] = {} /\ ~shutdown[x]
  /\ \A c \in Calls : handler[x][c] \notin {"detach", "close", "done"}
  /\ cut[x] # <<>> => listening[x]

\* The inductive invariant of one end.
EndInv(x) == Control(x) /\ Order(x) /\ (~cutOff[x] => Undisturbed(x) /\ Streamed(x))

\* A step which does not touch end y.
Same(y) ==
  /\ brought'[y] = brought[y] /\ carry'[y] = carry[y] /\ cut'[y] = cut[y]
  /\ listening'[y] = listening[y] /\ received'[y] = received[y] /\ shutdown'[y] = shutdown[y]
  /\ handler'[y] = handler[y] /\ batch'[y] = batch[y] /\ cancelled'[y] = cancelled[y]
  /\ call'[y] = call[y] /\ agent'[y] = agent[y] /\ wire'[y] = wire[y] /\ store'[y] = store[y]
  /\ cutOff'[y] = cutOff[y]

\* Such a step keeps the invariant of y.
LEMMA SameEnd ==
  ASSUME NEW y \in Ends, Same(y), EndInv(y)
  PROVE  EndInv(y)'
<1>1. Line(y)' = Line(y) BY DEF Same, Line, BatchOf
<1>2. Control(y)' BY DEF Same, EndInv, Control
<1>3. Order(y)' BY <1>1 DEF Same, EndInv, Order
<1>4. Undisturbed(y) => Undisturbed(y)' BY DEF Same, Undisturbed
<1>5. Streamed(y) => Streamed(y)' BY <1>1 DEF Same, Streamed
<1>. QED BY <1>2, <1>3, <1>4, <1>5 DEF EndInv, Same

\* Concatenation is associative.
LEMMA CatAssoc ==
  ASSUME NEW s \in Seq(Key), NEW t \in Seq(Key), NEW u \in Seq(Key)
  PROVE  (s \o t) \o u = s \o (t \o u)
OBVIOUS

\* Concatenation under a name of its own, for steps which need only its laws.
Cat(s, t) == s \o t

\* Two ways of writing a line.
LEMMA CatFive ==
  ASSUME NEW a \in Seq(Key), NEW b \in Seq(Key), NEW c \in Seq(Key), NEW d \in Seq(Key),
         NEW e \in Seq(Key)
  PROVE  Cat(a, Cat(Cat(Cat(b, c), d), e)) = Cat(Cat(Cat(Cat(a, b), c), d), e)
<1>1. \A s, t \in Seq(Key) : Cat(s, t) \in Seq(Key) BY CatType DEF Cat
<1>2. \A s, t, u \in Seq(Key) : Cat(Cat(s, t), u) = Cat(s, Cat(t, u)) BY CatAssoc DEF Cat
<1>. DEFINE f == Cat(b, c)  g == Cat(f, d)
<1>3. f \in Seq(Key) BY <1>1
<1>4. Cat(a, f) = Cat(Cat(a, b), c) BY <1>2
<1>. HIDE DEF f
<1>5. g \in Seq(Key) BY <1>1, <1>3
<1>6. Cat(a, g) = Cat(Cat(a, f), d) BY <1>2, <1>3
<1>. HIDE DEF g
<1>7. Cat(a, Cat(g, e)) = Cat(Cat(a, g), e) BY <1>2, <1>5
<1>8. Cat(a, Cat(g, e)) = Cat(Cat(Cat(Cat(a, b), c), d), e) BY <1>4, <1>6, <1>7
<1>. QED BY <1>8 DEF f, g

\* The parts of the line are runs of keys, and it is the store with the pipeline behind it.
LEMMA LineType ==
  ASSUME TypeOK, NEW x \in Ends
  PROVE  /\ store[x] \in Seq(Key) /\ wire[x] \in Seq(Key) /\ BatchOf(x) \in Seq(Key)
         /\ received[x] \in Seq(Key) /\ cut[x] \in Seq(Key) /\ Line(x) \in Seq(Key)
         /\ Line(x) = store[x] \o Pipeline(x)
         /\ carry[x] \in Seq(Nat) /\ brought[x] \in Nat
<1>1. store[x] \in Seq(Key) /\ wire[x] \in Seq(Key) /\ received[x] \in Seq(Key) /\ cut[x] \in Seq(Key)
      /\ carry[x] \in Seq(Nat)
  BY DEF TypeOK
<1>2. BatchOf(x) \in Seq(Key)
  <2>1. CASE call[x] = 0 BY <2>1 DEF BatchOf
  <2>2. CASE call[x] # 0
    <3>1. call[x] \in Calls BY <2>2, BoundAssumption DEF TypeOK, Calls
    <3>. QED BY <2>2, <3>1 DEF BatchOf, TypeOK
  <2>. QED BY <2>1, <2>2
<1>3. Line(x) \in Seq(Key) BY <1>1, <1>2, CatType DEF Line
<1>4. Line(x) = store[x] \o Pipeline(x)
  <2>. DEFINE a == store[x]  b == wire[x]  c == BatchOf(x)  d == received[x]  e == cut[x]
  <2>1. a \in Seq(Key) /\ b \in Seq(Key) /\ c \in Seq(Key) /\ d \in Seq(Key) /\ e \in Seq(Key)
    BY <1>1, <1>2
  <2>. HIDE DEF a, b, c, d, e
  <2>2. Cat(a, Cat(Cat(Cat(b, c), d), e)) = Cat(Cat(Cat(Cat(a, b), c), d), e) BY <2>1, CatFive
  <2>. QED BY <2>2 DEF Cat, Line, Pipeline, a, b, c, d, e
<1>5. brought[x] \in Nat BY BoundAssumption DEF TypeOK
<1>. QED BY <1>1, <1>2, <1>3, <1>4, <1>5

\* Neither Order nor Streamed is about anything but the line, the rest and the blocks.
LEMMA Unmoved ==
  ASSUME NEW x \in Ends, carry'[x] = carry[x], brought'[x] = brought[x], Line(x)' = Line(x)
  PROVE  (Order(x) => Order(x)') /\ (Streamed(x) => Streamed(x)')
BY DEF Order, Streamed

\* A block which KeyConverter cuts extends the line by the next keys of the stream.
LEMMA BringOrder ==
  ASSUME TypeOK, TypeOK', NEW x \in Ends, EndInv(x), Bring(x)
  PROVE  EndInv(x)'
<1>. DEFINE bits == carry[x] \o Block(brought[x] + 1)  b == brought[x]
<1>1. /\ b \in Nat /\ cut[x] = <<>> /\ brought'[x] = b + 1
      /\ cut'[x] = IF listening[x] THEN KeysOf(bits) ELSE <<>>
      /\ carry'[x] = IF listening[x] THEN RestOf(bits) ELSE bits
      /\ UNCHANGED <<running, listening, device, client, lost, cutOff>>
  BY LineType DEF Bring, Due, TypeOK
<1>2. Line(x)' = Line(x) \o cut'[x]
  <2>1. BatchOf(x)' = BatchOf(x) BY <1>1 DEF BatchOf, device, client
  <2>2. Line(x)' = store[x] \o wire[x] \o BatchOf(x) \o received[x] \o cut'[x]
    BY <1>1, <2>1 DEF Line, device, client
  <2>3. \A s \in Seq(Key) : s \o <<>> = s OBVIOUS
  <2>4. store[x] \o wire[x] \o BatchOf(x) \o received[x] \in Seq(Key) BY LineType, CatType
  <2>5. Line(x) = store[x] \o wire[x] \o BatchOf(x) \o received[x] BY <1>1, <2>3, <2>4 DEF Line
  <2>. QED BY <2>2, <2>5
<1>3. /\ bits \in Seq(Nat) /\ Len(bits) = Len(carry[x]) + BlockBits
      /\ \A i \in 1..Len(carry[x]) : bits[i] = carry[x][i]
      /\ \A i \in 1..BlockBits : bits[Len(carry[x]) + i] = b * BlockBits + i
  <2>1. \A s, t \in Seq(Nat) : /\ s \o t \in Seq(Nat) /\ Len(s \o t) = Len(s) + Len(t)
                               /\ \A i \in 1..Len(s) : (s \o t)[i] = s[i]
                               /\ \A i \in 1..Len(t) : (s \o t)[Len(s) + i] = t[i]
    OBVIOUS
  <2>2. carry[x] \in Seq(Nat) BY LineType
  <2>3. /\ Block(b + 1) \in Seq(Nat) /\ Len(Block(b + 1)) = BlockBits
        /\ \A i \in 1..BlockBits : Block(b + 1)[i] = b * BlockBits + i
    BY <1>1, BlockType
  <2>. DEFINE k == Block(b + 1)  l == carry[x]
  <2>4. l \in Seq(Nat) /\ k \in Seq(Nat) BY <2>2, <2>3
  <2>5. /\ l \o k \in Seq(Nat) /\ Len(l \o k) = Len(l) + Len(k)
        /\ \A i \in 1..Len(l) : (l \o k)[i] = l[i]
        /\ \A i \in 1..Len(k) : (l \o k)[Len(l) + i] = k[i]
    <3>. HIDE DEF k, l
    <3>. QED BY <2>1, <2>4
  <2>6. Len(k) = BlockBits /\ \A i \in 1..BlockBits : k[i] = b * BlockBits + i BY <2>3
  <2>7. bits = l \o k OBVIOUS
  <2>. HIDE DEF bits, k, b
  <2>. QED BY <2>5, <2>6, <2>7
<1>4. b * BlockBits \in Nat /\ (b + 1) * BlockBits = b * BlockBits + BlockBits /\ BlockBits \in Nat
  BY <1>1, SizeAssumption
<1>. DEFINE B == b * BlockBits  n == Len(carry[x])
<1>5. B \in Nat /\ n \in Nat /\ (b + 1) * BlockBits = B + BlockBits /\ carry[x] \in Seq(Nat)
  BY <1>4, LineType
<1>6. \A j \in 1..n : carry[x][j] <= B BY DEF EndInv, Order
<1>7. \A i \in 1..Len(bits) : \/ i \in 1..n /\ bits[i] = carry[x][i] /\ bits[i] <= B
                              \/ i - n \in 1..BlockBits /\ bits[i] = B + (i - n)
  <2>. HIDE DEF B, n, bits
  <2>1. \A i \in 1..n : bits[i] = carry[x][i] BY <1>3 DEF n
  <2>2. \A i \in 1..BlockBits : bits[n + i] = B + i BY <1>3 DEF n, B
  <2>3. Len(bits) = n + BlockBits BY <1>3 DEF n
  <2>4. ASSUME NEW i \in 1..Len(bits), i \notin 1..n PROVE i - n \in 1..BlockBits /\ bits[i] = B + (i - n)
    <3>1. i - n \in 1..BlockBits /\ n + (i - n) = i BY <1>4, <1>5, <2>3, <2>4
    <3>. QED BY <2>2, <3>1
  <2>. QED BY <1>6, <2>1, <2>4
<1>8. Rising(carry[x]) BY DEF EndInv, Order
<1>9. Rising(bits)
  <2>. HIDE DEF B, n, bits
  <2>1. SUFFICES ASSUME NEW i \in 1..Len(bits), NEW j \in 1..Len(bits), i < j PROVE bits[i] < bits[j]
    BY DEF Rising
  <2>2. CASE i \in 1..n /\ j \in 1..n
    <3>1. bits[i] = carry[x][i] /\ bits[j] = carry[x][j] BY <1>3, <2>2 DEF n
    <3>. QED BY <1>8, <2>1, <2>2, <3>1 DEF Rising, n
  <2>3. CASE i \in 1..n /\ j \notin 1..n
    <3>1. bits[i] = carry[x][i] /\ bits[i] <= B /\ bits[i] \in Nat BY <1>3, <1>6, <2>3 DEF n
    <3>2. j - n \in 1..BlockBits /\ bits[j] = B + (j - n) BY <1>7, <2>3
    <3>. QED BY <1>5, <3>1, <3>2
  <2>4. CASE i \notin 1..n
    <3>1. i - n \in 1..BlockBits /\ bits[i] = B + (i - n) BY <1>7, <2>4
    <3>2. j \notin 1..n BY <1>5, <2>1, <2>4
    <3>3. j - n \in 1..BlockBits /\ bits[j] = B + (j - n) BY <1>7, <3>2
    <3>. QED BY <1>5, <2>1, <3>1, <3>3
  <2>. QED BY <2>2, <2>3, <2>4
<1>10. \A i \in 1..Len(bits) : bits[i] <= B + BlockBits /\ bits[i] \in Nat
  <2>. HIDE DEF B, n, bits
  <2>1. \A i \in 1..Len(bits) : bits[i] \in Nat BY <1>3
  <2>2. \A i \in 1..Len(bits) : bits[i] <= B + BlockBits BY <1>4, <1>5, <1>7, <2>1
  <2>. QED BY <2>1, <2>2
<1>11. ASSUME NEW a \in Bits(Line(x)), NEW i \in 1..Len(bits) PROVE a < bits[i] /\ a \in Nat /\ a <= B
  <2>. HIDE DEF B, n, bits
  <2>1. a \in Nat
    <3>1. PICK m \in 1..Len(Line(x)), k \in 1..KeyBits : a = Line(x)[m][k] BY DEF Bits
    <3>2. Line(x)[m] \in Key BY LineType
    <3>. QED BY <3>1, <3>2 DEF Key
  <2>2. a <= B /\ \A j \in 1..n : a < carry[x][j] BY DEF EndInv, Order, B, b, n
  <2>3. CASE i \in 1..n /\ bits[i] = carry[x][i] BY <2>1, <2>2, <2>3
  <2>4. CASE i - n \in 1..BlockBits /\ bits[i] = B + (i - n) BY <1>5, <2>1, <2>2, <2>4
  <2>. QED BY <1>7, <2>1, <2>2, <2>3, <2>4
<1>12. Order(x)'
  <2>. HIDE DEF B, n, bits, b
  <2>1. CASE ~listening[x]
    <3>1. Line(x)' = Line(x) /\ carry'[x] = bits
      <4>1. \A s \in Seq(Key) : s \o <<>> = s OBVIOUS
      <4>. QED BY <1>1, <1>2, <2>1, <4>1, LineType
    <3>2. Len(bits) \in Nat /\ 1 \in 1..Len(bits) BY <1>3, <1>5, SizeAssumption DEF n
    <3>3. \A a \in Bits(Line(x)) : a <= B + BlockBits BY <1>4, <1>5, <1>11, <3>2
    <3>4. Feed!Forward(Line(x)) BY DEF EndInv, Order
    <3>. QED BY <1>1, <1>5, <1>9, <1>10, <1>11, <3>1, <3>3, <3>4 DEF Order, b
  <2>2. CASE listening[x]
    <3>. DEFINE K == KeysOf(bits)  R == RestOf(bits)
    <3>1. /\ Feed!Forward(K) /\ Rising(R) /\ K \in Seq(Key) /\ R \in Seq(Nat)
          /\ \A a \in Bits(K) : \E i \in 1..Len(bits) : a = bits[i]
          /\ \A a \in Bits(K), j \in 1..Len(R) : a < R[j]
          /\ \A j \in 1..Len(R) : \E i \in 1..Len(bits) : R[j] = bits[i]
      <4>1. K \in Seq(Key) /\ R \in Seq(Nat) /\ \A j \in 1..Len(R) : \E i \in 1..Len(bits) : R[j] = bits[i]
        BY <1>3, CutKeys
      <4>. QED BY <1>3, <1>9, <4>1, CutsForward
    <3>2. Line(x)' = Line(x) \o K /\ carry'[x] = R BY <1>1, <1>2, <2>2
    <3>. HIDE DEF K, R
    <3>3. Line(x) \in Seq(Key) BY LineType
    <3>4. Bits(Line(x)') = Bits(Line(x)) \union Bits(K) BY <3>1, <3>2, <3>3, BitsCat
    <3>5. Below(Bits(Line(x)), Bits(K)) BY <1>11, <3>1 DEF Below
    <3>6. Feed!Forward(Line(x)')
      <4>1. Feed!Forward(Line(x)) BY DEF EndInv, Order
      <4>. QED BY <3>1, <3>2, <3>3, <3>5, <4>1, ForwardCat
    <3>7. \A a \in Bits(Line(x)'), j \in 1..Len(R) : a < R[j] BY <1>11, <3>1, <3>4
    <3>8. \A a \in Bits(Line(x)') : a <= B + BlockBits
      <4>1. Len(bits) \in Nat /\ 1 \in 1..Len(bits) BY <1>3, <1>5, SizeAssumption DEF n
      <4>2. \A a \in Bits(Line(x)) : a <= B + BlockBits BY <1>4, <1>5, <1>11, <4>1
      <4>. QED BY <1>10, <3>1, <3>4, <4>2
    <3>9. \A j \in 1..Len(R) : R[j] <= B + BlockBits BY <1>10, <3>1
    <3>. QED BY <1>1, <1>5, <3>1, <3>2, <3>6, <3>7, <3>8, <3>9 DEF Order, b
  <2>. QED BY <2>1, <2>2
<1>13. Control(x)' BY <1>1 DEF EndInv, Control, device, client
<1>14. ASSUME ~cutOff[x] PROVE Undisturbed(x)' /\ Streamed(x)'
  <2>1. Undisturbed(x) /\ Streamed(x) BY <1>14 DEF EndInv
  <2>2. Undisturbed(x)' BY <1>1, <2>1 DEF Undisturbed, device, client
  <2>. DEFINE l == Len(Line(x))
  <2>3. PICK k \in Nat : B = l * KeyBits + k /\ carry[x] = From(l, k)
    BY <2>1 DEF Streamed
  <2>4. l \in Nat /\ Line(x) = Feed!FirstKeys(l) BY <2>1, LineType DEF Streamed
  <2>. HIDE DEF B, n, l, b
  <2>. DEFINE h == l * KeyBits
  <2>5. h \in Nat BY <2>4, SizeAssumption
  <2>6. bits = From(l, k + BlockBits)
    <3>1. B = h + k /\ carry[x] = [i \in 1..k |-> h + i] BY <2>3 DEF From
    <3>. HIDE DEF h, bits
    <3>2. n = k BY <3>1 DEF n
    <3>3. \A i \in 1..Len(bits) : bits[i] = h + i
      <4>1. ASSUME NEW i \in 1..n PROVE bits[i] = h + i BY <1>3, <3>1, <3>2 DEF n
      <4>2. ASSUME NEW i \in 1..Len(bits), i \notin 1..n PROVE bits[i] = h + i
        <5>1. bits[i] = B + (i - n) BY <1>7, <4>2
        <5>2. i \in Nat BY <1>3
        <5>. QED BY <1>5, <2>5, <3>1, <3>2, <5>1, <5>2
      <4>. QED BY <4>1, <4>2
    <3>4. Len(bits) = k + BlockBits BY <1>3, <3>2 DEF n
    <3>5. bits = [i \in 1..Len(bits) |-> bits[i]]
      <4>1. \A s \in Seq(Nat) : s = [i \in 1..Len(s) |-> s[i]] OBVIOUS
      <4>. QED BY <1>3, <4>1
    <3>6. bits = [i \in 1..(k + BlockBits) |-> h + i] BY <3>3, <3>4, <3>5
    <3>. QED BY <3>6 DEF From, h
  <2>7. brought'[x] * BlockBits = h + (k + BlockBits) /\ k + BlockBits \in Nat
    <3>1. brought'[x] * BlockBits = B + BlockBits BY <1>1, <1>5 DEF b
    <3>2. B = h + k BY <2>3
    <3>. HIDE DEF h
    <3>. QED BY <1>4, <2>5, <3>1, <3>2
  <2>8. CASE ~listening[x]
    <3>1. Line(x)' = Line(x) /\ carry'[x] = bits
      <4>1. \A s \in Seq(Key) : s \o <<>> = s OBVIOUS
      <4>. QED BY <1>1, <1>2, <2>8, <4>1, LineType
    <3>. HIDE DEF bits
    <3>2. Len(Line(x)') = l BY <3>1 DEF l
    <3>3. Line(x)' = Feed!FirstKeys(Len(Line(x)')) BY <2>4, <3>1, <3>2
    <3>4. carry'[x] = From(l, k + BlockBits) BY <2>6, <3>1
    <3>. QED BY <2>2, <2>7, <3>2, <3>3, <3>4 DEF Streamed
  <2>9. CASE listening[x]
    <3>. DEFINE q == Len(KeysOf(bits))  m == k + BlockBits
    <3>. HIDE DEF bits, m
    <3>0. bits = From(l, m) /\ m \in Nat BY <2>6, <2>7 DEF m
    <3>1. /\ q \in Nat /\ q * KeyBits <= m
          /\ Feed!FirstKeys(l) \o KeysOf(bits) = Feed!FirstKeys(l + q)
          /\ RestOf(bits) = From(l + q, m - q * KeyBits)
      BY <2>4, <3>0, StreamCut
    <3>2. Line(x)' = Feed!FirstKeys(l + q) /\ carry'[x] = RestOf(bits) BY <1>1, <1>2, <2>4, <2>9, <3>1
    <3>. HIDE DEF q
    <3>3. Len(Line(x)') = l + q BY <2>4, <3>1, <3>2, FirstKeysType
    <3>. DEFINE f == q * KeyBits  w == m - f
    <3>4. (l + q) * KeyBits = h + f /\ f \in Nat /\ f <= m BY <2>4, <3>1, SizeAssumption
    <3>5. carry'[x] = From(l + q, w) BY <3>1, <3>2
    <3>6. brought'[x] * BlockBits = h + m BY <2>7 DEF m
    <3>. HIDE DEF f, h
    <3>7. w \in Nat /\ h + m = (h + f) + w BY <2>5, <3>0, <3>4
    <3>. HIDE DEF w
    <3>8. brought'[x] * BlockBits = (l + q) * KeyBits + w BY <3>4, <3>6, <3>7
    <3>9. Line(x)' = Feed!FirstKeys(Len(Line(x)')) BY <3>2, <3>3
    <3>. QED BY <2>2, <3>3, <3>5, <3>7, <3>8, <3>9 DEF Streamed
  <2>. QED BY <2>8, <2>9
<1>. QED BY <1>1, <1>12, <1>13, <1>14 DEF EndInv

\* A line, by its parts.
Five(a, b, c, d, e) == a \o b \o c \o d \o e

\* Line is one, before and after a step.
LEMMA LineFive ==
  ASSUME NEW x
  PROVE  /\ Line(x) = Five(store[x], wire[x], BatchOf(x), received[x], cut[x])
         /\ Line(x)' = Five(store'[x], wire'[x], BatchOf(x)', received'[x], cut'[x])
BY DEF Line, Five

\* The laws of Cat.
LEMMA CatFacts ==
  /\ \A s, t \in Seq(Key) : Cat(s, t) \in Seq(Key)
  /\ \A s, t, u \in Seq(Key) : Cat(Cat(s, t), u) = Cat(s, Cat(t, u))
  /\ <<>> \in Seq(Key) /\ \A s \in Seq(Key) : Cat(s, <<>>) = s
<1>1. \A s, t \in Seq(Key) : Cat(s, t) \in Seq(Key) BY CatType DEF Cat
<1>2. \A s, t, u \in Seq(Key) : Cat(Cat(s, t), u) = Cat(s, Cat(t, u)) BY CatAssoc DEF Cat
<1>3. <<>> \in Seq(Key) /\ \A s \in Seq(Key) : Cat(s, <<>>) = s BY DEF Cat
<1>. QED BY <1>1, <1>2, <1>3

\* Passing keys on from one place to the next leaves the line as it is.
LEMMA Moves ==
  ASSUME NEW a \in Seq(Key), NEW b \in Seq(Key), NEW c \in Seq(Key), NEW d \in Seq(Key),
         NEW e \in Seq(Key), NEW f \in Seq(Key)
  PROVE  /\ Five(a, Cat(b, f), c, d, e) = Five(Cat(a, b), f, c, d, e)
         /\ Five(a, b, c, d, e) = Five(a, Cat(b, c), <<>>, d, e)
         /\ Five(a, b, <<>>, d, e) = Five(a, b, d, <<>>, e)
         /\ Five(a, b, c, d, e) = Five(a, b, c, Cat(d, e), <<>>)
<1>. DEFINE ab == Cat(a, b)  abc == Cat(ab, c)  abcd == Cat(abc, d)
<1>1. ab \in Seq(Key) /\ abc \in Seq(Key) /\ abcd \in Seq(Key) BY CatFacts
<1>2. Cat(a, Cat(b, f)) = Cat(ab, f) BY CatFacts
<1>3. Cat(a, Cat(b, c)) = abc /\ Cat(a, Cat(b, c)) \in Seq(Key) BY CatFacts
<1>. HIDE DEF ab
<1>4. Cat(ab, <<>>) = ab /\ Cat(Cat(ab, d), <<>>) = Cat(ab, d) BY <1>1, CatFacts
<1>. HIDE DEF abc
<1>5. Cat(abc, Cat(d, e)) = Cat(abcd, e) /\ Cat(abc, <<>>) = abc BY <1>1, CatFacts
<1>. HIDE DEF abcd
<1>6. Cat(Cat(abc, Cat(d, e)), <<>>) = Cat(abcd, e) BY <1>1, <1>5, CatFacts
<1>7. Five(a, Cat(b, f), c, d, e) = Five(Cat(a, b), f, c, d, e)
  <2>1. Cat(Cat(Cat(Cat(a, Cat(b, f)), c), d), e) = Cat(Cat(Cat(Cat(Cat(a, b), f), c), d), e)
    BY <1>2 DEF ab
  <2>. QED BY <2>1 DEF Five, Cat
<1>8. Five(a, b, c, d, e) = Five(a, Cat(b, c), <<>>, d, e)
  <2>1. Cat(Cat(Cat(Cat(a, Cat(b, c)), <<>>), d), e) = Cat(Cat(Cat(Cat(a, b), c), d), e)
    BY <1>3, <1>5 DEF ab, abc
  <2>. QED BY <2>1 DEF Five, Cat
<1>9. Five(a, b, <<>>, d, e) = Five(a, b, d, <<>>, e)
  <2>1. Cat(Cat(Cat(Cat(a, b), <<>>), d), e) = Cat(Cat(Cat(Cat(a, b), d), <<>>), e)
    BY <1>4 DEF ab
  <2>. QED BY <2>1 DEF Five, Cat
<1>10. Five(a, b, c, d, e) = Five(a, b, c, Cat(d, e), <<>>)
  <2>1. Cat(Cat(Cat(Cat(a, b), c), Cat(d, e)), <<>>) = Cat(Cat(Cat(Cat(a, b), c), d), e)
    BY <1>6 DEF ab, abc, abcd
  <2>. QED BY <2>1 DEF Five, Cat
<1>. QED BY <1>7, <1>8, <1>9, <1>10

\* The bits of a line, and what makes it go forward, by its parts.
AllBits(a, b, c, d, e) == Bits(a) \union Bits(b) \union Bits(c) \union Bits(d) \union Bits(e)
InOrder(a, b, c, d, e) ==
  /\ Feed!Forward(a) /\ Feed!Forward(b) /\ Feed!Forward(c) /\ Feed!Forward(d)
  /\ Feed!Forward(e)
  /\ Below(Bits(a), Bits(b))
  /\ Below(Bits(a) \union Bits(b), Bits(c))
  /\ Below(Bits(a) \union Bits(b) \union Bits(c), Bits(d))
  /\ Below(Bits(a) \union Bits(b) \union Bits(c) \union Bits(d), Bits(e))

\* They are those of the line.
LEMMA FiveForward ==
  ASSUME NEW a \in Seq(Key), NEW b \in Seq(Key), NEW c \in Seq(Key), NEW d \in Seq(Key),
         NEW e \in Seq(Key)
  PROVE  /\ Bits(Five(a, b, c, d, e)) = AllBits(a, b, c, d, e)
         /\ Feed!Forward(Five(a, b, c, d, e)) <=> InOrder(a, b, c, d, e)
<1>. DEFINE ab == a \o b  abc == ab \o c  abcd == abc \o d
<1>1. ab \in Seq(Key) BY CatType
<1>2. Bits(ab) = Bits(a) \union Bits(b) BY BitsCat
<1>3. Feed!Forward(ab) <=> Feed!Forward(a) /\ Feed!Forward(b) /\ Below(Bits(a), Bits(b)) BY ForwardCat
<1>. HIDE DEF ab
<1>4. abc \in Seq(Key) BY <1>1, CatType
<1>5. Bits(abc) = Bits(ab) \union Bits(c) BY <1>1, BitsCat
<1>6. Feed!Forward(abc) <=> Feed!Forward(ab) /\ Feed!Forward(c) /\ Below(Bits(ab), Bits(c))
  BY <1>1, ForwardCat
<1>. HIDE DEF abc
<1>7. abcd \in Seq(Key) BY <1>4, CatType
<1>8. Bits(abcd) = Bits(abc) \union Bits(d) BY <1>4, BitsCat
<1>9. Feed!Forward(abcd) <=> Feed!Forward(abc) /\ Feed!Forward(d) /\ Below(Bits(abc), Bits(d))
  BY <1>4, ForwardCat
<1>. HIDE DEF abcd
<1>10. Bits(abcd \o e) = Bits(abcd) \union Bits(e) BY <1>7, BitsCat
<1>11. Feed!Forward(abcd \o e) <=> Feed!Forward(abcd) /\ Feed!Forward(e) /\ Below(Bits(abcd), Bits(e))
  BY <1>7, ForwardCat
<1>12. Five(a, b, c, d, e) = abcd \o e BY DEF Five, ab, abc, abcd
<1>. QED BY <1>2, <1>3, <1>5, <1>6, <1>8, <1>9, <1>10, <1>11, <1>12 DEF AllBits, InOrder

\* What is dropped on the way leaves the rest in order.
\* What is dropped on the way leaves the rest in order.
LEMMA Drops ==
  ASSUME NEW a \in Seq(Key), NEW b \in Seq(Key), NEW c \in Seq(Key), NEW d \in Seq(Key),
         NEW e \in Seq(Key),
         NEW s \in {b, <<>>}, NEW t \in {c, <<>>}, NEW u \in {d, <<>>}, NEW v \in {e, <<>>}
  PROVE  /\ Bits(Five(a, s, t, u, v)) \subseteq Bits(Five(a, b, c, d, e))
         /\ Feed!Forward(Five(a, b, c, d, e)) => Feed!Forward(Five(a, s, t, u, v))
<1>1. <<>> \in Seq(Key) /\ Bits(<<>>) = {} /\ Feed!Forward(<<>>) BY DEF Bits, Feed!Forward
<1>2. s \in Seq(Key) /\ t \in Seq(Key) /\ u \in Seq(Key) /\ v \in Seq(Key) BY <1>1
<1>3. /\ Bits(s) \subseteq Bits(b) /\ Bits(t) \subseteq Bits(c) /\ Bits(u) \subseteq Bits(d)
      /\ Bits(v) \subseteq Bits(e)
  BY <1>1
<1>4. /\ Feed!Forward(b) => Feed!Forward(s)
      /\ Feed!Forward(c) => Feed!Forward(t)
      /\ Feed!Forward(d) => Feed!Forward(u)
      /\ Feed!Forward(e) => Feed!Forward(v)
  BY <1>1
<1>5. \A S, T, U, V : S \subseteq U /\ T \subseteq V /\ Below(U, V) => Below(S, T) BY DEF Below
<1>6. Bits(Five(a, b, c, d, e)) = AllBits(a, b, c, d, e) BY FiveForward
<1>7. Bits(Five(a, s, t, u, v)) = AllBits(a, s, t, u, v) BY <1>2, FiveForward
<1>8. ASSUME Feed!Forward(Five(a, b, c, d, e)) PROVE Feed!Forward(Five(a, s, t, u, v))
  <2>0. InOrder(a, b, c, d, e) BY <1>8, FiveForward
  <2>1. /\ Feed!Forward(a) /\ Feed!Forward(b) /\ Feed!Forward(c) /\ Feed!Forward(d)
        /\ Feed!Forward(e)
        /\ Below(Bits(a), Bits(b))
        /\ Below(Bits(a) \union Bits(b), Bits(c))
        /\ Below(Bits(a) \union Bits(b) \union Bits(c), Bits(d))
        /\ Below(Bits(a) \union Bits(b) \union Bits(c) \union Bits(d), Bits(e))
    BY <2>0 DEF InOrder
  <2>2. Below(Bits(a), Bits(s)) BY <1>3, <1>5, <2>1
  <2>3. Below(Bits(a) \union Bits(s), Bits(t))
    <3>1. Bits(a) \union Bits(s) \subseteq Bits(a) \union Bits(b) BY <1>3
    <3>. QED BY <1>3, <1>5, <2>1, <3>1
  <2>4. Below(Bits(a) \union Bits(s) \union Bits(t), Bits(u))
    <3>1. Bits(a) \union Bits(s) \union Bits(t) \subseteq Bits(a) \union Bits(b) \union Bits(c) BY <1>3
    <3>. QED BY <1>3, <1>5, <2>1, <3>1
  <2>5. Below(Bits(a) \union Bits(s) \union Bits(t) \union Bits(u), Bits(v))
    <3>1. Bits(a) \union Bits(s) \union Bits(t) \union Bits(u)
            \subseteq Bits(a) \union Bits(b) \union Bits(c) \union Bits(d) BY <1>3
    <3>. QED BY <1>3, <1>5, <2>1, <3>1
  <2>6. Feed!Forward(s) /\ Feed!Forward(t) /\ Feed!Forward(u) /\ Feed!Forward(v) BY <1>4, <2>1
  <2>7. InOrder(a, s, t, u, v) BY <2>1, <2>2, <2>3, <2>4, <2>5, <2>6 DEF InOrder
  <2>. QED BY <1>2, <2>7, FiveForward
<1>. QED BY <1>3, <1>6, <1>7, <1>8 DEF AllBits

\* A step which leaves the line and the rest alone keeps the invariant.
LEMMA Still ==
  ASSUME NEW x \in Ends, EndInv(x), carry'[x] = carry[x], brought'[x] = brought[x],
         Line(x)' = Line(x), cutOff'[x] = cutOff[x], Control(x)',
         ~cutOff[x] => Undisturbed(x)'
  PROVE  EndInv(x)'
BY Unmoved DEF EndInv

\* So does one which drops keys of an end whose feed was interrupted.
LEMMA Thinned ==
  ASSUME TypeOK, NEW x \in Ends, EndInv(x), carry'[x] = carry[x],
         brought'[x] = brought[x], cutOff'[x], Control(x)', store'[x] = store[x],
         wire'[x] \in {wire[x], <<>>}, BatchOf(x)' \in {BatchOf(x), <<>>},
         received'[x] \in {received[x], <<>>}, cut'[x] \in {cut[x], <<>>}
  PROVE  EndInv(x)'
<1>1. /\ Bits(Line(x)') \subseteq Bits(Line(x))
      /\ Feed!Forward(Line(x)) => Feed!Forward(Line(x)')
  <2>. DEFINE a == store[x]  b == wire[x]  c == BatchOf(x)  d == received[x]  e == cut[x]
              s == wire'[x]  t == BatchOf(x)'  u == received'[x]  v == cut'[x]
  <2>1. a \in Seq(Key) /\ b \in Seq(Key) /\ c \in Seq(Key) /\ d \in Seq(Key) /\ e \in Seq(Key)
    BY LineType
  <2>2. s \in {b, <<>>} /\ t \in {c, <<>>} /\ u \in {d, <<>>} /\ v \in {e, <<>>} OBVIOUS
  <2>3. Line(x) = Five(a, b, c, d, e) /\ Line(x)' = Five(a, s, t, u, v) BY LineFive
  <2>. HIDE DEF a, b, c, d, e, s, t, u, v
  <2>. QED BY <2>1, <2>2, <2>3, Drops
<1>2. Order(x)' BY <1>1 DEF EndInv, Order
<1>. QED BY <1>2 DEF EndInv

\* Emit: the keys go to those which wait, or are dropped when nobody listens.
LEMMA EmitInv ==
  ASSUME TypeOK, NEW x \in Ends, EndInv(x), Emit(x) PROVE EndInv(x)'
<1>1. /\ carry' = carry /\ brought' = brought /\ cutOff' = cutOff /\ listening' = listening
      /\ store' = store /\ wire' = wire /\ batch' = batch /\ call' = call /\ agent' = agent
      /\ cancelled' = cancelled /\ shutdown' = shutdown
  BY DEF Emit, upstream, client
<1>2. cut'[x] = <<>> /\ received'[x] = IF listening[x] THEN received[x] \o cut[x] ELSE received[x]
  BY DEF Emit, TypeOK
<1>3. /\ \A c \in Calls : handler'[x][c] # handler[x][c] => handler[x][c] = "asleep" /\ handler'[x][c] = "wait"
  BY DEF Emit, Goes, At, TypeOK
<1>4. Control(x)' BY <1>1, <1>3 DEF EndInv, Control
<1>5. BatchOf(x)' = BatchOf(x) BY <1>1 DEF BatchOf
<1>6. ~cutOff[x] => Undisturbed(x)' /\ listening[x]
  BY <1>1, <1>2, <1>3 DEF EndInv, Undisturbed, Emit
<1>7. CASE listening[x]
  <2>1. Line(x)' = Line(x)
    <3>. DEFINE a == store[x]  b == wire[x]  c == BatchOf(x)  d == received[x]  e == cut[x]
    <3>1. a \in Seq(Key) /\ b \in Seq(Key) /\ c \in Seq(Key) /\ d \in Seq(Key) /\ e \in Seq(Key)
      BY LineType
    <3>2. Line(x) = Five(a, b, c, d, e) /\ Line(x)' = Five(a, b, c, Cat(d, e), <<>>)
      BY <1>1, <1>2, <1>5, <1>7, LineFive DEF Cat
    <3>. HIDE DEF a, b, c, d, e
    <3>. QED BY <3>1, <3>2, Moves
  <2>. QED BY <1>1, <1>4, <1>6, <2>1, Still
<1>8. CASE ~listening[x] BY <1>1, <1>2, <1>4, <1>5, <1>6, <1>8, Thinned
<1>. QED BY <1>7, <1>8

\* PrepHop: the batch of the call before it no longer counts.
LEMMA PrepHopInv ==
  ASSUME TypeOK, NEW x \in Ends, EndInv(x), PrepHop(x) PROVE EndInv(x)'
<1>1. /\ UNCHANGED <<upstream, chain, received, shutdown, batch, cancelled, wire, store, lost, cutOff>>
      /\ agent[x] = "off" /\ agent'[x] = "reading" /\ call[x] < MaxCalls
      /\ call[x] \in Nat /\ call'[x] = call[x] + 1 /\ call[x] + 1 \in Calls
      /\ \A c \in Calls : handler'[x][c] = IF c = call[x] + 1 THEN "called" ELSE handler[x][c]
  BY BoundAssumption DEF PrepHop, AgentGoes, Goes, TypeOK, Calls
<1>2. BatchOf(x)' = <<>>
  <2>1. call[x] + 1 > call[x] BY <1>1
  <2>2. handler[x][call[x] + 1] = "none" BY <1>1, <2>1 DEF EndInv, Control
  <2>3. batch[x][call[x] + 1] = <<>> BY <1>1, <2>2 DEF EndInv, Control
  <2>4. call'[x] # 0 BY <1>1
  <2>. QED BY <1>1, <2>3, <2>4 DEF BatchOf
<1>3. Control(x)'
  <2>1. \A c \in Calls : c \in Nat BY DEF Calls
  <2>2. \A c \in Calls : c > call'[x] => handler'[x][c] = "none"
    BY <1>1, <2>1 DEF EndInv, Control
  <2>3. \A c \in Calls : handler'[x][c] # "send" => batch'[x][c] = <<>>
    <3>1. SUFFICES ASSUME NEW c \in Calls, handler'[x][c] # "send" PROVE batch[x][c] = <<>> BY <1>1
    <3>2. handler[x][c] # "send" \/ c = call[x] + 1 BY <1>1, <3>1
    <3>3. call[x] + 1 > call[x] BY <1>1
    <3>4. handler[x][call[x] + 1] = "none" BY <1>1, <3>3 DEF EndInv, Control
    <3>. QED BY <3>2, <3>4 DEF EndInv, Control
  <2>4. \A c \in Calls : c < call'[x] => c \in cancelled'[x]
    <3>1. SUFFICES ASSUME NEW c \in Calls, c < call[x] + 1 PROVE c \in cancelled[x] BY <1>1
    <3>2. c < call[x] \/ (c = call[x] /\ call[x] > 0) BY <1>1, <2>1, <3>1 DEF Calls
    <3>. QED BY <1>1, <3>2 DEF EndInv, Control
  <2>5. call'[x] > 0 /\ agent'[x] = "reading" BY <1>1
  <2>. QED BY <2>2, <2>3, <2>4, <2>5 DEF Control
<1>4. CASE cutOff[x] BY <1>1, <1>2, <1>3, <1>4, Thinned DEF upstream, chain
<1>5. CASE ~cutOff[x]
  <2>1. call[x] = 0 /\ Undisturbed(x) BY <1>1, <1>5 DEF EndInv, Undisturbed
  <2>2. BatchOf(x)' = BatchOf(x) BY <1>2, <2>1 DEF BatchOf
  <2>3. Line(x)' = Line(x) BY <1>1, <2>2 DEF Line, chain
  <2>4. Undisturbed(x)'
    BY <1>1, <2>1 DEF Undisturbed, chain
  <2>. QED BY <1>1, <1>3, <2>3, <2>4, Still DEF upstream, chain
<1>. QED BY <1>4, <1>5

\* Read: keys go from the stream to the store.
LEMMA ReadInv ==
  ASSUME TypeOK, NEW x \in Ends, EndInv(x), Read(x)
  PROVE  /\ EndInv(x)'
         /\ \E s, t \in Seq(Key) : store'[x] = store[x] \o s /\ wire'[x] = t /\ wire[x] = s \o t
<1>1. /\ UNCHANGED <<upstream, chain, device, cancelled, call, agent, lost, cutOff>>
      /\ wire[x] \in Seq(Key) /\ store[x] \in Seq(Key)
  BY LineType DEF Read
<1>2. PICK n \in 1..Len(wire[x]) :
        /\ store'[x] = store[x] \o SubSeq(wire[x], 1, n)
        /\ wire'[x] = SubSeq(wire[x], n + 1, Len(wire[x]))
  BY DEF Read, TypeOK
<1>. DEFINE s == SubSeq(wire[x], 1, n)  t == SubSeq(wire[x], n + 1, Len(wire[x]))
<1>3. s \in Seq(Key) /\ t \in Seq(Key) /\ s \o t = wire[x] BY <1>1, SplitType
<1>4. store'[x] = store[x] \o s /\ wire'[x] = t BY <1>2
<1>. HIDE DEF s, t
<1>5. BatchOf(x)' = BatchOf(x) BY <1>1 DEF BatchOf, device
<1>6. Line(x)' = Line(x)
  <2>. DEFINE a == store[x]  c == BatchOf(x)  d == received[x]  e == cut[x]
  <2>1. a \in Seq(Key) /\ c \in Seq(Key) /\ d \in Seq(Key) /\ e \in Seq(Key) BY LineType
  <2>2. Line(x) = Five(a, Cat(s, t), c, d, e) /\ Line(x)' = Five(Cat(a, s), t, c, d, e)
    BY <1>1, <1>3, <1>4, <1>5, LineFive DEF Cat, chain, device
  <2>. HIDE DEF a, c, d, e
  <2>3. Five(a, Cat(s, t), c, d, e) = Five(Cat(a, s), t, c, d, e) BY <1>3, <2>1, Moves
  <2>. QED BY <2>2, <2>3, Zenon
<1>7. Control(x)' BY <1>1 DEF EndInv, Control, device
<1>8. ~cutOff[x] => Undisturbed(x)' BY <1>1 DEF EndInv, Undisturbed, chain, device
<1>9. EndInv(x)' BY <1>1, <1>6, <1>7, <1>8, Still DEF upstream, chain
<1>. QED BY <1>3, <1>4, <1>9

\* Stop: what was not read is lost, which interrupts the feed.
LEMMA StopInv ==
  ASSUME TypeOK, NEW x \in Ends, EndInv(x), Stop(x) PROVE EndInv(x)' /\ cutOff'[x]
<1>1. /\ UNCHANGED <<upstream, chain, device, call, store, lost>>
      /\ wire'[x] = <<>> /\ cutOff'[x] /\ cancelled'[x] = cancelled[x] \union {call[x]}
      /\ agent'[x] = "ending"
  BY DEF Stop, AgentGoes, TypeOK
<1>2. Control(x)' BY <1>1 DEF EndInv, Control, device
<1>3. BatchOf(x)' = BatchOf(x) BY <1>1 DEF BatchOf, device
<1>. QED BY <1>1, <1>2, <1>3, Thinned DEF upstream, chain, device

\* The rest of DeviceConnection::Stop comes after that.
LEMMA EndingInv ==
  ASSUME TypeOK, NEW x \in Ends, EndInv(x), EndSession(x) \/ NotifyAll(x) \/ EndSessionFails(x)
  PROVE  EndInv(x)'
<1>1. /\ UNCHANGED <<brought, chain, received, batch, cancelled, call, wire, store, cutOff>>
      /\ agent[x] \notin {"off", "reading"} /\ agent'[x] # "reading"
      /\ \A c \in Calls : handler'[x][c] # handler[x][c] => handler[x][c] = "asleep" /\ handler'[x][c] = "wait"
  BY DEF EndSession, NotifyAll, EndSessionFails, AgentGoes, TypeOK, upstream, device
<1>2. cutOff[x] BY <1>1 DEF EndInv, Undisturbed
<1>3. Control(x)' BY <1>1 DEF EndInv, Control
<1>4. BatchOf(x)' = BatchOf(x) BY <1>1 DEF BatchOf
<1>. QED BY <1>1, <1>2, <1>3, <1>4, Thinned DEF chain

\* A new call attaches and takes back a shutdown.
LEMMA AttachInv ==
  ASSUME TypeOK, NEW x \in Ends, NEW c \in Calls, EndInv(x), Attach(x, c) PROVE EndInv(x)'
<1>1. /\ UNCHANGED <<upstream, carry, cut, received, batch, client, lost, cutOff>>
      /\ handler[x][c] = "called" /\ listening'[x] /\ ~shutdown'[x]
      /\ \A d \in Calls : handler'[x][d] = IF d = c THEN "wait" ELSE handler[x][d]
  BY DEF Attach, Goes, TypeOK
<1>2. Control(x)' BY <1>1 DEF EndInv, Control, client
<1>3. Line(x)' = Line(x) BY <1>1 DEF Line, BatchOf, client
<1>4. ~cutOff[x] => Undisturbed(x)' BY <1>1 DEF EndInv, Undisturbed, client
<1>. QED BY <1>1, <1>2, <1>3, <1>4, Still DEF upstream

\* Send: the latest call's batch goes to the stream; an earlier call was cancelled.
LEMMA SendInv ==
  ASSUME TypeOK, NEW x \in Ends, NEW c \in Calls, EndInv(x), Send(x, c) PROVE EndInv(x)'
<1>1. /\ UNCHANGED <<upstream, chain, received, shutdown, cancelled, call, agent, store, lost, cutOff>>
      /\ handler[x][c] = "send"
      /\ wire'[x] = IF shutdown[x] \/ c \in cancelled[x] THEN wire[x] ELSE wire[x] \o batch[x][c]
      /\ \A d \in Calls : handler'[x][d] = IF d = c THEN "loop" ELSE handler[x][d]
      /\ \A d \in Calls : batch'[x][d] = IF d = c THEN <<>> ELSE batch[x][d]
  BY DEF Send, Goes, TypeOK
<1>2. Control(x)'
  <2>1. \A d \in Calls : handler'[x][d] # "send" => batch'[x][d] = <<>> BY <1>1 DEF EndInv, Control
  <2>. QED BY <1>1, <2>1 DEF EndInv, Control
<1>3. call[x] \in Nat /\ c \in Nat /\ ~(c > call[x])
  BY <1>1, BoundAssumption DEF EndInv, Control, TypeOK, Calls
<1>4. ~cutOff[x] => Undisturbed(x)' BY <1>1 DEF EndInv, Undisturbed, chain
<1>5. CASE c # call[x]
  <2>1. c \in cancelled[x] BY <1>3, <1>5 DEF EndInv, Control
  <2>2. BatchOf(x)' = BatchOf(x)
    <3>1. CASE call[x] = 0 BY <1>1, <3>1 DEF BatchOf
    <3>2. CASE call[x] # 0
      <4>1. call[x] \in Calls BY <3>2, BoundAssumption DEF TypeOK, Calls
      <4>. QED BY <1>1, <1>5, <4>1 DEF BatchOf
    <3>. QED BY <3>1, <3>2
  <2>3. Line(x)' = Line(x) BY <1>1, <2>1, <2>2 DEF Line, chain
  <2>. QED BY <1>1, <1>2, <1>4, <2>3, Still DEF upstream, chain
<1>6. CASE c = call[x]
  <2>1. c # 0 BY DEF Calls
  <2>2. BatchOf(x) = batch[x][c] /\ BatchOf(x)' = <<>> BY <1>1, <1>6, <2>1 DEF BatchOf
  <2>3. CASE shutdown[x] \/ c \in cancelled[x]
    <3>1. cutOff[x] BY <2>3 DEF EndInv, Undisturbed
    <3>. QED BY <1>1, <1>2, <2>2, <2>3, <3>1, Thinned DEF upstream, chain
  <2>4. CASE ~(shutdown[x] \/ c \in cancelled[x])
    <3>1. Line(x)' = Line(x)
      <4>. DEFINE a == store[x]  b == wire[x]  k == BatchOf(x)  d == received[x]  e == cut[x]
      <4>1. a \in Seq(Key) /\ b \in Seq(Key) /\ k \in Seq(Key) /\ d \in Seq(Key) /\ e \in Seq(Key)
        BY LineType
      <4>2. Line(x) = Five(a, b, k, d, e) /\ Line(x)' = Five(a, Cat(b, k), <<>>, d, e)
        BY <1>1, <2>2, <2>4, LineFive DEF Cat, chain
      <4>. HIDE DEF a, b, k, d, e
      <4>3. Five(a, b, k, d, e) = Five(a, Cat(b, k), <<>>, d, e) BY <4>1, Moves
      <4>. QED BY <4>2, <4>3, Zenon
    <3>. QED BY <1>1, <1>2, <1>4, <3>1, Still DEF upstream, chain
  <2>. QED BY <2>3, <2>4
<1>. QED BY <1>5, <1>6

\* Test: the latest call takes what waits; one which an earlier call takes is lost.
LEMMA TestInv ==
  ASSUME TypeOK, NEW x \in Ends, NEW c \in Calls, EndInv(x), Test(x, c) PROVE EndInv(x)'
<1>. DEFINE stop == shutdown[x] \/ c \in cancelled[x]  taken == stop \/ received[x] # <<>>
<1>1. /\ UNCHANGED <<upstream, chain, client, lost, cutOff>>
      /\ handler[x][c] = "wait" /\ shutdown'[x] = stop
      /\ \A d \in Calls : handler'[x][d] = IF d = c THEN (IF taken THEN "send" ELSE "tested")
                                           ELSE handler[x][d]
      /\ received'[x] = IF taken THEN <<>> ELSE received[x]
      /\ \A d \in Calls : batch'[x][d] = IF d = c /\ taken THEN received[x] ELSE batch[x][d]
  <2>1. UNCHANGED <<upstream, chain, client, lost, cutOff>> /\ handler[x][c] = "wait" BY DEF Test
  <2>2. shutdown'[x] = stop BY DEF Test, TypeOK
  <2>3. CASE taken BY <2>1, <2>2, <2>3 DEF Test, Goes, TypeOK
  <2>4. CASE ~taken BY <2>1, <2>2, <2>4 DEF Test, Goes, TypeOK
  <2>. QED BY <2>3, <2>4
<1>. HIDE DEF taken
<1>2. Control(x)'
  <2>1. \A d \in Calls : handler'[x][d] # "send" => batch'[x][d] = <<>> BY <1>1 DEF EndInv, Control
  <2>. QED BY <1>1, <2>1 DEF EndInv, Control, client
<1>3. call[x] \in Nat /\ c \in Nat /\ ~(c > call[x])
  BY <1>1, BoundAssumption DEF EndInv, Control, TypeOK, Calls
<1>4. ~cutOff[x] => Undisturbed(x)' BY <1>1 DEF EndInv, Undisturbed, chain, client
<1>5. CASE c # call[x]
  <2>1. c \in cancelled[x] BY <1>3, <1>5 DEF EndInv, Control
  <2>2. cutOff[x] BY <2>1 DEF EndInv, Undisturbed
  <2>3. BatchOf(x)' = BatchOf(x)
    <3>1. CASE call[x] = 0 BY <1>1, <3>1 DEF BatchOf, client
    <3>2. CASE call[x] # 0
      <4>1. call[x] \in Calls BY <3>2, BoundAssumption DEF TypeOK, Calls
      <4>. QED BY <1>1, <1>5, <4>1 DEF BatchOf, client
    <3>. QED BY <3>1, <3>2
  <2>. QED BY <1>1, <1>2, <2>2, <2>3, Thinned DEF upstream, chain, client
<1>6. CASE c = call[x]
  <2>1. c # 0 BY DEF Calls
  <2>2. BatchOf(x) = <<>> BY <1>1, <1>6, <2>1 DEF BatchOf, EndInv, Control
  <2>3. BatchOf(x)' = IF taken THEN received[x] ELSE <<>>
    BY <1>1, <1>6, <2>1, <2>2 DEF BatchOf, client
  <2>4. Line(x)' = Line(x)
    <3>. DEFINE a == store[x]  b == wire[x]  d == received[x]  e == cut[x]
    <3>1. a \in Seq(Key) /\ b \in Seq(Key) /\ d \in Seq(Key) /\ e \in Seq(Key)
      BY LineType
    <3>2. /\ Line(x) = Five(a, b, <<>>, d, e)
          /\ Line(x)' = IF taken THEN Five(a, b, d, <<>>, e) ELSE Five(a, b, <<>>, d, e)
      BY <1>1, <2>2, <2>3, LineFive DEF chain, client
    <3>. HIDE DEF a, b, d, e
    <3>3. Five(a, b, <<>>, d, e) = Five(a, b, d, <<>>, e) BY <3>1, Moves
    <3>. QED BY <3>2, <3>3, Zenon
  <2>. QED BY <1>1, <1>2, <1>4, <2>4, Still DEF upstream, chain
<1>. QED BY <1>5, <1>6

\* The steps of a handler which move no keys.
LEMMA HandlerInv ==
  ASSUME TypeOK, NEW x \in Ends, NEW c \in Calls, EndInv(x),
         Sleep(x, c) \/ Loop(x, c) \/ Detach(x, c) \/ Close(x, c)
  PROVE  EndInv(x)'
<1>1. /\ UNCHANGED <<brought, carry, cut, received, shutdown, batch, client, lost, cutOff>>
      /\ handler[x][c] \in {"tested", "loop", "detach", "close"}
      /\ \E p \in {"asleep", "wait", "detach", "close", "done"} :
           /\ \A d \in Calls : handler'[x][d] = IF d = c THEN p ELSE handler[x][d]
           /\ p \in {"detach", "close", "done"} => shutdown[x] \/ handler[x][c] \in {"detach", "close"}
      /\ listening'[x] = listening[x] \/ handler[x][c] = "detach"
  <2>. USE DEF Goes, TypeOK, upstream, chain
  <2>1. CASE Sleep(x, c) BY <2>1 DEF Sleep
  <2>2. CASE Loop(x, c)
    <3>1. CASE shutdown[x] BY <2>2, <3>1 DEF Loop
    <3>2. CASE ~shutdown[x] BY <2>2, <3>2 DEF Loop
    <3>. QED BY <3>1, <3>2
  <2>3. CASE Detach(x, c) BY <2>3 DEF Detach
  <2>4. CASE Close(x, c) BY <2>4 DEF Close
  <2>. QED BY <2>1, <2>2, <2>3, <2>4
<1>2. Control(x)' BY <1>1 DEF EndInv, Control, client
<1>3. Line(x)' = Line(x) BY <1>1 DEF Line, BatchOf, client
<1>4. ~cutOff[x] => Undisturbed(x)' BY <1>1 DEF EndInv, Undisturbed, client
<1>. QED BY <1>1, <1>2, <1>3, <1>4, Still DEF upstream

\* A block which bob misses leaves a gap, and what he has in order.
LEMMA AnswerLostInv ==
  ASSUME TypeOK, "bob" \in Ends, EndInv("bob"), AnswerLost PROVE EndInv("bob")' /\ cutOff'["bob"]
<1>. DEFINE x == "bob"  b == brought[x]
<1>1. /\ b \in Nat /\ brought'[x] = b + 1 /\ cutOff'[x]
      /\ UNCHANGED <<running, chain, device, client>>
  BY BoundAssumption DEF AnswerLost, TypeOK
<1>2. Control(x)' BY <1>1 DEF EndInv, Control, device, client
<1>3. Line(x)' = Line(x) /\ carry' = carry BY <1>1 DEF Line, BatchOf, chain, device, client
<1>4. Order(x)'
  <2>1. b * BlockBits \in Nat /\ (b + 1) * BlockBits = b * BlockBits + BlockBits BY <1>1, SizeAssumption
  <2>2. Order(x) BY DEF EndInv
  <2>3. Line(x) \in Seq(Key) /\ carry[x] \in Seq(Nat) BY LineType
  <2>4. \A a \in Bits(Line(x)) : a \in Nat
    <3>1. SUFFICES ASSUME NEW a \in Bits(Line(x)) PROVE a \in Nat OBVIOUS
    <3>2. PICK m \in 1..Len(Line(x)), k \in 1..KeyBits : a = Line(x)[m][k] BY DEF Bits
    <3>3. Line(x)[m] \in Key BY <2>3
    <3>. QED BY <3>2, <3>3 DEF Key
  <2>5. \A j \in 1..Len(carry[x]) : carry[x][j] \in Nat BY <2>3
  <2>. DEFINE B == b * BlockBits
  <2>6. /\ \A a \in Bits(Line(x)) : a <= B
        /\ \A j \in 1..Len(carry[x]) : carry[x][j] <= B
    BY <2>2 DEF Order
  <2>7. B \in Nat /\ brought'[x] * BlockBits = B + BlockBits BY <1>1, <2>1
  <2>. HIDE DEF B, b, x
  <2>8. /\ \A a \in Bits(Line(x)) : a <= B + BlockBits
        /\ \A j \in 1..Len(carry[x]) : carry[x][j] <= B + BlockBits
    BY <2>4, <2>5, <2>6, <2>7, SizeAssumption
  <2>. QED BY <1>3, <2>2, <2>7, <2>8 DEF Order
<1>. QED BY <1>1, <1>2, <1>4 DEF EndInv

\* The steps of one end.
AnEndMoves(x) ==
  \/ Bring(x) \/ Emit(x) \/ PrepHop(x) \/ Read(x)
  \/ Stop(x) \/ EndSession(x) \/ NotifyAll(x) \/ EndSessionFails(x)
  \/ \E c \in Calls : HandlerStep(x, c)

\* They do not touch another end.
LEMMA Elsewhere ==
  ASSUME TypeOK, NEW x \in Ends, AnEndMoves(x), NEW y \in Ends, y # x
  PROVE  Same(y)
<1>. USE DEF TypeOK, Same, Goes, AgentGoes, upstream, chain, device, client
<1>1. CASE Bring(x) BY <1>1 DEF Bring
<1>2. CASE Emit(x)
  <2>1. CASE listening[x] BY <1>2, <2>1 DEF Emit
  <2>2. CASE ~listening[x] BY <1>2, <2>2 DEF Emit
  <2>. QED BY <2>1, <2>2
<1>3. CASE PrepHop(x) BY <1>3 DEF PrepHop
<1>4. CASE Read(x) BY <1>4 DEF Read
<1>5. CASE Stop(x) BY <1>5 DEF Stop
<1>6. CASE EndSession(x) BY <1>6 DEF EndSession
<1>7. CASE NotifyAll(x) BY <1>7 DEF NotifyAll
<1>8. CASE EndSessionFails(x) BY <1>8 DEF EndSessionFails
<1>9. ASSUME NEW c \in Calls, HandlerStep(x, c) PROVE Same(y)
  <2>1. CASE Attach(x, c) BY <2>1 DEF Attach
  <2>2. CASE Test(x, c)
    <3>1. CASE (shutdown[x] \/ c \in cancelled[x]) \/ received[x] # <<>> BY <2>2, <3>1 DEF Test
    <3>2. CASE ~((shutdown[x] \/ c \in cancelled[x]) \/ received[x] # <<>>) BY <2>2, <3>2 DEF Test
    <3>. QED BY <3>1, <3>2
  <2>3. CASE Sleep(x, c) BY <2>3 DEF Sleep
  <2>4. CASE Send(x, c)
    <3>1. CASE wire' = wire BY <2>4, <3>1 DEF Send
    <3>2. CASE wire' = [wire EXCEPT ![x] = wire[x] \o batch[x][c]] BY <2>4, <3>2 DEF Send
    <3>. QED BY <2>4, <3>1, <3>2 DEF Send
  <2>5. CASE Loop(x, c) BY <2>5 DEF Loop
  <2>6. CASE Detach(x, c) BY <2>6 DEF Detach
  <2>7. CASE Close(x, c) BY <2>7 DEF Close
  <2>. QED BY <1>9, <2>1, <2>2, <2>3, <2>4, <2>5, <2>6, <2>7 DEF HandlerStep
<1>. QED BY <1>1, <1>2, <1>3, <1>4, <1>5, <1>6, <1>7, <1>8, <1>9 DEF AnEndMoves

\* The inductive invariant.
IInv == TypeOK /\ \A x \in Ends : EndInv(x)

\* A step of an end keeps its invariant.
LEMMA EndNext ==
  ASSUME TypeOK, TypeOK', NEW x \in Ends, EndInv(x), AnEndMoves(x) PROVE EndInv(x)'
<1>1. ASSUME NEW c \in Calls, HandlerStep(x, c) PROVE EndInv(x)'
  BY <1>1, AttachInv, TestInv, SendInv, HandlerInv DEF HandlerStep
<1>. QED BY <1>1, BringOrder, EmitInv, PrepHopInv, ReadInv, StopInv, EndingInv DEF AnEndMoves

\* The invariant holds at the start.
LEMMA InvInit == Init => IInv
<1>1. SUFFICES ASSUME Init PROVE IInv OBVIOUS
<1>2. TypeOK BY <1>1, TypeInit
<1>3. ASSUME NEW x \in Ends PROVE EndInv(x)
  <2>1. /\ Line(x) = <<>> /\ carry[x] = <<>> /\ brought[x] = 0 /\ call[x] = 0 /\ agent[x] = "off"
        /\ cancelled[x] = {} /\ ~shutdown[x] /\ cut[x] = <<>>
        /\ \A c \in Calls : handler[x][c] = "none" /\ batch[x][c] = <<>>
    <3>1. <<>> \o <<>> = <<>> OBVIOUS
    <3>. QED BY <1>1, <3>1 DEF Init, Line, BatchOf
  <2>2. Control(x) BY <2>1, BoundAssumption DEF Control, Calls
  <2>3. Undisturbed(x) BY <2>1 DEF Undisturbed
  <2>4. Len(<<>>) = 0 /\ 0 * KeyBits = 0 /\ 0 * BlockBits = 0 /\ 1..0 = {} BY SizeAssumption
  <2>5. Order(x) BY <2>1, <2>4 DEF Order, Feed!Forward, Rising, Bits
  <2>6. Streamed(x)
    <3>1. Feed!FirstKeys(0) = <<>> BY <2>4 DEF Feed!FirstKeys
    <3>2. From(0, 0) = <<>> BY <2>4 DEF From
    <3>. QED BY <2>1, <2>4, <3>1, <3>2 DEF Streamed
  <2>. QED BY <2>2, <2>3, <2>5, <2>6 DEF EndInv
<1>. QED BY <1>2, <1>3 DEF IInv

\* Every step keeps it.
LEMMA InvNext == IInv /\ [Next]_vars => IInv'
<1>1. SUFFICES ASSUME IInv, [Next]_vars PROVE IInv' OBVIOUS
<1>2. TypeOK /\ \A x \in Ends : EndInv(x) /\ Control(x) BY <1>1 DEF IInv, EndInv
<1>3. TypeOK' BY <1>1, <1>2, TypeNext
<1>4. ASSUME NEW x \in Ends, AnEndMoves(x), NEW y \in Ends PROVE EndInv(y)'
  <2>1. CASE y = x BY <1>2, <1>3, <1>4, <2>1, EndNext
  <2>2. CASE y # x BY <1>2, <1>4, <2>2, Elsewhere, SameEnd
  <2>. QED BY <2>1, <2>2
<1>5. ASSUME NEW y \in Ends, UNCHANGED vars \/ RunSession PROVE EndInv(y)'
  <2>1. Same(y) BY <1>5 DEF Same, RunSession, vars, upstream, chain, device, client
  <2>. QED BY <1>2, <2>1, SameEnd
<1>6. ASSUME NEW y \in Ends, AnswerLost PROVE EndInv(y)'
  <2>1. "bob" \in Ends BY <1>6 DEF AnswerLost
  <2>2. CASE y = "bob" BY <1>2, <1>6, <2>1, <2>2, AnswerLostInv
  <2>3. CASE y # "bob"
    <3>1. Same(y) BY <1>2, <1>6, <2>1, <2>3 DEF AnswerLost, Same, TypeOK, chain, device, client
    <3>. QED BY <1>2, <3>1, SameEnd
  <2>. QED BY <2>2, <2>3
<1>. QED BY <1>1, <1>3, <1>4, <1>5, <1>6 DEF IInv, Next, AnEndMoves

\* The invariant holds throughout, for any sizes of keys and blocks, any number of
\* blocks, calls and lost RPCs, and for one end or both.
THEOREM FeedInvariant == Spec => []IInv
BY InvInit, InvNext, PTL DEF Spec

\* The state keeps its types (TypeOK): KeyConverter cuts whole keys, whatever is
\* carried over, and a handler, batch or call never leaves its range.
THEOREM FeedTypeCorrect == Spec => []TypeOK
<1>1. IInv => TypeOK BY DEF IInv
<1>. QED BY <1>1, FeedInvariant, PTL

\* Through stops, starts, shutdowns and lost calls no bit is stored, on its way or
\* carried over twice, and no key overtakes another (NoBitTwice).
THEOREM NoBitStoredTwice == Spec => []NoBitTwice
<1>1. ASSUME IInv PROVE NoBitTwice
  <2>1. SUFFICES ASSUME NEW x \in Ends
                 PROVE LET keys == store[x] \o Pipeline(x)  rest == carry[x] IN
                         /\ Feed!Forward(keys)
                         /\ \A i, j \in 1..Len(rest) : i < j => rest[i] < rest[j]
                         /\ \A n \in 1..Len(keys), i \in 1..KeyBits, j \in 1..Len(rest) : keys[n][i] < rest[j]
    BY DEF NoBitTwice
  <2>2. Order(x) /\ Line(x) = store[x] \o Pipeline(x) BY <1>1, LineType DEF IInv, EndInv
  <2>. DEFINE keys == store[x] \o Pipeline(x)  rest == carry[x]
  <2>3. Feed!Forward(keys) /\ Rising(rest) /\ \A b \in Bits(keys), j \in 1..Len(rest) : b < rest[j]
    BY <2>2 DEF Order
  <2>. HIDE DEF keys, rest
  <2>4. \A n \in 1..Len(keys), i \in 1..KeyBits : keys[n][i] \in Bits(keys) BY DEF Bits
  <2>5. \A n \in 1..Len(keys), i \in 1..KeyBits, j \in 1..Len(rest) : keys[n][i] < rest[j]
    BY <2>3, <2>4
  <2>. QED BY <2>3, <2>5 DEF Rising, keys, rest
<1>2. IInv => NoBitTwice BY <1>1
<1>. QED BY <1>2, FeedInvariant, PTL

\* What the invariant says of the store.
Handed ==
  \A x \in Ends :
    /\ store[x] \in Seq(Key) /\ Feed!Forward(store[x])
    /\ ~cutOff[x] => store[x] = Feed!FirstKeys(Len(store[x]))

\* It does say so.
LEMMA InvHanded == IInv => Handed
<1>1. SUFFICES ASSUME NEW x \in Ends, IInv
               PROVE  /\ store[x] \in Seq(Key) /\ Feed!Forward(store[x])
                      /\ ~cutOff[x] => store[x] = Feed!FirstKeys(Len(store[x]))
  BY DEF Handed
<1>. DEFINE s == store[x]  p == Pipeline(x)
<1>2. s \in Seq(Key) /\ Line(x) = s \o p /\ Line(x) \in Seq(Key) BY <1>1, LineType DEF IInv
<1>3. p \in Seq(Key)
  <2>1. TypeOK BY <1>1 DEF IInv
  <2>2. /\ wire[x] \in Seq(Key) /\ BatchOf(x) \in Seq(Key) /\ received[x] \in Seq(Key)
        /\ cut[x] \in Seq(Key) BY <2>1, LineType
  <2>. QED BY <2>2, CatType DEF Pipeline
<1>4. EndInv(x) BY <1>1 DEF IInv
<1>5. Feed!Forward(Line(x)) BY <1>4 DEF EndInv, Order
<1>6. ~cutOff[x] => Line(x) = Feed!FirstKeys(Len(Line(x))) /\ Len(Line(x)) \in Nat
  BY <1>2, <1>4 DEF EndInv, Streamed
<1>. HIDE DEF s, p
<1>7. Feed!Forward(s) BY <1>2, <1>3, <1>5, ForwardCat
<1>8. ~cutOff[x] => s = Feed!FirstKeys(Len(s)) BY <1>2, <1>3, <1>6, FirstKeysPrefix
<1>. QED BY <1>2, <1>7, <1>8 DEF s

\* With both ends in one model: as long as neither feed was interrupted, a number
\* names the same key in both key stores (keySink of the two SiteAgents).
THEOREM StoresNumberAlike == Spec => []Feed!SameNumbersSameKeys
<1>1. IInv => Feed!SameNumbersSameKeys
  <2>1. SUFFICES ASSUME IInv, NEW e \in Ends, NEW f \in Ends, ~cutOff[e], ~cutOff[f],
                        NEW k \in 1..Len(store[e]), k <= Len(store[f])
                 PROVE  store[e][k] = store[f][k]
    BY DEF Feed!SameNumbersSameKeys
  <2>. DEFINE s == store[e]  t == store[f]
  <2>2. /\ s \in Seq(Key) /\ s = Feed!FirstKeys(Len(s))
        /\ t \in Seq(Key) /\ t = Feed!FirstKeys(Len(t))
    BY <2>1, InvHanded DEF Handed
  <2>3. k \in 1..Len(s) /\ k \in 1..Len(t) BY <2>1, <2>2
  <2>. HIDE DEF s, t
  <2>4. \A n \in Nat : \A j \in 1..n : Feed!FirstKeys(n)[j] = Feed!KeyAt(j) BY DEF Feed!FirstKeys
  <2>5. Len(s) \in Nat /\ Len(t) \in Nat BY <2>2
  <2>6. s[k] = Feed!KeyAt(k) /\ t[k] = Feed!KeyAt(k) BY <2>2, <2>3, <2>4, <2>5
  <2>. QED BY <2>6 DEF s, t
<1>. QED BY <1>1, FeedInvariant, PTL

\* The start of the feed is a start of the stream.
LEMMA RefinesInit == Init => Feed!Init
BY DEF Init, Feed!Init

\* Reading hands out keys of the stream, an interruption cuts its end off, and
\* nothing else shows.
LEMMA RefinesStep ==
  IInv /\ IInv' /\ [Next]_vars => [Feed!Next]_<<store, [x \in Ends |-> ~cutOff[x]]>>
<1>. DEFINE w == [x \in Ends |-> ~cutOff[x]]
<1>1. SUFFICES ASSUME IInv, IInv', [Next]_vars
               PROVE  Feed!Next \/ UNCHANGED <<store, w>>
  OBVIOUS
<1>2. TypeOK /\ \A x \in Ends : EndInv(x) BY <1>1 DEF IInv
<1>3. Handed' BY <1>1, InvHanded, PTL
<1>4. ASSUME NEW x \in Ends, Read(x) PROVE Feed!Next
  <2>1. cutOff' = cutOff /\ w' = w BY <1>4 DEF Read
  <2>2. PICK s, t \in Seq(Key) : store'[x] = store[x] \o s BY <1>2, <1>4, ReadInv
  <2>3. store' = [store EXCEPT ![x] = store'[x]] BY <1>2, <1>4 DEF Read, TypeOK
  <2>4. store[x] \in Seq(Key) BY <1>2 DEF TypeOK
  <2>5. /\ Len(store'[x]) \in Nat /\ Len(store'[x]) >= Len(store[x])
        /\ SubSeq(store'[x], 1, Len(store[x])) = store[x]
    <3>1. \A a, b \in Seq(Key) : /\ Len(a \o b) \in Nat /\ Len(a \o b) >= Len(a)
                                 /\ SubSeq(a \o b, 1, Len(a)) = a
      OBVIOUS
    <3>. QED BY <2>2, <2>4, <3>1
  <2>6. CASE ~cutOff[x]
    <3>1. store'[x] = Feed!FirstKeys(Len(store'[x])) BY <1>3, <2>1, <2>6 DEF Handed
    <3>2. w[x] BY <2>6
    <3>. HIDE DEF w
    <3>3. Feed!Hand(x) BY <2>1, <2>3, <2>5, <3>1, <3>2 DEF Feed!Hand, w
    <3>. QED BY <3>3 DEF Feed!Next
  <2>7. CASE cutOff[x]
    <3>1. store'[x] \in Seq(Feed!Keys) /\ Feed!Forward(store'[x]) BY <1>3 DEF Handed, Key, Feed!Keys
    <3>2. Feed!HandOn(x) BY <2>1, <2>3, <2>5, <2>7, <3>1 DEF Feed!HandOn
    <3>. QED BY <3>2 DEF Feed!Next
  <2>. QED BY <2>6, <2>7
<1>5. ASSUME NEW x \in Ends, store' = store, cutOff' = [cutOff EXCEPT ![x] = TRUE]
      PROVE  Feed!Next \/ UNCHANGED <<store, w>>
  <2>1. CASE cutOff[x]
    <3>1. cutOff' = cutOff BY <1>2, <1>5, <2>1 DEF TypeOK
    <3>. QED BY <1>5, <3>1
  <2>2. CASE ~cutOff[x]
    <3>1. w[x] /\ w' = [w EXCEPT ![x] = FALSE] BY <1>2, <1>5, <2>2 DEF TypeOK
    <3>2. Feed!Cut(x) BY <1>5, <3>1 DEF Feed!Cut
    <3>. QED BY <3>2 DEF Feed!Next
  <2>. QED BY <2>1, <2>2
<1>6. CASE AnswerLost BY <1>5, <1>6 DEF AnswerLost, client
<1>7. ASSUME NEW x \in Ends, Stop(x) PROVE Feed!Next \/ UNCHANGED <<store, w>>
  BY <1>5, <1>7 DEF Stop
<1>8. CASE UNCHANGED vars BY <1>8 DEF vars, client
<1>9. CASE RunSession BY <1>9 DEF RunSession, client
<1>10. ASSUME NEW x \in Ends,
              \/ Bring(x) \/ Emit(x) \/ PrepHop(x) \/ EndSession(x) \/ NotifyAll(x) \/ EndSessionFails(x)
              \/ \E c \in Calls : HandlerStep(x, c)
       PROVE  UNCHANGED <<store, w>>
  <2>1. store' = store /\ cutOff' = cutOff
    BY <1>10 DEF Bring, Emit, PrepHop, EndSession, NotifyAll, EndSessionFails, HandlerStep,
                 Attach, Test, Sleep, Send, Loop, Detach, Close, client
  <2>. QED BY <2>1
<1>. QED BY <1>1, <1>4, <1>6, <1>7, <1>8, <1>9, <1>10 DEF Next

\* The chain of KeyConverter, RemoteQKDDevice and SiteAgent feeds a key store as
\* SharedStream promises (FeedsOneStream), whatever its threads and handlers do.
THEOREM FeedRefinesStream == Spec => FeedsOneStream
BY RefinesInit, RefinesStep, FeedInvariant, PTL DEF Spec, FeedsOneStream, Feed!Spec
=============================================================================
