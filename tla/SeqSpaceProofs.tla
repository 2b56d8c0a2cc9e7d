--------------------------- MODULE SeqSpaceProofs ---------------------------
(***************************************************************************)
(* What the wrapping arithmetic of SeqSpace computes, for a sequence space *)
(* of any size.                                                            *)
(***************************************************************************)
EXTENDS SeqSpace, TLAPS

\* Dividing by the size of the space leaves a sequence number.
LEMMA Division ==
    ASSUME NEW n \in Int
    PROVE  /\ n % SeqMod \in SeqNumbers
           /\ n \div SeqMod \in Int
           /\ n = SeqMod * (n \div SeqMod) + (n % SeqMod)
  <1>1. SeqMod \in Nat \ {0}
    BY SeqSpaceAssumption DEF SeqMod
  <1> QED
    BY <1>1 DEF SeqNumbers

\* That remainder is the only one.
LEMMA DivisionUnique ==
    ASSUME NEW n \in Int, NEW q \in Int, NEW r \in SeqNumbers,
           n = SeqMod * q + r
    PROVE  n % SeqMod = r
  <1>1. SeqMod \in Nat \ {0}
    BY SeqSpaceAssumption DEF SeqMod
  <1> QED
    BY <1>1, Division DEF SeqNumbers

\* SeqOf yields sequence numbers, and never the mark for "none".
LEMMA SeqOfType ==
    ASSUME NEW n \in Int
    PROVE  SeqOf(n) \in SeqNumbers /\ SeqOf(n) \in Int /\ SeqOf(n) # NoSeq
  BY Division, SeqSpaceAssumption DEF SeqOf, SeqNumbers, NoSeq, SeqMod

\* `seq.wrapping_add(1)` is the number of the packet that follows.
LEMMA SeqOfSuccessor ==
    ASSUME NEW n \in Int
    PROVE  SeqOf(SeqOf(n) + 1) = SeqOf(n + 1)
  <1> DEFINE s == n % SeqMod
             k == n \div SeqMod
             t == (s + 1) % SeqMod
             j == (s + 1) \div SeqMod
  <1>1. SeqMod \in Int
    BY SeqSpaceAssumption DEF SeqMod
  <1>2. s \in Int /\ k \in Int /\ n = SeqMod * k + s
    BY <1>1, Division DEF SeqNumbers
  <1>3. t \in SeqNumbers /\ j \in Int /\ s + 1 = SeqMod * j + t
    <2> HIDE DEF s
    <2>1. s + 1 \in Int
      BY <1>2
    <2> QED
      BY <2>1, Division
  <1>4. t \in Int
    BY <1>3 DEF SeqNumbers
  <1> HIDE DEF s, k, t, j
  <1>5. n + 1 = SeqMod * (k + j) + t
    BY <1>1, <1>2, <1>3, <1>4
  <1>6. (n + 1) % SeqMod = t
    BY <1>2, <1>3, <1>5, DivisionUnique
  <1> QED
    BY <1>6 DEF SeqOf, s, t

\* The comparison the receiver makes is the real distance between two packets
\* of one stream, wrapped or not, as long as they are less than half the
\* sequence space apart.
THEOREM DeltaIsDistance ==
    ASSUME NEW n \in Int, NEW e \in Int,
           -HalfSpace <= n - e, n - e < HalfSpace
    PROVE  Delta(SeqOf(n), SeqOf(e)) = n - e
  <1> DEFINE s == n % SeqMod
             k == n \div SeqMod
             t == e % SeqMod
             j == e \div SeqMod
  <1>1. SeqMod \in Int /\ HalfSpace \in Int /\ SeqMod = 2 * HalfSpace /\ HalfSpace > 0
    BY SeqSpaceAssumption DEF SeqMod
  <1>2. s \in SeqNumbers /\ k \in Int /\ n = SeqMod * k + s
    BY Division
  <1>3. t \in SeqNumbers /\ j \in Int /\ e = SeqMod * j + t
    BY Division
  <1>4. s \in Int /\ t \in Int
    BY <1>1, <1>2, <1>3 DEF SeqNumbers
  <1> HIDE DEF s, k, t, j
  <1>5. CASE n >= e
    <2>1. n - e \in SeqNumbers
      BY <1>1, <1>5 DEF SeqNumbers
    <2>2. s - t = SeqMod * (j - k) + (n - e)
      BY <1>1, <1>2, <1>3, <1>4
    <2>3. s - t \in Int /\ j - k \in Int
      BY <1>2, <1>3, <1>4
    <2>4. (s - t) % SeqMod = n - e
      BY <2>1, <2>2, <2>3, DivisionUnique
    <2> QED
      BY <1>1, <2>4 DEF Delta, Signed, SeqOf, s, t
  <1>6. CASE n < e
    <2>1. n - e + SeqMod \in SeqNumbers
      BY <1>1, <1>6 DEF SeqNumbers
    <2>2. s - t = SeqMod * (j - k - 1) + (n - e + SeqMod)
      BY <1>1, <1>2, <1>3, <1>4
    <2>3. s - t \in Int /\ j - k - 1 \in Int
      BY <1>2, <1>3, <1>4
    <2>4. (s - t) % SeqMod = n - e + SeqMod
      BY <2>1, <2>2, <2>3, DivisionUnique
    <2> QED
      BY <1>1, <1>6, <2>4 DEF Delta, Signed, SeqOf, s, t
  <1> QED
    BY <1>5, <1>6
=============================================================================
