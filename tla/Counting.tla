------------------------------ MODULE Counting ------------------------------
(***************************************************************************)
(* Lemmas about the queues of the two chats: how many of the elements of a *)
(* sequence are in a set, and what is left of a sequence when an element   *)
(* is taken out.                                                           *)
(***************************************************************************)
EXTENDS Integers, Sequences, FiniteSets, SequencesExt, FiniteSetTheorems, TLAPS

(* How many messages of a queue are in a set.                               *)
Places(s, S) == {i \in DOMAIN s : s[i] \in S}

Count(s, S) == Cardinality(Places(s, S))

(* The count is a natural number, and positive when a place is counted.     *)
LEMMA CountType ==
  ASSUME NEW M, NEW s \in Seq(M), NEW S
  PROVE  /\ IsFiniteSet(Places(s, S))
         /\ Count(s, S) \in Nat
         /\ \A i \in DOMAIN s : s[i] \in S => Count(s, S) >= 1
<1>1. Places(s, S) \subseteq 1 .. Len(s)
  BY DEF Places
<1>2. IsFiniteSet(1 .. Len(s))
  BY FS_Interval
<1>3. IsFiniteSet(Places(s, S))
  BY <1>1, <1>2, FS_Subset
<1>4. Count(s, S) \in Nat
  BY <1>3, FS_CardinalityType DEF Count
<1>5. ASSUME NEW i \in DOMAIN s, s[i] \in S PROVE Count(s, S) >= 1
  <2>1. Places(s, S) # {}
    BY <1>5 DEF Places
  <2>2. Count(s, S) # 0
    BY <1>3, <2>1, FS_EmptySet DEF Count
  <2> QED BY <1>4, <2>2
<1> QED BY <1>3, <1>4, <1>5

(* The count is 0 when no place is counted, 1 of the one element counted.   *)
LEMMA CountNone ==
  ASSUME NEW s, NEW S, \A i \in DOMAIN s : s[i] \notin S
  PROVE  Count(s, S) = 0
<1>1. Places(s, S) = {}
  BY DEF Places
<1> QED BY <1>1, FS_EmptySet DEF Count

LEMMA CountOne ==
  ASSUME NEW e, NEW S, e \in S
  PROVE  Count(<<e>>, S) = 1
<1>1. DOMAIN <<e>> = {1} /\ <<e>>[1] = e
  OBVIOUS
<1>2. Places(<<e>>, S) = {1}
  BY <1>1 DEF Places
<1> QED BY <1>2, FS_Singleton DEF Count

(* An element at the end counts when it is in the set.                      *)
LEMMA CountAppend ==
  ASSUME NEW M, NEW s \in Seq(M), NEW S, NEW e \in M
  PROVE  Count(Append(s, e), S) = Count(s, S) + (IF e \in S THEN 1 ELSE 0)
<1>1. Append(s, e) \in Seq(M) /\ Len(Append(s, e)) = Len(s) + 1 /\ Len(s) \in Nat
  OBVIOUS
<1>2. Append(s, e)[Len(s) + 1] = e /\ \A i \in 1 .. Len(s) : Append(s, e)[i] = s[i]
  OBVIOUS
<1>3. DOMAIN Append(s, e) = 1 .. Len(s) + 1 /\ DOMAIN s = 1 .. Len(s)
  BY <1>1
<1>4. IsFiniteSet(Places(s, S)) /\ Cardinality(Places(s, S)) \in Nat
  BY CountType DEF Count
<1>5. CASE e \in S
  <2>1. Places(Append(s, e), S) = Places(s, S) \cup {Len(s) + 1}
    BY <1>1, <1>2, <1>3, <1>5 DEF Places
  <2>2. Len(s) + 1 \notin Places(s, S)
    BY <1>1, <1>3 DEF Places
  <2> QED BY <1>4, <1>5, <2>1, <2>2, FS_AddElement DEF Count
<1>6. CASE e \notin S
  <2>1. Places(Append(s, e), S) = Places(s, S)
    BY <1>1, <1>2, <1>3, <1>6 DEF Places
  <2> QED BY <1>4, <1>6, <2>1 DEF Count
<1> QED BY <1>5, <1>6

(* What is left when the place i of a sequence is taken out.                *)
LEMMA RemoveAtType ==
  ASSUME NEW M, NEW s \in Seq(M), NEW i \in DOMAIN s
  PROVE  /\ RemoveAt(s, i) \in Seq(M) /\ Len(RemoveAt(s, i)) = Len(s) - 1
         /\ DOMAIN RemoveAt(s, i) = 1 .. Len(s) - 1
         /\ i \in 1 .. Len(s) /\ Len(s) \in Nat
         /\ \A j \in 1 .. Len(s) - 1 :
              RemoveAt(s, i)[j] = IF j < i THEN s[j] ELSE s[j + 1]
<1> DEFINE u == SubSeq(s, 1, i - 1)
           v == SubSeq(s, i + 1, Len(s))
<1>1. i \in 1 .. Len(s) /\ Len(s) \in Nat
  OBVIOUS
<1>2. u \in Seq(M) /\ Len(u) = i - 1 /\ \A j \in 1 .. i - 1 : u[j] = s[j]
  BY <1>1
<1>3. v \in Seq(M) /\ Len(v) = Len(s) - i
      /\ \A j \in 1 .. Len(s) - i : v[j] = s[i + j]
  BY <1>1
<1>4. RemoveAt(s, i) = u \o v
  BY DEF RemoveAt
<1> HIDE DEF u, v
<1>5. u \o v \in Seq(M) /\ Len(u \o v) = Len(u) + Len(v)
      /\ \A j \in 1 .. Len(u) + Len(v) :
           (u \o v)[j] = IF j <= Len(u) THEN u[j] ELSE v[j - Len(u)]
  BY <1>2, <1>3
<1>6. ASSUME NEW j \in 1 .. Len(s) - 1
      PROVE  (u \o v)[j] = IF j < i THEN s[j] ELSE s[j + 1]
  <2>1. CASE j < i
    <3>1. j \in 1 .. i - 1 /\ j <= Len(u)
      BY <1>1, <1>2, <2>1
    <3> QED BY <1>1, <1>2, <1>3, <1>5, <2>1, <3>1, SMTT(30)
  <2>2. CASE ~(j < i)
    <3>1. ~(j <= Len(u)) /\ j - Len(u) = j - (i - 1) /\ j - (i - 1) \in 1 .. Len(s) - i
      BY <1>1, <1>2, <2>2
    <3>2. v[j - (i - 1)] = s[i + (j - (i - 1))] /\ i + (j - (i - 1)) = j + 1
      BY <1>1, <1>3, <3>1, SMTT(30)
    <3>3. j \in 1 .. Len(u) + Len(v)
      BY <1>1, <1>2, <1>3
    <3>4. (u \o v)[j] = v[j - Len(u)]
      BY <1>5, <3>1, <3>3
    <3> QED BY <2>2, <3>1, <3>2, <3>4
  <2> QED BY <2>1, <2>2
<1>7. Len(u) + Len(v) = Len(s) - 1
  BY <1>1, <1>2, <1>3
<1> QED BY <1>1, <1>4, <1>5, <1>6, <1>7

(* So does an element taken out.                                            *)
LEMMA CountRemoveAt ==
  ASSUME NEW M, NEW s \in Seq(M), NEW S, NEW i \in DOMAIN s
  PROVE  Count(RemoveAt(s, i), S) = Count(s, S) - (IF s[i] \in S THEN 1 ELSE 0)
<1> DEFINE t == RemoveAt(s, i)
           A == Places(t, S)
           B == Places(s, S) \ {i}
           f == [j \in B |-> IF j < i THEN j ELSE j - 1]
<1>1. /\ DOMAIN t = 1 .. Len(s) - 1 /\ i \in 1 .. Len(s) /\ Len(s) \in Nat
      /\ \A j \in 1 .. Len(s) - 1 : t[j] = IF j < i THEN s[j] ELSE s[j + 1]
  BY RemoveAtType
<1>d. DOMAIN s = 1 .. Len(s)
  OBVIOUS
<1>2. IsFiniteSet(Places(s, S)) /\ Cardinality(Places(s, S)) \in Nat
  BY CountType DEF Count
<1>f. f = [j \in B |-> f[j]] /\ \A j \in B : f[j] = IF j < i THEN j ELSE j - 1
  OBVIOUS
<1> HIDE DEF t, f
<1>3. ASSUME NEW j \in B PROVE f[j] \in A
  <2>1. j \in 1 .. Len(s) /\ s[j] \in S /\ j # i
    BY <1>1, <1>d, <1>f DEF Places
  <2>2. CASE j < i
    BY <1>1, <1>d, <1>f, <2>1, <2>2 DEF Places
  <2>3. CASE j > i
    <3>1. j - 1 \in 1 .. Len(s) - 1 /\ ~(j - 1 < i) /\ j - 1 + 1 = j
      BY <1>1, <1>d, <1>f, <2>1, <2>3
    <3>2. t[j - 1] = s[j]
      BY <1>1, <1>d, <1>f, <3>1
    <3> QED BY <1>1, <1>d, <1>f, <2>1, <2>3, <3>1, <3>2 DEF Places
  <2> QED BY <1>1, <1>d, <1>f, <2>1, <2>2, <2>3
<1>4. ASSUME NEW j \in B, NEW k \in B, f[j] = f[k] PROVE j = k
  <2>1. j \in 1 .. Len(s) /\ j # i /\ k \in 1 .. Len(s) /\ k # i
    BY <1>1, <1>d, <1>f DEF Places
  <2> QED BY <1>1, <1>d, <1>f, <1>4, <2>1
<1>5. ASSUME NEW k \in A PROVE \E j \in B : f[j] = k
  <2>1. k \in 1 .. Len(s) - 1 /\ t[k] \in S
    BY <1>1, <1>d, <1>f DEF Places
  <2>2. CASE k < i
    <3>1. k \in B
      BY <1>1, <1>d, <1>f, <2>1, <2>2 DEF Places
    <3> QED BY <1>f, <2>2, <3>1
  <2>3. CASE ~(k < i)
    <3>1. k + 1 \in B
      BY <1>1, <1>d, <1>f, <2>1, <2>3 DEF Places
    <3>2. ~(k + 1 < i) /\ k + 1 - 1 = k
      BY <1>1, <1>d, <1>f, <2>1, <2>3
    <3>3. f[k + 1] = k
      BY <1>1, <1>f, <2>1, <3>1, <3>2
    <3> QED BY <3>1, <3>3
  <2> QED BY <2>2, <2>3
<1>6. f \in Bijection(B, A)
  <2>1. f \in [B -> A]
    BY <1>3, <1>f
  <2> HIDE DEF A, B
  <2> QED BY <1>4, <1>5, <2>1 DEF Bijection, Injection, Surjection, IsInjective
<1>7. IsFiniteSet(B) /\ Cardinality(B) = IF i \in Places(s, S)
                                          THEN Cardinality(Places(s, S)) - 1
                                          ELSE Cardinality(Places(s, S))
  BY <1>2, FS_RemoveElement
<1>8. Cardinality(A) = Cardinality(B)
  <2> HIDE DEF A, B
  <2> QED BY <1>6, <1>7, FS_Bijection DEF ExistsBijection
<1>9. i \in Places(s, S) <=> s[i] \in S
  BY DEF Places
<1> QED BY <1>2, <1>7, <1>8, <1>9 DEF Count, t

(* To take out the first element is to keep the tail.                       *)
LEMMA TailRemoveAt ==
  ASSUME NEW M, NEW s \in Seq(M), s # <<>>
  PROVE  /\ Tail(s) = RemoveAt(s, 1) /\ Head(s) = s[1] /\ 1 \in DOMAIN s /\ Head(s) \in M
         /\ Tail(s) \in Seq(M) /\ Len(s) \in Nat \ {0}
         /\ DOMAIN Tail(s) = 1 .. Len(s) - 1 /\ Len(Tail(s)) = Len(s) - 1
         /\ \A j \in 1 .. Len(s) - 1 : Tail(s)[j] = s[j + 1]
<1>1. Len(s) \in Nat \ {0} /\ 1 \in DOMAIN s /\ Head(s) = s[1] /\ Head(s) \in M
  OBVIOUS
<1>2. Tail(s) \in Seq(M) /\ Len(Tail(s)) = Len(s) - 1
      /\ \A j \in 1 .. Len(s) - 1 : Tail(s)[j] = s[j + 1]
  BY <1>1
<1>3. DOMAIN Tail(s) = 1 .. Len(s) - 1
  BY <1>1, <1>2
<1>4. /\ RemoveAt(s, 1) \in Seq(M) /\ Len(RemoveAt(s, 1)) = Len(s) - 1
      /\ \A j \in 1 .. Len(s) - 1 : RemoveAt(s, 1)[j] = s[j + 1]
  BY <1>1, RemoveAtType
<1>5. Tail(s) = RemoveAt(s, 1)
  <2>1. \A j \in 1 .. Len(s) - 1 : Tail(s)[j] = RemoveAt(s, 1)[j]
    BY <1>2, <1>4
  <2> QED BY <1>1, <1>2, <1>4, <2>1
<1> QED BY <1>1, <1>2, <1>3, <1>5

(* The count of the tail.                                                   *)
LEMMA CountTail ==
  ASSUME NEW M, NEW s \in Seq(M), NEW S, s # <<>>
  PROVE  Count(Tail(s), S) = Count(s, S) - (IF Head(s) \in S THEN 1 ELSE 0)
<1>1. Tail(s) = RemoveAt(s, 1) /\ Head(s) = s[1] /\ 1 \in DOMAIN s
  BY TailRemoveAt
<1>2. Count(RemoveAt(s, 1), S) = Count(s, S) - (IF s[1] \in S THEN 1 ELSE 0)
  BY <1>1, CountRemoveAt
<1> QED BY <1>1, <1>2

(* What a sequence has become when an element is put in at place p.         *)
LEMMA InsertAtType ==
  ASSUME NEW M, NEW s \in Seq(M), NEW p \in 1 .. Len(s) + 1, NEW e \in M
  PROVE  /\ InsertAt(s, p, e) \in Seq(M) /\ Len(InsertAt(s, p, e)) = Len(s) + 1
         /\ DOMAIN InsertAt(s, p, e) = 1 .. Len(s) + 1 /\ Len(s) \in Nat
         /\ \A j \in 1 .. Len(s) + 1 :
              InsertAt(s, p, e)[j] = IF j < p THEN s[j] ELSE IF j = p THEN e ELSE s[j - 1]
<1> DEFINE u == SubSeq(s, 1, p - 1)
           v == SubSeq(s, p, Len(s))
           w == u \o <<e>>
<1>1. p \in Nat \ {0} /\ p <= Len(s) + 1 /\ Len(s) \in Nat
  OBVIOUS
<1>2. u \in Seq(M) /\ Len(u) = p - 1 /\ \A j \in 1 .. p - 1 : u[j] = s[j]
  BY <1>1
<1>3. v \in Seq(M) /\ Len(v) = Len(s) - p + 1
      /\ \A j \in 1 .. Len(s) - p + 1 : v[j] = s[p + j - 1]
  BY <1>1
<1>4. InsertAt(s, p, e) = w \o v
  BY DEF InsertAt
<1> HIDE DEF u, v
<1>5. w \in Seq(M) /\ Len(w) = p /\ w[p] = e /\ \A j \in 1 .. p - 1 : w[j] = s[j]
  BY <1>1, <1>2
<1> HIDE DEF w
<1>6. w \o v \in Seq(M) /\ Len(w \o v) = Len(w) + Len(v)
      /\ \A j \in 1 .. Len(w) + Len(v) :
           (w \o v)[j] = IF j <= Len(w) THEN w[j] ELSE v[j - Len(w)]
  <2>1. w \in Seq(M) /\ v \in Seq(M)
    BY <1>3, <1>5
  <2> QED BY <2>1
<1>7. Len(w) + Len(v) = Len(s) + 1
  BY <1>1, <1>3, <1>5
<1>8. ASSUME NEW j \in 1 .. Len(s) + 1
      PROVE  (w \o v)[j] = IF j < p THEN s[j] ELSE IF j = p THEN e ELSE s[j - 1]
  <2>1. CASE j <= p
    <3>1. (w \o v)[j] = w[j]
      BY <1>5, <1>6, <1>7, <2>1
    <3>2. j < p => j \in 1 .. p - 1
      BY <1>1
    <3>3. j = p \/ j < p
      BY <1>1, <2>1
    <3> QED BY <1>1, <1>5, <3>1, <3>2, <3>3
  <2>2. CASE ~(j <= p)
    <3>1. (w \o v)[j] = v[j - p]
      BY <1>5, <1>6, <1>7, <2>2
    <3>2. j - p \in 1 .. Len(s) - p + 1 /\ p + (j - p) - 1 = j - 1 /\ ~(j < p) /\ j # p
      BY <1>1, <2>2
    <3> QED BY <1>3, <3>1, <3>2
  <2> QED BY <2>1, <2>2
<1>9. DOMAIN (w \o v) = 1 .. Len(s) + 1
  BY <1>6, <1>7
<1> QED BY <1>1, <1>4, <1>6, <1>7, <1>8, <1>9

(* Taken out again, it leaves the sequence as it was; hence its count.      *)
LEMMA CountInsertAt ==
  ASSUME NEW M, NEW s \in Seq(M), NEW S, NEW p \in 1 .. Len(s) + 1, NEW e \in M
  PROVE  Count(InsertAt(s, p, e), S) = Count(s, S) + (IF e \in S THEN 1 ELSE 0)
<1> DEFINE t == InsertAt(s, p, e)
<1>1. /\ t \in Seq(M) /\ Len(t) = Len(s) + 1 /\ DOMAIN t = 1 .. Len(s) + 1 /\ Len(s) \in Nat
      /\ \A j \in 1 .. Len(s) + 1 :
           t[j] = IF j < p THEN s[j] ELSE IF j = p THEN e ELSE s[j - 1]
  BY InsertAtType
<1> HIDE DEF t
<1>2. p \in DOMAIN t /\ t[p] = e
  BY <1>1
<1>3. /\ RemoveAt(t, p) \in Seq(M) /\ Len(RemoveAt(t, p)) = Len(s)
      /\ \A j \in 1 .. Len(s) : RemoveAt(t, p)[j] = IF j < p THEN t[j] ELSE t[j + 1]
  <2>1. Len(t) - 1 = Len(s)
    BY <1>1
  <2>2. /\ RemoveAt(t, p) \in Seq(M) /\ Len(RemoveAt(t, p)) = Len(t) - 1
        /\ \A j \in 1 .. Len(t) - 1 : RemoveAt(t, p)[j] = IF j < p THEN t[j] ELSE t[j + 1]
    BY <1>1, <1>2, RemoveAtType
  <2> QED BY <2>1, <2>2
<1>4. RemoveAt(t, p) = s
  <2>1. ASSUME NEW j \in 1 .. Len(s) PROVE RemoveAt(t, p)[j] = s[j]
    <3>1. CASE j < p
      <4>1. j \in 1 .. Len(s) + 1
        BY <1>1
      <4> QED BY <1>1, <1>3, <3>1, <4>1
    <3>2. CASE ~(j < p)
      <4>1. j + 1 \in 1 .. Len(s) + 1 /\ ~(j + 1 < p) /\ j + 1 # p /\ (j + 1) - 1 = j
        BY <1>1, <3>2
      <4>2. t[j + 1] = s[(j + 1) - 1]
        BY <1>1, <4>1
      <4> QED BY <1>3, <3>2, <4>1, <4>2
    <3> QED BY <3>1, <3>2
  <2> QED BY <1>1, <1>3, <2>1
<1>5. Count(RemoveAt(t, p), S) = Count(t, S) - (IF t[p] \in S THEN 1 ELSE 0)
  BY <1>1, <1>2, CountRemoveAt
<1>6. Count(t, S) \in Nat
  BY <1>1, CountType
<1> QED BY <1>2, <1>4, <1>5, <1>6 DEF t

(* A sequence without repetition is no longer than its set is large.        *)
LEMMA DistinctLength ==
  ASSUME NEW M, IsFiniteSet(M), NEW s \in Seq(M),
         \A i, j \in DOMAIN s : s[i] = s[j] => i = j
  PROVE  Len(s) \in Nat /\ Len(s) <= Cardinality(M)
<1>1. Len(s) \in Nat /\ DOMAIN s = 1 .. Len(s) /\ s \in [1 .. Len(s) -> M]
  OBVIOUS
<1>2. s \in Injection(1 .. Len(s), M)
  BY <1>1 DEF Injection, IsInjective
<1>3. Cardinality(1 .. Len(s)) <= Cardinality(M)
  BY <1>2, FS_Injection
<1>4. Cardinality(1 .. Len(s)) = Len(s)
  BY <1>1, FS_Interval
<1> QED BY <1>1, <1>3, <1>4

=============================================================================
