------------------------------ MODULE SeqFacts ------------------------------
(***************************************************************************)
(* What the vectors and queues of the kernel contain after push, pop,      *)
(* pop_front, remove and extend: facts about Append, Tail, SubSeq,         *)
(* RemoveAt and concatenation that the proofs about TCB vectors, the ready *)
(* queue and the recycled stacks rest on.                                  *)
(***************************************************************************)
EXTENDS Integers, Sequences, Functions, SequencesExt, TLAPS

(* What a vector contains are the elements at its positions.                *)
LEMMA RangeFacts ==
  ASSUME NEW S, NEW s \in Seq(S)
  PROVE  /\ Range(s) \subseteq S
         /\ \A i \in DOMAIN s : s[i] \in Range(s) /\ s[i] \in S
         /\ \A e \in Range(s) : \E i \in DOMAIN s : s[i] = e
<1>1. \A i \in DOMAIN s : s[i] \in S
  OBVIOUS
<1> QED BY <1>1, Zenon DEF Range

(* Vec::push and VecDeque::push_back add exactly the new element.           *)
LEMMA AppendFacts ==
  ASSUME NEW S, NEW s \in Seq(S), NEW e \in S
  PROVE  /\ Append(s, e) \in Seq(S)
         /\ Range(Append(s, e)) = Range(s) \cup {e}
         /\ (IsInjective(s) /\ e \notin Range(s)) => IsInjective(Append(s, e))
<1> DEFINE a == Append(s, e)
<1>1. /\ a \in Seq(S)
      /\ DOMAIN a = 1 .. Len(s) + 1
      /\ \A i \in 1 .. Len(s) : a[i] = s[i]
      /\ a[Len(s) + 1] = e
      /\ DOMAIN s = 1 .. Len(s) /\ Len(s) \in Nat
  OBVIOUS
<1>2. Range(a) = Range(s) \cup {e}
  BY <1>1, Z3 DEF Range
<1>3. ASSUME IsInjective(s), e \notin Range(s) PROVE IsInjective(a)
  BY <1>1, <1>3, Z3 DEF Range, IsInjective
<1> QED BY <1>1, <1>2, <1>3

(* VecDeque::pop_front removes exactly the head.                            *)
LEMMA TailFacts ==
  ASSUME NEW S, NEW s \in Seq(S), s # <<>>
  PROVE  /\ Head(s) \in S /\ Head(s) \in Range(s)
         /\ Tail(s) \in Seq(S)
         /\ Range(s) = Range(Tail(s)) \cup {Head(s)}
         /\ IsInjective(s) => /\ IsInjective(Tail(s))
                              /\ Head(s) \notin Range(Tail(s))
<1> DEFINE r == Tail(s)
<1>1. /\ r \in Seq(S)
      /\ Len(s) \in Nat /\ Len(s) > 0 /\ DOMAIN s = 1 .. Len(s)
      /\ DOMAIN r = 1 .. Len(s) - 1
      /\ \A i \in 1 .. Len(s) - 1 : r[i] = s[i + 1]
      /\ Head(s) = s[1] /\ s[1] \in S
  OBVIOUS
<1>2. Head(s) \in Range(s)
  BY <1>1, Z3 DEF Range
<1> HIDE DEF r
<1>3. Range(s) = Range(r) \cup {Head(s)}
  <2>1. ASSUME NEW i \in DOMAIN s PROVE s[i] \in Range(r) \cup {Head(s)}
    <3>1. CASE i = 1
      BY <1>1, <3>1
    <3>2. CASE i # 1
      <4>1. i - 1 \in 1 .. Len(s) - 1 /\ (i - 1) + 1 = i
        BY <1>1, <3>2
      <4>2. r[i - 1] = s[i]
        BY <1>1, <4>1
      <4> QED BY <1>1, <4>1, <4>2, Z3 DEF Range
    <3> QED BY <3>1, <3>2
  <2>2. ASSUME NEW i \in DOMAIN r PROVE r[i] \in Range(s)
    <3>1. i + 1 \in 1 .. Len(s)
      BY <1>1
    <3> QED BY <1>1, <3>1, Z3 DEF Range
  <2> QED BY <1>2, <2>1, <2>2, Zenon DEF Range
<1>4. ASSUME IsInjective(s) PROVE IsInjective(r) /\ Head(s) \notin Range(r)
  <2>1. \A i \in DOMAIN r : i \in Int /\ i + 1 \in DOMAIN s /\ i + 1 # 1
    BY <1>1
  <2>2. ASSUME NEW i \in DOMAIN r, NEW j \in DOMAIN r, r[i] = r[j] PROVE i = j
    <3>1. s[i + 1] = s[j + 1]
      BY <1>1, <2>2
    <3>2. i + 1 = j + 1
      BY <1>4, <2>1, <3>1 DEF IsInjective
    <3> QED BY <2>1, <3>2
  <2>3. ASSUME NEW i \in DOMAIN r PROVE r[i] # Head(s)
    BY <1>1, <1>4, <2>1 DEF IsInjective
  <2> QED BY <2>2, <2>3, Zenon DEF IsInjective, Range
<1> USE DEF r
<1> QED BY <1>1, <1>2, <1>3, <1>4

(* Vec::pop removes exactly the last element.                               *)
LEMMA PopFacts ==
  ASSUME NEW S, NEW s \in Seq(S), s # <<>>
  PROVE  LET r == SubSeq(s, 1, Len(s) - 1)
             e == s[Len(s)]
         IN  /\ e \in S
             /\ r \in Seq(S)
             /\ Range(s) = Range(r) \cup {e}
             /\ IsInjective(s) => IsInjective(r) /\ e \notin Range(r)
<1> DEFINE r == SubSeq(s, 1, Len(s) - 1)
<1>1. /\ r \in Seq(S)
      /\ Len(s) \in Nat /\ Len(s) > 0 /\ DOMAIN s = 1 .. Len(s)
      /\ DOMAIN r = 1 .. Len(s) - 1
      /\ \A i \in 1 .. Len(s) - 1 : r[i] = s[i]
      /\ s[Len(s)] \in S
  OBVIOUS
<1> HIDE DEF r
<1>2. Range(s) = Range(r) \cup {s[Len(s)]}
  <2>1. ASSUME NEW i \in DOMAIN s PROVE s[i] \in Range(r) \cup {s[Len(s)]}
    <3>1. CASE i = Len(s)
      BY <3>1
    <3>2. CASE i # Len(s)
      <4>1. i \in 1 .. Len(s) - 1
        BY <1>1, <3>2
      <4> QED BY <1>1, <4>1, Z3 DEF Range
    <3> QED BY <3>1, <3>2
  <2>2. ASSUME NEW i \in DOMAIN r PROVE r[i] \in Range(s)
    <3>1. i \in 1 .. Len(s)
      BY <1>1
    <3> QED BY <1>1, <3>1, Z3 DEF Range
  <2>3. s[Len(s)] \in Range(s)
    BY <1>1, Z3 DEF Range
  <2> QED BY <2>1, <2>2, <2>3, Zenon DEF Range
<1>3. ASSUME IsInjective(s) PROVE IsInjective(r) /\ s[Len(s)] \notin Range(r)
  BY <1>1, <1>3, Z3 DEF Range, IsInjective
<1> USE DEF r
<1> QED BY <1>1, <1>2, <1>3

(* Extending a vector by another one.                                       *)
LEMMA ConcatFacts ==
  ASSUME NEW S, NEW s \in Seq(S), NEW t \in Seq(S)
  PROVE  /\ s \o t \in Seq(S)
         /\ Range(s \o t) = Range(s) \cup Range(t)
         /\ (/\ IsInjective(s) /\ IsInjective(t)
             /\ Range(s) \cap Range(t) = {}) => IsInjective(s \o t)
<1> DEFINE a == s \o t
<1>1. /\ a \in Seq(S)
      /\ Len(s) \in Nat /\ Len(t) \in Nat
      /\ DOMAIN s = 1 .. Len(s) /\ DOMAIN t = 1 .. Len(t)
      /\ DOMAIN a = 1 .. Len(s) + Len(t)
      /\ \A i \in 1 .. Len(s) : a[i] = s[i]
      /\ \A i \in 1 .. Len(t) : a[Len(s) + i] = t[i]
  OBVIOUS
<1>2. \A i \in DOMAIN a :
        \/ i \in DOMAIN s /\ a[i] = s[i]
        \/ i - Len(s) \in DOMAIN t /\ a[i] = t[i - Len(s)]
  <2> TAKE i \in DOMAIN a
  <2>1. CASE i <= Len(s)
    BY <1>1, <2>1
  <2>2. CASE i > Len(s)
    <3>1. i - Len(s) \in 1 .. Len(t) /\ Len(s) + (i - Len(s)) = i
      BY <1>1, <2>2
    <3> QED BY <1>1, <3>1
  <2> QED BY <1>1, <2>1, <2>2
<1>3. Range(a) = Range(s) \cup Range(t)
  <2>1. \A i \in DOMAIN s : i \in DOMAIN a /\ a[i] = s[i]
    BY <1>1
  <2>2. \A i \in DOMAIN t : Len(s) + i \in DOMAIN a /\ a[Len(s) + i] = t[i]
    BY <1>1
  <2> HIDE DEF a
  <2> QED BY <1>2, <2>1, <2>2, Z3 DEF Range
<1>4. ASSUME IsInjective(s), IsInjective(t), Range(s) \cap Range(t) = {}
      PROVE  IsInjective(a)
  <2> SUFFICES ASSUME NEW i \in DOMAIN a, NEW j \in DOMAIN a, a[i] = a[j]
               PROVE  i = j
    BY Zenon DEF IsInjective
  <2>0. i \in Int /\ j \in Int
    BY <1>1
  <2>1. \A k \in DOMAIN s, l \in DOMAIN t : s[k] # t[l]
    BY <1>4, Z3 DEF Range
  <2> HIDE DEF a
  <2> QED BY <1>1, <1>2, <1>4, <2>0, <2>1, Z3 DEF IsInjective
<1> QED BY <1>1, <1>3, <1>4

(* Vec::remove takes out exactly the element at the index.                  *)
LEMMA RemoveAtFacts ==
  ASSUME NEW S, NEW s \in Seq(S), NEW i \in DOMAIN s
  PROVE  /\ s[i] \in S
         /\ RemoveAt(s, i) \in Seq(S)
         /\ Range(s) = Range(RemoveAt(s, i)) \cup {s[i]}
         /\ IsInjective(s) => /\ IsInjective(RemoveAt(s, i))
                              /\ s[i] \notin Range(RemoveAt(s, i))
<1> DEFINE b == SubSeq(s, 1, i - 1)
           e == SubSeq(s, i + 1, Len(s))
<1>1. /\ Len(s) \in Nat /\ DOMAIN s = 1 .. Len(s) /\ i \in 1 .. Len(s)
      /\ s[i] \in S
  OBVIOUS
<1>2. /\ b \in Seq(S) /\ DOMAIN b = 1 .. i - 1
      /\ \A k \in 1 .. i - 1 : b[k] = s[k]
  BY <1>1
<1>3. /\ e \in Seq(S) /\ DOMAIN e = 1 .. Len(s) - i
      /\ \A k \in 1 .. Len(s) - i : e[k] = s[i + k]
  BY <1>1
<1>4. RemoveAt(s, i) = b \o e
  BY DEF RemoveAt
<1> HIDE DEF b, e
<1>5. /\ b \o e \in Seq(S)
      /\ Range(b \o e) = Range(b) \cup Range(e)
      /\ (/\ IsInjective(b) /\ IsInjective(e)
          /\ Range(b) \cap Range(e) = {}) => IsInjective(b \o e)
  BY <1>2, <1>3, ConcatFacts
<1>6. Range(s) = (Range(b) \cup Range(e)) \cup {s[i]}
  <2>1. ASSUME NEW k \in DOMAIN s
        PROVE  s[k] \in (Range(b) \cup Range(e)) \cup {s[i]}
    <3>1. CASE k < i
      <4>1. k \in 1 .. i - 1
        BY <1>1, <3>1
      <4> QED BY <1>2, <4>1, Z3 DEF Range
    <3>2. CASE k > i
      <4>1. k - i \in 1 .. Len(s) - i /\ i + (k - i) = k
        BY <1>1, <3>2
      <4>2. e[k - i] = s[k]
        BY <1>3, <4>1
      <4> QED BY <1>3, <4>1, <4>2, Z3 DEF Range
    <3> QED BY <1>1, <3>1, <3>2
  <2>2. ASSUME NEW k \in DOMAIN b PROVE b[k] \in Range(s)
    <3>1. k \in 1 .. Len(s)
      BY <1>1, <1>2
    <3> QED BY <1>1, <1>2, <3>1, Z3 DEF Range
  <2>3. ASSUME NEW k \in DOMAIN e PROVE e[k] \in Range(s)
    <3>1. i + k \in 1 .. Len(s)
      BY <1>1, <1>3
    <3> QED BY <1>1, <1>3, <3>1, Z3 DEF Range
  <2>4. s[i] \in Range(s)
    BY Zenon DEF Range
  <2> QED BY <2>1, <2>2, <2>3, <2>4, Zenon DEF Range
<1>7. ASSUME IsInjective(s)
      PROVE  /\ IsInjective(b) /\ IsInjective(e)
             /\ Range(b) \cap Range(e) = {}
             /\ s[i] \notin Range(b) \cup Range(e)
  <2>1. \A k \in 1 .. i - 1 : k \in 1 .. Len(s) /\ k # i /\ s[k] = b[k]
    BY <1>1, <1>2
  <2>2. \A k \in 1 .. Len(s) - i :
          i + k \in 1 .. Len(s) /\ i + k # i /\ i + k > i /\ s[i + k] = e[k]
    BY <1>1, <1>3
  <2>3. IsInjective(b)
    BY <1>1, <1>2, <1>7, <2>1, Z3 DEF IsInjective
  <2>4. IsInjective(e)
    BY <1>1, <1>3, <1>7, <2>2, Z3 DEF IsInjective
  <2>5. Range(b) \cap Range(e) = {}
    BY <1>1, <1>2, <1>3, <1>7, <2>1, <2>2, Z3 DEF IsInjective, Range
  <2>6. s[i] \notin Range(b) \cup Range(e)
    BY <1>1, <1>2, <1>3, <1>7, <2>1, <2>2, Z3 DEF IsInjective, Range
  <2> QED BY <2>3, <2>4, <2>5, <2>6
<1> QED BY <1>1, <1>4, <1>5, <1>6, <1>7

(* The lengths after a push and after a remove.                             *)
LEMMA LenFacts ==
  ASSUME NEW S, NEW s \in Seq(S), NEW e \in S
  PROVE  /\ Len(s) \in Nat /\ DOMAIN s = 1 .. Len(s)
         /\ Len(Append(s, e)) = Len(s) + 1
         /\ \A i \in DOMAIN s : Len(RemoveAt(s, i)) = Len(s) - 1
<1>1. /\ Len(s) \in Nat /\ DOMAIN s = 1 .. Len(s)
      /\ Len(Append(s, e)) = Len(s) + 1
  OBVIOUS
<1>2. ASSUME NEW i \in DOMAIN s PROVE Len(RemoveAt(s, i)) = Len(s) - 1
  <2> DEFINE b == SubSeq(s, 1, i - 1)
             t == SubSeq(s, i + 1, Len(s))
  <2>1. b \in Seq(S) /\ Len(b) = i - 1
    BY <1>1
  <2>2. t \in Seq(S) /\ Len(t) = Len(s) - i
    BY <1>1
  <2>3. RemoveAt(s, i) = b \o t
    BY DEF RemoveAt
  <2> HIDE DEF b, t
  <2>4. Len(b \o t) = Len(b) + Len(t)
    <3>1. \A u, v \in Seq(S) : Len(u \o v) = Len(u) + Len(v)
      OBVIOUS
    <3> QED BY <2>1, <2>2, <3>1, Zenon
  <2>5. i \in Int
    BY <1>1
  <2> QED BY <1>1, <2>1, <2>2, <2>3, <2>4, <2>5
<1> QED BY <1>1, <1>2

=============================================================================
