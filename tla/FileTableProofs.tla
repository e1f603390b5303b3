-------------------------- MODULE FileTableProofs --------------------------
(***************************************************************************)
(* Theorems about FileTable, for any number of tasks, files, descriptors   *)
(* and any size of a page: slice after slice is one transfer, tables and   *)
(* open files stay consistent, writers that share an offset append, and    *)
(* the calls implement OpenFiles.                                          *)
(***************************************************************************)
EXTENDS FileTable, SeqFacts, FiniteSetTheorems, WellFoundedInduction

(* What a file consists of.                                                 *)
Words == Bytes \cup {0}

-----------------------------------------------------------------------------
(* Transfers.                                                               *)

(* A set of numbers that is not empty has a least element.                  *)
LEMMA Least ==
  ASSUME NEW T, T \subseteq Nat, T # {}
  PROVE  \E x \in T : \A y \in T : ~(y < x)
<1>1. \E x \in T : \A y \in T : ~(<<y, x>> \in OpToRel(<, Nat))
  BY NatLessThanWellFounded, WFMin
<1>2. \A x, y \in T : y < x => <<y, x>> \in OpToRel(<, Nat)
  BY DEF OpToRel
<1> QED BY <1>1, <1>2, Zenon

(* The smaller and the larger of two numbers.                               *)
LEMMA MinMax ==
  ASSUME NEW a \in Int, NEW b \in Int
  PROVE  /\ Min({a, b}) = IF a <= b THEN a ELSE b
         /\ Max({a, b}) = IF a >= b THEN a ELSE b
BY DEF Min, Max

(* Sequences with the same elements in the same places are equal.           *)
LEMMA SameSeq ==
  ASSUME NEW S, NEW s \in Seq(S), NEW t \in Seq(S), Len(s) = Len(t),
         \A i \in 1 .. Len(s) : s[i] = t[i]
  PROVE  s = t
<1>1. /\ DOMAIN s = 1 .. Len(s) /\ s = [i \in 1 .. Len(s) |-> s[i]]
      /\ t = [i \in 1 .. Len(s) |-> t[i]]
  OBVIOUS
<1> QED BY <1>1

(* A function from 1 .. n is a sequence.                                    *)
LEMMA FunctionSeq ==
  ASSUME NEW R, NEW n \in Nat, NEW f \in [1 .. n -> R]
  PROVE  f \in Seq(R) /\ Len(f) = n
OBVIOUS

(* A sequence with an element is not the empty one.                         *)
LEMMA NotEmpty ==
  ASSUME NEW s, Len(s) >= 1
  PROVE  s # <<>>
OBVIOUS

(* One sequence behind another.                                             *)
LEMMA CatFacts ==
  ASSUME NEW S, NEW s \in Seq(S), NEW t \in Seq(S), NEW x, x = s \o t
  PROVE  /\ x \in Seq(S) /\ Len(x) = Len(s) + Len(t)
         /\ \A i \in 1 .. Len(s) : x[i] = s[i]
         /\ \A i \in 1 .. Len(t) : x[Len(s) + i] = t[i]
OBVIOUS

(* A part of a sequence.                                                    *)
LEMMA PartFacts ==
  ASSUME NEW S, NEW s \in Seq(S), NEW a \in Nat, NEW b \in Int, b <= Len(s)
  PROVE  LET p == SubSeq(s, a + 1, b)
         IN  /\ p \in Seq(S)
             /\ b >= a => Len(p) = b - a
             /\ b < a => Len(p) = 0
             /\ \A i \in 1 .. Len(p) : a + i \in 1 .. Len(s) /\ p[i] = s[a + i]
<1>1. PICK p, c : p = SubSeq(s, a + 1, b) /\ c = a + 1
  OBVIOUS
<1>2. c \in Nat /\ c >= 1 /\ Len(s) \in Nat /\ p = SubSeq(s, c, b)
  BY <1>1
<1>3. CASE b >= a
  <2>1. p \in Seq(S) /\ Len(p) = b - a
    BY <1>1, <1>2, <1>3
  <2>2. ASSUME NEW i \in 1 .. Len(p) PROVE a + i \in 1 .. Len(s) /\ p[i] = s[a + i]
    <3>1. i \in 1 .. b - a /\ c + i - 1 = a + i /\ a + i \in 1 .. Len(s)
      BY <1>1, <1>2, <1>3, <2>1
    <3>2. p[i] = s[c + i - 1]
      BY <1>1, <1>2, <1>3, <3>1
    <3> QED BY <3>1, <3>2
  <2> QED BY <1>1, <1>3, <2>1, <2>2
<1>4. CASE b < a
  <2>1. p \in Seq(S) /\ Len(p) = 0
    BY <1>1, <1>2, <1>4
  <2> QED BY <1>1, <1>4, <2>1
<1> QED BY <1>3, <1>4

(* The gap before a write behind the end.                                   *)
LEMMA ZeroFacts ==
  ASSUME NEW n \in Int
  PROVE  LET z == [i \in 1 .. n |-> 0]
         IN  /\ z \in Seq(Words) /\ Len(z) = (IF n > 0 THEN n ELSE 0)
             /\ \A i \in 1 .. Len(z) : z[i] = 0
<1>1. PICK z : z = [i \in 1 .. n |-> 0]
  OBVIOUS
<1>2. 0 \in Words
  BY DEF Words
<1>3. CASE n > 0
  <2>1. n \in Nat
    BY <1>3
  <2> QED BY <1>1, <1>2, <1>3, <2>1
<1>4. CASE ~(n > 0)
  <2>1. 1 .. n = 1 .. 0
    BY <1>4
  <2>2. z = [i \in 1 .. 0 |-> 0]
    BY <1>1, <2>1
  <2>3. z \in Seq(Words) /\ Len(z) = 0
    BY <1>2, <2>2
  <2>4. /\ z \in Seq(Words) /\ Len(z) = (IF n > 0 THEN n ELSE 0)
        /\ \A i \in 1 .. Len(z) : z[i] = 0
    BY <1>4, <2>3
  <2> QED BY <1>1, <2>4, Zenon
<1> QED BY <1>3, <1>4

(* o is s with data written at off: n is the length of s, end where the     *)
(* data ends.                                                               *)
WrittenAt(o, s, off, data, n, end) ==
    /\ o \in Seq(Words) /\ Len(o) = (IF end > n THEN end ELSE n)
    /\ \A i \in 1 .. Len(o) : o[i] = IF i > off /\ i <= end THEN data[i - off]
                                    ELSE IF i <= n THEN s[i] ELSE 0

(* What a file has at each place after data was written at off.             *)
LEMMA OverwrittenFacts ==
  ASSUME NEW s \in Seq(Words), NEW off \in Nat, NEW data \in Seq(Words)
  PROVE  WrittenAt(FS!Overwritten(s, off, data), s, off, data, Len(s), off + Len(data))
<1>1. PICK z, n, m, end : /\ n = Len(s) /\ m = Len(data) /\ end = off + m
                          /\ z = [i \in 1 .. off - n |-> 0]
  OBVIOUS
<1>2. n \in Nat /\ m \in Nat /\ end \in Nat /\ off - n \in Int
  BY <1>1
<1>3. z \in Seq(Words) /\ Len(z) \in Nat /\ \A i \in 1 .. Len(z) : z[i] = 0
  <2>1. z \in Seq(Words) /\ \A i \in 1 .. Len(z) : z[i] = 0
    BY <1>1, <1>2, ZeroFacts, Zenon
  <2> QED BY <2>1
<1>4. Len(z) = IF off > n THEN off - n ELSE 0
  <2>1. Len(z) = IF off - n > 0 THEN off - n ELSE 0
    BY <1>1, <1>2, ZeroFacts
  <2> QED BY <1>2, <2>1
<1>5. PICK x : x = s \o z
  OBVIOUS
<1>6. /\ x \in Seq(Words) /\ Len(x) = n + Len(z)
      /\ \A i \in 1 .. n : x[i] = s[i]
      /\ \A i \in 1 .. Len(z) : x[n + i] = 0
  <2>1. /\ x \in Seq(Words) /\ Len(x) = Len(s) + Len(z)
        /\ \A i \in 1 .. Len(s) : x[i] = s[i]
        /\ \A i \in 1 .. Len(z) : x[Len(s) + i] = z[i]
    BY <1>3, <1>5, CatFacts
  <2> QED BY <1>1, <1>3, <2>1
<1>7. PICK p : p = SubSeq(x, 0 + 1, off)
  OBVIOUS
<1>8. p = SubSeq(x, 1, off)
  BY <1>7
<1>9. /\ p \in Seq(Words) /\ Len(p) = off
      /\ \A i \in 1 .. off : p[i] = x[0 + i]
  <2>1. 0 \in Nat /\ off \in Int /\ off <= Len(x) /\ off >= 0
    BY <1>2, <1>3, <1>4, <1>6
  <2>2. p \in Seq(Words) /\ Len(p) = off - 0 /\ \A i \in 1 .. Len(p) : p[i] = x[0 + i]
    BY <1>6, <1>7, <2>1, PartFacts
  <2> QED BY <2>2
<1>10. \A i \in 1 .. off : p[i] = IF i <= n THEN s[i] ELSE 0
  <2> SUFFICES ASSUME NEW i \in 1 .. off PROVE p[i] = IF i <= n THEN s[i] ELSE 0
    OBVIOUS
  <2>1. p[i] = x[i]
    BY <1>9
  <2>2. CASE i <= n
    BY <1>2, <1>6, <2>1, <2>2
  <2>3. CASE i > n
    <3>1. i - n \in 1 .. Len(z) /\ n + (i - n) = i
      BY <1>2, <1>3, <1>4, <2>3
    <3>2. x[n + (i - n)] = 0
      BY <1>6, <3>1, Zenon
    <3> QED BY <1>2, <2>1, <2>3, <3>1, <3>2
  <2> QED BY <1>2, <2>2, <2>3
<1>11. PICK t : t = SubSeq(s, end + 1, n)
  OBVIOUS
<1>12. /\ t \in Seq(Words) /\ Len(t) \in Nat /\ Len(t) = (IF n > end THEN n - end ELSE 0)
       /\ \A i \in 1 .. Len(t) : t[i] = s[end + i]
  <2>1. n \in Int /\ n <= Len(s)
    BY <1>1, <1>2
  <2>2. /\ t \in Seq(Words) /\ (n >= end => Len(t) = n - end) /\ (n < end => Len(t) = 0)
        /\ \A i \in 1 .. Len(t) : t[i] = s[end + i]
    BY <1>2, <1>11, <2>1, PartFacts
  <2> QED BY <1>2, <2>2
<1>13. PICK q : q = p \o data
  OBVIOUS
<1>14. /\ q \in Seq(Words) /\ Len(q) = end
       /\ \A i \in 1 .. off : q[i] = p[i]
       /\ \A i \in 1 .. m : q[off + i] = data[i]
  <2>1. /\ q \in Seq(Words) /\ Len(q) = Len(p) + Len(data)
        /\ \A i \in 1 .. Len(p) : q[i] = p[i]
        /\ \A i \in 1 .. Len(data) : q[Len(p) + i] = data[i]
    <3>1. p \in Seq(Words)
      BY <1>9
    <3> QED BY <3>1, <1>13, CatFacts
  <2> QED BY <1>1, <1>9, <2>1
<1>15. PICK o : o = q \o t
  OBVIOUS
<1>16. /\ o \in Seq(Words) /\ Len(o) = end + Len(t)
       /\ \A i \in 1 .. end : o[i] = q[i]
       /\ \A i \in 1 .. Len(t) : o[end + i] = t[i]
  <2>1. /\ o \in Seq(Words) /\ Len(o) = Len(q) + Len(t)
        /\ \A i \in 1 .. Len(q) : o[i] = q[i]
        /\ \A i \in 1 .. Len(t) : o[Len(q) + i] = t[i]
    <3>1. q \in Seq(Words) /\ t \in Seq(Words)
      BY <1>12, <1>14
    <3> QED BY <3>1, <1>15, CatFacts
  <2> QED BY <1>14, <2>1
<1>17. PICK l \in Nat, c \in Nat : /\ l = Len(t) /\ l = (IF n > end THEN n - end ELSE 0)
                                   /\ c = Len(o) /\ c = end + l
  BY <1>12, <1>16
<1>18. ASSUME NEW i \in 1 .. Len(o)
       PROVE  o[i] = IF i > off /\ i <= end THEN data[i - off]
                     ELSE IF i <= n THEN s[i] ELSE 0
  <2>1. CASE i <= off
    <3>1. i \in 1 .. off /\ i \in 1 .. end
      BY <1>1, <1>2, <2>1
    <3> QED BY <1>10, <1>14, <1>16, <2>1, <3>1
  <2>2. CASE i > off /\ i <= end
    <3>1. i - off \in 1 .. m /\ off + (i - off) = i /\ i \in 1 .. end
      BY <1>1, <1>2, <2>2
    <3> QED BY <1>14, <1>16, <2>2, <3>1
  <2>3. CASE i > end
    <3>1. i \in Int /\ i <= end + Len(t)
      BY <1>17
    <3>2. i - end \in 1 .. Len(t) /\ end + (i - end) = i /\ i <= n /\ ~(i <= end)
      BY <1>2, <1>17, <2>3, <3>1
    <3> QED BY <1>12, <1>16, <2>3, <3>2
  <2> QED BY <1>1, <1>2, <2>1, <2>2, <2>3
<1>19. Len(o) = IF end > n THEN end ELSE n
  BY <1>2, <1>17
<1>20. o = FS!Overwritten(s, off, data)
  BY <1>1, <1>5, <1>8, <1>11, <1>13, <1>15 DEF FS!Overwritten
<1>21. WrittenAt(o, s, off, data, n, end)
  BY <1>16, <1>18, <1>19 DEF WrittenAt
<1> QED BY <1>1, <1>20, <1>21

(* Two writes one behind the other are one write.                           *)
LEMMA WrittenTwice ==
  ASSUME NEW s \in Seq(Words), NEW off \in Nat, NEW data \in Seq(Words),
         NEW a \in Nat \ {0}, NEW b \in Nat, a < b, b <= Len(data)
  PROVE  FS!Overwritten(FS!Overwritten(s, off, SubSeq(data, 1, a)), off + a,
                        SubSeq(data, a + 1, b))
           = FS!Overwritten(s, off, SubSeq(data, 1, b))
<1>1. PICK d1, d2, d : /\ d1 = SubSeq(data, 0 + 1, a) /\ d2 = SubSeq(data, a + 1, b)
                       /\ d = SubSeq(data, 0 + 1, b)
  OBVIOUS
<1>2. d1 = SubSeq(data, 1, a) /\ d = SubSeq(data, 1, b)
  BY <1>1
<1>3. d1 \in Seq(Words) /\ Len(d1) = a /\ \A i \in 1 .. a : d1[i] = data[i]
  <2>1. 0 \in Nat /\ a \in Int /\ a <= Len(data) /\ a >= 0 /\ a - 0 = a
    OBVIOUS
  <2>2. d1 \in Seq(Words) /\ Len(d1) = a - 0 /\ \A i \in 1 .. Len(d1) : d1[i] = data[0 + i]
    BY <1>1, <2>1, PartFacts
  <2> QED BY <2>1, <2>2
<1>4. d \in Seq(Words) /\ Len(d) = b /\ \A i \in 1 .. b : d[i] = data[i]
  <2>1. 0 \in Nat /\ b \in Int /\ b >= 0 /\ b - 0 = b
    OBVIOUS
  <2>2. d \in Seq(Words) /\ Len(d) = b - 0 /\ \A i \in 1 .. Len(d) : d[i] = data[0 + i]
    BY <1>1, <2>1, PartFacts
  <2> QED BY <2>1, <2>2
<1>5. d2 \in Seq(Words) /\ Len(d2) = b - a /\ \A i \in 1 .. b - a : d2[i] = data[a + i]
  <2>1. a \in Nat /\ b \in Int /\ b >= a
    OBVIOUS
  <2>2. d2 \in Seq(Words) /\ Len(d2) = b - a /\ \A i \in 1 .. Len(d2) : d2[i] = data[a + i]
    BY <1>1, <2>1, PartFacts
  <2> QED BY <2>2
<1>6. PICK n \in Nat, e \in Nat, f \in Nat : n = Len(s) /\ e = off + a /\ f = off + b
  <2>1. Len(s) \in Nat /\ off + a \in Nat /\ off + b \in Nat
    OBVIOUS
  <2> QED BY <2>1
<1>7. PICK r : r = FS!Overwritten(s, off, d1)
  OBVIOUS
<1> USE DEF WrittenAt
<1>8. WrittenAt(r, s, off, d1, n, e)
  <2>1. d1 \in Seq(Words) /\ e = off + Len(d1)
    BY <1>3, <1>6
  <2> HIDE DEF WrittenAt
  <2> QED BY <1>6, <1>7, <2>1, OverwrittenFacts
<1>9. PICK x : x = FS!Overwritten(r, e, d2)
  OBVIOUS
<1>10. PICK m \in Nat : m = Len(r)
  BY <1>8
<1>11. WrittenAt(x, r, e, d2, m, f)
  <2>1. f = e + Len(d2) /\ d2 \in Seq(Words) /\ r \in Seq(Words)
    BY <1>5, <1>6, <1>8
  <2> HIDE DEF WrittenAt
  <2> QED BY <1>9, <1>10, <2>1, OverwrittenFacts
<1>12. PICK y : y = FS!Overwritten(s, off, d)
  OBVIOUS
<1>13. WrittenAt(y, s, off, d, n, f)
  <2>1. d \in Seq(Words) /\ f = off + Len(d)
    BY <1>4, <1>6
  <2> HIDE DEF WrittenAt
  <2> QED BY <1>6, <1>12, <2>1, OverwrittenFacts
<1>14. e < f /\ m = (IF e > n THEN e ELSE n)
  BY <1>6, <1>8, <1>10
<1>15. Len(x) = Len(y)
  BY <1>11, <1>13, <1>14
<1>16. ASSUME NEW i \in 1 .. Len(x) PROVE x[i] = y[i]
  <2>1. CASE i > e /\ i <= f
    <3>1. i - e \in 1 .. b - a /\ i - off \in 1 .. b /\ a + (i - e) = i - off /\ i > off
      BY <1>6, <2>1
    <3>2. x[i] = d2[i - e] /\ y[i] = d[i - off]
      BY <1>11, <1>13, <1>15, <2>1, <3>1
    <3>3. d2[i - e] = data[a + (i - e)] /\ d[i - off] = data[i - off]
      BY <1>4, <1>5, <3>1
    <3> QED BY <3>1, <3>2, <3>3
  <2>2. CASE i > off /\ i <= e
    <3>1. i - off \in 1 .. a /\ i - off \in 1 .. b /\ i \in 1 .. m /\ i <= f /\ i <= m
      BY <1>6, <1>14, <2>2
    <3>2. x[i] = r[i] /\ y[i] = d[i - off]
      BY <1>11, <1>13, <1>15, <2>2, <3>1
    <3>3. r[i] = d1[i - off]
      BY <1>8, <1>10, <2>2, <3>1
    <3>4. d1[i - off] = data[i - off] /\ d[i - off] = data[i - off]
      BY <1>3, <1>4, <3>1
    <3> QED BY <3>2, <3>3, <3>4
  <2>3. CASE i <= off
    <3>1. i \in 1 .. m /\ i <= m /\ ~(i > off) /\ ~(i > e)
      BY <1>6, <1>14, <2>3
    <3>2. x[i] = r[i] /\ y[i] = IF i <= n THEN s[i] ELSE 0
      BY <1>11, <1>13, <1>15, <3>1
    <3>3. r[i] = IF i <= n THEN s[i] ELSE 0
      BY <1>8, <1>10, <3>1
    <3> QED BY <3>2, <3>3
  <2>4. CASE i > f
    <3>1. i \in 1 .. m /\ i <= m /\ i <= n /\ ~(i <= f) /\ ~(i <= e)
      BY <1>11, <1>14, <2>4
    <3>2. x[i] = r[i] /\ y[i] = s[i]
      BY <1>11, <1>13, <1>15, <3>1
    <3>3. r[i] = s[i]
      BY <1>8, <1>10, <3>1
    <3> QED BY <3>2, <3>3
  <2> QED BY <1>6, <2>1, <2>2, <2>3, <2>4
<1>17. x = y
  BY <1>11, <1>13, <1>15, <1>16, SameSeq
<1> QED BY <1>1, <1>2, <1>6, <1>7, <1>9, <1>12, <1>17

(* The slices cover a buffer from its first byte on, without gaps.          *)
Tiles(sl) ==
    /\ sl \in Seq([from : Nat, to : Nat])
    /\ \A k \in 1 .. Len(sl) :
         /\ 1 <= sl[k].from /\ sl[k].from <= sl[k].to /\ sl[k].to <= sl[Len(sl)].to
         /\ sl[k].from = IF k = 1 THEN 1 ELSE sl[k - 1].to + 1

(* The loop of OSInode::write is one write.                                 *)
LEMMA SlicesWrittenFacts ==
  ASSUME NEW s \in Seq(Words), NEW off \in Nat, NEW data \in Seq(Words),
         NEW sl, Tiles(sl), sl # <<>>, sl[Len(sl)].to = Len(data)
  PROVE  SlicesWritten(s, off, sl, data) = FS!Overwritten(s, off, data)
<1>1. PICK n \in Nat : n = Len(sl) /\ n >= 1 /\ DOMAIN sl = 1 .. n
  BY DEF Tiles
<1>2. \A k \in 1 .. n :
         /\ sl[k].from \in Nat /\ sl[k].to \in Nat
         /\ 1 <= sl[k].from /\ sl[k].from <= sl[k].to /\ sl[k].to <= Len(data)
         /\ sl[k].from = IF k = 1 THEN 1 ELSE sl[k - 1].to + 1
  <2>1. \A k \in 1 .. n : sl[k] \in [from : Nat, to : Nat]
    <3>1. PICK R : R = [from : Nat, to : Nat]
      OBVIOUS
    <3>2. sl \in Seq(R)
      BY <3>1 DEF Tiles
    <3>3. \A k \in 1 .. n : sl[k] \in R
      BY <1>1, <3>2
    <3> QED BY <3>1, <3>3
  <2> QED BY <1>1, <2>1 DEF Tiles
<1> DEFINE G(f) == [k \in 0 .. n |-> IF k = 0 THEN s ELSE WriteSlice(f[k - 1], off, sl[k], data)]
           W(k) == FS!Overwritten(s, off, SubSeq(data, 1, sl[k].to))
<1>3. PICK g : g = [k \in 0 .. n |-> IF k = 0 THEN s ELSE W(k)]
  OBVIOUS
<1>4. \A k \in 1 .. n : g[k] = W(k)
  BY <1>1, <1>3
<1>5. g[0] = s
  BY <1>1, <1>3
<1>6. ASSUME NEW k \in 1 .. n PROVE W(k) = WriteSlice(g[k - 1], off, sl[k], data)
  <2>1. CASE k = 1
    <3>1. sl[k].from = 1 /\ off + 1 - 1 = off
      BY <1>2, <2>1
    <3> QED BY <1>5, <2>1, <3>1 DEF WriteSlice
  <2>2. CASE k # 1
    <3>1. k - 1 \in 1 .. n
      BY <2>2
    <3>2. PICK a \in Nat \ {0}, b \in Nat : /\ a = sl[k - 1].to /\ b = sl[k].to
                                            /\ a < b /\ b <= Len(data)
                                            /\ sl[k].from = a + 1 /\ off + (a + 1) - 1 = off + a
      <4>1. PICK a, b : a = sl[k - 1].to /\ b = sl[k].to
        OBVIOUS
      <4>2. /\ a \in Nat /\ a >= 1 /\ b \in Nat /\ b <= Len(data)
            /\ sl[k].from = a + 1 /\ a + 1 <= b
        <5>1. k \in 1 .. n /\ Len(data) \in Nat
          OBVIOUS
        <5>2. a \in Nat /\ a >= 1
          <6>1. PICK j \in 1 .. n : j = k - 1
            BY <3>1
          <6>2. sl[j].from \in Nat /\ sl[j].to \in Nat /\ 1 <= sl[j].from /\ sl[j].from <= sl[j].to
            BY <1>2
          <6>3. a = sl[j].to
            BY <4>1, <6>1
          <6> QED BY <6>2, <6>3
        <5>3. b \in Nat /\ b <= Len(data) /\ sl[k].from <= b /\ sl[k].from = a + 1
          BY <1>2, <2>2, <4>1, <5>1
        <5> QED BY <5>2, <5>3
      <4> QED BY <4>1, <4>2
    <3>3. g[k - 1] = FS!Overwritten(s, off, SubSeq(data, 1, a))
      BY <1>4, <3>1, <3>2
    <3>4. FS!Overwritten(FS!Overwritten(s, off, SubSeq(data, 1, a)), off + a,
                         SubSeq(data, a + 1, b)) = FS!Overwritten(s, off, SubSeq(data, 1, b))
      <4>1. a < b /\ b <= Len(data)
        BY <3>2
      <4> QED BY <4>1, WrittenTwice
    <3>5. WriteSlice(g[k - 1], off, sl[k], data)
            = FS!Overwritten(g[k - 1], off + a, SubSeq(data, a + 1, b))
      BY <3>2 DEF WriteSlice
    <3> QED BY <3>2, <3>3, <3>4, <3>5
  <2> QED BY <2>1, <2>2
<1>7. g = G(g)
  <2>1. ASSUME NEW k \in 0 .. n
        PROVE  (IF k = 0 THEN s ELSE W(k))
                 = IF k = 0 THEN s ELSE WriteSlice(g[k - 1], off, sl[k], data)
    <3>1. CASE k = 0
      BY <3>1
    <3>2. CASE k \in 1 .. n
      BY <1>6, <3>2
    <3> QED BY <3>1, <3>2
  <2> HIDE DEF W
  <2> QED BY <1>3, <2>1
<1>8. PICK f : SlicesWritten(s, off, sl, data) = f[n] /\ f = G(f)
  BY <1>1, <1>7 DEF SlicesWritten
<1>9. \A k \in 0 .. n : f[k] = g[k]
  <2>0. PICK T : T = {k \in 0 .. n : f[k] # g[k]}
    OBVIOUS
  <2> SUFFICES ASSUME T # {} PROVE FALSE
    BY <2>0
  <2>1. PICK k \in T : \A y \in T : ~(y < k)
    <3>1. T \subseteq Nat
      BY <2>0
    <3> QED BY <3>1, Least
  <2>2. f[0] = s
    BY <1>1, <1>8
  <2>3. k \in 1 .. n
    BY <1>5, <2>0, <2>1, <2>2
  <2>4. k - 1 \in 0 .. n /\ k - 1 < k
    BY <2>3
  <2>5. f[k - 1] = g[k - 1]
    BY <2>0, <2>1, <2>4
  <2>6. f[k] = WriteSlice(f[k - 1], off, sl[k], data)
    BY <1>8, <2>3
  <2>7. g[k] = WriteSlice(g[k - 1], off, sl[k], data)
    BY <1>4, <1>6, <2>3
  <2> QED BY <2>0, <2>1, <2>5, <2>6, <2>7
<1>10. n \in 0 .. n /\ n \in 1 .. n
  BY <1>1
<1>11. g[n] = FS!Overwritten(s, off, SubSeq(data, 1, Len(data)))
  BY <1>1, <1>4, <1>10
<1>12. SubSeq(data, 1, Len(data)) = data
  OBVIOUS
<1> QED BY <1>8, <1>9, <1>10, <1>11, <1>12

(* A buffer of len bytes that has got n bytes of s from off on.             *)
Got(s, off, len, n, end) ==
    [buf |-> [i \in 1 .. len |-> IF i <= n THEN s[off + i] ELSE 0], n |-> n, end |-> end]

(* The bytes of s from off on.                                              *)
Left(s, off) == IF Len(s) > off THEN Len(s) - off ELSE 0

(* A slice behind the first a bytes of the transfer, up to byte b, is filled *)
(* while the file lasts; behind its end the loop stops.                     *)
SliceRead(s, off, len, sl, a, b) ==
    /\ a < Left(s, off) =>
         ReadSlice(Got(s, off, len, a, FALSE), s, off, sl, len)
           = Got(s, off, len, IF b <= Left(s, off) THEN b ELSE Left(s, off), FALSE)
    /\ a >= Left(s, off) => \A e \in BOOLEAN :
         ReadSlice(Got(s, off, len, Left(s, off), e), s, off, sl, len)
           = Got(s, off, len, Left(s, off), TRUE)

(* One round of the loop of OSInode::read.                                  *)
LEMMA ReadSliceFacts ==
  ASSUME NEW s \in Seq(Words), NEW off \in Nat, NEW len \in Nat, NEW sl,
         NEW a \in Nat, NEW b \in Nat, a < b, sl.from = a + 1, sl.to = b
  PROVE  SliceRead(s, off, len, sl, a, b)
<1>1. PICK n \in Nat, av \in Nat : /\ n = Len(s) /\ av = Left(s, off)
                                   /\ av = IF n > off THEN n - off ELSE 0
  <2>1. Len(s) \in Nat
    OBVIOUS
  <2>2. Left(s, off) \in Nat
    BY <2>1 DEF Left
  <2> QED BY <2>1, <2>2 DEF Left
<1>2. sl.to - sl.from + 1 = b - a
  OBVIOUS
<1>3. ASSUME a < av
      PROVE  ReadSlice(Got(s, off, len, a, FALSE), s, off, sl, len)
                = Got(s, off, len, IF b <= av THEN b ELSE av, FALSE)
  <2>1. PICK c \in Nat : c = (IF b <= av THEN b ELSE av) /\ c > a /\ off + c <= n
    <3>1. CASE b <= av
      BY <1>1, <1>3, <3>1
    <3>2. CASE ~(b <= av)
      BY <1>1, <1>3, <3>2
    <3> QED BY <3>1, <3>2
  <2>2. PICK p \in Nat, q \in Int : p = off + a /\ q = off + c
    OBVIOUS
  <2>3. PICK r : r = Got(s, off, len, a, FALSE)
    OBVIOUS
  <2>4. r.n = a /\ r.end = FALSE /\ r.buf = [i \in 1 .. len |-> IF i <= a THEN s[off + i] ELSE 0]
    BY <2>3 DEF Got
  <2>5. PICK got : got = ReadAt(s, off + r.n, sl.to - sl.from + 1)
    OBVIOUS
  <2>6. got = SubSeq(s, p + 1, q)
    <3>1. Min({p + (b - a), n}) = q
      <4>1. p + (b - a) \in Int /\ n \in Int
        BY <2>2
      <4>2. Min({p + (b - a), n}) = IF p + (b - a) <= n THEN p + (b - a) ELSE n
        BY <4>1, MinMax
      <4> QED BY <1>1, <1>3, <2>1, <2>2, <4>2
    <3> QED BY <1>1, <1>2, <2>2, <2>4, <2>5, <3>1 DEF ReadAt
  <2>7. /\ got \in Seq(Words) /\ Len(got) = c - a
        /\ \A i \in 1 .. c - a : got[i] = s[p + i]
    <3>1. q <= Len(s) /\ q >= p /\ q - p = c - a
      BY <1>1, <2>1, <2>2
    <3>2. /\ got \in Seq(Words) /\ Len(got) = q - p
          /\ \A i \in 1 .. Len(got) : got[i] = s[p + i]
      BY <2>6, <3>1, PartFacts
    <3> QED BY <3>1, <3>2
  <2>8. got # <<>> /\ DOMAIN got = 1 .. c - a
    BY <2>1, <2>7
  <2>9. PICK buf : buf = [i \in 1 .. len |-> IF i - sl.from + 1 \in DOMAIN got
                                           THEN got[i - sl.from + 1] ELSE r.buf[i]]
    OBVIOUS
  <2>10. ReadSlice(r, s, off, sl, len) = [buf |-> buf, n |-> r.n + Len(got), end |-> FALSE]
    BY <2>4, <2>5, <2>8, <2>9 DEF ReadSlice
  <2>11. r.n + Len(got) = c
    BY <2>1, <2>4, <2>7
  <2>12. buf = [i \in 1 .. len |-> IF i <= c THEN s[off + i] ELSE 0]
    <3>1. ASSUME NEW i \in 1 .. len
          PROVE  (IF i - sl.from + 1 \in DOMAIN got THEN got[i - sl.from + 1] ELSE r.buf[i])
                   = IF i <= c THEN s[off + i] ELSE 0
      <4>1. i - sl.from + 1 = i - a
        OBVIOUS
      <4>2. CASE i <= a
        <5>1. i - a \notin 1 .. c - a /\ i <= c
          BY <2>1, <4>2
        <5> QED BY <2>4, <2>8, <4>1, <4>2, <5>1
      <4>3. CASE i > a /\ i <= c
        <5>1. i - a \in 1 .. c - a /\ p + (i - a) = off + i
          BY <2>1, <2>2, <4>3
        <5>2. got[i - a] = s[p + (i - a)]
          BY <2>7, <5>1
        <5> QED BY <2>8, <4>1, <4>3, <5>1, <5>2
      <4>4. CASE i > c
        <5>1. i - a \notin 1 .. c - a /\ ~(i <= c) /\ ~(i <= a)
          BY <2>1, <4>4
        <5> QED BY <2>4, <2>8, <4>1, <5>1
      <4> QED BY <2>1, <4>2, <4>3, <4>4
    <3> QED BY <2>9, <3>1
  <2> QED BY <2>1, <2>3, <2>10, <2>11, <2>12 DEF Got
<1>4. ASSUME a >= av, NEW e \in BOOLEAN
      PROVE  ReadSlice(Got(s, off, len, av, e), s, off, sl, len) = Got(s, off, len, av, TRUE)
  <2>1. PICK r : r = Got(s, off, len, av, e)
    OBVIOUS
  <2>2. r = [buf |-> [i \in 1 .. len |-> IF i <= av THEN s[off + i] ELSE 0], n |-> av, end |-> e]
    BY <2>1 DEF Got
  <2>3. PICK p \in Nat : \E m : p = off + r.n /\ m = Min({p + (sl.to - sl.from + 1), n}) /\ r.n = av
    <3>1. r.n = av
      BY <2>2
    <3>2. off + r.n \in Nat
      BY <3>1
    <3> QED BY <3>1, <3>2
  <2>10. PICK m : p = off + r.n /\ m = Min({p + (sl.to - sl.from + 1), n}) /\ r.n = av
    BY <2>3
  <2>4. m \in Int /\ m <= n /\ m <= p
    <3>1. p + (sl.to - sl.from + 1) \in Int /\ n \in Int
      BY <1>2
    <3>2. m = IF p + (sl.to - sl.from + 1) <= n THEN p + (sl.to - sl.from + 1) ELSE n
      BY <2>10, <3>1, MinMax
    <3>3. n <= p
      BY <1>1, <2>10
    <3> QED BY <3>1, <3>2, <3>3
  <2>5. PICK got : got = SubSeq(s, p + 1, m)
    OBVIOUS
  <2>6. got = <<>>
    <3>1. got \in Seq(Words) /\ (m >= p => Len(got) = m - p) /\ (m < p => Len(got) = 0)
      BY <1>1, <2>4, <2>5, PartFacts
    <3>2. Len(got) = 0
      BY <2>4, <3>1
    <3> QED BY <3>1, <3>2
  <2>7. ReadAt(s, off + r.n, sl.to - sl.from + 1) = <<>>
    BY <1>1, <2>10, <2>5, <2>6 DEF ReadAt
  <2>8. ReadSlice(r, s, off, sl, len) = [buf |-> r.buf, n |-> r.n, end |-> TRUE]
    BY <2>7 DEF ReadSlice
  <2>9. r.buf = [i \in 1 .. len |-> IF i <= av THEN s[off + i] ELSE 0] /\ r.n = av
    BY <2>2
  <2> QED BY <2>1, <2>8, <2>9 DEF Got
<1> QED BY <1>1, <1>3, <1>4 DEF SliceRead

(* The loop of OSInode::read is one read: it fills the buffer from its      *)
(* start and stops at the end of the file.                                  *)
LEMMA SlicesReadFacts ==
  ASSUME NEW s \in Seq(Words), NEW off \in Nat, NEW len \in Nat,
         NEW sl, Tiles(sl), sl # <<>>
  PROVE  LET av == Left(s, off)
             to == sl[Len(sl)].to
         IN  \E e \in BOOLEAN :
               SlicesRead(s, off, sl, len) = Got(s, off, len, IF to <= av THEN to ELSE av, e)
<1>1. PICK n \in Nat : n = Len(sl) /\ n >= 1 /\ DOMAIN sl = 1 .. n
  BY DEF Tiles
<1>2. \A k \in 1 .. n :
         /\ sl[k].from \in Nat /\ sl[k].to \in Nat
         /\ 1 <= sl[k].from /\ sl[k].from <= sl[k].to
         /\ sl[k].from = IF k = 1 THEN 1 ELSE sl[k - 1].to + 1
  <2>1. \A k \in 1 .. n : sl[k] \in [from : Nat, to : Nat]
    <3>1. PICK R : R = [from : Nat, to : Nat]
      OBVIOUS
    <3>2. sl \in Seq(R)
      BY <3>1 DEF Tiles
    <3>3. \A k \in 1 .. n : sl[k] \in R
      BY <1>1, <3>2
    <3> QED BY <3>1, <3>3
  <2> QED BY <1>1, <2>1 DEF Tiles
<1>3. PICK av \in Nat : av = Left(s, off)
  <2>1. Len(s) \in Nat
    OBVIOUS
  <2>2. Left(s, off) \in Nat
    BY <2>1 DEF Left
  <2> QED BY <2>2
<1>4. PICK to : to = [k \in 0 .. n |-> IF k = 0 THEN 0 ELSE sl[k].to]
  OBVIOUS
<1>5. /\ \A k \in 0 .. n : to[k] \in Nat
      /\ \A k \in 1 .. n : /\ to[k] = sl[k].to /\ to[k - 1] < to[k]
                           /\ sl[k].from = to[k - 1] + 1
  <2>1. \A k \in 0 .. n : to[k] \in Nat
    BY <1>2, <1>4
  <2>2. ASSUME NEW k \in 1 .. n
        PROVE  to[k] = sl[k].to /\ to[k - 1] < to[k] /\ sl[k].from = to[k - 1] + 1
    <3>1. k \in 0 .. n /\ k - 1 \in 0 .. n /\ (k # 1 => k - 1 # 0)
      OBVIOUS
    <3>2. to[k] = sl[k].to /\ to[k - 1] = IF k = 1 THEN 0 ELSE sl[k - 1].to
      BY <1>4, <3>1
    <3>3. sl[k].from = to[k - 1] + 1
      BY <1>2, <3>2
    <3> QED BY <1>2, <2>1, <3>1, <3>2, <3>3
  <2> QED BY <2>1, <2>2
<1> DEFINE N(k) == IF to[k] <= av THEN to[k] ELSE av
           E(k) == k # 0 /\ to[k - 1] >= av
           R(k) == Got(s, off, len, N(k), E(k))
           G(f) == [k \in 0 .. n |->
                      IF k = 0 THEN [buf |-> [i \in 1 .. len |-> 0], n |-> 0, end |-> FALSE]
                      ELSE ReadSlice(f[k - 1], s, off, sl[k], len)]
<1>6. PICK g : g = [k \in 0 .. n |-> R(k)]
  OBVIOUS
<1>7. \A k \in 0 .. n : g[k] = R(k)
  BY <1>6
<1>8. R(0) = [buf |-> [i \in 1 .. len |-> 0], n |-> 0, end |-> FALSE]
  <2>0. to[0] = 0
    BY <1>1, <1>4
  <2>1. N(0) = 0 /\ E(0) = FALSE
    BY <2>0
  <2>2. [i \in 1 .. len |-> IF i <= 0 THEN s[off + i] ELSE 0] = [i \in 1 .. len |-> 0]
    OBVIOUS
  <2>3. R(0) = Got(s, off, len, 0, FALSE)
    BY <2>1
  <2> QED BY <2>2, <2>3 DEF Got
<1>9. ASSUME NEW k \in 1 .. n PROVE R(k) = ReadSlice(R(k - 1), s, off, sl[k], len)
  <2>1. PICK a \in Nat, b \in Nat : /\ a = to[k - 1] /\ b = to[k]
                                    /\ a < b /\ sl[k].from = a + 1 /\ sl[k].to = b
    <3>1. k - 1 \in 0 .. n /\ k \in 0 .. n
      OBVIOUS
    <3> QED BY <1>5, <3>1
  <2>2. k # 0 /\ E(k) = (a >= av) /\ N(k) = (IF b <= av THEN b ELSE av)
    BY <2>1
  <2>5. SliceRead(s, off, len, sl[k], a, b)
    <3>1. a < b /\ sl[k].from = a + 1 /\ sl[k].to = b
      BY <2>1
    <3> QED BY <3>1, ReadSliceFacts
  <2>3. CASE a < av
    <3>1. N(k - 1) = a /\ E(k) = FALSE
      BY <2>1, <2>2, <2>3
    <3>2. E(k - 1) = FALSE
      <4>1. CASE k = 1
        BY <4>1
      <4>2. CASE k # 1
        <5>1. k - 1 \in 1 .. n /\ k - 1 # 0 /\ (k - 1) - 1 \in 0 .. n
          BY <4>2
        <5>2. to[(k - 1) - 1] < a /\ to[(k - 1) - 1] \in Nat
          BY <1>5, <2>1, <5>1
        <5> QED BY <2>3, <5>1, <5>2
      <4> QED BY <4>1, <4>2
    <3>3. R(k - 1) = Got(s, off, len, a, FALSE)
      BY <3>1, <3>2
    <3>4. ReadSlice(Got(s, off, len, a, FALSE), s, off, sl[k], len)
            = Got(s, off, len, IF b <= av THEN b ELSE av, FALSE)
      BY <1>3, <2>3, <2>5 DEF SliceRead
    <3>5. R(k) = Got(s, off, len, IF b <= av THEN b ELSE av, FALSE)
      BY <2>2, <3>1
    <3> QED BY <3>3, <3>4, <3>5
  <2>4. CASE a >= av
    <3>1. N(k - 1) = av /\ N(k) = av /\ E(k) = TRUE
      BY <2>1, <2>2, <2>4
    <3>2. PICK e \in BOOLEAN : e = E(k - 1)
      OBVIOUS
    <3>3. R(k - 1) = Got(s, off, len, av, e)
      BY <3>1, <3>2
    <3>4. ReadSlice(Got(s, off, len, av, e), s, off, sl[k], len) = Got(s, off, len, av, TRUE)
      BY <1>3, <2>4, <2>5, <3>2 DEF SliceRead
    <3>5. R(k) = Got(s, off, len, av, TRUE)
      BY <3>1
    <3> QED BY <3>3, <3>4, <3>5
  <2> QED BY <2>1, <2>3, <2>4
<1> HIDE DEF R
<1>10. g = G(g)
  <2>1. ASSUME NEW k \in 0 .. n
        PROVE  R(k) = IF k = 0 THEN [buf |-> [i \in 1 .. len |-> 0], n |-> 0, end |-> FALSE]
                      ELSE ReadSlice(g[k - 1], s, off, sl[k], len)
    <3>1. CASE k = 0
      BY <1>8, <3>1
    <3>2. CASE k \in 1 .. n
      <4>1. k - 1 \in 0 .. n /\ k # 0
        BY <3>2
      <4>2. g[k - 1] = R(k - 1)
        BY <1>7, <4>1
      <4>3. R(k) = ReadSlice(R(k - 1), s, off, sl[k], len)
        BY <1>9, <3>2
      <4> QED BY <4>1, <4>2, <4>3
    <3> QED BY <3>1, <3>2
  <2> QED BY <1>6, <2>1
<1>11. PICK f : SlicesRead(s, off, sl, len) = f[n] /\ f = G(f)
  BY <1>1, <1>10 DEF SlicesRead
<1>12. \A k \in 0 .. n : f[k] = g[k]
  <2>0. PICK T : T = {k \in 0 .. n : f[k] # g[k]}
    OBVIOUS
  <2> SUFFICES ASSUME T # {} PROVE FALSE
    BY <2>0
  <2>1. PICK k \in T : \A y \in T : ~(y < k)
    <3>1. T \subseteq Nat
      BY <2>0
    <3> QED BY <3>1, Least
  <2>2. f[0] = g[0]
    <3>1. 0 \in 0 .. n
      BY <1>1
    <3>2. f[0] = [buf |-> [i \in 1 .. len |-> 0], n |-> 0, end |-> FALSE]
      BY <1>11, <3>1
    <3> QED BY <1>7, <1>8, <3>1, <3>2
  <2>3. k \in 1 .. n
    BY <2>0, <2>1, <2>2
  <2>4. k - 1 \in 0 .. n /\ k - 1 < k /\ k \in 0 .. n /\ k # 0
    BY <2>3
  <2>5. f[k - 1] = g[k - 1]
    BY <2>0, <2>1, <2>4
  <2>6. f[k] = ReadSlice(f[k - 1], s, off, sl[k], len)
    BY <1>11, <2>4
  <2>7. g[k] = ReadSlice(g[k - 1], s, off, sl[k], len)
    BY <1>10, <2>4
  <2> QED BY <2>0, <2>1, <2>5, <2>6, <2>7
<1>13. n \in 0 .. n /\ n \in 1 .. n
  BY <1>1
<1>14. SlicesRead(s, off, sl, len) = R(n)
  BY <1>7, <1>11, <1>12, <1>13
<1>15. PICK e \in BOOLEAN : e = E(n)
  OBVIOUS
<1>16. N(n) = IF sl[Len(sl)].to <= av THEN sl[Len(sl)].to ELSE av
  BY <1>1, <1>5, <1>13
<1>17. R(n) = Got(s, off, len, IF sl[Len(sl)].to <= av THEN sl[Len(sl)].to ELSE av, e)
  BY <1>15, <1>16 DEF R
<1> QED BY <1>3, <1>14, <1>17

(* Quotient and remainder.                                                  *)
LEMMA DivMod ==
  ASSUME NEW q \in Nat \ {0}, NEW x \in Int
  PROVE  /\ x % q \in 0 .. q - 1
         /\ x = q * (x \div q) + (x % q)
OBVIOUS

(* Products with the size of a page.                                        *)
LEMMA PageFacts ==
  ASSUME NEW P \in Nat \ {0}, NEW a \in Nat, NEW q, q = a \div P
  PROVE  /\ q \in Nat /\ q * P <= a /\ a < q * P + P
         /\ \A k \in Nat : k * P \in Nat /\ (k + 1) * P = k * P + P
         /\ \A k \in Nat : k <= q => k * P <= q * P
         /\ \A k \in Nat : k >= 1 => k * P >= P
<1>1. q \in Nat
  OBVIOUS
<1>2. a = P * q + (a % P) /\ a % P \in 0 .. P - 1
  <2>1. a \in Int
    OBVIOUS
  <2>2. a % P \in 0 .. P - 1 /\ a = P * (a \div P) + (a % P)
    BY <2>1, DivMod, Zenon
  <2> QED BY <2>2
<1>3. P * q = q * P
  BY <1>1
<1>4. q * P \in Nat
  BY <1>1
<1>5. q * P <= a /\ a < q * P + P
  BY <1>1, <1>2, <1>3, <1>4
<1>6. \A k \in Nat : k * P \in Nat
  OBVIOUS
<1>7. \A k \in Nat : (k + 1) * P = k * P + P
  OBVIOUS
<1>8. ASSUME NEW k \in Nat, k <= q PROVE k * P <= q * P
  <2>1. PICK d \in Nat : q = k + d
    <3>1. q - k \in Nat /\ q = k + (q - k)
      BY <1>1, <1>8
    <3> QED BY <3>1
  <2>2. q * P = k * P + d * P
    BY <2>1
  <2>3. d * P \in Nat /\ k * P \in Nat
    BY <1>6
  <2> QED BY <2>2, <2>3
<1>9. ASSUME NEW k \in Nat, k >= 1 PROVE k * P >= P
  <2>1. k - 1 \in Nat /\ (k - 1) + 1 = k
    BY <1>9
  <2>2. k * P = (k - 1) * P + P /\ (k - 1) * P \in Nat
    BY <1>6, <1>7, <2>1
  <2> QED BY <2>2
<1> QED BY <1>1, <1>5, <1>6, <1>7, <1>8, <1>9

(* translated_byte_buffer cuts a buffer into slices that tile it.           *)
LEMMA SlicesTile ==
  ASSUME NEW at \in 0 .. PAGE_SIZE - 1, NEW len \in Nat \ {0}
  PROVE  /\ Tiles(Slices(at, len)) /\ Slices(at, len) # <<>>
         /\ Slices(at, len)[Len(Slices(at, len))].to = len
<1>1. PICK P \in Nat \ {0} : P = PAGE_SIZE
  BY FileTableAssumption
<1>0. PICK a \in Nat : a = at + len - 1
  <2>1. at + len - 1 \in Nat
    BY <1>1
  <2> QED BY <2>1
<1>2. PICK q, n : a = at + len - 1 /\ q = a \div P /\ n = q + 1
  BY <1>0
<1>3. at \in 0 .. P - 1 /\ at \in Nat /\ P \in Nat /\ P > 0
  BY <1>1
<1>4. /\ q \in Nat /\ q * P <= a /\ a < q * P + P
      /\ \A k \in Nat : k * P \in Nat /\ (k + 1) * P = k * P + P
      /\ \A k \in Nat : k <= q => k * P <= q * P
      /\ \A k \in Nat : k >= 1 => k * P >= P
  BY <1>2, PageFacts
<1>5. PICK sl : sl = Slices(at, len)
  OBVIOUS
<1>6. n \in Nat /\ n >= 1
  BY <1>2, <1>4
<1>7. sl = [i \in 1 .. n |-> [from |-> Max({1, (i - 1) * P - at + 1}),
                              to   |-> Min({len, i * P - at})]]
  BY <1>1, <1>2, <1>5 DEF Slices
<1>8. ASSUME NEW i \in 1 .. n
      PROVE  /\ sl[i].from = IF i = 1 THEN 1 ELSE (i - 1) * P - at + 1
             /\ sl[i].to = IF i = n THEN len ELSE i * P - at
             /\ sl[i].from \in Nat /\ sl[i].to \in Nat
             /\ 1 <= sl[i].from /\ sl[i].from <= sl[i].to /\ sl[i].to <= len
             /\ sl[i] \in [from : Nat, to : Nat]
  <2>1. PICK j \in Nat, u \in Nat, v \in Nat : /\ j = i - 1 /\ j + 1 = i /\ u = j * P
                                               /\ v = i * P /\ v = u + P
    <3>1. i - 1 \in Nat /\ (i - 1) + 1 = i /\ i \in Nat
      OBVIOUS
    <3>2. (i - 1) * P \in Nat /\ i * P \in Nat /\ i * P = (i - 1) * P + P
      BY <1>4, <3>1
    <3> QED BY <3>1, <3>2
  <2>2. u <= a
    <3>1. j <= q
      BY <1>2, <1>4, <1>6, <2>1
    <3>2. u <= q * P
      BY <1>4, <2>1, <3>1
    <3> QED BY <1>4, <2>1, <3>2
  <2>3. sl[i] = [from |-> Max({1, u - at + 1}), to |-> Min({len, v - at})]
    BY <1>7, <2>1
  <2>4. Max({1, u - at + 1}) = IF i = 1 THEN 1 ELSE u - at + 1
    <3>1. u - at + 1 \in Int /\ 1 \in Int
      BY <1>3
    <3>2. Max({1, u - at + 1}) = IF 1 >= u - at + 1 THEN 1 ELSE u - at + 1
      BY <3>1, MinMax
    <3>3. CASE i = 1
      <4>1. j = 0
        BY <2>1, <3>3
      <4>2. u = 0
        BY <2>1, <4>1
      <4> QED BY <1>3, <3>2, <3>3, <4>2
    <3>4. CASE i # 1
      <4>1. j >= 1
        BY <2>1, <3>4
      <4>2. u >= P
        BY <1>4, <2>1, <4>1
      <4> QED BY <1>3, <3>2, <3>4, <4>2
    <3> QED BY <3>3, <3>4
  <2>5. Min({len, v - at}) = IF i = n THEN len ELSE v - at
    <3>1. v - at \in Int /\ len \in Int
      BY <1>3
    <3>2. Min({len, v - at}) = IF len <= v - at THEN len ELSE v - at
      BY <3>1, MinMax
    <3>3. CASE i = n
      <4>1. j = q
        BY <1>2, <1>4, <2>1, <3>3
      <4>2. u = q * P
        BY <2>1, <4>1
      <4>3. a < u + P
        BY <1>4, <4>2
      <4>4. len <= v - at
        BY <1>2, <1>3, <2>1, <4>3
      <4> QED BY <3>2, <3>3, <4>4
    <3>4. CASE i # n
      <4>1. i <= q /\ i \in Nat
        BY <1>2, <1>4, <3>4
      <4>2. v <= q * P /\ q * P <= a /\ q * P \in Nat
        BY <1>4, <2>1, <4>1
      <4>3. ~(len <= v - at)
        BY <1>2, <1>3, <4>2
      <4> QED BY <3>2, <3>4, <4>3
    <3> QED BY <3>3, <3>4
  <2>6. PICK x, y : /\ x = (IF i = 1 THEN 1 ELSE u - at + 1)
                    /\ y = (IF i = n THEN len ELSE v - at)
    OBVIOUS
  <2>7. sl[i] = [from |-> x, to |-> y]
    BY <2>3, <2>4, <2>5, <2>6
  <2>8. x \in Nat /\ 1 <= x
    <3>1. CASE i = 1
      BY <2>6, <3>1
    <3>2. CASE i # 1
      <4>1. u >= P
        BY <1>4, <2>1, <3>2
      <4> QED BY <1>3, <2>6, <3>2, <4>1
    <3> QED BY <3>1, <3>2
  <2>9. y \in Nat /\ y <= len
    <3>1. CASE i = n
      BY <2>6, <3>1
    <3>2. CASE i # n
      <4>1. y = v - at /\ v - at \in Nat
        BY <1>3, <2>1, <2>6, <3>2
      <4>2. i <= q /\ i \in Nat
        BY <1>2, <1>4, <3>2
      <4>3. v <= q * P /\ q * P <= a /\ q * P \in Nat
        BY <1>4, <2>1, <4>2
      <4> QED BY <1>2, <1>3, <4>1, <4>3
    <3> QED BY <3>1, <3>2
  <2>10. x <= y
    <3>1. CASE i = 1 /\ i = n
      BY <2>6, <3>1
    <3>2. CASE i = 1 /\ i # n
      BY <1>3, <2>1, <2>6, <3>2
    <3>3. CASE i # 1 /\ i = n
      BY <1>2, <1>3, <2>2, <2>6, <3>3
    <3>4. CASE i # 1 /\ i # n
      BY <1>3, <2>1, <2>6, <3>4
    <3> QED BY <3>1, <3>2, <3>3, <3>4
  <2> QED BY <2>1, <2>6, <2>7, <2>8, <2>9, <2>10
<1>9. sl \in Seq([from : Nat, to : Nat]) /\ Len(sl) = n
  <2>1. PICK R : R = [from : Nat, to : Nat]
    OBVIOUS
  <2>2. \A i \in 1 .. n : sl[i] \in R
    BY <1>8, <2>1
  <2>3. sl \in [1 .. n -> R]
    BY <1>7, <2>2
  <2>4. sl \in Seq(R) /\ Len(sl) = n
    BY <1>6, <2>3
  <2> QED BY <2>1, <2>4
<1>10. sl[Len(sl)].to = len /\ sl # <<>>
  BY <1>6, <1>8, <1>9
<1>11. ASSUME NEW k \in 1 .. n PROVE sl[k].from = IF k = 1 THEN 1 ELSE sl[k - 1].to + 1
  <2>1. CASE k = 1
    BY <1>8, <2>1
  <2>2. CASE k # 1
    <3>1. k - 1 \in 1 .. n /\ k - 1 # n
      BY <1>6, <2>2
    <3>2. sl[k - 1].to = (k - 1) * P - at
      BY <1>8, <3>1
    <3>3. sl[k].from = (k - 1) * P - at + 1
      BY <1>8, <2>2
    <3> QED BY <2>2, <3>2, <3>3
  <2> QED BY <2>1, <2>2
<1>12. Tiles(sl)
  <2>1. \A k \in 1 .. Len(sl) :
         /\ 1 <= sl[k].from /\ sl[k].from <= sl[k].to /\ sl[k].to <= sl[Len(sl)].to
    BY <1>8, <1>9, <1>10
  <2> QED BY <1>9, <1>11, <2>1 DEF Tiles
<1> QED BY <1>5, <1>10, <1>12

(* A read of any buffer: one transfer of what the file has from off on.     *)
ReadWhole(r, s, off, len) ==
    LET end == off + len
        d   == SubSeq(s, off + 1, IF end > Len(s) THEN Len(s) ELSE end)
    IN  /\ r.n = Len(d) /\ r.n \in Nat
        /\ r.buf = d \o [i \in 1 .. len - Len(d) |-> 0]

(* What the loop leaves is the transfer.                                    *)
LEMMA GotWhole ==
  ASSUME NEW s \in Seq(Words), NEW off \in Nat, NEW len \in Nat, NEW e,
         NEW m, m = (IF len <= Left(s, off) THEN len ELSE Left(s, off))
  PROVE  ReadWhole(Got(s, off, len, m, e), s, off, len)
<1>1. PICK n \in Nat, av \in Nat : /\ n = Len(s) /\ av = Left(s, off)
                                   /\ av = IF n > off THEN n - off ELSE 0
  <2>1. Len(s) \in Nat
    OBVIOUS
  <2>2. Left(s, off) \in Nat
    BY <2>1 DEF Left
  <2> QED BY <2>1, <2>2 DEF Left
<1>2. PICK b \in Int : b = (IF off + len > n THEN n ELSE off + len) /\ b <= n
  <2>1. CASE off + len > n
    BY <2>1
  <2>2. CASE ~(off + len > n)
    BY <2>2
  <2> QED BY <2>1, <2>2
<1>3. m \in Nat /\ m <= len /\ (b >= off => m = b - off) /\ (b < off => m = 0)
  BY <1>1, <1>2
<1>4. PICK d : d = SubSeq(s, off + 1, b)
  OBVIOUS
<1>5. d \in Seq(Words) /\ Len(d) = m /\ \A i \in 1 .. m : d[i] = s[off + i]
  <2>1. /\ d \in Seq(Words) /\ (b >= off => Len(d) = b - off) /\ (b < off => Len(d) = 0)
        /\ \A i \in 1 .. Len(d) : d[i] = s[off + i]
    BY <1>1, <1>2, <1>4, PartFacts
  <2>2. Len(d) = m
    BY <1>3, <2>1
  <2> QED BY <2>1, <2>2
<1>6. PICK z : z = [i \in 1 .. len - m |-> 0]
  OBVIOUS
<1>7. z \in Seq(Words) /\ Len(z) = len - m /\ \A i \in 1 .. len - m : z[i] = 0
  <2>1. len - m \in Int /\ len - m >= 0
    BY <1>3
  <2>2. /\ z \in Seq(Words) /\ Len(z) = (IF len - m > 0 THEN len - m ELSE 0)
        /\ \A i \in 1 .. Len(z) : z[i] = 0
    BY <1>6, <2>1, ZeroFacts
  <2>3. Len(z) = len - m
    BY <2>1, <2>2
  <2> QED BY <2>2, <2>3
<1>8. PICK x : x = d \o z
  OBVIOUS
<1>9. /\ x \in Seq(Words) /\ Len(x) = len
      /\ \A i \in 1 .. m : x[i] = s[off + i]
      /\ \A i \in 1 .. len - m : x[m + i] = 0
  <2>1. /\ x \in Seq(Words) /\ Len(x) = Len(d) + Len(z)
        /\ \A i \in 1 .. Len(d) : x[i] = d[i]
        /\ \A i \in 1 .. Len(z) : x[Len(d) + i] = z[i]
    <3>1. d \in Seq(Words) /\ z \in Seq(Words)
      BY <1>5, <1>7
    <3> QED BY <3>1, <1>8, CatFacts
  <2>2. Len(x) = len
    BY <1>3, <1>5, <1>7, <2>1
  <2>3. \A i \in 1 .. m : x[i] = s[off + i]
    BY <1>5, <2>1
  <2>4. \A i \in 1 .. len - m : x[m + i] = 0
    BY <1>5, <1>7, <2>1
  <2> QED BY <2>1, <2>2, <2>3, <2>4
<1>10. PICK y : y = [i \in 1 .. len |-> IF i <= m THEN s[off + i] ELSE 0]
  OBVIOUS
<1>11. \A i \in 1 .. len : x[i] = y[i]
  <2> SUFFICES ASSUME NEW i \in 1 .. len PROVE x[i] = y[i]
    OBVIOUS
  <2>1. CASE i <= m
    <3>1. i \in 1 .. m
      BY <1>3, <2>1
    <3> QED BY <1>9, <1>10, <2>1, <3>1
  <2>2. CASE i > m
    <3>1. i - m \in 1 .. len - m /\ m + (i - m) = i /\ ~(i <= m)
      BY <1>3, <2>2
    <3>2. x[m + (i - m)] = 0
      BY <1>9, <3>1
    <3> QED BY <1>10, <3>1, <3>2
  <2> QED BY <1>3, <2>1, <2>2
<1>12. x = y
  <2>1. x = [i \in 1 .. len |-> x[i]]
    BY <1>9
  <2> QED BY <1>10, <1>11, <2>1
<1>13. PICK r : r = Got(s, off, len, m, e)
  OBVIOUS
<1>14. r.n = m /\ r.buf = y
  BY <1>10, <1>13 DEF Got
<1>15. r.n = Len(d) /\ r.n \in Nat /\ r.buf = d \o [i \in 1 .. len - Len(d) |-> 0]
  BY <1>3, <1>5, <1>6, <1>8, <1>12, <1>14
<1>16. d = SubSeq(s, off + 1, IF off + len > Len(s) THEN Len(s) ELSE off + len)
  BY <1>1, <1>2, <1>4
<1> QED BY <1>13, <1>15, <1>16 DEF ReadWhole

(* OSInode::read with any user buffer is one transfer.                      *)
LEMMA ReadIsWhole ==
  ASSUME NEW s \in Seq(Words), NEW off \in Nat, NEW len \in Nat,
         NEW at \in 0 .. PAGE_SIZE - 1
  PROVE  ReadWhole(SlicesRead(s, off, Slices(at, len), len), s, off, len)
<1>1. PICK sl : sl = Slices(at, len)
  OBVIOUS
<1>2. CASE len # 0
  <2>1. Tiles(sl) /\ sl # <<>> /\ sl[Len(sl)].to = len
    BY <1>1, <1>2, SlicesTile
  <2>2. PICK e \in BOOLEAN : SlicesRead(s, off, sl, len)
           = Got(s, off, len, IF len <= Left(s, off) THEN len ELSE Left(s, off), e)
    BY <2>1, SlicesReadFacts
  <2> QED BY <1>1, <2>2, GotWhole
<1>3. CASE len = 0
  <2>1. sl = <<>> /\ Len(sl) = 0
    BY <1>1, <1>3 DEF Slices
  <2>0. PICK n : n = Len(sl)
    OBVIOUS
  <2> DEFINE G(f) == [k \in 0 .. n |->
                        IF k = 0 THEN [buf |-> [i \in 1 .. len |-> 0], n |-> 0, end |-> FALSE]
                        ELSE ReadSlice(f[k - 1], s, off, sl[k], len)]
  <2>2. PICK g : g = G(g)
    <3>1. PICK g : g = [k \in 0 .. n |-> [buf |-> [i \in 1 .. len |-> 0], n |-> 0, end |-> FALSE]]
      OBVIOUS
    <3>2. g = G(g)
      BY <2>0, <2>1, <3>1
    <3> QED BY <3>2
  <2>3. PICK f : SlicesRead(s, off, sl, len) = f[n] /\ f = G(f)
    BY <2>0, <2>2 DEF SlicesRead
  <2>4. f[0] = [buf |-> [i \in 1 .. 0 |-> 0], n |-> 0, end |-> FALSE]
    BY <1>3, <2>0, <2>1, <2>3
  <2>5. [i \in 1 .. 0 |-> 0] = [i \in 1 .. 0 |-> IF i <= 0 THEN s[off + i] ELSE 0]
    OBVIOUS
  <2>6. f[0] = Got(s, off, 0, 0, FALSE)
    BY <2>4, <2>5 DEF Got
  <2>7. 0 = IF len <= Left(s, off) THEN len ELSE Left(s, off)
    <3>1. Len(s) \in Nat
      OBVIOUS
    <3> QED BY <1>3, <3>1 DEF Left
  <2>8. ReadWhole(Got(s, off, len, 0, FALSE), s, off, len)
    BY <2>7, GotWhole
  <2> QED BY <1>1, <1>3, <2>0, <2>1, <2>3, <2>6, <2>8
<1> QED BY <1>2, <1>3

(* OSInode::write of any user buffer is one transfer.                       *)
LEMMA WriteIsWhole ==
  ASSUME NEW s \in Seq(Words), NEW off \in Nat, NEW data \in Seq(Words),
         NEW at \in 0 .. PAGE_SIZE - 1
  PROVE  SlicesWritten(s, off, Slices(at, Len(data)), data)
           = IF data = <<>> THEN s ELSE FS!Overwritten(s, off, data)
<1>0. PICK len \in Nat : len = Len(data)
  OBVIOUS
<1>1. PICK sl : sl = Slices(at, len) /\ len = Len(data)
  BY <1>0
<1>2. CASE data # <<>>
  <2>1. len # 0
    BY <1>1, <1>2
  <2>2. Tiles(sl) /\ sl # <<>> /\ sl[Len(sl)].to = Len(data)
    BY <1>1, <2>1, SlicesTile
  <2>3. SlicesWritten(s, off, sl, data) = FS!Overwritten(s, off, data)
    BY <2>2, SlicesWrittenFacts
  <2> QED BY <1>1, <1>2, <2>3
<1>3. CASE data = <<>>
  <2>1. len = 0
    BY <1>1, <1>3
  <2>2. sl = <<>> /\ Len(sl) = 0
    BY <1>1, <2>1 DEF Slices
  <2> DEFINE G(f) == [k \in 0 .. 0 |->
                        IF k = 0 THEN s ELSE WriteSlice(f[k - 1], off, sl[k], data)]
  <2>3. \E f : f = G(f)
    <3>1. PICK g : g = [k \in 0 .. 0 |-> s]
      OBVIOUS
    <3>2. g = G(g)
      BY <3>1
    <3> QED BY <3>2
  <2>4. PICK f : SlicesWritten(s, off, sl, data) = f[0] /\ f = G(f)
    BY <2>2, <2>3 DEF SlicesWritten
  <2>5. f[0] = s
    BY <2>4
  <2> QED BY <1>1, <1>3, <2>4, <2>5
<1> QED BY <1>2, <1>3

(* OSInode::read_all, chunk after chunk, returns the whole file.            *)
LEMMA ReadAllIsWhole ==
  ASSUME NEW s \in Seq(Words),
         NEW sl, sl = [i \in 1 .. Len(s) \div CHUNK + 1 |->
                         [from |-> (i - 1) * CHUNK + 1, to |-> i * CHUNK]]
  PROVE  SlicesRead(s, 0, sl, Len(s)).buf = s
<1>1. PICK C \in Nat \ {0} : C = CHUNK
  BY FileTableAssumption
<1>2. PICK len \in Nat : len = Len(s)
  OBVIOUS
<1>3. PICK q, n : q = len \div C /\ n = q + 1
  OBVIOUS
<1>4. /\ q \in Nat /\ q * C <= len /\ len < q * C + C
      /\ \A k \in Nat : k * C \in Nat /\ (k + 1) * C = k * C + C
      /\ \A k \in Nat : k <= q => k * C <= q * C
  BY <1>3, PageFacts
<1>5. n \in Nat /\ n >= 1 /\ n * C \in Nat /\ n * C = q * C + C /\ C > 0
  BY <1>3, <1>4
<1>18. n \in Nat /\ n >= 1
  BY <1>5
<1>6. sl = [i \in 1 .. n |-> [from |-> (i - 1) * C + 1, to |-> i * C]]
  BY <1>1, <1>2, <1>3
<1>7. ASSUME NEW i \in 1 .. n
      PROVE  /\ sl[i].from = (i - 1) * C + 1 /\ sl[i].to = i * C
             /\ sl[i].from \in Nat /\ sl[i].to \in Nat
             /\ 1 <= sl[i].from /\ sl[i].from <= sl[i].to /\ sl[i].to <= n * C
             /\ sl[i] \in [from : Nat, to : Nat]
  <2>1. i - 1 \in Nat /\ (i - 1) + 1 = i /\ i \in Nat /\ i - 1 <= q
    BY <1>3, <1>4
  <2>2. PICK u \in Nat, v \in Nat : u = (i - 1) * C /\ v = i * C /\ v = u + C
    <3>1. (i - 1) * C \in Nat /\ i * C \in Nat /\ i * C = (i - 1) * C + C
      BY <1>4, <2>1
    <3> QED BY <3>1
  <2>3. u <= q * C /\ q * C \in Nat
    BY <1>4, <2>1, <2>2
  <2>4. sl[i] = [from |-> u + 1, to |-> v]
    BY <1>6, <2>2
  <2>5. u + 1 \in Nat /\ 1 <= u + 1 /\ u + 1 <= v /\ v <= n * C
    BY <1>5, <2>2, <2>3
  <2> QED BY <2>2, <2>4, <2>5
<1>8. sl \in Seq([from : Nat, to : Nat]) /\ Len(sl) = n
  <2>1. PICK R : R = [from : Nat, to : Nat]
    OBVIOUS
  <2>2. \A i \in 1 .. n : sl[i] \in R
    BY <1>7, <2>1
  <2>3. sl \in [1 .. n -> R]
    BY <1>6, <2>2
  <2>4. sl \in Seq(R) /\ Len(sl) = n
    BY <1>18, <2>3, FunctionSeq, Zenon
  <2> QED BY <2>1, <2>4
<1>9. sl[Len(sl)].to = n * C /\ sl # <<>>
  <2>1. n \in 1 .. n
    BY <1>18
  <2>2. sl[n].to = n * C
    BY <1>7, <2>1
  <2>3. sl # <<>>
    BY <1>8, <1>18, NotEmpty
  <2> QED BY <1>8, <2>2, <2>3
<1>10. ASSUME NEW k \in 1 .. n PROVE sl[k].from = IF k = 1 THEN 1 ELSE sl[k - 1].to + 1
  <2>1. CASE k = 1
    <3>1. sl[k].from = (1 - 1) * C + 1
      BY <1>7, <2>1
    <3> QED BY <2>1, <3>1
  <2>2. CASE k # 1
    <3>1. k - 1 \in 1 .. n
      BY <1>18, <2>2
    <3>2. sl[k - 1].to = (k - 1) * C
      BY <1>7, <3>1
    <3>3. sl[k].from = (k - 1) * C + 1
      BY <1>7
    <3> QED BY <2>2, <3>2, <3>3
  <2> QED BY <2>1, <2>2
<1>11. Tiles(sl)
  <2>1. \A k \in 1 .. Len(sl) :
         /\ 1 <= sl[k].from /\ sl[k].from <= sl[k].to /\ sl[k].to <= sl[Len(sl)].to
    BY <1>7, <1>8, <1>9
  <2> QED BY <1>8, <1>10, <2>1 DEF Tiles
<1>12. PICK e \in BOOLEAN : SlicesRead(s, 0, sl, len) = Got(s, 0, len,
          IF sl[Len(sl)].to <= Left(s, 0) THEN sl[Len(sl)].to ELSE Left(s, 0), e)
  BY <1>9, <1>11, SlicesReadFacts
<1>13. Left(s, 0) = len /\ ~(sl[Len(sl)].to <= len)
  <2>1. Left(s, 0) = len
    BY <1>2 DEF Left
  <2>2. PICK u \in Nat, v \in Nat : u = q * C /\ v = n * C /\ v = u + C /\ len < u + C
    BY <1>4, <1>5
  <2>3. ~(v <= len)
    BY <2>2
  <2> QED BY <1>9, <2>1, <2>2, <2>3
<1>14. SlicesRead(s, 0, sl, len) = Got(s, 0, len, len, e)
  BY <1>12, <1>13
<1>15. PICK b : b = [i \in 1 .. len |-> IF i <= len THEN s[0 + i] ELSE 0]
  OBVIOUS
<1>16. SlicesRead(s, 0, sl, len).buf = b
  BY <1>14, <1>15 DEF Got
<1>17. b = s
  <2>1. s = [i \in 1 .. len |-> s[i]]
    BY <1>2
  <2>2. \A i \in 1 .. len : (IF i <= len THEN s[0 + i] ELSE 0) = s[i]
    OBVIOUS
  <2> QED BY <1>15, <2>1, <2>2
<1> QED BY <1>2, <1>16, <1>17

-----------------------------------------------------------------------------
(* The inductive invariant.                                                 *)

(* What an OSInode for a file of N is.                                      *)
OSInodes(N) == [readable : BOOLEAN, writable : BOOLEAN, offset : Nat, inode : N]

(* Files have names and bytes.                                              *)
ContentOK ==
    /\ DOMAIN content \subseteq Names
    /\ content \in [DOMAIN content -> Seq(Words)]

(* Open files are finitely many, and each is for a file that exists.        *)
OpenOK ==
    /\ DOMAIN osinode \subseteq Nat \ {0} /\ IsFiniteSet(DOMAIN osinode)
    /\ osinode \in [DOMAIN osinode -> OSInodes(DOMAIN content)]

(* Descriptors stand for open files, and every open file has one.           *)
EntriesOK ==
    /\ fd_table \in [Tasks -> Seq(Int)]
    /\ \A t \in Tasks : \A i \in 1 .. Len(fd_table[t]) :
         fd_table[t][i] \in DOMAIN osinode \cup {None, Stdin, Stdout}
    /\ \A f \in DOMAIN osinode : \E t \in Tasks :
         \E i \in 1 .. Len(fd_table[t]) : fd_table[t][i] = f

(* Only descriptor 0 is ever stdin, and a suspended reader still has it.    *)
StdinOK ==
    /\ \A t \in Tasks : \A i \in 1 .. Len(fd_table[t]) : fd_table[t][i] = Stdin => i = 1
    /\ \A t \in Tasks : status[t] = "reading" =>
         Len(fd_table[t]) >= 1 /\ fd_table[t][1] = Stdin

(* A task that does not exist has no table; no call failed on a borrow.     *)
TasksOK ==
    /\ status \in [Tasks -> {"unused", "live", "reading", "zombie"}]
    /\ \A t \in Tasks : status[t] = "unused" => fd_table[t] = <<>>
    /\ keys \in Nat
    /\ panic \in {"none", "flags", "stdin_len", "utf8"}

(* A file with a history is open to write only once, and its offset is at   *)
(* its end.                                                                 *)
LogOK ==
    /\ DOMAIN log \subseteq DOMAIN osinode
    /\ \A f \in DOMAIN log :
         /\ log[f] \in Seq(Words) /\ content[osinode[f].inode] = log[f]
         /\ osinode[f].writable /\ osinode[f].offset = Len(log[f])
    /\ \A f \in DOMAIN log : \A g \in DOMAIN osinode :
         (osinode[g].writable /\ osinode[g].inode = osinode[f].inode) => g = f

FileInv == ContentOK /\ OpenOK /\ EntriesOK /\ StdinOK /\ TasksOK /\ LogOK

(* A read or a write moves the offset of its open file and nothing else.    *)
LEMMA OffsetFacts ==
  ASSUME NEW D, NEW N, NEW o \in [D -> OSInodes(N)], NEW f \in D, NEW n \in Nat,
         NEW p, p = [o EXCEPT ![f].offset = @ + n]
  PROVE  /\ p \in [D -> OSInodes(N)]
         /\ \A g \in D : /\ p[g].readable = o[g].readable /\ p[g].writable = o[g].writable
                         /\ p[g].inode = o[g].inode
                         /\ g # f => p[g] = o[g]
         /\ p[f].offset = o[f].offset + n
<1>1. PICK r : r = [o[f] EXCEPT !.offset = @ + n]
  OBVIOUS
<1>2. p = [o EXCEPT ![f] = r]
  BY <1>1
<1>3. o[f] \in OSInodes(N)
  OBVIOUS
<1>4. r \in OSInodes(N) /\ r.offset = o[f].offset + n
  BY <1>1, <1>3 DEF OSInodes
<1>5. r.readable = o[f].readable /\ r.writable = o[f].writable /\ r.inode = o[f].inode
  BY <1>1, <1>3 DEF OSInodes
<1>6. p \in [D -> OSInodes(N)] /\ p[f] = r /\ \A g \in D : g # f => p[g] = o[g]
  BY <1>2, <1>4
<1>7. ASSUME NEW g \in D
      PROVE  p[g].readable = o[g].readable /\ p[g].writable = o[g].writable /\ p[g].inode = o[g].inode
  <2>1. CASE g = f
    BY <1>5, <1>6, <2>1, Zenon
  <2>2. CASE g # f
    BY <1>6, <2>2, Zenon
  <2> QED BY <2>1, <2>2, Zenon
<1> QED BY <1>4, <1>6, <1>7, Zenon

(* sys_open finds a place for a new OSInode.                                *)
LEMMA FreshFacts ==
  ASSUME NEW D, IsFiniteSet(D),
         NEW f, f = CHOOSE i \in 1 .. Cardinality(D) + 1 : i \notin D
  PROVE  f \in Nat \ {0} /\ f \notin D
<1>1. PICK n \in Nat : n = Cardinality(D)
  BY FS_CardinalityType
<1>2. PICK m \in Nat : m = n + 1
  OBVIOUS
<1>3. IsFiniteSet(1 .. m) /\ Cardinality(1 .. m) = m
  <2>1. 1 \in Int /\ m \in Int /\ 1 <= m /\ m - 1 + 1 = m
    BY <1>2
  <2>2. IsFiniteSet(1 .. m) /\ Cardinality(1 .. m) = IF 1 > m THEN 0 ELSE m - 1 + 1
    BY <2>1, FS_Interval
  <2> QED BY <2>1, <2>2
<1>4. ~(1 .. m \subseteq D)
  <2> SUFFICES ASSUME 1 .. m \subseteq D PROVE FALSE
    OBVIOUS
  <2>1. Cardinality(1 .. m) <= Cardinality(D)
    BY FS_Subset
  <2> QED BY <1>1, <1>2, <1>3, <2>1
<1>5. \E i \in 1 .. m : i \notin D
  BY <1>4
<1>6. f = CHOOSE i \in 1 .. m : i \notin D
  BY <1>1, <1>2
<1>7. f \in 1 .. m /\ f \notin D
  BY <1>5, <1>6, Zenon
<1>8. \A i \in 1 .. m : i \in Nat \ {0}
  BY <1>2
<1> QED BY <1>7, <1>8, Zenon

(* A function with one more or one changed place.                           *)
LEMMA WithFacts ==
  ASSUME NEW f, NEW x, NEW v, NEW g, g = With(f, x, v)
  PROVE  /\ DOMAIN g = DOMAIN f \cup {x} /\ g[x] = v
         /\ \A y \in DOMAIN f : y # x => g[y] = f[y]
         /\ \A S : (f \in [DOMAIN f -> S] /\ v \in S) => g \in [DOMAIN g -> S]
BY DEF With

(* The entries of a table.                                                  *)
LEMMA ReferencedFacts ==
  ASSUME NEW tab \in [Tasks -> Seq(Int)]
  PROVE  \A f : f \in Referenced(tab) <=>
           \E t \in Tasks : \E i \in 1 .. Len(tab[t]) : tab[t][i] = f
<1>1. \A t \in Tasks : DOMAIN tab[t] = 1 .. Len(tab[t])
  OBVIOUS
<1>2. \A t \in Tasks : \A f : f \in Range(tab[t]) <=> \E i \in DOMAIN tab[t] : tab[t][i] = f
  BY Zenon DEF Range
<1>3. \A f : f \in Referenced(tab) <=> \E t \in Tasks : f \in Range(tab[t])
  BY Zenon DEF Referenced
<1>4. ASSUME NEW f, NEW t \in Tasks
      PROVE  f \in Range(tab[t]) <=> \E i \in 1 .. Len(tab[t]) : tab[t][i] = f
  BY <1>1, <1>2
<1> QED BY <1>3, <1>4, Zenon

(* What is left of the open files, or of their histories.                   *)
LEMMA CollectedFacts ==
  ASSUME NEW o, NEW tab, NEW g, g = Collected(o, tab)
  PROVE  /\ DOMAIN g = DOMAIN o \cap Referenced(tab)
         /\ \A f \in DOMAIN g : g[f] = o[f]
         /\ \A S : o \in [DOMAIN o -> S] => g \in [DOMAIN g -> S]
BY DEF Collected

-----------------------------------------------------------------------------
(* The invariant holds.                                                     *)

(* The initial state satisfies the invariant.                               *)
LEMMA FileInit == Init => FileInv
<1> SUFFICES ASSUME Init PROVE FileInv
  OBVIOUS
<1>1. PICK N \in SUBSET Names : InitFiles \in [N -> Seq(Bytes)]
  BY FileTableAssumption
<1>2. content = InitFiles /\ DOMAIN osinode = {} /\ DOMAIN log = {} /\ keys = 0 /\ panic = "none"
  BY DEF Init
<1>3. Seq(Bytes) \subseteq Seq(Words)
  BY DEF Words
<1>4. ContentOK
  <2>1. DOMAIN content = N /\ N \subseteq Names
    BY <1>1, <1>2
  <2> QED BY <1>1, <1>2, <1>3, <2>1 DEF ContentOK
<1>5. OpenOK
  <2>1. osinode = [f \in {} |-> 0]
    BY DEF Init
  <2>2. osinode \in [{} -> OSInodes(DOMAIN content)]
    BY <2>1
  <2> QED BY <1>2, <2>2, FS_EmptySet DEF OpenOK
<1>6. /\ fd_table \in [Tasks -> Seq(Int)]
      /\ \A t \in Tasks : t # InitTask => fd_table[t] = <<>>
      /\ Len(fd_table[InitTask]) = 3 /\ fd_table[InitTask][1] = Stdin
      /\ fd_table[InitTask][2] = Stdout /\ fd_table[InitTask][3] = Stdout
  <2>1. StdTable \in Seq(Int) /\ Len(StdTable) = 3 /\ StdTable[1] = Stdin
        /\ StdTable[2] = Stdout /\ StdTable[3] = Stdout
    BY DEF StdTable, Stdin, Stdout
  <2>2. <<>> \in Seq(Int)
    OBVIOUS
  <2>3. InitTask \in Tasks
    BY FileTableAssumption
  <2> QED BY <2>1, <2>2, <2>3 DEF Init
<1>7. ASSUME NEW t \in Tasks, NEW i \in 1 .. Len(fd_table[t])
      PROVE  fd_table[t][i] \in {Stdin, Stdout} /\ (fd_table[t][i] = Stdin => i = 1)
  <2>1. t = InitTask
    BY <1>6
  <2>2. i = 1 \/ i = 2 \/ i = 3
    <3>1. Len(fd_table[t]) = 3
      BY <1>6, <2>1
    <3>2. i \in 1 .. 3
      BY <3>1
    <3> QED BY <3>2
  <2> QED BY <1>6, <2>1, <2>2 DEF Stdin, Stdout
<1>8. /\ status \in [Tasks -> {"unused", "live", "reading", "zombie"}]
      /\ \A t \in Tasks : status[t] = IF t = InitTask THEN "live" ELSE "unused"
  BY DEF Init
<1>9. EntriesOK
  BY <1>2, <1>6, <1>7 DEF EntriesOK
<1>10. StdinOK
  BY <1>7, <1>8 DEF StdinOK
<1>11. TasksOK
  BY <1>2, <1>6, <1>8 DEF TasksOK
<1>12. LogOK
  BY <1>2 DEF LogOK
<1> QED BY <1>4, <1>5, <1>9, <1>10, <1>11, <1>12 DEF FileInv

(* Steps that touch neither files, nor tables, nor a task.                  *)
LEMMA QuietStep ==
  ASSUME FileInv, UNCHANGED <<content, osinode, fd_table, status, log>>,
         keys' \in Nat, panic' \in {"none", "flags", "stdin_len", "utf8"}
  PROVE  FileInv'
BY DEF FileInv, ContentOK, OpenOK, EntriesOK, StdinOK, TasksOK, LogOK

(* Steps that change only what a task does.                                 *)
LEMMA StatusStep ==
  ASSUME FileInv, UNCHANGED <<content, osinode, fd_table, panic, log>>,
         keys' \in Nat, NEW t \in Tasks, NEW st \in {"live", "reading", "zombie"},
         status' = [status EXCEPT ![t] = st],
         st = "reading" => Len(fd_table[t]) >= 1 /\ fd_table[t][1] = Stdin
  PROVE  FileInv'
<1>1. status \in [Tasks -> {"unused", "live", "reading", "zombie"}]
  BY DEF FileInv, TasksOK
<1>2. \A u \in Tasks : status'[u] = IF u = t THEN st ELSE status[u]
  BY <1>1
<1>3. ContentOK' /\ OpenOK' /\ EntriesOK' /\ LogOK'
  <2>1. ContentOK'
    BY DEF FileInv, ContentOK
  <2>2. OpenOK'
    BY DEF FileInv, OpenOK
  <2>3. EntriesOK'
    BY DEF FileInv, EntriesOK
  <2>4. LogOK'
    BY DEF FileInv, LogOK
  <2> QED BY <2>1, <2>2, <2>3, <2>4
<1>4. StdinOK'
  <2>1. \A u \in Tasks : \A i \in 1 .. Len(fd_table[u]) : fd_table[u][i] = Stdin => i = 1
    BY DEF FileInv, StdinOK
  <2>2. \A u \in Tasks : status'[u] = "reading" =>
          Len(fd_table[u]) >= 1 /\ fd_table[u][1] = Stdin
    BY <1>2 DEF FileInv, StdinOK
  <2>3. fd_table' = fd_table
    OBVIOUS
  <2> QED BY <2>1, <2>2, <2>3 DEF StdinOK
<1>5. TasksOK'
  <2>1. status' \in [Tasks -> {"unused", "live", "reading", "zombie"}]
    BY <1>1
  <2>2. \A u \in Tasks : status'[u] = "unused" => fd_table'[u] = <<>>
    BY <1>2 DEF FileInv, TasksOK
  <2> QED BY <2>1, <2>2 DEF FileInv, TasksOK
<1> QED BY <1>3, <1>4, <1>5 DEF FileInv

(* fork: the child's table is the parent's.                                 *)
LEMMA ForkStep ==
  ASSUME FileInv, NEW t \in Tasks, NEW c \in Tasks, Fork(t, c)
  PROVE  FileInv'
<1>1. /\ status[c] = "unused" /\ status' = [status EXCEPT ![c] = "live"]
      /\ fd_table' = [fd_table EXCEPT ![c] = fd_table[t]]
      /\ UNCHANGED <<content, osinode, keys, panic, log>>
  BY DEF Fork, ForkedTable
<1>2. /\ status \in [Tasks -> {"unused", "live", "reading", "zombie"}]
      /\ fd_table \in [Tasks -> Seq(Int)] /\ fd_table[c] = <<>>
  BY <1>1 DEF FileInv, TasksOK, EntriesOK
<1>3. /\ status' \in [Tasks -> {"unused", "live", "reading", "zombie"}]
      /\ \A u \in Tasks : status'[u] = IF u = c THEN "live" ELSE status[u]
  BY <1>1, <1>2
<1>4. /\ fd_table' \in [Tasks -> Seq(Int)]
      /\ \A u \in Tasks : fd_table'[u] = IF u = c THEN fd_table[t] ELSE fd_table[u]
  BY <1>1, <1>2
<1>5. ContentOK'
  BY <1>1 DEF FileInv, ContentOK
<1>6. OpenOK'
  BY <1>1 DEF FileInv, OpenOK
<1>7. EntriesOK'
  <2>1. \A u \in Tasks : \A i \in 1 .. Len(fd_table'[u]) :
          fd_table'[u][i] \in DOMAIN osinode \cup {None, Stdin, Stdout}
    BY <1>4 DEF FileInv, EntriesOK
  <2>2. ASSUME NEW f \in DOMAIN osinode
        PROVE  \E u \in Tasks : \E i \in 1 .. Len(fd_table'[u]) : fd_table'[u][i] = f
    <3>0. PICK u \in Tasks : \E i \in 1 .. Len(fd_table[u]) : fd_table[u][i] = f
      BY DEF FileInv, EntriesOK
    <3>1. PICK i \in 1 .. Len(fd_table[u]) : fd_table[u][i] = f
      BY <3>0
    <3>2. u # c
      BY <1>2, <3>1
    <3>3. fd_table'[u] = fd_table[u]
      BY <1>4, <3>2
    <3> QED BY <3>1, <3>3
  <2> QED BY <1>1, <1>4, <2>1, <2>2 DEF EntriesOK
<1>8. StdinOK'
  <2>1. ASSUME NEW u \in Tasks
        PROVE  \A i \in 1 .. Len(fd_table'[u]) : fd_table'[u][i] = Stdin => i = 1
    <3>1. PICK x \in Tasks : fd_table'[u] = fd_table[x]
      BY <1>4
    <3>2. \A i \in 1 .. Len(fd_table[x]) : fd_table[x][i] = Stdin => i = 1
      BY DEF FileInv, StdinOK
    <3> QED BY <3>1, <3>2
  <2>2. \A u \in Tasks : status'[u] = "reading" =>
          Len(fd_table'[u]) >= 1 /\ fd_table'[u][1] = Stdin
    BY <1>3, <1>4 DEF FileInv, StdinOK
  <2> QED BY <2>1, <2>2 DEF StdinOK
<1>9. TasksOK'
  <2>1. \A u \in Tasks : status'[u] = "unused" => fd_table'[u] = <<>>
    BY <1>3, <1>4 DEF FileInv, TasksOK
  <2> QED BY <1>1, <1>3, <2>1 DEF FileInv, TasksOK
<1>10. LogOK'
  BY <1>1 DEF FileInv, LogOK
<1> QED BY <1>5, <1>6, <1>7, <1>8, <1>9, <1>10 DEF FileInv

(* close and waitpid: entries go, and open files that lose their last one.  *)
LEMMA DropStep ==
  ASSUME FileInv, UNCHANGED <<content, keys, panic>>,
         fd_table' \in [Tasks -> Seq(Int)],
         \A u \in Tasks : \A i \in 1 .. Len(fd_table'[u]) :
            \/ fd_table'[u][i] = None
            \/ i \in 1 .. Len(fd_table[u]) /\ fd_table'[u][i] = fd_table[u][i],
         osinode' = Collected(osinode, fd_table'), log' = Collected(log, fd_table'),
         status' \in [Tasks -> {"unused", "live", "reading", "zombie"}],
         \A u \in Tasks : status'[u] = "unused" => fd_table'[u] = <<>>,
         \A u \in Tasks : status'[u] = "reading" =>
            status[u] = "reading" /\ fd_table'[u] = fd_table[u]
  PROVE  FileInv'
<1>1. PICK tab \in [Tasks -> Seq(Int)] : tab = fd_table'
  OBVIOUS
<1>2. \A f : f \in Referenced(tab) <=>
        \E t \in Tasks : \E i \in 1 .. Len(tab[t]) : tab[t][i] = f
  BY ReferencedFacts
<1>3. PICK o, l : o = osinode' /\ l = log' /\ o = Collected(osinode, tab) /\ l = Collected(log, tab)
  BY <1>1
<1>4. /\ DOMAIN o = DOMAIN osinode \cap Referenced(tab)
      /\ \A f \in DOMAIN o : o[f] = osinode[f]
      /\ \A S : osinode \in [DOMAIN osinode -> S] => o \in [DOMAIN o -> S]
  BY <1>3, CollectedFacts
<1>5. /\ DOMAIN l = DOMAIN log \cap Referenced(tab)
      /\ \A f \in DOMAIN l : l[f] = log[f]
  <2>1. l = Collected(log, tab)
    BY <1>3
  <2> QED BY <2>1 DEF Collected
<1>6. ContentOK'
  BY DEF FileInv, ContentOK
<1>7. OpenOK'
  <2>1. DOMAIN osinode \subseteq Nat \ {0} /\ IsFiniteSet(DOMAIN osinode)
        /\ osinode \in [DOMAIN osinode -> OSInodes(DOMAIN content)]
    BY DEF FileInv, OpenOK
  <2>2. DOMAIN o \subseteq DOMAIN osinode
    BY <1>4
  <2>3. IsFiniteSet(DOMAIN o)
    BY <2>1, <2>2, FS_Subset
  <2>4. o \in [DOMAIN o -> OSInodes(DOMAIN content)]
    BY <1>4, <2>1
  <2>5. DOMAIN o \subseteq Nat \ {0}
    BY <2>1, <2>2
  <2>6. content' = content
    OBVIOUS
  <2> QED BY <1>3, <2>3, <2>4, <2>5, <2>6 DEF OpenOK
<1>8. EntriesOK'
  <2>1. ASSUME NEW u \in Tasks, NEW i \in 1 .. Len(tab[u])
        PROVE  tab[u][i] \in DOMAIN o \cup {None, Stdin, Stdout}
    <3>1. CASE tab[u][i] = None
      BY <3>1
    <3>2. CASE i \in 1 .. Len(fd_table[u]) /\ tab[u][i] = fd_table[u][i]
      <4>1. tab[u][i] \in DOMAIN osinode \cup {None, Stdin, Stdout}
        BY <3>2 DEF FileInv, EntriesOK
      <4>2. tab[u][i] \in Referenced(tab)
        BY <1>2
      <4> QED BY <1>4, <4>1, <4>2
    <3> QED BY <1>1, <3>1, <3>2
  <2>2. \A f \in DOMAIN o : \E t \in Tasks : \E i \in 1 .. Len(tab[t]) : tab[t][i] = f
    BY <1>2, <1>4
  <2> QED BY <1>1, <1>3, <2>1, <2>2 DEF EntriesOK
<1>9. StdinOK'
  <2>1. ASSUME NEW u \in Tasks, NEW i \in 1 .. Len(tab[u]), tab[u][i] = Stdin
        PROVE  i = 1
    <3>1. i \in 1 .. Len(fd_table[u]) /\ fd_table[u][i] = Stdin
      BY <1>1, <2>1 DEF None, Stdin
    <3> QED BY <3>1 DEF FileInv, StdinOK
  <2>2. \A u \in Tasks : status'[u] = "reading" => Len(tab[u]) >= 1 /\ tab[u][1] = Stdin
    BY <1>1 DEF FileInv, StdinOK
  <2> QED BY <1>1, <2>1, <2>2 DEF StdinOK
<1>10. TasksOK'
  BY DEF FileInv, TasksOK
<1>11. LogOK'
  <2>1. DOMAIN l \subseteq DOMAIN o /\ DOMAIN l \subseteq DOMAIN log
    BY <1>4, <1>5 DEF FileInv, LogOK
  <2>2. ASSUME NEW f \in DOMAIN l
        PROVE  /\ l[f] \in Seq(Words) /\ content[o[f].inode] = l[f]
               /\ o[f].writable /\ o[f].offset = Len(l[f])
    <3>1. f \in DOMAIN log /\ o[f] = osinode[f] /\ l[f] = log[f]
      BY <1>4, <1>5, <2>1
    <3> QED BY <3>1 DEF FileInv, LogOK
  <2>3. ASSUME NEW f \in DOMAIN l, NEW g \in DOMAIN o, o[g].writable, o[g].inode = o[f].inode
        PROVE  g = f
    <3>1. f \in DOMAIN log /\ g \in DOMAIN osinode /\ o[f] = osinode[f] /\ o[g] = osinode[g]
      BY <1>4, <2>1
    <3>2. osinode[g].writable /\ osinode[g].inode = osinode[f].inode
      BY <2>3, <3>1
    <3> QED BY <3>1, <3>2 DEF FileInv, LogOK
  <2>4. content' = content
    OBVIOUS
  <2> QED BY <1>3, <2>1, <2>2, <2>3, <2>4 DEF LogOK
<1> QED BY <1>6, <1>7, <1>8, <1>9, <1>10, <1>11 DEF FileInv

(* alloc_fd returns the lowest descriptor that is free.                     *)
LEMMA AllocFdFacts ==
  ASSUME NEW t, fd_table[t] \in Seq(Int), NEW fd, fd = AllocFd(t)
  PROVE  /\ fd \in Nat /\ fd <= Len(fd_table[t])
         /\ fd < Len(fd_table[t]) => fd_table[t][fd + 1] = None
         /\ \A n \in 0 .. fd - 1 : fd_table[t][n + 1] # None
<1>1. PICK s \in Seq(Int), len \in Nat : s = fd_table[t] /\ len = Len(s)
  OBVIOUS
<1>2. PICK free : free = {n \in 0 .. len - 1 : s[n + 1] = None}
  OBVIOUS
<1>3. fd = IF free = {} THEN len ELSE Min(free)
  BY <1>1, <1>2 DEF AllocFd
<1>4. CASE free = {}
  <2>1. fd = len
    BY <1>3, <1>4
  <2>2. \A n \in 0 .. len - 1 : s[n + 1] # None
    BY <1>2, <1>4
  <2> QED BY <1>1, <2>1, <2>2
<1>5. CASE free # {}
  <2>1. free \subseteq Nat
    BY <1>2
  <2>2. PICK x \in free : \A y \in free : ~(y < x)
    BY <1>5, <2>1, Least
  <2>3. \A y \in free : x <= y
    BY <2>1, <2>2
  <2>4. fd = CHOOSE z \in free : \A y \in free : z <= y
    BY <1>3, <1>5 DEF Min
  <2>5. fd \in free /\ \A y \in free : fd <= y
    BY <2>3, <2>4, Zenon
  <2>6. fd \in 0 .. len - 1 /\ s[fd + 1] = None
    BY <1>2, <2>5
  <2>7. ASSUME NEW n \in 0 .. fd - 1 PROVE s[n + 1] # None
    <3>1. n \in 0 .. len - 1 /\ ~(fd <= n)
      BY <2>6
    <3>2. n \notin free
      BY <2>5, <3>1
    <3> QED BY <1>2, <3>1, <3>2
  <2> QED BY <1>1, <2>6, <2>7
<1> QED BY <1>4, <1>5

(* The table with file f at descriptor fd.                                  *)
LEMMA SlotFacts ==
  ASSUME NEW s \in Seq(Int), NEW fd \in Nat, fd <= Len(s), NEW f \in Int,
         NEW v, v = IF fd = Len(s) THEN Append(s, f) ELSE [s EXCEPT ![fd + 1] = f]
  PROVE  /\ v \in Seq(Int) /\ Len(v) = (IF fd = Len(s) THEN Len(s) + 1 ELSE Len(s))
         /\ fd + 1 \in 1 .. Len(v) /\ v[fd + 1] = f
         /\ \A i \in 1 .. Len(v) : i # fd + 1 => i \in 1 .. Len(s) /\ v[i] = s[i]
         /\ \A i \in 1 .. Len(s) : i \in 1 .. Len(v)
<1>1. PICK len \in Nat : len = Len(s)
  OBVIOUS
<1>2. CASE fd = len
  <2>1. v = Append(s, f)
    BY <1>1, <1>2
  <2>2. v \in Seq(Int) /\ Len(v) = len + 1 /\ v[len + 1] = f /\ \A i \in 1 .. len : v[i] = s[i]
    BY <1>1, <2>1
  <2> QED BY <1>1, <1>2, <2>2
<1>3. CASE fd # len
  <2>1. v = [s EXCEPT ![fd + 1] = f]
    BY <1>1, <1>3
  <2>2. fd + 1 \in 1 .. len
    BY <1>1, <1>3
  <2>3. v \in Seq(Int) /\ Len(v) = len /\ v[fd + 1] = f /\ \A i \in 1 .. len : i # fd + 1 => v[i] = s[i]
    BY <1>1, <2>1, <2>2
  <2> QED BY <1>1, <1>3, <2>2, <2>3
<1> QED BY <1>2, <1>3

(* What an open that succeeds does: file f, descriptor fd.                  *)
Emptied(flags) == {"CREATE", "TRUNC"} \cap flags # {}

NewFile(name, flags) ==
    [readable |-> ReadWrite(flags).readable, writable |-> ReadWrite(flags).writable,
     offset |-> 0, inode |-> name]

OpenTakes(t, name, flags, f, fd) ==
    /\ Running(t)
    /\ f \in Nat \ {0} /\ f \notin DOMAIN osinode /\ fd = AllocFd(t)
    /\ name \in DOMAIN content \/ "CREATE" \in flags
    /\ content' = Opened(name, flags)
    /\ osinode' = With(osinode, f, NewFile(name, flags))
    /\ fd_table' = [fd_table EXCEPT ![t] =
                      IF fd = Len(@) THEN Append(@, f) ELSE [@ EXCEPT ![fd + 1] = f]]
    /\ reply' = Reply("open", t, 0, name, flags, 0, <<>>, fd)
    /\ UNCHANGED <<status, keys, panic>>

(* What it does to the histories: the one of f begins only when nobody else *)
(* writes the file and it is empty, and the ones it disturbs end.           *)
OpenLogs(name, flags, f) ==
    \A g \in DOMAIN log' :
      IF g = f
      THEN /\ log'[g] = <<>> /\ ReadWrite(flags).writable
           /\ Emptied(flags) \/ content[name] = <<>>
           /\ \A h \in DOMAIN osinode : osinode[h].writable => osinode[h].inode # name
      ELSE /\ g \in DOMAIN log /\ log'[g] = log[g]
           /\ (ReadWrite(flags).writable \/ Emptied(flags)) => osinode[g].inode # name

(* sys_open either leaves all as it is or opens a file.                     *)
LEMMA OpenCases ==
  ASSUME FileInv, NEW t \in Tasks, NEW name \in Names, NEW flags, SysOpen(t, name, flags)
  PROVE  \/ /\ UNCHANGED <<content, osinode, fd_table, status, keys, log>>
            /\ \/ panic' = "flags" /\ reply' = Reply("panic", t, 0, 0, {}, 0, <<>>, 0)
               \/ /\ UNCHANGED panic /\ name \notin DOMAIN content /\ "CREATE" \notin flags
                  /\ reply' = Reply("open", t, 0, name, flags, 0, <<>>, -1)
         \/ \E f, fd : OpenTakes(t, name, flags, f, fd) /\ OpenLogs(name, flags, f)
<1>1. IsFiniteSet(DOMAIN osinode) /\ DOMAIN log \subseteq DOMAIN osinode
      /\ \A g \in DOMAIN log : osinode[g].writable
  BY DEF FileInv, OpenOK, LogOK
<1>2. PICK f, fd : /\ f = CHOOSE i \in 1 .. Cardinality(DOMAIN osinode) + 1 : i \notin DOMAIN osinode
                   /\ fd = AllocFd(t)
  OBVIOUS
<1>3. f \in Nat \ {0} /\ f \notin DOMAIN osinode
  BY <1>1, <1>2, FreshFacts
<1>4. PICK others : others = {g \in DOMAIN osinode : osinode[g].inode = name /\ osinode[g].writable}
  OBVIOUS
<1>5. PICK ended, begun :
        /\ ended = (IF ReadWrite(flags).writable \/ Emptied(flags) THEN others ELSE {})
        /\ begun = (IF /\ ReadWrite(flags).writable /\ others = {}
                       /\ Emptied(flags) \/ content[name] = <<>> THEN {f} ELSE {})
  OBVIOUS
<1>6. CASE ~(flags \subseteq Flags)
  BY <1>6 DEF SysOpen, Stop
<1>7. CASE flags \subseteq Flags /\ name \notin DOMAIN content /\ "CREATE" \notin flags
  BY <1>7 DEF SysOpen, kernelVars
<1>8. CASE flags \subseteq Flags /\ (name \in DOMAIN content \/ "CREATE" \in flags)
  <2>1. /\ content' = Opened(name, flags)
        /\ osinode' = With(osinode, f, NewFile(name, flags))
        /\ fd_table' = [fd_table EXCEPT ![t] =
                          IF fd = Len(@) THEN Append(@, f) ELSE [@ EXCEPT ![fd + 1] = f]]
        /\ reply' = Reply("open", t, 0, name, flags, 0, <<>>, fd)
        /\ UNCHANGED <<status, keys, panic>>
    BY <1>2, <1>8 DEF SysOpen, NewFile
  <2>2. log' = [g \in (DOMAIN log \ ended) \cup begun |-> IF g = f THEN <<>> ELSE log[g]]
    BY <1>2, <1>4, <1>5, <1>8 DEF SysOpen, Emptied
  <2>3. OpenTakes(t, name, flags, f, fd)
    <3>1. Running(t)
      BY DEF SysOpen
    <3> QED BY <1>2, <1>3, <1>8, <2>1, <3>1 DEF OpenTakes
  <2>4. ASSUME NEW g \in DOMAIN log', g = f
        PROVE  /\ log'[g] = <<>> /\ ReadWrite(flags).writable
               /\ Emptied(flags) \/ content[name] = <<>>
               /\ \A h \in DOMAIN osinode : osinode[h].writable => osinode[h].inode # name
    <3>1. g \in begun /\ log'[g] = <<>>
      BY <1>1, <1>3, <2>2, <2>4
    <3>2. ReadWrite(flags).writable /\ others = {} /\ (Emptied(flags) \/ content[name] = <<>>)
      BY <1>5, <3>1
    <3> QED BY <1>4, <3>1, <3>2
  <2>5. ASSUME NEW g \in DOMAIN log', g # f
        PROVE  /\ g \in DOMAIN log /\ log'[g] = log[g]
               /\ (ReadWrite(flags).writable \/ Emptied(flags)) => osinode[g].inode # name
    <3>1. g \in DOMAIN log \ ended /\ log'[g] = log[g]
      <4>1. g \notin begun
        BY <1>5, <2>5
      <4> QED BY <2>2, <2>5, <4>1
    <3>2. ASSUME ReadWrite(flags).writable \/ Emptied(flags) PROVE osinode[g].inode # name
      <4>1. ended = others
        BY <1>5, <3>2
      <4>2. g \in DOMAIN osinode /\ osinode[g].writable /\ g \notin others
        BY <1>1, <3>1, <4>1
      <4> QED BY <1>4, <4>2
    <3> QED BY <3>1, <3>2
  <2>6. OpenLogs(name, flags, f)
    BY <2>4, <2>5, Zenon DEF OpenLogs
  <2> QED BY <2>3, <2>6
<1> QED BY <1>6, <1>7, <1>8

(* open keeps the invariant.                                                *)
LEMMA OpenStep ==
  ASSUME FileInv, NEW t \in Tasks, NEW name \in Names, NEW flags, NEW f, NEW fd,
         OpenTakes(t, name, flags, f, fd), OpenLogs(name, flags, f)
  PROVE  FileInv'
<1>1. /\ f \in Nat \ {0} /\ f \notin DOMAIN osinode /\ fd = AllocFd(t)
      /\ name \in DOMAIN content \/ Emptied(flags)
      /\ content' = Opened(name, flags)
      /\ osinode' = With(osinode, f, NewFile(name, flags))
      /\ UNCHANGED <<status, keys, panic>>
  BY DEF OpenTakes, Emptied
<1>2. PICK C, O, T, c, o : /\ C = content' /\ O = osinode' /\ T = fd_table'
                           /\ c = content /\ o = osinode
  OBVIOUS
<1>3. DOMAIN c \subseteq Names /\ c \in [DOMAIN c -> Seq(Words)]
  BY <1>2 DEF FileInv, ContentOK
<1>4. /\ DOMAIN C \subseteq Names /\ C \in [DOMAIN C -> Seq(Words)]
      /\ DOMAIN c \subseteq DOMAIN C /\ name \in DOMAIN C
      /\ Emptied(flags) => C[name] = <<>>
      /\ ~Emptied(flags) => C = c
      /\ \A m \in DOMAIN c : m # name => C[m] = c[m]
  <2>1. CASE Emptied(flags)
    <3>1. C = With(c, name, <<>>)
      BY <1>1, <1>2, <2>1 DEF Opened, Emptied
    <3>2. <<>> \in Seq(Words)
      OBVIOUS
    <3> QED BY <1>3, <2>1, <3>1, <3>2 DEF With
  <2>2. CASE ~Emptied(flags)
    <3>1. C = c
      BY <1>1, <1>2, <2>2 DEF Opened, Emptied
    <3> QED BY <1>1, <1>2, <1>3, <2>2, <3>1
  <2> QED BY <2>1, <2>2
<1>5. ContentOK'
  BY <1>2, <1>4 DEF ContentOK
<1>6. PICK r : r = NewFile(name, flags)
  OBVIOUS
<1>7. /\ r \in OSInodes(DOMAIN C) /\ r.offset = 0 /\ r.inode = name
      /\ r.writable = ReadWrite(flags).writable
  <2>1. ReadWrite(flags).readable \in BOOLEAN /\ ReadWrite(flags).writable \in BOOLEAN
    BY DEF ReadWrite
  <2>2. 0 \in Nat /\ name \in DOMAIN C
    BY <1>4
  <2>3. r \in OSInodes(DOMAIN C)
    BY <1>6, <2>1, <2>2, Zenon DEF NewFile, OSInodes
  <2>4. r.offset = 0 /\ r.inode = name
    BY <1>6 DEF NewFile
  <2>5. r.writable = ReadWrite(flags).writable
    BY <1>6, Zenon DEF NewFile
  <2> QED BY <2>3, <2>4, <2>5
<1>8. /\ DOMAIN o \subseteq Nat \ {0} /\ IsFiniteSet(DOMAIN o)
      /\ o \in [DOMAIN o -> OSInodes(DOMAIN c)]
  BY <1>2 DEF FileInv, OpenOK
<1>9. /\ DOMAIN O = DOMAIN o \cup {f} /\ O[f] = r /\ f \notin DOMAIN o
      /\ \A g \in DOMAIN o : O[g] = o[g]
      /\ \A g \in DOMAIN o : o[g].inode \in DOMAIN c
      /\ O \in [DOMAIN O -> OSInodes(DOMAIN C)]
  <2>1. O = With(o, f, r)
    BY <1>1, <1>2, <1>6
  <2>2. OSInodes(DOMAIN c) \subseteq OSInodes(DOMAIN C)
    BY <1>4, Zenon DEF OSInodes
  <2>3. f \notin DOMAIN o
    BY <1>1, <1>2
  <2>4. DOMAIN O = DOMAIN o \cup {f} /\ O[f] = r /\ \A g \in DOMAIN o : O[g] = o[g]
    BY <2>1, <2>3 DEF With
  <2>5. \A g \in DOMAIN o : o[g] \in OSInodes(DOMAIN c)
    BY <1>8
  <2>6. \A g \in DOMAIN o : o[g].inode \in DOMAIN c
    BY <2>5 DEF OSInodes
  <2>7. \A g \in DOMAIN O : O[g] \in OSInodes(DOMAIN C)
    BY <1>7, <2>2, <2>4, <2>5
  <2>8. O = [g \in DOMAIN O |-> O[g]]
    BY <2>1 DEF With
  <2>9. O \in [DOMAIN O -> OSInodes(DOMAIN C)]
    BY <2>7, <2>8
  <2> QED BY <2>3, <2>4, <2>6, <2>9
<1>10. OpenOK'
  <2>1. IsFiniteSet(DOMAIN O)
    BY <1>8, <1>9, FS_AddElement
  <2>2. DOMAIN O \subseteq Nat \ {0}
    BY <1>1, <1>8, <1>9
  <2> QED BY <1>2, <1>9, <2>1, <2>2 DEF OpenOK
<1>11. fd_table \in [Tasks -> Seq(Int)]
  BY DEF FileInv, EntriesOK
<1>12. PICK s \in Seq(Int) : s = fd_table[t]
  BY <1>11
<1>13. fd \in Nat /\ fd <= Len(s) /\ (fd < Len(s) => s[fd + 1] = None)
  <2>1. fd_table[t] \in Seq(Int)
    BY <1>12
  <2>2. fd \in Nat /\ fd <= Len(fd_table[t]) /\ (fd < Len(fd_table[t]) => fd_table[t][fd + 1] = None)
    BY <1>1, <2>1, AllocFdFacts
  <2> QED BY <1>12, <2>2
<1>14. PICK v : v = IF fd = Len(s) THEN Append(s, f) ELSE [s EXCEPT ![fd + 1] = f]
  OBVIOUS
<1>15. /\ v \in Seq(Int) /\ Len(v) = (IF fd = Len(s) THEN Len(s) + 1 ELSE Len(s))
       /\ fd + 1 \in 1 .. Len(v) /\ v[fd + 1] = f
       /\ \A i \in 1 .. Len(v) : i # fd + 1 => i \in 1 .. Len(s) /\ v[i] = s[i]
       /\ \A i \in 1 .. Len(s) : i \in 1 .. Len(v)
  <2>1. f \in Int
    BY <1>1
  <2> QED BY <1>13, <1>14, <2>1, SlotFacts
<1>16. /\ T \in [Tasks -> Seq(Int)] /\ T[t] = v
       /\ \A u \in Tasks : u # t => T[u] = fd_table[u]
  <2>1. T = [fd_table EXCEPT ![t] = v]
    BY <1>2, <1>12, <1>14 DEF OpenTakes
  <2> QED BY <1>11, <1>15, <2>1
<1>17. EntriesOK'
  <2>1. ASSUME NEW u \in Tasks, NEW i \in 1 .. Len(T[u])
        PROVE  T[u][i] \in DOMAIN O \cup {None, Stdin, Stdout}
    <3>1. CASE u = t /\ i = fd + 1
      BY <1>9, <1>15, <1>16, <3>1
    <3>2. CASE u = t /\ i # fd + 1
      <4>1. i \in 1 .. Len(s) /\ T[u][i] = s[i]
        BY <1>15, <1>16, <3>2
      <4>2. s[i] \in DOMAIN o \cup {None, Stdin, Stdout}
        BY <1>2, <1>12, <4>1 DEF FileInv, EntriesOK
      <4> QED BY <1>9, <4>1, <4>2
    <3>3. CASE u # t
      <4>1. T[u] = fd_table[u]
        BY <1>16, <3>3
      <4>2. T[u][i] \in DOMAIN o \cup {None, Stdin, Stdout}
        BY <1>2, <4>1 DEF FileInv, EntriesOK
      <4> QED BY <1>9, <4>2
    <3> QED BY <3>1, <3>2, <3>3
  <2>2. ASSUME NEW g \in DOMAIN O
        PROVE  \E u \in Tasks : \E i \in 1 .. Len(T[u]) : T[u][i] = g
    <3>1. CASE g = f
      BY <1>15, <1>16, <3>1
    <3>2. CASE g \in DOMAIN o
      <4>1. PICK u \in Tasks : \E i \in 1 .. Len(fd_table[u]) : fd_table[u][i] = g
        BY <1>2, <3>2 DEF FileInv, EntriesOK
      <4>2. PICK i \in 1 .. Len(fd_table[u]) : fd_table[u][i] = g
        BY <4>1
      <4>3. CASE u # t
        BY <1>16, <4>2, <4>3
      <4>4. CASE u = t
        <5>1. i \in 1 .. Len(s) /\ s[i] = g /\ g # None
          BY <1>8, <1>12, <3>2, <4>2, <4>4 DEF None
        <5>2. i # fd + 1
          BY <1>13, <5>1
        <5>3. i \in 1 .. Len(v) /\ v[i] = g
          BY <1>15, <5>1, <5>2
        <5> QED BY <1>16, <5>3
      <4> QED BY <4>3, <4>4
    <3> QED BY <1>9, <3>1, <3>2
  <2> QED BY <1>2, <1>16, <2>1, <2>2 DEF EntriesOK
<1>18. StdinOK'
  <2>1. ASSUME NEW u \in Tasks, NEW i \in 1 .. Len(T[u]), T[u][i] = Stdin PROVE i = 1
    <3>1. CASE u # t
      <4>1. T[u] = fd_table[u]
        BY <1>16, <3>1
      <4> QED BY <2>1, <4>1 DEF FileInv, StdinOK
    <3>2. CASE u = t
      <4>1. i # fd + 1
        BY <1>1, <1>15, <1>16, <2>1, <3>2 DEF Stdin
      <4>2. i \in 1 .. Len(s) /\ s[i] = Stdin
        BY <1>15, <1>16, <2>1, <3>2, <4>1
      <4> QED BY <1>12, <4>2 DEF FileInv, StdinOK
    <3> QED BY <3>1, <3>2
  <2>2. ASSUME NEW u \in Tasks, status[u] = "reading"
        PROVE  Len(T[u]) >= 1 /\ T[u][1] = Stdin
    <3>1. Len(fd_table[u]) >= 1 /\ fd_table[u][1] = Stdin
      BY <2>2 DEF FileInv, StdinOK
    <3>2. CASE u # t
      BY <1>16, <3>1, <3>2
    <3>3. CASE u = t
      <4>1. Len(s) >= 1 /\ s[1] = Stdin
        BY <1>12, <3>1, <3>3
      <4>2. 1 # fd + 1
        <5>1. CASE fd < Len(s)
          BY <1>13, <4>1, <5>1 DEF None, Stdin
        <5>2. CASE ~(fd < Len(s))
          <6>1. Len(s) \in Nat
            OBVIOUS
          <6> QED BY <1>13, <4>1, <5>2, <6>1
        <5> QED BY <5>1, <5>2
      <4>3. 1 \in 1 .. Len(v)
        <5>1. Len(s) \in Nat
          OBVIOUS
        <5>2. 1 \in 1 .. Len(s)
          BY <4>1, <5>1
        <5> QED BY <1>15, <5>2
      <4>4. v[1] = Stdin
        BY <1>15, <4>1, <4>2, <4>3
      <4>5. Len(v) >= 1
        BY <1>15, <4>3
      <4> QED BY <1>16, <3>3, <4>4, <4>5
    <3> QED BY <3>2, <3>3
  <2> QED BY <1>1, <1>2, <2>1, <2>2 DEF StdinOK
<1>19. TasksOK'
  <2>1. status[t] # "unused"
    BY DEF OpenTakes, Running
  <2>2. \A u \in Tasks : status[u] = "unused" => T[u] = <<>>
    BY <1>16, <2>1 DEF FileInv, TasksOK
  <2> QED BY <1>1, <1>2, <2>2 DEF FileInv, TasksOK
<1>20. LogOK'
  <2>1. PICK l : l = log'
    OBVIOUS
  <2>2. ASSUME NEW g \in DOMAIN l, g = f
        PROVE  /\ l[g] = <<>> /\ ReadWrite(flags).writable
               /\ Emptied(flags) \/ c[name] = <<>>
               /\ \A h \in DOMAIN o : o[h].writable => o[h].inode # name
    BY <1>2, <2>1, <2>2 DEF OpenLogs
  <2>3. ASSUME NEW g \in DOMAIN l, g # f
        PROVE  /\ g \in DOMAIN log /\ l[g] = log[g]
               /\ (ReadWrite(flags).writable \/ Emptied(flags)) => o[g].inode # name
    BY <1>2, <2>1, <2>3 DEF OpenLogs
  <2>4. DOMAIN log \subseteq DOMAIN o
    BY <1>2 DEF FileInv, LogOK
  <2>5. ASSUME NEW g \in DOMAIN l
        PROVE  /\ l[g] \in Seq(Words) /\ C[O[g].inode] = l[g]
               /\ O[g].writable /\ O[g].offset = Len(l[g])
    <3>1. CASE g = f
      <4>1. C[name] = <<>>
        BY <1>4, <2>2, <3>1
      <4>2. O[g].inode = name /\ O[g].offset = 0
        BY <1>7, <1>9, <3>1
      <4>3. O[g].writable
        BY <1>7, <1>9, <2>2, <3>1, Zenon
      <4>4. l[g] = <<>>
        BY <2>2, <3>1
      <4> QED BY <4>1, <4>2, <4>3, <4>4
    <3>2. CASE g # f
      <4>1. g \in DOMAIN log /\ l[g] = log[g] /\ g \in DOMAIN o /\ O[g] = o[g]
        BY <1>9, <2>3, <2>4, <3>2
      <4>2. /\ log[g] \in Seq(Words) /\ c[o[g].inode] = log[g]
            /\ o[g].writable /\ o[g].offset = Len(log[g])
        BY <1>2, <4>1 DEF FileInv, LogOK
      <4>3. C[o[g].inode] = c[o[g].inode]
        <5>1. o[g].inode \in DOMAIN c
          BY <1>9, <4>1
        <5>2. CASE Emptied(flags)
          <6>1. o[g].inode # name
            BY <2>3, <3>2, <5>2
          <6> QED BY <1>4, <5>1, <6>1
        <5>3. CASE ~Emptied(flags)
          BY <1>4, <5>3
        <5> QED BY <5>2, <5>3
      <4> QED BY <4>1, <4>2, <4>3
    <3> QED BY <3>1, <3>2
  <2>6. ASSUME NEW g \in DOMAIN l, NEW h \in DOMAIN O, O[h].writable, O[h].inode = O[g].inode
        PROVE  h = g
    <3>1. CASE g = f
      <4>1. ASSUME h # f PROVE FALSE
        <5>1. h \in DOMAIN o /\ O[h] = o[h]
          BY <1>9, <4>1
        <5>2. o[h].writable /\ o[h].inode = name
          BY <1>7, <1>9, <2>6, <3>1, <5>1
        <5> QED BY <2>2, <3>1, <5>1, <5>2
      <4> QED BY <3>1, <4>1
    <3>2. CASE g # f
      <4>1. g \in DOMAIN log /\ g \in DOMAIN o /\ O[g] = o[g]
        BY <1>9, <2>3, <2>4, <3>2
      <4>2. CASE h = f
        <5>1. ReadWrite(flags).writable
          BY <1>7, <1>9, <2>6, <4>2, Zenon
        <5>2. o[g].inode # name
          BY <2>3, <3>2, <5>1
        <5>3. O[h].inode = name
          BY <1>7, <1>9, <4>2
        <5> QED BY <2>6, <4>1, <5>2, <5>3
      <4>3. CASE h # f
        <5>1. h \in DOMAIN o /\ O[h] = o[h]
          BY <1>9, <4>3
        <5>2. o[h].writable /\ o[h].inode = o[g].inode
          BY <2>6, <4>1, <5>1
        <5> QED BY <1>2, <4>1, <5>1, <5>2 DEF FileInv, LogOK
      <4> QED BY <4>2, <4>3
    <3> QED BY <3>1, <3>2
  <2>7. DOMAIN l \subseteq DOMAIN O
    BY <1>9, <2>3, <2>4
  <2> QED BY <1>2, <2>1, <2>5, <2>6, <2>7 DEF LogOK
<1> QED BY <1>5, <1>10, <1>17, <1>18, <1>19, <1>20 DEF FileInv

(* What a descriptor stands for.                                            *)
LEMMA FileOfFacts ==
  ASSUME FileInv, NEW t \in Tasks, NEW fd \in Nat, NEW f, f = FileOf(t, fd)
  PROVE  /\ f \in DOMAIN osinode \cup {None, Stdin, Stdout}
         /\ f # None => fd + 1 \in 1 .. Len(fd_table[t])
         /\ fd + 1 \in 1 .. Len(fd_table[t]) => f = fd_table[t][fd + 1]
         /\ DOMAIN osinode \subseteq Nat \ {0}
<1>1. fd_table[t] \in Seq(Int) /\ DOMAIN osinode \subseteq Nat \ {0}
  BY DEF FileInv, EntriesOK, OpenOK
<1>2. PICK len \in Nat : len = Len(fd_table[t])
  BY <1>1
<1>3. CASE fd >= len
  BY <1>1, <1>2, <1>3 DEF FileOf
<1>4. CASE ~(fd >= len)
  <2>1. f = fd_table[t][fd + 1] /\ fd + 1 \in 1 .. len
    BY <1>2, <1>4 DEF FileOf
  <2>2. f \in DOMAIN osinode \cup {None, Stdin, Stdout}
    BY <1>2, <2>1 DEF FileInv, EntriesOK
  <2> QED BY <1>1, <1>2, <2>1, <2>2
<1> QED BY <1>3, <1>4

(* An open file, its inode and its content.                                 *)
LEMMA OpenFileFacts ==
  ASSUME FileInv, NEW f \in DOMAIN osinode
  PROVE  /\ osinode[f] \in OSInodes(DOMAIN content)
         /\ osinode[f].offset \in Nat /\ osinode[f].inode \in DOMAIN content
         /\ content[osinode[f].inode] \in Seq(Words)
<1>1. osinode[f] \in OSInodes(DOMAIN content)
  BY DEF FileInv, OpenOK
<1>2. osinode[f].offset \in Nat /\ osinode[f].inode \in DOMAIN content
  BY <1>1 DEF OSInodes
<1> QED BY <1>1, <1>2 DEF FileInv, ContentOK

(* At the end of the file nothing is read.                                  *)
LEMMA NothingLeft ==
  ASSUME NEW s \in Seq(Words), NEW len \in Nat, NEW r, ReadWhole(r, s, Len(s), len)
  PROVE  r.n = 0
<1>1. PICK n \in Nat : n = Len(s)
  OBVIOUS
<1>2. PICK b \in Int : b = (IF n + len > n THEN n ELSE n + len) /\ b = n
  <2>1. n = IF n + len > n THEN n ELSE n + len
    OBVIOUS
  <2> QED BY <2>1
<1>3. PICK d : d = SubSeq(s, n + 1, b)
  OBVIOUS
<1>4. Len(d) = 0
  <2>1. b >= n => Len(d) = b - n
    BY <1>1, <1>2, <1>3, PartFacts
  <2> QED BY <1>2, <2>1
<1> QED BY <1>1, <1>2, <1>3, <1>4 DEF ReadWhole

(* A write at the end appends.                                              *)
LEMMA WriteAtEnd ==
  ASSUME NEW s \in Seq(Words), NEW data \in Seq(Words)
  PROVE  FS!Overwritten(s, Len(s), data) = s \o data
<1>1. PICK n \in Nat, m \in Nat : n = Len(s) /\ m = Len(data)
  OBVIOUS
<1>2. PICK o, x : o = FS!Overwritten(s, n, data) /\ x = s \o data
  OBVIOUS
<1>3. WrittenAt(o, s, n, data, n, n + m)
  BY <1>1, <1>2, OverwrittenFacts
<1>4. /\ x \in Seq(Words) /\ Len(x) = n + m
      /\ \A i \in 1 .. n : x[i] = s[i]
      /\ \A i \in 1 .. m : x[n + i] = data[i]
  BY <1>1, <1>2, CatFacts
<1>5. o \in Seq(Words) /\ Len(o) = n + m
  <2>1. o \in Seq(Words) /\ Len(o) = IF n + m > n THEN n + m ELSE n
    BY <1>3 DEF WrittenAt
  <2> QED BY <2>1
<1>6. ASSUME NEW i \in 1 .. n + m PROVE o[i] = x[i]
  <2>1. o[i] = IF i > n /\ i <= n + m THEN data[i - n] ELSE IF i <= n THEN s[i] ELSE 0
    BY <1>3, <1>5 DEF WrittenAt
  <2>2. CASE i <= n
    BY <1>4, <2>1, <2>2
  <2>3. CASE i > n
    <3>1. i - n \in 1 .. m /\ n + (i - n) = i
      BY <2>3
    <3>2. x[n + (i - n)] = data[i - n]
      BY <1>4, <3>1
    <3> QED BY <2>1, <2>3, <3>1, <3>2
  <2> QED BY <2>2, <2>3
<1>7. o = x
  BY <1>4, <1>5, <1>6, SameSeq
<1> QED BY <1>1, <1>2, <1>7

(* OSInode::read keeps the invariant.                                       *)
LEMMA ReadStep ==
  ASSUME FileInv, NEW f \in DOMAIN osinode, NEW len \in Nat, NEW r,
         ReadWhole(r, content[osinode[f].inode], osinode[f].offset, len),
         osinode' = [osinode EXCEPT ![f].offset = @ + r.n],
         UNCHANGED <<content, fd_table, status, keys, panic, log>>
  PROVE  FileInv'
<1>1. /\ osinode \in [DOMAIN osinode -> OSInodes(DOMAIN content)]
      /\ DOMAIN osinode \subseteq Nat \ {0} /\ IsFiniteSet(DOMAIN osinode)
  BY DEF FileInv, OpenOK
<1>2. r.n \in Nat
  BY DEF ReadWhole
<1>3. PICK D, N, o, p : D = DOMAIN osinode /\ N = DOMAIN content /\ o = osinode /\ p = osinode'
  OBVIOUS
<1>4. /\ p \in [D -> OSInodes(N)]
      /\ \A g \in D : /\ p[g].readable = o[g].readable /\ p[g].writable = o[g].writable
                      /\ p[g].inode = o[g].inode
                      /\ g # f => p[g] = o[g]
      /\ p[f].offset = o[f].offset + r.n
  <2>1. o \in [D -> OSInodes(N)] /\ f \in D /\ p = [o EXCEPT ![f].offset = @ + r.n]
    BY <1>1, <1>3
  <2> QED BY <1>2, <2>1, OffsetFacts
<1>5. DOMAIN p = D
  BY <1>4
<1>6. ContentOK'
  BY DEF FileInv, ContentOK
<1>7. OpenOK'
  BY <1>1, <1>3, <1>4, <1>5 DEF OpenOK
<1>8. EntriesOK'
  BY <1>3, <1>5 DEF FileInv, EntriesOK
<1>9. StdinOK'
  BY DEF FileInv, StdinOK
<1>10. TasksOK'
  BY DEF FileInv, TasksOK
<1>11. LogOK'
  <2>1. DOMAIN log \subseteq D
    BY <1>3 DEF FileInv, LogOK
  <2>2. ASSUME NEW g \in DOMAIN log
        PROVE  /\ log[g] \in Seq(Words) /\ content[p[g].inode] = log[g]
               /\ p[g].writable /\ p[g].offset = Len(log[g])
    <3>1. /\ log[g] \in Seq(Words) /\ content[o[g].inode] = log[g]
          /\ o[g].writable /\ o[g].offset = Len(log[g])
      BY <1>3 DEF FileInv, LogOK
    <3>2. p[g].inode = o[g].inode /\ p[g].writable
      BY <1>4, <2>1, <3>1
    <3>3. p[g].offset = o[g].offset
      <4>1. CASE g = f
        <5>1. ReadWhole(r, log[f], Len(log[f]), len)
          BY <1>3, <3>1, <4>1
        <5>2. r.n = 0
          BY <3>1, <4>1, <5>1, NothingLeft
        <5>3. o[f].offset \in Nat
          BY <1>3, OpenFileFacts
        <5> QED BY <1>4, <4>1, <5>2, <5>3
      <4>2. CASE g # f
        BY <1>4, <2>1, <4>2
      <4> QED BY <4>1, <4>2
    <3> QED BY <3>1, <3>2, <3>3
  <2>3. ASSUME NEW g \in DOMAIN log, NEW h \in D, p[h].writable, p[h].inode = p[g].inode
        PROVE  h = g
    <3>1. o[h].writable /\ o[h].inode = o[g].inode
      BY <1>4, <2>1, <2>3
    <3> QED BY <1>3, <3>1 DEF FileInv, LogOK
  <2> QED BY <1>3, <1>5, <2>1, <2>2, <2>3 DEF LogOK
<1> QED BY <1>6, <1>7, <1>8, <1>9, <1>10, <1>11 DEF FileInv

(* OSInode::write keeps the invariant.                                      *)
LEMMA WriteStep ==
  ASSUME FileInv, NEW f \in DOMAIN osinode, NEW data \in Seq(Words), osinode[f].writable,
         NEW w, w = IF data = <<>> THEN content[osinode[f].inode]
                    ELSE FS!Overwritten(content[osinode[f].inode], osinode[f].offset, data),
         content' = [content EXCEPT ![osinode[f].inode] = w],
         osinode' = [osinode EXCEPT ![f].offset = @ + Len(data)],
         log' = (IF f \in DOMAIN log THEN [log EXCEPT ![f] = @ \o data] ELSE log),
         UNCHANGED <<fd_table, status, keys, panic>>
  PROVE  FileInv'
<1>1. /\ osinode \in [DOMAIN osinode -> OSInodes(DOMAIN content)]
      /\ DOMAIN osinode \subseteq Nat \ {0} /\ IsFiniteSet(DOMAIN osinode)
  BY DEF FileInv, OpenOK
<1>2. PICK n \in Nat : n = Len(data)
  OBVIOUS
<1>3. PICK D, N, o, p : D = DOMAIN osinode /\ N = DOMAIN content /\ o = osinode /\ p = osinode'
  OBVIOUS
<1>4. /\ p \in [D -> OSInodes(N)]
      /\ \A g \in D : /\ p[g].readable = o[g].readable /\ p[g].writable = o[g].writable
                      /\ p[g].inode = o[g].inode
                      /\ g # f => p[g] = o[g]
      /\ p[f].offset = o[f].offset + n
  <2>1. o \in [D -> OSInodes(N)] /\ f \in D /\ p = [o EXCEPT ![f].offset = @ + n]
    BY <1>1, <1>2, <1>3
  <2> QED BY <2>1, OffsetFacts
<1>5. DOMAIN p = D
  BY <1>4
<1>6. PICK j, s, off : j = o[f].inode /\ s = content[j] /\ off = o[f].offset
  OBVIOUS
<1>7. j \in N /\ s \in Seq(Words) /\ off \in Nat
  BY <1>3, <1>6, OpenFileFacts
<1>8. w = (IF data = <<>> THEN s ELSE FS!Overwritten(s, off, data)) /\ w \in Seq(Words)
  <2>1. w = IF data = <<>> THEN s ELSE FS!Overwritten(s, off, data)
    BY <1>3, <1>6
  <2>2. WrittenAt(FS!Overwritten(s, off, data), s, off, data, Len(s), off + Len(data))
    BY <1>7, OverwrittenFacts
  <2>3. FS!Overwritten(s, off, data) \in Seq(Words)
    BY <2>2 DEF WrittenAt
  <2> QED BY <1>7, <2>1, <2>3
<1>9. PICK C : C = content'
  OBVIOUS
<1>10. /\ C \in [N -> Seq(Words)] /\ DOMAIN C = N /\ C[j] = w
       /\ \A m \in N : m # j => C[m] = content[m]
  <2>1. content \in [N -> Seq(Words)] /\ C = [content EXCEPT ![j] = w]
    BY <1>3, <1>6, <1>9 DEF FileInv, ContentOK
  <2> QED BY <1>7, <1>8, <2>1
<1>11. ContentOK'
  BY <1>3, <1>9, <1>10 DEF FileInv, ContentOK
<1>12. OpenOK'
  BY <1>1, <1>3, <1>4, <1>5, <1>9, <1>10 DEF OpenOK
<1>13. EntriesOK'
  BY <1>3, <1>5, ZenonT(30) DEF FileInv, EntriesOK
<1>14. StdinOK'
  BY DEF FileInv, StdinOK
<1>15. TasksOK'
  BY DEF FileInv, TasksOK
<1>16. LogOK'
  <2>1. PICK l : l = log'
    OBVIOUS
  <2>2. /\ DOMAIN l = DOMAIN log /\ \A g \in DOMAIN log : g # f => l[g] = log[g]
        /\ f \in DOMAIN log => l[f] = log[f] \o data
    BY <2>1
  <2>3. DOMAIN log \subseteq D
    BY <1>3 DEF FileInv, LogOK
  <2>4. ASSUME NEW g \in DOMAIN log
        PROVE  /\ l[g] \in Seq(Words) /\ C[p[g].inode] = l[g]
               /\ p[g].writable /\ p[g].offset = Len(l[g])
    <3>1. /\ log[g] \in Seq(Words) /\ content[o[g].inode] = log[g]
          /\ o[g].writable /\ o[g].offset = Len(log[g])
      BY <1>3 DEF FileInv, LogOK
    <3>2. p[g].inode = o[g].inode /\ p[g].writable /\ g \in D
      BY <1>4, <2>3, <3>1
    <3>3. CASE g = f
      <4>1. s = log[g] /\ off = Len(s)
        BY <1>6, <3>1, <3>3
      <4>2. w = s \o data
        <5>1. CASE data = <<>>
          <6>1. s \o data = s
            BY <1>7, <5>1
          <6> QED BY <1>8, <5>1, <6>1
        <5>2. CASE data # <<>>
          <6>1. FS!Overwritten(s, Len(s), data) = s \o data
            BY <1>7, WriteAtEnd
          <6> QED BY <1>8, <4>1, <5>2, <6>1
        <5> QED BY <5>1, <5>2
      <4>3. l[g] = w
        BY <2>2, <3>3, <4>1, <4>2
      <4>4. Len(w) = off + n
        <5>1. PICK x : x = s \o data
          OBVIOUS
        <5>2. Len(x) = Len(s) + Len(data)
          BY <1>7, <5>1, CatFacts
        <5> QED BY <1>2, <4>1, <4>2, <5>1, <5>2
      <4>5. p[g].offset = off + n /\ p[g].inode = j
        BY <1>4, <1>6, <3>2, <3>3
      <4> QED BY <1>8, <1>10, <3>2, <4>3, <4>4, <4>5
    <3>4. CASE g # f
      <4>1. o[g].inode # j
        <5>1. o[f].writable /\ o[f].inode = j /\ f \in D
          BY <1>3, <1>6
        <5> QED BY <1>3, <3>4, <5>1 DEF FileInv, LogOK
      <4>2. o[g].inode \in N
        BY <1>3, <3>2, OpenFileFacts
      <4>3. C[o[g].inode] = content[o[g].inode]
        BY <1>10, <4>1, <4>2
      <4>4. l[g] = log[g] /\ p[g] = o[g]
        BY <1>4, <2>2, <3>2, <3>4
      <4> QED BY <3>1, <4>3, <4>4
    <3> QED BY <3>3, <3>4
  <2>5. ASSUME NEW g \in DOMAIN log, NEW h \in D, p[h].writable, p[h].inode = p[g].inode
        PROVE  h = g
    <3>1. o[h].writable /\ o[h].inode = o[g].inode
      BY <1>4, <2>3, <2>5
    <3> QED BY <1>3, <3>1 DEF FileInv, LogOK
  <2> QED BY <1>3, <1>5, <1>9, <2>1, <2>2, <2>3, <2>4, <2>5 DEF LogOK
<1> QED BY <1>11, <1>12, <1>13, <1>14, <1>15, <1>16 DEF FileInv

(* A call on an open file is one transfer.                                  *)
LEMMA ReadCases ==
  ASSUME FileInv, NEW t \in Tasks, NEW fd \in Fds, NEW at \in 0 .. PAGE_SIZE - 1,
         NEW len \in Lens, SysRead(t, fd, at, len), NEW f, f = FileOf(t, fd)
  PROVE  \/ /\ ~Readable(f) /\ reply' = Reply("read", t, fd, 0, {}, 0, <<>>, -1)
            /\ UNCHANGED <<kernelVars, log>>
         \/ f = Stdin /\ StdinRead(t, fd, len)
         \/ /\ f \in DOMAIN osinode /\ osinode[f].readable
            /\ \E r : /\ ReadWhole(r, content[osinode[f].inode], osinode[f].offset, len)
                      /\ osinode' = [osinode EXCEPT ![f].offset = @ + r.n]
                      /\ reply' = Reply("read", t, fd, 0, {}, len, r.buf, r.n)
                      /\ UNCHANGED <<content, fd_table, status, keys, panic, log>>
<1>1. CASE ~Readable(f)
  BY <1>1 DEF SysRead
<1>2. CASE f = Stdin
  BY <1>2 DEF SysRead, Readable
<1>3. CASE Readable(f) /\ f # Stdin
  <2>1. f \in DOMAIN osinode /\ osinode[f].readable
    BY <1>3 DEF Readable
  <2>2. PICK s \in Seq(Words), off \in Nat : s = content[osinode[f].inode] /\ off = osinode[f].offset
    BY <2>1, OpenFileFacts
  <2>3. PICK r : r = SlicesRead(s, off, Slices(at, len), len)
    OBVIOUS
  <2>4. len \in Nat
    BY FileTableAssumption
  <2>5. ReadWhole(r, s, off, len)
    BY <2>3, <2>4, ReadIsWhole
  <2>6. /\ osinode' = [osinode EXCEPT ![f].offset = @ + r.n]
        /\ reply' = Reply("read", t, fd, 0, {}, len, r.buf, r.n)
        /\ UNCHANGED <<content, fd_table, status, keys, panic, log>>
    BY <1>3, <2>2, <2>3 DEF SysRead
  <2> QED BY <2>1, <2>2, <2>5, <2>6
<1> QED BY <1>1, <1>2, <1>3

(* data goes to open file f as one transfer at its offset.                  *)
FileWritten(f, data) ==
    /\ f \in DOMAIN osinode /\ osinode[f].writable
    /\ \E w : /\ w = IF data = <<>> THEN content[osinode[f].inode]
                     ELSE FS!Overwritten(content[osinode[f].inode], osinode[f].offset, data)
              /\ content' = [content EXCEPT ![osinode[f].inode] = w]
    /\ osinode' = [osinode EXCEPT ![f].offset = @ + Len(data)]
    /\ log' = (IF f \in DOMAIN log THEN [log EXCEPT ![f] = @ \o data] ELSE log)
    /\ UNCHANGED <<fd_table, status, keys, panic>>

(* The outcomes of sys_write.                                               *)
LEMMA WriteCases ==
  ASSUME FileInv, NEW t \in Tasks, NEW fd \in Fds, NEW at \in 0 .. PAGE_SIZE - 1,
         NEW data \in Texts, SysWrite(t, fd, at, data), NEW f, f = FileOf(t, fd)
  PROVE  \/ /\ ~Writable(f) /\ reply' = Reply("write", t, fd, 0, {}, 0, <<>>, -1)
            /\ UNCHANGED <<kernelVars, log>>
         \/ f = Stdout /\ Stop("utf8", t)
         \/ /\ f = Stdout /\ UNCHANGED <<kernelVars, log>>
            /\ reply' = Reply("write", t, fd, 0, {}, Len(data), data, Len(data))
         \/ /\ FileWritten(f, data)
            /\ reply' = Reply("write", t, fd, 0, {}, Len(data), data, Len(data))
<1>1. CASE ~Writable(f)
  BY <1>1 DEF SysWrite
<1>2. CASE f = Stdout
  <2>1. Writable(f)
    BY <1>2 DEF Writable
  <2> QED BY <1>2, <2>1 DEF SysWrite
<1>3. CASE Writable(f) /\ f # Stdout
  <2>1. f \in DOMAIN osinode /\ osinode[f].writable
    BY <1>3 DEF Writable
  <2>2. PICK s \in Seq(Words), off \in Nat : s = content[osinode[f].inode] /\ off = osinode[f].offset
    BY <2>1, OpenFileFacts
  <2>3. data \in Seq(Words)
    <3>1. Seq(Bytes) \subseteq Seq(Words)
      BY DEF Words
    <3> QED BY <3>1, FileTableAssumption
  <2>4. PICK w : w = SlicesWritten(s, off, Slices(at, Len(data)), data)
    OBVIOUS
  <2>5. w = IF data = <<>> THEN s ELSE FS!Overwritten(s, off, data)
    BY <2>3, <2>4, WriteIsWhole
  <2>6. /\ content' = [content EXCEPT ![osinode[f].inode] = w]
        /\ osinode' = [osinode EXCEPT ![f].offset = @ + Len(data)]
        /\ reply' = Reply("write", t, fd, 0, {}, Len(data), data, Len(data))
        /\ log' = (IF f \in DOMAIN log THEN [log EXCEPT ![f] = @ \o data] ELSE log)
        /\ UNCHANGED <<fd_table, status, keys, panic>>
    BY <1>3, <2>2, <2>4 DEF SysWrite
  <2> QED BY <2>1, <2>2, <2>5, <2>6 DEF FileWritten
<1> QED BY <1>1, <1>2, <1>3

(* Every step keeps the invariant.                                          *)
LEMMA FileStep == FileInv /\ [Next]_vars => FileInv'
<1> SUFFICES ASSUME FileInv, [Next]_vars PROVE FileInv'
  OBVIOUS
<1>1. keys \in Nat /\ panic \in {"none", "flags", "stdin_len", "utf8"}
      /\ status \in [Tasks -> {"unused", "live", "reading", "zombie"}]
      /\ fd_table \in [Tasks -> Seq(Int)]
  BY DEF FileInv, TasksOK, EntriesOK
<1>2. CASE UNCHANGED vars
  <2>1. keys' \in Nat /\ panic' \in {"none", "flags", "stdin_len", "utf8"}
        /\ UNCHANGED <<content, osinode, fd_table, status, log>>
    BY <1>1, <1>2 DEF vars
  <2> QED BY <2>1, QuietStep
<1>3. ASSUME UNCHANGED <<kernelVars, log>> PROVE FileInv'
  <2>1. keys' \in Nat /\ panic' \in {"none", "flags", "stdin_len", "utf8"}
        /\ UNCHANGED <<content, osinode, fd_table, status, log>>
    BY <1>1, <1>3 DEF kernelVars
  <2> QED BY <2>1, QuietStep
<1>4. ASSUME NEW cause \in {"flags", "stdin_len", "utf8"}, NEW t, Stop(cause, t) PROVE FileInv'
  <2>1. keys' \in Nat /\ panic' \in {"none", "flags", "stdin_len", "utf8"}
        /\ UNCHANGED <<content, osinode, fd_table, status, log>>
    BY <1>1, <1>4 DEF Stop
  <2> QED BY <2>1, QuietStep
<1>5. ASSUME NEW t \in Tasks, NEW name \in Names, SysExec(t, name) PROVE FileInv'
  BY <1>3, <1>5 DEF SysExec
<1>6. ASSUME NEW t \in Tasks, NEW name \in Names, NEW flags, SysOpen(t, name, flags) PROVE FileInv'
  <2>1. CASE /\ UNCHANGED <<content, osinode, fd_table, status, keys, log>>
             /\ panic' = "flags" \/ UNCHANGED panic
    <3>1. keys' \in Nat /\ panic' \in {"none", "flags", "stdin_len", "utf8"}
          /\ UNCHANGED <<content, osinode, fd_table, status, log>>
      BY <1>1, <2>1
    <3> QED BY <3>1, QuietStep
  <2>2. CASE \E f, fd : OpenTakes(t, name, flags, f, fd) /\ OpenLogs(name, flags, f)
    BY <2>2, OpenStep
  <2> QED BY <1>6, <2>1, <2>2, OpenCases
<1>7. ASSUME NEW t \in Tasks, NEW fd \in Closed, SysClose(t, fd) PROVE FileInv'
  <2>1. /\ fd_table' = IF FileOf(t, fd) # None THEN [fd_table EXCEPT ![t][fd + 1] = None] ELSE fd_table
        /\ osinode' = Collected(osinode, fd_table') /\ log' = Collected(log, fd_table')
        /\ UNCHANGED <<content, status, keys, panic>> /\ status[t] = "live"
    BY <1>7 DEF SysClose, Running
  <2>2. fd \in Nat
    BY FileTableAssumption
  <2>3. PICK s \in Seq(Int) : s = fd_table[t]
    BY <1>1
  <2>4. PICK v \in Seq(Int) : /\ fd_table' = [fd_table EXCEPT ![t] = v]
                              /\ \A i \in 1 .. Len(v) : v[i] = None \/ (i \in 1 .. Len(s) /\ v[i] = s[i])
    <3>1. CASE FileOf(t, fd) # None
      <4>1. fd + 1 \in 1 .. Len(s)
        BY <2>2, <2>3, <3>1, FileOfFacts
      <4>2. PICK v : v = [s EXCEPT ![fd + 1] = None]
        OBVIOUS
      <4>3. /\ v \in Seq(Int) /\ Len(v) = Len(s)
            /\ \A i \in 1 .. Len(s) : v[i] = None \/ v[i] = s[i]
        BY <4>1, <4>2 DEF None
      <4>4. fd_table' = [fd_table EXCEPT ![t] = v]
        BY <2>1, <2>3, <3>1, <4>2
      <4> QED BY <4>3, <4>4
    <3>2. CASE FileOf(t, fd) = None
      <4>1. fd_table' = [fd_table EXCEPT ![t] = s]
        BY <1>1, <2>1, <2>3, <3>2
      <4> QED BY <4>1
    <3> QED BY <3>1, <3>2
  <2>5. fd_table' \in [Tasks -> Seq(Int)] /\ \A u \in Tasks : fd_table'[u] = IF u = t THEN v ELSE fd_table[u]
    BY <1>1, <2>4
  <2>6. \A u \in Tasks : \A i \in 1 .. Len(fd_table'[u]) :
            \/ fd_table'[u][i] = None
            \/ i \in 1 .. Len(fd_table[u]) /\ fd_table'[u][i] = fd_table[u][i]
    BY <2>3, <2>4, <2>5
  <2>7. status' \in [Tasks -> {"unused", "live", "reading", "zombie"}] /\ UNCHANGED <<content, keys, panic>>
    BY <1>1, <2>1
  <2>8. \A u \in Tasks : status'[u] = "unused" => fd_table'[u] = <<>>
    BY <2>1, <2>5 DEF FileInv, TasksOK
  <2>9. \A u \in Tasks : status'[u] = "reading" => status[u] = "reading" /\ fd_table'[u] = fd_table[u]
    BY <2>1, <2>5
  <2> QED BY <2>1, <2>5, <2>6, <2>7, <2>8, <2>9, DropStep
<1>8. ASSUME NEW t \in Tasks, NEW fd \in Fds, NEW at \in 0 .. PAGE_SIZE - 1, NEW len \in Lens,
             SysRead(t, fd, at, len)
      PROVE  FileInv'
  <2>1. PICK f : f = FileOf(t, fd)
    OBVIOUS
  <2>2. CASE UNCHANGED <<kernelVars, log>>
    BY <1>3, <2>2
  <2>3. CASE f = Stdin /\ StdinRead(t, fd, len)
    <3>1. CASE Stop("stdin_len", t)
      BY <1>4, <3>1
    <3>2. CASE keys = 0 /\ Suspend(t)
      <4>1. status' = [status EXCEPT ![t] = "reading"] /\ UNCHANGED <<content, osinode, fd_table, keys, panic, log>>
        BY <3>2 DEF Suspend, HeldWhileReading
      <4>2. fd \in Nat
        BY FileTableAssumption
      <4>3. fd + 1 \in 1 .. Len(fd_table[t]) /\ fd_table[t][fd + 1] = Stdin
        <5>1. f # None
          BY <2>3 DEF None, Stdin
        <5> QED BY <2>1, <2>3, <4>2, <5>1, FileOfFacts
      <4>4. fd + 1 = 1
        BY <4>3 DEF FileInv, StdinOK
      <4>5. Len(fd_table[t]) >= 1 /\ fd_table[t][1] = Stdin
        <5>1. Len(fd_table[t]) \in Nat
          BY <1>1
        <5>2. 1 \in 1 .. Len(fd_table[t]) /\ fd_table[t][1] = Stdin
          BY <4>3, <4>4
        <5> QED BY <5>1, <5>2
      <4>6. keys' \in Nat /\ UNCHANGED <<content, osinode, fd_table, panic, log>>
        BY <1>1, <4>1
      <4> QED BY <4>1, <4>5, <4>6, StatusStep
    <3>3. CASE keys # 0 /\ keys' = keys - 1 /\ UNCHANGED <<content, osinode, fd_table, status, panic, log>>
      <4>1. keys' \in Nat /\ panic' \in {"none", "flags", "stdin_len", "utf8"}
            /\ UNCHANGED <<content, osinode, fd_table, status, log>>
        BY <1>1, <3>3
      <4> QED BY <4>1, QuietStep
    <3> QED BY <2>3, <3>1, <3>2, <3>3 DEF StdinRead
  <2>4. CASE f \in DOMAIN osinode
             /\ \E r : /\ ReadWhole(r, content[osinode[f].inode], osinode[f].offset, len)
                       /\ osinode' = [osinode EXCEPT ![f].offset = @ + r.n]
                       /\ UNCHANGED <<content, fd_table, status, keys, panic, log>>
    <3>1. len \in Nat
      BY FileTableAssumption
    <3> QED BY <2>4, <3>1, ReadStep
  <2> QED BY <1>8, <2>1, <2>2, <2>3, <2>4, ReadCases
<1>9. ASSUME NEW t \in Tasks, NEW fd \in Fds, NEW at \in 0 .. PAGE_SIZE - 1, NEW data \in Texts,
             SysWrite(t, fd, at, data)
      PROVE  FileInv'
  <2>1. PICK f : f = FileOf(t, fd)
    OBVIOUS
  <2>2. CASE UNCHANGED <<kernelVars, log>>
    BY <1>3, <2>2
  <2>3. CASE Stop("utf8", t)
    BY <1>4, <2>3
  <2>4. CASE FileWritten(f, data)
    <3>1. data \in Seq(Words)
      <4>1. Seq(Bytes) \subseteq Seq(Words)
        BY DEF Words
      <4> QED BY <4>1, FileTableAssumption
    <3>2. PICK w : /\ w = IF data = <<>> THEN content[osinode[f].inode]
                          ELSE FS!Overwritten(content[osinode[f].inode], osinode[f].offset, data)
                   /\ content' = [content EXCEPT ![osinode[f].inode] = w]
      BY <2>4 DEF FileWritten
    <3>3. /\ f \in DOMAIN osinode /\ osinode[f].writable
          /\ osinode' = [osinode EXCEPT ![f].offset = @ + Len(data)]
          /\ log' = (IF f \in DOMAIN log THEN [log EXCEPT ![f] = @ \o data] ELSE log)
          /\ UNCHANGED <<fd_table, status, keys, panic>>
      BY <2>4 DEF FileWritten
    <3> QED BY <3>1, <3>2, <3>3, WriteStep
  <2> QED BY <1>9, <2>1, <2>2, <2>3, <2>4, WriteCases
<1>10. ASSUME NEW t \in Tasks, NEW c \in Tasks, Fork(t, c) PROVE FileInv'
  BY <1>10, ForkStep
<1>11. ASSUME NEW t \in Tasks, StdinWakes(t) PROVE FileInv'
  <2>1. keys' \in Nat /\ status' = [status EXCEPT ![t] = "live"]
        /\ UNCHANGED <<content, osinode, fd_table, panic, log>>
    BY <1>1, <1>11 DEF StdinWakes
  <2> QED BY <2>1, StatusStep
<1>12. ASSUME NEW t \in Tasks, Exit(t) PROVE FileInv'
  <2>1. keys' \in Nat /\ status' = [status EXCEPT ![t] = "zombie"]
        /\ UNCHANGED <<content, osinode, fd_table, panic, log>>
    BY <1>1, <1>12 DEF Exit
  <2> QED BY <2>1, StatusStep
<1>13. ASSUME NEW t \in Tasks, Reap(t) PROVE FileInv'
  <2>1. /\ fd_table' = [fd_table EXCEPT ![t] = <<>>]
        /\ osinode' = Collected(osinode, fd_table') /\ log' = Collected(log, fd_table')
        /\ status' = [status EXCEPT ![t] = "unused"] /\ UNCHANGED <<content, keys, panic>>
    BY <1>13 DEF Reap
  <2>2. <<>> \in Seq(Int)
    OBVIOUS
  <2>3. fd_table' \in [Tasks -> Seq(Int)] /\ \A u \in Tasks : fd_table'[u] = IF u = t THEN <<>> ELSE fd_table[u]
    BY <1>1, <2>1, <2>2
  <2>4. /\ status' \in [Tasks -> {"unused", "live", "reading", "zombie"}]
        /\ \A u \in Tasks : status'[u] = IF u = t THEN "unused" ELSE status[u]
    BY <1>1, <2>1
  <2>5. \A u \in Tasks : \A i \in 1 .. Len(fd_table'[u]) :
            \/ fd_table'[u][i] = None
            \/ i \in 1 .. Len(fd_table[u]) /\ fd_table'[u][i] = fd_table[u][i]
    BY <2>3
  <2>6. \A u \in Tasks : status'[u] = "unused" => fd_table'[u] = <<>>
    BY <2>3, <2>4 DEF FileInv, TasksOK
  <2>7. \A u \in Tasks : status'[u] = "reading" => status[u] = "reading" /\ fd_table'[u] = fd_table[u]
    BY <2>3, <2>4
  <2> QED BY <2>1, <2>3, <2>4, <2>5, <2>6, <2>7, DropStep
<1>14. CASE KeyPressed
  <2>1. keys' \in Nat /\ panic' \in {"none", "flags", "stdin_len", "utf8"}
        /\ UNCHANGED <<content, osinode, fd_table, status, log>>
    BY <1>1, <1>14 DEF KeyPressed
  <2> QED BY <2>1, QuietStep
<1>15. CASE Next
  BY <1>5, <1>6, <1>7, <1>8, <1>9, <1>10, <1>11, <1>12, <1>13, <1>14, <1>15 DEF Next
<1> QED BY <1>2, <1>15

(* The invariant of the tables, the open files and the histories holds in   *)
(* every state.                                                             *)
THEOREM FileInvariance == Spec => []FileInv
<1>1. Init => FileInv
  BY FileInit
<1>2. FileInv /\ [Next]_vars => FileInv'
  BY FileStep
<1> QED BY <1>1, <1>2, PTL DEF Spec

(* No descriptor stands for a file that was dropped, no open file for one   *)
(* that does not exist, and no read of stdin fails on a borrow, for any     *)
(* number of tasks, files and open files.                                   *)
THEOREM TablesConsistentCorrect == Spec => []TablesConsistent
<1>1. FileInv => TablesConsistent
  <2> SUFFICES ASSUME FileInv PROVE TablesConsistent
    OBVIOUS
  <2>1. \A n \in DOMAIN content : n \in Names /\ content[n] \in Seq(Bytes \cup {0})
    BY DEF FileInv, ContentOK, Words
  <2>2. \A f \in DOMAIN osinode :
         osinode[f] \in [readable : BOOLEAN, writable : BOOLEAN, offset : Nat,
                         inode : DOMAIN content]
    <3>1. \A f \in DOMAIN osinode : osinode[f] \in OSInodes(DOMAIN content)
      BY DEF FileInv, OpenOK
    <3> QED BY <3>1, Zenon DEF OSInodes
  <2>3. ASSUME NEW t \in Tasks
        PROVE  Range(fd_table[t]) \subseteq DOMAIN osinode \cup {None, Stdin, Stdout}
    <3>1. fd_table[t] \in Seq(Int)
      BY DEF FileInv, EntriesOK
    <3>2. DOMAIN fd_table[t] = 1 .. Len(fd_table[t])
      BY <3>1
    <3>3. \A i \in DOMAIN fd_table[t] : fd_table[t][i] \in DOMAIN osinode \cup {None, Stdin, Stdout}
      BY <3>2 DEF FileInv, EntriesOK
    <3> QED BY <3>3, Zenon DEF Range
  <2>4. status \in [Tasks -> {"unused", "live", "reading", "zombie"}] /\ keys \in Nat
        /\ panic \in {"none", "flags", "stdin_len", "utf8"}
    BY DEF FileInv, TasksOK
  <2> QED BY <2>1, <2>2, <2>3, <2>4 DEF TablesConsistent, TypeOK, NoDoubleBorrow
<1> QED BY <1>1, FileInvariance, PTL

(* What processes write through descriptors they share ends up one behind   *)
(* the other, in the order of their calls, for buffers of any length that   *)
(* cross any number of pages of any size.                                   *)
THEOREM AppendCorrect == Spec => []ForkedWritersAppend
<1>1. FileInv => ForkedWritersAppend
  BY DEF FileInv, LogOK, ForkedWritersAppend
<1> QED BY <1>1, FileInvariance, PTL

-----------------------------------------------------------------------------
(* The calls implement OpenFiles.                                           *)

(* OpenFiles and FileTable overwrite bytes in the same way.                 *)
LEMMA SameOverwritten ==
  ASSUME NEW s, NEW off, NEW d
  PROVE  Files!FS!Overwritten(s, off, d) = FS!Overwritten(s, off, d)
BY DEF Files!FS!Overwritten, FS!Overwritten

(* d is the descriptors of table s, which has len entries.                  *)
Describes(d, s, len) ==
    /\ \A n : n \in DOMAIN d <=> (n \in 0 .. len - 1 /\ s[n + 1] # None)
    /\ \A n \in DOMAIN d : d[n] = s[n + 1]
    /\ d = [n \in DOMAIN d |-> d[n]]

(* The descriptors of a table.                                              *)
LEMMA DescriptorFacts ==
  ASSUME NEW s, NEW d, d = DescriptorsOf(s)
  PROVE  Describes(d, s, Len(s))
BY DEF DescriptorsOf, Describes

(* A table with a new entry.                                                *)
LEMMA DescriptorAdded ==
  ASSUME NEW s \in Seq(Int), NEW fd \in Nat, fd <= Len(s), NEW f \in Nat \ {0},
         NEW v, v = IF fd = Len(s) THEN Append(s, f) ELSE [s EXCEPT ![fd + 1] = f]
  PROVE  DescriptorsOf(v) = Files!Changed(DescriptorsOf(s), fd, f)
<1>1. PICK d, e : d = DescriptorsOf(s) /\ e = DescriptorsOf(v)
  OBVIOUS
<1>2. /\ v \in Seq(Int) /\ Len(v) = (IF fd = Len(s) THEN Len(s) + 1 ELSE Len(s))
      /\ fd + 1 \in 1 .. Len(v) /\ v[fd + 1] = f
      /\ \A i \in 1 .. Len(v) : i # fd + 1 => i \in 1 .. Len(s) /\ v[i] = s[i]
      /\ \A i \in 1 .. Len(s) : i \in 1 .. Len(v)
  <2>1. f \in Int
    OBVIOUS
  <2> QED BY <2>1, SlotFacts
<1>3. PICK m \in Nat, k \in Nat : m = Len(s) /\ k = Len(v)
  BY <1>2
<1>4. Describes(d, s, m)
  BY <1>1, <1>3, DescriptorFacts
<1>5. Describes(e, v, k)
  BY <1>1, <1>3, DescriptorFacts
<1> USE DEF Describes
<1>6. f # None
  BY DEF None
<1>7. ASSUME NEW n PROVE n \in DOMAIN e <=> (n \in DOMAIN d \/ n = fd)
  <2>1. CASE n = fd
    <3>1. fd \in 0 .. k - 1
      BY <1>2, <1>3
    <3> QED BY <1>2, <1>5, <1>6, <2>1, <3>1
  <2>2. CASE n # fd
    <3>1. ASSUME n \in DOMAIN e PROVE n \in DOMAIN d
      <4>1. n \in 0 .. k - 1 /\ v[n + 1] # None
        BY <1>5, <3>1
      <4>2. n + 1 \in 1 .. k /\ n + 1 # fd + 1
        BY <2>2, <4>1
      <4>3. n + 1 \in 1 .. m /\ v[n + 1] = s[n + 1]
        BY <1>2, <1>3, <4>2
      <4>4. n \in 0 .. m - 1 /\ s[n + 1] # None
        <5>1. n \in Int /\ 0 <= n
          BY <4>1
        <5>2. n + 1 <= m
          BY <4>3
        <5>3. n \in 0 .. m - 1
          BY <5>1, <5>2
        <5>4. s[n + 1] # None
          BY <4>1, <4>3, Zenon
        <5> QED BY <5>3, <5>4
      <4> QED BY <1>4, <4>4, Zenon
    <3>2. ASSUME n \in DOMAIN d PROVE n \in DOMAIN e
      <4>1. n \in 0 .. m - 1 /\ s[n + 1] # None
        BY <1>4, <3>2
      <4>2. n + 1 \in 1 .. m /\ n + 1 # fd + 1
        BY <2>2, <4>1
      <4>3. n + 1 \in 1 .. k
        BY <1>2, <1>3, <4>2
      <4>4. v[n + 1] = s[n + 1]
        BY <1>2, <1>3, <4>2, <4>3
      <4>5. n \in 0 .. k - 1 /\ v[n + 1] # None
        <5>1. n \in Int /\ 0 <= n
          BY <4>1
        <5>2. n + 1 <= k
          BY <4>3
        <5>3. n \in 0 .. k - 1
          BY <5>1, <5>2
        <5>4. v[n + 1] # None
          BY <4>1, <4>4, Zenon
        <5> QED BY <5>3, <5>4
      <4> QED BY <1>5, <4>5, Zenon
    <3> QED BY <2>2, <3>1, <3>2
  <2> QED BY <2>1, <2>2
<1>8. ASSUME NEW n \in DOMAIN e PROVE e[n] = IF n = fd THEN f ELSE d[n]
  <2>1. CASE n = fd
    BY <1>2, <1>5, <2>1
  <2>2. CASE n # fd
    <3>1. n \in DOMAIN d /\ e[n] = v[n + 1] /\ d[n] = s[n + 1]
      BY <1>4, <1>5, <1>7, <2>2
    <3>2. n \in 0 .. k - 1
      BY <1>5
    <3>3. n + 1 \in 1 .. k /\ n + 1 # fd + 1
      BY <2>2, <3>2
    <3>4. v[n + 1] = s[n + 1]
      BY <1>2, <1>3, <3>3
    <3> QED BY <2>2, <3>1, <3>4
  <2> QED BY <2>1, <2>2
<1>9. DOMAIN e = DOMAIN d \cup {fd}
  BY <1>7
<1>10. e = [n \in DOMAIN d \cup {fd} |-> IF n = fd THEN f ELSE d[n]]
  BY <1>5, <1>8, <1>9
<1> QED BY <1>1, <1>10 DEF Files!Changed

(* v is table s with entry i emptied; w is d without descriptor fd.         *)
EntryDropped(v, s, i) == v = [s EXCEPT ![i] = None]

Without(w, d, fd) == w = [n \in DOMAIN d \ {fd} |-> d[n]]

(* A table without one of its entries.                                      *)
LEMMA DescriptorRemoved ==
  ASSUME NEW s \in Seq(Int), NEW fd \in Nat, fd + 1 \in 1 .. Len(s),
         NEW v, EntryDropped(v, s, fd + 1), NEW d, d = DescriptorsOf(s)
  PROVE  Without(DescriptorsOf(v), d, fd)
<1>1. PICK e : e = DescriptorsOf(v)
  OBVIOUS
<1>2. PICK m \in Nat : m = Len(s)
  OBVIOUS
<1>3. /\ v \in Seq(Int) /\ Len(v) = m /\ v[fd + 1] = None
      /\ \A i \in 1 .. m : i # fd + 1 => v[i] = s[i]
  BY <1>2 DEF None, EntryDropped
<1>4. Describes(d, s, m)
  BY <1>2, DescriptorFacts
<1>5. Describes(e, v, m)
  BY <1>1, <1>3, DescriptorFacts
<1> USE DEF Describes
<1>6. ASSUME NEW n \in 0 .. m - 1, n # fd PROVE v[n + 1] = s[n + 1]
  <2>1. n + 1 \in 1 .. m /\ n + 1 # fd + 1
    BY <1>6
  <2> QED BY <1>3, <2>1
<1>7. DOMAIN e = DOMAIN d \ {fd}
  <2>1. ASSUME NEW n PROVE n \in DOMAIN e <=> (n \in DOMAIN d /\ n # fd)
    <3>1. CASE n = fd
      BY <1>3, <1>5, <3>1
    <3>2. CASE n # fd /\ n \in 0 .. m - 1
      <4>1. v[n + 1] = s[n + 1]
        BY <1>6, <3>2
      <4>2. n \in DOMAIN e <=> v[n + 1] # None
        BY <1>5, <3>2, Zenon
      <4>3. n \in DOMAIN d <=> s[n + 1] # None
        BY <1>4, <3>2, Zenon
      <4> QED BY <3>2, <4>1, <4>2, <4>3
    <3>3. CASE n \notin 0 .. m - 1
      BY <1>4, <1>5, <3>3, Zenon
    <3> QED BY <3>1, <3>2, <3>3
  <2> QED BY <2>1
<1>8. \A n \in DOMAIN e : e[n] = d[n]
  BY <1>4, <1>5, <1>6, <1>7
<1>9. e = [n \in DOMAIN d \ {fd} |-> d[n]]
  BY <1>5, <1>7, <1>8
<1> QED BY <1>1, <1>9 DEF Without

(* The files descriptors name.                                              *)
LEMMA NamedFacts ==
  ASSUME NEW D
  PROVE  \A f : f \in Files!Named(D) <=> \E t \in DOMAIN D : \E n \in DOMAIN D[t] : D[t][n] = f
<1> SUFFICES ASSUME NEW f
             PROVE  f \in Files!Named(D) <=> \E t \in DOMAIN D : \E n \in DOMAIN D[t] : D[t][n] = f
  OBVIOUS
<1>1. PICK M : M = {{D[t][n] : n \in DOMAIN D[t]} : t \in DOMAIN D}
  OBVIOUS
<1>2. f \in Files!Named(D) <=> \E S \in M : f \in S
  BY <1>1 DEF Files!Named
<1>3. ASSUME NEW S \in M, f \in S PROVE \E t \in DOMAIN D : \E n \in DOMAIN D[t] : D[t][n] = f
  <2>1. PICK t \in DOMAIN D : S = {D[t][n] : n \in DOMAIN D[t]}
    BY <1>1, <1>3
  <2> QED BY <1>3, <2>1
<1>4. ASSUME NEW t \in DOMAIN D, NEW n \in DOMAIN D[t], D[t][n] = f PROVE \E S \in M : f \in S
  <2>1. PICK S : S = {D[t][i] : i \in DOMAIN D[t]}
    OBVIOUS
  <2>2. S \in M
    BY <1>1, <2>1
  <2>3. f \in S
    BY <1>4, <2>1
  <2> QED BY <2>2, <2>3
<1> QED BY <1>2, <1>3, <1>4

(* The open files that descriptors name are the ones tables hold.           *)
LEMMA KeptIsCollected ==
  ASSUME NEW tab \in [Tasks -> Seq(Int)], NEW L \in SUBSET Tasks,
         \A u \in Tasks \ L : tab[u] = <<>>,
         NEW D, DOMAIN D = L, \A t \in L : D[t] = DescriptorsOf(tab[t]),
         NEW o, DOMAIN o \subseteq Nat \ {0}
  PROVE  Files!Kept(o, D) = Collected(o, tab)
<1>1. DOMAIN D = L /\ \A t \in L : D[t] = DescriptorsOf(tab[t])
  OBVIOUS
<1>2. \A f : f \in Files!Named(D) <=> \E t \in L : \E n \in DOMAIN D[t] : D[t][n] = f
  <2>1. \A f : f \in Files!Named(D) <=> \E t \in DOMAIN D : \E n \in DOMAIN D[t] : D[t][n] = f
    BY NamedFacts, Zenon
  <2> QED BY <1>1, <2>1
<1>3. \A f : f \in Referenced(tab) <=>
        \E t \in Tasks : \E i \in 1 .. Len(tab[t]) : tab[t][i] = f
  BY ReferencedFacts
<1>4. ASSUME NEW f \in DOMAIN o PROVE f \in Files!Named(D) <=> f \in Referenced(tab)
  <2>1. ASSUME f \in Files!Named(D) PROVE f \in Referenced(tab)
    <3>1. PICK t \in L : \E n \in DOMAIN D[t] : D[t][n] = f
      BY <1>2, <2>1
    <3>2. PICK n \in DOMAIN D[t] : D[t][n] = f
      BY <3>1
    <3>3. PICK s, d : s \in Seq(Int) /\ s = tab[t] /\ d = D[t]
      OBVIOUS
    <3>4. d = DescriptorsOf(s)
      BY <1>1, <3>3
    <3>5. Describes(d, s, Len(s))
      BY <3>4, DescriptorFacts
    <3>6. n \in 0 .. Len(s) - 1 /\ s[n + 1] = f
      BY <3>2, <3>3, <3>5 DEF Describes
    <3>7. n + 1 \in 1 .. Len(s)
      <4>1. Len(s) \in Nat
        BY <3>3
      <4> QED BY <3>6, <4>1
    <3> QED BY <1>3, <3>3, <3>6, <3>7
  <2>2. ASSUME f \in Referenced(tab) PROVE f \in Files!Named(D)
    <3>1. PICK t \in Tasks : \E i \in 1 .. Len(tab[t]) : tab[t][i] = f
      BY <1>3, <2>2
    <3>2. PICK i \in 1 .. Len(tab[t]) : tab[t][i] = f
      BY <3>1
    <3>3. t \in L
      BY <3>2
    <3>4. PICK s, d : s \in Seq(Int) /\ s = tab[t] /\ d = D[t]
      OBVIOUS
    <3>5. d = DescriptorsOf(s)
      BY <1>1, <3>3, <3>4
    <3>6. Describes(d, s, Len(s))
      BY <3>5, DescriptorFacts
    <3>7. i - 1 \in 0 .. Len(s) - 1 /\ (i - 1) + 1 = i /\ f # None
      <4>1. Len(s) \in Nat
        BY <3>4
      <4> QED BY <3>2, <3>4, <4>1 DEF None
    <3>8. i - 1 \in DOMAIN d /\ d[i - 1] = f
      <4>1. PICK n : n = i - 1
        OBVIOUS
      <4>2. n \in 0 .. Len(s) - 1 /\ s[n + 1] = f /\ s[n + 1] # None
        BY <3>2, <3>4, <3>7, <4>1
      <4>3. n \in DOMAIN d
        BY <3>6, <4>2, Zenon DEF Describes
      <4>4. d[n] = s[n + 1]
        BY <3>6, <4>3, Zenon DEF Describes
      <4> QED BY <4>1, <4>2, <4>3, <4>4
    <3> QED BY <1>2, <3>3, <3>4, <3>8
  <2> QED BY <2>1, <2>2
<1>5. DOMAIN o \cap Files!Named(D) = DOMAIN o \cap Referenced(tab)
  BY <1>4
<1> QED BY <1>5, Zenon DEF Files!Kept, Collected

(* The descriptors before and after a step.                                 *)
LEMMA ViewFacts ==
  /\ DOMAIN Descriptors = Live /\ Descriptors = [u \in Live |-> Descriptors[u]]
  /\ \A u \in Live : Descriptors[u] = DescriptorsOf(fd_table[u])
  /\ DOMAIN Descriptors' = Live' /\ Descriptors' = [u \in Live' |-> Descriptors'[u]]
  /\ \A u \in Live' : Descriptors'[u] = DescriptorsOf(fd_table'[u])
BY DEF Descriptors

(* A step that leaves the tables alone leaves the descriptors alone.        *)
LEMMA SameView ==
  ASSUME fd_table' = fd_table, Live' = Live
  PROVE  Descriptors' = Descriptors
BY DEF Descriptors

(* What an answer says.                                                     *)
LEMMA ReplyFacts ==
  ASSUME NEW op, NEW t, NEW fd, NEW name, NEW flags, NEW len, NEW data, NEW res,
         NEW r, r = Reply(op, t, fd, name, flags, len, data, res)
  PROVE  /\ r.op = op /\ r.task = t /\ r.fd = fd /\ r.name = name /\ r.flags = flags
         /\ r.len = len /\ r.data = data /\ r.res = res
BY DEF Reply

(* Every open file is in some table.                                        *)
LEMMA AllCollected ==
  ASSUME FileInv
  PROVE  Collected(osinode, fd_table) = osinode
<1>1. fd_table \in [Tasks -> Seq(Int)]
  BY DEF FileInv, EntriesOK
<1>2. \A f : f \in Referenced(fd_table) <=>
        \E t \in Tasks : \E i \in 1 .. Len(fd_table[t]) : fd_table[t][i] = f
  BY <1>1, ReferencedFacts
<1>3. DOMAIN osinode \cap Referenced(fd_table) = DOMAIN osinode
  BY <1>2 DEF FileInv, EntriesOK
<1>4. osinode = [f \in DOMAIN osinode |-> osinode[f]]
  BY DEF FileInv, OpenOK
<1> QED BY <1>3, <1>4 DEF Collected

(* The initial state is one of OpenFiles.                                   *)
LEMMA InitIsOpenInit == Init => Files!OpenInit
<1> SUFFICES ASSUME Init PROVE Files!OpenInit
  OBVIOUS
<1>1. InitTask \in Tasks
  BY FileTableAssumption
<1>2. Live = {InitTask} /\ fd_table[InitTask] = StdTable
  BY <1>1 DEF Init, Live
<1>3. Descriptors = [t \in {InitTask} |-> DescriptorsOf(StdTable)]
  BY <1>2, ViewFacts
<1>4. reply.op = "none"
  BY ReplyFacts DEF Init
<1> QED BY <1>3, <1>4 DEF Init, Files!OpenInit

(* A call that a live task makes.                                           *)
LEMMA CallerFacts ==
  ASSUME FileInv, NEW t \in Tasks, status[t] # "unused"
  PROVE  /\ t \in Live /\ t \in DOMAIN Descriptors /\ fd_table[t] \in Seq(Int)
         /\ Describes(Descriptors[t], fd_table[t], Len(fd_table[t]))
<1>1. t \in Live
  BY DEF Live
<1>2. fd_table[t] \in Seq(Int)
  BY DEF FileInv, EntriesOK
<1>3. t \in DOMAIN Descriptors /\ Descriptors[t] = DescriptorsOf(fd_table[t])
  BY <1>1, ViewFacts
<1>4. Describes(Descriptors[t], fd_table[t], Len(fd_table[t]))
  BY <1>3, DescriptorFacts
<1> QED BY <1>1, <1>2, <1>3, <1>4

(* The file a descriptor names.                                             *)
LEMMA NamedByFd ==
  ASSUME FileInv, NEW t \in Tasks, status[t] # "unused", NEW fd \in Nat
  PROVE  /\ fd \in DOMAIN Descriptors[t] <=> FileOf(t, fd) # None
         /\ fd \in DOMAIN Descriptors[t] => Descriptors[t][fd] = FileOf(t, fd)
<1>1. PICK d, s, f : d = Descriptors[t] /\ s = fd_table[t] /\ f = FileOf(t, fd)
  OBVIOUS
<1>2. s \in Seq(Int) /\ Describes(d, s, Len(s))
  BY <1>1, CallerFacts
<1>3. PICK len \in Nat : len = Len(s)
  BY <1>2
<1>4. /\ f # None => fd + 1 \in 1 .. len
      /\ fd + 1 \in 1 .. len => f = s[fd + 1]
  BY <1>1, <1>3, FileOfFacts
<1>5. fd + 1 \in 1 .. len <=> fd \in 0 .. len - 1
  OBVIOUS
<1>6. fd \in DOMAIN d <=> (fd \in 0 .. len - 1 /\ s[fd + 1] # None)
  BY <1>2, <1>3 DEF Describes
<1>7. fd \in DOMAIN d => d[fd] = s[fd + 1]
  BY <1>2 DEF Describes
<1> QED BY <1>1, <1>4, <1>5, <1>6, <1>7

(* sys_open is Open.                                                        *)
LEMMA OpenIsOpen ==
  ASSUME FileInv, NEW t \in Tasks, NEW name \in Names, NEW flags, SysOpen(t, name, flags)
  PROVE  Files!OpenNext
<1>1. status[t] # "unused"
  BY DEF SysOpen, Running
<1>2. t \in Live /\ t \in DOMAIN Descriptors
  BY <1>1, CallerFacts
<1>3. CASE /\ UNCHANGED <<content, osinode, fd_table, status, keys, log>>
           /\ reply' = Reply("panic", t, 0, 0, {}, 0, <<>>, 0)
  <2>1. Descriptors' = Descriptors
    BY <1>3, SameView DEF Live
  <2>2. reply'.op = "panic"
    BY <1>3, ReplyFacts
  <2> QED BY <1>3, <2>1, <2>2 DEF Files!OpenNext, Files!Other
<1>4. CASE /\ UNCHANGED <<content, osinode, fd_table, status, keys, log>>
           /\ name \notin DOMAIN content /\ "CREATE" \notin flags
           /\ reply' = Reply("open", t, 0, name, flags, 0, <<>>, -1)
  <2>1. Descriptors' = Descriptors
    BY <1>4, SameView DEF Live
  <2>2. /\ reply'.op = "open" /\ reply'.task = t /\ reply'.name = name
        /\ reply'.flags = flags /\ reply'.res = -1
    BY <1>4, ReplyFacts
  <2>3. Files!Open(t)
    BY <1>4, <2>1, <2>2 DEF Files!Open
  <2> QED BY <1>2, <2>2, <2>3 DEF Files!OpenNext
<1>5. CASE \E f, fd : OpenTakes(t, name, flags, f, fd) /\ OpenLogs(name, flags, f)
  <2>1. PICK f, fd : OpenTakes(t, name, flags, f, fd)
    BY <1>5
  <2>2. /\ f \in Nat \ {0} /\ f \notin DOMAIN osinode /\ fd = AllocFd(t)
        /\ name \in DOMAIN content \/ "CREATE" \in flags
        /\ content' = Opened(name, flags)
        /\ osinode' = With(osinode, f, NewFile(name, flags))
        /\ reply' = Reply("open", t, 0, name, flags, 0, <<>>, fd)
        /\ status' = status
    BY <2>1 DEF OpenTakes
  <2>3. PICK s, d : s = fd_table[t] /\ d = Descriptors[t]
    OBVIOUS
  <2>4. s \in Seq(Int) /\ Describes(d, s, Len(s)) /\ d = DescriptorsOf(s)
    <3>1. s \in Seq(Int) /\ Describes(d, s, Len(s))
      BY <1>1, <2>3, CallerFacts
    <3> QED BY <1>2, <2>3, <3>1, ViewFacts
  <2>5. /\ fd \in Nat /\ fd <= Len(s) /\ (fd < Len(s) => s[fd + 1] = None)
        /\ \A n \in 0 .. fd - 1 : s[n + 1] # None
    <3>1. fd_table[t] \in Seq(Int)
      BY <2>3, <2>4
    <3>2. /\ fd \in Nat /\ fd <= Len(fd_table[t])
          /\ (fd < Len(fd_table[t]) => fd_table[t][fd + 1] = None)
          /\ \A n \in 0 .. fd - 1 : fd_table[t][n + 1] # None
      BY <2>2, <3>1, AllocFdFacts
    <3> QED BY <2>3, <3>2
  <2>6. PICK v : v = IF fd = Len(s) THEN Append(s, f) ELSE [s EXCEPT ![fd + 1] = f]
    OBVIOUS
  <2>7. fd_table' = [fd_table EXCEPT ![t] = v]
    BY <2>1, <2>3, <2>6 DEF OpenTakes
  <2>8. DescriptorsOf(v) = Files!Changed(d, fd, f)
    BY <2>2, <2>4, <2>5, <2>6, DescriptorAdded
  <2>9. Live' = Live
    BY <2>2 DEF Live
  <2>10. Descriptors' = [Descriptors EXCEPT ![t] = Files!Changed(@, fd, f)]
    <3>1. fd_table \in [Tasks -> Seq(Int)] /\ Live \subseteq Tasks
      BY DEF FileInv, EntriesOK, Live
    <3>2. \A u \in Live : fd_table'[u] = IF u = t THEN v ELSE fd_table[u]
      BY <2>7, <3>1
    <3>3. \A u \in Live : Descriptors'[u] =
            IF u = t THEN Files!Changed(d, fd, f) ELSE Descriptors[u]
      BY <2>8, <2>9, <3>2, ViewFacts
    <3>4. DOMAIN Descriptors' = Live /\ DOMAIN Descriptors = Live
          /\ Descriptors' = [u \in Live |-> Descriptors'[u]]
      BY <2>9, ViewFacts
    <3> QED BY <1>2, <2>3, <3>3, <3>4
  <2>11. /\ reply'.op = "open" /\ reply'.task = t /\ reply'.name = name
         /\ reply'.flags = flags /\ reply'.res = fd
    BY <2>2, ReplyFacts
  <2>12. Files!Lowest(t, fd)
    <3>1. PICK len \in Nat : len = Len(s)
      BY <2>4
    <3>2. fd \notin DOMAIN d
      <4>1. fd \in 0 .. len - 1 => s[fd + 1] = None
        BY <2>5, <3>1
      <4> QED BY <2>4, <3>1, <4>1 DEF Describes
    <3>3. ASSUME NEW n \in 0 .. fd - 1 PROVE n \in DOMAIN d
      <4>1. n \in 0 .. len - 1
        BY <2>5, <3>1
      <4>2. s[n + 1] # None
        BY <2>5
      <4> QED BY <2>4, <3>1, <4>1, <4>2 DEF Describes
    <3> QED BY <2>3, <2>5, <3>2, <3>3 DEF Files!Lowest
  <2>13. f \in DOMAIN osinode' \ DOMAIN osinode
    BY <2>2 DEF With
  <2>14. osinode' = Files!Changed(osinode, f,
                       [readable |-> "WRONLY" \notin flags, writable |-> flags # {},
                        offset |-> 0, inode |-> name])
    <3>1. /\ ReadWrite(flags).readable = ("WRONLY" \notin flags)
          /\ ReadWrite(flags).writable = (flags # {})
      BY DEF ReadWrite
    <3>2. NewFile(name, flags) = [readable |-> "WRONLY" \notin flags, writable |-> flags # {},
                                  offset |-> 0, inode |-> name]
      BY <3>1, Zenon DEF NewFile
    <3> QED BY <2>2, <3>2, Zenon DEF With, Files!Changed
  <2>15. content' = IF {"CREATE", "TRUNC"} \cap flags # {}
                    THEN Files!Changed(content, name, <<>>) ELSE content
    BY <2>2 DEF Opened, With, Files!Changed
  <2>16. Files!Open(t)
    <3>1. PICK o, c, D : /\ o = Files!Changed(osinode, f,
                              [readable |-> "WRONLY" \notin flags, writable |-> flags # {},
                               offset |-> 0, inode |-> name])
                         /\ c = (IF {"CREATE", "TRUNC"} \cap flags # {}
                                 THEN Files!Changed(content, name, <<>>) ELSE content)
                         /\ D = [Descriptors EXCEPT ![t] = Files!Changed(@, fd, f)]
      OBVIOUS
    <3>2. osinode' = o /\ content' = c /\ Descriptors' = D
      BY <2>10, <2>14, <2>15, <3>1, Zenon
    <3> QED BY <2>2, <2>11, <2>12, <2>13, <3>1, <3>2 DEF Files!Open
  <2> QED BY <1>2, <2>11, <2>16 DEF Files!OpenNext
<1> QED BY <1>3, <1>4, <1>5, OpenCases

(* sys_close is Close.                                                      *)
LEMMA CloseIsClose ==
  ASSUME FileInv, FileInv', NEW t \in Tasks, NEW fd \in Closed, SysClose(t, fd)
  PROVE  Files!OpenNext
<1>1. status[t] # "unused"
  BY DEF SysClose, Running
<1>2. t \in Live /\ t \in DOMAIN Descriptors
  BY <1>1, CallerFacts
<1>3. PICK res : res = IF FileOf(t, fd) # None THEN 0 ELSE -1
  OBVIOUS
<1>4. /\ osinode' = Collected(osinode, fd_table')
      /\ reply' = Reply("close", t, fd, 0, {}, 0, <<>>, res)
      /\ UNCHANGED <<content, status>>
  BY <1>3 DEF SysClose
<1>5. reply'.op = "close" /\ reply'.task = t /\ reply'.fd = fd /\ reply'.res = res
  BY <1>4, ReplyFacts
<1>6. Live' = Live
  BY <1>4 DEF Live
<1>7. fd \in Nat
  BY FileTableAssumption
<1>8. fd \in DOMAIN Descriptors[t] <=> FileOf(t, fd) # None
  BY <1>1, <1>7, NamedByFd
<1>9. CASE FileOf(t, fd) = None
  <2>1. fd_table' = fd_table
    BY <1>9 DEF SysClose
  <2>2. osinode' = osinode
    BY <1>4, <2>1, AllCollected
  <2>3. Descriptors' = Descriptors
    BY <1>6, <2>1, SameView
  <2>4. Files!Close(t)
    BY <1>3, <1>4, <1>5, <1>8, <1>9, <2>2, <2>3 DEF Files!Close
  <2> QED BY <1>2, <1>5, <2>4 DEF Files!OpenNext
<1>10. CASE FileOf(t, fd) # None
  <2>1. fd_table' = [fd_table EXCEPT ![t][fd + 1] = None]
    BY <1>10 DEF SysClose
  <2>2. PICK s, d, v : s = fd_table[t] /\ d = Descriptors[t] /\ v = [s EXCEPT ![fd + 1] = None]
    OBVIOUS
  <2>3. s \in Seq(Int) /\ d = DescriptorsOf(s)
    <3>1. s \in Seq(Int)
      BY <1>1, <2>2, CallerFacts
    <3> QED BY <1>2, <2>2, <3>1, ViewFacts
  <2>4. fd + 1 \in 1 .. Len(s)
    BY <1>7, <1>10, <2>2, FileOfFacts
  <2>5. DescriptorsOf(v) = [n \in DOMAIN d \ {fd} |-> d[n]]
    <3>1. EntryDropped(v, s, fd + 1)
      BY <2>2 DEF EntryDropped
    <3>2. Without(DescriptorsOf(v), d, fd)
      BY <1>7, <2>3, <2>4, <3>1, DescriptorRemoved
    <3> QED BY <3>2 DEF Without
  <2>6. fd_table' = [fd_table EXCEPT ![t] = v]
    BY <2>1, <2>2
  <2>7. Descriptors' = [Descriptors EXCEPT ![t] = [n \in DOMAIN @ \ {fd} |-> @[n]]]
    <3>1. fd_table \in [Tasks -> Seq(Int)] /\ Live \subseteq Tasks
      BY DEF FileInv, EntriesOK, Live
    <3>2. \A u \in Live : fd_table'[u] = IF u = t THEN v ELSE fd_table[u]
      BY <2>6, <3>1
    <3>3. PICK w : w = [n \in DOMAIN d \ {fd} |-> d[n]]
      OBVIOUS
    <3>4. \A u \in Live : Descriptors'[u] = IF u = t THEN w ELSE Descriptors[u]
      BY <1>6, <2>5, <3>2, <3>3, ViewFacts
    <3>5. DOMAIN Descriptors' = Live /\ DOMAIN Descriptors = Live
          /\ Descriptors' = [u \in Live |-> Descriptors'[u]]
      BY <1>6, ViewFacts
    <3>6. Descriptors' = [Descriptors EXCEPT ![t] = w]
      BY <1>2, <3>4, <3>5
    <3> QED BY <2>2, <3>3, <3>6
  <2>8. osinode' = Files!Kept(osinode, Descriptors')
    <3>1. fd_table' \in [Tasks -> Seq(Int)] /\ \A u \in Tasks \ Live' : fd_table'[u] = <<>>
      BY DEF FileInv, EntriesOK, TasksOK, Live
    <3>2. Live' \in SUBSET Tasks /\ DOMAIN osinode \subseteq Nat \ {0}
      BY DEF Live, FileInv, OpenOK
    <3>3. DOMAIN Descriptors' = Live' /\ \A u \in Live' : Descriptors'[u] = DescriptorsOf(fd_table'[u])
      BY ViewFacts
    <3>4. Files!Kept(osinode, Descriptors') = Collected(osinode, fd_table')
      BY <3>1, <3>2, <3>3, KeptIsCollected
    <3> QED BY <1>4, <3>4
  <2>9. Files!Close(t)
    BY <1>3, <1>4, <1>5, <1>8, <1>10, <2>7, <2>8 DEF Files!Close
  <2> QED BY <1>2, <1>5, <2>9 DEF Files!OpenNext
<1> QED BY <1>9, <1>10

(* sys_read is Read, or a task that waits for a key.                        *)
LEMMA ReadIsRead ==
  ASSUME FileInv, NEW t \in Tasks, NEW fd \in Fds, NEW at \in 0 .. PAGE_SIZE - 1,
         NEW len \in Lens, SysRead(t, fd, at, len)
  PROVE  Files!OpenNext
<1>1. status[t] # "unused"
  BY DEF SysRead, Running
<1>2. t \in Live /\ t \in DOMAIN Descriptors
  BY <1>1, CallerFacts
<1>3. PICK f : f = FileOf(t, fd)
  OBVIOUS
<1>4. fd \in Nat /\ Stdin \notin DOMAIN osinode
  <2>1. fd \in Nat
    BY FileTableAssumption
  <2> QED BY <2>1 DEF FileInv, OpenOK, Stdin
<1>5. /\ fd \in DOMAIN Descriptors[t] <=> f # None
      /\ fd \in DOMAIN Descriptors[t] => Descriptors[t][fd] = f
  BY <1>1, <1>3, <1>4, NamedByFd
<1>6. ASSUME UNCHANGED <<content, osinode, fd_table, status>>,
             f \notin DOMAIN osinode \/ ~osinode[f].readable,
             reply'.op = "read", reply'.task = t, reply'.fd = fd
      PROVE  Files!OpenNext
  <2>1. Descriptors' = Descriptors
    BY <1>6, SameView DEF Live
  <2>2. Files!Read(t)
    BY <1>5, <1>6, <2>1 DEF Files!Read
  <2> QED BY <1>2, <1>6, <2>2 DEF Files!OpenNext
<1>7. CASE /\ ~Readable(f) /\ reply' = Reply("read", t, fd, 0, {}, 0, <<>>, -1)
           /\ UNCHANGED <<kernelVars, log>>
  <2>1. reply'.op = "read" /\ reply'.task = t /\ reply'.fd = fd
    BY <1>7, ReplyFacts
  <2>2. UNCHANGED <<content, osinode, fd_table, status>>
    BY <1>7 DEF kernelVars
  <2>3. f \notin DOMAIN osinode \/ ~osinode[f].readable
    BY <1>7 DEF Readable
  <2> QED BY <1>6, <2>1, <2>2, <2>3
<1>8. CASE f = Stdin /\ StdinRead(t, fd, len)
  <2>1. CASE /\ \E op \in {"panic", "block"} : reply' = Reply(op, t, 0, 0, {}, 0, <<>>, 0)
             /\ UNCHANGED <<content, osinode, fd_table>> /\ Live' = Live
    <3>1. reply'.op \in {"panic", "block"}
      BY <2>1, ReplyFacts
    <3>2. Descriptors' = Descriptors
      BY <2>1, SameView
    <3> QED BY <2>1, <3>1, <3>2 DEF Files!OpenNext, Files!Other
  <2>2. CASE Stop("stdin_len", t)
    <3>1. Live' = Live
      BY <2>2 DEF Stop, Live
    <3> QED BY <2>1, <2>2, <3>1 DEF Stop
  <2>3. CASE Suspend(t)
    <3>1. /\ status' = [status EXCEPT ![t] = "reading"]
          /\ reply' = Reply("block", t, 0, 0, {}, 0, <<>>, 0)
          /\ UNCHANGED <<content, osinode, fd_table>>
      BY <2>3 DEF Suspend, HeldWhileReading
    <3>2. Live' = Live
      <4>1. status \in [Tasks -> {"unused", "live", "reading", "zombie"}]
        BY DEF FileInv, TasksOK
      <4> QED BY <1>1, <3>1, <4>1 DEF Live
    <3> QED BY <2>1, <3>1, <3>2
  <2>4. CASE /\ reply' = Reply("read", t, fd, 0, {}, 1, <<1>>, 1)
             /\ UNCHANGED <<content, osinode, fd_table, status, panic, log>>
    <3>1. reply'.op = "read" /\ reply'.task = t /\ reply'.fd = fd
      BY <2>4, ReplyFacts
    <3> QED BY <1>4, <1>6, <1>8, <2>4, <3>1
  <2> QED BY <1>8, <2>2, <2>3, <2>4 DEF StdinRead
<1>9. CASE /\ f \in DOMAIN osinode /\ osinode[f].readable
           /\ \E r : /\ ReadWhole(r, content[osinode[f].inode], osinode[f].offset, len)
                     /\ osinode' = [osinode EXCEPT ![f].offset = @ + r.n]
                     /\ reply' = Reply("read", t, fd, 0, {}, len, r.buf, r.n)
                     /\ UNCHANGED <<content, fd_table, status, keys, panic, log>>
  <2>1. PICK r : /\ ReadWhole(r, content[osinode[f].inode], osinode[f].offset, len)
                 /\ osinode' = [osinode EXCEPT ![f].offset = @ + r.n]
                 /\ reply' = Reply("read", t, fd, 0, {}, len, r.buf, r.n)
                 /\ UNCHANGED <<content, fd_table, status, keys, panic, log>>
    BY <1>9
  <2>2. /\ reply'.op = "read" /\ reply'.task = t /\ reply'.fd = fd /\ reply'.len = len
        /\ reply'.data = r.buf /\ reply'.res = r.n
    BY <2>1, ReplyFacts
  <2>3. Descriptors' = Descriptors
    BY <2>1, SameView DEF Live
  <2>4. f # None
    BY <1>9 DEF FileInv, OpenOK, None
  <2>5. fd \in DOMAIN Descriptors[t] /\ Descriptors[t][fd] = f
    BY <1>5, <2>4
  <2>6. PICK s, off, end, d : /\ s = content[osinode[f].inode] /\ off = osinode[f].offset
                              /\ end = off + len
                              /\ d = SubSeq(s, off + 1, IF end > Len(s) THEN Len(s) ELSE end)
    OBVIOUS
  <2>7. r.n = Len(d) /\ r.buf = d \o [i \in 1 .. len - Len(d) |-> 0]
    BY <2>1, <2>6 DEF ReadWhole
  <2>8. osinode' = [osinode EXCEPT ![f].offset = @ + Len(d)]
    BY <2>1, <2>7
  <2>9. PICK z, o : /\ z = d \o [i \in 1 .. len - Len(d) |-> 0]
                    /\ o = [osinode EXCEPT ![f].offset = @ + Len(d)]
    OBVIOUS
  <2>10. reply'.data = z /\ osinode' = o /\ reply'.res = Len(d)
    BY <2>2, <2>7, <2>8, <2>9
  <2>11. Files!Read(t)
    <3> DEFINE h    == Descriptors[t][reply'.fd]
               c    == content[osinode[h].inode]
               last == osinode[h].offset + reply'.len
               data == SubSeq(c, osinode[h].offset + 1, IF last > Len(c) THEN Len(c) ELSE last)
    <3>1. h = f /\ data = d
      BY <2>2, <2>5, <2>6, Zenon
    <3>2. reply'.data = d \o [i \in 1 .. reply'.len - Len(d) |-> 0]
      BY <2>2, <2>9, <2>10
    <3>3. /\ reply'.op = "read" /\ UNCHANGED <<content, Descriptors>>
          /\ reply'.fd \in DOMAIN Descriptors[t] /\ reply'.res = Len(d)
          /\ f \in DOMAIN osinode /\ osinode[f].readable
      BY <1>9, <2>1, <2>2, <2>3, <2>5, <2>10
    <3> HIDE DEF h, data
    <3>4. /\ reply'.res = Len(data) /\ h \in DOMAIN osinode /\ osinode[h].readable
          /\ reply'.data = data \o [i \in 1 .. reply'.len - Len(data) |-> 0]
          /\ osinode' = [osinode EXCEPT ![h].offset = @ + Len(data)]
      BY <2>8, <3>1, <3>2, <3>3, Zenon
    <3> USE DEF h, data
    <3> QED BY <3>3, <3>4, Zenon DEF Files!Read
  <2> QED BY <1>2, <2>2, <2>11 DEF Files!OpenNext
<1> QED BY <1>3, <1>7, <1>8, <1>9, ReadCases

(* sys_write is Write.                                                      *)
LEMMA WriteIsWrite ==
  ASSUME FileInv, NEW t \in Tasks, NEW fd \in Fds, NEW at \in 0 .. PAGE_SIZE - 1,
         NEW data \in Texts, SysWrite(t, fd, at, data)
  PROVE  Files!OpenNext
<1>1. status[t] # "unused"
  BY DEF SysWrite, Running
<1>2. t \in Live /\ t \in DOMAIN Descriptors
  BY <1>1, CallerFacts
<1>3. PICK f : f = FileOf(t, fd)
  OBVIOUS
<1>4. fd \in Nat /\ Stdout \notin DOMAIN osinode
  <2>1. fd \in Nat
    BY FileTableAssumption
  <2> QED BY <2>1 DEF FileInv, OpenOK, Stdout
<1>5. /\ fd \in DOMAIN Descriptors[t] <=> f # None
      /\ fd \in DOMAIN Descriptors[t] => Descriptors[t][fd] = f
  BY <1>1, <1>3, <1>4, NamedByFd
<1>6. ASSUME UNCHANGED <<content, osinode, fd_table, status>>,
             f \notin DOMAIN osinode \/ ~osinode[f].writable,
             reply'.op = "write", reply'.task = t, reply'.fd = fd
      PROVE  Files!OpenNext
  <2>1. Descriptors' = Descriptors
    BY <1>6, SameView DEF Live
  <2>2. Files!Write(t)
    BY <1>5, <1>6, <2>1 DEF Files!Write
  <2> QED BY <1>2, <1>6, <2>2 DEF Files!OpenNext
<1>7. CASE /\ ~Writable(f) /\ reply' = Reply("write", t, fd, 0, {}, 0, <<>>, -1)
           /\ UNCHANGED <<kernelVars, log>>
  <2>1. reply'.op = "write" /\ reply'.task = t /\ reply'.fd = fd
    BY <1>7, ReplyFacts
  <2>2. UNCHANGED <<content, osinode, fd_table, status>>
    BY <1>7 DEF kernelVars
  <2>3. f \notin DOMAIN osinode \/ ~osinode[f].writable
    BY <1>7 DEF Writable
  <2> QED BY <1>6, <2>1, <2>2, <2>3
<1>8. CASE Stop("utf8", t)
  <2>1. /\ reply' = Reply("panic", t, 0, 0, {}, 0, <<>>, 0)
        /\ UNCHANGED <<content, osinode, fd_table, status>>
    BY <1>8 DEF Stop
  <2>2. reply'.op = "panic"
    BY <2>1, ReplyFacts
  <2>3. Descriptors' = Descriptors
    BY <2>1, SameView DEF Live
  <2> QED BY <2>1, <2>2, <2>3 DEF Files!OpenNext, Files!Other
<1>9. CASE /\ f = Stdout /\ UNCHANGED <<kernelVars, log>>
           /\ reply' = Reply("write", t, fd, 0, {}, Len(data), data, Len(data))
  <2>1. reply'.op = "write" /\ reply'.task = t /\ reply'.fd = fd
    BY <1>9, ReplyFacts
  <2>2. UNCHANGED <<content, osinode, fd_table, status>>
    BY <1>9 DEF kernelVars
  <2> QED BY <1>4, <1>6, <1>9, <2>1, <2>2
<1>10. CASE /\ FileWritten(f, data)
            /\ reply' = Reply("write", t, fd, 0, {}, Len(data), data, Len(data))
  <2>1. PICK w : /\ w = IF data = <<>> THEN content[osinode[f].inode]
                        ELSE FS!Overwritten(content[osinode[f].inode], osinode[f].offset, data)
                 /\ content' = [content EXCEPT ![osinode[f].inode] = w]
    BY <1>10 DEF FileWritten
  <2>2. /\ f \in DOMAIN osinode /\ osinode[f].writable
        /\ osinode' = [osinode EXCEPT ![f].offset = @ + Len(data)]
        /\ UNCHANGED <<fd_table, status>>
    BY <1>10 DEF FileWritten
  <2>3. /\ reply'.op = "write" /\ reply'.task = t /\ reply'.fd = fd /\ reply'.len = Len(data)
        /\ reply'.data = data /\ reply'.res = Len(data)
    BY <1>10, ReplyFacts
  <2>4. Descriptors' = Descriptors
    BY <2>2, SameView DEF Live
  <2>5. f # None
    BY <2>2 DEF FileInv, OpenOK, None
  <2>6. fd \in DOMAIN Descriptors[t] /\ Descriptors[t][fd] = f
    BY <1>5, <2>5
  <2>7. content' = IF data = <<>> THEN content
                   ELSE [content EXCEPT ![osinode[f].inode] =
                           Files!FS!Overwritten(@, osinode[f].offset, data)]
    <3>1. CASE data = <<>>
      <4>1. content = [n \in DOMAIN content |-> content[n]]
        BY DEF FileInv, ContentOK
      <4>2. content' = [content EXCEPT ![osinode[f].inode] = content[osinode[f].inode]]
        BY <2>1, <3>1
      <4> QED BY <3>1, <4>1, <4>2
    <3>2. CASE data # <<>>
      <4>1. w = Files!FS!Overwritten(content[osinode[f].inode], osinode[f].offset, data)
        BY <2>1, <3>2, SameOverwritten
      <4> QED BY <2>1, <3>2, <4>1
    <3> QED BY <3>1, <3>2
  <2>8. Files!Write(t)
    BY <2>2, <2>3, <2>4, <2>6, <2>7 DEF Files!Write
  <2> QED BY <1>2, <2>3, <2>8 DEF Files!OpenNext
<1> QED BY <1>3, <1>7, <1>8, <1>9, <1>10, WriteCases

(* fork gives the child the descriptors of its parent.                      *)
LEMMA ForkIsFork ==
  ASSUME FileInv, NEW t \in Tasks, NEW c \in Tasks, Fork(t, c)
  PROVE  Files!OpenNext
<1>1. status[t] # "unused" /\ status[c] = "unused"
  BY DEF Fork, Running
<1>2. t \in Live /\ t \in DOMAIN Descriptors
  BY <1>1, CallerFacts
<1>3. /\ status' = [status EXCEPT ![c] = "live"]
      /\ fd_table' = [fd_table EXCEPT ![c] = fd_table[t]]
      /\ reply' = Reply("fork", t, 0, 0, {}, 0, <<>>, c)
      /\ UNCHANGED <<content, osinode>>
  BY DEF Fork, ForkedTable
<1>4. reply'.op = "fork" /\ reply'.task = t /\ reply'.res = c
  BY <1>3, ReplyFacts
<1>5. status \in [Tasks -> {"unused", "live", "reading", "zombie"}] /\ fd_table \in [Tasks -> Seq(Int)]
  BY DEF FileInv, TasksOK, EntriesOK
<1>6. Live' = Live \cup {c} /\ c \notin Live
  BY <1>1, <1>3, <1>5 DEF Live
<1>7. \A u \in Live' : fd_table'[u] = IF u = c THEN fd_table[t] ELSE fd_table[u]
  BY <1>3, <1>5 DEF Live
<1>8. \A u \in Live' : Descriptors'[u] = IF u = c THEN Descriptors[t] ELSE Descriptors[u]
  BY <1>2, <1>6, <1>7, ViewFacts
<1>9. Descriptors' = Files!Changed(Descriptors, c, Descriptors[t])
  <2>1. /\ Descriptors' = [u \in Live' |-> Descriptors'[u]]
        /\ DOMAIN Descriptors = Live
    BY ViewFacts
  <2>2. Descriptors' = [u \in DOMAIN Descriptors \cup {c} |->
                          IF u = c THEN Descriptors[t] ELSE Descriptors[u]]
    BY <1>6, <1>8, <2>1
  <2> QED BY <2>2 DEF Files!Changed
<1>10. c \in Tasks \ DOMAIN Descriptors
  BY <1>6, ViewFacts
<1>11. Files!Fork(t)
  BY <1>3, <1>4, <1>9, <1>10 DEF Files!Fork
<1> QED BY <1>2, <1>4, <1>11 DEF Files!OpenNext

(* exec reads the whole program and keeps the descriptors.                  *)
LEMMA ExecIsExec ==
  ASSUME FileInv, NEW t \in Tasks, NEW name \in Names, SysExec(t, name)
  PROVE  Files!OpenNext
<1>1. status[t] # "unused"
  BY DEF SysExec, Running
<1>2. t \in DOMAIN Descriptors
  BY <1>1, CallerFacts
<1>3. UNCHANGED <<content, osinode, fd_table, status>>
  BY DEF SysExec, kernelVars
<1>4. Descriptors' = Descriptors
  BY <1>3, SameView DEF Live
<1>5. CASE name \in DOMAIN content
  <2>1. PICK s : s = content[name]
    OBVIOUS
  <2>2. s \in Seq(Words)
    BY <1>5, <2>1 DEF FileInv, ContentOK
  <2>3. PICK sl : sl = [i \in 1 .. Len(s) \div CHUNK + 1 |->
                          [from |-> (i - 1) * CHUNK + 1, to |-> i * CHUNK]]
    OBVIOUS
  <2>4. SlicesRead(s, 0, sl, Len(s)).buf = s
    BY <2>2, <2>3, ReadAllIsWhole
  <2>5. reply' = Reply("exec", t, 0, name, {}, 0, SlicesRead(s, 0, sl, Len(s)).buf, 0)
    BY <1>5, <2>1, <2>3, Zenon DEF SysExec
  <2>6. reply' = Reply("exec", t, 0, name, {}, 0, s, 0)
    BY <2>4, <2>5, Zenon
  <2>7. reply'.op = "exec" /\ reply'.task = t /\ reply'.name = name /\ reply'.data = s
    BY <2>6, ReplyFacts
  <2>8. Files!Exec(t)
    BY <1>3, <1>4, <1>5, <2>1, <2>7 DEF Files!Exec
  <2> QED BY <1>2, <2>7, <2>8 DEF Files!OpenNext
<1>6. CASE name \notin DOMAIN content
  <2>1. reply' = Reply("exec", t, 0, name, {}, 0, <<>>, -1)
    BY <1>6 DEF SysExec
  <2>2. reply'.op = "exec" /\ reply'.task = t /\ reply'.name = name /\ reply'.res = -1
    BY <2>1, ReplyFacts
  <2>3. Files!Exec(t)
    BY <1>3, <1>4, <1>6, <2>2 DEF Files!Exec
  <2> QED BY <1>2, <2>2, <2>3 DEF Files!OpenNext
<1> QED BY <1>5, <1>6

(* A step that changes no file, no table and no set of processes.           *)
LEMMA OtherIsOther ==
  ASSUME UNCHANGED <<content, osinode, fd_table>>, Live' = Live,
         NEW op \in {"type", "exit", "block", "panic"}, NEW t,
         reply' = Reply(op, t, 0, 0, {}, 0, <<>>, 0)
  PROVE  Files!OpenNext
<1>1. reply'.op = op
  BY ReplyFacts
<1>2. Descriptors' = Descriptors
  BY SameView
<1> QED BY <1>1, <1>2 DEF Files!OpenNext, Files!Other

(* A reader of stdin that wakes up makes a Read of no open file.            *)
LEMMA WakeIsRead ==
  ASSUME FileInv, NEW t \in Tasks, StdinWakes(t)
  PROVE  Files!OpenNext
<1>1. status[t] = "reading"
  BY DEF StdinWakes
<1>2. t \in DOMAIN Descriptors
  BY <1>1, CallerFacts
<1>3. /\ status' = [status EXCEPT ![t] = "live"]
      /\ reply' = Reply("read", t, 0, 0, {}, 1, <<1>>, 1)
      /\ UNCHANGED <<content, osinode, fd_table>>
  BY DEF StdinWakes
<1>4. reply'.op = "read" /\ reply'.task = t /\ reply'.fd = 0
  BY <1>3, ReplyFacts
<1>5. Live' = Live
  <2>1. status \in [Tasks -> {"unused", "live", "reading", "zombie"}]
    BY DEF FileInv, TasksOK
  <2> QED BY <1>1, <1>3, <2>1 DEF Live
<1>6. Descriptors' = Descriptors
  BY <1>3, <1>5, SameView
<1>7. FileOf(t, 0) = Stdin
  <2>1. fd_table[t] \in Seq(Int) /\ Len(fd_table[t]) >= 1 /\ fd_table[t][1] = Stdin
    BY <1>1 DEF FileInv, EntriesOK, StdinOK
  <2>2. Len(fd_table[t]) \in Nat
    BY <2>1
  <2> QED BY <2>1, <2>2 DEF FileOf
<1>8. 0 \in DOMAIN Descriptors[t] => Descriptors[t][0] = Stdin
  <2>1. 0 \in Nat /\ status[t] # "unused"
    BY <1>1
  <2> QED BY <1>7, <2>1, NamedByFd
<1>9. Stdin \notin DOMAIN osinode
  BY DEF FileInv, OpenOK, Stdin
<1>10. Files!Read(t)
  BY <1>3, <1>4, <1>6, <1>8, <1>9 DEF Files!Read
<1> QED BY <1>2, <1>4, <1>10 DEF Files!OpenNext

(* A collected process takes its descriptors with it.                       *)
LEMMA ReapIsCollect ==
  ASSUME FileInv, FileInv', NEW t \in Tasks, Reap(t)
  PROVE  Files!OpenNext
<1>1. status[t] # "unused"
  BY DEF Reap
<1>2. t \in DOMAIN Descriptors
  BY <1>1, CallerFacts
<1>3. /\ status' = [status EXCEPT ![t] = "unused"]
      /\ fd_table' = [fd_table EXCEPT ![t] = <<>>]
      /\ osinode' = Collected(osinode, fd_table')
      /\ reply' = Reply("wait", t, 0, 0, {}, 0, <<>>, 0)
      /\ UNCHANGED content
  BY DEF Reap
<1>4. reply'.op = "wait" /\ reply'.task = t
  BY <1>3, ReplyFacts
<1>5. status \in [Tasks -> {"unused", "live", "reading", "zombie"}] /\ fd_table \in [Tasks -> Seq(Int)]
  BY DEF FileInv, TasksOK, EntriesOK
<1>6. Live' = Live \ {t}
  BY <1>3, <1>5 DEF Live
<1>7. \A u \in Live' : fd_table'[u] = fd_table[u]
  BY <1>3, <1>5, <1>6 DEF Live
<1>8. \A u \in Live' : Descriptors'[u] = Descriptors[u]
  BY <1>6, <1>7, ViewFacts
<1>9. Descriptors' = [u \in DOMAIN Descriptors \ {t} |-> Descriptors[u]]
  <2>1. /\ Descriptors' = [u \in Live' |-> Descriptors'[u]]
        /\ DOMAIN Descriptors = Live
    BY ViewFacts
  <2> QED BY <1>6, <1>8, <2>1
<1>10. osinode' = Files!Kept(osinode, Descriptors')
  <2>1. fd_table' \in [Tasks -> Seq(Int)] /\ \A u \in Tasks \ Live' : fd_table'[u] = <<>>
    BY DEF FileInv, EntriesOK, TasksOK, Live
  <2>2. Live' \in SUBSET Tasks /\ DOMAIN osinode \subseteq Nat \ {0}
    BY DEF Live, FileInv, OpenOK
  <2>3. DOMAIN Descriptors' = Live' /\ \A u \in Live' : Descriptors'[u] = DescriptorsOf(fd_table'[u])
    BY ViewFacts
  <2>4. Files!Kept(osinode, Descriptors') = Collected(osinode, fd_table')
    BY <2>1, <2>2, <2>3, KeptIsCollected
  <2> QED BY <1>3, <2>4
<1>11. Files!Collect(t)
  BY <1>3, <1>4, <1>9, <1>10 DEF Files!Collect
<1> QED BY <1>2, <1>4, <1>11 DEF Files!OpenNext

(* Every step of the calls is a step of OpenFiles or changes none of its    *)
(* variables.                                                               *)
LEMMA StepIsOpenStep ==
  ASSUME FileInv, FileInv', [Next]_vars
  PROVE  [Files!OpenNext]_(Files!openVars)
<1>1. CASE UNCHANGED vars
  <2>1. UNCHANGED <<content, osinode, reply, fd_table, status>>
    BY <1>1 DEF vars
  <2>2. Descriptors' = Descriptors
    BY <2>1, SameView DEF Live
  <2> QED BY <2>1, <2>2 DEF Files!openVars
<1>2. ASSUME NEW t \in Tasks, NEW name \in Names, SysExec(t, name) PROVE Files!OpenNext
  BY <1>2, ExecIsExec
<1>3. ASSUME NEW t \in Tasks, NEW name \in Names, NEW flags \in FlagSets, SysOpen(t, name, flags)
      PROVE  Files!OpenNext
  BY <1>3, OpenIsOpen
<1>4. ASSUME NEW t \in Tasks, NEW fd \in Closed, SysClose(t, fd) PROVE Files!OpenNext
  BY <1>4, CloseIsClose
<1>5. ASSUME NEW t \in Tasks, NEW fd \in Fds, NEW at \in 0 .. PAGE_SIZE - 1, NEW len \in Lens,
             SysRead(t, fd, at, len)
      PROVE  Files!OpenNext
  BY <1>5, ReadIsRead
<1>6. ASSUME NEW t \in Tasks, NEW fd \in Fds, NEW at \in 0 .. PAGE_SIZE - 1, NEW data \in Texts,
             SysWrite(t, fd, at, data)
      PROVE  Files!OpenNext
  BY <1>6, WriteIsWrite
<1>7. ASSUME NEW t \in Tasks, NEW c \in Tasks, Fork(t, c) PROVE Files!OpenNext
  BY <1>7, ForkIsFork
<1>8. ASSUME NEW t \in Tasks, StdinWakes(t) PROVE Files!OpenNext
  BY <1>8, WakeIsRead
<1>9. ASSUME NEW t \in Tasks, Exit(t) PROVE Files!OpenNext
  <2>1. /\ status' = [status EXCEPT ![t] = "zombie"] /\ status[t] = "live"
        /\ reply' = Reply("exit", t, 0, 0, {}, 0, <<>>, 0)
        /\ UNCHANGED <<content, osinode, fd_table>>
    BY <1>9 DEF Exit, Running
  <2>2. Live' = Live
    <3>1. status \in [Tasks -> {"unused", "live", "reading", "zombie"}]
      BY DEF FileInv, TasksOK
    <3> QED BY <2>1, <3>1 DEF Live
  <2> QED BY <2>1, <2>2, OtherIsOther
<1>10. ASSUME NEW t \in Tasks, Reap(t) PROVE Files!OpenNext
  BY <1>10, ReapIsCollect
<1>11. CASE KeyPressed
  <2>1. /\ reply' = Reply("type", InitTask, 0, 0, {}, 0, <<>>, 0)
        /\ UNCHANGED <<content, osinode, fd_table, status>>
    BY <1>11 DEF KeyPressed
  <2>2. Live' = Live
    BY <2>1 DEF Live
  <2> QED BY <2>1, <2>2, OtherIsOther
<1>12. CASE Next
  BY <1>2, <1>3, <1>4, <1>5, <1>6, <1>7, <1>8, <1>9, <1>10, <1>11, <1>12 DEF Next
<1> QED BY <1>1, <1>12

(* The calls of the kernel implement OpenFiles, for any number of tasks and *)
(* files: a read or a write through a buffer that crosses pages is one      *)
(* transfer at one offset, and what fork and close do to the tables is what *)
(* descriptors that share open files promise.                               *)
THEOREM OpenFilesRefinement == Spec => ImplementsOpenFiles
<1>1. Init => Files!OpenInit
  BY InitIsOpenInit
<1>2. FileInv /\ FileInv' /\ [Next]_vars => [Files!OpenNext]_(Files!openVars)
  BY StepIsOpenStep
<1> QED BY <1>1, <1>2, FileInvariance, PTL DEF Spec, ImplementsOpenFiles, Files!OpenSpec

=============================================================================
