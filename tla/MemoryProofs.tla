---------------------------- MODULE MemoryProofs ----------------------------
(***************************************************************************)
(* Proofs about frames, page tables and address spaces, for any number of  *)
(* frames, tasks, pages and programs.                                      *)
(*                                                                         *)
(* Bottom up: loops; the allocator; a page table as a tree of nodes; one   *)
(* area; a space built from a program or copied from another; the machine  *)
(* with all its spaces; the invariant Inv, and PrivateMemory.              *)
(***************************************************************************)
EXTENDS Memory, SeqFacts, WellFoundedInduction

-----------------------------------------------------------------------------
(* Numbers.  A set of numbers that is not empty has a least one ...         *)
LEMMA Least ==
  ASSUME NEW T, T \subseteq Nat, T # {}
  PROVE  \E x \in T : \A y \in T : ~(y < x)
<1>1. \E x \in T : \A y \in T : ~(<<y, x>> \in OpToRel(<, Nat))
  BY NatLessThanWellFounded, WFMin
<1>2. \A x, y \in T : y < x => <<y, x>> \in OpToRel(<, Nat)
  BY DEF OpToRel
<1> QED BY <1>1, <1>2, Zenon

(* ... so what holds before a loop and is kept by its rounds holds after    *)
(* every one of them.                                                       *)
LEMMA Climb ==
  ASSUME NEW n \in Nat, NEW S, 0 \in S, \A k \in 1 .. n : k - 1 \in S => k \in S
  PROVE  n \in S /\ \A k \in 0 .. n : k \in S
<1>1. PICK T : T = {k \in 0 .. n : k \notin S}
  OBVIOUS
<1>a. SUFFICES ASSUME T # {} PROVE FALSE
  BY <1>1
<1>2. PICK k \in T : \A y \in T : ~(y < k)
  <2>1. T \subseteq Nat
    BY <1>1
  <2> QED BY <2>1, <1>a, Least
<1>3. k \in 1 .. n /\ k - 1 \in 0 .. n /\ k - 1 < k
  BY <1>1, <1>2
<1>4. k - 1 \in S
  BY <1>1, <1>2, <1>3
<1> QED BY <1>1, <1>2, <1>3, <1>4

(* Division with remainder, for the indexes of a page number.               *)
LEMMA DivFacts ==
  ASSUME NEW a \in Nat, NEW p \in Nat, p > 0
  PROVE  /\ a \div p \in Nat /\ a % p \in 0 .. p - 1
         /\ a = p * (a \div p) + (a % p)
OBVIOUS

(* A quotient is below what the number is below.                            *)
LEMMA DivBelow ==
  ASSUME NEW a \in Nat, NEW p \in Nat, NEW q \in Nat, p > 0, a < p * q
  PROVE  a \div p \in 0 .. q - 1
OBVIOUS

(* Dividing twice is dividing by the square.                                *)
LEMMA DivTwice ==
  ASSUME NEW a \in Nat, NEW p \in Nat, p > 0
  PROVE  (a \div p) \div p = a \div (p * p)
<1>1. PICK q \in Nat, r \in 0 .. p - 1 : a = p * q + r /\ q = a \div p
  BY DivFacts
<1>2. PICK s \in Nat, t \in 0 .. p - 1 : q = p * s + t /\ s = q \div p
  BY DivFacts
<1>3. a = (p * p) * s + (p * t + r)
  <2>1. p * q = p * (p * s + t)
    BY <1>2
  <2>2. p * (p * s + t) = (p * p) * s + p * t
    OBVIOUS
  <2> QED BY <1>1, <2>1, <2>2
<1>4. p * t + r \in 0 .. p * p - 1
  OBVIOUS
<1>5. a \div (p * p) = s
  BY <1>3, <1>4
<1> QED BY <1>1, <1>2, <1>5

(* VirtPageNum::indexes gives three indexes of a node, and no two pages     *)
(* have the same three.                                                     *)
LEMMA IndexFacts ==
  /\ TRAMPOLINE \in Nat /\ TRAP_CONTEXT \in 0 .. TRAMPOLINE /\ TRAP_CONTEXT # TRAMPOLINE
  /\ \A v \in 0 .. TRAMPOLINE : /\ Indexes(v)[1] \in 0 .. PTES - 1
                                /\ Indexes(v)[2] \in 0 .. PTES - 1
                                /\ Indexes(v)[3] \in 0 .. PTES - 1
  /\ \A v, w \in 0 .. TRAMPOLINE :
       (/\ Indexes(v)[1] = Indexes(w)[1] /\ Indexes(v)[2] = Indexes(w)[2]
        /\ Indexes(v)[3] = Indexes(w)[3]) => v = w
<1>1. PTES \in Nat /\ PTES > 1
  BY MemoryAssumption
<1>2. PICK p : p = PTES
  OBVIOUS
<1>3. p \in Nat /\ p > 1
  BY <1>1, <1>2
<1>4. p * p \in Nat /\ p * p > p /\ p * p * p \in Nat /\ p * p * p > p * p /\ p * p * p = (p * p) * p
  BY <1>3
<1>5. TRAMPOLINE = p * p * p - 1 /\ TRAP_CONTEXT = p * p * p - 2
  BY <1>2, <1>4 DEF TRAMPOLINE, TRAP_CONTEXT
<1>6. ASSUME NEW v \in 0 .. TRAMPOLINE
      PROVE  /\ Indexes(v)[1] = v \div (p * p) /\ Indexes(v)[1] \in 0 .. p - 1
             /\ Indexes(v)[2] = (v \div p) % p /\ Indexes(v)[2] \in 0 .. p - 1
             /\ Indexes(v)[3] = v % p /\ Indexes(v)[3] \in 0 .. p - 1
             /\ v = p * (v \div p) + (v % p)
             /\ v \div p = p * (v \div (p * p)) + ((v \div p) % p)
  <2>1. v \in Nat /\ v < (p * p) * p
    BY <1>4, <1>5
  <2>2. v \div (p * p) \in 0 .. p - 1
    BY <1>3, <1>4, <2>1, DivBelow
  <2>3. v \div p \in Nat /\ v % p \in 0 .. p - 1 /\ v = p * (v \div p) + (v % p)
    BY <1>3, <2>1, DivFacts
  <2>4. /\ (v \div p) % p \in 0 .. p - 1
        /\ v \div p = p * ((v \div p) \div p) + ((v \div p) % p)
    BY <1>3, <2>3, DivFacts
  <2>5. (v \div p) \div p = v \div (p * p)
    BY <1>3, <2>1, DivTwice
  <2>6. Indexes(v)[1] = v \div (p * p) /\ Indexes(v)[2] = (v \div p) % p /\ Indexes(v)[3] = v % p
    BY <1>2 DEF Indexes
  <2> QED BY <2>2, <2>3, <2>4, <2>5, <2>6
<1>7. ASSUME NEW v \in 0 .. TRAMPOLINE, NEW w \in 0 .. TRAMPOLINE,
             Indexes(v)[1] = Indexes(w)[1], Indexes(v)[2] = Indexes(w)[2],
             Indexes(v)[3] = Indexes(w)[3]
      PROVE  v = w
  <2>1. /\ v \div p = p * Indexes(v)[1] + Indexes(v)[2]
        /\ w \div p = p * Indexes(w)[1] + Indexes(w)[2]
        /\ v = p * (v \div p) + Indexes(v)[3]
        /\ w = p * (w \div p) + Indexes(w)[3]
    BY <1>6, Zenon
  <2>2. v \div p = w \div p
    BY <1>7, <2>1, Zenon
  <2> QED BY <1>7, <2>1, <2>2, Zenon
<1>8. TRAMPOLINE \in Nat /\ TRAP_CONTEXT \in 0 .. TRAMPOLINE /\ TRAP_CONTEXT # TRAMPOLINE
  BY <1>3, <1>4, <1>5
<1> QED BY <1>2, <1>6, <1>7, <1>8

-----------------------------------------------------------------------------
(* Loops.                                                                   *)
DroppedRun(b, frames, n, r) ==
    /\ Dropped(b, frames) = r[n] /\ r[0] = b
    /\ \A k \in 1 .. n : r[k] = FrameDealloc(r[k - 1], frames[k])

(* The drop of a vector of frame trackers gives its frames back in order.  *)
LEMMA DroppedLoop ==
  ASSUME NEW b, NEW frames, NEW n \in Nat, n = Len(frames)
  PROVE  \E r : DroppedRun(b, frames, n, r)
<1> DEFINE G(r, m) == [k \in 0 .. m |-> IF k = 0 THEN b ELSE FrameDealloc(r[k - 1], frames[k])]
<1>1. PICK S : S = {m \in 0 .. n : \E r : r = G(r, m)}
  OBVIOUS
<1>2. 0 \in S
  <2>1. PICK r : r = [k \in 0 .. 0 |-> b]
    OBVIOUS
  <2>2. r = G(r, 0)
    BY <2>1
  <2>3. 0 \in 0 .. n
    OBVIOUS
  <2> QED BY <1>1, <2>2, <2>3, Zenon
<1>3. ASSUME NEW m \in 1 .. n, m - 1 \in S PROVE m \in S
  <2>1. PICK r : r = G(r, m - 1)
    BY <1>1, <1>3
  <2>2. PICK q : q = [k \in 0 .. m |-> IF k = m THEN FrameDealloc(r[m - 1], frames[m]) ELSE r[k]]
    OBVIOUS
  <2>3. ASSUME NEW k \in 0 .. m PROVE q[k] = IF k = 0 THEN b ELSE FrameDealloc(q[k - 1], frames[k])
    <3>1. CASE k = m
      BY <2>2, <3>1
    <3>2. CASE k # m /\ k # 0
      <4>1. k \in 0 .. m - 1 /\ k - 1 \in 0 .. m /\ k - 1 # m
        BY <3>2
      <4>2. r[k] = FrameDealloc(r[k - 1], frames[k])
        BY <2>1, <3>2, <4>1
      <4> QED BY <2>2, <3>2, <4>1, <4>2
    <3>3. CASE k = 0
      <4>1. 0 # m /\ 0 \in 0 .. m - 1
        OBVIOUS
      <4>2. r[0] = b
        BY <2>1, <4>1
      <4> QED BY <2>2, <3>3, <4>1, <4>2
    <3> QED BY <3>1, <3>2, <3>3
  <2>4. q = G(q, m)
    BY <2>2, <2>3
  <2>5. m \in 0 .. n
    OBVIOUS
  <2> QED BY <1>1, <2>4, <2>5, Zenon
<1>4. n \in S
  BY <1>2, <1>3, Climb
<1>5. \E r : r = G(r, n)
  BY <1>1, <1>4
<1>6. PICK r : Dropped(b, frames) = r[n] /\ r = G(r, n)
  BY <1>5 DEF Dropped, Iterate
<1>7. r[0] = b /\ \A k \in 1 .. n : r[k] = FrameDealloc(r[k - 1], frames[k])
  BY <1>6
<1> QED BY <1>6, <1>7 DEF DroppedRun

CopyDataRun(b, start, data, n, r) ==
    /\ CopyData(b, start, data) = r[n] /\ r[0] = b
    /\ \A k \in 1 .. n : r[k] = CopyWord(r[k - 1], start + k - 1, data[k])

(* copy_data writes page after page.                                       *)
LEMMA CopyDataLoop ==
  ASSUME NEW b, NEW start, NEW data, NEW n \in Nat, n = Len(data)
  PROVE  \E r : CopyDataRun(b, start, data, n, r)
<1> DEFINE G(r, m) == [k \in 0 .. m |-> IF k = 0 THEN b ELSE CopyWord(r[k - 1], start + k - 1, data[k])]
<1>1. PICK S : S = {m \in 0 .. n : \E r : r = G(r, m)}
  OBVIOUS
<1>2. 0 \in S
  <2>1. PICK r : r = [k \in 0 .. 0 |-> b]
    OBVIOUS
  <2>2. r = G(r, 0)
    BY <2>1
  <2>3. 0 \in 0 .. n
    OBVIOUS
  <2> QED BY <1>1, <2>2, <2>3, Zenon
<1>3. ASSUME NEW m \in 1 .. n, m - 1 \in S PROVE m \in S
  <2>1. PICK r : r = G(r, m - 1)
    BY <1>1, <1>3
  <2>2. PICK q : q = [k \in 0 .. m |-> IF k = m THEN CopyWord(r[m - 1], start + m - 1, data[m]) ELSE r[k]]
    OBVIOUS
  <2>3. ASSUME NEW k \in 0 .. m PROVE q[k] = IF k = 0 THEN b ELSE CopyWord(q[k - 1], start + k - 1, data[k])
    <3>1. CASE k = m
      BY <2>2, <3>1
    <3>2. CASE k # m /\ k # 0
      <4>1. k \in 0 .. m - 1 /\ k - 1 \in 0 .. m /\ k - 1 # m
        BY <3>2
      <4>2. r[k] = CopyWord(r[k - 1], start + k - 1, data[k])
        BY <2>1, <3>2, <4>1
      <4> QED BY <2>2, <3>2, <4>1, <4>2
    <3>3. CASE k = 0
      <4>1. 0 # m /\ 0 \in 0 .. m - 1
        OBVIOUS
      <4>2. r[0] = b
        BY <2>1, <4>1
      <4> QED BY <2>2, <3>3, <4>1, <4>2
    <3> QED BY <3>1, <3>2, <3>3
  <2>4. q = G(q, m)
    BY <2>2, <2>3
  <2>5. m \in 0 .. n
    OBVIOUS
  <2> QED BY <1>1, <2>4, <2>5, Zenon
<1>4. n \in S
  BY <1>2, <1>3, Climb
<1>5. \E r : r = G(r, n)
  BY <1>1, <1>4
<1>6. PICK r : CopyData(b, start, data) = r[n] /\ r = G(r, n)
  BY <1>5 DEF CopyData, Iterate
<1>7. r[0] = b /\ \A k \in 1 .. n : r[k] = CopyWord(r[k - 1], start + k - 1, data[k])
  BY <1>6
<1> QED BY <1>6, <1>7 DEF CopyDataRun

(* map maps the pages of the new area in order.                            *)
LEMMA MapPagesLoop ==
  ASSUME NEW b, NEW pages, NEW n \in Nat, n = pages
  PROVE  \E r : /\ MapPages(b, pages) = r[n]
                /\ r[0] = b
                /\ \A k \in 1 .. n : r[k] = MapOne(r[k - 1], k)
<1> DEFINE G(r, m) == [k \in 0 .. m |-> IF k = 0 THEN b ELSE MapOne(r[k - 1], k)]
<1>1. PICK S : S = {m \in 0 .. n : \E r : r = G(r, m)}
  OBVIOUS
<1>2. 0 \in S
  <2>1. PICK r : r = [k \in 0 .. 0 |-> b]
    OBVIOUS
  <2>2. r = G(r, 0)
    BY <2>1
  <2>3. 0 \in 0 .. n
    OBVIOUS
  <2> QED BY <1>1, <2>2, <2>3, Zenon
<1>3. ASSUME NEW m \in 1 .. n, m - 1 \in S PROVE m \in S
  <2>1. PICK r : r = G(r, m - 1)
    BY <1>1, <1>3
  <2>2. PICK q : q = [k \in 0 .. m |-> IF k = m THEN MapOne(r[m - 1], m) ELSE r[k]]
    OBVIOUS
  <2>3. ASSUME NEW k \in 0 .. m PROVE q[k] = IF k = 0 THEN b ELSE MapOne(q[k - 1], k)
    <3>1. CASE k = m
      BY <2>2, <3>1
    <3>2. CASE k # m /\ k # 0
      <4>1. k \in 0 .. m - 1 /\ k - 1 \in 0 .. m /\ k - 1 # m
        BY <3>2
      <4>2. r[k] = MapOne(r[k - 1], k)
        BY <2>1, <3>2, <4>1
      <4> QED BY <2>2, <3>2, <4>1, <4>2
    <3>3. CASE k = 0
      <4>1. 0 # m /\ 0 \in 0 .. m - 1
        OBVIOUS
      <4>2. r[0] = b
        BY <2>1, <4>1
      <4> QED BY <2>2, <3>3, <4>1, <4>2
    <3> QED BY <3>1, <3>2, <3>3
  <2>4. q = G(q, m)
    BY <2>2, <2>3
  <2>5. m \in 0 .. n
    OBVIOUS
  <2> QED BY <1>1, <2>4, <2>5, Zenon
<1>4. n \in S
  BY <1>2, <1>3, Climb
<1>5. \E r : r = G(r, n)
  BY <1>1, <1>4
<1>6. PICK r : MapPages(b, pages) = r[n] /\ r = G(r, n)
  BY <1>5 DEF MapPages, Iterate
<1>7. r[0] = b /\ \A k \in 1 .. n : r[k] = MapOne(r[k - 1], k)
  BY <1>6
<1> QED BY <1>6, <1>7

LoadSegmentsRun(b, program, n, r) ==
    /\ LoadSegments(b, program) = r[n] /\ r[0] = b
    /\ \A k \in 1 .. n : r[k] = LoadSegment(r[k - 1], program[k])

(* from_elf loads the segments in order.                                   *)
LEMMA LoadSegmentsLoop ==
  ASSUME NEW b, NEW program, NEW n \in Nat, n = Len(program)
  PROVE  \E r : LoadSegmentsRun(b, program, n, r)
<1> DEFINE G(r, m) == [k \in 0 .. m |-> IF k = 0 THEN b ELSE LoadSegment(r[k - 1], program[k])]
<1>1. PICK S : S = {m \in 0 .. n : \E r : r = G(r, m)}
  OBVIOUS
<1>2. 0 \in S
  <2>1. PICK r : r = [k \in 0 .. 0 |-> b]
    OBVIOUS
  <2>2. r = G(r, 0)
    BY <2>1
  <2>3. 0 \in 0 .. n
    OBVIOUS
  <2> QED BY <1>1, <2>2, <2>3, Zenon
<1>3. ASSUME NEW m \in 1 .. n, m - 1 \in S PROVE m \in S
  <2>1. PICK r : r = G(r, m - 1)
    BY <1>1, <1>3
  <2>2. PICK q : q = [k \in 0 .. m |-> IF k = m THEN LoadSegment(r[m - 1], program[m]) ELSE r[k]]
    OBVIOUS
  <2>3. ASSUME NEW k \in 0 .. m PROVE q[k] = IF k = 0 THEN b ELSE LoadSegment(q[k - 1], program[k])
    <3>1. CASE k = m
      BY <2>2, <3>1
    <3>2. CASE k # m /\ k # 0
      <4>1. k \in 0 .. m - 1 /\ k - 1 \in 0 .. m /\ k - 1 # m
        BY <3>2
      <4>2. r[k] = LoadSegment(r[k - 1], program[k])
        BY <2>1, <3>2, <4>1
      <4> QED BY <2>2, <3>2, <4>1, <4>2
    <3>3. CASE k = 0
      <4>1. 0 # m /\ 0 \in 0 .. m - 1
        OBVIOUS
      <4>2. r[0] = b
        BY <2>1, <4>1
      <4> QED BY <2>2, <3>3, <4>1, <4>2
    <3> QED BY <3>1, <3>2, <3>3
  <2>4. q = G(q, m)
    BY <2>2, <2>3
  <2>5. m \in 0 .. n
    OBVIOUS
  <2> QED BY <1>1, <2>4, <2>5, Zenon
<1>4. n \in S
  BY <1>2, <1>3, Climb
<1>5. \E r : r = G(r, n)
  BY <1>1, <1>4
<1>6. PICK r : LoadSegments(b, program) = r[n] /\ r = G(r, n)
  BY <1>5 DEF LoadSegments, Iterate
<1>7. r[0] = b /\ \A k \in 1 .. n : r[k] = LoadSegment(r[k - 1], program[k])
  BY <1>6
<1> QED BY <1>6, <1>7 DEF LoadSegmentsRun

CopyPagesRun(b, space, area, n, r) ==
    /\ CopyPages(b, space, area) = r[n] /\ r[0] = b
    /\ \A k \in 1 .. n : r[k] = CopyPage(r[k - 1], space, area.start + k - 1)

(* from_existed_user copies the pages of an area in order ...              *)
LEMMA CopyPagesLoop ==
  ASSUME NEW b, NEW space, NEW area, NEW n \in Nat, n = area.pages
  PROVE  \E r : CopyPagesRun(b, space, area, n, r)
<1> DEFINE G(r, m) == [k \in 0 .. m |-> IF k = 0 THEN b ELSE CopyPage(r[k - 1], space, area.start + k - 1)]
<1>1. PICK S : S = {m \in 0 .. n : \E r : r = G(r, m)}
  OBVIOUS
<1>2. 0 \in S
  <2>1. PICK r : r = [k \in 0 .. 0 |-> b]
    OBVIOUS
  <2>2. r = G(r, 0)
    BY <2>1
  <2>3. 0 \in 0 .. n
    OBVIOUS
  <2> QED BY <1>1, <2>2, <2>3, Zenon
<1>3. ASSUME NEW m \in 1 .. n, m - 1 \in S PROVE m \in S
  <2>1. PICK r : r = G(r, m - 1)
    BY <1>1, <1>3
  <2>2. PICK q : q = [k \in 0 .. m |-> IF k = m THEN CopyPage(r[m - 1], space, area.start + m - 1) ELSE r[k]]
    OBVIOUS
  <2>3. ASSUME NEW k \in 0 .. m PROVE q[k] = IF k = 0 THEN b ELSE CopyPage(q[k - 1], space, area.start + k - 1)
    <3>1. CASE k = m
      BY <2>2, <3>1
    <3>2. CASE k # m /\ k # 0
      <4>1. k \in 0 .. m - 1 /\ k - 1 \in 0 .. m /\ k - 1 # m
        BY <3>2
      <4>2. r[k] = CopyPage(r[k - 1], space, area.start + k - 1)
        BY <2>1, <3>2, <4>1
      <4> QED BY <2>2, <3>2, <4>1, <4>2
    <3>3. CASE k = 0
      <4>1. 0 # m /\ 0 \in 0 .. m - 1
        OBVIOUS
      <4>2. r[0] = b
        BY <2>1, <4>1
      <4> QED BY <2>2, <3>3, <4>1, <4>2
    <3> QED BY <3>1, <3>2, <3>3
  <2>4. q = G(q, m)
    BY <2>2, <2>3
  <2>5. m \in 0 .. n
    OBVIOUS
  <2> QED BY <1>1, <2>4, <2>5, Zenon
<1>4. n \in S
  BY <1>2, <1>3, Climb
<1>5. \E r : r = G(r, n)
  BY <1>1, <1>4
<1>6. PICK r : CopyPages(b, space, area) = r[n] /\ r = G(r, n)
  BY <1>5 DEF CopyPages, Iterate
<1>7. r[0] = b /\ \A k \in 1 .. n : r[k] = CopyPage(r[k - 1], space, area.start + k - 1)
  BY <1>6
<1> QED BY <1>6, <1>7 DEF CopyPagesRun

CopyAreasRun(b, space, n, r) ==
    /\ CopyAreas(b, space) = r[n] /\ r[0] = b
    /\ \A k \in 1 .. n : r[k] = CopyArea(r[k - 1], space, space.areas[k])

(* ... and area after area.                                                *)
LEMMA CopyAreasLoop ==
  ASSUME NEW b, NEW space, NEW n \in Nat, n = Len(space.areas)
  PROVE  \E r : CopyAreasRun(b, space, n, r)
<1> DEFINE G(r, m) == [k \in 0 .. m |-> IF k = 0 THEN b ELSE CopyArea(r[k - 1], space, space.areas[k])]
<1>1. PICK S : S = {m \in 0 .. n : \E r : r = G(r, m)}
  OBVIOUS
<1>2. 0 \in S
  <2>1. PICK r : r = [k \in 0 .. 0 |-> b]
    OBVIOUS
  <2>2. r = G(r, 0)
    BY <2>1
  <2>3. 0 \in 0 .. n
    OBVIOUS
  <2> QED BY <1>1, <2>2, <2>3, Zenon
<1>3. ASSUME NEW m \in 1 .. n, m - 1 \in S PROVE m \in S
  <2>1. PICK r : r = G(r, m - 1)
    BY <1>1, <1>3
  <2>2. PICK q : q = [k \in 0 .. m |-> IF k = m THEN CopyArea(r[m - 1], space, space.areas[m]) ELSE r[k]]
    OBVIOUS
  <2>3. ASSUME NEW k \in 0 .. m PROVE q[k] = IF k = 0 THEN b ELSE CopyArea(q[k - 1], space, space.areas[k])
    <3>1. CASE k = m
      BY <2>2, <3>1
    <3>2. CASE k # m /\ k # 0
      <4>1. k \in 0 .. m - 1 /\ k - 1 \in 0 .. m /\ k - 1 # m
        BY <3>2
      <4>2. r[k] = CopyArea(r[k - 1], space, space.areas[k])
        BY <2>1, <3>2, <4>1
      <4> QED BY <2>2, <3>2, <4>1, <4>2
    <3>3. CASE k = 0
      <4>1. 0 # m /\ 0 \in 0 .. m - 1
        OBVIOUS
      <4>2. r[0] = b
        BY <2>1, <4>1
      <4> QED BY <2>2, <3>3, <4>1, <4>2
    <3> QED BY <3>1, <3>2, <3>3
  <2>4. q = G(q, m)
    BY <2>2, <2>3
  <2>5. m \in 0 .. n
    OBVIOUS
  <2> QED BY <1>1, <2>4, <2>5, Zenon
<1>4. n \in S
  BY <1>2, <1>3, Climb
<1>5. \E r : r = G(r, n)
  BY <1>1, <1>4
<1>6. PICK r : CopyAreas(b, space) = r[n] /\ r = G(r, n)
  BY <1>5 DEF CopyAreas, Iterate
<1>7. r[0] = b /\ \A k \in 1 .. n : r[k] = CopyArea(r[k - 1], space, space.areas[k])
  BY <1>6, SMTT(30)
<1> QED BY <1>6, <1>7 DEF CopyAreasRun

RecycleDataPagesRun(b, space, n, r) ==
    /\ RecycleDataPages(b, space) = r[n] /\ r[0] = b
    /\ \A k \in 1 .. n : r[k] = Dropped(r[k - 1], space.areas[k].frames)

(* recycle_data_pages drops the areas in order.                            *)
LEMMA RecycleDataPagesLoop ==
  ASSUME NEW b, NEW space, NEW n \in Nat, n = Len(space.areas)
  PROVE  \E r : RecycleDataPagesRun(b, space, n, r)
<1> DEFINE G(r, m) == [k \in 0 .. m |-> IF k = 0 THEN b ELSE Dropped(r[k - 1], space.areas[k].frames)]
<1>1. PICK S : S = {m \in 0 .. n : \E r : r = G(r, m)}
  OBVIOUS
<1>2. 0 \in S
  <2>1. PICK r : r = [k \in 0 .. 0 |-> b]
    OBVIOUS
  <2>2. r = G(r, 0)
    BY <2>1
  <2>3. 0 \in 0 .. n
    OBVIOUS
  <2> QED BY <1>1, <2>2, <2>3, Zenon
<1>3. ASSUME NEW m \in 1 .. n, m - 1 \in S PROVE m \in S
  <2>1. PICK r : r = G(r, m - 1)
    BY <1>1, <1>3
  <2>2. PICK q : q = [k \in 0 .. m |-> IF k = m THEN Dropped(r[m - 1], space.areas[m].frames) ELSE r[k]]
    OBVIOUS
  <2>3. ASSUME NEW k \in 0 .. m PROVE q[k] = IF k = 0 THEN b ELSE Dropped(q[k - 1], space.areas[k].frames)
    <3>1. CASE k = m
      BY <2>2, <3>1
    <3>2. CASE k # m /\ k # 0
      <4>1. k \in 0 .. m - 1 /\ k - 1 \in 0 .. m /\ k - 1 # m
        BY <3>2
      <4>2. r[k] = Dropped(r[k - 1], space.areas[k].frames)
        BY <2>1, <3>2, <4>1
      <4> QED BY <2>2, <3>2, <4>1, <4>2
    <3>3. CASE k = 0
      <4>1. 0 # m /\ 0 \in 0 .. m - 1
        OBVIOUS
      <4>2. r[0] = b
        BY <2>1, <4>1
      <4> QED BY <2>2, <3>3, <4>1, <4>2
    <3> QED BY <3>1, <3>2, <3>3
  <2>4. q = G(q, m)
    BY <2>2, <2>3
  <2>5. m \in 0 .. n
    OBVIOUS
  <2> QED BY <1>1, <2>4, <2>5, Zenon
<1>4. n \in S
  BY <1>2, <1>3, Climb
<1>5. \E r : r = G(r, n)
  BY <1>1, <1>4
<1>6. PICK r : RecycleDataPages(b, space) = r[n] /\ r = G(r, n)
  BY <1>5 DEF RecycleDataPages, Iterate
<1>7. r[0] = b /\ \A k \in 1 .. n : r[k] = Dropped(r[k - 1], space.areas[k].frames)
  BY <1>6
<1> QED BY <1>6, <1>7 DEF RecycleDataPagesRun

UnmapAreaRun(b, area, n, r) ==
    /\ UnmapArea(b, area) = r[n] /\ r[0] = b
    /\ \A k \in 1 .. n : r[k] = UnmapOne(r[k - 1], area.start + k - 1, area.frames[k])

(* unmap goes through the pages of an area in order.                       *)
LEMMA UnmapAreaLoop ==
  ASSUME NEW b, NEW area, NEW n \in Nat, n = area.pages
  PROVE  \E r : UnmapAreaRun(b, area, n, r)
<1> DEFINE G(r, m) == [k \in 0 .. m |-> IF k = 0 THEN b ELSE UnmapOne(r[k - 1], area.start + k - 1, area.frames[k])]
<1>1. PICK S : S = {m \in 0 .. n : \E r : r = G(r, m)}
  OBVIOUS
<1>2. 0 \in S
  <2>1. PICK r : r = [k \in 0 .. 0 |-> b]
    OBVIOUS
  <2>2. r = G(r, 0)
    BY <2>1
  <2>3. 0 \in 0 .. n
    OBVIOUS
  <2> QED BY <1>1, <2>2, <2>3, Zenon
<1>3. ASSUME NEW m \in 1 .. n, m - 1 \in S PROVE m \in S
  <2>1. PICK r : r = G(r, m - 1)
    BY <1>1, <1>3
  <2>2. PICK q : q = [k \in 0 .. m |-> IF k = m THEN UnmapOne(r[m - 1], area.start + m - 1, area.frames[m]) ELSE r[k]]
    OBVIOUS
  <2>3. ASSUME NEW k \in 0 .. m PROVE q[k] = IF k = 0 THEN b ELSE UnmapOne(q[k - 1], area.start + k - 1, area.frames[k])
    <3>1. CASE k = m
      BY <2>2, <3>1
    <3>2. CASE k # m /\ k # 0
      <4>1. k \in 0 .. m - 1 /\ k - 1 \in 0 .. m /\ k - 1 # m
        BY <3>2
      <4>2. r[k] = UnmapOne(r[k - 1], area.start + k - 1, area.frames[k])
        BY <2>1, <3>2, <4>1
      <4> QED BY <2>2, <3>2, <4>1, <4>2
    <3>3. CASE k = 0
      <4>1. 0 # m /\ 0 \in 0 .. m - 1
        OBVIOUS
      <4>2. r[0] = b
        BY <2>1, <4>1
      <4> QED BY <2>2, <3>3, <4>1, <4>2
    <3> QED BY <3>1, <3>2, <3>3
  <2>4. q = G(q, m)
    BY <2>2, <2>3
  <2>5. m \in 0 .. n
    OBVIOUS
  <2> QED BY <1>1, <2>4, <2>5, Zenon
<1>4. n \in S
  BY <1>2, <1>3, Climb
<1>5. \E r : r = G(r, n)
  BY <1>1, <1>4
<1>6. PICK r : UnmapArea(b, area) = r[n] /\ r = G(r, n)
  BY <1>5 DEF UnmapArea, Iterate
<1>7. r[0] = b /\ \A k \in 1 .. n : r[k] = UnmapOne(r[k - 1], area.start + k - 1, area.frames[k])
  BY <1>6
<1> QED BY <1>6, <1>7 DEF UnmapAreaRun

-----------------------------------------------------------------------------
(* The frame allocator.                                                     *)
Page == [0 .. PTES - 1 -> Word]

AreaSet == [start : Nat, pages : Nat, perm : SUBSET {"R", "W", "X", "U"},
            frames : Seq(Frames)]

Machines == [mem : [Frames -> Page], current : MemoryStart .. MemoryEnd,
             recycled : Seq(Frames), panic : {"none", "space", "assert"},
             nodes : Seq(Frames), areas : Seq(AreaSet), at : Nat, got : Nat]

Fields == {"mem", "current", "recycled", "panic", "nodes", "areas", "at", "got"}

(* An operation that found no frame.                                        *)
Stuck(b) == DOMAIN b = Fields /\ b.panic = "space"

(* The frames that are handed out.                                          *)
Held(b) == (MemoryStart .. b.current - 1) \ Range(b.recycled)

(* An operation that goes on, with an allocator that has no frame twice.    *)
Running(b) ==
    /\ b \in Machines /\ b.panic = "none"
    /\ IsInjective(b.recycled)
    /\ Range(b.recycled) \subseteq MemoryStart .. b.current - 1

(* The fields of a machine.                                                 *)
LEMMA MachineFacts ==
  ASSUME NEW b, Running(b)
  PROVE  /\ DOMAIN b = Fields
         /\ b.mem \in [Frames -> Page] /\ b.current \in MemoryStart .. MemoryEnd
         /\ b.recycled \in Seq(Frames) /\ b.panic = "none"
         /\ b.nodes \in Seq(Frames) /\ b.areas \in Seq(AreaSet)
         /\ b.at \in Nat /\ b.got \in Nat
         /\ Held(b) \subseteq Frames
<1>1. MemoryStart \in Nat /\ MemoryEnd \in Nat
  BY MemoryAssumption
<1> QED BY <1>1 DEF Running, Machines, Fields, Held, Frames

(* Frames before use are zeroed.                                            *)
LEMMA ZeroPageType == ZeroPage \in Page /\ Empty \in Word /\ ~Valid(Empty)
                      /\ \A i \in 0 .. PTES - 1 : ZeroPage[i] = Empty
<1>1. Empty \in Word /\ ~Valid(Empty)
  BY DEF Empty, Word, Valid
<1> QED BY <1>1 DEF ZeroPage, Page

(* alloc: no frame left, or one that nobody held, zeroed.                   *)
LEMMA AllocFacts ==
  ASSUME NEW b, Running(b), NEW a, a = FrameAlloc(b)
  PROVE  \/ Stuck(a)
         \/ /\ Running(a)
            /\ a.got \in Frames /\ a.got \notin Held(b)
            /\ Held(a) = Held(b) \cup {a.got}
            /\ a.mem = [b.mem EXCEPT ![a.got] = ZeroPage]
            /\ a.nodes = b.nodes /\ a.areas = b.areas /\ a.at = b.at
<1>0. MemoryStart \in Nat /\ MemoryEnd \in Nat
  BY MemoryAssumption
<1>1. CASE b.recycled # <<>>
  <2>1. PICK e : e = Last(b.recycled)
    OBVIOUS
  <2>2. PICK r : r = Front(b.recycled)
    OBVIOUS
  <2>3. /\ e \in Frames /\ r \in Seq(Frames) /\ Range(b.recycled) = Range(r) \cup {e}
        /\ IsInjective(r) /\ e \notin Range(r)
    BY <1>1, <2>1, <2>2, PopFacts DEF Running, Machines, Last, Front
  <2>4. a = [b EXCEPT !.got = e, !.recycled = r, !.mem = [b.mem EXCEPT ![e] = ZeroPage]]
    BY <1>1, <2>1, <2>2 DEF FrameAlloc, NewFrame, Running, Machines
  <2>5. /\ a.got = e /\ a.recycled = r /\ a.mem = [b.mem EXCEPT ![e] = ZeroPage]
        /\ a.current = b.current /\ a.nodes = b.nodes /\ a.areas = b.areas
        /\ a.at = b.at /\ a.panic = "none"
    BY <2>4 DEF Running, Machines
  <2>6. e \in Nat /\ e \notin Held(b) /\ Held(a) = Held(b) \cup {e}
    BY <1>0, <2>3, <2>5 DEF Held, Running, Frames
  <2>7. a \in Machines
    <3>1. a.mem \in [Frames -> Page]
      BY <2>3, <2>5, ZeroPageType DEF Running, Machines
    <3> QED BY <2>3, <2>4, <2>6, <3>1 DEF Running, Machines
  <2> QED BY <2>3, <2>5, <2>6, <2>7 DEF Running
<1>2. CASE b.recycled = <<>> /\ b.current = MemoryEnd
  <2>1. a = [b EXCEPT !.panic = "space"]
    BY <1>2 DEF FrameAlloc, Running, Machines
  <2> QED BY <2>1 DEF Stuck, Fields, Running, Machines
<1>3. CASE b.recycled = <<>> /\ b.current # MemoryEnd
  <2>1. PICK e : e = b.current
    OBVIOUS
  <2>2. a = [b EXCEPT !.got = e, !.current = e + 1, !.mem = [b.mem EXCEPT ![e] = ZeroPage]]
    BY <1>3, <2>1 DEF FrameAlloc, NewFrame, Running, Machines
  <2>3. /\ a.got = e /\ a.recycled = b.recycled /\ a.mem = [b.mem EXCEPT ![e] = ZeroPage]
        /\ a.current = e + 1 /\ a.nodes = b.nodes /\ a.areas = b.areas
        /\ a.at = b.at /\ a.panic = "none"
    BY <2>2 DEF Running, Machines
  <2>4. e \in Frames /\ e \in Nat /\ e + 1 \in MemoryStart .. MemoryEnd
    <3>1. b.current \in MemoryStart .. MemoryEnd
      BY MachineFacts
    <3> QED BY <1>0, <1>3, <2>1, <3>1 DEF Frames
  <2>5. Range(b.recycled) = {}
    BY <1>3 DEF Range
  <2>6. e \notin Held(b) /\ Held(a) = Held(b) \cup {e}
    BY <1>0, <2>1, <2>3, <2>4, <2>5 DEF Held, Frames
  <2>7. a \in Machines
    <3>1. a.mem \in [Frames -> Page]
      BY <2>3, <2>4, ZeroPageType DEF Running, Machines
    <3> QED BY <2>2, <2>4, <3>1 DEF Running, Machines
  <2> QED BY <2>3, <2>4, <2>5, <2>6, <2>7 DEF Running
<1> QED BY <1>1, <1>2, <1>3

(* dealloc takes back a frame that is held: its assertion holds.            *)
LEMMA DeallocFacts ==
  ASSUME NEW b, Running(b), NEW ppn \in Held(b), NEW d, d = FrameDealloc(b, ppn)
  PROVE  /\ Running(d) /\ Held(d) = Held(b) \ {ppn}
         /\ d.mem = b.mem /\ d.nodes = b.nodes /\ d.areas = b.areas
<1>0. MemoryStart \in Nat /\ MemoryEnd \in Nat
  BY MemoryAssumption
<1>1. PICK r : r = Append(b.recycled, ppn)
  OBVIOUS
<1>2. /\ ppn \in Frames /\ ppn \in MemoryStart .. b.current - 1 /\ ppn \notin Range(b.recycled)
      /\ ~(ppn >= b.current)
  BY <1>0 DEF Held, Running, Machines, Frames
<1>3. /\ r \in Seq(Frames) /\ Range(r) = Range(b.recycled) \cup {ppn} /\ IsInjective(r)
  BY <1>1, <1>2, AppendFacts DEF Running, Machines
<1>4. d = [b EXCEPT !.recycled = r]
  BY <1>1, <1>2 DEF FrameDealloc, Running, Machines
<1>5. /\ d.recycled = r /\ d.current = b.current /\ d.mem = b.mem /\ d.nodes = b.nodes
      /\ d.areas = b.areas /\ d.panic = "none" /\ d \in Machines
  BY <1>3, <1>4 DEF Running, Machines
<1>6. Held(d) = Held(b) \ {ppn}
  BY <1>3, <1>5 DEF Held
<1>7. Range(d.recycled) \subseteq MemoryStart .. d.current - 1
  BY <1>2, <1>3, <1>5 DEF Running
<1> QED BY <1>3, <1>5, <1>6, <1>7 DEF Running

-----------------------------------------------------------------------------
(* Page tables.  The walk of find_pte by its three indexes.                 *)
Walk(m, root, i, j, k) == Child(m, Child(m, m[root][i], j), k)

(* The nodes N form a tree of three levels: lv is the level of a node and   *)
(* px, py are the indexes that lead to it, so that two walks that differ in *)
(* an index never meet.                                                     *)
Shape(m, N, root, lv, px, py) ==
    /\ N \subseteq Frames /\ root \in N /\ lv[root] = 0
    /\ \A x \in N, i \in 0 .. PTES - 1 :
         lv[x] = 0 /\ Valid(m[x][i]) =>
           m[x][i].ppn \in N /\ lv[m[x][i].ppn] = 1 /\ px[m[x][i].ppn] = i
    /\ \A x \in N, i \in 0 .. PTES - 1 :
         lv[x] = 1 /\ Valid(m[x][i]) =>
           /\ m[x][i].ppn \in N /\ lv[m[x][i].ppn] = 2
           /\ px[m[x][i].ppn] = px[x] /\ py[m[x][i].ppn] = i

IsTree(m, N, root) == \E lv, px, py : Shape(m, N, root, lv, px, py)

Table(m, nodes) ==
    nodes \in Seq(Frames) /\ nodes # <<>> /\ IsTree(m, Range(nodes), Head(nodes))

(* No translation changes.                                                  *)
SameTable(m, m2, root) ==
    \A i, j, k \in 0 .. PTES - 1 : Walk(m2, root, i, j, k) = Walk(m, root, i, j, k)

(* A walk reads nodes only.                                                 *)
LEMMA WalkFrame ==
  ASSUME NEW m, NEW m2, NEW N, NEW root, NEW lv, NEW px, NEW py,
         Shape(m, N, root, lv, px, py), \A x \in N : m2[x] = m[x]
  PROVE  Shape(m2, N, root, lv, px, py) /\ SameTable(m, m2, root)
<1>1. Shape(m2, N, root, lv, px, py)
  BY DEF Shape
<1>2. ASSUME NEW i \in 0 .. PTES - 1, NEW j \in 0 .. PTES - 1, NEW k \in 0 .. PTES - 1
      PROVE  Walk(m2, root, i, j, k) = Walk(m, root, i, j, k)
  <2>1. m2[root][i] = m[root][i]
    BY DEF Shape
  <2>2. CASE ~Valid(m[root][i])
    BY <2>1, <2>2, ZeroPageType DEF Walk, Child
  <2>3. CASE Valid(m[root][i])
    <3>1. PICK c : c = m[root][i].ppn
      OBVIOUS
    <3>2. c \in N /\ lv[c] = 1
      BY <2>3, <3>1 DEF Shape
    <3>3. m2[c][j] = m[c][j]
      BY <3>2
    <3>4. CASE ~Valid(m[c][j])
      BY <2>1, <2>3, <3>1, <3>3, <3>4 DEF Walk, Child
    <3>5. CASE Valid(m[c][j])
      <4>1. m[c][j].ppn \in N
        BY <3>2, <3>5 DEF Shape
      <4> QED BY <2>1, <2>3, <3>1, <3>3, <3>5, <4>1 DEF Walk, Child
    <3> QED BY <3>4, <3>5
  <2> QED BY <2>2, <2>3
<1> QED BY <1>1, <1>2 DEF SameTable

(* The entry of a new node.                                                 *)
LEMMA NodeEntryFacts ==
  ASSUME NEW g \in Frames
  PROVE  NodeEntry(g) \in Word /\ Valid(NodeEntry(g)) /\ NodeEntry(g).ppn = g
<1>1. g \in Nat
  BY MemoryAssumption DEF Frames
<1> QED BY <1>1 DEF Word, Valid, NodeEntry

(* Node g is new and zeroed, and entered at index i of node x.              *)
Entered(m, m2, N, x, i, g) ==
    /\ g \in Frames /\ g \notin N
    /\ Valid(m2[x][i]) /\ m2[x][i].ppn = g
    /\ \A h \in 0 .. PTES - 1 : h # i => m2[x][h] = m[x][h]
    /\ \A h \in 0 .. PTES - 1 : m2[g][h] = Empty
    /\ \A y \in N : y # x => m2[y] = m[y]

(* A node made below the root: the tree grows, no translation changes.      *)
LEMMA AddBelowRoot ==
  ASSUME NEW m, NEW m2, NEW N, NEW root, NEW lv, NEW px, NEW py,
         Shape(m, N, root, lv, px, py), NEW i \in 0 .. PTES - 1, ~Valid(m[root][i]),
         NEW g, Entered(m, m2, N, root, i, g)
  PROVE  IsTree(m2, N \cup {g}, root) /\ SameTable(m, m2, root)
<1> USE DEF Entered
<1>1. PICK lw : lw = [x \in N \cup {g} |-> IF x = g THEN 1 ELSE lv[x]]
  OBVIOUS
<1>2. PICK pw : pw = [x \in N \cup {g} |-> IF x = g THEN i ELSE px[x]]
  OBVIOUS
<1>3. PICK qw : qw = [x \in N \cup {g} |-> IF x = g THEN 0 ELSE py[x]]
  OBVIOUS
<1>4. /\ lw[g] = 1 /\ pw[g] = i
      /\ \A x \in N : x # g /\ lw[x] = lv[x] /\ pw[x] = px[x] /\ qw[x] = py[x]
  BY <1>1, <1>2, <1>3
<1>5. root \in N /\ lv[root] = 0 /\ N \cup {g} \subseteq Frames
  BY DEF Shape
<1>6. \A h \in 0 .. PTES - 1 : ~Valid(m2[g][h])
  BY ZeroPageType
<1>7. ASSUME NEW x \in N \cup {g}, NEW h \in 0 .. PTES - 1, Valid(m2[x][h]), lw[x] = 0
      PROVE  m2[x][h].ppn \in N \cup {g} /\ lw[m2[x][h].ppn] = 1 /\ pw[m2[x][h].ppn] = h
  <2>1. x \in N /\ lv[x] = 0
    BY <1>4, <1>6, <1>7
  <2>2. CASE x = root /\ h = i
    BY <1>4, <2>2
  <2>3. CASE ~(x = root /\ h = i)
    <3>1. m2[x][h] = m[x][h]
      BY <2>1, <2>3
    <3>2. m[x][h].ppn \in N /\ lv[m[x][h].ppn] = 1 /\ px[m[x][h].ppn] = h
      BY <1>7, <2>1, <3>1 DEF Shape
    <3> QED BY <1>4, <3>1, <3>2
  <2> QED BY <2>2, <2>3
<1>8. ASSUME NEW x \in N \cup {g}, NEW h \in 0 .. PTES - 1, Valid(m2[x][h]), lw[x] = 1
      PROVE  /\ m2[x][h].ppn \in N \cup {g} /\ lw[m2[x][h].ppn] = 2
             /\ pw[m2[x][h].ppn] = pw[x] /\ qw[m2[x][h].ppn] = h
  <2>1. x \in N /\ lv[x] = 1 /\ x # root
    BY <1>4, <1>5, <1>6, <1>8
  <2>2. m2[x][h] = m[x][h]
    BY <2>1
  <2>3. /\ m[x][h].ppn \in N /\ lv[m[x][h].ppn] = 2 /\ px[m[x][h].ppn] = px[x]
        /\ py[m[x][h].ppn] = h
    BY <1>8, <2>1, <2>2 DEF Shape
  <2> QED BY <1>4, <2>1, <2>2, <2>3
<1>9. Shape(m2, N \cup {g}, root, lw, pw, qw)
  BY <1>4, <1>5, <1>7, <1>8 DEF Shape
<1>10. ASSUME NEW a \in 0 .. PTES - 1, NEW b \in 0 .. PTES - 1, NEW c \in 0 .. PTES - 1
       PROVE  Walk(m2, root, a, b, c) = Walk(m, root, a, b, c)
  <2>1. CASE a = i
    <3>1. Walk(m, root, a, b, c) = Empty
      BY <2>1, ZeroPageType DEF Walk, Child
    <3>2. Walk(m2, root, a, b, c) = Empty
      BY <2>1, ZeroPageType DEF Walk, Child
    <3> QED BY <3>1, <3>2
  <2>2. CASE a # i
    <3>1. m2[root][a] = m[root][a]
      BY <2>2
    <3>2. CASE ~Valid(m[root][a])
      BY <3>1, <3>2, ZeroPageType DEF Walk, Child
    <3>3. CASE Valid(m[root][a])
      <4>1. PICK y : y = m[root][a].ppn
        OBVIOUS
      <4>2. y \in N /\ lv[y] = 1 /\ y # root
        BY <1>5, <3>3, <4>1 DEF Shape
      <4>3. m2[y][b] = m[y][b]
        BY <4>2
      <4>4. CASE ~Valid(m[y][b])
        BY <3>1, <3>3, <4>1, <4>3, <4>4 DEF Walk, Child
      <4>5. CASE Valid(m[y][b])
        <5>1. m[y][b].ppn \in N /\ m[y][b].ppn # root
          BY <1>5, <4>2, <4>5 DEF Shape
        <5> QED BY <3>1, <3>3, <4>1, <4>3, <4>5, <5>1 DEF Walk, Child
      <4> QED BY <4>4, <4>5
    <3> QED BY <3>2, <3>3
  <2> QED BY <2>1, <2>2
<1>11. IsTree(m2, N \cup {g}, root)
  BY <1>9, Zenon DEF IsTree
<1>12. SameTable(m, m2, root)
  BY <1>10, Zenon DEF SameTable
<1> QED BY <1>11, <1>12

(* A node made on the second level.                                         *)
LEMMA AddBelowNode ==
  ASSUME NEW m, NEW m2, NEW N, NEW root, NEW lv, NEW px, NEW py,
         Shape(m, N, root, lv, px, py),
         NEW i \in 0 .. PTES - 1, Valid(m[root][i]), NEW x, x = m[root][i].ppn,
         NEW j \in 0 .. PTES - 1, ~Valid(m[x][j]), NEW g, Entered(m, m2, N, x, j, g)
  PROVE  IsTree(m2, N \cup {g}, root) /\ SameTable(m, m2, root) /\ x # root /\ x \in N
<1> USE DEF Entered
<1>1. PICK lw : lw = [y \in N \cup {g} |-> IF y = g THEN 2 ELSE lv[y]]
  OBVIOUS
<1>2. PICK pw : pw = [y \in N \cup {g} |-> IF y = g THEN i ELSE px[y]]
  OBVIOUS
<1>3. PICK qw : qw = [y \in N \cup {g} |-> IF y = g THEN j ELSE py[y]]
  OBVIOUS
<1>4. /\ lw[g] = 2 /\ pw[g] = i /\ qw[g] = j
      /\ \A y \in N : y # g /\ lw[y] = lv[y] /\ pw[y] = px[y] /\ qw[y] = py[y]
  BY <1>1, <1>2, <1>3
<1>5. /\ root \in N /\ lv[root] = 0 /\ N \cup {g} \subseteq Frames
      /\ x \in N /\ lv[x] = 1 /\ px[x] = i /\ x # root
  BY DEF Shape
<1>6. \A h \in 0 .. PTES - 1 : ~Valid(m2[g][h])
  BY ZeroPageType
<1>7. ASSUME NEW y \in N \cup {g}, NEW h \in 0 .. PTES - 1, Valid(m2[y][h]), lw[y] = 0
      PROVE  m2[y][h].ppn \in N \cup {g} /\ lw[m2[y][h].ppn] = 1 /\ pw[m2[y][h].ppn] = h
  <2>1. y \in N /\ lv[y] = 0 /\ y # x
    BY <1>4, <1>5, <1>6, <1>7
  <2>2. m2[y][h] = m[y][h]
    BY <2>1
  <2>3. m[y][h].ppn \in N /\ lv[m[y][h].ppn] = 1 /\ px[m[y][h].ppn] = h
    BY <1>7, <2>1, <2>2 DEF Shape
  <2> QED BY <1>4, <2>2, <2>3
<1>8. ASSUME NEW y \in N \cup {g}, NEW h \in 0 .. PTES - 1, Valid(m2[y][h]), lw[y] = 1
      PROVE  /\ m2[y][h].ppn \in N \cup {g} /\ lw[m2[y][h].ppn] = 2
             /\ pw[m2[y][h].ppn] = pw[y] /\ qw[m2[y][h].ppn] = h
  <2>1. y \in N /\ lv[y] = 1
    BY <1>4, <1>5, <1>6, <1>8
  <2>2. CASE y = x /\ h = j
    BY <1>4, <1>5, <2>2
  <2>3. CASE ~(y = x /\ h = j)
    <3>1. m2[y][h] = m[y][h]
      BY <2>1, <2>3
    <3>2. /\ m[y][h].ppn \in N /\ lv[m[y][h].ppn] = 2 /\ px[m[y][h].ppn] = px[y]
          /\ py[m[y][h].ppn] = h
      BY <1>8, <2>1, <3>1 DEF Shape
    <3> QED BY <1>4, <2>1, <3>1, <3>2
  <2> QED BY <2>2, <2>3
<1>9. Shape(m2, N \cup {g}, root, lw, pw, qw)
  BY <1>4, <1>5, <1>7, <1>8 DEF Shape
<1>10. ASSUME NEW a \in 0 .. PTES - 1, NEW b \in 0 .. PTES - 1, NEW c \in 0 .. PTES - 1
       PROVE  Walk(m2, root, a, b, c) = Walk(m, root, a, b, c)
  <2>0. m2[root] = m[root]
    BY <1>5
  <2>1. CASE ~Valid(m[root][a])
    BY <2>0, <2>1, ZeroPageType DEF Walk, Child
  <2>2. CASE Valid(m[root][a])
    <3>1. PICK y : y = m[root][a].ppn
      OBVIOUS
    <3>2. y \in N /\ lv[y] = 1 /\ px[y] = a
      BY <1>5, <2>2, <3>1 DEF Shape
    <3>3. CASE a = i /\ b = j
      <4>1. y = x
        BY <3>1, <3>3
      <4>2. Walk(m, root, a, b, c) = Empty
        BY <2>2, <3>1, <3>3, <4>1, ZeroPageType DEF Walk, Child
      <4>3. Walk(m2, root, a, b, c) = Empty
        BY <2>0, <2>2, <3>1, <3>3, <4>1, ZeroPageType DEF Walk, Child
      <4> QED BY <4>2, <4>3
    <3>4. CASE ~(a = i /\ b = j)
      <4>1. m2[y][b] = m[y][b]
        BY <1>5, <3>1, <3>2, <3>4
      <4>2. CASE ~Valid(m[y][b])
        BY <2>0, <2>2, <3>1, <4>1, <4>2 DEF Walk, Child
      <4>3. CASE Valid(m[y][b])
        <5>1. m[y][b].ppn \in N /\ m[y][b].ppn # x
          BY <1>5, <3>2, <4>3 DEF Shape
        <5> QED BY <2>0, <2>2, <3>1, <4>1, <4>3, <5>1, SMTT(30) DEF Walk, Child
      <4> QED BY <4>2, <4>3
    <3> QED BY <3>3, <3>4
  <2> QED BY <2>1, <2>2
<1>11. IsTree(m2, N \cup {g}, root)
  BY <1>9, Zenon DEF IsTree
<1>12. SameTable(m, m2, root)
  BY <1>10, Zenon DEF SameTable
<1> QED BY <1>5, <1>11, <1>12

(* The entry at index k of node x becomes e.                                *)
Written(m, m2, N, x, k, e) ==
    /\ m2[x][k] = e /\ \A h \in 0 .. PTES - 1 : h # k => m2[x][h] = m[x][h]
    /\ \A z \in N : z # x => m2[z] = m[z]

(* Node x is the leaf that indexes i and j lead to.                         *)
LeafOf(m, root, i, j, x) ==
    /\ Valid(m[root][i]) /\ Valid(m[m[root][i].ppn][j])
    /\ x = m[m[root][i].ppn][j].ppn

(* A leaf is a node of the third level.                                     *)
LEMMA LeafFacts ==
  ASSUME NEW m, NEW N, NEW root, NEW lv, NEW px, NEW py, Shape(m, N, root, lv, px, py),
         NEW i \in 0 .. PTES - 1, NEW j \in 0 .. PTES - 1, NEW x, LeafOf(m, root, i, j, x)
  PROVE  /\ m[root][i].ppn \in N /\ lv[m[root][i].ppn] = 1
         /\ x \in N /\ lv[x] = 2 /\ px[x] = i /\ py[x] = j
<1>1. PICK y : y = m[root][i].ppn
  OBVIOUS
<1>2. Valid(m[root][i]) /\ Valid(m[y][j]) /\ x = m[y][j].ppn
  BY <1>1 DEF LeafOf
<1>3. root \in N /\ lv[root] = 0 /\ y \in N /\ lv[y] = 1 /\ px[y] = i
  BY <1>1, <1>2 DEF Shape
<1>4. \A z \in N, h \in 0 .. PTES - 1 :
        lv[z] = 1 /\ Valid(m[z][h]) =>
          /\ m[z][h].ppn \in N /\ lv[m[z][h].ppn] = 2
          /\ px[m[z][h].ppn] = px[z] /\ py[m[z][h].ppn] = h
  BY DEF Shape
<1>5. m[y][j].ppn \in N /\ lv[m[y][j].ppn] = 2 /\ px[m[y][j].ppn] = px[y] /\ py[m[y][j].ppn] = j
  BY <1>2, <1>3, <1>4
<1> QED BY <1>1, <1>2, <1>3, <1>5, Zenon

(* The walk by i, j, k finds e, every other walk what it found.             *)
OneWalk(m, m2, root, i, j, k, e) ==
    /\ Walk(m2, root, i, j, k) = e
    /\ \A a, b, c \in 0 .. PTES - 1 :
         ~(a = i /\ b = j /\ c = k) => Walk(m2, root, a, b, c) = Walk(m, root, a, b, c)

(* An entry written in a leaf changes one translation.                      *)
LEMMA WriteLeaf ==
  ASSUME NEW m, NEW m2, NEW N, NEW root, IsTree(m, N, root),
         NEW i \in 0 .. PTES - 1, NEW j \in 0 .. PTES - 1, NEW k \in 0 .. PTES - 1,
         NEW x, LeafOf(m, root, i, j, x), NEW e, Written(m, m2, N, x, k, e)
  PROVE  /\ IsTree(m2, N, root) /\ x \in N
         /\ Walk(m, root, i, j, k) = m[x][k] /\ OneWalk(m, m2, root, i, j, k, e)
<1>0. PICK y : y = m[root][i].ppn
  OBVIOUS
<1>9. PICK lv, px, py : Shape(m, N, root, lv, px, py)
  BY DEF IsTree
<1>8. Valid(m[root][i]) /\ Valid(m[y][j]) /\ x = m[y][j].ppn
  BY <1>0 DEF LeafOf
<1>2. y \in N /\ lv[y] = 1 /\ x \in N /\ lv[x] = 2 /\ px[x] = i /\ py[x] = j
  BY <1>0, <1>9, LeafFacts
<1>1. root \in N /\ lv[root] = 0
  BY <1>9 DEF Shape
<1>3. \A z \in N : lv[z] # 2 => m2[z] = m[z]
  BY <1>2 DEF Written
<1>4. Shape(m2, N, root, lv, px, py)
  BY <1>3, <1>9 DEF Shape
<1>5. m2[root] = m[root] /\ m2[y] = m[y]
  BY <1>1, <1>2, <1>3
<1>6. Walk(m2, root, i, j, k) = e /\ Walk(m, root, i, j, k) = m[x][k]
  BY <1>0, <1>5, <1>8 DEF Walk, Child, Written
<1>7. ASSUME NEW a \in 0 .. PTES - 1, NEW b \in 0 .. PTES - 1, NEW c \in 0 .. PTES - 1,
             ~(a = i /\ b = j /\ c = k)
      PROVE  Walk(m2, root, a, b, c) = Walk(m, root, a, b, c)
  <2>1. CASE ~Valid(m[root][a])
    BY <1>5, <2>1, ZeroPageType DEF Walk, Child
  <2>2. CASE Valid(m[root][a])
    <3>1. PICK w : w = m[root][a].ppn
      OBVIOUS
    <3>2. w \in N /\ lv[w] = 1 /\ px[w] = a
      BY <1>1, <1>9, <2>2, <3>1 DEF Shape
    <3>3. m2[w] = m[w]
      BY <1>3, <3>2
    <3>4. CASE ~Valid(m[w][b])
      BY <1>5, <2>2, <3>1, <3>3, <3>4 DEF Walk, Child
    <3>5. CASE Valid(m[w][b])
      <4>1. PICK z : z = m[w][b].ppn
        OBVIOUS
      <4>2. z \in N /\ px[z] = a /\ py[z] = b
        BY <1>9, <3>2, <3>5, <4>1 DEF Shape
      <4>3. m2[z][c] = m[z][c]
        BY <1>2, <1>7, <4>2 DEF Written
      <4> QED BY <1>5, <2>2, <3>1, <3>3, <3>5, <4>1, <4>3 DEF Walk, Child
    <3> QED BY <3>4, <3>5
  <2> QED BY <2>1, <2>2
<1>10. IsTree(m2, N, root)
  BY <1>4, Zenon DEF IsTree
<1>11. OneWalk(m, m2, root, i, j, k, e)
  BY <1>6, <1>7, Zenon DEF OneWalk
<1> QED BY <1>2, <1>6, <1>10, <1>11

-----------------------------------------------------------------------------
(* Owners.  Column c of a space grows by a frame nobody owned.              *)
Grows(sp, sp2, n, c, g) ==
    /\ n \in Nat /\ Len(sp.areas) = n /\ Len(sp2.areas) = n
    /\ \A k \in 0 .. n : Column(sp, k) \in Seq(Frames)
    /\ g \in Frames /\ g \notin Owned(sp)
    /\ c \in 0 .. n /\ Column(sp2, c) = Append(Column(sp, c), g)
    /\ \A k \in 0 .. n : k # c => Column(sp2, k) = Column(sp, k)

(* Every frame of it still has one place.                                   *)
LEMMA OwnGrow ==
  ASSUME NEW sp, NEW sp2, NEW n, NEW c, NEW g, Grows(sp, sp2, n, c, g), OwnedOnce(sp)
  PROVE  OwnedOnce(sp2) /\ Owned(sp2) = Owned(sp) \cup {g}
<1> USE DEF Grows
<1>0. \A k, j \in 0 .. n : \A u \in DOMAIN Column(sp, k), v \in DOMAIN Column(sp, j) :
        Column(sp, k)[u] = Column(sp, j)[v] => k = j /\ u = v
  BY DEF OwnedOnce
<1>1. \A k \in 0 .. n : \A i \in DOMAIN Column(sp, k) : Column(sp, k)[i] # g
  BY DEF Owned, Range
<1>2. PICK l \in Nat : l = Len(Column(sp, c)) /\ DOMAIN Column(sp, c) = 1 .. l
  OBVIOUS
<1>3. /\ DOMAIN Column(sp2, c) = 1 .. l + 1 /\ Column(sp2, c)[l + 1] = g
      /\ \A i \in 1 .. l : Column(sp2, c)[i] = Column(sp, c)[i]
  BY <1>2
<1>4. Range(Column(sp2, c)) = Range(Column(sp, c)) \cup {g}
  BY AppendFacts
<1>5. Owned(sp2) = Owned(sp) \cup {g}
  <2>1. \A k \in 0 .. n : k # c => Range(Column(sp2, k)) = Range(Column(sp, k))
    OBVIOUS
  <2>2. ASSUME NEW x PROVE x \in Owned(sp2) <=> x \in Owned(sp) \cup {g}
    <3>1. x \in Owned(sp2) <=> \E k \in 0 .. n : x \in Range(Column(sp2, k))
      BY Zenon DEF Owned
    <3>2. x \in Owned(sp) <=> \E k \in 0 .. n : x \in Range(Column(sp, k))
      BY Zenon DEF Owned
    <3> QED BY <1>4, <2>1, <3>1, <3>2
  <2> QED BY <2>2
<1>6. ASSUME NEW k \in 0 .. n, NEW j \in 0 .. n,
             NEW u \in DOMAIN Column(sp2, k), NEW v \in DOMAIN Column(sp2, j),
             Column(sp2, k)[u] = Column(sp2, j)[v]
      PROVE  k = j /\ u = v
  <2>1. ASSUME NEW h \in 0 .. n, NEW w \in DOMAIN Column(sp2, h)
        PROVE  \/ h = c /\ w = l + 1 /\ Column(sp2, h)[w] = g
               \/ w \in DOMAIN Column(sp, h) /\ Column(sp2, h)[w] = Column(sp, h)[w]
    <3>1. CASE h = c /\ w = l + 1
      BY <1>3, <3>1
    <3>2. CASE h = c /\ w # l + 1
      BY <1>2, <1>3, <3>2, SMTT(30)
    <3>3. CASE h # c
      BY <3>3
    <3> QED BY <3>1, <3>2, <3>3
  <2>2. CASE Column(sp2, k)[u] = g
    <3>1. k = c /\ u = l + 1
      BY <1>1, <2>1, <2>2
    <3>2. j = c /\ v = l + 1
      BY <1>1, <1>6, <2>1, <2>2
    <3> QED BY <3>1, <3>2
  <2>3. CASE Column(sp2, k)[u] # g
    <3>1. u \in DOMAIN Column(sp, k) /\ Column(sp2, k)[u] = Column(sp, k)[u]
      BY <2>1, <2>3
    <3>2. v \in DOMAIN Column(sp, j) /\ Column(sp2, j)[v] = Column(sp, j)[v]
      BY <1>6, <2>1, <2>3
    <3>3. Column(sp, k)[u] = Column(sp, j)[v]
      BY <1>6, <3>1, <3>2, Zenon
    <3> QED BY <1>0, <3>1, <3>2, <3>3, Zenon
  <2> QED BY <2>2, <2>3
<1> QED BY <1>5, <1>6 DEF OwnedOnce

(* The columns of the space at hand.                                        *)
LEMMA ColumnFacts ==
  ASSUME NEW b, b.nodes \in Seq(Frames), b.areas \in Seq(AreaSet)
  PROVE  /\ SpaceOf(b).nodes = b.nodes /\ SpaceOf(b).areas = b.areas
         /\ Len(SpaceOf(b).areas) = Len(b.areas) /\ Len(b.areas) \in Nat
         /\ DOMAIN b.areas = 1 .. Len(b.areas)
         /\ Column(SpaceOf(b), 0) = b.nodes
         /\ \A k \in 1 .. Len(b.areas) : Column(SpaceOf(b), k) = b.areas[k].frames
         /\ \A k \in 0 .. Len(b.areas) : Column(SpaceOf(b), k) \in Seq(Frames)
         /\ Range(b.nodes) \subseteq Owned(SpaceOf(b))
         /\ \A k \in 1 .. Len(b.areas) : Range(b.areas[k].frames) \subseteq Owned(SpaceOf(b))
         /\ \A x \in Owned(SpaceOf(b)) :
              x \in Range(b.nodes) \/ \E k \in 1 .. Len(b.areas) : x \in Range(b.areas[k].frames)
<1>1. /\ SpaceOf(b).nodes = b.nodes /\ SpaceOf(b).areas = b.areas
      /\ Len(SpaceOf(b).areas) = Len(b.areas) /\ Len(b.areas) \in Nat
      /\ DOMAIN b.areas = 1 .. Len(b.areas)
  BY DEF SpaceOf
<1>2. Column(SpaceOf(b), 0) = b.nodes
  BY <1>1 DEF Column
<1>3. ASSUME NEW k \in 1 .. Len(b.areas)
      PROVE  Column(SpaceOf(b), k) = b.areas[k].frames /\ b.areas[k].frames \in Seq(Frames)
  <2>1. b.areas[k] \in AreaSet
    BY <1>1
  <2> QED BY <1>1, <2>1, SMTT(30) DEF Column, AreaSet
<1>4. \A k \in 0 .. Len(b.areas) : k = 0 \/ k \in 1 .. Len(b.areas)
  BY <1>1
<1>5. \A x : x \in Owned(SpaceOf(b)) <=>
               \E k \in 0 .. Len(b.areas) : x \in Range(Column(SpaceOf(b), k))
  BY <1>1, Zenon DEF Owned
<1>6. 0 \in 0 .. Len(b.areas) /\ \A k \in 1 .. Len(b.areas) : k \in 0 .. Len(b.areas)
  BY <1>1
<1>7. \A k \in 0 .. Len(b.areas) : Column(SpaceOf(b), k) \in Seq(Frames)
  BY <1>2, <1>3, <1>4
<1>8. Range(b.nodes) \subseteq Owned(SpaceOf(b))
  BY <1>2, <1>5, <1>6
<1>9. \A k \in 1 .. Len(b.areas) : Range(b.areas[k].frames) \subseteq Owned(SpaceOf(b))
  BY <1>3, <1>5, <1>6
<1>10. \A x \in Owned(SpaceOf(b)) :
         x \in Range(b.nodes) \/ \E k \in 1 .. Len(b.areas) : x \in Range(b.areas[k].frames)
  BY <1>2, <1>3, <1>4, <1>5
<1> QED BY <1>1, <1>2, <1>3, <1>7, <1>8, <1>9, <1>10

(* A node more.                                                             *)
LEMMA OwnNode ==
  ASSUME NEW b, NEW f, b.nodes \in Seq(Frames), b.areas \in Seq(AreaSet), NEW g \in Frames,
         OwnedOnce(SpaceOf(b)), g \notin Owned(SpaceOf(b)),
         f.nodes = Append(b.nodes, g), f.areas = b.areas
  PROVE  OwnedOnce(SpaceOf(f)) /\ Owned(SpaceOf(f)) = Owned(SpaceOf(b)) \cup {g}
<1>1. PICK n \in Nat : n = Len(b.areas)
  OBVIOUS
<1>2. f.nodes \in Seq(Frames) /\ f.areas \in Seq(AreaSet)
  OBVIOUS
<1>3. /\ Len(SpaceOf(b).areas) = n /\ Column(SpaceOf(b), 0) = b.nodes
      /\ \A k \in 1 .. n : Column(SpaceOf(b), k) = b.areas[k].frames
      /\ \A k \in 0 .. n : Column(SpaceOf(b), k) \in Seq(Frames)
  BY <1>1, ColumnFacts
<1>4. /\ Len(SpaceOf(f).areas) = n /\ Column(SpaceOf(f), 0) = f.nodes
      /\ \A k \in 1 .. n : Column(SpaceOf(f), k) = b.areas[k].frames
  <2>1. /\ Len(SpaceOf(f).areas) = Len(f.areas) /\ Column(SpaceOf(f), 0) = f.nodes
        /\ \A k \in 1 .. Len(f.areas) : Column(SpaceOf(f), k) = f.areas[k].frames
    BY <1>2, ColumnFacts
  <2> QED BY <1>1, <2>1
<1>5. /\ 0 \in 0 .. n /\ Column(SpaceOf(f), 0) = Append(Column(SpaceOf(b), 0), g)
  BY <1>3, <1>4
<1>6. ASSUME NEW k \in 0 .. n, k # 0 PROVE Column(SpaceOf(f), k) = Column(SpaceOf(b), k)
  <2>1. k \in 1 .. n
    BY <1>6
  <2> QED BY <1>3, <1>4, <2>1, Zenon
<1>7. PICK sp, sp2 : sp = SpaceOf(b) /\ sp2 = SpaceOf(f)
  OBVIOUS
<1>8. Grows(sp, sp2, n, 0, g) /\ OwnedOnce(sp)
  BY <1>3, <1>4, <1>5, <1>6, <1>7, Zenon DEF Grows
<1>9. OwnedOnce(sp2) /\ Owned(sp2) = Owned(sp) \cup {g}
  BY <1>8, OwnGrow
<1> QED BY <1>7, <1>9, Zenon

(* The last area gets frame g.                                              *)
LastGets(areas, areas2, g) ==
    /\ areas \in Seq(AreaSet) /\ areas2 \in Seq(AreaSet)
    /\ areas # <<>> /\ Len(areas2) = Len(areas)
    /\ \A k \in 1 .. Len(areas) : k # Len(areas) => areas2[k] = areas[k]
    /\ areas2[Len(areas)].frames = Append(areas[Len(areas)].frames, g)
    /\ areas2[Len(areas)].start = areas[Len(areas)].start
    /\ areas2[Len(areas)].pages = areas[Len(areas)].pages
    /\ areas2[Len(areas)].perm = areas[Len(areas)].perm

(* A frame more in the last area.                                           *)
LEMMA OwnFrame ==
  ASSUME NEW b, NEW f, b.nodes \in Seq(Frames), NEW g \in Frames,
         OwnedOnce(SpaceOf(b)), g \notin Owned(SpaceOf(b)), f.nodes = b.nodes,
         LastGets(b.areas, f.areas, g)
  PROVE  OwnedOnce(SpaceOf(f)) /\ Owned(SpaceOf(f)) = Owned(SpaceOf(b)) \cup {g}
<1>0. PICK n \in Nat : n = Len(b.areas)
  BY DEF LastGets
<1>2. /\ b.areas \in Seq(AreaSet) /\ b.areas # <<>> /\ f.areas \in Seq(AreaSet)
      /\ Len(b.areas) = n /\ Len(f.areas) = n
      /\ f.areas[n].frames = Append(b.areas[n].frames, g)
      /\ \A k \in 1 .. n : k # n => f.areas[k] = b.areas[k]
  BY <1>0 DEF LastGets
<1>1. n \in 1 .. n
  BY <1>2
<1>3. /\ Len(SpaceOf(b).areas) = n /\ Column(SpaceOf(b), 0) = b.nodes
      /\ \A k \in 1 .. n : Column(SpaceOf(b), k) = b.areas[k].frames
      /\ \A k \in 0 .. n : Column(SpaceOf(b), k) \in Seq(Frames)
  BY <1>2, ColumnFacts
<1>4. /\ Len(SpaceOf(f).areas) = n /\ Column(SpaceOf(f), 0) = b.nodes
      /\ \A k \in 1 .. n : Column(SpaceOf(f), k) = f.areas[k].frames
  <2>1. f.nodes \in Seq(Frames)
    OBVIOUS
  <2> QED BY <1>2, <2>1, ColumnFacts
<1>5. /\ n \in 0 .. n /\ Column(SpaceOf(f), n) = Append(Column(SpaceOf(b), n), g)
  <2>1. Column(SpaceOf(f), n) = f.areas[n].frames /\ Column(SpaceOf(b), n) = b.areas[n].frames
    BY <1>1, <1>3, <1>4, Zenon
  <2>2. n \in 0 .. n
    OBVIOUS
  <2> QED BY <1>2, <2>1, <2>2, Zenon
<1>6. ASSUME NEW k \in 0 .. n, k # n PROVE Column(SpaceOf(f), k) = Column(SpaceOf(b), k)
  <2>1. CASE k = 0
    BY <1>3, <1>4, <2>1
  <2>2. CASE k # 0
    <3>1. k \in 1 .. n
      BY <2>2
    <3>2. f.areas[k] = b.areas[k]
      BY <1>2, <1>6, <3>1
    <3> QED BY <1>3, <1>4, <3>1, <3>2, Zenon
  <2> QED BY <2>1, <2>2
<1>7. PICK sp, sp2 : sp = SpaceOf(b) /\ sp2 = SpaceOf(f)
  OBVIOUS
<1>8. Grows(sp, sp2, n, n, g) /\ OwnedOnce(sp)
  BY <1>3, <1>4, <1>5, <1>6, <1>7, Zenon DEF Grows
<1>9. OwnedOnce(sp2) /\ Owned(sp2) = Owned(sp) \cup {g}
  BY <1>8, OwnGrow
<1> QED BY <1>7, <1>9, Zenon

(* A new area has no frame yet.                                             *)
LEMMA OwnArea ==
  ASSUME NEW b, NEW f, b.nodes \in Seq(Frames), b.areas \in Seq(AreaSet),
         OwnedOnce(SpaceOf(b)), f.nodes = b.nodes,
         NEW area \in AreaSet, area.frames = <<>>, f.areas = Append(b.areas, area)
  PROVE  OwnedOnce(SpaceOf(f)) /\ Owned(SpaceOf(f)) = Owned(SpaceOf(b))
<1>1. PICK n \in Nat : n = Len(b.areas)
  OBVIOUS
<1>2. /\ f.nodes \in Seq(Frames) /\ f.areas \in Seq(AreaSet) /\ Len(f.areas) = n + 1
      /\ f.areas[n + 1] = area /\ \A k \in 1 .. n : f.areas[k] = b.areas[k]
  BY <1>1
<1>3. /\ Len(SpaceOf(b).areas) = n /\ Column(SpaceOf(b), 0) = b.nodes
      /\ \A k \in 1 .. n : Column(SpaceOf(b), k) = b.areas[k].frames
  BY <1>1, ColumnFacts
<1>4. /\ Len(SpaceOf(f).areas) = n + 1 /\ Column(SpaceOf(f), 0) = b.nodes
      /\ \A k \in 1 .. n + 1 : Column(SpaceOf(f), k) = f.areas[k].frames
  BY <1>2, ColumnFacts
<1>5. DOMAIN Column(SpaceOf(f), n + 1) = {}
  BY <1>2, <1>4
<1>6. \A k \in 0 .. n : Column(SpaceOf(f), k) = Column(SpaceOf(b), k)
  <2>1. ASSUME NEW k \in 1 .. n PROVE Column(SpaceOf(f), k) = Column(SpaceOf(b), k)
    BY <1>2, <1>3, <1>4
  <2>2. \A k \in 0 .. n : k = 0 \/ k \in 1 .. n
    OBVIOUS
  <2> QED BY <1>3, <1>4, <2>1, <2>2
<1>7. \A k \in 0 .. n + 1 : k \in 0 .. n \/ k = n + 1
  OBVIOUS
<1>8. OwnedOnce(SpaceOf(f))
  <2>0. \A k, j \in 0 .. n : \A u \in DOMAIN Column(SpaceOf(b), k), v \in DOMAIN Column(SpaceOf(b), j) :
          Column(SpaceOf(b), k)[u] = Column(SpaceOf(b), j)[v] => k = j /\ u = v
    BY <1>3 DEF OwnedOnce
  <2>1. ASSUME NEW k \in 0 .. n + 1, NEW j \in 0 .. n + 1,
               NEW u \in DOMAIN Column(SpaceOf(f), k), NEW v \in DOMAIN Column(SpaceOf(f), j),
               Column(SpaceOf(f), k)[u] = Column(SpaceOf(f), j)[v]
        PROVE  k = j /\ u = v
    <3>1. k \in 0 .. n /\ j \in 0 .. n
      BY <1>5, <1>7
    <3>2. Column(SpaceOf(f), k) = Column(SpaceOf(b), k) /\ Column(SpaceOf(f), j) = Column(SpaceOf(b), j)
      BY <1>6, <3>1
    <3>3. /\ u \in DOMAIN Column(SpaceOf(b), k) /\ v \in DOMAIN Column(SpaceOf(b), j)
          /\ Column(SpaceOf(b), k)[u] = Column(SpaceOf(b), j)[v]
      BY <2>1, <3>2, Zenon
    <3> QED BY <2>0, <3>1, <3>3
  <2> QED BY <1>4, <2>1 DEF OwnedOnce
<1>9. ASSUME NEW x PROVE x \in Owned(SpaceOf(f)) <=> x \in Owned(SpaceOf(b))
  <2>1. x \in Owned(SpaceOf(f)) <=> \E k \in 0 .. n + 1 : x \in Range(Column(SpaceOf(f), k))
    BY <1>4, Zenon DEF Owned
  <2>2. x \in Owned(SpaceOf(b)) <=> \E k \in 0 .. n : x \in Range(Column(SpaceOf(b), k))
    BY <1>3, Zenon DEF Owned
  <2>3. x \notin Range(Column(SpaceOf(f), n + 1))
    BY <1>5 DEF Range
  <2>4. \A k \in 0 .. n : k \in 0 .. n + 1
    OBVIOUS
  <2> QED BY <1>6, <1>7, <2>1, <2>2, <2>3, <2>4, Zenon
<1> QED BY <1>8, <1>9

(* A space under construction: its table is a tree and the frames it owns   *)
(* are held, each in one place.                                             *)
Ready(b) ==
    /\ Running(b) /\ Table(b.mem, b.nodes)
    /\ OwnedOnce(SpaceOf(b)) /\ Owned(SpaceOf(b)) \subseteq Held(b)

(* The frames of all others, and the frames that are no nodes of this       *)
(* table.                                                                   *)
Others(b) == Held(b) \ Owned(SpaceOf(b))
Bulk(b) == Held(b) \ Range(b.nodes)

(* What every operation of a space leaves alone.                            *)
Keeps(b, f) ==
    /\ Head(f.nodes) = Head(b.nodes)
    /\ Others(f) = Others(b)
    /\ Bulk(b) \subseteq Bulk(f)
    /\ \A x \in Bulk(b) : f.mem[x] = b.mem[x]

(* One operation after the other.                                           *)
LEMMA KeepsTrans ==
  ASSUME NEW b, NEW c, NEW d, Keeps(b, c), Keeps(c, d)
  PROVE  Keeps(b, d)
<1>1. \A x \in Bulk(b) : d.mem[x] = b.mem[x]
  BY DEF Keeps
<1> QED BY <1>1 DEF Keeps

SameWalks(b, f) == SameTable(b.mem, f.mem, Head(b.nodes))

(* The same over two operations.                                            *)
LEMMA SameWalksTrans ==
  ASSUME NEW b, NEW c, NEW d, SameWalks(b, c), SameWalks(c, d), Head(c.nodes) = Head(b.nodes)
  PROVE  SameWalks(b, d)
<1>1. ASSUME NEW i \in 0 .. PTES - 1, NEW j \in 0 .. PTES - 1, NEW k \in 0 .. PTES - 1
      PROVE  Walk(d.mem, Head(b.nodes), i, j, k) = Walk(b.mem, Head(b.nodes), i, j, k)
  <2>1. Walk(c.mem, Head(b.nodes), i, j, k) = Walk(b.mem, Head(b.nodes), i, j, k)
    BY Zenon DEF SameWalks, SameTable
  <2>2. Walk(d.mem, Head(c.nodes), i, j, k) = Walk(c.mem, Head(c.nodes), i, j, k)
    BY Zenon DEF SameWalks, SameTable
  <2> QED BY <2>1, <2>2, Zenon
<1> QED BY <1>1, Zenon DEF SameWalks, SameTable

(* A machine whose table has one node more, which the walk has reached.     *)
Extended(b, f) ==
    /\ Running(f) /\ f.areas = b.areas /\ Keeps(b, f)
    /\ OwnedOnce(SpaceOf(f)) /\ Owned(SpaceOf(f)) \subseteq Held(f)
    /\ f.nodes \in Seq(Frames) /\ f.nodes # <<>>
    /\ Range(f.nodes) = Range(b.nodes) \cup {f.at}

(* The new node of find_pte_create, entered at index i of node x.           *)
LEMMA NewNode ==
  ASSUME NEW b, Ready(b), NEW x \in Range(b.nodes), NEW i \in 0 .. PTES - 1,
         NEW a, a = FrameAlloc(b), ~Stuck(a), NEW f, f = Linked(a, x, i)
  PROVE  Extended(b, f) /\ Entered(b.mem, f.mem, Range(b.nodes), x, i, f.at)
<1>0. PICK e : e = NodeEntry(a.got)
  OBVIOUS
<1>1. PICK g : g = a.got
  OBVIOUS
<1>2. /\ Running(a) /\ g \in Frames /\ g \notin Held(b) /\ Held(a) = Held(b) \cup {g}
      /\ a.mem = [b.mem EXCEPT ![g] = ZeroPage]
      /\ a.nodes = b.nodes /\ a.areas = b.areas
  BY <1>1, AllocFacts DEF Ready
<1>3. /\ b.mem \in [Frames -> Page] /\ b.nodes \in Seq(Frames) /\ b.areas \in Seq(AreaSet)
      /\ b.nodes # <<>> /\ Held(b) \subseteq Frames
  BY MachineFacts DEF Ready, Table
<1>4. /\ DOMAIN a = Fields /\ a.mem \in [Frames -> Page] /\ a.current \in MemoryStart .. MemoryEnd
      /\ a.recycled \in Seq(Frames) /\ a.panic = "none" /\ a \in Machines
  BY <1>2, MachineFacts DEF Running
<1>5. Range(b.nodes) \subseteq Owned(SpaceOf(b)) /\ Owned(SpaceOf(b)) \subseteq Held(b)
  BY <1>3, ColumnFacts DEF Ready
<1>6. x \in Frames /\ x # g /\ x \in Held(b) /\ g \notin Range(b.nodes)
  BY <1>2, <1>3, <1>5
<1>7. PICK m2 : m2 = [a.mem EXCEPT ![x] = [a.mem[x] EXCEPT ![i] = e]]
  OBVIOUS
<1>8. f = [a EXCEPT !.mem = m2, !.nodes = Append(b.nodes, g), !.at = g]
  BY <1>0, <1>1, <1>2, <1>4, <1>7 DEF Fields, Linked
<1>9. /\ f.mem = m2 /\ f.nodes = Append(b.nodes, g) /\ f.at = g /\ f.areas = b.areas
      /\ f.current = a.current /\ f.recycled = a.recycled /\ f.panic = "none"
  BY <1>2, <1>4, <1>8 DEF Fields
<1>10. e \in Word /\ Valid(e) /\ e.ppn = g
  BY <1>0, <1>1, <1>2, NodeEntryFacts
<1>11. /\ m2 \in [Frames -> Page] /\ m2[x][i] = e /\ m2[g] = ZeroPage
       /\ \A h \in 0 .. PTES - 1 : h # i => m2[x][h] = b.mem[x][h]
       /\ \A y \in Frames : y # x /\ y # g => m2[y] = b.mem[y]
  <2>1. a.mem[x] \in Page /\ a.mem[x] = b.mem[x]
    BY <1>2, <1>3, <1>4, <1>6
  <2>2. [a.mem[x] EXCEPT ![i] = e] \in Page
    BY <1>10, <2>1 DEF Page
  <2>3. m2 \in [Frames -> Page]
    BY <1>4, <1>6, <1>7, <2>2
  <2>4. m2[x][i] = e /\ \A h \in 0 .. PTES - 1 : h # i => m2[x][h] = b.mem[x][h]
    BY <1>4, <1>6, <1>7, <2>1 DEF Page
  <2>5. m2[g] = ZeroPage /\ \A y \in Frames : y # x /\ y # g => m2[y] = b.mem[y]
    BY <1>2, <1>3, <1>4, <1>6, <1>7
  <2> QED BY <2>3, <2>4, <2>5
<1>12. /\ f.nodes \in Seq(Frames) /\ Range(f.nodes) = Range(b.nodes) \cup {g}
       /\ f.nodes # <<>> /\ Head(f.nodes) = Head(b.nodes)
  <2>1. f.nodes \in Seq(Frames) /\ Range(f.nodes) = Range(b.nodes) \cup {g}
    BY <1>2, <1>3, <1>9, AppendFacts
  <2> QED BY <1>3, <1>9, <2>1
<1>13. f \in Machines
  <2>1. g \in Nat
    BY <1>2, MemoryAssumption DEF Frames
  <2> QED BY <1>4, <1>8, <1>9, <1>11, <1>12, <2>1 DEF Machines
<1>14. Running(f) /\ Held(f) = Held(b) \cup {g}
  BY <1>2, <1>9, <1>13 DEF Running, Held
<1>15. OwnedOnce(SpaceOf(f)) /\ Owned(SpaceOf(f)) = Owned(SpaceOf(b)) \cup {g}
  <2>4. OwnedOnce(SpaceOf(b)) /\ g \notin Owned(SpaceOf(b))
    BY <1>2, <1>5 DEF Ready
  <2> QED BY <1>2, <1>3, <1>9, <2>4, OwnNode
<1>16. Keeps(b, f)
  <2>1. Others(f) = Others(b)
    BY <1>2, <1>14, <1>15 DEF Others
  <2>2. Bulk(b) \subseteq Bulk(f)
    BY <1>2, <1>12, <1>14 DEF Bulk
  <2>3. \A y \in Bulk(b) : f.mem[y] = b.mem[y]
    BY <1>2, <1>3, <1>9, <1>11 DEF Bulk
  <2> QED BY <1>12, <2>1, <2>2, <2>3 DEF Keeps
<1>17. \A h \in 0 .. PTES - 1 : f.mem[g][h] = Empty
  BY <1>9, <1>11, ZeroPageType
<1>18. \A y \in Range(b.nodes) : y # x => f.mem[y] = b.mem[y]
  BY <1>3, <1>5, <1>6, <1>9, <1>11
<1>19. Owned(SpaceOf(f)) \subseteq Held(f)
  BY <1>5, <1>14, <1>15
<1>20. Extended(b, f)
  BY <1>9, <1>12, <1>14, <1>15, <1>16, <1>19 DEF Extended
<1>21. Entered(b.mem, f.mem, Range(b.nodes), x, i, f.at)
  BY <1>2, <1>6, <1>9, <1>10, <1>11, <1>17, <1>18 DEF Entered
<1> QED BY <1>20, <1>21

(* The root of a table is one of its nodes.                                 *)
LEMMA ReadyFacts ==
  ASSUME NEW b, Ready(b)
  PROVE  /\ Running(b) /\ b.panic = "none" /\ DOMAIN b = Fields /\ b.mem \in [Frames -> Page]
         /\ b.nodes \in Seq(Frames) /\ b.nodes # <<>> /\ b.areas \in Seq(AreaSet)
         /\ Head(b.nodes) \in Range(b.nodes) /\ Head(b.nodes) \in Frames
         /\ Range(b.nodes) \subseteq Frames /\ Range(b.nodes) \subseteq Held(b)
         /\ Held(b) \subseteq Frames
<1>1. /\ Running(b) /\ b.nodes \in Seq(Frames) /\ b.nodes # <<>>
  BY DEF Ready, Table
<1>2. /\ DOMAIN b = Fields /\ b.panic = "none" /\ b.mem \in [Frames -> Page]
      /\ b.areas \in Seq(AreaSet) /\ Held(b) \subseteq Frames
  BY <1>1, MachineFacts
<1>3. Head(b.nodes) \in Range(b.nodes) /\ Head(b.nodes) \in Frames
  BY <1>1, TailFacts
<1>4. Range(b.nodes) \subseteq Frames
  BY <1>1, RangeFacts
<1>5. Range(b.nodes) \subseteq Held(b)
  BY <1>1, <1>2, ColumnFacts DEF Ready
<1> QED BY <1>1, <1>2, <1>3, <1>4, <1>5

(* A walk that went one level down: nothing else changed but the tree.      *)
FirstLevel(b, i, f) ==
    /\ Ready(f) /\ Keeps(b, f) /\ f.areas = b.areas /\ SameWalks(b, f)
    /\ Valid(f.mem[Head(b.nodes)][i]) /\ f.at = f.mem[Head(b.nodes)][i].ppn

(* ... and two.                                                             *)
SecondLevel(b, i, j, f) ==
    /\ Ready(f) /\ Keeps(b, f) /\ f.areas = b.areas /\ SameWalks(b, f)
    /\ LeafOf(f.mem, Head(b.nodes), i, j, f.at)

(* Only the place of the walk moves.                                        *)
LEMMA MoveFacts ==
  ASSUME NEW b, Ready(b), NEW x \in Nat, NEW f, f = [b EXCEPT !.at = x]
  PROVE  /\ Ready(f) /\ Keeps(b, f) /\ f.areas = b.areas /\ SameWalks(b, f)
         /\ f.at = x /\ f.mem = b.mem /\ f.nodes = b.nodes
<1>1. /\ f.at = x /\ f.mem = b.mem /\ f.nodes = b.nodes /\ f.areas = b.areas
      /\ f.current = b.current /\ f.recycled = b.recycled /\ f.panic = b.panic
      /\ f \in Machines
  BY DEF Ready, Running, Machines
<1>2. Running(f) /\ Held(f) = Held(b) /\ SpaceOf(f) = SpaceOf(b)
  BY <1>1 DEF Ready, Running, Held, SpaceOf
<1>3. Ready(f)
  BY <1>1, <1>2 DEF Ready
<1>4. Keeps(b, f) /\ SameWalks(b, f)
  BY <1>1, <1>2 DEF Keeps, Others, Bulk, SameWalks, SameTable
<1> QED BY <1>1, <1>3, <1>4

(* A descent without frames for a node.                                     *)
LEMMA StuckDescend ==
  ASSUME NEW b, Stuck(b), NEW i
  PROVE  Descend(b, i) = b
BY DEF Stuck, Descend

(* find_pte_create, first level.                                            *)
LEMMA DescendRoot ==
  ASSUME NEW b, Ready(b), b.at = Head(b.nodes), NEW i \in 0 .. PTES - 1,
         NEW f, f = Descend(b, i)
  PROVE  Stuck(f) \/ FirstLevel(b, i, f)
<1>1. PICK root : root = Head(b.nodes)
  OBVIOUS
<1>2. /\ root \in Range(b.nodes) /\ root \in Frames /\ b.mem \in [Frames -> Page]
      /\ b.panic = "none" /\ Range(b.nodes) \subseteq Frames
  BY <1>1, ReadyFacts
<1>3. PICK lv, px, py : Shape(b.mem, Range(b.nodes), root, lv, px, py)
  BY <1>1 DEF Ready, Table, IsTree
<1>4. CASE Valid(b.mem[root][i])
  <2>1. PICK x : x = b.mem[root][i].ppn
    OBVIOUS
  <2>2. x \in Range(b.nodes) /\ x \in Nat
    <3>1. x \in Range(b.nodes)
      BY <1>3, <1>4, <2>1 DEF Shape
    <3> QED BY <1>2, <3>1, MemoryAssumption DEF Frames
  <2>3. f = [b EXCEPT !.at = x]
    BY <1>1, <1>2, <1>4, <2>1 DEF Descend
  <2>4. /\ Ready(f) /\ Keeps(b, f) /\ f.areas = b.areas /\ SameWalks(b, f)
        /\ f.at = x /\ f.mem = b.mem /\ f.nodes = b.nodes
    BY <2>2, <2>3, MoveFacts
  <2> QED BY <1>1, <1>4, <2>1, <2>4 DEF FirstLevel
<1>5. CASE ~Valid(b.mem[root][i])
  <2>1. PICK a : a = FrameAlloc(b)
    OBVIOUS
  <2>2. Stuck(a) \/ a.panic = "none"
    BY <2>1, AllocFacts DEF Ready, Running
  <2>3. CASE Stuck(a)
    <3>1. f = a
      BY <1>1, <1>2, <1>5, <2>1, <2>3 DEF Descend, Stuck
    <3> QED BY <2>3, <3>1
  <2>4. CASE ~Stuck(a)
    <3>1. f = Linked(a, root, i)
      BY <1>1, <1>2, <1>5, <2>1, <2>2, <2>4 DEF Descend
    <3>2. Extended(b, f) /\ Entered(b.mem, f.mem, Range(b.nodes), root, i, f.at)
      BY <1>2, <2>1, <2>4, <3>1, NewNode
    <3>4. IsTree(f.mem, Range(b.nodes) \cup {f.at}, root) /\ SameTable(b.mem, f.mem, root)
      BY <1>3, <1>5, <3>2, AddBelowRoot
    <3>5. Head(f.nodes) = root
      BY <1>1, <3>2 DEF Extended, Keeps
    <3>6. Ready(f)
      BY <3>2, <3>4, <3>5 DEF Ready, Extended, Table
    <3>7. SameWalks(b, f)
      BY <1>1, <3>4 DEF SameWalks
    <3>8. Valid(f.mem[root][i]) /\ f.at = f.mem[root][i].ppn
      BY <3>2 DEF Entered
    <3> QED BY <1>1, <3>2, <3>6, <3>7, <3>8 DEF FirstLevel, Extended
  <2> QED BY <2>3, <2>4
<1> QED BY <1>4, <1>5

(* find_pte_create, second level.                                           *)
LEMMA DescendNode ==
  ASSUME NEW b, Ready(b), NEW i \in 0 .. PTES - 1, NEW root, root = Head(b.nodes),
         Valid(b.mem[root][i]), b.at = b.mem[root][i].ppn, NEW j \in 0 .. PTES - 1,
         NEW f, f = Descend(b, j)
  PROVE  Stuck(f) \/ SecondLevel(b, i, j, f)
<1>2. /\ root \in Range(b.nodes) /\ root \in Frames /\ b.mem \in [Frames -> Page]
      /\ b.panic = "none" /\ Range(b.nodes) \subseteq Frames
  BY ReadyFacts
<1>3. PICK lv, px, py : Shape(b.mem, Range(b.nodes), root, lv, px, py)
  BY DEF Ready, Table, IsTree
<1>1. PICK y : y = b.mem[root][i].ppn
  OBVIOUS
<1>0. y \in Range(b.nodes) /\ lv[y] = 1
  BY <1>1, <1>3 DEF Shape
<1>4. CASE Valid(b.mem[y][j])
  <2>1. PICK x : x = b.mem[y][j].ppn
    OBVIOUS
  <2>2. x \in Range(b.nodes) /\ x \in Nat
    <3>1. x \in Range(b.nodes)
      BY <1>0, <1>3, <1>4, <2>1 DEF Shape
    <3> QED BY <1>2, <3>1, MemoryAssumption DEF Frames
  <2>3. f = [b EXCEPT !.at = x]
    BY <1>1, <1>2, <1>4, <2>1 DEF Descend
  <2>4. /\ Ready(f) /\ Keeps(b, f) /\ f.areas = b.areas /\ SameWalks(b, f)
        /\ f.at = x /\ f.mem = b.mem /\ f.nodes = b.nodes
    BY <2>2, <2>3, MoveFacts
  <2> QED BY <1>1, <1>4, <2>1, <2>4 DEF SecondLevel, LeafOf
<1>5. CASE ~Valid(b.mem[y][j])
  <2>1. PICK a : a = FrameAlloc(b)
    OBVIOUS
  <2>2. Stuck(a) \/ a.panic = "none"
    BY <2>1, AllocFacts DEF Ready, Running
  <2>3. CASE Stuck(a)
    <3>1. f = a
      BY <1>1, <1>2, <1>5, <2>1, <2>3 DEF Descend, Stuck
    <3> QED BY <2>3, <3>1
  <2>4. CASE ~Stuck(a)
    <3>1. f = Linked(a, y, j)
      BY <1>1, <1>2, <1>5, <2>1, <2>2, <2>4 DEF Descend
    <3>2. Extended(b, f) /\ Entered(b.mem, f.mem, Range(b.nodes), y, j, f.at)
      BY <1>0, <2>1, <2>4, <3>1, NewNode
    <3>4. /\ IsTree(f.mem, Range(b.nodes) \cup {f.at}, root) /\ SameTable(b.mem, f.mem, root)
          /\ y # root
      BY <1>1, <1>3, <1>5, <3>2, AddBelowNode
    <3>5. Head(f.nodes) = root
      BY <3>2 DEF Extended, Keeps
    <3>6. Ready(f)
      BY <3>2, <3>4, <3>5 DEF Ready, Extended, Table
    <3>7. SameWalks(b, f)
      BY <3>4 DEF SameWalks
    <3>8. f.mem[root] = b.mem[root]
      BY <1>2, <3>2, <3>4 DEF Entered
    <3>9. Valid(f.mem[root][i]) /\ f.mem[root][i].ppn = y /\ Valid(f.mem[y][j]) /\ f.at = f.mem[y][j].ppn
      BY <1>1, <3>2, <3>8 DEF Entered
    <3>10. LeafOf(f.mem, root, i, j, f.at)
      BY <3>9, Zenon DEF LeafOf
    <3> QED BY <3>2, <3>6, <3>7, <3>10 DEF SecondLevel, Extended
  <2> QED BY <2>3, <2>4
<1> QED BY <1>4, <1>5

(* find_pte_create: no frame left, or the leaf of the page is reached.      *)
LEMMA FindFacts ==
  ASSUME NEW b, Ready(b), NEW vpn \in 0 .. TRAMPOLINE, NEW f, f = FindPteCreate(b, vpn)
  PROVE  Stuck(f) \/ SecondLevel(b, Indexes(vpn)[1], Indexes(vpn)[2], f)
<1>1. PICK i, j : i = Indexes(vpn)[1] /\ j = Indexes(vpn)[2]
  OBVIOUS
<1>2. i \in 0 .. PTES - 1 /\ j \in 0 .. PTES - 1
  BY <1>1, IndexFacts
<1>3. PICK c : c = [b EXCEPT !.at = Head(b.nodes)]
  OBVIOUS
<1>4. Head(b.nodes) \in Nat
  BY ReadyFacts, MemoryAssumption DEF Frames
<1>5. /\ Ready(c) /\ Keeps(b, c) /\ c.areas = b.areas /\ SameWalks(b, c)
      /\ c.at = Head(b.nodes) /\ c.nodes = b.nodes
  BY <1>3, <1>4, MoveFacts
<1>6. PICK d : d = Descend(c, i)
  OBVIOUS
<1>7. f = Descend(d, j)
  BY <1>1, <1>3, <1>6 DEF FindPteCreate
<1>8. Stuck(d) \/ FirstLevel(c, i, d)
  BY <1>2, <1>5, <1>6, DescendRoot
<1>9. CASE Stuck(d)
  BY <1>7, <1>9, StuckDescend
<1>10. CASE FirstLevel(c, i, d)
  <2>1. /\ Ready(d) /\ Keeps(c, d) /\ d.areas = c.areas /\ SameWalks(c, d)
        /\ Valid(d.mem[Head(c.nodes)][i]) /\ d.at = d.mem[Head(c.nodes)][i].ppn
    BY <1>10 DEF FirstLevel
  <2>2. Head(d.nodes) = Head(b.nodes) /\ Head(c.nodes) = Head(b.nodes)
    BY <1>5, <2>1 DEF Keeps
  <2>3. Stuck(f) \/ SecondLevel(d, i, j, f)
    BY <1>2, <1>7, <2>1, <2>2, DescendNode
  <2>4. ASSUME SecondLevel(d, i, j, f) PROVE SecondLevel(b, i, j, f)
    <3>1. /\ Ready(f) /\ Keeps(d, f) /\ f.areas = d.areas /\ SameWalks(d, f)
          /\ LeafOf(f.mem, Head(d.nodes), i, j, f.at)
      BY <2>4 DEF SecondLevel
    <3>2. Keeps(b, f)
      BY <1>5, <2>1, <3>1, KeepsTrans
    <3>3. SameWalks(b, f)
      BY <1>5, <2>1, <2>2, <3>1, SameWalksTrans
    <3>4. f.areas = b.areas
      BY <1>5, <2>1, <3>1
    <3> QED BY <2>2, <3>1, <3>2, <3>3, <3>4 DEF SecondLevel
  <2> QED BY <1>1, <2>3, <2>4
<1> QED BY <1>8, <1>9, <1>10

-----------------------------------------------------------------------------
(* Translations.  Those of b2 are those of b, but for page vpn, which is e. *)
Lookup(b, v) == Translate(b.mem, Head(b.nodes), v)

Mapping(b, f, vpn, e) ==
    /\ Lookup(f, vpn) = e
    /\ \A v \in 0 .. TRAMPOLINE : v # vpn => Lookup(f, v) = Lookup(b, v)

SameLookups(b, f) == \A v \in 0 .. TRAMPOLINE : Lookup(f, v) = Lookup(b, v)

(* A translation is a walk by the three indexes of the page.                *)
LEMMA WalkLookup ==
  ASSUME NEW b, NEW f, Head(f.nodes) = Head(b.nodes), SameWalks(b, f)
  PROVE  SameLookups(b, f)
<1>1. ASSUME NEW v \in 0 .. TRAMPOLINE PROVE Lookup(f, v) = Lookup(b, v)
  <2>1. PICK i, j, k : i = Indexes(v)[1] /\ j = Indexes(v)[2] /\ k = Indexes(v)[3]
    OBVIOUS
  <2>2. i \in 0 .. PTES - 1 /\ j \in 0 .. PTES - 1 /\ k \in 0 .. PTES - 1
    BY <2>1, IndexFacts
  <2>3. Walk(f.mem, Head(b.nodes), i, j, k) = Walk(b.mem, Head(b.nodes), i, j, k)
    BY <2>2 DEF SameWalks, SameTable
  <2> QED BY <2>1, <2>3, Zenon DEF Lookup, Translate, Walk
<1> QED BY <1>1 DEF SameLookups

(* A write at the leaf of a page changes its translation only.              *)
LEMMA WriteEntry ==
  ASSUME NEW f, Table(f.mem, f.nodes), NEW vpn \in 0 .. TRAMPOLINE, NEW e,
         NEW root, root = Head(f.nodes),
         NEW x, LeafOf(f.mem, root, Indexes(vpn)[1], Indexes(vpn)[2], x),
         NEW g, g.nodes = f.nodes, Written(f.mem, g.mem, Range(f.nodes), x, Indexes(vpn)[3], e)
  PROVE  /\ Table(g.mem, g.nodes) /\ x \in Range(f.nodes) /\ Mapping(f, g, vpn, e)
         /\ Lookup(f, vpn) = f.mem[x][Indexes(vpn)[3]]
<1>1. PICK i, j, k : i = Indexes(vpn)[1] /\ j = Indexes(vpn)[2] /\ k = Indexes(vpn)[3]
  OBVIOUS
<1>2. i \in 0 .. PTES - 1 /\ j \in 0 .. PTES - 1 /\ k \in 0 .. PTES - 1
  BY <1>1, IndexFacts
<1>3. IsTree(f.mem, Range(f.nodes), root)
  BY DEF Table
<1>4. /\ IsTree(g.mem, Range(f.nodes), root) /\ x \in Range(f.nodes)
      /\ Walk(f.mem, root, i, j, k) = f.mem[x][k]
      /\ OneWalk(f.mem, g.mem, root, i, j, k, e)
  <2>1. /\ LeafOf(f.mem, root, i, j, x)
        /\ Written(f.mem, g.mem, Range(f.nodes), x, k, e)
    BY <1>1, Zenon
  <2> QED BY <1>2, <1>3, <2>1, WriteLeaf
<1>5. Table(g.mem, g.nodes)
  BY <1>4 DEF Table
<1>6. Lookup(g, vpn) = e /\ Lookup(f, vpn) = f.mem[x][k]
  BY <1>1, <1>4, Zenon DEF Lookup, Translate, Walk, OneWalk
<1>7. ASSUME NEW v \in 0 .. TRAMPOLINE, v # vpn PROVE Lookup(g, v) = Lookup(f, v)
  <2>1. PICK a, b, c : a = Indexes(v)[1] /\ b = Indexes(v)[2] /\ c = Indexes(v)[3]
    OBVIOUS
  <2>2. a \in 0 .. PTES - 1 /\ b \in 0 .. PTES - 1 /\ c \in 0 .. PTES - 1
    BY <2>1, IndexFacts
  <2>3. ~(a = i /\ b = j /\ c = k)
    BY <1>1, <1>7, <2>1, IndexFacts
  <2>4. Walk(g.mem, root, a, b, c) = Walk(f.mem, root, a, b, c)
    BY <1>4, <2>2, <2>3, Zenon DEF OneWalk
  <2> QED BY <2>1, <2>4, Zenon DEF Lookup, Translate, Walk
<1> QED BY <1>1, <1>4, <1>5, <1>6, <1>7 DEF Mapping

SetMem(b, m) == [b EXCEPT !.mem = m]

(* A machine that differs from a ready one in its memory only.              *)
LEMMA WithMem ==
  ASSUME NEW b, Ready(b), NEW m \in [Frames -> Page], Table(m, b.nodes),
         NEW f, f = SetMem(b, m)
  PROVE  /\ Ready(f) /\ f.mem = m /\ f.nodes = b.nodes /\ f.areas = b.areas
         /\ Held(f) = Held(b) /\ SpaceOf(f) = SpaceOf(b) /\ f.panic = "none"
<1>1. /\ f.at = b.at /\ f.mem = m /\ f.nodes = b.nodes /\ f.areas = b.areas
      /\ f.current = b.current /\ f.recycled = b.recycled /\ f.panic = b.panic
      /\ f \in Machines
  BY DEF Ready, Running, Machines, SetMem
<1>2. Running(f) /\ Held(f) = Held(b) /\ SpaceOf(f) = SpaceOf(b) /\ f.panic = "none"
  BY <1>1 DEF Ready, Running, Held, SpaceOf
<1> QED BY <1>1, <1>2 DEF Ready

(* What map leaves: the page has its entry and the rest of the table, the   *)
(* areas and all other frames are as before.                                *)
DoneMap(b, f, vpn, e) ==
    Ready(f) /\ Keeps(b, f) /\ f.areas = b.areas /\ Mapping(b, f, vpn, e)

Entry(ppn, flags) == [ppn |-> ppn, flags |-> flags \cup {"V"}]

(* An entry with permissions is a word, and is valid.                       *)
LEMMA EntryFacts ==
  ASSUME NEW ppn \in Nat, NEW flags \in SUBSET {"R", "W", "X", "U"}
  PROVE  /\ Entry(ppn, flags) \in Word /\ Valid(Entry(ppn, flags))
         /\ Entry(ppn, flags).ppn = ppn
         /\ Entry(ppn, flags).flags = flags \cup {"V"}
BY DEF Entry, Word, Valid

(* map of a page that is not mapped: its assertion holds.                   *)
LEMMA MapFacts ==
  ASSUME NEW b, Ready(b), NEW vpn \in 0 .. TRAMPOLINE, ~Valid(Lookup(b, vpn)),
         NEW ppn \in Nat, NEW flags \in SUBSET {"R", "W", "X", "U"},
         NEW g, g = Map(b, vpn, ppn, flags)
  PROVE  Stuck(g) \/ DoneMap(b, g, vpn, Entry(ppn, flags))
<1>1. PICK f : f = FindPteCreate(b, vpn)
  OBVIOUS
<1>2. PICK i, j, k : i = Indexes(vpn)[1] /\ j = Indexes(vpn)[2] /\ k = Indexes(vpn)[3]
  OBVIOUS
<1>3. k \in 0 .. PTES - 1
  BY <1>2, IndexFacts
<1>4. Stuck(f) \/ SecondLevel(b, i, j, f)
  BY <1>1, <1>2, FindFacts
<1>5. CASE Stuck(f)
  <2>1. g = f
    BY <1>1, <1>5 DEF Map, Stuck
  <2> QED BY <1>5, <2>1
<1>6. CASE SecondLevel(b, i, j, f)
  <2>1. /\ Ready(f) /\ Keeps(b, f) /\ f.areas = b.areas /\ SameWalks(b, f)
        /\ LeafOf(f.mem, Head(b.nodes), i, j, f.at)
        /\ Head(f.nodes) = Head(b.nodes)
    BY <1>6 DEF SecondLevel, Keeps
  <2>2. PICK root, x : root = Head(b.nodes) /\ x = f.at
    OBVIOUS
  <2>3. SameLookups(b, f)
    BY <2>1, WalkLookup
  <2>4. PICK e : e = Entry(ppn, flags)
    OBVIOUS
  <2>5. e \in Word
    BY <2>4, EntryFacts
  <2>6. /\ f.mem \in [Frames -> Page] /\ f.nodes \in Seq(Frames) /\ f.panic = "none"
        /\ DOMAIN f = Fields /\ Range(f.nodes) \subseteq Frames
    BY <2>1, ReadyFacts
  <2>7. PICK lv, px, py : Shape(f.mem, Range(f.nodes), root, lv, px, py)
    BY <2>1, <2>2 DEF Ready, Table, IsTree
  <2>8. x \in Range(f.nodes)
    <3>1. i \in 0 .. PTES - 1 /\ j \in 0 .. PTES - 1
      BY <1>2, IndexFacts
    <3> QED BY <2>1, <2>2, <2>7, <3>1, LeafFacts
  <2>9. PICK m2 : m2 = [f.mem EXCEPT ![x] = [f.mem[x] EXCEPT ![k] = e]]
    OBVIOUS
  <2>10. /\ m2 \in [Frames -> Page] /\ m2[x][k] = e
         /\ \A h \in 0 .. PTES - 1 : h # k => m2[x][h] = f.mem[x][h]
         /\ \A z \in Frames : z # x => m2[z] = f.mem[z]
    <3>1. x \in Frames /\ f.mem[x] \in Page
      BY <2>6, <2>8
    <3>2. [f.mem[x] EXCEPT ![k] = e] \in Page
      BY <2>5, <3>1 DEF Page
    <3>3. m2 \in [Frames -> Page]
      BY <2>6, <2>9, <3>1, <3>2
    <3> QED BY <1>3, <2>6, <2>9, <3>1, <3>3 DEF Page
  <2>11. Written(f.mem, m2, Range(f.nodes), x, k, e)
    BY <2>6, <2>10 DEF Written
  <2>12. PICK h : h = SetMem(f, m2)
    OBVIOUS
  <2>13. h.mem = m2 /\ h.nodes = f.nodes /\ h.areas = f.areas
    BY <2>6, <2>12 DEF Fields, SetMem
  <2>14. /\ Table(h.mem, h.nodes) /\ Mapping(f, h, vpn, e)
         /\ Lookup(f, vpn) = f.mem[x][k]
    <3>1. /\ LeafOf(f.mem, Head(f.nodes), Indexes(vpn)[1], Indexes(vpn)[2], x)
          /\ Written(f.mem, h.mem, Range(f.nodes), x, Indexes(vpn)[3], e)
      BY <1>2, <2>1, <2>2, <2>11, <2>13, Zenon
    <3>2. /\ Table(h.mem, h.nodes) /\ Mapping(f, h, vpn, e)
          /\ Lookup(f, vpn) = f.mem[x][Indexes(vpn)[3]]
      <4>1. Table(f.mem, f.nodes)
        BY <2>1 DEF Ready
      <4> QED BY <2>13, <3>1, <4>1, WriteEntry
    <3> QED BY <1>2, <3>2, Zenon
  <2>15. /\ Ready(h) /\ Held(h) = Held(f) /\ SpaceOf(h) = SpaceOf(f)
    <3>1. Table(m2, f.nodes) /\ m2 \in [Frames -> Page]
      BY <2>10, <2>13, <2>14
    <3> QED BY <2>1, <2>12, <3>1, WithMem
  <2>16. ~Valid(f.mem[x][k])
    BY <2>3, <2>14 DEF SameLookups
  <2>17. g = h
    BY <1>1, <1>2, <2>2, <2>4, <2>6, <2>9, <2>12, <2>16 DEF Map, Entry, Fields, SetMem
  <2>18. Keeps(f, h)
    <3>1. Others(h) = Others(f) /\ Bulk(h) = Bulk(f)
      BY <2>13, <2>15 DEF Others, Bulk
    <3>2. \A z \in Bulk(f) : h.mem[z] = f.mem[z]
      <4>1. Bulk(f) \subseteq Frames
        BY <2>1, ReadyFacts DEF Bulk
      <4> QED BY <2>8, <2>10, <2>13, <4>1 DEF Bulk
    <3> QED BY <2>13, <3>1, <3>2 DEF Keeps
  <2>19. Keeps(b, h)
    BY <2>1, <2>18, KeepsTrans
  <2>20. Mapping(b, h, vpn, e)
    BY <2>3, <2>14 DEF Mapping, SameLookups
  <2>21. DoneMap(b, h, vpn, e)
    BY <2>1, <2>13, <2>15, <2>19, <2>20 DEF DoneMap
  <2> QED BY <2>4, <2>17, <2>21
<1> QED BY <1>4, <1>5, <1>6

(* map after a panic.                                                       *)
LEMMA StuckMap ==
  ASSUME NEW b, Stuck(b), NEW vpn, NEW ppn, NEW flags
  PROVE  Stuck(Map(b, vpn, ppn, flags))
<1>1. PICK c : c = [b EXCEPT !.at = Head(b.nodes)]
  OBVIOUS
<1>2. Stuck(c)
  BY <1>1 DEF Stuck, Fields
<1>3. FindPteCreate(b, vpn) = c
  BY <1>1, <1>2, StuckDescend DEF FindPteCreate
<1>4. Map(b, vpn, ppn, flags) = c
  BY <1>2, <1>3 DEF Map, Stuck
<1> QED BY <1>2, <1>4

-----------------------------------------------------------------------------
(* Areas.                                                                   *)
TrampolineEntry == Entry(strampoline, {"R", "X"})

PageEntry(area, i) == Entry(area.frames[i], area.perm)

(* The table maps the trampoline and the pages that have their frame, each  *)
(* with the permissions of its area, and nothing else.                      *)
Mapped(b) ==
    /\ Lookup(b, TRAMPOLINE) = TrampolineEntry
    /\ \A k \in DOMAIN b.areas : \A i \in DOMAIN b.areas[k].frames :
         Lookup(b, b.areas[k].start + i - 1) = PageEntry(b.areas[k], i)
    /\ \A v \in 0 .. TRAMPOLINE : Valid(Lookup(b, v)) =>
         \/ v = TRAMPOLINE
         \/ \E k \in DOMAIN b.areas : \E i \in DOMAIN b.areas[k].frames :
              v = b.areas[k].start + i - 1

Apart(o, w) == o.start + o.pages <= w.start \/ w.start + w.pages <= o.start

(* Areas lie below the trampoline and apart from each other.                *)
Placed(areas) ==
    /\ \A k \in DOMAIN areas : /\ areas[k].start + areas[k].pages <= TRAMPOLINE
                               /\ Len(areas[k].frames) <= areas[k].pages
    /\ \A k, l \in DOMAIN areas : k # l => Apart(areas[k], areas[l])

(* The fields of an area.                                                   *)
LEMMA AreaFacts ==
  ASSUME NEW areas \in Seq(AreaSet), NEW k \in DOMAIN areas
  PROVE  /\ areas[k] \in AreaSet /\ areas[k].start \in Nat /\ areas[k].pages \in Nat
         /\ areas[k].perm \in SUBSET {"R", "W", "X", "U"} /\ areas[k].frames \in Seq(Frames)
         /\ Len(areas[k].frames) \in Nat /\ DOMAIN areas[k].frames = 1 .. Len(areas[k].frames)
         /\ Len(areas) \in Nat /\ DOMAIN areas = 1 .. Len(areas)
         /\ \A i \in DOMAIN areas[k].frames :
              i \in Nat /\ areas[k].frames[i] \in Frames /\ areas[k].frames[i] \in Nat
<1>1. areas[k] \in AreaSet /\ Len(areas) \in Nat /\ DOMAIN areas = 1 .. Len(areas)
  OBVIOUS
<1>2. /\ areas[k].start \in Nat /\ areas[k].pages \in Nat
      /\ areas[k].perm \in SUBSET {"R", "W", "X", "U"} /\ areas[k].frames \in Seq(Frames)
  BY <1>1 DEF AreaSet
<1>3. /\ Len(areas[k].frames) \in Nat /\ DOMAIN areas[k].frames = 1 .. Len(areas[k].frames)
      /\ \A i \in DOMAIN areas[k].frames : i \in Nat /\ areas[k].frames[i] \in Frames
  BY <1>2
<1>4. Frames \subseteq Nat
  BY MemoryAssumption DEF Frames
<1> QED BY <1>1, <1>2, <1>3, <1>4

(* A page that has its frame is below the trampoline.                       *)
LEMMA PageBelow ==
  ASSUME NEW areas \in Seq(AreaSet), Placed(areas), NEW k \in DOMAIN areas,
         NEW i \in 1 .. areas[k].pages
  PROVE  /\ areas[k].start + i - 1 \in 0 .. TRAMPOLINE
         /\ areas[k].start + i - 1 # TRAMPOLINE
<1>1. areas[k].start \in Nat /\ areas[k].pages \in Nat /\ TRAMPOLINE \in Nat
  BY AreaFacts, IndexFacts
<1>2. areas[k].start + areas[k].pages <= TRAMPOLINE
  BY DEF Placed
<1> QED BY <1>1, <1>2

(* Pages of two areas, and two pages of one, are different.                 *)
LEMMA PagesApart ==
  ASSUME NEW areas \in Seq(AreaSet), Placed(areas),
         NEW k \in DOMAIN areas, NEW i \in 1 .. areas[k].pages,
         NEW l \in DOMAIN areas, NEW j \in 1 .. areas[l].pages,
         areas[k].start + i - 1 = areas[l].start + j - 1
  PROVE  k = l /\ i = j
<1>1. /\ areas[k].start \in Nat /\ areas[k].pages \in Nat
      /\ areas[l].start \in Nat /\ areas[l].pages \in Nat
  BY AreaFacts
<1>2. CASE k = l
  BY <1>1, <1>2
<1>3. CASE k # l
  <2>1. Apart(areas[k], areas[l])
    BY <1>3 DEF Placed
  <2> QED BY <1>1, <2>1, SMTT(30) DEF Apart
<1> QED BY <1>2, <1>3

(* The frame of a page goes to the last area.                               *)
LEMMA BackedFacts ==
  ASSUME NEW a, Running(a), a.areas # <<>>, a.got \in Frames, NEW c, c = Backed(a)
  PROVE  /\ Running(c) /\ c.mem = a.mem /\ c.nodes = a.nodes /\ Held(c) = Held(a)
         /\ LastGets(a.areas, c.areas, a.got)
<1>1. DOMAIN a = Fields /\ a.areas \in Seq(AreaSet) /\ a \in Machines /\ a.panic = "none"
  BY MachineFacts DEF Running
<1>0. PICK n \in Nat : n = Len(a.areas)
  BY <1>1
<1>2. n \in DOMAIN a.areas
  BY <1>0, <1>1
<1>3. PICK o, t : o = a.areas[n] /\ t = Append(o.frames, a.got)
  OBVIOUS
<1>4. o \in AreaSet /\ t \in Seq(Frames)
  <2>1. o \in AreaSet
    BY <1>1, <1>2, <1>3
  <2>2. o.frames \in Seq(Frames)
    BY <2>1 DEF AreaSet
  <2> QED BY <1>3, <2>1, <2>2
<1>5. PICK w : w = [o EXCEPT !.frames = t]
  OBVIOUS
<1>6. w \in AreaSet /\ w.frames = t /\ w.start = o.start /\ w.pages = o.pages /\ w.perm = o.perm
  BY <1>4, <1>5 DEF AreaSet
<1>7. PICK s : s = [a.areas EXCEPT ![n] = w]
  OBVIOUS
<1>8. /\ s \in Seq(AreaSet) /\ Len(s) = n /\ s[n] = w
      /\ \A k \in 1 .. n : k # n => s[k] = a.areas[k]
  BY <1>0, <1>1, <1>2, <1>6, <1>7
<1>9. c = [a EXCEPT !.areas = s]
  BY <1>0, <1>1, <1>3, <1>5, <1>7 DEF Backed, Fields
<1>10. /\ c.areas = s /\ c.mem = a.mem /\ c.nodes = a.nodes /\ c.current = a.current
       /\ c.recycled = a.recycled /\ c.panic = "none" /\ c \in Machines
  BY <1>1, <1>8, <1>9 DEF Machines, Fields
<1>11. Running(c) /\ Held(c) = Held(a)
  BY <1>10 DEF Running, Held
<1>12. LastGets(a.areas, s, a.got)
  BY <1>0, <1>1, <1>3, <1>6, <1>8 DEF LastGets
<1> QED BY <1>10, <1>11, <1>12

(* Memory that differs outside of the table.                                *)
LEMMA TableFrame ==
  ASSUME NEW m, NEW m2, NEW nodes, Table(m, nodes), \A x \in Range(nodes) : m2[x] = m[x]
  PROVE  Table(m2, nodes) /\ SameTable(m, m2, Head(nodes))
<1>1. PICK lv, px, py : Shape(m, Range(nodes), Head(nodes), lv, px, py)
  BY DEF Table, IsTree
<1>2. Shape(m2, Range(nodes), Head(nodes), lv, px, py) /\ SameTable(m, m2, Head(nodes))
  BY <1>1, WalkFrame
<1>3. IsTree(m2, Range(nodes), Head(nodes))
  BY <1>2, Zenon DEF IsTree
<1> QED BY <1>2, <1>3 DEF Table

(* The next page of the last area has got its frame, zeroed.                *)
NextPage(b, f) ==
    /\ Ready(f) /\ Keeps(b, f) /\ Mapped(f) /\ Placed(f.areas)
    /\ \E g \in Bulk(f) : LastGets(b.areas, f.areas, g) /\ f.mem[g] = ZeroPage

(* A fresh frame in the last area, before its page is mapped.               *)
LEMMA FreshFrame ==
  ASSUME NEW b, Ready(b), b.areas # <<>>, NEW a, a = FrameAlloc(b), ~Stuck(a),
         NEW c, c = Backed(a)
  PROVE  /\ Ready(c) /\ Keeps(b, c) /\ SameLookups(b, c) /\ a.got \in Frames
         /\ a.got \in Bulk(c) /\ c.mem[a.got] = ZeroPage
         /\ LastGets(b.areas, c.areas, a.got)
<1>1. PICK g : g = a.got
  OBVIOUS
<1>2. /\ Running(a) /\ g \in Frames /\ g \notin Held(b) /\ Held(a) = Held(b) \cup {g}
      /\ a.mem = [b.mem EXCEPT ![g] = ZeroPage]
      /\ a.nodes = b.nodes /\ a.areas = b.areas
  BY <1>1, AllocFacts DEF Ready
<1>3. /\ b.mem \in [Frames -> Page] /\ b.nodes \in Seq(Frames) /\ b.areas \in Seq(AreaSet)
      /\ Range(b.nodes) \subseteq Held(b) /\ Held(b) \subseteq Frames
  BY ReadyFacts
<1>4. /\ Running(c) /\ c.mem = a.mem /\ c.nodes = b.nodes
      /\ Held(c) = Held(b) \cup {g} /\ LastGets(b.areas, c.areas, g)
  <2>1. a.areas # <<>> /\ a.got \in Frames
    BY <1>1, <1>2
  <2> QED BY <1>1, <1>2, <2>1, BackedFacts
<1>5. OwnedOnce(SpaceOf(b)) /\ Owned(SpaceOf(b)) \subseteq Held(b) /\ g \notin Owned(SpaceOf(b))
  BY <1>2 DEF Ready
<1>6. OwnedOnce(SpaceOf(c)) /\ Owned(SpaceOf(c)) = Owned(SpaceOf(b)) \cup {g}
  BY <1>2, <1>3, <1>4, <1>5, OwnFrame
<1>7. c.mem[g] = ZeroPage /\ \A x \in Frames : x # g => c.mem[x] = b.mem[x]
  BY <1>2, <1>3, <1>4
<1>8. Table(c.mem, c.nodes) /\ SameTable(b.mem, c.mem, Head(b.nodes))
  <2>1. \A x \in Range(b.nodes) : c.mem[x] = b.mem[x]
    BY <1>2, <1>3, <1>7
  <2>2. Table(b.mem, b.nodes)
    BY DEF Ready
  <2>3. Table(c.mem, b.nodes) /\ SameTable(b.mem, c.mem, Head(b.nodes))
    BY <2>1, <2>2, TableFrame
  <2> QED BY <1>4, <2>3
<1>9. Ready(c)
  BY <1>4, <1>5, <1>6, <1>8 DEF Ready
<1>10. Keeps(b, c) /\ g \in Bulk(c)
  <2>1. Others(c) = Others(b)
    BY <1>2, <1>4, <1>6 DEF Others
  <2>2. Bulk(c) = Bulk(b) \cup {g} /\ Bulk(b) \subseteq Held(b)
    BY <1>2, <1>3, <1>4 DEF Bulk
  <2>3. \A x \in Bulk(b) : c.mem[x] = b.mem[x]
    BY <1>2, <1>3, <1>7, <2>2
  <2> QED BY <1>4, <2>1, <2>2, <2>3 DEF Keeps
<1>11. SameLookups(b, c)
  <2>1. SameWalks(b, c) /\ Head(c.nodes) = Head(b.nodes)
    BY <1>4, <1>8 DEF SameWalks
  <2> QED BY <2>1, WalkLookup
<1> QED BY <1>1, <1>2, <1>4, <1>7, <1>9, <1>10, <1>11

(* The areas after the last one got a frame, page by page.                  *)
Gained(areas, areas2, g, n) ==
    /\ n \in DOMAIN areas /\ DOMAIN areas2 = DOMAIN areas /\ n \in Nat
    /\ DOMAIN areas2[n].frames = 1 .. Len(areas[n].frames) + 1
    /\ Len(areas2[n].frames) = Len(areas[n].frames) + 1
    /\ areas2[n].frames[Len(areas[n].frames) + 1] = g
    /\ \A k \in DOMAIN areas :
         /\ areas2[k].start = areas[k].start /\ areas2[k].pages = areas[k].pages
         /\ areas2[k].perm = areas[k].perm
         /\ k # n => areas2[k] = areas[k]
         /\ \A i \in DOMAIN areas[k].frames :
              i \in DOMAIN areas2[k].frames /\ areas2[k].frames[i] = areas[k].frames[i]
    /\ \A k \in DOMAIN areas : \A i \in DOMAIN areas2[k].frames :
         i \in DOMAIN areas[k].frames \/ (k = n /\ i = Len(areas[n].frames) + 1)

(* That is what a frame more in the last area means.                        *)
LEMMA GetsFacts ==
  ASSUME NEW areas, NEW areas2, NEW g \in Frames, LastGets(areas, areas2, g),
         NEW n, n = Len(areas)
  PROVE  Gained(areas, areas2, g, n)
<1>1. /\ areas \in Seq(AreaSet) /\ areas2 \in Seq(AreaSet) /\ areas # <<>> /\ Len(areas2) = n
      /\ \A k \in 1 .. n : k # n => areas2[k] = areas[k]
      /\ areas2[n].frames = Append(areas[n].frames, g)
      /\ areas2[n].start = areas[n].start /\ areas2[n].pages = areas[n].pages
      /\ areas2[n].perm = areas[n].perm
  BY DEF LastGets
<1>2. n \in Nat /\ n \in DOMAIN areas /\ DOMAIN areas = 1 .. n /\ DOMAIN areas2 = DOMAIN areas
  BY <1>1
<1>3. PICK l \in Nat : /\ l = Len(areas[n].frames) /\ DOMAIN areas[n].frames = 1 .. l
                       /\ areas[n].frames \in Seq(Frames)
  BY <1>1, <1>2, AreaFacts
<1>4. /\ DOMAIN areas2[n].frames = 1 .. l + 1 /\ Len(areas2[n].frames) = l + 1
      /\ areas2[n].frames[l + 1] = g
      /\ \A i \in 1 .. l : areas2[n].frames[i] = areas[n].frames[i]
  BY <1>1, <1>3
<1>5. ASSUME NEW k \in DOMAIN areas
      PROVE  /\ areas2[k].start = areas[k].start /\ areas2[k].pages = areas[k].pages
             /\ areas2[k].perm = areas[k].perm
             /\ k # n => areas2[k] = areas[k]
             /\ \A i \in DOMAIN areas[k].frames :
                  i \in DOMAIN areas2[k].frames /\ areas2[k].frames[i] = areas[k].frames[i]
             /\ \A i \in DOMAIN areas2[k].frames :
                  i \in DOMAIN areas[k].frames \/ (k = n /\ i = l + 1)
  <2>1. CASE k = n
    <3>1. \A i \in 1 .. l : i \in 1 .. l + 1
      OBVIOUS
    <3>2. \A i \in 1 .. l + 1 : i \in 1 .. l \/ i = l + 1
      OBVIOUS
    <3> QED BY <1>1, <1>3, <1>4, <2>1, <3>1, <3>2, Zenon
  <2>2. CASE k # n
    BY <1>1, <1>2, <2>2, Zenon
  <2> QED BY <2>1, <2>2
<1> QED BY <1>2, <1>3, <1>4, <1>5, Zenon DEF Gained

(* The frames of areas are no nodes of the table.                           *)
LEMMA FrameInBulk ==
  ASSUME NEW b, Ready(b), NEW k \in DOMAIN b.areas, NEW i \in DOMAIN b.areas[k].frames
  PROVE  b.areas[k].frames[i] \in Bulk(b) /\ b.areas[k].frames[i] \in Owned(SpaceOf(b))
<1>1. b.nodes \in Seq(Frames) /\ b.areas \in Seq(AreaSet)
  BY ReadyFacts
<1>2. PICK n \in Nat : n = Len(b.areas) /\ k \in 1 .. n
  BY <1>1
<1>3. /\ Len(SpaceOf(b).areas) = n /\ Column(SpaceOf(b), 0) = b.nodes
      /\ Column(SpaceOf(b), k) = b.areas[k].frames
      /\ Range(b.areas[k].frames) \subseteq Owned(SpaceOf(b))
  BY <1>1, <1>2, ColumnFacts
<1>4. b.areas[k].frames[i] \in Owned(SpaceOf(b))
  BY <1>3 DEF Range
<1>5. b.areas[k].frames[i] \in Held(b)
  BY <1>4 DEF Ready
<1>6. ASSUME NEW j \in DOMAIN b.nodes, b.nodes[j] = b.areas[k].frames[i] PROVE FALSE
  <2>1. 0 \in 0 .. n /\ k \in 0 .. n /\ k # 0
    BY <1>2
  <2>2. j \in DOMAIN Column(SpaceOf(b), 0) /\ i \in DOMAIN Column(SpaceOf(b), k)
        /\ Column(SpaceOf(b), 0)[j] = Column(SpaceOf(b), k)[i]
    BY <1>3, <1>6, Zenon
  <2>3. OwnedOnce(SpaceOf(b))
    BY DEF Ready
  <2> QED BY <1>3, <2>1, <2>2, <2>3 DEF OwnedOnce
<1>7. b.areas[k].frames[i] \notin Range(b.nodes)
  BY <1>6 DEF Range
<1> QED BY <1>4, <1>5, <1>7 DEF Bulk

(* The areas keep their places.                                             *)
LEMMA GetsPlaced ==
  ASSUME NEW areas, NEW areas2, NEW g \in Frames, LastGets(areas, areas2, g), Placed(areas),
         NEW n, n = Len(areas), Len(areas[n].frames) < areas[n].pages
  PROVE  Placed(areas2)
<1>1. /\ n \in DOMAIN areas /\ DOMAIN areas2 = DOMAIN areas
      /\ Len(areas2[n].frames) = Len(areas[n].frames) + 1
      /\ \A k \in DOMAIN areas :
           /\ areas2[k].start = areas[k].start /\ areas2[k].pages = areas[k].pages
           /\ k # n => areas2[k] = areas[k]
  BY GetsFacts DEF Gained
<1>2. Len(areas[n].frames) \in Nat /\ areas[n].pages \in Nat
  BY <1>1, AreaFacts DEF LastGets
<1>3. \A k \in DOMAIN areas : Len(areas2[k].frames) <= areas2[k].pages
  BY <1>1, <1>2 DEF Placed
<1>4. \A k \in DOMAIN areas : areas2[k].start + areas2[k].pages <= TRAMPOLINE
  BY <1>1 DEF Placed
<1>5. \A k, l \in DOMAIN areas : k # l => Apart(areas2[k], areas2[l])
  BY <1>1 DEF Placed, Apart
<1> QED BY <1>1, <1>3, <1>4, <1>5 DEF Placed

(* map_one: no frame left, or the next page of the last area is mapped.     *)
LEMMA MapOneFacts ==
  ASSUME NEW b, Ready(b), Mapped(b), Placed(b.areas), b.areas # <<>>,
         NEW n, n = Len(b.areas), NEW k \in 1 .. b.areas[n].pages,
         Len(b.areas[n].frames) = k - 1, NEW f, f = MapOne(b, k)
  PROVE  Stuck(f) \/ NextPage(b, f)
<1>1. PICK a, c : a = FrameAlloc(b) /\ c = Backed(a)
  OBVIOUS
<1>2. PICK o, vpn : o = b.areas[n] /\ vpn = o.start + k - 1
  OBVIOUS
<1>3. f = Map(c, vpn, a.got, o.perm)
  BY <1>1, <1>2 DEF MapOne, Last
<1>4. b.areas \in Seq(AreaSet) /\ n \in DOMAIN b.areas
  <2>1. b.areas \in Seq(AreaSet)
    BY ReadyFacts
  <2> QED BY <2>1
<1>5. /\ o.start \in Nat /\ o.pages \in Nat /\ o.perm \in SUBSET {"R", "W", "X", "U"}
      /\ Len(o.frames) \in Nat /\ k \in Nat /\ k \in 1 .. o.pages /\ o.frames \in Seq(Frames)
  BY <1>2, <1>4, AreaFacts
<1>6. vpn \in 0 .. TRAMPOLINE /\ vpn # TRAMPOLINE
  BY <1>2, <1>4, PageBelow
<1>7. CASE Stuck(a)
  <2>1. Stuck(c)
    BY <1>1, <1>7 DEF Stuck, Backed, Fields
  <2> QED BY <1>3, <2>1, StuckMap
<1>8. CASE ~Stuck(a)
  <2>1. PICK g : g = a.got
    OBVIOUS
  <2>2. /\ Ready(c) /\ Keeps(b, c) /\ SameLookups(b, c) /\ g \in Frames
        /\ g \in Bulk(c) /\ c.mem[g] = ZeroPage /\ LastGets(b.areas, c.areas, g)
    BY <1>1, <1>8, <2>1, FreshFrame
  <2>3. g \in Nat
    BY <2>2, MemoryAssumption DEF Frames
  <2>4. ASSUME NEW h \in DOMAIN b.areas, NEW i \in DOMAIN b.areas[h].frames
        PROVE  /\ b.areas[h].start + i - 1 # vpn
               /\ b.areas[h].start + i - 1 \in 0 .. TRAMPOLINE
    <3>1. i \in 1 .. b.areas[h].pages /\ (h = n => i # k)
      <4>1. /\ DOMAIN b.areas[h].frames = 1 .. Len(b.areas[h].frames)
            /\ Len(b.areas[h].frames) \in Nat /\ b.areas[h].pages \in Nat
        BY <1>4, AreaFacts
      <4>2. Len(b.areas[h].frames) <= b.areas[h].pages
        BY DEF Placed
      <4> QED BY <1>2, <1>5, <4>1, <4>2, SMTT(30)
    <3>2. b.areas[h].start + i - 1 \in 0 .. TRAMPOLINE
      BY <1>4, <3>1, PageBelow
    <3>3. ~(h = n /\ i = k) => b.areas[h].start + i - 1 # vpn
      BY <1>2, <1>4, <1>5, <3>1, PagesApart
    <3> QED BY <3>1, <3>2, <3>3
  <2>5. ~Valid(Lookup(c, vpn))
    <3>1. Lookup(c, vpn) = Lookup(b, vpn)
      BY <1>6, <2>2 DEF SameLookups
    <3>2. ~Valid(Lookup(b, vpn))
      BY <1>6, <2>4 DEF Mapped
    <3> QED BY <3>1, <3>2
  <2>6. PICK e : e = Entry(g, o.perm)
    OBVIOUS
  <2>7. Stuck(f) \/ DoneMap(c, f, vpn, e)
    BY <1>3, <1>5, <1>6, <2>1, <2>2, <2>3, <2>5, <2>6, MapFacts
  <2>8. ASSUME DoneMap(c, f, vpn, e) PROVE NextPage(b, f)
    <3>1. /\ Ready(f) /\ Keeps(c, f) /\ f.areas = c.areas /\ Lookup(f, vpn) = e
          /\ \A v \in 0 .. TRAMPOLINE : v # vpn => Lookup(f, v) = Lookup(b, v)
      BY <2>2, <2>8 DEF DoneMap, Mapping, SameLookups
    <3>2. Keeps(b, f) /\ g \in Bulk(f) /\ f.mem[g] = ZeroPage
      <4>1. Keeps(b, f)
        BY <2>2, <3>1, KeepsTrans
      <4> QED BY <2>2, <3>1, <4>1 DEF Keeps
    <3>3. LastGets(b.areas, f.areas, g)
      BY <2>2, <3>1
    <3>4. Placed(f.areas)
      <4>1. Len(b.areas[n].frames) < b.areas[n].pages
        BY <1>2, <1>5
      <4> QED BY <2>2, <3>3, <4>1, GetsPlaced
    <3>5. /\ DOMAIN f.areas = DOMAIN b.areas
          /\ DOMAIN f.areas[n].frames = 1 .. Len(b.areas[n].frames) + 1
          /\ f.areas[n].frames[Len(b.areas[n].frames) + 1] = g
          /\ \A h \in DOMAIN b.areas :
               /\ f.areas[h].start = b.areas[h].start /\ f.areas[h].perm = b.areas[h].perm
               /\ \A i \in DOMAIN b.areas[h].frames :
                    i \in DOMAIN f.areas[h].frames /\ f.areas[h].frames[i] = b.areas[h].frames[i]
          /\ \A h \in DOMAIN b.areas : \A i \in DOMAIN f.areas[h].frames :
               i \in DOMAIN b.areas[h].frames \/ (h = n /\ i = Len(b.areas[n].frames) + 1)
      <4>1. Gained(b.areas, f.areas, g, n)
        BY <2>2, <3>3, GetsFacts
      <4> QED BY <4>1, Zenon DEF Gained
    <3>6. Len(b.areas[n].frames) + 1 = k
      BY <1>5
    <3>7. Lookup(f, TRAMPOLINE) = TrampolineEntry
      BY <1>6, <3>1, IndexFacts DEF Mapped
    <3>8. ASSUME NEW h \in DOMAIN f.areas, NEW i \in DOMAIN f.areas[h].frames
          PROVE  Lookup(f, f.areas[h].start + i - 1) = PageEntry(f.areas[h], i)
      <4>1. CASE i \in DOMAIN b.areas[h].frames
        <5>1. h \in DOMAIN b.areas
          BY <3>5
        <5>2. Lookup(f, b.areas[h].start + i - 1) = Lookup(b, b.areas[h].start + i - 1)
          BY <2>4, <3>1, <4>1, <5>1
        <5>3. Lookup(b, b.areas[h].start + i - 1) = PageEntry(b.areas[h], i)
          BY <4>1, <5>1 DEF Mapped
        <5>4. PageEntry(b.areas[h], i) = PageEntry(f.areas[h], i)
          BY <3>5, <4>1, <5>1, Zenon DEF PageEntry
        <5>5. f.areas[h].start = b.areas[h].start
          BY <3>5, <5>1
        <5> QED BY <5>2, <5>3, <5>4, <5>5, Zenon
      <4>2. CASE h = n /\ i = k
        <5>1. f.areas[h].start + i - 1 = vpn
          BY <1>2, <1>4, <3>5, <4>2, Zenon
        <5>2. PageEntry(f.areas[h], i) = e
          BY <1>2, <1>4, <2>6, <3>5, <3>6, <4>2, Zenon DEF PageEntry
        <5> QED BY <3>1, <5>1, <5>2, Zenon
      <4> QED BY <3>5, <3>6, <4>1, <4>2, Zenon
    <3>9. ASSUME NEW v \in 0 .. TRAMPOLINE, Valid(Lookup(f, v)), v # TRAMPOLINE
          PROVE  \E h \in DOMAIN f.areas : \E i \in DOMAIN f.areas[h].frames :
                   v = f.areas[h].start + i - 1
      <4>1. CASE v = vpn
        <5>1. k \in DOMAIN f.areas[n].frames /\ n \in DOMAIN f.areas
          BY <1>4, <1>5, <3>5, <3>6
        <5>2. v = f.areas[n].start + k - 1
          BY <1>2, <1>4, <3>5, <4>1, Zenon
        <5> QED BY <5>1, <5>2, Zenon
      <4>2. CASE v # vpn
        <5>1. Valid(Lookup(b, v))
          BY <3>1, <3>9, <4>2
        <5>2. PICK h \in DOMAIN b.areas : \E i \in DOMAIN b.areas[h].frames :
                v = b.areas[h].start + i - 1
          BY <3>9, <5>1 DEF Mapped
        <5>3. PICK i \in DOMAIN b.areas[h].frames : v = b.areas[h].start + i - 1
          BY <5>2
        <5>4. /\ h \in DOMAIN f.areas /\ i \in DOMAIN f.areas[h].frames
              /\ v = f.areas[h].start + i - 1
          BY <3>5, <5>3, Zenon
        <5> QED BY <5>4, Zenon
      <4> QED BY <4>1, <4>2
    <3>10. Mapped(f)
      BY <3>7, <3>8, <3>9 DEF Mapped
    <3> QED BY <3>1, <3>2, <3>3, <3>4, <3>10 DEF NextPage
  <2> QED BY <2>7, <2>8
<1> QED BY <1>7, <1>8

(* map_one after a panic.                                                   *)
LEMMA StuckMapOne ==
  ASSUME NEW b, Stuck(b), NEW k
  PROVE  Stuck(MapOne(b, k))
<1>1. FrameAlloc(b) = b
  BY DEF FrameAlloc, Stuck
<1>2. Stuck(Backed(b))
  BY DEF Stuck, Backed, Fields
<1>3. PICK vpn, perm : MapOne(b, k) = Map(Backed(b), vpn, b.got, perm)
  BY <1>1 DEF MapOne
<1> QED BY <1>2, <1>3, StuckMap

-----------------------------------------------------------------------------
(* MemorySet::push.  The new area after its first k pages.                  *)
Pushing(b, area, k, c) ==
    LET n == Len(b.areas) + 1
    IN  /\ Ready(c) /\ Keeps(b, c) /\ Mapped(c) /\ Placed(c.areas)
        /\ Len(c.areas) = n
        /\ \A h \in 1 .. Len(b.areas) : c.areas[h] = b.areas[h]
        /\ c.areas[n].start = area.start /\ c.areas[n].pages = area.pages
        /\ c.areas[n].perm = area.perm
        /\ Len(c.areas[n].frames) = k
        /\ \A i \in 1 .. k : c.mem[c.areas[n].frames[i]] = ZeroPage

(* The new area fits.                                                       *)
Fits(areas, area) ==
    /\ area \in AreaSet /\ area.frames = <<>>
    /\ area.start + area.pages <= TRAMPOLINE
    /\ \A k \in DOMAIN areas : Apart(areas[k], area)

(* Being apart is symmetric.                                                *)
LEMMA ApartSym ==
  ASSUME NEW o, NEW w, Apart(o, w)
  PROVE  Apart(w, o)
BY DEF Apart

(* Before its first page.                                                   *)
LEMMA PushStart ==
  ASSUME NEW b, Ready(b), Mapped(b), Placed(b.areas), NEW area, Fits(b.areas, area),
         NEW c, c = [b EXCEPT !.areas = Append(@, area)]
  PROVE  Pushing(b, area, 0, c)
<1>1. /\ Running(b) /\ b \in Machines /\ b.nodes \in Seq(Frames) /\ b.areas \in Seq(AreaSet)
      /\ DOMAIN b = Fields
  BY ReadyFacts DEF Running
<1>2. area \in AreaSet /\ area.frames = <<>> /\ area.pages \in Nat
  BY DEF Fits, AreaSet
<1>3. PICK s, n : s = Append(b.areas, area) /\ n = Len(b.areas)
  OBVIOUS
<1>4. /\ s \in Seq(AreaSet) /\ n \in Nat /\ Len(s) = n + 1 /\ s[n + 1] = area
      /\ DOMAIN b.areas = 1 .. n /\ DOMAIN s = 1 .. n + 1
      /\ \A h \in 1 .. n : s[h] = b.areas[h]
  BY <1>1, <1>2, <1>3
<1>5. c = [b EXCEPT !.areas = s]
  BY <1>1, <1>3 DEF Fields
<1>6. /\ c.areas = s /\ c.mem = b.mem /\ c.nodes = b.nodes /\ c.current = b.current
      /\ c.recycled = b.recycled /\ c.panic = b.panic /\ c \in Machines
  BY <1>1, <1>4, <1>5 DEF Machines, Fields
<1>7. Running(c) /\ Held(c) = Held(b)
  BY <1>1, <1>6 DEF Running, Held
<1>8. OwnedOnce(SpaceOf(c)) /\ Owned(SpaceOf(c)) = Owned(SpaceOf(b))
  <2>1. OwnedOnce(SpaceOf(b)) /\ c.areas = Append(b.areas, area)
    BY <1>3, <1>6 DEF Ready
  <2> QED BY <1>1, <1>2, <1>6, <2>1, OwnArea
<1>9. Ready(c)
  BY <1>6, <1>7, <1>8 DEF Ready
<1>10. Keeps(b, c)
  BY <1>6, <1>7, <1>8 DEF Keeps, Others, Bulk
<1>11. \A v : Lookup(c, v) = Lookup(b, v)
  BY <1>6 DEF Lookup
<1>12. DOMAIN s[n + 1].frames = {} /\ Len(s[n + 1].frames) = 0
  BY <1>2, <1>4
<1>13. \A h \in 1 .. n + 1 : h \in 1 .. n \/ h = n + 1
  BY <1>4
<1>14. Mapped(c)
  <2>1. ASSUME NEW h \in DOMAIN s, NEW i \in DOMAIN s[h].frames
        PROVE  Lookup(b, s[h].start + i - 1) = PageEntry(s[h], i)
    <3>1. h \in 1 .. n /\ s[h] = b.areas[h]
      BY <1>4, <1>12, <1>13
    <3> QED BY <1>4, <3>1 DEF Mapped
  <2>2. ASSUME NEW v \in 0 .. TRAMPOLINE, Valid(Lookup(b, v)), v # TRAMPOLINE
        PROVE  \E h \in DOMAIN s : \E i \in DOMAIN s[h].frames : v = s[h].start + i - 1
    <3>1. PICK h \in 1 .. n : \E i \in DOMAIN b.areas[h].frames : v = b.areas[h].start + i - 1
      BY <1>4, <2>2 DEF Mapped
    <3>2. h \in DOMAIN s /\ s[h] = b.areas[h]
      BY <1>4
    <3> QED BY <3>1, <3>2
  <2>3. Lookup(b, TRAMPOLINE) = TrampolineEntry
    BY DEF Mapped
  <2>4. Lookup(c, TRAMPOLINE) = TrampolineEntry
    BY <1>11, <2>3, Zenon
  <2>5. ASSUME NEW h \in DOMAIN c.areas, NEW i \in DOMAIN c.areas[h].frames
        PROVE  Lookup(c, c.areas[h].start + i - 1) = PageEntry(c.areas[h], i)
    <3>1. h \in DOMAIN s /\ i \in DOMAIN s[h].frames
      BY <1>6, Zenon
    <3>2. Lookup(b, s[h].start + i - 1) = PageEntry(s[h], i)
      BY <2>1, <3>1, Zenon
    <3>3. Lookup(c, s[h].start + i - 1) = Lookup(b, s[h].start + i - 1)
      BY <1>11, Zenon
    <3> QED BY <1>6, <3>2, <3>3, Zenon
  <2>6. ASSUME NEW v \in 0 .. TRAMPOLINE, Valid(Lookup(c, v))
        PROVE  \/ v = TRAMPOLINE
               \/ \E h \in DOMAIN c.areas : \E i \in DOMAIN c.areas[h].frames :
                    v = c.areas[h].start + i - 1
    <3>1. Valid(Lookup(b, v))
      BY <1>11, <2>6, Zenon
    <3>2. CASE v # TRAMPOLINE
      <4>1. PICK h \in DOMAIN s : \E i \in DOMAIN s[h].frames : v = s[h].start + i - 1
        BY <2>2, <3>1, <3>2, Zenon
      <4>2. PICK i \in DOMAIN s[h].frames : v = s[h].start + i - 1
        BY <4>1
      <4>3. h \in DOMAIN c.areas /\ i \in DOMAIN c.areas[h].frames /\ v = c.areas[h].start + i - 1
        BY <1>6, <4>2, Zenon
      <4> QED BY <4>3, Zenon
    <3> QED BY <3>2, Zenon
  <2> QED BY <2>4, <2>5, <2>6, Zenon DEF Mapped
<1>15. Placed(c.areas)
  <2>1. \A h \in 1 .. n + 1 : s[h].start + s[h].pages <= TRAMPOLINE /\ Len(s[h].frames) <= s[h].pages
    BY <1>2, <1>4, <1>12, <1>13 DEF Placed, Fits
  <2>2. ASSUME NEW h \in 1 .. n + 1, NEW l \in 1 .. n + 1, h # l PROVE Apart(s[h], s[l])
    <3>1. CASE h \in 1 .. n /\ l \in 1 .. n
      BY <1>4, <2>2, <3>1 DEF Placed
    <3>2. CASE h \in 1 .. n /\ l = n + 1
      BY <1>4, <3>2 DEF Fits
    <3>3. CASE h = n + 1 /\ l \in 1 .. n
      <4>1. Apart(s[l], s[h])
        BY <1>4, <3>3 DEF Fits
      <4> QED BY <4>1, ApartSym
    <3> QED BY <1>13, <2>2, <3>1, <3>2, <3>3
  <2> QED BY <1>4, <1>6, <2>1, <2>2 DEF Placed
<1>16. /\ \A h \in 1 .. Len(b.areas) : c.areas[h] = b.areas[h]
       /\ Len(c.areas) = Len(b.areas) + 1 /\ c.areas[Len(b.areas) + 1] = area
       /\ Len(c.areas[Len(b.areas) + 1].frames) = 0
  BY <1>3, <1>4, <1>6, <1>12
<1> QED BY <1>9, <1>10, <1>14, <1>15, <1>16 DEF Pushing

(* One page more.                                                           *)
LEMMA PushStep ==
  ASSUME NEW b, Ready(b), NEW area, NEW k \in Nat, k > 0, area.pages \in Nat, k <= area.pages,
         NEW j, j = k - 1, NEW c, Pushing(b, area, j, c), NEW d, d = MapOne(c, k)
  PROVE  Stuck(d) \/ Pushing(b, area, k, d)
<1>1. PICK n : n = Len(b.areas) + 1
  OBVIOUS
<1>2. /\ Ready(c) /\ Keeps(b, c) /\ Mapped(c) /\ Placed(c.areas) /\ Len(c.areas) = n
      /\ \A h \in 1 .. Len(b.areas) : c.areas[h] = b.areas[h]
      /\ c.areas[n].start = area.start /\ c.areas[n].pages = area.pages
      /\ c.areas[n].perm = area.perm /\ Len(c.areas[n].frames) = k - 1
      /\ \A i \in 1 .. k - 1 : c.mem[c.areas[n].frames[i]] = ZeroPage
  BY <1>1 DEF Pushing
<1>3. Len(b.areas) \in Nat /\ n \in Nat /\ n > 0 /\ c.areas \in Seq(AreaSet)
  <2>1. b.areas \in Seq(AreaSet) /\ c.areas \in Seq(AreaSet)
    BY <1>2, ReadyFacts
  <2> QED BY <1>1, <2>1
<1>4. c.areas # <<>> /\ k \in 1 .. c.areas[n].pages /\ n \in DOMAIN c.areas
      /\ \A h \in 1 .. Len(b.areas) : h \in DOMAIN c.areas /\ h # n
  BY <1>1, <1>2, <1>3
<1>5. Stuck(d) \/ NextPage(c, d)
  BY <1>2, <1>4, MapOneFacts
<1>6. ASSUME NextPage(c, d) PROVE Pushing(b, area, k, d)
  <2>1. Ready(d) /\ Keeps(c, d) /\ Mapped(d) /\ Placed(d.areas)
    BY <1>6 DEF NextPage
  <2>2. PICK g \in Bulk(d) : LastGets(c.areas, d.areas, g) /\ d.mem[g] = ZeroPage
    BY <1>6 DEF NextPage
  <2>3. g \in Frames
    BY <2>1, ReadyFacts DEF Bulk
  <2>4. Gained(c.areas, d.areas, g, n)
    BY <1>2, <2>2, <2>3, GetsFacts
  <2>5. Keeps(b, d)
    BY <1>2, <2>1, KeepsTrans
  <2>6. Len(d.areas) = n
    BY <1>2, <2>2 DEF LastGets
  <2>7. /\ \A h \in DOMAIN c.areas :
             /\ d.areas[h].start = c.areas[h].start /\ d.areas[h].pages = c.areas[h].pages
             /\ d.areas[h].perm = c.areas[h].perm /\ (h # n => d.areas[h] = c.areas[h])
             /\ \A i \in DOMAIN c.areas[h].frames : d.areas[h].frames[i] = c.areas[h].frames[i]
        /\ Len(d.areas[n].frames) = Len(c.areas[n].frames) + 1
        /\ d.areas[n].frames[Len(c.areas[n].frames) + 1] = g
    BY <2>4 DEF Gained
  <2>8. \A h \in 1 .. Len(b.areas) : d.areas[h] = b.areas[h]
    BY <1>2, <1>4, <2>7
  <2>9. ASSUME NEW i \in 1 .. k PROVE d.mem[d.areas[n].frames[i]] = ZeroPage
    <3>1. CASE i = k
      BY <1>2, <2>2, <2>7, <3>1, SMTT(30)
    <3>2. CASE i # k
      <4>1. i \in 1 .. k - 1 /\ i \in DOMAIN c.areas[n].frames
        <5>1. DOMAIN c.areas[n].frames = 1 .. Len(c.areas[n].frames)
          BY <1>3, <1>4, AreaFacts
        <5> QED BY <1>2, <3>2, <5>1
      <4>2. c.areas[n].frames[i] \in Bulk(c)
        BY <1>2, <1>4, <4>1, FrameInBulk
      <4>3. d.mem[c.areas[n].frames[i]] = c.mem[c.areas[n].frames[i]]
        BY <2>1, <4>2 DEF Keeps
      <4>4. d.areas[n].frames[i] = c.areas[n].frames[i]
        BY <1>4, <2>7, <4>1
      <4>5. c.mem[c.areas[n].frames[i]] = ZeroPage
        BY <1>2, <4>1
      <4> QED BY <4>3, <4>4, <4>5, Zenon
    <3> QED BY <3>1, <3>2
  <2>10. Len(d.areas[n].frames) = k
    BY <1>2, <2>7
  <2>11. /\ d.areas[n].start = area.start /\ d.areas[n].pages = area.pages
         /\ d.areas[n].perm = area.perm
    BY <1>2, <1>4, <2>7, Zenon
  <2> QED BY <1>1, <2>1, <2>5, <2>6, <2>8, <2>9, <2>10, <2>11 DEF Pushing
<1> QED BY <1>5, <1>6

(* push: no frame left, or all pages of the new area are mapped.            *)
LEMMA PushFacts ==
  ASSUME NEW b, Ready(b), Mapped(b), Placed(b.areas), NEW area, Fits(b.areas, area),
         NEW f, f = Push(b, area)
  PROVE  Stuck(f) \/ Pushing(b, area, area.pages, f)
<1>1. PICK n \in Nat : n = area.pages
  BY DEF Fits, AreaSet
<1>2. PICK c : c = [b EXCEPT !.areas = Append(@, area)]
  OBVIOUS
<1>3. f = MapPages(c, n)
  BY <1>1, <1>2 DEF Push
<1>4. PICK r : /\ MapPages(c, n) = r[n] /\ r[0] = c
               /\ \A k \in 1 .. n : r[k] = MapOne(r[k - 1], k)
  BY MapPagesLoop
<1>5. PICK S : S = {k \in 0 .. n : Stuck(r[k]) \/ Pushing(b, area, k, r[k])}
  OBVIOUS
<1>6. 0 \in S
  <2>1. Pushing(b, area, 0, c)
    BY <1>2, PushStart
  <2>2. 0 \in 0 .. n
    OBVIOUS
  <2> QED BY <1>4, <1>5, <2>1, <2>2, Zenon
<1>7. ASSUME NEW k \in 1 .. n, k - 1 \in S PROVE k \in S
  <2>1. PICK j : j = k - 1
    OBVIOUS
  <2>2. Stuck(r[j]) \/ Pushing(b, area, j, r[j])
    BY <1>5, <1>7, <2>1
  <2>3. r[k] = MapOne(r[j], k)
    BY <1>4, <2>1
  <2>4. k \in Nat /\ k > 0 /\ area.pages \in Nat /\ k <= area.pages /\ k \in 0 .. n
    BY <1>1
  <2>5. Stuck(r[k]) \/ Pushing(b, area, k, r[k])
    <3>1. CASE Stuck(r[j])
      BY <2>3, <3>1, StuckMapOne
    <3>2. CASE Pushing(b, area, j, r[j])
      BY <2>1, <2>3, <2>4, <3>2, PushStep
    <3> QED BY <2>2, <3>1, <3>2
  <2> QED BY <1>5, <2>4, <2>5
<1>8. n \in S
  BY <1>6, <1>7, Climb
<1> QED BY <1>1, <1>3, <1>4, <1>5, <1>8

(* push after a panic.                                                      *)
LEMMA StuckPush ==
  ASSUME NEW b, Stuck(b), NEW area, area.pages \in Nat
  PROVE  Stuck(Push(b, area))
<1>1. PICK n \in Nat : n = area.pages
  OBVIOUS
<1>2. PICK c : c = [b EXCEPT !.areas = Append(@, area)]
  OBVIOUS
<1>3. Push(b, area) = MapPages(c, n)
  BY <1>1, <1>2 DEF Push
<1>4. PICK r : /\ MapPages(c, n) = r[n] /\ r[0] = c
               /\ \A k \in 1 .. n : r[k] = MapOne(r[k - 1], k)
  BY MapPagesLoop
<1>5. PICK S : S = {k \in 0 .. n : Stuck(r[k])}
  OBVIOUS
<1>6. 0 \in S
  <2>1. Stuck(c)
    BY <1>2 DEF Stuck, Fields
  <2> QED BY <1>4, <1>5, <2>1
<1>7. ASSUME NEW k \in 1 .. n, k - 1 \in S PROVE k \in S
  BY <1>4, <1>5, <1>7, StuckMapOne
<1>8. n \in S
  BY <1>6, <1>7, Climb
<1> QED BY <1>3, <1>4, <1>5, <1>8

-----------------------------------------------------------------------------
(* A table maps the areas as long as it translates as before.               *)
LEMMA MappedSame ==
  ASSUME NEW b, NEW f, b.areas \in Seq(AreaSet), Mapped(b), Placed(b.areas),
         f.areas = b.areas, SameLookups(b, f)
  PROVE  Mapped(f)
<1>1. Lookup(f, TRAMPOLINE) = TrampolineEntry
  BY IndexFacts DEF Mapped, SameLookups
<1>2. ASSUME NEW k \in DOMAIN f.areas, NEW i \in DOMAIN f.areas[k].frames
      PROVE  Lookup(f, f.areas[k].start + i - 1) = PageEntry(f.areas[k], i)
  <2>1. k \in DOMAIN b.areas /\ i \in DOMAIN b.areas[k].frames
    BY Zenon
  <2>2. i \in 1 .. b.areas[k].pages
    <3>1. /\ DOMAIN b.areas[k].frames = 1 .. Len(b.areas[k].frames)
          /\ Len(b.areas[k].frames) \in Nat /\ b.areas[k].pages \in Nat
      BY <2>1, AreaFacts
    <3>2. Len(b.areas[k].frames) <= b.areas[k].pages
      BY <2>1 DEF Placed
    <3> QED BY <2>1, <3>1, <3>2
  <2>3. b.areas[k].start + i - 1 \in 0 .. TRAMPOLINE
    BY <2>1, <2>2, PageBelow
  <2>4. Lookup(f, b.areas[k].start + i - 1) = Lookup(b, b.areas[k].start + i - 1)
    BY <2>3, Zenon DEF SameLookups
  <2>5. Lookup(b, b.areas[k].start + i - 1) = PageEntry(b.areas[k], i)
    BY <2>1, Zenon DEF Mapped
  <2> QED BY <2>4, <2>5, Zenon
<1>3. ASSUME NEW v \in 0 .. TRAMPOLINE, Valid(Lookup(f, v)), v # TRAMPOLINE
      PROVE  \E k \in DOMAIN f.areas : \E i \in DOMAIN f.areas[k].frames :
               v = f.areas[k].start + i - 1
  <2>1. Valid(Lookup(b, v))
    BY <1>3 DEF SameLookups
  <2>2. PICK k \in DOMAIN b.areas : \E i \in DOMAIN b.areas[k].frames :
          v = b.areas[k].start + i - 1
    BY <1>3, <2>1 DEF Mapped
  <2>3. PICK i \in DOMAIN b.areas[k].frames : v = b.areas[k].start + i - 1
    BY <2>2
  <2>4. k \in DOMAIN f.areas /\ i \in DOMAIN f.areas[k].frames /\ v = f.areas[k].start + i - 1
    BY <2>3, Zenon
  <2> QED BY <2>4, Zenon
<1> QED BY <1>1, <1>2, <1>3, Zenon DEF Mapped

(* Page x of the space at hand was written and has this content.            *)
Rewritten(b, f, x, page) ==
    /\ Ready(f) /\ Mapped(f) /\ f.areas = b.areas /\ f.nodes = b.nodes
    /\ Others(f) = Others(b) /\ Bulk(f) = Bulk(b)
    /\ x \in Owned(SpaceOf(b)) /\ x \in Frames
    /\ f.mem[x] = page /\ \A y \in Frames : y # x => f.mem[y] = b.mem[y]

(* Writes to the pages of areas.  Frame x of an area is written: the table  *)
(* and all other frames stay.                                               *)
LEMMA WritePage ==
  ASSUME NEW b, Ready(b), Mapped(b), Placed(b.areas), NEW k \in DOMAIN b.areas,
         NEW i \in DOMAIN b.areas[k].frames, NEW x, x = b.areas[k].frames[i],
         NEW m \in [Frames -> Page], \A y \in Frames : y # x => m[y] = b.mem[y],
         NEW f, f = SetMem(b, m)
  PROVE  Rewritten(b, f, x, m[x])
<1>1. /\ b.mem \in [Frames -> Page] /\ Held(b) \subseteq Frames
      /\ Range(b.nodes) \subseteq Frames /\ Table(b.mem, b.nodes)
  BY ReadyFacts DEF Ready
<1>2. x \in Bulk(b) /\ x \in Owned(SpaceOf(b)) /\ x \in Frames /\ x \notin Range(b.nodes)
  BY <1>1, FrameInBulk DEF Bulk
<1>4. Table(m, b.nodes) /\ SameTable(b.mem, m, Head(b.nodes))
  <2>1. \A y \in Range(b.nodes) : m[y] = b.mem[y]
    BY <1>1, <1>2
  <2> QED BY <1>1, <2>1, TableFrame
<1>5. /\ Ready(f) /\ f.mem = m /\ f.nodes = b.nodes /\ f.areas = b.areas
      /\ Held(f) = Held(b) /\ SpaceOf(f) = SpaceOf(b) /\ f.panic = "none"
  BY <1>4, WithMem
<1>6. SameLookups(b, f)
  <2>1. SameWalks(b, f) /\ Head(f.nodes) = Head(b.nodes)
    BY <1>4, <1>5 DEF SameWalks
  <2> QED BY <2>1, WalkLookup
<1>7. Others(f) = Others(b) /\ Bulk(f) = Bulk(b)
  BY <1>5 DEF Others, Bulk
<1>8. Mapped(f)
  <2>1. b.areas \in Seq(AreaSet)
    BY ReadyFacts
  <2> QED BY <1>5, <1>6, <2>1, MappedSame
<1> QED BY <1>2, <1>5, <1>7, <1>8 DEF Rewritten

-----------------------------------------------------------------------------
(* Filling the last area.  Only its frames were written.                    *)
Filled(p, n, c) ==
    /\ Ready(c) /\ Mapped(c) /\ c.areas = p.areas /\ c.nodes = p.nodes
    /\ Others(c) = Others(p)
    /\ \A y \in Frames : y \notin Range(p.areas[n].frames) => c.mem[y] = p.mem[y]

(* Two pages of an area have different frames.                              *)
LEMMA FramesDiffer ==
  ASSUME NEW b, Ready(b), NEW n \in DOMAIN b.areas, NEW i \in DOMAIN b.areas[n].frames,
         NEW l \in DOMAIN b.areas, NEW j \in DOMAIN b.areas[l].frames,
         b.areas[n].frames[i] = b.areas[l].frames[j]
  PROVE  n = l /\ i = j
<1>1. b.nodes \in Seq(Frames) /\ b.areas \in Seq(AreaSet)
  BY ReadyFacts
<1>2. PICK a \in Nat : a = Len(b.areas) /\ n \in 1 .. a /\ l \in 1 .. a
  BY <1>1
<1>3. /\ Len(SpaceOf(b).areas) = a /\ Column(SpaceOf(b), n) = b.areas[n].frames
      /\ Column(SpaceOf(b), l) = b.areas[l].frames
  BY <1>1, <1>2, ColumnFacts
<1>4. /\ n \in 0 .. a /\ l \in 0 .. a
  BY <1>2
<1>5. /\ i \in DOMAIN Column(SpaceOf(b), n) /\ j \in DOMAIN Column(SpaceOf(b), l)
      /\ Column(SpaceOf(b), n)[i] = Column(SpaceOf(b), l)[j]
  BY <1>3, Zenon
<1>6. \A k, h \in 0 .. a : \A u \in DOMAIN Column(SpaceOf(b), k), v \in DOMAIN Column(SpaceOf(b), h) :
        Column(SpaceOf(b), k)[u] = Column(SpaceOf(b), h)[v] => k = h /\ u = v
  BY <1>3 DEF Ready, OwnedOnce
<1> QED BY <1>4, <1>5, <1>6

(* Page i of an area translates to its frame.                               *)
LEMMA PageLookup ==
  ASSUME NEW b, Ready(b), Mapped(b), NEW n \in DOMAIN b.areas, NEW i \in DOMAIN b.areas[n].frames
  PROVE  /\ Lookup(b, b.areas[n].start + i - 1).ppn = b.areas[n].frames[i]
         /\ Lookup(b, b.areas[n].start + i - 1).flags = b.areas[n].perm \cup {"V"}
         /\ b.areas[n].frames[i] \in Frames
<1>1. Lookup(b, b.areas[n].start + i - 1) = Entry(b.areas[n].frames[i], b.areas[n].perm)
  BY DEF Mapped, PageEntry
<1>2. /\ b.areas[n].frames[i] \in Nat /\ b.areas[n].frames[i] \in Frames
      /\ b.areas[n].perm \in SUBSET {"R", "W", "X", "U"}
  BY ReadyFacts, AreaFacts
<1> QED BY <1>1, <1>2, EntryFacts

(* Memory m is that of c but for the frame of page k of area n.             *)
Fill(p, n, c, k, m) ==
    /\ n \in DOMAIN p.areas /\ Placed(p.areas) /\ Filled(p, n, c)
    /\ k \in DOMAIN p.areas[n].frames /\ m \in [Frames -> Page]
    /\ \A y \in Frames : y # p.areas[n].frames[k] => m[y] = c.mem[y]

PageFilled(p, n, c, k, m, d) ==
    /\ Filled(p, n, d) /\ d.mem[p.areas[n].frames[k]] = m[p.areas[n].frames[k]]
    /\ \A i \in DOMAIN p.areas[n].frames :
         i # k => d.mem[p.areas[n].frames[i]] = c.mem[p.areas[n].frames[i]]

(* A page of the area that is being filled gets its content.                *)
LEMMA FillStep ==
  ASSUME NEW p, NEW n, NEW c, NEW k, NEW m, Fill(p, n, c, k, m), NEW d, d = SetMem(c, m)
  PROVE  PageFilled(p, n, c, k, m, d)
<1>0. /\ n \in DOMAIN p.areas /\ Placed(p.areas) /\ Filled(p, n, c)
      /\ k \in DOMAIN p.areas[n].frames /\ m \in [Frames -> Page]
  BY DEF Fill
<1>x. PICK x : x = p.areas[n].frames[k]
  OBVIOUS
<1>y. \A y \in Frames : y # x => m[y] = c.mem[y]
  BY <1>x DEF Fill
<1>1. /\ Ready(c) /\ Mapped(c) /\ c.areas = p.areas /\ c.nodes = p.nodes
      /\ Others(c) = Others(p)
      /\ \A y \in Frames : y \notin Range(p.areas[n].frames) => c.mem[y] = p.mem[y]
  BY <1>0 DEF Filled
<1>2. /\ n \in DOMAIN c.areas /\ k \in DOMAIN c.areas[n].frames /\ x = c.areas[n].frames[k]
      /\ Placed(c.areas)
  BY <1>0, <1>1, <1>x, Zenon
<1>3. Rewritten(c, d, x, m[x])
  BY <1>0, <1>1, <1>2, <1>y, WritePage
<1>4. /\ Ready(d) /\ Mapped(d) /\ d.areas = c.areas /\ d.nodes = c.nodes
      /\ Others(d) = Others(c) /\ d.mem[x] = m[x] /\ \A y \in Frames : y # x => d.mem[y] = c.mem[y]
  BY <1>3 DEF Rewritten
<1>5. x \in Range(p.areas[n].frames)
  BY <1>0, <1>x DEF Range
<1>6. \A y \in Frames : y \notin Range(p.areas[n].frames) => d.mem[y] = p.mem[y]
  BY <1>1, <1>4, <1>5
<1>7. Filled(p, n, d)
  BY <1>1, <1>4, <1>6 DEF Filled
<1>8. ASSUME NEW i \in DOMAIN p.areas[n].frames, i # k
      PROVE  d.mem[p.areas[n].frames[i]] = c.mem[p.areas[n].frames[i]]
  <2>1. i \in DOMAIN c.areas[n].frames /\ c.areas[n].frames[i] = p.areas[n].frames[i]
    BY <1>1, Zenon
  <2>2. c.areas[n].frames[i] # x
    BY <1>1, <1>2, <1>8, <2>1, FramesDiffer
  <2>3. c.areas[n].frames[i] \in Frames
    BY <1>1, <1>2, <2>1, ReadyFacts, AreaFacts
  <2> QED BY <1>4, <2>1, <2>2, <2>3
<1> QED BY <1>4, <1>7, <1>8, <1>x DEF PageFilled

Stored(p, n, data, f) ==
    /\ Filled(p, n, f)
    /\ \A i \in 1 .. Len(data) : f.mem[p.areas[n].frames[i]][0] = Data(data[i])

(* copy_data: the words of a segment.                                       *)
LEMMA CopyDataFacts ==
  ASSUME NEW p, Ready(p), Mapped(p), Placed(p.areas), NEW n \in DOMAIN p.areas,
         NEW data \in Seq(Nat), NEW l, l = Len(data), Len(p.areas[n].frames) = l,
         NEW start, start = p.areas[n].start, NEW f, f = CopyData(p, start, data)
  PROVE  Stored(p, n, data, f)
<1>1. l \in Nat /\ DOMAIN data = 1 .. l /\ \A i \in 1 .. l : data[i] \in Nat
  OBVIOUS
<1>2. DOMAIN p.areas[n].frames = 1 .. l
  BY ReadyFacts, AreaFacts
<1>a. PICK r : CopyDataRun(p, start, data, l, r)
  BY <1>1, CopyDataLoop, Zenon
<1>3. /\ f = r[l] /\ r[0] = p
      /\ \A k \in 1 .. l : r[k] = CopyWord(r[k - 1], start + k - 1, data[k])
  BY <1>a DEF CopyDataRun
<1>4. PICK S : S = {k \in 0 .. l : /\ Filled(p, n, r[k])
                                   /\ \A i \in 1 .. k : r[k].mem[p.areas[n].frames[i]][0] = Data(data[i])}
  OBVIOUS
<1>5. 0 \in S
  <2>1. Filled(p, n, p)
    BY DEF Filled
  <2>2. 0 \in 0 .. l /\ \A i \in 1 .. 0 : FALSE
    BY <1>1
  <2> QED BY <1>3, <1>4, <2>1, <2>2
<1>6. ASSUME NEW k \in 1 .. l, k - 1 \in S PROVE k \in S
  <2>1. PICK j, c, d : j = k - 1 /\ c = r[j] /\ d = r[k]
    OBVIOUS
  <2>2. /\ Filled(p, n, c)
        /\ \A i \in 1 .. j : c.mem[p.areas[n].frames[i]][0] = Data(data[i])
    BY <1>4, <1>6, <2>1
  <2>3. d = CopyWord(c, start + k - 1, data[k])
    BY <1>3, <2>1
  <2>4. PICK x, w : x = p.areas[n].frames[k] /\ w = Data(data[k])
    OBVIOUS
  <2>5. /\ Ready(c) /\ Mapped(c) /\ c.areas = p.areas /\ c.nodes = p.nodes
    BY <2>2 DEF Filled
  <2>6. Translate(c.mem, Head(c.nodes), start + k - 1).ppn = x /\ x \in Frames
    <3>1. /\ n \in DOMAIN c.areas /\ k \in DOMAIN c.areas[n].frames
          /\ c.areas[n].frames[k] = x /\ c.areas[n].start = start
      BY <1>2, <2>4, <2>5, Zenon
    <3>2. /\ Lookup(c, c.areas[n].start + k - 1).ppn = c.areas[n].frames[k]
          /\ c.areas[n].frames[k] \in Frames
      BY <2>5, <3>1, PageLookup
    <3> QED BY <3>1, <3>2, Zenon DEF Lookup
  <2>7. w \in Word /\ 0 \in 0 .. PTES - 1
    BY <1>1, <2>4, MemoryAssumption DEF Data, Word
  <2>8. PICK m : m = [c.mem EXCEPT ![x] = [c.mem[x] EXCEPT ![0] = w]]
    OBVIOUS
  <2>9. c.mem \in [Frames -> Page] /\ DOMAIN c = Fields
    BY <2>5, ReadyFacts
  <2>10. m \in [Frames -> Page] /\ m[x][0] = w /\ \A y \in Frames : y # x => m[y] = c.mem[y]
    <3>1. c.mem[x] \in Page
      BY <2>6, <2>9
    <3>2. [c.mem[x] EXCEPT ![0] = w] \in Page /\ [c.mem[x] EXCEPT ![0] = w][0] = w
      BY <2>7, <3>1 DEF Page
    <3> QED BY <2>6, <2>8, <2>9, <3>2
  <2>11. d = SetMem(c, m)
    BY <2>3, <2>4, <2>6, <2>8, <2>9 DEF CopyWord, SetMem, Fields
  <2>12. /\ Filled(p, n, d) /\ d.mem[x] = m[x]
         /\ \A i \in DOMAIN p.areas[n].frames :
              i # k => d.mem[p.areas[n].frames[i]] = c.mem[p.areas[n].frames[i]]
    <3>1. Fill(p, n, c, k, m)
      BY <1>2, <2>2, <2>4, <2>10 DEF Fill
    <3>2. PageFilled(p, n, c, k, m, d)
      BY <2>11, <3>1, FillStep
    <3> QED BY <2>4, <3>2 DEF PageFilled
  <2>13. ASSUME NEW i \in 1 .. k PROVE d.mem[p.areas[n].frames[i]][0] = Data(data[i])
    <3>1. CASE i = k
      BY <2>4, <2>10, <2>12, <3>1
    <3>2. CASE i # k
      <4>1. i \in 1 .. j /\ i \in 1 .. l
        BY <1>1, <2>1, <3>2
      <4> QED BY <1>2, <2>2, <2>12, <3>2, <4>1
    <3> QED BY <3>1, <3>2
  <2>14. k \in 0 .. l
    BY <1>1
  <2> QED BY <1>4, <2>1, <2>12, <2>13, <2>14
<1>7. l \in S
  BY <1>1, <1>5, <1>6, Climb
<1> QED BY <1>3, <1>4, <1>7 DEF Stored

-----------------------------------------------------------------------------
(* Copying.  The frames of the space that is copied are there, unchanged.   *)
Source(s, c) == \A x \in Owned(SpaceOf(s)) : x \in Others(c) /\ c.mem[x] = s.mem[x]

(* Its table translates as before.                                          *)
LEMMA SourceLookup ==
  ASSUME NEW s, Ready(s), NEW c, Source(s, c), NEW v \in 0 .. TRAMPOLINE
  PROVE  Translate(c.mem, Head(s.nodes), v) = Lookup(s, v)
<1>1. Table(s.mem, s.nodes) /\ s.nodes \in Seq(Frames) /\ s.areas \in Seq(AreaSet)
  BY ReadyFacts DEF Ready
<1>2. Range(s.nodes) \subseteq Owned(SpaceOf(s))
  BY <1>1, ColumnFacts
<1>3. SameTable(s.mem, c.mem, Head(s.nodes))
  BY <1>1, <1>2, TableFrame DEF Source
<1>4. PICK i \in 0 .. PTES - 1, j \in 0 .. PTES - 1, k \in 0 .. PTES - 1 :
        i = Indexes(v)[1] /\ j = Indexes(v)[2] /\ k = Indexes(v)[3]
  BY IndexFacts
<1>5. Walk(c.mem, Head(s.nodes), i, j, k) = Walk(s.mem, Head(s.nodes), i, j, k)
  BY <1>3 DEF SameTable
<1> QED BY <1>4, <1>5, Zenon DEF Translate, Lookup, Walk

(* Filling an area leaves the frames of all others alone.                   *)
LEMMA FilledOthers ==
  ASSUME NEW p, Ready(p), NEW n \in DOMAIN p.areas, NEW c, Filled(p, n, c),
         NEW x \in Others(p)
  PROVE  x \in Others(c) /\ c.mem[x] = p.mem[x]
<1>1. p.nodes \in Seq(Frames) /\ p.areas \in Seq(AreaSet) /\ Held(p) \subseteq Frames
  BY ReadyFacts
<1>2. n \in 1 .. Len(p.areas)
  BY <1>1
<1>3. Range(p.areas[n].frames) \subseteq Owned(SpaceOf(p))
  BY <1>1, <1>2, ColumnFacts
<1> QED BY <1>1, <1>3 DEF Filled, Others

(* So the source stays.                                                     *)
LEMMA FilledSource ==
  ASSUME NEW p, Ready(p), NEW n \in DOMAIN p.areas, NEW c, Filled(p, n, c),
         NEW s, Source(s, p)
  PROVE  Source(s, c)
BY FilledOthers DEF Source

(* Area n of f has the content of area h of s.                              *)
Copied(s, h, p, n, f) ==
    /\ Filled(p, n, f)
    /\ \A i \in 1 .. s.areas[h].pages :
         f.mem[p.areas[n].frames[i]] = s.mem[s.areas[h].frames[i]]

(* Area n of p is new and has the place of area h of s.                     *)
Twin(s, h, p, n) ==
    /\ Ready(s) /\ Mapped(s) /\ Placed(s.areas) /\ h \in DOMAIN s.areas
    /\ Len(s.areas[h].frames) = s.areas[h].pages
    /\ Ready(p) /\ Mapped(p) /\ Placed(p.areas) /\ n \in DOMAIN p.areas
    /\ p.areas[n].start = s.areas[h].start
    /\ Len(p.areas[n].frames) = s.areas[h].pages
    /\ Source(s, p)

(* from_existed_user, for the pages of one area.                            *)
LEMMA CopyPagesFacts ==
  ASSUME NEW s, NEW h, NEW p, NEW n, Twin(s, h, p, n),
         NEW space, space.nodes = s.nodes,
         NEW f, f = CopyPages(p, space, s.areas[h])
  PROVE  Copied(s, h, p, n, f)
<1>0. /\ Ready(s) /\ Mapped(s) /\ Placed(s.areas) /\ h \in DOMAIN s.areas
      /\ Ready(p) /\ Mapped(p) /\ Placed(p.areas) /\ n \in DOMAIN p.areas
      /\ Source(s, p)
  BY DEF Twin
<1>1. PICK l, start, area : /\ l = s.areas[h].pages /\ start = s.areas[h].start
                            /\ area = s.areas[h]
  OBVIOUS
<1>2. /\ l \in Nat /\ DOMAIN p.areas[n].frames = 1 .. l /\ DOMAIN s.areas[h].frames = 1 .. l
      /\ area.pages = l /\ area.start = start /\ p.areas[n].start = start
  <2>1. s.areas \in Seq(AreaSet) /\ p.areas \in Seq(AreaSet)
    BY <1>0, ReadyFacts
  <2>2. /\ DOMAIN p.areas[n].frames = 1 .. Len(p.areas[n].frames)
        /\ DOMAIN s.areas[h].frames = 1 .. Len(s.areas[h].frames)
        /\ s.areas[h].pages \in Nat
    BY <1>0, <2>1, AreaFacts
  <2> QED BY <1>1, <2>2, Zenon DEF Twin
<1>a. PICK r : CopyPagesRun(p, space, area, l, r)
  BY <1>2, CopyPagesLoop, Zenon
<1>3. /\ f = r[l] /\ r[0] = p
      /\ \A k \in 1 .. l : r[k] = CopyPage(r[k - 1], space, start + k - 1)
  BY <1>1, <1>2, <1>a DEF CopyPagesRun
<1>4. PICK S : S = {k \in 0 .. l : /\ Filled(p, n, r[k])
                                   /\ \A i \in 1 .. k :
                                        r[k].mem[p.areas[n].frames[i]] = s.mem[s.areas[h].frames[i]]}
  OBVIOUS
<1>5. 0 \in S
  <2>1. Filled(p, n, p)
    BY <1>0 DEF Filled
  <2>2. 0 \in 0 .. l /\ \A i \in 1 .. 0 : FALSE
    BY <1>2
  <2> QED BY <1>3, <1>4, <2>1, <2>2
<1>6. ASSUME NEW k \in 1 .. l, k - 1 \in S PROVE k \in S
  <2>1. PICK j, c, d : j = k - 1 /\ c = r[j] /\ d = r[k]
    OBVIOUS
  <2>2. /\ Filled(p, n, c)
        /\ \A i \in 1 .. j : c.mem[p.areas[n].frames[i]] = s.mem[s.areas[h].frames[i]]
    BY <1>4, <1>6, <2>1
  <2>3. d = CopyPage(c, space, start + k - 1)
    BY <1>3, <2>1
  <2>4. PICK x, y : x = p.areas[n].frames[k] /\ y = s.areas[h].frames[k]
    OBVIOUS
  <2>5. /\ Ready(c) /\ Mapped(c) /\ c.areas = p.areas /\ c.nodes = p.nodes
    BY <2>2 DEF Filled
  <2>6. Translate(c.mem, Head(c.nodes), start + k - 1).ppn = x /\ x \in Frames
    <3>1. /\ n \in DOMAIN c.areas /\ k \in DOMAIN c.areas[n].frames
          /\ c.areas[n].frames[k] = x /\ c.areas[n].start = start
      BY <1>0, <1>2, <2>4, <2>5, Zenon
    <3>2. /\ Lookup(c, c.areas[n].start + k - 1).ppn = c.areas[n].frames[k]
          /\ c.areas[n].frames[k] \in Frames
      BY <2>5, <3>1, PageLookup
    <3> QED BY <3>1, <3>2, Zenon DEF Lookup
  <2>s. Source(s, c)
    BY <1>0, <2>2, FilledSource
  <2>7. Translate(c.mem, Head(space.nodes), start + k - 1).ppn = y /\ y \in Frames
    <3>1. k \in DOMAIN s.areas[h].frames /\ k \in 1 .. s.areas[h].pages
      BY <1>1, <1>2, Zenon
    <3>2. /\ Lookup(s, s.areas[h].start + k - 1).ppn = s.areas[h].frames[k]
          /\ s.areas[h].frames[k] \in Frames
      BY <1>0, <3>1, PageLookup
    <3>3. s.areas[h].start + k - 1 \in 0 .. TRAMPOLINE
      BY <1>0, <3>1, ReadyFacts, PageBelow
    <3>4. Translate(c.mem, Head(s.nodes), s.areas[h].start + k - 1)
            = Lookup(s, s.areas[h].start + k - 1)
      BY <1>0, <2>s, <3>3, SourceLookup
    <3> QED BY <1>1, <2>4, <3>2, <3>4, Zenon
  <2>8. c.mem[y] = s.mem[y]
    <3>1. k \in DOMAIN s.areas[h].frames
      BY <1>2
    <3>2. y \in Owned(SpaceOf(s))
      BY <1>0, <2>4, <3>1, FrameInBulk
    <3> QED BY <2>s, <3>2 DEF Source
  <2>9. c.mem \in [Frames -> Page] /\ DOMAIN c = Fields
    BY <2>5, ReadyFacts
  <2>m. PICK m : m = [c.mem EXCEPT ![x] = c.mem[y]]
    OBVIOUS
  <2>10. m \in [Frames -> Page] /\ m[x] = s.mem[y] /\ \A z \in Frames : z # x => m[z] = c.mem[z]
    BY <2>6, <2>7, <2>8, <2>9, <2>m
  <2>11. d = SetMem(c, m)
    BY <2>3, <2>6, <2>7, <2>9, <2>m DEF CopyPage, SetMem, Fields
  <2>12. /\ Filled(p, n, d) /\ d.mem[x] = m[x]
         /\ \A i \in DOMAIN p.areas[n].frames :
              i # k => d.mem[p.areas[n].frames[i]] = c.mem[p.areas[n].frames[i]]
    <3>1. Fill(p, n, c, k, m)
      BY <1>0, <1>2, <2>2, <2>4, <2>10 DEF Fill
    <3>2. PageFilled(p, n, c, k, m, d)
      BY <2>11, <3>1, FillStep
    <3> QED BY <2>4, <3>2 DEF PageFilled
  <2>13. ASSUME NEW i \in 1 .. k
         PROVE  d.mem[p.areas[n].frames[i]] = s.mem[s.areas[h].frames[i]]
    <3>1. CASE i = k
      BY <2>4, <2>10, <2>12, <3>1
    <3>2. CASE i # k
      <4>1. i \in 1 .. j /\ i \in 1 .. l
        BY <1>2, <2>1, <3>2
      <4> QED BY <1>2, <2>2, <2>12, <3>2, <4>1
    <3> QED BY <3>1, <3>2
  <2>14. k \in 0 .. l
    BY <1>2
  <2> QED BY <1>4, <2>1, <2>12, <2>13, <2>14
<1>7. l \in S
  BY <1>2, <1>5, <1>6, Climb
<1> QED BY <1>1, <1>3, <1>4, <1>7 DEF Copied

-----------------------------------------------------------------------------
(* Whole spaces: every page of every area has its frame.                    *)
Whole(b) ==
    /\ Ready(b) /\ Mapped(b) /\ Placed(b.areas)
    /\ \A k \in DOMAIN b.areas : Len(b.areas[k].frames) = b.areas[k].pages

(* The frames of all others are as they were.                               *)
Beside(b, f) == Others(f) = Others(b) /\ \A x \in Others(b) : f.mem[x] = b.mem[x]

(* The pages of area k have the content they had.                           *)
SameContent(b, f, k) ==
    \A i \in DOMAIN b.areas[k].frames : f.mem[b.areas[k].frames[i]] = b.mem[b.areas[k].frames[i]]

(* The space has an area more, behind the others.                           *)
Added(b, area, f) ==
    /\ Whole(f) /\ Beside(b, f)
    /\ Len(f.areas) = Len(b.areas) + 1
    /\ \A k \in DOMAIN b.areas : f.areas[k] = b.areas[k] /\ SameContent(b, f, k)
    /\ f.areas[Len(b.areas) + 1].start = area.start
    /\ f.areas[Len(b.areas) + 1].pages = area.pages
    /\ f.areas[Len(b.areas) + 1].perm = area.perm

(* One operation after the other.                                           *)
LEMMA BesideTrans ==
  ASSUME NEW b, NEW c, NEW d, Beside(b, c), Beside(c, d)
  PROVE  Beside(b, d)
BY DEF Beside

(* What others own is in no column of this space.                           *)
LEMMA OthersInBulk ==
  ASSUME NEW b, Ready(b)
  PROVE  Others(b) \subseteq Bulk(b) /\ Others(b) \subseteq Frames
<1>1. b.nodes \in Seq(Frames) /\ b.areas \in Seq(AreaSet) /\ Held(b) \subseteq Frames
  BY ReadyFacts
<1>2. Range(b.nodes) \subseteq Owned(SpaceOf(b))
  BY <1>1, ColumnFacts
<1> QED BY <1>1, <1>2 DEF Others, Bulk

(* A page of a whole space.                                                 *)
LEMMA WholeFacts ==
  ASSUME NEW b, Whole(b)
  PROVE  /\ Ready(b) /\ Mapped(b) /\ Placed(b.areas)
         /\ b.areas \in Seq(AreaSet) /\ Len(b.areas) \in Nat /\ DOMAIN b.areas = 1 .. Len(b.areas)
         /\ \A k \in DOMAIN b.areas : /\ Len(b.areas[k].frames) = b.areas[k].pages
                                      /\ DOMAIN b.areas[k].frames = 1 .. b.areas[k].pages
                                      /\ b.areas[k].pages \in Nat /\ b.areas[k].start \in Nat
<1>1. Ready(b) /\ b.areas \in Seq(AreaSet)
  BY ReadyFacts DEF Whole
<1>2. ASSUME NEW k \in DOMAIN b.areas
      PROVE  /\ Len(b.areas[k].frames) = b.areas[k].pages
             /\ DOMAIN b.areas[k].frames = 1 .. b.areas[k].pages
             /\ b.areas[k].pages \in Nat /\ b.areas[k].start \in Nat
  <2>1. DOMAIN b.areas[k].frames = 1 .. Len(b.areas[k].frames) /\ b.areas[k].pages \in Nat
        /\ b.areas[k].start \in Nat
    BY <1>1, AreaFacts
  <2>2. Len(b.areas[k].frames) = b.areas[k].pages
    BY DEF Whole
  <2> QED BY <2>1, <2>2, Zenon
<1> QED BY <1>1, <1>2 DEF Whole

(* push.                                                                    *)
LEMMA PushAdded ==
  ASSUME NEW b, Whole(b), NEW area, NEW f, Pushing(b, area, area.pages, f)
  PROVE  Added(b, area, f)
<1>1. PICK n \in Nat : n = Len(b.areas) /\ DOMAIN b.areas = 1 .. n
  BY WholeFacts
<1>2. /\ Ready(f) /\ Keeps(b, f) /\ Mapped(f) /\ Placed(f.areas) /\ Len(f.areas) = n + 1
      /\ \A h \in 1 .. n : f.areas[h] = b.areas[h]
      /\ f.areas[n + 1].start = area.start /\ f.areas[n + 1].pages = area.pages
      /\ f.areas[n + 1].perm = area.perm /\ Len(f.areas[n + 1].frames) = area.pages
  BY <1>1 DEF Pushing
<1>3. Beside(b, f)
  <2>1. Others(b) \subseteq Bulk(b)
    BY OthersInBulk DEF Whole
  <2> QED BY <1>2, <2>1 DEF Keeps, Beside
<1>4. \A k \in DOMAIN b.areas : SameContent(b, f, k)
  BY <1>2, FrameInBulk DEF Keeps, SameContent, Whole
<1>5. ASSUME NEW k \in DOMAIN f.areas PROVE Len(f.areas[k].frames) = f.areas[k].pages
  <2>1. DOMAIN f.areas = 1 .. n + 1
    BY <1>2, ReadyFacts
  <2>2. k \in 1 .. n \/ k = n + 1
    BY <2>1
  <2>3. CASE k \in 1 .. n
    <3>1. Len(b.areas[k].frames) = b.areas[k].pages
      BY <1>1, <2>3 DEF Whole
    <3> QED BY <1>2, <2>3, <3>1
  <2>4. CASE k = n + 1
    BY <1>2, <2>4
  <2> QED BY <2>2, <2>3, <2>4
<1>6. Whole(f)
  BY <1>2, <1>5 DEF Whole
<1> QED BY <1>1, <1>2, <1>3, <1>4, <1>6 DEF Added

(* The pages of the new area are filled.                                    *)
LEMMA FillAdded ==
  ASSUME NEW b, Whole(b), NEW area, NEW p, Added(b, area, p), NEW n, n = Len(b.areas) + 1,
         NEW f, Filled(p, n, f)
  PROVE  Added(b, area, f)
<1>1. PICK l \in Nat : l = Len(b.areas) /\ DOMAIN b.areas = 1 .. l /\ n = l + 1
  BY WholeFacts
<1>2. /\ Whole(p) /\ Beside(b, p) /\ Len(p.areas) = n
      /\ \A k \in DOMAIN b.areas : p.areas[k] = b.areas[k] /\ SameContent(b, p, k)
  BY DEF Added
<1>3. Ready(p) /\ Placed(p.areas) /\ DOMAIN p.areas = 1 .. n /\ n \in DOMAIN p.areas
  BY <1>1, <1>2, WholeFacts
<1>4. /\ Ready(f) /\ Mapped(f) /\ f.areas = p.areas /\ Others(f) = Others(p)
      /\ \A y \in Frames : y \notin Range(p.areas[n].frames) => f.mem[y] = p.mem[y]
  BY DEF Filled
<1>5. Whole(f)
  BY <1>2, <1>3, <1>4 DEF Whole
<1>6. Beside(b, f)
  <2>1. Beside(p, f)
    BY <1>3, <1>4, FilledOthers DEF Beside
  <2> QED BY <1>2, <2>1, BesideTrans
<1>7. ASSUME NEW k \in DOMAIN b.areas PROVE f.areas[k] = b.areas[k] /\ SameContent(b, f, k)
  <2>1. p.areas[k] = b.areas[k] /\ f.areas[k] = b.areas[k] /\ SameContent(b, p, k)
    BY <1>2, <1>4, Zenon
  <2>2. k \in DOMAIN p.areas /\ k # n
    BY <1>1, <1>3
  <2>3. ASSUME NEW i \in DOMAIN b.areas[k].frames
        PROVE  f.mem[b.areas[k].frames[i]] = b.mem[b.areas[k].frames[i]]
    <3>1. i \in DOMAIN p.areas[k].frames /\ p.areas[k].frames[i] = b.areas[k].frames[i]
      BY <2>1, Zenon
    <3>2. p.areas[k].frames[i] \notin Range(p.areas[n].frames)
      <4>1. SUFFICES ASSUME NEW j \in DOMAIN p.areas[n].frames,
                            p.areas[k].frames[i] = p.areas[n].frames[j]
                     PROVE  FALSE
        BY DEF Range
      <4> QED BY <1>3, <2>2, <3>1, <4>1, FramesDiffer
    <3>3. p.areas[k].frames[i] \in Frames
      BY <1>3, <2>2, <3>1, ReadyFacts, AreaFacts
    <3>4. f.mem[p.areas[k].frames[i]] = p.mem[p.areas[k].frames[i]]
      BY <1>4, <3>2, <3>3
    <3>5. p.mem[b.areas[k].frames[i]] = b.mem[b.areas[k].frames[i]]
      BY <2>1, Zenon DEF SameContent
    <3> QED BY <3>1, <3>4, <3>5, Zenon
  <2> QED BY <2>1, <2>3 DEF SameContent
<1> QED BY <1>1, <1>2, <1>4, <1>5, <1>6, <1>7, Zenon DEF Added

-----------------------------------------------------------------------------
(* from_elf.                                                                *)
Segment == [start : Nat, perm : SUBSET {"R", "W", "X"}, data : Seq(Nat)]

SegmentArea(seg) == Area(seg.start, Len(seg.data), seg.perm \cup {"U"})

(* Area k has the place, the permissions and the words of a segment.        *)
IsSegment(f, k, seg) ==
    /\ f.areas[k].start = seg.start /\ f.areas[k].pages = Len(seg.data)
    /\ f.areas[k].perm = seg.perm \cup {"U"}
    /\ \A i \in 1 .. Len(seg.data) : f.mem[f.areas[k].frames[i]][0] = Data(seg.data[i])

(* The fields of a segment.                                                 *)
LEMMA SegmentFacts ==
  ASSUME NEW seg \in Segment
  PROVE  /\ seg.start \in Nat /\ seg.perm \in SUBSET {"R", "W", "X"} /\ seg.data \in Seq(Nat)
         /\ Len(seg.data) \in Nat
         /\ SegmentArea(seg) \in AreaSet /\ SegmentArea(seg).frames = <<>>
         /\ SegmentArea(seg).start = seg.start /\ SegmentArea(seg).pages = Len(seg.data)
         /\ SegmentArea(seg).perm = seg.perm \cup {"U"}
<1>1. /\ seg.start \in Nat /\ seg.perm \in SUBSET {"R", "W", "X"} /\ seg.data \in Seq(Nat)
  BY DEF Segment
<1>2. Len(seg.data) \in Nat /\ seg.perm \cup {"U"} \in SUBSET {"R", "W", "X", "U"}
  BY <1>1
<1>3. <<>> \in Seq(Frames)
  OBVIOUS
<1> QED BY <1>1, <1>2, <1>3 DEF SegmentArea, Area, AreaSet

(* A segment is loaded.                                                     *)
LEMMA LoadSegmentFacts ==
  ASSUME NEW b, Whole(b), NEW seg \in Segment, NEW area, area = SegmentArea(seg),
         Fits(b.areas, area), NEW n, n = Len(b.areas) + 1, NEW f, f = LoadSegment(b, seg)
  PROVE  Stuck(f) \/ (Added(b, area, f) /\ IsSegment(f, n, seg))
<1>1. PICK p : p = Push(b, area)
  OBVIOUS
<1>2. f = IF p.panic = "none" THEN CopyData(p, seg.start, seg.data) ELSE p
  BY <1>1 DEF LoadSegment, SegmentArea
<1>3. Stuck(p) \/ Pushing(b, area, area.pages, p)
  BY <1>1, PushFacts DEF Whole
<1>4. CASE Stuck(p)
  BY <1>2, <1>4 DEF Stuck
<1>5. CASE Pushing(b, area, area.pages, p)
  <2>1. Added(b, area, p)
    BY <1>5, PushAdded
  <2>2. Whole(p) /\ Len(p.areas) = n /\ p.areas[n].start = area.start
        /\ p.areas[n].pages = area.pages /\ p.areas[n].perm = area.perm
    BY <2>1, Zenon DEF Added
  <2>3. /\ area.start = seg.start /\ area.pages = Len(seg.data) /\ seg.data \in Seq(Nat)
        /\ area.perm = seg.perm \cup {"U"}
    BY SegmentFacts
  <2>4. n \in DOMAIN p.areas
    BY <2>2, WholeFacts
  <2>5. /\ Ready(p) /\ Mapped(p) /\ Placed(p.areas) /\ Len(p.areas[n].frames) = Len(seg.data)
        /\ p.panic = "none"
    BY <2>2, <2>3, <2>4, ReadyFacts DEF Whole
  <2>6. f = CopyData(p, seg.start, seg.data)
    BY <1>2, <2>5
  <2>7. PICK data, start, l : data = seg.data /\ start = seg.start /\ l = Len(data)
    OBVIOUS
  <2>8. /\ data \in Seq(Nat) /\ Len(p.areas[n].frames) = l /\ start = p.areas[n].start
        /\ f = CopyData(p, start, data)
    BY <2>2, <2>3, <2>5, <2>6, <2>7, Zenon
  <2>a. Stored(p, n, data, f)
    BY <2>4, <2>5, <2>7, <2>8, CopyDataFacts, Zenon
  <2>9. /\ Filled(p, n, f)
        /\ \A i \in 1 .. Len(seg.data) : f.mem[p.areas[n].frames[i]][0] = Data(seg.data[i])
    BY <2>7, <2>a DEF Stored
  <2>10. f.areas = p.areas
    BY <2>9 DEF Filled
  <2>11. Added(b, area, f)
    BY <2>1, <2>9, FillAdded
  <2>12. IsSegment(f, n, seg)
    BY <2>2, <2>3, <2>7, <2>9, <2>10, Zenon DEF IsSegment
  <2> QED BY <2>11, <2>12
<1> QED BY <1>3, <1>4, <1>5

(* A segment after a panic.                                                 *)
LEMMA StuckLoadSegment ==
  ASSUME NEW b, Stuck(b), NEW seg \in Segment
  PROVE  Stuck(LoadSegment(b, seg))
<1>1. PICK p, area : p = Push(b, area) /\ area = SegmentArea(seg)
  OBVIOUS
<1>2. Stuck(p)
  BY <1>1, SegmentFacts, StuckPush
<1>3. p.panic # "none"
  BY <1>2 DEF Stuck
<1>4. LoadSegment(b, seg) = p
  BY <1>1, <1>3 DEF LoadSegment, SegmentArea
<1> QED BY <1>2, <1>4

(* What a new area leaves of the others.                                    *)
LEMMA AddedSegment ==
  ASSUME NEW b, Whole(b), NEW area, NEW f, Added(b, area, f), NEW k \in DOMAIN b.areas,
         NEW seg \in Segment, IsSegment(b, k, seg)
  PROVE  IsSegment(f, k, seg)
<1>1. f.areas[k] = b.areas[k] /\ SameContent(b, f, k)
  BY DEF Added
<1>2. DOMAIN b.areas[k].frames = 1 .. Len(seg.data)
  BY WholeFacts DEF IsSegment
<1>3. ASSUME NEW i \in 1 .. Len(seg.data)
      PROVE  f.mem[f.areas[k].frames[i]][0] = Data(seg.data[i])
  <2>1. b.mem[b.areas[k].frames[i]][0] = Data(seg.data[i])
    BY DEF IsSegment
  <2>2. f.mem[b.areas[k].frames[i]] = b.mem[b.areas[k].frames[i]]
    BY <1>1, <1>2, Zenon DEF SameContent
  <2> QED BY <1>1, <2>1, <2>2, Zenon
<1> QED BY <1>1, <1>3, Zenon DEF IsSegment

(* Programs.                                                                *)
LEMMA ProgramFacts ==
  ASSUME NEW program \in Programs, NEW n, n = Len(program)
  PROVE  /\ n \in Nat /\ n > 0 /\ DOMAIN program = 1 .. n
         /\ \A k \in 1 .. n : /\ program[k] \in Segment
                              /\ program[k].start + Len(program[k].data) < StackBottom(program)
         /\ \A k, l \in 1 .. n :
              k < l => program[k].start + Len(program[k].data) <= program[l].start
         /\ StackBottom(program) \in Nat
         /\ StackBottom(program) + USER_STACK_PAGES <= TRAP_CONTEXT
         /\ TRAP_CONTEXT \in Nat /\ TRAP_CONTEXT + 1 = TRAMPOLINE /\ USER_STACK_PAGES \in Nat
<1>1. /\ program \in Seq(Segment) /\ program # <<>>
      /\ \A k, l \in DOMAIN program :
           k < l => program[k].start + Len(program[k].data) <= program[l].start
      /\ StackBottom(program) + USER_STACK_PAGES <= TRAP_CONTEXT
  BY LayoutAssumption DEF Segment
<1>2. /\ n \in Nat /\ n > 0 /\ DOMAIN program = 1 .. n /\ \A k \in 1 .. n : program[k] \in Segment
  BY <1>1
<1>3. \A k \in 1 .. n : program[k].start \in Nat /\ Len(program[k].data) \in Nat
  BY <1>2, SegmentFacts
<1>4. StackBottom(program) = program[n].start + Len(program[n].data) + 1
  BY DEF StackBottom, Last
<1>5. ASSUME NEW k \in 1 .. n
      PROVE  program[k].start + Len(program[k].data) < StackBottom(program)
  <2>1. program[k].start \in Nat /\ Len(program[k].data) \in Nat
        /\ program[n].start \in Nat /\ Len(program[n].data) \in Nat /\ n \in 1 .. n
    BY <1>2, <1>3
  <2>2. CASE k = n
    BY <1>4, <2>1, <2>2
  <2>3. CASE k # n
    <3>1. program[k].start + Len(program[k].data) <= program[n].start
      BY <1>1, <1>2, <2>1, <2>3
    <3> QED BY <1>4, <2>1, <3>1
  <2> QED BY <2>2, <2>3
<1>6. StackBottom(program) \in Nat
  BY <1>2, <1>3, <1>4
<1>7. TRAP_CONTEXT \in Nat /\ TRAP_CONTEXT + 1 = TRAMPOLINE /\ USER_STACK_PAGES \in Nat
  BY IndexFacts, MemoryAssumption DEF TRAP_CONTEXT
<1> QED BY <1>1, <1>2, <1>5, <1>6, <1>7

(* The first k segments are loaded.                                         *)
SegmentsIn(b, program, k, f) ==
    /\ Whole(f) /\ Beside(b, f) /\ Len(f.areas) = k
    /\ \A h \in 1 .. k : IsSegment(f, h, program[h])

(* The next segment fits behind them.                                       *)
LEMMA SegmentFits ==
  ASSUME NEW b, NEW program \in Programs, NEW n, n = Len(program), NEW k \in 1 .. n,
         NEW j, j = k - 1, NEW f, SegmentsIn(b, program, j, f)
  PROVE  Fits(f.areas, SegmentArea(program[k]))
<1>1. PICK seg \in Segment : seg = program[k]
  BY ProgramFacts
<1>2. /\ n \in Nat /\ seg.start + Len(seg.data) < StackBottom(program)
      /\ \A h, l \in 1 .. n : h < l => program[h].start + Len(program[h].data) <= program[l].start
      /\ StackBottom(program) \in Nat
      /\ StackBottom(program) + USER_STACK_PAGES <= TRAP_CONTEXT
      /\ TRAP_CONTEXT \in Nat /\ TRAP_CONTEXT + 1 = TRAMPOLINE /\ USER_STACK_PAGES \in Nat
  BY <1>1, ProgramFacts
<1>3. /\ seg.start \in Nat /\ Len(seg.data) \in Nat
      /\ SegmentArea(seg) \in AreaSet /\ SegmentArea(seg).frames = <<>>
      /\ SegmentArea(seg).start = seg.start /\ SegmentArea(seg).pages = Len(seg.data)
  BY SegmentFacts
<1>4. SegmentArea(seg).start + SegmentArea(seg).pages <= TRAMPOLINE
  <2>1. seg.start + Len(seg.data) <= TRAMPOLINE
    BY <1>2, <1>3
  <2> QED BY <1>3, <2>1, Zenon
<1>5. ASSUME NEW h \in DOMAIN f.areas PROVE Apart(f.areas[h], SegmentArea(seg))
  <2>1. h \in 1 .. j /\ h \in 1 .. n /\ k \in 1 .. n /\ h < k
    <3>1. DOMAIN f.areas = 1 .. j
      BY WholeFacts DEF SegmentsIn
    <3> QED BY <1>2, <3>1
  <2>2. f.areas[h].start = program[h].start /\ f.areas[h].pages = Len(program[h].data)
    BY <2>1 DEF SegmentsIn, IsSegment
  <2>3. program[h].start + Len(program[h].data) <= seg.start
    BY <1>1, <1>2, <2>1
  <2>4. f.areas[h].start + f.areas[h].pages <= SegmentArea(seg).start
    BY <1>3, <2>2, <2>3, Zenon
  <2> QED BY <2>4 DEF Apart
<1> QED BY <1>1, <1>3, <1>4, <1>5 DEF Fits

(* All segments are loaded, or no frame is left.                            *)
LEMMA LoadSegmentsFacts ==
  ASSUME NEW b, Whole(b), b.areas = <<>>, NEW program \in Programs,
         NEW n, n = Len(program), NEW f, f = LoadSegments(b, program)
  PROVE  Stuck(f) \/ SegmentsIn(b, program, n, f)
<1>1. n \in Nat /\ n > 0 /\ \A k \in 1 .. n : program[k] \in Segment
  BY ProgramFacts
<1>2. PICK r : LoadSegmentsRun(b, program, n, r)
  BY <1>1, LoadSegmentsLoop, Zenon
<1>3. /\ f = r[n] /\ r[0] = b
      /\ \A k \in 1 .. n : r[k] = LoadSegment(r[k - 1], program[k])
  BY <1>2 DEF LoadSegmentsRun
<1>4. PICK S : S = {k \in 0 .. n : Stuck(r[k]) \/ SegmentsIn(b, program, k, r[k])}
  OBVIOUS
<1>5. 0 \in S
  <2>1. Len(b.areas) = 0 /\ Beside(b, b)
    BY DEF Beside
  <2>2. \A h \in 1 .. 0 : FALSE
    OBVIOUS
  <2>3. SegmentsIn(b, program, 0, b)
    BY <2>1, <2>2 DEF SegmentsIn
  <2> QED BY <1>1, <1>3, <1>4, <2>3
<1>6. ASSUME NEW k \in 1 .. n, k - 1 \in S PROVE k \in S
  <2>1. PICK j, c, d, seg : j = k - 1 /\ c = r[j] /\ d = r[k] /\ seg = program[k]
    OBVIOUS
  <2>2. Stuck(c) \/ SegmentsIn(b, program, j, c)
    BY <1>4, <1>6, <2>1
  <2>3. d = LoadSegment(c, seg) /\ seg \in Segment /\ k \in 0 .. n
    BY <1>1, <1>3, <2>1
  <2>4. CASE Stuck(c)
    <3>1. Stuck(d)
      BY <2>3, <2>4, StuckLoadSegment
    <3> QED BY <1>4, <2>1, <2>3, <3>1
  <2>5. CASE SegmentsIn(b, program, j, c)
    <3>1. /\ Whole(c) /\ Beside(b, c) /\ Len(c.areas) = j
          /\ \A h \in 1 .. j : IsSegment(c, h, program[h])
      BY <2>5 DEF SegmentsIn
    <3>2. PICK area : area = SegmentArea(seg)
      OBVIOUS
    <3>3. Fits(c.areas, area)
      BY <2>1, <2>5, <3>2, SegmentFits
    <3>4. k = Len(c.areas) + 1
      BY <2>1, <3>1
    <3>5. Stuck(d) \/ (Added(c, area, d) /\ IsSegment(d, k, seg))
      BY <2>3, <3>1, <3>2, <3>3, <3>4, LoadSegmentFacts
    <3>6. ASSUME Added(c, area, d), IsSegment(d, k, seg) PROVE SegmentsIn(b, program, k, d)
      <4>1. Whole(d) /\ Beside(c, d) /\ Len(d.areas) = k
        BY <3>4, <3>6 DEF Added
      <4>2. Beside(b, d)
        BY <3>1, <4>1, BesideTrans
      <4>3. ASSUME NEW h \in 1 .. k PROVE IsSegment(d, h, program[h])
        <5>1. CASE h = k
          BY <2>1, <3>6, <5>1
        <5>2. CASE h # k
          <6>1. h \in 1 .. j /\ h \in 1 .. n /\ h \in DOMAIN c.areas
            <7>1. DOMAIN c.areas = 1 .. j
              BY <3>1, WholeFacts
            <7> QED BY <1>1, <2>1, <5>2, <7>1
          <6>2. IsSegment(c, h, program[h]) /\ program[h] \in Segment
            BY <1>1, <3>1, <6>1
          <6> QED BY <3>1, <3>6, <6>1, <6>2, AddedSegment
        <5> QED BY <5>1, <5>2
      <4> QED BY <4>1, <4>2, <4>3 DEF SegmentsIn
    <3> QED BY <1>4, <2>1, <2>3, <3>5, <3>6
  <2> QED BY <2>2, <2>4, <2>5
<1>7. n \in S
  BY <1>1, <1>5, <1>6, Climb
<1> QED BY <1>3, <1>4, <1>7

(* No frame is left before the first segment.                               *)
LEMMA StuckLoadSegments ==
  ASSUME NEW b, Stuck(b), NEW program \in Programs
  PROVE  Stuck(LoadSegments(b, program))
<1>1. PICK n \in Nat : n = Len(program) /\ \A k \in 1 .. n : program[k] \in Segment
  BY ProgramFacts
<1>2. PICK r : LoadSegmentsRun(b, program, n, r)
  BY <1>1, LoadSegmentsLoop, Zenon
<1>3. /\ LoadSegments(b, program) = r[n] /\ r[0] = b
      /\ \A k \in 1 .. n : r[k] = LoadSegment(r[k - 1], program[k])
  BY <1>2 DEF LoadSegmentsRun
<1>4. PICK S : S = {k \in 0 .. n : Stuck(r[k])}
  OBVIOUS
<1>5. 0 \in S
  BY <1>3, <1>4
<1>6. ASSUME NEW k \in 1 .. n, k - 1 \in S PROVE k \in S
  <2>1. Stuck(r[k - 1]) /\ k \in 0 .. n
    BY <1>4, <1>6
  <2> QED BY <1>1, <1>3, <1>4, <2>1, StuckLoadSegment
<1>7. n \in S
  BY <1>5, <1>6, Climb
<1> QED BY <1>3, <1>4, <1>7

-----------------------------------------------------------------------------
(* from_existed_user.  An area like another, without frames.                *)
AreaLike(area) == Area(area.start, area.pages, area.perm)

(* Area h has the place, the permissions and the pages of its original.     *)
IsCopy(s, f, h) ==
    /\ f.areas[h].start = s.areas[h].start /\ f.areas[h].pages = s.areas[h].pages
    /\ f.areas[h].perm = s.areas[h].perm
    /\ \A i \in 1 .. s.areas[h].pages :
         f.mem[f.areas[h].frames[i]] = s.mem[s.areas[h].frames[i]]

(* The fields of the new area.                                              *)
LEMMA AreaLikeFacts ==
  ASSUME NEW area \in AreaSet
  PROVE  /\ AreaLike(area) \in AreaSet /\ AreaLike(area).frames = <<>>
         /\ AreaLike(area).start = area.start /\ AreaLike(area).pages = area.pages
         /\ AreaLike(area).perm = area.perm /\ area.pages \in Nat
<1>1. <<>> \in Seq(Frames)
  OBVIOUS
<1> QED BY <1>1 DEF AreaLike, Area, AreaSet

(* The source stays while areas are added.                                  *)
LEMMA BesideSource ==
  ASSUME NEW s, NEW b, NEW f, Source(s, b), Beside(b, f)
  PROVE  Source(s, f)
BY DEF Source, Beside

(* An area is copied.                                                       *)
LEMMA CopyAreaFacts ==
  ASSUME NEW s, Whole(s), NEW h \in DOMAIN s.areas, NEW b, Whole(b), Source(s, b),
         h = Len(b.areas) + 1, NEW area, area = AreaLike(s.areas[h]), Fits(b.areas, area),
         NEW space, space.nodes = s.nodes, NEW f, f = CopyArea(b, space, s.areas[h])
  PROVE  Stuck(f) \/ (Added(b, area, f) /\ IsCopy(s, f, h))
<1>0. s.areas[h] \in AreaSet
  BY WholeFacts, AreaFacts
<1>1. PICK p : p = Push(b, area)
  OBVIOUS
<1>2. f = IF p.panic = "none" THEN CopyPages(p, space, s.areas[h]) ELSE p
  BY <1>1 DEF CopyArea, AreaLike
<1>3. Stuck(p) \/ Pushing(b, area, area.pages, p)
  BY <1>1, PushFacts DEF Whole
<1>4. CASE Stuck(p)
  BY <1>2, <1>4 DEF Stuck
<1>5. CASE Pushing(b, area, area.pages, p)
  <2>1. Added(b, area, p)
    BY <1>5, PushAdded
  <2>2. Whole(p) /\ Beside(b, p) /\ Len(p.areas) = h /\ p.areas[h].start = area.start
        /\ p.areas[h].pages = area.pages /\ p.areas[h].perm = area.perm
    BY <2>1, Zenon DEF Added
  <2>3. /\ area.start = s.areas[h].start /\ area.pages = s.areas[h].pages
        /\ area.perm = s.areas[h].perm
    BY <1>0, AreaLikeFacts
  <2>4. h \in DOMAIN p.areas
    <3>1. h \in Nat /\ h > 0
      BY WholeFacts
    <3> QED BY <2>2, <3>1, WholeFacts
  <2>5. Twin(s, h, p, h)
    <3>1. Len(p.areas[h].frames) = s.areas[h].pages /\ Len(s.areas[h].frames) = s.areas[h].pages
      BY <2>2, <2>3, <2>4, WholeFacts
    <3>2. Source(s, p)
      BY <2>2, BesideSource
    <3> QED BY <2>2, <2>3, <2>4, <3>1, <3>2, WholeFacts DEF Twin
  <2>6. f = CopyPages(p, space, s.areas[h])
    BY <1>2, <2>2, ReadyFacts DEF Whole
  <2>7. Copied(s, h, p, h, f)
    BY <2>5, <2>6, CopyPagesFacts
  <2>8. /\ Filled(p, h, f) /\ f.areas = p.areas
        /\ \A i \in 1 .. s.areas[h].pages :
             f.mem[p.areas[h].frames[i]] = s.mem[s.areas[h].frames[i]]
    BY <2>7 DEF Copied, Filled
  <2>9. Added(b, area, f)
    BY <2>1, <2>8, FillAdded
  <2>10. IsCopy(s, f, h)
    BY <2>2, <2>3, <2>8, Zenon DEF IsCopy
  <2> QED BY <2>9, <2>10
<1> QED BY <1>3, <1>4, <1>5

(* An area after a panic.                                                   *)
LEMMA StuckCopyArea ==
  ASSUME NEW b, Stuck(b), NEW space, NEW o \in AreaSet
  PROVE  Stuck(CopyArea(b, space, o))
<1>1. PICK p, area : p = Push(b, area) /\ area = AreaLike(o)
  OBVIOUS
<1>2. Stuck(p)
  BY <1>1, AreaLikeFacts, StuckPush
<1>3. p.panic # "none"
  BY <1>2 DEF Stuck
<1>4. CopyArea(b, space, o) = p
  BY <1>1, <1>3 DEF CopyArea, AreaLike
<1> QED BY <1>2, <1>4

(* What a new area leaves of the others.                                    *)
LEMMA AddedCopy ==
  ASSUME NEW b, Whole(b), NEW area, NEW f, Added(b, area, f), NEW k \in DOMAIN b.areas,
         NEW s, IsCopy(s, b, k)
  PROVE  IsCopy(s, f, k)
<1>1. f.areas[k] = b.areas[k] /\ SameContent(b, f, k)
  BY DEF Added
<1>2. DOMAIN b.areas[k].frames = 1 .. s.areas[k].pages
  BY WholeFacts DEF IsCopy
<1>3. ASSUME NEW i \in 1 .. s.areas[k].pages
      PROVE  f.mem[f.areas[k].frames[i]] = s.mem[s.areas[k].frames[i]]
  <2>1. b.mem[b.areas[k].frames[i]] = s.mem[s.areas[k].frames[i]]
    BY DEF IsCopy
  <2>2. f.mem[b.areas[k].frames[i]] = b.mem[b.areas[k].frames[i]]
    BY <1>1, <1>2, Zenon DEF SameContent
  <2> QED BY <1>1, <2>1, <2>2, Zenon
<1> QED BY <1>1, <1>3, Zenon DEF IsCopy

(* The first k areas are copied.                                            *)
AreasIn(s, b, k, f) ==
    /\ Whole(f) /\ Beside(b, f) /\ Len(f.areas) = k
    /\ \A h \in 1 .. k : IsCopy(s, f, h)

(* The next area fits: the original has room for it.                        *)
LEMMA CopyFits ==
  ASSUME NEW s, Whole(s), NEW k \in DOMAIN s.areas, NEW b, NEW j, j = k - 1,
         NEW f, AreasIn(s, b, j, f)
  PROVE  Fits(f.areas, AreaLike(s.areas[k]))
<1>1. PICK o \in AreaSet : o = s.areas[k]
  BY WholeFacts, AreaFacts
<1>2. /\ AreaLike(o) \in AreaSet /\ AreaLike(o).frames = <<>>
      /\ AreaLike(o).start = o.start /\ AreaLike(o).pages = o.pages
  BY AreaLikeFacts
<1>3. o.start + o.pages <= TRAMPOLINE
  BY <1>1 DEF Whole, Placed
<1>4. ASSUME NEW h \in DOMAIN f.areas PROVE Apart(f.areas[h], AreaLike(o))
  <2>1. h \in 1 .. j /\ h \in DOMAIN s.areas /\ h # k
    <3>1. DOMAIN f.areas = 1 .. j /\ DOMAIN s.areas = 1 .. Len(s.areas) /\ Len(s.areas) \in Nat
      BY WholeFacts DEF AreasIn
    <3> QED BY <3>1
  <2>2. f.areas[h].start = s.areas[h].start /\ f.areas[h].pages = s.areas[h].pages
    BY <2>1 DEF AreasIn, IsCopy
  <2>3. Apart(s.areas[h], o)
    BY <1>1, <2>1 DEF Whole, Placed
  <2> QED BY <1>2, <2>2, <2>3, Zenon DEF Apart
<1> QED BY <1>1, <1>2, <1>3, <1>4, Zenon DEF Fits

(* All areas are copied, or no frame is left.                               *)
LEMMA CopyAreasFacts ==
  ASSUME NEW s, Whole(s), NEW space, space.nodes = s.nodes, space.areas = s.areas,
         NEW b, Whole(b), b.areas = <<>>, Source(s, b),
         NEW n, n = Len(s.areas), NEW f, f = CopyAreas(b, space)
  PROVE  Stuck(f) \/ AreasIn(s, b, n, f)
<1>1. n \in Nat /\ DOMAIN s.areas = 1 .. n /\ \A k \in 1 .. n : s.areas[k] \in AreaSet
  BY WholeFacts, AreaFacts
<1>2. PICK r : CopyAreasRun(b, space, n, r)
  BY <1>1, CopyAreasLoop, Zenon
<1>3. /\ f = r[n] /\ r[0] = b
      /\ \A k \in 1 .. n : r[k] = CopyArea(r[k - 1], space, s.areas[k])
  BY <1>2 DEF CopyAreasRun
<1>4. PICK S : S = {k \in 0 .. n : Stuck(r[k]) \/ AreasIn(s, b, k, r[k])}
  OBVIOUS
<1>5. 0 \in S
  <2>1. Len(b.areas) = 0 /\ Beside(b, b)
    BY DEF Beside
  <2>2. \A h \in 1 .. 0 : FALSE
    OBVIOUS
  <2>3. AreasIn(s, b, 0, b)
    BY <2>1, <2>2 DEF AreasIn
  <2> QED BY <1>1, <1>3, <1>4, <2>3
<1>6. ASSUME NEW k \in 1 .. n, k - 1 \in S PROVE k \in S
  <2>1. PICK j, c, d : j = k - 1 /\ c = r[j] /\ d = r[k]
    OBVIOUS
  <2>2. Stuck(c) \/ AreasIn(s, b, j, c)
    BY <1>4, <1>6, <2>1
  <2>3. d = CopyArea(c, space, s.areas[k]) /\ s.areas[k] \in AreaSet /\ k \in 0 .. n
    BY <1>1, <1>3, <2>1
  <2>4. CASE Stuck(c)
    <3>1. Stuck(d)
      BY <2>3, <2>4, StuckCopyArea
    <3> QED BY <1>4, <2>1, <2>3, <3>1
  <2>5. CASE AreasIn(s, b, j, c)
    <3>1. /\ Whole(c) /\ Beside(b, c) /\ Len(c.areas) = j
          /\ \A h \in 1 .. j : IsCopy(s, c, h)
      BY <2>5 DEF AreasIn
    <3>2. PICK area : area = AreaLike(s.areas[k])
      OBVIOUS
    <3>3. Fits(c.areas, area) /\ k \in DOMAIN s.areas
      BY <1>1, <2>1, <2>5, <3>2, CopyFits
    <3>4. k = Len(c.areas) + 1
      BY <2>1, <3>1
    <3>5. Source(s, c)
      BY <3>1, BesideSource
    <3>6. Stuck(d) \/ (Added(c, area, d) /\ IsCopy(s, d, k))
      BY <2>3, <3>1, <3>2, <3>3, <3>4, <3>5, CopyAreaFacts
    <3>7. ASSUME Added(c, area, d), IsCopy(s, d, k) PROVE AreasIn(s, b, k, d)
      <4>1. Whole(d) /\ Beside(c, d) /\ Len(d.areas) = k
        BY <3>4, <3>7 DEF Added
      <4>2. Beside(b, d)
        BY <3>1, <4>1, BesideTrans
      <4>3. ASSUME NEW h \in 1 .. k PROVE IsCopy(s, d, h)
        <5>1. CASE h = k
          BY <3>7, <5>1
        <5>2. CASE h # k
          <6>1. h \in 1 .. j /\ h \in DOMAIN c.areas
            <7>1. DOMAIN c.areas = 1 .. j
              BY <3>1, WholeFacts
            <7> QED BY <1>1, <2>1, <5>2, <7>1
          <6>2. IsCopy(s, c, h)
            BY <3>1, <6>1
          <6> QED BY <3>1, <3>7, <6>1, <6>2, AddedCopy
        <5> QED BY <5>1, <5>2
      <4> QED BY <4>1, <4>2, <4>3 DEF AreasIn
    <3> QED BY <1>4, <2>1, <2>3, <3>6, <3>7
  <2> QED BY <2>2, <2>4, <2>5
<1>7. n \in S
  BY <1>1, <1>5, <1>6, Climb
<1> QED BY <1>3, <1>4, <1>7

(* No frame is left before the first area.                                  *)
LEMMA StuckCopyAreas ==
  ASSUME NEW b, Stuck(b), NEW space, space.areas \in Seq(AreaSet)
  PROVE  Stuck(CopyAreas(b, space))
<1>1. PICK n \in Nat : n = Len(space.areas) /\ \A k \in 1 .. n : space.areas[k] \in AreaSet
  OBVIOUS
<1>2. PICK r : CopyAreasRun(b, space, n, r)
  BY <1>1, CopyAreasLoop, Zenon
<1>3. /\ CopyAreas(b, space) = r[n] /\ r[0] = b
      /\ \A k \in 1 .. n : r[k] = CopyArea(r[k - 1], space, space.areas[k])
  BY <1>2 DEF CopyAreasRun
<1>4. PICK S : S = {k \in 0 .. n : Stuck(r[k])}
  OBVIOUS
<1>5. 0 \in S
  BY <1>3, <1>4
<1>6. ASSUME NEW k \in 1 .. n, k - 1 \in S PROVE k \in S
  <2>1. Stuck(r[k - 1]) /\ k \in 0 .. n
    BY <1>4, <1>6
  <2> QED BY <1>1, <1>3, <1>4, <2>1, StuckCopyArea
<1>7. n \in S
  BY <1>5, <1>6, Climb
<1> QED BY <1>3, <1>4, <1>7

-----------------------------------------------------------------------------
(* A new space.  new_bare: its root is a zeroed frame.                      *)
Bare(b, f) ==
    /\ Ready(f) /\ f.areas = <<>>
    /\ Others(f) = Held(b) /\ \A x \in Held(b) : f.mem[x] = b.mem[x]
    /\ \A v \in 0 .. TRAMPOLINE : ~Valid(Lookup(f, v))

(* A zeroed root is a table without entries.                                *)
LEMMA ZeroRoot ==
  ASSUME NEW m, NEW g \in Frames, m[g] = ZeroPage
  PROVE  /\ Table(m, <<g>>)
         /\ \A v \in 0 .. TRAMPOLINE : ~Valid(Translate(m, g, v))
<1>1. \A i \in 0 .. PTES - 1 : m[g][i] = Empty /\ ~Valid(m[g][i])
  BY ZeroPageType
<1>2. PICK lv : lv = [x \in {g} |-> 0]
  OBVIOUS
<1>3. Shape(m, {g}, g, lv, lv, lv)
  BY <1>1, <1>2 DEF Shape
<1>4. PICK nodes : nodes = <<g>>
  OBVIOUS
<1>5. nodes \in Seq(Frames) /\ nodes # <<>> /\ Head(nodes) = g /\ Range(nodes) = {g}
  BY <1>4 DEF Range
<1>6. IsTree(m, {g}, g)
  BY <1>3 DEF IsTree
<1>7. Table(m, nodes)
  BY <1>5, <1>6 DEF Table
<1>8. ASSUME NEW v \in 0 .. TRAMPOLINE PROVE ~Valid(Translate(m, g, v))
  <2>1. PICK i, j, k : i = Indexes(v)[1] /\ j = Indexes(v)[2] /\ k = Indexes(v)[3]
    OBVIOUS
  <2>2. i \in 0 .. PTES - 1
    BY <2>1, IndexFacts
  <2>3. m[g][i] = Empty
    BY <1>1, <2>2
  <2>4. Child(m, Empty, j) = Empty /\ Child(m, Empty, k) = Empty /\ ~Valid(Empty)
    BY ZeroPageType DEF Child
  <2> QED BY <2>1, <2>3, <2>4, Zenon DEF Translate
<1> QED BY <1>4, <1>7, <1>8

(* new_bare.                                                                *)
LEMMA NewBareFacts ==
  ASSUME NEW b, Running(b), NEW f, f = NewBare(b)
  PROVE  Stuck(f) \/ Bare(b, f)
<1>1. PICK a, g : a = FrameAlloc(b) /\ g = a.got
  OBVIOUS
<1>2. f = [a EXCEPT !.nodes = <<g>>, !.areas = <<>>]
  BY <1>1 DEF NewBare
<1>3. CASE Stuck(a)
  BY <1>2, <1>3 DEF Stuck, Fields
<1>4. CASE ~Stuck(a)
  <2>1. /\ Running(a) /\ g \in Frames /\ g \notin Held(b) /\ Held(a) = Held(b) \cup {g}
        /\ a.mem = [b.mem EXCEPT ![g] = ZeroPage]
    BY <1>1, <1>4, AllocFacts
  <2>2. b.mem \in [Frames -> Page] /\ Held(b) \subseteq Frames /\ a \in Machines
    BY <2>1, MachineFacts DEF Running
  <2>3. <<g>> \in Seq(Frames) /\ <<>> \in Seq(AreaSet) /\ Range(<<g>>) = {g} /\ Head(<<g>>) = g
    BY <2>1 DEF Range
  <2>4. /\ f.mem = a.mem /\ f.current = a.current /\ f.recycled = a.recycled
        /\ f.panic = a.panic /\ f.nodes = <<g>> /\ f.areas = <<>> /\ f \in Machines
    BY <1>2, <2>2, <2>3 DEF Machines
  <2>5. Running(f) /\ Held(f) = Held(b) \cup {g}
    BY <2>1, <2>4 DEF Running, Held
  <2>6. f.mem[g] = ZeroPage /\ \A x \in Held(b) : f.mem[x] = b.mem[x]
    BY <2>1, <2>2, <2>4
  <2>7. /\ Table(f.mem, f.nodes) /\ \A v \in 0 .. TRAMPOLINE : ~Valid(Lookup(f, v))
    <3>1. /\ Table(f.mem, <<g>>)
          /\ \A v \in 0 .. TRAMPOLINE : ~Valid(Translate(f.mem, g, v))
      BY <2>1, <2>6, ZeroRoot
    <3>2. Head(f.nodes) = g
      BY <2>3, <2>4, Zenon
    <3>3. ASSUME NEW v \in 0 .. TRAMPOLINE PROVE ~Valid(Lookup(f, v))
      BY <3>1, <3>2, Zenon DEF Lookup
    <3> QED BY <2>4, <3>1, <3>3, Zenon
  <2>8. /\ Len(SpaceOf(f).areas) = 0 /\ Column(SpaceOf(f), 0) = <<g>>
    BY <2>4 DEF SpaceOf, Column
  <2>9. \A k \in 0 .. Len(SpaceOf(f).areas) : k = 0
    BY <2>8
  <2>10. Owned(SpaceOf(f)) = {g}
    <3>1. 0 .. Len(SpaceOf(f).areas) = {0}
      BY <2>8
    <3> QED BY <2>3, <2>8, <3>1 DEF Owned
  <2>11. OwnedOnce(SpaceOf(f))
    <3>1. DOMAIN <<g>> = {1}
      OBVIOUS
    <3> QED BY <2>8, <2>9, <3>1 DEF OwnedOnce
  <2>12. Ready(f)
    BY <2>5, <2>7, <2>10, <2>11 DEF Ready
  <2>13. Others(f) = Held(b)
    BY <2>1, <2>5, <2>10 DEF Others
  <2> QED BY <2>4, <2>6, <2>7, <2>12, <2>13 DEF Bare
<1> QED BY <1>3, <1>4

(* A space with the trampoline only.                                        *)
Based(b, f) ==
    /\ Whole(f) /\ f.areas = <<>>
    /\ Others(f) = Held(b) /\ \A x \in Held(b) : f.mem[x] = b.mem[x]

(* new_bare and map_trampoline.                                             *)
LEMMA BaseFacts ==
  ASSUME NEW b, Running(b), NEW f, f = MapTrampoline(NewBare(b))
  PROVE  Stuck(f) \/ Based(b, f)
<1>1. PICK c : c = NewBare(b)
  OBVIOUS
<1>2. Stuck(c) \/ Bare(b, c)
  BY <1>1, NewBareFacts
<1>3. f = Map(c, TRAMPOLINE, strampoline, {"R", "X"})
  BY <1>1 DEF MapTrampoline
<1>4. CASE Stuck(c)
  BY <1>3, <1>4, StuckMap
<1>5. CASE Bare(b, c)
  <2>1. /\ Ready(c) /\ c.areas = <<>> /\ Others(c) = Held(b)
        /\ \A x \in Held(b) : c.mem[x] = b.mem[x]
        /\ \A v \in 0 .. TRAMPOLINE : ~Valid(Lookup(c, v))
    BY <1>5 DEF Bare
  <2>2. TRAMPOLINE \in 0 .. TRAMPOLINE /\ strampoline \in Nat
        /\ {"R", "X"} \in SUBSET {"R", "W", "X", "U"}
    BY IndexFacts, MemoryAssumption DEF strampoline
  <2>3. ~Valid(Lookup(c, TRAMPOLINE))
    BY <2>1, <2>2
  <2>4. Stuck(f) \/ DoneMap(c, f, TRAMPOLINE, TrampolineEntry)
    BY <1>3, <2>1, <2>2, <2>3, MapFacts DEF TrampolineEntry
  <2>5. ASSUME DoneMap(c, f, TRAMPOLINE, TrampolineEntry) PROVE Based(b, f)
    <3>1. /\ Ready(f) /\ Keeps(c, f) /\ f.areas = <<>>
          /\ Lookup(f, TRAMPOLINE) = TrampolineEntry
          /\ \A v \in 0 .. TRAMPOLINE : v # TRAMPOLINE => Lookup(f, v) = Lookup(c, v)
      BY <2>1, <2>5 DEF DoneMap, Mapping
    <3>2. DOMAIN f.areas = {}
      BY <3>1
    <3>3. Mapped(f)
      BY <2>1, <3>1, <3>2 DEF Mapped
    <3>4. Whole(f)
      BY <3>1, <3>2, <3>3 DEF Whole, Placed
    <3>5. Others(c) \subseteq Bulk(c)
      BY <2>1, OthersInBulk
    <3> QED BY <2>1, <3>1, <3>4, <3>5 DEF Based, Keeps
  <2> QED BY <2>4, <2>5
<1> QED BY <1>2, <1>4, <1>5

(* Area k has been mapped and not been written.                             *)
Blank(f, k) == \A i \in DOMAIN f.areas[k].frames : f.mem[f.areas[k].frames[i]] = ZeroPage

(* A plain area: no frame left, or a blank area more.                       *)
LEMMA PushBlank ==
  ASSUME NEW b, Whole(b) \/ Stuck(b), NEW area, area.pages \in Nat,
         Whole(b) => Fits(b.areas, area), NEW f, f = Push(b, area)
  PROVE  Stuck(f) \/ (Whole(b) /\ Added(b, area, f) /\ Blank(f, Len(b.areas) + 1))
<1>1. CASE Stuck(b)
  BY <1>1, StuckPush
<1>2. CASE Whole(b)
  <2>1. Stuck(f) \/ Pushing(b, area, area.pages, f)
    BY <1>2, PushFacts DEF Whole
  <2>2. ASSUME Pushing(b, area, area.pages, f)
        PROVE  Added(b, area, f) /\ Blank(f, Len(b.areas) + 1)
    <3>1. Added(b, area, f)
      BY <1>2, <2>2, PushAdded
    <3>2. PICK n : n = Len(b.areas) + 1
      OBVIOUS
    <3>3. /\ \A i \in 1 .. area.pages : f.mem[f.areas[n].frames[i]] = ZeroPage
          /\ f.areas[n].pages = area.pages /\ Len(f.areas) = n
      BY <2>2, <3>2 DEF Pushing
    <3>4. n \in DOMAIN f.areas
      <4>1. Len(b.areas) \in Nat
        BY <1>2, WholeFacts
      <4>2. DOMAIN f.areas = 1 .. n
        BY <3>1, <3>3, WholeFacts DEF Added
      <4> QED BY <3>2, <4>1, <4>2
    <3>5. DOMAIN f.areas[n].frames = 1 .. area.pages
      BY <3>1, <3>3, <3>4, WholeFacts DEF Added
    <3>6. Blank(f, n)
      BY <3>3, <3>5 DEF Blank
    <3> QED BY <3>1, <3>2, <3>6
  <2> QED BY <1>2, <2>1, <2>2
<1> QED BY <1>1, <1>2

-----------------------------------------------------------------------------
(* A new space beside everything that was held before.                      *)
Fresh(b, f) ==
    /\ Whole(f) /\ Others(f) = Held(b)
    /\ \A x \in Held(b) : f.mem[x] = b.mem[x]

(* The frames held before stay beside it.                                   *)
LEMMA BasedFresh ==
  ASSUME NEW b, NEW c, Based(b, c), NEW f, Whole(f), Beside(c, f)
  PROVE  Fresh(b, f)
BY DEF Fresh, Based, Beside

(* The areas of from_elf: the segments, the stack, the trap context.        *)
StackArea(program) == Area(StackBottom(program), USER_STACK_PAGES, {"R", "W", "U"})
ContextArea == Area(TRAP_CONTEXT, 1, {"R", "W"})

ElfImage(program, f) ==
    /\ Len(f.areas) = Len(program) + 2
    /\ \A h \in 1 .. Len(program) : IsSegment(f, h, program[h])
    /\ f.areas[Len(program) + 1].start = StackBottom(program)
    /\ f.areas[Len(program) + 1].pages = USER_STACK_PAGES
    /\ f.areas[Len(program) + 1].perm = {"R", "W", "U"}
    /\ Blank(f, Len(program) + 1)
    /\ f.areas[Len(program) + 2].start = TRAP_CONTEXT
    /\ f.areas[Len(program) + 2].pages = 1
    /\ f.areas[Len(program) + 2].perm = {"R", "W"}

(* The fields of these areas.                                               *)
LEMMA NewAreaFacts ==
  ASSUME NEW start \in Nat, NEW pages \in Nat, NEW perm \in SUBSET {"R", "W", "X", "U"},
         NEW area, area = Area(start, pages, perm)
  PROVE  /\ area \in AreaSet /\ area.frames = <<>> /\ area.start = start
         /\ area.pages = pages /\ area.perm = perm
<1>1. <<>> \in Seq(Frames)
  OBVIOUS
<1> QED BY <1>1 DEF Area, AreaSet

(* The stack fits behind the segments.                                      *)
LEMMA StackFits ==
  ASSUME NEW b, NEW program \in Programs, NEW n, n = Len(program),
         NEW f, SegmentsIn(b, program, n, f)
  PROVE  /\ Fits(f.areas, StackArea(program)) /\ StackArea(program).pages = USER_STACK_PAGES
         /\ StackArea(program).start = StackBottom(program)
         /\ StackArea(program).perm = {"R", "W", "U"}
<1>1. PICK s, u, area : s = StackBottom(program) /\ u = USER_STACK_PAGES /\ area = StackArea(program)
  OBVIOUS
<1>2. /\ n \in Nat /\ s \in Nat /\ u \in Nat /\ s + u <= TRAP_CONTEXT
      /\ \A k \in 1 .. n : program[k].start + Len(program[k].data) < s
      /\ \A k \in 1 .. n : program[k] \in Segment
      /\ TRAP_CONTEXT \in Nat /\ TRAP_CONTEXT + 1 = TRAMPOLINE
  BY <1>1, ProgramFacts
<1>3. /\ area \in AreaSet /\ area.frames = <<>> /\ area.start = s /\ area.pages = u
      /\ area.perm = {"R", "W", "U"}
  <2>1. {"R", "W", "U"} \in SUBSET {"R", "W", "X", "U"}
    OBVIOUS
  <2> QED BY <1>1, <1>2, <2>1, NewAreaFacts DEF StackArea
<1>4. area.start + area.pages <= TRAMPOLINE
  <2>1. s + u <= TRAMPOLINE
    BY <1>2
  <2> QED BY <1>3, <2>1, Zenon
<1>5. ASSUME NEW h \in DOMAIN f.areas PROVE Apart(f.areas[h], area)
  <2>1. h \in 1 .. n
    BY WholeFacts DEF SegmentsIn
  <2>2. f.areas[h].start = program[h].start /\ f.areas[h].pages = Len(program[h].data)
    BY <2>1 DEF SegmentsIn, IsSegment
  <2>3. program[h].start + Len(program[h].data) < s /\ program[h] \in Segment
    BY <1>2, <2>1
  <2>4. program[h].start \in Nat /\ Len(program[h].data) \in Nat
    BY <2>3, SegmentFacts
  <2>5. program[h].start + Len(program[h].data) <= s
    BY <1>2, <2>3, <2>4
  <2> QED BY <1>3, <2>2, <2>5, Zenon DEF Apart
<1> QED BY <1>1, <1>3, <1>4, <1>5 DEF Fits

(* The trap context fits behind the stack.                                  *)
LEMMA ContextFits ==
  ASSUME NEW b, NEW program \in Programs, NEW n, n = Len(program),
         NEW g, SegmentsIn(b, program, n, g), NEW f, Added(g, StackArea(program), f)
  PROVE  /\ Fits(f.areas, ContextArea) /\ ContextArea.pages = 1
         /\ ContextArea.start = TRAP_CONTEXT /\ ContextArea.perm = {"R", "W"}
<1>1. PICK s, u, t, area : /\ s = StackBottom(program) /\ u = USER_STACK_PAGES
                           /\ t = TRAP_CONTEXT /\ area = ContextArea
  OBVIOUS
<1>2. /\ n \in Nat /\ s \in Nat /\ u \in Nat /\ s + u <= t
      /\ \A k \in 1 .. n : program[k].start + Len(program[k].data) < s
      /\ \A k \in 1 .. n : program[k] \in Segment
      /\ t \in Nat /\ t + 1 = TRAMPOLINE
  BY <1>1, ProgramFacts
<1>3. /\ area \in AreaSet /\ area.frames = <<>> /\ area.start = t /\ area.pages = 1
      /\ area.perm = {"R", "W"}
  <2>1. {"R", "W"} \in SUBSET {"R", "W", "X", "U"}
    OBVIOUS
  <2> QED BY <1>1, <1>2, <2>1, NewAreaFacts DEF ContextArea
<1>4. area.start + area.pages <= TRAMPOLINE
  <2>1. t + 1 <= TRAMPOLINE
    BY <1>2
  <2> QED BY <1>3, <2>1, Zenon
<1>g. Whole(g) /\ Len(g.areas) = n /\ DOMAIN g.areas = 1 .. n
  BY WholeFacts DEF SegmentsIn
<1>f. /\ Whole(f) /\ Len(f.areas) = n + 1 /\ \A k \in 1 .. n : f.areas[k] = g.areas[k]
      /\ f.areas[n + 1].start = s /\ f.areas[n + 1].pages = u
  <2>1. StackArea(program).pages = u /\ StackArea(program).start = s
    BY <1>1, StackFits
  <2> QED BY <1>g, <2>1 DEF Added
<1>5. ASSUME NEW h \in DOMAIN f.areas PROVE Apart(f.areas[h], area)
  <2>1. h \in 1 .. n \/ h = n + 1
    BY <1>2, <1>f, WholeFacts
  <2>2. CASE h = n + 1
    BY <1>2, <1>3, <1>f, <2>2, Zenon DEF Apart
  <2>3. CASE h \in 1 .. n
    <3>2. f.areas[h].start = program[h].start /\ f.areas[h].pages = Len(program[h].data)
      BY <1>f, <2>3 DEF SegmentsIn, IsSegment
    <3>3. program[h].start + Len(program[h].data) < s /\ program[h] \in Segment
      BY <1>2, <2>3
    <3>4. program[h].start \in Nat /\ Len(program[h].data) \in Nat
      BY <3>3, SegmentFacts
    <3>5. program[h].start + Len(program[h].data) <= t
      BY <1>2, <3>3, <3>4
    <3> QED BY <1>3, <3>2, <3>5, Zenon DEF Apart
  <2> QED BY <2>1, <2>2, <2>3
<1> QED BY <1>1, <1>3, <1>4, <1>5 DEF Fits

(* from_elf: no frame left, or a whole space with the image of the program. *)
LEMMA FromElfFacts ==
  ASSUME NEW b, Running(b), NEW program \in Programs, NEW f, f = FromElf(b, program)
  PROVE  Stuck(f) \/ (Fresh(b, f) /\ ElfImage(program, f))
<1>1. PICK c, g, d, n : /\ c = MapTrampoline(NewBare(b)) /\ g = LoadSegments(c, program)
                        /\ d = Push(g, StackArea(program)) /\ n = Len(program)
  OBVIOUS
<1>2. f = Push(d, ContextArea)
  BY <1>1, Zenon DEF FromElf, StackArea, ContextArea
<1>3. Stuck(c) \/ Based(b, c)
  BY <1>1, BaseFacts
<1>4. n \in Nat /\ n > 0 /\ StackBottom(program) \in Nat /\ TRAP_CONTEXT \in Nat
      /\ USER_STACK_PAGES \in Nat /\ \A k \in 1 .. n : program[k] \in Segment
  BY <1>1, ProgramFacts
<1>5. StackArea(program).pages \in Nat /\ ContextArea.pages \in Nat
  BY <1>4 DEF StackArea, ContextArea, Area
<1>6. CASE Stuck(c)
  <2>1. Stuck(g)
    BY <1>1, <1>6, StuckLoadSegments
  <2>2. Stuck(d)
    BY <1>1, <1>5, <2>1, StuckPush
  <2> QED BY <1>2, <1>5, <2>2, StuckPush
<1>7. CASE Based(b, c)
  <2>1. Whole(c) /\ c.areas = <<>>
    BY <1>7 DEF Based
  <2>2. Stuck(g) \/ SegmentsIn(c, program, n, g)
    BY <1>1, <2>1, LoadSegmentsFacts
  <2>3. CASE Stuck(g)
    <3>1. Stuck(d)
      BY <1>1, <1>5, <2>3, StuckPush
    <3> QED BY <1>2, <1>5, <3>1, StuckPush
  <2>4. CASE SegmentsIn(c, program, n, g)
    <3>1. /\ Whole(g) /\ Beside(c, g) /\ Len(g.areas) = n /\ DOMAIN g.areas = 1 .. n
          /\ \A h \in 1 .. n : IsSegment(g, h, program[h])
      BY <2>4, WholeFacts DEF SegmentsIn
    <3>2. /\ Fits(g.areas, StackArea(program)) /\ StackArea(program).pages = USER_STACK_PAGES
          /\ StackArea(program).start = StackBottom(program)
          /\ StackArea(program).perm = {"R", "W", "U"}
      BY <1>1, <2>4, StackFits
    <3>3. Stuck(d) \/ (Added(g, StackArea(program), d) /\ Blank(d, Len(g.areas) + 1))
      BY <1>1, <1>5, <3>1, <3>2, PushBlank
    <3>4. CASE Stuck(d)
      BY <1>2, <1>5, <3>4, StuckPush
    <3>5. CASE Added(g, StackArea(program), d) /\ Blank(d, n + 1)
      <4>1. /\ Whole(d) /\ Beside(g, d) /\ Len(d.areas) = n + 1 /\ DOMAIN d.areas = 1 .. n + 1
            /\ d.areas[n + 1].start = StackBottom(program)
            /\ d.areas[n + 1].pages = USER_STACK_PAGES
            /\ d.areas[n + 1].perm = {"R", "W", "U"}
        BY <3>1, <3>2, <3>5, WholeFacts DEF Added
      <4>2. /\ Fits(d.areas, ContextArea) /\ ContextArea.pages = 1
            /\ ContextArea.start = TRAP_CONTEXT /\ ContextArea.perm = {"R", "W"}
        BY <1>1, <2>4, <3>5, ContextFits
      <4>3. Stuck(f) \/ Added(d, ContextArea, f)
        BY <1>2, <1>5, <4>1, <4>2, PushBlank
      <4>4. ASSUME Added(d, ContextArea, f) PROVE Fresh(b, f) /\ ElfImage(program, f)
        <5>1. /\ Whole(f) /\ Beside(d, f) /\ Len(f.areas) = n + 2
              /\ f.areas[n + 2].start = TRAP_CONTEXT /\ f.areas[n + 2].pages = 1
              /\ f.areas[n + 2].perm = {"R", "W"}
              /\ \A k \in 1 .. n + 1 : f.areas[k] = d.areas[k] /\ SameContent(d, f, k)
          <6>1. Len(d.areas) + 1 = n + 2
            BY <1>4, <4>1
          <6> QED BY <4>1, <4>2, <4>4, <6>1 DEF Added
        <5>2. Beside(c, f)
          BY <3>1, <4>1, <5>1, BesideTrans
        <5>3. Fresh(b, f)
          BY <1>7, <5>1, <5>2, BasedFresh
        <5>4. ASSUME NEW h \in 1 .. n PROVE IsSegment(f, h, program[h])
          <6>1. h \in DOMAIN g.areas /\ h \in DOMAIN d.areas /\ program[h] \in Segment
            BY <1>4, <3>1, <4>1
          <6>2. IsSegment(d, h, program[h])
            BY <3>1, <3>5, <6>1, AddedSegment
          <6> QED BY <4>1, <4>4, <6>1, <6>2, AddedSegment
        <5>5. n + 1 \in 1 .. n + 1
          BY <1>4
        <5>6. f.areas[n + 1] = d.areas[n + 1] /\ SameContent(d, f, n + 1)
          BY <5>1, <5>5
        <5>7. Blank(f, n + 1)
          <6>1. ASSUME NEW i \in DOMAIN f.areas[n + 1].frames
                PROVE  f.mem[f.areas[n + 1].frames[i]] = ZeroPage
            <7>1. i \in DOMAIN d.areas[n + 1].frames
              BY <5>6
            <7>2. f.mem[d.areas[n + 1].frames[i]] = d.mem[d.areas[n + 1].frames[i]]
              BY <5>6, <7>1, Zenon DEF SameContent
            <7>3. d.mem[d.areas[n + 1].frames[i]] = ZeroPage
              BY <3>5, <7>1, Zenon DEF Blank
            <7> QED BY <5>6, <7>2, <7>3, Zenon
          <6> QED BY <6>1, Zenon DEF Blank
        <5>8. /\ f.areas[n + 1].start = StackBottom(program)
              /\ f.areas[n + 1].pages = USER_STACK_PAGES
              /\ f.areas[n + 1].perm = {"R", "W", "U"}
          BY <4>1, <5>6, Zenon
        <5> QED BY <1>1, <5>1, <5>3, <5>4, <5>7, <5>8, Zenon DEF ElfImage
      <4> QED BY <4>3, <4>4
    <3> QED BY <3>1, <3>3, <3>4, <3>5
  <2> QED BY <2>2, <2>3, <2>4
<1> QED BY <1>3, <1>6, <1>7

(* All areas of a space are copied.                                         *)
CopyImage(s, f) ==
    Len(f.areas) = Len(s.areas) /\ \A h \in 1 .. Len(s.areas) : IsCopy(s, f, h)

(* from_existed_user: no frame left, or a whole copy.                       *)
LEMMA FromExistedUserFacts ==
  ASSUME NEW b, Running(b), NEW s, Whole(s), s.mem = b.mem, Owned(SpaceOf(s)) \subseteq Held(b),
         NEW space, space.nodes = s.nodes, space.areas = s.areas,
         NEW f, f = FromExistedUser(b, space)
  PROVE  Stuck(f) \/ (Fresh(b, f) /\ CopyImage(s, f))
<1>1. PICK c, n : c = MapTrampoline(NewBare(b)) /\ n = Len(s.areas)
  OBVIOUS
<1>2. f = CopyAreas(c, space)
  BY <1>1 DEF FromExistedUser
<1>3. Stuck(c) \/ Based(b, c)
  BY <1>1, BaseFacts
<1>4. CASE Stuck(c)
  <2>1. space.areas \in Seq(AreaSet)
    BY WholeFacts
  <2> QED BY <1>2, <1>4, <2>1, StuckCopyAreas
<1>5. CASE Based(b, c)
  <2>1. /\ Whole(c) /\ c.areas = <<>> /\ Others(c) = Held(b)
        /\ \A x \in Held(b) : c.mem[x] = b.mem[x]
    BY <1>5 DEF Based
  <2>2. Source(s, c)
    BY <2>1 DEF Source
  <2>3. Stuck(f) \/ AreasIn(s, c, n, f)
    BY <1>1, <1>2, <2>1, <2>2, CopyAreasFacts
  <2>4. ASSUME AreasIn(s, c, n, f) PROVE Fresh(b, f) /\ CopyImage(s, f)
    BY <1>1, <1>5, <2>4, BasedFresh DEF AreasIn, CopyImage
  <2> QED BY <2>3, <2>4
<1> QED BY <1>3, <1>4, <1>5

-----------------------------------------------------------------------------
(* Drops.  The frames X were given back, and nothing else happened.         *)
Freed(b, X, f) ==
    /\ Running(f) /\ Held(f) = Held(b) \ X
    /\ f.mem = b.mem /\ f.nodes = b.nodes /\ f.areas = b.areas

Distinct(frames) == \A i, j \in DOMAIN frames : frames[i] = frames[j] => i = j

(* The drop of a vector of frames that are held, each once.                 *)
LEMMA DroppedFacts ==
  ASSUME NEW b, Running(b), NEW frames \in Seq(Frames), Distinct(frames),
         Range(frames) \subseteq Held(b), NEW f, f = Dropped(b, frames)
  PROVE  Freed(b, Range(frames), f)
<1>1. PICK n \in Nat : n = Len(frames) /\ DOMAIN frames = 1 .. n
  OBVIOUS
<1>2. PICK r : DroppedRun(b, frames, n, r)
  BY <1>1, DroppedLoop, Zenon
<1>3. /\ f = r[n] /\ r[0] = b
      /\ \A k \in 1 .. n : r[k] = FrameDealloc(r[k - 1], frames[k])
  BY <1>2 DEF DroppedRun
<1>4. PICK S : S = {k \in 0 .. n : Freed(b, {frames[i] : i \in 1 .. k}, r[k])}
  OBVIOUS
<1>5. 0 \in S
  <2>1. {frames[i] : i \in 1 .. 0} = {} /\ 0 \in 0 .. n
    OBVIOUS
  <2>2. Freed(b, {}, b)
    BY DEF Freed
  <2> QED BY <1>3, <1>4, <2>1, <2>2
<1>6. ASSUME NEW k \in 1 .. n, k - 1 \in S PROVE k \in S
  <2>1. PICK j, c, d, x, X, Y : /\ j = k - 1 /\ c = r[j] /\ d = r[k] /\ x = frames[k]
                                /\ X = {frames[i] : i \in 1 .. j} /\ Y = {frames[i] : i \in 1 .. k}
    OBVIOUS
  <2>2. Freed(b, X, c) /\ k \in 0 .. n
    BY <1>4, <1>6, <2>1
  <2>3. d = FrameDealloc(c, x)
    BY <1>3, <2>1
  <2>4. Y = X \cup {x}
    <3>1. \A i : i \in 1 .. k <=> (i \in 1 .. j \/ i = k)
      BY <2>1
    <3> QED BY <2>1, <3>1
  <2>5. x \in Held(c)
    <3>1. x \in Held(b)
      BY <1>1, <2>1 DEF Range
    <3>2. \A i \in 1 .. j : i \in 1 .. n /\ i # k
      BY <2>1
    <3>3. x \notin X
      BY <1>1, <2>1, <3>2 DEF Distinct
    <3> QED BY <2>2, <3>1, <3>3 DEF Freed
  <2>6. /\ Running(d) /\ Held(d) = Held(c) \ {x}
        /\ d.mem = c.mem /\ d.nodes = c.nodes /\ d.areas = c.areas
    BY <2>2, <2>3, <2>5, DeallocFacts DEF Freed
  <2>7. Freed(b, Y, d)
    BY <2>2, <2>4, <2>6 DEF Freed
  <2> QED BY <1>4, <2>1, <2>2, <2>7
<1>7. n \in S
  BY <1>5, <1>6, Climb
<1>8. {frames[i] : i \in 1 .. n} = Range(frames)
  BY <1>1 DEF Range
<1> QED BY <1>3, <1>4, <1>7, <1>8

(* The columns of a space.                                                  *)
LEMMA SpaceFacts ==
  ASSUME NEW sp \in Spaces
  PROVE  /\ sp.nodes \in Seq(Frames) /\ sp.areas \in Seq(AreaSet) /\ SpaceOf(sp) = sp
<1>1. sp.nodes \in Seq(Frames) /\ sp.areas \in Seq(AreaSet)
  BY DEF Spaces, AreaSet
<1>2. sp = [nodes |-> sp.nodes, areas |-> sp.areas]
  BY DEF Spaces
<1> QED BY <1>1, <1>2 DEF SpaceOf

(* The frames of pages.                                                     *)
DataFrames(sp) == UNION {Range(sp.areas[k].frames) : k \in DOMAIN sp.areas}

(* A space owns its nodes and the frames of its pages, all different.       *)
LEMMA OwnedFacts ==
  ASSUME NEW sp \in Spaces, OwnedOnce(sp)
  PROVE  /\ Owned(sp) = Range(sp.nodes) \cup DataFrames(sp)
         /\ Range(sp.nodes) \cap DataFrames(sp) = {}
         /\ Distinct(sp.nodes)
         /\ \A k \in DOMAIN sp.areas : Distinct(sp.areas[k].frames)
         /\ \A k, l \in DOMAIN sp.areas :
              k # l => Range(sp.areas[k].frames) \cap Range(sp.areas[l].frames) = {}
<1>1. sp.nodes \in Seq(Frames) /\ sp.areas \in Seq(AreaSet) /\ SpaceOf(sp) = sp
  BY SpaceFacts
<1>2. PICK n \in Nat : n = Len(sp.areas)
  BY <1>1
<1>3. /\ DOMAIN sp.areas = 1 .. n /\ Column(sp, 0) = sp.nodes
      /\ \A k \in 1 .. n : Column(sp, k) = sp.areas[k].frames
      /\ Range(sp.nodes) \subseteq Owned(sp)
      /\ \A k \in 1 .. n : Range(sp.areas[k].frames) \subseteq Owned(sp)
      /\ \A x \in Owned(sp) :
           x \in Range(sp.nodes) \/ \E k \in 1 .. n : x \in Range(sp.areas[k].frames)
  <2>1. /\ DOMAIN sp.areas = 1 .. Len(sp.areas) /\ Column(SpaceOf(sp), 0) = sp.nodes
        /\ \A k \in 1 .. Len(sp.areas) : Column(SpaceOf(sp), k) = sp.areas[k].frames
        /\ Range(sp.nodes) \subseteq Owned(SpaceOf(sp))
        /\ \A k \in 1 .. Len(sp.areas) : Range(sp.areas[k].frames) \subseteq Owned(SpaceOf(sp))
        /\ \A x \in Owned(SpaceOf(sp)) :
             x \in Range(sp.nodes) \/ \E k \in 1 .. Len(sp.areas) : x \in Range(sp.areas[k].frames)
    BY <1>1, ColumnFacts
  <2> QED BY <1>1, <1>2, <2>1, Zenon
<1>4. Owned(sp) = Range(sp.nodes) \cup DataFrames(sp)
  BY <1>3 DEF DataFrames
<1>5. \A k, l \in 0 .. n : \A i \in DOMAIN Column(sp, k), j \in DOMAIN Column(sp, l) :
        Column(sp, k)[i] = Column(sp, l)[j] => k = l /\ i = j
  BY <1>2 DEF OwnedOnce
<1>6. 0 \in 0 .. n /\ \A k \in 1 .. n : k \in 0 .. n /\ k # 0
  OBVIOUS
<1>7. Distinct(sp.nodes)
  BY <1>3, <1>5, <1>6 DEF Distinct
<1>8. \A k \in 1 .. n : Distinct(sp.areas[k].frames)
  BY <1>3, <1>5, <1>6 DEF Distinct
<1>9. ASSUME NEW k \in 1 .. n, NEW l \in 1 .. n, k # l
      PROVE  Range(sp.areas[k].frames) \cap Range(sp.areas[l].frames) = {}
  <2>1. \A i \in DOMAIN sp.areas[k].frames, j \in DOMAIN sp.areas[l].frames :
          sp.areas[k].frames[i] # sp.areas[l].frames[j]
    BY <1>3, <1>5, <1>6, <1>9
  <2> QED BY <2>1 DEF Range
<1>10. ASSUME NEW k \in 1 .. n
       PROVE  Range(sp.nodes) \cap Range(sp.areas[k].frames) = {}
  <2>1. \A i \in DOMAIN sp.nodes, j \in DOMAIN sp.areas[k].frames :
          sp.nodes[i] # sp.areas[k].frames[j]
    BY <1>3, <1>5, <1>6
  <2> QED BY <2>1 DEF Range
<1>11. Range(sp.nodes) \cap DataFrames(sp) = {}
  BY <1>3, <1>10 DEF DataFrames
<1> QED BY <1>3, <1>4, <1>7, <1>8, <1>9, <1>11

(* recycle_data_pages.                                                      *)
LEMMA RecycleFacts ==
  ASSUME NEW b, Running(b), NEW sp \in Spaces, OwnedOnce(sp), DataFrames(sp) \subseteq Held(b),
         NEW f, f = RecycleDataPages(b, sp)
  PROVE  Freed(b, DataFrames(sp), f)
<1>0. sp.areas \in Seq(AreaSet)
  BY SpaceFacts
<1>1. PICK n \in Nat : n = Len(sp.areas) /\ DOMAIN sp.areas = 1 .. n
  BY <1>0
<1>2. PICK r : RecycleDataPagesRun(b, sp, n, r)
  BY <1>1, RecycleDataPagesLoop, Zenon
<1>3. /\ f = r[n] /\ r[0] = b
      /\ \A k \in 1 .. n : r[k] = Dropped(r[k - 1], sp.areas[k].frames)
  BY <1>2 DEF RecycleDataPagesRun
<1>4. PICK S : S = {k \in 0 .. n : Freed(b, UNION {Range(sp.areas[i].frames) : i \in 1 .. k}, r[k])}
  OBVIOUS
<1>5. 0 \in S
  <2>1. UNION {Range(sp.areas[i].frames) : i \in 1 .. 0} = {} /\ 0 \in 0 .. n
    OBVIOUS
  <2>2. Freed(b, {}, b)
    BY DEF Freed
  <2> QED BY <1>3, <1>4, <2>1, <2>2
<1>6. ASSUME NEW k \in 1 .. n, k - 1 \in S PROVE k \in S
  <2>1. PICK j, c, d, x, X, Y : /\ j = k - 1 /\ c = r[j] /\ d = r[k] /\ x = sp.areas[k].frames
                                /\ X = UNION {Range(sp.areas[i].frames) : i \in 1 .. j}
                                /\ Y = UNION {Range(sp.areas[i].frames) : i \in 1 .. k}
    OBVIOUS
  <2>2. Freed(b, X, c) /\ k \in 0 .. n
    BY <1>4, <1>6, <2>1
  <2>3. d = Dropped(c, x)
    BY <1>3, <2>1
  <2>4. Y = X \cup Range(x)
    <3>1. \A i : i \in 1 .. k <=> (i \in 1 .. j \/ i = k)
      BY <2>1
    <3> QED BY <2>1, <3>1
  <2>5. Range(x) \subseteq Held(c)
    <3>1. Range(x) \subseteq Held(b)
      BY <1>1, <2>1 DEF DataFrames
    <3>2. \A i \in 1 .. j : i \in 1 .. n /\ i # k
      BY <2>1
    <3>3. \A i \in 1 .. j : Range(sp.areas[i].frames) \cap Range(x) = {}
      BY <1>1, <2>1, <3>2, OwnedFacts
    <3>4. X \cap Range(x) = {}
      BY <2>1, <3>3
    <3> QED BY <2>2, <3>1, <3>4 DEF Freed
  <2>6. x \in Seq(Frames) /\ Distinct(x)
    BY <1>0, <1>1, <2>1, AreaFacts, OwnedFacts
  <2>7. Freed(c, Range(x), d)
    BY <2>2, <2>3, <2>5, <2>6, DroppedFacts DEF Freed
  <2>8. Freed(b, Y, d)
    BY <2>2, <2>4, <2>7 DEF Freed
  <2> QED BY <1>4, <2>1, <2>2, <2>8
<1>7. n \in S
  BY <1>1, <1>5, <1>6, Climb
<1>8. UNION {Range(sp.areas[i].frames) : i \in 1 .. n} = DataFrames(sp)
  BY <1>1 DEF DataFrames
<1> QED BY <1>3, <1>4, <1>7, <1>8

(* The drop of an address space.                                            *)
LEMMA DropSpaceFacts ==
  ASSUME NEW b, Running(b), NEW sp \in Spaces, OwnedOnce(sp), Owned(sp) \subseteq Held(b),
         NEW f, f = DropSpace(b, sp)
  PROVE  Freed(b, Owned(sp), f)
<1>1. PICK c : c = Dropped(b, sp.nodes)
  OBVIOUS
<1>2. f = RecycleDataPages(c, sp)
  BY <1>1 DEF DropSpace
<1>3. /\ Owned(sp) = Range(sp.nodes) \cup DataFrames(sp)
      /\ Range(sp.nodes) \cap DataFrames(sp) = {} /\ Distinct(sp.nodes)
  BY OwnedFacts
<1>4. sp.nodes \in Seq(Frames)
  BY SpaceFacts
<1>5. Freed(b, Range(sp.nodes), c)
  BY <1>1, <1>3, <1>4, DroppedFacts
<1>6. Running(c) /\ DataFrames(sp) \subseteq Held(c)
  BY <1>3, <1>5 DEF Freed
<1>7. Freed(c, DataFrames(sp), f)
  BY <1>2, <1>6, RecycleFacts
<1> QED BY <1>3, <1>5, <1>7 DEF Freed

-----------------------------------------------------------------------------
(* Unmapping.  Page vpn was unmapped and its frame given back.              *)
Unmapped(b, f, vpn, ppn) ==
    /\ Running(f) /\ Table(f.mem, f.nodes) /\ f.nodes = b.nodes /\ f.areas = b.areas
    /\ Held(f) = Held(b) \ {ppn} /\ Mapping(b, f, vpn, Empty)
    /\ \A y \in Frames : y \notin Range(b.nodes) => f.mem[y] = b.mem[y]

(* The walk to a valid entry passes valid nodes.                            *)
LEMMA ValidWalk ==
  ASSUME NEW m, NEW root, NEW vpn, Valid(Translate(m, root, vpn)),
         NEW e, e = Child(m, m[root][Indexes(vpn)[1]], Indexes(vpn)[2])
  PROVE  /\ Valid(e) /\ Translate(m, root, vpn) = m[e.ppn][Indexes(vpn)[3]]
         /\ LeafOf(m, root, Indexes(vpn)[1], Indexes(vpn)[2], e.ppn)
<1>1. PICK i, j, k : i = Indexes(vpn)[1] /\ j = Indexes(vpn)[2] /\ k = Indexes(vpn)[3]
  OBVIOUS
<1>2. Translate(m, root, vpn) = Child(m, e, k) /\ e = Child(m, m[root][i], j)
  BY <1>1, Zenon DEF Translate
<1>3. Valid(e)
  BY <1>2, ZeroPageType, Zenon DEF Child
<1>4. Child(m, e, k) = m[e.ppn][k]
  BY <1>3, Zenon DEF Child
<1>5. Valid(m[root][i])
  BY <1>2, <1>3, ZeroPageType, Zenon DEF Child
<1>6. e = m[m[root][i].ppn][j]
  BY <1>2, <1>5, Zenon DEF Child
<1>7. LeafOf(m, root, i, j, e.ppn)
  BY <1>3, <1>5, <1>6, Zenon DEF LeafOf
<1> QED BY <1>1, <1>2, <1>3, <1>4, <1>7, Zenon

(* unmap_one of a mapped page whose frame is held: no assertion fails.      *)
LEMMA UnmapOneFacts ==
  ASSUME NEW b, Running(b), Table(b.mem, b.nodes), NEW vpn \in 0 .. TRAMPOLINE,
         Valid(Lookup(b, vpn)), NEW ppn \in Held(b), NEW f, f = UnmapOne(b, vpn, ppn)
  PROVE  Unmapped(b, f, vpn, ppn)
<1>1. PICK d : d = FrameDealloc(b, ppn)
  OBVIOUS
<1>2. /\ Running(d) /\ Held(d) = Held(b) \ {ppn}
      /\ d.mem = b.mem /\ d.nodes = b.nodes /\ d.areas = b.areas
  BY <1>1, DeallocFacts
<1>3. PICK root, i, j, k : /\ root = Head(b.nodes) /\ i = Indexes(vpn)[1]
                           /\ j = Indexes(vpn)[2] /\ k = Indexes(vpn)[3]
  OBVIOUS
<1>4. PICK e, x : e = Child(b.mem, b.mem[root][i], j) /\ x = e.ppn
  OBVIOUS
<1>5. /\ Valid(e) /\ Lookup(b, vpn) = b.mem[x][k] /\ LeafOf(b.mem, root, i, j, x)
  <2>1. Valid(Translate(b.mem, root, vpn)) /\ Lookup(b, vpn) = Translate(b.mem, root, vpn)
        /\ e = Child(b.mem, b.mem[root][Indexes(vpn)[1]], Indexes(vpn)[2])
    BY <1>3, <1>4, Zenon DEF Lookup
  <2>2. /\ Valid(e) /\ Translate(b.mem, root, vpn) = b.mem[e.ppn][Indexes(vpn)[3]]
        /\ LeafOf(b.mem, root, Indexes(vpn)[1], Indexes(vpn)[2], e.ppn)
    BY <2>1, ValidWalk, Zenon
  <2> QED BY <1>3, <1>4, <2>1, <2>2, Zenon
<1>6. /\ d.mem \in [Frames -> Page] /\ DOMAIN d = Fields /\ d \in Machines
      /\ b.nodes \in Seq(Frames) /\ Range(b.nodes) \subseteq Frames
  <2>1. b.nodes \in Seq(Frames)
    BY DEF Table
  <2> QED BY <1>2, <2>1, MachineFacts, RangeFacts DEF Running
<1>7. x \in Range(b.nodes)
  <2>1. PICK lv, px, py : Shape(b.mem, Range(b.nodes), root, lv, px, py)
    BY <1>3 DEF Table, IsTree
  <2>2. i \in 0 .. PTES - 1 /\ j \in 0 .. PTES - 1
    BY <1>3, IndexFacts
  <2> QED BY <1>5, <2>1, <2>2, LeafFacts
<1>8. PICK m : m = [d.mem EXCEPT ![x] = [d.mem[x] EXCEPT ![k] = Empty]]
  OBVIOUS
<1>9. /\ m \in [Frames -> Page] /\ m[x][k] = Empty
      /\ \A h \in 0 .. PTES - 1 : h # k => m[x][h] = d.mem[x][h]
      /\ \A z \in Frames : z # x => m[z] = d.mem[z]
  <2>0. k \in 0 .. PTES - 1
    BY <1>3, IndexFacts
  <2>1. x \in Frames /\ d.mem[x] \in Page
    BY <1>6, <1>7
  <2>2. [d.mem[x] EXCEPT ![k] = Empty] \in Page
    BY <2>1, ZeroPageType DEF Page
  <2>3. m \in [Frames -> Page]
    BY <1>6, <1>8, <2>1, <2>2
  <2> QED BY <1>6, <1>8, <2>0, <2>1, <2>3 DEF Page
<1>10. f = SetMem(d, m)
  <2>1. /\ Head(d.nodes) = root /\ Child(d.mem, d.mem[root][i], j) = e
        /\ Valid(d.mem[x][k])
    BY <1>2, <1>3, <1>4, <1>5, Zenon
  <2>2. f = [d EXCEPT !.mem[x][k] = Empty]
    BY <1>1, <1>3, <1>4, <1>5, <2>1, Zenon DEF UnmapOne
  <2> QED BY <1>6, <1>8, <2>2 DEF SetMem, Fields
<1>11. /\ f.mem = m /\ f.nodes = b.nodes /\ f.areas = b.areas /\ f.current = d.current
       /\ f.recycled = d.recycled /\ f.panic = d.panic /\ f \in Machines
  BY <1>2, <1>6, <1>9, <1>10 DEF SetMem, Machines
<1>12. Running(f) /\ Held(f) = Held(d)
  BY <1>2, <1>11 DEF Running, Held
<1>13. Written(b.mem, f.mem, Range(b.nodes), x, k, Empty)
  BY <1>2, <1>6, <1>9, <1>11 DEF Written
<1>14. Table(f.mem, f.nodes) /\ Mapping(b, f, vpn, Empty)
  <2>1. /\ LeafOf(b.mem, root, Indexes(vpn)[1], Indexes(vpn)[2], x)
        /\ Written(b.mem, f.mem, Range(b.nodes), x, Indexes(vpn)[3], Empty)
    BY <1>3, <1>5, <1>13, Zenon
  <2> QED BY <1>3, <1>11, <2>1, WriteEntry
<1>15. \A y \in Frames : y \notin Range(b.nodes) => f.mem[y] = b.mem[y]
  BY <1>2, <1>7, <1>9, <1>11
<1> QED BY <1>2, <1>11, <1>12, <1>14, <1>15 DEF Unmapped

(* The first k pages of area n are unmapped.                                *)
Unmapping(b, n, k, c) ==
    /\ Running(c) /\ Table(c.mem, c.nodes) /\ c.nodes = b.nodes /\ c.areas = b.areas
    /\ Held(c) = Held(b) \ {b.areas[n].frames[i] : i \in 1 .. k}
    /\ \A i \in 1 .. k : Lookup(c, b.areas[n].start + i - 1) = Empty
    /\ \A v \in 0 .. TRAMPOLINE :
         (\A i \in 1 .. k : v # b.areas[n].start + i - 1) => Lookup(c, v) = Lookup(b, v)
    /\ \A y \in Frames : y \notin Range(b.nodes) => c.mem[y] = b.mem[y]

(* One page more.                                                           *)
LEMMA UnmapStep ==
  ASSUME NEW b, Whole(b), NEW n \in DOMAIN b.areas, NEW k \in 1 .. b.areas[n].pages,
         NEW j, j = k - 1, NEW c, Unmapping(b, n, j, c),
         NEW d, d = UnmapOne(c, b.areas[n].start + k - 1, b.areas[n].frames[k])
  PROVE  Unmapping(b, n, k, d)
<1>1. /\ Running(c) /\ Table(c.mem, c.nodes) /\ c.nodes = b.nodes /\ c.areas = b.areas
      /\ Held(c) = Held(b) \ {b.areas[n].frames[i] : i \in 1 .. j}
      /\ \A i \in 1 .. j : Lookup(c, b.areas[n].start + i - 1) = Empty
      /\ \A v \in 0 .. TRAMPOLINE :
           (\A i \in 1 .. j : v # b.areas[n].start + i - 1) => Lookup(c, v) = Lookup(b, v)
      /\ \A y \in Frames : y \notin Range(b.nodes) => c.mem[y] = b.mem[y]
  BY DEF Unmapping
<1>2. /\ Ready(b) /\ Mapped(b) /\ Placed(b.areas) /\ b.areas \in Seq(AreaSet)
      /\ DOMAIN b.areas[n].frames = 1 .. b.areas[n].pages /\ b.areas[n].pages \in Nat
      /\ b.areas[n].start \in Nat
  BY WholeFacts
<1>3. PICK s, l, v, x : /\ s = b.areas[n].start /\ l = b.areas[n].pages
                        /\ v = b.areas[n].start + k - 1 /\ x = b.areas[n].frames[k]
  OBVIOUS
<1>4. /\ k \in DOMAIN b.areas[n].frames /\ k \in Nat /\ j \in Nat
      /\ \A i \in 1 .. j : i \in 1 .. l /\ i # k /\ i \in 1 .. k
      /\ \A i \in 1 .. k : i \in 1 .. j \/ i = k
  <2>1. k \in 1 .. l /\ l \in Nat /\ j = k - 1
    BY <1>2, <1>3
  <2>2. k \in DOMAIN b.areas[n].frames
    BY <1>2, <1>3, <2>1
  <2>3. k \in Nat /\ j \in Nat
    BY <2>1
  <2>4. \A i \in 1 .. j : i \in 1 .. l /\ i # k /\ i \in 1 .. k
    BY <2>1, <2>3
  <2>5. \A i \in 1 .. k : i \in 1 .. j \/ i = k
    BY <2>1, <2>3
  <2> QED BY <2>2, <2>3, <2>4, <2>5
<1>5. v \in 0 .. TRAMPOLINE
  BY <1>2, <1>3, PageBelow
<1>6. \A i \in 1 .. j : v # s + i - 1
  BY <1>2, <1>3, <1>4
<1>7. Lookup(c, v) = Lookup(b, v)
  BY <1>1, <1>3, <1>5, <1>6
<1>8. Valid(Lookup(c, v))
  <2>1. Lookup(b, v) = Entry(b.areas[n].frames[k], b.areas[n].perm)
    BY <1>2, <1>3, <1>4 DEF Mapped, PageEntry
  <2>2. b.areas[n].frames[k] \in Nat /\ b.areas[n].perm \in SUBSET {"R", "W", "X", "U"}
    BY <1>2, <1>4, AreaFacts
  <2> QED BY <1>7, <2>1, <2>2, EntryFacts
<1>9. x \in Held(c)
  <2>1. x \in Held(b)
    BY <1>2, <1>3, <1>4, FrameInBulk DEF Bulk
  <2>2. ASSUME NEW i \in 1 .. j PROVE b.areas[n].frames[i] # x
    <3>1. i \in DOMAIN b.areas[n].frames /\ i # k
      BY <1>2, <1>3, <1>4
    <3> QED BY <1>2, <1>3, <1>4, <3>1, FramesDiffer
  <2> QED BY <1>1, <2>1, <2>2
<1>10. Unmapped(c, d, v, x)
  BY <1>1, <1>3, <1>5, <1>8, <1>9, UnmapOneFacts
<1>11. /\ Running(d) /\ Table(d.mem, d.nodes) /\ d.nodes = c.nodes /\ d.areas = c.areas
       /\ Held(d) = Held(c) \ {x} /\ Lookup(d, v) = Empty
       /\ \A w \in 0 .. TRAMPOLINE : w # v => Lookup(d, w) = Lookup(c, w)
       /\ \A y \in Frames : y \notin Range(c.nodes) => d.mem[y] = c.mem[y]
  BY <1>10 DEF Unmapped, Mapping
<1>12. Held(d) = Held(b) \ {b.areas[n].frames[i] : i \in 1 .. k}
  <2>1. {b.areas[n].frames[i] : i \in 1 .. k} = {b.areas[n].frames[i] : i \in 1 .. j} \cup {x}
    <3>1. k \in 1 .. k
      BY <1>4
    <3> QED BY <1>3, <1>4, <3>1
  <2> QED BY <1>1, <1>11, <2>1
<1>13. ASSUME NEW i \in 1 .. k PROVE Lookup(d, b.areas[n].start + i - 1) = Empty
  <2>1. CASE i = k
    BY <1>3, <1>11, <2>1
  <2>2. CASE i # k
    <3>1. i \in 1 .. j /\ i \in 1 .. l
      BY <1>4, <2>2
    <3>2. PICK w : w = b.areas[n].start + i - 1
      OBVIOUS
    <3>3. w \in 0 .. TRAMPOLINE /\ w # v
      BY <1>2, <1>3, <1>6, <3>1, <3>2, PageBelow
    <3>4. Lookup(c, w) = Empty
      BY <1>1, <3>1, <3>2
    <3> QED BY <1>11, <3>2, <3>3, <3>4
  <2> QED BY <2>1, <2>2
<1>14. ASSUME NEW w \in 0 .. TRAMPOLINE, \A i \in 1 .. k : w # b.areas[n].start + i - 1
       PROVE  Lookup(d, w) = Lookup(b, w)
  <2>1. k \in 1 .. k
    BY <1>4
  <2>2. w # v /\ \A i \in 1 .. j : w # b.areas[n].start + i - 1
    BY <1>3, <1>4, <1>14, <2>1
  <2> QED BY <1>1, <1>11, <2>2
<1>15. \A y \in Frames : y \notin Range(b.nodes) => d.mem[y] = b.mem[y]
  BY <1>1, <1>11
<1> QED BY <1>1, <1>11, <1>12, <1>13, <1>14, <1>15 DEF Unmapping

(* unmap.                                                                   *)
LEMMA UnmapAreaFacts ==
  ASSUME NEW b, Whole(b), NEW n \in DOMAIN b.areas, NEW area, area = b.areas[n],
         NEW f, f = UnmapArea(b, area)
  PROVE  Unmapping(b, n, area.pages, f)
<1>1. PICK l \in Nat : l = area.pages
  BY WholeFacts
<1>2. PICK r : UnmapAreaRun(b, area, l, r)
  BY <1>1, UnmapAreaLoop, Zenon
<1>3. /\ f = r[l] /\ r[0] = b
      /\ \A k \in 1 .. l : r[k] = UnmapOne(r[k - 1], b.areas[n].start + k - 1, b.areas[n].frames[k])
  BY <1>2 DEF UnmapAreaRun
<1>4. PICK S : S = {k \in 0 .. l : Unmapping(b, n, k, r[k])}
  OBVIOUS
<1>5. 0 \in S
  <2>1. {b.areas[n].frames[i] : i \in 1 .. 0} = {} /\ 0 \in 0 .. l /\ \A i \in 1 .. 0 : FALSE
    OBVIOUS
  <2>2. Running(b) /\ Table(b.mem, b.nodes)
    BY DEF Whole, Ready
  <2>3. Unmapping(b, n, 0, b)
    BY <2>1, <2>2 DEF Unmapping
  <2> QED BY <1>3, <1>4, <2>1, <2>3
<1>6. ASSUME NEW k \in 1 .. l, k - 1 \in S PROVE k \in S
  <2>1. PICK j, c, d : j = k - 1 /\ c = r[j] /\ d = r[k]
    OBVIOUS
  <2>2. Unmapping(b, n, j, c) /\ k \in 0 .. l /\ k \in 1 .. b.areas[n].pages
    BY <1>1, <1>4, <1>6, <2>1
  <2>3. d = UnmapOne(c, b.areas[n].start + k - 1, b.areas[n].frames[k])
    BY <1>3, <2>1
  <2>4. Unmapping(b, n, k, d)
    BY <2>1, <2>2, <2>3, UnmapStep
  <2> QED BY <1>4, <2>1, <2>2, <2>4
<1>7. l \in S
  BY <1>5, <1>6, Climb
<1> QED BY <1>1, <1>3, <1>4, <1>7

-----------------------------------------------------------------------------
(* remove_area_with_start_vpn.  Vec::remove at index i: element k of the    *)
(* new vector t is element p[k] of s.                                       *)
Skips(s, i, t, p) ==
    /\ DOMAIN t = 1 .. Len(s) - 1 /\ Len(t) = Len(s) - 1
    /\ \A k \in DOMAIN t : p[k] \in DOMAIN s /\ p[k] # i /\ t[k] = s[p[k]]
    /\ \A k, l \in DOMAIN t : p[k] = p[l] => k = l
    /\ \A l \in DOMAIN s : l # i => \E k \in DOMAIN t : p[k] = l

(* Vec::remove keeps the other elements in order.                           *)
LEMMA RemoveAtSkips ==
  ASSUME NEW S, NEW s \in Seq(S), NEW i \in DOMAIN s, NEW t, t = RemoveAt(s, i)
  PROVE  t \in Seq(S) /\ \E p : Skips(s, i, t, p)
<1> DEFINE b == SubSeq(s, 1, i - 1)
           e == SubSeq(s, i + 1, Len(s))
<1>1. PICK n \in Nat : n = Len(s) /\ DOMAIN s = 1 .. n /\ i \in 1 .. n
  OBVIOUS
<1>2. /\ b \in Seq(S) /\ Len(b) = i - 1 /\ DOMAIN b = 1 .. i - 1 /\ \A k \in 1 .. i - 1 : b[k] = s[k]
  BY <1>1
<1>3. /\ e \in Seq(S) /\ Len(e) = n - i /\ DOMAIN e = 1 .. n - i
      /\ \A k \in 1 .. n - i : e[k] = s[i + k]
  BY <1>1
<1>4. t = b \o e
  BY DEF RemoveAt
<1> HIDE DEF b, e
<1>5. t \in Seq(S) /\ Len(t) = n - 1
  <2>a. \A u, v \in Seq(S) : Len(u \o v) = Len(u) + Len(v) /\ u \o v \in Seq(S)
    OBVIOUS
  <2>1. Len(t) = Len(b) + Len(e) /\ t \in Seq(S)
    BY <1>2, <1>3, <1>4, <2>a, Zenon
  <2>2. Len(t) = (i - 1) + (n - i)
    BY <1>2, <1>3, <2>1, Zenon
  <2> QED BY <1>1, <2>1, <2>2
<1>6. DOMAIN t = 1 .. n - 1
  BY <1>5
<1>7. PICK p : p = [k \in 1 .. n - 1 |-> IF k < i THEN k ELSE k + 1]
  OBVIOUS
<1>8. ASSUME NEW k \in 1 .. n - 1 PROVE p[k] \in 1 .. n /\ p[k] # i /\ t[k] = s[p[k]]
  <2>1. CASE k < i
    <3>1. k \in 1 .. i - 1 /\ p[k] = k
      BY <1>1, <1>7, <2>1
    <3>2. t[k] = b[k]
      BY <1>2, <1>3, <1>4, <3>1
    <3> QED BY <1>1, <1>2, <2>1, <3>1, <3>2
  <2>2. CASE ~(k < i)
    <3>1. k - (i - 1) \in 1 .. n - i /\ p[k] = k + 1 /\ i + (k - (i - 1)) = k + 1
      BY <1>1, <1>7, <2>2
    <3>2. t[k] = e[k - (i - 1)]
      <4>1. k \in Nat /\ k > Len(b) /\ k <= Len(b) + Len(e) /\ k - Len(b) = k - (i - 1)
        BY <1>1, <1>2, <1>3, <2>2
      <4>2. \A u, v \in Seq(S), h \in Nat :
              h > Len(u) /\ h <= Len(u) + Len(v) => (u \o v)[h] = v[h - Len(u)]
        OBVIOUS
      <4>3. (b \o e)[k] = e[k - Len(b)]
        BY <1>2, <1>3, <4>1, <4>2, Zenon
      <4> QED BY <1>4, <4>1, <4>3, Zenon
    <3>3. e[k - (i - 1)] = s[k + 1]
      BY <1>3, <3>1
    <3> QED BY <1>1, <2>2, <3>1, <3>2, <3>3
  <2> QED BY <2>1, <2>2
<1>9. \A k, l \in 1 .. n - 1 : p[k] = p[l] => k = l
  BY <1>1, <1>7
<1>10. ASSUME NEW l \in 1 .. n, l # i PROVE \E k \in 1 .. n - 1 : p[k] = l
  <2>1. CASE l < i
    <3>1. l \in 1 .. n - 1 /\ p[l] = l
      BY <1>1, <1>7, <2>1
    <3> QED BY <3>1
  <2>2. CASE l > i
    <3>1. l - 1 \in 1 .. n - 1 /\ p[l - 1] = l
      BY <1>1, <1>7, <2>2
    <3> QED BY <3>1
  <2> QED BY <1>1, <1>10, <2>1, <2>2
<1>11. Skips(s, i, t, p)
  <2>1. DOMAIN t = 1 .. Len(s) - 1 /\ Len(t) = Len(s) - 1
    BY <1>1, <1>5, <1>6
  <2> QED BY <1>1, <1>6, <1>8, <1>9, <1>10, <2>1 DEF Skips
<1> QED BY <1>5, <1>11

(* Every frame of the remaining space still has one place.                  *)
LEMMA OwnRemove ==
  ASSUME NEW sp \in Spaces, OwnedOnce(sp), NEW i \in DOMAIN sp.areas,
         NEW sp2 \in Spaces, sp2.nodes = sp.nodes, NEW p, Skips(sp.areas, i, sp2.areas, p)
  PROVE  /\ OwnedOnce(sp2) /\ Owned(sp2) = Owned(sp) \ Range(sp.areas[i].frames)
<1>1. /\ sp.nodes \in Seq(Frames) /\ sp.areas \in Seq(AreaSet) /\ SpaceOf(sp) = sp
      /\ sp2.nodes \in Seq(Frames) /\ sp2.areas \in Seq(AreaSet) /\ SpaceOf(sp2) = sp2
  BY SpaceFacts
<1>2. PICK t : t = sp2.areas
  OBVIOUS
<1>3. PICK n \in Nat : n = Len(sp.areas) /\ DOMAIN sp.areas = 1 .. n
  BY <1>1
<1>4. PICK m \in Nat : m = Len(t) /\ DOMAIN t = 1 .. m
  BY <1>1, <1>2
<1>5. /\ \A k \in 1 .. m : p[k] \in 1 .. n /\ p[k] # i /\ t[k] = sp.areas[p[k]]
      /\ \A k, l \in 1 .. m : p[k] = p[l] => k = l
      /\ \A l \in 1 .. n : l # i => \E k \in 1 .. m : p[k] = l
  BY <1>2, <1>3, <1>4 DEF Skips
<1>6. PICK q : q = [k \in 0 .. m |-> IF k = 0 THEN 0 ELSE p[k]]
  OBVIOUS
<1>7. ASSUME NEW k \in 0 .. m PROVE q[k] \in 0 .. n /\ Column(sp2, k) = Column(sp, q[k])
  <2>1. CASE k = 0
    BY <1>3, <1>6, <2>1 DEF Column
  <2>2. CASE k # 0
    <3>1. k \in 1 .. m /\ q[k] = p[k]
      BY <1>4, <1>6, <2>2
    <3>2. p[k] \in 1 .. n /\ t[k] = sp.areas[p[k]]
      BY <1>5, <3>1
    <3>3. p[k] # 0 /\ p[k] \in 0 .. n
      BY <1>3, <3>2
    <3>4. Column(sp2, k) = t[k].frames /\ Column(sp, p[k]) = sp.areas[p[k]].frames
      BY <1>2, <2>2, <3>3, Zenon DEF Column
    <3> QED BY <3>1, <3>2, <3>3, <3>4, Zenon
  <2> QED BY <2>1, <2>2
<1>8. ASSUME NEW k \in 0 .. m, NEW l \in 0 .. m, q[k] = q[l] PROVE k = l
  <2>1. \A h \in 1 .. m : p[h] # 0
    BY <1>3, <1>5
  <2>2. k = 0 \/ k \in 1 .. m
    BY <1>4
  <2>3. l = 0 \/ l \in 1 .. m
    BY <1>4
  <2> QED BY <1>4, <1>5, <1>6, <1>8, <2>1, <2>2, <2>3
<1>9. OwnedOnce(sp2)
  <2>1. Len(sp2.areas) = m
    BY <1>2, <1>4
  <2>2. ASSUME NEW k \in 0 .. m, NEW l \in 0 .. m,
               NEW u \in DOMAIN Column(sp2, k), NEW v \in DOMAIN Column(sp2, l),
               Column(sp2, k)[u] = Column(sp2, l)[v]
        PROVE  k = l /\ u = v
    <3>1. /\ q[k] \in 0 .. n /\ Column(sp2, k) = Column(sp, q[k])
          /\ q[l] \in 0 .. n /\ Column(sp2, l) = Column(sp, q[l])
      BY <1>7
    <3>2. PICK a \in 0 .. n, c \in 0 .. n : a = q[k] /\ c = q[l]
      BY <3>1
    <3>3. u \in DOMAIN Column(sp, a) /\ v \in DOMAIN Column(sp, c)
          /\ Column(sp, a)[u] = Column(sp, c)[v]
      BY <2>2, <3>1, <3>2, Zenon
    <3>4. a = c /\ u = v
      BY <1>3, <3>3 DEF OwnedOnce
    <3> QED BY <1>8, <3>2, <3>4
  <2> QED BY <2>1, <2>2 DEF OwnedOnce
<1>10. /\ Owned(sp) = Range(sp.nodes) \cup DataFrames(sp)
       /\ Range(sp.nodes) \cap DataFrames(sp) = {}
       /\ \A k, l \in DOMAIN sp.areas :
              k # l => Range(sp.areas[k].frames) \cap Range(sp.areas[l].frames) = {}
  BY OwnedFacts
<1>11. Owned(sp2) = Range(sp2.nodes) \cup DataFrames(sp2)
  BY <1>9, OwnedFacts
<1>12. DataFrames(sp2) = DataFrames(sp) \ Range(sp.areas[i].frames)
  <2>1. ASSUME NEW x \in DataFrames(sp2)
        PROVE  x \in DataFrames(sp) /\ x \notin Range(sp.areas[i].frames)
    <3>1. PICK k \in 1 .. m : x \in Range(t[k].frames)
      BY <1>2, <1>4, <2>1 DEF DataFrames
    <3>2. PICK l \in 1 .. n : l # i /\ x \in Range(sp.areas[l].frames)
      <4>1. p[k] \in 1 .. n /\ p[k] # i /\ t[k] = sp.areas[p[k]]
        BY <1>5
      <4> QED BY <3>1, <4>1
    <3> QED BY <1>3, <1>10, <3>2 DEF DataFrames
  <2>2. ASSUME NEW x \in DataFrames(sp), x \notin Range(sp.areas[i].frames)
        PROVE  x \in DataFrames(sp2)
    <3>1. PICK l \in 1 .. n : x \in Range(sp.areas[l].frames)
      BY <1>3 DEF DataFrames
    <3>2. l # i
      BY <2>2, <3>1
    <3>3. PICK k \in 1 .. m : p[k] = l
      BY <1>5, <3>2
    <3>4. t[k] = sp.areas[l]
      BY <1>5, <3>3
    <3>5. x \in Range(t[k].frames)
      BY <3>1, <3>4
    <3> QED BY <1>2, <1>4, <3>5 DEF DataFrames
  <2> QED BY <2>1, <2>2
<1>13. Range(sp.areas[i].frames) \subseteq DataFrames(sp)
  BY DEF DataFrames
<1> QED BY <1>9, <1>10, <1>11, <1>12, <1>13

(* Area n is gone, and with it its pages and its frames.                    *)
Removed(b, n, f) ==
    /\ Whole(f) /\ Beside(b, f) /\ f.nodes = b.nodes
    /\ \A k \in DOMAIN f.areas : \E l \in DOMAIN b.areas : l # n /\ f.areas[k] = b.areas[l]

(* After unmap the area is taken out of the vector.                         *)
LEMMA RemoveFacts ==
  ASSUME NEW b, Whole(b), NEW n \in DOMAIN b.areas,
         NEW c, Unmapping(b, n, b.areas[n].pages, c),
         NEW f, f = [c EXCEPT !.areas = RemoveAt(@, n)]
  PROVE  Removed(b, n, f)
<1>1. PICK l, s, x : /\ l = b.areas[n].pages /\ s = b.areas[n].start
                     /\ x = Range(b.areas[n].frames)
  OBVIOUS
<1>2. /\ Ready(b) /\ Mapped(b) /\ Placed(b.areas) /\ b.areas \in Seq(AreaSet)
      /\ DOMAIN b.areas[n].frames = 1 .. l /\ l \in Nat /\ s \in Nat
  BY <1>1, WholeFacts
<1>3. /\ Running(c) /\ Table(c.mem, c.nodes) /\ c.nodes = b.nodes /\ c.areas = b.areas
      /\ Held(c) = Held(b) \ {b.areas[n].frames[i] : i \in 1 .. l}
      /\ \A i \in 1 .. l : Lookup(c, s + i - 1) = Empty
      /\ \A v \in 0 .. TRAMPOLINE :
           (\A i \in 1 .. l : v # s + i - 1) => Lookup(c, v) = Lookup(b, v)
      /\ \A y \in Frames : y \notin Range(b.nodes) => c.mem[y] = b.mem[y]
  BY <1>1 DEF Unmapping
<1>4. PICK t : t = RemoveAt(b.areas, n)
  OBVIOUS
<1>5. t \in Seq(AreaSet) /\ \E p : Skips(b.areas, n, t, p)
  BY <1>2, <1>4, RemoveAtSkips
<1>6. PICK p : Skips(b.areas, n, t, p)
  BY <1>5
<1>7. c \in Machines /\ DOMAIN c = Fields
  BY <1>3, MachineFacts DEF Running
<1>8. /\ f.areas = t /\ f.mem = c.mem /\ f.nodes = b.nodes /\ f.current = c.current
      /\ f.recycled = c.recycled /\ f.panic = c.panic /\ f \in Machines
  BY <1>3, <1>4, <1>5, <1>7 DEF Machines, Fields
<1>9. Running(f) /\ Held(f) = Held(b) \ x
  <2>1. Held(f) = Held(c) /\ Running(f)
    BY <1>3, <1>8 DEF Running, Held
  <2>2. x = {b.areas[n].frames[i] : i \in 1 .. l}
    BY <1>1, <1>2 DEF Range
  <2> QED BY <1>3, <2>1, <2>2
<1>10. PICK sp, sp2 : sp = SpaceOf(b) /\ sp2 = SpaceOf(f)
  OBVIOUS
<1>11. /\ sp \in Spaces /\ sp.areas = b.areas /\ sp.nodes = b.nodes
       /\ sp2 \in Spaces /\ sp2.areas = t /\ sp2.nodes = b.nodes
  BY <1>2, <1>5, <1>8, <1>10, ReadyFacts DEF SpaceOf, Spaces, AreaSet
<1>12. OwnedOnce(sp2) /\ Owned(sp2) = Owned(sp) \ x
  <2>1. OwnedOnce(sp)
    BY <1>2, <1>10 DEF Ready
  <2>2. n \in DOMAIN sp.areas /\ sp2.nodes = sp.nodes /\ Skips(sp.areas, n, sp2.areas, p)
        /\ x = Range(sp.areas[n].frames)
    BY <1>1, <1>6, <1>11, Zenon
  <2> QED BY <1>11, <2>1, <2>2, OwnRemove
<1>13. Ready(f)
  <2>1. Owned(sp) \subseteq Held(b)
    BY <1>2, <1>10 DEF Ready
  <2>2. Table(f.mem, f.nodes)
    BY <1>3, <1>8
  <2> QED BY <1>9, <1>10, <1>12, <2>1, <2>2 DEF Ready
<1>14. \A v : Lookup(f, v) = Lookup(c, v)
  BY <1>3, <1>8, Zenon DEF Lookup
<1>15. ASSUME NEW k \in DOMAIN t
       PROVE  \E h \in DOMAIN b.areas : h # n /\ t[k] = b.areas[h] /\ h = p[k]
  BY <1>6 DEF Skips
<1>16. Mapped(f)
  <2>1. Lookup(f, TRAMPOLINE) = TrampolineEntry
    <3>1. \A i \in 1 .. l : TRAMPOLINE # s + i - 1
      BY <1>1, <1>2, PageBelow
    <3>2. TRAMPOLINE \in 0 .. TRAMPOLINE
      BY IndexFacts
    <3> QED BY <1>2, <1>3, <1>14, <3>1, <3>2 DEF Mapped
  <2>2. ASSUME NEW k \in DOMAIN t, NEW i \in DOMAIN t[k].frames
        PROVE  Lookup(f, t[k].start + i - 1) = PageEntry(t[k], i)
    <3>1. PICK h \in DOMAIN b.areas : h # n /\ t[k] = b.areas[h]
      BY <1>15
    <3>2. i \in DOMAIN b.areas[h].frames /\ i \in 1 .. b.areas[h].pages
      BY <3>1, WholeFacts
    <3>3. PICK v : v = b.areas[h].start + i - 1
      OBVIOUS
    <3>4. v \in 0 .. TRAMPOLINE
      BY <1>2, <3>2, <3>3, PageBelow
    <3>5. \A j \in 1 .. l : v # s + j - 1
      BY <1>1, <1>2, <3>1, <3>2, <3>3, PagesApart
    <3>6. Lookup(f, v) = Lookup(b, v)
      BY <1>3, <1>14, <3>4, <3>5
    <3>7. Lookup(b, b.areas[h].start + i - 1) = PageEntry(b.areas[h], i)
      BY <1>2, <3>2 DEF Mapped
    <3> QED BY <3>1, <3>3, <3>6, <3>7, Zenon
  <2>3. ASSUME NEW v \in 0 .. TRAMPOLINE, Valid(Lookup(f, v)), v # TRAMPOLINE
        PROVE  \E k \in DOMAIN t : \E i \in DOMAIN t[k].frames : v = t[k].start + i - 1
    <3>1. \A i \in 1 .. l : v # s + i - 1
      BY <1>3, <1>14, <2>3, ZeroPageType
    <3>2. Valid(Lookup(b, v))
      BY <1>3, <1>14, <2>3, <3>1
    <3>3. PICK h \in DOMAIN b.areas : \E i \in DOMAIN b.areas[h].frames : v = b.areas[h].start + i - 1
      BY <1>2, <2>3, <3>2 DEF Mapped
    <3>4. PICK i \in DOMAIN b.areas[h].frames : v = b.areas[h].start + i - 1
      BY <3>3
    <3>5. h # n
      BY <1>1, <1>2, <3>1, <3>4
    <3>6. PICK k \in DOMAIN t : p[k] = h
      BY <1>6, <3>5 DEF Skips
    <3>7. t[k] = b.areas[h]
      BY <1>6, <3>6 DEF Skips
    <3>8. i \in DOMAIN t[k].frames /\ v = t[k].start + i - 1
      BY <3>4, <3>7, Zenon
    <3> QED BY <3>8
  <2> QED BY <1>8, <2>1, <2>2, <2>3 DEF Mapped
<1>17. Placed(t)
  <2>1. ASSUME NEW k \in DOMAIN t
        PROVE  t[k].start + t[k].pages <= TRAMPOLINE /\ Len(t[k].frames) <= t[k].pages
    BY <1>2, <1>15 DEF Placed
  <2>2. ASSUME NEW k \in DOMAIN t, NEW h \in DOMAIN t, k # h PROVE Apart(t[k], t[h])
    <3>1. /\ p[k] \in DOMAIN b.areas /\ t[k] = b.areas[p[k]]
          /\ p[h] \in DOMAIN b.areas /\ t[h] = b.areas[p[h]] /\ p[k] # p[h]
      BY <1>6, <2>2 DEF Skips
    <3> QED BY <1>2, <3>1 DEF Placed
  <2> QED BY <2>1, <2>2 DEF Placed
<1>18. ASSUME NEW k \in DOMAIN t PROVE Len(t[k].frames) = t[k].pages
  BY <1>15, WholeFacts
<1>19. Whole(f)
  BY <1>8, <1>13, <1>16, <1>17, <1>18 DEF Whole
<1>20. Beside(b, f)
  <2>1. Others(f) = Others(b)
    <3>1. x \subseteq Owned(sp)
      <4>1. x \subseteq DataFrames(sp)
        BY <1>1, <1>11 DEF DataFrames
      <4>2. OwnedOnce(sp)
        BY <1>2, <1>10 DEF Ready
      <4> QED BY <1>11, <4>1, <4>2, OwnedFacts
    <3> QED BY <1>9, <1>10, <1>12, <3>1 DEF Others
  <2>2. Others(b) \subseteq Bulk(b) /\ Others(b) \subseteq Frames
    BY <1>2, OthersInBulk
  <2>3. \A y \in Others(b) : f.mem[y] = b.mem[y]
    BY <1>3, <1>8, <2>2 DEF Bulk
  <2> QED BY <2>1, <2>3 DEF Beside
<1> QED BY <1>8, <1>15, <1>19, <1>20 DEF Removed

(* remove_area_with_start_vpn: the area with that start is gone.            *)
LEMMA RemoveAreaFacts ==
  ASSUME NEW b, Whole(b), NEW start, NEW f, f = RemoveAreaWithStartVpn(b, start)
  PROVE  \/ f = b /\ \A k \in DOMAIN b.areas : b.areas[k].start # start
         \/ \E n \in DOMAIN b.areas : b.areas[n].start = start /\ Removed(b, n, f)
<1>1. PICK n : n = SelectInSeq(b.areas, LAMBDA a : a.start = start)
  OBVIOUS
<1>2. b.areas \in Seq(AreaSet)
  BY WholeFacts
<1>3. \/ n = 0 /\ \A k \in DOMAIN b.areas : b.areas[k].start # start
      \/ n \in DOMAIN b.areas /\ b.areas[n].start = start
  <2>1. PICK I : I = {i \in 1 .. Len(b.areas) : b.areas[i].start = start}
    OBVIOUS
  <2>2. n = IF I # {} THEN Min(I) ELSE 0
    BY <1>1, <2>1, Zenon DEF SelectInSeq
  <2>3. DOMAIN b.areas = 1 .. Len(b.areas) /\ Len(b.areas) \in Nat
    BY <1>2
  <2>4. CASE I = {}
    BY <2>1, <2>2, <2>3, <2>4
  <2>5. CASE I # {}
    <3>1. I \subseteq Nat
      BY <2>1, <2>3
    <3>2. PICK x \in I : \A y \in I : ~(y < x)
      BY <2>5, <3>1, Least, Zenon
    <3>3. \A y \in I : x =< y
      BY <3>1, <3>2
    <3>4. Min(I) \in I
      BY <3>3, Zenon DEF Min
    <3> QED BY <2>1, <2>2, <2>3, <2>5, <3>4
  <2> QED BY <2>4, <2>5
<1>4. f = IF n = 0 THEN b ELSE [UnmapArea(b, b.areas[n]) EXCEPT !.areas = RemoveAt(@, n)]
  BY <1>1, Zenon DEF RemoveAreaWithStartVpn
<1>5. CASE n = 0 /\ \A k \in DOMAIN b.areas : b.areas[k].start # start
  BY <1>4, <1>5
<1>6. CASE n \in DOMAIN b.areas /\ b.areas[n].start = start
  <2>1. n # 0
    BY <1>2, <1>6
  <2>2. PICK c : c = UnmapArea(b, b.areas[n])
    OBVIOUS
  <2>3. Unmapping(b, n, b.areas[n].pages, c)
    BY <1>6, <2>2, UnmapAreaFacts
  <2>4. f = [c EXCEPT !.areas = RemoveAt(@, n)]
    BY <1>4, <2>1, <2>2
  <2>5. Removed(b, n, f)
    BY <1>6, <2>3, <2>4, RemoveFacts
  <2> QED BY <1>6, <2>5
<1> QED BY <1>3, <1>5, <1>6

-----------------------------------------------------------------------------
(* Several spaces in one memory.                                            *)
LEMMA InSpaceFacts ==
  ASSUME NEW M, Running(M), NEW sp \in Spaces, NEW f, f = InSpace(M, sp)
  PROVE  /\ Running(f) /\ f.mem = M.mem /\ Held(f) = Held(M) /\ f.nodes = sp.nodes
         /\ f.areas = sp.areas /\ SpaceOf(f) = sp /\ Others(f) = Held(M) \ Owned(sp)
         /\ f.current = M.current /\ f.recycled = M.recycled
<1>1. sp.nodes \in Seq(Frames) /\ sp.areas \in Seq(AreaSet) /\ SpaceOf(sp) = sp
  BY SpaceFacts
<1>2. M \in Machines
  BY DEF Running
<1>3. f = [M EXCEPT !.nodes = sp.nodes, !.areas = sp.areas]
  BY DEF InSpace
<1>4. /\ f.mem = M.mem /\ f.nodes = sp.nodes /\ f.areas = sp.areas /\ f.current = M.current
      /\ f.recycled = M.recycled /\ f.panic = M.panic /\ f \in Machines
  BY <1>1, <1>2, <1>3 DEF Machines
<1>5. Running(f) /\ Held(f) = Held(M)
  BY <1>4 DEF Running, Held
<1>6. SpaceOf(f) = sp
  BY <1>1, <1>4, Zenon DEF SpaceOf
<1> QED BY <1>4, <1>5, <1>6 DEF Others

(* The space at hand is a space.                                            *)
LEMMA SpaceOfFacts ==
  ASSUME NEW b, Running(b)
  PROVE  SpaceOf(b) \in Spaces /\ SpaceOf(b).nodes = b.nodes /\ SpaceOf(b).areas = b.areas
<1>1. b.nodes \in Seq(Frames) /\ b.areas \in Seq(AreaSet)
  BY MachineFacts
<1> QED BY <1>1 DEF SpaceOf, Spaces, AreaSet

(* A space stays whole while its frames are held and its nodes unchanged.   *)
LEMMA WholeFrame ==
  ASSUME NEW c, Whole(c), NEW sp, sp = SpaceOf(c), NEW N, Running(N), Owned(sp) \subseteq Held(N),
         \A x \in Range(c.nodes) : N.mem[x] = c.mem[x]
  PROVE  Whole(InSpace(N, sp))
<1>1. Ready(c) /\ Mapped(c) /\ Placed(c.areas) /\ c.areas \in Seq(AreaSet)
  BY WholeFacts
<1>2. Running(c) /\ Table(c.mem, c.nodes) /\ OwnedOnce(sp)
  BY <1>1 DEF Ready
<1>3. sp \in Spaces /\ sp.nodes = c.nodes /\ sp.areas = c.areas
  BY <1>2, SpaceOfFacts
<1>4. PICK f : f = InSpace(N, sp)
  OBVIOUS
<1>5. /\ Running(f) /\ f.mem = N.mem /\ Held(f) = Held(N) /\ f.nodes = c.nodes
      /\ f.areas = c.areas /\ SpaceOf(f) = sp
  BY <1>3, <1>4, InSpaceFacts
<1>6. Table(N.mem, c.nodes) /\ SameTable(c.mem, N.mem, Head(c.nodes))
  BY <1>2, TableFrame
<1>7. Ready(f)
  BY <1>2, <1>5, <1>6 DEF Ready
<1>8. SameLookups(c, f)
  <2>1. SameWalks(c, f) /\ Head(f.nodes) = Head(c.nodes)
    BY <1>5, <1>6 DEF SameWalks
  <2> QED BY <2>1, WalkLookup
<1>9. Mapped(f)
  BY <1>1, <1>5, <1>8, MappedSame
<1>10. Whole(f)
  BY <1>1, <1>5, <1>7, <1>9 DEF Whole
<1> QED BY <1>4, <1>10

(* The trap context is the last area of a user space.                       *)
ContextAt(sp, cx) ==
    /\ Len(sp.areas) > 0
    /\ sp.areas[Len(sp.areas)].start = TRAP_CONTEXT /\ sp.areas[Len(sp.areas)].pages = 1
    /\ "U" \notin sp.areas[Len(sp.areas)].perm
    /\ cx = sp.areas[Len(sp.areas)].frames[1]

(* It has the kernel stack of its task.                                     *)
HasContext(m, sp, cx, t) == ContextAt(sp, cx) /\ m[cx][0] = Data(KernelStackTop(t))

(* The address space of a living task.                                      *)
Usable(M, sp, cx, t) == Whole(InSpace(M, sp)) /\ HasContext(M.mem, sp, cx, t)

(* It stays usable while its nodes and its trap context are unchanged.      *)
LEMMA UsableFrame ==
  ASSUME NEW M, Running(M), NEW sp \in Spaces, NEW cx, NEW t, Usable(M, sp, cx, t),
         NEW N, Running(N), Owned(sp) \subseteq Held(N),
         \A x \in Range(sp.nodes) : N.mem[x] = M.mem[x], N.mem[cx][0] = M.mem[cx][0]
  PROVE  Usable(N, sp, cx, t)
<1>1. PICK c : c = InSpace(M, sp)
  OBVIOUS
<1>2. Whole(c) /\ sp = SpaceOf(c) /\ c.nodes = sp.nodes /\ c.mem = M.mem
  BY <1>1, InSpaceFacts DEF Usable
<1>3. Whole(InSpace(N, sp))
  <2>1. \A x \in Range(c.nodes) : N.mem[x] = c.mem[x]
    BY <1>2
  <2> QED BY <1>2, <2>1, WholeFrame
<1> QED BY <1>3 DEF Usable, HasContext

(* Where the trap context is: in the frame of a page.                       *)
LEMMA ContextFrame ==
  ASSUME NEW M, Running(M), NEW sp \in Spaces, Whole(InSpace(M, sp)),
         NEW cx, ContextAt(sp, cx)
  PROVE  /\ cx \in DataFrames(sp) /\ cx \in Frames /\ cx \in Owned(sp) /\ cx \notin Range(sp.nodes)
         /\ Translate(M.mem, Head(sp.nodes), TRAP_CONTEXT).ppn = cx
<1>1. PICK c, n : c = InSpace(M, sp) /\ n = Len(sp.areas)
  OBVIOUS
<1>2. c.areas = sp.areas /\ c.nodes = sp.nodes /\ SpaceOf(c) = sp /\ c.mem = M.mem /\ Whole(c)
  BY <1>1, InSpaceFacts
<1>3. /\ Ready(c) /\ Mapped(c) /\ n \in Nat /\ DOMAIN c.areas = 1 .. n
      /\ \A k \in DOMAIN c.areas : DOMAIN c.areas[k].frames = 1 .. c.areas[k].pages
  BY <1>1, <1>2, WholeFacts
<1>4. /\ n > 0 /\ c.areas[n].start = TRAP_CONTEXT /\ c.areas[n].pages = 1
      /\ cx = c.areas[n].frames[1]
  BY <1>1, <1>2 DEF ContextAt
<1>5. n \in DOMAIN c.areas
  BY <1>3, <1>4
<1>6. 1 \in DOMAIN c.areas[n].frames
  BY <1>3, <1>4, <1>5
<1>7. cx \in Owned(sp) /\ cx \in Bulk(c)
  BY <1>2, <1>3, <1>4, <1>5, <1>6, FrameInBulk
<1>8. cx \in DataFrames(sp)
  <2>1. cx \in Range(c.areas[n].frames)
    BY <1>4, <1>6 DEF Range
  <2> QED BY <1>2, <1>5, <2>1 DEF DataFrames
<1>9. Lookup(c, c.areas[n].start + 1 - 1).ppn = cx /\ cx \in Frames
  BY <1>3, <1>4, <1>5, <1>6, PageLookup
<1>10. c.areas[n].start + 1 - 1 = TRAP_CONTEXT
  BY <1>4, IndexFacts
<1>11. Translate(M.mem, Head(sp.nodes), TRAP_CONTEXT).ppn = cx
  BY <1>2, <1>9, <1>10, Zenon DEF Lookup
<1> QED BY <1>2, <1>7, <1>8, <1>9, <1>11 DEF Bulk

(* Kernel stacks lie apart, each with its guard page.                       *)
LEMMA StackFacts ==
  ASSUME NEW p \in Pids
  PROVE  /\ KernelStackBottom(p) \in Nat /\ KERNEL_STACK_PAGES \in Nat /\ KERNEL_STACK_PAGES > 0
         /\ KernelStackBottom(p) + KERNEL_STACK_PAGES <= TRAMPOLINE
         /\ KernelStackTop(p) \in Nat
<1>1. PICK k : k = KERNEL_STACK_PAGES
  OBVIOUS
<1>2. k \in Nat /\ k > 0 /\ p \in Nat /\ TRAMPOLINE \in Nat
  BY <1>1, MemoryAssumption, IndexFacts
<1>3. p * (k + 1) \in Nat
  BY <1>2
<1>4. KernelStackTop(p) = TRAMPOLINE - p * (k + 1)
      /\ KernelStackBottom(p) = TRAMPOLINE - p * (k + 1) - k
  BY <1>1 DEF KernelStackTop, KernelStackBottom
<1>5. KernelStackBottom(p) >= 0
  BY LayoutAssumption
<1> QED BY <1>1, <1>2, <1>3, <1>4, <1>5

(* Two stacks.                                                              *)
LEMMA StacksApart ==
  ASSUME NEW p \in Pids, NEW q \in Pids, p # q
  PROVE  \/ KernelStackBottom(p) + KERNEL_STACK_PAGES < KernelStackBottom(q)
         \/ KernelStackBottom(q) + KERNEL_STACK_PAGES < KernelStackBottom(p)
<1>1. PICK k : k = KERNEL_STACK_PAGES
  OBVIOUS
<1>2. k \in Nat /\ k > 0 /\ p \in Nat /\ q \in Nat /\ TRAMPOLINE \in Nat
  BY <1>1, MemoryAssumption, IndexFacts
<1>3. \A u, v \in Nat : u < v => u * (k + 1) + (k + 1) <= v * (k + 1)
  <2>1. SUFFICES ASSUME NEW u \in Nat, NEW v \in Nat, u < v
                 PROVE  u * (k + 1) + (k + 1) <= v * (k + 1)
    OBVIOUS
  <2>2. PICK d \in Nat : v = u + 1 + d
    <3>1. v - u - 1 \in Nat /\ v = u + 1 + (v - u - 1)
      BY <2>1
    <3> QED BY <3>1
  <2>3. v * (k + 1) = u * (k + 1) + (k + 1) + d * (k + 1)
    BY <1>2, <2>2
  <2>4. d * (k + 1) \in Nat /\ u * (k + 1) \in Nat
    BY <1>2
  <2> QED BY <1>2, <2>3, <2>4
<1>4. PICK x, y : x = p * (k + 1) /\ y = q * (k + 1)
  OBVIOUS
<1>5. /\ x \in Nat /\ y \in Nat /\ (x + (k + 1) <= y \/ y + (k + 1) <= x)
  BY <1>2, <1>3, <1>4
<1>6. /\ KernelStackBottom(p) = TRAMPOLINE - x - k
      /\ KernelStackBottom(q) = TRAMPOLINE - y - k
  BY <1>1, <1>4 DEF KernelStackTop, KernelStackBottom
<1> QED BY <1>1, <1>2, <1>5, <1>6

(* Every area of the kernel space is the stack of a task.                   *)
KernelStacks(ks, tk) ==
    \A k \in DOMAIN ks.areas : \E u \in Pids :
        /\ tk[u] # "none" /\ ks.areas[k].start = KernelStackBottom(u)
        /\ ks.areas[k].pages = KERNEL_STACK_PAGES

StackOf(p) == Area(KernelStackBottom(p), KERNEL_STACK_PAGES, {"R", "W"})

(* There is room for the stack of a new task.                               *)
LEMMA KernelStackFits ==
  ASSUME NEW ks, NEW tk, KernelStacks(ks, tk), NEW p \in Pids, tk[p] = "none"
  PROVE  /\ Fits(ks.areas, StackOf(p)) /\ StackOf(p).start = KernelStackBottom(p)
         /\ StackOf(p).pages = KERNEL_STACK_PAGES /\ KERNEL_STACK_PAGES \in Nat
<1>1. PICK s, k, area : s = KernelStackBottom(p) /\ k = KERNEL_STACK_PAGES /\ area = StackOf(p)
  OBVIOUS
<1>2. s \in Nat /\ k \in Nat /\ s + k <= TRAMPOLINE
  BY <1>1, StackFacts
<1>3. area \in AreaSet /\ area.frames = <<>> /\ area.start = s /\ area.pages = k
  <2>1. {"R", "W"} \in SUBSET {"R", "W", "X", "U"}
    OBVIOUS
  <2> QED BY <1>1, <1>2, <2>1, NewAreaFacts DEF StackOf
<1>4. ASSUME NEW h \in DOMAIN ks.areas PROVE Apart(ks.areas[h], area)
  <2>1. PICK u \in Pids : /\ tk[u] # "none" /\ ks.areas[h].start = KernelStackBottom(u)
                          /\ ks.areas[h].pages = k
    BY <1>1 DEF KernelStacks
  <2>2. u # p
    BY <2>1
  <2>3. PICK r \in Nat : r = KernelStackBottom(u)
    BY StackFacts
  <2>4. r + k < s \/ s + k < r
    BY <1>1, <2>2, <2>3, StacksApart
  <2>5. r + k <= s \/ s + k <= r
    BY <1>2, <2>4
  <2> QED BY <1>3, <2>1, <2>3, <2>5, Zenon DEF Apart
<1> QED BY <1>1, <1>2, <1>3, <1>4, Zenon DEF Fits

-----------------------------------------------------------------------------
(* The frames that are handed out are divided among the kernel and tasks.   *)
Divided(ks, ms, H) ==
    /\ OwnedOnce(ks) /\ \A t \in Pids : OwnedOnce(ms[t])
    /\ \A t \in Pids : Owned(ks) \cap Owned(ms[t]) = {}
    /\ \A t, u \in Pids : t # u => Owned(ms[t]) \cap Owned(ms[u]) = {}
    /\ H = Owned(ks) \cup UNION {Owned(ms[t]) : t \in Pids}

(* The machine M holds the kernel space ks and the tasks' spaces ms.        *)
Sound(M, ks, ms) ==
    /\ Running(M) /\ ks \in Spaces /\ ms \in [Pids -> Spaces]
    /\ Divided(ks, ms, Held(M)) /\ Whole(InSpace(M, ks))

(* The tasks S can run.                                                     *)
Live(M, ms, cx, S) == \A u \in S : Usable(M, ms[u], cx[u], u)

(* A task's space is replaced.                                              *)
LEMMA DividedUser ==
  ASSUME NEW ks, NEW ms, NEW H, Divided(ks, ms, H), NEW t \in Pids,
         NEW sp, OwnedOnce(sp), NEW ms2, ms2[t] = sp, \A u \in Pids : u # t => ms2[u] = ms[u],
         Owned(sp) \cap (H \ Owned(ms[t])) = {},
         NEW H2, H2 = (H \ Owned(ms[t])) \cup Owned(sp)
  PROVE  Divided(ks, ms2, H2)
<1>1. /\ OwnedOnce(ks) /\ \A u \in Pids : OwnedOnce(ms[u])
      /\ \A u \in Pids : Owned(ks) \cap Owned(ms[u]) = {}
      /\ \A u, v \in Pids : u # v => Owned(ms[u]) \cap Owned(ms[v]) = {}
      /\ H = Owned(ks) \cup UNION {Owned(ms[u]) : u \in Pids}
  BY DEF Divided
<1>2. \A u \in Pids : u # t => Owned(ms2[u]) = Owned(ms[u]) /\ Owned(ms[u]) \subseteq H \ Owned(ms[t])
  BY <1>1
<1>3. Owned(ms2[t]) = Owned(sp) /\ Owned(ks) \subseteq H \ Owned(ms[t])
  BY <1>1
<1>4. \A u \in Pids : OwnedOnce(ms2[u])
  BY <1>1
<1>5. \A u \in Pids : Owned(ks) \cap Owned(ms2[u]) = {}
  BY <1>1, <1>2, <1>3
<1>6. ASSUME NEW u \in Pids, NEW v \in Pids, u # v
      PROVE  Owned(ms2[u]) \cap Owned(ms2[v]) = {}
  <2>1. CASE u = t
    BY <1>2, <1>3, <1>6, <2>1
  <2>2. CASE v = t
    BY <1>2, <1>3, <1>6, <2>2
  <2>3. CASE u # t /\ v # t
    BY <1>1, <1>2, <1>6, <2>3
  <2> QED BY <2>1, <2>2, <2>3
<1>7. H2 = Owned(ks) \cup UNION {Owned(ms2[u]) : u \in Pids}
  <2>1. ASSUME NEW x \in H2
        PROVE  x \in Owned(ks) \/ \E u \in Pids : x \in Owned(ms2[u])
    <3>1. CASE x \in Owned(sp)
      BY <1>3, <3>1
    <3>2. CASE x \in H /\ x \notin Owned(ms[t])
      <4>1. x \in Owned(ks) \/ \E u \in Pids : x \in Owned(ms[u])
        BY <1>1, <3>2
      <4> QED BY <1>2, <3>2, <4>1
    <3> QED BY <2>1, <3>1, <3>2
  <2>2. Owned(ks) \subseteq H2
    BY <1>3
  <2>3. ASSUME NEW u \in Pids
        PROVE  Owned(ms2[u]) \subseteq H2
    BY <1>2, <1>3
  <2> QED BY <2>1, <2>2, <2>3
<1> QED BY <1>1, <1>4, <1>5, <1>6, <1>7 DEF Divided

(* The kernel's space is replaced.                                          *)
LEMMA DividedKernel ==
  ASSUME NEW ks, NEW ms, NEW H, Divided(ks, ms, H), NEW sp, OwnedOnce(sp),
         Owned(sp) \cap (H \ Owned(ks)) = {}, NEW H2, H2 = (H \ Owned(ks)) \cup Owned(sp)
  PROVE  Divided(sp, ms, H2)
<1>1. /\ OwnedOnce(ks) /\ \A u \in Pids : OwnedOnce(ms[u])
      /\ \A u \in Pids : Owned(ks) \cap Owned(ms[u]) = {}
      /\ \A u, v \in Pids : u # v => Owned(ms[u]) \cap Owned(ms[v]) = {}
      /\ H = Owned(ks) \cup UNION {Owned(ms[u]) : u \in Pids}
  BY DEF Divided
<1>2. H \ Owned(ks) = UNION {Owned(ms[u]) : u \in Pids}
  BY <1>1
<1>3. \A u \in Pids : Owned(sp) \cap Owned(ms[u]) = {}
  BY <1>2
<1> QED BY <1>1, <1>2, <1>3 DEF Divided

(* The frames of a task.                                                    *)
LEMMA SoundFacts ==
  ASSUME NEW M, NEW ks, NEW ms, Sound(M, ks, ms)
  PROVE  /\ Running(M) /\ ks \in Spaces /\ Owned(ks) \subseteq Held(M) /\ OwnedOnce(ks)
         /\ Held(M) \subseteq Frames
         /\ \A t \in Pids : /\ ms[t] \in Spaces /\ OwnedOnce(ms[t]) /\ Owned(ms[t]) \subseteq Held(M)
                            /\ Owned(ks) \cap Owned(ms[t]) = {}
         /\ \A t, u \in Pids : t # u => Owned(ms[t]) \cap Owned(ms[u]) = {}
<1>1. Running(M) /\ Divided(ks, ms, Held(M)) /\ ks \in Spaces /\ ms \in [Pids -> Spaces]
  BY DEF Sound
<1>2. Held(M) \subseteq Frames
  <2>1. Ready(InSpace(M, ks))
    BY DEF Sound, Whole
  <2>2. Held(InSpace(M, ks)) = Held(M)
    BY <1>1, InSpaceFacts
  <2> QED BY <2>1, <2>2, ReadyFacts
<1> QED BY <1>1, <1>2 DEF Divided

(* The nodes of a space are its own.                                        *)
LEMMA NodesOwned ==
  ASSUME NEW sp \in Spaces
  PROVE  Range(sp.nodes) \subseteq Owned(sp)
<1>1. sp.nodes \in Seq(Frames) /\ sp.areas \in Seq(AreaSet) /\ SpaceOf(sp) = sp
  BY SpaceFacts
<1>2. Range(sp.nodes) \subseteq Owned(SpaceOf(sp))
  BY <1>1, ColumnFacts
<1> QED BY <1>1, <1>2

(* Tasks whose frames are unchanged still run.                              *)
LEMMA LiveFrame ==
  ASSUME NEW M, Running(M), NEW ms \in [Pids -> Spaces], NEW cx, NEW S \in SUBSET Pids,
         Live(M, ms, cx, S), NEW N, Running(N), NEW ms2, NEW cx2,
         \A u \in S : ms2[u] = ms[u] /\ cx2[u] = cx[u],
         \A u \in S : Owned(ms[u]) \subseteq Held(N),
         \A u \in S : \A x \in Owned(ms[u]) : N.mem[x] = M.mem[x]
  PROVE  Live(N, ms2, cx2, S)
<1>1. SUFFICES ASSUME NEW u \in S
               PROVE  Usable(N, ms2[u], cx2[u], u)
  BY DEF Live
<1>2. PICK sp \in Spaces : sp = ms[u]
  OBVIOUS
<1>3. PICK c : c = cx[u]
  OBVIOUS
<1>4. Usable(M, sp, c, u)
  BY <1>2, <1>3 DEF Live
<1>5. c \in Owned(sp)
  <2>1. Whole(InSpace(M, sp)) /\ ContextAt(sp, c)
    BY <1>4 DEF Usable, HasContext
  <2> QED BY <2>1, ContextFrame
<1>6. \A x \in Owned(sp) : N.mem[x] = M.mem[x]
  BY <1>2
<1>7. /\ \A x \in Range(sp.nodes) : N.mem[x] = M.mem[x]
      /\ N.mem[c][0] = M.mem[c][0] /\ Owned(sp) \subseteq Held(N)
  BY <1>2, <1>5, <1>6, NodesOwned
<1>8. Usable(N, sp, c, u)
  BY <1>4, <1>7, UsableFrame
<1> QED BY <1>2, <1>3, <1>8

(* The kernel space too.                                                    *)
LEMMA KernelFrame ==
  ASSUME NEW M, Running(M), NEW ks \in Spaces, Whole(InSpace(M, ks)), NEW N, Running(N),
         Owned(ks) \subseteq Held(N), \A x \in Owned(ks) : x \in Range(ks.nodes) => N.mem[x] = M.mem[x]
  PROVE  Whole(InSpace(N, ks))
<1>1. PICK c : c = InSpace(M, ks)
  OBVIOUS
<1>2. Whole(c) /\ ks = SpaceOf(c) /\ c.nodes = ks.nodes /\ c.mem = M.mem
  BY <1>1, InSpaceFacts
<1>3. \A x \in Range(c.nodes) : N.mem[x] = c.mem[x]
  BY <1>2, NodesOwned
<1> QED BY <1>2, <1>3, WholeFrame

-----------------------------------------------------------------------------
(* The steps of an operation, for all spaces at once.  A page of task t is  *)
(* written, or nothing is.                                                  *)
LEMMA WriteSound ==
  ASSUME NEW M, NEW ks, NEW ms, Sound(M, ks, ms), NEW t \in Pids, NEW y \in DataFrames(ms[t]),
         NEW N, Running(N), Held(N) = Held(M), \A x \in Frames : x # y => N.mem[x] = M.mem[x]
  PROVE  /\ Sound(N, ks, ms) /\ y \in Held(M)
         /\ \A cx : \A S \in SUBSET Pids :
              t \notin S /\ Live(M, ms, cx, S) => Live(N, ms, cx, S)
         /\ Whole(InSpace(M, ms[t])) => Whole(InSpace(N, ms[t]))
<1>1. /\ Running(M) /\ ks \in Spaces /\ Owned(ks) \subseteq Held(M) /\ OwnedOnce(ks)
      /\ Held(M) \subseteq Frames
      /\ \A u \in Pids : /\ ms[u] \in Spaces /\ OwnedOnce(ms[u]) /\ Owned(ms[u]) \subseteq Held(M)
                         /\ Owned(ks) \cap Owned(ms[u]) = {}
      /\ \A u, v \in Pids : u # v => Owned(ms[u]) \cap Owned(ms[v]) = {}
  BY SoundFacts
<1>2. ms \in [Pids -> Spaces] /\ Divided(ks, ms, Held(M)) /\ Whole(InSpace(M, ks))
  BY DEF Sound
<1>3. y \in Owned(ms[t]) /\ y \notin Range(ms[t].nodes)
  BY <1>1, OwnedFacts
<1>4. Sound(N, ks, ms)
  <2>1. \A x \in Owned(ks) : x \in Range(ks.nodes) => N.mem[x] = M.mem[x]
    BY <1>1, <1>3
  <2>2. Whole(InSpace(N, ks))
    BY <1>1, <1>2, <2>1, KernelFrame
  <2> QED BY <1>1, <1>2, <2>2 DEF Sound
<1>5. ASSUME NEW cx, NEW S \in SUBSET Pids, t \notin S, Live(M, ms, cx, S)
      PROVE  Live(N, ms, cx, S)
  <2>1. \A u \in S : u \in Pids /\ u # t
    BY <1>5
  <2>2. /\ \A u \in S : Owned(ms[u]) \subseteq Held(N)
        /\ \A u \in S : \A x \in Owned(ms[u]) : N.mem[x] = M.mem[x]
        /\ \A u \in S : ms[u] = ms[u] /\ cx[u] = cx[u]
    BY <1>1, <1>3, <2>1
  <2> QED BY <1>1, <1>2, <1>5, <2>2, LiveFrame
<1>6. ASSUME Whole(InSpace(M, ms[t]))
      PROVE  Whole(InSpace(N, ms[t]))
  <2>1. \A x \in Owned(ms[t]) : x \in Range(ms[t].nodes) => N.mem[x] = M.mem[x]
    BY <1>1, <1>3
  <2> QED BY <1>1, <1>6, <2>1, KernelFrame
<1> QED BY <1>1, <1>3, <1>4, <1>5, <1>6

(* The kernel gets or gives back a stack.                                   *)
LEMMA KernelSound ==
  ASSUME NEW M, NEW ks, NEW ms, Sound(M, ks, ms), NEW k, k = InSpace(M, ks),
         NEW f, Whole(f), Beside(k, f), NEW N, Running(N), N.mem = f.mem, Held(N) = Held(f)
  PROVE  /\ Sound(N, SpaceOf(f), ms)
         /\ \A cx : \A S \in SUBSET Pids : Live(M, ms, cx, S) => Live(N, ms, cx, S)
         /\ \A t \in Pids : \A x \in Owned(ms[t]) : N.mem[x] = M.mem[x]
<1>1. /\ Running(M) /\ ks \in Spaces /\ Owned(ks) \subseteq Held(M) /\ OwnedOnce(ks)
      /\ \A u \in Pids : /\ ms[u] \in Spaces /\ OwnedOnce(ms[u]) /\ Owned(ms[u]) \subseteq Held(M)
                         /\ Owned(ks) \cap Owned(ms[u]) = {}
  BY SoundFacts
<1>2. ms \in [Pids -> Spaces] /\ Divided(ks, ms, Held(M))
  BY DEF Sound
<1>3. Others(k) = Held(M) \ Owned(ks) /\ k.mem = M.mem
  BY <1>1, InSpaceFacts
<1>4. Others(f) = Held(M) \ Owned(ks) /\ \A x \in Others(f) : f.mem[x] = M.mem[x]
  BY <1>3 DEF Beside
<1>5. PICK sp : sp = SpaceOf(f)
  OBVIOUS
<1>6. /\ Running(f) /\ sp \in Spaces /\ OwnedOnce(sp) /\ Owned(sp) \subseteq Held(f)
      /\ Others(f) = Held(f) \ Owned(sp)
  BY <1>5, SpaceOfFacts DEF Whole, Ready, Others
<1>7. Divided(sp, ms, Held(N))
  <2>1. /\ Owned(sp) \cap (Held(M) \ Owned(ks)) = {}
        /\ Held(N) = (Held(M) \ Owned(ks)) \cup Owned(sp)
    BY <1>4, <1>6
  <2> QED BY <1>2, <1>6, <2>1, DividedKernel
<1>8. Whole(InSpace(N, sp))
  <2>1. /\ \A x \in Range(f.nodes) : N.mem[x] = f.mem[x]
        /\ Owned(sp) \subseteq Held(N)
    BY <1>6
  <2> QED BY <1>5, <2>1, WholeFrame
<1>9. Sound(N, sp, ms)
  BY <1>2, <1>6, <1>7, <1>8 DEF Sound
<1>10. ASSUME NEW t \in Pids
       PROVE  Owned(ms[t]) \subseteq Held(N) /\ \A x \in Owned(ms[t]) : N.mem[x] = M.mem[x]
  BY <1>1, <1>4, <1>6
<1>11. ASSUME NEW cx, NEW S \in SUBSET Pids, Live(M, ms, cx, S)
       PROVE  Live(N, ms, cx, S)
  <2>1. /\ \A u \in S : Owned(ms[u]) \subseteq Held(N)
        /\ \A u \in S : \A x \in Owned(ms[u]) : N.mem[x] = M.mem[x]
        /\ \A u \in S : ms[u] = ms[u] /\ cx[u] = cx[u]
    BY <1>10
  <2> QED BY <1>1, <1>2, <1>11, <2>1, LiveFrame
<1> QED BY <1>5, <1>9, <1>10, <1>11

(* Task t gets a new space, and the old one was dropped.                    *)
LEMMA AdoptSound ==
  ASSUME NEW M, NEW ks, NEW ms, Sound(M, ks, ms), NEW t \in Pids, NEW f, Fresh(M, f),
         NEW N, Running(N), Held(N) = Held(f) \ Owned(ms[t]), N.mem = f.mem,
         NEW ms2 \in [Pids -> Spaces], ms2[t] = SpaceOf(f), \A u \in Pids : u # t => ms2[u] = ms[u]
  PROVE  /\ Sound(N, ks, ms2) /\ Whole(InSpace(N, SpaceOf(f)))
         /\ \A cx, cx2 : \A S \in SUBSET Pids :
              /\ t \notin S /\ Live(M, ms, cx, S)
              /\ \A u \in S : cx2[u] = cx[u]
              => Live(N, ms2, cx2, S)
<1>1. /\ Running(M) /\ ks \in Spaces /\ Owned(ks) \subseteq Held(M) /\ OwnedOnce(ks)
      /\ \A u \in Pids : /\ ms[u] \in Spaces /\ OwnedOnce(ms[u]) /\ Owned(ms[u]) \subseteq Held(M)
                         /\ Owned(ks) \cap Owned(ms[u]) = {}
      /\ \A u, v \in Pids : u # v => Owned(ms[u]) \cap Owned(ms[v]) = {}
  BY SoundFacts
<1>2. ms \in [Pids -> Spaces] /\ Divided(ks, ms, Held(M)) /\ Whole(InSpace(M, ks))
  BY DEF Sound
<1>3. PICK sp : sp = SpaceOf(f)
  OBVIOUS
<1>4. /\ Whole(f) /\ Held(f) \ Owned(sp) = Held(M) /\ \A x \in Held(M) : f.mem[x] = M.mem[x]
  BY <1>3 DEF Fresh, Others
<1>5. Running(f) /\ sp \in Spaces /\ OwnedOnce(sp) /\ Owned(sp) \subseteq Held(f)
  BY <1>3, <1>4, SpaceOfFacts DEF Whole, Ready
<1>6. Divided(ks, ms2, Held(N))
  <2>1. /\ Owned(sp) \cap (Held(M) \ Owned(ms[t])) = {}
        /\ Held(N) = (Held(M) \ Owned(ms[t])) \cup Owned(sp)
    BY <1>1, <1>4, <1>5
  <2> QED BY <1>2, <1>3, <1>5, <2>1, DividedUser
<1>7. Whole(InSpace(N, ks))
  <2>1. /\ Owned(ks) \subseteq Held(N)
        /\ \A x \in Owned(ks) : x \in Range(ks.nodes) => N.mem[x] = M.mem[x]
    BY <1>1, <1>4
  <2> QED BY <1>1, <1>2, <2>1, KernelFrame
<1>8. Whole(InSpace(N, sp))
  <2>1. /\ \A x \in Range(f.nodes) : N.mem[x] = f.mem[x]
        /\ Owned(sp) \subseteq Held(N)
    BY <1>1, <1>4, <1>5
  <2> QED BY <1>3, <1>4, <2>1, WholeFrame
<1>9. Sound(N, ks, ms2)
  BY <1>1, <1>6, <1>7 DEF Sound
<1>10. ASSUME NEW cx, NEW cx2, NEW S \in SUBSET Pids, t \notin S, Live(M, ms, cx, S),
              \A u \in S : cx2[u] = cx[u]
       PROVE  Live(N, ms2, cx2, S)
  <2>1. \A u \in S : u \in Pids /\ u # t
    BY <1>10
  <2>2. /\ \A u \in S : Owned(ms[u]) \subseteq Held(N)
        /\ \A u \in S : \A x \in Owned(ms[u]) : N.mem[x] = M.mem[x]
        /\ \A u \in S : ms2[u] = ms[u] /\ cx2[u] = cx[u]
    BY <1>1, <1>4, <1>10, <2>1
  <2> QED BY <1>1, <1>2, <1>10, <2>2, LiveFrame
<1> QED BY <1>3, <1>8, <1>9, <1>10

(* Task t gives frames back and keeps the space sp.                         *)
LEMMA FreeSound ==
  ASSUME NEW M, NEW ks, NEW ms, Sound(M, ks, ms), NEW t \in Pids,
         NEW sp, OwnedOnce(sp), Owned(sp) \subseteq Owned(ms[t]),
         NEW N, Running(N), Held(N) = Held(M) \ (Owned(ms[t]) \ Owned(sp)), N.mem = M.mem,
         NEW ms2 \in [Pids -> Spaces], ms2[t] = sp, \A u \in Pids : u # t => ms2[u] = ms[u]
  PROVE  /\ Sound(N, ks, ms2)
         /\ \A cx, cx2 : \A S \in SUBSET Pids :
              /\ t \notin S /\ Live(M, ms, cx, S)
              /\ \A u \in S : cx2[u] = cx[u]
              => Live(N, ms2, cx2, S)
<1>1. /\ Running(M) /\ ks \in Spaces /\ Owned(ks) \subseteq Held(M) /\ OwnedOnce(ks)
      /\ \A u \in Pids : /\ ms[u] \in Spaces /\ OwnedOnce(ms[u]) /\ Owned(ms[u]) \subseteq Held(M)
                         /\ Owned(ks) \cap Owned(ms[u]) = {}
      /\ \A u, v \in Pids : u # v => Owned(ms[u]) \cap Owned(ms[v]) = {}
  BY SoundFacts
<1>2. ms \in [Pids -> Spaces] /\ Divided(ks, ms, Held(M)) /\ Whole(InSpace(M, ks))
  BY DEF Sound
<1>3. Divided(ks, ms2, Held(N))
  <2>1. /\ Owned(sp) \cap (Held(M) \ Owned(ms[t])) = {}
        /\ Held(N) = (Held(M) \ Owned(ms[t])) \cup Owned(sp)
    BY <1>1
  <2> QED BY <1>2, <2>1, DividedUser
<1>4. Whole(InSpace(N, ks))
  <2>1. /\ Owned(ks) \subseteq Held(N)
        /\ \A x \in Owned(ks) : x \in Range(ks.nodes) => N.mem[x] = M.mem[x]
    BY <1>1
  <2> QED BY <1>1, <1>2, <2>1, KernelFrame
<1>5. Sound(N, ks, ms2)
  BY <1>1, <1>3, <1>4 DEF Sound
<1>6. ASSUME NEW cx, NEW cx2, NEW S \in SUBSET Pids, t \notin S, Live(M, ms, cx, S),
             \A u \in S : cx2[u] = cx[u]
      PROVE  Live(N, ms2, cx2, S)
  <2>1. \A u \in S : u \in Pids /\ u # t
    BY <1>6
  <2>2. /\ \A u \in S : Owned(ms[u]) \subseteq Held(N)
        /\ \A u \in S : \A x \in Owned(ms[u]) : N.mem[x] = M.mem[x]
        /\ \A u \in S : ms2[u] = ms[u] /\ cx2[u] = cx[u]
    BY <1>1, <1>6, <2>1
  <2> QED BY <1>1, <1>2, <1>6, <2>2, LiveFrame
<1> QED BY <1>5, <1>6

-----------------------------------------------------------------------------
(* The variables after an operation, as a machine.                          *)
LEMMA MachineIs ==
  ASSUME NEW b, Running(b), NEW m \in [Frames -> Page],
         NEW N, N = Machine(m, b.current, b.recycled)
  PROVE  Running(N) /\ N.mem = m /\ Held(N) = Held(b)
<1>1. /\ b.current \in MemoryStart .. MemoryEnd /\ b.recycled \in Seq(Frames)
  BY MachineFacts
<1>2. MemoryStart \in Nat /\ <<>> \in Seq(Frames) /\ <<>> \in Seq(AreaSet)
  BY MemoryAssumption
<1>3. /\ N \in Machines /\ N.mem = m /\ N.current = b.current /\ N.recycled = b.recycled
      /\ N.panic = "none"
  BY <1>1, <1>2 DEF Machine, Machines
<1> QED BY <1>3 DEF Running, Held

(* A stuck machine stays stuck.                                             *)
LEMMA StuckInSpace ==
  ASSUME NEW b, Stuck(b), NEW sp
  PROVE  Stuck(InSpace(b, sp))
BY DEF Stuck, InSpace, Fields

(* It drops nothing either.                                                 *)
LEMMA StuckDropped ==
  ASSUME NEW b, Stuck(b), NEW frames \in Seq(Frames)
  PROVE  Stuck(Dropped(b, frames))
<1>1. PICK n \in Nat : n = Len(frames)
  OBVIOUS
<1>2. PICK r : DroppedRun(b, frames, n, r)
  BY <1>1, DroppedLoop, Zenon
<1>3. /\ Dropped(b, frames) = r[n] /\ r[0] = b
      /\ \A k \in 1 .. n : r[k] = FrameDealloc(r[k - 1], frames[k])
  BY <1>2 DEF DroppedRun
<1>4. PICK S : S = {k \in 0 .. n : Stuck(r[k])}
  OBVIOUS
<1>5. 0 \in S
  BY <1>3, <1>4
<1>6. ASSUME NEW k \in 1 .. n, k - 1 \in S PROVE k \in S
  <2>1. r[k] = FrameDealloc(r[k - 1], frames[k]) /\ Stuck(r[k - 1]) /\ k \in 0 .. n
    BY <1>3, <1>4, <1>6
  <2>2. r[k] = r[k - 1]
    BY <2>1 DEF FrameDealloc, Stuck
  <2> QED BY <1>4, <2>1, <2>2
<1>7. n \in S
  BY <1>1, <1>5, <1>6, Climb
<1> QED BY <1>3, <1>4, <1>7

(* Nor does the drop of a space.                                            *)
LEMMA StuckDropSpace ==
  ASSUME NEW b, Stuck(b), NEW sp \in Spaces
  PROVE  Stuck(DropSpace(b, sp))
<1>1. sp.nodes \in Seq(Frames) /\ sp.areas \in Seq(AreaSet)
  BY SpaceFacts
<1>2. PICK c : c = Dropped(b, sp.nodes)
  OBVIOUS
<1>3. Stuck(c)
  BY <1>1, <1>2, StuckDropped
<1>4. PICK n \in Nat : n = Len(sp.areas) /\ DOMAIN sp.areas = 1 .. n
  BY <1>1
<1>5. PICK r : RecycleDataPagesRun(c, sp, n, r)
  BY <1>4, RecycleDataPagesLoop, Zenon
<1>6. /\ RecycleDataPages(c, sp) = r[n] /\ r[0] = c
      /\ \A k \in 1 .. n : r[k] = Dropped(r[k - 1], sp.areas[k].frames)
  BY <1>5 DEF RecycleDataPagesRun
<1>7. PICK S : S = {k \in 0 .. n : Stuck(r[k])}
  OBVIOUS
<1>8. 0 \in S
  BY <1>3, <1>6, <1>7
<1>9. ASSUME NEW k \in 1 .. n, k - 1 \in S PROVE k \in S
  <2>1. r[k] = Dropped(r[k - 1], sp.areas[k].frames) /\ Stuck(r[k - 1]) /\ k \in 0 .. n
    BY <1>6, <1>7, <1>9
  <2>2. sp.areas[k].frames \in Seq(Frames)
    BY <1>1, <1>4, AreaFacts
  <2>3. Stuck(r[k])
    BY <2>1, <2>2, StuckDropped
  <2> QED BY <1>7, <2>1, <2>3
<1>10. n \in S
  BY <1>4, <1>8, <1>9, Climb
<1>11. DropSpace(b, sp) = r[n]
  BY <1>2, <1>6 DEF DropSpace
<1> QED BY <1>7, <1>10, <1>11

(* The trap context of a new space is where its table maps it.              *)
LEMMA NewContext ==
  ASSUME NEW f, Whole(f), NEW x, ContextAt(SpaceOf(f), x)
  PROVE  /\ TrapContextOf(f) = x /\ x \in DataFrames(SpaceOf(f)) /\ x \in Frames
         /\ x \in Owned(SpaceOf(f)) /\ SpaceOf(f) \in Spaces
<1>1. PICK sp : sp = SpaceOf(f)
  OBVIOUS
<1>2. Running(f) /\ Owned(sp) \subseteq Held(f)
  BY <1>1 DEF Whole, Ready
<1>3. sp \in Spaces /\ sp.nodes = f.nodes
  BY <1>1, <1>2, SpaceOfFacts
<1>4. Whole(InSpace(f, sp))
  BY <1>1, <1>2, WholeFrame
<1>5. /\ x \in DataFrames(sp) /\ x \in Frames /\ x \in Owned(sp)
      /\ Translate(f.mem, Head(sp.nodes), TRAP_CONTEXT).ppn = x
  BY <1>1, <1>2, <1>3, <1>4, ContextFrame
<1> QED BY <1>1, <1>3, <1>5, Zenon DEF TrapContextOf

(* The trap context of a copy and of an image.                              *)
LEMMA CopyContext ==
  ASSUME NEW s, Whole(s), NEW f, Whole(f), CopyImage(s, f), NEW sp, sp.areas = s.areas,
         NEW y, ContextAt(sp, y)
  PROVE  \E x : ContextAt(SpaceOf(f), x) /\ f.mem[x] = s.mem[y]
<1>1. PICK n \in Nat : n = Len(s.areas)
  BY WholeFacts
<1>2. /\ n > 0 /\ s.areas[n].start = TRAP_CONTEXT /\ s.areas[n].pages = 1
      /\ "U" \notin s.areas[n].perm /\ y = s.areas[n].frames[1]
  BY <1>1 DEF ContextAt
<1>3. n \in 1 .. n
  BY <1>2
<1>4. Len(f.areas) = n /\ IsCopy(s, f, n)
  BY <1>1, <1>3 DEF CopyImage
<1>5. /\ f.areas[n].start = TRAP_CONTEXT /\ f.areas[n].pages = 1
      /\ "U" \notin f.areas[n].perm /\ f.mem[f.areas[n].frames[1]] = s.mem[y]
  BY <1>2, <1>4 DEF IsCopy
<1>6. SpaceOf(f).areas = f.areas
  BY DEF SpaceOf
<1> QED BY <1>2, <1>4, <1>5, <1>6 DEF ContextAt

(* The same for an image.                                                   *)
LEMMA ElfContext ==
  ASSUME NEW program \in Programs, NEW f, ElfImage(program, f)
  PROVE  \E x : ContextAt(SpaceOf(f), x)
<1>1. PICK n \in Nat : n = Len(program)
  BY ProgramFacts
<1>2. /\ Len(f.areas) = n + 2
      /\ f.areas[n + 2].start = TRAP_CONTEXT /\ f.areas[n + 2].pages = 1
      /\ f.areas[n + 2].perm = {"R", "W"}
  BY <1>1 DEF ElfImage
<1>3. SpaceOf(f).areas = f.areas
  BY DEF SpaceOf
<1>4. PICK k \in Nat : k = n + 2 /\ k > 0
  BY <1>1
<1>5. /\ Len(SpaceOf(f).areas) = k /\ SpaceOf(f).areas[k].start = TRAP_CONTEXT
      /\ SpaceOf(f).areas[k].pages = 1 /\ "U" \notin SpaceOf(f).areas[k].perm
  BY <1>2, <1>3, <1>4
<1> QED BY <1>4, <1>5 DEF ContextAt

(* A stack more.                                                            *)
LEMMA StacksPushed ==
  ASSUME NEW ks, NEW tk, KernelStacks(ks, tk), NEW c \in Pids, NEW k, k.areas = ks.areas, Whole(k),
         NEW f, Added(k, StackOf(c), f), NEW tk2, tk2[c] # "none",
         \A u \in Pids : u # c => tk2[u] = tk[u]
  PROVE  KernelStacks(SpaceOf(f), tk2)
<1>1. PICK n \in Nat : n = Len(ks.areas) /\ DOMAIN ks.areas = 1 .. n
  BY WholeFacts
<1>2. StackOf(c).start = KernelStackBottom(c) /\ StackOf(c).pages = KERNEL_STACK_PAGES
  BY DEF StackOf, Area
<1>3. /\ Whole(f) /\ Len(f.areas) = n + 1
      /\ \A h \in 1 .. n : f.areas[h] = ks.areas[h]
      /\ f.areas[n + 1].start = KernelStackBottom(c)
      /\ f.areas[n + 1].pages = KERNEL_STACK_PAGES
  BY <1>1, <1>2 DEF Added
<1>4. DOMAIN f.areas = 1 .. n + 1 /\ SpaceOf(f).areas = f.areas
  BY <1>3, WholeFacts DEF SpaceOf
<1>5. ASSUME NEW h \in 1 .. n + 1
      PROVE  \E u \in Pids : /\ tk2[u] # "none" /\ f.areas[h].start = KernelStackBottom(u)
                             /\ f.areas[h].pages = KERNEL_STACK_PAGES
  <2>1. CASE h = n + 1
    BY <1>3, <2>1
  <2>2. CASE h \in 1 .. n
    <3>1. PICK u \in Pids : /\ tk[u] # "none" /\ ks.areas[h].start = KernelStackBottom(u)
                            /\ ks.areas[h].pages = KERNEL_STACK_PAGES
      BY <1>1, <2>2 DEF KernelStacks
    <3> QED BY <1>3, <2>2, <3>1
  <2> QED BY <2>1, <2>2
<1> QED BY <1>4, <1>5 DEF KernelStacks

(* The stack of task t is removed.                                          *)
LEMMA StacksRemoved ==
  ASSUME NEW ks, NEW tk, KernelStacks(ks, tk), NEW t \in Pids, NEW k, k.areas = ks.areas, Whole(k),
         NEW f, f = RemoveAreaWithStartVpn(k, KernelStackBottom(t)),
         NEW tk2, \A u \in Pids : u # t => tk2[u] = tk[u]
  PROVE  Whole(f) /\ Beside(k, f) /\ KernelStacks(SpaceOf(f), tk2)
<1>1. SpaceOf(f).areas = f.areas
  BY DEF SpaceOf
<1>2. \/ f = k /\ \A h \in DOMAIN k.areas : k.areas[h].start # KernelStackBottom(t)
      \/ \E n \in DOMAIN k.areas : k.areas[n].start = KernelStackBottom(t) /\ Removed(k, n, f)
  BY RemoveAreaFacts
<1>3. CASE f = k /\ \A h \in DOMAIN k.areas : k.areas[h].start # KernelStackBottom(t)
  <2>1. Beside(k, f)
    BY <1>3 DEF Beside
  <2>2. KernelStacks(SpaceOf(f), tk2)
    BY <1>1, <1>3 DEF KernelStacks
  <2> QED BY <1>3, <2>1, <2>2
<1>4. ASSUME NEW n \in DOMAIN k.areas, k.areas[n].start = KernelStackBottom(t), Removed(k, n, f)
      PROVE  Whole(f) /\ Beside(k, f) /\ KernelStacks(SpaceOf(f), tk2)
  <2>1. /\ Whole(f) /\ Beside(k, f)
        /\ \A h \in DOMAIN f.areas : \E l \in DOMAIN k.areas : l # n /\ f.areas[h] = k.areas[l]
    BY <1>4 DEF Removed
  <2>2. ASSUME NEW h \in DOMAIN f.areas
        PROVE  \E u \in Pids : /\ tk2[u] # "none" /\ f.areas[h].start = KernelStackBottom(u)
                               /\ f.areas[h].pages = KERNEL_STACK_PAGES
    <3>1. PICK l \in DOMAIN k.areas : l # n /\ f.areas[h] = k.areas[l]
      BY <2>1
    <3>2. PICK u \in Pids : /\ tk[u] # "none" /\ k.areas[l].start = KernelStackBottom(u)
                            /\ k.areas[l].pages = KERNEL_STACK_PAGES
      BY DEF KernelStacks
    <3>3. PICK w \in Pids : k.areas[n].pages = KERNEL_STACK_PAGES
      BY DEF KernelStacks
    <3>4. Apart(k.areas[l], k.areas[n])
      BY <3>1 DEF Whole, Placed
    <3>5. KernelStackBottom(t) \in Nat /\ KERNEL_STACK_PAGES \in Nat /\ KERNEL_STACK_PAGES > 0
      BY StackFacts
    <3>6. u # t
      BY <1>4, <3>2, <3>3, <3>4, <3>5 DEF Apart
    <3> QED BY <3>1, <3>2, <3>6
  <2> QED BY <1>1, <2>1, <2>2 DEF KernelStacks
<1> QED BY <1>2, <1>3, <1>4

-----------------------------------------------------------------------------
(* The frames of task u are as before.                                      *)
Same(M, N, sp) == \A x \in Owned(sp) : N.mem[x] = M.mem[x]

(* A word of a page is written.                                             *)
Word1(m, x, i, v) == [m EXCEPT ![x] = [@ EXCEPT ![i] = Data(v)]]

(* The page of that frame changes in that word.                             *)
LEMMA Word1Facts ==
  ASSUME NEW m \in [Frames -> Page], NEW x \in Frames, NEW i \in {0, 1}, NEW v \in Nat,
         NEW n, n = Word1(m, x, i, v)
  PROVE  /\ n \in [Frames -> Page] /\ n[x][i] = Data(v)
         /\ \A j \in {0, 1} : j # i => n[x][j] = m[x][j]
         /\ \A y \in Frames : y # x => n[y] = m[y]
<1>1. {0, 1} \subseteq 0 .. PTES - 1
  BY MemoryAssumption
<1>2. Data(v) \in Word
  BY DEF Data, Word
<1> QED BY <1>1, <1>2 DEF Word1, Page

(* The writes of fork to the two trap contexts.                             *)
ForkMemory(m, x, y, c) ==
    [m EXCEPT ![x][0] = Data(KernelStackTop(c)), ![x][1] = Data(0), ![y][1] = Data(c)]

(* They are three words.                                                    *)
LEMMA ForkMemoryFacts ==
  ASSUME NEW m \in [Frames -> Page], NEW x \in Frames, NEW y \in Frames, NEW c \in Pids
  PROVE  ForkMemory(m, x, y, c)
           = Word1(Word1(Word1(m, x, 0, KernelStackTop(c)), x, 1, 0), y, 1, c)
BY DEF ForkMemory, Word1

(* An entry of a table of tasks is replaced.                                *)
Put(f, a, v) == [f EXCEPT ![a] = v]

(* The others stay.                                                         *)
LEMMA PutFacts ==
  ASSUME NEW A, NEW B, NEW f \in [A -> B], NEW a \in A, NEW v \in B, NEW g, g = Put(f, a, v)
  PROVE  g \in [A -> B] /\ g[a] = v /\ \A d \in A : d # a => g[d] = f[d]
BY DEF Put

(* A task that is not there has no frames.                                  *)
LEMMA NoSpaceFacts ==
  NoSpace \in Spaces /\ Owned(NoSpace) = {} /\ OwnedOnce(NoSpace)
<1>1. /\ NoSpace.nodes = <<>> /\ NoSpace.areas = <<>> /\ Len(NoSpace.areas) = 0
      /\ <<>> \in Seq(Frames) /\ <<>> \in Seq(AreaSet)
  BY DEF NoSpace
<1>2. NoSpace \in Spaces
  BY <1>1 DEF NoSpace, Spaces, AreaSet
<1>3. \A k \in 0 .. Len(NoSpace.areas) : Column(NoSpace, k) = <<>>
  <2>1. \A k \in 0 .. 0 : k = 0
    OBVIOUS
  <2> QED BY <1>1, <2>1 DEF Column
<1>4. DOMAIN <<>> = {} /\ Range(<<>>) = {}
  BY DEF Range
<1> QED BY <1>2, <1>3, <1>4 DEF Owned, OwnedOnce

(* The outcome of fork: the space f of the child c is a copy of t's, its    *)
(* trap context is in frame x, and only the trap contexts were written.     *)
Forked(M, ms, cx, S, t, c, f, N, x) ==
    /\ \A u \in S : u # t => Same(M, N, ms[u])
    /\ \A z \in Owned(ms[t]) : z # cx[t] => N.mem[z] = M.mem[z]
    /\ N.mem[cx[t]][1] = Data(c)
    /\ Whole(f) /\ CopyImage(InSpace(M, ms[t]), f)
    /\ \A z \in Owned(SpaceOf(f)) : z # x => N.mem[z] = f.mem[z]
    /\ N.mem[x][1] = Data(0)

(* The child's space and kernel stack, before the trap contexts are         *)
(* written.                                                                 *)
Copying(M, ks, ms, S, t, c, f, b, ms2, x) ==
    /\ Whole(f) /\ CopyImage(InSpace(M, ms[t]), f) /\ ContextAt(SpaceOf(f), x)
    /\ TrapContextOf(f) = x /\ Running(b)
    /\ ms2 \in [Pids -> Spaces] /\ ms2[c] = SpaceOf(f) /\ \A u \in Pids : u # c => ms2[u] = ms[u]
    /\ Sound(b, SpaceOf(b), ms2) /\ Whole(InSpace(b, ms2[c]))
    /\ \A u \in S : Same(M, b, ms[u])
    /\ \A z \in Owned(SpaceOf(f)) : b.mem[z] = f.mem[z]
    /\ Whole(InSpace(f, ks)) /\ Added(InSpace(f, ks), StackOf(c), b)

(* fork, up to there.                                                       *)
LEMMA CopyingFacts ==
  ASSUME NEW M, NEW ks, NEW ms, NEW S \in SUBSET Pids, NEW t \in S, NEW c \in Pids, NEW tk,
         Sound(M, ks, ms), NEW y, Whole(InSpace(M, ms[t])), ContextAt(ms[t], y), c \notin S,
         ms[c] = NoSpace, KernelStacks(ks, tk), tk[c] = "none",
         NEW f, f = FromExistedUser(M, ms[t]), NEW b, b = KernelStackNew(InSpace(f, ks), c),
         NEW ms2, ms2 = Put(ms, c, SpaceOf(f))
  PROVE  \/ Stuck(b)
         \/ /\ \E x : Copying(M, ks, ms, S, t, c, f, b, ms2, x)
            /\ \A cx : Live(M, ms, cx, S) => Live(b, ms2, cx, S)
<1>1. /\ Running(M) /\ ks \in Spaces /\ Owned(ks) \subseteq Held(M) /\ OwnedOnce(ks)
      /\ \A u \in Pids : /\ ms[u] \in Spaces /\ OwnedOnce(ms[u]) /\ Owned(ms[u]) \subseteq Held(M)
                         /\ Owned(ks) \cap Owned(ms[u]) = {}
  BY SoundFacts
<1>2. ms \in [Pids -> Spaces] /\ Whole(InSpace(M, ks)) /\ t \in Pids
  BY DEF Sound
<1>3. PICK s : s = InSpace(M, ms[t])
  OBVIOUS
<1>4. /\ Whole(s) /\ s.mem = M.mem /\ s.nodes = ms[t].nodes /\ s.areas = ms[t].areas
      /\ SpaceOf(s) = ms[t]
  BY <1>1, <1>2, <1>3, InSpaceFacts
<1>5. Stuck(f) \/ (Fresh(M, f) /\ CopyImage(s, f))
  <2>1. Owned(SpaceOf(s)) \subseteq Held(M)
    BY <1>1, <1>2, <1>4
  <2> QED BY <1>1, <1>4, <2>1, FromExistedUserFacts
<1>6. PICK k : k = InSpace(f, ks)
  OBVIOUS
<1>7. b = Push(k, StackOf(c))
  BY <1>6 DEF KernelStackNew, StackOf
<1>8. /\ Fits(ks.areas, StackOf(c)) /\ StackOf(c).pages = KERNEL_STACK_PAGES
      /\ KERNEL_STACK_PAGES \in Nat
  BY KernelStackFits
<1>9. CASE Stuck(f)
  <2>1. Stuck(k)
    BY <1>6, <1>9, StuckInSpace
  <2> QED BY <1>7, <1>8, <2>1, StuckPush
<1>10. CASE Fresh(M, f) /\ CopyImage(s, f) /\ ~Stuck(b)
  <2>1. /\ Whole(f) /\ Running(f) /\ Owned(SpaceOf(f)) \subseteq Held(f)
        /\ \A z \in Held(M) : f.mem[z] = M.mem[z]
    BY <1>10 DEF Fresh, Whole, Ready
  <2>2. SpaceOf(f) \in Spaces
    BY <2>1, SpaceOfFacts
  <2>3. ms2 \in [Pids -> Spaces] /\ ms2[c] = SpaceOf(f) /\ \A u \in Pids : u # c => ms2[u] = ms[u]
    <3>1. PICK v \in Spaces : v = SpaceOf(f)
      BY <2>2
    <3>2. ms2 = Put(ms, c, v)
      BY <3>1
    <3>3. ms2 \in [Pids -> Spaces] /\ ms2[c] = v /\ \A u \in Pids : u # c => ms2[u] = ms[u]
      BY <1>2, <3>2, PutFacts
    <3> QED BY <3>1, <3>3
  <2>4. Held(f) = Held(f) \ Owned(ms[c])
    BY NoSpaceFacts
  <2>5. /\ Sound(f, ks, ms2) /\ Whole(InSpace(f, SpaceOf(f)))
        /\ \A cx, cx2 : \A U \in SUBSET Pids :
              /\ c \notin U /\ Live(M, ms, cx, U)
              /\ \A u \in U : cx2[u] = cx[u]
              => Live(f, ms2, cx2, U)
    BY <1>10, <2>1, <2>3, <2>4, AdoptSound
  <2>6. Whole(k) /\ k.areas = ks.areas
    <3>1. Whole(InSpace(f, ks))
      BY <2>5 DEF Sound
    <3>a. ks \in Spaces /\ Running(f)
      BY <1>1, <2>1
    <3>2. k.areas = ks.areas
      BY <1>6, <3>a, InSpaceFacts
    <3> QED BY <1>6, <3>1, <3>2
  <2>7. Added(k, StackOf(c), b)
    BY <1>7, <1>8, <1>10, <2>6, PushBlank
  <2>8. Whole(b) /\ Beside(k, b) /\ Running(b)
    BY <2>7 DEF Added, Whole, Ready
  <2>9. /\ Sound(b, SpaceOf(b), ms2)
        /\ \A cx : \A U \in SUBSET Pids : Live(f, ms2, cx, U) => Live(b, ms2, cx, U)
        /\ \A u \in Pids : \A z \in Owned(ms2[u]) : b.mem[z] = f.mem[z]
    BY <1>6, <2>5, <2>8, KernelSound
  <2>10. \A z \in Owned(SpaceOf(f)) : b.mem[z] = f.mem[z]
    BY <2>3, <2>9
  <2>11. Whole(InSpace(b, SpaceOf(f)))
    <3>1. Owned(ms2[c]) \subseteq Held(b)
      BY <2>9, SoundFacts
    <3>2. Owned(SpaceOf(f)) \subseteq Held(b)
      BY <2>3, <3>1, Zenon
    <3>3. \A z \in Owned(SpaceOf(f)) : z \in Range(SpaceOf(f).nodes) => b.mem[z] = f.mem[z]
      BY <2>10
    <3> QED BY <2>1, <2>2, <2>5, <2>8, <3>2, <3>3, KernelFrame
  <2>12. ASSUME NEW u \in S
         PROVE  Same(M, b, ms[u])
    <3>1. u \in Pids /\ u # c
      OBVIOUS
    <3>2. ms2[u] = ms[u] /\ Owned(ms[u]) \subseteq Held(M)
      BY <1>1, <2>3, <3>1
    <3> QED BY <2>1, <2>9, <3>1, <3>2 DEF Same
  <2>13. ASSUME NEW cx, Live(M, ms, cx, S)
         PROVE  Live(b, ms2, cx, S)
    <3>1. \A u \in S : cx[u] = cx[u]
      OBVIOUS
    <3>2. Live(f, ms2, cx, S)
      BY <2>5, <2>13, <3>1
    <3> QED BY <2>9, <3>2
  <2>14. PICK x : ContextAt(SpaceOf(f), x) /\ f.mem[x] = s.mem[y]
    BY <1>4, <1>10, <2>1, CopyContext
  <2>15. TrapContextOf(f) = x
    BY <2>1, <2>14, NewContext
  <2>16. Whole(InSpace(b, ms2[c]))
    BY <2>3, <2>11, Zenon
  <2>17. Copying(M, ks, ms, S, t, c, f, b, ms2, x)
    BY <1>3, <1>6, <1>10, <2>1, <2>3, <2>6, <2>7, <2>8, <2>9, <2>10, <2>12, <2>14, <2>15, <2>16 DEF Copying
  <2> QED BY <2>13, <2>17
<1> QED BY <1>5, <1>9, <1>10

(* One entry of a function is known, and the rest of it.                    *)
LEMMA LiveAdd ==
  ASSUME NEW N, NEW ms, NEW cx, NEW S, NEW t, Live(N, ms, cx, S \ {t}),
         Usable(N, ms[t], cx[t], t)
  PROVE  Live(N, ms, cx, S)
BY DEF Live

(* A trap context is written and still has the kernel stack of its task.    *)
LEMMA WriteContext ==
  ASSUME NEW M, NEW ks, NEW ms, Sound(M, ks, ms), NEW S \in SUBSET Pids, NEW t \in Pids,
         NEW cx, Live(M, ms, cx, S \ {t}), Whole(InSpace(M, ms[t])), ContextAt(ms[t], cx[t]),
         NEW N, Running(N), Held(N) = Held(M),
         \A x \in Frames : x # cx[t] => N.mem[x] = M.mem[x],
         N.mem[cx[t]][0] = Data(KernelStackTop(t))
  PROVE  /\ Sound(N, ks, ms) /\ Live(N, ms, cx, S) /\ Whole(InSpace(N, ms[t]))
         /\ \A u \in Pids : u # t => Same(M, N, ms[u])
<1>1. /\ Running(M) /\ Held(M) \subseteq Frames
      /\ \A u \in Pids : /\ ms[u] \in Spaces /\ OwnedOnce(ms[u]) /\ Owned(ms[u]) \subseteq Held(M)
      /\ \A u, v \in Pids : u # v => Owned(ms[u]) \cap Owned(ms[v]) = {}
  BY SoundFacts
<1>2. PICK y : y = cx[t]
  OBVIOUS
<1>3. y \in DataFrames(ms[t]) /\ y \in Owned(ms[t])
  BY <1>1, <1>2, ContextFrame
<1>4. /\ Sound(N, ks, ms)
      /\ \A dx : \A U \in SUBSET Pids : t \notin U /\ Live(M, ms, dx, U) => Live(N, ms, dx, U)
      /\ Whole(InSpace(M, ms[t])) => Whole(InSpace(N, ms[t]))
  BY <1>2, <1>3, WriteSound
<1>5. Live(N, ms, cx, S \ {t})
  BY <1>4
<1>6. Usable(N, ms[t], cx[t], t)
  BY <1>4 DEF Usable, HasContext
<1>7. Live(N, ms, cx, S)
  BY <1>5, <1>6, LiveAdd
<1>8. ASSUME NEW u \in Pids, u # t
      PROVE  Same(M, N, ms[u])
  <2>1. y \notin Owned(ms[u]) /\ Owned(ms[u]) \subseteq Frames
    BY <1>1, <1>3, <1>8
  <2> QED BY <1>2, <2>1 DEF Same
<1> QED BY <1>4, <1>7, <1>8

(* Live looks at the tasks of S only.                                       *)
LEMMA LiveSame ==
  ASSUME NEW M, NEW ms, NEW cx, NEW cx2, NEW S, Live(M, ms, cx, S), \A u \in S : cx2[u] = cx[u]
  PROVE  Live(M, ms, cx2, S)
BY DEF Live

(* fork: no frame left, or the child has a copy.                            *)
LEMMA ForkFacts ==
  ASSUME NEW M, NEW ks, NEW ms, NEW cx \in [Pids -> {0} \cup Frames], NEW S \in SUBSET Pids,
         NEW t \in S, NEW c \in Pids, NEW tk, Sound(M, ks, ms), Live(M, ms, cx, S), c \notin S,
         ms[c] = NoSpace, KernelStacks(ks, tk), tk[c] = "none",
         NEW f, f = FromExistedUser(M, ms[t]), NEW b, b = KernelStackNew(InSpace(f, ks), c),
         NEW x, x = TrapContextOf(f), NEW ms2, ms2 = Put(ms, c, SpaceOf(f)),
         NEW cx2, cx2 = Put(cx, c, x),
         NEW N, N = Machine(ForkMemory(b.mem, x, cx[t], c), b.current, b.recycled),
         NEW tk2, tk2[c] # "none", \A u \in Pids : u # c => tk2[u] = tk[u]
  PROVE  \/ Stuck(b)
         \/ /\ b.panic = "none" /\ Sound(N, SpaceOf(b), ms2) /\ Live(N, ms2, cx2, S \cup {c})
            /\ KernelStacks(SpaceOf(b), tk2) /\ cx2 \in [Pids -> {0} \cup Frames]
            /\ Forked(M, ms, cx, S, t, c, f, N, x)
<1>1. t \in Pids /\ c # t /\ Usable(M, ms[t], cx[t], t)
  BY DEF Live
<1>2. PICK y : y = cx[t]
  OBVIOUS
<1>3. Whole(InSpace(M, ms[t])) /\ ContextAt(ms[t], y)
  BY <1>1, <1>2 DEF Usable, HasContext
<1>4. \/ Stuck(b)
      \/ /\ \E z : Copying(M, ks, ms, S, t, c, f, b, ms2, z)
         /\ \A dx : Live(M, ms, dx, S) => Live(b, ms2, dx, S)
  BY <1>3, CopyingFacts
<1>5. SUFFICES ASSUME /\ \E z : Copying(M, ks, ms, S, t, c, f, b, ms2, z)
                      /\ \A dx : Live(M, ms, dx, S) => Live(b, ms2, dx, S)
               PROVE  /\ b.panic = "none" /\ Sound(N, SpaceOf(b), ms2) /\ Live(N, ms2, cx2, S \cup {c})
                      /\ KernelStacks(SpaceOf(b), tk2) /\ cx2 \in [Pids -> {0} \cup Frames]
                      /\ Forked(M, ms, cx, S, t, c, f, N, x)
  BY <1>4
<1>6. Copying(M, ks, ms, S, t, c, f, b, ms2, x)
  BY <1>5 DEF Copying
<1>7. /\ Whole(f) /\ CopyImage(InSpace(M, ms[t]), f) /\ ContextAt(SpaceOf(f), x) /\ Running(b)
      /\ ms2 \in [Pids -> Spaces] /\ ms2[c] = SpaceOf(f) /\ \A u \in Pids : u # c => ms2[u] = ms[u]
      /\ Sound(b, SpaceOf(b), ms2) /\ Whole(InSpace(b, ms2[c]))
      /\ \A u \in S : Same(M, b, ms[u])
      /\ \A z \in Owned(SpaceOf(f)) : b.mem[z] = f.mem[z]
      /\ Whole(InSpace(f, ks)) /\ Added(InSpace(f, ks), StackOf(c), b)
  BY <1>6 DEF Copying
<1>8. x \in DataFrames(SpaceOf(f)) /\ x \in Frames /\ x \in Owned(SpaceOf(f))
  BY <1>7, NewContext
<1>9. cx2 \in [Pids -> {0} \cup Frames] /\ cx2[c] = x /\ \A u \in Pids : u # c => cx2[u] = cx[u]
  <2>1. PICK B : B = {0} \cup Frames
    OBVIOUS
  <2>2. cx \in [Pids -> B] /\ x \in B
    BY <1>8, <2>1
  <2>3. cx2 \in [Pids -> B] /\ cx2[c] = x /\ \A u \in Pids : u # c => cx2[u] = cx[u]
    <3>1. cx2 = [cx EXCEPT ![c] = x]
      BY DEF Put
    <3> QED BY <2>2, <3>1
  <2> QED BY <2>1, <2>3
<1>10. Live(b, ms2, cx2, S)
  <2>1. Live(b, ms2, cx, S) /\ \A u \in S : cx2[u] = cx[u]
    BY <1>5, <1>9
  <2> QED BY <2>1, LiveSame
<1>11. /\ y \in Frames /\ y \in Owned(ms[t]) /\ y # x /\ b.mem[y] = M.mem[y]
       /\ M.mem[y][0] = Data(KernelStackTop(t))
  <2>1. Running(M) /\ ms[t] \in Spaces
    BY <1>1, SoundFacts
  <2>2. y \in Owned(ms[t]) /\ y \in Frames
    BY <1>3, <2>1, ContextFrame
  <2>3. Owned(ms2[c]) \cap Owned(ms2[t]) = {}
    BY <1>1, <1>7, SoundFacts
  <2>4. ms2[t] = ms[t]
    BY <1>1, <1>7
  <2>5. y # x
    BY <1>7, <1>8, <2>2, <2>3, <2>4
  <2>6. M.mem[y][0] = Data(KernelStackTop(t))
    BY <1>1, <1>2 DEF Usable, HasContext
  <2> QED BY <1>7, <2>2, <2>5, <2>6 DEF Same
<1>12. b.mem \in [Frames -> Page] /\ b.panic = "none" /\ c \in Nat /\ KernelStackTop(c) \in Nat
  BY <1>7, MachineFacts, StackFacts, MemoryAssumption
<1>13. PICK m1 : m1 = Word1(b.mem, x, 0, KernelStackTop(c))
  OBVIOUS
<1>14. /\ m1 \in [Frames -> Page] /\ m1[x][0] = Data(KernelStackTop(c))
       /\ \A z \in Frames : z # x => m1[z] = b.mem[z]
  BY <1>8, <1>12, <1>13, Word1Facts
<1>15. PICK m2 : m2 = Word1(m1, x, 1, 0)
  OBVIOUS
<1>16. /\ m2 \in [Frames -> Page] /\ m2[x][0] = Data(KernelStackTop(c)) /\ m2[x][1] = Data(0)
       /\ \A z \in Frames : z # x => m2[z] = b.mem[z]
  <2>1. /\ m2 \in [Frames -> Page] /\ m2[x][1] = Data(0) /\ m2[x][0] = m1[x][0]
        /\ \A z \in Frames : z # x => m2[z] = m1[z]
    BY <1>8, <1>14, <1>15, Word1Facts
  <2> QED BY <1>14, <2>1
<1>17. PICK m3 : m3 = Word1(m2, y, 1, c)
  OBVIOUS
<1>18. /\ m3 \in [Frames -> Page] /\ m3[y][1] = Data(c) /\ m3[y][0] = m2[y][0]
       /\ \A z \in Frames : z # y => m3[z] = m2[z]
  BY <1>11, <1>12, <1>16, <1>17, Word1Facts
<1>19. N = Machine(m3, b.current, b.recycled)
  <2>1. ForkMemory(b.mem, x, y, c) = m3
    BY <1>8, <1>11, <1>12, <1>13, <1>15, <1>17, ForkMemoryFacts
  <2> QED BY <1>2, <2>1
<1>20. PICK N2 : N2 = Machine(m2, b.current, b.recycled)
  OBVIOUS
<1>21. Running(N2) /\ N2.mem = m2 /\ Held(N2) = Held(b)
  BY <1>7, <1>16, <1>20, MachineIs
<1>22. Running(N) /\ N.mem = m3 /\ Held(N) = Held(b)
  BY <1>7, <1>18, <1>19, MachineIs
<1>23. /\ Sound(N2, SpaceOf(b), ms2) /\ Live(N2, ms2, cx2, S \cup {c}) /\ Whole(InSpace(N2, ms2[c]))
       /\ \A u \in Pids : u # c => Same(b, N2, ms2[u])
  <2>1. PICK T \in SUBSET Pids : T = S \cup {c} /\ T \ {c} = S
    OBVIOUS
  <2>2. Live(b, ms2, cx2, T \ {c})
    BY <1>10, <2>1
  <2>3. ContextAt(ms2[c], cx2[c])
    BY <1>7, <1>9
  <2>4. \A z \in Frames : z # cx2[c] => N2.mem[z] = b.mem[z]
    BY <1>9, <1>16, <1>21
  <2>5. N2.mem[cx2[c]][0] = Data(KernelStackTop(c))
    BY <1>9, <1>16, <1>21
  <2>6. /\ Sound(N2, SpaceOf(b), ms2) /\ Live(N2, ms2, cx2, T) /\ Whole(InSpace(N2, ms2[c]))
        /\ \A u \in Pids : u # c => Same(b, N2, ms2[u])
    <3>1. Sound(b, SpaceOf(b), ms2) /\ Whole(InSpace(b, ms2[c])) /\ Running(N2) /\ Held(N2) = Held(b)
      BY <1>7, <1>21
    <3>2. PICK kb : kb = SpaceOf(b)
      OBVIOUS
    <3>3. Sound(b, kb, ms2)
      BY <3>1, <3>2
    <3>4. /\ Sound(N2, kb, ms2) /\ Live(N2, ms2, cx2, T) /\ Whole(InSpace(N2, ms2[c]))
          /\ \A u \in Pids : u # c => Same(b, N2, ms2[u])
      BY <2>2, <2>3, <2>4, <2>5, <3>1, <3>3, WriteContext, SMTT(30)
    <3> QED BY <3>2, <3>4
  <2> QED BY <2>1, <2>6
<1>24. ms2[t] = ms[t] /\ cx2[t] = y
  BY <1>1, <1>2, <1>7, <1>9
<1>25. /\ Sound(N, SpaceOf(b), ms2) /\ Live(N, ms2, cx2, S \cup {c})
       /\ \A u \in Pids : u # t => Same(N2, N, ms2[u])
  <2>a. PICK T \in SUBSET Pids : T = S \cup {c}
    OBVIOUS
  <2>1. Live(N2, ms2, cx2, T \ {t})
    BY <1>23, <2>a DEF Live
  <2>2. Whole(InSpace(N2, ms2[t]))
    BY <1>23 DEF Live, Usable
  <2>3. ContextAt(ms2[t], cx2[t])
    BY <1>3, <1>24
  <2>4. \A z \in Frames : z # cx2[t] => N.mem[z] = N2.mem[z]
    BY <1>18, <1>21, <1>22, <1>24
  <2>5. N.mem[cx2[t]][0] = Data(KernelStackTop(t))
    BY <1>11, <1>16, <1>18, <1>22, <1>24
  <2>6. Held(N) = Held(N2) /\ Sound(N2, SpaceOf(b), ms2)
    BY <1>21, <1>22, <1>23
  <2>7. /\ Sound(N, SpaceOf(b), ms2) /\ Live(N, ms2, cx2, T)
        /\ \A u \in Pids : u # t => Same(N2, N, ms2[u])
    BY <1>1, <1>22, <2>1, <2>2, <2>3, <2>4, <2>5, <2>6, WriteContext
  <2> QED BY <2>a, <2>7
<1>26. KernelStacks(SpaceOf(b), tk2)
  <2>1. PICK k : k = InSpace(f, ks)
    OBVIOUS
  <2>2. Sound(M, ks, ms) /\ ks \in Spaces /\ Running(M)
    BY DEF Sound
  <2>3. Running(f)
    BY <1>7 DEF Whole, Ready
  <2>4. k.areas = ks.areas
    BY <2>1, <2>2, <2>3, InSpaceFacts
  <2>5. Whole(k)
    BY <1>7, <2>1
  <2> QED BY <1>7, <2>1, <2>4, <2>5, StacksPushed
<1>27. Forked(M, ms, cx, S, t, c, f, N, x)
  <2>1. ASSUME NEW u \in S, u # t
        PROVE  Same(M, N, ms[u])
    <3>1. u \in Pids /\ u # c /\ ms2[u] = ms[u]
      BY <1>7
    <3>2. Same(M, b, ms[u]) /\ Same(b, N2, ms[u]) /\ Same(N2, N, ms[u])
      BY <1>7, <1>23, <1>25, <2>1, <3>1
    <3> QED BY <3>2 DEF Same
  <2>2. ASSUME NEW z \in Owned(ms[t]), z # y
        PROVE  N.mem[z] = M.mem[z]
    <3>1. Owned(ms[t]) \subseteq Frames
      BY <1>1, SoundFacts
    <3>2. b.mem[z] = M.mem[z] /\ N2.mem[z] = b.mem[z]
      BY <1>1, <1>7, <1>23, <1>24 DEF Same
    <3> QED BY <1>18, <1>21, <1>22, <2>2, <3>1, <3>2
  <2>3. ASSUME NEW z \in Owned(SpaceOf(f)), z # x
        PROVE  N.mem[z] = f.mem[z]
    <3>1. Owned(ms2[c]) \subseteq Frames
      BY <1>7, SoundFacts
    <3>2. z \in Frames /\ z \in Owned(ms2[c])
      BY <1>7, <3>1
    <3>3. N.mem[z] = N2.mem[z]
      BY <1>1, <1>25, <3>2 DEF Same
    <3>4. N2.mem[z] = b.mem[z] /\ b.mem[z] = f.mem[z]
      BY <1>7, <1>16, <1>21, <2>3, <3>2
    <3> QED BY <3>3, <3>4
  <2>4. N.mem[y][1] = Data(c) /\ N.mem[x][1] = Data(0)
    BY <1>8, <1>11, <1>16, <1>18, <1>22
  <2> QED BY <1>2, <1>7, <2>1, <2>2, <2>3, <2>4 DEF Forked
<1> QED BY <1>9, <1>12, <1>25, <1>26, <1>27

(* The first trap context of a program.                                     *)
ExecMemory(m, x, t) == [m EXCEPT ![x] = InitContext(t)]

(* It has the kernel stack and an empty a0.                                 *)
LEMMA ExecMemoryFacts ==
  ASSUME NEW m \in [Frames -> Page], NEW x \in Frames, NEW t \in Pids, NEW n, n = ExecMemory(m, x, t)
  PROVE  /\ n \in [Frames -> Page] /\ n[x][0] = Data(KernelStackTop(t)) /\ n[x][1] = Data(0)
         /\ \A y \in Frames : y # x => n[y] = m[y]
<1>1. KernelStackTop(t) \in Nat
  BY StackFacts
<1>2. {0, 1} \subseteq 0 .. PTES - 1
  BY MemoryAssumption
<1>3. Data(KernelStackTop(t)) \in Word /\ Empty = Data(0) /\ Empty \in Word
  BY <1>1 DEF Data, Word, Empty
<1>4. /\ InitContext(t) \in Page /\ InitContext(t)[0] = Data(KernelStackTop(t))
      /\ InitContext(t)[1] = Data(0)
  BY <1>2, <1>3 DEF InitContext, ZeroPage, Page
<1> QED BY <1>4 DEF ExecMemory

(* The outcome of exec: task t has the image f of the program, its trap     *)
(* context is in frame x, and nothing else changed.                         *)
Execed(M, ms, S, t, program, f, N, x) ==
    /\ \A u \in S : u # t => Same(M, N, ms[u])
    /\ Whole(f) /\ ElfImage(program, f)
    /\ \A z \in Owned(SpaceOf(f)) : z # x => N.mem[z] = f.mem[z]
    /\ N.mem[x][1] = Data(0)

(* exec: no frame left, or a fresh image.                                   *)
LEMMA ExecFacts ==
  ASSUME NEW M, NEW ks, NEW ms, NEW cx \in [Pids -> {0} \cup Frames], NEW S \in SUBSET Pids,
         NEW t \in S, NEW program \in Programs, Sound(M, ks, ms), Live(M, ms, cx, S),
         NEW f, f = FromElf(M, program), NEW b, b = DropSpace(f, ms[t]),
         NEW x, x = TrapContextOf(f), NEW ms2, ms2 = Put(ms, t, SpaceOf(f)),
         NEW cx2, cx2 = Put(cx, t, x),
         NEW N, N = Machine(ExecMemory(b.mem, x, t), b.current, b.recycled)
  PROVE  \/ Stuck(b)
         \/ /\ b.panic = "none" /\ Sound(N, ks, ms2) /\ Live(N, ms2, cx2, S)
            /\ cx2 \in [Pids -> {0} \cup Frames] /\ cx2[t] = x
            /\ Execed(M, ms, S, t, program, f, N, x)
<1>1. /\ Running(M) /\ ks \in Spaces /\ Owned(ks) \subseteq Held(M) /\ OwnedOnce(ks)
      /\ \A u \in Pids : /\ ms[u] \in Spaces /\ OwnedOnce(ms[u]) /\ Owned(ms[u]) \subseteq Held(M)
                         /\ Owned(ks) \cap Owned(ms[u]) = {}
      /\ \A u, v \in Pids : u # v => Owned(ms[u]) \cap Owned(ms[v]) = {}
  BY SoundFacts
<1>2. ms \in [Pids -> Spaces] /\ t \in Pids
  BY DEF Sound
<1>3. Stuck(f) \/ (Fresh(M, f) /\ ElfImage(program, f))
  BY <1>1, FromElfFacts
<1>4. CASE Stuck(f)
  BY <1>1, <1>2, <1>4, StuckDropSpace
<1>5. CASE Fresh(M, f) /\ ElfImage(program, f)
  <2>1. /\ Whole(f) /\ Running(f) /\ Owned(SpaceOf(f)) \subseteq Held(f)
        /\ Held(f) \ Owned(SpaceOf(f)) = Held(M) /\ \A z \in Held(M) : f.mem[z] = M.mem[z]
    BY <1>5 DEF Fresh, Whole, Ready, Others
  <2>2. PICK sp \in Spaces : sp = SpaceOf(f)
    BY <2>1, SpaceOfFacts
  <2>3. Freed(f, Owned(ms[t]), b)
    <3>1. ms[t] \in Spaces /\ OwnedOnce(ms[t]) /\ Owned(ms[t]) \subseteq Held(f)
      BY <1>1, <1>2, <2>1
    <3> QED BY <2>1, <3>1, DropSpaceFacts
  <2>4. Running(b) /\ Held(b) = Held(f) \ Owned(ms[t]) /\ b.mem = f.mem
    BY <2>3 DEF Freed
  <2>5. ms2 \in [Pids -> Spaces] /\ ms2[t] = SpaceOf(f) /\ \A u \in Pids : u # t => ms2[u] = ms[u]
    <3>1. ms2 = [ms EXCEPT ![t] = sp]
      BY <2>2 DEF Put
    <3> QED BY <1>2, <2>2, <3>1
  <2>6. PICK z : ContextAt(SpaceOf(f), z)
    BY <1>5, ElfContext
  <2>7. ContextAt(SpaceOf(f), x) /\ x \in DataFrames(SpaceOf(f)) /\ x \in Frames
    BY <2>1, <2>6, NewContext
  <2>8. cx2 \in [Pids -> {0} \cup Frames] /\ cx2[t] = x /\ \A u \in Pids : u # t => cx2[u] = cx[u]
    <3>1. cx2 = [cx EXCEPT ![t] = x]
      BY DEF Put
    <3> QED BY <1>2, <2>7, <3>1
  <2>9. /\ Sound(b, ks, ms2) /\ Whole(InSpace(b, SpaceOf(f)))
        /\ \A dx, dx2 : \A U \in SUBSET Pids :
              /\ t \notin U /\ Live(M, ms, dx, U)
              /\ \A u \in U : dx2[u] = dx[u]
              => Live(b, ms2, dx2, U)
    BY <1>2, <1>5, <2>4, <2>5, AdoptSound
  <2>10. Live(b, ms2, cx2, S \ {t})
    <3>a. S \ {t} \in SUBSET Pids /\ t \notin S \ {t}
      OBVIOUS
    <3>1. PICK U \in SUBSET Pids : U = S \ {t} /\ t \notin U
      BY <3>a, Zenon
    <3>2. Live(M, ms, cx, U) /\ \A u \in U : cx2[u] = cx[u]
      BY <2>8, <3>1 DEF Live
    <3>3. Live(b, ms2, cx2, U)
      BY <2>9, <3>1, <3>2
    <3> QED BY <3>1, <3>3
  <2>11. b.mem \in [Frames -> Page] /\ b.panic = "none"
    BY <2>4, MachineFacts
  <2>12. PICK m : m = ExecMemory(b.mem, x, t)
    OBVIOUS
  <2>13. /\ m \in [Frames -> Page] /\ m[x][0] = Data(KernelStackTop(t)) /\ m[x][1] = Data(0)
         /\ \A y \in Frames : y # x => m[y] = b.mem[y]
    BY <1>2, <2>7, <2>11, <2>12, ExecMemoryFacts
  <2>14. Running(N) /\ N.mem = m /\ Held(N) = Held(b)
    BY <2>4, <2>12, <2>13, MachineIs
  <2>15. /\ Sound(N, ks, ms2) /\ Live(N, ms2, cx2, S)
         /\ \A u \in Pids : u # t => Same(b, N, ms2[u])
    <3>1. Whole(InSpace(b, ms2[t])) /\ ContextAt(ms2[t], cx2[t])
      BY <2>5, <2>7, <2>8, <2>9
    <3>2. /\ \A y \in Frames : y # cx2[t] => N.mem[y] = b.mem[y]
          /\ N.mem[cx2[t]][0] = Data(KernelStackTop(t))
      BY <2>8, <2>13, <2>14
    <3>3. Sound(b, ks, ms2)
      BY <2>9
    <3> QED BY <1>2, <2>10, <2>14, <3>1, <3>2, <3>3, WriteContext
  <2>16. ASSUME NEW u \in S, u # t
         PROVE  Same(M, N, ms[u])
    <3>1. u \in Pids /\ ms2[u] = ms[u] /\ Owned(ms[u]) \subseteq Held(M)
      BY <1>1, <2>5, <2>16
    <3>2. Same(b, N, ms[u])
      BY <2>15, <2>16, <3>1
    <3> QED BY <2>1, <2>4, <3>1, <3>2 DEF Same
  <2>17. ASSUME NEW y \in Owned(SpaceOf(f)), y # x
         PROVE  N.mem[y] = f.mem[y]
    <3>1. Owned(ms2[t]) \subseteq Frames
      BY <1>2, <2>9, SoundFacts
    <3> QED BY <2>4, <2>5, <2>13, <2>14, <2>17, <3>1
  <2>18. Execed(M, ms, S, t, program, f, N, x)
    BY <1>5, <2>1, <2>13, <2>14, <2>16, <2>17 DEF Execed
  <2> QED BY <2>8, <2>11, <2>15, <2>18
<1> QED BY <1>3, <1>4, <1>5

(* A space without its areas.                                               *)
LEMMA ClearedFacts ==
  ASSUME NEW sp \in Spaces, OwnedOnce(sp), NEW sp2, sp2 = AreasCleared(sp)
  PROVE  /\ sp2 \in Spaces /\ OwnedOnce(sp2) /\ Owned(sp2) \subseteq Owned(sp)
         /\ Owned(sp) \ Owned(sp2) = DataFrames(sp)
<1>1. sp.nodes \in Seq(Frames) /\ sp.areas \in Seq(AreaSet) /\ SpaceOf(sp) = sp
  BY SpaceFacts
<1>2. /\ Owned(sp) = Range(sp.nodes) \cup DataFrames(sp)
      /\ Range(sp.nodes) \cap DataFrames(sp) = {} /\ Distinct(sp.nodes)
  BY OwnedFacts
<1>3. sp2 = [nodes |-> sp.nodes, areas |-> <<>>]
  BY DEF AreasCleared, Spaces
<1>4. sp2.nodes = sp.nodes /\ sp2.areas = <<>> /\ Len(sp2.areas) = 0 /\ <<>> \in Seq(AreaSet)
  BY <1>3
<1>5. sp2 \in Spaces
  BY <1>1, <1>3, <1>4 DEF Spaces, AreaSet
<1>6. \A k \in 0 .. Len(sp2.areas) : k = 0 /\ Column(sp2, k) = sp.nodes
  <2>1. \A k \in 0 .. 0 : k = 0
    OBVIOUS
  <2> QED BY <1>4, <2>1 DEF Column
<1>7. OwnedOnce(sp2)
  BY <1>2, <1>6 DEF OwnedOnce, Distinct
<1>8. Owned(sp2) = Range(sp.nodes)
  <2>1. 0 \in 0 .. Len(sp2.areas)
    BY <1>4
  <2> QED BY <1>6, <2>1 DEF Owned
<1> QED BY <1>2, <1>5, <1>7, <1>8

(* The outcome of exit.                                                     *)
Exited(M, ks, cx, S, t, b, ms2, N) ==
    /\ b.panic = "none" /\ Sound(N, ks, ms2) /\ Live(N, ms2, cx, S \ {t}) /\ N.mem = M.mem
    /\ ms2 \in [Pids -> Spaces]

(* exit: the data frames of task t are free.                                *)
LEMMA ExitFacts ==
  ASSUME NEW M, NEW ks, NEW ms, NEW cx, NEW S \in SUBSET Pids, NEW t \in S,
         Sound(M, ks, ms), Live(M, ms, cx, S),
         NEW b, b = RecycleDataPages(M, ms[t]), NEW sp, sp = AreasCleared(ms[t]),
         NEW ms2, ms2 = Put(ms, t, sp), NEW N, N = Machine(b.mem, b.current, b.recycled)
  PROVE  Exited(M, ks, cx, S, t, b, ms2, N)
<1>1. /\ Running(M)
      /\ \A u \in Pids : /\ ms[u] \in Spaces /\ OwnedOnce(ms[u]) /\ Owned(ms[u]) \subseteq Held(M)
  BY SoundFacts
<1>2. ms \in [Pids -> Spaces] /\ t \in Pids
  BY DEF Sound
<1>4. /\ sp \in Spaces /\ OwnedOnce(sp) /\ Owned(sp) \subseteq Owned(ms[t])
      /\ Owned(ms[t]) \ Owned(sp) = DataFrames(ms[t])
  BY <1>1, <1>2, ClearedFacts
<1>5. Freed(M, DataFrames(ms[t]), b)
  <2>1. ms[t] \in Spaces /\ OwnedOnce(ms[t]) /\ DataFrames(ms[t]) \subseteq Held(M)
    BY <1>1, <1>2, <1>4
  <2> QED BY <1>1, <2>1, RecycleFacts
<1>6. Running(b) /\ Held(b) = Held(M) \ DataFrames(ms[t]) /\ b.mem = M.mem
  BY <1>5 DEF Freed
<1>7. b.mem \in [Frames -> Page] /\ b.panic = "none"
  BY <1>6, MachineFacts
<1>8. Running(N) /\ N.mem = b.mem /\ Held(N) = Held(b)
  BY <1>6, <1>7, MachineIs
<1>9. ms2 \in [Pids -> Spaces] /\ ms2[t] = sp /\ \A u \in Pids : u # t => ms2[u] = ms[u]
  <2>1. ms2 = [ms EXCEPT ![t] = sp]
    BY DEF Put
  <2> QED BY <1>2, <1>4, <2>1
<1>10. Held(N) = Held(M) \ (Owned(ms[t]) \ Owned(sp)) /\ N.mem = M.mem
  BY <1>4, <1>6, <1>8
<1>11. /\ Sound(N, ks, ms2)
       /\ \A dx, dx2 : \A U \in SUBSET Pids :
            /\ t \notin U /\ Live(M, ms, dx, U)
            /\ \A u \in U : dx2[u] = dx[u]
            => Live(N, ms2, dx2, U)
  BY <1>2, <1>4, <1>8, <1>9, <1>10, FreeSound
<1>12. Live(N, ms2, cx, S \ {t})
  <2>a. S \ {t} \in SUBSET Pids /\ t \notin S \ {t}
    OBVIOUS
  <2>1. PICK U \in SUBSET Pids : U = S \ {t} /\ t \notin U
    BY <2>a, Zenon
  <2>2. Live(M, ms, cx, U) /\ \A u \in U : cx[u] = cx[u]
    BY <2>1 DEF Live
  <2>3. Live(N, ms2, cx, U)
    BY <1>11, <2>1, <2>2
  <2> QED BY <2>1, <2>3
<1> QED BY <1>7, <1>9, <1>10, <1>11, <1>12 DEF Exited

(* waitpid: the kernel stack and the page table of task t are gone.         *)
LEMMA ReapFacts ==
  ASSUME NEW M, NEW ks, NEW ms, NEW cx, NEW cx2, NEW S \in SUBSET Pids, NEW t \in Pids, t \notin S,
         NEW tk, KernelStacks(ks, tk), Sound(M, ks, ms), Live(M, ms, cx, S),
         NEW k, k = RemoveAreaWithStartVpn(InSpace(M, ks), KernelStackBottom(t)),
         NEW b, b = DropSpace(k, ms[t]), NEW ms2, ms2 = Put(ms, t, NoSpace),
         NEW N, N = Machine(b.mem, b.current, b.recycled),
         NEW tk2, \A u \in Pids : u # t => tk2[u] = tk[u], \A u \in S : cx2[u] = cx[u]
  PROVE  /\ b.panic = "none" /\ Sound(N, SpaceOf(k), ms2) /\ Live(N, ms2, cx2, S)
         /\ KernelStacks(SpaceOf(k), tk2) /\ ms2 \in [Pids -> Spaces]
         /\ \A u \in S : Same(M, N, ms[u])
<1>1. Running(M) /\ ks \in Spaces /\ ms \in [Pids -> Spaces]
  BY DEF Sound
<1>2. PICK c : c = InSpace(M, ks)
  OBVIOUS
<1>3. Whole(c) /\ c.areas = ks.areas
  <2>1. Whole(InSpace(M, ks))
    BY DEF Sound
  <2> QED BY <1>1, <1>2, <2>1, InSpaceFacts
<1>4. Whole(k) /\ Beside(c, k) /\ KernelStacks(SpaceOf(k), tk2)
  BY <1>2, <1>3, StacksRemoved
<1>5. Running(k)
  BY <1>4 DEF Whole, Ready
<1>6. /\ Sound(k, SpaceOf(k), ms)
      /\ \A dx : \A U \in SUBSET Pids : Live(M, ms, dx, U) => Live(k, ms, dx, U)
      /\ \A u \in Pids : \A x \in Owned(ms[u]) : k.mem[x] = M.mem[x]
  BY <1>2, <1>4, <1>5, KernelSound
<1>7. Freed(k, Owned(ms[t]), b)
  <2>1. ms[t] \in Spaces /\ OwnedOnce(ms[t]) /\ Owned(ms[t]) \subseteq Held(k)
    BY <1>6, SoundFacts
  <2> QED BY <1>5, <2>1, DropSpaceFacts
<1>8. Running(b) /\ Held(b) = Held(k) \ Owned(ms[t]) /\ b.mem = k.mem
  BY <1>7 DEF Freed
<1>9. b.mem \in [Frames -> Page] /\ b.panic = "none"
  BY <1>8, MachineFacts
<1>10. Running(N) /\ N.mem = b.mem /\ Held(N) = Held(b)
  BY <1>8, <1>9, MachineIs
<1>11. PICK sp : sp = NoSpace
  OBVIOUS
<1>12. sp \in Spaces /\ OwnedOnce(sp) /\ Owned(sp) = {}
  BY <1>11, NoSpaceFacts
<1>13. ms2 \in [Pids -> Spaces] /\ ms2[t] = sp /\ \A u \in Pids : u # t => ms2[u] = ms[u]
  <2>1. ms2 = [ms EXCEPT ![t] = sp]
    BY <1>11 DEF Put
  <2> QED BY <1>1, <1>12, <2>1
<1>14. /\ Held(N) = Held(k) \ (Owned(ms[t]) \ Owned(sp)) /\ N.mem = k.mem
       /\ Owned(sp) \subseteq Owned(ms[t])
  BY <1>8, <1>10, <1>12
<1>15. PICK kk : kk = SpaceOf(k)
  OBVIOUS
<1>16. /\ Sound(N, kk, ms2)
       /\ \A dx, dx2 : \A U \in SUBSET Pids :
            /\ t \notin U /\ Live(k, ms, dx, U)
            /\ \A u \in U : dx2[u] = dx[u]
            => Live(N, ms2, dx2, U)
  <2>1. Sound(k, kk, ms) /\ OwnedOnce(sp) /\ Running(N)
    BY <1>6, <1>10, <1>12, <1>15
  <2> QED BY <1>13, <1>14, <2>1, FreeSound
<1>17. Live(N, ms2, cx2, S)
  BY <1>6, <1>16
<1>18. ASSUME NEW u \in S
       PROVE  Same(M, N, ms[u])
  BY <1>6, <1>14 DEF Same
<1> QED BY <1>4, <1>9, <1>13, <1>15, <1>16, <1>17, <1>18

(* A store goes to a page of an area of the task, not to the trap context.  *)
LEMMA StoreFacts ==
  ASSUME NEW M, NEW ks, NEW ms, NEW cx, NEW S \in SUBSET Pids, NEW t \in S,
         Sound(M, ks, ms), Live(M, ms, cx, S), NEW vpn \in Pages, NEW v \in Values,
         NEW e, e = Translate(M.mem, Head(ms[t].nodes), vpn), {"V", "U", "W"} \subseteq e.flags,
         NEW N, N = Machine(Word1(M.mem, e.ppn, 0, v), M.current, M.recycled)
  PROVE  /\ Sound(N, ks, ms) /\ Live(N, ms, cx, S) /\ vpn \in 0 .. TRAMPOLINE
         /\ \A u \in S : u # t => Same(M, N, ms[u])
         /\ e.ppn \in DataFrames(ms[t]) /\ e.ppn # cx[t]
         /\ N.mem[e.ppn][0] = Data(v) /\ \A y \in Frames : y # e.ppn => N.mem[y] = M.mem[y]
<1>1. /\ Running(M) /\ Held(M) \subseteq Frames
      /\ \A u \in Pids : /\ ms[u] \in Spaces /\ OwnedOnce(ms[u]) /\ Owned(ms[u]) \subseteq Held(M)
      /\ \A u, w \in Pids : u # w => Owned(ms[u]) \cap Owned(ms[w]) = {}
  BY SoundFacts
<1>2. t \in Pids /\ Whole(InSpace(M, ms[t])) /\ ContextAt(ms[t], cx[t])
      /\ M.mem[cx[t]][0] = Data(KernelStackTop(t))
  BY DEF Live, Usable, HasContext
<1>3. PICK c, n : c = InSpace(M, ms[t]) /\ n = Len(ms[t].areas)
  OBVIOUS
<1>4. Whole(c) /\ c.areas = ms[t].areas /\ c.nodes = ms[t].nodes /\ c.mem = M.mem /\ SpaceOf(c) = ms[t]
  BY <1>1, <1>2, <1>3, InSpaceFacts
<1>5. /\ Ready(c) /\ Mapped(c) /\ Placed(c.areas) /\ n \in Nat /\ DOMAIN c.areas = 1 .. n
      /\ \A k \in DOMAIN c.areas : DOMAIN c.areas[k].frames = 1 .. c.areas[k].pages
  BY <1>3, <1>4, WholeFacts
<1>6. vpn \in 0 .. TRAMPOLINE
  BY MemoryAssumption DEF TRAMPOLINE
<1>7. e = Lookup(c, vpn)
  BY <1>4, Zenon DEF Lookup
<1>8. "V" \in e.flags /\ "U" \in e.flags
  OBVIOUS
<1>9. vpn # TRAMPOLINE
  <2>1. TrampolineEntry.flags = {"R", "X", "V"}
    BY DEF TrampolineEntry, Entry
  <2>2. Lookup(c, TRAMPOLINE).flags = {"R", "X", "V"}
    BY <1>5, <2>1 DEF Mapped
  <2> QED BY <1>7, <1>8, <2>2
<1>10. Valid(Lookup(c, vpn))
  BY <1>7, <1>8, Zenon DEF Valid
<1>11. PICK k \in DOMAIN c.areas : \E i \in DOMAIN c.areas[k].frames : vpn = c.areas[k].start + i - 1
  BY <1>5, <1>6, <1>9, <1>10 DEF Mapped
<1>12. PICK i \in DOMAIN c.areas[k].frames : vpn = c.areas[k].start + i - 1
  BY <1>11
<1>13. PICK x : x = c.areas[k].frames[i]
  OBVIOUS
<1>14. e.ppn = x /\ e.flags = c.areas[k].perm \cup {"V"} /\ x \in Frames
  <2>1. /\ Lookup(c, c.areas[k].start + i - 1).ppn = x
        /\ Lookup(c, c.areas[k].start + i - 1).flags = c.areas[k].perm \cup {"V"}
        /\ x \in Frames
    BY <1>5, <1>13, PageLookup
  <2> QED BY <1>7, <1>12, <2>1, Zenon
<1>15. x \in DataFrames(ms[t])
  BY <1>4, <1>13 DEF DataFrames, Range
<1>16. PICK y : y = cx[t]
  OBVIOUS
<1>17. x # y
  <2>1. n > 0 /\ "U" \notin c.areas[n].perm /\ y = c.areas[n].frames[1] /\ c.areas[n].pages = 1
    BY <1>2, <1>3, <1>4, <1>16 DEF ContextAt
  <2>2. n \in DOMAIN c.areas
    BY <1>5, <2>1
  <2>3. 1 \in DOMAIN c.areas[n].frames
    BY <1>5, <2>1, <2>2
  <2>4. k # n
    BY <1>8, <1>14, <2>1
  <2> QED BY <1>5, <1>13, <2>1, <2>2, <2>3, <2>4, FramesDiffer
<1>18. M.mem \in [Frames -> Page] /\ v \in Nat
  BY <1>1, MachineFacts, MemoryAssumption
<1>19. PICK m : m = Word1(M.mem, x, 0, v)
  OBVIOUS
<1>20. /\ m \in [Frames -> Page] /\ m[x][0] = Data(v) /\ \A z \in Frames : z # x => m[z] = M.mem[z]
  BY <1>14, <1>18, <1>19, Word1Facts
<1>21. Running(N) /\ N.mem = m /\ Held(N) = Held(M)
  BY <1>1, <1>14, <1>19, <1>20, MachineIs
<1>22. /\ Sound(N, ks, ms) /\ x \in Held(M)
       /\ \A dx : \A U \in SUBSET Pids : t \notin U /\ Live(M, ms, dx, U) => Live(N, ms, dx, U)
       /\ Whole(InSpace(M, ms[t])) => Whole(InSpace(N, ms[t]))
  BY <1>2, <1>15, <1>20, <1>21, WriteSound
<1>23. Live(N, ms, cx, S \ {t})
  <2>1. S \ {t} \in SUBSET Pids /\ t \notin S \ {t} /\ Live(M, ms, cx, S \ {t})
    BY DEF Live
  <2> QED BY <1>22, <2>1
<1>24. Usable(N, ms[t], cx[t], t)
  <2>1. y \in Frames
    BY <1>1, <1>2, <1>16, ContextFrame
  <2>2. N.mem[cx[t]][0] = Data(KernelStackTop(t))
    BY <1>2, <1>16, <1>17, <1>20, <1>21, <2>1
  <2> QED BY <1>2, <1>22, <2>2 DEF Usable, HasContext
<1>25. Live(N, ms, cx, S)
  BY <1>23, <1>24, LiveAdd
<1>26. ASSUME NEW u \in S, u # t
       PROVE  Same(M, N, ms[u])
  <2>1. x \in Owned(ms[t])
    <3>1. ms[t] \in Spaces /\ OwnedOnce(ms[t])
      BY <1>1, <1>2
    <3>2. Owned(ms[t]) = Range(ms[t].nodes) \cup DataFrames(ms[t])
      BY <3>1, OwnedFacts
    <3> QED BY <1>15, <3>2
  <2>2. x \notin Owned(ms[u]) /\ Owned(ms[u]) \subseteq Frames
    BY <1>1, <1>2, <1>26, <2>1
  <2> QED BY <1>20, <1>21, <2>2 DEF Same
<1> QED BY <1>6, <1>14, <1>15, <1>16, <1>17, <1>20, <1>21, <1>22, <1>25, <1>26

-----------------------------------------------------------------------------
(* The invariant.  Frames are divided, the kernel's table and the tables of *)
(* living tasks describe their areas, each trap context is its task's, and  *)
(* every kernel area is the stack of a task that is there.                  *)
AliveIn(tk) == {u \in Pids : tk[u] = "alive"}

Good(M, ks, ms, cx, tk) ==
    /\ Sound(M, ks, ms) /\ Live(M, ms, cx, AliveIn(tk)) /\ KernelStacks(ks, tk)
    /\ cx \in [Pids -> {0} \cup Frames]
    /\ tk \in [Pids -> {"none", "alive", "zombie"}]
    /\ \A u \in Pids : tk[u] = "none" => ms[u] = NoSpace

Inv ==
    /\ Good(Now, kernel_space, memory_set, trap_cx_ppn, task)
    /\ panic \in {"none", "space"} /\ builds \in 0 .. MaxBuilds

(* The fields of the machine of a state.                                    *)
LEMMA NowFacts ==
  ASSUME NEW M, NEW m, NEW c, NEW r, M = Machine(m, c, r)
  PROVE  M.mem = m /\ M.current = c /\ M.recycled = r
BY DEF Machine

(* Good states are well typed.                                              *)
LEMMA InvTypes ==
  ASSUME Inv
  PROVE  TypeOK
<1>1. Running(Now) /\ kernel_space \in Spaces /\ memory_set \in [Pids -> Spaces]
  BY DEF Inv, Good, Sound
<1>2. Now.mem = mem /\ Now.current = frame_current /\ Now.recycled = frame_recycled
  BY NowFacts DEF Now
<1>3. /\ Now.mem \in [Frames -> Page] /\ Now.current \in MemoryStart .. MemoryEnd
      /\ Now.recycled \in Seq(Frames)
  BY <1>1, MachineFacts
<1>4. /\ trap_cx_ppn \in [Pids -> {0} \cup Frames] /\ task \in [Pids -> {"none", "alive", "zombie"}]
      /\ panic \in {"none", "space"} /\ builds \in 0 .. MaxBuilds
  BY DEF Inv, Good
<1> QED BY <1>1, <1>2, <1>3, <1>4 DEF TypeOK, Page

(* Every frame handed out is free, once, or has one owner, once.            *)
LEMMA InvOwned ==
  ASSUME Inv
  PROVE  FramesOwnedOnce
<1>1. Running(Now) /\ Divided(kernel_space, memory_set, Held(Now))
  BY DEF Inv, Good, Sound
<1>2. Now.current = frame_current /\ Now.recycled = frame_recycled
  BY NowFacts DEF Now
<1>3. PICK free, kernel, all : /\ free = Range(frame_recycled) /\ kernel = Owned(kernel_space)
                               /\ all = MemoryStart .. frame_current - 1
  OBVIOUS
<1>4. /\ IsInjective(frame_recycled) /\ free \subseteq all /\ Held(Now) = all \ free
  BY <1>1, <1>2, <1>3 DEF Running, Held
<1>5. /\ OwnedOnce(kernel_space) /\ \A t \in Pids : OwnedOnce(memory_set[t])
      /\ \A t \in Pids : kernel \cap Owned(memory_set[t]) = {}
      /\ \A t, u \in Pids : t # u => Owned(memory_set[t]) \cap Owned(memory_set[u]) = {}
      /\ all \ free = kernel \cup UNION {Owned(memory_set[t]) : t \in Pids}
  BY <1>1, <1>3, <1>4 DEF Divided
<1>6. \A i, j \in DOMAIN frame_recycled : frame_recycled[i] = frame_recycled[j] => i = j
  BY <1>4 DEF IsInjective
<1>7. free \cap kernel = {} /\ \A t \in Pids : Owned(memory_set[t]) \cap (free \cup kernel) = {}
  BY <1>5
<1>8. free \cup kernel \cup UNION {Owned(memory_set[t]) : t \in Pids} = all
  BY <1>4, <1>5
<1> QED BY <1>3, <1>5, <1>6, <1>7, <1>8 DEF FramesOwnedOnce

(* The table of a whole space is what its areas promise.                    *)
LEMMA WholeDescribes ==
  ASSUME NEW c, Whole(c), NEW sp, sp.areas = c.areas, NEW v \in 0 .. TRAMPOLINE
  PROVE  (IF Valid(Lookup(c, v)) THEN {Lookup(c, v)} ELSE {}) = Promised(sp, v)
<1>1. /\ Ready(c) /\ Mapped(c) /\ Placed(c.areas)
      /\ c.areas \in Seq(AreaSet) /\ Len(c.areas) \in Nat /\ DOMAIN c.areas = 1 .. Len(c.areas)
      /\ \A k \in DOMAIN c.areas : /\ Len(c.areas[k].frames) = c.areas[k].pages
                                   /\ DOMAIN c.areas[k].frames = 1 .. c.areas[k].pages
                                   /\ c.areas[k].pages \in Nat /\ c.areas[k].start \in Nat
  BY WholeFacts
<1>2. PICK e : e = Lookup(c, v)
  OBVIOUS
<1>3. CASE v = TRAMPOLINE
  <2>1. e = TrampolineEntry
    BY <1>1, <1>2, <1>3 DEF Mapped
  <2>2. TrampolineEntry = [ppn |-> strampoline, flags |-> {"V", "R", "X"}]
    BY DEF TrampolineEntry, Entry
  <2>3. Valid(e)
    BY <2>1, <2>2 DEF Valid
  <2>4. Promised(sp, v) = {[ppn |-> strampoline, flags |-> {"V", "R", "X"}]}
    BY <1>3 DEF Promised
  <2> QED BY <1>2, <2>1, <2>2, <2>3, <2>4
<1>4. CASE v # TRAMPOLINE
  <2>1. PICK at : at = {k \in DOMAIN c.areas :
                          v \in c.areas[k].start .. c.areas[k].start + c.areas[k].pages - 1}
    OBVIOUS
  <2>2. Promised(sp, v) = {Entry(c.areas[k].frames[v - c.areas[k].start + 1], c.areas[k].perm) : k \in at}
    BY <1>4, <2>1 DEF Promised, Entry
  <2>3. ASSUME NEW k \in at
        PROVE  /\ k \in DOMAIN c.areas
               /\ e = Entry(c.areas[k].frames[v - c.areas[k].start + 1], c.areas[k].perm)
    <3>1. k \in DOMAIN c.areas /\ v \in c.areas[k].start .. c.areas[k].start + c.areas[k].pages - 1
      BY <2>1
    <3>2. PICK i \in 1 .. c.areas[k].pages : i = v - c.areas[k].start + 1 /\ v = c.areas[k].start + i - 1
      <4>1. PICK s \in Nat, p \in Nat : s = c.areas[k].start /\ p = c.areas[k].pages
        BY <1>1, <3>1
      <4>2. v \in s .. s + p - 1
        BY <3>1, <4>1
      <4>3. PICK i \in 1 .. p : i = v - s + 1 /\ v = s + i - 1
        BY <4>2
      <4> QED BY <4>1, <4>3
    <3>3. i \in DOMAIN c.areas[k].frames
      BY <1>1, <3>1, <3>2
    <3>4. Lookup(c, c.areas[k].start + i - 1) = PageEntry(c.areas[k], i)
      BY <1>1, <3>1, <3>3 DEF Mapped
    <3> QED BY <1>2, <3>1, <3>2, <3>4, Zenon DEF PageEntry
  <2>4. ASSUME NEW k \in at
        PROVE  Valid(e)
    BY <2>3 DEF Entry, Valid
  <2>5. ASSUME Valid(e)
        PROVE  at # {}
    <3>1. PICK k \in DOMAIN c.areas : \E i \in DOMAIN c.areas[k].frames : v = c.areas[k].start + i - 1
      BY <1>1, <1>2, <1>4, <2>5 DEF Mapped
    <3>2. PICK i \in DOMAIN c.areas[k].frames : v = c.areas[k].start + i - 1
      BY <3>1
    <3>3. v \in c.areas[k].start .. c.areas[k].start + c.areas[k].pages - 1
      <4>1. PICK s \in Nat, p \in Nat : s = c.areas[k].start /\ p = c.areas[k].pages
        BY <1>1, <3>1
      <4>2. v = s + i - 1 /\ i \in 1 .. p
        BY <1>1, <3>2, <4>1
      <4>3. v \in s .. s + p - 1
        BY <4>2
      <4> QED BY <4>1, <4>3
    <3> QED BY <2>1, <3>3
  <2>6. CASE Valid(e)
    <3>1. PICK k \in at : TRUE
      BY <2>5, <2>6
    <3>2. Promised(sp, v) = {e}
      BY <2>2, <2>3, <3>1
    <3> QED BY <1>2, <2>6, <3>2
  <2>7. CASE ~Valid(e)
    <3>1. at = {}
      BY <2>4, <2>7
    <3>2. Promised(sp, v) = {}
      BY <2>2, <3>1
    <3> QED BY <1>2, <2>7, <3>2
  <2> QED BY <2>6, <2>7
<1> QED BY <1>3, <1>4

(* Tables describe areas.                                                   *)
LEMMA InvTables ==
  ASSUME Inv
  PROVE  TablesDescribeAreas
<1>1. Sound(Now, kernel_space, memory_set) /\ Live(Now, memory_set, trap_cx_ppn, AliveIn(task))
  BY DEF Inv, Good
<1>2. Running(Now) /\ kernel_space \in Spaces /\ Whole(InSpace(Now, kernel_space))
  BY <1>1 DEF Sound
<1>3. Now.mem = mem
  BY NowFacts DEF Now
<1>4. ASSUME NEW sp \in Spaces, Whole(InSpace(Now, sp)), NEW v \in 0 .. TRAMPOLINE
      PROVE  (IF Valid(Translate(mem, Head(sp.nodes), v)) THEN {Translate(mem, Head(sp.nodes), v)} ELSE {})
               = Promised(sp, v)
  <2>1. PICK c : c = InSpace(Now, sp)
    OBVIOUS
  <2>2. Whole(c) /\ c.areas = sp.areas /\ c.nodes = sp.nodes /\ c.mem = mem
    BY <1>2, <1>3, <1>4, <2>1, InSpaceFacts
  <2>3. Lookup(c, v) = Translate(mem, Head(sp.nodes), v)
    BY <2>2, Zenon DEF Lookup
  <2>4. (IF Valid(Lookup(c, v)) THEN {Lookup(c, v)} ELSE {}) = Promised(sp, v)
    BY <2>2, WholeDescribes
  <2> QED BY <2>3, <2>4, Zenon
<1>5. ASSUME NEW t \in Alive
      PROVE  memory_set[t] \in Spaces /\ Whole(InSpace(Now, memory_set[t]))
  <2>1. t \in AliveIn(task) /\ t \in Pids
    BY DEF Alive, AliveIn
  <2> QED BY <1>1, <2>1, SoundFacts DEF Live, Usable
<1> QED BY <1>2, <1>4, <1>5 DEF TablesDescribeAreas

(* Trap contexts are current.                                               *)
LEMMA InvContexts ==
  ASSUME Inv
  PROVE  TrapContextCurrent
<1>1. Sound(Now, kernel_space, memory_set) /\ Live(Now, memory_set, trap_cx_ppn, AliveIn(task))
  BY DEF Inv, Good
<1>2. Now.mem = mem
  BY NowFacts DEF Now
<1>3. ASSUME NEW t \in Alive
      PROVE  /\ trap_cx_ppn[t] = Translate(mem, Head(memory_set[t].nodes), TRAP_CONTEXT).ppn
             /\ mem[trap_cx_ppn[t]][0] = Data(KernelStackTop(t))
  <2>1. t \in AliveIn(task) /\ t \in Pids
    BY DEF Alive, AliveIn
  <2>2. /\ memory_set[t] \in Spaces /\ Running(Now) /\ Whole(InSpace(Now, memory_set[t]))
        /\ ContextAt(memory_set[t], trap_cx_ppn[t])
        /\ Now.mem[trap_cx_ppn[t]][0] = Data(KernelStackTop(t))
    BY <1>1, <2>1, SoundFacts DEF Live, Usable, HasContext
  <2>3. Translate(Now.mem, Head(memory_set[t].nodes), TRAP_CONTEXT).ppn = trap_cx_ppn[t]
    BY <2>2, ContextFrame
  <2> QED BY <1>2, <2>2, <2>3
<1> QED BY <1>3 DEF TrapContextCurrent

-----------------------------------------------------------------------------
(* Boot.  A stuck machine builds no space.                                  *)
LEMMA StuckFromElf ==
  ASSUME NEW b, Stuck(b), NEW program \in Programs
  PROVE  Stuck(FromElf(b, program))
<1>1. PICK a, c, g, d, n : /\ a = NewBare(b) /\ c = MapTrampoline(a) /\ g = LoadSegments(c, program)
                           /\ d = Push(g, StackArea(program)) /\ n = Len(program)
  OBVIOUS
<1>2. FromElf(b, program) = Push(d, ContextArea)
  BY <1>1, Zenon DEF FromElf, StackArea, ContextArea
<1>3. Stuck(a)
  <2>1. FrameAlloc(b) = b
    BY DEF FrameAlloc, Stuck
  <2> QED BY <1>1, <2>1 DEF NewBare, Stuck, Fields
<1>4. Stuck(c)
  BY <1>1, <1>3, StuckMap DEF MapTrampoline
<1>5. USER_STACK_PAGES \in Nat /\ \A k \in 1 .. n : program[k] \in Segment
  BY <1>1, ProgramFacts
<1>6. StackArea(program).pages \in Nat /\ ContextArea.pages \in Nat
  BY <1>5 DEF StackArea, ContextArea, Area
<1>7. Stuck(g)
  BY <1>1, <1>4, StuckLoadSegments
<1>8. Stuck(d)
  BY <1>1, <1>6, <1>7, StuckPush
<1> QED BY <1>2, <1>6, <1>8, StuckPush

(* The machine before boot holds nothing.                                   *)
LEMMA PowerOn ==
  ASSUME NEW M, M = Machine([f \in Frames |-> DirtyPage], MemoryStart, <<>>)
  PROVE  Running(M) /\ Held(M) = {}
<1>1. MemoryStart \in Nat /\ MemoryEnd \in Nat /\ MemoryStart <= MemoryEnd /\ PTES \in Nat
  BY MemoryAssumption
<1>2. DirtyPage \in Page
  BY DEF DirtyPage, Page, Word
<1>3. <<>> \in Seq(Frames) /\ <<>> \in Seq(AreaSet) /\ DOMAIN <<>> = {}
  OBVIOUS
<1>4. /\ M \in Machines /\ M.panic = "none" /\ M.recycled = <<>> /\ M.current = MemoryStart
  BY <1>1, <1>2, <1>3 DEF Machine, Machines
<1>5. Range(<<>>) = {} /\ IsInjective(<<>>)
  BY <1>3 DEF Range, IsInjective
<1>6. MemoryStart .. MemoryStart - 1 = {}
  BY <1>1
<1> QED BY <1>4, <1>5, <1>6 DEF Running, Held

(* The kernel space alone.                                                  *)
LEMMA BootedKernel ==
  ASSUME NEW k, k = BootKernel, NEW ms, ms = [p \in Pids |-> NoSpace]
  PROVE  Stuck(k) \/ (Sound(k, SpaceOf(k), ms) /\ k.areas = <<>>)
<1>1. PICK M : M = Machine([f \in Frames |-> DirtyPage], MemoryStart, <<>>)
  OBVIOUS
<1>2. Running(M) /\ Held(M) = {}
  BY <1>1, PowerOn
<1>3. k = MapTrampoline(NewBare(M))
  BY <1>1 DEF BootKernel
<1>4. Stuck(k) \/ Based(M, k)
  BY <1>2, <1>3, BaseFacts
<1>5. CASE Based(M, k)
  <2>1. Whole(k) /\ k.areas = <<>> /\ Others(k) = {}
    BY <1>2, <1>5 DEF Based
  <2>2. PICK sp : sp = SpaceOf(k)
    OBVIOUS
  <2>3. /\ Running(k) /\ OwnedOnce(sp) /\ Owned(sp) \subseteq Held(k)
        /\ Held(k) \ Owned(sp) = {}
    BY <2>1, <2>2 DEF Whole, Ready, Others
  <2>4. sp \in Spaces
    BY <2>2, <2>3, SpaceOfFacts
  <2>5. Whole(InSpace(k, sp))
    BY <2>1, <2>2, <2>3, WholeFrame
  <2>6. ms \in [Pids -> Spaces] /\ \A t \in Pids : OwnedOnce(ms[t]) /\ Owned(ms[t]) = {}
    BY NoSpaceFacts
  <2>7. Held(k) = Owned(sp) \cup UNION {Owned(ms[t]) : t \in Pids}
    BY <2>3, <2>6
  <2>8. Divided(sp, ms, Held(k))
    BY <2>3, <2>6, <2>7 DEF Divided
  <2> QED BY <2>1, <2>2, <2>3, <2>4, <2>5, <2>6, <2>8 DEF Sound
<1> QED BY <1>4, <1>5

(* The kernel space, initproc and its kernel stack.                         *)
Booting(f, b, ms2, x) ==
    /\ Whole(f) /\ ElfImage(InitProgram, f) /\ ContextAt(SpaceOf(f), x)
    /\ TrapContextOf(f) = x /\ x \in Frames /\ Running(b)
    /\ ms2 \in [Pids -> Spaces] /\ ms2[0] = SpaceOf(f) /\ \A u \in Pids : u # 0 => ms2[u] = NoSpace
    /\ Sound(b, SpaceOf(b), ms2) /\ Whole(InSpace(b, ms2[0]))
    /\ \A z \in Owned(SpaceOf(f)) : b.mem[z] = f.mem[z]

(* Boot, up to the first trap context.                                      *)
LEMMA BootingFacts ==
  ASSUME NEW f, f = BootUser, NEW b, b = Booted, b.panic = "none",
         NEW ms, ms = [p \in Pids |-> NoSpace], NEW ms2, ms2 = Put(ms, 0, SpaceOf(f)),
         NEW tk, tk = [p \in Pids |-> "none"], NEW tk2, tk2[0] # "none",
         \A u \in Pids : u # 0 => tk2[u] = "none"
  PROVE  KernelStacks(SpaceOf(b), tk2) /\ \E x : Booting(f, b, ms2, x)
<1>1. 0 \in Pids /\ InitProgram \in Programs
  BY MemoryAssumption
<1>2. PICK k : k = BootKernel
  OBVIOUS
<1>3. PICK ks : ks = SpaceOf(k)
  OBVIOUS
<1>4. PICK k2 : k2 = InSpace(f, ks)
  OBVIOUS
<1>5. f = FromElf(k, InitProgram) /\ b = Push(k2, StackOf(0))
  BY <1>2, <1>3, <1>4 DEF BootUser, Booted, KernelStackNew, StackOf
<1>6. KERNEL_STACK_PAGES \in Nat /\ StackOf(0).pages = KERNEL_STACK_PAGES
  BY MemoryAssumption DEF StackOf, Area
<1>7. ~Stuck(b)
  BY DEF Stuck
<1>8. ~Stuck(f)
  <2>1. Stuck(f) => Stuck(k2)
    BY <1>4, StuckInSpace
  <2>2. Stuck(k2) => Stuck(b)
    BY <1>5, <1>6, StuckPush
  <2> QED BY <1>7, <2>1, <2>2
<1>9. ~Stuck(k)
  BY <1>1, <1>5, <1>8, StuckFromElf
<1>10. Sound(k, ks, ms) /\ k.areas = <<>>
  BY <1>2, <1>3, <1>9, BootedKernel
<1>11. Running(k) /\ ks \in Spaces /\ ms \in [Pids -> Spaces] /\ ks.areas = <<>>
  BY <1>3, <1>10 DEF Sound, SpaceOf
<1>12. Fresh(k, f) /\ ElfImage(InitProgram, f)
  BY <1>1, <1>5, <1>8, <1>11, FromElfFacts
<1>13. /\ Whole(f) /\ Running(f) /\ Owned(SpaceOf(f)) \subseteq Held(f)
  BY <1>12 DEF Fresh, Whole, Ready
<1>14. PICK sp \in Spaces : sp = SpaceOf(f)
  BY <1>13, SpaceOfFacts
<1>15. /\ ms2 \in [Pids -> Spaces] /\ ms2[0] = SpaceOf(f)
       /\ \A u \in Pids : u # 0 => ms2[u] = ms[u] /\ ms2[u] = NoSpace
  <2>1. ms2 = [ms EXCEPT ![0] = sp]
    BY <1>14 DEF Put
  <2> QED BY <1>1, <1>11, <1>14, <2>1
<1>16. Held(f) = Held(f) \ Owned(ms[0])
  BY <1>1, NoSpaceFacts
<1>17. Sound(f, ks, ms2) /\ Whole(InSpace(f, SpaceOf(f)))
  <2>1. \A u \in Pids : u # 0 => ms2[u] = ms[u]
    BY <1>15
  <2> QED BY <1>1, <1>10, <1>12, <1>13, <1>15, <1>16, <2>1, AdoptSound
<1>18. Whole(k2) /\ k2.areas = ks.areas
  <2>1. Whole(InSpace(f, ks))
    BY <1>17 DEF Sound
  <2>2. k2.areas = ks.areas
    BY <1>4, <1>11, <1>13, InSpaceFacts
  <2> QED BY <1>4, <2>1, <2>2
<1>19. KernelStacks(ks, tk) /\ tk[0] = "none"
  <2>1. DOMAIN ks.areas = {}
    BY <1>11
  <2> QED BY <1>1, <2>1 DEF KernelStacks
<1>20. Fits(k2.areas, StackOf(0))
  BY <1>1, <1>18, <1>19, KernelStackFits
<1>21. Added(k2, StackOf(0), b)
  BY <1>5, <1>6, <1>7, <1>18, <1>20, PushBlank
<1>22. KernelStacks(SpaceOf(b), tk2)
  <2>1. \A u \in Pids : u # 0 => tk2[u] = tk[u]
    OBVIOUS
  <2> QED BY <1>1, <1>18, <1>19, <1>21, <2>1, StacksPushed
<1>23. Whole(b) /\ Beside(k2, b) /\ Running(b)
  BY <1>21 DEF Added, Whole, Ready
<1>24. Sound(b, SpaceOf(b), ms2) /\ \A u \in Pids : \A z \in Owned(ms2[u]) : b.mem[z] = f.mem[z]
  BY <1>4, <1>17, <1>23, KernelSound
<1>25. \A z \in Owned(SpaceOf(f)) : b.mem[z] = f.mem[z]
  BY <1>1, <1>15, <1>24
<1>26. Whole(InSpace(b, SpaceOf(f)))
  <2>1. Owned(ms2[0]) \subseteq Held(b)
    BY <1>1, <1>24, SoundFacts
  <2>2. Owned(sp) \subseteq Held(b)
    BY <1>14, <1>15, <2>1
  <2>3. \A z \in Owned(sp) : z \in Range(sp.nodes) => b.mem[z] = f.mem[z]
    BY <1>14, <1>25
  <2>4. Whole(InSpace(f, sp))
    BY <1>14, <1>17
  <2>5. Whole(InSpace(b, sp))
    BY <1>13, <1>23, <2>2, <2>3, <2>4, KernelFrame
  <2> QED BY <1>14, <2>5
<1>27. Whole(InSpace(b, ms2[0]))
  BY <1>15, <1>26
<1>28. PICK x : ContextAt(SpaceOf(f), x)
  BY <1>1, <1>12, ElfContext
<1>29. TrapContextOf(f) = x /\ x \in Frames
  BY <1>13, <1>28, NewContext
<1>30. Booting(f, b, ms2, x)
  BY <1>12, <1>13, <1>15, <1>23, <1>24, <1>25, <1>27, <1>28, <1>29 DEF Booting
<1> QED BY <1>22, <1>30

-----------------------------------------------------------------------------
(* What the steps do to the memory of programs.  A step that found no frame *)
(* changes nothing, fork copies, exec loads, and exit, waitpid and stores   *)
(* leave the other tasks alone.                                             *)
Idle == UNCHANGED <<mem, memory_set, trap_cx_ppn, task>>

BootState(M, ms, cx, tk) == \E f, x :
    /\ Whole(f) /\ ElfImage(InitProgram, f) /\ AliveIn(tk) = {0}
    /\ ms[0] = SpaceOf(f) /\ cx[0] = x /\ M.mem[x][1] = Data(0)
    /\ \A z \in Owned(SpaceOf(f)) : z # x => M.mem[z] = f.mem[z]

ForkStep(M, ms, cx, tk, t, c, N, ms2, cx2, tk2) == \E f, x :
    /\ t \in AliveIn(tk) /\ c \notin AliveIn(tk) /\ AliveIn(tk2) = AliveIn(tk) \cup {c}
    /\ ms2 = Put(ms, c, SpaceOf(f)) /\ cx2 = Put(cx, c, x)
    /\ Forked(M, ms, cx, AliveIn(tk), t, c, f, N, x)

ExecStep(M, ms, cx, tk, t, program, N, ms2, cx2, tk2) == \E f, x :
    /\ t \in AliveIn(tk) /\ tk2 = tk
    /\ ms2 = Put(ms, t, SpaceOf(f)) /\ cx2 = Put(cx, t, x)
    /\ Execed(M, ms, AliveIn(tk), t, program, f, N, x)

(* The tasks of U keep their space and its content.                         *)
Spared(M, ms, cx, U, N, ms2, cx2) ==
    \A u \in U : ms2[u] = ms[u] /\ cx2[u] = cx[u] /\ Same(M, N, ms[u])

ExitStep(M, ms, cx, tk, t, N, ms2, cx2, tk2) ==
    /\ t \in AliveIn(tk) /\ AliveIn(tk2) = AliveIn(tk) \ {t}
    /\ Spared(M, ms, cx, AliveIn(tk2), N, ms2, cx2)

ReapStep(M, ms, cx, tk, t, N, ms2, cx2, tk2) ==
    AliveIn(tk2) = AliveIn(tk) /\ Spared(M, ms, cx, AliveIn(tk), N, ms2, cx2)

StoreStep(M, ms, cx, tk, t, vpn, v, N) == \E e :
    /\ t \in AliveIn(tk) /\ e = Translate(M.mem, Head(ms[t].nodes), vpn)
    /\ vpn \in 0 .. TRAMPOLINE /\ {"V", "U", "W"} \subseteq e.flags
    /\ \A u \in AliveIn(tk) : u # t => Same(M, N, ms[u])
    /\ e.ppn # cx[t] /\ N.mem[e.ppn][0] = Data(v)
    /\ \A y \in Frames : y # e.ppn => N.mem[y] = M.mem[y]

(* The invariant holds after boot.                                          *)
LEMMA InitInv ==
  ASSUME Init
  PROVE  Inv /\ BootState(Now, memory_set, trap_cx_ppn, task)
<1>1. PICK f, b, ms, tk : /\ f = BootUser /\ b = Booted /\ ms = [p \in Pids |-> NoSpace]
                          /\ tk = [p \in Pids |-> "none"]
  OBVIOUS
<1>2. PICK ms2 : ms2 = Put(ms, 0, SpaceOf(f))
  OBVIOUS
<1>3. PICK x : x = TrapContextOf(f)
  OBVIOUS
<1>4. 0 \in Pids /\ b.panic = "none"
  BY <1>1, MemoryAssumption DEF Init
<1>5. /\ mem = ExecMemory(b.mem, x, 0) /\ frame_current = b.current /\ frame_recycled = b.recycled
      /\ kernel_space = SpaceOf(b) /\ panic = "none" /\ builds = 0
      /\ trap_cx_ppn = [p \in Pids |-> IF p = 0 THEN x ELSE 0]
      /\ task = [p \in Pids |-> IF p = 0 THEN "alive" ELSE "none"]
  BY <1>1, <1>3 DEF Init, ExecMemory
<1>6. memory_set = ms2
  <2>1. memory_set = [p \in Pids |-> IF p = 0 THEN SpaceOf(f) ELSE NoSpace]
    BY <1>1 DEF Init
  <2> QED BY <1>1, <1>2, <1>4, <2>1 DEF Put
<1>7. task \in [Pids -> {"none", "alive", "zombie"}] /\ task[0] = "alive" /\ AliveIn(task) = {0}
      /\ task[0] # "none" /\ \A u \in Pids : u # 0 => task[u] = "none"
  BY <1>4, <1>5 DEF AliveIn
<1>8. KernelStacks(SpaceOf(b), task) /\ \E z : Booting(f, b, ms2, z)
  BY <1>1, <1>2, <1>4, <1>7, BootingFacts
<1>9. Booting(f, b, ms2, x)
  BY <1>3, <1>8 DEF Booting
<1>10. /\ Whole(f) /\ ElfImage(InitProgram, f) /\ ContextAt(SpaceOf(f), x) /\ x \in Frames /\ Running(b)
       /\ ms2 \in [Pids -> Spaces] /\ ms2[0] = SpaceOf(f) /\ \A u \in Pids : u # 0 => ms2[u] = NoSpace
       /\ Sound(b, SpaceOf(b), ms2) /\ Whole(InSpace(b, ms2[0]))
  BY <1>9 DEF Booting
<1>11. /\ mem \in [Frames -> Page] /\ mem[x][0] = Data(KernelStackTop(0))
       /\ \A y \in Frames : y # x => mem[y] = b.mem[y]
  <2>1. b.mem \in [Frames -> Page]
    BY <1>10, MachineFacts
  <2> QED BY <1>4, <1>5, <1>10, <2>1, ExecMemoryFacts
<1>12. Running(Now) /\ Now.mem = mem /\ Held(Now) = Held(b)
  BY <1>5, <1>10, <1>11, MachineIs DEF Now
<1>13. trap_cx_ppn \in [Pids -> {0} \cup Frames] /\ trap_cx_ppn[0] = x
  BY <1>4, <1>5, <1>10
<1>14. Sound(Now, SpaceOf(b), ms2) /\ Live(Now, ms2, trap_cx_ppn, {0})
  <2>1. PICK N, ks, cx : N = Now /\ ks = SpaceOf(b) /\ cx = trap_cx_ppn
    OBVIOUS
  <2>p. PICK p \in Pids : p = 0
    BY <1>4
  <2>2. PICK S \in SUBSET Pids : S = {0} /\ S \ {p} = {}
    BY <1>4, <2>p
  <2>3. Live(b, ms2, cx, S \ {p})
    BY <2>2 DEF Live
  <2>4. Sound(b, ks, ms2) /\ Whole(InSpace(b, ms2[p])) /\ ContextAt(ms2[p], cx[p])
    BY <1>10, <1>13, <2>1, <2>p
  <2>5. /\ \A y \in Frames : y # cx[p] => N.mem[y] = b.mem[y]
        /\ N.mem[cx[p]][0] = Data(KernelStackTop(p)) /\ Running(N) /\ Held(N) = Held(b)
    BY <1>11, <1>12, <1>13, <2>1, <2>p
  <2>6. Sound(N, ks, ms2) /\ Live(N, ms2, cx, S)
    BY <2>3, <2>4, <2>5, WriteContext
  <2> QED BY <2>1, <2>2, <2>6
<1>15. \A u \in Pids : task[u] = "none" => ms2[u] = NoSpace
  BY <1>7, <1>10
<1>16. Good(Now, SpaceOf(b), ms2, trap_cx_ppn, task)
  BY <1>7, <1>8, <1>13, <1>14, <1>15 DEF Good
<1>17. 0 \in 0 .. MaxBuilds
  BY MemoryAssumption
<1>18. mem[x][1] = Data(0)
  <2>1. b.mem \in [Frames -> Page]
    BY <1>10, MachineFacts
  <2> QED BY <1>4, <1>5, <1>10, <2>1, ExecMemoryFacts
<1>19. \A z \in Owned(SpaceOf(f)) : z # x => Now.mem[z] = f.mem[z]
  <2>1. \A z \in Owned(SpaceOf(f)) : b.mem[z] = f.mem[z] /\ z \in Frames
    <3>1. Owned(ms2[0]) \subseteq Held(b) /\ Held(b) \subseteq Frames
      BY <1>4, <1>10, SoundFacts
    <3> QED BY <1>9, <1>10, <3>1 DEF Booting
  <2> QED BY <1>11, <1>12, <2>1
<1>20. BootState(Now, memory_set, trap_cx_ppn, task)
  <2>1. /\ Whole(f) /\ ElfImage(InitProgram, f) /\ AliveIn(task) = {0}
        /\ memory_set[0] = SpaceOf(f) /\ trap_cx_ppn[0] = x /\ Now.mem[x][1] = Data(0)
    BY <1>6, <1>7, <1>10, <1>12, <1>13, <1>18
  <2> QED BY <1>19, <2>1, SMTT(30) DEF BootState
<1> QED BY <1>5, <1>6, <1>16, <1>17, <1>20 DEF Inv

(* A step that changes no memory and panics at most for want of frames.     *)
LEMMA KeepInv ==
  ASSUME Inv, UNCHANGED <<mem, frame_current, frame_recycled, kernel_space, memory_set,
                          trap_cx_ppn, task>>,
         panic' \in {"none", "space"}, builds' \in 0 .. MaxBuilds
  PROVE  Inv'
<1>1. Now' = Now
  BY DEF Now
<1> QED BY <1>1 DEF Inv

(* The end of an operation that found no frame, or did its work.            *)
LEMMA CommitInv ==
  ASSUME Inv, panic = "none", builds' \in 0 .. MaxBuilds,
         NEW b, NEW m, NEW ks, NEW ms, NEW cx, NEW tk, Commit(b, m, ks, ms, cx, tk),
         NEW N, N = Machine(m, b.current, b.recycled),
         Stuck(b) \/ (b.panic = "none" /\ Good(N, ks, ms, cx, tk))
  PROVE  /\ Inv'
         /\ \/ Stuck(b) /\ Idle
            \/ /\ b.panic = "none" /\ Now' = N /\ memory_set' = ms
               /\ trap_cx_ppn' = cx /\ task' = tk
<1>1. CASE Stuck(b)
  <2>1. b.panic = "space"
    BY <1>1 DEF Stuck
  <2>2. /\ UNCHANGED <<mem, frame_current, frame_recycled, kernel_space, memory_set,
                       trap_cx_ppn, task>>
        /\ panic' = "space"
    BY <2>1 DEF Commit
  <2> QED BY <1>1, <2>2, KeepInv DEF Idle
<1>2. CASE b.panic = "none" /\ Good(N, ks, ms, cx, tk)
  <2>1. /\ mem' = m /\ frame_current' = b.current /\ frame_recycled' = b.recycled
        /\ kernel_space' = ks /\ memory_set' = ms /\ trap_cx_ppn' = cx /\ task' = tk
        /\ panic' = "none"
    BY <1>2 DEF Commit
  <2>2. Now' = N
    BY <2>1 DEF Now
  <2>3. Good(Now', kernel_space', memory_set', trap_cx_ppn', task')
    BY <1>2, <2>1, <2>2
  <2> QED BY <1>2, <2>1, <2>2, <2>3 DEF Inv
<1> QED BY <1>1, <1>2

(* What the invariant says of the variables.                                *)
LEMMA InvFacts ==
  ASSUME Inv
  PROVE  /\ Sound(Now, kernel_space, memory_set) /\ Live(Now, memory_set, trap_cx_ppn, AliveIn(task))
         /\ KernelStacks(kernel_space, task) /\ trap_cx_ppn \in [Pids -> {0} \cup Frames]
         /\ task \in [Pids -> {"none", "alive", "zombie"}]
         /\ \A u \in Pids : task[u] = "none" => memory_set[u] = NoSpace
         /\ memory_set \in [Pids -> Spaces] /\ AliveIn(task) \in SUBSET Pids
         /\ builds \in 0 .. MaxBuilds
<1>1. Good(Now, kernel_space, memory_set, trap_cx_ppn, task) /\ builds \in 0 .. MaxBuilds
  BY DEF Inv
<1> QED BY <1>1 DEF Good, Sound, AliveIn

(* The tasks after a step.                                                  *)
LEMMA TaskPut ==
  ASSUME NEW tk \in [Pids -> {"none", "alive", "zombie"}], NEW t \in Pids,
         NEW s \in {"none", "alive", "zombie"}, NEW tk2, tk2 = Put(tk, t, s)
  PROVE  /\ tk2 \in [Pids -> {"none", "alive", "zombie"}] /\ tk2[t] = s
         /\ \A u \in Pids : u # t => tk2[u] = tk[u]
         /\ AliveIn(tk2) = (AliveIn(tk) \ {t}) \cup (IF s = "alive" THEN {t} ELSE {})
BY DEF Put, AliveIn

(* fork.                                                                    *)
LEMMA ForkInv ==
  ASSUME Inv, NEW t \in Pids, NEW c \in Pids, Fork(t, c)
  PROVE  /\ Inv'
         /\ \/ Idle
            \/ ForkStep(Now, memory_set, trap_cx_ppn, task, t, c,
                        Now', memory_set', trap_cx_ppn', task')
<1>1. PICK M, ks, ms, cx, tk : /\ M = Now /\ ks = kernel_space /\ ms = memory_set
                               /\ cx = trap_cx_ppn /\ tk = task
  OBVIOUS
<1>2. PICK S \in SUBSET Pids : S = AliveIn(tk)
  BY <1>1, InvFacts
<1>3. /\ Sound(M, ks, ms) /\ Live(M, ms, cx, S) /\ KernelStacks(ks, tk)
      /\ cx \in [Pids -> {0} \cup Frames] /\ tk \in [Pids -> {"none", "alive", "zombie"}]
      /\ \A u \in Pids : tk[u] = "none" => ms[u] = NoSpace
  BY <1>1, <1>2, InvFacts
<1>4. PICK f : f = FromExistedUser(M, ms[t])
  OBVIOUS
<1>5. PICK b, x : b = KernelStackNew(InSpace(f, ks), c) /\ x = TrapContextOf(f)
  OBVIOUS
<1>6. PICK m, ms2, cx2, tk2 : /\ m = ForkMemory(b.mem, x, cx[t], c) /\ ms2 = Put(ms, c, SpaceOf(f))
                              /\ cx2 = Put(cx, c, x) /\ tk2 = Put(tk, c, "alive")
  OBVIOUS
<1>7. /\ panic = "none" /\ tk[t] = "alive" /\ tk[c] = "none" /\ builds < MaxBuilds /\ builds' = builds + 1
      /\ Commit(b, m, SpaceOf(b), ms2, cx2, tk2)
  <2>1. /\ panic = "none" /\ tk[t] = "alive" /\ tk[c] = "none" /\ builds < MaxBuilds
        /\ builds' = builds + 1
    BY <1>1, Zenon DEF Fork
  <2>2. Commit(b, m, SpaceOf(b), ms2, cx2, tk2)
    BY <1>1, <1>4, <1>5, <1>6, Zenon DEF Fork, ForkMemory, Put
  <2> QED BY <2>1, <2>2
<1>8. t \in S /\ c \notin S /\ ms[c] = NoSpace
  BY <1>2, <1>3, <1>7 DEF AliveIn
<1>9. /\ tk2 \in [Pids -> {"none", "alive", "zombie"}] /\ tk2[c] = "alive"
      /\ \A u \in Pids : u # c => tk2[u] = tk[u]
      /\ AliveIn(tk2) = S \cup {c}
  BY <1>2, <1>3, <1>6, <1>8, TaskPut
<1>10. PICK N : N = Machine(m, b.current, b.recycled)
  OBVIOUS
<1>11. \/ Stuck(b)
       \/ /\ b.panic = "none" /\ Sound(N, SpaceOf(b), ms2) /\ Live(N, ms2, cx2, S \cup {c})
          /\ KernelStacks(SpaceOf(b), tk2) /\ cx2 \in [Pids -> {0} \cup Frames]
          /\ Forked(M, ms, cx, S, t, c, f, N, x)
  <2>1. N = Machine(ForkMemory(b.mem, x, cx[t], c), b.current, b.recycled) /\ tk2[c] # "none"
    BY <1>6, <1>9, <1>10
  <2>2. /\ Sound(M, ks, ms) /\ Live(M, ms, cx, S) /\ KernelStacks(ks, tk) /\ tk[c] = "none"
        /\ cx \in [Pids -> {0} \cup Frames] /\ ms[c] = NoSpace /\ t \in S /\ c \notin S
    BY <1>3, <1>7, <1>8
  <2>3. ms2 = Put(ms, c, SpaceOf(f)) /\ cx2 = Put(cx, c, x) /\ \A u \in Pids : u # c => tk2[u] = tk[u]
    BY <1>6, <1>9
  <2> QED BY <1>4, <1>5, <2>1, <2>2, <2>3, ForkFacts
<1>12. ASSUME ~Stuck(b)
       PROVE  \A u \in Pids : tk2[u] = "none" => ms2[u] = NoSpace
  <2>1. \A u \in Pids : u # c => ms2[u] = ms[u]
    BY <1>6, InvFacts, <1>1 DEF Put
  <2> QED BY <1>3, <1>9, <2>1
<1>13. Stuck(b) \/ (b.panic = "none" /\ Good(N, SpaceOf(b), ms2, cx2, tk2))
  BY <1>9, <1>11, <1>12 DEF Good
<1>14. builds' \in 0 .. MaxBuilds
  BY <1>7, InvFacts, MemoryAssumption
<1>15. /\ Inv'
       /\ \/ Stuck(b) /\ Idle
          \/ /\ b.panic = "none" /\ Now' = N /\ memory_set' = ms2
             /\ trap_cx_ppn' = cx2 /\ task' = tk2
  BY <1>7, <1>10, <1>13, <1>14, CommitInv
<1>16. ASSUME ~Stuck(b)
       PROVE  ForkStep(M, ms, cx, tk, t, c, N, ms2, cx2, tk2)
  <2>1. Forked(M, ms, cx, AliveIn(tk), t, c, f, N, x)
    BY <1>2, <1>11, <1>16
  <2>2. t \in AliveIn(tk) /\ c \notin AliveIn(tk) /\ AliveIn(tk2) = AliveIn(tk) \cup {c}
    BY <1>2, <1>8, <1>9
  <2> QED BY <1>6, <2>1, <2>2, Zenon DEF ForkStep
<1>17. b.panic = "none" => ~Stuck(b)
  BY DEF Stuck
<1> QED BY <1>1, <1>15, <1>16, <1>17, Zenon

(* exec.                                                                    *)
LEMMA ExecInv ==
  ASSUME Inv, NEW t \in Pids, NEW program \in Programs, Exec(t, program)
  PROVE  /\ Inv'
         /\ \/ Idle
            \/ ExecStep(Now, memory_set, trap_cx_ppn, task, t, program,
                        Now', memory_set', trap_cx_ppn', task')
<1>1. PICK M, ks, ms, cx, tk : /\ M = Now /\ ks = kernel_space /\ ms = memory_set
                               /\ cx = trap_cx_ppn /\ tk = task
  OBVIOUS
<1>2. PICK S \in SUBSET Pids : S = AliveIn(tk)
  BY <1>1, InvFacts
<1>3. /\ Sound(M, ks, ms) /\ Live(M, ms, cx, S) /\ KernelStacks(ks, tk)
      /\ cx \in [Pids -> {0} \cup Frames] /\ tk \in [Pids -> {"none", "alive", "zombie"}]
      /\ \A u \in Pids : tk[u] = "none" => ms[u] = NoSpace
      /\ ms \in [Pids -> Spaces]
  BY <1>1, <1>2, InvFacts
<1>4. PICK f : f = FromElf(M, program)
  OBVIOUS
<1>5. PICK b, x : b = DropSpace(f, ms[t]) /\ x = TrapContextOf(f)
  OBVIOUS
<1>6. PICK m, ms2, cx2 : /\ m = ExecMemory(b.mem, x, t) /\ ms2 = Put(ms, t, SpaceOf(f))
                         /\ cx2 = Put(cx, t, x)
  OBVIOUS
<1>7. cx2[t] = x
  BY <1>3, <1>6 DEF Put
<1>8. /\ panic = "none" /\ tk[t] = "alive" /\ builds < MaxBuilds /\ builds' = builds + 1
      /\ Commit(b, m, ks, ms2, cx2, tk)
  <2>1. panic = "none" /\ tk[t] = "alive" /\ builds < MaxBuilds /\ builds' = builds + 1
    BY <1>1, Zenon DEF Exec
  <2>2. TrapContextMoved(t, f) = cx2
    BY <1>1, <1>5, <1>6, Zenon DEF TrapContextMoved, Put
  <2>3. Commit(b, [b.mem EXCEPT ![cx2[t]] = InitContext(t)], ks, ms2, cx2, tk)
    BY <1>1, <1>4, <1>5, <1>6, <2>2, Zenon DEF Exec, Put
  <2>4. m = [b.mem EXCEPT ![cx2[t]] = InitContext(t)]
    BY <1>6, <1>7, Zenon DEF ExecMemory
  <2> QED BY <2>1, <2>3, <2>4
<1>9. t \in S
  BY <1>2, <1>8 DEF AliveIn
<1>10. PICK N : N = Machine(m, b.current, b.recycled)
  OBVIOUS
<1>11. \/ Stuck(b)
       \/ /\ b.panic = "none" /\ Sound(N, ks, ms2) /\ Live(N, ms2, cx2, S)
          /\ cx2 \in [Pids -> {0} \cup Frames] /\ cx2[t] = x
          /\ Execed(M, ms, S, t, program, f, N, x)
  <2>1. N = Machine(ExecMemory(b.mem, x, t), b.current, b.recycled)
    BY <1>6, <1>10
  <2>2. /\ Sound(M, ks, ms) /\ Live(M, ms, cx, S) /\ cx \in [Pids -> {0} \cup Frames] /\ t \in S
        /\ ms2 = Put(ms, t, SpaceOf(f)) /\ cx2 = Put(cx, t, x)
    BY <1>3, <1>6, <1>9
  <2> QED BY <1>4, <1>5, <2>1, <2>2, ExecFacts
<1>12. \A u \in Pids : tk[u] = "none" => ms2[u] = NoSpace
  BY <1>3, <1>6, <1>8 DEF Put
<1>13. Stuck(b) \/ (b.panic = "none" /\ Good(N, ks, ms2, cx2, tk))
  BY <1>2, <1>3, <1>11, <1>12 DEF Good
<1>14. builds' \in 0 .. MaxBuilds
  BY <1>8, InvFacts, MemoryAssumption
<1>15. /\ Inv'
       /\ \/ Stuck(b) /\ Idle
          \/ /\ b.panic = "none" /\ Now' = N /\ memory_set' = ms2
             /\ trap_cx_ppn' = cx2 /\ task' = tk
  BY <1>8, <1>10, <1>13, <1>14, CommitInv
<1>16. ASSUME ~Stuck(b)
       PROVE  ExecStep(M, ms, cx, tk, t, program, N, ms2, cx2, tk)
  <2>1. Execed(M, ms, AliveIn(tk), t, program, f, N, x) /\ t \in AliveIn(tk)
    BY <1>2, <1>9, <1>11, <1>16
  <2> QED BY <1>6, <2>1, Zenon DEF ExecStep
<1>17. b.panic = "none" => ~Stuck(b)
  BY DEF Stuck
<1> QED BY <1>1, <1>15, <1>16, <1>17, Zenon

(* exit.                                                                    *)
LEMMA ExitInv ==
  ASSUME Inv, NEW t \in Pids, Exit(t)
  PROVE  /\ Inv'
         /\ ExitStep(Now, memory_set, trap_cx_ppn, task, t,
                     Now', memory_set', trap_cx_ppn', task')
<1>1. PICK M, ks, ms, cx, tk : /\ M = Now /\ ks = kernel_space /\ ms = memory_set
                               /\ cx = trap_cx_ppn /\ tk = task
  OBVIOUS
<1>2. PICK S \in SUBSET Pids : S = AliveIn(tk)
  BY <1>1, InvFacts
<1>3. /\ Sound(M, ks, ms) /\ Live(M, ms, cx, S) /\ KernelStacks(ks, tk)
      /\ cx \in [Pids -> {0} \cup Frames] /\ tk \in [Pids -> {"none", "alive", "zombie"}]
      /\ \A u \in Pids : tk[u] = "none" => ms[u] = NoSpace
      /\ ms \in [Pids -> Spaces]
  BY <1>1, <1>2, InvFacts
<1>4. PICK b, ms2, tk2 : /\ b = RecycleDataPages(M, ms[t]) /\ ms2 = Put(ms, t, AreasCleared(ms[t]))
                         /\ tk2 = Put(tk, t, "zombie")
  OBVIOUS
<1>5. /\ panic = "none" /\ tk[t] = "alive" /\ builds' = builds
      /\ Commit(b, b.mem, ks, ms2, cx, tk2)
  <2>1. panic = "none" /\ tk[t] = "alive" /\ builds' = builds
    BY <1>1, Zenon DEF Exit
  <2>2. Commit(b, b.mem, ks, ms2, cx, tk2)
    BY <1>1, <1>4, Zenon DEF Exit, Put
  <2> QED BY <2>1, <2>2
<1>6. t \in S
  BY <1>2, <1>5 DEF AliveIn
<1>7. /\ tk2 \in [Pids -> {"none", "alive", "zombie"}] /\ tk2[t] = "zombie"
      /\ \A u \in Pids : u # t => tk2[u] = tk[u]
      /\ AliveIn(tk2) = S \ {t}
  BY <1>2, <1>3, <1>4, TaskPut
<1>8. PICK N : N = Machine(b.mem, b.current, b.recycled)
  OBVIOUS
<1>9. b.panic = "none" /\ Sound(N, ks, ms2) /\ Live(N, ms2, cx, S \ {t}) /\ N.mem = M.mem
  <2>1. Sound(M, ks, ms) /\ Live(M, ms, cx, S)
    BY <1>3
  <2>2. PICK sp : sp = AreasCleared(ms[t])
    OBVIOUS
  <2>3. b = RecycleDataPages(M, ms[t]) /\ ms2 = Put(ms, t, sp)
    BY <1>4, <2>2
  <2>4. Exited(M, ks, cx, S, t, b, ms2, N)
    BY <1>6, <1>8, <2>1, <2>2, <2>3, ExitFacts
  <2> QED BY <2>4 DEF Exited
<1>10. \A u \in Pids : tk2[u] = "none" => ms2[u] = NoSpace
  BY <1>3, <1>4, <1>7 DEF Put
<1>11. KernelStacks(ks, tk2)
  BY <1>3, <1>5, <1>7 DEF KernelStacks
<1>12. b.panic = "none" /\ Good(N, ks, ms2, cx, tk2)
  BY <1>3, <1>7, <1>9, <1>10, <1>11 DEF Good
<1>13. builds' \in 0 .. MaxBuilds
  BY <1>5, InvFacts
<1>14. /\ Inv'
       /\ \/ Stuck(b) /\ Idle
          \/ /\ b.panic = "none" /\ Now' = N /\ memory_set' = ms2
             /\ trap_cx_ppn' = cx /\ task' = tk2
  BY <1>5, <1>8, <1>12, <1>13, CommitInv
<1>15. ~Stuck(b)
  BY <1>12 DEF Stuck
<1>16. \A u \in S \ {t} : ms2[u] = ms[u] /\ Same(M, N, ms[u])
  BY <1>3, <1>4, <1>9 DEF Put, Same
<1>17. ExitStep(M, ms, cx, tk, t, N, ms2, cx, tk2)
  BY <1>2, <1>6, <1>7, <1>16 DEF ExitStep, Spared
<1> QED BY <1>1, <1>14, <1>15, <1>17, Zenon

(* waitpid.                                                                 *)
LEMMA ReapInv ==
  ASSUME Inv, NEW t \in Pids, Reap(t)
  PROVE  /\ Inv'
         /\ ReapStep(Now, memory_set, trap_cx_ppn, task, t,
                     Now', memory_set', trap_cx_ppn', task')
<1>1. PICK M, ks, ms, cx, tk : /\ M = Now /\ ks = kernel_space /\ ms = memory_set
                               /\ cx = trap_cx_ppn /\ tk = task
  OBVIOUS
<1>2. PICK S \in SUBSET Pids : S = AliveIn(tk)
  BY <1>1, InvFacts
<1>3. /\ Sound(M, ks, ms) /\ Live(M, ms, cx, S) /\ KernelStacks(ks, tk)
      /\ cx \in [Pids -> {0} \cup Frames] /\ tk \in [Pids -> {"none", "alive", "zombie"}]
      /\ \A u \in Pids : tk[u] = "none" => ms[u] = NoSpace
      /\ ms \in [Pids -> Spaces]
  BY <1>1, <1>2, InvFacts
<1>4. PICK k : k = RemoveAreaWithStartVpn(InSpace(M, ks), KernelStackBottom(t))
  OBVIOUS
<1>5. PICK b, ms2, cx2, tk2 : /\ b = DropSpace(k, ms[t]) /\ ms2 = Put(ms, t, NoSpace)
                              /\ cx2 = Put(cx, t, 0) /\ tk2 = Put(tk, t, "none")
  OBVIOUS
<1>6. /\ panic = "none" /\ tk[t] = "zombie" /\ builds' = builds
      /\ Commit(b, b.mem, SpaceOf(k), ms2, cx2, tk2)
  <2>1. panic = "none" /\ tk[t] = "zombie" /\ builds' = builds
    BY <1>1, Zenon DEF Reap
  <2>2. Commit(b, b.mem, SpaceOf(k), ms2, cx2, tk2)
    BY <1>1, <1>4, <1>5, Zenon DEF Reap, Put
  <2> QED BY <2>1, <2>2
<1>7. t \notin S
  BY <1>2, <1>6 DEF AliveIn
<1>8. /\ tk2 \in [Pids -> {"none", "alive", "zombie"}] /\ tk2[t] = "none"
      /\ \A u \in Pids : u # t => tk2[u] = tk[u]
      /\ AliveIn(tk2) = S
  <2>1. PICK s \in {"none", "alive", "zombie"} : s = "none"
    OBVIOUS
  <2>2. /\ tk2 \in [Pids -> {"none", "alive", "zombie"}] /\ tk2[t] = s
        /\ \A u \in Pids : u # t => tk2[u] = tk[u]
        /\ AliveIn(tk2) = (AliveIn(tk) \ {t}) \cup (IF s = "alive" THEN {t} ELSE {})
    BY <1>3, <1>5, <2>1, TaskPut
  <2> QED BY <1>2, <1>7, <2>1, <2>2
<1>9. cx2 \in [Pids -> {0} \cup Frames] /\ \A u \in Pids : u # t => cx2[u] = cx[u]
  BY <1>3, <1>5 DEF Put
<1>10. PICK N : N = Machine(b.mem, b.current, b.recycled)
  OBVIOUS
<1>11. /\ b.panic = "none" /\ Sound(N, SpaceOf(k), ms2) /\ Live(N, ms2, cx2, S)
       /\ KernelStacks(SpaceOf(k), tk2) /\ \A u \in S : Same(M, N, ms[u])
  <2>1. \A u \in S : cx2[u] = cx[u]
    BY <1>7, <1>9
  <2>2. Sound(M, ks, ms) /\ Live(M, ms, cx, S) /\ KernelStacks(ks, tk) /\ t \notin S
    BY <1>3, <1>7
  <2>3. \A u \in Pids : u # t => tk2[u] = tk[u]
    BY <1>8
  <2> QED BY <1>4, <1>5, <1>10, <2>1, <2>2, <2>3, ReapFacts
<1>12. \A u \in Pids : tk2[u] = "none" => ms2[u] = NoSpace
  BY <1>3, <1>5, <1>8 DEF Put
<1>13. b.panic = "none" /\ Good(N, SpaceOf(k), ms2, cx2, tk2)
  BY <1>8, <1>9, <1>11, <1>12 DEF Good
<1>14. builds' \in 0 .. MaxBuilds
  BY <1>6, InvFacts
<1>15. /\ Inv'
       /\ \/ Stuck(b) /\ Idle
          \/ /\ b.panic = "none" /\ Now' = N /\ memory_set' = ms2
             /\ trap_cx_ppn' = cx2 /\ task' = tk2
  BY <1>6, <1>10, <1>13, <1>14, CommitInv
<1>16. ~Stuck(b)
  BY <1>13 DEF Stuck
<1>17. \A u \in S : ms2[u] = ms[u] /\ cx2[u] = cx[u] /\ Same(M, N, ms[u])
  BY <1>3, <1>5, <1>7, <1>9, <1>11 DEF Put
<1>18. ReapStep(M, ms, cx, tk, t, N, ms2, cx2, tk2)
  BY <1>2, <1>8, <1>17 DEF ReapStep, Spared
<1> QED BY <1>1, <1>15, <1>16, <1>18, Zenon

(* A store of a program.                                                    *)
LEMMA StoreInv ==
  ASSUME Inv, NEW t \in Pids, NEW vpn \in Pages, NEW v \in Values, Store(t, vpn, v)
  PROVE  /\ Inv' /\ UNCHANGED <<memory_set, trap_cx_ppn, task>>
         /\ StoreStep(Now, memory_set, trap_cx_ppn, task, t, vpn, v, Now')
<1>1. PICK M, ks, ms, cx, tk : /\ M = Now /\ ks = kernel_space /\ ms = memory_set
                               /\ cx = trap_cx_ppn /\ tk = task
  OBVIOUS
<1>2. PICK S \in SUBSET Pids : S = AliveIn(tk)
  BY <1>1, InvFacts
<1>3. /\ Sound(M, ks, ms) /\ Live(M, ms, cx, S) /\ KernelStacks(ks, tk)
      /\ cx \in [Pids -> {0} \cup Frames] /\ tk \in [Pids -> {"none", "alive", "zombie"}]
      /\ \A u \in Pids : tk[u] = "none" => ms[u] = NoSpace
      /\ ms \in [Pids -> Spaces]
  BY <1>1, <1>2, InvFacts
<1>4. M.mem = mem /\ M.current = frame_current /\ M.recycled = frame_recycled
  BY <1>1, NowFacts DEF Now
<1>5. PICK e : e = Translate(M.mem, Head(ms[t].nodes), vpn)
  OBVIOUS
<1>6. e = Translate(mem, Head(memory_set[t].nodes), vpn)
  BY <1>1, <1>4, <1>5, Zenon
<1>7. /\ tk[t] = "alive" /\ {"V", "U", "W"} \subseteq e.flags
      /\ mem' = [mem EXCEPT ![e.ppn][0] = Data(v)]
      /\ UNCHANGED <<frame_current, frame_recycled, kernel_space, memory_set, trap_cx_ppn,
                     task, panic, builds>>
  BY <1>1, <1>6, Zenon DEF Store
<1>8. mem' = Word1(M.mem, e.ppn, 0, v)
  BY <1>4, <1>7, Zenon DEF Word1
<1>9. PICK N : N = Machine(Word1(M.mem, e.ppn, 0, v), M.current, M.recycled)
  OBVIOUS
<1>10. t \in S
  BY <1>2, <1>7 DEF AliveIn
<1>11. /\ Sound(N, ks, ms) /\ Live(N, ms, cx, S) /\ vpn \in 0 .. TRAMPOLINE
       /\ \A u \in S : u # t => Same(M, N, ms[u])
       /\ e.ppn # cx[t] /\ N.mem[e.ppn][0] = Data(v)
       /\ \A y \in Frames : y # e.ppn => N.mem[y] = M.mem[y]
  BY <1>3, <1>5, <1>7, <1>9, <1>10, StoreFacts
<1>12. Good(N, ks, ms, cx, tk)
  BY <1>2, <1>3, <1>11 DEF Good
<1>13. Now' = N
  BY <1>4, <1>7, <1>8, <1>9 DEF Now
<1>14. Good(Now', kernel_space', memory_set', trap_cx_ppn', task')
  BY <1>1, <1>7, <1>12, <1>13
<1>15. panic' \in {"none", "space"} /\ builds' \in 0 .. MaxBuilds
  BY <1>7 DEF Inv
<1>16. Inv'
  BY <1>14, <1>15 DEF Inv
<1>17. StoreStep(M, ms, cx, tk, t, vpn, v, N)
  BY <1>2, <1>5, <1>7, <1>10, <1>11, Zenon DEF StoreStep
<1> QED BY <1>1, <1>7, <1>13, <1>16, <1>17, Zenon

(* Every step preserves the invariant.                                      *)
LEMMA NextInv ==
  ASSUME Inv, [Next]_vars
  PROVE  Inv'
<1>1. CASE UNCHANGED vars
  <2>1. /\ UNCHANGED <<mem, frame_current, frame_recycled, kernel_space, memory_set,
                       trap_cx_ppn, task>>
        /\ panic' = panic /\ builds' = builds
    BY <1>1 DEF vars
  <2>2. panic' \in {"none", "space"} /\ builds' \in 0 .. MaxBuilds
    BY <2>1 DEF Inv
  <2> QED BY <2>1, <2>2, KeepInv
<1>2. CASE Next
  <2>1. PICK t \in Pids :
          \/ \E c \in Pids : Fork(t, c)
          \/ \E program \in Programs : Exec(t, program)
          \/ Exit(t)
          \/ Reap(t)
          \/ \E vpn \in Pages, v \in Values : Store(t, vpn, v)
    BY <1>2 DEF Next
  <2>2. CASE \E c \in Pids : Fork(t, c)
    BY <2>2, ForkInv
  <2>3. CASE \E program \in Programs : Exec(t, program)
    BY <2>3, ExecInv
  <2>4. CASE Exit(t)
    BY <2>4, ExitInv
  <2>5. CASE Reap(t)
    BY <2>5, ReapInv
  <2>6. CASE \E vpn \in Pages, v \in Values : Store(t, vpn, v)
    BY <2>6, StoreInv
  <2> QED BY <2>1, <2>2, <2>3, <2>4, <2>5, <2>6
<1> QED BY <1>1, <1>2

(* The invariant of the address spaces: the allocator's frames are divided  *)
(* among the kernel and the tasks, every table that is in use describes its *)
(* areas, and only tasks that are there have a kernel stack.                *)
THEOREM InvHolds == Spec => []Inv
<1>1. Init => Inv
  BY InitInv
<1>2. Inv /\ [Next]_vars => Inv'
  BY NextInv
<1> QED BY <1>1, <1>2, PTL DEF Spec

(* Frames, areas and the page tables in memory agree, however fork, exec,   *)
(* exit, waitpid and the stores of programs follow each other, for any      *)
(* number of frames, tasks and programs: no frame is lost, shared or used   *)
(* after it was freed, and every table walk finds exactly what was mapped.  *)
THEOREM SpacesAreConsistent == Spec => []SpacesConsistent
<1>1. Inv => SpacesConsistent
  BY InvTypes, InvOwned, InvTables DEF SpacesConsistent
<1> QED BY <1>1, InvHolds, PTL

(* trap_cx_ppn always is the frame the task's own table gives for the trap  *)
(* context, and the context there has the task's own kernel stack.          *)
THEOREM TrapContextsAreCurrent == Spec => []TrapContextCurrent
<1>1. Inv => TrapContextCurrent
  BY InvContexts
<1> QED BY <1>1, InvHolds, PTL

(* The asserts of StackFrameAllocator::dealloc, PageTable::map and unmap    *)
(* never fail: the only panic left is that of an empty allocator.           *)
THEOREM NoAssertEverFails == Spec => []NoAssertFails
<1>1. Inv => NoAssertFails
  BY DEF Inv, NoAssertFails
<1> QED BY <1>1, InvHolds, PTL

-----------------------------------------------------------------------------
(* What a program sees of its memory.                                       *)
UserPagesIn(c) == {v \in 0 .. TRAMPOLINE : {"V", "U"} \subseteq Lookup(c, v).flags}
ImageIn(c) == [v \in UserPagesIn(c) |-> c.mem[Lookup(c, v).ppn][0].ppn]

(* Page i of area k is a page of the program.                               *)
UserPage(c, k, i) == k \in DOMAIN c.areas /\ i \in 1 .. c.areas[k].pages /\ "U" \in c.areas[k].perm

(* The pages of a program are those of its user areas.                      *)
LEMMA UserPageFacts ==
  ASSUME NEW c, Whole(c)
  PROVE  /\ \A v \in UserPagesIn(c) : \E k, i : UserPage(c, k, i) /\ v = c.areas[k].start + i - 1
         /\ \A k, i : UserPage(c, k, i) =>
              /\ c.areas[k].start + i - 1 \in UserPagesIn(c)
              /\ Lookup(c, c.areas[k].start + i - 1).ppn = c.areas[k].frames[i]
<1>1. /\ Ready(c) /\ Mapped(c) /\ Placed(c.areas) /\ c.areas \in Seq(AreaSet)
      /\ \A k \in DOMAIN c.areas : /\ DOMAIN c.areas[k].frames = 1 .. c.areas[k].pages
                                   /\ c.areas[k].pages \in Nat /\ c.areas[k].start \in Nat
  BY WholeFacts
<1>2. ASSUME NEW v \in UserPagesIn(c)
      PROVE  \E k, i : UserPage(c, k, i) /\ v = c.areas[k].start + i - 1
  <2>1. PICK e : e = Lookup(c, v)
    OBVIOUS
  <2>2. v \in 0 .. TRAMPOLINE /\ "V" \in e.flags /\ "U" \in e.flags
    BY <2>1 DEF UserPagesIn
  <2>3. v # TRAMPOLINE
    <3>1. TrampolineEntry.flags = {"R", "X", "V"}
      BY DEF TrampolineEntry, Entry
    <3>2. Lookup(c, TRAMPOLINE).flags = {"R", "X", "V"}
      BY <1>1, <3>1 DEF Mapped
    <3> QED BY <2>1, <2>2, <3>2
  <2>4. Valid(Lookup(c, v))
    BY <2>1, <2>2, Zenon DEF Valid
  <2>5. PICK k \in DOMAIN c.areas : \E i \in DOMAIN c.areas[k].frames : v = c.areas[k].start + i - 1
    BY <1>1, <2>2, <2>3, <2>4 DEF Mapped
  <2>6. PICK i \in DOMAIN c.areas[k].frames : v = c.areas[k].start + i - 1
    BY <2>5
  <2>7. e.flags = c.areas[k].perm \cup {"V"}
    <3>1. Lookup(c, c.areas[k].start + i - 1).flags = c.areas[k].perm \cup {"V"}
      BY <1>1, PageLookup
    <3> QED BY <2>1, <2>6, <3>1, Zenon
  <2>8. UserPage(c, k, i)
    BY <1>1, <2>2, <2>7 DEF UserPage
  <2> QED BY <2>6, <2>8
<1>3. ASSUME NEW k, NEW i, UserPage(c, k, i)
      PROVE  /\ c.areas[k].start + i - 1 \in UserPagesIn(c)
             /\ Lookup(c, c.areas[k].start + i - 1).ppn = c.areas[k].frames[i]
  <2>1. k \in DOMAIN c.areas /\ i \in 1 .. c.areas[k].pages /\ "U" \in c.areas[k].perm
    BY <1>3 DEF UserPage
  <2>2. i \in DOMAIN c.areas[k].frames
    BY <1>1, <2>1
  <2>3. /\ Lookup(c, c.areas[k].start + i - 1).ppn = c.areas[k].frames[i]
        /\ Lookup(c, c.areas[k].start + i - 1).flags = c.areas[k].perm \cup {"V"}
    BY <1>1, <2>1, <2>2, PageLookup
  <2>4. c.areas[k].start + i - 1 \in 0 .. TRAMPOLINE
    BY <1>1, <2>1, PageBelow
  <2> QED BY <2>1, <2>3, <2>4 DEF UserPagesIn
<1> QED BY <1>2, <1>3

(* Two spaces with the same areas and the same words in their user pages.   *)
Alike(c, d) ==
    /\ DOMAIN d.areas = DOMAIN c.areas
    /\ \A k \in DOMAIN c.areas :
         /\ d.areas[k].start = c.areas[k].start /\ d.areas[k].pages = c.areas[k].pages
         /\ d.areas[k].perm = c.areas[k].perm
    /\ \A k, i : UserPage(c, k, i) =>
         d.mem[d.areas[k].frames[i]][0].ppn = c.mem[c.areas[k].frames[i]][0].ppn

(* They are the same to a program.                                          *)
LEMMA AlikeImages ==
  ASSUME NEW c, Whole(c), NEW d, Whole(d), Alike(c, d)
  PROVE  ImageIn(d) = ImageIn(c)
<1>1. /\ \A v \in UserPagesIn(c) : \E k, i : UserPage(c, k, i) /\ v = c.areas[k].start + i - 1
      /\ \A k, i : UserPage(c, k, i) =>
           /\ c.areas[k].start + i - 1 \in UserPagesIn(c)
           /\ Lookup(c, c.areas[k].start + i - 1).ppn = c.areas[k].frames[i]
  BY UserPageFacts
<1>2. /\ \A v \in UserPagesIn(d) : \E k, i : UserPage(d, k, i) /\ v = d.areas[k].start + i - 1
      /\ \A k, i : UserPage(d, k, i) =>
           /\ d.areas[k].start + i - 1 \in UserPagesIn(d)
           /\ Lookup(d, d.areas[k].start + i - 1).ppn = d.areas[k].frames[i]
  BY UserPageFacts
<1>3. ASSUME NEW k, NEW i, UserPage(c, k, i) \/ UserPage(d, k, i)
      PROVE  /\ UserPage(c, k, i) /\ UserPage(d, k, i) /\ d.areas[k].start = c.areas[k].start
             /\ d.mem[d.areas[k].frames[i]][0].ppn = c.mem[c.areas[k].frames[i]][0].ppn
  BY <1>3, Zenon DEF Alike, UserPage
<1>4. ASSUME NEW v \in UserPagesIn(c)
      PROVE  v \in UserPagesIn(d) /\ d.mem[Lookup(d, v).ppn][0].ppn = c.mem[Lookup(c, v).ppn][0].ppn
  <2>1. PICK k, i : UserPage(c, k, i) /\ v = c.areas[k].start + i - 1
    BY <1>1
  <2>2. /\ UserPage(d, k, i) /\ d.areas[k].start = c.areas[k].start
        /\ d.mem[d.areas[k].frames[i]][0].ppn = c.mem[c.areas[k].frames[i]][0].ppn
    BY <1>3, <2>1
  <2>3. v = d.areas[k].start + i - 1
    BY <2>1, <2>2, Zenon
  <2>4. Lookup(c, v).ppn = c.areas[k].frames[i]
    BY <1>1, <2>1, Zenon
  <2>5. Lookup(d, v).ppn = d.areas[k].frames[i] /\ v \in UserPagesIn(d)
    BY <1>2, <2>2, <2>3, Zenon
  <2> QED BY <2>2, <2>4, <2>5, Zenon
<1>5. ASSUME NEW v \in UserPagesIn(d)
      PROVE  v \in UserPagesIn(c)
  <2>1. PICK k, i : UserPage(d, k, i) /\ v = d.areas[k].start + i - 1
    BY <1>2
  <2>2. UserPage(c, k, i) /\ d.areas[k].start = c.areas[k].start
    BY <1>3, <2>1
  <2> QED BY <1>1, <2>1, <2>2, Zenon
<1>6. UserPagesIn(d) = UserPagesIn(c)
  BY <1>4, <1>5
<1> QED BY <1>4, <1>6 DEF ImageIn

(* A page of the program is no trap context.                                *)
LEMMA UserFrame ==
  ASSUME NEW c, Whole(c), NEW x, ContextAt(SpaceOf(c), x), NEW k, NEW i, UserPage(c, k, i)
  PROVE  c.areas[k].frames[i] # x /\ c.areas[k].frames[i] \in Owned(SpaceOf(c))
<1>1. /\ Ready(c) /\ c.areas \in Seq(AreaSet) /\ Len(c.areas) \in Nat /\ DOMAIN c.areas = 1 .. Len(c.areas)
      /\ \A h \in DOMAIN c.areas : DOMAIN c.areas[h].frames = 1 .. c.areas[h].pages
  BY WholeFacts
<1>2. PICK n \in Nat : n = Len(c.areas)
  BY <1>1
<1>3. SpaceOf(c).areas = c.areas
  BY DEF SpaceOf
<1>4. n > 0 /\ "U" \notin c.areas[n].perm /\ x = c.areas[n].frames[1] /\ c.areas[n].pages = 1
  BY <1>2, <1>3 DEF ContextAt
<1>5. k \in DOMAIN c.areas /\ i \in DOMAIN c.areas[k].frames /\ "U" \in c.areas[k].perm
  BY <1>1 DEF UserPage
<1>6. n \in DOMAIN c.areas
  BY <1>1, <1>2, <1>4
<1>7. 1 \in DOMAIN c.areas[n].frames
  BY <1>1, <1>4, <1>6
<1>8. c.areas[k].frames[i] \in Owned(SpaceOf(c))
  BY <1>1, <1>5, FrameInBulk
<1>9. k # n
  BY <1>4, <1>5
<1> QED BY <1>1, <1>4, <1>5, <1>6, <1>7, <1>8, <1>9, FramesDiffer

(* A space whose frames did not change, but for the trap context.           *)
LEMMA SameImage ==
  ASSUME NEW M, Running(M), NEW N, Running(N), NEW sp \in Spaces, Whole(InSpace(M, sp)),
         Whole(InSpace(N, sp)), NEW x, ContextAt(sp, x),
         \A z \in Owned(sp) : z # x => N.mem[z] = M.mem[z]
  PROVE  ImageIn(InSpace(N, sp)) = ImageIn(InSpace(M, sp))
<1>1. PICK c, d : c = InSpace(M, sp) /\ d = InSpace(N, sp)
  OBVIOUS
<1>2. Whole(c) /\ Whole(d) /\ c.areas = sp.areas /\ d.areas = sp.areas /\ SpaceOf(c) = sp
      /\ c.mem = M.mem /\ d.mem = N.mem
  <2>1. c.areas = sp.areas /\ SpaceOf(c) = sp /\ c.mem = M.mem
    BY <1>1, InSpaceFacts
  <2>2. d.areas = sp.areas /\ d.mem = N.mem
    BY <1>1, InSpaceFacts
  <2> QED BY <1>1, <2>1, <2>2
<1>3. ASSUME NEW k, NEW i, UserPage(c, k, i)
      PROVE  d.mem[d.areas[k].frames[i]][0].ppn = c.mem[c.areas[k].frames[i]][0].ppn
  <2>1. c.areas[k].frames[i] # x /\ c.areas[k].frames[i] \in Owned(sp)
    BY <1>2, <1>3, UserFrame
  <2> QED BY <1>2, <2>1
<1>4. Alike(c, d)
  BY <1>2, <1>3 DEF Alike
<1> QED BY <1>1, <1>2, <1>4, AlikeImages

-----------------------------------------------------------------------------
(* What Loaded promises of a program.  Image L has page v in segment k.     *)
InSegment(program, k, v) ==
    /\ k \in 1 .. Len(program)
    /\ v \in program[k].start .. program[k].start + Len(program[k].data) - 1

InStack(program, v) == v \in StackBottom(program) .. StackBottom(program) + USER_STACK_PAGES - 1

(* A page is in one segment at most, and not in the stack then.             *)
LEMMA SegmentsApart ==
  ASSUME NEW program \in Programs, NEW k, NEW v, InSegment(program, k, v)
  PROVE  /\ ~InStack(program, v) /\ \A l : InSegment(program, l, v) => l = k
         /\ v \in Nat
<1>1. PICK n : n = Len(program)
  OBVIOUS
<1>2. /\ n \in Nat /\ \A h \in 1 .. n : /\ program[h] \in Segment
                              /\ program[h].start + Len(program[h].data) < StackBottom(program)
      /\ \A h, l \in 1 .. n : h < l => program[h].start + Len(program[h].data) <= program[l].start
      /\ StackBottom(program) \in Nat
  BY <1>1, ProgramFacts
<1>3. \A h \in 1 .. n : program[h].start \in Nat /\ Len(program[h].data) \in Nat
  BY <1>2, SegmentFacts
<1>4. k \in 1 .. n /\ v \in program[k].start .. program[k].start + Len(program[k].data) - 1
  BY <1>1 DEF InSegment
<1>5. v \in Nat /\ v < StackBottom(program)
  <2>1. /\ program[k].start \in Nat /\ Len(program[k].data) \in Nat
        /\ program[k].start + Len(program[k].data) < StackBottom(program)
    BY <1>2, <1>3, <1>4
  <2>2. PICK a \in Nat, w \in Nat, s \in Nat :
          a = program[k].start /\ w = Len(program[k].data) /\ s = StackBottom(program)
    BY <1>2, <2>1
  <2>3. v \in a .. a + w - 1 /\ a + w < s
    BY <1>4, <2>1, <2>2
  <2>4. v \in Nat /\ v < s
    BY <2>3
  <2> QED BY <2>2, <2>4
<1>6. ~InStack(program, v)
  BY <1>2, <1>5 DEF InStack
<1>7. ASSUME NEW l, InSegment(program, l, v)
      PROVE  l = k
  <2>1. l \in 1 .. n /\ v \in program[l].start .. program[l].start + Len(program[l].data) - 1
    BY <1>1, <1>7 DEF InSegment
  <2>2. program[l].start \in Nat /\ Len(program[l].data) \in Nat
        /\ program[k].start \in Nat /\ Len(program[k].data) \in Nat
    BY <1>3, <1>4, <2>1
  <2>5. PICK ak \in Nat, wk \in Nat, al \in Nat, wl \in Nat :
          /\ ak = program[k].start /\ wk = Len(program[k].data)
          /\ al = program[l].start /\ wl = Len(program[l].data)
          /\ v \in ak .. ak + wk - 1 /\ v \in al .. al + wl - 1
    BY <1>4, <2>1, <2>2
  <2>3. ~(k < l)
    <3> SUFFICES ASSUME k < l PROVE FALSE
      OBVIOUS
    <3>1. ak + wk <= al
      BY <1>2, <1>4, <2>1, <2>5
    <3>2. v \in ak .. ak + wk - 1 /\ v \in al .. al + wl - 1
      BY <2>5
    <3> QED BY <3>1, <3>2
  <2>4. ~(l < k)
    <3> SUFFICES ASSUME l < k PROVE FALSE
      OBVIOUS
    <3>1. al + wl <= ak
      BY <1>2, <1>4, <2>1, <2>5
    <3>2. v \in al .. al + wl - 1 /\ v \in ak .. ak + wk - 1
      BY <2>5
    <3> QED BY <3>1, <3>2
  <2> QED BY <1>2, <1>4, <2>1, <2>3, <2>4
<1> QED BY <1>5, <1>6, <1>7

(* The image of a program that is loaded.                                   *)
LEMMA LoadedFacts ==
  ASSUME NEW program \in Programs, NEW L, L = Private!Loaded(program)
  PROVE  /\ \A v : v \in DOMAIN L <=> (InStack(program, v) \/ \E k : InSegment(program, k, v))
         /\ \A v : InStack(program, v) => L[v] = 0
         /\ \A k, v : InSegment(program, k, v) => L[v] = program[k].data[v - program[k].start + 1]
         /\ L = [v \in DOMAIN L |-> L[v]]
<1>1. PICK n : n = Len(program)
  OBVIOUS
<1>2. n \in Nat /\ DOMAIN program = 1 .. n
  BY <1>1, ProgramFacts
<1> DEFINE sb == program[Len(program)].start + Len(program[Len(program)].data) + 1
<1>3. sb = StackBottom(program)
  BY DEF StackBottom, Last
<1> DEFINE pages(k) == program[k].start .. program[k].start + Len(program[k].data) - 1
           segs == UNION {pages(k) : k \in DOMAIN program}
           stk == sb .. sb + USER_STACK_PAGES - 1
           D == segs \cup stk
           at(v) == {k \in DOMAIN program : v \in pages(k)}
           val(v) == program[CHOOSE k \in at(v) : TRUE].data[v - program[CHOOSE k \in at(v) : TRUE].start + 1]
<1>5. L = [v \in D |-> IF v \in stk THEN 0 ELSE val(v)]
  BY Zenon DEF Private!Loaded
<1>6. \A v : InStack(program, v) <=> v \in stk
  BY <1>3 DEF InStack
<1>7. \A k, v : InSegment(program, k, v) <=> (k \in DOMAIN program /\ v \in pages(k))
  BY <1>1, <1>2 DEF InSegment
<1>8. \A v : v \in D <=> (InStack(program, v) \/ \E k : InSegment(program, k, v))
  <2>1. ASSUME NEW v PROVE v \in D <=> (InStack(program, v) \/ \E k : InSegment(program, k, v))
    <3>1. InStack(program, v) <=> v \in stk
      BY <1>6, Zenon
    <3>2. (\E k : InSegment(program, k, v)) <=> \E k \in DOMAIN program : v \in pages(k)
      BY <1>7, Zenon
    <3>3. v \in segs <=> \E k \in DOMAIN program : v \in pages(k)
      <4> HIDE DEF pages
      <4> QED BY Zenon
    <3>4. v \in D <=> v \in segs \/ v \in stk
      <4> HIDE DEF segs, stk
      <4> QED OBVIOUS
    <3> HIDE DEF segs, stk, D
    <3> QED BY <3>1, <3>2, <3>3, <3>4
  <2> QED BY <2>1
<1>9. DOMAIN L = D
  <2> HIDE DEF D, val
  <2> QED BY <1>5
<1>10. ASSUME NEW v, InStack(program, v)
       PROVE  L[v] = 0
  <2>1. v \in D /\ v \in stk
    BY <1>6, <1>8, <1>10, Zenon
  <2> HIDE DEF D, val
  <2> QED BY <1>5, <2>1
<1>11. ASSUME NEW k, NEW v, InSegment(program, k, v)
       PROVE  L[v] = program[k].data[v - program[k].start + 1]
  <2>1. v \in D
    BY <1>8, <1>11, Zenon
  <2>2. ~(v \in stk)
    BY <1>6, <1>11, SegmentsApart, Zenon
  <2>3. L[v] = val(v)
    <3> HIDE DEF D, val
    <3> QED BY <1>5, <2>1, <2>2
  <2>4. at(v) = {k}
    <3>1. k \in at(v)
      BY <1>7, <1>11, Zenon
    <3>2. \A l \in at(v) : l = k
      BY <1>7, <1>11, SegmentsApart, Zenon
    <3> HIDE DEF at
    <3> QED BY <3>1, <3>2
  <2>5. (CHOOSE l \in at(v) : TRUE) = k
    BY <2>4
  <2> QED BY <2>3, <2>5, Zenon
<1>12. L = [v \in DOMAIN L |-> L[v]]
  <2> HIDE DEF D, val
  <2> QED BY <1>5
<1> QED BY <1>8, <1>9, <1>10, <1>11, <1>12

(* A program that from_elf has loaded sees what Loaded promises.            *)
LEMMA ElfIsLoaded ==
  ASSUME NEW program \in Programs, NEW f, Whole(f), ElfImage(program, f)
  PROVE  ImageIn(f) = Private!Loaded(program)
<1>1. PICK n, L : n = Len(program) /\ L = Private!Loaded(program)
  OBVIOUS
<1>2. /\ \A v : v \in DOMAIN L <=> (InStack(program, v) \/ \E k : InSegment(program, k, v))
      /\ \A v : InStack(program, v) => L[v] = 0
      /\ \A k, v : InSegment(program, k, v) => L[v] = program[k].data[v - program[k].start + 1]
      /\ L = [v \in DOMAIN L |-> L[v]]
  BY <1>1, LoadedFacts
<1>3. PICK sb \in Nat : sb = StackBottom(program)
  BY ProgramFacts
<1>4. n \in Nat /\ \A k \in 1 .. n : program[k] \in Segment
  BY <1>1, ProgramFacts
<1>5. USER_STACK_PAGES \in Nat /\ 0 \in 0 .. PTES - 1
  BY MemoryAssumption
<1>6. \A k \in 1 .. n : program[k].start \in Nat /\ Len(program[k].data) \in Nat
  BY <1>4, SegmentFacts
<1>7. /\ Len(f.areas) = n + 2 /\ \A k \in 1 .. n : IsSegment(f, k, program[k])
      /\ f.areas[n + 1].start = sb /\ f.areas[n + 1].pages = USER_STACK_PAGES
      /\ f.areas[n + 1].perm = {"R", "W", "U"} /\ Blank(f, n + 1)
      /\ f.areas[n + 2].perm = {"R", "W"}
  BY <1>1, <1>3 DEF ElfImage
<1>8. /\ DOMAIN f.areas = 1 .. n + 2
      /\ \A k \in DOMAIN f.areas : DOMAIN f.areas[k].frames = 1 .. f.areas[k].pages
  BY <1>4, <1>7, WholeFacts
<1>9. /\ \A v \in UserPagesIn(f) : \E k, i : UserPage(f, k, i) /\ v = f.areas[k].start + i - 1
      /\ \A k, i : UserPage(f, k, i) =>
           /\ f.areas[k].start + i - 1 \in UserPagesIn(f)
           /\ Lookup(f, f.areas[k].start + i - 1).ppn = f.areas[k].frames[i]
  BY UserPageFacts
<1>10. ASSUME NEW k \in 1 .. n, NEW i, NEW v
       PROVE  UserPage(f, k, i) /\ v = f.areas[k].start + i - 1
              <=> InSegment(program, k, v) /\ i = v - program[k].start + 1
  <2>1. PICK a \in Nat, w \in Nat : a = program[k].start /\ w = Len(program[k].data)
    BY <1>6
  <2>2. f.areas[k].start = a /\ f.areas[k].pages = w /\ "U" \in f.areas[k].perm
    BY <1>7, <2>1 DEF IsSegment
  <2>3. k \in DOMAIN f.areas
    BY <1>4, <1>8
  <2>4. UserPage(f, k, i) <=> i \in 1 .. w
    BY <2>2, <2>3 DEF UserPage
  <2>5. InSegment(program, k, v) <=> v \in a .. a + w - 1
    BY <1>1, <2>1 DEF InSegment
  <2>6. (i \in 1 .. w /\ v = a + i - 1) <=> (v \in a .. a + w - 1 /\ i = v - a + 1)
    OBVIOUS
  <2> QED BY <2>1, <2>2, <2>4, <2>5, <2>6, Zenon
<1>11. ASSUME NEW i, NEW v
       PROVE  UserPage(f, n + 1, i) /\ v = f.areas[n + 1].start + i - 1
              <=> InStack(program, v) /\ i = v - sb + 1
  <2>1. PICK w \in Nat : w = USER_STACK_PAGES
    BY <1>5
  <2>2. n + 1 \in DOMAIN f.areas
    BY <1>4, <1>8
  <2>3. UserPage(f, n + 1, i) <=> i \in 1 .. w
    BY <1>7, <2>1, <2>2 DEF UserPage
  <2>4. InStack(program, v) <=> v \in sb .. sb + w - 1
    BY <1>3, <2>1 DEF InStack
  <2>5. (i \in 1 .. w /\ v = sb + i - 1) <=> (v \in sb .. sb + w - 1 /\ i = v - sb + 1)
    OBVIOUS
  <2> QED BY <1>7, <2>3, <2>4, <2>5, Zenon
<1>12. ASSUME NEW k, NEW v, InSegment(program, k, v)
       PROVE  v \in UserPagesIn(f) /\ f.mem[Lookup(f, v).ppn][0].ppn = L[v]
  <2>1. PICK i : i = v - program[k].start + 1
    OBVIOUS
  <2>2. k \in 1 .. n
    BY <1>1, <1>12 DEF InSegment
  <2>3. UserPage(f, k, i) /\ v = f.areas[k].start + i - 1
    BY <1>10, <1>12, <2>1, <2>2, Zenon
  <2>4. v \in UserPagesIn(f) /\ Lookup(f, v).ppn = f.areas[k].frames[i]
    BY <1>9, <2>3, Zenon
  <2>5. i \in 1 .. Len(program[k].data)
    BY <1>7, <2>2, <2>3 DEF UserPage, IsSegment
  <2>6. f.mem[f.areas[k].frames[i]][0] = Data(program[k].data[i])
    BY <1>7, <2>2, <2>5 DEF IsSegment
  <2>7. L[v] = program[k].data[i]
    BY <1>2, <1>12, <2>1, Zenon
  <2> QED BY <2>4, <2>6, <2>7 DEF Data
<1>13. ASSUME NEW v, InStack(program, v)
       PROVE  v \in UserPagesIn(f) /\ f.mem[Lookup(f, v).ppn][0].ppn = L[v]
  <2>1. PICK i : i = v - sb + 1
    OBVIOUS
  <2>2. UserPage(f, n + 1, i) /\ v = f.areas[n + 1].start + i - 1
    BY <1>11, <1>13, <2>1, Zenon
  <2>3. v \in UserPagesIn(f) /\ Lookup(f, v).ppn = f.areas[n + 1].frames[i]
    BY <1>9, <2>2, Zenon
  <2>4. i \in DOMAIN f.areas[n + 1].frames
    BY <1>8, <2>2, Zenon DEF UserPage
  <2>5. f.mem[f.areas[n + 1].frames[i]] = ZeroPage
    BY <1>7, <2>4 DEF Blank
  <2>6. ZeroPage[0].ppn = 0
    BY <1>5 DEF ZeroPage, Empty
  <2>7. L[v] = 0
    BY <1>2, <1>13, Zenon
  <2> QED BY <2>3, <2>5, <2>6, <2>7, Zenon
<1>14. ASSUME NEW v \in UserPagesIn(f)
       PROVE  v \in DOMAIN L
  <2>1. PICK k, i : UserPage(f, k, i) /\ v = f.areas[k].start + i - 1
    BY <1>9
  <2>2. k \in 1 .. n \/ k = n + 1 \/ k = n + 2
    BY <1>4, <1>8, <2>1 DEF UserPage
  <2>3. k # n + 2
    BY <1>7, <2>1 DEF UserPage
  <2>4. CASE k \in 1 .. n
    BY <1>2, <1>10, <2>1, <2>4, Zenon
  <2>5. CASE k = n + 1
    BY <1>2, <1>11, <2>1, <2>5, Zenon
  <2> QED BY <2>2, <2>3, <2>4, <2>5
<1>15. ASSUME NEW v \in DOMAIN L
       PROVE  v \in UserPagesIn(f) /\ f.mem[Lookup(f, v).ppn][0].ppn = L[v]
  BY <1>2, <1>12, <1>13, Zenon
<1>16. UserPagesIn(f) = DOMAIN L
  BY <1>14, <1>15
<1>17. ImageIn(f) = [v \in DOMAIN L |-> L[v]]
  BY <1>15, <1>16 DEF ImageIn
<1> QED BY <1>1, <1>2, <1>17, Zenon

(* A space that was built, in the memory as it is when the trap context has *)
(* been written.                                                            *)
LEMMA BuiltImage ==
  ASSUME NEW f, Whole(f), NEW N, Running(N), NEW sp, sp = SpaceOf(f), Whole(InSpace(N, sp)),
         NEW x, ContextAt(sp, x), \A z \in Owned(sp) : z # x => N.mem[z] = f.mem[z]
  PROVE  ImageIn(InSpace(N, sp)) = ImageIn(f)
<1>1. Running(f)
  BY DEF Whole, Ready
<1>2. sp \in Spaces /\ sp.areas = f.areas
  BY <1>1, SpaceOfFacts
<1>3. PICK d : d = InSpace(N, sp)
  OBVIOUS
<1>4. Whole(d) /\ d.areas = f.areas /\ d.mem = N.mem
  BY <1>2, <1>3, InSpaceFacts
<1>5. ASSUME NEW k, NEW i, UserPage(f, k, i)
      PROVE  d.mem[d.areas[k].frames[i]][0].ppn = f.mem[f.areas[k].frames[i]][0].ppn
  <2>1. f.areas[k].frames[i] # x /\ f.areas[k].frames[i] \in Owned(sp)
    BY <1>5, UserFrame
  <2> QED BY <1>4, <2>1
<1>6. Alike(f, d)
  BY <1>4, <1>5 DEF Alike
<1> QED BY <1>3, <1>4, <1>6, AlikeImages

(* A copy looks like its original.                                          *)
LEMMA CopyIsAlike ==
  ASSUME NEW s, Whole(s), NEW f, Whole(f), CopyImage(s, f)
  PROVE  ImageIn(f) = ImageIn(s)
<1>1. DOMAIN s.areas = 1 .. Len(s.areas) /\ DOMAIN f.areas = 1 .. Len(f.areas)
  BY WholeFacts
<1>2. Len(f.areas) = Len(s.areas) /\ \A h \in DOMAIN s.areas : IsCopy(s, f, h)
  BY <1>1 DEF CopyImage
<1>3. ASSUME NEW k, NEW i, UserPage(s, k, i)
      PROVE  f.mem[f.areas[k].frames[i]][0].ppn = s.mem[s.areas[k].frames[i]][0].ppn
  <2>1. IsCopy(s, f, k) /\ i \in 1 .. s.areas[k].pages
    BY <1>2, <1>3 DEF UserPage
  <2> QED BY <2>1 DEF IsCopy
<1>4. Alike(s, f)
  BY <1>1, <1>2, <1>3 DEF Alike, IsCopy
<1> QED BY <1>4, AlikeImages

(* A store changes one page of the image.                                   *)
LEMMA StoreImage ==
  ASSUME NEW M, Running(M), NEW N, Running(N), NEW sp \in Spaces, NEW c, c = InSpace(M, sp),
         NEW d, d = InSpace(N, sp), Whole(c), Whole(d), NEW vpn \in UserPagesIn(c), NEW v,
         NEW e, e = Lookup(c, vpn), N.mem[e.ppn][0] = Data(v),
         \A y \in Frames : y # e.ppn => N.mem[y] = M.mem[y]
  PROVE  ImageIn(d) = [ImageIn(c) EXCEPT ![vpn] = v]
<1>1. c.mem = M.mem /\ c.areas = sp.areas
  BY InSpaceFacts
<1>2. d.mem = N.mem /\ d.areas = sp.areas
  BY InSpaceFacts
<1>3. /\ \A w \in UserPagesIn(c) : \E k, i : UserPage(c, k, i) /\ w = c.areas[k].start + i - 1
      /\ \A k, i : UserPage(c, k, i) =>
           /\ c.areas[k].start + i - 1 \in UserPagesIn(c)
           /\ Lookup(c, c.areas[k].start + i - 1).ppn = c.areas[k].frames[i]
  BY UserPageFacts
<1>4. /\ \A w \in UserPagesIn(d) : \E k, i : UserPage(d, k, i) /\ w = d.areas[k].start + i - 1
      /\ \A k, i : UserPage(d, k, i) =>
           /\ d.areas[k].start + i - 1 \in UserPagesIn(d)
           /\ Lookup(d, d.areas[k].start + i - 1).ppn = d.areas[k].frames[i]
  BY UserPageFacts
<1>5. \A k, i : UserPage(d, k, i) <=> UserPage(c, k, i)
  BY <1>1, <1>2 DEF UserPage
<1>6. c.areas = d.areas
  BY <1>1, <1>2
<1>12. ASSUME NEW k, NEW i, UserPage(c, k, i)
       PROVE  /\ c.areas[k].start + i - 1 \in UserPagesIn(d)
              /\ Lookup(d, c.areas[k].start + i - 1).ppn = c.areas[k].frames[i]
  <2>1. UserPage(d, k, i)
    BY <1>5, <1>12, Zenon
  <2>2. /\ d.areas[k].start + i - 1 \in UserPagesIn(d)
        /\ Lookup(d, d.areas[k].start + i - 1).ppn = d.areas[k].frames[i]
    BY <1>4, <2>1, Zenon
  <2> QED BY <1>6, <2>2
<1>7. ASSUME NEW w \in UserPagesIn(c)
      PROVE  /\ w \in UserPagesIn(d) /\ Lookup(d, w).ppn = Lookup(c, w).ppn
             /\ Lookup(c, w).ppn \in Frames /\ (w # vpn => Lookup(c, w).ppn # e.ppn)
  <2>1. PICK k, i : UserPage(c, k, i) /\ w = c.areas[k].start + i - 1
    BY <1>3
  <2>2. w \in UserPagesIn(d) /\ Lookup(d, w).ppn = c.areas[k].frames[i]
    BY <1>12, <2>1, Zenon
  <2>3. Lookup(c, w).ppn = c.areas[k].frames[i]
    BY <1>3, <2>1, Zenon
  <2>4. PICK h, j : UserPage(c, h, j) /\ vpn = c.areas[h].start + j - 1
    BY <1>3
  <2>5. e.ppn = c.areas[h].frames[j]
    BY <1>3, <2>4, Zenon
  <2>6. /\ Ready(c) /\ Mapped(c) /\ k \in DOMAIN c.areas /\ i \in DOMAIN c.areas[k].frames
        /\ h \in DOMAIN c.areas /\ j \in DOMAIN c.areas[h].frames
    <3>1. Ready(c) /\ Mapped(c) /\ \A l \in DOMAIN c.areas : DOMAIN c.areas[l].frames = 1 .. c.areas[l].pages
      BY WholeFacts
    <3> QED BY <2>1, <2>4, <3>1, Zenon DEF UserPage
  <2>7. c.areas[k].frames[i] \in Frames
    BY <2>6, PageLookup
  <2>8. c.areas[k].frames[i] = c.areas[h].frames[j] => k = h /\ i = j
    BY <2>6, FramesDiffer
  <2> QED BY <2>1, <2>2, <2>3, <2>4, <2>5, <2>7, <2>8, Zenon
<1>8. UserPagesIn(d) \subseteq UserPagesIn(c)
  <2> SUFFICES ASSUME NEW w \in UserPagesIn(d) PROVE w \in UserPagesIn(c)
    OBVIOUS
  <2>1. PICK k, i : UserPage(d, k, i) /\ w = d.areas[k].start + i - 1
    BY <1>4
  <2>2. UserPage(c, k, i) /\ w = c.areas[k].start + i - 1
    BY <1>5, <1>6, <2>1
  <2> QED BY <1>3, <2>2, Zenon
<1>9. UserPagesIn(d) = UserPagesIn(c)
  BY <1>7, <1>8
<1>10. ASSUME NEW w \in UserPagesIn(c)
       PROVE  d.mem[Lookup(d, w).ppn][0].ppn = IF w = vpn THEN v ELSE c.mem[Lookup(c, w).ppn][0].ppn
  <2>1. Data(v).ppn = v
    BY DEF Data
  <2>2. CASE w = vpn
    BY <1>2, <1>7, <2>1, <2>2, Zenon
  <2>3. CASE w # vpn
    BY <1>1, <1>2, <1>7, <2>3, Zenon
  <2> QED BY <2>2, <2>3
<1>11. ImageIn(d) = [w \in UserPagesIn(c) |-> IF w = vpn THEN v ELSE c.mem[Lookup(c, w).ppn][0].ppn]
  BY <1>9, <1>10 DEF ImageIn
<1> QED BY <1>11 DEF ImageIn

-----------------------------------------------------------------------------
(* What a task sees in its memory and in its register a0.                   *)
ImageOf(M, sp) == ImageIn(InSpace(M, sp))
AnswerOf(M, cx, u) == M.mem[cx[u]][1].ppn

(* The refinement mapping, in these terms.                                  *)
Views ==
    /\ Alive = AliveIn(task)
    /\ Image = [u \in Alive |-> ImageOf(Now, memory_set[u])]
    /\ Answers = [u \in Alive |-> AnswerOf(Now, trap_cx_ppn, u)]

(* They are the mapping of Memory.                                          *)
LEMMA ViewsHold == Views
<1>1. Alive = AliveIn(task)
  BY DEF Alive, AliveIn
<1>2. Now.mem = mem
  BY DEF Now, Machine
<1>3. ASSUME NEW u
      PROVE  /\ InSpace(Now, memory_set[u]).mem = mem
             /\ InSpace(Now, memory_set[u]).nodes = memory_set[u].nodes
  BY DEF InSpace, Now, Machine
<1>4. ASSUME NEW u
      PROVE  /\ UserPages(u) = UserPagesIn(InSpace(Now, memory_set[u]))
             /\ ImageOf(Now, memory_set[u])
                  = [vpn \in UserPages(u) |-> mem[Translate(mem, Head(memory_set[u].nodes), vpn).ppn][0].ppn]
  <2>1. PICK c : c = InSpace(Now, memory_set[u])
    OBVIOUS
  <2>2. \A v : Lookup(c, v) = Translate(mem, Head(memory_set[u].nodes), v)
    BY <1>3, <2>1, Zenon DEF Lookup
  <2>3. UserPages(u) = UserPagesIn(c)
    BY <2>2 DEF UserPages, UserPagesIn
  <2>4. c.mem = mem
    BY <1>3, <2>1
  <2>5. ImageIn(c) = [vpn \in UserPages(u) |-> mem[Translate(mem, Head(memory_set[u].nodes), vpn).ppn][0].ppn]
    BY <2>2, <2>3, <2>4 DEF ImageIn
  <2> QED BY <2>1, <2>3, <2>5 DEF ImageOf
<1>5. Image = [u \in Alive |-> ImageOf(Now, memory_set[u])]
  BY <1>4 DEF Image
<1>6. Answers = [u \in Alive |-> AnswerOf(Now, trap_cx_ppn, u)]
  BY <1>2 DEF Answers, AnswerOf
<1> QED BY <1>1, <1>5, <1>6 DEF Views

(* ... and after a step.                                                    *)
LEMMA ViewsNext ==
  /\ Alive' = AliveIn(task')
  /\ Image' = [u \in Alive' |-> ImageOf(Now', memory_set'[u])]
  /\ Answers' = [u \in Alive' |-> AnswerOf(Now', trap_cx_ppn', u)]
<1>1. Views'
  BY ViewsHold, PTL
<1> QED BY <1>1 DEF Views

(* A living task.                                                           *)
LEMMA LiveTask ==
  ASSUME NEW M, NEW ks, NEW ms, NEW cx, NEW S \in SUBSET Pids, Sound(M, ks, ms), Live(M, ms, cx, S),
         NEW u \in S
  PROVE  /\ Running(M) /\ ms[u] \in Spaces /\ Whole(InSpace(M, ms[u])) /\ ContextAt(ms[u], cx[u])
         /\ cx[u] \in Owned(ms[u]) /\ Owned(ms[u]) \subseteq Frames
<1>1. Running(M) /\ ms[u] \in Spaces /\ Owned(ms[u]) \subseteq Frames
  BY SoundFacts
<1>2. Whole(InSpace(M, ms[u])) /\ ContextAt(ms[u], cx[u])
  BY DEF Live, Usable, HasContext
<1>3. cx[u] \in Owned(ms[u])
  BY <1>1, <1>2, ContextFrame
<1> QED BY <1>1, <1>2, <1>3

(* A task that is left alone sees no difference.                            *)
LEMMA SparedTask ==
  ASSUME NEW M, NEW ks, NEW ms, NEW cx, NEW S \in SUBSET Pids, Sound(M, ks, ms), Live(M, ms, cx, S),
         NEW N, NEW ks2, NEW ms2, NEW cx2, NEW S2 \in SUBSET Pids, Sound(N, ks2, ms2),
         Live(N, ms2, cx2, S2), NEW u, u \in S, u \in S2, ms2[u] = ms[u], cx2[u] = cx[u],
         Same(M, N, ms[u])
  PROVE  /\ ImageOf(N, ms2[u]) = ImageOf(M, ms[u])
         /\ AnswerOf(N, cx2, u) = AnswerOf(M, cx, u)
<1>1. PICK sp, x : sp = ms[u] /\ x = cx[u]
  OBVIOUS
<1>2. /\ Running(M) /\ sp \in Spaces /\ Whole(InSpace(M, sp)) /\ ContextAt(sp, x) /\ x \in Owned(sp)
  BY <1>1, LiveTask
<1>3. Running(N) /\ Whole(InSpace(N, sp))
  <2>1. Running(N) /\ Whole(InSpace(N, ms2[u]))
    BY LiveTask
  <2> QED BY <1>1, <2>1
<1>4. \A z \in Owned(sp) : N.mem[z] = M.mem[z]
  BY <1>1 DEF Same
<1>5. ImageIn(InSpace(N, sp)) = ImageIn(InSpace(M, sp))
  BY <1>2, <1>3, <1>4, SameImage
<1>6. N.mem[x][1].ppn = M.mem[x][1].ppn
  BY <1>2, <1>4
<1> QED BY <1>1, <1>5, <1>6 DEF ImageOf, AnswerOf

(* What the invariant says after a step.                                    *)
LEMMA InvFactsNext ==
  ASSUME Inv'
  PROVE  /\ Sound(Now', kernel_space', memory_set')
         /\ Live(Now', memory_set', trap_cx_ppn', AliveIn(task'))
         /\ AliveIn(task') \in SUBSET Pids
<1>1. Good(Now', kernel_space', memory_set', trap_cx_ppn', task')
  BY DEF Inv
<1> QED BY <1>1 DEF Good, AliveIn

(* fork gives the child the image of its parent, and both their answers.    *)
LEMMA ForkView ==
  ASSUME Inv, Inv', NEW t \in Pids, NEW c \in Pids,
         ForkStep(Now, memory_set, trap_cx_ppn, task, t, c, Now', memory_set', trap_cx_ppn', task')
  PROVE  Private!Fork(t, c)
<1>1. PICK M, ks, ms, cx, tk : /\ M = Now /\ ks = kernel_space /\ ms = memory_set
                               /\ cx = trap_cx_ppn /\ tk = task
  OBVIOUS
<1>2. PICK N, ks2, ms2, cx2, tk2 : /\ N = Now' /\ ks2 = kernel_space' /\ ms2 = memory_set'
                                   /\ cx2 = trap_cx_ppn' /\ tk2 = task'
  OBVIOUS
<1>3. PICK S \in SUBSET Pids : S = AliveIn(tk)
  BY <1>1, InvFacts
<1>4. PICK S2 \in SUBSET Pids : S2 = AliveIn(tk2)
  BY <1>2, InvFactsNext
<1>5. /\ Sound(M, ks, ms) /\ Live(M, ms, cx, S) /\ Sound(N, ks2, ms2) /\ Live(N, ms2, cx2, S2)
      /\ cx \in [Pids -> {0} \cup Frames] /\ ms \in [Pids -> Spaces]
  BY <1>1, <1>2, <1>3, <1>4, InvFacts, InvFactsNext
<1>6. ForkStep(M, ms, cx, tk, t, c, N, ms2, cx2, tk2)
  BY <1>1, <1>2, Zenon
<1>7. PICK f, x : /\ t \in S /\ c \notin S /\ S2 = S \cup {c}
                  /\ ms2 = Put(ms, c, SpaceOf(f)) /\ cx2 = Put(cx, c, x)
                  /\ Forked(M, ms, cx, S, t, c, f, N, x)
  BY <1>3, <1>4, <1>6, Zenon DEF ForkStep
<1>8. /\ ms2[c] = SpaceOf(f) /\ cx2[c] = x /\ t # c /\ t \in S2 /\ c \in S2
      /\ \A u \in S : ms2[u] = ms[u] /\ cx2[u] = cx[u] /\ u \in S2 /\ u # c
  BY <1>5, <1>7 DEF Put
<1>9. /\ \A u \in S : u # t => Same(M, N, ms[u])
      /\ \A z \in Owned(ms[t]) : z # cx[t] => N.mem[z] = M.mem[z]
      /\ N.mem[cx[t]][1] = Data(c) /\ Whole(f) /\ CopyImage(InSpace(M, ms[t]), f)
      /\ \A z \in Owned(SpaceOf(f)) : z # x => N.mem[z] = f.mem[z]
      /\ N.mem[x][1] = Data(0)
  BY <1>7 DEF Forked
<1>10. Data(c).ppn = c /\ Data(0).ppn = 0
  BY DEF Data
<1>11. ASSUME NEW u \in S, u # t
       PROVE  ImageOf(N, ms2[u]) = ImageOf(M, ms[u]) /\ AnswerOf(N, cx2, u) = AnswerOf(M, cx, u)
  <2>1. ms2[u] = ms[u] /\ cx2[u] = cx[u] /\ Same(M, N, ms[u]) /\ u \in S /\ u \in S2
    BY <1>8, <1>9, <1>11
  <2> QED BY <1>5, <2>1, SparedTask
<1>12. Running(M) /\ ms[t] \in Spaces /\ Whole(InSpace(M, ms[t])) /\ ContextAt(ms[t], cx[t])
  BY <1>5, <1>7, LiveTask
<1>13. /\ ImageOf(N, ms2[t]) = ImageOf(M, ms[t]) /\ AnswerOf(N, cx2, t) = c
  <2>1. Running(N) /\ Whole(InSpace(N, ms2[t]))
    BY <1>5, <1>8, LiveTask
  <2>2. Whole(InSpace(N, ms[t]))
    BY <1>7, <1>8, <2>1
  <2>3. PICK sp, y : sp = ms[t] /\ y = cx[t]
    OBVIOUS
  <2>4. ImageIn(InSpace(N, sp)) = ImageIn(InSpace(M, sp))
    <3>1. /\ sp \in Spaces /\ Whole(InSpace(M, sp)) /\ Whole(InSpace(N, sp)) /\ ContextAt(sp, y)
          /\ \A z \in Owned(sp) : z # y => N.mem[z] = M.mem[z]
      BY <1>9, <1>12, <2>2, <2>3
    <3> QED BY <1>12, <2>1, <3>1, SameImage
  <2> QED BY <1>7, <1>8, <1>9, <1>10, <2>3, <2>4 DEF ImageOf, AnswerOf
<1>14. ImageOf(N, ms2[c]) = ImageOf(M, ms[t]) /\ AnswerOf(N, cx2, c) = 0
  <2>1. Running(N) /\ Whole(InSpace(N, ms2[c])) /\ ContextAt(ms2[c], cx2[c])
    BY <1>5, <1>8, LiveTask
  <2>2. PICK sp : sp = SpaceOf(f)
    OBVIOUS
  <2>3. /\ Whole(InSpace(N, sp)) /\ ContextAt(sp, x) /\ Whole(f) /\ Running(N)
        /\ \A z \in Owned(sp) : z # x => N.mem[z] = f.mem[z]
    BY <1>8, <1>9, <2>1, <2>2
  <2>4. ImageIn(InSpace(N, sp)) = ImageIn(f)
    BY <2>2, <2>3, BuiltImage
  <2>5. ImageIn(f) = ImageIn(InSpace(M, ms[t]))
    BY <1>9, <1>12, CopyIsAlike
  <2> QED BY <1>8, <1>9, <1>10, <2>2, <2>4, <2>5 DEF ImageOf, AnswerOf
<1>15. /\ Alive = S /\ Image = [u \in S |-> ImageOf(M, ms[u])]
       /\ Answers = [u \in S |-> AnswerOf(M, cx, u)]
  BY <1>1, <1>3, ViewsHold DEF Views
<1>16. /\ Alive' = S2 /\ Image' = [u \in S2 |-> ImageOf(N, ms2[u])]
       /\ Answers' = [u \in S2 |-> AnswerOf(N, cx2, u)]
  BY <1>2, <1>4, ViewsNext
<1>17. Image' = Private!With(Image, c, Image[t])
  <2>1. Private!With(Image, c, Image[t]) = [u \in S \cup {c} |-> IF u = c THEN Image[t] ELSE Image[u]]
    BY <1>15 DEF Private!With
  <2> QED BY <1>7, <1>8, <1>11, <1>13, <1>14, <1>15, <1>16, <2>1
<1>18. Answers' = Private!With(Private!With(Answers, t, c), c, 0)
  <2>1. PICK W : W = Private!With(Answers, t, c)
    OBVIOUS
  <2>2. W = [u \in S |-> IF u = t THEN c ELSE Answers[u]]
    BY <1>7, <1>15, <2>1 DEF Private!With
  <2>3. Private!With(W, c, 0) = [u \in S \cup {c} |-> IF u = c THEN 0 ELSE W[u]]
    BY <2>2 DEF Private!With
  <2> QED BY <1>7, <1>8, <1>11, <1>13, <1>14, <1>15, <1>16, <2>1, <2>2, <2>3
<1> QED BY <1>7, <1>15, <1>16, <1>17, <1>18 DEF Private!Fork

(* exec gives the image of the program, and a fresh a0.                     *)
LEMMA ExecView ==
  ASSUME Inv, Inv', NEW t \in Pids, NEW program \in Programs,
         ExecStep(Now, memory_set, trap_cx_ppn, task, t, program,
                  Now', memory_set', trap_cx_ppn', task')
  PROVE  Private!Exec(t, program)
<1>1. PICK M, ks, ms, cx, tk : /\ M = Now /\ ks = kernel_space /\ ms = memory_set
                               /\ cx = trap_cx_ppn /\ tk = task
  OBVIOUS
<1>2. PICK N, ks2, ms2, cx2, tk2 : /\ N = Now' /\ ks2 = kernel_space' /\ ms2 = memory_set'
                                   /\ cx2 = trap_cx_ppn' /\ tk2 = task'
  OBVIOUS
<1>3. PICK S \in SUBSET Pids : S = AliveIn(tk)
  BY <1>1, InvFacts
<1>4. ExecStep(M, ms, cx, tk, t, program, N, ms2, cx2, tk2)
  BY <1>1, <1>2, Zenon
<1>5. PICK f, x : /\ t \in S /\ tk2 = tk
                  /\ ms2 = Put(ms, t, SpaceOf(f)) /\ cx2 = Put(cx, t, x)
                  /\ Execed(M, ms, S, t, program, f, N, x)
  BY <1>3, <1>4, Zenon DEF ExecStep
<1>6. /\ Sound(M, ks, ms) /\ Live(M, ms, cx, S) /\ Sound(N, ks2, ms2) /\ Live(N, ms2, cx2, S)
      /\ cx \in [Pids -> {0} \cup Frames] /\ ms \in [Pids -> Spaces]
  BY <1>1, <1>2, <1>3, <1>5, InvFacts, InvFactsNext
<1>7. /\ ms2[t] = SpaceOf(f) /\ cx2[t] = x
      /\ \A u \in S : u # t => ms2[u] = ms[u] /\ cx2[u] = cx[u]
  BY <1>5, <1>6 DEF Put
<1>8. /\ \A u \in S : u # t => Same(M, N, ms[u])
      /\ Whole(f) /\ ElfImage(program, f)
      /\ \A z \in Owned(SpaceOf(f)) : z # x => N.mem[z] = f.mem[z]
      /\ N.mem[x][1] = Data(0)
  BY <1>5 DEF Execed
<1>9. ASSUME NEW u \in S, u # t
      PROVE  ImageOf(N, ms2[u]) = ImageOf(M, ms[u]) /\ AnswerOf(N, cx2, u) = AnswerOf(M, cx, u)
  <2>1. ms2[u] = ms[u] /\ cx2[u] = cx[u] /\ Same(M, N, ms[u]) /\ u \in S
    BY <1>7, <1>8, <1>9
  <2> QED BY <1>6, <2>1, SparedTask
<1>10. ImageOf(N, ms2[t]) = Private!Loaded(program) /\ AnswerOf(N, cx2, t) = 0
  <2>1. Running(N) /\ Whole(InSpace(N, ms2[t])) /\ ContextAt(ms2[t], cx2[t])
    BY <1>5, <1>6, LiveTask
  <2>2. PICK sp : sp = SpaceOf(f)
    OBVIOUS
  <2>3. /\ Whole(InSpace(N, sp)) /\ ContextAt(sp, x) /\ Whole(f) /\ Running(N)
        /\ \A z \in Owned(sp) : z # x => N.mem[z] = f.mem[z]
    BY <1>7, <1>8, <2>1, <2>2
  <2>4. ImageIn(InSpace(N, sp)) = ImageIn(f)
    BY <2>2, <2>3, BuiltImage
  <2>5. ImageIn(f) = Private!Loaded(program)
    BY <1>8, ElfIsLoaded
  <2>6. Data(0).ppn = 0
    BY DEF Data
  <2> QED BY <1>7, <1>8, <2>2, <2>4, <2>5, <2>6 DEF ImageOf, AnswerOf
<1>11. /\ Alive = S /\ Image = [u \in S |-> ImageOf(M, ms[u])]
       /\ Answers = [u \in S |-> AnswerOf(M, cx, u)]
  BY <1>1, <1>3, ViewsHold DEF Views
<1>12. /\ Alive' = S /\ Image' = [u \in S |-> ImageOf(N, ms2[u])]
       /\ Answers' = [u \in S |-> AnswerOf(N, cx2, u)]
  BY <1>2, <1>3, <1>5, ViewsNext
<1>13. PICK L : L = Private!Loaded(program)
  OBVIOUS
<1>14. Image' = Private!With(Image, t, L)
  <2>1. Private!With(Image, t, L) = [u \in S |-> IF u = t THEN L ELSE Image[u]]
    BY <1>5, <1>11 DEF Private!With
  <2> QED BY <1>5, <1>9, <1>10, <1>11, <1>12, <1>13, <2>1
<1>15. Answers' = Private!With(Answers, t, 0)
  <2>1. Private!With(Answers, t, 0) = [u \in S |-> IF u = t THEN 0 ELSE Answers[u]]
    BY <1>5, <1>11 DEF Private!With
  <2> QED BY <1>5, <1>9, <1>10, <1>11, <1>12, <2>1
<1> QED BY <1>11, <1>12, <1>13, <1>14, <1>15, Zenon DEF Private!Exec

(* Tasks that are left alone: the image and the answer of each.             *)
LEMMA SparedView ==
  ASSUME Inv, Inv', NEW U, U = AliveIn(task'), U \subseteq AliveIn(task),
         Spared(Now, memory_set, trap_cx_ppn, U, Now', memory_set', trap_cx_ppn')
  PROVE  Alive' = U /\ Image' = [u \in U |-> Image[u]] /\ Answers' = [u \in U |-> Answers[u]]
<1>1. PICK M, ks, ms, cx : M = Now /\ ks = kernel_space /\ ms = memory_set /\ cx = trap_cx_ppn
  OBVIOUS
<1>2. PICK N, ks2, ms2, cx2 : /\ N = Now' /\ ks2 = kernel_space' /\ ms2 = memory_set'
                              /\ cx2 = trap_cx_ppn'
  OBVIOUS
<1>3. PICK S \in SUBSET Pids : S = AliveIn(task)
  BY InvFacts
<1>4. U \in SUBSET Pids
  BY InvFactsNext
<1>5. /\ Sound(M, ks, ms) /\ Live(M, ms, cx, S) /\ Sound(N, ks2, ms2) /\ Live(N, ms2, cx2, U)
  BY <1>1, <1>2, <1>3, InvFacts, InvFactsNext
<1>6. Spared(M, ms, cx, U, N, ms2, cx2)
  BY <1>1, <1>2, Zenon
<1>7. ASSUME NEW u \in U
      PROVE  ImageOf(N, ms2[u]) = ImageOf(M, ms[u]) /\ AnswerOf(N, cx2, u) = AnswerOf(M, cx, u)
  <2>1. ms2[u] = ms[u] /\ cx2[u] = cx[u] /\ Same(M, N, ms[u]) /\ u \in S
    BY <1>3, <1>6 DEF Spared
  <2> QED BY <1>4, <1>5, <2>1, SparedTask
<1>8. /\ Alive = S /\ Image = [u \in S |-> ImageOf(M, ms[u])]
      /\ Answers = [u \in S |-> AnswerOf(M, cx, u)]
  BY <1>1, <1>3, ViewsHold DEF Views
<1>9. /\ Alive' = U /\ Image' = [u \in U |-> ImageOf(N, ms2[u])]
      /\ Answers' = [u \in U |-> AnswerOf(N, cx2, u)]
  BY <1>2, ViewsNext
<1>10. \A u \in U : Image[u] = ImageOf(M, ms[u]) /\ Answers[u] = AnswerOf(M, cx, u)
  BY <1>3, <1>8
<1> QED BY <1>7, <1>9, <1>10

(* The mapped variables are functions on the living tasks.                  *)
LEMMA ViewDomains ==
  /\ DOMAIN Image = Alive /\ DOMAIN Answers = Alive
  /\ Image = [u \in Alive |-> Image[u]] /\ Answers = [u \in Alive |-> Answers[u]]
BY ViewsHold DEF Views

(* exit takes the task away and touches no other.                           *)
LEMMA ExitView ==
  ASSUME Inv, Inv', NEW t \in Pids,
         ExitStep(Now, memory_set, trap_cx_ppn, task, t, Now', memory_set', trap_cx_ppn', task')
  PROVE  t \in Alive /\ Private!Exit(t)
<1>1. PICK U : U = AliveIn(task')
  OBVIOUS
<1>2. /\ t \in AliveIn(task) /\ U = AliveIn(task) \ {t}
      /\ Spared(Now, memory_set, trap_cx_ppn, U, Now', memory_set', trap_cx_ppn')
  BY <1>1, Zenon DEF ExitStep
<1>3. Alive = AliveIn(task)
  BY ViewsHold DEF Views
<1>4. Alive' = U /\ Image' = [u \in U |-> Image[u]] /\ Answers' = [u \in U |-> Answers[u]]
  <2>1. U \subseteq AliveIn(task)
    BY <1>2
  <2> QED BY <1>1, <1>2, <2>1, SparedView
<1>5. U = Alive \ {t}
  BY <1>2, <1>3
<1>6. Image' = Private!Without(Image, t) /\ Answers' = Private!Without(Answers, t)
  BY <1>4, <1>5, ViewDomains DEF Private!Without
<1> QED BY <1>2, <1>3, <1>4, <1>5, <1>6 DEF Private!Exit

(* waitpid is not seen by any living task.                                  *)
LEMMA ReapView ==
  ASSUME Inv, Inv', NEW t \in Pids,
         ReapStep(Now, memory_set, trap_cx_ppn, task, t, Now', memory_set', trap_cx_ppn', task')
  PROVE  UNCHANGED <<Alive, Image, Answers>>
<1>1. PICK U : U = AliveIn(task')
  OBVIOUS
<1>2. /\ U = AliveIn(task)
      /\ Spared(Now, memory_set, trap_cx_ppn, U, Now', memory_set', trap_cx_ppn')
  BY <1>1, Zenon DEF ReapStep
<1>3. Alive = AliveIn(task)
  BY ViewsHold DEF Views
<1>4. Alive' = U /\ Image' = [u \in U |-> Image[u]] /\ Answers' = [u \in U |-> Answers[u]]
  <2>1. U \subseteq AliveIn(task)
    BY <1>2
  <2> QED BY <1>1, <1>2, <2>1, SparedView
<1> QED BY <1>2, <1>3, <1>4, ViewDomains

(* Nor is a step that changes no memory and no task.                        *)
LEMMA IdleView ==
  ASSUME Idle
  PROVE  UNCHANGED <<Alive, Image, Answers>>
<1>1. mem' = mem /\ memory_set' = memory_set /\ trap_cx_ppn' = trap_cx_ppn /\ task' = task
  BY DEF Idle
<1>2. Alive' = Alive /\ UNCHANGED Answers
  BY <1>1 DEF Alive, Answers
<1>3. Image' = Image
  BY <1>1, <1>2, Zenon DEF Image, UserPages
<1> QED BY <1>2, <1>3

(* A store changes one page of one image.                                   *)
LEMMA StoreView ==
  ASSUME Inv, Inv', NEW t \in Pids, NEW vpn \in Pages, NEW v \in Values,
         UNCHANGED <<memory_set, trap_cx_ppn, task>>,
         StoreStep(Now, memory_set, trap_cx_ppn, task, t, vpn, v, Now')
  PROVE  t \in Alive /\ vpn \in DOMAIN Image[t] /\ Private!Store(t, vpn, v)
<1>1. PICK M, ks, ms, cx, tk : /\ M = Now /\ ks = kernel_space /\ ms = memory_set
                               /\ cx = trap_cx_ppn /\ tk = task
  OBVIOUS
<1>2. PICK N, ks2 : N = Now' /\ ks2 = kernel_space'
  OBVIOUS
<1>3. memory_set' = ms /\ trap_cx_ppn' = cx /\ task' = tk
  BY <1>1
<1>4. PICK S \in SUBSET Pids : S = AliveIn(tk)
  BY <1>1, InvFacts
<1>5. /\ Sound(M, ks, ms) /\ Live(M, ms, cx, S) /\ Sound(N, ks2, ms) /\ Live(N, ms, cx, S)
  BY <1>1, <1>2, <1>3, <1>4, InvFacts, InvFactsNext
<1>6. StoreStep(M, ms, cx, tk, t, vpn, v, N)
  BY <1>1, <1>2, Zenon
<1>7. PICK e : /\ t \in S /\ e = Translate(M.mem, Head(ms[t].nodes), vpn)
               /\ vpn \in 0 .. TRAMPOLINE /\ {"V", "U", "W"} \subseteq e.flags
               /\ \A u \in S : u # t => Same(M, N, ms[u])
               /\ e.ppn # cx[t] /\ N.mem[e.ppn][0] = Data(v)
               /\ \A y \in Frames : y # e.ppn => N.mem[y] = M.mem[y]
  BY <1>4, <1>6, Zenon DEF StoreStep
<1>8. ASSUME NEW u \in S, u # t
      PROVE  ImageOf(N, ms[u]) = ImageOf(M, ms[u]) /\ AnswerOf(N, cx, u) = AnswerOf(M, cx, u)
  <2>1. Same(M, N, ms[u]) /\ u \in S
    BY <1>7, <1>8
  <2> QED BY <1>5, <2>1, SparedTask
<1>9. /\ Running(M) /\ ms[t] \in Spaces /\ Whole(InSpace(M, ms[t])) /\ cx[t] \in Owned(ms[t])
      /\ Owned(ms[t]) \subseteq Frames
  BY <1>5, <1>7, LiveTask
<1>10. Running(N) /\ Whole(InSpace(N, ms[t]))
  BY <1>5, <1>7, LiveTask
<1>11. AnswerOf(N, cx, t) = AnswerOf(M, cx, t)
  BY <1>7, <1>9 DEF AnswerOf
<1>12. vpn \in UserPagesIn(InSpace(M, ms[t])) /\ ImageOf(N, ms[t]) = [ImageOf(M, ms[t]) EXCEPT ![vpn] = v]
  <2>1. PICK sp, a, b : sp = ms[t] /\ a = InSpace(M, sp) /\ b = InSpace(N, sp)
    OBVIOUS
  <2>2. a.mem = M.mem /\ a.nodes = sp.nodes
    BY <1>9, <2>1, InSpaceFacts
  <2>3. e = Lookup(a, vpn)
    BY <1>7, <2>1, <2>2, Zenon DEF Lookup
  <2>4. vpn \in UserPagesIn(a)
    BY <1>7, <2>3 DEF UserPagesIn
  <2>5. ImageIn(b) = [ImageIn(a) EXCEPT ![vpn] = v]
    BY <1>7, <1>9, <1>10, <2>1, <2>3, <2>4, StoreImage
  <2> QED BY <2>1, <2>4, <2>5, Zenon DEF ImageOf
<1>13. /\ Alive = S /\ Image = [u \in S |-> ImageOf(M, ms[u])]
       /\ Answers = [u \in S |-> AnswerOf(M, cx, u)]
  BY <1>1, <1>4, ViewsHold DEF Views
<1>14. /\ Alive' = S /\ Image' = [u \in S |-> ImageOf(N, ms[u])]
       /\ Answers' = [u \in S |-> AnswerOf(N, cx, u)]
  BY <1>2, <1>3, <1>4, ViewsNext
<1>15. Answers' = Answers
  BY <1>8, <1>11, <1>13, <1>14
<1>16. vpn \in DOMAIN Image[t]
  <2>1. DOMAIN ImageOf(M, ms[t]) = UserPagesIn(InSpace(M, ms[t]))
    BY DEF ImageOf, ImageIn
  <2> QED BY <1>7, <1>12, <1>13, <2>1
<1>17. Image' = [Image EXCEPT ![t][vpn] = v]
  <2>1. Image[t] = ImageOf(M, ms[t])
    BY <1>7, <1>13
  <2>2. PICK I : I = [ImageOf(M, ms[t]) EXCEPT ![vpn] = v]
    OBVIOUS
  <2>3. [Image EXCEPT ![t][vpn] = v] = [Image EXCEPT ![t] = I]
    BY <2>1, <2>2
  <2>4. [Image EXCEPT ![t] = I] = [u \in S |-> IF u = t THEN I ELSE ImageOf(M, ms[u])]
    BY <1>7, <1>13
  <2>5. ImageOf(N, ms[t]) = I
    BY <1>12, <2>2, Zenon
  <2>6. [u \in S |-> ImageOf(N, ms[u])] = [u \in S |-> IF u = t THEN I ELSE ImageOf(M, ms[u])]
    BY <1>8, <2>5
  <2> QED BY <1>14, <2>3, <2>4, <2>6
<1> QED BY <1>7, <1>13, <1>14, <1>15, <1>16, <1>17 DEF Private!Store

(* After boot the first task has the image of initproc.                     *)
LEMMA InitView ==
  ASSUME Inv, BootState(Now, memory_set, trap_cx_ppn, task)
  PROVE  Private!PrivateInit
<1>1. PICK M, ks, ms, cx, tk : /\ M = Now /\ ks = kernel_space /\ ms = memory_set
                               /\ cx = trap_cx_ppn /\ tk = task
  OBVIOUS
<1>2. PICK S \in SUBSET Pids : S = AliveIn(tk)
  BY <1>1, InvFacts
<1>3. Sound(M, ks, ms) /\ Live(M, ms, cx, S)
  BY <1>1, <1>2, InvFacts
<1>4. PICK p \in Pids : p = 0
  BY MemoryAssumption
<1>5. PICK f, x : /\ Whole(f) /\ ElfImage(InitProgram, f) /\ S = {p}
                  /\ ms[p] = SpaceOf(f) /\ cx[p] = x /\ M.mem[x][1] = Data(0)
                  /\ \A z \in Owned(SpaceOf(f)) : z # x => M.mem[z] = f.mem[z]
  <2>1. BootState(M, ms, cx, tk)
    BY <1>1, Zenon
  <2>2. PICK f, x : /\ Whole(f) /\ ElfImage(InitProgram, f) /\ AliveIn(tk) = {0}
                    /\ ms[0] = SpaceOf(f) /\ cx[0] = x /\ M.mem[x][1] = Data(0)
                    /\ \A z \in Owned(SpaceOf(f)) : z # x => M.mem[z] = f.mem[z]
    BY <2>1, Zenon DEF BootState
  <2>3. S = {p} /\ ms[p] = SpaceOf(f) /\ cx[p] = x
    BY <1>2, <1>4, <2>2
  <2> QED BY <2>2, <2>3, SMTT(30)
<1>6. /\ Running(M) /\ Whole(InSpace(M, ms[p])) /\ ContextAt(ms[p], cx[p]) /\ p \in S
  BY <1>3, <1>5, LiveTask
<1>7. ImageOf(M, ms[p]) = Private!Loaded(InitProgram) /\ AnswerOf(M, cx, p) = 0
  <2>1. PICK sp : sp = SpaceOf(f)
    OBVIOUS
  <2>2. /\ Whole(InSpace(M, sp)) /\ ContextAt(sp, x) /\ Whole(f)
        /\ \A z \in Owned(sp) : z # x => M.mem[z] = f.mem[z]
    BY <1>5, <1>6, <2>1
  <2>3. ImageIn(InSpace(M, sp)) = ImageIn(f)
    BY <1>6, <2>1, <2>2, BuiltImage
  <2>4. ImageIn(f) = Private!Loaded(InitProgram)
    BY <1>5, MemoryAssumption, ElfIsLoaded
  <2>5. Data(0).ppn = 0
    BY DEF Data
  <2> QED BY <1>5, <2>1, <2>3, <2>4, <2>5 DEF ImageOf, AnswerOf
<1>8. /\ Alive = S /\ Image = [u \in S |-> ImageOf(M, ms[u])]
      /\ Answers = [u \in S |-> AnswerOf(M, cx, u)]
  BY <1>1, <1>2, ViewsHold DEF Views
<1>9. PICK L : L = Private!Loaded(InitProgram)
  OBVIOUS
<1>10. Alive = {0} /\ Image = [u \in {0} |-> L] /\ Answers = [u \in {0} |-> 0]
  BY <1>4, <1>5, <1>7, <1>8, <1>9
<1> QED BY <1>9, <1>10, Zenon DEF Private!PrivateInit

(* Every step of the kernel is a step of PrivateMemory, or none.            *)
LEMMA NextView ==
  ASSUME Inv, Inv', [Next]_vars
  PROVE  [Private!PrivateNext]_<<Alive, Image, Answers>>
<1>1. CASE UNCHANGED vars
  <2>1. Idle
    BY <1>1 DEF vars, Idle
  <2> QED BY <2>1, IdleView
<1>2. CASE Next
  <2>1. PICK t \in Pids :
          \/ \E c \in Pids : Fork(t, c)
          \/ \E program \in Programs : Exec(t, program)
          \/ Exit(t)
          \/ Reap(t)
          \/ \E vpn \in Pages, v \in Values : Store(t, vpn, v)
    BY <1>2 DEF Next
  <2>2. ASSUME t \in AliveIn(task) PROVE t \in Alive
    BY <2>2, ViewsHold DEF Views
  <2>3. ASSUME NEW c \in Pids, Fork(t, c) PROVE [Private!PrivateNext]_<<Alive, Image, Answers>>
    <3>1. \/ Idle
          \/ ForkStep(Now, memory_set, trap_cx_ppn, task, t, c,
                      Now', memory_set', trap_cx_ppn', task')
      BY <2>3, ForkInv
    <3>2. CASE Idle
      BY <3>2, IdleView
    <3>3. CASE ForkStep(Now, memory_set, trap_cx_ppn, task, t, c,
                        Now', memory_set', trap_cx_ppn', task')
      <4>1. Private!Fork(t, c)
        BY <3>3, ForkView
      <4>2. t \in Alive
        BY <2>2, <3>3 DEF ForkStep
      <4> QED BY <4>1, <4>2, Zenon DEF Private!PrivateNext
    <3> QED BY <3>1, <3>2, <3>3
  <2>4. ASSUME NEW program \in Programs, Exec(t, program)
        PROVE  [Private!PrivateNext]_<<Alive, Image, Answers>>
    <3>1. \/ Idle
          \/ ExecStep(Now, memory_set, trap_cx_ppn, task, t, program,
                      Now', memory_set', trap_cx_ppn', task')
      BY <2>4, ExecInv
    <3>2. CASE Idle
      BY <3>2, IdleView
    <3>3. CASE ExecStep(Now, memory_set, trap_cx_ppn, task, t, program,
                        Now', memory_set', trap_cx_ppn', task')
      <4>1. Private!Exec(t, program)
        BY <3>3, ExecView
      <4>2. t \in Alive
        BY <2>2, <3>3 DEF ExecStep
      <4> QED BY <4>1, <4>2, Zenon DEF Private!PrivateNext
    <3> QED BY <3>1, <3>2, <3>3
  <2>5. ASSUME Exit(t) PROVE [Private!PrivateNext]_<<Alive, Image, Answers>>
    <3>1. ExitStep(Now, memory_set, trap_cx_ppn, task, t, Now', memory_set', trap_cx_ppn', task')
      BY <2>5, ExitInv
    <3>2. t \in Alive /\ Private!Exit(t)
      BY <3>1, ExitView
    <3> QED BY <3>2, Zenon DEF Private!PrivateNext
  <2>6. ASSUME Reap(t) PROVE [Private!PrivateNext]_<<Alive, Image, Answers>>
    <3>1. ReapStep(Now, memory_set, trap_cx_ppn, task, t, Now', memory_set', trap_cx_ppn', task')
      BY <2>6, ReapInv
    <3>2. UNCHANGED <<Alive, Image, Answers>>
      BY <3>1, ReapView
    <3> QED BY <3>2
  <2>7. ASSUME NEW vpn \in Pages, NEW v \in Values, Store(t, vpn, v)
        PROVE  [Private!PrivateNext]_<<Alive, Image, Answers>>
    <3>1. /\ UNCHANGED <<memory_set, trap_cx_ppn, task>>
          /\ StoreStep(Now, memory_set, trap_cx_ppn, task, t, vpn, v, Now')
      BY <2>7, StoreInv
    <3>2. t \in Alive /\ vpn \in DOMAIN Image[t] /\ Private!Store(t, vpn, v)
      BY <3>1, StoreView
    <3> QED BY <3>2, Zenon DEF Private!PrivateNext
  <2> QED BY <2>1, <2>3, <2>4, <2>5, <2>6, <2>7
<1> QED BY <1>1, <1>2

(* Every task has a memory of its own, for any number of tasks, frames and  *)
(* programs: fork copies the image and answers both, exec loads a fresh one,*)
(* and no step of a task or of its kernel code changes what another sees.   *)
THEOREM MemoryIsPrivate == Spec => ImplementsPrivateMemory
<1>1. Init => Private!PrivateInit
  BY InitInv, InitView
<1>2. Inv /\ Inv' /\ [Next]_vars => [Private!PrivateNext]_Private!privateVars
  BY NextView DEF Private!privateVars
<1> QED BY <1>1, <1>2, InvHolds, PTL DEF Spec, ImplementsPrivateMemory, Private!PrivateSpec
=============================================================================
