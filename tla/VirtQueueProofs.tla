-------------------------- MODULE VirtQueueProofs --------------------------
(***************************************************************************)
(* Theorems about VirtQueue, for any queue size, any wrap of the indices   *)
(* and any number of requests: no descriptor is lost or handed out twice,  *)
(* the disk sees whole requests only, a spin ends with its answer, and the *)
(* queue implements DiskRequests.                                          *)
(***************************************************************************)
EXTENDS VirtQueue, SeqFacts, FiniteSetTheorems, WellFoundedInduction

Heads == Slots \cup {None}

(* The list of free descriptors.                                            *)
FreeList(s) ==
    /\ s \in Seq(Slots) /\ IsInjective(s)
    /\ Len(s) = queue_size - num_used
    /\ s # <<>> => s[1] = free_head
    /\ \A k \in 1 .. Len(s) - 1 : s[k + 1] = desc[s[k]].next
    /\ \A d \in Range(s) : desc[d].of = None

(* The chain of request r is its token, b and c.                            *)
Whole(r, b, c) ==
    LET a == req[r].token
    IN  /\ a \in Slots
        /\ desc[a].of = r /\ desc[a].buf = "header" /\ desc[a].flags = {"NEXT"}
        /\ desc[a].next = b
        /\ desc[b].of = r /\ desc[b].buf = "data" /\ desc[b].next = c
        /\ desc[b].flags = IF req[r].type = "In" THEN {"NEXT", "WRITE"} ELSE {"NEXT"}
        /\ desc[c].of = r /\ desc[c].buf = "status" /\ desc[c].flags = {"WRITE"}

(* Every request in flight has its chain, and the driver counts them.       *)
Chains ==
    /\ \A r \in Sent : \E b, c \in Slots : Whole(r, b, c)
    /\ IsFiniteSet(Sent) /\ num_used = 3 * Cardinality(Sent)

(* The entries s of a ring lie between the indices i and j.                 *)
Window(ring, i, j, s) ==
    /\ s \in Seq(Slots) /\ Len(s) < queue_size
    /\ j = (i + Len(s)) % WRAP
    /\ \A k \in 1 .. Len(s) : ring[Slot(i + k - 1)] = s[k]

(* The head that add has put into the ring and not published.               *)
Unpublished == IF pc = "filled" THEN {req[current].token} ELSE {}

(* A head is in one place: not yet published, published, taken or answered; *)
(* only requests in flight have heads, and the answered ones have a status. *)
InFlight(a, u) ==
    /\ IsInjective(a) /\ IsInjective(u)
    /\ Range(a) \cap taken = {} /\ Range(a) \cap Range(u) = {} /\ taken \cap Range(u) = {}
    /\ Unpublished \cap (Range(a) \cup taken \cup Range(u)) = {}
    /\ \A r \in Sent : req[r].token \in Unpublished \cup Range(a) \cup taken \cup Range(u)
    /\ \A h \in Unpublished \cup Range(a) \cup taken \cup Range(u) :
          \E r \in Sent : req[r].token = h
    /\ \A r \in Sent : req[r].token \in Range(u) <=> req[r].status # "NotReady"

(* The published and the answered heads are in the rings.                   *)
Rings(a, u) ==
    /\ Window(avail.ring, dev_idx, avail_idx, a)
    /\ Window(used.ring, last_used_idx, used.idx, u)
    /\ InFlight(a, u)

(* Where the driver is.                                                     *)
DriverAt ==
    /\ avail.idx = avail_idx
    /\ pc = "filled" => /\ current \in Sent
                        /\ avail.ring[Slot(avail_idx)] = req[current].token
    /\ pc = "spin" => Sent = {current}

(* A request in flight has what the disk needs.                             *)
Asked ==
    \A r \in Sent : /\ req[r].sector \in Sectors
                    /\ req[r].type = "Out" => req[r].data \in Values

(* The inductive invariant.                                                 *)
QueueInv ==
    /\ TypeOK /\ Chains /\ DriverAt /\ Asked
    /\ \E s \in Seq(Slots) : FreeList(s)
    /\ \E a, u \in Seq(Slots) : Rings(a, u)

-----------------------------------------------------------------------------
(* Indices that wrap.                                                       *)

(* Quotient and remainder.                                                  *)
LEMMA DivMod ==
  ASSUME NEW q \in Nat \ {0}, NEW x \in Int
  PROVE  /\ x % q \in 0 .. q - 1
         /\ x \div q \in Int
         /\ x = q * (x \div q) + (x % q)
OBVIOUS

(* They are unique.                                                         *)
LEMMA ModIs ==
  ASSUME NEW q \in Nat \ {0}, NEW a \in Int, NEW s \in 0 .. q - 1, NEW x \in Int,
         x = q * a + s
  PROVE  x % q = s
<1>1. PICK b \in Int, t \in 0 .. q - 1 : x = q * b + t /\ x % q = t
  BY DivMod
<1>2. q * (a - b) = t - s
  BY <1>1
<1>3. CASE a - b >= 1
  <2>1. q * (a - b) >= q
    BY <1>3
  <2> QED BY <1>2, <2>1
<1>4. CASE a - b <= -1
  <2>1. q * (a - b) <= -q
    BY <1>4
  <2> QED BY <1>2, <2>1
<1> QED BY <1>1, <1>2, <1>3, <1>4

(* Counting on from a wrapped index.                                        *)
LEMMA ModShift ==
  ASSUME NEW q \in Nat \ {0}, NEW x \in Int, NEW y \in Int
  PROVE  ((x % q) + y) % q = (x + y) % q
<1>1. PICK a \in Int, s \in 0 .. q - 1 : x = q * a + s /\ x % q = s
  BY DivMod
<1>2. PICK v \in Int, z \in Int : v = s + y /\ z = x + y
  OBVIOUS
<1>3. PICK b \in Int, t \in 0 .. q - 1 : v = q * b + t /\ v % q = t
  BY DivMod
<1>4. PICK c \in Int : c = a + b
  OBVIOUS
<1>5. z = q * c + t
  BY <1>1, <1>2, <1>3, <1>4
<1>6. z % q = t
  BY <1>5, ModIs
<1> QED BY <1>1, <1>2, <1>3, <1>6

(* Wrapping at a multiple of q does not change the place modulo q.          *)
LEMMA ModMod ==
  ASSUME NEW q \in Nat \ {0}, NEW w \in Nat \ {0}, w % q = 0,
         NEW x \in Int, NEW y \in Int
  PROVE  ((x % w) + y) % q = (x + y) % q
<1>1. PICK m \in Int : w = q * m
  <2>1. w = q * (w \div q) + 0 /\ w \div q \in Int
    BY DivMod
  <2> QED BY <2>1
<1>2. PICK a \in Int, s \in 0 .. w - 1 : x = w * a + s /\ x % w = s
  BY DivMod
<1>3. PICK v \in Int, z \in Int : v = s + y /\ z = x + y
  OBVIOUS
<1>4. PICK b \in Int, t \in 0 .. q - 1 : v = q * b + t /\ v % q = t
  BY DivMod
<1>5. PICK c \in Int : c = m * a + b
  OBVIOUS
<1>6. z = q * c + t
  <2>1. w * a = q * (m * a)
    BY <1>1
  <2>2. q * c = q * (m * a) + q * b
    BY <1>5
  <2> QED BY <2>1, <2>2, <1>2, <1>3, <1>4
<1>7. z % q = t
  BY <1>6, ModIs
<1> QED BY <1>2, <1>3, <1>4, <1>7

(* Fewer than q successive indices have different places.                   *)
LEMMA ModDistinct ==
  ASSUME NEW q \in Nat \ {0}, NEW x \in Int, NEW y \in Int, x # y,
         x - y < q, y - x < q
  PROVE  x % q # y % q
<1> SUFFICES ASSUME x % q = y % q PROVE FALSE
  OBVIOUS
<1>1. PICK a \in Int, s \in 0 .. q - 1 : x = q * a + s /\ x % q = s
  BY DivMod
<1>2. PICK b \in Int, t \in 0 .. q - 1 : y = q * b + t /\ y % q = t
  BY DivMod
<1>3. q * (a - b) = x - y
  BY <1>1, <1>2
<1>4. CASE a - b >= 1
  <2>1. q * (a - b) >= q
    BY <1>4
  <2> QED BY <1>3, <2>1
<1>5. CASE a - b <= -1
  <2>1. q * (a - b) <= -q
    BY <1>5
  <2> QED BY <1>3, <2>1
<1>6. CASE a = b
  BY <1>1, <1>2, <1>6
<1> QED BY <1>4, <1>5, <1>6

-----------------------------------------------------------------------------
(* The rings.                                                               *)

(* The queue is not empty, and the indices wrap at a multiple of its size.  *)
LEMMA Sizes ==
  /\ queue_size \in Nat /\ queue_size > 0 /\ WRAP \in Nat /\ WRAP > 0
  /\ WRAP >= queue_size /\ WRAP % queue_size = 0
BY VirtQueueAssumption

(* A slot is in the ring, and an index is below WRAP.                       *)
LEMMA Wrapped ==
  ASSUME NEW x \in Int
  PROVE  /\ Slot(x) \in Slots /\ Incremented(x) \in 0 .. WRAP - 1
         /\ x % WRAP \in 0 .. WRAP - 1 /\ x % WRAP \in Int
<1>1. PICK y \in Int : y = x + 1
  OBVIOUS
<1>2. queue_size \in Nat \ {0} /\ WRAP \in Nat \ {0}
  BY Sizes
<1>3. x % WRAP \in 0 .. WRAP - 1 /\ y % WRAP \in 0 .. WRAP - 1 /\ x % queue_size \in 0 .. queue_size - 1
  BY <1>2, DivMod
<1> QED BY <1>1, <1>2, <1>3 DEF Slot, Slots, Incremented

(* An index below WRAP is not changed by wrapping.                          *)
LEMMA NotWrapped ==
  ASSUME NEW x \in 0 .. WRAP - 1
  PROVE  x % WRAP = x
<1>1. x = WRAP * 0 + x /\ WRAP \in Nat \ {0} /\ 0 \in Int /\ x \in Int
  BY Sizes
<1> QED BY <1>1, ModIs

(* An index has wrapped, its slot has not.                                  *)
LEMMA SlotShift ==
  ASSUME NEW x \in Int, NEW y \in Int
  PROVE  /\ Slot((x % WRAP) + y) = Slot(x + y)
         /\ ((x % WRAP) + y) % WRAP = (x + y) % WRAP
<1>1. WRAP % queue_size = 0 /\ queue_size \in Nat \ {0} /\ WRAP \in Nat \ {0}
  BY Sizes
<1> QED BY <1>1, ModMod, ModShift DEF Slot

(* wrapping_add and the slot of a wrapped index.                            *)
LEMMA SlotWrap ==
  ASSUME NEW x \in Int
  PROVE  Slot(x % WRAP) = Slot(x) /\ Incremented(x % WRAP) = (x + 1) % WRAP
<1>1. PICK y \in Int, z \in Int : y = 0 /\ z = 1
  OBVIOUS
<1>2. Slot((x % WRAP) + y) = Slot(x + y) /\ ((x % WRAP) + z) % WRAP = (x + z) % WRAP
  BY SlotShift
<1>3. (x % WRAP) + y = x % WRAP /\ x + y = x
  BY <1>1, Wrapped
<1> QED BY <1>1, <1>2, <1>3 DEF Incremented

(* Indices less than one turn apart have different slots.                   *)
LEMMA SlotDistinct ==
  ASSUME NEW x \in Int, NEW y \in Int, x # y, x - y < queue_size, y - x < queue_size
  PROVE  Slot(x) # Slot(y)
<1>1. queue_size \in Nat \ {0}
  BY Sizes
<1> QED BY <1>1, ModDistinct DEF Slot

(* The slot behind the window is not in it; an entry there extends it.      *)
LEMMA WindowGrows ==
  ASSUME NEW i \in Int, NEW j \in Int, NEW s, NEW h \in Slots,
         NEW ring \in [Slots -> Heads], Window(ring, i, j, s)
  PROVE  /\ Window([ring EXCEPT ![Slot(j)] = h], i, j, s)
         /\ ring[Slot(j)] = h /\ Len(s) + 1 < queue_size
              => Window(ring, i, Incremented(j), Append(s, h))
<1>1. /\ s \in Seq(Slots) /\ Len(s) \in Nat /\ Len(s) < queue_size
      /\ j = (i + Len(s)) % WRAP /\ \A k \in 1 .. Len(s) : ring[Slot(i + k - 1)] = s[k]
  BY DEF Window
<1>2. PICK e \in Int : e = i + Len(s)
  BY <1>1
<1>3. Slot(j) = Slot(e) /\ Incremented(j) = (e + 1) % WRAP
  <2>1. j = e % WRAP
    BY <1>1, <1>2
  <2> QED BY <2>1, SlotWrap
<1>4. Slot(j) \in Slots
  BY Wrapped
<1>5. ASSUME NEW k \in 1 .. Len(s) PROVE Slot(i + k - 1) # Slot(j)
  <2>1. PICK x \in Int : x = i + k - 1
    OBVIOUS
  <2>2. x # e /\ x - e < queue_size /\ e - x < queue_size
    BY <1>1, <1>2, <2>1, Sizes
  <2> QED BY <2>1, <2>2, <1>3, SlotDistinct
<1>6. Window([ring EXCEPT ![Slot(j)] = h], i, j, s)
  <2>1. ASSUME NEW k \in 1 .. Len(s)
        PROVE  [ring EXCEPT ![Slot(j)] = h][Slot(i + k - 1)] = s[k]
    <3>1. i + k - 1 \in Int
      OBVIOUS
    <3> QED BY <3>1, <1>1, <1>4, <1>5, Wrapped
  <2> QED BY <1>1, <2>1 DEF Window
<1>7. ASSUME ring[Slot(j)] = h, Len(s) + 1 < queue_size
      PROVE  Window(ring, i, Incremented(j), Append(s, h))
  <2>1. /\ Append(s, h) \in Seq(Slots) /\ Len(Append(s, h)) = Len(s) + 1
        /\ \A k \in 1 .. Len(s) : Append(s, h)[k] = s[k]
        /\ Append(s, h)[Len(s) + 1] = h
    BY <1>1
  <2>2. PICK t : t = Append(s, h)
    OBVIOUS
  <2>3. i + Len(t) = e + 1 /\ i + (Len(s) + 1) - 1 = e
    BY <1>1, <1>2, <2>1, <2>2
  <2>4. ASSUME NEW k \in 1 .. Len(t) PROVE ring[Slot(i + k - 1)] = t[k]
    <3>1. CASE k \in 1 .. Len(s)
      BY <1>1, <2>1, <2>2, <3>1
    <3>2. CASE k = Len(s) + 1
      BY <1>3, <1>7, <2>1, <2>2, <2>3, <3>2
    <3> QED BY <1>1, <2>1, <2>2, <3>1, <3>2
  <2>5. Window(ring, i, Incremented(j), t)
    BY <1>3, <1>7, <2>1, <2>2, <2>3, <2>4 DEF Window
  <2> QED BY <2>2, <2>5
<1> QED BY <1>6, <1>7

(* The first entry is where the index says, and taking it shortens the      *)
(* window at its front only.                                                *)
LEMMA WindowShrinks ==
  ASSUME NEW i \in Int, NEW j \in Int, NEW s,
         NEW ring \in [Slots -> Heads], Window(ring, i, j, s), s # <<>>
  PROVE  /\ ring[Slot(i)] = Head(s) /\ Slot(i) # Slot(j)
         /\ Window([ring EXCEPT ![Slot(i)] = None], Incremented(i), j, Tail(s))
<1>1. /\ s \in Seq(Slots) /\ Len(s) \in Nat /\ Len(s) < queue_size
      /\ j = (i + Len(s)) % WRAP /\ \A k \in 1 .. Len(s) : ring[Slot(i + k - 1)] = s[k]
  BY DEF Window
<1>2. PICK t : t = Tail(s)
  OBVIOUS
<1>3. /\ Len(s) > 0 /\ Head(s) = s[1]
      /\ t \in Seq(Slots) /\ Len(t) = Len(s) - 1
      /\ \A k \in 1 .. Len(t) : t[k] = s[k + 1]
  BY <1>1, <1>2
<1>4. ring[Slot(i)] = Head(s)
  <2>1. i + 1 - 1 = i /\ 1 \in 1 .. Len(s)
    BY <1>1, <1>3
  <2> QED BY <1>1, <1>3, <2>1
<1>5. \A e \in Int : e > i /\ e - i < queue_size => Slot(e) # Slot(i)
  <2> SUFFICES ASSUME NEW e \in Int, e > i, e - i < queue_size PROVE Slot(e) # Slot(i)
    OBVIOUS
  <2>1. e # i /\ i - e < queue_size
    BY Sizes
  <2> QED BY <2>1, SlotDistinct
<1>6. Slot(i) # Slot(j)
  <2>1. PICK e \in Int : e = i + Len(s)
    BY <1>1
  <2>3. Slot(j) = Slot(e)
    BY <1>1, <2>1, SlotWrap
  <2>4. e > i /\ e - i < queue_size
    BY <1>1, <1>3, <2>1
  <2> QED BY <1>5, <2>3, <2>4
<1>7. Incremented(i) = (i + 1) % WRAP /\ Incremented(i) \in Int
  BY Wrapped, Sizes DEF Incremented
<1>8. j = (Incremented(i) + Len(t)) % WRAP
  <2>1. PICK x \in Int : x = i + 1
    OBVIOUS
  <2>2. ((x % WRAP) + Len(t)) % WRAP = (x + Len(t)) % WRAP
    BY <1>3, SlotShift
  <2>3. x + Len(t) = i + Len(s)
    BY <1>1, <1>3, <2>1
  <2> QED BY <1>1, <1>7, <2>1, <2>2, <2>3
<1>9. ASSUME NEW k \in 1 .. Len(t)
      PROVE  [ring EXCEPT ![Slot(i)] = None][Slot(Incremented(i) + k - 1)] = t[k]
  <2>1. PICK x \in Int : x = i + 1
    OBVIOUS
  <2>a. PICK y \in Int : y = k - 1
    OBVIOUS
  <2>2. Slot((x % WRAP) + (k - 1)) = Slot(x + (k - 1)) /\ x % WRAP \in Int
    BY <2>a, SlotShift, Wrapped
  <2>3. Slot(Incremented(i) + k - 1) = Slot(i + k)
    <3>1. x + (k - 1) = i + k /\ Incremented(i) + k - 1 = (x % WRAP) + (k - 1)
      BY <1>7, <2>1, <2>2
    <3> QED BY <2>2, <3>1
  <2>4. i + k \in Int /\ i + k > i /\ (i + k) - i < queue_size
    BY <1>1, <1>3, Sizes
  <2>5. Slot(i + k) # Slot(i) /\ Slot(i + k) \in Slots
    BY <1>5, <2>4, Wrapped
  <2>6. ring[Slot(i + k)] = s[k + 1]
    <3>1. k + 1 \in 1 .. Len(s) /\ i + (k + 1) - 1 = i + k
      BY <1>1, <1>3
    <3> QED BY <1>1, <3>1
  <2> QED BY <1>3, <2>3, <2>5, <2>6
<1>10. Window([ring EXCEPT ![Slot(i)] = None], Incremented(i), j, t)
  <2>1. Len(t) < queue_size
    BY <1>1, <1>3, Sizes
  <2> QED BY <1>3, <1>8, <1>9, <2>1 DEF Window
<1> QED BY <1>2, <1>4, <1>6, <1>10

(* Equal indices mean an empty window, since a window is never a whole turn.*)
LEMMA WindowEmpty ==
  ASSUME NEW i \in 0 .. WRAP - 1, NEW j, NEW s, NEW ring, Window(ring, i, j, s)
  PROVE  i = j <=> s = <<>>
<1>1. /\ s \in Seq(Slots) /\ Len(s) \in Nat /\ Len(s) < queue_size /\ Len(s) < WRAP
      /\ j = (i + Len(s)) % WRAP
  <2>1. s \in Seq(Slots) /\ Len(s) \in Nat /\ Len(s) < queue_size
    BY DEF Window
  <2> QED BY <2>1, Sizes DEF Window
<1>2. i % WRAP = i
  BY NotWrapped
<1>3. CASE s = <<>>
  BY <1>1, <1>2, <1>3
<1>4. CASE s # <<>>
  <2>1. Len(s) > 0
    BY <1>1, <1>4
  <2>2. PICK e \in Int : e = i + Len(s)
    BY <1>1
  <2>3. i # e /\ i - e < WRAP /\ e - i < WRAP
    BY <1>1, <2>1, <2>2, Sizes
  <2>4. i % WRAP # e % WRAP
    <3>1. WRAP \in Nat \ {0} /\ i \in Int
      BY Sizes
    <3> QED BY <2>3, <3>1, ModDistinct
  <2> QED BY <1>1, <1>2, <1>4, <2>2, <2>4
<1> QED BY <1>3, <1>4

(* Every index between the two finds an entry of the window.                *)
LEMMA WindowAhead ==
  ASSUME NEW i \in 0 .. WRAP - 1, NEW j \in 0 .. WRAP - 1, NEW s, NEW ring,
         Window(ring, i, j, s),
         NEW n \in 0 .. WRAP - 1, (n - i) % WRAP < (j - i) % WRAP
  PROVE  ring[Slot(n)] \in Range(s)
<1>1. /\ s \in Seq(Slots) /\ Len(s) \in Nat /\ Len(s) < WRAP
      /\ j = (i + Len(s)) % WRAP /\ \A k \in 1 .. Len(s) : ring[Slot(i + k - 1)] = s[k]
  <2>1. s \in Seq(Slots) /\ Len(s) \in Nat /\ Len(s) < queue_size
    BY DEF Window
  <2> QED BY <2>1, Sizes DEF Window
<1>2. (j - i) % WRAP = Len(s)
  <2>1. PICK e \in Int : e = i + Len(s)
    BY <1>1
  <2>2. PICK y \in Int : y = -i
    OBVIOUS
  <2>3. ((e % WRAP) + y) % WRAP = (e + y) % WRAP /\ e % WRAP \in Int
    BY SlotShift, Wrapped
  <2>4. Len(s) % WRAP = Len(s)
    <3>1. Len(s) \in 0 .. WRAP - 1
      BY <1>1, Sizes
    <3> QED BY <3>1, NotWrapped
  <2>5. j - i = (e % WRAP) + y /\ e + y = Len(s)
    BY <1>1, <2>1, <2>2, <2>3
  <2> QED BY <2>3, <2>4, <2>5
<1>3. PICK d \in Int : d = n - i
  OBVIOUS
<1>4. d % WRAP \in 0 .. Len(s) - 1
  <2>1. d % WRAP \in 0 .. WRAP - 1 /\ d % WRAP < Len(s)
    BY <1>2, <1>3, Wrapped
  <2> QED BY <1>1, <2>1, Sizes
<1>5. PICK k \in 1 .. Len(s) : k = (d % WRAP) + 1
  BY <1>1, <1>4
<1>6. Slot(n) = Slot(i + k - 1)
  <2>1. Slot((d % WRAP) + i) = Slot(d + i)
    BY SlotShift
  <2>2. d + i = n /\ (d % WRAP) + i = i + k - 1
    BY <1>3, <1>4, <1>5
  <2> QED BY <2>1, <2>2
<1>7. ring[Slot(n)] = s[k]
  BY <1>1, <1>6
<1> QED BY <1>1, <1>7, RangeFacts

-----------------------------------------------------------------------------
(* The descriptor lists.                                                    *)

(* A set of numbers that is not empty has a least element.                  *)
LEMMA Least ==
  ASSUME NEW T, T \subseteq Nat, T # {}
  PROVE  \E x \in T : \A y \in T : ~(y < x)
<1>1. \E x \in T : \A y \in T : ~(<<y, x>> \in OpToRel(<, Nat))
  BY NatLessThanWellFounded, WFMin
<1>2. \A x, y \in T : y < x => <<y, x>> \in OpToRel(<, Nat)
  BY DEF OpToRel
<1> QED BY <1>1, <1>2, Zenon

(* Following next from i gives the sequence whose members are linked.       *)
LEMMA LinkedIs ==
  ASSUME NEW i, NEW S, NEW s \in Seq(S), s # <<>> => s[1] = i,
         \A k \in 1 .. Len(s) - 1 : s[k + 1] = desc[s[k]].next
  PROVE  Linked(i, Len(s)) = s
<1> DEFINE n == Len(s)
           G(f) == [k \in 1 .. n |-> IF k = 1 THEN i ELSE desc[f[k - 1]].next]
<1>1. s = G(s)
  <2>1. n \in Nat /\ DOMAIN s = 1 .. n /\ s = [k \in 1 .. n |-> s[k]]
    OBVIOUS
  <2>2. ASSUME NEW k \in 1 .. n PROVE s[k] = IF k = 1 THEN i ELSE desc[s[k - 1]].next
    <3>1. CASE k = 1
      BY <2>1, <3>1
    <3>2. CASE k # 1
      <4>1. k - 1 \in 1 .. n - 1 /\ (k - 1) + 1 = k
        BY <2>1, <3>2
      <4> QED BY <4>1, <3>2
    <3> QED BY <3>1, <3>2
  <2> HIDE DEF n
  <2> QED BY <2>1, <2>2
<1>2. PICK f : f = Linked(i, n) /\ f = G(f)
  BY <1>1 DEF Linked
<1>3. \A k \in 1 .. n : f[k] = s[k]
  <2>0. PICK T : T = {k \in 1 .. n : f[k] # s[k]}
    OBVIOUS
  <2> SUFFICES ASSUME T # {} PROVE FALSE
    BY <2>0
  <2>1. PICK k \in T : \A y \in T : ~(y < k)
    <3>1. T \subseteq Nat
      BY <2>0
    <3> QED BY <3>1, Least
  <2>2. CASE k = 1
    BY <1>1, <1>2, <2>0, <2>1, <2>2
  <2>3. CASE k # 1
    <3>1. k - 1 \in 1 .. n /\ k - 1 < k
      BY <2>0, <2>1, <2>3
    <3>2. f[k - 1] = s[k - 1]
      BY <3>1, <2>0, <2>1
    <3> QED BY <1>1, <1>2, <2>0, <2>1, <2>3, <3>2
  <2> QED BY <2>2, <2>3
<1> QED BY <1>1, <1>2, <1>3

-----------------------------------------------------------------------------
(* What the invariant says of a state.                                      *)

(* A sequence of different slots that leaves one out is shorter than the    *)
(* queue.                                                                   *)
LEMMA Fits ==
  ASSUME NEW s \in Seq(Slots), IsInjective(s), NEW x \in Slots, x \notin Range(s)
  PROVE  Len(s) < queue_size
<1>1. PICK t \in Seq(Slots) : t = Append(s, x) /\ IsInjective(t) /\ Len(t) = Len(s) + 1
  BY AppendFacts, LenFacts
<1>2. t \in Injection(1 .. Len(t), Slots) /\ Len(t) \in Nat
  <2>1. DOMAIN t = 1 .. Len(t) /\ Len(t) \in Nat /\ t \in [1 .. Len(t) -> Slots]
    OBVIOUS
  <2> QED BY <1>1, <2>1 DEF Injection, IsInjective
<1>3. IsFiniteSet(Slots) /\ Cardinality(Slots) = queue_size
  <2>1. 0 \in Int /\ queue_size - 1 \in Int /\ ~(0 > queue_size - 1) /\ (queue_size - 1) - 0 + 1 = queue_size
    BY Sizes
  <2> QED BY <2>1, FS_Interval DEF Slots
<1>4. Cardinality(1 .. Len(t)) = Len(t)
  <2>1. 1 \in Int /\ Len(t) \in Int /\ ~(1 > Len(t)) /\ Len(t) - 1 + 1 = Len(t)
    BY <1>1, <1>2
  <2> QED BY <2>1, FS_Interval
<1>5. Cardinality(1 .. Len(t)) <= Cardinality(Slots)
  BY <1>2, <1>3, FS_Injection
<1> QED BY <1>1, <1>3, <1>4, <1>5, Sizes

(* The chain of a request in flight, and that its three slots differ.       *)
LEMMA ChainFacts ==
  ASSUME TypeOK, NEW r \in Sent, NEW b \in Slots, NEW c \in Slots, Whole(r, b, c)
  PROVE  LET a == req[r].token
         IN  /\ Chain(a) = <<a, b, c>>
             /\ a # b /\ a # c /\ b # c
<1>1. PICK a \in Slots : a = req[r].token
  BY DEF Whole
<1>2. a # b /\ a # c /\ b # c
  BY <1>1 DEF Whole
<1>3. queue_size >= 3
  BY <1>2, Sizes DEF Slots
<1>4. /\ Linked(a, 1) = <<a>> /\ Linked(a, 2) = <<a, b>> /\ Linked(a, 3) = <<a, b, c>>
  <2>1. desc[a].next = b /\ desc[b].next = c
    BY <1>1 DEF Whole
  <2>a. <<a>> \in Seq(Slots) /\ <<a, b>> \in Seq(Slots) /\ <<a, b, c>> \in Seq(Slots)
    OBVIOUS
  <2>2. PICK s1 \in Seq(Slots), s2 \in Seq(Slots), s3 \in Seq(Slots) :
           s1 = <<a>> /\ s2 = <<a, b>> /\ s3 = <<a, b, c>>
    BY <2>a, Zenon
  <2>3. Linked(a, Len(s1)) = s1
    <3>1. (s1 # <<>> => s1[1] = a) /\ Len(s1) = 1 /\ \A k \in 1 .. Len(s1) - 1 : s1[k + 1] = desc[s1[k]].next
      BY <2>2
    <3> QED BY <3>1, LinkedIs
  <2>4. Linked(a, Len(s2)) = s2
    <3>1. (s2 # <<>> => s2[1] = a) /\ Len(s2) = 2 /\ \A k \in 1 .. Len(s2) - 1 : s2[k + 1] = desc[s2[k]].next
      BY <2>1, <2>2
    <3> QED BY <3>1, LinkedIs
  <2>5. Linked(a, Len(s3)) = s3
    <3>1. (s3 # <<>> => s3[1] = a) /\ Len(s3) = 3 /\ \A k \in 1 .. Len(s3) - 1 : s3[k + 1] = desc[s3[k]].next
      BY <2>1, <2>2
    <3> QED BY <3>1, LinkedIs
  <2>6. Len(s1) = 1 /\ Len(s2) = 2 /\ Len(s3) = 3
    BY <2>2
  <2> QED BY <2>2, <2>3, <2>4, <2>5, <2>6
<1>5. ChainLength(a) = 3
  <2>1. PICK N : N = {n \in 1 .. queue_size :
                        n = queue_size \/ "NEXT" \notin desc[Linked(a, n)[n]].flags}
    OBVIOUS
  <2>2. 3 \in N
    BY <1>1, <1>3, <1>4, <2>1, Sizes DEF Whole
  <2>3. 1 \notin N /\ 2 \notin N
    BY <1>1, <1>3, <1>4, <2>1 DEF Whole
  <2>4. \A n \in N : 3 <= n
    BY <2>1, <2>3, Sizes
  <2>5. \A n \in N : (\A m \in N : n =< m) => n = 3
    BY <2>1, <2>2, <2>4, Sizes
  <2>6. Min(N) = 3
    BY <2>2, <2>4, <2>5 DEF Min
  <2> QED BY <2>1, <2>6 DEF ChainLength
<1> QED BY <1>1, <1>2, <1>4, <1>5 DEF Chain

(* Heads in a ring are heads of different requests, so a ring is never full.*)
LEMMA RingFits ==
  ASSUME TypeOK, Chains, NEW s \in Seq(Slots), IsInjective(s),
         \A h \in Range(s) : \E r \in Sent : req[r].token = h
  PROVE  Len(s) < queue_size
<1>1. CASE s = <<>>
  BY <1>1, Sizes
<1>2. CASE s # <<>>
  <2>1. s[1] \in Range(s)
    BY <1>2, RangeFacts
  <2>2. PICK r \in Sent, b \in Slots, c \in Slots : Whole(r, b, c)
    BY <2>1 DEF Chains
  <2>3. c \notin Range(s)
    <3> SUFFICES ASSUME c \in Range(s) PROVE FALSE
      OBVIOUS
    <3>1. PICK q \in Sent : req[q].token = c
      OBVIOUS
    <3>2. desc[c].buf = "header"
      BY <3>1 DEF Chains, Whole
    <3> QED BY <2>2, <3>2 DEF Whole
  <2> QED BY <2>3, Fits
<1> QED BY <1>1, <1>2

(* A token names its request.                                               *)
LEMMA TokenUnique ==
  ASSUME Chains, NEW r \in Sent, NEW q \in Sent, req[r].token = req[q].token
  PROVE  r = q
BY DEF Chains, Whole

-----------------------------------------------------------------------------
(* Each step keeps the invariant.                                           *)

(* The chains stay while descriptors and tokens do, ...                     *)
LEMMA ChainsFrame ==
  ASSUME Chains, UNCHANGED <<desc, num_used>>, Sent' = Sent,
         \A q \in Sent : req'[q].token = req[q].token /\ req'[q].type = req[q].type
  PROVE  Chains'
<1>1. ASSUME NEW r \in Sent PROVE \E b, c \in Slots : Whole(r, b, c)'
  <2>1. PICK b \in Slots, c \in Slots : Whole(r, b, c)
    BY DEF Chains
  <2>2. Whole(r, b, c)'
    BY <2>1 DEF Whole
  <2> QED BY <2>2
<1> QED BY <1>1 DEF Chains

(* ... the free list while the descriptors do, ...                          *)
LEMMA FreeListFrame ==
  ASSUME NEW s, FreeList(s), UNCHANGED <<desc, num_used, free_head>>
  PROVE  FreeList(s)'
BY DEF FreeList

(* ... and the rings while no head moves.                                   *)
LEMMA InFlightFrame ==
  ASSUME NEW a, NEW u, InFlight(a, u), taken' = taken, Sent' = Sent,
         Unpublished' = Unpublished,
         \A q \in Sent : req'[q].token = req[q].token /\ req'[q].status = req[q].status
  PROVE  InFlight(a, u)'
BY DEF InFlight

(* add takes the first three descriptors of the free list.                  *)
LEMMA AddInv ==
  ASSUME QueueInv, NEW r \in Requests, NEW type, NEW sector \in Sectors, NEW data,
         (type = "In" /\ data = None) \/ (type = "Out" /\ data \in Values),
         Add(r, type, sector, data)
  PROVE  QueueInv'
<1> USE DEF QueueInv
<1>1. PICK s \in Seq(Slots) : FreeList(s)
  OBVIOUS
<1>2. PICK a \in Seq(Slots), u \in Seq(Slots) : Rings(a, u)
  OBVIOUS
<1>3. /\ Len(s) \in Nat /\ DOMAIN s = 1 .. Len(s) /\ Len(s) = queue_size - num_used
      /\ Len(s) >= 3 /\ num_used \in Nat
  <2>1. num_used \in Nat /\ 3 + num_used <= queue_size
    <3>1. HasRoom(3)
      BY Zenon DEF Add
    <3> QED BY <3>1, Sizes DEF HasRoom, TypeOK
  <2> QED BY <1>1, <2>1, Sizes DEF FreeList
<1>4. PICK x \in Slots, y \in Slots, z \in Slots : x = s[1] /\ y = s[2] /\ z = s[3]
  <2>1. s[1] \in Slots /\ s[2] \in Slots /\ s[3] \in Slots
    BY <1>3
  <2> QED BY <2>1, Zenon
<1>5. x # y /\ x # z /\ y # z
  <2>1. 1 \in DOMAIN s /\ 2 \in DOMAIN s /\ 3 \in DOMAIN s
    BY <1>3
  <2>2. \A j, k \in DOMAIN s : s[j] = s[k] => j = k
    BY <1>1 DEF FreeList, IsInjective
  <2> QED BY <1>4, <2>1, <2>2
<1>6. x = free_head /\ y = desc[x].next /\ z = desc[y].next
  <2>1. s # <<>> /\ 1 \in 1 .. Len(s) - 1 /\ 2 \in 1 .. Len(s) - 1
    BY <1>3
  <2>2. s[1 + 1] = desc[s[1]].next /\ s[2 + 1] = desc[s[2]].next
    BY <1>1, <2>1 DEF FreeList
  <2> QED BY <1>1, <1>4, <2>1, <2>2 DEF FreeList
<1>7. PICK list : list = Linked(free_head, 3) /\ list = <<x, y, z>>
  <2>1. PICK t \in Seq(Slots) : t = <<x, y, z>>
    <3>1. <<x, y, z>> \in Seq(Slots)
      OBVIOUS
    <3> QED BY <3>1, Zenon
  <2>2. /\ Len(t) = 3 /\ (t # <<>> => t[1] = free_head)
        /\ \A k \in 1 .. Len(t) - 1 : t[k + 1] = desc[t[k]].next
    BY <1>6, <2>1
  <2>3. Linked(free_head, Len(t)) = t
    BY <2>2, LinkedIs
  <2> QED BY <2>1, <2>2, <2>3
<1>8. list[1] = x /\ list[2] = y /\ list[3] = z
  BY <1>7
<1>9. /\ pc = "idle" /\ req[r].state = "idle"
      /\ req' = [req EXCEPT ![r] = [state |-> "sent", type |-> type, sector |-> sector,
                                    data |-> data, status |-> "NotReady",
                                    token |-> free_head]]
      /\ free_head' = desc[z].next /\ num_used' = num_used + 3
      /\ avail' = [avail EXCEPT !.ring[Slot(avail_idx)] = free_head]
      /\ pc' = "filled" /\ current' = r
      /\ UNCHANGED <<used, avail_idx, last_used_idx, disk, dev_idx, taken>>
  BY <1>7, <1>8 DEF Add
<1>10. /\ desc' \in [Slots -> [of : Requests \cup {None}, buf : Buffer,
                               flags : SUBSET {"NEXT", "WRITE"}, next : Slots]]
       /\ \A d \in Slots : d \notin {x, y, z} => desc'[d] = desc[d]
       /\ desc'[x].of = r /\ desc'[x].buf = "header" /\ desc'[x].flags = {"NEXT"}
       /\ desc'[y].of = r /\ desc'[y].buf = "data"
       /\ desc'[y].flags = IF type = "In" THEN {"NEXT", "WRITE"} ELSE {"NEXT"}
       /\ desc'[z].of = r /\ desc'[z].buf = "status" /\ desc'[z].flags = {"WRITE"}
       /\ \A d \in Slots : desc'[d].next = desc[d].next
  <2> DEFINE place(d) == CHOOSE k \in 1 .. 3 : Linked(free_head, 3)[k] = d
             flagged(d) == (IF place(d) < 3 THEN {"NEXT"} ELSE {})
                             \cup (IF Buffers(type)[place(d)] \in DeviceWrites(type)
                                   THEN {"WRITE"} ELSE {})
             new(d) == [of |-> r, buf |-> Buffers(type)[place(d)], next |-> desc[d].next,
                        flags |-> flagged(d)]
  <2>1. desc' = [d \in Slots |-> IF \A k \in 1 .. 3 : Linked(free_head, 3)[k] # d
                                 THEN desc[d] ELSE new(d)]
    BY Zenon DEF Add
  <2>2. place(x) = 1 /\ place(y) = 2 /\ place(z) = 3
    BY <1>5, <1>7, <1>8
  <2>3. \A d \in Slots : (\A k \in 1 .. 3 : Linked(free_head, 3)[k] # d) <=> d \notin {x, y, z}
    BY <1>7, <1>8
  <2>4. desc \in [Slots -> [of : Requests \cup {None}, buf : Buffer,
                               flags : SUBSET {"NEXT", "WRITE"}, next : Slots]]
    BY DEF TypeOK
  <2>5. Buffers(type)[1] = "header" /\ Buffers(type)[2] = "data" /\ Buffers(type)[3] = "status"
    BY DEF Buffers
  <2>6. /\ "header" \notin DeviceWrites(type) /\ "status" \in DeviceWrites(type)
        /\ "data" \in DeviceWrites(type) <=> type = "In"
    BY DEF DeviceWrites
  <2>7. \A d \in {x, y, z} : desc'[d] = new(d)
    BY <2>1, <2>3
  <2>8. \A d \in Slots : d \notin {x, y, z} => desc'[d] = desc[d]
    BY <2>1, <2>3
  <2> HIDE DEF place
  <2>9. desc'[x] = [of |-> r, buf |-> "header", flags |-> {"NEXT"}, next |-> desc[x].next]
    <3>1. desc'[x] = new(x)
      BY <2>7
    <3>2. flagged(x) = {"NEXT"} /\ Buffers(type)[place(x)] = "header"
      BY <2>2, <2>5, <2>6
    <3> HIDE DEF flagged
    <3> QED BY <3>1, <3>2
  <2>10. desc'[y] = [of |-> r, buf |-> "data", next |-> desc[y].next,
                     flags |-> IF type = "In" THEN {"NEXT", "WRITE"} ELSE {"NEXT"}]
    <3>1. desc'[y] = new(y)
      BY <2>7
    <3>2. /\ flagged(y) = IF type = "In" THEN {"NEXT", "WRITE"} ELSE {"NEXT"}
          /\ Buffers(type)[place(y)] = "data"
      BY <2>2, <2>5, <2>6
    <3> HIDE DEF flagged
    <3> QED BY <3>1, <3>2
  <2>11. desc'[z] = [of |-> r, buf |-> "status", flags |-> {"WRITE"}, next |-> desc[z].next]
    <3>1. desc'[z] = new(z)
      BY <2>7
    <3>2. flagged(z) = {"WRITE"} /\ Buffers(type)[place(z)] = "status"
      BY <2>2, <2>5, <2>6
    <3> HIDE DEF flagged
    <3> QED BY <3>1, <3>2
  <2>12. \A d \in Slots : desc'[d] \in [of : Requests \cup {None}, buf : Buffer,
                                        flags : SUBSET {"NEXT", "WRITE"}, next : Slots]
    <3> HIDE DEF new
    <3>1. \A d \in {x, y, z} : desc[d].next \in Slots
      BY <2>4
    <3>2. desc'[x] \in [of : Requests \cup {None}, buf : Buffer,
                        flags : SUBSET {"NEXT", "WRITE"}, next : Slots]
      BY <2>9, <3>1 DEF Buffer
    <3>3. desc'[y] \in [of : Requests \cup {None}, buf : Buffer,
                        flags : SUBSET {"NEXT", "WRITE"}, next : Slots]
      BY <2>10, <3>1 DEF Buffer
    <3>4. desc'[z] \in [of : Requests \cup {None}, buf : Buffer,
                        flags : SUBSET {"NEXT", "WRITE"}, next : Slots]
      BY <2>11, <3>1 DEF Buffer
    <3> QED BY <2>4, <2>8, <3>2, <3>3, <3>4
  <2>13. DOMAIN desc' = Slots /\ desc' = [d \in Slots |-> desc'[d]]
    BY <2>1
  <2> HIDE DEF new
  <2>14. desc' \in [Slots -> [of : Requests \cup {None}, buf : Buffer,
                              flags : SUBSET {"NEXT", "WRITE"}, next : Slots]]
    BY <2>12, <2>13
  <2>15. \A d \in Slots : desc'[d].next = desc[d].next
    <3>1. /\ desc'[x].next = desc[x].next /\ desc'[y].next = desc[y].next
          /\ desc'[z].next = desc[z].next
      BY <2>9, <2>10, <2>11
    <3> QED BY <2>8, <3>1
  <2> QED BY <2>8, <2>9, <2>10, <2>11, <2>14, <2>15
<1>11. /\ Sent' = Sent \cup {r} /\ r \notin Sent
       /\ \A q \in Sent : q \in Requests /\ req'[q] = req[q] /\ q # r
       /\ req'[r] = [state |-> "sent", type |-> type, sector |-> sector,
                     data |-> data, status |-> "NotReady", token |-> x]
  BY <1>6, <1>9 DEF Sent, TypeOK
<1>12. \A q \in Sent : desc[req[q].token].of # None /\ req[q].token \in Slots
  BY VirtQueueAssumption DEF Chains, Whole, Sent
<1>a. x \in Range(s) /\ y \in Range(s) /\ z \in Range(s)
  <2>1. 1 \in DOMAIN s /\ 2 \in DOMAIN s /\ 3 \in DOMAIN s
    BY <1>3
  <2> QED BY <1>4, <2>1, RangeFacts
<1>13. \A q \in Sent : req[q].token \notin {x, y, z}
  BY <1>1, <1>12, <1>a DEF FreeList
<1>14. TypeOK'
  <2>1. num_used' \in 0 .. queue_size /\ free_head' \in Slots
    <3>1. desc[z].next \in Slots
      BY DEF TypeOK
    <3> QED BY <1>3, <1>9, <3>1, Sizes
  <2>2. avail' \in [ring : [Slots -> Slots \cup {None}], idx : 0 .. WRAP - 1]
    BY <1>9 DEF TypeOK
  <2>3. req' \in [Requests -> [state : {"idle", "sent"}, type : {"In", "Out"},
                             sector : Sectors \cup {None}, data : Values \cup {None},
                             status : {"NotReady", "Ok", "IoErr"}, token : Slots \cup {None}]]
    BY <1>6, <1>9 DEF TypeOK
  <2> QED BY <1>9, <1>10, <2>1, <2>2, <2>3 DEF TypeOK
<1>15. Chains'
  <2>1. ASSUME NEW q \in Sent' PROVE \E b, c \in Slots : Whole(q, b, c)'
    <3>1. CASE q = r
      <4>1. Whole(r, y, z)'
        BY <1>5, <1>6, <1>10, <1>11 DEF Whole
      <4> QED BY <3>1, <4>1
    <3>2. CASE q # r
      <4>1. PICK b \in Slots, c \in Slots : Whole(q, b, c)
        BY <1>11, <3>2 DEF Chains
      <4>2. desc[req[q].token].of # None /\ desc[b].of # None /\ desc[c].of # None
        BY <1>11, <3>2, <4>1, VirtQueueAssumption DEF Whole
      <4>4. req[q].token \notin {x, y, z} /\ b \notin {x, y, z} /\ c \notin {x, y, z}
        BY <1>1, <1>a, <4>2 DEF FreeList
      <4>5. Whole(q, b, c)'
        BY <1>10, <1>11, <3>2, <4>1, <4>4 DEF Whole
      <4> QED BY <4>5
    <3> QED BY <3>1, <3>2
  <2>2. IsFiniteSet(Sent) /\ num_used = 3 * Cardinality(Sent) /\ Cardinality(Sent) \in Nat
    BY FS_CardinalityType DEF Chains
  <2>3. IsFiniteSet(Sent') /\ Cardinality(Sent') = Cardinality(Sent) + 1
    BY <1>11, <2>2, FS_AddElement
  <2>4. num_used' = 3 * Cardinality(Sent')
    BY <1>9, <2>2, <2>3
  <2> QED BY <2>1, <2>3, <2>4 DEF Chains
<1>16. avail.ring \in [Slots -> Heads] /\ avail_idx \in Int /\ dev_idx \in Int /\ Slot(avail_idx) \in Slots
  BY Wrapped, Sizes DEF TypeOK, Heads
<1>17. /\ avail'.ring = [avail.ring EXCEPT ![Slot(avail_idx)] = x]
       /\ avail'.ring[Slot(avail_idx)] = x /\ avail'.idx = avail.idx
  BY <1>6, <1>9, <1>16 DEF TypeOK
<1>18. DriverAt'
  BY <1>9, <1>11, <1>17 DEF DriverAt
<1>19. Asked'
  BY <1>11 DEF Asked
<1>20. \E t \in Seq(Slots) : FreeList(t)'
  <2>1. PICK t \in Seq(Slots) : t = SubSeq(s, 4, Len(s))
    <3>1. SubSeq(s, 4, Len(s)) \in Seq(Slots)
      BY <1>3
    <3> QED BY <3>1, Zenon
  <2>2. /\ Len(t) = Len(s) - 3 /\ Len(t) \in Nat /\ DOMAIN t = 1 .. Len(t)
        /\ \A k \in 1 .. Len(t) : t[k] = s[k + 3]
    BY <1>3, <2>1
  <2>3. IsInjective(t)
    <3> SUFFICES ASSUME NEW j \in 1 .. Len(t), NEW k \in 1 .. Len(t), t[j] = t[k] PROVE j = k
      BY <2>2 DEF IsInjective
    <3>1. j + 3 \in DOMAIN s /\ k + 3 \in DOMAIN s /\ s[j + 3] = s[k + 3]
      BY <1>3, <2>2, SMTT(30)
    <3>2. j + 3 = k + 3
      BY <1>1, <3>1 DEF FreeList, IsInjective
    <3> QED BY <3>2
  <2>4. \A k \in 1 .. Len(t) : t[k] \in Range(s) /\ t[k] \in Slots /\ t[k] \notin {x, y, z}
    <3> SUFFICES ASSUME NEW k \in 1 .. Len(t)
                 PROVE  t[k] \in Range(s) /\ t[k] \in Slots /\ t[k] \notin {x, y, z}
      OBVIOUS
    <3>1. k + 3 \in DOMAIN s /\ k + 3 # 1 /\ k + 3 # 2 /\ k + 3 # 3 /\ t[k] = s[k + 3]
      BY <1>3, <2>2
    <3>2. s[k + 3] \in Range(s) /\ s[k + 3] \in Slots
      BY <3>1, RangeFacts
    <3>3. 1 \in DOMAIN s /\ 2 \in DOMAIN s /\ 3 \in DOMAIN s
      BY <1>3
    <3>4. s[k + 3] \notin {x, y, z}
      BY <1>1, <1>4, <3>1, <3>3 DEF FreeList, IsInjective
    <3> QED BY <3>1, <3>2, <3>4
  <2>5. ASSUME t # <<>> PROVE t[1] = free_head'
    <3>1. Len(t) >= 1
      BY <2>2, <2>5
    <3>2. 3 \in 1 .. Len(s) - 1 /\ 1 \in 1 .. Len(t)
      BY <1>3, <2>2, <3>1
    <3>3. s[3 + 1] = desc[s[3]].next /\ t[1] = s[1 + 3]
      BY <1>1, <2>2, <3>2 DEF FreeList
    <3> QED BY <1>4, <1>9, <3>3
  <2>6. ASSUME NEW k \in 1 .. Len(t) - 1 PROVE t[k + 1] = desc'[t[k]].next
    <3>1. /\ k + 3 \in 1 .. Len(s) - 1 /\ k \in 1 .. Len(t) /\ k + 1 \in 1 .. Len(t)
          /\ (k + 3) + 1 = (k + 1) + 3
      BY <1>3, <2>2, SMTT(30)
    <3>2. s[(k + 3) + 1] = desc[s[k + 3]].next
      BY <1>1, <3>1 DEF FreeList
    <3>3. t[k + 1] = desc[t[k]].next
      BY <2>2, <3>1, <3>2
    <3> QED BY <1>10, <2>4, <3>1, <3>3
  <2>7. \A d \in Range(t) : desc'[d].of = None
    <3> SUFFICES ASSUME NEW k \in 1 .. Len(t) PROVE desc'[t[k]].of = None
      BY <2>2 DEF Range
    <3> QED BY <1>1, <1>10, <2>4 DEF FreeList
  <2>8. Len(t) = queue_size - num_used'
    BY <1>3, <1>9, <2>2, Sizes
  <2> QED BY <2>3, <2>5, <2>6, <2>7, <2>8 DEF FreeList
<1>21. Window(avail'.ring, dev_idx, avail_idx, a)
  <2>1. Window(avail.ring, dev_idx, avail_idx, a)
    BY <1>2 DEF Rings
  <2>2. Window([avail.ring EXCEPT ![Slot(avail_idx)] = x], dev_idx, avail_idx, a)
    BY <1>16, <2>1, WindowGrows
  <2> QED BY <1>17, <2>2
<1>22. InFlight(a, u)'
  <2>1. Unpublished = {} /\ Unpublished' = {x}
    BY <1>9, <1>11 DEF Unpublished
  <2>2. \A h \in Range(a) \cup taken \cup Range(u) : \E q \in Sent : req[q].token = h
    BY <1>2 DEF Rings, InFlight
  <2>3. x \notin Range(a) \cup taken \cup Range(u)
    BY <1>13, <2>2
  <2>4. \A q \in Sent : req'[q].token = req[q].token /\ req'[q].status = req[q].status
    BY <1>11
  <2>5. req'[r].token = x /\ req'[r].status = "NotReady"
    BY <1>11
  <2> QED BY <1>2, <1>9, <1>11, <2>1, <2>2, <2>3, <2>4, <2>5 DEF Rings, InFlight
<1>23. Rings(a, u)'
  BY <1>2, <1>9, <1>21, <1>22 DEF Rings
<1> QED BY <1>14, <1>15, <1>18, <1>19, <1>20, <1>23

(* The head that add wrote becomes the last of the published ones.          *)
LEMMA PublishInv ==
  ASSUME QueueInv, NEW blocking \in BOOLEAN, Publish(blocking)
  PROVE  QueueInv'
<1> USE DEF QueueInv
<1>1. PICK s \in Seq(Slots) : FreeList(s)
  OBVIOUS
<1>2. PICK a \in Seq(Slots), u \in Seq(Slots) : Rings(a, u)
  OBVIOUS
<1>3. /\ pc = "filled" /\ avail_idx' = Incremented(avail_idx)
      /\ avail' = [avail EXCEPT !.idx = Incremented(avail_idx)]
      /\ pc' \in {"spin", "idle"} /\ current' \in {current, None}
      /\ pc' = "spin" => Sent = {current} /\ current' = current
      /\ UNCHANGED <<desc, used, num_used, free_head, last_used_idx, req, disk, dev_idx, taken>>
  BY DEF Publish
<1>4. PICK h \in Slots : h = req[current].token /\ current \in Sent
  BY <1>3 DEF DriverAt, Chains, Whole
<1>5. avail.ring[Slot(avail_idx)] = h
  BY <1>3, <1>4 DEF DriverAt
<1>6. /\ avail.ring \in [Slots -> Heads] /\ avail_idx \in Int /\ dev_idx \in Int
      /\ avail'.ring = avail.ring /\ avail'.idx = Incremented(avail_idx)
      /\ Incremented(avail_idx) \in 0 .. WRAP - 1
  BY <1>3, Wrapped, Sizes DEF TypeOK, Heads
<1>7. Sent' = Sent
  BY <1>3 DEF Sent
<1>8. TypeOK'
  BY <1>3, <1>6 DEF TypeOK
<1>9. Chains' /\ FreeList(s)' /\ Asked'
  BY <1>1, <1>3, <1>7, ChainsFrame, FreeListFrame DEF Asked
<1>10. DriverAt'
  BY <1>3, <1>6, <1>7 DEF DriverAt
<1>11. Unpublished = {h} /\ Unpublished' = {}
  BY <1>3, <1>4 DEF Unpublished
<1>12. PICK b \in Seq(Slots) : /\ b = Append(a, h) /\ Range(b) = Range(a) \cup {h}
                               /\ IsInjective(b) /\ Len(b) = Len(a) + 1
  <2>1. IsInjective(a) /\ h \notin Range(a)
    BY <1>2, <1>11 DEF Rings, InFlight
  <2> QED BY <2>1, AppendFacts, LenFacts
<1>13. \A g \in Range(b) : \E r \in Sent : req[r].token = g
  BY <1>2, <1>4, <1>12 DEF Rings, InFlight
<1>14. Len(a) + 1 < queue_size
  BY <1>12, <1>13, RingFits
<1>15. Window(avail.ring, dev_idx, Incremented(avail_idx), b)
  <2>1. Window(avail.ring, dev_idx, avail_idx, a)
    BY <1>2 DEF Rings
  <2> QED BY <1>5, <1>6, <1>12, <1>14, <2>1, WindowGrows
<1>16. InFlight(b, u)'
  <2>1. IsInjective(u) /\ h \notin taken /\ h \notin Range(u)
    BY <1>2, <1>11 DEF Rings, InFlight
  <2> QED BY <1>2, <1>3, <1>7, <1>11, <1>12, <2>1 DEF Rings, InFlight
<1>17. Rings(b, u)'
  BY <1>2, <1>3, <1>6, <1>15, <1>16 DEF Rings
<1> QED BY <1>8, <1>9, <1>10, <1>17

(* The disk takes the first published head.                                 *)
LEMMA TakeInv ==
  ASSUME QueueInv, DeviceTake
  PROVE  QueueInv'
<1> USE DEF QueueInv
<1>1. PICK s \in Seq(Slots) : FreeList(s)
  OBVIOUS
<1>2. PICK a \in Seq(Slots), u \in Seq(Slots) : Rings(a, u)
  OBVIOUS
<1>3. /\ dev_idx # avail.idx /\ dev_idx' = Incremented(dev_idx)
      /\ taken' = taken \cup {avail.ring[Slot(dev_idx)]}
      /\ avail' = [avail EXCEPT !.ring[Slot(dev_idx)] = None]
      /\ UNCHANGED <<desc, num_used, free_head, avail_idx, last_used_idx, pc, current,
                     used, req, disk>>
  BY DEF DeviceTake, driverVars
<1>4. /\ avail.ring \in [Slots -> Heads] /\ avail_idx \in Int /\ dev_idx \in Int
      /\ dev_idx \in 0 .. WRAP - 1 /\ avail_idx \in 0 .. WRAP - 1
      /\ Slot(dev_idx) \in Slots /\ Slot(avail_idx) \in Slots
      /\ Incremented(dev_idx) \in 0 .. WRAP - 1
  BY Wrapped, Sizes DEF TypeOK, Heads
<1>5. avail'.ring = [avail.ring EXCEPT ![Slot(dev_idx)] = None] /\ avail'.idx = avail.idx
  BY <1>3, <1>4 DEF TypeOK
<1>6. Window(avail.ring, dev_idx, avail_idx, a) /\ avail.idx = avail_idx
  BY <1>2 DEF Rings, DriverAt
<1>7. a # <<>>
  BY <1>3, <1>4, <1>6, WindowEmpty
<1>8. PICK h \in Slots, b \in Seq(Slots) :
         /\ h = Head(a) /\ b = Tail(a) /\ Range(a) = Range(b) \cup {h}
         /\ IsInjective(b) /\ h \notin Range(b) /\ h \in Range(a)
  <2>1. IsInjective(a)
    BY <1>2 DEF Rings, InFlight
  <2> QED BY <1>7, <2>1, TailFacts
<1>9. /\ avail.ring[Slot(dev_idx)] = h /\ Slot(dev_idx) # Slot(avail_idx)
      /\ Window(avail'.ring, Incremented(dev_idx), avail_idx, b)
  <2>1. /\ avail.ring[Slot(dev_idx)] = Head(a) /\ Slot(dev_idx) # Slot(avail_idx)
        /\ Window([avail.ring EXCEPT ![Slot(dev_idx)] = None], Incremented(dev_idx),
                  avail_idx, Tail(a))
    BY <1>4, <1>6, <1>7, WindowShrinks
  <2> QED BY <1>5, <1>8, <2>1
<1>10. Sent' = Sent /\ Unpublished' = Unpublished /\ taken' = taken \cup {h}
  BY <1>3, <1>9 DEF Sent, Unpublished
<1>11. TypeOK'
  <2>1. avail' \in [ring : [Slots -> Slots \cup {None}], idx : 0 .. WRAP - 1]
    BY <1>3, <1>4 DEF TypeOK
  <2> QED BY <1>3, <1>4, <1>8, <1>10, <2>1, ZenonT(30) DEF TypeOK
<1>12. Chains' /\ FreeList(s)' /\ Asked'
  BY <1>1, <1>3, <1>10, ChainsFrame, FreeListFrame DEF Asked
<1>13. DriverAt'
  BY <1>3, <1>4, <1>5, <1>9, <1>10 DEF DriverAt
<1>14. InFlight(b, u)'
  <2>1. /\ IsInjective(u) /\ h \notin taken /\ h \notin Range(u) /\ h \notin Unpublished
        /\ \E r \in Sent : req[r].token = h
    BY <1>2, <1>8 DEF Rings, InFlight
  <2> QED BY <1>2, <1>3, <1>8, <1>10, <2>1 DEF Rings, InFlight
<1>15. Rings(b, u)'
  BY <1>2, <1>3, <1>9, <1>14 DEF Rings
<1> QED BY <1>11, <1>12, <1>13, <1>15

RequestRecords ==
    [state : {"idle", "sent"}, type : {"In", "Out"},
     sector : Sectors \cup {None}, data : Values \cup {None},
     status : {"NotReady", "Ok", "IoErr"}, token : Slots \cup {None}]

(* The disk serves request r, whose chain starts at head: it stores the     *)
(* status and moves the data of this request and changes nothing else.      *)
Served(head, ok, h, r) ==
    /\ h \in HeaderSeen(r) /\ h.sector \in Sectors
    /\ req[r].token = head /\ req[r].status = "NotReady" /\ head \in taken
    /\ req' \in [Requests -> RequestRecords]
    /\ \A q \in Requests : q # r => req'[q] = req[q]
    /\ req'[r].state = req[r].state /\ req'[r].type = req[r].type
    /\ req'[r].sector = req[r].sector /\ req'[r].token = req[r].token
    /\ req'[r].status = IF ok THEN "Ok" ELSE "IoErr"
    /\ req'[r].data = IF ok /\ h.type = "In" /\ req[r].type = "In" THEN disk[h.sector]
                      ELSE req[r].data
    /\ disk' = IF ok /\ h.type = "Out" /\ req[r].type = "Out"
               THEN [disk EXCEPT ![h.sector] = req[r].data] ELSE disk
    /\ taken' = taken \ {head}
    /\ used' = [ring |-> [used.ring EXCEPT ![Slot(used.idx)] = head],
                idx |-> Incremented(used.idx)]
    /\ UNCHANGED <<desc, num_used, free_head, avail_idx, last_used_idx, pc, current,
                   avail, dev_idx>>

(* With a head it took, the disk serves the one request whose chain it is.  *)
LEMMA ServeFacts ==
  ASSUME QueueInv, NEW head \in Slots, NEW ok \in BOOLEAN, NEW h \in Headers,
         DeviceServe(head, ok, h)
  PROVE  \E r \in Sent : Served(head, ok, h, r)
<1> USE DEF QueueInv
<1>1. head \in taken
  BY DEF DeviceServe
<1>2. PICK r \in Sent : req[r].token = head /\ req[r].status = "NotReady"
  <2>1. PICK a \in Seq(Slots), u \in Seq(Slots) : Rings(a, u)
    OBVIOUS
  <2>2. head \notin Range(u)
    BY <1>1, <2>1 DEF Rings, InFlight
  <2> QED BY <1>1, <2>1, <2>2 DEF Rings, InFlight
<1>3. PICK b \in Slots, c \in Slots : Whole(r, b, c)
  BY DEF Chains
<1>4. PICK chain : chain = Chain(head) /\ chain = <<head, b, c>>
  BY <1>2, <1>3, ChainFacts
<1>5. chain[1] = head /\ chain[2] = b /\ chain[3] = c
  BY <1>4
<1>6. /\ desc[chain[1]].of = r /\ desc[chain[2]].of = r /\ desc[chain[3]].of = r
      /\ "WRITE" \in desc[chain[3]].flags
      /\ "WRITE" \in desc[chain[2]].flags <=> req[r].type = "In"
  BY <1>2, <1>3, <1>5 DEF Whole
<1>7. PICK moved : moved = IF ok /\ h.type = "In" /\ req[r].type = "In"
                           THEN [req EXCEPT ![r].data = disk[h.sector]] ELSE req
  OBVIOUS
<1>8. /\ req' = [moved EXCEPT ![r].status = IF ok THEN "Ok" ELSE "IoErr"]
      /\ disk' = IF ok /\ h.type = "Out" /\ req[r].type = "Out"
                 THEN [disk EXCEPT ![h.sector] = req[r].data] ELSE disk
      /\ h \in HeaderSeen(r)
      /\ taken' = taken \ {head}
      /\ used' = [ring |-> [used.ring EXCEPT ![Slot(used.idx)] = head],
                  idx |-> Incremented(used.idx)]
      /\ UNCHANGED <<desc, num_used, free_head, avail_idx, last_used_idx, pc, current,
                     avail, dev_idx>>
  <2>1. req[r].type = "In" \/ req[r].type = "Out"
    BY DEF TypeOK, Sent
  <2> QED BY <1>4, <1>6, <1>7, <2>1 DEF DeviceServe, driverVars
<1>9. /\ r \in Requests /\ req \in [Requests -> RequestRecords]
      /\ h.sector \in Sectors /\ disk[h.sector] \in Values
  BY DEF TypeOK, RequestRecords, Sent, Headers
<1>10. /\ moved \in [Requests -> RequestRecords]
       /\ \A q \in Requests : q # r => moved[q] = req[q]
       /\ moved[r].state = req[r].state /\ moved[r].type = req[r].type
       /\ moved[r].sector = req[r].sector /\ moved[r].token = req[r].token
       /\ moved[r].data = IF ok /\ h.type = "In" /\ req[r].type = "In"
                          THEN disk[h.sector] ELSE req[r].data
  BY <1>7, <1>9 DEF RequestRecords
<1>11. /\ req' \in [Requests -> RequestRecords]
       /\ \A q \in Requests : q # r => req'[q] = moved[q]
       /\ req'[r].state = moved[r].state /\ req'[r].type = moved[r].type
       /\ req'[r].sector = moved[r].sector /\ req'[r].token = moved[r].token
       /\ req'[r].data = moved[r].data
       /\ req'[r].status = IF ok THEN "Ok" ELSE "IoErr"
  <2>1. PICK st \in {"Ok", "IoErr"} : st = IF ok THEN "Ok" ELSE "IoErr"
    OBVIOUS
  <2>2. req' = [moved EXCEPT ![r].status = st]
    BY <1>8, <2>1
  <2>3. /\ \A q \in Requests : q # r => req'[q] = moved[q]
        /\ req'[r] = [moved[r] EXCEPT !.status = st] /\ DOMAIN req' = Requests
        /\ req' = [q \in Requests |-> req'[q]]
    BY <1>9, <1>10, <2>2
  <2>4. moved[r] \in RequestRecords
    BY <1>9, <1>10
  <2>5. req'[r] = [state |-> moved[r].state, type |-> moved[r].type, sector |-> moved[r].sector,
                   data |-> moved[r].data, status |-> st, token |-> moved[r].token]
    BY <2>3, <2>4 DEF RequestRecords
  <2>6. req'[r] \in RequestRecords
    BY <2>1, <2>4, <2>5 DEF RequestRecords
  <2>7. req' \in [Requests -> RequestRecords]
    BY <1>10, <2>3, <2>6
  <2> QED BY <2>1, <2>3, <2>5, <2>7
<1> QED BY <1>1, <1>2, <1>8, <1>9, <1>10, <1>11, ZenonT(30) DEF Served

(* The head moves from the taken to the answered ones.                      *)
LEMMA ServeInv ==
  ASSUME QueueInv, NEW head \in Slots, NEW ok \in BOOLEAN, NEW h \in Headers,
         DeviceServe(head, ok, h)
  PROVE  QueueInv'
<1> USE DEF QueueInv, Served
<1>1. PICK s \in Seq(Slots) : FreeList(s)
  OBVIOUS
<1>2. PICK a \in Seq(Slots), u \in Seq(Slots) : Rings(a, u)
  OBVIOUS
<1>3. PICK r \in Sent : Served(head, ok, h, r)
  BY ServeFacts
<1>4. /\ Sent' = Sent
      /\ \A q \in Sent : /\ req'[q].token = req[q].token /\ req'[q].type = req[q].type
                         /\ req'[q].sector = req[q].sector
      /\ \A q \in Sent : q # r => req'[q] = req[q]
      /\ req'[r].status # "NotReady"
  BY <1>3 DEF Sent
<1>5. /\ used.ring \in [Slots -> Heads] /\ used.idx \in Int /\ last_used_idx \in Int
      /\ Slot(used.idx) \in Slots /\ Incremented(used.idx) \in 0 .. WRAP - 1
  BY Wrapped, Sizes, SMTT(30) DEF TypeOK, Heads
<1>6. /\ used'.ring = [used.ring EXCEPT ![Slot(used.idx)] = head]
      /\ used'.idx = Incremented(used.idx) /\ used'.ring[Slot(used.idx)] = head
      /\ used'.ring \in [Slots -> Heads]
  BY <1>3, <1>5 DEF Heads
<1>7. TypeOK'
  <2>1. used' \in [ring : [Slots -> Slots \cup {None}], idx : 0 .. WRAP - 1]
    BY <1>3, <1>5, <1>6 DEF Heads
  <2>2. disk' \in [Sectors -> Values]
    BY <1>3 DEF TypeOK, Asked
  <2> QED BY <1>3, <2>1, <2>2 DEF TypeOK, RequestRecords
<1>8. Chains' /\ FreeList(s)'
  BY <1>1, <1>3, <1>4, ChainsFrame, FreeListFrame
<1>9. DriverAt'
  BY <1>3, <1>4 DEF DriverAt
<1>10. Asked'
  BY <1>3, <1>4 DEF Asked
<1>11. PICK v \in Seq(Slots) : /\ v = Append(u, head) /\ Range(v) = Range(u) \cup {head}
                               /\ IsInjective(v) /\ Len(v) = Len(u) + 1
  <2>1. IsInjective(u) /\ head \notin Range(u)
    BY <1>2, <1>3 DEF Rings, InFlight
  <2> QED BY <2>1, AppendFacts, LenFacts
<1>12. \A g \in Range(v) : \E q \in Sent : req[q].token = g
  BY <1>2, <1>3, <1>11 DEF Rings, InFlight
<1>13. Len(u) + 1 < queue_size
  BY <1>11, <1>12, RingFits
<1>14. Window(used'.ring, last_used_idx, used'.idx, v)
  <2>1. Window(used.ring, last_used_idx, used.idx, u)
    BY <1>2 DEF Rings
  <2>2. Window(used'.ring, last_used_idx, used.idx, u)
    <3>1. Window([used.ring EXCEPT ![Slot(used.idx)] = head], last_used_idx, used.idx, u)
      BY <1>5, <2>1, WindowGrows
    <3> QED BY <1>6, <3>1
  <2>3. Window(used'.ring, last_used_idx, Incremented(used.idx), Append(u, head))
    BY <1>5, <1>6, <1>13, <2>2, WindowGrows
  <2> QED BY <1>6, <1>11, <2>3
<1>15. Unpublished' = Unpublished
  BY <1>3, <1>4 DEF Unpublished, DriverAt
<1>16. \A q \in Sent : req'[q].token \in Range(v) <=> req'[q].status # "NotReady"
  <2>1. \A q \in Sent : req[q].token = head => q = r
    BY <1>3, TokenUnique
  <2>2. \A q \in Sent : req[q].token \in Range(u) <=> req[q].status # "NotReady"
    BY <1>2 DEF Rings, InFlight
  <2> SUFFICES ASSUME NEW q \in Sent
               PROVE  req'[q].token \in Range(v) <=> req'[q].status # "NotReady"
    OBVIOUS
  <2>3. CASE q = r
    BY <1>3, <1>4, <1>11, <2>3
  <2>4. CASE q # r
    BY <1>4, <1>11, <2>1, <2>2, <2>4
  <2> QED BY <2>3, <2>4
<1>17. InFlight(a, v)'
  <2>1. IsInjective(a) /\ head \notin Range(a) /\ head \notin Unpublished
    BY <1>2, <1>3 DEF Rings, InFlight
  <2>2. /\ Range(a) \cap taken' = {} /\ Range(a) \cap Range(v) = {} /\ taken' \cap Range(v) = {}
        /\ Unpublished \cap (Range(a) \cup taken' \cup Range(v)) = {}
    BY <1>2, <1>3, <1>11, <2>1 DEF Rings, InFlight
  <2>3. Unpublished' \cup Range(a) \cup taken' \cup Range(v)
          = Unpublished \cup Range(a) \cup taken \cup Range(u)
    BY <1>3, <1>11, <1>15
  <2>4. /\ \A q \in Sent : req[q].token \in Unpublished \cup Range(a) \cup taken \cup Range(u)
        /\ \A g \in Unpublished \cup Range(a) \cup taken \cup Range(u) :
              \E q \in Sent : req[q].token = g
    BY <1>2 DEF Rings, InFlight
  <2>5. \A q \in Sent : req'[q].token \in Unpublished' \cup Range(a) \cup taken' \cup Range(v)
    BY <1>4, <2>3, <2>4
  <2>6. \A g \in Unpublished' \cup Range(a) \cup taken' \cup Range(v) :
              \E q \in Sent : req'[q].token = g
    BY <1>4, <2>3, <2>4
  <2> QED BY <1>4, <1>11, <1>15, <1>16, <2>1, <2>2, <2>5, <2>6 DEF InFlight
<1>18. Rings(a, v)'
  BY <1>2, <1>3, <1>14, <1>17 DEF Rings
<1> QED BY <1>7, <1>8, <1>9, <1>10, <1>18

(* pop_used answers the caller of r and gives the chain h, b, c back, the   *)
(* last descriptor linked to the old free list.                             *)
Popped(h, r, b, c) ==
    /\ Whole(r, b, c) /\ h = req[r].token /\ req[r].status # "NotReady"
    /\ used.ring[Slot(last_used_idx)] = h
    /\ req' = [req EXCEPT ![r] = Unused]
    /\ desc' \in [Slots -> [of : Requests \cup {None}, buf : Buffer,
                            flags : SUBSET {"NEXT", "WRITE"}, next : Slots]]
    /\ \A d \in Slots : d \notin {h, b, c} => desc'[d] = desc[d]
    /\ \A d \in {h, b, c} : desc'[d].of = None
    /\ desc'[h].next = b /\ desc'[b].next = c /\ desc'[c].next = free_head
    /\ free_head' = h /\ num_used' = num_used - 3
    /\ last_used_idx' = Incremented(last_used_idx)
    /\ pc' = "idle" /\ current' = None
    /\ used' = [used EXCEPT !.ring[Slot(last_used_idx)] = None]
    /\ pc \in {"idle", "spin"}
    /\ UNCHANGED <<avail, avail_idx, disk, dev_idx, taken>>

(* It is the first answered request.                                        *)
LEMMA PopUsedFacts ==
  ASSUME QueueInv, PopUsed, NEW a \in Seq(Slots), NEW u \in Seq(Slots), Rings(a, u)
  PROVE  u # <<>> /\ \E r \in Sent, b \in Slots, c \in Slots : Popped(Head(u), r, b, c)
<1> USE DEF QueueInv
<1>1. /\ used.ring \in [Slots -> Heads] /\ last_used_idx \in 0 .. WRAP - 1
      /\ used.idx \in Int /\ last_used_idx \in Int
      /\ Window(used.ring, last_used_idx, used.idx, u)
  BY Sizes DEF TypeOK, Heads, Rings
<1>2. u # <<>>
  <2>1. last_used_idx # used.idx
    BY DEF PopUsed, CanPop
  <2> QED BY <1>1, <2>1, WindowEmpty
<1>3. PICK head \in Slots : head = Head(u) /\ head \in Range(u)
                           /\ head = used.ring[Slot(last_used_idx)]
  BY <1>1, <1>2, TailFacts, WindowShrinks
<1>4. PICK r \in Sent, b \in Slots, c \in Slots :
         Whole(r, b, c) /\ req[r].token = head /\ req[r].status # "NotReady"
  <2>1. PICK r \in Sent : req[r].token = head /\ req[r].status # "NotReady"
    <3>1. InFlight(a, u)
      BY DEF Rings
    <3>2. PICK r \in Sent : req[r].token = head
      BY <1>3, <3>1 DEF InFlight
    <3> QED BY <1>3, <3>1, <3>2 DEF InFlight
  <2> QED BY <2>1 DEF Chains
<1>5. /\ Chain(head) = <<head, b, c>> /\ head # b /\ head # c /\ b # c
  BY <1>4, ChainFacts
<1>6. ToSet(Chain(head)) = {head, b, c} /\ Last(Chain(head)) = c /\ Len(Chain(head)) = 3
  <2>1. PICK ch : ch = <<head, b, c>>
    OBVIOUS
  <2>2. DOMAIN ch = 1 .. 3 /\ Len(ch) = 3 /\ ch[1] = head /\ ch[2] = b /\ ch[3] = c
    BY <2>1
  <2>3. ToSet(ch) = {head, b, c} /\ Last(ch) = c
    BY <2>2 DEF ToSet, Last
  <2> QED BY <1>5, <2>1, <2>2, <2>3
<1>7. r = IF pc = "spin" THEN current
          ELSE CHOOSE x \in Requests : req[x].state = "sent" /\ req[x].token = head
  <2>1. CASE pc = "spin"
    BY <2>1 DEF DriverAt
  <2>2. CASE pc # "spin"
    <3>1. r \in Requests /\ req[r].state = "sent" /\ req[r].token = head
      BY <1>4 DEF Sent
    <3>2. \A x \in Requests : req[x].state = "sent" /\ req[x].token = head => x = r
      <4> SUFFICES ASSUME NEW x \in Requests, req[x].state = "sent", req[x].token = head
                   PROVE  x = r
        OBVIOUS
      <4>1. x \in Sent
        BY DEF Sent
      <4> QED BY <1>4, <4>1, TokenUnique
    <3> QED BY <2>2, <3>1, <3>2
  <2> QED BY <2>1, <2>2
<1>8. /\ req' = [req EXCEPT ![r] = Unused]
      /\ desc' = Recycled(head) /\ free_head' = head /\ num_used' = num_used - 3
      /\ last_used_idx' = Incremented(last_used_idx)
      /\ pc' = "idle" /\ current' = None /\ pc \in {"idle", "spin"}
      /\ used' = [used EXCEPT !.ring[Slot(last_used_idx)] = None]
      /\ UNCHANGED <<avail, avail_idx, disk, dev_idx, taken>>
  BY <1>3, <1>6, <1>7 DEF PopUsed
<1>9. /\ desc' \in [Slots -> [of : Requests \cup {None}, buf : Buffer,
                              flags : SUBSET {"NEXT", "WRITE"}, next : Slots]]
      /\ \A d \in Slots : d \notin {head, b, c} => desc'[d] = desc[d]
      /\ \A d \in {head, b, c} : desc'[d].of = None
      /\ desc'[head].next = b /\ desc'[b].next = c /\ desc'[c].next = free_head
  <2> DEFINE D == [of : Requests \cup {None}, buf : Buffer,
                   flags : SUBSET {"NEXT", "WRITE"}, next : Slots]
  <2>1. desc \in [Slots -> D] /\ free_head \in Slots
    BY DEF TypeOK
  <2>2. PICK nx, ow :
           /\ nx = [d \in Slots |-> IF d = c THEN free_head ELSE desc[d].next]
           /\ ow = [d \in Slots |-> IF d \in {head, b, c} THEN None ELSE desc[d].of]
    OBVIOUS
  <2>3. desc' = [d \in Slots |-> [desc[d] EXCEPT !.next = nx[d], !.of = ow[d]]]
    BY <1>6, <1>8, <2>2 DEF Recycled
  <2>4. ASSUME NEW d \in Slots
        PROVE  desc'[d] = [of |-> ow[d], buf |-> desc[d].buf, flags |-> desc[d].flags,
                           next |-> nx[d]]
    <3>1. desc'[d] = [desc[d] EXCEPT !.next = nx[d], !.of = ow[d]] /\ desc[d] \in D
      BY <2>1, <2>3
    <3>2. PICK e : e = [desc[d] EXCEPT !.next = nx[d]]
      OBVIOUS
    <3>3. e = [of |-> desc[d].of, buf |-> desc[d].buf, flags |-> desc[d].flags, next |-> nx[d]]
      BY <3>1, <3>2
    <3>4. desc'[d] = [e EXCEPT !.of = ow[d]]
      BY <3>1, <3>2
    <3> QED BY <3>3, <3>4
  <2>5. \A d \in Slots : desc[d] = [of |-> desc[d].of, buf |-> desc[d].buf,
                                    flags |-> desc[d].flags, next |-> desc[d].next]
    BY <2>1
  <2>6. ASSUME NEW d \in Slots PROVE ow[d] \in Requests \cup {None} /\ nx[d] \in Slots
    BY <2>1, <2>2
  <2>7. ASSUME NEW d \in Slots, d \notin {head, b, c} PROVE desc'[d] = desc[d]
    <3>1. ow[d] = desc[d].of /\ nx[d] = desc[d].next
      BY <2>2, <2>7
    <3> QED BY <2>4, <2>5, <3>1
  <2>8. ASSUME NEW d \in {head, b, c} PROVE desc'[d].of = None
    <3>1. d \in Slots /\ ow[d] = None
      BY <2>2
    <3>2. desc'[d] = [of |-> ow[d], buf |-> desc[d].buf, flags |-> desc[d].flags, next |-> nx[d]]
      BY <2>4, <3>1, Zenon
    <3> QED BY <3>1, <3>2
  <2>9. desc'[head].next = b /\ desc'[b].next = c /\ desc'[c].next = free_head
    <3>1. desc[head].next = b /\ desc[b].next = c
      BY <1>4 DEF Whole
    <3>2. nx[head] = b /\ nx[b] = c /\ nx[c] = free_head
      BY <1>5, <2>2, <3>1
    <3>3. /\ desc'[head] = [of |-> ow[head], buf |-> desc[head].buf, flags |-> desc[head].flags, next |-> nx[head]]
          /\ desc'[b] = [of |-> ow[b], buf |-> desc[b].buf, flags |-> desc[b].flags, next |-> nx[b]]
          /\ desc'[c] = [of |-> ow[c], buf |-> desc[c].buf, flags |-> desc[c].flags, next |-> nx[c]]
      BY <2>4, Zenon
    <3> QED BY <3>2, <3>3
  <2>10. ASSUME NEW d \in Slots PROVE desc'[d] \in D
    <3>1. desc[d].buf \in Buffer /\ desc[d].flags \in SUBSET {"NEXT", "WRITE"}
      BY <2>1
    <3>2. desc'[d] = [of |-> ow[d], buf |-> desc[d].buf, flags |-> desc[d].flags, next |-> nx[d]]
      BY <2>4, Zenon
    <3>3. ow[d] \in Requests \cup {None} /\ nx[d] \in Slots
      BY <2>6, Zenon
    <3> QED BY <3>1, <3>2, <3>3
  <2>11. DOMAIN desc' = Slots /\ desc' = [d \in Slots |-> desc'[d]]
    BY <2>3
  <2>12. desc' \in [Slots -> D]
    <3> HIDE DEF D
    <3> QED BY <2>10, <2>11
  <2> QED BY <2>7, <2>8, <2>9, <2>12
<1>10. Popped(Head(u), r, b, c)
  <2>1. head = Head(u)
    BY <1>3
  <2>2. Popped(head, r, b, c)
    BY <1>3, <1>4, <1>8, <1>9 DEF Popped
  <2> QED BY <2>1, <2>2
<1> QED BY <1>2, <1>10

(* The three descriptors return to the front of the free list.              *)
LEMMA PopInv ==
  ASSUME QueueInv, PopUsed
  PROVE  QueueInv'
<1> USE DEF QueueInv
<1>1. PICK s \in Seq(Slots) : FreeList(s)
  OBVIOUS
<1>2. PICK a \in Seq(Slots), u \in Seq(Slots) : Rings(a, u)
  OBVIOUS
<1>3. u # <<>> /\ \E r \in Sent, b \in Slots, c \in Slots : Popped(Head(u), r, b, c)
  BY <1>2, PopUsedFacts
<1>4. PICK h \in Slots : h = Head(u) /\ h \in Range(u)
  BY <1>3, TailFacts
<1>5. PICK r \in Sent, b \in Slots, c \in Slots : Popped(h, r, b, c)
  BY <1>3, <1>4
<1>6. /\ Whole(r, b, c) /\ h = req[r].token
      /\ req' = [req EXCEPT ![r] = Unused]
      /\ pc' = "idle" /\ current' = None /\ pc \in {"idle", "spin"}
      /\ num_used' = num_used - 3 /\ free_head' = h
      /\ last_used_idx' = Incremented(last_used_idx)
      /\ used' = [used EXCEPT !.ring[Slot(last_used_idx)] = None]
      /\ UNCHANGED <<avail, avail_idx, disk, dev_idx, taken>>
  BY <1>5 DEF Popped
<1>7. /\ desc' \in [Slots -> [of : Requests \cup {None}, buf : Buffer,
                              flags : SUBSET {"NEXT", "WRITE"}, next : Slots]]
      /\ \A d \in Slots : d \notin {h, b, c} => desc'[d] = desc[d]
      /\ \A d \in {h, b, c} : desc'[d].of = None
      /\ desc'[h].next = b /\ desc'[b].next = c /\ desc'[c].next = free_head
  BY <1>5 DEF Popped
<1>8. /\ r \in Requests /\ r # None
      /\ desc[h].of = r /\ desc[b].of = r /\ desc[c].of = r
      /\ h # b /\ h # c /\ b # c
  <2>1. r \in Requests /\ r # None
    BY VirtQueueAssumption DEF Sent
  <2> QED BY <1>6, <2>1, ChainFacts DEF Whole
<1>9. /\ req' \in [Requests -> RequestRecords]
      /\ Sent' = Sent \ {r}
      /\ \A q \in Sent' : req'[q] = req[q]
  <2>1. req \in [Requests -> RequestRecords]
    BY DEF TypeOK, RequestRecords
  <2>2. /\ req'[r] = Unused
        /\ \A q \in Requests : q # r => req'[q] = req[q]
        /\ DOMAIN req' = Requests /\ req' = [q \in Requests |-> req'[q]]
    BY <1>6, <1>8, <2>1
  <2>3. req'[r] \in RequestRecords /\ req'[r].state = "idle"
    BY <2>2 DEF RequestRecords, Unused
  <2>4. req' \in [Requests -> RequestRecords]
    BY <2>1, <2>2, <2>3
  <2> QED BY <2>2, <2>3, <2>4 DEF Sent
<1>10. IsFiniteSet(Sent') /\ num_used' = 3 * Cardinality(Sent') /\ num_used' \in 0 .. queue_size
  <2>1. /\ IsFiniteSet(Sent) /\ num_used = 3 * Cardinality(Sent)
        /\ num_used \in 0 .. queue_size
    BY DEF Chains, TypeOK
  <2>2. /\ IsFiniteSet(Sent \ {r})
        /\ Cardinality(Sent \ {r}) = Cardinality(Sent) - 1
        /\ Cardinality(Sent) \in Nat /\ Cardinality(Sent \ {r}) \in Nat
    <3>1. IsFiniteSet(Sent \ {r}) /\ Cardinality(Sent \ {r}) = Cardinality(Sent) - 1
      BY <2>1, FS_RemoveElement
    <3> QED BY <2>1, <3>1, FS_CardinalityType
  <2>3. PICK m \in Nat, n \in Nat : m = Cardinality(Sent) /\ n = Cardinality(Sent \ {r})
    BY <2>2
  <2>4. num_used' = 3 * n /\ num_used' \in 0 .. queue_size
    BY <1>6, <2>1, <2>2, <2>3, Sizes, SMTT(30)
  <2> QED BY <1>9, <2>2, <2>3, <2>4
<1>11. /\ used.ring \in [Slots -> Heads] /\ used.idx \in 0 .. WRAP - 1
       /\ last_used_idx \in Int /\ used.idx \in Int
       /\ Slot(last_used_idx) \in Slots /\ Incremented(last_used_idx) \in 0 .. WRAP - 1
  BY Wrapped, Sizes DEF TypeOK, Heads
<1>12. /\ used'.ring = [used.ring EXCEPT ![Slot(last_used_idx)] = None]
       /\ used'.idx = used.idx
       /\ used' \in [ring : [Slots -> Slots \cup {None}], idx : 0 .. WRAP - 1]
  <2>1. used \in [ring : [Slots -> Heads], idx : 0 .. WRAP - 1]
    BY DEF TypeOK, Heads
  <2>2. /\ used'.ring = [used.ring EXCEPT ![Slot(last_used_idx)] = None]
        /\ used'.idx = used.idx
        /\ used' = [ring |-> used'.ring, idx |-> used'.idx]
    BY <1>6, <2>1
  <2>3. used'.ring \in [Slots -> Heads]
    BY <1>11, <2>2 DEF Heads
  <2> QED BY <1>11, <2>2, <2>3 DEF Heads
<1>13. TypeOK'
  <2>1. req' \in [Requests -> [state : {"idle", "sent"}, type : {"In", "Out"},
                             sector : Sectors \cup {None}, data : Values \cup {None},
                             status : {"NotReady", "Ok", "IoErr"}, token : Slots \cup {None}]]
    BY <1>9 DEF RequestRecords
  <2>2. /\ {avail_idx', last_used_idx', dev_idx'} \subseteq 0 .. WRAP - 1
        /\ free_head' \in Slots /\ num_used' \in 0 .. queue_size
        /\ pc' \in {"idle", "filled", "spin"} /\ current' \in Requests \cup {None}
    BY <1>6, <1>10, <1>11 DEF TypeOK
  <2>3. /\ avail' \in [ring : [Slots -> Slots \cup {None}], idx : 0 .. WRAP - 1]
        /\ disk' \in [Sectors -> Values] /\ taken' \subseteq Slots
    BY <1>6 DEF TypeOK
  <2> QED BY <1>7, <1>12, <2>1, <2>2, <2>3 DEF TypeOK
<1>14. Chains'
  <2>1. ASSUME NEW q \in Sent' PROVE \E f, g \in Slots : Whole(q, f, g)'
    <3>1. q \in Sent /\ q # r /\ req'[q] = req[q]
      BY <1>9
    <3>2. PICK f \in Slots, g \in Slots : Whole(q, f, g)
      BY <3>1 DEF Chains
    <3>3. PICK e \in Slots : e = req[q].token
      BY <3>2 DEF Whole
    <3>4. desc[e].of = q /\ desc[f].of = q /\ desc[g].of = q
      BY <3>2, <3>3 DEF Whole
    <3>5. desc'[e] = desc[e] /\ desc'[f] = desc[f] /\ desc'[g] = desc[g]
      BY <1>7, <1>8, <3>1, <3>4
    <3>6. Whole(q, f, g)'
      BY <3>1, <3>2, <3>3, <3>5 DEF Whole
    <3> QED BY <3>6
  <2> QED BY <1>10, <2>1 DEF Chains
<1>15. DriverAt' /\ Asked'
  BY <1>6, <1>9 DEF DriverAt, Asked
<1>16. \E t \in Seq(Slots) : FreeList(t)'
  <2>1. PICK x \in Seq(Slots) : x = <<h, b, c>>
    <3>1. <<h, b, c>> \in Seq(Slots)
      OBVIOUS
    <3> QED BY <3>1, Zenon
  <2>2. /\ Len(x) = 3 /\ DOMAIN x = 1 .. 3 /\ x[1] = h /\ x[2] = b /\ x[3] = c
    BY <2>1
  <2>3. IsInjective(x) /\ Range(x) = {h, b, c}
    BY <1>8, <2>2 DEF IsInjective, Range
  <2>4. /\ IsInjective(s) /\ Len(s) = queue_size - num_used
        /\ s # <<>> => s[1] = free_head
        /\ \A k \in 1 .. Len(s) - 1 : s[k + 1] = desc[s[k]].next
        /\ \A d \in Range(s) : desc[d].of = None
    BY <1>1 DEF FreeList
  <2>5. /\ Range(x) \cap Range(s) = {}
        /\ \A d \in Range(s) : d \in Slots /\ desc'[d] = desc[d]
    <3>1. \A d \in Range(s) : d \in Slots /\ d \notin {h, b, c}
      BY <1>8, <2>4, RangeFacts
    <3> QED BY <1>7, <2>3, <3>1
  <2>6. PICK t \in Seq(Slots) : /\ t = x \o s /\ IsInjective(t)
                                /\ Range(t) = Range(x) \cup Range(s)
    <3>1. /\ x \o s \in Seq(Slots) /\ Range(x \o s) = Range(x) \cup Range(s)
          /\ (/\ IsInjective(x) /\ IsInjective(s)
              /\ Range(x) \cap Range(s) = {}) => IsInjective(x \o s)
      BY ConcatFacts
    <3> QED BY <2>3, <2>4, <2>5, <3>1, Zenon
  <2>7. /\ Len(s) \in Nat /\ Len(t) = 3 + Len(s) /\ DOMAIN s = 1 .. Len(s)
        /\ t[1] = h /\ t[2] = b /\ t[3] = c
        /\ \A k \in 1 .. Len(s) : t[3 + k] = s[k]
    <3>1. \A v, w \in Seq(Slots) : /\ Len(v \o w) = Len(v) + Len(w)
                                   /\ \A k \in 1 .. Len(v) : (v \o w)[k] = v[k]
                                   /\ \A k \in 1 .. Len(w) : (v \o w)[Len(v) + k] = w[k]
      OBVIOUS
    <3>2. /\ Len(t) = Len(x) + Len(s)
          /\ \A k \in 1 .. Len(x) : t[k] = x[k]
          /\ \A k \in 1 .. Len(s) : t[Len(x) + k] = s[k]
      BY <2>6, <3>1, Zenon
    <3>3. 1 \in 1 .. Len(x) /\ 2 \in 1 .. Len(x) /\ 3 \in 1 .. Len(x)
      BY <2>2
    <3>4. Len(s) \in Nat /\ DOMAIN s = 1 .. Len(s)
      OBVIOUS
    <3> QED BY <2>2, <3>2, <3>3, <3>4
  <2>8. Len(t) = queue_size - num_used'
    <3>1. queue_size \in Int /\ num_used \in Int
      BY Sizes DEF TypeOK
    <3> QED BY <1>6, <2>4, <2>7, <3>1
  <2>9. ASSUME NEW k \in 1 .. Len(t) - 1 PROVE t[k + 1] = desc'[t[k]].next
    <3>1. CASE k = 1
      BY <1>7, <2>7, <3>1
    <3>2. CASE k = 2
      BY <1>7, <2>7, <3>2
    <3>3. CASE k = 3
      <4>1. 1 \in 1 .. Len(s) /\ s # <<>> /\ k + 1 = 3 + 1
        BY <2>7, <3>3
      <4>2. t[3 + 1] = s[1]
        BY <2>7, <4>1, Zenon
      <4> QED BY <1>7, <2>4, <2>7, <3>3, <4>1, <4>2
    <3>4. CASE k > 3
      <4>1. PICK j \in 1 .. Len(s) - 1 : k = 3 + j /\ k + 1 = 3 + (j + 1)
        <5>1. k - 3 \in 1 .. Len(s) - 1 /\ k = 3 + (k - 3) /\ k + 1 = 3 + ((k - 3) + 1)
          BY <2>7, <3>4, SMTT(30)
        <5> QED BY <5>1, Zenon
      <4>2. j \in 1 .. Len(s) /\ j + 1 \in 1 .. Len(s)
        BY <2>7, <4>1
      <4>3. t[3 + j] = s[j] /\ t[3 + (j + 1)] = s[j + 1]
        BY <2>7, <4>2, Zenon
      <4>4. desc'[s[j]] = desc[s[j]] /\ s[j + 1] = desc[s[j]].next
        BY <2>4, <2>5, <2>7, <4>2, RangeFacts
      <4> QED BY <4>1, <4>3, <4>4
    <3>5. k = 1 \/ k = 2 \/ k = 3 \/ k > 3
      BY <2>7, SMTT(30)
    <3> QED BY <3>1, <3>2, <3>3, <3>4, <3>5, Zenon
  <2>10. \A d \in Range(t) : desc'[d].of = None
    BY <1>7, <2>3, <2>4, <2>5, <2>6
  <2>11. FreeList(t)'
    BY <1>6, <2>6, <2>7, <2>8, <2>9, <2>10 DEF FreeList
  <2> QED BY <2>11
<1>17. PICK v \in Seq(Slots) : /\ v = Tail(u) /\ IsInjective(v) /\ h \notin Range(v)
                               /\ Range(u) = Range(v) \cup {h}
  <2>1. IsInjective(u)
    BY <1>2 DEF Rings, InFlight
  <2>2. /\ Tail(u) \in Seq(Slots) /\ Range(u) = Range(Tail(u)) \cup {Head(u)}
        /\ IsInjective(u) => IsInjective(Tail(u)) /\ Head(u) \notin Range(Tail(u))
    BY <1>3, TailFacts
  <2> QED BY <1>4, <2>1, <2>2, Zenon
<1>18. Window(used'.ring, last_used_idx', used'.idx, v)
  <2>1. Window(used.ring, last_used_idx, used.idx, u)
    BY <1>2 DEF Rings
  <2>2. Window([used.ring EXCEPT ![Slot(last_used_idx)] = None],
               Incremented(last_used_idx), used.idx, Tail(u))
    BY <1>3, <1>11, <2>1, WindowShrinks
  <2> QED BY <1>6, <1>12, <1>17, <2>2
<1>19. Unpublished = {} /\ Unpublished' = {}
  BY <1>6 DEF Unpublished
<1>20. InFlight(a, v)'
  <2>1. \A q \in Sent : req[q].token = h => q = r
    BY <1>6, TokenUnique
  <2>2. /\ IsInjective(a) /\ Range(a) \cap taken = {}
        /\ Range(a) \cap Range(v) = {} /\ taken \cap Range(v) = {}
        /\ h \notin Range(a) \cup taken
    BY <1>2, <1>17 DEF Rings, InFlight
  <2>3. /\ \A q \in Sent : req[q].token \in Range(a) \cup taken \cup Range(v) \cup {h}
        /\ \A x \in Range(a) \cup taken \cup Range(v) : \E q \in Sent : req[q].token = x
        /\ \A q \in Sent : req[q].token \in Range(v) \cup {h} <=> req[q].status # "NotReady"
    BY <1>2, <1>17, <1>19 DEF Rings, InFlight
  <2>4. \A q \in Sent' : req'[q].token \in Range(a) \cup taken \cup Range(v)
    BY <1>9, <2>1, <2>3
  <2>5. \A x \in Range(a) \cup taken \cup Range(v) : \E q \in Sent' : req'[q].token = x
    <3> SUFFICES ASSUME NEW x \in Range(a) \cup taken \cup Range(v)
                 PROVE  \E q \in Sent' : req'[q].token = x
      OBVIOUS
    <3>1. PICK q \in Sent : req[q].token = x
      BY <2>3
    <3>2. q # r
      BY <1>6, <1>17, <2>2, <3>1
    <3> QED BY <1>9, <3>1, <3>2
  <2>6. \A q \in Sent' : req'[q].token \in Range(v) <=> req'[q].status # "NotReady"
    BY <1>9, <2>1, <2>3
  <2> QED BY <1>6, <1>17, <1>19, <2>2, <2>4, <2>5, <2>6 DEF InFlight
<1>21. Rings(a, v)'
  BY <1>2, <1>6, <1>18, <1>20 DEF Rings
<1> QED BY <1>13, <1>14, <1>15, <1>16, <1>21

(* VirtQueue::new links every descriptor to the next: all of them are free. *)
LEMMA InitInv ==
  ASSUME Init
  PROVE  QueueInv
<1> USE DEF Init
<1>1. /\ queue_size \in Nat /\ queue_size > 0 /\ WRAP \in Nat /\ WRAP > 0
  BY Sizes
<1>2. Sent = {}
  BY DEF Sent, Unused
<1>3. TypeOK
  <2>1. \A i \in Slots : (i + 1) % queue_size \in Slots
    <3> TAKE i \in Slots
    <3>1. PICK y \in Int : y = i + 1
      BY <1>1 DEF Slots
    <3>2. Slot(y) \in Slots
      BY Wrapped
    <3> QED BY <3>1, <3>2 DEF Slot
  <2>2. 0 \in Slots /\ 0 \in 0 .. WRAP - 1
    BY <1>1 DEF Slots
  <2>3. desc \in [Slots -> [of : Requests \cup {None}, buf : Buffer,
                           flags : SUBSET {"NEXT", "WRITE"}, next : Slots]]
    BY <2>1 DEF Buffer
  <2>4. req \in [Requests -> [state : {"idle", "sent"}, type : {"In", "Out"},
                             sector : Sectors \cup {None}, data : Values \cup {None},
                             status : {"NotReady", "Ok", "IoErr"}, token : Slots \cup {None}]]
    BY DEF Unused
  <2>5. /\ avail \in [ring : [Slots -> Slots \cup {None}], idx : 0 .. WRAP - 1]
        /\ used \in [ring : [Slots -> Slots \cup {None}], idx : 0 .. WRAP - 1]
    BY <2>2
  <2>6. num_used \in 0 .. queue_size /\ free_head \in Slots
    BY <1>1, <2>2
  <2> QED BY <2>2, <2>3, <2>4, <2>5, <2>6 DEF TypeOK
<1>4. Chains
  <2>1. IsFiniteSet(Sent) /\ Cardinality(Sent) = 0
    BY <1>2, FS_EmptySet
  <2>2. num_used = 3 * Cardinality(Sent)
    BY <2>1
  <2> QED BY <1>2, <2>1, <2>2 DEF Chains
<1>5. DriverAt /\ Asked
  BY <1>2 DEF DriverAt, Asked
<1>6. \E s \in Seq(Slots) : FreeList(s)
  <2>1. PICK s : s = [k \in 1 .. queue_size |-> k - 1]
    OBVIOUS
  <2>2. /\ s \in Seq(Slots) /\ Len(s) = queue_size /\ DOMAIN s = 1 .. queue_size
        /\ \A k \in 1 .. queue_size : s[k] = k - 1 /\ s[k] \in Slots
    BY <1>1, <2>1 DEF Slots
  <2>3. IsInjective(s)
    BY <1>1, <2>2 DEF IsInjective
  <2>4. ASSUME NEW k \in 1 .. queue_size - 1 PROVE s[k + 1] = desc[s[k]].next
    <3>1. k % queue_size = k
      <4>1. queue_size \in Nat \ {0} /\ k \in 0 .. queue_size - 1 /\ 0 \in Int /\ k \in Int
            /\ k = queue_size * 0 + k
        BY <1>1
      <4> QED BY <4>1, ModIs, ZenonT(30)
    <3>2. /\ k \in 1 .. queue_size /\ k + 1 \in 1 .. queue_size
          /\ (k - 1) + 1 = k /\ (k + 1) - 1 = k
      BY <1>1
    <3>3. s[k + 1] = k /\ s[k] = k - 1 /\ k - 1 \in Slots
      BY <2>2, <3>2
    <3>4. desc[k - 1].next = ((k - 1) + 1) % queue_size
      BY <3>3
    <3> QED BY <3>1, <3>2, <3>3, <3>4
  <2>5. \A d \in Range(s) : desc[d].of = None
    <3>1. Range(s) \subseteq Slots
      BY <2>2, RangeFacts
    <3> QED BY <3>1
  <2>6. s[1] = free_head /\ Len(s) = queue_size - num_used
    BY <1>1, <2>2
  <2>7. FreeList(s)
    BY <2>2, <2>3, <2>4, <2>5, <2>6 DEF FreeList
  <2> QED BY <2>2, <2>7
<1>7. \E a, u \in Seq(Slots) : Rings(a, u)
  <2>1. PICK e \in Seq(Slots) : /\ e = <<>> /\ Len(e) = 0 /\ Range(e) = {} /\ IsInjective(e)
    <3>1. <<>> \in Seq(Slots) /\ Len(<<>>) = 0 /\ DOMAIN <<>> = {}
      OBVIOUS
    <3>2. PICK e \in Seq(Slots) : e = <<>> /\ Len(e) = 0 /\ DOMAIN e = {}
      BY <3>1
    <3>3. Range(e) = {} /\ IsInjective(e)
      BY <3>2 DEF Range, IsInjective
    <3> QED BY <3>2, <3>3
  <2>2. 0 % WRAP = 0
    <3>1. 0 \in 0 .. WRAP - 1
      BY <1>1
    <3> QED BY <3>1, NotWrapped
  <2>3. 0 = (0 + Len(e)) % WRAP /\ Len(e) < queue_size
    BY <1>1, <2>1, <2>2
  <2>4. \A ring : Window(ring, 0, 0, e)
    BY <2>1, <2>3 DEF Window
  <2>5. avail_idx = 0 /\ dev_idx = 0 /\ used.idx = 0 /\ last_used_idx = 0
    OBVIOUS
  <2>6. Unpublished = {} /\ taken = {}
    BY DEF Unpublished
  <2>7. InFlight(e, e)
    BY <1>2, <2>1, <2>6 DEF InFlight
  <2>8. Rings(e, e)
    BY <2>4, <2>5, <2>7 DEF Rings
  <2> QED BY <2>8
<1> QED BY <1>3, <1>4, <1>5, <1>6, <1>7 DEF QueueInv

(* Every step keeps the invariant.                                          *)
LEMMA NextInv ==
  ASSUME QueueInv, [Next]_vars
  PROVE  QueueInv'
<1>1. CASE UNCHANGED vars
  <2>1. UNCHANGED <<desc, avail, used, num_used, free_head, avail_idx, last_used_idx, pc,
                    current, req, disk, dev_idx, taken>>
    BY <1>1 DEF vars
  <2>2. Sent' = Sent /\ Unpublished' = Unpublished
    BY <2>1 DEF Sent, Unpublished
  <2>3. TypeOK' /\ Chains' /\ DriverAt' /\ Asked'
    BY <2>1, <2>2, ChainsFrame DEF QueueInv, TypeOK, DriverAt, Asked
  <2>4. \E s \in Seq(Slots) : FreeList(s)'
    <3>1. PICK s \in Seq(Slots) : FreeList(s)
      BY DEF QueueInv
    <3>2. FreeList(s)'
      BY <2>1, <3>1, FreeListFrame
    <3> QED BY <3>2
  <2>5. \E a, u \in Seq(Slots) : Rings(a, u)'
    <3>1. PICK a \in Seq(Slots), u \in Seq(Slots) : Rings(a, u)
      BY DEF QueueInv
    <3>2. Rings(a, u)'
      BY <2>1, <2>2, <3>1, InFlightFrame DEF Rings
    <3> QED BY <3>2
  <2> QED BY <2>3, <2>4, <2>5 DEF QueueInv
<1>2. ASSUME NEW r \in Requests, Submit(r) PROVE QueueInv'
  <2>1. PICK sector \in Sectors : \/ Add(r, "In", sector, None)
                                  \/ \E v \in Values : Add(r, "Out", sector, v)
    BY <1>2 DEF Submit
  <2>2. CASE Add(r, "In", sector, None)
    <3>1. PICK type, data : type = "In" /\ data = None
      OBVIOUS
    <3>2. Add(r, type, sector, data)
      BY <2>2, <3>1, Zenon
    <3>3. (type = "In" /\ data = None) \/ (type = "Out" /\ data \in Values)
      BY <3>1
    <3> QED BY <3>2, <3>3, AddInv, Zenon
  <2>3. ASSUME NEW v \in Values, Add(r, "Out", sector, v) PROVE QueueInv'
    BY <2>3, AddInv
  <2> QED BY <2>1, <2>2, <2>3
<1>3. CASE Spin
  BY <1>1, <1>3 DEF Spin
<1> QED BY <1>1, <1>2, <1>3, PublishInv, PopInv, TakeInv, ServeInv DEF Next

(* For any queue size, wrap of the indices and number of requests: every    *)
(* descriptor is free or in the chain of one request, every head is in one  *)
(* place between driver and disk, and the rings hold the heads between      *)
(* their indices (add, pop_used, recycle_descriptors, can_pop).             *)
THEOREM QueueInvariance == Spec => []QueueInv
<1>1. Init => QueueInv
  BY InitInv
<1>2. QueueInv /\ [Next]_vars => QueueInv'
  BY NextInv
<1> QED BY <1>1, <1>2, PTL DEF Spec

-----------------------------------------------------------------------------
(* What follows from the invariant.                                         *)

(* A sequence without repetition has as many members as places.             *)
LEMMA InjectiveSize ==
  ASSUME NEW S, NEW s \in Seq(S), IsInjective(s)
  PROVE  IsFiniteSet(Range(s)) /\ Cardinality(Range(s)) = Len(s)
<1>1. s \in [1 .. Len(s) -> Range(s)] /\ Len(s) \in Nat /\ DOMAIN s = 1 .. Len(s)
  <2>1. Len(s) \in Nat /\ DOMAIN s = 1 .. Len(s) /\ s = [i \in 1 .. Len(s) |-> s[i]]
    OBVIOUS
  <2> QED BY <2>1, RangeFacts
<1>2. s \in Injection(1 .. Len(s), Range(s)) /\ s \in Surjection(1 .. Len(s), Range(s))
  BY <1>1, RangeFacts DEF Injection, Surjection
<1>3. IsFiniteSet(1 .. Len(s)) /\ Cardinality(1 .. Len(s)) = Len(s)
  <2>1. 1 \in Int /\ Len(s) \in Int /\ (1 > Len(s) => Len(s) = 0) /\ Len(s) - 1 + 1 = Len(s)
    BY <1>1
  <2> QED BY <2>1, FS_Interval
<1> QED BY <1>2, <1>3, FS_Surjection

(* Following the links from free_head gives the free list, all of it.       *)
LEMMA FreeIs ==
  ASSUME TypeOK, NEW s \in Seq(Slots), FreeList(s)
  PROVE  Range(s) = IF num_used = queue_size THEN {}
                    ELSE ToSet(Linked(free_head, queue_size - num_used))
<1>1. /\ Len(s) = queue_size - num_used
      /\ s # <<>> => s[1] = free_head
      /\ \A k \in 1 .. Len(s) - 1 : s[k + 1] = desc[s[k]].next
  BY DEF FreeList
<1>2. num_used \in Nat /\ queue_size \in Nat
  BY Sizes DEF TypeOK
<1>3. CASE num_used = queue_size
  <2>1. Len(s) = 0 /\ DOMAIN s = 1 .. Len(s)
    BY <1>1, <1>2, <1>3
  <2>2. DOMAIN s = {}
    BY <2>1
  <2> QED BY <1>3, <2>2 DEF Range
<1>4. CASE num_used # queue_size
  <2>1. Len(s) = queue_size - num_used /\ s # <<>>
    <3>1. Len(s) # 0
      BY <1>1, <1>2, <1>4
    <3> QED BY <1>1, <3>1
  <2>2. Linked(free_head, Len(s)) = s
    BY <1>1, <2>1, LinkedIs
  <2> QED BY <1>4, <2>1, <2>2 DEF Range, ToSet
<1> QED BY <1>3, <1>4

(* The chain of a request in flight, as a set.                              *)
LEMMA InUse ==
  ASSUME QueueInv, NEW r \in Sent
  PROVE  LET used_by_r == ToSet(Chain(req[r].token))
         IN  /\ Cardinality(used_by_r) = 3
             /\ \A d \in used_by_r : d \in Slots /\ desc[d].of = r
<1>1. PICK b \in Slots, c \in Slots : Whole(r, b, c)
  BY DEF QueueInv, Chains
<1>2. PICK a \in Slots : /\ a = req[r].token /\ Chain(req[r].token) = <<a, b, c>>
                         /\ a # b /\ a # c /\ b # c
  BY <1>1, ChainFacts DEF QueueInv, Whole
<1>3. ToSet(Chain(req[r].token)) = {a, b, c}
  <2>1. PICK ch : ch = <<a, b, c>>
    OBVIOUS
  <2>2. DOMAIN ch = 1 .. 3 /\ ch[1] = a /\ ch[2] = b /\ ch[3] = c
    BY <2>1
  <2>3. ToSet(ch) = {a, b, c}
    BY <2>2 DEF ToSet
  <2> QED BY <1>2, <2>1, <2>3
<1>4. Cardinality({a, b, c}) = 3
  <2>1. IsFiniteSet({a}) /\ Cardinality({a}) = 1
    BY FS_Singleton
  <2>2. IsFiniteSet({a} \cup {b}) /\ Cardinality({a} \cup {b}) = 2
    <3>1. b \notin {a}
      BY <1>2
    <3> QED BY <2>1, <3>1, FS_AddElement
  <2>3. Cardinality(({a} \cup {b}) \cup {c}) = 3
    <3>1. c \notin {a} \cup {b}
      BY <1>2
    <3>2. PICK ab : ab = {a} \cup {b}
      OBVIOUS
    <3>3. Cardinality(ab \cup {c}) = Cardinality(ab) + 1
      BY <2>2, <3>1, <3>2, FS_AddElement
    <3> QED BY <2>2, <3>2, <3>3
  <2>4. ({a} \cup {b}) \cup {c} = {a, b, c}
    OBVIOUS
  <2> QED BY <2>3, <2>4
<1>5. desc[a].of = r /\ desc[b].of = r /\ desc[c].of = r
  BY <1>1, <1>2 DEF Whole
<1> QED BY <1>3, <1>4, <1>5

(* However many requests are in flight and in whatever order they are       *)
(* answered, every descriptor is either free or in the chain of exactly one *)
(* of them, and num_used counts them (add, recycle_descriptors).            *)
THEOREM QueueConsistentCorrect == Spec => []QueueConsistent
<1>1. QueueInv => QueueConsistent
  <2> SUFFICES ASSUME QueueInv PROVE TypeOK /\ DescriptorsConserved
    BY DEF QueueConsistent
  <2>1. TypeOK /\ num_used = 3 * Cardinality(Sent)
    BY DEF QueueInv, Chains
  <2>2. PICK s \in Seq(Slots) : FreeList(s)
    BY DEF QueueInv
  <2>3. PICK free : /\ free = IF num_used = queue_size THEN {}
                              ELSE ToSet(Linked(free_head, queue_size - num_used))
                    /\ free = Range(s)
    BY <2>1, <2>2, FreeIs
  <2>4. /\ Cardinality(free) = queue_size - num_used
        /\ \A d \in free : desc[d].of = None
    BY <2>2, <2>3, InjectiveSize DEF FreeList
  <2>5. PICK inUse : inUse = [r \in Sent |-> ToSet(Chain(req[r].token))]
    OBVIOUS
  <2>6. \A r \in Sent : /\ Cardinality(inUse[r]) = 3
                        /\ \A d \in inUse[r] : d \in Slots /\ desc[d].of = r
    BY <2>5, InUse
  <2>7. \A r \in Sent : inUse[r] \cap free = {}
    BY <2>4, <2>6, VirtQueueAssumption DEF Sent
  <2>8. \A r, q \in Sent : r # q => inUse[r] \cap inUse[q] = {}
    BY <2>6
  <2> QED BY <2>1, <2>3, <2>4, <2>5, <2>6, <2>7, <2>8 DEF DescriptorsConserved
<1> QED BY <1>1, QueueInvariance, PTL

(* Whatever the disk can find, published or taken, is the head of a complete*)
(* chain of a request in flight, also where the indices wrap: add publishes *)
(* after it has written, and no ring entry is overwritten before it is read.*)
THEOREM WholeRequestsCorrect == Spec => []DiskSeesWholeRequests
<1>1. QueueInv => DiskSeesWholeRequests
  <2> SUFFICES ASSUME QueueInv PROVE DiskSeesWholeRequests
    OBVIOUS
  <2>1. PICK a \in Seq(Slots), u \in Seq(Slots) : Rings(a, u)
    BY DEF QueueInv
  <2>2. /\ dev_idx \in 0 .. WRAP - 1 /\ avail_idx \in 0 .. WRAP - 1 /\ avail.idx = avail_idx
        /\ Window(avail.ring, dev_idx, avail_idx, a)
    BY <2>1 DEF QueueInv, TypeOK, DriverAt, Rings
  <2>3. ASSUME NEW h \in taken \cup {avail.ring[Slot(i)] : i \in
                   {i \in 0 .. WRAP - 1 : (i - dev_idx) % WRAP < (avail.idx - dev_idx) % WRAP}}
        PROVE  \E r \in Sent :
            /\ req[r].token = h /\ Len(Chain(h)) = 3
            /\ \A k \in 1 .. 3 :
                 /\ desc[Chain(h)[k]].of = r
                 /\ desc[Chain(h)[k]].buf = Buffers(req[r].type)[k]
                 /\ ("WRITE" \in desc[Chain(h)[k]].flags)
                      = (desc[Chain(h)[k]].buf \in DeviceWrites(req[r].type))
    <3>1. h \in taken \cup Range(a)
      <4>1. ASSUME NEW i \in 0 .. WRAP - 1, (i - dev_idx) % WRAP < (avail.idx - dev_idx) % WRAP
            PROVE  avail.ring[Slot(i)] \in Range(a)
        BY <2>2, <4>1, WindowAhead
      <4> QED BY <2>3, <4>1
    <3>2. PICK r \in Sent : req[r].token = h
      BY <2>1, <3>1 DEF Rings, InFlight
    <3>3. PICK b \in Slots, c \in Slots : Whole(r, b, c)
      BY DEF QueueInv, Chains
    <3>4. PICK ch : ch = Chain(h) /\ ch = <<h, b, c>>
      BY <3>2, <3>3, ChainFacts DEF QueueInv
    <3>5. Len(ch) = 3 /\ ch[1] = h /\ ch[2] = b /\ ch[3] = c
      BY <3>4
    <3>6. req[r].type \in {"In", "Out"}
      BY DEF QueueInv, TypeOK, Sent
    <3>7. PICK bufs : /\ bufs = Buffers(req[r].type)
                      /\ bufs[1] = "header" /\ bufs[2] = "data" /\ bufs[3] = "status"
      <4>1. PICK bufs : bufs = <<"header", "data", "status">>
        OBVIOUS
      <4>2. bufs[1] = "header" /\ bufs[2] = "data" /\ bufs[3] = "status"
        BY <4>1
      <4> QED BY <4>1, <4>2, Zenon DEF Buffers
    <3>8. ASSUME NEW k \in 1 .. 3
          PROVE  /\ desc[ch[k]].of = r
                 /\ desc[ch[k]].buf = bufs[k]
                 /\ ("WRITE" \in desc[ch[k]].flags)
                      = (desc[ch[k]].buf \in DeviceWrites(req[r].type))
      <4>1. CASE k = 1
        BY <3>2, <3>3, <3>5, <3>6, <3>7, <4>1 DEF Whole, DeviceWrites
      <4>2. CASE k = 2
        BY <3>2, <3>3, <3>5, <3>6, <3>7, <4>2 DEF Whole, DeviceWrites
      <4>3. CASE k = 3
        BY <3>2, <3>3, <3>5, <3>6, <3>7, <4>3 DEF Whole, DeviceWrites
      <4> QED BY <4>1, <4>2, <4>3
    <3>9. /\ Len(Chain(h)) = 3
          /\ \A k \in 1 .. 3 :
                 /\ desc[Chain(h)[k]].of = r
                 /\ desc[Chain(h)[k]].buf = Buffers(req[r].type)[k]
                 /\ ("WRITE" \in desc[Chain(h)[k]].flags)
                      = (desc[Chain(h)[k]].buf \in DeviceWrites(req[r].type))
      BY <3>4, <3>5, <3>7, <3>8
    <3> QED BY <3>2, <3>9
  <2> QED BY <2>3 DEF DiskSeesWholeRequests
<1> QED BY <1>1, QueueInvariance, PTL

(* A blocking call waits for nothing but the disk: once the disk has taken  *)
(* and answered everything, can_pop is true, wherever the indices are.      *)
THEOREM SpinCorrect == Spec => []SpinSeesAnswer
<1>1. QueueInv => SpinSeesAnswer
  <2> SUFFICES ASSUME QueueInv, pc = "spin", dev_idx = avail.idx, taken = {}
               PROVE  last_used_idx # used.idx
    BY DEF SpinSeesAnswer, CanPop
  <2>1. PICK a \in Seq(Slots), u \in Seq(Slots) : Rings(a, u)
    BY DEF QueueInv
  <2>2. /\ dev_idx \in 0 .. WRAP - 1 /\ dev_idx = avail_idx /\ last_used_idx \in 0 .. WRAP - 1
        /\ Window(avail.ring, dev_idx, avail_idx, a)
        /\ Window(used.ring, last_used_idx, used.idx, u)
        /\ current \in Sent /\ Unpublished = {}
    BY <2>1 DEF QueueInv, TypeOK, DriverAt, Rings, Unpublished
  <2>3. a = <<>>
    BY <2>2, WindowEmpty
  <2>4. Range(a) = {}
    BY <2>3 DEF Range
  <2>5. req[current].token \in Range(u)
    BY <2>1, <2>2, <2>4 DEF Rings, InFlight
  <2>6. u # <<>>
    BY <2>5 DEF Range
  <2> QED BY <2>2, <2>6, WindowEmpty
<1> QED BY <1>1, QueueInvariance, PTL

-----------------------------------------------------------------------------
(* The queue implements DiskRequests.                                       *)

(* Records with the same fields are equal.                                  *)
LEMMA SameRecord ==
  ASSUME NEW x \in RequestRecords, NEW y \in RequestRecords,
         x.state = y.state, x.type = y.type, x.sector = y.sector, x.data = y.data,
         x.status = y.status, x.token = y.token
  PROVE  x = y
BY DEF RequestRecords

(* Storing a status changes nothing else in a request record, ...           *)
LEMMA SetStatus ==
  ASSUME NEW x \in RequestRecords, NEW st \in {"NotReady", "Ok", "IoErr"}
  PROVE  LET y == [x EXCEPT !.status = st]
         IN  /\ y \in RequestRecords /\ y.state = x.state /\ y.type = x.type
             /\ y.sector = x.sector /\ y.data = x.data /\ y.status = st /\ y.token = x.token
<1>1. PICK y : y = [x EXCEPT !.status = st]
  OBVIOUS
<1>2. y = [state |-> x.state, type |-> x.type, sector |-> x.sector, data |-> x.data,
           status |-> st, token |-> x.token]
  BY <1>1 DEF RequestRecords
<1>3. /\ y.state = x.state /\ y.type = x.type
      /\ y.sector = x.sector /\ y.data = x.data /\ y.status = st /\ y.token = x.token
  BY <1>2
<1>4. y \in RequestRecords
  BY <1>2 DEF RequestRecords
<1> QED BY <1>1, <1>3, <1>4

(* ... and neither does storing data.                                       *)
LEMMA SetData ==
  ASSUME NEW x \in RequestRecords, NEW v \in Values
  PROVE  LET y == [x EXCEPT !.data = v]
         IN  /\ y \in RequestRecords /\ y.state = x.state /\ y.type = x.type
             /\ y.sector = x.sector /\ y.data = v /\ y.status = x.status /\ y.token = x.token
<1>1. PICK y : y = [x EXCEPT !.data = v]
  OBVIOUS
<1>2. y = [state |-> x.state, type |-> x.type, sector |-> x.sector, data |-> v,
           status |-> x.status, token |-> x.token]
  BY <1>1 DEF RequestRecords
<1>3. /\ y.state = x.state /\ y.type = x.type
      /\ y.sector = x.sector /\ y.data = v /\ y.status = x.status /\ y.token = x.token
  BY <1>2
<1>4. y \in RequestRecords
  BY <1>2 DEF RequestRecords
<1> QED BY <1>1, <1>3, <1>4

(* The request records and what the disk finds in them.                     *)
LEMMA RequestTypes ==
  ASSUME QueueInv
  PROVE  /\ req \in [Requests -> RequestRecords] /\ Sent \subseteq Requests
         /\ \A r \in Sent : req[r].sector \in Sectors /\ disk[req[r].sector] \in Values
BY DEF QueueInv, TypeOK, RequestRecords, Sent, Asked

(* The disk's serving of a head is the effect of its request: with its own  *)
(* sector while its call waits, and never on anything but its own buffer.   *)
LEMMA ServeIsEffect ==
  ASSUME QueueInv, NEW head \in Slots, NEW ok \in BOOLEAN, NEW h \in Headers,
         DeviceServe(head, ok, h)
  PROVE  Disk!DiskNext
<1> USE DEF Served
<1>1. PICK r \in Sent : Served(head, ok, h, r)
  BY ServeFacts
<1>2. /\ r \in Requests /\ req[r].state = "sent" /\ req[r].type \in {"In", "Out"}
      /\ req \in [Requests -> RequestRecords] /\ disk[h.sector] \in Values
      /\ req[r] \in RequestRecords /\ req'[r] \in RequestRecords
  <2>1. req[r].state = "sent"
    BY DEF Sent
  <2>2. r \in Requests /\ req \in [Requests -> RequestRecords]
    BY RequestTypes
  <2>3. req[r] \in RequestRecords /\ req'[r] \in RequestRecords
    BY <1>1, <2>2
  <2>4. disk[h.sector] \in Values
    BY <1>1 DEF QueueInv, TypeOK
  <2> QED BY <2>1, <2>2, <2>3, <2>4 DEF RequestRecords
<1>3. ASSUME NEW x, x \in [Requests -> RequestRecords], x[r] = req'[r],
             \A q \in Requests : q # r => x[q] = req[q]
      PROVE  req' = x
  <2>1. \A q \in Requests : x[q] = req'[q]
    BY <1>1, <1>2, <1>3
  <2>2. x = [q \in Requests |-> x[q]] /\ req' = [q \in Requests |-> req'[q]]
    BY <1>1, <1>3
  <2> QED BY <2>1, <2>2
<1>4. r \in Waiting => h.type = req[r].type /\ h.sector = req[r].sector
  <2>1. r \in Waiting => r = current
    BY DEF Waiting
  <2> QED BY <1>1, <2>1 DEF HeaderSeen
<1>5. Waiting' = Waiting /\ Disk!Others(r)
  BY <1>1 DEF Waiting, Disk!Others
<1>6. SUFFICES Disk!Effect(r)
  BY <1>2, <1>5 DEF Disk!DiskNext
<1>7. CASE ok /\ h.type = "In" /\ req[r].type = "In"
  <2>1. PICK v \in Values : v = disk[h.sector]
    BY <1>2
  <2>2. PICK m, x : /\ m = [req EXCEPT ![r].status = "Ok"]
                    /\ x = [m EXCEPT ![r].data = v]
    OBVIOUS
  <2>3. x = [req EXCEPT ![r].status = "Ok", ![r].data = disk[h.sector]]
    BY <2>1, <2>2
  <2>4. PICK e \in RequestRecords : /\ e = [req[r] EXCEPT !.status = "Ok"]
           /\ e.state = req[r].state /\ e.type = req[r].type /\ e.sector = req[r].sector
           /\ e.token = req[r].token /\ e.data = req[r].data /\ e.status = "Ok"
    <3>1. "Ok" \in {"NotReady", "Ok", "IoErr"}
      OBVIOUS
    <3> QED BY <1>2, <3>1, SetStatus
  <2>5. /\ m \in [Requests -> RequestRecords] /\ m[r] = e
        /\ \A q \in Requests : q # r => m[q] = req[q]
    BY <1>2, <2>2, <2>4
  <2>6. PICK f \in RequestRecords : /\ f = [e EXCEPT !.data = v]
           /\ f.state = e.state /\ f.type = e.type /\ f.sector = e.sector
           /\ f.token = e.token /\ f.data = v /\ f.status = e.status
    BY <2>1, SetData
  <2>7. /\ x \in [Requests -> RequestRecords] /\ x[r] = f
        /\ \A q \in Requests : q # r => x[q] = req[q]
    BY <1>2, <2>2, <2>5, <2>6
  <2>8. f = req'[r]
    <3>1. /\ f.state = req'[r].state /\ f.type = req'[r].type /\ f.sector = req'[r].sector
          /\ f.data = req'[r].data /\ f.status = req'[r].status /\ f.token = req'[r].token
      BY <1>1, <1>7, <2>1, <2>4, <2>6
    <3> QED BY <1>2, <3>1, SameRecord
  <2>9. req' = [req EXCEPT ![r].status = "Ok", ![r].data = disk[h.sector]]
    BY <1>3, <2>3, <2>7, <2>8
  <2> QED BY <1>1, <1>2, <1>4, <1>5, <1>7, <2>9 DEF Disk!Effect
<1>8. CASE ~(ok /\ h.type = "In" /\ req[r].type = "In")
  <2>1. PICK st \in {"Ok", "IoErr"} : st = IF ok THEN "Ok" ELSE "IoErr"
    OBVIOUS
  <2>2. PICK m : m = [req EXCEPT ![r].status = st]
    OBVIOUS
  <2>3. PICK e \in RequestRecords : /\ e = [req[r] EXCEPT !.status = st]
           /\ e.state = req[r].state /\ e.type = req[r].type /\ e.sector = req[r].sector
           /\ e.token = req[r].token /\ e.data = req[r].data /\ e.status = st
    <3>1. st \in {"NotReady", "Ok", "IoErr"}
      OBVIOUS
    <3>2. PICK x \in RequestRecords : x = req[r]
      BY <1>2
    <3>3. PICK e : e = [x EXCEPT !.status = st]
      OBVIOUS
    <3>4. /\ e \in RequestRecords /\ e.state = x.state /\ e.type = x.type
          /\ e.sector = x.sector /\ e.data = x.data /\ e.status = st /\ e.token = x.token
      BY <3>1, <3>3, SetStatus
    <3> QED BY <3>2, <3>3, <3>4
  <2>4. /\ m \in [Requests -> RequestRecords] /\ m[r] = e
        /\ \A q \in Requests : q # r => m[q] = req[q]
    BY <1>2, <2>2, <2>3
  <2>5. e = req'[r]
    <3>1. /\ e.state = req'[r].state /\ e.type = req'[r].type /\ e.sector = req'[r].sector
          /\ e.data = req'[r].data /\ e.status = req'[r].status /\ e.token = req'[r].token
      BY <1>1, <1>8, <2>1, <2>3
    <3> QED BY <1>2, <3>1, SameRecord
  <2>6. req' = [req EXCEPT ![r].status = st]
    BY <1>3, <2>2, <2>4, <2>5
  <2>7. CASE ~ok
    BY <1>1, <1>2, <1>5, <2>1, <2>6, <2>7 DEF Disk!Effect
  <2>8. CASE ok /\ h.type = "Out" /\ req[r].type = "Out"
    BY <1>1, <1>2, <1>4, <1>5, <2>1, <2>6, <2>8 DEF Disk!Effect
  <2>9. CASE ok /\ ~(h.type = "Out" /\ req[r].type = "Out")
    <3>1. r \notin Waiting
      BY <1>2, <1>4, <1>8, <2>9
    <3> QED BY <1>1, <1>2, <1>5, <2>1, <2>6, <2>9, <3>1 DEF Disk!Effect
  <2> QED BY <2>7, <2>8, <2>9
<1> QED BY <1>7, <1>8

(* Every step is a step of the abstract disk, or none: add calls, a call    *)
(* that waits begins to when add has published its chain, the disk serves,  *)
(* pop_used completes the request whose answer came first.                  *)
LEMMA StepIsDiskStep ==
  ASSUME QueueInv, [Next]_vars
  PROVE  [Disk!DiskNext]_(Disk!diskVars)
<1> USE DEF Disk!diskVars
<1>1. CASE UNCHANGED vars
  BY <1>1 DEF vars, Waiting
<1>2. ASSUME NEW r \in Requests, NEW type, NEW sector \in Sectors, NEW data,
             Add(r, type, sector, data)
      PROVE  Disk!DiskNext
  <2>1. PICK rec : rec = [state |-> "sent", type |-> type, sector |-> sector,
                          data |-> data, status |-> "NotReady", token |-> free_head]
    OBVIOUS
  <2>2. /\ req[r].state = "idle" /\ disk' = disk /\ req' = [req EXCEPT ![r] = rec]
        /\ Waiting = {} /\ Waiting' = {}
    BY <1>2, <2>1 DEF Add, Waiting
  <2>3. req'[r] = rec /\ \A q \in Requests : q # r => req'[q] = req[q]
    BY <2>2, RequestTypes
  <2>4. Disk!Call(r) /\ Disk!Others(r)
    BY <2>1, <2>2, <2>3 DEF Disk!Call, Disk!Others
  <2> QED BY <2>4 DEF Disk!DiskNext
<1>3. ASSUME NEW r \in Requests, Submit(r) PROVE Disk!DiskNext
  BY <1>2, <1>3 DEF Submit
<1>4. ASSUME NEW blocking \in BOOLEAN, Publish(blocking)
      PROVE  [Disk!DiskNext]_(Disk!diskVars)
  <2>1. pc = "filled" /\ UNCHANGED <<req, disk>> /\ Waiting = {}
    BY <1>4 DEF Publish, Waiting
  <2>2. CASE ~blocking
    <3>1. pc' = "idle"
      BY <1>4, <2>2 DEF Publish
    <3> QED BY <2>1, <3>1 DEF Waiting
  <2>3. CASE blocking
    <3>1. pc' = "spin" /\ current' = current
      BY <1>4, <2>3 DEF Publish
    <3>2. Waiting' = {current}
      BY <3>1 DEF Waiting
    <3>3. current \in Sent /\ current \in Requests
      BY <2>1 DEF QueueInv, DriverAt, Sent
    <3>4. req[current].status = "NotReady"
      <4>1. PICK a \in Seq(Slots), u \in Seq(Slots) : Rings(a, u)
        BY DEF QueueInv
      <4>2. req[current].token \in Unpublished
        BY <2>1 DEF Unpublished
      <4> QED BY <3>3, <4>1, <4>2 DEF Rings, InFlight
    <3>5. Disk!Wait(current) /\ Disk!Others(current)
      BY <2>1, <3>2, <3>3, <3>4 DEF Disk!Wait, Disk!Others, Sent
    <3> QED BY <3>3, <3>5 DEF Disk!DiskNext
  <2> QED BY <2>2, <2>3
<1>5. CASE PopUsed
  <2>1. PICK a \in Seq(Slots), u \in Seq(Slots) : Rings(a, u)
    BY DEF QueueInv
  <2>2. PICK r \in Sent, b \in Slots, c \in Slots : Popped(Head(u), r, b, c)
    BY <1>5, <2>1, PopUsedFacts
  <2>3. /\ r \in Requests /\ req[r].state = "sent" /\ req[r].status # "NotReady"
        /\ req' = [req EXCEPT ![r] = Unused] /\ disk' = disk
    BY <2>2 DEF Popped, Sent
  <2>4. req'[r].state = "idle" /\ \A q \in Requests : q # r => req'[q] = req[q]
    BY <2>3, RequestTypes DEF Unused
  <2>5. Waiting \subseteq {r} /\ Waiting' = {}
    <3>1. pc' = "idle"
      BY <2>2 DEF Popped
    <3>2. pc = "spin" => current = r
      BY <2>2 DEF QueueInv, DriverAt
    <3> QED BY <3>1, <3>2 DEF Waiting
  <2>6. Disk!Complete(r) /\ Disk!Others(r)
    BY <2>3, <2>4, <2>5 DEF Disk!Complete, Disk!Others
  <2> QED BY <2>3, <2>6 DEF Disk!DiskNext
<1>6. CASE DeviceTake
  BY <1>6 DEF DeviceTake, driverVars, Waiting
<1>7. CASE Spin
  BY <1>7 DEF Spin, vars, Waiting
<1> QED BY <1>1, <1>3, <1>4, <1>5, <1>6, <1>7, ServeIsEffect DEF Next

(* For any queue size, wrap and number of requests, the driver with its     *)
(* queue serves every request once, between its call and its completion,    *)
(* on its own buffer and status; a request whose call waits (read_block,    *)
(* write_block) with its own type and sector.  Of a request whose call has  *)
(* returned no more is true: its header is a local of read_block_nb or      *)
(* write_block_nb, and the disk may read it after the return.               *)
THEOREM DiskRefinement == Spec => ImplementsDisk
<1>1. Init => Disk!DiskInit
  BY DEF Init, Unused, Waiting, Disk!DiskInit
<1>2. QueueInv /\ [Next]_vars => [Disk!DiskNext]_(Disk!diskVars)
  BY StepIsDiskStep
<1> QED BY <1>1, <1>2, QueueInvariance, PTL DEF Spec, ImplementsDisk, Disk!DiskSpec

=============================================================================
