----------------------------- MODULE VirtQueue -----------------------------
(***************************************************************************)
(* The queue between the kernel and the virtio disk                        *)
(* (dependency/virtio-drivers: queue.rs, blk.rs; os: virtio_blk.rs).  A    *)
(* request is a chain of three descriptors: header, data and status.  The  *)
(* driver fills the chain, puts its head into the available ring and then  *)
(* publishes the ring's index; the disk (external) takes heads, serves     *)
(* them in any order and returns them in the used ring.  Driver and disk   *)
(* run concurrently: the disk may look between any two steps of the driver.*)
(*                                                                         *)
(* Indices are 16-bit counters that wrap; here they wrap at WRAP.  Ring    *)
(* entries that were consumed and the addresses of free descriptors are    *)
(* overwritten with None: the code leaves them as they are and must never  *)
(* read them again, so a read of one shows.                                *)
(***************************************************************************)
EXTENDS Integers, Sequences, FiniteSets, SequencesExt

CONSTANTS
    queue_size,
    WRAP,       \* 2^16, a multiple of queue_size
    Requests,   \* the callers' requests (what is asked for, buffer, BlkResp)
    Sectors,
    Values,
    None        \* no value

ASSUME VirtQueueAssumption ==
    /\ queue_size \in Nat \ {0} /\ WRAP \in Nat
    /\ WRAP >= queue_size /\ WRAP % queue_size = 0
    /\ None \notin Requests \cup Values

VARIABLES
    desc,          \* the descriptor table
    avail,         \* [ring, idx], written by the driver
    used,          \* [ring, idx], written by the disk
    num_used, free_head, avail_idx, last_used_idx,
    pc,            \* the driver: "idle", "filled" (publish next) or "spin"
    current,       \* the request the driver works on
    req,           \* the callers' memory: req[r]
    disk,          \* content of the sectors
    dev_idx,       \* the disk has taken the available ring up to here ...
    taken          \* ... and works on these heads

driverVars == <<desc, num_used, free_head, avail_idx, last_used_idx, pc, current>>

vars == <<desc, avail, used, num_used, free_head, avail_idx, last_used_idx, pc,
          current, req, disk, dev_idx, taken>>

Slots == 0 .. queue_size - 1

Slot(i) == i % queue_size

(* wrapping_add(1)                                                          *)
Incremented(i) == (i + 1) % WRAP

Buffer == {"header", "data", "status"}

(* A request record before it is filled; BlkResp::default is NotReady.      *)
Unused == [state |-> "idle", type |-> "In", sector |-> None, data |-> None,
           status |-> "NotReady", token |-> None]

(* VirtQueue::new links the descriptors; the last one's link stays 0.       *)
Init ==
    /\ desc = [i \in Slots |-> [of |-> None, buf |-> "header", flags |-> {},
                                next |-> (i + 1) % queue_size]]
    /\ avail = [ring |-> [i \in Slots |-> None], idx |-> 0]
    /\ used = [ring |-> [i \in Slots |-> None], idx |-> 0]
    /\ num_used = 0 /\ free_head = 0 /\ avail_idx = 0 /\ last_used_idx = 0
    /\ pc = "idle"
    /\ current = None
    /\ req = [r \in Requests |-> Unused]
    /\ disk \in [Sectors -> Values]
    /\ dev_idx = 0
    /\ taken = {}

-----------------------------------------------------------------------------
(* The n descriptors of the list that starts at i.                          *)
Linked(i, n) ==
    LET d[k \in 1 .. n] == IF k = 1 THEN i ELSE desc[d[k - 1]].next
    IN  d

(* The last descriptor of the chain from head on is the first without NEXT. *)
ChainLength(head) ==
    Min({n \in 1 .. queue_size :
            n = queue_size \/ "NEXT" \notin desc[Linked(head, n)[n]].flags})

(* The descriptors a flag says follow one another, from head on.            *)
Chain(head) == Linked(head, ChainLength(head))

(* The buffers of a request in the order add takes them: what the disk      *)
(* reads, then what it writes.                                              *)
Buffers(type) == <<"header", "data", "status">>

(* Mutant: the buffer of a read is not marked.                              *)
StatusWritten(type) == {"status"}

(* The outputs, which the disk may write.                                   *)
DeviceWrites(type) == IF type = "In" THEN {"data", "status"} ELSE {"status"}

(* Mutant: one descriptor too many is handed out.                           *)
HasRoomOneMore(n) == n + num_used <= queue_size + 1

HasRoom(n) == n + num_used <= queue_size

(* A call of read_block, write_block or their _nb forms: BlkReq, a local of *)
(* the call, says what req[r] says; then VirtQueue::add up to its barrier:  *)
(* descriptors from the free list, the last one without NEXT, the head in   *)
(* the ring.  Without room the caller gets an error and nothing changes.    *)
Add(r, type, sector, data) ==
    LET list == Linked(free_head, 3)
        place(d) == CHOOSE k \in 1 .. 3 : list[k] = d
    IN  /\ pc = "idle"
        /\ req[r].state = "idle"
        /\ HasRoom(3)
        /\ req' = [req EXCEPT ![r] = [state |-> "sent", type |-> type, sector |-> sector,
                                      data |-> data, status |-> "NotReady",
                                      token |-> free_head]]
        /\ desc' = [d \in Slots |->
             IF \A k \in 1 .. 3 : list[k] # d THEN desc[d]
             ELSE [of |-> r, buf |-> Buffers(type)[place(d)], next |-> desc[d].next,
                   flags |-> (IF place(d) < 3 THEN {"NEXT"} ELSE {})
                               \cup (IF Buffers(type)[place(d)] \in DeviceWrites(type)
                                     THEN {"WRITE"} ELSE {})]]
        /\ free_head' = desc[list[3]].next
        /\ num_used' = num_used + 3
        /\ avail' = [avail EXCEPT !.ring[Slot(avail_idx)] = free_head]
        /\ pc' = "filled"
        /\ current' = r
        /\ UNCHANGED <<used, avail_idx, last_used_idx, disk, dev_idx, taken>>

(* The requests in flight.                                                  *)
Sent == {r \in Requests : req[r].state = "sent"}

(* The rest of add, and the notification.  read_block_nb and write_block_nb *)
(* return, and with them ends the life of BlkReq, whose address is in the   *)
(* chain (current' = None: see HeaderSeen); read_block and write_block,     *)
(* which take the first answer for theirs and are made only while nothing   *)
(* else is in flight, wait.                                                 *)
Publish(blocking) ==
    /\ pc = "filled"
    /\ blocking => Sent = {current}
    /\ avail_idx' = Incremented(avail_idx)
    /\ avail' = [avail EXCEPT !.idx = Incremented(avail_idx)]
    /\ pc' = IF blocking THEN "spin" ELSE "idle"
    /\ current' = IF blocking THEN current ELSE None
    /\ UNCHANGED <<desc, used, num_used, free_head, last_used_idx, req, disk,
                   dev_idx, taken>>

(* Mutant: the indices are compared as if they never wrapped.               *)
CanPopGreater == last_used_idx < used.idx

CanPop == last_used_idx # used.idx

(* A blocking call looks again.                                             *)
Spin == pc = "spin" /\ ~CanPop /\ UNCHANGED vars

(* Mutant: the freed chain is not linked to the rest of the free list.      *)
RecycledUnlinked(head) ==
    [d \in Slots |->
       [desc[d] EXCEPT !.of = IF d \in ToSet(Chain(head)) THEN None ELSE @]]

(* recycle_descriptors: the last descriptor of the chain links to the old   *)
(* free list.                                                               *)
Recycled(head) ==
    [d \in Slots |->
       [desc[d] EXCEPT !.next = IF d = Last(Chain(head)) THEN free_head ELSE @,
                       !.of = IF d \in ToSet(Chain(head)) THEN None ELSE @]]

(* VirtQueue::pop_used, for a blocking call at the end of its spin or for   *)
(* VirtIOBlk::pop_used, which tells the caller the token.  The caller looks *)
(* at status and data, and may use its memory again.                        *)
PopUsed ==
    LET head == used.ring[Slot(last_used_idx)]
        r    == IF pc = "spin" THEN current
                ELSE CHOOSE x \in Requests : req[x].state = "sent" /\ req[x].token = head
    IN  /\ pc \in {"idle", "spin"}
        /\ CanPop
        /\ desc' = Recycled(head)
        /\ free_head' = head
        /\ num_used' = num_used - Len(Chain(head))
        /\ last_used_idx' = Incremented(last_used_idx)
        /\ req' = [req EXCEPT ![r] = Unused]
        /\ pc' = "idle"
        /\ current' = None
        /\ used' = [used EXCEPT !.ring[Slot(last_used_idx)] = None]
        /\ UNCHANGED <<avail, avail_idx, disk, dev_idx, taken>>

-----------------------------------------------------------------------------
(* The disk (external).  It takes the next head from the available ring.    *)
DeviceTake ==
    /\ dev_idx # avail.idx
    /\ dev_idx' = Incremented(dev_idx)
    /\ taken' = taken \cup {avail.ring[Slot(dev_idx)]}
    /\ avail' = [avail EXCEPT !.ring[Slot(dev_idx)] = None]
    /\ UNCHANGED <<driverVars, used, req, disk>>

(* The headers it can find: reads, writes, and what moves no data.          *)
Headers == [type : {"In", "Out", "Flush"}, sector : Sectors]

(* What is where the header of r was: BlkReq is on the stack of the call.   *)
(* While the call runs it is what the call filled in; once a call that does *)
(* not wait has returned, the stack is used again and anything can be there.*)
HeaderSeen(r) ==
    IF current = r THEN {[type |-> req[r].type, sector |-> req[r].sector]} ELSE Headers

(* It serves the chain at one of the heads it took: it reads a header h     *)
(* where the first descriptor points to, moves data into a buffer it may    *)
(* write or out of one it may read, stores a status where it may write, and *)
(* returns the head in the used ring.                                       *)
DeviceServe(head, ok, h) ==
    LET chain  == Chain(head)
        d      == desc[chain[2]].of
        s      == desc[chain[3]].of
        writes(k) == "WRITE" \in desc[chain[k]].flags
        moved  == IF ok /\ h.type = "In" /\ writes(2)
                  THEN [req EXCEPT ![d].data = disk[h.sector]] ELSE req
    IN  /\ head \in taken
        /\ Len(chain) = 3
        /\ h \in HeaderSeen(desc[chain[1]].of)
        /\ taken' = taken \ {head}
        /\ disk' = IF ok /\ h.type = "Out" /\ ~writes(2)
                   THEN [disk EXCEPT ![h.sector] = req[d].data] ELSE disk
        /\ req' = IF writes(3)
                  THEN [moved EXCEPT ![s].status = IF ok THEN "Ok" ELSE "IoErr"]
                  ELSE moved
        /\ used' = [ring |-> [used.ring EXCEPT ![Slot(used.idx)] = head],
                    idx |-> Incremented(used.idx)]
        /\ UNCHANGED <<driverVars, avail, dev_idx>>

-----------------------------------------------------------------------------
Submit(r) ==
    \E sector \in Sectors :
       \/ Add(r, "In", sector, None)
       \/ \E v \in Values : Add(r, "Out", sector, v)

Next ==
    \/ \E r \in Requests : Submit(r)
    \/ \E blocking \in BOOLEAN : Publish(blocking)
    \/ Spin \/ PopUsed
    \/ DeviceTake
    \/ \E head \in Slots, ok \in BOOLEAN, h \in Headers : DeviceServe(head, ok, h)

Spec == Init /\ [][Next]_vars

-----------------------------------------------------------------------------
TypeOK ==
    /\ desc \in [Slots -> [of : Requests \cup {None}, buf : Buffer,
                           flags : SUBSET {"NEXT", "WRITE"}, next : Slots]]
    /\ avail \in [ring : [Slots -> Slots \cup {None}], idx : 0 .. WRAP - 1]
    /\ used \in [ring : [Slots -> Slots \cup {None}], idx : 0 .. WRAP - 1]
    /\ num_used \in 0 .. queue_size /\ free_head \in Slots
    /\ {avail_idx, last_used_idx, dev_idx} \subseteq 0 .. WRAP - 1
    /\ pc \in {"idle", "filled", "spin"} /\ current \in Requests \cup {None}
    /\ req \in [Requests -> [state : {"idle", "sent"}, type : {"In", "Out"},
                             sector : Sectors \cup {None}, data : Values \cup {None},
                             status : {"NotReady", "Ok", "IoErr"}, token : Slots \cup {None}]]
    /\ disk \in [Sectors -> Values] /\ taken \subseteq Slots

(* The requests in flight and the free list share the descriptors out: no   *)
(* descriptor is in two chains or in a chain and free, and none is lost,    *)
(* through any order of completions (add, recycle_descriptors).             *)
DescriptorsConserved ==
    LET free == IF num_used = queue_size THEN {}
                ELSE ToSet(Linked(free_head, queue_size - num_used))
        inUse(r) == ToSet(Chain(req[r].token))
    IN  /\ num_used = 3 * Cardinality(Sent)
        /\ Cardinality(free) = queue_size - num_used
        /\ \A r \in Sent : Cardinality(inUse(r)) = 3 /\ inUse(r) \cap free = {}
        /\ \A r, s \in Sent : r # s => inUse(r) \cap inUse(s) = {}

(* The queue is consistent: indices in range, descriptors neither lost nor  *)
(* handed out twice (add, recycle_descriptors).                             *)
QueueConsistent == TypeOK /\ DescriptorsConserved

(* Every head the disk can see, published or taken, leads to the complete   *)
(* chain of one request in flight: nothing is visible before it is written, *)
(* and no ring entry is overwritten before it is read, also where the       *)
(* indices wrap.                                                            *)
DiskSeesWholeRequests ==
    LET ahead == {i \in 0 .. WRAP - 1 :
                    (i - dev_idx) % WRAP < (avail.idx - dev_idx) % WRAP}
        whole(head) == \E r \in Sent :
            /\ req[r].token = head /\ Len(Chain(head)) = 3
            /\ \A k \in 1 .. 3 :
                 /\ desc[Chain(head)[k]].of = r
                 /\ desc[Chain(head)[k]].buf = Buffers(req[r].type)[k]
                 /\ ("WRITE" \in desc[Chain(head)[k]].flags)
                      = (desc[Chain(head)[k]].buf \in DeviceWrites(req[r].type))
    IN  \A head \in taken \cup {avail.ring[Slot(i)] : i \in ahead} : whole(head)

(* The calls that wait for their answer.                                    *)
Waiting == IF pc = "spin" THEN {current} ELSE {}

Disk == INSTANCE DiskRequests WITH waiting <- Waiting

(* The queue behaves like a disk that serves every request once, between    *)
(* its call and its completion, and with the request's own buffer and       *)
(* status only.  A request whose call waits (read_block and write_block,    *)
(* all that the kernel uses) is served with its own type and sector.  One   *)
(* whose call has returned (read_block_nb, write_block_nb) may be served    *)
(* with any: its header is a local of the call that returned.               *)
ImplementsDisk == Disk!DiskSpec

(* A blocking call whose request the disk has answered stops spinning: it   *)
(* waits for nothing but the disk, however often the indices wrap           *)
(* (can_pop, the spin of read_block and write_block).                       *)
SpinSeesAnswer ==
    pc = "spin" /\ dev_idx = avail.idx /\ taken = {} => CanPop

=============================================================================
