---------------------------- MODULE DiskRequests ----------------------------
(***************************************************************************)
(* What a disk driver promises: a request is made, takes effect at one     *)
(* moment while it is in flight, and completes.  Requests in flight may    *)
(* take effect in any order.  A request whose call waits for the answer    *)
(* has the effect that was asked for.  For one whose call returns at once  *)
(* less is promised: it moves at most one sector, any one, between the     *)
(* disk and its own buffer, in the direction that was asked for.           *)
(***************************************************************************)
CONSTANTS Requests, Sectors, Values, None

VARIABLES req, \* [state, type, sector, data, status] of every request
          disk,
          waiting \* the requests whose call waits for the answer

diskVars == <<req, disk, waiting>>

DiskInit ==
    /\ \A r \in Requests : req[r].state = "idle"
    /\ disk \in [Sectors -> Values]
    /\ waiting = {}

Others(r) == \A s \in Requests \ {r} : req'[s] = req[s]

Call(r) ==
    /\ req[r].state = "idle" /\ req'[r].state = "sent"
    /\ req'[r].status = "NotReady"
    /\ UNCHANGED <<disk, waiting>>

(* The caller of r waits from now on.                                       *)
Wait(r) ==
    /\ req[r].state = "sent" /\ req[r].status = "NotReady"
    /\ waiting' = waiting \cup {r}
    /\ UNCHANGED <<req, disk>>

(* The effect, once: a read gets a sector, a write sets one; or it fails;   *)
(* or, if nobody waits, nothing is moved.                                   *)
Effect(r) ==
    /\ req[r].state = "sent" /\ req[r].status = "NotReady"
    /\ \/ \E s \in Sectors :
             /\ r \in waiting => s = req[r].sector
             /\ \/ /\ req[r].type = "In"
                   /\ req' = [req EXCEPT ![r].status = "Ok", ![r].data = disk[s]]
                   /\ UNCHANGED disk
                \/ /\ req[r].type = "Out"
                   /\ req' = [req EXCEPT ![r].status = "Ok"]
                   /\ disk' = [disk EXCEPT ![s] = req[r].data]
       \/ /\ req' = [req EXCEPT ![r].status = "IoErr"]
          /\ UNCHANGED disk
       \/ /\ r \notin waiting
          /\ req' = [req EXCEPT ![r].status = "Ok"]
          /\ UNCHANGED disk
    /\ UNCHANGED waiting

(* The caller has the answer.                                               *)
Complete(r) ==
    /\ req[r].state = "sent" /\ req[r].status # "NotReady"
    /\ req'[r].state = "idle"
    /\ waiting' = waiting \ {r}
    /\ UNCHANGED disk

DiskNext == \E r \in Requests :
                /\ Others(r)
                /\ Call(r) \/ Wait(r) \/ Effect(r) \/ Complete(r)

DiskSpec == DiskInit /\ [][DiskNext]_diskVars

=============================================================================
