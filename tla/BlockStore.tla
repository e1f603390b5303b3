----------------------------- MODULE BlockStore -----------------------------
(***************************************************************************)
(* What the block cache promises to the file system: a store of blocks     *)
(* where a read sees the last write, and a durable copy that lags behind.  *)
(* Any block may become durable at any time; a crash falls back to the     *)
(* durable copy.                                                           *)
(***************************************************************************)
CONSTANTS Block, Data, NoReply, Crashed

VARIABLES store,   \* the content programs see
          durable, \* the content that survives a crash
          reply    \* the access just made: <<"read" or "write", block, data>>

storeVars == <<store, durable, reply>>

StoreInit ==
    /\ store \in [Block -> Data]
    /\ durable = store
    /\ reply = NoReply

Read(b) ==
    /\ reply' = <<"read", b, store[b]>>
    /\ UNCHANGED <<store, durable>>

Write(b, d) ==
    /\ store' = [store EXCEPT ![b] = d]
    /\ reply' = <<"write", b, d>>
    /\ UNCHANGED durable

(* One block reaches the device; or an operation without visible effect     *)
(* takes place.                                                             *)
WriteBack ==
    /\ \/ UNCHANGED durable
       \/ \E b \in Block : durable' = [durable EXCEPT ![b] = store[b]]
    /\ reply' = NoReply
    /\ UNCHANGED store

Crash ==
    /\ store' = durable
    /\ reply' = Crashed
    /\ UNCHANGED durable

StoreNext ==
    \/ \E b \in Block : Read(b) \/ \E d \in Data : Write(b, d)
    \/ WriteBack
    \/ Crash

StoreSpec == StoreInit /\ [][StoreNext]_storeVars

=============================================================================
