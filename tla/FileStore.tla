----------------------------- MODULE FileStore -----------------------------
(***************************************************************************)
(* What easy-fs promises to the kernel: a directory from names to file     *)
(* handles, and for each handle a sequence of words.  A write behind the   *)
(* end fills the gap with zeros.  reply is the operation just made and its *)
(* answer.                                                                 *)
(***************************************************************************)
EXTENDS Integers, Sequences

CONSTANTS Names, Writes, Reads

VARIABLES dir,     \* the handle of every existing name
          content, \* the words of every file
          reply    \* [op, on, off, data, res]

storeVars == <<dir, content, reply>>

Answer(op, on, off, data, res) ==
    [op |-> op, on |-> on, off |-> off, data |-> data, res |-> res]

StoreInit ==
    /\ dir = [n \in {} |-> 0]
    /\ content = [h \in {} |-> <<>>]
    /\ reply = Answer("none", 0, 0, <<>>, 0)

(* A new name gets an empty file under a handle no file has.                *)
Create(n) ==
    LET h == reply'.res
    IN  \/ /\ reply' = Answer("create", n, 0, <<>>, h)
           /\ n \notin DOMAIN dir /\ h \in Nat \ DOMAIN content
           /\ dir' = [m \in DOMAIN dir \cup {n} |-> IF m = n THEN h ELSE dir[m]]
           /\ content' = [g \in DOMAIN content \cup {h} |->
                            IF g = h THEN <<>> ELSE content[g]]
        \/ /\ reply' = Answer("create", n, 0, <<>>, -1)
           /\ n \in DOMAIN dir
           /\ UNCHANGED <<dir, content>>

Find(n) ==
    /\ reply' = Answer("find", n, 0, <<>>, IF n \in DOMAIN dir THEN dir[n] ELSE -1)
    /\ UNCHANGED <<dir, content>>

(* The words after data is written at off.                                  *)
Overwritten(s, off, data) ==
    LET zeros == [i \in 1 .. off - Len(s) |-> 0]
        tail  == off + Len(data) + 1
    IN  SubSeq(s \o zeros, 1, off) \o data \o SubSeq(s, tail, Len(s))

Write(h, w) ==
    /\ reply' = Answer("write", h, w.off, w.data, Len(w.data))
    /\ content' = [content EXCEPT ![h] = Overwritten(@, w.off, w.data)]
    /\ UNCHANGED dir

Read(h, r) ==
    LET end  == IF r.off + r.len > Len(content[h]) THEN Len(content[h])
                                                   ELSE r.off + r.len
        data == SubSeq(content[h], r.off + 1, end)
    IN  /\ reply' = Answer("read", h, r.off, data, Len(data))
        /\ UNCHANGED <<dir, content>>

Clear(h) ==
    /\ reply' = Answer("clear", h, 0, <<>>, 0)
    /\ content' = [content EXCEPT ![h] = <<>>]
    /\ UNCHANGED dir

List ==
    /\ reply' = Answer("ls", 0, 0, reply'.data, 0)
    /\ {reply'.data[i] : i \in DOMAIN reply'.data} = DOMAIN dir
    /\ UNCHANGED <<dir, content>>

(* Mounting again changes nothing; running out of space stops the system.   *)
RemountOrStop ==
    /\ \E op \in {"open", "panic"} : reply' = Answer(op, 0, 0, <<>>, 0)
    /\ UNCHANGED <<dir, content>>

StoreNext ==
    \/ \E n \in Names : Create(n) \/ Find(n)
    \/ \E h \in DOMAIN content :
          \/ \E w \in Writes : Write(h, w)
          \/ \E r \in Reads : Read(h, r)
          \/ Clear(h)
    \/ List
    \/ RemountOrStop

StoreSpec == StoreInit /\ [][StoreNext]_storeVars

=============================================================================
