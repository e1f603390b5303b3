----------------------------- MODULE OpenFiles -----------------------------
(***************************************************************************)
(* What the file system calls promise to a process: its descriptors name   *)
(* open files, an open file has one offset that every descriptor copied    *)
(* from it moves, and a read or a write is ONE transfer of consecutive     *)
(* bytes at that offset, wherever the caller's buffer lies in memory.      *)
(***************************************************************************)
EXTENDS Integers, Sequences

CONSTANTS Tasks, Names, Bytes, InitTask, InitFiles, Std

VARIABLES content, \* the bytes of every existing file
          open,    \* the open files: [readable, writable, offset, inode]
          fds,     \* fds[t]: the descriptors of process t, a partial function
          reply    \* the call just made and its answer

openVars == <<content, open, fds, reply>>

FS == INSTANCE FileStore WITH Writes <- {}, Reads <- {},
          dir <- [n \in DOMAIN content |-> n]

OpenInit ==
    /\ content = InitFiles
    /\ open = [f \in {} |-> 0]
    /\ fds = [t \in {InitTask} |-> Std]
    /\ reply.op = "none"

(* The open files that descriptors still name.                              *)
Named(d) == UNION {{d[t][n] : n \in DOMAIN d[t]} : t \in DOMAIN d}

Kept(o, d) == [f \in DOMAIN o \cap Named(d) |-> o[f]]

Changed(f, x, v) == [y \in DOMAIN f \cup {x} |-> IF y = x THEN v ELSE f[y]]

(* n is the lowest number that is not in use.                               *)
Lowest(t, n) == n \in Nat \ DOMAIN fds[t] /\ 0 .. n - 1 \subseteq DOMAIN fds[t]

(* A new open file at offset 0; CREATE and TRUNC empty an existing file,    *)
(* CREATE makes a missing one.                                              *)
Open(t) ==
    LET n == reply'.name
        emptied == {"CREATE", "TRUNC"} \cap reply'.flags # {}
    IN  /\ reply'.op = "open"
        /\ IF n \in DOMAIN content \/ "CREATE" \in reply'.flags
           THEN \E f \in DOMAIN open' \ DOMAIN open :
                  /\ Lowest(t, reply'.res)
                  /\ fds' = [fds EXCEPT ![t] = Changed(@, reply'.res, f)]
                  /\ open' = Changed(open, f,
                       [readable |-> "WRONLY" \notin reply'.flags,
                        writable |-> reply'.flags # {},
                        offset |-> 0, inode |-> n])
                  /\ content' = IF emptied THEN Changed(content, n, <<>>) ELSE content
           ELSE /\ reply'.res = -1
                /\ UNCHANGED <<content, open, fds>>

Close(t) ==
    /\ reply'.op = "close"
    /\ IF reply'.fd \in DOMAIN fds[t]
       THEN /\ reply'.res = 0
            /\ fds' = [fds EXCEPT ![t] =
                         [n \in DOMAIN @ \ {reply'.fd} |-> @[n]]]
            /\ open' = Kept(open, fds')
            /\ UNCHANGED content
       ELSE reply'.res = -1 /\ UNCHANGED <<content, open, fds>>

(* The bytes from the offset on fill the buffer from its start.             *)
Read(t) ==
    LET f    == fds[t][reply'.fd]
        s    == content[open[f].inode]
        end  == open[f].offset + reply'.len
        data == SubSeq(s, open[f].offset + 1, IF end > Len(s) THEN Len(s) ELSE end)
    IN  /\ reply'.op = "read"
        /\ UNCHANGED <<content, fds>>
        /\ IF /\ reply'.fd \in DOMAIN fds[t] /\ f \in DOMAIN open
              /\ open[f].readable
           THEN /\ reply'.res = Len(data)
                /\ reply'.data = data \o [i \in 1 .. reply'.len - Len(data) |-> 0]
                /\ open' = [open EXCEPT ![f].offset = @ + Len(data)]
           ELSE UNCHANGED open

(* The buffer replaces the bytes at the offset.                             *)
Write(t) ==
    LET f == fds[t][reply'.fd]
    IN  /\ reply'.op = "write"
        /\ UNCHANGED fds
        /\ IF /\ reply'.fd \in DOMAIN fds[t] /\ f \in DOMAIN open
              /\ open[f].writable
           THEN /\ reply'.res = reply'.len
                /\ content' = IF reply'.data = <<>> THEN content
                              ELSE [content EXCEPT ![open[f].inode] =
                                      FS!Overwritten(@, open[f].offset, reply'.data)]
                /\ open' = [open EXCEPT ![f].offset = @ + reply'.len]
           ELSE UNCHANGED <<content, open>>

(* The child's descriptors name the parent's open files.                    *)
Fork(t) ==
    /\ reply'.op = "fork"
    /\ reply'.res \in Tasks \ DOMAIN fds
    /\ fds' = Changed(fds, reply'.res, fds[t])
    /\ UNCHANGED <<content, open>>

(* A new program gets the whole file and keeps the descriptors.             *)
Exec(t) ==
    /\ reply'.op = "exec"
    /\ IF reply'.name \in DOMAIN content
       THEN reply'.data = content[reply'.name]
       ELSE reply'.res = -1
    /\ UNCHANGED <<content, open, fds>>

(* A dead process is collected, and its descriptors with it.                *)
Collect(t) ==
    /\ reply'.op = "wait"
    /\ fds' = [p \in DOMAIN fds \ {t} |-> fds[p]]
    /\ open' = Kept(open, fds')
    /\ UNCHANGED content

(* Keys, exits and a kernel that stops leave every open file alone.         *)
Other ==
    /\ reply'.op \in {"type", "exit", "block", "panic"}
    /\ UNCHANGED <<content, open, fds>>

OpenNext ==
    \/ \E t \in DOMAIN fds :
          /\ reply'.task = t
          /\ \/ Open(t) \/ Close(t) \/ Read(t) \/ Write(t)
             \/ Fork(t) \/ Exec(t) \/ Collect(t)
    \/ Other

OpenSpec == OpenInit /\ [][OpenNext]_openVars

=============================================================================
