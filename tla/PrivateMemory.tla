--------------------------- MODULE PrivateMemory ---------------------------
(***************************************************************************)
(* What the kernel promises a program about its memory: an image of its    *)
(* own, from pages to values, that only its own stores and its own exec    *)
(* change, and that fork copies.  a0 is the register that answers a fork.  *)
(***************************************************************************)
EXTENDS Integers, Sequences

CONSTANTS USER_STACK_PAGES, Pids, Programs, InitProgram, Values

VARIABLES alive, image, a0

privateVars == <<alive, image, a0>>

(* The image of a program: its segments, and an empty stack behind them     *)
(* and a guard page.                                                        *)
Loaded(program) ==
    LET last  == program[Len(program)]
        stack == last.start + Len(last.data) + 1
        pages(seg) == seg.start .. seg.start + Len(seg.data) - 1
        stackPages == stack .. stack + USER_STACK_PAGES - 1
        inSeg(vpn) == {k \in DOMAIN program : vpn \in pages(program[k])}
    IN  [vpn \in (UNION {pages(program[k]) : k \in DOMAIN program}) \cup stackPages |->
           IF vpn \in stackPages THEN 0
           ELSE LET seg == program[CHOOSE k \in inSeg(vpn) : TRUE]
                IN  seg.data[vpn - seg.start + 1]]

Without(f, t) == [u \in DOMAIN f \ {t} |-> f[u]]

With(f, t, x) == [u \in DOMAIN f \cup {t} |-> IF u = t THEN x ELSE f[u]]

PrivateInit ==
    /\ alive = {0}
    /\ image = [t \in {0} |-> Loaded(InitProgram)]
    /\ a0 = [t \in {0} |-> 0]

Fork(t, c) ==
    /\ c \notin alive
    /\ alive' = alive \cup {c}
    /\ image' = With(image, c, image[t])
    /\ a0' = With(With(a0, t, c), c, 0)

Exec(t, program) ==
    /\ image' = With(image, t, Loaded(program))
    /\ a0' = With(a0, t, 0)
    /\ UNCHANGED alive

Exit(t) ==
    /\ alive' = alive \ {t}
    /\ image' = Without(image, t)
    /\ a0' = Without(a0, t)

Store(t, vpn, v) ==
    /\ image' = [image EXCEPT ![t][vpn] = v]
    /\ UNCHANGED <<alive, a0>>

PrivateNext ==
    \E t \in alive :
        \/ \E c \in Pids : Fork(t, c)
        \/ \E program \in Programs : Exec(t, program)
        \/ Exit(t)
        \/ \E vpn \in DOMAIN image[t], v \in Values : Store(t, vpn, v)

PrivateSpec == PrivateInit /\ [][PrivateNext]_privateVars

=============================================================================
