---------------------------- MODULE SdCardProofs ----------------------------
(***************************************************************************)
(* Theorems about SdCard, for any number of sectors, any lengths of calls   *)
(* and any limits of the loops: a call that says Ok has done its work, and  *)
(* leaves a card that the next call can use.                                *)
(***************************************************************************)
EXTENDS SdCard, SequenceTheorems, TLAPS

(* The commands before the one that says that the card is initialised.      *)
InitSteps == {"CMD0", "CMD8", "CMD55", "ACMD41"}

Registers == {"CMD9", "CMD10"}

Transfers == {"CMD17", "CMD18", "CMD24", "CMD25", "ACMD23"}

Steps == InitSteps \cup Registers \cup Transfers \cup {"CMD58", "CMD12"}

Phases == {"standby", "answer", "token", "data", "receive", "respond", "program"}

Cards == [phase : Phases, mode : {"off", "idle", "ready"}, cmd : Steps \cup {"none"},
          pos : Nat, block : Values \cup {None}]

(* The types of everything, the card included.                              *)
Typed ==
    /\ at \in {"boot", "get_response", "answered", "block", "send", "get_dataresponse",
               "wait", "returned", "idle", "panic"}
    /\ step \in Steps \cup {"none", "token"}
    /\ answer \in {"FF", "00", "01", "FE", "05", "error"}
    /\ timeout \in 1 .. TIMEOUT
    /\ index \in 0 .. RETRIES
    /\ call \in [op : {"init", "CMD9", "CMD10", "read", "write"}, sector : Nat, len : Nat]
    /\ chunk \in 0 .. call.len
    /\ buf \in [1 .. call.len -> Values \cup {None}]
    /\ failed \in BOOLEAN
    /\ result \in {"none", "Ok", "Err"}
    /\ cs \in {"high", "low"}
    /\ card \in Cards
    /\ store \in [Sectors -> Values]

Waiting == at \in {"get_response", "answered"}

(* The driver is where its call leads it, and the loops of init have rounds *)
(* left; a call is for sectors that exist.                                  *)
CallInStep ==
    /\ call.op \in {"read", "write"} =>
          call.len > 0 /\ \A k \in 1 .. call.len : call.sector + k - 1 \in Sectors
    /\ call.op \notin {"read", "write"} => call.len = 0
    /\ call.op = "write" => \A k \in 1 .. call.len : buf[k] \in Values
    /\ at = "boot" => call.op = "init"
    /\ Waiting =>
          /\ step # "none"
          /\ step \in InitSteps \cup {"CMD58"} \cup Registers => call.op \notin {"read", "write"}
          /\ step \in {"CMD55", "ACMD41", "CMD58"} => index > 0
          /\ step \in {"CMD17", "CMD18", "CMD12"} =>
                call.op = "read" /\ (step = "CMD17" <=> call.len = 1)
          /\ step \in {"CMD24", "ACMD23", "CMD25"} =>
                call.op = "write" /\ (step = "CMD24" <=> call.len = 1) /\ chunk = 0
          /\ step \in {"CMD17", "CMD18"} => chunk = 0
          /\ step = "token" => call.op \in {"CMD9", "CMD10", "read"}
          /\ step = "token" /\ call.op = "read" => chunk < call.len
          /\ step = "CMD12" /\ ~failed => chunk = call.len
    /\ at = "block" => call.op \in {"CMD9", "CMD10", "read"}
    /\ at \in {"send", "get_dataresponse", "wait"} => call.op = "write"
    /\ at \in {"block", "send", "get_dataresponse", "wait"} /\ call.op \in {"read", "write"} =>
          chunk < call.len

(* The command that the card works on when it transfers blocks.             *)
Transfer ==
    CASE call.op = "read"  -> IF call.len = 1 THEN "CMD17" ELSE "CMD18"
      [] call.op = "write" -> IF call.len = 1 THEN "CMD24" ELSE "CMD25"
      [] OTHER -> call.op

(* The card works on the block the driver is at.                            *)
AtBlock ==
    /\ card.cmd = Transfer
    /\ call.op \in {"read", "write"} => card.pos = call.sector + chunk

(* A card that may be found between two calls: behind a call for several    *)
(* sectors the answer to CMD12, or the end of CMD25, may be missing.        *)
Resting ==
    \/ card.phase = "standby"
    \/ card.phase = "answer" /\ card.cmd = "CMD12"
    \/ card.phase = "receive"

(* What the card may be doing while the driver polls for, or has, the       *)
(* answer to a command.                                                     *)
CardAnswers ==
    /\ step \in InitSteps \cup {"CMD58"} =>
          \/ card.phase = "standby"
          \/ card.phase = "answer" /\ card.cmd \in InitSteps \cup {"CMD58"}
                                   /\ (card.cmd = "CMD0" <=> step = "CMD0")
    /\ step \in Registers =>
          \/ card.phase = "standby"
          \/ card.phase \in {"answer", "token"} /\ card.cmd = step
    /\ step \in Transfers =>
          \/ Resting
          \/ card.phase = "answer" /\ card.cmd = step /\ card.pos = call.sector
          \/ card.phase = "answer" /\ card.cmd = "ACMD23" /\ step = "CMD25"
          \/ /\ card.phase = "token" /\ step \in {"CMD17", "CMD18"}
             /\ card.cmd = step /\ card.pos = call.sector
    /\ step = "CMD12" => card.phase = "standby" \/ (card.phase = "answer" /\ card.cmd = "CMD12")
    /\ step = "token" => \/ card.phase = "standby"
                         \/ card.phase \in {"token", "data"} /\ AtBlock

(* What the answer says about the card.                                     *)
CardAnswered ==
    /\ answer \in {"00", "01"} =>
          /\ card.phase \in {"standby", "token", "receive"}
          /\ card.phase = "receive" => /\ step \in {"CMD24", "CMD25"}
                                       /\ card.cmd = step /\ card.pos = call.sector
    /\ answer = "00" => card.mode = "ready"
    /\ step = "token" => (answer = "FE" <=> card.phase = "data")
    /\ step # "token" => answer # "FE"

(* Driver and card are in step.                                             *)
CardInStep ==
    /\ at = "boot" => card.phase = "standby"
    /\ Waiting => CardAnswers
    /\ at = "get_response" => card.phase # "data"
    /\ at = "get_response" /\ step \in Transfers => card.phase # "token"
    /\ at = "get_response" /\ step \in Registers => card.phase # "token"
    /\ at = "answered" => CardAnswered
    /\ at = "block" => card.phase = "data" /\ AtBlock
    /\ at = "send" => card.phase = "standby" \/ (card.phase = "receive" /\ AtBlock)
    /\ at = "get_dataresponse" =>
          \/ card.phase = "standby"
          \/ card.phase = "respond" /\ AtBlock /\ card.block = buf[chunk + 1]
    /\ at = "wait" =>
          card.phase = "program" /\ AtBlock /\ store[card.pos] = buf[chunk + 1]
    /\ at = "idle" \/ (at = "returned" /\ result = "Ok") =>
          Resting /\ (card.phase = "standby" \/ call.len > 1)

(* The card is initialised once ACMD41 has said so, and stays so.           *)
CardInitialised ==
    \/ at \in {"block", "send", "get_dataresponse", "wait", "idle"}
    \/ at = "returned" /\ result = "Ok"
    \/ Waiting /\ step \notin InitSteps
    => card.mode = "ready"

(* What was transferred so far, and what the result says about it.          *)
Progress ==
    /\ call.op \in {"read", "write"} =>
          \A k \in 1 .. chunk : buf[k] = store[call.sector + k - 1]
    /\ result = "Ok" => at \in {"returned", "idle"} /\ chunk = call.len
    /\ at \in {"returned", "idle"} => cs = "high"
    /\ at = "idle" => result = "Ok"
    /\ result # "none" => at \in {"returned", "idle", "panic"}

DriverInv == Typed /\ CallInStep /\ CardInStep /\ CardInitialised /\ Progress

-----------------------------------------------------------------------------
(* What a poll may bring, phase by phase (Polled).                          *)

(* An answer to a command ends the answer phase and brings the card to the  *)
(* phase of its command (R1Answers).                                        *)
LEMMA R1Facts ==
    ASSUME Typed, card.phase = "answer", NEW given \in R1Answers
    PROVE  /\ given.byte \in {"00", "01", "error"}
           /\ given.card \in Cards
           /\ given.card.cmd = card.cmd /\ given.card.pos = card.pos
           /\ given.card.block = card.block
           /\ given.card.phase \in {"standby", "token", "receive"}
           /\ given.card.phase = "token" => card.cmd \in Registers \cup {"CMD17", "CMD18"}
           /\ given.card.phase = "receive" => card.cmd \in {"CMD24", "CMD25"}
           /\ given.byte = "00" => given.card.mode = "ready"
           /\ card.mode = "ready" /\ card.cmd # "CMD0" => given.card.mode = "ready"
PROOF
  <1> DEFINE in(phase, mode) == [card EXCEPT !.phase = phase, !.mode = mode]
  <1>1. card \in Cards
    BY DEF Typed
  <1>2. ASSUME NEW phase \in {"standby", "token", "receive"},
               NEW mode \in {"off", "idle", "ready"}
        PROVE  /\ in(phase, mode) \in Cards
               /\ in(phase, mode).phase = phase /\ in(phase, mode).mode = mode
               /\ in(phase, mode).cmd = card.cmd /\ in(phase, mode).pos = card.pos
               /\ in(phase, mode).block = card.block
    BY <1>1 DEF Cards, Phases
  <1>3. card.mode \in {"off", "idle", "ready"}
    BY <1>1 DEF Cards
  <1>4. PICK byte \in {"00", "01", "error"}, phase \in {"standby", "token", "receive"},
             mode \in {"off", "idle", "ready"} :
           /\ given = [byte |-> byte, card |-> in(phase, mode)]
           /\ phase = "token" => card.cmd \in Registers \cup {"CMD17", "CMD18"}
           /\ phase = "receive" => card.cmd \in {"CMD24", "CMD25"}
           /\ byte = "00" => mode = "ready"
           /\ card.mode = "ready" /\ card.cmd # "CMD0" => mode = "ready"
    <2>0. given \in R1Answers
      OBVIOUS
    <2>1. CASE given = Gives("error", in("standby", card.mode))
      BY <2>1, <1>3 DEF Gives
    <2>2. CASE card.cmd = "CMD0" /\ given = Gives("01", in("standby", "idle"))
      BY <2>2 DEF Gives
    <2>3. CASE card.cmd = "ACMD41" /\ card.mode = "idle"
                 /\ given \in {Gives("01", in("standby", "idle")),
                               Gives("00", in("standby", "ready"))}
      BY <2>3 DEF Gives
    <2>4. CASE card.cmd \in {"CMD9", "CMD10", "CMD17", "CMD18"} /\ card.mode = "ready"
                 /\ given = Gives("00", in("token", "ready"))
      BY <2>4 DEF Gives, Registers
    <2>5. CASE card.cmd \in {"CMD24", "CMD25"} /\ card.mode = "ready"
                 /\ given = Gives("00", in("receive", "ready"))
      BY <2>5 DEF Gives
    <2>6. CASE card.cmd # "CMD0"
                 /\ given = Gives(IF card.mode = "ready" THEN "00" ELSE "01",
                                  in("standby", card.mode))
      BY <2>6, <1>3 DEF Gives
    <2> QED
      BY <2>0, <2>1, <2>2, <2>3, <2>4, <2>5, <2>6, Zenon DEF R1Answers
  <1> HIDE DEF in
  <1>5. given.byte = byte /\ given.card = in(phase, mode)
    BY <1>4
  <1> QED
    BY <1>2, <1>4, <1>5

(* A poll that brings nothing new leaves the card as it is, except that the *)
(* end of the programming shows as an idle line.                            *)
LEMMA PollFacts ==
    ASSUME Typed, NEW given \in Polled
    PROVE  /\ given.byte \in {"FF", "00", "01", "FE", "05", "error"}
           /\ given.card \in Cards
           /\ given.card.cmd = card.cmd /\ given.card.block = card.block
           /\ card.phase # "program" => given.card.pos = card.pos
           /\ card.phase # "program" /\ given.byte = "FF" => given.card = card
           /\ card.phase # "answer" => given.card.mode = card.mode
           /\ card.phase \in {"standby", "data", "receive"} =>
                given.byte = "FF"
           /\ card.phase = "token" =>
                \/ given.byte = "FF"
                \/ given.byte = "FE" /\ given.card.phase = "data"
                \/ given.byte = "error" /\ given.card.phase = "standby"
           /\ card.phase = "respond" =>
                \/ given.byte = "05" /\ given.card.phase = "program"
                \/ given.byte = "error" /\ given.card.phase = "standby"
           /\ card.phase = "program" =>
                \/ given.byte = "00" /\ given.card = card
                \/ /\ given.byte = "FF"
                   /\ IF card.cmd = "CMD25"
                      THEN given.card.phase = "receive" /\ given.card.pos = card.pos + 1
                      ELSE given.card.phase = "standby" /\ given.card.pos = card.pos
           /\ card.phase = "answer" => given.byte = "FF" \/ given \in R1Answers
PROOF
  <1> DEFINE in(phase) == [card EXCEPT !.phase = phase]
             next == [in("receive") EXCEPT !.pos = @ + 1]
  <1>1. card \in Cards
    BY DEF Typed
  <1>2. ASSUME NEW phase \in Phases
        PROVE  /\ in(phase) \in Cards /\ in(phase).phase = phase
               /\ in(phase).cmd = card.cmd /\ in(phase).pos = card.pos
               /\ in(phase).mode = card.mode /\ in(phase).block = card.block
    BY <1>1 DEF Cards
  <1>3. /\ next \in Cards /\ next.phase = "receive"
        /\ next.cmd = card.cmd /\ next.pos = card.pos + 1
        /\ next.mode = card.mode /\ next.block = card.block
    <2>1. PICK r : r = in("receive")
      OBVIOUS
    <2>2. r \in Cards /\ r.phase = "receive" /\ r.cmd = card.cmd /\ r.pos = card.pos
            /\ r.mode = card.mode /\ r.block = card.block
      BY <2>1, <1>2 DEF Phases
    <2>3. next = [r EXCEPT !.pos = @ + 1]
      BY <2>1
    <2> QED BY <2>2, <2>3, <1>1 DEF Cards
  <1>0. given \in Polled
    OBVIOUS
  <1> HIDE DEF in, next
  <1>4. CASE card.phase = "answer" /\ given \in R1Answers
    BY <1>4, R1Facts
  <1>5. CASE card.phase # "program" /\ card.phase # "respond" /\ given = Gives("FF", card)
    BY <1>1, <1>5 DEF Gives
  <1>6. CASE card.phase = "token" /\ given = Gives("FE", in("data"))
    <2>1. given.byte = "FE" /\ given.card = in("data")
      BY <1>6 DEF Gives
    <2> QED BY <2>1, <1>2, <1>6 DEF Phases
  <1>7. CASE card.phase \in {"token", "respond"} /\ given = Gives("error", in("standby"))
    <2>1. given.byte = "error" /\ given.card = in("standby")
      BY <1>7 DEF Gives
    <2> QED BY <2>1, <1>2, <1>7 DEF Phases
  <1>8. CASE card.phase = "respond" /\ given = Gives("05", in("program"))
    <2>1. given.byte = "05" /\ given.card = in("program")
      BY <1>8 DEF Gives
    <2> QED BY <2>1, <1>2, <1>8 DEF Phases
  <1>9. CASE card.phase = "program" /\ given = Gives("00", card)
    BY <1>1, <1>9 DEF Gives
  <1>10. CASE card.phase = "program"
                /\ given = Gives("FF", IF card.cmd = "CMD25" THEN next ELSE in("standby"))
    <2>1. given.byte = "FF" /\ given.card = IF card.cmd = "CMD25" THEN next ELSE in("standby")
      BY <1>10 DEF Gives
    <2>2. CASE card.cmd = "CMD25"
      BY <2>1, <2>2, <1>3, <1>10
    <2>3. CASE card.cmd # "CMD25"
      <3>1. given.card = in("standby") /\ "standby" \in Phases
        BY <2>1, <2>3 DEF Phases
      <3> QED BY <2>1, <2>3, <3>1, <1>2, <1>10
    <2> QED BY <2>2, <2>3
  <1> QED
    BY <1>0, <1>4, <1>5, <1>6, <1>7, <1>8, <1>9, <1>10, Zenon DEF Polled, in, next

(* The card behind a command: next is card c after it took or ignored it.   *)
Heard(c, cmd, sector, next) ==
    /\ next \in Cards /\ next.mode = c.mode
    /\ IF c.phase = "standby" \/ (c.phase = "token" /\ cmd = "CMD12")
       THEN next.phase = "answer" /\ next.cmd = cmd /\ next.pos = sector
       ELSE next = c

(* A command changes nothing else of the card (Received).                   *)
LEMMA ReceivedFacts ==
    \A c \in Cards, cmd \in Steps, sector \in Nat : Heard(c, cmd, sector, Received(c, cmd, sector))
PROOF
  <1> SUFFICES ASSUME NEW c \in Cards, NEW cmd \in Steps, NEW sector \in Nat
               PROVE  Heard(c, cmd, sector, Received(c, cmd, sector))
    OBVIOUS
  <1> QED BY DEF Heard, Received, Cards, Phases

(* A block sent brings the card to the next one, or ends its command.       *)
LEMMA SentFacts ==
    ASSUME Typed
    PROVE  /\ BlockSent \in Cards /\ BlockSent.mode = card.mode /\ BlockSent.cmd = card.cmd
           /\ BlockSent.pos = card.pos + 1
           /\ BlockSent.phase = IF card.cmd = "CMD18" THEN "token" ELSE "standby"
PROOF
  <1>1. PICK phase \in Phases : phase = IF card.cmd = "CMD18" THEN "token" ELSE "standby"
    BY DEF Phases
  <1>2. BlockSent = [card EXCEPT !.phase = phase, !.pos = card.pos + 1]
    BY <1>1, Zenon DEF BlockSent
  <1>3. card \in Cards
    BY DEF Typed
  <1>4. card.pos + 1 \in Nat
    BY <1>3 DEF Cards
  <1>5. ASSUME NEW c \in Cards, NEW n \in Nat
        PROVE  LET sent == [c EXCEPT !.phase = phase, !.pos = n]
               IN  /\ sent \in Cards /\ sent.mode = c.mode /\ sent.cmd = c.cmd
                   /\ sent.pos = n /\ sent.phase = phase
    BY DEF Cards
  <1>6. /\ BlockSent \in Cards /\ BlockSent.mode = card.mode /\ BlockSent.cmd = card.cmd
        /\ BlockSent.pos = card.pos + 1 /\ BlockSent.phase = phase
    BY <1>2, <1>3, <1>4, <1>5, Zenon
  <1> QED BY <1>1, <1>6

-----------------------------------------------------------------------------
(* The invariant holds at first and every action keeps it.                  *)

LEMMA InitInv == Init => DriverInv
PROOF
  <1> SUFFICES ASSUME Init PROVE DriverInv
    OBVIOUS
  <1> USE LimitsAssumption, SectorsAssumption
  <1>1. Typed
    <2>1. card \in Cards
      BY DEF Init, Cards, Phases
    <2>2. buf \in [1 .. call.len -> Values \cup {None}]
      BY DEF Init
    <2>3. timeout \in 1 .. TIMEOUT /\ index \in 0 .. RETRIES
      BY DEF Init
    <2>4. chunk \in 0 .. call.len
      BY DEF Init
    <2>5. call \in [op : {"init", "CMD9", "CMD10", "read", "write"}, sector : Nat, len : Nat]
      BY DEF Init
    <2> QED BY <2>1, <2>2, <2>3, <2>4, <2>5 DEF Init, Typed, Steps, InitSteps
  <1>2. CallInStep
    BY DEF Init, CallInStep, Waiting
  <1>3. CardInStep
    BY DEF Init, CardInStep, Waiting
  <1>4. CardInitialised /\ Progress
    BY DEF Init, CardInitialised, Progress, Waiting
  <1> QED BY <1>1, <1>2, <1>3, <1>4 DEF DriverInv

(* The first command goes to a card that waits for one.                     *)
LEMMA StartInitInv == DriverInv /\ StartInit => DriverInv'
PROOF
  <1> SUFFICES ASSUME DriverInv, StartInit PROVE DriverInv'
    OBVIOUS
  <1>0. Heard(card, "CMD0", 0, Received(card, "CMD0", 0))
    <2>1. card \in Cards /\ {"CMD0"} \subseteq Steps /\ 0 \in Nat
      BY DEF DriverInv, Typed, InitSteps, Registers, Transfers, Steps
    <2> QED BY <2>1, ReceivedFacts
  <1>1. Typed'
    BY <1>0, LimitsAssumption
    DEF DriverInv, Typed, CallInStep, Waiting, StartInit, SendCmd, local, InitSteps,
        Registers, Transfers, Steps, Heard
  <1>2. CallInStep'
    BY <1>0, LimitsAssumption
    DEF DriverInv, Typed, CallInStep, Waiting, StartInit, SendCmd, local, InitSteps,
        Registers, Transfers, Steps, Heard
  <1>3. CardInStep'
    BY <1>0, LimitsAssumption
    DEF DriverInv, Typed, CallInStep, CardInStep, CardAnswers, CardAnswered, Resting, AtBlock,
        Transfer, Waiting, Cards, Phases, StartInit, SendCmd, local, InitSteps, Registers,
        Transfers, Steps, Heard
  <1>4. CardInitialised'
    BY <1>0, LimitsAssumption
    DEF DriverInv, CallInStep, CardInStep, CardAnswers, CardAnswered, CardInitialised,
        Waiting, StartInit, SendCmd, local, InitSteps, Registers, Transfers, Steps, Heard
  <1>5. Progress'
    BY <1>0, LimitsAssumption
    DEF DriverInv, Typed, CallInStep, Progress, Waiting, StartInit, SendCmd, local, InitSteps,
        Registers, Transfers, Steps, Heard
  <1> QED BY <1>1, <1>2, <1>3, <1>4, <1>5 DEF DriverInv

(* CMD8 follows when CMD0 was answered.                                     *)
LEMMA AfterCmd0Inv == DriverInv /\ AfterCmd0 => DriverInv'
PROOF
  <1> SUFFICES ASSUME DriverInv, AfterCmd0 PROVE DriverInv'
    OBVIOUS
  <1>0. Heard(card, "CMD8", 0, Received(card, "CMD8", 0))
    <2>1. card \in Cards /\ {"CMD8"} \subseteq Steps /\ 0 \in Nat
      BY DEF DriverInv, Typed, InitSteps, Registers, Transfers, Steps
    <2> QED BY <2>1, ReceivedFacts
  <1>1. Typed'
    BY <1>0, LimitsAssumption
    DEF DriverInv, Typed, CallInStep, Waiting, AfterCmd0, SendCmd, Answered, Checked, Return,
        EndCmd, local, InitSteps, Registers, Transfers, Steps, Heard
  <1>2. CallInStep'
    BY <1>0, LimitsAssumption
    DEF DriverInv, Typed, CallInStep, Waiting, AfterCmd0, SendCmd, Answered, Checked, Return,
        EndCmd, local, InitSteps, Registers, Transfers, Steps, Heard
  <1>3. CardInStep'
    BY <1>0, LimitsAssumption
    DEF DriverInv, Typed, CallInStep, CardInStep, CardAnswers, CardAnswered, Resting, AtBlock,
        Transfer, Waiting, Cards, Phases, AfterCmd0, SendCmd, Answered, Checked, Return,
        EndCmd, local, InitSteps, Registers, Transfers, Steps, Heard
  <1>4. CardInitialised'
    BY <1>0, LimitsAssumption
    DEF DriverInv, CallInStep, CardInStep, CardAnswers, CardAnswered, CardInitialised,
        Waiting, AfterCmd0, SendCmd, Answered, Checked, Return, EndCmd, local, InitSteps,
        Registers, Transfers, Steps, Heard
  <1>5. Progress'
    BY <1>0, LimitsAssumption
    DEF DriverInv, Typed, CallInStep, Progress, Waiting, AfterCmd0, SendCmd, Answered,
        Checked, Return, EndCmd, local, InitSteps, Registers, Transfers, Steps, Heard
  <1> QED BY <1>1, <1>2, <1>3, <1>4, <1>5 DEF DriverInv

(* CMD55 follows, with all rounds left.                                     *)
LEMMA AfterCmd8Inv == DriverInv /\ AfterCmd8 => DriverInv'
PROOF
  <1> SUFFICES ASSUME DriverInv, AfterCmd8 PROVE DriverInv'
    OBVIOUS
  <1>0. Heard(card, "CMD55", 0, Received(card, "CMD55", 0))
    <2>1. card \in Cards /\ {"CMD55"} \subseteq Steps /\ 0 \in Nat
      BY DEF DriverInv, Typed, InitSteps, Registers, Transfers, Steps
    <2> QED BY <2>1, ReceivedFacts
  <1>1. Typed'
    BY <1>0, LimitsAssumption
    DEF DriverInv, Typed, CallInStep, Waiting, AfterCmd8, SendCmd, Answered, Checked, Return,
        EndCmd, local, InitSteps, Registers, Transfers, Steps, Heard
  <1>2. CallInStep'
    BY <1>0, LimitsAssumption
    DEF DriverInv, Typed, CallInStep, Waiting, AfterCmd8, SendCmd, Answered, Checked, Return,
        EndCmd, local, InitSteps, Registers, Transfers, Steps, Heard
  <1>3. CardInStep'
    BY <1>0, LimitsAssumption
    DEF DriverInv, Typed, CallInStep, CardInStep, CardAnswers, CardAnswered, Resting, AtBlock,
        Transfer, Waiting, Cards, Phases, AfterCmd8, SendCmd, Answered, Checked, Return,
        EndCmd, local, InitSteps, Registers, Transfers, Steps, Heard
  <1>4. CardInitialised'
    BY <1>0, LimitsAssumption
    DEF DriverInv, CallInStep, CardInStep, CardAnswers, CardAnswered, CardInitialised,
        Waiting, AfterCmd8, SendCmd, Answered, Checked, Return, EndCmd, local, InitSteps,
        Registers, Transfers, Steps, Heard
  <1>5. Progress'
    BY <1>0, LimitsAssumption
    DEF DriverInv, Typed, CallInStep, Progress, Waiting, AfterCmd8, SendCmd, Answered,
        Checked, Return, EndCmd, local, InitSteps, Registers, Transfers, Steps, Heard
  <1> QED BY <1>1, <1>2, <1>3, <1>4, <1>5 DEF DriverInv

(* ACMD41 follows.                                                          *)
LEMMA AfterCmd55Inv == DriverInv /\ AfterCmd55 => DriverInv'
PROOF
  <1> SUFFICES ASSUME DriverInv, AfterCmd55 PROVE DriverInv'
    OBVIOUS
  <1>0. Heard(card, "ACMD41", 0, Received(card, "ACMD41", 0))
    <2>1. card \in Cards /\ {"ACMD41"} \subseteq Steps /\ 0 \in Nat
      BY DEF DriverInv, Typed, InitSteps, Registers, Transfers, Steps
    <2> QED BY <2>1, ReceivedFacts
  <1>1. Typed'
    BY <1>0, LimitsAssumption
    DEF DriverInv, Typed, CallInStep, Waiting, AfterCmd55, SendCmd, Answered, Checked, Return,
        EndCmd, local, InitSteps, Registers, Transfers, Steps, Heard
  <1>2. CallInStep'
    BY <1>0, LimitsAssumption
    DEF DriverInv, Typed, CallInStep, Waiting, AfterCmd55, SendCmd, Answered, Checked, Return,
        EndCmd, local, InitSteps, Registers, Transfers, Steps, Heard
  <1>3. CardInStep'
    BY <1>0, LimitsAssumption
    DEF DriverInv, Typed, CallInStep, CardInStep, CardAnswers, CardAnswered, Resting, AtBlock,
        Transfer, Waiting, Cards, Phases, AfterCmd55, SendCmd, Answered, Checked, Return,
        EndCmd, local, InitSteps, Registers, Transfers, Steps, Heard
  <1>4. CardInitialised'
    BY <1>0, LimitsAssumption
    DEF DriverInv, CallInStep, CardInStep, CardAnswers, CardAnswered, CardInitialised,
        Waiting, AfterCmd55, SendCmd, Answered, Checked, Return, EndCmd, local, InitSteps,
        Registers, Transfers, Steps, Heard
  <1>5. Progress'
    BY <1>0, LimitsAssumption
    DEF DriverInv, Typed, CallInStep, Progress, Waiting, AfterCmd55, SendCmd, Answered,
        Checked, Return, EndCmd, local, InitSteps, Registers, Transfers, Steps, Heard
  <1> QED BY <1>1, <1>2, <1>3, <1>4, <1>5 DEF DriverInv

(* A round of ACMD41 ends the loop, or is counted.                          *)
LEMMA AfterAcmd41Inv == DriverInv /\ AfterAcmd41 => DriverInv'
PROOF
  <1> SUFFICES ASSUME DriverInv, AfterAcmd41 PROVE DriverInv'
    OBVIOUS
  <1>0. /\ Heard(card, "CMD55", 0, Received(card, "CMD55", 0))
        /\ Heard(card, "CMD58", 0, Received(card, "CMD58", 0))
    <2>1. card \in Cards /\ {"CMD55", "CMD58"} \subseteq Steps /\ 0 \in Nat
      BY DEF DriverInv, Typed, InitSteps, Registers, Transfers, Steps
    <2> QED BY <2>1, ReceivedFacts
  <1>1. Typed'
    BY <1>0, LimitsAssumption
    DEF DriverInv, Typed, CallInStep, Waiting, AfterAcmd41, Initialised, SendCmd, Answered,
        Checked, Return, EndCmd, local, InitSteps, Registers, Transfers, Steps, Heard
  <1>2. CallInStep'
    BY <1>0, LimitsAssumption
    DEF DriverInv, Typed, CallInStep, Waiting, AfterAcmd41, Initialised, SendCmd, Answered,
        Checked, Return, EndCmd, local, InitSteps, Registers, Transfers, Steps, Heard
  <1>3. CardInStep'
    BY <1>0, LimitsAssumption
    DEF DriverInv, Typed, CallInStep, CardInStep, CardAnswers, CardAnswered, Resting, AtBlock,
        Transfer, Waiting, Cards, Phases, AfterAcmd41, Initialised, SendCmd, Answered,
        Checked, Return, EndCmd, local, InitSteps, Registers, Transfers, Steps, Heard
  <1>4. CardInitialised'
    BY <1>0, LimitsAssumption
    DEF DriverInv, CallInStep, CardInStep, CardAnswers, CardAnswered, CardInitialised,
        Waiting, AfterAcmd41, Initialised, SendCmd, Answered, Checked, Return, EndCmd, local,
        InitSteps, Registers, Transfers, Steps, Heard
  <1>5. Progress'
    BY <1>0, LimitsAssumption
    DEF DriverInv, Typed, CallInStep, Progress, Waiting, AfterAcmd41, Initialised, SendCmd,
        Answered, Checked, Return, EndCmd, local, InitSteps, Registers, Transfers, Steps,
        Heard
  <1> QED BY <1>1, <1>2, <1>3, <1>4, <1>5 DEF DriverInv

(* A round of CMD58 ends the loop, or is counted.                           *)
LEMMA AfterCmd58Inv == DriverInv /\ AfterCmd58 => DriverInv'
PROOF
  <1> SUFFICES ASSUME DriverInv, AfterCmd58 PROVE DriverInv'
    OBVIOUS
  <1>0. /\ Heard(card, "CMD58", 0, Received(card, "CMD58", 0))
        /\ Heard(card, "CMD9", 0, Received(card, "CMD9", 0))
    <2>1. card \in Cards /\ {"CMD58", "CMD9"} \subseteq Steps /\ 0 \in Nat
      BY DEF DriverInv, Typed, InitSteps, Registers, Transfers, Steps
    <2> QED BY <2>1, ReceivedFacts
  <1>1. Typed'
    BY <1>0, LimitsAssumption
    DEF DriverInv, Typed, CallInStep, Waiting, AfterCmd58, SendCmd, Answered, Checked, Return,
        EndCmd, local, InitSteps, Registers, Transfers, Steps, Heard
  <1>2. CallInStep'
    BY <1>0, LimitsAssumption
    DEF DriverInv, Typed, CallInStep, Waiting, AfterCmd58, SendCmd, Answered, Checked, Return,
        EndCmd, local, InitSteps, Registers, Transfers, Steps, Heard
  <1>3. CardInStep'
    BY <1>0, LimitsAssumption
    DEF DriverInv, Typed, CallInStep, CardInStep, CardAnswers, CardAnswered, Resting, AtBlock,
        Transfer, Waiting, Cards, Phases, AfterCmd58, SendCmd, Answered, Checked, Return,
        EndCmd, local, InitSteps, Registers, Transfers, Steps, Heard
  <1>4. CardInitialised'
    BY <1>0, LimitsAssumption
    DEF DriverInv, CallInStep, CardInStep, CardAnswers, CardAnswered, CardInitialised,
        Waiting, AfterCmd58, SendCmd, Answered, Checked, Return, EndCmd, local, InitSteps,
        Registers, Transfers, Steps, Heard
  <1>5. Progress'
    BY <1>0, LimitsAssumption
    DEF DriverInv, Typed, CallInStep, Progress, Waiting, AfterCmd58, SendCmd, Answered,
        Checked, Return, EndCmd, local, InitSteps, Registers, Transfers, Steps, Heard
  <1> QED BY <1>1, <1>2, <1>3, <1>4, <1>5 DEF DriverInv

(* The block of a register is awaited.                                      *)
LEMMA AfterRegisterInv == DriverInv /\ AfterRegister => DriverInv'
PROOF
  <1> SUFFICES ASSUME DriverInv, AfterRegister PROVE DriverInv'
    OBVIOUS
  <1>1. Typed'
    BY LimitsAssumption
    DEF DriverInv, Typed, CallInStep, Waiting, AfterRegister, AwaitToken, SendCmd, Answered,
        Checked, Return, EndCmd, local, InitSteps, Registers, Transfers, Steps, Heard
  <1>2. CallInStep'
    BY LimitsAssumption
    DEF DriverInv, Typed, CallInStep, Waiting, AfterRegister, AwaitToken, SendCmd, Answered,
        Checked, Return, EndCmd, local, InitSteps, Registers, Transfers, Steps, Heard
  <1>3. CardInStep'
    BY LimitsAssumption
    DEF DriverInv, Typed, CallInStep, CardInStep, CardAnswers, CardAnswered, Resting, AtBlock,
        Transfer, Waiting, Cards, Phases, AfterRegister, AwaitToken, SendCmd, Answered,
        Checked, Return, EndCmd, local, InitSteps, Registers, Transfers, Steps, Heard
  <1>4. CardInitialised'
    BY LimitsAssumption
    DEF DriverInv, CallInStep, CardInStep, CardAnswers, CardAnswered, CardInitialised,
        Waiting, AfterRegister, AwaitToken, SendCmd, Answered, Checked, Return, EndCmd, local,
        InitSteps, Registers, Transfers, Steps, Heard
  <1>5. Progress'
    BY LimitsAssumption
    DEF DriverInv, Typed, CallInStep, Progress, Waiting, AfterRegister, AwaitToken, SendCmd,
        Answered, Checked, Return, EndCmd, local, InitSteps, Registers, Transfers, Steps,
        Heard
  <1> QED BY <1>1, <1>2, <1>3, <1>4, <1>5 DEF DriverInv

(* The wrapper goes on after Ok only.                                       *)
LEMMA UnwrapInv == DriverInv /\ Unwrap => DriverInv'
PROOF
  <1> SUFFICES ASSUME DriverInv, Unwrap PROVE DriverInv'
    OBVIOUS
  <1>1. Typed'
    BY DEF DriverInv, Typed, CallInStep, Waiting, Unwrap, local, InitSteps, Registers,
           Transfers, Steps
  <1>2. CallInStep'
    BY DEF DriverInv, Typed, CallInStep, Waiting, Unwrap, local, InitSteps, Registers,
           Transfers, Steps
  <1>3. CardInStep'
    BY DEF DriverInv, Typed, CallInStep, CardInStep, CardAnswers, CardAnswered, Resting,
           AtBlock, Transfer, Waiting, Cards, Phases, Unwrap, local, InitSteps, Registers,
           Transfers, Steps
  <1>4. CardInitialised'
    BY DEF DriverInv, CallInStep, CardInStep, CardAnswers, CardAnswered, CardInitialised,
           Waiting, Unwrap, local, InitSteps, Registers, Transfers, Steps
  <1>5. Progress'
    BY DEF DriverInv, Typed, CallInStep, Progress, Waiting, Unwrap, local, InitSteps,
           Registers, Transfers, Steps
  <1> QED BY <1>1, <1>2, <1>3, <1>4, <1>5 DEF DriverInv

(* The first token is awaited.                                              *)
LEMMA AfterReadInv == DriverInv /\ AfterRead => DriverInv'
PROOF
  <1> SUFFICES ASSUME DriverInv, AfterRead PROVE DriverInv'
    OBVIOUS
  <1>1. Typed'
    BY LimitsAssumption
    DEF DriverInv, Typed, CallInStep, Waiting, AfterRead, AwaitToken, SendCmd, Answered,
        Checked, Return, EndCmd, local, InitSteps, Registers, Transfers, Steps
  <1>2. CallInStep'
    BY LimitsAssumption
    DEF DriverInv, Typed, CallInStep, Waiting, AfterRead, AwaitToken, SendCmd, Answered,
        Checked, Return, EndCmd, local, InitSteps, Registers, Transfers, Steps
  <1>3. CardInStep'
    BY LimitsAssumption
    DEF DriverInv, Typed, CallInStep, CardInStep, CardAnswers, CardAnswered, Resting, AtBlock,
        Transfer, Waiting, Cards, Phases, AfterRead, AwaitToken, SendCmd, Answered, Checked,
        Return, EndCmd, local, InitSteps, Registers, Transfers, Steps
  <1>4. CardInitialised'
    BY LimitsAssumption
    DEF DriverInv, CallInStep, CardInStep, CardAnswers, CardAnswered, CardInitialised,
        Waiting, AfterRead, AwaitToken, SendCmd, Answered, Checked, Return, EndCmd, local,
        InitSteps, Registers, Transfers, Steps
  <1>5. Progress'
    BY LimitsAssumption
    DEF DriverInv, Typed, CallInStep, Progress, Waiting, AfterRead, AwaitToken, SendCmd,
        Answered, Checked, Return, EndCmd, local, InitSteps, Registers, Transfers, Steps
  <1> QED BY <1>1, <1>2, <1>3, <1>4, <1>5 DEF DriverInv

(* The answer to CMD12 may be missing.                                      *)
LEMMA AfterCmd12Inv == DriverInv /\ AfterCmd12 => DriverInv'
PROOF
  <1> SUFFICES ASSUME DriverInv, AfterCmd12 PROVE DriverInv'
    OBVIOUS
  <1>1. Typed'
    BY DEF DriverInv, Typed, CallInStep, Waiting, AfterCmd12, SendCmd, Answered, Checked,
           Return, EndCmd, local, InitSteps, Registers, Transfers, Steps
  <1>2. CallInStep'
    BY DEF DriverInv, Typed, CallInStep, Waiting, AfterCmd12, SendCmd, Answered, Checked,
           Return, EndCmd, local, InitSteps, Registers, Transfers, Steps
  <1>3. CardInStep'
    BY DEF DriverInv, Typed, CallInStep, CardInStep, CardAnswers, CardAnswered, Resting,
           AtBlock, Transfer, Waiting, Cards, Phases, AfterCmd12, SendCmd, Answered, Checked,
           Return, EndCmd, local, InitSteps, Registers, Transfers, Steps
  <1>4. CardInitialised'
    BY DEF DriverInv, CallInStep, CardInStep, CardAnswers, CardAnswered, CardInitialised,
           Waiting, AfterCmd12, SendCmd, Answered, Checked, Return, EndCmd, local, InitSteps,
           Registers, Transfers, Steps
  <1>5. Progress'
    BY DEF DriverInv, Typed, CallInStep, Progress, Waiting, AfterCmd12, SendCmd, Answered,
           Checked, Return, EndCmd, local, InitSteps, Registers, Transfers, Steps
  <1> QED BY <1>1, <1>2, <1>3, <1>4, <1>5 DEF DriverInv

(* The first block is sent when the command was answered.                   *)
LEMMA AfterWriteInv == DriverInv /\ AfterWrite => DriverInv'
PROOF
  <1> SUFFICES ASSUME DriverInv, AfterWrite PROVE DriverInv'
    OBVIOUS
  <1>1. Typed'
    BY DEF DriverInv, Typed, CallInStep, Waiting, AfterWrite, SendCmd, Answered, Checked,
           Return, EndCmd, local, InitSteps, Registers, Transfers, Steps
  <1>2. CallInStep'
    BY DEF DriverInv, Typed, CallInStep, Waiting, AfterWrite, SendCmd, Answered, Checked,
           Return, EndCmd, local, InitSteps, Registers, Transfers, Steps
  <1>3. CardInStep'
    BY DEF DriverInv, Typed, CallInStep, CardInStep, CardAnswers, CardAnswered, Resting,
           AtBlock, Transfer, Waiting, Cards, Phases, AfterWrite, SendCmd, Answered, Checked,
           Return, EndCmd, local, InitSteps, Registers, Transfers, Steps
  <1>4. CardInitialised'
    BY DEF DriverInv, CallInStep, CardInStep, CardAnswers, CardAnswered, CardInitialised,
           Waiting, AfterWrite, SendCmd, Answered, Checked, Return, EndCmd, local, InitSteps,
           Registers, Transfers, Steps
  <1>5. Progress'
    BY DEF DriverInv, Typed, CallInStep, Progress, Waiting, AfterWrite, SendCmd, Answered,
           Checked, Return, EndCmd, local, InitSteps, Registers, Transfers, Steps
  <1> QED BY <1>1, <1>2, <1>3, <1>4, <1>5 DEF DriverInv

(* The block goes to a card that waits for it, or is lost.                  *)
LEMMA SendBlockInv == DriverInv /\ SendBlock => DriverInv'
PROOF
  <1> SUFFICES ASSUME DriverInv, SendBlock PROVE DriverInv'
    OBVIOUS
  <1>0. /\ card' \in Cards
        /\ card'.mode = card.mode /\ card'.cmd = card.cmd /\ card'.pos = card.pos
        /\ IF card.phase = "receive" THEN card'.phase = "respond" /\ card'.block = buf[chunk + 1]
           ELSE card' = card
    <2>1. card \in Cards /\ buf[chunk + 1] \in Values
      BY DEF DriverInv, Typed, CallInStep, SendBlock
    <2>2. card.phase = "receive" => (card.cmd = "CMD25" <=> call.len # 1)
      BY DEF DriverInv, CardInStep, CallInStep, AtBlock, Transfer, SendBlock
    <2> QED BY <2>1, <2>2 DEF SendBlock, BlockReceived, Cards, Phases
  <1>1. Typed'
    BY <1>0
    DEF DriverInv, Typed, CallInStep, Waiting, SendBlock, local, InitSteps, Registers,
        Transfers, Steps
  <1>2. CallInStep'
    BY <1>0
    DEF DriverInv, Typed, CallInStep, Waiting, SendBlock, local, InitSteps, Registers,
        Transfers, Steps
  <1>3. CardInStep'
    BY <1>0
    DEF DriverInv, Typed, CallInStep, CardInStep, CardAnswers, CardAnswered, Resting, AtBlock,
        Transfer, Waiting, Cards, Phases, SendBlock, local, InitSteps, Registers, Transfers,
        Steps
  <1>4. CardInitialised'
    BY <1>0
    DEF DriverInv, CallInStep, CardInStep, CardAnswers, CardAnswered, CardInitialised,
        Waiting, SendBlock, local, InitSteps, Registers, Transfers, Steps
  <1>5. Progress'
    BY <1>0
    DEF DriverInv, Typed, CallInStep, Progress, Waiting, SendBlock, local, InitSteps,
        Registers, Transfers, Steps
  <1> QED BY <1>1, <1>2, <1>3, <1>4, <1>5 DEF DriverInv

(* CMD25 follows, whatever the answer was.                                  *)
LEMMA AfterAcmd23Inv == DriverInv /\ AfterAcmd23 => DriverInv'
PROOF
  <1> SUFFICES ASSUME DriverInv, AfterAcmd23 PROVE DriverInv'
    OBVIOUS
  <1>0. Heard(card, "CMD25", call.sector, Received(card, "CMD25", call.sector))
    <2>1. card \in Cards /\ "CMD25" \in Steps /\ call.sector \in Nat
      BY DEF DriverInv, Typed, InitSteps, Registers, Transfers, Steps
    <2> QED BY <2>1, ReceivedFacts
  <1>1. Typed'
    BY <1>0, LimitsAssumption
    DEF DriverInv, Typed, CallInStep, Waiting, AfterAcmd23, SendCmd, Answered, Checked,
        Return, EndCmd, local, InitSteps, Registers, Transfers, Steps, Heard
  <1>2. CallInStep'
    BY <1>0, LimitsAssumption
    DEF DriverInv, Typed, CallInStep, Waiting, AfterAcmd23, SendCmd, Answered, Checked,
        Return, EndCmd, local, InitSteps, Registers, Transfers, Steps, Heard
  <1>3. CardInStep'
    BY <1>0, LimitsAssumption
    DEF DriverInv, Typed, CallInStep, CardInStep, CardAnswers, CardAnswered, Resting, AtBlock,
        Transfer, Waiting, Cards, Phases, AfterAcmd23, SendCmd, Answered, Checked, Return,
        EndCmd, local, InitSteps, Registers, Transfers, Steps, Heard
  <1>4. CardInitialised'
    BY <1>0, LimitsAssumption
    DEF DriverInv, CallInStep, CardInStep, CardAnswers, CardAnswered, CardInitialised,
        Waiting, AfterAcmd23, SendCmd, Answered, Checked, Return, EndCmd, local, InitSteps,
        Registers, Transfers, Steps, Heard
  <1>5. Progress'
    BY <1>0, LimitsAssumption
    DEF DriverInv, Typed, CallInStep, Progress, Waiting, AfterAcmd23, SendCmd, Answered,
        Checked, Return, EndCmd, local, InitSteps, Registers, Transfers, Steps, Heard
  <1> QED BY <1>1, <1>2, <1>3, <1>4, <1>5 DEF DriverInv

(* The token brings the driver to the block; without it the call ends.      *)
LEMMA AfterTokenInv == DriverInv /\ AfterToken => DriverInv'
PROOF
  <1> SUFFICES ASSUME DriverInv, AfterToken PROVE DriverInv'
    OBVIOUS
  <1>0. Heard(card, "CMD12", 0, Received(card, "CMD12", 0))
    <2>1. card \in Cards /\ {"CMD12"} \subseteq Steps /\ 0 \in Nat
      BY DEF DriverInv, Typed, InitSteps, Registers, Transfers, Steps
    <2> QED BY <2>1, ReceivedFacts
  <1>1. Typed'
    <2>1. failed' \in BOOLEAN
      BY Zenon
      DEF DriverInv, Typed, AfterToken, EndOfRead, SendCmd, Answered, Checked, Return, EndCmd,
          local, InitSteps, Registers, Transfers, Steps, Heard
    <2>2. at' \in {"get_response", "block", "returned"} /\ step' \in Steps \cup {"none", "token"}
      BY DEF DriverInv, Typed, AfterToken, EndOfRead, SendCmd, Answered, Checked, Return,
             EndCmd, local, InitSteps, Registers, Transfers, Steps, Heard
    <2>3. timeout' \in 1 .. TIMEOUT /\ card' \in Cards /\ result' \in {"none", "Ok", "Err"}
            /\ cs' \in {"high", "low"}
      BY <1>0, LimitsAssumption
      DEF DriverInv, Typed, AfterToken, EndOfRead, SendCmd, Answered, Checked, Return, EndCmd,
          local, InitSteps, Registers, Transfers, Steps, Heard
    <2>4. UNCHANGED <<answer, index, call, chunk, buf, store>>
      BY DEF DriverInv, Typed, AfterToken, EndOfRead, SendCmd, Answered, Checked, Return,
             EndCmd, local, InitSteps, Registers, Transfers, Steps, Heard
    <2> QED BY <2>1, <2>2, <2>3, <2>4 DEF DriverInv, Typed
    \* 
  <1>2. CallInStep'
    BY <1>0, LimitsAssumption
    DEF DriverInv, Typed, CallInStep, Waiting, AfterToken, EndOfRead, SendCmd, Answered,
        Checked, Return, EndCmd, local, InitSteps, Registers, Transfers, Steps, Heard
  <1>3. CardInStep'
    BY <1>0, LimitsAssumption
    DEF DriverInv, Typed, CallInStep, CardInStep, CardAnswers, CardAnswered, Resting, AtBlock,
        Transfer, Waiting, Cards, Phases, AfterToken, EndOfRead, SendCmd, Answered, Checked,
        Return, EndCmd, local, InitSteps, Registers, Transfers, Steps, Heard
  <1>4. CardInitialised'
    BY <1>0, LimitsAssumption
    DEF DriverInv, CallInStep, CardInStep, CardAnswers, CardAnswered, CardInitialised,
        Waiting, AfterToken, EndOfRead, SendCmd, Answered, Checked, Return, EndCmd, local,
        InitSteps, Registers, Transfers, Steps, Heard
  <1>5. Progress'
    BY <1>0, LimitsAssumption
    DEF DriverInv, Typed, CallInStep, Progress, Waiting, AfterToken, EndOfRead, SendCmd,
        Answered, Checked, Return, EndCmd, local, InitSteps, Registers, Transfers, Steps,
        Heard
  <1> QED BY <1>1, <1>2, <1>3, <1>4, <1>5 DEF DriverInv

(* The block of a register leaves a card that waits for a command.          *)
LEMMA ReadRegisterInv == DriverInv /\ ReadRegister => DriverInv'
PROOF
  <1> SUFFICES ASSUME DriverInv, ReadRegister PROVE DriverInv'
    OBVIOUS
  <1>6. /\ BlockSent \in Cards /\ BlockSent.mode = card.mode /\ BlockSent.cmd = card.cmd
        /\ BlockSent.pos = card.pos + 1
        /\ BlockSent.phase = IF card.cmd = "CMD18" THEN "token" ELSE "standby"
    BY SentFacts DEF DriverInv
  <1>0. Heard(BlockSent, "CMD10", 0, Received(BlockSent, "CMD10", 0))
    <2>1. "CMD10" \in Steps /\ 0 \in Nat
      BY DEF InitSteps, Registers, Transfers, Steps
    <2> QED BY <1>6, <2>1, ReceivedFacts
  <1>1. Typed'
    BY <1>0, LimitsAssumption, <1>6
    DEF DriverInv, Typed, CallInStep, Waiting, ReadRegister, SendCmd, Answered, Checked,
        Return, EndCmd, local, InitSteps, Registers, Transfers, Steps, Heard
  <1>2. CallInStep'
    BY <1>0, LimitsAssumption, <1>6
    DEF DriverInv, Typed, CallInStep, Waiting, ReadRegister, SendCmd, Answered, Checked,
        Return, EndCmd, local, InitSteps, Registers, Transfers, Steps, Heard
  <1>3. CardInStep'
    BY <1>0, LimitsAssumption, <1>6
    DEF DriverInv, Typed, CallInStep, CardInStep, CardAnswers, CardAnswered, Resting, AtBlock,
        Transfer, Waiting, Cards, Phases, ReadRegister, SendCmd, Answered, Checked, Return,
        EndCmd, local, InitSteps, Registers, Transfers, Steps, Heard
  <1>4. CardInitialised'
    BY <1>0, LimitsAssumption, <1>6
    DEF DriverInv, CallInStep, CardInStep, CardAnswers, CardAnswered, CardInitialised,
        Waiting, ReadRegister, SendCmd, Answered, Checked, Return, EndCmd, local, InitSteps,
        Registers, Transfers, Steps, Heard
  <1>5. Progress'
    BY <1>0, LimitsAssumption, <1>6
    DEF DriverInv, Typed, CallInStep, Progress, Waiting, ReadRegister, SendCmd, Answered,
        Checked, Return, EndCmd, local, InitSteps, Registers, Transfers, Steps, Heard
  <1> QED BY <1>1, <1>2, <1>3, <1>4, <1>5 DEF DriverInv

(* A block goes to its place in the buffer; the card is at the next one.    *)
LEMMA ReadBlockInv == DriverInv /\ ReadBlock => DriverInv'
PROOF
  <1> SUFFICES ASSUME DriverInv, ReadBlock PROVE DriverInv'
    OBVIOUS
  <1>1. /\ BlockSent \in Cards /\ BlockSent.mode = card.mode /\ BlockSent.cmd = card.cmd
        /\ BlockSent.pos = card.pos + 1
        /\ BlockSent.phase = IF card.cmd = "CMD18" THEN "token" ELSE "standby"
    BY SentFacts DEF DriverInv
  <1>2. /\ at = "block" /\ call.op = "read" /\ chunk < call.len /\ chunk \in Nat
        /\ call.len \in Nat \ {0} /\ call.sector \in Nat
        /\ card.phase = "data" /\ card.mode = "ready" /\ card.pos = call.sector + chunk
        /\ card.cmd = IF call.len = 1 THEN "CMD17" ELSE "CMD18"
        /\ result # "Ok"
    BY DEF DriverInv, Typed, CallInStep, CardInStep, CardInitialised, AtBlock, Transfer,
           Progress, ReadBlock
  <1>3. /\ buf' = [buf EXCEPT ![chunk + 1] = store[card.pos]]
        /\ chunk' = chunk + 1 /\ UNCHANGED <<answer, store, call, index>>
    BY <1>2 DEF ReadBlock, ChunkAt
  <1>4. store[card.pos] \in Values
    <2>1. chunk + 1 \in 1 .. call.len /\ call.sector + (chunk + 1) - 1 = card.pos
      BY <1>2
    <2>2. call.sector + (chunk + 1) - 1 \in Sectors
      BY <1>2, <2>1 DEF DriverInv, CallInStep
    <2> QED BY <2>1, <2>2 DEF DriverInv, Typed
  <1>5. /\ buf' \in [1 .. call'.len -> Values \cup {None}] /\ chunk' \in 0 .. call'.len
        /\ \A k \in 1 .. chunk' : buf'[k] = store'[call'.sector + k - 1]
    <2>1. buf \in [1 .. call.len -> Values \cup {None}]
      BY DEF DriverInv, Typed
    <2>2. \A k \in 1 .. chunk : buf[k] = store[call.sector + k - 1]
      BY <1>2 DEF DriverInv, Progress
    <2>3. ASSUME NEW k \in 1 .. chunk + 1
          PROVE  buf'[k] = store[call.sector + k - 1]
      <3>1. CASE k = chunk + 1
        <4>1. call.sector + k - 1 = card.pos
          BY <3>1, <1>2
        <4> QED BY <4>1, <3>1, <2>1, <1>2, <1>3
      <3>2. CASE k \in 1 .. chunk
        BY <3>2, <2>1, <2>2, <1>2, <1>3
      <3> QED BY <3>1, <3>2, <1>2
    <2> QED BY <1>2, <1>3, <1>4, <2>1, <2>3
  <1>6. CASE chunk + 1 < call.len
    <2>1. /\ at' = "get_response" /\ step' = "token" /\ timeout' = TIMEOUT
          /\ card' = BlockSent /\ UNCHANGED <<cs, result, failed>>
      BY <1>3, <1>6 DEF ReadBlock, AwaitToken
    <2>2. Typed'
      BY <1>1, <1>3, <1>5, <2>1, LimitsAssumption DEF DriverInv, Typed
    <2>3. CallInStep'
      BY <1>2, <1>3, <1>6, <2>1
      DEF DriverInv, CallInStep, Waiting, Registers, Transfers, InitSteps
    <2>4. CardInStep'
      BY <1>1, <1>2, <1>3, <1>6, <2>1
      DEF CardInStep, CardAnswers, AtBlock, Transfer, Waiting, Registers, Transfers, InitSteps
    <2>5. CardInitialised'
      BY <1>1, <1>2, <2>1 DEF CardInitialised
    <2>6. Progress'
      BY <1>2, <1>3, <1>5, <2>1 DEF DriverInv, Progress
    <2> QED BY <2>2, <2>3, <2>4, <2>5, <2>6 DEF DriverInv
  <1>7. CASE chunk + 1 = call.len /\ call.len > 1
    <2>1. /\ at' = "get_response" /\ step' = "CMD12" /\ timeout' = TIMEOUT
          /\ card' = Received(BlockSent, "CMD12", 0) /\ UNCHANGED result
          /\ cs' = "low" /\ failed' = FALSE
      BY <1>2, <1>3, <1>7 DEF ReadBlock, EndOfRead, SendCmd
    <2>2. "CMD12" \in Steps /\ 0 \in Nat
      BY DEF Steps
    <2>3. Heard(BlockSent, "CMD12", 0, card')
      BY <1>1, <2>1, <2>2, ReceivedFacts
    <2>4. /\ card' \in Cards /\ card'.phase = "answer" /\ card'.cmd = "CMD12"
          /\ card'.mode = "ready"
      BY <1>1, <1>2, <1>7, <2>3 DEF Heard
    <2>5. Typed'
      <3>1. failed' \in BOOLEAN
        BY <2>1, Zenon
      <3> QED BY <1>3, <1>5, <2>1, <2>2, <2>4, <3>1, LimitsAssumption DEF DriverInv, Typed
    <2>6. CallInStep'
      BY <1>2, <1>3, <1>7, <2>1
      DEF DriverInv, CallInStep, Waiting, Registers, Transfers, InitSteps
    <2>7. CardInStep'
      BY <2>1, <2>4
      DEF CardInStep, CardAnswers, Waiting, Registers, Transfers, InitSteps
    <2>8. CardInitialised'
      BY <2>4 DEF CardInitialised
    <2>9. Progress'
      BY <1>2, <1>3, <1>5, <2>1 DEF DriverInv, Progress
    <2> QED BY <2>5, <2>6, <2>7, <2>8, <2>9 DEF DriverInv
  <1>8. CASE call.len = 1
    <2>1. /\ at' = "returned" /\ UNCHANGED <<step, timeout>> /\ result' = "Ok"
          /\ card' = BlockSent /\ cs' = "high" /\ failed' = FALSE
      BY <1>2, <1>3, <1>8 DEF ReadBlock, EndOfRead, Return, EndCmd
    <2>2. Typed'
      <3>1. failed' \in BOOLEAN
        BY <2>1, Zenon
      <3>2. result' \in {"none", "Ok", "Err"} /\ at' \in {"idle", "returned"}
              /\ cs' \in {"high", "low"}
        BY <2>1
      <3> QED BY <1>1, <1>3, <1>5, <2>1, <3>1, <3>2 DEF DriverInv, Typed
    <2>3. CallInStep'
      BY <1>2, <1>3, <2>1 DEF DriverInv, CallInStep, Waiting
    <2>4. CardInStep'
      BY <1>1, <1>2, <1>8, <2>1 DEF CardInStep, Waiting, Resting
    <2>5. CardInitialised'
      BY <1>1, <1>2, <2>1 DEF CardInitialised
    <2>6. Progress'
      BY <1>2, <1>3, <1>5, <1>8, <2>1 DEF DriverInv, Progress
    <2> QED BY <2>2, <2>3, <2>4, <2>5, <2>6 DEF DriverInv
  <1> QED BY <1>2, <1>6, <1>7, <1>8

(* A poll that brings an answer brings the card to the phase it says.       *)
LEMMA GetResponseInv == DriverInv /\ GetResponse => DriverInv'
PROOF
  <1> SUFFICES ASSUME DriverInv, GetResponse PROVE DriverInv'
    OBVIOUS
  <1>1. PICK given \in Polled :
           /\ card' = given.card
           /\ IF given.byte = "FF" /\ timeout > 1
              THEN timeout' = timeout - 1 /\ UNCHANGED <<at, answer>>
              ELSE answer' = given.byte /\ at' = "answered" /\ UNCHANGED timeout
    BY Zenon DEF GetResponse, PollsLeft
  <1>2. Typed /\ at = "get_response" /\ UNCHANGED <<step, result, cs, store, local>>
    BY DEF DriverInv, GetResponse
  <1>3. UNCHANGED <<call, index, chunk, buf, failed>>
    BY <1>2 DEF local
  <1>4. card.phase \in {"standby", "answer", "token", "receive"}
    BY <1>2 DEF DriverInv, Typed, CallInStep, CardInStep, CardAnswers, Resting, Waiting, Steps,
                Cards, Phases
  <1>5. /\ card' \in Cards /\ card'.cmd = card.cmd /\ card'.pos = card.pos
        /\ given.byte \in {"FF", "00", "01", "FE", "05", "error"}
        /\ given.byte = "FF" => card' = card
        /\ card.phase \in {"standby", "receive"} => given.byte = "FF"
        /\ card.phase = "token" =>
             \/ given.byte = "FF"
             \/ given.byte = "FE" /\ card'.phase = "data"
             \/ given.byte = "error" /\ card'.phase = "standby"
        /\ card.phase # "answer" => card'.mode = card.mode
        /\ card.phase = "answer" => given.byte = "FF" \/ given \in R1Answers
    BY <1>1, <1>2, <1>4, PollFacts
  <1>6. given \in R1Answers /\ card.phase = "answer" =>
           /\ given.byte \in {"00", "01", "error"}
           /\ card'.phase \in {"standby", "token", "receive"}
           /\ card'.phase = "token" => card.cmd \in Registers \cup {"CMD17", "CMD18"}
           /\ card'.phase = "receive" => card.cmd \in {"CMD24", "CMD25"}
           /\ given.byte = "00" => card'.mode = "ready"
           /\ card.mode = "ready" /\ card.cmd # "CMD0" => card'.mode = "ready"
    BY <1>1, <1>2, R1Facts
  <1>7. Typed'
    <2>1. timeout' \in 1 .. TIMEOUT
      BY <1>1, <1>2, LimitsAssumption DEF Typed
    <2>2. answer' \in {"FF", "00", "01", "FE", "05", "error"}
            /\ at' \in {"get_response", "answered"}
      BY <1>1, <1>2, <1>5 DEF Typed
    <2> QED BY <1>2, <1>3, <1>5, <2>1, <2>2 DEF Typed
  <1>8. CallInStep'
    BY <1>1, <1>2, <1>3 DEF DriverInv, CallInStep, Waiting
  <1>9. CardInStep'
    <2>1. CASE card' = card /\ at' = "get_response"
      BY <1>2, <1>3, <2>1
      DEF DriverInv, CardInStep, CardAnswers, Resting, AtBlock, Transfer, Waiting
    <2>2. CASE given.byte = "FF" /\ at' = "answered" /\ answer' = "FF" /\ card' = card
      BY <1>2, <1>3, <2>2
      DEF DriverInv, CardInStep, CardAnswers, CardAnswered, Resting, AtBlock, Transfer, Waiting
    <2>0. step \in Steps \cup {"token"}
      BY <1>2 DEF DriverInv, Typed, CallInStep, Waiting
    <2>3. CASE /\ given.byte # "FF" /\ at' = "answered" /\ answer' = given.byte
               /\ card.phase = "token"
      BY <1>2, <1>3, <1>5, <2>0, <2>3
      DEF DriverInv, Steps, CardInStep, CardAnswers, CardAnswered, Resting, AtBlock, Transfer, Waiting,
          InitSteps, Registers, Transfers
    <2>4. CASE /\ given.byte # "FF" /\ at' = "answered" /\ answer' = given.byte
               /\ card.phase = "answer"
      BY <1>2, <1>3, <1>5, <1>6, <2>0, <2>4
      DEF DriverInv, Steps, CardInStep, CardAnswers, CardAnswered, Resting, AtBlock, Transfer, Waiting,
          InitSteps, Registers, Transfers
    <2> QED BY <1>1, <1>2, <1>4, <1>5, <2>1, <2>2, <2>3, <2>4
  <1>10. CardInitialised'
    <2>1. step \notin InitSteps => card.mode = "ready"
      BY <1>2 DEF DriverInv, CardInitialised, Waiting
    <2>2. step \notin InitSteps /\ card.phase = "answer" => card.cmd # "CMD0"
      BY <1>2 DEF DriverInv, Typed, CallInStep, CardInStep, CardAnswers, Resting, Waiting,
                  InitSteps, Registers, Transfers, Steps
    <2>3. step \notin InitSteps => card'.mode = "ready"
      BY <2>1, <2>2, <1>5, <1>6
    <2> QED BY <2>3, <1>1, <1>2 DEF CardInitialised, Waiting
  <1>11. Progress'
    BY <1>1, <1>2, <1>3 DEF DriverInv, Progress
  <1> QED BY <1>7, <1>8, <1>9, <1>10, <1>11 DEF DriverInv

(* A block that the card accepts is on the card (GetDataResponse).          *)
LEMMA GetDataResponseInv == DriverInv /\ GetDataResponse => DriverInv'
PROOF
  <1> SUFFICES ASSUME DriverInv, GetDataResponse PROVE DriverInv'
    OBVIOUS
  <1>1. PICK given \in Polled :
           IF given.byte = "05"
           THEN /\ card' = given.card /\ store' = Programmed(given.card)
                /\ at' = "wait" /\ UNCHANGED <<step, timeout, result, cs>>
           ELSE Return(given.card, "Err") /\ store' = Programmed(given.card)
    BY Zenon DEF GetDataResponse, Accepted
  <1>2. /\ Typed /\ at = "get_dataresponse" /\ call.op = "write" /\ chunk < call.len
        /\ UNCHANGED <<answer, call, index, chunk, buf, failed>>
        /\ card.mode = "ready"
        /\ \/ card.phase = "standby"
           \/ card.phase = "respond" /\ AtBlock /\ card.block = buf[chunk + 1]
    BY DEF DriverInv, CallInStep, CardInStep, CardInitialised, GetDataResponse, local
  <1>3. /\ given.card \in Cards /\ given.card.cmd = card.cmd /\ given.card.pos = card.pos
        /\ given.card.mode = card.mode
        /\ given.byte = "05" => card.phase = "respond" /\ given.card.phase = "program"
        /\ given.byte # "05" => given.card.phase # "program"
    BY <1>2, PollFacts
  <1>4. chunk + 1 \in 1 .. call.len /\ buf[chunk + 1] \in Values
    BY <1>2 DEF Typed, DriverInv, CallInStep
  <1>5. CASE given.byte = "05"
    <2>1. card' = given.card /\ at' = "wait" /\ UNCHANGED <<step, timeout, result, cs>>
      BY <1>1, <1>5
    <2>2. card.pos = call.sector + chunk /\ card.pos \in Sectors
      <3>1. call.sector + (chunk + 1) - 1 = call.sector + chunk
        BY <1>2 DEF Typed
      <3>2. call.sector + (chunk + 1) - 1 \in Sectors
        BY <1>2, <1>4 DEF DriverInv, CallInStep
      <3>3. card.pos = call.sector + chunk
        BY <1>2, <1>3, <1>5 DEF AtBlock
      <3> QED BY <3>1, <3>2, <3>3
    <2>3. store' = [store EXCEPT ![card.pos] = buf[chunk + 1]]
      BY <1>1, <1>2, <1>3, <1>5 DEF Programmed
    <2>4. store' \in [Sectors -> Values] /\ store'[card.pos] = buf[chunk + 1]
      BY <1>2, <1>4, <2>2, <2>3 DEF Typed
    <2>5. \A k \in 1 .. chunk : buf[k] = store'[call.sector + k - 1]
      <3> SUFFICES ASSUME NEW k \in 1 .. chunk
                   PROVE  buf[k] = store'[call.sector + k - 1]
        OBVIOUS
      <3>1. k \in 1 .. call.len /\ call.sector + k - 1 # card.pos
        BY <1>2, <2>2 DEF Typed
      <3>2. call.sector + k - 1 \in Sectors
        BY <1>2, <3>1 DEF DriverInv, CallInStep
      <3>3. buf[k] = store[call.sector + k - 1]
        BY <1>2 DEF DriverInv, Progress
      <3> QED BY <1>2, <2>3, <3>1, <3>2, <3>3 DEF Typed
    <2>6. Typed'
      BY <1>2, <1>3, <2>1, <2>4 DEF Typed
    <2>7. CallInStep'
      BY <1>2, <2>1 DEF DriverInv, CallInStep, Waiting
    <2>8. CardInStep'
      BY <1>2, <1>3, <1>5, <2>1, <2>2, <2>4 DEF CardInStep, AtBlock, Transfer, Waiting
    <2>9. CardInitialised'
      BY <1>2, <1>3, <2>1 DEF CardInitialised
    <2>10. Progress'
      BY <1>2, <2>1, <2>5 DEF DriverInv, Progress
    <2> QED BY <2>6, <2>7, <2>8, <2>9, <2>10 DEF DriverInv
  <1>6. CASE given.byte # "05"
    <2>1. /\ card' = given.card /\ at' = "returned" /\ result' = "Err" /\ cs' = "high"
          /\ UNCHANGED <<step, timeout>>
      BY <1>1, <1>6 DEF Return, EndCmd
    <2>2. UNCHANGED store
      BY <1>1, <1>3, <1>6 DEF Programmed
    <2>3. Typed'
      BY <1>2, <1>3, <2>1, <2>2 DEF Typed
    <2>4. CallInStep'
      BY <1>2, <2>1 DEF DriverInv, CallInStep, Waiting
    <2>5. CardInStep' /\ CardInitialised'
      BY <2>1 DEF CardInStep, CardInitialised, Waiting
    <2>6. Progress'
      BY <1>2, <2>1, <2>2 DEF DriverInv, Progress
    <2> QED BY <2>3, <2>4, <2>5, <2>6 DEF DriverInv
  <1> QED BY <1>5, <1>6

(* A block is done when the card has programmed it (WaitNull).              *)
LEMMA WaitNullInv == DriverInv /\ WaitNull => DriverInv'
PROOF
  <1> SUFFICES ASSUME DriverInv, WaitNull PROVE DriverInv'
    OBVIOUS
  <1>1. PICK given \in Polled :
          IF given.byte = "00"
          THEN card' = given.card /\ UNCHANGED <<at, step, timeout, result, cs, chunk>>
          ELSE /\ chunk' = chunk + 1
               /\ IF chunk' < call.len
                  THEN at' = "send" /\ card' = given.card
                       /\ UNCHANGED <<step, timeout, result, cs>>
                  ELSE Return(given.card, "Ok")
    BY Zenon DEF WaitNull, Busy
  <1>2. /\ Typed /\ at = "wait" /\ call.op = "write" /\ chunk < call.len
        /\ UNCHANGED <<answer, store, call, index, buf, failed>>
        /\ card.mode = "ready" /\ card.phase = "program" /\ result # "Ok"
        /\ card.cmd = IF call.len = 1 THEN "CMD24" ELSE "CMD25"
        /\ card.pos = call.sector + chunk /\ store[card.pos] = buf[chunk + 1]
    BY DEF DriverInv, CallInStep, CardInStep, CardInitialised, AtBlock, Transfer, Progress,
           WaitNull
  <1>3. /\ given.card \in Cards /\ given.card.cmd = card.cmd /\ given.card.mode = card.mode
        /\ \/ given.byte = "00" /\ given.card = card
           \/ /\ given.byte = "FF"
              /\ IF card.cmd = "CMD25"
                 THEN given.card.phase = "receive" /\ given.card.pos = card.pos + 1
                 ELSE given.card.phase = "standby" /\ given.card.pos = card.pos
    BY <1>2, PollFacts
  <1>4. CASE given.byte = "00"
    <2>1. card' = card /\ UNCHANGED <<at, step, timeout, result, cs, chunk>>
      BY <1>1, <1>3, <1>4
    <2> QED BY <1>2, <2>1 DEF DriverInv, Typed, CallInStep, CardInStep, CardAnswers, CardAnswered,
                 CardInitialised, Progress, AtBlock, Transfer, Resting, Waiting
  <1>5. CASE given.byte # "00"
    <2>1. chunk' = chunk + 1 /\ chunk' \in 0 .. call'.len /\ chunk \in Nat
            /\ call.len \in Nat /\ call.sector \in Nat
      BY <1>1, <1>2, <1>5 DEF Typed
    <2>2. \A k \in 1 .. chunk' : buf'[k] = store'[call'.sector + k - 1]
      <3> SUFFICES ASSUME NEW k \in 1 .. chunk'
                   PROVE  buf[k] = store[call.sector + k - 1]
        BY <1>2
      <3>1. CASE k = chunk + 1
        <4>1. call.sector + k - 1 = card.pos
          BY <1>2, <2>1, <3>1
        <4> QED BY <1>2, <3>1, <4>1
      <3>2. CASE k \in 1 .. chunk
        BY <1>2, <3>2 DEF DriverInv, Progress
      <3> QED BY <2>1, <3>1, <3>2
    <2>3. CASE chunk' < call.len
      <3>1. at' = "send" /\ card' = given.card /\ UNCHANGED <<step, timeout, result, cs>>
        BY <1>1, <1>5, <2>3
      <3>2. Typed'
        BY <1>2, <1>3, <2>1, <3>1 DEF Typed
      <3>3. CallInStep'
        BY <1>2, <2>1, <2>3, <3>1 DEF DriverInv, CallInStep, Waiting
      <3>4. CardInStep'
        BY <1>2, <1>3, <1>5, <2>1, <2>3, <3>1 DEF CardInStep, AtBlock, Transfer, Waiting
      <3>5. CardInitialised'
        BY <1>2, <1>3, <3>1 DEF CardInitialised
      <3>6. Progress'
        BY <1>2, <2>2, <3>1 DEF DriverInv, Progress
      <3> QED BY <3>2, <3>3, <3>4, <3>5, <3>6 DEF DriverInv
    <2>4. CASE ~(chunk' < call.len)
      <3>1. /\ at' = "returned" /\ result' = "Ok" /\ cs' = "high" /\ card' = given.card
            /\ UNCHANGED <<step, timeout>>
        BY <1>1, <1>5, <2>4 DEF Return, EndCmd
      <3>2. Typed'
        BY <1>2, <1>3, <2>1, <3>1 DEF Typed
      <3>3. CallInStep'
        BY <1>2, <3>1 DEF DriverInv, CallInStep, Waiting
      <3>4. CardInStep'
        BY <1>2, <1>3, <1>5, <2>1, <3>1 DEF CardInStep, Resting, Waiting
      <3>5. CardInitialised'
        BY <1>2, <1>3, <3>1 DEF CardInitialised
      <3>6. Progress'
        BY <1>2, <2>1, <2>2, <2>4, <3>1 DEF DriverInv, Progress
      <3> QED BY <3>2, <3>3, <3>4, <3>5, <3>6 DEF DriverInv
    <2> QED BY <2>3, <2>4
  <1> QED BY <1>4, <1>5

(* A new call starts with a card that rests, and an empty progress.         *)
LEMMA CallInv == DriverInv /\ Call => DriverInv'
PROOF
  <1> SUFFICES ASSUME DriverInv, NEW sector \in Sectors, NEW len \in Lens,
                      ReadSector(sector, len) \/ WriteSector(sector, len)
               PROVE  DriverInv'
    BY DEF Call
  <1>1. sector \in Nat /\ len \in Nat \ {0}
    BY SectorsAssumption
  <1>2. PICK op \in {"read", "write"}, cmd \in {"CMD17", "CMD18", "CMD24", "ACMD23"} :
          /\ at = "idle" /\ sector + len - 1 \in Sectors
          /\ call' = [op |-> op, sector |-> sector, len |-> len]
          /\ chunk' = 0 /\ failed' = FALSE /\ result' = "none"
          /\ UNCHANGED <<answer, store, index>>
          /\ SendCmd(card, cmd, sector)
          /\ op = "read" <=> cmd \in {"CMD17", "CMD18"}
          /\ len = 1 <=> cmd \in {"CMD17", "CMD24"}
          /\ buf' \in [1 .. len -> Values \cup {None}]
          /\ op = "write" => buf' \in [1 .. len -> Values]
    <2>1. CASE ReadSector(sector, len)
      BY <2>1 DEF ReadSector, Called
    <2>2. CASE WriteSector(sector, len)
      BY <2>2 DEF WriteSector, Called
    <2> QED BY <2>1, <2>2
  <1>3. \A k \in 1 .. len : sector + k - 1 \in Sectors
    <2> SUFFICES ASSUME NEW k \in 1 .. len PROVE sector + k - 1 \in Sectors
      OBVIOUS
    <2>1. sector + k - 1 \in 0 .. sector + len - 1
      BY <1>1
    <2> QED BY <1>2, <2>1, SectorsAssumption
  <1>4. /\ card' \in Cards /\ card'.mode = card.mode
        /\ IF card.phase = "standby" THEN card'.phase = "answer" /\ card'.cmd = cmd /\ card'.pos = sector
           ELSE card' = card
    <2>1. card \in Cards /\ cmd \in Steps /\ cmd # "CMD12"
      BY DEF DriverInv, Typed, Steps, Transfers
    <2>2. Heard(card, cmd, sector, card')
      BY <2>1, <1>1, <1>2, ReceivedFacts DEF SendCmd
    <2> QED BY <2>1, <2>2 DEF Heard
  <1>5. cs' = "low" /\ step' = cmd /\ timeout' = TIMEOUT /\ at' = "get_response"
    BY <1>2 DEF SendCmd
  <1>6. call'.op = op /\ call'.sector = sector /\ call'.len = len
    BY <1>2
  <1>7. Typed'
    <2>1. failed' \in BOOLEAN
      BY <1>2, Zenon
    <2>2. call' \in [op : {"init", "CMD9", "CMD10", "read", "write"}, sector : Nat, len : Nat]
      BY <1>1, <1>2
    <2>3. timeout' \in 1 .. TIMEOUT
      BY <1>5, LimitsAssumption
    <2>4. chunk' \in 0 .. call'.len
      BY <1>1, <1>2, <1>6
    <2>5. step' \in Steps
      BY <1>5 DEF Steps, Transfers
    <2> QED BY <1>2, <1>4, <1>5, <1>6, <2>1, <2>2, <2>3, <2>4, <2>5 DEF DriverInv, Typed
  <1>8. CallInStep'
    <2>1. op = "write" => \A k \in 1 .. len : buf'[k] \in Values
      BY <1>2
    <2> QED BY <1>1, <1>2, <1>3, <1>5, <1>6, <2>1
            DEF CallInStep, Waiting, InitSteps, Registers
  <1>9. CardInStep'
    <2>1. Resting
      BY <1>2 DEF DriverInv, CardInStep
    <2> QED BY <1>4, <1>5, <1>6, <2>1
            DEF CardInStep, CardAnswers, Resting, Waiting, InitSteps, Registers, Transfers
  <1>10. CardInitialised'
    BY <1>2, <1>4 DEF DriverInv, CardInitialised
  <1>11. Progress'
    BY <1>2, <1>5 DEF Progress
  <1> QED BY <1>7, <1>8, <1>9, <1>10, <1>11 DEF DriverInv

-----------------------------------------------------------------------------
(* Driver and card stay in step in every state of the driver, over late,    *)
(* missing and refusing answers (sdcard.rs).                                *)
THEOREM DriverInvariance == Spec => []DriverInv
PROOF
  <1>1. DriverInv /\ [Next]_vars => DriverInv'
    <2> SUFFICES ASSUME DriverInv, [Next]_vars PROVE DriverInv'
      OBVIOUS
    <2>1. CASE UNCHANGED vars
      BY <2>1 DEF DriverInv, Typed, CallInStep, CardInStep, CardAnswers, CardAnswered,
                  CardInitialised, Progress, AtBlock, Transfer, Resting, Waiting, vars, local
    <2> QED
      BY <2>1, CallInv, StartInitInv, AfterCmd0Inv, AfterCmd8Inv, AfterCmd55Inv, AfterAcmd41Inv,
         AfterCmd58Inv, AfterRegisterInv, ReadRegisterInv, GetResponseInv, AfterReadInv,
         AfterTokenInv, ReadBlockInv, AfterCmd12Inv, AfterAcmd23Inv, AfterWriteInv, SendBlockInv,
         GetDataResponseInv, WaitNullInv, UnwrapInv
      DEF Next, Step
  <1> QED BY <1>1, InitInv, PTL DEF Spec

(* Between calls the card is deselected, initialised and, behind a call for *)
(* one sector, waits for a command; the loops of get_response and of init   *)
(* stay within any limits.                                                  *)
THEOREM DriverConsistentCorrect == Spec => []DriverConsistent
PROOF
  <1>1. DriverInv => DriverConsistent
    <2> SUFFICES ASSUME DriverInv PROVE DriverConsistent
      OBVIOUS
    <2>1. buf \in Seq(Values \cup {None})
      BY SeqDef DEF DriverInv, Typed
    <2>2. card.mode \in {"off", "idle", "ready"}
      BY DEF DriverInv, Typed, Cards
    <2>3. CardReadyBetweenCalls
      BY DEF DriverInv, CardInStep, CardInitialised, Progress, CardReadyBetweenCalls
    <2> QED BY <2>1, <2>2, <2>3 DEF DriverInv, Typed, DriverConsistent, TypeOK
  <1> QED BY <1>1, DriverInvariance, PTL

(* A read or write of any number of sectors that returns Ok has transferred *)
(* every one of them (read_sector, write_sector).                           *)
THEOREM OkMeansDoneCorrect == Spec => []OkMeansDone
PROOF
  <1>1. DriverInv => OkMeansDone
    BY DEF DriverInv, Progress, OkMeansDone
  <1> QED BY <1>1, DriverInvariance, PTL

=============================================================================
