------------------------------- MODULE SdCard -------------------------------
(***************************************************************************)
(* The SD card driver of the K210 board (sdcard.rs): commands over SPI,    *)
(* each with its answer awaited for a bounded number of polls, blocks with *)
(* their tokens, checksums and data responses, and the unbounded wait for  *)
(* a card that is programming.  The card, which is external, may delay an  *)
(* answer, never give it, refuse a command or a block, and fail a read; it *)
(* does one thing per byte that the driver clocks.                         *)
(*                                                                         *)
(* A byte is named by what it means: "FF" is the idle line, "00" and "01"  *)
(* are R1 answers, "FE" and "FC" data tokens, "05" the accepted data       *)
(* response, "error" every other byte.  SDCardWrapper unwraps every        *)
(* result, so the first Err is the last thing the driver does.             *)
(***************************************************************************)
EXTENDS Integers, Sequences

CONSTANTS Sectors,  \* 0 .. n
          Values,   \* what a sector may hold
          Lens,     \* sectors per call
          TIMEOUT,  \* polls per answer, 0x0FFF in the code
          RETRIES,  \* rounds of ACMD41 and of CMD58, 255 in the code
          None

ASSUME LimitsAssumption == TIMEOUT \in Nat \ {0} /\ RETRIES \in Nat \ {0}

ASSUME SectorsAssumption ==
    /\ Sectors \subseteq Nat /\ \A n \in Sectors : 0 .. n \subseteq Sectors
    /\ Lens \subseteq Nat \ {0}

VARIABLES at,       \* where the driver is
          call,     \* [op, sector, len] of the call in progress, or the last
          step,     \* the command or token whose answer is awaited
          answer,   \* the byte get_response returned
          timeout, index, chunk, buf,
          failed,   \* read_sector's error
          result,   \* of the call: "none", "Ok" or "Err"
          cs,       \* the chip select pin, "high" is deselected
          card,     \* [phase, mode, cmd, pos, block]
          store     \* what the sectors hold

local == <<call, index, chunk, buf, failed>>

vars == <<at, step, answer, timeout, result, cs, card, store, local>>

(* phase: what the card is about to do; mode: how far its initialisation    *)
(* is; cmd, pos, block: the command, its sector and the block received.     *)
Init ==
    /\ at = "boot" /\ step = "none" /\ answer = "FF" /\ timeout = TIMEOUT
    /\ call = [op |-> "init", sector |-> 0, len |-> 0]
    /\ index = 0 /\ chunk = 0 /\ buf = <<>> /\ failed = FALSE /\ result = "none"
    /\ cs \in {"high", "low"}
    /\ card = [phase |-> "standby", mode |-> "off", cmd |-> "none", pos |-> 0, block |-> None]
    /\ store \in [Sectors -> Values]

-----------------------------------------------------------------------------
(* The card (external).                                                     *)

(* It takes a command when it waits for one, and the stop command while it  *)
(* sends blocks; busy or in the middle of a write it ignores commands.      *)
Received(c, cmd, sector) ==
    IF c.phase = "standby" \/ (c.phase = "token" /\ cmd = "CMD12")
    THEN [c EXCEPT !.phase = "answer", !.cmd = cmd, !.pos = sector]
    ELSE c

Gives(byte, next) == [byte |-> byte, card |-> next]

(* The answers it can give to the command it has.                           *)
R1Answers ==
    LET in(phase, mode) == [card EXCEPT !.phase = phase, !.mode = mode]
        own == IF card.mode = "ready" THEN "00" ELSE "01"
    IN  {Gives("error", in("standby", card.mode))} \cup
        CASE card.cmd = "CMD0" -> {Gives("01", in("standby", "idle"))}
          [] card.cmd = "ACMD41" /\ card.mode = "idle" ->
                {Gives("01", in("standby", "idle")), Gives("00", in("standby", "ready"))}
          [] card.cmd \in {"CMD9", "CMD10", "CMD17", "CMD18"} /\ card.mode = "ready" ->
                {Gives("00", in("token", "ready"))}
          [] card.cmd \in {"CMD24", "CMD25"} /\ card.mode = "ready" ->
                {Gives("00", in("receive", "ready"))}
          [] OTHER -> {Gives(own, in("standby", card.mode))}

(* The bytes the next eight clocks may bring.                               *)
Polled ==
    LET in(phase) == [card EXCEPT !.phase = phase]
    IN  CASE card.phase = "answer"  -> {Gives("FF", card)} \cup R1Answers
          [] card.phase = "token"   -> {Gives("FF", card), Gives("FE", in("data")),
                                        Gives("error", in("standby"))}
          [] card.phase = "respond" -> {Gives("05", in("program")), Gives("error", in("standby"))}
          [] card.phase = "program" ->
                {Gives("00", card),
                 Gives("FF", IF card.cmd = "CMD25" THEN [in("receive") EXCEPT !.pos = @ + 1]
                             ELSE in("standby"))}
          [] OTHER -> {Gives("FF", card)}

(* A block after its token: sector card.pos, then the next for CMD18.       *)
BlockSent == [card EXCEPT !.phase = IF card.cmd = "CMD18" THEN "token" ELSE "standby",
                          !.pos = @ + 1]

(* A block received behind the token that belongs to the command.           *)
BlockReceived(token, value) ==
    IF card.phase = "receive" /\ token = (IF card.cmd = "CMD25" THEN "FC" ELSE "FE")
    THEN [card EXCEPT !.phase = "respond", !.block = value] ELSE card

(* A card that has accepted a block has it.                                 *)
Programmed(next) ==
    IF card.phase = "respond" /\ next.phase = "program"
    THEN [store EXCEPT ![card.pos] = card.block] ELSE store

-----------------------------------------------------------------------------
(* Helpers of the driver; c is the card as the bytes before left it.        *)

(* send_cmd: select the chip, clock the command out, and await its answer.  *)
SendCmd(c, cmd, sector) ==
    /\ cs' = "low"
    /\ card' = Received(c, cmd, sector)
    /\ step' = cmd /\ timeout' = TIMEOUT /\ at' = "get_response"

(* get_response again, for the token in front of a block.                   *)
AwaitToken(c) ==
    /\ step' = "token" /\ timeout' = TIMEOUT /\ at' = "get_response"
    /\ card' = c
    /\ UNCHANGED cs

(* The pin as end_cmd leaves it.                                            *)
EndCmd(pin) == "high"

(* end_cmd, and the result of the call.                                     *)
Return(c, r) ==
    /\ cs' = EndCmd(cs)
    /\ result' = r /\ at' = "returned"
    /\ card' = c
    /\ UNCHANGED <<step, timeout>>

Checked(ok, goOn) == IF ok THEN goOn /\ UNCHANGED result ELSE Return(card, "Err")

(* The wrapper, and init_sdcard, unwrap the result.                         *)
Unwrap ==
    /\ at = "returned"
    /\ at' = IF result = "Ok" THEN "idle" ELSE "panic"
    /\ UNCHANGED <<step, answer, timeout, result, cs, card, store, local>>

(* Whether the loop of get_response goes on when n polls were left.         *)
PollsLeft(n) == n > 1

(* One poll of get_response.                                                *)
GetResponse ==
    /\ at = "get_response"
    /\ \E given \in Polled :
          /\ card' = given.card
          /\ IF given.byte = "FF" /\ PollsLeft(timeout)
             THEN timeout' = timeout - 1 /\ UNCHANGED <<at, answer>>
             ELSE answer' = given.byte /\ at' = "answered" /\ UNCHANGED timeout
    /\ UNCHANGED <<step, result, cs, store, local>>

Answered(steps) == at = "answered" /\ step \in steps /\ UNCHANGED <<answer, store>>

-----------------------------------------------------------------------------
(* init.  Every command is ended (end_cmd) before the next.                 *)

StartInit ==
    /\ at = "boot"
    /\ SendCmd(card, "CMD0", 0)
    /\ UNCHANGED <<answer, result, store, local>>

AfterCmd0 ==
    /\ Answered({"CMD0"})
    /\ Checked(answer = "01", SendCmd(card, "CMD8", 0))
    /\ UNCHANGED local

AfterCmd8 ==
    /\ Answered({"CMD8"})
    /\ Checked(answer = "01", SendCmd(card, "CMD55", 0))
    /\ index' = RETRIES
    /\ UNCHANGED <<call, chunk, buf, failed>>

AfterCmd55 ==
    /\ Answered({"CMD55"})
    /\ Checked(answer = "01", SendCmd(card, "ACMD41", 0))
    /\ UNCHANGED local

(* ACMD41 says that the initialisation is over.                             *)
Initialised(byte) == byte = "00"

(* A loop of at most RETRIES rounds, that the answer 00 leaves.             *)
AfterAcmd41 ==
    /\ Answered({"ACMD41"})
    /\ IF Initialised(answer)
       THEN SendCmd(card, "CMD58", 0) /\ index' = RETRIES /\ UNCHANGED result
       ELSE index' = index - 1 /\ Checked(index' # 0, SendCmd(card, "CMD55", 0))
    /\ UNCHANGED <<call, chunk, buf, failed>>

(* The same for CMD58.  The capacity bit it reads decides whether the card  *)
(* can be used; then the CSD register is asked for.                         *)
AfterCmd58 ==
    /\ Answered({"CMD58"})
    /\ IF answer = "00"
       THEN /\ \E highCapacity \in BOOLEAN : Checked(highCapacity, SendCmd(card, "CMD9", 0))
            /\ UNCHANGED index
       ELSE index' = index - 1 /\ Checked(index' # 0, SendCmd(card, "CMD58", 0))
    /\ UNCHANGED <<call, chunk, buf, failed>>

(* get_csdregister and get_cidregister: the answer, then a block.           *)
AfterRegister ==
    /\ Answered({"CMD9", "CMD10"})
    /\ Checked(answer = "00", AwaitToken(card))
    /\ call' = [call EXCEPT !.op = step]
    /\ UNCHANGED <<index, chunk, buf, failed>>

-----------------------------------------------------------------------------
(* read_sector.                                                             *)

Called(op, sector, len) ==
    /\ at = "idle"
    /\ sector + len - 1 \in Sectors
    /\ call' = [op |-> op, sector |-> sector, len |-> len]
    /\ chunk' = 0 /\ failed' = FALSE /\ result' = "none"
    /\ UNCHANGED <<answer, store, index>>

(* CMD17 for one sector, CMD18 for more.                                    *)
ReadSector(sector, len) ==
    /\ Called("read", sector, len)
    /\ buf' = [k \in 1 .. len |-> None]
    /\ SendCmd(card, IF len = 1 THEN "CMD17" ELSE "CMD18", sector)

AfterRead ==
    /\ Answered({"CMD17", "CMD18"})
    /\ Checked(answer = "00", AwaitToken(card))
    /\ UNCHANGED local

(* The end of the transfer: more than one sector is stopped with CMD12.     *)
EndOfRead(c, error) ==
    /\ failed' = error
    /\ IF call.op = "read" /\ call.len > 1 THEN SendCmd(c, "CMD12", 0) /\ UNCHANGED result
       ELSE Return(c, IF error THEN "Err" ELSE "Ok")

(* The first byte that is not FF has to be the token.                       *)
AfterToken ==
    /\ Answered({"token"})
    /\ IF answer = "FE"
       THEN at' = "block" /\ UNCHANGED <<cs, card, step, timeout, result, failed>>
       ELSE EndOfRead(card, TRUE)
    /\ UNCHANGED <<call, index, chunk, buf>>

(* The block of a register: the CID register after the CSD register.        *)
ReadRegister ==
    /\ at = "block" /\ call.op \in {"CMD9", "CMD10"}
    /\ IF call.op = "CMD9" THEN SendCmd(BlockSent, "CMD10", 0) /\ UNCHANGED result
       ELSE Return(BlockSent, "Ok")
    /\ UNCHANGED <<answer, store, local>>

(* Mutant: every block goes to the start of the buffer.                     *)
FirstChunk(k) == 1

(* The chunk of the buffer that a block goes to.                            *)
ChunkAt(k) == k + 1

(* A block and its checksum; then the next token, or the end.               *)
ReadBlock ==
    /\ at = "block" /\ call.op = "read"
    /\ buf' = [buf EXCEPT ![ChunkAt(chunk)] =
                    IF card.phase = "data" THEN store[card.pos] ELSE None]
    /\ chunk' = chunk + 1
    /\ IF chunk' < call.len THEN AwaitToken(BlockSent) /\ UNCHANGED <<result, failed>>
       ELSE EndOfRead(BlockSent, FALSE)
    /\ UNCHANGED <<answer, store, call, index>>

(* CMD12 is ended twice, whatever its answer.                               *)
AfterCmd12 ==
    /\ Answered({"CMD12"})
    /\ Return(card, IF failed THEN "Err" ELSE "Ok")
    /\ UNCHANGED local

-----------------------------------------------------------------------------
(* write_sector.                                                            *)

(* CMD24 for one sector; ACMD23, without the CMD55 that makes a command an  *)
(* application command, and CMD25 for more.                                 *)
WriteSector(sector, len) ==
    /\ Called("write", sector, len)
    /\ buf' \in [1 .. len -> Values]
    /\ SendCmd(card, IF len = 1 THEN "CMD24" ELSE "ACMD23", sector)

AfterAcmd23 ==
    /\ Answered({"ACMD23"})
    /\ SendCmd(card, "CMD25", call.sector)
    /\ UNCHANGED <<result, local>>

AfterWrite ==
    /\ Answered({"CMD24", "CMD25"})
    /\ Checked(answer = "00", at' = "send" /\ UNCHANGED <<cs, card, step, timeout>>)
    /\ UNCHANGED local

(* Token, block and two bytes that stand for a checksum.                    *)
SendBlock ==
    /\ at = "send"
    /\ card' = BlockReceived(IF call.len = 1 THEN "FE" ELSE "FC", buf[chunk + 1])
    /\ at' = "get_dataresponse"
    /\ UNCHANGED <<step, answer, timeout, result, cs, store, local>>

(* The response, masked with 1F, is 5.                                      *)
Accepted(byte) == byte = "05"

(* The first byte of get_dataresponse decides.                              *)
GetDataResponse ==
    /\ at = "get_dataresponse"
    /\ \E given \in Polled :
          IF Accepted(given.byte)
          THEN /\ card' = given.card
               /\ store' = Programmed(given.card)
               /\ at' = "wait" /\ UNCHANGED <<step, timeout, result, cs>>
          ELSE Return(given.card, "Err") /\ store' = Programmed(given.card)
    /\ UNCHANGED <<answer, local>>

(* Mutant: the driver does not wait for the card.                           *)
NotAwaited(byte) == FALSE

(* Mutant: it waits for the line to go low.                                 *)
WaitsForLow(byte) == byte = "FF"

(* The line is low while the card is busy.                                  *)
Busy(byte) == byte = "00"

(* One poll of the wait for a card that programs: no timeout here.          *)
WaitNull ==
    /\ at = "wait"
    /\ \E given \in Polled :
          IF Busy(given.byte)
          THEN card' = given.card /\ UNCHANGED <<at, step, timeout, result, cs, chunk>>
          ELSE /\ chunk' = chunk + 1
               /\ IF chunk' < call.len
                  THEN at' = "send" /\ card' = given.card
                       /\ UNCHANGED <<step, timeout, result, cs>>
                  ELSE Return(given.card, "Ok")
    /\ UNCHANGED <<answer, store, call, index, buf, failed>>

Call == \E sector \in Sectors, len \in Lens :
            ReadSector(sector, len) \/ WriteSector(sector, len)

Step ==
    \/ StartInit \/ AfterCmd0 \/ AfterCmd8 \/ AfterCmd55 \/ AfterAcmd41 \/ AfterCmd58
    \/ AfterRegister \/ ReadRegister \/ GetResponse
    \/ AfterRead \/ AfterToken \/ ReadBlock \/ AfterCmd12
    \/ AfterAcmd23 \/ AfterWrite \/ SendBlock \/ GetDataResponse \/ WaitNull
    \/ Unwrap

Next == Call \/ Step

Spec == Init /\ [][Next]_vars

(* The driver runs until it returns, and a card that programs a block does  *)
(* so for a finite time.  No other fairness: it may never answer.           *)
FairSpec ==
    Spec /\ WF_vars(Step) /\ WF_vars(WaitNull /\ card'.phase # "program")

-----------------------------------------------------------------------------
(* Properties.                                                              *)

(* The state is well typed; the loops count within their limits, TIMEOUT    *)
(* polls for an answer and RETRIES rounds.                                  *)
TypeOK ==
    /\ at \in {"boot", "get_response", "answered", "block", "send", "get_dataresponse",
               "wait", "returned", "idle", "panic"}
    /\ timeout \in 1 .. TIMEOUT
    /\ index \in 0 .. RETRIES
    /\ chunk \in 0 .. call.len
    /\ buf \in Seq(Values \cup {None})
    /\ cs \in {"high", "low"}
    /\ card.mode \in {"off", "idle", "ready"}
    /\ store \in [Sectors -> Values]

(* read_sector and write_sector say Ok only when every sector of the call   *)
(* has been read into its part of the buffer, or is on the card as the      *)
(* buffer has it: over late answers, refusals and errors at any block.      *)
OkMeansDone ==
    result = "Ok" /\ call.op \in {"read", "write"} =>
        \A k \in 1 .. call.len : buf[k] = store[call.sector + k - 1]

(* When a call has succeeded the chip is deselected and the card, its       *)
(* initialisation over, waits for a command: none is sent to a card that is *)
(* still programming, or still has an answer or a block to send.  A call    *)
(* for several sectors does not ensure the last part: it ignores the answer *)
(* to CMD12, and sends no stop token behind the blocks of CMD25.            *)
CardReadyBetweenCalls ==
    at = "idle" =>
        /\ cs = "high" /\ card.mode = "ready"
        /\ card.phase = "standby" \/ call.len > 1

(* Driver and card are in step: loops within their limits, and a card that  *)
(* is ready when a call is over (get_response, get_dataresponse).           *)
DriverConsistent == TypeOK /\ CardReadyBetweenCalls

(* Initialisation and every call come to an end, whether the card answers   *)
(* or not: the polls are counted, and the one wait that is not counted      *)
(* (get_dataresponse) ends with the programming.                            *)
EveryCallReturns == (at \notin {"idle", "panic"}) ~> (at \in {"idle", "panic"})

=============================================================================
