-------------------------------- MODULE Lm983x --------------------------------
(***************************************************************************)
(* sanei_lm983x_write, sanei_lm983x_read and sanei_lm983x_reset            *)
(* (sanei/sanei_lm983x.c): data for the registers of a scanner chip in USB *)
(* bulk transfers, each with a header that names the register, the         *)
(* direction and the length.  A bulk transfer may fail or carry a part of  *)
(* its data.  The chip is external: it stores what arrives, from the       *)
(* register of the header on, or all of it in that register one after the  *)
(* other.                                                                  *)
(***************************************************************************)
EXTENDS Naturals, Sequences

CONSTANTS
    LastReg,        \* _LM9831_MAX_REG
    ResetReg,       \* the register with the reset bit: 0x07
    ChipBytes,      \* values of a register
    MaxTransfer,    \* _MAX_TRANSFER_SIZE
    MaxRead,        \* bytes that one command can ask for, 0xFFFF
    ResetRetries,   \* _MAX_RETRY
    MaxData         \* bound: length of the data of a call

ASSUME Lm983xAssumption ==
    /\ LastReg \in Nat /\ ResetReg \in 0 .. LastReg
    /\ MaxTransfer \in Nat \ {0} /\ MaxRead \in Nat \ {0} /\ ResetRetries \in Nat /\ MaxData \in Nat

VARIABLES
    chip,           \* what the registers of the chip hold
    sent,           \* the <<register, byte>> that reached it in this call
    call,           \* "idle", "write", "read" or "reset"
    callReg, callInc,
    data,           \* write: the caller's buffer; read: what has come so far
    count,          \* write: bytes sent; read: bytes asked for in all
    asked,          \* read: bytes of this command that are still to come
    lmStatus,       \* what the latest call returned
    before,         \* the register ResetReg when the call began
    retries         \* reset: tries so far

lmVars == <<chip, sent, call, callReg, callInc, data, count, asked, lmStatus, before, retries>>

ResetBit == 1       \* 0x20, here alone in its register
Regs == 0 .. LastReg

LmInit ==
    /\ chip = [r \in Regs |-> 0] /\ sent = <<>> /\ before = 0
    /\ call = "idle" /\ callReg = 0 /\ callInc = FALSE /\ data = <<>>
    /\ count = 0 /\ asked = 0 /\ lmStatus = "GOOD" /\ retries = 0

LmBegins == call = "idle" /\ sent' = <<>> /\ before' = chip[ResetReg] /\ retries' = 0 /\ asked' = 0

LmReturn(s) == call' = "idle" /\ lmStatus' = s

-----------------------------------------------------------------------------
(* sanei_lm983x_write.                                                     *)

\* The chip takes bs from register r on; what is past the last register is lost.
Arrives(r, bs, inc) ==
    LET At(i) == IF inc THEN r + i - 1 ELSE r
        In(q) == {i \in DOMAIN bs : At(i) = q}
    IN /\ chip' = [q \in Regs |-> IF In(q) = {} THEN chip[q]
                                 ELSE bs[CHOOSE i \in In(q) : \A j \in In(q) : j <= i]]
       /\ sent' = sent \o [i \in DOMAIN bs |-> <<At(i), bs[i]>>]

LmWrite ==
    /\ LmBegins
    /\ \E r \in 0 .. LastReg + 1, inc \in BOOLEAN, n \in 0 .. MaxData :
         \E bs \in [1 .. n -> ChipBytes] :
           /\ callReg' = r /\ callInc' = inc /\ data' = bs /\ count' = 0
           /\ IF r > LastReg THEN LmReturn("INVAL")
              ELSE call' = "write" /\ UNCHANGED lmStatus
    /\ UNCHANGED chip

\* sanei_usb_write_bulk fails, or sends less than the header.
WriteFails ==
    /\ call = "write" /\ count < Len(data)
    /\ LmReturn("IO_ERROR")
    /\ UNCHANGED <<chip, sent, callReg, callInc, data, count, asked, before, retries>>

Chunk == IF Len(data) - count < MaxTransfer THEN Len(data) - count ELSE MaxTransfer

WriteChunk_WholeChunk ==
    /\ call = "write" /\ count < Len(data)
    /\ \E n \in 0 .. Chunk :
         /\ Arrives(IF callInc THEN callReg + count ELSE callReg, SubSeq(data, count + 1, count + n), callInc)
         /\ count' = count + Chunk
    /\ UNCHANGED <<call, callReg, callInc, data, asked, lmStatus, before, retries>>

\* The header and n bytes of the next chunk arrive; the rest is tried again with
\* a header of its own.
WriteChunk ==
    /\ call = "write" /\ count < Len(data)
    /\ \E n \in 0 .. Chunk :
         /\ Arrives(IF callInc THEN callReg + count ELSE callReg, SubSeq(data, count + 1, count + n), callInc)
         /\ count' = count + n
    /\ UNCHANGED <<call, callReg, callInc, data, asked, lmStatus, before, retries>>

WriteDone ==
    /\ call = "write" /\ count = Len(data)
    /\ LmReturn("GOOD")
    /\ UNCHANGED <<chip, sent, callReg, callInc, data, count, asked, before, retries>>

-----------------------------------------------------------------------------
(* sanei_lm983x_read.                                                      *)

LmRead ==
    /\ LmBegins
    /\ \E r \in 0 .. LastReg + 1, inc \in BOOLEAN, n \in 0 .. MaxData :
         /\ inc => r + n <= LastReg + 1
         /\ callReg' = r /\ callInc' = inc /\ data' = <<>> /\ count' = n
         /\ IF r > LastReg THEN LmReturn("INVAL")
            ELSE call' = "read" /\ UNCHANGED lmStatus
    /\ UNCHANGED chip

\* The command, of at most MaxRead bytes; it fails when it is cut short.
ReadCommand ==
    /\ call = "read" /\ asked = 0 /\ Len(data) < count
    /\ \/ /\ asked' = IF count - Len(data) < MaxRead THEN count - Len(data) ELSE MaxRead
          /\ UNCHANGED <<call, lmStatus>>
       \/ LmReturn("IO_ERROR") /\ UNCHANGED asked
    /\ UNCHANGED <<chip, sent, callReg, callInc, data, count, before, retries>>

\* What register stands at place k of the caller's buffer.
RegOf(k) == IF callInc THEN callReg + k - 1 ELSE callReg

ReadChunk_Restarts ==
    /\ call = "read" /\ asked > 0
    /\ \E n \in 1 .. asked :
         /\ data' = data \o [i \in 1 .. n |-> chip[RegOf(i)]]
         /\ asked' = asked - n
    /\ UNCHANGED <<chip, sent, call, callReg, callInc, count, lmStatus, before, retries>>

\* A part of the answer; the loop waits for the rest.
ReadChunk ==
    /\ call = "read" /\ asked > 0
    /\ \E n \in 1 .. asked :
         /\ data' = data \o [i \in 1 .. n |-> chip[RegOf(Len(data) + i)]]
         /\ asked' = asked - n
    /\ UNCHANGED <<chip, sent, call, callReg, callInc, count, lmStatus, before, retries>>

ReadFails ==
    /\ call = "read" /\ asked > 0 /\ LmReturn("IO_ERROR")
    /\ UNCHANGED <<chip, sent, callReg, callInc, data, count, asked, before, retries>>

ReadDone ==
    /\ call = "read" /\ Len(data) = count /\ LmReturn("GOOD")
    /\ UNCHANGED <<chip, sent, callReg, callInc, data, count, asked, before, retries>>

-----------------------------------------------------------------------------
(* sanei_lm983x_reset: its reads and writes are of one byte.               *)

LmReset ==
    /\ LmBegins /\ call' = "reset" /\ data' = <<>>
    /\ UNCHANGED <<chip, callReg, callInc, count, lmStatus>>

ResetTry_OnlyClears ==
    /\ call = "reset" /\ retries < ResetRetries
    /\ Arrives(ResetReg, <<0>>, FALSE) /\ LmReturn("TRUE")
    /\ UNCHANGED <<callReg, callInc, data, count, asked, before, retries>>

\* A try: the bit is read, and written the other way round.  The read may fail,
\* and so may the write, whether it has arrived or not.
ResetToggles == Arrives(ResetReg, <<IF chip[ResetReg] = ResetBit THEN 0 ELSE ResetBit>>, FALSE)

ResetTry ==
    /\ call = "reset" /\ retries < ResetRetries
    /\ \/ ResetToggles /\ LmReturn("TRUE") /\ UNCHANGED retries
       \/ /\ ResetToggles \/ UNCHANGED <<chip, sent>>
          /\ retries' = retries + 1 /\ UNCHANGED <<call, lmStatus>>
    /\ UNCHANGED <<callReg, callInc, data, count, asked, before>>

ResetGivesUp ==
    /\ call = "reset" /\ retries = ResetRetries /\ LmReturn("FALSE")
    /\ UNCHANGED <<chip, sent, callReg, callInc, data, count, asked, before, retries>>

-----------------------------------------------------------------------------
LmWriteNext == LmWrite \/ WriteFails \/ WriteChunk \/ WriteDone
LmReadNext == LmRead \/ ReadCommand \/ ReadChunk \/ ReadFails \/ ReadDone
LmResetNext == LmReset \/ ResetTry \/ ResetGivesUp

LmNext == LmWriteNext \/ LmReadNext \/ LmResetNext

LmSpec == LmInit /\ [][LmNext]_lmVars

-----------------------------------------------------------------------------
(* Properties.                                                             *)

\* However the transfers are cut, no byte of a write is skipped, sent again or
\* put into another register: the chip has got what the call has counted, and
\* all of it when the call returns GOOD (106-143).
WriteIsComplete ==
    call = "write" => sent = [i \in 1 .. count |-> <<RegOf(i), data[i]>>]

\* The same in the other direction: the buffer holds the register that the
\* caller asked for at each place, over the borders of commands and transfers
\* (163-217).
ReadIsInPlace ==
    call = "read" =>
      /\ Len(data) + asked <= count
      /\ \A i \in DOMAIN data : callInc => data[i] = chip[RegOf(i)]

\* A reset that says TRUE has had the reset bit set in the chip, though a write
\* whose failure was reported may have arrived before (230-261).
ResetHasBeen ==
    [][call = "reset" /\ call' = "idle" /\ lmStatus' = "TRUE"
         => before = ResetBit \/ \E i \in DOMAIN sent' : sent'[i] = <<ResetReg, ResetBit>>]_lmVars

\* Registers are written and read where they were meant, however the transfers are cut.
LmSafe == WriteIsComplete /\ ReadIsInPlace
=============================================================================
