------------------------- MODULE CheckpointChannel -------------------------
(***************************************************************************)
(* The way of a checkpoint from a supervised process to the platform       *)
(* health management: protected by E2E profile 11, queued, written to a    *)
(* FIFO by the poller, read at the other end and checked.  A message is    *)
(* lost when the queue is locked, when the sender's own communicator reads *)
(* the FIFO first (it has a receiver on it as well), or when its bytes     *)
(* change on the way.                                                      *)
(***************************************************************************)
EXTENDS SomeIpMessages

CONSTANTS
    cCounterMax,   \* 14
    Flips,         \* the bits of a byte that change together on the way
    MaxSent,       \* bound: checkpoints sent, which are integers of 32 bits
    MaxCorrupted   \* bound: messages that change on the way

ASSUME CounterAssumption == cCounterMax \in 1 .. 15
ASSUME FlipsAssumption == Flips \subseteq 1 .. 255
ASSUME SentAssumption == MaxSent \in Wide

VARIABLES
    mProtectingCounter, mSendQueue,   \* the sender,
    mCheckingCounter,                 \* and the receiver
    fifo,        \* messages in the FIFO, each with the checkpoint it was made of
    sent,        \* checkpoints given to TrySend: 1, 2, ...
    lastChecked, \* history: the last checkpoint that Check got as it was sent
    delivered,   \* checkpoints given to the callback
    refused,     \* history: checkpoints that came intact and were not delivered
    corrupted    \* how many messages were changed

channelVars == <<mProtectingCounter, mSendQueue, mCheckingCounter, fifo, sent, lastChecked,
                 delivered, refused, corrupted>>

CheckStatusType == {"kOk", "kWrongCrc", "kRepeated", "kNoNewData", "kWrongSequence"}

cMinimumSize == 3
cCounterOffset == 1
cE2eHeaderSize == 2

-----------------------------------------------------------------------------
(* Profile11 *)

\* The exclusive or of two bytes, bit by bit.
Bit(byte, weight) == (byte \div weight) % 2
XorBit(a, b, weight) == (Bit(a, weight) + Bit(b, weight)) % 2
XorByte(a, b) ==
    128 * XorBit(a, b, 128) + 64 * XorBit(a, b, 64) + 32 * XorBit(a, b, 32) + 16 * XorBit(a, b, 16)
    + 8 * XorBit(a, b, 8) + 4 * XorBit(a, b, 4) + 2 * XorBit(a, b, 2) + XorBit(a, b, 1)

ShiftCrc(crc) == IF crc >= 128 THEN XorByte((2 * crc) % 256, 29) ELSE 2 * crc

initializeCrcTable ==
    [i \in 0 .. 255 |->
        LET shifted[j \in 0 .. 8] == IF j = 0 THEN i ELSE ShiftCrc(shifted[j - 1])
        IN  shifted[8]]

calculateCrc(data) ==
    LET crc[n \in 0 .. Len(data)] ==
            IF n = 0 THEN 255 ELSE initializeCrcTable[XorByte(crc[n - 1], data[n])]
    IN  255 - crc[Len(data)]

\* The first byte is the CRC of the others, the second the counter.
TryProtect(counter, data) ==
    LET counted == <<240 + counter>> \o data
    IN  <<calculateCrc(counted)>> \o counted

NextCounter(counter) == IF counter < cCounterMax THEN counter + 1 ELSE 0

\* Mutant: the receiver does not know that the counter wraps.
CheckNoWrap(counter, data) ==
    LET cReceivedCounter == data[cCounterOffset + 1] % 16
    IN  IF Len(data) < cMinimumSize THEN "kNoNewData"
        ELSE IF data[1] # calculateCrc(Tail(data)) THEN "kWrongCrc"
        ELSE IF cReceivedCounter = counter THEN "kRepeated"
        ELSE IF cReceivedCounter < counter THEN "kWrongSequence"
        ELSE "kOk"

Check(counter, data) ==
    LET cReceivedCounter == data[cCounterOffset + 1] % 16
    IN  IF Len(data) < cMinimumSize THEN "kNoNewData"
        ELSE IF data[1] # calculateCrc(Tail(data)) THEN "kWrongCrc"
        ELSE IF cReceivedCounter = counter THEN "kRepeated"
        ELSE IF counter < cCounterMax /\ cReceivedCounter < counter THEN "kWrongSequence"
        ELSE "kOk"

-----------------------------------------------------------------------------
(* FifoCheckpointCommunicator *)

ChannelInit ==
    /\ mProtectingCounter = 0 /\ mSendQueue = << >> /\ mCheckingCounter = 0
    /\ fifo = << >> /\ sent = 0 /\ lastChecked = 0
    /\ delivered = << >> /\ refused = {} /\ corrupted = 0

\* The counter is advanced whether or not the queue takes the message.
TrySend ==
    /\ sent < MaxSent
    /\ sent' = sent + 1
    /\ mProtectingCounter' = NextCounter(mProtectingCounter)
    /\ \/ mSendQueue' = Append(mSendQueue,
                               [checkpoint |-> sent',
                                bytes |-> TryProtect(mProtectingCounter', InjectInteger(Word(sent')))])
       \/ UNCHANGED mSendQueue
    /\ UNCHANGED <<mCheckingCounter, fifo, lastChecked, delivered, refused, corrupted>>

onCheckpointSend ==
    /\ mSendQueue # << >>
    /\ fifo' = fifo \o mSendQueue
    /\ mSendQueue' = << >>
    /\ UNCHANGED <<mProtectingCounter, mCheckingCounter, sent, lastChecked, delivered, refused,
                   corrupted>>

\* A byte of the next message changes: one of a message, which is what a CRC of
\* one byte is sure to find.
Corrupt(i, flip) ==
    /\ fifo # << >> /\ i \in DOMAIN Head(fifo).bytes /\ corrupted < MaxCorrupted
    /\ Head(fifo).checkpoint # 0
    /\ LET changed == [Head(fifo).bytes EXCEPT ![i] = XorByte(@, flip)]
       IN  fifo' = [fifo EXCEPT ![1] = [checkpoint |-> 0, bytes |-> changed]]
    /\ corrupted' = corrupted + 1
    /\ UNCHANGED <<mProtectingCounter, mSendQueue, mCheckingCounter, sent, lastChecked, delivered,
                   refused>>

\* onCheckpointReceive of the sender: it has no callback, and drops what it read.
Steal ==
    /\ fifo # << >>
    /\ fifo' = Tail(fifo)
    /\ UNCHANGED <<mProtectingCounter, mSendQueue, mCheckingCounter, sent, lastChecked, delivered,
                   refused, corrupted>>

\* Only kOk reaches the callback; the counter follows whatever has the right CRC.
onCheckpointReceive ==
    /\ fifo # << >>
    /\ LET message == Head(fifo)
           status == Check(mCheckingCounter, message.bytes)
       IN  /\ mCheckingCounter' =
                 IF status \in {"kNoNewData", "kWrongCrc"} THEN mCheckingCounter
                 ELSE message.bytes[cCounterOffset + 1] % 16
           /\ delivered' = IF status # "kOk" THEN delivered
                           ELSE Append(delivered, Number(ExtractInteger(message.bytes, cE2eHeaderSize)))
           /\ lastChecked' = IF message.checkpoint = 0 THEN lastChecked ELSE message.checkpoint
           /\ refused' = IF status # "kOk" /\ message.checkpoint = lastChecked + 1
                         THEN refused \union {message.checkpoint} ELSE refused
    /\ fifo' = Tail(fifo)
    /\ UNCHANGED <<mProtectingCounter, mSendQueue, sent, corrupted>>

ChannelNext ==
    \/ TrySend \/ onCheckpointSend \/ Steal \/ onCheckpointReceive
    \/ \E i \in 1 .. 6, flip \in Flips : Corrupt(i, flip)

ChannelSpec == ChannelInit /\ [][ChannelNext]_channelVars

-----------------------------------------------------------------------------
(* Properties *)

\* What the callback gets was sent, in that order and each once: no changed bit
\* gets past the CRC.
CheckpointsIntact ==
    \A i \in DOMAIN delivered :
        delivered[i] \in 1 .. sent /\ (i > 1 => delivered[i - 1] < delivered[i])

\* A checkpoint that comes right after the one before it is never refused, also
\* when the counter wraps, and also after messages were lost in between.
SuccessorIsDelivered == refused = {}

\* What onCheckpointReceive hands to the callback and what it drops: every
\* checkpoint it delivers was sent, in order, and none is dropped that came next.
CheckpointsArrive == CheckpointsIntact /\ SuccessorIsDelivered

=============================================================================
