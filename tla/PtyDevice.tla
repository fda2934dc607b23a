------------------------------ MODULE PtyDevice ------------------------------
(***************************************************************************)
(* The pseudo terminal between the emulation and the shell (KPtyDevice,    *)
(* Pty): two ring buffers, a notifier for each direction that calls the    *)
(* handler when the descriptor is ready, and the blocking wait of sendEof. *)
(*                                                                         *)
(* The kernel's queues and the shell are external.  Bytes are numbered in  *)
(* the order in which they are sent.                                       *)
(***************************************************************************)
EXTENDS KRingBuffer

CONSTANTS
    Lengths,    \* how many bytes are sent or printed at once
    Room,       \* bytes the kernel's queue to the shell takes
    MaxSent,    \* bound: bytes sent in all
    MaxPrinted  \* bound: bytes the shell prints in all

ASSUME DeviceAssumption ==
    /\ Lengths \subseteq Nat \ {0}
    /\ Room \in Nat \ {0} /\ MaxSent \in Nat /\ MaxPrinted \in Nat

VARIABLES
    open,        \* is the device open
    writeBuffer,
    readBuffer,
    writeOn,     \* writeNotifier->isEnabled()
    writeFailed, \* the last write to the descriptor failed
    waiting,     \* sendEof waits in doWait
    input,       \* the kernel's queue to the shell
    output,      \* the kernel's queue from the shell
    sent,        \* bytes sent so far
    printed,     \* bytes printed so far
    typed,       \* what the shell read last
    received     \* what the emulation received last

vars == <<open, writeBuffer, readBuffer, writeOn, writeFailed, waiting, input, output,
          sent, printed, typed, received>>

Numbered(n, k) == [i \in 1 .. k |-> n + i]

RingOK(r) ==
    /\ r.head \in Nat /\ r.tail \in Nat
    /\ r.buffers # <<>> /\ r.tail <= Len(Last(r.buffers))
    /\ r.totalSize = Len(Contents(r))
    /\ Junk \notin Range(Contents(r))

TypeOK ==
    /\ {open, writeOn, writeFailed, waiting} \subseteq BOOLEAN
    /\ RingOK(writeBuffer) /\ RingOK(readBuffer)
    /\ Len(input) <= Room
    /\ sent \in 0 .. MaxSent /\ printed \in 0 .. MaxPrinted

Init ==
    /\ open = TRUE /\ waiting = FALSE
    /\ writeBuffer = Cleared /\ readBuffer = Cleared
    /\ writeOn = FALSE /\ writeFailed = FALSE
    /\ input = <<>> /\ output = <<>>
    /\ sent = 0 /\ printed = 0
    /\ typed = <<>> /\ received = <<>>

-----------------------------------------------------------------------------
(* writeData: k bytes are queued and the notifier is enabled *)
Queue(k) ==
    /\ sent + k <= MaxSent
    /\ writeBuffer' = Put(writeBuffer, k, Numbered(sent, k))
    /\ sent' = sent + k
    /\ writeOn' = TRUE
    /\ writeFailed' = FALSE

(* Pty::sendData, for a key, a paste or the mouse *)
SendData(k) ==
    /\ open /\ ~waiting
    /\ Queue(k)
    /\ UNCHANGED <<open, readBuffer, waiting, input, output, printed, typed, received>>

(* Pty::sendEof: one byte, and a wait for bytes to be written *)
SendEof ==
    /\ open /\ ~waiting
    /\ Queue(1)
    /\ waiting' = TRUE
    /\ UNCHANGED <<open, readBuffer, input, output, printed, typed, received>>

(* The notifier is on after its handler if there is more to write. *)
LeftOff(r) == FALSE   \* mutant: the handler leaves its notifier off
Rearmed(r) == ~isEmpty(r)

WriteReadyWithBytes ==   \* mutant: the handler returns from an empty first chunk
    open /\ readSize(writeBuffer) > 0 /\ (waiting \/ writeOn) /\ Len(input) < Room
(* doWait selects on the descriptor itself, the event loop on the notifier *)
WriteReady == open /\ ~isEmpty(writeBuffer) /\ (waiting \/ writeOn) /\ Len(input) < Room

(* _k_canWrite writes from the first chunk; a wait for writing ends.       *)
CanWrite(k) ==
    /\ WriteReady
    /\ k <= readSize(writeBuffer) /\ Len(input) + k <= Room
    /\ k > 0 \/ readSize(writeBuffer) = 0
    /\ input' = input \o SubSeq(Contents(writeBuffer), 1, k)
    /\ writeBuffer' = Free(writeBuffer, k)
    /\ writeOn' = Rearmed(writeBuffer')
    /\ writeFailed' = FALSE
    /\ waiting' = FALSE
    /\ UNCHANGED <<open, readBuffer, output, sent, printed, typed, received>>

(* The notifier goes off, and only more data turns it on again.            *)
WriteFails ==
    /\ WriteReady
    /\ writeOn' = FALSE
    /\ writeFailed' = TRUE
    /\ waiting' = FALSE
    /\ UNCHANGED <<open, writeBuffer, readBuffer, input, output, sent, printed, typed, received>>

(* _k_canRead: room for all there is, of which k bytes are read; readyRead *)
(* takes them to the emulation (Pty::dataReceived), which may answer.  In  *)
(* doWait as in the event loop.                                            *)
CanRead(k, answer) ==
    /\ open
    /\ k \in 1 .. Len(output)
    /\ LET buffer == Put(readBuffer, Len(output), SubSeq(output, 1, k))
       IN  received' = Contents(buffer) /\ readBuffer' = ReadAll(buffer)
    /\ output' = SubSeq(output, k + 1, Len(output))
    /\ \/ answer > 0 /\ Queue(answer)
       \/ answer = 0 /\ UNCHANGED <<writeBuffer, writeOn, writeFailed, sent>>
    /\ UNCHANGED <<open, waiting, input, printed, typed>>

(* read() fails: what was reserved is given back.                          *)
ReadFails ==
    /\ open /\ output # <<>>
    /\ readBuffer' = Put(readBuffer, Len(output), <<>>)
    /\ UNCHANGED <<open, writeBuffer, writeOn, writeFailed, waiting, input, output, sent,
                   printed, typed, received>>

(* Pty::closePty, from Session::close *)
ClosePty ==
    /\ open /\ ~waiting
    /\ open' = FALSE
    /\ UNCHANGED <<writeBuffer, readBuffer, writeOn, writeFailed, waiting, input, output, sent,
                   printed, typed, received>>

-----------------------------------------------------------------------------
(* The shell *)

ShellReads(k) ==
    /\ k \in 1 .. Len(input)
    /\ typed' = SubSeq(input, 1, k)
    /\ input' = SubSeq(input, k + 1, Len(input))
    /\ UNCHANGED <<open, writeBuffer, readBuffer, writeOn, writeFailed, waiting, output, sent,
                   printed, received>>

ShellPrints(k) ==
    /\ printed + k <= MaxPrinted
    /\ output' = output \o Numbered(printed, k)
    /\ printed' = printed + k
    /\ UNCHANGED <<open, writeBuffer, readBuffer, writeOn, writeFailed, waiting, input, sent,
                   typed, received>>

-----------------------------------------------------------------------------
Writes == \E k \in 0 .. Room : CanWrite(k)
Reads == \E k \in 1 .. MaxPrinted, answer \in {0, 1} : CanRead(k, answer)
Shell == (\E k \in 1 .. Room : ShellReads(k)) \/ (\E k \in Lengths : ShellPrints(k))

Next ==
    \/ \E k \in Lengths : SendData(k)
    \/ SendEof \/ ClosePty
    \/ Writes \/ WriteFails
    \/ Reads \/ ReadFails
    \/ Shell

(* The event loop and select() attend to a descriptor that is ready, and   *)
(* the shell reads its terminal: nothing else makes room in the kernel's   *)
(* queue.                                                                  *)
Fairness == WF_vars(Writes) /\ WF_vars(\E k \in 1 .. Room : ShellReads(k))

Spec == Init /\ [][Next]_vars
FairSpec == Spec /\ Fairness

-----------------------------------------------------------------------------
(* What the user types reaches the shell, and what the shell prints the    *)
(* emulation, in order, none lost and none twice, whatever the sizes in    *)
(* which the buffers and the kernel take it (KRingBuffer, _k_canRead,      *)
(* _k_canWrite).                                                           *)
Typing == INSTANCE BytePipe
    WITH queue <- input \o Contents(writeBuffer), last <- typed
Printing == INSTANCE BytePipe
    WITH sent <- printed, queue <- Contents(readBuffer) \o output, last <- received
BytesInOrder == Typing!Spec /\ Printing!Spec

(* Data in the write buffer is on its way: the notifier is off only after  *)
(* a write has failed, and then until there is more to send.  An empty     *)
(* buffer has no chunk left that would keep the notifier busy              *)
(* (_k_canWrite, KRingBuffer::isEmpty).                                    *)
NothingStuck ==
    /\ writeBuffer.totalSize > 0 /\ ~writeFailed => writeOn
    /\ writeBuffer.totalSize = 0 => isEmpty(writeBuffer)

(* What was typed gets through in the end, if no write fails and the shell *)
(* reads, also while sendEof waits and the shell prints.                   *)
TypedArrives == writeBuffer.totalSize > 0 ~> writeBuffer.totalSize = 0 \/ writeFailed \/ ~open

(* sendEof does not block the program for ever, if the shell reads.        *)
EofReturns == waiting ~> ~waiting
=============================================================================
