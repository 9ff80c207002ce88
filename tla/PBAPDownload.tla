----------------------------- MODULE PBAPDownload -----------------------------
(***************************************************************************)
(* The PBAP source (PBAP.cpp, BluezOBEXTransfer.cpp): a download thread    *)
(* pulls the phonebook in chunks, from a random position round to it again,*)
(* and pushes the lines it receives into FIFOBuffer; getItem() pops them   *)
(* in the thread of the synchronization and puts the vCards together.      *)
(*                                                                         *)
(* Contacts are numbered as in the phonebook; a vCard is its first and its *)
(* last line.  The BlueZ OBEX daemon is external.  The named pipe between  *)
(* it and the thread is left out: a line is written when it is read.       *)
(* The counter FIFOBuffer::size is the length of the queue, with which it  *)
(* changes under the mutex; that it is READ without the mutex is kept.     *)
(***************************************************************************)
EXTENDS Integers, Sequences, SequencesExt, FiniteSets

CONSTANTS
  N,          \* phonebookSize
  FifoSize,   \* fifoBufferSize, 5000000 in the code
  FirstChunk  \* the size of a chunk before one was timed, 10 in the code

ASSUME PBAPDownloadAssumption ==
  N \in Nat \ {0} /\ FifoSize \in Nat /\ FirstChunk \in Nat \ {0}

None == -1

VARIABLES
  dpc,            \* where init() is, then where the download thread is
  batched,        \* parameter: batchDownloadDesiredTime > 0
  startOffset, chunkStart, chunkSize, chunksEnd, toDownload,
  transfer,       \* the OBEX transfer; "unheard" if nothing will report its end
  wire,           \* lines the transfer has yet to write
  pbapStatus,     \* PBAPSource::transferStatus
  fifoBuffer,     \* the queue of FIFOBuffer
  active,         \* FIFOBuffer::active
  gpc,            \* where getItem() is, and its last result when it stops
  vCard,          \* the vCard getItem() is putting together
  received,       \* history: contacts getItem() returned
  broken          \* history: a transfer failed or was cancelled, or could not start

chunkVars == <<chunkStart, chunksEnd, toDownload>>
fifoVars  == <<fifoBuffer, active>>
itemVars  == <<gpc, vCard, received>>
pbapVars == <<dpc, batched, startOffset, chunkVars, chunkSize, transfer, wire,
          pbapStatus, fifoVars, itemVars, broken>>

Line(c, kind) == [contact |-> c, kind |-> kind]

\* The vCards of count contacts from offset on.
VCards(offset, count) ==
  [k \in 1..2 * count |->
     Line(offset + ((k - 1) \div 2), IF k % 2 = 1 THEN "BEGIN" ELSE "END")]

Stopped == {"End", "Error", "gone"}

PBAPInit ==
  /\ dpc = "connect"
  /\ batched \in BOOLEAN
  /\ startOffset \in IF batched THEN 0..N - 1 ELSE {0}
  /\ chunkStart = startOffset
  /\ chunkSize = N
  /\ chunksEnd = N
  /\ toDownload = N
  /\ transfer = "none"
  /\ wire = <<>>
  /\ pbapStatus = "Ok"
  /\ fifoBuffer = <<>>
  /\ active = TRUE
  /\ gpc = "init"
  /\ vCard = None
  /\ received = <<>>
  /\ broken = FALSE

-----------------------------------------------------------------------------
(* init(): one D-Bus call after the other.  When one fails there is no     *)
(* thread and nobody calls getItem().                                      *)

SetUp(step, next) ==
  /\ dpc = step
  /\ \/ dpc' = next /\ gpc' = IF next = "next" THEN "call" ELSE gpc
     \/ dpc' = "exited" /\ gpc' = "gone"
  /\ UNCHANGED <<batched, startOffset, chunkVars, chunkSize, transfer, wire,
                 pbapStatus, fifoVars, vCard, received, broken>>

Connect             == SetUp("connect", "session")
CreateSession       == SetUp("session", "select")
SelectPhonebook     == SetUp("select", "size")
GetPhonebookSize    == SetUp("size", "filters")
GetSupportedFilters == SetUp("filters", "next")
InitSource == Connect \/ CreateSession \/ SelectPhonebook \/ GetPhonebookSize \/ GetSupportedFilters

-----------------------------------------------------------------------------
(* threadFuncFIFO().                                                       *)

\* The sizes a chunk can get.  It is scaled by the time the last chunk took,
\* so that a chunk of size 0 stays 0 unless that time rounds to 0 ms.
ChunkSizes ==
  IF ~batched THEN {N}
  ELSE LET wanted == IF chunkSize = 0 THEN {0, FirstChunk} ELSE 0..N \cup {FirstChunk}
       IN  {IF chunkStart + n > chunksEnd THEN chunksEnd - chunkStart ELSE n : n \in wanted}

MoreToDownload == toDownload # 0 /\ pbapStatus # "Error"

(* A chunk is requested with PullAll.  BlueZ begins at once, and nothing   *)
(* listens to it yet.                                                      *)
PullChunk ==
  /\ dpc = "next"
  /\ MoreToDownload
  /\ \E n \in ChunkSizes :
       /\ chunkSize' = n
       /\ wire' = VCards(chunkStart, n)
  /\ transfer' = "unheard"
  /\ dpc' = "watch"
  /\ UNCHANGED <<batched, startOffset, chunkVars, pbapStatus, fifoVars, itemVars, broken>>

(* BluezOBEXTransfer::init(): the event thread connects to the signals of  *)
(* the transfer.  It may fail, which pullPhonebook() does not look at, or  *)
(* come too late: BlueZ was done before.                                   *)
WatchTransfer ==
  /\ dpc = "watch"
  /\ transfer' \in IF broken THEN {"unheard"} ELSE {"active", "unheard"}
  /\ pbapStatus' = "Ok"
  /\ dpc' = "read"
  /\ UNCHANGED <<batched, startOffset, chunkVars, chunkSize, wire, fifoVars, itemVars, broken>>

\* Mutant: the thread gives up with the status of the chunk before.
PullFailsSilently ==
  /\ dpc = "next"
  /\ MoreToDownload
  /\ broken' = TRUE
  /\ dpc' = "close"
  /\ UNCHANGED <<batched, startOffset, chunkVars, chunkSize, transfer, wire,
                 pbapStatus, fifoVars, itemVars>>

\* Mutant: the FIFO is not closed.
PullFailsUnclosed ==
  /\ dpc = "next"
  /\ MoreToDownload
  /\ broken' = TRUE
  /\ pbapStatus' = "Error"
  /\ dpc' = "exited"
  /\ UNCHANGED <<batched, startOffset, chunkVars, chunkSize, transfer, wire,
                 fifoVars, itemVars>>

(* The pipe or the transfer cannot be created.                             *)
PullFails ==
  /\ dpc = "next"
  /\ MoreToDownload
  /\ broken' = TRUE
  /\ pbapStatus' = "Error"
  /\ dpc' = "close"
  /\ UNCHANGED <<batched, startOffset, chunkVars, chunkSize, transfer, wire,
                 fifoVars, itemVars>>

\* Mutant: the wait for room in the FIFO is missing.
PushUnbounded ==
  /\ dpc = "read"
  /\ transfer \in {"active", "unheard"}
  /\ wire # <<>>
  /\ fifoBuffer' = Append(fifoBuffer, Head(wire))
  /\ wire' = Tail(wire)
  /\ UNCHANGED <<dpc, batched, startOffset, chunkVars, chunkSize, transfer,
                 pbapStatus, active, itemVars, broken>>

\* Mutant: a line that finds the FIFO full is dropped.
PushOrDrop ==
  /\ dpc = "read"
  /\ transfer \in {"active", "unheard"}
  /\ wire # <<>>
  /\ fifoBuffer' = IF Len(fifoBuffer) > FifoSize THEN fifoBuffer
                   ELSE Append(fifoBuffer, Head(wire))
  /\ wire' = Tail(wire)
  /\ UNCHANGED <<dpc, batched, startOffset, chunkVars, chunkSize, transfer,
                 pbapStatus, active, itemVars, broken>>

(* A line is read and pushed; tryPush() waits while the FIFO is full.      *)
PushLine ==
  /\ dpc = "read"
  /\ transfer \in {"active", "unheard"}
  /\ wire # <<>>
  /\ Len(fifoBuffer) <= FifoSize
  /\ fifoBuffer' = Append(fifoBuffer, Head(wire))
  /\ wire' = Tail(wire)
  /\ UNCHANGED <<dpc, batched, startOffset, chunkVars, chunkSize, transfer,
                 pbapStatus, active, itemVars, broken>>

\* Mutant: after the last contact the first chunk is downloaded again.
NextChunkUnbounded ==
  /\ dpc = "read"
  /\ pbapStatus \in {"End", "Error"}
  /\ toDownload' = toDownload - chunkSize
  /\ chunkStart' = IF chunkStart + chunkSize >= chunksEnd THEN 0 ELSE chunkStart + chunkSize
  /\ dpc' = "next"
  /\ transfer' = "none"
  /\ UNCHANGED <<batched, startOffset, chunkSize, chunksEnd, wire, pbapStatus,
                 fifoVars, itemVars, broken>>

(* The transfer is over and its lines are read: on to the next chunk, after*)
(* the last contact to the first one.                                      *)
NextChunk ==
  /\ dpc = "read"
  /\ pbapStatus \in {"End", "Error"}
  /\ toDownload' = toDownload - chunkSize
  /\ LET end == chunkStart + chunkSize >= chunksEnd
     IN  /\ chunkStart' = IF end THEN 0 ELSE chunkStart + chunkSize
         /\ chunksEnd'  = IF end THEN startOffset ELSE chunksEnd
  /\ dpc' = "next"
  /\ transfer' = "none"
  /\ UNCHANGED <<batched, startOffset, chunkSize, wire, pbapStatus,
                 fifoVars, itemVars, broken>>

LeaveLoop ==
  /\ dpc = "next"
  /\ ~MoreToDownload
  /\ dpc' = "close"
  /\ UNCHANGED <<batched, startOffset, chunkVars, chunkSize, transfer, wire,
                 pbapStatus, fifoVars, itemVars, broken>>

(* fifoBuffer.close(), and the thread ends.                                *)
Close ==
  /\ dpc = "close"
  /\ active' = FALSE
  /\ dpc' = "exited"
  /\ UNCHANGED <<batched, startOffset, chunkVars, chunkSize, transfer, wire,
                 pbapStatus, fifoBuffer, itemVars, broken>>

-----------------------------------------------------------------------------
(* The transfer, as BlueZ and the status handler drive it.                 *)

TransferCompletes ==
  /\ transfer = "active"
  /\ wire = <<>>
  /\ transfer' = "over"
  /\ pbapStatus' = "End"
  /\ UNCHANGED <<dpc, batched, startOffset, chunkVars, chunkSize, wire, fifoVars,
                 itemVars, broken>>

(* It breaks off, or cancel() succeeds; cancel() fails when there is no    *)
(* transfer.                                                               *)
TransferFails ==
  /\ transfer \in {"active", "suspended"}
  /\ transfer' = "over"
  /\ wire' = <<>>
  /\ pbapStatus' = "Error"
  /\ broken' = TRUE
  /\ UNCHANGED <<dpc, batched, startOffset, chunkVars, chunkSize, fifoVars, itemVars>>

(* BlueZ drops a transfer nobody listens to; cancel() finds none.          *)
UnheardFails ==
  /\ transfer = "unheard" /\ ~broken
  /\ wire' = <<>>
  /\ broken' = TRUE
  /\ UNCHANGED <<dpc, batched, startOffset, chunkVars, chunkSize, transfer,
                 pbapStatus, fifoVars, itemVars>>

(* suspend() and resume().                                                 *)
SuspendOrResume ==
  /\ \/ transfer = "active" /\ transfer' = "suspended"
     \/ transfer = "suspended" /\ transfer' = "active"
  /\ UNCHANGED <<dpc, batched, startOffset, chunkVars, chunkSize, wire,
                 pbapStatus, fifoVars, itemVars, broken>>

-----------------------------------------------------------------------------
(* getItem(), called until it does not return eGetItemRetOk.  tryPop()     *)
(* reads size, then active, without the mutex.                             *)

ReadSize ==
  /\ gpc = "call"
  /\ gpc' = IF fifoBuffer = <<>> THEN "empty" ELSE "pop"
  /\ UNCHANGED <<dpc, batched, startOffset, chunkVars, chunkSize, transfer, wire,
                 pbapStatus, fifoVars, vCard, received, broken>>

\* getItem() returns transferStatus when the FIFO is closed.
ReadActive ==
  /\ gpc = "empty"
  /\ gpc' = IF active THEN "call" ELSE pbapStatus
  /\ UNCHANGED <<dpc, batched, startOffset, chunkVars, chunkSize, transfer, wire,
                 pbapStatus, fifoVars, vCard, received, broken>>

(* A line is popped; the last line of a vCard completes an item, unless it *)
(* does not parse.                                                         *)
Pop ==
  /\ gpc = "pop"
  /\ fifoBuffer' = Tail(fifoBuffer)
  /\ IF Head(fifoBuffer).kind = "BEGIN"
     THEN /\ vCard' = Head(fifoBuffer).contact
          /\ gpc' = "call"
          /\ UNCHANGED received
     ELSE /\ vCard' = None
          /\ \/ gpc' = "call" /\ received' = Append(received, vCard)
             \/ gpc' = "Error" /\ UNCHANGED received
  /\ UNCHANGED <<dpc, batched, startOffset, chunkVars, chunkSize, transfer, wire,
                 pbapStatus, active, broken>>

(* The engine stops asking for items: it was cancelled or failed.          *)
Abandon ==
  /\ gpc = "call"
  /\ vCard = None
  /\ gpc' = "gone"
  /\ UNCHANGED <<dpc, batched, startOffset, chunkVars, chunkSize, transfer, wire,
                 pbapStatus, fifoVars, vCard, received, broken>>

-----------------------------------------------------------------------------
DownloadThread ==
  PullChunk \/ PullFails \/ WatchTransfer \/ PushLine \/ NextChunk \/ LeaveLoop \/ Close

PBAPGetItem == ReadSize \/ ReadActive \/ Pop

PBAPNext ==
  \/ InitSource
  \/ DownloadThread
  \/ TransferCompletes
  \/ TransferFails
  \/ UnheardFails
  \/ SuspendOrResume
  \/ PBAPGetItem
  \/ Abandon

PBAPSpec == PBAPInit /\ [][PBAPNext]_pbapVars

-----------------------------------------------------------------------------
\* The positions of the phonebook in the order in which they are downloaded.
Ring == [k \in 1..N |-> (startOffset + k - 1) % N]

\* tryPush() lets the queue grow one beyond fifoBufferSize.
PBAPTypeOK ==
  /\ dpc \in {"connect", "session", "select", "size", "filters", "next", "watch", "read", "close", "exited"}
  /\ batched \in BOOLEAN
  /\ startOffset \in 0..N - 1
  /\ {chunkStart, chunkSize, chunksEnd, toDownload} \subseteq 0..N
  /\ transfer \in {"none", "unheard", "active", "suspended", "over"}
  /\ wire \in Seq([contact : 0..N - 1, kind : {"BEGIN", "END"}])
  /\ pbapStatus \in {"Ok", "End", "Error"}
  /\ fifoBuffer \in Seq([contact : 0..N - 1, kind : {"BEGIN", "END"}])
  /\ Len(fifoBuffer) <= FifoSize + 1
  /\ active \in BOOLEAN
  /\ gpc \in {"init", "call", "empty", "pop"} \cup Stopped
  /\ vCard \in 0..N - 1 \cup {None}
  /\ received \in Seq(0..N - 1)
  /\ broken \in BOOLEAN

(* However the chunks are cut, getItem() returns the contacts in the order *)
(* of the ring: none twice, none mixed up with another, none skipped.      *)
InRingOrder == IsPrefix(received, Ring)

(* When getItem() returns eGetItemRetEnd, every contact was returned or is *)
(* still in the FIFO: nothing got lost between the phone and the FIFO.     *)
LastLines == {k \in DOMAIN fifoBuffer : fifoBuffer[k].kind = "END"}
EndAccountsForAll == gpc = "End" => Len(received) + Cardinality(LastLines) = N

(* A download that broke off or was cancelled never ends with              *)
(* eGetItemRetEnd: OneWaySync would delete the contacts that are missing.  *)
BrokenNeverEnds == broken => gpc # "End"

(* When getItem() returns eGetItemRetEnd, every contact was returned.      *)
EndMeansAll == gpc = "End" => Len(received) = N

Shrunk == []<>(chunkSize = 0)

(* getItem() comes to an end, and so does the destructor, which joins the  *)
(* download thread, unless the transfer is suspended again and again, the  *)
(* size of the chunks has shrunk to nothing, nothing reports the end of a  *)
(* transfer, or, for the destructor, the thread waits for room in a FIFO   *)
(* nobody reads any more.                                                  *)
DownloadEnds ==
  \/ <>(gpc \in Stopped) /\ (<>(dpc = "exited") \/ <>[](gpc \in Stopped /\ Len(fifoBuffer) > FifoSize))
  \/ []<>(transfer = "suspended")
  \/ <>[](transfer = "unheard" /\ dpc = "read")
  \/ Shrunk
=============================================================================
