----------------------------- MODULE DAVIterator -----------------------------
(***************************************************************************)
(* The iterators of the CardDAV and CalDAV storages (CardDAVStorage.cpp and*)
(* CalDAVStorage.cpp): a download thread asks the server for QuerySize     *)
(* items at a time, by the ids that a query returned before, and next()    *)
(* hands them out, waiting on a condition variable when there is none. The *)
(* storages' getItem() and OneWaySync::updateIndexDB() call next() until it*)
(* returns NULL, and delete the iterator.                                  *)
(*                                                                         *)
(* Items are numbered in the order of the query; other clients may remove  *)
(* them from the server meanwhile.  The two iterators are the same code    *)
(* twice, but for the way their helpers bring the server's answer back to  *)
(* the ids: by position for contacts, by name for events.  What a thread   *)
(* does with the mutex held is one step.  Spurious wake-ups are left out.  *)
(***************************************************************************)
EXTENDS Integers, Sequences, FiniteSets

CONSTANTS
  Total,      \* items the query returned
  QuerySize,  \* QUERY_SIZE, 1000 in the code
  Unreadable  \* those whose text parse() refuses

ASSUME DAVIteratorAssumption ==
  Total \in Nat /\ QuerySize \in Nat \ {0} /\ Unreadable \subseteq 0..Total - 1

VARIABLES
  byName,          \* the CalDAV iterator, not the CardDAV one
  tpc,             \* where the download thread is
  offset,          \* the items it has asked for
  cachedContacts,  \* items downloaded and not handed out
  transferStatus,
  cancelled,
  npc,             \* where the caller of next() is
  returned,        \* history: the items next() returned
  onServer         \* the items that are still on the server

threadVars == <<byName, tpc, offset>>
iteratorVars == <<threadVars, cachedContacts, transferStatus, cancelled, npc, returned, onServer>>

All == 0..Total - 1
Nothing == -1   \* the content of an item that was not filled

(* cursorInit() has succeeded.                                             *)
IteratorInit ==
  /\ byName \in BOOLEAN
  /\ tpc = "loop"
  /\ offset = 0
  /\ cachedContacts = <<>>
  /\ transferStatus = "Ok"
  /\ cancelled = FALSE
  /\ npc = "idle"
  /\ returned = <<>>
  /\ onServer = All

-----------------------------------------------------------------------------
(* downloadThreadFunc().                                                   *)

\* pthread_cond_signal() wakes next() only if it is waiting.
Signal == npc' = IF npc = "waiting" THEN "woken" ELSE npc

\* The destructor has not destroyed the mutex and the condition variable yet.
MutexAlive == npc \notin {"joining", "gone"}

\* Mutant: the last batch is not cut.
AskedBeyond == offset..offset + QuerySize - 1

Asked == All \cap offset..offset + QuerySize - 1

\* The answer has no item for an id that is gone, and may have any order.
Answers ==
  LET there == onServer \cap Asked
  IN  {s \in [1..Cardinality(there) -> there] : \A j, k \in DOMAIN s : j # k => s[j] # s[k]}

\* parse()'s result is ignored: the item stays empty and is kept.
Parsed(i) == IF i \in Unreadable THEN Nothing ELSE i

\* CardDAV: the k-th text gets the id of the k-th item asked for.
Contacts(answer) == [k \in 1..Len(answer) |-> [id |-> offset + k - 1, content |-> Parsed(answer[k])]]

\* Mutant: the texts are left in the order of the answer.
EventsAsReceived(answer) == Contacts(answer)

\* CalDAV: each text is put to its name's place; there is an empty item in the
\* place of one that is gone.
Events(answer) ==
  [k \in 1..Cardinality(Asked) |->
     LET i == offset + k - 1
     IN  [id |-> i, content |-> IF i \in onServer THEN Parsed(i) ELSE Nothing]]

Batch(answer) == IF byName THEN Events(answer) ELSE Contacts(answer)

(* The loop's condition and the check for cancel(); the request is sent.   *)
StartDownload ==
  /\ tpc = "loop"
  /\ offset < Total
  /\ ~cancelled
  /\ tpc' = "download"
  /\ UNCHANGED <<byName, offset, cachedContacts, transferStatus, cancelled, npc, returned, onServer>>

\* Mutant: an item between two batches is skipped.
SkipOne ==
  /\ tpc = "download"
  /\ MutexAlive
  /\ \E answer \in Answers : cachedContacts' = cachedContacts \o Batch(answer)
  /\ offset' = offset + QuerySize + 1
  /\ Signal
  /\ tpc' = "loop"
  /\ UNCHANGED <<byName, transferStatus, cancelled, returned, onServer>>

(* The server answers, and the batch is pushed.                            *)
DownloadBatch ==
  /\ tpc = "download"
  /\ MutexAlive
  /\ \E answer \in Answers : cachedContacts' = cachedContacts \o Batch(answer)
  /\ offset' = offset + QuerySize
  /\ Signal
  /\ tpc' = "loop"
  /\ UNCHANGED <<byName, transferStatus, cancelled, returned, onServer>>

\* Mutant: the error is only signalled.
FailWithoutStatus ==
  /\ tpc = "download"
  /\ tpc' = "signal"
  /\ UNCHANGED <<byName, offset, cachedContacts, transferStatus, cancelled, npc, returned, onServer>>

(* The download fails: the status is set without the mutex, the signal is  *)
(* the next step.                                                          *)
DownloadFails ==
  /\ tpc = "download"
  /\ transferStatus' = "Error"
  /\ tpc' = "signal"
  /\ UNCHANGED <<byName, offset, cachedContacts, cancelled, npc, returned, onServer>>

NoticeCancel ==
  /\ tpc = "loop"
  /\ offset < Total
  /\ cancelled
  /\ tpc' = "signal"
  /\ UNCHANGED <<byName, offset, cachedContacts, transferStatus, cancelled, npc, returned, onServer>>

SignalAndExit ==
  /\ tpc = "signal"
  /\ MutexAlive
  /\ Signal
  /\ tpc' = "exited"
  /\ UNCHANGED <<byName, offset, cachedContacts, transferStatus, cancelled, returned, onServer>>

\* Mutant: the end is not signalled.
FinishSilently ==
  /\ tpc = "loop"
  /\ offset >= Total
  /\ MutexAlive
  /\ transferStatus' = "End"
  /\ tpc' = "exited"
  /\ UNCHANGED <<byName, offset, cachedContacts, cancelled, npc, returned, onServer>>

\* Mutant: the status is set before the mutex is taken, as it is for an error.
FinishInTwoSteps ==
  /\ tpc = "loop"
  /\ offset >= Total
  /\ transferStatus' = "End"
  /\ tpc' = "signal"
  /\ UNCHANGED <<byName, offset, cachedContacts, cancelled, npc, returned, onServer>>

(* Everything was asked for: eGetItemRetEnd, and a signal.                 *)
Finish ==
  /\ tpc = "loop"
  /\ offset >= Total
  /\ MutexAlive
  /\ transferStatus' = "End"
  /\ Signal
  /\ tpc' = "exited"
  /\ UNCHANGED <<byName, offset, cachedContacts, cancelled, returned, onServer>>

(* The thread locks the mutex that the destructor has destroyed, which is  *)
(* undefined behaviour; the model of the thread stops there.               *)
LockDestroyed ==
  /\ ~MutexAlive
  /\ tpc \in {"download", "signal"} \/ (tpc = "loop" /\ offset >= Total)
  /\ tpc' = "undefined"
  /\ UNCHANGED <<byName, offset, cachedContacts, transferStatus, cancelled, npc, returned, onServer>>

-----------------------------------------------------------------------------
(* next() and the destructor.                                              *)

\* The part of next() after the wait.  front() of an empty cache is undefined
\* behaviour; the model of the caller stops there.
TakeItem ==
  \/ /\ transferStatus = "Error" \/ (transferStatus = "End" /\ cachedContacts = <<>>)
     /\ npc' = "null"
     /\ UNCHANGED <<cachedContacts, returned>>
  \/ /\ transferStatus = "Ok"
     /\ cachedContacts = <<>>
     /\ npc' = "undefined"
     /\ UNCHANGED <<cachedContacts, returned>>
  \/ /\ transferStatus # "Error"
     /\ cachedContacts # <<>>
     /\ returned' = Append(returned, Head(cachedContacts))
     /\ cachedContacts' = Tail(cachedContacts)
     /\ npc' = "idle"

(* next() waits when the cache is empty and the status is not End: not even*)
(* an error keeps it from waiting.                                         *)
CallNext ==
  /\ npc = "idle"
  /\ IF cachedContacts = <<>> /\ transferStatus # "End"
     THEN npc' = "waiting" /\ UNCHANGED <<cachedContacts, returned>>
     ELSE TakeItem
  /\ UNCHANGED <<threadVars, transferStatus, cancelled, onServer>>

WakeUp ==
  /\ npc = "woken"
  /\ TakeItem
  /\ UNCHANGED <<threadVars, transferStatus, cancelled, onServer>>

(* The destructor, after NULL or because the engine was cancelled: it tells*)
(* the thread to stop, ...                                                 *)
Destroy ==
  /\ npc \in {"idle", "null"}
  /\ cancelled' = TRUE
  /\ npc' = "destroying"
  /\ UNCHANGED <<threadVars, cachedContacts, transferStatus, returned, onServer>>

(* ... destroys the mutex and the condition variable, ...                  *)
DestroyMutex ==
  /\ npc = "destroying"
  /\ npc' = "joining"
  /\ UNCHANGED <<threadVars, cachedContacts, transferStatus, cancelled, returned, onServer>>

(* ... and only then waits for the thread that uses them.                  *)
JoinThread ==
  /\ npc = "joining"
  /\ tpc = "exited"
  /\ npc' = "gone"
  /\ UNCHANGED <<threadVars, cachedContacts, transferStatus, cancelled, returned, onServer>>

(* Another client removes an item from the server.                         *)
RemoveOnServer ==
  /\ \E c \in onServer : onServer' = onServer \ {c}
  /\ UNCHANGED <<threadVars, cachedContacts, transferStatus, cancelled, npc, returned>>

-----------------------------------------------------------------------------
DownloadThread ==
  \/ StartDownload \/ DownloadBatch \/ DownloadFails
  \/ NoticeCancel \/ SignalAndExit \/ Finish \/ LockDestroyed

Caller == CallNext \/ WakeUp \/ Destroy \/ DestroyMutex \/ JoinThread

IteratorNext == DownloadThread \/ Caller \/ RemoveOnServer

IteratorSpec == IteratorInit /\ [][IteratorNext]_iteratorVars

(* Both threads are scheduled; the server answers every request.           *)
FairSpec ==
  IteratorSpec /\ WF_iteratorVars(DownloadThread) /\ WF_iteratorVars(WakeUp \/ DestroyMutex \/ JoinThread)

-----------------------------------------------------------------------------
Item == [id : All, content : All \cup {Nothing}]

IteratorTypeOK ==
  /\ byName \in BOOLEAN
  /\ tpc \in {"loop", "download", "signal", "exited", "undefined"}
  /\ offset \in 0..Total + QuerySize - 1
  /\ cachedContacts \in Seq(Item)
  /\ transferStatus \in {"Ok", "End", "Error"}
  /\ cancelled \in BOOLEAN
  /\ npc \in {"idle", "waiting", "woken", "null", "undefined", "destroying", "joining", "gone"}
  /\ returned \in Seq(Item)
  /\ onServer \subseteq All

(* NULL means that the download failed, or that every item still on the    *)
(* server was handed out, if its text could be read: a storage is never    *)
(* taken for smaller than it is, although the thread and next() agree on   *)
(* the end only by the status.                                             *)
NullMeansOver ==
  npc = "null" =>
    \/ transferStatus = "Error"
    \/ onServer \subseteq {returned[k].content : k \in DOMAIN returned} \cup Unreadable

(* Ids are handed out in the order of the query, and no content twice.  An *)
(* event has the id of its content, and is empty only if it is gone from   *)
(* the server or its text cannot be read; a contact has the id of an item  *)
(* of the same request at least, whatever vanished and however the server  *)
(* ordered its answer (CalDAVHelper.cpp:543, CardDAVStorage.cpp:551).      *)
InOrder ==
  LET items == returned \o cachedContacts
  IN  /\ \A j, k \in DOMAIN items : j < k =>
           /\ items[j].id < items[k].id
           /\ items[j].content = items[k].content => items[j].content = Nothing
      /\ \A k \in DOMAIN items :
           LET i == items[k]
           IN  /\ byName => i.content = i.id \/ (i.content = Nothing /\ i.id \notin onServer \ Unreadable)
               /\ i.content # Nothing => i.id - i.content < QuerySize /\ i.content - i.id < QuerySize

(* front() is called on an empty cache only if contacts vanish from the    *)
(* server: one wait without a loop is enough for one caller.               *)
FrontIsSafe == byName \/ onServer = All => npc # "undefined"

(* An iterator that was read to its end can be deleted: the thread does not*)
(* touch its mutex after the end is seen (CardDAVStorage.cpp:454, :517).   *)
DeleteAfterEnd == transferStatus = "End" => tpc # "undefined"

(* next() returns, unless the download has failed.  The destructor returns,*)
(* unless the thread uses the mutex that the destructor has destroyed.     *)
CallsReturn ==
  /\ npc = "waiting" ~> npc # "waiting" \/ transferStatus = "Error"
  /\ npc = "joining" ~> npc = "gone" \/ tpc = "undefined"
=============================================================================
