---------------------------- MODULE GoogleSource ----------------------------
(***************************************************************************)
(* GoogleSource: a thread downloads the contacts page by page into a       *)
(* buffer, and getItem() takes them out of it.  The mutex is held for      *)
(* short stretches without calls, which are single steps here; what the    *)
(* thread reads or writes without the mutex (paused, cancelled, and        *)
(* transferStatus when a query fails) are steps of their own.  A wait ends *)
(* with a signal only: wake-ups without one, which POSIX allows and        *)
(* getItem() does not look for, are left out.                              *)
(***************************************************************************)
EXTENDS Integers, Sequences

CONSTANTS
  MaxContacts,   \* in the address book of the server
  QuerySize,     \* contacts in a page, 500 in the code
  Retries        \* how often a query is tried, 5 in the code

ASSUME GoogleAssumption == MaxContacts \in Nat /\ QuerySize \in Nat \ {0} /\ Retries \in Nat \ {0}

VARIABLES
  life,            \* "new", "up", "closing" or "gone"
  contacts,        \* the server has contacts 1..contacts
  bad,             \* those whose vCard cannot be parsed
  thread,          \* where the download thread is
  offset,          \* of the next page
  next,            \* the contact of the page that is converted next
  tries,           \* failed attempts at the present query
  transferStatus,  \* "ok", "end" or "error"
  bufferedVCards,
  paused,
  cancelled,
  cancellable,     \* "idle", "asked" between the two steps of cancel(), or "cancelled"
  call,            \* getItem(): "idle", "waiting" for the condition, or "woken"
  answer           \* what the calls of getItem() have returned

threadVars == <<thread, offset, next, tries>>
controlVars == <<life, paused, cancelled, cancellable>>
googleVars == <<life, contacts, bad, threadVars, transferStatus, bufferedVCards, paused, cancelled,
                cancellable, call, answer>>

GoogleInit ==
  /\ life = "new"
  /\ contacts \in 0..MaxContacts /\ bad \in SUBSET (1..contacts)
  /\ thread = "none" /\ offset = 0 /\ next = 0 /\ tries = 0
  /\ transferStatus = "ok" /\ bufferedVCards = <<>>
  /\ paused = FALSE /\ cancelled = FALSE /\ cancellable = "idle"
  /\ call = "idle"
  /\ answer = [ret |-> "none", last |-> 0, broken |-> FALSE]

\* init(), when the authorization succeeds; otherwise nothing is started.
StartDownload ==
  /\ life = "new"
  /\ life' = "up" /\ thread' = "top"
  /\ UNCHANGED <<contacts, bad, offset, next, tries, transferStatus, bufferedVCards, paused, cancelled,
                 cancellable, call, answer>>

-----------------------------------------------------------------------------
(* getItem()                                                               *)

Answer(ret) ==
  /\ answer' = [answer EXCEPT !.ret = ret, !.broken = @ \/ ret = "error"]
  /\ call' = "idle"

\* The part of getItem() after the wait; the front of an empty buffer is
\* undefined.
TakeFromBuffer ==
  CASE transferStatus = "end" /\ bufferedVCards = <<>> -> Answer("end") /\ UNCHANGED bufferedVCards
    [] transferStatus = "error" -> Answer("error") /\ UNCHANGED bufferedVCards
    [] transferStatus = "ok" /\ bufferedVCards = <<>> -> Answer("undefined") /\ UNCHANGED bufferedVCards
    [] OTHER ->
         /\ bufferedVCards' = Tail(bufferedVCards)
         /\ IF Head(bufferedVCards) \in bad THEN Answer("error")
            ELSE /\ answer' = [answer EXCEPT !.ret = "ok", !.last = Head(bufferedVCards)]
                 /\ call' = "idle"

GetItem ==
  /\ life = "up" /\ call = "idle"
  /\ IF bufferedVCards = <<>> /\ transferStatus # "end"
     THEN call' = "waiting" /\ UNCHANGED <<bufferedVCards, answer>>
     ELSE TakeFromBuffer
  /\ UNCHANGED <<contacts, bad, threadVars, transferStatus, controlVars>>

WakeUp ==
  /\ call = "woken"
  /\ TakeFromBuffer
  /\ UNCHANGED <<contacts, bad, threadVars, transferStatus, controlVars>>

-----------------------------------------------------------------------------
(* downloadThreadFunc()                                                    *)

Signal == call' = IF call = "waiting" THEN "woken" ELSE call

\* The loop over the pages; a paused thread stays here.
PreparePage ==
  /\ thread = "top"
  /\ ~paused \/ cancelled
  /\ thread' = IF cancelled THEN "leave" ELSE "query"
  /\ tries' = 0
  /\ UNCHANGED <<contacts, bad, offset, next, transferStatus, bufferedVCards, controlVars, call, answer>>

PageEnd == IF offset + QuerySize < contacts THEN offset + QuerySize ELSE contacts

\* One attempt.  A cancelled request fails; the last failure sets the status
\* without the mutex.
QueryContacts ==
  /\ thread = "query"
  /\ \/ /\ cancellable # "cancelled"
        /\ thread' = "contact" /\ next' = offset + 1
        /\ UNCHANGED <<tries, transferStatus>>
     \/ /\ tries' = tries + 1
        /\ IF tries' < Retries
           THEN UNCHANGED <<thread, transferStatus>>
           ELSE thread' = "leave" /\ transferStatus' = "error"
        /\ UNCHANGED next
  /\ UNCHANGED <<contacts, bad, offset, bufferedVCards, controlVars, call, answer>>

\* The loop over the contacts of a page looks at cancelled each time.
NextContact ==
  /\ thread = "contact" /\ next <= PageEnd
  /\ thread' = IF cancelled THEN "leave" ELSE "convert"
  /\ UNCHANGED <<contacts, bad, offset, next, tries, transferStatus, bufferedVCards, controlVars, call, answer>>

PushContact ==
  /\ thread = "convert"
  /\ bufferedVCards' = Append(bufferedVCards, next)
  /\ Signal
  /\ thread' = "contact" /\ next' = next + 1
  /\ UNCHANGED <<contacts, bad, offset, tries, transferStatus, controlVars, answer>>

\* Mutant: the page that is short by one is the last one too.
ShortPage == PageEnd - offset <= QuerySize

LastPage == PageEnd - offset < QuerySize

\* A full page may be the last one: then an empty page follows.
FinishPage ==
  /\ thread = "contact" /\ next > PageEnd
  /\ offset' = offset + QuerySize
  /\ IF LastPage
     THEN transferStatus' = "end" /\ Signal /\ thread' = "done"
     ELSE thread' = "top" /\ UNCHANGED <<transferStatus, call>>
  /\ UNCHANGED <<contacts, bad, next, tries, bufferedVCards, controlVars, answer>>

\* Mutant: a thread that was cancelled, or has failed, returns without a signal.
LeaveSilently ==
  /\ thread = "leave"
  /\ thread' = "done"
  /\ UNCHANGED <<contacts, bad, offset, next, tries, transferStatus, bufferedVCards, controlVars, call, answer>>

\* A thread that was cancelled, or has failed, wakes the waiter and returns.
LeaveThread ==
  /\ thread = "leave"
  /\ Signal
  /\ thread' = "done"
  /\ UNCHANGED <<contacts, bad, offset, next, tries, transferStatus, bufferedVCards, controlVars, answer>>

-----------------------------------------------------------------------------
(* Control, from another thread.                                           *)

controlled == <<contacts, bad, threadVars, transferStatus, bufferedVCards, call, answer>>

Suspend == life = "up" /\ ~paused /\ paused' = TRUE /\ UNCHANGED <<life, cancelled, cancellable, controlled>>
Resume == life = "up" /\ paused /\ paused' = FALSE /\ UNCHANGED <<life, cancelled, cancellable, controlled>>

\* cancel() sets the flag under the mutex, then cancels the request.
Cancel ==
  /\ life = "up" /\ cancellable = "idle"
  /\ cancelled' = TRUE /\ cancellable' = "asked"
  /\ UNCHANGED <<life, paused, controlled>>
CancelRequest ==
  /\ cancellable = "asked"
  /\ cancellable' = "cancelled"
  /\ UNCHANGED <<life, paused, cancelled, controlled>>

\* The destructor destroys the mutex before it joins the thread; the thread,
\* which ignores what locking returns, goes on to its next look at cancelled.
Destroy ==
  /\ life = "up" /\ call = "idle" /\ cancellable # "asked"
  /\ life' = "closing" /\ cancelled' = TRUE
  /\ UNCHANGED <<paused, cancellable, controlled>>
Join ==
  /\ life = "closing" /\ thread = "done"
  /\ life' = "gone"
  /\ UNCHANGED <<paused, cancelled, cancellable, controlled>>

Download == PreparePage \/ QueryContacts \/ NextContact \/ PushContact \/ FinishPage \/ LeaveThread
Control == Suspend \/ Resume \/ Cancel \/ CancelRequest \/ Destroy \/ Join

GoogleNext == StartDownload \/ GetItem \/ WakeUp \/ Download \/ Control

\* A running thread is scheduled; a query ends; a call that was woken gets the
\* mutex; a call of cancel() and of the destructor goes on.
GoogleFairness ==
  WF_googleVars(Download) /\ WF_googleVars(WakeUp) /\ WF_googleVars(CancelRequest) /\ WF_googleVars(Join)

GoogleSpec == GoogleInit /\ [][GoogleNext]_googleVars /\ GoogleFairness

-----------------------------------------------------------------------------
(* Properties.                                                             *)

\* The state of the thread, the buffer and the call is well formed.
GoogleTypeOK ==
  /\ life \in {"new", "up", "closing", "gone"}
  /\ contacts \in 0..MaxContacts /\ bad \subseteq 1..contacts
  /\ thread \in {"none", "top", "query", "contact", "convert", "leave", "done"}
  /\ offset \in 0..MaxContacts + QuerySize /\ next \in 0..MaxContacts + QuerySize + 1 /\ tries \in 0..Retries
  /\ transferStatus \in {"ok", "end", "error"}
  /\ bufferedVCards \in Seq(1..contacts)
  /\ paused \in BOOLEAN /\ cancelled \in BOOLEAN /\ cancellable \in {"idle", "asked", "cancelled"}
  /\ call \in {"idle", "waiting", "woken"}
  /\ answer.ret \in {"none", "ok", "end", "error", "undefined"} /\ answer.last \in 0..contacts

GooglePromise == INSTANCE ItemSource WITH
  count <- IF life = "new" THEN 0 ELSE contacts, last <- answer.last, result <- answer.ret,
  broken <- answer.broken

\* After cancel() getItem() does not return an error, as it should: it goes on
\* with the contacts in the buffer, or at the end of the download, or takes the
\* front of the empty buffer.
FrontOfNothing ==
  /\ bufferedVCards = <<>> /\ answer' = [answer EXCEPT !.ret = "undefined"]
  /\ UNCHANGED <<life, contacts, cancelled>>
AfterCancel == cancelled /\ (GooglePromise!Item \/ GooglePromise!NoMore \/ FrontOfNothing)

\* GoogleSource keeps the promise of a Source, but for what it returns after
\* cancel(): all contacts in order, and "end" only after the last one, whatever
\* the page size, the retries and the interleaving of the thread with getItem()
\* (Google.cpp:240, :338).
GoogleKeepsPromise == GooglePromise!Init /\ [][GooglePromise!Next \/ AfterCancel]_(GooglePromise!sourceVars)

\* "After canceling Source next call to getVCard() should return
\* eGetItemRetError status" (Source.hpp:146), and so should one that is waiting:
\* "Error occurred or input was cancelled" (Source.hpp:158).
CancelMeansError ==
  [][cancelled /\ (GetItem \/ WakeUp) => call' = "waiting" \/ answer'.ret = "error"]_googleVars

\* A call that waits while the thread runs is answered, also when the download
\* fails or is cancelled: no signal is lost and no way out of the thread goes
\* without one, unless the source is suspended.  And the destructor returns,
\* wherever the thread is, also when it is paused (Google.cpp:255, :341, :352,
\* :415, :97).
GoogleCallsReturn ==
  /\ call = "waiting" /\ thread # "done" ~> call = "idle" \/ (paused /\ ~cancelled)
  /\ life = "closing" ~> life = "gone"

================================================================================
