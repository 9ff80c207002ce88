---------------------------- MODULE SourceProofs ----------------------------
(***************************************************************************)
(* GoogleSource and FileSource implement ItemSource, but for the steps that*)
(* AfterCancel and FirstFileLost name, for every address book and page     *)
(* size, every number of retries, and every directory.  Each of the two has*)
(* an inductive invariant that says how far what was handed out is behind  *)
(* what was read: the buffer of the download thread is the gap between the *)
(* two (BufferInv), the open file is (PlaceInv).                           *)
(*                                                                         *)
(* PBAPDownload returns the contacts in the order of the ring, and never   *)
(* says that a download which broke off is complete.                       *)
(***************************************************************************)
EXTENDS MCSources, SharedFacts, SequenceTheorems, TLAPS

(***************************************************************************)
(* GoogleSource.                                                           *)
(***************************************************************************)

(* What the thread has pushed so far; it has left, or failed, otherwise.   *)
Running == thread \in {"top", "query", "contact", "convert"}
Pushed == IF thread \in {"contact", "convert"} THEN next - 1 ELSE offset

ThreadInv ==
  /\ life = "new" =>
       /\ thread = "none" /\ offset = 0 /\ call = "idle" /\ bufferedVCards = <<>> /\ ~cancelled
       /\ answer = [ret |-> "none", last |-> 0, broken |-> FALSE] /\ transferStatus = "ok"
  /\ thread = "none" => life = "new"
  /\ Running => offset <= contacts /\ transferStatus = "ok"
  /\ thread = "contact" => next \in offset + 1..PageEnd + 1
  /\ thread = "convert" => next \in offset + 1..PageEnd
  /\ thread = "query" => tries < Retries
  /\ transferStatus = "end" => thread = "done"
  /\ thread \in {"leave", "done"} => transferStatus # "ok" \/ cancelled
  /\ cancellable # "idle" => cancelled

BufferInv ==
  LET n == Len(bufferedVCards)
  IN  /\ \A k \in 1..n : bufferedVCards[k] = bufferedVCards[1] + k - 1
      /\ n # 0 => answer.last < bufferedVCards[1] /\ (~answer.broken => answer.last = bufferedVCards[1] - 1)
      /\ Running /\ n # 0 => bufferedVCards[n] = Pushed
      /\ Running /\ n = 0 => answer.last <= Pushed /\ (~answer.broken => answer.last = Pushed)
      /\ transferStatus = "end" /\ n # 0 => bufferedVCards[n] = contacts
      /\ transferStatus = "end" /\ n = 0 /\ ~answer.broken => answer.last = contacts

CallInv ==
  /\ answer \in [ret : {"none", "ok", "end", "error", "undefined"}, last : 0..contacts, broken : BOOLEAN]
  /\ call = "woken" /\ transferStatus = "ok" /\ bufferedVCards = <<>> => cancelled
  /\ answer.ret = "end" => transferStatus = "end" /\ bufferedVCards = <<>>

GInv == GoogleTypeOK /\ ThreadInv /\ BufferInv /\ CallInv

-----------------------------------------------------------------------------
LEMMA GoogleInitEstablishes == GoogleInit => GInv
<1> SUFFICES ASSUME GoogleInit PROVE GInv
  OBVIOUS
<1> USE GoogleAssumption DEF GoogleInit
<1>1. contacts \in 0..MaxContacts /\ contacts \in Nat /\ bufferedVCards = <<>> /\ Len(bufferedVCards) = 0
  OBVIOUS
<1>2. GoogleTypeOK
  <2>1. bufferedVCards \in Seq(1..contacts) /\ offset \in 0..MaxContacts + QuerySize
        /\ next \in 0..MaxContacts + QuerySize + 1 /\ tries \in 0..Retries
    OBVIOUS
  <2>2. answer.ret = "none" /\ answer.last = 0 /\ 0 \in 0..contacts /\ bad \subseteq 1..contacts
    BY <1>1
  <2> QED
    BY <1>1, <2>1, <2>2 DEF GoogleTypeOK
<1>3. ThreadInv /\ CallInv
  BY <1>1 DEF ThreadInv, CallInv, Running
<1>4. BufferInv
  BY <1>1 DEF BufferInv, Running
<1> QED
  BY <1>2, <1>3, <1>4 DEF GInv

(* A step that leaves the buffer and the answer alone.                     *)
LEMMA GoogleFrame ==
  ASSUME GInv, GoogleTypeOK', ThreadInv', UNCHANGED <<contacts, bufferedVCards, answer>>,
         Running' => (Running /\ Pushed' = Pushed) \/ (life = "new" /\ Pushed' = 0),
         transferStatus' = "end" =>
           transferStatus = "end" \/ (Running /\ Pushed = contacts),
         transferStatus = "end" => transferStatus' = "end",
         call' = "woken" /\ transferStatus' = "ok" =>
           cancelled' \/ (call = "woken" /\ transferStatus = "ok" /\ ~cancelled)
  PROVE  BufferInv' /\ CallInv'
<1>1. CallInv'
  BY DEF GInv, CallInv
<1>2. BufferInv'
  BY DEF GInv, BufferInv, ThreadInv, Running
<1> QED
  BY <1>1, <1>2

-----------------------------------------------------------------------------
(* The thread.                                                             *)

LEMMA PushKeeps == GInv /\ PushContact => GInv'
<1> SUFFICES ASSUME GInv, PushContact PROVE GInv'
  OBVIOUS
<1> USE DEF GInv
<1> DEFINE b == bufferedVCards
           n == Len(b)
<1>t. /\ b \in Seq(1..contacts) /\ n \in Nat /\ contacts \in Nat /\ offset \in Nat /\ QuerySize \in Nat \ {0}
      /\ MaxContacts \in Nat /\ contacts <= MaxContacts /\ Retries \in Nat \ {0}
  BY GoogleAssumption DEF GoogleTypeOK
<1>1. /\ thread = "convert" /\ thread' = "contact" /\ next \in offset + 1..PageEnd /\ next' = next + 1
      /\ b' = Append(b, next) /\ offset <= contacts /\ transferStatus = "ok"
      /\ call' = IF call = "waiting" THEN "woken" ELSE call
      /\ UNCHANGED <<contacts, bad, offset, tries, transferStatus, controlVars, answer>>
  BY DEF PushContact, Signal, ThreadInv, Running
<1>p. PageEnd \in Nat /\ PageEnd <= contacts /\ PageEnd' = PageEnd
  BY <1>t, <1>1 DEF PageEnd
<1>2. next \in 1..contacts
  BY <1>t, <1>1, <1>p
<1>3. /\ b' \in Seq(1..contacts) /\ Len(b') = n + 1 /\ b'[n + 1] = next
      /\ \A k \in 1..n : b'[k] = b[k]
  BY <1>t, <1>1, <1>2
<1>4. GoogleTypeOK'
  <2>1. next' \in 0..MaxContacts + QuerySize + 1
    BY <1>t, <1>1, <1>2
  <2> QED
    BY <1>1, <1>3, <2>1 DEF GoogleTypeOK, controlVars
<1>5. ThreadInv'
  <2>1. next' \in offset + 1..PageEnd + 1
    BY <1>t, <1>1, <1>p
  <2> QED
    BY <1>1, <1>p, <2>1 DEF ThreadInv, Running, controlVars
<1>6. CallInv'
  <2>1. b' # <<>>
    BY <1>t, <1>3
  <2> QED
    BY <1>1, <2>1 DEF CallInv
<1>7. BufferInv'
  <2>1. /\ n # 0 => b[n] = next - 1 /\ answer.last < b[1] /\ (~answer.broken => answer.last = b[1] - 1)
        /\ n = 0 => answer.last <= next - 1 /\ (~answer.broken => answer.last = next - 1)
        /\ \A k \in 1..n : b[k] = b[1] + k - 1
    BY <1>1 DEF BufferInv, Running, Pushed
  <2>2. answer.last \in Int /\ next \in Int /\ answer' = answer
    BY <1>t, <1>1, <1>2 DEF CallInv
  <2>3. \A k \in 1..n : b[k] \in Int
    BY <1>t
  <2>4. \A k \in 1..n + 1 : b'[k] = b'[1] + k - 1
    <3>1. CASE n = 0
      BY <1>3, <2>2, <3>1
    <3>2. CASE n # 0
      <4>1. n \in 1..n /\ 1 \in 1..n
        BY <1>t, <3>2
      <4>2. b'[1] = b[1] /\ b[n] = b[1] + n - 1 /\ b[1] \in Int
        BY <1>3, <2>1, <2>3, <4>1
      <4>3. next = b[1] + n
        BY <1>t, <2>1, <2>2, <3>2, <4>2
      <4>4. \A k \in 1..n + 1 : k \in 1..n \/ k = n + 1
        BY <1>t
      <4>5. b'[n + 1] = b'[1] + (n + 1) - 1
        BY <1>t, <1>3, <4>2, <4>3
      <4> QED
        BY <1>3, <2>1, <4>2, <4>4, <4>5
    <3> QED
      BY <3>1, <3>2
  <2>5. answer.last < b'[1] /\ (~answer.broken => answer.last = b'[1] - 1)
    <3>1. CASE n = 0
      BY <1>3, <2>1, <2>2, <3>1
    <3>2. CASE n # 0
      <4>1. 1 \in 1..n
        BY <1>t, <3>2
      <4> QED
        BY <1>3, <2>1, <3>2, <4>1
    <3> QED
      BY <3>1, <3>2
  <2>6. b'[n + 1] = Pushed' /\ transferStatus' # "end" /\ n + 1 # 0
    BY <1>t, <1>1, <1>2, <1>3 DEF Pushed
  <2> HIDE DEF n
  <2> QED
    BY <1>1, <1>3, <2>2, <2>4, <2>5, <2>6 DEF BufferInv
<1> QED
  BY <1>4, <1>5, <1>6, <1>7

LEMMA ThreadKeeps ==
  GInv /\ (PreparePage \/ QueryContacts \/ NextContact \/ FinishPage \/ LeaveThread) => GInv'
<1> SUFFICES ASSUME GInv, PreparePage \/ QueryContacts \/ NextContact \/ FinishPage \/ LeaveThread
             PROVE  GInv'
  OBVIOUS
<1> USE DEF GInv, controlVars
<1>t. /\ contacts \in Nat /\ offset \in Nat /\ QuerySize \in Nat \ {0}
      /\ MaxContacts \in Nat /\ contacts <= MaxContacts /\ Retries \in Nat \ {0} /\ tries \in Nat
      /\ bufferedVCards \in Seq(1..contacts)
  BY GoogleAssumption DEF GoogleTypeOK
<1>p. PageEnd \in Nat /\ PageEnd <= contacts /\ PageEnd <= offset + QuerySize
      /\ (Running => offset <= PageEnd)
  BY <1>t DEF PageEnd, ThreadInv
<1>u. UNCHANGED <<contacts, bufferedVCards, answer, bad, life, paused, cancelled, cancellable>>
  BY DEF PreparePage, QueryContacts, NextContact, FinishPage, LeaveThread
<1>1. CASE PreparePage
  <2>1. thread = "top" /\ thread' \in {"leave", "query"} /\ tries' = 0 /\ UNCHANGED <<offset, next, transferStatus, call>>
    BY <1>1 DEF PreparePage
  <2>2. GoogleTypeOK' /\ ThreadInv'
    BY <1>1, <1>t DEF PreparePage, GoogleTypeOK, ThreadInv, Running
  <2> QED
    BY <1>u, <2>1, <2>2, GoogleFrame DEF Running, Pushed
<1>2. CASE QueryContacts
  <2>1. thread = "query" /\ UNCHANGED <<offset, call>> /\ tries < Retries
    BY <1>2 DEF QueryContacts, ThreadInv
  <2>2. \/ thread' = "contact" /\ next' = offset + 1 /\ UNCHANGED <<tries, transferStatus>>
        \/ tries' = tries + 1 /\ tries' < Retries /\ UNCHANGED <<thread, transferStatus, next>>
        \/ tries' = tries + 1 /\ thread' = "leave" /\ transferStatus' = "error" /\ UNCHANGED next
    BY <1>2 DEF QueryContacts
  <2>3. tries' \in 0..Retries /\ next' \in 0..MaxContacts + QuerySize + 1 /\ PageEnd' = PageEnd
    BY <1>t, <1>u, <2>1, <2>2 DEF GoogleTypeOK, PageEnd
  <2>4. GoogleTypeOK'
    BY <1>u, <2>1, <2>2, <2>3 DEF GoogleTypeOK
  <2>5. next' = offset + 1 /\ thread = "query" => next' \in offset' + 1..PageEnd' + 1
    BY <1>t, <1>p, <2>1, <2>3 DEF Running
  <2>6. ThreadInv'
    BY <1>u, <2>1, <2>2, <2>3, <2>5 DEF ThreadInv, Running
  <2>7. Running' => Running /\ Pushed' = Pushed
    BY <1>t, <2>1, <2>2 DEF Running, Pushed
  <2>8. transferStatus = "ok"
    BY <2>1 DEF ThreadInv, Running
  <2> QED
    BY <1>u, <2>1, <2>2, <2>4, <2>6, <2>7, <2>8, GoogleFrame
<1>3. CASE NextContact
  <2>1. /\ thread = "contact" /\ thread' = IF cancelled THEN "leave" ELSE "convert"
        /\ next <= PageEnd /\ UNCHANGED <<offset, next, tries, transferStatus, call>>
    BY <1>3 DEF NextContact
  <2>2. PageEnd' = PageEnd /\ next \in offset + 1..PageEnd
    BY <1>t, <1>p, <1>u, <2>1 DEF PageEnd, ThreadInv
  <2>3. GoogleTypeOK'
    BY <1>u, <2>1 DEF GoogleTypeOK
  <2>4. ThreadInv'
    BY <1>u, <2>1, <2>2 DEF ThreadInv, Running
  <2> QED
    BY <1>u, <2>1, <2>3, <2>4, GoogleFrame DEF Running, Pushed
<1>4. CASE FinishPage
  <2>1. /\ thread = "contact" /\ next > PageEnd /\ offset' = offset + QuerySize
        /\ IF LastPage
           THEN transferStatus' = "end" /\ call' = (IF call = "waiting" THEN "woken" ELSE call) /\ thread' = "done"
           ELSE thread' = "top" /\ UNCHANGED <<transferStatus, call>>
        /\ UNCHANGED <<next, tries>>
    BY <1>4 DEF FinishPage, Signal
  <2>2. next = PageEnd + 1 /\ offset <= contacts
    BY <1>t, <1>p, <2>1 DEF ThreadInv, Running
  <2>3. IF LastPage THEN PageEnd = contacts ELSE PageEnd = offset + QuerySize /\ offset' <= contacts
    BY <1>t, <1>p, <2>1, <2>2 DEF LastPage, PageEnd
  <2>4. GoogleTypeOK'
    <3>1. offset' \in 0..MaxContacts + QuerySize
      BY <1>t, <2>1, <2>2
    <3> QED
      BY <1>u, <2>1, <3>1 DEF GoogleTypeOK
  <2>5. ThreadInv'
    BY <1>u, <2>1, <2>3 DEF ThreadInv, Running
  <2>6. Running' => Pushed' = Pushed
    BY <1>t, <2>1, <2>2, <2>3 DEF Running, Pushed
  <2>7. transferStatus' = "end" => Pushed = contacts
    <3>1. transferStatus = "ok"
      BY <2>1 DEF ThreadInv, Running
    <3> QED
      BY <1>t, <3>1, <2>1, <2>2, <2>3 DEF Pushed
  <2>8. Running /\ transferStatus = "ok"
    BY <2>1 DEF ThreadInv, Running
  <2> QED
    BY <1>u, <2>1, <2>4, <2>5, <2>6, <2>7, <2>8, GoogleFrame
<1>5. CASE LeaveThread
  <2>1. GoogleTypeOK' /\ ThreadInv'
    BY <1>5, <1>u DEF LeaveThread, Signal, GoogleTypeOK, ThreadInv, Running
  <2> QED
    BY <1>5, <1>u, <2>1, GoogleFrame DEF LeaveThread, Signal, Running, ThreadInv
<1> QED
  BY <1>1, <1>2, <1>3, <1>4, <1>5

-----------------------------------------------------------------------------
(* Control, and init().                                                    *)
LEMMA ControlKeeps == GInv /\ (StartDownload \/ Control \/ UNCHANGED googleVars) => GInv'
<1> SUFFICES ASSUME GInv, StartDownload \/ Control \/ UNCHANGED googleVars PROVE GInv'
  OBVIOUS
<1> USE DEF GInv, controlVars, threadVars, controlled
<1>1. GoogleTypeOK'
  BY DEF GoogleTypeOK, StartDownload, Control, Suspend, Resume, Cancel, CancelRequest, Destroy, Join, googleVars
<1>2. ThreadInv'
  BY GoogleAssumption DEF ThreadInv, Running, PageEnd, GoogleTypeOK, StartDownload, Control, Suspend, Resume, Cancel, CancelRequest,
     Destroy, Join, googleVars
<1>3. /\ UNCHANGED <<contacts, bufferedVCards, answer, transferStatus, call>>
      /\ cancelled => cancelled'
      /\ Running' => (Running /\ Pushed' = Pushed) \/ (life = "new" /\ Pushed' = 0)
  BY DEF ThreadInv, StartDownload, Control, Suspend, Resume, Cancel, CancelRequest, Destroy, Join, googleVars,
         Running, Pushed
<1> QED
  BY <1>1, <1>2, <1>3, GoogleFrame

-----------------------------------------------------------------------------
(* getItem().                                                              *)

\* What getItem() does after the wait.
EndOfList == transferStatus = "end" /\ bufferedVCards = <<>> /\ Answer("end") /\ UNCHANGED bufferedVCards
Failed == transferStatus = "error" /\ Answer("error") /\ UNCHANGED bufferedVCards
Nothing == /\ transferStatus = "ok" /\ bufferedVCards = <<>> /\ Answer("undefined") /\ UNCHANGED bufferedVCards
           /\ cancelled
Popped == /\ bufferedVCards # <<>> /\ transferStatus # "error"
          /\ bufferedVCards' = Tail(bufferedVCards) /\ call' = "idle"
          /\ \/ Answer("error")
             \/ answer' = [answer EXCEPT !.ret = "ok", !.last = Head(bufferedVCards)]

LEMMA GetItemCases ==
  ASSUME GInv, GetItem \/ WakeUp
  PROVE  /\ UNCHANGED <<contacts, bad, threadVars, transferStatus, controlVars>>
         /\ life # "new"
         /\ \/ call' = "waiting" /\ UNCHANGED <<bufferedVCards, answer>>
            \/ EndOfList \/ Failed \/ Nothing \/ Popped
<1>1. TakeFromBuffer => EndOfList \/ Failed \/ Popped
                        \/ (transferStatus = "ok" /\ bufferedVCards = <<>> /\ Answer("undefined") /\ UNCHANGED bufferedVCards)
  <2>1. transferStatus \in {"ok", "end", "error"}
    BY DEF GInv, GoogleTypeOK
  <2> QED
    BY <2>1 DEF TakeFromBuffer, EndOfList, Failed, Popped, Answer
<1>2. CASE GetItem
  BY <1>1, <1>2 DEF GetItem, EndOfList, Failed, Popped, Answer
<1>3. CASE WakeUp
  <2>1. transferStatus = "ok" /\ bufferedVCards = <<>> => cancelled
    BY <1>3 DEF WakeUp, GInv, CallInv
  <2>2. life # "new"
    BY <1>3 DEF WakeUp, GInv, ThreadInv
  <2> QED
    BY <1>1, <1>3, <2>1, <2>2 DEF WakeUp, Nothing
<1> QED
  BY <1>2, <1>3

(* The front of the buffer is the contact after the last one handed out,   *)
(* unless an error was returned in between.                                *)
LEMMA PopFacts ==
  ASSUME GInv, bufferedVCards # <<>>
  PROVE  LET b == bufferedVCards  t == Tail(bufferedVCards)
         IN  /\ b \in Seq(1..contacts) /\ Len(b) \in Nat \ {0} /\ Head(b) = b[1] /\ b[1] \in 1..contacts
             /\ t \in Seq(1..contacts) /\ Len(b) = Len(t) + 1 /\ Len(t) \in Nat
             /\ \A k \in 1..Len(t) : t[k] = b[1] + k
             /\ b[Len(b)] = b[1] + Len(t)
             /\ answer.last \in Nat /\ answer.last < b[1]
             /\ ~answer.broken => answer.last = b[1] - 1
<1> DEFINE b == bufferedVCards
           t == Tail(b)
<1>1. b \in Seq(1..contacts) /\ answer.last \in Nat
  BY DEF GInv, GoogleTypeOK
<1>2. /\ Head(b) = b[1] /\ b[1] \in 1..contacts /\ t \in Seq(1..contacts)
      /\ Len(b) = Len(t) + 1 /\ Len(t) \in Nat /\ Len(b) \in Nat \ {0}
      /\ \A k \in 1..Len(t) : t[k] = b[k + 1] /\ k + 1 \in 1..Len(b)
  <2> HIDE DEF b, t
  <2>1. b # <<>>
    BY DEF b
  <2>2. /\ Head(b) = b[1] /\ Tail(b) \in Seq(1..contacts) /\ Head(b) \in 1..contacts
        /\ Len(b) = Len(Tail(b)) + 1 /\ Len(Tail(b)) \in Nat
        /\ \A k \in 1..Len(Tail(b)) : Tail(b)[k] = b[k + 1] /\ k + 1 \in 1..Len(b)
    BY <1>1, <2>1, TailFacts
  <2>3. t = Tail(b)
    BY DEF t
  <2>4. Len(b) \in Nat \ {0}
    BY <2>2
  <2> QED
    BY <2>2, <2>3, <2>4
<1>3. /\ \A k \in 1..Len(b) : b[k] = b[1] + k - 1
      /\ answer.last < b[1] /\ (~answer.broken => answer.last = b[1] - 1)
  BY <1>2 DEF GInv, BufferInv
<1> HIDE DEF t, b
<1>4. \A k \in 1..Len(t) : t[k] = b[1] + k
  BY <1>2, <1>3
<1>5. b[Len(b)] = b[1] + Len(t)
  BY <1>2, <1>3
<1> QED
  BY <1>1, <1>2, <1>3, <1>4, <1>5 DEF t, b

LEMMA GetItemKeeps == GInv /\ (GetItem \/ WakeUp) => GInv'
<1> SUFFICES ASSUME GInv, GetItem \/ WakeUp PROVE GInv'
  OBVIOUS
<1> USE DEF controlVars, threadVars
<1>0. /\ UNCHANGED <<contacts, bad, thread, offset, next, tries, transferStatus, life, paused, cancelled, cancellable>>
      /\ life # "new"
  BY GetItemCases
<1>t. GoogleTypeOK /\ ThreadInv /\ CallInv /\ BufferInv
  BY DEF GInv
<1>f. Running' = Running /\ Pushed' = Pushed /\ PageEnd' = PageEnd
  BY <1>0 DEF Running, Pushed, PageEnd
<1>1. ThreadInv'
  BY <1>0, <1>t, <1>f DEF ThreadInv
<1>2. CASE call' = "waiting" /\ UNCHANGED <<bufferedVCards, answer>>
  <2>1. GoogleTypeOK'
    BY <1>0, <1>t, <1>2 DEF GoogleTypeOK
  <2> QED
    BY <1>0, <1>1, <1>2, <1>f, <2>1, GoogleFrame DEF GInv
<1>3. CASE EndOfList \/ Failed \/ Nothing
  <2>1. /\ call' = "idle" /\ UNCHANGED bufferedVCards
        /\ answer'.last = answer.last /\ (answer.broken => answer'.broken)
        /\ answer' \in [ret : {"none", "ok", "end", "error", "undefined"}, last : 0..contacts, broken : BOOLEAN]
        /\ answer'.ret = "end" => transferStatus = "end" /\ bufferedVCards = <<>>
    BY <1>3, <1>t DEF EndOfList, Failed, Nothing, Answer, CallInv
  <2>2. GoogleTypeOK'
    BY <1>0, <1>t, <2>1 DEF GoogleTypeOK
  <2>3. CallInv'
    BY <1>0, <2>1 DEF CallInv
  <2>4. BufferInv'
    BY <1>0, <1>f, <1>t, <2>1 DEF BufferInv
  <2> QED
    BY <1>1, <2>2, <2>3, <2>4 DEF GInv
<1>4. CASE Popped
  <2> DEFINE b == bufferedVCards
             t == Tail(bufferedVCards)
  <2>1. /\ b' = t /\ b # <<>> /\ call' = "idle"
        /\ \/ answer'.last = answer.last /\ answer'.broken /\ answer'.ret = "error"
           \/ answer'.last = b[1] /\ answer'.broken = answer.broken /\ answer'.ret = "ok"
        /\ answer' \in [ret : {"none", "ok", "end", "error", "undefined"}, last : 0..contacts, broken : BOOLEAN]
    <3>1. Head(b) = b[1] /\ b[1] \in 0..contacts /\ b # <<>>
      BY <1>4, PopFacts DEF Popped
    <3> HIDE DEF b, t
    <3>2. answer \in [ret : {"none", "ok", "end", "error", "undefined"}, last : 0..contacts, broken : BOOLEAN]
      BY <1>t DEF CallInv
    <3> QED
      BY <1>4, <3>1, <3>2 DEF Popped, Answer, b, t
  <2>2. /\ b \in Seq(1..contacts) /\ Len(b) \in Nat \ {0} /\ Head(b) = b[1] /\ b[1] \in 1..contacts
        /\ t \in Seq(1..contacts) /\ Len(b) = Len(t) + 1 /\ Len(t) \in Nat
        /\ \A k \in 1..Len(t) : t[k] = b[1] + k
        /\ b[Len(b)] = b[1] + Len(t)
        /\ answer.last \in Nat /\ answer.last < b[1]
        /\ ~answer.broken => answer.last = b[1] - 1
    BY <2>1, PopFacts
  <2>3. /\ Running => b[Len(b)] = Pushed
        /\ transferStatus = "end" => b[Len(b)] = contacts
    BY <1>t, <2>2 DEF BufferInv
  <2> HIDE DEF t
  <2>4. GoogleTypeOK'
    BY <1>0, <1>t, <2>1, <2>2 DEF GoogleTypeOK
  <2>5. CallInv'
    BY <1>0, <2>1 DEF CallInv
  <2>6. BufferInv'
    <3> HIDE DEF b
    <3>1. \A k \in 1..Len(t) : t[k] = t[1] + k - 1
      <4> TAKE k \in 1..Len(t)
      <4>1. 1 \in 1..Len(t) /\ t[1] = b[1] + 1 /\ t[k] = b[1] + k
        BY <2>2
      <4> QED
        BY <2>2, <4>1
    <3>2. Len(t) # 0 => /\ t[1] = b[1] + 1 /\ t[Len(t)] = b[Len(b)]
      BY <2>2
    <3>3. Len(t) = 0 => b[Len(b)] = b[1]
      BY <2>2
    <3>4. Len(t) # 0 => answer'.last < t[1] /\ (~answer'.broken => answer'.last = t[1] - 1)
      BY <2>1, <2>2, <3>2
    <3>5. Len(t) = 0 => answer'.last <= b[Len(b)] /\ (~answer'.broken => answer'.last = b[Len(b)])
      BY <2>1, <2>2, <3>3
    <3>6. bufferedVCards' = t
      BY <2>1 DEF b
    <3> QED
      BY <1>0, <1>f, <2>3, <3>1, <3>2, <3>4, <3>5, <3>6 DEF BufferInv
  <2> QED
    BY <1>1, <2>4, <2>5, <2>6 DEF GInv
<1> QED
  BY <1>2, <1>3, <1>4, GetItemCases

LEMMA GoogleStepKeeps == GInv /\ [GoogleNext]_googleVars => GInv'
  BY PushKeeps, ThreadKeeps, ControlKeeps, GetItemKeeps DEF GoogleNext, Download

-----------------------------------------------------------------------------
(* The steps of the source are steps of the promise.                       *)

LEMMA GoogleStepPromised ==
  GInv /\ [GoogleNext]_googleVars => [GooglePromise!Next \/ AfterCancel]_(GooglePromise!sourceVars)
<1> SUFFICES ASSUME GInv, [GoogleNext]_googleVars
             PROVE  GooglePromise!Next \/ AfterCancel \/ UNCHANGED GooglePromise!sourceVars
  OBVIOUS
<1> DEFINE count == IF life = "new" THEN 0 ELSE contacts
<1>t. contacts \in Nat /\ GoogleTypeOK /\ ThreadInv /\ CallInv /\ BufferInv
  BY GoogleAssumption DEF GInv, GoogleTypeOK
<1>1. CASE StartDownload
  <2>1. GooglePromise!Open
    BY <1>1, <1>t DEF StartDownload, GooglePromise!Open, ThreadInv
  <2> QED
    BY <2>1 DEF GooglePromise!Next
<1>2. CASE PreparePage \/ QueryContacts \/ NextContact \/ PushContact \/ FinishPage \/ LeaveThread
           \/ Suspend \/ Resume \/ CancelRequest \/ Join \/ UNCHANGED googleVars
  <2>1. UNCHANGED <<contacts, answer, cancelled>> /\ ((life' = "new") = (life = "new"))
    BY <1>2 DEF PreparePage, QueryContacts, NextContact, PushContact, FinishPage, LeaveThread,
           Suspend, Resume, CancelRequest, Join, googleVars, controlVars, controlled
  <2> QED
    BY <2>1 DEF GooglePromise!sourceVars
<1>3. CASE Cancel \/ Destroy
  <2>1. GooglePromise!Cancel
    BY <1>3 DEF Cancel, Destroy, controlled, GooglePromise!Cancel
  <2> QED
    BY <2>1 DEF GooglePromise!Next
<1>4. CASE GetItem \/ WakeUp
  <2>0. /\ life # "new" /\ UNCHANGED <<contacts, life, cancelled>>
        /\ answer \in [ret : {"none", "ok", "end", "error", "undefined"}, last : 0..contacts, broken : BOOLEAN]
    BY <1>4, <1>t, GetItemCases DEF controlVars, CallInv
  <2>1. CASE UNCHANGED answer
    BY <2>0, <2>1 DEF GooglePromise!sourceVars
  <2>2. CASE EndOfList
    <3>1. answer.broken \/ answer.last = contacts
      <4>1. Len(bufferedVCards) = 0 /\ transferStatus = "end"
        BY <2>2 DEF EndOfList
      <4> QED
        BY <1>t, <4>1 DEF BufferInv
    <3>2. GooglePromise!NoMore
      BY <2>0, <2>2, <3>1 DEF EndOfList, Answer, GooglePromise!NoMore
    <3> QED
      BY <3>2 DEF GooglePromise!Next, GooglePromise!Finish, AfterCancel
  <2>3. CASE Failed
    <3>1. answer.ret # "end"
      BY <1>t, <2>3 DEF CallInv, Failed
    <3>2. GooglePromise!Fail
      BY <2>0, <2>3, <3>1 DEF Failed, Answer, GooglePromise!Fail
    <3> QED
      BY <3>2 DEF GooglePromise!Next
  <2>4. CASE Nothing
    <3>1. answer' = [answer EXCEPT !.ret = "undefined"]
      BY <2>0, <2>4 DEF Nothing, Answer
    <3> QED
      BY <2>0, <2>4, <3>1 DEF Nothing, AfterCancel, FrontOfNothing
  <2>5. CASE Popped
    <3>0. bufferedVCards # <<>>
      BY <2>5 DEF Popped
    <3>1. /\ answer.ret # "end" /\ Head(bufferedVCards) \in 1..contacts /\ answer.last \in Nat
          /\ answer.last < Head(bufferedVCards)
          /\ ~answer.broken => Head(bufferedVCards) = answer.last + 1
      BY <1>t, <3>0, PopFacts DEF CallInv
    <3>2. CASE Answer("error")
      <4>1. GooglePromise!Fail
        BY <2>0, <3>1, <3>2 DEF Answer, GooglePromise!Fail
      <4> QED
        BY <4>1 DEF GooglePromise!Next
    <3>3. CASE answer' = [answer EXCEPT !.ret = "ok", !.last = Head(bufferedVCards)]
      <4>1. Head(bufferedVCards) \in answer.last + 1..(IF answer.broken THEN contacts ELSE answer.last + 1)
        BY <1>t, <3>1
      <4>2. GooglePromise!Item
        BY <1>t, <2>0, <3>1, <3>3, <4>1 DEF GooglePromise!Item
      <4> QED
        BY <4>2 DEF GooglePromise!Next, GooglePromise!Deliver, AfterCancel
    <3> QED
      BY <2>5, <3>2, <3>3 DEF Popped
  <2> QED
    BY <1>4, <2>1, <2>2, <2>3, <2>4, <2>5, GetItemCases
<1> QED
  BY <1>1, <1>2, <1>3, <1>4 DEF GoogleNext, Download, Control

LEMMA GoogleInitPromised == GoogleInit => GooglePromise!Init
  BY DEF GoogleInit, GooglePromise!Init

(* GoogleSource keeps the promise of a Source until it is cancelled, for   *)
(* any address book, page size, number of retries and interleaving of the  *)
(* thread with getItem().  What it returns after cancel(), where Source.hpp*)
(* promises errors, is named: the next contacts of the buffer, its end, or *)
(* the front of the empty buffer.                                          *)
THEOREM GoogleImplements == GoogleSpec => GoogleKeepsPromise
  BY GoogleInitEstablishes, GoogleStepKeeps, GoogleInitPromised, GoogleStepPromised, PTL
     DEF GoogleSpec, GoogleKeepsPromise

-----------------------------------------------------------------------------
(***************************************************************************)
(* FileSource.                                                             *)
(***************************************************************************)

(* What was read or lost of the files found; how far the caller can be.    *)
Passed == IF currentFile <= Len(filenames) THEN CardsIn(filenames)[currentFile] - Len(infile)
                                           ELSE TotalNumberOfVCards

FilesInv ==
  /\ filenames \in Seq(1..Len(disk))
  /\ given \in [ret : {"none", "ok", "error", "end"}, last : 0..TotalNumberOfVCards, broken : BOOLEAN]
  /\ counting = 0 \/ ~Opened

PlaceInv ==
  /\ ~Opened => infile = <<>> /\ ~lost /\ given = [ret |-> "none", last |-> 0, broken |-> FALSE]
  /\ Opened /\ currentFile <= Len(filenames) => Len(infile) <= Len(disk[filenames[currentFile]])
  /\ currentFile > Len(filenames) => infile = <<>>
  /\ given.last <= Passed /\ (~given.broken /\ ~lost => given.last = Passed)
  /\ given.ret = "end" => currentFile > Len(filenames)

FInv == FileTypeOK /\ FilesInv /\ PlaceInv

(* The running sum of the vCards is what its definition says.              *)
Sums(d, files) ==
  LET sum[i \in 0..Len(files)] == IF i = 0 THEN 0 ELSE sum[i - 1] + Len(d[files[i]])
  IN  sum

LEMMA CardSums ==
  ASSUME NEW d \in Seq(Seq({Good, Bad})), NEW files \in Seq(1..Len(d)), NEW f, f = Sums(d, files)
  PROVE  /\ f \in [0..Len(files) -> Nat] /\ f[0] = 0
         /\ \A i \in 1..Len(files) : f[i] = f[i - 1] + Len(d[files[i]]) /\ Len(d[files[i]]) \in Nat
         /\ \A i \in 0..Len(files) : f[i] <= f[Len(files)]
<1> DEFINE n == Len(files)
           c == [i \in 1..n |-> Len(d[files[i]])]
<1>1. n \in Nat /\ \A i \in 1..n : files[i] \in 1..Len(d) /\ d[files[i]] \in Seq({Good, Bad})
  OBVIOUS
<1>2. \A i \in 1..n : Len(d[files[i]]) \in Nat
  <2> HIDE DEF n
  <2> QED
    BY <1>1
<1>3. c \in [1..n -> Nat] /\ \A i \in 1..n : c[i] = Len(d[files[i]])
  <2> HIDE DEF n
  <2> QED
    BY <1>2
<1>4. \A g : [i \in 0..n |-> IF i = 0 THEN 0 ELSE g[i - 1] + Len(d[files[i]])]
             = [i \in 0..n |-> IF i = 0 THEN 0 ELSE g[i - 1] + c[i]]
  <2> SUFFICES ASSUME NEW g, NEW i \in 0..n
               PROVE  (IF i = 0 THEN 0 ELSE g[i - 1] + Len(d[files[i]])) = (IF i = 0 THEN 0 ELSE g[i - 1] + c[i])
    BY Zenon
  <2>1. i # 0 => i \in 1..n
    BY <1>1
  <2> HIDE DEF c, n
  <2> QED
    BY <1>3, <2>1
<1>5. f = CHOOSE g : g = [i \in 0..n |-> IF i = 0 THEN 0 ELSE g[i - 1] + c[i]]
  <2>1. f = CHOOSE g : g = [i \in 0..n |-> IF i = 0 THEN 0 ELSE g[i - 1] + Len(d[files[i]])]
    BY DEF Sums
  <2> HIDE DEF c, n
  <2> QED
    BY <1>4, <2>1, Zenon
<1> HIDE DEF c
<1>6. /\ f \in [0..n -> Nat] /\ f[0] = 0
      /\ \A i \in 1..n : f[i] = f[i - 1] + c[i]
      /\ \A i \in 0..n : f[i] <= f[n]
  <2> HIDE DEF n
  <2> QED
    BY <1>1, <1>3, <1>5, PrefixSums
<1> QED
  BY <1>2, <1>3, <1>6

LEMMA CardFacts ==
  ASSUME disk \in Seq(Seq({Good, Bad})), filenames \in Seq(1..Len(disk))
  PROVE  LET f == CardsIn(filenames)
             n == Len(filenames)
         IN  /\ f \in [0..n -> Nat] /\ f[0] = 0
             /\ \A i \in 1..n : f[i] = f[i - 1] + Len(disk[filenames[i]]) /\ Len(disk[filenames[i]]) \in Nat
             /\ \A i \in 0..n : f[i] <= TotalNumberOfVCards
             /\ n \in Nat /\ TotalNumberOfVCards \in Nat
<1>1. CardsIn(filenames) = Sums(disk, filenames)
  BY DEF CardsIn, Sums
<1> DEFINE f == CardsIn(filenames)
           n == Len(filenames)
<1>2. /\ f \in [0..n -> Nat] /\ f[0] = 0
      /\ \A i \in 1..n : f[i] = f[i - 1] + Len(disk[filenames[i]]) /\ Len(disk[filenames[i]]) \in Nat
      /\ \A i \in 0..n : f[i] <= f[n]
  <2> HIDE DEF f
  <2> QED
    BY <1>1, CardSums DEF f
<1>3. n \in Nat /\ n \in 0..n
  OBVIOUS
<1> HIDE DEF f, n
<1>4. f[n] \in Nat
  BY <1>2, <1>3
<1> QED
  BY <1>2, <1>3, <1>4 DEF f, n, TotalNumberOfVCards

-----------------------------------------------------------------------------
(* The vCards of a file come right after those of the files before it.     *)
LEMMA Types ==
  ASSUME FInv
  PROVE  /\ disk \in Seq(Seq({Good, Bad})) /\ filenames \in Seq(1..Len(disk)) /\ Len(disk) \in Nat
         /\ Len(filenames) \in Nat /\ currentFile \in 0..Len(filenames) + 1
         /\ TotalNumberOfVCards \in Nat /\ given.last \in 0..TotalNumberOfVCards
         /\ \A i \in 1..Len(filenames) : disk[filenames[i]] \in Seq({Good, Bad}) /\ disk[filenames[i]] # <<>>
         /\ infile \in Seq({Good, Bad})
<1>1. disk \in Seq(Seq({Good, Bad})) /\ filenames \in Seq(1..Len(disk))
  BY FileAssumption DEF FInv, FileTypeOK, FilesInv
<1>2. Len(disk) \in Nat /\ Len(filenames) \in Nat /\ \A i \in 1..Len(filenames) : filenames[i] \in 1..Len(disk)
  BY <1>1
<1>3. \A k \in 1..Len(disk) : disk[k] \in Seq({Good, Bad})
  BY <1>1
<1> QED
  BY <1>1, <1>2, <1>3, CardFacts DEF FInv, FileTypeOK

LEMMA FileInitEstablishes == FileInit => FInv
<1> SUFFICES ASSUME FileInit PROVE FInv
  OBVIOUS
<1> USE DEF FileInit
<1>1. /\ disk \in Seq(Seq({Good, Bad})) /\ filenames \in Seq(1..Len(disk)) /\ Len(filenames) = 0 /\ Len(infile) = 0
      /\ Len(disk) \in Nat
  BY FileAssumption
<1>2. TotalNumberOfVCards = 0 /\ 0 \in 0..TotalNumberOfVCards /\ CardsIn(filenames)[0] = 0
  BY <1>1, CardFacts DEF TotalNumberOfVCards
<1>3. FileTypeOK
  <2>1. infile \in Seq({Good, Bad}) /\ there \subseteq 1..Len(disk) /\ counting \in 0..Len(disk) + 1
        /\ currentFile \in 0..Len(filenames) + 1 /\ 1..Len(filenames) = {}
    BY <1>1
  <2>2. given.last = 0 /\ lost \in BOOLEAN /\ disk \in Directories
    OBVIOUS
  <2> QED
    BY <1>2, <2>1, <2>2 DEF FileTypeOK
<1>4. FilesInv
  BY <1>1, <1>2 DEF FilesInv
<1>5. PlaceInv
  BY <1>1, <1>2 DEF PlaceInv, Passed, Opened
<1> QED
  BY <1>3, <1>4, <1>5 DEF FInv

-----------------------------------------------------------------------------
(* init().                                                                 *)

\* The vCards of the files found so far.
LEMMA FoundFacts ==
  ASSUME FInv, disk' = disk, filenames' \in Seq(1..Len(disk))
  PROVE  /\ TotalNumberOfVCards' \in Nat /\ CardsIn(filenames)'[0] = 0 /\ Len(filenames') \in Nat
         /\ \A i \in 1..Len(filenames') :
              CardsIn(filenames)'[i] = CardsIn(filenames)'[i - 1] + Len(disk[filenames'[i]])
              /\ Len(disk[filenames'[i]]) \in Nat
<1> DEFINE f == CardsIn(filenames)'
<1>1. disk \in Seq(Seq({Good, Bad})) /\ Len(filenames') \in Nat
  BY Types
<1>2. f = Sums(disk, filenames')
  BY DEF CardsIn, Sums
<1> HIDE DEF f
<1>3. /\ f \in [0..Len(filenames') -> Nat] /\ f[0] = 0
      /\ \A i \in 1..Len(filenames') :
           f[i] = f[i - 1] + Len(disk[filenames'[i]]) /\ Len(disk[filenames'[i]]) \in Nat
  BY <1>1, <1>2, CardSums
<1>4. f[Len(filenames')] \in Nat
  <2> DEFINE n == Len(filenames')
  <2>1. f \in [0..n -> Nat] /\ n \in Nat
    BY <1>1, <1>3
  <2> HIDE DEF n
  <2>2. f[n] \in Nat
    BY <2>1
  <2> QED
    BY <2>2 DEF n
<1>5. TotalNumberOfVCards' = f[Len(filenames')]
  BY DEF f, TotalNumberOfVCards
<1> QED
  BY <1>1, <1>3, <1>4, <1>5 DEF f

\* Before the first file is open.
LEMMA UnopenedKeeps ==
  ASSUME FInv, ~Opened, filenames' \in Seq(1..Len(disk)), counting' \in 0..Len(disk) + 1,
         \A n \in 1..Len(filenames') : disk[filenames'[n]] # <<>>,
         UNCHANGED <<disk, there, currentFile, infile, lost, given>>
  PROVE  FInv'
<1>1. /\ currentFile = 0 /\ infile = <<>> /\ ~lost /\ Len(infile) = 0
      /\ given = [ret |-> "none", last |-> 0, broken |-> FALSE]
  BY DEF FInv, PlaceInv, Opened
<1>2. TotalNumberOfVCards' \in Nat /\ CardsIn(filenames)'[0] = 0 /\ Len(filenames') \in Nat
  BY FoundFacts
<1>3. \A n \in 1..Len(filenames') : filenames'[n] \in 1..Len(disk)
  OBVIOUS
<1>4. FileTypeOK'
  BY <1>1, <1>2, <1>3 DEF FInv, FileTypeOK
<1>5. FilesInv'
  BY <1>1, <1>2 DEF FilesInv, Opened
<1>6. Passed' = 0
  <2>1. currentFile' <= Len(filenames') /\ CardsIn(filenames)'[currentFile'] = 0 /\ Len(infile') = 0
    BY <1>1, <1>2
  <2>2. Passed' = CardsIn(filenames)'[currentFile'] - Len(infile')
    BY <2>1 DEF Passed
  <2> QED
    BY <2>1, <2>2
<1>7. PlaceInv'
  BY <1>1, <1>2, <1>6 DEF PlaceInv, Opened
<1> QED
  BY <1>4, <1>5, <1>7 DEF FInv

LEMMA CountVCardsKeeps == FInv /\ CountVCards => FInv'
<1> SUFFICES ASSUME FInv, CountVCards PROVE FInv'
  OBVIOUS
<1>1. /\ disk \in Seq(Seq({Good, Bad})) /\ filenames \in Seq(1..Len(disk)) /\ Len(filenames) \in Nat
      /\ \A i \in 1..Len(filenames) : disk[filenames[i]] # <<>>
  BY Types
<1>2. /\ counting \in 1..Len(disk) /\ counting' = counting + 1
      /\ UNCHANGED <<disk, there, currentFile, infile, lost, given>>
      /\ filenames' = IF HasVCards(counting) THEN Append(filenames, counting) ELSE filenames
  BY DEF CountVCards
<1>3. counting' \in 0..Len(disk) + 1 /\ ~Opened
  BY <1>1, <1>2 DEF FInv, FilesInv
<1>4. /\ filenames' \in Seq(1..Len(disk))
      /\ \A n \in 1..Len(filenames') : disk[filenames'[n]] # <<>>
  <2>1. CASE HasVCards(counting)
    <3>1. disk[counting] # <<>>
      BY <2>1 DEF HasVCards
    <3>2. /\ Append(filenames, counting) \in Seq(1..Len(disk))
          /\ Len(Append(filenames, counting)) = Len(filenames) + 1
          /\ \A n \in 1..Len(filenames) : Append(filenames, counting)[n] = filenames[n]
          /\ Append(filenames, counting)[Len(filenames) + 1] = counting
      BY <1>1, <1>2, AppendFacts
    <3>3. \A n \in 1..Len(filenames) + 1 : n \in 1..Len(filenames) \/ n = Len(filenames) + 1
      BY <1>1
    <3> QED
      BY <1>1, <1>2, <2>1, <3>1, <3>2, <3>3
  <2>2. CASE ~HasVCards(counting)
    BY <1>1, <1>2, <2>2
  <2> QED
    BY <2>1, <2>2
<1> QED
  BY <1>2, <1>3, <1>4, UnopenedKeeps

LEMMA ListFilesKeeps == FInv /\ ListFiles => FInv'
<1> SUFFICES ASSUME FInv, ListFiles PROVE FInv'
  OBVIOUS
<1>1. /\ disk \in Seq(Seq({Good, Bad})) /\ filenames \in Seq(1..Len(disk)) /\ Len(disk) \in Nat
      /\ \A i \in 1..Len(filenames) : disk[filenames[i]] # <<>>
  BY Types
<1>2. counting' = 1 /\ ~Opened /\ UNCHANGED <<disk, there, filenames, currentFile, infile, lost, given>>
  BY DEF ListFiles
<1>3. counting' \in 0..Len(disk) + 1
  BY <1>1, <1>2
<1> QED
  BY <1>1, <1>2, <1>3, UnopenedKeeps

\* The first file is open before its first vCard, or is lost as a whole.
LEMMA OpenFirstKeeps == FInv /\ OpenFirst => FInv'
<1> SUFFICES ASSUME FInv, OpenFirst PROVE FInv'
  OBVIOUS
<1>1. /\ disk \in Seq(Seq({Good, Bad})) /\ filenames \in Seq(1..Len(disk)) /\ Len(filenames) \in Nat
      /\ Len(disk) \in Nat
      /\ \A i \in 1..Len(filenames) : disk[filenames[i]] \in Seq({Good, Bad}) /\ disk[filenames[i]] # <<>>
  BY Types
<1>2. /\ counting = Len(disk) + 1 /\ counting' = 0 /\ UNCHANGED <<disk, there, filenames, given>>
  BY DEF OpenFirst
<1>3. ~Opened
  BY <1>1, <1>2 DEF FInv, FilesInv
<1>4. CASE filenames = <<>>
  <2>1. UNCHANGED <<currentFile, infile, lost>>
    BY <1>4 DEF OpenFirst
  <2> QED
    BY <1>1, <1>2, <1>3, <2>1, UnopenedKeeps
<1>5. CASE filenames # <<>>
  <2>1. /\ currentFile' = 1 /\ lost' \in BOOLEAN
        /\ infile' = IF lost' THEN <<>> ELSE disk[filenames[1]]
    BY <1>5 DEF OpenFirst
  <2>2. 1 \in 1..Len(filenames) /\ 1 <= Len(filenames) /\ ~(1 > Len(filenames))
    BY <1>1, <1>5
  <2>3. given = [ret |-> "none", last |-> 0, broken |-> FALSE]
    BY <1>3 DEF FInv, PlaceInv
  <2>4. /\ TotalNumberOfVCards' \in Nat
        /\ CardsIn(filenames)'[1] = Len(disk[filenames[1]]) /\ Len(disk[filenames[1]]) \in Nat
    <3>1. /\ TotalNumberOfVCards' \in Nat /\ CardsIn(filenames)'[0] = 0
          /\ CardsIn(filenames)'[1] = CardsIn(filenames)'[1 - 1] + Len(disk[filenames[1]])
          /\ Len(disk[filenames[1]]) \in Nat
      BY <1>1, <1>2, <2>2, FoundFacts
    <3> QED
      BY <3>1
  <2>5. infile' \in Seq({Good, Bad}) /\ Len(infile') <= Len(disk[filenames[1]]) /\ Len(infile') \in Nat
        /\ (~lost' => Len(infile') = Len(disk[filenames[1]]))
    <3>1. CASE lost'
      BY <2>1, <2>4, <3>1
    <3>2. CASE ~lost'
      BY <1>1, <2>1, <2>2, <2>4, <3>2
    <3> QED
      BY <3>1, <3>2
  <2>6. Passed' >= 0 /\ (~lost' => Passed' = 0)
    <3>1. Passed' = CardsIn(filenames)'[1] - Len(infile')
      BY <1>2, <2>1, <2>2 DEF Passed
    <3> QED
      BY <2>4, <2>5, <3>1
  <2>7. FileTypeOK'
    <3>1. (currentFile \in 0..Len(filenames) + 1)' /\ (counting \in 0..Len(disk) + 1)'
      BY <1>1, <1>2, <2>1
    <3>2. (given.last \in 0..TotalNumberOfVCards)'
      BY <1>2, <2>3, <2>4
    <3> QED
      BY <1>2, <2>1, <2>5, <3>1, <3>2 DEF FInv, FileTypeOK
  <2>8. FilesInv'
    BY <1>1, <1>2, <2>3, <2>4 DEF FilesInv
  <2>9. PlaceInv'
    BY <1>2, <2>1, <2>2, <2>3, <2>5, <2>6 DEF PlaceInv, Opened
  <2> QED
    BY <2>7, <2>8, <2>9 DEF FInv
<1> QED
  BY <1>4, <1>5

-----------------------------------------------------------------------------
(* One call of getItem().                                                  *)

\* Where the source stands, in terms of how far the caller can be.
LEMMA PassedFacts ==
  ASSUME FInv
  PROVE  /\ Passed \in 0..TotalNumberOfVCards
         /\ \A f \in 1..Len(filenames) :
              /\ CardsIn(filenames)[f] \in 0..TotalNumberOfVCards /\ CardsIn(filenames)[f - 1] \in Nat
              /\ Len(disk[filenames[f]]) \in Nat \ {0}
              /\ CardsIn(filenames)[f] = CardsIn(filenames)[f - 1] + Len(disk[filenames[f]])
         /\ Len(filenames) >= 1 => CardsIn(filenames)[Len(filenames)] = TotalNumberOfVCards
<1> DEFINE c == CardsIn(filenames)
           n == Len(filenames)
           total == TotalNumberOfVCards
<1>1. /\ c \in [0..n -> Nat] /\ n \in Nat /\ total \in Nat /\ currentFile \in 0..n + 1 /\ c[0] = 0
      /\ \A i \in 1..n : c[i] = c[i - 1] + Len(disk[filenames[i]])
      /\ \A i \in 0..n : c[i] <= total
  BY Types, CardFacts
<1>2. \A i \in 1..n : disk[filenames[i]] \in Seq({Good, Bad}) /\ disk[filenames[i]] # <<>>
  BY Types
<1>3. /\ currentFile # 0 /\ currentFile <= n => Len(infile) <= Len(disk[filenames[currentFile]])
      /\ currentFile = 0 => Len(infile) = 0
      /\ infile \in Seq({Good, Bad}) /\ Len(infile) \in Nat
  BY Types DEF FInv, PlaceInv, Opened
<1>4. Passed = IF currentFile <= n THEN c[currentFile] - Len(infile) ELSE total
  BY DEF Passed
<1>5. \A f \in 1..n : Len(disk[filenames[f]]) \in Nat \ {0}
  <2> TAKE f \in 1..n
  <2> DEFINE d == disk[filenames[f]]
  <2>1. d \in Seq({Good, Bad}) /\ d # <<>>
    BY <1>2
  <2> HIDE DEF d
  <2>2. Len(d) \in Nat /\ Len(d) # 0
    BY <2>1
  <2> QED
    BY <2>2 DEF d
<1>6. n >= 1 => c[n] = total
  BY DEF TotalNumberOfVCards
<1> HIDE DEF c, n, total
<1>7. \A f \in 1..n : c[f] \in 0..total /\ c[f - 1] \in Nat
  <2> TAKE f \in 1..n
  <2>1. f \in 0..n /\ f - 1 \in 0..n
    BY <1>1
  <2>2. c[f] \in Nat /\ c[f - 1] \in Nat /\ c[f] <= total
    BY <1>1, <2>1
  <2> QED
    BY <1>1, <2>2
<1>8. Passed \in 0..total
  <2>0. CASE currentFile = 0
    <3>1. currentFile <= n /\ c[currentFile] = 0
      BY <1>1, <2>0
    <3> QED
      BY <1>1, <1>3, <1>4, <2>0, <3>1
  <2>1. CASE currentFile # 0 /\ currentFile <= n
    <3>1. currentFile \in 1..n
      BY <1>1, <2>1
    <3>2. c[currentFile] = c[currentFile - 1] + Len(disk[filenames[currentFile]])
      BY <1>1, <3>1
    <3>3. c[currentFile] \in 0..total /\ c[currentFile - 1] \in Nat /\ Len(disk[filenames[currentFile]]) \in Nat
      BY <1>5, <1>7, <3>1
    <3> QED
      BY <1>1, <1>3, <1>4, <2>1, <3>2, <3>3, SMTT(30)
  <2>2. CASE ~(currentFile <= n)
    BY <1>1, <1>4, <2>2
  <2> QED
    BY <2>0, <2>1, <2>2
<1> QED
  BY <1>1, <1>5, <1>6, <1>7, <1>8 DEF c, n, total

\* A vCard is taken from file f, of which these are left.
LEMMA ReadCardFacts ==
  ASSUME FInv, NEW f \in 1..Len(filenames), NEW cards \in Seq({Good, Bad}), cards # <<>>,
         CardsIn(filenames)[f] - Len(cards) = Passed, Len(cards) <= Len(disk[filenames[f]]),
         ReadCard(f, cards), currentFile' = f, UNCHANGED <<disk, filenames>>
  PROVE  /\ infile' \in Seq({Good, Bad}) /\ Len(infile') <= Len(disk[filenames[f]])
         /\ Passed' = Passed + 1 /\ Passed + 1 <= TotalNumberOfVCards
         /\ \/ given' = [ret |-> "ok", last |-> Passed + 1, broken |-> given.broken]
            \/ given' = [ret |-> "error", last |-> given.last, broken |-> TRUE]
<1>1. /\ Tail(cards) \in Seq({Good, Bad}) /\ Len(Tail(cards)) \in Nat /\ Len(cards) = Len(Tail(cards)) + 1
  BY TailFacts
<1>2. /\ infile' = Tail(cards)
      /\ given' = LET ret == IF Head(cards) = Good THEN "ok" ELSE "error"
                  IN  [ret |-> ret, last |-> IF ret = "ok" THEN CardsIn(filenames)[f] - Len(cards) + 1 ELSE given.last,
                       broken |-> given.broken \/ ret = "error"]
  BY DEF ReadCard, FileAnswer
<1>3. given.broken \in BOOLEAN /\ Passed \in Int /\ f <= Len(filenames)
  BY Types, PassedFacts DEF FInv, FilesInv
<1>4. \/ given' = [ret |-> "ok", last |-> Passed + 1, broken |-> given.broken]
      \/ given' = [ret |-> "error", last |-> given.last, broken |-> TRUE]
  <2>1. CASE Head(cards) = Good
    <3>1. given' = [ret |-> "ok", last |-> Passed + 1, broken |-> given.broken \/ FALSE]
      BY <1>2, <2>1
    <3> QED
      BY <1>3, <3>1
  <2>2. CASE Head(cards) # Good
    BY <1>2, <2>2
  <2> QED
    BY <2>1, <2>2
<1>5. CardsIn(filenames)[f] \in 0..TotalNumberOfVCards /\ Len(disk[filenames[f]]) \in Nat /\ TotalNumberOfVCards \in Nat
  BY PassedFacts, Types
<1>6. CardsIn(filenames)' = CardsIn(filenames)
  BY DEF CardsIn
<1>7. Passed' = CardsIn(filenames)[f] - Len(Tail(cards))
  BY <1>2, <1>3, <1>6 DEF Passed
<1> DEFINE c == CardsIn(filenames)[f]
<1>8. Passed' = Passed + 1 /\ Passed + 1 <= TotalNumberOfVCards /\ Len(Tail(cards)) <= Len(disk[filenames[f]])
  <2>1. c \in 0..TotalNumberOfVCards /\ Passed = c - Len(cards) /\ Passed' = c - Len(Tail(cards))
    BY <1>5, <1>7
  <2> HIDE DEF c
  <2> QED
    BY <1>1, <1>5, <2>1
<1> QED
  BY <1>1, <1>2, <1>4, <1>8

\* What a call does: the next vCard, an error, or the end.
GetsCard == /\ given.ret # "end" /\ Passed' = Passed + 1
            /\ given' = [ret |-> "ok", last |-> Passed + 1, broken |-> given.broken]
GetsError == /\ given.ret # "end" /\ Passed' >= Passed
             /\ given' = [ret |-> "error", last |-> given.last, broken |-> TRUE]
GetsEnd == /\ currentFile' > Len(filenames) /\ Passed = TotalNumberOfVCards /\ Passed' = Passed
           /\ given' = [ret |-> "end", last |-> given.last, broken |-> given.broken]

\* Where it leaves the source.
InPlace ==
  /\ currentFile' \in 1..Len(filenames) + 1 /\ infile' \in Seq({Good, Bad})
  /\ currentFile' <= Len(filenames) => Len(infile') <= Len(disk[filenames[currentFile']])
  /\ currentFile' > Len(filenames) => infile' = <<>>

LEMMA FileGetItemCases ==
  ASSUME FInv, FileGetItem
  PROVE  /\ Opened /\ UNCHANGED <<disk, there, initVars>>
         /\ Passed' \in 0..TotalNumberOfVCards /\ InPlace
         /\ GetsCard \/ GetsError \/ GetsEnd
<1>3. Opened /\ UNCHANGED <<disk, there, filenames, initVars>>
  BY DEF FileGetItem, ReadOn, NextFile, AtTheEnd, initVars
<1>1. /\ Len(filenames) \in Nat /\ currentFile \in 1..Len(filenames) + 1 /\ infile \in Seq({Good, Bad})
      /\ TotalNumberOfVCards \in Nat /\ given.last \in 0..TotalNumberOfVCards /\ given.broken \in BOOLEAN
  BY <1>3, Types DEF FInv, FilesInv, Opened
<1>2. /\ currentFile <= Len(filenames) => Len(infile) <= Len(disk[filenames[currentFile]])
      /\ currentFile > Len(filenames) => infile = <<>>
      /\ given.ret = "end" => currentFile > Len(filenames)
  BY <1>3 DEF FInv, PlaceInv
<1>4. CardsIn(filenames)' = CardsIn(filenames) /\ TotalNumberOfVCards' = TotalNumberOfVCards
  BY <1>3 DEF CardsIn, TotalNumberOfVCards
<1>5. Passed \in 0..TotalNumberOfVCards
  BY PassedFacts
<1>6. CASE ReadOn
  <2>1. /\ currentFile \in 1..Len(filenames) /\ currentFile <= Len(filenames) /\ ~(currentFile > Len(filenames))
        /\ infile # <<>> /\ ReadCard(currentFile, infile) /\ currentFile' = currentFile
    BY <1>1, <1>6 DEF ReadOn
  <2>2. CardsIn(filenames)[currentFile] - Len(infile) = Passed
    BY <2>1 DEF Passed
  <2>3. /\ infile' \in Seq({Good, Bad}) /\ Len(infile') <= Len(disk[filenames[currentFile]])
        /\ Passed' = Passed + 1 /\ Passed + 1 <= TotalNumberOfVCards
        /\ \/ given' = [ret |-> "ok", last |-> Passed + 1, broken |-> given.broken]
           \/ given' = [ret |-> "error", last |-> given.last, broken |-> TRUE]
    BY <1>1, <1>2, <1>3, <2>1, <2>2, ReadCardFacts
  <2>4. InPlace
    BY <1>1, <2>1, <2>3 DEF InPlace
  <2>5. GetsCard \/ GetsError
    BY <1>2, <1>5, <2>1, <2>3 DEF GetsCard, GetsError
  <2> QED
    BY <1>1, <1>3, <1>5, <2>3, <2>4, <2>5
<1>7. CASE NextFile
  <2>1. currentFile \in 1..Len(filenames) /\ infile = <<>> /\ given.ret # "end"
    BY <1>1, <1>2, <1>7 DEF NextFile
  <2>2. Passed = CardsIn(filenames)[currentFile]
    <3>1. Len(infile) = 0 /\ currentFile <= Len(filenames)
      BY <2>1
    <3>2. Passed = CardsIn(filenames)[currentFile] - 0 /\ CardsIn(filenames)[currentFile] \in 0..TotalNumberOfVCards
      BY <2>1, <3>1, PassedFacts DEF Passed
    <3> QED
      BY <1>1, <3>2
  <2>3. CASE currentFile = Len(filenames)
    <3>1. /\ currentFile' = currentFile + 1 /\ infile' = <<>> /\ FileAnswer("end", 0)
          /\ currentFile' > Len(filenames) /\ ~(currentFile' <= Len(filenames))
      BY <1>1, <1>7, <2>1, <2>3 DEF NextFile
    <3>2. given' = [ret |-> "end", last |-> given.last, broken |-> given.broken]
      BY <1>1, <3>1 DEF FileAnswer
    <3>3. Passed = TotalNumberOfVCards /\ Passed' = TotalNumberOfVCards
      BY <1>3, <1>4, <2>2, <2>3, <3>1 DEF Passed, TotalNumberOfVCards
    <3>4. InPlace
      BY <1>1, <2>1, <2>3, <3>1 DEF InPlace
    <3> QED
      BY <1>3, <1>5, <3>1, <3>2, <3>3, <3>4 DEF GetsEnd
  <2>4. CASE currentFile # Len(filenames) /\ filenames[currentFile + 1] \in there
    <3> DEFINE f == currentFile + 1
               cards == disk[filenames[f]]
    <3>1. f \in 1..Len(filenames) /\ f <= Len(filenames) /\ f - 1 = currentFile /\ ~(f > Len(filenames))
      BY <1>1, <2>1, <2>4
    <3>2. currentFile' = f /\ ReadCard(f, cards)
      BY <1>7, <2>4 DEF NextFile
    <3>3. cards \in Seq({Good, Bad}) /\ cards # <<>> /\ Len(cards) \in Nat
      BY <3>1, Types, PassedFacts
    <3>4. CardsIn(filenames)[f] = CardsIn(filenames)[currentFile] + Len(cards)
      BY <3>1, PassedFacts
    <3> HIDE DEF cards
    <3>5. CardsIn(filenames)[f] - Len(cards) = Passed
      BY <1>5, <2>2, <3>3, <3>4
    <3>6. Len(cards) <= Len(disk[filenames[f]])
      BY <3>3 DEF cards
    <3> HIDE DEF f
    <3>7. /\ infile' \in Seq({Good, Bad}) /\ Len(infile') <= Len(disk[filenames[f]])
          /\ Passed' = Passed + 1 /\ Passed + 1 <= TotalNumberOfVCards
          /\ \/ given' = [ret |-> "ok", last |-> Passed + 1, broken |-> given.broken]
             \/ given' = [ret |-> "error", last |-> given.last, broken |-> TRUE]
      BY <1>3, <3>1, <3>2, <3>3, <3>5, <3>6, ReadCardFacts
    <3>8. InPlace
      BY <1>1, <3>1, <3>2, <3>7 DEF InPlace
    <3>9. GetsCard \/ GetsError
      BY <1>5, <2>1, <3>7 DEF GetsCard, GetsError
    <3> QED
      BY <1>1, <1>3, <1>5, <3>7, <3>8, <3>9
  <2>5. CASE currentFile # Len(filenames) /\ filenames[currentFile + 1] \notin there
    <3> DEFINE n == Len(filenames)
               c == CardsIn(filenames)
               size(f) == Len(disk[filenames[f]])
    <3>1. /\ currentFile' = currentFile + 2 /\ infile' = <<>> /\ FileAnswer("error", 0)
          /\ currentFile + 1 \in 1..n /\ (currentFile + 1) - 1 = currentFile
          /\ currentFile + 2 \in 1..n + 1 /\ (currentFile + 2) - 1 = currentFile + 1
      BY <1>1, <1>7, <2>1, <2>5 DEF NextFile
    <3>2. given' = [ret |-> "error", last |-> given.last, broken |-> TRUE]
      BY <3>1 DEF FileAnswer
    <3>3. \A f \in 1..n : c[f] \in 0..TotalNumberOfVCards /\ size(f) \in Nat \ {0} /\ c[f] = c[f - 1] + size(f)
      BY PassedFacts
    <3>l. Len(infile') = 0
      BY <3>1
    <3> HIDE DEF c, size
    <3>4. c[currentFile + 1] >= c[currentFile] /\ c[currentFile + 1] \in 0..TotalNumberOfVCards
      BY <1>5, <2>2, <3>1, <3>3, SMTT(30) DEF c
    <3>5. Passed' \in 0..TotalNumberOfVCards /\ Passed' >= Passed
      <4>1. CASE currentFile + 2 <= n
        <5>1. currentFile + 2 \in 1..n
          BY <1>1, <3>1, <4>1
        <5>2. Passed' = c[currentFile + 2] - 0
          BY <1>3, <1>4, <3>1, <3>l, <4>1 DEF Passed, c
        <5>3. c[currentFile + 2] = c[currentFile + 1] + size(currentFile + 2)
              /\ size(currentFile + 2) \in Nat /\ c[currentFile + 2] \in 0..TotalNumberOfVCards
          BY <3>1, <3>3, <5>1
        <5> QED
          BY <1>1, <1>5, <2>2, <3>4, <5>2, <5>3 DEF c
      <4>2. CASE ~(currentFile + 2 <= n)
        <5>1. Passed' = TotalNumberOfVCards
          BY <1>3, <1>4, <3>1, <4>2 DEF Passed
        <5> QED
          BY <1>1, <1>5, <5>1
      <4> QED
        BY <4>1, <4>2
    <3>6. InPlace
      <4>1. currentFile + 2 <= n => currentFile + 2 \in 1..n
        BY <1>1, <3>1
      <4>2. currentFile + 2 <= n => size(currentFile + 2) >= 0
        BY <3>3, <4>1
      <4> QED
        BY <1>1, <3>1, <3>l, <4>2 DEF InPlace, size
    <3> QED
      BY <1>3, <2>1, <3>2, <3>5, <3>6 DEF GetsError
  <2> QED
    BY <2>3, <2>4, <2>5
<1>8. CASE AtTheEnd
  <2>1. currentFile > Len(filenames) /\ FileAnswer("end", 0) /\ currentFile' = currentFile /\ infile' = infile
        /\ ~(currentFile <= Len(filenames)) /\ infile = <<>>
    BY <1>1, <1>2, <1>8 DEF AtTheEnd
  <2>2. given' = [ret |-> "end", last |-> given.last, broken |-> given.broken]
    BY <1>1, <2>1 DEF FileAnswer
  <2>3. Passed = TotalNumberOfVCards /\ Passed' = TotalNumberOfVCards
    BY <1>3, <1>4, <2>1 DEF Passed
  <2>4. InPlace
    BY <1>1, <2>1 DEF InPlace
  <2> QED
    BY <1>3, <1>5, <2>1, <2>2, <2>3, <2>4 DEF GetsEnd
<1> QED
  BY <1>6, <1>7, <1>8 DEF FileGetItem

LEMMA FileGetItemKeeps == FInv /\ FileGetItem => FInv'
<1> SUFFICES ASSUME FInv, FileGetItem PROVE FInv'
  OBVIOUS
<1>1. /\ Opened /\ UNCHANGED <<disk, there, counting, filenames, lost>>
      /\ Passed' \in 0..TotalNumberOfVCards /\ InPlace
      /\ GetsCard \/ GetsError \/ GetsEnd
  BY FileGetItemCases DEF initVars
<1>2. TotalNumberOfVCards' = TotalNumberOfVCards
  BY <1>1 DEF CardsIn, TotalNumberOfVCards
<1>3. /\ TotalNumberOfVCards \in Nat /\ Passed \in 0..TotalNumberOfVCards /\ given.broken \in BOOLEAN
      /\ given.last \in 0..TotalNumberOfVCards /\ given.last <= Passed
      /\ (~given.broken /\ ~lost => given.last = Passed)
  BY Types, PassedFacts DEF FInv, FilesInv, PlaceInv
<1>4. /\ given'.last \in 0..TotalNumberOfVCards /\ given'.last <= Passed'
      /\ (~given'.broken /\ ~lost => given'.last = Passed')
      /\ given' \in [ret : {"none", "ok", "error", "end"}, last : 0..TotalNumberOfVCards, broken : BOOLEAN]
      /\ given'.ret = "end" => currentFile' > Len(filenames)
  <2>1. CASE GetsCard
    BY <1>1, <1>3, <2>1 DEF GetsCard
  <2>2. CASE GetsError
    BY <1>1, <1>3, <2>2 DEF GetsError
  <2>3. CASE GetsEnd
    BY <1>1, <1>3, <2>3 DEF GetsEnd
  <2> QED
    BY <1>1, <2>1, <2>2, <2>3
<1>5. FileTypeOK'
  BY <1>1, <1>2, <1>4 DEF FInv, FileTypeOK, InPlace
<1>6. FilesInv'
  BY <1>1, <1>2, <1>4 DEF FInv, FilesInv, Opened
<1>7. PlaceInv'
  BY <1>1, <1>2, <1>4 DEF FInv, PlaceInv, InPlace, Opened
<1> QED
  BY <1>5, <1>6, <1>7 DEF FInv

LEMMA FileStepKeeps == FInv /\ [FileNext]_fileVars => FInv'
<1> SUFFICES ASSUME FInv, FileChanges \/ UNCHANGED fileVars PROVE FInv'
  BY ListFilesKeeps, CountVCardsKeeps, OpenFirstKeeps, FileGetItemKeeps DEF FileNext
<1>1. UNCHANGED <<disk, counting, filenames, lost, currentFile, infile, given>> /\ there' \subseteq 1..Len(disk)
  BY DEF FileChanges, fileVars, initVars, FInv, FileTypeOK
<1>2. TotalNumberOfVCards' = TotalNumberOfVCards /\ Passed' = Passed
  BY <1>1 DEF CardsIn, TotalNumberOfVCards, Passed
<1> QED
  BY <1>1, <1>2 DEF FInv, FileTypeOK, FilesInv, PlaceInv, Opened

-----------------------------------------------------------------------------
(* The steps of the source are steps of the promise.                       *)

LEMMA FileInitPromised == FileInit => FilePromise!Init
  BY DEF FileInit, FilePromise!Init, Opened

LEMMA FileStepPromised ==
  FInv /\ [FileNext]_fileVars => [FilePromise!Next \/ FirstFileLost]_(FilePromise!sourceVars)
<1> SUFFICES ASSUME FInv, [FileNext]_fileVars
             PROVE  FilePromise!Next \/ FirstFileLost \/ UNCHANGED FilePromise!sourceVars
  OBVIOUS
<1>1. CASE ListFiles \/ CountVCards
  <2>1. ~Opened /\ ~Opened' /\ UNCHANGED <<given, lost>>
    BY <1>1 DEF ListFiles, CountVCards, Opened, FInv, FileTypeOK, FilesInv
  <2> QED
    BY <2>1 DEF FilePromise!sourceVars
<1>2. CASE OpenFirst
  <2>1. ~Opened /\ ~lost /\ given.ret = "none" /\ UNCHANGED <<disk, filenames, given>>
    <3>1. disk \in Seq(Seq({Good, Bad})) /\ counting = Len(disk) + 1
      BY <1>2, Types DEF OpenFirst
    <3>2. counting # 0
      BY <3>1
    <3> QED
      BY <1>2, <3>2 DEF OpenFirst, FInv, FilesInv, PlaceInv
  <2>2. TotalNumberOfVCards' \in Nat
    BY <2>1, Types, FoundFacts
  <2>3. CASE filenames = <<>>
    <3>1. ~Opened' /\ UNCHANGED lost
      BY <1>2, <2>1, <2>3 DEF OpenFirst, Opened
    <3> QED
      BY <2>1, <3>1 DEF FilePromise!sourceVars
  <2>4. CASE filenames # <<>> /\ lost'
    BY <2>1, <2>4 DEF FirstFileLost
  <2>5. CASE filenames # <<>> /\ ~lost'
    <3>1. Opened'
      BY <1>2, <2>5 DEF OpenFirst, Opened
    <3>2. FilePromise!Open
      BY <2>1, <2>2, <2>5, <3>1 DEF FilePromise!Open
    <3> QED
      BY <3>2 DEF FilePromise!Next
  <2> QED
    BY <2>3, <2>4, <2>5
<1>3. CASE FileChanges \/ UNCHANGED fileVars
  <2>1. UNCHANGED <<disk, filenames, currentFile, lost, given>>
    BY <1>3 DEF FileChanges, fileVars, initVars
  <2> QED
    BY <2>1 DEF FilePromise!sourceVars, TotalNumberOfVCards, CardsIn, Opened
<1>4. CASE FileGetItem
  <2>1. /\ UNCHANGED <<disk, filenames, lost>> /\ Passed' \in 0..TotalNumberOfVCards
        /\ GetsCard \/ GetsError \/ GetsEnd
    BY <1>4, FileGetItemCases DEF initVars
  <2>2. Opened /\ Opened' /\ TotalNumberOfVCards' = TotalNumberOfVCards
    <3>1. Opened /\ currentFile' \in 1..Len(filenames) + 1
      BY <1>4, FileGetItemCases DEF InPlace
    <3>2. Len(filenames) \in Nat
      BY Types
    <3> QED
      BY <2>1, <3>1, <3>2 DEF TotalNumberOfVCards, CardsIn, Opened
  <2>3. /\ Passed \in 0..TotalNumberOfVCards /\ given.last \in Nat /\ TotalNumberOfVCards \in Nat
        /\ given.last <= Passed /\ (~given.broken /\ ~lost => given.last = Passed)
    BY Types, PassedFacts DEF FInv, PlaceInv
  <2>4. CASE GetsCard
    <3>1. Passed + 1 \in given.last + 1..(IF given.broken \/ lost THEN TotalNumberOfVCards ELSE given.last + 1)
      BY <2>1, <2>3, <2>4 DEF GetsCard
    <3>2. FilePromise!Deliver
      BY <2>1, <2>2, <2>3, <2>4, <3>1 DEF GetsCard, FilePromise!Deliver, FilePromise!Item
    <3> QED
      BY <3>2 DEF FilePromise!Next
  <2>5. CASE GetsError
    <3>1. FilePromise!Fail
      BY <2>1, <2>2, <2>5 DEF GetsError, FilePromise!Fail
    <3> QED
      BY <3>1 DEF FilePromise!Next
  <2>6. CASE GetsEnd
    <3>1. FilePromise!Finish
      BY <2>1, <2>2, <2>3, <2>6 DEF GetsEnd, FilePromise!Finish, FilePromise!NoMore
    <3> QED
      BY <3>1 DEF FilePromise!Next
  <2> QED
    BY <2>1, <2>4, <2>5, <2>6
<1> QED
  BY <1>1, <1>2, <1>3, <1>4 DEF FileNext

(* FileSource keeps the promise of a Source, for any directory, whichever  *)
(* of its files disappear or come back while it is read or counted, but    *)
(* for the one that init() counted first and opens again unchecked: any    *)
(* other vCard that is left out is preceded by an error, and a first file  *)
(* that is lost stays the only loss without one (File.cpp:128, :144, :159, *)
(* :178).                                                                  *)
THEOREM FileImplements == FileSpec => FileKeepsPromise
  BY FileInitEstablishes, FileStepKeeps, FileInitPromised, FileStepPromised, PTL
     DEF FileSpec, FileKeepsPromise

(***************************************************************************)
(* PBAPDownload.                                                           *)
(*                                                                         *)
(* A broken or cancelled PBAP download is never reported as complete, and  *)
(* the contacts come in the order of the ring, none lost on their way to   *)
(* the FIFO, for any phonebook, any FIFO and any sequence of chunk sizes.  *)
(*                                                                         *)
(* The first result, with IInv, rests on the order of the thread's         *)
(* assignments: the status is an error before the FIFO is closed, no chunk *)
(* is requested after an error, and no transfer is left when the FIFO is   *)
(* closed, so that the status getItem() reads then is final.  A transfer   *)
(* whose end nobody reports keeps the thread in its loop, and the FIFO     *)
(* open.                                                                   *)
(*                                                                         *)
(* The others, with RingInv, number the lines of the ring: those that were *)
(* received, the one in vCard, those in the FIFO and those on the wire are *)
(* one interval, which ends where the chunks requested so far end.         *)
(***************************************************************************)
ErrorIsKept ==
  broken => \/ pbapStatus = "Error"
            \/ transfer = "unheard" /\ dpc \in {"watch", "read"}

UnheardIsOpen == dpc = "read" /\ transfer = "unheard" => pbapStatus = "Ok"

RunningIsSound == transfer \in {"active", "suspended"} => dpc = "read" /\ ~broken

ClosedIsFinal ==
  /\ dpc \notin {"watch", "read"} => transfer = "none"
  /\ dpc = "watch" => transfer = "unheard"
  /\ ~active => dpc = "exited"
  /\ gpc = "End" => ~active

IInv == ErrorIsKept /\ UnheardIsOpen /\ RunningIsSound /\ ClosedIsFinal /\ BrokenNeverEnds

USE DEF IInv, ErrorIsKept, UnheardIsOpen, RunningIsSound, ClosedIsFinal, BrokenNeverEnds,
        chunkVars, fifoVars, itemVars

-----------------------------------------------------------------------------
LEMMA InitEstablishes == PBAPInit => IInv
  BY DEF PBAPInit

(* The download thread: an error ends the loop, and only then the FIFO is  *)
(* closed.                                                                 *)
LEMMA ThreadPreserves == IInv /\ DownloadThread => IInv'
<1> SUFFICES ASSUME IInv, DownloadThread PROVE IInv'
  OBVIOUS
<1>1. CASE PullChunk
  BY <1>1 DEF PullChunk, MoreToDownload
<1>2. CASE PullFails
  BY <1>2 DEF PullFails
<1>7. CASE WatchTransfer
  BY <1>7 DEF WatchTransfer
<1>3. CASE PushLine
  BY <1>3 DEF PushLine
<1>4. CASE NextChunk
  BY <1>4 DEF NextChunk
<1>5. CASE LeaveLoop
  BY <1>5 DEF LeaveLoop
<1>6. CASE Close
  BY <1>6 DEF Close
<1> QED
  BY <1>1, <1>2, <1>3, <1>4, <1>5, <1>6, <1>7 DEF DownloadThread

(* getItem(): it reports the status only of a closed FIFO.                 *)
LEMMA GetItemPreserves == IInv /\ (PBAPGetItem \/ Abandon) => IInv'
<1> SUFFICES ASSUME IInv, PBAPGetItem \/ Abandon PROVE IInv'
  OBVIOUS
<1>1. CASE ReadSize
  BY <1>1 DEF ReadSize
<1>2. CASE ReadActive
  BY <1>2 DEF ReadActive
<1>3. CASE Pop
  BY <1>3 DEF Pop
<1>4. CASE Abandon
  BY <1>4 DEF Abandon
<1> QED
  BY <1>1, <1>2, <1>3, <1>4 DEF PBAPGetItem

LEMMA StepPreserves == IInv /\ [PBAPNext]_pbapVars => IInv'
<1> SUFFICES ASSUME IInv, [PBAPNext]_pbapVars PROVE IInv'
  OBVIOUS
<1>1. CASE TransferCompletes
  BY <1>1 DEF TransferCompletes
<1>2. CASE TransferFails
  BY <1>2 DEF TransferFails
<1>3. CASE SuspendOrResume
  BY <1>3 DEF SuspendOrResume
<1>4. CASE InitSource
  BY <1>4 DEF InitSource, Connect, CreateSession, SelectPhonebook, GetPhonebookSize,
              GetSupportedFilters, SetUp
<1>5. CASE UnheardFails
  BY <1>5 DEF UnheardFails
<1>6. CASE UNCHANGED pbapVars
  BY <1>6 DEF pbapVars
<1> QED
  BY <1>1, <1>2, <1>3, <1>4, <1>5, <1>6, ThreadPreserves, GetItemPreserves DEF PBAPNext

(* getItem() never returns eGetItemRetEnd after a download that broke off: *)
(* OneWaySync, which deletes what it did not receive, sees the error.      *)
THEOREM BrokenIsReported == PBAPSpec => []BrokenNeverEnds
<1>1. IInv => BrokenNeverEnds
  OBVIOUS
<1> QED
  BY <1>1, InitEstablishes, StepPreserves, PTL DEF PBAPSpec
-----------------------------------------------------------------------------
(* Where the loop of threadFuncFIFO() is in the ring.                      *)

HIDE DEF IInv, ErrorIsKept, UnheardIsOpen, RunningIsSound, ClosedIsFinal, BrokenNeverEnds

InChunk == dpc \in {"watch", "read"}

UpToTheEnd ==
  /\ chunksEnd = N
  /\ chunkStart \in startOffset..N - 1
  /\ toDownload = N - chunkStart + startOffset

FromTheFront ==
  /\ chunksEnd = startOffset
  /\ chunkStart \in 0..startOffset - 1
  /\ toDownload = startOffset - chunkStart

Done == toDownload = 0 /\ chunksEnd = startOffset /\ chunkStart = 0

ChunkInv ==
  /\ UpToTheEnd \/ FromTheFront \/ Done
  /\ InChunk => ~Done /\ chunkSize <= chunksEnd - chunkStart
  /\ ~batched => startOffset = 0 /\ chunkStart = 0
  /\ ~batched /\ InChunk => chunkSize = N

(* What pbapStatus says of the loop: before the first chunk it is Ok,  *)
(* during a transfer it says how that ended, after the loop it is final.   *)
StatusInv ==
  /\ dpc \in {"connect", "session", "select", "size", "filters"} =>
       pbapStatus = "Ok" /\ gpc = "init" /\ active
  /\ ~InChunk /\ dpc \notin {"close", "exited"} /\ pbapStatus = "Ok" => toDownload = N
  /\ dpc = "read" /\ pbapStatus = "End" => transfer = "over"
  /\ dpc = "close" \/ ~active => pbapStatus # "Ok"
  /\ pbapStatus = "Error" => broken
  /\ dpc \in {"close", "exited"} /\ pbapStatus = "End" => Done
  /\ gpc = "End" => pbapStatus = "End"

(* The lines of the ring, numbered from 1: received, in vCard, in the FIFO *)
(* and on the wire they are one interval of it.                            *)
Position(k) == IF startOffset + k < N THEN startOffset + k ELSE startOffset + k - N

NthLine(j) == Line(Position((j - 1) \div 2), IF j % 2 = 1 THEN "BEGIN" ELSE "END")

LinesPopped    == 2 * Len(received) + IF vCard = None THEN 0 ELSE 1
Requested == 2 * (N - toDownload + IF InChunk THEN chunkSize ELSE 0)

Interval ==
  /\ vCard # None => vCard = Position(Len(received))
  /\ \A k \in 1..Len(fifoBuffer) : fifoBuffer[k] = NthLine(LinesPopped + k)
  /\ \A k \in 1..Len(wire) : wire[k] = NthLine(LinesPopped + Len(fifoBuffer) + k)
  /\ LinesPopped + Len(fifoBuffer) + Len(wire) <= Requested
  /\ ~broken => LinesPopped + Len(fifoBuffer) + Len(wire) = Requested

LinesInv ==
  /\ Len(received) <= N
  /\ \A k \in 1..Len(received) : received[k] = Position(k - 1)
  /\ gpc = "pop" => fifoBuffer # <<>>
  /\ broken \/ ~InChunk \/ transfer = "over" => wire = <<>>
  /\ gpc # "Error" => Interval

RingInv == PBAPTypeOK /\ IInv /\ ChunkInv /\ StatusInv /\ LinesInv

-----------------------------------------------------------------------------
(* Arithmetic of the ring.                                                 *)

LEMMA PositionType ==
  ASSUME startOffset \in 0..N - 1, NEW k \in 0..N - 1
  PROVE  Position(k) \in 0..N - 1
  BY PBAPDownloadAssumption DEF Position

LEMMA PositionIsRing ==
  ASSUME startOffset \in 0..N - 1, NEW k \in 1..N
  PROVE  Ring[k] = Position(k - 1)
<1>1. (startOffset + k - 1) \in 0..2 * N - 1
  BY PBAPDownloadAssumption
<1>2. \A a \in 0..2 * N - 1 : a % N = IF a < N THEN a ELSE a - N
  BY PBAPDownloadAssumption
<1> QED
  BY <1>1, <1>2, PBAPDownloadAssumption DEF Ring, Position

LEMMA TwoLines ==
  ASSUME NEW i \in Nat
  PROVE  /\ NthLine(2 * i + 1) = Line(Position(i), "BEGIN")
         /\ NthLine(2 * i + 2) = Line(Position(i), "END")
<1>1. ((2 * i + 1) - 1) \div 2 = i /\ (2 * i + 1) % 2 = 1
  OBVIOUS
<1>2. ((2 * i + 2) - 1) \div 2 = i /\ (2 * i + 2) % 2 # 1
  OBVIOUS
<1>3. NthLine(2 * i + 1) = Line(Position(((2 * i + 1) - 1) \div 2), IF (2 * i + 1) % 2 = 1 THEN "BEGIN" ELSE "END")
  BY Zenon DEF NthLine
<1>4. NthLine(2 * i + 2) = Line(Position(((2 * i + 2) - 1) \div 2), IF (2 * i + 2) % 2 = 1 THEN "BEGIN" ELSE "END")
  BY Zenon DEF NthLine
<1> QED
  BY <1>1, <1>2, <1>3, <1>4, Zenon

(* A chunk brings the next lines of the ring.                              *)
LEMMA ChunkIsNext ==
  ASSUME PBAPTypeOK, ChunkInv, ~Done, NEW n \in 0..chunksEnd - chunkStart
  PROVE  /\ VCards(chunkStart, n) \in Seq([contact : 0..N - 1, kind : {"BEGIN", "END"}])
         /\ Len(VCards(chunkStart, n)) = 2 * n
         /\ \A k \in 1..2 * n : VCards(chunkStart, n)[k] = NthLine(2 * (N - toDownload) + k)
<1> DEFINE V == VCards(chunkStart, n)
<1>t. /\ N \in Nat \ {0} /\ n \in Nat /\ startOffset \in 0..N - 1
      /\ chunkStart \in 0..N /\ chunksEnd \in 0..N /\ toDownload \in 0..N
  BY PBAPDownloadAssumption DEF PBAPTypeOK
<1>1. ASSUME NEW k \in 1..2 * n
      PROVE  /\ (k - 1) \div 2 \in 0..n - 1
             /\ (2 * (N - toDownload) + k - 1) \div 2 = N - toDownload + (k - 1) \div 2
             /\ (2 * (N - toDownload) + k) % 2 = k % 2
  BY <1>t
<1>2. ASSUME NEW i \in 0..n - 1
      PROVE  chunkStart + i \in 0..N - 1 /\ Position(N - toDownload + i) = chunkStart + i
  BY <1>t DEF ChunkInv, UpToTheEnd, FromTheFront, Position
<1>3. V = [k \in 1..2 * n |-> Line(chunkStart + ((k - 1) \div 2), IF k % 2 = 1 THEN "BEGIN" ELSE "END")]
  BY DEF VCards
<1>4. \A k \in 1..2 * n : V[k] \in [contact : 0..N - 1, kind : {"BEGIN", "END"}]
  BY <1>1, <1>2, <1>3 DEF Line
<1>5. V \in Seq([contact : 0..N - 1, kind : {"BEGIN", "END"}]) /\ Len(V) = 2 * n
  BY <1>3, <1>4, <1>t
<1>6. ASSUME NEW k \in 1..2 * n
      PROVE  V[k] = NthLine(2 * (N - toDownload) + k)
  <2>1. V[k] = Line(chunkStart + ((k - 1) \div 2), IF k % 2 = 1 THEN "BEGIN" ELSE "END")
    BY <1>3
  <2>2. Position((2 * (N - toDownload) + k - 1) \div 2) = chunkStart + ((k - 1) \div 2)
    BY <1>1, <1>2
  <2> QED
    BY <1>t, <1>1, <2>1, <2>2 DEF NthLine
<1> QED
  BY <1>5, <1>6

-----------------------------------------------------------------------------
(* The first state.                                                        *)
LEMMA RingInit == PBAPInit => RingInv
<1> SUFFICES ASSUME PBAPInit PROVE RingInv
  OBVIOUS
<1>1. PBAPTypeOK
  <2>1. startOffset \in 0..N - 1 /\ N \in 0..N /\ Len(<<>>) <= FifoSize + 1
    BY PBAPDownloadAssumption DEF PBAPInit
  <2>2. wire \in Seq([contact : 0..N - 1, kind : {"BEGIN", "END"}]) /\ received \in Seq(0..N - 1)
    BY DEF PBAPInit
  <2>3. chunkStart \in 0..N /\ chunkSize \in 0..N /\ chunksEnd \in 0..N /\ toDownload \in 0..N
    BY <2>1, PBAPDownloadAssumption DEF PBAPInit
  <2> QED
    BY <2>1, <2>2, <2>3 DEF PBAPInit, PBAPTypeOK
<1>2. ChunkInv /\ StatusInv
  BY PBAPDownloadAssumption DEF PBAPInit, ChunkInv, StatusInv, InChunk, UpToTheEnd
<1>3. LinesInv
  BY PBAPDownloadAssumption DEF PBAPInit, LinesInv, Interval, InChunk, LinesPopped, Requested
<1> QED
  BY <1>1, <1>2, <1>3, InitEstablishes DEF RingInv

(* One chunk is requested; its lines follow the lines already there.       *)
LEMMA PullPreserves == RingInv /\ PullChunk => (PBAPTypeOK /\ ChunkInv /\ StatusInv /\ LinesInv)'
<1> SUFFICES ASSUME RingInv, PullChunk PROVE (PBAPTypeOK /\ ChunkInv /\ StatusInv /\ LinesInv)'
  OBVIOUS
<1> USE DEF RingInv, chunkVars, fifoVars, itemVars
<1>1. ~Done /\ ~broken /\ wire = <<>> /\ ~InChunk /\ dpc = "next" /\ toDownload # 0
  BY DEF PullChunk, MoreToDownload, IInv, ErrorIsKept, ClosedIsFinal, LinesInv, Done, InChunk
<1>2. PICK n \in ChunkSizes : chunkSize' = n /\ wire' = VCards(chunkStart, n)
  BY DEF PullChunk
<1>3. n \in 0..chunksEnd - chunkStart /\ (~batched => n = N)
  BY <1>1, <1>2, PBAPDownloadAssumption, SMTT(30)
     DEF ChunkSizes, PBAPTypeOK, ChunkInv, UpToTheEnd, FromTheFront
<1>4. /\ wire' \in Seq([contact : 0..N - 1, kind : {"BEGIN", "END"}])
      /\ Len(wire') = 2 * n
      /\ \A k \in 1..2 * n : wire'[k] = NthLine(2 * (N - toDownload) + k)
  BY <1>1, <1>2, <1>3, ChunkIsNext
<1>5. PBAPTypeOK'
  BY <1>2, <1>3, <1>4, PBAPDownloadAssumption, SMTT(30) DEF PullChunk, PBAPTypeOK
<1>6. ChunkInv'
  BY <1>1, <1>2, <1>3, PBAPDownloadAssumption
     DEF PullChunk, ChunkInv, InChunk, Done, UpToTheEnd, FromTheFront, PBAPTypeOK
<1>7. StatusInv'
  BY <1>1 DEF PullChunk, StatusInv, IInv, ClosedIsFinal
<1>8. LinesInv'
  <2>1. (Interval' /\ InChunk') \/ gpc' = "Error"
    <3> SUFFICES ASSUME gpc # "Error" PROVE Interval' /\ InChunk'
      BY DEF PullChunk
    <3>1. InChunk' /\ Requested' = 2 * (N - toDownload + n)
      BY <1>2 DEF PullChunk, Requested, InChunk
    <3>2. LinesPopped' = LinesPopped /\ fifoBuffer' = fifoBuffer
      BY DEF PullChunk, LinesPopped
    <3>3. \A j : NthLine(j)' = NthLine(j)
      BY DEF PullChunk, NthLine, Position
    <3>4. LinesPopped + Len(fifoBuffer) = 2 * (N - toDownload)
      BY <1>1, PBAPDownloadAssumption DEF LinesInv, Interval, Requested, PBAPTypeOK, LinesPopped, InChunk
    <3>5. vCard' # None => vCard' = Position(Len(received))'
      BY DEF PullChunk, LinesInv, Interval, Position
    <3>6. \A k \in 1..Len(fifoBuffer') : fifoBuffer'[k] = NthLine(LinesPopped + k)'
      BY <3>2, <3>3 DEF LinesInv, Interval
    <3>7. \A k \in 1..Len(wire') : wire'[k] = NthLine(LinesPopped + Len(fifoBuffer) + k)'
      BY <1>4, <3>2, <3>3, <3>4
    <3>8. (LinesPopped + Len(fifoBuffer) + Len(wire) = Requested)'
      BY <1>3, <1>4, <3>1, <3>2, <3>4, PBAPDownloadAssumption, SMTT(30) DEF PBAPTypeOK
    <3>9. (LinesPopped + Len(fifoBuffer) + Len(wire) <= Requested)'
      BY <3>8, <3>1, <1>3, PBAPDownloadAssumption, SMTT(30) DEF PBAPTypeOK
    <3> QED
      BY <3>1, <3>5, <3>6, <3>7, <3>8, <3>9 DEF Interval
  <2> QED
    BY <1>1, <2>1 DEF PullChunk, LinesInv, Position, InChunk
<1> QED
  BY <1>5, <1>6, <1>7, <1>8

(* A line moves from the wire to the FIFO.                                 *)
LEMMA PushPreserves == RingInv /\ PushLine => (PBAPTypeOK /\ ChunkInv /\ StatusInv /\ LinesInv)'
<1> SUFFICES ASSUME RingInv, PushLine PROVE (PBAPTypeOK /\ ChunkInv /\ StatusInv /\ LinesInv)'
  OBVIOUS
<1> USE DEF RingInv, chunkVars, fifoVars, itemVars
<1> DEFINE Lines == [contact : 0..N - 1, kind : {"BEGIN", "END"}]
<1>t. wire \in Seq(Lines) /\ fifoBuffer \in Seq(Lines)
  BY DEF PBAPTypeOK
<1> HIDE DEF Lines
<1>0. /\ wire # <<>> /\ wire' = Tail(wire) /\ fifoBuffer' = Append(fifoBuffer, Head(wire))
      /\ Len(fifoBuffer) <= FifoSize
  BY DEF PushLine
<1>1. Head(wire) \in Lines /\ Head(wire) = wire[1] /\ 1 \in 1..Len(wire)
  BY <1>t, <1>0, TailFacts
<1>2. /\ fifoBuffer' \in Seq(Lines) /\ Len(fifoBuffer') = Len(fifoBuffer) + 1
      /\ \A k \in 1..Len(fifoBuffer) : fifoBuffer'[k] = fifoBuffer[k]
      /\ fifoBuffer'[Len(fifoBuffer) + 1] = wire[1]
  BY <1>t, <1>0, <1>1, AppendFacts
<1>3. /\ wire' \in Seq(Lines) /\ Len(wire) = Len(wire') + 1
      /\ \A k \in 1..Len(wire') : wire'[k] = wire[k + 1] /\ k + 1 \in 1..Len(wire)
  BY <1>t, <1>0, TailFacts
<1>4. PBAPTypeOK'
  BY <1>0, <1>2, <1>3, <1>t, PBAPDownloadAssumption DEF PushLine, PBAPTypeOK, Lines
<1>5. ChunkInv' /\ StatusInv'
  BY DEF PushLine, ChunkInv, StatusInv, InChunk, Done, UpToTheEnd, FromTheFront
<1>6. Interval => Interval'
  <2> SUFFICES ASSUME Interval PROVE Interval'
    OBVIOUS
  <2>1. LinesPopped' = LinesPopped /\ Requested' = Requested /\ LinesPopped \in Nat
    <3>1. Len(received) \in Nat
      BY DEF PBAPTypeOK
    <3> QED
      BY <3>1 DEF PushLine, LinesPopped, Requested, InChunk
  <2>2. \A j : NthLine(j)' = NthLine(j)
    BY DEF PushLine, NthLine, Position
  <2>n. Len(fifoBuffer) \in Nat /\ Len(wire) \in Nat /\ Len(wire') \in Nat
    BY <1>t, <1>3
  <2>3. \A k \in 1..Len(fifoBuffer') : fifoBuffer'[k] = NthLine(LinesPopped + k)
    <3>1. wire[1] = NthLine(LinesPopped + Len(fifoBuffer) + 1)
      BY <1>1 DEF Interval
    <3>2. \A k \in 1..Len(fifoBuffer) : fifoBuffer'[k] = NthLine(LinesPopped + k)
      BY <1>2 DEF Interval
    <3>3. LinesPopped + Len(fifoBuffer) + 1 = LinesPopped + Len(fifoBuffer')
      BY <1>2, <2>1, <2>n
    <3>4. fifoBuffer'[Len(fifoBuffer')] = NthLine(LinesPopped + Len(fifoBuffer'))
      BY <1>2, <3>1, <3>3
    <3>5. \A k \in 1..Len(fifoBuffer') : k \in 1..Len(fifoBuffer) \/ k = Len(fifoBuffer')
      BY <1>2, <2>n
    <3> QED
      BY <3>2, <3>4, <3>5
  <2>4. \A k \in 1..Len(wire') : wire'[k] = NthLine(LinesPopped + Len(fifoBuffer') + k)
    <3> TAKE k \in 1..Len(wire')
    <3>1. wire'[k] = wire[k + 1] /\ k + 1 \in 1..Len(wire)
      BY <1>3
    <3>2. LinesPopped + Len(fifoBuffer) + (k + 1) = LinesPopped + Len(fifoBuffer') + k
      BY <1>2, <2>1, <2>n
    <3> QED
      BY <3>1, <3>2 DEF Interval
  <2>5. LinesPopped + Len(fifoBuffer') + Len(wire') = LinesPopped + Len(fifoBuffer) + Len(wire)
    BY <1>2, <1>3, <2>1, <2>n
  <2>6. (vCard # None => vCard = Position(Len(received)))'
    BY DEF PushLine, Interval, Position
  <2> QED
    BY <2>1, <2>2, <2>3, <2>4, <2>5, <2>6 DEF Interval, PushLine
<1>7. LinesInv'
  <2>1. fifoBuffer' # <<>>
    BY <1>t, <1>2
  <2>2. InChunk' /\ broken' = FALSE /\ transfer' # "over"
    BY <1>0 DEF PushLine, InChunk, LinesInv, PBAPTypeOK
  <2> QED
    BY <1>6, <2>1, <2>2 DEF PushLine, LinesInv, Position
<1> QED
  BY <1>4, <1>5, <1>7

(* The loop goes on; an error is kept for the next check of its condition. *)
LEMMA NextChunkPreserves == RingInv /\ NextChunk => (PBAPTypeOK /\ ChunkInv /\ StatusInv /\ LinesInv)'
<1> SUFFICES ASSUME RingInv, NextChunk PROVE (PBAPTypeOK /\ ChunkInv /\ StatusInv /\ LinesInv)'
  OBVIOUS
<1> USE DEF RingInv, chunkVars, fifoVars, itemVars
<1>t. /\ N \in Nat \ {0} /\ startOffset \in 0..N - 1 /\ chunkStart \in 0..N
      /\ chunkSize \in 0..N /\ chunksEnd \in 0..N /\ toDownload \in 0..N
  BY PBAPDownloadAssumption DEF PBAPTypeOK
<1>1. /\ InChunk /\ ~InChunk' /\ ~Done /\ chunkSize <= chunksEnd - chunkStart
      /\ (UpToTheEnd \/ FromTheFront) /\ dpc = "read" /\ dpc' = "next"
  BY DEF NextChunk, ChunkInv, InChunk
<1>2. /\ toDownload' = toDownload - chunkSize /\ startOffset' = startOffset
      /\ IF chunkStart + chunkSize >= chunksEnd
         THEN chunkStart' = 0 /\ chunksEnd' = startOffset
         ELSE chunkStart' = chunkStart + chunkSize /\ chunksEnd' = chunksEnd
  BY DEF NextChunk
<1>3. UpToTheEnd' \/ FromTheFront' \/ Done'
  BY <1>t, <1>1, <1>2 DEF UpToTheEnd, FromTheFront, Done
<1>4. toDownload' \in 0..N /\ chunkStart' \in 0..N /\ chunksEnd' \in 0..N
  BY <1>t, <1>1, <1>2 DEF UpToTheEnd, FromTheFront
<1>5. PBAPTypeOK'
  BY <1>4 DEF PBAPTypeOK, NextChunk
<1>6. ChunkInv'
  <2>1. ~batched => chunkSize = N /\ startOffset = 0 /\ chunkStart = 0
    BY <1>1 DEF ChunkInv
  <2>2. ~batched => chunkStart' = 0
    BY <2>1, <1>t, <1>2
  <2> QED
    BY <1>1, <1>2, <1>3, <2>1, <2>2 DEF ChunkInv, NextChunk
<1>7. StatusInv'
  BY <1>1 DEF NextChunk, StatusInv, IInv, ClosedIsFinal
<1>8. wire = <<>> /\ wire' = <<>>
  BY <1>1 DEF NextChunk, LinesInv, StatusInv
<1>9. Requested' = Requested
  BY <1>t, <1>1, <1>2 DEF Requested
<1>10. LinesInv'
  BY <1>1, <1>8, <1>9 DEF NextChunk, LinesInv, Interval, LinesPopped, NthLine, Position
<1> QED
  BY <1>5, <1>6, <1>7, <1>10

(* A line moves from the FIFO to vCard, or completes an item.              *)
LEMMA PopPreserves == RingInv /\ Pop => (PBAPTypeOK /\ ChunkInv /\ StatusInv /\ LinesInv)'
<1> SUFFICES ASSUME RingInv, Pop PROVE (PBAPTypeOK /\ ChunkInv /\ StatusInv /\ LinesInv)'
  OBVIOUS
<1> USE DEF RingInv, chunkVars, fifoVars, itemVars
<1> DEFINE Lines == [contact : 0..N - 1, kind : {"BEGIN", "END"}]
           line  == Head(fifoBuffer)
<1>t. /\ N \in Nat \ {0} /\ startOffset \in 0..N - 1 /\ chunkSize \in 0..N /\ toDownload \in 0..N
      /\ vCard \in 0..N - 1 \cup {None} /\ received \in Seq(0..N - 1)
      /\ wire \in Seq(Lines) /\ fifoBuffer \in Seq(Lines) /\ None \notin 0..N - 1
  BY PBAPDownloadAssumption DEF PBAPTypeOK, None
<1> HIDE DEF Lines
<1>1. fifoBuffer # <<>> /\ gpc = "pop" /\ Interval
  BY DEF Pop, LinesInv
<1>2. /\ fifoBuffer' \in Seq(Lines) /\ Len(fifoBuffer) = Len(fifoBuffer') + 1
      /\ \A k \in 1..Len(fifoBuffer') : fifoBuffer'[k] = fifoBuffer[k + 1] /\ k + 1 \in 1..Len(fifoBuffer)
      /\ line = fifoBuffer[1] /\ line \in Lines /\ 1 \in 1..Len(fifoBuffer)
  <2>1. fifoBuffer' = Tail(fifoBuffer)
    BY DEF Pop
  <2> QED
    BY <1>t, <1>1, <2>1, TailFacts
<1>3. LinesPopped \in Nat /\ LinesPopped < 2 * N
  <2>1. Requested <= 2 * N
    BY <1>t DEF Requested, ChunkInv, InChunk, UpToTheEnd, FromTheFront, PBAPTypeOK
  <2>2. Requested \in Int /\ LinesPopped \in Nat
    BY <1>t DEF Requested, LinesPopped
  <2> QED
    BY <1>t, <1>1, <1>2, <2>1, <2>2 DEF Interval
<1>4. line = NthLine(LinesPopped + 1)
  BY <1>1, <1>2, <1>t DEF Interval
<1>5. /\ line.kind = "BEGIN" <=> vCard = None
      /\ line.contact = Position(Len(received))
      /\ Len(received) < N
  <2>n. Len(received) \in Nat
    BY <1>t
  <2>1. CASE vCard = None
    <3>1. LinesPopped + 1 = 2 * Len(received) + 1 /\ Len(received) < N
      BY <1>t, <1>3, <2>1, <2>n DEF LinesPopped
    <3>2. line = Line(Position(Len(received)), "BEGIN")
      BY <1>4, <2>n, <3>1, TwoLines
    <3> QED
      BY <2>1, <3>1, <3>2 DEF Line
  <2>2. CASE vCard # None
    <3>1. LinesPopped + 1 = 2 * Len(received) + 2 /\ Len(received) < N
      BY <1>t, <1>3, <2>2, <2>n DEF LinesPopped
    <3>2. line = Line(Position(Len(received)), "END")
      BY <1>4, <2>n, <3>1, TwoLines
    <3> QED
      BY <2>2, <3>1, <3>2 DEF Line
  <2> QED
    BY <2>1, <2>2
<1> HIDE DEF line
<1>p. /\ gpc' \in {"call", "Error"} /\ broken' = broken /\ wire' = wire
      /\ IF vCard = None
         THEN vCard' = Position(Len(received)) /\ received' = received /\ gpc' = "call"
         ELSE vCard' = None /\ \/ gpc' = "call" /\ received' = Append(received, vCard)
                               \/ gpc' = "Error" /\ received' = received
  BY <1>5 DEF Pop, line
<1>r. Position(Len(received)) \in 0..N - 1 /\ Len(received) \in Nat
  BY <1>t, <1>5, PositionType
<1>a. vCard # None => /\ Append(received, vCard) \in Seq(0..N - 1)
                      /\ Len(Append(received, vCard)) = Len(received) + 1
                      /\ \A k \in 1..Len(received) : Append(received, vCard)[k] = received[k]
                      /\ Append(received, vCard)[Len(received) + 1] = vCard
  BY <1>t, AppendFacts
<1>6. received' \in Seq(0..N - 1) /\ vCard' \in 0..N - 1 \cup {None}
  BY <1>t, <1>p, <1>r, <1>a
<1>7. PBAPTypeOK'
  BY <1>t, <1>2, <1>6, PBAPDownloadAssumption DEF Pop, PBAPTypeOK, Stopped, Lines
<1>8. ChunkInv' /\ StatusInv'
  BY DEF Pop, ChunkInv, StatusInv, InChunk, Done, UpToTheEnd, FromTheFront
<1>9. gpc' # "Error" => LinesPopped' = LinesPopped + 1
  <2>1. CASE vCard = None
    <3>1. vCard' # None /\ received' = received
      BY <1>t, <1>p, <1>r, <2>1
    <3> QED
      BY <1>r, <2>1, <3>1 DEF LinesPopped
  <2>2. CASE vCard # None /\ gpc' # "Error"
    <3>1. vCard' = None /\ Len(received') = Len(received) + 1
      BY <1>p, <1>a, <2>2
    <3> QED
      BY <1>r, <2>2, <3>1 DEF LinesPopped
  <2> QED
    BY <2>1, <2>2
<1>10. Len(received') <= N /\ \A k \in 1..Len(received') : received'[k] = Position(k - 1)
  <2>1. \A k \in 1..Len(received) : received[k] = Position(k - 1)
    BY DEF LinesInv
  <2>2. CASE received' = received
    BY <1>5, <1>r, <2>1, <2>2, <1>t
  <2>3. CASE received' = Append(received, vCard) /\ vCard # None
    <3>1. Len(received') = Len(received) + 1 /\ received'[Len(received) + 1] = Position(Len(received))
      BY <1>a, <1>1, <2>3 DEF Interval
    <3>2. \A k \in 1..Len(received) : received'[k] = Position(k - 1)
      BY <1>a, <2>1, <2>3
    <3>3. \A k \in 1..Len(received') : k \in 1..Len(received) \/ (k = Len(received) + 1 /\ k - 1 = Len(received))
      BY <1>r, <3>1
    <3>4. Len(received') <= N
      BY <1>t, <1>5, <1>r, <3>1
    <3> QED
      BY <3>1, <3>2, <3>3, <3>4
  <2> QED
    BY <1>p, <2>2, <2>3
<1>11. gpc' # "Error" => Interval'
  <2> SUFFICES ASSUME gpc' # "Error" PROVE Interval'
    OBVIOUS
  <2>1. Requested' = Requested
    BY DEF Pop, Requested, InChunk
  <2>2. \A j : NthLine(j)' = NthLine(j)
    BY DEF Pop, NthLine, Position
  <2>3. \A k \in 1..Len(fifoBuffer') : fifoBuffer'[k] = NthLine(LinesPopped' + k)
    <3> TAKE k \in 1..Len(fifoBuffer')
    <3>1. fifoBuffer'[k] = fifoBuffer[k + 1] /\ k + 1 \in 1..Len(fifoBuffer)
      BY <1>t, <1>2
    <3>2. LinesPopped + (k + 1) = LinesPopped' + k
      BY <1>3, <1>9, <1>2
    <3> QED
      BY <1>1, <3>1, <3>2 DEF Interval
  <2>4. \A k \in 1..Len(wire') : wire'[k] = NthLine(LinesPopped' + Len(fifoBuffer') + k)
    <3>1. wire' = wire /\ LinesPopped' + Len(fifoBuffer') = LinesPopped + Len(fifoBuffer)
      BY <1>2, <1>3, <1>9 DEF Pop
    <3> QED
      BY <1>1, <3>1 DEF Interval
  <2>5. wire' = wire /\ LinesPopped' + Len(fifoBuffer') + Len(wire') = LinesPopped + Len(fifoBuffer) + Len(wire)
    BY <1>t, <1>2, <1>3, <1>9 DEF Pop
  <2>6. (vCard # None => vCard = Position(Len(received)))'
    BY <1>p DEF Pop, Position
  <2> QED
    BY <1>1, <2>1, <2>2, <2>3, <2>4, <2>5, <2>6 DEF Interval, Pop
<1>12. LinesInv'
  BY <1>10, <1>11 DEF Pop, LinesInv, Position, InChunk
<1> QED
  BY <1>7, <1>8, <1>12

(* A step that moves no line; it may drop those on the wire.               *)
LEMMA FramePreserves ==
  ASSUME RingInv, UNCHANGED <<batched, startOffset, chunkVars, chunkSize, fifoBuffer, vCard, received>>,
         PBAPTypeOK', InChunk' = InChunk, StatusInv',
         wire' = wire \/ (wire' = <<>> /\ broken'), broken => broken',
         gpc' = "pop" => fifoBuffer # <<>>,
         gpc = "Error" => gpc' = "Error",
         broken' \/ transfer' = "over" => wire' = <<>>
  PROVE  (PBAPTypeOK /\ ChunkInv /\ StatusInv /\ LinesInv)'
<1> USE DEF RingInv, chunkVars
<1>1. ChunkInv'
  BY DEF ChunkInv, Done, UpToTheEnd, FromTheFront
<1>2. gpc' # "Error" => Interval'
  <2> SUFFICES ASSUME gpc' # "Error" PROVE Interval'
    OBVIOUS
  <2>1. Interval /\ LinesPopped' = LinesPopped /\ Requested' = Requested
    BY DEF LinesInv, LinesPopped, Requested
  <2>2. \A j : NthLine(j)' = NthLine(j)
    BY DEF NthLine, Position
  <2>n. LinesPopped \in Nat /\ Len(fifoBuffer) \in Nat /\ Len(wire) \in Nat /\ Len(received) \in Nat /\ Requested \in Int
    <3>1. Len(received) \in Nat /\ Len(fifoBuffer) \in Nat /\ Len(wire) \in Nat
      BY DEF PBAPTypeOK
    <3>2. toDownload \in Nat /\ chunkSize \in Nat
      BY PBAPDownloadAssumption DEF PBAPTypeOK
    <3> QED
      BY <3>1, <3>2, PBAPDownloadAssumption DEF LinesPopped, Requested
  <2>3. CASE wire' = wire
    BY <2>1, <2>2, <2>3 DEF Interval, Position
  <2>4. CASE wire' = <<>> /\ broken'
    <3>1. Len(wire') = 0
      BY <2>4
    <3>2. (LinesPopped + Len(fifoBuffer) + Len(wire) <= Requested)'
      BY <2>1, <2>n, <3>1 DEF Interval
    <3>3. (\A k \in 1..Len(wire) : wire[k] = NthLine(LinesPopped + Len(fifoBuffer) + k))'
      BY <3>1
    <3> QED
      BY <2>1, <2>2, <2>4, <3>2, <3>3 DEF Interval, Position
  <2> QED
    BY <2>3, <2>4
<1>3. ~InChunk' => wire' = <<>>
  BY DEF LinesInv
<1>4. LinesInv'
  BY <1>2, <1>3 DEF LinesInv, Position
<1> QED
  BY <1>1, <1>4

(* init(), the end of the loop, the transfer and the reads of getItem().    *)
LEMMA OthersPreserve ==
  ASSUME RingInv,
         \/ InitSource \/ PullFails \/ WatchTransfer \/ LeaveLoop \/ Close
         \/ TransferCompletes \/ TransferFails \/ UnheardFails \/ SuspendOrResume
         \/ ReadSize \/ ReadActive \/ Abandon \/ UNCHANGED pbapVars
  PROVE  (PBAPTypeOK /\ ChunkInv /\ StatusInv /\ LinesInv)'
<1> USE DEF RingInv, chunkVars, fifoVars, itemVars
<1>0. wire' \in {wire, <<>>}
  BY DEF InitSource, Connect, CreateSession, SelectPhonebook, GetPhonebookSize, GetSupportedFilters, SetUp,
         PullFails, WatchTransfer, LeaveLoop, Close, TransferCompletes, TransferFails, UnheardFails,
         SuspendOrResume, ReadSize, ReadActive, Abandon, pbapVars
<1>1. CASE InitSource
  <2>1. PBAPTypeOK' /\ InChunk' = InChunk
    BY <1>1 DEF InitSource, Connect, CreateSession, SelectPhonebook, GetPhonebookSize,
                GetSupportedFilters, SetUp, PBAPTypeOK, Stopped, InChunk
  <2>2. StatusInv'
    BY <1>1 DEF InitSource, Connect, CreateSession, SelectPhonebook, GetPhonebookSize,
                GetSupportedFilters, SetUp, StatusInv, InChunk, Done
  <2> QED
    BY <1>1, <2>1, <2>2, FramePreserves
       DEF InitSource, Connect, CreateSession, SelectPhonebook, GetPhonebookSize,
           GetSupportedFilters, SetUp, LinesInv, StatusInv
<1>2. CASE PullFails
  <2>1. PBAPTypeOK' /\ InChunk' = InChunk
    BY <1>2 DEF PullFails, PBAPTypeOK, Stopped, InChunk, StatusInv
  <2>2. StatusInv'
    BY <1>2 DEF PullFails, StatusInv, MoreToDownload, IInv, ErrorIsKept, UnheardIsOpen, RunningIsSound, ClosedIsFinal, ChunkInv, UpToTheEnd, FromTheFront, Done, PBAPTypeOK, InChunk
  <2> QED
    BY <1>2, <1>0, <2>1, <2>2, FramePreserves DEF PullFails, LinesInv, InChunk, IInv, RunningIsSound
<1>3. CASE WatchTransfer
  <2>1. PBAPTypeOK' /\ InChunk' = InChunk
    BY <1>3 DEF WatchTransfer, PBAPTypeOK, Stopped, InChunk, StatusInv
  <2>2. StatusInv'
    BY <1>3 DEF WatchTransfer, StatusInv, MoreToDownload, IInv, ErrorIsKept, UnheardIsOpen, RunningIsSound, ClosedIsFinal, ChunkInv, UpToTheEnd, FromTheFront, Done, PBAPTypeOK, InChunk
  <2> QED
    BY <1>3, <1>0, <2>1, <2>2, FramePreserves DEF WatchTransfer, LinesInv, InChunk, IInv, RunningIsSound
<1>4. CASE LeaveLoop
  <2>1. PBAPTypeOK' /\ InChunk' = InChunk
    BY <1>4 DEF LeaveLoop, PBAPTypeOK, Stopped, InChunk, StatusInv
  <2>2. StatusInv'
    BY <1>4 DEF LeaveLoop, StatusInv, MoreToDownload, IInv, ErrorIsKept, UnheardIsOpen, RunningIsSound, ClosedIsFinal, ChunkInv, UpToTheEnd, FromTheFront, Done, PBAPTypeOK, InChunk
  <2> QED
    BY <1>4, <1>0, <2>1, <2>2, FramePreserves DEF LeaveLoop, LinesInv, InChunk, IInv, RunningIsSound
<1>5. CASE Close
  <2>1. PBAPTypeOK' /\ InChunk' = InChunk
    <3>1. dpc' \in {"connect", "session", "select", "size", "filters", "next", "watch", "read", "close", "exited"}
      BY <1>5 DEF Close
    <3>2. InChunk' = InChunk
      BY <1>5 DEF Close, InChunk
    <3> QED
      BY <1>5, <3>1, <3>2 DEF Close, PBAPTypeOK
  <2>2. StatusInv'
    BY <1>5 DEF Close, StatusInv, MoreToDownload, IInv, ErrorIsKept, UnheardIsOpen, RunningIsSound, ClosedIsFinal, ChunkInv, UpToTheEnd, FromTheFront, Done, PBAPTypeOK, InChunk
  <2> QED
    BY <1>5, <1>0, <2>1, <2>2, FramePreserves DEF Close, LinesInv, InChunk, IInv, RunningIsSound
<1>6. CASE TransferCompletes
  <2>1. PBAPTypeOK' /\ InChunk' = InChunk
    BY <1>6 DEF TransferCompletes, PBAPTypeOK, Stopped, InChunk, StatusInv
  <2>2. StatusInv'
    BY <1>6 DEF TransferCompletes, StatusInv, MoreToDownload, IInv, ErrorIsKept, UnheardIsOpen, RunningIsSound, ClosedIsFinal, ChunkInv, UpToTheEnd, FromTheFront, Done, PBAPTypeOK, InChunk
  <2> QED
    BY <1>6, <1>0, <2>1, <2>2, FramePreserves DEF TransferCompletes, LinesInv, InChunk, IInv, RunningIsSound
<1>7. CASE TransferFails
  <2>1. PBAPTypeOK' /\ InChunk' = InChunk
    BY <1>7 DEF TransferFails, PBAPTypeOK, Stopped, InChunk, StatusInv
  <2>2. StatusInv'
    BY <1>7 DEF TransferFails, StatusInv, MoreToDownload, IInv, ErrorIsKept, UnheardIsOpen, RunningIsSound, ClosedIsFinal, ChunkInv, UpToTheEnd, FromTheFront, Done, PBAPTypeOK, InChunk
  <2> QED
    BY <1>7, <1>0, <2>1, <2>2, FramePreserves DEF TransferFails, LinesInv, InChunk, IInv, RunningIsSound
<1>8. CASE UnheardFails
  <2>1. PBAPTypeOK' /\ InChunk' = InChunk
    BY <1>8 DEF UnheardFails, PBAPTypeOK, Stopped, InChunk, StatusInv
  <2>2. StatusInv'
    BY <1>8 DEF UnheardFails, StatusInv, MoreToDownload, IInv, ErrorIsKept, UnheardIsOpen, RunningIsSound, ClosedIsFinal, ChunkInv, UpToTheEnd, FromTheFront, Done, PBAPTypeOK, InChunk
  <2> QED
    BY <1>8, <1>0, <2>1, <2>2, FramePreserves DEF UnheardFails, LinesInv, InChunk, IInv, RunningIsSound
<1>9. CASE SuspendOrResume
  <2>1. PBAPTypeOK' /\ InChunk' = InChunk
    BY <1>9 DEF SuspendOrResume, PBAPTypeOK, Stopped, InChunk, StatusInv
  <2>2. StatusInv'
    BY <1>9 DEF SuspendOrResume, StatusInv, MoreToDownload, IInv, ErrorIsKept, UnheardIsOpen, RunningIsSound, ClosedIsFinal, ChunkInv, UpToTheEnd, FromTheFront, Done, PBAPTypeOK, InChunk
  <2> QED
    BY <1>9, <1>0, <2>1, <2>2, FramePreserves DEF SuspendOrResume, LinesInv, InChunk, IInv, RunningIsSound
<1>10. CASE ReadSize
  <2>1. PBAPTypeOK' /\ InChunk' = InChunk
    BY <1>10 DEF ReadSize, PBAPTypeOK, Stopped, InChunk, StatusInv
  <2>2. StatusInv'
    BY <1>10 DEF ReadSize, StatusInv, MoreToDownload, IInv, ErrorIsKept, UnheardIsOpen, RunningIsSound, ClosedIsFinal, ChunkInv, UpToTheEnd, FromTheFront, Done, PBAPTypeOK, InChunk
  <2> QED
    BY <1>10, <1>0, <2>1, <2>2, FramePreserves DEF ReadSize, LinesInv, InChunk, IInv, RunningIsSound
<1>11. CASE ReadActive
  <2>1. PBAPTypeOK' /\ InChunk' = InChunk
    BY <1>11 DEF ReadActive, PBAPTypeOK, Stopped, InChunk, StatusInv
  <2>2. StatusInv'
    BY <1>11 DEF ReadActive, StatusInv, MoreToDownload, IInv, ErrorIsKept, UnheardIsOpen, RunningIsSound, ClosedIsFinal, ChunkInv, UpToTheEnd, FromTheFront, Done, PBAPTypeOK, InChunk
  <2> QED
    BY <1>11, <1>0, <2>1, <2>2, FramePreserves DEF ReadActive, PBAPTypeOK, LinesInv, InChunk, IInv, RunningIsSound
<1>12. CASE Abandon
  <2>1. PBAPTypeOK' /\ InChunk' = InChunk
    BY <1>12 DEF Abandon, PBAPTypeOK, Stopped, InChunk, StatusInv
  <2>2. StatusInv'
    BY <1>12 DEF Abandon, StatusInv, MoreToDownload, IInv, ErrorIsKept, UnheardIsOpen, RunningIsSound, ClosedIsFinal, ChunkInv, UpToTheEnd, FromTheFront, Done, PBAPTypeOK, InChunk
  <2> QED
    BY <1>12, <1>0, <2>1, <2>2, FramePreserves DEF Abandon, LinesInv, InChunk, IInv, RunningIsSound
<1>13. CASE UNCHANGED pbapVars
  <2>1. PBAPTypeOK' /\ InChunk' = InChunk
    BY <1>13 DEF pbapVars, PBAPTypeOK, Stopped, InChunk, StatusInv
  <2>2. StatusInv'
    BY <1>13 DEF pbapVars, StatusInv, MoreToDownload, IInv, ErrorIsKept, UnheardIsOpen, RunningIsSound, ClosedIsFinal, ChunkInv, UpToTheEnd, FromTheFront, Done, PBAPTypeOK, InChunk
  <2> QED
    BY <1>13, <1>0, <2>1, <2>2, FramePreserves DEF pbapVars, LinesInv, InChunk, IInv, RunningIsSound
<1> QED
  BY <1>1, <1>2, <1>3, <1>4, <1>5, <1>6, <1>7, <1>8, <1>9, <1>10, <1>11, <1>12, <1>13

LEMMA RingPreserved == RingInv /\ [PBAPNext]_pbapVars => RingInv'
<1> SUFFICES ASSUME RingInv, [PBAPNext]_pbapVars PROVE RingInv'
  OBVIOUS
<1>1. IInv'
  BY StepPreserves DEF RingInv
<1>2. (PBAPTypeOK /\ ChunkInv /\ StatusInv /\ LinesInv)'
  BY PullPreserves, PushPreserves, NextChunkPreserves, PopPreserves, OthersPreserve
     DEF PBAPNext, DownloadThread, PBAPGetItem
<1> QED
  BY <1>1, <1>2 DEF RingInv

LEMMA RingHolds == PBAPSpec => []RingInv
  BY RingInit, RingPreserved, PTL DEF PBAPSpec

(* The variables of the sources keep their types: the buffer of the Google *)
(* source holds numbers of contacts, the list of files only files that have*)
(* a vCard, no item that does not exist was returned, and the FIFO grows at*)
(* most one line beyond its size (Google.cpp:94, File.cpp:134, PBAP.cpp:713)*)
THEOREM TypeCorrect == Spec => []TypeOK
<1>1. Init => GInv /\ FInv /\ RingInv
  BY GoogleInitEstablishes, FileInitEstablishes, RingInit DEF Init
<1>2. GInv /\ FInv /\ RingInv /\ [Next]_sourcesVars => GInv' /\ FInv' /\ RingInv'
  <2>1. [Next]_sourcesVars => [GoogleNext]_googleVars /\ [FileNext]_fileVars /\ [PBAPNext]_pbapVars
    BY DEF Next, sourcesVars
  <2> QED
    BY <2>1, GoogleStepKeeps, FileStepKeeps, RingPreserved
<1>3. GInv /\ FInv /\ RingInv => TypeOK
  BY DEF GInv, FInv, RingInv, TypeOK
<1> QED
  BY <1>1, <1>2, <1>3, PTL DEF Spec

(* getItem() returns the contacts in the order of the ring, whatever sizes *)
(* the chunks get and whenever the download breaks off.                    *)
THEOREM ReceivedInRingOrder == PBAPSpec => []InRingOrder
<1>1. ASSUME RingInv PROVE InRingOrder
  <2>1. received \in Seq(0..N - 1) /\ Len(received) <= N /\ startOffset \in 0..N - 1
    BY <1>1 DEF RingInv, PBAPTypeOK, LinesInv
  <2>2. Ring \in Seq(Int) /\ Len(Ring) = N
    BY PBAPDownloadAssumption, <2>1 DEF Ring
  <2>3. \A k \in 1..Len(received) : k \in 1..N /\ received[k] = Ring[k]
    BY <1>1, <2>1, PositionIsRing, PBAPDownloadAssumption DEF RingInv, LinesInv
  <2> HIDE DEF Ring
  <2> DEFINE n == Len(received)
  <2>4. SubSeq(received, 1, n) = [k \in 1..n |-> received[k]]
    BY <2>1
  <2>5. SubSeq(Ring, 1, n) = [k \in 1..n |-> Ring[k]]
    BY <2>1, <2>2, PBAPDownloadAssumption
  <2> QED
    BY <2>1, <2>2, <2>3, <2>4, <2>5 DEF InRingOrder, IsPrefix
<1> QED
  BY <1>1, RingHolds, PTL

(* The last lines of an interval of lines that ends with the ring's last.  *)
LEMMA LastLinesCount ==
  ASSUME RingInv, Interval, LinesPopped + Len(fifoBuffer) = 2 * N
  PROVE  Cardinality(LastLines) = N - Len(received)
<1> DEFINE v == IF vCard = None THEN 0 ELSE 1
           m == N - Len(received)
<1>t. /\ N \in Nat \ {0} /\ Len(received) \in Nat /\ Len(fifoBuffer) \in Nat /\ v \in {0, 1}
      /\ LinesPopped = 2 * Len(received) + v /\ DOMAIN fifoBuffer = 1..Len(fifoBuffer)
  BY PBAPDownloadAssumption DEF RingInv, PBAPTypeOK, LinesPopped
<1> HIDE DEF v
<1>1. Len(fifoBuffer) = 2 * m - v /\ m \in Nat
  BY <1>t
<1>2. \A k \in 1..Len(fifoBuffer) : fifoBuffer[k].kind = "END" <=> (v + k) % 2 = 0
  <2> TAKE k \in 1..Len(fifoBuffer)
  <2>1. fifoBuffer[k] = NthLine(LinesPopped + k) /\ LinesPopped + k \in Int
    BY <1>t DEF Interval
  <2>2. (LinesPopped + k) % 2 = (v + k) % 2 /\ (v + k) % 2 \in {0, 1}
    BY <1>t
  <2> QED
    BY <2>1, <2>2 DEF NthLine, Line
<1>3. LastLines = {k \in 1..Len(fifoBuffer) : (v + k) % 2 = 0}
  BY <1>2, <1>t DEF LastLines
<1> DEFINE f == [i \in 1..m |-> 2 * i - v]
<1>4. f \in Bijection(1..m, LastLines)
  <2>1. \A i \in 1..m : 2 * i - v \in 1..Len(fifoBuffer) /\ (v + (2 * i - v)) % 2 = 0
    BY <1>1, <1>t
  <2>2. \A k \in 1..Len(fifoBuffer) : (v + k) % 2 = 0 => \E i \in 1..m : 2 * i - v = k
    <3> SUFFICES ASSUME NEW k \in 1..Len(fifoBuffer), (v + k) % 2 = 0
                 PROVE  \E i \in 1..m : 2 * i - v = k
      OBVIOUS
    <3>1. (v + k) \div 2 \in 1..m /\ 2 * ((v + k) \div 2) - v = k
      BY <1>1, <1>t
    <3> QED
      BY <3>1
  <2>3. \A i, j \in 1..m : 2 * i - v = 2 * j - v => i = j
    BY <1>1, <1>t
  <2>4. f \in [1..m -> LastLines]
    BY <1>3, <2>1
  <2> QED
    BY <1>3, <2>2, <2>3, <2>4 DEF Bijection, Injection, Surjection, IsInjective
<1>5. Cardinality(1..m) = m /\ IsFiniteSet(1..m)
  BY <1>1, FS_Interval
<1> HIDE DEF f
<1>6. ExistsBijection(1..m, LastLines)
  BY <1>4 DEF ExistsBijection
<1> QED
  BY <1>5, <1>6, FS_Bijection, Zenon

(* When getItem() returns eGetItemRetEnd, every contact of the phonebook   *)
(* was returned or is still in the FIFO: nothing got lost on the way there.*)
THEOREM EndIsComplete == PBAPSpec => []EndAccountsForAll
<1>1. ASSUME RingInv PROVE EndAccountsForAll
  <2> SUFFICES ASSUME gpc = "End" PROVE Len(received) + Cardinality(LastLines) = N
    BY DEF EndAccountsForAll
  <2> USE <1>1 DEF RingInv
  <2>1. ~active /\ dpc = "exited" /\ ~broken /\ pbapStatus = "End"
    BY DEF IInv, ClosedIsFinal, BrokenNeverEnds, StatusInv
  <2>2. Done /\ ~InChunk /\ wire = <<>> /\ Interval
    BY <2>1 DEF StatusInv, LinesInv, InChunk
  <2>3. LinesPopped + Len(fifoBuffer) = 2 * N
    <3>1. Requested = 2 * N
      BY <2>2, PBAPDownloadAssumption DEF Requested, Done
    <3>2. Len(received) \in Nat /\ Len(fifoBuffer) \in Nat /\ Len(wire) = 0
      BY <2>2 DEF PBAPTypeOK
    <3>3. LinesPopped \in Nat
      BY <3>2 DEF LinesPopped
    <3> QED
      BY <2>1, <2>2, <3>1, <3>2, <3>3 DEF Interval
  <2> QED
    BY <2>2, <2>3, LastLinesCount, PBAPDownloadAssumption DEF PBAPTypeOK
<1> QED
  BY <1>1, RingHolds, PTL
=============================================================================
