------------------------------ MODULE EDSStorage ------------------------------
(***************************************************************************)
(* The storages of Evolution Data Server: EDSContactsStorage and           *)
(* EDSCalendarStorage with their iterators.  A call is a chain of          *)
(* synchronous D-Bus calls, and other programs change the address book or  *)
(* the calendar between any two of them.                                   *)
(*                                                                         *)
(* An item is a number, its place in the order the contacts' cursor sorts  *)
(* by.  The database is kept with its history: hist[n] maps each item to   *)
(* the number of the write that made its present content.  An event or     *)
(* task i consists of Parts[i] objects with the same UID (a recurring      *)
(* event with exceptions), each with a time stamp of its own.  A revision  *)
(* is the sequence of the stamps; <<>> stands for the empty string.        *)
(***************************************************************************)
EXTENDS Integers, Sequences, SequencesExt, FiniteSets

CONSTANTS
  Items,       \* 1..n
  Parts,       \* objects of each event or task
  FetchContactsSize,  \* contacts an iterator fetches at a time, 1000 in the code
  FetchEventsSize,    \* objects an iterator fetches at a time, 100 in the code
  MaxBatch,    \* items of one call, a bound
  MaxClock     \* versions of the database during a call, a bound

ASSUME EDSAssumption ==
  /\ IsFiniteSet(Items) /\ Items = 1..Cardinality(Items)
  /\ Parts \in [Items -> Nat \ {0}]
  /\ FetchContactsSize \in Nat \ {0} /\ FetchEventsSize \in Nat \ {0} /\ MaxBatch \in Nat

AtEnd == Cardinality(Items) + 1

VARIABLES
  kind,       \* the type of the storage's items
  hist,       \* the database after each write
  connected,  \* init() has made the client
  reader,     \* getItem() has an iterator
  cursor,     \* place of the cursor of newStorageItemIterator() and of
              \*   getItem(): the last item it is behind, or AtEnd
  total,      \* how many items there were when the cursor was made
  cont,       \* contacts fetched and not handed out: a static variable of next()
  file,       \* the part of the calendar file that was not read yet
  events,     \* objects fetched and not handed out
  call        \* the call that is running, or the last one

calendarVars == <<file, events>>
iterVars == <<reader, cursor, total, cont, file, events>>
vars == <<kind, hist, connected, iterVars, call>>

Contacts == kind = "contacts"
Clock == Len(hist)
Now == hist[Clock]
SizeOf(i) == IF Contacts THEN 1 ELSE Parts[i]

NoCall == [op |-> "none", step |-> "idle", ret |-> "ok", batch |-> <<>>, sent |-> <<>>, args |-> <<>>, out |-> <<>>,
           single |-> FALSE, start |-> 1, at |-> 0, fresh |-> TRUE, failed |-> FALSE]
Result(id, rev) == [id |-> id, rev |-> rev]
Begin(op, step) == [NoCall EXCEPT !.op = op, !.step = step, !.start = Clock]
\* Mutant: the step is not ended.
EndOpen(ret) == [call EXCEPT !.step = ret, !.ret = ret]

End(ret) == [call EXCEPT !.step = "done", !.ret = ret]
Idle == call.step = "idle"
Ready == Idle /\ connected

Init ==
  /\ kind \in {"contacts", "event", "task"}
  /\ \E there \in SUBSET Items : hist = <<[i \in there |-> 1]>>
  /\ connected = FALSE /\ reader = FALSE
  /\ cursor = [iterate |-> 0, read |-> 0] /\ total = [iterate |-> 0, read |-> 0]
  /\ cont = <<>> /\ file = <<>> /\ events = <<>>
  /\ call = NoCall

\* The registry or the database cannot be found, or the client cannot
\* connect and the storage is left without one.
Connects ==
  \/ connected' = TRUE /\ call' = [Begin("init", "done") EXCEPT !.ret = "ok"]
  \/ connected' \in {connected, FALSE} /\ call' = [Begin("init", "done") EXCEPT !.ret = "fail"]

InitContacts == Idle /\ Contacts /\ Connects /\ UNCHANGED <<kind, hist, iterVars>>
InitCalendar == Idle /\ ~Contacts /\ Connects /\ UNCHANGED <<kind, hist, iterVars>>

-----------------------------------------------------------------------------
\* A set of numbers in increasing order: the order of the cursor.
Sorted(S) == CHOOSE s \in [1..Cardinality(S) -> S] : \A j, k \in DOMAIN s : j < k => s[j] < s[k]

(* Adding, changing and removing.                                          *)

Written(is) == Append(hist, [i \in DOMAIN Now \cup is |-> IF i \in is THEN Clock + 1 ELSE Now[i]])
Dropped(is) == Append(hist, [i \in DOMAIN Now \ is |-> Now[i]])
Room == Clock < MaxClock

\* Between two calls the history of the database is forgotten, so that MaxClock
\* bounds the writes during one call.
Forgotten(db) == <<[i \in DOMAIN db |-> 1]>>
NewCall ==
  /\ hist' = Forgotten(Now)
  /\ cursor' = [cursor EXCEPT !.iterate = 0] /\ total' = [total EXCEPT !.iterate = 0]
  /\ file' = <<>> /\ events' = <<>>
  /\ cont' = [n \in DOMAIN cont |-> Result(cont[n].id, <<1>>)]
  /\ UNCHANGED <<kind, connected, reader>>

Batches(S) == {s \in UNION {[1..n -> S] : n \in 1..MaxBatch} : IsInjective(s)}

\* The part of a sequence at these places.
At(q, places) == [n \in 1..Cardinality(places) |-> q[Sorted(places)[n]]]

\* A call on items.  With nothing to send it fails before anything is written.
Start(op, is, sent) ==
  \E single \in BOOLEAN :
    /\ Ready
    /\ single => Len(is) = 1
    /\ call' = IF sent = <<>>
               THEN [Begin(op, "done") EXCEPT !.ret = "fail"]
               ELSE [Begin(op, "send") EXCEPT !.batch = is, !.sent = sent, !.args = is, !.single = single]
    /\ UNCHANGED <<kind, hist, connected, iterVars>>

\* addContacts(), modifyContacts() and addContact(), modifyContact(): a vCard
\* that libebook cannot parse stops the batch.
StartContacts(op) ==
  Contacts /\ \E is \in Batches(Items) :
    Start(op, is, is) \/ (op \in {"add", "modify"} /\ Start(op, is, <<>>))

\* toICalComponentsList(): a text without a VEVENT or VTODO is passed over, and
\* an object that libical cannot parse stops the batch.
StartObjects(op) ==
  ~Contacts /\ \E is \in Batches(Items) :
    \E found \in (IF op \in {"add", "modify"} THEN SUBSET DOMAIN is ELSE {DOMAIN is}) :
      Start(op, is, At(is, found))

Sent(op) == call.op = op /\ call.step = "send"
Refused == hist' = hist /\ call' = End("fail")
\* The server has written, and its answer comes too late.
Lost == call' = [End("fail") EXCEPT !.at = Clock + 1, !.failed = TRUE]

\* The server makes all the objects or none.
AddContacts ==
  /\ Sent("add") /\ Contacts
  /\ \/ /\ Room /\ ToSet(call.sent) \cap DOMAIN Now = {}
        /\ hist' = Written(ToSet(call.sent))
        /\ call' = [call EXCEPT !.step = "revision", !.args = call.sent, !.at = Clock + 1] \/ Lost
     \/ Refused
  /\ UNCHANGED <<kind, connected, iterVars>>

\* What create_objects returns: the UID of each object.
NewUids == FlattenSeq([n \in DOMAIN call.sent |-> [k \in 1..Parts[call.sent[n]] |-> call.sent[n]]])

\* Mutant: an id for each object.
EveryUid(uids) == uids

\* "do not duplicate UID": each id once, in the order of the first.
NewIds(uids) == At(uids, {n \in DOMAIN uids : \A k \in 1..n - 1 : uids[k] # uids[n]})

AddObjects ==
  /\ Sent("add") /\ ~Contacts
  /\ \/ /\ Room /\ ToSet(call.sent) \cap DOMAIN Now = {}
        /\ hist' = Written(ToSet(call.sent))
        /\ call' = [call EXCEPT !.step = "revision", !.args = NewIds(NewUids), !.at = Clock + 1] \/ Lost
     \/ Refused
  /\ UNCHANGED <<kind, connected, iterVars>>

\* The revisions are asked of all ids of the caller, also of those whose text
\* was passed over.
Modification ==
  /\ Sent("modify")
  /\ \/ /\ Room /\ ToSet(call.sent) \subseteq DOMAIN Now
        /\ hist' = Written(ToSet(call.sent))
        /\ call' = [call EXCEPT !.step = "revision", !.at = Clock + 1] \/ Lost
     \/ Refused
  /\ UNCHANGED <<kind, connected, iterVars>>
ModifyContacts == Contacts /\ Modification
ModifyObjects == ~Contacts /\ Modification

Removal ==
  /\ Sent("remove")
  /\ \/ /\ Room /\ ToSet(call.sent) \subseteq DOMAIN Now
        /\ hist' = Dropped(ToSet(call.sent))
        /\ call' = [End("ok") EXCEPT !.at = Clock + 1] \/ Lost
     \/ Refused
  /\ UNCHANGED <<kind, connected, iterVars>>
RemoveContacts == Contacts /\ Removal
RemoveObjects == ~Contacts /\ Removal

\* addObject() and modifyObject() take the length of the caller's string,
\* which is empty, for the number of revisions, and fail with the item written.
ObjectOfOne == call.single /\ ~Contacts /\ call.op \in {"add", "modify"}

\* An empty revision: the item is gone by now, or the call failed.
Asked(rev) ==
  /\ call.step = "revision" /\ call.args # <<>>
  /\ \E r \in {<<>>} \cup IF Head(call.args) \in DOMAIN Now THEN {rev} ELSE {} :
       call' = [call EXCEPT !.args = Tail(@), !.out = Append(@, Result(Head(call.args), r))]
  /\ UNCHANGED <<kind, hist, connected, iterVars>>

\* Mutant: the time stamp of the last object only.
StampOfLast(i) == <<Now[i]>>

\* The stamps of all objects of a recurring event, one after the other.
Stamps(i) == [k \in 1..SizeOf(i) |-> Now[i]]

GetContactRevision == Contacts /\ Asked(Stamps(Head(call.args)))
GetObjectRevision == ~Contacts /\ Asked(Stamps(Head(call.args)))

\* getRevisions() has asked for them all.
Answer ==
  /\ call.step = "revision" /\ call.args = <<>>
  /\ call' = End(IF ObjectOfOne THEN "fail" ELSE "ok")
  /\ UNCHANGED <<kind, hist, connected, iterVars>>

-----------------------------------------------------------------------------
(* Reading by id.                                                          *)

\* getContacts(), getEvents(), getTasks(): the first failure ends the call.
Got(rev) ==
  /\ Sent("get")
  /\ \/ /\ Head(call.args) \in DOMAIN Now
        /\ LET r == Result(Head(call.args), rev)
           IN  call' = [call EXCEPT !.args = Tail(@), !.out = Append(@, r),
                                    !.step = IF Len(call.args) = 1 THEN "done" ELSE @]
     \/ call' = End("fail")
  /\ UNCHANGED <<kind, hist, connected, iterVars>>

GetContact == Contacts /\ Got(Stamps(Head(call.args)))
GetEvent == kind = "event" /\ Got(Stamps(Head(call.args)))
\* get_object answers with the master object alone.
GetTask == kind = "task" /\ Got(<<Now[Head(call.args)]>>)

\* getRevisions() of the whole storage, in two D-Bus calls or more.
GetContactsUids ==
  /\ Ready /\ Contacts
  /\ \/ call' = [Begin("revisions", "revision") EXCEPT !.args = Sorted(DOMAIN Now)]
     \/ call' = [Begin("revisions", "done") EXCEPT !.ret = "fail"]
  /\ UNCHANGED <<kind, hist, connected, iterVars>>

\* The calendar file: the objects of an item stand together.
VObjects == FlattenSeq([n \in 1..Cardinality(DOMAIN Now) |->
              LET i == Sorted(DOMAIN Now)[n] IN [k \in 1..Parts[i] |-> [uid |-> i, stamp |-> Now[i]]]])

\* The file is searched for UIDs: one for each object.
ScanCalendarFile ==
  /\ Ready /\ ~Contacts
  /\ \/ call' = [Begin("revisions", "revision") EXCEPT !.args = [n \in DOMAIN VObjects |-> VObjects[n].uid]]
     \/ call' = [Begin("revisions", "done") EXCEPT !.ret = "fail"]
  /\ UNCHANGED <<kind, hist, connected, iterVars>>

-----------------------------------------------------------------------------
(* The iterators.  A pass of newStorageItemIterator() ("iterate") has one   *)
(* of its own; getItem() ("read") keeps its own from call to call.          *)

PassEnds == call' = End("ok")
PassBreaks == call' = [End("ok") EXCEPT !.failed = TRUE]
Passing(step) == call.op \in {"iterate", "read"} /\ call.step = step

\* cursorInit(), and the total it takes; a failing one leaves getItem() with
\* an iterator that has no cursor, and the caller with eGetItemRetEnd.
ContactsCursorInit(op) ==
  /\ Ready /\ Contacts
  /\ ~(op = "read" /\ reader)
  /\ reader' = (reader \/ op = "read")
  /\ \/ /\ cursor' = [cursor EXCEPT ![op] = 0]
        /\ total' = [total EXCEPT ![op] = Cardinality(DOMAIN Now)]
        /\ call' = [Begin(op, "next") EXCEPT !.fresh = cont = <<>>]
     \/ /\ cursor' = [cursor EXCEPT ![op] = AtEnd]
        /\ call' = [Begin(op, "done") EXCEPT !.failed = TRUE, !.ret = IF op = "read" THEN "ok" ELSE "fail"]
        /\ UNCHANGED total
  /\ UNCHANGED <<kind, hist, connected, cont, calendarVars>>

\* getItem() goes on with the iterator it has, also after the end.
ReadOn ==
  /\ Ready /\ Contacts /\ reader
  /\ call' = [Begin("read", "next") EXCEPT !.fresh = FALSE]
  /\ UNCHANGED <<kind, hist, connected, iterVars>>

\* Mutant: the contacts handed out are not taken from the list.
HandOutAgain ==
  /\ Passing("next") /\ Contacts /\ cont # <<>>
  /\ call' = [call EXCEPT !.out = <<Head(cont)>>]
  /\ UNCHANGED <<kind, hist, connected, iterVars>>

\* next() of the contacts' iterator, with contacts in the static list.
NextContact ==
  /\ Passing("next") /\ Contacts /\ cont # <<>>
  /\ call' = [call EXCEPT !.out = Append(@, Head(cont))]
  /\ cont' = Tail(cont)
  /\ UNCHANGED <<kind, hist, connected, reader, cursor, total, calendarVars>>

Position(c) == IF c = AtEnd THEN Cardinality(DOMAIN Now) + 1 ELSE Cardinality({i \in DOMAIN Now : i <= c})
After(c) == Sorted({i \in DOMAIN Now : i > c})

\* fetchContacts(), up to the step that fetches.
FetchContacts ==
  /\ Passing("next") /\ Contacts /\ cont = <<>>
  /\ LET rest == After(cursor[call.op])
         n == IF Len(rest) < FetchContactsSize THEN Len(rest) ELSE FetchContactsSize
     IN  \/ /\ Position(cursor[call.op]) > total[call.op] \/ n = 0
            /\ PassEnds
         \/ /\ Position(cursor[call.op]) <= total[call.op] /\ n > 0
            /\ call' = [call EXCEPT !.step = "move",
                                    !.args = [k \in 1..n |-> Result(rest[k], Stamps(rest[k]))]]
         \/ /\ Position(cursor[call.op]) <= total[call.op]
            /\ PassBreaks
  /\ UNCHANGED <<kind, hist, connected, iterVars>>

\* The step that moves the cursor, a D-Bus call of its own.
MoveCursor ==
  /\ Passing("move")
  /\ LET rest == After(cursor[call.op])
     IN  \/ /\ cursor' = [cursor EXCEPT ![call.op] =
                         IF Len(rest) < FetchContactsSize THEN AtEnd ELSE rest[FetchContactsSize]]
            /\ cont' = call.args
            /\ call' = [call EXCEPT !.step = "next", !.args = <<>>]
         \/ PassBreaks /\ UNCHANGED <<cursor, cont>>
  /\ UNCHANGED <<kind, hist, connected, reader, total, calendarVars>>

\* A caller that was cancelled leaves the loop and the iterator behind, and
\* the static list as it is (OneWaySync::updateIndexDB).
Abandon ==
  /\ Passing("next") /\ call.op = "iterate"
  /\ call' = NoCall
  /\ NewCall

\* newStorageItemIterator(): getItem() makes one for each pass and frees it
\* at the end of the file.
CalendarCursorInit(op) ==
  /\ Ready /\ ~Contacts
  /\ \/ file' = VObjects /\ call' = Begin(op, "next")
     \/ call' = [Begin(op, "done") EXCEPT !.failed = TRUE, !.ret = "fail"] /\ UNCHANGED file
  /\ events' = <<>>
  /\ UNCHANGED <<kind, hist, connected, reader, cursor, total, cont>>

Smaller(a, b) == IF a < b THEN a ELSE b

\* Mutant: the objects of one batch only.
SameUidInBatch(batch, rest) ==
  Cardinality({k \in DOMAIN batch : \A j \in 1..k : batch[j].uid = batch[1].uid})

\* How many objects next() takes: the following ones with the same UID, with
\* fetchEvents() again when the batch is used up.
SameUid(batch, rest) ==
  Cardinality({k \in DOMAIN (batch \o rest) : \A j \in 1..k : (batch \o rest)[j].uid = batch[1].uid})

\* processObject(): the UID of the first object and the stamps of all.
ProcessObject(objects) == Result(objects[1].uid, [k \in DOMAIN objects |-> objects[k].stamp])

\* next() of the calendar's iterator.
NextObject ==
  /\ Passing("next") /\ ~Contacts
  /\ LET first == Smaller(FetchEventsSize, Len(file))
         batch == IF events = <<>> THEN SubSeq(file, 1, first) ELSE events
         rest == IF events = <<>> THEN SubSeq(file, first + 1, Len(file)) ELSE file
         n == SameUid(batch, rest)
         taken == SubSeq(batch \o rest, 1, n)
         more == n - Len(batch)
         read == IF more < 0 THEN 0 ELSE Smaller(Len(rest), FetchEventsSize * (more \div FetchEventsSize + 1))
     IN  IF batch = <<>>
         THEN PassEnds /\ UNCHANGED calendarVars
         ELSE /\ call' = [call EXCEPT !.out = Append(@, ProcessObject(taken))]
              /\ events' = SubSeq(batch \o SubSeq(rest, 1, read), n + 1, Len(batch) + read)
              /\ file' = SubSeq(rest, read + 1, Len(rest))
  /\ UNCHANGED <<kind, hist, connected, reader, cursor, total, cont>>

-----------------------------------------------------------------------------
\* The caller takes what the call returned, and deletes its iterator.
Take ==
  /\ call.step = "done"
  /\ call' = NoCall
  /\ NewCall

\* Another program, during a call or between two.
OtherWrites ==
  /\ call.step # "done" /\ Room
  /\ \E i \in Items, add \in BOOLEAN :
       LET db == IF add THEN Written({i}) ELSE Dropped({i})
       IN  hist' = IF Idle THEN Forgotten(Last(db)) ELSE db
  /\ UNCHANGED <<kind, connected, iterVars, call>>

Begins ==
  \/ InitContacts \/ InitCalendar
  \/ \E op \in {"add", "modify", "remove", "get"} : StartContacts(op) \/ StartObjects(op)
  \/ GetContactsUids \/ ScanCalendarFile
  \/ \E op \in {"iterate", "read"} : ContactsCursorInit(op) \/ CalendarCursorInit(op)
  \/ ReadOn

\* The steps of a call that is running.
Step ==
  \/ AddContacts \/ AddObjects \/ ModifyContacts \/ ModifyObjects \/ RemoveContacts \/ RemoveObjects
  \/ GetContactRevision \/ GetObjectRevision \/ Answer
  \/ GetContact \/ GetEvent \/ GetTask
  \/ NextContact \/ FetchContacts \/ MoveCursor \/ NextObject

Next == Begins \/ Step \/ Abandon \/ Take \/ OtherWrites

Spec == Init /\ [][Next]_vars
\* A synchronous D-Bus call returns, with an error when it times out.
FairSpec == Spec /\ WF_vars(Step)

-----------------------------------------------------------------------------
(* Properties.                                                             *)

\* The state of the storage, the database and the running call is well formed.
TypeOK ==
  /\ kind \in {"contacts", "event", "task"} /\ connected \in BOOLEAN /\ reader \in BOOLEAN
  /\ \A n \in 1..Clock : DOMAIN hist[n] \subseteq Items /\ \A i \in DOMAIN hist[n] : hist[n][i] \in 1..n
  /\ \A op \in {"iterate", "read"} : cursor[op] \in 0..AtEnd /\ total[op] \in 0..Cardinality(Items)
  /\ call.step \in {"idle", "done", "send", "revision", "next", "move"}
  /\ call.ret \in {"ok", "fail"}
  /\ \A n \in DOMAIN cont : cont[n].id \in Items
  /\ \A n \in DOMAIN (events \o file) : (events \o file)[n].uid \in Items

Done(op) == call.step = "done" /\ call.op = op
Succeeded(op) == Done(op) /\ call.ret = "ok"
During == call.start..Clock
\* A revision the item had at some time of the call, or an empty one.
Seen(r, times) == r.rev = <<>> \/ \E n \in times : r.id \in DOMAIN hist[n]
                                     /\ r.rev = [k \in 1..SizeOf(r.id) |-> hist[n][r.id]]

\* Of a batch that was added, every item that was sent is reported, in order and
\* once however many objects it has; of one that was changed, every item.  No
\* revision is older than the write.  A batch that failed has written nothing,
\* unless the answer was lost or it was addObject() or modifyObject() of a
\* calendar (EDSCalendarStorage.cpp:297, :315).
WritesAreReported ==
  /\ Succeeded("add") => [n \in DOMAIN call.out |-> call.out[n].id] = call.sent
  /\ Succeeded("modify") => [n \in DOMAIN call.out |-> call.out[n].id] = call.batch
  /\ Succeeded("add") \/ Succeeded("modify") => \A n \in DOMAIN call.out : Seen(call.out[n], call.at..Clock)
  /\ \A op \in {"add", "modify", "remove"} :
       Done(op) /\ call.ret = "fail" /\ ~call.failed /\ ~ObjectOfOne => call.at = 0

\* getRevisions() reports every item that was there all the time of the call,
\* and of no item a revision it never had (EDSContactsStorage.cpp:400,
\* EDSCalendarStorage.cpp:550).
RevisionsAreSeen ==
  Succeeded("revisions") =>
    /\ \A i \in Items : (\A n \in During : i \in DOMAIN hist[n]) => \E n \in DOMAIN call.out : call.out[n].id = i
    /\ \A n \in DOMAIN call.out : Seen(call.out[n], During)

\* A pass over the storage, by an iterator or by getItem(), that began with an
\* empty static list and met no error, while nobody added or removed an item,
\* gives each item exactly once and with all its objects, however they are
\* spread over the batches (EDSContactsStorageItemIterator.cpp:88,
\* EDSCalendarStorageItemIterator.cpp:81).
PassIsExact ==
  (Succeeded("iterate") \/ Succeeded("read")) /\ call.fresh /\ ~call.failed
    /\ (\A n \in During : DOMAIN hist[n] = DOMAIN Now) =>
    /\ Cardinality(DOMAIN Now) = Len(call.out)
    /\ {call.out[n].id : n \in DOMAIN call.out} = DOMAIN Now
    /\ \A n \in DOMAIN call.out : call.out[n].rev # <<>> /\ Seen(call.out[n], During)

\* Every call and every pass comes to an end (EDSCalendarStorageItemIterator.cpp:82).
CallsReturn == call.step \notin {"idle", "done"} ~> call.step \in {"idle", "done"}

================================================================================
