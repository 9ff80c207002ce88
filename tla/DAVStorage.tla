------------------------------ MODULE DAVStorage ------------------------------
(***************************************************************************)
(* The CardDAV and the CalDAV storage (CardDAVStorage.cpp, CalDAVStorage.cpp*)
(* and the helpers they call) with the server they talk to.  The caller    *)
(* makes one call at a time and a call is a chain of HTTP requests; other  *)
(* clients change the collection between any two of them, and a request or *)
(* its answer may be lost.                                                 *)
(*                                                                         *)
(* The server's collection is kept with its history: hist[n] maps each item*)
(* to the number of the write that made its present content, and the n-th  *)
(* write leads to hist[n].  That number is the item's ETag, and the number *)
(* of the last write is the collection's sync token.  An item is named by  *)
(* its UID, which stands for its URI as well.                              *)
(***************************************************************************)
EXTENDS Integers, DAVHelper, FiniteSets

CONSTANTS
  Items,     \* UIDs
  MaxClock,  \* writes to the collection, a bound
  Setups     \* servers and storage parameters, see TypeOK

Stranger == "stranger"  \* an item of another type than the storage's, or NULL
NoId == ""
Types == {"VEVENT", "VTODO", "VJOURNAL"}  \* of calendars

ASSUME DAVStorageAssumption ==
  /\ IsFiniteSet(Items) /\ {Stranger, "collection"} \cap Items = {}
  /\ MaxClock \in Nat
  /\ \A s \in Setups :
       /\ s.kind \in {"card", "cal"} /\ s.moved \in Nat
       /\ {s.headers, s.given, s.google, s.oauth} \subseteq BOOLEAN
       /\ s.cals \in Seq([resource : {"calendar", "addressbook"}, name : STRING, types : SUBSET Types])
       /\ s.given => s.cals # <<>>

VARIABLES
  setup,        \* the server and the storage's parameters
  hist,         \* the collection after each write
  mine,         \* history: the numbers of the writes of this storage
  calendarUrl,  \* the calendar in use, an index of setup.cals, or 0
  helper,       \* the helper object
  call          \* the call that is running, or the last one

vars == <<setup, hist, mine, calendarUrl, helper, call>>

Card == setup.kind = "card"
Clock == Len(hist)
Now == hist[Clock]

NoHelper == [made |-> FALSE, collection |-> 0, token |-> <<>>, metadata |-> <<>>]
NewHelper == [NoHelper EXCEPT !.made = TRUE]

\* args: the items still to do, batch: all of them.  out: what the call hands
\* back, for each item the id, whose content it is, which write made that
\* content, and the revision.
NoCall == [op |-> "none", step |-> "idle", ret |-> "ok", args |-> <<>>, batch |-> <<>>, given |-> <<>>,
           hops |-> 0, token |-> 0, out |-> <<>>, removed |-> {}, start |-> 1, at |-> 1]

Result(id, of, ver, rev) == [id |-> id, of |-> of, ver |-> ver, rev |-> rev]

Init ==
  /\ setup \in Setups
  /\ \E there \in SUBSET Items : hist = <<[u \in there |-> 1]>>
  /\ mine = {}
  /\ calendarUrl = IF setup.given THEN 1 ELSE 0
  /\ helper = NoHelper
  /\ call = NoCall

-----------------------------------------------------------------------------
(* HTTP.  execute() is true for an answer of any code; the callers look at *)
(* the code.                                                               *)

Reply(code, body) == [ok |-> TRUE, code |-> code, body |-> body, etag |-> <<>>, location |-> NoId]
Broken == [Reply(0, [root |-> "", kids |-> <<>>]) EXCEPT !.ok = FALSE]
Refused == Reply(500, [root |-> "", kids |-> <<>>])
Garbled == Reply(207, [root |-> "", kids |-> <<>>])
Code(n) == Reply(n, [root |-> "", kids |-> <<>>])

Multistatus(responses, token) ==
  Reply(207, [root |-> "multistatus",
              kids |-> responses \o (IF token = 0 THEN <<>>
                                     ELSE <<[Elem("sync-token", <<>>) EXCEPT !.text = <<token>>]>>)])

StatusLine(code) == [Elem("status", <<>>) EXCEPT !.text = <<"HTTP/1.1", code, "reason">>]
Href(u) == [Elem("href", <<>>) EXCEPT !.text = u]
Found(u, props) ==
  Elem("response", <<Href(u), Elem("propstat", <<Elem("prop", props), StatusLine(200)>>)>>)
Missing(u) == Elem("response", <<Href(u), StatusLine(404)>>)
ETag(v) == Elem("getetag", <<TextNode(<<v>>)>>)

\* A request without effect, and what execute() may leave in the message.
Exchanges(answers) == {Broken, Refused, Garbled} \cup answers

\* What all the helper's functions ask of an answer to PROPFIND and REPORT.
Understood(x) == x.ok /\ x.code = 207 /\ IsMultistatus(x.body)

Orders(S) == {s \in [1..Cardinality(S) -> S] : \A i, j \in DOMAIN s : i # j => s[i] # s[j]}

\* Mutant: the status is taken for the step.
ReturnStep(ret) == [call EXCEPT !.step = ret]

Return(ret) == [call EXCEPT !.step = "done", !.ret = ret]
\* Mutant: a batch goes on with the next item.
GoOn == [call EXCEPT !.args = Tail(@), !.step = IF Len(call.args) = 1 THEN "done" ELSE call.op]

\* addObjects() and the others forget what was done before the failure.
Fail == [call EXCEPT !.step = "done", !.ret = "fail", !.out = <<>>]

Begin(op, step) == [NoCall EXCEPT !.op = op, !.step = step, !.start = Clock, !.at = Clock]
Idle == call.step = "idle"
Ready == Idle /\ helper.made /\ helper.collection # 0

-----------------------------------------------------------------------------
(* init().  It comes before the other calls, and again before each run.    *)

\* Mutant: a calendar of any type will do.
FirstAny(infos) == IF infos = <<>> THEN 0 ELSE infos[1].index

\* selectFirstCalendar()
FirstSupporting(infos) ==
  LET fit == Those(infos, {i \in DOMAIN infos : setup.type \in infos[i].types})
  IN  IF fit = <<>> THEN 0 ELSE fit[1].index

\* The first request: a calendar that is known is not searched for.
FirstRequest == IF ~Card /\ calendarUrl # 0 THEN "info" ELSE "principal"

StartInit ==
  /\ Idle
  /\ helper' = IF setup.oauth THEN NoHelper ELSE NewHelper
  /\ call' = [Begin("init", IF setup.oauth THEN "authorize" ELSE FirstRequest) EXCEPT !.hops = setup.moved]
  /\ UNCHANGED <<setup, hist, mine, calendarUrl>>

InitContacts == Card /\ StartInit
InitCalendar == ~Card /\ StartInit

\* The answer is JSON with a token, a token type, both or neither.
Authorize ==
  /\ call.step = "authorize"
  /\ \E ok, token, type \in BOOLEAN :
       IF ok /\ token /\ type
       THEN /\ helper' = NewHelper
            /\ call' = [call EXCEPT !.step = FirstRequest]
       ELSE /\ call' = Return("fail")
            /\ UNCHANGED helper
  /\ UNCHANGED <<setup, hist, mine, calendarUrl>>

\* 301: execute() calls itself with the address the server gave.
FollowRedirect ==
  /\ call.step \in {"principal", "info"}
  /\ call.hops > 0
  /\ call' = [call EXCEPT !.hops = @ - 1]
  /\ UNCHANGED <<setup, hist, mine, calendarUrl, helper>>

\* What the discovery of the principal and of the home set reads: some
\* response must have the property.
HrefAnswers(name) ==
  {Multistatus(<<>>, 0), Multistatus(<<Found("x", <<Elem(name, <<>>)>>)>>, 0),
   Multistatus(<<Missing("x"), Found("x", <<Elem(name, <<Elem("href", <<TextNode(<<"/">>)>>)>>)>>)>>, 0)}
HrefFound(x, name) ==
  Understood(x) /\ \E i \in DOMAIN Responses(x.body) : HasProperty(Responses(x.body)[i], <<name, "href">>)

FindPrincipalUrl ==
  /\ call.step = "principal"
  /\ call.hops = 0
  /\ \E x \in Exchanges(HrefAnswers("current-user-principal")) :
       call' = IF HrefFound(x, "current-user-principal")
               THEN [call EXCEPT !.step = "homeset"] ELSE Return("fail")
  /\ UNCHANGED <<setup, hist, mine, calendarUrl, helper>>

FindAddressbookSet ==
  /\ call.step = "homeset"
  /\ Card
  /\ \E x \in Exchanges(HrefAnswers("addressbook-home-set")) :
       call' = IF HrefFound(x, "addressbook-home-set")
               THEN [call EXCEPT !.step = "collections"] ELSE Return("fail")
  /\ UNCHANGED <<setup, hist, mine, calendarUrl, helper>>

FindCalendarHomeSet ==
  /\ call.step = "homeset"
  /\ ~Card
  /\ \E x \in Exchanges(HrefAnswers("calendar-home-set")) :
       call' = IF HrefFound(x, "calendar-home-set")
               THEN [call EXCEPT !.step = "collections"] ELSE Return("fail")
  /\ UNCHANGED <<setup, hist, mine, calendarUrl, helper>>

\* The home set itself and what it holds, as a PROPFIND of depth 1 lists it.
\* A component type, <comp name="VEVENT"/>, is an element named by its type.
Listing(indices) ==
  <<Found("home", <<Elem("resourcetype", <<Elem("collection", <<>>)>>)>>)>> \o
  [i \in DOMAIN indices |->
     LET c == setup.cals[indices[i]]
     IN  Found(<<indices[i]>>,
               <<Elem("resourcetype", <<Elem("collection", <<>>), Elem(c.resource, <<>>)>>),
                 Elem("displayname", <<TextNode(<<c.name>>)>>),
                 Elem("supported-calendar-component-set", SetToSeq({Elem(t, <<>>) : t \in c.types}))>>)]

AllCals == [i \in DOMAIN setup.cals |-> i]

\* The first address book of the listing.
FindAddressbooks ==
  /\ call.step = "collections"
  /\ Card
  /\ \E x \in Exchanges({Multistatus(Listing(AllCals), 0)}) :
       LET books == IF Understood(x)
                    THEN Having(Responses(x.body), <<"resourcetype", "addressbook">>)
                    ELSE <<>>
       IN  IF books = <<>>
           THEN /\ call' = Return("fail")
                /\ UNCHANGED helper
           ELSE /\ helper' = [helper EXCEPT !.collection = books[1].href[1]]
                /\ call' = Return("ok")
  /\ UNCHANGED <<setup, hist, mine, calendarUrl>>

\* processCalendarsInfo(): the calendars of an answer, with name and types.
CalendarsInfo(x) ==
  LET cals == Having(Responses(x.body), <<"resourcetype", "calendar">>)
  IN  [i \in DOMAIN cals |->
         [index |-> cals[i].href[1],
          name |-> GetProperty(cals[i], <<"displayname">>),
          types |-> {t \in Types :
                       HasProperty(cals[i], <<"supported-calendar-component-set", t>>)}]]

\* The calendar of that name if it supports the type, or the first that does.
Selected(infos) ==
  LET named == Those(infos, {i \in DOMAIN infos : infos[i].name = <<setup.name>> /\ setup.type \in infos[i].types})
  IN  IF setup.name # "" /\ named # <<>> THEN named[1].index ELSE FirstSupporting(infos)

FindCalendars ==
  /\ call.step = "collections"
  /\ ~Card
  /\ \E x \in Exchanges({Multistatus(Listing(AllCals), 0)}) :
       LET infos == IF Understood(x) THEN CalendarsInfo(x) ELSE <<>>
           chosen == Selected(infos)
       IN  /\ calendarUrl' = chosen
           /\ helper' = [helper EXCEPT !.collection = chosen]
           /\ call' = Return(IF chosen = 0 THEN "fail" ELSE "ok")
  /\ UNCHANGED <<setup, hist, mine>>

\* A calendar given by its address, or found by an earlier init().
QueryCalendarInfo ==
  /\ call.step = "info"
  /\ call.hops = 0
  /\ \E x \in Exchanges({Multistatus(Listing(<<calendarUrl>>), 0), Multistatus(Listing(<<>>), 0)}) :
       LET infos == IF Understood(x) THEN CalendarsInfo(x) ELSE <<>>
           ok == infos # <<>> /\ setup.type \in infos[1].types
       IN  /\ helper' = [helper EXCEPT !.collection = IF ok THEN calendarUrl ELSE 0]
           /\ call' = Return(IF ok THEN "ok" ELSE "fail")
  /\ UNCHANGED <<setup, hist, mine, calendarUrl>>

-----------------------------------------------------------------------------
(* Reading.                                                                *)

About(metadata, u) == Those(metadata, {i \in DOMAIN metadata : metadata[i].uri = u})

\* The newest etag the helper's metadata has for an item, <<>> for none.
KnownRevision(u) ==
  LET known == About(helper.metadata, u)
  IN  IF known = <<>> THEN <<>> ELSE known[1].etag

\* PROPFIND of depth 1: the collection and its items in some order.
MetadataAnswers(us) ==
  {Multistatus(<<Found("collection", <<Elem("resourcetype", <<Elem("collection", <<>>)>>)>>)>> \o
               [i \in DOMAIN s |-> Found(s[i], <<ETag(Now[s[i]]), Elem("resourcetype", <<>>)>>)], 0)
     : s \in Orders(us)}

\* The items, as opposed to collections, and their etags.
MetadataOf(x) ==
  LET typed == Having(Responses(x.body), <<"resourcetype">>)
      items == Those(typed, {i \in DOMAIN typed : GetProperty(typed[i], <<"resourcetype">>) = <<>>})
  IN  [i \in DOMAIN items |-> [uri |-> items[i].href, etag |-> GetProperty(items[i], <<"getetag">>)]]

\* getRevisions(): the metadata are forgotten before the server is asked.
Revisions(metadata) ==
  [i \in DOMAIN metadata |-> Result(metadata[i].uri, metadata[i].uri, metadata[i].etag[1], metadata[i].etag)]

QueryMetadata(op) ==
  /\ Ready
  /\ \E x \in Exchanges(MetadataAnswers(DOMAIN Now)) :
       LET metadata == IF Understood(x) THEN MetadataOf(x) ELSE <<>>
       IN  /\ helper' = [helper EXCEPT !.metadata = metadata]
           /\ call' = [Begin(op, "done") EXCEPT
                         !.ret = IF Understood(x) THEN "ok" ELSE "fail", !.out = Revisions(metadata)]
  /\ UNCHANGED <<setup, hist, mine, calendarUrl>>

QueryContactsMetadata == Card /\ QueryMetadata("revisions")
QueryEventsMetadata == ~Card /\ QueryMetadata("revisions")

\* sync-collection: what was written or removed since the token, and for
\* CalDAV the collection itself, which iCloud reports as well.
GoneSince(t) == {u \in Items : u \notin DOMAIN Now /\ \E n \in t..Clock : u \in DOMAIN hist[n]}
ChangedSince(t) == {u \in DOMAIN Now : Now[u] > t}
ChangeAnswers(t) ==
  {Multistatus((IF Card THEN <<>> ELSE <<Found("collection", <<ETag(Clock)>>)>>) \o
               [i \in DOMAIN s |-> IF s[i] \in DOMAIN Now THEN Found(s[i], <<ETag(Now[s[i]])>>)
                                                          ELSE Missing(s[i])], Clock)
     : s \in Orders(GoneSince(t) \cup ChangedSince(t))}

IsItem(r) == Card \/ r.href \in Items   \* CalDAV: the name ends with .ics

\* A response without an etag is one for an item that was removed.
RemovedOf(x) ==
  {r.href : r \in {s \in ToSet(Responses(x.body)) : IsItem(s) /\ ~HasProperty(s, <<"getetag">>)}}

ChangedOf(x) ==
  LET written == Having(Responses(x.body), <<"getetag">>)
      rs == Those(written, {i \in DOMAIN written : IsItem(written[i])})
  IN  [i \in DOMAIN rs |-> [uri |-> rs[i].href, etag |-> GetProperty(rs[i], <<"getetag">>)]]

\* The caller's token is one that the server gave out some time.
QueryChanged(t) ==
  /\ Ready
  /\ \E x \in Exchanges(ChangeAnswers(t)) :
       LET metadata == IF Understood(x) THEN ChangedOf(x) ELSE <<>>
       IN  /\ helper' = [helper EXCEPT !.metadata = metadata,
                           !.token = IF Understood(x) THEN SyncToken(x.body, @) ELSE @]
           /\ call' = [Begin("changed", "done") EXCEPT
                         !.ret = IF Understood(x) THEN "ok" ELSE "fail", !.token = t,
                         !.out = Revisions(metadata),
                         !.removed = IF Understood(x) THEN RemovedOf(x) ELSE {}]
  /\ UNCHANGED <<setup, hist, mine, calendarUrl>>

\* Google's CardDAV server is not asked at all.
QueryChangedContactsMetadata ==
  /\ Card
  /\ \/ ~setup.google /\ \E t \in 1..Clock : QueryChanged(t)
     \/ /\ setup.google /\ Ready
        /\ call' = [Begin("changed", "done") EXCEPT !.ret = "fail"]
        /\ UNCHANGED <<setup, hist, mine, calendarUrl, helper>>
QueryChangedEventsMetadata == ~Card /\ \E t \in 1..Clock : QueryChanged(t)

\* The token of an earlier answer stays if this one has none.
CollectionAnswers == {Multistatus(<<Found("collection", <<Elem("displayname", <<>>)>>)>>, 0),
                      Multistatus(<<Found("collection", <<Elem("sync-token", <<TextNode(<<Clock>>)>>)>>)>>, 0)}
CollectionToken(x) ==
  LET rs == Having(Responses(x.body), <<"sync-token">>)
  IN  IF rs = <<>> THEN helper.token ELSE GetProperty(Last(rs), <<"sync-token">>)

QueryToken ==
  /\ Ready
  /\ \E x \in Exchanges(CollectionAnswers) :
       /\ helper' = [helper EXCEPT !.token = IF Understood(x) THEN CollectionToken(x) ELSE @]
       /\ call' = [Begin("token", "done") EXCEPT !.ret = IF Understood(x) THEN "ok" ELSE "fail"]
  /\ UNCHANGED <<setup, hist, mine, calendarUrl>>

QueryAddressbookMetadata == Card /\ QueryToken
QueryCalendarMetadata == ~Card /\ QueryToken

\* A multiget is answered in any order, without a value for what is gone.
MultigetAnswers(us, data) ==
  {Multistatus([i \in DOMAIN s |->
                  IF s[i] \in DOMAIN Now THEN Found(s[i], <<Elem(data, <<TextNode(<<s[i], Now[s[i]]>>)>>)>>)
                                         ELSE Missing(s[i])], 0)
     : s \in Orders(ToSet(us))}

DataOf(x, data) ==
  LET rs == Having(Responses(x.body), <<data>>)
  IN  [i \in DOMAIN rs |-> [uri |-> rs[i].href, data |-> GetProperty(rs[i], <<data>>)]]

\* downloadVCards(): what was received, in the server's order.
VCards(us, x) == LET ds == DataOf(x, "address-data") IN [i \in DOMAIN ds |-> ds[i].data]

\* Mutant: the answers are taken in the order the server gives them.
ICalsAsReceived(us, x) ==
  LET ds == DataOf(x, "calendar-data")
  IN  [i \in DOMAIN us |-> IF i \in DOMAIN ds THEN ds[i].data ELSE <<>>]

\* downloadEvents(): each answer at the index of its id; the others stay empty.
\* getIndexFromUris() finds every id, since the server is assumed to name the
\* items as it was asked for them: -1 would be taken for an index.
ICals(us, x) ==
  LET ds == DataOf(x, "calendar-data")
  IN  [i \in DOMAIN us |->
         IF \E j \in DOMAIN ds : ds[j].uri = us[i]
         THEN ds[CHOOSE j \in DOMAIN ds : ds[j].uri = us[i]].data ELSE <<>>]

\* getContacts(), getEvents(), getTasks(): the i-th content gets the i-th id
\* and the revision of an earlier query; an empty content cannot be parsed.
WithIds(us, contents) ==
  [i \in DOMAIN contents |-> Result(us[i], contents[i][1], contents[i][2], KnownRevision(us[i]))]

Contents(us, x) == IF Card THEN VCards(us, x) ELSE ICals(us, x)

GetItems(us, data, wanted) ==
  /\ Ready
  /\ \E x \in Exchanges(MultigetAnswers(us, data)) :
       LET got == IF Understood(x) THEN Contents(us, x) ELSE <<>>
           ok == Understood(x) /\ Len(got) >= wanted /\ \A i \in DOMAIN got : got[i] # <<>>
       IN  call' = [Begin("get", "done") EXCEPT !.args = us,
                      !.ret = IF ok THEN "ok" ELSE "fail", !.out = IF ok THEN WithIds(us, got) ELSE <<>>]
  /\ UNCHANGED <<setup, hist, mine, calendarUrl, helper>>

Batches(S) == UNION {{s \in [1..n -> S] : \A i, j \in 1..n : i # j => s[i] # s[j]} : n \in 1..2}

GetContact == Card /\ \E u \in Items : GetItems(<<u>>, "address-data", 1)
GetContacts == Card /\ \E us \in Batches(Items) : GetItems(us, "address-data", 0)

\* CalendarStorage asks for events or tasks by the type of the storage.
GetObjects(type, us) ==
  /\ ~Card /\ setup.type = type
  /\ GetItems(us, "calendar-data", Len(us))

GetEvent  == \E u \in Items : GetObjects("VEVENT", <<u>>)
GetEvents == \E us \in Batches(Items) : GetObjects("VEVENT", us)
GetTask   == \E u \in Items : GetObjects("VTODO", <<u>>)
GetTasks  == \E us \in Batches(Items) : GetObjects("VTODO", us)

-----------------------------------------------------------------------------
(* Writing.  A batch is one request for each item, in order.               *)

Put(u) == Append(hist, [v \in DOMAIN Now \cup {u} |-> IF v = u THEN Clock + 1 ELSE Now[v]])
Drop(u) == Append(hist, [v \in DOMAIN Now \ {u} |-> Now[v]])

\* No more writes than the bound allows.
Room(n) == Clock + n <= MaxClock
Awaited == IF call.step \in {"add", "modify", "remove"} THEN Len(call.args) ELSE 0

\* ContactsStorage and CalendarStorage look at every item before the first
\* is written.
StartBatch(op, args, given) ==
  /\ Ready
  /\ Room(Len(args))
  /\ call' = IF Stranger \in ToSet(args)
             THEN [Begin(op, "done") EXCEPT !.ret = "fail"]
             ELSE [Begin(op, op) EXCEPT !.args = args, !.batch = args, !.given = given]
  /\ UNCHANGED <<setup, hist, mine, calendarUrl, helper>>

StartAdd == \E us \in Batches(Items \cup {Stranger}) : StartBatch("add", us, <<>>)
StartRemove == \E us \in Batches(Items) : StartBatch("remove", us, <<>>)

\* modifyItems() passes no revision on, modifyItem() the caller's.
StartModify ==
  \/ \E us \in Batches(Items \cup {Stranger}) : StartBatch("modify", us, <<>>)
  \/ \E u \in Items, v \in 1..Clock : StartBatch("modify", <<u>>, <<v>>)

\* One item is done; the next one follows.
Next1(r) ==
  LET rest == Tail(call.args)
  IN  [call EXCEPT !.args = rest, !.out = Append(@, r), !.given = <<>>,
                   !.step = IF rest = <<>> THEN "done" ELSE call.op]

\* The server does it, or does not get it.
Done(after) == hist' = after /\ mine' = mine \cup {Clock + 1}
NotDone == UNCHANGED <<hist, mine>>

\* An answer 201 or 204, with or without the headers Location and ETag.
Created(u, v) == IF setup.headers THEN [Reply(201, Broken.body) EXCEPT !.location = u, !.etag = <<v>>]
                                  ELSE Reply(201, Broken.body)
NoContent(v) == IF setup.headers THEN [Reply(204, Broken.body) EXCEPT !.etag = <<v>>]
                                 ELSE Reply(204, Broken.body)
AddedMulti(u, v) == Multistatus(<<Found(u, <<ETag(v)>>)>>, 0)
Conflict(u) == Multistatus(<<Elem("response", <<Href(u), StatusLine(409),
                                               Elem("error", <<Elem("no-uid-conflict", <<>>)>>)>>)>>, 0)

\* A 207 without a response: it names nothing, whether the item was added or not.
Unnamed == IF setup.headers THEN {} ELSE {<<done, Multistatus(<<>>, 0)>> : done \in BOOLEAN}

\* The answers to a POST, and whether it was done.
PostAnswers(u) ==
  IF u \in DOMAIN Now
  THEN {<<FALSE, Conflict(u)>>, <<FALSE, Code(409)>>}
  ELSE {<<TRUE, AddedMulti(u, Clock + 1)>>, <<TRUE, Created(u, Clock + 1)>>, <<TRUE, Broken>>} \cup Unnamed

\* What both add functions make of an answer: the id and the etag, a success
\* without them, or failure.
ReadAdded(x) ==
  IF ~x.ok THEN "fail"
  ELSE IF x.code = 201 THEN "created"
  ELSE IF ~Understood(x) THEN "fail"
  ELSE IF Responses(x.body) = <<>> THEN "unnamed"
  ELSE IF HasProperty(Responses(x.body)[1], <<"getetag">>) THEN "listed"
  ELSE IF HasError(Responses(x.body)[1], <<"no-uid-conflict">>) THEN "conflict" ELSE "fail"
ListedResult(u, x) ==
  LET r == Responses(x.body)[1] IN Result(r.href, u, Clock + 1, GetProperty(r, <<"getetag">>))

AddContact ==
  /\ call.step = "add"
  /\ Card
  /\ LET u == Head(call.args)
     IN  \E p \in PostAnswers(u) \cup {<<FALSE, x>> : x \in Exchanges({})} :
           LET x == p[2] IN
           /\ IF p[1] THEN Done(Put(u)) ELSE NotDone
           /\ call' = CASE ReadAdded(x) = "created" -> Next1(Result(x.location, u, Clock + 1, x.etag))
                        [] ReadAdded(x) = "listed" -> Next1(ListedResult(u, x))
                        [] ReadAdded(x) = "unnamed" -> Next1(Result(NoId, u, Clock + 1, <<>>))
                        [] OTHER -> Fail
  /\ UNCHANGED <<setup, calendarUrl, helper>>

\* A PUT to the UID's address: an item that is there is overwritten.
PutAnswers(u, match) ==
  IF match # <<>> /\ (u \notin DOMAIN Now \/ match # <<Now[u]>>)
  THEN {<<FALSE, Code(412)>>}
  ELSE {<<TRUE, IF u \in DOMAIN Now THEN NoContent(Clock + 1) ELSE Created(u, Clock + 1)>>, <<TRUE, Broken>>}
Unanswered == {<<FALSE, x>> : x \in Exchanges({})}

\* A PUT of a new item may be answered with a multistatus as well.
ListedAnswers(u) ==
  {<<FALSE, Conflict(u)>>} \cup (IF u \in DOMAIN Now THEN {} ELSE {<<TRUE, AddedMulti(u, Clock + 1)>>} \cup Unnamed)

AddEvent ==
  /\ call.step = "add"
  /\ ~Card
  /\ LET u == Head(call.args)
     IN  \E p \in PutAnswers(u, <<>>) \cup ListedAnswers(u) \cup Unanswered :
           LET x == p[2] IN
           /\ IF p[1] THEN Done(Put(u)) ELSE NotDone
           /\ call' = CASE ReadAdded(x) = "created" /\ x.etag # <<>> ->
                             Next1(Result(x.location, u, Clock + 1, x.etag))
                        [] ReadAdded(x) = "listed" -> Next1(ListedResult(u, x))
                        [] ReadAdded(x) = "unnamed" -> Next1(Result(NoId, u, Clock + 1, <<>>))
                        [] ReadAdded(x) = "created" /\ x.etag = <<>> ->
                             [call EXCEPT !.step = "ask", !.at = Clock + 1]
                        [] OTHER -> Fail
  /\ UNCHANGED <<setup, calendarUrl, helper>>

\* The server gave no etag: the item is looked up, and the metadata are put
\* back.  When that fails the item has no id, and the call goes on.
AskForEtag ==
  /\ call.step = "ask"
  /\ LET u == Head(call.args)
     IN  \E x \in Exchanges(IF u \in DOMAIN Now THEN MetadataAnswers({u}) ELSE {Code(404)}) :
           LET found == IF Understood(x) THEN About(MetadataOf(x), u) ELSE <<>>
               id == IF call.op = "modify" THEN u ELSE NoId
           IN  call' = Next1(IF found = <<>> THEN Result(id, u, call.at, <<>>)
                                             ELSE Result(u, u, call.at, found[1].etag))
  /\ UNCHANGED <<setup, hist, mine, calendarUrl, helper>>

\* Mutant: the revision is forgotten before it is sent.
ModifyBlind(u, match) == PutAnswers(u, <<>>)

\* modifyContact() and modifyEvent() up to the answer: with a revision the
\* server is asked to change that version only.
Modification(u, match) == PutAnswers(u, match)

\* Only 204 is a success: an item that was gone is made anew, and the call
\* fails all the same.
ModifyContact ==
  /\ call.step = "modify"
  /\ Card
  /\ LET u == Head(call.args)
     IN  \E p \in Modification(u, call.given) \cup Unanswered :
           LET x == p[2] IN
           /\ IF p[1] THEN Done(Put(u)) ELSE NotDone
           /\ call' = IF x.ok /\ x.code = 204
                      THEN Next1(Result(u, u, Clock + 1, IF x.etag # <<>> THEN x.etag ELSE call.given))
                      ELSE Fail
  /\ UNCHANGED <<setup, calendarUrl, helper>>

ModifyEvent ==
  /\ call.step = "modify"
  /\ ~Card
  /\ LET u == Head(call.args)
     IN  \E p \in Modification(u, call.given) \cup Unanswered :
           LET x == p[2] IN
           /\ IF p[1] THEN Done(Put(u)) ELSE NotDone
           /\ call' = CASE x.ok /\ x.code = 204 /\ x.etag # <<>> -> Next1(Result(u, u, Clock + 1, x.etag))
                        [] x.ok /\ x.code = 204 /\ x.etag = <<>> ->
                             [call EXCEPT !.step = "ask", !.at = Clock + 1]
                        [] OTHER -> Fail
  /\ UNCHANGED <<setup, calendarUrl, helper>>

\* DELETE without a condition; what is gone already is a failure.
DeleteAnswers(u) == IF u \in DOMAIN Now THEN {<<TRUE, Code(204)>>, <<TRUE, Broken>>} ELSE {<<FALSE, Code(404)>>}
Removal ==
  /\ call.step = "remove"
  /\ LET u == Head(call.args)
     IN  \E p \in DeleteAnswers(u) \cup Unanswered :
           /\ IF p[1] THEN Done(Drop(u)) ELSE NotDone
           /\ call' = IF p[2].ok /\ p[2].code = 204 THEN Next1(Result(u, u, Clock + 1, <<>>)) ELSE Fail
  /\ UNCHANGED <<setup, calendarUrl, helper>>

RemoveContact == Card /\ Removal
RemoveEvent == ~Card /\ Removal

\* The caller takes what the call returned.
Take ==
  /\ call.step = "done"
  /\ call' = NoCall
  /\ UNCHANGED <<setup, hist, mine, calendarUrl, helper>>

\* Another client.
OtherWrites ==
  /\ call.step # "done"
  /\ Room(Awaited + 1)
  /\ \E u \in Items : hist' = Put(u) \/ (u \in DOMAIN Now /\ hist' = Drop(u))
  /\ UNCHANGED <<setup, mine, calendarUrl, helper, call>>

Read ==
  \/ QueryContactsMetadata \/ QueryEventsMetadata
  \/ QueryChangedContactsMetadata \/ QueryChangedEventsMetadata
  \/ QueryAddressbookMetadata \/ QueryCalendarMetadata
  \/ GetContact \/ GetContacts \/ GetEvent \/ GetEvents \/ GetTask \/ GetTasks

\* The steps of a call that is running.
Step ==
  \/ Authorize \/ FollowRedirect \/ FindPrincipalUrl
  \/ FindAddressbookSet \/ FindCalendarHomeSet \/ FindAddressbooks \/ FindCalendars
  \/ QueryCalendarInfo
  \/ AddContact \/ AddEvent \/ ModifyContact \/ ModifyEvent \/ AskForEtag
  \/ RemoveContact \/ RemoveEvent

Next == InitContacts \/ InitCalendar \/ Read \/ StartAdd \/ StartModify \/ StartRemove \/ Step \/ Take \/ OtherWrites

Spec == Init /\ [][Next]_vars

-----------------------------------------------------------------------------
(* Properties.                                                             *)

\* The state of the storage, its server and the running call is well formed.
TypeOK ==
  /\ setup \in Setups
  /\ \A n \in 1..Clock : DOMAIN hist[n] \subseteq Items /\ \A u \in DOMAIN hist[n] : hist[n][u] \in 1..n
  /\ mine \subseteq 2..Clock
  /\ calendarUrl \in 0..Len(setup.cals)
  /\ helper.collection \in 0..Len(setup.cals)
  /\ call.ret \in {"ok", "fail"}
  /\ call.step \in {"idle", "done", "authorize", "principal", "homeset", "collections", "info",
                    "add", "ask", "modify", "remove"}

Succeeded(op) == call.step = "done" /\ call.op = op /\ call.ret = "ok"

\* What getRevisions() and getChangedRevisions() report is the collection at
\* the time of the answer: all of it, or exactly what changed since the
\* caller's token, so that a caller who applies the changes has it all
\* (CardDAVHelper.cpp:310, CalDAVHelper.cpp:420).  getEvents() and getTasks()
\* give each id its own content, whatever the order of the server's answer,
\* and no revision newer than that content: a later comparison of revisions
\* never misses a change (CalDAVHelper.cpp:489).
ReadsAreExact ==
  LET told == [u \in {call.out[i].id : i \in DOMAIN call.out} |->
                 call.out[CHOOSE i \in DOMAIN call.out : call.out[i].id = u].ver]
      then == hist[call.token]
  IN  /\ Succeeded("revisions") => told = hist[call.at]
      /\ Succeeded("changed") =>
           [u \in (DOMAIN then \ call.removed) \cup DOMAIN told |->
              IF u \in DOMAIN told THEN told[u] ELSE then[u]] = hist[call.at]
      /\ Succeeded("get") /\ ~Card =>
           \A i \in DOMAIN call.out :
             LET r == call.out[i] IN r.of = r.id /\ (r.rev # <<>> => r.rev[1] <= r.ver)

\* When the server reports ids and etags, a batch that succeeded hands back,
\* in order, for each item its id and the revision of the very write it made;
\* and whatever became of the call, no item after the one it stopped at was
\* touched (CardDAVStorage.cpp:159, CalDAVStorage.cpp:249).
WritesAreReported ==
  /\ Succeeded("add") \/ Succeeded("modify") \/ Succeeded("remove") =>
       [i \in DOMAIN call.out |-> call.out[i].of] = call.batch
  /\ (Succeeded("add") \/ Succeeded("modify")) /\ setup.headers =>
       \A i \in DOMAIN call.out :
         LET r == call.out[i]
         IN  r.id = r.of /\ r.rev = <<r.ver>> /\ r.ver \in mine /\ hist[r.ver][r.id] = r.ver
  /\ call.op \in {"add", "modify", "remove"} /\ call.args # <<>> =>
       \A n \in mine : n > call.start => \A u \in ToSet(Tail(call.args)) :
         \/ u \notin DOMAIN hist[n] /\ u \notin DOMAIN hist[n - 1]
         \/ u \in DOMAIN hist[n] /\ u \in DOMAIN hist[n - 1] /\ hist[n][u] = hist[n - 1][u]

\* A change that names a revision overwrites that version and no other, even
\* if another client was faster (CardDAVHelper.cpp:673, CalDAVHelper.cpp:785).
NoBlindOverwrite ==
  [][call.step = "modify" /\ call.given # <<>> /\ mine' # mine =>
       LET u == Head(call.args) IN u \in DOMAIN Now /\ <<Now[u]>> = call.given]_vars

\* init() ends with a calendar of the storage's item type, and with the one of
\* the given name if there is such a calendar; with an address book for
\* contacts (CalDAVStorage.cpp:121, CardDAVHelper.cpp:150).
InitPicksSupported ==
  Succeeded("init") =>
    LET c == setup.cals[helper.collection] IN
    IF Card THEN c.resource = "addressbook"
    ELSE /\ c.resource = "calendar" /\ setup.type \in c.types
         /\ ~setup.given /\ setup.name # "" /\ c.name # setup.name =>
              \A i \in DOMAIN setup.cals :
                LET d == setup.cals[i]
                IN  ~(d.resource = "calendar" /\ d.name = setup.name /\ setup.type \in d.types)

================================================================================
