---------------------------- MODULE MCDAVStorage ----------------------------
(* Small instances of DAVStorage: servers, item types and calendars.       *)
EXTENDS DAVStorage

Cal(resource, name, types) == [resource |-> resource, name |-> name, types |-> types]
Tasks == Cal("calendar", "tasks", {"VTODO"})
Work == Cal("calendar", "work", {"VEVENT", "VTODO"})
Home == Cal("calendar", "home", {"VEVENT"})
Book == Cal("addressbook", "book", {})

Setup(kind, type, headers, cals, name, given) ==
  [kind |-> kind, headers |-> headers, cals |-> cals, name |-> name, given |-> given,
   type |-> type, moved |-> IF headers THEN 2 ELSE 0, google |-> kind = "card" /\ ~headers, oauth |-> ~headers]

MCSetups ==
  {Setup("card", "VCARD", h, <<Tasks, Book>>, "", FALSE) : h \in BOOLEAN} \cup
  {Setup("cal", "VEVENT", h, <<Book, Tasks, Work, Home>>, "home", FALSE) : h \in BOOLEAN} \cup
  {Setup("cal", "VEVENT", TRUE, <<Tasks>>, "tasks", FALSE), Setup("cal", "VEVENT", TRUE, <<Work>>, "", TRUE),
   Setup("cal", "VTODO", TRUE, <<Home, Work>>, "home", FALSE)}

=============================================================================
