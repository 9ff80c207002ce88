----------------------------- MODULE ItemSource -----------------------------
(***************************************************************************)
(* What a Source plugin promises to the caller of getItem() (Source.hpp):  *)
(* the items in order, each once; "end" only after the last one, unless an *)
(* error was returned before; after "end" nothing but "end"; and after     *)
(* cancel() nothing but errors.                                            *)
(***************************************************************************)
EXTENDS Naturals

VARIABLES
  count,      \* the items are numbered from 1 to count
  last,       \* the last item that was returned
  result,     \* what the last call returned
  broken,     \* some call has returned an error
  cancelled   \* the source was cancelled or is being deleted

sourceVars == <<count, last, result, broken, cancelled>>

Init == count = 0 /\ last = 0 /\ result = "none" /\ broken = FALSE /\ cancelled = FALSE

\* init() finds what there is to read.
Open ==
  /\ result = "none" /\ count = 0
  /\ count' \in Nat
  /\ UNCHANGED <<last, result, broken, cancelled>>

Item ==
  /\ result # "end"
  /\ last' \in last + 1..(IF broken THEN count ELSE last + 1) /\ last' <= count
  /\ result' = "ok"
  /\ UNCHANGED <<count, broken, cancelled>>

NoMore ==
  /\ broken \/ last = count
  /\ result' = "end"
  /\ UNCHANGED <<count, last, broken, cancelled>>

Deliver == ~cancelled /\ Item
Finish == ~cancelled /\ NoMore

Fail ==
  /\ result # "end" \/ cancelled
  /\ result' = "error" /\ broken' = TRUE
  /\ UNCHANGED <<count, last, cancelled>>

Cancel == cancelled' = TRUE /\ UNCHANGED <<count, last, result, broken>>

Next == Open \/ Deliver \/ Fail \/ Finish \/ Cancel

Spec == Init /\ [][Next]_sourceVars
================================================================================
