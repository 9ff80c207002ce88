---------------------------- MODULE MCTwoWaySync ----------------------------
(* Instances of TwoWaySync for TLC.                                        *)
EXTENDS TwoWaySync

\* Two versions of one contact.
MCContacts == {[key |-> 1, text |-> 1], [key |-> 1, text |-> 2]}

\* CardDAV has synchronization tokens, EDS has not.
MCIncremental == {"remote"}
=============================================================================
