---------------------------- MODULE MCOneWaySync ----------------------------
(* Instances of OneWaySync for TLC.                                        *)
EXTENDS OneWaySync, TLC

CONSTANTS k1, k2, a, b, p

Contact(k, t, photo) == [key |-> k, text |-> t, photo |-> photo]

\* Two contacts that differ only in their text, and one with another key.
MCContacts == {Contact(k1, a, p), Contact(k1, b, p), Contact(k2, a, p)}

\* Only the two that the index does not tell apart by their key.
MCSameKey == {Contact(k1, a, p), Contact(k1, b, p)}

\* First the text, then everything.
MCPhases == <<{"photo"}, {}>>

\* Everything at once.
MCOnePhase == <<{}>>

\* The ids are opaque, so that it does not matter which ones are taken first.
MCInit == Init /\ \E n \in 0..MaxInitial : DOMAIN storage = 1..n

\* A second run only follows a first one on an empty storage, only with contacts
\* of one key, and with room for three of them.
SameKey(f) == \A s \in DOMAIN f : f[s] \in MCSameKey
Bounded ==
  /\ runs' > runs /\ runs > 0 => begun = <<>> /\ SameKey(src) /\ SameKey(src')
  /\ runs' > 1 => DOMAIN storage' \subseteq 1..3

MCSpec == MCInit /\ [][Next /\ Bounded]_vars

Symmetry == Permutations(Slots)
=============================================================================
