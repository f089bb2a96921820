------------------------- MODULE MCAlarmCorrelator -------------------------
(* Small instances of AlarmCorrelator: two interfaces of one host. *)
EXTENDS AlarmCorrelator, TLC

CONSTANTS h1, h2, c1, k1, k2, host

MCHandler  == {h1, h2}
MCConsumer == {c1}
MCKey      == {k1, k2}
MCHost     == [k \in MCKey |-> host]

\* The instances that need no race between handlers.
MCOneHandler == {h1}
MCOneKey     == {k1}
MCOneHost    == [k \in MCOneKey |-> host]

Symmetry == Permutations(MCHandler) \cup Permutations(MCKey)
=============================================================================
