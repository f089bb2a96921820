-------------------------- MODULE MCEventConsumer --------------------------
(* Small instances of EventConsumer. *)
EXTENDS EventConsumer, TLC

CONSTANTS w1, w2, e1, p1

MCWorker  == {w1, w2}
MCEventId == {e1, p1}
MCPoison  == {p1}
=============================================================================
