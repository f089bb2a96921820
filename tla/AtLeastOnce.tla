---------------------------- MODULE AtLeastOnce ----------------------------
(***************************************************************************)
(* What the event bus promises one consumer group: every event put on the  *)
(* bus stays owed to the group until it is settled, an event is settled    *)
(* only after a handler finished with it, and an event nobody settled can  *)
(* leave the bus only because newer ones pushed it over the stream's cap.  *)
(* Nothing is said about order, nor about how often a handler runs.        *)
(***************************************************************************)
EXTENDS Naturals, Sequences

CONSTANTS
  EventId,  \* the events that may be put on the bus
  MaxLen    \* the number of newest entries the bus never gives up

VARIABLES
  log,      \* every entry ever put on the bus; its position is its name
  handled,  \* the events some handler has finished with
  settled,  \* the entries the group is done with
  expired   \* entries 1..expired have been pushed off the bus

vars == <<log, handled, settled, expired>>

Init ==
  /\ log = <<>>
  /\ handled = {}
  /\ settled = {}
  /\ expired = 0

\* An entry joins the bus, and may push out the entries older than the cap.
Post(e) ==
  /\ log' = Append(log, e)
  /\ expired' >= expired
  /\ expired' = expired \/ expired' + MaxLen <= Len(log')
  /\ UNCHANGED <<handled, settled>>

\* A handler finishes with an event that is on the bus.
Perform(e) ==
  /\ \E i \in DOMAIN log : log[i] = e
  /\ handled' = handled \cup {e}
  /\ UNCHANGED <<log, settled, expired>>

\* The group is done with an entry: only one whose event was handled.
Settle(i) ==
  /\ i \in DOMAIN log
  /\ log[i] \in handled
  /\ settled' = settled \cup {i}
  /\ UNCHANGED <<log, handled, expired>>

Next ==
  \/ \E e \in EventId : Post(e) \/ Perform(e)
  \/ \E i \in DOMAIN log : Settle(i)

Spec == Init /\ [][Next]_vars
=============================================================================
