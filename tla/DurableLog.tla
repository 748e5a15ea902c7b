----------------------------- MODULE DurableLog -----------------------------
(***************************************************************************)
(* What a component that awaits a journal may rely on, whatever the        *)
(* database does underneath: a row is written once or not at all, and a    *)
(* row whose write has returned is never lost.                             *)
(***************************************************************************)
EXTENDS Sequences, SequencesExt

CONSTANT Row

VARIABLES
  log,       \* the rows a reader would find
  pending,   \* rows whose write has been called and which may yet be written
  returned   \* rows whose write has returned

vars == <<log, pending, returned>>

Init == log = <<>> /\ pending = {} /\ returned = {}

\* Rows that are pending are written.
Written == Range(log') \ Range(log)

Next ==
  /\ IsPrefix(log, log')
  /\ Written \subseteq pending
  /\ Len(log') = Len(log) + Cardinality(Written)
  /\ pending' \subseteq Row \ Range(log')
  /\ returned \subseteq returned' /\ returned' \subseteq Range(log')

Spec == Init /\ [][Next]_vars

=============================================================================
