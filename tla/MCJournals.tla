----------------------------- MODULE MCJournals -----------------------------
(* Instances of Journals for TLC. *)
EXTENDS Journals, TLC

\* The last position listed, alone or behind another: a reconciliation begun
\* later may write its row of it earlier.
MCReports == {<<"BTC">>, <<"ETH", "BTC">>}

=============================================================================
