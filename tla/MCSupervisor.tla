----------------------------- MODULE MCSupervisor -----------------------------
(***************************************************************************)
(* Instances of Supervisor for TLC: the two breakers of the composition    *)
(* root (runtime/main.py:107-118), and beside them one that cancels and    *)
(* one that only rejects.                                                  *)
(***************************************************************************)
EXTENDS Supervisor, TLC

CONSTANT op1

MCBreakers == <<"Drawdown", "Heartbeat">>
MCAllBreakers == MCBreakers \o <<"Notional", "Leverage">>
MCAction == "Drawdown" :> "FLATTEN" @@ "Heartbeat" :> "QUARANTINE"
MCAllActions == MCAction @@ "Notional" :> "CANCEL_ALL" @@ "Leverage" :> "REJECT_NEW"
MCLatching == {"Drawdown"}

OneOperator == {op1}
Acknowledges == {"acknowledge"}
AllCalls == {"acknowledge", "quarantine"}
NoFaults == {}
ReconcileFails == {"reconcile"}
AllFaults == {"cancel", "reconcile", "log"}

=============================================================================
