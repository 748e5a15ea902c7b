------------------------------ MODULE MCBreakers ------------------------------
(***************************************************************************)
(* Instances of Breakers for TLC: the wiring of the composition root       *)
(* (runtime/main.py:107-118), one that counts errors in two ways, and one  *)
(* in which errors are counted after a breaker that suspends the tick.     *)
(* Of 100, an equity of 95 is just not beyond a threshold of 5 percent.    *)
(***************************************************************************)
EXTENDS Breakers, TLC

RootWiring == <<"Drawdown", "Heartbeat">>
CountingWiring == <<"RateLimit", "ConsecutiveError">>
StaleWiring == <<"Heartbeat", "ConsecutiveError">>

MCWirings == {RootWiring, CountingWiring, StaleWiring}
MCSuspending == {"Drawdown", "Heartbeat", "ConsecutiveError"}
MCEquities == {0, 95, 100}
MCWindow == "Drawdown" :> 2 @@ "RateLimit" :> 2 @@ "ConsecutiveError" :> 1
MCLimit == "RateLimit" :> 2 @@ "ConsecutiveError" :> 2
MCWatched == {"Supervisor"}

=============================================================================
