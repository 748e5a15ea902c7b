---------------------------- MODULE MCRiskLimits ----------------------------
(***************************************************************************)
(* Two symbols, three positions a venue may report besides none, and two   *)
(* lists of breakers: the defaults of the four, and one in which the       *)
(* breaker that cancels comes after others.                                *)
(***************************************************************************)
EXTENDS RiskLimits

CONSTANTS s1, s2, o1, o2

TwoSymbols == {s1, s2}
TwoOrders == {o1, o2}

Small == [quantity |-> 1, mark |-> 10, leverage |-> 1, liquidation |-> NoLiquidation]
BigShort == [quantity |-> -3, mark |-> 10, leverage |-> 1, liquidation |-> 30]
Leveraged == [quantity |-> 1, mark |-> 10, leverage |-> 5, liquidation |-> 9]

MCReports == {Small, BigShort, Leveraged}

Breaker(kind, limit, action) == [kind |-> kind, limit |-> limit, action |-> action]

MCWirings ==
  { << Breaker("Leverage", 3, "REJECT_NEW"), Breaker("PositionNotional", 20, "REJECT_NEW"),
       Breaker("LiquidationDistance", 20, "FLATTEN"), Breaker("FundingSpike", 1, "REJECT_NEW") >>,
    << Breaker("Leverage", 3, "QUARANTINE"), Breaker("PositionNotional", 20, "CANCEL_ALL") >> }

=============================================================================
