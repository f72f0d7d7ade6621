------------------------------ MODULE MCRecovery ------------------------------
(* A small engine for Recovery: an order rests, and a taker may fill it;   *)
(* its maker has a balance.  Beyond the maximum of that, a deposit of one  *)
(* is refused, but the credit of a fill, two, panics.                      *)
EXTENDS Recovery

MCEngineStates == [resting: BOOLEAN, balance: 0..2]
MCEmptyEngine == [resting |-> TRUE, balance |-> 0]

MCTrades(e, command) == command = "take" /\ e.resting
MCPanics(e, command) == MCTrades(e, command) /\ e.balance > 0

MCExecute(e, command) ==
  CASE command = "deposit" /\ e.balance < 2 -> [e EXCEPT !.balance = @ + 1]
    [] command = "take" /\ e.resting -> [resting |-> FALSE, balance |-> 2]
    [] command = "cancel" -> [e EXCEPT !.resting = FALSE]
    [] OTHER -> e
=============================================================================
