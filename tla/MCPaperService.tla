--------------------------- MODULE MCPaperService ---------------------------
(***************************************************************************)
(* A small PaperService: one key, creates that agree and disagree, *)
(* an upload that overlaps another one, and the three commands.            *)
(***************************************************************************)
EXTENDS PaperService

CONSTANTS K1, Ops

ASpec(quantity) ==
    [direction |-> "LONG", quantity |-> quantity, entry |-> 6, stop |-> 3,
     targets |-> <<[price |-> 9, quantity |-> 1]>>, decision |-> 1,
     sameBar |-> "STOP_FIRST", slippage |-> 0, feePerUnit |-> None]

Flat(time, price) ==
    [time |-> time, open |-> price, high |-> price, low |-> price, close |-> price]

MCCommands ==
    {c \in
      {[op |-> "CREATE", key |-> k, spec |-> ASpec(q), approval |-> 2] :
          k \in Keys, q \in {1, 2}} \cup
      {[op |-> "OBSERVE", key |-> k, bars |-> bars] : k \in Keys,
          bars \in {<<Flat(1, 6)>>, <<Flat(1, 6), Flat(2, 2)>>}} \cup
      {[op |-> op, key |-> k] : op \in {"CLOSE", "BREAKEVEN", "CANCEL", "GET"}, k \in Keys} :
     c.op \in Ops}
=============================================================================
