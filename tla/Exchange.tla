------------------------------ MODULE Exchange ------------------------------
(***************************************************************************)
(* Hyperliquid, as src/engine/src/decision/live_execution.rs uses it, for  *)
(* one account and one PERP: it nets every order into one signed position, *)
(* executes a signed action at most once however often it is sent, and     *)
(* answers orderStatus by client order id.                                 *)
(*                                                                         *)
(* Only a bounded pool of client order ids exists here; an id nothing      *)
(* refers to any more is issued again (the engine draws 128 random bits).  *)
(***************************************************************************)
EXTENDS Integers

CONSTANTS
  MaxOrders,   \* how many client order ids the pool holds
  MaxSize,     \* largest order, in units of the session's position size
  MaxPos,      \* largest position the exchange lets the account hold
  Resting,     \* may an acknowledged order stay live before it settles?
  DupReplies,  \* replies to an action that was already executed
  OutsidePos   \* positions that others than the engine may leave behind

ASSUME ExchangeAssumption ==
  /\ MaxOrders \in Nat \ {0}
  /\ MaxSize \in Nat \ {0}
  /\ MaxPos \in Nat \ {0}
  /\ Resting \in BOOLEAN
  /\ DupReplies \subseteq {"empty", "duplicate"}
  /\ OutsidePos \subseteq -MaxPos..MaxPos

VARIABLES
  terms,   \* terms[c]: the economic terms signed under client order id c
  book,    \* book[c]: what orderStatus reports of c
  pos      \* the account's signed position: > 0 long, < 0 short, 0 none

Cloid == 1..MaxOrders
None  == 0                \* "no client order id"

\* basis: which price the limit was padded from, the cycle's mid price or
\* the position's entry price. Two orders with different bases differ.
Terms == [buy: BOOLEAN, size: 1..MaxSize, reduce: BOOLEAN, basis: {"mid", "entry"}]

OrderStatus == {"unseen", "open", "done"}

Abs(n) == IF n < 0 THEN -n ELSE n

\* The signed quantities the exchange may execute for terms t at position p:
\* an immediate-or-cancel order fills fully, partly or not at all, and a
\* reduce-only order never grows or flips the position.
Fills(t, p) ==
  { q \in -MaxSize..MaxSize :
      /\ IF t.buy THEN q >= 0 ELSE q <= 0
      /\ Abs(q) <= t.size
      /\ Abs(p + q) <= MaxPos
      /\ t.reduce /\ q # 0 => /\ p > 0 <=> q < 0
                              /\ Abs(q) <= Abs(p) }

\* The exchange executes action c now; q is what it filled.
Execute(c, q) ==
  /\ book[c] # "done"
  /\ q \in Fills(terms[c], pos)
  /\ pos' = pos + q
  /\ book' = [book EXCEPT ![c] = "done"]

\* The exchange acknowledges action c and works on it.
Acknowledge(c) ==
  /\ Resting
  /\ book[c] = "unseen"
  /\ book' = [book EXCEPT ![c] = "open"]
  /\ pos' = pos

\* The position changes without the engine: a liquidation or a close by hand
\* leaves 0, a trade by hand anything.
Outside ==
  /\ pos' \in OutsidePos \ {pos}
  /\ UNCHANGED <<terms, book>>

ExchangeTypeOK ==
  /\ terms \in [Cloid -> Terms]
  /\ book \in [Cloid -> OrderStatus]
  /\ pos \in Int
=============================================================================
