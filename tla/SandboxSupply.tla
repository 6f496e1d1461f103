---------------------------- MODULE SandboxSupply ----------------------------
(***************************************************************************)
(* What the warm pool promises its users, without tasks, awaits or permits *)
(* (the class docstring of E2BWarmPool, rl/warm_pool.py:51-57): a bounded  *)
(* stock of fresh instances; a claimed instance leaves the stock for good  *)
(* and is destroyed by its episode; once closed, nothing is handed out.    *)
(***************************************************************************)
EXTENDS Naturals, FiniteSets

CONSTANTS Sandboxes, Size

VARIABLES
  open,    \* may instances still be stocked and claimed?
  stock,   \* instances the pool answers for
  used     \* instances handed to a claim and not yet destroyed by it

supplyVars == <<open, stock, used>>

SupplyInit == open = TRUE /\ stock = {} /\ used = {}

\* A fresh instance joins the stock, if there is room for it.
StockUp(s) ==
  /\ s \notin stock \cup used
  /\ Cardinality(stock) < Size
  /\ stock' = stock \cup {s}
  /\ UNCHANGED <<open, used>>

\* A claim takes an instance out of the stock.
HandOut(s) ==
  /\ open /\ s \in stock
  /\ stock' = stock \ {s}
  /\ used' = used \cup {s}
  /\ UNCHANGED open

\* The pool, or the episode that used it, is done with an instance.
Retire(s) ==
  /\ s \in stock \cup used
  /\ stock' = stock \ {s}
  /\ used' = used \ {s}
  /\ UNCHANGED open

Shut == open /\ open' = FALSE /\ UNCHANGED <<stock, used>>

SupplyNext ==
  \/ Shut
  \/ \E s \in Sandboxes : StockUp(s) \/ HandOut(s) \/ Retire(s)

SupplySpec == SupplyInit /\ [][SupplyNext]_supplyVars
=============================================================================
