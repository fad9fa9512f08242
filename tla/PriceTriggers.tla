---------------------------- MODULE PriceTriggers ----------------------------
(*
 * The orders that wait for a price: the take-profit and stop-loss of a
 * position as levels held on chain (GlobalTpSl), and the partial orders and
 * TWAPs the core API stores (StoredOrders).  tpsl/api.py drives both and no
 * state is common to them: a behaviour is of one, chosen at the start, and the
 * other stands where it began.
 *)
EXTENDS GlobalTpSl, StoredOrders

VARIABLE held  \* where the orders are held

triggerVars == <<held, vars, ordersVars>>

TriggersInit ==
  \/ held = "chain" /\ Init /\ OrdersInit
       /\ venue = CHOOSE v \in PartialOrders : TRUE
  \/ /\ held = "service"
     /\ OrdersInit
     /\ Init
     /\ caller = "careful"
     /\ position = [tp |-> MaxGain, sl |-> 0]

ChainStep(A) == held = "chain" /\ A /\ UNCHANGED <<held, ordersVars>>
ServiceStep(A) == held = "service" /\ A /\ UNCHANGED <<held, vars>>

TriggersNext == ChainStep(Next) \/ ServiceStep(OrdersNext)

TriggersSpec == TriggersInit /\ [][TriggersNext]_triggerVars

\* The fairness of GlobalTpSl; of a stored order only safety is claimed.
FairTriggers ==
  TriggersSpec /\ \A c \in Calls : WF_triggerVars(ChainStep(Client(c)))
=============================================================================
