------------------------------- MODULE Trading -------------------------------
(*
 * What decides about a trade before it is sent: the calls of trading/api.py and
 * their checks (TradeCalls), the questions an application asks of prices,
 * pairs and limits (Calculations), and the transactions of the delegated key
 * that carries it (SmartAccount).  The code keeps no state common to the
 * three: a behaviour is of one, chosen at the start, and the others stand
 * where they began.
 *)
EXTENDS TradeCalls, Calculations, SmartAccount

VARIABLE part  \* the one that is used

tradingVars == <<part, vars, questionVars, accountVars>>

CallsIdle ==
  /\ Init
  /\ config = [mode |-> "relayer", trader |-> "trader", signer |-> "trader", rpc |-> FALSE]
  /\ grants = {}

AccountIdle ==
  /\ AccountInit
  /\ setup = [rpc |-> FALSE, delegate |-> TRUE]

TradingInit ==
  \/ part = "calls" /\ Init /\ QuestionInit /\ AccountIdle
  \/ part = "questions" /\ CallsIdle /\ QuestionInit /\ AccountIdle
  \/ part = "account" /\ CallsIdle /\ QuestionInit /\ AccountInit

TradingNext ==
  /\ \/ part = "calls" /\ Next /\ UNCHANGED <<questionVars, accountVars>>
     \/ part = "questions" /\ QuestionNext /\ UNCHANGED <<vars, accountVars>>
     \/ part = "account" /\ AccountNext /\ UNCHANGED <<vars, questionVars>>
  /\ UNCHANGED part

TradingSpec == TradingInit /\ [][TradingNext]_tradingVars
=============================================================================
