---------------------------- MODULE PairCatalog ----------------------------
(***************************************************************************)
(* The pair catalog of the trading snapshot (markets/models.py and         *)
(* MarketsApi): how a reference names a pair, which Upside market belongs  *)
(* to a pair, and whether a market is open.                                *)
(*                                                                         *)
(* A catalog is the sequence of the pairs of a snapshot, in its order.  A  *)
(* symbol is a name with or without the _UPSIDE suffix; a reference is a   *)
(* symbol alone, or two of them and what stands between.                   *)
(***************************************************************************)
EXTENDS Integers, Sequences, FiniteSets

Plain(name) == [name |-> name, upside |-> FALSE]
Upside(name) == [name |-> name, upside |-> TRUE]

USD == Plain("USD")

is_upside(pair) == pair.from.upside \/ pair.to.upside

strip_upside_suffix(symbol) == Plain(symbol.name)

base_symbol(pair) == <<strip_upside_suffix(pair.from), strip_upside_suffix(pair.to)>>

symbol(pair) == <<pair.from, pair.to>>

First(indices) == CHOOSE i \in indices : \A j \in indices : i <= j

-----------------------------------------------------------------------------
(* pair_by_symbol *)

\* "from/to", letter for letter.
Exact(catalog, ref) ==
  {i \in DOMAIN catalog : ref.sep = "/" /\ symbol(catalog[i]) = <<ref.from, ref.to>>}

\* A base alone.
BaseMatches(catalog, ref) ==
  {i \in DOMAIN catalog : ref.sep = "alone" /\ catalog[i].from = ref.from}

\* With "-" and "_" read as "/", a suffix too: what is left of a symbol that
\* has one matches nothing.
Rewritten(catalog, ref) ==
  {i \in DOMAIN catalog :
     /\ ~ref.from.upside /\ ~ref.to.upside
     /\ symbol(catalog[i]) = <<ref.from, IF ref.sep = "alone" THEN USD ELSE ref.to>>}

\* Mutant: several bases match and the first one listed is taken.
pair_by_symbol_guessing(catalog, ref) ==
  LET exact == Exact(catalog, ref)
      bases == BaseMatches(catalog, ref)
      rewritten == Rewritten(catalog, ref)
  IN  IF exact # {} THEN First(exact)
      ELSE IF bases # {} THEN First(bases)
      ELSE IF rewritten # {} THEN First(rewritten)
      ELSE 0

\* The index in the catalog; 0: unknown pair.
pair_by_symbol(catalog, ref) ==
  LET exact == Exact(catalog, ref)
      bases == BaseMatches(catalog, ref)
      inUsd == {i \in bases : catalog[i].to = USD}
      rewritten == Rewritten(catalog, ref)
  IN  IF exact # {} THEN First(exact)
      ELSE IF inUsd # {} THEN First(inUsd)
      ELSE IF Cardinality(bases) = 1 THEN First(bases)
      ELSE IF rewritten # {} THEN First(rewritten)
      ELSE 0

-----------------------------------------------------------------------------
(* upside_pair_for *)

NoFeed == 0

SameFeed(pair, candidate) ==
  \/ NoFeed \in {pair.feed, candidate.feed}
  \/ candidate.feed = pair.feed

\* The Upside market of the i-th pair; 0: it has none.
upside_pair_for(catalog, i) ==
  LET twins == {j \in DOMAIN catalog :
                  /\ is_upside(catalog[j])
                  /\ base_symbol(catalog[j]) = symbol(catalog[i])
                  /\ SameFeed(catalog[i], catalog[j])}
  IN  IF is_upside(catalog[i]) THEN i ELSE IF twins = {} THEN 0 ELSE First(twins)

-----------------------------------------------------------------------------
(* is_market_open *)

\* Of a pair whose group keeps hours; 0: not known.
is_market_open(hours, now) ==
  /\ hours.is_open \/ (hours.next_open > 0 /\ now > hours.next_open)
  /\ hours.next_close = 0 \/ now < hours.next_close
=============================================================================
