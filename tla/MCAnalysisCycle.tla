--------------------------- MODULE MCAnalysisCycle ---------------------------
EXTENDS AnalysisCycle

\* A cheap stock s, a dear one d, a bond fund e and an American stock x.
MCPrice == [t \in Tickers |-> CASE t = "s" -> 10 [] t = "d" -> 21 [] t = "e" -> 10 [] OTHER -> 20]
MCPool == [k \in Sleeves |-> {"e"}]
Holding(s, e, x) == [t \in Tickers |-> CASE t = "s" -> s [] t = "e" -> e [] t = "x" -> x [] OTHER -> 0]
MCAccounts == {Holding(2, 2, 0), Holding(0, 0, 2)}
MCDay == <<"KR_TRADING", "KR_AFTER_MARKET", "US_TRADING">>
MCIdeas == {<<"s", "d", "x">>}
MCWeights == {NoRec, 40}
=============================================================================
