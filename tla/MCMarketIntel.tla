---------------------------- MODULE MCMarketIntel ----------------------------
(* The administrator and a member over two hours, an hour in two parts.       *)
EXTENDS MarketIntel

CONSTANTS admin, member, news

MCUsers == {admin, member}
MCArticles == {news}
=============================================================================
