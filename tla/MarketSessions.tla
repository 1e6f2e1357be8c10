--------------------------- MODULE MarketSessions ---------------------------
(***************************************************************************)
(* The sessions of SCHEDULE, by name, and what kind of session each is.    *)
(***************************************************************************)

SessionNames == {"KR_PRE_MARKET", "KR_TRADING", "KR_CLOSE_REVIEW", "KR_AFTER_MARKET",
                 "US_TRADING", "OFF_HOURS"}

IsKRSession(s) == s \notin {"US_TRADING", "OFF_HOURS"}
IsKRTradable(s) == s \in {"KR_PRE_MARKET", "KR_TRADING", "KR_AFTER_MARKET"}
IsExtended(s) == s \in {"KR_PRE_MARKET", "KR_AFTER_MARKET"}
=============================================================================
