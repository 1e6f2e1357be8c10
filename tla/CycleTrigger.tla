----------------------------- MODULE CycleTrigger -----------------------------
(***************************************************************************)
(* When a trading loop runs an analysis cycle: start_continuous's rounds,  *)
(* the gates before a cycle, the verification that the market is open, and *)
(* the alert at a market's close.  The clock is the time of the day in     *)
(* minutes, Step at a time, from Opens to Ends; the loops share it, the    *)
(* verdict on the day and nothing else.                                    *)
(*                                                                         *)
(* A loop compares the session and the hour with what it remembered a      *)
(* round ago.  A round reads the session, crawls the news, reads the hour, *)
(* asks the broker and runs its cycle, so what it read and what it         *)
(* remembers may be of the wrong side of a boundary.                       *)
(***************************************************************************)
EXTENDS MarketSessions, Integers

CONSTANTS Users,
          Step,        \* grain of the clock, in minutes
          Opens, Ends, \* the part of the day that is looked at
          Interval,    \* NEWS_CHECK_INTERVAL: the sleep between two rounds
          MaxCycle,    \* bound: minutes an analysis cycle takes
          TradingDay,  \* markets that trade today
          Weekends,    \* sets of markets whose day may be a Saturday or a Sunday
          Extended,    \* users who may trade outside the regular hours
          MaxMishaps   \* bound: stops, failed rounds and markers of a day

Markets == {"KR", "US"}

ASSUME TriggerAssumption ==
  /\ Step \in Nat \ {0}
  /\ Opens \in Nat /\ Ends \in Nat
  /\ Interval \in Nat /\ Interval % Step = 0
  /\ MaxCycle \in Nat \ {0}
  /\ MaxMishaps \in Nat
  /\ TradingDay \subseteq Markets
  /\ Weekends \subseteq SUBSET Markets
  /\ Extended \subseteq Users

VARIABLES
  now,
  loop,      \* of each user: where the loop is, the minutes it may stay there
             \* (after a sleep: must stay), and the round's locals
  anchor,    \* _last_cycle_hour_key, _last_session, _last_cycle_at
  weekend,   \* markets whose day is a Saturday or a Sunday
  marker,    \* .force_first_cycle on disk
  verified,  \* _mkt_open_verified: markets this swarm has seen trade today
  verdict,   \* _VERIFIED_TRADED and _VERIFIED_CLOSED of the process
  begun,     \* history: the hour the user's last cycle began in
  alerts,    \* history: close alerts of each market sent to a user
  mishaps    \* history: stops, failed rounds and markers

triggerVars == <<now, loop, anchor, weekend, marker, verified, verdict, begun, alerts, mishaps>>

----------------------------------------------------------------------------
(* The day.                                                                *)

At(h, m) == 60 * h + m

\* The first window of SCHEDULE that holds the minute m.
SessionAt(m) ==
  CASE At(8, 0) <= m /\ m < At(8, 50)    -> "KR_PRE_MARKET"
    [] At(9, 0) <= m /\ m < At(15, 30)   -> "KR_TRADING"
    [] At(15, 35) <= m /\ m < At(15, 50) -> "KR_CLOSE_REVIEW"
    [] At(15, 50) <= m /\ m < At(20, 0)  -> "KR_AFTER_MARKET"
    [] m >= At(22, 30) \/ m < At(5, 0)   -> "US_TRADING"
    [] OTHER                             -> "OFF_HOURS"

session == SessionAt(now)
Hour(m) == m \div 60

Live == {"KR_PRE_MARKET", "KR_TRADING", "KR_AFTER_MARKET", "US_TRADING"}
TradingHours == session \in Live
KRSessions == SessionNames \ {"US_TRADING", "OFF_HOURS"}
MarketsOf(s) == IF s \in KRSessions THEN {"KR"} ELSE IF s = "US_TRADING" THEN {"US"} ELSE {}

\* Five minutes into the regular session, when today's bar may be there; s is
\* the session that the round has read.
PastOpen5(s) == IF s = "US_TRADING" THEN now >= At(22, 35) \/ now < At(5, 0)
                ELSE now >= At(9, 5)

\* _market_day_verified_closed: a sight of the market trading outweighs it.
ClosedForSure(mkt) == mkt \in verdict.closed \ verdict.traded

----------------------------------------------------------------------------

Never == -1        \* no hour, no minute
Places == {"off", "asleep", "failed", "crawl", "gate", "cycle"}
Idle(p, left) == [at |-> p, left |-> left, session |-> "OFF_HOURS"]

TriggerInit ==
  /\ now = Opens
  /\ loop = [u \in Users |-> Idle("off", 0)]
  /\ anchor = [u \in Users |-> [hour |-> Hour(Opens), session |-> SessionAt(Opens),
                                 ran |-> Never]]
  /\ weekend \in Weekends
  /\ marker = [u \in Users |-> FALSE]
  /\ verified = [u \in Users |-> {}]
  /\ verdict = [traded |-> {}, closed |-> {}]
  /\ begun = [u \in Users |-> Never]
  /\ alerts = [u \in Users |-> [mkt \in Markets |-> 0]]
  /\ mishaps = 0

\* Time passes only over sleeps and awaits that may last.
Tick ==
  /\ now + Step <= Ends
  /\ \A u \in Users : loop[u].at # "off" => loop[u].left >= Step
  /\ now' = now + Step
  /\ loop' = [u \in Users |-> IF loop[u].at = "off" THEN loop[u]
                              ELSE [loop[u] EXCEPT !.left = @ - Step]]
  /\ UNCHANGED <<anchor, weekend, marker, verified, verdict, begun, alerts, mishaps>>

Mishap == mishaps < MaxMishaps /\ mishaps' = mishaps + 1

\* An operator leaves the marker in the user's directory.
PlaceMarker(u) ==
  /\ ~marker[u] /\ Mishap
  /\ marker' = [marker EXCEPT ![u] = TRUE]
  /\ UNCHANGED <<now, loop, anchor, weekend, verified, verdict, begun, alerts>>

----------------------------------------------------------------------------
(* start_continuous: the prologue.  A marker is consumed by the start it   *)
(* forces.                                                                 *)

StartAnchor(u) ==
  IF marker[u] THEN [hour |-> Never, session |-> session, ran |-> Never]
  ELSE [hour |-> Hour(now), session |-> session, ran |-> now]

Start(u) ==
  /\ loop[u].at = "off"
  /\ loop' = [loop EXCEPT ![u] = Idle("asleep", 0)]
  /\ anchor' = [anchor EXCEPT ![u] = StartAnchor(u)]
  /\ marker' = [marker EXCEPT ![u] = FALSE]
  /\ UNCHANGED <<now, weekend, verified, verdict, begun, alerts, mishaps>>

\* The task is cancelled, or its loop sees the flag; the swarm object stays.
Stop(u) ==
  /\ loop[u].at # "off" /\ Mishap
  /\ loop' = [loop EXCEPT ![u] = Idle("off", 0)]
  /\ UNCHANGED <<now, anchor, weekend, marker, verified, verdict, begun, alerts>>

----------------------------------------------------------------------------
(* A round.                                                                *)

\* _maybe_market_close_alert: which markets' close this round notices.
ClosesSeen(u) ==
  {mkt \in Markets \ weekend :
     /\ anchor[u].session = (IF mkt = "KR" THEN "KR_TRADING" ELSE "US_TRADING")
     /\ session # anchor[u].session
     /\ ~ClosedForSure(mkt)}

Alerted(u) ==
  alerts' = [alerts EXCEPT ![u] =
               [mkt \in Markets |-> IF mkt \in ClosesSeen(u) THEN @[mkt] + 1 ELSE @[mkt]]]

\* The head of a round: the session is read, a close is alerted, and the news
\* are crawled.
Round(u) ==
  /\ loop[u].at = "failed" \/ (loop[u].at = "asleep" /\ loop[u].left = 0)
  /\ Alerted(u)
  /\ loop' = [loop EXCEPT ![u] = [at |-> "crawl", left |-> Step, session |-> session]]
  /\ UNCHANGED <<now, anchor, weekend, marker, verified, verdict, begun, mishaps>>

\* After the crawl the round goes by the session it read before.
Opened(u) == loop[u].session \in Live /\ anchor[u].session \notin Live

\* Mutant: the hour counts only in a session that has just begun.
DueAtOpening(u) == Hour(now) # anchor[u].hour /\ loop[u].session # anchor[u].session

Due(u) == Hour(now) # anchor[u].hour

\* The gates that ask the broker nothing: _extended_hours_blocked, and five
\* minutes since the last cycle, the last skipped one or the start.
BlockedAtOnce(u) ==
  \/ IsExtended(loop[u].session) /\ u \notin Extended
  \/ anchor[u].ran # Never /\ now - anchor[u].ran < 5

\* Mutant: a round that ends remembers the session of its end.
LooksAfresh(u) == [anchor[u] EXCEPT !.session = session]

\* The round remembers the session it has read.
RoundEnds(u) == [anchor[u] EXCEPT !.session = loop[u].session]

\* A gate that skips takes the hour and the opening for served.
Skipped(u) == [hour |-> Hour(now), session |-> loop[u].session, ran |-> now]

SkipsRound(u) ==
  /\ anchor' = [anchor EXCEPT ![u] = Skipped(u)]
  /\ loop' = [loop EXCEPT ![u] = Idle("asleep", Interval)]

\* A round without a cycle: nothing to do, or due outside the trading hours,
\* and still due then.
PassesBy(u) ==
  /\ anchor' = [anchor EXCEPT ![u] = RoundEnds(u)]
  /\ loop' = [loop EXCEPT ![u] = Idle("asleep", Interval)]

\* The crawl is over, the hour is read: on to the first question to the broker.
Crawled(u) ==
  /\ loop[u].at = "crawl"
  /\ \/ ~Opened(u) /\ ~Due(u) /\ PassesBy(u)
     \/ (Opened(u) \/ Due(u)) /\ BlockedAtOnce(u) /\ SkipsRound(u)
     \/ /\ Opened(u) \/ Due(u)
        /\ ~BlockedAtOnce(u)
        /\ loop' = [loop EXCEPT ![u].at = "gate", ![u].left = Step]
        /\ UNCHANGED anchor
  /\ UNCHANGED <<now, weekend, marker, verified, verdict, begun, alerts, mishaps>>

\* _verify_market_open: what the broker's daily bars say of the market a round
\* in session s looks at, if it is of a market.
Asked(s) == IF MarketsOf(s) = {} THEN {"none"} ELSE MarketsOf(s)

Sights(u, mkt) ==
  IF ~PastOpen5(loop[u].session) \/ mkt = "none" THEN {"unknown"}
  ELSE IF mkt \in verified[u] THEN {"open"}
  ELSE {"unknown", "closed"} \cup (IF mkt \in TradingDay THEN {"open"} ELSE {})

\* _market_closed_today: the round looked at market mkt and saw "sight"; a
\* sight of the open market is kept, one of a closed market is asked again.
Noted(u, mkt, sight) ==
  /\ verified' = [verified EXCEPT ![u] = IF sight = "open" THEN @ \cup {mkt} ELSE @]
  /\ verdict' = CASE sight = "open"   -> [traded |-> verdict.traded \cup {mkt},
                                          closed |-> verdict.closed \ {mkt}]
                  [] sight = "closed" -> [verdict EXCEPT !.closed = @ \cup {mkt}]
                  [] OTHER            -> verdict

Proceeds(u) ==
  /\ loop' = [loop EXCEPT ![u].at = "cycle", ![u].left = MaxCycle]
  /\ begun' = [begun EXCEPT ![u] = Hour(now)]
  /\ UNCHANGED anchor

\* The broker's answers: is the market open, is there money to trade with.
GateAnswers(u) ==
  /\ loop[u].at = "gate"
  /\ \/ /\ MarketsOf(loop[u].session) \cap weekend # {}
        /\ SkipsRound(u)
        /\ UNCHANGED <<verified, verdict, begun>>
     \/ /\ MarketsOf(loop[u].session) \cap weekend = {}
        /\ \E mkt \in Asked(loop[u].session) : \E sight \in Sights(u, mkt) :
             /\ Noted(u, mkt, sight)
             /\ \/ sight # "closed" /\ TradingHours /\ Proceeds(u)
                \/ sight # "closed" /\ ~TradingHours /\ PassesBy(u) /\ UNCHANGED begun
                \/ SkipsRound(u) /\ UNCHANGED begun     \* closed, or too little cash
  /\ UNCHANGED <<now, weekend, marker, alerts, mishaps>>

\* An exception while the news are crawled, at a gate or before the cycle's own
\* handler, the alert already sent: nothing is remembered, and half a minute
\* later the round is run again.
RoundFails(u) ==
  /\ loop[u].at \in {"crawl", "gate"} /\ Mishap
  /\ loop' = [loop EXCEPT ![u] = Idle("failed", Step)]
  /\ UNCHANGED <<now, anchor, weekend, marker, verified, verdict, begun, alerts>>

\* Mutant: the hour a cycle ran in stays open.
ServedHourOpen(u) == [anchor[u] EXCEPT !.session = session, !.ran = now]

\* After the cycle the time, the hour and the session are looked at afresh.
Served(u) == [hour |-> Hour(now), session |-> session, ran |-> now]

CycleEnds(u) ==
  /\ loop[u].at = "cycle"
  /\ anchor' = [anchor EXCEPT ![u] = Served(u)]
  /\ loop' = [loop EXCEPT ![u] = Idle("asleep", Interval)]
  /\ UNCHANGED <<now, weekend, marker, verified, verdict, begun, alerts, mishaps>>

TriggerStep(u) == \/ PlaceMarker(u) \/ Start(u) \/ Stop(u) \/ Round(u)
                  \/ Crawled(u) \/ GateAnswers(u) \/ RoundFails(u)

TriggerNext == Tick \/ \E u \in Users : TriggerStep(u) \/ CycleEnds(u)

TriggerSpec == TriggerInit /\ [][TriggerNext]_triggerVars

----------------------------------------------------------------------------
(* Properties.                                                             *)

\* Every variable keeps its type.
TriggerTypeOK ==
  /\ now \in Nat
  /\ loop \in [Users -> [at : Places, left : Nat, session : SessionNames]]
  /\ anchor \in [Users -> [hour : Nat \cup {Never}, session : SessionNames,
                          ran : Nat \cup {Never}]]
  /\ weekend \in SUBSET Markets
  /\ marker \in [Users -> BOOLEAN]
  /\ verified \in [Users -> SUBSET Markets]
  /\ verdict \in [traded : SUBSET Markets, closed : SUBSET Markets]
  /\ begun \in [Users -> Nat \cup {Never}]
  /\ alerts \in [Users -> [Markets -> Nat]]
  /\ mishaps \in Nat

\* A cycle that begins in the hour of the one before it was called for by an
\* opening, or forced: not by the clock, and not by a restart of the loop.
OncePerHour ==
  [][\A u \in Users :
       /\ loop[u].at = "gate" /\ loop'[u].at = "cycle"
       /\ begun[u] # Never /\ begun[u] = Hour(now)
       => Opened(u) \/ anchor[u].hour = Never]_triggerVars

\* While its market trades no hour waits for its cycle, or for the gate that
\* skips it, longer than a sleep of the loop, counted from the later of the
\* hour and the opening.
HoursAreServed ==
  \A u \in Users :
    loop[u].at = "asleep" /\ TradingHours /\ anchor[u].hour \notin {Never, Hour(now)} =>
      \E m \in (now - Interval)..now : Hour(m) # Hour(now) \/ SessionAt(m) \notin Live

\* A round that ends without a cycle forgets a market's session only after the
\* close was alerted, whatever crawls, gates and failed rounds lie across it: of
\* a market that this loop has seen trade no close is missed.
Regular(mkt) == IF mkt = "KR" THEN "KR_TRADING" ELSE "US_TRADING"

ClosesAreAlerted ==
  [][\A u \in Users, mkt \in Markets :
       /\ mkt \in verified[u]
       /\ loop[u].at \in {"crawl", "gate"} /\ loop'[u].at = "asleep"
       /\ anchor[u].session = Regular(mkt) /\ anchor'[u].session # Regular(mkt)
       => alerts[u][mkt] > 0]_triggerVars

\* main_swarm.py:2138: called in the moment of the transition only, so that no
\* close is announced twice.
CloseAlertedOnce == \A u \in Users, mkt \in Markets : alerts[u][mkt] <= 1
=============================================================================
