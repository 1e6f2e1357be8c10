------------------------------ MODULE MarketIntel ------------------------------
(***************************************************************************)
(* What the loops of all users share about the market: the news monitor,   *)
(* MarketIntelligenceStore with _shared_or_compute, and the process-wide   *)
(* cache of the macro report.                                              *)
(*                                                                         *)
(* The administrator's loop computes a report and publishes it under the   *)
(* hour it asked in; the other loops wait for it for a while and compute   *)
(* it themselves when it does not come.  One monitor crawls the news for   *)
(* all, and gives an article to the loop that crawls it first.             *)
(*                                                                         *)
(* A wait for the producer is shorter than the grain of the clock.         *)
(* CycleTrigger says when a loop begins a cycle; here it is once in an     *)
(* hour, and once more when a market opens.                                *)
(***************************************************************************)
EXTENDS Integers, FiniteSets

CONSTANTS Users,
          Admin,     \* the producer
          Sharers,   \* users with SHARE_MARKET_INTELLIGENCE
          Articles,  \* what there is to be crawled
          HourLen,   \* units of the clock in an hour
          MacroTTL,  \* MACRO_CACHE_TTL_SEC
          Openings,  \* when a market opens
          MaxCycle,  \* bound: how long a cycle lasts
          Ends       \* bound: the end of the time that is looked at

ASSUME IntelAssumption ==
  /\ Admin \in Users
  /\ Sharers \subseteq Users
  /\ HourLen \in Nat \ {0} /\ MacroTTL \in Nat \ {0}
  /\ Openings \subseteq Nat /\ MaxCycle \in Nat /\ Ends \in Nat

ReportKinds == {"news_report", "macro_research", "macro_report"}
Unborn == -1

VARIABLES
  now,
  cycle,      \* of each user: the cycle he is in
  absent,     \* _producer_absent_this_cycle
  intel,      \* of each kind: the entry published last, and when it was made
  macroCache, \* the macro report of the process: when cached, when made
  crawled,    \* the monitor's history
  pending     \* _pending_news of each loop

intelVars == <<now, cycle, absent, intel, macroCache, crawled, pending>>

Hour(t) == t \div HourLen

\* The call of _shared_or_compute a cycle is in: the kind and hour it asks
\* for; "late" once the clock moved while it waited.
NoCall == [at |-> "none", kind |-> "none", hour |-> Unborn, late |-> FALSE]

\* A cycle: the hour it began in, what it has of each kind (for which hour),
\* the age of its macro report, the articles it took, and how often it waited in
\* vain.
NoCycle == [on |-> FALSE, opened |-> FALSE, hour |-> Unborn, left |-> 0, call |-> NoCall,
            has |-> [k \in ReportKinds |-> Unborn], age |-> Unborn,
            arts |-> {}, timeouts |-> 0]

IntelInit ==
  /\ now = 0
  /\ cycle = [u \in Users |-> NoCycle]
  /\ absent = [u \in Users |-> FALSE]
  /\ intel = [k \in ReportKinds |-> [hour |-> Unborn, born |-> Unborn]]
  /\ macroCache = [at |-> Unborn, born |-> Unborn]
  /\ crawled = {}
  /\ pending = [u \in Users |-> {}]

Tick ==
  /\ now < Ends
  /\ \A u \in Users : cycle[u].on => cycle[u].left > 0 /\ ~cycle[u].call.late
  /\ now' = now + 1
  /\ cycle' = [u \in Users |->
                 IF cycle[u].on
                 THEN [cycle[u] EXCEPT !.left = @ - 1, !.call.late = cycle[u].call.at = "waiting"]
                 ELSE cycle[u]]
  /\ UNCHANGED <<absent, intel, macroCache, crawled, pending>>

----------------------------------------------------------------------------
(* The news.                                                               *)

\* crawl_once and the loop's own pool: what the monitor has seen already, for
\* whomever, is not new.
Crawl(u) ==
  /\ ~cycle[u].on
  /\ \E new \in SUBSET (Articles \ crawled) \ {{}} :
       /\ crawled' = crawled \cup new
       /\ pending' = [pending EXCEPT ![u] = @ \cup new]
  /\ UNCHANGED <<now, cycle, absent, intel, macroCache>>

\* pick_cycle_news: the pool, or the monitor's latest when it is empty.
CycleNews(u) == IF pending[u] # {} THEN pending[u] ELSE crawled

----------------------------------------------------------------------------
(* A cycle, up to the macro report.                                        *)

\* Mutant: the flag of an earlier cycle is kept.
FlagSurvives(u) == absent[u]

FlagAtStart(u) == FALSE

\* A loop begins a cycle, once in an hour or when a market opens.
CycleBegins(u) ==
  /\ ~cycle[u].on
  /\ \E opened \in BOOLEAN :
       /\ IF cycle[u].hour = Hour(now) THEN opened /\ ~cycle[u].opened ELSE TRUE
       /\ opened => now \in Openings
       /\ cycle' = [cycle EXCEPT ![u] = [NoCycle EXCEPT !.on = TRUE, !.opened = opened,
                                           !.hour = Hour(now), !.left = MaxCycle,
                                           !.arts = CycleNews(u)]]
  /\ pending' = [pending EXCEPT ![u] = {}]
  /\ absent' = [absent EXCEPT ![u] = FlagAtStart(u)]
  /\ UNCHANGED <<now, intel, macroCache, crawled>>

\* The cycle is over: by itself, by an exception or with its task, whose call
\* is cancelled with it.
CycleEnds(u) ==
  /\ cycle[u].on
  /\ cycle' = [cycle EXCEPT ![u] = [NoCycle EXCEPT !.hour = cycle[u].hour,
                                                !.opened = cycle[u].opened]]
  /\ UNCHANGED <<now, absent, intel, macroCache, crawled, pending>>

Has(u, k) == cycle[u].has[k] # Unborn

\* Without news, unless a market opens, no report on them is made.
SellOnly(u) == cycle[u].arts = {} /\ ~cycle[u].opened

CacheIsFresh == macroCache.at # Unborn /\ now - macroCache.at < MacroTTL
UsesCache(u) == ~cycle[u].opened /\ CacheIsFresh

\* What the stage asks for next.
Wants(u) ==
  {k \in ReportKinds :
     /\ ~Has(u, k)
     /\ CASE k = "news_report"    -> ~SellOnly(u) /\ \A j \in ReportKinds : ~Has(u, j)
          [] k = "macro_research" -> /\ Has(u, "news_report") \/ SellOnly(u)
                                     /\ ~Has(u, "macro_report") /\ ~UsesCache(u)
          [] k = "macro_report"   -> Has(u, "macro_research")}

\* Mutant: an entry of an earlier hour is served.
PeekStale(k, h) == {intel[k]} \ {[hour |-> Unborn, born |-> Unborn]}

Peek(k, h) == {e \in {intel[k]} : e.hour = h}

Computes(u) == u \notin Sharers \/ u = Admin \/ absent[u]

\* The call for kind k is over with an answer of age a for hour h.
With(c, k, a, h) ==
  [c EXCEPT !.has[k] = h, !.call = NoCall,
            !.age = IF k = "macro_report" THEN a ELSE @]

\* Only a report of some length is cached, as of now whatever its age.
Cached(k, born) ==
  macroCache' \in {macroCache} \cup
                  (IF k = "macro_report" THEN {[at |-> now, born |-> born]} ELSE {})

Takes(u, k, e) ==
  /\ cycle' = [cycle EXCEPT ![u] = With(@, k, now - e.born, e.hour)]
  /\ Cached(k, e.born)

Ask(u) ==
  /\ cycle[u].on /\ cycle[u].call = NoCall
  /\ \E k \in Wants(u) :
       \/ \E e \in Peek(k, Hour(now)) : ~Computes(u) /\ Takes(u, k, e)
       \/ /\ Computes(u) \/ Peek(k, Hour(now)) = {}
          /\ cycle' = [cycle EXCEPT ![u].call =
                         [at |-> IF Computes(u) THEN "computing" ELSE "waiting",
                          kind |-> k, hour |-> Hour(now), late |-> FALSE]]
          /\ UNCHANGED macroCache
  /\ UNCHANGED <<now, absent, intel, crawled, pending>>

\* Mutant: a report taken from the cache is cached anew.
CacheRenewed(u) == [macroCache EXCEPT !.at = now]

CacheAfterUse(u) == macroCache

TakeCached(u) ==
  /\ cycle[u].on /\ cycle[u].call = NoCall
  /\ Has(u, "news_report") \/ SellOnly(u)
  /\ ~Has(u, "macro_research") /\ ~Has(u, "macro_report")
  /\ UsesCache(u)
  /\ cycle' = [cycle EXCEPT ![u].has["macro_report"] = Hour(now),
                            ![u].age = now - macroCache.born]
  /\ macroCache' = CacheAfterUse(u)
  /\ UNCHANGED <<now, absent, intel, crawled, pending>>

\* The model answers.  The administrator publishes what is not empty and wakes
\* everyone who waits.
Answered(u) ==
  /\ cycle[u].call.at = "computing"
  /\ LET k == cycle[u].call.kind
         e == [hour |-> cycle[u].call.hour,
               born |-> IF k = "macro_report" THEN now ELSE Unborn]
     IN /\ Takes(u, k, e)
        /\ intel' \in {intel} \cup (IF u = Admin /\ u \in Sharers
                                     THEN {[intel EXCEPT ![k] = e]} ELSE {})
  /\ UNCHANGED <<now, absent, crawled, pending>>

\* A waiter that was woken finds its hour's entry.
Received(u) ==
  /\ cycle[u].call.at = "waiting"
  /\ \E e \in Peek(cycle[u].call.kind, cycle[u].call.hour) : Takes(u, cycle[u].call.kind, e)
  /\ UNCHANGED <<now, absent, intel, crawled, pending>>

FlagAtTimeout(u) == TRUE

\* SHARE_PRODUCER_WAIT_SEC are over, even if the entry has just come.
WaitTimesOut(u) ==
  /\ cycle[u].call.at = "waiting"
  /\ absent' = [absent EXCEPT ![u] = FlagAtTimeout(u)]
  /\ cycle' = [cycle EXCEPT ![u].call.at = "computing", ![u].call.late = FALSE,
                            ![u].timeouts = @ + 1]
  /\ UNCHANGED <<now, intel, macroCache, crawled, pending>>

LoopStep(u) == \/ Crawl(u) \/ CycleBegins(u) \/ CycleEnds(u)
               \/ Ask(u) \/ TakeCached(u) \/ Answered(u) \/ Received(u) \/ WaitTimesOut(u)

IntelNext == Tick \/ \E u \in Users : LoopStep(u)

IntelSpec == IntelInit /\ [][IntelNext]_intelVars

----------------------------------------------------------------------------
(* Properties.                                                             *)

\* Every variable keeps its type.
IntelTypeOK ==
  /\ now \in Nat
  /\ \A u \in Users :
       /\ cycle[u].on \in BOOLEAN /\ cycle[u].call.at \in {"none", "computing", "waiting"}
       /\ \A k \in ReportKinds : cycle[u].has[k] \in Int
       /\ cycle[u].timeouts \in {0, 1}
       /\ cycle[u].arts \subseteq crawled
  /\ absent \in [Users -> BOOLEAN]
  /\ intel \in [ReportKinds -> [hour : Int, born : Int]]
  /\ macroCache \in [at : Int, born : Int]
  /\ crawled \subseteq Articles
  /\ pending \in [Users -> SUBSET crawled]

\* A cycle never rests on news or research made for an hour before its own,
\* neither by a peek nor after a wait across the hour.
NewsIsOfTheHour ==
  \A u \in Users, k \in ReportKinds : Has(u, k) => cycle[u].has[k] >= cycle[u].hour

\* However a macro report goes from store to cache and from loop to loop, none
\* is used more than the store's hour and the cache's limit after it was made.
MacroIsRecent == \A u \in Users : cycle[u].age < HourLen + MacroTTL

\* A cycle waits out the producer once at most, and it is in this cycle, not
\* in an earlier one, that it did.
AbsenceIsOfThisCycle ==
  \A u \in Users : cycle[u].on => cycle[u].timeouts = (IF absent[u] THEN 1 ELSE 0)
=============================================================================
