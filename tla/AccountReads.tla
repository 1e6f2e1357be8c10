---------------------------- MODULE AccountReads ----------------------------
(***************************************************************************)
(* The reads of an account and what they leave behind: kr_account_snapshot *)
(* and portfolio_holdings (infra/kis_broker.py) with their caches in       *)
(* memory and on disk, and the point the equity poller and /api/balance    *)
(* add to the curve (record_equity, main_swarm.py).                        *)
(*                                                                         *)
(* Reads of several coroutines overlap: KIS answers at one moment, and the *)
(* answer is merged later, with the snapshot the read found at its start.  *)
(* How a request fails is left to BrokerCalls.  A list of Korean holdings  *)
(* is the set of its stocks, KIS's total the set of the stocks it values,  *)
(* the US part is counted or not.  Cash is left out, it only moves both    *)
(* sides of the glitch test; so are the totals kept with the lists.        *)
(***************************************************************************)
EXTENDS Integers, FiniteSets

CONSTANTS Coroutines,    \* coroutines that read the account
          Pollers,    \* those among them that read the portfolio: the poller, /api/balance
          Stocks,     \* Korean stocks the account may hold
          Small,      \* those worth no more than _HOLDINGS_GLITCH_MIN_GAP
          FirstPage,  \* those on the first page of the balance
          MaxTrades,  \* bound: changes of the account
          NoSnap,     \* no snapshot in memory
          NoPoint     \* no point on the curve

ASSUME ReadAssumption ==
  /\ Pollers \subseteq Coroutines /\ Small \subseteq Stocks /\ FirstPage \subseteq Stocks
  /\ MaxTrades \in Nat

VARIABLES
  held, us,       \* the account: Korean stocks, and whether it holds US ones
  trades,
  snap, fresh,    \* _acct_snap; younger than _SNAP_TTL
  disk, diskOld,  \* holdings_cache.json and its mirror; older than its TTL
  ov, ovOld,      \* the cached US value is positive; older than its TTL
  reader,         \* what each coroutine is in
  curve,          \* the last point
  \* history, for the properties
  clean, known, usKnown

readsVars == <<held, us, trades, snap, fresh, disk, diskOld, ov, ovOld, reader, curve,
          clean, known, usKnown>>

account == <<held, us, trades>>
krCache == <<snap, fresh, disk, diskOld>>
usCache == <<ov, ovOld>>
history == <<clean, known, usKnown>>

Snapshots == [ok : BOOLEAN, list : SUBSET Stocks]

(***************************************************************************)
(* A coroutine: where it is; the snapshot it found; KIS's answer (ok,      *)
(* rows, what the total values); the snapshot it goes on with; whether the *)
(* US list showed a stock, what the US value was answered and whether it   *)
(* counts.  flat and sure say, for the properties, that the account has    *)
(* held no Korean stock, and known US ones, since its start.               *)
(***************************************************************************)
NoRead == [at |-> "idle", cached |-> NoSnap,
         ok |-> FALSE, rows |-> {}, values |-> {}, snap |-> NoSnap,
         listed |-> FALSE, value |-> "none", counted |-> FALSE, flat |-> FALSE, sure |-> FALSE]

ReadsInit ==
  /\ held \in SUBSET Stocks /\ us \in BOOLEAN /\ trades = 0
  /\ snap = NoSnap /\ fresh = FALSE /\ disk = {} /\ diskOld = FALSE
  /\ ov = FALSE /\ ovOld = FALSE
  /\ reader = [r \in Coroutines |-> NoRead]
  /\ curve = NoPoint
  /\ clean = FALSE /\ known = FALSE /\ usKnown = FALSE

Large(h) == h \ Small # {}

-----------------------------------------------------------------------------
(* The account, time, the process. *)

\* Fills and trades by hand.
Trade ==
  /\ trades < MaxTrades /\ trades' = trades + 1
  /\ \/ \E h \in SUBSET Stocks : h # held /\ held' = h /\ us' = us
     \/ us' = ~us /\ held' = held
  /\ clean' = (clean /\ held' = {})
  /\ known' = (known /\ Large(held'))
  /\ usKnown' = (usKnown /\ us' = us)
  /\ reader' = [r \in Coroutines |-> [reader[r] EXCEPT !.flat = @ /\ held' = {},
                                                    !.sure = @ /\ us' = us]]
  /\ UNCHANGED <<krCache, usCache, curve>>

\* Time passes: a cache outlives its term.
CachesAge ==
  /\ \/ fresh /\ fresh' = FALSE /\ UNCHANGED <<diskOld, ovOld, reader, usKnown>>
     \/ disk # {} /\ ~diskOld /\ diskOld' = TRUE /\ UNCHANGED <<fresh, ovOld, reader, usKnown>>
     \/ /\ ov /\ ~ovOld /\ ovOld' = TRUE /\ usKnown' = FALSE
        /\ reader' = [r \in Coroutines |-> [reader[r] EXCEPT !.sure = FALSE]]
        /\ UNCHANGED <<fresh, diskOld>>
  /\ UNCHANGED <<account, snap, disk, ov, curve, clean, known>>

\* The process goes; the files stay.
ProcessRestarts ==
  /\ snap' = NoSnap /\ fresh' = FALSE
  /\ reader' = [r \in Coroutines |-> NoRead]
  /\ UNCHANGED <<account, disk, diskOld, usCache, curve, history>>

-----------------------------------------------------------------------------
(* kr_account_snapshot. *)

\* No other read is under way.
Alone(r) == \A q \in Coroutines \ {r} : reader[q].at = "idle"

\* A snapshot young enough serves, else KIS is asked.
Hit(cached) == cached # NoSnap /\ fresh

Handed(cached) == IF Hit(cached) THEN cached ELSE NoSnap

\* A read starts; that of a fill check, which is not the poller's, clears the
\* snapshot first.
Start(r) ==
  /\ reader[r].at = "idle"
  /\ \E forget \in BOOLEAN \ (IF r \in Pollers THEN {TRUE} ELSE {}) :
       LET cached == IF forget THEN NoSnap ELSE snap
       IN /\ r \in Pollers \/ ~Hit(cached)
          /\ reader' = [reader EXCEPT ![r] = [NoRead EXCEPT
                 !.at = IF Hit(cached) THEN "listing" ELSE "asked",
                 !.cached = IF Hit(cached) THEN NoSnap ELSE cached,
                 !.snap = Handed(cached),
                 !.flat = (held = {}), !.sure = us /\ usKnown]]
          /\ snap' = cached /\ fresh' = Hit(cached)
  /\ UNCHANGED <<account, disk, diskOld, usCache, curve, history>>

\* KIS answers: the holdings, or an empty list by a glitch, with the true total;
\* or a failure, after the first page perhaps.
Answered(r) ==
  /\ reader[r].at = "asked"
  /\ \E a \in {[ok |-> TRUE, rows |-> held, values |-> held],
              [ok |-> TRUE, rows |-> {}, values |-> held],
              [ok |-> FALSE, rows |-> {}, values |-> {}],
              [ok |-> FALSE, rows |-> held \cap FirstPage, values |-> held]} :
       reader' = [reader EXCEPT ![r].at = "told", ![r].ok = a.ok, ![r].rows = a.rows, ![r].values = a.values]
  /\ UNCHANGED <<account, krCache, usCache, curve, history>>

\* Only what memory shows.
PriorFromMemory(x) == IF x.cached # NoSnap THEN x.cached.list ELSE {}

\* The last good list: that of the snapshot found at the start, or of the disk.
Prior(x) ==
  IF x.cached # NoSnap /\ x.cached.list # {} THEN x.cached.list
  ELSE IF diskOld THEN {} ELSE disk

\* An empty list that the total belies, and a failed read, give way to it.
Merged(x) ==
  [ok |-> x.ok,
   list |-> IF Prior(x) # {} /\ (~x.ok \/ (x.rows = {} /\ Large(x.values)))
            THEN Prior(x) ELSE x.rows]

FlatNever(x) == FALSE
\* Only the good read of an account worth nothing clears the list on disk.
Flat(x) == x.ok /\ x.rows = {} /\ ~Large(x.values)

\* The answer is merged; a list that is not empty goes to disk, that of a read
\* cut after its first page too.
Merge(r) ==
  LET x == reader[r]
  IN /\ x.at = "told"
     /\ snap' = Merged(x) /\ fresh' = TRUE
     /\ disk' = IF x.rows # {} \/ Flat(x) THEN x.rows ELSE disk
     /\ diskOld' = (diskOld /\ x.rows = {} /\ ~Flat(x))
     /\ clean' = (clean \/ (x.ok /\ x.flat /\ Alone(r)))
     /\ known' = (known \/ (x.ok /\ x.rows # {} /\ Large(held) /\ Alone(r)))
     /\ reader' = [reader EXCEPT ![r] = IF r \in Pollers
                     THEN [x EXCEPT !.at = "listing", !.snap = Merged(x), !.cached = NoSnap,
                                    !.ok = FALSE, !.rows = {}, !.values = {}]
                     ELSE NoRead]
     /\ UNCHANGED <<account, usCache, curve, usKnown>>

-----------------------------------------------------------------------------
(* portfolio_holdings: the US list, then its value, then the point. *)

\* A failed list is an empty one.
Listed(r) ==
  /\ reader[r].at = "listing"
  /\ \E l \in {us, FALSE} : reader' = [reader EXCEPT ![r].at = "valuing", ![r].listed = l]
  /\ UNCHANGED <<account, krCache, usCache, curve, history>>

\* The US value is answered: positive, at an odd rate of exchange perhaps (that of
\* the mock server), nothing (a glitch, or the truth), or not.
Valued(r) ==
  /\ reader[r].at = "valuing"
  /\ \E v \in (IF us THEN {"some", "odd"} ELSE {}) \cup {"nothing", "failed"} :
       reader' = [reader EXCEPT ![r].at = "valued", ![r].value = v]
  /\ UNCHANGED <<account, krCache, usCache, curve, history>>

SoldOutByValue(x) == x.value = "nothing"

\* Sold: the value is answered with nothing and no US stock was listed.
SoldOut(x) == x.value = "nothing" /\ ~x.listed

\* What is sold, or valued at an odd rate, counts nothing, now and in the cache.
Dropped(x) == SoldOut(x) \/ x.value = "odd"

\* Else a value that failed, or belies the list, is taken from the cache.
Counted(x) == x.value = "some" \/ (~Dropped(x) /\ ov /\ ~ovOld)

\* A read that missed the US stocks twice over (a glitch) takes them for sold; one
\* at an odd rate leaves them out.
Misled(x) == (x.value = "nothing" /\ ~x.listed) \/ x.value = "odd"

Weighed(r) ==
  LET x == reader[r]
  IN /\ x.at = "valued"
     /\ ov' = (x.value = "some" \/ (ov /\ ~Dropped(x)))
     /\ ovOld' = (ovOld /\ x.value # "some" /\ ~Dropped(x))
     /\ usKnown' = IF Misled(x) THEN FALSE ELSE usKnown \/ (x.value = "some" /\ us /\ Alone(r))
     /\ reader' = [q \in Coroutines |->
                     IF q = r THEN [x EXCEPT !.at = "weighed", !.counted = Counted(x),
                                             !.sure = @ /\ ~Misled(x)]
                     ELSE [reader[q] EXCEPT !.sure = @ /\ ~Misled(x)]]
     /\ UNCHANGED <<account, krCache, curve, clean, known>>

\* The settled value, when KIS has one, stands in for it; the point goes to the
\* curve when the Korean read was good, a minute after the last or later
\* (record_equity).
Recorded(r) ==
  LET x == reader[r]
  IN /\ x.at = "weighed"
     /\ \/ /\ x.snap.ok
           /\ \E settled \in BOOLEAN : curve' = [us |-> settled \/ x.counted, sure |-> x.sure]
        \/ UNCHANGED curve
     /\ reader' = [reader EXCEPT ![r] = NoRead]
     /\ UNCHANGED <<account, krCache, usCache, history>>

-----------------------------------------------------------------------------
ReadsNext ==
  \/ \E r \in Coroutines :
       \/ Start(r) \/ Answered(r) \/ Merge(r)
       \/ Listed(r) \/ Valued(r) \/ Weighed(r) \/ Recorded(r)
  \/ Trade \/ CachesAge \/ ProcessRestarts

ReadsSpec == ReadsInit /\ [][ReadsNext]_readsVars

-----------------------------------------------------------------------------
ReadsTypeOK ==
  /\ held \subseteq Stocks /\ us \in BOOLEAN /\ trades \in 0..MaxTrades
  /\ snap \in Snapshots \cup {NoSnap} /\ fresh \in BOOLEAN
  /\ disk \subseteq Stocks /\ diskOld \in BOOLEAN
  /\ ov \in BOOLEAN /\ ovOld \in BOOLEAN
  /\ curve \in [us : BOOLEAN, sure : BOOLEAN] \cup {NoPoint}
  /\ \A r \in Coroutines :
       /\ reader[r].at \in {"idle", "asked", "told", "listing", "valuing", "valued", "weighed"}
       /\ reader[r].cached \in Snapshots \cup {NoSnap}
       /\ reader[r].at \in {"listing", "valuing", "valued", "weighed"} => reader[r].snap \in Snapshots
       /\ reader[r].value \in {"none", "some", "odd", "nothing", "failed"}

\* After the good read of an account that has held no Korean stock since the read
\* began, with no other read under way, no snapshot and no list on disk shows one,
\* through failed reads and restarts, until the account holds one again
\* (_clear_holdings_cache, "no ghost holdings").
NoGhosts == clean => (disk = {} /\ (snap # NoSnap => snap.list = {}))

\* Once a read has listed the stocks of an account, and while it holds one that
\* matters, no failed read, empty answer or restart shows it empty before the list
\* on disk is a day old (the vanished holdings of 2026-05-29).
HoldingsStay == (known /\ ~diskOld /\ snap # NoSnap) => snap.list # {}

\* A point recorded by a read that began with the US value known, and the US
\* stocks still held, counts them: neither a failed list nor a failed value makes
\* the curve drop (the 16% falls of 2026-05-21).  A read that was misled, by both
\* answers or by the rate of exchange, settles nothing.
CurveKeepsUs == (curve # NoPoint /\ curve.sure) => curve.us
=============================================================================
