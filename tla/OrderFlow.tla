------------------------------ MODULE OrderFlow ------------------------------
(***************************************************************************)
(* From an approved order to an entry in the ledger: the execution stage   *)
(* of a trading cycle, the fill polls, and the account at the broker they  *)
(* all look at.                                                            *)
(*                                                                         *)
(* The program never learns that an order was executed.  It remembers how  *)
(* many shares of the ticker it held before ("base"), looks at the account *)
(* again later, and takes any move in the order's direction for the fill   *)
(* of the whole order.  Several tasks do so at once, on one account, while *)
(* the market, the user and the operator act on it too.                    *)
(*                                                                         *)
(* A ticker is PRIVATE when the user does not trade it by hand and no read *)
(* of the account loses its row.  It is QUIET when, besides, at most one   *)
(* undecided order at a time may move its holding: the next order for it   *)
(* is drafted after the one before is settled, and its orders execute      *)
(* whole.  The program sees to neither; where they fail, so may its books. *)
(***************************************************************************)
EXTENDS MarketSessions, Integers, FiniteSets, FiniteSetsExt, Sequences

CONSTANTS Tickers,
          KRTickers,     \* six-digit codes (_is_kr_code); the others trade in the US
          Private,       \* tickers only the program trades, and always reads
          Quiet,         \* of those, the ones with one whole order at a time
          Orders,        \* every order the cycles will ever draft
          OrderTicker,   \* \
          OrderSide,     \*  } of each order
          OrderQty,      \* /
          InitHeld,      \* shares held when the ledger was seeded
          MaxHeld,       \* bound: shares a hand trade may bring a ticker to
          MaxAttempts,   \* _POLL_MAX_ATTEMPTS
          Day            \* the sessions the clock runs through, again and again

Sides == {"buy", "sell"}

ASSUME ConstantsAssumption ==
  /\ KRTickers \subseteq Tickers
  /\ Private \subseteq Tickers
  /\ Quiet \subseteq Private
  /\ OrderTicker \in [Orders -> Tickers]
  /\ OrderSide \in [Orders -> Sides]
  /\ OrderQty \in [Orders -> Nat \ {0}]
  /\ InitHeld \in [Tickers -> Nat]
  /\ MaxHeld \in Nat
  /\ MaxAttempts \in Nat \ {0}
  /\ Day \in Seq(SessionNames)
  /\ Len(Day) > 0

\* A day's cycles draft one order after the other.
ASSUME FiniteOrders == IsFiniteSet(Orders)

VARIABLES
  clock,      \* position in Day
  held,       \* the account at the broker: shares of each ticker
  live,       \* orders standing at the exchange
  filled,     \* shares of each order the exchange executed
  sent,       \* shares of each order after the sellable-quantity clamp
  task,       \* of each order: the place of the task that carries it, and that
              \* task's locals: before_qty and the rounds of its fill poll
  cycle,      \* the trading loop: "idle", "analysing" or "executing"
  stopped,    \* _stop_event
  ledger      \* shares of each ticker in ledger.json

account == <<held, live, filled, sent>>
vars == <<clock, held, live, filled, sent, task, cycle, stopped, ledger>>

----------------------------------------------------------------------------
(* Where an order is.  The cycle's task takes it from "queued" to          *)
(* "accepted", through "confirming", the wait for the read two seconds     *)
(* after a KR order; "polling", "asleep", "sawMove" and "sawNone" are the  *)
(* loop of _poll_fills_until_confirmed.  (A buy is never handed to         *)
(* _entry_watch_task: the risk gate does not pass entry_watch_pct on, and  *)
(* the stage then sends a market order.)                                   *)

InCycle == {"queued", "confirming", "accepted"}
Polling == {"polling", "asleep", "sawMove", "sawNone"}
Decided == {"booked",     \* taken for filled: counted, logged, in the ledger
            "failed",     \* taken for refused by the broker
            "skipped",    \* never sent
            "dropped",    \* poll: market closed, taken for unfilled
            "gaveUp",     \* poll: stopped, or out of attempts
            "lost"}       \* its task was cancelled or died
Places == {"none"} \cup InCycle \cup Polling \cup Decided

Tasks == [at : Places, base : Nat, tries : 0..MaxAttempts]

At(o) == task[o].at
Base(o) == task[o].base
Forgotten(st) == [at |-> st, base |-> 0, tries |-> 0]

Ticker(o) == OrderTicker[o]
IsKR(o) == Ticker(o) \in KRTickers
IsPrivate(o) == Ticker(o) \in Private
IsQuiet(o) == Ticker(o) \in Quiet
IsBuy(o) == OrderSide[o] = "buy"
Least(m, n) == IF m < n THEN m ELSE n

session == Day[clock]

KRTradable == session \in {"KR_PRE_MARKET", "KR_TRADING", "KR_AFTER_MARKET"}
KRSession == KRTradable \/ session = "KR_CLOSE_REVIEW"

\* The exchange executes this order's ticker now.
Tradable(o) == IF IsKR(o) THEN KRTradable ELSE session = "US_TRADING"

\* The fill poll's idea of a closed market; the review quarter counts as open.
MarketClosed(o) == IF IsKR(o) THEN ~KRSession ELSE session # "US_TRADING"

----------------------------------------------------------------------------
(* The account, as the program reads it.  A ticker may be missing from the *)
(* answer, which then reads as no shares; a failed KR read may be answered *)
(* with the holdings of an earlier one.                                    *)

Reads(o) == {held[Ticker(o)]}
              \cup IF IsPrivate(o) THEN {} ELSE IF IsKR(o) THEN {0, Base(o)} ELSE {0}

\* Mutant: an unchanged holding counts as a fill.
TrulyFilledInclusive(o, after) ==
  IF IsBuy(o) THEN after >= Base(o) ELSE after <= Base(o)

\* A move of the holding in the order's direction is taken for its fill.
TrulyFilled(o, after) ==
  IF IsBuy(o) THEN after > Base(o) ELSE after < Base(o)

\* Mutant: a sale drops the whole position from the book.
LedgerPopped(o) == IF IsBuy(o) THEN ledger[Ticker(o)] + sent[o] ELSE 0

\* apply_fill: always the order's whole quantity; a position never goes
\* below zero, and the sale of an unlisted one is not entered.
LedgerAfter(o) ==
  IF IsBuy(o) THEN ledger[Ticker(o)] + sent[o]
  ELSE IF ledger[Ticker(o)] > sent[o] THEN ledger[Ticker(o)] - sent[o]
  ELSE 0

\* What is remembered of order o once it is at st; a decided order has no task.
Moved(o, st) == IF st \in Decided THEN Forgotten(st) ELSE [task[o] EXCEPT !.at = st]

Goes(o, st) == task' = [task EXCEPT ![o] = Moved(o, st)]

Book(o) == Goes(o, "booked") /\ ledger' = [ledger EXCEPT ![Ticker(o)] = LedgerAfter(o)]

\* A step of one task that changes nothing but its own place.
Move(o, st) == Goes(o, st) /\ UNCHANGED <<clock, account, cycle, stopped, ledger>>

Init ==
  /\ clock = 1
  /\ held = InitHeld
  /\ live = [o \in Orders |-> FALSE]
  /\ filled = [o \in Orders |-> 0]
  /\ sent = OrderQty
  /\ task = [o \in Orders |-> Forgotten("none")]
  /\ cycle = "idle"
  /\ stopped = FALSE
  /\ ledger = InitHeld

----------------------------------------------------------------------------
(* The cycle's task.                                                       *)

Settled(o) == ~live[o] /\ At(o) \in Decided \cup {"none"}

\* The holdings a cycle decides on, read in its first stage, are the ones its
\* orders are judged against in its last.  The orders S are the ones its later
\* stages will approve, one of a KR ticker.  A failed or partial read leaves
\* out tickers.
CycleBegin(S) ==
  /\ cycle = "idle" /\ ~stopped
  /\ S # {}
  /\ \A o, p \in S : IsKR(o) /\ Ticker(o) = Ticker(p) => o = p
  /\ \A o \in S : At(o) = "none"
  /\ \A o \in S, p \in Orders :
       IsQuiet(o) /\ Ticker(p) = Ticker(o) /\ p # o => Settled(p) /\ p \notin S
  /\ cycle' = "analysing"
  /\ \E missed \in BOOLEAN :
       task' = [o \in Orders |->
                  IF o \notin S THEN task[o]
                  ELSE [at |-> "queued", tries |-> 0,
                        base |-> IF missed /\ ~IsPrivate(o) THEN 0 ELSE held[Ticker(o)]]]
  /\ UNCHANGED <<clock, account, stopped, ledger>>

\* A stage before the execution fails: the cycle ends, nothing is sent.
CycleFails ==
  /\ cycle = "analysing"
  /\ cycle' = "idle"
  /\ task' = [o \in Orders |-> IF At(o) = "queued" THEN Forgotten("skipped") ELSE task[o]]
  /\ UNCHANGED <<clock, account, stopped, ledger>>

\* US orders whose ticker the cycle did not hold are judged against a second
\* read, taken when the execution begins.
ExecBegin ==
  /\ cycle = "analysing"
  /\ cycle' = "executing"
  /\ \E missed \in BOOLEAN :
       task' = [o \in Orders |->
                  IF At(o) = "queued" /\ ~IsKR(o) /\ Base(o) = 0 /\ (IsPrivate(o) \/ ~missed)
                  THEN [task[o] EXCEPT !.base = held[Ticker(o)]] ELSE task[o]]
  /\ UNCHANGED <<clock, account, stopped, ledger>>

\* One order at a time, and the sells before the buys.
Turn(o) ==
  /\ cycle = "executing" /\ At(o) = "queued"
  /\ \A p \in Orders : At(p) # "confirming"
  /\ IsBuy(o) => \A p \in Orders : At(p) = "queued" => IsBuy(p)

\* ord_psbl_qty of the cycle's read: standing sells, ours or not, lock shares.
Sellable(o) == IF ~IsKR(o) \/ IsBuy(o) \/ Base(o) = 0 THEN {OrderQty[o]}
               ELSE IF IsQuiet(o) THEN {Base(o)} ELSE 0..Base(o)

\* Nothing sellable, or no price on the session's exchange: held back.
HoldBack(o) ==
  /\ Turn(o) /\ IsKR(o)
  /\ Move(o, "skipped")

\* kr_sell cancels the ticker's standing sells first, when it can.
Replaced(o) ==
  IF ~IsKR(o) \/ IsBuy(o) THEN {{}}
  ELSE {{}, {p \in Orders : live[p] /\ Ticker(p) = Ticker(o) /\ ~IsBuy(p)}}

\* place_order for q shares: accepted, accepted with the reply lost on the way
\* (taken for a failure), or refused.
Submit(o, q, next) ==
  /\ sent' = [sent EXCEPT ![o] = q]
  /\ \E gone \in Replaced(o) :
       \/ /\ Tradable(o) /\ (IsBuy(o) \/ q <= held[Ticker(o)])
          /\ live' = [p \in Orders |-> p = o \/ (live[p] /\ p \notin gone)]
          /\ \E st \in {next, "failed"} : Goes(o, st)
       \/ /\ live' = [p \in Orders |-> live[p] /\ p \notin gone]
          /\ Goes(o, "failed")
  /\ UNCHANGED <<clock, held, filled, cycle, stopped, ledger>>

Send(o) ==
  /\ Turn(o)
  /\ \E s \in Sellable(o) \ {0} :
       Submit(o, Least(OrderQty[o], s), IF IsKR(o) THEN "confirming" ELSE "accepted")

\* Two seconds after a KR order the account is read again; an order that is not
\* confirmed is left to a fill poll.
ConfirmNow(o) ==
  /\ At(o) = "confirming"
  /\ \E after \in Reads(o) :
       IF TrulyFilled(o, after)
       THEN Book(o)
       ELSE Goes(o, "accepted") /\ UNCHANGED ledger
  /\ UNCHANGED <<clock, account, cycle, stopped>>

ExecEnd ==
  /\ cycle = "executing"
  /\ \A o \in Orders : At(o) \notin {"queued", "confirming"}
  /\ cycle' = "idle"
  /\ task' = [o \in Orders |-> IF At(o) = "accepted" THEN Moved(o, "polling") ELSE task[o]]
  /\ UNCHANGED <<clock, account, stopped, ledger>>

----------------------------------------------------------------------------
(* The fill poll.  A poll's orders share its reads and its rounds and      *)
(* nothing else, so each order here runs the loop by itself.               *)

\* Mutant: rounds are not counted.
AttemptsUncounted(o) == task[o].tries

CountAttempt(o) == task[o].tries + 1

\* Mutant: the loop only ends with the day or the stop flag.
PollHeadUnbounded(o) ==
  /\ At(o) = "polling"
  /\ Move(o, IF ~stopped THEN "asleep" ELSE "gaveUp")

PollHead(o) ==
  /\ At(o) = "polling"
  /\ Move(o, IF task[o].tries < MaxAttempts /\ ~stopped THEN "asleep" ELSE "gaveUp")

\* After five minutes: read the account.  The judgement waits for the rest of
\* the read and for the orders before this one; what was read does not change.
PollRead(o) ==
  /\ At(o) = "asleep"
  /\ \E st \in {IF TrulyFilled(o, after) THEN "sawMove" ELSE "sawNone" : after \in Reads(o)}
                 \cup IF IsPrivate(o) THEN {} ELSE {"polling"} :
       task' = [task EXCEPT ![o] = [at |-> st, base |-> Base(o), tries |-> CountAttempt(o)]]
  /\ UNCHANGED <<clock, account, cycle, stopped, ledger>>

\* Mutant: a closed market drops the order before the fill is looked at.
VerdictClosedFirst(o) == IF MarketClosed(o) THEN "dropped"
                         ELSE IF At(o) = "sawMove" THEN "booked"
                         ELSE "polling"

Verdict(o) == IF At(o) = "sawMove" THEN "booked"
              ELSE IF MarketClosed(o) THEN "dropped"
              ELSE "polling"

PollJudge(o) ==
  /\ At(o) \in {"sawMove", "sawNone"}
  /\ IF Verdict(o) = "booked" THEN Book(o)
     ELSE Goes(o, Verdict(o)) /\ UNCHANGED ledger
  /\ UNCHANGED <<clock, account, cycle, stopped>>

\* An exception while a round is judged ends the poll.
PollBreaks(o) == At(o) \in {"sawMove", "sawNone"} /\ Move(o, "lost")

----------------------------------------------------------------------------
(* The operator.  stop() sets the flag and the loop's task is cancelled,   *)
(* unless it awaits a dashboard's socket: then it goes on with its cycle.  *)
(* Fill polls are neither cancelled nor waited for.                        *)

Stop ==
  /\ ~stopped
  /\ stopped' = TRUE
  /\ \/ UNCHANGED <<cycle, task>>
     \/ /\ cycle' = "idle"
        /\ task' = [o \in Orders |->
                     IF At(o) = "queued" THEN Forgotten("skipped")
                     ELSE IF At(o) \in InCycle THEN Forgotten("lost")
                     ELSE task[o]]
  /\ UNCHANGED <<clock, account, ledger>>

\* Started again, the loop clears the flag.
Start ==
  /\ stopped
  /\ stopped' = FALSE
  /\ UNCHANGED <<clock, account, task, cycle, ledger>>

\* The process dies and takes every task along; the ledger file stays.
Crash ==
  /\ stopped' = TRUE
  /\ cycle' = "idle"
  /\ task' = [o \in Orders |->
                IF At(o) \in Decided \cup {"none"} THEN task[o]
                ELSE Forgotten(IF At(o) = "queued" THEN "skipped" ELSE "lost")]
  /\ UNCHANGED <<clock, account, ledger>>

----------------------------------------------------------------------------
(* The world: the clock, the exchange, and the account's owner.            *)

ClockMoves ==
  /\ clock' = (clock % Len(Day)) + 1
  /\ UNCHANGED <<account, task, cycle, stopped, ledger>>

Fill(o, n) ==
  /\ live[o] /\ Tradable(o)
  /\ n \in 1..(sent[o] - filled[o])
  /\ IsQuiet(o) => n = sent[o]
  /\ IsBuy(o) \/ n <= held[Ticker(o)]
  /\ filled' = [filled EXCEPT ![o] = @ + n]
  /\ live' = [live EXCEPT ![o] = filled[o] + n < sent[o]]
  /\ held' = [held EXCEPT ![Ticker(o)] = IF IsBuy(o) THEN @ + n ELSE @ - n]
  /\ UNCHANGED <<clock, sent, task, cycle, stopped, ledger>>

\* The exchange cancels what is left of an order once its market is closed.
Expire(o) ==
  /\ live[o] /\ ~Tradable(o)
  /\ live' = [live EXCEPT ![o] = FALSE]
  /\ UNCHANGED <<clock, held, filled, sent, task, cycle, stopped, ledger>>

HandTrade(t, q) ==
  /\ t \notin Private
  /\ q # held[t]
  /\ held' = [held EXCEPT ![t] = q]
  /\ UNCHANGED <<clock, live, filled, sent, task, cycle, stopped, ledger>>

----------------------------------------------------------------------------

CycleStep == \/ CycleFails \/ ExecBegin \/ ExecEnd
             \/ \E o \in Orders : HoldBack(o) \/ Send(o)
PollStep(o) == PollHead(o) \/ PollRead(o) \/ PollJudge(o)
World == \/ ClockMoves
         \/ \E o \in Orders : Expire(o) \/ \E n \in 1..sent[o] : Fill(o, n)
         \/ \E t \in Tickers, q \in 0..MaxHeld : HandTrade(t, q)

Next == \/ \E S \in SUBSET Orders : CycleBegin(S)
        \/ CycleStep
        \/ \E o \in Orders : ConfirmNow(o) \/ PollStep(o) \/ PollBreaks(o)
        \/ Stop \/ Start \/ Crash
        \/ World

\* The event loop runs a task whose timer or answer is due: the cycle's task,
\* the confirmation reads and the fill polls go on.  Nothing is assumed of the
\* world.
Fairness == /\ WF_vars(CycleStep)
            /\ \A o \in Orders : WF_vars(ConfirmNow(o)) /\ WF_vars(PollStep(o))

Spec == Init /\ [][Next]_vars /\ Fairness

----------------------------------------------------------------------------
(* Properties.                                                             *)

\* Every variable keeps its type; a position in the ledger is never negative.
TypeOK ==
  /\ clock \in 1..Len(Day)
  /\ held \in [Tickers -> Nat]
  /\ live \in [Orders -> BOOLEAN]
  /\ filled \in [Orders -> Nat]
  /\ sent \in [Orders -> Nat \ {0}]
  /\ task \in [Orders -> Tasks]
  /\ cycle \in {"idle", "analysing", "executing"}
  /\ stopped \in BOOLEAN
  /\ ledger \in [Tickers -> Nat]

\* An order on a quiet ticker that was counted as a fill did fill, and for
\* the quantity that was booked.
QuietBookingsAreFills ==
  \A o \in Orders : IsQuiet(o) /\ At(o) = "booked" => filled[o] = sent[o]

\* The book of a quiet ticker differs from the account by exactly the executed
\* orders that were not booked: those still polled, and those no task follows
\* any more.  (apply_fill floors a position at zero, so the sells must be
\* covered by what the ledger was seeded with.)
SellsCovered(t) ==
  MapThenSumSet(LAMBDA o : OrderQty[o],
                {o \in Orders : Ticker(o) = t /\ ~IsBuy(o)}) <= InitHeld[t]

QuietLedgerExact ==
  \A t \in Quiet : SellsCovered(t) =>
    LET Unentered(side) ==
          MapThenSumSet(LAMBDA o : filled[o],
                        {o \in Orders : /\ Ticker(o) = t /\ OrderSide[o] = side
                                        /\ At(o) # "booked"})
    IN held[t] + Unentered("sell") = ledger[t] + Unentered("buy")

\* A fill that happens while its order's poll sleeps is booked at the next
\* look, even if the market has closed or the loop was stopped meanwhile; only
\* the death of the poll or of the process prevents it.
SleepingFillIsBooked ==
  \A o \in Orders :
    (IsQuiet(o) /\ At(o) = "asleep" /\ filled[o] > 0)
      ~> (At(o) \in {"booked", "lost"})

\* Every order the broker accepted gets a verdict: no poll runs for ever.
AcceptedIsDecided ==
  \A o \in Orders :
    (At(o) \in {"confirming", "accepted"} \cup Polling) ~> (At(o) \in Decided)

\* On quiet tickers the flow implements FillBooking.
FB == INSTANCE FillBooking WITH
        executed <- [o \in Orders |-> IF IsQuiet(o) THEN filled[o] ELSE 0],
        entered <- [o \in Orders |->
                      IF IsQuiet(o) /\ At(o) = "booked" THEN sent[o] ELSE 0]

ImplementsFillBooking == FB!BookSpec

\* tests/test_poll_fills.py: an order that did not fill must not be counted.
OnlyFillsAreCounted ==
  \A o \in Orders : At(o) = "booked" => filled[o] > 0
=============================================================================
