--------------------------- MODULE OrderFlowProofs ---------------------------
(***************************************************************************)
(* Theorems about OrderFlow, for every set of tickers and orders, every    *)
(* bound on the fill poll's rounds and every day.                          *)
(***************************************************************************)
EXTENDS OrderFlow, SumsAndLists, TLAPS

----------------------------------------------------------------------------
(* Types.                                                                  *)

\* A poll sleeps only while it has a round left: its count stays in bounds.
AsleepHasRound ==
  \A o \in Orders : At(o) = "asleep" => task[o].tries < MaxAttempts

ITypeOK == TypeOK /\ AsleepHasRound

LEMMA ForgottenType ==
  ASSUME NEW st \in Places
  PROVE  Forgotten(st) \in Tasks /\ Forgotten(st).at = st
BY ConstantsAssumption, SMT DEF Forgotten, Tasks

\* A task that moves keeps its base and its count, or forgets both.
LEMMA GoesType ==
  ASSUME task \in [Orders -> Tasks], NEW o \in Orders, NEW st \in Places, Goes(o, st)
  PROVE  /\ task' \in [Orders -> Tasks]
         /\ At(o)' = st
         /\ st \in Decided \/ (Base(o)' = Base(o) /\ task'[o].tries = task[o].tries)
         /\ \A p \in Orders : p # o => task'[p] = task[p]
<1>1. Moved(o, st) \in Tasks /\ Moved(o, st).at = st
  <2>1. CASE st \in Decided
    BY <2>1, ForgottenType DEF Moved
  <2>2. CASE st \notin Decided
    BY <2>2 DEF Moved, Tasks
  <2> QED
    BY <2>1, <2>2
<1>2. st \in Decided \/ (Moved(o, st).base = task[o].base /\ Moved(o, st).tries = task[o].tries)
  BY DEF Moved, Tasks
<1> QED
  BY <1>1, <1>2 DEF Goes, At, Base

LEMMA LedgerType ==
  ASSUME TypeOK, NEW o \in Orders
  PROVE  LedgerAfter(o) \in Nat
BY ConstantsAssumption DEF TypeOK, LedgerAfter, Ticker, IsBuy

LEMMA BookType ==
  ASSUME TypeOK, NEW o \in Orders, Book(o)
  PROVE  ledger' \in [Tickers -> Nat]
BY ConstantsAssumption, LedgerType DEF TypeOK, Book, Ticker

\* The place and the count of every order stay legal, whatever step is taken.
LEMMA TypeStep ==
  ASSUME ITypeOK, [Next]_vars
  PROVE  ITypeOK'
<1> USE DEF ITypeOK
<1>0. /\ \A o \in Orders : OrderTicker[o] \in Tickers /\ OrderQty[o] \in Nat \ {0}
      /\ MaxAttempts \in Nat \ {0}
  BY ConstantsAssumption
<1>1. ASSUME NEW o \in Orders, NEW st \in Places \ {"asleep"}, Move(o, st)
      PROVE  ITypeOK'
  <2>1. task \in [Orders -> Tasks] /\ Goes(o, st)
    BY <1>1 DEF TypeOK, Move
  <2>2. task' \in [Orders -> Tasks] /\ At(o)' = st /\ \A p \in Orders : p # o => task'[p] = task[p]
    BY <2>1, <1>1, GoesType
  <2>3. TypeOK'
    BY <1>1, <2>2 DEF TypeOK, Move, account
  <2> QED
    BY <1>1, <2>2, <2>3 DEF AsleepHasRound, At
<1>2. ASSUME NEW o \in Orders, NEW q \in Nat \ {0},
             NEW next \in {"confirming", "accepted", "polling"}, Submit(o, q, next)
      PROVE  ITypeOK'
  <2>1. PICK st \in {next, "failed"} : Goes(o, st)
    BY <1>2 DEF Submit
  <2>2. st \in Places \ {"asleep"}
    BY <2>1 DEF Places, InCycle, Polling, Decided
  <2>3. task' \in [Orders -> Tasks] /\ At(o)' = st /\ \A p \in Orders : p # o => task'[p] = task[p]
    BY <2>1, <2>2, GoesType DEF TypeOK
  <2>4. live' \in [Orders -> BOOLEAN]
    BY <1>2 DEF Submit, TypeOK
  <2>5. TypeOK'
    BY <1>2, <2>3, <2>4 DEF TypeOK, Submit
  <2> QED
    BY <2>2, <2>3, <2>5 DEF AsleepHasRound, At
<1>3. ASSUME NEW S \in SUBSET Orders, CycleBegin(S)
      PROVE  ITypeOK'
  <2>1. PICK missed \in BOOLEAN :
          task' = [o \in Orders |->
                     IF o \notin S THEN task[o]
                     ELSE [at |-> "queued", tries |-> 0,
                           base |-> IF missed /\ ~IsPrivate(o) THEN 0 ELSE held[Ticker(o)]]]
    BY <1>3 DEF CycleBegin
  <2>2. \A o \in Orders : held[Ticker(o)] \in Nat
    BY <1>0 DEF Ticker, TypeOK
  <2>3. task' \in [Orders -> Tasks]
    BY <1>0, <2>1, <2>2, SMT DEF TypeOK, Tasks, Places, InCycle
  <2>4. \A o \in Orders : task'[o] = task[o] \/ At(o)' = "queued"
    BY <2>1 DEF At
  <2> QED
    BY <1>3, <2>3, <2>4 DEF CycleBegin, TypeOK, AsleepHasRound, At, account
<1>4. CASE CycleFails
  <2>1. task' \in [Orders -> Tasks]
    BY <1>4, ForgottenType DEF CycleFails, TypeOK, Places, Decided
  <2>2. \A o \in Orders : task'[o] = task[o] \/ At(o)' = "skipped"
    BY <1>4 DEF CycleFails, At, Forgotten
  <2> QED
    BY <1>4, <2>1, <2>2 DEF CycleFails, TypeOK, AsleepHasRound, At, account
<1>5. CASE ExecBegin
  <2>1. PICK missed \in BOOLEAN :
          task' = [o \in Orders |->
                     IF At(o) = "queued" /\ ~IsKR(o) /\ Base(o) = 0 /\ (IsPrivate(o) \/ ~missed)
                     THEN [task[o] EXCEPT !.base = held[Ticker(o)]] ELSE task[o]]
    BY <1>5 DEF ExecBegin
  <2>2. \A o \in Orders : held[Ticker(o)] \in Nat
    BY <1>0 DEF Ticker, TypeOK
  <2>3. task' \in [Orders -> Tasks]
    BY <2>1, <2>2 DEF TypeOK, Tasks
  <2>4. \A o \in Orders : At(o)' = At(o) /\ task'[o].tries = task[o].tries
    BY <2>1 DEF At, TypeOK, Tasks
  <2> QED
    BY <1>5, <2>3, <2>4 DEF ExecBegin, TypeOK, AsleepHasRound, account
<1>6. CASE ExecEnd
  <2>1. \A o \in Orders : Moved(o, "polling") \in Tasks /\ Moved(o, "polling").at = "polling"
    BY DEF Moved, TypeOK, Tasks, Places, Polling, Decided
  <2>2. task' \in [Orders -> Tasks] /\ \A o \in Orders : task'[o] = task[o] \/ At(o)' = "polling"
    BY <1>6, <2>1 DEF ExecEnd, TypeOK, At
  <2> QED
    BY <1>6, <2>2 DEF ExecEnd, TypeOK, AsleepHasRound, At, account
<1>7. ASSUME NEW o \in Orders, ConfirmNow(o)
      PROVE  ITypeOK'
  <2>1. PICK st \in {"booked", "accepted"} : Goes(o, st)
    BY <1>7 DEF ConfirmNow, Book
  <2>2. st \in Places \ {"asleep"}
    BY DEF Places, InCycle, Polling, Decided
  <2>3. task' \in [Orders -> Tasks] /\ At(o)' = st /\ \A p \in Orders : p # o => task'[p] = task[p]
    BY <2>1, <2>2, GoesType DEF TypeOK
  <2>4. ledger' \in [Tickers -> Nat]
    BY <1>7, BookType DEF ConfirmNow, TypeOK
  <2>5. TypeOK'
    BY <1>7, <2>3, <2>4 DEF ConfirmNow, TypeOK, account
  <2> QED
    BY <2>2, <2>3, <2>5 DEF AsleepHasRound, At
<1>8. ASSUME NEW o \in Orders, PollJudge(o)
      PROVE  ITypeOK'
  <2>1. PICK st \in {"booked", "polling", "dropped"} : Goes(o, st)
    BY <1>8 DEF PollJudge, Book, Verdict
  <2>2. st \in Places \ {"asleep"}
    BY DEF Places, Polling, Decided
  <2>3. task' \in [Orders -> Tasks] /\ At(o)' = st /\ \A p \in Orders : p # o => task'[p] = task[p]
    BY <2>1, <2>2, GoesType DEF TypeOK
  <2>4. ledger' \in [Tickers -> Nat]
    BY <1>8, BookType DEF PollJudge, TypeOK
  <2>5. TypeOK'
    BY <1>8, <2>3, <2>4 DEF PollJudge, TypeOK, account
  <2> QED
    BY <2>2, <2>3, <2>5 DEF AsleepHasRound, At
<1>10. ASSUME NEW o \in Orders, PollRead(o)
       PROVE  ITypeOK'
  <2>1. task[o].tries < MaxAttempts
    BY <1>10 DEF PollRead, AsleepHasRound
  <2>2. PICK st \in {"sawMove", "sawNone", "polling"} :
          task' = [task EXCEPT ![o] = [at |-> st, base |-> Base(o), tries |-> CountAttempt(o)]]
    BY <1>10 DEF PollRead
  <2>3. CountAttempt(o) \in 0..MaxAttempts
    BY <1>0, <2>1 DEF CountAttempt, TypeOK, Tasks
  <2>4. task' \in [Orders -> Tasks] /\ At(o)' = st
    BY <2>2, <2>3 DEF TypeOK, Tasks, Places, Polling, At, Base
  <2> QED
    BY <1>10, <2>2, <2>4 DEF PollRead, TypeOK, AsleepHasRound, At, account
<1>11. ASSUME NEW o \in Orders, PollHead(o)
       PROVE  ITypeOK'
  <2>1. CASE task[o].tries < MaxAttempts /\ ~stopped
    <3>1. Goes(o, "asleep") /\ "asleep" \in Places \ Decided
      BY <1>11, <2>1 DEF PollHead, Move, Places, Polling, Decided
    <3>2. /\ task' \in [Orders -> Tasks]
          /\ task'[o].tries = task[o].tries
          /\ \A p \in Orders : p # o => task'[p] = task[p]
      BY <3>1, GoesType DEF TypeOK
    <3> QED
      BY <1>11, <2>1, <3>2 DEF PollHead, Move, TypeOK, AsleepHasRound, At, account
  <2>2. CASE ~(task[o].tries < MaxAttempts /\ ~stopped)
    <3>1. Move(o, "gaveUp")
      BY <1>11, <2>2 DEF PollHead
    <3> QED
      BY <3>1, <1>1 DEF Places, Decided
  <2> QED
    BY <2>1, <2>2
<1>12. CASE Stop \/ Crash
  <2>0. Forgotten("skipped") \in Tasks /\ Forgotten("lost") \in Tasks
    BY ForgottenType DEF Places, Decided
  <2>1. task' \in [Orders -> Tasks]
    BY <1>12, <2>0 DEF Stop, Crash, TypeOK
  <2>2. \A o \in Orders : task'[o] = task[o] \/ At(o)' \in {"skipped", "lost"}
    BY <1>12 DEF Stop, Crash, At, Forgotten
  <2> QED
    BY <1>12, <2>1, <2>2 DEF Stop, Crash, TypeOK, AsleepHasRound, At, account
<1>13. CASE Start
  BY <1>13 DEF Start, TypeOK, AsleepHasRound, At, account
<1>14. CASE World
  <2>1. CASE ClockMoves
    <3>1. Len(Day) \in Nat \ {0}
      BY ConstantsAssumption
    <3>2. clock' \in 1..Len(Day)
      BY <2>1, <3>1, SMT DEF ClockMoves, TypeOK
    <3> QED
      BY <2>1, <3>2 DEF ClockMoves, TypeOK, AsleepHasRound, At, account
  <2>2. ASSUME NEW o \in Orders, Expire(o)
        PROVE  ITypeOK'
    BY <2>2 DEF Expire, TypeOK, AsleepHasRound, At
  <2>3. ASSUME NEW o \in Orders, NEW n \in 1..sent[o], Fill(o, n)
        PROVE  ITypeOK'
    <3>1. n \in Nat /\ held[Ticker(o)] \in Nat /\ filled[o] \in Nat
      BY <1>0 DEF TypeOK, Ticker
    <3>2. IF IsBuy(o) THEN held[Ticker(o)] + n \in Nat ELSE held[Ticker(o)] - n \in Nat
      BY <2>3, <3>1 DEF Fill
    <3>3. filled' \in [Orders -> Nat]
      BY <2>3, <3>1 DEF Fill, TypeOK
    <3>4. held' \in [Tickers -> Nat]
      BY <2>3, <3>2 DEF Fill, TypeOK
    <3>5. live' \in [Orders -> BOOLEAN]
      BY <2>3 DEF Fill, TypeOK
    <3> QED
      BY <2>3, <3>3, <3>4, <3>5 DEF Fill, TypeOK, AsleepHasRound, At
  <2>4. ASSUME NEW t \in Tickers, NEW q \in 0..MaxHeld, HandTrade(t, q)
        PROVE  ITypeOK'
    BY <2>4 DEF HandTrade, TypeOK, AsleepHasRound, At
  <2> QED
    BY <1>14, <2>1, <2>2, <2>3, <2>4 DEF World
<1>15. CASE CycleStep
  <2>1. ASSUME NEW o \in Orders, HoldBack(o)
        PROVE  ITypeOK'
    BY <2>1, <1>1 DEF HoldBack, Places, Decided
  <2>2. ASSUME NEW o \in Orders, Send(o)
        PROVE  ITypeOK'
    <3>1. Sellable(o) \subseteq Nat
      BY <1>0 DEF Sellable, TypeOK, Tasks, Base
    <3>2. PICK s \in Sellable(o) \ {0} :
            Submit(o, Least(OrderQty[o], s), IF IsKR(o) THEN "confirming" ELSE "accepted")
      BY <2>2 DEF Send
    <3>3. Least(OrderQty[o], s) \in Nat \ {0}
      BY <1>0, <3>1, <3>2 DEF Least
    <3> QED
      BY <3>2, <3>3, <1>2
  <2> QED
    BY <1>15, <1>4, <1>5, <1>6, <2>1, <2>2 DEF CycleStep
<1>17. ASSUME NEW o \in Orders, PollBreaks(o)
       PROVE  ITypeOK'
  BY <1>1, <1>17 DEF PollBreaks, Places, Decided
<1>18. CASE UNCHANGED vars
  BY <1>18 DEF vars, account, TypeOK, AsleepHasRound, At
<1> QED
  BY <1>3, <1>7, <1>8, <1>10, <1>11, <1>12, <1>13, <1>14, <1>15, <1>17, <1>18
     DEF Next, PollStep

LEMMA TypeInit == Init => ITypeOK
<1> SUFFICES ASSUME Init PROVE ITypeOK
  OBVIOUS
<1>1. Forgotten("none") \in Tasks /\ Forgotten("none").at = "none"
  BY ForgottenType DEF Places
<1>2. task \in [Orders -> Tasks] /\ \A o \in Orders : At(o) = "none"
  BY <1>1 DEF Init, At
<1>3. clock \in 1..Len(Day)
  BY ConstantsAssumption, SMT DEF Init
<1>4. live \in [Orders -> BOOLEAN] /\ filled \in [Orders -> Nat]
  BY DEF Init
<1> QED
  BY <1>2, <1>3, <1>4, ConstantsAssumption DEF Init, ITypeOK, TypeOK, AsleepHasRound

\* Every variable of the flow keeps its type: in particular no fill poll makes
\* more than MaxAttempts rounds and no position in the ledger turns negative.
THEOREM TypeCorrect == Spec => []TypeOK
<1>1. ITypeOK /\ [Next]_vars => ITypeOK'
  BY TypeStep
<1>2. ITypeOK => TypeOK
  BY DEF ITypeOK
<1> QED
  BY <1>1, <1>2, TypeInit, PTL DEF Spec
----------------------------------------------------------------------------
(* Quiet tickers: the inductive invariant.                                 *)

Unsent == {"none", "queued", "skipped"}

\* The account read an order is judged against has been made for it.
Based == {"queued", "accepted", "confirming"} \cup Polling

\* At most one order of a quiet ticker is unsettled.
OneAtATime ==
  \A o, p \in Orders :
    IsQuiet(o) /\ Ticker(p) = Ticker(o) /\ p # o => Settled(o) \/ Settled(p)

\* An order that was not sent neither stands at the exchange nor executed.
UnsentIsIdle == \A o \in Orders : At(o) \in Unsent => ~live[o] /\ filled[o] = 0

\* A quiet order executes whole or not at all.
QuietFillsAreWhole ==
  \A o \in Orders : IsQuiet(o) => /\ filled[o] \in {0, sent[o]}
                                  /\ live[o] => filled[o] = 0

\* While a quiet order is followed, the account has moved from its base by
\* what the order executed.
BaseIsExact ==
  \A o \in Orders :
    IsQuiet(o) /\ At(o) \in Based =>
      IF IsBuy(o) THEN held[Ticker(o)] = Base(o) + filled[o]
      ELSE held[Ticker(o)] + filled[o] = Base(o)

\* What a quiet order's poll saw, and what was booked, did happen.
SeenIsFilled ==
  \A o \in Orders : IsQuiet(o) /\ At(o) \in {"sawMove", "booked"} => filled[o] = sent[o]

QuietInv == /\ OneAtATime
            /\ UnsentIsIdle
            /\ QuietFillsAreWhole
            /\ BaseIsExact
            /\ SeenIsFilled

\* Tasks that move while the account stays as it is.
LEMMA TaskMoves ==
  ASSUME ITypeOK, QuietInv, UNCHANGED account,
         \A o \in Orders :
           \/ task'[o] = task[o]
           \/ /\ At(o) \notin Decided \cup {"none"}
              /\ At(o)' \in Unsent => At(o) \in Unsent
              /\ IsQuiet(o) /\ At(o)' \in Based =>
                   \/ Base(o)' = Base(o) /\ At(o) \in Based
                   \/ Base(o)' = held[Ticker(o)] /\ filled[o] = 0
              /\ IsQuiet(o) /\ At(o)' \in {"sawMove", "booked"} => filled[o] = sent[o]
  PROVE  QuietInv'
<1> USE DEF account
<1>1. OneAtATime'
  BY DEF QuietInv, OneAtATime, Settled, IsQuiet, Ticker, At
<1>2. UnsentIsIdle'
  BY DEF QuietInv, UnsentIsIdle, At
<1>3. QuietFillsAreWhole'
  BY DEF QuietInv, QuietFillsAreWhole, IsQuiet, Ticker
<1>4. BaseIsExact'
  <2> SUFFICES ASSUME NEW o \in Orders, IsQuiet(o), At(o)' \in Based
               PROVE  IF IsBuy(o) THEN held[Ticker(o)] = Base(o)' + filled[o]
                      ELSE held[Ticker(o)] + filled[o] = Base(o)'
    BY DEF BaseIsExact, IsQuiet, IsBuy, Ticker
  <2>1. CASE Base(o)' = Base(o) /\ At(o) \in Based
    BY <2>1 DEF QuietInv, BaseIsExact
  <2>2. CASE Base(o)' = held[Ticker(o)] /\ filled[o] = 0
    <3>1. held[Ticker(o)] \in Nat
      BY ConstantsAssumption DEF ITypeOK, TypeOK, Ticker
    <3> QED
      BY <2>2, <3>1
  <2> QED
    BY <2>1, <2>2 DEF At, Base
<1>5. SeenIsFilled'
  BY DEF QuietInv, SeenIsFilled, At, IsQuiet, Ticker
<1> QED
  BY <1>1, <1>2, <1>3, <1>4, <1>5 DEF QuietInv

\* One task that moves on without a new base.
LEMMA OneMoves ==
  ASSUME ITypeOK, QuietInv, UNCHANGED account,
         NEW o \in Orders, NEW st \in Places, Goes(o, st),
         At(o) \notin Decided \cup {"none"},
         st \in Unsent => At(o) \in Unsent,
         st \in Based => At(o) \in Based,
         IsQuiet(o) /\ st \in {"sawMove", "booked"} => filled[o] = sent[o]
  PROVE  QuietInv'
<1>1. /\ task' \in [Orders -> Tasks]
      /\ At(o)' = st
      /\ st \in Decided \/ (Base(o)' = Base(o) /\ task'[o].tries = task[o].tries)
      /\ \A p \in Orders : p # o => task'[p] = task[p]
  BY GoesType DEF ITypeOK, TypeOK
<1>2. Based \cap Decided = {}
  BY DEF Based, Polling, Decided
<1> QED
  BY <1>1, <1>2, TaskMoves

\* What a read of a quiet ticker tells.
LEMMA MoveIsFill ==
  ASSUME ITypeOK, QuietInv, NEW o \in Orders, IsQuiet(o), At(o) \in Based,
         NEW after \in Reads(o), TrulyFilled(o, after)
  PROVE  filled[o] = sent[o]
<1>1. IsPrivate(o)
  BY ConstantsAssumption DEF IsQuiet, IsPrivate
<1>2. after = held[Ticker(o)]
  BY <1>1 DEF Reads
<1>3. held[Ticker(o)] \in Nat /\ Base(o) \in Nat /\ filled[o] \in Nat
  BY ConstantsAssumption DEF ITypeOK, TypeOK, Ticker, Base, Tasks
<1>4. filled[o] # 0
  BY <1>2, <1>3, SMT DEF QuietInv, BaseIsExact, TrulyFilled
<1> QED
  BY <1>4 DEF QuietInv, QuietFillsAreWhole

\* Every step of a task that reads, judges or gives up, and every step that
\* leaves the account alone.
LEMMA QuietTaskStep ==
  ASSUME ITypeOK, QuietInv, UNCHANGED account,
         \/ CycleFails \/ ExecBegin \/ ExecEnd
         \/ \E o \in Orders : HoldBack(o) \/ ConfirmNow(o) \/ PollStep(o) \/ PollBreaks(o)
         \/ Stop \/ Start \/ Crash \/ ClockMoves \/ UNCHANGED vars
  PROVE  QuietInv'
<1> USE DEF Unsent, Based, InCycle, Polling, Decided
<1>0. task \in [Orders -> Tasks]
  BY DEF ITypeOK, TypeOK
<1>1. CASE CycleFails
  <2>1. \A o \in Orders : \/ task'[o] = task[o]
                          \/ At(o) = "queued" /\ At(o)' = "skipped"
    BY <1>1 DEF CycleFails, At, Forgotten
  <2> QED
    BY <2>1, TaskMoves
<1>2. CASE ExecBegin
  <2>1. PICK missed \in BOOLEAN :
          task' = [o \in Orders |->
                     IF At(o) = "queued" /\ ~IsKR(o) /\ Base(o) = 0 /\ (IsPrivate(o) \/ ~missed)
                     THEN [task[o] EXCEPT !.base = held[Ticker(o)]] ELSE task[o]]
    BY <1>2 DEF ExecBegin
  <2>2. \A o \in Orders :
          \/ task'[o] = task[o]
          \/ At(o) = "queued" /\ At(o)' = "queued" /\ Base(o)' = held[Ticker(o)]
    BY <1>0, <2>1 DEF At, Base, Tasks
  <2>3. \A o \in Orders : At(o) = "queued" => filled[o] = 0
    BY DEF QuietInv, UnsentIsIdle
  <2> QED
    BY <2>2, <2>3, TaskMoves
<1>3. CASE ExecEnd
  <2>1. \A o \in Orders : \/ task'[o] = task[o]
                          \/ /\ At(o) = "accepted" /\ At(o)' = "polling"
                             /\ Base(o)' = Base(o)
    BY <1>0, <1>3 DEF ExecEnd, At, Base, Moved, Tasks
  <2> QED
    BY <2>1, TaskMoves
<1>4. ASSUME NEW o \in Orders, HoldBack(o)
      PROVE  QuietInv'
  <2>1. Goes(o, "skipped")
    BY <1>4 DEF HoldBack, Move
  <2>2. At(o) = "queued"
    BY <1>4 DEF HoldBack, Turn
  <2> QED
    BY <2>1, <2>2, OneMoves DEF Places
<1>7. ASSUME NEW o \in Orders, ConfirmNow(o)
      PROVE  QuietInv'
  <2>1. At(o) = "confirming"
    BY <1>7 DEF ConfirmNow
  <2>2. PICK after \in Reads(o) :
          IF TrulyFilled(o, after) THEN Book(o)
          ELSE Goes(o, "accepted")
    BY <1>7 DEF ConfirmNow
  <2>3. CASE TrulyFilled(o, after)
    <3>1. Goes(o, "booked")
      BY <2>2, <2>3 DEF Book
    <3>2. IsQuiet(o) => filled[o] = sent[o]
      BY <2>1, <2>3, MoveIsFill
    <3> QED
      BY <2>1, <3>1, <3>2, OneMoves DEF Places
  <2>4. CASE ~TrulyFilled(o, after)
    <3>1. Goes(o, "accepted")
      BY <2>2, <2>4
    <3> QED
      BY <2>1, <3>1, OneMoves DEF Places
  <2> QED
    BY <2>3, <2>4
<1>8. ASSUME NEW o \in Orders, PollHead(o)
      PROVE  QuietInv'
  <2>1. PICK st \in {"asleep", "gaveUp"} : Goes(o, st)
    BY <1>8 DEF PollHead, Move
  <2>2. At(o) = "polling"
    BY <1>8 DEF PollHead
  <2> QED
    BY <2>1, <2>2, OneMoves DEF Places
<1>9. ASSUME NEW o \in Orders, PollRead(o)
      PROVE  QuietInv'
  <2>1. At(o) = "asleep"
    BY <1>9 DEF PollRead
  <2>2. PICK st \in {IF TrulyFilled(o, after) THEN "sawMove" ELSE "sawNone" : after \in Reads(o)}
                      \cup IF IsPrivate(o) THEN {} ELSE {"polling"} :
          task' = [task EXCEPT ![o] = [at |-> st, base |-> Base(o), tries |-> CountAttempt(o)]]
    BY <1>9 DEF PollRead
  <2>3. IsQuiet(o) /\ st = "sawMove" => filled[o] = sent[o]
    BY <2>1, <2>2, MoveIsFill
  <2>4. /\ At(o)' = st /\ st \in {"sawMove", "sawNone", "polling"}
        /\ Base(o)' = Base(o)
        /\ \A p \in Orders : p # o => task'[p] = task[p]
    BY <1>0, <2>2 DEF At, Base
  <2> QED
    BY <2>1, <2>3, <2>4, TaskMoves
<1>10. ASSUME NEW o \in Orders, PollJudge(o)
       PROVE  QuietInv'
  <2>1. At(o) \in {"sawMove", "sawNone"}
    BY <1>10 DEF PollJudge
  <2>2. PICK st \in {"booked", "dropped", "polling"} :
          Goes(o, st) /\ (st = "booked" => At(o) = "sawMove")
    BY <1>10 DEF PollJudge, Book, Verdict
  <2>3. IsQuiet(o) /\ st = "booked" => filled[o] = sent[o]
    BY <2>2 DEF QuietInv, SeenIsFilled
  <2> QED
    BY <2>1, <2>2, <2>3, OneMoves DEF Places
<1>11. CASE Stop
  <2>1. \A o \in Orders : \/ task'[o] = task[o]
                          \/ At(o) = "queued" /\ At(o)' = "skipped"
                          \/ At(o) \in {"accepted", "confirming"} /\ At(o)' = "lost"
    BY <1>11 DEF Stop, At, Forgotten
  <2> QED
    BY <2>1, TaskMoves
<1>12. CASE Crash
  <2>1. \A o \in Orders : \/ task'[o] = task[o]
                          \/ /\ At(o) \notin Decided \cup {"none"}
                             /\ \/ At(o)' = "lost"
                                \/ At(o) \in Unsent /\ At(o)' = "skipped"
    BY <1>12 DEF Crash, At, Forgotten
  <2> QED
    BY <2>1, TaskMoves
<1>13. CASE Start \/ ClockMoves \/ UNCHANGED vars
  BY <1>13, TaskMoves DEF Start, ClockMoves, vars
<1>14. ASSUME NEW o \in Orders, PollBreaks(o)
       PROVE  QuietInv'
  BY <1>14, OneMoves DEF PollBreaks, Move, Places
<1> QED
  BY <1>1, <1>2, <1>3, <1>4, <1>7, <1>8, <1>9, <1>10, <1>11, <1>12, <1>13, <1>14
     DEF PollStep

\* A cycle judges the orders it drafts against the holdings it has just read.
LEMMA QuietCycleBegin ==
  ASSUME ITypeOK, QuietInv, NEW S \in SUBSET Orders, CycleBegin(S)
  PROVE  QuietInv'
<1> USE DEF account, CycleBegin
<1>1. PICK missed \in BOOLEAN :
        task' = [o \in Orders |->
                   IF o \notin S THEN task[o]
                   ELSE [at |-> "queued", tries |-> 0,
                         base |-> IF missed /\ ~IsPrivate(o) THEN 0 ELSE held[Ticker(o)]]]
  OBVIOUS
<1>2. \A o \in Orders :
        \/ o \notin S /\ task'[o] = task[o]
        \/ /\ o \in S /\ At(o) = "none" /\ At(o)' = "queued"
           /\ IsQuiet(o) => Base(o)' = held[Ticker(o)]
  BY <1>1, ConstantsAssumption DEF At, Base, IsQuiet, IsPrivate
<1>3. \A o \in S : ~live[o] /\ filled[o] = 0
  BY DEF QuietInv, UnsentIsIdle, Unsent
<1>4. OneAtATime'
  <2> SUFFICES ASSUME NEW o \in Orders, NEW p \in Orders,
                      IsQuiet(o), Ticker(p) = Ticker(o), p # o
               PROVE  Settled(o)' \/ Settled(p)'
    BY DEF OneAtATime, IsQuiet, Ticker
  <2>1. CASE o \in S
    BY <1>2, <2>1 DEF Settled, At
  <2>2. CASE p \in S
    BY <1>2, <2>2 DEF Settled, At, IsQuiet, Ticker
  <2>3. CASE o \notin S /\ p \notin S
    BY <1>2, <2>3 DEF QuietInv, OneAtATime, Settled, At
  <2> QED
    BY <2>1, <2>2, <2>3
<1>5. UnsentIsIdle'
  BY <1>2, <1>3 DEF QuietInv, UnsentIsIdle, At
<1>6. QuietFillsAreWhole'
  BY DEF QuietInv, QuietFillsAreWhole, IsQuiet, Ticker
<1>7. BaseIsExact'
  <2> SUFFICES ASSUME NEW o \in Orders, IsQuiet(o), At(o)' \in Based
               PROVE  IF IsBuy(o) THEN held[Ticker(o)] = Base(o)' + filled[o]
                      ELSE held[Ticker(o)] + filled[o] = Base(o)'
    BY DEF BaseIsExact, IsQuiet, IsBuy, Ticker
  <2>1. held[Ticker(o)] \in Nat
    BY ConstantsAssumption DEF ITypeOK, TypeOK, Ticker
  <2>2. CASE o \in S
    BY <1>2, <1>3, <2>1, <2>2
  <2>3. CASE o \notin S
    BY <1>2, <2>3 DEF QuietInv, BaseIsExact, At, Base
  <2> QED
    BY <2>2, <2>3
<1>8. SeenIsFilled'
  BY <1>2 DEF QuietInv, SeenIsFilled, At, IsQuiet, Ticker
<1> QED
  BY <1>4, <1>5, <1>6, <1>7, <1>8 DEF QuietInv

\* An order goes to the exchange: only it can begin to stand there.
LEMMA QuietSubmit ==
  ASSUME ITypeOK, QuietInv, NEW o \in Orders, NEW q \in Nat \ {0},
         NEW next \in {"confirming", "accepted", "polling"},
         Submit(o, q, next), At(o) = "queued"
  PROVE  QuietInv'
<1> USE DEF Submit
<1>1. PICK st \in {next, "failed"} : Goes(o, st)
  OBVIOUS
<1>2. st \in {"confirming", "accepted", "polling", "failed"} /\ st \in Places
  BY <1>1 DEF Places, InCycle, Polling, Decided
<1>3. /\ At(o)' = st
      /\ st = "failed" \/ Base(o)' = Base(o)
      /\ \A p \in Orders : p # o => task'[p] = task[p]
  BY <1>1, <1>2, GoesType DEF ITypeOK, TypeOK, Decided
<1>4. \A p \in Orders : p # o /\ live'[p] => live[p]
  BY DEF ITypeOK, TypeOK
<1>5. \A p \in Orders : p # o => sent'[p] = sent[p]
  BY DEF ITypeOK, TypeOK
<1>6. ~live[o] /\ filled[o] = 0 /\ ~Settled(o)
  BY DEF QuietInv, UnsentIsIdle, Unsent, Settled, Decided
<1>7. UNCHANGED <<held, filled>>
  OBVIOUS
<1>8. OneAtATime'
  <2>1. \A p \in Orders : p # o /\ Settled(p) => Settled(p)'
    BY <1>3, <1>4 DEF Settled, At, ITypeOK, TypeOK
  <2> QED
    BY <1>6, <2>1 DEF QuietInv, OneAtATime, IsQuiet, Ticker
<1>9. UnsentIsIdle'
  BY <1>2, <1>3, <1>4, <1>7 DEF QuietInv, UnsentIsIdle, Unsent, At, ITypeOK, TypeOK
<1>10. QuietFillsAreWhole'
  BY <1>4, <1>5, <1>6, <1>7 DEF QuietInv, QuietFillsAreWhole, IsQuiet, Ticker, ITypeOK, TypeOK
<1>11. BaseIsExact'
  BY <1>2, <1>3, <1>7
     DEF QuietInv, BaseIsExact, Based, Polling, InCycle, At, Base, IsQuiet, IsBuy, Ticker
<1>12. SeenIsFilled'
  BY <1>2, <1>3, <1>5, <1>7 DEF QuietInv, SeenIsFilled, At, IsQuiet, Ticker
<1> QED
  BY <1>8, <1>9, <1>10, <1>11, <1>12 DEF QuietInv

\* The exchange executes an order: of a quiet ticker no other one is followed.
LEMMA QuietFill ==
  ASSUME ITypeOK, QuietInv, NEW o \in Orders, NEW n \in Nat, Fill(o, n)
  PROVE  QuietInv'
<1> USE DEF Fill
<1>0. /\ held \in [Tickers -> Nat] /\ filled \in [Orders -> Nat]
      /\ sent \in [Orders -> Nat \ {0}] /\ live \in [Orders -> BOOLEAN]
      /\ Ticker(o) \in Tickers
  BY ConstantsAssumption DEF ITypeOK, TypeOK, Ticker
<1>1. /\ \A p \in Orders : p # o => live'[p] = live[p] /\ filled'[p] = filled[p]
      /\ filled'[o] = filled[o] + n
      /\ \A p \in Orders : At(p)' = At(p) /\ Base(p)' = Base(p)
      /\ UNCHANGED sent
  BY <1>0 DEF At, Base
<1>2. IsQuiet(o) => filled[o] = 0 /\ n = sent[o] /\ ~live'[o]
  <2>1. IsQuiet(o) => filled[o] = 0 /\ n = sent[o]
    BY DEF QuietInv, QuietFillsAreWhole
  <2>2. live'[o] = (filled[o] + n < sent[o])
    BY <1>0
  <2>3. IsQuiet(o) => ~(filled[o] + n < sent[o])
    BY <1>0, <2>1
  <2> QED
    BY <2>1, <2>2, <2>3
<1>3. ~Settled(o)
  BY DEF Settled
<1>4. \A p \in Orders : live'[p] => live[p]
  BY <1>1
<1>5. OneAtATime'
  <2>1. \A p \in Orders : Settled(p) => Settled(p)'
    BY <1>1, <1>4 DEF Settled
  <2> QED
    BY <2>1 DEF QuietInv, OneAtATime, IsQuiet, Ticker
<1>6. UnsentIsIdle'
  BY <1>1, <1>4 DEF QuietInv, UnsentIsIdle
<1>7. QuietFillsAreWhole'
  BY <1>0, <1>1, <1>2 DEF QuietInv, QuietFillsAreWhole, IsQuiet, Ticker
<1>8. BaseIsExact'
  <2> SUFFICES ASSUME NEW p \in Orders, IsQuiet(p), At(p) \in Based
               PROVE  IF IsBuy(p) THEN held'[Ticker(p)] = Base(p) + filled'[p]
                      ELSE held'[Ticker(p)] + filled'[p] = Base(p)
    BY <1>1 DEF BaseIsExact, IsQuiet, IsBuy, Ticker
  <2>1. /\ Ticker(p) \in Tickers /\ held[Ticker(p)] \in Nat
        /\ filled[p] \in Nat /\ Base(p) \in Nat
    BY <1>0, ConstantsAssumption DEF Ticker, Base, ITypeOK, TypeOK, Tasks
  <2>2. CASE p = o
    <3>1. held'[Ticker(o)] = IF IsBuy(o) THEN held[Ticker(o)] + n ELSE held[Ticker(o)] - n
      BY <1>0
    <3> QED
      BY <1>1, <2>1, <2>2, <3>1 DEF QuietInv, BaseIsExact
  <2>3. CASE p # o
    <3>1. ~Settled(p)
      BY DEF Settled, Based, InCycle, Polling, Decided
    <3>2. Ticker(p) # Ticker(o)
      BY <1>3, <2>3, <3>1 DEF QuietInv, OneAtATime
    <3>3. held'[Ticker(p)] = held[Ticker(p)]
      BY <1>0, <2>1, <3>2
    <3> QED
      BY <1>1, <2>3, <3>3 DEF QuietInv, BaseIsExact
  <2> QED
    BY <2>2, <2>3
<1>9. SeenIsFilled'
  <2> SUFFICES ASSUME NEW p \in Orders, IsQuiet(p), At(p) \in {"sawMove", "booked"}
               PROVE  filled'[p] = sent[p]
    BY <1>1 DEF SeenIsFilled, IsQuiet, Ticker
  <2>1. filled[p] = sent[p]
    BY DEF QuietInv, SeenIsFilled
  <2>2. p # o
    BY <1>0, <1>2, <2>1
  <2> QED
    BY <1>1, <2>1, <2>2
<1> QED
  BY <1>5, <1>6, <1>7, <1>8, <1>9 DEF QuietInv

\* The rest of the world: expiry, and the user's trades in other tickers.
LEMMA QuietExpire ==
  ASSUME ITypeOK, QuietInv, NEW o \in Orders, Expire(o)
  PROVE  QuietInv'
<1>1. \A p \in Orders : live'[p] => live[p]
  BY DEF Expire, ITypeOK, TypeOK
<1>2. UNCHANGED <<held, filled, sent, task>>
  BY DEF Expire
<1> QED
  BY <1>1, <1>2 DEF QuietInv, OneAtATime, UnsentIsIdle, QuietFillsAreWhole, BaseIsExact,
                    SeenIsFilled, Settled, IsQuiet, IsBuy, Ticker, At, Base, Expire, ITypeOK, TypeOK

LEMMA QuietHandTrade ==
  ASSUME ITypeOK, QuietInv, NEW t \in Tickers, NEW q \in Nat, HandTrade(t, q)
  PROVE  QuietInv'
<1>1. \A o \in Orders : IsQuiet(o) => held'[Ticker(o)] = held[Ticker(o)]
  BY ConstantsAssumption DEF HandTrade, IsQuiet, Ticker, ITypeOK, TypeOK
<1>2. UNCHANGED <<live, filled, sent, task>>
  BY DEF HandTrade
<1> QED
  BY <1>1, <1>2 DEF QuietInv, OneAtATime, UnsentIsIdle, QuietFillsAreWhole, BaseIsExact,
                    SeenIsFilled, Settled, IsQuiet, IsBuy, Ticker, At, Base

LEMMA QuietStep ==
  ASSUME ITypeOK, QuietInv, [Next]_vars
  PROVE  QuietInv'
<1>1. ASSUME NEW o \in Orders, Send(o)
      PROVE  QuietInv'
  <2>1. PICK s \in Sellable(o) \ {0} :
          Submit(o, Least(OrderQty[o], s), IF IsKR(o) THEN "confirming" ELSE "accepted")
    BY <1>1 DEF Send
  <2>2. Sellable(o) \subseteq Nat /\ OrderQty[o] \in Nat \ {0}
    BY ConstantsAssumption DEF Sellable, ITypeOK, TypeOK, Tasks, Base
  <2>3. Least(OrderQty[o], s) \in Nat \ {0}
    BY <2>1, <2>2 DEF Least
  <2> QED
    BY <1>1, <2>1, <2>3, QuietSubmit DEF Send, Turn
<1>3. ASSUME NEW o \in Orders, NEW n \in 1..sent[o], Fill(o, n)
      PROVE  QuietInv'
  BY <1>3, QuietFill DEF ITypeOK, TypeOK
<1>4. ASSUME NEW t \in Tickers, NEW q \in 0..MaxHeld, HandTrade(t, q)
      PROVE  QuietInv'
  BY <1>4, QuietHandTrade
<1>5. CASE CycleStep
  BY <1>1, <1>5, QuietTaskStep
     DEF CycleStep, CycleFails, ExecBegin, ExecEnd, HoldBack, Move, account
<1>6. ASSUME NEW o \in Orders,
             ConfirmNow(o) \/ PollStep(o) \/ PollBreaks(o)
      PROVE  QuietInv'
  BY <1>6, QuietTaskStep
     DEF ConfirmNow, PollStep, PollHead, PollRead, PollJudge, PollBreaks, Move, account
<1>7. CASE Stop \/ Start \/ Crash \/ ClockMoves \/ UNCHANGED vars
  BY <1>7, QuietTaskStep DEF Stop, Start, Crash, ClockMoves, vars, account
<1>8. CASE World
  BY <1>3, <1>4, <1>7, <1>8, QuietExpire DEF World
<1> QED
  BY <1>5, <1>6, <1>7, <1>8, QuietCycleBegin DEF Next

LEMMA QuietInit == Init => QuietInv
<1> SUFFICES ASSUME Init PROVE QuietInv
  OBVIOUS
<1>1. \A o \in Orders : At(o) = "none" /\ ~live[o] /\ filled[o] = 0
  BY DEF Init, At, Forgotten
<1> QED
  BY <1>1 DEF QuietInv, OneAtATime, UnsentIsIdle, QuietFillsAreWhole, BaseIsExact, SeenIsFilled,
              Settled, Based, InCycle, Polling

\* The inductive invariant of the flow.
THEOREM Invariance == Spec => [](ITypeOK /\ QuietInv)
<1>1. ITypeOK /\ QuietInv /\ [Next]_vars => (ITypeOK /\ QuietInv)'
  BY TypeStep, QuietStep
<1> QED
  BY <1>1, TypeInit, QuietInit, PTL DEF Spec

\* Whatever polls, cycles, stops, restarts and the market do in
\* between: an order on a quiet ticker that was counted as a fill did fill, and
\* for the quantity that was booked.
THEOREM QuietBookingsCorrect == Spec => []QuietBookingsAreFills
<1>1. QuietInv => QuietBookingsAreFills
  BY DEF QuietInv, SeenIsFilled, QuietBookingsAreFills
<1> QED
  BY <1>1, Invariance, PTL

----------------------------------------------------------------------------
(* What a step does to books and account.                                  *)

\* What a step is for the books: it changes neither the account nor a book,
\* books one order, executes one, or is a hand's trade.
BooksNone == /\ UNCHANGED <<held, filled, ledger>>
             /\ \A o \in Orders : /\ At(o)' = "booked" <=> At(o) = "booked"
                                  /\ At(o) = "booked" => sent'[o] = sent[o]
BooksOne(o) == /\ Book(o) /\ At(o) # "booked"
               /\ IsQuiet(o) => filled[o] = sent[o]
               /\ UNCHANGED <<held, filled, sent>>
FillsOne == \E o \in Orders : \E n \in 1..sent[o] : Fill(o, n)
HandTrades == \E t \in Tickers, q \in 0..MaxHeld : HandTrade(t, q)

LEMMA StepKinds ==
  ASSUME ITypeOK, QuietInv, [Next]_vars
  PROVE  BooksNone \/ (\E o \in Orders : BooksOne(o)) \/ FillsOne \/ HandTrades
<1> USE DEF account
<1>0. task \in [Orders -> Tasks]
  BY DEF ITypeOK, TypeOK
<1>1. ASSUME NEW o \in Orders, NEW st \in Places \ {"booked"}, Goes(o, st), At(o) # "booked",
             UNCHANGED <<held, filled, ledger>>,
             \A p \in Orders : p # o => sent'[p] = sent[p]
      PROVE  BooksNone
  <2>1. At(o)' = st /\ \A p \in Orders : p # o => task'[p] = task[p]
    BY <1>0, <1>1, GoesType
  <2> QED
    BY <1>1, <2>1 DEF BooksNone, At
<1>2. ASSUME UNCHANGED <<held, filled, ledger, sent>>,
             \A o \in Orders : \/ task'[o] = task[o]
                               \/ At(o) # "booked" /\ At(o)' # "booked"
      PROVE  BooksNone
  BY <1>2 DEF BooksNone, At
<1>3. ASSUME NEW S \in SUBSET Orders, CycleBegin(S)
      PROVE  BooksNone
  BY <1>2, <1>3 DEF CycleBegin, At
<1>4. CASE CycleFails \/ Stop \/ Crash
  BY <1>2, <1>4 DEF CycleFails, Stop, Crash, At, Forgotten, Decided, InCycle
<1>5. CASE ExecBegin
  <2>1. \A o \in Orders : task'[o] = task[o] \/ (At(o) = "queued" /\ At(o)' = "queued")
    BY <1>0, <1>5 DEF ExecBegin, At, Tasks
  <2> QED
    BY <1>2, <1>5, <2>1 DEF ExecBegin
<1>6. CASE ExecEnd
  <2>1. \A o \in Orders : task'[o] = task[o] \/ (At(o) = "accepted" /\ At(o)' = "polling")
    BY <1>0, <1>6 DEF ExecEnd, At, Moved, Tasks, Decided
  <2> QED
    BY <1>2, <1>6, <2>1 DEF ExecEnd
<1>7. ASSUME NEW o \in Orders, ConfirmNow(o)
      PROVE  BooksNone \/ BooksOne(o)
  <2>1. At(o) = "confirming" /\ UNCHANGED <<held, filled, sent>>
    BY <1>7 DEF ConfirmNow
  <2>2. PICK after \in Reads(o) :
          IF TrulyFilled(o, after) THEN Book(o)
          ELSE Goes(o, "accepted") /\ UNCHANGED ledger
    BY <1>7 DEF ConfirmNow
  <2>3. CASE TrulyFilled(o, after)
    <3>1. IsQuiet(o) => filled[o] = sent[o]
      BY <2>1, <2>3, MoveIsFill DEF Based
    <3> QED
      BY <2>1, <2>2, <2>3, <3>1 DEF BooksOne
  <2>4. CASE ~TrulyFilled(o, after)
    <3>1. Goes(o, "accepted") /\ UNCHANGED ledger
      BY <2>2, <2>4
    <3> QED
      BY <1>1, <2>1, <3>1 DEF Places, InCycle, Polling
  <2> QED
    BY <2>3, <2>4
<1>8. ASSUME NEW o \in Orders, PollJudge(o)
      PROVE  BooksNone \/ BooksOne(o)
  <2>1. At(o) \in {"sawMove", "sawNone"} /\ UNCHANGED <<held, filled, sent>>
    BY <1>8 DEF PollJudge
  <2>2. CASE At(o) = "sawMove"
    <3>1. Book(o)
      BY <1>8, <2>2 DEF PollJudge, Verdict
    <3>2. IsQuiet(o) => filled[o] = sent[o]
      BY <2>2 DEF QuietInv, SeenIsFilled
    <3> QED
      BY <2>1, <3>1, <3>2 DEF BooksOne
  <2>3. CASE At(o) = "sawNone"
    <3>1. PICK st \in {"dropped", "polling"} : Goes(o, st) /\ UNCHANGED ledger
      BY <1>8, <2>3 DEF PollJudge, Verdict
    <3> QED
      BY <1>1, <2>1, <3>1 DEF Places, Polling, Decided
  <2> QED
    BY <2>1, <2>2, <2>3
<1>10. ASSUME NEW o \in Orders, PollHead(o) \/ PollRead(o)
       PROVE  BooksNone
  <2>1. CASE PollHead(o)
    <3>1. PICK st \in {"asleep", "gaveUp"} : Goes(o, st)
      BY <2>1 DEF PollHead, Move
    <3> QED
      BY <1>1, <2>1, <3>1 DEF PollHead, Move, Places, Polling, Decided
  <2>2. CASE PollRead(o)
    <3>1. \A p \in Orders : task'[p] = task[p] \/ (At(p) = "asleep" /\ At(p)' # "booked")
      BY <1>0, <2>2 DEF PollRead, At
    <3> QED
      BY <1>2, <2>2, <3>1 DEF PollRead
  <2> QED
    BY <1>10, <2>1, <2>2
<1>11. ASSUME NEW o \in Orders, HoldBack(o)
       PROVE  BooksNone
  BY <1>1, <1>11 DEF HoldBack, Turn, Move, Places, Decided
<1>12. ASSUME NEW o \in Orders, Send(o)
       PROVE  BooksNone
  <2>1. PICK q \in {Least(OrderQty[o], s) : s \in Sellable(o) \ {0}} :
          Submit(o, q, IF IsKR(o) THEN "confirming" ELSE "accepted")
    BY <1>12 DEF Send
  <2>2. PICK st \in {"confirming", "accepted", "failed"} : Goes(o, st)
    BY <2>1 DEF Submit
  <2>3. \A p \in Orders : p # o => sent'[p] = sent[p]
    BY <2>1 DEF Submit, ITypeOK, TypeOK
  <2> QED
    BY <1>1, <1>12, <2>1, <2>2, <2>3 DEF Submit, Send, Turn, Places, InCycle, Decided
<1>13. CASE World
  <2>1. CASE ClockMoves
    BY <1>2, <2>1 DEF ClockMoves
  <2>2. ASSUME NEW o \in Orders, Expire(o)
        PROVE  BooksNone
    BY <1>2, <2>2 DEF Expire
  <2> QED
    BY <1>13, <2>1, <2>2 DEF World, FillsOne, HandTrades
<1>14. ASSUME NEW o \in Orders, PollBreaks(o)
       PROVE  BooksNone
  BY <1>1, <1>14 DEF PollBreaks, Move, Places, Decided
<1>15. CASE Start \/ UNCHANGED vars
  BY <1>2, <1>15 DEF Start, vars
<1> QED
  BY <1>3, <1>4, <1>5, <1>6, <1>7, <1>8, <1>10, <1>11, <1>12, <1>13, <1>14, <1>15
     DEF Next, CycleStep, PollStep

----------------------------------------------------------------------------
(* Quiet tickers: the ledger and the account.                              *)

\* The orders of a ticker and side that no fill was booked of, and what of
\* them did execute.
Open(t, side) == {o \in Orders : Ticker(o) = t /\ OrderSide[o] = side /\ At(o) # "booked"}
Unentered(t, side) == SumOf(filled, Open(t, side))

Balanced(t) == held[t] + Unentered(t, "sell") = ledger[t] + Unentered(t, "buy")

\* The position covers every sale that may still be booked: apply_fill's floor
\* is never reached.
CoversSales(t) == SumOf(OrderQty, Open(t, "sell")) <= ledger[t]

Covered(t) == SumOf(OrderQty, {o \in Orders : Ticker(o) = t /\ ~IsBuy(o)}) <= InitHeld[t]

Clamped == \A o \in Orders : sent[o] <= OrderQty[o]

BookInv == /\ Clamped
           /\ \A t \in Quiet : Covered(t) => Balanced(t) /\ CoversSales(t)

LEMMA OpenIsFinite ==
  ASSUME NEW t, NEW side
  PROVE  IsFiniteSet(Open(t, side))
BY FiniteOrders, FS_Subset DEF Open

LEMMA QuietLedgerIsBalanced == BookInv => QuietLedgerExact
<1>1. \A t : SellsCovered(t) <=> Covered(t)
  BY DEF SellsCovered, Covered, SumOf
<1> QED
  BY <1>1 DEF BookInv, QuietLedgerExact, Balanced, Unentered, Open, SumOf

LEMMA LedgerFrame ==
  ASSUME NEW t \in Quiet, UNCHANGED filled, held'[t] = held[t], ledger'[t] = ledger[t],
         \A o \in Orders : Ticker(o) = t => (At(o)' = "booked" <=> At(o) = "booked"),
         Covered(t) => Balanced(t) /\ CoversSales(t)
  PROVE  (Covered(t) => Balanced(t) /\ CoversSales(t))'
<1>1. Open(t, "sell")' = Open(t, "sell") /\ Open(t, "buy")' = Open(t, "buy")
  BY DEF Open, Ticker
<1>2. Covered(t)' = Covered(t)
  BY DEF Covered, Ticker, IsBuy
<1>3. Balanced(t)' = Balanced(t)
  BY <1>1 DEF Balanced, Unentered
<1>4. CoversSales(t)' = CoversSales(t)
  BY <1>1 DEF CoversSales
<1> QED
  BY <1>2, <1>3, <1>4

\* A booking takes one order from the open ones to the ledger.
LEMMA LedgerBooks ==
  ASSUME ITypeOK, NEW o \in Orders, Book(o), At(o) # "booked", Clamped,
         filled[o] = sent[o], UNCHANGED filled, UNCHANGED held,
         NEW t \in Quiet, t = Ticker(o), Covered(t) => Balanced(t) /\ CoversSales(t)
  PROVE  (Covered(t) => Balanced(t) /\ CoversSales(t))'
<1>0. /\ At(o)' = "booked" /\ \A p \in Orders : p # o => task'[p] = task[p]
      /\ "booked" \in Places
  BY GoesType DEF ITypeOK, TypeOK, Book, Places, Decided
<1>1. Covered(t)' = Covered(t)
  BY DEF Covered, Ticker, IsBuy
<1>2. SUFFICES ASSUME Covered(t) PROVE Balanced(t)' /\ CoversSales(t)'
  BY <1>1
<1>3. /\ OrderSide[o] \in Sides /\ OrderQty[o] \in Nat /\ sent[o] \in Nat
      /\ t \in Tickers /\ held[t] \in Nat /\ ledger[t] \in Nat /\ sent[o] <= OrderQty[o]
      /\ \A p \in Orders : filled[p] \in Nat /\ OrderQty[p] \in Nat
  BY ConstantsAssumption DEF ITypeOK, TypeOK, Clamped, Ticker
<1>4. ledger'[t] = LedgerAfter(o)
  BY <1>3 DEF Book, ITypeOK, TypeOK
<1> DEFINE s == OrderSide[o]
<1>5. o \in Open(t, s) /\ Open(t, s)' = Open(t, s) \ {o}
  BY <1>0 DEF Open, Ticker, At
<1>6. ASSUME NEW side \in Sides, side # s
      PROVE  Open(t, side)' = Open(t, side)
  BY <1>0, <1>6 DEF Open, Ticker, At
<1>7. \A side \in Sides : IsFiniteSet(Open(t, side)) /\ Open(t, side) \subseteq Orders
  BY OpenIsFinite DEF Open
<1>8. \A side \in Sides : Unentered(t, side) \in Nat /\ SumOf(OrderQty, Open(t, side)) \in Nat
  BY <1>3, <1>7, SumNat DEF Unentered
<1>9. /\ SumOf(filled, Open(t, s)) = filled[o] + SumOf(filled, Open(t, s) \ {o})
      /\ SumOf(OrderQty, Open(t, s)) = OrderQty[o] + SumOf(OrderQty, Open(t, s) \ {o})
  BY <1>3, <1>5, <1>7, SumRemove
<1>10. /\ SumOf(filled, Open(t, s) \ {o}) \in Nat
       /\ SumOf(OrderQty, Open(t, s) \ {o}) \in Nat
  <2>1. IsFiniteSet(Open(t, s) \ {o}) /\ Open(t, s) \ {o} \subseteq Orders
    BY <1>3, <1>7, FS_Subset
  <2> QED
    BY <1>3, <2>1, SumNat
<1>11. Unentered(t, s) = sent[o] + Unentered(t, s)'
  BY <1>5, <1>9 DEF Unentered
<1>12. Unentered(t, s)' \in Nat
  BY <1>5, <1>10 DEF Unentered
<1>13. CASE IsBuy(o)
  <2>1. s = "buy" /\ "sell" \in Sides /\ "sell" # s
    BY <1>13 DEF IsBuy, Sides
  <2>2. Unentered(t, "sell")' = Unentered(t, "sell")
    BY <1>6, <2>1 DEF Unentered
  <2>3. CoversSales(t)' <=> SumOf(OrderQty, Open(t, "sell")) <= ledger'[t]
    BY <1>6, <2>1 DEF CoversSales
  <2>4. ledger'[t] = ledger[t] + sent[o]
    BY <1>4, <1>13 DEF LedgerAfter
  <2>5. CoversSales(t)'
    BY <1>2, <1>3, <1>8, <2>1, <2>3, <2>4 DEF CoversSales
  <2>6. held[t] + Unentered(t, "sell") = ledger[t] + Unentered(t, "buy")
    BY <1>2 DEF Balanced
  <2>7. Unentered(t, "buy") = sent[o] + Unentered(t, "buy")' /\ Unentered(t, "buy")' \in Nat
    BY <1>11, <1>12, <2>1
  <2>8. held[t] + Unentered(t, "sell")' = ledger'[t] + Unentered(t, "buy")'
    BY <1>3, <1>8, <2>1, <2>2, <2>4, <2>6, <2>7
  <2> QED
    BY <2>5, <2>8 DEF Balanced
<1>14. CASE ~IsBuy(o)
  <2>1. s = "sell" /\ "buy" \in Sides /\ "buy" # s
    BY <1>3, <1>14 DEF IsBuy, Sides
  <2>2. Unentered(t, "buy")' = Unentered(t, "buy")
    BY <1>6, <2>1 DEF Unentered
  <2>3. SumOf(OrderQty, Open(t, "sell"))
          = OrderQty[o] + SumOf(OrderQty, Open(t, "sell") \ {o})
    BY <1>9, <2>1
  <2>4. SumOf(OrderQty, Open(t, "sell")) <= ledger[t]
    BY <1>2 DEF CoversSales
  <2>5. /\ ledger'[t] = ledger[t] - sent[o]
        /\ SumOf(OrderQty, Open(t, "sell") \ {o}) <= ledger'[t]
        /\ ledger'[t] \in Nat
    <3>1. ledger'[t] = IF ledger[t] > sent[o] THEN ledger[t] - sent[o] ELSE 0
      BY <1>4, <1>14 DEF LedgerAfter
    <3> QED
      BY <1>3, <1>10, <2>1, <2>3, <2>4, <3>1
  <2>6. CoversSales(t)'
    BY <1>5, <2>1, <2>5 DEF CoversSales
  <2>7. held[t] + Unentered(t, "sell") = ledger[t] + Unentered(t, "buy")
    BY <1>2 DEF Balanced
  <2>8. Unentered(t, "sell") = sent[o] + Unentered(t, "sell")' /\ Unentered(t, "sell")' \in Nat
    BY <1>11, <1>12, <2>1
  <2>9. held[t] + Unentered(t, "sell")' = ledger'[t] + Unentered(t, "buy")'
    BY <1>3, <1>8, <2>1, <2>2, <2>5, <2>7, <2>8
  <2> QED
    BY <2>6, <2>9 DEF Balanced
<1> QED
  BY <1>13, <1>14

LEMMA LedgerFills ==
  ASSUME ITypeOK, NEW o \in Orders, NEW n \in 1..sent[o], Fill(o, n), At(o) # "booked",
         NEW t, t = Ticker(o), Covered(t) => Balanced(t) /\ CoversSales(t)
  PROVE  (Covered(t) => Balanced(t) /\ CoversSales(t))'
<1>1. Covered(t)' = Covered(t)
  BY DEF Covered, Ticker, IsBuy
<1>2. SUFFICES ASSUME Covered(t) PROVE Balanced(t)' /\ CoversSales(t)'
  BY <1>1
<1>3. /\ OrderSide[o] \in Sides /\ n \in Nat /\ sent[o] \in Nat
      /\ t \in Tickers /\ held[t] \in Nat /\ ledger[t] \in Nat
      /\ \A p \in Orders : filled[p] \in Nat
  BY ConstantsAssumption DEF ITypeOK, TypeOK, Ticker
<1> DEFINE s == OrderSide[o]
<1>4. \A side : Open(t, side)' = Open(t, side)
  BY DEF Fill, Open, Ticker, At
<1>5. o \in Open(t, s) /\ \A side \in Sides : side # s => o \notin Open(t, side)
  BY DEF Open, Ticker
<1>6. /\ filled'[o] = filled[o] + n
      /\ \A p \in Orders : p # o => filled'[p] = filled[p]
      /\ \A p \in Orders : filled'[p] \in Nat
  BY <1>3 DEF Fill, ITypeOK, TypeOK
<1>7. \A side : IsFiniteSet(Open(t, side)) /\ Open(t, side) \subseteq Orders
  BY OpenIsFinite DEF Open
<1>8. \A side : Unentered(t, side) \in Nat
  BY <1>3, <1>7, SumNat DEF Unentered
<1>9. Unentered(t, s)' = Unentered(t, s) + n
  <2>1. SumOf(filled', Open(t, s)) = SumOf(filled, Open(t, s)) + (filled'[o] - filled[o])
    BY <1>3, <1>5, <1>6, <1>7, SumChange
  <2>2. SumOf(filled, Open(t, s)) \in Nat
    BY <1>8 DEF Unentered
  <2>3. SumOf(filled', Open(t, s)) = SumOf(filled, Open(t, s)) + n
    BY <1>3, <1>6, <2>1, <2>2
  <2> QED
    BY <1>4, <2>3 DEF Unentered
<1>10. ASSUME NEW side \in Sides, side # s
       PROVE  Unentered(t, side)' = Unentered(t, side)
  <2>1. \A p \in Open(t, side) : filled'[p] = filled[p]
    BY <1>5, <1>6, <1>7, <1>10
  <2>2. SumOf(filled', Open(t, side)) = SumOf(filled, Open(t, side))
    BY <1>7, <2>1, SumSame
  <2> QED
    BY <1>4, <2>2 DEF Unentered
<1>11. CoversSales(t)'
  BY <1>2, <1>4 DEF CoversSales, Fill
<1>12. held[t] + Unentered(t, "sell") = ledger[t] + Unentered(t, "buy")
  BY <1>2 DEF Balanced
<1>13. ledger' = ledger
  BY DEF Fill
<1>14. CASE IsBuy(o)
  <2>1. s = "buy" /\ "sell" \in Sides /\ "sell" # s
    BY <1>14 DEF IsBuy, Sides
  <2>2. held'[t] = held[t] + n
    BY <1>3, <1>14 DEF Fill, ITypeOK, TypeOK
  <2>3. Unentered(t, "sell")' = Unentered(t, "sell")
    BY <1>10, <2>1
  <2>4. Unentered(t, "buy")' = Unentered(t, "buy") + n
    BY <1>9, <2>1
  <2>5. held'[t] + Unentered(t, "sell")' = ledger'[t] + Unentered(t, "buy")'
    BY <1>3, <1>8, <1>12, <1>13, <2>2, <2>3, <2>4
  <2> QED
    BY <1>11, <2>5 DEF Balanced
<1>15. CASE ~IsBuy(o)
  <2>1. s = "sell" /\ "buy" \in Sides /\ "buy" # s
    BY <1>3, <1>15 DEF IsBuy, Sides
  <2>2. held'[t] = held[t] - n
    BY <1>3, <1>15 DEF Fill, ITypeOK, TypeOK
  <2>3. Unentered(t, "buy")' = Unentered(t, "buy")
    BY <1>10, <2>1
  <2>4. Unentered(t, "sell")' = Unentered(t, "sell") + n
    BY <1>9, <2>1
  <2>5. held'[t] + Unentered(t, "sell")' = ledger'[t] + Unentered(t, "buy")'
    BY <1>3, <1>8, <1>12, <1>13, <2>2, <2>3, <2>4
  <2> QED
    BY <1>11, <2>5 DEF Balanced
<1> QED
  BY <1>14, <1>15

\* No order is sent for more than was drafted.
LEMMA ClampedStep ==
  ASSUME ITypeOK, Clamped, [Next]_vars
  PROVE  Clamped'
<1> USE DEF account
<1>1. ASSUME NEW o \in Orders, Send(o)
      PROVE  Clamped'
  <2>1. PICK s \in Sellable(o) \ {0} :
          Submit(o, Least(OrderQty[o], s), IF IsKR(o) THEN "confirming" ELSE "accepted")
    BY <1>1 DEF Send
  <2>2. Sellable(o) \subseteq Nat /\ OrderQty[o] \in Nat \ {0}
    BY ConstantsAssumption DEF Sellable, ITypeOK, TypeOK, Tasks, Base
  <2>3. Least(OrderQty[o], s) <= OrderQty[o]
    BY <2>1, <2>2 DEF Least
  <2>4. sent' = [sent EXCEPT ![o] = Least(OrderQty[o], s)]
    BY <2>1 DEF Submit
  <2> QED
    BY <2>3, <2>4 DEF Clamped, ITypeOK, TypeOK
<1>2. (\E o \in Orders : Send(o)) \/ UNCHANGED sent
  BY DEF Next, CycleBegin, CycleStep, CycleFails, ExecBegin, ExecEnd, HoldBack, Move,
         ConfirmNow, PollStep, PollHead, PollRead, PollJudge, PollBreaks, Stop, Start, Crash,
         World, ClockMoves, Fill, Expire, HandTrade, vars
<1> QED
  BY <1>1, <1>2 DEF Clamped

LEMMA BookInvStep ==
  ASSUME ITypeOK, QuietInv, BookInv, [Next]_vars
  PROVE  BookInv'
<1>1. Clamped'
  BY ClampedStep DEF BookInv
<1>2. SUFFICES ASSUME NEW t \in Quiet PROVE (Covered(t) => Balanced(t) /\ CoversSales(t))'
  BY <1>1 DEF BookInv
<1>3. t \in Private /\ t \in Tickers /\ (Covered(t) => Balanced(t) /\ CoversSales(t))
  BY ConstantsAssumption DEF BookInv
<1>4. CASE BooksNone
  <2>1. UNCHANGED filled /\ held'[t] = held[t] /\ ledger'[t] = ledger[t]
    BY <1>4 DEF BooksNone
  <2>2. \A o \in Orders : Ticker(o) = t => (At(o)' = "booked" <=> At(o) = "booked")
    BY <1>4 DEF BooksNone
  <2>3. Covered(t) => Balanced(t) /\ CoversSales(t)
    BY <1>3
  <2> QED
    BY <2>1, <2>2, <2>3, LedgerFrame
<1>5. ASSUME NEW o \in Orders, BooksOne(o)
      PROVE  (Covered(t) => Balanced(t) /\ CoversSales(t))'
  <2>1. CASE t = Ticker(o)
    <3>1. IsQuiet(o)
      BY <2>1 DEF IsQuiet
    <3>2. Book(o) /\ At(o) # "booked" /\ Clamped
      BY <1>5 DEF BookInv, BooksOne
    <3>3. filled[o] = sent[o] /\ UNCHANGED filled /\ UNCHANGED held
      BY <1>5, <3>1 DEF BooksOne
    <3>4. Covered(t) => Balanced(t) /\ CoversSales(t)
      BY <1>3
    <3> QED
      BY <2>1, <3>2, <3>3, <3>4, LedgerBooks
  <2>2. CASE t # Ticker(o)
    <3>1. ledger'[t] = ledger[t]
      BY <1>3, <1>5, <2>2 DEF BooksOne, Book, ITypeOK, TypeOK
    <3>2. \A p \in Orders : p # o => task'[p] = task[p]
      BY <1>5, GoesType DEF ITypeOK, TypeOK, BooksOne, Book, Places, Decided
    <3> QED
      BY <1>3, <1>5, <2>2, <3>1, <3>2, LedgerFrame DEF BooksOne, At
  <2> QED
    BY <2>1, <2>2
<1>6. ASSUME NEW o \in Orders, NEW n \in 1..sent[o], Fill(o, n)
      PROVE  (Covered(t) => Balanced(t) /\ CoversSales(t))'
  <2>1. CASE t = Ticker(o)
    <3>1. IsQuiet(o) /\ sent[o] \in Nat \ {0}
      BY <2>1 DEF IsQuiet, ITypeOK, TypeOK
    <3>2. At(o) # "booked"
      BY <1>6, <3>1 DEF Fill, QuietInv, QuietFillsAreWhole, SeenIsFilled
    <3> QED
      BY <1>3, <1>6, <2>1, <3>2, LedgerFills
  <2>2. CASE t # Ticker(o)
    <3>1. held'[t] = held[t] /\ ledger' = ledger /\ task' = task
      BY <1>3, <1>6, <2>2 DEF Fill, ITypeOK, TypeOK
    <3>2. \A side : Open(t, side)' = Open(t, side)
      BY <3>1 DEF Open, Ticker, At
    <3>3. \A p \in Orders : Ticker(p) = t => filled'[p] = filled[p]
      BY <1>6, <2>2 DEF Fill, ITypeOK, TypeOK
    <3>4. \A side : \A p \in Open(t, side) : filled'[p] = filled[p]
      BY <3>3 DEF Open
    <3>5. \A side : SumOf(filled', Open(t, side)) = SumOf(filled, Open(t, side))
      BY <3>4, OpenIsFinite, SumSame
    <3>6. /\ Unentered(t, "sell")' = Unentered(t, "sell")
          /\ Unentered(t, "buy")' = Unentered(t, "buy")
      BY <3>2, <3>5 DEF Unentered
    <3>7. Covered(t)' = Covered(t)
      BY DEF Covered, Ticker, IsBuy
    <3> QED
      BY <1>3, <3>1, <3>2, <3>6, <3>7 DEF Balanced, CoversSales
  <2> QED
    BY <2>1, <2>2
<1>7. ASSUME NEW s \in Tickers, NEW q \in 0..MaxHeld, HandTrade(s, q)
      PROVE  (Covered(t) => Balanced(t) /\ CoversSales(t))'
  <2>1. held'[t] = held[t] /\ UNCHANGED <<filled, ledger, task>>
    BY <1>3, <1>7 DEF HandTrade, ITypeOK, TypeOK
  <2> QED
    BY <1>3, <2>1, LedgerFrame DEF At
<1>8. FillsOne => (Covered(t) => Balanced(t) /\ CoversSales(t))'
  BY <1>6, Zenon DEF FillsOne
<1>9. HandTrades => (Covered(t) => Balanced(t) /\ CoversSales(t))'
  BY <1>7, Zenon DEF HandTrades
<1> QED
  BY <1>4, <1>5, <1>8, <1>9, StepKinds, Zenon

LEMMA BookInvInit == Init => BookInv
<1> SUFFICES ASSUME Init PROVE BookInv
  OBVIOUS
<1>0. ITypeOK
  BY TypeInit
<1>1. Clamped
  BY ConstantsAssumption DEF Init, Clamped
<1>2. ASSUME NEW t \in Quiet, Covered(t)
      PROVE  Balanced(t) /\ CoversSales(t)
  <2>1. t \in Tickers /\ held[t] = ledger[t] /\ ledger[t] = InitHeld[t] /\ ledger[t] \in Nat
    BY ConstantsAssumption DEF Init
  <2>2. \A o \in Orders : At(o) # "booked" /\ OrderSide[o] \in Sides
    BY ConstantsAssumption DEF Init, At, Forgotten
  <2>3. Open(t, "sell") = {o \in Orders : Ticker(o) = t /\ ~IsBuy(o)}
    BY <2>2 DEF Open, IsBuy, Sides
  <2>4. CoversSales(t)
    BY <1>2, <2>1, <2>3 DEF CoversSales, Covered
  <2>5. ASSUME NEW side PROVE Unentered(t, side) = 0
    <3>1. filled = [o \in Orders |-> 0]
      BY DEF Init
    <3>2. Open(t, side) \subseteq Orders /\ IsFiniteSet(Open(t, side))
      BY OpenIsFinite DEF Open
    <3> QED
      BY <3>1, <3>2, SumZero DEF Unentered
  <2> QED
    BY <2>1, <2>4, <2>5 DEF Balanced
<1> QED
  BY <1>1, <1>2 DEF BookInv

\* On a quiet ticker whose sales its seed covers, the ledger differs from the
\* account by the executed orders that were not booked, and by nothing else.
THEOREM QuietBooksExact == Spec => []QuietLedgerExact
<1>1. (ITypeOK /\ QuietInv) /\ BookInv /\ [Next]_vars => BookInv'
  BY BookInvStep
<1> QED
  BY <1>1, BookInvInit, QuietLedgerIsBalanced, Invariance, PTL DEF Spec

----------------------------------------------------------------------------
(* Quiet tickers: the flow implements FillBooking.                         *)

\* A step that executes nothing and books nothing is not seen from outside.
LEMMA Unseen ==
  ASSUME UNCHANGED filled,
         \A o \in Orders : /\ At(o)' = "booked" <=> At(o) = "booked"
                           /\ At(o) = "booked" => sent'[o] = sent[o]
  PROVE  UNCHANGED FB!bookVars
BY DEF FB!bookVars, IsQuiet, Ticker

\* Booking a quiet order enters what it executed, once.
LEMMA BookEnters ==
  ASSUME ITypeOK, NEW o \in Orders, Goes(o, "booked"), At(o) # "booked",
         IsQuiet(o) => filled[o] = sent[o],
         UNCHANGED <<filled, sent>>
  PROVE  [FB!BookNext]_(FB!bookVars)
<1>0. "booked" \in Places
  BY DEF Places, Decided
<1>1. At(o)' = "booked" /\ \A p \in Orders : p # o => task'[p] = task[p]
  BY <1>0, GoesType DEF ITypeOK, TypeOK
<1>2. CASE IsQuiet(o)
  <2>1. filled[o] = sent[o] /\ sent[o] \in Nat \ {0}
    BY <1>2 DEF ITypeOK, TypeOK
  <2> DEFINE entered == [p \in Orders |-> IF IsQuiet(p) /\ At(p) = "booked" THEN sent[p] ELSE 0]
             executed == [p \in Orders |-> IF IsQuiet(p) THEN filled[p] ELSE 0]
  <2>2. entered' = [entered EXCEPT ![o] = executed[o]]
    BY <1>1, <1>2, <2>1 DEF At, IsQuiet, Ticker
  <2>3. executed' = executed
    BY DEF IsQuiet, Ticker
  <2>4. executed[o] > 0 /\ entered[o] = 0
    BY <1>2, <2>1
  <2>5. FB!Enter(o)
    BY <2>2, <2>3, <2>4 DEF FB!Enter
  <2> QED
    BY <2>5 DEF FB!BookNext
<1>3. CASE ~IsQuiet(o)
  <2>1. UNCHANGED FB!bookVars
    BY <1>1, <1>3 DEF FB!bookVars, IsQuiet, Ticker, At
  <2> QED
    BY <2>1
<1> QED
  BY <1>2, <1>3

\* An execution of a quiet order is the only one it ever has.
LEMMA FillExecutes ==
  ASSUME ITypeOK, QuietInv, NEW o \in Orders, NEW n \in 1..sent[o], Fill(o, n)
  PROVE  [FB!BookNext]_(FB!bookVars)
<1> DEFINE entered == [p \in Orders |-> IF IsQuiet(p) /\ At(p) = "booked" THEN sent[p] ELSE 0]
           executed == [p \in Orders |-> IF IsQuiet(p) THEN filled[p] ELSE 0]
<1>1. /\ filled' = [filled EXCEPT ![o] = filled[o] + n]
      /\ filled \in [Orders -> Nat] /\ n \in Nat \ {0}
      /\ UNCHANGED <<sent, task>>
  BY DEF Fill, ITypeOK, TypeOK
<1>2. entered' = entered
  BY <1>1 DEF At, IsQuiet, Ticker
<1>3. CASE IsQuiet(o)
  <2>1. filled[o] = 0
    BY <1>3 DEF Fill, QuietInv, QuietFillsAreWhole
  <2>2. executed' = [executed EXCEPT ![o] = n]
    <3>1. filled' = [filled EXCEPT ![o] = n]
      BY <1>1, <2>1
    <3>2. \A p \in Orders : filled'[p] = IF p = o THEN n ELSE filled[p]
      BY <1>1, <3>1
    <3>3. executed' = [p \in Orders |-> IF IsQuiet(p) THEN filled'[p] ELSE 0]
      BY DEF IsQuiet, Ticker
    <3> QED
      BY <1>3, <3>2, <3>3
  <2>3. executed[o] = 0 /\ executed'[o] = n
    BY <1>3, <2>1, <2>2
  <2>4. FB!Execute(o)
    BY <1>1, <1>2, <2>2, <2>3 DEF FB!Execute
  <2> QED
    BY <2>4 DEF FB!BookNext
<1>4. CASE ~IsQuiet(o)
  <2>1. executed' = executed
    BY <1>1, <1>4 DEF IsQuiet, Ticker
  <2> QED
    BY <1>2, <2>1 DEF FB!bookVars
<1> QED
  BY <1>3, <1>4

\* Every step of the flow maps to a step of the books, or to none.
LEMMA BookStep ==
  ASSUME ITypeOK, QuietInv, [Next]_vars
  PROVE  [FB!BookNext]_(FB!bookVars)
<1>1. CASE BooksNone
  BY <1>1, Unseen DEF BooksNone
<1>2. ASSUME NEW o \in Orders, BooksOne(o)
      PROVE  [FB!BookNext]_(FB!bookVars)
  BY <1>2, BookEnters DEF BooksOne, Book
<1>3. CASE FillsOne
  BY <1>3, FillExecutes DEF FillsOne
<1>4. CASE HandTrades
  <2>1. UNCHANGED <<filled, sent, task>>
    BY <1>4 DEF HandTrades, HandTrade
  <2> QED
    BY <2>1, Unseen DEF At
<1> QED
  BY <1>1, <1>2, <1>3, <1>4, StepKinds

LEMMA BookStart == Init => FB!BookInit
BY DEF Init, FB!BookInit, At, Forgotten

\* On quiet tickers the flow implements FillBooking: what the exchange executes
\* is entered whole, at most once, and never before it is executed.
THEOREM Refinement == Spec => ImplementsFillBooking
<1>1. ITypeOK /\ QuietInv /\ [Next]_vars => [FB!BookNext]_(FB!bookVars)
  BY BookStep
<1> QED
  BY <1>1, BookStart, Invariance, PTL DEF Spec, ImplementsFillBooking, FB!BookSpec
=============================================================================
