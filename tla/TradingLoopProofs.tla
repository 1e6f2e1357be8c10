------------------------- MODULE TradingLoopProofs --------------------------
(***************************************************************************)
(* What holds of a trading loop and of its cycles.                         *)
(*                                                                         *)
(* The loop (CycleTrigger), for any users, any part of the day and any     *)
(* interval between two rounds: no hour has two cycles by the clock alone, *)
(* none waits for its cycle longer than a sleep, and no round that crawls  *)
(* or waits at its gate across a close misses to alert it.                 *)
(*                                                                         *)
(* The cycle (AnalysisCycle), for every account, day and strategy: the     *)
(* budget of a cycle, what the extended market is asked, and that the      *)
(* sizing of an order and the gate behind it compute the same limits.      *)
(***************************************************************************)
EXTENDS AnalysisCycle, CycleTrigger, SumsAndLists, TLAPS

----------------------------------------------------------------------------
(* The loop: the clock.                                                    *)

LEMMA HourOf == ASSUME NEW m \in Nat PROVE Hour(m) \in Nat
  BY DEF Hour

LEMMA HourGrows ==
  ASSUME NEW m \in Nat, NEW n \in Nat, m <= n PROVE Hour(m) <= Hour(n)
  BY DEF Hour

LEMMA SessionOf == ASSUME NEW m \in Nat PROVE SessionAt(m) \in SessionNames
  BY DEF SessionAt, SessionNames, At

----------------------------------------------------------------------------
(* The loop: the invariant.                                                *)

LoopRecords == [at : Places, left : Nat, session : SessionNames]
Anchors == [hour : Nat \cup {Never}, session : SessionNames, ran : Nat \cup {Never}]

\* The hour of the last cycle is the one remembered, or a forced start's; a round
\* before its gate that no opening called for has a later one.
HourKept(u) ==
  /\ anchor[u].hour <= Hour(now)
  /\ begun[u] <= Hour(now)
  /\ loop[u].at \in {"asleep", "failed", "crawl", "gate"} /\ begun[u] = Hour(now) =>
       anchor[u].hour \in {Never, Hour(now)}
  /\ loop[u].at = "gate" /\ ~Opened(u) => anchor[u].hour < Hour(now)

\* A sleep began now + left - Interval ago, its hour served or its market closed.
SleepFits(u) ==
  loop[u].at = "asleep" =>
    /\ loop[u].left <= Interval
    /\ \/ loop[u].left = 0 /\ anchor[u].hour \in {Never, Hour(now)}
       \/ anchor[u].hour \in {Never, Hour(now + loop[u].left - Interval)}
       \/ SessionAt(now + loop[u].left - Interval) \notin Live

\* A market seen trading trades; a round that has read a session after the close
\* of one has alerted the close.
CloseKept(u, mkt) ==
  mkt \in verified[u] =>
    /\ mkt \in verdict.traded /\ mkt \notin weekend
    /\ /\ loop[u].at \in {"crawl", "gate"}
       /\ anchor[u].session = Regular(mkt) /\ loop[u].session # Regular(mkt)
       => alerts[u][mkt] > 0

UserFits(u) == HourKept(u) /\ SleepFits(u) /\ \A mkt \in Markets : CloseKept(u, mkt)

TriggerInv == TriggerTypeOK /\ \A u \in Users : UserFits(u)

\* The record of a place is one of a loop.
LEMMA IdleRecord ==
  ASSUME NEW p \in Places, NEW left \in Nat
  PROVE  /\ Idle(p, left) \in LoopRecords
         /\ Idle(p, left).at = p /\ Idle(p, left).left = left
         /\ Idle(p, left).session = "OFF_HOURS"
  BY DEF Idle, LoopRecords, SessionNames

LEMMA ThisHour ==
  ASSUME TriggerInv
  PROVE  now \in Nat /\ Hour(now) \in Nat /\ session \in SessionNames
  BY HourOf, SessionOf DEF TriggerInv, TriggerTypeOK, session

LEMMA UserTypes ==
  ASSUME TriggerInv, NEW u \in Users
  PROVE  /\ loop[u] \in LoopRecords /\ anchor[u] \in Anchors /\ UserFits(u)
         /\ begun[u] \in Nat \cup {Never}
         /\ \A mkt \in Markets : alerts[u][mkt] \in Nat
  BY DEF TriggerInv, TriggerTypeOK, LoopRecords, Anchors

LEMMA TriggerStarts == TriggerInit => TriggerInv
  <1> SUFFICES ASSUME TriggerInit PROVE TriggerInv
    OBVIOUS
  <1>1. Opens \in Nat /\ Hour(Opens) \in Nat /\ SessionAt(Opens) \in SessionNames
    BY TriggerAssumption, HourOf, SessionOf
  <1>2. Idle("off", 0) \in LoopRecords /\ Idle("off", 0).at = "off"
    BY IdleRecord DEF Places
  <1>3. TriggerTypeOK
    <2>1. weekend \in SUBSET Markets
      BY TriggerAssumption DEF TriggerInit
    <2>2. anchor \in [Users -> Anchors]
      BY <1>1 DEF TriggerInit, Anchors
    <2> QED
      BY <1>1, <1>2, <2>1, <2>2 DEF TriggerInit, TriggerTypeOK, LoopRecords, Anchors
  <1>4. ASSUME NEW u \in Users PROVE UserFits(u)
    <2>1. now = Opens /\ loop[u] = Idle("off", 0) /\ begun[u] = -1
          /\ anchor[u].hour = Hour(Opens) /\ verified[u] = {}
      BY DEF TriggerInit, Never
    <2> QED
      BY <1>1, <1>2, <2>1 DEF UserFits, HourKept, SleepFits, CloseKept
  <1> QED
    BY <1>3, <1>4 DEF TriggerInv

----------------------------------------------------------------------------
(* The loop: its steps.                                                    *)

\* A step of one user, at a moment.
LEMMA OneUser ==
  ASSUME TriggerInv, TriggerTypeOK', NEW u \in Users, now' = now, weekend' = weekend,
         UserFits(u)', verdict.traded \subseteq verdict'.traded,
         \A q \in Users \ {u} : /\ loop'[q] = loop[q] /\ anchor'[q] = anchor[q]
                               /\ begun'[q] = begun[q] /\ alerts'[q] = alerts[q]
                               /\ verified'[q] = verified[q]
  PROVE  TriggerInv'
  <1>1. ASSUME NEW q \in Users \ {u} PROVE UserFits(q)'
    BY <1>1 DEF TriggerInv, UserFits, HourKept, SleepFits, CloseKept, Opened
  <1> QED
    BY <1>1 DEF TriggerInv

\* What a step writes of its own user keeps its type.
LEMMA UserWrites ==
  ASSUME TriggerInv, NEW u \in Users, UNCHANGED <<now, weekend>>,
         NEW l \in LoopRecords, NEW a \in Anchors, NEW b \in Nat \cup {Never},
         loop' = [loop EXCEPT ![u] = l], anchor' = [anchor EXCEPT ![u] = a],
         begun' = [begun EXCEPT ![u] = b],
         alerts' \in [Users -> [Markets -> Nat]], \A q \in Users \ {u} : alerts'[q] = alerts[q],
         marker' \in [Users -> BOOLEAN], verified' \in [Users -> SUBSET Markets],
         \A q \in Users \ {u} : verified'[q] = verified[q],
         verdict' \in [traded : SUBSET Markets, closed : SUBSET Markets],
         verdict.traded \subseteq verdict'.traded, mishaps' \in Nat,
         UserFits(u)'
  PROVE  TriggerInv'
  <1>1. /\ loop' \in [Users -> LoopRecords] /\ anchor' \in [Users -> Anchors]
        /\ begun' \in [Users -> Nat \cup {Never}]
        /\ \A q \in Users \ {u} : /\ loop'[q] = loop[q] /\ anchor'[q] = anchor[q]
                                 /\ begun'[q] = begun[q]
    BY DEF TriggerInv, TriggerTypeOK, LoopRecords, Anchors
  <1>2. TriggerTypeOK'
    BY <1>1 DEF TriggerInv, TriggerTypeOK, LoopRecords, Anchors
  <1> QED
    BY <1>1, <1>2, OneUser

\* What a step leaves alone is there to be left alone.
LEMMA Left ==
  ASSUME TriggerInv, NEW u \in Users
  PROVE  /\ UNCHANGED anchor => anchor' = [anchor EXCEPT ![u] = anchor[u]]
         /\ UNCHANGED begun => begun' = [begun EXCEPT ![u] = begun[u]]
         /\ UNCHANGED alerts => /\ alerts' \in [Users -> [Markets -> Nat]]
                                /\ \A q \in Users \ {u} : alerts'[q] = alerts[q]
         /\ UNCHANGED marker => marker' \in [Users -> BOOLEAN]
         /\ UNCHANGED mishaps => mishaps' \in Nat
         /\ UNCHANGED <<verified, verdict>> =>
              /\ verified' \in [Users -> SUBSET Markets]
              /\ \A q \in Users \ {u} : verified'[q] = verified[q]
              /\ verdict' \in [traded : SUBSET Markets, closed : SUBSET Markets]
              /\ verdict.traded \subseteq verdict'.traded
  BY DEF TriggerInv, TriggerTypeOK

\* A start remembers the hour, or none, and the session.
LEMMA StartKeeps ==
  ASSUME TriggerInv, NEW u \in Users, Start(u) PROVE TriggerInv'
  <1> DEFINE l == Idle("asleep", 0)
  <1> DEFINE a == StartAnchor(u)
  <1>1. l \in LoopRecords /\ l.at = "asleep" /\ l.left = 0
    BY IdleRecord DEF Places
  <1>2. a \in Anchors /\ a.hour \in {Never, Hour(now)}
    BY ThisHour DEF StartAnchor, Anchors, Never
  <1>3. /\ loop' = [loop EXCEPT ![u] = l] /\ anchor' = [anchor EXCEPT ![u] = a]
        /\ marker' = [marker EXCEPT ![u] = FALSE]
        /\ UNCHANGED <<now, weekend, verified, verdict, begun, alerts, mishaps>>
    BY DEF Start
  <1>4. UserFits(u) /\ begun[u] \in Nat \cup {Never} /\ Hour(now) \in Nat /\ now \in Nat
    BY ThisHour, UserTypes
  <1> HIDE DEF l, a
  <1>5. loop'[u] = l /\ anchor'[u] = a /\ begun'[u] = begun[u]
    BY <1>3 DEF TriggerInv, TriggerTypeOK
  <1>6. HourKept(u)' /\ SleepFits(u)'
    BY <1>1, <1>2, <1>3, <1>4, <1>5, TriggerAssumption DEF UserFits, HourKept, SleepFits, Never
  <1>7. \A mkt \in Markets : CloseKept(u, mkt)'
    BY <1>1, <1>3, <1>4, <1>5 DEF UserFits, CloseKept
  <1>8. UserFits(u)'
    BY <1>6, <1>7 DEF UserFits
  <1>9. marker' \in [Users -> BOOLEAN]
    BY <1>3 DEF TriggerInv, TriggerTypeOK
  <1> QED
    BY <1>1, <1>2, <1>3, <1>4, <1>8, <1>9, Left, UserWrites

\* A loop that is stopped, or a round that fails, remembers nothing new.
LEMMA FallsOut ==
  ASSUME TriggerInv, NEW u \in Users, NEW p \in {"off", "failed"}, NEW left \in Nat,
         loop' = [loop EXCEPT ![u] = Idle(p, left)],
         p = "failed" => loop[u].at \in {"crawl", "gate"}, Mishap,
         UNCHANGED <<now, anchor, weekend, marker, verified, verdict, begun, alerts>>
  PROVE  TriggerInv'
  <1> DEFINE l == Idle(p, left)
  <1>1. l \in LoopRecords /\ l.at = p
    BY IdleRecord DEF Places
  <1>2. loop' = [loop EXCEPT ![u] = l]
    OBVIOUS
  <1>3. UserFits(u) /\ anchor[u] \in Anchors /\ begun[u] \in Nat \cup {Never}
    BY UserTypes
  <1> HIDE DEF l
  <1>4. loop'[u] = l /\ anchor'[u] = anchor[u] /\ begun'[u] = begun[u]
    BY <1>2 DEF TriggerInv, TriggerTypeOK
  <1>5. HourKept(u)' /\ SleepFits(u)'
    BY <1>1, <1>3, <1>4 DEF UserFits, HourKept, SleepFits
  <1>6. \A mkt \in Markets : CloseKept(u, mkt)'
    BY <1>1, <1>3, <1>4 DEF UserFits, CloseKept
  <1>7. UserFits(u)'
    BY <1>5, <1>6 DEF UserFits
  <1>8. TriggerTypeOK'
    BY <1>1, <1>2 DEF TriggerInv, TriggerTypeOK, LoopRecords, Mishap
  <1>9. \A q \in Users \ {u} : loop'[q] = loop[q]
    BY <1>2 DEF TriggerInv, TriggerTypeOK
  <1> QED
    BY <1>7, <1>8, <1>9, OneUser

LEMMA StopKeeps ==
  ASSUME TriggerInv, NEW u \in Users, Stop(u) PROVE TriggerInv'
  <1>1. /\ loop' = [loop EXCEPT ![u] = Idle("off", 0)] /\ Mishap
        /\ UNCHANGED <<now, anchor, weekend, marker, verified, verdict, begun, alerts>>
    BY DEF Stop
  <1> QED
    BY <1>1, FallsOut

LEMMA RoundFailsKeeps ==
  ASSUME TriggerInv, NEW u \in Users, RoundFails(u) PROVE TriggerInv'
  <1>1. /\ loop' = [loop EXCEPT ![u] = Idle("failed", Step)] /\ Mishap /\ Step \in Nat
        /\ loop[u].at \in {"crawl", "gate"}
        /\ UNCHANGED <<now, anchor, weekend, marker, verified, verdict, begun, alerts>>
    BY TriggerAssumption DEF RoundFails
  <1> QED
    BY <1>1, FallsOut

LEMMA PlaceMarkerKeeps ==
  ASSUME TriggerInv, NEW u \in Users, PlaceMarker(u) PROVE TriggerInv'
  <1>1. marker' \in [Users -> BOOLEAN] /\ mishaps' \in Nat
    BY DEF PlaceMarker, Mishap, TriggerInv, TriggerTypeOK
  <1>2. UNCHANGED <<now, loop, anchor, weekend, verified, verdict, begun, alerts>>
    BY DEF PlaceMarker
  <1> QED
    BY <1>1, <1>2 DEF TriggerInv, TriggerTypeOK, UserFits, HourKept, SleepFits, CloseKept, Opened

\* Time passes: no hour goes back, and a sleep keeps the moment it began.
LEMMA TickKeeps ==
  ASSUME TriggerInv, Tick PROVE TriggerInv'
  <1>1. /\ now' = now + Step /\ Step \in Nat /\ Step > 0 /\ now \in Nat /\ now' \in Nat
        /\ UNCHANGED <<anchor, weekend, marker, verified, verdict, begun, alerts, mishaps>>
    BY ThisHour, TriggerAssumption DEF Tick
  <1>2. Hour(now) \in Nat /\ Hour(now') \in Nat /\ Hour(now) <= Hour(now')
    BY <1>1, HourOf, HourGrows
  <1>3. ASSUME NEW u \in Users
        PROVE  /\ loop'[u] \in LoopRecords /\ loop'[u].at = loop[u].at
               /\ loop'[u].session = loop[u].session
               /\ loop[u].at # "off" => loop'[u].left = loop[u].left - Step /\ loop[u].left >= Step
    <2>1. loop[u] \in LoopRecords
      BY UserTypes
    <2>2. CASE loop[u].at = "off"
      BY <2>1, <2>2 DEF Tick
    <2>3. CASE loop[u].at # "off"
      <3> DEFINE left == loop[u].left - Step
      <3>1. left \in Nat /\ loop[u].left >= Step
        BY <1>1, <2>1, <2>3 DEF Tick, LoopRecords
      <3>2. loop'[u] = [loop[u] EXCEPT !.left = left]
        BY <2>3 DEF Tick
      <3> HIDE DEF left
      <3>3. loop'[u] \in LoopRecords /\ loop'[u].at = loop[u].at
            /\ loop'[u].session = loop[u].session /\ loop'[u].left = left
        BY <2>1, <3>1, <3>2 DEF LoopRecords
      <3> QED
        BY <3>1, <3>3 DEF left
    <2> QED
      BY <2>2, <2>3
  <1>4. TriggerTypeOK'
    <2>1. loop' \in [Users -> LoopRecords]
      BY <1>3 DEF Tick
    <2> QED
      BY <1>1, <2>1 DEF TriggerInv, TriggerTypeOK, LoopRecords
  <1>5. ASSUME NEW u \in Users PROVE UserFits(u)'
    <2>1. /\ UserFits(u) /\ anchor[u].hour \in Nat \cup {Never} /\ begun[u] \in Nat \cup {Never}
          /\ loop[u].left \in Nat
      BY UserTypes DEF Anchors, LoopRecords
    <2>2. HourKept(u)'
      <3>1. begun[u] = Hour(now') => begun[u] = Hour(now) /\ Hour(now') = Hour(now)
        BY <1>2, <2>1 DEF UserFits, HourKept, Never
      <3>2. Opened(u)' <=> Opened(u)
        BY <1>1, <1>3 DEF Opened
      <3> QED
        BY <1>1, <1>2, <1>3, <2>1, <3>1, <3>2 DEF UserFits, HourKept, Never
    <2>3. SleepFits(u)'
      <3> SUFFICES ASSUME loop[u].at = "asleep" PROVE SleepFits(u)'
        BY <1>3 DEF SleepFits
      <3>1. loop'[u].left = loop[u].left - Step /\ loop[u].left >= Step
        BY <1>3
      <3>2. now' + loop'[u].left - Interval = now + loop[u].left - Interval
        BY <1>1, <2>1, <3>1, TriggerAssumption
      <3>3. loop'[u].left <= Interval
        BY <1>1, <2>1, <3>1, TriggerAssumption DEF UserFits, SleepFits
      <3> QED
        BY <1>1, <2>1, <3>1, <3>2, <3>3 DEF UserFits, SleepFits
    <2>4. \A mkt \in Markets : CloseKept(u, mkt)'
      BY <1>1, <1>3, <2>1 DEF UserFits, CloseKept
    <2> QED
      BY <2>2, <2>3, <2>4 DEF UserFits
  <1> QED
    BY <1>4, <1>5 DEF TriggerInv

\* A loop goes to sleep with its hour served, or outside the trading hours.
LEMMA FallsAsleep ==
  ASSUME TriggerInv, NEW u \in Users, NEW a \in Anchors,
         loop' = [loop EXCEPT ![u] = Idle("asleep", Interval)],
         anchor' = [anchor EXCEPT ![u] = a],
         a.hour = Hour(now) \/ (a.hour = anchor[u].hour /\ ~TradingHours),
         loop[u].at \in {"crawl", "gate"} \/ a.hour = Hour(now),
         UNCHANGED <<now, weekend, marker, begun, alerts, mishaps>>,
         verified' \in [Users -> SUBSET Markets],
         \A q \in Users \ {u} : verified'[q] = verified[q],
         verdict' \in [traded : SUBSET Markets, closed : SUBSET Markets],
         verdict.traded \subseteq verdict'.traded,
         \A mkt \in verified'[u] \ verified[u] : mkt \in verdict'.traded /\ mkt \notin weekend
  PROVE  TriggerInv'
  <1> DEFINE l == Idle("asleep", Interval)
  <1>1. l \in LoopRecords /\ l.at = "asleep" /\ l.left = Interval /\ Interval \in Nat
    BY IdleRecord, TriggerAssumption DEF Places
  <1>2. loop' = [loop EXCEPT ![u] = l]
    OBVIOUS
  <1>3. UserFits(u) /\ begun[u] \in Nat \cup {Never} /\ Hour(now) \in Nat /\ now \in Nat
    BY ThisHour, UserTypes
  <1> HIDE DEF l
  <1>4. loop'[u] = l /\ anchor'[u] = a /\ begun'[u] = begun[u]
    BY <1>2 DEF TriggerInv, TriggerTypeOK
  <1>5. now + Interval - Interval = now
    BY <1>1, <1>3
  <1>6. HourKept(u)'
    BY <1>1, <1>3, <1>4 DEF UserFits, HourKept
  <1>7. SleepFits(u)'
    BY <1>1, <1>4, <1>5 DEF SleepFits, TradingHours, session
  <1>8. \A mkt \in Markets : CloseKept(u, mkt)'
    BY <1>1, <1>3, <1>4 DEF UserFits, CloseKept
  <1>9. UserFits(u)'
    BY <1>6, <1>7, <1>8 DEF UserFits
  <1> QED
    BY <1>1, <1>2, <1>3, <1>9, Left, UserWrites

\* After the cycle the loop looks at the clock afresh.
LEMMA CycleEndsKeeps ==
  ASSUME TriggerInv, NEW u \in Users, CycleEnds(u) PROVE TriggerInv'
  <1> DEFINE a == Served(u)
  <1>1. a \in Anchors /\ a.hour = Hour(now)
    BY ThisHour DEF Served, Anchors
  <1>2. /\ anchor' = [anchor EXCEPT ![u] = a] /\ loop' = [loop EXCEPT ![u] = Idle("asleep", Interval)]
        /\ UNCHANGED <<now, weekend, marker, begun, alerts, mishaps>>
        /\ UNCHANGED <<verified, verdict>>
    BY DEF CycleEnds
  <1> HIDE DEF a
  <1> QED
    BY <1>1, <1>2, Left, FallsAsleep

\* A round alerts the close of every market it has seen trade.
LEMMA AlertKept ==
  ASSUME TriggerInv, NEW u \in Users, Alerted(u)
  PROVE  /\ alerts' \in [Users -> [Markets -> Nat]]
         /\ \A q \in Users \ {u} : alerts'[q] = alerts[q]
         /\ \A mkt \in Markets :
              /\ mkt \in verified[u]
              /\ anchor[u].session = Regular(mkt) /\ session # Regular(mkt)
              => alerts'[u][mkt] > 0
  <1> DEFINE shown == [mkt \in Markets |-> IF mkt \in ClosesSeen(u) THEN alerts[u][mkt] + 1
                                         ELSE alerts[u][mkt]]
  <1>1. alerts' = [alerts EXCEPT ![u] = shown]
    BY DEF Alerted
  <1>2. UserFits(u) /\ \A mkt \in Markets : alerts[u][mkt] \in Nat
    BY UserTypes
  <1>3. shown \in [Markets -> Nat]
    BY <1>2
  <1>4. alerts' \in [Users -> [Markets -> Nat]] /\ alerts'[u] = shown
        /\ \A q \in Users \ {u} : alerts'[q] = alerts[q]
    BY <1>1, <1>3 DEF TriggerInv, TriggerTypeOK
  <1>5. ASSUME NEW mkt \in Markets, mkt \in verified[u],
               anchor[u].session = Regular(mkt), session # Regular(mkt)
        PROVE  shown[mkt] > 0
    <2>1. mkt \in verdict.traded /\ mkt \notin weekend
      BY <1>2, <1>5 DEF UserFits, CloseKept
    <2>2. mkt \in ClosesSeen(u)
      BY <1>5, <2>1 DEF ClosesSeen, ClosedForSure, Regular
    <2> QED
      BY <1>2, <2>2
  <1> QED
    BY <1>4, <1>5

LEMMA RoundKeeps ==
  ASSUME TriggerInv, NEW u \in Users, Round(u) PROVE TriggerInv'
  <1> DEFINE l == [at |-> "crawl", left |-> Step, session |-> session]
  <1>1. /\ loop[u].at \in {"failed", "asleep"} /\ Alerted(u) /\ loop' = [loop EXCEPT ![u] = l]
        /\ UNCHANGED <<now, anchor, weekend, marker, verified, verdict, begun, mishaps>>
    BY DEF Round
  <1>2. l \in LoopRecords /\ l.at = "crawl" /\ l.session = session
    BY ThisHour, TriggerAssumption DEF LoopRecords, Places
  <1>3. UserFits(u) /\ begun[u] \in Nat \cup {Never} /\ anchor[u] \in Anchors
    BY UserTypes
  <1> HIDE DEF l
  <1>4. loop'[u] = l /\ anchor'[u] = anchor[u] /\ begun'[u] = begun[u]
    BY <1>1 DEF TriggerInv, TriggerTypeOK
  <1>5. HourKept(u)' /\ SleepFits(u)'
    BY <1>1, <1>2, <1>3, <1>4 DEF UserFits, HourKept, SleepFits
  <1>6. ASSUME NEW mkt \in Markets PROVE CloseKept(u, mkt)'
    <2>1. CloseKept(u, mkt)
      BY <1>3 DEF UserFits
    <2>2. /\ mkt \in verified[u]
          /\ anchor[u].session = Regular(mkt) /\ session # Regular(mkt)
          => alerts'[u][mkt] > 0
      BY <1>1, AlertKept
    <2> QED
      BY <1>1, <1>2, <1>4, <2>1, <2>2 DEF CloseKept
  <1>7. UserFits(u)'
    BY <1>5, <1>6 DEF UserFits
  <1>8. alerts' \in [Users -> [Markets -> Nat]] /\ \A q \in Users \ {u} : alerts'[q] = alerts[q]
    BY <1>1, AlertKept
  <1> QED
    BY <1>1, <1>2, <1>3, <1>7, <1>8, Left, UserWrites

\* What a round leaves behind when it ends without a cycle.
LEMMA RoundAnchors ==
  ASSUME TriggerInv, NEW u \in Users
  PROVE  /\ RoundEnds(u) \in Anchors /\ RoundEnds(u).hour = anchor[u].hour
         /\ Skipped(u) \in Anchors /\ Skipped(u).hour = Hour(now)
  <1>1. loop[u] \in LoopRecords /\ anchor[u] \in Anchors /\ Hour(now) \in Nat /\ now \in Nat
    BY UserTypes, ThisHour
  <1> QED
    BY <1>1 DEF RoundEnds, Skipped, Anchors, LoopRecords

\* After the crawl: nothing to do, held back at once, or on to the gate.
LEMMA CrawledKeeps ==
  ASSUME TriggerInv, NEW u \in Users, Crawled(u) PROVE TriggerInv'
  <1>1. /\ loop[u].at = "crawl"
        /\ UNCHANGED <<now, weekend, marker, begun, alerts, mishaps>>
        /\ UNCHANGED <<verified, verdict>>
    BY DEF Crawled
  <1>2. UserFits(u) /\ begun[u] \in Nat \cup {Never} /\ Hour(now) \in Nat /\ now \in Nat
        /\ anchor[u] \in Anchors /\ loop[u] \in LoopRecords
    BY ThisHour, UserTypes
  <1>3. CASE ~Due(u) /\ PassesBy(u)
    <2> DEFINE a == RoundEnds(u)
    <2>1. a \in Anchors /\ a.hour = Hour(now)
      BY <1>3, RoundAnchors DEF Due
    <2>2. anchor' = [anchor EXCEPT ![u] = a] /\ loop' = [loop EXCEPT ![u] = Idle("asleep", Interval)]
      BY <1>3 DEF PassesBy
    <2> HIDE DEF a
    <2> QED
      BY <1>1, <2>1, <2>2, Left, FallsAsleep
  <1>4. CASE SkipsRound(u)
    <2> DEFINE a == Skipped(u)
    <2>1. a \in Anchors /\ a.hour = Hour(now)
      BY RoundAnchors
    <2>2. anchor' = [anchor EXCEPT ![u] = a] /\ loop' = [loop EXCEPT ![u] = Idle("asleep", Interval)]
      BY <1>4 DEF SkipsRound
    <2> HIDE DEF a
    <2> QED
      BY <1>1, <2>1, <2>2, Left, FallsAsleep
  <1>5. CASE /\ Opened(u) \/ Due(u)
             /\ loop' = [loop EXCEPT ![u].at = "gate", ![u].left = Step]
             /\ UNCHANGED anchor
    <2> DEFINE l == [loop[u] EXCEPT !.at = "gate", !.left = Step]
    <2>1. l \in LoopRecords /\ l.at = "gate" /\ l.session = loop[u].session
      BY <1>2, TriggerAssumption DEF LoopRecords, Places
    <2>2. loop' = [loop EXCEPT ![u] = l] /\ UNCHANGED anchor
      BY <1>5
    <2> HIDE DEF l
    <2>3. loop'[u] = l /\ anchor'[u] = anchor[u] /\ begun'[u] = begun[u]
      BY <1>1, <2>2 DEF TriggerInv, TriggerTypeOK
    <2>4. anchor[u].hour \in Nat \cup {Never} /\ (Opened(u)' <=> Opened(u))
      BY <1>2, <2>1, <2>3 DEF Opened, Anchors
    <2>5. HourKept(u)' /\ SleepFits(u)'
      BY <1>1, <1>2, <1>5, <2>1, <2>3, <2>4 DEF UserFits, HourKept, SleepFits, Due, Never
    <2>6. \A mkt \in Markets : CloseKept(u, mkt)'
      BY <1>1, <1>2, <2>1, <2>3 DEF UserFits, CloseKept
    <2>7. UserFits(u)'
      BY <2>5, <2>6 DEF UserFits
    <2> QED
      BY <1>1, <1>2, <2>1, <2>2, <2>7, Left, UserWrites
  <1> QED
    BY <1>3, <1>4, <1>5 DEF Crawled

\* The verdict on a market: what is seen trading is noted as such, of a weekday.
LEMMA NotedKeeps ==
  ASSUME TriggerInv, NEW u \in Users, GateAnswers(u)
  PROVE  /\ verified' \in [Users -> SUBSET Markets]
         /\ \A q \in Users \ {u} : verified'[q] = verified[q]
         /\ verdict' \in [traded : SUBSET Markets, closed : SUBSET Markets]
         /\ verdict.traded \subseteq verdict'.traded
         /\ verified[u] \subseteq verified'[u]
         /\ \A mkt \in verified'[u] \ verified[u] : mkt \in verdict'.traded /\ mkt \notin weekend
  <1>1. verified \in [Users -> SUBSET Markets]
        /\ verdict \in [traded : SUBSET Markets, closed : SUBSET Markets]
    BY DEF TriggerInv, TriggerTypeOK
  <1>2. CASE UNCHANGED <<verified, verdict>>
    BY <1>1, <1>2
  <1>3. ASSUME MarketsOf(loop[u].session) \cap weekend = {},
               NEW mkt \in Asked(loop[u].session), NEW sight \in Sights(u, mkt), Noted(u, mkt, sight)
        PROVE  /\ verified' \in [Users -> SUBSET Markets]
               /\ \A q \in Users \ {u} : verified'[q] = verified[q]
               /\ verdict' \in [traded : SUBSET Markets, closed : SUBSET Markets]
               /\ verdict.traded \subseteq verdict'.traded
               /\ verified[u] \subseteq verified'[u]
               /\ \A m \in verified'[u] \ verified[u] : m \in verdict'.traded /\ m \notin weekend
    <2>1. sight \in {"open", "closed"} => mkt \in Markets /\ mkt \notin weekend
      BY <1>3 DEF Asked, MarketsOf, Sights, Markets
    <2>2. /\ verified' \in [Users -> SUBSET Markets]
          /\ \A q \in Users \ {u} : verified'[q] = verified[q]
          /\ verified'[u] = verified[u] \cup (IF sight = "open" THEN {mkt} ELSE {})
      BY <1>1, <1>3, <2>1 DEF Noted
    <2>3. /\ verdict' \in [traded : SUBSET Markets, closed : SUBSET Markets]
          /\ verdict.traded \subseteq verdict'.traded
          /\ sight = "open" => mkt \in verdict'.traded
      <3>1. CASE sight = "open"
        <4>1. verdict' = [traded |-> verdict.traded \cup {mkt}, closed |-> verdict.closed \ {mkt}]
          BY <1>3, <3>1 DEF Noted
        <4> QED
          BY <1>1, <2>1, <3>1, <4>1
      <3>2. CASE sight = "closed"
        <4> DEFINE closed == verdict.closed \cup {mkt}
        <4>1. verdict' = [verdict EXCEPT !.closed = closed] /\ closed \in SUBSET Markets
          BY <1>1, <1>3, <2>1, <3>2 DEF Noted
        <4> HIDE DEF closed
        <4> QED
          BY <1>1, <3>2, <4>1
      <3>3. CASE sight \notin {"open", "closed"}
        BY <1>1, <1>3, <3>3 DEF Noted
      <3> QED
        BY <3>1, <3>2, <3>3
    <2> QED
      BY <2>1, <2>2, <2>3
  <1> QED
    BY <1>2, <1>3 DEF GateAnswers

\* The gate: a cycle begins, or the round is skipped for the hour, or it passes by
\* outside the trading hours.
LEMMA GateAnswersKeeps ==
  ASSUME TriggerInv, NEW u \in Users, GateAnswers(u) PROVE TriggerInv'
  <1>1. /\ loop[u].at = "gate" /\ UNCHANGED <<now, weekend, marker, alerts, mishaps>>
        /\ \/ Proceeds(u)
           \/ SkipsRound(u) /\ UNCHANGED begun
           \/ ~TradingHours /\ PassesBy(u) /\ UNCHANGED begun
    BY DEF GateAnswers
  <1>2. UserFits(u) /\ begun[u] \in Nat \cup {Never} /\ Hour(now) \in Nat /\ now \in Nat
        /\ anchor[u] \in Anchors /\ loop[u] \in LoopRecords
    BY ThisHour, UserTypes
  <1>3. CASE Proceeds(u)
    <2> DEFINE l == [loop[u] EXCEPT !.at = "cycle", !.left = MaxCycle]
    <2>1. l \in LoopRecords /\ l.at = "cycle"
      BY <1>2, TriggerAssumption DEF LoopRecords, Places
    <2>2. loop' = [loop EXCEPT ![u] = l] /\ begun' = [begun EXCEPT ![u] = Hour(now)]
          /\ UNCHANGED anchor
      BY <1>3 DEF Proceeds
    <2> HIDE DEF l
    <2>3. loop'[u] = l /\ anchor'[u] = anchor[u] /\ begun'[u] = Hour(now)
      BY <2>2 DEF TriggerInv, TriggerTypeOK
    <2>4. HourKept(u)' /\ SleepFits(u)'
      BY <1>1, <1>2, <2>1, <2>3 DEF UserFits, HourKept, SleepFits
    <2>5. \A mkt \in Markets : CloseKept(u, mkt)'
      BY <1>1, <1>2, <2>1, <2>3, NotedKeeps DEF UserFits, CloseKept
    <2>6. UserFits(u)'
      BY <2>4, <2>5 DEF UserFits
    <2>7. /\ verified' \in [Users -> SUBSET Markets]
          /\ \A q \in Users \ {u} : verified'[q] = verified[q]
          /\ verdict' \in [traded : SUBSET Markets, closed : SUBSET Markets]
          /\ verdict.traded \subseteq verdict'.traded
      BY NotedKeeps
    <2> QED
      BY <1>1, <1>2, <2>1, <2>2, <2>6, <2>7, Left, UserWrites
  <1>4. CASE SkipsRound(u) /\ UNCHANGED begun
    <2> DEFINE a == Skipped(u)
    <2>1. a \in Anchors /\ a.hour = Hour(now)
      BY RoundAnchors
    <2>2. anchor' = [anchor EXCEPT ![u] = a] /\ loop' = [loop EXCEPT ![u] = Idle("asleep", Interval)]
      BY <1>4 DEF SkipsRound
    <2> HIDE DEF a
    <2> QED
      BY <1>1, <1>4, <2>1, <2>2, NotedKeeps, FallsAsleep
  <1>5. CASE ~TradingHours /\ PassesBy(u) /\ UNCHANGED begun
    <2> DEFINE a == RoundEnds(u)
    <2>1. a \in Anchors /\ a.hour = anchor[u].hour
      BY RoundAnchors
    <2>2. anchor' = [anchor EXCEPT ![u] = a] /\ loop' = [loop EXCEPT ![u] = Idle("asleep", Interval)]
      BY <1>5 DEF PassesBy
    <2> HIDE DEF a
    <2> QED
      BY <1>1, <1>5, <2>1, <2>2, NotedKeeps, FallsAsleep
  <1> QED
    BY <1>1, <1>3, <1>4, <1>5

----------------------------------------------------------------------------
(* The loop: the theorems.                                                 *)

\* Every behaviour of the loops keeps the invariant.
THEOREM TriggerInvariance == TriggerSpec => []TriggerInv
  <1>1. TriggerInv /\ [TriggerNext]_triggerVars => TriggerInv'
    <2> SUFFICES ASSUME TriggerInv, [TriggerNext]_triggerVars PROVE TriggerInv'
      OBVIOUS
    <2>1. CASE UNCHANGED triggerVars
      BY <2>1 DEF triggerVars, TriggerInv, TriggerTypeOK, UserFits, HourKept, SleepFits,
                  CloseKept, Opened
    <2> QED
      BY <2>1, TickKeeps, PlaceMarkerKeeps, StartKeeps, StopKeeps, RoundKeeps, CrawledKeeps,
         GateAnswersKeeps, RoundFailsKeeps, CycleEndsKeeps DEF TriggerNext, TriggerStep
  <1> QED
    BY <1>1, TriggerStarts, PTL DEF TriggerSpec

\* TriggerTypeOK holds of every run of the loops.
THEOREM TriggerTypes == TriggerSpec => []TriggerTypeOK
  <1>1. TriggerInv => TriggerTypeOK
    BY DEF TriggerInv
  <1> QED
    BY <1>1, TriggerInvariance, PTL

\* OncePerHour holds of every step: the clock alone, a restart of the loop or a
\* failed round never has an hour run a second cycle.
THEOREM HoursRunOnce == TriggerSpec => OncePerHour
  <1>1. TriggerInv => [\A u \in Users :
                        /\ loop[u].at = "gate" /\ loop'[u].at = "cycle"
                        /\ begun[u] # Never /\ begun[u] = Hour(now)
                        => Opened(u) \/ anchor[u].hour = Never]_triggerVars
    <2> SUFFICES ASSUME TriggerInv, NEW u \in Users, loop[u].at = "gate", begun[u] = Hour(now)
                 PROVE  Opened(u) \/ anchor[u].hour = Never
      OBVIOUS
    <2>1. HourKept(u) /\ Hour(now) \in Nat
      BY UserTypes, ThisHour DEF UserFits
    <2> QED
      BY <2>1 DEF HourKept
  <1> QED
    BY <1>1, TriggerInvariance, PTL DEF OncePerHour

\* HoursAreServed holds of every run: a loop that sleeps with an hour unserved
\* fell asleep before that hour, or before the market opened.
THEOREM HoursGetServed == TriggerSpec => []HoursAreServed
  <1>1. TriggerInv => HoursAreServed
    <2> SUFFICES ASSUME TriggerInv, NEW u \in Users, loop[u].at = "asleep",
                        anchor[u].hour \notin {Never, Hour(now)}
                 PROVE  \E m \in (now - Interval)..now :
                          Hour(m) # Hour(now) \/ SessionAt(m) \notin Live
      BY DEF HoursAreServed
    <2> DEFINE m == now + loop[u].left - Interval
    <2>1. SleepFits(u) /\ loop[u].left \in Nat /\ now \in Nat /\ Interval \in Nat
      BY UserTypes, ThisHour, TriggerAssumption DEF UserFits, LoopRecords
    <2>2. m \in (now - Interval)..now
      BY <2>1 DEF SleepFits
    <2>3. Hour(m) # Hour(now) \/ SessionAt(m) \notin Live
      BY <2>1 DEF SleepFits
    <2> QED
      BY <2>2, <2>3
  <1> QED
    BY <1>1, TriggerInvariance, PTL

\* A round that ends without a cycle remembers the session it has read.
LEMMA RoundRemembers ==
  ASSUME TriggerInv, TriggerNext, NEW u \in Users,
         loop[u].at \in {"crawl", "gate"}, loop'[u].at = "asleep"
  PROVE  anchor'[u].session \in {anchor[u].session, loop[u].session}
  <1>1. /\ loop[u] \in LoopRecords /\ anchor[u] \in Anchors
        /\ loop \in [Users -> LoopRecords] /\ anchor \in [Users -> Anchors]
    BY UserTypes DEF TriggerInv, TriggerTypeOK, LoopRecords, Anchors
  <1>2. CASE UNCHANGED anchor
    BY <1>2
  <1>3. ASSUME NEW q \in Users, anchor' = [anchor EXCEPT ![q] = RoundEnds(q)]
        PROVE  anchor'[u].session \in {anchor[u].session, loop[u].session}
    <2>1. RoundEnds(u).session = loop[u].session
      BY <1>1 DEF RoundEnds, Anchors
    <2> QED
      BY <1>1, <1>3, <2>1
  <1>4. ASSUME NEW q \in Users, anchor' = [anchor EXCEPT ![q] = Skipped(q)]
        PROVE  anchor'[u].session \in {anchor[u].session, loop[u].session}
    <2>1. Skipped(u).session = loop[u].session
      BY DEF Skipped
    <2> QED
      BY <1>1, <1>4, <2>1
  <1>5. ASSUME NEW q \in Users, Start(q) \/ CycleEnds(q)
        PROVE  anchor'[u] = anchor[u]
    <2>1. loop[q].at \in {"off", "cycle"} /\ q # u
      BY <1>5 DEF Start, CycleEnds
    <2> QED
      BY <1>1, <1>5, <2>1 DEF Start, CycleEnds
  <1>6. ASSUME NEW q \in Users, Crawled(q) \/ GateAnswers(q)
        PROVE  anchor'[u].session \in {anchor[u].session, loop[u].session}
    <2>1. \/ UNCHANGED anchor
          \/ anchor' = [anchor EXCEPT ![q] = RoundEnds(q)]
          \/ anchor' = [anchor EXCEPT ![q] = Skipped(q)]
      BY <1>6 DEF Crawled, GateAnswers, Proceeds, PassesBy, SkipsRound
    <2> QED
      BY <1>2, <1>3, <1>4, <2>1
  <1>7. CASE \/ Tick
             \/ \E q \in Users : PlaceMarker(q) \/ Stop(q) \/ Round(q) \/ RoundFails(q)
    BY <1>2, <1>7 DEF Tick, PlaceMarker, Stop, Round, RoundFails
  <1> QED
    BY <1>5, <1>6, <1>7 DEF TriggerNext, TriggerStep

\* ClosesAreAlerted holds of every step: of a market that a loop has seen trade, no
\* round that ends without a cycle misses the close, however long it crawled.
THEOREM ClosesGetAlerted == TriggerSpec => ClosesAreAlerted
  <1>1. TriggerInv /\ [TriggerNext]_triggerVars =>
          [\A u \in Users, mkt \in Markets :
             /\ mkt \in verified[u]
             /\ loop[u].at \in {"crawl", "gate"} /\ loop'[u].at = "asleep"
             /\ anchor[u].session = Regular(mkt) /\ anchor'[u].session # Regular(mkt)
             => alerts[u][mkt] > 0]_triggerVars
    <2> SUFFICES ASSUME TriggerInv, TriggerNext, NEW u \in Users, NEW mkt \in Markets,
                        mkt \in verified[u],
                        loop[u].at \in {"crawl", "gate"}, loop'[u].at = "asleep",
                        anchor[u].session = Regular(mkt), anchor'[u].session # Regular(mkt)
                 PROVE  alerts[u][mkt] > 0
      BY DEF triggerVars
    <2>1. CloseKept(u, mkt)
      BY UserTypes DEF UserFits
    <2>2. loop[u].session # Regular(mkt)
      BY RoundRemembers
    <2> QED
      BY <2>1, <2>2 DEF CloseKept
  <1> QED
    BY <1>1, TriggerInvariance, PTL DEF ClosesAreAlerted, TriggerSpec

----------------------------------------------------------------------------
(* The cycle: the budget.  The locals keep their fields, nothing is spent  *)
(* before the gate, and from then on the account read for the draft stays. *)

\* What the gate lets through, order by order, is measured against the budget.
GateBudget == spent = 0 \/ (cyc.bp.cash > 0 => spent * 100 <= cyc.bp.cash * CycleRatio)

BudgetInv ==
  /\ "bp" \in DOMAIN cyc
  /\ stage \in {"collect", "macro", "select", "quant", "sleeves", "finalize", "build"} => spent = 0
  /\ GateBudget

LEMMA BlankFields == "bp" \in DOMAIN Blank /\ Blank.bp.cash = 0
  BY DEF Blank

\* The invariant holds when a run starts: the locals are blank.
LEMMA BudgetInit == Init => BudgetInv
  <1> SUFFICES ASSUME Init PROVE BudgetInv
    OBVIOUS
  <1>1. cyc = Blank /\ spent = 0 /\ stage = "idle"
    BY DEF Init
  <1> QED
    BY <1>1, BlankFields DEF BudgetInv, GateBudget

\* A step that keeps what is spent and the account of the draft.
LEMMA BudgetFrame ==
  ASSUME BudgetInv, "bp" \in DOMAIN cyc', cyc'.bp = cyc.bp, spent' = spent,
         stage' \in {"collect", "macro", "select", "quant", "sleeves", "finalize", "build"}
           => spent = 0
  PROVE  BudgetInv'
  BY DEF BudgetInv, GateBudget

\* Every step keeps the invariant; only Check adds to what is spent.
LEMMA BudgetStep == BudgetInv /\ [Next]_vars => BudgetInv'
  <1> SUFFICES ASSUME BudgetInv, [Next]_vars PROVE BudgetInv'
    OBVIOUS
  <1> USE DEF BudgetInv
  <1>1. CASE Clock
    BY <1>1 DEF Clock, GateBudget
  <1>2. ASSUME NEW opened \in BOOLEAN, NEW news \in BOOLEAN, CycleBegins(opened, news)
        PROVE  BudgetInv'
    BY <1>2, BlankFields DEF CycleBegins, GateBudget
  <1>3. CASE Collect
    BY <1>3, BudgetFrame DEF Collect, Moves, Keeps
  <1>4. ASSUME NEW sums, NEW full, NewsMacro(sums, full)
        PROVE  BudgetInv'
    BY <1>4, BudgetFrame DEF NewsMacro, Moves, Keeps
  <1>5. ASSUME NEW picks, NEW news, NEW screened, NEW known, Select(picks, news, screened, known)
        PROVE  BudgetInv'
    BY <1>5, BudgetFrame DEF Select, Moves, Keeps
  <1>6. ASSUME NEW noData, Quant(noData)
        PROVE  BudgetInv'
    BY <1>6, BudgetFrame DEF Quant, Moves, Keeps
  <1>7. ASSUME NEW answer, NEW h, NEW failed, SleeveStage(answer, h, failed)
        PROVE  BudgetInv'
    BY <1>7, BudgetFrame DEF SleeveStage, Moves, Keeps
  <1>8. ASSUME NEW final, NEW said, FinalizeSell(final, said)
        PROVE  BudgetInv'
    BY <1>8, BudgetFrame DEF FinalizeSell, Moves, Keeps
  <1>9. CASE Build
    <2>1. "bp" \in DOMAIN cyc' /\ spent' = spent /\ stage = "build" /\ stage' = "risk" /\ spent = 0
      BY <1>9 DEF Build, BuildOrders, Moves, Keeps
    <2> QED
      BY <2>1 DEF GateBudget
  <1>10. CASE Check
    <2> DEFINE o == Head(cyc.drafts)
               ok == Approves(o, cyc.bp, spent)
    <2>1. /\ "bp" \in DOMAIN cyc' /\ cyc'.bp = cyc.bp /\ stage' = stage /\ stage = "risk"
          /\ spent' = IF ok THEN SpentAfter(o, spent) ELSE spent
      BY <1>10 DEF Check
    <2>2. CASE ~ok \/ ~(o.side = "buy" /\ ~IsSleeve(o.t))
      <3>1. spent' = spent
        BY <2>1, <2>2 DEF SpentAfter
      <3> QED
        BY <2>1, <3>1, BudgetFrame
    <2>3. CASE ok /\ o.side = "buy" /\ ~IsSleeve(o.t)
      <3>1. spent' = spent + Cost(o)
        BY <2>1, <2>3 DEF SpentAfter
      <3>2. cyc.bp.cash > 0 => (spent + Cost(o)) * 100 <= cyc.bp.cash * CycleRatio
        BY <2>3 DEF Approves, WithinLimits
      <3> QED
        BY <2>1, <3>1, <3>2 DEF GateBudget
    <2> QED
      BY <2>2, <2>3
  <1>11. ASSUME NEW vetoed, Review(vetoed)
         PROVE  BudgetInv'
    BY <1>11, BudgetFrame DEF Review, Moves, Keeps
  <1>12. CASE Attempt
    <2>1. stage = "execute"
      BY <1>12 DEF Attempt
    <2>2. PICK o : Dealt(o)
      BY <1>12 DEF Attempt, HoldBack, NxtRefuses, Sent, Fills
    <2>3. cyc' = [cyc EXCEPT !.queue = Tail(@)] /\ stage' = stage /\ spent' = spent
      BY <2>2 DEF Dealt
    <2> QED
      BY <2>1, <2>3, BudgetFrame
  <1>13. CASE Report \/ CycleFails
    BY <1>13, BlankFields DEF Report, CycleFails, GateBudget
  <1>14. CASE UNCHANGED vars
    BY <1>14 DEF vars, GateBudget
  <1> QED
    BY <1>1, <1>2, <1>3, <1>4, <1>5, <1>6, <1>7, <1>8, <1>9, <1>10, <1>11, <1>12, <1>13, <1>14
       DEF Next

----------------------------------------------------------------------------
(* The cycle: what the extended market is asked.  A refused code is learned. *)

LearnedInv ==
  /\ refusals \in [Tickers -> Nat]
  /\ \A t \in Tickers : refusals[t] <= 1 /\ (refusals[t] # 0 => t \in blocked)

\* What earlier cycles learned, they learned by a refusal.
LEMMA LearnedInit == Init => LearnedInv
  BY DEF Init, LearnedInv

\* Only a refusal touches either variable, and only of a code not yet learned.
LEMMA LearnedStep == LearnedInv /\ [Next]_vars => LearnedInv'
  <1> SUFFICES ASSUME LearnedInv, [Next]_vars PROVE LearnedInv'
    OBVIOUS
  <1>1. ASSUME UNCHANGED <<blocked, refusals>> PROVE LearnedInv'
    BY <1>1 DEF LearnedInv
  <1>2. ASSUME NEW o, NEW sellable, NEW quoted, NxtRefuses(o, sellable, quoted)
        PROVE  LearnedInv'
    <2>1. o.t \in KR /\ o.t \notin blocked
      BY <1>2 DEF NxtRefuses, Sends, Passes, ToNxt
    <2>2. blocked' = blocked \cup {o.t} /\ refusals' = [refusals EXCEPT ![o.t] = @ + 1]
      BY <1>2 DEF NxtRefuses
    <2>3. refusals[o.t] = 0
      BY <2>1, SleeveAssumption DEF LearnedInv
    <2> QED
      BY <2>1, <2>2, <2>3, SleeveAssumption DEF LearnedInv
  <1>3. CASE Attempt
    BY <1>1, <1>2, <1>3 DEF Attempt, HoldBack, Sent, Fills
  <1>4. CASE ~Attempt
    <2>1. UNCHANGED <<blocked, refusals>>
      BY <1>4 DEF Next, vars, market, Keeps, Clock, CycleBegins, Collect, NewsMacro, Select, Quant,
                  SleeveStage, FinalizeSell, Build, BuildOrders, Check, Review, Report, CycleFails
    <2> QED
      BY <2>1, <1>1
  <1> QED
    BY <1>3, <1>4

\* NxtRefusesOnce holds of every run, of any cycles and accounts before it.
THEOREM RefusedOnce == Spec => []NxtRefusesOnce
  <1>1. LearnedInv => NxtRefusesOnce
    BY DEF LearnedInv, NxtRefusesOnce
  <1> QED
    BY LearnedInit, LearnedStep, <1>1, PTL DEF Spec

----------------------------------------------------------------------------
(* The cycle: sizing and gate.                                             *)

\* A quotient, multiplied back, is no more than what was divided.
LEMMA QuotientBound ==
  ASSUME NEW a \in Int, NEW b \in Nat, b > 0, NEW q \in Int, q <= a \div b
  PROVE  q * b <= a
  <1>1. (a \div b) * b <= a
    OBVIOUS
  <1>2. (a \div b) \in Int
    OBVIOUS
  <1>3. q * b <= (a \div b) * b
    BY <1>2
  <1> QED
    BY <1>1, <1>2, <1>3

\* The least of four integers, and of a fifth when it is positive.
LeastOf(a, b, c, d, e) == Min({a, b, c, d} \cup (IF e > 0 THEN {e} ELSE {}))

LEMMA LeastBound ==
  ASSUME NEW a \in Int, NEW b \in Int, NEW c \in Int, NEW d \in Int, NEW e \in Int
  PROVE  /\ LeastOf(a, b, c, d, e) \in Int /\ LeastOf(a, b, c, d, e) <= a
         /\ LeastOf(a, b, c, d, e) <= c /\ LeastOf(a, b, c, d, e) <= d
  <1> DEFINE S == {a, b, c, d} \cup (IF e > 0 THEN {e} ELSE {})
  <1>1. S \subseteq Int /\ a \in S /\ c \in S /\ d \in S
    OBVIOUS
  <1>2. \E x \in S : \A y \in S : x <= y
    OBVIOUS
  <1>3. LeastOf(a, b, c, d, e) = Min(S)
    BY DEF LeastOf
  <1> HIDE DEF S
  <1>4. Min(S) \in S /\ \A y \in S : Min(S) <= y
    BY <1>1, <1>2 DEF Min
  <1> QED
    BY <1>1, <1>3, <1>4

\* A budget for one order is a natural number, within the cash.
LEMMA PerOrderType ==
  ASSUME NEW funds \in Nat, NEW total \in Nat, NEW opened \in BOOLEAN
  PROVE  /\ PerOrder(funds, total, opened) \in Nat /\ PerOrder(funds, total, opened) <= 100 * funds
         /\ (funds = 0 => PerOrder(funds, total, opened) = 0)
  <1> DEFINE ratio == IF opened THEN Min({100, 5 * PerOrderRatio}) ELSE PerOrderRatio
  <1>1. Min({100, 5 * PerOrderRatio}) \in Nat
    <2> DEFINE x == 5 * PerOrderRatio
    <2>1. x \in Nat
      BY GateAssumption
    <2> HIDE DEF x
    <2>2. Min({100, x}) \in {100, x}
      BY <2>1, SmallerOf
    <2> QED
      BY <2>1, <2>2 DEF x
  <1>2. ratio \in Nat
    BY <1>1, GateAssumption
  <1>3. PerOrder(funds, total, opened) = Min({total * ratio, 100 * funds})
    BY DEF PerOrder
  <1> HIDE DEF ratio
  <1> DEFINE x == total * ratio
             y == 100 * funds
  <1>4. x \in Nat /\ y \in Nat /\ (funds = 0 => y = 0)
    BY <1>2
  <1> HIDE DEF x, y
  <1>5. Min({x, y}) \in {x, y} /\ Min({x, y}) <= y
    BY <1>4, SmallerOf
  <1> QED
    BY <1>3, <1>4, <1>5 DEF x, y

\* An order cut to BuyQty, or below it by the clamps, breaks none of the gate's
\* limits that the sizing has too, for any account, prices and ratios, at an
\* opening as at any time; and not the buffer's either, where a cycle's share of
\* the cash leaves the buffer.
THEOREM SizedDraftPasses ==
  ASSUME NEW t \in Tickers, ~IsSleeve(t), NEW funds \in Nat, NEW total \in Nat,
         NEW opened \in BOOLEAN, NEW n \in Nat \ {0}, NEW w \in Nat, NEW used \in Nat,
         NEW q \in Nat \ {0}, q <= BuyQty(t, funds, total, opened, n, w, used), q <= QtyCeiling
  PROVE  AsSized(Order(t, "buy", q, "sized"), funds, total, used)
  <1> DEFINE p == Price[t]
             cap == total * StockRatio
             left == Max({0, funds * CycleRatio - 100 * used})
             per == PerOrder(funds, total, opened) \div (100 * p)
             share == (funds * CycleRatio * w) \div (10000 * n * p)
  <1> USE SleeveAssumption, GateAssumption
  <1>1. p \in Nat /\ p > 0 /\ 100 * p \in Nat /\ 100 * p > 0
    OBVIOUS
  <1>2. cap \in Nat /\ funds * CycleRatio \in Nat
    OBVIOUS
  <1>3. left \in Nat /\ (left = 0 \/ left = funds * CycleRatio - 100 * used)
    <2> DEFINE z == funds * CycleRatio - 100 * used
    <2>1. z \in Int
      BY <1>2
    <2> HIDE DEF z
    <2>2. \E x \in {0, z} : \A y \in {0, z} : x >= y
      BY <2>1
    <2>3. Max({0, z}) \in {0, z} /\ Max({0, z}) >= 0
      BY <2>1, <2>2 DEF Max
    <2> QED
      BY <2>1, <2>3 DEF z
  <1>4. PerOrder(funds, total, opened) \in Int /\ PerOrder(funds, total, opened) <= 100 * funds
    BY PerOrderType
  <1>5. per \in Int /\ share \in Int /\ cap \div (100 * p) \in Int /\ left \div (100 * p) \in Int
    <2>1. 10000 * n * p \in Nat /\ 10000 * n * p > 0 /\ funds * CycleRatio * w \in Nat
      BY <1>1, <1>2
    <2> QED
      BY <1>1, <1>2, <1>3, <1>4, <2>1
  <1>6. q <= per /\ q <= cap \div (100 * p) /\ q <= left \div (100 * p)
    <2> DEFINE x == cap \div (100 * p)
               y == left \div (100 * p)
    <2> HIDE DEF x, y, per, share
    <2>1. per \in Int /\ share \in Int /\ x \in Int /\ y \in Int
      BY <1>5 DEF x, y
    <2>2. BuyQty(t, funds, total, opened, n, w, used) = LeastOf(per, share, x, y, MaxOrderQty)
      BY DEF BuyQty, StockCap, LeastOf, x, y, per, share
    <2>3. MaxOrderQty \in Int
      BY GateAssumption
    <2>4. /\ LeastOf(per, share, x, y, MaxOrderQty) \in Int
          /\ LeastOf(per, share, x, y, MaxOrderQty) <= per
          /\ LeastOf(per, share, x, y, MaxOrderQty) <= x
          /\ LeastOf(per, share, x, y, MaxOrderQty) <= y
      BY ONLY <2>1, <2>3, LeastBound
    <2>5. q <= LeastOf(per, share, x, y, MaxOrderQty) /\ q \in Int
      BY <2>2
    <2>6. q <= per /\ q <= x /\ q <= y
      BY ONLY <2>1, <2>4, <2>5
    <2> QED
      BY <2>6 DEF x, y
  <1>7. q * (100 * p) <= cap /\ q * (100 * p) <= left /\ q * (100 * p) <= 100 * funds
    <2> DEFINE m == 100 * p
               P == PerOrder(funds, total, opened)
    <2>1. m \in Nat /\ m > 0 /\ P \in Int /\ P <= 100 * funds /\ q <= P \div m
      BY <1>1, <1>4, <1>6
    <2>2. q <= cap \div m /\ q <= left \div m
      BY <1>6
    <2> HIDE DEF m, P, cap, left
    <2>3. q * m <= P
      BY <2>1, QuotientBound
    <2>4. q * m <= cap /\ q * m <= left
      BY <1>2, <1>3, <2>1, <2>2, QuotientBound
    <2>5. q * m \in Nat
      BY <2>1
    <2> QED
      BY <2>1, <2>3, <2>4, <2>5 DEF m
  <1> DEFINE cost == q * p
  <1>8. cost \in Nat /\ cost > 0 /\ cost * 100 = q * (100 * p)
    BY <1>1
  <1>9. Cost(Order(t, "buy", q, "sized")) = cost
    BY DEF Cost, Order
  <1> HIDE DEF cost, p, left, cap
  <1>10. cost * 100 <= funds * CycleRatio - 100 * used
    BY <1>3, <1>7, <1>8
  <1>11. (used + cost) * 100 <= funds * CycleRatio
    BY <1>2, <1>8, <1>10
  <1>12. ASSUME CycleRatio * Buffer <= 10000 PROVE cost * Buffer <= funds * 100
    <2>1. cost * 100 <= funds * CycleRatio
      BY <1>2, <1>8, <1>10
    <2>2. (cost * 100) * Buffer <= (funds * CycleRatio) * Buffer
      BY <2>1, <1>2, <1>8
    <2>3. (funds * CycleRatio) * Buffer <= funds * 10000
      BY <1>2, <1>12
    <2>4. (cost * Buffer) * 100 <= funds * 10000
      BY <2>2, <2>3, <1>8
    <2> QED
      BY <2>4, <1>8
  <1>15. cost <= funds
    BY <1>7, <1>8
  <1> DEFINE o == Order(t, "buy", q, "sized")
  <1>13. o.t = t /\ o.qty = q
    BY DEF Order
  <1>14. cost * 100 <= total * StockRatio
    BY <1>7, <1>8 DEF cap
  <1> QED
    BY <1>9, <1>11, <1>12, <1>13, <1>14, <1>15 DEF AsSized

----------------------------------------------------------------------------
(* The cycle: what the drafts of purchases are.                            *)

\* Of a single order: no larger than the sizing granted it at some opening, share
\* of the budget and tilt, when "used" was spent before it.
Cuts(o, funds, total, used) ==
  \E opened \in BOOLEAN, n \in Nat \ {0}, w \in Nat :
    o.qty <= BuyQty(o.t, funds, total, opened, n, w, used)

LEMMA QuotientNat ==
  ASSUME NEW a \in Nat, NEW b \in Nat \ {0}
  PROVE  a \div b \in Nat
  OBVIOUS

\* The sizing computes with integers throughout.
LEMMA BuyQtyNat ==
  ASSUME NEW t \in Tickers, NEW funds \in Nat, NEW total \in Nat, NEW opened \in BOOLEAN,
         NEW n \in Nat \ {0}, NEW w \in Nat, NEW used \in Nat
  PROVE  BuyQty(t, funds, total, opened, n, w, used) \in Int
  <1> DEFINE p == Price[t]
             left == Max({0, funds * CycleRatio - 100 * used})
             a == PerOrder(funds, total, opened) \div (100 * p)
             b == (funds * CycleRatio * w) \div (10000 * n * p)
             c == StockCap(total, opened) \div (100 * p)
             d == left \div (100 * p)
  <1> USE SleeveAssumption, GateAssumption
  <1>1. p \in Nat \ {0}
    OBVIOUS
  <1> HIDE DEF p
  <1>2. 100 * p \in Nat \ {0} /\ 10000 * n * p \in Nat \ {0}
    BY <1>1
  <1>3. StockCap(total, opened) \in Nat /\ funds * CycleRatio \in Nat
    BY DEF StockCap
  <1>4. funds * CycleRatio * w \in Nat /\ funds * CycleRatio - 100 * used \in Int
    BY <1>3
  <1>5. left \in Nat
    <2> DEFINE z == funds * CycleRatio - 100 * used
    <2>1. z \in Int
      BY <1>4
    <2> HIDE DEF z
    <2>2. Max({0, z}) \in {0, z} /\ Max({0, z}) >= 0
      <3>1. \E x \in {0, z} : \A y \in {0, z} : x >= y
        BY <2>1
      <3> QED
        BY <2>1, <3>1 DEF Max
    <2> QED
      BY <2>1, <2>2 DEF z
  <1> HIDE DEF left
  <1>6. a \in Int /\ b \in Int /\ c \in Int /\ d \in Int
    <2>1. PerOrder(funds, total, opened) \in Nat
      BY PerOrderType
    <2> DEFINE P == PerOrder(funds, total, opened)
               S == StockCap(total, opened)
               B == funds * CycleRatio * w
               x == 100 * p
               y == 10000 * n * p
    <2>2. P \in Nat /\ S \in Nat /\ B \in Nat /\ x \in Nat \ {0} /\ y \in Nat \ {0}
      BY <1>2, <1>3, <1>4, <2>1
    <2> HIDE DEF P, S, B, x, y
    <2>3. P \div x \in Nat /\ B \div y \in Nat /\ S \div x \in Nat /\ left \div x \in Nat
      BY <1>5, <2>2, QuotientNat
    <2> QED
      BY <2>3 DEF P, S, B, x, y
  <1>7. BuyQty(t, funds, total, opened, n, w, used) = LeastOf(a, b, c, d, MaxOrderQty)
    BY DEF BuyQty, LeastOf, StockCap, a, b, c, d, p, left
  <1> HIDE DEF a, b, c, d
  <1>8. LeastOf(a, b, c, d, MaxOrderQty) \in Int
    BY <1>6, LeastBound
  <1> QED
    BY <1>7, <1>8
  \* A purchase of a stock's track, of target t, when "used" was spent before it.
  IsDraft(o, t, funds, total, used) ==
    /\ o \in Orders /\ o.t = t /\ o.side = "buy" /\ o.by \in {"sized", "share"} /\ o.qty >= 1
    /\ o.by = "sized" => Cuts(o, funds, total, used)

\* A target's draft is one order or none.
LEMMA DraftOf ==
  ASSUME NEW t \in Tickers, NEW funds \in Nat, NEW total \in Nat, NEW opened \in BOOLEAN,
         NEW n \in Nat \ {0}, NEW w \in Nat, NEW used \in Nat
  PROVE  LET d == Draft(t, funds, total, opened, n, w, used)
         IN d = <<>> \/ \E o : d = <<o>> /\ IsDraft(o, t, funds, total, used)
  <1> DEFINE q == BuyQty(t, funds, total, opened, n, w, used)
             o == Order(t, "buy", q, "sized")
             p == Order(t, "buy", 1, "share")
             d == Draft(t, funds, total, opened, n, w, used)
  <1>1. q \in Int
    BY BuyQtyNat
  <1>2. q >= 1 => IsDraft(o, t, funds, total, used)
    <2> SUFFICES ASSUME q >= 1 PROVE IsDraft(o, t, funds, total, used)
      OBVIOUS
    <2>1. o.qty <= BuyQty(o.t, funds, total, opened, n, w, used)
      <3>1. o.qty = q /\ o.t = t
        BY DEF Order
      <3> QED
        BY <1>1, <3>1
    <2>2. Cuts(o, funds, total, used)
      BY <2>1 DEF Cuts
    <2> HIDE DEF q
    <2>3. o \in Orders /\ o.t = t /\ o.side = "buy" /\ o.by = "sized" /\ o.qty = q
      BY <1>1 DEF Order, Orders
    <2> QED
      BY <2>2, <2>3 DEF IsDraft
  <1>3. IsDraft(p, t, funds, total, used)
    BY DEF IsDraft, Order, Orders
  <1>4. d = IF q >= 1 THEN <<o>> ELSE IF OneShare(t, funds) THEN <<p>> ELSE <<>>
    BY DEF Draft
  <1> HIDE DEF q, o, p, d
  <1> QED
    BY <1>2, <1>3, <1>4 DEF d

\* The drafts of a list of purchases: each knows what was spent before it.
Drafted(s, used, targets, funds, total) ==
  /\ s \in Seq(Orders) /\ used \in [1..Len(s) -> Nat]
  /\ \A i \in 1..Len(s) : \E t \in targets : IsDraft(s[i], t, funds, total, used[i])
  /\ \A i, j \in 1..Len(s) : i < j => used[i] + Cost(s[i]) <= used[j]

LEMMA CostNat == ASSUME NEW o \in Orders PROVE Cost(o) \in Nat
  BY SleeveAssumption DEF Cost, Orders

\* The next draft is one more purchase, with all the earlier ones paid.
LEMMA DraftAdded ==
  ASSUME NEW s, NEW used, NEW targets, NEW funds, NEW total, Drafted(s, used, targets, funds, total),
         NEW paid \in Nat, \A i \in 1..Len(s) : used[i] + Cost(s[i]) <= paid,
         NEW t \in targets, NEW o, IsDraft(o, t, funds, total, paid)
  PROVE  /\ paid + Cost(o) \in Nat
         /\ \E u : /\ Drafted(Append(s, o), u, targets, funds, total)
                  /\ \A i \in 1..Len(Append(s, o)) :
                       u[i] + Cost(Append(s, o)[i]) <= paid + Cost(o)
  <1> DEFINE n == Len(s)
             r == Append(s, o)
             u == [i \in 1..(n + 1) |-> IF i = n + 1 THEN paid ELSE used[i]]
  <1>1. o \in Orders /\ Cost(o) \in Nat
    BY CostNat DEF IsDraft
  <1>2. s \in Seq(Orders) /\ n \in Nat /\ used \in [1..n -> Nat]
    BY DEF Drafted
  <1>3. r \in Seq(Orders) /\ Len(r) = n + 1 /\ r[n + 1] = o /\ \A i \in 1..n : r[i] = s[i]
    BY <1>1, <1>2
  <1>4. u \in [1..(n + 1) -> Nat] /\ u[n + 1] = paid /\ \A i \in 1..n : u[i] = used[i]
    BY <1>2
  <1>5. \A i \in 1..(n + 1) : i = n + 1 \/ i \in 1..n
    BY <1>2
  <1> HIDE DEF r, u
  <1>6. \A i \in 1..n : used[i] \in Nat /\ Cost(s[i]) \in Nat
    BY <1>2, CostNat
  <1>7. \A i \in 1..(n + 1) : \E x \in targets : IsDraft(r[i], x, funds, total, u[i])
    BY <1>3, <1>4, <1>5 DEF Drafted
  <1>8. \A i, j \in 1..(n + 1) : i < j => u[i] + Cost(r[i]) <= u[j]
    BY <1>2, <1>3, <1>4, <1>5 DEF Drafted
  <1>9. \A i \in 1..(n + 1) : u[i] + Cost(r[i]) <= paid + Cost(o)
    BY <1>1, <1>3, <1>4, <1>5, <1>6
  <1>10. Drafted(r, u, targets, funds, total)
    BY <1>3, <1>4, <1>7, <1>8 DEF Drafted
  <1> QED
    BY <1>1, <1>3, <1>9, <1>10 DEF r
  \* What a purchase may be of: a target, and in Korea not what is held, and not
  \* without cash.
  Buyable(targets, held, funds) ==
    {t \in ToSet(targets) : t \in KR => t \notin held /\ funds > 0}

\* What Purchases returns, for every list of targets.
LEMMA PurchasesDrafted ==
  ASSUME NEW targets \in Seq(Tickers), NEW held, NEW quoted, NEW funds \in Nat, NEW total \in Nat,
         NEW opened \in BOOLEAN, NEW weight, \A t \in ToSet(targets) : weight[t] \in Nat
  PROVE  \E used : \E paid \in Nat :
           LET P == Purchases(targets, held, quoted, funds, total, opened, weight)
           IN /\ Drafted(P, used, Buyable(targets, held, funds), funds, total)
              /\ \A i \in 1..Len(P) : used[i] + Cost(P[i]) <= paid
  <1> DEFINE W == Buyable(targets, held, funds)
             n == Max({1, Cardinality(ToSet(targets) \ held)})
             Wanted(t) == /\ t \in quoted
                          /\ t \in KR => t \notin held /\ PerOrder(funds, total, opened) > 0
                          /\ t \notin KR => UsAllowed
             Next1(acc, t) ==
               IF ~Wanted(t) THEN acc
               ELSE LET d == Draft(t, funds, total, opened, n, weight[t], acc.spent)
                    IN [orders |-> acc.orders \o d,
                        spent  |-> acc.spent + (IF d = <<>> THEN 0 ELSE Cost(d[1]))]
             len == Len(targets)
             base == [orders |-> <<>>, spent |-> 0]
             Fits(f) == f = [i \in 0..len |-> IF i = 0 THEN base ELSE Next1(f[i - 1], targets[i])]
             Ok(a) == \E used : /\ Drafted(a.orders, used, W, funds, total)
                               /\ \A i \in 1..Len(a.orders) : used[i] + Cost(a.orders[i]) <= a.spent
             A == {a \in [orders : Seq(Orders), spent : Nat] : Ok(a)}
  <1>1. n \in Nat \ {0}
    <2>1. IsFiniteSet(ToSet(targets) \ held)
      <3>1. ToSet(targets) \ held \in SUBSET Tickers
        BY DEF ToSet
      <3> QED
        BY <3>1, FS_Subset, SleeveAssumption
    <2> DEFINE c == Cardinality(ToSet(targets) \ held)
    <2>2. c \in Nat
      BY <2>1, FS_CardinalityType
    <2> HIDE DEF c
    <2>3. \E x \in {1, c} : \A y \in {1, c} : x >= y
      BY <2>2
    <2>4. Max({1, c}) \in {1, c} /\ Max({1, c}) >= 1
      BY <2>2, <2>3 DEF Max
    <2> QED
      BY <2>2, <2>4 DEF c
  <1> HIDE DEF n
  <1>2. base \in A
    <2>1. Drafted(<<>>, <<>>, W, funds, total)
      BY DEF Drafted
    <2>2. base \in [orders : Seq(Orders), spent : Nat] /\ base.orders = <<>> /\ base.spent = 0
      OBVIOUS
    <2> HIDE DEF base
    <2>3. Len(base.orders) = 0
      BY <2>2
    <2> QED
      BY <2>1, <2>2, <2>3
  <1>3. ASSUME NEW a \in A, NEW t \in ToSet(targets) PROVE Next1(a, t) \in A
    <2>1. CASE ~Wanted(t)
      BY <2>1
    <2>2. CASE Wanted(t)
      <3> DEFINE d == Draft(t, funds, total, opened, n, weight[t], a.spent)
      <3>1. t \in Tickers /\ weight[t] \in Nat /\ a.spent \in Nat /\ a.orders \in Seq(Orders)
        BY DEF ToSet
      <3>2. t \in W
        <4>1. t \in KR => t \notin held /\ funds > 0
          BY <2>2, PerOrderType
        <4> QED
          BY <4>1 DEF Buyable
      <3>3. d = <<>> \/ \E o : d = <<o>> /\ IsDraft(o, t, funds, total, a.spent)
        BY <1>1, <3>1, DraftOf
      <3>4. Next1(a, t) = [orders |-> a.orders \o d,
                           spent  |-> a.spent + (IF d = <<>> THEN 0 ELSE Cost(d[1]))]
        BY <2>2
      <3> HIDE DEF d, Next1
      <3>5. CASE d = <<>>
        <4>1. a.orders \o d = a.orders /\ a.spent + 0 = a.spent
          BY <3>1, <3>5
        <4>2. Next1(a, t) = [orders |-> a.orders, spent |-> a.spent]
          BY <3>4, <3>5, <4>1
        <4>3. Next1(a, t) = a
          BY <4>2
        <4> QED
          BY <4>3
      <3>6. ASSUME NEW o, d = <<o>>, IsDraft(o, t, funds, total, a.spent)
            PROVE  Next1(a, t) \in A
        <4> DEFINE b == [orders |-> Append(a.orders, o), spent |-> a.spent + Cost(o)]
        <4>1. o \in Orders
          BY <3>6 DEF IsDraft
        <4>2. a.orders \o d = Append(a.orders, o) /\ d # <<>> /\ d[1] = o
          BY <3>1, <3>6, <4>1
        <4>3. Next1(a, t) = b
          BY <3>4, <4>2
        <4>4. PICK used : /\ Drafted(a.orders, used, W, funds, total)
                          /\ \A i \in 1..Len(a.orders) : used[i] + Cost(a.orders[i]) <= a.spent
          OBVIOUS
        <4> DEFINE s == a.orders
                   paid == a.spent
        <4>5. /\ Drafted(s, used, W, funds, total) /\ paid \in Nat
              /\ \A i \in 1..Len(s) : used[i] + Cost(s[i]) <= paid
              /\ IsDraft(o, t, funds, total, paid)
          BY <3>1, <3>6, <4>4
        <4> HIDE DEF s, paid, W, A
        <4>6. /\ paid + Cost(o) \in Nat
              /\ \E u : /\ Drafted(Append(s, o), u, W, funds, total)
                       /\ \A i \in 1..Len(Append(s, o)) :
                            u[i] + Cost(Append(s, o)[i]) <= paid + Cost(o)
          BY <3>2, <4>5, DraftAdded
        <4>7. b.orders = Append(s, o) /\ b.spent = paid + Cost(o)
          BY DEF s, paid
        <4>8. b \in [orders : Seq(Orders), spent : Nat]
          BY <3>1, <4>1, <4>6 DEF s, paid
        <4> HIDE DEF b
        <4>9. Ok(b)
          BY <4>6, <4>7
        <4> QED
          BY <4>3, <4>8, <4>9 DEF A
      <3> QED
        BY <3>3, <3>5, <3>6
    <2> QED
      BY <2>1, <2>2
  <1>4. len \in Nat /\ \A i \in 1..len : targets[i] \in ToSet(targets)
    BY DEF ToSet
  <1> HIDE DEF A, Next1, base, len
  <1>5. \E f : Fits(f)
    <2> DEFINE nx == [i \in 1..len |-> [a \in A |-> Next1(a, targets[i])]]
    <2>1. nx \in [1..len -> [A -> A]]
      BY <1>3, <1>4
    <2>2. \A i \in 1..len : \A a \in A : nx[i][a] = Next1(a, targets[i])
      OBVIOUS
    <2> HIDE DEF nx
    <2>3. PICK g : Runs(g, len, A, base, nx)
      BY <1>2, <1>4, <2>1, Recursion, Zenon
    <2>4. ASSUME NEW i \in 0..len
          PROVE  g[i] = IF i = 0 THEN base ELSE Next1(g[i - 1], targets[i])
      <3>1. CASE i = 0
        BY <2>3, <3>1 DEF Runs
      <3>2. CASE i # 0
        <4>1. i \in 1..len /\ i - 1 \in 0..len
          BY <1>4, <3>2
        <4>2. g[i - 1] \in A /\ g[i] = nx[i][g[i - 1]]
          BY <2>3, <4>1 DEF Runs
        <4>3. g[i] = Next1(g[i - 1], targets[i])
          BY <2>2, <4>1, <4>2
        <4> QED
          BY <3>2, <4>3
      <3> QED
        BY <3>1, <3>2
    <2>5. g = [i \in 0..len |-> g[i]]
      BY <2>3 DEF Runs
    <2>6. Fits(g)
      BY <2>4, <2>5
    <2> HIDE DEF Fits
    <2> QED
      BY <2>6
  <1> DEFINE f == CHOOSE h : Fits(h)
  <1>6. Fits(f)
    <2> HIDE DEF Fits
    <2> QED
      BY <1>5
  <1>7. Purchases(targets, held, quoted, funds, total, opened, weight) = f[len].orders
    BY DEF Purchases, f, Next1, base, len, n
  <1> HIDE DEF f
  <1>8. f[0] = base /\ \A i \in 1..len : f[i] = Next1(f[i - 1], targets[i])
    <2>1. 0 \in 0..len /\ \A i \in 1..len : i \in 0..len /\ i # 0
      BY <1>4
    <2> QED
      BY <1>6, <2>1
  <1> DEFINE B == {i \in 0..len : f[i] \in A}
  <1>9. B = 0..len
    <2>1. 0 \in B
      BY <1>2, <1>4, <1>8
    <2>2. ASSUME NEW i \in 1..len, i - 1 \in B PROVE i \in B
      <3>1. i \in 0..len /\ f[i - 1] \in A /\ targets[i] \in ToSet(targets)
        BY <1>4, <2>2
      <3>2. f[i] \in A
        BY <1>3, <1>8, <3>1
      <3> QED
        BY <3>1, <3>2
    <2>3. B \in SUBSET (0..len)
      OBVIOUS
    <2> HIDE DEF B
    <2> QED
      BY <1>4, <2>1, <2>2, <2>3, Counting
  <1>10. f[len] \in A
    BY <1>4, <1>9
  <1> DEFINE P == Purchases(targets, held, quoted, funds, total, opened, weight)
             paid == f[len].spent
  <1>11. /\ paid \in Nat
         /\ \E used : Drafted(P, used, W, funds, total)
                     /\ \A i \in 1..Len(P) : used[i] + Cost(P[i]) <= paid
    BY <1>7, <1>10 DEF A
  <1> HIDE DEF P, paid
  <1> QED
    BY <1>11 DEF P

----------------------------------------------------------------------------
(* The cycle: lists of drafts.  "used" is what the sizing had spent before *)
(* each of them.                                                           *)

Paced(s, used) ==
  /\ s \in Seq(Orders) /\ used \in [1..Len(s) -> Nat]
  /\ \A i, j \in 1..Len(s) : i < j => SpentAfter(s[i], used[i]) <= used[j]

\* No two sales of one ticker.
Apart(s) ==
  \A i, j \in 1..Len(s) :
    i < j /\ s[i].side = "sell" /\ s[j].side = "sell" => s[i].t # s[j].t

LEMMA SpentNat ==
  ASSUME NEW o \in Orders, NEW u \in Nat
  PROVE  SpentAfter(o, u) \in Nat /\ u <= SpentAfter(o, u) /\ SpentAfter(o, u) <= u + Cost(o)
  BY CostNat DEF SpentAfter

\* A part of a list keeps its pace.
LEMMA ShortenedPace ==
  ASSUME NEW s, NEW used, Paced(s, used), NEW r \in Seq(Orders), Sublist(r, s)
  PROVE  /\ Apart(s) => Apart(r)
         /\ \E u : /\ Paced(r, u)
                   /\ \A j \in 1..Len(r) : \E i \in 1..Len(s) : r[j] = s[i] /\ u[j] = used[i]
  <1>1. PICK g \in [1..Len(r) -> 1..Len(s)] :
          /\ \A j \in 1..Len(r) : r[j] = s[g[j]]
          /\ \A i, j \in 1..Len(r) : i < j => g[i] < g[j]
    BY DEF Sublist
  <1>2. Apart(s) => Apart(r)
    BY <1>1 DEF Apart
  <1> DEFINE u == [j \in 1..Len(r) |-> used[g[j]]]
  <1>3. /\ u \in [1..Len(r) -> Nat]
        /\ \A j \in 1..Len(r) : g[j] \in 1..Len(s) /\ r[j] = s[g[j]] /\ u[j] = used[g[j]]
    BY <1>1 DEF Paced
  <1> HIDE DEF u
  <1>4. Paced(r, u)
    BY <1>1, <1>3 DEF Paced
  <1> QED
    BY <1>2, <1>3, <1>4

\* One list behind the other: the second begins where the first ends, and sells
\* nothing of what that sells.
Follows(b, ub, a, ua) ==
  \A i \in 1..Len(a), j \in 1..Len(b) : SpentAfter(a[i], ua[i]) <= ub[j]
SellsElse(a, b) ==
  \A i \in 1..Len(a), j \in 1..Len(b) :
    a[i].side = "sell" /\ b[j].side = "sell" => a[i].t # b[j].t

\* Two lists, one behind the other, have one pace.
LEMMA JoinedPace ==
  ASSUME NEW a, NEW ua, Paced(a, ua), NEW b, NEW ub, Paced(b, ub), Follows(b, ub, a, ua)
  PROVE  /\ Apart(a) /\ Apart(b) /\ SellsElse(a, b) => Apart(a \o b)
         /\ \E u : /\ Paced(a \o b, u)
                   /\ \A k \in 1..Len(a \o b) :
                        \/ \E i \in 1..Len(a) : (a \o b)[k] = a[i] /\ u[k] = ua[i]
                        \/ \E i \in 1..Len(b) : (a \o b)[k] = b[i] /\ u[k] = ub[i]
  <1> DEFINE c == a \o b
             m == Len(a)
             n == Len(b)
             u == [k \in 1..(m + n) |-> IF k \in 1..m THEN ua[k] ELSE ub[k - m]]
  <1>1. /\ a \in Seq(Orders) /\ b \in Seq(Orders) /\ m \in Nat /\ n \in Nat
        /\ ua \in [1..m -> Nat] /\ ub \in [1..n -> Nat]
    BY DEF Paced
  <1>2. /\ c \in Seq(Orders) /\ Len(c) = m + n
        /\ \A i \in 1..m : c[i] = a[i]
        /\ \A i \in 1..n : c[m + i] = b[i]
        /\ \A k \in 1..(m + n) : k \in 1..m \/ (k > m /\ k - m \in 1..n)
    BY <1>1, Concatenated
  <1> HIDE DEF c, m, n
  <1>3. \A k \in 1..(m + n) : k \notin 1..m => k - m \in 1..n /\ c[k] = b[k - m] /\ u[k] = ub[k - m]
    <2> SUFFICES ASSUME NEW k \in 1..(m + n), k \notin 1..m
                 PROVE  k - m \in 1..n /\ c[k] = b[k - m] /\ u[k] = ub[k - m]
      OBVIOUS
    <2>1. k - m \in 1..n /\ m + (k - m) = k
      BY <1>1, <1>2
    <2>2. c[k] = b[k - m]
      BY <1>2, <2>1
    <2> QED
      BY <2>1, <2>2
  <1>4. \A k \in 1..m : k \in 1..(m + n) /\ c[k] = a[k] /\ u[k] = ua[k]
    BY <1>1, <1>2
  <1>5. u \in [1..(m + n) -> Nat]
    <2>1. \A k \in 1..(m + n) : u[k] \in Nat
      BY <1>1, <1>3, <1>4
    <2>2. u = [k \in 1..(m + n) |-> u[k]]
      OBVIOUS
    <2> HIDE DEF u
    <2> QED
      BY <2>1, <2>2
  <1> HIDE DEF u
  <1>6. ASSUME NEW i \in 1..(m + n), NEW j \in 1..(m + n), i < j
        PROVE  SpentAfter(c[i], u[i]) <= u[j]
    <2>1. CASE i \in 1..m /\ j \in 1..m
      BY <1>4, <1>6, <2>1 DEF Paced, m
    <2>2. CASE i \in 1..m /\ j \notin 1..m
      BY <1>3, <1>4, <2>2 DEF Follows, m, n
    <2>3. CASE i \notin 1..m
      <3>1. j \notin 1..m /\ i - m < j - m
        BY <1>1, <1>6, <2>3
      <3> QED
        BY <1>3, <2>3, <3>1 DEF Paced, n
    <2> QED
      BY <2>1, <2>2, <2>3
  <1>7. Paced(c, u)
    BY <1>2, <1>5, <1>6 DEF Paced
  <1>8. ASSUME Apart(a), Apart(b), SellsElse(a, b)
        PROVE  Apart(c)
    <2> SUFFICES ASSUME NEW i \in 1..(m + n), NEW j \in 1..(m + n), i < j,
                        c[i].side = "sell", c[j].side = "sell"
                 PROVE  c[i].t # c[j].t
      BY <1>2 DEF Apart
    <2>1. CASE i \in 1..m /\ j \in 1..m
      BY <1>4, <1>8, <2>1 DEF Apart, m
    <2>2. CASE i \in 1..m /\ j \notin 1..m
      BY <1>3, <1>4, <1>8, <2>2 DEF SellsElse, m, n
    <2>3. CASE i \notin 1..m
      <3>1. j \notin 1..m /\ i - m < j - m
        BY <1>1, <2>3
      <3> QED
        BY <1>3, <1>8, <2>3, <3>1 DEF Apart, n
    <2> QED
      BY <2>1, <2>2, <2>3
  <1>9. \A k \in 1..Len(c) : \/ \E i \in 1..m : c[k] = a[i] /\ u[k] = ua[i]
                             \/ \E i \in 1..n : c[k] = b[i] /\ u[k] = ub[i]
    BY <1>2, <1>3, <1>4
  <1> QED
    BY <1>7, <1>8, <1>9 DEF c, m, n

----------------------------------------------------------------------------
(* The cycle: the parts of a draft.                                        *)

\* No directive and no rule sells more than is held.
LEMMA SoldBound ==
  ASSUME NEW t \in Tickers, NEW held \in Nat \ {0}, NEW directives, NEW mood, NEW total \in Nat
  PROVE  Sold(t, held, directives, mood, total) \in 0..held
  <1>1. Trim(t, held, total) \in 0..held
    <2> DEFINE over == held * Price[t] * 100 - total * StockRatio
               p == 100 * Price[t]
               n == over \div p + 1
    <2>1. p \in Nat \ {0} /\ over \in Int
      BY SleeveAssumption, GateAssumption
    <2>2. Trim(t, held, total) = IF t \in KR /\ total > 0 /\ over > 0 THEN Min({n, held}) ELSE 0
      BY DEF Trim
    <2> HIDE DEF over, p
    <2>3. over > 0 => over \div p \in Nat
      BY <2>1, QuotientNat
    <2>4. over > 0 => n \in Nat \ {0}
      BY <2>3
    <2> HIDE DEF n
    <2>5. over > 0 => Min({n, held}) \in {n, held} /\ Min({n, held}) <= held
      BY <2>4, SmallerOf
    <2> QED
      BY <2>2, <2>4, <2>5
  <1>2. Max({1, held \div 2}) \in 0..held
    <2> DEFINE half == held \div 2
    <2>1. half \in Nat /\ half <= held
      OBVIOUS
    <2> HIDE DEF half
    <2>2. \E x \in {1, half} : \A y \in {1, half} : x >= y
      BY <2>1
    <2>3. Max({1, half}) \in {1, half}
      BY <2>2 DEF Max
    <2> QED
      BY <2>1, <2>3 DEF half
  <1> QED
    BY <1>1, <1>2 DEF Sold

\* One order for each ticker of a set.
OneEach(S, f, D) ==
  D \subseteq Tickers /\ (\A t \in D : f[t] \in Orders /\ f[t].t = t) /\ S = {f[t] : t \in D}

\* A set of sales with one order for each ticker, as a list.
LEMMA SalesListed ==
  ASSUME NEW D, NEW f, NEW S, OneEach(S, f, D)
  PROVE  /\ SetToSeq(S) \in Seq(Orders) /\ Apart(SetToSeq(S))
         /\ \A i \in 1..Len(SetToSeq(S)) : \E t \in D : SetToSeq(S)[i] = f[t]
  <1> USE DEF OneEach
  <1> DEFINE s == SetToSeq(S)
  <1>1. IsFiniteSet(D)
    BY SleeveAssumption, FS_Subset
  <1>2. IsFiniteSet(S)
    BY <1>1, ImageFinite
  <1>3. S \subseteq Orders /\ \A x, y \in S : x.t = y.t => x = y
    OBVIOUS
  <1>4. \A x \in S : \E t \in D : x = f[t]
    OBVIOUS
  <1>5. s \in Seq(S) /\ \A i, j \in 1..Len(s) : s[i] = s[j] => i = j
    BY <1>2, SetAsList
  <1> HIDE DEF s
  <1>6. s \in Seq(Orders) /\ \A i \in 1..Len(s) : s[i] \in S
    BY <1>3, <1>5
  <1>7. Apart(s)
    <2> SUFFICES ASSUME NEW i \in 1..Len(s), NEW j \in 1..Len(s), i < j, s[i].t = s[j].t PROVE FALSE
      BY DEF Apart
    <2>1. s[i] = s[j]
      BY <1>3, <1>6
    <2> QED
      BY <1>5, <2>1
  <1> QED
    BY <1>4, <1>6, <1>7 DEF s

\* Nothing in a list is counted as spent: its pace is a constant.
LEMMA SteadyPace ==
  ASSUME NEW s \in Seq(Orders), NEW p \in Nat,
         \A i \in 1..Len(s) : s[i].side = "sell" \/ IsSleeve(s[i].t)
  PROVE  Paced(s, [i \in 1..Len(s) |-> p])
  <1> DEFINE u == [i \in 1..Len(s) |-> p]
  <1>1. u \in [1..Len(s) -> Nat] /\ \A i \in 1..Len(s) : u[i] = p
    OBVIOUS
  <1> HIDE DEF u
  <1>2. \A i \in 1..Len(s) : SpentAfter(s[i], u[i]) = p
    BY <1>1 DEF SpentAfter
  <1> QED
    BY <1>1, <1>2 DEF Paced, u

\* What Sales returns, for all directives and moods.
LEMMA SalesAre ==
  ASSUME NEW h \in Shares, NEW directives, NEW moods, NEW total \in Nat
  PROVE  LET s == Sales(h, directives, moods, total)
         IN /\ s \in Seq(Orders) /\ Apart(s)
            /\ \A i \in 1..Len(s) :
                 /\ s[i].side = "sell" /\ s[i].by = "stock" /\ s[i].qty >= 1
                 /\ s[i].t \in Held(h) /\ s[i].qty <= h[s[i].t]
  <1> DEFINE Qty(t) == Sold(t, h[t], directives, moods[t], total)
             D == {d \in Held(h) : Qty(d) >= 1}
             f == [t \in D |-> Order(t, "sell", Qty(t), "stock")]
             S == {f[t] : t \in D}
             s == SetToSeq(S)
  <1>1. D \in SUBSET Tickers
    BY DEF Held
  <1>2. ASSUME NEW t \in Held(h) PROVE Qty(t) \in 0..h[t] /\ h[t] \in Nat
    <2>1. t \in Tickers /\ h[t] \in Nat \ {0}
      BY DEF Held, Shares
    <2> QED
      BY <2>1, SoldBound
  <1> HIDE DEF Qty
  <1>3. \A t \in D : f[t] \in Orders /\ f[t].t = t /\ f[t].side = "sell" /\ f[t].by = "stock"
                     /\ f[t].qty >= 1 /\ f[t].qty <= h[t] /\ t \in Held(h)
    BY <1>1, <1>2 DEF Order, Orders
  <1>4. Sales(h, directives, moods, total) = s
    BY DEF Sales, Qty
  <1> HIDE DEF D, f
  <1>5. s \in Seq(Orders) /\ Apart(s) /\ \A i \in 1..Len(s) : \E t \in D : s[i] = f[t]
    <2>1. OneEach(S, f, D)
      BY <1>1, <1>3 DEF OneEach
    <2> HIDE DEF S
    <2> QED
      BY <2>1, SalesListed
  <1> HIDE DEF s
  <1> QED
    BY <1>3, <1>4, <1>5

\* What SleeveSales returns, for all directives.
LEMMA SleeveSalesAre ==
  ASSUME NEW h \in Shares, NEW directives
  PROVE  LET s == SleeveSales(directives, h, EnabledCodes)
         IN /\ s \in Seq(Orders) /\ Apart(s)
            /\ \A i \in 1..Len(s) :
                 /\ s[i].side = "sell" /\ s[i].by = "sleeve" /\ s[i].qty >= 1
                 /\ s[i].t \in EnabledCodes /\ s[i].qty <= h[s[i].t]
  <1> DEFINE Qty(t) == SleeveSold(directives[t], h[t])
             D == {d \in DOMAIN directives \cap EnabledCodes : Qty(d) >= 1}
             f == [t \in D |-> Order(t, "sell", Qty(t), "sleeve")]
             S == {f[t] : t \in D}
             s == SetToSeq(S)
  <1>1. EnabledCodes \subseteq Tickers
    BY SleeveAssumption DEF EnabledCodes, Codes
  <1>2. D \in SUBSET Tickers
    BY <1>1
  <1>3. ASSUME NEW t \in D PROVE Qty(t) \in 0..h[t] /\ h[t] \in Nat /\ Qty(t) >= 1 /\ t \in EnabledCodes
    <2>1. h[t] \in Nat
      BY <1>2 DEF Shares
    <2> QED
      BY <2>1 DEF SleeveSold
  <1> HIDE DEF Qty
  <1>4. \A t \in D : f[t] \in Orders /\ f[t].t = t /\ f[t].side = "sell" /\ f[t].by = "sleeve"
                     /\ f[t].qty >= 1 /\ f[t].qty <= h[t] /\ t \in EnabledCodes
    BY <1>2, <1>3 DEF Order, Orders
  <1>5. SleeveSales(directives, h, EnabledCodes) = s
    BY DEF SleeveSales, Qty
  <1> HIDE DEF D, f
  <1>6. s \in Seq(Orders) /\ Apart(s) /\ \A i \in 1..Len(s) : \E t \in D : s[i] = f[t]
    <2>1. OneEach(S, f, D)
      BY <1>2, <1>4 DEF OneEach
    <2> HIDE DEF S
    <2> QED
      BY <2>1, SalesListed
  <1> HIDE DEF s
  <1> QED
    BY <1>4, <1>5, <1>6

\* The clamps take away, and nothing else.
LEMMA ClampedIs ==
  ASSUME NEW o \in Orders, o.qty >= 1, NEW psbl, psbl[o.t] \in Nat
  PROVE  LET c == Clamped(o, psbl)
         IN /\ c \in Orders /\ c.t = o.t /\ c.side = o.side /\ c.by = o.by /\ c.qty <= o.qty
            /\ o.side = "buy" => c.qty <= QtyCeiling
            /\ o.side = "sell" => c.qty >= 1
  <1> DEFINE lim == psbl[o.t]
             most == Min({o.qty, QtyCeiling})
             cut == Min({most, lim})
             q == IF o.side = "buy" THEN cut
                  ELSE IF o.t \in KR /\ lim \in 1..o.qty THEN lim ELSE o.qty
  <1>1. QtyCeiling \in Nat
    BY GateAssumption DEF QtyCeiling
  <1>2. o.qty \in Nat /\ o.side \in {"buy", "sell"}
    BY DEF Orders
  <1>3. most \in Nat /\ most <= o.qty /\ most <= QtyCeiling
    <2> DEFINE x == o.qty
               y == QtyCeiling
    <2>1. x \in Nat /\ y \in Nat
      BY <1>1, <1>2
    <2> HIDE DEF x, y
    <2>2. Min({x, y}) \in {x, y} /\ Min({x, y}) <= x /\ Min({x, y}) <= y
      <3>1. x \in Int /\ y \in Int
        BY <2>1
      <3> QED
        BY ONLY <3>1, SmallerOf
    <2>3. most = Min({x, y})
      BY DEF x, y
    <2> QED
      BY <2>1, <2>2, <2>3 DEF x, y
  <1> HIDE DEF most
  <1>4. cut \in Nat /\ cut <= most
    <2>1. lim \in Nat
      OBVIOUS
    <2> HIDE DEF lim
    <2>2. most \in Int /\ lim \in Int
      BY <1>3, <2>1
    <2>3. cut \in {most, lim} /\ cut <= most
      BY ONLY <2>2, SmallerOf
    <2> QED
      BY <1>3, <2>1, <2>3
  <1> HIDE DEF cut
  <1>5. /\ q \in Nat /\ q <= o.qty /\ (o.side = "buy" => q <= QtyCeiling)
        /\ o.side = "sell" => q >= 1
    BY <1>1, <1>2, <1>3, <1>4
  <1>6. Clamped(o, psbl) = [o EXCEPT !.qty = q]
    <2>1. o = [o EXCEPT !.qty = o.qty]
      BY DEF Orders
    <2>2. CASE o.side = "buy"
      BY <2>2 DEF Clamped, cut, most
    <2>3. CASE o.side = "sell" /\ o.t \in KR /\ lim \in 1..o.qty
      BY <2>3 DEF Clamped
    <2>4. CASE o.side = "sell" /\ ~(o.t \in KR /\ lim \in 1..o.qty)
      BY <2>1, <2>4 DEF Clamped
    <2> QED
      BY <1>2, <2>2, <2>3, <2>4
  <1> HIDE DEF q
  <1>7. [o EXCEPT !.qty = q] \in Orders
    BY <1>5 DEF Orders
  <1>8. /\ [o EXCEPT !.qty = q].qty = q /\ [o EXCEPT !.qty = q].t = o.t
        /\ [o EXCEPT !.qty = q].side = o.side /\ [o EXCEPT !.qty = q].by = o.by
    BY DEF Orders
  <1> QED
    BY <1>5, <1>6, <1>7, <1>8

----------------------------------------------------------------------------
(* The cycle: the draft of the stocks.                                     *)

\* An order of the stocks' track, with "u" spent before it, of holdings h, of the
\* tickers W that may be bought.
Item(o, u, h, W, funds, total) ==
  /\ o \in Orders
  /\ o.side = "sell" => o.by = "stock" /\ o.qty >= 1 /\ o.t \in Held(h) /\ o.qty <= h[o.t]
  /\ o.side = "buy" => o.by \in {"sized", "share"} /\ o.t \in W
  /\ o.by = "sized" => Cuts(o, funds, total, u)

\* A list of them, of which no more than "paid" is spent.
Track(s, u, paid, h, W, funds, total) ==
  /\ Paced(s, u) /\ Apart(s)
  /\ \A i \in 1..Len(s) :
       Item(s[i], u[i], h, W, funds, total) /\ SpentAfter(s[i], u[i]) <= paid

\* The sales are a list of the stocks' track that spends nothing.
LEMMA SalesTrack ==
  ASSUME NEW h \in Shares, NEW directives, NEW moods, NEW total \in Nat, NEW funds, NEW W
  PROVE  LET s == Sales(h, directives, moods, total)
         IN Track(s, [i \in 1..Len(s) |-> 0], 0, h, W, funds, total)
  <1> DEFINE s == Sales(h, directives, moods, total)
             u == [i \in 1..Len(s) |-> 0]
  <1>1. /\ s \in Seq(Orders) /\ Apart(s)
        /\ \A i \in 1..Len(s) :
             /\ s[i].side = "sell" /\ s[i].by = "stock" /\ s[i].qty >= 1
             /\ s[i].t \in Held(h) /\ s[i].qty <= h[s[i].t]
    BY SalesAre
  <1> HIDE DEF s
  <1>2. Paced(s, u)
    BY <1>1, SteadyPace
  <1>3. \A i \in 1..Len(s) : u[i] = 0
    OBVIOUS
  <1> HIDE DEF u
  <1>4. ASSUME NEW i \in 1..Len(s)
        PROVE  Item(s[i], u[i], h, W, funds, total) /\ SpentAfter(s[i], u[i]) <= 0
    <2>1. s[i] \in Orders
      BY <1>1
    <2>2. Item(s[i], u[i], h, W, funds, total)
      BY <1>1, <2>1 DEF Item
    <2>3. SpentAfter(s[i], u[i]) = 0
      BY <1>1, <1>3 DEF SpentAfter
    <2> QED
      BY <2>2, <2>3
  <1> QED
    BY <1>1, <1>2, <1>4 DEF Track, s, u

\* The purchases are one, of those that may be bought.
LEMMA PurchasesTrack ==
  ASSUME NEW s, NEW u, NEW W, NEW funds \in Nat, NEW total \in Nat, NEW paid \in Nat, NEW h,
         Drafted(s, u, W, funds, total), \A i \in 1..Len(s) : u[i] + Cost(s[i]) <= paid
  PROVE  /\ Track(s, u, paid, h, W, funds, total)
         /\ \A i \in 1..Len(s) : s[i].side = "buy" /\ s[i].qty >= 1
  <1>1. s \in Seq(Orders) /\ u \in [1..Len(s) -> Nat]
    BY DEF Drafted
  <1>2. ASSUME NEW i \in 1..Len(s)
        PROVE  /\ Item(s[i], u[i], h, W, funds, total) /\ SpentAfter(s[i], u[i]) \in Nat
               /\ SpentAfter(s[i], u[i]) <= u[i] + Cost(s[i]) /\ Cost(s[i]) \in Nat
               /\ s[i].side = "buy" /\ s[i].qty >= 1
    <2>1. s[i] \in Orders /\ u[i] \in Nat
      BY <1>1
    <2>2. PICK t \in W : IsDraft(s[i], t, funds, total, u[i])
      BY DEF Drafted
    <2>3. Item(s[i], u[i], h, W, funds, total)
      BY <2>1, <2>2 DEF IsDraft, Item
    <2>4. /\ SpentAfter(s[i], u[i]) \in Nat /\ Cost(s[i]) \in Nat
          /\ SpentAfter(s[i], u[i]) <= u[i] + Cost(s[i])
      BY <2>1, SpentNat, CostNat
    <2>5. s[i].side = "buy" /\ s[i].qty >= 1
      BY <2>2 DEF IsDraft
    <2> QED
      BY <2>3, <2>4, <2>5
  <1>3. Paced(s, u)
    <2>1. ASSUME NEW i \in 1..Len(s), NEW j \in 1..Len(s), i < j PROVE SpentAfter(s[i], u[i]) <= u[j]
      <3>1. u[i] + Cost(s[i]) <= u[j] /\ u[i] \in Nat /\ u[j] \in Nat
        BY <1>1, <2>1 DEF Drafted
      <3> QED
        BY <1>2, <3>1
    <2> QED
      BY <1>1, <2>1 DEF Paced
  <1>4. Apart(s)
    BY <1>2 DEF Apart
  <1>5. \A i \in 1..Len(s) : SpentAfter(s[i], u[i]) <= paid
    BY <1>1, <1>2
  <1> QED
    BY <1>2, <1>3, <1>4, <1>5 DEF Track

\* The sales come first, and spend nothing.
LEMMA TracksJoined ==
  ASSUME NEW a, NEW ua, NEW b, NEW ub, NEW paid \in Nat, NEW h, NEW W, NEW funds, NEW total,
         Track(a, ua, 0, h, W, funds, total), Track(b, ub, paid, h, W, funds, total),
         \A j \in 1..Len(b) : b[j].side = "buy"
  PROVE  \E u : Track(a \o b, u, paid, h, W, funds, total)
  <1> DEFINE c == a \o b
  <1>1. Paced(a, ua) /\ Paced(b, ub) /\ Apart(a) /\ Apart(b)
    BY DEF Track
  <1>2. Follows(b, ub, a, ua)
    <2> SUFFICES ASSUME NEW i \in 1..Len(a), NEW j \in 1..Len(b) PROVE SpentAfter(a[i], ua[i]) <= ub[j]
      BY DEF Follows
    <2>1. a[i] \in Orders /\ ua[i] \in Nat /\ ub[j] \in Nat
      BY <1>1 DEF Paced
    <2>2. SpentAfter(a[i], ua[i]) \in Nat /\ SpentAfter(a[i], ua[i]) <= 0
      BY <2>1, SpentNat DEF Track
    <2> QED
      BY <2>1, <2>2
  <1>3. SellsElse(a, b)
    BY DEF SellsElse
  <1>4. /\ Apart(c)
        /\ \E u : /\ Paced(c, u)
                  /\ \A k \in 1..Len(c) : \/ \E i \in 1..Len(a) : c[k] = a[i] /\ u[k] = ua[i]
                                          \/ \E i \in 1..Len(b) : c[k] = b[i] /\ u[k] = ub[i]
    BY <1>1, <1>2, <1>3, JoinedPace
  <1> HIDE DEF c
  <1>5. PICK u : /\ Paced(c, u)
                 /\ \A k \in 1..Len(c) : \/ \E i \in 1..Len(a) : c[k] = a[i] /\ u[k] = ua[i]
                                         \/ \E i \in 1..Len(b) : c[k] = b[i] /\ u[k] = ub[i]
    BY <1>4
  <1>6. \A i \in 1..Len(a) : SpentAfter(a[i], ua[i]) <= paid
    <2> SUFFICES ASSUME NEW i \in 1..Len(a) PROVE SpentAfter(a[i], ua[i]) <= paid
      OBVIOUS
    <2>1. a[i] \in Orders /\ ua[i] \in Nat
      BY <1>1 DEF Paced
    <2>2. SpentAfter(a[i], ua[i]) \in Nat /\ SpentAfter(a[i], ua[i]) <= 0
      BY <2>1, SpentNat DEF Track
    <2> QED
      BY <2>2
  <1>7. Track(c, u, paid, h, W, funds, total)
    BY <1>4, <1>5, <1>6 DEF Track
  <1> QED
    BY <1>7 DEF c

\* A part of a track is a track: what is not traded now is left out.
LEMMA TrackShortened ==
  ASSUME NEW s, NEW u, NEW paid \in Nat, NEW h, NEW W, NEW funds, NEW total,
         Track(s, u, paid, h, W, funds, total), NEW r \in Seq(Orders), Sublist(r, s)
  PROVE  \E v : Track(r, v, paid, h, W, funds, total)
  <1>1. Paced(s, u) /\ Apart(s)
    BY DEF Track
  <1>2. Apart(r) /\ \E v : /\ Paced(r, v)
                           /\ \A j \in 1..Len(r) : \E i \in 1..Len(s) : r[j] = s[i] /\ v[j] = u[i]
    BY <1>1, ShortenedPace
  <1>3. PICK v : /\ Paced(r, v)
                 /\ \A j \in 1..Len(r) : \E i \in 1..Len(s) : r[j] = s[i] /\ v[j] = u[i]
    BY <1>2
  <1>4. Track(r, v, paid, h, W, funds, total)
    BY <1>2, <1>3 DEF Track
  <1> QED
    BY <1>4

\* r is s, clamped by what the broker calls orderable.
Clamps(r, s, psbl) == r = [i \in DOMAIN s |-> Clamped(s[i], psbl)]

\* A clamped track is a track.
LEMMA TrackClamped ==
  ASSUME NEW s, NEW u, NEW paid \in Nat, NEW h \in Shares, NEW W, NEW funds \in Nat, NEW total \in Nat,
         Track(s, u, paid, h, W, funds, total), \A i \in 1..Len(s) : s[i].qty >= 1,
         NEW psbl, \A i \in 1..Len(s) : psbl[s[i].t] \in Nat,
         NEW r, Clamps(r, s, psbl)
  PROVE  /\ r \in Seq(Orders) /\ Track(r, u, paid, h, W, funds, total)
         /\ \A i \in 1..Len(r) : r[i].side = "buy" => r[i].qty <= QtyCeiling
  <1>1. s \in Seq(Orders) /\ u \in [1..Len(s) -> Nat] /\ Apart(s)
        /\ \A i, j \in 1..Len(s) : i < j => SpentAfter(s[i], u[i]) <= u[j]
    BY DEF Track, Paced
  <1>2. DOMAIN s = 1..Len(s) /\ Len(s) \in Nat
    BY <1>1
  <1>3. \A i \in 1..Len(s) : r[i] = Clamped(s[i], psbl)
    BY <1>2 DEF Clamps
  <1>4. ASSUME NEW i \in 1..Len(s)
        PROVE  /\ r[i] \in Orders /\ r[i].t = s[i].t /\ r[i].side = s[i].side /\ r[i].by = s[i].by
               /\ r[i].qty <= s[i].qty
               /\ r[i].side = "buy" => r[i].qty <= QtyCeiling
               /\ r[i].side = "sell" => r[i].qty >= 1
    <2>1. s[i] \in Orders /\ s[i].qty >= 1 /\ psbl[s[i].t] \in Nat
      BY <1>1
    <2> DEFINE o == s[i]
    <2> HIDE DEF o
    <2>2. o \in Orders /\ o.qty >= 1 /\ psbl[o.t] \in Nat
      BY <2>1 DEF o
    <2>3. LET c == Clamped(o, psbl)
          IN /\ c \in Orders /\ c.t = o.t /\ c.side = o.side /\ c.by = o.by /\ c.qty <= o.qty
             /\ o.side = "buy" => c.qty <= QtyCeiling
             /\ o.side = "sell" => c.qty >= 1
      BY <2>2, ClampedIs
    <2> QED
      BY <1>3, <2>3 DEF o
  <1>5. r \in Seq(Orders) /\ Len(r) = Len(s)
    <2>1. \A i \in 1..Len(s) : Clamped(s[i], psbl) \in Orders
      BY <1>3, <1>4
    <2>2. r \in [1..Len(s) -> Orders]
      BY <1>2, <2>1 DEF Clamps
    <2> QED
      BY <1>2, <2>2
  <1>6. ASSUME NEW i \in 1..Len(s)
        PROVE  /\ SpentAfter(r[i], u[i]) \in Nat /\ SpentAfter(s[i], u[i]) \in Nat
               /\ SpentAfter(r[i], u[i]) <= SpentAfter(s[i], u[i])
    <2>1. r[i] \in Orders /\ s[i] \in Orders /\ u[i] \in Nat
      BY <1>1, <1>4
    <2>2. SpentAfter(r[i], u[i]) \in Nat /\ SpentAfter(s[i], u[i]) \in Nat
      BY <2>1, SpentNat
    <2>3. Cost(r[i]) <= Cost(s[i]) /\ Cost(r[i]) \in Nat /\ Cost(s[i]) \in Nat
      <3> DEFINE p == Price[s[i].t]
                 x == r[i].qty
                 y == s[i].qty
      <3>1. p \in Nat /\ x \in Nat /\ y \in Nat /\ x <= y
        BY <1>4, <2>1, SleeveAssumption DEF Orders
      <3>2. Cost(r[i]) = x * p /\ Cost(s[i]) = y * p
        BY <1>4 DEF Cost
      <3> HIDE DEF p, x, y
      <3> QED
        BY <3>1, <3>2
    <2>4. SpentAfter(r[i], u[i]) <= SpentAfter(s[i], u[i])
      BY <1>4, <2>1, <2>3 DEF SpentAfter
    <2> QED
      BY <2>2, <2>4
  <1>7. Paced(r, u)
    <2>1. ASSUME NEW i \in 1..Len(s), NEW j \in 1..Len(s), i < j PROVE SpentAfter(r[i], u[i]) <= u[j]
      <3>1. SpentAfter(s[i], u[i]) <= u[j] /\ u[j] \in Nat
        BY <1>1, <2>1
      <3> QED
        BY <1>6, <3>1
    <2> QED
      BY <1>1, <1>5, <2>1 DEF Paced
  <1>8. Apart(r)
    BY <1>1, <1>4, <1>5 DEF Apart
  <1>9. ASSUME NEW i \in 1..Len(s)
        PROVE  Item(r[i], u[i], h, W, funds, total) /\ SpentAfter(r[i], u[i]) <= paid
    <2>1. Item(s[i], u[i], h, W, funds, total) /\ SpentAfter(s[i], u[i]) <= paid
      BY DEF Track
    <2>2. SpentAfter(r[i], u[i]) <= paid
      BY <1>6, <2>1
    <2>3. r[i].by = "sized" => Cuts(r[i], funds, total, u[i])
      <3> SUFFICES ASSUME r[i].by = "sized" PROVE Cuts(r[i], funds, total, u[i])
        OBVIOUS
      <3>1. PICK opened \in BOOLEAN, n \in Nat \ {0}, w \in Nat :
              s[i].qty <= BuyQty(s[i].t, funds, total, opened, n, w, u[i])
        BY <1>4, <2>1 DEF Item, Cuts
      <3>2. s[i].t \in Tickers /\ s[i].qty \in Nat /\ r[i].qty \in Nat /\ u[i] \in Nat
        <4>1. s[i] \in Orders /\ r[i] \in Orders
          BY <1>1, <1>4
        <4>2. u[i] \in Nat
          BY <1>1
        <4> QED
          BY <4>1, <4>2 DEF Orders
      <3>3. BuyQty(s[i].t, funds, total, opened, n, w, u[i]) \in Int
        BY <3>2, BuyQtyNat
      <3>4. r[i].qty <= BuyQty(r[i].t, funds, total, opened, n, w, u[i])
        BY <1>4, <3>1, <3>2, <3>3
      <3> QED
        BY <3>4 DEF Cuts
    <2>4. r[i].side = "sell" => r[i].qty <= h[r[i].t]
      <3> SUFFICES ASSUME r[i].side = "sell" PROVE r[i].qty <= h[r[i].t]
        OBVIOUS
      <3>1. s[i].qty <= h[s[i].t]
        BY <1>4, <2>1 DEF Item
      <3>3. s[i].t \in Tickers /\ s[i].qty \in Nat /\ r[i].qty \in Nat
        <4>1. s[i] \in Orders /\ r[i] \in Orders
          BY <1>1, <1>4
        <4> QED
          BY <4>1 DEF Orders
      <3>2. h[s[i].t] \in Nat
        BY <3>3 DEF Shares
      <3>4. r[i].qty <= s[i].qty /\ h[r[i].t] = h[s[i].t]
        BY <1>4
      <3> DEFINE x == r[i].qty
                 y == s[i].qty
                 z == h[s[i].t]
      <3>5. x \in Nat /\ y \in Nat /\ z \in Nat /\ x <= y /\ y <= z
        BY <3>1, <3>2, <3>3, <3>4
      <3> HIDE DEF x, y, z
      <3>6. x <= z
        BY <3>5
      <3> QED
        BY <3>4, <3>6 DEF x, z
    <2> QED
      BY <1>4, <2>1, <2>2, <2>3, <2>4 DEF Item
  <1> QED
    BY <1>4, <1>5, <1>7, <1>8, <1>9 DEF Track

\* What a draft of the stocks is made of, when the account holds "cash" and the
\* cycle's stocks, or the account's, are for sale.
Drawn(s, h, funds, total) ==
  /\ s \in Seq(Orders)
  /\ \E u : \E paid \in Nat : Track(s, u, paid, h, Buyable(cyc.targets, Held(h), funds), funds, total)
  /\ \A i \in 1..Len(s) : s[i].qty >= 1 /\ (s[i].side = "buy" => s[i].qty <= QtyCeiling)

\* Sales and purchases together, before the filter and the clamps.
LEMMA AllDrafted ==
  ASSUME NEW h \in Shares, NEW directives, NEW moods, NEW total \in Nat, NEW funds \in Nat,
         NEW targets \in Seq(Tickers), NEW quoted, NEW opened \in BOOLEAN,
         NEW tilt, \A t \in ToSet(targets) : tilt[t] \in Nat,
         NEW sells, sells = <<>> \/ sells = Sales(h, directives, moods, total)
  PROVE  LET all == sells \o Purchases(targets, Held(h), quoted, funds, total, opened, tilt)
         IN /\ all \in Seq(Orders) /\ \A i \in 1..Len(all) : all[i].qty >= 1
            /\ \E u : \E paid \in Nat :
                 Track(all, u, paid, h, Buyable(targets, Held(h), funds), funds, total)
  <1> DEFINE buys == Purchases(targets, Held(h), quoted, funds, total, opened, tilt)
             W == Buyable(targets, Held(h), funds)
             all == sells \o buys
  <1>1. PICK ub : \E paid \in Nat : /\ Drafted(buys, ub, W, funds, total)
                                    /\ \A i \in 1..Len(buys) : ub[i] + Cost(buys[i]) <= paid
    <2> DEFINE held == Held(h)
    <2> HIDE DEF held
    <2>1. \E used : \E paid \in Nat :
             LET P == Purchases(targets, held, quoted, funds, total, opened, tilt)
             IN /\ Drafted(P, used, Buyable(targets, held, funds), funds, total)
                /\ \A i \in 1..Len(P) : used[i] + Cost(P[i]) <= paid
      BY PurchasesDrafted
    <2> QED
      BY <2>1 DEF held
  <1>2. PICK paid \in Nat : /\ Drafted(buys, ub, W, funds, total)
                            /\ \A i \in 1..Len(buys) : ub[i] + Cost(buys[i]) <= paid
    BY <1>1
  <1> HIDE DEF buys, W
  <1>3. /\ Track(buys, ub, paid, h, W, funds, total)
        /\ \A i \in 1..Len(buys) : buys[i].side = "buy" /\ buys[i].qty >= 1
    BY <1>2, PurchasesTrack
  <1>4. \E ua : Track(sells, ua, 0, h, W, funds, total)
    <2>1. CASE sells = <<>>
      <3> DEFINE e == <<>>
      <3>1. Track(e, e, 0, h, W, funds, total)
        BY DEF Track, Paced, Apart
      <3> QED
        BY <2>1, <3>1
    <2>2. CASE sells = Sales(h, directives, moods, total)
      <3> DEFINE s == Sales(h, directives, moods, total)
                 z == [i \in 1..Len(s) |-> 0]
      <3>1. Track(s, z, 0, h, W, funds, total)
        BY SalesTrack
      <3> HIDE DEF s, z
      <3>2. \E ua : Track(s, ua, 0, h, W, funds, total)
        BY <3>1
      <3> QED
        BY <2>2, <3>2 DEF s
    <2> QED
      BY <2>1, <2>2
  <1>5. PICK ua : Track(sells, ua, 0, h, W, funds, total)
    BY <1>4
  <1>6. \E u : Track(all, u, paid, h, W, funds, total)
    BY <1>3, <1>5, TracksJoined
  <1>7. sells \in Seq(Orders) /\ buys \in Seq(Orders)
    BY <1>3, <1>5 DEF Track, Paced
  <1>8. \A i \in 1..Len(sells) : sells[i].qty >= 1
    <2>1. CASE sells = <<>>
      BY <2>1
    <2>2. CASE sells = Sales(h, directives, moods, total)
      BY <2>2, SalesAre
    <2> QED
      BY <2>1, <2>2
  <1>9. /\ all \in Seq(Orders)
        /\ \A i \in 1..Len(sells) : all[i] = sells[i]
        /\ \A i \in 1..Len(buys) : all[Len(sells) + i] = buys[i]
        /\ \A i \in 1..Len(all) : i \in 1..Len(sells) \/ (i > Len(sells) /\ i - Len(sells) \in 1..Len(buys))
    BY <1>7, Concatenated
  <1> HIDE DEF all
  <1>10. ASSUME NEW i \in 1..Len(all) PROVE all[i].qty >= 1
    <2>1. CASE i \in 1..Len(sells)
      BY <1>8, <1>9, <2>1
    <2>2. CASE i > Len(sells) /\ i - Len(sells) \in 1..Len(buys)
      <3> DEFINE m == Len(sells)
                 j == i - m
      <3>1. m + j = i
        BY <1>7
      <3> HIDE DEF m, j
      <3>2. all[m + j] = buys[j] /\ buys[j].qty >= 1
        BY <1>3, <1>9, <2>2 DEF m, j
      <3> QED
        BY <3>1, <3>2
    <2> QED
      BY <1>9, <2>1, <2>2
  <1> QED
    BY <1>6, <1>9, <1>10 DEF all, buys, W

\* A holding has a value.
LEMMA ValueNat == ASSUME NEW h \in Shares PROVE Value(h) \in Nat
  <1> DEFINE worth == [t \in Tickers |-> h[t] * Price[t]]
  <1>1. Value(h) = SumOf(worth, Held(h))
    BY DEF Value, SumOf
  <1>2. IsFiniteSet(Held(h)) /\ Held(h) \subseteq Tickers
    <2>1. Held(h) \subseteq Tickers
      BY DEF Held
    <2> QED
      BY <2>1, SleeveAssumption, FS_Subset
  <1>3. \A t \in Held(h) : worth[t] \in Nat
    <2> SUFFICES ASSUME NEW t \in Held(h) PROVE worth[t] \in Nat
      OBVIOUS
    <2>1. t \in Tickers /\ h[t] \in Nat /\ Price[t] \in Nat
      BY <1>2, SleeveAssumption DEF Shares
    <2> QED
      BY <2>1
  <1> HIDE DEF worth
  <1> QED
    BY <1>1, <1>2, <1>3, SumNat

LEMMA PartIs == ASSUME NEW h \in Shares, NEW codes PROVE Only(h, codes) \in Shares
  BY DEF Only, Shares

\* What kr_account_snapshot may tell of the account, whole, cut or of before.
Told(snap) == snap.list \in Shares /\ snap.cash \in Nat /\ snap.total \in Nat

LEMMA SnapshotIs ==
  ASSUME shares \in Shares, cash \in Nat, NEW snap \in Snapshots
  PROVE  Told(snap) /\ "list" \in DOMAIN snap
  <1>1. NoShares \in Shares /\ Total \in Nat /\ Only(shares, KR) \in Shares
    <2>1. NoShares \in Shares
      BY DEF NoShares, Shares
    <2>2. Value(shares) \in Nat
      BY ValueNat
    <2>3. Total \in Nat
      BY <2>2 DEF Total
    <2> QED
      BY <2>1, <2>3, PartIs
  <1>2. ASSUME NEW h \in Shares, NEW list \in Pages(h) PROVE list \in Shares
    BY PartIs DEF Pages
  <1>3. ASSUME NEW h \in Accounts
        PROVE  h \in Shares /\ Funds + Value(h) \in Nat /\ Funds \in Nat
    <2>1. h \in Shares /\ Funds \in Nat
      BY CycleAssumption
    <2>2. Value(h) \in Nat
      BY <2>1, ValueNat
    <2> QED
      BY <2>1, <2>2
  <1>4. ASSUME NEW list \in Shares, NEW money \in Nat, NEW total \in Nat, NEW ok
        PROVE  LET s == Snap(list, money, total, ok) IN Told(s) /\ "list" \in DOMAIN s
    BY DEF Snap, Told
  <1>5. CASE snap \in Whole
    <2>1. \/ snap = Snap(Only(shares, KR), cash, Total, TRUE)
          \/ snap = Snap(NoShares, cash, Total, TRUE)
          \/ snap = Snap(NoShares, 0, 0, FALSE)
      BY <1>5 DEF Whole
    <2> QED
      BY <1>1, <1>4, <2>1
  <1>6. CASE snap \in Cut
    <2>1. PICK list \in Pages(shares) : snap = Snap(list, cash, Total, FALSE)
      BY <1>6 DEF Cut
    <2> QED
      BY <1>1, <1>2, <1>4, <2>1
  <1>7. ASSUME NEW h \in Accounts, snap \in Before(h)
        PROVE  Told(snap) /\ "list" \in DOMAIN snap
    <2>1. PICK list \in Pages(h), money \in {cash, Funds}, ok \in BOOLEAN :
            snap = Snap(list, money, Funds + Value(h), ok)
      BY <1>7 DEF Before
    <2>2. list \in Shares /\ money \in Nat /\ Funds + Value(h) \in Nat
      BY <1>2, <1>3
    <2> QED
      BY <1>4, <2>1, <2>2
  <1>8. snap \in Whole \/ snap \in Cut \/ \E h \in Accounts : snap \in Before(h)
    BY DEF Snapshots
  <1> QED
    BY <1>5, <1>6, <1>7, <1>8

\* Of a snapshot the draft sees the sums, and what is for sale.
LEMMA SeenIs ==
  ASSUME shares \in Shares, cash \in Nat, cyc.stocks \in Shares, NEW snap \in Seen
  PROVE  Told(snap) /\ ForSale(snap) \in Shares
  <1>1. PICK of \in Snapshots : snap = [of EXCEPT !.list = ForSale(of)]
    BY DEF Seen
  <1>2. Told(of) /\ "list" \in DOMAIN of
    BY SnapshotIs
  <1>3. ForSale(of) \in Shares
    BY <1>2 DEF ForSale, Told
  <1>4. snap.list = ForSale(of) /\ snap.cash = of.cash /\ snap.total = of.total
    BY <1>1, <1>2
  <1>5. Told(snap)
    BY <1>2, <1>3, <1>4 DEF Told
  <1> QED
    BY <1>5 DEF ForSale, Told

\* What BuildOrders draws of the stocks' track, at any answer of the broker.
LEMMA StockDraftIs ==
  ASSUME NEW snap, Told(snap), ForSale(snap) \in Shares,
         cyc.targets \in Seq(Tickers), cyc.opened \in BOOLEAN,
         NEW moods, NEW quoted,
         NEW tilt \in [Targeted -> Tilts],
         NEW psbl \in [Targeted \cup Held(ForSale(snap)) -> PsblLimits]
  PROVE  Drawn(StockDraft(snap, moods, quoted, tilt, psbl), ForSale(snap), snap.cash, snap.total)
  <1> DEFINE h == ForSale(snap)
             funds == snap.cash
             total == snap.total
             targets == SubSeq(cyc.targets, 1, Min({8, Len(cyc.targets)}))
             sells == IF Rebalances \/ cyc.directives # <<>>
                      THEN Sales(h, cyc.directives, moods, total) ELSE <<>>
             all == sells \o Purchases(targets, Held(h), quoted, funds, total, cyc.opened, tilt)
             open == Among(all, {o \in ToSet(all) : Tradable(o.t, Now)})
             cut == [i \in DOMAIN open |-> Clamped(open[i], psbl)]
             kept == Among(cut, {o \in ToSet(cut) : o.side = "sell" \/ o.qty >= 1})
             W == Buyable(targets, Held(h), funds)
  <1>1. h \in Shares /\ funds \in Nat /\ total \in Nat
    BY DEF Told
  <1>2. targets \in Seq(Tickers) /\ ToSet(targets) \subseteq ToSet(cyc.targets)
    <2> DEFINE s == cyc.targets
    <2>1. s \in Seq(Tickers)
      OBVIOUS
    <2> HIDE DEF s
    <2>2. LET r == SubSeq(s, 1, Min({8, Len(s)}))
          IN r \in Seq(Tickers) /\ ToSet(r) \subseteq ToSet(s)
      BY <2>1, SelectedPart
    <2> QED
      BY <2>2 DEF s
  <1>3. StockDraft(snap, moods, quoted, tilt, psbl) = kept
    BY DEF StockDraft
  <1>4. \A t \in ToSet(targets) : tilt[t] \in Nat
    BY <1>2, CycleAssumption DEF Targeted
  <1>5. \A t \in ToSet(targets) \cup Held(h) : psbl[t] \in Nat
    BY <1>2, CycleAssumption DEF Targeted
  <1>6. sells = <<>> \/ sells = Sales(h, cyc.directives, moods, total)
    OBVIOUS
  <1> HIDE DEF h, funds, total, targets, sells
  <1>7. /\ all \in Seq(Orders) /\ \A i \in 1..Len(all) : all[i].qty >= 1
        /\ \E u : \E paid \in Nat : Track(all, u, paid, h, W, funds, total)
    BY <1>1, <1>2, <1>4, <1>6, AllDrafted
  <1> HIDE DEF all
  <1>8. /\ open \in Seq(Orders) /\ Sublist(open, all)
    BY <1>7, AmongFacts
  <1> HIDE DEF open
  <1>9. \A i \in 1..Len(open) : open[i].qty >= 1
    BY <1>7, <1>8 DEF Sublist
  <1>10. PICK u : \E paid \in Nat : Track(all, u, paid, h, W, funds, total)
    BY <1>7
  <1>11. PICK paid \in Nat : Track(all, u, paid, h, W, funds, total)
    BY <1>10
  <1> HIDE DEF W
  <1>12. PICK v : Track(open, v, paid, h, W, funds, total)
    BY <1>8, <1>11, TrackShortened
  <1>13. \A i \in 1..Len(open) : psbl[open[i].t] \in Nat
    <2> SUFFICES ASSUME NEW i \in 1..Len(open) PROVE psbl[open[i].t] \in Nat
      OBVIOUS
    <2>1. Item(open[i], v[i], h, W, funds, total)
      BY <1>12 DEF Track
    <2>2. open[i].t \in ToSet(targets) \cup Held(h)
      BY <2>1 DEF Item, Orders, W, Buyable
    <2> QED
      BY <1>5, <2>2
  <1>14. Clamps(cut, open, psbl)
    BY DEF Clamps
  <1> HIDE DEF cut
  <1>15. /\ cut \in Seq(Orders) /\ Track(cut, v, paid, h, W, funds, total)
         /\ \A i \in 1..Len(cut) : cut[i].side = "buy" => cut[i].qty <= QtyCeiling
    BY <1>1, <1>9, <1>12, <1>13, <1>14, TrackClamped
  <1> DEFINE G == {o \in ToSet(cut) : o.side = "sell" \/ o.qty >= 1}
  <1>16. kept \in Seq(Orders) /\ Sublist(kept, cut) /\ ToSet(kept) = ToSet(cut) \cap G
    BY <1>15, AmongFacts
  <1>17. \A o \in G : o.side = "sell" \/ o.qty >= 1
    OBVIOUS
  <1> HIDE DEF kept, G
  <1>18. PICK w : Track(kept, w, paid, h, W, funds, total)
    BY <1>15, <1>16, TrackShortened
  <1>19. ASSUME NEW i \in 1..Len(kept)
         PROVE  kept[i].qty >= 1 /\ (kept[i].side = "buy" => kept[i].qty <= QtyCeiling)
    <2>1. kept[i] \in ToSet(kept)
      BY <1>16 DEF ToSet
    <2>2. kept[i].side = "sell" \/ kept[i].qty >= 1
      BY <1>16, <1>17, <2>1
    <2>3. Item(kept[i], w[i], h, W, funds, total)
      BY <1>18 DEF Track
    <2>4. kept[i].qty >= 1
      BY <2>2, <2>3 DEF Item
    <2>5. \E j \in 1..Len(cut) : kept[i] = cut[j]
      BY <1>16 DEF Sublist
    <2>6. kept[i].side = "buy" => kept[i].qty <= QtyCeiling
      BY <1>15, <2>5
    <2> QED
      BY <2>4, <2>6
  <1>20. \A t \in W : t \in Buyable(cyc.targets, Held(h), funds)
    BY <1>2 DEF W, Buyable
  <1>21. Track(kept, w, paid, h, Buyable(cyc.targets, Held(h), funds), funds, total)
    BY <1>18, <1>20 DEF Track, Item
  <1>22. Drawn(kept, h, funds, total)
    BY <1>16, <1>19, <1>21 DEF Drawn
  <1> QED
    BY <1>3, <1>22 DEF h, funds, total, kept

----------------------------------------------------------------------------
(* The cycle: all the drafts.                                              *)

\* An order that the gate loses for no limit the sizing had, with "u" spent
\* before it.
Fair(o, u, funds, total) ==
  /\ o \in Orders /\ o.qty >= 1
  /\ o.by = "sleeve" => o.side = "sell" \/ o.t \in EnabledCodes
  /\ o.by = "sized" /\ ~IsSleeve(o.t) => AsSized(o, funds, total, u)

Load(s, u, paid, funds, total) ==
  /\ Paced(s, u)
  /\ \A i \in 1..Len(s) : Fair(s[i], u[i], funds, total) /\ SpentAfter(s[i], u[i]) <= paid

\* An order cut by the sizing and clamped is within the gate's limits.
LEMMA CutIsFair ==
  ASSUME NEW funds \in Nat, NEW total \in Nat, NEW u \in Nat, NEW h, NEW W,
         NEW o, Item(o, u, h, W, funds, total), o.qty >= 1, o.side = "buy" => o.qty <= QtyCeiling
  PROVE  Fair(o, u, funds, total)
  <1>1. /\ o \in Orders /\ o.t \in Tickers /\ o.qty \in Nat \ {0} /\ o.side \in {"buy", "sell"}
        /\ o.by # "sleeve"
    BY DEF Item, Orders
  <1>2. ASSUME o.by = "sized", ~IsSleeve(o.t) PROVE AsSized(o, funds, total, u)
    <2>1. o.side = "buy"
      BY <1>1, <1>2 DEF Item
    <2>2. o = Order(o.t, "buy", o.qty, "sized")
      BY <1>1, <1>2, <2>1 DEF Order, Orders
    <2>3. PICK opened \in BOOLEAN, n \in Nat \ {0}, w \in Nat :
            o.qty <= BuyQty(o.t, funds, total, opened, n, w, u)
      BY <1>2 DEF Item, Cuts
    <2> DEFINE t == o.t
               q == o.qty
    <2>4. /\ t \in Tickers /\ ~IsSleeve(t) /\ q \in Nat \ {0} /\ q <= QtyCeiling
          /\ q <= BuyQty(t, funds, total, opened, n, w, u)
      BY <1>1, <1>2, <2>1, <2>3
    <2> HIDE DEF t, q
    <2>5. AsSized(Order(t, "buy", q, "sized"), funds, total, u)
      BY <2>4, SizedDraftPasses
    <2> QED
      BY <2>2, <2>5 DEF t, q
  <1> QED
    BY <1>1, <1>2 DEF Fair

\* What the stocks' draft brings to the gate.
LEMMA DrawnLoad ==
  ASSUME NEW funds \in Nat, NEW total \in Nat, NEW h, NEW s, Drawn(s, h, funds, total)
  PROVE  /\ s \in Seq(Orders) /\ Apart(s)
         /\ \E u : \E paid \in Nat : Load(s, u, paid, funds, total)
         /\ \A i \in 1..Len(s) :
              /\ s[i].side = "sell" => s[i].t \in Held(h) /\ s[i].qty <= h[s[i].t]
              /\ s[i].side = "buy" => s[i].t \in Buyable(cyc.targets, Held(h), funds)
  <1> DEFINE W == Buyable(cyc.targets, Held(h), funds)
  <1>1. PICK u : \E paid \in Nat : Track(s, u, paid, h, W, funds, total)
    BY DEF Drawn
  <1>2. PICK paid \in Nat : Track(s, u, paid, h, W, funds, total)
    BY <1>1
  <1> HIDE DEF W
  <1>3. s \in Seq(Orders) /\ Apart(s) /\ Paced(s, u) /\ u \in [1..Len(s) -> Nat]
    BY <1>2 DEF Track, Paced
  <1>4. ASSUME NEW i \in 1..Len(s)
        PROVE  /\ Fair(s[i], u[i], funds, total) /\ SpentAfter(s[i], u[i]) <= paid
               /\ s[i].side = "sell" => s[i].t \in Held(h) /\ s[i].qty <= h[s[i].t]
               /\ s[i].side = "buy" => s[i].t \in W
    <2>1. Item(s[i], u[i], h, W, funds, total) /\ SpentAfter(s[i], u[i]) <= paid
      BY <1>2 DEF Track
    <2>2. s[i].qty >= 1 /\ (s[i].side = "buy" => s[i].qty <= QtyCeiling)
      BY DEF Drawn
    <2>3. u[i] \in Nat
      BY <1>3
    <2> DEFINE o == s[i]
               v == u[i]
    <2>4. /\ Item(o, v, h, W, funds, total) /\ o.qty >= 1 /\ v \in Nat
          /\ o.side = "buy" => o.qty <= QtyCeiling
      BY <2>1, <2>2, <2>3
    <2> HIDE DEF o, v
    <2>5. Fair(o, v, funds, total)
      BY <2>4, CutIsFair
    <2> QED
      BY <2>1, <2>5 DEF Item, o, v
  <1>5. Load(s, u, paid, funds, total)
    BY <1>3, <1>4 DEF Load
  <1> QED
    BY <1>3, <1>4, <1>5 DEF W

\* A list of the sleeves' orders.
OfSleeves(s) ==
  /\ s \in Seq(Orders)
  /\ \A i \in 1..Len(s) :
       s[i].by = "sleeve" /\ s[i].qty >= 1 /\ (s[i].side = "sell" \/ s[i].t \in EnabledCodes)

\* The sleeves' orders do not count as spent on stocks.
LEMMA SleeveLoad ==
  ASSUME NEW s, OfSleeves(s), NEW paid \in Nat, NEW funds, NEW total
  PROVE  \E u : Load(s, u, paid, funds, total) /\ \A i \in 1..Len(s) : u[i] = paid
  <1> DEFINE u == [i \in 1..Len(s) |-> paid]
  <1>1. EnabledCodes \subseteq AllCodes
    BY SleeveAssumption DEF EnabledCodes, AllCodes, Codes
  <1>2. s \in Seq(Orders) /\ \A i \in 1..Len(s) : s[i].side = "sell" \/ IsSleeve(s[i].t)
    BY <1>1 DEF OfSleeves, IsSleeve
  <1>3. Paced(s, u)
    BY <1>2, SteadyPace
  <1>4. \A i \in 1..Len(s) : u[i] = paid
    OBVIOUS
  <1> HIDE DEF u
  <1>5. \A i \in 1..Len(s) : Fair(s[i], u[i], funds, total)
    BY <1>2 DEF Fair, OfSleeves
  <1>6. \A i \in 1..Len(s) : SpentAfter(s[i], u[i]) <= paid
    BY <1>2, <1>4 DEF SpentAfter
  <1> QED
    BY <1>3, <1>4, <1>5, <1>6 DEF Load

\* The sleeves' orders go behind the stocks'.
LEMMA LoadsJoined ==
  ASSUME NEW funds, NEW total, NEW paid \in Nat, NEW a, NEW ua, NEW b,
         Load(a, ua, paid, funds, total), OfSleeves(b)
  PROVE  /\ \E u : Load(a \o b, u, paid, funds, total)
         /\ Apart(a) /\ Apart(b) /\ SellsElse(a, b) => Apart(a \o b)
  <1> DEFINE c == a \o b
  <1>1. PICK ub : Load(b, ub, paid, funds, total) /\ \A i \in 1..Len(b) : ub[i] = paid
    BY SleeveLoad
  <1>2. Paced(a, ua) /\ Paced(b, ub)
    BY <1>1 DEF Load
  <1>3. Follows(b, ub, a, ua)
    BY <1>1 DEF Follows, Load
  <1>4. /\ Apart(a) /\ Apart(b) /\ SellsElse(a, b) => Apart(c)
        /\ \E u : /\ Paced(c, u)
                  /\ \A k \in 1..Len(c) : \/ \E i \in 1..Len(a) : c[k] = a[i] /\ u[k] = ua[i]
                                          \/ \E i \in 1..Len(b) : c[k] = b[i] /\ u[k] = ub[i]
    BY <1>2, <1>3, JoinedPace
  <1> HIDE DEF c
  <1>5. PICK u : /\ Paced(c, u)
                 /\ \A k \in 1..Len(c) : \/ \E i \in 1..Len(a) : c[k] = a[i] /\ u[k] = ua[i]
                                         \/ \E i \in 1..Len(b) : c[k] = b[i] /\ u[k] = ub[i]
    BY <1>4
  <1>6. Load(c, u, paid, funds, total)
    BY <1>1, <1>5 DEF Load
  <1> QED
    BY <1>4, <1>6 DEF c

\* What is known of a sleeve's purchases until they join the drafts.
SleevePurchases(s) == OfSleeves(s) /\ \A i \in 1..Len(s) : s[i].side = "buy"

\* The drafts of a cycle, with "funds" known: h is for sale, D what the sleeves hold.
Planned(s, h, funds, total) ==
  /\ s \in Seq(Orders)
  /\ \E u : Paced(s, u) /\ \A i \in 1..Len(s) : Fair(s[i], u[i], funds, total)
  /\ \A i \in 1..Len(s) :
       StockBuy(s[i]) => s[i].t \in Buyable(cyc.targets, Held(h), funds)
  /\ Held(cyc.stocks) # {} =>
       Apart(s) /\ \A i \in 1..Len(s) : s[i].side = "sell" => s[i].qty <= cyc.holdings[s[i].t]

\* The whole draft: stocks, the sleeves' purchases, the sleeves' sales.
LEMMA AllPlanned ==
  ASSUME cyc.stocks \in Shares, cyc.holdings \in Shares, cyc.stocks = Stocks,
         NEW funds \in Nat, NEW total \in Nat, NEW h, Held(cyc.stocks) # {} => h = cyc.stocks,
         NEW a, Drawn(a, h, funds, total), SleevePurchases(cyc.sleeveBuys)
  PROVE  Planned(a \o cyc.sleeveBuys \o SleeveSales(cyc.directives, cyc.holdings, EnabledCodes),
                 h, funds, total)
  <1> DEFINE b == cyc.sleeveBuys
             c == SleeveSales(cyc.directives, cyc.holdings, EnabledCodes)
             ab == a \o b
             s == ab \o c
  <1>1. /\ a \in Seq(Orders) /\ Apart(a)
        /\ \E u : \E paid \in Nat : Load(a, u, paid, funds, total)
        /\ \A i \in 1..Len(a) :
             /\ a[i].side = "sell" => a[i].t \in Held(h) /\ a[i].qty <= h[a[i].t]
             /\ a[i].side = "buy" => a[i].t \in Buyable(cyc.targets, Held(h), funds)
    BY DrawnLoad
  <1>2. /\ OfSleeves(b) /\ b \in Seq(Orders) /\ Apart(b) /\ SellsElse(a, b)
        /\ \A i \in 1..Len(b) : b[i].by = "sleeve" /\ b[i].side = "buy"
    BY DEF SleevePurchases, OfSleeves, Apart, SellsElse
  <1>3. /\ c \in Seq(Orders) /\ Apart(c)
        /\ \A i \in 1..Len(c) :
             /\ c[i].side = "sell" /\ c[i].by = "sleeve" /\ c[i].qty >= 1
             /\ c[i].t \in EnabledCodes /\ c[i].qty <= cyc.holdings[c[i].t]
    BY SleeveSalesAre
  <1>4. OfSleeves(c)
    BY <1>3 DEF OfSleeves
  <1> HIDE DEF b, c
  <1>5. PICK ua : \E paid \in Nat : Load(a, ua, paid, funds, total)
    BY <1>1
  <1>6. PICK paid \in Nat : Load(a, ua, paid, funds, total)
    BY <1>5
  <1>7. Apart(ab) /\ \E u : Load(ab, u, paid, funds, total)
    BY <1>1, <1>2, <1>6, LoadsJoined
  <1>8. /\ ab \in Seq(Orders)
        /\ \A k \in 1..Len(ab) : \/ \E i \in 1..Len(a) : ab[k] = a[i]
                                 \/ \E i \in 1..Len(b) : ab[k] = b[i]
    BY <1>1, <1>2, JoinedMembers
  <1> HIDE DEF ab
  <1>9. PICK uab : Load(ab, uab, paid, funds, total)
    BY <1>7
  <1>10. /\ \E u : Load(s, u, paid, funds, total)
         /\ SellsElse(ab, c) => Apart(s)
    BY <1>3, <1>4, <1>7, <1>9, LoadsJoined
  <1>11. /\ s \in Seq(Orders)
         /\ \A k \in 1..Len(s) : \/ \E i \in 1..Len(ab) : s[k] = ab[i]
                                 \/ \E i \in 1..Len(c) : s[k] = c[i]
    BY <1>3, <1>8, JoinedMembers
  <1> HIDE DEF s
  <1>12. ASSUME NEW k \in 1..Len(s)
         PROVE  \/ \E i \in 1..Len(a) : s[k] = a[i]
                \/ \E i \in 1..Len(b) : s[k] = b[i]
                \/ \E i \in 1..Len(c) : s[k] = c[i]
    <2>1. CASE \E i \in 1..Len(c) : s[k] = c[i]
      BY <2>1
    <2>2. CASE \E i \in 1..Len(ab) : s[k] = ab[i]
      <3>1. PICK i \in 1..Len(ab) : s[k] = ab[i]
        BY <2>2
      <3>2. (\E j \in 1..Len(a) : ab[i] = a[j]) \/ (\E j \in 1..Len(b) : ab[i] = b[j])
        BY <1>8
      <3> QED
        BY <3>1, <3>2
    <2> QED
      BY <1>11, <2>1, <2>2
  <1>13. \E u : Paced(s, u) /\ \A i \in 1..Len(s) : Fair(s[i], u[i], funds, total)
    BY <1>10 DEF Load
  <1>14. \A k \in 1..Len(s) : StockBuy(s[k]) => s[k].t \in Buyable(cyc.targets, Held(h), funds)
    <2> SUFFICES ASSUME NEW k \in 1..Len(s), StockBuy(s[k])
                 PROVE  s[k].t \in Buyable(cyc.targets, Held(h), funds)
      OBVIOUS
    <2>1. s[k].side = "buy" /\ s[k].by # "sleeve"
      BY DEF StockBuy
    <2>2. PICK i \in 1..Len(a) : s[k] = a[i]
      BY <1>2, <1>3, <1>12, <2>1
    <2> QED
      BY <1>1, <2>1, <2>2
  <1>15. ASSUME Held(cyc.stocks) # {}
         PROVE  /\ Apart(s)
                /\ \A k \in 1..Len(s) : s[k].side = "sell" => s[k].qty <= cyc.holdings[s[k].t]
    <2>1. h = cyc.stocks /\ \A t \in Held(h) : h[t] = cyc.holdings[t] /\ t \notin EnabledCodes
      <3>1. h = Stocks
        BY <1>15
      <3>2. CASE Enabled # {}
        BY <3>1, <3>2 DEF Stocks, Held, Without
      <3>3. CASE Enabled = {}
        BY <3>1, <3>3 DEF Stocks, Held, EnabledCodes, Codes
      <3> QED
        BY <1>15, <3>2, <3>3
    <2>2. SellsElse(ab, c)
      <3> SUFFICES ASSUME NEW i \in 1..Len(ab), NEW j \in 1..Len(c),
                          ab[i].side = "sell", c[j].side = "sell", ab[i].t = c[j].t
                   PROVE  FALSE
        BY DEF SellsElse
      <3>1. PICK k \in 1..Len(a) : ab[i] = a[k]
        BY <1>2, <1>8
      <3> QED
        BY <1>1, <1>3, <2>1, <3>1
    <2>3. ASSUME NEW k \in 1..Len(s), s[k].side = "sell" PROVE s[k].qty <= cyc.holdings[s[k].t]
      <3>1. CASE \E i \in 1..Len(a) : s[k] = a[i]
        BY <1>1, <2>1, <2>3, <3>1
      <3>2. CASE \E i \in 1..Len(c) : s[k] = c[i]
        BY <1>3, <3>2
      <3> QED
        BY <1>2, <1>12, <2>3, <3>1, <3>2
    <2> QED
      BY <1>10, <2>2, <2>3
  <1> QED
    BY <1>11, <1>13, <1>14, <1>15 DEF Planned, s, ab, b, c

----------------------------------------------------------------------------
(* The cycle: the invariant.                                               *)

Locals == {"session", "opened", "sellOnly", "skip", "holdings", "funds", "cands", "sleeveBuys",
           "proposals", "priced", "unpriced", "targets", "directives", "stocks", "drafts", "bp",
           "approved", "queue"}

\* Orders that may be found in a cycle's lists.
Sound == {o \in Orders : o.qty >= 1 /\ (o.by = "sleeve" => o.side = "sell" \/ o.t \in EnabledCodes)}

Fields(c) ==
  /\ DOMAIN c = Locals
  /\ c.opened \in BOOLEAN /\ c.sellOnly \in BOOLEAN /\ c.skip \in BOOLEAN
  /\ c.holdings \in Shares /\ c.stocks \in Shares
  /\ c.funds.cash \in Nat /\ c.funds.total \in Nat /\ c.bp.cash \in Nat /\ c.bp.total \in Nat
  /\ c.cands \in Seq(Tickers) /\ c.targets \in Seq(Tickers)
  /\ SleevePurchases(c.sleeveBuys)
  /\ c.drafts \in Seq(Sound) /\ c.approved \in Seq(Sound) /\ c.queue \in Seq(Sound)

Kinds ==
  /\ hour \in DOMAIN Day /\ shares \in Shares /\ cash \in Nat
  /\ blocked \subseteq KR /\ refusals \in [Tickers -> Nat] /\ history \subseteq Tickers
  /\ stage \in Stages /\ spent \in Nat /\ sent \in Nat /\ cycles \in 0..MaxCycles
  /\ tried \in Seq(Orders)

\* The locals are blank until their stage and behind it.
Blanks ==
  /\ stage \notin {"quant", "sleeves", "finalize"} => cyc.cands = <<>>
  /\ stage # "build" => cyc.targets = <<>>
  /\ stage # "risk" => cyc.drafts = <<>>
  /\ stage \notin {"risk", "execute"} => cyc.approved = <<>>
  /\ stage # "execute" => cyc.queue = <<>>
  /\ stage \notin {"idle", "execute"} => tried = <<>>
  /\ cyc.skip => cyc.cands = <<>> /\ cyc.targets = <<>>

SplitKept == stage \in {"build", "risk"} => cyc.stocks = Stocks

NoStock(s) == \A i \in 1..Len(s) : ~StockBuy(s[i])
SkipKept == cyc.skip => NoStock(cyc.drafts) /\ NoStock(cyc.approved) /\ NoStock(cyc.queue)

\* What the gate is still to see.
ToJudge(s, funds, total, sofar) ==
  \E u : Paced(s, u) /\ \A i \in 1..Len(s) : Fair(s[i], u[i], funds, total) /\ sofar <= u[i]
Gated == stage = "risk" => ToJudge(cyc.drafts, cyc.bp.cash, cyc.bp.total, spent)

SellsWithin(s, h) == Apart(s) /\ \A i \in 1..Len(s) : s[i].side = "sell" => s[i].qty <= h[s[i].t]
Selling == stage = "risk" /\ Held(cyc.stocks) # {} => SellsWithin(cyc.drafts, cyc.holdings)

\* Orders that are still to be sent, when "least" was sent before and no more than
\* "most" may be by them all.
Ready(s, least, most) ==
  \E u : Paced(s, u) /\ \A i \in 1..Len(s) : least <= u[i] /\ SpentAfter(s[i], u[i]) <= most

\* What is approved adds up to what the gate counts as spent.
Paying ==
  /\ sent <= spent
  /\ stage \notin {"idle", "execute"} => sent = 0
  /\ stage = "risk" => Ready(cyc.approved, 0, spent)
  /\ stage = "execute" => Ready(cyc.queue, sent, spent)

\* Of what was approved nothing final is lost, and sales come first.
SalesFirst(s) == \A i, j \in 1..Len(s) : i < j /\ s[j].side = "sell" => s[i].side = "sell"
Executing ==
  stage = "execute" =>
    /\ \A o \in ToSet(cyc.approved) :
         o.side = "sell" \/ o.by = "sleeve" => o \in ToSet(tried) \cup ToSet(cyc.queue)
    /\ SalesFirst(tried) /\ SalesFirst(cyc.queue)
    /\ (\E j \in 1..Len(cyc.queue) : cyc.queue[j].side = "sell") =>
         \A i \in 1..Len(tried) : tried[i].side = "sell"

CycleInv ==
  /\ Kinds /\ Fields(cyc) /\ Blanks /\ SplitKept
  /\ SkipKept /\ Gated /\ Selling /\ Paying /\ Executing

LEMMA NoneReady == ASSUME NEW most PROVE Ready(<<>>, 0, most)
  <1> DEFINE e == <<>>
  <1>1. Paced(e, e) /\ \A i \in 1..Len(e) : 0 <= e[i] /\ SpentAfter(e[i], e[i]) <= most
    BY DEF Paced
  <1> QED
    BY <1>1 DEF Ready

\* A part of what is to be sent.
LEMMA PartReady ==
  ASSUME NEW s, NEW least, NEW most, Ready(s, least, most), NEW r \in Seq(Orders), Sublist(r, s)
  PROVE  Ready(r, least, most)
  <1>1. PICK u : Paced(s, u) /\ \A i \in 1..Len(s) : least <= u[i] /\ SpentAfter(s[i], u[i]) <= most
    BY DEF Ready
  <1>2. PICK v : /\ Paced(r, v)
                 /\ \A j \in 1..Len(r) : \E i \in 1..Len(s) : r[j] = s[i] /\ v[j] = u[i]
    BY <1>1, ShortenedPace
  <1>3. ASSUME NEW j \in 1..Len(r) PROVE least <= v[j] /\ SpentAfter(r[j], v[j]) <= most
    BY <1>1, <1>2
  <1> QED
    BY <1>2, <1>3 DEF Ready

\* One more order, behind the others.
LEMMA OneMoreReady ==
  ASSUME NEW s, NEW most \in Nat, Ready(s, 0, most), NEW o \in Orders
  PROVE  Ready(Append(s, o), 0, SpentAfter(o, most))
  <1> DEFINE n == Len(s)
             r == Append(s, o)
  <1>1. PICK u : Paced(s, u) /\ \A i \in 1..n : 0 <= u[i] /\ SpentAfter(s[i], u[i]) <= most
    BY DEF Ready
  <1>2. s \in Seq(Orders) /\ n \in Nat /\ u \in [1..n -> Nat]
    BY <1>1 DEF Paced
  <1> DEFINE v == [i \in 1..(n + 1) |-> IF i = n + 1 THEN most ELSE u[i]]
  <1>3. r \in Seq(Orders) /\ Len(r) = n + 1 /\ r[n + 1] = o /\ \A i \in 1..n : r[i] = s[i]
    BY <1>2
  <1>4. v \in [1..(n + 1) -> Nat] /\ v[n + 1] = most /\ \A i \in 1..n : v[i] = u[i]
    BY <1>2
  <1>5. \A i \in 1..(n + 1) : i = n + 1 \/ i \in 1..n
    BY <1>2
  <1> HIDE DEF r, v
  <1>6. SpentAfter(o, most) \in Nat /\ most <= SpentAfter(o, most)
    BY SpentNat
  <1>7. \A i \in 1..n : SpentAfter(s[i], u[i]) \in Nat
    <2> SUFFICES ASSUME NEW i \in 1..n PROVE SpentAfter(s[i], u[i]) \in Nat
      OBVIOUS
    <2>1. s[i] \in Orders /\ u[i] \in Nat
      BY <1>2
    <2> QED
      BY <2>1, SpentNat
  <1>8. ASSUME NEW i \in 1..(n + 1) PROVE 0 <= v[i] /\ SpentAfter(r[i], v[i]) <= SpentAfter(o, most)
    <2>1. CASE i = n + 1
      BY <1>3, <1>4, <1>6, <2>1
    <2>2. CASE i \in 1..n
      <3>1. SpentAfter(r[i], v[i]) = SpentAfter(s[i], u[i]) /\ 0 <= v[i]
        BY <1>3, <1>4, <2>2, <1>1
      <3>2. SpentAfter(s[i], u[i]) \in Nat /\ SpentAfter(s[i], u[i]) <= most
        BY <1>1, <1>7, <2>2
      <3> QED
        BY <1>6, <3>1, <3>2
    <2> QED
      BY <1>5, <2>1, <2>2
  <1>9. ASSUME NEW i \in 1..(n + 1), NEW j \in 1..(n + 1), i < j PROVE SpentAfter(r[i], v[i]) <= v[j]
    <2>1. i \in 1..n
      BY <1>2, <1>5, <1>9
    <2>2. SpentAfter(r[i], v[i]) = SpentAfter(s[i], u[i])
      BY <1>3, <1>4, <2>1
    <2>3. CASE j = n + 1
      BY <1>1, <1>4, <2>1, <2>2, <2>3
    <2>4. CASE j \in 1..n
      BY <1>1, <1>4, <1>9, <2>1, <2>2, <2>4 DEF Paced
    <2> QED
      BY <1>5, <2>3, <2>4
  <1>10. Paced(r, v)
    BY <1>3, <1>4, <1>9 DEF Paced
  <1> QED
    BY <1>3, <1>8, <1>10 DEF Ready, r

\* Orders that cost nothing of the budget, before others.
LEMMA FreeReady ==
  ASSUME NEW s \in Seq(Orders), \A i \in 1..Len(s) : s[i].side = "sell" \/ IsSleeve(s[i].t)
  PROVE  Ready(s, 0, 0)
  <1> DEFINE u == [i \in 1..Len(s) |-> 0]
  <1>1. Paced(s, u)
    BY SteadyPace
  <1>2. \A i \in 1..Len(s) : 0 <= u[i] /\ SpentAfter(s[i], u[i]) <= 0
    BY DEF SpentAfter
  <1> HIDE DEF u
  <1> QED
    BY <1>1, <1>2 DEF Ready

LEMMA JoinedReady ==
  ASSUME NEW a, Ready(a, 0, 0), NEW b, NEW most \in Nat, Ready(b, 0, most)
  PROVE  Ready(a \o b, 0, most)
  <1> DEFINE c == a \o b
  <1>1. PICK ua : Paced(a, ua) /\ \A i \in 1..Len(a) : 0 <= ua[i] /\ SpentAfter(a[i], ua[i]) <= 0
    BY DEF Ready
  <1>2. PICK ub : Paced(b, ub) /\ \A i \in 1..Len(b) : 0 <= ub[i] /\ SpentAfter(b[i], ub[i]) <= most
    BY DEF Ready
  <1>3. \A i \in 1..Len(a) : SpentAfter(a[i], ua[i]) = 0
    <2> SUFFICES ASSUME NEW i \in 1..Len(a) PROVE SpentAfter(a[i], ua[i]) = 0
      OBVIOUS
    <2>1. a[i] \in Orders /\ ua[i] \in Nat
      BY <1>1 DEF Paced
    <2>2. SpentAfter(a[i], ua[i]) \in Nat
      BY <2>1, SpentNat
    <2> QED
      BY <1>1, <2>2
  <1>4. Follows(b, ub, a, ua)
    BY <1>2, <1>3 DEF Follows
  <1>5. \E u : /\ Paced(c, u)
               /\ \A k \in 1..Len(c) : \/ \E i \in 1..Len(a) : c[k] = a[i] /\ u[k] = ua[i]
                                       \/ \E i \in 1..Len(b) : c[k] = b[i] /\ u[k] = ub[i]
    BY <1>1, <1>2, <1>4, JoinedPace
  <1> HIDE DEF c
  <1>6. PICK u : /\ Paced(c, u)
                 /\ \A k \in 1..Len(c) : \/ \E i \in 1..Len(a) : c[k] = a[i] /\ u[k] = ua[i]
                                         \/ \E i \in 1..Len(b) : c[k] = b[i] /\ u[k] = ub[i]
    BY <1>5
  <1>7. \A k \in 1..Len(c) : 0 <= u[k] /\ SpentAfter(c[k], u[k]) <= most
    BY <1>1, <1>2, <1>3, <1>6
  <1> QED
    BY <1>6, <1>7 DEF Ready, c

\* The first order goes, at no more than it was approved for.
LEMMA PaidOn ==
  ASSUME NEW s, NEW sofar \in Nat, NEW most \in Nat, Ready(s, sofar, most), s # <<>>,
         NEW after \in Nat, after <= SpentAfter(Head(s), sofar)
  PROVE  after <= most /\ Ready(Tail(s), after, most)
  <1> DEFINE r == Tail(s)
             o == Head(s)
  <1>1. PICK u : Paced(s, u) /\ \A i \in 1..Len(s) : sofar <= u[i] /\ SpentAfter(s[i], u[i]) <= most
    BY DEF Ready
  <1>2. s \in Seq(Orders) /\ u \in [1..Len(s) -> Nat]
    BY <1>1 DEF Paced
  <1>3. /\ r \in Seq(Orders) /\ Len(r) = Len(s) - 1 /\ \A i \in 1..Len(r) : r[i] = s[i + 1]
        /\ Len(s) \in Nat \ {0} /\ o = s[1] /\ o \in Orders
    BY <1>2, TailShorter
  <1>4. \A i \in 1..Len(r) : i + 1 \in 1..Len(s)
    BY <1>3
  <1> DEFINE n == Len(r)
             v == [i \in 1..n |-> u[i + 1]]
  <1>5. v \in [1..n -> Nat] /\ \A i \in 1..n : v[i] = u[i + 1]
    BY <1>2, <1>4
  <1> HIDE DEF r, v, o
  <1>6. /\ after <= SpentAfter(o, u[1]) /\ SpentAfter(o, u[1]) \in Nat
        /\ SpentAfter(o, u[1]) <= most
    <2>1. u[1] \in Nat /\ sofar <= u[1] /\ SpentAfter(o, u[1]) <= most
      BY <1>1, <1>2, <1>3
    <2>2. SpentAfter(o, u[1]) \in Nat /\ SpentAfter(o, sofar) \in Nat
      BY <1>3, <2>1, SpentNat
    <2>3. SpentAfter(o, sofar) <= SpentAfter(o, u[1])
      <3>1. Cost(o) \in Nat
        BY <1>3, CostNat
      <3> QED
        BY <2>1, <3>1 DEF SpentAfter
    <2> QED
      BY <2>1, <2>2, <2>3 DEF o
  <1>7. ASSUME NEW i \in 1..n PROVE after <= v[i] /\ SpentAfter(r[i], v[i]) <= most
    <2>1. r[i] = s[i + 1] /\ v[i] = u[i + 1] /\ i + 1 \in 1..Len(s) /\ 1 \in 1..Len(s) /\ 1 < i + 1
      BY <1>3, <1>4, <1>5
    <2>2. SpentAfter(s[1], u[1]) <= u[i + 1] /\ u[i + 1] \in Nat
      BY <1>1, <1>2, <2>1 DEF Paced
    <2>3. after <= v[i]
      BY <1>3, <1>6, <2>1, <2>2
    <2> QED
      BY <1>1, <2>1, <2>3
  <1>8. ASSUME NEW i \in 1..n, NEW j \in 1..n, i < j PROVE SpentAfter(r[i], v[i]) <= v[j]
    <2>1. /\ r[i] = s[i + 1] /\ v[i] = u[i + 1] /\ v[j] = u[j + 1]
          /\ i + 1 \in 1..Len(s) /\ j + 1 \in 1..Len(s) /\ i + 1 < j + 1
      BY <1>3, <1>4, <1>5, <1>8
    <2> QED
      BY <1>1, <2>1 DEF Paced
  <1>9. Paced(r, v)
    BY <1>3, <1>5, <1>8 DEF Paced
  <1>10. after <= most
    BY <1>6
  <1> QED
    BY <1>7, <1>9, <1>10 DEF Ready, r

\* What is left of the approved orders is brought into the order of execution.
LEMMA QueueReady ==
  ASSUME NEW a \in Seq(Sound), NEW most \in Nat, Ready(a, 0, most), NEW cap \in Nat,
         NEW free, free \subseteq AllCodes
  PROVE  Ready(ExecList(a, cap, free), 0, most)
  <1> DEFINE sells == {o \in ToSet(a) : o.side = "sell"}
             final == {o \in ToSet(a) \ sells : o.t \in free}
             rest  == ToSet(a) \ (sells \cup final)
             s1 == Among(a, sells)
             s2 == Among(a, final)
             s3 == Among(a, rest)
             s4 == SubSeq(s3, 1, Min({cap, Len(s3)}))
  <1>1. ExecList(a, cap, free) = (s1 \o s2) \o s4
    BY DEF ExecList
  <1>2. (\A o \in sells : o.side = "sell") /\ \A o \in final : IsSleeve(o.t)
    BY DEF IsSleeve
  <1>3. Sound \subseteq Orders
    BY DEF Sound
  <1>4. a \in Seq(Orders)
    BY <1>3
  <1> HIDE DEF sells, final, rest
  <1>5. /\ s1 \in Seq(Orders) /\ ToSet(s1) = ToSet(a) \cap sells
        /\ s2 \in Seq(Orders) /\ ToSet(s2) = ToSet(a) \cap final
        /\ s3 \in Seq(Orders) /\ Sublist(s3, a)
    BY <1>4, AmongFacts
  <1> HIDE DEF s1, s2, s3
  <1>6. s4 \in Seq(Orders) /\ Sublist(s4, s3)
    BY <1>5, SelectedPart
  <1> HIDE DEF s4
  <1>7. Ready(s1, 0, 0)
    <2>1. \A i \in 1..Len(s1) : s1[i] \in sells
      BY <1>5, MembersOf
    <2> QED
      BY <1>2, <1>5, <2>1, FreeReady
  <1>8. Ready(s2, 0, 0)
    <2>1. \A i \in 1..Len(s2) : s2[i] \in final
      BY <1>5, MembersOf
    <2> QED
      BY <1>2, <1>5, <2>1, FreeReady
  <1>9. Ready(s1 \o s2, 0, 0)
    BY <1>7, <1>8, JoinedReady
  <1>10. Ready(s3, 0, most)
    BY <1>5, PartReady
  <1>11. Ready(s4, 0, most)
    BY <1>6, <1>10, PartReady
  <1>12. Ready((s1 \o s2) \o s4, 0, most)
    BY <1>9, <1>11, JoinedReady
  <1> QED
    BY <1>1, <1>12

\* The locals before a cycle.
LEMMA BlankIs ==
  /\ Fields(Blank) /\ Blank.cands = <<>> /\ Blank.targets = <<>> /\ Blank.drafts = <<>>
  /\ Blank.approved = <<>> /\ Blank.queue = <<>> /\ Blank.skip = FALSE
  /\ Blank.holdings = NoShares
  <1>1. /\ DOMAIN Blank = Locals
        /\ Blank.opened = FALSE /\ Blank.sellOnly = FALSE /\ Blank.skip = FALSE
        /\ Blank.holdings = NoShares /\ Blank.stocks = NoShares
        /\ Blank.funds = NoCash /\ Blank.bp.cash = 0 /\ Blank.bp.total = 0
        /\ Blank.cands = <<>> /\ Blank.targets = <<>> /\ Blank.sleeveBuys = <<>>
        /\ Blank.drafts = <<>> /\ Blank.approved = <<>> /\ Blank.queue = <<>>
    BY DEF Blank, Locals
  <1>2. NoShares \in Shares /\ NoCash.cash = 0 /\ NoCash.total = 0
    BY DEF NoShares, Shares, NoCash
  <1>3. SleevePurchases(<<>>)
    BY DEF SleevePurchases, OfSleeves
  <1>4. <<>> \in Seq(Tickers) /\ <<>> \in Seq(Sound)
    OBVIOUS
  <1> DEFINE c == Blank
  <1>5. c.opened \in BOOLEAN /\ c.sellOnly \in BOOLEAN /\ c.skip \in BOOLEAN
    BY <1>1
  <1>6. /\ c.holdings \in Shares /\ c.stocks \in Shares
        /\ c.funds.cash \in Nat /\ c.funds.total \in Nat /\ c.bp.cash \in Nat /\ c.bp.total \in Nat
    BY <1>1, <1>2
  <1>7. /\ c.cands \in Seq(Tickers) /\ c.targets \in Seq(Tickers) /\ SleevePurchases(c.sleeveBuys)
        /\ c.drafts \in Seq(Sound) /\ c.approved \in Seq(Sound) /\ c.queue \in Seq(Sound)
    BY <1>1, <1>3, <1>4
  <1>8. Fields(Blank)
    BY <1>1, <1>5, <1>6, <1>7 DEF Fields
  <1> QED
    BY <1>1, <1>8

\* Between the cycles, and where one begins.
LEMMA BlankKeeps ==
  ASSUME Kinds', Fields(cyc'), stage' \in {"idle", "collect"},
         cyc'.cands = <<>>, cyc'.targets = <<>>, cyc'.drafts = <<>>, cyc'.approved = <<>>,
         cyc'.queue = <<>>, cyc'.skip = FALSE, cyc'.holdings = NoShares,
         stage' = "collect" => tried' = <<>> /\ sent' = 0, sent' <= spent'
  PROVE  CycleInv'
  <1>1. Blanks' /\ SplitKept' /\ SkipKept' /\ Executing'
    BY DEF Blanks, SplitKept, SkipKept, Executing
  <1>2. Gated' /\ Selling' /\ Paying'
    BY DEF Gated, Selling, Paying
  <1> QED
    BY <1>1, <1>2 DEF CycleInv

\* The start: no cycle is on.
LEMMA CycleInit == Init => CycleInv
  <1> SUFFICES ASSUME Init PROVE CycleInv
    OBVIOUS
  <1>1. Kinds
    <2>1. hour \in DOMAIN Day
      BY CycleAssumption DEF Init
    <2>2. shares \in Shares /\ cash \in Nat
      BY CycleAssumption DEF Init
    <2>3. blocked \subseteq KR /\ refusals \in [Tickers -> Nat] /\ history \subseteq Tickers
      BY DEF Init, Held
    <2>4. stage \in Stages /\ spent \in Nat /\ sent \in Nat /\ cycles \in 0..MaxCycles /\ tried \in Seq(Orders)
      BY CycleAssumption DEF Init, Stages
    <2> QED
      BY <2>1, <2>2, <2>3, <2>4 DEF Kinds
  <1>2. cyc = Blank /\ stage = "idle"
    BY DEF Init
  <1>3. Blanks /\ SplitKept /\ SkipKept /\ Executing
    BY <1>2, BlankIs DEF Blanks, SplitKept, SkipKept, Executing, NoStock
  <1>4. Gated /\ Selling /\ Paying
    <2>1. sent = 0 /\ spent = 0
      BY DEF Init
    <2> QED
      BY <1>2, <2>1 DEF Gated, Selling, Paying
  <1> QED
    BY <1>1, <1>2, <1>3, <1>4, BlankIs DEF CycleInv

\* The clock moves under a cycle.
LEMMA ClockKeeps == CycleInv /\ Clock => CycleInv'
  <1> SUFFICES ASSUME CycleInv, Clock PROVE CycleInv'
    OBVIOUS
  <1>1. Kinds'
    BY CycleAssumption DEF CycleInv, Kinds, Clock
  <1>2. UNCHANGED <<shares, cash, blocked, refusals, history, stage, cyc, spent, tried, sent, cycles>>
    BY DEF Clock
  <1>3. Fields(cyc)' /\ Blanks' /\ SplitKept'
    BY <1>2 DEF CycleInv, Fields, Blanks, SplitKept, Stocks
  <1>4. SkipKept' /\ Gated' /\ Selling' /\ Paying' /\ Executing'
    BY <1>2 DEF CycleInv, SkipKept, Gated, Selling, Paying, Executing
  <1> QED
    BY <1>1, <1>3, <1>4 DEF CycleInv

\* A cycle begins with blank locals.
LEMMA BeginsKeeps ==
  ASSUME CycleInv, NEW opened \in BOOLEAN, NEW news \in BOOLEAN, CycleBegins(opened, news)
  PROVE  CycleInv'
  <1>1. Kinds'
    <2>1. UNCHANGED market /\ stage' = "collect" /\ cycles' = cycles + 1 /\ cycles < MaxCycles
          /\ spent' = 0 /\ tried' = <<>> /\ sent' = 0
      BY DEF CycleBegins, Moves
    <2> QED
      BY <2>1, CycleAssumption DEF CycleInv, Kinds, market, Stages
  <1>2. cyc' = [Blank EXCEPT !.session = Now, !.opened = opened, !.sellOnly = ~news /\ ~opened]
    BY DEF CycleBegins
  <1>3. /\ DOMAIN cyc' = DOMAIN Blank /\ cyc'.opened = opened /\ cyc'.sellOnly = (~news /\ ~opened)
        /\ \A f \in Locals \ {"session", "opened", "sellOnly"} : cyc'[f] = Blank[f]
    BY <1>2, BlankIs DEF Fields, Locals
  <1>4. Fields(cyc') /\ cyc'.cands = <<>> /\ cyc'.targets = <<>> /\ cyc'.drafts = <<>>
        /\ cyc'.approved = <<>> /\ cyc'.queue = <<>> /\ cyc'.skip = FALSE
        /\ cyc'.holdings = NoShares
    BY <1>3, BlankIs DEF Fields, Locals
  <1>5. stage' = "collect" /\ tried' = <<>> /\ sent' = 0 /\ spent' = 0
    BY DEF CycleBegins, Moves
  <1>6. sent' <= spent' /\ stage' \in {"idle", "collect"}
    BY <1>5
  <1> QED
    BY <1>1, <1>4, <1>5, <1>6, BlankKeeps

\* A report or an exception blanks the locals.
LEMMA EndsKeeps == CycleInv /\ (Report \/ CycleFails) => CycleInv'
  <1> SUFFICES ASSUME CycleInv, Report \/ CycleFails PROVE CycleInv'
    OBVIOUS
  <1>1. Kinds'
    BY DEF CycleInv, Kinds, Report, CycleFails, market, Stages, Held
  <1>2. cyc' = Blank /\ stage' = "idle" /\ sent' <= spent'
    BY DEF Report, CycleFails, CycleInv, Paying
  <1> QED
    BY <1>1, <1>2, BlankIs, BlankKeeps

\* A stage before the draft keeps the lists of the orders.
LEMMA EarlyKeeps ==
  ASSUME CycleInv, stage \in {"collect", "macro", "select", "quant", "sleeves", "finalize"},
         stage' \in {"macro", "select", "quant", "sleeves", "finalize", "build"}, Keeps, Fields(cyc'),
         cyc'.drafts = cyc.drafts, cyc'.approved = cyc.approved, cyc'.queue = cyc.queue,
         stage' \notin {"quant", "sleeves", "finalize"} => cyc'.cands = <<>>,
         stage' # "build" => cyc'.targets = <<>>,
         cyc'.skip => cyc'.cands = <<>> /\ cyc'.targets = <<>>,
         stage' = "build" => cyc'.stocks = Stocks'
  PROVE  CycleInv'
  <1>1. UNCHANGED <<hour, shares, cash, blocked, refusals, history, spent, tried, sent, cycles>>
    BY DEF Keeps, market
  <1>2. Kinds'
    BY <1>1 DEF CycleInv, Kinds, Stages
  <1>3. cyc'.drafts = <<>> /\ cyc'.approved = <<>> /\ cyc'.queue = <<>> /\ tried' = <<>>
    BY <1>1 DEF CycleInv, Blanks
  <1>4. Blanks'
    BY <1>3 DEF Blanks
  <1>5. SplitKept' /\ SkipKept'
    BY <1>1, <1>3 DEF SplitKept, SkipKept, NoStock
  <1>6. Gated' /\ Selling' /\ Executing'
    BY DEF Gated, Selling, Executing
  <1>7. Paying'
    BY <1>1 DEF CycleInv, Kinds, Paying
  <1> QED
    BY <1>2, <1>4, <1>5, <1>6, <1>7 DEF CycleInv

\* The holdings are read, in full, in part or not.
LEMMA CollectKeeps == CycleInv /\ Collect => CycleInv'
  <1> SUFFICES ASSUME CycleInv, Collect PROVE CycleInv'
    OBVIOUS
  <1>1. PICK h \in Readings(cyc.session) : cyc' = [cyc EXCEPT !.holdings = h]
    BY DEF Collect
  <1>2. shares \in Shares /\ cash \in Nat /\ stage = "collect" /\ stage' = "macro" /\ Keeps
    BY DEF CycleInv, Kinds, Collect, Moves
  <1>3. h \in Shares
    <2>1. PICK snap \in Snapshots : \E us \in {NoShares, shares} :
            h = [t \in Tickers |-> IF t \in KR THEN snap.list[t] ELSE us[t]]
      BY <1>1 DEF Readings
    <2>2. PICK us \in {NoShares, shares} :
            h = [t \in Tickers |-> IF t \in KR THEN snap.list[t] ELSE us[t]]
      BY <2>1
    <2>3. snap.list \in Shares /\ us \in Shares
      BY <1>2, <2>2, SnapshotIs DEF Told, NoShares, Shares
    <2> QED
      BY <2>2, <2>3 DEF Shares
  <1>4. Fields(cyc) /\ Blanks
    BY DEF CycleInv
  <1>5. cyc'.holdings = h /\ DOMAIN cyc' = Locals /\ \A f \in Locals \ {"holdings"} : cyc'[f] = cyc[f]
    BY <1>1, <1>4 DEF Fields, Locals
  <1>6. Fields(cyc')
    BY <1>3, <1>4, <1>5 DEF Fields, Locals
  <1>7. /\ cyc'.drafts = cyc.drafts /\ cyc'.approved = cyc.approved /\ cyc'.queue = cyc.queue
        /\ cyc'.cands = <<>> /\ cyc'.targets = <<>>
    BY <1>2, <1>4, <1>5 DEF Blanks, Locals
  <1> QED
    BY <1>2, <1>6, <1>7, EarlyKeeps

\* Cash and room for stocks are read, or not.
LEMMA MacroKeeps ==
  ASSUME CycleInv, NEW sums \in Sums, NEW full \in BOOLEAN, NewsMacro(sums, full)
  PROVE  CycleInv'
  <1> DEFINE s1 == cyc.sellOnly \/ (sums.total > 0 /\ full)
  <1>1. cyc' = [cyc EXCEPT !.funds = sums, !.skip = s1] /\ stage = "macro" /\ stage' = "select" /\ Keeps
    BY DEF NewsMacro, Moves
  <1>2. Fields(cyc) /\ Blanks /\ shares \in Shares /\ cash \in Nat
    BY DEF CycleInv, Kinds
  <1>3. sums.cash \in Nat /\ sums.total \in Nat
    <2>1. PICK snap \in Snapshots : sums = [cash |-> snap.cash, total |-> snap.total]
      BY DEF Sums
    <2> QED
      BY <1>2, <2>1, SnapshotIs DEF Told
  <1>8. s1 \in BOOLEAN
    BY <1>2 DEF Fields
  <1> HIDE DEF s1
  <1>4. /\ cyc'.funds = sums /\ cyc'.skip = s1 /\ DOMAIN cyc' = Locals
        /\ \A f \in Locals \ {"funds", "skip"} : cyc'[f] = cyc[f]
    BY <1>1, <1>2 DEF Fields, Locals
  <1>5. Fields(cyc')
    BY <1>2, <1>3, <1>4, <1>8 DEF Fields, Locals
  <1>6. /\ cyc'.drafts = cyc.drafts /\ cyc'.approved = cyc.approved /\ cyc'.queue = cyc.queue
        /\ cyc'.cands = <<>> /\ cyc'.targets = <<>> /\ cyc'.holdings = cyc.holdings
    BY <1>1, <1>2, <1>4 DEF Blanks, Locals
  <1> QED
    BY <1>1, <1>5, <1>6, EarlyKeeps

\* A step that changes the candidates alone.
LEMMA CandsKeep ==
  ASSUME CycleInv, NEW c \in Seq(Tickers), cyc' = [cyc EXCEPT !.cands = c], Keeps,
         stage \in {"select", "quant"}, stage' \in {"quant", "sleeves"}, cyc.skip => c = <<>>
  PROVE  CycleInv'
  <1>1. Fields(cyc) /\ Blanks
    BY DEF CycleInv
  <1>2. cyc'.cands = c /\ DOMAIN cyc' = Locals /\ \A f \in Locals \ {"cands"} : cyc'[f] = cyc[f]
    BY <1>1 DEF Fields, Locals
  <1>3. Fields(cyc')
    BY <1>1, <1>2 DEF Fields, Locals
  <1>4. /\ cyc'.drafts = cyc.drafts /\ cyc'.approved = cyc.approved /\ cyc'.queue = cyc.queue
        /\ cyc'.targets = <<>> /\ cyc'.holdings = cyc.holdings /\ cyc'.skip = cyc.skip
    BY <1>1, <1>2 DEF Blanks, Locals
  <1> QED
    BY <1>2, <1>3, <1>4, EarlyKeeps

\* Candidates are chosen, or none in a cycle that may not buy.
LEMMA SelectKeeps ==
  ASSUME CycleInv, NEW picks \in Ideas, NEW news \in Ideas, NEW screened, NEW known,
         Select(picks, news, screened, known)
  PROVE  CycleInv'
  <1> DEFINE codes == IF cyc.skip THEN <<>> ELSE Resolved(picks)
             named == Seeded(codes, news)
             worth == {t \in Tickers \ screened : known => WorthAnalysing(t, cash)}
             c == Among(named, worth)
  <1>1. cyc' = [cyc EXCEPT !.cands = c] /\ stage = "select" /\ stage' = "quant" /\ Keeps
    BY DEF Select, Moves
  <1>2. picks \in Seq(Tickers) /\ news \in Seq(Tickers)
    BY CycleAssumption
  <1>3. Resolved(picks) \in Seq(Tickers)
    <2> DEFINE here == Market(cyc.session) \ (IF IsExtended(cyc.session) THEN blocked ELSE {})
               kept == Among(picks, here)
    <2>1. kept \in Seq(Tickers)
      BY <1>2, AmongFacts
    <2>2. Resolved(picks) = SubSeq(kept, 1, Min({5, Len(kept)}))
      BY DEF Resolved
    <2> HIDE DEF kept
    <2>3. LET r == SubSeq(kept, 1, Min({5, Len(kept)}))
          IN r \in Seq(Tickers) /\ ToSet(r) \subseteq ToSet(kept)
      BY <2>1, SelectedPart
    <2> QED
      BY <2>2, <2>3
  <1>4. codes \in Seq(Tickers) /\ (cyc.skip => codes = <<>>)
    BY <1>3
  <1> HIDE DEF codes
  <1>5. named \in Seq(Tickers) /\ (cyc.skip => named = <<>>)
    <2>1. Among(news, Market(cyc.session)) \in Seq(Tickers)
      BY <1>2, AmongFacts
    <2> QED
      BY <1>4, <2>1 DEF Seeded
  <1> HIDE DEF named, worth
  <1>6. c \in Seq(Tickers) /\ (cyc.skip => c = <<>>)
    BY <1>5, AmongFacts, FilteredEmpty
  <1> HIDE DEF c
  <1> QED
    BY <1>1, <1>6, CandsKeep

\* Candidates without data are dropped.
LEMMA QuantKeeps ==
  ASSUME CycleInv, NEW noData, Quant(noData)
  PROVE  CycleInv'
  <1> DEFINE S == (Tickers \ noData) \cup Held(cyc.holdings)
             c == Among(cyc.cands, S)
  <1>1. cyc' = [cyc EXCEPT !.cands = c] /\ stage = "quant" /\ stage' = "sleeves" /\ Keeps
    BY DEF Quant, Moves
  <1>2. cyc.cands \in Seq(Tickers) /\ (cyc.skip => cyc.cands = <<>>)
    BY DEF CycleInv, Fields, Blanks
  <1> HIDE DEF S
  <1>3. c \in Seq(Tickers) /\ (cyc.skip => c = <<>>)
    BY <1>2, AmongFacts, FilteredEmpty
  <1> HIDE DEF c
  <1> QED
    BY <1>1, <1>3, CandsKeep

LEMMA GapInt ==
  ASSUME NEW k \in Sleeves, NEW rec \in Nat, NEW h \in Shares, NEW total \in Nat
  PROVE  Gap(k, rec, h, total) \in Int
  <1>1. Only(h, Pool[k]) \in Shares
    BY DEF Only, Shares
  <1>2. Value(Only(h, Pool[k])) \in Nat
    BY <1>1, ValueNat
  <1> DEFINE v == Value(Only(h, Pool[k]))
             m == Min({rec, TargetMax})
  <1>3. m \in Nat
    <2>1. rec \in Int /\ TargetMax \in Int /\ TargetMax \in Nat
      BY SleeveAssumption
    <2>2. m \in {rec, TargetMax}
      BY <2>1, SmallerOf
    <2> QED
      BY <2>1, <2>2
  <1>4. Gap(k, rec, h, total) = m * total - 100 * v
    BY DEF Gap
  <1> HIDE DEF v, m
  <1>5. v \in Nat
    BY <1>2 DEF v
  <1> QED
    BY <1>3, <1>4, <1>5

LEMMA BudgetInt ==
  ASSUME NEW k \in Sleeves, NEW rec \in Nat, NEW h \in Shares, NEW total \in Nat, NEW funds \in Nat
  PROVE  BuyBudget(k, rec, h, total, funds) \in Int
  <1> DEFINE g == Gap(k, rec, h, total)
             p == total * PerCycle
             q == (funds * 10000) \div Buffer
             S == {g, p} \cup (IF funds > 0 THEN {q} ELSE {})
  <1>1. g \in Int
    BY GapInt
  <1>2. p \in Int
    BY SleeveAssumption
  <1>3. q \in Int
    <2>1. Buffer \in Nat \ {0} /\ funds * 10000 \in Nat
      BY SleeveAssumption
    <2> DEFINE x == funds * 10000
    <2> HIDE DEF x
    <2> QED
      BY <2>1, QuotientNat DEF x
  <1>4. BuyBudget(k, rec, h, total, funds) = Min(S)
    BY DEF BuyBudget
  <1> HIDE DEF g, p, q
  <1>5. S \subseteq Int /\ \E x \in S : \A y \in S : x <= y
    BY <1>1, <1>2, <1>3
  <1> HIDE DEF S
  <1>6. Min(S) \in S
    BY <1>5 DEF Min
  <1> QED
    BY <1>4, <1>5, <1>6

\* A sleeve's purchase as it joins the drafts.
SleevePurchase(o) ==
  /\ o \in Orders /\ o.side = "buy" /\ o.by = "sleeve" /\ o.qty >= 1 /\ o.t \in EnabledCodes

\* What SleeveBuys returns, for all decisions and budgets.
LEMMA BuysOfSleeve ==
  ASSUME NEW k \in Enabled, NEW decisions, DOMAIN decisions \subseteq Pool[k],
         NEW budget \in Int, NEW quoted
  PROVE  /\ IsFiniteSet(SleeveBuys(decisions, budget, quoted))
         /\ \A o \in SleeveBuys(decisions, budget, quoted) : SleevePurchase(o)
  <1> DEFINE picks == {t \in DOMAIN decisions : decisions[t] = "buy"}
             n == Cardinality(picks)
             Qty(t) == budget \div (100 * n * Price[t])
             D == {p \in picks \cap quoted : Qty(p) >= 1}
             f == [t \in D |-> Order(t, "buy", Qty(t), "sleeve")]
             S == {f[t] : t \in D}
  <1>1. picks \subseteq EnabledCodes /\ picks \subseteq Tickers
    BY SleeveAssumption DEF EnabledCodes, Codes
  <1>2. IsFiniteSet(picks)
    BY <1>1, FS_Subset, SleeveAssumption
  <1>3. n \in Nat /\ (n = 0 <=> picks = {})
    BY <1>2, FS_CardinalityType, FS_EmptySet
  <1>4. ASSUME NEW t \in picks PROVE Qty(t) \in Int
    <2>1. Price[t] \in Nat \ {0} /\ n \in Nat \ {0}
      BY <1>1, <1>3, SleeveAssumption
    <2> DEFINE p == Price[t]
               d == 100 * n * p
    <2> HIDE DEF n, p
    <2>2. d \in Nat \ {0}
      BY <2>1 DEF p
    <2> HIDE DEF d
    <2>3. budget \div d \in Int
      BY <2>2
    <2> QED
      BY <2>3 DEF d, p, n
  <1> HIDE DEF picks, Qty
  <1>5. \A t \in D : SleevePurchase(f[t])
    BY <1>1, <1>4 DEF SleevePurchase, Order, Orders
  <1>6. IsFiniteSet(D)
    BY <1>2, FS_Subset
  <1>7. SleeveBuys(decisions, budget, quoted) = S
    BY DEF SleeveBuys, Qty, picks
  <1> HIDE DEF f, D
  <1>8. IsFiniteSet(S)
    BY <1>6, ImageFinite
  <1> QED
    BY <1>5, <1>7, <1>8

\* What a sleeve orders, by any answer.
LEMMA OrderedIs ==
  ASSUME NEW k \in Enabled, NEW a \in Answers, NEW h \in Shares, Active(k, a, h),
         cyc.funds.cash \in Nat, cyc.funds.total \in Nat
  PROVE  IsFiniteSet(Ordered(k, a, h)) /\ \A o \in Ordered(k, a, h) : SleevePurchase(o)
  <1> DEFINE total == cyc.funds.total
             funds == cyc.funds.cash
             buying == SleeveAction(k, a.rec, h, total) = "buy"
             budget == BuyBudget(k, a.rec, h, total, funds)
  <1>1. CASE ~buying
    BY <1>1, FS_EmptySet DEF Ordered
  <1>2. CASE buying
    <2>1. a.rec # NoRec
      BY <1>2 DEF SleeveAction
    <2>2. a.rec \in Nat
      BY <2>1, CycleAssumption DEF Answers
    <2>3. k \in Sleeves
      BY SleeveAssumption
    <2>4. budget \in Int
      <3> DEFINE rec == a.rec
      <3>1. rec \in Nat /\ total \in Nat /\ funds \in Nat
        BY <2>2
      <3> HIDE DEF rec, total, funds
      <3>2. BuyBudget(k, rec, h, total, funds) \in Int
        BY <2>3, <3>1, BudgetInt
      <3> QED
        BY <3>2 DEF rec
    <2>5. DOMAIN a.dec \subseteq Pool[k]
      BY DEF Active, PoolFor
    <2>6. Ordered(k, a, h) = SleeveBuys(a.dec, budget, a.quoted)
      BY <1>2 DEF Ordered
    <2> DEFINE dec == a.dec
               ok == a.quoted
    <2> HIDE DEF budget, dec, ok
    <2>7. DOMAIN dec \subseteq Pool[k]
      BY <2>5 DEF dec
    <2>8. /\ IsFiniteSet(SleeveBuys(dec, budget, ok))
          /\ \A o \in SleeveBuys(dec, budget, ok) : SleevePurchase(o)
      BY <2>4, <2>7, BuysOfSleeve
    <2> QED
      BY <2>6, <2>8 DEF dec, ok
  <1> QED
    BY <1>1, <1>2

\* The purchases of all the sleeves, as a list.
LEMMA PurchasesListed ==
  ASSUME NEW S, IsFiniteSet(S), \A o \in S : SleevePurchase(o)
  PROVE  SleevePurchases(SetToSeq(S))
  <1> DEFINE s == SetToSeq(S)
  <1>1. s \in Seq(S)
    BY SetAsList
  <1> HIDE DEF s
  <1>2. \A i \in 1..Len(s) : SleevePurchase(s[i])
    BY <1>1
  <1>3. s \in Seq(Orders)
    BY <1>1 DEF SleevePurchase
  <1> QED
    BY <1>2, <1>3 DEF SleevePurchases, OfSleeves, SleevePurchase, s

\* The sleeves order, and propose sales.
LEMMA SleevesKeep ==
  ASSUME CycleInv, NEW answer \in [Enabled -> Answers], NEW h \in Spread, NEW failed,
         SleeveStage(answer, h, failed)
  PROVE  CycleInv'
  <1> DEFINE on == {k \in Enabled \ failed : Active(k, answer[k], h)}
             f == [k \in on |-> Ordered(k, answer[k], h)]
             S == UNION {f[k] : k \in on}
             b == SetToSeq(S)
  <1>1. Fields(cyc) /\ Blanks /\ shares \in Shares
    BY DEF CycleInv, Kinds
  <1>2. h \in Shares
    BY <1>1 DEF Spread, Fields, Shares
  <1>3. \A k \in on : IsFiniteSet(f[k]) /\ \A o \in f[k] : SleevePurchase(o)
    <2> SUFFICES ASSUME NEW k \in on PROVE IsFiniteSet(f[k]) /\ \A o \in f[k] : SleevePurchase(o)
      OBVIOUS
    <2> DEFINE a == answer[k]
    <2>1. a \in Answers /\ Active(k, a, h) /\ k \in Enabled /\ f[k] = Ordered(k, a, h)
      OBVIOUS
    <2> HIDE DEF a, on, f
    <2>2. cyc.funds.cash \in Nat /\ cyc.funds.total \in Nat
      BY <1>1 DEF Fields
    <2>3. IsFiniteSet(Ordered(k, a, h)) /\ \A o \in Ordered(k, a, h) : SleevePurchase(o)
      BY <1>2, <2>1, <2>2, OrderedIs
    <2> QED
      BY <2>1, <2>3
  <1>4. IsFiniteSet(on)
    <2>1. on \subseteq Sleeves
      BY SleeveAssumption
    <2> QED
      BY <2>1, SleeveAssumption, FS_Subset
  <1>5. S = UNION {Ordered(k, answer[k], h) : k \in on}
    OBVIOUS
  <1>6. /\ stage = "sleeves" /\ stage' = "finalize" /\ Keeps /\ DOMAIN cyc' = Locals
        /\ cyc'.sleeveBuys = b /\ cyc'.funds = NoCash
        /\ \A x \in Locals \ {"sleeveBuys", "proposals", "priced", "unpriced", "funds"} : cyc'[x] = cyc[x]
    BY <1>1 DEF SleeveStage, Moves, Fields, Locals
  <1> HIDE DEF on, f
  <1>7. IsFiniteSet(S) /\ \A o \in S : SleevePurchase(o)
    <2> DEFINE F == {f[k] : k \in on}
    <2>1. IsFiniteSet(F)
      BY <1>4, ImageFinite
    <2>2. \A T \in F : IsFiniteSet(T)
      BY <1>3
    <2>3. \A T \in F : \A o \in T : SleevePurchase(o)
      BY <1>3
    <2> HIDE DEF F
    <2>4. IsFiniteSet(UNION F)
      BY <2>1, <2>2, FS_UNION
    <2>5. \A o \in UNION F : SleevePurchase(o)
      BY <2>3
    <2> QED
      BY <2>4, <2>5 DEF F
  <1> HIDE DEF S
  <1>8. SleevePurchases(b)
    BY <1>7, PurchasesListed
  <1> HIDE DEF b
  <1>9. NoCash.cash = 0 /\ NoCash.total = 0
    BY DEF NoCash
  <1>10. Fields(cyc')
    BY <1>1, <1>6, <1>8, <1>9 DEF Fields, Locals
  <1>11. /\ cyc'.drafts = cyc.drafts /\ cyc'.approved = cyc.approved /\ cyc'.queue = cyc.queue
         /\ cyc'.targets = <<>> /\ cyc'.holdings = cyc.holdings
         /\ cyc'.skip => cyc'.cands = <<>>
    BY <1>1, <1>6 DEF Blanks, Locals
  <1> QED
    BY <1>6, <1>10, <1>11, EarlyKeeps

\* An order of choices names tickers of the list chosen from.
LEMMA OrderingIs ==
  ASSUME NEW s \in Seq(Tickers), NEW final \in Orderings(ToSet(s))
  PROVE  final \in Seq(Tickers) /\ (s = <<>> => final = <<>>)
  <1>1. PICK T \in SUBSET ToSet(s) : final \in SetToSeqs(T)
    BY DEF Orderings
  <1>2. T \subseteq Tickers /\ (s = <<>> => T = {})
    BY DEF ToSet
  <1>3. IsFiniteSet(T)
    BY <1>2, SleeveAssumption, FS_Subset
  <1>4. Cardinality(T) \in Nat /\ (T = {} => Cardinality(T) = 0)
    BY <1>3, FS_CardinalityType, FS_EmptySet
  <1>5. final \in [1..Cardinality(T) -> T]
    BY <1>1 DEF SetToSeqs
  <1> DEFINE n == Cardinality(T)
  <1> HIDE DEF n
  <1>6. n \in Nat /\ final \in [1..n -> T] /\ (T = {} => n = 0)
    BY <1>4, <1>5 DEF n
  <1>7. final \in Seq(Tickers) /\ Len(final) = n
    BY <1>2, <1>6
  <1> QED
    BY <1>2, <1>6, <1>7

\* The targets and the directives are final.
LEMMA FinalizeKeeps ==
  ASSUME CycleInv, NEW final \in Orderings(ToSet(cyc.cands)), NEW said, FinalizeSell(final, said)
  PROVE  CycleInv'
  <1> DEFINE c == Among(final, Market(cyc.session))
  <1>1. Fields(cyc) /\ Blanks
    BY DEF CycleInv
  <1>2. cyc.cands \in Seq(Tickers) /\ (cyc.skip => cyc.cands = <<>>)
    BY <1>1 DEF Fields, Blanks
  <1>3. final \in Seq(Tickers) /\ (cyc.cands = <<>> => final = <<>>)
    <2> DEFINE s == cyc.cands
    <2> HIDE DEF s
    <2>1. s \in Seq(Tickers) /\ final \in Orderings(ToSet(s))
      BY <1>2 DEF s
    <2>2. final \in Seq(Tickers) /\ (s = <<>> => final = <<>>)
      BY <2>1, OrderingIs
    <2> QED
      BY <2>2 DEF s
  <1>4. c \in Seq(Tickers) /\ (cyc.skip => c = <<>>)
    BY <1>2, <1>3, AmongFacts, FilteredEmpty
  <1> HIDE DEF c
  <1>5. Stocks \in Shares
    BY <1>1 DEF Fields, Stocks, Without, Shares
  <1>6. cyc' = [cyc EXCEPT !.targets = c, !.directives = Directives(said), !.stocks = Stocks,
                           !.cands = <<>>, !.proposals = <<>>]
        /\ stage = "finalize" /\ stage' = "build" /\ Keeps
    BY DEF FinalizeSell, Moves, c
  <1>7. /\ cyc'.targets = c /\ cyc'.stocks = Stocks /\ cyc'.cands = <<>> /\ DOMAIN cyc' = Locals
        /\ \A x \in Locals \ {"targets", "directives", "stocks", "cands", "proposals"} : cyc'[x] = cyc[x]
    BY <1>1, <1>6 DEF Fields, Locals
  <1>8. Fields(cyc')
    BY <1>1, <1>4, <1>5, <1>7 DEF Fields, Locals
  <1>9. /\ cyc'.drafts = cyc.drafts /\ cyc'.approved = cyc.approved /\ cyc'.queue = cyc.queue
        /\ cyc'.holdings = cyc.holdings /\ cyc'.skip = cyc.skip
    BY <1>7 DEF Locals
  <1>10. Stocks' = Stocks
    BY <1>9 DEF Stocks
  <1> QED
    BY <1>4, <1>6, <1>7, <1>8, <1>9, <1>10, EarlyKeeps

\* Orders that are fair are sound.
LEMMA FairIsSound ==
  ASSUME NEW s \in Seq(Orders), NEW u, NEW funds, NEW total,
         \A i \in 1..Len(s) : Fair(s[i], u[i], funds, total)
  PROVE  s \in Seq(Sound)
  <1>1. \A i \in 1..Len(s) : s[i] \in Sound
    BY DEF Fair, Sound
  <1> QED
    BY <1>1

\* The draft: the stocks' orders, then the sleeves'.
LEMMA BuildKeeps ==
  ASSUME CycleInv, BudgetInv, NEW snap \in Seen, NEW sunk, NEW moods, NEW quoted,
         NEW tilt \in [Targeted -> Tilts],
         NEW psbl \in [Targeted \cup Held(ForSale(snap)) -> PsblLimits],
         BuildOrders(snap, sunk, moods, quoted, tilt, psbl)
  PROVE  CycleInv'
  <1> DEFINE funds == snap.cash
             total == snap.total
             h == ForSale(snap)
             a == StockDraft(snap, moods, quoted, tilt, psbl)
             s == a \o cyc.sleeveBuys \o SleeveSales(cyc.directives, cyc.holdings, EnabledCodes)
  <1>1. /\ Kinds /\ Fields(cyc) /\ Blanks /\ SplitKept
        /\ stage = "build" /\ stage' = "risk" /\ Keeps
    BY DEF CycleInv, BuildOrders, Moves
  <1>2. UNCHANGED <<hour, shares, cash, blocked, refusals, history, spent, tried, sent, cycles>>
    BY <1>1 DEF Keeps, market
  <1>3. /\ DOMAIN cyc' = Locals /\ cyc'.drafts = s
        /\ cyc'.bp.cash = funds /\ cyc'.bp.total = total
        /\ cyc'.sleeveBuys = <<>> /\ cyc'.targets = <<>>
        /\ \A f \in Locals \ {"drafts", "bp", "sleeveBuys", "directives", "targets", "priced", "unpriced"} :
             cyc'[f] = cyc[f]
    BY <1>1 DEF BuildOrders, Fields, Locals
  <1>4. cyc.stocks \in Shares /\ cyc.holdings \in Shares /\ shares \in Shares /\ cash \in Nat
        /\ cyc.targets \in Seq(Tickers) /\ cyc.opened \in BOOLEAN /\ cyc.stocks = Stocks
        /\ SleevePurchases(cyc.sleeveBuys)
    BY <1>1 DEF Kinds, Fields, SplitKept
  <1>5. Told(snap) /\ h \in Shares /\ funds \in Nat /\ total \in Nat
    BY <1>4, SeenIs DEF Told
  <1>6. Drawn(a, h, funds, total)
    BY <1>4, <1>5, StockDraftIs
  <1>7. Held(cyc.stocks) # {} => h = cyc.stocks
    BY DEF ForSale
  <1>8. Planned(s, h, funds, total)
    <2> HIDE DEF a, h, funds, total
    <2> QED
      BY <1>4, <1>5, <1>6, <1>7, AllPlanned
  <1>10. spent = 0
    BY <1>1 DEF BudgetInv
  <1> HIDE DEF funds, total, h, s
  <1>11. PICK u : Paced(s, u) /\ \A i \in 1..Len(s) : Fair(s[i], u[i], funds, total)
    BY <1>8 DEF Planned
  <1>12. s \in Seq(Orders) /\ s \in Seq(Sound)
    BY <1>8, <1>11, FairIsSound DEF Planned
  <1>13. ToJudge(s, funds, total, 0)
    <2>1. \A i \in 1..Len(s) : 0 <= u[i]
      BY <1>11 DEF Paced
    <2> QED
      BY <1>11, <2>1 DEF ToJudge
  <1>14. Kinds'
    BY <1>1, <1>2 DEF Kinds, Stages
  <1>15. Fields(cyc')
    <2>1. SleevePurchases(<<>>) /\ <<>> \in Seq(Tickers)
      BY DEF SleevePurchases, OfSleeves
    <2> QED
      BY <1>1, <1>3, <1>5, <1>12, <2>1 DEF Fields, Locals
  <1>16. /\ cyc'.cands = cyc.cands /\ cyc'.approved = cyc.approved /\ cyc'.queue = cyc.queue
         /\ cyc'.skip = cyc.skip /\ cyc'.holdings = cyc.holdings /\ cyc'.stocks = cyc.stocks
    BY <1>3 DEF Locals
  <1>17. Blanks' /\ SplitKept' /\ Executing'
    BY <1>1, <1>2, <1>3, <1>16 DEF Blanks, SplitKept, Executing, Stocks
  <1>18. SkipKept'
    <2>1. cyc.skip => NoStock(s)
      <3> SUFFICES ASSUME cyc.skip, NEW i \in 1..Len(s), StockBuy(s[i]) PROVE FALSE
        BY DEF NoStock
      <3>1. s[i].t \in Buyable(cyc.targets, Held(h), funds)
        BY <1>8 DEF Planned
      <3>2. cyc.targets = <<>>
        BY <1>1 DEF Blanks
      <3> QED
        BY <3>1, <3>2 DEF Buyable, ToSet
    <2>2. cyc.approved = <<>> /\ cyc.queue = <<>>
      BY <1>1 DEF Blanks
    <2> QED
      BY <1>3, <1>16, <2>1, <2>2 DEF SkipKept, NoStock
  <1>19. Gated'
    BY <1>2, <1>3, <1>10, <1>13 DEF Gated
  <1>20. Selling'
    BY <1>3, <1>8, <1>16 DEF Selling, Planned, SellsWithin
  <1>21. Paying'
    <2>1. cyc'.approved = <<>> /\ sent = 0 /\ spent \in Nat
      BY <1>1, <1>16 DEF Blanks, CycleInv, Paying, Kinds
    <2>2. Ready(<<>>, 0, spent)
      BY NoneReady
    <2> QED
      BY <1>1, <1>2, <2>1, <2>2 DEF Paying
  <1> QED
    BY <1>14, <1>15, <1>17, <1>18, <1>19, <1>20, <1>21 DEF CycleInv

\* The next order is judged with no more spent than the sizing took for spent.
LEMMA JudgedOn ==
  ASSUME NEW s, NEW funds, NEW total, NEW sofar \in Nat, ToJudge(s, funds, total, sofar), s # <<>>,
         NEW after, after \in {sofar, SpentAfter(Head(s), sofar)}
  PROVE  after \in Nat /\ ToJudge(Tail(s), funds, total, after)
  <1> DEFINE r == Tail(s)
             o == Head(s)
  <1>1. PICK u : Paced(s, u) /\ \A i \in 1..Len(s) : Fair(s[i], u[i], funds, total) /\ sofar <= u[i]
    BY DEF ToJudge
  <1>2. s \in Seq(Orders) /\ u \in [1..Len(s) -> Nat]
    BY <1>1 DEF Paced
  <1>3. /\ r \in Seq(Orders) /\ Len(r) = Len(s) - 1 /\ \A i \in 1..Len(r) : r[i] = s[i + 1]
        /\ Len(s) \in Nat \ {0} /\ o = s[1] /\ o \in Orders
    BY <1>2, TailShorter
  <1>4. \A i \in 1..Len(r) : i + 1 \in 1..Len(s)
    BY <1>3
  <1> DEFINE n == Len(r)
             v == [i \in 1..n |-> u[i + 1]]
  <1>5. v \in [1..n -> Nat] /\ \A i \in 1..n : v[i] = u[i + 1]
    BY <1>2, <1>4
  <1> HIDE DEF r, v, o
  <1>6. after \in Nat /\ u[1] \in Nat /\ after <= SpentAfter(o, u[1]) /\ SpentAfter(o, u[1]) \in Nat
    <2>1. u[1] \in Nat /\ sofar <= u[1]
      BY <1>1, <1>2, <1>3
    <2>2. /\ SpentAfter(o, u[1]) \in Nat /\ u[1] <= SpentAfter(o, u[1])
          /\ SpentAfter(o, sofar) \in Nat
      BY <1>3, <2>1, SpentNat
    <2>3. SpentAfter(o, sofar) <= SpentAfter(o, u[1])
      <3>1. Cost(o) \in Nat
        BY <1>3, CostNat
      <3> QED
        BY <2>1, <3>1 DEF SpentAfter
    <2> QED
      BY <2>1, <2>2, <2>3 DEF o
  <1>7. ASSUME NEW i \in 1..n PROVE Fair(r[i], v[i], funds, total) /\ after <= v[i]
    <2>1. r[i] = s[i + 1] /\ v[i] = u[i + 1] /\ i + 1 \in 1..Len(s) /\ 1 \in 1..Len(s) /\ 1 < i + 1
      BY <1>3, <1>4, <1>5
    <2>2. SpentAfter(s[1], u[1]) <= u[i + 1] /\ u[i + 1] \in Nat
      BY <1>1, <1>2, <2>1 DEF Paced
    <2>3. after <= v[i]
      BY <1>3, <1>6, <2>1, <2>2
    <2> QED
      BY <1>1, <2>1, <2>3
  <1>8. ASSUME NEW i \in 1..n, NEW j \in 1..n, i < j PROVE SpentAfter(r[i], v[i]) <= v[j]
    <2>1. /\ r[i] = s[i + 1] /\ v[i] = u[i + 1] /\ v[j] = u[j + 1]
          /\ i + 1 \in 1..Len(s) /\ j + 1 \in 1..Len(s) /\ i + 1 < j + 1
      BY <1>3, <1>4, <1>5, <1>8
    <2> QED
      BY <1>1, <2>1 DEF Paced
  <1>9. Paced(r, v)
    BY <1>3, <1>5, <1>8 DEF Paced
  <1> QED
    BY <1>6, <1>7, <1>9 DEF ToJudge, r

\* The gate takes an order off the drafts, and approves it or not.
LEMMA CheckKeeps == CycleInv /\ Check => CycleInv'
  <1> SUFFICES ASSUME CycleInv, Check PROVE CycleInv'
    OBVIOUS
  <1> DEFINE s == cyc.drafts
             r == Tail(s)
             o == Head(s)
             ok == Approves(o, cyc.bp, spent)
             a == IF ok THEN Append(cyc.approved, o) ELSE cyc.approved
  <1>1. /\ Kinds /\ Fields(cyc) /\ Blanks /\ SplitKept /\ SkipKept /\ Gated /\ Selling
        /\ stage = "risk" /\ s # <<>>
    BY DEF CycleInv, Check
  <1>2. /\ UNCHANGED <<hour, shares, cash, blocked, refusals, history, stage, tried, sent, cycles>>
        /\ spent' = IF ok THEN SpentAfter(o, spent) ELSE spent
    BY DEF Check, market
  <1>3. /\ DOMAIN cyc' = Locals /\ cyc'.drafts = r /\ cyc'.approved = a
        /\ \A f \in Locals \ {"drafts", "approved"} : cyc'[f] = cyc[f]
    BY <1>1 DEF Check, Fields, Locals
  <1>4. s \in Seq(Sound) /\ cyc.approved \in Seq(Sound) /\ spent \in Nat
    BY <1>1 DEF Fields, Kinds
  <1>5. /\ r \in Seq(Sound) /\ o \in Sound /\ o = s[1] /\ 1 \in 1..Len(s)
        /\ \A i \in 1..Len(r) : i + 1 \in 1..Len(s) /\ r[i] = s[i + 1]
    <2> HIDE DEF s
    <2>1. r \in Seq(Sound) /\ Len(r) = Len(s) - 1 /\ \A i \in 1..Len(r) : r[i] = s[i + 1]
      BY <1>1, <1>4, TailShorter
    <2>2. Len(s) \in Nat \ {0} /\ o = s[1]
      BY <1>1, <1>4
    <2>3. \A i \in 1..Len(r) : i + 1 \in 1..Len(s)
      BY <2>1, <2>2
    <2> QED
      BY <1>4, <2>1, <2>2, <2>3
  <1>6. ToJudge(s, cyc.bp.cash, cyc.bp.total, spent)
    BY <1>1 DEF Gated
  <1> HIDE DEF s, r, o, ok
  <1>7. spent' \in Nat /\ ToJudge(r, cyc.bp.cash, cyc.bp.total, spent')
    BY <1>1, <1>2, <1>4, <1>6, JudgedOn DEF r, o
  <1>8. a \in Seq(Sound)
    BY <1>4, <1>5
  <1>9. /\ cyc'.bp = cyc.bp /\ cyc'.cands = cyc.cands /\ cyc'.targets = cyc.targets
        /\ cyc'.queue = cyc.queue /\ cyc'.skip = cyc.skip /\ cyc'.holdings = cyc.holdings
        /\ cyc'.stocks = cyc.stocks
    BY <1>3 DEF Locals
  <1>10. Kinds'
    BY <1>1, <1>2, <1>7 DEF Kinds
  <1> HIDE DEF a
  <1>11. Fields(cyc')
    BY <1>1, <1>3, <1>5, <1>8 DEF Fields, Locals
  <1>12. Blanks' /\ SplitKept' /\ Executing'
    BY <1>1, <1>2, <1>3, <1>9 DEF Blanks, SplitKept, Executing, Stocks
  <1>13. SkipKept'
    <2> SUFFICES ASSUME cyc.skip PROVE NoStock(r) /\ NoStock(a) /\ NoStock(cyc.queue)
      BY <1>3, <1>9 DEF SkipKept
    <2>1. NoStock(s) /\ NoStock(cyc.approved) /\ NoStock(cyc.queue)
      BY <1>1 DEF SkipKept, s
    <2>2. NoStock(r) /\ ~StockBuy(o)
      BY <1>5, <2>1 DEF NoStock
    <2>3. NoStock(a)
      <3> DEFINE b == cyc.approved
      <3>1. /\ Len(Append(b, o)) = Len(b) + 1 /\ Len(b) \in Nat
            /\ Append(b, o)[Len(b) + 1] = o /\ \A i \in 1..Len(b) : Append(b, o)[i] = b[i]
        BY <1>4
      <3>2. \A i \in 1..(Len(b) + 1) : i \in 1..Len(b) \/ i = Len(b) + 1
        BY <3>1
      <3> HIDE DEF b
      <3>3. NoStock(b)
        BY <2>1 DEF b
      <3>4. NoStock(Append(b, o))
        BY <2>2, <3>1, <3>2, <3>3 DEF NoStock
      <3> QED
        BY <3>3, <3>4 DEF a, b
    <2> QED
      BY <2>1, <2>2, <2>3
  <1>14. Gated'
    BY <1>3, <1>7, <1>9 DEF Gated
  <1>15. Selling'
    <2> SUFFICES ASSUME Held(cyc.stocks) # {} PROVE SellsWithin(r, cyc.holdings)
      BY <1>3, <1>9 DEF Selling
    <2>1. SellsWithin(s, cyc.holdings)
      BY <1>1 DEF Selling, s
    <2>2. \A i \in 1..Len(r) : r[i].side = "sell" => r[i].qty <= cyc.holdings[r[i].t]
      BY <1>5, <2>1 DEF SellsWithin
    <2>3. ASSUME NEW i \in 1..Len(r), NEW j \in 1..Len(r), i < j, r[i].side = "sell", r[j].side = "sell"
          PROVE  r[i].t # r[j].t
      <3>1. /\ r[i] = s[i + 1] /\ r[j] = s[j + 1] /\ i + 1 < j + 1
            /\ i + 1 \in 1..Len(s) /\ j + 1 \in 1..Len(s)
        BY <1>5, <2>3
      <3> QED
        BY <2>1, <2>3, <3>1 DEF SellsWithin, Apart
    <2> QED
      BY <2>2, <2>3 DEF SellsWithin, Apart
  <1>16. Paying'
    <2>1. sent = 0 /\ Ready(cyc.approved, 0, spent)
      BY <1>1 DEF CycleInv, Paying
    <2>2. o \in Orders
      BY <1>5 DEF Sound
    <2>3. Ready(a, 0, spent')
      <3>1. CASE ok
        <4> DEFINE b == cyc.approved
        <4> HIDE DEF b
        <4>1. Ready(b, 0, spent)
          BY <2>1 DEF b
        <4>2. Ready(Append(b, o), 0, SpentAfter(o, spent))
          BY <1>4, <2>2, <4>1, OneMoreReady
        <4> QED
          BY <1>2, <3>1, <4>2 DEF a, b
      <3>2. CASE ~ok
        BY <1>2, <2>1, <3>2 DEF a
      <3> QED
        BY <3>1, <3>2
    <2> QED
      BY <1>1, <1>2, <1>3, <1>7, <2>1, <2>3 DEF Paying
  <1> QED
    BY <1>10, <1>11, <1>12, <1>13, <1>14, <1>15, <1>16 DEF CycleInv

\* Behind a list of sales and purchases, more purchases.
LEMMA SalesLead ==
  ASSUME NEW a \in Seq(Sound), NEW b \in Seq(Sound), SalesFirst(a),
         \A o \in ToSet(b) : o.side # "sell"
  PROVE  SalesFirst(a \o b)
  <1> DEFINE q == a \o b
  <1>1. /\ \A i \in 1..Len(a) : q[i] = a[i]
        /\ \A i \in 1..Len(b) : q[Len(a) + i] = b[i]
        /\ \A i \in 1..Len(q) : i \in 1..Len(a) \/ (i > Len(a) /\ i - Len(a) \in 1..Len(b))
        /\ Len(a) \in Nat /\ Len(b) \in Nat /\ Len(q) \in Nat
    BY Concatenated
  <1> HIDE DEF q
  <1>2. ASSUME NEW i \in 1..Len(q), NEW j \in 1..Len(q), i < j, q[j].side = "sell"
        PROVE  q[i].side = "sell"
    <2>1. j \in 1..Len(a)
      <3>1. ASSUME j > Len(a), j - Len(a) \in 1..Len(b) PROVE FALSE
        <4>1. q[Len(a) + (j - Len(a))] = b[j - Len(a)] /\ Len(a) + (j - Len(a)) = j
          BY <1>1, <3>1
        <4>2. b[j - Len(a)] \in ToSet(b)
          BY <3>1, MembersOf
        <4> QED
          BY <1>2, <4>1, <4>2
      <3> QED
        BY <1>1, <3>1
    <2>2. i \in 1..Len(a)
      BY <1>1, <1>2, <2>1
    <2> QED
      BY <1>1, <1>2, <2>1, <2>2 DEF SalesFirst
  <1> QED
    BY <1>2 DEF SalesFirst, q

\* The list of execution: sales first, and of the final orders each one.
LEMMA QueueIs ==
  ASSUME NEW a \in Seq(Sound), NEW cap \in Nat, NEW free
  PROVE  LET q == ExecList(a, cap, free)
         IN /\ q \in Seq(Sound) /\ SalesFirst(q) /\ ToSet(q) \subseteq ToSet(a)
            /\ \A o \in ToSet(a) : o.side = "sell" \/ o.t \in free => o \in ToSet(q)
  <1> DEFINE sells == {o \in ToSet(a) : o.side = "sell"}
             final == {o \in ToSet(a) \ sells : o.t \in free}
             rest  == ToSet(a) \ (sells \cup final)
             s1 == Among(a, sells)
             s2 == Among(a, final)
             s3 == Among(a, rest)
             s4 == SubSeq(s3, 1, Min({cap, Len(s3)}))
  <1>1. ExecList(a, cap, free) = (s1 \o s2) \o s4
    BY DEF ExecList
  <1>2. sells \cup final \cup rest = ToSet(a) /\ sells \subseteq ToSet(a) /\ final \subseteq ToSet(a)
        /\ rest \subseteq ToSet(a) /\ (\A o \in sells : o.side = "sell")
        /\ (\A o \in final \cup rest : o.side # "sell")
        /\ \A o \in ToSet(a) : o.side = "sell" \/ o.t \in free => o \in sells \cup final
    OBVIOUS
  <1> HIDE DEF sells, final, rest
  <1>3. /\ s1 \in Seq(Sound) /\ ToSet(s1) = ToSet(a) \cap sells
        /\ s2 \in Seq(Sound) /\ ToSet(s2) = ToSet(a) \cap final
        /\ s3 \in Seq(Sound) /\ ToSet(s3) = ToSet(a) \cap rest
    BY AmongFacts
  <1> HIDE DEF s1, s2, s3
  <1>4. s4 \in Seq(Sound) /\ ToSet(s4) \subseteq ToSet(s3)
    BY <1>3, SelectedPart
  <1> HIDE DEF s4
  <1>5. SalesFirst(s1)
    <2>1. \A i \in 1..Len(s1) : s1[i] \in sells
      BY <1>3, MembersOf
    <2> QED
      BY <1>2, <2>1 DEF SalesFirst
  <1>6. \A o \in ToSet(s2) : o.side # "sell"
    BY <1>2, <1>3
  <1>7. \A o \in ToSet(s4) : o.side # "sell"
    BY <1>2, <1>3, <1>4
  <1> DEFINE s5 == s1 \o s2
  <1>8. s5 \in Seq(Sound) /\ ToSet(s5) = ToSet(s1) \cup ToSet(s2) /\ SalesFirst(s5)
    BY <1>3, <1>5, <1>6, SalesLead, JoinedSet
  <1> HIDE DEF s5
  <1> DEFINE q == s5 \o s4
  <1>9. q \in Seq(Sound) /\ ToSet(q) = ToSet(s5) \cup ToSet(s4) /\ SalesFirst(q)
    BY <1>4, <1>7, <1>8, SalesLead, JoinedSet
  <1>10. ExecList(a, cap, free) = q
    BY <1>1 DEF s5
  <1> HIDE DEF q
  <1>11. ToSet(q) \subseteq ToSet(a)
         /\ \A o \in ToSet(a) : o.side = "sell" \/ o.t \in free => o \in ToSet(q)
    BY <1>2, <1>3, <1>4, <1>8, <1>9
  <1> QED
    BY <1>9, <1>10, <1>11

LEMMA LimitNat == ASSUME cyc.opened \in BOOLEAN PROVE Limit \in Nat
  <1>1. MaxTrades \in Nat
    BY GateAssumption
  <1>2. ASSUME NEW x \in Nat, NEW y \in Nat PROVE Max({x, y}) \in {x, y}
    BY <1>2 DEF Max
  <1>3. Max({MaxTrades, 3 * MaxTrades}) \in Nat
    BY <1>1, <1>2
  <1>4. Min({8, Max({MaxTrades, 3 * MaxTrades})}) \in Nat
    <2> DEFINE y == Max({MaxTrades, 3 * MaxTrades})
    <2>1. y \in Int /\ 8 \in Int /\ y \in Nat
      BY <1>3
    <2> HIDE DEF y
    <2>2. Min({8, y}) \in {8, y}
      BY <2>1, SmallerOf
    <2> QED
      BY <2>1, <2>2 DEF y
  <1> QED
    BY <1>1, <1>4 DEF Limit

\* The review takes purchases back and lists what is left for execution.
LEMMA ReviewKeeps ==
  ASSUME CycleInv, NEW vetoed, Review(vetoed) PROVE CycleInv'
  <1> DEFINE kept == {o \in ToSet(cyc.approved) : o.side = "sell" \/ o.t \notin vetoed}
             left == Among(cyc.approved, kept)
             free == IF Enabled = {} THEN {} ELSE AllCodes
             q == ExecList(left, Limit, free)
  <1>1. /\ Kinds /\ Fields(cyc) /\ Blanks /\ SkipKept /\ stage = "risk" /\ cyc.drafts = <<>>
        /\ stage' = "execute"
    BY DEF CycleInv, Review, Moves
  <1>2. UNCHANGED <<hour, shares, cash, blocked, refusals, history, spent, tried, sent, cycles>>
    BY DEF Review, Keeps, market
  <1>3. /\ DOMAIN cyc' = Locals /\ cyc'.queue = q /\ cyc'.approved = left
        /\ \A f \in Locals \ {"queue", "approved"} : cyc'[f] = cyc[f]
    BY <1>1 DEF Review, Fields, Locals
  <1>4. cyc.approved \in Seq(Sound) /\ cyc.opened \in BOOLEAN
    BY <1>1 DEF Fields
  <1>5. left \in Seq(Sound) /\ ToSet(left) = ToSet(cyc.approved) \cap kept
    <2> HIDE DEF kept
    <2> QED
      BY <1>4, AmongFacts
  <1>6. \A o \in Sound : o.by = "sleeve" => o.side = "sell" \/ o.t \in free
    BY SleeveAssumption DEF Sound, EnabledCodes, AllCodes, Codes
  <1>15. Ready(left, 0, spent) /\ sent = 0 /\ spent \in Nat /\ free \subseteq AllCodes
    <2>1. Ready(cyc.approved, 0, spent) /\ sent = 0 /\ spent \in Nat
      BY <1>1 DEF CycleInv, Paying, Kinds
    <2>2. free \subseteq AllCodes
      OBVIOUS
    <2>3. left \in Seq(Orders) /\ Sublist(left, cyc.approved)
      <3>1. cyc.approved \in Seq(Orders)
        BY <1>4 DEF Sound
      <3> HIDE DEF kept
      <3> QED
        BY <3>1, AmongFacts
    <2> HIDE DEF left
    <2> QED
      BY <2>1, <2>2, <2>3, PartReady
  <1> HIDE DEF left, free, kept
  <1>16. Ready(q, 0, spent)
    BY <1>4, <1>5, <1>15, LimitNat, QueueReady
  <1>7. /\ q \in Seq(Sound) /\ SalesFirst(q) /\ ToSet(q) \subseteq ToSet(left)
        /\ \A o \in ToSet(left) : o.side = "sell" \/ o.t \in free => o \in ToSet(q)
    BY <1>4, <1>5, LimitNat, QueueIs
  <1> HIDE DEF q
  <1>8. tried = <<>> /\ tried' = <<>>
    BY <1>1, <1>2 DEF Blanks
  <1>9. Kinds'
    BY <1>1, <1>2 DEF Kinds, Stages
  <1>10. Fields(cyc')
    BY <1>1, <1>3, <1>5, <1>7 DEF Fields, Locals
  <1>11. /\ cyc'.cands = cyc.cands /\ cyc'.targets = cyc.targets /\ cyc'.drafts = cyc.drafts
         /\ cyc'.skip = cyc.skip
    BY <1>3 DEF Locals
  <1>12. Blanks' /\ SplitKept' /\ Gated' /\ Selling'
    BY <1>1, <1>8, <1>11 DEF Blanks, SplitKept, Gated, Selling
  <1>13. SkipKept'
    <2> SUFFICES ASSUME cyc.skip PROVE NoStock(<<>>) /\ NoStock(left) /\ NoStock(q)
      BY <1>1, <1>3, <1>11 DEF SkipKept
    <2>1. \A o \in ToSet(cyc.approved) : ~StockBuy(o)
      <3>1. NoStock(cyc.approved)
        BY <1>1 DEF SkipKept
      <3> QED
        BY <1>4, <3>1, MembersOf DEF NoStock
    <2>2. \A o \in ToSet(left) \cup ToSet(q) : ~StockBuy(o)
      BY <1>5, <1>7, <2>1
    <2>3. \A i \in 1..Len(left) : left[i] \in ToSet(left)
      BY <1>5, MembersOf
    <2>4. \A i \in 1..Len(q) : q[i] \in ToSet(q)
      BY <1>7, MembersOf
    <2> QED
      BY <2>2, <2>3, <2>4 DEF NoStock
  <1>14. Executing'
    <2>1. ASSUME NEW o \in ToSet(left), o.side = "sell" \/ o.by = "sleeve" PROVE o \in ToSet(q)
      <3>1. o \in Sound
        BY <1>5, MembersOf
      <3> QED
        BY <1>6, <1>7, <2>1, <3>1
    <2>2. SalesFirst(<<>>) /\ Len(<<>>) = 0
      BY DEF SalesFirst
    <2> QED
      BY <1>3, <1>7, <1>8, <2>1, <2>2 DEF Executing
  <1>17. Paying'
    BY <1>1, <1>2, <1>3, <1>15, <1>16 DEF Paying
  <1> QED
    BY <1>9, <1>10, <1>12, <1>13, <1>14, <1>17 DEF CycleInv

\* What is sent is a number of shares, of those approved.
LEMMA SentNat ==
  ASSUME NEW o \in Sound, cyc.holdings \in Shares,
         NEW sellable \in {Unknown} \cup (0..cyc.holdings[o.t])
  PROVE  SendQty(o, sellable) \in Nat /\ SendQty(o, sellable) <= o.qty
  <1>1. o.qty \in Nat /\ MaxOrderQty \in Nat /\ o.t \in Tickers /\ cyc.holdings[o.t] \in Nat
    BY GateAssumption DEF Sound, Orders, Shares
  <1> DEFINE q == IF MaxOrderQty > 0 THEN Min({o.qty, MaxOrderQty}) ELSE o.qty
  <1>2. q \in Nat /\ q <= o.qty
    <2>1. o.qty \in Int /\ MaxOrderQty \in Int
      BY <1>1
    <2>2. Min({o.qty, MaxOrderQty}) \in {o.qty, MaxOrderQty} /\ Min({o.qty, MaxOrderQty}) <= o.qty
      BY <2>1, SmallerOf
    <2> QED
      BY <1>1, <2>2
  <1>3. sellable # Unknown => sellable \in Nat
    BY <1>1
  <1>4. sellable # Unknown => Min({q, sellable}) \in Nat /\ Min({q, sellable}) <= q
    <2> HIDE DEF q
    <2> SUFFICES ASSUME sellable # Unknown PROVE Min({q, sellable}) \in Nat /\ Min({q, sellable}) <= q
      OBVIOUS
    <2>1. q \in Int /\ sellable \in Int
      BY <1>2, <1>3
    <2>2. Min({q, sellable}) \in {q, sellable} /\ Min({q, sellable}) <= q
      BY <2>1, SmallerOf
    <2> QED
      BY <1>2, <1>3, <2>2
  <1>5. SendQty(o, sellable) \in {q, Min({q, sellable})}
        /\ (SendQty(o, sellable) # q => sellable # Unknown)
    BY DEF SendQty
  <1> HIDE DEF q
  <1> QED
    BY <1>1, <1>2, <1>4, <1>5

\* What an attempt does to the account and to what is learned.
LEMMA AttemptAccount ==
  ASSUME CycleInv, Attempt
  PROVE  /\ shares' \in Shares /\ cash' \in Nat /\ blocked' \subseteq KR
         /\ refusals' \in [Tickers -> Nat] /\ Dealt(Head(cyc.queue))
         /\ sent' \in Nat /\ sent' <= SpentAfter(Head(cyc.queue), sent)
  <1> DEFINE o == Head(cyc.queue)
  <1>1. /\ shares \in Shares /\ cash \in Nat /\ blocked \subseteq KR /\ refusals \in [Tickers -> Nat]
        /\ cyc.holdings \in Shares /\ cyc.queue \in Seq(Sound) /\ cyc.queue # <<>>
    BY DEF CycleInv, Kinds, Fields, Attempt
  <1>2. o \in Sound
    <2> DEFINE s == cyc.queue
    <2>1. s \in Seq(Sound) /\ s # <<>>
      BY <1>1
    <2> HIDE DEF s
    <2>2. Head(s) \in Sound
      BY <2>1
    <2> QED
      BY <2>2 DEF s
  <1>3. PICK sellable \in {Unknown} \cup (0..cyc.holdings[o.t]) : \E quoted \in BOOLEAN :
          \/ HoldBack(o, sellable, quoted) \/ NxtRefuses(o, sellable, quoted)
          \/ Sent(o, sellable, quoted) \/ Fills(o, sellable, quoted)
    BY DEF Attempt
  <1>4. PICK quoted \in BOOLEAN :
          \/ HoldBack(o, sellable, quoted) \/ NxtRefuses(o, sellable, quoted)
          \/ Sent(o, sellable, quoted) \/ Fills(o, sellable, quoted)
    BY <1>3
  <1> HIDE DEF o
  <1> DEFINE q == SendQty(o, sellable)
  <1>5. q \in Nat /\ o.t \in Tickers /\ Price[o.t] \in Nat
    <2>1. o.t \in Tickers /\ Price[o.t] \in Nat
      BY <1>2, SleeveAssumption DEF Sound, Orders
    <2> QED
      BY <1>1, <1>2, <2>1, SentNat
  <1>9. sent' \in Nat /\ sent' <= SpentAfter(o, sent)
    <2>1. sent \in Nat /\ o \in Orders /\ q <= o.qty
      BY <1>1, <1>2, SentNat DEF CycleInv, Kinds, Sound
    <2>2. /\ SpentAfter(o, sent) \in Nat /\ sent <= SpentAfter(o, sent)
      BY <2>1, SpentNat
    <2>3. CASE sent' = sent
      BY <2>1, <2>2, <2>3
    <2>4. CASE sent' = SpentAfter([o EXCEPT !.qty = q], sent)
      <3> DEFINE w == [o EXCEPT !.qty = q]
      <3>1. w.t = o.t /\ w.side = o.side /\ w.qty = q
        BY <2>1 DEF Orders
      <3> HIDE DEF w, q
      <3>2. Cost(w) = q * Price[o.t] /\ Cost(o) = o.qty * Price[o.t] /\ o.qty \in Nat
        BY <2>1, <3>1 DEF Cost, Orders
      <3>3. Cost(w) \in Nat /\ Cost(o) \in Nat /\ Cost(w) <= Cost(o)
        BY <1>5, <2>1, <3>2
      <3> QED
        BY <2>1, <2>4, <3>1, <3>3 DEF SpentAfter, w
    <2>5. sent' = sent \/ sent' = SpentAfter([o EXCEPT !.qty = q], sent)
      BY <1>4 DEF HoldBack, NxtRefuses, Sent, Fills, Sends
    <2> QED
      BY <2>3, <2>4, <2>5
  <1>6. CASE HoldBack(o, sellable, quoted) \/ Sent(o, sellable, quoted)
    BY <1>1, <1>6, <1>9 DEF HoldBack, Sent, o
  <1>7. CASE NxtRefuses(o, sellable, quoted)
    <2>1. o.t \in KR /\ blocked' = blocked \cup {o.t} /\ refusals' = [refusals EXCEPT ![o.t] = @ + 1]
          /\ UNCHANGED <<shares, cash>> /\ Dealt(o)
      BY <1>7 DEF NxtRefuses, ToNxt
    <2> QED
      BY <1>1, <1>5, <1>9, <2>1 DEF o
  <1>8. CASE Fills(o, sellable, quoted)
    <2> DEFINE cost == q * Price[o.t]
    <2>1. cost \in Nat
      BY <1>5
    <2>2. /\ IF o.side = "buy" THEN cash >= cost ELSE shares[o.t] >= q
          /\ shares' = [shares EXCEPT ![o.t] = IF o.side = "buy" THEN @ + q ELSE @ - q]
          /\ cash' = IF o.side = "buy" THEN cash - cost ELSE cash + cost
          /\ Dealt(o) /\ UNCHANGED <<blocked, refusals>>
      BY <1>8 DEF Fills
    <2> HIDE DEF q, cost
    <2>3. cash' \in Nat
      BY <1>1, <2>1, <2>2
    <2>4. shares' \in Shares
      <3>1. shares[o.t] \in Nat
        BY <1>1, <1>5 DEF Shares
      <3>2. (IF o.side = "buy" THEN shares[o.t] + q ELSE shares[o.t] - q) \in Nat
        BY <1>5, <2>2, <3>1
      <3> QED
        BY <1>1, <2>2, <3>2 DEF Shares
    <2> QED
      BY <1>1, <1>9, <2>2, <2>3, <2>4 DEF o
  <1> QED
    BY <1>4, <1>6, <1>7, <1>8

\* The first order of the list is dealt with.
LEMMA DealtInOrder ==
  ASSUME NEW s \in Seq(Sound), s # <<>>, NEW d \in Seq(Orders), SalesFirst(s), SalesFirst(d),
         (\E j \in 1..Len(s) : s[j].side = "sell") => \A i \in 1..Len(d) : d[i].side = "sell"
  PROVE  LET r == Tail(s)  e == Append(d, Head(s))
         IN /\ SalesFirst(r) /\ SalesFirst(e)
            /\ (\E j \in 1..Len(r) : r[j].side = "sell") => \A i \in 1..Len(e) : e[i].side = "sell"
  <1> DEFINE r == Tail(s)
             o == Head(s)
             e == Append(d, o)
  <1>1. /\ o \in Sound /\ o = s[1] /\ 1 \in 1..Len(s)
        /\ \A i \in 1..Len(r) : i + 1 \in 1..Len(s) /\ r[i] = s[i + 1]
    BY Shortened
  <1>2. o \in Orders
    BY <1>1 DEF Sound
  <1> HIDE DEF r, o
  <1>3. /\ Len(d) \in Nat /\ Len(e) = Len(d) + 1 /\ e[Len(d) + 1] = o
        /\ \A i \in 1..Len(d) : e[i] = d[i]
        /\ \A i \in 1..Len(e) : i \in 1..Len(d) \/ i = Len(d) + 1
    BY <1>2, Appended
  <1> HIDE DEF e
  <1>4. SalesFirst(r)
    <2>1. ASSUME NEW i \in 1..Len(r), NEW j \in 1..Len(r), i < j, r[j].side = "sell"
          PROVE  r[i].side = "sell"
      <3>1. i + 1 \in 1..Len(s) /\ j + 1 \in 1..Len(s) /\ i + 1 < j + 1
            /\ r[i] = s[i + 1] /\ r[j] = s[j + 1]
        BY <1>1, <2>1
      <3> QED
        BY <2>1, <3>1 DEF SalesFirst
    <2> QED
      BY <2>1 DEF SalesFirst
  <1>5. ASSUME NEW i \in 1..Len(e), NEW j \in 1..Len(e), i < j, e[j].side = "sell"
        PROVE  e[i].side = "sell"
    <2>1. i \in 1..Len(d) /\ e[i] = d[i]
      BY <1>3, <1>5
    <2>2. CASE j \in 1..Len(d)
      BY <1>3, <1>5, <2>1, <2>2 DEF SalesFirst
    <2>3. CASE j = Len(d) + 1
      BY <1>1, <1>3, <1>5, <2>1, <2>3
    <2> QED
      BY <1>3, <2>2, <2>3
  <1>6. ASSUME NEW j \in 1..Len(r), r[j].side = "sell", NEW i \in 1..Len(e) PROVE e[i].side = "sell"
    <2>1. j + 1 \in 1..Len(s) /\ s[j + 1].side = "sell" /\ 1 < j + 1
      BY <1>1, <1>6
    <2>2. o.side = "sell"
      BY <1>1, <2>1 DEF SalesFirst
    <2>3. \A k \in 1..Len(d) : d[k].side = "sell"
      BY <2>1
    <2> QED
      BY <1>3, <2>2, <2>3
  <1>7. SalesFirst(e)
    BY <1>5 DEF SalesFirst
  <1> QED
    BY <1>4, <1>6, <1>7 DEF r, e, o

\* An order is held back, refused, sent or filled.
LEMMA AttemptKeeps == CycleInv /\ Attempt => CycleInv'
  <1> SUFFICES ASSUME CycleInv, Attempt PROVE CycleInv'
    OBVIOUS
  <1> DEFINE s == cyc.queue
             r == Tail(s)
             o == Head(s)
  <1>1. /\ Kinds /\ Fields(cyc) /\ Blanks /\ SkipKept /\ Executing /\ stage = "execute" /\ s # <<>>
    BY DEF CycleInv, Attempt
  <1>2. /\ shares' \in Shares /\ cash' \in Nat /\ blocked' \subseteq KR
        /\ refusals' \in [Tickers -> Nat]
        /\ tried' = Append(tried, o) /\ UNCHANGED <<hour, history, stage, spent, cycles>>
    BY AttemptAccount DEF Dealt
  <1>3. cyc' = [cyc EXCEPT !.queue = Tail(@)]
    BY AttemptAccount DEF Dealt
  <1>16. sent' \in Nat /\ sent' <= SpentAfter(o, sent) /\ sent \in Nat /\ spent \in Nat
         /\ Ready(s, sent, spent)
    BY <1>1, AttemptAccount DEF CycleInv, Paying, Kinds
  <1>4. /\ DOMAIN cyc' = Locals /\ cyc'.queue = r
        /\ \A f \in Locals \ {"queue"} : cyc'[f] = cyc[f]
    BY <1>1, <1>3 DEF Fields, Locals
  <1>5. s \in Seq(Sound) /\ tried \in Seq(Orders)
    BY <1>1 DEF Fields, Kinds
  <1>6. /\ o \in Sound /\ r \in Seq(Sound) /\ ToSet(s) = {o} \cup ToSet(r)
        /\ \A i \in 1..Len(r) : i + 1 \in 1..Len(s) /\ r[i] = s[i + 1]
    <2> HIDE DEF s
    <2> QED
      BY <1>1, <1>5, Shortened
  <1>7. /\ SalesFirst(tried) /\ SalesFirst(s)
        /\ (\E j \in 1..Len(s) : s[j].side = "sell") => \A i \in 1..Len(tried) : tried[i].side = "sell"
        /\ \A p \in ToSet(cyc.approved) :
             p.side = "sell" \/ p.by = "sleeve" => p \in ToSet(tried) \cup ToSet(s)
    BY <1>1 DEF Executing
  <1> HIDE DEF s
  <1>8. /\ SalesFirst(r) /\ SalesFirst(tried')
        /\ (\E j \in 1..Len(r) : r[j].side = "sell") =>
             \A i \in 1..Len(tried') : tried'[i].side = "sell"
    BY <1>1, <1>2, <1>5, <1>7, DealtInOrder
  <1>9. tried' \in Seq(Orders) /\ ToSet(tried') = ToSet(tried) \cup {o}
    <2>1. o \in Orders
      BY <1>6 DEF Sound
    <2> HIDE DEF o
    <2> QED
      BY <1>2, <1>5, <2>1, Appended
  <1>17. sent' <= spent /\ Ready(r, sent', spent)
    <2> DEFINE after == sent'
    <2> HIDE DEF s, after
    <2>1. after \in Nat /\ after <= SpentAfter(Head(s), sent)
      BY <1>16 DEF after
    <2>2. after <= spent /\ Ready(Tail(s), after, spent)
      BY <1>1, <1>16, <2>1, PaidOn
    <2> QED
      BY <2>2 DEF after
  <1> HIDE DEF r, o
  <1>10. Kinds'
    BY <1>1, <1>2, <1>9, <1>16 DEF Kinds
  <1>11. Fields(cyc')
    BY <1>1, <1>4, <1>6 DEF Fields, Locals
  <1>12. /\ cyc'.cands = cyc.cands /\ cyc'.targets = cyc.targets /\ cyc'.drafts = cyc.drafts
         /\ cyc'.approved = cyc.approved /\ cyc'.skip = cyc.skip
    BY <1>4 DEF Locals
  <1>13. Blanks' /\ SplitKept' /\ Gated' /\ Selling'
    BY <1>1, <1>2, <1>12 DEF Blanks, SplitKept, Gated, Selling
  <1>14. SkipKept'
    BY <1>1, <1>4, <1>6, <1>12 DEF SkipKept, NoStock, s
  <1>15. Executing'
    <2>1. \A p \in ToSet(cyc.approved) :
            p.side = "sell" \/ p.by = "sleeve" => p \in ToSet(tried') \cup ToSet(r)
      BY <1>6, <1>7, <1>9
    <2> QED
      BY <1>4, <1>8, <1>12, <2>1 DEF Executing
  <1>18. Paying'
    BY <1>1, <1>2, <1>4, <1>17 DEF Paying
  <1> QED
    BY <1>10, <1>11, <1>13, <1>14, <1>15, <1>18 DEF CycleInv

\* One case for each action.
LEMMA CycleStep == CycleInv /\ BudgetInv /\ [Next]_vars => CycleInv'
  <1> SUFFICES ASSUME CycleInv, BudgetInv, [Next]_vars PROVE CycleInv'
    OBVIOUS
  <1>1. CASE Clock
    BY <1>1, ClockKeeps
  <1>2. CASE \E opened, news \in BOOLEAN : CycleBegins(opened, news)
    <2>1. PICK opened \in BOOLEAN : \E news \in BOOLEAN : CycleBegins(opened, news)
      BY <1>2
    <2>2. PICK news \in BOOLEAN : CycleBegins(opened, news)
      BY <2>1
    <2> QED
      BY <2>2, BeginsKeeps
  <1>3. CASE Collect
    BY <1>3, CollectKeeps
  <1>4. CASE \E sums \in Sums, full \in BOOLEAN : NewsMacro(sums, full)
    <2>1. PICK sums \in Sums : \E full \in BOOLEAN : NewsMacro(sums, full)
      BY <1>4
    <2>2. PICK full \in BOOLEAN : NewsMacro(sums, full)
      BY <2>1
    <2> QED
      BY <2>2, MacroKeeps
  <1>5. CASE \E picks, news \in Ideas, known \in BOOLEAN :
               \E screened \in SUBSET (ToSet(picks) \cup ToSet(news)) :
                 Select(picks, news, screened, known)
    <2>1. PICK picks \in Ideas : \E news \in Ideas : \E known, screened :
                 Select(picks, news, screened, known)
      BY <1>5
    <2>2. PICK news \in Ideas : \E known, screened : Select(picks, news, screened, known)
      BY <2>1
    <2>3. PICK known, screened : Select(picks, news, screened, known)
      BY <2>2
    <2> QED
      BY <2>3, SelectKeeps
  <1>6. CASE \E noData \in SUBSET ToSet(cyc.cands) : Quant(noData)
    <2>1. PICK noData : Quant(noData)
      BY <1>6
    <2> QED
      BY <2>1, QuantKeeps
  <1>7. CASE \E answer \in [Enabled -> Answers], h \in Spread, failed \in SUBSET Enabled :
               SleeveStage(answer, h, failed)
    <2>1. PICK answer \in [Enabled -> Answers] : \E h \in Spread : \E failed :
                 SleeveStage(answer, h, failed)
      BY <1>7
    <2>2. PICK h \in Spread : \E failed : SleeveStage(answer, h, failed)
      BY <2>1
    <2>3. PICK failed : SleeveStage(answer, h, failed)
      BY <2>2
    <2> QED
      BY <2>3, SleevesKeep
  <1>8. CASE \E final \in Orderings(ToSet(cyc.cands)),
               said \in PartialMaps(Held(cyc.holdings), {"hold", "half", "all"}) :
               FinalizeSell(final, said)
    <2>1. PICK final \in Orderings(ToSet(cyc.cands)) : \E said : FinalizeSell(final, said)
      BY <1>8
    <2>2. PICK said : FinalizeSell(final, said)
      BY <2>1
    <2> QED
      BY <2>2, FinalizeKeeps
  <1>9. CASE Build
    <2>1. PICK snap \in Seen : \E sunk \in BOOLEAN, quoted \in SUBSET Targeted :
            \E moods \in [Held(ForSale(snap)) \ DOMAIN cyc.directives -> Moods],
               tilt \in [Targeted -> Tilts],
               psbl \in [Targeted \cup Held(ForSale(snap)) -> PsblLimits] :
              BuildOrders(snap, sunk, moods, quoted, tilt, psbl)
      BY <1>9 DEF Build
    <2>2. PICK sunk, quoted : \E moods : \E tilt \in [Targeted -> Tilts],
               psbl \in [Targeted \cup Held(ForSale(snap)) -> PsblLimits] :
              BuildOrders(snap, sunk, moods, quoted, tilt, psbl)
      BY <2>1
    <2>3. PICK moods : \E tilt \in [Targeted -> Tilts] :
               \E psbl \in [Targeted \cup Held(ForSale(snap)) -> PsblLimits] :
              BuildOrders(snap, sunk, moods, quoted, tilt, psbl)
      BY <2>2
    <2>4. PICK tilt \in [Targeted -> Tilts] :
               \E psbl \in [Targeted \cup Held(ForSale(snap)) -> PsblLimits] :
              BuildOrders(snap, sunk, moods, quoted, tilt, psbl)
      BY <2>3
    <2>5. PICK psbl \in [Targeted \cup Held(ForSale(snap)) -> PsblLimits] :
              BuildOrders(snap, sunk, moods, quoted, tilt, psbl)
      BY <2>4
    <2> QED
      BY <2>5, BuildKeeps
  <1>10. CASE Check
    BY <1>10, CheckKeeps
  <1>11. CASE \E vetoed \in SUBSET {o.t : o \in {p \in ToSet(cyc.approved) : p.side = "buy" /\ p.t \in KR}} :
                Review(vetoed)
    <2>1. PICK vetoed : Review(vetoed)
      BY <1>11
    <2> QED
      BY <2>1, ReviewKeeps
  <1>12. CASE Attempt
    BY <1>12, AttemptKeeps
  <1>13. CASE Report \/ CycleFails
    BY <1>13, EndsKeeps
  <1>14. CASE UNCHANGED vars
    <2>1. UNCHANGED <<hour, shares, cash, blocked, refusals, history, stage, cyc, spent, tried, sent, cycles>>
      BY <1>14 DEF vars
    <2>2. Kinds' /\ Fields(cyc)' /\ Blanks' /\ SplitKept'
      BY <2>1 DEF CycleInv, Kinds, Fields, Blanks, SplitKept, Stocks
    <2>3. SkipKept' /\ Gated' /\ Selling' /\ Paying' /\ Executing'
      BY <2>1 DEF CycleInv, SkipKept, Gated, Selling, Paying, Executing
    <2> QED
      BY <2>2, <2>3 DEF CycleInv
  <1> QED
    BY <1>1, <1>2, <1>3, <1>4, <1>5, <1>6, <1>7, <1>8, <1>9, <1>10, <1>11, <1>12, <1>13, <1>14 DEF Next

\* What is known of the locals of _run_analysis_cycle at every stage, whatever the
\* models answer, the clock does and the reads of the account miss.
THEOREM CycleInvariance == Spec => []CycleInv
  <1> QED
    BY CycleInit, CycleStep, BudgetInit, BudgetStep, PTL DEF Spec

\* Every local of a cycle is of its kind, and no order of a draft or of the
\* execution list counts less than one share: the clamps remove those that would.
THEOREM CycleTypes == Spec => []TypeOK
  <1>1. CycleInv => TypeOK
    <2> SUFFICES ASSUME CycleInv PROVE TypeOK
      OBVIOUS
    <2>1. Kinds /\ Fields(cyc)
      BY DEF CycleInv
    <2>2. cyc.drafts \in Seq(Sound) /\ cyc.approved \in Seq(Sound) /\ cyc.queue \in Seq(Sound)
      BY <2>1 DEF Fields
    <2>3. Sound \subseteq Orders /\ \A o \in Sound : o.qty >= 1
      BY DEF Sound
    <2>4. cyc.drafts \in Seq(Orders) /\ cyc.approved \in Seq(Orders)
      BY <2>2, <2>3
    <2>5. \A o \in ToSet(cyc.drafts) \cup ToSet(cyc.queue) : o.qty >= 1
      BY <2>2, <2>3, MembersOf
    <2> QED
      BY <2>1, <2>4, <2>5 DEF Kinds, TypeOK
  <1> QED
    BY <1>1, CycleInvariance, PTL

\* BudgetIsKept holds of every run: what _cyc_stage_execute sends of stocks is,
\* with every order taken back, brought forward, cut off or clamped on its way, no
\* more than validate_order_draft let through.
THEOREM BudgetHolds == Spec => []BudgetIsKept
  <1>1. CycleInv /\ BudgetInv => BudgetIsKept
    <2> SUFFICES ASSUME CycleInv, BudgetInv, cyc.bp.cash > 0
                 PROVE  sent * 100 <= cyc.bp.cash * CycleRatio
      BY DEF BudgetIsKept
    <2> DEFINE x == cyc.bp.cash * CycleRatio
    <2>1. sent \in Nat /\ spent \in Nat /\ sent <= spent
      BY DEF CycleInv, Kinds, Paying
    <2>2. x \in Nat
      BY GateAssumption DEF CycleInv, Fields
    <2>3. spent = 0 \/ spent * 100 <= x
      BY DEF BudgetInv, GateBudget
    <2> HIDE DEF x
    <2>4. sent * 100 <= x
      BY <2>1, <2>2, <2>3
    <2> QED
      BY <2>4 DEF x
  <1> QED
    BY CycleInvariance, BudgetInit, BudgetStep, <1>1, PTL DEF Spec

\* Less spent leaves no less room.
LEMMA RoomLeft ==
  ASSUME NEW o \in Orders, NEW funds \in Nat, NEW total \in Nat, NEW u \in Nat, NEW sofar \in Nat,
         sofar <= u, AsSized(o, funds, total, u)
  PROVE  AsSized(o, funds, total, sofar)
  <1>1. CycleRatio \in Nat /\ Cost(o) \in Nat
    BY GateAssumption, CostNat
  <1> DEFINE x == Cost(o)
  <1> HIDE DEF x
  <1>2. x \in Nat
    BY <1>1 DEF x
  <1> QED
    BY <1>1, <1>2 DEF AsSized, x

\* A draft of a stock that _build_orders cut to its budget is within the limits of
\* _check_single_order that the sizing has too when its turn comes, whatever was
\* approved before it, and within the buffer where the ratios leave it.
THEOREM SizingAgrees == Spec => []SizingAgreesWithGate
  <1>1. CycleInv => SizingAgreesWithGate
    <2> DEFINE s == cyc.drafts
               o == Head(s)
    <2> SUFFICES ASSUME CycleInv, stage = "risk", s # <<>>, o.by = "sized", ~IsSleeve(o.t)
                 PROVE  AsSized(o, cyc.bp.cash, cyc.bp.total, spent)
      BY DEF SizingAgreesWithGate
    <2>1. s \in Seq(Sound) /\ spent \in Nat /\ cyc.bp.cash \in Nat /\ cyc.bp.total \in Nat
      BY DEF CycleInv, Fields, Kinds
    <2>2. PICK u : Paced(s, u) /\ \A i \in 1..Len(s) : Fair(s[i], u[i], cyc.bp.cash, cyc.bp.total)
                                                       /\ spent <= u[i]
      BY DEF CycleInv, Gated, ToJudge
    <2>3. o \in Sound /\ o = s[1] /\ 1 \in 1..Len(s)
      <3> HIDE DEF s
      <3> QED
        BY <2>1, Shortened
    <2>4. u[1] \in Nat /\ spent <= u[1] /\ Fair(o, u[1], cyc.bp.cash, cyc.bp.total)
      BY <2>2, <2>3 DEF Paced
    <2>5. o \in Orders /\ AsSized(o, cyc.bp.cash, cyc.bp.total, u[1])
      BY <2>4 DEF Fair
    <2> HIDE DEF o, s
    <2> QED
      BY <2>1, <2>4, <2>5, RoomLeft
  <1> QED
    BY <1>1, CycleInvariance, PTL

\* _assemble_sell_orders and _build_sleeve_sell_orders together sell no more of a
\* ticker than the cycle read, as long as a stock is held.
THEOREM OneTrackOnlySells == Spec => []OneTrackSells
  <1>1. CycleInv => OneTrackSells
    <2> DEFINE s == cyc.drafts
               qty == [i \in DOMAIN s |-> s[i].qty]
    <2> SUFFICES ASSUME CycleInv, stage = "risk", Held(cyc.stocks) # {}, NEW t \in Tickers
                 PROVE  SoldOf(t, s) <= cyc.holdings[t]
      BY DEF OneTrackSells
    <2> DEFINE S == {i \in DOMAIN s : s[i].side = "sell" /\ s[i].t = t}
    <2>1. SoldOf(t, s) = SumOf(qty, S)
      BY DEF SoldOf, SumOf
    <2>2. s \in Seq(Sound) /\ cyc.holdings[t] \in Nat
      BY DEF CycleInv, Fields, Shares
    <2>3. SellsWithin(s, cyc.holdings)
      BY DEF CycleInv, Selling
    <2>4. DOMAIN s = 1..Len(s) /\ \A i \in 1..Len(s) : s[i] \in Orders /\ s[i].qty \in Nat
      BY <2>2 DEF Sound, Orders
    <2>5. ASSUME NEW i \in S, NEW j \in S PROVE i = j
      <3>1. i \in 1..Len(s) /\ j \in 1..Len(s) /\ s[i].side = "sell" /\ s[j].side = "sell"
            /\ s[i].t = s[j].t
        BY <2>4
      <3>2. ~(i < j) /\ ~(j < i)
        BY <2>3, <3>1 DEF SellsWithin, Apart
      <3> QED
        BY <3>1, <3>2
    <2>6. ASSUME NEW i \in S PROVE qty[i] \in Nat /\ qty[i] <= cyc.holdings[t]
      BY <2>3, <2>4 DEF SellsWithin
    <2> HIDE DEF s, qty, S
    <2>7. CASE S = {}
      BY <2>1, <2>2, <2>7, SumEmpty
    <2>8. CASE S # {}
      <3>1. PICK k : k \in S
        BY <2>8
      <3>2. S = {k} /\ S \ {k} = {}
        BY <2>5, <3>1
      <3>3. IsFiniteSet(S)
        BY <3>2, FS_Singleton
      <3>4. \A x \in S : qty[x] \in Int
        BY <2>6
      <3>5. SumOf(qty, S) = qty[k] + SumOf(qty, S \ {k})
        BY <3>1, <3>3, <3>4, SumRemove
      <3>6. SumOf(qty, S) = qty[k]
        BY <2>6, <3>1, <3>2, <3>5, SumEmpty
      <3> QED
        BY <2>1, <2>6, <3>1, <3>6
    <2> QED
      BY <2>7, <2>8
  <1> QED
    BY <1>1, CycleInvariance, PTL

\* When _cyc_stage_execute is through, build_exec_list has left out no sale and no
\* sleeve's purchase that was approved, and no purchase went before a sale.
THEOREM PlannedGetsTried == Spec => []PlannedIsTried
  <1>1. CycleInv => PlannedIsTried
    <2> SUFFICES ASSUME CycleInv, stage = "execute", cyc.queue = <<>> PROVE PlannedIsTried
      BY DEF PlannedIsTried
    <2>1. /\ SalesFirst(tried) /\ tried \in Seq(Orders)
          /\ \A o \in ToSet(cyc.approved) :
               o.side = "sell" \/ o.by = "sleeve" => o \in ToSet(tried) \cup ToSet(cyc.queue)
      BY DEF CycleInv, Executing, Kinds
    <2>2. ToSet(cyc.queue) = {} /\ DOMAIN tried = 1..Len(tried)
      BY <2>1 DEF ToSet
    <2>3. \A o \in ToSet(cyc.approved) :
            o.side = "sell" \/ o.by = "sleeve" =>
              \E p \in ToSet(tried) : p.t = o.t /\ p.side = o.side /\ p.by = o.by
      BY <2>1, <2>2
    <2>4. \A i, j \in DOMAIN tried : i < j /\ tried[j].side = "sell" => tried[i].side = "sell"
      BY <2>1, <2>2 DEF SalesFirst
    <2> QED
      BY <2>3, <2>4 DEF PlannedIsTried
  <1> QED
    BY <1>1, CycleInvariance, PTL

\* A cycle that is to sell only, or is full, has no purchase of a stock in any of
\* its lists, by the names of the news (seed_candidates_from_news) neither.
THEOREM SkippedBuysNone == Spec => []SkippedCycleBuysNoStock
  <1>1. CycleInv => SkippedCycleBuysNoStock
    <2> SUFFICES ASSUME CycleInv, cyc.skip,
                        NEW o \in ToSet(cyc.drafts) \cup ToSet(cyc.approved) \cup ToSet(cyc.queue)
                 PROVE  ~StockBuy(o)
      BY DEF SkippedCycleBuysNoStock
    <2>1. NoStock(cyc.drafts) /\ NoStock(cyc.approved) /\ NoStock(cyc.queue)
      BY DEF CycleInv, SkipKept
    <2>2. cyc.drafts \in Seq(Sound) /\ cyc.approved \in Seq(Sound) /\ cyc.queue \in Seq(Sound)
      BY DEF CycleInv, Fields
    <2>3. \A i \in 1..Len(cyc.drafts) : ~StockBuy(cyc.drafts[i])
      BY <2>1 DEF NoStock
    <2>4. \A i \in 1..Len(cyc.approved) : ~StockBuy(cyc.approved[i])
      BY <2>1 DEF NoStock
    <2>5. \A i \in 1..Len(cyc.queue) : ~StockBuy(cyc.queue[i])
      BY <2>1 DEF NoStock
    <2>6. \A p \in ToSet(cyc.drafts) : ~StockBuy(p)
      BY <2>2, <2>3, MembersOf
    <2>7. \A p \in ToSet(cyc.approved) : ~StockBuy(p)
      BY <2>2, <2>4, MembersOf
    <2>8. \A p \in ToSet(cyc.queue) : ~StockBuy(p)
      BY <2>2, <2>5, MembersOf
    <2> QED
      BY <2>6, <2>7, <2>8
  <1> QED
    BY <1>1, CycleInvariance, PTL
=============================================================================
