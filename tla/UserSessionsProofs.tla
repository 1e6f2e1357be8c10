------------------------- MODULE UserSessionsProofs -------------------------
(***************************************************************************)
(* What holds of the users' sessions: of each one's own life, and of what  *)
(* all share.                                                              *)
(*                                                                         *)
(* The life of a session (SessionLifecycle), for any number of tasks,      *)
(* swarms and credentials. KnownLoopIsCurrent speaks of a loop that runs.  *)
(* Why it holds is in what it does not speak of: a loop that has not begun *)
(* is the context's (NewIsKnown), so that no loop can begin in a context   *)
(* that was dropped or re-keyed; and a context is the row's                *)
(* (ContextIsOfRow), its swarm the context's, so that a swarm built late   *)
(* is built with the keys in force.                                        *)
(*                                                                         *)
(* What they share about the market (MarketIntel), for any users,          *)
(* articles, hours and limits: a call under way asks for an hour no        *)
(* earlier than its cycle's, and one that waits is over before the hour    *)
(* after it is (CallOf); a report is made in the hour it is published      *)
(* under, or later (ReportsOf).                                            *)
(***************************************************************************)
EXTENDS SessionLifecycle, MarketIntel, TLAPS

\* A context is of a user who exists, holds his keys, and built its swarm with them.
ContextIsOfRow ==
  /\ ctxUp => registered /\ ctxAccount = account
  /\ ~ctxUp => ctxTask = NoTask /\ ctxSwarm = NoSwarm
  /\ ctxSwarm # NoSwarm => swarm[ctxSwarm].account = ctxAccount

\* A loop that has not begun is the one the context knows.
NewIsKnown == \A t \in Tasks : task[t].at = "new" => t = ctxTask

\* The loop the context knows has its marker, and begun, the context's swarm.
KnownLoop ==
  Watched =>
    /\ marker
    /\ task[ctxTask].at # "new" =>
         /\ ctxSwarm # NoSwarm
         /\ task[ctxTask].swarm = ctxSwarm
         /\ ~swarm[ctxSwarm].stop

LifecycleInv == TypeOK /\ ContextIsOfRow /\ NewIsKnown /\ KnownLoop /\ MarkerIsOfAStart

-----------------------------------------------------------------------------
(* A user's session: what the steps share.                                 *)

\* The swarm a request reaches is a swarm with the context's keys.
LEMMA SwarmBuilt ==
  ASSUME TypeOK, ContextIsOfRow, NEW g \in Swarms, SwarmIs(g)
  PROVE  /\ SwarmsWith(g) \in [Swarms -> [stop : BOOLEAN, account : Accounts]]
         /\ SwarmsWith(g)[g].account = ctxAccount
         /\ ctxSwarm # NoSwarm => SwarmsWith(g) = swarm /\ g = ctxSwarm
  BY DEF TypeOK, ContextIsOfRow, SwarmIs, SwarmsWith

\* A process that has just started has no tasks.
LEMMA AllDone ==
  LET none == [t \in Tasks |-> Done]
  IN none \in [Tasks -> TaskRecord] /\ \A t \in Tasks : none[t].at = "done"
  BY DEF TaskRecord, Done, Job, Kinds, Places

\* A cancelled task has ended or goes on past its await.
LEMMA CancelledType ==
  ASSUME NEW j \in TaskRecord
  PROVE  Cancelled(j) \in TaskRecord /\ Cancelled(j).at \in {"done", "round"}
  BY DEF Cancelled, TaskRecord, Done, Job, Kinds, Places

\* _stop_uid takes the marker, and leaves no loop that has not begun.
LEMMA StopUidEffect ==
  ASSUME LifecycleInv, NEW g \in Swarms, StopUid(g), registered
  PROVE  /\ marker' = FALSE
         /\ swarm' \in [Swarms -> [stop : BOOLEAN, account : Accounts]]
         /\ task' \in [Tasks -> TaskRecord]
         /\ \A t \in Tasks : task'[t].at # "new"
         /\ ctxUp => swarm'[g].account = ctxAccount
<1>1. CASE ctxUp
  <2>1. SwarmIs(g) /\ swarm' = [SwarmsWith(g) EXCEPT ![g].stop = TRUE]
    BY <1>1 DEF StopUid
  <2>2. /\ SwarmsWith(g) \in [Swarms -> [stop : BOOLEAN, account : Accounts]]
        /\ SwarmsWith(g)[g].account = ctxAccount
    BY <2>1, SwarmBuilt DEF LifecycleInv
  <2>3. /\ swarm' \in [Swarms -> [stop : BOOLEAN, account : Accounts]]
        /\ swarm'[g].account = ctxAccount
    BY <2>1, <2>2
  <2>4. task' = [t \in Tasks |-> IF Watched /\ t = ctxTask THEN Cancelled(task[t]) ELSE task[t]]
    BY <1>1 DEF StopUid
  <2>5. ASSUME NEW t \in Tasks PROVE task'[t] \in TaskRecord /\ task'[t].at # "new"
    <3>1. CASE Watched /\ t = ctxTask
      BY <3>1, <2>4, CancelledType DEF LifecycleInv, TypeOK
    <3>2. CASE ~(Watched /\ t = ctxTask)
      <4>1. task'[t] = task[t] /\ task[t] \in TaskRecord
        BY <3>2, <2>4 DEF LifecycleInv, TypeOK
      <4>2. task[t].at # "new"
        BY <3>2, LifecycleAssumption DEF LifecycleInv, NewIsKnown, Watched, Live
      <4> QED BY <4>1, <4>2
    <3> QED BY <3>1, <3>2
  <2> QED BY <2>3, <2>4, <2>5 DEF StopUid
<1>2. CASE ~ctxUp
  <2>1. marker' = FALSE /\ swarm' = swarm /\ task' = task
    BY <1>2 DEF StopUid
  <2>2. \A t \in Tasks : task[t].at # "new"
    BY <1>2, LifecycleAssumption DEF LifecycleInv, NewIsKnown, ContextIsOfRow
  <2> QED BY <2>1, <2>2, <1>2 DEF LifecycleInv, TypeOK
<1> QED BY <1>1, <1>2

\* A step of one task that has run before, to a place that is not "new".
LEMMA TaskMoves ==
  ASSUME LifecycleInv, OnlyTasks, NEW t \in Tasks,
         task' \in [Tasks -> TaskRecord],
         \A u \in Tasks \ {t} : task'[u] = task[u],
         task'[t].at # "new",
         t = ctxTask => task'[t].at = "done" \/
                        (task[t].at \notin {"new", "done"} /\ task'[t].swarm = task[t].swarm
                           /\ task'[t].kind = task[t].kind)
  PROVE  LifecycleInv'
<1>1. TypeOK' /\ ContextIsOfRow' /\ MarkerIsOfAStart'
  BY LifecycleAssumption
  DEF LifecycleInv, OnlyTasks, TypeOK, ContextIsOfRow, MarkerIsOfAStart, Watched, Live, row, ctx
<1>2. NewIsKnown'
  BY DEF LifecycleInv, OnlyTasks, NewIsKnown, ctx
<1>3. KnownLoop'
  BY LifecycleAssumption DEF LifecycleInv, OnlyTasks, KnownLoop, Watched, Live, TypeOK, ctx
<1> QED BY <1>1, <1>2, <1>3 DEF LifecycleInv

\* ... which Goes is.
LEMMA TaskGoes ==
  ASSUME LifecycleInv, OnlyTasks, NEW t \in Tasks, NEW p \in Places \ {"new"},
         task[t].at \notin {"new", "done"} \/ p = "done", Goes(t, p)
  PROVE  LifecycleInv'
<1>1. task \in [Tasks -> TaskRecord]
  BY DEF LifecycleInv, TypeOK
<1>2. /\ task' \in [Tasks -> TaskRecord]
      /\ \A u \in Tasks \ {t} : task'[u] = task[u]
      /\ task'[t].at = p
      /\ p # "done" => task'[t].swarm = task[t].swarm /\ task'[t].kind = task[t].kind
  BY <1>1 DEF Goes, TaskRecord, Done, Job, Kinds, Places
<1> QED BY <1>2, TaskMoves

-----------------------------------------------------------------------------
(* A user's session: the invariant is inductive.                           *)

LEMMA LifecycleStarts == Init => LifecycleInv
<1> SUFFICES ASSUME Init PROVE LifecycleInv
  OBVIOUS
<1>1. TypeOK
  BY AllDone, LifecycleAssumption DEF Init, TypeOK, Watched
<1>2. ContextIsOfRow /\ NewIsKnown /\ KnownLoop /\ MarkerIsOfAStart
  BY AllDone, LifecycleAssumption
  DEF Init, ContextIsOfRow, NewIsKnown, KnownLoop, MarkerIsOfAStart, Watched
<1> QED BY <1>1, <1>2 DEF LifecycleInv

\* get_or_create finds the user's row or the context made from it.
LEMMA TouchInv == LifecycleInv /\ Touch => LifecycleInv'
  BY LifecycleAssumption
     DEF Touch, GetOrCreate, LifecycleInv, TypeOK, ContextIsOfRow, NewIsKnown, KnownLoop,
         MarkerIsOfAStart, Watched, Live, row

LEMMA TouchSwarmInv == LifecycleInv /\ TouchSwarm => LifecycleInv'
<1> SUFFICES ASSUME LifecycleInv, TouchSwarm, NEW g \in Swarms,
                    SwarmIs(g), swarm' = SwarmsWith(g), ctxSwarm' = g
             PROVE  LifecycleInv'
  BY DEF TouchSwarm
<1>1. /\ SwarmsWith(g) \in [Swarms -> [stop : BOOLEAN, account : Accounts]]
      /\ SwarmsWith(g)[g].account = ctxAccount
      /\ ctxSwarm # NoSwarm => SwarmsWith(g) = swarm /\ g = ctxSwarm
  BY SwarmBuilt DEF LifecycleInv
<1> QED
  BY <1>1, LifecycleAssumption
  DEF TouchSwarm, LifecycleInv, TypeOK, ContextIsOfRow, NewIsKnown, KnownLoop,
      MarkerIsOfAStart, Watched, Live, row

LEMMA StartInv == LifecycleInv /\ StartUid /\ booting' \in BOOLEAN => LifecycleInv'
<1> SUFFICES ASSUME LifecycleInv, StartUid, booting' \in BOOLEAN, NEW t \in Tasks,
                    ctxTask' = t,
                    task' = [task EXCEPT ![t] = Job("loop", NoSwarm, "new")]
             PROVE  LifecycleInv'
  BY DEF StartUid
<1>1. task' \in [Tasks -> TaskRecord] /\ task'[t].at = "new" /\ task'[t].kind = "loop"
  BY DEF LifecycleInv, TypeOK, TaskRecord, Job, Kinds, Places
<1>2. \A u \in Tasks : task[u].at # "new"
  BY LifecycleAssumption DEF StartUid, LifecycleInv, NewIsKnown, Watched, Live
<1>3. TypeOK' /\ NewIsKnown'
  BY <1>1, <1>2 DEF StartUid, GetOrCreate, LifecycleInv, TypeOK, NewIsKnown, Watched, row
<1>4. ContextIsOfRow'
  BY DEF StartUid, GetOrCreate, LifecycleInv, TypeOK, ContextIsOfRow, row
<1>5. KnownLoop' /\ MarkerIsOfAStart'
  BY <1>1, LifecycleAssumption
  DEF StartUid, GetOrCreate, LifecycleInv, ContextIsOfRow, KnownLoop, MarkerIsOfAStart, row
<1> QED BY <1>3, <1>4, <1>5 DEF LifecycleInv

LEMMA StopInv == LifecycleInv /\ Stop => LifecycleInv'
<1> SUFFICES ASSUME LifecycleInv, Stop, NEW g \in Swarms, StopUid(g),
                    ctxSwarm' = IF ctxUp THEN g ELSE NoSwarm
             PROVE  LifecycleInv'
  BY DEF Stop
<1>1. /\ marker' = FALSE
      /\ swarm' \in [Swarms -> [stop : BOOLEAN, account : Accounts]]
      /\ task' \in [Tasks -> TaskRecord]
      /\ \A t \in Tasks : task'[t].at # "new"
      /\ ctxUp => swarm'[g].account = ctxAccount
  BY StopUidEffect DEF Stop
<1> QED
  BY <1>1, LifecycleAssumption
  DEF Stop, LifecycleInv, TypeOK, ContextIsOfRow, NewIsKnown, KnownLoop, MarkerIsOfAStart,
      Watched, row

LEMMA UpdateInv ==
  ASSUME LifecycleInv, NEW a \in Accounts, UpdateCredentials(a) PROVE LifecycleInv'
<1>1. CASE ctxUp /\ Watched
  <2>1. PICK g \in Swarms : StopUid(g)
    BY <1>1 DEF UpdateCredentials
  <2>2. /\ marker' = FALSE
        /\ swarm' \in [Swarms -> [stop : BOOLEAN, account : Accounts]]
        /\ task' \in [Tasks -> TaskRecord]
        /\ \A t \in Tasks : task'[t].at # "new"
    BY <2>1, StopUidEffect DEF UpdateCredentials
  <2> QED
    BY <1>1, <2>2, LifecycleAssumption
    DEF UpdateCredentials, ResetSwarm, LifecycleInv, TypeOK, ContextIsOfRow, NewIsKnown,
        KnownLoop, MarkerIsOfAStart, Watched
<1>2. CASE ~(ctxUp /\ Watched)
  <2>1. ~Watched
    BY <1>2 DEF LifecycleInv, ContextIsOfRow, Watched
  <2>2. ~Watched'
    BY <1>2, <2>1 DEF UpdateCredentials, Watched, Live
  <2> QED
    BY <1>2, <2>2
    DEF UpdateCredentials, ResetSwarm, LifecycleInv, TypeOK, ContextIsOfRow, NewIsKnown,
        KnownLoop, MarkerIsOfAStart
<1> QED BY <1>1, <1>2

LEMMA DeleteInv == LifecycleInv /\ Delete => LifecycleInv'
<1> SUFFICES ASSUME LifecycleInv, Delete, NEW g \in Swarms, StopUid(g) PROVE LifecycleInv'
  BY DEF Delete
<1>1. /\ marker' = FALSE
      /\ swarm' \in [Swarms -> [stop : BOOLEAN, account : Accounts]]
      /\ task' \in [Tasks -> TaskRecord]
      /\ \A t \in Tasks : task'[t].at # "new"
  BY StopUidEffect DEF Delete
<1> QED
  BY <1>1, LifecycleAssumption
  DEF Delete, LifecycleInv, TypeOK, ContextIsOfRow, NewIsKnown, KnownLoop, MarkerIsOfAStart, Watched

LEMMA CrashInv == LifecycleInv /\ Crash => LifecycleInv'
<1> SUFFICES ASSUME LifecycleInv, Crash PROVE LifecycleInv'
  OBVIOUS
<1>1. TypeOK'
  BY AllDone, LifecycleAssumption DEF Crash, LifecycleInv, TypeOK, Watched, row
<1>2. ContextIsOfRow' /\ NewIsKnown' /\ KnownLoop' /\ MarkerIsOfAStart'
  BY AllDone, LifecycleAssumption
  DEF Crash, LifecycleInv, ContextIsOfRow, NewIsKnown, KnownLoop, MarkerIsOfAStart, Watched, row
<1> QED BY <1>1, <1>2 DEF LifecycleInv

\* A marker the scan passes over belongs to a loop somebody has started meanwhile.
LEMMA ResumeInv == LifecycleInv /\ Resume => LifecycleInv'
<1> SUFFICES ASSUME LifecycleInv, Resume PROVE LifecycleInv'
  OBVIOUS
<1>1. CASE Resumes
  BY <1>1, StartInv DEF Resume
<1>2. CASE ~Resumes
  BY <1>2, LifecycleAssumption
  DEF Resume, Resumes, LifecycleInv, TypeOK, ContextIsOfRow, NewIsKnown, KnownLoop,
      MarkerIsOfAStart, Watched, Live, row, ctx
<1> QED BY <1>1, <1>2

\* The loop that begins clears the flag of the swarm its context reaches.
LEMMA LoopBeginsInv ==
  ASSUME LifecycleInv, NEW t \in Tasks, LoopBegins(t) PROVE LifecycleInv'
<1>1. PICK g \in Swarms, p \in Tasks :
        /\ SwarmIs(g) /\ FreeTask(p) /\ p # t
        /\ swarm' = FlagCleared(g)
        /\ ctxSwarm' = g
        /\ task' = [task EXCEPT ![t] = Job("loop", g, "round"), ![p] = Job("sleeper", g, "sleeps")]
  BY DEF LoopBegins
<1>2. t = ctxTask /\ ctxUp
  BY LifecycleAssumption DEF LoopBegins, LifecycleInv, NewIsKnown, ContextIsOfRow
<1>3. /\ SwarmsWith(g) \in [Swarms -> [stop : BOOLEAN, account : Accounts]]
      /\ SwarmsWith(g)[g].account = ctxAccount
  BY <1>1, SwarmBuilt DEF LifecycleInv
<1>4. /\ swarm' \in [Swarms -> [stop : BOOLEAN, account : Accounts]]
      /\ swarm'[g].account = ctxAccount
      /\ ~swarm'[g].stop
  BY <1>1, <1>3 DEF FlagCleared
<1>5. /\ task' \in [Tasks -> TaskRecord]
      /\ task'[t].at = "round" /\ task'[t].swarm = g /\ task'[t].kind = "loop"
      /\ \A u \in Tasks : task'[u].at = "new" => task[u].at = "new" /\ u # t
  BY <1>1 DEF LifecycleInv, TypeOK, TaskRecord, Job, Kinds, Places
<1>6. marker
  BY <1>2, LifecycleAssumption DEF LoopBegins, IsLoop, LifecycleInv, KnownLoop, Watched
<1>7. TypeOK' /\ ContextIsOfRow'
  BY <1>1, <1>2, <1>4, <1>5, LifecycleAssumption
  DEF LoopBegins, LifecycleInv, TypeOK, ContextIsOfRow, row
<1>8. NewIsKnown' /\ MarkerIsOfAStart'
  BY <1>2, <1>5 DEF LoopBegins, LifecycleInv, NewIsKnown, MarkerIsOfAStart, row
<1>9. KnownLoop'
  BY <1>1, <1>2, <1>4, <1>5, <1>6, LifecycleAssumption DEF LoopBegins, KnownLoop
<1> QED BY <1>7, <1>8, <1>9 DEF LifecycleInv

LEMMA TaskInv ==
  ASSUME LifecycleInv, NEW t \in Tasks,
         \/ TaskStep(t) \/ LoopAwaits(t) \/ LoopRoundEnds(t) \/ LoopDies(t) \/ SleeperEnds(t)
         \/ \E p \in Tasks : LoopSpawns(t, p)
  PROVE  LifecycleInv'
<1>1. CASE LoopBegins(t)
  BY <1>1, LoopBeginsInv
<1>2. CASE LoopLooks(t)
  BY <1>2, TaskGoes DEF LoopLooks, AtHead, Places
<1>3. CASE LoopAwaits(t)
  BY <1>3, TaskGoes DEF LoopAwaits, Places
<1>4. CASE LoopGoesOn(t)
  BY <1>4, TaskGoes DEF LoopGoesOn, Places
<1>5. CASE LoopRoundEnds(t)
  BY <1>5, TaskGoes DEF LoopRoundEnds, Places
<1>6. CASE LoopDies(t) \/ SleeperStops(t) \/ SleeperEnds(t)
  BY <1>6, TaskGoes DEF LoopDies, SleeperStops, SleeperEnds, Places
<1>7. CASE \E p \in Tasks : LoopSpawns(t, p)
  <2>1. PICK p \in Tasks : LoopSpawns(t, p)
    BY <1>7
  <2>2. task \in [Tasks -> TaskRecord]
    BY DEF LifecycleInv, TypeOK
  <2>3. /\ task' \in [Tasks -> TaskRecord]
        /\ \A u \in Tasks \ {p} : task'[u] = task[u]
        /\ task'[p].at # "new"
        /\ p # ctxTask
    BY <2>1, <2>2 DEF LoopSpawns, FreeTask, TaskRecord, Job, Kinds, Places
  <2> QED BY <2>1, <2>3, TaskMoves DEF LoopSpawns
<1> QED BY <1>1, <1>2, <1>3, <1>4, <1>5, <1>6, <1>7 DEF TaskStep

LEMMA NextInv == LifecycleInv /\ [Next]_vars => LifecycleInv'
<1> SUFFICES ASSUME LifecycleInv, [Next]_vars PROVE LifecycleInv'
  OBVIOUS
<1>1. CASE Requests
  <2>1. CASE Start
    BY <2>1, StartInv DEF Start, LifecycleInv, TypeOK
  <2> QED
    BY <1>1, <2>1, TouchInv, TouchSwarmInv, StopInv, DeleteInv, UpdateInv DEF Requests
<1>2. CASE Crash \/ Resume
  BY <1>2, CrashInv, ResumeInv
<1>3. CASE \E t \in Tasks : \/ TaskStep(t) \/ LoopAwaits(t) \/ LoopRoundEnds(t)
                            \/ LoopDies(t) \/ SleeperEnds(t)
                            \/ \E p \in Tasks : LoopSpawns(t, p)
  BY <1>3, TaskInv
<1>4. CASE UNCHANGED vars
  BY <1>4
  DEF vars, row, ctx, LifecycleInv, TypeOK, ContextIsOfRow, NewIsKnown, KnownLoop,
      MarkerIsOfAStart, Watched, Live
<1> QED BY <1>1, <1>2, <1>3, <1>4 DEF Next

\* What the requests keep of a context holds in every reachable state.
THEOREM LifecycleInvariance == Spec => []LifecycleInv
  BY LifecycleStarts, NextInv, PTL DEF Spec

\* Every variable keeps its type.
THEOREM LifecycleTypes == Spec => []TypeOK
<1>1. LifecycleInv => TypeOK
  BY DEF LifecycleInv
<1> QED BY <1>1, LifecycleInvariance, PTL

\* The loop the context knows trades for a user who exists, with the keys he
\* saved last, in a swarm nobody has told to stop, whatever stops, starts,
\* changes of keys, deletions and restarts came before.
THEOREM KnownLoopCurrent == Spec => []KnownLoopIsCurrent
<1>1. LifecycleInv => KnownLoopIsCurrent
  BY LifecycleAssumption
  DEF LifecycleInv, TypeOK, ContextIsOfRow, KnownLoop, KnownLoopIsCurrent, Watched
<1> QED BY <1>1, LifecycleInvariance, PTL

\* A marker on disk is the trace of a start that nothing has undone.
THEOREM MarkerCorrect == Spec => []MarkerIsOfAStart
<1>1. LifecycleInv => MarkerIsOfAStart
  BY DEF LifecycleInv
<1> QED BY <1>1, LifecycleInvariance, PTL

----------------------------------------------------------------------------
(* Market intelligence: the clock's hours.                                 *)

HourStart(h) == h * HourLen

LEMMA HourBounds ==
  ASSUME NEW n \in Nat
  PROVE  /\ Hour(n) \in Nat /\ HourStart(Hour(n)) \in Nat
         /\ HourStart(Hour(n)) <= n /\ n < HourStart(Hour(n)) + HourLen
BY IntelAssumption DEF Hour, HourStart

LEMMA HourGrows ==
  ASSUME NEW n \in Nat
  PROVE  Hour(n) <= Hour(n + 1)
BY IntelAssumption DEF Hour

LEMMA StartGrows ==
  ASSUME NEW a \in Int, NEW b \in Int, a <= b
  PROVE  HourStart(a) \in Int /\ HourStart(b) \in Int /\ HourStart(a) <= HourStart(b)
BY IntelAssumption DEF HourStart

----------------------------------------------------------------------------
(* Market intelligence: types and invariant.                               *)

Calls == [at : {"none", "computing", "waiting"}, kind : ReportKinds \cup {"none"},
          hour : Int, late : BOOLEAN]
Cycles == [on : BOOLEAN, opened : BOOLEAN, hour : Int, left : Int, call : Calls,
           has : [ReportKinds -> Int], age : Int, arts : SUBSET Articles, timeouts : Int]

IntelTypes ==
  /\ now \in Nat
  /\ cycle \in [Users -> Cycles]
  /\ absent \in [Users -> BOOLEAN]
  /\ intel \in [ReportKinds -> [hour : Int, born : Int]]
  /\ macroCache \in [at : Int, born : Int]
  /\ crawled \subseteq Articles
  /\ pending \in [Users -> SUBSET crawled]

LEMMA NoCallType == /\ NoCall \in Calls /\ NoCall.at = "none"
BY DEF NoCall, Calls, Unborn

\* What is known of a call that is under way.
CallOf(c, a, n) ==
  /\ c.call.at # "none" => /\ c.call.kind \in ReportKinds
                           /\ c.call.hour >= c.hour /\ c.call.hour <= Hour(n)
                           /\ c.call.hour \in Nat
  /\ c.call.at = "waiting" =>
       /\ ~a
       /\ n <= HourStart(c.call.hour) + HourLen
       /\ ~c.call.late => Hour(n) = c.call.hour

\* A user's cycle, beside his flag a, at n.
CycleOf(c, a, n) ==
  /\ c.hour <= Hour(n)
  /\ \A k \in ReportKinds : c.has[k] # Unborn => c.has[k] >= c.hour
  /\ c.age < HourLen + MacroTTL
  /\ c.arts \subseteq crawled
  /\ IF c.on THEN c.timeouts = (IF a THEN 1 ELSE 0) ELSE c.timeouts = 0 /\ c.call = NoCall
  /\ CallOf(c, a, n)

\* The published macro report was made in its hour or later; the cached one was
\* no older than an hour when it was cached.
ReportsOf ==
  /\ intel["macro_report"].hour # Unborn =>
       intel["macro_report"].born >= HourStart(intel["macro_report"].hour)
  /\ macroCache.at # Unborn => macroCache.at - macroCache.born <= HourLen

IntelInv == /\ IntelTypes
            /\ \A u \in Users : CycleOf(cycle[u], absent[u], now)
            /\ ReportsOf

LEMMA IntelProperties ==
  ASSUME IntelInv
  PROVE  IntelTypeOK /\ NewsIsOfTheHour /\ MacroIsRecent /\ AbsenceIsOfThisCycle
<1>1. \A u \in Users : /\ cycle[u] \in Cycles /\ absent[u] \in BOOLEAN
                       /\ CycleOf(cycle[u], absent[u], now)
  BY DEF IntelInv, IntelTypes
<1>2. IntelTypeOK
  BY <1>1, NoCallType DEF IntelInv, IntelTypes, IntelTypeOK, Cycles, Calls, CycleOf
<1>3. NewsIsOfTheHour
  BY <1>1 DEF NewsIsOfTheHour, Has, CycleOf
<1>4. MacroIsRecent
  BY <1>1 DEF MacroIsRecent, CycleOf
<1>5. AbsenceIsOfThisCycle
  BY <1>1 DEF AbsenceIsOfThisCycle, CycleOf
<1> QED
  BY <1>2, <1>3, <1>4, <1>5

LEMMA NoCycleFields ==
  /\ NoCycle \in Cycles /\ NoCycle.on = FALSE /\ NoCycle.opened = FALSE /\ NoCycle.hour = -1
  /\ NoCycle.left = 0 /\ NoCycle.call = NoCall /\ NoCycle.has = [k \in ReportKinds |-> Unborn]
  /\ NoCycle.age = -1 /\ NoCycle.arts = {} /\ NoCycle.timeouts = 0
BY NoCallType DEF NoCycle, Cycles, Unborn

LEMMA IntelStarts == IntelInit => IntelInv
<1> SUFFICES ASSUME IntelInit PROVE IntelInv
  OBVIOUS
<1>1. IntelTypes
  BY NoCycleFields DEF IntelInit, IntelTypes, Unborn
<1>2. Hour(0) \in Nat
  BY HourBounds
<1>3. CycleOf(NoCycle, FALSE, 0)
  BY <1>2, NoCycleFields, NoCallType, IntelAssumption DEF CycleOf, CallOf, Unborn
<1>4. \A u \in Users : CycleOf(cycle[u], absent[u], now)
  BY <1>3 DEF IntelInit
<1>5. ReportsOf
  BY DEF IntelInit, ReportsOf, ReportKinds
<1> QED
  BY <1>1, <1>4, <1>5 DEF IntelInv

----------------------------------------------------------------------------
(* Market intelligence: the steps.                                         *)

\* A step of one user's loop, on his cycle and flag only.
LEMMA UserMoves ==
  ASSUME IntelInv, UNCHANGED <<now, crawled>>,
         NEW u \in Users, NEW c \in Cycles, NEW a \in BOOLEAN, CycleOf(c, a, now),
         cycle' = [cycle EXCEPT ![u] = c], absent' = [absent EXCEPT ![u] = a]
  PROVE  /\ cycle' \in [Users -> Cycles] /\ absent' \in [Users -> BOOLEAN]
         /\ \A v \in Users : CycleOf(cycle[v], absent[v], now)'
<1>1. cycle \in [Users -> Cycles] /\ absent \in [Users -> BOOLEAN]
  BY DEF IntelInv, IntelTypes
<1>2. cycle' \in [Users -> Cycles] /\ absent' \in [Users -> BOOLEAN]
  BY <1>1
<1>3. ASSUME NEW v \in Users PROVE CycleOf(cycle'[v], absent'[v], now)
  <2>1. CASE v = u
    BY <1>1, <2>1
  <2>2. CASE v # u
    <3>1. cycle'[v] = cycle[v] /\ absent'[v] = absent[v]
      BY <1>1, <2>2
    <3> QED
      BY <3>1 DEF IntelInv
  <2> QED
    BY <2>1, <2>2
<1>4. ASSUME NEW v \in Users PROVE CycleOf(cycle[v], absent[v], now)'
  BY <1>3 DEF CycleOf, CallOf, Hour
<1> QED
  BY <1>2, <1>4

LEMMA TickStep ==
  ASSUME IntelInv, Tick
  PROVE  IntelInv'
<1> DEFINE C(u) == IF cycle[u].on
                   THEN [cycle[u] EXCEPT !.left = @ - 1, !.call.late = cycle[u].call.at = "waiting"]
                   ELSE cycle[u]
<1>1. /\ now \in Nat /\ now' = now + 1 /\ cycle' = [u \in Users |-> C(u)]
      /\ \A u \in Users : cycle[u] \in Cycles /\ CycleOf(cycle[u], absent[u], now)
      /\ \A u \in Users : cycle[u].on => ~cycle[u].call.late
      /\ UNCHANGED <<absent, intel, macroCache, crawled, pending>>
  BY DEF Tick, IntelInv, IntelTypes
<1>2. Hour(now) \in Nat /\ Hour(now + 1) \in Nat /\ Hour(now) <= Hour(now + 1)
      /\ now < HourStart(Hour(now)) + HourLen /\ HourStart(Hour(now)) \in Nat
  <2>1. now \in Nat /\ now + 1 \in Nat
    BY DEF IntelInv, IntelTypes
  <2>2. /\ Hour(now) \in Nat /\ HourStart(Hour(now)) \in Nat
        /\ now < HourStart(Hour(now)) + HourLen
    BY <2>1, HourBounds
  <2>3. Hour(now + 1) \in Nat
    BY <2>1, HourBounds
  <2>4. Hour(now) <= Hour(now + 1)
    BY <2>1, HourGrows
  <2> QED
    BY <2>2, <2>3, <2>4
<1>3. ASSUME NEW u \in Users
      PROVE  C(u) \in Cycles /\ CycleOf(C(u), absent[u], now + 1)
  <2> DEFINE c == cycle[u]
  <2>1. c \in Cycles /\ CycleOf(c, absent[u], now)
    BY <1>1
  <2>2. CASE ~c.on
    <3>1. C(u) = c /\ c.call = NoCall
      BY <2>1, <2>2 DEF CycleOf
    <3>2. CallOf(c, absent[u], now + 1)
      BY <3>1, NoCallType DEF CallOf
    <3> HIDE DEF C, c
    <3>3. c.hour <= Hour(now + 1)
      BY <1>2, <2>1 DEF CycleOf, Cycles
    <3> QED
      BY <2>1, <2>2, <3>1, <3>2, <3>3 DEF CycleOf
  <2>3. CASE c.on
    <3> DEFINE waits == c.call.at = "waiting"
    <3>1. C(u) = [c EXCEPT !.left = @ - 1, !.call = [c.call EXCEPT !.late = waits]]
      BY <2>1, <2>3 DEF Cycles
    <3>2. c.call \in Calls /\ c.left \in Int /\ waits \in BOOLEAN
      BY <2>1 DEF Cycles
    <3> DEFINE call == [c.call EXCEPT !.late = waits]
    <3>3. /\ call \in Calls /\ call.at = c.call.at /\ call.kind = c.call.kind
          /\ call.hour = c.call.hour /\ call.late = waits
      BY <3>2 DEF Calls
    <3> HIDE DEF call
    <3> DEFINE left == c.left - 1
    <3>4. C(u) = [c EXCEPT !.left = left, !.call = call] /\ left \in Int
      BY <3>1, <3>2 DEF call
    <3> HIDE DEF C, c, left
    <3>5. /\ C(u) \in Cycles /\ C(u).on = c.on /\ C(u).hour = c.hour /\ C(u).call = call
          /\ C(u).has = c.has /\ C(u).age = c.age /\ C(u).arts = c.arts
          /\ C(u).timeouts = c.timeouts
      BY <2>1, <3>3, <3>4 DEF Cycles
    <3>6. c.hour \in Int /\ call.hour \in Int
      BY <2>1, <3>3 DEF Cycles, Calls
    <3>7. c.call.at # "none" => /\ c.call.kind \in ReportKinds
                                /\ c.call.hour >= c.hour /\ c.call.hour <= Hour(now)
                                /\ c.call.hour \in Nat
      BY <2>1 DEF CycleOf, CallOf
    <3>8. ASSUME waits
          PROVE  /\ ~absent[u] /\ now + 1 <= HourStart(call.hour) + HourLen
      <4>1. ~absent[u] /\ Hour(now) = c.call.hour
        BY <1>1, <2>1, <2>3, <3>8 DEF CycleOf, CallOf, c
      <4> QED
        BY <1>1, <1>2, <3>3, <4>1, IntelAssumption
    <3>9. CallOf(C(u), absent[u], now + 1)
      <4>1. C(u).call.at # "none" =>
              /\ C(u).call.kind \in ReportKinds
              /\ C(u).call.hour >= C(u).hour /\ C(u).call.hour <= Hour(now + 1)
              /\ C(u).call.hour \in Nat
        BY <1>2, <3>3, <3>5, <3>6, <3>7
      <4>2. C(u).call.at = "waiting" =>
              /\ ~absent[u] /\ now + 1 <= HourStart(C(u).call.hour) + HourLen
              /\ C(u).call.late
        BY <3>3, <3>5, <3>8
      <4> QED
        BY <4>1, <4>2 DEF CallOf
    <3>10. c.hour <= Hour(now + 1)
      BY <1>2, <2>1, <3>6 DEF CycleOf
    <3> QED
      BY <2>1, <2>3, <3>5, <3>9, <3>10 DEF CycleOf
  <2> QED
    BY <2>2, <2>3
<1> HIDE DEF C
<1>4. \A u \in Users : cycle'[u] = C(u)
  BY <1>1
<1>5. cycle' \in [Users -> Cycles]
  BY <1>1, <1>3
<1>6. IntelTypes'
  BY <1>1, <1>5 DEF IntelInv, IntelTypes
<1>7. ASSUME NEW u \in Users PROVE CycleOf(cycle[u], absent[u], now)'
  <2>1. CycleOf(cycle'[u], absent'[u], now')
    BY <1>1, <1>3, <1>4
  <2> QED
    BY <1>1, <2>1 DEF CycleOf, CallOf, Hour
<1>8. ReportsOf'
  BY <1>1 DEF IntelInv, ReportsOf
<1> QED
  BY <1>6, <1>7, <1>8 DEF IntelInv

LEMMA CrawlStep ==
  ASSUME IntelInv, NEW u \in Users, Crawl(u)
  PROVE  IntelInv'
<1>1. /\ crawled \subseteq crawled' /\ crawled' \subseteq Articles
      /\ pending' \in [Users -> SUBSET crawled']
      /\ UNCHANGED <<now, cycle, absent, intel, macroCache>>
  BY DEF Crawl, IntelInv, IntelTypes
<1>2. IntelTypes'
  BY <1>1 DEF IntelInv, IntelTypes
<1>3. ASSUME NEW v \in Users PROVE CycleOf(cycle[v], absent[v], now)'
  BY <1>1 DEF IntelInv, CycleOf, CallOf, Hour
<1>4. ReportsOf'
  BY <1>1 DEF IntelInv, ReportsOf
<1> QED
  BY <1>2, <1>3, <1>4 DEF IntelInv

LEMMA BeginStep ==
  ASSUME IntelInv, NEW u \in Users, CycleBegins(u)
  PROVE  IntelInv'
<1>1. PICK opened \in BOOLEAN :
        cycle' = [cycle EXCEPT ![u] = [NoCycle EXCEPT !.on = TRUE, !.opened = opened,
                                         !.hour = Hour(now), !.left = MaxCycle,
                                         !.arts = CycleNews(u)]]
  BY DEF CycleBegins
<1> DEFINE hour == Hour(now)
           arts == CycleNews(u)
           c == [NoCycle EXCEPT !.on = TRUE, !.opened = opened, !.hour = hour,
                                !.left = MaxCycle, !.arts = arts]
<1>2. now \in Nat /\ hour \in Nat /\ arts \subseteq crawled /\ arts \subseteq Articles
  BY HourBounds DEF IntelInv, IntelTypes, CycleNews
<1>4. cycle' = [cycle EXCEPT ![u] = c]
  BY <1>1
<1> HIDE DEF hour, arts
<1>3. /\ c \in Cycles /\ c.on = TRUE /\ c.hour = hour /\ c.call = NoCall
      /\ c.has = [k \in ReportKinds |-> Unborn] /\ c.age = -1 /\ c.arts = arts /\ c.timeouts = 0
  <2>1. /\ TRUE \in BOOLEAN /\ opened \in BOOLEAN /\ hour \in Int /\ MaxCycle \in Int
        /\ arts \in SUBSET Articles
    BY <1>2, IntelAssumption
  <2>2. c \in Cycles
    BY <2>1, NoCycleFields DEF Cycles
  <2> QED
    BY <2>2, NoCycleFields DEF Cycles
<1> HIDE DEF c
<1>5. CycleOf(c, FALSE, now)
  BY <1>2, <1>3, NoCallType, IntelAssumption DEF CycleOf, CallOf, Unborn, hour
<1>6. /\ absent' = [absent EXCEPT ![u] = FALSE]
      /\ pending' = [pending EXCEPT ![u] = {}]
      /\ UNCHANGED <<now, intel, macroCache, crawled>>
  BY DEF CycleBegins, FlagAtStart
<1>7. /\ cycle' \in [Users -> Cycles] /\ absent' \in [Users -> BOOLEAN]
      /\ \A v \in Users : CycleOf(cycle[v], absent[v], now)'
  BY <1>3, <1>4, <1>5, <1>6, UserMoves
<1>8. IntelTypes' /\ ReportsOf'
  BY <1>6, <1>7 DEF IntelInv, IntelTypes, ReportsOf
<1> QED
  BY <1>7, <1>8 DEF IntelInv

LEMMA EndStep ==
  ASSUME IntelInv, NEW u \in Users, CycleEnds(u)
  PROVE  IntelInv'
<1> DEFINE c == [NoCycle EXCEPT !.hour = cycle[u].hour, !.opened = cycle[u].opened]
<1>1. cycle[u] \in Cycles /\ CycleOf(cycle[u], absent[u], now) /\ absent \in [Users -> BOOLEAN]
  BY DEF IntelInv, IntelTypes
<1>2. cycle[u].hour \in Int /\ cycle[u].opened \in BOOLEAN /\ cycle[u].hour <= Hour(now)
  BY <1>1 DEF Cycles, CycleOf
<1>3. /\ c \in Cycles /\ c.on = FALSE /\ c.hour = cycle[u].hour /\ c.call = NoCall
      /\ c.has = [k \in ReportKinds |-> Unborn] /\ c.age = -1 /\ c.arts = {} /\ c.timeouts = 0
  BY <1>2, NoCycleFields DEF Cycles
<1>4. cycle' = [cycle EXCEPT ![u] = c]
  BY DEF CycleEnds
<1> HIDE DEF c
<1>5. CycleOf(c, absent[u], now)
  BY <1>2, <1>3, NoCallType, IntelAssumption DEF CycleOf, CallOf, Unborn
<1>6. UNCHANGED <<now, absent, intel, macroCache, crawled, pending>>
  BY DEF CycleEnds
<1>7. absent' = [absent EXCEPT ![u] = absent[u]] /\ absent[u] \in BOOLEAN
  BY <1>1, <1>6
<1>8. /\ cycle' \in [Users -> Cycles] /\ absent' \in [Users -> BOOLEAN]
      /\ \A v \in Users : CycleOf(cycle[v], absent[v], now)'
  BY <1>3, <1>4, <1>5, <1>6, <1>7, UserMoves
<1>9. IntelTypes' /\ ReportsOf'
  BY <1>6, <1>8 DEF IntelInv, IntelTypes, ReportsOf
<1> QED
  BY <1>8, <1>9 DEF IntelInv

\* A call is over: the report has an hour no earlier than the cycle's and, a
\* macro report, an age of an hour at most.
LEMMA TakesStep ==
  ASSUME IntelInv, NEW u \in Users, cycle[u].on,
         NEW k \in ReportKinds, NEW e \in [hour : Int, born : Int],
         e.hour >= cycle[u].hour, k = "macro_report" => now - e.born <= HourLen,
         Takes(u, k, e), UNCHANGED <<now, absent, crawled>>
  PROVE  /\ cycle' \in [Users -> Cycles]
         /\ \A v \in Users : CycleOf(cycle[v], absent[v], now)'
         /\ macroCache' \in [at : Int, born : Int]
         /\ macroCache'.at # Unborn => macroCache'.at - macroCache'.born <= HourLen
<1> DEFINE b == cycle[u]
           has == [b.has EXCEPT ![k] = e.hour]
           age == IF k = "macro_report" THEN now - e.born ELSE b.age
           c == [b EXCEPT !.has = has, !.call = NoCall, !.age = age]
<1>1. /\ b \in Cycles /\ CycleOf(b, absent[u], now) /\ b.on
      /\ absent \in [Users -> BOOLEAN] /\ cycle \in [Users -> Cycles]
      /\ now \in Nat /\ macroCache \in [at : Int, born : Int]
  BY DEF IntelInv, IntelTypes
<1>2. /\ has \in [ReportKinds -> Int] /\ age \in Int
      /\ \A j \in ReportKinds : has[j] # Unborn => has[j] >= b.hour
      /\ age < HourLen + MacroTTL
  <2>1. b.has \in [ReportKinds -> Int] /\ b.age \in Int /\ b.age < HourLen + MacroTTL
        /\ \A j \in ReportKinds : b.has[j] # Unborn => b.has[j] >= b.hour
    BY <1>1 DEF Cycles, CycleOf
  <2>2. e.hour \in Int /\ e.born \in Int
    OBVIOUS
  <2>3. age \in Int /\ age < HourLen + MacroTTL
    BY <1>1, <2>1, <2>2, IntelAssumption
  <2> QED
    BY <2>1, <2>2, <2>3
<1>3. cycle' = [cycle EXCEPT ![u] = c]
  BY <1>1 DEF Takes, With, Cycles
<1> HIDE DEF b, has, age
<1>4. /\ c \in Cycles /\ c.on = b.on /\ c.hour = b.hour /\ c.call = NoCall /\ c.has = has
      /\ c.age = age /\ c.arts = b.arts /\ c.timeouts = b.timeouts
  BY <1>1, <1>2, NoCallType DEF Cycles
<1> HIDE DEF c
<1>5. CycleOf(c, absent[u], now)
  BY <1>1, <1>2, <1>4, NoCallType DEF CycleOf, CallOf
<1>6. absent' = [absent EXCEPT ![u] = absent[u]] /\ absent[u] \in BOOLEAN
  BY <1>1
<1>7. /\ cycle' \in [Users -> Cycles]
      /\ \A v \in Users : CycleOf(cycle[v], absent[v], now)'
  BY <1>3, <1>4, <1>5, <1>6, UserMoves
<1>8. macroCache' \in {macroCache} \cup
         (IF k = "macro_report" THEN {[at |-> now, born |-> e.born]} ELSE {})
  BY DEF Takes, Cached
<1>9. CASE macroCache' = macroCache
  BY <1>1, <1>7, <1>9 DEF IntelInv, ReportsOf
<1>10. CASE k = "macro_report" /\ macroCache' = [at |-> now, born |-> e.born]
  <2>1. e.born \in Int
    OBVIOUS
  <2>2. /\ macroCache' \in [at : Int, born : Int]
        /\ macroCache'.at = now /\ macroCache'.born = e.born
    BY <1>1, <1>10, <2>1
  <2> QED
    BY <1>7, <1>10, <2>2
<1> QED
  BY <1>8, <1>9, <1>10

\* What peek finds for an hour.
LEMMA PeekIsRecent ==
  ASSUME IntelInv, NEW k \in ReportKinds, NEW h \in Nat, NEW e \in Peek(k, h),
         now <= HourStart(h) + HourLen
  PROVE  /\ e \in [hour : Int, born : Int] /\ e.hour = h
         /\ k = "macro_report" => now - e.born <= HourLen
<1>1. e = intel[k] /\ e.hour = h /\ e \in [hour : Int, born : Int]
  BY DEF Peek, IntelInv, IntelTypes
<1>2. now \in Nat /\ HourStart(h) \in Int /\ e.born \in Int
  BY <1>1, IntelAssumption DEF IntelInv, IntelTypes, HourStart
<1>3. ASSUME k = "macro_report" PROVE e.born >= HourStart(h)
  BY <1>1, <1>3 DEF IntelInv, ReportsOf, Unborn
<1> QED
  BY <1>1, <1>2, <1>3, IntelAssumption

LEMMA AskStep ==
  ASSUME IntelInv, NEW u \in Users, Ask(u)
  PROVE  IntelInv'
<1>1. /\ cycle[u].on /\ cycle[u].call = NoCall /\ UNCHANGED <<now, absent, intel, crawled, pending>>
      /\ cycle[u] \in Cycles /\ CycleOf(cycle[u], absent[u], now)
      /\ absent \in [Users -> BOOLEAN] /\ now \in Nat
  BY DEF Ask, IntelInv, IntelTypes
<1>2. /\ Hour(now) \in Nat /\ HourStart(Hour(now)) \in Nat
      /\ now < HourStart(Hour(now)) + HourLen
  BY <1>1, HourBounds
<1>3. /\ cycle[u].hour \in Int /\ Hour(now) >= cycle[u].hour
  BY <1>1, <1>2 DEF Cycles, CycleOf
<1>4. PICK k \in Wants(u) :
        \/ \E e \in Peek(k, Hour(now)) : ~Computes(u) /\ Takes(u, k, e)
        \/ /\ Computes(u) \/ Peek(k, Hour(now)) = {}
           /\ cycle' = [cycle EXCEPT ![u].call =
                          [at |-> IF Computes(u) THEN "computing" ELSE "waiting",
                           kind |-> k, hour |-> Hour(now), late |-> FALSE]]
           /\ UNCHANGED macroCache
  BY DEF Ask
<1>5. k \in ReportKinds
  BY DEF Wants
<1>6. CASE \E e \in Peek(k, Hour(now)) : ~Computes(u) /\ Takes(u, k, e)
  <2>1. PICK e \in Peek(k, Hour(now)) : Takes(u, k, e)
    BY <1>6
  <2>2. now <= HourStart(Hour(now)) + HourLen
    BY <1>1, <1>2, IntelAssumption
  <2>3. /\ e \in [hour : Int, born : Int] /\ e.hour = Hour(now)
        /\ k = "macro_report" => now - e.born <= HourLen
    BY <1>2, <1>5, <2>1, <2>2, PeekIsRecent
  <2>4. e.hour >= cycle[u].hour
    BY <1>3, <2>3
  <2>5. /\ cycle' \in [Users -> Cycles]
        /\ \A v \in Users : CycleOf(cycle[v], absent[v], now)'
        /\ macroCache' \in [at : Int, born : Int]
        /\ macroCache'.at # Unborn => macroCache'.at - macroCache'.born <= HourLen
    BY <1>1, <1>5, <2>1, <2>3, <2>4, TakesStep
  <2> QED
    BY <1>1, <2>5 DEF IntelInv, IntelTypes, ReportsOf
<1>7. CASE /\ cycle' = [cycle EXCEPT ![u].call =
                          [at |-> IF Computes(u) THEN "computing" ELSE "waiting",
                           kind |-> k, hour |-> Hour(now), late |-> FALSE]]
           /\ UNCHANGED macroCache
  <2> DEFINE b == cycle[u]
             at == IF Computes(u) THEN "computing" ELSE "waiting"
             hour == Hour(now)
             call == [at |-> at, kind |-> k, hour |-> hour, late |-> FALSE]
             c == [b EXCEPT !.call = call]
  <2>1. cycle' = [cycle EXCEPT ![u] = c]
    BY <1>7
  <2>2. at \in {"computing", "waiting"} /\ (at = "waiting" => ~absent[u])
    BY DEF Computes
  <2>3. hour \in Nat
    BY <1>2
  <2> HIDE DEF at, hour
  <2>4. /\ call \in Calls /\ call.at = at /\ call.kind = k /\ call.hour = hour
    BY <1>5, <2>2, <2>3 DEF Calls
  <2> HIDE DEF b, call
  <2>5. /\ c \in Cycles /\ c.on = b.on /\ c.hour = b.hour /\ c.call = call /\ c.has = b.has
        /\ c.age = b.age /\ c.arts = b.arts /\ c.timeouts = b.timeouts
    BY <1>1, <2>4 DEF Cycles, b
  <2> HIDE DEF c
  <2>6. CallOf(c, absent[u], now)
    BY <1>1, <1>2, <1>3, <1>5, <2>2, <2>4, <2>5, IntelAssumption DEF CallOf, hour, b
  <2>7. CycleOf(c, absent[u], now)
    BY <1>1, <2>5, <2>6 DEF CycleOf, b
  <2>8. absent' = [absent EXCEPT ![u] = absent[u]] /\ absent[u] \in BOOLEAN
    BY <1>1
  <2>9. /\ cycle' \in [Users -> Cycles]
        /\ \A v \in Users : CycleOf(cycle[v], absent[v], now)'
    BY <1>1, <2>1, <2>5, <2>7, <2>8, UserMoves
  <2> QED
    BY <1>1, <1>7, <2>9 DEF IntelInv, IntelTypes, ReportsOf
<1> QED
  BY <1>4, <1>6, <1>7

LEMMA TakeCachedStep ==
  ASSUME IntelInv, NEW u \in Users, TakeCached(u)
  PROVE  IntelInv'
<1> DEFINE b == cycle[u]
           hour == Hour(now)
           has == [b.has EXCEPT !["macro_report"] = hour]
           age == now - macroCache.born
           c == [b EXCEPT !.has = has, !.age = age]
<1>1. /\ b.on /\ UNCHANGED <<now, absent, intel, macroCache, crawled, pending>>
      /\ b \in Cycles /\ CycleOf(b, absent[u], now)
      /\ absent \in [Users -> BOOLEAN] /\ cycle \in [Users -> Cycles] /\ now \in Nat
      /\ macroCache.at \in Int /\ macroCache.born \in Int
      /\ macroCache.at # Unborn /\ now - macroCache.at < MacroTTL
      /\ macroCache.at - macroCache.born <= HourLen
  BY DEF TakeCached, IntelInv, IntelTypes, UsesCache, CacheIsFresh, CacheAfterUse, ReportsOf
<1>2. hour \in Nat /\ b.hour \in Int /\ b.hour <= hour /\ b.has \in [ReportKinds -> Int]
      /\ \A k \in ReportKinds : b.has[k] # Unborn => b.has[k] >= b.hour
  BY <1>1, HourBounds DEF Cycles, CycleOf
<1>3. age \in Int /\ age < HourLen + MacroTTL
  BY <1>1, IntelAssumption
<1>4. cycle' = [cycle EXCEPT ![u] = c]
  BY <1>1 DEF TakeCached
<1> HIDE DEF b, hour, age
<1>5. has \in [ReportKinds -> Int] /\ \A k \in ReportKinds : has[k] # Unborn => has[k] >= b.hour
  <2>1. has \in [ReportKinds -> Int]
    <3>1. hour \in Int /\ b.has \in [ReportKinds -> Int]
      BY <1>2
    <3> QED
      BY <3>1
  <2>2. ASSUME NEW k \in ReportKinds PROVE has[k] = hour \/ has[k] = b.has[k]
    BY <1>2
  <2>3. hour >= b.hour
    BY <1>2
  <2> HIDE DEF has
  <2> QED
    BY <1>2, <2>1, <2>2, <2>3
<1> HIDE DEF has
<1>6. /\ c \in Cycles /\ c.on = b.on /\ c.hour = b.hour /\ c.call = b.call /\ c.has = has
      /\ c.age = age /\ c.arts = b.arts /\ c.timeouts = b.timeouts
  BY <1>1, <1>3, <1>5 DEF Cycles
<1> HIDE DEF c
<1>7. CycleOf(c, absent[u], now)
  BY <1>1, <1>3, <1>5, <1>6 DEF CycleOf, CallOf
<1>8. absent' = [absent EXCEPT ![u] = absent[u]] /\ absent[u] \in BOOLEAN
  BY <1>1
<1>9. /\ cycle' \in [Users -> Cycles]
      /\ \A v \in Users : CycleOf(cycle[v], absent[v], now)'
  BY <1>1, <1>4, <1>6, <1>7, <1>8, UserMoves
<1> QED
  BY <1>1, <1>9 DEF IntelInv, IntelTypes, ReportsOf

LEMMA AnsweredStep ==
  ASSUME IntelInv, NEW u \in Users, Answered(u)
  PROVE  IntelInv'
<1> DEFINE k == cycle[u].call.kind
           hour == cycle[u].call.hour
           born == IF k = "macro_report" THEN now ELSE Unborn
           e == [hour |-> hour, born |-> born]
<1>1. /\ cycle[u] \in Cycles /\ CycleOf(cycle[u], absent[u], now) /\ now \in Nat
      /\ cycle[u].call.at = "computing"
      /\ UNCHANGED <<now, absent, crawled, pending>>
      /\ Takes(u, k, e)
      /\ intel' = intel \/ intel' = [intel EXCEPT ![k] = e]
  BY DEF Answered, IntelInv, IntelTypes
<1>2. /\ cycle[u].on /\ k \in ReportKinds /\ hour \in Nat /\ hour >= cycle[u].hour
      /\ hour <= Hour(now)
  BY <1>1, NoCallType DEF CycleOf, CallOf, Cycles
<1>3. born \in Int /\ (k = "macro_report" => born = now)
  BY <1>1 DEF Unborn
<1> HIDE DEF k, hour, born
<1>4. e \in [hour : Int, born : Int] /\ e.hour = hour /\ e.born = born
  BY <1>2, <1>3
<1> HIDE DEF e
<1>5. k = "macro_report" => now - e.born <= HourLen
  BY <1>1, <1>3, <1>4, IntelAssumption
<1>6. e.hour >= cycle[u].hour
  BY <1>2, <1>4
<1>7. /\ cycle' \in [Users -> Cycles]
      /\ \A v \in Users : CycleOf(cycle[v], absent[v], now)'
      /\ macroCache' \in [at : Int, born : Int]
      /\ macroCache'.at # Unborn => macroCache'.at - macroCache'.born <= HourLen
  BY <1>1, <1>2, <1>4, <1>5, <1>6, TakesStep
<1>8. intel' \in [ReportKinds -> [hour : Int, born : Int]]
  BY <1>1, <1>2, <1>4 DEF IntelInv, IntelTypes
<1>9. intel'["macro_report"].hour # Unborn =>
        intel'["macro_report"].born >= HourStart(intel'["macro_report"].hour)
  <2>1. CASE intel'["macro_report"] = intel["macro_report"]
    BY <2>1 DEF IntelInv, ReportsOf
  <2>2. CASE k = "macro_report" /\ intel'["macro_report"] = e
    <3>1. Hour(now) \in Nat /\ HourStart(Hour(now)) <= now /\ HourStart(Hour(now)) \in Nat
      BY <1>1, HourBounds
    <3>2. HourStart(hour) \in Int /\ HourStart(hour) <= HourStart(Hour(now))
      <4>1. hour \in Int /\ Hour(now) \in Int /\ hour <= Hour(now)
        BY <1>2, <3>1
      <4> QED
        BY <4>1, StartGrows
    <3>3. e.born = now
      BY <1>3, <1>4, <2>2
    <3> QED
      BY <1>1, <1>4, <2>2, <3>1, <3>2, <3>3
  <2>3. "macro_report" \in ReportKinds /\ intel \in [ReportKinds -> [hour : Int, born : Int]]
    BY DEF ReportKinds, IntelInv, IntelTypes
  <2> QED
    BY <1>1, <1>2, <2>1, <2>2, <2>3
<1> QED
  BY <1>1, <1>7, <1>8, <1>9 DEF IntelInv, IntelTypes, ReportsOf

LEMMA ReceivedStep ==
  ASSUME IntelInv, NEW u \in Users, Received(u)
  PROVE  IntelInv'
<1> DEFINE k == cycle[u].call.kind
           hour == cycle[u].call.hour
<1>1. /\ cycle[u] \in Cycles /\ CycleOf(cycle[u], absent[u], now) /\ now \in Nat
      /\ cycle[u].call.at = "waiting"
      /\ UNCHANGED <<now, absent, intel, crawled, pending>>
  BY DEF Received, IntelInv, IntelTypes
<1>2. PICK e \in Peek(k, hour) : Takes(u, k, e)
  BY DEF Received
<1>3. /\ cycle[u].on /\ k \in ReportKinds /\ hour \in Nat /\ hour >= cycle[u].hour
      /\ now <= HourStart(hour) + HourLen
  BY <1>1, NoCallType DEF CycleOf, CallOf, Cycles
<1> HIDE DEF k, hour
<1>4. /\ e \in [hour : Int, born : Int] /\ e.hour = hour
      /\ k = "macro_report" => now - e.born <= HourLen
  BY <1>2, <1>3, PeekIsRecent
<1>5. e.hour >= cycle[u].hour
  BY <1>3, <1>4
<1>6. /\ cycle' \in [Users -> Cycles]
      /\ \A v \in Users : CycleOf(cycle[v], absent[v], now)'
      /\ macroCache' \in [at : Int, born : Int]
      /\ macroCache'.at # Unborn => macroCache'.at - macroCache'.born <= HourLen
  BY <1>1, <1>2, <1>3, <1>4, <1>5, TakesStep
<1> QED
  BY <1>1, <1>6 DEF IntelInv, IntelTypes, ReportsOf

LEMMA TimeoutStep ==
  ASSUME IntelInv, NEW u \in Users, WaitTimesOut(u)
  PROVE  IntelInv'
<1> DEFINE b == cycle[u]
           call == [b.call EXCEPT !.at = "computing", !.late = FALSE]
           timeouts == b.timeouts + 1
           c == [b EXCEPT !.call = call, !.timeouts = timeouts]
<1>1. /\ b \in Cycles /\ CycleOf(b, absent[u], now) /\ now \in Nat /\ b.call.at = "waiting"
      /\ UNCHANGED <<now, intel, macroCache, crawled, pending>>
      /\ absent' = [absent EXCEPT ![u] = TRUE] /\ cycle \in [Users -> Cycles]
      /\ absent \in [Users -> BOOLEAN]
  BY DEF WaitTimesOut, IntelInv, IntelTypes, FlagAtTimeout
<1>2. /\ b.on /\ b.timeouts = 0 /\ b.call \in Calls /\ b.call.kind \in ReportKinds
      /\ b.call.hour >= b.hour /\ b.call.hour <= Hour(now) /\ b.call.hour \in Nat
  BY <1>1, NoCallType DEF CycleOf, CallOf, Cycles
<1>3. cycle' = [cycle EXCEPT ![u] = c]
  BY <1>1 DEF WaitTimesOut, Cycles
<1>4. timeouts = 1
  BY <1>2
<1> HIDE DEF b, timeouts
<1>5. /\ call \in Calls /\ call.at = "computing" /\ call.kind = b.call.kind
      /\ call.hour = b.call.hour
  BY <1>2 DEF Calls
<1> HIDE DEF call
<1>6. /\ c \in Cycles /\ c.on = b.on /\ c.hour = b.hour /\ c.call = call /\ c.has = b.has
      /\ c.age = b.age /\ c.arts = b.arts /\ c.timeouts = 1
  <2>1. b \in Cycles /\ timeouts \in Int
    BY <1>1, <1>4
  <2>2. /\ c \in Cycles /\ c.on = b.on /\ c.hour = b.hour /\ c.call = call /\ c.has = b.has
        /\ c.age = b.age /\ c.arts = b.arts /\ c.timeouts = timeouts
    BY <1>5, <2>1 DEF Cycles
  <2> QED
    BY <1>4, <2>2
<1> HIDE DEF c
<1>7. CallOf(c, TRUE, now)
  BY <1>2, <1>5, <1>6 DEF CallOf
<1>8. CycleOf(c, TRUE, now)
  BY <1>1, <1>2, <1>6, <1>7 DEF CycleOf
<1>9. /\ cycle' \in [Users -> Cycles] /\ absent' \in [Users -> BOOLEAN]
      /\ \A v \in Users : CycleOf(cycle[v], absent[v], now)'
  BY <1>1, <1>3, <1>6, <1>8, UserMoves
<1> QED
  BY <1>1, <1>9 DEF IntelInv, IntelTypes, ReportsOf

----------------------------------------------------------------------------
(* Market intelligence: the theorems.                                      *)

LEMMA IntelStep ==
  ASSUME IntelInv, [IntelNext]_intelVars
  PROVE  IntelInv'
<1>1. CASE Tick
  BY <1>1, TickStep
<1>2. ASSUME NEW u \in Users, LoopStep(u) PROVE IntelInv'
  BY <1>2, CrawlStep, BeginStep, EndStep, AskStep, TakeCachedStep, AnsweredStep,
     ReceivedStep, TimeoutStep DEF LoopStep
<1>3. CASE UNCHANGED intelVars
  BY <1>3 DEF intelVars, IntelInv, IntelTypes, CycleOf, CallOf, Hour, ReportsOf
<1> QED
  BY <1>1, <1>2, <1>3 DEF IntelNext

LEMMA IntelIsInv == IntelSpec => []IntelInv
BY IntelStarts, IntelStep, PTL DEF IntelSpec

\* Every variable keeps its type.
THEOREM IntelTyped == IntelSpec => []IntelTypeOK
BY IntelIsInv, IntelProperties, PTL

\* No cycle rests on a report of an hour before its own.
THEOREM NewsOfTheHour == IntelSpec => []NewsIsOfTheHour
BY IntelIsInv, IntelProperties, PTL

\* No macro report is used later than the store's hour and the cache's limit
\* after it was made.
THEOREM MacroRecent == IntelSpec => []MacroIsRecent
BY IntelIsInv, IntelProperties, PTL

\* A cycle waits in vain for the producer once at most, and its flag says so.
THEOREM AbsenceOfThisCycle == IntelSpec => []AbsenceIsOfThisCycle
BY IntelIsInv, IntelProperties, PTL
=============================================================================
